------------------------------ MODULE ChaCha20 ------------------------------
(***************************************************************************)
(* The unrestricted ChaCha20 cipher of src/src/crypto/chacha20.h: a        *)
(* ChaCha20Aligned, and a buffer with the bytes of the last block that no  *)
(* call has used yet.                                                      *)
(*                                                                         *)
(* What is code: SetKey (line 76) and Seek64 (lines 82-86), with their     *)
(* bodies.  The header declares m_buffer and m_bufleft (lines 25-26)       *)
(* inside ChaCha20Aligned, next to a member of its own type; they are read *)
(* here as the members of ChaCha20 that Seek64 (line 85) assigns.          *)
(*                                                                         *)
(* What is not: Keystream and Crypt are declared (lines 88-94) and defined *)
(* in no file of the sources, and the header gives two accounts of a call  *)
(* that ends inside a block.  The buffer and its reset in Seek64 say the   *)
(* rest of the block is kept for the next call; the class comment (line    *)
(* 63) says the cipher seeks forward to a multiple of 64 bytes after every *)
(* operation, so the rest is skipped.  A call of the model takes either    *)
(* (keep): what holds of the model holds of a build of either account.     *)
(***************************************************************************)
EXTENDS ChaCha20Aligned

CONSTANTS
    BLOCKLEN,       \* the bytes of a block: 64 in the code
    MaxBytes        \* the most bytes one call asks for

ASSUME /\ BLOCKLEN \in Nat \ {0}
       /\ MaxBytes \in Nat

VARIABLES
    m_aligned,      \* the cipher on whole blocks
    m_buffer,       \* the last block generated for a partial use
    m_bufleft,      \* how many bytes at the end of m_buffer are unused
    out             \* what the last call has written to its output

vars == <<m_aligned, m_buffer, m_bufleft, out>>

(***************************************************************************)
(* m_buffer[64] = {0}: a block that is no keystream.                       *)
(***************************************************************************)
Zeroes == [key |-> "zeroes", first |-> 0, second |-> 0, counter |-> 0]

Byte(block, offset) == [block |-> block, offset |-> offset]
Xor(i, byte)        == [input |-> i, keystream |-> byte]

----------------------------------------------------------------------------

Init ==
    /\ m_aligned \in ChaCha20Aligned
    /\ m_buffer = Zeroes
    /\ m_bufleft = 0
    /\ out = <<>>

ChaCha20SetKey(key) ==
    /\ m_aligned' = SetKey(m_aligned, key)
    /\ out' = <<>>
    /\ UNCHANGED <<m_buffer, m_bufleft>>

SeekKeepsBuffer(nonce, block_counter) ==
    /\ m_aligned' = Seek64(m_aligned, nonce, block_counter)
    /\ out' = <<>>
    /\ UNCHANGED <<m_buffer, m_bufleft>>

ChaCha20Seek64(nonce, block_counter) ==
    /\ m_aligned' = Seek64(m_aligned, nonce, block_counter)
    /\ m_bufleft' = 0
    /\ out' = <<>>
    /\ UNCHANGED m_buffer

bufleft_of_last_block(reuse, tail, keep) ==
    IF keep THEN BLOCKLEN - tail ELSE 0

(***************************************************************************)
(* The unused bytes of m_buffer after a call that took reuse bytes from it *)
(* and tail bytes of one more block.                                       *)
(***************************************************************************)
bufleft_after(reuse, tail, keep) ==
    IF ~keep THEN 0
    ELSE IF tail = 0 THEN m_bufleft - reuse
    ELSE BLOCKLEN - tail

(***************************************************************************)
(* The keystream of a call for some bytes: first what is left in the       *)
(* buffer, then whole blocks, then the head of one more block, whose rest  *)
(* stays in the buffer or is skipped.                                      *)
(***************************************************************************)
StreamFrom(bytes, keep) ==
    LET reuse == IF m_bufleft < bytes THEN m_bufleft ELSE bytes
        rest  == bytes - reuse
        whole == Keystream64(m_aligned, rest \div BLOCKLEN)
        tail  == rest % BLOCKLEN
        last  == Keystream64(whole.aligned, IF tail = 0 THEN 0 ELSE 1)
        fresh == whole.c \o last.c
    IN  [aligned |-> last.aligned,
         buffer  |-> IF tail = 0 THEN m_buffer ELSE last.c[1],
         bufleft |-> bufleft_after(reuse, tail, keep),
         bytes   |-> [i \in 1..bytes |->
                        IF i <= reuse
                        THEN Byte(m_buffer, BLOCKLEN - m_bufleft + i - 1)
                        ELSE Byte(fresh[(i - reuse - 1) \div BLOCKLEN + 1],
                                  (i - reuse - 1) % BLOCKLEN)]]

Keystream(bytes, keep) ==
    LET stream == StreamFrom(bytes, keep)
    IN  /\ m_aligned' = stream.aligned
        /\ m_buffer' = stream.buffer
        /\ m_bufleft' = stream.bufleft
        /\ out' = stream.bytes

Crypt(bytes, keep) ==
    LET stream == StreamFrom(bytes, keep)
    IN  /\ m_aligned' = stream.aligned
        /\ m_buffer' = stream.buffer
        /\ m_bufleft' = stream.bufleft
        /\ out' = [i \in 1..bytes |-> Xor(i, stream.bytes[i])]

Next ==
    \/ \E key \in Keys : ChaCha20SetKey(key)
    \/ \E nonce \in Nonce96, block_counter \in 0..COUNTER_LIMIT - 1 :
            ChaCha20Seek64(nonce, block_counter)
    \/ \E bytes \in 0..MaxBytes, keep \in BOOLEAN : Keystream(bytes, keep)
    \/ \E bytes \in 0..MaxBytes, keep \in BOOLEAN : Crypt(bytes, keep)

Spec == Init /\ [][Next]_vars

----------------------------------------------------------------------------
(* The cipher as a position in a keystream.                                *)

BlockIndex(block) == block.first * COUNTER_LIMIT + block.counter
StreamBlocks      == FIRST_LIMIT * COUNTER_LIMIT

(***************************************************************************)
(* The buffer holds nothing, or the end of the block just before the       *)
(* position of m_aligned.                                                  *)
(***************************************************************************)
Coherent ==
    \/ m_bufleft = 0
    \/ /\ m_buffer.key = m_aligned.key
       /\ m_buffer.second = m_aligned.second
       /\ (BlockIndex(m_buffer) + 1) % StreamBlocks = BlockIndex(m_aligned)

StreamByte(byte) ==
    [key |-> byte.block.key, nonce |-> byte.block.second,
     pos |-> BlockIndex(byte.block) * BLOCKLEN + byte.offset]

StreamOut ==
    [i \in DOMAIN out |->
        IF "input" \in DOMAIN out[i]
        THEN Xor(out[i].input, StreamByte(out[i].keystream))
        ELSE StreamByte(out[i])]

Stream ==
    INSTANCE ChaChaStream
    WITH key <- m_aligned.key,
         nonce <- m_aligned.second,
         pos <- (BlockIndex(m_aligned) * BLOCKLEN + StreamBlocks * BLOCKLEN - m_bufleft)
                    % (StreamBlocks * BLOCKLEN),
         positioned <- Coherent,
         out <- StreamOut,
         Nonces <- Seconds

----------------------------------------------------------------------------

(***************************************************************************)
(* The cipher state keeps its widths: the block counter and the first word *)
(* of the nonce stay below their limits when the position moves, and fewer *)
(* bytes are left in the buffer than a block has.                          *)
(***************************************************************************)
TypeOK ==
    /\ m_aligned \in ChaCha20Aligned
    /\ m_buffer \in ChaCha20Aligned \cup {Zeroes}
    /\ m_bufleft \in 0..BLOCKLEN - 1
    /\ Len(out) \in 0..MaxBytes

(***************************************************************************)
(* ChaCha20 implements the keystream of ChaChaStream: after Seek64 the     *)
(* calls of Keystream and Crypt use bytes of the keystream of the key and  *)
(* the nonce in order and none twice, whatever the sizes of the calls are, *)
(* whether the rest of a block is kept or skipped, and across the overflow *)
(* of the 32-bit block counter.  It rests on Seek64 dropping the buffered  *)
(* bytes of the old position (m_bufleft = 0, line 85) and on the carry     *)
(* into the first word of the nonce (lines 16-18).                         *)
(***************************************************************************)
ImplementsStream == Stream!Spec

(***************************************************************************)
(* A call after SetKey uses keystream of the new key only: "set key"       *)
(* makes the cipher one of that key.  SetKey of ChaCha20 (line 76) passes  *)
(* the key to m_aligned and leaves m_bufleft as it is, where Seek64 (line  *)
(* 85) clears it; the bytes it leaves are there when the call before kept  *)
(* the rest of a block.                                                    *)
(***************************************************************************)
KeystreamIsOfCurrentKey ==
    \A i \in DOMAIN out :
        LET byte == IF "input" \in DOMAIN out[i] THEN out[i].keystream ELSE out[i]
        IN  byte.block.key = m_aligned.key

=============================================================================
