---------------------------- MODULE ChaChaStream ----------------------------
(***************************************************************************)
(* What the unrestricted ChaCha20 cipher of src/src/crypto/chacha20.h      *)
(* promises its caller: a position in the keystream of a key and a 64-bit  *)
(* nonce.  The keystream is read in the 64/64 view the header names: the   *)
(* first word of the 96-bit nonce is the high word of a 64-bit block       *)
(* counter.  Seek64 sets the position, Keystream and Crypt use the bytes   *)
(* from it on, in order and none twice, however the calls cut the stream   *)
(* into pieces.  The header gives two accounts of a call that ends inside  *)
(* a block: the class comment (line 63) has the cipher seek forward to the *)
(* next multiple of 64 bytes, the buffer of the rest of a block (lines     *)
(* 25-26, 85) has the next call go on where this one ended.  The promise   *)
(* is what both keep.                                                      *)
(*                                                                         *)
(* SetKey alone promises no position: the next bytes are only defined      *)
(* after a Seek64.                                                         *)
(***************************************************************************)
EXTENDS Naturals, Sequences

CONSTANTS
    Keys,           \* the keys
    Nonces,         \* the 64-bit nonces
    BLOCKLEN,       \* the bytes of a block
    StreamBlocks,   \* the blocks of a keystream: the range of the 64-bit counter
    MaxBytes        \* the most bytes one call asks for

ASSUME /\ Keys # {} /\ Nonces # {}
       /\ BLOCKLEN \in Nat \ {0}
       /\ StreamBlocks \in Nat \ {0}
       /\ MaxBytes \in Nat

VARIABLES
    key,            \* the key of the cipher
    nonce,          \* its nonce
    pos,            \* the position of the next byte in the keystream
    positioned,     \* whether the next byte is the one at pos
    out             \* what the last call has output

vars == <<key, nonce, pos, positioned, out>>

StreamLen == StreamBlocks * BLOCKLEN

NextBlock(p) == ((p + BLOCKLEN - 1) \div BLOCKLEN) * BLOCKLEN

(***************************************************************************)
(* A byte of keystream is known by where it comes from; a byte Crypt       *)
(* outputs is a byte of the input combined with one of keystream.          *)
(***************************************************************************)
KeystreamBytes == [key : Keys, nonce : Nonces, pos : 0..StreamLen - 1]
KeystreamAt(p) == [key |-> key, nonce |-> nonce, pos |-> p % StreamLen]
Xor(i, byte)   == [input |-> i, keystream |-> byte]

Init ==
    /\ key \in Keys
    /\ nonce \in Nonces
    /\ pos \in {b * BLOCKLEN : b \in 0..StreamBlocks - 1}
    /\ positioned = TRUE
    /\ out = <<>>

SetKey ==
    /\ key' \in Keys
    /\ positioned' \in BOOLEAN
    /\ out' = <<>>
    /\ UNCHANGED <<nonce, pos>>

Seek64 ==
    /\ nonce' \in Nonces
    /\ pos' \in {b * BLOCKLEN : b \in 0..StreamBlocks - 1}
    /\ positioned' = TRUE
    /\ out' = <<>>
    /\ UNCHANGED key

(***************************************************************************)
(* A call for n bytes, each combined with the input by Combine: from a     *)
(* defined position it uses the n bytes at pos and moves past them, or on  *)
(* to the next block; from an undefined one it uses n bytes of some        *)
(* keystream.                                                              *)
(***************************************************************************)
Read(n, Combine(_, _)) ==
    /\ \/ /\ positioned
          /\ out' = [i \in 1..n |-> Combine(i, KeystreamAt(pos + i - 1))]
          /\ pos' \in {(pos + n) % StreamLen, NextBlock(pos + n) % StreamLen}
          /\ positioned' = TRUE
       \/ /\ ~positioned
          /\ \A i \in 1..Len(out') : \E b \in KeystreamBytes : out'[i] = Combine(i, b)
          /\ Len(out') = n
          /\ pos' \in 0..StreamLen - 1
          /\ positioned' \in BOOLEAN
    /\ UNCHANGED <<key, nonce>>

Keystream == \E n \in 0..MaxBytes : Read(n, LAMBDA i, b : b)
Crypt     == \E n \in 0..MaxBytes : Read(n, Xor)

Next == SetKey \/ Seek64 \/ Keystream \/ Crypt

Spec == Init /\ [][Next]_vars

=============================================================================
