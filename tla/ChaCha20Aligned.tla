--------------------------- MODULE ChaCha20Aligned ---------------------------
(***************************************************************************)
(* ChaCha20Aligned of src/src/crypto/chacha20.h: the cipher that works on  *)
(* whole blocks.  Its state is the input of the block function: the key,   *)
(* the 96-bit nonce (first, second) and the 32-bit block counter.  A block *)
(* of keystream is abstracted to the input it is computed from.            *)
(*                                                                         *)
(* The header declares the operations and says in its comments what they   *)
(* do (lines 15-18, 47-60); their bodies are in no file of the sources.    *)
(* Each operator is the comment of its declaration and nothing more.       *)
(***************************************************************************)
EXTENDS Naturals, Sequences

CONSTANTS
    Keys,           \* the keys
    Seconds,        \* the values of the last 8 bytes of the nonce
    COUNTER_LIMIT,  \* the range of the 32-bit block counter: 2^32 in the code
    FIRST_LIMIT     \* the range of the first 4 bytes of the nonce: 2^32 in the code

ASSUME /\ Keys # {}
       /\ Seconds \subseteq Nat /\ Seconds # {}
       /\ COUNTER_LIMIT \in Nat \ {0}
       /\ FIRST_LIMIT \in Nat \ {0}

Nonce96 == (0..FIRST_LIMIT - 1) \X Seconds

ChaCha20Aligned ==
    [key : Keys, first : 0..FIRST_LIMIT - 1, second : Seconds, counter : 0..COUNTER_LIMIT - 1]

SetKey(aligned, key) == [aligned EXCEPT !.key = key]

Seek64(aligned, nonce, block_counter) ==
    [aligned EXCEPT !.first = nonce[1], !.second = nonce[2], !.counter = block_counter]

(***************************************************************************)
(* The position after some blocks: the block counter wraps at its limit    *)
(* and each wrap increments the first word of the nonce, which wraps too.  *)
(***************************************************************************)
Advance(aligned, blocks) ==
    [aligned EXCEPT !.counter = (@ + blocks) % COUNTER_LIMIT,
                    !.first = (@ + (aligned.counter + blocks) \div COUNTER_LIMIT) % FIRST_LIMIT]

(***************************************************************************)
(* Keystream64 gives the blocks at the position and moves past them.       *)
(***************************************************************************)
Keystream64(aligned, blocks) ==
    [aligned |-> Advance(aligned, blocks), c |-> [b \in 1..blocks |-> Advance(aligned, b - 1)]]

=============================================================================
