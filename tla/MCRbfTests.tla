----------------------------- MODULE MCRbfTests -----------------------------
(***************************************************************************)
(* RbfTests for TLC.  The amounts are scaled so that every product of a    *)
(* fee and a size stays within TLC's integers: CENT is 1000 where the      *)
(* tests have 1000000, and HugeVsize is 999999 where they have 99999999.   *)
(* The sizes are those of a transaction with a small witness per input and *)
(* a two-byte script per output.                                           *)
(***************************************************************************)
EXTENDS RbfTests

(***************************************************************************)
(* rbf_helper_functions creates 116 transactions.                          *)
(***************************************************************************)
MaxTxs == 116

(***************************************************************************)
(* Three hashes: txids in the order of creation, in the opposite order,    *)
(* and scattered (127 is prime).                                           *)
(***************************************************************************)
MCHashes ==
    { [i \in 1..MaxTxs |-> i],
      [i \in 1..MaxTxs |-> MaxTxs + 1 - i],
      [i \in 1..MaxTxs |-> 1 + ((i * 37) % 127)] }

=============================================================================
