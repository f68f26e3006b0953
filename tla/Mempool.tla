------------------------------ MODULE Mempool ------------------------------
(***************************************************************************)
(* The mempool as the replace-by-fee policy and its tests see it: a map    *)
(* from the txids in the pool to entries, and the queries of the mempool   *)
(* view (design document, sections 3 and 6).  The mempool's implementation *)
(* is not among the repository's sources.                                  *)
(*                                                                         *)
(* A txid is an integer, the value of the transaction's hash: the order of *)
(* two txids is the order an entry set is iterated in.  An entry keeps the *)
(* outpoints its transaction spends (vin), each the txid of a transaction, *)
(* in the pool or confirmed, and the index of one of its outputs.          *)
(***************************************************************************)
EXTENDS FeeFrac, FiniteSets
LOCAL INSTANCE FiniteSetsExt

COutPoint(txid, n) == <<txid, n>>

(***************************************************************************)
(* The txids the outpoints of vin spend from.                              *)
(***************************************************************************)
PrevoutHashes(vin) == {prevout[1] : prevout \in vin}

MempoolEntry(vin, vsize, fee) ==
    [vin |-> vin, vsize |-> vsize, fee |-> fee, delta |-> 0]

EmptyPool == [t \in {} |-> MempoolEntry({}, 1, 0)]

exists(pool, txid) == txid \in DOMAIN pool

addUnchecked(pool, txid, entry) ==
    [t \in DOMAIN pool \cup {txid} |-> IF t = txid THEN entry ELSE pool[t]]

(***************************************************************************)
(* A prioritisation adds to the delta of the entry, and so to its modified *)
(* fee; the base fee stays.                                                *)
(***************************************************************************)
PrioritiseTransaction(pool, txid, nFeeDelta) ==
    [t \in DOMAIN pool |->
        IF t = txid THEN [pool[t] EXCEPT !.delta = @ + nFeeDelta] ELSE pool[t]]

GetFee(pool, t)         == pool[t].fee
GetModifiedFee(pool, t) == pool[t].fee + pool[t].delta
GetTxSize(pool, t)      == pool[t].vsize

(***************************************************************************)
(* The individual feerate of an entry, from its modified fee.              *)
(***************************************************************************)
Individual(pool, t) == FeeFrac(GetModifiedFee(pool, t), GetTxSize(pool, t))

GetMemPoolParents(pool, t)  == PrevoutHashes(pool[t].vin) \cap DOMAIN pool
GetMemPoolChildren(pool, t) == {c \in DOMAIN pool : t \in PrevoutHashes(pool[c].vin)}

(***************************************************************************)
(* The least set that contains S and is closed under step.                 *)
(***************************************************************************)
RECURSIVE Closure(_, _)
Closure(step(_), S) ==
    LET more == S \cup UNION {step(t) : t \in S}
    IN  IF more = S THEN S ELSE Closure(step, more)

(***************************************************************************)
(* Descendants and ancestors in the pool, the entries of S included.       *)
(***************************************************************************)
CalculateDescendants(pool, S) ==
    Closure(LAMBDA t : GetMemPoolChildren(pool, t), S)

CalculateAncestors(pool, S) ==
    Closure(LAMBDA t : GetMemPoolParents(pool, t), S)

GetCountWithDescendants(pool, t) == Cardinality(CalculateDescendants(pool, {t}))
GetCountWithAncestors(pool, t)   == Cardinality(CalculateAncestors(pool, {t}))

(***************************************************************************)
(* The cluster of an entry: its connected component under parent/child.    *)
(***************************************************************************)
Cluster(pool, t) ==
    Closure(LAMBDA u : GetMemPoolParents(pool, u) \cup GetMemPoolChildren(pool, u), {t})

(***************************************************************************)
(* The entries of a set in the order the set is iterated in.               *)
(***************************************************************************)
RECURSIVE ByTxid(_)
ByTxid(S) ==
    IF S = {} THEN <<>> ELSE <<Min(S)>> \o ByTxid(S \ {Min(S)})

SumModifiedFees(pool, S) == MapThenSumSet(LAMBDA t : GetModifiedFee(pool, t), S)

=============================================================================
