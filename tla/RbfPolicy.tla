----------------------------- MODULE RbfPolicy -----------------------------
(***************************************************************************)
(* The replace-by-fee policy: the fee predicates, the conflict             *)
(* enumeration, the topology check, the diagram builder and the admission  *)
(* driver, as pure operators over a pool of module Mempool.                *)
(*                                                                         *)
(* The policy's implementation is not among the repository's sources.  The *)
(* operators follow the design document (section 4); where the document    *)
(* and the expectations of src/src/test/rbf_tests.cpp disagree the         *)
(* operator follows the test, and the document's reading is kept beside it *)
(* under a name ending in AsSpecified.                                     *)
(*                                                                         *)
(* An error is a tuple that starts with its kind and carries the txids and *)
(* the number its message is formatted from; NoError is std::nullopt.      *)
(***************************************************************************)
EXTENDS Mempool
LOCAL INSTANCE FiniteSetsExt

CONSTANTS
    MAX_REPLACEMENT_CANDIDATES  \* the most entries one replacement may evict

NoError == <<>>

(***************************************************************************)
(* The first error of a sequence of results, NoError when there is none.   *)
(***************************************************************************)
FirstError(results) ==
    LET failing == {i \in DOMAIN results : results[i] # NoError}
    IN  IF failing = {} THEN NoError
        ELSE results[CHOOSE i \in failing : \A j \in failing : i <= j]

----------------------------------------------------------------------------
(* Fee predicates.                                                         *)

(***************************************************************************)
(* The replacement's feerate must be strictly above the individual feerate *)
(* of every conflict.                                                      *)
(***************************************************************************)
PaysMoreThanConflicts(pool, iters_conflicting, replacement_feerate) ==
    IF \E mi \in iters_conflicting :
          FeeRateCompare(replacement_feerate, Individual(pool, mi)) <= 0
    THEN <<"insufficient fee">>
    ELSE NoError

(***************************************************************************)
(* The fee a feerate of relay_fee per 1000 virtual bytes asks for vsize.   *)
(***************************************************************************)
RelayFee(relay_fee, vsize) == (relay_fee * vsize) \div 1000

PaysForRBF(original_fees, replacement_fees, replacement_vsize, relay_fee) ==
    CASE replacement_fees < original_fees
            -> <<"less fees than conflicting txs">>
      [] /\ replacement_fees >= original_fees
         /\ replacement_fees - original_fees < RelayFee(relay_fee, replacement_vsize)
            -> <<"not enough additional fees to relay">>
      [] OTHER -> NoError

----------------------------------------------------------------------------
(* Conflict enumeration.                                                   *)

EntriesAndTxidsDisjoint(ancestors, direct_conflicts) ==
    IF ancestors \cap direct_conflicts # {}
    THEN <<"spends conflicting transaction">>
    ELSE NoError

(***************************************************************************)
(* all_conflicts: the direct conflicts and their descendants, unless they  *)
(* are more than the cap.                                                  *)
(***************************************************************************)
GetEntriesForConflicts(pool, iters_conflicting) ==
    LET closure == CalculateDescendants(pool, iters_conflicting)
    IN  IF Cardinality(closure) > MAX_REPLACEMENT_CANDIDATES
        THEN [error |-> <<"too many potential replacements">>, all_conflicts |-> {}]
        ELSE [error |-> NoError, all_conflicts |-> closure]

(***************************************************************************)
(* As the test expects it: an input is new when it is in the pool and no   *)
(* direct conflict spends from the same transaction.                       *)
(***************************************************************************)
HasNoNewUnconfirmed(pool, vin, iters_conflicting) ==
    LET parents_of_conflicts ==
            UNION {PrevoutHashes(pool[mi].vin) : mi \in iters_conflicting}
    IN  IF \E txid \in PrevoutHashes(vin) \ parents_of_conflicts : exists(pool, txid)
        THEN <<"replacement-adds-unconfirmed">>
        ELSE NoError

(***************************************************************************)
(* As the design document words it: an input is new when it is in the pool *)
(* and is not itself a direct conflict.                                    *)
(***************************************************************************)
HasNoNewUnconfirmedAsSpecified(pool, vin, iters_conflicting) ==
    IF \E txid \in PrevoutHashes(vin) \ iters_conflicting : exists(pool, txid)
    THEN <<"replacement-adds-unconfirmed">>
    ELSE NoError

----------------------------------------------------------------------------
(* Topology check.                                                         *)

(***************************************************************************)
(* The four rules for one direct conflict, in the order they are checked.  *)
(* The counts of the messages leave the entry itself out.                  *)
(***************************************************************************)
TopologyRules(pool, e) ==
    LET descendants == GetCountWithDescendants(pool, e) - 1
        ancestors   == GetCountWithAncestors(pool, e) - 1
        shared      == {c \in GetMemPoolChildren(pool, e) :
                            GetMemPoolParents(pool, c) # {e}}
        crowded     == {p \in GetMemPoolParents(pool, e) :
                            GetMemPoolChildren(pool, p) # {e}}
    IN  << IF descendants > 1 THEN <<"descendants", e, descendants>> ELSE NoError,
           IF ancestors > 1 THEN <<"ancestors", e, ancestors>> ELSE NoError,
           IF shared # {} THEN <<"not the only parent of child", e, Min(shared)>>
                          ELSE NoError,
           IF crowded # {} THEN <<"not the only child of parent", e, Min(crowded)>>
                           ELSE NoError >>

(***************************************************************************)
(* The reason of the first direct conflict, in the order of the set, that  *)
(* breaks a rule.                                                          *)
(***************************************************************************)
CheckConflictTopology(pool, direct_conflicts) ==
    LET order == ByTxid(direct_conflicts)
    IN  FirstError([i \in DOMAIN order |-> FirstError(TopologyRules(pool, order[i]))])

----------------------------------------------------------------------------
(* Diagram builder and admission driver.                                   *)

(***************************************************************************)
(* A child is chunked with its parent when its feerate is higher than the  *)
(* parent's; at equal feerates they stay two chunks, which is what the     *)
(* test expects.  The design document chunks them together at equal        *)
(* feerates as well.                                                       *)
(***************************************************************************)
CoalescesAsSpecified(pool, p, c) ==
    FeeRateCompare(Individual(pool, c), Individual(pool, p)) >= 0

Coalesces(pool, p, c) ==
    FeeRateCompare(Individual(pool, c), Individual(pool, p)) = 1

(***************************************************************************)
(* The entries of the clusters a replacement touches.                      *)
(***************************************************************************)
Affected(pool, all_conflicts) == UNION {Cluster(pool, e) : e \in all_conflicts}

(***************************************************************************)
(* The chunks of the affected clusters before the replacement: a child     *)
(* that coalesces with its parent carries the chunk of both, the parent    *)
(* then none; every other entry is a chunk of its own.                     *)
(***************************************************************************)
NoChunk == FeeFrac(0, 0)

OldChunkOf(pool, t) ==
    LET carriers == {c \in GetMemPoolChildren(pool, t) : Coalesces(pool, t, c)}
        carried  == {p \in GetMemPoolParents(pool, t) : Coalesces(pool, p, t)}
    IN  CASE carriers # {} -> NoChunk
          [] carriers = {} /\ carried # {}
                -> Plus(Individual(pool, Min(carried)), Individual(pool, t))
          [] OTHER -> Individual(pool, t)

ChunksOver(S, chunkOf(_)) ==
    LET order == ByTxid(S)
    IN  SelectSeq([i \in DOMAIN order |-> chunkOf(order[i])],
                  LAMBDA chunk : chunk # NoChunk)

(***************************************************************************)
(* The number of chunks of the affected clusters when a child of the same  *)
(* feerate as its parent is chunked with it.                               *)
(***************************************************************************)
ChunkCountAsSpecified(pool, all_conflicts) ==
    Cardinality({t \in Affected(pool, all_conflicts) :
                    \A c \in GetMemPoolChildren(pool, t) :
                        ~CoalescesAsSpecified(pool, t, c)})

(***************************************************************************)
(* The old and the new diagram of a replacement, or the error of the       *)
(* topology check.  The new diagram has the replacement as one chunk and   *)
(* the entries of the affected clusters that are not evicted as chunks of  *)
(* their own.                                                              *)
(***************************************************************************)
CalculateFeerateDiagramsForRBF(pool, replacement_fees, replacement_vsize, direct_conflicts, all_conflicts) ==
    LET affected   == Affected(pool, all_conflicts)
        old_chunks == ChunksOver(affected, LAMBDA t : OldChunkOf(pool, t))
        new_chunks == <<FeeFrac(replacement_fees, replacement_vsize)>>
                      \o ChunksOver(affected \ all_conflicts,
                                    LAMBDA t : Individual(pool, t))
    IN  [error |-> CheckConflictTopology(pool, direct_conflicts),
         old   |-> BuildDiagram(SortChunks(old_chunks)),
         new   |-> BuildDiagram(SortChunks(new_chunks))]

(***************************************************************************)
(* NoError when the new diagram is strictly better than the old one.       *)
(***************************************************************************)
ImprovesFeerateDiagram(pool, direct_conflicts, all_conflicts, replacement_fees, replacement_vsize) ==
    LET diagrams == CalculateFeerateDiagramsForRBF(pool, replacement_fees,
                        replacement_vsize, direct_conflicts, all_conflicts)
    IN  CASE diagrams.error # NoError
                -> <<"UNCALCULABLE", diagrams.error>>
          [] /\ diagrams.error = NoError
             /\ CompareFeerateDiagram(diagrams.old, diagrams.new) # "less"
                -> <<"FAILURE", <<"insufficient feerate: does not improve feerate diagram">> >>
          [] OTHER -> NoError

=============================================================================
