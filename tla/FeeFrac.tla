------------------------------ MODULE FeeFrac ------------------------------
(***************************************************************************)
(* The (fee, size) algebra of the replace-by-fee policy and its feerate    *)
(* diagrams.                                                               *)
(*                                                                         *)
(* A FeeFrac is a pair of a fee (an amount, possibly negative after a      *)
(* prioritisation) and a virtual size.  It stands either for a chunk (an   *)
(* incremental contribution) or for a point of a diagram (a cumulative     *)
(* one).  Feerates are never divided out: two of them are compared by      *)
(* cross-multiplication.                                                   *)
(*                                                                         *)
(* A diagram is the sequence of prefix sums of a list of chunks sorted by  *)
(* non-increasing feerate, rooted at (0, 0).  CompareFeerateDiagram walks  *)
(* two diagrams from left to right; the walk is written here as a step     *)
(* function over a small record so that module DiagramCompare can take it  *)
(* one loop iteration at a time and the policy can take it as a whole.     *)
(*                                                                         *)
(* The implementation of this algebra is not among the repository's        *)
(* sources: the definitions follow the design document (sections 3 and     *)
(* 4.1) and the expectations of src/src/test/rbf_tests.cpp.                *)
(***************************************************************************)
EXTENDS Integers, Sequences, TLC

FeeFrac(fee, size) == [fee |-> fee, size |-> size]

Plus(a, b)  == FeeFrac(a.fee + b.fee, a.size + b.size)
Minus(a, b) == FeeFrac(a.fee - b.fee, a.size - b.size)

Sign(n) == CASE n > 0 -> 1 [] n < 0 -> -1 [] OTHER -> 0

(***************************************************************************)
(* The order of two feerates, without division: 1 when a's feerate is the  *)
(* higher, -1 when it is the lower, 0 when they are equal.                 *)
(***************************************************************************)
FeeRateCompare(a, b) == Sign(a.fee * b.size - b.fee * a.size)

(***************************************************************************)
(* The order chunks are sorted in: higher feerate first, and of two chunks *)
(* of one feerate the smaller first.                                       *)
(***************************************************************************)
ChunkBefore(a, b) ==
    \/ FeeRateCompare(a, b) = 1
    \/ FeeRateCompare(a, b) = 0 /\ a.size < b.size

SortChunks(chunks) == SortSeq(chunks, ChunkBefore)

(***************************************************************************)
(* The diagram of a list of chunks: (0, 0) followed by the prefix sums.    *)
(***************************************************************************)
RECURSIVE PrefixSum(_, _)
PrefixSum(chunks, n) ==
    IF n = 0 THEN FeeFrac(0, 0) ELSE Plus(PrefixSum(chunks, n - 1), chunks[n])

BuildDiagram(chunks) == [i \in 1..Len(chunks) + 1 |-> PrefixSum(chunks, i - 1)]

(***************************************************************************)
(* The diagram written as a list of <<fee, size>> pairs.                   *)
(***************************************************************************)
DiagramOf(points) == [i \in DOMAIN points |-> FeeFrac(points[i][1], points[i][2])]

ChunksOf(dia) == [i \in 1..Len(dia) - 1 |-> Minus(dia[i + 1], dia[i])]

----------------------------------------------------------------------------
(* The walk of CompareFeerateDiagram.                                      *)

Sides == {0, 1}
Other(s) == 1 - s

(***************************************************************************)
(* Both diagrams start at (0, 0), which counts as processed: the first     *)
(* unprocessed point of each is its second one.                            *)
(***************************************************************************)
WalkStart == [next |-> [s \in Sides |-> 2], better |-> [s \in Sides |-> FALSE]]

Exhausted(dias, w, s) == w.next[s] > Len(dias[s])

NextPoint(dias, w, s) == dias[s][w.next[s]]
PrevPoint(dias, w, s) == dias[s][w.next[s] - 1]

(***************************************************************************)
(* The diagram whose next breakpoint is the nearer one; the one that has   *)
(* points left when the other is exhausted.                                *)
(***************************************************************************)
UnprocSide(dias, w) ==
    CASE Exhausted(dias, w, 0) -> 1
      [] Exhausted(dias, w, 1) -> 0
      [] OTHER -> IF NextPoint(dias, w, 0).size > NextPoint(dias, w, 1).size
                  THEN 1 ELSE 0

(***************************************************************************)
(* With P the next point of the unprocessed side and A, B the points       *)
(* around it on the other diagram: is P above (1), on (0) or below (-1)    *)
(* the segment AB?  When the other diagram has no point left it goes on    *)
(* horizontally from its last point (the tail rule).                       *)
(***************************************************************************)
NoTailCompare(dias, w) ==
    LET s == UnprocSide(dias, w)
        a == PrevPoint(dias, w, Other(s))
    IN  IF Exhausted(dias, w, Other(s)) THEN 0
        ELSE FeeRateCompare(Minus(NextPoint(dias, w, s), a),
                            Minus(NextPoint(dias, w, Other(s)), a))

SlopeCompare(dias, w) ==
    LET s       == UnprocSide(dias, w)
        a       == PrevPoint(dias, w, Other(s))
        slopeAP == Minus(NextPoint(dias, w, s), a)
    IN  IF Exhausted(dias, w, Other(s))
        THEN FeeRateCompare(slopeAP, FeeFrac(0, 1))
        ELSE FeeRateCompare(slopeAP, Minus(NextPoint(dias, w, Other(s)), a))

(***************************************************************************)
(* The indices after one iteration: P is processed, and with it the other  *)
(* diagram's next point when it stands at the same size.                   *)
(***************************************************************************)
SameSize(dias, w) ==
    LET s == UnprocSide(dias, w)
    IN  /\ ~Exhausted(dias, w, Other(s))
        /\ NextPoint(dias, w, Other(s)).size = NextPoint(dias, w, s).size

AdvanceBoth(dias, w) == [t \in Sides |-> w.next[t] + 1]

AdvanceStuck(dias, w) ==
    [t \in Sides |-> IF t = UnprocSide(dias, w) /\ ~Exhausted(dias, w, Other(t))
                     THEN w.next[t] + 1 ELSE w.next[t]]

Advance(dias, w) ==
    LET s == UnprocSide(dias, w)
    IN  [t \in Sides |->
            IF t = s \/ SameSize(dias, w) THEN w.next[t] + 1 ELSE w.next[t]]

WalkStep(dias, w) ==
    LET s   == UnprocSide(dias, w)
        cmp == SlopeCompare(dias, w)
    IN  [next   |-> Advance(dias, w),
         better |-> [t \in Sides |->
                        \/ w.better[t]
                        \/ t = s /\ cmp = 1
                        \/ t = Other(s) /\ cmp = -1]]

Incomparable(w) == \A s \in Sides : w.better[s]
WalkDone(dias, w) == Incomparable(w) \/ \A s \in Sides : Exhausted(dias, w, s)

(***************************************************************************)
(* The result, as the order of the first diagram relative to the second:   *)
(* "less" says that the second one is the better.                          *)
(***************************************************************************)
Orderings == {"less", "equal", "greater", "unordered"}

SwappedVerdict(w) ==
    CASE Incomparable(w) -> "unordered"
      [] w.better[0]     -> "less"
      [] w.better[1]     -> "greater"
      [] OTHER           -> "equal"

Verdict(w) ==
    CASE Incomparable(w) -> "unordered"
      [] w.better[0]     -> "greater"
      [] w.better[1]     -> "less"
      [] OTHER           -> "equal"

RECURSIVE Walk(_, _)
Walk(dias, w) == IF WalkDone(dias, w) THEN w ELSE Walk(dias, WalkStep(dias, w))

CompareFeerateDiagram(dia0, dia1) ==
    LET dias == [s \in Sides |-> IF s = 0 THEN dia0 ELSE dia1]
    IN  Verdict(Walk(dias, WalkStart))

----------------------------------------------------------------------------
(* Reference definitions, for the properties.                              *)

(***************************************************************************)
(* What the walk needs of its arguments: they start at (0, 0) and their    *)
(* sizes increase strictly.  The test compares diagrams that are no more   *)
(* than that (their last chunk may have the highest feerate).              *)
(***************************************************************************)
IsPolyline(dia) ==
    /\ Len(dia) >= 1
    /\ dia[1] = FeeFrac(0, 0)
    /\ \A i \in 1..Len(dia) - 1 : dia[i].size < dia[i + 1].size

(***************************************************************************)
(* What the data model asks of a diagram a builder returns: moreover its   *)
(* chunks come in non-increasing feerate.                                  *)
(***************************************************************************)
IsDiagram(dia) ==
    /\ IsPolyline(dia)
    /\ \A i \in 1..Len(dia) - 2 :
          FeeRateCompare(ChunksOf(dia)[i], ChunksOf(dia)[i + 1]) >= 0

(***************************************************************************)
(* The fee a diagram reaches at size x, as a fraction num/den: linear      *)
(* between two points, constant after the last one.                        *)
(***************************************************************************)
FeeAt(dia, x) ==
    IF x >= dia[Len(dia)].size
    THEN [num |-> dia[Len(dia)].fee, den |-> 1]
    ELSE LET k  == CHOOSE k \in 1..Len(dia) - 1 :
                        dia[k].size <= x /\ x < dia[k + 1].size
             ds == dia[k + 1].size - dia[k].size
         IN  [num |-> dia[k].fee * ds + (dia[k + 1].fee - dia[k].fee) * (x - dia[k].size),
              den |-> ds]

Above(dia0, dia1, x) ==
    FeeAt(dia0, x).num * FeeAt(dia1, x).den > FeeAt(dia1, x).num * FeeAt(dia0, x).den

Breakpoints(dia) == {dia[i].size : i \in DOMAIN dia}

(***************************************************************************)
(* The order of two diagrams taken as functions of the size, compared at   *)
(* every breakpoint of either.                                             *)
(***************************************************************************)
PointwiseOrder(dia0, dia1) ==
    LET xs       == Breakpoints(dia0) \cup Breakpoints(dia1)
        zeroWins == \E x \in xs : Above(dia0, dia1, x)
        oneWins  == \E x \in xs : Above(dia1, dia0, x)
    IN  CASE zeroWins /\ oneWins -> "unordered"
          [] zeroWins            -> "greater"
          [] oneWins             -> "less"
          [] OTHER               -> "equal"

=============================================================================
