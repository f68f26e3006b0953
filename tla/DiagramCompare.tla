--------------------------- MODULE DiagramCompare ---------------------------
(***************************************************************************)
(* One call of CompareFeerateDiagram(dia0, dia1), one loop iteration per   *)
(* step.                                                                   *)
(*                                                                         *)
(* The call is given two diagrams, walks them from left to right and       *)
(* returns as soon as each diagram has been found better than the other    *)
(* somewhere (unordered), or when both are exhausted.  The inputs are the  *)
(* diagrams of the set Diagrams and the ones test feerate_diagram_utilities*)
(* of src/src/test/rbf_tests.cpp compares, each pair in both orders as the *)
(* test does.                                                              *)
(***************************************************************************)
EXTENDS FeeFrac

CONSTANTS
    Diagrams        \* the diagrams a call may be given, besides the test's

VARIABLES
    dias,           \* the two arguments: dias[0] and dias[1]
    next_index,     \* per diagram, the index of its first unprocessed point
    better_somewhere,  \* per diagram, whether it was found above the other
    result          \* "pending" until the call returns, then the ordering

vars == <<dias, next_index, better_somewhere, result>>

walk == [next |-> next_index, better |-> better_somewhere]

----------------------------------------------------------------------------
(* The comparisons of test feerate_diagram_utilities.                      *)

old_diagram == DiagramOf(<< <<0, 0>>, <<950, 300>>, <<1050, 400>> >>)
old_tail    == DiagramOf(<< <<0, 0>>, <<950, 300>>, <<1050, 399>> >>)

(***************************************************************************)
(* Each case: the old diagram, the new one, and what the test expects of   *)
(* Compare(old, new) and of Compare(new, old).                             *)
(***************************************************************************)
Case(old, new, fwd, bwd) == [old |-> old, new |-> new, fwd |-> fwd, bwd |-> bwd]

feerate_diagram_utilities ==
    { Case(old_diagram, DiagramOf(<< <<0, 0>>, <<1000, 300>>, <<1050, 400>> >>),
           "less", "greater"),
      Case(old_diagram, DiagramOf(<< <<0, 0>>, <<1000, 300>>, <<1000, 400>> >>),
           "unordered", "unordered"),
      Case(old_diagram, DiagramOf(<< <<0, 0>>, <<1100, 300>> >>),
           "less", "greater"),
      Case(old_diagram, DiagramOf(<< <<0, 0>>, <<1100, 100>>, <<1100, 200>> >>),
           "less", "greater"),
      Case(old_diagram, DiagramOf(<< <<0, 0>>, <<750, 100>>, <<999, 350>>, <<1150, 1000>> >>),
           "unordered", "unordered"),
      Case(old_diagram, DiagramOf(<< <<0, 0>>, <<750, 100>>, <<1000, 350>>, <<1150, 500>> >>),
           "less", "greater"),
      Case(old_diagram, old_diagram,
           "equal", "equal"),
      Case(old_tail, old_diagram,
           "greater", "less"),
      Case(old_tail, DiagramOf(<< <<0, 0>>, <<950, 300>>, <<1050, 400>>, <<1050, 401>>,
                                  <<1050, 402>> >>),
           "greater", "less"),
      Case(old_tail, DiagramOf(<< <<0, 0>>, <<950, 300>>, <<1050, 400>>, <<1050, 401>>,
                                  <<1050, 402>>, <<1051, 403>> >>),
           "unordered", "unordered") }

Pair(dia0, dia1) == [s \in Sides |-> IF s = 0 THEN dia0 ELSE dia1]

Expected(pair) ==
    {c.fwd : c \in {c \in feerate_diagram_utilities : pair = Pair(c.old, c.new)}}
    \cup
    {c.bwd : c \in {c \in feerate_diagram_utilities : pair = Pair(c.new, c.old)}}

TestedPairs ==
    {Pair(c.old, c.new) : c \in feerate_diagram_utilities}
    \cup {Pair(c.new, c.old) : c \in feerate_diagram_utilities}

----------------------------------------------------------------------------

Init ==
    /\ dias \in TestedPairs \cup [Sides -> Diagrams]
    /\ next_index = WalkStart.next
    /\ better_somewhere = WalkStart.better
    /\ result = "pending"

(***************************************************************************)
(* One iteration of the loop: the nearer unprocessed point is compared     *)
(* with the other diagram and marked processed.                            *)
(***************************************************************************)
Iterate ==
    /\ result = "pending"
    /\ ~WalkDone(dias, walk)
    /\ next_index' = WalkStep(dias, walk).next
    /\ better_somewhere' = WalkStep(dias, walk).better
    /\ UNCHANGED <<dias, result>>

(***************************************************************************)
(* The early return: each diagram is better somewhere.                     *)
(***************************************************************************)
ReturnUnordered ==
    /\ result = "pending"
    /\ Incomparable(walk)
    /\ result' = "unordered"
    /\ UNCHANGED <<dias, next_index, better_somewhere>>

(***************************************************************************)
(* The return at the end of both diagrams.                                 *)
(***************************************************************************)
ReturnOrdering ==
    /\ result = "pending"
    /\ ~Incomparable(walk)
    /\ \A s \in Sides : Exhausted(dias, walk, s)
    /\ result' = Verdict(walk)
    /\ UNCHANGED <<dias, next_index, better_somewhere>>

Next == Iterate \/ ReturnUnordered \/ ReturnOrdering

Spec == Init /\ [][Next]_vars /\ WF_vars(Next)

----------------------------------------------------------------------------

(***************************************************************************)
(* The arguments are diagrams rooted at (0, 0) with increasing sizes, and  *)
(* the walk never reads past the end of one: the index of the next point   *)
(* of a diagram is at most one past its last point.                        *)
(***************************************************************************)
TypeOK ==
    /\ \A s \in Sides : IsPolyline(dias[s])
    /\ next_index \in [Sides -> Nat]
    /\ \A s \in Sides : next_index[s] \in 2..Len(dias[s]) + 1
    /\ better_somewhere \in [Sides -> BOOLEAN]
    /\ result \in Orderings \cup {"pending"}

(***************************************************************************)
(* CompareFeerateDiagram returns the order of the two diagrams as          *)
(* functions of the size: what the walk, which looks at one breakpoint at  *)
(* a time and stops early, returns is what comparing the interpolated fees *)
(* at every breakpoint of either diagram gives, the shorter diagram going  *)
(* on horizontally.                                                        *)
(***************************************************************************)
ResultMatchesReference ==
    result # "pending" => result = PointwiseOrder(dias[0], dias[1])

(***************************************************************************)
(* Every BOOST_CHECK of test feerate_diagram_utilities holds: on the       *)
(* diagrams of the test, in either order, the call returns the ordering    *)
(* the test expects.                                                       *)
(***************************************************************************)
VectorsAsExpected ==
    result # "pending" => \A e \in Expected(dias) : result = e

(***************************************************************************)
(* Every call of CompareFeerateDiagram returns: each iteration of its loop *)
(* processes at least one point.                                           *)
(***************************************************************************)
Termination == <>(result # "pending")

=============================================================================
