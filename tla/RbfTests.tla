------------------------------ MODULE RbfTests ------------------------------
(***************************************************************************)
(* The test cases rbf_helper_functions, improves_feerate and               *)
(* calc_feerate_diagram_rbf of src/src/test/rbf_tests.cpp, run statement   *)
(* by statement against the policy of module RbfPolicy.                    *)
(*                                                                         *)
(* A test case is a program: a sequence of instructions, each a statement  *)
(* of the test that changes the pool or a block of BOOST_CHECKs.  The      *)
(* state is the pool, the test's local variables and the lines of the      *)
(* checks that failed.  What the test cannot fix is left open: the hash    *)
(* that gives a transaction its txid, and with it the order entry sets are *)
(* iterated in, and the value add_descendants returns, which has no return *)
(* statement.                                                              *)
(***************************************************************************)
EXTENDS RbfPolicy

CONSTANTS
    CENT,           \* the amount the test's fees are multiples of
    Hashes,         \* the hash functions: creation number -> txid (> 0)
    TxBaseSize,     \* virtual size of a transaction without inputs and outputs
    TxInputSize,    \* virtual size of one input
    TxOutputSize,   \* virtual size of one output
    HugeVsize,      \* the virtual size 99999999 of the PaysForRBF checks
    DEFAULT_INCREMENTAL_RELAY_FEE   \* per 1000 virtual bytes

VARIABLES
    test_case,      \* the name of the test case that runs
    pc,             \* the index of the next instruction of its program
    crashed,        \* the test case dereferenced an indeterminate pointer
    hash,           \* the hash function of this execution
    made,           \* the number of transactions created so far
    pool,           \* m_node.mempool
    entry,          \* the test case's TestMemPoolEntryHelper
    local,          \* the test's local variables: name -> txid or amount
    frame,          \* the locals of add_descendants while it runs, else <<>>
    failed          \* the lines of the BOOST_CHECKs that did not hold

vars == <<test_case, pc, crashed, hash, made, pool, entry, local, frame, failed>>

COIN == 100 * CENT

(***************************************************************************)
(* m_coinbase_txns: confirmed, never in the pool.                          *)
(***************************************************************************)
m_coinbase_txns == [k \in 0..9 |-> -(k + 1)]

(***************************************************************************)
(* What reading an indeterminate CTransactionRef gives.                    *)
(***************************************************************************)
Indeterminate == 0

----------------------------------------------------------------------------
(* The helpers of the tests.                                               *)

(***************************************************************************)
(* A transaction is the outpoints it spends and its number of outputs; the *)
(* output values, scripts and witnesses are not read by the policy.        *)
(* make_tx spends output 0 of each of its inputs.                          *)
(***************************************************************************)
make_tx(inputs, nout) ==
    [vin |-> {COutPoint(input, 0) : input \in inputs}, nout |-> nout]

(***************************************************************************)
(* Two transactions that spend the first and the second output of parent.  *)
(***************************************************************************)
make_siblings_of_one_output(parent) == << make_tx({parent}, 1), make_tx({parent}, 1) >>

make_two_siblings(parent) ==
    << make_tx({parent}, 1),
       [make_tx({parent}, 1) EXCEPT !.vin = {COutPoint(parent, 1)}] >>

GetVirtualTransactionSize(tx) ==
    TxBaseSize + TxInputSize * Cardinality(tx.vin) + TxOutputSize * tx.nout

DefaultEntryHelper == [nFee |-> 0]

Fee(helper, fee) == [helper EXCEPT !.nFee = fee]

FromTxWithoutFee(helper, tx) ==
    MempoolEntry(tx.vin, GetVirtualTransactionSize(tx), 0)

FromTx(helper, tx) ==
    MempoolEntry(tx.vin, GetVirtualTransactionSize(tx), helper.nFee)

(***************************************************************************)
(* The pool after the next transaction created, tx, is added through       *)
(* helper.                                                                 *)
(***************************************************************************)
NextTxid == hash[made + 1]

AddNext(helper, tx) == addUnchecked(pool, NextTxid, FromTx(helper, tx))

(***************************************************************************)
(* The instructions of a program.                                          *)
(***************************************************************************)
AddTx(name, inputs, nout, fee) ==
    [op |-> "add", name |-> name, inputs |-> inputs, nout |-> nout, fee |-> fee]
MakeTx(name, inputs, nout) ==
    [op |-> "make", name |-> name, inputs |-> inputs, nout |-> nout]
Prioritise(name, nFeeDelta) ==
    [op |-> "prioritise", name |-> name, nFeeDelta |-> nFeeDelta]
GetModifiedFeeOf(name, into) ==
    [op |-> "capture", name |-> name, into |-> into]
AddDescendants(into, name, num_descendants) ==
    [op |-> "add_descendants", into |-> into, name |-> name, n |-> num_descendants]
GetIter(name) ==
    [op |-> "get_iter", name |-> name]
AddDescendantToParents(into, parents) ==
    [op |-> "add_descendant_to_parents", into |-> into, inputs |-> parents]
AddChildrenToParent(first, second, parent) ==
    [op |-> "add_children_to_parent", first |-> first, second |-> second,
     name |-> parent]
Check(group) ==
    [op |-> "check", group |-> group]

(***************************************************************************)
(* The txid a name of the test stands for: a coinbase transaction of the   *)
(* fixture or a local variable.                                            *)
(***************************************************************************)
CoinbaseNames == [cb0 |-> 0, cb1 |-> 1, cb2 |-> 2, cb3 |-> 3, cb4 |-> 4,
                  cb5 |-> 5, cb6 |-> 6, cb7 |-> 7, cb8 |-> 8, cb9 |-> 9]

Tx(name) ==
    IF name \in DOMAIN CoinbaseNames
    THEN m_coinbase_txns[CoinbaseNames[name]]
    ELSE local[name]

Txs(names) == {Tx(name) : name \in names}

Bind(name, value) == [n \in DOMAIN local \cup {name} |->
                        IF n = name THEN value ELSE local[n]]

----------------------------------------------------------------------------
(* The programs of the three test cases.                                   *)

low_fee    == CENT \div 100
normal_fee == CENT \div 10
high_fee   == CENT

helper_pool ==
    << AddTx("tx1", {"cb0"}, 1, normal_fee),  AddTx("tx2", {"tx1"}, 1, normal_fee),
       AddTx("tx3", {"cb1"}, 1, low_fee),     AddTx("tx4", {"tx3"}, 1, high_fee),
       AddTx("tx5", {"cb2"}, 1, low_fee),     AddTx("tx6", {"tx5"}, 1, low_fee),
       Prioritise("tx6", 1 * COIN),
       AddTx("tx7", {"cb3"}, 1, high_fee),    AddTx("tx8", {"cb4"}, 1, high_fee),
       AddTx("tx9", {"cb5"}, 1, normal_fee),  AddTx("tx10", {"cb6"}, 1, normal_fee),
       AddTx("tx11", {"cb7"}, 1, normal_fee), AddTx("tx12", {"cb8"}, 1, normal_fee),
       AddTx("tx13", {"cb9"}, 2, normal_fee),
       Check(167) >>

helper_predicates == << Check(188), Check(204), Check(217) >>

parent_inputs == {"cb0", "cb1", "cb2", "cb3", "cb4"}

helper_conflicts ==
    << MakeTx("conflicts_with_parents", parent_inputs, 1), Check(240),
       AddDescendants("", "tx2", 23), Check(249),
       AddDescendants("", "tx4", 23), Check(255),
       AddDescendants("", "tx6", 23), Check(261),
       AddDescendants("", "tx7", 23), Check(267),
       AddDescendants("", "tx8", 1),  Check(275) >>

helper_unconfirmed ==
    << MakeTx("spends_unconfirmed", {"tx1"}, 1), Check(281),
       MakeTx("spends_new_unconfirmed", {"tx1", "tx8"}, 1), Check(290),
       MakeTx("spends_conflicting_confirmed", {"cb0", "cb1"}, 1), Check(294) >>

helper_topology ==
    << Check(299),
       AddDescendants("", "tx9", 1), Check(306),
       AddDescendants("child_tx", "tx10", 1), GetIter("child_tx"), Check(314),
       AddDescendants("grand_child_tx", "child_tx", 1), GetIter("grand_child_tx"),
       Check(320),
       AddDescendantToParents("two_parent_child_tx", {"tx11", "tx12"}), Check(327),
       AddChildrenToParent("sibling_1", "sibling_2", "tx13"), Check(335) >>

rbf_helper_functions ==
    helper_pool \o helper_predicates \o helper_conflicts \o helper_unconfirmed
    \o helper_topology

improves_feerate ==
    << AddTx("tx1", {"cb0"}, 1, low_fee), AddTx("tx2", {"tx1"}, 1, normal_fee),
       GetModifiedFeeOf("tx1", "tx1_fee"), GetModifiedFeeOf("tx2", "tx2_fee"),
       Check(365),
       Prioritise("tx1", 1), Check(375), Prioritise("tx1", -1),
       Check(382),
       AddTx("tx3", {"tx2"}, 1, normal_fee), Check(387) >>

calc_feerate_diagram_rbf ==
    << AddTx("low_tx", {"cb0"}, 1, low_fee), Check(414),
       AddTx("high_tx", {"low_tx"}, 1, high_fee), Check(439),
       AddTx("normal_tx", {"high_tx"}, 1, normal_fee), Check(464),
       AddTx("high_tx_2", {"cb1"}, 1, high_fee),
       AddTx("low_tx_2", {"high_tx_2"}, 1, low_fee), Check(481),
       AddTx("conflict_1", {"cb2"}, 1, low_fee),
       AddTx("conflict_2", {"cb3"}, 1, low_fee),
       AddTx("conflict_3", {"cb4"}, 1, low_fee), Check(503),
       AddTx("conflict_1_child", {"conflict_1"}, 1, low_fee), Check(515),
       AddTx("conflict_1_grand_child", {"conflict_1_child"}, 1, high_fee),
       Check(528) >>

Programs == [rbf_helper_functions     |-> rbf_helper_functions,
             improves_feerate         |-> improves_feerate,
             calc_feerate_diagram_rbf |-> calc_feerate_diagram_rbf]

----------------------------------------------------------------------------
(* The BOOST_CHECKs, block by block: each check is the pair of its line    *)
(* and of whether it holds in the current state.                           *)

Ok(result)  == result = NoError
Err(result) == result # NoError

Size(name) == GetTxSize(pool, Tx(name))

(***************************************************************************)
(* CFeeRate(fee, size): the design document makes a feerate the exact      *)
(* fraction.                                                               *)
(***************************************************************************)
CFeeRate(fee, size) == FeeFrac(fee, size)

set_12_normal == Txs({"tx1", "tx2"})
set_34_cpfp   == Txs({"tx3", "tx4"})
all_entries   == Txs({"tx1", "tx2", "tx3", "tx4", "tx5", "tx6", "tx7", "tx8"})
all_parents   == Txs({"tx1", "tx3", "tx5", "tx7", "tx8"})
unchained     == Txs({"tx9", "tx10", "tx11"})

GetFeeChecks ==
    LET expected == [tx1 |-> normal_fee, tx2 |-> normal_fee, tx3 |-> low_fee,
                     tx4 |-> high_fee, tx5 |-> low_fee, tx6 |-> low_fee,
                     tx7 |-> high_fee, tx8 |-> high_fee]
    IN  { <<167, \A name \in DOMAIN expected :
                    GetFee(pool, Tx(name)) = expected[name]>> }

PaysMoreThanConflictsChecks ==
    LET Pays(conflicts, name, fee, more) ==
            PaysMoreThanConflicts(pool, conflicts, CFeeRate(fee, Size(name) + more))
        Modified(name) == GetModifiedFee(pool, Tx(name))
    IN  { <<188, Err(Pays(set_12_normal, "tx1", Modified("tx1") + 1, 2))>>,
          <<192, Err(Pays(set_12_normal, "tx1", Modified("tx1"), 0))>>,
          <<193, Ok(Pays(set_12_normal, "tx1", Modified("tx1") + 1, 0))>>,
          <<195, Ok(Pays(Txs({"tx5"}), "tx5", Modified("tx5") + 1, 0))>>,
          <<196, Err(Pays(Txs({"tx6"}), "tx6", GetFee(pool, Tx("tx6")) + 1, 0))>>,
          <<197, Ok(Pays(Txs({"tx6"}), "tx6", Modified("tx6") + 1, 0))>>,
          <<201, Err(Pays(set_34_cpfp, "tx4", Modified("tx4"), 0))>> }

EntriesAndTxidsDisjointChecks ==
    { <<204, Ok(EntriesAndTxidsDisjoint({}, Txs({"tx1"})))>>,
      <<205, Ok(EntriesAndTxidsDisjoint(set_12_normal, Txs({"tx3"})))>>,
      <<206, Err(EntriesAndTxidsDisjoint(Txs({"tx2"}), Txs({"tx2"})))>>,
      <<207, Err(EntriesAndTxidsDisjoint(set_12_normal, Txs({"tx1"})))>>,
      <<208, Err(EntriesAndTxidsDisjoint(set_12_normal, Txs({"tx2"})))>>,
      <<211, Ok(EntriesAndTxidsDisjoint(Txs({"tx2"}), Txs({"tx1"})))>> }

PaysForRBFChecks ==
    LET incremental_relay_feerate == DEFAULT_INCREMENTAL_RELAY_FEE
        higher_relay_feerate      == 2 * DEFAULT_INCREMENTAL_RELAY_FEE
    IN  { <<217, Ok(PaysForRBF(high_fee, high_fee, 1, 0))>>,
          <<223, Err(PaysForRBF(high_fee, high_fee - 1, 1, 0))>>,
          <<224, Err(PaysForRBF(high_fee + 1, high_fee, 1, 0))>>,
          <<226, Err(PaysForRBF(high_fee, high_fee + 1, 2, incremental_relay_feerate))>>,
          <<227, Ok(PaysForRBF(high_fee, high_fee + 2, 2, incremental_relay_feerate))>>,
          <<228, Err(PaysForRBF(high_fee, high_fee + 2, 2, higher_relay_feerate))>>,
          <<229, Ok(PaysForRBF(high_fee, high_fee + 4, 2, higher_relay_feerate))>>,
          <<230, Err(PaysForRBF(low_fee, high_fee, HugeVsize,
                                incremental_relay_feerate))>>,
          <<231, Ok(PaysForRBF(low_fee, high_fee + HugeVsize, HugeVsize,
                               incremental_relay_feerate))>> }

(***************************************************************************)
(* The checks after the chains-th call of add_descendants(.., 23, pool):   *)
(* conflicts_size is the size of all_entries and 23 more for each call.    *)
(***************************************************************************)
GetEntriesForConflictsChecks(line, chains) ==
    LET conflicts      == GetEntriesForConflicts(pool, all_parents)
        conflicts_size == Cardinality(all_entries) + 23 * chains
    IN  { <<line, Ok(conflicts.error)>> }
        \cup { <<244, conflicts.all_conflicts = all_entries>> : c \in {0} \cap {chains} }
        \cup { <<line + 2, Cardinality(conflicts.all_conflicts) = conflicts_size>> :
                    c \in 1..chains }
        \cup { <<270, Cardinality(conflicts.all_conflicts) = 100>> : c \in {4} \cap {chains} }

TooManyConflictsChecks ==
    { <<275, Err(GetEntriesForConflicts(pool, all_parents).error)>> }

(***************************************************************************)
(* The calls of HasNoNewUnconfirmed: the line, the inputs of the           *)
(* candidate, the direct conflicts and whether the test expects nullopt.   *)
(***************************************************************************)
HasNoNewUnconfirmedCases ==
    LET spends_unconfirmed           == make_tx(Txs({"tx1"}), 1).vin
        spends_new_unconfirmed       == make_tx(Txs({"tx1", "tx8"}), 1).vin
        spends_conflicting_confirmed == make_tx(Txs({"cb0", "cb1"}), 1).vin
        Call(line, vin, iters_conflicting, ok) ==
            [line |-> line, vin |-> vin, iters_conflicting |-> iters_conflicting,
             ok |-> ok]
    IN  { Call(283, spends_unconfirmed, all_entries, TRUE),
          Call(286, spends_unconfirmed, Txs({"tx2"}), TRUE),
          Call(287, spends_unconfirmed, {}, FALSE),
          Call(290, spends_new_unconfirmed, Txs({"tx2"}), FALSE),
          Call(291, spends_new_unconfirmed, all_entries, FALSE),
          Call(294, spends_conflicting_confirmed, Txs({"tx1", "tx3"}), TRUE) }

HasNoNewUnconfirmedChecks ==
    { <<281, exists(pool, Tx("tx1"))>> }
    \cup { <<c.line, Ok(HasNoNewUnconfirmed(pool, c.vin, c.iters_conflicting)) = c.ok>> :
                c \in HasNoNewUnconfirmedCases }

(***************************************************************************)
(* The checks of CheckConflictTopology; first is the line of the block.    *)
(***************************************************************************)
Topology(direct_conflicts) == CheckConflictTopology(pool, direct_conflicts)

CheckConflictTopologyChecks(first) ==
    CASE first = 299 ->
            { <<299, Topology(set_34_cpfp) = <<"descendants", Tx("tx4"), 23>> >>,
              <<302, Ok(Topology(Txs({"tx9"})))>> }
      [] first = 306 ->
            { <<306, Ok(Topology(Txs({"tx9"})))>>,
              <<309, Ok(Topology(unchained))>> }
      [] first = 314 ->
            { <<314, Ok(Topology(unchained))>>,
              <<315, Ok(Topology(unchained \cup Txs({"child_tx"})))>> }
      [] first = 320 ->
            { <<320, Topology(unchained) = <<"descendants", Tx("tx10"), 2>> >>,
              <<322, Topology(Txs({"tx9", "grand_child_tx", "tx11"}))
                        = <<"ancestors", Tx("grand_child_tx"), 2>> >> }
      [] first = 327 ->
            { <<327, Topology(Txs({"tx11"})) = <<"not the only parent of child",
                        Tx("tx11"), Tx("two_parent_child_tx")>> >>,
              <<328, Topology(Txs({"tx12"})) = <<"not the only parent of child",
                        Tx("tx12"), Tx("two_parent_child_tx")>> >>,
              <<329, Topology(Txs({"two_parent_child_tx"}))
                        = <<"ancestors", Tx("two_parent_child_tx"), 2>> >> }
      [] first = 335 ->
            { <<335, Topology(Txs({"sibling_1"})) = <<"not the only child of parent",
                        Tx("sibling_1"), Tx("tx13")>> >>,
              <<336, Topology(Txs({"sibling_2"})) = <<"not the only child of parent",
                        Tx("sibling_2"), Tx("tx13")>> >> }

(***************************************************************************)
(* The checks of ImprovesFeerateDiagram.  tx1_fee and tx2_fee were read    *)
(* before the prioritisations and are not read again.                      *)
(***************************************************************************)
FAILURE == <<"FAILURE", <<"insufficient feerate: does not improve feerate diagram">> >>

ImprovesFeerateDiagramChecks(first) ==
    LET fees == local["tx1_fee"] + local["tx2_fee"]
        size == Size("tx1") + Size("tx2")
        Improves(replacement_fees, replacement_vsize) ==
            ImprovesFeerateDiagram(pool, Txs({"tx1"}), Txs({"tx1", "tx2"}),
                                   replacement_fees, replacement_vsize)
    IN  CASE first = 365 -> { <<366, Improves(fees, size) = FAILURE>>,
                              <<371, Ok(Improves(fees + 1, size))>> }
          [] first = 375 -> { <<376, Improves(fees + 1, size) = FAILURE>> }
          [] first = 382 -> { <<382, Ok(Improves(fees, size - 1))>> }
          [] first = 387 -> { <<388, Improves(fees + 1, size)
                                = <<"UNCALCULABLE", <<"descendants", Tx("tx1"), 2>> >> >> }

(***************************************************************************)
(* The checks of CalculateFeerateDiagramsForRBF.  In the last block the    *)
(* test takes the iterator of conflict_1_child for the grandchild's, so    *)
(* the grandchild is not among all_conflicts.                              *)
(***************************************************************************)
Diagrams(replacement_fees, replacement_vsize, direct_conflicts, all_conflicts) ==
    CalculateFeerateDiagramsForRBF(pool, replacement_fees, replacement_vsize,
                                   Txs(direct_conflicts), Txs(all_conflicts))

Expect(line, diagrams, old, new) ==
    { <<line + 1, Ok(diagrams.error)>>,
      <<line + 3, diagrams.old = DiagramOf(<< <<0, 0>> >> \o old)>>,
      <<line + 5, diagrams.new = DiagramOf(<< <<0, 0>> >> \o new)>> }

ExpectSizes(line, diagrams, old_size, new_size) ==
    { <<line + 1, Ok(diagrams.error)>>,
      <<line + 2, Len(diagrams.old) = old_size>>,
      <<line + 3, Len(diagrams.new) = new_size>> }

ExpectError(line, diagrams, error) ==
    { <<line + 1, Err(diagrams.error)>>, <<line + 2, diagrams.error = error>> }

three_conflicts == {"conflict_1", "conflict_2", "conflict_3"}

CalculateFeerateDiagramsChecks(first) ==
    LET low_size == Size("low_tx")
    IN  CASE first = 414 ->
                Expect(414, Diagrams(0, 1, {"low_tx"}, {"low_tx"}),
                       << <<low_fee, low_size>> >>, << <<0, 1>> >>)
                \cup
                Expect(424, Diagrams(high_fee, low_size, {"low_tx"}, {"low_tx"}),
                       << <<low_fee, low_size>> >>, << <<high_fee, low_size>> >>)
          [] first = 439 ->
                Expect(439, Diagrams(high_fee, low_size, {"low_tx"}, {"low_tx", "high_tx"}),
                       << <<low_fee + high_fee, low_size + Size("high_tx")>> >>,
                       << <<high_fee, low_size>> >>)
                \cup
                Expect(449, Diagrams(high_fee, low_size, {"high_tx"}, {"high_tx"}),
                       << <<low_fee + high_fee, low_size + Size("high_tx")>> >>,
                       << <<high_fee, low_size>>,
                          <<low_fee + high_fee, low_size + low_size>> >>)
          [] first = 464 ->
                ExpectError(464, Diagrams(normal_fee, Size("normal_tx"), {"low_tx"},
                                          {"low_tx", "high_tx", "normal_tx"}),
                            <<"descendants", Tx("low_tx"), 2>>)
          [] first = 481 ->
                Expect(481, Diagrams(high_fee, low_size, {"high_tx_2"},
                                     {"high_tx_2", "low_tx_2"}),
                       << <<high_fee, Size("high_tx_2")>>,
                          <<low_fee + high_fee, Size("low_tx_2") + Size("high_tx_2")>> >>,
                       << <<high_fee, Size("low_tx_2")>> >>)
          [] first = 503 ->
                ExpectSizes(503, Diagrams(high_fee, low_size, three_conflicts,
                                          three_conflicts), 4, 2)
          [] first = 515 ->
                ExpectSizes(516, Diagrams(high_fee, low_size, three_conflicts,
                                          three_conflicts \cup {"conflict_1_child"}), 5, 2)
          [] first = 528 ->
                ExpectError(529, Diagrams(high_fee, low_size, three_conflicts,
                                          three_conflicts \cup {"conflict_1_child"}),
                            <<"descendants", Tx("conflict_1"), 2>>)

(***************************************************************************)
(* The checks of the block that starts at line first.                      *)
(***************************************************************************)
Between(checks, first, last) == {check \in checks : check[1] \in first..last}

ChecksAt(first) ==
    CASE first = 167 -> GetFeeChecks
      [] first = 188 -> PaysMoreThanConflictsChecks
      [] first = 204 -> EntriesAndTxidsDisjointChecks
      [] first = 217 -> PaysForRBFChecks
      [] first = 240 -> GetEntriesForConflictsChecks(240, 0)
      [] first \in {249, 255, 261, 267}
                     -> GetEntriesForConflictsChecks(first, (first - 243) \div 6)
      [] first = 275 -> TooManyConflictsChecks
      [] first = 281 -> Between(HasNoNewUnconfirmedChecks, 281, 287)
      [] first = 290 -> Between(HasNoNewUnconfirmedChecks, 290, 291)
      [] first = 294 -> Between(HasNoNewUnconfirmedChecks, 294, 294)
      [] first \in 299..335 -> CheckConflictTopologyChecks(first)
      [] first \in 365..387 -> ImprovesFeerateDiagramChecks(first)
      [] first \in 414..528 -> CalculateFeerateDiagramsChecks(first)

----------------------------------------------------------------------------
(* The execution of a program.                                             *)

Program == Programs[test_case]
Insn    == Program[pc]

Finished == pc > Len(Program)

(***************************************************************************)
(* The next instruction is op and the test is not inside add_descendants.  *)
(***************************************************************************)
At(op) == ~crashed /\ ~Finished /\ frame = <<>> /\ Insn.op = op

Init ==
    /\ test_case \in DOMAIN Programs
    /\ hash \in Hashes
    /\ pc = 1
    /\ crashed = FALSE
    /\ made = 0
    /\ pool = EmptyPool
    /\ entry = DefaultEntryHelper
    /\ local = [name \in {} |-> 0]
    /\ frame = <<>>
    /\ failed = {}

(***************************************************************************)
(* pool.addUnchecked(entry.Fee(fee).FromTx(make_tx(inputs, values)))       *)
(***************************************************************************)
AddTxStep ==
    /\ At("add")
    /\ entry' = Fee(entry, Insn.fee)
    /\ pool' = AddNext(entry', make_tx(Txs(Insn.inputs), Insn.nout))
    /\ local' = Bind(Insn.name, NextTxid)
    /\ made' = made + 1
    /\ pc' = pc + 1
    /\ UNCHANGED <<test_case, crashed, hash, frame, failed>>

(***************************************************************************)
(* make_tx for a candidate, which does not enter the pool.                 *)
(***************************************************************************)
MakeTxStep ==
    /\ At("make")
    /\ local' = Bind(Insn.name, NextTxid)
    /\ made' = made + 1
    /\ pc' = pc + 1
    /\ UNCHANGED <<test_case, crashed, hash, pool, entry, frame, failed>>

PrioritiseStep ==
    /\ At("prioritise")
    /\ pool' = PrioritiseTransaction(pool, Tx(Insn.name), Insn.nFeeDelta)
    /\ pc' = pc + 1
    /\ UNCHANGED <<test_case, crashed, hash, made, entry, local, frame, failed>>

GetModifiedFeeStep ==
    /\ At("capture")
    /\ local' = Bind(Insn.into, GetModifiedFee(pool, Tx(Insn.name)))
    /\ pc' = pc + 1
    /\ UNCHANGED <<test_case, crashed, hash, made, pool, entry, frame, failed>>

(***************************************************************************)
(* add_descendants: the call, one iteration of its loop, and the return.   *)
(* The function ends without a return statement: what the caller gets is   *)
(* the last transaction, if that is what the register holds, or not a      *)
(* transaction at all.                                                     *)
(***************************************************************************)
add_descendants_call ==
    /\ At("add_descendants")
    /\ frame' = << [i |-> 0, tx_to_spend |-> Tx(Insn.name)] >>
    /\ UNCHANGED <<test_case, pc, crashed, hash, made, pool, entry, local, failed>>

InAddDescendants == ~crashed /\ frame # <<>>

LoopsOnceMore(i, num_descendants) == i <= num_descendants

LoopContinues(i, num_descendants) == i < num_descendants

add_descendants_loop ==
    /\ InAddDescendants
    /\ LoopContinues(frame[1].i, Insn.n)
    /\ pool' = AddNext(DefaultEntryHelper, make_tx({frame[1].tx_to_spend}, 1))
    /\ frame' = << [i |-> frame[1].i + 1, tx_to_spend |-> NextTxid] >>
    /\ made' = made + 1
    /\ UNCHANGED <<test_case, pc, crashed, hash, entry, local, failed>>

Returned(tx_to_spend) == {tx_to_spend, Indeterminate}

add_descendants_return ==
    /\ InAddDescendants
    /\ ~LoopContinues(frame[1].i, Insn.n)
    /\ \E child_tx \in Returned(frame[1].tx_to_spend) :
          local' = IF Insn.into = "" THEN local ELSE Bind(Insn.into, child_tx)
    /\ frame' = <<>>
    /\ pc' = pc + 1
    /\ UNCHANGED <<test_case, crashed, hash, made, pool, entry, failed>>

(***************************************************************************)
(* pool.GetIter(tx->GetHash()).value() of a transaction add_descendants    *)
(* returned.                                                               *)
(***************************************************************************)
GetIterStep ==
    /\ At("get_iter")
    /\ \/ Tx(Insn.name) # Indeterminate /\ pc' = pc + 1 /\ crashed' = crashed
       \/ Tx(Insn.name) = Indeterminate /\ pc' = pc /\ crashed' = TRUE
    /\ UNCHANGED <<test_case, hash, made, pool, entry, local, frame, failed>>

(***************************************************************************)
(* add_descendant_to_parents, which the test calls and the file does not   *)
(* define: "Make a single child from two singleton parents".               *)
(***************************************************************************)
add_descendant_to_parents ==
    /\ At("add_descendant_to_parents")
    /\ pool' = AddNext(DefaultEntryHelper, make_tx(Txs(Insn.inputs), 1))
    /\ local' = Bind(Insn.into, NextTxid)
    /\ made' = made + 1
    /\ pc' = pc + 1
    /\ UNCHANGED <<test_case, crashed, hash, entry, frame, failed>>

(***************************************************************************)
(* add_children_to_parent: make_two_siblings and two addUnchecked.         *)
(***************************************************************************)
add_children_to_parent ==
    /\ At("add_children_to_parent")
    /\ LET children_tx == make_two_siblings(Tx(Insn.name))
           first  == hash[made + 1]
           second == hash[made + 2]
       IN  /\ pool' = addUnchecked(
                        addUnchecked(pool, first, FromTx(DefaultEntryHelper, children_tx[1])),
                        second, FromTx(DefaultEntryHelper, children_tx[2]))
           /\ local' = [n \in DOMAIN local \cup {Insn.first, Insn.second} |->
                            CASE n = Insn.first -> first
                              [] n = Insn.second -> second
                              [] OTHER -> local[n]]
    /\ made' = made + 2
    /\ pc' = pc + 1
    /\ UNCHANGED <<test_case, crashed, hash, entry, frame, failed>>

(***************************************************************************)
(* A block of BOOST_CHECKs: the lines of those that do not hold are kept.  *)
(***************************************************************************)
CheckStep ==
    /\ At("check")
    /\ failed' = failed \cup {check[1] : check \in {c \in ChecksAt(Insn.group) : ~c[2]}}
    /\ pc' = pc + 1
    /\ UNCHANGED <<test_case, crashed, hash, made, pool, entry, local, frame>>

Next ==
    \/ AddTxStep \/ MakeTxStep \/ PrioritiseStep \/ GetModifiedFeeStep
    \/ add_descendants_call \/ add_descendants_loop \/ add_descendants_return
    \/ GetIterStep \/ add_descendant_to_parents \/ add_children_to_parent
    \/ CheckStep

Spec == Init /\ [][Next]_vars /\ WF_vars(Next)

----------------------------------------------------------------------------

Created == {hash[i] : i \in 1..made}

(***************************************************************************)
(* The program counter stays within the program, the loop variable of      *)
(* add_descendants within num_descendants, every entry of the pool and     *)
(* every transaction the test names is one that was created, and the       *)
(* checks that failed are checks of the file.                              *)
(***************************************************************************)
TypeOK ==
    /\ test_case \in DOMAIN Programs
    /\ pc \in 1..Len(Program) + 1
    /\ crashed \in BOOLEAN
    /\ hash \in Hashes
    /\ made \in Nat
    /\ DOMAIN pool \subseteq Created
    /\ entry \in [nFee : Nat]
    /\ \A name \in DOMAIN local \ {"tx1_fee", "tx2_fee"} :
          local[name] \in Created \cup {Indeterminate}
    /\ \A name \in DOMAIN local \cap {"tx1_fee", "tx2_fee"} : local[name] \in Nat
    /\ frame # <<>> =>
          /\ Insn.op = "add_descendants"
          /\ frame[1].i \in 0..Insn.n
          /\ frame[1].tx_to_spend \in Created
    /\ failed \subseteq 100..533

(***************************************************************************)
(* The check of line 299 expects the reason CheckConflictTopology gives    *)
(* for tx4, of two entries that both break a rule: it depends on which of  *)
(* tx3 and tx4 has the smaller txid.                                       *)
(***************************************************************************)
HashDependent == {299}

(***************************************************************************)
(* Every BOOST_CHECK of the three test cases that a run reaches holds,     *)
(* whatever the hash and whatever add_descendants returns, the check of    *)
(* line 299 aside: the policy of module RbfPolicy is one the tests accept. *)
(***************************************************************************)
ChecksHold == failed \subseteq HashDependent

(***************************************************************************)
(* No two entries of the pool spend the same output.  addUnchecked does    *)
(* not look for conflicts: add_descendants, add_descendant_to_parents and  *)
(* add_children_to_parent each assume that what they spend "isn't already  *)
(* spent in mempool", and every call of the three test cases has to        *)
(* respect that, the two siblings of make_two_siblings included.           *)
(***************************************************************************)
NoDoubleSpendInPool ==
    \A a, b \in DOMAIN pool : a # b => pool[a].vin \cap pool[b].vin = {}

(***************************************************************************)
(* Every BOOST_CHECK holds, the one of line 299 too: CheckConflictTopology *)
(* of {entry3, entry4} names tx4 whatever the txids of tx3 and tx4 are.    *)
(***************************************************************************)
ChecksHoldForEveryHash == failed = {}

(***************************************************************************)
(* No test case dereferences an indeterminate pointer: what                *)
(* add_descendants returns at lines 312 and 318 is a transaction.          *)
(***************************************************************************)
NoIndeterminateUse == ~crashed

(***************************************************************************)
(* HasNoNewUnconfirmed as the design document words it (an input is new    *)
(* when it is in the pool and not a direct conflict) gives what the checks *)
(* of lines 281 to 294 expect.                                             *)
(***************************************************************************)
SpecifiedRuleMeetsTest ==
    (At("check") /\ Insn.group = 281) =>
        \A c \in HasNoNewUnconfirmedCases :
            Ok(HasNoNewUnconfirmedAsSpecified(pool, c.vin, c.iters_conflicting)) = c.ok

(***************************************************************************)
(* A parent and a child of equal feerates make one chunk, as the design    *)
(* document has it: the old diagram the test builds at line 515 has a      *)
(* point for (0, 0) and one for each entry of the affected clusters that   *)
(* no child of it is chunked with.                                         *)
(***************************************************************************)
EqualFeeratesCollapse ==
    (At("check") /\ Insn.group = 515) =>
        LET all_conflicts == Txs(three_conflicts \cup {"conflict_1_child"})
            diagrams == CalculateFeerateDiagramsForRBF(pool, high_fee, Size("low_tx"),
                                                       Txs(three_conflicts), all_conflicts)
        IN  Len(diagrams.old) = 1 + ChunkCountAsSpecified(pool, all_conflicts)

(***************************************************************************)
(* The topology check bounds the clusters: a set of direct conflicts that  *)
(* CheckConflictTopology accepts touches clusters of at most two entries,  *)
(* which the design document gives as the equivalent of its four rules and *)
(* the test as the reason for its checks of line 320 ("size 3 cluster too  *)
(* much").  Checked for each entry of the pool at every block of checks.   *)
(***************************************************************************)
TopologyBoundsClusters ==
    At("check") =>
        \A e \in DOMAIN pool :
            Ok(CheckConflictTopology(pool, {e})) => Cardinality(Cluster(pool, e)) <= 2

=============================================================================
