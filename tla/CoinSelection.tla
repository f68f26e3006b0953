---------------------------- MODULE CoinSelection ----------------------------
(***************************************************************************)
(* The types of src/src/wallet/coinselection.h and one coin selection made *)
(* with them: the wallet makes a CInputCoin of each output it may spend    *)
(* and inserts it into an OutputGroup, filters the groups and draws from   *)
(* them at random until the target is met (SelectCoinsSRD), and computes   *)
(* the waste of what it has drawn (GetSelectionWaste).                     *)
(*                                                                         *)
(* What is code in the header: the constructors of CInputCoin with their   *)
(* two exceptions, operator< of coins, and the constructors and defaults   *)
(* of the three structs.  What is documented and has no body in the        *)
(* sources: GetSelectionWaste (the formula of lines 160-175),              *)
(* SelectCoinsSRD (lines 179-185) and GetSelectionAmount (lines 144-145).  *)
(* What is only declared: Insert and EligibleForSpending (lines 155-156);  *)
(* they are read from the members they maintain and the filter they are    *)
(* given, and each reading is named where it is made.  The wallet that     *)
(* calls all of these is not in the sources: AddOutput, StartSRD and       *)
(* CallGetSelectionWaste are its calls, with the arguments the comments    *)
(* ask for.  An amount is an integer, a feerate an amount per byte.        *)
(***************************************************************************)
EXTENDS Integers, Sequences, FiniteSets

LOCAL INSTANCE FiniteSetsExt

CONSTANTS
    vout,           \* per transaction hash, the values of its outputs
    NullTx,         \* a null CTransactionRef
    Indeterminate,  \* what a read past the end of vout gives: an amount no output has
    InputBytes,     \* the sizes a coin may be given as an input
    Confirmations,  \* the <<depth, from_me>> an output may have
    Chains,         \* the <<ancestors, descendants>> an output may have
    Groups,         \* the output groups
    Filters,        \* the eligibility filters the wallet tries
    Targets,        \* the amounts a selection may be asked for
    EFFECTIVE_FEERATE,  \* the feerate of the transaction being built
    LONG_TERM_FEERATE,  \* the feerate expected in the future
    COST_OF_CHANGE  \* the change_cost of a selection that makes change

ASSUME /\ NullTx \notin DOMAIN vout
       /\ \A tx \in DOMAIN vout : \A i \in DOMAIN vout[tx] : vout[tx][i] \in Nat \ {Indeterminate}
       /\ InputBytes \subseteq Int
       /\ Confirmations \subseteq Nat \X BOOLEAN
       /\ Chains \subseteq Nat \X Nat
       /\ Targets \subseteq Nat \ {0}
       /\ {EFFECTIVE_FEERATE, LONG_TERM_FEERATE, COST_OF_CHANGE} \subseteq Nat

VARIABLES
    pc,             \* "grouping", "selecting", "returned", "rated" or "thrown"
    params,         \* the CoinSelectionParams of this selection
    positive_only,  \* whether Insert is told to keep positive coins only
    known,          \* per outpoint of a coin made, its confirmations
    thrown,         \* the exception a constructor has thrown, or "none"
    groups,         \* per group, the OutputGroup
    filter,         \* the CoinEligibilityFilter of the selection
    utxo_pool,      \* the groups SelectCoinsSRD may still draw
    drawn,          \* the groups it has drawn
    target_value,   \* the target of the selection
    out_set,        \* the std::set<CInputCoin> of the result
    value_ret,      \* the total selected value
    waste           \* the waste of the result

vars == <<pc, params, positive_only, known, thrown, groups, filter, utxo_pool, drawn,
          target_value, out_set, value_ret, waste>>

None == -1

----------------------------------------------------------------------------
(* CInputCoin.                                                             *)

COutPoint(hash, n) == <<hash, n>>

is_null(tx) == tx = NullTx

index_past_end(tx, i) == i > Len(vout[tx])

out_of_range(tx, i) == i >= Len(vout[tx])

(***************************************************************************)
(* tx->vout[i]: indices count from 0, and a read at or past the end is     *)
(* undefined.                                                              *)
(***************************************************************************)
vout_at(tx, i) == IF i < Len(vout[tx]) THEN vout[tx][i + 1] ELSE Indeterminate

CInputCoinOf(outpoint, txout, input_bytes) ==
    [outpoint |-> outpoint, txout |-> txout, effective_value |-> txout,
     m_fee |-> 0, m_long_term_fee |-> 0, m_input_bytes |-> input_bytes]

(***************************************************************************)
(* CInputCoin(tx, i) and CInputCoin(tx, i, input_bytes): the exception     *)
(* thrown, or "none" and the coin.                                         *)
(***************************************************************************)
CInputCoin(tx, i, input_bytes) ==
    IF is_null(tx) THEN [thrown |-> "invalid_argument"]
    ELSE IF out_of_range(tx, i) THEN [thrown |-> "out_of_range"]
    ELSE [thrown |-> "none",
          coin |-> CInputCoinOf(COutPoint(tx, i), vout_at(tx, i), input_bytes)]

less_by_hash(a, b) == a.outpoint[1] < b.outpoint[1]

(***************************************************************************)
(* operator<: coins are ordered by their outpoint, hash first.             *)
(***************************************************************************)
less(a, b) ==
    \/ a.outpoint[1] < b.outpoint[1]
    \/ a.outpoint[1] = b.outpoint[1] /\ a.outpoint[2] < b.outpoint[2]

(***************************************************************************)
(* Insertion into a std::set<CInputCoin>: a coin that is neither less nor  *)
(* greater than one of the set is not inserted.  The coins of new are the  *)
(* outputs of one group, which differ in their outpoints.                  *)
(***************************************************************************)
insert(set, new) ==
    set \cup {c \in new : \A d \in set : less(c, d) \/ less(d, c)}

----------------------------------------------------------------------------
(* CoinSelectionParams, CoinEligibilityFilter and OutputGroup.             *)

CoinSelectionParams(effective_feerate, long_term_feerate) ==
    [m_effective_feerate |-> effective_feerate, m_long_term_feerate |-> long_term_feerate,
     m_change_fee |-> 0, m_cost_of_change |-> 0, m_subtract_fee_outputs |-> FALSE]

CoinEligibilityFilter(conf_mine, conf_theirs, max_ancestors, max_descendants) ==
    [conf_mine |-> conf_mine, conf_theirs |-> conf_theirs,
     max_ancestors |-> max_ancestors,
     max_descendants |-> IF max_descendants = None THEN max_ancestors ELSE max_descendants]

OutputGroup(p) ==
    [m_outputs |-> {}, m_from_me |-> TRUE, m_value |-> 0, m_depth |-> 999,
     m_ancestors |-> 0, m_descendants |-> 0, effective_value |-> 0, fee |-> 0,
     long_term_fee |-> 0, m_effective_feerate |-> p.m_effective_feerate,
     m_long_term_feerate |-> p.m_long_term_feerate,
     m_subtract_fee_outputs |-> p.m_subtract_fee_outputs]

any_from_me(group_from_me, from_me) == group_from_me \/ from_me

all_from_me(group_from_me, from_me) == group_from_me /\ from_me

(***************************************************************************)
(* Insert, read from the members of lines 133-143.  A coin's fees are its  *)
(* size at the feerates of the group ("inputs * feerate", line 162) and    *)
(* its effective value is its value less the fee; a coin whose size could  *)
(* not be calculated (m_input_bytes = -1, line 57) keeps what its          *)
(* constructor gave it: no fee and its whole value (lines 31, 54-55).  The *)
(* totals add up; m_from_me starts true and m_depth at 999, which is the   *)
(* start of a conjunction and of a minimum; m_descendants is a maximum as  *)
(* max_descendants bounds it per output.                                   *)
(***************************************************************************)
Insert(g, output, depth, from_me, ancestors, descendants) ==
    LET bytes == output.m_input_bytes
        coin  == IF bytes < 0 THEN output
                 ELSE [output EXCEPT
                        !.m_fee = g.m_effective_feerate * bytes,
                        !.m_long_term_fee = g.m_long_term_feerate * bytes,
                        !.effective_value = output.txout - g.m_effective_feerate * bytes]
    IN  IF positive_only /\ coin.effective_value <= 0 THEN g
        ELSE [g EXCEPT !.m_outputs = @ \cup {coin},
                       !.fee = @ + coin.m_fee,
                       !.long_term_fee = @ + coin.m_long_term_fee,
                       !.effective_value = @ + coin.effective_value,
                       !.m_from_me = all_from_me(@, from_me),
                       !.m_value = @ + output.txout,
                       !.m_depth = Min({@, depth}),
                       !.m_ancestors = @ + ancestors,
                       !.m_descendants = Max({@, descendants})]

(***************************************************************************)
(* EligibleForSpending, read from the filter: conf_theirs is the "minimum  *)
(* number of confirmations for outputs received from a different wallet"   *)
(* (line 120), conf_mine the one for the wallet's own; the group is held   *)
(* to the first unless all of it is from the wallet.                       *)
(***************************************************************************)
EligibleForSpending(g, eligibility_filter) ==
    /\ g.m_depth >= (IF g.m_from_me THEN eligibility_filter.conf_mine
                                    ELSE eligibility_filter.conf_theirs)
    /\ g.m_ancestors <= eligibility_filter.max_ancestors
    /\ g.m_descendants <= eligibility_filter.max_descendants

GetSelectionAmount(g) == IF g.m_subtract_fee_outputs THEN g.m_value ELSE g.effective_value

(***************************************************************************)
(* GetSelectionWaste: the cost of the change, or else the excess over the  *)
(* target, and what the inputs cost now above what they cost later.        *)
(***************************************************************************)
GetSelectionWaste(inputs, change_cost, target, use_effective_value) ==
    LET Amount(coin) == IF use_effective_value THEN coin.effective_value ELSE coin.txout
        Opportunity(coin) == coin.m_fee - coin.m_long_term_fee
        excess == MapThenSumSet(Amount, inputs) - target
    IN  MapThenSumSet(Opportunity, inputs) + (IF change_cost # 0 THEN change_cost ELSE excess)

----------------------------------------------------------------------------

Init ==
    /\ pc = "grouping"
    /\ \E subtract \in BOOLEAN :
            params = [CoinSelectionParams(EFFECTIVE_FEERATE, LONG_TERM_FEERATE)
                        EXCEPT !.m_subtract_fee_outputs = subtract]
    /\ positive_only \in BOOLEAN
    /\ known = <<>>
    /\ thrown = "none"
    /\ groups = [g \in Groups |-> OutputGroup(params)]
    /\ filter \in Filters
    /\ utxo_pool = {}
    /\ drawn = {}
    /\ target_value = 0
    /\ out_set = {}
    /\ value_ret = 0
    /\ waste = 0

(***************************************************************************)
(* The wallet makes the coin of an output and inserts it into a group; an  *)
(* exception of the constructor ends the selection.  The wallet is not in  *)
(* the sources: that it makes one coin of an output, and so never has one  *)
(* outpoint in two groups, is what is assumed of it.  With that, the order *)
(* of m_outputs (a std::vector) decides nothing and it is kept as a set.   *)
(***************************************************************************)
AddOutput(tx, i, input_bytes, g, chain) ==
    LET made == CInputCoin(tx, i, input_bytes)
    IN  /\ pc = "grouping"
        /\ COutPoint(tx, i) \notin DOMAIN known
        /\ thrown' = made.thrown
        /\ IF made.thrown = "none"
           THEN \E c \in Confirmations :
                    /\ known' = [o \in DOMAIN known \cup {made.coin.outpoint} |->
                                    IF o \in DOMAIN known THEN known[o] ELSE c]
                    /\ groups' = [groups EXCEPT ![g] =
                                    Insert(@, made.coin, c[1], c[2], chain[1], chain[2])]
                    /\ UNCHANGED pc
           ELSE /\ pc' = "thrown"
                /\ UNCHANGED <<known, groups>>
        /\ UNCHANGED <<params, positive_only, filter, utxo_pool, drawn, target_value,
                       out_set, value_ret, waste>>

(***************************************************************************)
(* The call of SelectCoinsSRD: its pool is the groups that pass the filter *)
(* and have a positive selection amount.                                   *)
(***************************************************************************)
StartSRD(target) ==
    /\ pc = "grouping"
    /\ utxo_pool' = {g \in Groups : /\ EligibleForSpending(groups[g], filter)
                                    /\ GetSelectionAmount(groups[g]) > 0}
    /\ target_value' = target
    /\ pc' = "selecting"
    /\ UNCHANGED <<params, positive_only, known, thrown, groups, filter, drawn, out_set,
                   value_ret, waste>>

target_exceeded(value) == value > target_value

target_met(value) == value >= target_value

with_replacement(pool, g) == pool

without(pool, g) == pool \ {g}

(***************************************************************************)
(* One iteration of SelectCoinsSRD: a group drawn at random is added, and  *)
(* the call returns when the target is met or the pool is used up.         *)
(***************************************************************************)
SelectCoinsSRD ==
    /\ pc = "selecting"
    /\ \/ \E g \in utxo_pool :
            /\ utxo_pool' = without(utxo_pool, g)
            /\ drawn' = drawn \cup {g}
            /\ out_set' = insert(out_set, groups[g].m_outputs)
            /\ value_ret' = value_ret + GetSelectionAmount(groups[g])
            /\ pc' = IF target_met(value_ret') THEN "returned" ELSE pc
       \/ /\ utxo_pool = {}
          /\ pc' = "returned"
          /\ out_set' = {}
          /\ value_ret' = None
          /\ UNCHANGED <<utxo_pool, drawn>>
    /\ UNCHANGED <<params, positive_only, known, thrown, groups, filter, target_value, waste>>

(***************************************************************************)
(* The wallet rates a successful result: the target is the one it selected *)
(* for, and the inputs count at the value the selection counted them at.   *)
(***************************************************************************)
CallGetSelectionWaste(change_cost) ==
    /\ pc = "returned"
    /\ value_ret # None
    /\ waste' = GetSelectionWaste(out_set, change_cost, target_value,
                                  ~params.m_subtract_fee_outputs)
    /\ pc' = "rated"
    /\ UNCHANGED <<params, positive_only, known, thrown, groups, filter, utxo_pool, drawn,
                   target_value, out_set, value_ret>>

Next ==
    \/ \E tx \in DOMAIN vout \cup {NullTx}, i \in 0..2, input_bytes \in InputBytes,
          g \in Groups, chain \in Chains :
            AddOutput(tx, i, input_bytes, g, chain)
    \/ \E target \in Targets : StartSRD(target)
    \/ SelectCoinsSRD
    \/ \E change_cost \in {0, COST_OF_CHANGE} : CallGetSelectionWaste(change_cost)

Spec == Init /\ [][Next]_vars

----------------------------------------------------------------------------

AllOutputs == UNION {groups[g].m_outputs : g \in Groups}

Selected(coin) == IF params.m_subtract_fee_outputs THEN coin.txout ELSE coin.effective_value

(***************************************************************************)
(* The variables keep their shape: a coin is one of an output, a group     *)
(* holds coins, and the result is a set of coins and a value or nothing.   *)
(***************************************************************************)
TypeOK ==
    /\ pc \in {"grouping", "selecting", "returned", "rated", "thrown"}
    /\ positive_only \in BOOLEAN
    /\ \A coin \in AllOutputs \cup out_set :
            /\ coin.outpoint \in DOMAIN known
            /\ coin.m_input_bytes \in InputBytes
    /\ \A o \in DOMAIN known : known[o] \in Confirmations
    /\ thrown \in {"none", "invalid_argument", "out_of_range"} /\ (thrown = "none") = (pc # "thrown")
    /\ DOMAIN groups = Groups
    /\ filter \in Filters
    /\ utxo_pool \subseteq Groups /\ drawn \subseteq Groups /\ utxo_pool \cap drawn = {}
    /\ target_value \in Targets \cup {0}
    /\ value_ret \in Int /\ waste \in Int

(***************************************************************************)
(* CInputCoin(tx, i) never makes a coin of an output the transaction does  *)
(* not have: the check of i against vout.size() refuses the first index    *)
(* past the end, so that txout is always vout[i] of the outpoint's         *)
(* transaction.                                                            *)
(***************************************************************************)
CoinsAreOutputs ==
    \A coin \in AllOutputs :
        /\ coin.outpoint[2] < Len(vout[coin.outpoint[1]])
        /\ coin.txout = vout[coin.outpoint[1]][coin.outpoint[2] + 1]

(***************************************************************************)
(* What SelectCoinsSRD returns adds up: the value it returns meets the     *)
(* target and is the value of the coins of the set it returns, and the     *)
(* waste is what these coins cost above their long-term fee plus the cost  *)
(* of the change or the excess.  The value is summed over groups and the   *)
(* set is a std::set ordered by operator< of CInputCoin, so this rests on  *)
(* no two coins of different outputs comparing equal.                      *)
(***************************************************************************)
SelectionAddsUp ==
    /\ (pc \in {"returned", "rated"} /\ value_ret # None) =>
            /\ value_ret >= target_value
            /\ value_ret = MapThenSumSet(Selected, out_set)
    /\ pc = "rated" =>
            \E change_cost \in {0, COST_OF_CHANGE} :
                waste = MapThenSumSet(LAMBDA g : groups[g].fee - groups[g].long_term_fee, drawn)
                        + (IF change_cost # 0 THEN change_cost ELSE value_ret - target_value)

(***************************************************************************)
(* SelectCoinsSRD returns nothing only when the whole pool is short of the *)
(* target: a pool whose groups add up to the target exactly satisfies it.  *)
(***************************************************************************)
FailsOnlyWhenPoolShort ==
    (pc = "returned" /\ value_ret = None) =>
        MapThenSumSet(LAMBDA g : GetSelectionAmount(groups[g]), drawn) < target_value

(***************************************************************************)
(* Every coin selected has the confirmations the filter asks of it: a coin *)
(* received from others has conf_theirs, a coin of the wallet conf_mine or *)
(* conf_theirs, whichever is less.  Depth and origin are kept per group    *)
(* (the least depth, from me only if every coin is) and                    *)
(* EligibleForSpending judges the group, so a coin rides on its group only *)
(* if the group is judged by its worst coin.  The constructors of the      *)
(* filter (lines 126-128) take any two numbers: with conf_mine above       *)
(* conf_theirs a coin of the wallet in a mixed group is held to            *)
(* conf_theirs only.                                                       *)
(***************************************************************************)
SelectedCoinsAreConfirmed ==
    \A coin \in out_set :
        LET depth   == known[coin.outpoint][1]
            from_me == known[coin.outpoint][2]
        IN  depth >= (IF from_me THEN Min({filter.conf_mine, filter.conf_theirs})
                                 ELSE filter.conf_theirs)

=============================================================================
