# TLA+ models of the replace-by-fee policy, the test fixtures, ChaCha20 and coin selection

This directory holds the TLA+ specifications that are kept beside the
replace-by-fee (RBF) code, the test fixtures, the ChaCha20 cipher and the coin
selection of this repository, the TLC configurations that check them, and
`PROJECT.json`, which lists every component, run, mutant, mapped definition,
finding and hazard in machine-readable form.

## 1. The system

The repository is a node of a Bitcoin-like network. The sources at hand are

| file | what it holds |
|------|---------------|
| `src/src/test/rbf_tests.cpp` | the unit tests of the RBF policy and their helpers |
| `src/src/test/util/setup_common.cpp` | the test fixtures: construction and teardown of a node |
| `src/src/crypto/chacha20.h` | the interface of the ChaCha20 stream cipher |
| `src/src/wallet/coinselection.h` | the types and interface of coin selection |

The policy itself (`policy/rbf.cpp`, `txmempool.cpp`, `util/feefrac.cpp`) is
not among them; the design document (`spec.md`) describes it as six components:

| # | component | operations | state it reads |
|---|-----------|------------|----------------|
| C1 | FeeFrac and diagram algebra | `FeeRateCompare`, `BuildDiagramFromChunks`, `CompareFeerateDiagram` | none (pure) |
| C2 | fee predicates | `PaysMoreThanConflicts`, `PaysForRBF` | modified fees and sizes of entries |
| C3 | conflict enumeration | `EntriesAndTxidsDisjoint`, `GetEntriesForConflicts`, `HasNoNewUnconfirmed` | descendants, inputs |
| C4 | topology check | `CheckConflictTopology` | ancestor and descendant counts, parents, children |
| C5 | diagram builder | `CalculateFeerateDiagramsForRBF` | clusters of the conflicts |
| C6 | admission driver | `ImprovesFeerateDiagram` | composes C4, C5, C1 |

The only mutable state is the mempool: a set of entries (txid, inputs, virtual
size, base fee, prioritisation delta) changed by `addUnchecked` and
`PrioritiseTransaction`. The tests hold the mempool lock (`LOCK2(::cs_main,
pool.cs)`) for their whole body, so nothing interleaves with a test case; what
is left open is what the test does not fix:

* the **txids**: they are hashes, and an entry set is iterated in txid order, so
  any result that is "the first entry that ..." depends on them;
* the **value `add_descendants` returns**: the function has no return statement;
* the **order of the steps**: every check is made in the pool the statements
  before it have built, after prioritisations and additions.

The fixtures of `setup_common.cpp` are the concurrent part. A `TestingSetup`
starts three threads in its constructor (the scheduler thread, which serves the
queue of validation callbacks, and two script-check threads) and has to stop,
interrupt and join them in its destructor before it releases what they use.
Block processing on the test thread waits while the callback queue is full, so
it depends on the scheduler thread running. `Seed`, `noui_connected`, `gArgs`,
`pblocktree` and `g_chainman` are process-wide and outlive a fixture.

`chacha20.h` declares two classes. `ChaCha20Aligned` is the cipher on whole
blocks of 64 bytes: a key, a 96-bit nonce (`Nonce96`, a 32-bit and a 64-bit
word) and a 32-bit block counter whose overflow is carried into the first word
of the nonce. `ChaCha20` wraps one and serves calls of any size. `SetKey` and
`Seek64` of `ChaCha20` are defined in the header; everything else is declared
and documented, and no file of the sources has a body for it. The header holds
parts of two versions of the class: a buffer for the bytes of a block that a
call did not use (`m_buffer`, `m_bufleft`, reset by `Seek64`), and a class
comment that says the rest of a block is skipped. One object is used by one
thread; what is hard is the sequence of calls: sizes that are no multiple of a
block, a seek or a new key while bytes are buffered, and the counter at its
limit.

`coinselection.h` holds the types a wallet selects coins with. A `CInputCoin`
is made of an output of a transaction (the constructor throws on a null
transaction and on an index out of range), coins are ordered by outpoint, an
`OutputGroup` accumulates coins and their combined depth, origin and fees, a
`CoinEligibilityFilter` says which groups may be spent, `SelectCoinsSRD` draws
groups at random until a target is met, and `GetSelectionWaste` prices the
result. The header defines the constructors and the comparison, documents
`GetSelectionWaste`, `SelectCoinsSRD` and `GetSelectionAmount`, and only
declares `Insert` and `EligibleForSpending`.

What makes the code hard to test, by place, is in `PROJECT.json` under
`hazards`. The properties the policy must have: the comparison of two diagrams
is the order of the two piecewise-linear functions; it terminates; the policy
accepts what the tests accept and refuses what they refuse, for every txid
order; the pool never holds two spenders of one output; a fixture releases
nothing a thread of it may still use, leaves nothing behind for the next one,
and neither its construction nor its teardown waits for ever; the cipher
uses the bytes of its keystream in order and none twice; a selection returns
real outputs that add up to what it says and that each pass the filter.

## 2. Modules

| module | models | from |
|--------|--------|------|
| `FeeFrac` | C1: fee/size pairs, exact feerate comparison, chunk sorting, diagram building, the walk of `CompareFeerateDiagram` as operators, and the reference definition of the order of two diagrams (`PointwiseOrder`) | design document |
| `DiagramCompare` | one call of `CompareFeerateDiagram` as a state machine, one loop iteration per step; the vectors of test `feerate_diagram_utilities` | design document; `rbf_tests.cpp` 535-608 |
| `Mempool` | the pool as a function from txid to entry, and the queries of the mempool view | design document |
| `RbfPolicy` | C2-C6 as operators over a pool | design document, and the test where the two disagree |
| `RbfTests` | test cases `rbf_helper_functions`, `improves_feerate`, `calc_feerate_diagram_rbf` and the helpers `make_tx`, `make_two_siblings`, `add_descendants`, `add_children_to_parent`, `TestMemPoolEntryHelper::FromTx` | `rbf_tests.cpp` 17-533, `setup_common.cpp` 197-207 and 239-243 |
| `TestSetup` | `Seed`, the constructors and destructors of `BasicTestingSetup`, `TestingSetup` and `TestChain100Setup`, the scheduler thread and the script-check threads | `setup_common.cpp` 54-63 and 71-232 |
| `ChaChaStream` | what a stream cipher promises: a key, a nonce and a position in the keystream; a call outputs the bytes from the position on and moves it past them, or on to the next block | abstract specification |
| `ChaCha20Aligned` | the cipher on whole blocks as operators on its position: `SetKey`, `Seek64`, `Keystream64`, the block counter and its carry | `chacha20.h` 12-60 |
| `ChaCha20` | `SetKey`, `Seek64`, `Keystream` and `Crypt` over `m_aligned`, `m_buffer` and `m_bufleft`; the refinement mapping to `ChaChaStream` | `chacha20.h` 24-26 and 63-94 |
| `CoinSelection` | `CInputCoin`, `CoinSelectionParams`, `CoinEligibilityFilter`, `OutputGroup`, `GetSelectionWaste`, `SelectCoinsSRD`, and one selection made with them | `coinselection.h` 20-186 |
| `MCDiagramCompare`, `MCRbfTests`, `MCCoinSelection` | the instances TLC checks (`TestSetup` and `ChaCha20` are checked as they are) | |

`RbfTests` extends `RbfPolicy`, which extends `Mempool`, which extends
`FeeFrac`: the tests call the policy on the pool they build. `ChaCha20`
extends `ChaCha20Aligned` and instantiates `ChaChaStream` with its refinement
mapping.

### What is code and what is read from comments

Two of the four files are headers, and the policy the tests call is in none of
them. Every definition is one of four kinds, and `PROJECT.json` and the
comments of the modules say which:

| kind | where | what the model rests on |
|------|-------|-------------------------|
| code with a body | `rbf_tests.cpp`, `setup_common.cpp`; in the headers `ChaCha20::SetKey`, `ChaCha20::Seek64`, the constructors of `CInputCoin`, `operator<`, the constructors and defaults of the structs | the statements |
| documented, no body | `ChaCha20Aligned` (`SetKey`, `Seek64`, `Keystream64`, `Crypt64`, the carry of lines 15-18 and 49-50), `GetSelectionWaste`, `SelectCoinsSRD`, `GetSelectionAmount`; the wait of block processing on a full callback queue (comment of `setup_common.cpp` 136-137) | the comment, and nothing the comment does not say |
| declared only | `ChaCha20::Keystream` and `Crypt`, `OutputGroup::Insert` and `EligibleForSpending`, `add_descendant_to_parents` | a reading of the members, defaults and call sites, named as a reading where it is made |
| not in the sources | the RBF policy and the mempool (C1-C6), the scheduler's loop, the wallet that calls the coin selection | the design document for the policy (marked `spec_modelled` in the map); for the others the least that their callers in the sources need |

A property that passes on a definition of the last three kinds says that the
documentation and the code at hand are consistent, not that the missing body
is right. The map counts the lines of a comment or a declaration for a
definition modelled from it; the share of the two headers it covers is
mostly of that kind.

Three assumptions are made of code that is not there. An entry set is iterated
in txid order (`CheckConflictTopology` reports the first offender in that
order; the design document calls the set unordered, and run
`rbf_tests_hash_order` is about exactly this). The scheduler thread serves one
callback at a time and notices `stop()` between two of them. The wallet makes
one coin of an output, so no outpoint is in two groups.

### How `RbfTests` corresponds to the code

A test case is a *program*: the sequence of its statements that change state
(`AddTx`, `MakeTx`, `Prioritise`, `AddDescendants`, ...) and of its blocks of
`BOOST_CHECK`s. `Check(n)` stands for the block of checks that starts at line
`n`; `ChecksAt(n)` gives the set of pairs (line, holds) of that block, evaluated
in the current pool. The variables are the program counter `pc`, the pool, the
`TestMemPoolEntryHelper` (`entry`), the test's local variables (`local`), the
frame of `add_descendants` while it runs, and `failed`, the lines of the checks
that did not hold. `add_descendants` is three actions (call, one loop iteration,
return) so that the pool is observed after every `addUnchecked`.

Data is abstracted to what the policy reads. A transaction is the set of
outpoints it spends and its number of outputs; output values, scripts and
witnesses are left out. A txid is an integer given by a hash function chosen in
the initial state (`hash[k]` is the txid of the k-th transaction created):
ascending, descending and scattered orders are checked. The virtual size is
linear in the numbers of inputs and outputs. Amounts are scaled (`CENT` = 1000
for 1,000,000, the huge virtual size 999,999 for 99,999,999) so that every
product fits TLC's integers; each check keeps the side of the boundary it is on.
Messages are tuples of their kind and the values they are formatted from:
the checks of lines 299-329 compare them.

### How `TestSetup` corresponds to the code

One test thread constructs and destroys fixtures one after the other; `pc` is
the statement it is at. The constructor is the actions `BasicTestingSetup`
(lines 71-116), `TestingSetup` (126-152, up to the first statement that can
throw), `LoadGenesisBlock` (153-155), `ActivateBestChain` (157-160),
`TestingSetupThreads` (162-176) and, for a `TestChain100Setup`, one
`CreateAndProcessBlock` per block (197-227). The destructor is one action per
statement or group of statements of lines 179-195 and 229-232; `Teardown` is
their order, and `After` the successor in it. The split is where another thread
can observe the difference: between `stop`, `interrupt_all`, `join_all`, the
flush and each group of resets.

The threads are `serviceQueue(f)` and `ThreadScriptCheck(f)`. The scheduler
thread runs one pending callback per step while its scheduler is the registered
one, and returns at some step after `stop()`; a script-check thread returns at
some step after the interruption. `join_all` is enabled when no thread of the
group is running.

Data is abstracted to what the order of the steps can change: an object of the
node is a name in `live` while it exists, the callback queue is its length, a
block is a callback queued (`ProcessBlock`, which waits at `QueueLimit`), the
seed is a member of `Seeds`. A throw in the constructor skips `~TestingSetup`,
runs `~BasicTestingSetup` and destroys `m_node` with what it owns; the objects
behind globals (`Globals`) stay. The body of the test is not a step: the
fixture is torn down right after it is constructed.

### How `ChaCha20` corresponds to the code

The state is the three members: `m_aligned` (a record of key, `first` and
`second` word of the nonce and block `counter`), `m_buffer` and `m_bufleft`,
and `out`, what the last call wrote. A keystream byte is not computed: it is
the record of the block it belongs to (key, nonce, counter) and its offset in
the block, which is all that tells two bytes apart. `Crypt` pairs every input
byte with the keystream byte it is combined with. `Advance` is the block
counter: it wraps at `COUNTER_LIMIT` and carries into `first`, which wraps at
`FIRST_LIMIT` (both 2^32 in the code).

`ChaCha20SetKey` and `ChaCha20Seek64` are the two bodies of the header,
statement by statement. `Keystream` and `Crypt` are declared, and the header
gives two accounts of them:

* the members `m_buffer` and `m_bufleft` (lines 25-26) and the assignment
  `m_bufleft = 0` in `Seek64` (line 85) are those of a cipher that keeps the
  rest of a block: a call first takes what is left in the buffer, then whole
  blocks straight from `Keystream64`, then the head of one more block, whose
  rest stays in the buffer;
* the comment of the class (line 63) says that it "seeks forward to a multiple
  of 64 bytes after every operation": the rest of the block is thrown away,
  nothing is ever buffered, and line 85 resets what is always 0.

`StreamFrom(bytes, keep)` is both: with `keep` the rest is buffered
(`bufleft_after`), without it the position after the call is the next block.
Each call of the model takes either, which covers a build of the first
account, one of the second and every mix. `m_buffer` and `m_bufleft` are
declared inside `ChaCha20Aligned`, next to a member of the class's own type;
they are read as members of `ChaCha20`, which is the class whose `Seek64`
assigns one of them.

`ChaChaStream` is the promise. Its state is a key, a nonce, a position `pos` in
the keystream of that key and nonce, and `positioned`, which says whether the
position is defined. `Seek64` positions the stream; `Keystream` and `Crypt`
output the bytes at `pos`, `pos + 1`, ... and move `pos` past them or on to
the next multiple of `BLOCKLEN`; `SetKey` changes the
key and leaves open whether the stream is still positioned, and a call on a
stream that is not positioned may output anything. `ChaCha20` implements it
under the mapping

    pos        <- BlockIndex(m_aligned) * BLOCKLEN - m_bufleft   (modulo the stream)
    positioned <- the buffer is empty or holds the block before m_aligned's
    out        <- each byte as (key, nonce, position in the stream)

### How `CoinSelection` corresponds to the code

The module is one selection. `AddOutput` is the wallet making a coin of an
output (`CInputCoin(tx, i, input_bytes)`, with both throws and in their order)
and inserting it into a group with the confirmations and the chain the output
has; `StartSRD` filters the groups into the pool (`EligibleForSpending` and a
positive `GetSelectionAmount`, as the comment on `utxo_pool` requires);
`SelectCoinsSRD` is one draw of the loop or the return of `nullopt`;
`CallGetSelectionWaste` is the wallet rating a successful result. `pc` says
where the selection is; a thrown exception ends it.

An amount is an integer and a feerate an amount per byte. A transaction is its
hash and the values of its outputs (`vout`); `tx->vout[i]` past the end is an
`Indeterminate` amount, which the guard of line 26 has to keep out of every
coin. `std::set<CInputCoin>` is a set with the insertion rule of the standard
library: an element equivalent to one of the set under `operator<` is not
inserted.

`SelectCoinsSRD` is its comment (lines 179-185): groups are drawn "randomly
from the eligible outputs until the target is satisfied", read as a draw
without replacement that stops at the first total at or above the target, and
the "total selected value" is the sum of `GetSelectionAmount` of the groups
drawn. `Insert` and `EligibleForSpending` are declared only, and these are the
readings: a coin's fees are its size at the feerates of the group and its
effective value its value less the fee (the "inputs * feerate" of line 162); a
coin without a size (`m_input_bytes` = -1) keeps the fee 0 and the value its
constructor gave it; `m_from_me{true}` and `m_depth{999}` are the start of a
conjunction and of a minimum; the group is held to `conf_theirs` unless all of
it is from the wallet. `m_outputs` is a `std::vector`; the wallet is assumed
to make one coin of an output, and then the order of the vector decides nothing
and it is kept as a set.

### Where the file and the design document disagree

The policy operators follow the tests, because the tests are the source. The
reading of the design document is kept under a name ending in `AsSpecified`
and a run shows the disagreement (section 4).

The file is not compilable as it stands, and the model says how it reads it:
`entry1` ... `entry8` (lines 188-235) are read as `entry1_normal` ...
`entry8_high`; `add_descendant_to_parents` (line 325) is not defined and is
modelled from the comment at its call ("Make a single child from two singleton
parents"); the `assert` of `make_two_siblings` holds at its only call (tx13 has
two outputs) and is not modelled.

## 3. Passing runs

| run | module / cfg | states | what it shows |
|-----|--------------|--------|----------------|
| `compare_walk` | `MCDiagramCompare` / `MCDiagramCompare.cfg` | about 157,000 | the walk of `CompareFeerateDiagram` |
| `rbf_tests` | `MCRbfTests` / `MCRbfTests.cfg` | 564 | the three fixture test cases |
| `test_setup` | `TestSetup` / `TestSetup.cfg` | 1,167 | construction and teardown of two fixtures with their threads |
| `chacha20` | `ChaCha20` / `ChaCha20.cfg` | 8,992 | the cipher implements the keystream, the rest of a block kept or skipped |
| `coin_selection` | `MCCoinSelection` / `MCCoinSelection.cfg` | about 590,000 | one selection from coins to the waste of the result |

**compare_walk.** Inputs: every ordered pair of diagrams built from at most 3
chunks with fees 0..3 and sizes 1..2 (zero-fee chunks, equal feerates, equal
and different total sizes, prefixes of one another all occur), and the 20
ordered pairs of the test. Properties:

* `TypeOK` - the indices never go past one beyond the end of their diagram;
* `ResultMatchesReference` - the result of the walk, which looks at one
  breakpoint at a time and returns early, is the order of the two diagrams as
  functions (interpolated fee at every breakpoint of either, the shorter one
  continued horizontally);
* `VectorsAsExpected` - every check of `feerate_diagram_utilities` holds;
* `Termination` - every call returns.

Fairness: `WF_vars(Next)`. The call is sequential code of one thread; weak
fairness of its next step says only that the thread keeps running.

**rbf_tests.** Inputs: the three test cases, three hash orders, and at each
return of `add_descendants` either the last transaction or an indeterminate
value. Properties:

* `TypeOK` - the program counter, the loop counter of `add_descendants`, the
  pool and the locals stay within what was created;
* `ChecksHold` - every `BOOST_CHECK` reached holds, the one of line 299 aside;
* `NoDoubleSpendInPool` - no two entries of the pool spend the same output,
  which the helpers assume and `addUnchecked` does not check.

The bounds are the test's own: `MAX_REPLACEMENT_CANDIDATES` = 100 is reached
exactly (8 entries and 4 chains of 23) and then exceeded by one. `MaxTxs` = 116
bounds the number of transactions a test case creates.

**test_setup.** Inputs: two fixtures, each a `TestingSetup` or a
`TestChain100Setup`, each constructor completing or throwing at either place;
`RANDOM_CTX_SEED` set or not, and two values `GetRandHash` may return.
Properties:

* `TypeOK` - the variables keep their shape, the callback queue stays within
  its limit and `ECC_Start` is never called twice without `ECC_Stop`;
* `ThreadsJoinedBeforeRelease` - while a thread of a constructed fixture runs,
  the scheduler, the mempool and the chainstate exist: `stop()` is noticed by
  the scheduler thread at a time of its own, so this rests on `join_all` coming
  before every reset;
* `NoCallbackAfterRelease` - no callback is pending once the mempool or the
  chainstate is gone: the stopped scheduler leaves callbacks in the queue, and
  `FlushBackgroundCallbacks` has to run them before the resets;
* `CleanBetweenFixtures` - a fixture that was constructed leaves no directory,
  argument, ECC context, object, registration, callback or unjoined thread;
* `FixtureCompletes` - the test thread always comes back to where the next
  fixture starts: block processing never waits for ever on a full queue and
  `join_all` never waits for ever on a thread.

Bounds: `MaxFixtures` = 2 is what it takes for state to leak from one fixture
into the next; `COINBASE_MATURITY` = 3 stands for 100 and `QueueLimit` = 2 for
the limit of the callback queue, chosen so that the genesis block and the chain
fill the queue and block processing does wait for the scheduler thread.

Fairness: weak fairness of the test thread, of `serviceQueue(f)` and of
`ThreadScriptCheck(f)` for each fixture. Each is a thread of the operating
system that is never blocked by another in the model except where the code
waits (`join_all`, a full queue), so a step that stays enabled is eventually
taken; nothing stronger is assumed.

**chacha20.** Inputs: every initial position; calls of `SetKey` with 2 keys,
of `Seek64` with every nonce and counter, and of `Keystream` and `Crypt` for 0
to `MaxBytes` bytes, in any order. Properties:

* `TypeOK` - the counter and the first word of the nonce stay within their
  width when the position moves, and fewer bytes than a block are buffered
  (a buffer that claims a whole block after a call that ended on a block
  boundary would hand out the block before the position);
* `ImplementsStream` - every behaviour of `ChaCha20` is one of `ChaChaStream`:
  once `Seek64` has positioned the cipher, the calls use bytes of the
  keystream in order and none twice, whatever their sizes, whether the rest of
  a block is kept or skipped, and across the overflow of the block counter.
  This rests on `m_bufleft = 0` in `Seek64` (a seek without it fails the
  property) and on the carry into `nonce.first` (a counter that wraps without
  it fails the property too).

Bounds: `BLOCKLEN` = 3 stands for 64; `MaxBytes` = 7 is two blocks and a byte,
so that a call can empty the buffer, bypass it with whole blocks and refill it;
`COUNTER_LIMIT` = 4 and `FIRST_LIMIT` = 2 stand for 2^32, so that a call of 7
bytes crosses the overflow of the counter and the keystream of 8 blocks wraps.
No fairness is assumed: the properties are safety properties. Deadlock is
checked: a cipher can always be called.

**coin_selection.** Inputs: two transactions with two and one output and a null
transaction, indices 0..2 (index 2 is past the end of both, index 1 of one),
input sizes -1 and 1, outputs of depth 1 from me, depth 1 and depth 6 from
others, two chains of ancestors and descendants, two groups, three filters
(one of them with `conf_mine` above `conf_theirs`),
targets 3 and 7 (the pool can add up to less, exactly and more), fee subtracted
from the outputs or not, `positive_only` or not. Properties:

* `TypeOK` - the variables keep their shape, and no group is both in the pool
  and drawn: a draw is without replacement;
* `CoinsAreOutputs` - every coin is an output its transaction has, with the
  value of that output: the check of `i` against `vout.size()` refuses the
  first index past the end;
* `SelectionAddsUp` - the value returned meets the target and is the sum of the
  coins of the set returned, and the waste is that of these coins; the value is
  summed per group and the set is ordered by `operator<`, so this rests on the
  order telling any two outputs apart, and on the waste being computed over the
  amounts the selection used (`use_effective_value`);
* `FailsOnlyWhenPoolShort` - `nullopt` is returned only when the whole pool is
  below the target;
* `SelectedCoinsAreConfirmed` - every coin of the result has by itself the
  confirmations the filter asks of it, although the filter sees only the
  group: a coin received from others has `conf_theirs`, a coin of the wallet
  `conf_mine` or `conf_theirs`, whichever is less. No more holds of a coin of
  the wallet: the constructors of the filter take any two numbers, and with
  `conf_mine` above `conf_theirs` a coin of the wallet in a mixed group is
  held to `conf_theirs` only.

Bounds: amounts up to 5 and feerates 2 and 1 make coins whose effective value
is positive, zero (value 2, one byte at feerate 2) and different from their
value. The groups are interchangeable and the run uses their symmetry.

Deadlock checking is off in `compare_walk`, `rbf_tests`, `test_setup` and
`coin_selection`: a call that has returned, a test case that has ended, a
process that has run its fixtures and a selection that has been rated, has
failed or has thrown stop. A thread that waits for ever is caught by `Termination` and
`FixtureCompletes` instead.

Every property of a passing run has a mutant in `PROJECT.json`: a plausible
wrong version of a modelled definition under which TLC finds the property
violated.

## 4. Findings

| run | property | what TLC shows |
|-----|----------|----------------|
| `rbf_tests_hash_order` | `ChecksHoldForEveryHash` | line 299 expects the reason for tx4; with tx3's txid below tx4's the reason is for tx3, which has 24 descendants. The design document leaves the order open. |
| `rbf_tests_return` | `NoIndeterminateUse` | `add_descendants` ends without `return`; lines 313 and 319 dereference its result. |
| `rbf_tests_unconfirmed` | `SpecifiedRuleMeetsTest` | the document exempts inputs that are direct conflicts; the test (lines 286, 291) exempts inputs the conflicts themselves spend from. |
| `test_setup_throw` | `NoThreadOutlivesFixture` | the constructor of `TestingSetup` can throw (lines 154, 159) after it started the scheduler thread (line 138); `~TestingSetup` does not run, nothing stops or joins the thread, and `m_node` releases the scheduler it serves. |
| `rbf_tests_tie_break` | `EqualFeeratesCollapse` | the document collapses a parent and child of equal feerates into one chunk; the test (line 518) expects two. |
| `rbf_tests_cluster_bound` | `TopologyBoundsClusters` | the four rules of the topology check accept the middle entry of a chain of three (pool of line 458: `low_tx`, `high_tx`, `normal_tx`) as a direct conflict; the document calls the rules equivalent to clusters of at most two entries, and the test asks for the ends of the chain only. |
| `chacha20_setkey` | `KeystreamIsOfCurrentKey` | `ChaCha20::SetKey` (line 76) passes the key on and leaves `m_bufleft`, unlike `Seek64` (line 85): after `Keystream` of 1 byte that keeps the rest of its block and `SetKey`, the next byte output is one of the old key's block. The finding is one of the cipher with the buffer; in the cipher of the comment of line 63 nothing is buffered. |

The header of the cipher disagrees with itself (lines 25-26 and 85 against
line 63, section 2). No run is spent on it: which account is the code cannot
be decided from the sources, and the passing run holds of both.

## 5. Not modelled

* The mempool's removal, eviction, indices and fee estimation; the caller of
  the policy in validation; serialization; the network.
* `CFeeRate`'s rounding to an amount per 1000 bytes: a feerate is the exact
  fraction, as the design document defines it. `RelayFee` truncates the product
  as `CFeeRate::GetFee` does.
* The ChaCha20 block function (the quarter rounds): arithmetic on 32-bit
  words that is not in the header; a keystream byte is identified, not computed.
  The key length of `SetKey` (16 or 32 bytes) is part of the key.
* `SelectCoinsBnB` and `KnapsackSolver`: the header has their signatures and
  neither a body nor a comment that says what they compute. `MIN_CHANGE` and
  `MIN_FINAL_CHANGE` are used by them only. The members of
  `CoinSelectionParams` and `CoinEligibilityFilter` that no operation of the
  header reads (`change_output_size`, `change_spend_size`, `m_discard_feerate`,
  `tx_noinputs_size`, `m_avoid_partial_spends`, `m_include_partial_groups`) are
  left out of the records. `operator==` and `operator!=` of `CInputCoin` are
  not used by the selection.
* What `Insert` does with a coin whose size is unknown (`m_input_bytes` = -1,
  line 57): the model leaves the coin as its constructor made it, and no
  property is stated of it, because it would check that choice and no code.
* The seed of `Seed` is modelled and no property is about it: it is written
  once, behind its own test for null, by the one thread that constructs
  fixtures.
* Inside the fixtures: argument parsing, logging, the body of
  `UnloadBlockIndex`, the destructors of the objects of the node (an object is
  only there or not), and `threadGroup`'s own destructor.
* `getBlock6548` and the block assembly of `CreateAndProcessBlock`: data and
  calls into code that is not in the sources.

## 6. Plan

1. `FeeFrac`, `DiagramCompare` - done.
2. `Mempool`, `RbfPolicy`, `RbfTests` - done.
3. The topology rules over a chain of three - done as run
   `rbf_tests_cluster_bound`, on the pool the test builds. Properties of the
   diagram builder on pools no test builds are not checked: the policy is not
   among the sources, and such a check compares the design document with
   itself.
4. `TestSetup` - done. The body of a test between construction and teardown
   is not a step of its own: the RBF tests hold `cs_main` and `pool.cs` for
   their whole body and queue no validation callback, so the fixture's threads
   see nothing of it, and what a body can leave behind (pending callbacks of
   processed blocks) is already left by the constructor of `TestChain100Setup`.
5. `ChaChaStream`, `ChaCha20Aligned`, `ChaCha20` - done, for both accounts the
   header gives of a call that ends inside a block.
6. `CoinSelection` - done, for what the header defines or documents.
