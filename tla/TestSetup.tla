----------------------------- MODULE TestSetup -----------------------------
(***************************************************************************)
(* The test fixtures of src/src/test/util/setup_common.cpp: the            *)
(* constructors and destructors of BasicTestingSetup, TestingSetup and     *)
(* TestChain100Setup, run by the thread of the test, and the threads a     *)
(* fixture starts: the scheduler thread, which serves the queue of         *)
(* validation callbacks, and the script-check threads.                     *)
(*                                                                         *)
(* One process constructs and destroys fixtures one after the other.  The  *)
(* objects of a node are abstracted to whether they exist, the callback    *)
(* queue to its length.  Processing a block queues a callback and waits    *)
(* while the queue is full ("queue overrun", line 136).  The body of the   *)
(* test is not a step.                                                     *)
(***************************************************************************)
EXTENDS Naturals, Sequences, FiniteSets

CONSTANTS
    MaxFixtures,        \* the fixtures one process constructs
    COINBASE_MATURITY,  \* the blocks TestChain100Setup generates
    QueueLimit,         \* the pending callbacks at which block processing waits
    Seeds,              \* what GetRandHash() may return
    Null                \* the null uint256, and an unset RANDOM_CTX_SEED

VARIABLES
    pc,             \* the statement the test thread is at
    fixture,        \* the number of the fixture under construction or teardown
    kind,           \* its class: "TestingSetup" or "TestChain100Setup"
    env,            \* RANDOM_CTX_SEED in the environment of the process
    seed,           \* the static seed of Seed()
    flags,          \* the process-wide flags that have been set
    gArgs,          \* the arguments forced into gArgs
    ecc,            \* ECC_Start calls that no ECC_Stop has matched
    dirs,           \* the fixtures whose m_path_root exists
    live,           \* the objects of the node that exist
    scheduler,      \* per fixture, the state of m_node.scheduler
    thread,         \* per fixture and thread of threadGroup, its state
    interrupted,    \* the fixtures whose threadGroup was interrupted
    registered,     \* the fixture whose scheduler the main signals use, or 0
    queue,          \* the number of callbacks the main signals have pending
    blocks,         \* the size of m_coinbase_txns
    thrown          \* the fixtures whose constructor threw

vars == <<pc, fixture, kind, env, seed, flags, gArgs, ecc, dirs, live, scheduler,
          thread, interrupted, registered, queue, blocks, thrown>>

Fixtures    == 1..MaxFixtures
ThreadNames == {"scheduler", "scriptcheck0", "scriptcheck1"}

(***************************************************************************)
(* The objects behind globals (pblocktree, g_chainman): the destruction of *)
(* m_node does not release them.                                           *)
(***************************************************************************)
Globals == {"pblocktree", "chainman"}

----------------------------------------------------------------------------
(* Seed and the constructor and destructor of BasicTestingSetup.           *)

(***************************************************************************)
(* Seed: the seed is taken once for the process, from the environment or,  *)
(* when that gives none, from GetRandHash.                                 *)
(***************************************************************************)
FreshSeed(current) == IF env # Null THEN {env} ELSE Seeds

Seed(current) == IF current # Null THEN {current} ELSE FreshSeed(current)

BasicTestingSetup ==
    /\ pc = "idle"
    /\ fixture < MaxFixtures
    /\ fixture' = fixture + 1
    /\ kind' \in {"TestingSetup", "TestChain100Setup"}
    /\ dirs' = dirs \cup {fixture'}
    /\ gArgs' = gArgs \cup {"-datadir"}
    /\ seed' \in Seed(seed)
    /\ ecc' = ecc + 1
    /\ live' = live \cup {"args", "chain"}
    /\ flags' = flags \cup {"fCheckBlockIndex", "noui_connected"}
    /\ blocks' = 0
    /\ pc' = "TestingSetup"
    /\ UNCHANGED <<env, scheduler, thread, interrupted, registered, queue, thrown>>

(***************************************************************************)
(* ~BasicTestingSetup, and the destruction of m_node that follows it: the  *)
(* objects m_node still owns go, the ones behind globals stay.             *)
(***************************************************************************)
DestroyBasicTestingSetup ==
    /\ live' = live \cap Globals
    /\ dirs' = dirs \ {fixture}
    /\ gArgs' = {}
    /\ ecc' = ecc - 1
    /\ pc' = "idle"

----------------------------------------------------------------------------
(* The constructors of TestingSetup and TestChain100Setup.                 *)

no_thread(threads, names) == threads

create_thread(threads, names) ==
    [threads EXCEPT ![fixture] = [n \in ThreadNames |->
                                    IF n \in names THEN "running" ELSE @[n]]]

TestingSetup ==
    /\ pc = "TestingSetup"
    /\ flags' = flags \cup {"tableRPC"}
    /\ scheduler' = [scheduler EXCEPT ![fixture] = "alive"]
    /\ thread' = create_thread(thread, {"scheduler"})
    /\ registered' = fixture
    /\ live' = live \cup {"pblocktree", "mempool", "chainman"}
    /\ pc' = "LoadGenesisBlock"
    /\ UNCHANGED <<fixture, kind, env, seed, gArgs, ecc, dirs, interrupted, queue,
                   blocks, thrown>>

(***************************************************************************)
(* A throw in the constructor of TestingSetup: ~TestingSetup does not run, *)
(* ~BasicTestingSetup does, and m_node is destroyed with what it owns,     *)
(* the scheduler included.                                                 *)
(***************************************************************************)
Throw ==
    /\ thrown' = thrown \cup {fixture}
    /\ scheduler' = [scheduler EXCEPT ![fixture] = "destroyed"]
    /\ DestroyBasicTestingSetup

ProcessBlockWithoutWait == queue' = queue + 1

(***************************************************************************)
(* Processing a block queues a callback for the scheduler thread, and      *)
(* waits while the queue is full.                                          *)
(***************************************************************************)
ProcessBlock ==
    /\ queue < QueueLimit
    /\ queue' = queue + 1

LoadGenesisBlock ==
    /\ pc = "LoadGenesisBlock"
    /\ \/ /\ pc' = "ActivateBestChain"
          /\ UNCHANGED <<gArgs, ecc, dirs, live, scheduler, thrown>>
       \/ Throw
    /\ UNCHANGED <<fixture, kind, env, seed, flags, thread, interrupted, registered,
                   queue, blocks>>

ActivateBestChain ==
    /\ pc = "ActivateBestChain"
    /\ \/ /\ ProcessBlock
          /\ pc' = "ThreadScriptCheck"
          /\ UNCHANGED <<gArgs, ecc, dirs, live, scheduler, thrown>>
       \/ Throw /\ UNCHANGED queue
    /\ UNCHANGED <<fixture, kind, env, seed, flags, thread, interrupted, registered,
                   blocks>>

(***************************************************************************)
(* The steps of ~TestChain100Setup, ~TestingSetup and ~BasicTestingSetup,  *)
(* in the order they run.                                                  *)
(***************************************************************************)
TeardownResetsFirst ==
    << "~TestChain100Setup", "stop", "interrupt_all", "reset_scheduler", "join_all",
       "FlushBackgroundCallbacks", "UnregisterBackgroundSignalScheduler",
       "reset_net", "reset_mempool", "reset_chainman", "~BasicTestingSetup" >>

Teardown ==
    << "~TestChain100Setup", "stop", "interrupt_all", "join_all",
       "FlushBackgroundCallbacks", "UnregisterBackgroundSignalScheduler",
       "reset_net", "reset_mempool", "reset_scheduler", "reset_chainman",
       "~BasicTestingSetup" >>

After(step) == Teardown[1 + CHOOSE i \in DOMAIN Teardown : Teardown[i] = step]

(***************************************************************************)
(* Where the test thread goes when the fixture is constructed.             *)
(***************************************************************************)
Constructed == IF kind = "TestChain100Setup" THEN Teardown[1] ELSE Teardown[2]

TestingSetupThreads ==
    /\ pc = "ThreadScriptCheck"
    /\ thread' = create_thread(thread, {"scriptcheck0", "scriptcheck1"})
    /\ flags' = flags \cup {"g_parallel_script_checks"}
    /\ live' = live \cup {"banman", "connman", "peer_logic"}
    /\ pc' = IF kind = "TestChain100Setup" THEN "TestChain100Setup" ELSE Constructed
    /\ UNCHANGED <<fixture, kind, env, seed, gArgs, ecc, dirs, scheduler, interrupted,
                   registered, queue, blocks, thrown>>

(***************************************************************************)
(* One iteration of the loop of TestChain100Setup: CreateAndProcessBlock   *)
(* and the push of its coinbase transaction.                               *)
(***************************************************************************)
CreateAndProcessBlock ==
    /\ pc = "TestChain100Setup"
    /\ blocks < COINBASE_MATURITY
    /\ ProcessBlock
    /\ blocks' = blocks + 1
    /\ pc' = IF blocks' = COINBASE_MATURITY THEN Constructed ELSE pc
    /\ UNCHANGED <<fixture, kind, env, seed, flags, gArgs, ecc, dirs, live, scheduler,
                   thread, interrupted, registered, thrown>>

----------------------------------------------------------------------------
(* The destructors.                                                        *)

DestroyTestChain100Setup ==
    /\ pc = "~TestChain100Setup"
    /\ gArgs' = gArgs \cup {"-segwitheight"}
    /\ pc' = After(pc)
    /\ UNCHANGED <<fixture, kind, env, seed, flags, ecc, dirs, live, scheduler, thread,
                   interrupted, registered, queue, blocks, thrown>>

stop ==
    /\ pc = "stop"
    /\ scheduler' = [scheduler EXCEPT ![fixture] = IF @ = "alive" THEN "stopped" ELSE @]
    /\ pc' = After(pc)
    /\ UNCHANGED <<fixture, kind, env, seed, flags, gArgs, ecc, dirs, live, thread,
                   interrupted, registered, queue, blocks, thrown>>

interrupt_all ==
    /\ pc = "interrupt_all"
    /\ interrupted' = interrupted \cup {fixture}
    /\ pc' = After(pc)
    /\ UNCHANGED <<fixture, kind, env, seed, flags, gArgs, ecc, dirs, live, scheduler,
                   thread, registered, queue, blocks, thrown>>

(***************************************************************************)
(* join_all returns when every thread of the group has ended.              *)
(***************************************************************************)
join_all ==
    /\ pc = "join_all"
    /\ \A n \in ThreadNames : thread[fixture][n] # "running"
    /\ thread' = [thread EXCEPT ![fixture] =
                    [n \in ThreadNames |-> IF @[n] = "ended" THEN "joined" ELSE @[n]]]
    /\ pc' = After(pc)
    /\ UNCHANGED <<fixture, kind, env, seed, flags, gArgs, ecc, dirs, live, scheduler,
                   interrupted, registered, queue, blocks, thrown>>

KeepBackgroundCallbacks(pending) == pending

(***************************************************************************)
(* The callbacks still pending are run by the calling thread.              *)
(***************************************************************************)
FlushBackgroundCallbacks(pending) == 0

Flush ==
    /\ pc = "FlushBackgroundCallbacks"
    /\ queue' = FlushBackgroundCallbacks(queue)
    /\ pc' = After(pc)
    /\ UNCHANGED <<fixture, kind, env, seed, flags, gArgs, ecc, dirs, live, scheduler,
                   thread, interrupted, registered, blocks, thrown>>

UnregisterBackgroundSignalScheduler ==
    /\ pc = "UnregisterBackgroundSignalScheduler"
    /\ registered' = 0
    /\ pc' = After(pc)
    /\ UNCHANGED <<fixture, kind, env, seed, flags, gArgs, ecc, dirs, live, scheduler,
                   thread, interrupted, queue, blocks, thrown>>

ResetsWithoutBlockTree ==
    [reset_net      |-> {"connman", "banman", "args"},
     reset_mempool  |-> {"mempool"},
     reset_chainman |-> {"chainman"}]

(***************************************************************************)
(* The objects each group of reset statements releases.                    *)
(***************************************************************************)
Resets ==
    [reset_net      |-> {"connman", "banman", "args"},
     reset_mempool  |-> {"mempool"},
     reset_chainman |-> {"chainman", "pblocktree"}]

reset ==
    /\ pc \in DOMAIN Resets
    /\ live' = live \ Resets[pc]
    /\ pc' = After(pc)
    /\ UNCHANGED <<fixture, kind, env, seed, flags, gArgs, ecc, dirs, scheduler, thread,
                   interrupted, registered, queue, blocks, thrown>>

reset_scheduler ==
    /\ pc = "reset_scheduler"
    /\ scheduler' = [scheduler EXCEPT ![fixture] = "destroyed"]
    /\ pc' = After(pc)
    /\ UNCHANGED <<fixture, kind, env, seed, flags, gArgs, ecc, dirs, live, thread,
                   interrupted, registered, queue, blocks, thrown>>

DestroyFixture ==
    /\ pc = "~BasicTestingSetup"
    /\ DestroyBasicTestingSetup
    /\ UNCHANGED <<fixture, kind, env, seed, flags, scheduler, thread, interrupted,
                   registered, queue, blocks, thrown>>

----------------------------------------------------------------------------
(* The threads of threadGroup.                                             *)

Running(f, n) == thread[f][n] = "running"

End(f, n) ==
    /\ thread' = [thread EXCEPT ![f][n] = "ended"]
    /\ UNCHANGED <<pc, fixture, kind, env, seed, flags, gArgs, ecc, dirs, live,
                   scheduler, interrupted, registered, queue, blocks, thrown>>

(***************************************************************************)
(* serviceQueue: the scheduler thread runs a pending callback, or returns  *)
(* when the scheduler was stopped.                                         *)
(***************************************************************************)
serviceQueue(f) ==
    /\ Running(f, "scheduler")
    /\ \/ /\ registered = f
          /\ queue > 0
          /\ queue' = queue - 1
          /\ UNCHANGED <<pc, fixture, kind, env, seed, flags, gArgs, ecc, dirs, live,
                         scheduler, thread, interrupted, registered, blocks, thrown>>
       \/ /\ scheduler[f] = "stopped"
          /\ End(f, "scheduler")

ThreadScriptCheck(f) ==
    \E n \in {"scriptcheck0", "scriptcheck1"} :
        /\ Running(f, n)
        /\ f \in interrupted
        /\ End(f, n)

----------------------------------------------------------------------------

Init ==
    /\ pc = "idle"
    /\ fixture = 0
    /\ kind = "TestingSetup"
    /\ env \in Seeds \cup {Null}
    /\ seed = Null
    /\ flags = {}
    /\ gArgs = {}
    /\ ecc = 0
    /\ dirs = {}
    /\ live = {}
    /\ scheduler = [f \in Fixtures |-> "none"]
    /\ thread = [f \in Fixtures |-> [n \in ThreadNames |-> "none"]]
    /\ interrupted = {}
    /\ registered = 0
    /\ queue = 0
    /\ blocks = 0
    /\ thrown = {}

TestThread ==
    \/ BasicTestingSetup \/ TestingSetup \/ LoadGenesisBlock \/ ActivateBestChain
    \/ TestingSetupThreads \/ CreateAndProcessBlock
    \/ DestroyTestChain100Setup \/ stop \/ interrupt_all \/ join_all \/ Flush
    \/ UnregisterBackgroundSignalScheduler \/ reset \/ reset_scheduler
    \/ DestroyFixture

Next ==
    \/ TestThread
    \/ \E f \in Fixtures : serviceQueue(f) \/ ThreadScriptCheck(f)

(***************************************************************************)
(* Every thread that can take a step eventually takes one.                 *)
(***************************************************************************)
Spec ==
    /\ Init /\ [][Next]_vars
    /\ WF_vars(TestThread)
    /\ \A f \in Fixtures : WF_vars(serviceQueue(f)) /\ WF_vars(ThreadScriptCheck(f))

----------------------------------------------------------------------------

(***************************************************************************)
(* The variables keep their shape, the queue stays within its limit and    *)
(* the chain is no longer than TestChain100Setup makes it.                 *)
(***************************************************************************)
TypeOK ==
    /\ pc \in {"idle", "TestingSetup", "LoadGenesisBlock", "ActivateBestChain",
               "ThreadScriptCheck", "TestChain100Setup"}
              \cup {Teardown[i] : i \in DOMAIN Teardown}
    /\ fixture \in 0..MaxFixtures
    /\ kind \in {"TestingSetup", "TestChain100Setup"}
    /\ env \in Seeds \cup {Null}
    /\ seed \in Seeds \cup {Null}
    /\ flags \subseteq {"fCheckBlockIndex", "noui_connected", "tableRPC",
                        "g_parallel_script_checks"}
    /\ gArgs \subseteq {"-datadir", "-segwitheight"}
    /\ ecc \in 0..1
    /\ dirs \subseteq Fixtures
    /\ live \subseteq {"args", "chain", "pblocktree", "mempool", "chainman", "banman",
                       "connman", "peer_logic"}
    /\ scheduler \in [Fixtures -> {"none", "alive", "stopped", "destroyed"}]
    /\ thread \in [Fixtures -> [ThreadNames -> {"none", "running", "ended", "joined"}]]
    /\ interrupted \subseteq Fixtures
    /\ registered \in 0..MaxFixtures
    /\ queue \in 0..QueueLimit
    /\ blocks \in 0..COINBASE_MATURITY
    /\ thrown \subseteq Fixtures

(***************************************************************************)
(* ~TestingSetup releases nothing a thread of the fixture may still use:   *)
(* while a thread of a fixture whose constructor completed is running, the *)
(* scheduler, the mempool and the chainstate of the fixture exist.  The    *)
(* scheduler thread notices stop() at a time of its own, so this rests on  *)
(* join_all coming before the resets.                                      *)
(***************************************************************************)
ThreadsJoinedBeforeRelease ==
    \A f \in Fixtures \ thrown :
        (\E n \in ThreadNames : thread[f][n] = "running") =>
            /\ f = fixture
            /\ scheduler[f] \in {"alive", "stopped"}
            /\ {"mempool", "chainman"} \subseteq live

(***************************************************************************)
(* No callback is pending once the mempool or the chainstate it would run  *)
(* on is gone: stop() makes serviceQueue return without emptying the       *)
(* queue, and FlushBackgroundCallbacks has to run what is left before      *)
(* UnloadBlockIndex and the resets.                                        *)
(***************************************************************************)
NoCallbackAfterRelease ==
    queue > 0 => {"mempool", "chainman"} \subseteq live

(***************************************************************************)
(* A fixture whose constructor completed leaves nothing behind: after      *)
(* ~BasicTestingSetup there is no directory, no argument, no ECC context,  *)
(* no object of the node, no registered scheduler and no unjoined thread.  *)
(***************************************************************************)
CleanBetweenFixtures ==
    (pc = "idle" /\ thrown = {}) =>
        /\ dirs = {} /\ gArgs = {} /\ ecc = 0 /\ live = {}
        /\ registered = 0 /\ queue = 0
        /\ \A f \in Fixtures, n \in ThreadNames : thread[f][n] \in {"none", "joined"}

(***************************************************************************)
(* Every fixture that is started is constructed, or throws, and torn down: *)
(* block processing never waits for ever on a full queue, because the      *)
(* scheduler thread is running by then, and join_all never waits for ever. *)
(***************************************************************************)
FixtureCompletes == []<>(pc = "idle")

(***************************************************************************)
(* No thread of a fixture is running once the fixture is gone, whichever   *)
(* way its constructor ended: the order of ~TestingSetup (stop, interrupt, *)
(* join, then release) is what the fixture promises of its threads.        *)
(***************************************************************************)
NoThreadOutlivesFixture ==
    pc = "idle" => \A f \in Fixtures, n \in ThreadNames : thread[f][n] # "running"

=============================================================================
