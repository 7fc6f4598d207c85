---------------------------- MODULE RunLifecycle ----------------------------
(***************************************************************************)
(* High-level runs of one process, from src/src/command.rs: IperfCommand's *)
(* run and spawn, run_command, setup_run, RunningIperf; with the           *)
(* SigpipeGuard and the allocation of IperfTest (src/src/iperf.rs) and the *)
(* callback registry (src/src/metrics.rs).                                 *)
(*                                                                         *)
(* What runs share is process-global: the run lock, SIGPIPE's disposition, *)
(* the heap libiperf allocates tests from, and the registry keyed by a     *)
(* test's address.  A run's metrics worker (MetricsStream or MetricsSinks) *)
(* is one thread that ends after its sender left the registry.             *)
(*                                                                         *)
(* Left out: sigaction failing on restore, and the metrics worker failing  *)
(* (a deadline out of the clock's range).  A panic can strike while a test *)
(* runs; it unwinds the run and poisons the lock.                          *)
(***************************************************************************)
EXTENDS Naturals, FiniteSets

CONSTANTS
  Runs,    \* calls of run or spawn
  Addrs,   \* addresses IperfTest::new may return; reused once freed
  None     \* no run, no address

ASSUME NoneAssumption == None \notin Runs /\ None \notin Addrs

VARIABLES
  kind,      \* how r was called: "run" or "spawn"
  want,      \* r's metrics: "none", "stream" or "push" (direct Pushgateway)
  lock,      \* RUN_LOCK's holder
  poisoned,  \* a holder panicked
  sigpipe,   \* SIGPIPE's disposition: "default" (the application's), "ignored"
  heap,      \* which run's test is at an address
  registry,  \* CALLBACKS: whose target is registered for an address
  pc,        \* where r's thread is in run_command
  addr,      \* the address of r's test
  outer,     \* the disposition run_command's SigpipeGuard saved
  inner,     \* the disposition IperfTest::run's SigpipeGuard saved
  worker,    \* r's metrics worker: "none", "alive", "ended"
  outcome,   \* "None", "Ok", "Err" or "Panic"
  ready,     \* spawn's ready channel: "empty", "ok", "err", "closed"
  caller,    \* spawn's caller: "idle", "blocked", "failed", "handle",
             \* "observed", "detached"
  started    \* r's test was run (history)

config == <<kind, want>>
process == <<lock, poisoned, sigpipe, heap, registry>>
local == <<addr, outer, inner, worker, outcome>>
api == <<ready, caller>>
vars == <<config, process, pc, local, api, started>>

Init ==
  /\ kind \in [Runs -> {"run", "spawn"}]
  /\ want \in [Runs -> {"none", "stream", "push"}]
  /\ lock = None /\ poisoned = FALSE /\ sigpipe = "default"
  /\ heap = [a \in Addrs |-> None]
  /\ registry = [a \in Addrs |-> None]
  /\ pc = [r \in Runs |-> "idle"]
  /\ addr = [r \in Runs |-> None]
  /\ outer = [r \in Runs |-> "default"]
  /\ inner = [r \in Runs |-> "default"]
  /\ worker = [r \in Runs |-> "none"]
  /\ outcome = [r \in Runs |-> "None"]
  /\ ready = [r \in Runs |-> "empty"]
  /\ caller = [r \in Runs |-> "idle"]
  /\ started = [r \in Runs |-> FALSE]

Goto(r, from, to) == pc[r] = from /\ pc' = [pc EXCEPT ![r] = to]

-----------------------------------------------------------------------------
(* IperfCommand::run, or spawn, which starts a thread and waits for its    *)
(* ready message.                                                          *)
Call(r) ==
  /\ Goto(r, "idle", "locking")
  /\ caller' = IF kind[r] = "spawn" THEN [caller EXCEPT ![r] = "blocked"] ELSE caller
  /\ UNCHANGED <<config, process, local, ready, started>>

(* Mutant: runs are not serialized. *)
MutNoLock(r) ==
  /\ Goto(r, "locking", "install")
  /\ lock' = r
  /\ UNCHANGED <<config, poisoned, sigpipe, heap, registry, local, api, started>>

Lock(r) ==
  /\ lock = None /\ ~poisoned
  /\ Goto(r, "locking", "install")
  /\ lock' = r
  /\ UNCHANGED <<config, poisoned, sigpipe, heap, registry, local, api, started>>

(* lock() reports the poison; the ready sender is dropped unused. *)
LockPoisoned(r) ==
  /\ lock = None /\ poisoned
  /\ Goto(r, "locking", "done")
  /\ outcome' = [outcome EXCEPT ![r] = "Err"]
  /\ ready' = [ready EXCEPT ![r] = "closed"]
  /\ UNCHANGED <<config, process, addr, outer, inner, worker, caller, started>>

(* run_command's SigpipeGuard::install. *)
IgnoreSigpipe(r) ==
  /\ Goto(r, "install", "setup")
  /\ outer' = [outer EXCEPT ![r] = sigpipe]
  /\ sigpipe' = "ignored"
  /\ UNCHANGED <<config, lock, poisoned, heap, registry, addr, inner, worker,
                 outcome, api, started>>

(* notify_ready(Err) and the error itself. *)
Fail(r) ==
  /\ outcome' = [outcome EXCEPT ![r] = "Err"]
  /\ ready' = IF kind[r] = "spawn" THEN [ready EXCEPT ![r] = "err"] ELSE ready

(* iperf3rs_ignore_sigpipe fails. *)
IgnoreSigpipeFails(r) ==
  /\ Goto(r, "install", "unlock")
  /\ Fail(r)
  /\ UNCHANGED <<config, process, addr, outer, inner, worker, caller, started>>

(* Mutant: the guard is forgotten when validation fails. *)
MutFailKeepsIgnored(r) ==
  /\ Goto(r, "setup", "unlock")
  /\ Fail(r)
  /\ UNCHANGED <<config, process, addr, outer, inner, worker, caller, started>>

(* setup_run fails before it has a test: the metrics mode, the Pushgateway *)
(* request, IperfTest::new.                                                *)
ValidationFails(r) ==
  /\ Goto(r, "setup", "restore")
  /\ Fail(r)
  /\ UNCHANGED <<config, process, addr, outer, inner, worker, caller, started>>

(* IperfTest::new. *)
NewTest(r) ==
  /\ Goto(r, "setup", "parse")
  /\ \E a \in Addrs :
       /\ heap[a] = None
       /\ heap' = [heap EXCEPT ![a] = r]
       /\ addr' = [addr EXCEPT ![r] = a]
  /\ UNCHANGED <<config, lock, poisoned, sigpipe, registry, outer, inner, worker,
                 outcome, api, started>>

(* IperfTest::drop. *)
FreeTest(r) ==
  /\ heap' = IF addr[r] = None THEN heap ELSE [heap EXCEPT ![addr[r]] = None]
  /\ addr' = [addr EXCEPT ![r] = None]

(* setup_run fails with a test: the arguments, the role and lifecycle      *)
(* check, the Pushgateway client.  Its local test is dropped.              *)
SetupFails(r) ==
  /\ Goto(r, "parse", "restore")
  /\ Fail(r)
  /\ FreeTest(r)
  /\ UNCHANGED <<config, lock, poisoned, sigpipe, registry, outer, inner, worker,
                 caller, started>>

(* CallbackMetricsReporter::attach routes the test's address to the run. *)
Register(r) == registry' = [registry EXCEPT ![addr[r]] = r]

(* setup_run succeeds: with metrics, the target is registered and the      *)
(* worker starts.                                                          *)
Attach(r) ==
  /\ Goto(r, "parse", "notify")
  /\ IF want[r] = "none"
     THEN UNCHANGED <<registry, worker>>
     ELSE Register(r) /\ worker' = [worker EXCEPT ![r] = "alive"]
  /\ UNCHANGED <<config, lock, poisoned, sigpipe, heap, addr, outer, inner,
                 outcome, api, started>>

(* Mutant: spawn is told Ok before the run is set up. *)
MutReadyEarly(r) ==
  /\ pc[r] = "setup" /\ ready[r] = "empty" /\ kind[r] = "spawn"
  /\ ready' = [ready EXCEPT ![r] = "ok"]
  /\ UNCHANGED <<config, process, pc, local, caller, started>>

(* notify_ready(Ok), with the stream. *)
NotifyReady(r) ==
  /\ Goto(r, "notify", "run")
  /\ ready' = IF kind[r] = "spawn" THEN [ready EXCEPT ![r] = "ok"] ELSE ready
  /\ UNCHANGED <<config, process, local, caller, started>>

(* IperfTest::run begins: its own SigpipeGuard. *)
BeginTest(r) ==
  /\ Goto(r, "run", "testing")
  /\ inner' = [inner EXCEPT ![r] = sigpipe]
  /\ sigpipe' = "ignored"
  /\ started' = [started EXCEPT ![r] = TRUE]
  /\ UNCHANGED <<config, lock, poisoned, heap, registry, addr, outer, worker,
                 outcome, api>>

(* It returns, with what it saved restored. *)
EndTest(r) ==
  /\ Goto(r, "testing", "stop")
  /\ sigpipe' = inner[r]
  /\ \E result \in {"Ok", "Err"} : outcome' = [outcome EXCEPT ![r] = result]
  /\ UNCHANGED <<config, lock, poisoned, heap, registry, addr, outer, inner,
                 worker, api, started>>

(* Mutant: the registry entry is left behind. *)
MutKeepEntry(r) == UNCHANGED registry

(* CallbackMetricsReporter::drop removes whatever its address maps to. *)
RemoveEntry(r) ==
  registry' = IF want[r] = "none" \/ addr[r] = None THEN registry
              ELSE [registry EXCEPT ![addr[r]] = None]

(* Mutant: the metrics worker is joined while the callback is attached. *)
MutJoinBeforeDrop(r) ==
  /\ worker[r] # "alive"
  /\ Goto(r, "stop", "join")
  /\ RemoveEntry(r)
  /\ UNCHANGED <<config, lock, poisoned, sigpipe, heap, local, api, started>>

DropCallback(r) ==
  /\ Goto(r, "stop", "join")
  /\ RemoveEntry(r)
  /\ UNCHANGED <<config, lock, poisoned, sigpipe, heap, local, api, started>>

(* The metrics worker sees its channel closed, drains it and returns. *)
WorkerEnds(r) ==
  /\ worker[r] = "alive"
  /\ \A a \in Addrs : registry[a] # r
  /\ worker' = [worker EXCEPT ![r] = "ended"]
  /\ UNCHANGED <<config, process, pc, addr, outer, inner, outcome, api, started>>

(* Mutant: the metrics worker is detached. *)
MutNoJoin(r) ==
  /\ Goto(r, "join", "restore")
  /\ UNCHANGED <<config, process, local, api, started>>

(* Join the stream's worker, or finish the push reporter; a blocking run   *)
(* then collects its stream, which the worker has closed.                  *)
JoinWorker(r) ==
  /\ worker[r] # "alive"
  /\ Goto(r, "join", "restore")
  /\ UNCHANGED <<config, process, local, api, started>>

(* SigpipeGuard::restore, or its Drop on an early return. *)
RestoreSigpipe(r) ==
  /\ Goto(r, "restore", "free")
  /\ sigpipe' = outer[r]
  /\ UNCHANGED <<config, lock, poisoned, heap, registry, local, api, started>>

(* Mutant: the test outlives the run. *)
MutLeakTest(r) ==
  /\ Goto(r, "free", "unlock")
  /\ UNCHANGED <<config, process, local, api, started>>

(* What is left of RunSetup is dropped. *)
DropSetup(r) ==
  /\ Goto(r, "free", "unlock")
  /\ FreeTest(r)
  /\ UNCHANGED <<config, lock, poisoned, sigpipe, registry, outer, inner, worker,
                 outcome, api, started>>

(* The lock's guard is dropped last; dropped by a panic it poisons.        *)
Unlock(r) ==
  /\ Goto(r, "unlock", "done")
  /\ lock' = None
  /\ poisoned' = (poisoned \/ outcome[r] = "Panic")
  /\ UNCHANGED <<config, sigpipe, heap, registry, local, api, started>>

-----------------------------------------------------------------------------
(* A panic while the test runs.  IperfTest::run's guard is dropped first;  *)
(* RunSetup's fields go in their order, the test before the callback.      *)
Panic(r) ==
  /\ Goto(r, "testing", "unwind")
  /\ sigpipe' = inner[r]
  /\ outcome' = [outcome EXCEPT ![r] = "Panic"]
  /\ heap' = [heap EXCEPT ![addr[r]] = None]
  /\ UNCHANGED <<config, lock, poisoned, registry, addr, outer, inner, worker,
                 api, started>>

(* The callback's Drop uses the freed test's address; a stream's worker is *)
(* detached, a push reporter's is joined.                                  *)
UnwindCallback(r) ==
  /\ Goto(r, "unwind", IF want[r] = "push" THEN "unwind_join" ELSE "unwind_end")
  /\ RemoveEntry(r)
  /\ UNCHANGED <<config, lock, poisoned, sigpipe, heap, local, api, started>>

UnwindJoin(r) ==
  /\ worker[r] # "alive"
  /\ Goto(r, "unwind_join", "unwind_end")
  /\ UNCHANGED <<config, process, local, api, started>>

(* run_command's SigpipeGuard is dropped; the lock's guard is next. *)
UnwindSigpipe(r) ==
  /\ Goto(r, "unwind_end", "unlock")
  /\ sigpipe' = outer[r]
  /\ addr' = [addr EXCEPT ![r] = None]
  /\ UNCHANGED <<config, lock, poisoned, heap, registry, outer, inner, worker,
                 outcome, api, started>>

-----------------------------------------------------------------------------
(* spawn's caller: the ready message, or its absence.  On an error it      *)
(* joins the thread.                                                       *)
SpawnReturns(r) ==
  /\ caller[r] = "blocked"
  /\ \/ ready[r] = "ok" /\ caller' = [caller EXCEPT ![r] = "handle"]
     \/ /\ ready[r] \in {"err", "closed"} /\ pc[r] = "done"
        /\ caller' = [caller EXCEPT ![r] = "failed"]
  /\ UNCHANGED <<config, process, pc, local, ready, started>>

(* RunningIperf::wait, or try_wait or wait_timeout of a finished run: the  *)
(* handle is taken.  Of an unfinished run the latter two change nothing.   *)
Observe(r) ==
  /\ caller[r] = "handle" /\ pc[r] = "done"
  /\ caller' = [caller EXCEPT ![r] = "observed"]
  /\ UNCHANGED <<config, process, pc, local, ready, started>>

(* RunningIperf is dropped: the run goes on. *)
Detach(r) ==
  /\ caller[r] = "handle"
  /\ caller' = [caller EXCEPT ![r] = "detached"]
  /\ UNCHANGED <<config, process, pc, local, ready, started>>

(* The steps of r's thread and of its metrics worker. *)
Step(r) ==
  \/ Lock(r) \/ LockPoisoned(r)
  \/ IgnoreSigpipe(r) \/ IgnoreSigpipeFails(r)
  \/ ValidationFails(r) \/ NewTest(r) \/ SetupFails(r) \/ Attach(r)
  \/ NotifyReady(r) \/ BeginTest(r) \/ EndTest(r) \/ DropCallback(r)
  \/ JoinWorker(r) \/ RestoreSigpipe(r) \/ DropSetup(r) \/ Unlock(r)
  \/ Panic(r) \/ UnwindCallback(r) \/ UnwindJoin(r) \/ UnwindSigpipe(r)

Next ==
  \E r \in Runs : \/ Call(r) \/ Step(r) \/ WorkerEnds(r)
                  \/ SpawnReturns(r) \/ Observe(r) \/ Detach(r)

(* Threads are scheduled and every test libiperf runs comes to an end; no  *)
(* one has to call, observe or detach.                                     *)
Fairness ==
  \A r \in Runs : WF_vars(Step(r)) /\ WF_vars(WorkerEnds(r)) /\ WF_vars(SpawnReturns(r))

Spec == Init /\ [][Next]_vars /\ Fairness

-----------------------------------------------------------------------------
(* Where r's thread holds the lock. *)
Holding == {"install", "setup", "parse", "notify", "run", "testing", "stop", "join",
            "restore", "free", "unlock", "unwind", "unwind_join", "unwind_end"}

(* Types; a run that is over holds no test. *)
TypeOK ==
  /\ kind \in [Runs -> {"run", "spawn"}]
  /\ want \in [Runs -> {"none", "stream", "push"}]
  /\ lock \in Runs \cup {None} /\ poisoned \in BOOLEAN
  /\ sigpipe \in {"default", "ignored"}
  /\ heap \in [Addrs -> Runs \cup {None}]
  /\ registry \in [Addrs -> Runs \cup {None}]
  /\ pc \in [Runs -> Holding \cup {"idle", "locking", "done"}]
  /\ addr \in [Runs -> Addrs \cup {None}]
  /\ outer \in [Runs -> {"default", "ignored"}]
  /\ inner \in [Runs -> {"default", "ignored"}]
  /\ worker \in [Runs -> {"none", "alive", "ended"}]
  /\ outcome \in [Runs -> {"None", "Ok", "Err", "Panic"}]
  /\ ready \in [Runs -> {"empty", "ok", "err", "closed"}]
  /\ caller \in [Runs -> {"idle", "blocked", "failed", "handle", "observed", "detached"}]
  /\ started \in [Runs -> BOOLEAN]
  /\ \A r \in Runs : pc[r] = "done" => addr[r] = None

(* "High-level IperfCommand runs are serialized inside the process"        *)
(* (lib.rs): no two native tests exist at once, set-up and tear-down       *)
(* included, and whoever owns one holds the run lock.                      *)
OneNativeTest ==
  \A a \in Addrs : heap[a] # None =>
    /\ lock = heap[a]
    /\ \A b \in Addrs : heap[b] # None => b = a

(* "While a run is active, SIGPIPE is ignored process-wide and the prior   *)
(* disposition is restored afterward" (lib.rs): the nested guards put the  *)
(* application's disposition back before the next run can start, on every  *)
(* path, and IperfTest::run always finds it ignored.                       *)
SigpipeScoped ==
  /\ lock = None => sigpipe = "default"
  /\ \A r \in Runs : pc[r] = "testing" => sigpipe = "ignored"

(* The registry never sends a test's samples to another run: a running     *)
(* test with metrics finds its own target, one without finds none, and no  *)
(* entry outlives the run that made it, though addresses are reused and a  *)
(* panic frees the test before the entry (metrics.rs:528-533).             *)
CallbackReachesItsRun ==
  /\ \A r \in Runs : pc[r] = "testing" =>
       registry[addr[r]] = IF want[r] = "none" THEN None ELSE r
  /\ \A a \in Addrs : registry[a] # None => lock = registry[a] /\ addr[lock] = a

(* spawn tells the truth: it returns a handle only for a run that was set  *)
(* up, and when it fails libiperf was not and will not be run.             *)
SpawnHonest ==
  \A r \in Runs :
    /\ caller[r] = "failed" => ~started[r] /\ pc[r] = "done"
    /\ caller[r] \in {"handle", "observed", "detached"} =>
         started[r] \/ pc[r] = "run"

(* When a run's result can be observed its metrics worker has returned, so *)
(* the stream holds every event; only a panic leaves it behind.            *)
MetricsBeforeResult ==
  \A r \in Runs : pc[r] = "done" /\ outcome[r] # "Panic" => worker[r] # "alive"

(* Every run ends and no spawn blocks for ever, whichever runs are queued, *)
(* fail or panic before it, as long as each test libiperf runs ends.       *)
CallsReturn ==
  \A r \in Runs : /\ pc[r] = "locking" ~> pc[r] = "done"
                  /\ caller[r] = "blocked" ~> caller[r] # "blocked"
=============================================================================
