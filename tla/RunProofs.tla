------------------------------ MODULE RunProofs ------------------------------
(***************************************************************************)
(* Proofs about runs: RunLifecycle for any number of runs and addresses,   *)
(* NativeTest for any number of tests, sessions and parses, IperfCommand   *)
(* for any words, durations and number of calls and runs.                  *)
(***************************************************************************)
EXTENDS RunLifecycle, NativeTest, IperfCommand, SequenceLemmas

(* RunLifecycle. *)

(* The thread that holds the run lock is the one between Lock and Unlock. *)
LockInv == \A r \in Runs : pc[r] \in Holding <=> lock = r

(* Where each guard of SIGPIPE is, and what it saved: outside the lock and *)
(* outside the outer guard the disposition is the application's.           *)
SigpipeInv ==
  /\ lock = None => sigpipe = "default"
  /\ \A r \in Runs :
       /\ pc[r] \in {"install", "free", "unlock"} => sigpipe = "default"
       /\ pc[r] \in Holding \ {"install", "free", "unlock"} =>
            sigpipe = "ignored" /\ outer[r] = "default"
       /\ pc[r] = "testing" => inner[r] = "ignored"

(* A test on the heap belongs to the lock's holder, which knows where it   *)
(* is; a thread that has no test yet, or no longer, has no address.        *)
HeapInv ==
  /\ \A a \in Addrs : heap[a] # None => lock = heap[a] /\ addr[heap[a]] = a
  /\ \A r \in Runs : pc[r] \in {"idle", "locking", "install", "setup", "unlock", "done"}
       => addr[r] = None
  /\ \A r \in Runs : pc[r] \in {"parse", "notify", "run", "testing", "stop", "join"}
       => addr[r] \in Addrs /\ heap[addr[r]] = r
  /\ \A r \in Runs : pc[r] \in {"unwind", "unwind_join", "unwind_end"}
       => addr[r] \in Addrs /\ \A a \in Addrs : heap[a] = None

(* Every registry entry is the holder's, under its test's address; it is   *)
(* there exactly while the target is attached.                             *)
RegistryInv ==
  /\ \A a \in Addrs : registry[a] # None =>
       lock = registry[a] /\ addr[registry[a]] = a
  /\ \A r \in Runs : pc[r] \in {"notify", "run", "testing", "stop", "unwind"} =>
       registry[addr[r]] = IF want[r] = "none" THEN None ELSE r
  /\ \A r \in Runs : pc[r] \in {"parse", "join", "restore", "free", "unlock",
                                "unwind_join", "unwind_end"} =>
       \A a \in Addrs : registry[a] = None

IInv == TypeOK /\ LockInv /\ SigpipeInv /\ HeapInv /\ RegistryInv

-----------------------------------------------------------------------------
LEMMA InitInv == Init => IInv
  <1> SUFFICES ASSUME Init PROVE IInv
    OBVIOUS
  <1> USE NoneAssumption DEF Init, Holding
  <1>1. TypeOK
    BY DEF TypeOK
  <1>2. LockInv /\ SigpipeInv
    BY DEF LockInv, SigpipeInv
  <1>3. HeapInv
    BY DEF HeapInv
  <1>4. RegistryInv
    BY DEF RegistryInv
  <1> QED BY <1>1, <1>2, <1>3, <1>4 DEF IInv

(* Types, one step per action. *)
LEMMA TypeStep == IInv /\ [Next]_vars => TypeOK'
  <1> SUFFICES ASSUME IInv, [Next]_vars PROVE TypeOK'
    OBVIOUS
  <1> USE NoneAssumption DEF IInv, TypeOK, Holding, Goto, config, process, local, api
  <1>1. ASSUME NEW r \in Runs, Call(r) PROVE TypeOK'
    BY <1>1 DEF Call
  <1>2. ASSUME NEW r \in Runs, Lock(r) PROVE TypeOK'
    BY <1>2 DEF Lock
  <1>3. ASSUME NEW r \in Runs, LockPoisoned(r) PROVE TypeOK'
    BY <1>3 DEF LockPoisoned, HeapInv
  <1>4. ASSUME NEW r \in Runs, IgnoreSigpipe(r) PROVE TypeOK'
    BY <1>4 DEF IgnoreSigpipe
  <1>5. ASSUME NEW r \in Runs, IgnoreSigpipeFails(r) PROVE TypeOK'
    BY <1>5 DEF IgnoreSigpipeFails, Fail
  <1>6. ASSUME NEW r \in Runs, ValidationFails(r) PROVE TypeOK'
    BY <1>6 DEF ValidationFails, Fail
  <1>7. ASSUME NEW r \in Runs, NewTest(r) PROVE TypeOK'
    BY <1>7 DEF NewTest
  <1>8. ASSUME NEW r \in Runs, SetupFails(r) PROVE TypeOK'
    BY <1>8 DEF SetupFails, Fail, FreeTest
  <1>9. ASSUME NEW r \in Runs, Attach(r) PROVE TypeOK'
    BY <1>9 DEF Attach, Register
  <1>10. ASSUME NEW r \in Runs, NotifyReady(r) PROVE TypeOK'
    BY <1>10 DEF NotifyReady
  <1>11. ASSUME NEW r \in Runs, BeginTest(r) PROVE TypeOK'
    BY <1>11 DEF BeginTest
  <1>12. ASSUME NEW r \in Runs, EndTest(r) PROVE TypeOK'
    BY <1>12 DEF EndTest
  <1>13. ASSUME NEW r \in Runs, DropCallback(r) PROVE TypeOK'
    BY <1>13 DEF DropCallback, RemoveEntry
  <1>14. ASSUME NEW r \in Runs, JoinWorker(r) PROVE TypeOK'
    BY <1>14 DEF JoinWorker
  <1>15. ASSUME NEW r \in Runs, RestoreSigpipe(r) PROVE TypeOK'
    BY <1>15 DEF RestoreSigpipe
  <1>16. ASSUME NEW r \in Runs, DropSetup(r) PROVE TypeOK'
    BY <1>16 DEF DropSetup, FreeTest
  <1>17. ASSUME NEW r \in Runs, Unlock(r) PROVE TypeOK'
    BY <1>17 DEF Unlock, HeapInv
  <1>18. ASSUME NEW r \in Runs, Panic(r) PROVE TypeOK'
    BY <1>18 DEF Panic
  <1>19. ASSUME NEW r \in Runs, UnwindCallback(r) PROVE TypeOK'
    BY <1>19 DEF UnwindCallback, RemoveEntry
  <1>20. ASSUME NEW r \in Runs, UnwindJoin(r) PROVE TypeOK'
    BY <1>20 DEF UnwindJoin
  <1>21. ASSUME NEW r \in Runs, UnwindSigpipe(r) PROVE TypeOK'
    BY <1>21 DEF UnwindSigpipe
  <1>22. ASSUME NEW r \in Runs, WorkerEnds(r) PROVE TypeOK'
    BY <1>22 DEF WorkerEnds
  <1>23. ASSUME NEW r \in Runs, SpawnReturns(r) PROVE TypeOK'
    BY <1>23 DEF SpawnReturns
  <1>24. ASSUME NEW r \in Runs, Observe(r) PROVE TypeOK'
    BY <1>24 DEF Observe
  <1>25. ASSUME NEW r \in Runs, Detach(r) PROVE TypeOK'
    BY <1>25 DEF Detach
  <1>26. CASE UNCHANGED vars
    BY <1>26 DEF vars
  <1> QED
    BY <1>1, <1>2, <1>3, <1>4, <1>5, <1>6, <1>7, <1>8, <1>9, <1>10, <1>11, <1>12,
       <1>13, <1>14, <1>15, <1>16, <1>17, <1>18, <1>19, <1>20, <1>21, <1>22, <1>23,
       <1>24, <1>25, <1>26 DEF Next, Step

(* The lock, SIGPIPE's disposition and the heap, one step per action. *)
LEMMA StepInv == IInv /\ [Next]_vars => (LockInv /\ SigpipeInv /\ HeapInv)'
  <1> SUFFICES ASSUME IInv, [Next]_vars PROVE (LockInv /\ SigpipeInv /\ HeapInv)'
    OBVIOUS
  <1> USE NoneAssumption DEF IInv, TypeOK, Holding, Goto, config, process, local, api, LockInv, SigpipeInv, HeapInv
  <1>1. ASSUME NEW r \in Runs, Call(r) PROVE (LockInv /\ SigpipeInv /\ HeapInv)'
    BY <1>1 DEF Call
  <1>2. ASSUME NEW r \in Runs, Lock(r) PROVE (LockInv /\ SigpipeInv /\ HeapInv)'
    BY <1>2 DEF Lock
  <1>3. ASSUME NEW r \in Runs, LockPoisoned(r) PROVE (LockInv /\ SigpipeInv /\ HeapInv)'
    BY <1>3 DEF LockPoisoned
  <1>4. ASSUME NEW r \in Runs, IgnoreSigpipe(r) PROVE (LockInv /\ SigpipeInv /\ HeapInv)'
    BY <1>4 DEF IgnoreSigpipe
  <1>5. ASSUME NEW r \in Runs, IgnoreSigpipeFails(r) PROVE (LockInv /\ SigpipeInv /\ HeapInv)'
    BY <1>5 DEF IgnoreSigpipeFails, Fail
  <1>6. ASSUME NEW r \in Runs, ValidationFails(r) PROVE (LockInv /\ SigpipeInv /\ HeapInv)'
    BY <1>6 DEF ValidationFails, Fail
  <1>7. ASSUME NEW r \in Runs, NewTest(r) PROVE (LockInv /\ SigpipeInv /\ HeapInv)'
    BY <1>7 DEF NewTest
  <1>8. ASSUME NEW r \in Runs, SetupFails(r) PROVE (LockInv /\ SigpipeInv /\ HeapInv)'
    BY <1>8 DEF SetupFails, Fail, FreeTest
  <1>9. ASSUME NEW r \in Runs, Attach(r) PROVE (LockInv /\ SigpipeInv /\ HeapInv)'
    BY <1>9 DEF Attach, Register
  <1>10. ASSUME NEW r \in Runs, NotifyReady(r) PROVE (LockInv /\ SigpipeInv /\ HeapInv)'
    BY <1>10 DEF NotifyReady
  <1>11. ASSUME NEW r \in Runs, BeginTest(r) PROVE (LockInv /\ SigpipeInv /\ HeapInv)'
    BY <1>11 DEF BeginTest
  <1>12. ASSUME NEW r \in Runs, EndTest(r) PROVE (LockInv /\ SigpipeInv /\ HeapInv)'
    BY <1>12 DEF EndTest
  <1>13. ASSUME NEW r \in Runs, DropCallback(r) PROVE (LockInv /\ SigpipeInv /\ HeapInv)'
    BY <1>13 DEF DropCallback, RemoveEntry
  <1>14. ASSUME NEW r \in Runs, JoinWorker(r) PROVE (LockInv /\ SigpipeInv /\ HeapInv)'
    BY <1>14 DEF JoinWorker
  <1>15. ASSUME NEW r \in Runs, RestoreSigpipe(r) PROVE (LockInv /\ SigpipeInv /\ HeapInv)'
    BY <1>15 DEF RestoreSigpipe
  <1>16. ASSUME NEW r \in Runs, DropSetup(r) PROVE (LockInv /\ SigpipeInv /\ HeapInv)'
    BY <1>16 DEF DropSetup, FreeTest
  <1>17. ASSUME NEW r \in Runs, Unlock(r) PROVE (LockInv /\ SigpipeInv /\ HeapInv)'
    BY <1>17 DEF Unlock
  <1>18. ASSUME NEW r \in Runs, Panic(r) PROVE (LockInv /\ SigpipeInv /\ HeapInv)'
    BY <1>18 DEF Panic
  <1>19. ASSUME NEW r \in Runs, UnwindCallback(r) PROVE (LockInv /\ SigpipeInv /\ HeapInv)'
    BY <1>19 DEF UnwindCallback, RemoveEntry
  <1>20. ASSUME NEW r \in Runs, UnwindJoin(r) PROVE (LockInv /\ SigpipeInv /\ HeapInv)'
    BY <1>20 DEF UnwindJoin
  <1>21. ASSUME NEW r \in Runs, UnwindSigpipe(r) PROVE (LockInv /\ SigpipeInv /\ HeapInv)'
    BY <1>21 DEF UnwindSigpipe
  <1>22. ASSUME NEW r \in Runs, WorkerEnds(r) PROVE (LockInv /\ SigpipeInv /\ HeapInv)'
    BY <1>22 DEF WorkerEnds
  <1>23. ASSUME NEW r \in Runs, SpawnReturns(r) PROVE (LockInv /\ SigpipeInv /\ HeapInv)'
    BY <1>23 DEF SpawnReturns
  <1>24. ASSUME NEW r \in Runs, Observe(r) PROVE (LockInv /\ SigpipeInv /\ HeapInv)'
    BY <1>24 DEF Observe
  <1>25. ASSUME NEW r \in Runs, Detach(r) PROVE (LockInv /\ SigpipeInv /\ HeapInv)'
    BY <1>25 DEF Detach
  <1>26. CASE UNCHANGED vars
    BY <1>26 DEF vars
  <1> QED
    BY <1>1, <1>2, <1>3, <1>4, <1>5, <1>6, <1>7, <1>8, <1>9, <1>10, <1>11, <1>12,
       <1>13, <1>14, <1>15, <1>16, <1>17, <1>18, <1>19, <1>20, <1>21, <1>22, <1>23,
       <1>24, <1>25, <1>26 DEF Next, Step

(* The registry. *)
LEMMA RegistryStep == IInv /\ [Next]_vars => RegistryInv'
  <1> SUFFICES ASSUME IInv, [Next]_vars PROVE RegistryInv'
    OBVIOUS
  <1> USE NoneAssumption DEF IInv, TypeOK, Holding, Goto, config, process, local, api, LockInv, HeapInv, RegistryInv
  <1>1. ASSUME NEW r \in Runs, Call(r) PROVE RegistryInv'
    BY <1>1 DEF Call
  <1>2. ASSUME NEW r \in Runs, Lock(r) PROVE RegistryInv'
    BY <1>2 DEF Lock
  <1>3. ASSUME NEW r \in Runs, LockPoisoned(r) PROVE RegistryInv'
    BY <1>3 DEF LockPoisoned
  <1>4. ASSUME NEW r \in Runs, IgnoreSigpipe(r) PROVE RegistryInv'
    BY <1>4 DEF IgnoreSigpipe
  <1>5. ASSUME NEW r \in Runs, IgnoreSigpipeFails(r) PROVE RegistryInv'
    BY <1>5 DEF IgnoreSigpipeFails, Fail
  <1>6. ASSUME NEW r \in Runs, ValidationFails(r) PROVE RegistryInv'
    BY <1>6 DEF ValidationFails, Fail
  <1>7. ASSUME NEW r \in Runs, NewTest(r) PROVE RegistryInv'
    BY <1>7 DEF NewTest
  <1>8. ASSUME NEW r \in Runs, SetupFails(r) PROVE RegistryInv'
    BY <1>8 DEF SetupFails, Fail, FreeTest
  <1>9. ASSUME NEW r \in Runs, Attach(r) PROVE RegistryInv'
    BY <1>9 DEF Attach, Register
  <1>10. ASSUME NEW r \in Runs, NotifyReady(r) PROVE RegistryInv'
    BY <1>10 DEF NotifyReady
  <1>11. ASSUME NEW r \in Runs, BeginTest(r) PROVE RegistryInv'
    BY <1>11 DEF BeginTest
  <1>12. ASSUME NEW r \in Runs, EndTest(r) PROVE RegistryInv'
    BY <1>12 DEF EndTest
  <1>13. ASSUME NEW r \in Runs, DropCallback(r) PROVE RegistryInv'
    BY <1>13 DEF DropCallback, RemoveEntry
  <1>14. ASSUME NEW r \in Runs, JoinWorker(r) PROVE RegistryInv'
    BY <1>14 DEF JoinWorker
  <1>15. ASSUME NEW r \in Runs, RestoreSigpipe(r) PROVE RegistryInv'
    BY <1>15 DEF RestoreSigpipe
  <1>16. ASSUME NEW r \in Runs, DropSetup(r) PROVE RegistryInv'
    BY <1>16 DEF DropSetup, FreeTest
  <1>17. ASSUME NEW r \in Runs, Unlock(r) PROVE RegistryInv'
    BY <1>17 DEF Unlock
  <1>18. ASSUME NEW r \in Runs, Panic(r) PROVE RegistryInv'
    BY <1>18 DEF Panic
  <1>19. ASSUME NEW r \in Runs, UnwindCallback(r) PROVE RegistryInv'
    BY <1>19 DEF UnwindCallback, RemoveEntry
  <1>20. ASSUME NEW r \in Runs, UnwindJoin(r) PROVE RegistryInv'
    BY <1>20 DEF UnwindJoin
  <1>21. ASSUME NEW r \in Runs, UnwindSigpipe(r) PROVE RegistryInv'
    BY <1>21 DEF UnwindSigpipe
  <1>22. ASSUME NEW r \in Runs, WorkerEnds(r) PROVE RegistryInv'
    BY <1>22 DEF WorkerEnds
  <1>23. ASSUME NEW r \in Runs, SpawnReturns(r) PROVE RegistryInv'
    BY <1>23 DEF SpawnReturns
  <1>24. ASSUME NEW r \in Runs, Observe(r) PROVE RegistryInv'
    BY <1>24 DEF Observe
  <1>25. ASSUME NEW r \in Runs, Detach(r) PROVE RegistryInv'
    BY <1>25 DEF Detach
  <1>26. CASE UNCHANGED vars
    BY <1>26 DEF vars
  <1> QED
    BY <1>1, <1>2, <1>3, <1>4, <1>5, <1>6, <1>7, <1>8, <1>9, <1>10, <1>11, <1>12,
       <1>13, <1>14, <1>15, <1>16, <1>17, <1>18, <1>19, <1>20, <1>21, <1>22, <1>23,
       <1>24, <1>25, <1>26 DEF Next, Step

(* IInv holds in every state of every behaviour of the process: the        *)
(* strengthening that run_command's invariants follow from.                *)
THEOREM Invariance == Spec => []IInv
  <1>1. IInv /\ [Next]_vars => IInv'
    BY TypeStep, StepInv, RegistryStep DEF IInv
  <1> QED BY InitInv, <1>1, PTL DEF Spec

(* Every variable keeps its type and a finished run holds no test, for any *)
(* number of runs and addresses (command.rs:598-658).                      *)
THEOREM TypeCorrect == Spec => []TypeOK
  <1>1. IInv => TypeOK
    BY DEF IInv
  <1> QED BY Invariance, <1>1, PTL

(* At most one native test exists, and its run holds the lock              *)
(* (command.rs:599-601, 719-732).                                          *)
THEOREM RunsAreSerialized == Spec => []OneNativeTest
  <1>1. IInv => OneNativeTest
    BY DEF IInv, HeapInv, OneNativeTest
  <1> QED BY Invariance, <1>1, PTL

(* The application's SIGPIPE disposition is back whenever no run holds the *)
(* lock, and a test always runs with it ignored (iperf.rs:341-353).        *)
THEOREM SigpipeIsScoped == Spec => []SigpipeScoped
  <1>1. IInv => SigpipeScoped
    BY DEF IInv, SigpipeInv, SigpipeScoped, Holding
  <1> QED BY Invariance, <1>1, PTL

(* A test's samples reach its own run's worker and no entry outlives its   *)
(* run, though addresses are reused (metrics.rs:511-533).                  *)
THEOREM CallbacksAreRouted == Spec => []CallbackReachesItsRun
  <1>1. IInv => CallbackReachesItsRun
    BY DEF IInv, RegistryInv, CallbackReachesItsRun
  <1> QED BY Invariance, <1>1, PTL

-----------------------------------------------------------------------------
(* What spawn's caller was told, and how far its run had come: the ready   *)
(* message is sent once, by the thread that knows the outcome of set-up.   *)
SpawnInv ==
  \A r \in Runs :
    /\ pc[r] \in {"idle", "locking", "install", "setup", "parse", "notify", "run"}
         => ~started[r]
    /\ pc[r] \in {"idle", "locking", "install", "setup", "parse", "notify"}
         => ready[r] = "empty"
    /\ pc[r] \in {"testing", "stop", "join"} => started[r]
    /\ ready[r] = "ok" => started[r] \/ pc[r] = "run"
    /\ ready[r] \in {"err", "closed"} =>
         ~started[r] /\ pc[r] \in {"restore", "free", "unlock", "done"}
    /\ caller[r] \in {"handle", "observed", "detached"} => ready[r] = "ok"
    /\ caller[r] = "failed" => ready[r] \in {"err", "closed"} /\ pc[r] = "done"

(* Where a run that did not panic is while its metrics worker may be alive. *)
WorkerInv ==
  \A r \in Runs :
    /\ pc[r] \in {"idle", "locking", "install", "setup", "parse"} => worker[r] = "none"
    /\ pc[r] \in {"restore", "free"} => worker[r] # "alive"
    /\ pc[r] \in {"unlock", "done"} => outcome[r] = "Panic" \/ worker[r] # "alive"
    /\ pc[r] \in {"unwind", "unwind_join", "unwind_end"} => outcome[r] = "Panic"

LEMMA ResultInit == Init => SpawnInv /\ WorkerInv
  BY DEF Init, SpawnInv, WorkerInv

(* spawn's answer, one step per action. *)
LEMMA SpawnStep == TypeOK /\ SpawnInv /\ [Next]_vars => SpawnInv'
  <1> SUFFICES ASSUME TypeOK, SpawnInv, [Next]_vars PROVE SpawnInv'
    OBVIOUS
  <1> USE DEF TypeOK, Holding, Goto, config, process, local, api, SpawnInv
  <1>1. ASSUME NEW r \in Runs, Call(r) PROVE SpawnInv'
    BY <1>1 DEF Call
  <1>2. ASSUME NEW r \in Runs, Lock(r) PROVE SpawnInv'
    BY <1>2 DEF Lock
  <1>3. ASSUME NEW r \in Runs, LockPoisoned(r) PROVE SpawnInv'
    BY <1>3 DEF LockPoisoned
  <1>4. ASSUME NEW r \in Runs, IgnoreSigpipe(r) PROVE SpawnInv'
    BY <1>4 DEF IgnoreSigpipe
  <1>5. ASSUME NEW r \in Runs, IgnoreSigpipeFails(r) PROVE SpawnInv'
    BY <1>5 DEF IgnoreSigpipeFails, Fail
  <1>6. ASSUME NEW r \in Runs, ValidationFails(r) PROVE SpawnInv'
    BY <1>6 DEF ValidationFails, Fail
  <1>7. ASSUME NEW r \in Runs, NewTest(r) PROVE SpawnInv'
    BY <1>7 DEF NewTest
  <1>8. ASSUME NEW r \in Runs, SetupFails(r) PROVE SpawnInv'
    BY <1>8 DEF SetupFails, Fail
  <1>9. ASSUME NEW r \in Runs, Attach(r) PROVE SpawnInv'
    BY <1>9 DEF Attach
  <1>10. ASSUME NEW r \in Runs, NotifyReady(r) PROVE SpawnInv'
    BY <1>10 DEF NotifyReady
  <1>11. ASSUME NEW r \in Runs, BeginTest(r) PROVE SpawnInv'
    BY <1>11 DEF BeginTest
  <1>12. ASSUME NEW r \in Runs, EndTest(r) PROVE SpawnInv'
    BY <1>12 DEF EndTest
  <1>13. ASSUME NEW r \in Runs, DropCallback(r) PROVE SpawnInv'
    BY <1>13 DEF DropCallback
  <1>14. ASSUME NEW r \in Runs, JoinWorker(r) PROVE SpawnInv'
    BY <1>14 DEF JoinWorker
  <1>15. ASSUME NEW r \in Runs, RestoreSigpipe(r) PROVE SpawnInv'
    BY <1>15 DEF RestoreSigpipe
  <1>16. ASSUME NEW r \in Runs, DropSetup(r) PROVE SpawnInv'
    BY <1>16 DEF DropSetup
  <1>17. ASSUME NEW r \in Runs, Unlock(r) PROVE SpawnInv'
    BY <1>17 DEF Unlock
  <1>18. ASSUME NEW r \in Runs, Panic(r) PROVE SpawnInv'
    BY <1>18 DEF Panic
  <1>19. ASSUME NEW r \in Runs, UnwindCallback(r) PROVE SpawnInv'
    BY <1>19 DEF UnwindCallback
  <1>20. ASSUME NEW r \in Runs, UnwindJoin(r) PROVE SpawnInv'
    BY <1>20 DEF UnwindJoin
  <1>21. ASSUME NEW r \in Runs, UnwindSigpipe(r) PROVE SpawnInv'
    BY <1>21 DEF UnwindSigpipe
  <1>22. ASSUME NEW r \in Runs, WorkerEnds(r) PROVE SpawnInv'
    BY <1>22 DEF WorkerEnds
  <1>23. ASSUME NEW r \in Runs, SpawnReturns(r) PROVE SpawnInv'
    BY <1>23 DEF SpawnReturns
  <1>24. ASSUME NEW r \in Runs, Observe(r) PROVE SpawnInv'
    BY <1>24 DEF Observe
  <1>25. ASSUME NEW r \in Runs, Detach(r) PROVE SpawnInv'
    BY <1>25 DEF Detach
  <1>26. CASE UNCHANGED vars
    BY <1>26 DEF vars
  <1> QED
    BY <1>1, <1>2, <1>3, <1>4, <1>5, <1>6, <1>7, <1>8, <1>9, <1>10, <1>11, <1>12,
       <1>13, <1>14, <1>15, <1>16, <1>17, <1>18, <1>19, <1>20, <1>21, <1>22, <1>23,
       <1>24, <1>25, <1>26 DEF Next, Step

(* The metrics worker, one step per action. *)
LEMMA WorkerStep == TypeOK /\ WorkerInv /\ [Next]_vars => WorkerInv'
  <1> SUFFICES ASSUME TypeOK, WorkerInv, [Next]_vars PROVE WorkerInv'
    OBVIOUS
  <1> USE DEF TypeOK, Holding, Goto, config, process, local, api, WorkerInv
  <1>1. ASSUME NEW r \in Runs, Call(r) PROVE WorkerInv'
    BY <1>1 DEF Call
  <1>2. ASSUME NEW r \in Runs, Lock(r) PROVE WorkerInv'
    BY <1>2 DEF Lock
  <1>3. ASSUME NEW r \in Runs, LockPoisoned(r) PROVE WorkerInv'
    BY <1>3 DEF LockPoisoned
  <1>4. ASSUME NEW r \in Runs, IgnoreSigpipe(r) PROVE WorkerInv'
    BY <1>4 DEF IgnoreSigpipe
  <1>5. ASSUME NEW r \in Runs, IgnoreSigpipeFails(r) PROVE WorkerInv'
    BY <1>5 DEF IgnoreSigpipeFails, Fail
  <1>6. ASSUME NEW r \in Runs, ValidationFails(r) PROVE WorkerInv'
    BY <1>6 DEF ValidationFails, Fail
  <1>7. ASSUME NEW r \in Runs, NewTest(r) PROVE WorkerInv'
    BY <1>7 DEF NewTest
  <1>8. ASSUME NEW r \in Runs, SetupFails(r) PROVE WorkerInv'
    BY <1>8 DEF SetupFails, Fail
  <1>9. ASSUME NEW r \in Runs, Attach(r) PROVE WorkerInv'
    BY <1>9 DEF Attach
  <1>10. ASSUME NEW r \in Runs, NotifyReady(r) PROVE WorkerInv'
    BY <1>10 DEF NotifyReady
  <1>11. ASSUME NEW r \in Runs, BeginTest(r) PROVE WorkerInv'
    BY <1>11 DEF BeginTest
  <1>12. ASSUME NEW r \in Runs, EndTest(r) PROVE WorkerInv'
    BY <1>12 DEF EndTest
  <1>13. ASSUME NEW r \in Runs, DropCallback(r) PROVE WorkerInv'
    BY <1>13 DEF DropCallback
  <1>14. ASSUME NEW r \in Runs, JoinWorker(r) PROVE WorkerInv'
    BY <1>14 DEF JoinWorker
  <1>15. ASSUME NEW r \in Runs, RestoreSigpipe(r) PROVE WorkerInv'
    BY <1>15 DEF RestoreSigpipe
  <1>16. ASSUME NEW r \in Runs, DropSetup(r) PROVE WorkerInv'
    BY <1>16 DEF DropSetup
  <1>17. ASSUME NEW r \in Runs, Unlock(r) PROVE WorkerInv'
    BY <1>17 DEF Unlock
  <1>18. ASSUME NEW r \in Runs, Panic(r) PROVE WorkerInv'
    BY <1>18 DEF Panic
  <1>19. ASSUME NEW r \in Runs, UnwindCallback(r) PROVE WorkerInv'
    BY <1>19 DEF UnwindCallback
  <1>20. ASSUME NEW r \in Runs, UnwindJoin(r) PROVE WorkerInv'
    BY <1>20 DEF UnwindJoin
  <1>21. ASSUME NEW r \in Runs, UnwindSigpipe(r) PROVE WorkerInv'
    BY <1>21 DEF UnwindSigpipe
  <1>22. ASSUME NEW r \in Runs, WorkerEnds(r) PROVE WorkerInv'
    BY <1>22 DEF WorkerEnds
  <1>23. ASSUME NEW r \in Runs, SpawnReturns(r) PROVE WorkerInv'
    BY <1>23 DEF SpawnReturns
  <1>24. ASSUME NEW r \in Runs, Observe(r) PROVE WorkerInv'
    BY <1>24 DEF Observe
  <1>25. ASSUME NEW r \in Runs, Detach(r) PROVE WorkerInv'
    BY <1>25 DEF Detach
  <1>26. CASE UNCHANGED vars
    BY <1>26 DEF vars
  <1> QED
    BY <1>1, <1>2, <1>3, <1>4, <1>5, <1>6, <1>7, <1>8, <1>9, <1>10, <1>11, <1>12,
       <1>13, <1>14, <1>15, <1>16, <1>17, <1>18, <1>19, <1>20, <1>21, <1>22, <1>23,
       <1>24, <1>25, <1>26 DEF Next, Step

(* spawn returns a handle only for a run that was set up, and an error     *)
(* only if libiperf was not and will not be run (command.rs:389-410).      *)
THEOREM SpawnIsHonest == Spec => []SpawnHonest
  <1>1. SpawnInv => SpawnHonest
    BY DEF SpawnInv, SpawnHonest
  <1> QED BY ResultInit, SpawnStep, TypeCorrect, <1>1, PTL DEF Spec

(* Whoever sees the result of a run that did not panic finds its metrics   *)
(* worker gone, so every event is in the stream (command.rs:629-647).      *)
THEOREM MetricsPrecedeResult == Spec => []MetricsBeforeResult
  <1>1. WorkerInv => MetricsBeforeResult
    BY DEF WorkerInv, MetricsBeforeResult
  <1> QED BY ResultInit, WorkerStep, TypeCorrect, <1>1, PTL DEF Spec

-----------------------------------------------------------------------------
(* NativeTest. *)

Types ==
  /\ session \in Nat /\ rc \in {-2, -1, 0, 2}
  /\ phase \in {"none", "built", "loop", "session", "ended", "copied", "reset", "returned"}
  /\ options \in [server : BOOLEAN, one_off : BOOLEAN, json : BOOLEAN]
  /\ tree \subseteq Nodes /\ attached \subseteq tree \ {"top"}
  /\ interrupted \in BOOLEAN /\ idle \in BOOLEAN

(* What the last session left: of this session, with its error when it     *)
(* failed, nothing when nobody came, something when it succeeded with -J.  *)
Faithful(kept) ==
  /\ kept # Nothing => kept.session = session /\ (kept.failed <=> rc < 0) /\ ~idle
  /\ options.json /\ rc = 0 /\ ~idle => kept # Nothing

(* The JSON string of a session is there from its end to the reset, and    *)
(* was copied before that; a session is not idle before it has ended.      *)
JsonInv ==
  /\ phase = "session" => ~idle
  /\ phase \in {"none", "built", "loop", "session", "reset"} => output = Nothing
  /\ phase = "built" => retained = Nothing
  /\ phase \in {"ended", "copied"} => Faithful(output)
  /\ phase = "copied" => retained = output
  /\ phase = "reset" => Faithful(retained)
  /\ phase = "returned" => Faithful(retained) \/ (retained = Nothing /\ result = "Err")

(* The tree is gone whenever another session, or another test, may start;  *)
(* its fields refer to the nodes that are alive, and whatever refers to an *)
(* argument buffer refers to one that is.                                  *)
MemoryInv ==
  /\ damage = {}
  /\ borrowed \subseteq buffers
  /\ errarg \in buffers \cup {Nothing}
  /\ fields = tree
  /\ phase \in {"none", "built", "loop", "reset"} => tree = {}
  /\ phase = "none" => errarg = Nothing

NativeInv == Types /\ JsonInv /\ MemoryInv

-----------------------------------------------------------------------------
(* iperf3rs_release_json deletes every node once, whichever exist and are  *)
(* attached (source_adapter.rs:33-54).                                     *)
LEMMA ReleaseIsComplete ==
  ASSUME tree \subseteq Nodes, attached \subseteq tree \ {"top"}, fields = tree
  PROVE  /\ ReleaseFaults = {}
         /\ ReleaseJson => tree' = {} /\ attached' = {} /\ fields' = {} /\ output' = Nothing
  <1>1. /\ Nodes = {"top", "start", "connected"}
        /\ Parent["start"] = "top" /\ Parent["connected"] = "start"
    BY DEF Nodes, Parent
  <1>2. /\ DeletedWith("connected") = {"connected"}
        /\ DeletedWith("start") = {"start"} \cup (attached \cap {"connected"})
        /\ DeletedWith("top") = {"top"} \cup (attached \cap {"start"})
             \cup (IF "start" \in attached THEN attached \cap {"connected"} ELSE {})
    BY <1>1 DEF DeletedWith
  <1>3. /\ Unattached \subseteq Nodes
        /\ "top" \in Unattached <=> "top" \in tree
        /\ "start" \in Unattached <=>
             "start" \in tree /\ ("start" \notin attached \/ "top" \notin tree)
        /\ "connected" \in Unattached <=>
             "connected" \in tree /\ ("connected" \notin attached \/ "start" \notin tree)
    BY <1>1 DEF Unattached
  <1>4. \A m, n \in Unattached : m # n => DeletedWith(m) \cap DeletedWith(n) = {}
    <2>1. DeletedWith("top") \cap DeletedWith("start") = {} \/ "start" \notin Unattached \/ "top" \notin Unattached
      BY <1>2, <1>3
    <2>2. \/ DeletedWith("top") \cap DeletedWith("connected") = {}
          \/ "connected" \notin Unattached \/ "top" \notin Unattached
      <3>1. CASE "connected" \in attached /\ "start" \in attached
        BY <1>3, <3>1
      <3>2. CASE ~("connected" \in attached /\ "start" \in attached)
        <4>1. "connected" \notin DeletedWith("top")
          BY <1>2, <3>2
        <4> QED BY <1>2, <4>1
      <3> QED BY <3>1, <3>2
    <2>3. \/ DeletedWith("start") \cap DeletedWith("connected") = {}
          \/ "connected" \notin Unattached \/ "start" \notin Unattached
      <3>1. CASE "connected" \in attached
        BY <1>3, <3>1
      <3>2. CASE "connected" \notin attached
        BY <1>2, <3>2
      <3> QED BY <3>1, <3>2
    <2> QED BY <1>1, <1>3, <2>1, <2>2, <2>3
  <1>5. tree \subseteq Deleted
    <2>1. \A n \in Unattached : DeletedWith(n) \subseteq Deleted
      BY DEF Deleted
    <2>2. "top" \in tree => "top" \in Deleted
      BY <1>2, <1>3, <2>1
    <2>3. "start" \in tree => "start" \in Deleted
      BY <1>2, <1>3, <2>1
    <2>4. "connected" \in tree => "connected" \in Deleted
      BY <1>2, <1>3, <2>1
    <2> QED BY <1>1, <2>2, <2>3, <2>4
  <1>6. ReleaseFaults = {}
    BY <1>4, <1>5 DEF ReleaseFaults
  <1> QED BY <1>5, <1>6 DEF ReleaseJson

LEMMA NativeInitInv == NativeInit => NativeInv
  <1> SUFFICES ASSUME NativeInit PROVE NativeInv
    OBVIOUS
  <1>1. Types
    BY DEF NativeInit, Types, Nodes
  <1>2. JsonInv /\ MemoryInv
    BY DEF NativeInit, JsonInv, MemoryInv
  <1> QED BY <1>1, <1>2 DEF NativeInv

(* Types, one step per action. *)
LEMMA NativeTypeStep == NativeInv /\ [NativeNext]_nativeVars => Types'
  <1> SUFFICES ASSUME NativeInv, [NativeNext]_nativeVars PROVE Types'
    OBVIOUS
  <1>0. /\ ReleaseFaults = {}
        /\ ReleaseJson => tree' = {} /\ attached' = {} /\ fields' = {} /\ output' = Nothing
    BY ReleaseIsComplete DEF NativeInv, Types, MemoryInv
  <1> USE DEF NativeInv, Types, Advance, json, argv
  <1>1. CASE ConstructTest
    BY <1>1 DEF ConstructTest
  <1>2. CASE DefaultsFail
    BY <1>2 DEF DefaultsFail, ReadError
  <1>3. CASE Parse
    BY <1>3 DEF Parse, StoreArguments, ReadError
  <1>4. CASE ParseRejects
    BY <1>4 DEF ParseRejects
  <1>5. CASE Run
    BY <1>5 DEF Run
  <1>6. CASE Interrupt
    BY <1>6 DEF Interrupt
  <1>7. CASE StartSession
    <2>1. tree' \subseteq Nodes /\ attached' \subseteq tree' \ {"top"}
      BY <1>7 DEF StartSession, Nodes
    <2>2. session' = session + 1 /\ phase' = "session" /\ idle' = FALSE
      BY <1>7 DEF StartSession
    <2>3. rc' = rc /\ options' = options /\ interrupted' = interrupted
      BY <1>7 DEF StartSession
    <2>4. session' \in Nat
      BY <2>2
    <2>5. idle' \in BOOLEAN
      BY <2>2
    <2> QED BY <2>1, <2>2, <2>3, <2>4, <2>5
  <1>8. CASE SessionSucceeds
    BY <1>8 DEF SessionSucceeds, EndSession, Finish, Unchanged
  <1>9. CASE SessionIdle
    BY <1>9 DEF SessionIdle, EndSession, Unchanged
  <1>10. CASE SessionFails
    BY <1>10 DEF SessionFails, EndSession, Finish, Unchanged
  <1>11. CASE CopyJson
    BY <1>11 DEF CopyJson
  <1>12. CASE ReturnInterrupted
    BY <1>12 DEF ReturnInterrupted, Return
  <1>13. CASE ReturnError
    BY <1>13 DEF ReturnError, Return, ReadError
  <1>14. CASE ReturnClient
    BY <1>14 DEF ReturnClient, Return
  <1>15. CASE ResetTest
    <2>1. tree' = {} /\ attached' = {} /\ fields' = {} /\ output' = Nothing /\ ReleaseFaults = {}
      BY <1>15, <1>0 DEF ResetTest
    <2> QED BY <1>15, <2>1 DEF ResetTest, ReadError
  <1>16. CASE ReturnOneOff
    BY <1>16 DEF ReturnOneOff, Return
  <1>17. CASE NextSession
    BY <1>17 DEF NextSession
  <1>18. CASE Drop
    <2>1. tree' = {} /\ attached' = {} /\ fields' = {} /\ output' = Nothing /\ ReleaseFaults = {}
      BY <1>18, <1>0 DEF Drop
    <2> QED BY <1>18, <2>1 DEF Drop, ClearErrorState
  <1>19. CASE UNCHANGED nativeVars
    BY <1>19 DEF nativeVars
  <1> QED
    BY <1>1, <1>2, <1>3, <1>4, <1>5, <1>6, <1>7, <1>8, <1>9, <1>10, <1>11, <1>12,
       <1>13, <1>14, <1>15, <1>16, <1>17, <1>18, <1>19
    DEF NativeNext, Session, AfterSession

(* The JSON, one step per action. *)
LEMMA JsonStep == NativeInv /\ [NativeNext]_nativeVars => JsonInv'
  <1> SUFFICES ASSUME NativeInv, [NativeNext]_nativeVars PROVE JsonInv'
    OBVIOUS
  <1>0. /\ ReleaseFaults = {}
        /\ ReleaseJson => tree' = {} /\ attached' = {} /\ fields' = {} /\ output' = Nothing
    BY ReleaseIsComplete DEF NativeInv, Types, MemoryInv
  <1> USE DEF NativeInv, Types, Advance, json, argv, JsonInv, Faithful
  <1>1. CASE ConstructTest
    BY <1>1 DEF ConstructTest
  <1>2. CASE DefaultsFail
    BY <1>2 DEF DefaultsFail, ReadError
  <1>3. CASE Parse
    BY <1>3 DEF Parse, StoreArguments, ReadError
  <1>4. CASE ParseRejects
    BY <1>4 DEF ParseRejects
  <1>5. CASE Run
    BY <1>5 DEF Run
  <1>6. CASE Interrupt
    BY <1>6 DEF Interrupt
  <1>7. CASE StartSession
    BY <1>7 DEF StartSession
  <1>8. CASE SessionSucceeds
    <2>1. CASE tree = Nodes
      <3>1. output' = [session |-> session, failed |-> FALSE]
        BY <1>8, <2>1 DEF SessionSucceeds, Finish
      <3>2. [session |-> session, failed |-> FALSE] \in [session : Nat, failed : BOOLEAN]
        OBVIOUS
      <3>3. output' # Nothing
        BY <3>1, <3>2, NothingAssumption
      <3>4. output'.session = session /\ output'.failed = FALSE
        BY <3>1
      <3>5. rc' = 0 /\ phase' = "ended" /\ session' = session /\ ~idle'
        BY <1>8 DEF SessionSucceeds, EndSession, Unchanged
      <3> QED BY <3>3, <3>4, <3>5
    <2>2. CASE tree # Nodes
      BY <1>8, <2>2 DEF SessionSucceeds, EndSession, Unchanged
    <2> QED BY <2>1, <2>2
  <1>9. CASE SessionIdle
    BY <1>9 DEF SessionIdle, EndSession, Unchanged
  <1>10. CASE SessionFails
    BY <1>10 DEF SessionFails, EndSession, Finish, Unchanged
  <1>11. CASE CopyJson
    BY <1>11 DEF CopyJson
  <1>12. CASE ReturnInterrupted
    BY <1>12 DEF ReturnInterrupted, Return
  <1>13. CASE ReturnError
    BY <1>13 DEF ReturnError, Return, ReadError
  <1>14. CASE ReturnClient
    BY <1>14 DEF ReturnClient, Return
  <1>15. CASE ResetTest
    <2>1. tree' = {} /\ attached' = {} /\ fields' = {} /\ output' = Nothing /\ ReleaseFaults = {}
      BY <1>15, <1>0 DEF ResetTest
    <2> QED BY <1>15, <2>1 DEF ResetTest, ReadError
  <1>16. CASE ReturnOneOff
    BY <1>16 DEF ReturnOneOff, Return
  <1>17. CASE NextSession
    BY <1>17 DEF NextSession
  <1>18. CASE Drop
    <2>1. tree' = {} /\ attached' = {} /\ fields' = {} /\ output' = Nothing /\ ReleaseFaults = {}
      BY <1>18, <1>0 DEF Drop
    <2> QED BY <1>18, <2>1 DEF Drop, ClearErrorState
  <1>19. CASE UNCHANGED nativeVars
    BY <1>19 DEF nativeVars
  <1> QED
    BY <1>1, <1>2, <1>3, <1>4, <1>5, <1>6, <1>7, <1>8, <1>9, <1>10, <1>11, <1>12,
       <1>13, <1>14, <1>15, <1>16, <1>17, <1>18, <1>19
    DEF NativeNext, Session, AfterSession

(* Memory, one step per action. *)
LEMMA MemoryStep == NativeInv /\ [NativeNext]_nativeVars => MemoryInv'
  <1> SUFFICES ASSUME NativeInv, [NativeNext]_nativeVars PROVE MemoryInv'
    OBVIOUS
  <1>0. /\ ReleaseFaults = {}
        /\ ReleaseJson => tree' = {} /\ attached' = {} /\ fields' = {} /\ output' = Nothing
    BY ReleaseIsComplete DEF NativeInv, Types, MemoryInv
  <1> USE DEF NativeInv, Types, Advance, json, argv, MemoryInv
  <1>1. CASE ConstructTest
    BY <1>1 DEF ConstructTest
  <1>2. CASE DefaultsFail
    BY <1>2 DEF DefaultsFail, ReadError
  <1>3. CASE Parse
    BY <1>3 DEF Parse, StoreArguments, ReadError
  <1>4. CASE ParseRejects
    BY <1>4 DEF ParseRejects
  <1>5. CASE Run
    BY <1>5 DEF Run
  <1>6. CASE Interrupt
    BY <1>6 DEF Interrupt
  <1>7. CASE StartSession
    BY <1>7 DEF StartSession
  <1>8. CASE SessionSucceeds
    BY <1>8 DEF SessionSucceeds, EndSession, Finish, Unchanged
  <1>9. CASE SessionIdle
    BY <1>9 DEF SessionIdle, EndSession, Unchanged
  <1>10. CASE SessionFails
    BY <1>10 DEF SessionFails, EndSession, Finish, Unchanged
  <1>11. CASE CopyJson
    BY <1>11 DEF CopyJson
  <1>12. CASE ReturnInterrupted
    BY <1>12 DEF ReturnInterrupted, Return
  <1>13. CASE ReturnError
    BY <1>13 DEF ReturnError, Return, ReadError
  <1>14. CASE ReturnClient
    BY <1>14 DEF ReturnClient, Return
  <1>15. CASE ResetTest
    <2>1. tree' = {} /\ attached' = {} /\ fields' = {} /\ output' = Nothing /\ ReleaseFaults = {}
      BY <1>15, <1>0 DEF ResetTest
    <2> QED BY <1>15, <2>1 DEF ResetTest, ReadError
  <1>16. CASE ReturnOneOff
    BY <1>16 DEF ReturnOneOff, Return
  <1>17. CASE NextSession
    BY <1>17 DEF NextSession
  <1>18. CASE Drop
    <2>1. tree' = {} /\ attached' = {} /\ fields' = {} /\ output' = Nothing /\ ReleaseFaults = {}
      BY <1>18, <1>0 DEF Drop
    <2> QED BY <1>18, <2>1 DEF Drop, ClearErrorState
  <1>19. CASE UNCHANGED nativeVars
    BY <1>19 DEF nativeVars
  <1> QED
    BY <1>1, <1>2, <1>3, <1>4, <1>5, <1>6, <1>7, <1>8, <1>9, <1>10, <1>11, <1>12,
       <1>13, <1>14, <1>15, <1>16, <1>17, <1>18, <1>19
    DEF NativeNext, Session, AfterSession

(* IInv holds in every state of any sequence of tests and sessions. *)
THEOREM NativeInvariance == NativeSpec => []NativeInv
  <1>1. NativeInv /\ [NativeNext]_nativeVars => NativeInv'
    BY NativeTypeStep, JsonStep, MemoryStep DEF NativeInv
  <1> QED BY NativeInitInv, <1>1, PTL DEF NativeSpec

(* A finished run reports the JSON of its last session (iperf.rs:329-401). *)
THEOREM LastIsRetained == NativeSpec => []RetainedIsLast
  <1>1. NativeInv => RetainedIsLast
    BY DEF NativeInv, JsonInv, Faithful, RetainedIsLast
  <1> QED BY NativeInvariance, <1>1, PTL

(* No JSON tree is lost and no argument buffer used after it is gone       *)
(* (iperf.rs:276-282, 404-412; source_adapter.rs:33-54).                   *)
THEOREM MemoryIsSound == NativeSpec => []MemorySound
  <1>1. NativeInv => MemorySound
    BY DEF NativeInv, JsonInv, MemoryInv, MemorySound
  <1> QED BY NativeInvariance, <1>1, PTL
-----------------------------------------------------------------------------
(* IperfCommand: arithmetic of its durations. *)

(* Products of natural numbers, and quotients. *)
LEMMA Products ==
  ASSUME NEW a \in Nat, NEW b \in Nat
  PROVE  a * b \in Nat /\ a * b = b * a /\ (a # 0 /\ b # 0 => a * b # 0)
  OBVIOUS

(* A larger factor makes a larger product. *)
LEMMA ProductGrows ==
  ASSUME NEW a \in Nat, NEW b \in Nat, NEW c \in Nat, a <= b
  PROVE  a * c <= b * c
  <1>1. PICK e \in Nat : b = a + e
    <2>1. b - a \in Nat /\ b = a + (b - a)
      OBVIOUS
    <2> QED BY <2>1
  <1>2. b * c = a * c + e * c
    BY <1>1
  <1>3. a * c \in Nat /\ e * c \in Nat
    BY Products
  <1> QED BY <1>2, <1>3

LEMMA Quotient ==
  ASSUME NEW n \in Nat, NEW c \in Nat \ {0}
  PROVE  /\ n \div c \in Nat /\ n % c \in 0..c - 1
         /\ n = c * (n \div c) + (n % c)
  <1>1. c \in Int /\ c > 0
    OBVIOUS
  <1>2. n \div c \in Int /\ n % c \in 0..c - 1
    OBVIOUS
  <1>3. n = c * (n \div c) + (n % c)
    OBVIOUS
  <1>4. PICK q, r : q = n \div c /\ r = n % c
    OBVIOUS
  <1>5. q >= 0
    <2> SUFFICES ASSUME q <= 0 - 1 PROVE FALSE
      BY <1>2, <1>4
    <2>1. c * q <= 0 - c
      BY <1>1, <1>2, <1>4
    <2> QED BY <1>2, <1>3, <1>4, <2>1
  <1> QED BY <1>2, <1>3, <1>4, <1>5

(* There is one quotient. *)
LEMMA QuotientIs ==
  ASSUME NEW n \in Nat, NEW c \in Nat \ {0}, NEW q \in Nat, NEW r \in 0..c - 1, n = c * q + r
  PROVE  n \div c = q
  <1>1. PICK p, t : p = n \div c /\ t = n % c
    OBVIOUS
  <1>2. p \in Nat /\ t \in 0..c - 1 /\ n = c * p + t
    BY <1>1, Quotient
  <1>3. CASE p < q
    <2>1. p + 1 <= q /\ p + 1 \in Nat
      BY <1>2, <1>3
    <2>2. (p + 1) * c <= q * c
      BY <2>1, ProductGrows
    <2>3. (p + 1) * c = c * p + c /\ q * c = c * q
      BY <1>2
    <2>4. c * p \in Nat /\ c * q \in Nat
      BY <1>2, Products
    <2> QED BY <1>2, <2>2, <2>3, <2>4
  <1>4. CASE q < p
    <2>1. q + 1 <= p /\ q + 1 \in Nat
      BY <1>2, <1>4
    <2>2. (q + 1) * c <= p * c
      BY <1>2, <2>1, ProductGrows
    <2>3. (q + 1) * c = c * q + c /\ p * c = c * p
      BY <1>2
    <2>4. c * p \in Nat /\ c * q \in Nat
      BY <1>2, Products
    <2> QED BY <1>2, <2>2, <2>3, <2>4
  <1> QED BY <1>1, <1>2, <1>3, <1>4

LEMMA QuotientTwice ==
  ASSUME NEW n \in Nat, NEW a \in Nat \ {0}, NEW b \in Nat \ {0}
  PROVE  (n \div a) \div b = n \div (a * b)
  <1>1. PICK q, r, p, t : q = n \div a /\ r = n % a /\ p = q \div b /\ t = q % b
    OBVIOUS
  <1>2. q \in Nat /\ r \in 0..a - 1 /\ n = a * q + r
    BY <1>1, Quotient
  <1>3. p \in Nat /\ t \in 0..b - 1 /\ q = b * p + t
    BY <1>1, <1>2, Quotient
  <1>4. a * b \in Nat \ {0} /\ a * t \in Nat /\ b * p \in Nat
    BY <1>3, Products
  <1>5. n = (a * b) * p + (a * t + r)
    <2>1. a * (b * p + t) = (a * b) * p + a * t
      BY <1>3
    <2> QED BY <1>2, <1>3, <1>4, <2>1
  <1>6. a * t + r \in 0..a * b - 1
    <2>1. t + 1 <= b /\ t + 1 \in Nat
      BY <1>3
    <2>2. (t + 1) * a <= b * a
      BY <2>1, ProductGrows
    <2>3. (t + 1) * a = a * t + a /\ b * a = a * b
      BY <1>3
    <2> QED BY <1>2, <1>4, <2>2, <2>3
  <1>7. n \div (a * b) = p
    BY <1>3, <1>4, <1>5, <1>6, QuotientIs
  <1> QED BY <1>1, <1>7

-----------------------------------------------------------------------------
(* Powers. *)

Copies(n) == [i \in 1..n |-> Base]

(* A power is a fold that multiplies by the base. *)
LEMMA PowerFold ==
  ASSUME NEW n \in Nat
  PROVE  /\ Power(n) \in Nat
         /\ Folded([p \in Nat \X Nat |-> p[1] * p[2]], 1, Copies(n), Power(n))
  <1> DEFINE s == Copies(n)
             F == [p \in Nat \X Nat |-> p[1] * p[2]]
             Body(it) == [t \in SUBSET DOMAIN s |->
                            IF t = {} THEN 1 ELSE it[t \ {Max(t)}] * s[Max(t)]]
             f == CHOOSE it : it = Body(it)
  <1>1. Power(n) = f[DOMAIN s]
    BY Zenon DEF FoldLeft, MapThenFoldSet, Power, Copies
  <1>2. F \in [Nat \X Nat -> Nat]
    <2>1. \A a \in Nat, b \in Nat : a * b \in Nat
      BY Products
    <2> QED BY <2>1
  <1>3. /\ DOMAIN s = 1..n /\ Len(s) = n /\ s \in Seq(Nat)
        /\ \A i \in 1..n : s[i] = Base /\ s[i] \in Nat
    BY DigitsAssumption DEF Copies
  <1>4. \A v \in Nat, x \in Nat : F[<<v, x>>] = v * x
    OBVIOUS
  <1> HIDE DEF F, s
  <1>5. Iterable(F, 1, s, Nat, n)
    BY <1>2, <1>3, IterationExists
  <1>6. PICK h \in [SUBSET (1..n) -> Nat] : Iterates(F, 1, s, h, n)
    BY <1>5 DEF Iterable
  <1>7. \A t \in SUBSET (1..n) : t # {} => t \ {Max(t)} \in SUBSET (1..n) /\ s[Max(t)] \in Nat
    BY <1>3, MaxInSet
  <1>8. h = Body(h)
    <2>1. \A t \in SUBSET (1..n) : t # {} =>
            F[<<h[t \ {Max(t)}], s[Max(t)]>>] = h[t \ {Max(t)}] * s[Max(t)]
      BY <1>4, <1>6, <1>7
    <2> QED BY <1>3, <1>6, <2>1, Zenon DEF Iterates
  <1>9. f = Body(f)
    BY <1>8, Zenon
  <1> HIDE DEF f
  <1>10. \A t \in SUBSET (1..n) :
            f[t] = IF t = {} THEN 1 ELSE f[t \ {Max(t)}] * s[Max(t)]
    BY <1>3, <1>9, Zenon
  <1>11. f[{}] = 1
    BY <1>10
  <1>12. \A t \in SUBSET (1..n) : t # {} /\ f[t \ {Max(t)}] \in Nat =>
            f[t] = F[<<f[t \ {Max(t)}], s[Max(t)]>>]
    BY <1>4, <1>7, <1>10
  <1>13. f[1..n] \in Nat /\ Folded(F, 1, s, f[1..n])
    <2>1. Follows(F, 1, s, Nat, f)
      BY <1>3, <1>11, <1>12 DEF Follows
    <2>2. f[1..Len(s)] \in Nat /\ Folded(F, 1, s, f[1..Len(s)])
      BY <1>2, <1>3, <2>1, IterationRuns
    <2> QED BY <1>3, <2>2
  <1> QED BY <1>1, <1>3, <1>13 DEF F, s

(* A power and the next one (the model's spelling of 10.pow(n)). *)
LEMMA PowerStep ==
  /\ Power(0) = 1
  /\ \A n \in Nat : Power(n + 1) = Power(n) * Base
  <1> DEFINE F == [p \in Nat \X Nat |-> p[1] * p[2]]
  <1>1. Power(0) = 1
    <2>1. Copies(0) = <<>>
      BY DEF Copies
    <2> QED BY <2>1, PowerFold, FoldedEmpty
  <1>2. ASSUME NEW n \in Nat PROVE Power(n + 1) = Power(n) * Base
    <2>1. Copies(n) \in Seq(Nat) /\ Copies(n + 1) = Append(Copies(n), Base) /\ Base \in Nat
      BY DigitsAssumption DEF Copies
    <2>2. Folded(F, 1, Copies(n), Power(n)) /\ Power(n) \in Nat
      BY PowerFold
    <2>3. Folded(F, 1, Append(Copies(n), Base), Power(n + 1))
      <3>1. n + 1 \in Nat
        OBVIOUS
      <3> HIDE DEF F
      <3>2. Folded(F, 1, Copies(n + 1), Power(n + 1))
        BY <3>1, PowerFold, Zenon DEF F
      <3> QED BY <2>1, <3>2
    <2>4. F[<<Power(n), Base>>] = Power(n) * Base
      BY <2>1, <2>2
    <2> HIDE DEF F
    <2>5. Power(n + 1) = F[<<Power(n), Base>>]
      BY <2>1, <2>2, <2>3, FoldedAppend
    <2> QED BY <2>4, <2>5
  <1> QED BY <1>1, <1>2

(* Powers are not zero. *)
LEMMA PowerPositive == \A n \in Nat : Power(n) \in Nat \ {0}
  <1> DEFINE P == {n \in Nat : Power(n) \in Nat \ {0}}
  <1>1. 0 \in P
    BY PowerStep
  <1>2. \A n \in Nat : n \in P => n + 1 \in P
    <2> SUFFICES ASSUME NEW n \in Nat, Power(n) \in Nat \ {0} PROVE Power(n + 1) \in Nat \ {0}
      OBVIOUS
    <2> QED BY PowerStep, DigitsAssumption, Products
  <1> HIDE DEF P
  <1>3. Nat \subseteq P
    BY <1>1, <1>2, SetInduction
  <1> QED BY <1>3 DEF P

(* The power of a sum is the product of the powers. *)
LEMMA PowerSum == \A m \in Nat, n \in Nat : Power(m + n) = Power(m) * Power(n)
  <1> SUFFICES ASSUME NEW m \in Nat PROVE \A n \in Nat : Power(m + n) = Power(m) * Power(n)
    OBVIOUS
  <1> DEFINE P == {n \in Nat : Power(m + n) = Power(m) * Power(n)}
  <1>1. 0 \in P
    BY PowerStep, PowerPositive
  <1>2. \A n \in Nat : n \in P => n + 1 \in P
    <2> SUFFICES ASSUME NEW n \in Nat, Power(m + n) = Power(m) * Power(n)
                 PROVE  Power(m + (n + 1)) = Power(m) * Power(n + 1)
      OBVIOUS
    <2>1. m + n \in Nat /\ m + (n + 1) = (m + n) + 1
      OBVIOUS
    <2>2. Power(m + (n + 1)) = Power(m + n) * Base /\ Power(n + 1) = Power(n) * Base
      BY <2>1, PowerStep
    <2>3. PICK a, b : a = Power(m) /\ b = Power(n)
      OBVIOUS
    <2>4. a \in Nat /\ b \in Nat /\ Base \in Nat
      BY <2>3, PowerPositive, DigitsAssumption
    <2>5. (a * b) * Base = a * (b * Base)
      BY <2>4
    <2> QED BY <2>2, <2>3, <2>5
  <1> HIDE DEF P
  <1>3. Nat \subseteq P
    BY <1>1, <1>2, SetInduction
  <1> QED BY <1>3 DEF P

(* Reading is a fold over the digits of the fraction. *)
LEMMA ReadFold ==
  ASSUME NEW name, Unit(name) \in Nat, NEW number \in Numbers, Len(number.fraction) <= Places
  PROVE  \E g : /\ g[0] = number.whole * Unit(name)
                /\ \A k \in 1..Len(number.fraction) :
                     g[k] = g[k - 1] + number.fraction[k] * Power(Places - k)
                /\ Read(name, number) = g[Len(number.fraction)]
  <1> DEFINE n == Len(number.fraction)
             base == number.whole * Unit(name)
             s == [i \in DOMAIN number.fraction |-> i]
             F == [p \in Nat \X (1..n) |-> p[1] + number.fraction[p[2]] * Power(Places - p[2])]
             Body(it) == [t \in SUBSET DOMAIN s |->
                            IF t = {} THEN base
                            ELSE it[t \ {Max(t)}] + number.fraction[s[Max(t)]] * Power(Places - s[Max(t)])]
             f == CHOOSE it : it = Body(it)
  <1>1. Read(name, number) = f[DOMAIN s]
    BY Zenon DEF FoldLeft, MapThenFoldSet, Read
  <1>2. /\ n \in Nat /\ DOMAIN number.fraction = 1..n /\ base \in Nat
        /\ \A k \in 1..n : number.fraction[k] \in Nat
    BY Products DEF Numbers
  <1>3. \A k \in 1..n : number.fraction[k] * Power(Places - k) \in Nat
    <2> TAKE k \in 1..n
    <2>1. Places - k \in Nat
      BY <1>2, DigitsAssumption
    <2> QED BY <1>2, <2>1, PowerPositive, Products
  <1>4. F \in [Nat \X (1..n) -> Nat]
    BY <1>3
  <1>5. \A v \in Nat, k \in 1..n : F[<<v, k>>] = v + number.fraction[k] * Power(Places - k)
    OBVIOUS
  <1>6. /\ DOMAIN s = 1..n /\ Len(s) = n /\ s \in Seq(1..n)
        /\ \A k \in 1..n : s[k] = k
    BY <1>2
  <1> HIDE DEF F, s, n, base
  <1>7. Iterable(F, base, s, Nat, n)
    BY <1>2, <1>4, <1>6, IterationExists
  <1>8. PICK h \in [SUBSET (1..n) -> Nat] : Iterates(F, base, s, h, n)
    BY <1>7 DEF Iterable
  <1>9. \A t \in SUBSET (1..n) : t # {} => t \ {Max(t)} \in SUBSET (1..n) /\ s[Max(t)] \in 1..n
    BY <1>2, <1>6, MaxInSet
  <1>10. h = Body(h)
    <2>1. \A t \in SUBSET (1..n) : t # {} =>
            F[<<h[t \ {Max(t)}], s[Max(t)]>>]
              = h[t \ {Max(t)}] + number.fraction[s[Max(t)]] * Power(Places - s[Max(t)])
      BY <1>5, <1>8, <1>9
    <2> QED BY <1>6, <1>8, <2>1, Zenon DEF Iterates
  <1>11. f = Body(f)
    BY <1>10, Zenon
  <1> HIDE DEF f
  <1>12. \A t \in SUBSET (1..n) :
            f[t] = IF t = {} THEN base
                   ELSE f[t \ {Max(t)}] + number.fraction[s[Max(t)]] * Power(Places - s[Max(t)])
    BY <1>6, <1>11, Zenon
  <1>13. f[{}] = base
    BY <1>12
  <1>14. \A t \in SUBSET (1..n) : t # {} /\ f[t \ {Max(t)}] \in Nat =>
            f[t] = F[<<f[t \ {Max(t)}], s[Max(t)]>>]
    BY <1>5, <1>9, <1>12
  <1>15. Folded(F, base, s, f[1..n])
    <2>1. Follows(F, base, s, Nat, f)
      BY <1>6, <1>13, <1>14 DEF Follows
    <2>2. Folded(F, base, s, f[1..Len(s)])
      BY <1>2, <1>4, <1>6, <2>1, IterationRuns
    <2> QED BY <1>6, <2>2
  <1>16. PICK g : Folding(F, base, s, g, n) /\ f[1..n] = g[n]
    BY <1>6, <1>15 DEF Folded
  <1>17. \A k \in Nat : k <= n => g[k] \in Nat
    <2> DEFINE P == {k \in Nat : k <= n => g[k] \in Nat}
    <2>1. 0 \in P
      BY <1>2, <1>16 DEF Folding
    <2>2. \A k \in Nat : k \in P => k + 1 \in P
      <3> SUFFICES ASSUME NEW k \in Nat, k <= n => g[k] \in Nat, k + 1 <= n PROVE g[k + 1] \in Nat
        OBVIOUS
      <3>1. k + 1 \in 1..n /\ k + 1 - 1 = k /\ g[k] \in Nat
        BY <1>2
      <3>2. g[k + 1] = F[<<g[k], k + 1>>]
        BY <1>6, <1>16, <3>1 DEF Folding
      <3> QED BY <1>4, <3>1, <3>2
    <2> HIDE DEF P
    <2>3. Nat \subseteq P
      BY <2>1, <2>2, SetInduction
    <2> QED BY <2>3 DEF P
  <1>18. \A k \in 1..n : g[k] = g[k - 1] + number.fraction[k] * Power(Places - k)
    <2> TAKE k \in 1..n
    <2>1. k - 1 \in Nat /\ k - 1 <= n
      BY <1>2
    <2>2. g[k] = F[<<g[k - 1], k>>] /\ g[k - 1] \in Nat
      BY <1>6, <1>16, <1>17, <2>1 DEF Folding
    <2> QED BY <1>5, <2>2
  <1>19. Read(name, number) = g[n] /\ g[0] = base
    BY <1>1, <1>6, <1>16 DEF Folding
  <1> QED BY <1>18, <1>19 DEF n, base

(* A number without fraction is so many units. *)
LEMMA ReadWhole ==
  ASSUME NEW name, Unit(name) \in Nat, NEW w \in Nat
  PROVE  Whole(w) \in Numbers /\ Read(name, Whole(w)) = w * Unit(name)
  <1>1. PICK number : number = Whole(w)
    OBVIOUS
  <1>2. number.fraction = <<>> /\ number.whole = w /\ number \in Numbers /\ Len(number.fraction) = 0
    BY <1>1 DEF Whole, Numbers
  <1>3. Len(number.fraction) <= Places
    BY <1>2, DigitsAssumption
  <1>4. Read(name, number) = number.whole * Unit(name)
    BY <1>2, <1>3, ReadFold
  <1> QED BY <1>1, <1>2, <1>4

-----------------------------------------------------------------------------
(* The numbers of helpers. *)

LEMMA UnitTypes ==
  /\ Second \in Nat \ {0} /\ Milli \in Nat \ {0} /\ Power(MilliPlaces) \in Nat
  /\ Second = Power(MilliPlaces) * Milli
  /\ \A name : Unit(name) \in Nat
  <1>1. /\ Places \in Nat /\ MilliPlaces \in Nat /\ Places - MilliPlaces \in Nat
        /\ MilliPlaces + (Places - MilliPlaces) = Places
    BY DigitsAssumption
  <1>2. Second \in Nat \ {0} /\ Milli \in Nat \ {0} /\ Power(MilliPlaces) \in Nat
    BY <1>1, PowerPositive DEF Second, Milli
  <1>3. Second = Power(MilliPlaces) * Milli
    BY <1>1, PowerSum DEF Second, Milli
  <1> QED BY <1>2, <1>3 DEF Unit

(* Whole seconds. *)
LEMMA WholeSecondsMean ==
  ASSUME NEW name \in {"-t", "-O"}, NEW d, d.seconds \in 0..MaxSeconds, d.ticks \in 0..Second - 1
  PROVE  WholeSecondsArg(d) \in Numbers /\ Means(name, WholeSecondsArg(d), d)
  <1>1. PICK s, t, p : s = d.seconds /\ t = d.ticks /\ p = s * Second
    OBVIOUS
  <1>2. s \in Nat /\ t \in Nat /\ t < Second /\ s <= MaxSeconds /\ Second \in Nat /\ Second > 0 /\ p \in Nat
    BY <1>1, UnitTypes, DigitsAssumption, Products
  <1>3. Unit(name) = Second /\ name # "-i"
    BY DEF Unit
  <1>4. CASE t = 0
    <2>1. WholeSecondsArg(d) = Whole(s)
      BY <1>1, <1>4 DEF WholeSecondsArg
    <2>2. Read(name, Whole(s)) = p /\ Whole(s) \in Numbers
      BY <1>1, <1>2, <1>3, ReadWhole
    <2>3. d.seconds * Second + d.ticks = p
      BY <1>1, <1>2, <1>4
    <2> QED BY <1>2, <1>3, <2>1, <2>2, <2>3 DEF Means
  <1>5. CASE t # 0 /\ s # MaxSeconds
    <2>1. WholeSecondsArg(d) = Whole(s + 1)
      BY <1>1, <1>5 DEF WholeSecondsArg
    <2>2. Read(name, Whole(s + 1)) = (s + 1) * Second /\ Whole(s + 1) \in Numbers
      BY <1>1, <1>2, <1>3, ReadWhole
    <2>3. (s + 1) * Second = p + Second
      BY <1>1, <1>2
    <2>4. d.seconds * Second + d.ticks = p + t
      BY <1>1
    <2> QED BY <1>2, <1>3, <1>5, <2>1, <2>2, <2>3, <2>4 DEF Means
  <1>6. CASE t # 0 /\ s = MaxSeconds
    <2>1. WholeSecondsArg(d) = Whole(s)
      BY <1>1, <1>6 DEF WholeSecondsArg
    <2>2. Whole(s) \in Numbers /\ Whole(s).whole = s
      BY <1>2 DEF Whole, Numbers
    <2> QED BY <1>1, <1>6, <2>1, <2>2 DEF Means
  <1> QED BY <1>4, <1>5, <1>6

(* Milliseconds. *)
LEMMA MillisecondsMean ==
  ASSUME NEW d, d.seconds \in Nat, d.ticks \in 0..Second - 1
  PROVE  /\ MillisecondsArg(d) \in Numbers
         /\ Means("--connect-timeout", MillisecondsArg(d), d)
  <1> DEFINE name == "--connect-timeout"
  <1>1. PICK s, t, m, k : s = d.seconds /\ t = d.ticks /\ m = Milli /\ k = Power(MilliPlaces)
    OBVIOUS
  <1>2. s \in Nat /\ t \in Nat /\ m \in Nat \ {0} /\ k \in Nat
    BY <1>1, UnitTypes
  <1>3. PICK q, r : q = t \div m /\ r = t % m
    OBVIOUS
  <1>4. q \in Nat /\ r \in 0..m - 1 /\ t = m * q + r
    BY <1>2, <1>3, Quotient
  <1>5. PICK w : w = s * k + q
    OBVIOUS
  <1>6. w \in Nat
    BY <1>2, <1>4, <1>5
  <1>7. Unit(name) = m /\ name # "-i"
    BY <1>1 DEF Unit
  <1>8. d.seconds * Second + d.ticks = w * m + r /\ w * m \in Nat
    <2>1. d.seconds * Second = (s * k) * m
      <3>1. Second = k * m
        BY <1>1, UnitTypes
      <3> QED BY <1>1, <1>2, <3>1
    <2>2. w * m = (s * k) * m + m * q
      BY <1>2, <1>4, <1>5
    <2>3. (s * k) * m \in Nat /\ m * q \in Nat /\ w * m \in Nat
      BY <1>2, <1>4, <1>6, Products
    <2> QED BY <1>1, <1>4, <2>1, <2>2, <2>3
  <1>9. MillisecondsArg(d) = Whole(IF r = 0 THEN w ELSE w + 1)
    BY <1>1, <1>3, <1>5 DEF MillisecondsArg
  <1>10. /\ Whole(w) \in Numbers /\ Read(name, Whole(w)) = w * m
         /\ Whole(w + 1) \in Numbers /\ Read(name, Whole(w + 1)) = w * m + m
    <2>1. w + 1 \in Nat /\ (w + 1) * m = w * m + m
      BY <1>2, <1>6
    <2> QED BY <1>2, <1>6, <1>7, <2>1, ReadWhole
  <1>11. CASE r = 0
    BY <1>2, <1>4, <1>7, <1>8, <1>9, <1>10, <1>11 DEF Means
  <1>12. CASE r # 0
    BY <1>2, <1>4, <1>7, <1>8, <1>9, <1>10, <1>12 DEF Means
  <1> QED BY <1>11, <1>12

(* A set of numbers that is not empty has a least. *)
LEMMA LeastOf ==
  ASSUME NEW S \in SUBSET Nat, S # {}
  PROVE  Min(S) \in S
  <1> DEFINE P == {n \in Nat : n \in S => \E x \in S : \A y \in S : x <= y}
             Q == {n \in Nat : \A m \in Nat : m <= n => m \in P}
  <1>1. 0 \in Q
    <2>1. \A y \in S : 0 <= y
      OBVIOUS
    <2>2. 0 \in P /\ \A m \in Nat : m <= 0 => m = 0
      BY <2>1
    <2> QED BY <2>2
  <1>2. \A n \in Nat : n \in Q => n + 1 \in Q
    <2> SUFFICES ASSUME NEW n \in Nat, n \in Q PROVE n + 1 \in P
      OBVIOUS
    <2>1. CASE \A y \in S : n + 1 <= y
      BY <2>1
    <2>2. CASE \E y \in S : y <= n
      BY <2>2
    <2> QED BY <2>1, <2>2
  <1> HIDE DEF Q
  <1>3. Nat \subseteq Q
    BY <1>1, <1>2, SetInduction
  <1>4. PICK n \in Nat : n \in S
    OBVIOUS
  <1>5. \E x \in S : \A y \in S : x <= y
    BY <1>3, <1>4 DEF Q
  <1> QED BY <1>5 DEF Min

(* What the first k digits of n stand for. *)
Upto(n, k) == (n \div Power(Places - k)) * Power(Places - k)

LEMMA DigitsAre ==
  ASSUME NEW n \in 0..Second - 1
  PROVE  /\ Upto(n, 0) = 0 /\ Upto(n, Places) = n
         /\ \A k \in 1..Places :
              /\ Digits(n)[k] \in Nat
              /\ Upto(n, k) = Upto(n, k - 1) + Digits(n)[k] * Power(Places - k)
              /\ Upto(n, k) \in Nat /\ Upto(n, k - 1) \in Nat
  <1>1. n \in Nat /\ n < Power(Places) /\ Places \in Nat /\ Base \in Nat \ {0}
    BY UnitTypes, DigitsAssumption DEF Second
  <1>2. Upto(n, 0) = 0
    <2>1. n = Power(Places) * 0 + n /\ n \in 0..Power(Places) - 1 /\ Power(Places) \in Nat \ {0}
      BY <1>1, PowerPositive
    <2>2. n \div Power(Places) = 0
      BY <1>1, <2>1, QuotientIs
    <2> QED BY <1>1, <2>1, <2>2 DEF Upto
  <1>3. Upto(n, Places) = n
    <2>1. Places - Places = 0 /\ Power(0) = 1
      BY <1>1, PowerStep
    <2>2. n \div 1 = n
      <3>1. n = 1 * n + 0 /\ 0 \in 0..1 - 1
        BY <1>1
      <3> QED BY <1>1, <3>1, QuotientIs
    <2> QED BY <1>1, <2>1, <2>2 DEF Upto
  <1>4. ASSUME NEW k \in 1..Places
        PROVE  /\ Digits(n)[k] \in Nat
               /\ Upto(n, k) = Upto(n, k - 1) + Digits(n)[k] * Power(Places - k)
               /\ Upto(n, k) \in Nat /\ Upto(n, k - 1) \in Nat
    <2>1. PICK m : m = Places - k
      OBVIOUS
    <2>2. m \in Nat /\ Places - (k - 1) = m + 1
      BY <1>1, <2>1
    <2>3. PICK p, q, h, d : p = Power(m) /\ q = n \div p /\ h = q \div Base /\ d = q % Base
      OBVIOUS
    <2>4. p \in Nat \ {0} /\ Power(m + 1) = p * Base
      BY <2>2, <2>3, PowerPositive, PowerStep
    <2>5. q \in Nat
      BY <1>1, <2>3, <2>4, Quotient
    <2>6. h \in Nat /\ d \in Nat /\ q = Base * h + d
      <3>1. d \in 0..Base - 1 /\ h \in Nat /\ q = Base * h + d
        BY <1>1, <2>3, <2>5, Quotient
      <3> QED BY <1>1, <3>1
    <2>7. n \div (p * Base) = h
      BY <1>1, <2>3, <2>4, QuotientTwice
    <2>8. Digits(n)[k] = d
      BY <2>1, <2>3 DEF Digits
    <2>9. Upto(n, k) = q * p
      BY <2>1, <2>3 DEF Upto
    <2>10. Upto(n, k - 1) = h * (p * Base)
      BY <2>2, <2>4, <2>7 DEF Upto
    <2>11. q * p = h * (p * Base) + d * p
      BY <1>1, <2>4, <2>6
    <2>12. p * Base \in Nat /\ q * p \in Nat
      BY <1>1, <2>4, <2>5, Products
    <2>13. h * (p * Base) \in Nat
      BY <2>6, <2>12, Products
    <2> QED BY <2>1, <2>3, <2>6, <2>8, <2>9, <2>10, <2>11, <2>12, <2>13
  <1> QED BY <1>2, <1>3, <1>4

(* Where the digits that follow are zeros, those before are all there is.  *)
LEMMA ZerosAdd ==
  ASSUME NEW n \in 0..Second - 1, NEW m \in 0..Places, \A i \in m + 1..Places : Digits(n)[i] = 0
  PROVE  Upto(n, m) = n
  <1> DEFINE P == {k \in Nat : m <= k /\ k <= Places => Upto(n, k) = Upto(n, m)}
  <1>0. Places \in Nat /\ m \in Nat
    BY DigitsAssumption
  <1>1. 0 \in P
    BY <1>0
  <1>2. \A k \in Nat : k \in P => k + 1 \in P
    <2> SUFFICES ASSUME NEW k \in Nat, m <= k /\ k <= Places => Upto(n, k) = Upto(n, m),
                        m <= k + 1, k + 1 <= Places
                 PROVE  Upto(n, k + 1) = Upto(n, m)
      OBVIOUS
    <2>1. CASE m = k + 1
      BY <2>1
    <2>2. CASE m <= k
      <3>1. k + 1 \in 1..Places /\ k + 1 - 1 = k /\ k + 1 \in m + 1..Places /\ Places - (k + 1) \in Nat
        BY <1>0, <2>2
      <3>2. Digits(n)[k + 1] = 0
        BY <3>1
      <3>3. Upto(n, k + 1) = Upto(n, k) + Digits(n)[k + 1] * Power(Places - (k + 1)) /\ Upto(n, k) \in Nat
        BY <3>1, DigitsAre
      <3>4. 0 * Power(Places - (k + 1)) = 0
        BY <3>1, PowerPositive
      <3>5. Upto(n, k + 1) = Upto(n, k)
        BY <3>2, <3>3, <3>4
      <3>6. Upto(n, k) = Upto(n, m)
        BY <1>0, <2>2
      <3> QED BY <3>5, <3>6
    <2> QED BY <1>0, <2>1, <2>2
  <1> HIDE DEF P
  <1>3. Nat \subseteq P
    BY <1>1, <1>2, SetInduction
  <1>4. Places \in P
    BY <1>0, <1>3
  <1>5. Upto(n, Places) = Upto(n, m)
    BY <1>0, <1>4 DEF P
  <1> QED BY <1>5, DigitsAre

(* Seconds with a fraction. *)
LEMMA DecimalSecondsMean ==
  ASSUME NEW d, d.seconds \in Nat, d.ticks \in 0..Second - 1
  PROVE  DecimalSecondsArg(d) \in Numbers /\ Means("-i", DecimalSecondsArg(d), d)
  <1> DEFINE digits == Digits(d.ticks)
             kept == {n \in 0..Places : \A i \in n + 1..Places : digits[i] = 0}
             number == DecimalSecondsArg(d)
             m == Min(kept)
  <1>1. Places \in Nat /\ Places \in kept /\ kept \in SUBSET Nat
    BY DigitsAssumption
  <1>2. m \in kept
    BY <1>1, LeastOf
  <1>3. m \in 0..Places /\ \A i \in m + 1..Places : digits[i] = 0
    BY <1>2
  <1>4. number = [whole |-> d.seconds, fraction |-> SubSeq(digits, 1, m)]
    BY DEF DecimalSecondsArg
  <1>5. digits \in Seq(Nat) /\ Len(digits) = Places
    <2>1. \A i \in 1..Places : digits[i] \in Nat
      BY DigitsAre
    <2>2. digits \in [1..Places -> Nat]
      BY <2>1 DEF Digits
    <2> QED BY <1>1, <2>2, FunctionIsSeq
  <1> HIDE DEF digits, m, kept, number
  <1>6. /\ number.fraction \in Seq(Nat) /\ Len(number.fraction) = m /\ m \in Nat /\ m <= Places
        /\ number.whole = d.seconds /\ number \in Numbers
        /\ \A i \in 1..m : number.fraction[i] = digits[i]
    <2>1. PICK s : s = SubSeq(digits, 1, m)
      OBVIOUS
    <2>2. s \in Seq(Nat) /\ Len(s) = m /\ \A i \in 1..m : s[i] = digits[i]
      BY <1>1, <1>3, <1>5, <2>1
    <2> QED BY <1>1, <1>3, <1>4, <2>1, <2>2 DEF Numbers
  <1>7. Unit("-i") = Second /\ Unit("-i") \in Nat
    BY UnitTypes DEF Unit
  <1>8. PICK g : /\ g[0] = number.whole * Unit("-i")
                 /\ \A k \in 1..Len(number.fraction) :
                      g[k] = g[k - 1] + number.fraction[k] * Power(Places - k)
                 /\ Read("-i", number) = g[Len(number.fraction)]
    BY <1>6, <1>7, ReadFold
  <1>9. PICK base : base = d.seconds * Second
    OBVIOUS
  <1>10. base \in Nat /\ g[0] = base
    BY <1>6, <1>7, <1>8, <1>9, UnitTypes, Products
  <1> DEFINE P == {k \in Nat : k <= m => g[k] = base + Upto(d.ticks, k)}
  <1>11. 0 \in P
    BY <1>10, DigitsAre
  <1>12. \A k \in Nat : k \in P => k + 1 \in P
    <2> SUFFICES ASSUME NEW k \in Nat, k <= m => g[k] = base + Upto(d.ticks, k), k + 1 <= m
                 PROVE  g[k + 1] = base + Upto(d.ticks, k + 1)
      OBVIOUS
    <2>1. k + 1 \in 1..m /\ k + 1 \in 1..Places /\ k + 1 - 1 = k /\ k <= m /\ Places - (k + 1) \in Nat
      BY <1>1, <1>6
    <2>2. PICK x : x = digits[k + 1] * Power(Places - (k + 1))
      OBVIOUS
    <2>3. x \in Nat
      <3>1. digits[k + 1] \in Nat
        BY <2>1, DigitsAre DEF digits
      <3> QED BY <2>1, <2>2, <3>1, PowerPositive, Products
    <2>4. g[k + 1] = g[k] + x
      BY <1>6, <1>8, <2>1, <2>2
    <2>5. Upto(d.ticks, k + 1) = Upto(d.ticks, k) + x /\ Upto(d.ticks, k) \in Nat
      BY <2>1, <2>2, DigitsAre DEF digits
    <2> QED BY <1>10, <2>1, <2>3, <2>4, <2>5
  <1> HIDE DEF P
  <1>13. Nat \subseteq P
    BY <1>11, <1>12, SetInduction
  <1>14. g[m] = base + Upto(d.ticks, m)
    BY <1>6, <1>13 DEF P
  <1>15. Upto(d.ticks, m) = d.ticks
    BY <1>3, ZerosAdd DEF digits
  <1>16. Read("-i", number) = d.seconds * Second + d.ticks /\ d.ticks \in Nat
    BY <1>6, <1>8, <1>9, <1>14, <1>15, UnitTypes
  <1>17. Means("-i", number, d)
    BY <1>9, <1>10, <1>16 DEF Means
  <1> QED BY <1>6, <1>17 DEF number

CallNames ==
  {"new", "program", "arg", "-t", "-i", "-O", "--connect-timeout", "logfile", "quiet", "metrics",
   "push", "allow"}

CallTypes ==
  [name : CallNames,
   value : Seq(ArgWords) \cup Durations \cup Modes \cup Pushes \cup {NoPush, "iperf3", "log"}
           \cup BOOLEAN \cup CommandTypes]

(* w is x and then y; t is s and then e. *)
Joined(w, x, y) ==
  /\ Len(w) = Len(x) + Len(y) /\ Len(x) \in Nat /\ Len(y) \in Nat
  /\ DOMAIN w = 1..Len(w) /\ DOMAIN x = 1..Len(x) /\ DOMAIN y = 1..Len(y)
  /\ \A i \in 1..Len(w) : w[i] = IF i <= Len(x) THEN x[i] ELSE y[i - Len(x)]

Longer(t, s, e) ==
  /\ Len(t) = Len(s) + 1 /\ Len(s) \in Nat
  /\ DOMAIN s = 1..Len(s) /\ t[Len(s) + 1] = e
  /\ \A i \in 1..Len(s) : t[i] = s[i]
  /\ t = [i \in 1..Len(s) + 1 |-> t[i]]

(* A concatenation of sequences of a set is one. *)
LEMMA ConcatElements ==
  ASSUME NEW S, NEW x \in Seq(S), NEW y \in Seq(S)
  PROVE  x \o y \in Seq(S) /\ Joined(x \o y, x, y)
  BY DEF Joined

(* One more element comes behind those that are there. *)
LEMMA AppendElements ==
  ASSUME NEW S, NEW s \in Seq(S), NEW e \in S
  PROVE  Longer(Append(s, e), s, e)
  <1>0. PICK t : t = Append(s, e)
    OBVIOUS
  <1>1. /\ t \in Seq(S) /\ Len(t) = Len(s) + 1 /\ Len(s) \in Nat
        /\ DOMAIN s = 1..Len(s) /\ t[Len(s) + 1] = e
        /\ \A i \in 1..Len(s) : t[i] = s[i]
    BY <1>0
  <1>2. t = [i \in 1..Len(s) + 1 |-> t[i]]
    <2>1. t = [i \in 1..Len(t) |-> t[i]]
      BY <1>1
    <2> QED BY <1>1, <2>1
  <1> QED BY <1>0, <1>1, <1>2 DEF Longer

(* The names of words, and of more words. *)
LEMMA NamesType ==
  ASSUME NEW words \in Seq(ArgWords)
  PROVE  NamesOf(words) \in Seq(Texts) /\ Len(NamesOf(words)) = Len(words)
  <1>1. /\ Len(words) \in Nat /\ DOMAIN words = 1..Len(words)
        /\ \A i \in 1..Len(words) : words[i].name \in Texts
    <2>1. \A w \in ArgWords : w.name \in Texts
      BY DEF ArgWords
    <2>2. \A i \in 1..Len(words) : words[i] \in ArgWords
      OBVIOUS
    <2> QED BY <2>1, <2>2
  <1>2. NamesOf(words) \in [1..Len(words) -> Texts]
    BY <1>1 DEF NamesOf
  <1> QED BY <1>1, <1>2, FunctionIsSeq

(* The names of two sequences of words behind each other. *)
LEMMA NamesConcat ==
  ASSUME NEW a \in Seq(ArgWords), NEW b \in Seq(ArgWords)
  PROVE  NamesOf(a \o b) = NamesOf(a) \o NamesOf(b)
  <1>1. PICK c : c = a \o b
    OBVIOUS
  <1>2. /\ c \in Seq(ArgWords) /\ Len(c) = Len(a) + Len(b) /\ Len(a) \in Nat /\ Len(b) \in Nat
        /\ DOMAIN c = 1..Len(c) /\ DOMAIN a = 1..Len(a) /\ DOMAIN b = 1..Len(b)
        /\ \A i \in 1..Len(c) : c[i] = IF i <= Len(a) THEN a[i] ELSE b[i - Len(a)]
    <2>1. c \in Seq(ArgWords) /\ Joined(c, a, b)
      BY <1>1, ConcatElements, Zenon
    <2> QED BY <2>1 DEF Joined
  <1>3. PICK x, y, z : x = NamesOf(a) /\ y = NamesOf(b) /\ z = NamesOf(c)
    OBVIOUS
  <1>4. /\ x \in Seq(Texts) /\ y \in Seq(Texts) /\ z \in Seq(Texts)
        /\ Len(x) = Len(a) /\ Len(y) = Len(b) /\ Len(z) = Len(c)
    BY <1>2, <1>3, NamesType
  <1>5. /\ \A i \in 1..Len(a) : x[i] = a[i].name
        /\ \A i \in 1..Len(b) : y[i] = b[i].name
        /\ \A i \in 1..Len(c) : z[i] = c[i].name
    BY <1>2, <1>3 DEF NamesOf
  <1>6. PICK w : w = x \o y
    OBVIOUS
  <1>7. /\ w \in Seq(Texts) /\ Len(w) = Len(x) + Len(y)
        /\ \A i \in 1..Len(w) : w[i] = IF i <= Len(x) THEN x[i] ELSE y[i - Len(x)]
    <2>1. w \in Seq(Texts) /\ Joined(w, x, y)
      BY <1>4, <1>6, ConcatElements, Zenon
    <2> QED BY <2>1 DEF Joined
  <1>8. \A i \in 1..Len(w) : w[i] = z[i]
    <2> TAKE i \in 1..Len(w)
    <2>1. i \in 1..Len(c)
      BY <1>2, <1>4, <1>7
    <2>2. CASE i <= Len(a)
      <3>1. i \in 1..Len(a)
        BY <1>2, <2>1, <2>2
      <3> QED BY <1>2, <1>4, <1>5, <1>7, <2>1, <2>2, <3>1
    <2>3. CASE ~(i <= Len(a))
      <3>1. i - Len(a) \in 1..Len(b)
        BY <1>2, <2>1, <2>3
      <3> QED BY <1>2, <1>4, <1>5, <1>7, <2>1, <2>3, <3>1
    <2> QED BY <2>2, <2>3
  <1>9. w = z
    <2>1. Len(w) = Len(z)
      BY <1>2, <1>4, <1>7
    <2> QED BY <1>4, <1>7, <1>8, <2>1
  <1> QED BY <1>1, <1>3, <1>6, <1>9

(* One more call is the last of its kind. *)
LEMMA AskedAppend ==
  ASSUME calls \in Seq(CallTypes), NEW c \in CallTypes, calls' = Append(calls, c),
         NEW name, NEW default
  PROVE  Asked(name, default)' = IF c.name = name THEN c.value ELSE Asked(name, default)
  <1> DEFINE n == Len(calls)
             at == {i \in DOMAIN calls : calls[i].name = name}
             more == {i \in DOMAIN calls' : calls'[i].name = name}
  <1>1. /\ n \in Nat /\ DOMAIN calls = 1..n /\ DOMAIN calls' = 1..n + 1
        /\ calls'[n + 1] = c /\ \A i \in 1..n : calls'[i] = calls[i]
    OBVIOUS
  <1> HIDE DEF n
  <1>2. Asked(name, default) = IF at = {} THEN default ELSE calls[Max(at)].value
    BY DEF Asked
  <1>3. Asked(name, default)' = IF more = {} THEN default ELSE calls'[Max(more)].value
    BY DEF Asked
  <1>4. CASE c.name = name
    <2>1. n + 1 \in more /\ more \in SUBSET (1..n+1)
      BY <1>1, <1>4
    <2>2. Max(more) = n + 1
      BY <1>1, <2>1, MaxOfSet
    <2> QED BY <1>1, <1>3, <1>4, <2>1, <2>2
  <1>5. CASE c.name # name
    <2>1. more = at
      BY <1>1, <1>5
    <2>2. at # {} => Max(at) \in 1..n
      <3>1. at \in SUBSET (1..n)
        BY <1>1
      <3>2. at # {} => Max(at) \in at
        BY <1>1, <3>1, MaxInSet
      <3> QED BY <3>1, <3>2
    <2> HIDE DEF at, more
    <2> QED BY <1>1, <1>2, <1>3, <1>5, <2>1, <2>2
  <1> QED BY <1>4, <1>5

(* The words of a call come behind those of the calls before. *)
LEMMA AddedAppend ==
  ASSUME calls \in Seq(CallTypes), \A i \in DOMAIN calls : Added(calls[i]) \in Seq(Texts),
         NEW c \in CallTypes, Added(c) \in Seq(Texts), calls' = Append(calls, c)
  PROVE  /\ \A n \in 0..Len(calls) : AddedBy(n)' = AddedBy(n) /\ AddedBy(n) \in Seq(Texts)
         /\ AskedNames' = AskedNames \o Added(c)
  <1>1. /\ Len(calls) \in Nat /\ Len(calls') = Len(calls) + 1 /\ DOMAIN calls = 1..Len(calls)
        /\ calls'[Len(calls) + 1] = c /\ \A i \in 1..Len(calls) : calls'[i] = calls[i]
    OBVIOUS
  <1> DEFINE Parts(n) == [i \in 1..n |-> Added(calls[i])]
             Later(n) == [i \in 1..n |-> Added(calls'[i])]
  <1>2. \A n \in Nat : AddedBy(n) = FlattenSeq(Parts(n)) /\ AddedBy(n)' = FlattenSeq(Later(n))
    BY DEF AddedBy, Added
  <1>3. \A n \in 0..Len(calls) : Parts(n) = Later(n) /\ Parts(n) \in Seq(Seq(Texts)) /\ Len(Parts(n)) = n
    <2> TAKE n \in 0..Len(calls)
    <2>1. \A i \in 1..n : i \in DOMAIN calls /\ calls'[i] = calls[i]
      BY <1>1
    <2>2. Parts(n) = Later(n)
      BY <2>1
    <2>3. Parts(n) \in [1..n -> Seq(Texts)]
      BY <2>1
    <2>4. n \in Nat
      BY <1>1
    <2> HIDE DEF Parts, Later
    <2> QED BY <2>2, <2>3, <2>4, FunctionIsSeq
  <1>4. Later(Len(calls) + 1) = Append(Parts(Len(calls)), Added(c))
    <2>1. PICK s : s = Parts(Len(calls))
      OBVIOUS
    <2>2. s \in Seq(Seq(Texts)) /\ Len(s) = Len(calls)
      BY <1>1, <1>3, <2>1
    <2>3. \A i \in 1..Len(calls) : s[i] = Added(calls[i])
      BY <2>1
    <2>4. PICK t : t = Append(s, Added(c))
      OBVIOUS
    <2>5. /\ DOMAIN t = 1..Len(calls) + 1 /\ t[Len(calls) + 1] = Added(c)
          /\ \A i \in 1..Len(calls) : t[i] = s[i]
          /\ t = [i \in 1..Len(calls) + 1 |-> t[i]]
      <3>1. Longer(t, s, Added(c))
        BY <2>2, <2>4, AppendElements, Zenon
      <3>2. Len(s) = Len(calls)
        BY <2>2
      <3>3. t[Len(s) + 1] = Added(c) /\ (\A i \in 1..Len(s) : t[i] = s[i]) /\ t = [i \in 1..Len(s) + 1 |-> t[i]]
        BY <3>1 DEF Longer
      <3>4. DOMAIN t = 1..Len(s) + 1
        BY <3>3
      <3> QED BY <3>2, <3>3, <3>4, Zenon
    <2>6. \A i \in 1..Len(calls) + 1 : t[i] = Added(calls'[i])
      <3> TAKE i \in 1..Len(calls) + 1
      <3>1. i = Len(calls) + 1 \/ i \in 1..Len(calls)
        BY <1>1
      <3> QED BY <1>1, <2>3, <2>5, <3>1
    <2>7. t = Later(Len(calls) + 1)
      BY <2>5, <2>6
    <2> QED BY <2>1, <2>4, <2>7
  <1> HIDE DEF Parts, Later
  <1>5. \A n \in 0..Len(calls) : AddedBy(n)' = AddedBy(n) /\ AddedBy(n) \in Seq(Texts)
    <2> TAKE n \in 0..Len(calls)
    <2>1. n \in Nat /\ Parts(n) = Later(n) /\ Parts(n) \in Seq(Seq(Texts)) /\ <<>> \in Seq(Texts)
      BY <1>1, <1>3
    <2>2. FlattenSeq(Parts(n)) \in Seq(Texts)
      BY <2>1, FlattenAppend
    <2> QED BY <1>2, <2>1, <2>2
  <1>6. AskedNames' = AskedNames \o Added(c)
    <2>1. Len(calls) + 1 \in Nat /\ Len(calls) \in 0..Len(calls)
      BY <1>1
    <2>2. AskedNames' = FlattenSeq(Later(Len(calls) + 1))
      <3>1. AskedNames' = AddedBy(Len(calls))'
        BY DEF AskedNames
      <3>2. AddedBy(Len(calls))' = FlattenSeq([i \in 1..Len(calls') |-> Added(calls'[i])])
        BY DEF AddedBy, Added
      <3> QED BY <1>1, <3>1, <3>2 DEF Later
    <2>3. AskedNames = FlattenSeq(Parts(Len(calls)))
      BY <1>2, <2>1 DEF AskedNames
    <2>4. Parts(Len(calls)) \in Seq(Seq(Texts))
      BY <1>3, <2>1
    <2>5. FlattenSeq(Append(Parts(Len(calls)), Added(c))) = FlattenSeq(Parts(Len(calls))) \o Added(c)
      BY <2>4, FlattenAppend
    <2> QED BY <1>4, <2>2, <2>3, <2>5
  <1> QED BY <1>5, <1>6

(* The words of a command are those of the calls, in order, and the number *)
(* of each option of time is behind it.                                    *)
WordsInv ==
  /\ calls \in Seq(CallTypes) /\ calls # <<>>
  /\ \A i \in DOMAIN calls : Added(calls[i]) \in Seq(Texts)
  /\ NamesOf(command.args) = AskedNames
  /\ TimesKept(command.args)
  /\ \A k \in DOMAIN calls : calls[k].name \in TimeOptions =>
       Len(AddedBy(k - 1)) + 2 <= Len(command.args)

(* Each field of a command is what the last call of its kind asked for.    *)
FieldsInv ==
  /\ command.program = Asked("program", "iperf3-rs")
  /\ command.metrics_mode = Asked("metrics", "disabled")
  /\ command.pushgateway = Asked("push", NoPush)
  /\ command.suppress_output = Asked("quiet", TRUE)
  /\ command.allow_unbounded_server = Asked("allow", calls[1].value.allow_unbounded_server)

(* The inductive invariant of a command and the run just started from it. *)
CommandInv == CommandTypeOK /\ WordsInv /\ FieldsInv /\ RunsAsAsked

(* The type of a command, for citation. *)
LEMMA CommandTyped ==
  ASSUME CommandTypeOK
  PROVE  command \in CommandTypes
  BY DEF CommandTypeOK

(* A call that adds words, if none then no words. *)
LEMMA WordsStep ==
  ASSUME WordsInv, command \in CommandTypes,
         NEW c \in CallTypes, calls' = Append(calls, c),
         NEW words \in Seq(ArgWords), command'.args = command.args \o words,
         Added(c) = NamesOf(words),
         c.name \in TimeOptions =>
           Len(words) = 2 /\ words[2].name = "number" /\ Means(c.name, words[2].number, c.value)
  PROVE  WordsInv'
  <1> DEFINE n == Len(calls)
             old == command.args
             new == command'.args
             Kept(k, at) == /\ at <= Len(new) /\ new[at].name = "number"
                            /\ Means(calls'[k].name, new[at].number, calls'[k].value)
  <1>1. calls \in Seq(CallTypes) /\ calls # <<>> /\ old \in Seq(ArgWords)
    BY DEF WordsInv, CommandTypes
  <1>2. /\ Longer(calls', calls, c) /\ calls' \in Seq(CallTypes) /\ calls' # <<>>
    <2>1. Longer(calls', calls, c)
      BY <1>1, AppendElements, Zenon
    <2>2. calls' \in Seq(CallTypes)
      BY <1>1, AppendProperties
    <2>3. Len(calls') # 0
      BY <2>1 DEF Longer
    <2> QED BY <2>1, <2>2, <2>3, EmptySeq
  <1>3. /\ n \in Nat /\ DOMAIN calls = 1..n /\ DOMAIN calls' = 1..n + 1 /\ calls'[n + 1] = c
        /\ \A i \in 1..n : calls'[i] = calls[i]
    BY <1>1, <1>2 DEF Longer
  <1>4. Added(c) \in Seq(Texts) /\ Len(Added(c)) = Len(words)
    BY NamesType
  <1>5. /\ \A i \in 0..n : AddedBy(i)' = AddedBy(i) /\ AddedBy(i) \in Seq(Texts)
        /\ AskedNames' = AskedNames \o Added(c)
    <2>1. \A i \in DOMAIN calls : Added(calls[i]) \in Seq(Texts)
      BY DEF WordsInv
    <2> QED BY <1>1, <1>4, <2>1, AddedAppend
  <1>6. new \in Seq(ArgWords) /\ Joined(new, old, words)
    BY <1>1, ConcatElements, Zenon
  <1>7. NamesOf(new) = NamesOf(old) \o NamesOf(words)
    BY <1>1, NamesConcat
  <1>8. Len(AddedBy(n)) = Len(old) /\ AddedBy(n) = AskedNames
    <2>1. AddedBy(n) = AskedNames
      BY DEF AskedNames
    <2> QED BY <1>1, <2>1, NamesType DEF WordsInv
  <1>9. ASSUME NEW k \in DOMAIN calls', calls'[k].name \in TimeOptions
        PROVE  Kept(k, Len(AddedBy(k - 1)') + 2)
    <2>1. k \in 1..n + 1 /\ k - 1 \in 0..n
      BY <1>3
    <2>2. PICK at : at = Len(AddedBy(k - 1)) + 2
      OBVIOUS
    <2>3. Len(AddedBy(k - 1)') + 2 = at /\ at \in Nat /\ at > 0
      <3>1. Len(AddedBy(k - 1)) \in Nat
        <4>1. AddedBy(k - 1) \in Seq(Texts)
          BY <1>5, <2>1
        <4> QED BY <4>1
      <3> QED BY <1>5, <2>1, <2>2, <3>1
    <2>4. ASSUME k \in 1..n PROVE Kept(k, at)
      <3>1. calls'[k] = calls[k] /\ k \in DOMAIN calls
        BY <1>3, <2>4
      <3>2. /\ at <= Len(old) /\ old[at].name = "number"
            /\ Means(calls[k].name, old[at].number, calls[k].value)
        BY <1>9, <2>2, <3>1 DEF WordsInv, TimesKept
      <3>3. at <= Len(new) /\ new[at] = old[at]
        BY <1>6, <2>3, <3>2 DEF Joined
      <3> QED BY <3>1, <3>2, <3>3
    <2>5. ASSUME k = n + 1 PROVE Kept(k, at)
      <3>1. calls'[k] = c /\ k - 1 = n
        BY <1>3, <2>5
      <3>2. Len(words) = 2 /\ words[2].name = "number" /\ Means(c.name, words[2].number, c.value)
        BY <1>9, <3>1
      <3>3. at = Len(old) + 2
        BY <1>8, <2>2, <3>1
      <3>4. at <= Len(new) /\ new[at] = words[2]
        BY <1>6, <3>2, <3>3 DEF Joined
      <3> QED BY <3>1, <3>2, <3>4
    <2>6. k = n + 1 \/ k \in 1..n
      BY <1>3, <2>1
    <2> HIDE DEF Kept
    <2> QED BY <2>3, <2>4, <2>5, <2>6
  <1> HIDE DEF n
  <1>10. \A i \in DOMAIN calls' : Added(calls'[i]) \in Seq(Texts)
    BY <1>3, <1>4 DEF WordsInv
  <1>11. NamesOf(new) = AskedNames'
    BY <1>5, <1>7 DEF WordsInv
  <1>12. TimesKept(command.args)'
    BY <1>9 DEF TimesKept
  <1>13. \A k \in DOMAIN calls' : calls'[k].name \in TimeOptions =>
           Len(AddedBy(k - 1)') + 2 <= Len(new)
    BY <1>9
  <1>14. \A i \in DOMAIN calls' : Added(calls[i])' \in Seq(Texts)
    BY <1>10 DEF Added
  <1> QED BY <1>2, <1>11, <1>12, <1>13, <1>14 DEF WordsInv, NamesOf

(* What one more call asks for. *)
LEMMA FieldsStep ==
  ASSUME WordsInv, NEW c \in CallTypes, calls' = Append(calls, c)
  PROVE  /\ Asked("program", "iperf3-rs")' =
              IF c.name = "program" THEN c.value ELSE Asked("program", "iperf3-rs")
         /\ Asked("metrics", "disabled")' =
              IF c.name = "metrics" THEN c.value ELSE Asked("metrics", "disabled")
         /\ Asked("push", NoPush)' = IF c.name = "push" THEN c.value ELSE Asked("push", NoPush)
         /\ Asked("quiet", TRUE)' = IF c.name = "quiet" THEN c.value ELSE Asked("quiet", TRUE)
         /\ Asked("allow", calls[1].value.allow_unbounded_server)' =
              IF c.name = "allow" THEN c.value
              ELSE Asked("allow", calls[1].value.allow_unbounded_server)
  <1>1. calls \in Seq(CallTypes) /\ calls # <<>>
    BY DEF WordsInv
  <1>2. calls'[1] = calls[1]
    BY <1>1
  <1>3. PICK a : a = calls[1].value.allow_unbounded_server
    OBVIOUS
  <1>4. Asked("allow", calls[1].value.allow_unbounded_server)' = Asked("allow", a)'
    BY <1>2, <1>3 DEF Asked
  <1>5. Asked("allow", a)' = IF c.name = "allow" THEN c.value ELSE Asked("allow", a)
    BY <1>1, AskedAppend
  <1>6. Asked("allow", a) = Asked("allow", calls[1].value.allow_unbounded_server)
    BY <1>3
  <1>7. /\ Asked("program", "iperf3-rs")' =
             IF c.name = "program" THEN c.value ELSE Asked("program", "iperf3-rs")
        /\ Asked("metrics", "disabled")' =
             IF c.name = "metrics" THEN c.value ELSE Asked("metrics", "disabled")
        /\ Asked("push", NoPush)' = IF c.name = "push" THEN c.value ELSE Asked("push", NoPush)
    BY <1>1, AskedAppend
  <1>8. Asked("quiet", TRUE)' = IF c.name = "quiet" THEN c.value ELSE Asked("quiet", TRUE)
    BY <1>1, AskedAppend
  <1> QED BY <1>4, <1>5, <1>6, <1>7, <1>8

(* Words are words. *)
LEMMA WordTypes ==
  /\ \A name \in Texts : Word(name) \in ArgWords /\ Word(name).name = name
  /\ \A text \in Numbers : /\ Number(text) \in ArgWords /\ Number(text).name = "number"
                           /\ Number(text).number = text
  <1>1. Whole(0) \in Numbers
    BY DEF Whole, Numbers
  <1>2. ASSUME NEW name \in Texts PROVE Word(name) \in ArgWords /\ Word(name).name = name
    BY <1>1 DEF Word, ArgWords
  <1>3. ASSUME NEW text \in Numbers
        PROVE  Number(text) \in ArgWords /\ Number(text).name = "number" /\ Number(text).number = text
    BY TextsAssumption DEF Number, ArgWords
  <1> QED BY <1>2, <1>3

LEMMA PairOfWords ==
  ASSUME NEW a \in ArgWords, NEW b \in ArgWords
  PROVE  /\ <<a, b>> \in Seq(ArgWords) /\ Len(<<a, b>>) = 2 /\ <<a, b>>[2] = b
         /\ NamesOf(<<a, b>>) = <<a.name, b.name>>
  <1>1. PICK w : w = <<a, b>>
    OBVIOUS
  <1>2. w \in Seq(ArgWords) /\ Len(w) = 2 /\ w[1] = a /\ w[2] = b /\ DOMAIN w = 1..2
    BY <1>1
  <1>3. NamesOf(w) = [i \in 1..2 |-> w[i].name]
    BY <1>2 DEF NamesOf
  <1>4. [i \in 1..2 |-> w[i].name] = <<w[1].name, w[2].name>>
    OBVIOUS
  <1> QED BY <1>1, <1>2, <1>3, <1>4

(* No words. *)
LEMMA NoWords ==
  /\ NamesOf(<<>>) = <<>> /\ <<>> \in Seq(ArgWords)
  /\ \A s \in Seq(ArgWords) : s \o <<>> = s
  <1>1. NamesOf(<<>>) = <<>>
    BY DEF NamesOf
  <1> QED BY <1>1, ConcatEmptySeq

(* The commands that constructors make. *)
LEMMA NewTypes ==
  ASSUME NEW c \in {New, Client, ServerOnce, ServerUnbounded}
  PROVE  /\ c \in CommandTypes /\ c.program = "iperf3-rs" /\ c.metrics_mode = "disabled"
         /\ c.pushgateway = NoPush /\ c.suppress_output = TRUE
  <1>1. <<Word("-c"), Word("host")>> \in Seq(ArgWords) /\ <<Word("-s"), Word("-1")>> \in Seq(ArgWords)
    BY WordTypes, PairOfWords, TextsAssumption
  <1>2. <<Word("-s")>> \in Seq(ArgWords) /\ <<>> \in Seq(ArgWords)
    BY WordTypes, ShortSequences, TextsAssumption
  <1>3. "disabled" \in Modes
    BY DEF Modes
  <1>4. New \in CommandTypes /\ New.program = "iperf3-rs" /\ New.metrics_mode = "disabled"
        /\ New.pushgateway = NoPush /\ New.suppress_output = TRUE
    BY <1>2, <1>3 DEF New, CommandTypes
  <1> HIDE DEF New
  <1>5. c = New \/ \E args \in Seq(ArgWords) :
          \/ c = [New EXCEPT !.args = args]
          \/ c = [New EXCEPT !.args = args, !.allow_unbounded_server = TRUE]
    BY <1>1, <1>2 DEF Client, ServerOnce, ServerUnbounded
  <1> QED BY <1>4, <1>5 DEF CommandTypes

(* A new command has what its constructor was asked for. *)
LEMMA CommandInitInv == CommandInit => CommandInv
  <1> SUFFICES ASSUME CommandInit PROVE CommandInv
    OBVIOUS
  <1> DEFINE c == [name |-> "new", value |-> command]
  <1>1. /\ command \in CommandTypes /\ command.program = "iperf3-rs"
        /\ command.metrics_mode = "disabled" /\ command.pushgateway = NoPush
        /\ command.suppress_output = TRUE
    BY NewTypes DEF CommandInit
  <1>2. calls = <<c>> /\ run = NoRun
    BY DEF CommandInit
  <1>3. c \in CallTypes /\ c.name = "new" /\ c.value = command
    BY <1>1 DEF CallTypes, CallNames
  <1> HIDE DEF c
  <1>4. calls \in Seq(CallTypes) /\ Len(calls) = 1 /\ calls[1] = c /\ DOMAIN calls = 1..1 /\ calls # <<>>
    BY <1>2, <1>3
  <1>5. Added(c) = NamesOf(command.args) /\ NamesOf(command.args) \in Seq(Texts)
    <2>1. command.args \in Seq(ArgWords)
      BY <1>1 DEF CommandTypes
    <2>2. Added(c) = NamesOf(c.value.args)
      BY <1>3 DEF Added, TimeOptions
    <2> QED BY <1>3, <2>1, <2>2, NamesType
  <1>6. AskedNames = Added(c)
    <2>1. PICK e : e = Added(c)
      OBVIOUS
    <2>2. [i \in 1..1 |-> Added(calls[i])] = <<e>>
      BY <1>4, <2>1
    <2>3. <<e>> = Append(<<>>, e) /\ <<>> \in Seq(Seq(Texts)) /\ e \in Seq(Texts)
      BY <1>5, <2>1
    <2>4. FlattenSeq(<<e>>) = <<>> \o e
      BY <2>3, FlattenAppend, FlattenEmpty
    <2>5. <<>> \o e = e
      BY <2>3, ConcatEmptySeq
    <2> QED BY <1>4, <2>1, <2>2, <2>4, <2>5 DEF AskedNames, AddedBy
  <1>7. \A i \in DOMAIN calls : calls[i].name = "new" /\ calls[i] = c
    BY <1>3, <1>4
  <1>8. WordsInv
    BY <1>4, <1>5, <1>6, <1>7 DEF WordsInv, TimesKept, TimeOptions
  <1>9. \A name, default : name # "new" => Asked(name, default) = default
    BY <1>7 DEF Asked
  <1>10. FieldsInv
    <2>1. Asked("allow", calls[1].value.allow_unbounded_server) = calls[1].value.allow_unbounded_server
      BY <1>9
    <2>2. calls[1].value = command
      BY <1>3, <1>4
    <2>3. command.suppress_output = Asked("quiet", TRUE)
      <3>1. Asked("quiet", TRUE) = TRUE
        BY <1>7 DEF Asked
      <3> QED BY <1>1, <3>1, Zenon
    <2>4. /\ command.program = Asked("program", "iperf3-rs")
          /\ command.metrics_mode = Asked("metrics", "disabled")
          /\ command.pushgateway = Asked("push", NoPush)
      BY <1>1, <1>9
    <2> QED BY <2>1, <2>2, <2>3, <2>4, Zenon DEF FieldsInv
  <1>11. run.outcome.result = "none"
    BY <1>2 DEF NoRun
  <1> QED BY <1>1, <1>8, <1>10, <1>11 DEF CommandInv, CommandTypeOK, CommandTypes, RunsAsAsked

-----------------------------------------------------------------------------
(* Helpers. *)

(* A call to a helper leaves no run. *)
LEMMA CallNoRun ==
  ASSUME NEW name, NEW value, Called(name, value)
  PROVE  /\ calls' = Append(calls, [name |-> name, value |-> value])
         /\ run'.outcome.result = "none" /\ RunsAsAsked'
  <1>1. run'.outcome.result = "none" /\ calls' = Append(calls, [name |-> name, value |-> value])
    BY DEF Called, NoRun
  <1> QED BY <1>1 DEF RunsAsAsked

(* A helper that adds words. *)
LEMMA AddingKeeps ==
  ASSUME CommandInv, NEW name \in CallNames, NEW value,
         name \notin {"program", "metrics", "push", "quiet", "allow"},
         [name |-> name, value |-> value] \in CallTypes, Called(name, value),
         NEW words \in Seq(ArgWords), Push(words), Added([name |-> name, value |-> value]) = NamesOf(words),
         name \in TimeOptions =>
           Len(words) = 2 /\ words[2].name = "number" /\ Means(name, words[2].number, value)
  PROVE  CommandInv'
  <1> DEFINE c == [name |-> name, value |-> value]
  <1>1. /\ command \in CommandTypes /\ WordsInv /\ FieldsInv
        /\ command' = [command EXCEPT !.args = command.args \o words]
        /\ calls' = Append(calls, c)
    BY CommandTyped, CallNoRun DEF CommandInv, Push
  <1>2. c \in CallTypes /\ c.name = name /\ c.value = value
    OBVIOUS
  <1> HIDE DEF c
  <1>3. command.args \o words \in Seq(ArgWords)
    BY <1>1, ConcatType DEF CommandTypes
  <1>4. /\ command' \in CommandTypes /\ command'.args = command.args \o words
        /\ command'.program = command.program /\ command'.metrics_mode = command.metrics_mode
        /\ command'.pushgateway = command.pushgateway
        /\ command'.suppress_output = command.suppress_output
        /\ command'.allow_unbounded_server = command.allow_unbounded_server
    BY <1>1, <1>3 DEF CommandTypes
  <1>5. WordsInv'
    BY <1>1, <1>2, <1>4, WordsStep DEF c
  <1>6. FieldsInv'
    BY <1>1, <1>2, <1>4, FieldsStep DEF FieldsInv
  <1>7. run'.outcome.result = "none" /\ RunsAsAsked'
    BY CallNoRun
  <1> QED BY <1>4, <1>5, <1>6, <1>7 DEF CommandInv, CommandTypeOK, CommandTypes

(* A helper that sets a field. *)
LEMMA SettingKeeps ==
  ASSUME CommandInv, NEW name \in {"program", "metrics", "push", "quiet", "allow"}, NEW value,
         [name |-> name, value |-> value] \in CallTypes, Called(name, value),
         command' \in CommandTypes, command'.args = command.args,
         command'.program = IF name = "program" THEN value ELSE command.program,
         command'.metrics_mode = IF name = "metrics" THEN value ELSE command.metrics_mode,
         command'.pushgateway = IF name = "push" THEN value ELSE command.pushgateway,
         command'.suppress_output = IF name = "quiet" THEN value ELSE command.suppress_output,
         command'.allow_unbounded_server =
           IF name = "allow" THEN value ELSE command.allow_unbounded_server
  PROVE  CommandInv'
  <1> DEFINE c == [name |-> name, value |-> value]
  <1>1. /\ command \in CommandTypes /\ WordsInv /\ FieldsInv /\ calls' = Append(calls, c)
    BY CommandTyped, CallNoRun DEF CommandInv
  <1>2. c \in CallTypes /\ c.name = name /\ c.value = value
    OBVIOUS
  <1> HIDE DEF c
  <1>3. command'.args = command.args \o <<>>
    BY <1>1, NoWords DEF CommandTypes
  <1>4. Added(c) = NamesOf(<<>>) /\ c.name \notin TimeOptions
    BY <1>2, NoWords DEF Added, TimeOptions
  <1>5. WordsInv'
    <2>1. <<>> \in Seq(ArgWords)
      BY NoWords
    <2> QED BY <1>1, <1>2, <1>3, <1>4, <2>1, WordsStep
  <1>6. FieldsInv'
    BY <1>1, <1>2, FieldsStep DEF FieldsInv
  <1>7. run'.outcome.result = "none" /\ RunsAsAsked'
    BY CallNoRun
  <1> QED BY <1>5, <1>6, <1>7 DEF CommandInv, CommandTypeOK, CommandTypes

(* program(..). *)
LEMMA ProgramKeeps == CommandInv /\ Program => CommandInv'
  <1> SUFFICES ASSUME CommandInv, Program PROVE CommandInv'
    OBVIOUS
  <1>1. command \in CommandTypes
    BY CommandTyped DEF CommandInv
  <1>2. [name |-> "program", value |-> "iperf3"] \in CallTypes
    BY DEF CallTypes, CallNames
  <1> QED BY <1>1, <1>2, SettingKeeps DEF Program, CommandTypes

(* arg(..), args(..) and the helpers that push fixed words. *)
LEMMA ArgKeeps == CommandInv /\ Arg => CommandInv'
  <1> SUFFICES ASSUME CommandInv, NEW g \in Groups, Called("arg", g), Push(g) PROVE CommandInv'
    BY DEF Arg
  <1>1. g \in Seq(ArgWords)
    BY GroupsAssumption
  <1>2. [name |-> "arg", value |-> g] \in CallTypes
    BY <1>1 DEF CallTypes, CallNames
  <1>3. Added([name |-> "arg", value |-> g]) = NamesOf(g)
    BY DEF Added, TimeOptions
  <1>4. "arg" \in CallNames /\ "arg" \notin TimeOptions
    BY DEF CallNames, TimeOptions
  <1> QED BY <1>1, <1>2, <1>3, <1>4, AddingKeeps

(* logfile(..). *)
LEMMA LogfileKeeps == CommandInv /\ Logfile => CommandInv'
  <1> SUFFICES ASSUME CommandInv, Logfile PROVE CommandInv'
    OBVIOUS
  <1> DEFINE words == <<Word("--logfile"), Word("log")>>
  <1>1. words \in Seq(ArgWords) /\ NamesOf(words) = <<"--logfile", "log">>
    BY WordTypes, PairOfWords, TextsAssumption
  <1>2. [name |-> "logfile", value |-> "log"] \in CallTypes
    BY DEF CallTypes, CallNames
  <1>3. Added([name |-> "logfile", value |-> "log"]) = NamesOf(words)
    BY <1>1 DEF Added, TimeOptions
  <1>4. "logfile" \in CallNames /\ "logfile" \notin TimeOptions
    BY DEF CallNames, TimeOptions
  <1>5. Called("logfile", "log") /\ Push(words)
    BY DEF Logfile
  <1> HIDE DEF words
  <1> QED BY <1>1, <1>2, <1>3, <1>4, <1>5, AddingKeeps

(* A helper that adds an option of time with its number. *)
LEMMA TimedKeeps ==
  ASSUME CommandInv, NEW name \in TimeOptions, NEW d \in Durations, NEW text \in Numbers,
         Means(name, text, d), Called(name, d), Push(<<Word(name), Number(text)>>)
  PROVE  CommandInv'
  <1> DEFINE words == <<Word(name), Number(text)>>
  <1>1. name \in Texts /\ name \in CallNames /\ name \notin {"program", "metrics", "push", "quiet", "allow"}
    BY TextsAssumption DEF TimeOptions, CallNames
  <1>2. /\ words \in Seq(ArgWords) /\ Len(words) = 2 /\ words[2] = Number(text)
        /\ NamesOf(words) = <<name, "number">>
    BY <1>1, WordTypes, PairOfWords
  <1>3. words[2].name = "number" /\ words[2].number = text
    BY <1>2, WordTypes
  <1>4. [name |-> name, value |-> d] \in CallTypes
    BY <1>1 DEF CallTypes
  <1>5. Added([name |-> name, value |-> d]) = NamesOf(words)
    BY <1>2 DEF Added, TimeOptions
  <1> HIDE DEF words
  <1>6. Push(words)
    BY DEF words
  <1> QED BY <1>1, <1>2, <1>3, <1>4, <1>5, <1>6, AddingKeeps

LEMMA TimesKeep ==
  CommandInv /\ (Duration \/ ReportInterval \/ ConnectTimeout \/ Omit) => CommandInv'
  <1> SUFFICES ASSUME CommandInv, Duration \/ ReportInterval \/ ConnectTimeout \/ Omit
               PROVE  CommandInv'
    OBVIOUS
  <1>1. \A d \in Durations : d.seconds \in 0..MaxSeconds /\ d.seconds \in Nat /\ d.ticks \in 0..Second - 1
    BY DurationsAssumption, DigitsAssumption
  <1>2. CASE Duration
    <2>1. PICK d \in Durations :
            Called("-t", d) /\ Push(<<Word("-t"), Number(WholeSecondsArg(d))>>)
      BY <1>2 DEF Duration, Timed
    <2>2. WholeSecondsArg(d) \in Numbers /\ Means("-t", WholeSecondsArg(d), d)
      BY <1>1, WholeSecondsMean
    <2> QED BY <2>1, <2>2, TimedKeeps DEF TimeOptions
  <1>3. CASE ReportInterval
    <2>1. PICK d \in Durations :
            Called("-i", d) /\ Push(<<Word("-i"), Number(DecimalSecondsArg(d))>>)
      BY <1>3 DEF ReportInterval, Timed
    <2>2. DecimalSecondsArg(d) \in Numbers /\ Means("-i", DecimalSecondsArg(d), d)
      BY <1>1, DecimalSecondsMean
    <2> QED BY <2>1, <2>2, TimedKeeps DEF TimeOptions
  <1>4. CASE ConnectTimeout
    <2>1. PICK d \in Durations :
            /\ Called("--connect-timeout", d)
            /\ Push(<<Word("--connect-timeout"), Number(MillisecondsArg(d))>>)
      BY <1>4 DEF ConnectTimeout, Timed
    <2>2. MillisecondsArg(d) \in Numbers /\ Means("--connect-timeout", MillisecondsArg(d), d)
      BY <1>1, MillisecondsMean
    <2> QED BY <2>1, <2>2, TimedKeeps DEF TimeOptions
  <1>5. CASE Omit
    <2>1. PICK d \in Durations :
            Called("-O", d) /\ Push(<<Word("-O"), Number(WholeSecondsArg(d))>>)
      BY <1>5 DEF Omit, Timed
    <2>2. WholeSecondsArg(d) \in Numbers /\ Means("-O", WholeSecondsArg(d), d)
      BY <1>1, WholeSecondsMean
    <2> QED BY <2>1, <2>2, TimedKeeps DEF TimeOptions
  <1> QED BY <1>2, <1>3, <1>4, <1>5

(* The helpers that set a field other than the program. *)
LEMMA SettersKeep ==
  CommandInv /\ (Quiet \/ InheritOutput \/ Metrics \/ Pushgateway \/ ClearPushgateway
                 \/ AllowUnboundedServer) => CommandInv'
  <1> SUFFICES ASSUME CommandInv, Quiet \/ InheritOutput \/ Metrics \/ Pushgateway
                                  \/ ClearPushgateway \/ AllowUnboundedServer
               PROVE  CommandInv'
    OBVIOUS
  <1>1. command \in CommandTypes
    BY CommandTyped DEF CommandInv
  <1>2. \A name \in CallNames :
          /\ \A value \in BOOLEAN : [name |-> name, value |-> value] \in CallTypes
          /\ \A value \in Modes : [name |-> name, value |-> value] \in CallTypes
          /\ \A value \in Pushes \cup {NoPush} : [name |-> name, value |-> value] \in CallTypes
    BY DEF CallTypes
  <1>3. "quiet" \in CallNames /\ "metrics" \in CallNames /\ "push" \in CallNames /\ "allow" \in CallNames
    BY DEF CallNames
  <1>4. CASE Quiet \/ InheritOutput
    <2>1. PICK quiet \in BOOLEAN :
            Called("quiet", quiet) /\ command' = [command EXCEPT !.suppress_output = quiet]
      BY <1>4 DEF Quiet, InheritOutput
    <2>2. [name |-> "quiet", value |-> quiet] \in CallTypes
      BY <1>2, <1>3
    <2> QED BY <1>1, <2>1, <2>2, SettingKeeps DEF CommandTypes
  <1>5. CASE Metrics
    <2>1. PICK m \in Modes :
            Called("metrics", m) /\ command' = [command EXCEPT !.metrics_mode = m]
      BY <1>5 DEF Metrics
    <2>2. [name |-> "metrics", value |-> m] \in CallTypes
      BY <1>2, <1>3
    <2> QED BY <1>1, <2>1, <2>2, SettingKeeps DEF CommandTypes
  <1>6. CASE Pushgateway \/ ClearPushgateway
    <2>1. PICK p \in Pushes \cup {NoPush} :
            Called("push", p) /\ command' = [command EXCEPT !.pushgateway = p]
      BY <1>6 DEF Pushgateway, ClearPushgateway
    <2>2. [name |-> "push", value |-> p] \in CallTypes
      BY <1>2, <1>3
    <2> QED BY <1>1, <2>1, <2>2, SettingKeeps DEF CommandTypes
  <1>7. CASE AllowUnboundedServer
    <2>1. PICK allow \in BOOLEAN :
            Called("allow", allow) /\ command' = [command EXCEPT !.allow_unbounded_server = allow]
      BY <1>7 DEF AllowUnboundedServer
    <2>2. [name |-> "allow", value |-> allow] \in CallTypes
      BY <1>2, <1>3
    <2> QED BY <1>1, <2>1, <2>2, SettingKeeps DEF CommandTypes
  <1> QED BY <1>4, <1>5, <1>6, <1>7

(* What is behind the first of a sequence. *)
LEMMA BehindFirst ==
  ASSUME NEW S, NEW s \in Seq(S), NEW x
  PROVE  Head(<<x>> \o s) = x /\ Tail(<<x>> \o s) = s
  <1> DEFINE T == S \cup {x}
  <1>1. s \in Seq(T) /\ <<x>> \in Seq(T) /\ Len(<<x>>) = 1
    <2>1. \A i \in 1..Len(s) : s[i] \in T
      OBVIOUS
    <2>2. s \in [1..Len(s) -> T] /\ Len(s) \in Nat
      BY <2>1
    <2> QED BY <2>2, FunctionIsSeq
  <1>2. PICK t : t = <<x>> \o s
    OBVIOUS
  <1>3. /\ t \in Seq(T) /\ Len(t) = 1 + Len(s) /\ Len(s) \in Nat
        /\ t[1] = x /\ \A i \in 1..Len(s) : t[i + 1] = s[i]
    <2>1. t \in Seq(T) /\ Joined(t, <<x>>, s)
      BY <1>1, <1>2, ConcatElements, Zenon
    <2> QED BY <1>1, <2>1 DEF Joined
  <1> HIDE DEF T
  <1>4. Head(t) = x
    BY <1>3
  <1>5. PICK u : u = Tail(t)
    OBVIOUS
  <1>6. u \in Seq(T) /\ Len(u) = Len(s) /\ \A i \in 1..Len(s) : u[i] = t[i + 1]
    BY <1>3, <1>5
  <1>7. u = s
    BY <1>1, <1>3, <1>6
  <1> QED BY <1>2, <1>4, <1>5, <1>7

(* Nothing more is asked where no call is made. *)
LEMMA AskedSame ==
  ASSUME calls' = calls
  PROVE  /\ AskedNames' = AskedNames
         /\ \A name, default : Asked(name, default)' = Asked(name, default)
         /\ \A words : TimesKept(words)' = TimesKept(words)
         /\ \A n : AddedBy(n)' = AddedBy(n)
  BY DEF AskedNames, AddedBy, Added, Asked, TimesKept

(* What was asked for is not changed by a run from a clone. *)
LEMMA SameWords ==
  ASSUME WordsInv, FieldsInv, UNCHANGED <<command, calls>>
  PROVE  WordsInv' /\ FieldsInv'
  <1>1. WordsInv'
    BY AskedSame DEF WordsInv, Added
  <1>2. Asked("allow", calls[1].value.allow_unbounded_server)'
          = Asked("allow", calls[1].value.allow_unbounded_server)
    BY DEF Asked
  <1> QED BY <1>1, <1>2, AskedSame DEF FieldsInv

(* What a run did is not changed by a step that changes nothing. *)
LEMMA RunSame ==
  ASSUME RunsAsAsked, UNCHANGED <<command, calls>>, run' = run
  PROVE  RunsAsAsked'
  <1>1. AskedMetrics' = AskedMetrics /\ AskedPush' = AskedPush
    BY AskedSame DEF AskedMetrics, AskedPush
  <1>2. Asked("allow", calls[1].value.allow_unbounded_server)'
          = Asked("allow", calls[1].value.allow_unbounded_server)
    BY DEF Asked
  <1>3. Asked("program", "iperf3-rs")' = Asked("program", "iperf3-rs") /\ AskedNames' = AskedNames
    BY AskedSame
  <1>4. TimesKept(Tail(run.outcome.argv))' <=> TimesKept(Tail(run.outcome.argv))
    BY AskedSame
  <1>5. OutputAsAsked(AskedNames, run.outcome.output)' <=> OutputAsAsked(AskedNames, run.outcome.output)
    BY DEF OutputAsAsked, Asked, AskedNames, AddedBy, Added
  <1>6. ReporterAsAsked(run.outcome.reporter)' <=> ReporterAsAsked(run.outcome.reporter)
    BY <1>1 DEF ReporterAsAsked
  <1>7. WordsAsked(AskedNames)' <=> WordsAsked(AskedNames)
    BY <1>2, <1>3 DEF WordsAsked
  <1>8. ModesAsked' <=> ModesAsked
    BY <1>1 DEF ModesAsked
  <1> QED BY <1>1, <1>3, <1>4, <1>5, <1>6, <1>7, <1>8 DEF RunsAsAsked

(* What set-up makes of a command. *)
LEMMA SetupIs ==
  ASSUME NEW c \in CommandTypes, NEW o, o = SetupRun(c)
  PROVE  /\ o.result \in {"invalid", "arguments", "unbounded", "gateway", "started"}
         /\ o.result = "started" <=>
              ValidModes(c) /\ Parses(NamesOf(c.args)) /\ ~UnboundedServer(c) /\ ~GatewayRefused(c)
         /\ o.result = "started" =>
              o.argv = Argv(c) /\ o.output = Output(c) /\ o.reporter = Reporter(c)
  <1>1. CASE ~ValidModes(c)
    <2>1. o = [result |-> "invalid"]
      BY <1>1 DEF SetupRun
    <2> QED BY <1>1, <2>1
  <1>2. CASE ValidModes(c) /\ ~Parses(NamesOf(c.args))
    <2>1. o = [result |-> "arguments"]
      BY <1>2 DEF SetupRun
    <2> QED BY <1>2, <2>1
  <1>3. CASE ValidModes(c) /\ Parses(NamesOf(c.args)) /\ UnboundedServer(c)
    <2>1. o = [result |-> "unbounded"]
      BY <1>3 DEF SetupRun
    <2> QED BY <1>3, <2>1
  <1>4. CASE ValidModes(c) /\ Parses(NamesOf(c.args)) /\ ~UnboundedServer(c) /\ GatewayRefused(c)
    <2>1. o = [result |-> "gateway"]
      BY <1>4 DEF SetupRun
    <2> QED BY <1>4, <2>1
  <1>5. CASE ValidModes(c) /\ Parses(NamesOf(c.args)) /\ ~UnboundedServer(c) /\ ~GatewayRefused(c)
    <2>1. o = [result |-> "started", argv |-> Argv(c), output |-> Output(c), reporter |-> Reporter(c)]
      BY <1>5 DEF SetupRun
    <2> QED BY <1>5, <2>1
  <1> QED BY <1>1, <1>2, <1>3, <1>4, <1>5

(* The reporter is the one of the modes, with the gateway asked for. *)
LEMMA ReporterIs ==
  ASSUME NEW c \in CommandTypes, ValidPushgatewayRequest(c), NEW r, r = Reporter(c)
  PROVE  /\ r.to = "stream" <=> c.metrics_mode # "disabled"
         /\ r.to = "gateway" <=> c.pushgateway # NoPush
         /\ r.queue = "Latest" <=> c.pushgateway.mode = "interval"
         /\ r.events = IF c.pushgateway = NoPush THEN c.metrics_mode ELSE c.pushgateway.mode
         /\ r.config = c.pushgateway.config
  <1>0. NoPush.mode = "none" /\ NoPush.config = "none"
    BY DEF NoPush
  <1>1. CASE c.metrics_mode # "disabled"
    <2>1. r = [to |-> "stream", queue |-> "All", events |-> c.metrics_mode, config |-> "none"]
      BY <1>1 DEF Reporter
    <2>2. c.pushgateway = NoPush
      BY <1>1 DEF ValidPushgatewayRequest
    <2> QED BY <1>0, <1>1, <2>1, <2>2
  <1>2. CASE c.metrics_mode = "disabled" /\ c.pushgateway # NoPush
    <2>1. r = [to |-> "gateway",
               queue |-> IF c.pushgateway.mode = "interval" THEN "Latest" ELSE "All",
               events |-> c.pushgateway.mode, config |-> c.pushgateway.config]
      BY <1>2 DEF Reporter, GatewayConfig
    <2> QED BY <1>2, <2>1
  <1>3. CASE c.metrics_mode = "disabled" /\ c.pushgateway = NoPush
    <2>1. r = [to |-> "none", queue |-> "none", events |-> "disabled", config |-> "none"]
      BY <1>3 DEF Reporter
    <2> QED BY <1>0, <1>3, <2>1
  <1> QED BY <1>1, <1>2, <1>3

(* A run from a command that is c but for what the run asks for itself.    *)
LEMMA RunKeeps ==
  ASSUME CommandInv, UNCHANGED <<command, calls>>, NEW c \in CommandTypes,
         NEW m \in (Modes \cup {"none"}) \ {"disabled"}, NEW p \in Pushes \cup {NoPush},
         NEW o \in Outcomes(c), run' = [outcome |-> o, metrics |-> m, push |-> p],
         c.args = command.args, c.program = command.program,
         c.suppress_output = command.suppress_output,
         c.allow_unbounded_server = command.allow_unbounded_server,
         c.metrics_mode = IF m # "none" THEN m ELSE command.metrics_mode,
         c.pushgateway = IF p # NoPush THEN p ELSE command.pushgateway
  PROVE  CommandInv'
  <1>1. o = SetupRun(c) \/ (o.result = "system" /\ ValidModes(c))
    BY DEF Outcomes
  <1>2. run'.outcome = o /\ run'.metrics = m /\ run'.push = p
    OBVIOUS
  <1>3. PICK names : names = NamesOf(c.args)
    OBVIOUS
  <1>4. /\ AskedNames' = names /\ WordsInv' /\ FieldsInv' /\ TimesKept(c.args)'
        /\ command \in CommandTypes /\ command' = command /\ calls' = calls
    <2>1. command \in CommandTypes /\ WordsInv /\ FieldsInv
      BY CommandTyped DEF CommandInv
    <2>2. AskedNames' = names /\ TimesKept(c.args)'
      BY <1>3, <2>1, AskedSame DEF WordsInv
    <2>3. WordsInv' /\ FieldsInv'
      BY <2>1, SameWords
    <2> QED BY <2>1, <2>2, <2>3
  <1>5. AskedMetrics' = c.metrics_mode /\ AskedPush' = c.pushgateway
    BY <1>2, <1>4 DEF AskedMetrics, AskedPush, FieldsInv
  <1>6. /\ Asked("program", "iperf3-rs")' = c.program
        /\ Asked("quiet", TRUE)' = c.suppress_output
        /\ Asked("allow", calls[1].value.allow_unbounded_server)' = c.allow_unbounded_server
    BY <1>4 DEF FieldsInv
  <1>7. c.metrics_mode \in Modes /\ c.pushgateway \in Pushes \cup {NoPush}
    BY DEF CommandTypes
  <1>8. /\ ValidModes(c) <=> ModesAsked'
        /\ o = SetupRun(c) =>
             (o.result = "started" <=>
                ModesAsked' /\ WordsAsked(names)' /\ (AskedPush').config \notin Refused)
    <2>1. ValidModes(c) <=> ModesAsked'
      <3>1. ValidMode(c.metrics_mode) <=> AskedMetrics' # "bad window"
        BY <1>5 DEF ValidMode
      <3>2. c.pushgateway # NoPush => c.pushgateway.mode \in Modes
        BY <1>7 DEF Pushes
      <3>3. ValidPushgatewayRequest(c) <=>
              (AskedPush' # NoPush =>
                 AskedMetrics' = "disabled" /\ (AskedPush').mode \in {"interval", "window"})
        BY <1>5, <3>2 DEF ValidPushgatewayRequest, ValidMode, Modes
      <3>4. run'.metrics # "disabled"
        BY <1>2
      <3> QED BY <3>1, <3>3, <3>4 DEF ValidModes, ModesAsked
    <2>2. Parses(names) /\ ~UnboundedServer(c) <=> WordsAsked(names)'
      BY <1>3, <1>6, Zenon DEF UnboundedServer, WordsAsked
    <2>3. ValidModes(c) => (~GatewayRefused(c) <=> (AskedPush').config \notin Refused)
      <3>1. NoPush.config \notin Refused
        BY ConfigsAssumption DEF NoPush
      <3> QED BY <1>5, <3>1 DEF GatewayRefused, ValidModes, ValidPushgatewayRequest
    <2>4. o = SetupRun(c) =>
            (o.result = "started" <=>
               ValidModes(c) /\ Parses(names) /\ ~UnboundedServer(c) /\ ~GatewayRefused(c))
      BY <1>3, SetupIs
    <2> HIDE DEF ModesAsked, WordsAsked
    <2> QED BY <2>1, <2>2, <2>3, <2>4
  <1>9. ASSUME o.result = "started"
        PROVE  /\ Head(o.argv).name = Asked("program", "iperf3-rs")'
               /\ NamesOf(Tail(o.argv)) = AskedNames'
               /\ TimesKept(Tail(o.argv))'
               /\ OutputAsAsked(names, o.output)'
               /\ ReporterAsAsked(o.reporter)'
    <2>1. /\ ValidPushgatewayRequest(c)
          /\ o.argv = Argv(c) /\ o.output = Output(c) /\ o.reporter = Reporter(c)
      BY <1>1, <1>9, SetupIs DEF ValidModes
    <2>2. Head(o.argv) = Word(c.program) /\ Tail(o.argv) = c.args
      BY <2>1, BehindFirst DEF Argv, CommandTypes
    <2>3. Head(o.argv).name = Asked("program", "iperf3-rs")'
      BY <1>6, <2>2 DEF Word
    <2>4. NamesOf(Tail(o.argv)) = AskedNames' /\ TimesKept(Tail(o.argv))'
      BY <1>3, <1>4, <2>2
    <2>5. OutputAsAsked(names, o.output)'
      <3>1. o.output = IF c.suppress_output /\ ~(Spelled(names) # {}) THEN "null" ELSE LogfileOf(names)
        BY <1>3, <2>1, Zenon DEF Output, ShouldSuppressOutput, HasLogfileArg
      <3>2. Spelled(names) \cap Options(names) # {} => Spelled(names) # {}
        OBVIOUS
      <3> QED BY <1>6, <3>1, <3>2 DEF OutputAsAsked
    <2>6. ReporterAsAsked(o.reporter)'
      BY <1>5, <2>1, ReporterIs DEF ReporterAsAsked
    <2> QED BY <2>3, <2>4, <2>5, <2>6
  <1>10. RunsAsAsked'
    <2>1. o.result = "system" => ModesAsked'
      <3>1. o = SetupRun(c) => o.result # "system"
        BY SetupIs
      <3> QED BY <1>1, <1>8, <3>1
    <2>2. o.result # "system" =>
            (o.result = "started" <=>
               ModesAsked' /\ WordsAsked(names)' /\ (AskedPush').config \notin Refused)
      BY <1>1, <1>8
    <2> HIDE DEF ModesAsked, WordsAsked
    <2> QED BY <1>2, <1>4, <1>9, <2>1, <2>2 DEF RunsAsAsked
  <1>11. CommandTypeOK'
    BY <1>1, <1>2, <1>4, SetupIs DEF CommandInv, CommandTypeOK
  <1> QED BY <1>4, <1>10, <1>11 DEF CommandInv

LEMMA RunsKeep ==
  CommandInv /\ (RunOrSpawn \/ RunWithPushgateway \/ SpawnWithMetrics) => CommandInv'
  <1> SUFFICES ASSUME CommandInv, RunOrSpawn \/ RunWithPushgateway \/ SpawnWithMetrics
               PROVE  CommandInv'
    OBVIOUS
  <1>1. command \in CommandTypes
    BY CommandTyped DEF CommandInv
  <1>2. CASE RunOrSpawn
    <2>1. UNCHANGED <<command, calls>>
      BY <1>2 DEF RunOrSpawn
    <2>2. PICK o \in Outcomes(command) : run' = [outcome |-> o, metrics |-> "none", push |-> NoPush]
      BY <1>2 DEF RunOrSpawn, Start
    <2> QED BY <1>1, <2>1, <2>2, RunKeeps
  <1>3. CASE RunWithPushgateway
    <2>1. PICK p \in Pushes :
            \E o \in Outcomes([command EXCEPT !.pushgateway = p]) :
              run' = [outcome |-> o, metrics |-> "none", push |-> p]
      BY <1>3 DEF RunWithPushgateway, Start
    <2>2. UNCHANGED <<command, calls>>
      BY <1>3 DEF RunWithPushgateway
    <2>3. PICK c : c = [command EXCEPT !.pushgateway = p]
      OBVIOUS
    <2>4. /\ c \in CommandTypes /\ c.args = command.args /\ c.program = command.program
          /\ c.suppress_output = command.suppress_output
          /\ c.allow_unbounded_server = command.allow_unbounded_server
          /\ c.metrics_mode = command.metrics_mode /\ c.pushgateway = p
      BY <1>1, <2>3 DEF CommandTypes
    <2>6. p # NoPush
      <3>1. p.mode \in Modes /\ NoPush.mode = "none" /\ "none" \notin Modes
        BY DEF Pushes, NoPush, Modes
      <3> QED BY <3>1
    <2>5. PICK o \in Outcomes(c) : run' = [outcome |-> o, metrics |-> "none", push |-> p]
      BY <2>1, <2>3
    <2> QED BY <2>2, <2>4, <2>5, <2>6, RunKeeps
  <1>4. CASE SpawnWithMetrics
    <2>1. PICK m \in Modes :
            IF m = "disabled"
            THEN run' = [outcome |-> [result |-> "invalid"], metrics |-> m, push |-> NoPush]
            ELSE \E o \in Outcomes([command EXCEPT !.metrics_mode = m]) :
                   run' = [outcome |-> o, metrics |-> m, push |-> NoPush]
      BY <1>4 DEF SpawnWithMetrics, Start
    <2>2. UNCHANGED <<command, calls>>
      BY <1>4 DEF SpawnWithMetrics
    <2>3. CASE m # "disabled"
      <3>1. PICK c : c = [command EXCEPT !.metrics_mode = m]
        OBVIOUS
      <3>3. PICK o \in Outcomes(c) : run' = [outcome |-> o, metrics |-> m, push |-> NoPush]
        BY <2>1, <2>3, <3>1
      <3>2. /\ c \in CommandTypes /\ c.args = command.args /\ c.program = command.program
            /\ c.suppress_output = command.suppress_output
            /\ c.allow_unbounded_server = command.allow_unbounded_server
            /\ c.metrics_mode = m /\ c.pushgateway = command.pushgateway /\ m # "none"
        BY <1>1, <3>1 DEF CommandTypes, Modes
      <3> QED BY <2>2, <2>3, <3>2, <3>3, RunKeeps
    <2>4. CASE m = "disabled"
      <3>1. run'.outcome.result = "invalid" /\ run'.metrics = "disabled"
        BY <2>1, <2>4
      <3>2. RunsAsAsked'
        BY <3>1 DEF RunsAsAsked, ModesAsked
      <3>3. WordsInv' /\ FieldsInv'
        BY <2>2, SameWords DEF CommandInv
      <3> QED BY <2>2, <3>1, <3>2, <3>3 DEF CommandInv, CommandTypeOK
    <2> QED BY <2>3, <2>4
  <1> QED BY <1>2, <1>3, <1>4

(* CommandInv holds after any sequence of calls and runs: the inductive    *)
(* strengthening that RunsAsAsked follows from.                            *)
THEOREM CommandInvariance == CommandSpec => []CommandInv
  <1>1. CommandInv /\ [CommandNext]_commandVars => CommandInv'
    <2> SUFFICES ASSUME CommandInv, [CommandNext]_commandVars PROVE CommandInv'
      OBVIOUS
    <2>1. CASE UNCHANGED commandVars
      <3>1. UNCHANGED <<command, calls>> /\ run' = run
        BY <2>1 DEF commandVars
      <3>2. WordsInv' /\ FieldsInv'
        BY <3>1, SameWords DEF CommandInv
      <3>3. RunsAsAsked'
        BY <3>1, RunSame DEF CommandInv
      <3> QED BY <3>1, <3>2, <3>3 DEF CommandInv, CommandTypeOK
    <2> QED BY <2>1, ProgramKeeps, ArgKeeps, LogfileKeeps, TimesKeep, SettersKeep, RunsKeep DEF CommandNext
  <1> QED BY <1>1, CommandInitInv, PTL DEF CommandSpec

(* Commands keep their types, and set-up its kinds of result.              *)
THEOREM CommandsTyped == CommandSpec => []CommandTypeOK
  <1>1. CommandInv => CommandTypeOK
    BY DEF CommandInv
  <1> QED BY CommandInvariance, <1>1, PTL

(* Whatever helpers are called on a command, in whatever order, and        *)
(* whatever runs were started before, a run does what the calls and its    *)
(* own request ask for, or fails for a cause in them (command.rs:86-455,   *)
(* 660-697, 734-811).                                                      *)
THEOREM RunsObey == CommandSpec => []RunsAsAsked
  <1>1. CommandInv => RunsAsAsked
    BY DEF CommandInv
  <1> QED BY CommandInvariance, <1>1, PTL
=============================================================================
