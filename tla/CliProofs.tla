------------------------------ MODULE CliProofs ------------------------------
(***************************************************************************)
(* Proofs about the command line tool: CliRuntime for any number of        *)
(* signals and deliveries, Pidfile for any number of processes and inodes, *)
(* Arguments for command lines of any length.                              *)
(***************************************************************************)
EXTENDS CliRuntime, Pidfile, Arguments, SequenceLemmas, FiniteSetTheorems

(* CliRuntime. *)

Counted == {d \in Deliveries : hpc[d] \in InHandler}

Types ==
  /\ before \in [Signals -> {"default", "ignored"}]
  /\ disp \in [Signals -> {"app", "cli"}]
  /\ pc \in InRun \cup {"start", "install", "pidfile", "finish", "restore",
                        "drain", "close", "unlink", "ended", "killed"}
  /\ failed \in BOOLEAN /\ pidfile \in BOOLEAN /\ installed \in 0..NSignals
  /\ pipe \in {"none", "open", "closed"}
  /\ ready \in BOOLEAN /\ writefd \in BOOLEAN
  /\ signal \in Signals \cup {0}
  /\ hpc \in [Deliveries -> InHandler \cup {"none", "entered", "returned"}]
  /\ hsig \in [Deliveries -> Signals \cup {0}]
  /\ hfd \in [Deliveries -> BOOLEAN]

(* cli_handlers counts the handlers between its two accesses, which know   *)
(* their signal. *)
CountInv ==
  /\ handlers = Cardinality(Counted)
  /\ \A d \in Deliveries : hpc[d] # "none" => hsig[d] \in Signals

(* The handlers that are installed are those of the first signals: all of  *)
(* them during the run, none once cleanup has restored them.  A pidfile of *)
(* ours is there only from the run on, and until cleanup removes it.       *)
DispInv ==
  /\ pc # "killed" => \A s \in Signals : disp[s] = "cli" <=> s <= installed
  /\ pc = "start" => installed = 0
  /\ pc \in InRun \cup {"pidfile", "finish"} => installed = NSignals
  /\ pc \in {"drain", "close", "unlink", "ended"} => installed = 0
  /\ pidfile => pc \notin {"start", "install", "pidfile", "ended"}
  /\ pc = "killed" /\ pidfile => killedAt \in {"restore", "drain", "close", "unlink"}

(* The descriptor of the pipe is published only while the pipe is open;    *)
(* when it was withdrawn and the handlers drained, none holds it.          *)
PipeInv ==
  /\ writefd => pipe = "open" /\ pc \notin {"drain", "close", "unlink", "ended"}
  /\ \A d \in Deliveries : hpc[d] = "loaded" /\ hfd[d] =>
       pipe = "open" /\ pc \notin {"close", "unlink", "ended"}
  /\ pc = "start" => pipe = "none"
  /\ pc \in {"unlink", "ended"} => pipe # "open"

IInv == Types /\ CountInv /\ DispInv /\ PipeInv

-----------------------------------------------------------------------------
(* One handler enters or leaves the counted region. *)
LEMMA CountedFinite == IsFiniteSet(Counted) /\ Cardinality(Counted) \in Nat
  BY NSignalsAssumption, FS_Subset, FS_CardinalityType DEF Counted

LEMMA InitInv == Init => IInv
  <1> SUFFICES ASSUME Init PROVE IInv
    OBVIOUS
  <1> USE NSignalsAssumption DEF Init, InRun, InHandler, Signals
  <1>1. Types
    <2>1. disp \in [Signals -> {"app", "cli"}] /\ installed \in 0..NSignals
      OBVIOUS
    <2>2. /\ hpc \in [Deliveries -> InHandler \cup {"none", "entered", "returned"}]
          /\ hsig \in [Deliveries -> Signals \cup {0}]
          /\ hfd \in [Deliveries -> BOOLEAN]
      OBVIOUS
    <2> QED BY <2>1, <2>2 DEF Types
  <1>2. Counted = {}
    BY DEF Counted
  <1>3. CountInv
    BY <1>2, FS_EmptySet DEF CountInv
  <1>4. DispInv
    BY DEF DispInv
  <1>5. PipeInv
    BY DEF PipeInv
  <1> QED BY <1>1, <1>3, <1>4, <1>5 DEF IInv

(* Types, one step per action. *)
LEMMA TypeStep == IInv /\ [Next]_vars => Types'
  <1> SUFFICES ASSUME IInv, [Next]_vars PROVE Types'
    OBVIOUS
  <1> USE NSignalsAssumption DEF IInv, Types, InRun, InHandler, Signals, Goto, Running, shared, mainVars, handlerVars, CountInv
  <1>1. CASE OpenPipe
    BY <1>1 DEF OpenPipe
  <1>2. CASE PrepareFails
    BY <1>2 DEF PrepareFails
  <1>3. CASE Install
    BY <1>3 DEF Install
  <1>4. CASE CreatePidfile
    BY <1>4 DEF CreatePidfile
  <1>5. CASE CheckSignal
    BY <1>5 DEF CheckSignal
  <1>6. CASE PipeWakesSelect
    BY <1>6 DEF PipeWakesSelect
  <1>7. CASE SelectReturns
    BY <1>7 DEF SelectReturns
  <1>8. CASE RecheckSignal
    BY <1>8 DEF RecheckSignal
  <1>9. CASE RunEnds
    BY <1>9 DEF RunEnds
  <1>10. CASE Finish
    BY <1>10 DEF Finish
  <1>11. CASE Restore
    BY <1>11 DEF Restore
  <1>12. CASE RetireWriteFd
    BY <1>12 DEF RetireWriteFd
  <1>13. CASE Drain
    BY <1>13 DEF Drain
  <1>14. CASE ClosePipe
    BY <1>14 DEF ClosePipe
  <1>15. CASE RemovePidfile
    BY <1>15 DEF RemovePidfile
  <1>16. ASSUME NEW s \in Signals, KilledBy(s) PROVE Types'
    BY <1>16 DEF KilledBy
  <1>17. ASSUME NEW d \in Deliveries, NEW s \in Signals, Enter(d, s) PROVE Types'
    BY <1>17 DEF Enter
  <1>18. ASSUME NEW d \in Deliveries, CountUp(d) PROVE Types'
    BY <1>18 DEF CountUp, HGoto
  <1>19. ASSUME NEW d \in Deliveries, StoreSignal(d) PROVE Types'
    BY <1>19 DEF StoreSignal, HGoto
  <1>20. ASSUME NEW d \in Deliveries, LoadWriteFd(d) PROVE Types'
    BY <1>20 DEF LoadWriteFd, HGoto
  <1>21. ASSUME NEW d \in Deliveries, WriteByte(d) PROVE Types'
    BY <1>21 DEF WriteByte, HGoto
  <1>22. ASSUME NEW d \in Deliveries, CountDown(d) PROVE Types'
    BY <1>22 DEF CountDown, HGoto
  <1>23. CASE UNCHANGED vars
    BY <1>23 DEF vars
  <1> QED
    BY <1>1, <1>2, <1>3, <1>4, <1>5, <1>6, <1>7, <1>8, <1>9, <1>10, <1>11, <1>12,
       <1>13, <1>14, <1>15, <1>16, <1>17, <1>18, <1>19, <1>20, <1>21, <1>22, <1>23 DEF Next, Main, Handler

(* The counter, one step per action. *)
LEMMA CountStep == IInv /\ [Next]_vars => CountInv'
  <1> SUFFICES ASSUME IInv, [Next]_vars PROVE CountInv'
    OBVIOUS
  <1> USE NSignalsAssumption DEF IInv, Types, InRun, InHandler, Signals, Goto, Running, shared, mainVars, handlerVars, CountInv
  <1>1. CASE OpenPipe
    BY <1>1 DEF OpenPipe, Counted
  <1>2. CASE PrepareFails
    BY <1>2 DEF PrepareFails, Counted
  <1>3. CASE Install
    BY <1>3 DEF Install, Counted
  <1>4. CASE CreatePidfile
    BY <1>4 DEF CreatePidfile, Counted
  <1>5. CASE CheckSignal
    BY <1>5 DEF CheckSignal, Counted
  <1>6. CASE PipeWakesSelect
    BY <1>6 DEF PipeWakesSelect, Counted
  <1>7. CASE SelectReturns
    BY <1>7 DEF SelectReturns, Counted
  <1>8. CASE RecheckSignal
    BY <1>8 DEF RecheckSignal, Counted
  <1>9. CASE RunEnds
    BY <1>9 DEF RunEnds, Counted
  <1>10. CASE Finish
    BY <1>10 DEF Finish, Counted
  <1>11. CASE Restore
    BY <1>11 DEF Restore, Counted
  <1>12. CASE RetireWriteFd
    BY <1>12 DEF RetireWriteFd, Counted
  <1>13. CASE Drain
    BY <1>13 DEF Drain, Counted
  <1>14. CASE ClosePipe
    BY <1>14 DEF ClosePipe, Counted
  <1>15. CASE RemovePidfile
    BY <1>15 DEF RemovePidfile, Counted
  <1>16. ASSUME NEW s \in Signals, KilledBy(s) PROVE CountInv'
    BY <1>16 DEF KilledBy, Counted
  <1>17. ASSUME NEW d \in Deliveries, NEW s \in Signals, Enter(d, s) PROVE CountInv'
    <2>1. Counted' = Counted
      BY <1>17 DEF Enter, Counted
    <2> QED BY <1>17, <2>1 DEF Enter
  <1>18. ASSUME NEW d \in Deliveries, CountUp(d) PROVE CountInv'
    <2>1. Counted' = Counted \cup {d} /\ d \notin Counted
      BY <1>18 DEF CountUp, HGoto, Counted
    <2>2. Cardinality(Counted') = Cardinality(Counted) + 1
      BY <2>1, CountedFinite, FS_AddElement
    <2> QED BY <1>18, <2>2 DEF CountUp, HGoto
  <1>19. ASSUME NEW d \in Deliveries, StoreSignal(d) PROVE CountInv'
    <2>1. Counted' = Counted
      BY <1>19 DEF StoreSignal, HGoto, Counted
    <2> QED BY <1>19, <2>1 DEF StoreSignal, HGoto
  <1>20. ASSUME NEW d \in Deliveries, LoadWriteFd(d) PROVE CountInv'
    <2>1. Counted' = Counted
      BY <1>20 DEF LoadWriteFd, HGoto, Counted
    <2> QED BY <1>20, <2>1 DEF LoadWriteFd, HGoto
  <1>21. ASSUME NEW d \in Deliveries, WriteByte(d) PROVE CountInv'
    <2>1. Counted' = Counted
      BY <1>21 DEF WriteByte, HGoto, Counted
    <2> QED BY <1>21, <2>1 DEF WriteByte, HGoto
  <1>22. ASSUME NEW d \in Deliveries, CountDown(d) PROVE CountInv'
    <2>1. Counted' = Counted \ {d} /\ d \in Counted
      BY <1>22 DEF CountDown, HGoto, Counted
    <2>2. Cardinality(Counted') = Cardinality(Counted) - 1
      BY <2>1, CountedFinite, FS_RemoveElement
    <2> QED BY <1>22, <2>2 DEF CountDown, HGoto
  <1>23. CASE UNCHANGED vars
    BY <1>23 DEF vars, Counted
  <1> QED
    BY <1>1, <1>2, <1>3, <1>4, <1>5, <1>6, <1>7, <1>8, <1>9, <1>10, <1>11, <1>12,
       <1>13, <1>14, <1>15, <1>16, <1>17, <1>18, <1>19, <1>20, <1>21, <1>22, <1>23 DEF Next, Main, Handler

(* Dispositions and the pidfile, one step per action. *)
LEMMA DispStep == IInv /\ [Next]_vars => DispInv'
  <1> SUFFICES ASSUME IInv, [Next]_vars PROVE DispInv'
    OBVIOUS
  <1> USE NSignalsAssumption DEF IInv, Types, InRun, InHandler, Signals, Goto, Running, shared, mainVars, handlerVars, DispInv
  <1>1. CASE OpenPipe
    BY <1>1 DEF OpenPipe
  <1>2. CASE PrepareFails
    BY <1>2 DEF PrepareFails
  <1>3. CASE Install
    BY <1>3 DEF Install
  <1>4. CASE CreatePidfile
    BY <1>4 DEF CreatePidfile
  <1>5. CASE CheckSignal
    BY <1>5 DEF CheckSignal
  <1>6. CASE PipeWakesSelect
    BY <1>6 DEF PipeWakesSelect
  <1>7. CASE SelectReturns
    BY <1>7 DEF SelectReturns
  <1>8. CASE RecheckSignal
    BY <1>8 DEF RecheckSignal
  <1>9. CASE RunEnds
    BY <1>9 DEF RunEnds
  <1>10. CASE Finish
    BY <1>10 DEF Finish
  <1>11. CASE Restore
    BY <1>11 DEF Restore
  <1>12. CASE RetireWriteFd
    BY <1>12 DEF RetireWriteFd
  <1>13. CASE Drain
    BY <1>13 DEF Drain
  <1>14. CASE ClosePipe
    BY <1>14 DEF ClosePipe
  <1>15. CASE RemovePidfile
    BY <1>15 DEF RemovePidfile
  <1>16. ASSUME NEW s \in Signals, KilledBy(s) PROVE DispInv'
    BY <1>16 DEF KilledBy
  <1>17. ASSUME NEW d \in Deliveries, NEW s \in Signals, Enter(d, s) PROVE DispInv'
    BY <1>17 DEF Enter
  <1>18. ASSUME NEW d \in Deliveries, CountUp(d) PROVE DispInv'
    BY <1>18 DEF CountUp, HGoto
  <1>19. ASSUME NEW d \in Deliveries, StoreSignal(d) PROVE DispInv'
    BY <1>19 DEF StoreSignal, HGoto
  <1>20. ASSUME NEW d \in Deliveries, LoadWriteFd(d) PROVE DispInv'
    BY <1>20 DEF LoadWriteFd, HGoto
  <1>21. ASSUME NEW d \in Deliveries, WriteByte(d) PROVE DispInv'
    BY <1>21 DEF WriteByte, HGoto
  <1>22. ASSUME NEW d \in Deliveries, CountDown(d) PROVE DispInv'
    BY <1>22 DEF CountDown, HGoto
  <1>23. CASE UNCHANGED vars
    BY <1>23 DEF vars
  <1> QED
    BY <1>1, <1>2, <1>3, <1>4, <1>5, <1>6, <1>7, <1>8, <1>9, <1>10, <1>11, <1>12,
       <1>13, <1>14, <1>15, <1>16, <1>17, <1>18, <1>19, <1>20, <1>21, <1>22, <1>23 DEF Next, Main, Handler

(* The pipe, one step per action. *)
LEMMA PipeStep == IInv /\ [Next]_vars => PipeInv'
  <1> SUFFICES ASSUME IInv, [Next]_vars PROVE PipeInv'
    OBVIOUS
  <1> USE NSignalsAssumption DEF IInv, Types, InRun, InHandler, Signals, Goto, Running, shared, mainVars, handlerVars, PipeInv
  <1>1. CASE OpenPipe
    BY <1>1 DEF OpenPipe
  <1>2. CASE PrepareFails
    BY <1>2 DEF PrepareFails
  <1>3. CASE Install
    BY <1>3 DEF Install
  <1>4. CASE CreatePidfile
    BY <1>4 DEF CreatePidfile
  <1>5. CASE CheckSignal
    BY <1>5 DEF CheckSignal
  <1>6. CASE PipeWakesSelect
    BY <1>6 DEF PipeWakesSelect
  <1>7. CASE SelectReturns
    BY <1>7 DEF SelectReturns
  <1>8. CASE RecheckSignal
    BY <1>8 DEF RecheckSignal
  <1>9. CASE RunEnds
    BY <1>9 DEF RunEnds
  <1>10. CASE Finish
    BY <1>10 DEF Finish
  <1>11. CASE Restore
    BY <1>11 DEF Restore
  <1>12. CASE RetireWriteFd
    BY <1>12 DEF RetireWriteFd
  <1>13. CASE Drain
    <2>1. Counted = {}
      BY <1>13, CountedFinite, FS_EmptySet DEF Drain, CountInv
    <2>2. \A d \in Deliveries : ~(hpc[d] = "loaded")
      BY <2>1 DEF Counted
    <2> QED BY <1>13, <2>2 DEF Drain
  <1>14. CASE ClosePipe
    BY <1>14 DEF ClosePipe
  <1>15. CASE RemovePidfile
    BY <1>15 DEF RemovePidfile
  <1>16. ASSUME NEW s \in Signals, KilledBy(s) PROVE PipeInv'
    BY <1>16 DEF KilledBy
  <1>17. ASSUME NEW d \in Deliveries, NEW s \in Signals, Enter(d, s) PROVE PipeInv'
    BY <1>17 DEF Enter
  <1>18. ASSUME NEW d \in Deliveries, CountUp(d) PROVE PipeInv'
    BY <1>18 DEF CountUp, HGoto
  <1>19. ASSUME NEW d \in Deliveries, StoreSignal(d) PROVE PipeInv'
    BY <1>19 DEF StoreSignal, HGoto
  <1>20. ASSUME NEW d \in Deliveries, LoadWriteFd(d) PROVE PipeInv'
    BY <1>20 DEF LoadWriteFd, HGoto
  <1>21. ASSUME NEW d \in Deliveries, WriteByte(d) PROVE PipeInv'
    BY <1>21 DEF WriteByte, HGoto
  <1>22. ASSUME NEW d \in Deliveries, CountDown(d) PROVE PipeInv'
    BY <1>22 DEF CountDown, HGoto
  <1>23. CASE UNCHANGED vars
    BY <1>23 DEF vars
  <1> QED
    BY <1>1, <1>2, <1>3, <1>4, <1>5, <1>6, <1>7, <1>8, <1>9, <1>10, <1>11, <1>12,
       <1>13, <1>14, <1>15, <1>16, <1>17, <1>18, <1>19, <1>20, <1>21, <1>22, <1>23 DEF Next, Main, Handler

(* IInv holds in every state of the tool, whatever signals arrive. *)
THEOREM Invariance == Spec => []IInv
  <1>1. IInv /\ [Next]_vars => IInv'
    BY TypeStep, CountStep, DispStep, PipeStep DEF IInv
  <1> QED BY InitInv, <1>1, PTL DEF Spec

(* Types, and the counter counts the handlers between its two accesses     *)
(* (iperf3rs_cli.c:149-160).                                               *)
THEOREM TypeCorrect == Spec => []TypeOK
  <1>1. IInv => TypeOK
    BY DEF IInv, Types, CountInv, Counted, TypeOK
  <1> QED BY Invariance, <1>1, PTL

(* No handler writes to a descriptor after cleanup closed it               *)
(* (iperf3rs_cli.c:194-201).                                               *)
THEOREM WritesAreSafe == Spec => []NoStrayWrite
  <1>1. IInv => NoStrayWrite
    BY DEF IInv, PipeInv, NoStrayWrite
  <1> QED BY Invariance, <1>1, PTL

(* No signal kills the process while a pidfile of it exists, before        *)
(* cleanup (iperf3rs_cli.c:238-249, 189-193).                              *)
THEOREM RunIsSpared == Spec => []SignalsSpareRun
  <1>1. IInv => SignalsSpareRun
    BY DEF IInv, DispInv, SignalsSpareRun
  <1> QED BY Invariance, <1>1, PTL

(* Cleanup undoes a prepare that came any distance                         *)
(* (iperf3rs_cli.c:186-217, 250-256).                                      *)
THEOREM CleanupUndoes == Spec => []CleanupComplete
  <1>1. IInv => CleanupComplete
    BY NSignalsAssumption DEF IInv, Types, DispInv, PipeInv, CleanupComplete, Signals
  <1> QED BY Invariance, <1>1, PTL

-----------------------------------------------------------------------------
(* Pidfile. *)

(* Past its second open a process has the file, until it ends. *)
Owning == {"truncate", "write", "running", "lstat", "unlink"}

(* A process that opened a file knows its inode, and owns it once it may   *)
(* write to it; a probed pid stays dead.                                   *)
LocalInv ==
  \A p \in Procs :
    /\ phase[p] = "open" => target[p] = None
    /\ phase[p] \in {"read", "probe"} => seen[p] \in Inodes
    /\ phase[p] = "probe" => target[p] # None
    /\ phase[p] = "reopen" => ~Alive(target[p])
    /\ phase[p] \in Owning => identity[p] \in Inodes
    /\ phase[p] \in Owning \ {"truncate"} => owned[p]
    /\ result[p] \in {"Ran", "Failed"} => phase[p] \in {"lstat", "unlink", "gone"}

(* A pid is only in the file that its process opened for writing, and at   *)
(* the path only until the process removes it or finds another file there; *)
(* a killed one leaves it.                                                 *)
PidInv ==
  \A p \in Procs :
    /\ \A i \in Inodes : data[i] = p =>
         identity[p] = i /\ phase[p] \in {"running", "lstat", "unlink", "gone"}
    /\ path # None /\ data[path] = p => phase[p] # "gone" \/ result[p] = "Killed"

(* Unless the file was contested, whoever has it is alone, it is at the    *)
(* path and holds what its owner wrote.                                    *)
OwnerInv ==
  ~contested =>
    /\ \A p \in Procs : phase[p] \in Owning => path = identity[p]
    /\ \A p, q \in Procs : phase[p] \in Owning /\ phase[q] \in Owning => p = q
    /\ \A p \in Procs : phase[p] = "write" => data[path] = Garbage
    /\ \A p \in Procs : phase[p] = "running" => data[path] = p

PidfileInv == PidfileTypeOK /\ LocalInv /\ PidInv /\ OwnerInv

-----------------------------------------------------------------------------
LEMMA PidfileInitInv == PidfileInit => PidfileInv
  <1> SUFFICES ASSUME PidfileInit PROVE PidfileInv
    OBVIOUS
  <1> USE DistinctAssumption DEF PidfileInit, Owning
  <1>1. PidfileTypeOK
    BY DEF PidfileTypeOK
  <1>2. LocalInv
    BY DEF LocalInv
  <1>3. PidInv
    BY DEF PidInv
  <1>4. OwnerInv
    BY DEF OwnerInv
  <1> QED BY <1>1, <1>2, <1>3, <1>4 DEF PidfileInv

(* Types, one step per action. *)
LEMMA PidfileTypeStep == PidfileInv /\ [PidfileNext]_pidfileVars => PidfileTypeOK'
  <1> SUFFICES ASSUME PidfileInv, [PidfileNext]_pidfileVars PROVE PidfileTypeOK'
    OBVIOUS
  <1> USE DistinctAssumption DEF PidfileInv, PidfileTypeOK, LocalInv, Owning, Advance, fs, local, OpenInodes, Alive
  <1>1. ASSUME NEW p \in Procs, OpenToRead(p) PROVE PidfileTypeOK'
    BY <1>1 DEF OpenToRead
  <1>2. ASSUME NEW p \in Procs, ReadPid(p) PROVE PidfileTypeOK'
    BY <1>2 DEF ReadPid
  <1>3. ASSUME NEW p \in Procs, RefuseGarbage(p) PROVE PidfileTypeOK'
    BY <1>3 DEF RefuseGarbage, Refuse
  <1>4. ASSUME NEW p \in Procs, ProbeStale(p) PROVE PidfileTypeOK'
    BY <1>4 DEF ProbeStale
  <1>5. ASSUME NEW p \in Procs, RefuseAlive(p) PROVE PidfileTypeOK'
    BY <1>5 DEF RefuseAlive, Refuse
  <1>6. ASSUME NEW p \in Procs, Create(p) PROVE PidfileTypeOK'
    BY <1>6 DEF Create
  <1>7. ASSUME NEW p \in Procs, Reopen(p) PROVE PidfileTypeOK'
    BY <1>7 DEF Reopen
  <1>8. ASSUME NEW p \in Procs, RefuseChanged(p) PROVE PidfileTypeOK'
    BY <1>8 DEF RefuseChanged, Refuse
  <1>9. ASSUME NEW p \in Procs, Truncate(p) PROVE PidfileTypeOK'
    BY <1>9 DEF Truncate
  <1>10. ASSUME NEW p \in Procs, WritePid(p) PROVE PidfileTypeOK'
    BY <1>10 DEF WritePid
  <1>11. ASSUME NEW p \in Procs, WriteFails(p) PROVE PidfileTypeOK'
    BY <1>11 DEF WriteFails
  <1>12. ASSUME NEW p \in Procs, EndRun(p) PROVE PidfileTypeOK'
    BY <1>12 DEF EndRun
  <1>13. ASSUME NEW p \in Procs, Lstat(p) PROVE PidfileTypeOK'
    BY <1>13 DEF Lstat
  <1>14. ASSUME NEW p \in Procs, Unlink(p) PROVE PidfileTypeOK'
    BY <1>14 DEF Unlink
  <1>15. ASSUME NEW p \in Procs, Kill(p) PROVE PidfileTypeOK'
    BY <1>15 DEF Kill
  <1>16. CASE UNCHANGED pidfileVars
    BY <1>16 DEF pidfileVars
  <1> QED
    BY <1>1, <1>2, <1>3, <1>4, <1>5, <1>6, <1>7, <1>8, <1>9, <1>10, <1>11, <1>12,
       <1>13, <1>14, <1>15, <1>16 DEF PidfileNext, Step

(* What a process knows, one step per action. *)
LEMMA LocalStep == PidfileInv /\ [PidfileNext]_pidfileVars => LocalInv'
  <1> SUFFICES ASSUME PidfileInv, [PidfileNext]_pidfileVars PROVE LocalInv'
    OBVIOUS
  <1> USE DistinctAssumption DEF PidfileInv, PidfileTypeOK, LocalInv, Owning, Advance, fs, local, Alive
  <1>1. ASSUME NEW p \in Procs, OpenToRead(p) PROVE LocalInv'
    BY <1>1 DEF OpenToRead
  <1>2. ASSUME NEW p \in Procs, ReadPid(p) PROVE LocalInv'
    BY <1>2 DEF ReadPid
  <1>3. ASSUME NEW p \in Procs, RefuseGarbage(p) PROVE LocalInv'
    BY <1>3 DEF RefuseGarbage, Refuse
  <1>4. ASSUME NEW p \in Procs, ProbeStale(p) PROVE LocalInv'
    BY <1>4 DEF ProbeStale
  <1>5. ASSUME NEW p \in Procs, RefuseAlive(p) PROVE LocalInv'
    BY <1>5 DEF RefuseAlive, Refuse
  <1>6. ASSUME NEW p \in Procs, Create(p) PROVE LocalInv'
    BY <1>6 DEF Create
  <1>7. ASSUME NEW p \in Procs, Reopen(p) PROVE LocalInv'
    BY <1>7 DEF Reopen
  <1>8. ASSUME NEW p \in Procs, RefuseChanged(p) PROVE LocalInv'
    BY <1>8 DEF RefuseChanged, Refuse
  <1>9. ASSUME NEW p \in Procs, Truncate(p) PROVE LocalInv'
    BY <1>9 DEF Truncate
  <1>10. ASSUME NEW p \in Procs, WritePid(p) PROVE LocalInv'
    BY <1>10 DEF WritePid
  <1>11. ASSUME NEW p \in Procs, WriteFails(p) PROVE LocalInv'
    BY <1>11 DEF WriteFails
  <1>12. ASSUME NEW p \in Procs, EndRun(p) PROVE LocalInv'
    BY <1>12 DEF EndRun
  <1>13. ASSUME NEW p \in Procs, Lstat(p) PROVE LocalInv'
    BY <1>13 DEF Lstat
  <1>14. ASSUME NEW p \in Procs, Unlink(p) PROVE LocalInv'
    BY <1>14 DEF Unlink
  <1>15. ASSUME NEW p \in Procs, Kill(p) PROVE LocalInv'
    BY <1>15 DEF Kill
  <1>16. CASE UNCHANGED pidfileVars
    BY <1>16 DEF pidfileVars
  <1> QED
    BY <1>1, <1>2, <1>3, <1>4, <1>5, <1>6, <1>7, <1>8, <1>9, <1>10, <1>11, <1>12,
       <1>13, <1>14, <1>15, <1>16 DEF PidfileNext, Step

(* Where pids are, one step per action. *)
LEMMA PidStep == PidfileInv /\ [PidfileNext]_pidfileVars => PidInv'
  <1> SUFFICES ASSUME PidfileInv, [PidfileNext]_pidfileVars PROVE PidInv'
    OBVIOUS
  <1> USE DistinctAssumption DEF PidfileInv, PidfileTypeOK, LocalInv, PidInv, Owning, Advance, fs, local
  <1>1. ASSUME NEW p \in Procs, OpenToRead(p) PROVE PidInv'
    BY <1>1 DEF OpenToRead
  <1>2. ASSUME NEW p \in Procs, ReadPid(p) PROVE PidInv'
    BY <1>2 DEF ReadPid
  <1>3. ASSUME NEW p \in Procs, RefuseGarbage(p) PROVE PidInv'
    BY <1>3 DEF RefuseGarbage, Refuse
  <1>4. ASSUME NEW p \in Procs, ProbeStale(p) PROVE PidInv'
    BY <1>4 DEF ProbeStale
  <1>5. ASSUME NEW p \in Procs, RefuseAlive(p) PROVE PidInv'
    BY <1>5 DEF RefuseAlive, Refuse
  <1>6. ASSUME NEW p \in Procs, Create(p) PROVE PidInv'
    BY <1>6 DEF Create
  <1>7. ASSUME NEW p \in Procs, Reopen(p) PROVE PidInv'
    BY <1>7 DEF Reopen
  <1>8. ASSUME NEW p \in Procs, RefuseChanged(p) PROVE PidInv'
    BY <1>8 DEF RefuseChanged, Refuse
  <1>9. ASSUME NEW p \in Procs, Truncate(p) PROVE PidInv'
    BY <1>9 DEF Truncate
  <1>10. ASSUME NEW p \in Procs, WritePid(p) PROVE PidInv'
    BY <1>10 DEF WritePid
  <1>11. ASSUME NEW p \in Procs, WriteFails(p) PROVE PidInv'
    BY <1>11 DEF WriteFails
  <1>12. ASSUME NEW p \in Procs, EndRun(p) PROVE PidInv'
    BY <1>12 DEF EndRun
  <1>13. ASSUME NEW p \in Procs, Lstat(p) PROVE PidInv'
    BY <1>13 DEF Lstat
  <1>14. ASSUME NEW p \in Procs, Unlink(p) PROVE PidInv'
    BY <1>14 DEF Unlink
  <1>15. ASSUME NEW p \in Procs, Kill(p) PROVE PidInv'
    BY <1>15 DEF Kill
  <1>16. CASE UNCHANGED pidfileVars
    BY <1>16 DEF pidfileVars
  <1> QED
    BY <1>1, <1>2, <1>3, <1>4, <1>5, <1>6, <1>7, <1>8, <1>9, <1>10, <1>11, <1>12,
       <1>13, <1>14, <1>15, <1>16 DEF PidfileNext, Step

(* Who has the file, one step per action. *)
LEMMA OwnerStep == PidfileInv /\ [PidfileNext]_pidfileVars => OwnerInv'
  <1> SUFFICES ASSUME PidfileInv, [PidfileNext]_pidfileVars PROVE OwnerInv'
    OBVIOUS
  <1> USE DistinctAssumption DEF PidfileInv, PidfileTypeOK, LocalInv, OwnerInv, Owning, Advance, fs, local, Alive
  <1>1. ASSUME NEW p \in Procs, OpenToRead(p) PROVE OwnerInv'
    BY <1>1 DEF OpenToRead
  <1>2. ASSUME NEW p \in Procs, ReadPid(p) PROVE OwnerInv'
    BY <1>2 DEF ReadPid
  <1>3. ASSUME NEW p \in Procs, RefuseGarbage(p) PROVE OwnerInv'
    BY <1>3 DEF RefuseGarbage, Refuse
  <1>4. ASSUME NEW p \in Procs, ProbeStale(p) PROVE OwnerInv'
    BY <1>4 DEF ProbeStale
  <1>5. ASSUME NEW p \in Procs, RefuseAlive(p) PROVE OwnerInv'
    BY <1>5 DEF RefuseAlive, Refuse
  <1>6. ASSUME NEW p \in Procs, Create(p) PROVE OwnerInv'
    BY <1>6 DEF Create
  <1>7. ASSUME NEW p \in Procs, Reopen(p) PROVE OwnerInv'
    <2> SUFFICES ASSUME ~contested' PROVE OwnerInv'
      BY DEF OwnerInv
    <2>1. ASSUME NEW q \in Procs, phase[q] \in Owning PROVE FALSE
      <3>1. identity[q] = seen[p] /\ Alive(q) /\ q # p
        BY <1>7, <2>1 DEF Reopen
      <3>2. q # target[p]
        BY <1>7, <3>1 DEF Reopen
      <3> QED BY <1>7, <3>1, <3>2 DEF Reopen
    <2> QED BY <1>7, <2>1 DEF Reopen
  <1>8. ASSUME NEW p \in Procs, RefuseChanged(p) PROVE OwnerInv'
    BY <1>8 DEF RefuseChanged, Refuse
  <1>9. ASSUME NEW p \in Procs, Truncate(p) PROVE OwnerInv'
    BY <1>9 DEF Truncate
  <1>10. ASSUME NEW p \in Procs, WritePid(p) PROVE OwnerInv'
    BY <1>10 DEF WritePid
  <1>11. ASSUME NEW p \in Procs, WriteFails(p) PROVE OwnerInv'
    BY <1>11 DEF WriteFails
  <1>12. ASSUME NEW p \in Procs, EndRun(p) PROVE OwnerInv'
    BY <1>12 DEF EndRun
  <1>13. ASSUME NEW p \in Procs, Lstat(p) PROVE OwnerInv'
    BY <1>13 DEF Lstat
  <1>14. ASSUME NEW p \in Procs, Unlink(p) PROVE OwnerInv'
    BY <1>14 DEF Unlink
  <1>15. ASSUME NEW p \in Procs, Kill(p) PROVE OwnerInv'
    BY <1>15 DEF Kill
  <1>16. CASE UNCHANGED pidfileVars
    BY <1>16 DEF pidfileVars
  <1> QED
    BY <1>1, <1>2, <1>3, <1>4, <1>5, <1>6, <1>7, <1>8, <1>9, <1>10, <1>11, <1>12,
       <1>13, <1>14, <1>15, <1>16 DEF PidfileNext, Step

(* IInv holds in every state of any set of processes. *)
THEOREM PidfileInvariance == PidfileSpec => []PidfileInv
  <1>1. PidfileInv /\ [PidfileNext]_pidfileVars => PidfileInv'
    BY PidfileTypeStep, LocalStep, PidStep, OwnerStep DEF PidfileInv
  <1> QED BY PidfileInitInv, <1>1, PTL DEF PidfileSpec

(* A process that ended by itself has not left its pid at the path, even   *)
(* when the file was contested (iperf3rs_cli.c:202-208).                   *)
THEOREM EndIsClean == PidfileSpec => []EndLeavesNoPid
  <1>1. PidfileInv => EndLeavesNoPid
    BY DEF PidfileInv, PidfileTypeOK, PidInv, EndLeavesNoPid
  <1> QED BY PidfileInvariance, <1>1, PTL

(* Unless the file was contested, a running process is the one that the    *)
(* pidfile names (iperf3rs_cli.c:36-100).                                  *)
THEOREM RunningOwnsFile == PidfileSpec => []RunningIsListed
  <1>1. PidfileInv => RunningIsListed
    BY DEF PidfileInv, OwnerInv, Owning, RunningIsListed
  <1> QED BY PidfileInvariance, <1>1, PTL

(* A file that names a live process, or nobody yet, is changed and removed *)
(* by its owner only, unless it was contested (iperf3rs_cli.c:72-89).      *)
THEOREM UncertainIsKept == PidfileSpec => UncertainKept
  <1> DEFINE Kept ==
        path # None /\ ~contested' /\ (data[path] = Garbage \/ Alive(data[path])) =>
          \/ path' = path /\ data'[path] = data[path]
          \/ \E p \in Procs : owned[p] /\ identity[p] = path /\ phase'[p] # phase[p]
  <1>1. PidfileInv /\ [PidfileNext]_pidfileVars => [Kept]_pidfileVars
    <2> SUFFICES ASSUME PidfileInv, [PidfileNext]_pidfileVars, path # None, ~contested',
                        data[path] = Garbage \/ Alive(data[path])
                 PROVE  \/ path' = path /\ data'[path] = data[path]
                        \/ \E p \in Procs : owned[p] /\ identity[p] = path /\ phase'[p] # phase[p]
      OBVIOUS
    <2> USE DistinctAssumption DEF PidfileInv, PidfileTypeOK, LocalInv, Owning, Advance, fs, local
    <2>1. ASSUME NEW p \in Procs, Truncate(p)
          PROVE  path' = path /\ data'[path] = data[path]
      <3>1. path = identity[p]
        BY <2>1 DEF Truncate, OwnerInv
      <3>2. ~Alive(data[path])
        BY <2>1, <3>1 DEF Truncate, OwnerInv, PidInv, Alive
      <3> QED BY <2>1, <3>1, <3>2 DEF Truncate
    <2>2. ASSUME NEW p \in Procs, WritePid(p) \/ Unlink(p)
          PROVE  owned[p] /\ identity[p] = path /\ phase'[p] # phase[p]
      BY <2>2 DEF WritePid, Unlink, OwnerInv
    <2>3. ASSUME NEW p \in Procs, Create(p) PROVE FALSE
      BY <2>3 DEF Create
    <2>4. ASSUME NEW p \in Procs,
                 \/ OpenToRead(p) \/ ReadPid(p) \/ RefuseGarbage(p) \/ ProbeStale(p)
                 \/ RefuseAlive(p) \/ Reopen(p) \/ RefuseChanged(p) \/ WriteFails(p)
                 \/ EndRun(p) \/ Lstat(p) \/ Kill(p)
          PROVE  path' = path /\ data'[path] = data[path]
      BY <2>4 DEF OpenToRead, ReadPid, RefuseGarbage, ProbeStale, RefuseAlive, Reopen,
                  RefuseChanged, WriteFails, EndRun, Lstat, Kill, Refuse
    <2>5. CASE UNCHANGED pidfileVars
      BY <2>5 DEF pidfileVars
    <2> QED BY <2>1, <2>2, <2>3, <2>4, <2>5 DEF PidfileNext, Step
  <1> QED BY PidfileInvariance, <1>1, PTL DEF PidfileSpec, UncertainKept

-----------------------------------------------------------------------------
(* Arguments: the two passes over the words. *)

(* The command line is a sequence of words. *)
LEMMA ArgsType ==
  ASSUME args \in Commands
  PROVE  /\ args \in Seq(Words) /\ Len(args) \in Nat /\ DOMAIN args = 1..Len(args)
         /\ \A i \in DOMAIN args : args[i] \in Words
         /\ \A i \in DOMAIN args : args[i].kind = "wrapper" => args[i].key \in Keys
  <1>1. args \in Seq(Words) /\ \A i \in DOMAIN args : args[i].kind = "wrapper" => args[i].key \in Keys
    BY CommandsAssumption
  <1> QED BY <1>1

(* An option ends within the command line. *)
LEMMA WidthType ==
  ASSUME args \in Commands, NEW i \in DOMAIN args
  PROVE  /\ i \in 1..Len(args) /\ Len(args) \in Nat
         /\ WrapperSpan(i) \in 1..2 /\ Boundary(i) \in 0..2 /\ Width(i) \in 0..2
         /\ i + Width(i) <= Len(args) + 1 /\ i + WrapperSpan(i) <= Len(args) + 1
         /\ i + Boundary(i) <= Len(args) + 1
         /\ ~Ends(i) => Width(i) \in 1..2
         /\ Ends(i) => args[i].kind # "wrapper"
  <1>1. i \in 1..Len(args) /\ Len(args) \in Nat
    BY ArgsType
  <1>2. WrapperSpan(i) \in 1..2 /\ i + WrapperSpan(i) <= Len(args) + 1
    BY <1>1 DEF WrapperSpan
  <1>3. Boundary(i) \in 0..2 /\ i + Boundary(i) <= Len(args) + 1
    BY <1>1 DEF Boundary
  <1> QED BY <1>1, <1>2, <1>3 DEF Width, Ends

(* Whether position i starts an option, given the earlier ones; what the   *)
(* recursive function in Starts is on the first n positions.               *)
Leads(f, i) == i = 1 \/ \E j \in 1..i - 1 : f[j] /\ ~Ends(j) /\ j + Width(j) = i
StartsUpTo(f, n) == f \in [1..n -> BOOLEAN] /\ \A i \in 1..n : f[i] = Leads(f, i)

(* There is such a function: the recursion in Starts is a definition. *)
LEMMA StartsExist ==
  ASSUME NEW n \in Nat
  PROVE  \E f : StartsUpTo(f, n)
  <1> DEFINE P == {m \in Nat : \E f : StartsUpTo(f, m)}
  <1>1. 0 \in P
    <2>1. StartsUpTo([i \in 1..0 |-> TRUE], 0)
      BY DEF StartsUpTo
    <2> QED BY <2>1
  <1>2. ASSUME NEW m \in Nat, m \in P PROVE m + 1 \in P
    <2>1. PICK f : StartsUpTo(f, m)
      BY <1>2
    <2> DEFINE g == [i \in 1..m+1 |-> IF i = m + 1 THEN Leads(f, m + 1) ELSE f[i]]
    <2>2. \A i \in 1..m : g[i] = f[i]
      OBVIOUS
    <2>3. Leads(f, m + 1) \in BOOLEAN
      BY DEF Leads
    <2>4. g \in [1..m+1 -> BOOLEAN] /\ g[m + 1] = Leads(f, m + 1)
      BY <2>1, <2>3 DEF StartsUpTo
    <2> HIDE DEF g
    <2>5. \A i \in 1..m+1 : Leads(g, i) = Leads(f, i)
      <3> TAKE i \in 1..m+1
      <3>1. \A j \in 1..i-1 : g[j] = f[j]
        BY <2>2
      <3>2. Leads(g, i) <=> Leads(f, i)
        BY <3>1 DEF Leads
      <3> QED BY <3>2, Zenon DEF Leads
    <2>6. \A i \in 1..m+1 : g[i] = Leads(g, i)
      <3> TAKE i \in 1..m+1
      <3>1. CASE i = m + 1
        BY <2>4, <2>5, <3>1, Zenon
      <3>2. CASE i \in 1..m
        <4>1. g[i] = f[i] /\ f[i] = Leads(f, i) /\ Leads(g, i) = Leads(f, i)
          BY <2>1, <2>2, <2>5, <3>2 DEF StartsUpTo
        <4> QED BY <4>1, Zenon
      <3>3. i = m + 1 \/ i \in 1..m
        OBVIOUS
      <3> QED BY <3>1, <3>2, <3>3
    <2>7. StartsUpTo(g, m + 1)
      BY <2>4, <2>6 DEF StartsUpTo
    <2> QED BY <2>7
  <1> HIDE DEF P
  <1>3. Nat \subseteq P
    BY <1>1, <1>2, SetInduction
  <1> QED BY <1>3 DEF P

(* The positions where an option starts: the first, and behind each option. *)
LEMMA StartsLead ==
  ASSUME args \in Commands
  PROVE  /\ Starts \subseteq DOMAIN args
         /\ \A i \in DOMAIN args : i \in Starts <=>
              (i = 1 \/ \E j \in Starts : j < i /\ ~Ends(j) /\ j + Width(j) = i)
  <1> DEFINE n == Len(args)
             Body(f) == [i \in 1..n |->
                           i = 1 \/ \E j \in 1..i - 1 : f[j] /\ ~Ends(j) /\ j + Width(j) = i]
             s == CHOOSE f : f = Body(f)
  <1>1. Starts = {i \in DOMAIN args : s[i]}
    BY Zenon DEF Starts
  <1>2. DOMAIN args = 1..n /\ n \in Nat
    BY ArgsType
  <1>3. PICK f : StartsUpTo(f, n)
    BY <1>2, StartsExist
  <1>4. f = Body(f)
    BY <1>3, Zenon DEF StartsUpTo, Leads
  <1>5. s = Body(s)
    BY <1>4, Zenon
  <1> HIDE DEF s
  <1>6. \A i \in 1..n : s[i] <=> i = 1 \/ \E j \in 1..i - 1 : s[j] /\ ~Ends(j) /\ j + Width(j) = i
    BY <1>5, Zenon
  <1> HIDE DEF n
  <1>7. ASSUME NEW i \in 1..n
        PROVE  (\E j \in 1..i - 1 : s[j] /\ ~Ends(j) /\ j + Width(j) = i) <=>
               (\E j \in Starts : j < i /\ ~Ends(j) /\ j + Width(j) = i)
    BY <1>1, <1>2
  <1> QED BY <1>1, <1>2, <1>6, <1>7

(* No option starts within another, and none behind the end of reading.    *)
LEMMA StartsApart ==
  ASSUME args \in Commands, NEW i \in Starts, NEW k \in Starts, i < k
  PROVE  ~Ends(i) /\ i + Width(i) <= k
  <1> DEFINE Apart(a, b) == ~Ends(a) /\ a + Width(a) <= b
             P == {m \in Nat : \A a, b \in Starts : a < b /\ b <= m => Apart(a, b)}
  <1>0. /\ Starts \subseteq Nat /\ \A a \in Starts : a \in DOMAIN args /\ a >= 1
    BY StartsLead, ArgsType
  <1>1. 0 \in P
    BY <1>0
  <1>2. ASSUME NEW m \in Nat, m \in P PROVE m + 1 \in P
    <2> SUFFICES ASSUME NEW a \in Starts, NEW b \in Starts, a < b, b <= m + 1
                 PROVE  Apart(a, b)
      OBVIOUS
    <2>1. PICK j \in Starts : j < b /\ ~Ends(j) /\ j + Width(j) = b
      BY <1>0, StartsLead
    <2>2. Width(j) \in 0..2
      BY <1>0, WidthType
    <2>3. j <= m /\ a <= m
      BY <1>0, <2>1
    <2>4. CASE a = j
      BY <1>0, <2>1, <2>2, <2>4
    <2>5. CASE a < j
      <3>1. Apart(a, j)
        BY <1>2, <2>3, <2>5
      <3>2. Width(a) \in 0..2
        BY <1>0, WidthType
      <3> QED BY <1>0, <2>1, <3>1, <3>2
    <2>6. CASE j < a
      <3>1. Apart(j, a)
        BY <1>2, <2>3, <2>6
      <3> QED BY <1>0, <2>1, <2>2, <3>1
    <2> QED BY <1>0, <2>4, <2>5, <2>6
  <1> HIDE DEF P
  <1>3. Nat \subseteq P
    BY <1>1, <1>2, SetInduction
  <1>4. k \in P
    BY <1>0, <1>3
  <1> QED BY <1>0, <1>4 DEF P

-----------------------------------------------------------------------------
(* The words an option takes, as the first pass leaves them when it has    *)
(* read the starts before n. *)
SpanAt(n, i) ==
  IF i \in Starts /\ i < n
  THEN IF args[i].kind = "wrapper" THEN 0 ELSE IF Ends(i) THEN 1 ELSE Boundary(i)
  ELSE 1
SpansTo(n) == spans = [i \in DOMAIN args |-> SpanAt(n, i)]
AllSpans == SpansTo(Len(args) + 1)

(* Position n is the next start, or behind all of them, and every option   *)
(* before it ends there. *)
Reached(n) ==
  /\ n \in Starts \/ \A i \in Starts : i < n
  /\ \A i \in Starts : i < n /\ ~Ends(i) => i + Width(i) <= n

(* What libiperf gets of the words before position n: all that no wrapper  *)
(* option takes, in order.                                                 *)
PassedTo(n) == Range(through) = {i \in DOMAIN args : i < n} \ Taken /\ Ascending(through)

Afterwards == {"defaults", "checks", "done"}

(* The first pass stands at the start of an option and has noted how many  *)
(* words each earlier one takes.                                           *)
FirstPass ==
  /\ stage \in {"boundaries", "environment"} => through = <<>>
  /\ stage = "boundaries" => (index = Len(args) + 1 \/ index \in Starts) /\ SpansTo(index)
  /\ stage = "environment" => index = 1
  /\ stage \in {"environment", "extract"} => AllSpans

(* The second pass stands at the start of an option and has passed on what *)
(* the earlier ones leave.                                                 *)
SecondPass ==
  /\ stage = "extract" => Reached(index) /\ PassedTo(index)
  /\ stage \in Afterwards => PassedTo(Len(args) + 1)

(* Help and version are asked for by a word that is read as an option. *)
Asked == stage \in {"help", "version"} => \E i \in Starts : args[i].kind = stage

InputOK == args \in Commands /\ env \in Environments

(* The inductive invariant of the two passes. *)
ArgumentsInv == InputOK /\ ArgumentsTypeOK /\ FirstPass /\ SecondPass /\ Asked

(* What is defined from the words alone stays. *)
LEMMA Unmoved ==
  ASSUME args' = args
  PROVE  /\ Starts' = Starts /\ Taken' = Taken /\ Own' = Own
         /\ \A i : Ends(i)' = Ends(i) /\ Width(i)' = Width(i) /\ Boundary(i)' = Boundary(i)
                   /\ WrapperSpan(i)' = WrapperSpan(i)
  <1>1. Starts' = Starts
    BY SMT DEF Starts, Ends, Width, WrapperSpan, Boundary, NeedsValue
  <1>2. \A i : Ends(i)' = Ends(i) /\ Width(i)' = Width(i) /\ Boundary(i)' = Boundary(i)
               /\ WrapperSpan(i)' = WrapperSpan(i)
    BY DEF Ends, Width, WrapperSpan, Boundary, NeedsValue
  <1>3. Own' = Own
    BY <1>1 DEF Own
  <1>4. Taken' = Taken
    BY <1>2, <1>3 DEF Taken
  <1> QED BY <1>1, <1>2, <1>3, <1>4

(* The invariant's parts, when the input and its own variables stay.       *)
LEMMA SpansSame ==
  ASSUME args' = args, spans' = spans, NEW n
  PROVE  SpansTo(n) => SpansTo(n)'
  BY Unmoved DEF SpansTo, SpanAt

LEMMA ReachedSame ==
  ASSUME args' = args, NEW n, NEW m, m = n
  PROVE  Reached(n) => Reached(m)'
  BY Unmoved DEF Reached

LEMMA PassedSame ==
  ASSUME args' = args, through' = through, NEW n
  PROVE  PassedTo(n) => PassedTo(n)'
  BY Unmoved DEF PassedTo, Ascending

(* It holds at first. *)
LEMMA ArgumentsInitInv == ArgumentsInit => ArgumentsInv
  <1> SUFFICES ASSUME ArgumentsInit PROVE ArgumentsInv
    OBVIOUS
  <1>1. InputOK
    BY DEF ArgumentsInit, InputOK
  <1>2. Len(args) \in Nat /\ DOMAIN args = 1..Len(args)
    BY <1>1, ArgsType DEF InputOK
  <1>3. ArgumentsTypeOK
    <2>1. <<>> \in Seq(DOMAIN args) /\ <<>> \in Seq({"a", "b"})
      OBVIOUS
    <2> QED BY <1>2, <2>1 DEF ArgumentsInit, ArgumentsTypeOK
  <1>4. index = Len(args) + 1 \/ index \in Starts
    <2>1. CASE Len(args) = 0
      BY <2>1 DEF ArgumentsInit
    <2>2. CASE Len(args) # 0
      <3>1. 1 \in DOMAIN args
        BY <1>2, <2>2
      <3> QED BY <1>1, <3>1, StartsLead DEF ArgumentsInit, InputOK
    <2> QED BY <2>1, <2>2
  <1>5. SpansTo(index)
    <2>1. \A i \in Starts : ~(i < 1)
      BY <1>1, <1>2, StartsLead DEF InputOK
    <2>2. \A i : SpanAt(1, i) = 1
      BY <2>1 DEF SpanAt
    <2> QED BY <2>2 DEF SpansTo, ArgumentsInit
  <1>6. FirstPass /\ SecondPass /\ Asked
    BY <1>4, <1>5 DEF ArgumentsInit, FirstPass, SecondPass, Asked, Afterwards
  <1> QED BY <1>1, <1>3, <1>6 DEF ArgumentsInv

(* What the steps need of the types. *)
LEMMA StartTypes ==
  ASSUME ArgumentsInv
  PROVE  /\ Len(args) \in Nat /\ DOMAIN args = 1..Len(args) /\ Starts \subseteq 1..Len(args)
         /\ index \in 1..Len(args) + 1 /\ args \in Commands /\ env \in Environments
         /\ (index <= Len(args) => index \in DOMAIN args)
         /\ ArgumentsTypeOK
  <1>1. args \in Commands /\ env \in Environments /\ ArgumentsTypeOK
    BY DEF ArgumentsInv, InputOK
  <1>2. index \in 1..Len(args) + 1
    BY <1>1 DEF ArgumentsTypeOK
  <1>3. Len(args) \in Nat /\ DOMAIN args = 1..Len(args)
    BY <1>1, ArgsType
  <1> QED BY <1>1, <1>2, <1>3, StartsLead

(* The first pass ends where no option starts any more. *)
LEMMA SpansComplete ==
  ASSUME args \in Commands, SpansTo(index), index \in 1..Len(args) + 1,
         index = Len(args) + 1 \/ (index \in Starts /\ Ends(index))
  PROVE  AllSpans
  <1>1. Len(args) \in Nat /\ DOMAIN args = 1..Len(args) /\ Starts \subseteq 1..Len(args)
    BY ArgsType, StartsLead
  <1>2. CASE index = Len(args) + 1
    BY <1>2 DEF AllSpans
  <1>3. CASE index \in Starts /\ Ends(index)
    <2>1. args[index].kind # "wrapper"
      BY <1>1, <1>3, WidthType
    <2>2. \A i \in Starts : i < index \/ i = index
      BY <1>1, <1>3, StartsApart
    <2>3. ASSUME NEW i \in DOMAIN args
          PROVE  SpanAt(index, i) = SpanAt(Len(args) + 1, i)
      <3>1. CASE i = index
        BY <1>1, <1>3, <2>1, <3>1 DEF SpanAt
      <3>2. CASE i # index
        BY <1>1, <2>2, <3>2 DEF SpanAt
      <3> QED BY <3>1, <3>2
    <2> QED BY <2>3 DEF AllSpans, SpansTo
  <1> QED BY <1>2, <1>3

(* Behind an option is the next start, or nothing. *)
LEMMA NextStart ==
  ASSUME args \in Commands, NEW i \in Starts, ~Ends(i)
  PROVE  /\ i + Width(i) = Len(args) + 1 \/ i + Width(i) \in Starts
         /\ \A k \in Starts : k < i + Width(i) => k <= i
         /\ i + Width(i) \in 1..Len(args) + 1 /\ Width(i) \in 1..2 /\ i \in 1..Len(args)
  <1>1. Len(args) \in Nat /\ DOMAIN args = 1..Len(args) /\ Starts \subseteq 1..Len(args)
    BY ArgsType, StartsLead
  <1>2. Width(i) \in 1..2 /\ i + Width(i) <= Len(args) + 1
    BY <1>1, WidthType
  <1>3. i + Width(i) \in DOMAIN args => i + Width(i) \in Starts
    BY <1>1, <1>2, StartsLead
  <1>4. \A k \in Starts : k < i + Width(i) => k <= i
    <2> TAKE k \in Starts
    <2>1. i < k => i + Width(i) <= k
      BY StartsApart
    <2> QED BY <1>1, <1>2, <2>1
  <1> QED BY <1>1, <1>2, <1>3, <1>4

(* A step of the first pass keeps the invariant. *)
LEMMA FindBoundaryStep ==
  ASSUME ArgumentsInv, FindBoundary
  PROVE  ArgumentsInv'
  <1>0. /\ Len(args) \in Nat /\ DOMAIN args = 1..Len(args) /\ Starts \subseteq 1..Len(args)
        /\ index \in 1..Len(args) + 1 /\ args \in Commands /\ env \in Environments
        /\ (index <= Len(args) => index \in DOMAIN args)
        /\ ArgumentsTypeOK
    BY StartTypes
  <1>1. /\ args' = args /\ env' = env /\ through' = through /\ cli' = cli /\ labels' = labels
        /\ options' = options /\ stage = "boundaries"
    BY DEF FindBoundary, input
  <1>2. (index = Len(args) + 1 \/ index \in Starts) /\ SpansTo(index) /\ through = <<>>
    BY <1>1 DEF ArgumentsInv, FirstPass
  <1>3. InputOK'
    BY <1>0, <1>1 DEF InputOK
  <1>4. CASE BoundariesEnd /\ (index > Len(args) \/ (index \in Starts /\ Ends(index)))
    <2>1. AllSpans
      BY <1>0, <1>2, <1>4, SpansComplete
    <2>2. AllSpans'
      BY <1>1, <1>4, <2>1, SpansSame DEF AllSpans, BoundariesEnd
    <2>3. ArgumentsTypeOK'
      BY <1>0, <1>1, <1>4 DEF ArgumentsTypeOK, BoundariesEnd
    <2>4. FirstPass' /\ SecondPass' /\ Asked'
      BY <1>1, <1>2, <1>4, <2>2 DEF FirstPass, SecondPass, Asked, BoundariesEnd, Afterwards
    <2> QED BY <1>3, <2>3, <2>4 DEF ArgumentsInv
  <1>5. ASSUME NEW n \in 0..2, index \in Starts, ~Ends(index),
               spans' = [spans EXCEPT ![index] = n], index' = index + Width(index), stage' = stage,
               n = IF args[index].kind = "wrapper" THEN 0 ELSE Boundary(index)
        PROVE  ArgumentsInv'
    <2>1. /\ index' = Len(args) + 1 \/ index' \in Starts
          /\ \A k \in Starts : k < index' => k <= index
          /\ index' \in 1..Len(args) + 1 /\ index' > index /\ index \in 1..Len(args)
      BY <1>0, <1>5, NextStart
    <2>2. spans' = [i \in DOMAIN args |-> SpanAt(index', i)]
      <3>1. spans = [i \in DOMAIN args |-> SpanAt(index, i)]
        BY <1>2 DEF SpansTo
      <3>2. ASSUME NEW i \in DOMAIN args
            PROVE  SpanAt(index', i) = IF i = index THEN n ELSE SpanAt(index, i)
        <4>1. CASE i = index
          BY <1>5, <2>1, <4>1 DEF SpanAt
        <4>2. CASE i # index
          <5>1. i \in Starts => (i < index <=> i < index')
            BY <1>0, <2>1, <4>2
          <5> QED BY <4>2, <5>1 DEF SpanAt
        <4> QED BY <4>1, <4>2
      <3>3. spans' = [i \in DOMAIN args |-> IF i = index THEN n ELSE SpanAt(index, i)]
        BY <1>5, <3>1
      <3> QED BY <3>2, <3>3, Zenon
    <2>3. \A i : SpanAt(index', i) = SpanAt(index, i)'
      BY <1>1, Unmoved DEF SpanAt
    <2>4. SpansTo(index)'
      BY <1>1, <2>2, <2>3 DEF SpansTo
    <2>5. ArgumentsTypeOK'
      <3>1. spans' \in [DOMAIN args -> 0..2]
        BY <1>0, <1>5 DEF ArgumentsTypeOK
      <3> QED BY <1>0, <1>1, <1>5, <2>1, <3>1 DEF ArgumentsTypeOK
    <2>6. index' = Len(args)' + 1 \/ index' \in Starts'
      BY <1>1, <2>1, Unmoved
    <2>7. FirstPass'
      BY <1>1, <1>2, <1>5, <2>4, <2>6 DEF FirstPass
    <2>8. SecondPass' /\ Asked'
      BY <1>1, <1>5 DEF SecondPass, Asked, Afterwards
    <2> QED BY <1>3, <2>5, <2>7, <2>8 DEF ArgumentsInv
  <1>6. CASE index \in Starts /\ args[index].kind \in {"help", "version"} /\ stage' = args[index].kind
             /\ UNCHANGED <<index, spans>>
    <2>1. ArgumentsTypeOK'
      BY <1>0, <1>1, <1>6 DEF ArgumentsTypeOK
    <2>2. FirstPass' /\ SecondPass'
      BY <1>6 DEF FirstPass, SecondPass, Afterwards
    <2>3. Asked'
      BY <1>1, <1>6, Unmoved DEF Asked
    <2> QED BY <1>3, <2>1, <2>2, <2>3 DEF ArgumentsInv
  <1>7. CASE index > Len(args)
    BY <1>4, <1>7 DEF FindBoundary
  <1>8. CASE index <= Len(args)
    <2>0. index \in Starts /\ index \in DOMAIN args /\ ~(index > Len(args))
      BY <1>0, <1>2, <1>8
    <2>1. CASE args[index].kind = "--"
      <3>1. BoundariesEnd
        BY <1>8, <2>1 DEF FindBoundary
      <3>2. Ends(index)
        BY <2>1 DEF Ends
      <3> QED BY <1>4, <2>0, <3>1, <3>2
    <2>2. CASE args[index].kind = "wrapper"
      <3>1. spans' = [spans EXCEPT ![index] = 0] /\ index' = index + WrapperSpan(index) /\ stage' = stage
        BY <1>8, <2>0, <2>2 DEF FindBoundary
      <3>2. Width(index) = WrapperSpan(index) /\ ~Ends(index)
        BY <1>0, <2>0, <2>2, WidthType DEF Width
      <3> QED BY <1>5, <2>0, <2>2, <3>1, <3>2
    <2>3. CASE args[index].kind \in {"help", "version"}
      <3>1. stage' = args[index].kind /\ UNCHANGED <<index, spans>>
        BY <1>8, <2>0, <2>3 DEF FindBoundary
      <3> QED BY <1>6, <2>0, <2>3, <3>1
    <2>4. CASE args[index].kind \notin {"--", "wrapper", "help", "version"}
      <3>1. Width(index) = Boundary(index) /\ (Ends(index) <=> Boundary(index) = 0)
            /\ Boundary(index) \in 0..2
        BY <1>0, <2>0, <2>4, WidthType DEF Width, Ends
      <3>2. CASE Boundary(index) = 0
        <4>1. BoundariesEnd
          BY <1>8, <2>0, <2>4, <3>2 DEF FindBoundary
        <4> QED BY <1>4, <2>0, <3>1, <3>2, <4>1
      <3>3. CASE Boundary(index) # 0
        <4>1. /\ spans' = [spans EXCEPT ![index] = Boundary(index)]
              /\ index' = index + Boundary(index) /\ stage' = stage
          BY <1>8, <2>0, <2>4, <3>3 DEF FindBoundary
        <4> QED BY <1>5, <2>0, <2>4, <3>1, <3>3, <4>1
      <3> QED BY <3>2, <3>3
    <2> QED BY <2>1, <2>2, <2>3, <2>4
  <1> QED BY <1>0, <1>7, <1>8

(* The positions that a step of PassThrough appends. *)
UpTo(s, a, b) == s \o [k \in 1..b - a + 1 |-> a + k - 1]

(* They keep the sequence ascending. *)
LEMMA ConcatAscending ==
  ASSUME NEW s \in Seq(Nat), NEW a \in Nat, NEW b \in Nat, a <= b,
         Ascending(s), \A x \in Range(s) : x < a,
         NEW t, t = UpTo(s, a, b)
  PROVE  Ascending(t) /\ Range(t) = Range(s) \cup a..b
  <1>0. a \in Nat /\ b \in Nat /\ a <= b
    OBVIOUS
  <1> DEFINE m == b - a + 1
             u == [k \in 1..m |-> a + k - 1]
  <1>1. m \in Nat /\ u \in Seq(Nat) /\ Len(u) = m /\ DOMAIN u = 1..m /\ \A k \in 1..m : u[k] = a + k - 1
    <2>1. m \in Nat /\ \A k \in 1..m : a + k - 1 \in Nat
      OBVIOUS
    <2>2. u \in [1..m -> Nat]
      BY <2>1
    <2> HIDE DEF m
    <2>3. u \in Seq(Nat) /\ Len(u) = m
      BY <2>1, <2>2, FunctionIsSeq
    <2> QED BY <2>1, <2>3
  <1> DEFINE n == Len(s)
  <1>2. n \in Nat /\ DOMAIN s = 1..n /\ Range(s) = {s[i] : i \in 1..n} /\ \A i \in 1..n : s[i] \in Nat
    BY DEF Range
  <1> HIDE DEF u
  <1>3. /\ DOMAIN t = 1..n + m /\ \A i \in 1..n : t[i] = s[i]
        /\ \A i \in 1..n+m : i > n => t[i] = u[i - n]
    BY <1>1, <1>2, ConcatProperties DEF u, UpTo
  <1> HIDE DEF n, m
  <1>4. \A i \in 1..n+m : i > n => i - n \in 1..m /\ t[i] = a + (i - n) - 1
    BY <1>1, <1>2, <1>3
  <1>5. Ascending(t)
    <2> SUFFICES ASSUME NEW i \in 1..n+m, NEW j \in 1..n+m, i < j PROVE t[i] < t[j]
      BY <1>3 DEF Ascending
    <2>00. i < j
      OBVIOUS
    <2>0. i \in Int /\ j \in Int /\ (i <= n => i \in 1..n) /\ (j <= n => j \in 1..n)
      BY <1>1, <1>2
    <2>1. CASE j <= n
      <3>1. i \in 1..n /\ j \in 1..n
        BY <1>2, <2>0, <2>1
      <3>2. s[i] < s[j]
        BY <1>2, <3>1 DEF Ascending
      <3> QED BY <1>3, <3>1, <3>2
    <2>2. CASE i <= n /\ j > n
      <3>1. t[i] = s[i] /\ s[i] \in Range(s) /\ s[i] \in Nat
        BY <1>2, <1>3, <2>0, <2>2
      <3>2. t[j] = a + (j - n) - 1
        BY <1>4, <2>2
      <3>3. s[i] < a
        BY <3>1
      <3> QED BY ONLY <1>0, <1>2, <2>0, <2>2, <3>1, <3>2, <3>3
    <2>3. CASE i > n
      <3>1. j > n
        BY <1>2, <2>0, <2>3
      <3>2. t[i] = a + (i - n) - 1 /\ t[j] = a + (j - n) - 1
        BY <1>4, <2>3, <3>1
      <3> QED BY ONLY <1>0, <1>2, <2>0, <2>00, <3>2
    <2>4. (j <= n) \/ (i <= n /\ j > n) \/ i > n
      BY <1>2, <2>0
    <2> QED BY <2>1, <2>2, <2>3, <2>4
  <1>6. Range(t) = Range(s) \cup a..b
    <2>1. ASSUME NEW x \in Range(t) PROVE x \in Range(s) \cup a..b
      <3>1. PICK i \in 1..n+m : x = t[i]
        BY <1>3 DEF Range
      <3>2. CASE i <= n
        BY <1>2, <1>3, <3>1, <3>2
      <3>3. CASE i > n
        <4>1. i - n \in 1..m /\ x = a + (i - n) - 1
          BY <1>4, <3>1, <3>3
        <4> QED BY <4>1 DEF m
      <3> QED BY <1>1, <1>2, <3>2, <3>3
    <2>2. ASSUME NEW x \in Range(s) PROVE x \in Range(t)
      <3>1. PICK i \in 1..n : x = s[i]
        BY <1>2
      <3>2. i \in 1..n+m /\ x = t[i]
        BY <1>1, <1>2, <1>3, <3>1
      <3> QED BY <1>3, <3>2 DEF Range
    <2>3. ASSUME NEW x \in a..b PROVE x \in Range(t)
      <3> DEFINE i == n + (x - a + 1)
      <3>1. i \in 1..n+m /\ i > n /\ i - n = x - a + 1
        BY <1>1, <1>2 DEF m
      <3>2. t[i] = a + (i - n) - 1
        <4> HIDE DEF i
        <4> QED BY <1>4, <3>1
      <3>3. t[i] = x
        <4>1. x \in Int
          OBVIOUS
        <4> QED BY ONLY <1>0, <4>1, <3>1, <3>2
      <3> HIDE DEF i
      <3> QED BY <1>3, <3>1, <3>3 DEF Range
    <2> QED BY <2>1, <2>2, <2>3
  <1> QED BY <1>5, <1>6

(* Words are passed on that no wrapper option takes. *)
LEMMA PassThroughStep ==
  ASSUME ArgumentsInv, stage = "extract", NEW last \in index..Len(args), PassThrough(last),
         \A i \in index..last : i \notin Taken, Reached(last + 1)
  PROVE  ArgumentsInv'
  <1>0. /\ Len(args) \in Nat /\ DOMAIN args = 1..Len(args) /\ Starts \subseteq 1..Len(args)
        /\ index \in 1..Len(args) + 1 /\ args \in Commands /\ env \in Environments
        /\ ArgumentsTypeOK
    BY StartTypes
  <1>1. args' = args /\ env' = env /\ stage' = stage /\ spans' = spans /\ cli' = cli /\ labels' = labels
        /\ options' = options /\ index' = last + 1
        /\ through' = through \o [k \in 1..last - index + 1 |-> index + k - 1]
    BY DEF PassThrough, input
  <1>2. PassedTo(index) /\ AllSpans
    BY DEF ArgumentsInv, SecondPass, FirstPass
  <1>3. through \in Seq(Nat) /\ \A x \in Range(through) : x < index
    <2>1. through \in Seq(1..Len(args))
      BY <1>0 DEF ArgumentsTypeOK
    <2> QED BY <1>0, <1>2, <2>1 DEF PassedTo
  <1>4. Ascending(through') /\ Range(through') = Range(through) \cup index..last
    <2>1. Ascending(through) /\ last \in Nat /\ index \in Nat /\ index <= last
      BY <1>0, <1>2 DEF PassedTo
    <2>2. through' = UpTo(through, index, last)
      BY <1>1 DEF UpTo
    <2> QED BY ONLY <1>3, <2>1, <2>2, ConcatAscending
  <1>5. Range(through') = {i \in DOMAIN args : i < last + 1} \ Taken
    BY <1>0, <1>2, <1>4 DEF PassedTo
  <1>6. PassedTo(last + 1)'
    BY <1>1, <1>4, <1>5, Unmoved DEF PassedTo, Ascending
  <1>7. Reached(last + 1)'
    BY <1>1, ReachedSame
  <1>8. AllSpans'
    BY <1>1, <1>2, SpansSame DEF AllSpans
  <1>9. ArgumentsTypeOK'
    <2>1. through' \in Seq(DOMAIN args)
      <3>1. [k \in 1..last - index + 1 |-> index + k - 1] \in Seq(DOMAIN args)
        BY <1>0
      <3>2. through \in Seq(DOMAIN args)
        BY <1>0 DEF ArgumentsTypeOK
      <3> QED BY <1>1, <3>1, <3>2, ConcatType
    <2> QED BY <1>0, <1>1, <2>1 DEF ArgumentsTypeOK
  <1>10. SecondPass'
    BY <1>1, <1>6, <1>7 DEF SecondPass, Afterwards
  <1>11. FirstPass' /\ Asked' /\ InputOK'
    BY <1>0, <1>1, <1>8 DEF FirstPass, Asked, InputOK
  <1> QED BY <1>9, <1>10, <1>11 DEF ArgumentsInv

(* An error keeps the invariant. *)
LEMMA StopStep ==
  ASSUME ArgumentsInv, Stop
  PROVE  ArgumentsInv'
  <1>1. ArgumentsTypeOK'
    BY DEF ArgumentsInv, ArgumentsTypeOK, Stop, input
  <1>2. InputOK' /\ FirstPass' /\ SecondPass' /\ Asked'
    BY DEF ArgumentsInv, InputOK, Stop, input, FirstPass, SecondPass, Asked, Afterwards
  <1> QED BY <1>1, <1>2 DEF ArgumentsInv

(* An option of the wrapper ends within the command line. *)
LEMMA OwnWidth ==
  ASSUME args \in Commands, NEW j \in Own
  PROVE  j \in Starts /\ j \in 1..Len(args) /\ ~Ends(j) /\ Width(j) = WrapperSpan(j) /\ Width(j) \in 1..2
         /\ args[j].kind = "wrapper" /\ args[j].key \in Keys
  <1>1. j \in Starts /\ args[j].kind = "wrapper"
    BY DEF Own
  <1>2. j \in DOMAIN args /\ Len(args) \in Nat
    BY <1>1, StartsLead, ArgsType
  <1> QED BY <1>1, <1>2, WidthType, ArgsType DEF Width

(* Behind an option that starts, and behind the last word, the second pass *)
(* stands where it should.                                                 *)
LEMMA ReachedNext ==
  ASSUME args \in Commands, NEW i \in Starts, ~Ends(i)
  PROVE  Reached(i + Width(i))
  <1>1. Len(args) \in Nat /\ DOMAIN args = 1..Len(args) /\ Starts \subseteq 1..Len(args)
    BY ArgsType, StartsLead
  <1>2. /\ i + Width(i) = Len(args) + 1 \/ i + Width(i) \in Starts
        /\ \A k \in Starts : k < i + Width(i) => k <= i
        /\ Width(i) \in 1..2 /\ i \in 1..Len(args)
    BY NextStart
  <1>3. i + Width(i) \in Starts \/ \A k \in Starts : k < i + Width(i)
    BY <1>1, <1>2
  <1>4. ASSUME NEW k \in Starts, k < i + Width(i), ~Ends(k)
        PROVE  k + Width(k) <= i + Width(i)
    <2>1. CASE k = i
      BY <1>2, <2>1
    <2>2. CASE k # i
      <3>1. k < i
        BY <1>1, <1>2, <1>4, <2>2
      <3>2. k + Width(k) <= i
        BY <3>1, StartsApart
      <3>3. Width(k) \in 0..2
        BY <1>1, WidthType
      <3> QED BY <1>1, <1>2, <3>2, <3>3
    <2> QED BY <2>1, <2>2
  <1> QED BY <1>3, <1>4 DEF Reached

LEMMA ReachedEnd ==
  ASSUME args \in Commands
  PROVE  Reached(Len(args) + 1)
  <1>1. Len(args) \in Nat /\ DOMAIN args = 1..Len(args) /\ Starts \subseteq 1..Len(args)
    BY ArgsType, StartsLead
  <1>2. \A i \in Starts : i + Width(i) <= Len(args) + 1
    BY <1>1, WidthType
  <1> QED BY <1>1, <1>2 DEF Reached

(* One word on, where reading has ended. *)
LEMMA ReachedFurther ==
  ASSUME args \in Commands, NEW n \in 1..Len(args), Reached(n), n \in Starts => Ends(n)
  PROVE  Reached(n + 1) /\ \A i \in Starts : i <= n
  <1>1. Len(args) \in Nat /\ DOMAIN args = 1..Len(args) /\ Starts \subseteq 1..Len(args)
    BY ArgsType, StartsLead
  <1>2. \A i \in Starts : i <= n
    <2> TAKE i \in Starts
    <2>1. CASE n \in Starts
      <3>1. ~(n < i)
        BY <2>1, StartsApart
      <3> QED BY <1>1, <3>1
    <2>2. CASE n \notin Starts
      BY <1>1, <2>2 DEF Reached
    <2> QED BY <2>1, <2>2
  <1>3. ASSUME NEW i \in Starts, ~Ends(i) PROVE i + Width(i) <= n + 1
    <2>1. i # n
      BY <1>3
    <2>2. i + Width(i) <= n /\ Width(i) \in 0..2
      BY <1>1, <1>2, <1>3, <2>1, WidthType DEF Reached
    <2> QED BY <1>1, <2>2
  <1> QED BY <1>1, <1>2, <1>3 DEF Reached

(* Where no option of the wrapper starts, none takes a word. *)
LEMMA NotTaken ==
  ASSUME args \in Commands, NEW n \in 1..Len(args), Reached(n), NEW last \in n..Len(args),
         \A i \in n..last : i \notin Own
  PROVE  \A i \in n..last : i \notin Taken
  <1>1. Len(args) \in Nat
    BY ArgsType
  <1> SUFFICES ASSUME NEW j \in Own, WrapperSpan(j) = 2, j + 1 \in n..last PROVE FALSE
    BY DEF Taken
  <1>2. j \in Starts /\ j \in 1..Len(args) /\ ~Ends(j) /\ Width(j) = 2
    BY OwnWidth
  <1>3. j < n => j + Width(j) <= n
    BY <1>2 DEF Reached
  <1>4. j \notin n..last
    OBVIOUS
  <1> QED BY <1>1, <1>2, <1>3, <1>4

(* A position that is not the last has a next one. *)
LEMMA NotLast ==
  ASSUME NEW n \in Nat, NEW i \in 1..n, i # n
  PROVE  i + 1 \in 1..n
  OBVIOUS

(* An option of the wrapper is taken. *)
LEMMA TakeStep ==
  ASSUME ArgumentsInv, stage = "extract", index \in Own, NEW value \in Values,
         Take(args[index].key, value, WrapperSpan(index))
  PROVE  ArgumentsInv'
  <1>0. /\ Len(args) \in Nat /\ DOMAIN args = 1..Len(args) /\ Starts \subseteq 1..Len(args)
        /\ index \in 1..Len(args) + 1 /\ args \in Commands /\ env \in Environments
        /\ ArgumentsTypeOK
    BY StartTypes
  <1> DEFINE key == args[index].key
  <1>1. /\ index \in Starts /\ ~Ends(index) /\ Width(index) = WrapperSpan(index)
        /\ Width(index) \in 1..2 /\ key \in Keys /\ index \in 1..Len(args)
    BY <1>0, OwnWidth
  <1>2. CASE ~Accepted(key, value)
    BY <1>2, StopStep DEF Take
  <1>3. CASE Accepted(key, value)
    <2>1. /\ args' = args /\ env' = env /\ stage' = stage /\ spans' = spans /\ through' = through
          /\ options' = options /\ index' = index + Width(index)
          /\ IF key \in Labels
             THEN labels' = [labels EXCEPT ![key] = Append(@, value)] /\ UNCHANGED cli
             ELSE cli' = [cli EXCEPT ![key] = value] /\ UNCHANGED labels
      BY <1>1, <1>3 DEF Take, input
    <2>2. PassedTo(index) /\ AllSpans
      BY DEF ArgumentsInv, SecondPass, FirstPass
    <2>3. {i \in DOMAIN args : i < index'} \ Taken = {i \in DOMAIN args : i < index} \ Taken
      <3>1. \A i \in DOMAIN args : i < index' => i < index \/ i = index \/ (i = index + 1 /\ WrapperSpan(index) = 2)
        BY <1>0, <1>1, <2>1
      <3>2. index \in Taken /\ (WrapperSpan(index) = 2 => index + 1 \in Taken)
        BY DEF Taken
      <3>3. index < index'
        BY <1>1, <2>1
      <3>4. \A i \in DOMAIN args : i \notin Taken => (i < index' <=> i < index)
        <4> TAKE i \in DOMAIN args
        <4> HAVE i \notin Taken
        <4>1. i # index /\ ~(i = index + 1 /\ WrapperSpan(index) = 2)
          BY <3>2
        <4>2. i < index' => i < index
          BY <3>1, <4>1
        <4>3. i \in Int /\ index \in Int /\ index' \in Int
          BY <1>0, <1>1, <2>1
        <4>4. i < index => i < index'
          BY <3>3, <4>3
        <4> QED BY <4>2, <4>4
      <3> QED BY <3>4
    <2>4. PassedTo(index)'
      <3>1. Range(through') = {i \in DOMAIN args : i < index'} \ Taken /\ Ascending(through)
        BY <2>1, <2>2, <2>3 DEF PassedTo
      <3> QED BY <2>1, <3>1, Unmoved DEF PassedTo, Ascending
    <2>5. Reached(index)'
      <3>1. PICK n : n = index'
        OBVIOUS
      <3>2. Reached(n)
        BY <1>0, <1>1, <2>1, <3>1, ReachedNext
      <3>3. Reached(n)'
        BY <2>1, <3>2, ReachedSame
      <3> QED BY <3>1, <3>3 DEF Reached
    <2>6. AllSpans'
      BY <2>1, <2>2, SpansSame DEF AllSpans
    <2>7. ArgumentsTypeOK'
      <3>1. index' \in 1..Len(args) + 1
        BY <1>0, <1>1, <2>1, NextStart
      <3>2. cli' \in [Keys -> Values \cup {"unset"}]
        BY <1>0, <1>1, <2>1 DEF ArgumentsTypeOK
      <3>3. labels' \in [Labels -> Seq({"a", "b"})]
        <4>1. CASE key \in Labels
          <5>1. value \in {"a", "b"}
            BY <1>3, <4>1 DEF Accepted, Labels, Free
          <5>2. labels[key] \in Seq({"a", "b"})
            BY <1>0, <4>1 DEF ArgumentsTypeOK
          <5>3. Append(labels[key], value) \in Seq({"a", "b"})
            BY <5>1, <5>2, AppendProperties
          <5> QED BY <1>0, <2>1, <4>1, <5>3 DEF ArgumentsTypeOK
        <4>2. CASE key \notin Labels
          BY <1>0, <2>1, <4>2 DEF ArgumentsTypeOK
        <4> QED BY <4>1, <4>2
      <3> QED BY <1>0, <2>1, <3>1, <3>2, <3>3 DEF ArgumentsTypeOK
    <2>8. SecondPass'
      BY <2>1, <2>4, <2>5 DEF SecondPass, Afterwards
    <2>9. FirstPass' /\ Asked' /\ InputOK'
      BY <1>0, <2>1, <2>6 DEF FirstPass, Asked, InputOK
    <2> QED BY <2>7, <2>8, <2>9 DEF ArgumentsInv
  <1> QED BY <1>2, <1>3

(* What the second pass does at an option of the wrapper, and at the rest. *)
PassesUpstream ==
  \E last \in index..Len(args) :
    PassThrough(last) /\ Reached(last + 1) /\ \A i \in index..last : i \notin Own
ReadsOwn ==
  /\ index \in Own
  /\ \/ Incomplete(index) /\ Stop
     \/ /\ ~Incomplete(index) /\ ValueAt(index) \in Values
        /\ Take(args[index].key, ValueAt(index), WrapperSpan(index))

(* A step of the second pass does one of the two. *)
LEMMA ExtractCases ==
  ASSUME ArgumentsInv, Extract
  PROVE  PassesUpstream \/ ReadsOwn
  <1>0. /\ Len(args) \in Nat /\ DOMAIN args = 1..Len(args) /\ Starts \subseteq 1..Len(args)
        /\ args \in Commands /\ env \in Environments
        /\ ArgumentsTypeOK /\ index \in 1..Len(args) /\ stage = "extract"
    BY StartTypes DEF Extract
  <1>1. Reached(index) /\ AllSpans
    BY <1>0 DEF ArgumentsInv, SecondPass, FirstPass
  <1>2. spans[index] = SpanAt(Len(args) + 1, index)
    BY <1>0, <1>1 DEF AllSpans, SpansTo
  <1>3. CASE args[index].kind = "--"
    <2>1. PassThrough(Len(args))
      BY <1>3 DEF Extract
    <2>2. index \in Starts => Ends(index)
      BY <1>3 DEF Ends
    <2>3. \A i \in index..Len(args) : i \notin Own
      <3>1. \A i \in Starts : i <= index
        BY <1>0, <1>1, <2>2, ReachedFurther
      <3> QED BY <1>0, <1>3, <3>1 DEF Own
    <2>4. Len(args) \in index..Len(args)
      BY <1>0
    <2>5. Reached(Len(args) + 1)
      BY <1>0, ReachedEnd
    <2> QED BY <2>1, <2>3, <2>4, <2>5 DEF PassesUpstream
  <1>4. CASE args[index].kind # "--" /\ IsUpstream(index)
    <2> DEFINE last == index + spans[index] - 1
    <2>1. PassThrough(last)
      BY <1>4 DEF Extract
    <2>2. CASE index \in Starts /\ ~Ends(index)
      <3>1. args[index].kind # "wrapper" /\ spans[index] = Width(index)
        BY <1>0, <1>2, <1>4, <2>2 DEF SpanAt, IsUpstream, Width
      <3>2. /\ \A k \in Starts : k < index + Width(index) => k <= index
            /\ Width(index) \in 1..2 /\ index + Width(index) \in 1..Len(args) + 1
        BY <1>0, <2>2, NextStart
      <3>3. last \in index..Len(args) /\ last + 1 = index + Width(index)
        BY <1>0, <3>1, <3>2
      <3> HIDE DEF last
      <3>4. \A i \in index..last : i \notin Own
        BY <1>0, <3>1, <3>2, <3>3 DEF Own
      <3>5. Reached(last + 1)
        BY <1>0, <2>2, <3>3, ReachedNext
      <3> QED BY <2>1, <3>3, <3>4, <3>5 DEF PassesUpstream
    <2>3. CASE index \in Starts => Ends(index)
      <3>1. spans[index] = 1
        <4>1. index \in Starts => args[index].kind # "wrapper"
          BY <1>0, <2>3, WidthType
        <4> QED BY <1>2, <2>3, <4>1 DEF SpanAt
      <3>2. last = index
        BY <1>0, <3>1
      <3>3. Reached(index + 1) /\ \A i \in Starts : i <= index
        BY <1>0, <1>1, <2>3, ReachedFurther
      <3>4. index \notin Own
        BY <1>0, <2>3, WidthType DEF Own
      <3>5. \A i \in index..index : i \notin Own
        BY <1>0, <3>4
      <3>6. index \in index..Len(args)
        BY <1>0
      <3> QED BY <2>1, <3>2, <3>3, <3>5, <3>6 DEF PassesUpstream
    <2> QED BY <2>2, <2>3
  <1>5. CASE args[index].kind # "--" /\ ~IsUpstream(index)
    <2>1. index \in Own
      <3>1. spans[index] = 0
        BY <1>5 DEF IsUpstream
      <3>2. index \in Starts
        BY <1>2, <3>1 DEF SpanAt
      <3>3. ~Ends(index) => args[index].kind = "wrapper"
        <4>1. ~Ends(index) /\ args[index].kind # "wrapper" => Boundary(index) # 0
          BY DEF Ends, Width
        <4> QED BY <1>2, <3>1, <4>1 DEF SpanAt
      <3>4. args[index].kind = "wrapper"
        BY <1>2, <3>1, <3>2, <3>3 DEF SpanAt
      <3> QED BY <3>2, <3>4 DEF Own
    <2>2. args[index] \in Words
      BY <1>0, ArgsType
    <2>3. args[index].value \in Values /\ args[index].inline \in BOOLEAN
      BY <2>2 DEF Words
    <2> DEFINE word == args[index]
    <2>4. CASE word.inline
      <3>1. Take(word.key, word.value, 1) /\ WrapperSpan(index) = 1
        BY <1>5, <2>4 DEF Extract, WrapperSpan
      <3>2. ValueAt(index) = word.value /\ ~Incomplete(index)
        BY <2>4 DEF ValueAt, Incomplete
      <3> QED BY <2>1, <2>3, <3>1, <3>2 DEF ReadsOwn
    <2>5. CASE ~word.inline /\ ~NeedsValue(word.key)
      <3>1. Take(word.key, "a", 1) /\ WrapperSpan(index) = 1
        BY <1>5, <2>5 DEF Extract, WrapperSpan
      <3>2. ValueAt(index) = "a" /\ "a" \in Values /\ ~Incomplete(index)
        BY <2>5 DEF ValueAt, Values, Incomplete
      <3> QED BY <2>1, <3>1, <3>2 DEF ReadsOwn
    <2>6. CASE ~word.inline /\ NeedsValue(word.key) /\ index = Len(args)
      <3>1. Stop
        BY <1>5, <2>6 DEF Extract
      <3>2. Incomplete(index)
        BY <1>0, <2>6 DEF Incomplete, WrapperSpan
      <3> QED BY <2>1, <3>1, <3>2 DEF ReadsOwn
    <2>7. CASE ~word.inline /\ NeedsValue(word.key) /\ index # Len(args)
      <3>1. Take(word.key, AsValue(args[index + 1]), 2) /\ WrapperSpan(index) = 2
        <4>1. Take(word.key, AsValue(args[index + 1]), 2)
          BY <1>5, <2>7 DEF Extract
        <4>2. index < Len(args)
          <5>1. index \in 1..Len(args) /\ Len(args) \in Nat /\ index # Len(args)
            BY <1>0, <2>7
          <5> QED BY ONLY <5>1
        <4>3. WrapperSpan(index) = 2
          BY <2>7, <4>2 DEF WrapperSpan
        <4> QED BY <4>1, <4>3
      <3>2. args[index + 1] \in Words
        <4>1. index + 1 \in DOMAIN args
          <5>1. index # Len(args)
            BY <2>7
          <5>2. Len(args) \in Nat /\ index \in 1..Len(args) /\ DOMAIN args = 1..Len(args)
            BY <1>0
          <5>3. index + 1 \in 1..Len(args)
            BY <5>1, <5>2, NotLast
          <5> QED BY <5>2, <5>3, Zenon
        <4> QED BY <1>0, <4>1, ArgsType
      <3>3. AsValue(args[index + 1]) \in Values
        BY <3>2 DEF AsValue, Words, Values
      <3>4. ValueAt(index) = AsValue(args[index + 1]) /\ ~Incomplete(index)
        BY <2>7, <3>1 DEF ValueAt, Incomplete
      <3> QED BY <2>1, <3>1, <3>3, <3>4 DEF ReadsOwn
    <2> QED BY <2>4, <2>5, <2>6, <2>7
  <1> QED BY <1>3, <1>4, <1>5

(* It keeps the invariant. *)
LEMMA ExtractStep ==
  ASSUME ArgumentsInv, Extract
  PROVE  ArgumentsInv'
  <1>1. stage = "extract" /\ index \in 1..Len(args) /\ args \in Commands /\ Reached(index)
    BY StartTypes DEF Extract, ArgumentsInv, SecondPass
  <1>2. CASE PassesUpstream
    <2>1. PICK last \in index..Len(args) :
            PassThrough(last) /\ Reached(last + 1) /\ \A i \in index..last : i \notin Own
      BY <1>2 DEF PassesUpstream
    <2>2. \A i \in index..last : i \notin Taken
      BY <1>1, <2>1, NotTaken
    <2> QED BY <1>1, <2>1, <2>2, PassThroughStep
  <1>3. CASE ReadsOwn
    BY <1>1, <1>3, StopStep, TakeStep DEF ReadsOwn
  <1> QED BY <1>2, <1>3, ExtractCases

(* So do the steps before and after that pass. *)
LEMMA ReadLabelsStep ==
  ASSUME ArgumentsInv, ReadLabels
  PROVE  ArgumentsInv'
  <1>0. /\ Len(args) \in Nat /\ DOMAIN args = 1..Len(args) /\ Starts \subseteq 1..Len(args)
        /\ args \in Commands /\ env \in Environments
        /\ ArgumentsTypeOK
    BY StartTypes
  <1>1. CASE Stop
    BY <1>1, StopStep
  <1>2. CASE /\ ~ \E k \in Labels : env[k] \notin {"unset", "a", "b"}
             /\ labels' = [k \in Labels |-> IF env[k] = "unset" THEN <<>> ELSE <<env[k]>>]
             /\ stage' = "extract"
             /\ UNCHANGED <<input, index, spans, through, cli, options>>
    <2>1. stage = "environment" /\ index = 1 /\ through = <<>> /\ AllSpans
      BY DEF ArgumentsInv, FirstPass, ReadLabels
    <2>2. args' = args /\ env' = env /\ index' = index /\ through' = through /\ spans' = spans
      BY <1>2 DEF input
    <2>3. Reached(1)
      <3>1. CASE Len(args) = 0
        BY <1>0, <3>1 DEF Reached
      <3>2. CASE Len(args) # 0
        <4>1. 1 \in Starts
          BY <1>0, <3>2, StartsLead
        <4>2. \A i \in Starts : ~(i < 1)
          BY <1>0
        <4> QED BY <4>1, <4>2 DEF Reached
      <3> QED BY <3>1, <3>2
    <2>4. PassedTo(1)
      <3>1. Range(through) = {} /\ Ascending(through)
        BY <2>1 DEF Range, Ascending
      <3>2. {i \in DOMAIN args : i < 1} = {}
        BY <1>0
      <3> QED BY <3>1, <3>2 DEF PassedTo
    <2>5. Reached(index)' /\ PassedTo(index)' /\ AllSpans'
      <3>1. Reached(1)' /\ PassedTo(1)'
        BY <2>2, <2>3, <2>4, ReachedSame, PassedSame
      <3>2. AllSpans'
        BY <2>1, <2>2, SpansSame DEF AllSpans
      <3>3. index' = 1
        BY <2>1, <2>2
      <3> QED BY <3>1, <3>2, <3>3 DEF Reached, PassedTo
    <2>6. ArgumentsTypeOK'
      <3>1. labels' \in [Labels -> Seq({"a", "b"})]
        <4>1. \A k \in Labels : (IF env[k] = "unset" THEN <<>> ELSE <<env[k]>>) \in Seq({"a", "b"})
          <5> TAKE k \in Labels
          <5>1. env[k] = "unset" \/ env[k] \in {"a", "b"}
            BY <1>2
          <5>2. <<>> \in Seq({"a", "b"}) /\ \A x \in {"a", "b"} : <<x>> \in Seq({"a", "b"})
            BY ShortSequences
          <5> QED BY <5>1, <5>2
        <4> QED BY <1>2, <4>1
      <3> QED BY <1>0, <1>2, <3>1 DEF ArgumentsTypeOK, input
    <2> QED BY <1>0, <1>2, <2>2, <2>5, <2>6 DEF ArgumentsInv, FirstPass, SecondPass, Asked, InputOK, Afterwards
  <1> QED BY <1>1, <1>2 DEF ReadLabels

(* A step after the second pass, or one that ends it. *)
LEMMA AfterwardsStep ==
  ASSUME ArgumentsInv, stage' \in {"defaults", "checks", "done", "error"}, PassedTo(Len(args) + 1),
         UNCHANGED <<input, index, spans, through, cli, labels>>,
         options' \in [Keys -> Values \cup {"default"}]
  PROVE  ArgumentsInv'
  <1>1. args' = args /\ env' = env /\ through' = through
    BY DEF input
  <1>2. PassedTo(Len(args) + 1)'
    BY <1>1, PassedSame
  <1>3. ArgumentsTypeOK'
    BY DEF ArgumentsInv, ArgumentsTypeOK, input
  <1>4. FirstPass' /\ SecondPass' /\ Asked' /\ InputOK'
    BY <1>1, <1>2 DEF FirstPass, SecondPass, Asked, InputOK, ArgumentsInv, Afterwards
  <1> QED BY <1>3, <1>4 DEF ArgumentsInv

LEMMA DefaultsStep ==
  ASSUME ArgumentsInv, Defaults
  PROVE  ArgumentsInv'
  <1> DEFINE value(k) == IF UsesEnv(k) THEN env[k]
                         ELSE IF cli[k] # "unset" THEN cli[k] ELSE "default"
  <1>1. CASE Stop
    BY <1>1, StopStep
  <1>2. CASE /\ options' = [k \in Keys |-> IF k \in Labels THEN "default" ELSE value(k)]
             /\ stage' = "checks"
             /\ UNCHANGED <<input, index, spans, through, cli, labels>>
    <2>1. env \in [Keys -> Values \cup {"unset"}] /\ cli \in [Keys -> Values \cup {"unset"}]
      BY EnvironmentsAssumption DEF ArgumentsInv, InputOK, ArgumentsTypeOK
    <2>2. \A k \in Keys : value(k) \in Values \cup {"default"}
      BY <2>1 DEF UsesEnv
    <2>3. options' \in [Keys -> Values \cup {"default"}]
      BY <1>2, <2>2
    <2>4. PassedTo(Len(args) + 1)
      BY DEF ArgumentsInv, SecondPass, Afterwards, Defaults
    <2> QED BY <1>2, <2>3, <2>4, AfterwardsStep
  <1> QED BY <1>1, <1>2 DEF Defaults

LEMMA CheckStep ==
  ASSUME ArgumentsInv, ExtractEnds \/ Check
  PROVE  ArgumentsInv'
  <1>0. /\ index \in 1..Len(args) + 1 /\ Len(args) \in Nat /\ ArgumentsTypeOK
    BY StartTypes
  <1>1. PassedTo(Len(args) + 1)
    <2>1. CASE ExtractEnds
      <3>1. index = Len(args) + 1
        BY <1>0, <2>1 DEF ExtractEnds
      <3> QED BY <2>1, <3>1 DEF ArgumentsInv, SecondPass, ExtractEnds
    <2>2. CASE Check
      BY <2>2 DEF ArgumentsInv, SecondPass, Afterwards, Check
    <2> QED BY <2>1, <2>2
  <1>2. /\ stage' \in {"defaults", "checks", "done", "error"}
        /\ UNCHANGED <<input, index, spans, through, cli, labels, options>>
    BY DEF ExtractEnds, Check
  <1> QED BY <1>0, <1>1, <1>2, AfterwardsStep DEF ArgumentsTypeOK

(* The inductive invariant holds in every state, whatever is typed. *)
THEOREM ArgumentsInvariance == ArgumentsSpec => []ArgumentsInv
  <1>1. ArgumentsInv /\ [ArgumentsNext]_argumentsVars => ArgumentsInv'
    <2> SUFFICES ASSUME ArgumentsInv, [ArgumentsNext]_argumentsVars PROVE ArgumentsInv'
      OBVIOUS
    <2>1. CASE UNCHANGED argumentsVars
      <3>1. ArgumentsTypeOK' /\ InputOK'
        BY <2>1 DEF ArgumentsInv, ArgumentsTypeOK, InputOK, argumentsVars, input
      <3>2. args' = args /\ spans' = spans /\ through' = through /\ index' = index /\ stage' = stage
        BY <2>1 DEF argumentsVars, input
      <3>3. FirstPass'
        BY <3>2, SpansSame, Unmoved DEF ArgumentsInv, FirstPass, AllSpans
      <3>4. SecondPass'
        BY <3>2, ReachedSame, PassedSame DEF ArgumentsInv, SecondPass
      <3>5. Asked'
        BY <3>2, Unmoved DEF ArgumentsInv, Asked
      <3> QED BY <3>1, <3>3, <3>4, <3>5 DEF ArgumentsInv
    <2> QED BY <2>1, FindBoundaryStep, ReadLabelsStep, ExtractStep, DefaultsStep, CheckStep DEF ArgumentsNext
  <1> QED BY <1>1, ArgumentsInitInv, PTL DEF ArgumentsSpec

(* Types, for command lines of any length. *)
THEOREM ArgumentsTypeCorrect == ArgumentsSpec => []ArgumentsTypeOK
  <1>1. ArgumentsInv => ArgumentsTypeOK
    BY DEF ArgumentsInv
  <1> QED BY <1>1, ArgumentsInvariance, PTL

(* The two passes over the words agree (argument_boundaries and            *)
(* extract_app_options of src/src/args.rs): libiperf gets every word that  *)
(* is no option of the wrapper and no value of one, in order and once,     *)
(* whatever the words look like; help and version are answered only when a *)
(* word that is read as an option asks for them.                           *)
THEOREM Untouched == ArgumentsSpec => []UpstreamUntouched
  <1>1. ArgumentsInv => UpstreamUntouched
    <2> SUFFICES ASSUME ArgumentsInv PROVE UpstreamUntouched
      OBVIOUS
    <2>1. Len(args) \in Nat /\ DOMAIN args = 1..Len(args)
      BY StartTypes
    <2>2. {i \in DOMAIN args : i < Len(args) + 1} = DOMAIN args
      BY <2>1
    <2> QED BY <2>2 DEF UpstreamUntouched, ArgumentsInv, SecondPass, Asked, PassedTo, Afterwards
  <1> QED BY <1>1, ArgumentsInvariance, PTL

-----------------------------------------------------------------------------
(* Arguments: what the command line means. *)

(* Options of a key before position n; the label a default gives; the      *)
(* enumeration of a set of positions, and the values found there.          *)
OwnTo(k, n) == {i \in OwnOf(k) : i < n}
DefaultLabel(k) == IF env[k] = "unset" THEN <<>> ELSE <<env[k]>>
Enumerates(s, S) == s \in [1..Cardinality(S) -> S] /\ Range(s) = S /\ Ascending(s)
ValuesOf(s, n) == [m \in 1..n |-> ValueAt(s[m])]

(* What the options before position n mean, and that none was faulty.      *)
ValueTo(k, n) == IF k \in Labels \/ OwnTo(k, n) = {} THEN "unset" ELSE ValueAt(Max(OwnTo(k, n)))
LabelTo(k, n, values) ==
  /\ \E s : Enumerates(s, OwnTo(k, n))
  /\ \A s : Enumerates(s, OwnTo(k, n)) =>
       values = DefaultLabel(k) \o ValuesOf(s, Cardinality(OwnTo(k, n)))

(* An option that has a value, and one its parser accepts. *)
Good(i) == ~Incomplete(i) /\ Accepted(args[i].key, ValueAt(i))

(* What was read, c and l, is what the options before position n mean. *)
ReadRight(n, c, l) ==
  /\ \A k \in Keys : c[k] = ValueTo(k, n)
  /\ \A k \in Keys : c[k] # "unset" => Accepted(k, c[k])
  /\ \A k \in Labels : LabelTo(k, n, l[k])
  /\ \A i \in Own : i < n => Good(i)

(* The defaults that are read, and the settings in effect, are accepted. *)
EnvLabelsGood == \A k \in Labels : env[k] \in {"unset", "a", "b"}
EffectiveGood ==
  /\ \A k \in Keys : Effective[k] # "default" => Accepted(k, Effective[k])
  /\ Effective["url"] \in {"default", "a", "b"}

(* What has been read so far is what the words read so far mean, and a     *)
(* command line fails only when it is faulty.                              *)
MeaningInv ==
  /\ stage \in {"boundaries", "environment"} => cli = [k \in Keys |-> "unset"]
  /\ stage = "extract" => ReadRight(index, cli, labels)
  /\ stage \in Afterwards => ReadRight(Len(args) + 1, cli, labels)
  /\ stage \in {"extract"} \cup Afterwards => EnvLabelsGood
  /\ stage \in {"checks", "done"} => options = Effective /\ EffectiveGood
  /\ stage = "done" => ~Misplaced(Given, Effective, AllLabels)
  /\ stage = "error" => Faulty

(* What is defined from the words alone stays. *)
LEMMA SameMeaning ==
  ASSUME args' = args, env' = env
  PROVE  /\ Given' = Given /\ Effective' = Effective /\ AllLabels' = AllLabels
         /\ Faulty' <=> Faulty
         /\ EnvLabelsGood' <=> EnvLabelsGood
         /\ EffectiveGood' <=> EffectiveGood
         /\ \A k : OwnOf(k)' = OwnOf(k)
         /\ \A i : ValueAt(i)' = ValueAt(i) /\ (Incomplete(i)' <=> Incomplete(i))
  <1>1. Own' = Own /\ \A i : WrapperSpan(i)' = WrapperSpan(i)
    BY Unmoved
  <1>2. \A k : OwnOf(k)' = OwnOf(k)
    BY <1>1 DEF OwnOf
  <1>3. \A i : ValueAt(i)' = ValueAt(i)
    BY DEF ValueAt
  <1>4. \A i : Incomplete(i)' <=> Incomplete(i)
    BY <1>1 DEF Incomplete
  <1>5. Given' = Given
    BY <1>2, <1>3, SMT DEF Given
  <1>6. Effective' = Effective
    BY <1>5, SMT DEF Effective
  <1>7. AllLabels' = AllLabels
    BY <1>1, SMT DEF AllLabels, OwnOf, ValueAt, InOrder, Ascending
  <1>8. EnvLabelsGood' <=> EnvLabelsGood
    BY DEF EnvLabelsGood
  <1>9. EffectiveGood' <=> EffectiveGood
    BY <1>6 DEF EffectiveGood
  <1>10. Faulty' <=> Faulty
    BY <1>1, <1>3, <1>4, <1>6, <1>5, <1>7 DEF Faulty
  <1> QED BY <1>2, <1>3, <1>4, <1>5, <1>6, <1>7, <1>8, <1>9, <1>10

(* What was read up to a position, when the words and what was read stay.  *)
LEMMA MeaningSame ==
  ASSUME args' = args, env' = env
  PROVE  /\ \A k, m : ValueTo(k, m)' = ValueTo(k, m)
         /\ \A k, m, v : LabelTo(k, m, v)' <=> LabelTo(k, m, v)
         /\ \A i : Good(i)' <=> Good(i)
         /\ Own' = Own
  <1>1. \A k, m : OwnTo(k, m)' = OwnTo(k, m)
    BY SameMeaning DEF OwnTo
  <1>2. /\ \A k : DefaultLabel(k)' = DefaultLabel(k)
        /\ \A s, m : ValuesOf(s, m)' = ValuesOf(s, m)
    BY SameMeaning DEF DefaultLabel, ValuesOf
  <1>3. \A k, m : ValueTo(k, m)' = ValueTo(k, m)
    BY <1>1, SameMeaning DEF ValueTo
  <1>5. \A i : Good(i)' <=> Good(i)
    BY SameMeaning DEF Good
  <1>6. Own' = Own
    BY Unmoved
  <1>4. \A k, m, v : LabelTo(k, m, v)' <=> LabelTo(k, m, v)
    BY <1>6, SMT DEF LabelTo, OwnTo, OwnOf, DefaultLabel, ValuesOf, ValueAt, Enumerates, Ascending
  <1> QED BY <1>3, <1>4, <1>5, <1>6

LEMMA ReadRightSame ==
  ASSUME args' = args, env' = env, NEW n, NEW c, NEW l, n = index', c = cli', l = labels',
         ReadRight(n, c, l)
  PROVE  ReadRight(index, cli, labels)'
  BY MeaningSame DEF ReadRight

LEMMA ReadRightStays ==
  ASSUME args' = args, env' = env, cli' = cli, labels' = labels,
         ReadRight(Len(args) + 1, cli, labels)
  PROVE  ReadRight(Len(args) + 1, cli, labels)'
  BY MeaningSame DEF ReadRight

-----------------------------------------------------------------------------
(* Sets of options are finite. *)
LEMMA OwnFacts ==
  ASSUME args \in Commands
  PROVE  /\ Len(args) \in Nat /\ Own \subseteq 1..Len(args)
         /\ \A k, n : /\ OwnTo(k, n) \subseteq 1..Len(args)
                      /\ IsFiniteSet(OwnTo(k, n)) /\ Cardinality(OwnTo(k, n)) \in Nat
         /\ \A k : OwnTo(k, Len(args) + 1) = OwnOf(k)
  <1>1. Len(args) \in Nat /\ Own \subseteq 1..Len(args)
    BY ArgsType, StartsLead DEF Own
  <1>2. IsFiniteSet(1..Len(args))
    BY <1>1, FS_Interval
  <1>3. \A k, n : OwnTo(k, n) \subseteq 1..Len(args)
    BY <1>1 DEF OwnTo, OwnOf
  <1>4. \A k, n : IsFiniteSet(OwnTo(k, n)) /\ Cardinality(OwnTo(k, n)) \in Nat
    BY <1>2, <1>3, FS_Subset, FS_CardinalityType
  <1>5. \A k : OwnTo(k, Len(args) + 1) = OwnOf(k)
    <2> TAKE k
    <2>1. \A i \in OwnOf(k) : i < Len(args) + 1
      BY <1>1 DEF OwnOf
    <2> QED BY <2>1 DEF OwnTo
  <1> QED BY <1>1, <1>3, <1>4, <1>5

(* The largest element of a set. *)
LEMMA MaxOf ==
  ASSUME NEW S \in SUBSET Nat, NEW x \in S, \A y \in S : y <= x
  PROVE  Max(S) = x
  <1> DEFINE P(z) == z \in S /\ \A y \in S : z >= y
  <1>0. \A z \in S : z \in Nat
    OBVIOUS
  <1>1. P(x) /\ \A z : P(z) => z = x
    <2>1. P(x)
      BY <1>0
    <2>2. ASSUME NEW z, P(z) PROVE z = x
      <3>1. z \in Nat /\ x \in Nat /\ z >= x /\ z <= x
        BY <1>0, <2>2
      <3> QED BY <3>1
    <2> QED BY <2>1, <2>2
  <1>2. Max(S) = CHOOSE z \in S : \A y \in S : z >= y
    BY DEF Max
  <1> QED BY <1>1, <1>2

(* An enumeration of a set, extended by a larger element, and cut back.    *)
LEMMA EnumAdd ==
  ASSUME NEW S \in SUBSET Nat, IsFiniteSet(S), NEW x \in Nat, \A y \in S : y < x,
         NEW s, Enumerates(s, S)
  PROVE  \E t : Enumerates(t, S \cup {x})
  <1> DEFINE c == Cardinality(S)
             t == [i \in 1..c + 1 |-> IF i = c + 1 THEN x ELSE s[i]]
  <1>1. c \in Nat /\ Cardinality(S \cup {x}) = c + 1
    BY FS_CardinalityType, FS_AddElement
  <1>2. s \in [1..c -> S] /\ Range(s) = S /\ Ascending(s)
    BY DEF Enumerates
  <1> HIDE DEF c
  <1>3. t \in [1..c + 1 -> S \cup {x}]
    BY <1>1, <1>2
  <1>4. Range(t) = S \cup {x}
    <2>1. t[c + 1] = x /\ \A i \in 1..c : t[i] = s[i]
      BY <1>1
    <2>2. \A y \in S : \E i \in 1..c : s[i] = y
      BY <1>2 DEF Range
    <2>3. \A y \in S \cup {x} : \E i \in 1..c + 1 : t[i] = y
      BY <1>1, <2>1, <2>2
    <2> QED BY <1>3, <2>3 DEF Range
  <1>5. Ascending(t)
    <2>1. DOMAIN s = 1..c /\ DOMAIN t = 1..c + 1
      BY <1>2, <1>3
    <2> SUFFICES ASSUME NEW m \in 1..c + 1, NEW n \in 1..c + 1, m < n PROVE t[m] < t[n]
      BY <2>1 DEF Ascending
    <2>2. m \in 1..c /\ t[m] = s[m] /\ s[m] \in S
      BY <1>1, <1>2
    <2>3. CASE n = c + 1
      BY <1>1, <2>2, <2>3
    <2>4. CASE n # c + 1
      <3>1. n \in 1..c /\ t[n] = s[n]
        BY <1>1, <2>4
      <3> QED BY <1>2, <2>1, <2>2, <3>1 DEF Ascending
    <2> QED BY <2>3, <2>4
  <1> QED BY <1>1, <1>3, <1>4, <1>5 DEF Enumerates

LEMMA EnumCut ==
  ASSUME NEW S \in SUBSET Nat, IsFiniteSet(S), NEW x \in Nat, \A y \in S : y < x,
         NEW t, Enumerates(t, S \cup {x})
  PROVE  /\ Cardinality(S) \in Nat /\ Cardinality(S \cup {x}) = Cardinality(S) + 1
         /\ t[Cardinality(S) + 1] = x
         /\ Enumerates([i \in 1..Cardinality(S) |-> t[i]], S)
  <1> DEFINE c == Cardinality(S)
             s == [i \in 1..c |-> t[i]]
  <1>1. c \in Nat /\ Cardinality(S \cup {x}) = c + 1
    BY FS_CardinalityType, FS_AddElement
  <1>2. t \in [1..c + 1 -> S \cup {x}] /\ Range(t) = S \cup {x} /\ Ascending(t)
    BY <1>1 DEF Enumerates
  <1> HIDE DEF c
  <1>3. \A m, n \in 1..c + 1 : m < n => t[m] < t[n]
    BY <1>2 DEF Ascending
  <1>4. \A y \in S \cup {x} : \E i \in 1..c + 1 : t[i] = y
    BY <1>2 DEF Range
  <1>5. \A i \in 1..c + 1 : t[i] \in S \cup {x}
    BY <1>2
  <1>6. t[c + 1] = x
    <2>1. PICK i \in 1..c + 1 : t[i] = x
      BY <1>4
    <2>2. t[c + 1] \in S \cup {x} /\ c + 1 \in 1..c + 1
      BY <1>1, <1>5
    <2>3. t[c + 1] \in Nat /\ t[c + 1] <= x
      <3>1. \A z \in S \cup {x} : z \in Nat /\ z <= x
        <4>1. \A z \in S : z \in Nat /\ z < x
          OBVIOUS
        <4>2. x \in Nat /\ x <= x
          OBVIOUS
        <4> QED BY <4>1, <4>2
      <3> QED BY <2>2, <3>1, Zenon
    <2>4. CASE i # c + 1
      <3>1. i < c + 1
        BY <1>1, <2>4
      <3>2. t[i] < t[c + 1]
        BY <1>3, <2>2, <3>1
      <3> QED BY <2>1, <2>3, <3>2
    <2> QED BY <2>1, <2>4
  <1>7. \A i \in 1..c : t[i] \in S
    <2> TAKE i \in 1..c
    <2>1. t[i] < x /\ t[i] \in S \cup {x}
      BY <1>1, <1>3, <1>5, <1>6
    <2> QED BY <2>1
  <1>8. s \in [1..c -> S]
    BY <1>7
  <1>9. Range(s) = S
    <2>1. \A y \in S : \E i \in 1..c : s[i] = y
      <3> TAKE y \in S
      <3>1. PICK i \in 1..c + 1 : t[i] = y
        BY <1>4
      <3>2. i # c + 1
        BY <1>6, <3>1
      <3> QED BY <1>1, <3>1, <3>2
    <2> QED BY <1>8, <2>1 DEF Range
  <1>10. Ascending(s)
    BY <1>1, <1>3 DEF Ascending
  <1> QED BY <1>1, <1>6, <1>8, <1>9, <1>10 DEF Enumerates, c

(* One more option of a label, one more value. *)
LEMMA ValuesAppended ==
  ASSUME NEW d, d \in Seq(Values), NEW c \in Nat, NEW s, NEW t,
         \A i \in 1..c : s[i] = t[i] /\ ValueAt(t[i]) \in Values, ValueAt(t[c + 1]) \in Values
  PROVE  Append(d \o ValuesOf(s, c), ValueAt(t[c + 1])) = d \o ValuesOf(t, c + 1)
  <1> DEFINE a == ValuesOf(s, c)
             b == ValuesOf(t, c + 1)
  <1>1. a \in Seq(Values) /\ Len(a) = c /\ \A i \in 1..c : a[i] = ValueAt(t[i])
    BY DEF ValuesOf
  <1>2. b \in Seq(Values) /\ Len(b) = c + 1 /\ \A i \in 1..c + 1 : b[i] = ValueAt(t[i])
    BY DEF ValuesOf
  <1>3. b = Append(a, ValueAt(t[c + 1]))
    BY <1>1, <1>2
  <1> HIDE DEF a, b
  <1>4. Append(d \o a, ValueAt(t[c + 1])) = d \o Append(a, ValueAt(t[c + 1]))
    BY <1>1
  <1> QED BY <1>3, <1>4 DEF a, b

-----------------------------------------------------------------------------
(* What is read when no option of the wrapper starts between n and m.      *)
LEMMA ReadRightSkip ==
  ASSUME args \in Commands, NEW n \in Nat, NEW m \in Nat, n <= m,
         \A i \in n..m - 1 : i \notin Own, ReadRight(n, cli, labels)
  PROVE  ReadRight(m, cli, labels)
  <1>1. Own \subseteq Nat
    BY OwnFacts
  <1>2. \A i \in Own : i < m <=> i < n
    <2> TAKE i \in Own
    <2>1. i \in Nat /\ i \notin n..m - 1
      BY <1>1
    <2> QED BY <2>1
  <1>3. \A k : OwnTo(k, m) = OwnTo(k, n)
    BY <1>2 DEF OwnTo, OwnOf
  <1>4. \A k : ValueTo(k, m) = ValueTo(k, n)
    BY <1>3 DEF ValueTo
  <1>5. \A k, v : LabelTo(k, m, v) <=> LabelTo(k, n, v)
    BY <1>3 DEF LabelTo
  <1> QED BY <1>2, <1>4, <1>5 DEF ReadRight

(* What is read when an option has been taken. *)
LEMMA OwnToNext ==
  ASSUME args \in Commands, NEW x \in Own
  PROVE  /\ x \in 1..Len(args) /\ WrapperSpan(x) \in 1..2 /\ args[x].key \in Keys
         /\ \A i \in Own : i < x + WrapperSpan(x) => i < x \/ i = x
         /\ OwnTo(args[x].key, x + WrapperSpan(x)) = OwnTo(args[x].key, x) \cup {x}
         /\ \A k : k # args[x].key => OwnTo(k, x + WrapperSpan(x)) = OwnTo(k, x)
  <1>1. /\ x \in Starts /\ ~Ends(x) /\ Width(x) = WrapperSpan(x)
        /\ Width(x) \in 1..2 /\ args[x].key \in Keys /\ x \in 1..Len(args)
    BY OwnWidth
  <1>2. \A i \in Own : i \in 1..Len(args) /\ i \in Starts
    BY OwnFacts DEF Own
  <1>3. \A i \in Own : i < x + WrapperSpan(x) => i <= x
    BY <1>1, <1>2, NextStart
  <1>4. \A i \in Own : i < x + WrapperSpan(x) <=> i < x \/ i = x
    BY <1>1, <1>2, <1>3
  <1> QED BY <1>1, <1>4 DEF OwnTo, OwnOf

(* What is read then is what the options up to there mean. *)
LEMMA ReadRightTake ==
  ASSUME ArgumentsInv, stage = "extract", EnvLabelsGood, ReadRight(index, cli, labels), index \in Own,
         ~Incomplete(index), ValueAt(index) \in Values, Accepted(args[index].key, ValueAt(index)),
         NEW c, NEW l,
         IF args[index].key \in Labels
         THEN c = cli /\ l = [labels EXCEPT ![args[index].key] = Append(@, ValueAt(index))]
         ELSE l = labels /\ c = [cli EXCEPT ![args[index].key] = ValueAt(index)]
  PROVE  ReadRight(index + WrapperSpan(index), c, l)
  <1> DEFINE key == args[index].key
             m == index + WrapperSpan(index)
  <1>0. /\ Len(args) \in Nat /\ args \in Commands /\ ArgumentsTypeOK
    BY StartTypes
  <1>1. /\ index \in 1..Len(args) /\ WrapperSpan(index) \in 1..2 /\ key \in Keys
        /\ \A i \in Own : i < m => i < index \/ i = index
        /\ OwnTo(key, m) = OwnTo(key, index) \cup {index}
        /\ \A k : k # key => OwnTo(k, m) = OwnTo(k, index)
    BY <1>0, OwnToNext
  <1>2. /\ OwnTo(key, index) \in SUBSET Nat /\ index \in Nat
        /\ \A i \in OwnTo(key, index) : i < index
        /\ IsFiniteSet(OwnTo(key, index))
    <2>1. OwnTo(key, index) \subseteq 1..Len(args) /\ IsFiniteSet(OwnTo(key, index))
      BY <1>0, OwnFacts
    <2>2. 1..Len(args) \subseteq Nat /\ index \in Nat
      BY <1>0, <1>1
    <2>3. \A i \in OwnTo(key, index) : i < index
      BY DEF OwnTo
    <2> QED BY <2>1, <2>2, <2>3
  <1>3. \A i \in Own : i < m => Good(i)
    BY <1>1 DEF ReadRight, Good
  <1>4. /\ cli \in [Keys -> Values \cup {"unset"}] /\ labels \in [Labels -> Seq({"a", "b"})]
    BY <1>0 DEF ArgumentsTypeOK
  <1> HIDE DEF key, m
  <1>5. ASSUME NEW k \in Keys, k # key
        PROVE  ValueTo(k, m) = ValueTo(k, index)
    BY <1>1, <1>5 DEF ValueTo
  <1>6. ASSUME NEW k \in Labels, k # key, NEW v
        PROVE  LabelTo(k, m, v) <=> LabelTo(k, index, v)
    BY <1>1, <1>6 DEF LabelTo
  <1>7. CASE key \notin Labels
    <2>1. l = labels /\ c = [cli EXCEPT ![key] = ValueAt(index)]
      BY <1>7 DEF key
    <2>2. ValueTo(key, m) = ValueAt(index)
      <3>1. Max(OwnTo(key, m)) = index
        <4>1. OwnTo(key, m) \in SUBSET Nat /\ index \in OwnTo(key, m)
          BY <1>1, <1>2
        <4>2. \A y \in OwnTo(key, m) : y <= index
          BY <1>1, <1>2
        <4> QED BY <4>1, <4>2, MaxOf
      <3>2. OwnTo(key, m) # {}
        BY <1>1
      <3> QED BY <1>7, <3>1, <3>2 DEF ValueTo
    <2>3. c[key] = ValueAt(index) /\ \A k \in Keys : k # key => c[k] = cli[k]
      BY <1>1, <1>4, <2>1
    <2>4. \A k \in Keys : c[k] = ValueTo(k, m)
      BY <1>5, <2>2, <2>3 DEF ReadRight
    <2>5. \A k \in Keys : c[k] # "unset" => Accepted(k, c[k])
      BY <2>3 DEF ReadRight, key
    <2>6. \A k \in Labels : LabelTo(k, m, l[k])
      BY <1>6, <1>7, <2>1 DEF ReadRight
    <2> QED BY <1>3, <2>4, <2>5, <2>6 DEF ReadRight, m
  <1>8. CASE key \in Labels
    <2>1. c = cli /\ l = [labels EXCEPT ![key] = Append(@, ValueAt(index))]
      BY <1>8 DEF key
    <2>2. l[key] = Append(labels[key], ValueAt(index)) /\ \A k \in Labels : k # key => l[k] = labels[k]
      BY <1>4, <1>8, <2>1
    <2>3. LabelTo(key, index, labels[key])
      BY <1>8 DEF ReadRight
    <2>4. \E s : Enumerates(s, OwnTo(key, m))
      <3>1. PICK s : Enumerates(s, OwnTo(key, index))
        BY <2>3 DEF LabelTo
      <3>2. \E t : Enumerates(t, OwnTo(key, index) \cup {index})
        BY <1>2, <3>1, EnumAdd
      <3> QED BY <1>1, <3>2, Zenon
    <2>5. ASSUME NEW t, Enumerates(t, OwnTo(key, m))
          PROVE  l[key] = DefaultLabel(key) \o ValuesOf(t, Cardinality(OwnTo(key, m)))
      <3> DEFINE n == Cardinality(OwnTo(key, index))
                 s == [i \in 1..n |-> t[i]]
      <3>1. /\ n \in Nat /\ Cardinality(OwnTo(key, m)) = n + 1 /\ t[n + 1] = index
            /\ Enumerates(s, OwnTo(key, index))
        <4> DEFINE S == OwnTo(key, index)
        <4>1. /\ S \in SUBSET Nat /\ IsFiniteSet(S) /\ index \in Nat
              /\ \A y \in S : y < index
          BY <1>2
        <4>2. OwnTo(key, m) = S \cup {index}
          BY <1>1
        <4>3. Enumerates(t, S \cup {index})
          BY <2>5, <4>2
        <4> HIDE DEF S
        <4>4. /\ Cardinality(S) \in Nat /\ Cardinality(S \cup {index}) = Cardinality(S) + 1
              /\ t[Cardinality(S) + 1] = index
              /\ Enumerates([i \in 1..Cardinality(S) |-> t[i]], S)
          BY ONLY <4>1, <4>3, EnumCut
        <4> QED BY <4>2, <4>4 DEF S
      <3>2. labels[key] = DefaultLabel(key) \o ValuesOf(s, n)
        BY <2>3, <3>1 DEF LabelTo
      <3>3. DefaultLabel(key) \in Seq(Values)
        <4>1. env[key] = "unset" \/ env[key] \in Values
          BY <1>8 DEF EnvLabelsGood, Values
        <4> QED BY <4>1, ShortSequences DEF DefaultLabel
      <3>4. \A i \in 1..n : s[i] = t[i] /\ ValueAt(t[i]) \in Values
        <4> TAKE i \in 1..n
        <4>1. s[i] = t[i] /\ s[i] \in OwnTo(key, index)
          BY <3>1 DEF Enumerates
        <4>2. s[i] \in Own /\ s[i] < index
          BY <4>1 DEF OwnTo, OwnOf
        <4>3. ValueAt(s[i]) \in {"a", "b"}
          <5>1. Good(s[i]) /\ args[s[i]].key = key
            BY <4>1, <4>2 DEF ReadRight, OwnTo, OwnOf
          <5> QED BY <1>8, <5>1 DEF Good, Accepted, Labels, Free
        <4> QED BY <4>1, <4>3 DEF Values
      <3> HIDE DEF n, s
      <3>5. Append(DefaultLabel(key) \o ValuesOf(s, n), ValueAt(t[n + 1]))
              = DefaultLabel(key) \o ValuesOf(t, n + 1)
        BY <3>1, <3>3, <3>4, ValuesAppended
      <3> QED BY <2>2, <3>1, <3>2, <3>5
    <2>6. \A k \in Labels : LabelTo(k, m, l[k])
      <3>1. LabelTo(key, m, l[key])
        BY <2>4, <2>5 DEF LabelTo
      <3> QED BY <1>6, <2>2, <3>1 DEF ReadRight
    <2>7. \A k \in Keys : c[k] = ValueTo(k, m)
      <3>1. ValueTo(key, m) = ValueTo(key, index)
        BY <1>8 DEF ValueTo
      <3> QED BY <1>5, <2>1, <3>1 DEF ReadRight
    <2>8. \A k \in Keys : c[k] # "unset" => Accepted(k, c[k])
      BY <2>1 DEF ReadRight
    <2> QED BY <1>3, <2>6, <2>7, <2>8 DEF ReadRight, m
  <1> QED BY <1>7, <1>8

(* Before the first word, and behind the last.                             *)
LEMMA ReadRightStart ==
  ASSUME args \in Commands, NEW c, NEW l, c = [k \in Keys |-> "unset"],
         l = [k \in Labels |-> DefaultLabel(k)], EnvLabelsGood
  PROVE  ReadRight(1, c, l)
  <1>1. \A i \in Own : ~(i < 1)
    BY OwnFacts
  <1>2. \A k : OwnTo(k, 1) = {}
    BY <1>1 DEF OwnTo, OwnOf
  <1>3. \A k \in Keys : ValueTo(k, 1) = "unset"
    BY <1>2 DEF ValueTo
  <1>4. \A k \in Labels : LabelTo(k, 1, DefaultLabel(k))
    <2> TAKE k \in Labels
    <2>1. Cardinality({}) = 0
      BY FS_EmptySet
    <2>2. Enumerates(<<>>, {})
      BY <2>1 DEF Enumerates, Range, Ascending
    <2>3. ASSUME NEW s PROVE DefaultLabel(k) = DefaultLabel(k) \o ValuesOf(s, 0)
      <3>1. ValuesOf(s, 0) = <<>>
        BY DEF ValuesOf
      <3>2. DefaultLabel(k) \in Seq({"a", "b"})
        <4>1. env[k] = "unset" \/ env[k] \in {"a", "b"}
          BY DEF EnvLabelsGood
        <4> QED BY <4>1, ShortSequences DEF DefaultLabel
      <3> QED BY <3>1, <3>2
    <2> QED BY <1>2, <2>1, <2>2, <2>3 DEF LabelTo
  <1> QED BY <1>1, <1>3, <1>4 DEF ReadRight

(* Behind the last word it is what the whole command line means. *)
LEMMA ReadRightEnd ==
  ASSUME ArgumentsInv, ReadRight(Len(args) + 1, cli, labels)
  PROVE  cli = Given /\ labels = AllLabels /\ \A i \in Own : Good(i)
  <1>0. args \in Commands /\ ArgumentsTypeOK
    BY StartTypes
  <1>1. /\ \A k : OwnTo(k, Len(args) + 1) = OwnOf(k)
        /\ \A i \in Own : i < Len(args) + 1
    BY <1>0, OwnFacts
  <1>2. cli = Given
    <2>1. \A k \in Keys : cli[k] = IF k \in Labels \/ OwnOf(k) = {} THEN "unset"
                                   ELSE ValueAt(Max(OwnOf(k)))
      BY <1>1 DEF ReadRight, ValueTo
    <2> QED BY <1>0, <2>1 DEF Given, ArgumentsTypeOK
  <1>3. \A k \in Labels : labels[k] = DefaultLabel(k) \o ValuesOf(InOrder(OwnOf(k)), Cardinality(OwnOf(k)))
    <2> TAKE k \in Labels
    <2>1. LabelTo(k, Len(args) + 1, labels[k])
      BY DEF ReadRight
    <2>2. Enumerates(InOrder(OwnOf(k)), OwnOf(k))
      BY <1>1, <2>1 DEF LabelTo, Enumerates, InOrder
    <2> QED BY <1>1, <2>1, <2>2 DEF LabelTo
  <1>4. labels = AllLabels
    BY <1>0, <1>3 DEF AllLabels, ArgumentsTypeOK, ValuesOf, DefaultLabel
  <1> QED BY <1>1, <1>2, <1>4 DEF ReadRight

-----------------------------------------------------------------------------
(* A faulty command line may fail. *)
LEMMA FaultyMeans ==
  ASSUME Faulty, Stop
  PROVE  MeaningInv'
  <1>1. args' = args /\ env' = env /\ stage' = "error"
    BY DEF Stop, input
  <1>2. Faulty'
    BY <1>1, SameMeaning
  <1> QED BY <1>1, <1>2 DEF MeaningInv, Afterwards

(* The rest of a step that goes on. *)
LEMMA GoesOnMeans ==
  ASSUME args' = args, env' = env, stage' = "extract", EnvLabelsGood,
         NEW n, NEW c, NEW l, n = index', c = cli', l = labels', ReadRight(n, c, l)
  PROVE  MeaningInv'
  <1>1. ReadRight(index, cli, labels)' /\ EnvLabelsGood'
    BY ReadRightSame, SameMeaning
  <1> QED BY <1>1 DEF MeaningInv, Afterwards

(* Each step keeps the invariant: those before the second pass, *)
LEMMA FindBoundaryMeans ==
  ASSUME ArgumentsInv, MeaningInv, FindBoundary
  PROVE  MeaningInv'
  <1>1. cli' = cli /\ cli = [k \in Keys |-> "unset"]
    BY DEF MeaningInv, FindBoundary
  <1>2. stage' \in {"boundaries", "environment", "help", "version"}
    BY DEF FindBoundary, BoundariesEnd
  <1> QED BY <1>1, <1>2 DEF MeaningInv, Afterwards

LEMMA ReadLabelsMeans ==
  ASSUME ArgumentsInv, MeaningInv, ReadLabels
  PROVE  MeaningInv'
  <1>1. CASE (\E k \in Labels : env[k] \notin {"unset", "a", "b"}) /\ Stop
    <2>1. Faulty
      BY <1>1 DEF Faulty
    <2> QED BY <1>1, <2>1, FaultyMeans
  <1>2. CASE /\ ~ \E k \in Labels : env[k] \notin {"unset", "a", "b"}
             /\ labels' = [k \in Labels |-> IF env[k] = "unset" THEN <<>> ELSE <<env[k]>>]
             /\ stage' = "extract"
             /\ UNCHANGED <<input, index, spans, through, cli, options>>
    <2>1. EnvLabelsGood
      BY <1>2 DEF EnvLabelsGood
    <2>2. index' = 1 /\ cli' = [k \in Keys |-> "unset"] /\ args \in Commands
      BY <1>2 DEF ArgumentsInv, InputOK, FirstPass, MeaningInv, ReadLabels
    <2>3. labels' = [k \in Labels |-> DefaultLabel(k)]
      BY <1>2 DEF DefaultLabel
    <2>4. PICK c, l : c = cli' /\ l = labels'
      OBVIOUS
    <2>5. ReadRight(1, c, l)
      BY <2>1, <2>2, <2>3, <2>4, ReadRightStart
    <2> QED BY <1>2, <2>1, <2>2, <2>4, <2>5, GoesOnMeans DEF input
  <1> QED BY <1>1, <1>2 DEF ReadLabels

(* the second pass, *)
LEMMA ExtractMeans ==
  ASSUME ArgumentsInv, MeaningInv, Extract
  PROVE  MeaningInv'
  <1>1. /\ stage = "extract" /\ index \in 1..Len(args) /\ args \in Commands /\ Len(args) \in Nat
        /\ ReadRight(index, cli, labels) /\ EnvLabelsGood
    BY StartTypes DEF Extract, MeaningInv
  <1>2. CASE PassesUpstream
    <2>1. PICK last \in index..Len(args) :
            PassThrough(last) /\ Reached(last + 1) /\ \A i \in index..last : i \notin Own
      BY <1>2 DEF PassesUpstream
    <2>2. last + 1 \in Nat /\ index \in Nat /\ index <= last + 1 /\ last + 1 - 1 = last
      BY <1>1
    <2>3. ReadRight(last + 1, cli, labels)
      BY <1>1, <2>1, <2>2, ReadRightSkip
    <2>4. /\ args' = args /\ env' = env /\ stage' = stage /\ index' = last + 1
          /\ cli' = cli /\ labels' = labels
      BY <2>1 DEF PassThrough, input
    <2> QED BY <1>1, <2>3, <2>4, GoesOnMeans
  <1>3. CASE index \in Own /\ Stop /\ (Incomplete(index) \/ ~Accepted(args[index].key, ValueAt(index)))
    <2>1. Faulty
      BY <1>3 DEF Faulty
    <2> QED BY <1>3, <2>1, FaultyMeans
  <1>4. CASE /\ index \in Own /\ ~Incomplete(index) /\ ValueAt(index) \in Values
             /\ Accepted(args[index].key, ValueAt(index))
             /\ Take(args[index].key, ValueAt(index), WrapperSpan(index))
    <2>1. PICK n, c, l : n = index' /\ c = cli' /\ l = labels'
      OBVIOUS
    <2>2. /\ args' = args /\ env' = env /\ stage' = stage /\ n = index + WrapperSpan(index)
          /\ IF args[index].key \in Labels
             THEN c = cli /\ l = [labels EXCEPT ![args[index].key] = Append(@, ValueAt(index))]
             ELSE l = labels /\ c = [cli EXCEPT ![args[index].key] = ValueAt(index)]
      BY <1>4, <2>1 DEF Take, input
    <2>3. ReadRight(n, c, l)
      BY <1>1, <1>4, <2>2, ReadRightTake
    <2> QED BY <1>1, <2>1, <2>2, <2>3, GoesOnMeans
  <1>5. CASE ReadsOwn
    BY <1>3, <1>4, <1>5 DEF ReadsOwn, Take
  <1> QED BY <1>2, <1>5, ExtractCases

(* its end, *)
LEMMA ExtractEndsMeans ==
  ASSUME ArgumentsInv, MeaningInv, ExtractEnds
  PROVE  MeaningInv'
  <1>1. index = Len(args) + 1 /\ stage = "extract" /\ stage' = "defaults"
    BY StartTypes DEF ExtractEnds
  <1>2. PICK n, c, l : n = index' /\ c = cli' /\ l = labels'
    OBVIOUS
  <1>3. /\ args' = args /\ env' = env /\ n = index /\ c = cli /\ l = labels
        /\ ReadRight(index, cli, labels) /\ EnvLabelsGood
    BY <1>1, <1>2 DEF ExtractEnds, MeaningInv, input
  <1>4. ReadRight(index, cli, labels)' /\ EnvLabelsGood'
    BY <1>2, <1>3, ReadRightSame, SameMeaning
  <1>5. index' = Len(args)' + 1
    BY <1>1, <1>2, <1>3
  <1> QED BY <1>1, <1>4, <1>5 DEF MeaningInv, Afterwards

(* After the second pass, what was read stays. *)
LEMMA ReadSame ==
  ASSUME ArgumentsInv, MeaningInv, stage \in Afterwards, UNCHANGED <<args, env, cli, labels>>
  PROVE  ReadRight(Len(args) + 1, cli, labels)' /\ EnvLabelsGood'
  <1>1. /\ ReadRight(Len(args) + 1, cli, labels) /\ EnvLabelsGood
        /\ args' = args /\ env' = env /\ cli' = cli /\ labels' = labels
    BY DEF MeaningInv, Afterwards
  <1> QED BY <1>1, ReadRightStays, SameMeaning

(* the defaults, *)
LEMMA DefaultsMeans ==
  ASSUME ArgumentsInv, MeaningInv, Defaults
  PROVE  MeaningInv'
  <1> DEFINE value(k) == IF UsesEnv(k) THEN env[k]
                         ELSE IF cli[k] # "unset" THEN cli[k] ELSE "default"
  <1>0. env \in [Keys -> Values \cup {"unset"}] /\ cli \in [Keys -> Values \cup {"unset"}]
    BY EnvironmentsAssumption DEF ArgumentsInv, InputOK, ArgumentsTypeOK
  <1>1. /\ stage = "defaults" /\ ReadRight(Len(args) + 1, cli, labels) /\ EnvLabelsGood
        /\ cli = Given
    BY ReadRightEnd DEF Defaults, MeaningInv, Afterwards
  <1>2. ASSUME NEW k \in Keys
        PROVE  Effective[k] = IF cli[k] # "unset" THEN cli[k]
                              ELSE IF k \in Labels \/ env[k] = "unset" THEN "default" ELSE env[k]
    BY <1>1 DEF Effective
  <1>3. ASSUME NEW k \in Keys \ Labels PROVE Effective[k] = value(k)
    BY <1>2 DEF UsesEnv
  <1>4. ASSUME NEW k \in Labels PROVE Effective[k] = "default"
    BY <1>1, <1>2 DEF ReadRight, ValueTo, Keys
  <1>5. "url" \in Keys \ Labels
    BY DEF Keys, Free, Labels
  <1> HIDE DEF value
  <1>6. CASE /\ \/ \E k \in Keys \ Labels : UsesEnv(k) /\ ~Accepted(k, env[k])
                \/ value("url") \notin {"default", "a", "b"}
             /\ Stop
    <2>1. CASE \E k \in Keys \ Labels : UsesEnv(k) /\ ~Accepted(k, env[k])
      <3>1. PICK k \in Keys \ Labels : UsesEnv(k) /\ ~Accepted(k, env[k])
        BY <2>1
      <3>2. Effective[k] = env[k] /\ env[k] # "default"
        BY <1>0, <1>3, <3>1 DEF value, UsesEnv, Values
      <3>3. Faulty
        BY <3>1, <3>2 DEF Faulty
      <3> QED BY <1>6, <3>3, FaultyMeans
    <2>2. CASE value("url") \notin {"default", "a", "b"}
      <3>1. Effective["url"] \notin {"default", "a", "b"}
        BY <1>3, <1>5, <2>2
      <3>2. Faulty
        BY <3>1 DEF Faulty
      <3> QED BY <1>6, <3>2, FaultyMeans
    <2> QED BY <1>6, <2>1, <2>2
  <1>7. CASE /\ \A k \in Keys \ Labels : UsesEnv(k) => Accepted(k, env[k])
             /\ value("url") \in {"default", "a", "b"}
             /\ options' = [k \in Keys |-> IF k \in Labels THEN "default" ELSE value(k)]
             /\ stage' = "checks"
             /\ UNCHANGED <<input, index, spans, through, cli, labels>>
    <2>1. options' = Effective
      <3>1. \A k \in Keys : Effective[k] = IF k \in Labels THEN "default" ELSE value(k)
        BY <1>3, <1>4
      <3> QED BY <1>7, <3>1 DEF Effective
    <2>2. EffectiveGood
      <3>1. ASSUME NEW k \in Keys, Effective[k] # "default" PROVE Accepted(k, Effective[k])
        <4>1. k \notin Labels
          BY <1>4, <3>1
        <4>2. CASE UsesEnv(k)
          BY <1>3, <1>7, <4>1, <4>2 DEF value
        <4>3. CASE ~UsesEnv(k)
          BY <1>1, <1>3, <3>1, <4>1, <4>3 DEF value, ReadRight
        <4> QED BY <4>2, <4>3
      <3>2. Effective["url"] \in {"default", "a", "b"}
        BY <1>3, <1>5, <1>7
      <3> QED BY <3>1, <3>2 DEF EffectiveGood
    <2>3. args' = args /\ env' = env /\ cli' = cli /\ labels' = labels
      BY <1>7 DEF input
    <2>4. ReadRight(Len(args) + 1, cli, labels)' /\ EnvLabelsGood'
      BY <1>1, <2>3, ReadSame DEF Afterwards
    <2>5. EffectiveGood' /\ Effective' = Effective
      BY <2>2, <2>3, SameMeaning
    <2> QED BY <1>7, <2>1, <2>4, <2>5 DEF MeaningInv, Afterwards
  <1> QED BY <1>6, <1>7 DEF Defaults, value

(* and the checks. *)
LEMMA CheckMeans ==
  ASSUME ArgumentsInv, MeaningInv, Check
  PROVE  MeaningInv'
  <1>1. /\ stage = "checks" /\ ReadRight(Len(args) + 1, cli, labels) /\ EnvLabelsGood
        /\ cli = Given /\ labels = AllLabels /\ options = Effective /\ EffectiveGood
    BY ReadRightEnd DEF Check, MeaningInv, Afterwards
  <1>2. args' = args /\ env' = env /\ cli' = cli /\ labels' = labels /\ options' = options
    BY DEF Check, input
  <1>3. stage' = IF Misplaced(Given, Effective, AllLabels) THEN "error" ELSE "done"
    BY <1>1 DEF Check
  <1>4. ReadRight(Len(args) + 1, cli, labels)' /\ EnvLabelsGood'
    BY <1>1, <1>2, ReadSame DEF Afterwards
  <1>5. Given' = Given /\ Effective' = Effective /\ AllLabels' = AllLabels /\ EffectiveGood'
        /\ (Faulty' <=> Faulty)
    BY <1>1, <1>2, SameMeaning
  <1>6. CASE Misplaced(Given, Effective, AllLabels)
    <2>1. Faulty'
      BY <1>5, <1>6 DEF Faulty
    <2> QED BY <1>3, <1>6, <2>1 DEF MeaningInv, Afterwards
  <1>7. CASE ~Misplaced(Given, Effective, AllLabels)
    <2>1. ~Misplaced(Given, Effective, AllLabels)'
      BY <1>5, <1>7 DEF Misplaced
    <2> QED BY <1>1, <1>2, <1>3, <1>4, <1>5, <1>7, <2>1 DEF MeaningInv, Afterwards
  <1> QED BY <1>6, <1>7

(* Every step. *)
LEMMA Means ==
  ASSUME ArgumentsInv, MeaningInv, [ArgumentsNext]_argumentsVars
  PROVE  MeaningInv'
  <1>1. CASE UNCHANGED argumentsVars
    <2>1. args' = args /\ env' = env /\ cli' = cli /\ labels' = labels /\ options' = options /\ stage' = stage
          /\ index' = index
      BY <1>1 DEF argumentsVars, input
    <2>2. /\ Given' = Given /\ Effective' = Effective /\ AllLabels' = AllLabels
          /\ (Faulty' <=> Faulty) /\ (EnvLabelsGood' <=> EnvLabelsGood)
          /\ (EffectiveGood' <=> EffectiveGood)
      BY <2>1, SameMeaning
    <2>3. stage = "extract" => ReadRight(index, cli, labels)'
      <3> HAVE stage = "extract"
      <3>1. PICK n, c, l : n = index' /\ c = cli' /\ l = labels'
        OBVIOUS
      <3>2. ReadRight(n, c, l)
        BY <2>1, <3>1 DEF MeaningInv
      <3> QED BY <2>1, <3>1, <3>2, ReadRightSame
    <2>4. stage \in Afterwards => ReadRight(Len(args) + 1, cli, labels)'
      BY <2>1, ReadSame
    <2>5. ~Misplaced(Given, Effective, AllLabels) => ~Misplaced(Given, Effective, AllLabels)'
      BY <2>2 DEF Misplaced
    <2> QED BY <2>1, <2>2, <2>3, <2>4, <2>5 DEF MeaningInv, Afterwards
  <1> QED BY <1>1, FindBoundaryMeans, ReadLabelsMeans, ExtractMeans, ExtractEndsMeans,
             DefaultsMeans, CheckMeans DEF ArgumentsNext

(* A command line has the effect its words mean, for command lines of any  *)
(* length (extract_app_options_with_env of src/src/args.rs): the last of   *)
(* several values of an option is in effect, a default only without one,   *)
(* default labels come before the given ones, and it fails if and only if  *)
(* an effective input is faulty.                                           *)
THEOREM Meant == ArgumentsSpec => []OptionsAsMeant
  <1>1. ArgumentsInit => MeaningInv
    BY DEF ArgumentsInit, MeaningInv, Afterwards
  <1>2. ArgumentsInv /\ MeaningInv /\ [ArgumentsNext]_argumentsVars => MeaningInv'
    BY Means
  <1>3. ArgumentsInv /\ MeaningInv => OptionsAsMeant
    <2> SUFFICES ASSUME ArgumentsInv, MeaningInv PROVE OptionsAsMeant
      OBVIOUS
    <2>1. CASE stage = "done"
      <3>1. /\ cli = Given /\ labels = AllLabels /\ \A i \in Own : Good(i)
            /\ options = Effective /\ EffectiveGood /\ EnvLabelsGood
            /\ ~Misplaced(Given, Effective, AllLabels)
        BY <2>1, ReadRightEnd DEF MeaningInv, Afterwards
      <3>2. ~Faulty
        BY <3>1 DEF Faulty, Good, EffectiveGood, EnvLabelsGood
      <3> QED BY <2>1, <3>1, <3>2 DEF OptionsAsMeant, EffectiveOptions, FailsForCause
    <2>2. CASE stage = "error"
      BY <2>2 DEF MeaningInv, OptionsAsMeant, EffectiveOptions, FailsForCause
    <2> QED BY <2>1, <2>2 DEF OptionsAsMeant, EffectiveOptions, FailsForCause
  <1> QED BY <1>1, <1>2, <1>3, ArgumentsInvariance, PTL DEF ArgumentsSpec
=============================================================================
