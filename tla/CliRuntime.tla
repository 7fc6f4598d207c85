----------------------------- MODULE CliRuntime -----------------------------
(***************************************************************************)
(* SIGINT, SIGTERM and SIGHUP in the command line tool: the handler, the   *)
(* self-pipe and the select of src/native/iperf3rs_cli.c, between          *)
(* iperf3rs_cli_prepare and iperf3rs_cli_cleanup, in the order in which    *)
(* src/src/cli.rs calls them.                                              *)
(*                                                                         *)
(* A handler runs on any thread of the process, several at once; each of   *)
(* its accesses to the atomics and its write is a step.  Of the main       *)
(* thread, accesses no handler can see (before the handlers are installed, *)
(* or of cli_readfd) are part of the step they belong to.  A signal that   *)
(* finds its former disposition is ignored or kills the process.           *)
(*                                                                         *)
(* Left out: daemon(), and sigaction and unlink failing in cleanup.  The   *)
(* pidfile is here only as there or not; Pidfile models how it is taken.   *)
(***************************************************************************)
EXTENDS Naturals, FiniteSets

CONSTANTS
  NSignals,    \* the number of cli_signals, handled in order 1..NSignals
  Deliveries   \* bound: the signals delivered to the process

ASSUME NSignalsAssumption == NSignals \in Nat /\ IsFiniteSet(Deliveries)

Signals == 1..NSignals

VARIABLES
  before,      \* disposition the process was started with
  disp,        \* disposition now: "app" (as before) or "cli"
  pc,          \* the main thread; "killed" by a signal
  killedAt,    \* where it was killed
  failed,      \* prepare failed
  installed,   \* state->installed
  pipe,        \* the self-pipe: "none", "open", "closed"
  ready,       \* the pipe holds a byte (it is never read)
  writefd,     \* cli_writefd is the pipe's, not -1
  signal,      \* cli_signal, 0 for none
  handlers,    \* cli_handlers
  pidfile,     \* our pidfile exists
  hpc,         \* a delivery: "none", "entered", "counted", "stored",
               \* "loaded", "written", "returned"
  hsig,        \* its signal
  hfd          \* what it loaded from cli_writefd

shared == <<pipe, ready, writefd, signal, handlers>>
mainVars == <<pc, killedAt, failed, installed, pidfile>>
handlerVars == <<hpc, hsig, hfd>>
vars == <<before, disp, mainVars, shared, handlerVars>>

Init ==
  /\ before \in [Signals -> {"default", "ignored"}]
  /\ disp = [s \in Signals |-> "app"]
  /\ pc = "start" /\ killedAt = "none" /\ failed = FALSE /\ installed = 0
  /\ pipe = "none" /\ ready = FALSE /\ writefd = FALSE
  /\ signal = 0 /\ handlers = 0
  /\ pidfile = FALSE
  /\ hpc = [d \in Deliveries |-> "none"]
  /\ hsig = [d \in Deliveries |-> 0]
  /\ hfd = [d \in Deliveries |-> FALSE]

Goto(from, to) == pc = from /\ pc' = to

-----------------------------------------------------------------------------
(* iperf3rs_cli_prepare. *)

(* The pipe is made and published, and cli_signal reset. *)
OpenPipe ==
  /\ Goto("start", "install")
  /\ pipe' = "open" /\ writefd' = TRUE /\ signal' = 0
  /\ UNCHANGED <<before, disp, killedAt, failed, installed, pidfile, ready,
                 handlers, handlerVars>>

(* A step of prepare fails: it calls cleanup. *)
PrepareFails ==
  /\ pc \in {"start", "install", "pidfile"}
  /\ pc' = "restore" /\ failed' = TRUE
  /\ UNCHANGED <<before, disp, killedAt, installed, pidfile, shared, handlerVars>>

(* Mutant: the pidfile is created before the last handler is installed. *)
MutPidfileEarly ==
  /\ pc = "install" /\ installed < NSignals
  /\ disp' = [disp EXCEPT ![installed + 1] = "cli"]
  /\ installed' = installed + 1
  /\ pidfile' = TRUE
  /\ pc' = IF installed' = NSignals THEN "pidfile" ELSE "install"
  /\ UNCHANGED <<before, killedAt, failed, shared, handlerVars>>

(* One sigaction. *)
Install ==
  /\ pc = "install" /\ installed < NSignals
  /\ disp' = [disp EXCEPT ![installed + 1] = "cli"]
  /\ installed' = installed + 1
  /\ pc' = IF installed' = NSignals THEN "pidfile" ELSE "install"
  /\ UNCHANGED <<before, killedAt, failed, pidfile, shared, handlerVars>>

(* iperf3rs_create_pidfile, if one is asked for; prepare returns. *)
CreatePidfile ==
  /\ Goto("pidfile", "check")
  /\ pidfile' \in BOOLEAN
  /\ UNCHANGED <<before, disp, killedAt, failed, installed, shared, handlerVars>>

-----------------------------------------------------------------------------
(* The run: libiperf calls iperf3rs_cli_select again and again, and ends   *)
(* the test when iperf3rs_cli_interrupted says so.                         *)

(* cli_signal is looked at before select ... *)
CheckSignal ==
  /\ Goto("check", IF signal # 0 THEN "finish" ELSE "select")
  /\ UNCHANGED <<before, disp, killedAt, failed, installed, pidfile, shared,
                 handlerVars>>

(* ... which returns because of the pipe ... *)
PipeWakesSelect ==
  /\ ready
  /\ Goto("select", "recheck")
  /\ UNCHANGED <<before, disp, killedAt, failed, installed, pidfile, shared,
                 handlerVars>>

(* ... or of a socket, a timeout, or a signal handled on this thread; ...  *)
SelectReturns ==
  /\ Goto("select", "recheck")
  /\ UNCHANGED <<before, disp, killedAt, failed, installed, pidfile, shared,
                 handlerVars>>

(* ... and cli_signal is looked at again. *)
RecheckSignal ==
  /\ Goto("recheck", IF signal # 0 THEN "finish" ELSE "check")
  /\ UNCHANGED <<before, disp, killedAt, failed, installed, pidfile, shared,
                 handlerVars>>

(* The test ends by itself, or fails; or the sinks cannot be set up. *)
RunEnds ==
  /\ Goto("check", "finish")
  /\ UNCHANGED <<before, disp, killedAt, failed, installed, pidfile, shared,
                 handlerVars>>

(* IntervalMetricsReporter::finish. *)
Finish ==
  /\ Goto("finish", "restore")
  /\ UNCHANGED <<before, disp, killedAt, failed, installed, pidfile, shared,
                 handlerVars>>

-----------------------------------------------------------------------------
(* iperf3rs_cli_cleanup. *)

(* Mutant: a prepare that failed half way has nothing to restore. *)
MutRestoreAll ==
  /\ pc = "restore" /\ installed > 0
  /\ disp' = IF installed = NSignals THEN [s \in Signals |-> "app"] ELSE disp
  /\ installed' = 0
  /\ UNCHANGED <<before, pc, killedAt, failed, pidfile, shared, handlerVars>>

(* One sigaction, from the last installed. *)
Restore ==
  /\ pc = "restore" /\ installed > 0
  /\ disp' = [disp EXCEPT ![installed] = "app"]
  /\ installed' = installed - 1
  /\ UNCHANGED <<before, pc, killedAt, failed, pidfile, shared, handlerVars>>

(* Mutant: cli_writefd keeps the descriptor. *)
MutKeepWriteFd ==
  /\ installed = 0
  /\ Goto("restore", "drain")
  /\ UNCHANGED <<before, disp, killedAt, failed, installed, pidfile, shared,
                 handlerVars>>

(* cli_writefd = -1. *)
RetireWriteFd ==
  /\ installed = 0
  /\ Goto("restore", "drain")
  /\ writefd' = FALSE
  /\ UNCHANGED <<before, disp, killedAt, failed, installed, pidfile, pipe, ready,
                 signal, handlers, handlerVars>>

(* The spin on cli_handlers ends. *)
Drain ==
  /\ handlers = 0
  /\ Goto("drain", "close")
  /\ UNCHANGED <<before, disp, killedAt, failed, installed, pidfile, shared,
                 handlerVars>>

(* cli_signal is reset and the pipe closed. *)
ClosePipe ==
  /\ Goto("close", "unlink")
  /\ signal' = 0
  /\ pipe' = IF pipe = "open" THEN "closed" ELSE pipe
  /\ UNCHANGED <<before, disp, killedAt, failed, installed, pidfile, ready,
                 writefd, handlers, handlerVars>>

(* The pidfile is removed; cleanup returns, and the process exits. *)
RemovePidfile ==
  /\ Goto("unlink", "ended")
  /\ pidfile' = FALSE
  /\ UNCHANGED <<before, disp, killedAt, failed, installed, shared, handlerVars>>

-----------------------------------------------------------------------------
(* Signals. *)

Running == pc \notin {"ended", "killed"}

(* A signal whose disposition is the default's kills the process. *)
KilledBy(s) ==
  /\ Running /\ disp[s] = "app" /\ before[s] = "default"
  /\ \E d \in Deliveries : hpc[d] = "none"
  /\ pc' = "killed" /\ killedAt' = pc
  /\ UNCHANGED <<before, disp, failed, installed, pidfile, shared, handlerVars>>

(* iperf3rs_cli_signal is entered. *)
Enter(d, s) ==
  /\ Running /\ disp[s] = "cli" /\ hpc[d] = "none"
  /\ hpc' = [hpc EXCEPT ![d] = "entered"]
  /\ hsig' = [hsig EXCEPT ![d] = s]
  /\ UNCHANGED <<before, disp, mainVars, shared, hfd>>

HGoto(d, from, to) == Running /\ hpc[d] = from /\ hpc' = [hpc EXCEPT ![d] = to]

CountUp(d) ==
  /\ HGoto(d, "entered", "counted")
  /\ handlers' = handlers + 1
  /\ UNCHANGED <<before, disp, mainVars, pipe, ready, writefd, signal, hsig, hfd>>

StoreSignal(d) ==
  /\ HGoto(d, "counted", "stored")
  /\ signal' = hsig[d]
  /\ UNCHANGED <<before, disp, mainVars, pipe, ready, writefd, handlers, hsig, hfd>>

LoadWriteFd(d) ==
  /\ HGoto(d, "stored", "loaded")
  /\ hfd' = [hfd EXCEPT ![d] = writefd]
  /\ UNCHANGED <<before, disp, mainVars, shared, hsig>>

(* Mutant: the handler relies on select being interrupted. *)
MutNoWrite(d) ==
  /\ HGoto(d, "loaded", "written")
  /\ UNCHANGED <<before, disp, mainVars, shared, hsig, hfd>>

(* write(fd, &byte, 1), if fd >= 0. *)
WriteByte(d) ==
  /\ HGoto(d, "loaded", "written")
  /\ ready' = (ready \/ hfd[d])
  /\ UNCHANGED <<before, disp, mainVars, pipe, writefd, signal, handlers, hsig, hfd>>

CountDown(d) ==
  /\ HGoto(d, "written", "returned")
  /\ handlers' = handlers - 1
  /\ UNCHANGED <<before, disp, mainVars, pipe, ready, writefd, signal, hsig, hfd>>

Handler(d) ==
  CountUp(d) \/ StoreSignal(d) \/ LoadWriteFd(d) \/ WriteByte(d) \/ CountDown(d)

(* The steps the main thread takes without waiting for the world. *)
Main ==
  \/ OpenPipe \/ Install \/ CreatePidfile
  \/ CheckSignal \/ PipeWakesSelect \/ RecheckSignal
  \/ Finish \/ Restore \/ RetireWriteFd \/ Drain \/ ClosePipe \/ RemovePidfile

Next ==
  \/ Main \/ PrepareFails \/ SelectReturns \/ RunEnds
  \/ \E s \in Signals : KilledBy(s) \/ \E d \in Deliveries : Enter(d, s)
  \/ \E d \in Deliveries : Handler(d)

(* Threads are scheduled; finish returns (MetricsSinks); nothing makes a   *)
(* socket ready or the test end.                                           *)
Fairness == WF_vars(Main) /\ \A d \in Deliveries : WF_vars(Handler(d))

Spec == Init /\ [][Next]_vars /\ Fairness

-----------------------------------------------------------------------------
InHandler == {"counted", "stored", "loaded", "written"}
InRun == {"check", "select", "recheck"}

(* Types; the counter counts the handlers between its two accesses. *)
TypeOK ==
  /\ before \in [Signals -> {"default", "ignored"}]
  /\ disp \in [Signals -> {"app", "cli"}]
  /\ pc \in InRun \cup {"start", "install", "pidfile", "finish", "restore",
                        "drain", "close", "unlink", "ended", "killed"}
  /\ failed \in BOOLEAN /\ pidfile \in BOOLEAN /\ installed \in 0..NSignals
  /\ pipe \in {"none", "open", "closed"}
  /\ ready \in BOOLEAN /\ writefd \in BOOLEAN
  /\ signal \in Signals \cup {0}
  /\ hpc \in [Deliveries -> InHandler \cup {"none", "entered", "returned"}]
  /\ hsig \in [Deliveries -> Signals \cup {0}]
  /\ hfd \in [Deliveries -> BOOLEAN]
  /\ handlers = Cardinality({d \in Deliveries : hpc[d] \in InHandler})

(* "In-flight handlers still cannot use an fd after close/reuse"           *)
(* (iperf3rs_cli.c:194-195): a handler about to write has a descriptor of  *)
(* the open pipe, or none, wherever prepare, the run or cleanup is.        *)
NoStrayWrite ==
  \A d \in Deliveries : hpc[d] = "loaded" /\ hfd[d] => pipe = "open"

(* While a pidfile of ours exists the process is not killed by one of the  *)
(* three signals, unless it was already ending: before that they end the   *)
(* run through cleanup (tests/cli_lifecycle.rs:246).                       *)
SignalsSpareRun ==
  pc = "killed" /\ pidfile => killedAt \in {"restore", "drain", "close", "unlink"}

(* Cleanup undoes what prepare did, however far prepare came: when it has  *)
(* returned every disposition is the former one, the pipe is closed and    *)
(* the pidfile gone.                                                       *)
CleanupComplete ==
  pc = "ended" =>
    /\ \A s \in Signals : disp[s] = "app"
    /\ pipe # "open" /\ ~writefd /\ ~pidfile

(* A signal is never lost: once a handler has stored it the run ends, even *)
(* if it came between the look at cli_signal and select, on another        *)
(* thread, with no traffic and no timeout.                                 *)
(* Then cleanup returns: its spin on cli_handlers ends, whatever signals   *)
(* arrive (or a last one kills the process).                               *)
SignalEndsRun ==
  /\ \A d \in Deliveries : hpc[d] = "stored" /\ pc \in InRun ~> pc \notin InRun
  /\ pc = "restore" ~> ~Running
=============================================================================
