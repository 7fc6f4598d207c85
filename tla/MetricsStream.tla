---------------------------- MODULE MetricsStream ----------------------------
(***************************************************************************)
(* The library's MetricsStream: libiperf callback -> unbounded channel ->  *)
(* worker thread (forward_interval_events or forward_window_events) ->     *)
(* unbounded channel -> the application, from src/src/metrics.rs.  The     *)
(* first channel is the queue of MetricsQueue, made with MetricsQueue::All.*)
(*                                                                         *)
(* A sample is its number; ctx gives its (role, direction, stream count,   *)
(* protocol).  An event is the sequence of the samples it was made from: a *)
(* window is not aggregated here.  Time is the state of the window's       *)
(* deadline.  checked_deadline's overflow error is left out: it needs a    *)
(* clock beyond the range MetricsMode::validate checked.                   *)
(***************************************************************************)
EXTENDS Naturals, Sequences, SequencesExt

CONSTANTS
  MaxItems,   \* bound: the number of interval samples of the run
  Contexts    \* sample contexts

ASSUME BoundAssumption == MaxItems \in Nat

VARIABLES
  mode,       \* MetricsMode of the run: "Interval" or "Window"
  tx, rx, chan, serial, got,   \* the callback channel (MetricsQueue)
  ctx,        \* context of each sample the callback was given
  pc,         \* the worker: "loop", "wait" (recv_timeout), "final", "done"
  window,     \* samples of the open window
  deadline,   \* "None", "armed", or "due" once its instant has passed
  stream,     \* "open", "dropped", or "closed" (the application saw Closed)
  events,     \* the event channel's buffer
  delivered   \* events the application received (history)

rawVars == <<tx, rx, chan, serial, got>>
workerVars == <<pc, window, deadline>>
userVars == <<stream, events, delivered>>
vars == <<mode, rawVars, ctx, workerVars, userVars>>

Raw == INSTANCE MetricsQueue WITH queue <- "All", step <- "idle"

Init ==
  /\ Raw!Init
  /\ mode \in {"Interval", "Window"}
  /\ ctx = <<>>
  /\ pc = "loop" /\ window = <<>> /\ deadline = "None"
  /\ stream = "open" /\ events = <<>> /\ delivered = <<>>

-----------------------------------------------------------------------------
(* metrics_callback: one interval sample. *)
Callback(c) ==
  /\ Raw!TrySend
  /\ ctx' = Append(ctx, c)
  /\ UNCHANGED <<mode, workerVars, userVars>>

(* run_command drops the reporter when IperfTest::run returned. *)
DropReporter ==
  /\ Raw!CloseTx
  /\ UNCHANGED <<mode, ctx, workerVars, userVars>>

(* The deadline's instant passes. *)
TimePasses ==
  /\ deadline = "armed"
  /\ deadline' = "due"
  /\ UNCHANGED <<mode, rawVars, ctx, pc, window, userVars>>

-----------------------------------------------------------------------------
(* tx.send(event): fails, and changes nothing, when the stream is dropped. *)
Send(event) ==
  /\ events' = IF stream = "dropped" THEN events ELSE Append(events, event)
  /\ UNCHANGED <<stream, delivered>>

(* flush_window_event: an empty window is not sent; the window is cleared  *)
(* whether or not the stream is still there.                               *)
FlushWindow ==
  /\ IF window = <<>> THEN UNCHANGED userVars ELSE Send(window)
  /\ window' = <<>>

(* flush_window_event's result. *)
FlushFails == window # <<>> /\ stream = "dropped"

(* Mutant: samples of different contexts share a window. *)
MutMixContexts(x) == FALSE

(* Mutant: the comparison covers a field that differs in every sample. *)
MutAlwaysChanges(x) == window # <<>>

(* window_context_changes: against the window's first sample. *)
ContextChanges(x) == window # <<>> /\ ctx[x] # ctx[window[1]]

(* One round of forward_interval_events. *)
ForwardInterval ==
  /\ mode = "Interval" /\ pc = "loop"
  /\ Raw!Recv
  /\ Send(<<Head(chan)>>)
  /\ pc' = IF stream = "dropped" THEN "final" ELSE "loop"
  /\ UNCHANGED <<mode, ctx, window, deadline>>

(* forward_window_events, deadline None: recv() got the first sample. *)
StartWindow ==
  /\ mode = "Window" /\ pc = "loop" /\ deadline = "None"
  /\ Raw!Recv
  /\ window' = Append(window, Head(chan))
  /\ deadline' = "armed"
  /\ UNCHANGED <<mode, ctx, pc, userVars>>

(* Deadline set: read the clock, then flush or wait for a sample. *)
CheckClock ==
  /\ mode = "Window" /\ pc = "loop" /\ deadline # "None"
  /\ IF deadline = "due"
     THEN /\ FlushWindow
          /\ pc' = IF FlushFails THEN "final" ELSE "loop"
          /\ deadline' = IF FlushFails THEN deadline ELSE "None"
     ELSE /\ pc' = "wait"
          /\ UNCHANGED <<window, deadline, userVars>>
  /\ UNCHANGED <<mode, rawVars, ctx>>

(* recv_timeout got a sample, perhaps after the deadline: a context change *)
(* flushes first and starts a new deadline.                                *)
ExtendWindow ==
  /\ pc = "wait"
  /\ Raw!Recv
  /\ LET x == Head(chan) IN
     IF ~ContextChanges(x)
     THEN /\ window' = Append(window, x)
          /\ pc' = "loop"
          /\ UNCHANGED <<deadline, userVars>>
     ELSE IF FlushFails
     THEN /\ FlushWindow
          /\ pc' = "final"
          /\ UNCHANGED deadline
     ELSE /\ Send(window)
          /\ window' = <<x>>
          /\ deadline' = "armed"
          /\ pc' = "loop"
  /\ UNCHANGED <<mode, ctx>>

(* Mutant: the worker waits for the next sample without a timeout. *)
MutWaitForever == FALSE /\ UNCHANGED vars

(* recv_timeout timed out. *)
WaitTimesOut ==
  /\ pc = "wait" /\ deadline = "due" /\ chan = <<>> /\ tx
  /\ FlushWindow
  /\ pc' = IF FlushFails THEN "final" ELSE "loop"
  /\ deadline' = IF FlushFails THEN deadline ELSE "None"
  /\ UNCHANGED <<mode, rawVars, ctx>>

(* Mutant: the channel's end is only noticed by the untimed recv(). *)
MutEndOnlyIdle ==
  /\ pc = "loop" /\ deadline = "None" /\ Raw!RecvEnd
  /\ pc' = "final"
  /\ UNCHANGED <<mode, ctx, window, deadline, userVars>>

(* Any receive finds the channel disconnected and empty. *)
InputEnds ==
  /\ \/ pc = "wait"
     \/ pc = "loop" /\ (mode = "Interval" \/ deadline = "None")
  /\ Raw!RecvEnd
  /\ pc' = "final"
  /\ UNCHANGED <<mode, ctx, window, deadline, userVars>>

(* Mutant: the partial window is not flushed when the input ends. *)
MutNoFinalFlush ==
  /\ pc = "final"
  /\ IF rx = "live" THEN Raw!DropRx ELSE UNCHANGED rawVars
  /\ pc' = "done"
  /\ UNCHANGED <<mode, ctx, window, deadline, userVars>>

(* After the loop: flush what is left, ignoring the result; the worker's   *)
(* receiver and its event sender are dropped.                              *)
WorkerReturns ==
  /\ pc = "final"
  /\ FlushWindow
  /\ IF rx = "live" THEN Raw!DropRx ELSE UNCHANGED rawVars
  /\ pc' = "done"
  /\ UNCHANGED <<mode, ctx, deadline>>

Worker ==
  \/ ForwardInterval \/ StartWindow \/ CheckClock \/ ExtendWindow
  \/ WaitTimesOut \/ InputEnds \/ WorkerReturns

-----------------------------------------------------------------------------
(* MetricsStream::recv, recv_timeout and try_recv when an event is queued; *)
(* Timeout and Empty change nothing.                                       *)
UserReceives ==
  /\ stream = "open" /\ events # <<>>
  /\ delivered' = Append(delivered, Head(events))
  /\ events' = Tail(events)
  /\ UNCHANGED <<mode, rawVars, ctx, workerVars, stream>>

(* They report None or Closed when no event is queued and the worker's     *)
(* sender is gone.                                                         *)
UserSeesEnd ==
  /\ stream = "open" /\ events = <<>> /\ pc = "done"
  /\ stream' = "closed"
  /\ UNCHANGED <<mode, rawVars, ctx, workerVars, events, delivered>>

UserDropsStream ==
  /\ stream = "open"
  /\ stream' = "dropped"
  /\ events' = <<>>
  /\ UNCHANGED <<mode, rawVars, ctx, workerVars, delivered>>

Next ==
  \/ \E c \in Contexts : Callback(c)
  \/ DropReporter \/ TimePasses \/ Worker
  \/ UserReceives \/ UserSeesEnd \/ UserDropsStream

(* The worker thread is scheduled and time passes.  Nothing is assumed of  *)
(* the application, which may never read, and nothing of the run, which    *)
(* may never end.                                                          *)
Fairness == WF_vars(Worker) /\ WF_vars(TimePasses)

Spec == Init /\ [][Next]_vars /\ Fairness

-----------------------------------------------------------------------------
IsRun(s) == \A i \in 1..Len(s) : s[i] \in 1..MaxItems

(* Types; the worker's deadline is set exactly while its window is not     *)
(* empty.                                                                  *)
TypeOK ==
  /\ mode \in {"Interval", "Window"}
  /\ tx \in BOOLEAN /\ rx \in {"live", "ended", "dropped"}
  /\ serial \in 0..MaxItems
  /\ ctx \in Seq(Contexts) /\ Len(ctx) = serial
  /\ pc \in {"loop", "wait", "final", "done"}
  /\ IsRun(chan) /\ IsRun(got) /\ IsRun(window)
  /\ \A i \in DOMAIN events : IsRun(events[i])
  /\ \A i \in DOMAIN delivered : IsRun(delivered[i])
  /\ deadline \in {"None", "armed", "due"}
  /\ stream \in {"open", "dropped", "closed"}
  /\ pc \in {"loop", "wait"} => (deadline = "None" <=> window = <<>>)

(* MetricsStream "preserves every emitted event" (metrics.rs:321-325):     *)
(* until the application drops the stream, what it received, what is       *)
(* queued for it, the open window and the callback channel hold every      *)
(* sample exactly once and in order; and when it is told Closed, it has    *)
(* received every sample of the run.                                       *)
NothingLost ==
  /\ stream # "dropped" =>
       FlattenSeq(delivered \o events) \o window \o chan
         = [i \in 1..serial |-> i]
  /\ stream = "closed" =>
       FlattenSeq(delivered) = [i \in 1..serial |-> i]

(* Window streams "flush before context changes" (metrics.rs:965): no      *)
(* event mixes samples of different contexts, and none is empty.           *)
UniformEvents ==
  \A e \in Range(delivered \o events \o (IF window = <<>> THEN <<>> ELSE <<window>>)) :
    e # <<>> /\ \A i \in 1..Len(e) : ctx[e[i]] = ctx[e[1]]

(* A window is never cut short: it closes because its deadline passed, the *)
(* next sample has another context, or the run or the stream ended.        *)
SplitsAreDue ==
  [][ window # <<>> /\ (window' = <<>> \/ Head(window') # Head(window))
      => \/ deadline = "due" \/ rx = "ended" \/ stream = "dropped"
         \/ chan # <<>> /\ ctx[Head(chan)] # ctx[window[1]] ]_vars

(* Every sample becomes available to the application (or the application   *)
(* has dropped the stream), even if no further sample arrives, the run     *)
(* never ends and the application does not read.                           *)
EveryoneGetsOut ==
  \A n \in 1..MaxItems :
    serial >= n ~> \/ stream = "dropped"
                   \/ \E e \in Range(delivered \o events) : n \in Range(e)

(* run_command's join of the worker returns once the reporter is dropped,  *)
(* whatever the application does with the stream (command.rs).             *)
JoinReturns == ~tx ~> pc = "done"
=============================================================================
