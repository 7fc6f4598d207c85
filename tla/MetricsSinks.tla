---------------------------- MODULE MetricsSinks ----------------------------
(***************************************************************************)
(* IntervalMetricsReporter of src/src/metrics.rs: the metrics file and the *)
(* Pushgateway of a run.  Three threads and two channels:                  *)
(*                                                                         *)
(*   libiperf callback -> Raw -> sink worker -> Dlv -> delivery worker     *)
(*   (the run's thread)          (writes the file)     (HTTP)              *)
(*                                                                         *)
(* Raw and Dlv are channels of MetricsQueue.  The run's thread calls the   *)
(* callback, then closes Raw and joins the sink worker; the sink worker    *)
(* closes Dlv and joins the delivery worker.  The retries inside one push  *)
(* are not modelled here: a push takes any time, and its result is only    *)
(* logged.                                                                 *)
(***************************************************************************)
EXTENDS Naturals, Sequences, SequencesExt

CONSTANTS
  MaxItems,   \* bound: the number of interval samples of the run
  Contexts    \* sample contexts, as in MetricsStream

ASSUME BoundAssumption == MaxItems \in Nat

ASSUME ContextsAssumption == Contexts # {}   \* every sample has one

VARIABLES
  hasFile,    \* --metrics.file was given
  push,       \* Pushgateway: "none", "immediate" or "window"
  deletes,    \* delete_on_finish was given
  main,       \* the run's thread: "running", "joining", "returned"
  result,     \* what finish returned: "None", "Ok" or "Err"
  rawTx, rawRx, rawChan, rawSerial, rawStep, rawGot,   \* callback channel
  ctx,        \* context of each sample
  pc,         \* the sink worker: "loop", "wait", "write", "final",
              \* "join" (the delivery worker), "done"
  held,       \* the sample it received last
  window, deadline,                                    \* push_window_metrics
  failed,     \* writing the metrics file failed
  file,       \* the samples written to the file
  dlvTx, dlvRx, dlvChan, dlvSerial, dlvStep, dlvGot,   \* delivery channel
  event,      \* the samples each delivery event was made from
  dpc,        \* the delivery worker: "recv", "push", "delete", "done"
  deleted     \* the number of DELETE requests made

config == <<hasFile, push, deletes>>
mainVars == <<main, result>>
rawVars == <<rawTx, rawRx, rawChan, rawSerial, rawStep, rawGot>>
workerVars == <<pc, held, window, deadline, failed, file>>
dlvVars == <<dlvTx, dlvRx, dlvChan, dlvSerial, dlvStep, dlvGot, event>>
deliveryVars == <<dpc, deleted>>
vars == <<config, mainVars, rawVars, ctx, workerVars, dlvVars, deliveryVars>>

(* MetricsSinks::queue: a file needs every sample, and so do windows. *)
RawQueue == IF hasFile \/ push = "window" THEN "All" ELSE "Latest"

(* PushGatewaySink::delivery_queue. *)
DeliveryQueue == IF push = "window" THEN "All" ELSE "Latest"

Raw == INSTANCE MetricsQueue WITH
  queue <- RawQueue, tx <- rawTx, rx <- rawRx, chan <- rawChan,
  serial <- rawSerial, step <- rawStep, got <- rawGot

Dlv == INSTANCE MetricsQueue WITH
  queue <- DeliveryQueue, tx <- dlvTx, rx <- dlvRx, chan <- dlvChan,
  serial <- dlvSerial, step <- dlvStep, got <- dlvGot

(* attach_sinks and the start of run_metrics_sinks: without a Pushgateway  *)
(* there is no delivery channel and no delivery worker.                    *)
Init ==
  /\ hasFile \in BOOLEAN /\ deletes \in BOOLEAN
  /\ push \in {"none", "immediate", "window"}
  /\ hasFile \/ push # "none"
  /\ deletes => push # "none"
  /\ main = "running" /\ result = "None"
  /\ Raw!Init /\ ctx = <<>>
  /\ pc = "loop" /\ held = 0 /\ window = <<>> /\ deadline = "None"
  /\ failed = FALSE /\ file = <<>>
  /\ dlvTx = (push # "none")
  /\ dlvRx = IF push = "none" THEN "ended" ELSE "live"
  /\ dlvChan = <<>> /\ dlvSerial = 0 /\ dlvStep = "idle" /\ dlvGot = <<>>
  /\ event = <<>>
  /\ dpc = IF push = "none" THEN "done" ELSE "recv"
  /\ deleted = 0

-----------------------------------------------------------------------------
(* The run's thread. *)

(* metrics_callback starts to enqueue one interval sample. *)
Callback(c) ==
  /\ main = "running"
  /\ UNCHANGED config
  /\ Raw!TrySend
  /\ ctx' = Append(ctx, c)
  /\ UNCHANGED <<mainVars, workerVars, dlvVars, deliveryVars>>

(* The rest of enqueue_latest. *)
CallbackContinues ==
  /\ UNCHANGED config
  /\ Raw!DiscardStale \/ Raw!Resend
  /\ UNCHANGED <<mainVars, ctx, workerVars, dlvVars, deliveryVars>>

(* IntervalMetricsReporter::stop: drop the callback ... *)
StopCallback ==
  /\ main = "running"
  /\ UNCHANGED config
  /\ Raw!CloseTx
  /\ main' = "joining"
  /\ UNCHANGED <<result, ctx, workerVars, dlvVars, deliveryVars>>

(* ... and join the sink worker, whose result is finish's. *)
JoinSinkWorker ==
  /\ main = "joining" /\ pc = "done"
  /\ main' = "returned"
  /\ result' = IF failed THEN "Err" ELSE "Ok"
  /\ UNCHANGED <<config, rawVars, ctx, workerVars, dlvVars, deliveryVars>>

-----------------------------------------------------------------------------
(* The sink worker: run_metrics_sinks with push_interval_metrics or        *)
(* push_window_metrics.  It is busy while its own enqueue_latest runs.     *)

TimePasses ==
  /\ deadline = "armed"
  /\ deadline' = "due"
  /\ UNCHANGED <<config, mainVars, rawVars, ctx, pc, held, window, failed,
                 file, dlvVars, deliveryVars>>

Idle(at) == pc = at /\ dlvStep = "idle"

(* It is in recv (no deadline is set) or in recv_timeout. *)
Receiving == (Idle("loop") /\ deadline = "None") \/ Idle("wait")

(* A receive gets a sample. *)
Receive ==
  /\ Receiving
  /\ UNCHANGED config
  /\ Raw!Recv
  /\ held' = Head(rawChan)
  /\ pc' = "write"
  /\ UNCHANGED <<mainVars, ctx, window, deadline, failed, file, dlvVars,
                 deliveryVars>>

(* enqueue_latest of an event: its first try_send. *)
Queue(samples) ==
  /\ Dlv!TrySend
  /\ event' = Append(event, samples)

(* Mutant: a failed write is only logged. *)
MutIgnoreWriteError ==
  /\ pc = "write" /\ hasFile
  /\ pc' = "loop"
  /\ UNCHANGED <<config, mainVars, rawVars, ctx, held, window, deadline, failed,
                 file, dlvVars, deliveryVars>>

(* write_metrics_file fails: the loop ends with the error.                 *)
WriteFails ==
  /\ pc = "write" /\ hasFile
  /\ failed' = TRUE
  /\ pc' = "final"
  /\ UNCHANGED <<config, mainVars, rawVars, ctx, held, window, deadline, file,
                 dlvVars, deliveryVars>>

(* write_metrics_file succeeds, or there is no file. *)
Write == file' = IF hasFile THEN Append(file, held) ELSE file

(* push_interval_metrics: write, then offer the sample for delivery. *)
StoreInterval ==
  /\ pc = "write" /\ push # "window"
  /\ UNCHANGED config
  /\ Write
  /\ IF push = "immediate" THEN Queue(<<held>>) ELSE UNCHANGED dlvVars
  /\ pc' = "loop"
  /\ UNCHANGED <<mainVars, rawVars, ctx, held, window, deadline, failed,
                 deliveryVars>>

(* window_context_changes. *)
ContextChanges(x) == window # <<>> /\ ctx[x] # ctx[window[1]]

(* Mutant: the window is cleared before it is queued. *)
MutClearFirst == window' = <<>> /\ UNCHANGED dlvVars

(* flush_window_metrics: nothing to do for an empty window. *)
FlushWindow ==
  /\ IF window = <<>> THEN UNCHANGED dlvVars ELSE Queue(window)
  /\ window' = <<>>

(* push_window_metrics: write, flush on a context change, extend the       *)
(* window; the first sample of a window sets the deadline.                 *)
StoreWindowed ==
  /\ pc = "write" /\ push = "window"
  /\ UNCHANGED config
  /\ Write
  /\ IF ContextChanges(held)
     THEN Queue(window) /\ window' = <<held>>
     ELSE window' = Append(window, held) /\ UNCHANGED dlvVars
  /\ deadline' = IF window = <<>> \/ ContextChanges(held) THEN "armed" ELSE deadline
  /\ pc' = "loop"
  /\ UNCHANGED <<mainVars, rawVars, ctx, held, failed, deliveryVars>>

(* The deadline is set: read the clock, then flush or wait for a sample. *)
CheckClock ==
  /\ Idle("loop") /\ deadline # "None"
  /\ UNCHANGED config
  /\ IF deadline = "due"
     THEN FlushWindow /\ deadline' = "None" /\ UNCHANGED pc
     ELSE pc' = "wait" /\ UNCHANGED <<window, deadline, dlvVars>>
  /\ UNCHANGED <<mainVars, rawVars, ctx, held, failed, file, deliveryVars>>

(* recv_timeout timed out. *)
WaitTimesOut ==
  /\ Idle("wait") /\ deadline = "due" /\ rawChan = <<>> /\ rawTx
  /\ UNCHANGED config
  /\ FlushWindow
  /\ deadline' = "None"
  /\ pc' = "loop"
  /\ UNCHANGED <<mainVars, rawVars, ctx, held, failed, file, deliveryVars>>

(* A receive finds the callback channel disconnected and empty. *)
InputEnds ==
  /\ Receiving
  /\ UNCHANGED config
  /\ Raw!RecvEnd
  /\ pc' = "final"
  /\ UNCHANGED <<mainVars, ctx, held, window, deadline, failed, file, dlvVars,
                 deliveryVars>>

(* The loop's function returns: the partial window is flushed unless the   *)
(* file failed, and the worker's receiver is dropped.                      *)
LoopReturns ==
  /\ Idle("final")
  /\ UNCHANGED config
  /\ IF failed THEN UNCHANGED <<window, dlvVars>> ELSE FlushWindow
  /\ IF rawRx = "live" THEN Raw!DropRx ELSE UNCHANGED rawVars
  /\ pc' = IF push = "none" THEN "done" ELSE "join"
  /\ UNCHANGED <<mainVars, ctx, held, deadline, failed, file, deliveryVars>>

(* Mutant: a bounded send that waits for room. *)
MutQueueWaits ==
  /\ UNCHANGED config
  /\ dlvChan = <<>>
  /\ Dlv!DiscardStale \/ Dlv!Resend
  /\ UNCHANGED <<mainVars, rawVars, ctx, workerVars, event, deliveryVars>>

(* enqueue_latest goes on: the delivery channel was full. *)
QueueContinues ==
  /\ UNCHANGED config
  /\ Dlv!DiscardStale \/ Dlv!Resend
  /\ UNCHANGED <<mainVars, rawVars, ctx, workerVars, event, deliveryVars>>

(* Mutant: the sending end is dropped only after the join. *)
MutCloseAfterJoin ==
  /\ pc = "done" /\ dlvTx
  /\ UNCHANGED config
  /\ Dlv!CloseTx
  /\ UNCHANGED <<mainVars, rawVars, ctx, workerVars, event, deliveryVars>>

(* drop(tx); drop(latest_rx). *)
CloseDelivery ==
  /\ pc = "join" /\ dlvTx
  /\ UNCHANGED config
  /\ Dlv!CloseTx
  /\ UNCHANGED <<mainVars, rawVars, ctx, workerVars, event, deliveryVars>>

(* Mutant: the file's error is returned before the delivery is joined. *)
MutErrorSkipsJoin ==
  /\ pc = "join" /\ ~dlvTx /\ (failed \/ dpc = "done")
  /\ pc' = "done"
  /\ UNCHANGED <<config, mainVars, rawVars, ctx, held, window, deadline, failed,
                 file, dlvVars, deliveryVars>>

(* Join the delivery worker, then return the loop's result. *)
JoinDelivery ==
  /\ pc = "join" /\ ~dlvTx /\ dpc = "done"
  /\ pc' = "done"
  /\ UNCHANGED <<config, mainVars, rawVars, ctx, held, window, deadline, failed,
                 file, dlvVars, deliveryVars>>

SinkWorker ==
  \/ Receive \/ WriteFails \/ StoreInterval \/ StoreWindowed \/ CheckClock
  \/ WaitTimesOut \/ InputEnds \/ LoopReturns \/ QueueContinues
  \/ CloseDelivery \/ JoinDelivery

-----------------------------------------------------------------------------
(* The delivery worker: deliver_push_metrics. *)

TakeEvent ==
  /\ dpc = "recv"
  /\ UNCHANGED config
  /\ Dlv!Recv
  /\ dpc' = "push"
  /\ UNCHANGED <<mainVars, rawVars, ctx, workerVars, event, deleted>>

(* push or push_window returns; an error is logged. *)
PushReturns ==
  /\ dpc = "push"
  /\ dpc' = "recv"
  /\ UNCHANGED <<config, mainVars, rawVars, ctx, workerVars, dlvVars, deleted>>

(* The channel is disconnected and empty. *)
EventsEnd ==
  /\ dpc = "recv"
  /\ UNCHANGED config
  /\ Dlv!RecvEnd
  /\ dpc' = IF deletes THEN "delete" ELSE "done"
  /\ UNCHANGED <<mainVars, rawVars, ctx, workerVars, event, deleted>>

(* delete_pushgateway_on_finish: an error is logged. *)
DeleteReturns ==
  /\ dpc = "delete"
  /\ dpc' = "done"
  /\ deleted' = deleted + 1
  /\ UNCHANGED <<config, mainVars, rawVars, ctx, workerVars, dlvVars>>

DeliveryWorker == TakeEvent \/ PushReturns \/ EventsEnd \/ DeleteReturns

(* Only window delivery looks at a sample's context. *)
ContextsThatMatter ==
  IF push = "window" THEN Contexts ELSE {CHOOSE c \in Contexts : TRUE}

Next ==
  \/ \E c \in ContextsThatMatter : Callback(c)
  \/ CallbackContinues \/ StopCallback \/ JoinSinkWorker
  \/ TimePasses \/ SinkWorker \/ DeliveryWorker

(* The run's thread and the sink worker are scheduled and time passes.     *)
(* Nothing is assumed of HTTP, nor that the run ends.                      *)
Fairness ==
  /\ WF_vars(CallbackContinues) /\ WF_vars(JoinSinkWorker)
  /\ WF_vars(SinkWorker) /\ WF_vars(TimePasses)

Spec == Init /\ [][Next]_vars /\ Fairness

-----------------------------------------------------------------------------
(* The samples of each event the delivery worker took, in order. *)
Taken == [i \in 1..Len(dlvGot) |-> event[dlvGot[i]]]

Upto(n) == [i \in 1..n |-> i]

(* Types; each channel is well formed, and the window worker's deadline is *)
(* set exactly while its window is not empty.                              *)
TypeOK ==
  /\ Raw!TypeOK /\ Dlv!TypeOK
  /\ main \in {"running", "joining", "returned"}
  /\ result \in {"None", "Ok", "Err"}
  /\ pc \in {"loop", "wait", "write", "final", "join", "done"}
  /\ held \in 0..MaxItems /\ failed \in BOOLEAN
  /\ window \in Seq(1..MaxItems) /\ file \in Seq(1..MaxItems)
  /\ deadline \in {"None", "armed", "due"}
  /\ Len(event) = dlvSerial /\ Len(ctx) = rawSerial
  /\ dpc \in {"recv", "push", "delete", "done"} /\ deleted \in 0..1
  /\ pc \in {"loop", "wait", "write"} => (deadline = "None" <=> window = <<>>)

(* "File writing keeps every interval": the file always holds a gap-free   *)
(* prefix of the run's samples, finish fails exactly when a write failed,  *)
(* and a run that succeeds has written every sample.                       *)
FileComplete ==
  /\ hasFile => file = Upto(Len(file))
  /\ main = "returned" =>
       /\ result = "Err" <=> failed
       /\ result = "Ok" /\ hasFile => Len(file) = rawSerial

(* What the Pushgateway was offered by a run whose file did not fail: in   *)
(* immediate mode the newest sample comes last, however slow HTTP was and  *)
(* over two lossy channels; with a window interval every sample is in      *)
(* exactly one window, in order.                                           *)
DeliveryComplete ==
  main = "returned" /\ result = "Ok" =>
    /\ push = "immediate" /\ rawSerial > 0 =>
         Taken # <<>> /\ Last(Taken) = <<rawSerial>>
    /\ push = "window" => FlattenSeq(Taken) = Upto(rawSerial)

(* finish leaves nothing behind, whether or not the file failed: both      *)
(* workers have returned, every queued event was offered, and the group    *)
(* was deleted once, after that, if so configured.                         *)
NothingLeftBehind ==
  main = "returned" =>
    /\ dpc = "done" /\ dlvChan = <<>>
    /\ deleted = IF deletes THEN 1 ELSE 0

(* A gateway that never answers does not hold the file back: every sample  *)
(* of the run is written unless a write fails.                             *)
FileNotHeldByHttp ==
  \A n \in 1..MaxItems :
    hasFile /\ rawSerial >= n ~> failed \/ n \in Range(file)

(* finish returns if every HTTP request does. *)
FinishReturns ==
  WF_vars(DeliveryWorker) => (main = "joining" ~> main = "returned")
=============================================================================
