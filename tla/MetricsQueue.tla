---------------------------- MODULE MetricsQueue ----------------------------
(***************************************************************************)
(* The channel between a metrics producer and its worker thread:           *)
(* metrics_channel and enqueue_latest of src/src/metrics.rs, the Drop of   *)
(* the reporter that owns the sending end, and the `for x in rx` loop of   *)
(* the worker.  Both channels of a run are of this kind: libiperf callback *)
(* to metrics worker, and metrics worker to Pushgateway delivery worker.   *)
(*                                                                         *)
(* An item is its serial number in the order enqueue_latest was called.    *)
(* Each access to the crossbeam channel is atomic; between two accesses of *)
(* enqueue_latest the reader runs.  There is one producer at a time: the   *)
(* callback enqueues with the registry's mutex held, and the delivery      *)
(* channel has one sending thread.                                         *)
(***************************************************************************)
EXTENDS Naturals, Sequences

CONSTANT MaxItems   \* bound: the number of items enqueued

ASSUME MaxItemsAssumption == MaxItems \in Nat

VARIABLES
  queue,    \* the MetricsQueue the channel was made for: "Latest" or "All"
  tx,       \* the sending end (with latest_rx, its clone of rx) is alive
  rx,       \* the reader: "live", "ended" (saw Disconnected), "dropped"
  chan,     \* the channel's buffer
  serial,   \* number of items handed to enqueue_latest
  step,     \* where the producer is in enqueue_latest
  got       \* items the reader received, in order (history)

vars == <<queue, tx, rx, chan, serial, step, got>>

(* metrics_channel: bounded(1) with a clone of rx for the producer, or     *)
(* unbounded.                                                              *)
Init ==
  /\ queue \in {"Latest", "All"}
  /\ tx = TRUE
  /\ rx = "live"
  /\ chan = <<>>
  /\ serial = 0
  /\ step = "idle"
  /\ got = <<>>

-----------------------------------------------------------------------------
(* Mutant: the channel is made with bounded(2). *)
MutCapacityTwo == queue = "Latest" /\ Len(chan) = 2

Full == queue = "Latest" /\ Len(chan) = 1

(* The first try_send: Ok, Full, or Disconnected.  A Latest channel is     *)
(* never disconnected while its producer lives, which holds a receiver.    *)
TrySend ==
  /\ tx /\ step = "idle" /\ serial < MaxItems
  /\ serial' = serial + 1
  /\ \/ /\ rx # "dropped" /\ ~Full
        /\ chan' = Append(chan, serial + 1)
        /\ UNCHANGED step
     \/ /\ rx # "dropped" /\ Full
        /\ step' = "full"
        /\ UNCHANGED chan
     \/ /\ rx = "dropped"
        /\ UNCHANGED <<chan, step>>
  /\ UNCHANGED <<queue, tx, rx, got>>

(* Mutant: Full is answered by dropping the new item, not the queued one. *)
MutKeepStale ==
  /\ step = "full"
  /\ step' = "resend"
  /\ UNCHANGED <<queue, tx, rx, chan, serial, got>>

(* Full: latest_rx.try_recv().  It finds nothing when the reader took the  *)
(* item first.                                                             *)
DiscardStale ==
  /\ step = "full"
  /\ step' = "resend"
  /\ chan' = IF chan = <<>> THEN chan ELSE Tail(chan)
  /\ UNCHANGED <<queue, tx, rx, serial, got>>

(* Mutant: the item that found the channel full is not sent again. *)
MutNoResend ==
  /\ step = "resend"
  /\ step' = "idle"
  /\ UNCHANGED <<queue, tx, rx, chan, serial, got>>

(* The second try_send, its result ignored. *)
Resend ==
  /\ step = "resend"
  /\ step' = "idle"
  /\ chan' = IF Full THEN chan ELSE Append(chan, serial)
  /\ UNCHANGED <<queue, tx, rx, serial, got>>

(* The sending end is dropped, by the thread that enqueues: the reporter's *)
(* Drop removes the registry entry, or the worker drops tx and latest_rx.  *)
CloseTx ==
  /\ tx /\ step = "idle"
  /\ tx' = FALSE
  /\ UNCHANGED <<queue, rx, chan, serial, step, got>>

-----------------------------------------------------------------------------
Recv ==
  /\ rx = "live" /\ chan # <<>>
  /\ got' = Append(got, Head(chan))
  /\ chan' = Tail(chan)
  /\ UNCHANGED <<queue, tx, rx, serial, step>>

(* recv() returns Disconnected only when the channel is empty. *)
RecvEnd ==
  /\ rx = "live" /\ chan = <<>> /\ ~tx
  /\ rx' = "ended"
  /\ UNCHANGED <<queue, tx, chan, serial, step, got>>

(* The worker returns early (a metrics file error, a dropped stream) and   *)
(* its receiver goes with what is still queued.  Only workers that read an *)
(* All channel return early.                                               *)
DropRx ==
  /\ rx = "live" /\ queue = "All"
  /\ rx' = "dropped"
  /\ chan' = <<>>
  /\ UNCHANGED <<queue, tx, serial, step, got>>

Enqueue == TrySend \/ DiscardStale \/ Resend

Next == Enqueue \/ CloseTx \/ Recv \/ RecvEnd \/ DropRx

(* The producer runs to the end of enqueue_latest and a live reader keeps  *)
(* reading; nothing makes the producer enqueue or close.                   *)
Fairness ==
  /\ WF_vars(DiscardStale) /\ WF_vars(Resend)
  /\ WF_vars(Recv) /\ WF_vars(RecvEnd)

Spec == Init /\ [][Next]_vars /\ Fairness

-----------------------------------------------------------------------------
(* Types; a Latest channel holds at most one item, an All channel never    *)
(* makes enqueue_latest take its second branch.                            *)
TypeOK ==
  /\ queue \in {"Latest", "All"}
  /\ tx \in BOOLEAN
  /\ rx \in {"live", "ended", "dropped"}
  /\ chan \in Seq(Nat)
  /\ serial \in 0..MaxItems
  /\ step \in {"idle", "full", "resend"}
  /\ got \in Seq(Nat)
  /\ queue = "Latest" => Len(chan) <= 1
  /\ queue = "All" => step = "idle"

(* The newest item the reader can know of: the last queued, else the last  *)
(* received.                                                               *)
NewestKnown ==
  IF chan # <<>> THEN chan[Len(chan)]
  ELSE IF got # <<>> THEN got[Len(got)] ELSE 0

(* Whenever enqueue_latest is not running, the newest item is queued or    *)
(* was received: the race of try_recv against the reader, and the ignored  *)
(* result of the second try_send, never lose it (metrics.rs:946).          *)
NewestKept == step = "idle" /\ rx # "dropped" => NewestKnown = serial

(* A reader of a Latest channel never receives an item that a finished     *)
(* enqueue has superseded: "prefer freshness over completeness when pushes *)
(* fall behind" (metrics.rs:950).                                          *)
FreshDelivery ==
  [][ queue = "Latest" /\ got' # got
      => got'[Len(got')] >= (IF step = "idle" THEN serial ELSE serial - 1) ]_vars

(* The channel implements the feed.  An enqueue that finds the channel     *)
(* full takes effect when it removes, or fails to find, the stale item:    *)
(* from there until its second try_send nothing else can be received.      *)
Feed == INSTANCE SampleFeed WITH
  kind    <- queue,
  open    <- tx,
  reader  <- rx,
  newest  <- IF step = "full" THEN serial - 1 ELSE serial,
  pending <- IF step = "resend" THEN <<serial>> ELSE chan,
  seen    <- got

(* Every behaviour of the channel is one of the feed, its progress         *)
(* included: an All reader gets every item once and in order, a Latest     *)
(* reader an increasing subsequence ending in the newest, and a reader of  *)
(* a closed channel gets to the end (metrics.rs:555-573, 946-959).         *)
ImplementsFeed == Feed!Spec
=============================================================================
