-------------------------- MODULE MetricsSinksProofs --------------------------
(***************************************************************************)
(* Proofs about MetricsSinks for any number of samples, any contexts and   *)
(* every combination of sinks.                                             *)
(***************************************************************************)
EXTENDS MetricsSinks, SequenceTheorems, TLAPS

(* What is proved of a MetricsQueue holds of both channels.  RawQ also     *)
(* gives the lemmas about sequences.                                       *)
RawQ == INSTANCE MetricsQueueProofs WITH
  queue <- RawQueue, tx <- rawTx, rx <- rawRx, chan <- rawChan,
  serial <- rawSerial, step <- rawStep, got <- rawGot

DlvQ == INSTANCE MetricsQueueProofs WITH
  queue <- DeliveryQueue, tx <- dlvTx, rx <- dlvRx, chan <- dlvChan,
  serial <- dlvSerial, step <- dlvStep, got <- dlvGot

Items == 1..MaxItems

Types ==
  /\ hasFile \in BOOLEAN /\ deletes \in BOOLEAN
  /\ push \in {"none", "immediate", "window"}
  /\ main \in {"running", "joining", "returned"}
  /\ result \in {"None", "Ok", "Err"}
  /\ pc \in {"loop", "wait", "write", "final", "join", "done"}
  /\ held \in 0..MaxItems /\ (pc = "write" => held \in Items) /\ failed \in BOOLEAN
  /\ window \in Seq(Items) /\ file \in Seq(Items) /\ rawChan \in Seq(Items)
  /\ deadline \in {"None", "armed", "due"}
  /\ event \in Seq(Seq(Items)) /\ Len(event) = dlvSerial
  /\ ctx \in Seq(Contexts) /\ Len(ctx) = rawSerial
  /\ dpc \in {"recv", "push", "delete", "done"} /\ deleted \in 0..1

(* How far the three threads are, and what each knows of the next one.     *)
Progress ==
  /\ main = "returned" =>
       pc = "done" /\ result = (IF failed THEN "Err" ELSE "Ok")
  /\ failed => pc \in {"final", "join", "done"}
  /\ pc \in {"loop", "wait", "write"} => rawRx = "live"
  /\ pc \in {"final", "join", "done"} /\ ~failed => rawRx = "ended"
  /\ pc \in {"join", "done"} /\ ~failed => window = <<>>
  /\ pc = "done" => dpc = "done"
  /\ dpc \in {"delete", "done"} <=> dlvRx = "ended"
  /\ dlvRx # "dropped"
  /\ dpc = "delete" => deletes
  /\ deleted = (IF dpc = "done" /\ deletes THEN 1 ELSE 0)
  /\ push = "none" => dpc = "done" /\ ~deletes

(* The window is open exactly while its deadline is set. *)
WindowInv ==
  /\ pc \in {"loop", "wait", "write"} => (deadline = "None" <=> window = <<>>)
  /\ push # "window" => window = <<>>

(* Samples on their way: f and w went before, then comes the sample h that *)
(* the sink worker holds when it is about to write it, then the channel c. *)
Goes(f, w, at, h, c, n) ==
  IF at = "write" THEN RawQ!InOrder(f \o w, <<h>>, c, n)
                  ELSE RawQ!InOrder(f, w, c, n)

(* The file is a prefix of the run's samples, and while no write has       *)
(* failed the samples that are not in it are still to come.                *)
FileInv ==
  hasFile => /\ file = RawQ!Upto(Len(file))
             /\ ~failed => Goes(file, <<>>, pc, held, rawChan, rawSerial)

(* The samples of all events made so far. *)
Sent == RawQ!FlattenSeq(event)

(* Windows: what is in events, in the open window, held and still to come. *)
SentInv == push = "window" /\ ~failed => Goes(Sent, window, pc, held, rawChan, rawSerial)

(* The delivery channel of windows loses no event. *)
TakenInv == push = "window" => DlvQ!InOrder(<<>>, dlvGot, dlvChan, dlvSerial)

(* Immediate delivery: the last event is of the last sample received.      *)
NewestInv ==
  push = "immediate" /\ ~failed =>
    /\ rawGot # <<>> => held = rawGot[Len(rawGot)]
    /\ pc # "write" /\ rawGot # <<>> =>
         event # <<>> /\ event[Len(event)] = <<held>>

IInv ==
  /\ RawQ!IInv /\ DlvQ!IInv
  /\ Types /\ Progress /\ WindowInv
  /\ FileInv /\ SentInv /\ TakenInv /\ NewestInv

-----------------------------------------------------------------------------
LEMMA InitInv == Init => IInv
  <1> SUFFICES ASSUME Init PROVE IInv
    OBVIOUS
  <1> USE BoundAssumption DEF Init, Raw!Init
  <1>1. RawQ!IInv
    <2>1. RawQ!Init
      BY DEF RawQ!Init, RawQueue
    <2> QED BY <2>1, RawQ!InitInv
  <1>2. DlvQ!IInv
    BY DEF DlvQ!IInv, DlvQ!TypeOK, DlvQ!MidEnqueue, DlvQ!Ends, DlvQ!NewestKept,
           DlvQ!NewestKnown, DeliveryQueue
  <1>3. Types
    <2>1. /\ window \in Seq(Items) /\ file \in Seq(Items) /\ rawChan \in Seq(Items)
          /\ event \in Seq(Seq(Items)) /\ Len(event) = dlvSerial
          /\ ctx \in Seq(Contexts) /\ Len(ctx) = rawSerial
      BY EmptySeq
    <2>2. held \in 0..MaxItems /\ deleted \in 0..1 /\ pc # "write"
      OBVIOUS
    <2>3. dpc \in {"recv", "push", "delete", "done"}
      OBVIOUS
    <2> QED BY <2>1, <2>2, <2>3 DEF Types
  <1>4. Progress /\ WindowInv
    BY DEF Progress, WindowInv
  <1>5. (<<>> \o <<>>) \o <<>> = <<>> /\ RawQ!Upto(0) = <<>> /\ DlvQ!Upto(0) = <<>>
    BY DEF RawQ!Upto, DlvQ!Upto
  <1>6. Goes(<<>>, <<>>, pc, held, rawChan, rawSerial) /\ DlvQ!InOrder(<<>>, <<>>, <<>>, 0)
    BY <1>5 DEF Goes, RawQ!InOrder, DlvQ!InOrder
  <1>7. FileInv /\ TakenInv /\ NewestInv
    BY <1>5, <1>6 DEF FileInv, TakenInv, NewestInv
  <1>8. SentInv
    BY <1>6, RawQ!FlattenEmpty DEF SentInv, Sent
  <1> QED BY <1>1, <1>2, <1>3, <1>4, <1>7, <1>8 DEF IInv

-----------------------------------------------------------------------------
(* The two channels. *)

(* The instances MetricsSinks and this module make of a channel agree.     *)
LEMMA SameRaw ==
  /\ Raw!TrySend => RawQ!TrySend
  /\ Raw!DiscardStale => RawQ!DiscardStale
  /\ Raw!Resend => RawQ!Resend
  /\ Raw!CloseTx => RawQ!CloseTx
  /\ Raw!Recv => RawQ!Recv
  /\ Raw!RecvEnd => RawQ!RecvEnd
  /\ Raw!DropRx => RawQ!DropRx
  BY DEF Raw!TrySend, Raw!DiscardStale, Raw!Resend, Raw!CloseTx, Raw!Recv,
         Raw!RecvEnd, Raw!DropRx, Raw!Full,
         RawQ!TrySend, RawQ!DiscardStale, RawQ!Resend, RawQ!CloseTx, RawQ!Recv,
         RawQ!RecvEnd, RawQ!DropRx, RawQ!Full

LEMMA SameDlv ==
  /\ Dlv!TrySend => DlvQ!TrySend
  /\ Dlv!DiscardStale => DlvQ!DiscardStale
  /\ Dlv!Resend => DlvQ!Resend
  /\ Dlv!CloseTx => DlvQ!CloseTx
  /\ Dlv!Recv => DlvQ!Recv
  /\ Dlv!RecvEnd => DlvQ!RecvEnd
  BY DEF Dlv!TrySend, Dlv!DiscardStale, Dlv!Resend, Dlv!CloseTx, Dlv!Recv,
         Dlv!RecvEnd, Dlv!Full,
         DlvQ!TrySend, DlvQ!DiscardStale, DlvQ!Resend, DlvQ!CloseTx, DlvQ!Recv,
         DlvQ!RecvEnd, DlvQ!Full

LEMMA RawStep == RawQ!IInv /\ [Next]_vars => RawQ!IInv'
  <1> SUFFICES ASSUME RawQ!IInv, [Next]_vars PROVE RawQ!IInv'
    OBVIOUS
  <1> USE BoundAssumption
  <1>u. UNCHANGED <<config, rawVars>> => RawQ!IInv'
    <2>1. UNCHANGED <<config, rawVars>> => UNCHANGED RawQ!vars
      BY DEF config, rawVars, RawQ!vars, RawQueue
    <2> QED BY <2>1, RawQ!StutterInv
  <1>1. ASSUME NEW c \in ContextsThatMatter, Callback(c) PROVE RawQ!IInv'
    BY <1>1, SameRaw, RawQ!TrySendInv DEF Callback
  <1>2. CASE CallbackContinues
    BY <1>2, SameRaw, RawQ!DiscardStaleInv, RawQ!ResendInv DEF CallbackContinues
  <1>3. CASE StopCallback
    BY <1>3, SameRaw, RawQ!CloseTxInv DEF StopCallback
  <1>4. CASE JoinSinkWorker
    BY <1>4, <1>u DEF JoinSinkWorker
  <1>5. CASE TimePasses
    BY <1>5, <1>u DEF TimePasses
  <1>6. CASE Receive
    BY <1>6, SameRaw, RawQ!RecvInv DEF Receive
  <1>7. CASE WriteFails
    BY <1>7, <1>u DEF WriteFails
  <1>8. CASE StoreInterval
    BY <1>8, <1>u DEF StoreInterval
  <1>9. CASE StoreWindowed
    BY <1>9, <1>u DEF StoreWindowed
  <1>10. CASE CheckClock
    BY <1>10, <1>u DEF CheckClock
  <1>11. CASE WaitTimesOut
    BY <1>11, <1>u DEF WaitTimesOut
  <1>12. CASE InputEnds
    BY <1>12, SameRaw, RawQ!RecvEndInv DEF InputEnds
  <1>13. CASE LoopReturns
    <2>1. Raw!DropRx \/ UNCHANGED <<config, rawVars>>
      BY <1>13 DEF LoopReturns
    <2> QED BY <1>u, <2>1, SameRaw, RawQ!DropRxInv
  <1>14. CASE QueueContinues
    BY <1>14, <1>u DEF QueueContinues
  <1>15. CASE CloseDelivery
    BY <1>15, <1>u DEF CloseDelivery
  <1>16. CASE JoinDelivery
    BY <1>16, <1>u DEF JoinDelivery
  <1>17. CASE DeliveryWorker
    BY <1>17, <1>u DEF DeliveryWorker, TakeEvent, PushReturns, EventsEnd, DeleteReturns
  <1>18. CASE UNCHANGED vars
    BY <1>18, <1>u DEF vars
  <1> QED
    BY <1>1, <1>2, <1>3, <1>4, <1>5, <1>6, <1>7, <1>8, <1>9, <1>10, <1>11, <1>12,
       <1>13, <1>14, <1>15, <1>16, <1>17, <1>18 DEF Next, SinkWorker

LEMMA DlvStep == DlvQ!IInv /\ [Next]_vars => DlvQ!IInv'
  <1> SUFFICES ASSUME DlvQ!IInv, [Next]_vars PROVE DlvQ!IInv'
    OBVIOUS
  <1> USE BoundAssumption
  <1>u. UNCHANGED <<config, dlvVars>> => DlvQ!IInv'
    <2>1. UNCHANGED <<config, dlvVars>> => UNCHANGED DlvQ!vars
      BY DEF config, dlvVars, DlvQ!vars, DeliveryQueue
    <2> QED BY <2>1, DlvQ!StutterInv
  <1>q. Dlv!TrySend => DlvQ!IInv'
    BY SameDlv, DlvQ!TrySendInv
  <1>1. ASSUME NEW c \in ContextsThatMatter, Callback(c) PROVE DlvQ!IInv'
    BY <1>1, <1>u DEF Callback
  <1>2. CASE CallbackContinues
    BY <1>2, <1>u DEF CallbackContinues
  <1>3. CASE StopCallback
    BY <1>3, <1>u DEF StopCallback
  <1>4. CASE JoinSinkWorker
    BY <1>4, <1>u DEF JoinSinkWorker
  <1>5. CASE TimePasses
    BY <1>5, <1>u DEF TimePasses
  <1>6. CASE Receive
    BY <1>6, <1>u DEF Receive
  <1>7. CASE WriteFails
    BY <1>7, <1>u DEF WriteFails
  <1>8. CASE StoreInterval
    BY <1>8, <1>u, <1>q DEF StoreInterval, Queue
  <1>9. CASE StoreWindowed
    BY <1>9, <1>u, <1>q DEF StoreWindowed, Queue
  <1>10. CASE CheckClock
    BY <1>10, <1>u, <1>q DEF CheckClock, FlushWindow, Queue
  <1>11. CASE WaitTimesOut
    BY <1>11, <1>u, <1>q DEF WaitTimesOut, FlushWindow, Queue
  <1>12. CASE InputEnds
    BY <1>12, <1>u DEF InputEnds
  <1>13. CASE LoopReturns
    BY <1>13, <1>u, <1>q DEF LoopReturns, FlushWindow, Queue
  <1>14. CASE QueueContinues
    BY <1>14, SameDlv, DlvQ!DiscardStaleInv, DlvQ!ResendInv DEF QueueContinues
  <1>15. CASE CloseDelivery
    BY <1>15, SameDlv, DlvQ!CloseTxInv DEF CloseDelivery
  <1>16. CASE JoinDelivery
    BY <1>16, <1>u DEF JoinDelivery
  <1>17. CASE TakeEvent
    BY <1>17, SameDlv, DlvQ!RecvInv DEF TakeEvent
  <1>18. CASE PushReturns
    BY <1>18, <1>u DEF PushReturns
  <1>19. CASE EventsEnd
    BY <1>19, SameDlv, DlvQ!RecvEndInv DEF EventsEnd
  <1>20. CASE DeleteReturns
    BY <1>20, <1>u DEF DeleteReturns
  <1>21. CASE UNCHANGED vars
    BY <1>21, <1>u DEF vars
  <1> QED
    BY <1>1, <1>2, <1>3, <1>4, <1>5, <1>6, <1>7, <1>8, <1>9, <1>10, <1>11, <1>12,
       <1>13, <1>14, <1>15, <1>16, <1>17, <1>18, <1>19, <1>20, <1>21
    DEF Next, SinkWorker, DeliveryWorker

-----------------------------------------------------------------------------
(* What the channel operations do to the data. *)

LEMMA Queued ==
  ASSUME DlvQ!IInv, Types, NEW w \in Seq(Items), Queue(w)
  PROVE  /\ event' = Append(event, w) /\ dlvSerial' = dlvSerial + 1
         /\ event' \in Seq(Seq(Items)) /\ Len(event') = dlvSerial'
         /\ UNCHANGED <<dlvTx, dlvRx, dlvGot>>
  <1>1. event' = Append(event, w) /\ dlvSerial' = dlvSerial + 1 /\ UNCHANGED <<dlvTx, dlvRx, dlvGot>>
    BY DEF Queue, Dlv!TrySend
  <1>2. event \in Seq(Seq(Items)) /\ Len(event) = dlvSerial
    BY DEF Types
  <1>3. Append(event, w) \in Seq(Seq(Items)) /\ Len(Append(event, w)) = Len(event) + 1
    BY <1>2, AppendProperties
  <1> QED BY <1>1, <1>2, <1>3

LEMMA Flushed ==
  ASSUME DlvQ!IInv, Types, FlushWindow
  PROVE  /\ window' = <<>> /\ window' \in Seq(Items)
         /\ event' \in Seq(Seq(Items)) /\ Len(event') = dlvSerial'
         /\ UNCHANGED <<dlvTx, dlvRx, dlvGot>>
         /\ \/ window = <<>> /\ UNCHANGED dlvVars
            \/ window # <<>> /\ Queue(window)
  <1>1. window \in Seq(Items) /\ event \in Seq(Seq(Items)) /\ Len(event) = dlvSerial
    BY DEF Types
  <1>2. window' = <<>> /\ window' \in Seq(Items)
    BY DEF FlushWindow
  <1>3. CASE window = <<>>
    BY <1>1, <1>2, <1>3 DEF FlushWindow, dlvVars
  <1>4. CASE window # <<>>
    <2>1. Queue(window)
      BY <1>4 DEF FlushWindow
    <2> QED BY <1>1, <1>2, <1>4, <2>1, Queued
  <1> QED BY <1>3, <1>4

LEMMA Sampled ==
  ASSUME RawQ!IInv, Types, NEW c \in Contexts, Raw!TrySend, ctx' = Append(ctx, c)
  PROVE  /\ rawSerial' = rawSerial + 1 /\ rawSerial + 1 \in Items /\ rawSerial \in Nat
         /\ rawChan' \in Seq(Items)
         /\ ctx' \in Seq(Contexts) /\ Len(ctx') = rawSerial'
         /\ UNCHANGED <<rawTx, rawRx, rawGot>>
  <1>1. rawSerial' = rawSerial + 1 /\ rawSerial < MaxItems /\ UNCHANGED <<rawTx, rawRx, rawGot>>
        /\ rawChan' \in {rawChan, Append(rawChan, rawSerial + 1)}
    BY DEF Raw!TrySend
  <1>2. rawSerial \in Nat
    BY BoundAssumption DEF RawQ!IInv, RawQ!TypeOK
  <1>3. rawSerial + 1 \in Items
    BY <1>1, <1>2, BoundAssumption DEF Items
  <1>4. rawChan \in Seq(Items) /\ ctx \in Seq(Contexts) /\ Len(ctx) = rawSerial
    BY DEF Types
  <1>5. Append(rawChan, rawSerial + 1) \in Seq(Items)
    BY <1>3, <1>4, AppendProperties
  <1>6. ctx' \in Seq(Contexts) /\ Len(ctx') = Len(ctx) + 1
    BY <1>4, AppendProperties
  <1> QED BY <1>1, <1>2, <1>3, <1>4, <1>5, <1>6

LEMMA Resent ==
  ASSUME RawQ!IInv, Types, Raw!DiscardStale \/ Raw!Resend
  PROVE  rawChan' \in Seq(Items) /\ UNCHANGED <<rawTx, rawRx, rawGot, rawSerial>>
  <1>1. rawChan \in Seq(Items)
    BY DEF Types
  <1>2. CASE Raw!DiscardStale
    <2>1. rawChan # <<>> => Tail(rawChan) \in Seq(Items)
      BY <1>1, HeadTailProperties
    <2> QED BY <1>1, <1>2, <2>1 DEF Raw!DiscardStale
  <1>3. CASE Raw!Resend
    <2>1. rawSerial \in Items
      BY <1>3, BoundAssumption
         DEF Raw!Resend, RawQ!IInv, RawQ!TypeOK, RawQ!MidEnqueue, Items
    <2>2. Append(rawChan, rawSerial) \in Seq(Items)
      BY <1>1, <2>1, AppendProperties
    <2> QED BY <1>1, <1>3, <2>2 DEF Raw!Resend
  <1> QED BY <1>2, <1>3

LEMMA Received ==
  ASSUME Types, Raw!Recv
  PROVE  /\ rawChan # <<>> /\ Head(rawChan) \in Items
         /\ rawChan' = Tail(rawChan) /\ rawChan' \in Seq(Items)
         /\ rawGot' = Append(rawGot, Head(rawChan))
         /\ UNCHANGED <<rawTx, rawRx, rawSerial, rawStep>>
  <1>1. /\ rawChan # <<>> /\ rawChan' = Tail(rawChan)
        /\ rawGot' = Append(rawGot, Head(rawChan))
        /\ UNCHANGED <<rawTx, rawRx, rawSerial, rawStep>>
    BY DEF Raw!Recv
  <1>2. rawChan \in Seq(Items)
    BY DEF Types
  <1> QED BY <1>1, <1>2, HeadTailProperties

LEMMA Written ==
  ASSUME Types, pc = "write", Write
  PROVE  file' \in Seq(Items) /\ Append(window, held) \in Seq(Items) /\ <<held>> \in Seq(Items)
  <1>1. file \in Seq(Items) /\ window \in Seq(Items) /\ held \in Items
    BY DEF Types
  <1>2. Append(file, held) \in Seq(Items) /\ Append(window, held) \in Seq(Items)
    BY <1>1, AppendProperties
  <1> QED BY <1>1, <1>2 DEF Write

LEMMA TypesStep == IInv /\ [Next]_vars => Types'
  <1> SUFFICES ASSUME IInv, [Next]_vars PROVE Types'
    OBVIOUS
  <1> USE DEF config, mainVars, rawVars, workerVars, dlvVars, deliveryVars
  <1>0. Types /\ RawQ!IInv /\ DlvQ!IInv
    BY DEF IInv
  <1>1. ASSUME NEW c \in ContextsThatMatter, Callback(c) PROVE Types'
    <2>1. c \in Contexts
      BY <1>1, ContextsAssumption DEF ContextsThatMatter
    <2>2. Raw!TrySend /\ ctx' = Append(ctx, c)
      BY <1>1 DEF Callback
    <2>3. rawChan' \in Seq(Items) /\ ctx' \in Seq(Contexts) /\ Len(ctx') = rawSerial'
      BY <1>0, <2>1, <2>2, Sampled
    <2> QED BY <1>0, <1>1, <2>3 DEF Types, Callback
  <1>2. CASE CallbackContinues
    BY <1>0, <1>2, Resent DEF Types, CallbackContinues
  <1>3. CASE StopCallback
    BY <1>0, <1>3 DEF Types, StopCallback, Raw!CloseTx
  <1>4. CASE JoinSinkWorker
    BY <1>0, <1>4 DEF Types, JoinSinkWorker
  <1>5. CASE TimePasses
    BY <1>0, <1>5 DEF Types, TimePasses
  <1>6. CASE Receive
    <2>1. Raw!Recv /\ held' = Head(rawChan)
      BY <1>6 DEF Receive
    <2>2. rawChan' \in Seq(Items) /\ held' \in Items /\ rawSerial' = rawSerial
      BY <1>0, <2>1, Received
    <2>3. held' \in 0..MaxItems
      BY <2>2, BoundAssumption DEF Items
    <2> QED BY <1>0, <1>6, <2>2, <2>3 DEF Types, Receive
  <1>7. CASE WriteFails
    BY <1>0, <1>7 DEF Types, WriteFails
  <1>8. CASE StoreInterval
    <2>1. file' \in Seq(Items) /\ <<held>> \in Seq(Items)
      BY <1>0, <1>8, Written DEF StoreInterval
    <2>2. event' \in Seq(Seq(Items)) /\ Len(event') = dlvSerial'
      BY <1>0, <1>8, <2>1, Queued DEF StoreInterval, Types
    <2> QED BY <1>0, <1>8, <2>1, <2>2 DEF Types, StoreInterval
  <1>9. CASE StoreWindowed
    <2>1. file' \in Seq(Items) /\ <<held>> \in Seq(Items) /\ Append(window, held) \in Seq(Items)
      BY <1>0, <1>9, Written DEF StoreWindowed
    <2>2. event' \in Seq(Seq(Items)) /\ Len(event') = dlvSerial'
      <3>1. event \in Seq(Seq(Items)) /\ Len(event) = dlvSerial /\ window \in Seq(Items)
        BY <1>0 DEF Types
      <3>2. Queue(window) \/ UNCHANGED dlvVars
        BY <1>9 DEF StoreWindowed
      <3> QED BY <1>0, <3>1, <3>2, Queued
    <2>3. window' \in Seq(Items) /\ deadline' \in {"None", "armed", "due"}
      BY <1>0, <1>9, <2>1 DEF StoreWindowed, Types
    <2> QED BY <1>0, <1>9, <2>1, <2>2, <2>3 DEF Types, StoreWindowed
  <1>10. CASE CheckClock
    <2>1. CASE deadline = "due"
      BY <1>0, <1>10, <2>1, Flushed DEF Types, CheckClock
    <2>2. CASE deadline # "due"
      BY <1>0, <1>10, <2>2 DEF Types, CheckClock
    <2> QED BY <2>1, <2>2
  <1>11. CASE WaitTimesOut
    BY <1>0, <1>11, Flushed DEF Types, WaitTimesOut
  <1>12. CASE InputEnds
    BY <1>0, <1>12 DEF Types, InputEnds, Raw!RecvEnd
  <1>13. CASE LoopReturns
    <2>1. /\ window' \in Seq(Items) /\ event' \in Seq(Seq(Items))
          /\ Len(event') = dlvSerial'
      BY <1>0, <1>13, Flushed DEF LoopReturns, Types
    <2>2. rawChan' \in {rawChan, <<>>} /\ rawSerial' = rawSerial
      BY <1>13 DEF LoopReturns, Raw!DropRx
    <2>3. rawChan' \in Seq(Items)
      <3>1. <<>> \in Seq(Items)
        OBVIOUS
      <3> QED BY <1>0, <2>2, <3>1 DEF Types
    <2>4. pc' \in {"join", "done"}
      BY <1>13 DEF LoopReturns
    <2> QED BY <1>0, <1>13, <2>1, <2>2, <2>3, <2>4 DEF Types, LoopReturns
  <1>14. CASE QueueContinues
    BY <1>0, <1>14 DEF Types, QueueContinues, Dlv!DiscardStale, Dlv!Resend
  <1>15. CASE CloseDelivery
    BY <1>0, <1>15 DEF Types, CloseDelivery, Dlv!CloseTx
  <1>16. CASE JoinDelivery
    BY <1>0, <1>16 DEF Types, JoinDelivery
  <1>17. CASE TakeEvent
    BY <1>0, <1>17 DEF Types, TakeEvent, Dlv!Recv
  <1>18. CASE PushReturns
    BY <1>0, <1>18 DEF Types, PushReturns
  <1>19. CASE EventsEnd
    BY <1>0, <1>19 DEF Types, EventsEnd, Dlv!RecvEnd
  <1>20. CASE DeleteReturns
    <2>1. deleted = 0
      BY <1>20 DEF DeleteReturns, IInv, Progress
    <2> QED BY <1>0, <1>20, <2>1 DEF Types, DeleteReturns
  <1>21. CASE UNCHANGED vars
    BY <1>0, <1>21 DEF Types, vars
  <1> QED
    BY <1>1, <1>2, <1>3, <1>4, <1>5, <1>6, <1>7, <1>8, <1>9, <1>10, <1>11, <1>12,
       <1>13, <1>14, <1>15, <1>16, <1>17, <1>18, <1>19, <1>20, <1>21
    DEF Next, SinkWorker, DeliveryWorker

LEMMA ProgressStep == IInv /\ [Next]_vars => Progress'
  <1> SUFFICES ASSUME IInv, [Next]_vars PROVE Progress'
    OBVIOUS
  <1> USE DEF config, mainVars, rawVars, workerVars, dlvVars, deliveryVars, Progress
  <1>0. Types /\ Progress
    BY DEF IInv
  <1>r. (rawRx = "ended" => ~rawTx) /\ (dlvRx = "ended" => ~dlvTx)
    BY DEF IInv, RawQ!IInv, RawQ!Ends, DlvQ!IInv, DlvQ!Ends
  <1>1. ASSUME NEW c \in ContextsThatMatter, Callback(c) PROVE Progress'
    BY <1>0, <1>1 DEF Callback, Raw!TrySend
  <1>2. CASE CallbackContinues
    BY <1>0, <1>2 DEF CallbackContinues, Raw!DiscardStale, Raw!Resend
  <1>3. CASE StopCallback
    BY <1>0, <1>3 DEF StopCallback, Raw!CloseTx
  <1>4. CASE JoinSinkWorker
    BY <1>0, <1>4 DEF JoinSinkWorker
  <1>5. CASE TimePasses
    BY <1>0, <1>5 DEF TimePasses
  <1>6. CASE Receive
    BY <1>0, <1>6 DEF Receive, Receiving, Idle, Raw!Recv
  <1>7. CASE WriteFails
    BY <1>0, <1>7 DEF WriteFails
  <1>8. CASE StoreInterval
    BY <1>0, <1>8 DEF StoreInterval, Queue, Dlv!TrySend
  <1>9. CASE StoreWindowed
    BY <1>0, <1>9 DEF StoreWindowed, Queue, Dlv!TrySend
  <1>f. FlushWindow => UNCHANGED <<dlvTx, dlvRx>> /\ window' = <<>>
    BY DEF FlushWindow, Queue, Dlv!TrySend
  <1>10. CASE CheckClock
    BY <1>0, <1>10, <1>f DEF CheckClock, Idle
  <1>11. CASE WaitTimesOut
    BY <1>0, <1>11, <1>f DEF WaitTimesOut, Idle
  <1>12. CASE InputEnds
    BY <1>0, <1>12 DEF InputEnds, Receiving, Idle, Raw!RecvEnd
  <1>13. CASE LoopReturns
    <2>1. /\ pc = "final" /\ pc' = (IF push = "none" THEN "done" ELSE "join")
          /\ UNCHANGED <<config, main, result, failed, dpc, deleted, dlvTx, dlvRx>>
          /\ ~failed => window' = <<>>
      BY <1>13, <1>f DEF LoopReturns, Idle
    <2>2. ~failed => rawRx' = "ended"
      BY <1>0, <1>13, <2>1 DEF LoopReturns
    <2> QED BY <1>0, <2>1, <2>2
  <1>14. CASE QueueContinues
    BY <1>0, <1>14 DEF QueueContinues, Dlv!DiscardStale, Dlv!Resend
  <1>15. CASE CloseDelivery
    BY <1>0, <1>15 DEF CloseDelivery, Dlv!CloseTx
  <1>16. CASE JoinDelivery
    BY <1>0, <1>16 DEF JoinDelivery
  <1>17. CASE TakeEvent
    BY <1>0, <1>17 DEF TakeEvent, Dlv!Recv
  <1>18. CASE PushReturns
    BY <1>0, <1>18 DEF PushReturns
  <1>19. CASE EventsEnd
    BY <1>0, <1>19 DEF EventsEnd, Dlv!RecvEnd, Types
  <1>20. CASE DeleteReturns
    BY <1>0, <1>20 DEF DeleteReturns
  <1>21. CASE UNCHANGED vars
    BY <1>0, <1>21 DEF vars
  <1> QED
    BY <1>1, <1>2, <1>3, <1>4, <1>5, <1>6, <1>7, <1>8, <1>9, <1>10, <1>11, <1>12,
       <1>13, <1>14, <1>15, <1>16, <1>17, <1>18, <1>19, <1>20, <1>21
    DEF Next, SinkWorker, DeliveryWorker

LEMMA WindowStep == IInv /\ [Next]_vars => WindowInv'
  <1> SUFFICES ASSUME IInv, [Next]_vars PROVE WindowInv'
    OBVIOUS
  <1> USE DEF config, mainVars, rawVars, workerVars, dlvVars, deliveryVars, WindowInv
  <1>0. Types /\ WindowInv
    BY DEF IInv
  <1>u. UNCHANGED <<config, pc, deadline, window>> => WindowInv'
    BY <1>0
  <1>1. ASSUME NEW c \in ContextsThatMatter, Callback(c) PROVE WindowInv'
    BY <1>1, <1>u DEF Callback
  <1>2. CASE CallbackContinues
    BY <1>2, <1>u DEF CallbackContinues
  <1>3. CASE StopCallback \/ JoinSinkWorker
    BY <1>3, <1>u DEF StopCallback, JoinSinkWorker
  <1>4. CASE TimePasses
    BY <1>0, <1>4 DEF TimePasses
  <1>5. CASE Receive
    BY <1>0, <1>5 DEF Receive, Receiving, Idle
  <1>6. CASE WriteFails \/ InputEnds
    BY <1>0, <1>6 DEF WriteFails, InputEnds
  <1>7. CASE StoreInterval
    BY <1>0, <1>7 DEF StoreInterval
  <1>8. CASE StoreWindowed
    <2>1. Append(window, held) # <<>>
      <3>1. window \in Seq(Items) /\ held \in Items
        BY <1>0, <1>8 DEF Types, StoreWindowed
      <3> QED BY <3>1, BoundAssumption, RawQ!LastOfAppend
    <2>2. window' # <<>>
      BY <1>8, <2>1 DEF StoreWindowed
    <2>3. deadline' # "None" /\ push' = "window"
      BY <1>0, <1>8 DEF StoreWindowed
    <2> QED BY <2>2, <2>3
  <1>9. CASE CheckClock
    BY <1>0, <1>9 DEF CheckClock, FlushWindow, Idle
  <1>10. CASE WaitTimesOut
    BY <1>0, <1>10 DEF WaitTimesOut, FlushWindow
  <1>11. CASE LoopReturns
    BY <1>0, <1>11 DEF LoopReturns, FlushWindow
  <1>12. CASE QueueContinues \/ CloseDelivery
    BY <1>12, <1>u DEF QueueContinues, CloseDelivery
  <1>13. CASE JoinDelivery
    BY <1>0, <1>13 DEF JoinDelivery
  <1>14. CASE DeliveryWorker
    BY <1>14, <1>u DEF DeliveryWorker, TakeEvent, PushReturns, EventsEnd, DeleteReturns
  <1>15. CASE UNCHANGED vars
    BY <1>15, <1>u DEF vars
  <1> QED
    BY <1>1, <1>2, <1>3, <1>4, <1>5, <1>6, <1>7, <1>8, <1>9, <1>10, <1>11, <1>12,
       <1>13, <1>14, <1>15 DEF Next, SinkWorker

-----------------------------------------------------------------------------
(* What the steps of the sink worker do to samples on their way.           *)

LEMMA GoesNext ==
  ASSUME NEW S, NEW n \in Nat, n + 1 \in S, NEW f \in Seq(S), NEW w \in Seq(S),
         NEW at, NEW h \in S, NEW c \in Seq(S), Goes(f, w, at, h, c, n)
  PROVE  Goes(f, w, at, h, Append(c, n + 1), n + 1)
  <1>1. f \o w \in Seq(S) /\ <<h>> \in Seq(S)
    BY ConcatProperties
  <1>2. CASE at = "write"
    <2>1. RawQ!InOrder(f \o w, <<h>>, c, n)
      BY <1>2 DEF Goes
    <2>2. RawQ!InOrder(f \o w, <<h>>, Append(c, n + 1), n + 1)
      BY <1>1, <2>1, BoundAssumption, RawQ!NextSample, Zenon
    <2> QED BY <1>2, <2>2 DEF Goes
  <1>3. CASE at # "write"
    <2>1. RawQ!InOrder(f, w, c, n)
      BY <1>3 DEF Goes
    <2>2. RawQ!InOrder(f, w, Append(c, n + 1), n + 1)
      BY <2>1, BoundAssumption, RawQ!NextSample, Zenon
    <2> QED BY <1>3, <2>2 DEF Goes
  <1> QED BY <1>2, <1>3

LEMMA GoesIdle ==
  ASSUME NEW S, NEW n \in Nat, n + 1 \in S, NEW f \in Seq(S), NEW w \in Seq(S),
         NEW at, at # "write", NEW h, NEW c \in Seq(S), Goes(f, w, at, h, c, n)
  PROVE  Goes(f, w, at, h, Append(c, n + 1), n + 1)
  <1>1. RawQ!InOrder(f, w, c, n)
    BY DEF Goes
  <1>2. RawQ!InOrder(f, w, Append(c, n + 1), n + 1)
    BY <1>1, BoundAssumption, RawQ!NextSample, Zenon
  <1> QED BY <1>2 DEF Goes

LEMMA GoesHeld ==
  ASSUME NEW S, NEW n, NEW f \in Seq(S), NEW w \in Seq(S), NEW at, at # "write",
         NEW h, NEW c \in Seq(S), c # <<>>, Goes(f, w, at, h, c, n)
  PROVE  Goes(f, w, "write", Head(c), Tail(c), n)
  <1>1. RawQ!InOrder(f, w, c, n)
    BY DEF Goes
  <1>2. RawQ!InOrder(f \o w, <<Head(c)>>, Tail(c), n)
    BY <1>1, BoundAssumption, RawQ!ToNextWindow, Zenon
  <1> QED BY <1>2 DEF Goes

LEMMA GoesToWindow ==
  ASSUME NEW S, NEW n, NEW f \in Seq(S), NEW w \in Seq(S), NEW h \in S, NEW c,
         Goes(f, w, "write", h, c, n), NEW k
  PROVE  Goes(f, Append(w, h), "loop", k, c, n)
  <1>1. RawQ!InOrder(f \o w, <<h>>, c, n)
    BY DEF Goes
  <1>2. RawQ!InOrder(f, Append(w, h), c, n)
    BY <1>1, BoundAssumption, RawQ!HeldToWindow, Zenon
  <1> QED BY <1>2 DEF Goes

LEMMA GoesFlush ==
  ASSUME NEW S, NEW n, NEW f \in Seq(S), NEW w \in Seq(S), NEW at, at # "write",
         NEW h, NEW c, Goes(f, w, at, h, c, n)
  PROVE  Goes(f \o w, <<>>, at, h, c, n)
  <1>1. RawQ!InOrder(f, w, c, n)
    BY DEF Goes
  <1>2. RawQ!InOrder(f \o w, <<>>, c, n)
    BY <1>1, BoundAssumption, RawQ!ToEvent, Zenon
  <1> QED BY <1>2 DEF Goes

(* No step but storing the held sample changes what comes after f and w.   *)
LEMMA Moves ==
  ASSUME IInv, [Next]_vars, RawQueue = "All", ~failed', ~StoreInterval, ~StoreWindowed,
         NEW f \in Seq(Items), NEW w \in Seq(Items),
         Goes(f, w, pc, held, rawChan, rawSerial)
  PROVE  Goes(f, w, pc', held', rawChan', rawSerial')
  <1> USE DEF config, mainVars, rawVars, workerVars, dlvVars, deliveryVars
  <1>0. Types /\ Progress /\ RawQ!IInv
    BY DEF IInv
  <1>t. rawChan \in Seq(Items) /\ rawStep = "idle"
    BY <1>0 DEF Types, RawQ!IInv, RawQ!TypeOK
  <1>u. UNCHANGED <<pc, held, rawChan, rawSerial>> => Goes(f, w, pc', held', rawChan', rawSerial')
    OBVIOUS
  <1>v. UNCHANGED <<rawChan, rawSerial>> /\ pc # "write" /\ pc' # "write"
          => Goes(f, w, pc', held', rawChan', rawSerial')
    BY DEF Goes
  <1>1. ASSUME NEW c \in ContextsThatMatter, Callback(c)
        PROVE  Goes(f, w, pc', held', rawChan', rawSerial')
    <2>1. Raw!TrySend /\ ctx' = Append(ctx, c) /\ UNCHANGED <<pc, held, failed>>
      BY <1>1 DEF Callback
    <2>2. c \in Contexts
      BY <1>1, ContextsAssumption DEF ContextsThatMatter
    <2>3. rawSerial' = rawSerial + 1 /\ rawSerial + 1 \in Items /\ rawSerial \in Nat
      BY <1>0, <2>1, <2>2, Sampled
    <2>4. rawTx /\ rawRx # "dropped"
      <3>1. rawTx
        BY <2>1 DEF Raw!TrySend
      <3> QED BY <1>0, <2>1, <3>1 DEF Progress, Types
    <2>5. rawChan' = Append(rawChan, rawSerial + 1)
      BY <2>1, <2>4 DEF Raw!TrySend, Raw!Full
    <2>6. CASE pc = "write"
      <3>1. held \in Items
        BY <1>0, <2>6 DEF Types
      <3>2. Goes(f, w, pc, held, Append(rawChan, rawSerial + 1), rawSerial + 1)
        BY <1>t, <2>3, <3>1, GoesNext, Zenon
      <3> QED BY <2>1, <2>3, <2>5, <3>2
    <2>7. CASE pc # "write"
      <3>1. Goes(f, w, pc, held, Append(rawChan, rawSerial + 1), rawSerial + 1)
        BY <1>t, <2>3, <2>7, GoesIdle, Zenon
      <3> QED BY <2>1, <2>3, <2>5, <3>1
    <2> QED BY <2>6, <2>7
  <1>2. CASE CallbackContinues
    BY <1>t, <1>2 DEF CallbackContinues, Raw!DiscardStale, Raw!Resend
  <1>3. CASE StopCallback
    BY <1>3, <1>u DEF StopCallback, Raw!CloseTx
  <1>4. CASE JoinSinkWorker
    BY <1>4, <1>u DEF JoinSinkWorker
  <1>5. CASE TimePasses
    BY <1>5, <1>u DEF TimePasses
  <1>6. CASE Receive
    <2>1. Raw!Recv /\ held' = Head(rawChan) /\ pc' = "write" /\ pc # "write"
      BY <1>6 DEF Receive, Receiving, Idle
    <2>2. rawChan # <<>> /\ rawChan' = Tail(rawChan) /\ rawSerial' = rawSerial
      BY <2>1 DEF Raw!Recv
    <2>3. Goes(f, w, "write", Head(rawChan), Tail(rawChan), rawSerial)
      BY <1>t, <2>1, <2>2, GoesHeld, Zenon
    <2> QED BY <2>1, <2>2, <2>3
  <1>7. CASE WriteFails
    BY <1>7 DEF WriteFails
  <1>10. CASE CheckClock
    BY <1>10, <1>v DEF CheckClock, Idle
  <1>11. CASE WaitTimesOut
    BY <1>11, <1>v DEF WaitTimesOut, Idle
  <1>12. CASE InputEnds
    BY <1>12, <1>v DEF InputEnds, Receiving, Idle, Raw!RecvEnd
  <1>13. CASE LoopReturns
    <2>1. pc = "final" /\ pc' \in {"join", "done"} /\ failed' = failed
      BY <1>13 DEF LoopReturns, Idle
    <2>2. rawRx = "ended"
      BY <1>0, <2>1 DEF Progress
    <2>3. UNCHANGED rawVars
      BY <1>13, <2>2 DEF LoopReturns
    <2> QED BY <1>v, <2>1, <2>3
  <1>14. CASE QueueContinues
    BY <1>14, <1>u DEF QueueContinues
  <1>15. CASE CloseDelivery
    BY <1>15, <1>u DEF CloseDelivery
  <1>16. CASE JoinDelivery
    BY <1>16, <1>v DEF JoinDelivery
  <1>17. CASE DeliveryWorker
    BY <1>17, <1>u DEF DeliveryWorker, TakeEvent, PushReturns, EventsEnd, DeleteReturns
  <1>18. CASE UNCHANGED vars
    BY <1>18, <1>u DEF vars
  <1> QED
    BY <1>1, <1>2, <1>3, <1>4, <1>5, <1>6, <1>7, <1>10, <1>11, <1>12,
       <1>13, <1>14, <1>15, <1>16, <1>17, <1>18 DEF Next, SinkWorker

LEMMA ConfigStays == [Next]_vars => UNCHANGED config
  BY DEF vars, config, mainVars, rawVars, workerVars, dlvVars, deliveryVars, Next,
         Callback, CallbackContinues, StopCallback, JoinSinkWorker, TimePasses,
         SinkWorker, Receive, WriteFails, StoreInterval, StoreWindowed, CheckClock,
         WaitTimesOut, InputEnds, LoopReturns, QueueContinues, CloseDelivery,
         JoinDelivery, DeliveryWorker, TakeEvent, PushReturns, EventsEnd, DeleteReturns

LEMMA FailedStays == [Next]_vars /\ failed => failed'
  BY DEF vars, config, mainVars, rawVars, workerVars, dlvVars, deliveryVars, Next,
         Callback, CallbackContinues, StopCallback, JoinSinkWorker, TimePasses,
         SinkWorker, Receive, WriteFails, StoreInterval, StoreWindowed, CheckClock,
         WaitTimesOut, InputEnds, LoopReturns, QueueContinues, CloseDelivery,
         JoinDelivery, DeliveryWorker, TakeEvent, PushReturns, EventsEnd, DeleteReturns

(* Only storing the held sample writes the file, and but for that only a   *)
(* flush touches the window and the events.                                *)
LEMMA OnlyStoresChange ==
  ASSUME [Next]_vars, ~StoreInterval, ~StoreWindowed
  PROVE  /\ file' = file
         /\ \/ UNCHANGED <<event, window>>
            \/ FlushWindow /\ pc' # "write"
  <1> USE DEF config, mainVars, rawVars, workerVars, dlvVars, deliveryVars
  <1>1. CASE CheckClock
    BY <1>1 DEF CheckClock, Idle
  <1>2. CASE WaitTimesOut
    BY <1>2 DEF WaitTimesOut
  <1>3. CASE LoopReturns
    <2>1. file' = file /\ pc' # "write"
      BY <1>3 DEF LoopReturns
    <2>2. FlushWindow \/ UNCHANGED <<event, window>>
      BY <1>3 DEF LoopReturns
    <2> QED BY <2>1, <2>2
  <1>4. CASE ~CheckClock /\ ~WaitTimesOut /\ ~LoopReturns
    BY <1>4 DEF vars, Next, Callback, CallbackContinues, StopCallback, JoinSinkWorker,
         TimePasses, SinkWorker, Receive, WriteFails, InputEnds, QueueContinues,
         CloseDelivery, JoinDelivery, DeliveryWorker, TakeEvent, PushReturns, EventsEnd,
         DeleteReturns
  <1> QED BY <1>1, <1>2, <1>3, <1>4

LEMMA FileStep == IInv /\ [Next]_vars => FileInv'
  <1> SUFFICES ASSUME IInv, [Next]_vars, hasFile' PROVE
        /\ file' = RawQ!Upto(Len(file'))
        /\ ~failed' => Goes(file', <<>>, pc', held', rawChan', rawSerial')
    BY DEF FileInv, RawQ!Upto
  <1> USE DEF config, mainVars, rawVars, workerVars, dlvVars, deliveryVars
  <1>0. Types /\ Progress /\ RawQ!IInv /\ FileInv
    BY DEF IInv
  <1>1. hasFile /\ RawQueue = "All"
    <2>1. UNCHANGED config
      BY ConfigStays
    <2> QED BY <2>1 DEF RawQueue
  <1>2. /\ file \in Seq(Items) /\ rawChan \in Seq(Items) /\ <<>> \in Seq(Items)
        /\ rawSerial \in Nat
    BY <1>0, BoundAssumption DEF Types, RawQ!IInv, RawQ!TypeOK
  <1>3. file = RawQ!Upto(Len(file))
    BY <1>0, <1>1 DEF FileInv
  <1>4. ~failed => Goes(file, <<>>, pc, held, rawChan, rawSerial)
    BY <1>0, <1>1 DEF FileInv
  <1>5. CASE StoreInterval \/ StoreWindowed
    <2>1. /\ pc = "write" /\ pc' = "loop" /\ file' = Append(file, held)
          /\ UNCHANGED <<rawChan, rawSerial, held, failed>>
      BY <1>1, <1>5 DEF StoreInterval, StoreWindowed, Write
    <2>2. held \in Items /\ ~failed
      BY <1>0, <2>1 DEF Types, Progress
    <2>3. Goes(file, <<>>, "write", held, rawChan, rawSerial)
      BY <1>4, <2>1, <2>2
    <2>4. file \o <<>> = file /\ <<held>> \in Seq(Items) /\ Append(file, held) = file \o <<held>>
      BY <1>2, <2>2, ConcatEmptySeq, AppendIsConcat
    <2>5. RawQ!InOrder(file, <<held>>, rawChan, rawSerial)
      BY <2>3, <2>4 DEF Goes
    <2>6. RawQ!InOrder(file \o <<held>>, <<>>, rawChan, rawSerial)
      BY <1>2, <2>4, <2>5, BoundAssumption, RawQ!ToEvent, Zenon
    <2>7. Goes(file', <<>>, pc', held', rawChan', rawSerial')
      BY <2>1, <2>4, <2>6 DEF Goes
    <2>8. file \o <<held>> \in Seq(Items)
      BY <1>2, <2>4, ConcatProperties
    <2>9. file' = RawQ!Upto(Len(file'))
      <3>1. file' \in Seq(Items) /\ RawQ!InOrder(file', <<>>, rawChan, rawSerial)
        BY <2>1, <2>4, <2>6, <2>8
      <3> QED BY <1>2, <3>1, BoundAssumption, RawQ!BeforeIsPrefix
    <2> QED BY <2>7, <2>9
  <1>6. CASE ~StoreInterval /\ ~StoreWindowed
    <2>1. file' = file /\ (failed => failed')
      BY <1>6, OnlyStoresChange, FailedStays
    <2>3. ~failed' => Goes(file, <<>>, pc', held', rawChan', rawSerial')
      BY <1>1, <1>2, <1>4, <1>6, <2>1, Moves, Zenon
    <2> QED BY <1>3, <2>1, <2>3
  <1> QED BY <1>5, <1>6

LEMMA SentStep == IInv /\ [Next]_vars => SentInv'
  <1> SUFFICES ASSUME IInv, [Next]_vars, push' = "window", ~failed'
               PROVE  Goes(Sent', window', pc', held', rawChan', rawSerial')
    BY DEF SentInv, Goes, RawQ!InOrder, RawQ!Upto
  <1>0. Types /\ Progress /\ DlvQ!IInv /\ SentInv
    BY DEF IInv
  <1>1. push = "window" /\ ~failed /\ RawQueue = "All"
    BY ConfigStays, FailedStays DEF config, RawQueue
  <1>2. /\ window \in Seq(Items) /\ event \in Seq(Seq(Items))
        /\ (pc = "write" => held \in Items)
    BY <1>0 DEF Types
  <1>3. Goes(Sent, window, pc, held, rawChan, rawSerial)
    BY <1>0, <1>1 DEF SentInv
  <1>4. Sent \in Seq(Items)
    <2>1. <<>> \in Seq(Items)
      OBVIOUS
    <2> QED BY <1>2, <2>1, BoundAssumption, RawQ!FlattenAppend DEF Sent
  <1>5. event' = Append(event, window) => Sent' = Sent \o window
    BY <1>2, BoundAssumption, RawQ!FlattenAppend DEF Sent
  <1>6. ~StoreInterval
    BY <1>1 DEF StoreInterval
  <1>7. CASE StoreWindowed
    <2>1. /\ pc = "write" /\ pc' = "loop"
          /\ UNCHANGED <<held, rawChan, rawSerial>>
      BY <1>7 DEF StoreWindowed, rawVars
    <2>2. RawQ!InOrder(Sent \o window, <<held>>, rawChan, rawSerial)
      BY <1>3, <2>1 DEF Goes
    <2>3. CASE ContextChanges(held)
      <3>1. window' = <<held>> /\ event' = Append(event, window)
        BY <1>7, <2>3 DEF StoreWindowed, Queue
      <3> QED BY <1>5, <2>1, <2>2, <3>1 DEF Goes
    <2>4. CASE ~ContextChanges(held)
      <3>1. window' = Append(window, held) /\ UNCHANGED event
        BY <1>7, <2>4 DEF StoreWindowed, dlvVars
      <3>2. held \in Items
        BY <1>2, <2>1
      <3>3. Goes(Sent, Append(window, held), "loop", held, rawChan, rawSerial)
        BY <1>2, <1>3, <1>4, <2>1, <3>2, GoesToWindow, Zenon
      <3> QED BY <2>1, <3>1, <3>3 DEF Sent
    <2> QED BY <2>3, <2>4
  <1>8. CASE ~StoreWindowed
    <2>1. Goes(Sent, window, pc', held', rawChan', rawSerial')
      BY <1>1, <1>2, <1>3, <1>4, <1>6, <1>8, Moves, Zenon
    <2>2. CASE UNCHANGED <<event, window>>
      BY <2>1, <2>2 DEF Sent
    <2>3. CASE FlushWindow /\ pc' # "write"
      <3>1. /\ window' = <<>>
            /\ \/ window = <<>> /\ event' = event
               \/ event' = Append(event, window)
        BY <2>3 DEF FlushWindow, Queue, dlvVars
      <3>2. CASE window = <<>> /\ event' = event
        BY <2>1, <3>1, <3>2 DEF Sent
      <3>3. CASE event' = Append(event, window)
        <4>1. Goes(Sent \o window, <<>>, pc', held', rawChan', rawSerial')
          BY <1>2, <1>4, <2>1, <2>3, GoesFlush, Zenon
        <4> QED BY <1>5, <3>1, <3>3, <4>1
      <3> QED BY <3>1, <3>2, <3>3
    <2> QED BY <1>6, <1>8, <2>2, <2>3, OnlyStoresChange
  <1> QED BY <1>7, <1>8

(* What can happen to the delivery channel. *)
LEMMA DlvMoves ==
  [Next]_vars => \/ \E w : Queue(w)
                 \/ QueueContinues \/ CloseDelivery \/ TakeEvent \/ EventsEnd
                 \/ UNCHANGED dlvVars
  <1> SUFFICES ASSUME [Next]_vars, ~QueueContinues, ~CloseDelivery, ~TakeEvent,
                      ~EventsEnd, \A w : ~Queue(w)
               PROVE  UNCHANGED dlvVars
    OBVIOUS
  <1>1. FlushWindow => UNCHANGED dlvVars
    BY DEF FlushWindow
  <1>2. (StoreInterval \/ StoreWindowed \/ CheckClock \/ WaitTimesOut \/ LoopReturns)
          => UNCHANGED dlvVars
    BY <1>1 DEF StoreInterval, StoreWindowed, CheckClock, WaitTimesOut, LoopReturns, dlvVars
  <1> QED
    BY <1>2 DEF vars, Next, Callback, CallbackContinues, StopCallback, JoinSinkWorker,
         TimePasses, SinkWorker, Receive, WriteFails, InputEnds, JoinDelivery,
         DeliveryWorker, PushReturns, DeleteReturns

LEMMA TakenStep == IInv /\ [Next]_vars => TakenInv'
  <1> SUFFICES ASSUME IInv, [Next]_vars, push' = "window"
               PROVE  DlvQ!InOrder(<<>>, dlvGot', dlvChan', dlvSerial')
    BY DEF TakenInv, DlvQ!InOrder, DlvQ!Upto
  <1>0. Types /\ Progress /\ DlvQ!IInv /\ TakenInv
    BY DEF IInv
  <1>1. push = "window" /\ DeliveryQueue = "All"
    BY ConfigStays DEF config, DeliveryQueue
  <1>2. /\ dlvGot \in Seq(Nat) /\ dlvChan \in Seq(Nat) /\ dlvSerial \in Nat
        /\ <<>> \in Seq(Nat) /\ dlvStep = "idle"
    BY <1>0, <1>1, BoundAssumption DEF DlvQ!IInv, DlvQ!TypeOK
  <1>3. DlvQ!InOrder(<<>>, dlvGot, dlvChan, dlvSerial)
    BY <1>0, <1>1 DEF TakenInv
  <1>u. UNCHANGED <<dlvGot, dlvChan, dlvSerial>>
          => DlvQ!InOrder(<<>>, dlvGot', dlvChan', dlvSerial')
    BY <1>3
  <1>4. ASSUME NEW w, Queue(w) PROVE DlvQ!InOrder(<<>>, dlvGot', dlvChan', dlvSerial')
    <2>1. dlvRx # "dropped"
      BY <1>0 DEF Progress
    <2>2. /\ dlvChan' = Append(dlvChan, dlvSerial + 1) /\ dlvSerial' = dlvSerial + 1
          /\ dlvGot' = dlvGot
      BY <1>1, <1>4, <2>1 DEF Queue, Dlv!TrySend, Dlv!Full
    <2>3. dlvSerial + 1 \in Nat
      BY <1>2
    <2>4. DlvQ!InOrder(<<>>, dlvGot, Append(dlvChan, dlvSerial + 1), dlvSerial + 1)
      BY <1>2, <1>3, <2>3, BoundAssumption, DlvQ!NextSample, Zenon
    <2> QED BY <2>2, <2>4
  <1>5. CASE QueueContinues
    BY <1>2, <1>5 DEF QueueContinues, Dlv!DiscardStale, Dlv!Resend
  <1>6. CASE CloseDelivery \/ EventsEnd
    BY <1>6, <1>u DEF CloseDelivery, EventsEnd, Dlv!CloseTx, Dlv!RecvEnd
  <1>7. CASE TakeEvent
    <2>1. /\ dlvChan # <<>> /\ dlvChan' = Tail(dlvChan) /\ dlvSerial' = dlvSerial
          /\ dlvGot' = Append(dlvGot, Head(dlvChan))
      BY <1>7 DEF TakeEvent, Dlv!Recv
    <2>2. DlvQ!InOrder(<<>>, Append(dlvGot, Head(dlvChan)), Tail(dlvChan), dlvSerial)
      BY <1>2, <1>3, <2>1, BoundAssumption, DlvQ!ToWindow, Zenon
    <2> QED BY <2>1, <2>2
  <1>8. CASE UNCHANGED dlvVars
    BY <1>8, <1>u DEF dlvVars
  <1> QED BY <1>4, <1>5, <1>6, <1>7, <1>8, DlvMoves

LEMMA NewestStep == IInv /\ [Next]_vars => NewestInv'
  <1> SUFFICES ASSUME IInv, [Next]_vars, push' = "immediate", ~failed' PROVE NewestInv'
    BY DEF NewestInv
  <1>0. Types /\ Progress /\ WindowInv /\ NewestInv /\ RawQ!IInv
    BY DEF IInv
  <1>1. push = "immediate" /\ ~failed /\ window = <<>>
    BY <1>0, ConfigStays, FailedStays DEF config, WindowInv
  <1>2. /\ rawGot # <<>> => held = rawGot[Len(rawGot)]
        /\ pc # "write" /\ rawGot # <<>> =>
             event # <<>> /\ event[Len(event)] = <<held>>
    BY <1>0, <1>1 DEF NewestInv
  <1>u. UNCHANGED <<event, rawGot, held>> /\ (pc = "write" => pc' = "write") => NewestInv'
    BY <1>2 DEF NewestInv
  <1>3. CASE Receive
    <2>1. rawGot' = Append(rawGot, Head(rawChan)) /\ held' = Head(rawChan) /\ pc' = "write"
          /\ rawChan # <<>>
      BY <1>3 DEF Receive, Raw!Recv
    <2>2. rawGot \in Seq(Nat) /\ rawChan \in Seq(Nat)
      BY <1>0 DEF RawQ!IInv, RawQ!TypeOK
    <2>3. Head(rawChan) \in Nat
      BY <2>1, <2>2, HeadTailProperties
    <2>4. rawGot'[Len(rawGot')] = held'
      BY <2>1, <2>2, <2>3, BoundAssumption, RawQ!LastOfAppend
    <2> QED BY <2>1, <2>4 DEF NewestInv
  <1>4. CASE StoreInterval
    <2>1. /\ event' = Append(event, <<held>>) /\ UNCHANGED <<held, rawGot>> /\ pc = "write"
      BY <1>1, <1>4 DEF StoreInterval, Queue, rawVars
    <2>2. event \in Seq(Seq(Items)) /\ <<held>> \in Seq(Items)
      BY <1>0, <2>1 DEF Types
    <2>3. event' # <<>> /\ event'[Len(event')] = <<held>>
      BY <2>1, <2>2, BoundAssumption, RawQ!LastOfAppend
    <2> QED BY <1>2, <2>1, <2>3 DEF NewestInv
  <1>5. CASE ~Receive /\ ~StoreInterval
    <2>1. ~StoreWindowed
      BY <1>1 DEF StoreWindowed
    <2>2. UNCHANGED event
      <3>1. UNCHANGED <<event, window>> \/ FlushWindow
        BY <1>5, <2>1, OnlyStoresChange
      <3> QED BY <1>1, <3>1 DEF FlushWindow, dlvVars
    <2>3. UNCHANGED <<rawGot, held>> /\ (pc = "write" => pc' = "write")
      BY <1>1, <1>5, <2>1
         DEF vars, config, mainVars, rawVars, workerVars, dlvVars, deliveryVars, Next,
         Callback, CallbackContinues, StopCallback, JoinSinkWorker, TimePasses,
         SinkWorker, WriteFails, CheckClock, Idle, Receiving,
         WaitTimesOut, InputEnds, LoopReturns, QueueContinues, CloseDelivery,
         JoinDelivery, DeliveryWorker, TakeEvent, PushReturns, EventsEnd, DeleteReturns,
         Raw!TrySend, Raw!DiscardStale, Raw!Resend, Raw!CloseTx, Raw!RecvEnd, Raw!DropRx
    <2> QED BY <1>u, <2>2, <2>3
  <1> QED BY <1>3, <1>4, <1>5

LEMMA Invariance == Spec => []IInv
  <1>1. IInv /\ [Next]_vars => IInv'
    <2> SUFFICES ASSUME IInv, [Next]_vars PROVE IInv'
      OBVIOUS
    <2>1. RawQ!IInv' /\ DlvQ!IInv'
      BY RawStep, DlvStep DEF IInv
    <2> QED
      BY <2>1, TypesStep, ProgressStep, WindowStep, FileStep, SentStep, TakenStep,
         NewestStep DEF IInv
  <1> QED BY <1>1, InitInv, PTL DEF Spec

-----------------------------------------------------------------------------
(* The state of a finished run whose file did not fail.                    *)
LEMMA Finished ==
  ASSUME IInv, main = "returned", ~failed
  PROVE  /\ pc = "done" /\ rawChan = <<>> /\ window = <<>> /\ dlvChan = <<>>
         /\ rawStep = "idle" /\ dlvStep = "idle"
         /\ rawRx = "ended" /\ dlvRx = "ended"
  BY DEF IInv, Progress, RawQ!IInv, RawQ!Ends, RawQ!MidEnqueue, DlvQ!IInv, DlvQ!Ends,
         DlvQ!MidEnqueue

(* "File writing keeps every interval": the file is always a gap-free      *)
(* prefix of the run's samples, finish fails exactly when a write failed,  *)
(* and otherwise every sample was written (metrics.rs:565-640).            *)
THEOREM SinksFileComplete == Spec => []FileComplete
  <1>1. IInv => FileComplete
    <2> SUFFICES ASSUME IInv PROVE FileComplete
      OBVIOUS
    <2>0. Types /\ Progress /\ FileInv /\ RawQ!IInv
      BY DEF IInv
    <2>1. hasFile => file = Upto(Len(file))
      BY <2>0 DEF FileInv, Upto, RawQ!Upto
    <2>2. ASSUME main = "returned" PROVE result = "Err" <=> failed
      BY <2>0, <2>2 DEF Progress, Types
    <2>3. ASSUME main = "returned", result = "Ok", hasFile PROVE Len(file) = rawSerial
      <3>1. ~failed
        BY <2>2, <2>3
      <3>2. pc = "done" /\ rawChan = <<>>
        BY <2>3, <3>1, Finished
      <3>3. RawQ!InOrder(file, <<>>, <<>>, rawSerial)
        BY <2>0, <2>3, <3>1, <3>2 DEF FileInv, Goes
      <3>4. (file \o <<>>) \o <<>> = file
        BY <2>0, ConcatEmptySeq DEF Types
      <3>5. file = RawQ!Upto(rawSerial) /\ rawSerial \in Nat
        BY <2>0, <3>3, <3>4, BoundAssumption DEF RawQ!InOrder, RawQ!IInv, RawQ!TypeOK
      <3> QED BY <3>5 DEF RawQ!Upto
    <2> QED BY <2>1, <2>2, <2>3 DEF FileComplete
  <1> QED BY <1>1, Invariance, PTL

(* finish leaves nothing behind: both workers have returned, every queued  *)
(* event was offered, the group was deleted once if so configured.         *)
THEOREM SinksNothingLeftBehind == Spec => []NothingLeftBehind
  <1>1. IInv => NothingLeftBehind
    BY DEF IInv, Progress, DlvQ!IInv, DlvQ!Ends, NothingLeftBehind
  <1> QED BY <1>1, Invariance, PTL

(* What the Pushgateway was offered by a run whose file did not fail: the  *)
(* newest sample last in immediate mode, and with a window interval every  *)
(* sample in exactly one window, in order.                                 *)
THEOREM SinksDeliveryComplete == Spec => []DeliveryComplete
  <1>1. IInv => DeliveryComplete
    <2> SUFFICES ASSUME IInv, main = "returned", result = "Ok"
                 PROVE  /\ push = "immediate" /\ rawSerial > 0 =>
                             Taken # <<>> /\ Last(Taken) = <<rawSerial>>
                        /\ push = "window" => FlattenSeq(Taken) = Upto(rawSerial)
      BY DEF DeliveryComplete
    <2>0. Types /\ Progress /\ RawQ!IInv /\ DlvQ!IInv
      BY DEF IInv
    <2>1. ~failed
      BY <2>0 DEF Progress
    <2>2. /\ pc = "done" /\ rawChan = <<>> /\ window = <<>> /\ dlvChan = <<>>
          /\ rawStep = "idle" /\ dlvStep = "idle"
          /\ rawRx = "ended" /\ dlvRx = "ended"
      BY <2>1, Finished
    <2>3. /\ event \in Seq(Seq(Items)) /\ Len(event) = dlvSerial
          /\ dlvGot \in Seq(Nat) /\ dlvSerial \in Nat /\ rawGot \in Seq(Nat)
          /\ rawSerial \in Nat
      BY <2>0, BoundAssumption
         DEF Types, RawQ!IInv, RawQ!TypeOK, DlvQ!IInv, DlvQ!TypeOK
    <2>4. ASSUME push = "immediate", rawSerial > 0
          PROVE  Taken # <<>> /\ Last(Taken) = <<rawSerial>>
      <3>1. rawGot # <<>> /\ rawGot[Len(rawGot)] = rawSerial
        BY <2>0, <2>2, <2>3, <2>4 DEF RawQ!IInv, RawQ!NewestKept, RawQ!NewestKnown
      <3>2. event # <<>> /\ event[Len(event)] = <<rawSerial>>
        BY <2>1, <2>2, <2>4, <3>1 DEF IInv, NewestInv
      <3>3. dlvSerial # 0
        BY <2>3, <3>2, EmptySeq
      <3>4. dlvGot # <<>> /\ dlvGot[Len(dlvGot)] = dlvSerial
        BY <2>0, <2>2, <2>3, <3>3 DEF DlvQ!IInv, DlvQ!NewestKept, DlvQ!NewestKnown
      <3>5. Len(dlvGot) \in Nat \ {0}
        BY <2>3, <3>4, EmptySeq
      <3>6. Len(Taken) = Len(dlvGot) /\ Taken[Len(dlvGot)] = event[dlvGot[Len(dlvGot)]]
        BY <3>5 DEF Taken
      <3>7. Taken # <<>>
        BY <3>5, <3>6
      <3> QED BY <2>3, <3>2, <3>4, <3>6, <3>7 DEF Last
    <2>5. ASSUME push = "window" PROVE FlattenSeq(Taken) = Upto(rawSerial)
      <3>1. dlvGot = DlvQ!Upto(dlvSerial)
        <4>1. DlvQ!InOrder(<<>>, dlvGot, <<>>, dlvSerial)
          BY <2>2, <2>5 DEF IInv, TakenInv
        <4>2. (<<>> \o dlvGot) \o <<>> = dlvGot
          BY <2>3, ConcatEmptySeq
        <4> QED BY <4>1, <4>2 DEF DlvQ!InOrder
      <3>2. Taken = event
        <4>1. Len(dlvGot) = dlvSerial /\ \A i \in 1..dlvSerial : dlvGot[i] = i
          BY <2>3, <3>1 DEF DlvQ!Upto
        <4>2. Taken = [i \in 1..Len(event) |-> event[i]]
          BY <2>3, <4>1 DEF Taken
        <4> QED BY <2>3, <4>2
      <3>3. RawQ!InOrder(Sent, <<>>, <<>>, rawSerial)
        BY <2>1, <2>2, <2>5 DEF IInv, SentInv, Goes
      <3>4. Sent \in Seq(Items)
        <4>1. <<>> \in Seq(Items)
          OBVIOUS
        <4> QED BY <2>3, <4>1, BoundAssumption, RawQ!FlattenAppend DEF Sent
      <3>5. (Sent \o <<>>) \o <<>> = Sent
        BY <3>4, ConcatEmptySeq
      <3>6. Sent = Upto(rawSerial)
        BY <3>3, <3>5 DEF RawQ!InOrder, RawQ!Upto, Upto
      <3>7. \A s : RawQ!FlattenSeq(s) = FlattenSeq(s)
        BY Zenon DEF FlattenSeq, RawQ!FlattenSeq
      <3> QED BY <3>2, <3>6, <3>7 DEF Sent
    <2> QED BY <2>4, <2>5
  <1> QED BY <1>1, Invariance, PTL
=============================================================================
