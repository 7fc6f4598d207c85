------------------------- MODULE MetricsStreamProofs -------------------------
(***************************************************************************)
(* Proofs about MetricsStream for any number of samples and any contexts.  *)
(***************************************************************************)
EXTENDS MetricsStream, SequenceTheorems, TLAPS

(* The callback channel is a MetricsQueue: its lemmas, and those about     *)
(* sequences, are used here.                                               *)
Queue == INSTANCE MetricsQueueProofs WITH queue <- "All", step <- "idle"

Samples == 1..serial

Types ==
  /\ mode \in {"Interval", "Window"}
  /\ tx \in BOOLEAN /\ rx \in {"live", "ended", "dropped"}
  /\ serial \in Nat /\ serial <= MaxItems
  /\ ctx \in Seq(Contexts) /\ Len(ctx) = serial
  /\ pc \in {"loop", "wait", "final", "done"}
  /\ chan \in Seq(Samples) /\ got \in Seq(Samples) /\ window \in Seq(Samples)
  /\ events \in Seq(Seq(Samples)) /\ delivered \in Seq(Seq(Samples))
  /\ deadline \in {"None", "armed", "due"}
  /\ stream \in {"open", "dropped", "closed"}

(* How far the worker and its two channels are.  NothingLost needs it: the *)
(* worker leaves its loop only at the end of its input, or when the stream *)
(* is dropped, so nothing is in the callback channel when it is dropped    *)
(* while the application still reads.                                      *)
Ends ==
  /\ rx = "ended" => ~tx /\ chan = <<>>
  /\ pc \in {"loop", "wait"} => rx = "live"
  /\ pc \in {"final", "done"} /\ stream # "dropped" => rx = "ended"
  /\ pc = "done" => window = <<>>
  /\ stream = "closed" => pc = "done" /\ events = <<>>

(* The window is open exactly while its deadline is set, in window mode.   *)
WindowInv ==
  /\ mode = "Interval" => window = <<>>
  /\ pc = "wait" => mode = "Window" /\ deadline # "None"
  /\ pc \in {"loop", "wait"} => (deadline = "None" <=> window = <<>>)

(* What became events, in order. *)
Sent == Queue!FlattenSeq(delivered \o events)

(* Every sample is somewhere, once and in order. *)
Conserved == stream # "dropped" => Queue!InOrder(Sent, window, chan, serial)

Uniform(e) == e # <<>> /\ \A i \in 1..Len(e) : ctx[e[i]] = ctx[e[1]]

AllUniform(s) == \A i \in 1..Len(s) : Uniform(s[i])

EventsInv ==
  /\ AllUniform(delivered) /\ AllUniform(events)
  /\ window # <<>> => Uniform(window)

IInv == Types /\ Ends /\ WindowInv /\ Conserved /\ EventsInv

-----------------------------------------------------------------------------
LEMMA InitInv == Init => IInv
  <1> SUFFICES ASSUME Init PROVE IInv
    OBVIOUS
  <1> USE DEF Init, Raw!Init
  <1>1. Types
    BY BoundAssumption DEF Types
  <1>2. Ends /\ WindowInv /\ EventsInv
    BY DEF Ends, WindowInv, EventsInv, AllUniform
  <1>3. Conserved
    <2>1. delivered \o events = <<>> /\ (<<>> \o <<>>) \o <<>> = <<>>
      OBVIOUS
    <2>2. Sent = <<>>
      BY <2>1, BoundAssumption, Queue!FlattenEmpty DEF Sent
    <2>3. Queue!Upto(0) = <<>>
      BY DEF Queue!Upto
    <2> QED BY <2>1, <2>2, <2>3 DEF Conserved, Queue!InOrder
  <1> QED BY <1>1, <1>2, <1>3 DEF IInv

LEMMA TypesStep == IInv /\ [Next]_vars => Types'
  <1> SUFFICES ASSUME IInv, [Next]_vars PROVE Types'
    OBVIOUS
  <1> USE DEF userVars, workerVars, rawVars
  <1>0. Types
    BY DEF IInv
  <1>s. serial' = serial => Samples' = Samples
    BY DEF Samples
  <1>t. /\ chan \in Seq(Samples) /\ window \in Seq(Samples) /\ got \in Seq(Samples)
        /\ events \in Seq(Seq(Samples)) /\ delivered \in Seq(Seq(Samples))
    BY <1>0 DEF Types
  <1>h. chan # <<>> => Head(chan) \in Samples /\ Tail(chan) \in Seq(Samples)
    BY <1>0, HeadTailProperties DEF Types
  <1>1. ASSUME NEW c \in Contexts, Callback(c) PROVE Types'
    <2>1. /\ serial' = serial + 1 /\ serial' <= MaxItems /\ serial' \in Nat
          /\ ctx' = Append(ctx, c)
          /\ chan' \in {chan, Append(chan, serial + 1)}
          /\ UNCHANGED <<mode, tx, rx, got, pc, window, deadline, stream, events, delivered>>
      BY <1>0, <1>1, BoundAssumption DEF Callback, Raw!TrySend, Raw!Full, Types
    <2>2. ctx' \in Seq(Contexts) /\ Len(ctx') = serial'
      BY <1>0, <2>1, AppendProperties DEF Types
    <2>3. Samples \subseteq Samples' /\ serial + 1 \in Samples'
      BY <1>0, <2>1 DEF Types, Samples
    <2>4. \A s : s \in Seq(Samples) => s \in Seq(Samples')
      BY <2>3, SeqMonotonic
    <2>5. \A s : s \in Seq(Seq(Samples)) => s \in Seq(Seq(Samples'))
      <3>1. Seq(Samples) \subseteq Seq(Samples')
        BY <2>4
      <3> QED BY <3>1, SeqMonotonic
    <2>6. chan' \in Seq(Samples')
      <3>1. chan \in Seq(Samples')
        BY <1>t, <2>4
      <3>2. Append(chan, serial + 1) \in Seq(Samples')
        BY <2>3, <3>1, AppendProperties
      <3> QED BY <2>1, <3>1, <3>2
    <2> QED BY <1>0, <2>1, <2>2, <2>4, <2>5, <2>6 DEF Types
  <1>2. CASE DropReporter
    BY <1>0, <1>s, <1>2 DEF Types, DropReporter, Raw!CloseTx
  <1>3. CASE TimePasses
    BY <1>0, <1>s, <1>3 DEF Types, TimePasses
  <1>w. Append(events, window) \in Seq(Seq(Samples))
    BY <1>0, AppendProperties DEF Types
  <1>r. ASSUME Raw!Recv
        PROVE  /\ chan' \in Seq(Samples) /\ got' \in Seq(Samples)
               /\ UNCHANGED <<tx, rx, serial>>
               /\ Append(window, Head(chan)) \in Seq(Samples)
               /\ <<Head(chan)>> \in Seq(Samples)
               /\ Append(events, <<Head(chan)>>) \in Seq(Seq(Samples))
    <2>1. /\ chan # <<>> /\ chan' = Tail(chan) /\ got' = Append(got, Head(chan))
          /\ UNCHANGED <<tx, rx, serial>>
      BY <1>r DEF Raw!Recv
    <2>2. /\ Head(chan) \in Samples /\ Tail(chan) \in Seq(Samples)
          /\ <<Head(chan)>> \in Seq(Samples)
          /\ Append(window, Head(chan)) \in Seq(Samples)
      BY <1>t, <2>1, BoundAssumption, Queue!MoveHead
    <2>3. Append(got, Head(chan)) \in Seq(Samples)
      BY <1>t, <2>2, AppendProperties
    <2>4. Append(events, <<Head(chan)>>) \in Seq(Seq(Samples))
      BY <1>t, <2>2, AppendProperties
    <2> QED BY <2>1, <2>2, <2>3, <2>4
  <1>4. CASE ForwardInterval
    BY <1>0, <1>s, <1>4, <1>r DEF Types, ForwardInterval, Send
  <1>5. CASE StartWindow
    BY <1>0, <1>s, <1>5, <1>r DEF Types, StartWindow
  <1>f. ASSUME FlushWindow
        PROVE  /\ window' \in Seq(Samples) /\ events' \in Seq(Seq(Samples))
               /\ UNCHANGED <<stream, delivered>>
    <2>1. window' = <<>> /\ events' \in {events, Append(events, window)}
          /\ UNCHANGED <<stream, delivered>>
      BY <1>f DEF FlushWindow, Send
    <2>2. <<>> \in Seq(Samples)
      OBVIOUS
    <2>3. events' \in Seq(Seq(Samples))
      BY <1>t, <1>w, <2>1
    <2> QED BY <2>1, <2>2, <2>3
  <1>6. CASE CheckClock
    <2>1. CASE deadline = "due"
      BY <1>0, <1>s, <1>6, <1>f, <2>1 DEF Types, CheckClock
    <2>2. CASE deadline # "due"
      BY <1>0, <1>s, <1>6, <2>2 DEF Types, CheckClock
    <2> QED BY <2>1, <2>2
  <1>7. CASE ExtendWindow
    <2>1. /\ Raw!Recv /\ UNCHANGED <<mode, ctx>>
          /\ pc' \in {"loop", "final"} /\ deadline' \in {deadline, "armed"}
      BY <1>7 DEF ExtendWindow
    <2>2. /\ window' \in {Append(window, Head(chan)), <<>>, <<Head(chan)>>}
          /\ events' \in {events, Append(events, window)}
          /\ UNCHANGED <<stream, delivered>>
      BY <1>7 DEF ExtendWindow, FlushWindow, Send
    <2>3. window' \in Seq(Samples) /\ events' \in Seq(Seq(Samples))
      <3>1. <<>> \in Seq(Samples)
        OBVIOUS
      <3>2. window' \in Seq(Samples)
        BY <1>r, <2>1, <2>2, <3>1
      <3> QED BY <1>t, <1>w, <2>2, <3>2
    <2> QED BY <1>0, <1>s, <1>r, <2>1, <2>2, <2>3 DEF Types
  <1>8. CASE WaitTimesOut
    BY <1>0, <1>s, <1>8, <1>f DEF Types, WaitTimesOut
  <1>9. CASE InputEnds
    BY <1>0, <1>s, <1>9 DEF Types, InputEnds, Raw!RecvEnd
  <1>10. CASE WorkerReturns
    <2>1. /\ rx' \in {rx, "dropped"} /\ chan' \in {chan, <<>>}
          /\ UNCHANGED <<mode, tx, serial, got, ctx, deadline>>
          /\ pc' = "done" /\ FlushWindow
      BY <1>10 DEF WorkerReturns, Raw!DropRx
    <2>2. chan' \in Seq(Samples)
      <3>1. <<>> \in Seq(Samples)
        OBVIOUS
      <3> QED BY <1>t, <2>1, <3>1
    <2> QED BY <1>0, <1>s, <1>f, <2>1, <2>2 DEF Types
  <1>11. CASE UserReceives
    <2>1. /\ Head(events) \in Seq(Samples) /\ Tail(events) \in Seq(Seq(Samples))
          /\ Append(delivered, Head(events)) \in Seq(Seq(Samples))
      <3>1. events # <<>>
        BY <1>11 DEF UserReceives
      <3>2. Head(events) \in Seq(Samples) /\ Tail(events) \in Seq(Seq(Samples))
        BY <1>t, <3>1, HeadTailProperties
      <3> QED BY <1>t, <3>2, AppendProperties
    <2> QED BY <1>0, <1>s, <1>11, <2>1 DEF Types, UserReceives
  <1>12. CASE UserSeesEnd
    BY <1>0, <1>s, <1>12 DEF Types, UserSeesEnd
  <1>13. CASE UserDropsStream
    BY <1>0, <1>s, <1>13 DEF Types, UserDropsStream
  <1>14. CASE UNCHANGED vars
    BY <1>0, <1>s, <1>14 DEF Types, vars
  <1> QED
    BY <1>1, <1>2, <1>3, <1>4, <1>5, <1>6, <1>7, <1>8, <1>9, <1>10, <1>11, <1>12,
       <1>13, <1>14 DEF Next, Worker

(* The ends of the channels and the state of the window, step by step.     *)
LEMMA EndsStep == IInv /\ [Next]_vars => (Ends /\ WindowInv)'
  <1> SUFFICES ASSUME IInv, [Next]_vars PROVE (Ends /\ WindowInv)'
    OBVIOUS
  <1> USE DEF userVars, workerVars, rawVars, Ends, WindowInv
  <1>0. Types /\ Ends /\ WindowInv
    BY DEF IInv
  <1>a. chan # <<>> => Append(window, Head(chan)) # <<>>
    <2>1. window \in Seq(Samples) /\ chan \in Seq(Samples)
      BY <1>0 DEF Types
    <2>2. chan # <<>> => Head(chan) \in Samples
      BY <2>1, HeadTailProperties
    <2> QED BY <2>1, <2>2, BoundAssumption, Queue!LastOfAppend
  <1>1. ASSUME NEW c \in Contexts, Callback(c) PROVE (Ends /\ WindowInv)'
    BY <1>0, <1>1 DEF Callback, Raw!TrySend, Raw!Full
  <1>2. CASE DropReporter
    BY <1>0, <1>2 DEF DropReporter, Raw!CloseTx
  <1>3. CASE TimePasses
    BY <1>0, <1>3 DEF TimePasses
  <1>4. CASE ForwardInterval
    BY <1>0, <1>4 DEF ForwardInterval, Send, Raw!Recv
  <1>5. CASE StartWindow
    BY <1>0, <1>5, <1>a DEF StartWindow, Raw!Recv
  <1>6. CASE CheckClock
    BY <1>0, <1>6 DEF CheckClock, FlushWindow, FlushFails, Send
  <1>7. CASE ExtendWindow
    <2> DEFINE x == Head(chan)
    <2>1. /\ pc = "wait" /\ rx = "live" /\ mode = "Window" /\ chan # <<>>
          /\ deadline # "None" /\ stream # "closed"
          /\ UNCHANGED <<mode, tx, rx, stream>>
      <3>1. pc = "wait" /\ Raw!Recv /\ UNCHANGED mode
        BY <1>7 DEF ExtendWindow
      <3>2. UNCHANGED stream
        BY <1>7 DEF ExtendWindow, FlushWindow, Send
      <3> QED BY <1>0, <3>1, <3>2 DEF Raw!Recv, Types
    <2>2. CASE ~ContextChanges(x)
      <3>1. window' # <<>> /\ pc' = "loop" /\ UNCHANGED deadline
        BY <1>7, <1>a, <2>1, <2>2 DEF ExtendWindow
      <3> QED BY <2>1, <3>1
    <2>3. CASE ContextChanges(x) /\ FlushFails
      <3>1. pc' = "final" /\ stream = "dropped"
        BY <1>7, <2>3 DEF ExtendWindow, FlushFails
      <3> QED BY <2>1, <3>1
    <2>4. CASE ContextChanges(x) /\ ~FlushFails
      <3>1. window' = <<x>> /\ pc' = "loop" /\ deadline' = "armed"
        BY <1>7, <2>4 DEF ExtendWindow
      <3> QED BY <2>1, <3>1
    <2> QED BY <2>2, <2>3, <2>4
  <1>8. CASE WaitTimesOut
    BY <1>0, <1>8 DEF WaitTimesOut, FlushWindow, FlushFails, Send
  <1>9. CASE InputEnds
    BY <1>0, <1>9 DEF InputEnds, Raw!RecvEnd
  <1>10. CASE WorkerReturns
    BY <1>0, <1>10 DEF WorkerReturns, FlushWindow, Send, Raw!DropRx
  <1>11. CASE UserReceives
    BY <1>0, <1>11 DEF UserReceives
  <1>12. CASE UserSeesEnd
    BY <1>0, <1>12 DEF UserSeesEnd
  <1>13. CASE UserDropsStream
    BY <1>0, <1>13 DEF UserDropsStream
  <1>14. CASE UNCHANGED vars
    BY <1>0, <1>14 DEF vars
  <1> QED
    BY <1>1, <1>2, <1>3, <1>4, <1>5, <1>6, <1>7, <1>8, <1>9, <1>10, <1>11, <1>12,
       <1>13, <1>14 DEF Next, Worker

(* What one more event adds to those sent. *)
LEMMA OneMore ==
  ASSUME Types, NEW w \in Seq(Samples)
  PROVE  /\ Sent \in Seq(Samples)
         /\ Queue!FlattenSeq(delivered \o Append(events, w)) = Sent \o w
  <1>1. events \in Seq(Seq(Samples)) /\ delivered \in Seq(Seq(Samples))
    BY DEF Types
  <1>2. /\ Queue!FlattenSeq(delivered \o events) \in Seq(Samples)
        /\ Queue!FlattensTo(delivered, events, w)
    BY <1>1, BoundAssumption, Queue!FlattenOneMore, Zenon
  <1> QED BY <1>2 DEF Sent, Queue!FlattensTo

(* A flush moves the window, if there is one, to the events.               *)
LEMMA FlushKeeps ==
  ASSUME Types, Conserved, FlushWindow, stream # "dropped",
         UNCHANGED <<chan, serial>>
  PROVE  Conserved'
  <1>1. /\ window \in Seq(Samples) /\ Sent \in Seq(Samples)
        /\ Queue!InOrder(Sent, window, chan, serial)
    BY OneMore DEF Types, Conserved
  <1>2. /\ window' = <<>> /\ delivered' = delivered
        /\ events' = IF window = <<>> THEN events ELSE Append(events, window)
    BY DEF FlushWindow, Send, userVars
  <1>3. CASE window = <<>>
    BY <1>1, <1>2, <1>3 DEF Conserved, Sent
  <1>4. CASE window # <<>>
    <2>1. Sent' = Sent \o window
      BY <1>1, <1>2, <1>4, OneMore DEF Sent
    <2>2. Queue!InOrder(Sent \o window, <<>>, chan, serial)
      BY <1>1, BoundAssumption, Queue!ToEvent, Zenon
    <2> QED BY <1>2, <2>1, <2>2 DEF Conserved
  <1> QED BY <1>3, <1>4

LEMMA ConservedStep == IInv /\ [Next]_vars => Conserved'
  <1> SUFFICES ASSUME IInv, [Next]_vars, stream' # "dropped" PROVE Conserved'
    BY DEF Conserved
  <1> USE DEF userVars, workerVars, rawVars
  <1>0. Types /\ Ends /\ WindowInv /\ Conserved
    BY DEF IInv
  <1>t. /\ chan \in Seq(Samples) /\ window \in Seq(Samples) /\ serial \in Nat
        /\ events \in Seq(Seq(Samples)) /\ delivered \in Seq(Seq(Samples))
        /\ Sent \in Seq(Samples)
    BY <1>0, OneMore DEF Types
  <1>c. stream # "dropped" => Queue!InOrder(Sent, window, chan, serial)
    BY <1>0 DEF Conserved
  <1>r. Raw!Recv => chan # <<>> /\ chan' = Tail(chan) /\ UNCHANGED serial
    BY DEF Raw!Recv
  <1>u. ASSUME UNCHANGED <<delivered, events, window, chan, serial>>, stream # "dropped"
        PROVE  Conserved'
    BY <1>c, <1>u DEF Conserved, Sent
  <1>1. ASSUME NEW c \in Contexts, Callback(c) PROVE Conserved'
    <2>1. /\ serial' = serial + 1 /\ chan' = Append(chan, serial + 1)
          /\ UNCHANGED <<delivered, events, window, stream>>
      BY <1>0, <1>1 DEF Callback, Raw!TrySend, Raw!Full, Ends, Types
    <2>2. Queue!InOrder(Sent, window, Append(chan, serial + 1), serial + 1)
      <3>1. serial + 1 \in Samples' /\ \A s : s \in Seq(Samples) => s \in Seq(Samples')
        BY <1>t, <2>1 DEF Samples
      <3>2. Sent \in Seq(Samples') /\ window \in Seq(Samples') /\ chan \in Seq(Samples')
        BY <1>t, <3>1
      <3> QED BY <1>t, <1>c, <2>1, <3>1, <3>2, BoundAssumption, Queue!NextSample, Zenon
    <2> QED BY <2>1, <2>2 DEF Conserved, Sent
  <1>2. CASE DropReporter
    BY <1>2, <1>u DEF DropReporter, Raw!CloseTx
  <1>3. CASE TimePasses
    BY <1>3, <1>u DEF TimePasses
  <1>4. CASE ForwardInterval
    <2>1. /\ Raw!Recv /\ window = <<>> /\ window' = <<>> /\ stream' = stream
          /\ events' = Append(events, <<Head(chan)>>) /\ delivered' = delivered
      BY <1>0, <1>4 DEF ForwardInterval, Send, WindowInv
    <2>2. <<Head(chan)>> \in Seq(Samples)
      BY <1>t, <1>r, <2>1, BoundAssumption, Queue!MoveHead, Zenon
    <2>3. Sent' = Sent \o <<Head(chan)>>
      BY <1>0, <2>1, <2>2, OneMore DEF Sent
    <2>4. Queue!InOrder(Sent \o <<Head(chan)>>, <<>>, Tail(chan), serial)
      BY <1>t, <1>r, <1>c, <2>1, BoundAssumption, Queue!ToOwnEvent, Zenon
    <2> QED BY <1>r, <2>1, <2>3, <2>4 DEF Conserved
  <1>w. ASSUME Raw!Recv, window' = Append(window, Head(chan)),
               UNCHANGED <<delivered, events, stream>>
        PROVE  Conserved'
    <2>1. Queue!InOrder(Sent, Append(window, Head(chan)), Tail(chan), serial)
      BY <1>t, <1>r, <1>c, <1>w, BoundAssumption, Queue!ToWindow, Zenon
    <2> QED BY <1>r, <1>w, <2>1 DEF Conserved, Sent
  <1>5. CASE StartWindow
    BY <1>5, <1>w DEF StartWindow
  <1>f. ASSUME FlushWindow, UNCHANGED <<chan, serial>> PROVE Conserved'
    <2>1. stream # "dropped"
      BY <1>f DEF FlushWindow, Send
    <2> QED BY <1>0, <1>f, <2>1, FlushKeeps
  <1>6. CASE CheckClock
    BY <1>6, <1>f, <1>u DEF CheckClock
  <1>7. CASE ExtendWindow
    <2> DEFINE x == Head(chan)
    <2>0. Raw!Recv
      BY <1>7 DEF ExtendWindow
    <2>1. CASE ~ContextChanges(x)
      BY <1>7, <1>w, <2>0, <2>1 DEF ExtendWindow
    <2>2. CASE ContextChanges(x) /\ FlushFails
      <3>1. stream' = stream
        BY <1>7, <2>2 DEF ExtendWindow, FlushWindow, Send
      <3> QED BY <2>2, <3>1 DEF FlushFails
    <2>3. CASE ContextChanges(x) /\ ~FlushFails
      <3>1. /\ window' = <<x>> /\ stream' = stream /\ delivered' = delivered
            /\ events' = Append(events, window)
        BY <1>7, <2>3 DEF ExtendWindow, Send
      <3>2. Sent' = Sent \o window
        BY <1>0, <1>t, <3>1, OneMore DEF Sent
      <3>3. Queue!InOrder(Sent \o window, <<x>>, Tail(chan), serial)
        BY <1>t, <1>r, <1>c, <2>0, <3>1, BoundAssumption, Queue!ToNextWindow, Zenon
      <3> QED BY <1>r, <2>0, <3>1, <3>2, <3>3 DEF Conserved
    <2> QED BY <2>1, <2>2, <2>3
  <1>8. CASE WaitTimesOut
    BY <1>8, <1>f DEF WaitTimesOut
  <1>9. CASE InputEnds
    BY <1>9, <1>u DEF InputEnds, Raw!RecvEnd
  <1>10. CASE WorkerReturns
    <2>1. FlushWindow /\ stream' = stream
      BY <1>10 DEF WorkerReturns, FlushWindow, Send
    <2>2. rx # "live"
      BY <1>0, <1>10, <2>1 DEF WorkerReturns, Ends
    <2>3. UNCHANGED <<chan, serial>>
      BY <1>10, <2>2 DEF WorkerReturns
    <2> QED BY <1>f, <2>1, <2>3
  <1>11. CASE UserReceives
    <2>1. /\ events # <<>> /\ delivered' = Append(delivered, Head(events))
          /\ events' = Tail(events) /\ UNCHANGED <<window, chan, serial, stream>>
      BY <1>11 DEF UserReceives
    <2>2. Append(delivered, Head(events)) \o Tail(events) = delivered \o events
      BY <1>t, <2>1, BoundAssumption, Queue!MoveHead
    <2>3. Sent' = Sent
      BY <2>1, <2>2 DEF Sent
    <2> QED BY <1>c, <2>1, <2>3 DEF Conserved
  <1>12. CASE UserSeesEnd
    <2>1. UNCHANGED <<delivered, events, window, chan, serial>> /\ stream = "open"
      BY <1>12 DEF UserSeesEnd
    <2> QED BY <1>c, <2>1 DEF Conserved, Sent
  <1>13. CASE UserDropsStream
    BY <1>13 DEF UserDropsStream
  <1>14. CASE UNCHANGED vars
    BY <1>14, <1>u DEF vars
  <1> QED
    BY <1>1, <1>2, <1>3, <1>4, <1>5, <1>6, <1>7, <1>8, <1>9, <1>10, <1>11, <1>12,
       <1>13, <1>14 DEF Next, Worker

-----------------------------------------------------------------------------
(* Events of one context. *)

LEMMA UniformStart ==
  ASSUME NEW x
  PROVE  Uniform(<<x>>)
  BY DEF Uniform

LEMMA UniformLonger ==
  ASSUME NEW S, NEW w \in Seq(S), NEW x \in S, Uniform(w), ctx[x] = ctx[w[1]]
  PROVE  Uniform(Append(w, x))
  <1> DEFINE v == Append(w, x)
  <1>1. /\ Len(w) \in Nat /\ Len(w) # 0
        /\ Len(v) = Len(w) + 1 /\ v[Len(w) + 1] = x /\ v # <<>>
        /\ \A i \in 1..Len(w) : v[i] = w[i]
    BY AppendProperties, EmptySeq DEF Uniform
  <1> HIDE DEF v
  <1>2. v[1] = w[1]
    BY <1>1
  <1>3. \A i \in 1..Len(v) : i \in 1..Len(w) \/ i = Len(w) + 1
    BY <1>1
  <1>4. \A i \in 1..Len(v) : ctx[v[i]] = ctx[w[1]]
    BY <1>1, <1>3 DEF Uniform
  <1> QED BY <1>1, <1>2, <1>4 DEF Uniform, v

LEMMA UniformLast ==
  ASSUME NEW S, NEW s \in Seq(S), NEW w \in S, AllUniform(s), Uniform(w)
  PROVE  AllUniform(Append(s, w))
  <1> DEFINE t == Append(s, w)
  <1>1. /\ Len(t) = Len(s) + 1 /\ t[Len(s) + 1] = w /\ Len(s) \in Nat
        /\ \A i \in 1..Len(s) : t[i] = s[i]
    BY AppendProperties
  <1> HIDE DEF t
  <1>2. \A i \in 1..Len(t) : i \in 1..Len(s) \/ i = Len(s) + 1
    BY <1>1
  <1>3. AllUniform(t)
    BY <1>1, <1>2 DEF AllUniform
  <1> QED BY <1>3 DEF t

LEMMA UniformRest ==
  ASSUME NEW S, NEW s \in Seq(S), s # <<>>, AllUniform(s)
  PROVE  Uniform(Head(s)) /\ AllUniform(Tail(s))
  <1> DEFINE t == Tail(s)
             h == Head(s)
  <1>1. /\ Len(s) \in Nat /\ Len(s) # 0 /\ h = s[1] /\ Len(t) = Len(s) - 1
        /\ \A i \in 1..Len(t) : t[i] = s[i + 1]
    BY HeadTailProperties, EmptySeq
  <1> HIDE DEF t, h
  <1>2. 1 \in 1..Len(s) /\ \A i \in 1..Len(t) : i + 1 \in 1..Len(s)
    BY <1>1
  <1>3. Uniform(h) /\ AllUniform(t)
    BY <1>1, <1>2 DEF AllUniform
  <1> QED BY <1>3 DEF t, h

LEMMA UniformConcat ==
  ASSUME NEW S, NEW s \in Seq(S), NEW t \in Seq(S), AllUniform(s), AllUniform(t)
  PROVE  s \o t \in Seq(S) /\ AllUniform(s \o t)
  <1> DEFINE u == s \o t
  <1>1. /\ u \in Seq(S) /\ Len(u) = Len(s) + Len(t)
        /\ Len(s) \in Nat /\ Len(t) \in Nat
        /\ \A i \in 1..Len(u) : u[i] = IF i <= Len(s) THEN s[i] ELSE t[i - Len(s)]
    BY ConcatProperties
  <1> HIDE DEF u
  <1>2. \A i \in 1..Len(u) : i \in 1..Len(s) \/ i - Len(s) \in 1..Len(t)
    BY <1>1
  <1>3. AllUniform(u)
    <2> SUFFICES ASSUME NEW i \in 1..Len(u) PROVE Uniform(u[i])
      BY DEF AllUniform
    <2>1. CASE i <= Len(s)
      BY <1>1, <2>1 DEF AllUniform
    <2>2. CASE ~(i <= Len(s))
      BY <1>1, <1>2, <2>2 DEF AllUniform
    <2> QED BY <2>1, <2>2
  <1> QED BY <1>1, <1>3 DEF u

(* A context once recorded stays. *)
LEMMA ContextsStay ==
  ASSUME Types, NEW c \in Contexts, ctx' = Append(ctx, c)
  PROVE  \A e \in Seq(Samples) : Uniform(e) => Uniform(e)'
  <1>1. \A k \in Samples : ctx'[k] = ctx[k]
    BY AppendProperties DEF Types, Samples
  <1> SUFFICES ASSUME NEW e \in Seq(Samples), Uniform(e) PROVE Uniform(e)'
    OBVIOUS
  <1>2. \A i \in 1..Len(e) : e[i] \in Samples
    OBVIOUS
  <1>3. 1 \in 1..Len(e)
    BY EmptySeq DEF Uniform
  <1> QED BY <1>1, <1>2, <1>3 DEF Uniform

LEMMA EventsStep == IInv /\ [Next]_vars => EventsInv'
  <1> SUFFICES ASSUME IInv, [Next]_vars PROVE EventsInv'
    OBVIOUS
  <1> USE DEF userVars, workerVars, rawVars
  <1>0. Types /\ Ends /\ WindowInv /\ EventsInv
    BY DEF IInv
  <1>t. /\ chan \in Seq(Samples) /\ window \in Seq(Samples)
        /\ events \in Seq(Seq(Samples)) /\ delivered \in Seq(Seq(Samples))
    BY <1>0 DEF Types
  <1>e. AllUniform(delivered) /\ AllUniform(events) /\ (window # <<>> => Uniform(window))
    BY <1>0 DEF EventsInv
  <1>k. ASSUME ctx' = ctx, AllUniform(delivered'), AllUniform(events'),
               window' # <<>> => Uniform(window')
        PROVE  EventsInv'
    BY <1>k DEF EventsInv, AllUniform, Uniform
  <1>u. ASSUME UNCHANGED <<ctx, window, events, delivered>> PROVE EventsInv'
    BY <1>e, <1>u, <1>k
  <1>h. Raw!Recv => Head(chan) \in Samples /\ <<Head(chan)>> \in Seq(Samples)
    <2>1. Raw!Recv => chan # <<>>
      BY DEF Raw!Recv
    <2> QED BY <1>t, <2>1, BoundAssumption, Queue!MoveHead, Zenon
  <1>1. ASSUME NEW c \in Contexts, Callback(c) PROVE EventsInv'
    <2>1. ctx' = Append(ctx, c) /\ UNCHANGED <<window, events, delivered>>
      BY <1>1 DEF Callback
    <2>2. \A e \in Seq(Samples) : Uniform(e) => Uniform(e)'
      BY <1>0, <2>1, ContextsStay
    <2>3. \A s \in Seq(Seq(Samples)) : AllUniform(s) => AllUniform(s)'
      <3> SUFFICES ASSUME NEW s \in Seq(Seq(Samples)), AllUniform(s),
                          NEW i \in 1..Len(s)
                   PROVE  Uniform(s[i])'
        BY DEF AllUniform
      <3>1. s[i] \in Seq(Samples) /\ Uniform(s[i])
        BY DEF AllUniform
      <3> QED BY <2>2, <3>1 DEF Uniform
    <2>4. AllUniform(delivered)' /\ AllUniform(events)'
      BY <1>t, <1>e, <2>1, <2>3 DEF AllUniform, Uniform
    <2>5. window' # <<>> => Uniform(window)'
      BY <1>t, <1>e, <2>1, <2>2 DEF Uniform
    <2> QED BY <2>4, <2>5 DEF EventsInv
  <1>2. CASE DropReporter
    BY <1>2, <1>u DEF DropReporter
  <1>3. CASE TimePasses
    BY <1>3, <1>u DEF TimePasses
  <1>4. CASE ForwardInterval
    <2>1. /\ Raw!Recv /\ UNCHANGED <<ctx, window, delivered>>
          /\ events' \in {events, Append(events, <<Head(chan)>>)}
      BY <1>4 DEF ForwardInterval, Send
    <2>2. AllUniform(Append(events, <<Head(chan)>>))
      BY <1>t, <1>e, <1>h, <2>1, UniformStart, UniformLast
    <2> QED BY <1>e, <1>k, <2>1, <2>2
  <1>5. CASE StartWindow
    <2>1. /\ window = <<>> /\ Raw!Recv /\ window' = Append(window, Head(chan))
          /\ UNCHANGED <<ctx, events, delivered>>
      BY <1>0, <1>5 DEF StartWindow, WindowInv
    <2>2. window' = <<Head(chan)>>
      BY <2>1
    <2> QED BY <1>e, <1>k, <2>1, <2>2, UniformStart
  <1>f. ASSUME FlushWindow, ctx' = ctx PROVE EventsInv'
    <2>1. /\ window' = <<>> /\ delivered' = delivered
          /\ events' \in {events, Append(events, window)}
          /\ events' # events => window # <<>>
      BY <1>f DEF FlushWindow, Send
    <2>2. window # <<>> => AllUniform(Append(events, window))
      BY <1>t, <1>e, UniformLast
    <2> QED BY <1>e, <1>f, <1>k, <2>1, <2>2
  <1>6. CASE CheckClock
    BY <1>6, <1>f, <1>u DEF CheckClock
  <1>7. CASE ExtendWindow
    <2> DEFINE x == Head(chan)
    <2>0. Raw!Recv /\ ctx' = ctx
      BY <1>7 DEF ExtendWindow
    <2>1. CASE ~ContextChanges(x)
      <3>1. window' = Append(window, x) /\ UNCHANGED <<events, delivered>>
        BY <1>7, <2>1 DEF ExtendWindow
      <3>2. window # <<>> /\ ctx[x] = ctx[window[1]]
        BY <1>0, <1>7, <2>1 DEF ContextChanges, ExtendWindow, WindowInv
      <3>3. Uniform(window')
        BY <1>t, <1>e, <1>h, <2>0, <3>1, <3>2, UniformLonger
      <3> QED BY <1>e, <1>k, <2>0, <3>1, <3>3
    <2>2. CASE ContextChanges(x) /\ FlushFails
      <3>1. FlushWindow
        BY <1>7, <2>2 DEF ExtendWindow
      <3> QED BY <1>f, <2>0, <3>1
    <2>3. CASE ContextChanges(x) /\ ~FlushFails
      <3>1. /\ window' = <<x>> /\ delivered' = delivered /\ window # <<>>
            /\ events' \in {events, Append(events, window)}
        BY <1>7, <2>3 DEF ExtendWindow, Send, ContextChanges
      <3>2. AllUniform(Append(events, window))
        BY <1>t, <1>e, <3>1, UniformLast
      <3>3. Uniform(window')
        BY <3>1, UniformStart
      <3> QED BY <1>e, <1>k, <2>0, <3>1, <3>2, <3>3
    <2> QED BY <2>1, <2>2, <2>3
  <1>8. CASE WaitTimesOut
    BY <1>8, <1>f DEF WaitTimesOut
  <1>9. CASE InputEnds
    BY <1>9, <1>u DEF InputEnds
  <1>10. CASE WorkerReturns
    BY <1>10, <1>f DEF WorkerReturns
  <1>11. CASE UserReceives
    <2>1. /\ events # <<>> /\ delivered' = Append(delivered, Head(events))
          /\ events' = Tail(events) /\ UNCHANGED <<ctx, window>>
      BY <1>11 DEF UserReceives
    <2>2. Uniform(Head(events)) /\ AllUniform(Tail(events))
      BY <1>t, <1>e, <2>1, UniformRest
    <2>3. Head(events) \in Seq(Samples)
      BY <1>t, <2>1, HeadTailProperties
    <2>4. AllUniform(Append(delivered, Head(events)))
      BY <1>t, <1>e, <2>2, <2>3, UniformLast
    <2> QED BY <1>e, <1>k, <2>1, <2>2, <2>4
  <1>12. CASE UserSeesEnd
    BY <1>12, <1>u DEF UserSeesEnd
  <1>13. CASE UserDropsStream
    <2>1. events' = <<>> /\ UNCHANGED <<ctx, window, delivered>>
      BY <1>13 DEF UserDropsStream
    <2>2. AllUniform(<<>>)
      BY DEF AllUniform
    <2> QED BY <1>e, <1>k, <2>1, <2>2
  <1>14. CASE UNCHANGED vars
    BY <1>14, <1>u DEF vars
  <1> QED
    BY <1>1, <1>2, <1>3, <1>4, <1>5, <1>6, <1>7, <1>8, <1>9, <1>10, <1>11, <1>12,
       <1>13, <1>14 DEF Next, Worker

LEMMA StepInv == IInv /\ [Next]_vars => IInv'
  BY TypesStep, EndsStep, ConservedStep, EventsStep DEF IInv

LEMMA Invariance == Spec => []IInv
  BY InitInv, StepInv, PTL DEF Spec

-----------------------------------------------------------------------------
(* The stream loses, duplicates and reorders nothing: every sample the     *)
(* callback was given is with the application, queued for it, in the open  *)
(* window or in the callback channel until the application drops the       *)
(* stream, and when it is told Closed it has received them all.            *)
THEOREM StreamNothingLost == Spec => []NothingLost
  <1>1. IInv => NothingLost
    <2> SUFFICES ASSUME IInv PROVE NothingLost
      OBVIOUS
    <2>0. Types /\ Ends /\ Conserved
      BY DEF IInv
    <2>1. \A s : Queue!FlattenSeq(s) = FlattenSeq(s)
      BY Zenon DEF FlattenSeq, Queue!FlattenSeq
    <2>2. stream # "dropped" =>
            FlattenSeq(delivered \o events) \o window \o chan = [i \in 1..serial |-> i]
      BY <2>0, <2>1 DEF Conserved, Sent, Queue!InOrder, Queue!Upto
    <2>3. CASE stream = "closed"
      <3>1. events = <<>> /\ window = <<>> /\ chan = <<>>
        BY <2>0, <2>3 DEF Ends
      <3>2. delivered \in Seq(Seq(Samples)) /\ delivered \o <<>> = delivered
        BY <2>0, ConcatEmptySeq DEF Types
      <3>3. FlattenSeq(delivered) \in Seq(Samples)
        BY <2>0, <2>1, <3>1, <3>2, OneMore DEF Sent, Types
      <3>4. (FlattenSeq(delivered) \o <<>>) \o <<>> = FlattenSeq(delivered)
        BY <3>3, ConcatEmptySeq
      <3>5. FlattenSeq(delivered) = [i \in 1..serial |-> i]
        BY <2>2, <2>3, <3>1, <3>2, <3>4
      <3> QED BY <2>2, <3>5 DEF NothingLost
    <2>4. CASE stream # "closed"
      BY <2>2, <2>4 DEF NothingLost
    <2> QED BY <2>3, <2>4
  <1> QED BY <1>1, Invariance, PTL

(* No event of a stream, and not its open window, mixes samples of         *)
(* different contexts, and none is empty.                                  *)
THEOREM StreamUniformEvents == Spec => []UniformEvents
  <1>1. IInv => UniformEvents
    <2> DEFINE last == IF window = <<>> THEN <<>> ELSE <<window>>
               all == delivered \o events \o last
    <2> SUFFICES ASSUME IInv, NEW e \in Range(all) PROVE Uniform(e)
      BY DEF UniformEvents, Uniform
    <2>0. Types /\ EventsInv
      BY DEF IInv
    <2>1. /\ delivered \in Seq(Seq(Samples)) /\ events \in Seq(Seq(Samples))
          /\ last \in Seq(Seq(Samples))
      BY <2>0 DEF Types
    <2>2. AllUniform(delivered) /\ AllUniform(events) /\ AllUniform(last)
      BY <2>0 DEF EventsInv, AllUniform
    <2> HIDE DEF last
    <2>3. delivered \o events \in Seq(Seq(Samples)) /\ AllUniform(delivered \o events)
      BY <2>1, <2>2, UniformConcat
    <2>4. all \in Seq(Seq(Samples)) /\ AllUniform(all)
      BY <2>1, <2>2, <2>3, UniformConcat
    <2> HIDE DEF all
    <2> QED BY <2>4 DEF Range, AllUniform
  <1> QED BY <1>1, Invariance, PTL

(* A window is never cut short.                                            *)
THEOREM StreamSplitsAreDue == Spec => SplitsAreDue
  <1> DEFINE Due == \/ deadline = "due" \/ rx = "ended" \/ stream = "dropped"
                    \/ chan # <<>> /\ ctx[Head(chan)] # ctx[window[1]]
             Cut == window # <<>> /\ (window' = <<>> \/ Head(window') # Head(window))
  <1>1. IInv /\ Next /\ Cut => Due
    <2> SUFFICES ASSUME IInv, Next, Cut, ~Due PROVE FALSE
      OBVIOUS
    <2> USE DEF userVars, workerVars, rawVars
    <2>0. Types /\ Ends /\ WindowInv
      BY DEF IInv
    <2>1. UNCHANGED window => FALSE
      OBVIOUS
    <2>2. \A c \in Contexts : ~Callback(c)
      BY <2>1 DEF Callback
    <2>3. ~DropReporter /\ ~TimePasses /\ ~ForwardInterval /\ ~InputEnds
      BY <2>1 DEF DropReporter, TimePasses, ForwardInterval, InputEnds
    <2>4. ~UserReceives /\ ~UserSeesEnd /\ ~UserDropsStream
      BY <2>1 DEF UserReceives, UserSeesEnd, UserDropsStream
    <2>5. ~StartWindow
      BY <2>0 DEF StartWindow, WindowInv
    <2>6. ~CheckClock /\ ~WaitTimesOut
      BY <2>1 DEF CheckClock, WaitTimesOut
    <2>7. ~WorkerReturns
      BY <2>0 DEF WorkerReturns, Ends
    <2>8. ~ExtendWindow
      <3> SUFFICES ASSUME ExtendWindow PROVE FALSE
        OBVIOUS
      <3>1. ~ContextChanges(Head(chan))
        BY DEF ExtendWindow, Raw!Recv, ContextChanges
      <3>2. chan # <<>> /\ window' = Append(window, Head(chan))
        BY <3>1 DEF ExtendWindow, Raw!Recv
      <3>3. window \in Seq(Samples) /\ Head(chan) \in Samples
        BY <2>0, <3>2, HeadTailProperties DEF Types
      <3>4. window' # <<>> /\ Head(window') = Head(window)
        BY <3>2, <3>3, AppendProperties, HeadTailProperties, EmptySeq
      <3> QED BY <3>4
    <2> QED BY <2>2, <2>3, <2>4, <2>5, <2>6, <2>7, <2>8 DEF Next, Worker
  <1>2. IInv /\ [Next]_vars => [Cut => Due]_vars
    BY <1>1
  <1>3. Spec => [][Cut => Due]_vars
    BY <1>2, Invariance, PTL DEF Spec
  <1> QED BY <1>3 DEF SplitsAreDue
=============================================================================
