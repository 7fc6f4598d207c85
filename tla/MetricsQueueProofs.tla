------------------------- MODULE MetricsQueueProofs -------------------------
(***************************************************************************)
(* Proofs about MetricsQueue for every bound on the number of items, and,  *)
(* at the end, the lemmas about sequences of items that the proofs about   *)
(* the threads at both ends of such a channel need.                        *)
(***************************************************************************)
EXTENDS MetricsQueue, SequenceLemmas

(* Where the newest item is while enqueue_latest runs.  NewestKept alone   *)
(* is not inductive: the second try_send keeps it only because the channel *)
(* is empty by then, and the reader may take the stale item only while     *)
(* nothing newer than serial - 1 is in the channel.                        *)
MidEnqueue ==
  /\ step # "idle" => tx /\ serial > 0
  /\ step = "full" => NewestKnown = serial - 1
  /\ step = "resend" => chan = <<>>

(* Who is gone: only an All reader leaves early, and a reader sees the end *)
(* only of a closed and empty channel.                                     *)
Ends ==
  /\ rx = "dropped" => queue = "All" /\ chan = <<>>
  /\ rx = "ended" => ~tx /\ chan = <<>>

IInv == TypeOK /\ MidEnqueue /\ Ends /\ NewestKept

-----------------------------------------------------------------------------
(* The prover needs this for lengths of sequences. *)
LEMMA OneIsNext == \A n \in Nat \ {0} : n <= 1 => n = 1
  OBVIOUS

(* Appending makes the appended item the last. *)
LEMMA LastOfAppend ==
  ASSUME NEW S, NEW s \in Seq(S), NEW e \in S
  PROVE  /\ Append(s, e) \in Seq(S)
         /\ Append(s, e) # <<>>
         /\ Len(Append(s, e)) = Len(s) + 1
         /\ Append(s, e)[Len(Append(s, e))] = e
  BY AppendProperties

(* A Latest channel that is not full is empty. *)
LEMMA NotFull ==
  ASSUME TypeOK, queue = "Latest", ~Full
  PROVE  chan = <<>> /\ Len(chan) = 0
  <1>1. Len(chan) \in Nat /\ Len(chan) <= 1 /\ Len(chan) # 1
    BY LenProperties DEF TypeOK, Full
  <1>2. Len(chan) = 0
    BY <1>1
  <1> QED BY <1>2, EmptySeq DEF TypeOK

(* A sequence of length at most one is empty or has its head as last item. *)
LEMMA ShortSeq ==
  ASSUME NEW S, NEW s \in Seq(S), Len(s) <= 1
  PROVE  \/ s = <<>>
         \/ Len(s) = 1 /\ Tail(s) = <<>> /\ Head(s) = s[Len(s)]
  <1>1. CASE s # <<>>
    <2>0. Len(s) \in Nat \ {0}
      BY <1>1, EmptySeq
    <2>1. Len(s) = 1
      BY <2>0, OneIsNext
    <2>2. Tail(s) \in Seq(S) /\ Len(Tail(s)) = 0
      BY <1>1, <2>1, HeadTailProperties
    <2>3. Tail(s) = <<>>
      BY <2>2, EmptySeq
    <2> QED BY <2>1, <2>3
  <1> QED BY <1>1

-----------------------------------------------------------------------------
LEMMA InitInv == Init => IInv
  BY MaxItemsAssumption
     DEF Init, IInv, TypeOK, MidEnqueue, Ends, NewestKept, NewestKnown

LEMMA TrySendInv == IInv /\ TrySend => IInv'
  <1> SUFFICES ASSUME IInv, TrySend PROVE IInv'
    OBVIOUS
  <1> USE MaxItemsAssumption
  <1>1. CASE rx # "dropped" /\ ~Full /\ chan' = Append(chan, serial + 1) /\ UNCHANGED step
    <2>1. /\ chan' \in Seq(Nat) /\ chan' # <<>> /\ Len(chan') = Len(chan) + 1
          /\ chan'[Len(chan')] = serial + 1
      <3>1. chan \in Seq(Nat) /\ serial + 1 \in Nat
        BY DEF IInv, TypeOK
      <3> QED BY <1>1, <3>1, LastOfAppend
    <2>2. queue = "Latest" => Len(chan) = 0
      BY <1>1, NotFull DEF IInv
    <2>3. TypeOK'
      BY <1>1, <2>1, <2>2 DEF TrySend, IInv, TypeOK
    <2>4. (MidEnqueue /\ Ends /\ NewestKept)'
      BY <1>1, <2>1
         DEF TrySend, IInv, TypeOK, MidEnqueue, Ends, NewestKept, NewestKnown
    <2> QED BY <2>3, <2>4 DEF IInv
  <1>2. CASE rx # "dropped" /\ Full /\ step' = "full" /\ UNCHANGED chan
    <2>1. TypeOK'
      <3>1. serial' \in 0..MaxItems
        BY DEF TrySend, IInv, TypeOK
      <3> QED BY <1>2, <3>1 DEF TrySend, IInv, TypeOK, Full
    <2>2. NewestKnown' = serial' - 1
      BY <1>2 DEF TrySend, IInv, TypeOK, NewestKept, NewestKnown
    <2>3. (MidEnqueue /\ Ends /\ NewestKept)'
      BY <1>2, <2>2 DEF TrySend, IInv, TypeOK, MidEnqueue, Ends, NewestKept
    <2> QED BY <2>1, <2>3 DEF IInv
  <1>3. CASE rx = "dropped" /\ UNCHANGED <<chan, step>>
    BY <1>3 DEF TrySend, IInv, TypeOK, MidEnqueue, Ends, NewestKept, NewestKnown
  <1> QED BY <1>1, <1>2, <1>3 DEF TrySend

LEMMA DiscardStaleInv == IInv /\ DiscardStale => IInv'
  <1> SUFFICES ASSUME IInv, DiscardStale PROVE IInv'
    OBVIOUS
  <1>1. chan' = <<>>
    BY ShortSeq DEF IInv, TypeOK, MidEnqueue, DiscardStale
  <1> QED
    BY <1>1 DEF DiscardStale, IInv, TypeOK, MidEnqueue, Ends, NewestKept, NewestKnown

LEMMA ResendInv == IInv /\ Resend => IInv'
  <1> SUFFICES ASSUME IInv, Resend PROVE IInv'
    OBVIOUS
  <1> USE MaxItemsAssumption
  <1>1. chan' = Append(chan, serial) /\ Len(chan) = 0
    BY DEF Resend, IInv, TypeOK, MidEnqueue, Full
  <1>2. /\ chan' \in Seq(Nat) /\ chan' # <<>> /\ Len(chan') = 1
        /\ chan'[Len(chan')] = serial
    <2>1. serial \in Nat /\ chan \in Seq(Nat)
      BY DEF IInv, TypeOK
    <2>2. Len(chan') = 1
      BY <1>1, <2>1, LastOfAppend
    <2>3. chan' \in Seq(Nat) /\ chan' # <<>> /\ chan'[Len(chan')] = serial
      BY <1>1, <2>1, LastOfAppend
    <2> QED BY <2>2, <2>3
  <1>3. TypeOK'
    BY <1>2 DEF Resend, IInv, TypeOK
  <1>4. (MidEnqueue /\ Ends /\ NewestKept)'
    BY <1>2 DEF Resend, IInv, TypeOK, MidEnqueue, Ends, NewestKept, NewestKnown
  <1> QED BY <1>3, <1>4 DEF IInv

LEMMA CloseTxInv == IInv /\ CloseTx => IInv'
  BY DEF CloseTx, IInv, TypeOK, MidEnqueue, Ends, NewestKept, NewestKnown

LEMMA RecvInv == IInv /\ Recv => IInv'
  <1> SUFFICES ASSUME IInv, Recv PROVE IInv'
    OBVIOUS
  <1> USE MaxItemsAssumption
  <1>1. /\ Head(chan) \in Nat /\ Tail(chan) \in Seq(Nat)
        /\ Len(Tail(chan)) = Len(chan) - 1 /\ Len(chan) \in Nat
        /\ Tail(chan) # <<>> => Tail(chan)[Len(Tail(chan))] = chan[Len(chan)]
        /\ Tail(chan) = <<>> => Head(chan) = chan[Len(chan)]
    <2>1. chan \in Seq(Nat) /\ chan # <<>>
      BY DEF Recv, IInv, TypeOK
    <2>2. Len(chan) \in Nat \ {0} /\ Head(chan) = chan[1]
      BY <2>1, EmptySeq
    <2>3. /\ Head(chan) \in Nat /\ Tail(chan) \in Seq(Nat)
          /\ Len(Tail(chan)) = Len(chan) - 1
          /\ \A i \in 1..Len(Tail(chan)) : Tail(chan)[i] = chan[i + 1]
      BY <2>1, HeadTailProperties
    <2>4. ASSUME Tail(chan) # <<>> PROVE Tail(chan)[Len(Tail(chan))] = chan[Len(chan)]
      <3>1. Len(Tail(chan)) \in Nat \ {0}
        BY <2>3, <2>4, EmptySeq
      <3> QED BY <2>2, <2>3, <3>1
    <2>5. ASSUME Tail(chan) = <<>> PROVE Head(chan) = chan[Len(chan)]
      <3>1. Len(Tail(chan)) = 0
        BY <2>5, EmptySeq
      <3> QED BY <2>2, <2>3, <3>1
    <2> QED BY <2>2, <2>3, <2>4, <2>5
  <1>2. /\ got' \in Seq(Nat) /\ got' # <<>> /\ got'[Len(got')] = Head(chan)
    <2>1. got \in Seq(Nat) /\ got' = Append(got, Head(chan))
      BY DEF Recv, IInv, TypeOK
    <2> QED BY <1>1, <2>1, LastOfAppend
  <1>3. TypeOK'
    BY <1>1, <1>2 DEF Recv, IInv, TypeOK
  <1>4. NewestKnown' = NewestKnown
    BY <1>1, <1>2 DEF Recv, NewestKnown
  <1>5. (MidEnqueue /\ Ends /\ NewestKept)'
    BY <1>4 DEF Recv, IInv, TypeOK, MidEnqueue, Ends, NewestKept
  <1> QED BY <1>3, <1>5 DEF IInv

LEMMA RecvEndInv == IInv /\ RecvEnd => IInv'
  BY DEF RecvEnd, IInv, TypeOK, MidEnqueue, Ends, NewestKept, NewestKnown

LEMMA DropRxInv == IInv /\ DropRx => IInv'
  BY DEF DropRx, IInv, TypeOK, MidEnqueue, Ends, NewestKept, NewestKnown

LEMMA StutterInv == IInv /\ UNCHANGED vars => IInv'
  BY DEF vars, IInv, TypeOK, MidEnqueue, Ends, NewestKept, NewestKnown

(* IInv is an invariant of the channel. *)
THEOREM Invariance == Spec => []IInv
  <1>1. IInv /\ [Next]_vars => IInv'
    BY TrySendInv, DiscardStaleInv, ResendInv, CloseTxInv, RecvInv, RecvEndInv,
       DropRxInv, StutterInv DEF Next, Enqueue
  <1> QED BY InitInv, <1>1, PTL DEF Spec

(* The variables keep their types and a Latest channel its capacity of     *)
(* one, for any number of items enqueued (metrics.rs:555-573).             *)
THEOREM TypeCorrect == Spec => []TypeOK
  <1>1. IInv => TypeOK
    BY DEF IInv
  <1> QED BY Invariance, <1>1, PTL

(* No interleaving of enqueue_latest with the reader loses the newest item *)
(* (metrics.rs:946-959).                                                   *)
THEOREM NewestNeverLost == Spec => []NewestKept
  <1>1. IInv => NewestKept
    BY DEF IInv
  <1> QED BY Invariance, <1>1, PTL

(* A Latest reader never receives an item that a finished enqueue has      *)
(* superseded (metrics.rs:949-955).                                        *)
THEOREM DeliveryIsFresh == Spec => FreshDelivery
  <1> DEFINE Fresh ==
        queue = "Latest" /\ got' # got
        => got'[Len(got')] >= (IF step = "idle" THEN serial ELSE serial - 1)
  <1>1. IInv /\ [Next]_vars => [Fresh]_vars
    <2> SUFFICES ASSUME IInv, Next, queue = "Latest", got' # got PROVE Fresh
      BY DEF vars
    <2>1. Recv
      BY DEF Next, Enqueue, TrySend, DiscardStale, Resend, CloseTx, RecvEnd, DropRx
    <2>2. Head(chan) = chan[Len(chan)]
      BY <2>1, ShortSeq DEF Recv, IInv, TypeOK
    <2>3. got'[Len(got')] = Head(chan)
      <3>1. /\ got \in Seq(Nat) /\ chan \in Seq(Nat) /\ chan # <<>>
            /\ got' = Append(got, Head(chan))
        BY <2>1 DEF Recv, IInv, TypeOK
      <3>2. Head(chan) \in Nat
        BY <3>1, HeadTailProperties
      <3> QED BY <3>1, <3>2, LastOfAppend
    <2>4. NewestKnown = Head(chan) /\ rx # "dropped" /\ step # "resend"
      BY <2>1, <2>2 DEF Recv, NewestKnown, IInv, MidEnqueue
    <2> QED
      BY <2>3, <2>4 DEF IInv, TypeOK, MidEnqueue, NewestKept
  <1> QED BY Invariance, <1>1, PTL DEF Spec, FreshDelivery

-----------------------------------------------------------------------------
(* A step of the channel is a step of the feed, or leaves it unchanged. *)
LEMMA FeedStep == IInv /\ [Next]_vars => [Feed!Next]_(Feed!vars)
  <1> SUFFICES ASSUME IInv, [Next]_vars PROVE [Feed!Next]_(Feed!vars)
    OBVIOUS
  <1> USE DEF Feed!Next, Feed!vars
  <1>1. ASSUME TrySend PROVE Feed!Publish \/ UNCHANGED Feed!vars
    <2>1. CASE rx # "dropped" /\ ~Full /\ chan' = Append(chan, serial + 1) /\ UNCHANGED step
      <3>1. queue = "Latest" => chan' = <<serial + 1>>
        <4>1. queue = "Latest" => chan = <<>>
          BY <2>1, NotFull DEF IInv
        <4> QED BY <2>1, <4>1
      <3> QED BY <1>1, <2>1, <3>1 DEF TrySend, Feed!Publish, IInv, TypeOK
    <2>2. CASE rx # "dropped" /\ Full /\ step' = "full" /\ UNCHANGED chan
      BY <1>1, <2>2 DEF TrySend, IInv, TypeOK
    <2>3. CASE rx = "dropped" /\ UNCHANGED <<chan, step>>
      BY <1>1, <2>3 DEF TrySend, Feed!Publish, IInv, TypeOK, Ends
    <2> QED BY <1>1, <2>1, <2>2, <2>3 DEF TrySend
  <1>2. ASSUME DiscardStale PROVE Feed!Publish
    <2>1. /\ tx /\ serial \in Nat /\ serial > 0 /\ serial - 1 < MaxItems
          /\ queue = "Latest" /\ rx # "dropped"
      BY <1>2, MaxItemsAssumption DEF DiscardStale, IInv, TypeOK, MidEnqueue, Ends
    <2>2. (serial - 1) + 1 = serial
      BY <2>1
    <2>3. step = "full" /\ step' = "resend" /\ UNCHANGED <<queue, tx, rx, serial, got>>
      BY <1>2 DEF DiscardStale
    <2> QED BY <2>1, <2>2, <2>3 DEF Feed!Publish
  <1>3. ASSUME Resend PROVE UNCHANGED Feed!vars
    <2>1. chan' = <<serial>>
      BY <1>3 DEF Resend, Full, IInv, TypeOK, MidEnqueue
    <2> QED BY <1>3, <2>1 DEF Resend
  <1>4. ASSUME CloseTx PROVE Feed!Close
    BY <1>4 DEF CloseTx, Feed!Close
  <1>5. ASSUME Recv PROVE Feed!Take
    BY <1>5 DEF Recv, Feed!Take, IInv, MidEnqueue
  <1>6. ASSUME RecvEnd PROVE Feed!Finish
    BY <1>6 DEF RecvEnd, Feed!Finish, IInv, MidEnqueue
  <1>7. ASSUME DropRx PROVE Feed!Leave
    BY <1>7 DEF DropRx, Feed!Leave, IInv, TypeOK
  <1>8. ASSUME UNCHANGED vars PROVE UNCHANGED Feed!vars
    BY <1>8 DEF vars
  <1> QED
    BY <1>1, <1>2, <1>3, <1>4, <1>5, <1>6, <1>7, <1>8 DEF Next, Enqueue

(* Every step of the channel is one the feed allows: All readers get each  *)
(* item once and in order, Latest readers an increasing subsequence.       *)
THEOREM FeedRefinement == Spec => Feed!Init /\ [][Feed!Next]_(Feed!vars)
  <1>1. Init => Feed!Init
    BY DEF Init, Feed!Init
  <1> QED BY <1>1, FeedStep, Invariance, PTL DEF Spec

-----------------------------------------------------------------------------
(* Samples on their way. *)

(* A name for an equation, which the provers need to instantiate it.      *)
Associates(s, t, u) == (s \o t) \o u = s \o (t \o u)

(* Concatenation is associative. *)
LEMMA Associative ==
  ASSUME NEW S, NEW s \in Seq(S), NEW t \in Seq(S), NEW u \in Seq(S)
  PROVE  Associates(s, t, u)
  BY ConcatAssociative DEF Associates

(* The head of one sequence moves to the end of another.                   *)
LEMMA MoveHead ==
  ASSUME NEW S, NEW w \in Seq(S), NEW c \in Seq(S), c # <<>>
  PROVE  /\ Head(c) \in S /\ Tail(c) \in Seq(S) /\ <<Head(c)>> \in Seq(S)
         /\ Append(w, Head(c)) \in Seq(S)
         /\ Append(w, Head(c)) \o Tail(c) = w \o c
         /\ <<Head(c)>> \o Tail(c) = c
  <1>1. Head(c) \in S /\ Tail(c) \in Seq(S) /\ <<Head(c)>> \in Seq(S)
    BY HeadTailProperties
  <1>2. <<Head(c)>> \o Tail(c) = c
    BY HeadTailProperties
  <1>3. Append(w, Head(c)) = w \o <<Head(c)>> /\ Append(w, Head(c)) \in Seq(S)
    BY <1>1, AppendIsConcat, AppendProperties
  <1>4. Append(w, Head(c)) \o Tail(c) = w \o c
    BY <1>1, <1>2, <1>3, ConcatAssociative
  <1> QED BY <1>1, <1>2, <1>3, <1>4

Upto(n) == [i \in 1..n |-> i]

(* What went before (f), the open window (w) and the channel (c) hold the  *)
(* first n samples, once and in order.                                     *)
InOrder(f, w, c, n) == (f \o w) \o c = Upto(n)

(* The next sample moves from the channel to the window. *)
LEMMA ToWindow ==
  ASSUME NEW S, NEW f \in Seq(S), NEW w \in Seq(S), NEW c \in Seq(S), c # <<>>,
         NEW n, InOrder(f, w, c, n)
  PROVE  InOrder(f, Append(w, Head(c)), Tail(c), n)
  <1> DEFINE a == Append(w, Head(c))
             t == Tail(c)
  <1>1. t \in Seq(S) /\ a \in Seq(S) /\ a \o t = w \o c
    BY MoveHead
  <1> HIDE DEF a, t
  <1>2. Associates(f, a, t) /\ Associates(f, w, c)
    BY <1>1, Associative, Zenon
  <1>3. InOrder(f, a, t, n)
    BY <1>1, <1>2 DEF Associates, InOrder
  <1> QED BY <1>3 DEF a, t

(* The window is closed. *)
LEMMA ToEvent ==
  ASSUME NEW S, NEW f \in Seq(S), NEW w \in Seq(S), NEW c, NEW n, InOrder(f, w, c, n)
  PROVE  InOrder(f \o w, <<>>, c, n)
  <1>1. f \o w \in Seq(S)
    BY ConcatProperties
  <1>2. (f \o w) \o <<>> = f \o w
    BY <1>1, ConcatEmptySeq
  <1> QED BY <1>2 DEF InOrder

(* The window is closed and the next sample starts another. *)
LEMMA ToNextWindow ==
  ASSUME NEW S, NEW f \in Seq(S), NEW w \in Seq(S), NEW c \in Seq(S), c # <<>>,
         NEW n, InOrder(f, w, c, n)
  PROVE  InOrder(f \o w, <<Head(c)>>, Tail(c), n)
  <1> DEFINE g == f \o w
             h == <<Head(c)>>
             t == Tail(c)
  <1>1. t \in Seq(S) /\ h \in Seq(S) /\ h \o t = c
    BY MoveHead
  <1>2. g \in Seq(S)
    BY ConcatProperties
  <1>3. g \o c = Upto(n)
    BY DEF InOrder
  <1> HIDE DEF g, h, t
  <1>4. Associates(g, h, t)
    BY <1>1, <1>2, Associative, Zenon
  <1>5. InOrder(g, h, t, n)
    BY <1>1, <1>3, <1>4 DEF Associates, InOrder
  <1> QED BY <1>5 DEF g, h, t

(* The next sample goes on without a window. *)
LEMMA ToOwnEvent ==
  ASSUME NEW S, NEW f \in Seq(S), NEW c \in Seq(S), c # <<>>,
         NEW n, InOrder(f, <<>>, c, n)
  PROVE  InOrder(f \o <<Head(c)>>, <<>>, Tail(c), n)
  <1> DEFINE h == <<Head(c)>>
             t == Tail(c)
  <1>1. <<>> \in Seq(S) /\ f \o <<>> = f
    BY ConcatEmptySeq
  <1>2. InOrder(f \o <<>>, h, t, n)
    BY <1>1, ToNextWindow, Zenon
  <1>3. h \in Seq(S)
    BY MoveHead
  <1>4. InOrder(f, h, t, n)
    BY <1>1, <1>2
  <1> HIDE DEF h, t
  <1>5. InOrder(f \o h, <<>>, t, n)
    BY <1>3, <1>4, ToEvent, Zenon
  <1> QED BY <1>5 DEF h, t

(* A sample enters the channel. *)
LEMMA NextSample ==
  ASSUME NEW S, NEW n \in Nat, n + 1 \in S, NEW f \in Seq(S), NEW w \in Seq(S),
         NEW c \in Seq(S), InOrder(f, w, c, n)
  PROVE  InOrder(f, w, Append(c, n + 1), n + 1)
  <1> DEFINE s == f \o w
  <1>1. s \o c = Upto(n)
    BY DEF InOrder
  <1>2. s \in Seq(S)
    BY ConcatProperties
  <1> HIDE DEF s
  <1>3. s \o Append(c, n + 1) = Append(s \o c, n + 1)
    BY <1>2, AppendToConcat
  <1>4. Append(Upto(n), n + 1) = Upto(n + 1)
    BY DEF Upto
  <1> QED BY <1>1, <1>3, <1>4 DEF InOrder, s

(* A sample held between the window and the channel enters the window.     *)
LEMMA HeldToWindow ==
  ASSUME NEW S, NEW f \in Seq(S), NEW w \in Seq(S), NEW x \in S, NEW c, NEW n,
         InOrder(f \o w, <<x>>, c, n)
  PROVE  InOrder(f, Append(w, x), c, n)
  <1> DEFINE h == <<x>>
  <1>1. h \in Seq(S) /\ Append(w, x) = w \o h
    BY AppendIsConcat
  <1> HIDE DEF h
  <1>2. Associates(f, w, h)
    BY <1>1, Associative, Zenon
  <1> QED BY <1>1, <1>2 DEF Associates, InOrder, h

(* What went before is a prefix of all samples. *)
LEMMA BeforeIsPrefix ==
  ASSUME NEW S, NEW f \in Seq(S), NEW w \in Seq(S), NEW c \in Seq(S),
         NEW n \in Nat, InOrder(f, w, c, n)
  PROVE  f = Upto(Len(f))
  <1> DEFINE s == f \o w
             t == s \o c
  <1>1. /\ s \in Seq(S) /\ Len(s) = Len(f) + Len(w)
        /\ Len(f) \in Nat /\ Len(w) \in Nat
        /\ \A i \in 1..Len(s) : s[i] = IF i <= Len(f) THEN f[i] ELSE w[i - Len(f)]
    BY ConcatProperties
  <1> HIDE DEF s
  <1>s. s \in Seq(S)
    BY <1>1
  <1>2. /\ Len(t) = Len(s) + Len(c) /\ Len(s) \in Nat /\ Len(c) \in Nat
        /\ \A i \in 1..Len(t) : t[i] = IF i <= Len(s) THEN s[i] ELSE c[i - Len(s)]
    BY <1>s, ConcatProperties
  <1>3. t = Upto(n)
    BY DEF InOrder, s
  <1>4. Len(t) = n /\ \A i \in 1..n : t[i] = i
    BY <1>3 DEF Upto
  <1> HIDE DEF t
  <1>5. \A i \in 1..Len(f) : i \in 1..Len(s) /\ i \in 1..n
    BY <1>1, <1>2, <1>4
  <1>6. \A i \in 1..Len(f) : f[i] = i
    BY <1>1, <1>2, <1>4, <1>5
  <1>7. f = [i \in 1..Len(f) |-> f[i]]
    OBVIOUS
  <1> QED BY <1>6, <1>7 DEF Upto

(* One more sequence at the end of the second of two: FlattenSeq of all.   *)
FlattensTo(d, e, w) == FlattenSeq(d \o Append(e, w)) = FlattenSeq(d \o e) \o w

LEMMA FlattenOneMore ==
  ASSUME NEW S, NEW d \in Seq(Seq(S)), NEW e \in Seq(Seq(S)), NEW w \in Seq(S)
  PROVE  FlattenSeq(d \o e) \in Seq(S) /\ FlattensTo(d, e, w)
  <1> DEFINE all == d \o e
  <1>1. all \in Seq(Seq(S)) /\ d \o Append(e, w) = Append(all, w)
    BY AppendToConcat
  <1> HIDE DEF all
  <1>2. FlattenSeq(all) \in Seq(S) /\ FlattenSeq(Append(all, w)) = FlattenSeq(all) \o w
    BY <1>1, FlattenAppend
  <1> QED BY <1>1, <1>2 DEF all, FlattensTo
=============================================================================
