--------------------------- MODULE IntervalMetrics ---------------------------
(***************************************************************************)
(* One interval's sample, as src/native/iperf3rs_shim.c makes it from the  *)
(* results libiperf keeps for each stream, and the Metrics value the       *)
(* callback of src/src/metrics.rs receives.                                *)
(*                                                                         *)
(* A rational number is a pair <<numerator, positive denominator>>, an     *)
(* optional value a sequence of at most one.  Of the TCP gauges, rtt       *)
(* stands also for rttvar and cwnd for snd_wnd, which are read alike.      *)
(***************************************************************************)
EXTENDS Integers, Sequences, FiniteSets, SequencesExt

CONSTANTS StatsInterval, MicrosPerSecond
ASSUME StatsIntervalAssumption == StatsInterval \in Nat \ {0}
ASSUME MicrosAssumption == MicrosPerSecond \in Nat \ {0}   \* 10^6 in the code

Sum(f, S) == FoldFunctionOnSet(+, 0, f, S)
SumOf(f(_), S) == Sum([i \in S |-> f(i)], S)
Add(p, q) == <<p[1] * q[2] + q[1] * p[2], p[2] * q[2]>>
Leq(p, q) == p[1] * q[2] <= q[1] * p[2]

(* iperf3rs_stream_must_be_sender: the direction a callback reports. *)
MustBeSender(test) ==
  IF test.mode = "bidirectional" THEN test.role = "client" ELSE test.mode = "sender"

(* Mutant: the cumulative counter is taken for the events of an interval. *)
MutCumulative(current, previous) == IF current < 0 \/ previous < 0 THEN -1 ELSE current

(* iperf3rs_reorder_delta: a decreasing counter starts a new epoch. *)
ReorderDelta(current, previous) ==
  IF current < 0 \/ previous < 0 THEN -1
  ELSE IF current < previous THEN current ELSE current - previous

CountsReorders(test) ==
  test.protocol = "tcp" /\ test.retransmits /\ MustBeSender(test)

(* iperf3rs_stats_callback: the deltas of the sending streams, if any is   *)
(* known; before and after hold the results around libiperf's collection.  *)
Reorders(test, before, after) ==
  LET delta(i) == ReorderDelta(after[i][1].reorder,
                               IF before[i] = <<>> THEN 0 ELSE before[i][1].reorder)
      known == {i \in DOMAIN test.streams : test.streams[i] /\ delta(i) >= 0}
  IN IF ~CountsReorders(test) \/ known = {} THEN <<>> ELSE <<SumOf(delta, known)>>

-----------------------------------------------------------------------------
(* iperf3rs_emit_interval_metrics. *)

Matched(test, last) ==
  {i \in DOMAIN test.streams : test.streams[i] = MustBeSender(test) /\ last[i] # <<>>}

(* Mutant: an interval that is short is dropped although data has moved. *)
MutLongOnly(test, last) ==
  \E i \in Matched(test, last) : 10 * last[i][1].duration >= StatsInterval

IntervalOk(test, last) ==
  \E i \in Matched(test, last) :
     \/ 10 * last[i][1].duration >= StatsInterval
     \/ last[i][1].bytes > 0

(* Mutant: the average counts the streams that report nothing. *)
MutAverageAll(f, S, from) == <<<<Sum(f, {i \in S : f[i] >= from}), Cardinality(S)>>>>

(* iperf3rs_add_nonnegative and the division by what it counted: f's mean  *)
(* over the streams of S where it is at least from.                        *)
Average(f, S, from) ==
  LET known == {i \in S : f[i] >= from}
  IN IF known = {} THEN <<>> ELSE <<<<Sum(f, known), Cardinality(known)>>>>

(* Mutant: the microseconds are passed on as seconds. *)
MutMicros(average) == average

(* An average of microseconds as seconds. *)
Seconds(average) ==
  IF average = <<>> THEN <<>>
  ELSE <<<<average[1][1], average[1][2] * MicrosPerSecond>>>>

(* The sample, and the conversion of metrics_callback: a value whose flag  *)
(* says it is not available is absent, never zero.                         *)
Sample(test, last, reorders) ==
  LET S == Matched(test, last)
      of(field) == [i \in S |-> last[i][1][field]]
      bytes == Sum(of("bytes"), S)
      duration == last[CHOOSE i \in S : \A j \in S : i <= j][1].duration
      sends == MustBeSender(test)
      tcp == CountsReorders(test)
      udp == test.protocol = "udp"
      when(given, value) == IF given THEN <<value>> ELSE <<>>
  IN [direction |-> IF sends THEN "sender" ELSE "receiver",
      stream_count |-> Cardinality(S),
      bytes |-> bytes,
      duration |-> duration,
      bandwidth |-> IF duration > 0 THEN <<8 * bytes, duration>> ELSE <<0, 1>>,
      omitted |-> \E i \in S : last[i][1].omitted,
      retransmits |-> when(tcp, Sum(of("retransmits"), S)),
      reorders |-> reorders,
      rtt |-> IF tcp THEN Seconds(Average(of("rtt"), S, 0)) ELSE <<>>,
      pmtu |-> IF tcp THEN Average(of("pmtu"), S, 0) ELSE <<>>,
      cwnd |-> IF tcp THEN Average(of("cwnd"), S, 1) ELSE <<>>,
      packets |-> when(udp, Sum(of("packets"), S)),
      lost |-> when(udp, Sum(of("lost"), S)),
      jitter |-> when(udp /\ ~sends, <<Sum(of("jitter"), S), Cardinality(S)>>)]
=============================================================================
