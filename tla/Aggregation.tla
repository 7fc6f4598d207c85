----------------------------- MODULE Aggregation -----------------------------
(***************************************************************************)
(* The numbers of a run, from libiperf's results per stream to the         *)
(* Prometheus text: libiperf collects and reports an interval (external),  *)
(* the shim's callbacks turn it into a sample, the worker gathers samples  *)
(* in a window and now and then encodes its summary.                       *)
(***************************************************************************)
EXTENDS WindowAggregate, PrometheusText

CONSTANTS
  Runs,         \* [test, prefix, labels], the latter two of the encoder; a test
                \* is [role, mode, protocol, retransmits, streams], where streams
                \* says of each stream whether it sends
  Alphabet,     \* characters of texts
  Results(_),   \* what an interval may bring a stream, by protocol; "reorder"
                \* is the events in it, "epoch" what becomes of the counter
  MaxIntervals

ResultTypes ==
  [bytes : Nat, duration : Nat, omitted : BOOLEAN, retransmits : Nat, rtt : Nat \cup {-1},
   cwnd : Nat, pmtu : Nat \cup {-1}, reorder : Nat, epoch : {"same", "new", "unknown"},
   packets : Nat, lost : Int, jitter : Nat]

ASSUME RunsAssumption ==
  \A run \in Runs :
    /\ run.test.streams \in Seq(BOOLEAN)
    /\ run.prefix \in Seq(Alphabet) /\ run.labels \in Seq(Seq(Alphabet) \X Seq(Alphabet))
    /\ \A result \in Results(run.test.protocol) : result \in ResultTypes

VARIABLES
  test,
  encoder,     \* [prefix, labels] of PrometheusEncoder
  turn,        \* "setup", "rejected", then "collect" or "report": the timers of
               \* libiperf alternate
  last,        \* the last result of each stream, if any
  reorders,    \* interval_reorder_events, if available
  window,      \* samples the worker holds
  exposed,     \* families of the last encoded summary, and of each sample of it,
               \* and how a series of it is named
  \* What has really happened, for the properties:
  intervals,   \* collected so far
  pending,     \* results of the streams that the window holds
  encoded,     \* the ones the last summary was made of
  moved,       \* bytes that the reported streams transferred
  delivered,   \* bytes in summaries
  events,      \* reorderings on the streams that send
  reported,    \* reorderings in samples
  clean        \* no counter was reset or unreadable, and no interval dropped

truth == <<intervals, pending, encoded, moved, delivered, events, reported, clean>>
aggregationVars == <<test, encoder, turn, last, reorders, window, exposed, truth>>

Streams == DOMAIN test.streams
Nothing == [window |-> <<>>, samples |-> <<>>, series |-> <<>>]
Suffix == <<"b">>   \* any name of the encoder's own

AggregationInit ==
  /\ \E run \in Runs : /\ test = run.test
                      /\ encoder = [prefix |-> run.prefix, labels |-> run.labels]
  /\ turn = "setup"
  /\ last = [i \in Streams |-> <<>>]
  /\ reorders = <<>> /\ window = <<>> /\ exposed = Nothing
  /\ intervals = 0 /\ pending = <<>> /\ encoded = <<>>
  /\ moved = 0 /\ delivered = 0 /\ events = 0 /\ reported = 0 /\ clean = TRUE

(* The encoder is made, or refuses its configuration; the metrics are      *)
(* enabled, before or between two timers.                                  *)
SetUp ==
  /\ turn = "setup"
  /\ turn' \in IF EncoderAccepts(encoder.prefix, encoder.labels)
               THEN {"collect", "report"} ELSE {"rejected"}
  /\ UNCHANGED <<test, encoder, last, reorders, window, exposed, truth>>

(* What libiperf stores of a result: the kernel's counter, -1 when it      *)
(* cannot be read.                                                         *)
Stored(result, before) ==
  LET counter == IF before = <<>> \/ result.epoch = "new" THEN 0
                 ELSE IF before[1].reorder < 0 THEN 0 ELSE before[1].reorder
  IN [result EXCEPT !.reorder = IF result.epoch = "unknown" THEN -1 ELSE counter + @]

(* The stats timer: libiperf collects around the shim's snapshot. *)
CollectStats ==
  /\ turn = "collect" /\ intervals < MaxIntervals
  /\ \E results \in [Streams -> Results(test.protocol)] :
       /\ last' = [i \in Streams |-> <<Stored(results[i], last[i])>>]
       /\ reorders' = Reorders(test, last, last')
       /\ LET S == Matched(test, last')
          IN /\ moved' = moved + SumOf(LAMBDA i : results[i].bytes, S)
             /\ events' = events + SumOf(LAMBDA i : results[i].reorder, S)
             /\ clean' = (clean /\ (\A i \in S : results[i].epoch = "same")
                               /\ IntervalOk(test, last'))
  /\ turn' = "report" /\ intervals' = intervals + 1
  /\ UNCHANGED <<test, encoder, window, exposed, pending, encoded, delivered, reported>>

(* The reporter timer: the sample reaches the worker's window. *)
Report ==
  /\ turn = "report" /\ turn' = "collect"
  /\ IF IntervalOk(test, last)
     THEN LET sample == Sample(test, last, reorders)
          IN /\ window' = Append(window, sample)
             /\ pending' = Append(pending, last)
             /\ reported' = reported + Total(sample.reorders)
     ELSE UNCHANGED <<window, pending, reported>>
  /\ UNCHANGED <<test, encoder, last, reorders, exposed, intervals, encoded, moved, delivered,
                 events, clean>>

(* flush_window_event and the encoders, of the summary and of its samples. *)
Encode ==
  /\ window # <<>>
  /\ LET summary == aggregate_window(window)
     IN /\ exposed' = [window |-> <<WindowFamilies(summary)>>,
                       samples |-> [i \in DOMAIN window |-> IntervalFamilies(window[i])],
                       series |-> Series(encoder.prefix, Suffix, encoder.labels)]
        /\ delivered' = delivered + summary.bytes
  /\ encoded' = pending
  /\ window' = <<>> /\ pending' = <<>>
  /\ UNCHANGED <<test, encoder, turn, last, reorders, intervals, moved, events, reported, clean>>

AggregationNext == SetUp \/ CollectStats \/ Report \/ Encode

AggregationSpec == AggregationInit /\ [][AggregationNext]_aggregationVars

-----------------------------------------------------------------------------
(* Reordered packets: a sample never reports more than happened, and an    *)
(* undisturbed run loses none, however the events fall into the intervals  *)
(* and streams (src/native/iperf3rs_shim.c:107, 155).                      *)
ReorderHonest ==
  /\ reported <= events
  /\ clean /\ turn = "collect" /\ CountsReorders(test) => reported = events

(* No byte is lost or counted twice between libiperf and the summaries,    *)
(* although intervals that are too short are dropped (shim.c:244).         *)
BytesConserved ==
  turn = "collect" =>
    moved = delivered + Total([i \in DOMAIN window |-> window[i].bytes])

(* A statistic lies among the values it is made of: the mean between the   *)
(* extremes, the extremes between the least and the greatest value that a  *)
(* stream reported, in seconds; streams that do not report one do not pull *)
(* it to zero (shim.c:306, metrics.rs:1013, 1075).  A sample without duration has no  *)
(* bandwidth and may lift the mean above the greatest.                     *)
GaugesWithinObserved ==
  exposed.window # <<>> =>
    LET families == exposed.window[1]
        timed == \A n \in DOMAIN encoded : \A i \in Streams : encoded[n][i][1].duration > 0
        values == {encoded[n][i][1].rtt : n \in DOMAIN encoded, i \in Streams} \ {-1}
    IN /\ \A f \in (Gauges \cup {"bandwidth"}) \cap DOMAIN families :
            (f = "bandwidth" => timed) =>
              /\ Leq(families[f].min, families[f].mean)
              /\ Leq(families[f].mean, families[f].max)
       /\ "rtt" \in DOMAIN families =>
            /\ \E v \in values : Leq(<<v, MicrosPerSecond>>, families["rtt"].min)
            /\ \E v \in values : Leq(families["rtt"].max, <<v, MicrosPerSecond>>)

(* A summary has a counter just when a sample had it, which is never less  *)
(* than what really was counted, and the same if nothing was negative:     *)
(* libiperf takes a lost packet back when it arrives late (metrics.rs:960, *)
(* prometheus.rs:465).                                                     *)
CountersFaithful ==
  exposed.window # <<>> =>
    LET families == exposed.window[1]
        lost(n) == SumOf(LAMBDA i : encoded[n][i][1].lost, Matched(test, encoded[n]))
        net == SumOf(lost, DOMAIN encoded)
    IN /\ \A f \in Counters : f \in DOMAIN families <=>
            \E n \in DOMAIN exposed.samples : f \in DOMAIN exposed.samples[n]
       /\ ("lost" \in DOMAIN families) <=> (test.protocol = "udp")
       /\ "lost" \in DOMAIN families =>
            /\ families["lost"] >= net /\ families["lost"] >= 0
            /\ (\A n \in DOMAIN encoded : lost(n) >= 0) => families["lost"] = net

(* "Prometheus text exposition": whatever text the labels' values are, a   *)
(* reader finds the metric and exactly the labels that were asked for, and *)
(* no other line (src/src/prometheus.rs:413).                              *)
LabelsReadBack ==
  exposed.window # <<>> =>
    LET read == ReadSeries(exposed.series)
    IN /\ read.at = "end" /\ read.labels = encoder.labels
       /\ read.metric = encoder.prefix \o <<"_">> \o Suffix
       /\ Cardinality({l[1] : l \in Range(read.labels)}) = Len(read.labels)

(* The parts of the two questions: what is counted between libiperf and    *)
(* the summaries, and what a summary says of its samples.                  *)
CountsConserved == ReorderHonest /\ BytesConserved
SummaryFaithful == GaugesWithinObserved /\ CountersFaithful /\ LabelsReadBack
=============================================================================
