--------------------------- MODULE WindowAggregate ---------------------------
(***************************************************************************)
(* aggregate_window of src/src/metrics.rs, which makes one summary of the  *)
(* samples of a window, and the Prometheus families src/src/prometheus.rs  *)
(* writes for a sample and for a summary.                                  *)
(***************************************************************************)
EXTENDS IntervalMetrics

Counters == {"retransmits", "reorders", "packets", "lost"}
Gauges == {"rtt", "cwnd", "pmtu", "jitter"}

Observed(samples, field) == FlattenSeq([i \in DOMAIN samples |-> samples[i][field]])
Total(f) == Sum(f, DOMAIN f)

(* finite_nonnegative, of numbers that are finite. *)
Nonnegative(value) == IF value > 0 THEN value ELSE 0

(* Mutant: a counter nobody observed is zero. *)
MutZeroCounter(values) == <<Total([i \in DOMAIN values |-> Nonnegative(values[i])])>>

(* Mutant: a later value replaces the earlier ones. *)
MutLastValue(values) ==
  IF values = <<>> THEN <<>> ELSE <<Nonnegative(values[Len(values)])>>

(* OptionalCounter *)
Counter(values) ==
  IF values = <<>> THEN <<>>
  ELSE <<Total([i \in DOMAIN values |-> Nonnegative(values[i])])>>

(* GaugeAccumulator *)
Gauge(values) ==
  IF values = <<>> THEN <<>>
  ELSE LET sum == FoldLeft(Add, <<0, 1>>, values)
           extreme(below(_, _)) ==
             values[CHOOSE i \in DOMAIN values : \A j \in DOMAIN values :
                      below(values[i], values[j])]
       IN <<[mean |-> <<sum[1], sum[2] * Len(values)>>,
             min |-> extreme(Leq),
             max |-> extreme(LAMBDA p, q : Leq(q, p))]>>

(* The bandwidth's mean is weighted by time when any time has passed. *)
Bandwidth(samples) ==
  LET bytes == Total([i \in DOMAIN samples |-> Nonnegative(samples[i].bytes)])
      time == Total([i \in DOMAIN samples |-> Nonnegative(samples[i].duration)])
      stats == Gauge([i \in DOMAIN samples |-> samples[i].bandwidth])[1]
  IN IF time > 0 THEN [stats EXCEPT !.mean = <<8 * bytes, time>>] ELSE stats

aggregate_window(samples) ==
  [direction |-> samples[1].direction,
   stream_count |-> samples[1].stream_count,
   duration |-> Total([i \in DOMAIN samples |-> Nonnegative(samples[i].duration)]),
   bytes |-> Total([i \in DOMAIN samples |-> Nonnegative(samples[i].bytes)]),
   bandwidth |-> <<Bandwidth(samples)>>,
   omitted |-> Cardinality({i \in DOMAIN samples : samples[i].omitted}),
   counters |-> [f \in Counters |-> Counter(Observed(samples, f))],
   gauges |-> [f \in Gauges |-> Gauge(Observed(samples, f))]]

(* gauge_stats and gauge_option: what has no value has no line. *)
Present(optional) ==
  [f \in {g \in DOMAIN optional : optional[g] # <<>>} |-> optional[f][1]]

(* The functions f and g in one; they have no name in common. *)
Merged(f, g) == [x \in DOMAIN f \cup DOMAIN g |-> IF x \in DOMAIN f THEN f[x] ELSE g[x]]

(* render_window_prometheus: the families that are written. *)
WindowFamilies(summary) ==
  Merged(Merged(Present(summary.counters), Present(summary.gauges)),
         Merged([f \in {"duration", "bytes", "stream_count", "omitted"} |-> summary[f]],
                [f \in {"bandwidth"} |-> summary.bandwidth[1]]))

(* render_interval_prometheus *)
IntervalFamilies(sample) ==
  Merged(Present([f \in Counters \cup Gauges |-> sample[f]]),
         Merged([f \in {"bytes", "bandwidth", "stream_count"} |-> sample[f]],
                [f \in {"omitted"} |-> IF sample.omitted THEN 1 ELSE 0]))
=============================================================================
