---------------------------- MODULE MCMetricsFile ----------------------------
(* Two threads: clones of one sink, two sinks of one process, or two       *)
(* processes.                                                              *)
EXTENDS MetricsFile, TLC

CONSTANTS w1, w2
MCWriters == {w1, w2}
Apart == (w1 :> w1) @@ (w2 :> w2)
Together == (w1 :> w1) @@ (w2 :> w1)
MCBoth == {Apart, Together}
=============================================================================
