--------------------------- MODULE MCMetricsSinks ---------------------------
(* Four samples in two contexts, for every combination of sinks.          *)
EXTENDS MetricsSinks

CONSTANTS c1, c2

MCContexts == {c1, c2}
=============================================================================
