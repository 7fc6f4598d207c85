--------------------------- MODULE MCMetricsStream ---------------------------
(* Four samples in two contexts: a window can close by context, by time    *)
(* and by the end of the run, and can hold more than one sample.           *)
EXTENDS MetricsStream

CONSTANTS c1, c2

MCContexts == {c1, c2}
=============================================================================
