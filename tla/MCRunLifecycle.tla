--------------------------- MODULE MCRunLifecycle ---------------------------
(* Two runs of any kind and two addresses, so that a freed address can be  *)
(* reused or not.                                                          *)
EXTENDS RunLifecycle

CONSTANTS r1, r2, a1, a2

MCRuns == {r1, r2}
MCAddrs == {a1, a2}
=============================================================================
