---------------------------- MODULE MCCliRuntime ----------------------------
(* The command line tool between prepare and cleanup: one process and its  *)
(* signals, the three of them and two deliveries, of two signals or twice  *)
(* of one; or several processes and their pidfile.                         *)
EXTENDS CliRuntime, MCPidfile

CONSTANTS d1, d2

MCDeliveries == {d1, d2}

VARIABLE part   \* what a behaviour is about

MCInit ==
  /\ Init /\ PidfileInit
  /\ \/ part = "signals" /\ path = None
     \/ part = "pidfile" /\ before = [s \in Signals |-> "default"]

MCNext ==
  \/ part = "signals" /\ Next /\ UNCHANGED <<pidfileVars, part>>
  \/ part = "pidfile" /\ PidfileNext /\ UNCHANGED <<vars, part>>

MCSpec ==
  /\ MCInit /\ [][MCNext]_<<vars, pidfileVars, part>>
  /\ part = "signals" => Fairness
=============================================================================
