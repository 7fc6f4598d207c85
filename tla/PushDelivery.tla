---------------------------- MODULE PushDelivery ----------------------------
(***************************************************************************)
(* The Pushgateway client (PushGateway of src/src/pushgateway.rs) under    *)
(* the delivery worker of src/src/metrics.rs, for several runs that push   *)
(* to one gateway.                                                         *)
(*                                                                         *)
(* A sample is its number; a group of the gateway holds the last one put   *)
(* there.  The client may give up on a request (timeout, broken            *)
(* connection, an error of a proxy) that the gateway still applies later,  *)
(* or never.  Bodies and delays are left out.                              *)
(***************************************************************************)
EXTENDS GroupingKey

CONSTANTS
  Sinks,       \* delivery workers, one per run
  Configs,     \* the configurations each may get
  MaxRetries,  \* PushGatewayConfig::MAX_RETRIES
  MaxSamples,  \* bound: samples a run produces
  MaxUnderWay  \* bound: requests under way at once; others are lost

ASSUME BoundsAssumption ==
  MaxRetries \in Nat /\ MaxSamples \in Nat /\ MaxUnderWay \in Nat

Deletion == MaxSamples + 1

AllConfigs == UNION Range(Configs)

(* The fields of PushGatewayConfig, whatever their contents. *)
ASSUME ConfigsAssumption ==
  /\ DOMAIN Configs = Sinks
  /\ \A c \in AllConfigs :
       /\ c.job \in Seq(Characters)
       /\ c.labels \in Seq(Seq(Characters) \X Seq(Characters))
       /\ c.retries \in Nat

(* The group that the url of PushGateway::new leads to. *)
GroupingUrl == [c \in AllConfigs |-> Routed(GroupingPath(c.job, c.labels))]

VARIABLES
  cfg,      \* configuration of each sink
  url,      \* the group its url leads to, {} for none
  pc,       \* "new", "idle", "request", "waiting", "sleeping", "panic",
            \* "rejected" (by new), "ended"
  op,       \* number of the sample being pushed, or Deletion
  attempt,  \* the loop variable of push_body and delete
  ended,    \* the run is over: the event channel is closed
  wire,     \* requests sent and not yet applied or lost
  groups,   \* the gateway: [key, sink, op] of each group
  acked,    \* the last operation that returned Ok (history)
  late      \* a request its client had given up on was applied (history)

client == <<cfg, url, ended, op>>
vars == <<client, pc, attempt, wire, groups, acked, late>>

Init ==
  /\ cfg \in {c \in [Sinks -> AllConfigs] : \A s \in Sinks : c[s] \in Configs[s]}
  /\ url = [s \in Sinks |-> {}]
  /\ pc = [s \in Sinks |-> "new"]
  /\ op = [s \in Sinks |-> 0]
  /\ attempt = [s \in Sinks |-> 0]
  /\ ended = [s \in Sinks |-> FALSE]
  /\ wire = {} /\ groups = {}
  /\ acked = [s \in Sinks |-> 0]
  /\ late = [s \in Sinks |-> FALSE]

Request(s) == [sink |-> s, op |-> op[s], attempt |-> attempt[s]]

Goto(s, from, to) == pc[s] = from /\ pc' = [pc EXCEPT ![s] = to]

-----------------------------------------------------------------------------
(* The gateway. *)

(* PUT replaces the whole group, DELETE removes it; a path without a group *)
(* changes nothing.                                                        *)
Applied(r) ==
  LET key == url[r.sink]
      others == {g \in groups : g.key # key}
  IN IF key = {} THEN groups
     ELSE IF r.op = Deletion THEN others
     ELSE others \cup {[key |-> key, sink |-> r.sink, op |-> r.op]}

(* A request nobody waits for any more arrives, or is lost. *)
ApplyLate ==
  \E r \in wire :
    /\ ~(pc[r.sink] = "waiting" /\ r = Request(r.sink))
    /\ \/ groups' = Applied(r) /\ late' = [late EXCEPT ![r.sink] = TRUE]
       \/ UNCHANGED <<groups, late>>
    /\ wire' = wire \ {r}
    /\ UNCHANGED <<client, pc, attempt, acked>>

-----------------------------------------------------------------------------
(* The client. *)

ValidJob(c) == c.job # <<>>
ValidTimeout(c) == c.timeout > 0
ValidRetries(c) == c.retries <= MaxRetries

Validated(c) == ValidJob(c) /\ ValidLabels(c.labels) /\ ValidTimeout(c) /\ ValidRetries(c)

(* PushGateway::new. *)
New(s) ==
  /\ IF Validated(cfg[s])
     THEN /\ Goto(s, "new", "idle")
          /\ url' = [url EXCEPT ![s] = GroupingUrl[cfg[s]]]
     ELSE Goto(s, "new", "rejected") /\ UNCHANGED url
  /\ UNCHANGED <<cfg, ended, op, attempt, wire, groups, acked, late>>

(* The run ends and drops the sender of the worker's events. *)
EndRun(s) ==
  /\ ~ended[s] /\ pc[s] \notin {"new", "rejected"}
  /\ ended' = [ended EXCEPT ![s] = TRUE]
  /\ UNCHANGED <<cfg, url, op, pc, attempt, wire, groups, acked, late>>

Begin(s, o) ==
  /\ Goto(s, "idle", "request")
  /\ op' = [op EXCEPT ![s] = o]
  /\ attempt' = [attempt EXCEPT ![s] = 0]
  /\ UNCHANGED <<cfg, url, ended, wire, groups, acked, late>>

(* An event: push, or push_window.  Interval samples may be skipped while  *)
(* the worker is busy.                                                     *)
TakeEvent(s) == \E o \in op[s] + 1..MaxSamples : Begin(s, o)

(* The channel is empty and closed: delete, if asked for. *)
EventsEnd(s) ==
  /\ ended[s]
  /\ \/ cfg[s].delete /\ op[s] # Deletion /\ Begin(s, Deletion)
     \/ /\ ~cfg[s].delete \/ op[s] = Deletion
        /\ Goto(s, "idle", "ended")
        /\ UNCHANGED <<client, attempt, wire, groups, acked, late>>

(* push_once, delete_once. *)
Send(s) ==
  /\ Goto(s, "request", "waiting")
  /\ wire' = wire \cup {Request(s)}
  /\ UNCHANGED <<client, attempt, groups, acked, late>>

(* The status is a success: the loop returns. *)
Succeeds(s) ==
  /\ Goto(s, "waiting", "idle")
  /\ groups' = Applied(Request(s))
  /\ acked' = [acked EXCEPT ![s] = op[s]]
  /\ wire' = wire \ {Request(s)}
  /\ UNCHANGED <<client, attempt, late>>

(* Mutant: the last attempt sleeps too and the loop runs out. *)
MutOneMore(s) == attempt[s] <= cfg[s].retries

MayRetry(s) == attempt[s] < cfg[s].retries

(* An error the loop may retry.  The error is returned, and logged, when   *)
(* there are no retries left.                                              *)
Retry(s) ==
  /\ Goto(s, "waiting", IF MayRetry(s) THEN "sleeping" ELSE "idle")
  /\ UNCHANGED <<client, attempt, groups, acked, late>>

GivenUp(s) ==
  wire' = IF Cardinality(wire) <= MaxUnderWay THEN wire ELSE wire \ {Request(s)}

(* send fails, which the timeout of the client sees to: the request may    *)
(* still be under way.                                                     *)
SendFails(s) == Retry(s) /\ GivenUp(s)

(* A 5xx or 429 status.  A proxy's 504 leaves the request under way.       *)
RetryableStatus(s) == Retry(s) /\ (GivenUp(s) \/ wire' = wire \ {Request(s)})

(* Mutant: the status of the response is not looked at. *)
MutNoStatusCheck(s) ==
  /\ Goto(s, "waiting", "idle")
  /\ acked' = [acked EXCEPT ![s] = op[s]]
  /\ wire' = wire \ {Request(s)}
  /\ UNCHANGED <<client, attempt, groups, late>>

(* Any other status: not applied, not retried. *)
RefusedStatus(s) ==
  /\ Goto(s, "waiting", "idle")
  /\ wire' = wire \ {Request(s)}
  /\ UNCHANGED <<client, attempt, groups, acked, late>>

(* The delay is over; past the last iteration is unreachable!(). *)
Sleep(s) ==
  /\ Goto(s, "sleeping", IF attempt[s] < cfg[s].retries THEN "request" ELSE "panic")
  /\ attempt' = [attempt EXCEPT ![s] = @ + 1]
  /\ UNCHANGED <<client, wire, groups, acked, late>>

-----------------------------------------------------------------------------
Answer(s) == Succeeds(s) \/ RetryableStatus(s) \/ RefusedStatus(s)

Worker(s) == EventsEnd(s) \/ Send(s) \/ SendFails(s) \/ Sleep(s)

Next ==
  \/ \E s \in Sinks : New(s) \/ Worker(s) \/ EndRun(s) \/ TakeEvent(s) \/ Answer(s)
  \/ ApplyLate

(* The worker and its timeouts go on; the gateway need not answer. *)
Spec == Init /\ [][Next]_vars /\ \A s \in Sinks : WF_vars(Worker(s))

-----------------------------------------------------------------------------
TypeOK ==
  /\ cfg \in [Sinks -> AllConfigs]
  /\ url \in [Sinks -> SUBSET (Seq(Characters) \X Seq(Characters))]
  /\ pc \in [Sinks -> {"new", "idle", "request", "waiting", "sleeping",
                       "panic", "rejected", "ended"}]
  /\ op \in [Sinks -> 0..Deletion]
  /\ attempt \in [Sinks -> Nat]
  /\ ended \in [Sinks -> BOOLEAN]
  /\ wire \subseteq [sink : Sinks, op : 1..Deletion, attempt : Nat]
  /\ acked \in [Sinks -> 0..Deletion]
  /\ late \in [Sinks -> BOOLEAN]

(* The labels an application or operator asked for. *)
Asked(s) == {<<<<"j", "o", "b">>, cfg[s].job>>} \cup Range(cfg[s].labels)

(* Every request of a sink that was accepted reaches the group of exactly  *)
(* its job and labels, so that runs with other labels are neither          *)
(* overwritten nor deleted (src/src/pushgateway.rs:340-341).               *)
OwnGroupOnly ==
  /\ \A g \in groups : g.key = Asked(g.sink)
  /\ \A r \in wire : url[r.sink] = Asked(r.sink)

(* Sinks that write the same group. *)
Shared(s) == \E t \in Sinks \ {s} : Asked(t) = Asked(s)

(* Unless a request was applied after its client had given up on it, the   *)
(* group holds the last sample that was acknowledged, and nothing after an *)
(* acknowledged deletion, whatever was retried.                            *)
FreshUnlessLate ==
  \A s \in Sinks : ~late[s] /\ ~Shared(s) =>
    {g.op : g \in {h \in groups : h.sink = s}} = {acked[s]} \ {0, Deletion}

(* "A stuck gateway should not hold the iperf process indefinitely"        *)
(* (src/src/pushgateway.rs:353): once the run is over its worker ends, and *)
(* never through the unreachable!() below its loops.                       *)
DeliveryEnds == \A s \in Sinks : ended[s] ~> pc[s] = "ended"
=============================================================================
