----------------------------- MODULE SampleFeed -----------------------------
(***************************************************************************)
(* What a metrics channel of src/src/metrics.rs promises, without saying   *)
(* how: the libiperf callback publishes numbered samples and never waits,  *)
(* the worker that reads them sees an increasing subsequence.  An "All"    *)
(* feed keeps every sample; a "Latest" feed may forget a sample, but only  *)
(* because a newer one took its place.  Once the publisher has closed the  *)
(* feed, a reader that keeps reading gets what is pending and then the end.*)
(***************************************************************************)
EXTENDS Naturals, Sequences

CONSTANT MaxItems   \* bound: the number of samples published

VARIABLES
  kind,      \* "All" or "Latest", fixed when the feed is created
  open,      \* the publisher still holds its end
  reader,    \* "live", "ended" (it saw the end) or "dropped" (it left early)
  newest,    \* the number of samples published, and the newest one's number
  pending,   \* published samples the reader can still get
  seen       \* samples the reader got, in order

vars == <<kind, open, reader, newest, pending, seen>>

Init ==
  /\ kind \in {"Latest", "All"}
  /\ open = TRUE
  /\ reader = "live"
  /\ newest = 0
  /\ pending = <<>>
  /\ seen = <<>>

Publish ==
  /\ open /\ newest < MaxItems
  /\ newest' = newest + 1
  /\ pending' = CASE reader = "dropped" -> pending
                  [] kind = "Latest"    -> <<newest + 1>>
                  [] OTHER              -> Append(pending, newest + 1)
  /\ UNCHANGED <<kind, open, reader, seen>>

Close ==
  /\ open
  /\ open' = FALSE
  /\ UNCHANGED <<kind, reader, newest, pending, seen>>

Take ==
  /\ reader = "live" /\ pending # <<>>
  /\ seen' = Append(seen, Head(pending))
  /\ pending' = Tail(pending)
  /\ UNCHANGED <<kind, open, reader, newest>>

Finish ==
  /\ reader = "live" /\ ~open /\ pending = <<>>
  /\ reader' = "ended"
  /\ UNCHANGED <<kind, open, newest, pending, seen>>

Leave ==
  /\ reader = "live" /\ kind = "All"
  /\ reader' = "dropped"
  /\ pending' = <<>>
  /\ UNCHANGED <<kind, open, newest, seen>>

Next == Publish \/ Close \/ Take \/ Finish \/ Leave

Spec == Init /\ [][Next]_vars /\ WF_vars(Take) /\ WF_vars(Finish)
=============================================================================
