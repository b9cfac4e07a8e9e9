---------------------------- MODULE MCLifecycle ----------------------------
(* Model values for Lifecycle.                                             *)
EXTENDS Lifecycle, TLC

CONSTANTS m1, m2, t1, t2

MCSchedule1 == <<1>>

MCNotification == {<<"dead">>}

MCSymmetry == Permutations(Msg) \cup Permutations(Tenant)

\* What the runs of the parts check already is left out: no delay is
\* reported, no body purged, no caller hears its answer.
Joint ==
  /\ \A k \in Copy : dsn[k]["delay"].at = "none"
  /\ \A m \in Msg : Written(m) => row[m].body
  /\ answers = {}

\* One submission, its copies and all that comes back of them, and one
\* fault on the way out or back.
Copies ==
  /\ faults + reportFaults <= 1
  /\ Cardinality({m \in Msg : Written(m)} \cup {c \in Caller : call[c].open}) <= 1
  /\ \A i \in DOMAIN entry : entry[i].reason = "hard_bounce"

\* Two messages and the list between them, without retries, faults and
\* queue reports.
List ==
  /\ faults = 0 /\ reportFaults = 0
  /\ \A m \in Msg : log[m] = << >> \/ row[m].status = "sent"
  /\ \A p \in Post : ~report[p].open
  /\ \A m \in Msg : after[m] = NothingAfter

MCBound == Joint /\ (Copies \/ List)
=============================================================================
