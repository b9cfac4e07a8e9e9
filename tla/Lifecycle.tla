----------------------------- MODULE Lifecycle -----------------------------
(***************************************************************************)
(* A message from its submission to the mailbox and back: the service of   *)
(* module Postbud - callers, suppression list, workers - handing copies to *)
(* the relay, and the reports of module RelayQueue about those copies      *)
(* coming back to the same two tables.                                     *)
(*                                                                         *)
(* What is joined here is what each of the two leaves open.  The relay's   *)
(* copies are those the workers make, and a message may have several; a    *)
(* report finds its message by the one queue id that was recorded          *)
(* (message.relay_queue_id); and a dead mailbox goes onto the list that    *)
(* the next submission asks.  A step of both is both modules' step; a      *)
(* step of one leaves the other alone.  The two clocks - minutes for the   *)
(* queue, seconds for the reports - advance on their own.                  *)
(***************************************************************************)
EXTENDS Postbud

CONSTANTS
  Post, Grace, MaxLag, Notification,  \* as in RelayQueue
  MaxCopies,       \* bound: copies the relay is given of one message
  MaxReportFaults  \* bound: lost reports and failed ingestions

VARIABLES
  after,         \* [Msg -> After], what follows a handoff in `message`
  relay, report, dsn, stored, suppressed, reportFaults,
                 \* as in RelayQueue, for each copy
  warned         \* history: what was checked against the list after the
                 \* mailbox had been reported dead, callers and messages

reportVars == <<after, relay, report, dsn, stored, suppressed, reportFaults>>
lifecycleVars == <<serviceVars, reportVars, warned>>

-----------------------------------------------------------------------------
(* Data.                                                                   *)

\* The k-th copy of a message; its queue id is k (Queue, Row.queueId).
Copy == Msg \X (1 .. MaxCopies)

\* The row of `message` a queue id leads to, as reconcile reads it; nothing
\* for a copy whose queue id was not recorded.
Named(k) == row[k[1]].queueId = k[2]

CopyRow ==
  [k \in Copy |->
     IF Named(k)
     THEN [sent |-> TRUE, known |-> TRUE,
           age |-> after[k[1]].age, state |-> after[k[1]].state]
     ELSE [sent |-> FALSE, known |-> FALSE, age |-> 0, state |-> "none"]]

R == INSTANCE RelayQueue WITH
       Msg <- Copy, row <- CopyRow, faults <- reportFaults,
       MaxFaults <- MaxReportFaults

ASSUME LifecycleAssumption ==
  /\ {Grace, MaxLag, MaxReportFaults, MaxCopies} \subseteq Nat
  /\ Notification \subseteq {R!Unreadable} \cup Seq(R!Kind)
  /\ Caller \cap Msg = {}

After == [age : 0 .. Grace + 1, state : {"none", "delivered"} \cup R!Held]

\* completed_at and relay_state of a message the relay has not accepted.
NothingAfter == [age |-> 0, state |-> "none"]

-----------------------------------------------------------------------------
(* The handoff: steps of the queue that the relay's side sees.             *)

\* Relay::send: the relay takes one more copy, heard of or not.
TakeCopy(w, m) ==
  /\ handed[m] < MaxCopies
  /\ HandOver(w, m) \/ HandOverUnheard(w, m)
  /\ UNCHANGED <<content, entry, call, answers, after, warned>>
  /\ R!HandOver(<<m, handed[m] + 1>>)

\* message::record_accepted sets completed_at and leaves relay_state alone.
RecordCopy(w, m) ==
  /\ RecordAccepted(w, m)
  /\ after' = [after EXCEPT ![m].age = 0]
  /\ UNCHANGED <<content, entry, call, answers, warned, relay, report, dsn,
                 stored, suppressed, reportFaults>>

\* The queue's other steps: nothing of them reaches the relay.
RestOfQueue ==
  /\ \/ \E w \in Worker :
          \/ Claim(w) \/ Crash(w)
          \/ \E m \in Msg : \/ Refuse(w, m) \/ RecordingFails(w, m)
                            \/ RecordTransient(w, m) \/ RecordFailed(w, m)
     \/ Tick
     \/ Purge
  /\ UNCHANGED <<content, entry, call, answers, reportVars, warned>>

-----------------------------------------------------------------------------
(* Submissions and the list.                                               *)

\* A notification that calls the address dead has been acknowledged to the
\* relay, and nobody has lifted an entry for the address since or before.
KnownDead(address) ==
  /\ \E k \in Copy : \E c \in R!Cause :
       /\ content[k[1]] # Unwritten /\ content[k[1]].rcpt = address
       /\ dsn[k][c].at = "handled"
       /\ \E i \in DOMAIN dsn[k][c].blocks : dsn[k][c].blocks[i] = "dead"
  /\ \A i \in DOMAIN entry : entry[i].address = address => entry[i].active

\* Postbud's Submit, with the history of what it could know.
SubmitKnowing(c, new) ==
  /\ Submit(c, new)
  /\ warned' = IF KnownDead(new.rcpt) THEN warned \cup {c} ELSE warned \ {c}
  /\ UNCHANGED reportVars

InsertKnowing(c, m) ==
  /\ Insert(c, m)
  /\ warned' = IF c \in warned THEN warned \cup {m} ELSE warned
  /\ UNCHANGED reportVars

RestOfService ==
  /\ \/ \E c \in Caller : Abort(c) \/ \E m \in Msg : Deduplicate(c, m)
     \/ \E tenant \in Tenant \cup {Everyone}, address \in Address :
          AddManually(tenant, address)
     \/ \E i \in DOMAIN entry : Remove(i)
  /\ UNCHANGED <<reportVars, warned>>

-----------------------------------------------------------------------------
(* What comes back.                                                        *)

\* The relay, its notifications and its reports on their way.
RestOfReports ==
  /\ UNCHANGED <<serviceVars, after, warned>>
  /\ \/ \E k \in Copy : R!Move(k) \/ R!Bounce(k) \/ R!Delay(k)
     \/ \E p \in Post : R!Take(p) \/ R!LoseReport(p)
     \/ \E k \in Copy, c \in R!Cause :
          R!Store(k, c) \/ R!Acknowledge(k, c) \/ R!Requeue(k, c)

\* Mutant: a message is looked for under the queue id of its first copy.
Reconciled_FirstCopy(p, m) ==
  CASE row[m].queueId = 0 -> after[m]
    [] row[m].queueId # 0 /\ report[p].lists[<<m, 1>>] \in R!Held ->
         [after[m] EXCEPT !.state = report[p].lists[<<m, 1>>]]
    [] /\ row[m].queueId # 0 /\ report[p].lists[<<m, 1>>] = "gone"
       /\ R!Concludes(<<m, row[m].queueId>>) ->
         [after[m] EXCEPT !.state = "delivered"]
    [] OTHER -> after[m]

\* relayqueue::reconcile on one message: the copy its queue id names is
\* listed, or is concluded to have left, or nothing is said of it.
Reconciled(p, m) ==
  LET k == <<m, row[m].queueId>>
  IN  CASE row[m].queueId = 0 -> after[m]
        [] row[m].queueId # 0 /\ report[p].lists[k] \in R!Held ->
             [after[m] EXCEPT !.state = report[p].lists[k]]
        [] row[m].queueId # 0 /\ report[p].lists[k] = "gone" /\ R!Concludes(k) ->
             [after[m] EXCEPT !.state = "delivered"]
        [] OTHER -> after[m]

Reconcile(p) ==
  /\ report[p].open
  /\ after' = [m \in Msg |-> Reconciled(p, m)]
  /\ report' = [report EXCEPT ![p] = R!NoReport]
  /\ UNCHANGED <<serviceVars, relay, dsn, stored, suppressed, reportFaults,
                 warned>>

\* Mutant: any active entry for the address will do, whoever's it is.
ListDeadMailbox_AnyEntry(address) ==
  IF \E i \in DOMAIN entry : entry[i].address = address /\ entry[i].active
  THEN UNCHANGED <<serviceVars>>
  ELSE Add(Everyone, address, "hard_bounce")

\* suppression::add for the whole installation.  On a conflict it does
\* nothing and succeeds: an entry somebody made by hand stands for it.
ListDeadMailbox(address) ==
  IF Listed(Everyone, address)
  THEN UNCHANGED serviceVars
  ELSE Add(Everyone, address, "hard_bounce")

SuppressMailbox(k, c) ==
  /\ R!AtBlock(k, c)
  /\ ListDeadMailbox(content[k[1]].rcpt)
  /\ UNCHANGED <<after, warned>>
  /\ R!Suppress(k, c)

\* One tick of the reports' clock.
ReportTick ==
  /\ \A p \in Post : report[p].open => report[p].age < MaxLag
  /\ after' = [m \in Msg |->
       IF row[m].queueId # 0 /\ after[m].age <= Grace
       THEN [after[m] EXCEPT !.age = @ + 1] ELSE after[m]]
  /\ report' = [p \in Post |->
       IF report[p].open THEN [report[p] EXCEPT !.age = @ + 1] ELSE report[p]]
  /\ UNCHANGED <<serviceVars, relay, dsn, stored, suppressed, reportFaults,
                 warned>>

-----------------------------------------------------------------------------
(* The specification.                                                      *)

LifecycleInit ==
  /\ ServiceInit
  /\ after  = [m \in Msg |-> NothingAfter]
  /\ relay  = [k \in Copy |-> "none"]
  /\ report = [p \in Post |-> R!NoReport]
  /\ dsn    = [k \in Copy |-> [c \in R!Cause |-> R!NoDsn]]
  /\ stored = {}
  /\ suppressed = {}
  /\ reportFaults = 0
  /\ warned = {}

LifecycleNext ==
  \/ \E w \in Worker, m \in Msg : TakeCopy(w, m) \/ RecordCopy(w, m)
  \/ RestOfQueue
  \/ \E c \in Caller : \/ \E new \in Content : SubmitKnowing(c, new)
                       \/ \E m \in Msg : InsertKnowing(c, m)
  \/ RestOfService
  \/ RestOfReports
  \/ \E p \in Post : Reconcile(p)
  \/ \E k \in Copy, c \in R!Cause : SuppressMailbox(k, c)
  \/ ReportTick

LifecycleSpec == LifecycleInit /\ [][LifecycleNext]_lifecycleVars

-----------------------------------------------------------------------------
(* Properties.                                                             *)

LifecycleTypeOK ==
  /\ TypeOK /\ ServiceTypeOK
  /\ after \in [Msg -> After]
  /\ R!TypeOK
  /\ warned \subseteq Caller \cup Msg

\* A mailbox reported dead gets no more mail from anyone: once the relay's
\* notification has been acknowledged, every submission that asks the list
\* after that - any tenant's, under any key, whatever entries tenants made
\* themselves - is suppressed for good and no copy of it reaches the relay,
\* until somebody lifts an entry for the address by hand.
NoMailToKnownDead ==
  \A m \in Msg : m \in warned => row[m].status = "suppressed" /\ handed[m] = 0

\* Behind real submissions, retries and duplicate copies the reports see
\* what module RelayQueue assumes of a single recorded handoff, so that all
\* it shows holds of every copy: no conclusion while the relay holds the
\* recorded copy, though another copy has left.  Needs ~Overrun.
ReportsUnderneath == R!Spec

\* The service, with the relay behind it, is still the service: a bounce
\* is only ever about a copy that was handed over.
ServiceUnderneath == ServiceSpec

=============================================================================
