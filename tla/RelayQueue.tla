----------------------------- MODULE RelayQueue -----------------------------
(***************************************************************************)
(* What becomes of a message after the relay has taken it, as far as       *)
(* postbud can tell.  Two reports come back, each on its own path:         *)
(*                                                                         *)
(*  - snapshots of the relay's queue, read by the reporter                 *)
(*    (crates/postbud-relay/src/queuereport.rs) and applied by             *)
(*    relayqueue::reconcile (crates/postbud-db/src/relayqueue.rs);         *)
(*  - delivery status notifications, piped in by the relay and applied by  *)
(*    bounce::ingest (crates/postbud-db/src/bounce.rs).                    *)
(*                                                                         *)
(* Neither waits for the other, for the worker that records the handoff,   *)
(* or for the relay, which keeps moving.  The relay itself is external:    *)
(* a listing of its queue is taken to be complete and of one instant.      *)
(***************************************************************************)
EXTENDS Naturals, Sequences, FiniteSets

CONSTANTS
  Msg,         \* messages, each with the one copy the relay took of it
  Post,        \* queue reports that may be on their way at once
  Grace,       \* GRACE_SECS, in ticks
  MaxLag,      \* the longest a queue report is on its way, in ticks
  Notification, \* what a bounce notification may say, recipient by recipient
  MaxFaults    \* bound: lost queue reports and failed ingestions


VARIABLES
  relay,       \* [Msg -> Where], the truth: what the relay did with the copy
  row,         \* [Msg -> Row], the columns of `message` that follow it
  report,      \* [Post -> Report], queue reports on their way
  dsn,         \* [Msg -> [Cause -> Dsn]], notifications on their way
  stored,      \* {BounceReport}, the table bounce_report
  suppressed,  \* {[msg, rcpt]}, recipients put on the suppression list
  faults       \* faults so far, at most MaxFaults

vars == <<relay, row, report, dsn, stored, suppressed, faults>>

-----------------------------------------------------------------------------
(* Data.                                                                   *)

Held  == {"active", "deferred"}
Where == {"none", "delivered", "bounced"} \cup Held

\* `sent` is status = 'sent', `known` whether relay_queue_id was captured,
\* `age` now() - completed_at, which stops growing past the grace, and
\* `state` relay_state.  relay_state_detail is wording.
Row == [sent : BOOLEAN, known : BOOLEAN, age : 0 .. Grace + 1,
        state : {"none", "delivered"} \cup Held]

\* A report is on its way, with what it lists and the time since the
\* listing was made; a message it does not list is "gone".
NoReport == [open |-> FALSE]

Report == {NoReport} \cup
          [open : {TRUE}, lists : [Msg -> Held \cup {"gone"}], age : 0 .. MaxLag]

\* What dsn::parse makes of one recipient's block (should_suppress):
\* "dead" is a permanent failure that says the mailbox is the problem,
\* "policy" a permanent one that does not, "transient" the rest.
Kind == {"dead", "policy", "transient"}

\* A notification dsn::parse finds no block in.
Unreadable == <<"unreadable">>

ASSUME RelayQueueAssumption ==
  /\ {Grace, MaxLag, MaxFaults} \subseteq Nat
  /\ Notification \subseteq {Unreadable} \cup Seq(Kind)

\* The two reasons a relay has to write one.
Cause == {"bounce", "delay"}

\* `next` is the block the ingestion is at, `half` whether it has stored
\* that one and has yet to suppress its recipient.
NoDsn == [at |-> "none", blocks |-> << >>, next |-> 1, half |-> FALSE]

Blocks == Notification \cup {<<"transient">>, << >>}

Dsn == [at : {"none", "queued", "handled"}, blocks : Blocks,
        next : Nat \ {0}, half : BOOLEAN]

\* A row of bounce_report; relay_queue_id is null when the kind is
\* "unreadable", and message_id is null unless `matched`.
BounceReport == [msg : Msg, rcpt : Nat \ {0},
                 kind : Kind \cup {"unreadable"}, matched : BOOLEAN]

\* The `exists` of reconcile: some stored report names the queue id.
Reported(m) == \E b \in stored : b.msg = m /\ b.kind # "unreadable"

-----------------------------------------------------------------------------
(* The relay (external) and the worker.                                    *)

HandOver(m) ==
  /\ relay[m] = "none"
  /\ relay' = [relay EXCEPT ![m] = "active"]
  /\ UNCHANGED <<row, report, dsn, stored, suppressed, faults>>

\* Postfix tries again, gives the copy another rest, or is rid of it.
Move(m) ==
  /\ \/ relay[m] = "active"   /\ \E to \in {"deferred", "delivered"} :
                                   relay' = [relay EXCEPT ![m] = to]
     \/ relay[m] = "deferred" /\ relay' = [relay EXCEPT ![m] = "active"]
  /\ UNCHANGED <<row, report, dsn, stored, suppressed, faults>>

Send(m, cause, blocks) ==
  dsn' = [dsn EXCEPT ![m][cause] =
            [at |-> "queued", blocks |-> blocks, next |-> 1, half |-> FALSE]]

\* Postfix gives the copy up and writes a notification.
Bounce(m) ==
  /\ relay[m] \in Held
  /\ relay' = [relay EXCEPT ![m] = "bounced"]
  /\ \E blocks \in Notification : Send(m, "bounce", blocks)
  /\ UNCHANGED <<row, report, stored, suppressed, faults>>

\* Postfix writes that the copy is delayed, and keeps trying.
Delay(m) ==
  /\ relay[m] = "deferred"
  /\ dsn[m]["delay"].at = "none"
  /\ Send(m, "delay", <<"transient">>)
  /\ UNCHANGED <<relay, row, report, stored, suppressed, faults>>

\* message::record_accepted, some time after the handoff.
Record(m, known) ==
  /\ relay[m] # "none" /\ ~row[m].sent
  /\ row' = [row EXCEPT ![m] = [@ EXCEPT !.sent = TRUE, !.known = known]]
  /\ UNCHANGED <<relay, report, dsn, stored, suppressed, faults>>

-----------------------------------------------------------------------------
(* Queue reports.                                                          *)

\* read_showq and the POST that follows; a read that fails posts nothing.
Take(p) ==
  /\ ~report[p].open
  /\ report' = [report EXCEPT ![p] =
                  [open  |-> TRUE, age |-> 0,
                   lists |-> [m \in Msg |->
                     IF relay[m] \in Held THEN relay[m] ELSE "gone"]]]
  /\ UNCHANGED <<relay, row, dsn, stored, suppressed, faults>>

\* Mutant: the grace is not subtracted.
Concludes_NoGrace(m) ==
  /\ row[m].known /\ row[m].sent /\ row[m].state # "delivered"
  /\ ~Reported(m)

\* Mutant: only a message already seen in the queue is concluded.
Concludes_OnlySeen(m) ==
  /\ row[m].known /\ row[m].sent /\ row[m].state \in Held
  /\ row[m].age > Grace
  /\ ~Reported(m)

\* reconcile's second update, for a message the report does not list.
Concludes(m) ==
  /\ row[m].known /\ row[m].sent /\ row[m].state # "delivered"
  /\ row[m].age > Grace
  /\ ~Reported(m)

\* relayqueue::reconcile, one transaction: what is listed is held, what is
\* not is concluded to be delivered, when that is safe to say.
Reconcile(p) ==
  /\ report[p].open
  /\ row' = [m \in Msg |->
       CASE report[p].lists[m] \in Held /\ row[m].known ->
              [row[m] EXCEPT !.state = report[p].lists[m]]
         [] report[p].lists[m] = "gone" /\ Concludes(m) ->
              [row[m] EXCEPT !.state = "delivered"]
         [] OTHER -> row[m]]
  /\ report' = [report EXCEPT ![p] = NoReport]
  /\ UNCHANGED <<relay, dsn, stored, suppressed, faults>>

\* The POST fails, or the transaction does; it is not repeated.
LoseReport(p) ==
  /\ report[p].open
  /\ faults < MaxFaults
  /\ faults' = faults + 1
  /\ report' = [report EXCEPT ![p] = NoReport]
  /\ UNCHANGED <<relay, row, dsn, stored, suppressed>>

-----------------------------------------------------------------------------
(* Notifications: bounce::ingest, a statement at a time, each committed on *)
(* its own.                                                                *)

Block(m, c) == dsn[m][c].blocks[dsn[m][c].next]

AtBlock(m, c) ==
  dsn[m][c].at = "queued" /\ dsn[m][c].next <= Len(dsn[m][c].blocks)

Ingestion(m, c, next, half) ==
  dsn' = [dsn EXCEPT ![m][c] = [@ EXCEPT !.next = next, !.half = half]]

\* Mutant: a recipient is suppressed whatever the permanent failure says.
ShouldSuppress_AnyPermanent(kind) == kind \in {"dead", "policy"}

\* Mutant: a dead mailbox is left alone.
ShouldSuppress_Never(kind) == FALSE

\* dsn::should_suppress
ShouldSuppress(kind) == kind = "dead"

\* The block is stored, matched to its message if that is recorded by now.
\* Stored again after a failure, it is one more row of the same content.
Store(m, c) ==
  /\ AtBlock(m, c) /\ ~dsn[m][c].half
  /\ stored' = stored \cup
       {[msg |-> m, rcpt |-> dsn[m][c].next, kind |-> Block(m, c),
         matched |-> row[m].known /\ Block(m, c) # "unreadable"]}
  /\ IF ShouldSuppress(Block(m, c))
     THEN Ingestion(m, c, dsn[m][c].next, TRUE)
     ELSE Ingestion(m, c, dsn[m][c].next + 1, FALSE)
  /\ UNCHANGED <<relay, row, report, suppressed, faults>>

\* suppression::add, on the global list.
Suppress(m, c) ==
  /\ AtBlock(m, c) /\ dsn[m][c].half
  /\ suppressed' = suppressed \cup {[msg |-> m, rcpt |-> dsn[m][c].next]}
  /\ Ingestion(m, c, dsn[m][c].next + 1, FALSE)
  /\ UNCHANGED <<relay, row, report, stored, faults>>

\* Every block is done: the relay is told, and forgets the notification.
Acknowledge(m, c) ==
  /\ dsn[m][c].at = "queued" /\ dsn[m][c].next > Len(dsn[m][c].blocks)
  /\ dsn' = [dsn EXCEPT ![m][c].at = "handled"]
  /\ UNCHANGED <<relay, row, report, stored, suppressed, faults>>

\* Mutant: the relay takes a failed ingestion for done.
Requeue_Forgets(m, c) ==
  /\ dsn[m][c].at = "queued"
  /\ faults < MaxFaults
  /\ faults' = faults + 1
  /\ dsn' = [dsn EXCEPT ![m][c].at = "handled"]
  /\ UNCHANGED <<relay, row, report, stored, suppressed>>

\* A statement fails, the process dies or the answer is lost, anywhere in
\* the ingestion: postbud-bounce exits 75, and the relay starts it over.
Requeue(m, c) ==
  /\ dsn[m][c].at = "queued"
  /\ faults < MaxFaults
  /\ faults' = faults + 1
  /\ Ingestion(m, c, 1, FALSE)
  /\ UNCHANGED <<relay, row, report, stored, suppressed>>

-----------------------------------------------------------------------------
(* Time.                                                                   *)

Aged(r) == IF r.sent /\ r.age <= Grace THEN [r EXCEPT !.age = @ + 1] ELSE r

\* One tick.  No report is on its way for longer than MaxLag.
Tick ==
  /\ \A p \in Post : report[p].open => report[p].age < MaxLag
  /\ row' = [m \in Msg |-> Aged(row[m])]
  /\ report' = [p \in Post |->
       IF report[p].open THEN [report[p] EXCEPT !.age = @ + 1] ELSE report[p]]
  /\ UNCHANGED <<relay, dsn, stored, suppressed, faults>>

-----------------------------------------------------------------------------
(* The specification.                                                      *)

Init ==
  /\ relay  = [m \in Msg |-> "none"]
  /\ row    = [m \in Msg |-> [sent |-> FALSE, known |-> FALSE,
                              age |-> 0, state |-> "none"]]
  /\ report = [p \in Post |-> NoReport]
  /\ dsn    = [m \in Msg |-> [c \in Cause |-> NoDsn]]
  /\ stored = {}
  /\ suppressed = {}
  /\ faults = 0

Ingest(m, c) == Store(m, c) \/ Suppress(m, c) \/ Acknowledge(m, c)

Next ==
  \/ \E m \in Msg : HandOver(m) \/ Move(m) \/ Bounce(m) \/ Delay(m)
  \/ \E m \in Msg, known \in BOOLEAN : Record(m, known)
  \/ \E p \in Post : Take(p) \/ Reconcile(p) \/ LoseReport(p)
  \/ \E m \in Msg, c \in Cause : Ingest(m, c) \/ Requeue(m, c)
  \/ Tick

Spec == Init /\ [][Next]_vars

\* The reporter loops, every report arrives or is lost, the relay delivers
\* its notifications until they are acknowledged, and the clock runs.  The
\* relay's way with the message itself, and the recording of the handoff,
\* are not fair.
Fairness ==
  /\ WF_vars(Tick)
  /\ \A p \in Post : WF_vars(Take(p)) /\ WF_vars(Reconcile(p))
  /\ \A m \in Msg, c \in Cause : WF_vars(Ingest(m, c))

FairSpec == Spec /\ Fairness

-----------------------------------------------------------------------------
(* Properties.                                                             *)

TypeOK ==
  /\ relay  \in [Msg -> Where]
  /\ row    \in [Msg -> Row]
  /\ report \in [Post -> Report]
  /\ dsn    \in [Msg -> [Cause -> Dsn]]
  /\ stored \subseteq BounceReport
  /\ suppressed \subseteq [msg : Msg, rcpt : Nat \ {0}]
  /\ faults \in 0 .. MaxFaults

\* A message is never called delivered while the relay still holds it,
\* although a listing made before the handoff does not show it and reports
\* may overtake each other.  Needs MaxLag <= Grace.
ConcludedHasLeft ==
  \A m \in Msg : row[m].state = "delivered" => relay[m] \in {"delivered", "bounced"}

\* Nobody is suppressed without a stored report that says the mailbox is
\* dead, wherever the ingestion failed and however often it was repeated.
SuppressedOnEvidence ==
  \A s \in suppressed :
    \E b \in stored : b.msg = s.msg /\ b.rcpt = s.rcpt /\ b.kind = "dead"

\* The relay only forgets a notification once all of it is in the database:
\* every recipient's report, and the suppression of every dead mailbox.
AcknowledgedIsPersisted ==
  \A m \in Msg, c \in Cause : dsn[m][c].at = "handled" =>
    \A i \in DOMAIN dsn[m][c].blocks :
      /\ \E b \in stored : b.msg = m /\ b.rcpt = i /\ b.kind = dsn[m][c].blocks[i]
      /\ dsn[m][c].blocks[i] = "dead" => [msg |-> m, rcpt |-> i] \in suppressed

\* A message the relay has delivered, and whose queue id is known, is in
\* the end called delivered for good, though a report that overtook another
\* may call it held again for a while - unless a notification names it.
DeliveryIsConcluded ==
  \A m \in Msg : relay[m] = "delivered" /\ row[m].known
                   ~> [](row[m].state = "delivered" \/ Reported(m))

\* A mailbox a notification reports dead ends up suppressed, through failed
\* and repeated ingestions.
DeadMailboxIsSuppressed ==
  \A m \in Msg : \A i \in UNION {DOMAIN blocks : blocks \in Notification} :
    (\E c \in Cause : i \in DOMAIN dsn[m][c].blocks /\ dsn[m][c].blocks[i] = "dead")
      ~> [msg |-> m, rcpt |-> i] \in suppressed

\* relayqueue.rs, module comment: "`bounce_report` is checked so a hard
\* failure is never relabelled as a success."  It is checked once, when the
\* report is applied; the notification may arrive after that.
FailureNeverDelivered ==
  \A m \in Msg : relay[m] = "bounced" => row[m].state # "delivered"

=============================================================================
