------------------------------- MODULE Queue -------------------------------
(***************************************************************************)
(* The delivery queue: the `message` and `delivery_attempt` tables         *)
(* (crates/postbud-db/src/message.rs) and the worker processes that drain  *)
(* them (crates/postbud-relay/src/worker.rs), up to the moment the relay   *)
(* answers a handoff (Relay::send, crates/postbud-relay/src/lib.rs).       *)
(*                                                                         *)
(* Every database transaction of the code is one action.  A worker's       *)
(* handling of one message is three steps - claim, hand over, record - and *)
(* anything may happen between them: another worker's step, the passage of *)
(* time, the death of the process, a recording that fails.                 *)
(*                                                                         *)
(* Time is kept as distances, so it needs no bound: `claimAge` is          *)
(* now() - claimed_at (it stops growing once the claim has expired) and    *)
(* `wait` is next_attempt_at - now(), 0 once the message is due.           *)
(***************************************************************************)
EXTENDS Naturals, Sequences, FiniteSets

CONSTANTS
  Msg,          \* message ids (message.id)
  Worker,       \* worker processes (WORKER_NAME)
  Nobody,       \* claimed_by is null
  Batch,        \* WORKER_BATCH, the most messages one claim takes
  ClaimTimeout, \* CLAIM_TIMEOUT_MINUTES, in ticks
  Schedule,     \* retry::SCHEDULE, in ticks
  Overrun,      \* may a worker hold a message past its claim's timeout?
  MaxFaults     \* bound: crashes, lost answers and failed recordings

ASSUME QueueAssumption ==
  /\ Nobody \notin Worker
  /\ Batch \in Nat \ {0}
  /\ ClaimTimeout \in Nat
  /\ Schedule \in Seq(Nat) /\ Schedule # << >>
  /\ Overrun \in BOOLEAN
  /\ MaxFaults \in Nat

VARIABLES
  row,      \* [Msg -> Row], the queue-state columns of `message`
  log,      \* [Msg -> Seq(Attempt)], the rows of `delivery_attempt`
  flight,   \* [Worker -> [Msg -> Flight]], the batch a worker is delivering
  handed,   \* [Msg -> Nat], copies the relay has taken
  unacked,  \* [Msg -> Nat], copies whose acceptance never reached the table
  faults    \* faults so far, at most MaxFaults

vars == <<row, log, flight, handed, unacked, faults>>

-----------------------------------------------------------------------------
(* Data.                                                                   *)

Status  == {"absent", "queued", "sent", "failed", "suppressed"}
Outcome == {"accepted", "transient", "permanent"}

\* queueId is the relay's queue id: the number of the copy it names, or 0
\* for null.  `completed` is completed_at, `body` whether the body columns
\* still hold the content.  last_error is wording and is left out.
Row == [status : Status, attempts : Nat, wait : Nat,
        claimedBy : Worker \cup {Nobody}, claimAge : Nat,
        queueId : Nat, completed : BOOLEAN, body : BOOLEAN]

Absent == [status |-> "absent", attempts |-> 0, wait |-> 0,
           claimedBy |-> Nobody, claimAge |-> 0,
           queueId |-> 0, completed |-> FALSE, body |-> FALSE]

Attempt == [attempt : Nat, outcome : Outcome]

\* What a worker holds of one claimed message: the attempt number it will
\* write and, once the relay has answered, the outcome it will write.
Flight == [at : {"idle", "claimed", "answered"}, attempt : Nat,
           outcome : Outcome, queueId : Nat]

Idle == [at |-> "idle", attempt |-> 0, outcome |-> "transient", queueId |-> 0]

InFlight(w, m) == flight[w][m].at # "idle"

\* A relay acceptance a worker knows of and has not yet recorded.
Unrecorded(w, m) ==
  flight[w][m].at = "answered" /\ flight[w][m].outcome = "accepted"

\* retry::backoff: is there a next attempt after `made` attempts, and how
\* long until it?  The slice is indexed from 0, the sequence from 1.
HasBackoff(made) == made < Len(Schedule)
Backoff(made)    == Schedule[made + 1]

-----------------------------------------------------------------------------
(* Accepting.                                                              *)

NewRow(suppressed) ==
  [Absent EXCEPT !.status    = IF suppressed THEN "suppressed" ELSE "queued",
                 !.completed = suppressed,
                 !.body      = TRUE]

\* message::accept, past the suppression check and the idempotency key: the
\* row is inserted queued and due at once, or already finished.
Accept(m, suppressed) ==
  /\ row[m].status = "absent"
  /\ row' = [row EXCEPT ![m] = NewRow(suppressed)]
  /\ UNCHANGED <<log, flight, handed, unacked, faults>>

-----------------------------------------------------------------------------
(* Delivering.                                                             *)

\* Mutant: the claim expires one tick early (<= for <).
ClaimFree_OneTickEarly(m) ==
  row[m].claimedBy = Nobody \/ row[m].claimAge >= ClaimTimeout

\* Mutant: a claim never expires.
ClaimFree_Never(m) == row[m].claimedBy = Nobody

ClaimFree(m) ==
  \/ row[m].claimedBy = Nobody
  \/ row[m].claimAge > ClaimTimeout

\* Mutant: the status filter is dropped from the claim.
Due_AnyStatus(m) == row[m].status # "absent" /\ row[m].wait = 0 /\ ClaimFree(m)

Due(m) == row[m].status = "queued" /\ row[m].wait = 0 /\ ClaimFree(m)

\* message::claim, called by worker::run once the previous batch is drained.
\* Rows that another transaction has locked are skipped, so any non-empty
\* part of what is due may be what this worker gets.
Claim(w) ==
  /\ \A m \in Msg : ~InFlight(w, m)
  /\ \E S \in SUBSET {m \in Msg : Due(m)} :
       /\ S # {}
       /\ Cardinality(S) <= Batch
       /\ row' = [m \in Msg |->
                    IF m \in S
                    THEN [row[m] EXCEPT !.claimedBy = w, !.claimAge = 0]
                    ELSE row[m]]
       /\ flight' = [flight EXCEPT ![w] =
                       [m \in Msg |->
                          IF m \in S
                          THEN [Idle EXCEPT !.at = "claimed",
                                            !.attempt = row[m].attempts + 1]
                          ELSE Idle]]
  /\ UNCHANGED <<log, handed, unacked, faults>>

Answer(w, m, outcome, queueId) ==
  flight' = [flight EXCEPT ![w][m] = [@ EXCEPT !.at = "answered",
                                               !.outcome = outcome,
                                               !.queueId = queueId]]

\* Relay::send, the relay takes a copy and says so; its reply may be worded
\* so that no queue id can be read from it.
HandOver(w, m) ==
  /\ flight[w][m].at = "claimed"
  /\ handed' = [handed EXCEPT ![m] = @ + 1]
  /\ \E queueId \in {0, handed[m] + 1} : Answer(w, m, "accepted", queueId)
  /\ UNCHANGED <<row, log, unacked, faults>>

\* Relay::send, the relay refuses or cannot be reached (transient), or the
\* refusal is certain: a 5xx, or a message that cannot be built (permanent).
Refuse(w, m) ==
  /\ flight[w][m].at = "claimed"
  /\ \E outcome \in {"transient", "permanent"} : Answer(w, m, outcome, 0)
  /\ UNCHANGED <<row, log, handed, unacked, faults>>

\* Relay::send, the relay takes a copy and the connection breaks before its
\* answer arrives: not certainly permanent, so transient.
HandOverUnheard(w, m) ==
  /\ flight[w][m].at = "claimed"
  /\ faults < MaxFaults
  /\ faults' = faults + 1
  /\ handed' = [handed EXCEPT ![m] = @ + 1]
  /\ unacked' = [unacked EXCEPT ![m] = @ + 1]
  /\ Answer(w, m, "transient", 0)
  /\ UNCHANGED <<row, log>>

-----------------------------------------------------------------------------
(* Recording.  Each is one transaction: the row, by id alone, and the log. *)

Answered(w, m, outcome) ==
  flight[w][m].at = "answered" /\ flight[w][m].outcome = outcome

\* Mutant: the attempt counter is not written.
Released_NotCounted(w, m) ==
  [row[m] EXCEPT !.claimedBy = Nobody, !.claimAge = 0]

\* The row as every record_* leaves it, up to what is particular to each.
Released(w, m) ==
  [row[m] EXCEPT !.attempts  = flight[w][m].attempt,
                 !.claimedBy = Nobody,
                 !.claimAge  = 0]

\* The write itself: the row, the log line, and the worker is done with m.
Record(w, m, newRow, outcome) ==
  /\ row' = [row EXCEPT ![m] = newRow]
  /\ log' = [log EXCEPT ![m] =
               Append(@, [attempt |-> flight[w][m].attempt,
                          outcome |-> outcome])]
  /\ flight' = [flight EXCEPT ![w][m] = Idle]
  /\ UNCHANGED <<handed, unacked, faults>>

SentRow(w, m) ==
  [Released(w, m) EXCEPT !.status    = "sent",
                         !.queueId   = flight[w][m].queueId,
                         !.completed = TRUE]

RetryRow(w, m) ==
  [Released(w, m) EXCEPT !.wait = Backoff(flight[w][m].attempt)]

FailedRow(w, m) ==
  [Released(w, m) EXCEPT !.status = "failed", !.completed = TRUE]

\* message::record_accepted
RecordAccepted(w, m) ==
  /\ Answered(w, m, "accepted")
  /\ Record(w, m, SentRow(w, m), "accepted")

\* Mutant: the schedule is asked about the attempts before this one.
RecordTransient_OneMore(w, m) ==
  /\ Answered(w, m, "transient")
  /\ HasBackoff(flight[w][m].attempt - 1)
  /\ Record(w, m, [Released(w, m) EXCEPT !.wait = Backoff(flight[w][m].attempt - 1)],
            "transient")

\* message::record_transient; the status is left as it is.
RecordTransient(w, m) ==
  /\ Answered(w, m, "transient")
  /\ HasBackoff(flight[w][m].attempt)
  /\ Record(w, m, RetryRow(w, m), "transient")

\* Mutant: giving up is logged as one more transient answer.
RecordFailed_LogsTransient(w, m) ==
  /\ \/ Answered(w, m, "permanent")
     \/ Answered(w, m, "transient") /\ ~HasBackoff(flight[w][m].attempt)
  /\ Record(w, m, FailedRow(w, m), flight[w][m].outcome)

\* message::record_failed, for a permanent answer and for a schedule that
\* has run out; both are logged as permanent.
RecordFailed(w, m) ==
  /\ \/ Answered(w, m, "permanent")
     \/ Answered(w, m, "transient") /\ ~HasBackoff(flight[w][m].attempt)
  /\ Record(w, m, FailedRow(w, m), "permanent")

-----------------------------------------------------------------------------
(* Faults, time and retention.                                             *)

\* deliver_one returns an error or panics after the relay answered: nothing
\* is written and the claim is left to time out.
RecordingFails(w, m) ==
  /\ flight[w][m].at = "answered"
  /\ faults < MaxFaults
  /\ faults' = faults + 1
  /\ flight' = [flight EXCEPT ![w][m] = Idle]
  /\ unacked' = [unacked EXCEPT ![m] = IF Unrecorded(w, m) THEN @ + 1 ELSE @]
  /\ UNCHANGED <<row, log, handed>>

\* The process dies and is started again, with nothing in flight.  A claim
\* whose attachments cannot be loaded ends worker::run the same way.
Crash(w) ==
  /\ \E m \in Msg : InFlight(w, m)
  /\ faults < MaxFaults
  /\ faults' = faults + 1
  /\ flight' = [flight EXCEPT ![w] = [m \in Msg |-> Idle]]
  /\ unacked' = [m \in Msg |-> IF Unrecorded(w, m) THEN unacked[m] + 1
                                                   ELSE unacked[m]]
  /\ UNCHANGED <<row, log, handed>>

\* One tick of the database's clock.  Unless Overrun, a worker is done with
\* a message before its claim expires, which is what worker::run counts on.
Aged(r) ==
  [r EXCEPT !.wait     = IF @ > 0 THEN @ - 1 ELSE 0,
            !.claimAge = IF r.claimedBy # Nobody /\ @ <= ClaimTimeout
                         THEN @ + 1 ELSE @]

Tick ==
  /\ Overrun \/ \A w \in Worker, m \in Msg :
                  InFlight(w, m) => row[m].claimAge < ClaimTimeout
  /\ row' = [m \in Msg |-> Aged(row[m])]
  /\ UNCHANGED <<log, flight, handed, unacked, faults>>

\* Mutant: retention goes by age alone, not by completion.
Purgeable_AnyAge(m) == row[m].status # "absent" /\ row[m].body

\* message::purge_bodies: which completed messages are old enough is left
\* open, so any set of them may be.
Purgeable(m) == row[m].completed /\ row[m].body

Purge ==
  /\ \E S \in SUBSET {m \in Msg : Purgeable(m)} :
       /\ S # {}
       /\ row' = [m \in Msg |-> IF m \in S THEN [row[m] EXCEPT !.body = FALSE]
                                           ELSE row[m]]
  /\ UNCHANGED <<log, flight, handed, unacked, faults>>

-----------------------------------------------------------------------------
(* The specification.                                                      *)

Init ==
  /\ row     = [m \in Msg |-> Absent]
  /\ log     = [m \in Msg |-> << >>]
  /\ flight  = [w \in Worker |-> [m \in Msg |-> Idle]]
  /\ handed  = [m \in Msg |-> 0]
  /\ unacked = [m \in Msg |-> 0]
  /\ faults  = 0

Deliver(w, m) ==
  \/ HandOver(w, m)
  \/ Refuse(w, m)
  \/ HandOverUnheard(w, m)

Settle(w, m) ==
  \/ RecordAccepted(w, m)
  \/ RecordTransient(w, m)
  \/ RecordFailed(w, m)

WorkerStep(w) ==
  \/ Claim(w)
  \/ \E m \in Msg : Deliver(w, m) \/ Settle(w, m) \/ RecordingFails(w, m)
  \/ Crash(w)

Next ==
  \/ \E m \in Msg, suppressed \in BOOLEAN : Accept(m, suppressed)
  \/ \E w \in Worker : WorkerStep(w)
  \/ Tick
  \/ Purge

Spec == Init /\ [][Next]_vars

\* The clock runs and a live worker keeps working: it claims when something
\* is due, and every handoff is answered and recorded (the SMTP client has
\* timeouts).  Callers, the relay's verdicts and faults are not fair.
Fairness ==
  /\ WF_vars(Tick)
  /\ \A w \in Worker :
       /\ WF_vars(Claim(w))
       /\ \A m \in Msg : WF_vars(Deliver(w, m)) /\ WF_vars(Settle(w, m))

FairSpec == Spec /\ Fairness

-----------------------------------------------------------------------------
(* Properties.                                                             *)

TypeOK ==
  /\ row     \in [Msg -> Row]
  /\ log     \in [Msg -> Seq(Attempt)]
  /\ flight  \in [Worker -> [Msg -> Flight]]
  /\ handed  \in [Msg -> Nat]
  /\ unacked \in [Msg -> Nat]
  /\ faults  \in Nat

\* Workers take disjoint batches (docs/architecture.md section 5): no
\* message is in the hands of two workers at once, whatever the order of
\* claims, expiries and recordings.  Needs ~Overrun.
DisjointBatches ==
  \A m \in Msg : \A w1, w2 \in Worker :
    InFlight(w1, m) /\ InFlight(w2, m) => w1 = w2

\* Every copy the relay took beyond the first is paid for by an acceptance
\* that never reached the table (a crash, a failed recording, a lost
\* answer): without such a fault the queue hands a message over at most
\* once, through any number of retries and workers.  Needs ~Overrun.
NoDuplicateWithoutLoss ==
  \A m \in Msg : handed[m] <= unacked[m] + 1

\* The attempt counter and the insert-only log never disagree: a message
\* with n attempts has exactly the log lines 1..n, in that order, though
\* the number was read at the claim and written minutes later.  Needs
\* ~Overrun.
AttemptsMatchLog ==
  \A m \in Msg :
    /\ row[m].attempts = Len(log[m])
    /\ \A i \in DOMAIN log[m] : log[m][i].attempt = i

\* The schedule bounds the work, overrun or not: a message still queued has
\* a next attempt left, and no attempt beyond the schedule is ever logged.
AttemptsWithinSchedule ==
  \A m \in Msg :
    /\ row[m].status = "queued" => row[m].attempts < Len(Schedule)
    /\ \A i \in DOMAIN log[m] : log[m][i].attempt <= Len(Schedule)

\* A status is never without its evidence, overrun or not: `sent` rests on
\* an acceptance in the log and a copy at the relay, `failed` on a permanent
\* line, and `suppressed` on there being no attempt at all.
StatusHasEvidence ==
  \A m \in Msg :
    LET outcomes == {log[m][i].outcome : i \in DOMAIN log[m]}
    IN  CASE row[m].status = "sent"   -> "accepted" \in outcomes /\ handed[m] > 0
          [] row[m].status = "failed" -> "permanent" \in outcomes
          [] row[m].status = "queued" -> outcomes \subseteq {"transient"}
          [] OTHER -> outcomes = {} /\ handed[m] = 0

\* A message that may still be handed over has its content: retention,
\* which goes by completed_at, never reaches a row some claim can return.
RetryableHasBody ==
  \A m \in Msg : row[m].status = "queued" => row[m].body /\ ~row[m].completed

\* A finished message stays as it finished: no retry, late recording or
\* reclaimed batch ever moves it to another status.  Needs ~Overrun.
FinishedIsFinal ==
  [][\A m \in Msg : row[m].status \in {"sent", "failed", "suppressed"}
                      => row'[m].status = row[m].status]_row

\* What is left of FinishedIsFinal when a worker may overrun its claim: a
\* late recording may overwrite one verdict with another, but never puts a
\* finished message back in the queue.
NeverRequeued ==
  [][\A m \in Msg : row[m].status \in {"sent", "failed", "suppressed"}
                      => row'[m].status # "queued"]_row

\* Nothing is left in the queue for ever: every queued message ends up sent
\* or failed, through crashes, failed recordings and expired claims.
EveryMessageSettles ==
  \A m \in Msg : row[m].status = "queued" ~> row[m].status \in {"sent", "failed"}

-----------------------------------------------------------------------------
(* Refinement.                                                             *)

P == INSTANCE Promise WITH
       state  <- [m \in Msg |->
                    CASE row[m].status = "absent" -> "unknown"
                      [] row[m].status = "queued" -> "pending"
                      [] OTHER -> row[m].status],
       copies <- handed,
       lost   <- unacked

\* The queue keeps the promise of module Promise: claims, retries, expiries
\* and recordings all look like hand over, lose sight of, or conclude - one
\* known copy at most, and a verdict that is true and final.  Needs ~Overrun.
KeepsPromise == P!Spec

=============================================================================
