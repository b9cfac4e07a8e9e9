---------------------------- MODULE QueueProofs ----------------------------
(***************************************************************************)
(* Theorems about module Queue, for every set of messages and workers,     *)
(* every batch size, claim timeout and schedule, any number of faults.     *)
(***************************************************************************)
EXTENDS Queue, TLAPS

-----------------------------------------------------------------------------
(* Type correctness.                                                       *)

\* The records a step builds are of their types.
LEMMA IdleType == Idle \in Flight /\ ~(Idle.at # "idle")
  BY DEF Idle, Flight, Outcome

LEMMA NewRowType == \A suppressed \in BOOLEAN : NewRow(suppressed) \in Row
  BY DEF NewRow, Absent, Row, Status

LEMMA ReleasedType ==
  ASSUME TypeOK, NEW w \in Worker, NEW m \in Msg
  PROVE  Released(w, m) \in Row
  BY ZenonT(30) DEF TypeOK, Released, Row, Flight

LEMMA BackoffType ==
  ASSUME NEW made \in Nat, HasBackoff(made)
  PROVE  Backoff(made) \in Nat
  BY QueueAssumption DEF HasBackoff, Backoff

LEMMA AgedType == \A r \in Row : Aged(r) \in Row
<1> SUFFICES ASSUME NEW r \in Row PROVE Aged(r) \in Row
  OBVIOUS
<1> DEFINE wait == IF r.wait > 0 THEN r.wait - 1 ELSE 0
           age  == IF r.claimedBy # Nobody /\ r.claimAge <= ClaimTimeout
                   THEN r.claimAge + 1 ELSE r.claimAge
<1>1. r.wait \in Nat /\ r.claimAge \in Nat
  BY DEF Row
<1>2. wait \in Nat /\ age \in Nat
  BY <1>1
<1>3. Aged(r) = [r EXCEPT !.wait = wait, !.claimAge = age]
  BY DEF Aged
<1> HIDE DEF wait, age
<1>4. QED
  BY <1>2, <1>3 DEF Row

LEMMA RecordType ==
  ASSUME TypeOK, NEW w \in Worker, NEW m \in Msg,
         NEW newRow \in Row, NEW outcome \in Outcome,
         Record(w, m, newRow, outcome)
  PROVE  TypeOK'
<1>1. [attempt |-> flight[w][m].attempt, outcome |-> outcome] \in Attempt
  BY DEF TypeOK, Flight, Attempt
<1>2. log' \in [Msg -> Seq(Attempt)]
  BY <1>1 DEF Record, TypeOK
<1>3. row' \in [Msg -> Row]
  BY DEF Record, TypeOK
<1>4. flight' \in [Worker -> [Msg -> Flight]]
  BY IdleType DEF Record, TypeOK
<1>5. QED
  BY <1>2, <1>3, <1>4 DEF Record, TypeOK

LEMMA TypeStep == TypeOK /\ [Next]_vars => TypeOK'
<1> SUFFICES ASSUME TypeOK, [Next]_vars PROVE TypeOK'
  OBVIOUS
<1>1. ASSUME NEW m \in Msg, NEW suppressed \in BOOLEAN, Accept(m, suppressed)
      PROVE  TypeOK'
  BY <1>1, NewRowType DEF Accept, TypeOK
<1>2. ASSUME NEW w \in Worker, Claim(w)
      PROVE  TypeOK'
  <2>1. PICK S \in SUBSET {m \in Msg : Due(m)} :
          /\ row' = [m \in Msg |->
                       IF m \in S
                       THEN [row[m] EXCEPT !.claimedBy = w, !.claimAge = 0]
                       ELSE row[m]]
          /\ flight' = [flight EXCEPT ![w] =
                          [m \in Msg |->
                             IF m \in S
                             THEN [Idle EXCEPT !.at = "claimed",
                                               !.attempt = row[m].attempts + 1]
                             ELSE Idle]]
    BY <1>2 DEF Claim
  <2>2. row' \in [Msg -> Row]
    BY <2>1, ZenonT(30) DEF TypeOK, Row
  <2>3. \A m \in Msg : [Idle EXCEPT !.at = "claimed",
                                    !.attempt = row[m].attempts + 1] \in Flight
    <3>1. \A m \in Msg : row[m].attempts + 1 \in Nat
      BY DEF TypeOK, Row
    <3>2. QED
      BY <3>1 DEF Idle, Flight, Outcome
  <2>4. flight' \in [Worker -> [Msg -> Flight]]
    BY <2>1, <2>3, IdleType DEF TypeOK
  <2>5. QED
    BY <1>2, <2>2, <2>4 DEF Claim, TypeOK
<1>3. ASSUME NEW w \in Worker, NEW m \in Msg, Deliver(w, m)
      PROVE  TypeOK'
  <2>1. ASSUME NEW outcome \in Outcome, NEW queueId \in Nat,
               Answer(w, m, outcome, queueId)
        PROVE  flight' \in [Worker -> [Msg -> Flight]]
    <3>1. flight[w][m] \in Flight
      BY DEF TypeOK
    <3>2. [flight[w][m] EXCEPT !.at = "answered", !.outcome = outcome,
                               !.queueId = queueId] \in Flight
      BY <3>1 DEF Flight
    <3>3. QED
      BY <2>1, <3>2 DEF Answer, TypeOK
  <2>2. CASE HandOver(w, m)
    <3>1. handed' \in [Msg -> Nat]
      BY <2>2 DEF HandOver, TypeOK
    <3>2. PICK queueId \in {0, handed[m] + 1} : Answer(w, m, "accepted", queueId)
      BY <2>2 DEF HandOver
    <3>3. queueId \in Nat
      BY <3>2 DEF TypeOK
    <3>4. QED
      BY <2>1, <2>2, <3>1, <3>2, <3>3 DEF HandOver, TypeOK, Outcome
  <2>3. CASE Refuse(w, m)
    <3>1. PICK outcome \in {"transient", "permanent"} : Answer(w, m, outcome, 0)
      BY <2>3 DEF Refuse
    <3>2. QED
      BY <2>1, <2>3, <3>1 DEF Refuse, TypeOK, Outcome
  <2>4. CASE HandOverUnheard(w, m)
    <3>1. flight' \in [Worker -> [Msg -> Flight]]
      BY <2>1, <2>4 DEF HandOverUnheard, Outcome
    <3>2. QED
      BY <2>4, <3>1 DEF HandOverUnheard, TypeOK
  <2>5. QED
    BY <1>3, <2>2, <2>3, <2>4 DEF Deliver
<1>4. ASSUME NEW w \in Worker, NEW m \in Msg, Settle(w, m)
      PROVE  TypeOK'
  <2>1. flight[w][m] \in Flight
    BY DEF TypeOK
  <2>2. CASE RecordAccepted(w, m)
    <3>1. SentRow(w, m) \in Row
      BY <2>1, ReleasedType, ZenonT(30) DEF SentRow, Row, Status, Flight
    <3>2. QED
      BY <2>2, <3>1, RecordType DEF RecordAccepted, Outcome
  <2>3. CASE RecordTransient(w, m)
    <3>1. Backoff(flight[w][m].attempt) \in Nat
      BY <2>1, <2>3, BackoffType DEF RecordTransient, Flight
    <3>2. RetryRow(w, m) \in Row
      BY <3>1, ReleasedType DEF RetryRow, Row
    <3>3. QED
      BY <2>3, <3>2, RecordType DEF RecordTransient, Outcome
  <2>4. CASE RecordFailed(w, m)
    <3>1. FailedRow(w, m) \in Row
      BY ReleasedType DEF FailedRow, Row, Status
    <3>2. QED
      BY <2>4, <3>1, RecordType DEF RecordFailed, Outcome
  <2>5. QED
    BY <1>4, <2>2, <2>3, <2>4 DEF Settle
<1>5. ASSUME NEW w \in Worker, NEW m \in Msg, RecordingFails(w, m)
      PROVE  TypeOK'
  BY <1>5, IdleType DEF RecordingFails, TypeOK
<1>6. ASSUME NEW w \in Worker, Crash(w)
      PROVE  TypeOK'
  BY <1>6, IdleType DEF Crash, TypeOK
<1>7. CASE Tick
  BY <1>7, AgedType DEF Tick, TypeOK
<1>8. CASE Purge
  <2>1. PICK S \in SUBSET {m \in Msg : Purgeable(m)} :
          row' = [m \in Msg |-> IF m \in S THEN [row[m] EXCEPT !.body = FALSE]
                                            ELSE row[m]]
    BY <1>8 DEF Purge
  <2>2. \A r \in Row : [r EXCEPT !.body = FALSE] \in Row
    BY DEF Row
  <2>3. row' \in [Msg -> Row]
    BY <2>1, <2>2 DEF TypeOK
  <2>4. QED
    BY <1>8, <2>3 DEF Purge, TypeOK
<1>9. CASE UNCHANGED vars
  BY <1>9 DEF vars, TypeOK
<1>10. QED
  BY <1>1, <1>2, <1>3, <1>4, <1>5, <1>6, <1>7, <1>8, <1>9
     DEF Next, WorkerStep

\* Every column, log line and counter keeps its type.
THEOREM TypeCorrect == Spec => []TypeOK
<1>1. Init => TypeOK
  <2>1. Absent \in Row
    BY DEF Absent, Row, Status
  <2>2. QED
    BY <2>1, IdleType DEF Init, TypeOK
<1>2. QED
  BY <1>1, TypeStep, PTL DEF Spec

-----------------------------------------------------------------------------
(* The lease.  While no worker overruns its claim, being in a worker's     *)
(* batch and holding the row's claim are the same thing; everything else   *)
(* that needs ~Overrun follows from this.                                  *)

HoldsLease ==
  \A w \in Worker, m \in Msg : InFlight(w, m) =>
    /\ row[m].status = "queued"
    /\ row[m].claimedBy = w
    /\ row[m].claimAge <= ClaimTimeout
    /\ flight[w][m].attempt = row[m].attempts + 1

\* Which claims a recording leaves: it ends one flight and touches one row.
LEMMA RecordFrame ==
  ASSUME TypeOK, NEW w \in Worker, NEW m \in Msg, NEW newRow, NEW outcome,
         Record(w, m, newRow, outcome)
  PROVE  /\ row'[m] = newRow
         /\ \A k \in Msg : k # m => row'[k] = row[k] /\ log'[k] = log[k]
         /\ log'[m] = Append(log[m], [attempt |-> flight[w][m].attempt,
                                      outcome |-> outcome])
         /\ flight'[w][m] = Idle
         /\ \A v \in Worker, k \in Msg :
              v # w \/ k # m => flight'[v][k] = flight[v][k]
         /\ handed' = handed /\ unacked' = unacked
  BY DEF Record, TypeOK

LEMMA AnswerFrame ==
  ASSUME TypeOK, NEW w \in Worker, NEW m \in Msg, NEW outcome, NEW queueId,
         Answer(w, m, outcome, queueId)
  PROVE  /\ flight'[w][m].at = "answered"
         /\ flight'[w][m].attempt = flight[w][m].attempt
         /\ flight'[w][m].outcome = outcome
         /\ \A v \in Worker, k \in Msg :
              v # w \/ k # m => flight'[v][k] = flight[v][k]
<1>1. flight[w][m] \in Flight
  BY DEF TypeOK
<1>2. QED
  BY <1>1 DEF Answer, TypeOK, Flight

\* What a claim of S by w leaves of every row and every flight.
ClaimTakes(w, S) ==
  /\ \A m \in S : Due(m)
  /\ \A m \in Msg : row'[m] = IF m \in S
                              THEN [row[m] EXCEPT !.claimedBy = w, !.claimAge = 0]
                              ELSE row[m]
  /\ \A m \in Msg : flight'[w][m] = IF m \in S
                                    THEN [Idle EXCEPT !.at = "claimed",
                                           !.attempt = row[m].attempts + 1]
                                    ELSE Idle
  /\ \A v \in Worker, m \in Msg : v # w => flight'[v][m] = flight[v][m]
  /\ log' = log /\ handed' = handed /\ unacked' = unacked

LEMMA ClaimFrame ==
  ASSUME TypeOK, NEW w \in Worker, Claim(w)
  PROVE  \E S \in SUBSET Msg : ClaimTakes(w, S)
<1>1. PICK S \in SUBSET {m \in Msg : Due(m)} :
        /\ row' = [m \in Msg |->
                     IF m \in S
                     THEN [row[m] EXCEPT !.claimedBy = w, !.claimAge = 0]
                     ELSE row[m]]
        /\ flight' = [flight EXCEPT ![w] =
                        [m \in Msg |->
                           IF m \in S
                           THEN [Idle EXCEPT !.at = "claimed",
                                             !.attempt = row[m].attempts + 1]
                           ELSE Idle]]
  BY DEF Claim
<1>2. S \in SUBSET Msg
  OBVIOUS
<1>3. /\ log' = log /\ handed' = handed /\ unacked' = unacked
  BY DEF Claim
<1>4. \A m \in Msg : flight'[w][m] = IF m \in S
                                    THEN [Idle EXCEPT !.at = "claimed",
                                           !.attempt = row[m].attempts + 1]
                                    ELSE Idle
  BY <1>1 DEF TypeOK
<1>5. \A v \in Worker, m \in Msg : v # w => flight'[v][m] = flight[v][m]
  BY <1>1 DEF TypeOK
<1>6. \A m \in S : Due(m)
  OBVIOUS
<1>7. ClaimTakes(w, S)
  BY <1>1, <1>3, <1>4, <1>5, <1>6 DEF ClaimTakes
<1>8. QED
  BY <1>2, <1>7

LEMMA LeaseStep ==
  ASSUME ~Overrun
  PROVE  TypeOK /\ HoldsLease /\ [Next]_vars => HoldsLease'
<1> SUFFICES ASSUME TypeOK, HoldsLease, [Next]_vars,
                    NEW v \in Worker, NEW k \in Msg, InFlight(v, k)'
             PROVE  /\ row'[k].status = "queued"
                    /\ row'[k].claimedBy = v
                    /\ row'[k].claimAge <= ClaimTimeout
                    /\ flight'[v][k].attempt = row'[k].attempts + 1
  BY DEF HoldsLease, InFlight
<1> DEFINE Held == /\ row[k].status = "queued"
                   /\ row[k].claimedBy = v
                   /\ row[k].claimAge <= ClaimTimeout
                   /\ flight[v][k].attempt = row[k].attempts + 1
<1>a. InFlight(v, k) => Held
  BY DEF HoldsLease
<1>b. row[k] \in Row /\ flight[v][k] \in Flight
  BY DEF TypeOK
<1>c. flight'[v][k].at # "idle"
  BY DEF InFlight
<1>1. ASSUME NEW m \in Msg, NEW suppressed \in BOOLEAN, Accept(m, suppressed)
      PROVE  Held /\ row'[k] = row[k] /\ flight'[v][k] = flight[v][k]
  <2>1. InFlight(v, k) /\ row[k].status # "absent"
    BY <1>1, <1>a DEF Accept, InFlight
  <2>2. QED
    BY <1>1, <1>a, <2>1 DEF Accept, TypeOK
<1>2. ASSUME NEW w \in Worker, Claim(w)
      PROVE  Held'
  <2>1. PICK S \in SUBSET Msg : ClaimTakes(w, S)
    BY <1>2, ClaimFrame
  <2>2. CASE k \in S /\ v = w
    <3>1. row'[k] = [row[k] EXCEPT !.claimedBy = w, !.claimAge = 0]
      BY <2>1, <2>2 DEF ClaimTakes
    <3>2. flight'[v][k].attempt = row[k].attempts + 1
      BY <2>1, <2>2 DEF ClaimTakes, Idle
    <3>3. row[k].status = "queued"
      BY <2>1, <2>2 DEF ClaimTakes, Due
    <3>4. QED
      BY <1>b, <2>2, <3>1, <3>2, <3>3, QueueAssumption DEF Row
  <2>3. CASE k \in S /\ v # w
    <3>1. InFlight(v, k) /\ ClaimFree(k)
      BY <2>1, <2>3 DEF ClaimTakes, InFlight, Due
    <3>2. row[k].claimedBy # Nobody /\ ~(row[k].claimAge > ClaimTimeout)
      BY <1>a, <1>b, <3>1, QueueAssumption DEF Row
    <3>3. QED
      BY <3>1, <3>2 DEF ClaimFree
  <2>4. CASE k \notin S
    <3>a. flight'[w][k] = Idle
      BY <2>1, <2>4, Zenon DEF ClaimTakes
    <3>b. Idle.at = "idle"
      BY DEF Idle
    <3>1. v # w
      BY <1>c, <3>a, <3>b, Zenon
    <3>2. row'[k] = row[k] /\ flight'[v][k] = flight[v][k]
      BY <2>1, <2>4, <3>1 DEF ClaimTakes
    <3>3. QED
      BY <1>a, <3>2 DEF InFlight
  <2>5. QED
    BY <2>2, <2>3, <2>4
<1>3. ASSUME NEW w \in Worker, NEW m \in Msg, Deliver(w, m)
      PROVE  Held /\ row' = row /\ flight'[v][k].attempt = flight[v][k].attempt
  <2>1. row' = row /\ flight[w][m].at = "claimed"
    BY <1>3 DEF Deliver, HandOver, Refuse, HandOverUnheard
  <2>2. PICK outcome, queueId : Answer(w, m, outcome, queueId)
    BY <1>3 DEF Deliver, HandOver, Refuse, HandOverUnheard
  <2>3. InFlight(v, k) /\ flight'[v][k].attempt = flight[v][k].attempt
    BY <2>1, <2>2, AnswerFrame DEF InFlight
  <2>4. QED
    BY <1>a, <2>1, <2>3
<1>4. ASSUME NEW w \in Worker, NEW m \in Msg, Settle(w, m)
      PROVE  Held /\ row'[k] = row[k] /\ flight'[v][k] = flight[v][k]
  <2>1. PICK newRow, outcome : Record(w, m, newRow, outcome)
    BY <1>4 DEF Settle, RecordAccepted, RecordTransient, RecordFailed
  <2>2. InFlight(w, m)
    BY <1>4 DEF Settle, RecordAccepted, RecordTransient, RecordFailed,
                Answered, InFlight
  <2>a. /\ flight'[w][m] = Idle
        /\ \A u \in Worker, n \in Msg :
             u # w \/ n # m => flight'[u][n] = flight[u][n]
        /\ \A n \in Msg : n # m => row'[n] = row[n]
    BY <2>1, RecordFrame, ZenonT(30)
  <2>3. v # w \/ k # m
    BY <1>c, <2>a DEF Idle
  <2>4. flight'[v][k] = flight[v][k]
    BY <2>a, <2>3
  <2>5. InFlight(v, k)
    BY <2>4 DEF InFlight
  <2>6. k # m
    BY <2>2, <2>3, <2>5 DEF HoldsLease
  <2>7. QED
    BY <1>a, <2>a, <2>4, <2>5, <2>6
<1>5. ASSUME NEW w \in Worker, NEW m \in Msg, RecordingFails(w, m)
      PROVE  Held /\ row' = row /\ flight'[v][k] = flight[v][k]
  BY <1>5, <1>a, IdleType DEF RecordingFails, TypeOK, InFlight
<1>6. ASSUME NEW w \in Worker, Crash(w)
      PROVE  Held /\ row' = row /\ flight'[v][k] = flight[v][k]
  BY <1>6, <1>a, IdleType DEF Crash, TypeOK, InFlight
<1>7. CASE Tick
  <2>1. row'[k] = Aged(row[k]) /\ flight' = flight
    BY <1>7 DEF Tick
  <2>2. Held /\ row[k].claimAge < ClaimTimeout
    BY <1>7, <1>a, <2>1 DEF Tick, InFlight
  <2>3. QED
    BY <1>b, <2>1, <2>2, QueueAssumption DEF Aged, Row
<1>8. CASE Purge
  <2>1. row'[k] = row[k] \/ row'[k] = [row[k] EXCEPT !.body = FALSE]
    BY <1>8 DEF Purge
  <2>2. Held /\ flight' = flight
    BY <1>8, <1>a DEF Purge, InFlight
  <2>3. QED
    BY <1>b, <2>1, <2>2 DEF Row
<1>9. CASE UNCHANGED vars
  BY <1>9, <1>a DEF vars, InFlight
<1>10. QED
  BY <1>1, <1>2, <1>3, <1>4, <1>5, <1>6, <1>7, <1>8, <1>9
     DEF Next, WorkerStep

\* With ~Overrun every batch is disjoint from every other: claims, expiries
\* and recordings of any number of workers never put one message in two
\* hands (message::claim and worker::run together).
THEOREM BatchesAreDisjoint ==
  ASSUME ~Overrun
  PROVE  Spec => []DisjointBatches
<1>1. Init => HoldsLease
  BY IdleType DEF Init, HoldsLease, InFlight
<1>2. HoldsLease => DisjointBatches
  BY DEF HoldsLease, DisjointBatches
<1>3. TypeOK /\ HoldsLease /\ [Next]_vars => HoldsLease'
  BY LeaseStep
<1>4. QED
  BY <1>1, <1>2, <1>3, TypeCorrect, PTL DEF Spec

-----------------------------------------------------------------------------
(* Copies.  A message is known to be with the relay when it is recorded as *)
(* sent, or when a worker holds the acceptance and has yet to record it.   *)

Known(k) == row[k].status = "sent" \/ \E w \in Worker : Unrecorded(w, k)

CopiesAccounted ==
  \A k \in Msg : handed[k] = unacked[k] + (IF Known(k) THEN 1 ELSE 0)

\* What one step may do to one message: the columns the promise is about.
Keeps(k, status, copies, lost) ==
  /\ row'[k].status = status
  /\ handed'[k] = handed[k] + copies
  /\ unacked'[k] = unacked[k] + lost

Rests(k)     == Keeps(k, row[k].status, 0, 0) /\ (Known(k)' <=> Known(k))
Submitted(k) == /\ row[k].status = "absent" /\ ~Known(k) /\ ~Known(k)'
                /\ Keeps(k, "queued", 0, 0) \/ Keeps(k, "suppressed", 0, 0)
Queued(k)    == row[k].status = "queued"
Heard(k)     == Queued(k) /\ ~Known(k) /\ Known(k)'  /\ Keeps(k, "queued", 1, 0)
Unheard(k)   == Queued(k) /\ ~Known(k) /\ ~Known(k)' /\ Keeps(k, "queued", 1, 1)
LostSight(k) == Queued(k) /\ Known(k)  /\ ~Known(k)' /\ Keeps(k, "queued", 0, 1)
Sent(k)      == Queued(k) /\ Known(k)  /\ Known(k)'  /\ Keeps(k, "sent", 0, 0)
Failed(k)    == Queued(k) /\ ~Known(k) /\ ~Known(k)' /\ Keeps(k, "failed", 0, 0)

Shape(k) ==
  \/ Rests(k) \/ Submitted(k) \/ Heard(k) \/ Unheard(k)
  \/ LostSight(k) \/ Sent(k) \/ Failed(k)

\* The holder of the lease is the only worker with anything unrecorded.
LEMMA OnlyHolder ==
  ASSUME HoldsLease, NEW w \in Worker, NEW m \in Msg, InFlight(w, m)
  PROVE  /\ row[m].status = "queued"
         /\ Known(m) <=> Unrecorded(w, m)
<1>1. row[m].status = "queued" /\ row[m].claimedBy = w
  BY DEF HoldsLease
<1>2. ASSUME NEW v \in Worker, Unrecorded(v, m) PROVE v = w
  BY <1>1, <1>2 DEF HoldsLease, Unrecorded, InFlight
<1>3. QED
  BY <1>1, <1>2 DEF Known

\* A step that touches neither a message's status nor anything unrecorded
\* of it leaves it where it is.
LEMMA RestsWhen ==
  ASSUME TypeOK, NEW k \in Msg,
         row'[k].status = row[k].status,
         handed'[k] = handed[k], unacked'[k] = unacked[k],
         \A v \in Worker : Unrecorded(v, k)' <=> Unrecorded(v, k)
  PROVE  Shape(k)
<1>1. handed[k] + 0 = handed[k] /\ unacked[k] + 0 = unacked[k]
  BY DEF TypeOK
<1>2. Known(k)' <=> Known(k)
  BY DEF Known
<1>3. QED
  BY <1>1, <1>2 DEF Shape, Rests, Keeps

LEMMA DeliverShape ==
  ASSUME TypeOK, HoldsLease, NEW w \in Worker, NEW m \in Msg, Deliver(w, m),
         NEW k \in Msg
  PROVE  Shape(k)
<1>1. /\ row' = row /\ flight[w][m].at = "claimed" /\ InFlight(w, m)
      /\ ~Unrecorded(w, m)
  BY DEF Deliver, HandOver, Refuse, HandOverUnheard, InFlight, Unrecorded
<1>2. PICK outcome, queueId : Answer(w, m, outcome, queueId)
  BY DEF Deliver, HandOver, Refuse, HandOverUnheard
<1>3. \A v \in Worker, n \in Msg :
        v # w \/ n # m => flight'[v][n] = flight[v][n]
  BY <1>2, AnswerFrame
<1>4. handed[k] \in Nat /\ unacked[k] \in Nat
  BY DEF TypeOK
<1>5. CASE k # m
  <2>1. handed'[k] = handed[k] /\ unacked'[k] = unacked[k]
    BY <1>5 DEF Deliver, HandOver, Refuse, HandOverUnheard, TypeOK
  <2>2. \A v \in Worker : Unrecorded(v, k)' <=> Unrecorded(v, k)
    BY <1>3, <1>5 DEF Unrecorded
  <2>3. QED
    BY <1>1, <2>1, <2>2, RestsWhen
<1>6. CASE k = m
  <2>1. row[k].status = "queued" /\ ~Known(k)
    BY <1>1, <1>6, OnlyHolder
  <2>2. \A v \in Worker : v # w => ~Unrecorded(v, k)'
    BY <1>3, <2>1 DEF Unrecorded, Known
  <2>3. CASE HandOver(w, m)
    <3>1. PICK q : Answer(w, m, "accepted", q)
      BY <2>3 DEF HandOver
    <3>2. flight'[w][m].at = "answered" /\ flight'[w][m].outcome = "accepted"
      BY <3>1, AnswerFrame
    <3>3. Known(k)'
      BY <1>6, <3>2 DEF Known, Unrecorded
    <3>4. Keeps(k, "queued", 1, 0)
      BY <1>1, <1>4, <1>6, <2>1, <2>3 DEF HandOver, Keeps, TypeOK
    <3>5. QED
      BY <2>1, <3>3, <3>4 DEF Shape, Heard, Queued
  <2>4. CASE Refuse(w, m)
    <3>1. PICK o \in {"transient", "permanent"} : Answer(w, m, o, 0)
      BY <2>4 DEF Refuse
    <3>2. flight'[w][m].outcome # "accepted"
      BY <3>1, AnswerFrame
    <3>3. \A v \in Worker : Unrecorded(v, k)' <=> Unrecorded(v, k)
      BY <1>1, <1>6, <2>1, <2>2, <3>2 DEF Unrecorded, Known
    <3>4. handed' = handed /\ unacked' = unacked
      BY <2>4 DEF Refuse
    <3>5. QED
      BY <1>1, <3>3, <3>4, RestsWhen
  <2>5. CASE HandOverUnheard(w, m)
    <3>1. Answer(w, m, "transient", 0)
      BY <2>5 DEF HandOverUnheard
    <3>2. flight'[w][m].outcome = "transient"
      BY <3>1, AnswerFrame
    <3>3. ~Unrecorded(w, k)'
      BY <1>6, <3>2 DEF Unrecorded
    <3>4. row'[k].status # "sent"
      BY <1>1, <2>1
    <3>5. ~Known(k)'
      BY <2>2, <3>3, <3>4 DEF Known
    <3>6. Keeps(k, "queued", 1, 1)
      BY <1>1, <1>4, <1>6, <2>1, <2>5 DEF HandOverUnheard, Keeps, TypeOK
    <3>7. QED
      BY <2>1, <3>5, <3>6 DEF Shape, Unheard, Queued
  <2>6. QED
    BY <2>3, <2>4, <2>5 DEF Deliver
<1>7. QED
  BY <1>5, <1>6

LEMMA SettleShape ==
  ASSUME TypeOK, HoldsLease, NEW w \in Worker, NEW m \in Msg, Settle(w, m),
         NEW k \in Msg
  PROVE  Shape(k)
<1>1. PICK newRow, outcome : Record(w, m, newRow, outcome)
  BY DEF Settle, RecordAccepted, RecordTransient, RecordFailed
<1>2. /\ flight'[w][m] = Idle
      /\ \A v \in Worker, n \in Msg :
           v # w \/ n # m => flight'[v][n] = flight[v][n]
      /\ \A n \in Msg : n # m => row'[n] = row[n]
      /\ handed' = handed /\ unacked' = unacked
  BY <1>1, RecordFrame
<1>3. InFlight(w, m)
  BY DEF Settle, RecordAccepted, RecordTransient, RecordFailed, Answered,
         InFlight
<1>4. handed[k] \in Nat /\ unacked[k] \in Nat /\ row[k] \in Row
  BY DEF TypeOK
<1>5. CASE k # m
  <2>1. \A v \in Worker : Unrecorded(v, k)' <=> Unrecorded(v, k)
    BY <1>2, <1>5 DEF Unrecorded
  <2>2. QED
    BY <1>2, <1>5, <2>1, RestsWhen
<1>6. CASE k = m
  <2>1. row[k].status = "queued" /\ (Known(k) <=> Unrecorded(w, k))
    BY <1>3, <1>6, OnlyHolder
  <2>2. \A v \in Worker : v # w => ~Unrecorded(v, k)
    <3> SUFFICES ASSUME NEW v \in Worker, v # w, Unrecorded(v, k) PROVE FALSE
      OBVIOUS
    <3>1. InFlight(v, k)
      BY DEF Unrecorded, InFlight
    <3>2. QED
      BY <1>3, <1>6, <3>1 DEF HoldsLease
  <2>3. Idle.at = "idle"
    BY DEF Idle
  <2>4. \A v \in Worker : ~Unrecorded(v, k)'
    BY <1>2, <1>6, <2>2, <2>3 DEF Unrecorded
  <2>5. CASE RecordAccepted(w, m)
    <3>1. Record(w, m, SentRow(w, m), "accepted") /\ Unrecorded(w, k)
      BY <1>6, <2>5 DEF RecordAccepted, Answered, Unrecorded
    <3>2. row'[k] = SentRow(w, k)
      BY <1>6, <3>1, RecordFrame, ZenonT(30)
    <3>3. row'[k].status = "sent"
      BY <1>4, <3>2 DEF SentRow, Released, Row
    <3>4. Known(k)'
      BY <3>3 DEF Known
    <3>5. QED
      BY <1>2, <1>4, <2>1, <3>1, <3>3, <3>4 DEF Shape, Sent, Queued, Keeps
  <2>6. CASE RecordTransient(w, m)
    <3>1. Record(w, m, RetryRow(w, m), "transient") /\ ~Unrecorded(w, k)
      BY <1>6, <2>6 DEF RecordTransient, Answered, Unrecorded
    <3>2. row'[k] = RetryRow(w, k)
      BY <1>6, <3>1, RecordFrame, ZenonT(30)
    <3>3. row'[k].status = row[k].status
      BY <1>4, <3>2 DEF RetryRow, Released, Row
    <3>4. QED
      BY <1>2, <2>2, <2>4, <3>1, <3>3, RestsWhen
  <2>7. CASE RecordFailed(w, m)
    <3>1. Record(w, m, FailedRow(w, m), "permanent") /\ ~Unrecorded(w, k)
      BY <1>6, <2>7 DEF RecordFailed, Answered, Unrecorded
    <3>2. row'[k] = FailedRow(w, k)
      BY <1>6, <3>1, RecordFrame, ZenonT(30)
    <3>3. row'[k].status = "failed"
      BY <1>4, <3>2 DEF FailedRow, Released, Row
    <3>4. ~Known(k)'
      BY <2>4, <3>3 DEF Known
    <3>5. QED
      BY <1>2, <1>4, <2>1, <3>1, <3>3, <3>4 DEF Shape, Failed, Queued, Keeps
  <2>8. QED
    BY <2>5, <2>6, <2>7 DEF Settle
<1>7. QED
  BY <1>5, <1>6

\* A worker that gives up what it holds, of one message or of all, loses
\* sight of what it had not recorded.
LEMMA GiveUpShape ==
  ASSUME TypeOK, HoldsLease, NEW w \in Worker, NEW k \in Msg, row' = row,
         \A v \in Worker : v # w => flight'[v][k] = flight[v][k],
         flight'[w][k] = Idle, handed'[k] = handed[k],
         unacked'[k] = IF Unrecorded(w, k) THEN unacked[k] + 1 ELSE unacked[k]
  PROVE  Shape(k)
<1>1. Idle.at = "idle"
  BY DEF Idle
<1>2. ~Unrecorded(w, k)' /\ \A v \in Worker : v # w =>
        (Unrecorded(v, k)' <=> Unrecorded(v, k))
  BY <1>1 DEF Unrecorded
<1>3. CASE Unrecorded(w, k)
  <2>1. InFlight(w, k) /\ Known(k)
    BY <1>3 DEF Unrecorded, InFlight, Known
  <2>2. row[k].status = "queued"
    BY <2>1, OnlyHolder
  <2>3. \A v \in Worker : v # w => ~Unrecorded(v, k)
    <3> SUFFICES ASSUME NEW v \in Worker, v # w, Unrecorded(v, k) PROVE FALSE
      OBVIOUS
    <3>1. InFlight(v, k)
      BY DEF Unrecorded, InFlight
    <3>2. QED
      BY <2>1, <3>1 DEF HoldsLease
  <2>4. ~Known(k)'
    BY <1>2, <2>2, <2>3 DEF Known
  <2>5. handed[k] \in Nat
    BY DEF TypeOK
  <2>6. QED
    BY <1>3, <2>1, <2>2, <2>4, <2>5 DEF Shape, LostSight, Queued, Keeps
<1>4. CASE ~Unrecorded(w, k)
  BY <1>2, <1>4, RestsWhen
<1>5. QED
  BY <1>3, <1>4

LEMMA StepShape ==
  ASSUME ~Overrun, TypeOK, HoldsLease, [Next]_vars, NEW k \in Msg
  PROVE  Shape(k)
<1>a. handed[k] \in Nat /\ unacked[k] \in Nat /\ row[k] \in Row
  BY DEF TypeOK
<1>1. ASSUME NEW m \in Msg, NEW suppressed \in BOOLEAN, Accept(m, suppressed)
      PROVE  Shape(k)
  <2>1. /\ flight' = flight /\ handed' = handed /\ unacked' = unacked
        /\ row[m].status = "absent" /\ row'[m] = NewRow(suppressed)
        /\ k # m => row'[k] = row[k]
    BY <1>1 DEF Accept, TypeOK
  <2>2. \A v \in Worker : Unrecorded(v, k)' <=> Unrecorded(v, k)
    BY <2>1 DEF Unrecorded
  <2>3. CASE k # m
    BY <2>1, <2>2, <2>3, RestsWhen
  <2>4. CASE k = m
    <3>1. row'[k].status = "queued" \/ row'[k].status = "suppressed"
      BY <2>1, <2>4 DEF NewRow, Absent
    <3>2. \A v \in Worker : ~Unrecorded(v, k)
      BY <2>1, <2>4 DEF HoldsLease, Unrecorded, InFlight
    <3>3. ~Known(k) /\ ~Known(k)'
      BY <2>1, <2>2, <2>4, <3>1, <3>2 DEF Known
    <3>4. QED
      BY <1>a, <2>1, <2>4, <3>1, <3>3 DEF Shape, Submitted, Keeps
  <2>5. QED
    BY <2>3, <2>4
<1>2. ASSUME NEW w \in Worker, Claim(w)
      PROVE  Shape(k)
  <2>1. PICK S \in SUBSET Msg : ClaimTakes(w, S)
    BY <1>2, ClaimFrame
  <2>2. ~InFlight(w, k)
    BY <1>2 DEF Claim
  <2>3. flight'[w][k].at # "answered"
    <3>1. \/ flight'[w][k] = Idle
          \/ flight'[w][k] = [Idle EXCEPT !.at = "claimed",
                                         !.attempt = row[k].attempts + 1]
      BY <2>1 DEF ClaimTakes
    <3>2. /\ Idle.at # "answered"
          /\ [Idle EXCEPT !.at = "claimed",
                          !.attempt = row[k].attempts + 1].at # "answered"
      BY DEF Idle
    <3>3. QED
      BY <3>1, <3>2, Zenon
  <2>4. \A v \in Worker : v # w => flight'[v][k] = flight[v][k]
    BY <2>1 DEF ClaimTakes
  <2>5. \A v \in Worker : Unrecorded(v, k)' <=> Unrecorded(v, k)
    BY <2>2, <2>3, <2>4 DEF Unrecorded, InFlight
  <2>6. row'[k].status = row[k].status
    BY <1>a, <2>1 DEF ClaimTakes, Row
  <2>7. QED
    BY <2>1, <2>5, <2>6, RestsWhen DEF ClaimTakes
<1>3. ASSUME NEW w \in Worker, NEW m \in Msg, Deliver(w, m)
      PROVE  Shape(k)
  BY <1>3, DeliverShape
<1>4. ASSUME NEW w \in Worker, NEW m \in Msg, Settle(w, m)
      PROVE  Shape(k)
  BY <1>4, SettleShape
<1>5. ASSUME NEW w \in Worker, NEW m \in Msg, RecordingFails(w, m)
      PROVE  Shape(k)
  <2>1. /\ row' = row /\ handed' = handed /\ flight'[w][m] = Idle
        /\ \A v \in Worker : v # w => flight'[v][k] = flight[v][k]
        /\ k # m => flight'[w][k] = flight[w][k] /\ unacked'[k] = unacked[k]
        /\ unacked'[m] = IF Unrecorded(w, m) THEN unacked[m] + 1 ELSE unacked[m]
    BY <1>5 DEF RecordingFails, TypeOK
  <2>2. CASE k = m
    BY <2>1, <2>2, GiveUpShape
  <2>3. CASE k # m
    <3>1. \A v \in Worker : flight'[v][k] = flight[v][k]
      BY <2>1, <2>3
    <3>2. \A v \in Worker : Unrecorded(v, k)' <=> Unrecorded(v, k)
      BY <3>1 DEF Unrecorded
    <3>3. QED
      BY <2>1, <2>3, <3>2, RestsWhen
  <2>4. QED
    BY <2>2, <2>3
<1>6. ASSUME NEW w \in Worker, Crash(w)
      PROVE  Shape(k)
  <2>1. /\ row' = row /\ handed' = handed /\ flight'[w][k] = Idle
        /\ \A v \in Worker : v # w => flight'[v][k] = flight[v][k]
        /\ unacked'[k] = IF Unrecorded(w, k) THEN unacked[k] + 1 ELSE unacked[k]
    BY <1>6 DEF Crash, TypeOK
  <2>2. QED
    BY <2>1, GiveUpShape
<1>7. CASE Tick
  <2>1. row'[k].status = row[k].status
    BY <1>a, <1>7 DEF Tick, Aged, Row
  <2>2. \A v \in Worker : Unrecorded(v, k)' <=> Unrecorded(v, k)
    BY <1>7 DEF Tick, Unrecorded
  <2>3. QED
    BY <1>7, <2>1, <2>2, RestsWhen DEF Tick
<1>8. CASE Purge
  <2>1. row'[k] = row[k] \/ row'[k] = [row[k] EXCEPT !.body = FALSE]
    BY <1>8 DEF Purge
  <2>2. row'[k].status = row[k].status
    BY <1>a, <2>1 DEF Row
  <2>3. \A v \in Worker : Unrecorded(v, k)' <=> Unrecorded(v, k)
    BY <1>8 DEF Purge, Unrecorded
  <2>4. QED
    BY <1>8, <2>2, <2>3, RestsWhen DEF Purge
<1>9. CASE UNCHANGED vars
  <2>1. \A v \in Worker : Unrecorded(v, k)' <=> Unrecorded(v, k)
    BY <1>9 DEF vars, Unrecorded
  <2>2. QED
    BY <1>9, <2>1, RestsWhen DEF vars
<1>10. QED
  BY <1>1, <1>2, <1>3, <1>4, <1>5, <1>6, <1>7, <1>8, <1>9
     DEF Next, WorkerStep

\* The inductive invariant of the ~Overrun theorems.
Lease == TypeOK /\ HoldsLease /\ CopiesAccounted

LEMMA CopiesStep ==
  ASSUME ~Overrun, TypeOK, HoldsLease, CopiesAccounted, [Next]_vars
  PROVE  CopiesAccounted'
<1> SUFFICES ASSUME NEW k \in Msg
             PROVE  handed'[k] = unacked'[k] + (IF Known(k)' THEN 1 ELSE 0)
  BY DEF CopiesAccounted
<1>1. handed[k] \in Nat /\ unacked[k] \in Nat
  BY DEF TypeOK
<1>2. handed[k] = unacked[k] + (IF Known(k) THEN 1 ELSE 0)
  BY DEF CopiesAccounted
<1>3. Shape(k)
  BY StepShape
<1>4. CASE Rests(k)
  BY <1>1, <1>2, <1>4 DEF Rests, Keeps
<1>5. CASE Submitted(k)
  BY <1>1, <1>2, <1>5 DEF Submitted, Keeps
<1>6. CASE Heard(k) \/ Unheard(k)
  BY <1>1, <1>2, <1>6 DEF Heard, Unheard, Keeps
<1>7. CASE LostSight(k)
  BY <1>1, <1>2, <1>7 DEF LostSight, Keeps
<1>8. CASE Sent(k) \/ Failed(k)
  BY <1>1, <1>2, <1>8 DEF Sent, Failed, Keeps
<1>9. QED
  BY <1>3, <1>4, <1>5, <1>6, <1>7, <1>8 DEF Shape

LEMMA LeaseInvariant ==
  ASSUME ~Overrun
  PROVE  Spec => []Lease
<1>1. Init => HoldsLease
  BY IdleType DEF Init, HoldsLease, InFlight
<1>2. Init => CopiesAccounted
  <2>1. Absent.status = "absent" /\ Idle.at = "idle"
    BY DEF Absent, Idle
  <2>2. QED
    BY <2>1 DEF Init, CopiesAccounted, Known, Unrecorded
<1>3. TypeOK /\ HoldsLease /\ CopiesAccounted /\ [Next]_vars
        => HoldsLease' /\ CopiesAccounted'
  BY LeaseStep, CopiesStep
<1>4. QED
  BY <1>1, <1>2, <1>3, TypeCorrect, PTL DEF Spec, Lease

\* Without a lost answer, a crash or a failed recording the relay gets one
\* copy at most of a message, however many workers, claims and retries
\* there are (message::claim, Relay::send and message::record_*).
THEOREM DuplicatesNeedALoss ==
  ASSUME ~Overrun
  PROVE  Spec => []NoDuplicateWithoutLoss
<1>1. Lease => NoDuplicateWithoutLoss
  <2> SUFFICES ASSUME Lease, NEW m \in Msg
               PROVE  handed[m] <= unacked[m] + 1
    BY DEF NoDuplicateWithoutLoss
  <2>1. handed[m] \in Nat /\ unacked[m] \in Nat
    BY DEF Lease, TypeOK
  <2>2. handed[m] = unacked[m] + (IF Known(m) THEN 1 ELSE 0)
    BY DEF Lease, CopiesAccounted
  <2>3. QED
    BY <2>1, <2>2
<1>2. QED
  BY <1>1, LeaseInvariant, PTL

\* A verdict is final: no retry, late recording or reclaimed batch moves a
\* finished message (message::claim and message::record_*).
THEOREM VerdictsAreFinal ==
  ASSUME ~Overrun
  PROVE  Spec => FinishedIsFinal
<1>1. Lease /\ [Next]_vars =>
        [\A m \in Msg : row[m].status \in {"sent", "failed", "suppressed"}
                          => row'[m].status = row[m].status]_row
  <2> SUFFICES ASSUME Lease, [Next]_vars, NEW m \in Msg,
                      row[m].status \in {"sent", "failed", "suppressed"}
               PROVE  row'[m].status = row[m].status
    OBVIOUS
  <2>1. Shape(m)
    BY StepShape DEF Lease
  <2>2. QED
    BY <2>1 DEF Shape, Rests, Submitted, Heard, Unheard, LostSight, Sent,
                Failed, Queued, Keeps
<1>2. QED
  BY <1>1, LeaseInvariant, PTL DEF Spec, FinishedIsFinal

\* The queue implements module Promise: every step of it is, message by
\* message, a move of the abstract queue or nothing at all.
THEOREM QueueKeepsPromise ==
  ASSUME ~Overrun
  PROVE  Spec => KeepsPromise
<1> DEFINE abstract == [m \in Msg |->
                          CASE row[m].status = "absent" -> "unknown"
                            [] row[m].status = "queued" -> "pending"
                            [] OTHER -> row[m].status]
<1>1. Init => P!Init
  <2>1. Absent.status = "absent"
    BY DEF Absent
  <2>2. QED
    BY <2>1 DEF Init, P!Init
<1>2. Lease /\ [Next]_vars => [P!Next]_(P!vars)
  <2> SUFFICES ASSUME Lease, [Next]_vars, NEW k \in Msg
               PROVE  P!Move(k) \/ P!Rest(k)
    BY DEF P!Next
  <2>1. Shape(k)
    BY StepShape DEF Lease
  <2>2. /\ handed[k] \in Nat /\ unacked[k] \in Nat
        /\ handed[k] = unacked[k] + (IF Known(k) THEN 1 ELSE 0)
    BY DEF Lease, TypeOK, CopiesAccounted
  <2>3. CASE Rests(k)
    BY <2>2, <2>3 DEF Rests, Keeps, P!Rest, P!Stays
  <2>4. CASE Submitted(k)
    BY <2>2, <2>4 DEF Submitted, Keeps, P!Move, P!Submit, P!Stays
  <2>5. CASE Heard(k) \/ Unheard(k)
    BY <2>2, <2>5 DEF Heard, Unheard, Queued, Keeps, P!Move, P!HandOver, P!Stays
  <2>6. CASE LostSight(k)
    BY <2>2, <2>6 DEF LostSight, Queued, Keeps, P!Move, P!LoseSight, P!Stays
  <2>7. CASE Sent(k) \/ Failed(k)
    BY <2>2, <2>7 DEF Sent, Failed, Queued, Keeps, P!Move, P!Conclude, P!Stays
  <2>8. QED
    BY <2>1, <2>3, <2>4, <2>5, <2>6, <2>7 DEF Shape
<1>3. QED
  BY <1>1, <1>2, LeaseInvariant, PTL DEF Spec, KeepsPromise, P!Spec

-----------------------------------------------------------------------------
(* The log.  What one step may do to one message's row and log lines,      *)
(* overrun or not.                                                         *)

Untouched(k) ==
  /\ row'[k].status = row[k].status
  /\ row'[k].attempts = row[k].attempts
  /\ row'[k].completed = row[k].completed
  /\ row'[k].body = row[k].body \/ row[k].completed
  /\ log'[k] = log[k]

LEMMA StepTouches ==
  ASSUME TypeOK, [Next]_vars, NEW k \in Msg
  PROVE  \/ Untouched(k)
         \/ \E suppressed \in BOOLEAN : Accept(k, suppressed)
         \/ \E w \in Worker : Settle(w, k)
<1> DEFINE Goal == \/ Untouched(k)
                   \/ \E suppressed \in BOOLEAN : Accept(k, suppressed)
                   \/ \E w \in Worker : Settle(w, k)
<1>a. row[k] \in Row
  BY DEF TypeOK
<1>1. ASSUME NEW m \in Msg, NEW suppressed \in BOOLEAN, Accept(m, suppressed)
      PROVE  Untouched(k) \/ \E s \in BOOLEAN : Accept(k, s)
  <2>1. CASE k # m
    BY <1>1, <2>1 DEF Accept, TypeOK, Untouched
  <2>2. QED
    BY <1>1, <2>1
<1>2. ASSUME NEW w \in Worker, Claim(w)
      PROVE  Untouched(k)
  <2>1. PICK S \in SUBSET Msg : ClaimTakes(w, S)
    BY <1>2, ClaimFrame
  <2>2. QED
    BY <1>a, <2>1 DEF ClaimTakes, Row, Untouched
<1>3. ASSUME NEW w \in Worker, NEW m \in Msg, Deliver(w, m)
      PROVE  Untouched(k)
  BY <1>3 DEF Deliver, HandOver, Refuse, HandOverUnheard, Untouched
<1>4. ASSUME NEW w \in Worker, NEW m \in Msg, Settle(w, m)
      PROVE  Untouched(k) \/ \E v \in Worker : Settle(v, k)
  <2>1. PICK newRow, outcome : Record(w, m, newRow, outcome)
    BY <1>4 DEF Settle, RecordAccepted, RecordTransient, RecordFailed
  <2>2. CASE k # m
    BY <2>1, <2>2, RecordFrame DEF Untouched
  <2>3. QED
    BY <1>4, <2>2
<1>5. ASSUME NEW w \in Worker, NEW m \in Msg, RecordingFails(w, m)
      PROVE  Untouched(k)
  BY <1>5 DEF RecordingFails, Untouched
<1>6. ASSUME NEW w \in Worker, Crash(w)
      PROVE  Untouched(k)
  BY <1>6 DEF Crash, Untouched
<1>7. CASE Tick
  BY <1>a, <1>7 DEF Tick, Aged, Row, Untouched
<1>8. CASE Purge
  <2>1. \/ row'[k] = row[k]
        \/ row[k].completed /\ row'[k] = [row[k] EXCEPT !.body = FALSE]
    BY <1>8 DEF Purge, Purgeable
  <2>2. /\ row'[k].status = row[k].status
        /\ row'[k].attempts = row[k].attempts
        /\ row'[k].completed = row[k].completed
    BY <1>a, <2>1 DEF Row
  <2>3. row'[k].body = row[k].body \/ row[k].completed
    BY <2>1, Zenon
  <2>4. log'[k] = log[k]
    BY <1>8 DEF Purge
  <2>5. Untouched(k)
    BY <2>2, <2>3, <2>4, Zenon DEF Untouched
  <2>6. QED
    BY <2>5
<1>9. CASE UNCHANGED vars
  BY <1>9 DEF vars, Untouched
<1>10. ASSUME NEW w \in Worker, WorkerStep(w)
       PROVE  Untouched(k) \/ \E v \in Worker : Settle(v, k)
  BY <1>2, <1>3, <1>4, <1>5, <1>6, <1>10 DEF WorkerStep
<1>11. ASSUME NEW m \in Msg, NEW suppressed \in BOOLEAN, Accept(m, suppressed)
       PROVE  Goal
  BY <1>1, <1>11, Zenon
<1>12. \A w \in Worker : WorkerStep(w) => Goal
  BY <1>10, Zenon
<1>13. Tick \/ Purge \/ UNCHANGED vars => Goal
  BY <1>7, <1>8, <1>9
<1> HIDE DEF Goal
<1>14. Goal
  BY <1>11, <1>12, <1>13, Zenon DEF Next
<1>15. QED
  BY <1>14 DEF Goal

\* A recording is of a message in the worker's hands, and adds one line.
LEMMA SettleWrites ==
  ASSUME TypeOK, NEW w \in Worker, NEW k \in Msg, Settle(w, k)
  PROVE  /\ InFlight(w, k)
         /\ row'[k].attempts = flight[w][k].attempt
         /\ row'[k].status \in {"sent", "failed", row[k].status}
         /\ \E outcome \in Outcome :
              log'[k] = Append(log[k], [attempt |-> flight[w][k].attempt,
                                        outcome |-> outcome])
<1>a. row[k] \in Row
  BY DEF TypeOK
<1>1. InFlight(w, k)
  BY DEF Settle, RecordAccepted, RecordTransient, RecordFailed, Answered,
         InFlight
<1>2. CASE RecordAccepted(w, k)
  <2>1. Record(w, k, SentRow(w, k), "accepted")
    BY <1>2 DEF RecordAccepted
  <2>2. row'[k] = SentRow(w, k)
    BY <2>1, RecordFrame, ZenonT(30)
  <2>3. QED
    BY <1>a, <1>1, <2>1, <2>2, RecordFrame DEF SentRow, Released, Row, Outcome
<1>3. CASE RecordTransient(w, k)
  <2>1. Record(w, k, RetryRow(w, k), "transient")
    BY <1>3 DEF RecordTransient
  <2>2. row'[k] = RetryRow(w, k)
    BY <2>1, RecordFrame, ZenonT(30)
  <2>3. QED
    BY <1>a, <1>1, <2>1, <2>2, RecordFrame DEF RetryRow, Released, Row, Outcome
<1>4. CASE RecordFailed(w, k)
  <2>1. Record(w, k, FailedRow(w, k), "permanent")
    BY <1>4 DEF RecordFailed
  <2>2. row'[k] = FailedRow(w, k)
    BY <2>1, RecordFrame, ZenonT(30)
  <2>3. QED
    BY <1>a, <1>1, <2>1, <2>2, RecordFrame DEF FailedRow, Released, Row, Outcome
<1>5. QED
  BY <1>2, <1>3, <1>4 DEF Settle

\* Appending one line to a log.
LEMMA AppendLine ==
  ASSUME NEW s \in Seq(Attempt), NEW e \in Attempt
  PROVE  /\ Len(Append(s, e)) = Len(s) + 1
         /\ Append(s, e)[Len(s) + 1] = e
         /\ \A i \in DOMAIN s : i \in DOMAIN Append(s, e) /\ Append(s, e)[i] = s[i]
         /\ \A i \in DOMAIN Append(s, e) : i \in DOMAIN s \/ i = Len(s) + 1
         /\ Len(s) + 1 \in DOMAIN Append(s, e)
  OBVIOUS

\* The attempt counter and the insert-only log never disagree: a message
\* with n attempts has the log lines 1..n, though the number was read at the
\* claim and written after the handoff (message::claim, message::record_*).
THEOREM CounterMatchesLog ==
  ASSUME ~Overrun
  PROVE  Spec => []AttemptsMatchLog
<1> DEFINE Unused == \A m \in Msg : row[m].status = "absent" => row[m].attempts = 0
           Inv    == AttemptsMatchLog /\ Unused
<1>1. Init => Inv
  <2>1. Absent.attempts = 0
    BY DEF Absent
  <2>2. QED
    BY <2>1 DEF Init, AttemptsMatchLog
<1>2. Lease /\ Inv /\ [Next]_vars => Inv'
  <2> SUFFICES ASSUME Lease, Inv, [Next]_vars, NEW k \in Msg
               PROVE  /\ row'[k].attempts = Len(log'[k])
                      /\ \A i \in DOMAIN log'[k] : log'[k][i].attempt = i
                      /\ row'[k].status = "absent" => row'[k].attempts = 0
    BY DEF AttemptsMatchLog
  <2>0. /\ TypeOK /\ HoldsLease
        /\ row[k].attempts = Len(log[k])
        /\ \A i \in DOMAIN log[k] : log[k][i].attempt = i
        /\ row[k].status = "absent" => row[k].attempts = 0
    BY DEF Lease, AttemptsMatchLog
  <2>1. CASE Untouched(k)
    BY <2>0, <2>1 DEF Untouched
  <2>2. ASSUME NEW suppressed \in BOOLEAN, Accept(k, suppressed)
        PROVE  row'[k].attempts = 0 /\ row[k].attempts = 0 /\ log'[k] = log[k]
    <3>1. row'[k] = NewRow(suppressed)
      BY <2>0, <2>2 DEF Accept, TypeOK
    <3>2. NewRow(suppressed).attempts = 0
      BY DEF NewRow, Absent
    <3>3. QED
      BY <2>0, <2>2, <3>1, <3>2 DEF Accept
  <2>3. ASSUME NEW w \in Worker, Settle(w, k)
        PROVE  /\ row'[k].attempts = Len(log'[k])
               /\ \A i \in DOMAIN log'[k] : log'[k][i].attempt = i
               /\ row'[k].status # "absent"
    <3>1. PICK outcome \in Outcome :
            log'[k] = Append(log[k], [attempt |-> flight[w][k].attempt,
                                      outcome |-> outcome])
      BY <2>0, <2>3, SettleWrites
    <3>2. /\ InFlight(w, k) /\ row'[k].attempts = flight[w][k].attempt
          /\ flight[w][k].attempt = row[k].attempts + 1
          /\ row[k].status = "queued"
          /\ row'[k].status \in {"sent", "failed", row[k].status}
      BY <2>0, <2>3, SettleWrites DEF HoldsLease
    <3>a. log[k] \in Seq(Attempt) /\ flight[w][k] \in Flight
      BY <2>0 DEF TypeOK
    <3>b. [attempt |-> flight[w][k].attempt, outcome |-> outcome] \in Attempt
      BY <3>a DEF Flight, Attempt
    <3>3. /\ log[k] \in Seq(Attempt) /\ Len(log[k]) \in Nat
          /\ [attempt |-> flight[w][k].attempt, outcome |-> outcome] \in Attempt
      BY <3>a, <3>b
    <3>4. Len(log'[k]) = Len(log[k]) + 1
      BY <3>1, <3>3, AppendLine
    <3>5. \A i \in DOMAIN log'[k] : log'[k][i].attempt = i
      <4>1. TAKE i \in DOMAIN log'[k]
      <4>2. CASE i \in DOMAIN log[k]
        BY <2>0, <3>1, <3>3, <4>2, AppendLine
      <4>3. CASE i = Len(log[k]) + 1
        BY <2>0, <3>1, <3>2, <3>3, <4>3, AppendLine
      <4>4. QED
        BY <3>1, <3>3, <4>1, <4>2, <4>3, AppendLine
    <3>6. QED
      BY <2>0, <3>2, <3>4, <3>5
  <2>4. QED
    BY <2>0, <2>1, <2>2, <2>3, StepTouches
<1>3. QED
  BY <1>1, <1>2, LeaseInvariant, PTL DEF Spec

-----------------------------------------------------------------------------
(* Evidence.  These hold whether or not workers overrun their claims: the  *)
(* lease is not used.                                                      *)

Outcomes(m) == {log[m][i].outcome : i \in DOMAIN log[m]}

\* What a worker holds is within the schedule and of a message that was
\* accepted for delivery; an acceptance it holds is of a copy that exists.
FlightEvidence ==
  \A w \in Worker, m \in Msg :
    /\ InFlight(w, m) =>
         /\ flight[w][m].attempt \in 1 .. Len(Schedule)
         /\ row[m].status \in {"queued", "sent", "failed"}
    /\ Unrecorded(w, m) => handed[m] > 0

Evidence(m) ==
  /\ row[m].status = "queued" =>
       /\ row[m].attempts < Len(Schedule)
       /\ row[m].body /\ ~row[m].completed
       /\ Outcomes(m) \subseteq {"transient"}
  /\ row[m].status = "absent" => row[m].attempts = 0
  /\ row[m].status = "sent" => "accepted" \in Outcomes(m) /\ handed[m] > 0
  /\ row[m].status = "failed" => "permanent" \in Outcomes(m)
  /\ row[m].status \in {"absent", "suppressed"} =>
       Outcomes(m) = {} /\ handed[m] = 0
  /\ \A i \in DOMAIN log[m] : log[m][i].attempt <= Len(Schedule)

EvidenceInv == TypeOK /\ FlightEvidence /\ \A m \in Msg : Evidence(m)

\* Copies are never taken back, and only a worker adds one.
LEMMA CopiesGrow ==
  ASSUME TypeOK, [Next]_vars, NEW k \in Msg
  PROVE  \/ handed'[k] = handed[k]
         \/ handed'[k] = handed[k] + 1 /\ \E w \in Worker : InFlight(w, k)
<1> DEFINE Goal == \/ handed'[k] = handed[k]
                   \/ /\ handed'[k] = handed[k] + 1
                      /\ \E w \in Worker : InFlight(w, k)
<1>2. ASSUME NEW w \in Worker, NEW m \in Msg, Deliver(w, m)
      PROVE  Goal
  <2>1. InFlight(w, m)
    BY <1>2 DEF Deliver, HandOver, Refuse, HandOverUnheard, InFlight
  <2>2. \/ handed' = handed
        \/ handed' = [handed EXCEPT ![m] = @ + 1]
    BY <1>2, Zenon DEF Deliver, HandOver, Refuse, HandOverUnheard
  <2>3. handed'[k] = handed[k] \/ (handed'[k] = handed[k] + 1 /\ k = m)
    BY <2>2 DEF TypeOK
  <2>4. QED
    BY <2>1, <2>3, Zenon
<1>3. ASSUME NEW w \in Worker, NEW m \in Msg, Settle(w, m)
      PROVE  Goal
  <2>1. handed' = handed
    BY <1>3 DEF Settle, RecordAccepted, RecordTransient, RecordFailed, Record
  <2>2. QED
    BY <2>1
<1>4. ASSUME NEW w \in Worker, Claim(w) \/ Crash(w)
      PROVE  Goal
  BY <1>4, Zenon DEF Claim, Crash
<1>5. ASSUME NEW w \in Worker, NEW m \in Msg, RecordingFails(w, m)
      PROVE  Goal
  BY <1>5, Zenon DEF RecordingFails
<1>6. ASSUME (\E m \in Msg, s \in BOOLEAN : Accept(m, s)) \/ Tick \/ Purge
             \/ UNCHANGED vars
      PROVE  Goal
  BY <1>6, Zenon DEF Accept, Tick, Purge, vars
<1> HIDE DEF Goal
<1>7. ASSUME NEW w \in Worker, WorkerStep(w) PROVE Goal
  BY <1>2, <1>3, <1>4, <1>5, <1>7 DEF WorkerStep
<1>8. Goal
  BY <1>6, <1>7 DEF Next
<1>9. QED
  BY <1>8 DEF Goal

\* What a worker holds after a step it held before, or has just claimed, or
\* has just been answered.
LEMMA FlightStep ==
  ASSUME EvidenceInv, [Next]_vars, NEW v \in Worker, NEW k \in Msg
  PROVE  /\ flight'[v][k].at # "idle" =>
              flight'[v][k].attempt \in 1 .. Len(Schedule)
         /\ flight'[v][k].at # "idle" => row[k].status \in {"queued", "sent", "failed"}
         /\ Unrecorded(v, k)' => Unrecorded(v, k) \/ handed'[k] > 0
<1> DEFINE Goal == /\ flight'[v][k].at # "idle" =>
                        flight'[v][k].attempt \in 1 .. Len(Schedule)
                   /\ flight'[v][k].at # "idle" =>
                        row[k].status \in {"queued", "sent", "failed"}
                   /\ Unrecorded(v, k)' => Unrecorded(v, k) \/ handed'[k] > 0
<1>t. TypeOK
  BY DEF EvidenceInv
<1>a. TypeOK /\ row[k] \in Row /\ handed[k] \in Nat
  BY <1>t DEF TypeOK
<1>b. flight[v][k].at # "idle" =>
        /\ flight[v][k].attempt \in 1 .. Len(Schedule)
        /\ row[k].status \in {"queued", "sent", "failed"}
  BY DEF EvidenceInv, FlightEvidence, InFlight
<1>c. ASSUME flight'[v][k] = flight[v][k] PROVE Goal
  BY <1>b, <1>c DEF Unrecorded
<1>d. ASSUME flight'[v][k] = Idle PROVE Goal
  <2>1. flight'[v][k].at = "idle"
    BY <1>d DEF Idle
  <2>2. QED
    BY <2>1 DEF Unrecorded
<1> HIDE DEF Goal
<1>2. ASSUME NEW w \in Worker, Claim(w) PROVE Goal
  <2>1. PICK S \in SUBSET Msg : ClaimTakes(w, S)
    BY <1>2, <1>a, ClaimFrame
  <2>2. CASE v # w
    BY <1>c, <2>1, <2>2 DEF ClaimTakes
  <2>3. CASE v = w /\ k \notin S
    BY <1>d, <2>1, <2>3 DEF ClaimTakes
  <2>4. CASE v = w /\ k \in S
    <3>1. flight'[v][k] = [Idle EXCEPT !.at = "claimed",
                                       !.attempt = row[k].attempts + 1]
      BY <2>1, <2>4 DEF ClaimTakes
    <3>2. row[k].status = "queued"
      BY <2>1, <2>4 DEF ClaimTakes, Due
    <3>3. row[k].attempts < Len(Schedule) /\ row[k].attempts \in Nat
      BY <1>a, <3>2 DEF EvidenceInv, Evidence, Row
    <3>4. flight'[v][k].attempt = row[k].attempts + 1
      BY <3>1 DEF Idle
    <3>5. flight'[v][k].at = "claimed"
      BY <3>1 DEF Idle
    <3>6. row[k].attempts + 1 \in 1 .. Len(Schedule)
      BY <3>3, QueueAssumption
    <3>7. QED
      BY <3>2, <3>4, <3>5, <3>6 DEF Goal, Unrecorded
  <2>5. QED
    BY <2>2, <2>3, <2>4
<1>3. ASSUME NEW w \in Worker, NEW m \in Msg, Deliver(w, m) PROVE Goal
  <2>1. PICK outcome, queueId : Answer(w, m, outcome, queueId)
    BY <1>3 DEF Deliver, HandOver, Refuse, HandOverUnheard
  <2>2. /\ flight'[w][m].attempt = flight[w][m].attempt
        /\ v # w \/ k # m => flight'[v][k] = flight[v][k]
    BY <1>a, <2>1, AnswerFrame
  <2>3. CASE v # w \/ k # m
    BY <1>c, <2>2, <2>3
  <2>4. CASE v = w /\ k = m
    <3>1. flight[v][k].at # "idle"
      BY <1>3, <2>4 DEF Deliver, HandOver, Refuse, HandOverUnheard
    <3>2. Unrecorded(v, k)' => handed'[k] > 0
      <4>1. CASE HandOver(w, m)
        BY <1>a, <2>4, <4>1 DEF HandOver, TypeOK
      <4>2. CASE Refuse(w, m) \/ HandOverUnheard(w, m)
        <5>1. PICK o \in {"transient", "permanent"} : Answer(w, m, o, 0)
          BY <4>2 DEF Refuse, HandOverUnheard
        <5>2. flight'[w][m].outcome # "accepted"
          BY <1>a, <5>1, AnswerFrame
        <5>3. QED
          BY <2>4, <5>2 DEF Unrecorded
      <4>3. QED
        BY <1>3, <4>1, <4>2 DEF Deliver
    <3>3. QED
      BY <1>b, <2>2, <2>4, <3>1, <3>2 DEF Goal
  <2>5. QED
    BY <2>3, <2>4
<1>4. ASSUME NEW w \in Worker, NEW m \in Msg, Settle(w, m) PROVE Goal
  <2>1. PICK newRow, outcome : Record(w, m, newRow, outcome)
    BY <1>4 DEF Settle, RecordAccepted, RecordTransient, RecordFailed
  <2>a. /\ flight'[w][m] = Idle
        /\ \A u \in Worker, n \in Msg :
             u # w \/ n # m => flight'[u][n] = flight[u][n]
    BY <1>t, <2>1, RecordFrame, ZenonT(30)
  <2>2. /\ flight'[w][m] = Idle
        /\ v # w \/ k # m => flight'[v][k] = flight[v][k]
    BY <2>a
  <2>3. QED
    BY <1>c, <1>d, <2>2
<1>5. ASSUME NEW w \in Worker, NEW m \in Msg, RecordingFails(w, m) PROVE Goal
  <2>1. flight'[v][k] = flight[v][k] \/ flight'[v][k] = Idle
    BY <1>5, <1>a DEF RecordingFails, TypeOK
  <2>2. QED
    BY <1>c, <1>d, <2>1
<1>6. ASSUME NEW w \in Worker, Crash(w) PROVE Goal
  <2>1. flight'[v][k] = flight[v][k] \/ flight'[v][k] = Idle
    BY <1>6, <1>a DEF Crash, TypeOK
  <2>2. QED
    BY <1>c, <1>d, <2>1
<1>7. ASSUME NEW w \in Worker, WorkerStep(w) PROVE Goal
  BY <1>2, <1>3, <1>4, <1>5, <1>6, <1>7 DEF WorkerStep
<1>8. ASSUME (\E m \in Msg, s \in BOOLEAN : Accept(m, s)) \/ Tick \/ Purge
             \/ UNCHANGED vars
      PROVE  Goal
  <2>1. flight' = flight
    BY <1>8 DEF Accept, Tick, Purge, vars
  <2>2. QED
    BY <1>c, <2>1
<1>9. Goal
  BY <1>7, <1>8 DEF Next
<1>10. QED
  BY <1>9 DEF Goal

LEMMA OutcomesAppend ==
  ASSUME TypeOK, NEW k \in Msg, NEW a \in Nat, NEW outcome \in Outcome,
         log'[k] = Append(log[k], [attempt |-> a, outcome |-> outcome])
  PROVE  /\ Outcomes(k)' = Outcomes(k) \cup {outcome}
         /\ \A i \in DOMAIN log'[k] :
              \/ i \in DOMAIN log[k] /\ log'[k][i] = log[k][i]
              \/ log'[k][i].attempt = a
<1> DEFINE e == [attempt |-> a, outcome |-> outcome]
<1>1. log[k] \in Seq(Attempt) /\ e \in Attempt
  BY DEF TypeOK, Attempt
<1>2. /\ \A i \in DOMAIN log[k] : i \in DOMAIN log'[k] /\ log'[k][i] = log[k][i]
      /\ \A i \in DOMAIN log'[k] : i \in DOMAIN log[k] \/ i = Len(log[k]) + 1
      /\ Len(log[k]) + 1 \in DOMAIN log'[k]
      /\ log'[k][Len(log[k]) + 1] = e
  BY <1>1, AppendLine
<1>3. e.outcome = outcome /\ e.attempt = a
  OBVIOUS
<1> HIDE DEF e
<1>4. Outcomes(k)' = Outcomes(k) \cup {outcome}
  BY <1>2, <1>3, Zenon DEF Outcomes
<1>5. \A i \in DOMAIN log'[k] :
              \/ i \in DOMAIN log[k] /\ log'[k][i] = log[k][i]
              \/ log'[k][i].attempt = a
  BY <1>2, <1>3, Zenon
<1>6. QED
  BY <1>4, <1>5

\* A message that may be in a worker's hands stays one.
Live(k) == row[k].status \in {"queued", "sent", "failed"}

LEMMA SettleEvidence ==
  ASSUME EvidenceInv, NEW w \in Worker, NEW k \in Msg, Settle(w, k)
  PROVE  Evidence(k)' /\ Live(k)'
<1>t. TypeOK
  BY DEF EvidenceInv
<1>a. row[k] \in Row /\ handed[k] \in Nat /\ flight[w][k] \in Flight
  BY <1>t DEF TypeOK
<1>b. /\ flight[w][k].attempt \in 1 .. Len(Schedule)
      /\ Live(k)
      /\ Unrecorded(w, k) => handed[k] > 0
  BY <1>t, SettleWrites DEF EvidenceInv, FlightEvidence, Live
<1>c. Evidence(k)
  BY DEF EvidenceInv
<1>1. ASSUME NEW newRow, NEW outcome \in Outcome, Record(w, k, newRow, outcome)
      PROVE  /\ row'[k] = newRow /\ handed'[k] = handed[k]
             /\ Outcomes(k)' = Outcomes(k) \cup {outcome}
             /\ \A i \in DOMAIN log'[k] : log'[k][i].attempt <= Len(Schedule)
  <2>1. /\ row'[k] = newRow /\ handed'[k] = handed[k]
        /\ log'[k] = Append(log[k], [attempt |-> flight[w][k].attempt,
                                     outcome |-> outcome])
    BY <1>t, <1>1, RecordFrame
  <2>2. /\ Outcomes(k)' = Outcomes(k) \cup {outcome}
        /\ \A i \in DOMAIN log'[k] :
              \/ i \in DOMAIN log[k] /\ log'[k][i] = log[k][i]
              \/ log'[k][i].attempt = flight[w][k].attempt
    <3>1. flight[w][k].attempt \in Nat
      BY <1>a DEF Flight
    <3>2. QED
      BY <1>t, <2>1, <3>1, OutcomesAppend
  <2>3. \A i \in DOMAIN log[k] : log[k][i].attempt <= Len(Schedule)
    BY <1>c DEF Evidence
  <2>4. \A i \in DOMAIN log'[k] : log'[k][i].attempt <= Len(Schedule)
    BY <1>b, <2>2, <2>3, QueueAssumption, SMTT(30)
  <2>5. QED
    BY <2>1, <2>2, <2>4
<1>2. CASE RecordAccepted(w, k)
  <2>1. Record(w, k, SentRow(w, k), "accepted") /\ Unrecorded(w, k)
    BY <1>2 DEF RecordAccepted, Answered, Unrecorded
  <2>2. SentRow(w, k).status = "sent"
    BY <1>a DEF SentRow, Released, Row
  <2>3. QED
    BY <1>1, <1>b, <2>1, <2>2 DEF Evidence, Live, Outcome
<1>3. CASE RecordTransient(w, k)
  <2>1. Record(w, k, RetryRow(w, k), "transient") /\ HasBackoff(flight[w][k].attempt)
    BY <1>3 DEF RecordTransient
  <2>2. /\ RetryRow(w, k).status = row[k].status
        /\ RetryRow(w, k).attempts = flight[w][k].attempt
        /\ RetryRow(w, k).body = row[k].body
        /\ RetryRow(w, k).completed = row[k].completed
    BY <1>a DEF RetryRow, Released, Row
  <2>3. flight[w][k].attempt < Len(Schedule)
    BY <2>1 DEF HasBackoff
  <2>a. /\ row'[k] = RetryRow(w, k) /\ handed'[k] = handed[k]
        /\ Outcomes(k)' = Outcomes(k) \cup {"transient"}
        /\ \A i \in DOMAIN log'[k] : log'[k][i].attempt <= Len(Schedule)
    BY <1>1, <2>1 DEF Outcome
  <2>4. QED
    BY <1>b, <1>c, <2>2, <2>3, <2>a DEF Evidence, Live
<1>4. CASE RecordFailed(w, k)
  <2>1. Record(w, k, FailedRow(w, k), "permanent")
    BY <1>4 DEF RecordFailed
  <2>2. FailedRow(w, k).status = "failed"
    BY <1>a DEF FailedRow, Released, Row
  <2>3. QED
    BY <1>1, <2>1, <2>2 DEF Evidence, Live, Outcome
<1>5. QED
  BY <1>2, <1>3, <1>4 DEF Settle

LEMMA AcceptEvidence ==
  ASSUME EvidenceInv, NEW k \in Msg, NEW suppressed \in BOOLEAN,
         Accept(k, suppressed)
  PROVE  Evidence(k)' /\ row[k].status = "absent"
<1>t. TypeOK
  BY DEF EvidenceInv
<1>1. /\ row[k].status = "absent" /\ row'[k] = NewRow(suppressed)
      /\ log' = log /\ handed' = handed
  BY <1>t DEF Accept, TypeOK
<1>e. Evidence(k)
  BY DEF EvidenceInv
<1>2. /\ Outcomes(k)' = {} /\ handed'[k] = 0
      /\ \A i \in DOMAIN log'[k] : log'[k][i].attempt <= Len(Schedule)
  <2>1. Outcomes(k)' = Outcomes(k)
    BY <1>1 DEF Outcomes
  <2>2. QED
    BY <1>1, <1>e, <2>1 DEF Evidence
<1>3. CASE suppressed
  <2>1. NewRow(suppressed).status = "suppressed"
    BY <1>3 DEF NewRow, Absent
  <2>2. QED
    BY <1>1, <1>2, <2>1 DEF Evidence
<1>4. CASE ~suppressed
  <2>1. /\ NewRow(suppressed).status = "queued" /\ NewRow(suppressed).attempts = 0
        /\ NewRow(suppressed).body /\ ~NewRow(suppressed).completed
    BY <1>4 DEF NewRow, Absent
  <2>2. 0 < Len(Schedule)
    BY QueueAssumption
  <2>3. QED
    BY <1>1, <1>2, <2>1, <2>2 DEF Evidence
<1>5. QED
  BY <1>1, <1>3, <1>4

LEMMA EvidenceStep ==
  ASSUME EvidenceInv, [Next]_vars
  PROVE  /\ EvidenceInv'
         /\ \A k \in Msg : /\ Live(k) => Live(k)'
                           /\ row[k].status \in {"sent", "failed", "suppressed"}
                                => row'[k].status # "queued"
<1>t. TypeOK /\ TypeOK'
  BY TypeStep DEF EvidenceInv
<1>1. ASSUME NEW k \in Msg
      PROVE  /\ Evidence(k)'
             /\ Live(k) => Live(k)'
             /\ row[k].status \in {"sent", "failed", "suppressed"}
                  => row'[k].status # "queued"
  <2>0. row[k] \in Row /\ row'[k] \in Row /\ handed[k] \in Nat
    BY <1>t DEF TypeOK
  <2>e. Evidence(k)
    BY DEF EvidenceInv
  <2>h. \/ handed'[k] = handed[k]
        \/ (handed'[k] = handed[k] + 1 /\ Live(k))
    BY <1>t, CopiesGrow DEF EvidenceInv, FlightEvidence, Live
  <2>1. CASE Untouched(k)
    <3>1. Outcomes(k)' = Outcomes(k)
      BY <2>1 DEF Untouched, Outcomes
    <3>2. QED
      BY <2>0, <2>1, <2>e, <2>h, <3>1 DEF Untouched, Evidence, Live
  <2>2. ASSUME NEW suppressed \in BOOLEAN, Accept(k, suppressed)
        PROVE  Evidence(k)' /\ row[k].status = "absent"
    BY <2>2, AcceptEvidence
  <2>3. ASSUME NEW w \in Worker, Settle(w, k)
        PROVE  /\ Evidence(k)' /\ Live(k)'
               /\ row'[k].status \in {"sent", "failed", row[k].status}
    BY <1>t, <2>3, SettleEvidence, SettleWrites
  <2>4. QED
    BY <1>t, <2>1, <2>2, <2>3, StepTouches DEF Live
<1>2. FlightEvidence'
  <2> SUFFICES ASSUME NEW v \in Worker, NEW k \in Msg
               PROVE  /\ InFlight(v, k)' =>
                           /\ flight'[v][k].attempt \in 1 .. Len(Schedule)
                           /\ Live(k)'
                      /\ Unrecorded(v, k)' => handed'[k] > 0
    BY DEF FlightEvidence, Live
  <2>1. /\ flight'[v][k].at # "idle" =>
              flight'[v][k].attempt \in 1 .. Len(Schedule)
        /\ flight'[v][k].at # "idle" => Live(k)
        /\ Unrecorded(v, k)' => Unrecorded(v, k) \/ handed'[k] > 0
    BY FlightStep DEF Live
  <2>2. InFlight(v, k)' => flight'[v][k].at # "idle"
    BY DEF InFlight
  <2>3. handed[k] \in Nat /\ (Unrecorded(v, k) => handed[k] > 0)
    BY <1>t DEF EvidenceInv, FlightEvidence, TypeOK
  <2>4. handed'[k] = handed[k] \/ handed'[k] = handed[k] + 1
    BY <1>t, CopiesGrow
  <2>5. Unrecorded(v, k)' => handed'[k] > 0
    BY <2>1, <2>3, <2>4
  <2>6. QED
    BY <1>1, <2>1, <2>2, <2>5
<1>3. QED
  BY <1>1, <1>2, <1>t DEF EvidenceInv

LEMMA EvidenceStart == Init => EvidenceInv
<1> SUFFICES ASSUME Init PROVE EvidenceInv
  OBVIOUS
<1>1. TypeOK
  <2>1. Absent \in Row
    BY DEF Absent, Row, Status
  <2>2. QED
    BY <2>1, IdleType DEF Init, TypeOK
<1>2. FlightEvidence
  <2>1. Idle.at = "idle"
    BY DEF Idle
  <2>2. QED
    BY <2>1 DEF Init, FlightEvidence, InFlight, Unrecorded
<1>3. ASSUME NEW m \in Msg PROVE Evidence(m)
  <2>1. /\ row[m].status = "absent" /\ row[m].attempts = 0
        /\ log[m] = << >> /\ handed[m] = 0
    BY DEF Init, Absent
  <2>2. Outcomes(m) = {}
    BY <2>1 DEF Outcomes
  <2>3. QED
    BY <2>1, <2>2 DEF Evidence
<1>4. QED
  BY <1>1, <1>2, <1>3 DEF EvidenceInv

LEMMA EvidenceInvariant == Spec => []EvidenceInv
<1>1. EvidenceInv /\ [Next]_vars => EvidenceInv'
  BY EvidenceStep
<1>2. QED
  BY EvidenceStart, <1>1, PTL DEF Spec

\* A status is never without its evidence, however late a recording comes:
\* `sent` rests on a logged acceptance and a copy at the relay, `failed` on
\* a permanent line, `suppressed` on no attempt (message::record_*).
THEOREM StatusRestsOnEvidence == Spec => []StatusHasEvidence
<1>1. EvidenceInv => StatusHasEvidence
  <2> SUFFICES ASSUME EvidenceInv, NEW m \in Msg
               PROVE  LET outcomes == {log[m][i].outcome : i \in DOMAIN log[m]}
                      IN  CASE row[m].status = "sent" ->
                                 "accepted" \in outcomes /\ handed[m] > 0
                            [] row[m].status = "failed" -> "permanent" \in outcomes
                            [] row[m].status = "queued" ->
                                 outcomes \subseteq {"transient"}
                            [] OTHER -> outcomes = {} /\ handed[m] = 0
    BY DEF StatusHasEvidence
  <2>1. Evidence(m)
    BY DEF EvidenceInv
  <2>2. row[m].status \in Status
    BY DEF EvidenceInv, TypeOK, Row
  <2>3. QED
    BY <2>1, <2>2 DEF Evidence, Outcomes, Status
<1>2. QED
  BY <1>1, EvidenceInvariant, PTL

\* The schedule bounds the attempts, overrun or not (retry::backoff and
\* message::record_transient).
THEOREM ScheduleBoundsAttempts == Spec => []AttemptsWithinSchedule
<1>1. EvidenceInv => AttemptsWithinSchedule
  BY DEF EvidenceInv, Evidence, AttemptsWithinSchedule
<1>2. QED
  BY <1>1, EvidenceInvariant, PTL

\* Retention never empties a message some claim can still return
\* (message::purge_bodies against message::claim).
THEOREM QueuedHasBody == Spec => []RetryableHasBody
<1>1. EvidenceInv => RetryableHasBody
  BY DEF EvidenceInv, Evidence, RetryableHasBody
<1>2. QED
  BY <1>1, EvidenceInvariant, PTL

\* A finished message never goes back in the queue, however late another
\* worker's recording of it comes (message::record_transient).
THEOREM FinishedIsNotRequeued == Spec => NeverRequeued
<1>1. EvidenceInv /\ [Next]_vars =>
        [\A m \in Msg : row[m].status \in {"sent", "failed", "suppressed"}
                          => row'[m].status # "queued"]_row
  BY EvidenceStep
<1>2. QED
  BY <1>1, EvidenceInvariant, PTL DEF Spec, NeverRequeued
=============================================================================
