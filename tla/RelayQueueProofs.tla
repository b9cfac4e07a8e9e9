-------------------------- MODULE RelayQueueProofs --------------------------
(***************************************************************************)
(* Theorems about module RelayQueue, for every set of messages and reports *)
(* and every length of the grace.                                          *)
(***************************************************************************)
EXTENDS RelayQueue, TLAPS

-----------------------------------------------------------------------------
(* Types.                                                                  *)

LEMMA Bounds == Grace \in Nat /\ MaxLag \in Nat /\ MaxFaults \in Nat
  BY RelayQueueAssumption

\* What a notification holds is a sequence of kinds.
LEMMA BlocksAreSeqs == Blocks \subseteq Seq(Kind \cup {"unreadable"})
<1>1. <<"transient">> \in Seq(Kind \cup {"unreadable"})
  BY DEF Kind
<1>2. Unreadable \in Seq(Kind \cup {"unreadable"})
  BY DEF Unreadable
<1>3. Seq(Kind) \subseteq Seq(Kind \cup {"unreadable"})
  OBVIOUS
<1>4. << >> \in Seq(Kind \cup {"unreadable"})
  OBVIOUS
<1>5. QED
  BY <1>1, <1>2, <1>3, <1>4, RelayQueueAssumption DEF Blocks

LEMMA BlocksAreKinds ==
  ASSUME TypeOK, NEW m \in Msg, NEW c \in Cause
  PROVE  /\ dsn[m][c] \in Dsn
         /\ dsn[m][c].blocks \in Seq(Kind \cup {"unreadable"})
         /\ dsn[m][c].next \in Nat \ {0}
<1>1. dsn[m][c] \in Dsn
  BY DEF TypeOK
<1>2. dsn[m][c].blocks \in Blocks /\ dsn[m][c].next \in Nat \ {0}
  BY <1>1 DEF Dsn
<1>3. QED
  BY <1>1, <1>2, BlocksAreSeqs

LEMMA BlockType ==
  ASSUME TypeOK, NEW m \in Msg, NEW c \in Cause, AtBlock(m, c)
  PROVE  Block(m, c) \in Kind \cup {"unreadable"}
  BY BlocksAreKinds DEF AtBlock, Block

\* One notification changes, to a Dsn: the function keeps its type.
LEMMA DsnUpdate ==
  ASSUME TypeOK, NEW m \in Msg, NEW c \in Cause, NEW d \in Dsn,
         dsn' = [dsn EXCEPT ![m][c] = d]
  PROVE  dsn' \in [Msg -> [Cause -> Dsn]]
  BY DEF TypeOK

LEMMA IngestionType ==
  ASSUME TypeOK, NEW m \in Msg, NEW c \in Cause,
         NEW next \in Nat \ {0}, NEW half \in BOOLEAN,
         Ingestion(m, c, next, half)
  PROVE  dsn' \in [Msg -> [Cause -> Dsn]]
<1>1. [dsn[m][c] EXCEPT !.next = next, !.half = half] \in Dsn
  BY BlocksAreKinds DEF Dsn
<1>2. QED
  BY <1>1, DsnUpdate DEF Ingestion

LEMMA SendType ==
  ASSUME TypeOK, NEW m \in Msg, NEW c \in Cause,
         NEW blocks \in Blocks,
         Send(m, c, blocks)
  PROVE  dsn' \in [Msg -> [Cause -> Dsn]]
<1>1. [at |-> "queued", blocks |-> blocks, next |-> 1, half |-> FALSE] \in Dsn
  BY DEF Dsn
<1>2. QED
  BY <1>1, DsnUpdate DEF Send

\* An open report lists every message and has an age.
LEMMA OpenReport ==
  ASSUME TypeOK, NEW p \in Post, report[p].open
  PROVE  /\ report[p].lists \in [Msg -> Held \cup {"gone"}]
         /\ report[p].age \in Nat /\ report[p].age <= MaxLag
         /\ report[p] \in [open : {TRUE}, lists : [Msg -> Held \cup {"gone"}],
                           age : 0 .. MaxLag]
<1>1. report[p] \in Report /\ report[p] # NoReport
  BY DEF TypeOK, NoReport
<1>2. report[p] \in [open : {TRUE}, lists : [Msg -> Held \cup {"gone"}],
                     age : 0 .. MaxLag]
  BY <1>1 DEF Report
<1>3. report[p].age \in 0 .. MaxLag
  BY <1>2
<1>4. report[p].age \in Nat /\ report[p].age <= MaxLag
  BY <1>3, Bounds
<1>5. report[p].lists \in [Msg -> Held \cup {"gone"}]
  BY <1>2
<1>6. QED
  BY <1>2, <1>4, <1>5

LEMMA AgedType ==
  ASSUME NEW r \in Row
  PROVE  /\ Aged(r) \in Row
         /\ Aged(r).sent = r.sent /\ Aged(r).known = r.known
         /\ Aged(r).state = r.state
         /\ Aged(r).age \in {r.age, r.age + 1}
         /\ ~r.sent => Aged(r).age = r.age
<1>1. r.age \in 0 .. Grace + 1 /\ Grace \in Nat
  BY RelayQueueAssumption DEF Row
<1>2. CASE r.sent /\ r.age <= Grace
  <2>1. r.age + 1 \in 0 .. Grace + 1
    BY <1>1, <1>2
  <2>2. Aged(r) = [r EXCEPT !.age = r.age + 1]
    BY <1>2 DEF Aged
  <2>3. QED
    BY <1>2, <2>1, <2>2 DEF Row
<1>3. CASE ~(r.sent /\ r.age <= Grace)
  BY <1>1, <1>3 DEF Aged
<1>4. QED
  BY <1>2, <1>3

LEMMA TickType ==
  ASSUME TypeOK, Tick
  PROVE  row' \in [Msg -> Row] /\ report' \in [Post -> Report]
<1>1. row' \in [Msg -> Row]
  BY AgedType DEF Tick, TypeOK
<1>2. ASSUME NEW p \in Post PROVE report'[p] \in Report
  <2>1. CASE report[p].open
    <3>1. report[p].age + 1 \in 0 .. MaxLag
      <4>1. report[p].age < MaxLag
        BY <2>1 DEF Tick
      <4>2. QED
        <5>1. report[p].age \in Nat
          BY <2>1, OpenReport
        <5>2. QED
          BY <4>1, <5>1, Bounds
    <3>2. report'[p] = [report[p] EXCEPT !.age = @ + 1]
      BY <2>1 DEF Tick
    <3>3. QED
      BY <2>1, <3>1, <3>2, OpenReport DEF Report
  <2>2. CASE ~report[p].open
    BY <2>2 DEF Tick, TypeOK
  <2>3. QED
    BY <2>1, <2>2
<1>3. QED
  BY <1>1, <1>2 DEF Tick

LEMMA TypeInit == Init => TypeOK
<1> SUFFICES ASSUME Init PROVE TypeOK
  OBVIOUS
<1>1. row \in [Msg -> Row]
  BY RelayQueueAssumption DEF Init, Row
<1>2. NoDsn \in Dsn
  <2>1. << >> \in Blocks
    BY DEF Blocks
  <2>2. QED
    BY <2>1 DEF NoDsn, Dsn
<1>3. dsn \in [Msg -> [Cause -> Dsn]]
  BY <1>2 DEF Init
<1>4. relay \in [Msg -> Where] /\ report \in [Post -> Report]
  BY DEF Init, Where, Report
<1>5. stored \subseteq BounceReport /\ faults \in 0 .. MaxFaults
      /\ suppressed \subseteq [msg : Msg, rcpt : Nat \ {0}]
  BY RelayQueueAssumption DEF Init
<1>6. QED
  BY <1>1, <1>3, <1>4, <1>5 DEF TypeOK

LEMMA TypeStep == TypeOK /\ [Next]_vars => TypeOK'
<1> SUFFICES ASSUME TypeOK, [Next]_vars PROVE TypeOK'
  OBVIOUS
<1>1. ASSUME NEW m \in Msg, HandOver(m) PROVE TypeOK'
  BY <1>1 DEF TypeOK, HandOver, Where, Held
<1>2. ASSUME NEW m \in Msg, Move(m) PROVE TypeOK'
  BY <1>2 DEF TypeOK, Move, Where, Held
<1>3. ASSUME NEW m \in Msg, Bounce(m) PROVE TypeOK'
  <2>1. dsn' \in [Msg -> [Cause -> Dsn]]
    BY <1>3, SendType DEF Bounce, Cause, Blocks
  <2>2. QED
    BY <1>3, <2>1 DEF TypeOK, Bounce, Where
<1>4. ASSUME NEW m \in Msg, Delay(m) PROVE TypeOK'
  <2>1. dsn' \in [Msg -> [Cause -> Dsn]]
    BY <1>4, SendType DEF Delay, Cause, Blocks
  <2>2. QED
    BY <1>4, <2>1 DEF TypeOK, Delay
<1>5. ASSUME NEW m \in Msg, NEW known \in BOOLEAN, Record(m, known)
      PROVE  TypeOK'
  BY <1>5 DEF TypeOK, Record, Row
<1>6. ASSUME NEW p \in Post, Take(p) PROVE TypeOK'
  <2>1. [open  |-> TRUE, age |-> 0,
         lists |-> [m \in Msg |-> IF relay[m] \in Held THEN relay[m]
                                                        ELSE "gone"]] \in Report
    BY RelayQueueAssumption DEF Report
  <2>2. report' \in [Post -> Report]
    BY <1>6, <2>1 DEF Take, TypeOK
  <2>3. QED
    BY <1>6, <2>2 DEF TypeOK, Take
<1>7. ASSUME NEW p \in Post, Reconcile(p) PROVE TypeOK'
  <2>1. row' \in [Msg -> Row]
    BY <1>7, SMTT(30) DEF Reconcile, TypeOK, Row, Held
  <2>2. QED
    BY <1>7, <2>1 DEF TypeOK, Reconcile, Report
<1>8. ASSUME NEW p \in Post, LoseReport(p) PROVE TypeOK'
  <2>1. faults' \in 0 .. MaxFaults
    BY <1>8, RelayQueueAssumption DEF TypeOK, LoseReport
  <2>2. report' \in [Post -> Report]
    BY <1>8 DEF TypeOK, LoseReport, Report
  <2>3. QED
    BY <1>8, <2>1, <2>2 DEF TypeOK, LoseReport
<1>9. ASSUME NEW m \in Msg, NEW c \in Cause, Store(m, c) PROVE TypeOK'
  <2>1. dsn' \in [Msg -> [Cause -> Dsn]]
    <3>1. \/ Ingestion(m, c, dsn[m][c].next, TRUE)
          \/ Ingestion(m, c, dsn[m][c].next + 1, FALSE)
      BY <1>9 DEF Store
    <3>2. dsn[m][c].next \in Nat \ {0} /\ dsn[m][c].next + 1 \in Nat \ {0}
      BY BlocksAreKinds
    <3>3. TRUE \in BOOLEAN /\ FALSE \in BOOLEAN
      OBVIOUS
    <3>4. QED
      BY <3>1, <3>2, <3>3, IngestionType
  <2>2. row[m].known \in BOOLEAN
    BY DEF TypeOK, Row
  <2>3. (row[m].known /\ Block(m, c) # "unreadable") \in BOOLEAN
    OBVIOUS
  <2>4. stored' \subseteq BounceReport
    <3>1. Block(m, c) \in Kind \cup {"unreadable"}
      BY <1>9, BlockType DEF Store
    <3>2. [msg |-> m, rcpt |-> dsn[m][c].next, kind |-> Block(m, c),
           matched |-> row[m].known /\ Block(m, c) # "unreadable"]
             \in BounceReport
      BY <2>3, <3>1, BlocksAreKinds DEF BounceReport
    <3>3. QED
      BY <1>9, <3>2 DEF Store, TypeOK
  <2>5. QED
    BY <1>9, <2>1, <2>4 DEF TypeOK, Store
<1>10. ASSUME NEW m \in Msg, NEW c \in Cause, Suppress(m, c) PROVE TypeOK'
  <2>1. dsn' \in [Msg -> [Cause -> Dsn]]
    <3>1. Ingestion(m, c, dsn[m][c].next + 1, FALSE)
      BY <1>10 DEF Suppress
    <3>2. dsn[m][c].next + 1 \in Nat \ {0} /\ FALSE \in BOOLEAN
      BY BlocksAreKinds
    <3>3. QED
      BY <3>1, <3>2, IngestionType
  <2>2. suppressed' \subseteq [msg : Msg, rcpt : Nat \ {0}]
    BY <1>10, BlocksAreKinds DEF Suppress, TypeOK
  <2>3. QED
    BY <1>10, <2>1, <2>2 DEF TypeOK, Suppress
<1>11. ASSUME NEW m \in Msg, NEW c \in Cause, Acknowledge(m, c) PROVE TypeOK'
  <2>1. [dsn[m][c] EXCEPT !.at = "handled"] \in Dsn
    BY BlocksAreKinds DEF Dsn
  <2>2. dsn' \in [Msg -> [Cause -> Dsn]]
    BY <1>11, <2>1 DEF Acknowledge, TypeOK
  <2>3. QED
    BY <1>11, <2>2 DEF TypeOK, Acknowledge
<1>12. ASSUME NEW m \in Msg, NEW c \in Cause, Requeue(m, c) PROVE TypeOK'
  <2>1. dsn' \in [Msg -> [Cause -> Dsn]]
    <3>1. Ingestion(m, c, 1, FALSE)
      BY <1>12 DEF Requeue
    <3>2. 1 \in Nat \ {0} /\ FALSE \in BOOLEAN
      OBVIOUS
    <3>3. QED
      BY <3>1, <3>2, IngestionType
  <2>2. QED
    BY <1>12, <2>1, RelayQueueAssumption DEF TypeOK, Requeue
<1>13. CASE Tick
  BY <1>13, TickType DEF TypeOK, Tick
<1>14. CASE UNCHANGED vars
  BY <1>14 DEF TypeOK, vars
<1>15. QED
  BY <1>1, <1>2, <1>3, <1>4, <1>5, <1>6, <1>7, <1>8, <1>9, <1>10, <1>11,
     <1>12, <1>13, <1>14 DEF Next, Ingest

\* The state of the relay, of the row that follows it and of both kinds of
\* report has its type, in every reachable state.
THEOREM TypeCorrect == Spec => []TypeOK
  BY TypeInit, TypeStep, PTL DEF Spec

-----------------------------------------------------------------------------
(* Concluding delivery from absence.                                       *)

\* A handoff that is recorded happened, and its age counts from there.
RecordedWasHandedOver ==
  \A m \in Msg : /\ row[m].sent => relay[m] # "none"
                 /\ ~row[m].sent => row[m].age = 0

\* A message the relay holds, but a report on its way does not list, was
\* handed over after the listing: the handoff is not older than the report.
UnlistedIsYounger ==
  \A p \in Post, m \in Msg :
    /\ report[p].open /\ report[p].lists[m] = "gone"
    /\ relay[m] \in Held /\ row[m].sent
    => row[m].age <= report[p].age

ConclusionInv ==
  TypeOK /\ RecordedWasHandedOver /\ UnlistedIsYounger /\ ConcludedHasLeft

\* A step that leaves rows and reports alone and moves copies only forward
\* keeps the invariant's last three conjuncts.
LEMMA RelayMoves ==
  ASSUME ConclusionInv, row' = row, report' = report,
         \A m \in Msg :
           \/ relay'[m] = relay[m]
           \/ relay[m] = "none" /\ relay'[m] \in Held
           \/ relay[m] \in Held /\ relay'[m] # "none"
  PROVE  RecordedWasHandedOver' /\ UnlistedIsYounger' /\ ConcludedHasLeft'
<1>1. RecordedWasHandedOver'
  BY DEF ConclusionInv, RecordedWasHandedOver, Held
<1>2. ASSUME NEW p \in Post, NEW m \in Msg,
             report[p].open, report[p].lists[m] = "gone",
             relay'[m] \in Held, row[m].sent
      PROVE  row[m].age <= report[p].age
  <2>1. relay[m] # "none"
    BY <1>2 DEF ConclusionInv, RecordedWasHandedOver
  <2>2. relay[m] \in Held
    BY <1>2, <2>1
  <2>3. QED
    BY <1>2, <2>2 DEF ConclusionInv, UnlistedIsYounger
<1>3. UnlistedIsYounger'
  BY <1>2 DEF UnlistedIsYounger
<1>4. ConcludedHasLeft'
  BY DEF ConclusionInv, ConcludedHasLeft, Held
<1>5. QED
  BY <1>1, <1>3, <1>4

LEMMA RecordKeepsConclusion ==
  ASSUME ConclusionInv, NEW m \in Msg, NEW known \in BOOLEAN, Record(m, known)
  PROVE  RecordedWasHandedOver' /\ UnlistedIsYounger' /\ ConcludedHasLeft'
<1>1. row[m] \in Row /\ row \in [Msg -> Row]
  BY DEF ConclusionInv, TypeOK
<1>2. /\ row'[m].age = 0 /\ row'[m].state = row[m].state
      /\ relay'[m] # "none" /\ row'[m].sent
  BY <1>1 DEF Record, Row, ConclusionInv, RecordedWasHandedOver
<1>3. \A n \in Msg : n # m => row'[n] = row[n]
  BY <1>1 DEF Record
<1>4. ASSUME NEW p \in Post, report[p].open PROVE 0 <= report[p].age
  <2>1. report[p].age \in Nat
    BY <1>4, OpenReport DEF ConclusionInv
  <2>2. QED
    BY <2>1
<1>5. relay' = relay /\ report' = report
  BY DEF Record
<1>6. RecordedWasHandedOver'
  BY <1>2, <1>3, <1>5 DEF ConclusionInv, RecordedWasHandedOver
<1>7. UnlistedIsYounger'
  BY <1>2, <1>3, <1>4, <1>5 DEF ConclusionInv, UnlistedIsYounger
<1>8. ConcludedHasLeft'
  BY <1>2, <1>3, <1>5 DEF ConclusionInv, ConcludedHasLeft
<1>9. QED
  BY <1>6, <1>7, <1>8

LEMMA TakeKeepsConclusion ==
  ASSUME ConclusionInv, NEW p \in Post, Take(p)
  PROVE  RecordedWasHandedOver' /\ UnlistedIsYounger' /\ ConcludedHasLeft'
<1>1. relay' = relay /\ row' = row
  BY DEF Take
<1>2. \A q \in Post : q # p => report'[q] = report[q]
  BY DEF Take, ConclusionInv, TypeOK
<1>3. \A m \in Msg : relay[m] \in Held => report'[p].lists[m] # "gone"
  BY DEF Take, ConclusionInv, TypeOK, Held
<1>4. UnlistedIsYounger'
  BY <1>1, <1>2, <1>3 DEF ConclusionInv, UnlistedIsYounger
<1>5. QED
  BY <1>1, <1>4 DEF ConclusionInv, RecordedWasHandedOver, ConcludedHasLeft

\* The step it is all about: what is concluded has left, because its
\* handoff is older than the grace and the report is not.
LEMMA ReconcileKeepsConclusion ==
  ASSUME MaxLag <= Grace, ConclusionInv, NEW p \in Post, Reconcile(p)
  PROVE  RecordedWasHandedOver' /\ UnlistedIsYounger' /\ ConcludedHasLeft'
<1>1. relay' = relay
  BY DEF Reconcile
<1>2. ASSUME NEW m \in Msg
      PROVE  /\ row'[m].sent = row[m].sent /\ row'[m].age = row[m].age
             /\ row'[m].state = "delivered" =>
                  \/ row[m].state = "delivered"
                  \/ report[p].lists[m] = "gone" /\ Concludes(m)
  BY DEF Reconcile, ConclusionInv, TypeOK, Row, Held
<1>3. /\ ~report'[p].open
      /\ \A q \in Post : q # p => report'[q] = report[q]
  BY DEF Reconcile, ConclusionInv, TypeOK, NoReport
<1>4. RecordedWasHandedOver'
  BY <1>1, <1>2 DEF ConclusionInv, RecordedWasHandedOver
<1>5. UnlistedIsYounger'
  BY <1>1, <1>2, <1>3 DEF ConclusionInv, UnlistedIsYounger
<1>6. ASSUME NEW m \in Msg, report[p].lists[m] = "gone", Concludes(m)
      PROVE  relay[m] \in {"delivered", "bounced"}
  <2>1. report[p].open /\ report[p].age \in Nat /\ report[p].age <= MaxLag
    BY OpenReport DEF ConclusionInv, Reconcile
  <2>2. row[m].age \in 0 .. Grace + 1
    BY DEF ConclusionInv, TypeOK, Row
  <2>3. row[m].sent /\ row[m].age > Grace
    BY <1>6 DEF Concludes
  <2>4. ~(row[m].age <= report[p].age)
    BY <2>1, <2>2, <2>3, RelayQueueAssumption
  <2>5. relay[m] \notin Held
    BY <1>6, <2>1, <2>3, <2>4 DEF ConclusionInv, UnlistedIsYounger
  <2>6. relay[m] \in Where /\ relay[m] # "none"
    BY <2>3 DEF ConclusionInv, TypeOK, RecordedWasHandedOver
  <2>7. QED
    BY <2>5, <2>6 DEF Where
<1>7. ConcludedHasLeft'
  BY <1>1, <1>2, <1>6 DEF ConclusionInv, ConcludedHasLeft
<1>8. QED
  BY <1>4, <1>5, <1>7

LEMMA TickKeepsConclusion ==
  ASSUME ConclusionInv, Tick
  PROVE  RecordedWasHandedOver' /\ UnlistedIsYounger' /\ ConcludedHasLeft'
<1>1. relay' = relay
  BY DEF Tick
<1>2. ASSUME NEW m \in Msg
      PROVE  /\ row'[m].sent = row[m].sent /\ row'[m].state = row[m].state
             /\ row'[m].age \in {row[m].age, row[m].age + 1}
             /\ ~row[m].sent => row'[m].age = row[m].age
             /\ row[m].age \in Nat
  <2>1. row[m] \in Row /\ row'[m] = Aged(row[m])
    BY DEF Tick, ConclusionInv, TypeOK
  <2>2. row[m].age \in Nat
    BY <2>1, RelayQueueAssumption DEF Row
  <2>3. QED
    BY <2>1, <2>2, AgedType
<1>3. ASSUME NEW p \in Post
      PROVE  /\ report'[p].open = report[p].open
             /\ report[p].open => /\ report'[p].lists = report[p].lists
                                  /\ report'[p].age = report[p].age + 1
                                  /\ report[p].age \in Nat
  <2>1. CASE report[p].open
    <3>1. report'[p] = [report[p] EXCEPT !.age = @ + 1]
      BY <2>1 DEF Tick
    <3>2. /\ report[p].age \in Nat
          /\ report[p] \in [open : {TRUE}, lists : [Msg -> Held \cup {"gone"}],
                            age : 0 .. MaxLag]
      BY <2>1, OpenReport DEF ConclusionInv
    <3>3. QED
      BY <2>1, <3>1, <3>2
  <2>2. CASE ~report[p].open
    BY <2>2 DEF Tick
  <2>3. QED
    BY <2>1, <2>2
<1>4. RecordedWasHandedOver'
  BY <1>1, <1>2 DEF ConclusionInv, RecordedWasHandedOver
<1>5. ASSUME NEW p \in Post, NEW m \in Msg,
             report'[p].open, report'[p].lists[m] = "gone",
             relay'[m] \in Held, row'[m].sent
      PROVE  row'[m].age <= report'[p].age
  <2>1. row[m].age <= report[p].age
    BY <1>1, <1>2, <1>3, <1>5 DEF ConclusionInv, UnlistedIsYounger
  <2>2. QED
    BY <1>2, <1>3, <1>5, <2>1
<1>6. UnlistedIsYounger'
  BY <1>5 DEF UnlistedIsYounger
<1>7. ConcludedHasLeft'
  BY <1>1, <1>2 DEF ConclusionInv, ConcludedHasLeft
<1>8. QED
  BY <1>4, <1>6, <1>7

LEMMA ConclusionStep ==
  MaxLag <= Grace /\ ConclusionInv /\ [Next]_vars => ConclusionInv'
<1> SUFFICES ASSUME MaxLag <= Grace, ConclusionInv, [Next]_vars
             PROVE  ConclusionInv'
  OBVIOUS
<1> DEFINE Goal == RecordedWasHandedOver' /\ UnlistedIsYounger' /\ ConcludedHasLeft'
<1>1. ASSUME NEW m \in Msg, HandOver(m) \/ Move(m) \/ Bounce(m) \/ Delay(m)
      PROVE  Goal
  <2>1. row' = row /\ report' = report
    BY <1>1 DEF HandOver, Move, Bounce, Delay
  <2>2. relay \in [Msg -> Where]
    BY DEF ConclusionInv, TypeOK
  <2>3. ASSUME NEW n \in Msg
        PROVE  \/ relay'[n] = relay[n]
               \/ relay[n] = "none" /\ relay'[n] \in Held
               \/ relay[n] \in Held /\ relay'[n] # "none"
    BY <1>1, <2>2 DEF HandOver, Move, Bounce, Delay, Held
  <2>4. QED
    BY <2>1, <2>3, RelayMoves
<1>2. ASSUME NEW m \in Msg, NEW known \in BOOLEAN, Record(m, known)
      PROVE  Goal
  BY <1>2, RecordKeepsConclusion
<1>3. ASSUME NEW p \in Post, Take(p) PROVE Goal
  BY <1>3, TakeKeepsConclusion
<1>4. ASSUME NEW p \in Post, Reconcile(p) PROVE Goal
  BY <1>4, ReconcileKeepsConclusion
<1>5. ASSUME NEW p \in Post, LoseReport(p) PROVE Goal
  <2>1. row' = row /\ relay' = relay
    BY <1>5 DEF LoseReport
  <2>2. /\ ~report'[p].open
        /\ \A q \in Post : q # p => report'[q] = report[q]
    BY <1>5 DEF LoseReport, ConclusionInv, TypeOK, NoReport
  <2>3. UnlistedIsYounger'
    BY <2>1, <2>2 DEF ConclusionInv, UnlistedIsYounger
  <2>4. QED
    BY <2>1, <2>3 DEF ConclusionInv, RecordedWasHandedOver, ConcludedHasLeft
<1>6. ASSUME NEW m \in Msg, NEW c \in Cause, Ingest(m, c) \/ Requeue(m, c)
      PROVE  Goal
  <2>1. row' = row /\ report' = report /\ relay' = relay
    BY <1>6 DEF Ingest, Store, Suppress, Acknowledge, Requeue
  <2>2. QED
    BY <2>1, RelayMoves
<1>7. ASSUME Tick PROVE Goal
  BY <1>7, TickKeepsConclusion
<1>8. ASSUME UNCHANGED vars PROVE Goal
  <2>1. row' = row /\ report' = report /\ relay' = relay
    BY <1>8 DEF vars
  <2>2. QED
    BY <2>1, RelayMoves
<1>9. TypeOK'
  BY TypeStep DEF ConclusionInv
<1>10. Goal
  <2> HIDE DEF Goal
  <2> QED
    BY <1>1, <1>2, <1>3, <1>4, <1>5, <1>6, <1>7, <1>8 DEF Next
<1>11. QED
  BY <1>9, <1>10 DEF ConclusionInv

\* A message is never called delivered while the relay holds it, for every
\* number of reports on their way at once, as long as none of them takes
\* longer than the grace.
THEOREM AbsenceMeansLeft ==
  ASSUME MaxLag <= Grace
  PROVE  Spec => []ConcludedHasLeft
<1>1. Init => ConclusionInv
  BY TypeInit DEF Init, ConclusionInv, RecordedWasHandedOver,
     UnlistedIsYounger, ConcludedHasLeft, NoReport
<1>2. ConclusionInv /\ [Next]_vars => ConclusionInv'
  BY ConclusionStep
<1>3. ConclusionInv => ConcludedHasLeft
  BY DEF ConclusionInv
<1>4. QED
  BY <1>1, <1>2, <1>3, PTL DEF Spec

-----------------------------------------------------------------------------
(* Ingesting notifications.                                                *)

IsStored(m, c, i) ==
  \E b \in stored : b.msg = m /\ b.rcpt = i /\ b.kind = dsn[m][c].blocks[i]

\* How far an ingestion is, and what is in the database by then.
ThroughTo(m, c) ==
  /\ dsn[m][c].at # "none" =>
       \A i \in DOMAIN dsn[m][c].blocks : i < dsn[m][c].next =>
         /\ IsStored(m, c, i)
         /\ dsn[m][c].blocks[i] = "dead" => [msg |-> m, rcpt |-> i] \in suppressed
  /\ dsn[m][c].half => AtBlock(m, c) /\ Block(m, c) = "dead"
                        /\ IsStored(m, c, dsn[m][c].next)
  /\ dsn[m][c].at = "handled" => dsn[m][c].next > Len(dsn[m][c].blocks)

IngestionInv ==
  /\ TypeOK
  /\ SuppressedOnEvidence
  /\ \A m \in Msg, c \in Cause : ThroughTo(m, c)

\* The tables only grow, so what holds of an ingestion no step has moved
\* still holds.
LEMMA Unmoved ==
  ASSUME NEW m \in Msg, NEW c \in Cause, ThroughTo(m, c),
         dsn'[m][c] = dsn[m][c],
         stored \subseteq stored', suppressed \subseteq suppressed'
  PROVE  ThroughTo(m, c)'
  BY DEF ThroughTo, IsStored, AtBlock, Block

\* A step of one ingestion leaves every other one alone.
LEMMA OthersUnmoved ==
  ASSUME IngestionInv, NEW m \in Msg, NEW c \in Cause, NEW d,
         dsn' = [dsn EXCEPT ![m][c] = d],
         stored \subseteq stored', suppressed \subseteq suppressed',
         ThroughTo(m, c)'
  PROVE  \A n \in Msg, k \in Cause : ThroughTo(n, k)'
<1>1. ASSUME NEW n \in Msg, NEW k \in Cause, ~(n = m /\ k = c)
      PROVE  ThroughTo(n, k)'
  <2>1. dsn'[n][k] = dsn[n][k]
    BY <1>1 DEF IngestionInv, TypeOK
  <2>2. ThroughTo(n, k)
    BY DEF IngestionInv
  <2>3. QED
    BY <2>1, <2>2, Unmoved
<1>2. QED
  BY <1>1

\* The notification a step has put in place.
LEMMA Updated ==
  ASSUME TypeOK, NEW m \in Msg, NEW c \in Cause, NEW d,
         dsn' = [dsn EXCEPT ![m][c] = d]
  PROVE  dsn'[m][c] = d
  BY DEF TypeOK

\* An ingestion that has finished with a block.
LEMMA MovedOn ==
  ASSUME TypeOK, NEW m \in Msg, NEW c \in Cause, NEW next,
         Ingestion(m, c, next, FALSE)
  PROVE  /\ dsn'[m][c].at = dsn[m][c].at
         /\ dsn'[m][c].blocks = dsn[m][c].blocks
         /\ dsn'[m][c].next = next /\ ~dsn'[m][c].half
  BY BlocksAreKinds DEF Ingestion, TypeOK, Dsn

\* A notification that was just sent has nothing behind it.
LEMMA FreshNotification ==
  ASSUME IngestionInv, NEW m \in Msg, NEW c \in Cause, NEW blocks \in Blocks,
         Send(m, c, blocks), stored' = stored, suppressed' = suppressed
  PROVE  \A n \in Msg, k \in Cause : ThroughTo(n, k)'
<1> DEFINE d == [at |-> "queued", blocks |-> blocks, next |-> 1, half |-> FALSE]
<1>1. dsn' = [dsn EXCEPT ![m][c] = d]
  BY DEF Send
<1>2. dsn'[m][c] = d
  BY <1>1, Updated DEF IngestionInv
<1>3. \A i \in DOMAIN blocks : ~(i < 1)
  BY BlocksAreSeqs
<1>4. ThroughTo(m, c)'
  BY <1>2, <1>3 DEF ThroughTo
<1>5. QED
  BY <1>1, <1>4, OthersUnmoved

LEMMA StoreKeeps ==
  ASSUME IngestionInv, NEW m \in Msg, NEW c \in Cause, Store(m, c)
  PROVE  \A n \in Msg, k \in Cause : ThroughTo(n, k)'
<1> DEFINE i0 == dsn[m][c].next
           blocks == dsn[m][c].blocks
<1>1. TypeOK /\ ThroughTo(m, c) /\ AtBlock(m, c) /\ ~dsn[m][c].half
  BY DEF IngestionInv, Store
<1>2. stored \subseteq stored' /\ suppressed' = suppressed
  BY DEF Store
<1>3. \E b \in stored' : b.msg = m /\ b.rcpt = i0 /\ b.kind = blocks[i0]
  <2> DEFINE b0 == [msg |-> m, rcpt |-> i0, kind |-> Block(m, c),
                    matched |-> row[m].known /\ Block(m, c) # "unreadable"]
  <2>1. b0 \in stored'
    BY DEF Store
  <2>2. b0.msg = m /\ b0.rcpt = i0 /\ b0.kind = blocks[i0]
    BY DEF Block
  <2>3. QED
    BY <2>1, <2>2
<1>4. i0 \in Nat /\ DOMAIN blocks \subseteq Nat
  BY <1>1, BlocksAreKinds
<1>5. \A i \in DOMAIN blocks : i < i0 =>
        /\ \E b \in stored' : b.msg = m /\ b.rcpt = i /\ b.kind = blocks[i]
        /\ blocks[i] = "dead" => [msg |-> m, rcpt |-> i] \in suppressed'
  BY <1>1, <1>2 DEF ThroughTo, AtBlock, IsStored
<1>6. CASE ShouldSuppress(Block(m, c))
  <2>1. Ingestion(m, c, i0, TRUE)
    BY <1>6 DEF Store
  <2>2. /\ dsn'[m][c].at = "queued" /\ dsn'[m][c].blocks = blocks
        /\ dsn'[m][c].next = i0
    BY <1>1, <2>1, BlocksAreKinds DEF Ingestion, TypeOK, Dsn, AtBlock
  <2>3. blocks[i0] = "dead" /\ i0 <= Len(blocks)
    BY <1>1, <1>6 DEF ShouldSuppress, Block, AtBlock
  <2>4. AtBlock(m, c)' /\ Block(m, c)' = "dead" /\ IsStored(m, c, dsn[m][c].next)'
    BY <1>3, <2>2, <2>3 DEF AtBlock, Block, IsStored
  <2>5. ThroughTo(m, c)'
    BY <1>5, <2>2, <2>4 DEF ThroughTo, IsStored
  <2>6. QED
    BY <1>2, <2>1, <2>5, OthersUnmoved DEF Ingestion
<1>7. CASE ~ShouldSuppress(Block(m, c))
  <2>1. Ingestion(m, c, i0 + 1, FALSE)
    BY <1>7 DEF Store
  <2>2. /\ dsn'[m][c].at = "queued" /\ dsn'[m][c].blocks = blocks
        /\ dsn'[m][c].next = i0 + 1 /\ ~dsn'[m][c].half
    BY <1>1, <2>1, MovedOn DEF AtBlock
  <2>3. blocks[i0] # "dead"
    BY <1>7 DEF ShouldSuppress, Block
  <2>4. \A i \in DOMAIN blocks : i < i0 + 1 => i < i0 \/ i = i0
    BY <1>4
  <2>5. ThroughTo(m, c)'
    BY <1>3, <1>5, <2>2, <2>3, <2>4 DEF ThroughTo, IsStored
  <2>6. QED
    BY <1>2, <2>1, <2>5, OthersUnmoved DEF Ingestion
<1>8. QED
  BY <1>6, <1>7

LEMMA SuppressKeeps ==
  ASSUME IngestionInv, NEW m \in Msg, NEW c \in Cause, Suppress(m, c)
  PROVE  \A n \in Msg, k \in Cause : ThroughTo(n, k)'
<1> DEFINE i0 == dsn[m][c].next
           blocks == dsn[m][c].blocks
<1>1. TypeOK /\ ThroughTo(m, c) /\ AtBlock(m, c) /\ dsn[m][c].half
  BY DEF IngestionInv, Suppress
<1>2. /\ stored' = stored /\ suppressed \subseteq suppressed'
      /\ [msg |-> m, rcpt |-> i0] \in suppressed'
  BY DEF Suppress
<1>3. IsStored(m, c, i0)
  BY <1>1 DEF ThroughTo
<1>4. i0 \in Nat /\ DOMAIN blocks \subseteq Nat
  BY <1>1, BlocksAreKinds
<1>5. \A i \in DOMAIN blocks : i < i0 =>
        IsStored(m, c, i) /\ (blocks[i] = "dead" => [msg |-> m, rcpt |-> i] \in suppressed)
  BY <1>1 DEF ThroughTo, AtBlock
<1>6. Ingestion(m, c, i0 + 1, FALSE)
  BY DEF Suppress
<1>7. /\ dsn'[m][c].at = "queued" /\ dsn'[m][c].blocks = blocks
      /\ dsn'[m][c].next = i0 + 1 /\ ~dsn'[m][c].half
  BY <1>1, <1>6, MovedOn DEF AtBlock
<1>8. \A i \in DOMAIN blocks : i < i0 + 1 => i < i0 \/ i = i0
  BY <1>4
<1>9. ThroughTo(m, c)'
  BY <1>2, <1>3, <1>5, <1>7, <1>8 DEF ThroughTo, IsStored
<1>10. QED
  BY <1>2, <1>6, <1>9, OthersUnmoved DEF Ingestion

LEMMA AcknowledgeKeeps ==
  ASSUME IngestionInv, NEW m \in Msg, NEW c \in Cause, Acknowledge(m, c)
  PROVE  \A n \in Msg, k \in Cause : ThroughTo(n, k)'
<1>1. /\ TypeOK /\ ThroughTo(m, c) /\ dsn[m][c].at = "queued"
      /\ dsn[m][c].next > Len(dsn[m][c].blocks)
  BY DEF IngestionInv, Acknowledge
<1>2. /\ dsn'[m][c].at = "handled" /\ dsn'[m][c].blocks = dsn[m][c].blocks
      /\ dsn'[m][c].next = dsn[m][c].next /\ dsn'[m][c].half = dsn[m][c].half
  BY <1>1, BlocksAreKinds DEF Acknowledge, TypeOK, Dsn
<1>3. ~dsn[m][c].half
  BY <1>1, BlocksAreKinds DEF ThroughTo, AtBlock
<1>4. stored' = stored /\ suppressed' = suppressed
  BY DEF Acknowledge
<1>5. ThroughTo(m, c)'
  BY <1>1, <1>2, <1>3, <1>4 DEF ThroughTo, IsStored
<1>6. \A n \in Msg, k \in Cause : ~(n = m /\ k = c) => dsn'[n][k] = dsn[n][k]
  BY <1>1 DEF Acknowledge, TypeOK
<1>7. ASSUME NEW n \in Msg, NEW k \in Cause, ~(n = m /\ k = c)
      PROVE  ThroughTo(n, k)'
  <2>1. dsn'[n][k] = dsn[n][k] /\ ThroughTo(n, k)
    BY <1>6, <1>7 DEF IngestionInv
  <2>2. QED
    BY <1>4, <2>1, Unmoved
<1>8. QED
  BY <1>5, <1>7

LEMMA RequeueKeeps ==
  ASSUME IngestionInv, NEW m \in Msg, NEW c \in Cause, Requeue(m, c)
  PROVE  \A n \in Msg, k \in Cause : ThroughTo(n, k)'
<1>1. TypeOK /\ dsn[m][c].at = "queued"
  BY DEF IngestionInv, Requeue
<1>2. Ingestion(m, c, 1, FALSE) /\ stored' = stored /\ suppressed' = suppressed
  BY DEF Requeue
<1>3. /\ dsn'[m][c].at = "queued" /\ dsn'[m][c].blocks = dsn[m][c].blocks
      /\ dsn'[m][c].next = 1 /\ ~dsn'[m][c].half
  BY <1>1, <1>2, MovedOn
<1>4. \A i \in DOMAIN dsn[m][c].blocks : ~(i < 1)
  BY <1>1, BlocksAreKinds
<1>5. ThroughTo(m, c)'
  BY <1>3, <1>4 DEF ThroughTo
<1>6. QED
  BY <1>2, <1>5, OthersUnmoved DEF Ingestion

\* A recipient is suppressed in a step only if its report was half done.
LEMMA EvidenceStep ==
  ASSUME IngestionInv, [Next]_vars PROVE SuppressedOnEvidence'
<1>1. stored \subseteq stored'
  BY DEF Next, HandOver, Move, Bounce, Delay, Record, Take, Reconcile,
         LoseReport, Ingest, Store, Suppress, Acknowledge, Requeue, Tick, vars
<1>2. ASSUME NEW s \in suppressed', s \notin suppressed
      PROVE  \E b \in stored : b.msg = s.msg /\ b.rcpt = s.rcpt /\ b.kind = "dead"
  <2>1. suppressed' # suppressed
    BY <1>2
  <2>2. \E m \in Msg, c \in Cause : Suppress(m, c)
    BY <2>1 DEF Next, HandOver, Move, Bounce, Delay, Record, Take, Reconcile,
         LoseReport, Ingest, Store, Acknowledge, Requeue, Tick, vars
  <2>3. PICK m \in Msg, c \in Cause : Suppress(m, c)
    BY <2>2
  <2>4. s = [msg |-> m, rcpt |-> dsn[m][c].next]
    BY <1>2, <2>3 DEF Suppress
  <2>5. ThroughTo(m, c) /\ dsn[m][c].half
    BY <2>3 DEF Suppress, IngestionInv
  <2>6. QED
    BY <2>4, <2>5 DEF ThroughTo, IsStored, Block
<1>3. QED
  BY <1>1, <1>2 DEF IngestionInv, SuppressedOnEvidence

LEMMA IngestionStep == IngestionInv /\ [Next]_vars => IngestionInv'
<1> SUFFICES ASSUME IngestionInv, [Next]_vars PROVE IngestionInv'
  OBVIOUS
<1> DEFINE Goal == \A n \in Msg, k \in Cause : ThroughTo(n, k)'
<1>1. ASSUME dsn' = dsn, stored' = stored, suppressed' = suppressed PROVE Goal
  BY <1>1, Unmoved DEF IngestionInv
<1>2. ASSUME NEW m \in Msg, HandOver(m) \/ Move(m) PROVE Goal
  BY <1>1, <1>2 DEF HandOver, Move
<1>3. ASSUME NEW m \in Msg, Bounce(m) PROVE Goal
  BY <1>3, FreshNotification DEF Bounce, Cause, Blocks
<1>4. ASSUME NEW m \in Msg, Delay(m) PROVE Goal
  BY <1>4, FreshNotification DEF Delay, Cause, Blocks
<1>5. ASSUME NEW m \in Msg, NEW known \in BOOLEAN, Record(m, known) PROVE Goal
  BY <1>1, <1>5 DEF Record
<1>6. ASSUME NEW p \in Post, Take(p) \/ Reconcile(p) \/ LoseReport(p) PROVE Goal
  BY <1>1, <1>6 DEF Take, Reconcile, LoseReport
<1>7. ASSUME NEW m \in Msg, NEW c \in Cause, Ingest(m, c) \/ Requeue(m, c)
      PROVE  Goal
  BY <1>7, StoreKeeps, SuppressKeeps, AcknowledgeKeeps, RequeueKeeps DEF Ingest
<1>8. ASSUME Tick PROVE Goal
  BY <1>1, <1>8 DEF Tick
<1>9. ASSUME UNCHANGED vars PROVE Goal
  BY <1>1, <1>9 DEF vars
<1>10. Goal
  <2> HIDE DEF Goal
  <2> QED
    BY <1>2, <1>3, <1>4, <1>5, <1>6, <1>7, <1>8, <1>9 DEF Next
<1>11. TypeOK' /\ SuppressedOnEvidence'
  BY TypeStep, EvidenceStep DEF IngestionInv
<1>12. QED
  BY <1>10, <1>11 DEF IngestionInv

LEMMA IngestionInvariant == Spec => []IngestionInv
<1>1. Init => IngestionInv
  <2> SUFFICES ASSUME Init PROVE IngestionInv
    OBVIOUS
  <2>1. ASSUME NEW m \in Msg, NEW c \in Cause PROVE ThroughTo(m, c)
    BY DEF Init, NoDsn, ThroughTo
  <2>2. QED
    BY <2>1, TypeInit DEF Init, IngestionInv, SuppressedOnEvidence
<1>2. QED
  BY <1>1, IngestionStep, PTL DEF Spec

\* Nobody is suppressed without a stored report that says the mailbox is
\* dead, for every notification a relay may write and any number of failed
\* ingestions.
THEOREM SuppressionRestsOnEvidence == Spec => []SuppressedOnEvidence
<1>1. IngestionInv => SuppressedOnEvidence
  BY DEF IngestionInv
<1>2. QED
  BY <1>1, IngestionInvariant, PTL

\* What the relay is told it may forget is in the database, all of it.
THEOREM NoNotificationIsLost == Spec => []AcknowledgedIsPersisted
<1>1. IngestionInv => AcknowledgedIsPersisted
  <2> SUFFICES ASSUME IngestionInv, NEW m \in Msg, NEW c \in Cause,
                      dsn[m][c].at = "handled",
                      NEW i \in DOMAIN dsn[m][c].blocks
               PROVE  /\ IsStored(m, c, i)
                      /\ dsn[m][c].blocks[i] = "dead"
                           => [msg |-> m, rcpt |-> i] \in suppressed
    BY DEF AcknowledgedIsPersisted, IsStored
  <2>1. i < dsn[m][c].next
    BY BlocksAreKinds DEF IngestionInv, ThroughTo
  <2>2. QED
    BY <2>1 DEF IngestionInv, ThroughTo
<1>2. QED
  BY <1>1, IngestionInvariant, PTL

=============================================================================
