-------------------------- MODULE LifecycleProofs --------------------------
(***************************************************************************)
(* Theorems about module Lifecycle, for any number of messages, copies,    *)
(* tenants, callers, workers and reports: behind the relay the service is  *)
(* still the service, before the callers the reports are still the         *)
(* reports, and what crosses from one to the other - the address of a dead *)
(* mailbox - is there when the next caller asks for it.                    *)
(*                                                                         *)
(* Two refinements carry the theorems of the parts over to the whole:      *)
(* ServiceIsUnderneath those of PostbudProofs and QueueProofs,             *)
(* ReportsAreUnderneath those of RelayQueueProofs, taken by INSTANCE with  *)
(* a copy for a message.                                                   *)
(***************************************************************************)
EXTENDS Lifecycle, PostbudProofs

-----------------------------------------------------------------------------
(* The service underneath.                                                 *)

AcceptedIsWritten == \A m \in Msg : row[m].status # "absent" => Written(m)

\* The relay has the copies that were handed over, and writes about no other.
Handoffs ==
  /\ relay \in [Copy -> R!Where]
  /\ dsn \in [Copy -> [R!Cause -> R!Dsn]]
  /\ \A k \in Copy : relay[k] # "none" <=> k[2] <= handed[k[1]]
  /\ \A k \in Copy, c \in R!Cause : dsn[k][c].at # "none" => relay[k] # "none"

JoinedInv == ServiceInv /\ EvidenceInv /\ AcceptedIsWritten /\ Handoffs

LEMMA CopyParts ==
  ASSUME NEW k \in Copy
  PROVE  k[1] \in Msg /\ k[2] \in Nat /\ k[2] >= 1 /\ k = <<k[1], k[2]>>
  BY LifecycleAssumption DEF Copy

\* The relay's side in the steps that are the queue's.
LEMMA QueueSteps ==
  ASSUME NEW w \in Worker, NEW m \in Msg,
         TakeCopy(w, m) \/ RecordCopy(w, m)
  PROVE  QueueStep
<1>1. CASE TakeCopy(w, m)
  BY <1>1 DEF TakeCopy, QueueStep, WorkerStep, Deliver
<1>2. CASE RecordCopy(w, m)
  BY <1>2 DEF RecordCopy, QueueStep, WorkerStep, Settle
<1>3. QED
  BY <1>1, <1>2

LEMMA RestOfQueueIsQueue == RestOfQueue => QueueStep
  BY DEF RestOfQueue, QueueStep, WorkerStep, Deliver, Settle

\* A notification is about a message a caller submitted.
LEMMA NotifiedIsWritten ==
  ASSUME JoinedInv, NEW k \in Copy, NEW c \in R!Cause, dsn[k][c].at # "none"
  PROVE  k[1] \in Msg /\ handed[k[1]] > 0 /\ Written(k[1])
<1>1. k[1] \in Msg /\ k[2] \in Nat /\ k[2] >= 1
  BY CopyParts
<1>2. handed[k[1]] \in Nat /\ k[2] <= handed[k[1]]
  BY <1>1 DEF JoinedInv, Handoffs, ServiceInv, TypeOK
<1>3. Evidence(k[1])
  BY <1>1 DEF JoinedInv, EvidenceInv
<1>4. row[k[1]].status # "absent"
  BY <1>1, <1>2, <1>3 DEF Evidence
<1>5. QED
  BY <1>1, <1>2, <1>4 DEF JoinedInv, AcceptedIsWritten

LEMMA SuppressingIsBounce ==
  ASSUME JoinedInv, NEW k \in Copy, NEW c \in R!Cause, SuppressMailbox(k, c)
  PROVE  \/ UNCHANGED serviceVars
         \/ k[1] \in Msg /\ Bounce(k[1])
<1>1. dsn[k][c].at # "none"
  BY DEF SuppressMailbox, R!AtBlock
<1>2. QED
  BY <1>1, NotifiedIsWritten DEF SuppressMailbox, ListDeadMailbox, Bounce

LEMMA StepIsService ==
  ASSUME JoinedInv, [LifecycleNext]_lifecycleVars
  PROVE  [ServiceNext]_serviceVars
<1>1. ASSUME NEW w \in Worker, NEW m \in Msg, TakeCopy(w, m) \/ RecordCopy(w, m)
      PROVE  ServiceNext
  BY <1>1, QueueSteps DEF ServiceNext
<1>2. CASE RestOfQueue
  BY <1>2, RestOfQueueIsQueue DEF ServiceNext
<1>3. ASSUME NEW c \in Caller, NEW new \in Content, SubmitKnowing(c, new)
      PROVE  ServiceNext
  BY <1>3 DEF SubmitKnowing, ServiceNext
<1>4. ASSUME NEW c \in Caller, NEW m \in Msg, InsertKnowing(c, m)
      PROVE  ServiceNext
  BY <1>4 DEF InsertKnowing, ServiceNext
<1>5. CASE RestOfService
  BY <1>5 DEF RestOfService, ServiceNext
<1>6. CASE RestOfReports \/ (\E p \in Post : Reconcile(p)) \/ ReportTick
  BY <1>6 DEF RestOfReports, Reconcile, ReportTick
<1>7. ASSUME NEW k \in Copy, NEW c \in R!Cause, SuppressMailbox(k, c)
      PROVE  [ServiceNext]_serviceVars
  BY <1>7, SuppressingIsBounce DEF ServiceNext
<1>8. CASE UNCHANGED lifecycleVars
  BY <1>8 DEF lifecycleVars
<1>9. QED
  BY <1>1, <1>2, <1>3, <1>4, <1>5, <1>6, <1>7, <1>8 DEF LifecycleNext

-----------------------------------------------------------------------------
(* The notifications.  What one step may do to the one about copy k, cause *)
(* c: nothing, or one of the following.                                    *)

\* The relay writes it.
Issued(k, c) ==
  relay[k] # "none" /\ dsn'[k][c].at = "queued" /\ dsn'[k][c].next = 1

\* Its ingestion starts over, or goes on by half a block or one; past a dead
\* mailbox only by suppressing it.
ReadOn(k, c) ==
  /\ dsn[k][c].at = "queued" /\ dsn'[k][c].at = "queued"
  /\ dsn'[k][c].blocks = dsn[k][c].blocks
  /\ \/ dsn'[k][c].next = 1
     \/ dsn'[k][c].next = dsn[k][c].next
     \/ /\ dsn'[k][c].next = dsn[k][c].next + 1
        /\ R!Block(k, c) # "dead" \/ SuppressMailbox(k, c)

\* It is acknowledged, all of it read.
Acked(k, c) ==
  /\ dsn[k][c].at = "queued" /\ dsn'[k][c].at = "handled"
  /\ dsn'[k][c].blocks = dsn[k][c].blocks
  /\ dsn'[k][c].next = dsn[k][c].next
  /\ dsn[k][c].next > Len(dsn[k][c].blocks)

Dealt(k, c) == Issued(k, c) \/ ReadOn(k, c) \/ Acked(k, c)

LEMMA OneUpdated ==
  ASSUME Handoffs, NEW k \in Copy, NEW c \in R!Cause, NEW d \in R!Dsn,
         dsn' = [dsn EXCEPT ![k][c] = d]
  PROVE  /\ dsn' \in [Copy -> [R!Cause -> R!Dsn]]
         /\ dsn'[k][c] = d
         /\ \A j \in Copy, e \in R!Cause :
              j # k \/ e # c => dsn'[j][e] = dsn[j][e]
  BY DEF Handoffs

\* One notification at most changes in a step.
DsnMoves ==
  /\ dsn' \in [Copy -> [R!Cause -> R!Dsn]]
  /\ \A k \in Copy, c \in R!Cause : dsn'[k][c] = dsn[k][c] \/ Dealt(k, c)

LEMMA IngestionMoves ==
  ASSUME Handoffs, NEW k \in Copy, NEW c \in R!Cause,
         \/ R!Store(k, c) \/ R!Requeue(k, c) \/ R!Acknowledge(k, c)
         \/ SuppressMailbox(k, c)
  PROVE  DsnMoves
<1>1. dsn[k][c] \in R!Dsn
  BY DEF Handoffs
<1>a. dsn[k][c].next \in Nat \ {0} /\ dsn[k][c].next + 1 \in Nat \ {0}
  <2>1. dsn[k][c].next \in Nat \ {0}
    BY <1>1 DEF R!Dsn
  <2>2. QED
    BY <2>1
<1>2. ASSUME NEW next \in Nat \ {0}, NEW half \in BOOLEAN,
             R!Ingestion(k, c, next, half), dsn[k][c].at = "queued",
             \/ next = 1 \/ next = dsn[k][c].next
             \/ /\ next = dsn[k][c].next + 1
                /\ R!Block(k, c) # "dead" \/ SuppressMailbox(k, c)
      PROVE  DsnMoves
  <2> DEFINE d == [dsn[k][c] EXCEPT !.next = next, !.half = half]
  <2>0. d \in R!Dsn
    BY <1>1 DEF R!Dsn
  <2>1. d.at = "queued" /\ d.next = next /\ d.blocks = dsn[k][c].blocks
    BY <1>1, <1>2 DEF R!Dsn
  <2>2. dsn' = [dsn EXCEPT ![k][c] = d]
    BY <1>2 DEF R!Ingestion
  <2> HIDE DEF d
  <2>3. /\ dsn' \in [Copy -> [R!Cause -> R!Dsn]]
        /\ dsn'[k][c] = d
        /\ \A j \in Copy, e \in R!Cause :
             j # k \/ e # c => dsn'[j][e] = dsn[j][e]
    BY <2>0, <2>2 DEF Handoffs
  <2>4. ReadOn(k, c)
    BY <1>2, <2>1, <2>3 DEF ReadOn
  <2>5. QED
    BY <2>3, <2>4 DEF DsnMoves, Dealt
<1>3. CASE R!Store(k, c)
  <2>1. dsn[k][c].at = "queued"
    BY <1>3 DEF R!Store, R!AtBlock
  <2>2. \/ R!Ingestion(k, c, dsn[k][c].next, TRUE)
        \/ /\ R!Ingestion(k, c, dsn[k][c].next + 1, FALSE)
           /\ R!Block(k, c) # "dead"
    BY <1>3 DEF R!Store, R!ShouldSuppress
  <2>3. QED
    <3>1. CASE R!Ingestion(k, c, dsn[k][c].next, TRUE)
      BY <1>a, <1>2, <2>1, <3>1
    <3>2. CASE /\ R!Ingestion(k, c, dsn[k][c].next + 1, FALSE)
               /\ R!Block(k, c) # "dead"
      BY <1>a, <1>2, <2>1, <3>2
    <3>3. QED
      BY <2>2, <3>1, <3>2
<1>4. CASE R!Requeue(k, c)
  <2> DEFINE first == 1
  <2>1. dsn[k][c].at = "queued" /\ R!Ingestion(k, c, first, FALSE)
    BY <1>4 DEF R!Requeue
  <2>2. first \in Nat \ {0} /\ first = 1
    OBVIOUS
  <2> HIDE DEF first
  <2>3. QED
    BY <1>2, <2>1, <2>2
<1>5. CASE SuppressMailbox(k, c)
  <2>1. /\ dsn[k][c].at = "queued"
        /\ R!Ingestion(k, c, dsn[k][c].next + 1, FALSE)
    BY <1>5 DEF SuppressMailbox, R!Suppress, R!AtBlock
  <2>2. QED
    BY <1>a, <1>2, <1>5, <2>1
<1>6. CASE R!Acknowledge(k, c)
  <2> DEFINE d == [dsn[k][c] EXCEPT !.at = "handled"]
  <2>1. d \in R!Dsn /\ d.at = "handled" /\ d.next = dsn[k][c].next
        /\ d.blocks = dsn[k][c].blocks
    BY <1>1 DEF R!Dsn
  <2>2. dsn' = [dsn EXCEPT ![k][c] = d]
    BY <1>6 DEF R!Acknowledge
  <2> HIDE DEF d
  <2>3. /\ dsn' \in [Copy -> [R!Cause -> R!Dsn]]
        /\ dsn'[k][c] = d
        /\ \A j \in Copy, e \in R!Cause :
             j # k \/ e # c => dsn'[j][e] = dsn[j][e]
    BY <2>1, <2>2, OneUpdated, ZenonT(30)
  <2>4. Acked(k, c)
    BY <1>6, <2>1, <2>3 DEF Acked, R!Acknowledge
  <2>5. QED
    BY <2>3, <2>4 DEF DsnMoves, Dealt
<1>7. QED
  BY <1>3, <1>4, <1>5, <1>6

LEMMA SendingMoves ==
  ASSUME Handoffs, NEW k \in Copy, NEW c \in R!Cause, NEW blocks \in R!Blocks,
         R!Send(k, c, blocks), relay[k] # "none"
  PROVE  DsnMoves
<1> DEFINE d == [at |-> "queued", blocks |-> blocks, next |-> 1, half |-> FALSE]
<1>1. d \in R!Dsn /\ d.at = "queued" /\ d.next = 1
  BY DEF R!Dsn
<1>2. dsn' = [dsn EXCEPT ![k][c] = d]
  BY DEF R!Send
<1> HIDE DEF d
<1>3. /\ dsn' \in [Copy -> [R!Cause -> R!Dsn]]
      /\ dsn'[k][c] = d
      /\ \A j \in Copy, e \in R!Cause :
           j # k \/ e # c => dsn'[j][e] = dsn[j][e]
  BY <1>1, <1>2, OneUpdated, ZenonT(60)
<1>4. Issued(k, c)
  BY <1>1, <1>3 DEF Issued
<1>5. QED
  BY <1>3, <1>4 DEF DsnMoves, Dealt

LEMMA RelayWrites ==
  ASSUME Handoffs, NEW k \in Copy, R!Move(k) \/ R!Bounce(k) \/ R!Delay(k)
  PROVE  /\ DsnMoves
         /\ relay' \in [Copy -> R!Where]
         /\ \A j \in Copy : relay'[j] = "none" <=> relay[j] = "none"
<1>1. /\ relay' \in [Copy -> R!Where]
      /\ \A j \in Copy : relay'[j] = "none" <=> relay[j] = "none"
  BY DEF Handoffs, R!Move, R!Bounce, R!Delay, R!Where, R!Held
<1>2. ASSUME NEW c \in R!Cause, NEW blocks \in R!Blocks, R!Send(k, c, blocks),
             relay[k] # "none"
      PROVE  DsnMoves
  BY <1>2, SendingMoves
<1>3. CASE R!Move(k)
  BY <1>1, <1>3 DEF R!Move, DsnMoves, Handoffs
<1>4. CASE R!Bounce(k)
  <2>1. relay[k] # "none" /\ "bounce" \in R!Cause
    BY <1>4 DEF R!Bounce, R!Held, R!Cause
  <2>2. PICK blocks \in Notification : R!Send(k, "bounce", blocks)
    BY <1>4 DEF R!Bounce
  <2>3. blocks \in R!Blocks
    BY DEF R!Blocks
  <2>4. QED
    BY <1>1, <1>2, <2>1, <2>2, <2>3
<1>5. CASE R!Delay(k)
  <2>1. relay[k] # "none" /\ "delay" \in R!Cause
    BY <1>5 DEF R!Delay, R!Cause
  <2>2. <<"transient">> \in R!Blocks /\ R!Send(k, "delay", <<"transient">>)
    BY <1>5 DEF R!Blocks, R!Delay
  <2>3. QED
    BY <1>1, <1>2, <2>1, <2>2
<1>6. QED
  BY <1>1, <1>3, <1>4, <1>5

-----------------------------------------------------------------------------
(* The invariant.                                                          *)

\* The queue alone accepts nothing, and touches nothing that is suppressed.
LEMMA RestingStatus ==
  ASSUME EvidenceInv, QueueStep, NEW k \in Msg,
         row[k].status \in {"absent", "suppressed"}
  PROVE  row'[k].status = row[k].status
<1>1. TypeOK /\ [Next]_vars
  BY DEF EvidenceInv, QueueStep, Next
<1>2. row'[k].status \in {"sent", "failed", row[k].status}
  BY <1>1, QueueStepStatus
<1>3. CASE Untouched(k)
  BY <1>3 DEF Untouched
<1>4. ASSUME NEW listed \in BOOLEAN, Accept(k, listed)
      PROVE  row'[k].status = row[k].status
  BY <1>1, <1>2, <1>4 DEF Accept, NewRow, Absent, TypeOK
<1>5. ASSUME NEW w \in Worker, Settle(w, k)
      PROVE  row'[k].status = row[k].status
  <2>1. InFlight(w, k)
    BY <1>1, <1>5, SettleWrites
  <2>2. QED
    BY <2>1 DEF EvidenceInv, FlightEvidence
<1>6. QED
  BY <1>1, <1>3, <1>4, <1>5, StepTouches

LEMMA WrittenStep ==
  ASSUME JoinedInv, [ServiceNext]_serviceVars
  PROVE  /\ AcceptedIsWritten'
         /\ \A m \in Msg : Written(m) => content'[m] = content[m]
<1>1. /\ ServiceInv /\ EvidenceInv /\ AcceptedIsWritten
      /\ TypeOK /\ ServiceTypeOK /\ WrittenIsAccepted
  BY DEF JoinedInv, ServiceInv
<1>2. ASSUME NEW c \in Caller, NEW m \in Msg, Insert(c, m)
      PROVE  /\ AcceptedIsWritten'
             /\ \A k \in Msg : Written(k) => content'[k] = content[k]
  <2>1. /\ \A k \in Msg : k # m => content'[k] = content[k] /\ row'[k] = row[k]
        /\ content'[m] = call[c].content
        /\ row[m].status = "absent"
    BY <1>1, <1>2 DEF Insert, Accept, TypeOK, ServiceTypeOK
  <2>2. call[c].content \in Content /\ content'[m] # Unwritten
    BY <1>1, <1>2, <2>1, OpenCall, UnwrittenIsNot DEF Insert
  <2>3. ~Written(m)
    BY <1>1, <2>1 DEF WrittenIsAccepted
  <2>4. QED
    BY <1>1, <2>1, <2>2, <2>3 DEF AcceptedIsWritten, Written
<1>3. ASSUME UNCHANGED content,
             \A k \in Msg : row[k].status = "absent" => row'[k].status = "absent"
      PROVE  /\ AcceptedIsWritten'
             /\ \A k \in Msg : Written(k) => content'[k] = content[k]
  BY <1>1, <1>3 DEF AcceptedIsWritten, Written
<1>4. CASE QueueStep
  BY <1>1, <1>3, <1>4, RestingStatus DEF QueueStep
<1>5. CASE ListStep
  BY <1>3, <1>5, ListStepFrame DEF vars
<1>6. ASSUME NEW c \in Caller,
             \/ \E new \in Content : Submit(c, new)
             \/ \E m \in Msg : Deduplicate(c, m)
             \/ Abort(c)
      PROVE  UNCHANGED <<content, row>>
  BY <1>6 DEF Submit, Deduplicate, Abort, vars
<1>7. CASE UNCHANGED serviceVars
  BY <1>3, <1>7 DEF serviceVars, vars
<1>8. QED
  BY <1>2, <1>3, <1>4, <1>5, <1>6, <1>7 DEF ServiceNext, ListStep

\* No copy is handed over in a step, and one notification moves at most.
NothingHanded ==
  /\ DsnMoves
  /\ handed' = handed
  /\ relay' \in [Copy -> R!Where]
  /\ \A k \in Copy : relay'[k] = "none" <=> relay[k] = "none"

LEMMA RelaySide ==
  ASSUME JoinedInv, [LifecycleNext]_lifecycleVars,
         ~ \E w \in Worker, m \in Msg : TakeCopy(w, m)
  PROVE  NothingHanded
<1>1. Handoffs
  BY DEF JoinedInv
<1>2. ASSUME UNCHANGED <<handed, relay, dsn>> PROVE NothingHanded
  BY <1>1, <1>2 DEF Handoffs, DsnMoves, NothingHanded
<1>3. ASSUME NEW w \in Worker, NEW m \in Msg, RecordCopy(w, m)
      PROVE  NothingHanded
  <2>1. UNCHANGED <<handed, relay, dsn>>
    BY <1>3 DEF RecordCopy, RecordAccepted, Record
  <2>2. QED
    BY <1>2, <2>1
<1>4. CASE RestOfQueue
  <2>1. UNCHANGED <<handed, relay, dsn>>
    BY <1>4 DEF RestOfQueue, reportVars, Claim, Crash, Refuse, RecordingFails,
                RecordTransient, RecordFailed, Record, Tick, Purge
  <2>2. QED
    BY <1>2, <2>1
<1>5. CASE RestOfService
  <2>1. UNCHANGED <<handed, relay, dsn>>
    BY <1>5 DEF RestOfService, reportVars, Abort, Deduplicate, AddManually, Add,
                Remove, vars
  <2>2. QED
    BY <1>2, <2>1
<1>6. ASSUME NEW c \in Caller,
             \/ \E new \in Content : SubmitKnowing(c, new)
             \/ \E k \in Msg : InsertKnowing(c, k)
      PROVE  NothingHanded
  <2>1. UNCHANGED <<handed, relay, dsn>>
    BY <1>6 DEF SubmitKnowing, Submit, InsertKnowing, Insert, Accept, reportVars,
                vars
  <2>2. QED
    BY <1>2, <2>1
<1>7. CASE RestOfReports
  <2>1. handed' = handed
    BY <1>7 DEF RestOfReports, serviceVars, vars
  <2>2. ASSUME NEW k \in Copy, R!Move(k) \/ R!Bounce(k) \/ R!Delay(k)
        PROVE  NothingHanded
    BY <1>1, <2>1, <2>2, RelayWrites DEF NothingHanded
  <2>3. ASSUME NEW p \in Post, R!Take(p) \/ R!LoseReport(p)
        PROVE  NothingHanded
    BY <1>2, <2>1, <2>3 DEF R!Take, R!LoseReport
  <2>4. ASSUME NEW k \in Copy, NEW c \in R!Cause,
               R!Store(k, c) \/ R!Acknowledge(k, c) \/ R!Requeue(k, c)
        PROVE  NothingHanded
    <3>1. DsnMoves
      BY <1>1, <2>4, IngestionMoves
    <3>2. relay' = relay
      BY <2>4 DEF R!Store, R!Acknowledge, R!Requeue
    <3>3. QED
      BY <1>1, <2>1, <3>1, <3>2 DEF Handoffs, NothingHanded
  <2>5. QED
    BY <1>7, <2>2, <2>3, <2>4 DEF RestOfReports
<1>8. CASE (\E p \in Post : Reconcile(p)) \/ ReportTick \/ UNCHANGED lifecycleVars
  BY <1>2, <1>8 DEF Reconcile, ReportTick, lifecycleVars, serviceVars, vars,
                    reportVars
<1>9. ASSUME NEW k \in Copy, NEW c \in R!Cause, SuppressMailbox(k, c)
      PROVE  NothingHanded
  <2>1. DsnMoves
    BY <1>1, <1>9, IngestionMoves
  <2>2. relay' = relay /\ handed' = handed
    BY <1>9 DEF SuppressMailbox, R!Suppress, ListDeadMailbox, Add, serviceVars,
                vars
  <2>3. QED
    BY <1>1, <2>1, <2>2 DEF Handoffs, NothingHanded
<1>10. CASE \E w \in Worker, m \in Msg : RecordCopy(w, m)
  BY <1>3, <1>10
<1>11. CASE \E c \in Caller : \/ \E new \in Content : SubmitKnowing(c, new)
                             \/ \E k \in Msg : InsertKnowing(c, k)
  BY <1>6, <1>11
<1>12. CASE \E k \in Copy, c \in R!Cause : SuppressMailbox(k, c)
  BY <1>9, <1>12
<1>13. QED
  BY <1>4, <1>5, <1>7, <1>8, <1>10, <1>11, <1>12 DEF LifecycleNext

LEMMA TakeCopyHands ==
  ASSUME JoinedInv, NEW w \in Worker, NEW m \in Msg, TakeCopy(w, m)
  PROVE  /\ dsn' = dsn
         /\ handed' = [handed EXCEPT ![m] = @ + 1]
         /\ <<m, handed[m] + 1>> \in Copy
         /\ relay' = [relay EXCEPT ![<<m, handed[m] + 1>>] = "active"]
         /\ Handoffs'
<1>1. Handoffs /\ handed \in [Msg -> Nat]
  BY DEF JoinedInv, ServiceInv, TypeOK
<1>2. /\ dsn' = dsn
      /\ handed' = [handed EXCEPT ![m] = @ + 1]
      /\ relay' = [relay EXCEPT ![<<m, handed[m] + 1>>] = "active"]
  BY DEF TakeCopy, R!HandOver, HandOver, HandOverUnheard
<1>3. handed[m] + 1 \in 1 .. MaxCopies
  BY <1>1, LifecycleAssumption DEF TakeCopy
<1>4. <<m, handed[m] + 1>> \in Copy
  BY <1>3 DEF Copy
<1>5. relay' \in [Copy -> R!Where]
  BY <1>1, <1>2 DEF Handoffs, R!Where, R!Held
<1>6. ASSUME NEW k \in Copy
      PROVE  relay'[k] # "none" <=> k[2] <= handed'[k[1]]
  <2>1. /\ k[1] \in Msg /\ k[2] \in Nat /\ k[2] >= 1 /\ k = <<k[1], k[2]>>
        /\ (relay[k] # "none" <=> k[2] <= handed[k[1]])
    BY <1>1, CopyParts DEF Handoffs
  <2>2. CASE k[1] # m
    <3>1. relay'[k] = relay[k] /\ handed'[k[1]] = handed[k[1]]
      BY <1>1, <1>2, <2>1, <2>2 DEF Handoffs
    <3>2. QED
      BY <2>1, <3>1
  <2>3. CASE k[1] = m
    <3>1. handed'[m] = handed[m] + 1 /\ handed[m] \in Nat
      BY <1>1, <1>2
    <3>2. CASE k[2] = handed[m] + 1
      <4>1. relay'[k] = "active"
        BY <1>1, <1>2, <2>1, <2>3, <3>2 DEF Handoffs
      <4>2. QED
        BY <2>1, <2>3, <3>1, <3>2, <4>1
    <3>3. CASE k[2] # handed[m] + 1
      <4>1. relay'[k] = relay[k]
        BY <1>1, <1>2, <2>1, <2>3, <3>3 DEF Handoffs
      <4>2. QED
        BY <2>1, <2>3, <3>1, <3>3, <4>1
    <3>4. QED
      BY <3>2, <3>3
  <2>4. QED
    BY <2>2, <2>3
<1>7. \A k \in Copy, c \in R!Cause : dsn'[k][c].at # "none" => relay'[k] # "none"
  BY <1>1, <1>2 DEF Handoffs
<1>8. QED
  BY <1>1, <1>2, <1>4, <1>5, <1>6, <1>7 DEF Handoffs

LEMMA HandoffsStep ==
  ASSUME JoinedInv, [LifecycleNext]_lifecycleVars
  PROVE  Handoffs'
<1>1. CASE \E w \in Worker, m \in Msg : TakeCopy(w, m)
  BY <1>1, TakeCopyHands
<1>2. CASE ~ \E w \in Worker, m \in Msg : TakeCopy(w, m)
  <2>1. /\ DsnMoves /\ handed' = handed
        /\ relay' \in [Copy -> R!Where]
        /\ \A k \in Copy : relay'[k] = "none" <=> relay[k] = "none"
    BY <1>2, RelaySide DEF NothingHanded
  <2>2. ASSUME NEW k \in Copy, NEW c \in R!Cause, dsn'[k][c].at # "none"
        PROVE  relay'[k] # "none"
    <3>1. dsn'[k][c] = dsn[k][c] \/ Dealt(k, c)
      BY <2>1 DEF DsnMoves
    <3>2. relay[k] # "none"
      BY <2>2, <3>1 DEF JoinedInv, Handoffs, Dealt, Issued, ReadOn, Acked
    <3>3. QED
      BY <2>1, <3>2
  <2>3. QED
    BY <2>1, <2>2 DEF JoinedInv, Handoffs, DsnMoves
<1>3. QED
  BY <1>1, <1>2

LEMMA JoinedStep == JoinedInv /\ [LifecycleNext]_lifecycleVars => JoinedInv'
<1> SUFFICES ASSUME JoinedInv, [LifecycleNext]_lifecycleVars PROVE JoinedInv'
  OBVIOUS
<1>1. [ServiceNext]_serviceVars
  BY StepIsService
<1>2. ServiceInv /\ ServiceTypeOK /\ EvidenceInv
  BY DEF JoinedInv, ServiceInv
<1>3. [Next]_vars
  BY <1>1, <1>2, ServiceRefinesQueue
<1>4. ServiceInv' /\ EvidenceInv'
  BY <1>1, <1>2, <1>3, ServiceStep, EvidenceStep
<1>5. QED
  BY <1>1, <1>4, WrittenStep, HandoffsStep DEF JoinedInv

LEMMA JoinedInit == LifecycleInit => JoinedInv
<1> SUFFICES ASSUME LifecycleInit PROVE JoinedInv
  OBVIOUS
<1>1. ServiceInit
  BY DEF LifecycleInit
<1>2. ServiceInv /\ EvidenceInv
  BY <1>1, ServiceStart, EvidenceStart DEF ServiceInit
<1>3. AcceptedIsWritten
  BY <1>1 DEF ServiceInit, Init, Absent, AcceptedIsWritten
<1>4. R!NoDsn \in R!Dsn /\ R!NoDsn.at = "none"
  BY DEF R!NoDsn, R!Dsn, R!Blocks
<1>5. Handoffs
  BY <1>1, <1>4, CopyParts DEF LifecycleInit, ServiceInit, Init, Handoffs, R!Where
<1>6. QED
  BY <1>2, <1>3, <1>5 DEF JoinedInv

LEMMA JoinedInvariant == LifecycleSpec => []JoinedInv
  BY JoinedInit, JoinedStep, PTL DEF LifecycleSpec

-----------------------------------------------------------------------------
(* No mail to a mailbox known dead.  What ingestion has passed is listed   *)
(* for everyone, for good; so a submission that comes after knows of it.   *)

Passed(k, c) ==
  dsn[k][c].at # "none" =>
    /\ \A i \in DOMAIN dsn[k][c].blocks :
         i < dsn[k][c].next /\ dsn[k][c].blocks[i] = "dead"
           => Explained(Everyone, content[k[1]].rcpt)
    /\ dsn[k][c].at = "handled" => dsn[k][c].next > Len(dsn[k][c].blocks)

\* A warned caller holds the list's yes, a warned message was suppressed.
WarnedInv ==
  /\ \A c \in Caller : c \in warned /\ call[c].open => call[c].suppressed
  /\ \A m \in Msg : m \in warned => row[m].status = "suppressed"

PassedInv == \A k \in Copy, c \in R!Cause : Passed(k, c)

LEMMA DsnParts ==
  ASSUME NEW d \in R!Dsn
  PROVE  /\ d.next \in Nat
         /\ Len(d.blocks) \in Nat
         /\ DOMAIN d.blocks = 1 .. Len(d.blocks)
<1>1. d.next \in Nat /\ d.blocks \in R!Blocks
  BY DEF R!Dsn
<1>2. \/ d.blocks \in Seq(R!Kind)
      \/ d.blocks \in {<<"unreadable">>, <<"transient">>, << >>}
  BY <1>1, LifecycleAssumption DEF R!Blocks, R!Unreadable
<1>3. QED
  BY <1>1, <1>2

LEMMA NotificationsMove ==
  JoinedInv /\ [LifecycleNext]_lifecycleVars => DsnMoves
<1> SUFFICES ASSUME JoinedInv, [LifecycleNext]_lifecycleVars PROVE DsnMoves
  OBVIOUS
<1>1. CASE \E w \in Worker, m \in Msg : TakeCopy(w, m)
  <2>1. dsn' = dsn
    BY <1>1, TakeCopyHands
  <2>2. QED
    BY <2>1 DEF DsnMoves, JoinedInv, Handoffs
<1>2. CASE ~ \E w \in Worker, m \in Msg : TakeCopy(w, m)
  BY <1>2, RelaySide DEF NothingHanded
<1>3. QED
  BY <1>1, <1>2

\* An entry for everyone is never taken from the table.
LEMMA ListingStays ==
  ASSUME JoinedInv, [ServiceNext]_serviceVars, NEW address \in Address,
         Explained(Everyone, address)
  PROVE  Explained(Everyone, address)'
<1>1. ServiceTypeOK /\ OneActiveEntry
  BY DEF JoinedInv, ServiceInv
<1>2. CASE ListStep
  BY <1>1, <1>2, ListStepKeeps
<1>3. CASE UNCHANGED entry
  BY <1>3 DEF Explained, Visible
<1>4. CASE QueueStep \/ UNCHANGED serviceVars
  BY <1>3, <1>4 DEF QueueStep, serviceVars
<1>5. ASSUME NEW c \in Caller,
             \/ \E new \in Content : Submit(c, new)
             \/ \E m \in Msg : Insert(c, m) \/ Deduplicate(c, m)
             \/ Abort(c)
      PROVE  UNCHANGED entry
  BY <1>5 DEF Submit, Insert, Deduplicate, Abort
<1>6. QED
  BY <1>2, <1>3, <1>4, <1>5 DEF ServiceNext, ListStep

LEMMA SuppressingLists ==
  ASSUME JoinedInv, NEW k \in Copy, NEW c \in R!Cause, SuppressMailbox(k, c)
  PROVE  Explained(Everyone, content[k[1]].rcpt)'
<1> DEFINE e == [tenant |-> Everyone, address |-> content[k[1]].rcpt,
                 reason |-> "hard_bounce", active |-> TRUE]
<1>1. entry \in Seq(Entry)
  BY DEF JoinedInv, ServiceInv, ServiceTypeOK
<1>2. \/ Listed(Everyone, content[k[1]].rcpt) /\ UNCHANGED serviceVars
      \/ entry' = Append(entry, e) /\ UNCHANGED content
  BY DEF SuppressMailbox, ListDeadMailbox, Add
<1>3. e.tenant = Everyone /\ e.address = content[k[1]].rcpt
  OBVIOUS
<1> HIDE DEF e
<1>4. CASE Listed(Everyone, content[k[1]].rcpt) /\ UNCHANGED serviceVars
  BY <1>4 DEF Listed, Explained, Visible, serviceVars
<1>5. CASE entry' = Append(entry, e) /\ UNCHANGED content
  <2>1. Len(entry) + 1 \in DOMAIN entry' /\ entry'[Len(entry) + 1] = e
    BY <1>1, <1>5
  <2>2. QED
    BY <1>3, <1>5, <2>1 DEF Explained, Visible
<1>6. QED
  BY <1>2, <1>4, <1>5

LEMMA PassedStep ==
  ASSUME JoinedInv, PassedInv, [LifecycleNext]_lifecycleVars
  PROVE  PassedInv'
<1>1. [ServiceNext]_serviceVars /\ DsnMoves
  BY StepIsService, NotificationsMove
<1> SUFFICES ASSUME NEW k \in Copy, NEW c \in R!Cause, dsn'[k][c].at # "none"
             PROVE  Passed(k, c)'
  BY DEF PassedInv, Passed
<1>2. /\ dsn[k][c] \in R!Dsn /\ dsn'[k][c] \in R!Dsn
      /\ Passed(k, c)
      /\ dsn'[k][c] = dsn[k][c] \/ Dealt(k, c)
  BY <1>1 DEF JoinedInv, Handoffs, DsnMoves, PassedInv
<1> DEFINE rcpt == content[k[1]].rcpt
<1>3. ASSUME dsn[k][c].at # "none"
      PROVE  /\ (content[k[1]].rcpt)' = rcpt
             /\ Explained(Everyone, rcpt) => Explained(Everyone, rcpt)'
  <2>1. k[1] \in Msg /\ Written(k[1])
    BY <1>3, NotifiedIsWritten
  <2>2. content'[k[1]] = content[k[1]]
    BY <1>1, <2>1, WrittenStep
  <2>3. rcpt \in Address
    BY <2>1 DEF JoinedInv, ServiceInv, ServiceTypeOK, Written, Content
  <2>4. Explained(Everyone, rcpt) => Explained(Everyone, content[k[1]].rcpt)'
    <3> DEFINE address == content[k[1]].rcpt
    <3>1. Explained(Everyone, address) => \E i \in DOMAIN entry' :
            entry'[i].address = address /\ entry'[i].tenant \in {Everyone, Everyone}
      <4> HIDE DEF address
      <4>1. address \in Address
        BY <2>3 DEF address
      <4>2. QED
        BY <1>1, <4>1, ListingStays DEF Explained, Visible
    <3>2. QED
      BY <2>2, <3>1 DEF Explained, Visible
  <2>5. QED
    BY <2>2, <2>4
<1>4. CASE dsn'[k][c] = dsn[k][c]
  BY <1>2, <1>3, <1>4 DEF Passed
<1>5. CASE Issued(k, c)
  BY <1>2, <1>5, DsnParts DEF Passed, Issued
<1>6. CASE Acked(k, c)
  BY <1>2, <1>3, <1>6 DEF Passed, Acked
<1>7. CASE ReadOn(k, c)
  <2>1. SUFFICES ASSUME NEW i \in DOMAIN dsn'[k][c].blocks,
                        i < dsn'[k][c].next, dsn'[k][c].blocks[i] = "dead"
                 PROVE  Explained(Everyone, content[k[1]].rcpt)'
    BY <1>7 DEF Passed, ReadOn
  <2>2. /\ dsn[k][c].at # "none" /\ dsn'[k][c].blocks = dsn[k][c].blocks
        /\ i \in Nat /\ i >= 1 /\ dsn[k][c].next \in Nat
    BY <1>2, <1>7, DsnParts DEF ReadOn
  <2>3. CASE i < dsn[k][c].next
    BY <1>2, <1>3, <2>1, <2>2, <2>3 DEF Passed
  <2>4. CASE ~(i < dsn[k][c].next)
    <3>1. i = dsn[k][c].next /\ dsn'[k][c].next = dsn[k][c].next + 1
      BY <1>7, <2>1, <2>2, <2>4 DEF ReadOn
    <3>2. R!Block(k, c) = "dead" /\ dsn'[k][c].next # 1
      BY <2>1, <2>2, <3>1 DEF R!Block
    <3>3. SuppressMailbox(k, c)
      BY <1>7, <2>2, <3>1, <3>2 DEF ReadOn
    <3>4. QED
      BY <3>3, SuppressingLists
  <2>5. QED
    BY <2>3, <2>4
<1>8. QED
  BY <1>2, <1>4, <1>5, <1>6, <1>7 DEF Dealt

LEMMA KnownMailboxIsListed ==
  ASSUME JoinedInv, PassedInv, NEW address, KnownDead(address), NEW tenant
  PROVE  IsSuppressed(tenant, address)
<1>1. PICK k \in Copy, c \in R!Cause :
        /\ content[k[1]].rcpt = address
        /\ dsn[k][c].at = "handled"
        /\ \E i \in DOMAIN dsn[k][c].blocks : dsn[k][c].blocks[i] = "dead"
  BY DEF KnownDead
<1>2. PICK i \in DOMAIN dsn[k][c].blocks : dsn[k][c].blocks[i] = "dead"
  BY <1>1
<1>3. dsn[k][c] \in R!Dsn /\ Passed(k, c)
  BY DEF JoinedInv, Handoffs, PassedInv
<1>4. i < dsn[k][c].next
  BY <1>1, <1>3, DsnParts DEF Passed
<1>5. Explained(Everyone, address)
  BY <1>1, <1>2, <1>3, <1>4 DEF Passed
<1>6. \A j \in DOMAIN entry : entry[j].address = address => entry[j].active
  BY DEF KnownDead
<1>7. QED
  BY <1>5, <1>6 DEF Explained, IsSuppressed, Visible

\* No call is opened.
NoneOpened == \A d \in Caller : call'[d] = call[d] \/ ~call'[d].open

\* A step that is no submission's: it warns nobody, opens no call and leaves
\* what is suppressed suppressed.
LEMMA WarnedRests ==
  ASSUME JoinedInv, WarnedInv, warned' = warned,
         NoneOpened, QueueStep \/ UNCHANGED row
  PROVE  WarnedInv'
<1>1. ASSUME NEW m \in Msg, m \in warned
      PROVE  row'[m].status = "suppressed"
  BY <1>1, RestingStatus DEF JoinedInv, WarnedInv
<1>2. QED
  BY <1>1 DEF WarnedInv, NoneOpened

LEMMA WarnedStep ==
  ASSUME JoinedInv, PassedInv, WarnedInv, [LifecycleNext]_lifecycleVars
  PROVE  WarnedInv'
<1>t. /\ call \in [Caller -> Call] /\ row \in [Msg -> Row]
      /\ Caller \cap Msg = {} /\ ServiceTypeOK
  BY LifecycleAssumption DEF JoinedInv, ServiceInv, ServiceTypeOK, TypeOK
<1>1. ASSUME NEW w \in Worker, NEW m \in Msg, TakeCopy(w, m) \/ RecordCopy(w, m)
      PROVE  WarnedInv'
  <2>1. QueueStep /\ UNCHANGED <<call, warned>>
    BY <1>1, QueueSteps DEF TakeCopy, RecordCopy
  <2>2. QED
    BY <2>1, WarnedRests DEF NoneOpened
<1>2. CASE RestOfQueue
  <2>1. QueueStep /\ UNCHANGED <<call, warned>>
    BY <1>2, RestOfQueueIsQueue DEF RestOfQueue
  <2>2. QED
    BY <2>1, WarnedRests DEF NoneOpened
<1>3. ASSUME NEW c \in Caller, NEW new \in Content, SubmitKnowing(c, new)
      PROVE  WarnedInv'
  <2>1. /\ \A d \in Caller : d # c => call'[d] = call[d]
        /\ call'[c].suppressed = IsSuppressed(new.tenant, new.rcpt)
        /\ row' = row
    BY <1>t, <1>3 DEF SubmitKnowing, Submit, vars
  <2>2. /\ warned' = IF KnownDead(new.rcpt) THEN warned \cup {c} ELSE warned \ {c}
        /\ c \notin Msg
    BY <1>t, <1>3 DEF SubmitKnowing
  <2>3. c \in warned' => call'[c].suppressed
    BY <2>1, <2>2, KnownMailboxIsListed
  <2>4. QED
    BY <2>1, <2>2, <2>3 DEF WarnedInv
<1>4. ASSUME NEW c \in Caller, NEW m \in Msg, InsertKnowing(c, m)
      PROVE  WarnedInv'
  <2>1. /\ call[c].open /\ Reply(c, m)
        /\ Accept(m, call[c].suppressed)
        /\ warned' = IF c \in warned THEN warned \cup {m} ELSE warned
    BY <1>4 DEF InsertKnowing, Insert
  <2>2. /\ \A d \in Caller : d # c => call'[d] = call[d]
        /\ ~call'[c].open
    BY <1>t, <2>1, ReplyFrame
  <2>3. /\ row[m].status = "absent"
        /\ row'[m] = NewRow(call[c].suppressed)
        /\ \A k \in Msg : k # m => row'[k] = row[k]
    BY <1>t, <2>1 DEF Accept
  <2>4. c \in warned => row'[m].status = "suppressed"
    BY <2>1, <2>3 DEF WarnedInv, NewRow, Absent
  <2>5. m \notin warned /\ m \notin Caller
    BY <1>t, <2>3 DEF WarnedInv
  <2>6. \A d \in Caller : d \in warned' => d \in warned
    BY <2>1, <2>5
  <2>7. QED
    BY <2>1, <2>2, <2>3, <2>4, <2>5, <2>6 DEF WarnedInv
<1>5. CASE RestOfService
  <2>1. UNCHANGED <<row, warned>>
    BY <1>5 DEF RestOfService, Abort, Deduplicate, AddManually, Add, Remove, vars
  <2>2. ASSUME NEW c \in Caller, NEW m \in Msg, Abort(c) \/ Deduplicate(c, m)
        PROVE  NoneOpened
    BY <1>t, <2>2 DEF Abort, Deduplicate, Reply, NoCall, NoneOpened
  <2>3. ASSUME NEW c \in Caller, Abort(c)
        PROVE  NoneOpened
    BY <1>t, <2>3 DEF Abort, NoCall, NoneOpened
  <2>4. ListStep => NoneOpened
    BY ListStepFrame DEF NoneOpened
  <2>5. NoneOpened
    BY <1>5, <2>2, <2>3, <2>4 DEF RestOfService, ListStep
  <2>6. QED
    BY <2>1, <2>5, WarnedRests
<1>6. CASE RestOfReports \/ (\E p \in Post : Reconcile(p)) \/ ReportTick
           \/ UNCHANGED lifecycleVars
  <2>1. UNCHANGED <<row, call, warned>>
    BY <1>6 DEF RestOfReports, Reconcile, ReportTick, lifecycleVars, serviceVars,
                vars
  <2>2. QED
    BY <2>1, WarnedRests DEF NoneOpened
<1>7. ASSUME NEW k \in Copy, NEW c \in R!Cause, SuppressMailbox(k, c)
      PROVE  WarnedInv'
  <2>1. UNCHANGED <<row, call, warned>>
    BY <1>7 DEF SuppressMailbox, ListDeadMailbox, Add, serviceVars, vars
  <2>2. QED
    BY <2>1, WarnedRests DEF NoneOpened
<1>8. QED
  BY <1>1, <1>2, <1>3, <1>4, <1>5, <1>6, <1>7 DEF LifecycleNext

\* What is warned of is suppressed, and of what is suppressed no copy exists.
LEMMA WarnedSuffices ==
  JoinedInv /\ WarnedInv => NoMailToKnownDead
  BY DEF JoinedInv, WarnedInv, NoMailToKnownDead, EvidenceInv, Evidence

-----------------------------------------------------------------------------
(* The reports in front.  A queue id is recorded once, names a copy the    *)
(* relay was given, and is what the reports find a message by.             *)

IdsInv ==
  /\ Lease
  /\ \A m \in Msg : row[m].queueId # 0 => row[m].status = "sent"
  /\ \A m \in Msg : row[m].queueId <= handed[m]
  /\ \A w \in Worker, m \in Msg : flight[w][m].queueId <= handed[m]

AfterInv ==
  /\ after \in [Msg -> After]
  /\ \A m \in Msg : row[m].queueId = 0 => after[m].state = "none"

SameIds == \A k \in Msg : row'[k].queueId = row[k].queueId

\* Only an acceptance writes a queue id.
LEMMA RestKeepsIds ==
  ASSUME TypeOK, RestOfQueue
  PROVE  SameIds
<1>a. \A k \in Msg : row[k] \in Row
  BY DEF TypeOK
<1>1. ASSUME NEW w \in Worker, Claim(w)
      PROVE  SameIds
  <2>1. PICK S \in SUBSET Msg : ClaimTakes(w, S)
    BY <1>1, ClaimFrame
  <2>2. QED
    BY <1>a, <2>1 DEF ClaimTakes, Row, SameIds
<1>2. ASSUME NEW w \in Worker, NEW m \in Msg,
             Refuse(w, m) \/ RecordingFails(w, m) \/ Crash(w)
      PROVE  SameIds
  BY <1>2 DEF Refuse, RecordingFails, Crash, SameIds
<1>3. ASSUME NEW w \in Worker, NEW m \in Msg, RecordTransient(w, m)
      PROVE  SameIds
  <2>1. Record(w, m, RetryRow(w, m), "transient")
    BY <1>3 DEF RecordTransient
  <2>2. RetryRow(w, m).queueId = row[m].queueId
    BY <1>a DEF RetryRow, Released, Row
  <2>3. row'[m] = RetryRow(w, m) /\ \A k \in Msg : k # m => row'[k] = row[k]
    BY <2>1, RecordFrame, ZenonT(30)
  <2>4. QED
    BY <2>2, <2>3 DEF SameIds
<1>4. ASSUME NEW w \in Worker, NEW m \in Msg, RecordFailed(w, m)
      PROVE  SameIds
  <2>1. Record(w, m, FailedRow(w, m), "permanent")
    BY <1>4 DEF RecordFailed
  <2>2. FailedRow(w, m).queueId = row[m].queueId
    BY <1>a DEF FailedRow, Released, Row
  <2>3. row'[m] = FailedRow(w, m) /\ \A k \in Msg : k # m => row'[k] = row[k]
    BY <2>1, RecordFrame, ZenonT(30)
  <2>4. QED
    BY <2>2, <2>3 DEF SameIds
<1>5. CASE Tick
  BY <1>a, <1>5 DEF Tick, Aged, Row, SameIds
<1>6. CASE Purge
  <2>1. \A k \in Msg : row'[k] = row[k] \/ row'[k] = [row[k] EXCEPT !.body = FALSE]
    BY <1>6 DEF Purge
  <2>2. QED
    BY <1>a, <2>1 DEF Row, SameIds
<1>7. ASSUME NEW w \in Worker, Crash(w)
      PROVE  SameIds
  BY <1>7 DEF Crash, SameIds
<1>8. QED
  BY <1>1, <1>2, <1>3, <1>4, <1>5, <1>6, <1>7 DEF RestOfQueue

\* An acceptance is recorded once, of a message without a queue id.
LEMMA RecordsOnce ==
  ASSUME TypeOK, IdsInv, NEW w \in Worker, NEW m \in Msg, RecordCopy(w, m)
  PROVE  /\ row[m].queueId = 0
         /\ row'[m].queueId = flight[w][m].queueId /\ row'[m].status = "sent"
         /\ flight[w][m].queueId \in Nat /\ flight[w][m].queueId <= handed[m]
         /\ \A k \in Msg : k # m => row'[k] = row[k]
<1>1. InFlight(w, m) /\ Record(w, m, SentRow(w, m), "accepted")
  BY DEF RecordCopy, RecordAccepted, Answered, InFlight
<1>2. row[m].status = "queued" /\ row[m] \in Row /\ flight[w][m] \in Flight
  BY <1>1 DEF IdsInv, Lease, HoldsLease, TypeOK
<1>3. /\ SentRow(w, m).queueId = flight[w][m].queueId
      /\ SentRow(w, m).status = "sent"
  BY <1>2 DEF SentRow, Released, Row
<1>4. row'[m] = SentRow(w, m) /\ \A k \in Msg : k # m => row'[k] = row[k]
  BY <1>1, RecordFrame, ZenonT(30)
<1>5. row[m].queueId = 0
  BY <1>2 DEF IdsInv
<1>6. flight[w][m].queueId \in Nat /\ flight[w][m].queueId <= handed[m]
  BY <1>2 DEF Flight, IdsInv
<1>7. QED
  BY <1>3, <1>4, <1>5, <1>6

\* In every other step no queue id is written.
LEMMA OthersKeepIds ==
  ASSUME JoinedInv, IdsInv, [LifecycleNext]_lifecycleVars,
         ~ \E w \in Worker, m \in Msg : RecordCopy(w, m)
  PROVE  SameIds
<1>t. TypeOK
  BY DEF JoinedInv, ServiceInv
<1>0. row' = row => SameIds
  BY DEF SameIds
<1>1. ASSUME NEW w \in Worker, NEW m \in Msg, TakeCopy(w, m)
      PROVE  SameIds
  BY <1>0, <1>1 DEF TakeCopy, HandOver, HandOverUnheard
<1>2. CASE RestOfQueue
  BY <1>t, <1>2, RestKeepsIds
<1>3. ASSUME NEW c \in Caller, NEW new \in Content, SubmitKnowing(c, new)
      PROVE  SameIds
  BY <1>0, <1>3 DEF SubmitKnowing, Submit, vars
<1>4. ASSUME NEW c \in Caller, NEW m \in Msg, InsertKnowing(c, m)
      PROVE  SameIds
  <2>1. row[m].status = "absent" /\ row' = [row EXCEPT ![m] = NewRow(call[c].suppressed)]
    BY <1>4 DEF InsertKnowing, Insert, Accept
  <2>2. row[m].queueId = 0 /\ NewRow(call[c].suppressed).queueId = 0
    BY <2>1 DEF IdsInv, NewRow, Absent
  <2>3. QED
    BY <1>t, <2>1, <2>2 DEF SameIds, TypeOK
<1>5. CASE RestOfService
  BY <1>0, <1>5 DEF RestOfService, Abort, Deduplicate, AddManually, Add, Remove, vars
<1>6. CASE RestOfReports \/ (\E p \in Post : Reconcile(p)) \/ ReportTick
           \/ UNCHANGED lifecycleVars
  BY <1>0, <1>6 DEF RestOfReports, Reconcile, ReportTick, lifecycleVars,
                    serviceVars, vars
<1>7. ASSUME NEW k \in Copy, NEW c \in R!Cause, SuppressMailbox(k, c)
      PROVE  SameIds
  BY <1>0, <1>7 DEF SuppressMailbox, ListDeadMailbox, Add, serviceVars, vars
<1>8. QED
  BY <1>1, <1>2, <1>3, <1>4, <1>5, <1>6, <1>7 DEF LifecycleNext

\* What a worker was told names a copy that was handed over.
LEMMA FlightIds ==
  ASSUME TypeOK, [Next]_vars, NEW v \in Worker, NEW k \in Msg
  PROVE  flight'[v][k].queueId \in {flight[v][k].queueId, 0, handed'[k]}
<1>a. flight[v][k] \in Flight /\ Idle.queueId = 0
  BY DEF TypeOK, Idle
<1> DEFINE Goal == flight'[v][k].queueId \in {flight[v][k].queueId, 0, handed'[k]}
<1>0. flight' = flight \/ flight'[v][k] = flight[v][k] \/ flight'[v][k] = Idle => Goal
  BY <1>a
<1>1. ASSUME NEW w \in Worker, Claim(w)
      PROVE  Goal
  <2>1. PICK S \in SUBSET Msg : ClaimTakes(w, S)
    BY <1>1, ClaimFrame
  <2>2. CASE k \in S /\ v = w
    BY <2>1, <2>2 DEF ClaimTakes, Idle
  <2>3. CASE ~(k \in S /\ v = w)
    BY <1>0, <2>1, <2>3 DEF ClaimTakes
  <2>4. QED
    BY <2>2, <2>3
<1>2. ASSUME NEW w \in Worker, NEW m \in Msg, Deliver(w, m)
      PROVE  Goal
  <2>1. PICK outcome, queueId : Answer(w, m, outcome, queueId)
                                /\ queueId \in {0, handed'[m]}
    BY <1>2 DEF Deliver, HandOver, Refuse, HandOverUnheard, TypeOK
  <2>2. CASE v = w /\ k = m
    <3>1. flight'[v][k] = [flight[v][k] EXCEPT !.at = "answered",
                             !.outcome = outcome, !.queueId = queueId]
      BY <2>1, <2>2 DEF Answer, TypeOK
    <3>2. QED
      BY <1>a, <2>1, <2>2, <3>1 DEF Flight
  <2>3. CASE ~(v = w /\ k = m)
    BY <1>0, <2>1, <2>3, AnswerFrame
  <2>4. QED
    BY <2>2, <2>3
<1>3. ASSUME NEW w \in Worker, NEW m \in Msg, Settle(w, m)
      PROVE  Goal
  <2>1. PICK newRow, outcome : Record(w, m, newRow, outcome)
    BY <1>3 DEF Settle, RecordAccepted, RecordTransient, RecordFailed
  <2>2. flight'[v][k] = flight[v][k] \/ flight'[v][k] = Idle
    BY <2>1, RecordFrame, ZenonT(30)
  <2>3. QED
    BY <1>0, <2>2
<1>4. ASSUME NEW w \in Worker, NEW m \in Msg, RecordingFails(w, m) \/ Crash(w)
      PROVE  Goal
  <2>1. \/ flight' = [flight EXCEPT ![w][m] = Idle]
        \/ flight' = [flight EXCEPT ![w] = [n \in Msg |-> Idle]]
    BY <1>4 DEF RecordingFails, Crash
  <2>2. flight \in [Worker -> [Msg -> Flight]]
    BY DEF TypeOK
  <2>3. ASSUME flight' = [flight EXCEPT ![w][m] = Idle]
        PROVE  flight'[v][k] = flight[v][k] \/ flight'[v][k] = Idle
    BY <2>2, <2>3
  <2>4. ASSUME flight' = [flight EXCEPT ![w] = [n \in Msg |-> Idle]]
        PROVE  flight'[v][k] = flight[v][k] \/ flight'[v][k] = Idle
    BY <2>2, <2>4
  <2>5. QED
    BY <1>0, <2>1, <2>3, <2>4
<1>5. ASSUME NEW m \in Msg, NEW listed \in BOOLEAN, Accept(m, listed)
      PROVE  Goal
  BY <1>0, <1>5 DEF Accept
<1>6. Tick \/ Purge \/ UNCHANGED vars => Goal
  BY <1>0 DEF Tick, Purge, vars
<1> HIDE DEF Goal
<1>7. \A w \in Worker : WorkerStep(w) => Goal
  BY <1>1, <1>2, <1>3, <1>4, Zenon DEF WorkerStep
<1>8. Goal
  BY <1>5, <1>6, <1>7, Zenon DEF Next
<1>9. QED
  BY <1>8 DEF Goal

LEMMA IdsStep ==
  ASSUME ~Overrun, JoinedInv, IdsInv, [LifecycleNext]_lifecycleVars
  PROVE  IdsInv'
<1>1. TypeOK /\ ServiceTypeOK /\ [Next]_vars
  BY StepIsService, ServiceRefinesQueue DEF JoinedInv, ServiceInv
<1>2. Lease'
  BY <1>1, TypeStep, LeaseStep, CopiesStep DEF IdsInv, Lease
<1>3. TypeOK'
  BY <1>2 DEF Lease
<1>4. ASSUME NEW m \in Msg
      PROVE  handed[m] \in Nat /\ handed'[m] \in Nat /\ handed[m] <= handed'[m]
  <2>1. handed'[m] = handed[m] \/ handed'[m] = handed[m] + 1
    BY <1>1, CopiesGrow
  <2>2. QED
    BY <1>1, <2>1 DEF TypeOK
<1>5. ASSUME NEW w \in Worker, NEW m \in Msg
      PROVE  flight'[w][m].queueId <= handed'[m]
  <2>1. /\ flight'[w][m].queueId \in {flight[w][m].queueId, 0, handed'[m]}
        /\ flight[w][m].queueId <= handed[m] /\ flight[w][m].queueId \in Nat
    BY <1>1, FlightIds DEF IdsInv, TypeOK, Flight
  <2>2. QED
    BY <1>4, <2>1
<1>6. ASSUME NEW m \in Msg
      PROVE  /\ row'[m].queueId <= handed'[m]
             /\ row'[m].queueId # 0 => row'[m].status = "sent"
  <2>1. row[m].queueId \in Nat /\ row[m].queueId <= handed[m]
    BY <1>1 DEF IdsInv, TypeOK, Row
  <2>2. CASE row'[m].queueId = row[m].queueId
    <3>1. row[m].status = "sent" => row'[m].status = "sent"
      <4>1. Shape(m)
        BY <1>1, StepShape DEF IdsInv, Lease
      <4>2. QED
        BY <4>1 DEF Shape, Rests, Submitted, Heard, Unheard, LostSight, Sent,
                    Failed, Queued, Keeps
    <3>2. QED
      BY <1>4, <2>1, <2>2, <3>1 DEF IdsInv
  <2>3. CASE row'[m].queueId # row[m].queueId
    <3>1. PICK w \in Worker, k \in Msg : RecordCopy(w, k)
      BY <2>3, OthersKeepIds DEF SameIds
    <3>2. k = m
      BY <1>1, <2>3, <3>1, RecordsOnce
    <3>3. /\ row'[m].queueId = flight[w][m].queueId /\ row'[m].status = "sent"
          /\ flight[w][m].queueId \in Nat /\ flight[w][m].queueId <= handed[m]
      BY <1>1, <3>1, <3>2, RecordsOnce
    <3>4. QED
      BY <1>4, <3>3
  <2>4. QED
    BY <2>2, <2>3
<1>7. QED
  BY <1>2, <1>5, <1>6 DEF IdsInv

LEMMA AfterStep ==
  ASSUME JoinedInv, IdsInv, AfterInv, [LifecycleNext]_lifecycleVars
  PROVE  AfterInv'
<1>t. TypeOK /\ Grace \in Nat /\ \A m \in Msg : after[m] \in After
  BY LifecycleAssumption DEF JoinedInv, ServiceInv, AfterInv
<1>1. ASSUME NEW w \in Worker, NEW m \in Msg, RecordCopy(w, m)
      PROVE  AfterInv'
  <2>1. after' = [after EXCEPT ![m] = [after[m] EXCEPT !.age = 0]]
    BY <1>1 DEF RecordCopy
  <2>2. /\ [after[m] EXCEPT !.age = 0] \in After
        /\ [after[m] EXCEPT !.age = 0].state = after[m].state
    BY <1>t DEF After
  <2>3. row[m].queueId = 0 /\ \A k \in Msg : k # m => row'[k] = row[k]
    BY <1>t, <1>1, RecordsOnce
  <2>4. QED
    BY <2>1, <2>2, <2>3 DEF AfterInv
<1>2. ASSUME NEW p \in Post, Reconcile(p)
      PROVE  AfterInv'
  <2>1. after' = [m \in Msg |-> Reconciled(p, m)] /\ row' = row
    BY <1>2 DEF Reconcile, serviceVars, vars
  <2>2. ASSUME NEW m \in Msg
        PROVE  /\ Reconciled(p, m) \in After
               /\ row[m].queueId = 0 => Reconciled(p, m) = after[m]
    BY <1>t DEF Reconciled, After, R!Held
  <2>3. QED
    BY <2>1, <2>2 DEF AfterInv
<1>3. CASE ReportTick
  <2>1. row' = row
    BY <1>3 DEF ReportTick, serviceVars, vars
  <2>2. ASSUME NEW m \in Msg
        PROVE  after'[m] \in After /\ after'[m].state = after[m].state
    BY <1>t, <1>3 DEF ReportTick, After
  <2>3. after' = [m \in Msg |-> after'[m]]
    BY <1>3 DEF ReportTick
  <2>4. QED
    BY <2>1, <2>2, <2>3 DEF AfterInv
<1>4. ASSUME after' = after, SameIds
      PROVE  AfterInv'
  BY <1>4 DEF AfterInv, SameIds
<1>5. CASE ~ \/ \E w \in Worker, m \in Msg : RecordCopy(w, m)
             \/ \E p \in Post : Reconcile(p)
             \/ ReportTick
  <2>1. SameIds
    BY <1>5, OthersKeepIds
  <2>2. after' = after
    BY <1>5 DEF LifecycleNext, TakeCopy, RestOfQueue, SubmitKnowing, InsertKnowing,
                RestOfService, RestOfReports, SuppressMailbox, lifecycleVars,
                reportVars
  <2>3. QED
    BY <1>4, <2>1, <2>2
<1>6. QED
  BY <1>1, <1>2, <1>3, <1>5

\* What the reports see of the messages changes with the queue ids and with
\* what follows the handoffs, and with nothing else.
LEMMA CopyRowRests ==
  ASSUME \A k \in Copy : Named(k)' <=> Named(k),
         \A k \in Copy : Named(k) => after'[k[1]] = after[k[1]]
  PROVE  CopyRow' = CopyRow
  BY DEF CopyRow

LEMMA SameIdsRest == SameIds /\ after' = after => CopyRow' = CopyRow
<1> SUFFICES ASSUME SameIds, after' = after PROVE CopyRow' = CopyRow
  OBVIOUS
<1>1. \A k \in Copy : Named(k)' <=> Named(k)
  BY CopyParts DEF SameIds, Named
<1>2. QED
  BY <1>1, CopyRowRests

LEMMA RecordIsRecord ==
  ASSUME JoinedInv, IdsInv, AfterInv, NEW w \in Worker, NEW m \in Msg,
         RecordCopy(w, m)
  PROVE  [R!Next]_(R!vars)
<1> DEFINE q == flight[w][m].queueId
           k == <<m, q>>
<1>t. TypeOK /\ Handoffs /\ \A n \in Msg : after[n] \in After
  BY DEF JoinedInv, ServiceInv, AfterInv
<1>1. /\ row[m].queueId = 0 /\ row'[m].queueId = q
      /\ q \in Nat /\ q <= handed[m]
      /\ \A n \in Msg : n # m => row'[n] = row[n]
  BY <1>t, RecordsOnce
<1>2. /\ after[m].state = "none"
      /\ after'[m] = [after[m] EXCEPT !.age = 0]
      /\ \A n \in Msg : n # m => after'[n] = after[n]
  BY <1>1 DEF RecordCopy, AfterInv
<1>3. after'[m].age = 0 /\ after'[m].state = "none"
  BY <1>t, <1>2 DEF After
<1>4. UNCHANGED <<relay, report, dsn, stored, suppressed, reportFaults>>
  BY DEF RecordCopy
<1>5. ASSUME NEW j \in Copy, j # k
      PROVE  /\ Named(j)' <=> Named(j)
             /\ Named(j) => after'[j[1]] = after[j[1]]
  <2>1. j[1] \in Msg /\ j[2] >= 1 /\ j[2] \in Nat /\ j = <<j[1], j[2]>>
    BY CopyParts
  <2>2. CASE j[1] = m
    BY <1>1, <1>5, <2>1, <2>2 DEF Named
  <2>3. CASE j[1] # m
    BY <1>1, <1>2, <2>1, <2>3 DEF Named
  <2>4. QED
    BY <2>2, <2>3
<1>6. CASE k \notin Copy
  BY <1>4, <1>5, <1>6, CopyRowRests DEF R!vars
<1>7. CASE k \in Copy
  <2>0. k[1] = m /\ k[2] = q /\ q >= 1
    BY <1>7, CopyParts
  <2>1. /\ k[1] = m /\ k[2] = q
        /\ row[k[1]].queueId # k[2] /\ row'[k[1]].queueId = k[2]
    BY <1>1, <2>0
  <2>2. relay[k] # "none"
    BY <1>1, <1>7, <1>t, <2>1 DEF Handoffs
  <2>3. CopyRow[k] = [sent |-> FALSE, known |-> FALSE, age |-> 0, state |-> "none"]
    BY <1>7, <2>1 DEF CopyRow, Named
  <2>4. CopyRow'[k] = [sent |-> TRUE, known |-> TRUE, age |-> 0, state |-> "none"]
    BY <1>3, <1>7, <2>1 DEF CopyRow, Named
  <2>5. \A j \in Copy : j # k => CopyRow'[j] = CopyRow[j]
    BY <1>5 DEF CopyRow
  <2> HIDE DEF k
  <2>6. CopyRow' = [CopyRow EXCEPT ![k] = [@ EXCEPT !.sent = TRUE, !.known = TRUE]]
    <3>1. CopyRow' = [j \in Copy |-> CopyRow'[j]] /\ DOMAIN CopyRow = Copy
      BY DEF CopyRow
    <3> DEFINE no == FALSE
               yes == TRUE
               old == CopyRow[k]
               new == [old EXCEPT !.sent = yes, !.known = yes]
    <3>2. new = CopyRow'[k]
      <4> DEFINE age == 0
                 state == "none"
      <4>1. old = [sent |-> no, known |-> no, age |-> age, state |-> state]
        BY <2>3
      <4>2. CopyRow'[k] = [sent |-> yes, known |-> yes, age |-> age, state |-> state]
        BY <2>4
      <4> HIDE DEF no, yes, old, age, state
      <4> DEFINE half == [sent |-> yes, known |-> no, age |-> age, state |-> state]
      <4>3. [old EXCEPT !.sent = yes] = half
        BY <4>1
      <4>4. [half EXCEPT !.known = yes]
              = [sent |-> yes, known |-> yes, age |-> age, state |-> state]
        OBVIOUS
      <4>5. new = [[old EXCEPT !.sent = yes] EXCEPT !.known = yes]
        BY Zenon
      <4>6. QED
        BY <4>2, <4>3, <4>4, <4>5
    <3>3. QED
      BY <1>7, <2>5, <3>1, <3>2
  <2>7. R!Record(k, TRUE)
    BY <1>4, <2>2, <2>3, <2>6 DEF R!Record
  <2>8. QED
    BY <1>7, <2>7 DEF R!Next
<1>8. QED
  BY <1>6, <1>7

\* The row of a named copy, and what becomes of it with `after`.
Linked(yes, next) == [sent |-> yes, known |-> yes,
                      age |-> next.age, state |-> next.state]

LEMMA RowOfCopy ==
  ASSUME NEW k \in Copy
  PROVE  /\ Named(k) => CopyRow[k] = Linked(TRUE, after[k[1]])
         /\ ~Named(k) => /\ CopyRow[k].sent = FALSE /\ CopyRow[k].known = FALSE
                         /\ CopyRow[k] = [sent |-> FALSE, known |-> FALSE,
                                          age |-> 0, state |-> "none"]
  BY DEF CopyRow, Linked

LEMMA ReconcileIsReconcile ==
  ASSUME JoinedInv, AfterInv, NEW p \in Post, Reconcile(p)
  PROVE  R!Reconcile(p)
<1>1. /\ report[p].open
      /\ report' = [report EXCEPT ![p] = R!NoReport]
      /\ UNCHANGED <<relay, dsn, stored, suppressed, reportFaults, row>>
      /\ \A m \in Msg : after'[m] = Reconciled(p, m)
  BY DEF Reconcile, serviceVars, vars
<1> DEFINE list(k) == report[p].lists[k]
           applied(k) ==
             CASE list(k) \in R!Held /\ CopyRow[k].known ->
                    [CopyRow[k] EXCEPT !.state = list(k)]
               [] list(k) = "gone" /\ R!Concludes(k) ->
                    [CopyRow[k] EXCEPT !.state = "delivered"]
               [] OTHER -> CopyRow[k]
<1>2. ASSUME NEW k \in Copy, ~Named(k)
      PROVE  CopyRow'[k] = applied(k)
  <2>1. ~Named(k)'
    BY <1>1, <1>2 DEF Named
  <2>2. CopyRow'[k] = CopyRow[k]
    BY <1>2, <2>1 DEF CopyRow
  <2>3. ~CopyRow[k].known /\ ~R!Concludes(k)
    BY <1>2, RowOfCopy DEF R!Concludes
  <2>4. QED
    BY <2>2, <2>3
<1>3. ASSUME NEW k \in Copy, Named(k)
      PROVE  CopyRow'[k] = applied(k)
  <2> DEFINE m == k[1]
             yes == TRUE
  <2>1. m \in Msg /\ row[m].queueId # 0 /\ k = <<m, row[m].queueId>>
    BY <1>3, CopyParts DEF Named
  <2>2. CopyRow[k] = Linked(yes, after[m])
    BY <1>3, RowOfCopy
  <2>k. CopyRow[k].known
    BY <1>3 DEF CopyRow
  <2>3. CopyRow'[k] = Linked(yes, after'[m])
    BY <1>1, <1>3 DEF CopyRow, Named, Linked
  <2>4. after'[m] = CASE list(k) \in R!Held -> [after[m] EXCEPT !.state = list(k)]
                      [] list(k) = "gone" /\ R!Concludes(k) ->
                           [after[m] EXCEPT !.state = "delivered"]
                      [] OTHER -> after[m]
    BY <1>1, <2>1 DEF Reconciled, R!Held
  <2>5. after[m] \in After
    BY <2>1 DEF AfterInv
  <2> HIDE DEF m, yes, list
  <2>6. CASE list(k) \in R!Held
    <3>1. after'[m] = [after[m] EXCEPT !.state = list(k)]
      BY <2>4, <2>6 DEF R!Held
    <3>2. CopyRow'[k] = [CopyRow[k] EXCEPT !.state = list(k)]
      BY <2>2, <2>3, <2>5, <3>1 DEF After, Linked
    <3>3. QED
      BY <2>k, <2>6, <3>2 DEF R!Held
  <2>7. CASE list(k) = "gone" /\ R!Concludes(k)
    <3> DEFINE v == "delivered"
    <3>1. after'[m] = [after[m] EXCEPT !.state = v]
      BY <2>4, <2>7 DEF R!Held
    <3> HIDE DEF v
    <3>2. CopyRow'[k] = [CopyRow[k] EXCEPT !.state = v]
      BY <2>2, <2>3, <2>5, <3>1 DEF After, Linked
    <3>3. QED
      BY <2>7, <3>2 DEF R!Held, v
  <2>8. CASE ~(list(k) \in R!Held) /\ ~(list(k) = "gone" /\ R!Concludes(k))
    BY <2>2, <2>3, <2>4, <2>8
  <2>9. QED
    BY <2>6, <2>7, <2>8
<1>4. CopyRow' = [k \in Copy |-> applied(k)]
  <2>1. CopyRow' = [k \in Copy |-> CopyRow'[k]]
    BY DEF CopyRow
  <2> HIDE DEF applied
  <2>2. QED
    BY <1>2, <1>3, <2>1
<1>5. QED
  BY <1>1, <1>4 DEF R!Reconcile

LEMMA TickIsTick ==
  ASSUME JoinedInv, AfterInv, ReportTick
  PROVE  R!Tick
<1>1. /\ row' = row
      /\ \A m \in Msg :
           after'[m] = IF row[m].queueId # 0 /\ after[m].age <= Grace
                       THEN [after[m] EXCEPT !.age = @ + 1] ELSE after[m]
  BY DEF ReportTick, serviceVars, vars
<1>2. ASSUME NEW k \in Copy, ~Named(k)
      PROVE  CopyRow'[k] = R!Aged(CopyRow[k])
  <2>1. ~Named(k)'
    BY <1>1, <1>2 DEF Named
  <2>2. CopyRow'[k] = CopyRow[k]
    BY <1>2, <2>1 DEF CopyRow
  <2>3. ~CopyRow[k].sent
    BY <1>2, RowOfCopy
  <2>4. QED
    BY <2>2, <2>3 DEF R!Aged
<1>3. ASSUME NEW k \in Copy, Named(k)
      PROVE  CopyRow'[k] = R!Aged(CopyRow[k])
  <2> DEFINE m == k[1]
             yes == TRUE
             older == after[m].age + 1
  <2>1. m \in Msg /\ row[m].queueId # 0
    BY <1>3, CopyParts DEF Named
  <2>2. CopyRow[k] = Linked(yes, after[m])
    BY <1>3, RowOfCopy
  <2>s. CopyRow[k].sent
    BY <1>3 DEF CopyRow
  <2>3. CopyRow'[k] = Linked(yes, after'[m])
    BY <1>1, <1>3 DEF CopyRow, Named, Linked
  <2>4. after'[m] = IF after[m].age <= Grace
                    THEN [after[m] EXCEPT !.age = older] ELSE after[m]
    BY <1>1, <2>1
  <2>5. after[m] \in After
    BY <2>1 DEF AfterInv
  <2> HIDE DEF m, yes
  <2>6. CopyRow[k].age = after[m].age
    BY <2>2 DEF Linked
  <2> HIDE DEF older
  <2>7. CASE after[m].age <= Grace
    <3>1. CopyRow'[k] = [CopyRow[k] EXCEPT !.age = older]
      BY <2>2, <2>3, <2>4, <2>5, <2>7 DEF After, Linked
    <3>2. QED
      BY <2>s, <2>6, <2>7, <3>1 DEF R!Aged, older
  <2>8. CASE ~(after[m].age <= Grace)
    BY <2>2, <2>3, <2>4, <2>6, <2>8 DEF R!Aged
  <2>9. QED
    BY <2>7, <2>8
<1>4. CopyRow' = [k \in Copy |-> R!Aged(CopyRow[k])]
  <2>1. CopyRow' = [k \in Copy |-> CopyRow'[k]]
    BY DEF CopyRow
  <2>2. QED
    BY <1>2, <1>3, <2>1
<1>5. QED
  BY <1>4 DEF ReportTick, R!Tick

\* A step that reaches neither the relay nor the reports.
LEMMA RestsIsStutter ==
  ASSUME SameIds, UNCHANGED reportVars
  PROVE  UNCHANGED R!vars
<1>1. CopyRow' = CopyRow
  BY SameIdsRest DEF reportVars
<1>2. QED
  BY <1>1 DEF reportVars, R!vars

LEMMA StepIsReports ==
  ASSUME JoinedInv, IdsInv, AfterInv, [LifecycleNext]_lifecycleVars
  PROVE  [R!Next]_(R!vars)
<1>1. ASSUME NEW w \in Worker, NEW m \in Msg, RecordCopy(w, m)
      PROVE  [R!Next]_(R!vars)
  BY <1>1, RecordIsRecord
<1>2. ASSUME NEW w \in Worker, NEW m \in Msg, TakeCopy(w, m)
      PROVE  R!Next
  <2>1. <<m, handed[m] + 1>> \in Copy
    BY <1>2, TakeCopyHands
  <2>2. QED
    BY <1>2, <2>1 DEF TakeCopy, R!Next
<1>3. CASE RestOfReports
  BY <1>3 DEF RestOfReports, R!Next, R!Ingest
<1>4. ASSUME NEW p \in Post, Reconcile(p)
      PROVE  R!Next
  BY <1>4, ReconcileIsReconcile DEF R!Next
<1>5. CASE ReportTick
  BY <1>5, TickIsTick DEF R!Next
<1>6. ASSUME NEW k \in Copy, NEW c \in R!Cause, SuppressMailbox(k, c)
      PROVE  R!Next
  BY <1>6 DEF SuppressMailbox, R!Next, R!Ingest
<1>7. ASSUME UNCHANGED reportVars, ~ \E w \in Worker, m \in Msg : RecordCopy(w, m)
      PROVE  [R!Next]_(R!vars)
  BY <1>7, OthersKeepIds, RestsIsStutter
<1>8. CASE ~ \E w \in Worker, m \in Msg : RecordCopy(w, m)
  <2>1. RestOfQueue \/ RestOfService \/ UNCHANGED lifecycleVars => UNCHANGED reportVars
    BY DEF RestOfQueue, RestOfService, lifecycleVars
  <2>2. \A c \in Caller :
          \/ \E new \in Content : SubmitKnowing(c, new)
          \/ \E m \in Msg : InsertKnowing(c, m)
          => UNCHANGED reportVars
    BY DEF SubmitKnowing, InsertKnowing
  <2>3. \/ UNCHANGED reportVars
        \/ \E w \in Worker, m \in Msg : TakeCopy(w, m)
        \/ RestOfReports \/ ReportTick
        \/ \E p \in Post : Reconcile(p)
        \/ \E k \in Copy, c \in R!Cause : SuppressMailbox(k, c)
    BY <1>8, <2>1, <2>2 DEF LifecycleNext
  <2>4. QED
    BY <1>2, <1>3, <1>4, <1>5, <1>6, <1>7, <1>8, <2>3
<1>9. QED
  BY <1>1, <1>8

LEMMA IdsInit == LifecycleInit => IdsInv /\ AfterInv /\ R!Init
<1> SUFFICES ASSUME LifecycleInit PROVE IdsInv /\ AfterInv /\ R!Init
  OBVIOUS
<1>1. Init
  BY DEF LifecycleInit, ServiceInit
<1>2. TypeOK
  BY <1>1, EvidenceStart DEF EvidenceInv
<1>3. HoldsLease
  BY <1>1 DEF Init, HoldsLease, InFlight, Idle
<1>4. CopiesAccounted
  BY <1>1 DEF Init, CopiesAccounted, Known, Unrecorded, Absent, Idle
<1>5. IdsInv
  BY <1>1, <1>2, <1>3, <1>4 DEF IdsInv, Lease, Init, Absent, Idle
<1>6. AfterInv
  <2>1. NothingAfter \in After /\ NothingAfter.state = "none"
    BY LifecycleAssumption DEF NothingAfter, After
  <2>2. QED
    BY <2>1 DEF LifecycleInit, AfterInv
<1>7. CopyRow = [k \in Copy |-> [sent |-> FALSE, known |-> FALSE,
                                age |-> 0, state |-> "none"]]
  <2>1. \A k \in Copy : row[k[1]].queueId = 0 /\ k[2] # 0
    BY <1>1, CopyParts DEF Init, Absent
  <2>2. QED
    BY <2>1 DEF CopyRow, Named
<1>8. R!Init
  BY <1>7 DEF LifecycleInit, R!Init
<1>9. QED
  BY <1>5, <1>6, <1>8

-----------------------------------------------------------------------------
(* Types of what the reports keep, whether or not workers keep within      *)
(* their claims; those of the service, of the relay and of the             *)
(* notifications are in JoinedInv.                                         *)

ReportTypes ==
  /\ after \in [Msg -> After]
  /\ report \in [Post -> R!Report]
  /\ stored \subseteq R!BounceReport
  /\ suppressed \subseteq [msg : Copy, rcpt : Nat \ {0}]
  /\ reportFaults \in 0 .. MaxReportFaults
  /\ warned \subseteq Caller \cup Msg

LEMMA LifecycleBounds ==
  /\ Grace \in Nat /\ MaxLag \in Nat /\ MaxReportFaults \in Nat
  /\ Notification \subseteq {R!Unreadable} \cup Seq(R!Kind)
BY LifecycleAssumption

\* The block an ingestion is at is one of a notification's.
LEMMA BlockIsKind ==
  ASSUME JoinedInv, NEW k \in Copy, NEW c \in R!Cause, R!AtBlock(k, c)
  PROVE  /\ dsn[k][c].next \in Nat \ {0}
         /\ R!Block(k, c) \in R!Kind \cup {"unreadable"}
<1>1. dsn[k][c] \in R!Dsn
  BY DEF JoinedInv, Handoffs
<1>2. dsn[k][c].blocks \in R!Blocks /\ dsn[k][c].next \in Nat \ {0}
  BY <1>1 DEF R!Dsn
<1>3. R!Blocks \subseteq Seq(R!Kind \cup {"unreadable"})
  <2>1. <<"transient">> \in Seq(R!Kind \cup {"unreadable"})
    BY DEF R!Kind
  <2>2. R!Unreadable \in Seq(R!Kind \cup {"unreadable"})
    BY DEF R!Unreadable
  <2>3. Seq(R!Kind) \subseteq Seq(R!Kind \cup {"unreadable"})
    OBVIOUS
  <2>4. << >> \in Seq(R!Kind \cup {"unreadable"})
    OBVIOUS
  <2> QED
    BY <2>1, <2>2, <2>3, <2>4, LifecycleBounds DEF R!Blocks
<1> QED
  BY <1>2, <1>3 DEF R!AtBlock, R!Block

LEMMA OpenReportType ==
  ASSUME ReportTypes, NEW p \in Post, report[p].open
  PROVE  report[p] \in [open : {TRUE}, lists : [Copy -> R!Held \cup {"gone"}],
                        age : 0 .. MaxLag]
<1>1. report[p] \in R!Report /\ report[p] # R!NoReport
  BY DEF ReportTypes, R!NoReport
<1> QED
  BY <1>1 DEF R!Report

\* The reports' own steps.
LEMMA RestOfReportsTypes ==
  ASSUME JoinedInv, ReportTypes, RestOfReports
  PROVE  ReportTypes'
<1>0. after' = after /\ warned' = warned
  BY DEF RestOfReports
<1>1. ASSUME NEW k \in Copy, R!Move(k) \/ R!Bounce(k) \/ R!Delay(k)
      PROVE  ReportTypes'
  BY <1>0, <1>1 DEF R!Move, R!Bounce, R!Delay, ReportTypes
<1>2. ASSUME NEW p \in Post, R!Take(p)
      PROVE  ReportTypes'
  <2>1. [open  |-> TRUE, age |-> 0,
         lists |-> [k \in Copy |-> IF relay[k] \in R!Held THEN relay[k] ELSE "gone"]]
           \in R!Report
    BY LifecycleBounds DEF R!Report
  <2>2. report' \in [Post -> R!Report]
    BY <1>2, <2>1 DEF R!Take, ReportTypes
  <2> QED
    BY <1>0, <1>2, <2>2 DEF R!Take, ReportTypes
<1>3. ASSUME NEW p \in Post, R!LoseReport(p)
      PROVE  ReportTypes'
  <2>1. report' \in [Post -> R!Report]
    BY <1>3 DEF R!LoseReport, R!Report, ReportTypes
  <2>2. reportFaults' \in 0 .. MaxReportFaults
    BY <1>3, LifecycleBounds DEF R!LoseReport, ReportTypes
  <2> QED
    BY <1>0, <1>3, <2>1, <2>2 DEF R!LoseReport, ReportTypes
<1>4. ASSUME NEW k \in Copy, NEW c \in R!Cause, R!Store(k, c)
      PROVE  ReportTypes'
  <2> DEFINE matched == CopyRow[k].known /\ R!Block(k, c) # "unreadable"
             row_ == [msg |-> k, rcpt |-> dsn[k][c].next,
                      kind |-> R!Block(k, c), matched |-> matched]
  <2>1. CopyRow[k].known \in BOOLEAN
    BY DEF CopyRow
  <2>2. matched \in BOOLEAN
    BY <2>1
  <2>3. stored' = stored \cup {row_}
    BY <1>4 DEF R!Store
  <2> HIDE DEF matched
  <2>4. row_ \in R!BounceReport
    BY <1>4, <2>2, BlockIsKind DEF R!Store, R!BounceReport
  <2> HIDE DEF row_
  <2>5. stored' \subseteq R!BounceReport
    BY <2>3, <2>4 DEF ReportTypes
  <2> QED
    BY <1>0, <1>4, <2>5 DEF R!Store, ReportTypes
<1>5. ASSUME NEW k \in Copy, NEW c \in R!Cause, R!Acknowledge(k, c)
      PROVE  ReportTypes'
  BY <1>0, <1>5 DEF R!Acknowledge, ReportTypes
<1>6. ASSUME NEW k \in Copy, NEW c \in R!Cause, R!Requeue(k, c)
      PROVE  ReportTypes'
  <2>1. reportFaults' \in 0 .. MaxReportFaults
    BY <1>6, LifecycleBounds DEF R!Requeue, ReportTypes
  <2> QED
    BY <1>0, <1>6, <2>1 DEF R!Requeue, ReportTypes
<1> QED
  BY <1>1, <1>2, <1>3, <1>4, <1>5, <1>6 DEF RestOfReports

\* The steps of both sides.
LEMMA ReconcileTypes ==
  ASSUME ReportTypes, NEW p \in Post, Reconcile(p)
  PROVE  ReportTypes'
<1>1. ASSUME NEW m \in Msg PROVE Reconciled(p, m) \in After
  <2>1. after[m] \in After
    BY DEF ReportTypes
  <2> QED
    BY <2>1 DEF Reconciled, After, R!Held
<1>2. after' \in [Msg -> After]
  BY <1>1 DEF Reconcile
<1>3. report' \in [Post -> R!Report]
  BY DEF Reconcile, ReportTypes, R!Report
<1> QED
  BY <1>2, <1>3 DEF Reconcile, ReportTypes

LEMMA ReportTickTypes ==
  ASSUME ReportTypes, ReportTick
  PROVE  ReportTypes'
<1>1. ASSUME NEW m \in Msg PROVE after'[m] \in After
  <2>1. after[m] \in After
    BY DEF ReportTypes
  <2> QED
    BY <2>1, LifecycleBounds DEF ReportTick, After
<1>2. ASSUME NEW p \in Post PROVE report'[p] \in R!Report
  <2>1. CASE report[p].open
    <3>1. report[p].age + 1 \in 0 .. MaxLag
      <4>1. report[p].age < MaxLag
        BY <2>1 DEF ReportTick
      <4>2. report[p].age \in 0 .. MaxLag
        BY <2>1, OpenReportType
      <4> QED
        BY <4>1, <4>2, LifecycleBounds
    <3>2. report'[p] = [report[p] EXCEPT !.age = @ + 1]
      BY <2>1 DEF ReportTick
    <3> QED
      BY <2>1, <3>1, <3>2, OpenReportType DEF R!Report
  <2>2. CASE ~report[p].open
    BY <2>2 DEF ReportTick, ReportTypes
  <2> QED
    BY <2>1, <2>2
<1>3. after' \in [Msg -> After] /\ report' \in [Post -> R!Report]
  BY <1>1, <1>2 DEF ReportTick
<1> QED
  BY <1>3 DEF ReportTick, ReportTypes

LEMMA ReportTypesStep ==
  ASSUME JoinedInv, ReportTypes, [LifecycleNext]_lifecycleVars
  PROVE  ReportTypes'
<1>1. ASSUME UNCHANGED <<after, report, stored, suppressed, reportFaults, warned>>
      PROVE  ReportTypes'
  BY <1>1 DEF ReportTypes
<1>2. ASSUME NEW w \in Worker, NEW m \in Msg, TakeCopy(w, m)
      PROVE  ReportTypes'
  BY <1>1, <1>2 DEF TakeCopy, R!HandOver
<1>3. ASSUME NEW w \in Worker, NEW m \in Msg, RecordCopy(w, m)
      PROVE  ReportTypes'
  <2>1. after' \in [Msg -> After]
    BY <1>3, LifecycleBounds DEF RecordCopy, ReportTypes, After
  <2> QED
    BY <1>3, <2>1 DEF RecordCopy, ReportTypes
<1>4. CASE RestOfQueue \/ RestOfService \/ UNCHANGED lifecycleVars
  BY <1>1, <1>4 DEF RestOfQueue, RestOfService, reportVars, lifecycleVars
<1>5. ASSUME NEW c \in Caller, NEW new \in Content, SubmitKnowing(c, new)
      PROVE  ReportTypes'
  <2>1. warned' \subseteq Caller \cup Msg
    BY <1>5 DEF SubmitKnowing, ReportTypes
  <2> QED
    BY <1>5, <2>1 DEF SubmitKnowing, reportVars, ReportTypes
<1>6. ASSUME NEW c \in Caller, NEW m \in Msg, InsertKnowing(c, m)
      PROVE  ReportTypes'
  <2>1. warned' \subseteq Caller \cup Msg
    BY <1>6 DEF InsertKnowing, ReportTypes
  <2> QED
    BY <1>6, <2>1 DEF InsertKnowing, reportVars, ReportTypes
<1>7. ASSUME NEW k \in Copy, NEW c \in R!Cause, SuppressMailbox(k, c)
      PROVE  ReportTypes'
  <2>1. suppressed' \subseteq [msg : Copy, rcpt : Nat \ {0}]
    BY <1>7, BlockIsKind DEF SuppressMailbox, R!Suppress, ReportTypes
  <2> QED
    BY <1>7, <2>1 DEF SuppressMailbox, R!Suppress, ReportTypes
<1> QED
  BY <1>2, <1>3, <1>4, <1>5, <1>6, <1>7, RestOfReportsTypes, ReconcileTypes,
     ReportTickTypes DEF LifecycleNext

LEMMA ReportTypesStart == LifecycleInit => ReportTypes
<1> SUFFICES ASSUME LifecycleInit PROVE ReportTypes
  OBVIOUS
<1>1. NothingAfter \in After
  BY LifecycleBounds DEF NothingAfter, After
<1>2. R!NoReport \in R!Report
  BY DEF R!Report
<1> QED
  BY <1>1, <1>2, LifecycleBounds DEF LifecycleInit, ReportTypes

\* The rows as the reports see them are rows.
LEMMA CopyRowType == ReportTypes => CopyRow \in [Copy -> R!Row]
<1> SUFFICES ASSUME ReportTypes, NEW k \in Copy PROVE CopyRow[k] \in R!Row
  BY DEF CopyRow
<1>1. after[k[1]] \in After
  BY CopyParts DEF ReportTypes
<1>2. 0 \in 0 .. Grace + 1
  BY LifecycleBounds
<1> QED
  BY <1>1, <1>2 DEF CopyRow, After, R!Row

-----------------------------------------------------------------------------
(* The theorems.                                                           *)

\* Behind the relay and before its reports the service is module Postbud's,
\* so its theorems and the queue's hold of it: what ingestion puts on the
\* list is about a copy that was handed over, and nothing else of the
\* reports reaches the queue (bounce::ingest, relayqueue::reconcile).
THEOREM ServiceIsUnderneath == LifecycleSpec => ServiceUnderneath
<1>1. LifecycleInit => ServiceInit
  BY DEF LifecycleInit
<1>2. JoinedInv /\ [LifecycleNext]_lifecycleVars => [ServiceNext]_serviceVars
  BY StepIsService
<1>3. QED
  BY <1>1, <1>2, JoinedInvariant, PTL DEF LifecycleSpec, ServiceSpec, ServiceUnderneath

\* Every variable of the joined system keeps its type, seen from the service
\* and from the reports.
THEOREM LifecycleTypes == LifecycleSpec => []LifecycleTypeOK
<1>1. JoinedInv /\ ReportTypes /\ [LifecycleNext]_lifecycleVars => ReportTypes'
  BY ReportTypesStep
<1>2. JoinedInv /\ ReportTypes => LifecycleTypeOK
  BY CopyRowType
  DEF JoinedInv, ServiceInv, Handoffs, ReportTypes, LifecycleTypeOK, R!TypeOK
<1> QED
  BY <1>1, <1>2, ReportTypesStart, JoinedInvariant, PTL DEF LifecycleSpec

\* No tenant's mail, under any key, reaches a mailbox once the notification
\* that calls it dead has been acknowledged to the relay, unless somebody
\* lifts an entry for it: ingestion lists it for everyone before it lets the
\* notification go, an entry is never deleted (suppression::add, remove), and
\* message::accept asks for every tenant's list and the global one.  Whether
\* or not workers overrun their claims.
THEOREM KnownDeadGetNoMail == LifecycleSpec => []NoMailToKnownDead
<1>1. LifecycleInit => PassedInv /\ WarnedInv
  BY DEF LifecycleInit, PassedInv, Passed, WarnedInv, R!NoDsn
<1>2. JoinedInv /\ (PassedInv /\ WarnedInv) /\ [LifecycleNext]_lifecycleVars
        => (PassedInv /\ WarnedInv)'
  BY PassedStep, WarnedStep
<1>3. JoinedInv /\ (PassedInv /\ WarnedInv) => NoMailToKnownDead
  BY WarnedSuffices
<1>4. QED
  BY <1>1, <1>2, <1>3, JoinedInvariant, PTL DEF LifecycleSpec

\* In front of the service the reports are module RelayQueue's: however
\* often a message is handed over, one queue id at most is recorded for it,
\* it names a copy the relay took, and what reconcile concludes is about
\* that copy (message::record_accepted, relayqueue::reconcile).  So what
\* holds of every behaviour of RelayQueue holds of every copy here, while
\* workers keep within their claims.
THEOREM ReportsAreUnderneath ==
  ASSUME ~Overrun
  PROVE  LifecycleSpec => ReportsUnderneath
<1>1. LifecycleInit => IdsInv /\ AfterInv /\ R!Init
  BY IdsInit
<1>2. JoinedInv /\ (IdsInv /\ AfterInv) /\ [LifecycleNext]_lifecycleVars
        => (IdsInv /\ AfterInv)'
  BY IdsStep, AfterStep
<1>3. JoinedInv /\ (IdsInv /\ AfterInv) /\ [LifecycleNext]_lifecycleVars
        => [R!Next]_(R!vars)
  BY StepIsReports
<1>4. QED
  BY <1>1, <1>2, <1>3, JoinedInvariant, PTL
     DEF LifecycleSpec, ReportsUnderneath, R!Spec

-----------------------------------------------------------------------------
(* What is proved of the reports, said of the copies.                      *)

\* Module RelayQueue and its theorems, for the copies.
RP == INSTANCE RelayQueueProofs WITH
        Msg <- Copy, row <- CopyRow, faults <- reportFaults,
        MaxFaults <- MaxReportFaults

LEMMA ReportBounds == RP!RelayQueueAssumption
BY LifecycleAssumption DEF RP!RelayQueueAssumption, RP!Unreadable, RP!Kind, R!Unreadable, R!Kind

\* The instance is the one module Lifecycle has.
LEMMA InstancesAgree ==
  /\ R!Init => RP!Init
  /\ [R!Next]_(R!vars) => [RP!Next]_(RP!vars)
<1>1. R!Init => RP!Init
  BY DEF R!Init, RP!Init, R!NoReport, RP!NoReport, R!NoDsn, RP!NoDsn, R!Cause, RP!Cause
<1>2. ASSUME NEW k \in Copy, R!HandOver(k) \/ R!Move(k) \/ R!Bounce(k) \/ R!Delay(k)
      PROVE  RP!HandOver(k) \/ RP!Move(k) \/ RP!Bounce(k) \/ RP!Delay(k)
  BY <1>2 DEF R!HandOver, RP!HandOver, R!Move, RP!Move, R!Bounce, RP!Bounce, R!Delay,
              RP!Delay, R!Send, RP!Send, R!Held, RP!Held
<1>3. ASSUME NEW k \in Copy, NEW known \in BOOLEAN, R!Record(k, known)
      PROVE  RP!Record(k, known)
  BY <1>3 DEF R!Record, RP!Record
<1>4. ASSUME NEW p \in Post, R!Take(p) \/ R!LoseReport(p)
      PROVE  RP!Take(p) \/ RP!LoseReport(p)
  BY <1>4 DEF R!Take, RP!Take, R!LoseReport, RP!LoseReport, R!Held, RP!Held,
              R!NoReport, RP!NoReport
<1>5. ASSUME NEW p \in Post, R!Reconcile(p)
      PROVE  RP!Reconcile(p)
  BY <1>5 DEF R!Reconcile, RP!Reconcile, R!Concludes, RP!Concludes, R!Reported,
              RP!Reported, R!Held, RP!Held, R!NoReport, RP!NoReport
<1>6. ASSUME NEW k \in Copy, NEW c \in R!Cause, R!Ingest(k, c) \/ R!Requeue(k, c)
      PROVE  c \in RP!Cause /\ (RP!Ingest(k, c) \/ RP!Requeue(k, c))
  <2>1. c \in RP!Cause
    BY DEF R!Cause, RP!Cause
  <2>2. R!Store(k, c) => RP!Store(k, c)
    BY DEF R!Store, RP!Store, R!AtBlock, RP!AtBlock, R!Block, RP!Block, R!Ingestion,
           RP!Ingestion, R!ShouldSuppress, RP!ShouldSuppress
  <2>3. R!Suppress(k, c) => RP!Suppress(k, c)
    BY DEF R!Suppress, RP!Suppress, R!AtBlock, RP!AtBlock, R!Ingestion, RP!Ingestion
  <2>4. R!Acknowledge(k, c) => RP!Acknowledge(k, c)
    BY DEF R!Acknowledge, RP!Acknowledge
  <2>5. R!Requeue(k, c) => RP!Requeue(k, c)
    BY DEF R!Requeue, RP!Requeue, R!Ingestion, RP!Ingestion
  <2> QED
    BY <1>6, <2>1, <2>2, <2>3, <2>4, <2>5 DEF R!Ingest, RP!Ingest
<1>7. R!Tick => RP!Tick
  BY DEF R!Tick, RP!Tick, R!Aged, RP!Aged
<1>8. UNCHANGED R!vars => UNCHANGED RP!vars
  BY DEF R!vars, RP!vars
<1>9. R!Next => RP!Next
  BY <1>2, <1>3, <1>4, <1>5, <1>6, <1>7 DEF R!Next, RP!Next
<1> QED
  BY <1>1, <1>8, <1>9

LEMMA ReportsAreReports ==
  ASSUME ~Overrun
  PROVE  LifecycleSpec => RP!Spec
<1>1. R!Spec => RP!Spec
  BY InstancesAgree, PTL DEF R!Spec, RP!Spec
<1> QED
  BY <1>1, ReportsAreUnderneath, PTL DEF ReportsUnderneath

\* Whichever copy of a message its queue id names, and however many copies
\* the workers made of it: the message is called delivered only once that
\* copy has left the relay (relayqueue::reconcile under GRACE_SECS).
THEOREM ConclusionsAreTrue ==
  ASSUME ~Overrun, MaxLag <= Grace
  PROVE  LifecycleSpec => []R!ConcludedHasLeft
<1>1. RP!Spec => []RP!ConcludedHasLeft
  BY ReportBounds, RP!AbsenceMeansLeft
<1>2. RP!ConcludedHasLeft => R!ConcludedHasLeft
  BY DEF RP!ConcludedHasLeft, R!ConcludedHasLeft
<1> QED
  BY <1>1, <1>2, ReportsAreReports, PTL

\* Behind real submissions too, nobody is listed as dead without a stored
\* notification that says so, and the relay forgets no notification before
\* all of it is in the database (bounce::ingest).
THEOREM NotificationsAreKept ==
  ASSUME ~Overrun
  PROVE  LifecycleSpec => [](R!SuppressedOnEvidence /\ R!AcknowledgedIsPersisted)
<1>1. RP!Spec => []RP!SuppressedOnEvidence
  BY ReportBounds, RP!SuppressionRestsOnEvidence
<1>2. RP!Spec => []RP!AcknowledgedIsPersisted
  BY ReportBounds, RP!NoNotificationIsLost
<1>3. RP!SuppressedOnEvidence => R!SuppressedOnEvidence
  BY DEF RP!SuppressedOnEvidence, R!SuppressedOnEvidence
<1>4. RP!AcknowledgedIsPersisted => R!AcknowledgedIsPersisted
  BY DEF RP!AcknowledgedIsPersisted, R!AcknowledgedIsPersisted, RP!Cause, R!Cause
<1> QED
  BY <1>1, <1>2, <1>3, <1>4, ReportsAreReports, PTL

-----------------------------------------------------------------------------
(* What is proved of the service and the queue, said of the whole.         *)

LEMMA QueueIsUnderneath == LifecycleSpec => Spec
<1> QED
  BY ServiceIsUnderneath, QueueUnderneath, PTL DEF ServiceUnderneath, QueueIsQueue

\* With the relay behind it and the reports coming back, overruns or not:
\* one message for a key and one answer, a suppression that can be
\* explained, a status that rests on evidence, attempts within the schedule
\* and a body for every message that may still be sent.
THEOREM LifecycleIsSafe ==
  LifecycleSpec => [](/\ OneMessagePerKey /\ AnswersAgree /\ SuppressedIsExplained
                     /\ StatusHasEvidence /\ AttemptsWithinSchedule
                     /\ RetryableHasBody)
<1>1. LifecycleSpec => [](OneMessagePerKey /\ AnswersAgree /\ SuppressedIsExplained)
  BY ServiceIsUnderneath, KeysAreIdempotent, AnswersStayTrue, SuppressionHasAReason, PTL
  DEF ServiceUnderneath
<1>2. LifecycleSpec => [](/\ StatusHasEvidence /\ AttemptsWithinSchedule
                          /\ RetryableHasBody)
  BY QueueIsUnderneath, StatusRestsOnEvidence, ScheduleBoundsAttempts, QueuedHasBody, PTL
<1> QED
  BY <1>1, <1>2, PTL

\* While workers keep within their claims the whole keeps the promise the
\* queue alone keeps: one known copy at most, a verdict that is final, and
\* log and counter that agree.
THEOREM LifecycleKeepsPromise ==
  ASSUME ~Overrun
  PROVE  LifecycleSpec => KeepsPromise /\ FinishedIsFinal
                            /\ [](NoDuplicateWithoutLoss /\ AttemptsMatchLog)
<1> QED
  BY QueueIsUnderneath, QueueKeepsPromise, VerdictsAreFinal, DuplicatesNeedALoss,
     CounterMatchesLog, PTL

=============================================================================
