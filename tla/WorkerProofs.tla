---------------------------- MODULE WorkerProofs ----------------------------
(***************************************************************************)
(* Theorems about what a worker does beside delivering, duty by duty and   *)
(* for the worker as a whole.                                              *)
(*                                                                         *)
(* Wakeup: no wake-up is lost, for any number of jobs and whatever the     *)
(* other workers lock, take or give back.  NoSleepThroughNews says nothing *)
(* of the time before the loop waits, so it is not inductive: the          *)
(* invariant adds what must hold while a claim is in progress.  What the   *)
(* claim did not see, because it was committed later, has left a trace     *)
(* that the loop has not consumed: only a waiting loop consumes the        *)
(* permit, and only the listener the notifications.                        *)
(*                                                                         *)
(* DomainChecks: the history holds answers only, for any number of         *)
(* checkers, subjects and records.  A round carries what it has asked for, *)
(* so the invariant says of an unfinished round what VerdictsAreAnswers    *)
(* says of a finished one.                                                 *)
(*                                                                         *)
(* Verdicts: the badge is right about any answers.  The code looks for the *)
(* first record and counts; the property speaks of one record and no       *)
(* other.                                                                  *)
(*                                                                         *)
(* DmarcPoller: no mail is lost and none is filed as handled before its    *)
(* reports are stored, for any number of pollers over one mailbox, any     *)
(* batch, any mail and any faults.  Neither is inductive: EXPUNGE removes  *)
(* what anybody flagged, so the invariant says that a flag is only ever    *)
(* set on a mail that has been copied, and that a poller about to set it   *)
(* has copied it; and a poller about to file a mail as handled has stored  *)
(* what it read of it, one document after the other.                       *)
(***************************************************************************)
EXTENDS WorkerDuties, FiniteSetTheorems, SequenceTheorems, TLAPS

-----------------------------------------------------------------------------
(* Wakeup.                                                                 *)

USE DEF WakeTypeOK

\* News the loop may not know of leaves a trace.
Traced(news) == news # {} => permit \/ inbox > 0

WakeInv ==
  /\ WakeTypeOK
  /\ announced \cap ahead = {}
  /\ loop = "looking" => Traced((announced \cap due) \ seen)
  /\ loop = "waiting" => Traced(announced \cap due)

-----------------------------------------------------------------------------

\* Nothing is announced before there is anything.
LEMMA WakeInvInit == WakeInit => WakeInv
<1> SUFFICES ASSUME WakeInit PROVE WakeInv
  OBVIOUS
<1>1. WakeTypeOK
  <2>1. subscribed \in BOOLEAN /\ permit \in BOOLEAN
    BY Zenon DEF WakeInit
  <2>2. inbox \in Nat /\ wakeFaults \in 0 .. MaxWakeFaults
    BY WakeupAssumption DEF WakeInit
  <2> QED
    BY <2>1, <2>2, Zenon DEF WakeInit
<1>2. announced \cap ahead = {}
  BY DEF WakeInit
<1>3. loop = "claiming"
  BY DEF WakeInit
<1> QED
  BY <1>1, <1>2, <1>3 DEF WakeInv

\* What the other workers and the listener do leaves a trace of the news.
LEMMA WorldKeepsInv ==
  ASSUME WakeInv,
         \/ \E j \in Job : AcceptJob(j) \/ FallDue(j)
         \/ LockElsewhere \/ ClaimElsewhere \/ ReleaseElsewhere
         \/ Subscribe \/ DropSubscription \/ Receive
  PROVE  WakeInv'
<1>1. CASE \E j \in Job : AcceptJob(j)
  BY <1>1 DEF WakeInv, AcceptJob, Traced
<1>2. CASE \E j \in Job : FallDue(j)
  BY <1>2 DEF WakeInv, FallDue, Traced
<1>3. CASE LockElsewhere
  BY <1>3 DEF WakeInv, LockElsewhere, Traced
<1>4. CASE ClaimElsewhere
  BY <1>4 DEF WakeInv, ClaimElsewhere, Traced
<1>5. CASE ReleaseElsewhere
  BY <1>5, WakeupAssumption DEF WakeInv, ReleaseElsewhere, Traced
<1>6. CASE Subscribe
  BY <1>6 DEF WakeInv, Subscribe, Traced
<1>7. CASE DropSubscription
  <2>1. WakeTypeOK'
    <3>1. subscribed' \in BOOLEAN /\ permit' \in BOOLEAN
      BY <1>7, Zenon DEF WakeInv, DropSubscription
    <3>2. inbox' \in Nat /\ wakeFaults' \in 0 .. MaxWakeFaults
      BY <1>7, WakeupAssumption DEF WakeInv, DropSubscription
    <3> QED
      BY <1>7, <3>1, <3>2, Zenon DEF WakeInv, DropSubscription
  <2>2. announced' = {}
    BY <1>7 DEF DropSubscription
  <2>3. /\ (announced \cap ahead)' = {}
        /\ ((announced \cap due) \ seen)' = {}
        /\ (announced \cap due)' = {}
    BY <2>2
  <2> QED
    BY <2>1, <2>3 DEF WakeInv, Traced
<1>8. CASE Receive
  BY <1>8 DEF WakeInv, Receive, Traced
<1> QED
  BY <1>1, <1>2, <1>3, <1>4, <1>5, <1>6, <1>7, <1>8

\* The loop itself: a claim that finds nothing has seen everything that
\* left no trace, and what it saw is taken or locked.
LEMMA LoopKeepsInv ==
  ASSUME WakeInv, Deliveries
  PROVE  WakeInv'
<1>1. CASE Look
  BY <1>1 DEF WakeInv, Look, Traced
<1>2. CASE TakeBatch
  BY <1>2 DEF WakeInv, TakeBatch, Traced
<1>3. CASE FindNothing
  <2>1. (announced \ (seen \cap locked)) \cap due \subseteq (announced \cap due) \ seen
    BY <1>3 DEF FindNothing, Free
  <2>2. Traced((announced \cap due) \ seen)
    BY <1>3 DEF WakeInv, FindNothing
  <2> QED
    BY <1>3, <2>1, <2>2 DEF WakeInv, FindNothing, Traced
<1>4. CASE FinishBatch
  BY <1>4 DEF WakeInv, FinishBatch, Traced
<1>5. CASE WakeUp
  BY <1>5 DEF WakeInv, WakeUp, Traced
<1>6. CASE IdleOut
  BY <1>6 DEF WakeInv, IdleOut, Traced
<1> QED
  BY <1>1, <1>2, <1>3, <1>4, <1>5, <1>6 DEF Deliveries

\* The invariant holds of every behaviour of the worker's wake-up.
THEOREM WakeInvariant == WakeSpec => []WakeInv
<1>1. WakeInv /\ [WakeNext]_wakeVars => WakeInv'
  <2> SUFFICES ASSUME WakeInv, [WakeNext]_wakeVars PROVE WakeInv'
    OBVIOUS
  <2>1. CASE UNCHANGED wakeVars
    BY <2>1 DEF WakeInv, wakeVars, Traced
  <2>2. CASE WakeNext
    BY <2>2, WorldKeepsInv, LoopKeepsInv DEF WakeNext
  <2> QED
    BY <2>1, <2>2
<1> QED
  BY <1>1, WakeInvInit, PTL DEF WakeSpec

\* worker.rs: "a wake-up arriving while the worker is busy is remembered
\* rather than lost" - the loop never waits while announced work is due and
\* nothing is on its way to wake it.
THEOREM NoWakeUpIsLost == WakeSpec => []NoSleepThroughNews
<1>1. WakeInv => NoSleepThroughNews
  BY DEF WakeInv, NoSleepThroughNews, Traced
<1> QED
  BY <1>1, WakeInvariant, PTL

HIDE DEF WakeTypeOK

-----------------------------------------------------------------------------
(* DomainChecks.                                                           *)

\* The records as they are were so at some time.
WorldInv ==
  \A s \in Subject : world[s] \subseteq everRight[s] /\ Record \ world[s] \subseteq everWrong[s]

\* What a round found out about the subject at hand was so at some time.
AskedInv(c) ==
  round[c].todo # {} =>
    /\ round[c].right \subseteq everRight[Checked(c)]
    /\ (1 .. round[c].asked) \ round[c].right \subseteq everWrong[Checked(c)]

ChecksInv == CheckTypeOK /\ WorldInv /\ (\A c \in Checker : AskedInv(c)) /\ VerdictsAreAnswers

LEMMA CheckedIsSubject ==
  ASSUME CheckTypeOK, NEW c \in Checker, round[c].todo # {}
  PROVE  Checked(c) \in Subject /\ Checked(c) \in round[c].todo
<1>1. round[c].todo \subseteq Subject
  BY DEF CheckTypeOK, Round
<1>2. QED
  BY <1>1 DEF Checked

\* A step of one round, about what it found so far.
LEMMA RoundKeeps ==
  ASSUME ChecksInv, NEW c \in Checker, NEW new \in Round, SetRound(c, new),
         UNCHANGED <<world, registry, everRight, everWrong, changes>>,
         checkFaults' \in 0 .. MaxCheckFaults,
         odd' \subseteq Subject, running' \subseteq Checker,
         latest' \in [Subject -> Check], VerdictsAreAnswers',
         LET s == CHOOSE s \in new.todo : TRUE
         IN  new.todo # {} => /\ new.right \subseteq everRight[s]
                              /\ (1 .. new.asked) \ new.right \subseteq everWrong[s]
  PROVE  ChecksInv'
<1>1. round' = [round EXCEPT ![c] = new]
  BY DEF SetRound
<1>2. /\ round' \in [Checker -> Round] /\ round'[c] = new
      /\ \A d \in Checker : d # c => round'[d] = round[d]
  BY <1>1 DEF ChecksInv, CheckTypeOK
<1>3. CheckTypeOK' /\ WorldInv'
  BY <1>2 DEF ChecksInv, CheckTypeOK, WorldInv
<1>4. AskedInv(c)'
  BY <1>2 DEF AskedInv, Checked
<1>5. ASSUME NEW d \in Checker, d # c PROVE AskedInv(d)'
  <2>1. AskedInv(d) /\ round'[d] = round[d]
    BY <1>2, <1>5 DEF ChecksInv
  <2>2. QED
    BY <2>1 DEF AskedInv, Checked
<1>6. QED
  BY <1>3, <1>4, <1>5 DEF ChecksInv

FreshRound(c) ==
  \E new \in Round : new.asked = 0 /\ new.right = {} /\ SetRound(c, new)

\* A new round, or a round that turns to the next subject, has found nothing.
LEMMA FreshRoundKeeps ==
  ASSUME ChecksInv, NEW c \in Checker, FreshRound(c),
         UNCHANGED <<world, registry, everRight, everWrong, changes>>,
         checkFaults' \in 0 .. MaxCheckFaults,
         odd' \subseteq Subject, running' \subseteq Checker,
         latest' \in [Subject -> Check], VerdictsAreAnswers'
  PROVE  ChecksInv'
<1>1. PICK new \in Round : new.asked = 0 /\ new.right = {} /\ SetRound(c, new)
  BY DEF FreshRound
<1>2. 1 .. new.asked = {}
  BY <1>1
<1>3. QED
  BY <1>1, <1>2, RoundKeeps

LEMMA NextSubjectIsFresh ==
  ASSUME ChecksInv, NEW c \in Checker, NextSubject(c)
  PROVE  FreshRound(c)
<1> DEFINE new == [round[c] EXCEPT !.todo = @ \ {Checked(c)}, !.asked = 0, !.right = {},
                                !.odd = FALSE]
<1>1. round[c] \in Round
  BY DEF ChecksInv, CheckTypeOK
<1> DEFINE rest == round[c].todo \ {Checked(c)}
<1>2. new \in Round /\ new.asked = 0 /\ new.right = {}
  <2>1. rest \in SUBSET Subject /\ 0 \in 0 .. Records /\ {} \in SUBSET Record
    BY <1>1, ChecksAssumption DEF Round
  <2>2. new = [round[c] EXCEPT !.todo = rest, !.asked = 0, !.right = {}, !.odd = FALSE]
    OBVIOUS
  <2> HIDE DEF rest, new
  <2>3. new \in Round
    BY <1>1, <2>1, <2>2 DEF Round
  <2>4. new.asked = 0 /\ new.right = {}
    BY <1>1, <2>2 DEF Round
  <2>5. QED
    BY <2>3, <2>4
<1>3. QED
  BY <1>2 DEF NextSubject, FreshRound

LEMMA ChecksStart == CheckInit => ChecksInv
<1> SUFFICES ASSUME CheckInit PROVE ChecksInv
  OBVIOUS
<1>1. NoRound \in Round /\ NoRound.todo = {}
  BY ChecksAssumption DEF NoRound, Round
<1>2. \A s \in Subject : world[s] \in SUBSET Record
  BY DEF CheckInit
<1>3. CheckTypeOK
  BY <1>1, <1>2, ChecksAssumption DEF CheckInit, CheckTypeOK, Registration, Check
<1>4. WorldInv
  BY DEF CheckInit, WorldInv
<1>5. \A c \in Checker : AskedInv(c)
  BY <1>1 DEF CheckInit, AskedInv
<1>6. \A s \in Subject : ~latest[s].made
  BY DEF CheckInit, NoCheck
<1>7. VerdictsAreAnswers
  BY <1>6 DEF VerdictsAreAnswers
<1>8. QED
  BY <1>3, <1>4, <1>5, <1>7 DEF ChecksInv

LEMMA ChangeKeeps ==
  ASSUME ChecksInv, NEW s \in Subject, NEW r \in Record, Change(s, r)
  PROVE  ChecksInv'
<1>1. \A t \in Subject : everRight[t] \subseteq everRight'[t] /\ everWrong[t] \subseteq everWrong'[t]
  BY DEF ChecksInv, CheckTypeOK, Change
<1>2. CheckTypeOK'
  <2>1. world' \in [Subject -> SUBSET Record]
    BY DEF ChecksInv, CheckTypeOK, Change
  <2>2. everRight' \in [Subject -> SUBSET Record] /\ everWrong' \in [Subject -> SUBSET Record]
    BY DEF ChecksInv, CheckTypeOK, Change
  <2>3. changes' \in 0 .. MaxChanges
    BY ChecksAssumption DEF ChecksInv, CheckTypeOK, Change
  <2>4. QED
    BY <2>1, <2>2, <2>3 DEF ChecksInv, CheckTypeOK, Change
<1>3. WorldInv'
  BY DEF ChecksInv, CheckTypeOK, Change, WorldInv
<1>4. ASSUME NEW c \in Checker PROVE AskedInv(c)'
  <2>1. CASE round[c].todo = {}
    BY <2>1 DEF AskedInv, Change
  <2>2. CASE round[c].todo # {}
    <3>1. Checked(c) \in Subject /\ AskedInv(c)
      BY <2>2, CheckedIsSubject DEF ChecksInv
    <3>2. round' = round
      BY DEF Change
    <3>3. QED
      BY <1>1, <2>2, <3>1, <3>2 DEF AskedInv, Checked
  <2>3. QED
    BY <2>1, <2>2
<1>5. VerdictsAreAnswers'
  <2>1. latest' = latest
    BY DEF Change
  <2>2. \A t \in Subject : everRight'[t] \subseteq Record
    BY <1>2 DEF CheckTypeOK
  <2>3. QED
    BY <1>1, <2>1, <2>2 DEF ChecksInv, VerdictsAreAnswers
<1>6. QED
  BY <1>2, <1>3, <1>4, <1>5 DEF ChecksInv

LEMMA AskKeeps ==
  ASSUME ChecksInv, NEW c \in Checker, Ask(c)
  PROVE  ChecksInv'
<1> DEFINE s   == Checked(c)
           r   == round[c].asked + 1
           new == [round[c] EXCEPT !.asked = r, !.right = @ \cup ({r} \cap world[s]),
                                !.odd = @ \/ (r = 1 /\ s \in odd)]
<1>1. round[c] \in Round /\ s \in Subject /\ round[c].todo # {} /\ round[c].asked < Records
  BY CheckedIsSubject DEF ChecksInv, CheckTypeOK, Ask
<1>2. r \in Record /\ 1 .. r = (1 .. round[c].asked) \cup {r}
  BY <1>1, ChecksAssumption DEF Round, Record
<1>3. /\ new \in Round /\ new.todo = round[c].todo /\ new.asked = r
      /\ new.right = round[c].right \cup ({r} \cap world[s])
  <2>1. r \in 0 .. Records
    BY <1>2 DEF Record
  <2>2. round[c].right \cup ({r} \cap world[s]) \subseteq Record
    BY <1>1, <1>2 DEF Round
  <2>3. QED
    BY <1>1, <2>1, <2>2 DEF Round
<1>4. AskedInv(c) /\ WorldInv
  BY DEF ChecksInv
<1>5. /\ new.right \subseteq everRight[s]
      /\ (1 .. new.asked) \ new.right \subseteq everWrong[s]
  BY <1>1, <1>2, <1>3, <1>4 DEF AskedInv, WorldInv
<1>6. /\ SetRound(c, new)
      /\ UNCHANGED <<world, odd, running, registry, latest, everRight, everWrong, changes,
                     checkFaults>>
  BY DEF Ask
<1>7. /\ VerdictsAreAnswers' /\ latest' \in [Subject -> Check]
      /\ checkFaults' \in 0 .. MaxCheckFaults /\ odd' \subseteq Subject /\ running' \subseteq Checker
  BY <1>6 DEF ChecksInv, CheckTypeOK, VerdictsAreAnswers
<1>8. s = CHOOSE x \in new.todo : TRUE
  BY <1>3 DEF Checked
<1> HIDE DEF new
<1>9. QED
  BY <1>3, <1>5, <1>6, <1>7, <1>8, RoundKeeps

LEMMA RecordKeeps ==
  ASSUME ChecksInv, NEW c \in Checker, RecordCheck(c)
  PROVE  ChecksInv'
<1> DEFINE s == Checked(c)
           valid == round[c].right = Record
           row == [made |-> TRUE, valid |-> valid, age |-> 0]
<1>1. /\ round[c] \in Round /\ s \in Subject /\ AskedInv(c) /\ round[c].todo # {}
      /\ round[c].asked = Records
  BY CheckedIsSubject DEF ChecksInv, CheckTypeOK, RecordCheck
<1>2. latest' = [latest EXCEPT ![s] = row]
  BY DEF RecordCheck, Insert
<1>3. row \in Check
  BY ChecksAssumption DEF Check
<1>4. /\ latest' \in [Subject -> Check] /\ latest'[s] = row
      /\ \A t \in Subject : t # s => latest'[t] = latest[t]
  BY <1>2, <1>3, <1>1 DEF ChecksInv, CheckTypeOK
<1>5. UNCHANGED <<world, odd, running, registry, everRight, everWrong, changes, checkFaults>>
  BY DEF RecordCheck
<1>6. IF valid THEN everRight[s] = Record ELSE everWrong[s] # {}
  <2>1. everRight[s] \subseteq Record /\ round[c].right \subseteq Record
    BY <1>1 DEF ChecksInv, CheckTypeOK, Round
  <2>2. /\ round[c].right \subseteq everRight[s]
        /\ Record \ round[c].right \subseteq everWrong[s]
    BY <1>1 DEF AskedInv, Record
  <2>3. CASE valid
    <3>1. everRight[s] = Record
      BY <2>1, <2>2, <2>3
    <3>2. QED
      BY <2>3, <3>1
  <2>4. CASE ~valid
    <3>1. Record \ round[c].right # {}
      BY <2>1, <2>4
    <3>2. QED
      BY <2>2, <2>4, <3>1
  <2>5. QED
    BY <2>3, <2>4
<1>7. row.valid <=> valid
  OBVIOUS
<1> HIDE DEF row, valid
<1>8. VerdictsAreAnswers'
  <2> SUFFICES ASSUME NEW t \in Subject, latest'[t].made
               PROVE  IF latest'[t].valid THEN everRight'[t] = Record ELSE everWrong'[t] # {}
    BY DEF VerdictsAreAnswers
  <2>1. CASE t = s
    BY <1>4, <1>5, <1>6, <1>7, <2>1
  <2>2. CASE t # s
    BY <1>4, <1>5, <2>2 DEF ChecksInv, VerdictsAreAnswers
  <2>3. QED
    BY <2>1, <2>2
<1>9. FreshRound(c)
  BY NextSubjectIsFresh DEF RecordCheck
<1>10. checkFaults' \in 0 .. MaxCheckFaults /\ odd' \subseteq Subject /\ running' \subseteq Checker
  BY <1>5 DEF ChecksInv, CheckTypeOK
<1>11. QED
  BY <1>4, <1>5, <1>8, <1>9, <1>10, FreshRoundKeeps

\* An older row is a row, and says the same.
LEMMA AgedRow ==
  ASSUME NEW M, NEW V, NEW A, NEW old \in [made : M, valid : V, age : A]
  PROVE  /\ old.age \in A
         /\ \A a \in A : /\ [old EXCEPT !.age = a] \in [made : M, valid : V, age : A]
                         /\ [old EXCEPT !.age = a].made = old.made
                         /\ [old EXCEPT !.age = a].valid = old.valid
  OBVIOUS

LEMMA TickKeepsVerdicts ==
  ASSUME ChecksInv, CheckTick
  PROVE  ChecksInv'
<1>1. ASSUME NEW s \in Subject
      PROVE  /\ latest'[s] \in Check
             /\ latest'[s].made = latest[s].made
             /\ latest[s].made => latest'[s].valid = latest[s].valid
  <2>1. latest[s] \in Check
    BY DEF ChecksInv, CheckTypeOK
  <2>2. CASE latest'[s] = latest[s]
    BY <2>1, <2>2
  <2>3. CASE latest[s].made /\ latest[s].age <= Revalidate
             /\ latest'[s] = [latest[s] EXCEPT !.age = @ + 1]
    <3>0. ~NoCheck.made
      BY DEF NoCheck
    <3>1. latest[s] \in [made : {TRUE}, valid : BOOLEAN, age : 0 .. Revalidate + 1]
      <4>1. latest[s] # NoCheck
        BY <2>3, <3>0
      <4>2. QED
        BY <2>1, <4>1 DEF Check
    <3>2. latest[s].age + 1 \in 0 .. Revalidate + 1
      <4>1. latest[s].age \in 0 .. Revalidate + 1 /\ latest[s].age <= Revalidate
        BY <2>3, <3>1, AgedRow
      <4>2. QED
        BY <4>1, ChecksAssumption
    <3>3. /\ latest'[s] \in [made : {TRUE}, valid : BOOLEAN, age : 0 .. Revalidate + 1]
          /\ latest'[s].made = latest[s].made /\ latest'[s].valid = latest[s].valid
      <4> DEFINE M == {TRUE}
                 V == BOOLEAN
                 A == 0 .. Revalidate + 1
      <4> HIDE DEF M, V, A
      <4>1. latest[s] \in [made : M, valid : V, age : A] /\ latest[s].age + 1 \in A
        BY <3>1, <3>2 DEF M, V, A
      <4>2. latest'[s] = [latest[s] EXCEPT !.age = latest[s].age + 1]
        BY <2>3
      <4>3. /\ latest'[s] \in [made : M, valid : V, age : A]
            /\ latest'[s].made = latest[s].made /\ latest'[s].valid = latest[s].valid
        BY <4>1, <4>2, AgedRow
      <4>4. QED
        BY <4>3 DEF M, V, A
    <3>4. QED
      BY <3>3 DEF Check
  <2>4. QED
    BY <2>2, <2>3 DEF CheckTick
<1>2. latest' \in [Subject -> Check]
  BY <1>1 DEF CheckTick
<1>3. UNCHANGED <<world, odd, running, registry, round, everRight, everWrong, changes,
                  checkFaults>>
  BY DEF CheckTick
<1>4. CheckTypeOK' /\ WorldInv'
  BY <1>2, <1>3 DEF ChecksInv, CheckTypeOK, WorldInv
<1>5. \A c \in Checker : AskedInv(c)'
  BY <1>3 DEF ChecksInv, AskedInv, Checked
<1>6. VerdictsAreAnswers'
  BY <1>1, <1>3 DEF ChecksInv, VerdictsAreAnswers
<1>7. QED
  BY <1>4, <1>5, <1>6 DEF ChecksInv

LEMMA ChecksStep == ChecksInv /\ [CheckNext]_checkVars => ChecksInv'
<1> SUFFICES ASSUME ChecksInv, [CheckNext]_checkVars PROVE ChecksInv'
  OBVIOUS
<1>1. ASSUME NEW s \in Subject, RegisterDomain(s) \/ EndDomain(s) PROVE ChecksInv'
  <2>1. UNCHANGED <<world, odd, running, latest, round, everRight, everWrong, changes,
                     checkFaults>>
    BY <1>1 DEF RegisterDomain, EndDomain
  <2>2. registry' \in [Subject -> Registration]
    BY <1>1 DEF ChecksInv, CheckTypeOK, RegisterDomain, EndDomain, Registration
  <2>3. QED
    BY <2>1, <2>2
    DEF ChecksInv, CheckTypeOK, WorldInv, AskedInv, Checked, VerdictsAreAnswers
<1>2. ASSUME NEW c \in Checker, Begin(c) PROVE ChecksInv'
  <2> DEFINE todo == {s \in Subject : Due(s)}
  <2>1. /\ [NoRound EXCEPT !.todo = todo] \in Round
        /\ [NoRound EXCEPT !.todo = todo].asked = 0
        /\ [NoRound EXCEPT !.todo = todo].right = {}
    <3>1. todo \in SUBSET Subject
      OBVIOUS
    <3>2. NoRound \in Round /\ NoRound.asked = 0 /\ NoRound.right = {}
      BY ChecksAssumption DEF NoRound, Round
    <3> HIDE DEF todo
    <3> QED
      BY <3>1, <3>2 DEF Round
  <2>2. FreshRound(c)
    BY <1>2, <2>1 DEF Begin, FreshRound
  <2>3. UNCHANGED <<world, odd, running, registry, latest, everRight, everWrong, changes,
                     checkFaults>>
    BY <1>2 DEF Begin
  <2>4. QED
    BY <2>2, <2>3, FreshRoundKeeps DEF ChecksInv, CheckTypeOK, VerdictsAreAnswers
<1>3. ASSUME NEW c \in Checker,
             SkipSubject(c) \/ AbandonRound(c) \/ Panic(c) \/ Restart(c)
      PROVE  ChecksInv'
  <2>1. UNCHANGED <<world, odd, registry, latest, everRight, everWrong, changes>>
    BY <1>3 DEF SkipSubject, AbandonRound, Panic, Restart
  <2>2. checkFaults' \in 0 .. MaxCheckFaults
    BY <1>3, ChecksAssumption
    DEF SkipSubject, AbandonRound, Panic, Restart, CheckFault, ChecksInv, CheckTypeOK
  <2>3. running' \subseteq Checker
    BY <1>3 DEF SkipSubject, AbandonRound, Panic, Restart, ChecksInv, CheckTypeOK
  <2>4. FreshRound(c)
    <3>1. NoRound \in Round /\ NoRound.asked = 0 /\ NoRound.right = {}
      BY ChecksAssumption DEF NoRound, Round
    <3>2. QED
      BY <1>3, <3>1, NextSubjectIsFresh
      DEF SkipSubject, AbandonRound, Panic, Restart, FreshRound
  <2>5. QED
    BY <2>1, <2>2, <2>3, <2>4, FreshRoundKeeps DEF ChecksInv, CheckTypeOK, VerdictsAreAnswers
<1>4. CASE UNCHANGED checkVars
  BY <1>4
  DEF checkVars, ChecksInv, CheckTypeOK, WorldInv, AskedInv, Checked, VerdictsAreAnswers
<1>5. ASSUME NEW s \in Subject, ChangeOdd(s) PROVE ChecksInv'
  <2>1. UNCHANGED <<world, running, registry, latest, round, everRight, everWrong,
                     checkFaults>>
    BY <1>5 DEF ChangeOdd
  <2>2. odd' \subseteq Subject /\ changes' \in 0 .. MaxChanges
    BY <1>5, ChecksAssumption DEF ChangeOdd, ChecksInv, CheckTypeOK
  <2>3. QED
    BY <2>1, <2>2
    DEF ChecksInv, CheckTypeOK, WorldInv, AskedInv, Checked, VerdictsAreAnswers
<1>6. QED
  BY <1>1, <1>2, <1>3, <1>4, <1>5, ChangeKeeps, AskKeeps, RecordKeeps, TickKeepsVerdicts
  DEF CheckNext, Progress

LEMMA ChecksInvariant == CheckSpec => []ChecksInv
<1> QED
  BY ChecksStart, ChecksStep, PTL DEF CheckSpec

\* An outage of ours never speaks about a domain: whatever workers check at
\* the same time, die or fail to ask, a row of the history says of the
\* records what was true of each of them at some time.
THEOREM HistoryHoldsAnswers == CheckSpec => []VerdictsAreAnswers
<1>1. ChecksInv => VerdictsAreAnswers
  BY DEF ChecksInv
<1> QED
  BY <1>1, ChecksInvariant, PTL

-----------------------------------------------------------------------------
(* Verdicts: the badge.                                                    *)

LEMMA VerdictBounds ==
  MaxAnswer \in Nat /\ MaxRecords \in Nat /\ DmarcTags \subseteq DmarcRecord
BY VerdictsAssumption

\* What was published is of its type, and each answer is a sequence.
LEMMA ZoneFields ==
  ASSUME VerdictsTypeOK
  PROVE  /\ zone.apex \in Answer(SpfText) /\ zone.dkim \in Answer(DkimText)
         /\ zone.mx \in Answer(MxHost)
         /\ \A n \in {"domain", "organization"} : zone.dmarc[n] \in Answer(DmarcTexts)
         /\ zone = [apex |-> zone.apex, dkim |-> zone.dkim, mx |-> zone.mx, dmarc |-> zone.dmarc]
BY DEF VerdictsTypeOK, Zone

LEMMA AnswerFacts ==
  ASSUME NEW Text, NEW answer \in Answer(Text)
  PROVE  \E n \in Nat : /\ n <= MaxAnswer /\ DOMAIN answer = 1 .. n
                        /\ \A i \in 1 .. n : answer[i] \in Text
                        /\ answer \in Seq(Text) /\ Len(answer) = n
BY VerdictBounds DEF Answer

\* One SPF record is right, and it is the only one.
LEMMA SpfIsRight ==
  ASSUME NEW answer \in Answer(SpfText)
  PROVE  CheckSpf(answer) = "ok" <=>
           \E i \in DOMAIN answer : \A k \in DOMAIN answer :
             answer[k] = (IF k = i THEN "spf as expected" ELSE Unrelated)
<1>1. CheckSpf(answer) = "ok" <=>
        \E i \in DOMAIN answer : Spf(answer) = {i} /\ answer[i] = "spf as expected"
  BY DEF CheckSpf
<1>2. ASSUME NEW i \in DOMAIN answer
      PROVE  Spf(answer) = {i} /\ answer[i] = "spf as expected" <=>
               \A k \in DOMAIN answer :
                 answer[k] = (IF k = i THEN "spf as expected" ELSE Unrelated)
  BY DEF Spf, Unrelated
<1> QED
  BY <1>1, <1>2

LEMMA PresentIsRight ==
  ASSUME NEW Text, NEW answer \in Answer(Text), NEW wanted
  PROVE  CheckPresent(answer, wanted) = "ok" <=> \E i \in DOMAIN answer : answer[i] = wanted
<1>1. wanted \in Range(answer) <=> \E i \in DOMAIN answer : answer[i] = wanted
  BY DEF Range
<1>2. answer = << >> => DOMAIN answer = {}
  OBVIOUS
<1> QED
  BY <1>1, <1>2 DEF CheckPresent

\* The first of a single record is that record.
LEMMA SingleIsFirst ==
  ASSUME NEW i \in Nat
  PROVE  Min({i}) = i
BY DEF Min

\* What evaluate makes of DMARC records of which one counts.
LEMMA DmarcIsRight ==
  ASSUME NEW answer, NEW want \in Policy \cup {"absent"}, NEW i \in Nat, Dmarc(answer) = {i}
  PROVE  CheckDmarc(answer, want) = "ok" <=>
           /\ answer[i].p \in Policy
           /\ want # "absent" => Rank(answer[i].p) >= Rank(want)
<1>1. Min(Dmarc(answer)) = i /\ Dmarc(answer) # {}
  BY SingleIsFirst
<1>2. \A p \in Policy : Rank(p) \in Nat
  BY DEF Rank, Policy
<1> QED
  BY <1>1, <1>2 DEF CheckDmarc

\* The policy is read as receivers read it, wherever it was found.
LEMMA PolicyIsRight ==
  ASSUME VerdictsTypeOK, expected # Unregistered, PlainDmarc
  PROVE  CheckDmarc(ObservedDmarc(zone, expected.subdomain), expected.policy) = "ok" <=>
           /\ Readable
           /\ expected.policy # "absent" => Enforced >= Rank(expected.policy)
<1> DEFINE own    == zone.dmarc["domain"]
           org    == zone.dmarc["organization"]
           answer == ObservedDmarc(zone, expected.subdomain)
<1>1. expected.policy \in Policy \cup {"absent"} /\ expected.subdomain \in BOOLEAN
  BY DEF VerdictsTypeOK, Expectation
<1>2. DOMAIN own \subseteq Nat /\ DOMAIN org \subseteq Nat
  BY ZoneFields, AnswerFacts
<1>3. Dmarc(answer) = {} => DOMAIN Applied = {}
  BY DEF ObservedDmarc, Applied, Own, Inherited, Dmarc
<1>4. ASSUME NEW i \in Dmarc(answer)
      PROVE  /\ i \in Nat /\ Dmarc(answer) = {i} /\ DOMAIN Applied = {i}
             /\ Applied[i] = answer[i].p
  <2>1. CASE Own # {}
    <3>1. answer = own /\ Dmarc(answer) = Own
      BY <2>1 DEF ObservedDmarc, Own
    <3>2. DOMAIN Applied = Own /\ Applied[i] = own[i].p
      BY <1>4, <2>1, <3>1 DEF Applied
    <3> QED
      BY <1>2, <1>4, <3>1, <3>2 DEF PlainDmarc, Own, Dmarc
  <2>2. CASE Own = {}
    <3>1. answer = (IF expected.subdomain THEN org ELSE << >>) /\ Dmarc(answer) = Inherited
      BY <2>2 DEF ObservedDmarc, Own, Inherited, Dmarc
    <3>2. expected.subdomain = TRUE /\ answer = org
      BY <1>1, <1>4, <3>1 DEF Inherited
    <3>3. DOMAIN Applied = Inherited /\ Applied[i] = org[i].p
      BY <1>4, <2>2, <3>1 DEF Applied, PlainDmarc
    <3> QED
      BY <1>2, <1>4, <2>2, <3>1, <3>2, <3>3 DEF PlainDmarc, Dmarc
  <2> QED
    BY <2>1, <2>2
<1> HIDE DEF answer
<1>5. CASE Dmarc(answer) = {}
  BY <1>3, <1>5 DEF CheckDmarc, Readable, answer
<1>6. ASSUME NEW i \in Dmarc(answer)
      PROVE  CheckDmarc(answer, expected.policy) = "ok" <=>
               /\ Readable
               /\ expected.policy # "absent" => Enforced >= Rank(expected.policy)
  <2>1. Readable <=> answer[i].p \in Policy
    BY <1>4, <1>6 DEF Readable
  <2>2. Readable => Enforced = Rank(answer[i].p)
    BY <1>4, <1>6 DEF Enforced
  <2>3. CheckDmarc(answer, expected.policy) = "ok" <=>
          /\ answer[i].p \in Policy
          /\ expected.policy # "absent" => Rank(answer[i].p) >= Rank(expected.policy)
    BY <1>1, <1>4, <1>6, DmarcIsRight
  <2> QED
    BY <2>1, <2>2, <2>3
<1> QED
  BY <1>5, <1>6 DEF answer

LEMMA GreenIsRight == VerdictsTypeOK => BadgeIsRight
<1> SUFFICES ASSUME VerdictsTypeOK, expected # Unregistered, PlainDmarc
             PROVE  Valid(zone, expected) <=>
                      /\ \E i \in DOMAIN zone.apex :
                           \A k \in DOMAIN zone.apex :
                             zone.apex[k] = (IF k = i THEN "spf as expected" ELSE Unrelated)
                      /\ \E i \in DOMAIN zone.dkim : zone.dkim[i] = "our key"
                      /\ expected.mx => \E i \in DOMAIN zone.mx : zone.mx[i] = "our host"
                      /\ Readable
                      /\ expected.policy # "absent" => Enforced >= Rank(expected.policy)
  BY DEF BadgeIsRight
<1>1. CheckSpf(zone.apex) = "ok" <=>
        \E i \in DOMAIN zone.apex : \A k \in DOMAIN zone.apex :
          zone.apex[k] = (IF k = i THEN "spf as expected" ELSE Unrelated)
  BY ZoneFields, SpfIsRight
<1>2. CheckPresent(zone.dkim, "our key") = "ok" <=>
        \E i \in DOMAIN zone.dkim : zone.dkim[i] = "our key"
  BY ZoneFields, PresentIsRight
<1>3. CheckPresent(zone.mx, "our host") = "ok" <=>
        \E i \in DOMAIN zone.mx : zone.mx[i] = "our host"
  BY ZoneFields, PresentIsRight
<1> QED
  BY <1>1, <1>2, <1>3, PolicyIsRight DEF Valid

-----------------------------------------------------------------------------

LEMMA VerdictsStart == VerdictsInit => VerdictsTypeOK
<1> SUFFICES ASSUME VerdictsInit PROVE VerdictsTypeOK
  OBVIOUS
<1>1. \A Text : << >> \in Answer(Text)
  <2> TAKE Text
  <2>1. << >> \in [1 .. 0 -> Text] /\ 0 \in 0 .. MaxAnswer
    BY VerdictBounds
  <2> QED
    BY <2>1 DEF Answer
<1> QED
  BY <1>1 DEF VerdictsInit, VerdictsTypeOK, Zone

\* An edited answer is an answer.
LEMMA EditedIsAnswer ==
  ASSUME NEW Text, NEW answer \in Answer(Text), NEW edited \in Edited(answer, Text)
  PROVE  edited \in Answer(Text)
<1>1. PICK n \in Nat : /\ n <= MaxAnswer /\ DOMAIN answer = 1 .. n
                       /\ answer \in Seq(Text) /\ Len(answer) = n
  BY AnswerFacts
<1>2. CASE edited = << >>
  <2>1. << >> \in [1 .. 0 -> Text] /\ 0 \in 0 .. MaxAnswer
    BY VerdictBounds
  <2> QED
    BY <1>2, <2>1 DEF Answer
<1>3. ASSUME NEW t \in Text, Len(answer) < MaxAnswer, edited = Append(answer, t)
      PROVE  edited \in Answer(Text)
  <2>1. edited \in [1 .. n + 1 -> Text]
    <3>1. edited \in Seq(Text) /\ Len(edited) = n + 1
      BY <1>1, <1>3
    <3> QED
      BY <3>1, LenProperties
  <2>2. n + 1 \in 0 .. MaxAnswer
    BY <1>1, <1>3, VerdictBounds
  <2> QED
    BY <2>1, <2>2 DEF Answer
<1> QED
  BY <1>2, <1>3 DEF Edited

LEMMA VerdictsStep == VerdictsTypeOK /\ [VerdictsNext]_verdictVars => VerdictsTypeOK'
<1> SUFFICES ASSUME VerdictsTypeOK, [VerdictsNext]_verdictVars PROVE VerdictsTypeOK'
  OBVIOUS
<1>1. CASE Register
  BY <1>1 DEF Register, VerdictsTypeOK
<1>2. CASE Publish
  <2>1. expected' = expected
    BY <1>2 DEF Publish
  <2>2. ASSUME NEW a \in Edited(zone.apex, SpfText), zone' = [zone EXCEPT !.apex = a]
        PROVE  zone' \in Zone
    BY <2>2, ZoneFields, EditedIsAnswer DEF Zone, VerdictsTypeOK
  <2>3. ASSUME NEW a \in Edited(zone.dkim, DkimText), zone' = [zone EXCEPT !.dkim = a]
        PROVE  zone' \in Zone
    BY <2>3, ZoneFields, EditedIsAnswer DEF Zone, VerdictsTypeOK
  <2>4. ASSUME NEW a \in Edited(zone.mx, MxHost), zone' = [zone EXCEPT !.mx = a]
        PROVE  zone' \in Zone
    BY <2>4, ZoneFields, EditedIsAnswer DEF Zone, VerdictsTypeOK
  <2>5. ASSUME NEW n \in {"domain", "organization"},
               NEW a \in Edited(zone.dmarc[n], DmarcTexts), zone' = [zone EXCEPT !.dmarc[n] = a]
        PROVE  zone' \in Zone
    <3>1. a \in Answer(DmarcTexts)
      BY ZoneFields, EditedIsAnswer
    <3> QED
      BY <2>5, <3>1 DEF Zone, VerdictsTypeOK
  <2> QED
    BY <1>2, <2>1, <2>2, <2>3, <2>4, <2>5 DEF Publish, VerdictsTypeOK
<1>3. CASE UNCHANGED verdictVars
  BY <1>3 DEF verdictVars, VerdictsTypeOK
<1> QED
  BY <1>1, <1>2, <1>3 DEF VerdictsNext

\* The badge is green exactly when receivers accept what the domain sends,
\* for answers of any length in any order and any set of DMARC records.
THEOREM BadgeTellsTheTruth == VerdictsSpec => [](VerdictsTypeOK /\ BadgeIsRight)
<1> QED
  BY GreenIsRight, VerdictsStart, VerdictsStep, PTL DEF VerdictsSpec

-----------------------------------------------------------------------------
(* DmarcPoller.                                                            *)

USE DEF PollTypeOK, Mail, Folder, Pass

\* A copy of the mail is outside the inbox.
Filed(m) == folder[m] \ {"inbox"} # {}

\* What poller p has done so far with the mail at hand.
Handled(p) ==
  /\ pass[p].at # "idle" => pass[p].todo # {} /\ pass[p].todo \subseteq 1 .. arrived
  /\ pass[p].at = "fetch" => pass[p].next = 1
  /\ pass[p].at = "store" =>
       /\ pass[p].next <= Len(Carries[Current(p)])
       /\ \A n \in 1 .. pass[p].next - 1 :
            Carries[Current(p)][n] \in Report => Carries[Current(p)][n] \in stored
  /\ pass[p].at = "file" /\ pass[p].dest = "archive" => Reports(Current(p)) \subseteq stored
  /\ pass[p].at \in {"flag", "expunge"} /\ InInbox(Current(p)) => Filed(Current(p))

\* What has not arrived is nowhere.
Undelivered == \A m \in Mail : InInbox(m) => m <= arrived

PollInv ==
  /\ PollTypeOK
  /\ Undelivered
  /\ MailIsKept
  /\ ArchivedIsStored
  /\ deleted \subseteq 1 .. arrived /\ \A m \in deleted : Filed(m)
  /\ \A p \in Poller : Handled(p)

-----------------------------------------------------------------------------
(* The mail at hand.                                                       *)

\* A set of naturals that is not empty has a least element.
LEMMA LeastExists ==
  ASSUME NEW T, T \subseteq Nat, T # {}
  PROVE  \E x \in T : \A y \in T : x <= y
<1>1. IsWellFoundedOn(OpToRel(<, Nat), Nat)
  BY NatLessThanWellFounded
<1>2. PICK x \in T : \A y \in T : ~(<<y, x>> \in OpToRel(<, Nat))
  BY <1>1, WFMin
<1>3. \A y \in T : ~(y < x)
  BY <1>2 DEF OpToRel
<1> QED
  BY <1>3

LEMMA MinIsMember ==
  ASSUME NEW T, T \subseteq Nat, T # {}
  PROVE  Min(T) \in T
BY LeastExists DEF Min

LEMMA CurrentIsThere ==
  ASSUME PollInv, NEW p \in Poller, pass[p].at # "idle"
  PROVE  /\ Current(p) \in pass[p].todo /\ Current(p) \in 1 .. arrived
         /\ Current(p) \in Mail
<1>1. pass[p].todo \subseteq Mail /\ pass[p].todo # {} /\ pass[p].todo \subseteq 1 .. arrived
  BY DEF PollInv, Handled
<1>2. pass[p].todo \subseteq Nat
  BY <1>1, PollerAssumption
<1>3. Current(p) \in pass[p].todo
  BY <1>1, <1>2, MinIsMember DEF Current
<1> QED
  BY <1>1, <1>3

\* A pass over some mails starts with fetching the first.
LEMMA FreshPass ==
  ASSUME NEW T, T \subseteq Mail
  PROVE  /\ Fresh(T) \in Pass /\ Fresh(T).at = "fetch" /\ Fresh(T).todo = T
         /\ Fresh(T).next = 1
<1>1. T \in SUBSET Mail
  OBVIOUS
<1> QED
  BY <1>1 DEF Fresh

\* Done with a mail, the pass has handled nothing of the next one.
LEMMA NextMailIsFresh ==
  ASSUME PollInv, NEW p \in Poller, pass[p].at # "idle", NextMail(p), arrived' = arrived
  PROVE  /\ pass' \in [Poller -> Pass]
         /\ \A q \in Poller \ {p} : pass'[q] = pass[q]
         /\ Handled(p)'
<1> DEFINE rest == pass[p].todo \ {Current(p)}
<1>1. rest \subseteq Mail /\ rest \subseteq 1 .. arrived
  BY DEF PollInv, Handled
<1>2. CASE rest = {}
  BY <1>2 DEF PollInv, NextMail, Set, NoPass, Handled
<1>3. CASE rest # {}
  <2> DEFINE fresh == Fresh(rest)
  <2>1. pass' = [pass EXCEPT ![p] = fresh]
    BY <1>3 DEF NextMail, Set
  <2>2. fresh \in Pass /\ fresh.at = "fetch" /\ fresh.todo = rest /\ fresh.next = 1
    BY <1>1, FreshPass
  <2> HIDE DEF fresh, rest
  <2>3. pass'[p] = fresh /\ pass' \in [Poller -> Pass]
    BY <2>1, <2>2 DEF PollInv
  <2>4. \A q \in Poller \ {p} : pass'[q] = pass[q]
    BY <2>1 DEF PollInv
  <2> QED
    BY <1>1, <1>3, <2>2, <2>3, <2>4 DEF Handled
<1> QED
  BY <1>2, <1>3

\* What a step has to leave alone for the other passes to stand.
Harmless ==
  /\ stored \subseteq stored' /\ arrived' \in Nat /\ arrived <= arrived'
  /\ \A m \in 1 .. arrived : InInbox(m)' => InInbox(m)
  /\ \A m \in 1 .. arrived : Filed(m) => Filed(m)'

LEMMA OthersStayHandled ==
  ASSUME PollInv, Harmless, NEW q \in Poller, pass'[q] = pass[q]
  PROVE  Handled(q)'
<1>1. Current(q)' = Current(q)
  BY DEF Current
<1>2. Handled(q) /\ arrived \in Nat
  BY PollerAssumption DEF PollInv
<1>3. CASE pass[q].at = "idle"
  BY <1>3 DEF Handled
<1>4. CASE pass[q].at # "idle"
  <2>1. Current(q) \in 1 .. arrived
    BY <1>4, CurrentIsThere
  <2>2. pass'[q].todo # {} /\ pass'[q].todo \subseteq 1 .. arrived'
    BY <1>2, <1>4 DEF Handled, Harmless
  <2>3. Reports(Current(q))' = Reports(Current(q))
    BY <1>1 DEF Reports
  <2>4. InInbox(Current(q))' => InInbox(Current(q))
    BY <1>1, <2>1 DEF Harmless, InInbox
  <2>5. Filed(Current(q)) => Filed(Current(q))'
    BY <1>1, <2>1 DEF Harmless, Filed
  <2> QED
    BY <1>1, <1>2, <2>2, <2>3, <2>4, <2>5 DEF Handled, Harmless
<1> QED
  BY <1>3, <1>4

-----------------------------------------------------------------------------
(* Steps that leave the mailbox alone.                                     *)

\* A pass that moves on without touching the mailbox, and stores what it
\* stores, keeps the invariant if it has handled its mail.
LEMMA MailboxUntouched ==
  ASSUME PollInv, NEW p \in Poller, UNCHANGED <<arrived, folder, deleted>>,
         stored \subseteq stored', stored' \subseteq Report,
         pollFaults' \in 0 .. MaxPollFaults, pass' \in [Poller -> Pass],
         \A q \in Poller \ {p} : pass'[q] = pass[q],
         Handled(p)'
  PROVE  PollInv'
<1>1. PollTypeOK'
  BY DEF PollInv
<1>2. MailIsKept' /\ ArchivedIsStored' /\ Undelivered'
  BY DEF PollInv, Undelivered, InInbox, MailIsKept, ArchivedIsStored, Reports
<1>3. deleted' \subseteq 1 .. arrived' /\ \A m \in deleted' : Filed(m)'
  BY DEF PollInv, Filed
<1>4. Harmless
  BY PollerAssumption DEF PollInv, Harmless, InInbox, Filed
<1>5. \A q \in Poller : Handled(q)'
  BY <1>4, OthersStayHandled
<1> QED
  BY <1>1, <1>2, <1>3, <1>5 DEF PollInv

LEMMA SearchKeepsInv ==
  ASSUME PollInv, NEW p \in Poller, Search(p)
  PROVE  PollInv'
<1> DEFINE uids == Oldest({m \in Mail : InInbox(m)})
<1>1. uids \subseteq {m \in Mail : InInbox(m)} /\ uids # {}
  BY DEF Search, Oldest
<1> DEFINE fresh == Fresh(uids)
<1>2. pass' = [pass EXCEPT ![p] = fresh]
  BY DEF Search, Set
<1>7. fresh \in Pass /\ fresh.at = "fetch" /\ fresh.todo = uids /\ fresh.next = 1
  <2> HIDE DEF uids
  <2> QED
    BY <1>1, FreshPass
<1> HIDE DEF uids, fresh
<1>3. uids \subseteq 1 .. arrived
  BY <1>1 DEF PollInv, Undelivered
<1>4. pass' \in [Poller -> Pass] /\ \A q \in Poller \ {p} : pass'[q] = pass[q]
  BY <1>2, <1>7 DEF PollInv
<1>5. Handled(p)'
  BY <1>1, <1>2, <1>3, <1>7 DEF PollInv, Handled, Search
<1> QED
  BY <1>4, <1>5, MailboxUntouched DEF Search, PollInv

LEMMA FetchKeepsInv ==
  ASSUME PollInv, NEW p \in Poller, Fetch(p)
  PROVE  PollInv'
<1>1. Current(p) \in Mail /\ Current(p) \in 1 .. arrived
  BY CurrentIsThere DEF Fetch
<1>2. pass[p].at = "fetch" /\ Handled(p) /\ pass[p] \in Pass
  BY DEF PollInv, Fetch
<1>3. CASE ~InInbox(Current(p)) \/ Carries[Current(p)] = << >>
  <2>1. PICK dest \in {"archive", "failures"} :
          /\ dest = "archive" => Carries[Current(p)] = << >>
          /\ FileTo(p, dest)
    BY <1>3 DEF Fetch
  <2>a. pass' = [pass EXCEPT ![p] = [pass[p] EXCEPT !.at = "file", !.dest = dest]]
    BY <2>1 DEF FileTo, Set
  <2>b. pass \in [Poller -> Pass]
    BY DEF PollInv, PollTypeOK
  <2>c. [pass[p] EXCEPT !.at = "file", !.dest = dest] \in Pass
    BY <1>2 DEF Pass
  <2>2. pass' \in [Poller -> Pass] /\ \A q \in Poller \ {p} : pass'[q] = pass[q]
    BY <2>a, <2>b, <2>c
  <2>3. Current(p)' = Current(p)
    BY <2>a, <2>b DEF Current
  <2>4. dest = "archive" => Reports(Current(p))' = {}
    BY <2>1, <2>3 DEF Reports, Range
  <2>5. Handled(p)'
    BY <1>2, <2>1, <2>4 DEF PollInv, FileTo, Set, Handled, Fetch
  <2> QED
    BY <2>2, <2>5, MailboxUntouched DEF Fetch, PollInv
<1>4. CASE InInbox(Current(p)) /\ Carries[Current(p)] # << >>
  <2>1. pass' = [pass EXCEPT ![p] = [pass[p] EXCEPT !.at = "store"]]
    BY <1>4 DEF Fetch, Set
  <2>2. pass' \in [Poller -> Pass] /\ \A q \in Poller \ {p} : pass'[q] = pass[q]
    BY <2>1, SMTT(30) DEF PollInv
  <2>3. Current(p)' = Current(p)
    BY <2>1 DEF PollInv, Current
  <2>4. pass[p].next = 1
    BY <1>2 DEF Handled
  <2>5. Len(Carries[Current(p)]) >= 1
    BY <1>1, <1>4, PollerAssumption
  <2>6. Handled(p)'
    BY <1>2, <2>1, <2>3, <2>4, <2>5 DEF PollInv, Handled, Fetch
  <2> QED
    BY <2>2, <2>6, MailboxUntouched DEF Fetch, PollInv
<1> QED
  BY <1>3, <1>4

\* One document: what was stored of the mail so far and this one is all
\* there is up to here.
LEMMA StoreKeepsInv ==
  ASSUME PollInv, NEW p \in Poller, Store(p)
  PROVE  PollInv'
<1> DEFINE m == Current(p)
           n == pass[p].next
<1>1. m \in Mail /\ Handled(p) /\ pass[p] \in Pass /\ pass[p].at = "store"
  BY CurrentIsThere DEF PollInv, Store
<1>2. stored' = stored \cup ({Carries[m][n]} \cap Report)
  BY DEF Store
<1>3. Carries[m] \in Seq(Report \cup {Garbled, Other}) /\ n \in Nat \ {0} /\ n <= Len(Carries[m])
  BY <1>1, PollerAssumption DEF Handled
<1>4. \A i \in 1 .. n : Carries[m][i] \in Report => Carries[m][i] \in stored'
  <2>1. \A i \in 1 .. n - 1 : Carries[m][i] \in Report => Carries[m][i] \in stored
    BY <1>1 DEF Handled
  <2>2. \A i \in 1 .. n : i \in 1 .. n - 1 \/ i = n
    BY <1>3
  <2> QED
    BY <1>2, <2>1, <2>2
<1>5. stored' \subseteq Report /\ stored \subseteq stored'
  BY <1>2 DEF PollInv
<1>6. CASE n < Len(Carries[m])
  <2>1. pass' = [pass EXCEPT ![p] = [pass[p] EXCEPT !.next = n + 1]]
    BY <1>6 DEF Store, Set
  <2>2. /\ [pass[p] EXCEPT !.next = n + 1] \in Pass
        /\ [pass[p] EXCEPT !.next = n + 1].at = "store"
        /\ [pass[p] EXCEPT !.next = n + 1].next = n + 1
        /\ [pass[p] EXCEPT !.next = n + 1].todo = pass[p].todo
    BY <1>1, <1>3
  <2>3. /\ pass' \in [Poller -> Pass] /\ \A q \in Poller \ {p} : pass'[q] = pass[q]
        /\ pass'[p].at = "store" /\ pass'[p].next = n + 1 /\ pass'[p].todo = pass[p].todo
    <3>1. pass'[p] = [pass[p] EXCEPT !.next = n + 1]
      BY <2>1 DEF PollInv
    <3> QED
      BY <2>1, <2>2, <3>1 DEF PollInv
  <2>4. Current(p)' = m
    BY <2>3 DEF Current
  <2>5. n + 1 <= Len(Carries[m]) /\ (n + 1) - 1 = n
    BY <1>3, <1>6
  <2>6. Handled(p)'
    BY <1>1, <1>4, <2>3, <2>4, <2>5 DEF Handled, Store
  <2> QED
    BY <1>5, <2>3, <2>6, MailboxUntouched DEF Store, PollInv
<1>7. CASE ~(n < Len(Carries[m]))
  <2>1. pass' = [pass EXCEPT ![p] = [pass[p] EXCEPT !.at = "file", !.dest = Verdict(m)]]
    BY <1>7 DEF Store, FileTo, Set
  <2>2. /\ pass' \in [Poller -> Pass] /\ \A q \in Poller \ {p} : pass'[q] = pass[q]
        /\ pass'[p].at = "file" /\ pass'[p].todo = pass[p].todo
    BY <2>1, ZenonT(30) DEF PollInv, Verdict
  <2>3. Current(p)' = m
    BY <2>2 DEF Current
  <2>4. n = Len(Carries[m])
    BY <1>3, <1>7
  <2>5. Reports(m) \subseteq stored'
    <3>1. DOMAIN Carries[m] = 1 .. n
      BY <1>3, <2>4
    <3> QED
      BY <1>4, <3>1 DEF Reports, Range
  <2>6. Reports(Current(p))' = Reports(m)
    BY <2>3 DEF Reports
  <2>7. Handled(p)'
    BY <1>1, <2>2, <2>5, <2>6 DEF Handled, Store
  <2> QED
    BY <1>5, <2>2, <2>7, MailboxUntouched DEF Store, PollInv
<1> QED
  BY <1>6, <1>7

LEMMA HandlingFailsKeepsInv ==
  ASSUME PollInv, NEW p \in Poller, HandlingFails(p)
  PROVE  PollInv'
<1>1. pass[p].at \in {"fetch", "store"} /\ Handled(p)
  BY DEF HandlingFails, PollInv
<1>2. stored \subseteq stored' /\ stored' \subseteq Report
  BY DEF HandlingFails, PollInv
<1>3. pass' = [pass EXCEPT ![p] = [pass[p] EXCEPT !.at = "file", !.dest = "failures"]]
  BY DEF HandlingFails, FileTo, Set
<1>4. /\ pass' \in [Poller -> Pass] /\ \A q \in Poller \ {p} : pass'[q] = pass[q]
      /\ pass'[p].at = "file" /\ pass'[p].todo = pass[p].todo /\ pass'[p].dest = "failures"
  BY <1>3 DEF PollInv
<1>5. Handled(p)'
  BY <1>1, <1>4 DEF Handled, HandlingFails
<1>6. pollFaults' \in 0 .. MaxPollFaults
  BY PollerAssumption DEF HandlingFails, PollFault, PollInv
<1> QED
  BY <1>2, <1>4, <1>5, <1>6, MailboxUntouched DEF HandlingFails

\* A pass that gives up a mail, or everything, leaves the mailbox alone.
LEMMA GivingUpKeepsInv ==
  ASSUME PollInv, NEW p \in Poller, FilingFails(p) \/ Break(p)
  PROVE  PollInv'
<1>1. pollFaults' \in 0 .. MaxPollFaults
  BY PollerAssumption DEF FilingFails, Break, PollFault, PollInv
<1>2. CASE FilingFails(p)
  BY <1>1, <1>2, NextMailIsFresh, MailboxUntouched DEF FilingFails, PollInv
<1>3. CASE Break(p)
  <2>1. pass' \in [Poller -> Pass] /\ \A q \in Poller \ {p} : pass'[q] = pass[q]
    BY <1>3 DEF Break, Set, NoPass, PollInv
  <2>2. Handled(p)'
    BY <1>3 DEF Break, Set, NoPass, Handled, PollInv
  <2> QED
    BY <1>1, <1>3, <2>1, <2>2, MailboxUntouched DEF Break, PollInv
<1> QED
  BY <1>2, <1>3

-----------------------------------------------------------------------------
(* Steps in the mailbox.                                                   *)

\* What a step in the mailbox has to show, beside leaving the other passes
\* their ground.
LEMMA MailboxStep ==
  ASSUME PollInv, NEW p \in Poller, Harmless, PollTypeOK', Undelivered',
         MailIsKept', ArchivedIsStored',
         deleted' \subseteq 1 .. arrived', \A m \in deleted' : Filed(m)',
         \A q \in Poller \ {p} : pass'[q] = pass[q],
         Handled(p)'
  PROVE  PollInv'
<1>1. \A q \in Poller : Handled(q)'
  BY OthersStayHandled
<1> QED
  BY <1>1 DEF PollInv

LEMMA MoveKeepsInv ==
  ASSUME PollInv, NEW p \in Poller, Move(p)
  PROVE  PollInv'
<1> DEFINE m == Current(p)
<1>1. m \in Mail /\ m \in 1 .. arrived /\ pass[p].at = "file"
  BY CurrentIsThere DEF Move
<1>2. pass[p] \in Pass /\ Handled(p) /\ folder \in [Mail -> SUBSET Folder] /\ deleted \subseteq Mail
  BY DEF PollInv
<1>3. /\ folder' \in [Mail -> SUBSET Folder]
      /\ \A k \in Mail \ {m} : folder'[k] = folder[k]
      /\ folder'[m] = IF InInbox(m) THEN (folder[m] \ {"inbox"}) \cup {pass[p].dest} ELSE folder[m]
  BY <1>1, <1>2 DEF Move
<1>4. UNCHANGED <<arrived, stored, pollFaults>> /\ deleted' = deleted \ {m} /\ NextMail(p)
  BY DEF Move
<1>5. /\ pass' \in [Poller -> Pass] /\ \A q \in Poller \ {p} : pass'[q] = pass[q]
      /\ Handled(p)'
  BY <1>1, <1>4, NextMailIsFresh
<1> HIDE DEF m
<1>6. PollTypeOK'
  BY <1>3, <1>4, <1>5 DEF PollInv
<1>7. Harmless
  <2>1. arrived' \in Nat /\ arrived <= arrived' /\ 1 .. arrived \subseteq Mail
    BY <1>4, PollerAssumption DEF PollInv
  <2>2. \A k \in Mail : InInbox(k)' => InInbox(k)
    BY <1>2, <1>3 DEF InInbox
  <2>3. \A k \in Mail : Filed(k) => Filed(k)'
    BY <1>2, <1>3 DEF Filed
  <2> QED
    BY <1>4, <2>1, <2>2, <2>3 DEF Harmless
<1>8. Undelivered'
  BY <1>2, <1>3, <1>4 DEF PollInv, Undelivered, InInbox
<1>9. MailIsKept'
  <2>1. 1 .. arrived \subseteq Mail
    BY PollerAssumption DEF PollInv
  <2>2. folder'[m] # {}
    BY <1>1, <1>3 DEF PollInv, MailIsKept
  <2> QED
    BY <1>3, <1>4, <2>1, <2>2 DEF PollInv, MailIsKept
<1>10. ArchivedIsStored'
  <2>1. pass[p].dest = "archive" => Reports(m) \subseteq stored
    BY <1>1, <1>2 DEF Handled, m
  <2> QED
    BY <1>2, <1>3, <1>4, <2>1 DEF PollInv, ArchivedIsStored, Reports
<1>11. deleted' \subseteq 1 .. arrived' /\ \A k \in deleted' : Filed(k)'
  BY <1>2, <1>3, <1>4 DEF PollInv, Filed
<1> QED
  BY <1>5, <1>6, <1>7, <1>8, <1>9, <1>10, <1>11, MailboxStep

LEMMA CopyKeepsInv ==
  ASSUME PollInv, NEW p \in Poller, Copy(p)
  PROVE  PollInv'
<1> DEFINE m == Current(p)
<1>1. m \in Mail /\ m \in 1 .. arrived /\ pass[p].at = "file"
  BY CurrentIsThere DEF Copy
<1>2. pass[p] \in Pass /\ Handled(p) /\ folder \in [Mail -> SUBSET Folder] /\ deleted \subseteq Mail
  BY DEF PollInv
<1>3. /\ folder' \in [Mail -> SUBSET Folder]
      /\ \A k \in Mail \ {m} : folder'[k] = folder[k]
      /\ folder'[m] = IF InInbox(m) THEN folder[m] \cup {pass[p].dest} ELSE folder[m]
  BY <1>1, <1>2 DEF Copy
<1>4. /\ UNCHANGED <<arrived, deleted, stored, pollFaults>>
      /\ pass' = [pass EXCEPT ![p] = [pass[p] EXCEPT !.at = "flag"]]
  BY DEF Copy, Set
<1>5. /\ pass' \in [Poller -> Pass] /\ \A q \in Poller \ {p} : pass'[q] = pass[q]
      /\ pass'[p].at = "flag" /\ pass'[p].todo = pass[p].todo
  BY <1>4 DEF PollInv
<1>6. Current(p)' = m
  BY <1>5 DEF Current
<1> HIDE DEF m
<1>7. PollTypeOK'
  BY <1>3, <1>4, <1>5 DEF PollInv
<1>8. 1 .. arrived \subseteq Mail
  BY PollerAssumption DEF PollInv
<1>9. \A k \in Mail : (InInbox(k)' => InInbox(k)) /\ (Filed(k) => Filed(k)')
  BY <1>2, <1>3 DEF InInbox, Filed
<1>10. Harmless
  BY <1>4, <1>8, <1>9, PollerAssumption DEF Harmless, PollInv
<1>11. Handled(p)'
  <2>1. "inbox" \in folder'[m] => folder'[m] \ {"inbox"} # {}
    BY <1>1, <1>2, <1>3 DEF InInbox
  <2>2. (InInbox(Current(p)) => Filed(Current(p)))'
    BY <1>6, <2>1 DEF InInbox, Filed
  <2> QED
    BY <1>1, <1>2, <1>4, <1>5, <2>2 DEF Handled
<1>12. Undelivered'
  BY <1>4, <1>9 DEF PollInv, Undelivered
<1>13. MailIsKept'
  BY <1>1, <1>3, <1>4, <1>8 DEF PollInv, MailIsKept
<1>14. ArchivedIsStored'
  <2>1. pass[p].dest = "archive" => Reports(m) \subseteq stored
    BY <1>1, <1>2 DEF Handled, m
  <2> QED
    BY <1>2, <1>3, <1>4, <2>1 DEF PollInv, ArchivedIsStored, Reports
<1>15. deleted' \subseteq 1 .. arrived' /\ \A k \in deleted' : Filed(k)'
  BY <1>2, <1>4, <1>9 DEF PollInv
<1> QED
  BY <1>5, <1>7, <1>10, <1>11, <1>12, <1>13, <1>14, <1>15, MailboxStep

LEMMA FlagKeepsInv ==
  ASSUME PollInv, NEW p \in Poller, Flag(p) \/ FlagRefused(p)
  PROVE  PollInv'
<1> DEFINE m == Current(p)
<1>1. m \in Mail /\ m \in 1 .. arrived /\ pass[p].at = "flag"
  BY CurrentIsThere DEF Flag, FlagRefused
<1>2. pass[p] \in Pass /\ Handled(p) /\ deleted \subseteq Mail
  BY DEF PollInv
<1>3. /\ UNCHANGED <<arrived, folder, stored>> /\ pollFaults' \in 0 .. MaxPollFaults
      /\ deleted' \subseteq Mail
      /\ \A k \in deleted' : k \in deleted \/ (k = m /\ InInbox(m))
  BY <1>1, <1>2, PollerAssumption DEF Flag, FlagRefused, PollFault, PollInv
<1>4. pass' = [pass EXCEPT ![p] = [pass[p] EXCEPT !.at = "expunge"]]
  BY DEF Flag, FlagRefused, Set
<1>5. /\ pass' \in [Poller -> Pass] /\ \A q \in Poller \ {p} : pass'[q] = pass[q]
      /\ pass'[p].at = "expunge" /\ pass'[p].todo = pass[p].todo
  BY <1>4 DEF PollInv
<1>6. Current(p)' = m
  BY <1>5 DEF Current
<1>7. InInbox(m) => Filed(m)
  BY <1>1, <1>2 DEF Handled
<1> HIDE DEF m
<1>8. PollTypeOK'
  BY <1>3, <1>5 DEF PollInv
<1>9. Harmless
  BY <1>3, PollerAssumption DEF Harmless, PollInv, InInbox, Filed
<1>10. Handled(p)'
  <2>1. (InInbox(Current(p)) => Filed(Current(p)))'
    BY <1>3, <1>6, <1>7 DEF InInbox, Filed
  <2> QED
    BY <1>1, <1>2, <1>3, <1>5, <2>1 DEF Handled
<1>11. Undelivered' /\ MailIsKept' /\ ArchivedIsStored'
  BY <1>3 DEF PollInv, Undelivered, InInbox, MailIsKept, ArchivedIsStored, Reports
<1>12. deleted' \subseteq 1 .. arrived' /\ \A k \in deleted' : Filed(k)'
  BY <1>1, <1>3, <1>7 DEF PollInv, Filed
<1> QED
  BY <1>5, <1>8, <1>9, <1>10, <1>11, <1>12, MailboxStep

\* Expunging takes a mail from the inbox that somebody flagged, and whoever
\* did had filed it.
LEMMA ExpungeKeepsInv ==
  ASSUME PollInv, NEW p \in Poller, Expunge(p)
  PROVE  PollInv'
<1>1. pass[p].at = "expunge"
  BY DEF Expunge
<1>2. /\ folder \in [Mail -> SUBSET Folder] /\ deleted \subseteq Mail
      /\ \A k \in deleted : Filed(k)
  BY DEF PollInv
<1>3. /\ folder' = [k \in Mail |-> IF k \in deleted THEN folder[k] \ {"inbox"} ELSE folder[k]]
      /\ UNCHANGED <<arrived, stored, pollFaults>> /\ deleted' = {} /\ NextMail(p)
  BY DEF Expunge
<1>4. /\ pass' \in [Poller -> Pass] /\ \A q \in Poller \ {p} : pass'[q] = pass[q]
      /\ Handled(p)'
  BY <1>1, <1>3, NextMailIsFresh
<1>5. PollTypeOK'
  BY <1>2, <1>3, <1>4 DEF PollInv
<1>6. 1 .. arrived \subseteq Mail
  BY PollerAssumption DEF PollInv
<1>7. \A k \in Mail : (InInbox(k)' => InInbox(k)) /\ (Filed(k) => Filed(k)')
  BY <1>2, <1>3 DEF InInbox, Filed
<1>8. Harmless
  BY <1>3, <1>6, <1>7, PollerAssumption DEF Harmless, PollInv
<1>9. Undelivered'
  BY <1>3, <1>7 DEF PollInv, Undelivered
<1>10. MailIsKept'
  BY <1>2, <1>3, <1>6 DEF PollInv, MailIsKept, Filed
<1>11. ArchivedIsStored'
  BY <1>2, <1>3 DEF PollInv, ArchivedIsStored, Reports
<1>12. deleted' \subseteq 1 .. arrived' /\ \A k \in deleted' : Filed(k)'
  BY <1>3
<1> QED
  BY <1>4, <1>5, <1>8, <1>9, <1>10, <1>11, <1>12, MailboxStep

LEMMA ArriveKeepsInv == PollInv /\ Arrive => PollInv'
<1> SUFFICES ASSUME PollInv, Arrive PROVE PollInv'
  OBVIOUS
<1>1. /\ arrived \in Nat /\ arrived' = arrived + 1 /\ arrived + 1 \in Mail
      /\ 1 .. arrived' = 1 .. arrived \cup {arrived + 1}
  BY PollerAssumption DEF Arrive, PollInv
<1>2. /\ folder' \in [Mail -> SUBSET Folder] /\ folder'[arrived + 1] = {"inbox"}
      /\ \A k \in Mail \ {arrived + 1} : folder'[k] = folder[k]
      /\ UNCHANGED <<deleted, stored, pass, pollFaults>>
  BY <1>1 DEF Arrive, PollInv
<1>3. PollTypeOK'
  BY <1>1, <1>2, PollerAssumption DEF Arrive, PollInv
<1>4. \A k \in 1 .. arrived : k \in Mail \ {arrived + 1}
  BY <1>1, PollerAssumption DEF PollInv
<1>5. Harmless
  BY <1>1, <1>2, <1>4 DEF Harmless, InInbox, Filed
<1>6. Undelivered'
  BY <1>1, <1>2 DEF PollInv, Undelivered, InInbox
<1>7. MailIsKept'
  BY <1>1, <1>2, <1>4 DEF PollInv, MailIsKept
<1>8. ArchivedIsStored'
  BY <1>1, <1>2 DEF PollInv, ArchivedIsStored, Reports
<1>9. deleted' \subseteq 1 .. arrived' /\ \A k \in deleted' : Filed(k)'
  BY <1>1, <1>2, <1>4 DEF PollInv, Filed
<1>10. \A q \in Poller : Handled(q)'
  BY <1>2, <1>5, OthersStayHandled
<1> QED
  BY <1>3, <1>6, <1>7, <1>8, <1>9, <1>10 DEF PollInv

-----------------------------------------------------------------------------
(* The theorems.                                                           *)

LEMMA PollInvInit == PollInit => PollInv
<1> SUFFICES ASSUME PollInit PROVE PollInv
  OBVIOUS
<1>1. PollTypeOK
  BY PollerAssumption DEF PollInit, NoPass
<1> QED
  BY <1>1 DEF PollInit, PollInv, Undelivered, InInbox, MailIsKept, ArchivedIsStored,
              NoPass, Handled

LEMMA PollInvStep == PollInv /\ [PollNext]_pollVars => PollInv'
<1> SUFFICES ASSUME PollInv, [PollNext]_pollVars PROVE PollInv'
  OBVIOUS
<1>1. CASE Arrive
  BY <1>1, ArriveKeepsInv
<1>2. ASSUME NEW p \in Poller, Poll(p) PROVE PollInv'
  BY <1>2, SearchKeepsInv, FetchKeepsInv, StoreKeepsInv, MoveKeepsInv, CopyKeepsInv,
     FlagKeepsInv, ExpungeKeepsInv DEF Poll
<1>3. ASSUME NEW p \in Poller,
             HandlingFails(p) \/ FlagRefused(p) \/ FilingFails(p) \/ Break(p)
      PROVE  PollInv'
  BY <1>3, HandlingFailsKeepsInv, FlagKeepsInv, GivingUpKeepsInv
<1>4. CASE UNCHANGED pollVars
  <2>1. Harmless
    BY <1>4, PollerAssumption DEF pollVars, Harmless, PollInv, InInbox, Filed
  <2>2. \A q \in Poller : Handled(q)'
    BY <1>4, <2>1, OthersStayHandled DEF pollVars
  <2> QED
    BY <1>4, <2>2 DEF pollVars, PollInv, Undelivered, InInbox, MailIsKept,
                      ArchivedIsStored, Reports, Filed
<1> QED
  BY <1>1, <1>2, <1>3, <1>4 DEF PollNext

THEOREM PollInvariant == PollSpec => []PollInv
<1> QED
  BY PollInvInit, PollInvStep, PTL DEF PollSpec

\* Between the copy, the flag and the expunge of one poller, the moves of
\* another and every fault, no mail disappears (archive in dmarc.rs).
THEOREM NoMailIsLost == PollSpec => []MailIsKept
<1>1. PollInv => MailIsKept
  BY DEF PollInv
<1> QED
  BY <1>1, PollInvariant, PTL

\* Whichever poller files a mail as handled, every report in it that can be
\* read has been stored (handle_one and archive in dmarc.rs).
THEOREM HandledIsStored == PollSpec => []ArchivedIsStored
<1>1. PollInv => ArchivedIsStored
  BY DEF PollInv
<1> QED
  BY <1>1, PollInvariant, PTL

HIDE DEF PollTypeOK, Mail, Folder, Pass

-----------------------------------------------------------------------------
(* The worker.                                                             *)

\* Behind whatever the worker is occupied with, each duty goes on as its own
\* module says: it begins as it does there, and no other duty touches it
\* (worker::run starts them as tasks that share nothing).
THEOREM DutiesAreIndependent ==
  DutiesSpec => PollSpec /\ CheckSpec /\ WakeSpec /\ VerdictsSpec
<1>1. DutiesInit => PollInit /\ CheckInit /\ WakeInit /\ VerdictsInit
  BY DEF DutiesInit
<1>2. ASSUME [DutiesNext]_dutyVars
      PROVE  /\ [PollNext]_pollVars /\ [CheckNext]_checkVars
             /\ [WakeNext]_wakeVars /\ [VerdictsNext]_verdictVars
  <2>1. CASE Polling(PollNext)
    BY <2>1 DEF Polling
  <2>2. CASE Checking(CheckNext)
    BY <2>2 DEF Checking
  <2>3. CASE Waking(WakeNext)
    BY <2>3 DEF Waking
  <2>4. CASE Judging(VerdictsNext)
    BY <2>4 DEF Judging
  <2>5. CASE UNCHANGED dutyVars
    BY <2>5 DEF dutyVars
  <2> QED
    BY <1>2, <2>1, <2>2, <2>3, <2>4, <2>5 DEF DutiesNext
<1> QED
  BY <1>1, <1>2, PTL DEF DutiesSpec, PollSpec, CheckSpec, WakeSpec, VerdictsSpec

\* Every variable of the worker keeps its type.
THEOREM WorkerTypes == DutiesSpec => []DutiesTypeOK
<1>1. DutiesInit => duty \in Duty
  BY DEF DutiesInit
<1>2. duty \in Duty /\ [DutiesNext]_dutyVars => (duty \in Duty)'
  BY DEF DutiesNext, Polling, Checking, Waking, Judging, dutyVars
<1>3. DutiesSpec => [](duty \in Duty)
  BY <1>1, <1>2, PTL DEF DutiesSpec
<1>4. /\ PollInv => PollTypeOK
      /\ ChecksInv => CheckTypeOK
      /\ WakeInv => WakeTypeOK
  BY DEF PollInv, ChecksInv, WakeInv
<1>5. duty \in Duty /\ PollTypeOK /\ CheckTypeOK /\ WakeTypeOK /\ VerdictsTypeOK
        => DutiesTypeOK
  BY DEF DutiesTypeOK
<1> QED
  BY <1>3, <1>4, <1>5, DutiesAreIndependent, PollInvariant, ChecksInvariant,
     WakeInvariant, BadgeTellsTheTruth, PTL

\* What is shown of each duty holds of a worker that has them all.
THEOREM DutiesAreDone ==
  DutiesSpec => [](/\ MailIsKept /\ ArchivedIsStored
                  /\ VerdictsAreAnswers /\ BadgeIsRight
                  /\ NoSleepThroughNews)
<1> QED
  BY DutiesAreIndependent, NoMailIsLost, HandledIsStored, HistoryHoldsAnswers,
     BadgeTellsTheTruth, NoWakeUpIsLost, PTL
=============================================================================
