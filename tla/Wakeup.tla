------------------------------- MODULE Wakeup -------------------------------
(***************************************************************************)
(* How a worker learns that there is work (crates/postbud-relay/src/       *)
(* worker.rs, run, spawn_wake_listener and wait_for_work).  accept sends a *)
(* notification with its commit; a task of its own turns what arrives on   *)
(* the subscription into the one permit of a Notify; the delivery loop     *)
(* claims until a claim comes back empty, and then waits for the permit or *)
(* for its idle time to elapse.                                            *)
(*                                                                         *)
(* This is one worker's view; the other workers are the claims that take   *)
(* work away.  What happens to a claimed message is module Queue.          *)
(***************************************************************************)
EXTENDS Naturals, FiniteSets

CONSTANTS
  Job,          \* messages
  JobBatch,     \* WORKER_BATCH
  MaxWakeFaults \* bound: subscriptions lost, claims rolled back

ASSUME WakeupAssumption == JobBatch \in Nat \ {0} /\ MaxWakeFaults \in Nat

VARIABLES
  ahead,       \* jobs that are not due yet
  due,         \* jobs that a claim may return
  locked,      \* due jobs that another worker's open claim has locked
  announced,   \* jobs whose notification reached this worker's subscription
  subscribed,  \* the listener holds a live subscription
  inbox,       \* notifications that recv has not returned yet
  permit,      \* the permit of the Notify
  loop,        \* where the delivery loop is
  seen,        \* what was due when the claim in progress looked
  wakeFaults   \* faults so far, at most MaxWakeFaults

wakeVars == <<ahead, due, locked, announced, subscribed, inbox, permit, loop,
              seen, wakeFaults>>

-----------------------------------------------------------------------------
(* Work appears, and other workers take it.                                *)

\* message::accept commits, and its notification goes out with the commit.
AcceptJob(j) ==
  /\ j \in ahead
  /\ ahead' = ahead \ {j}
  /\ due' = due \cup {j}
  /\ inbox' = IF subscribed THEN inbox + 1 ELSE inbox
  /\ announced' = IF subscribed THEN announced \cup {j} ELSE announced
  /\ UNCHANGED <<locked, subscribed, permit, loop, seen, wakeFaults>>

\* A retry's time comes, or a claim times out: nothing notifies of either.
FallDue(j) ==
  /\ j \in ahead
  /\ ahead' = ahead \ {j}
  /\ due' = due \cup {j}
  /\ UNCHANGED <<locked, announced, subscribed, inbox, permit, loop, seen, wakeFaults>>

\* Another worker's claim locks some rows, and commits or is rolled back.
LockElsewhere ==
  /\ locked = {}
  /\ \E S \in SUBSET due : S # {} /\ locked' = S
  /\ UNCHANGED <<ahead, due, announced, subscribed, inbox, permit, loop, seen, wakeFaults>>

ClaimElsewhere ==
  /\ locked # {}
  /\ due' = due \ locked
  /\ locked' = {}
  /\ UNCHANGED <<ahead, announced, subscribed, inbox, permit, loop, seen, wakeFaults>>

ReleaseElsewhere ==
  /\ locked # {}
  /\ wakeFaults < MaxWakeFaults
  /\ wakeFaults' = wakeFaults + 1
  /\ locked' = {}
  /\ UNCHANGED <<ahead, due, announced, subscribed, inbox, permit, loop, seen>>

-----------------------------------------------------------------------------
(* The listener's task.                                                    *)

Subscribe ==
  /\ ~subscribed
  /\ subscribed' = TRUE
  /\ UNCHANGED <<ahead, due, locked, announced, inbox, permit, loop, seen, wakeFaults>>

\* The connection is lost, with the notifications nobody had received.
DropSubscription ==
  /\ subscribed /\ wakeFaults < MaxWakeFaults
  /\ wakeFaults' = wakeFaults + 1
  /\ subscribed' = FALSE
  /\ inbox' = 0
  /\ announced' = {}
  /\ UNCHANGED <<ahead, due, locked, permit, loop, seen>>

\* Mutant: the wake-up reaches a loop that is waiting, or nobody.
Receive_OnlyWaiting ==
  /\ inbox > 0
  /\ inbox' = inbox - 1
  /\ permit' = (permit \/ loop = "waiting")
  /\ UNCHANGED <<ahead, due, locked, announced, subscribed, loop, seen, wakeFaults>>

\* recv returns, and notify_one stores the one permit there is.
Receive ==
  /\ inbox > 0
  /\ inbox' = inbox - 1
  /\ permit' = TRUE
  /\ UNCHANGED <<ahead, due, locked, announced, subscribed, loop, seen, wakeFaults>>

-----------------------------------------------------------------------------
(* The delivery loop.                                                      *)

\* claim starts: it sees what was committed by now.
Look ==
  /\ loop = "claiming"
  /\ loop' = "looking"
  /\ seen' = due
  /\ UNCHANGED <<ahead, due, locked, announced, subscribed, inbox, permit, wakeFaults>>

\* What it saw, still is due and is not locked by another claim.
Free == (seen \cap due) \ locked

\* claim returns a batch.
TakeBatch ==
  /\ loop = "looking"
  /\ \E S \in SUBSET Free :
       /\ S # {} /\ Cardinality(S) <= JobBatch
       /\ due' = due \ S
  /\ loop' = "delivering"
  /\ seen' = {}
  /\ UNCHANGED <<ahead, locked, announced, subscribed, inbox, permit, wakeFaults>>

\* claim returns nothing.  What it saw and another claim has locked is that
\* worker's to deliver, or is left to the poll.
FindNothing ==
  /\ loop = "looking"
  /\ Free = {}
  /\ loop' = "waiting"
  /\ announced' = announced \ (seen \cap locked)
  /\ seen' = {}
  /\ UNCHANGED <<ahead, due, locked, subscribed, inbox, permit, wakeFaults>>

\* The batch is drained.
FinishBatch ==
  /\ loop = "delivering"
  /\ loop' = "claiming"
  /\ UNCHANGED <<ahead, due, locked, announced, subscribed, inbox, permit, seen, wakeFaults>>

\* notified() returns and consumes the permit.
WakeUp ==
  /\ loop = "waiting" /\ permit
  /\ permit' = FALSE
  /\ loop' = "claiming"
  /\ UNCHANGED <<ahead, due, locked, announced, subscribed, inbox, seen, wakeFaults>>

\* Mutant: the loop waits for a notification alone.
IdleOut_Never == FALSE /\ UNCHANGED wakeVars

\* The idle time elapses.
IdleOut ==
  /\ loop = "waiting"
  /\ loop' = "claiming"
  /\ UNCHANGED <<ahead, due, locked, announced, subscribed, inbox, permit, seen, wakeFaults>>

-----------------------------------------------------------------------------
(* The specification.                                                      *)

WakeInit ==
  /\ ahead = Job
  /\ due = {} /\ locked = {} /\ announced = {}
  /\ subscribed = FALSE /\ inbox = 0 /\ permit = FALSE
  /\ loop = "claiming" /\ seen = {}
  /\ wakeFaults = 0

Deliveries == Look \/ TakeBatch \/ FindNothing \/ FinishBatch \/ WakeUp \/ IdleOut

WakeNext ==
  \/ \E j \in Job : AcceptJob(j) \/ FallDue(j)
  \/ LockElsewhere \/ ClaimElsewhere \/ ReleaseElsewhere
  \/ Subscribe \/ DropSubscription \/ Receive
  \/ Deliveries

WakeSpec == WakeInit /\ [][WakeNext]_wakeVars

-----------------------------------------------------------------------------
(* Properties.                                                             *)

WakeTypeOK ==
  /\ ahead \subseteq Job /\ due \subseteq Job /\ locked \subseteq Job
  /\ announced \subseteq Job /\ seen \subseteq Job
  /\ subscribed \in BOOLEAN /\ permit \in BOOLEAN
  /\ inbox \in Nat /\ wakeFaults \in 0 .. MaxWakeFaults
  /\ loop \in {"claiming", "looking", "delivering", "waiting"}

\* A wake-up is never lost between looking and waiting: if the loop waits
\* while a job that was announced to it is there for the taking, then the
\* permit is stored already or its notification is still on the way.
NoSleepThroughNews ==
  loop = "waiting" /\ announced \cap due # {} => permit \/ inbox > 0

\* Work that nothing announces - a retry, an expired claim, a notification
\* sent while nobody listened - is found all the same.
DueIsFound == \A j \in Job : j \in due ~> j \notin due

=============================================================================
