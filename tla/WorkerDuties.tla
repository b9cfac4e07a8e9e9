---------------------------- MODULE WorkerDuties ----------------------------
(***************************************************************************)
(* What a worker process does beside delivering (worker::run,              *)
(* crates/postbud-relay/src/worker.rs): it polls the DMARC mailbox, checks *)
(* the sending domains, and listens for news of the queue.  The three are  *)
(* tasks of their own and share no state, in memory or in the database, so *)
(* a behaviour of the process is looked at one duty at a time: `duty` says *)
(* which, and the others stand still.  A fourth, "judge", is the second    *)
(* half of checking: DomainChecks is about when a domain is asked after    *)
(* and which answer stands, Verdicts about what an answer means.           *)
(***************************************************************************)
EXTENDS DmarcPoller, DomainChecks, Wakeup, Verdicts

VARIABLE duty

dutyVars == <<duty, pollVars, checkVars, wakeVars, verdictVars>>

Duty == {"poll", "check", "wake", "judge"}

DutiesInit ==
  /\ duty \in Duty
  /\ PollInit /\ CheckInit /\ WakeInit /\ VerdictsInit

\* One duty's step, with the others at rest.
Polling(step) ==
  duty = "poll" /\ step /\ UNCHANGED <<duty, checkVars, wakeVars, verdictVars>>

Checking(step) ==
  duty = "check" /\ step /\ UNCHANGED <<duty, pollVars, wakeVars, verdictVars>>

Waking(step) ==
  duty = "wake" /\ step /\ UNCHANGED <<duty, pollVars, checkVars, verdictVars>>

Judging(step) ==
  duty = "judge" /\ step /\ UNCHANGED <<duty, pollVars, checkVars, wakeVars>>

DutiesNext ==
  \/ Polling(PollNext)
  \/ Checking(CheckNext)
  \/ Waking(WakeNext)
  \/ Judging(VerdictsNext)

DutiesSpec == DutiesInit /\ [][DutiesNext]_dutyVars

\* Every loop comes round again - each sleeps and then starts over - every
\* command, lookup and transaction ends, and the clock runs.  The check loop
\* does so only while its task lives: Begin needs a running one, a panic of
\* evaluate ends it, and only Restart, which is not fair, brings it back.
\* Arrivals, DNS, admins, other workers' claims being opened, and faults are
\* not fair either.
DutiesFairness ==
  /\ \A p \in Poller : WF_dutyVars(Polling(Poll(p)))
  /\ \A c \in Checker : WF_dutyVars(Checking(Begin(c) \/ Progress(c)))
  /\ WF_dutyVars(Checking(CheckTick))
  /\ WF_dutyVars(Waking(Deliveries)) /\ WF_dutyVars(Waking(ClaimElsewhere))

DutiesFairSpec == DutiesSpec /\ DutiesFairness

-----------------------------------------------------------------------------
(* Properties, beside those of the four modules.                           *)

\* Every variable of the duties has its type.
DutiesTypeOK ==
  /\ duty \in Duty
  /\ PollTypeOK /\ CheckTypeOK /\ WakeTypeOK /\ VerdictsTypeOK

=============================================================================
