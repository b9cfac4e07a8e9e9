--------------------------- MODULE MCWorkerDuties ---------------------------
(***************************************************************************)
(* Instances of WorkerDuties for TLC.  Mail 1 holds reports behind a       *)
(* document that is none, and mail 2 nothing that can be read.             *)
(***************************************************************************)
EXTENDS WorkerDuties, TLC

CONSTANTS p1, p2, r1, r2, c1, c2, d1, d2, j1, j2, j3

MCCarries == 1 :> <<Garbled, r1, r2>> @@ 2 :> <<Other>>

Tags(p, sp) == [p |-> p, sp |-> sp]

MCDmarcTags ==
  {Tags("reject", "absent"), Tags("none", "absent"), Tags("typo", "absent"),
   Tags("reject", "none")}

\* Every behaviour is about one duty, for the runs that ask nothing else.
JudgingOnly == DutiesInit /\ duty = "judge" /\ [][DutiesNext]_dutyVars

\* Checks of one domain by two workers, and of two domains by one with fewer
\* changes; the other duties start from one state of DNS and of the loops.  What
\* the constraint leaves out (initial states, starts, registrations, endings and
\* changes) is under no fairness: no step of a check leads out of it.
OneDomain == registry[d2] = "unknown" /\ world[d2] = {} /\ d2 \notin odd

Slice ==
  /\ duty # "check" => running = {} /\ \A s \in Subject : world[s] = {}
  /\ \/ OneDomain
     \/ c2 \notin running /\ registry[d2] # "ended" /\ changes < MaxChanges - 1

=============================================================================
