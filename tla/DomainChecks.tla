---------------------------- MODULE DomainChecks ----------------------------
(***************************************************************************)
(* The checks of the sending domains (crates/postbud-relay/src/dnscheck.rs *)
(* over crates/postbud-db/src/domain.rs).  Every worker process runs the   *)
(* loop: it lists what is due, asks DNS one question after the other, and  *)
(* inserts one row of history per domain.  Nothing keeps two workers from  *)
(* checking the same domain, nor DNS from changing between two questions.  *)
(*                                                                         *)
(* The relay's own identity (run_relay_check, relay.rs) is checked by the  *)
(* same loop in the same way on a table of its own: it is the instance     *)
(* with one subject, registered by configuration.                          *)
(*                                                                         *)
(* What the answers mean, dnscheck::evaluate, is module Verdicts; here a   *)
(* subject has a few records, each of them right or wrong - and may have a *)
(* TXT record on which evaluate panics (it cuts the text at a byte that is *)
(* within a character), which is the end of the loop in this process.      *)
(***************************************************************************)
EXTENDS Naturals, FiniteSets

CONSTANTS
  Checker,        \* worker processes that check
  Subject,        \* sending domains, by row id
  Records,        \* how many records valid depends on: asked for in turn
  Recheck,        \* RECHECK_MINUTES, in ticks
  Revalidate,     \* REVALIDATE_HOURS, in ticks
  MaxChanges,     \* bound: changes of DNS
  MaxCheckFaults  \* bound: failed lookups, failed rounds and restarts

ASSUME ChecksAssumption ==
  /\ Records \in Nat \ {0}
  /\ {Recheck, Revalidate, MaxChanges, MaxCheckFaults} \subseteq Nat
  /\ Recheck <= Revalidate

VARIABLES
  world,        \* [Subject -> SUBSET Record], the records that are right
  odd,          \* subjects that have a TXT record evaluate panics on
  running,      \* workers that are up and whose loop has not panicked
  registry,     \* [Subject -> Registration], sending_domain
  latest,       \* [Subject -> Check], the newest row of the history
  round,        \* [Checker -> Round], the rounds in progress
  everRight,    \* [Subject -> SUBSET Record], records that were once right
  everWrong,    \* [Subject -> SUBSET Record], records that were once wrong
  changes,      \* changes so far, at most MaxChanges
  checkFaults   \* faults so far, at most MaxCheckFaults

checkVars == <<world, odd, running, registry, latest, round, everRight, everWrong,
               changes, checkFaults>>

-----------------------------------------------------------------------------
(* Data.                                                                   *)

Record == 1 .. Records

Registration == {"unknown", "active", "ended"}

\* `age` is now() - checked_at; it stops growing once it is past Revalidate.
\* Older rows are history: nothing the loop does reads them.
NoCheck == [made |-> FALSE]

Check == {NoCheck} \cup
         [made : {TRUE}, valid : BOOLEAN, age : 0 .. Revalidate + 1]

\* The domains a round has still to check and, of the one at hand, how many
\* records it has asked for, which of them were right, and whether an odd one
\* came with them.
Round == [todo : SUBSET Subject, asked : 0 .. Records, right : SUBSET Record,
          odd : BOOLEAN]

NoRound == [todo |-> {}, asked |-> 0, right |-> {}, odd |-> FALSE]

\* Mutant: a valid domain is not checked again.
Due_OnlyWhileWrong(s) ==
  /\ registry[s] = "active"
  /\ latest[s].made => ~latest[s].valid /\ latest[s].age > Recheck

\* domain::due_for_check, and relay::due likewise
Due(s) ==
  /\ registry[s] = "active"
  /\ latest[s].made =>
       latest[s].age > (IF latest[s].valid THEN Revalidate ELSE Recheck)

-----------------------------------------------------------------------------
(* The registry (domain::add and domain::end), and DNS itself (external).  *)

RegisterDomain(s) ==
  /\ registry[s] = "unknown"
  /\ registry' = [registry EXCEPT ![s] = "active"]
  /\ UNCHANGED <<world, odd, running, latest, round, everRight, everWrong, changes, checkFaults>>

EndDomain(s) ==
  /\ registry[s] = "active"
  /\ registry' = [registry EXCEPT ![s] = "ended"]
  /\ UNCHANGED <<world, odd, running, latest, round, everRight, everWrong, changes, checkFaults>>

Change(s, r) ==
  /\ changes < MaxChanges
  /\ changes' = changes + 1
  /\ IF r \in world[s]
     THEN /\ world' = [world EXCEPT ![s] = @ \ {r}]
          /\ everWrong' = [everWrong EXCEPT ![s] = @ \cup {r}]
          /\ UNCHANGED everRight
     ELSE /\ world' = [world EXCEPT ![s] = @ \cup {r}]
          /\ everRight' = [everRight EXCEPT ![s] = @ \cup {r}]
          /\ UNCHANGED everWrong
  /\ UNCHANGED <<odd, running, registry, latest, round, checkFaults>>

\* A record evaluate panics on is published, or withdrawn.
ChangeOdd(s) ==
  /\ changes < MaxChanges
  /\ changes' = changes + 1
  /\ odd' = IF s \in odd THEN odd \ {s} ELSE odd \cup {s}
  /\ UNCHANGED <<world, running, registry, latest, round, everRight, everWrong, checkFaults>>

-----------------------------------------------------------------------------
(* A round: run_due_checks, or run_relay_check.                            *)

SetRound(c, value) == round' = [round EXCEPT ![c] = value]

\* due_for_check; the loop sleeps when nothing is due.
Begin(c) ==
  /\ c \in running
  /\ round[c].todo = {}
  /\ \E s \in Subject : Due(s)
  /\ SetRound(c, [NoRound EXCEPT !.todo = {s \in Subject : Due(s)}])
  /\ UNCHANGED <<world, odd, running, registry, latest, everRight, everWrong, changes, checkFaults>>

Checked(c) == CHOOSE s \in round[c].todo : TRUE

\* Mutant: the round ends with the first subject.
NextSubject_EndsRound(c) == SetRound(c, NoRound)

\* The round goes on with the next subject.
NextSubject(c) ==
  SetRound(c, [round[c] EXCEPT !.todo = @ \ {Checked(c)}, !.asked = 0, !.right = {},
                                                  !.odd = FALSE])

\* One lookup of observe, or of observe_relay; the first is for the domain's
\* own TXT records.
Ask(c) ==
  /\ round[c].todo # {} /\ round[c].asked < Records
  /\ LET r == round[c].asked + 1
     IN  SetRound(c, [round[c] EXCEPT !.asked = r,
                                      !.right = @ \cup ({r} \cap world[Checked(c)]),
                                      !.odd = @ \/ (r = 1 /\ Checked(c) \in odd)])
  /\ UNCHANGED <<world, odd, running, registry, latest, everRight, everWrong, changes, checkFaults>>

Insert(s, valid) ==
  latest' = [latest EXCEPT ![s] = [made |-> TRUE, valid |-> valid, age |-> 0]]

\* evaluate and record_check: one row, though the domain may be ended since.
RecordCheck(c) ==
  /\ round[c].todo # {} /\ round[c].asked = Records /\ ~round[c].odd
  /\ Insert(Checked(c), round[c].right = Record)
  /\ NextSubject(c)
  /\ UNCHANGED <<world, odd, running, registry, everRight, everWrong, changes, checkFaults>>

\* evaluate panics.  The task was spawned and nobody awaits it: it is gone,
\* with the rest of its round, while the process delivers on.
Panic(c) ==
  /\ round[c].todo # {} /\ round[c].asked = Records /\ round[c].odd
  /\ running' = running \ {c}
  /\ SetRound(c, NoRound)
  /\ UNCHANGED <<world, odd, registry, latest, everRight, everWrong, changes, checkFaults>>

CheckFault == checkFaults < MaxCheckFaults /\ checkFaults' = checkFaults + 1

\* Mutant: a resolver that does not answer counts as a missing record.
SkipSubject_Missing(c) ==
  /\ CheckFault
  /\ round[c].todo # {} /\ round[c].asked < Records
  /\ Insert(Checked(c), FALSE)
  /\ NextSubject(c)
  /\ UNCHANGED <<world, odd, running, registry, everRight, everWrong, changes>>

\* The resolver does not answer: the subject is skipped, nothing is recorded.
SkipSubject(c) ==
  /\ CheckFault
  /\ round[c].todo # {} /\ round[c].asked < Records
  /\ NextSubject(c)
  /\ UNCHANGED <<world, odd, running, registry, latest, everRight, everWrong, changes>>

\* The insert fails, which ends the round.
AbandonRound(c) ==
  /\ CheckFault
  /\ round[c].todo # {}
  /\ SetRound(c, NoRound)
  /\ UNCHANGED <<world, odd, running, registry, latest, everRight, everWrong, changes>>

\* A worker is started, the first time or again after its process died, and
\* its loop with it.
Restart(c) ==
  /\ CheckFault
  /\ running' = running \cup {c}
  /\ SetRound(c, NoRound)
  /\ UNCHANGED <<world, odd, registry, latest, everRight, everWrong, changes>>

CheckTick ==
  /\ latest' = [s \in Subject |->
       IF latest[s].made /\ latest[s].age <= Revalidate
       THEN [latest[s] EXCEPT !.age = @ + 1] ELSE latest[s]]
  /\ UNCHANGED <<world, odd, running, registry, round, everRight, everWrong, changes, checkFaults>>

-----------------------------------------------------------------------------
(* The specification.                                                      *)

CheckInit ==
  /\ world     \in [Subject -> {{}, Record}]
  /\ odd       = {}
  /\ running   \in SUBSET Checker
  /\ registry  = [s \in Subject |-> "unknown"]
  /\ latest    = [s \in Subject |-> NoCheck]
  /\ round     = [c \in Checker |-> NoRound]
  /\ everRight = world
  /\ everWrong = [s \in Subject |-> Record \ world[s]]
  /\ changes   = 0
  /\ checkFaults = 0

Progress(c) == Ask(c) \/ RecordCheck(c) \/ Panic(c)

CheckNext ==
  \/ \E s \in Subject : RegisterDomain(s) \/ EndDomain(s) \/ ChangeOdd(s)
  \/ \E s \in Subject, r \in Record : Change(s, r)
  \/ \E c \in Checker : \/ Begin(c) \/ Progress(c)
                         \/ SkipSubject(c) \/ AbandonRound(c) \/ Restart(c)
  \/ CheckTick

CheckSpec == CheckInit /\ [][CheckNext]_checkVars

-----------------------------------------------------------------------------
(* Properties.                                                             *)

CheckTypeOK ==
  /\ world \in [Subject -> SUBSET Record]
  /\ odd \subseteq Subject /\ running \subseteq Checker
  /\ registry \in [Subject -> Registration]
  /\ latest \in [Subject -> Check]
  /\ round \in [Checker -> Round]
  /\ everRight \in [Subject -> SUBSET Record]
  /\ everWrong \in [Subject -> SUBSET Record]
  /\ changes \in 0 .. MaxChanges
  /\ checkFaults \in 0 .. MaxCheckFaults

\* The history holds answers only: a subject is called wrong only if one of
\* its records was wrong at some time, and right only if each of them was
\* right at some time - an outage of ours is no verdict about the domain.
VerdictsAreAnswers ==
  \A s \in Subject : latest[s].made =>
    IF latest[s].valid THEN everRight[s] = Record ELSE everWrong[s] # {}

Settled(s, right) == registry[s] = "active" /\ world[s] = right

Badge(s, right) == latest[s].made /\ latest[s].valid = (right = Record)

\* The badge follows DNS both ways, for every domain and whatever becomes of
\* the checks of the others: once the records of an active subject stay as
\* they are, and some worker's loop goes on, its newest check says so and
\* keeps saying so, though slow workers may still insert what they asked
\* before the change.
BadgeFollowsDns ==
  \A s \in Subject, right \in SUBSET Record, c \in Checker :
    <>[](Settled(s, right) /\ c \in running) => <>[]Badge(s, right)

=============================================================================
