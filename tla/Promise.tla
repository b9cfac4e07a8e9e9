------------------------------ MODULE Promise ------------------------------
(***************************************************************************)
(* What the queue promises of a message, with no worker, claim, schedule   *)
(* or clock in sight.  An accepted message is pending until it is sent or  *)
(* failed, and that verdict is final.  The relay is given another copy     *)
(* only while every earlier copy has been lost sight of; `sent` means that *)
(* one copy is known to be with the relay, `failed` that none is.          *)
(*                                                                         *)
(* A crash can lose sight of several copies in one step, so a step moves   *)
(* any number of messages, each by one of the moves below.                 *)
(***************************************************************************)
EXTENDS Naturals

CONSTANT Msg

VARIABLES
  state,   \* [Msg -> State]
  copies,  \* [Msg -> Nat], copies the relay has taken
  lost     \* [Msg -> Nat], copies the queue has lost sight of

vars == <<state, copies, lost>>

State == {"unknown", "pending", "suppressed", "sent", "failed"}

Init ==
  /\ state  = [m \in Msg |-> "unknown"]
  /\ copies = [m \in Msg |-> 0]
  /\ lost   = [m \in Msg |-> 0]

Stays(f, m) == f'[m] = f[m]

Submit(m) ==
  /\ state[m] = "unknown"
  /\ state'[m] \in {"pending", "suppressed"}
  /\ Stays(copies, m) /\ Stays(lost, m)

\* Another copy, if the queue knows of none: it may be lost sight of at once.
HandOver(m) ==
  /\ state[m] = "pending" /\ Stays(state, m)
  /\ copies[m] = lost[m]
  /\ copies'[m] = copies[m] + 1
  /\ lost'[m] \in {lost[m], lost[m] + 1}

LoseSight(m) ==
  /\ state[m] = "pending" /\ Stays(state, m)
  /\ copies[m] = lost[m] + 1 /\ Stays(copies, m)
  /\ lost'[m] = lost[m] + 1

Conclude(m) ==
  /\ state[m] = "pending"
  /\ state'[m] = IF copies[m] = lost[m] THEN "failed" ELSE "sent"
  /\ Stays(copies, m) /\ Stays(lost, m)

Move(m) == Submit(m) \/ HandOver(m) \/ LoseSight(m) \/ Conclude(m)

Rest(m) == Stays(state, m) /\ Stays(copies, m) /\ Stays(lost, m)

Next == \A m \in Msg : Move(m) \/ Rest(m)

Spec == Init /\ [][Next]_vars
=============================================================================
