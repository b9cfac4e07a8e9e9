----------------------------- MODULE AdminUsers -----------------------------
(***************************************************************************)
(* Who may operate the admin surface: the table admin_user                 *)
(* (crates/postbud-db/src/admin_user.rs) under concurrent requests of the  *)
(* users handlers (crates/postbud-api/src/admin.rs).                       *)
(*                                                                         *)
(* A removal and a change of role are transactions at READ COMMITTED that  *)
(* lock rows one at a time: first the grant they are about, then every     *)
(* grant that is an active admin when the counting statement starts.  A    *)
(* row that had to be waited for is looked at again once it is free.  Two  *)
(* such transactions may wait for each other; PostgreSQL then aborts one.  *)
(***************************************************************************)
EXTENDS Naturals, Sequences, FiniteSets

CONSTANTS
  Request,   \* removals and changes of role that may be in progress at once
  Identity,  \* lower(identifier)
  MaxGrants  \* bound: rows ever written to admin_user

ASSUME AdminUsersAssumption == MaxGrants \in Nat

VARIABLES
  grants,  \* Seq(Grant), the table; a row's id is its position
  tx       \* [Request -> Tx], the transactions in progress

vars == <<grants, tx>>

-----------------------------------------------------------------------------
(* Data.                                                                   *)

Role == {"admin", "viewer"}

Grant == [who : Identity, role : Role, active : BOOLEAN]

\* `to` is the role asked for, or "ended"; `todo` the rows the counting
\* statement has yet to lock, `locked` the row locks held.
Tx == [phase : {"idle", "begun", "counting", "ready"},
       id : Nat, to : Role \cup {"ended"},
       todo : SUBSET Nat, locked : SUBSET Nat]

NoTx == [phase |-> "idle", id |-> 0, to |-> "ended", todo |-> {}, locked |-> {}]

IsAdmin(i) == grants[i].active /\ grants[i].role = "admin"

Admins == {i \in DOMAIN grants : IsAdmin(i)}

\* The bound: there is room for one row more than the open transactions
\* may still write.
HasRoom ==
  Len(grants) + Cardinality({r \in Request : tx[r].to # "ended"}) < MaxGrants

Free(r, i) == \A q \in Request : q # r => i \notin tx[q].locked

-----------------------------------------------------------------------------
(* Granting.                                                               *)

\* The unique index admin_user_active.
HasGrant(who) == \E i \in DOMAIN grants : grants[i].who = who /\ grants[i].active

\* admin_user::add, a statement of its own.
Add(who, role) ==
  /\ HasRoom
  /\ ~HasGrant(who)
  /\ grants' = Append(grants, [who |-> who, role |-> role, active |-> TRUE])
  /\ UNCHANGED tx

-----------------------------------------------------------------------------
(* Removing, and changing a role.                                          *)

Move(r, new) == tx' = [tx EXCEPT ![r] = new] /\ UNCHANGED grants

\* Mutant: a transaction that is given up keeps its locks.
GivenUp_Locked(r) == [NoTx EXCEPT !.locked = tx[r].locked]

\* The transaction object is dropped: rolled back, every lock released.
GivenUp(r) == NoTx

\* A request comes in, for any id and, when it changes a role, any role.
Begin(r, i, to) ==
  /\ tx[r].phase = "idle"
  /\ to # "ended" => HasRoom
  /\ Move(r, [NoTx EXCEPT !.phase = "begun", !.id = i, !.to = to])

\* `select ... for update` of the target: there is none any more (404), it
\* has the role already (204), or it is locked.  The counting that follows
\* for an admin's grant sees the admins of this moment.
Lock(r) ==
  LET i == tx[r].id
  IN  /\ tx[r].phase = "begun"
      /\ Free(r, i)
      /\ CASE ~grants[i].active -> Move(r, GivenUp(r))
           [] grants[i].active /\ grants[i].role = tx[r].to ->
                Move(r, GivenUp(r))
           [] grants[i].active /\ grants[i].role # tx[r].to /\ ~IsAdmin(i) ->
                Move(r, [tx[r] EXCEPT !.phase = "ready", !.locked = {i}])
           [] OTHER ->
                Move(r, [tx[r] EXCEPT !.phase = "counting", !.locked = {i},
                                      !.todo = Admins])

\* Mutant: the counting does not lock what it counts.
Count_NoLock(r, i) ==
  /\ tx[r].phase = "counting" /\ i \in tx[r].todo
  /\ Move(r, [tx[r] EXCEPT !.todo   = @ \ {i},
                           !.locked = IF IsAdmin(i) THEN @ \cup {i} ELSE @])

\* `select count(*) from (... for update)`, row by row: one that another
\* transaction holds is waited for, and no longer counts if it changed.
Count(r, i) ==
  /\ tx[r].phase = "counting" /\ i \in tx[r].todo
  /\ Free(r, i)
  /\ Move(r, [tx[r] EXCEPT !.todo   = @ \ {i},
                           !.locked = IF IsAdmin(i) THEN @ \cup {i} ELSE @])

Counted(r) == tx[r].phase = "counting" /\ tx[r].todo = {}

IsLast(r) == Cardinality(tx[r].locked) <= 1

\* "cannot remove (demote) the last admin"
Refuse(r) == Counted(r) /\ IsLast(r) /\ Move(r, GivenUp(r))

MayWrite(r) == tx[r].phase = "ready" \/ (Counted(r) /\ ~IsLast(r))

Ended(i) == [grants EXCEPT ![i].active = FALSE]

\* Mutant: a removal writes a new grant, as a change of role does.
End_WritesGrant(r) ==
  /\ MayWrite(r) /\ tx[r].to = "ended"
  /\ grants' = Append(Ended(tx[r].id),
                      [who |-> grants[tx[r].id].who, role |-> tx[r].to, active |-> TRUE])
  /\ tx' = [tx EXCEPT ![r] = NoTx]

\* admin_user::end, the update and the commit.
End(r) ==
  /\ MayWrite(r) /\ tx[r].to = "ended"
  /\ grants' = Ended(tx[r].id)
  /\ tx' = [tx EXCEPT ![r] = NoTx]

\* admin_user::set_role, the update, the insert and the commit.
SetRole(r) ==
  /\ MayWrite(r) /\ tx[r].to # "ended"
  /\ grants' = Append(Ended(tx[r].id),
                      [who |-> grants[tx[r].id].who, role |-> tx[r].to, active |-> TRUE])
  /\ tx' = [tx EXCEPT ![r] = NoTx]

\* A statement fails or the connection is lost.
Fail(r) == tx[r].phase # "idle" /\ Move(r, GivenUp(r))

-----------------------------------------------------------------------------
(* Deadlock (PostgreSQL, external).                                        *)

\* The rows r waits for.
Wanted(r) == CASE tx[r].phase = "begun"    -> {tx[r].id}
               [] tx[r].phase = "counting" -> tx[r].todo
               [] OTHER -> {}

WaitsFor(r, q) == q # r /\ Wanted(r) \cap tx[q].locked # {}

\* r cannot go on, nor can any of those it waits for.
Deadlocked(r) ==
  \E S \in SUBSET Request :
    /\ r \in S
    /\ \A q \in S : /\ \E p \in S : WaitsFor(q, p)
                    /\ \A i \in Wanted(q) : ~Free(q, i)

BreakDeadlock(r) == Deadlocked(r) /\ Move(r, GivenUp(r))

-----------------------------------------------------------------------------
(* The specification.                                                      *)

Init == grants = << >> /\ tx = [r \in Request |-> NoTx]

Work(r) ==
  \/ Lock(r) \/ Refuse(r) \/ End(r) \/ SetRole(r) \/ BreakDeadlock(r)
  \/ \E i \in DOMAIN grants : Count(r, i)

Next ==
  \/ \E who \in Identity, role \in Role : Add(who, role)
  \/ \E r \in Request :
       \/ \E i \in DOMAIN grants, to \in Role \cup {"ended"} : Begin(r, i, to)
       \/ Work(r)
       \/ Fail(r)

Spec == Init /\ [][Next]_vars

\* A transaction goes on when it can; who waits for a row is served in turn
\* (PostgreSQL queues them), and a deadlock is broken.
FairSpec == Spec /\ \A r \in Request : SF_vars(Work(r))

-----------------------------------------------------------------------------
(* Properties.                                                             *)

TypeOK ==
  /\ grants \in Seq(Grant)
  /\ tx \in [Request -> Tx]

\* Once there is an admin there always is one: no interleaving of removals
\* and demotions, each of which sees another admin left, takes the last.
AnAdminRemains == [][Admins # {} => Admins' # {}]_grants

\* An identity never has two active grants, so a removal removes all of it.
OneActiveGrant ==
  \A i, j \in DOMAIN grants :
    grants[i].active /\ grants[j].active /\ grants[i].who = grants[j].who => i = j

\* The table reads as a history: a grant's holder and role never change, no
\* row disappears, and an ended grant never becomes active again.
HistoryOnlyGrows ==
  [][\A i \in DOMAIN grants :
       /\ i \in DOMAIN grants'
       /\ grants'[i].who = grants[i].who /\ grants'[i].role = grants[i].role
       /\ grants'[i].active => grants[i].active]_grants

\* Every request is answered, though two of them may wait for each other.
EveryRequestIsAnswered ==
  \A r \in Request : tx[r].phase # "idle" ~> tx[r].phase = "idle"

=============================================================================
