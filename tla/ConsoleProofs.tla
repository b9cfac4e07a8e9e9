--------------------------- MODULE ConsoleProofs ---------------------------
(***************************************************************************)
(* Theorems about what stands behind the admin console, for every number   *)
(* of concurrent requests, identities, rows, verifications, keys, tabs and *)
(* lines: who may operate it (AdminUsers, Access), how their token is      *)
(* checked (KeyCache) and renewed (Session), and what a bounce says        *)
(* (Notices).                                                              *)
(*                                                                         *)
(* Tenants, Paging and Volume have theirs in TenantsProofs and             *)
(* PagingProofs.  The last section puts all of them together: a behaviour  *)
(* of Console is one of every concern, so what is proved of a concern      *)
(* holds of the console that has them all.                                 *)
(***************************************************************************)
EXTENDS Console, TenantsProofs, PagingProofs

-----------------------------------------------------------------------------
(* AdminUsers: the inductive invariant.                                    *)

\* No row is locked twice.
LocksExclude ==
  \A r, q \in Request : r # q => tx[r].locked \cap tx[q].locked = {}

\* What a transaction has locked is as it found it: still active, and an
\* admin's if it was counted as one.
TxInv(r) ==
  /\ tx[r].phase # "idle" => tx[r].id \in DOMAIN grants
  /\ tx[r].todo \subseteq DOMAIN grants
  /\ \A i \in tx[r].locked : i \in DOMAIN grants /\ grants[i].active
  /\ tx[r].phase \in {"idle", "begun"} => tx[r].locked = {}
  /\ tx[r].phase = "counting" =>
       tx[r].id \in tx[r].locked /\ \A i \in tx[r].locked : IsAdmin(i)
  /\ tx[r].phase = "ready" =>
       tx[r].id \in tx[r].locked /\ ~IsAdmin(tx[r].id)

AdminInv ==
  /\ TypeOK
  /\ OneActiveGrant
  /\ LocksExclude
  /\ \A r \in Request : TxInv(r)

-----------------------------------------------------------------------------
(* AdminUsers: steps that leave the table alone.                           *)

LEMMA NoTxIsTx == NoTx \in Tx
  BY DEF NoTx, Tx

\* One transaction moves to a new state that satisfies the invariant, and
\* locks nothing another has locked.
LEMMA MoveKeeps ==
  ASSUME AdminInv, NEW r \in Request, NEW new \in Tx, Move(r, new),
         TxInv(r)', \A q \in Request : q # r => new.locked \cap tx[q].locked = {}
  PROVE  AdminInv'
<1>1. /\ grants' = grants /\ tx' = [tx EXCEPT ![r] = new]
      /\ tx'[r] = new /\ \A q \in Request : q # r => tx'[q] = tx[q]
  BY DEF Move, AdminInv, TypeOK
<1>2. TypeOK'
  BY <1>1 DEF AdminInv, TypeOK
<1>3. OneActiveGrant'
  BY <1>1 DEF AdminInv, OneActiveGrant
<1>4. LocksExclude'
  BY <1>1 DEF AdminInv, LocksExclude
<1>5. ASSUME NEW q \in Request, q # r PROVE TxInv(q)'
  BY <1>1, <1>5 DEF AdminInv, TxInv, IsAdmin
<1>6. QED
  BY <1>2, <1>3, <1>4, <1>5 DEF AdminInv

\* A transaction that is given up holds nothing and claims nothing.
LEMMA GiveUpKeeps ==
  ASSUME AdminInv, NEW r \in Request, Move(r, GivenUp(r))
  PROVE  AdminInv'
<1>1. tx'[r] = NoTx
  BY DEF Move, GivenUp, AdminInv, TypeOK
<1>2. TxInv(r)'
  BY <1>1 DEF TxInv, NoTx
<1>3. NoTx.locked = {}
  BY DEF NoTx
<1>4. QED
  BY <1>2, <1>3, NoTxIsTx, MoveKeeps DEF GivenUp

LEMMA TxFields ==
  ASSUME TypeOK, NEW r \in Request
  PROVE  /\ tx[r] \in Tx /\ tx[r].id \in Nat
         /\ tx[r].todo \in SUBSET Nat /\ tx[r].locked \in SUBSET Nat
         /\ DOMAIN grants \subseteq Nat
  BY DEF TypeOK, Tx

LEMMA BeginKeeps ==
  ASSUME AdminInv, NEW r \in Request, NEW i \in DOMAIN grants,
         NEW to \in Role \cup {"ended"}, Begin(r, i, to)
  PROVE  AdminInv'
<1> DEFINE new == [NoTx EXCEPT !.phase = "begun", !.id = i, !.to = to]
<1>1. i \in Nat
  BY TxFields DEF AdminInv
<1>2. new \in Tx /\ new.locked = {} /\ new.todo = {} /\ new.id = i
      /\ new.phase = "begun"
  BY <1>1 DEF NoTx, Tx
<1>3. Move(r, new)
  BY DEF Begin
<1>4. tx'[r] = new /\ grants' = grants
  BY <1>3 DEF Move, AdminInv, TypeOK
<1>5. TxInv(r)'
  BY <1>2, <1>4 DEF TxInv
<1>6. QED
  BY <1>2, <1>3, <1>5, MoveKeeps

LEMMA LockKeeps ==
  ASSUME AdminInv, NEW r \in Request, Lock(r)
  PROVE  AdminInv'
<1> DEFINE i == tx[r].id
           ready == [tx[r] EXCEPT !.phase = "ready", !.locked = {i}]
           counting == [tx[r] EXCEPT !.phase = "counting", !.locked = {i},
                                     !.todo = Admins]
<1>1. /\ tx[r] \in Tx /\ tx[r].phase = "begun" /\ Free(r, i)
      /\ i \in DOMAIN grants /\ i \in Nat
      /\ tx[r].todo \subseteq DOMAIN grants
  BY TxFields DEF Lock, AdminInv, TxInv
<1>2. \A q \in Request : q # r => {i} \cap tx[q].locked = {}
  BY <1>1 DEF Free
<1>3. \/ Move(r, GivenUp(r))
      \/ grants[i].active /\ ~IsAdmin(i) /\ Move(r, ready)
      \/ IsAdmin(i) /\ Move(r, counting)
  BY DEF Lock, IsAdmin
<1>4. CASE Move(r, GivenUp(r))
  BY <1>4, GiveUpKeeps
<1>5. CASE grants[i].active /\ ~IsAdmin(i) /\ Move(r, ready)
  <2>1. /\ ready \in Tx /\ ready.phase = "ready" /\ ready.locked = {i}
        /\ ready.id = i /\ ready.todo = tx[r].todo
    BY <1>1 DEF Tx
  <2>2. tx'[r] = ready /\ grants' = grants
    BY <1>5 DEF Move, AdminInv, TypeOK
  <2>3. TxInv(r)'
    BY <1>1, <1>5, <2>1, <2>2 DEF TxInv, IsAdmin
  <2>4. QED
    BY <1>2, <1>5, <2>1, <2>3, MoveKeeps
<1>6. CASE IsAdmin(i) /\ Move(r, counting)
  <2>1. Admins \in SUBSET Nat /\ Admins \subseteq DOMAIN grants
    BY TxFields DEF Admins, AdminInv
  <2>2. /\ counting \in Tx /\ counting.phase = "counting"
        /\ counting.locked = {i} /\ counting.id = i /\ counting.todo = Admins
    BY <1>1, <2>1 DEF Tx
  <2>3. tx'[r] = counting /\ grants' = grants
    BY <1>6 DEF Move, AdminInv, TypeOK
  <2>4. TxInv(r)'
    BY <1>1, <1>6, <2>1, <2>2, <2>3 DEF TxInv, IsAdmin
  <2>5. QED
    BY <1>2, <1>6, <2>2, <2>4, MoveKeeps
<1>7. QED
  BY <1>3, <1>4, <1>5, <1>6

LEMMA CountKeeps ==
  ASSUME AdminInv, NEW r \in Request, NEW i \in DOMAIN grants, Count(r, i)
  PROVE  AdminInv'
<1> DEFINE new == [tx[r] EXCEPT !.todo = @ \ {i},
                     !.locked = IF IsAdmin(i) THEN @ \cup {i} ELSE @]
<1>1. /\ tx[r] \in Tx /\ tx[r].phase = "counting" /\ Free(r, i)
      /\ i \in Nat /\ TxInv(r)
      /\ tx[r].todo \in SUBSET Nat /\ tx[r].locked \in SUBSET Nat
  BY TxFields DEF Count, AdminInv
<1>2. /\ new \in Tx /\ new.phase = "counting" /\ new.id = tx[r].id
      /\ new.todo = tx[r].todo \ {i}
      /\ new.locked = IF IsAdmin(i) THEN tx[r].locked \cup {i} ELSE tx[r].locked
  BY <1>1 DEF Tx
<1>3. Move(r, new)
  BY DEF Count
<1>4. tx'[r] = new /\ grants' = grants
  BY <1>3 DEF Move, AdminInv, TypeOK
<1>5. \A j \in new.locked : j \in DOMAIN grants /\ IsAdmin(j)
  BY <1>1, <1>2 DEF TxInv
<1>6. TxInv(r)'
  BY <1>1, <1>2, <1>4, <1>5 DEF TxInv, IsAdmin
<1>7. \A q \in Request : q # r => new.locked \cap tx[q].locked = {}
  BY <1>1, <1>2 DEF Free, AdminInv, LocksExclude
<1>8. QED
  BY <1>2, <1>3, <1>6, <1>7, MoveKeeps

-----------------------------------------------------------------------------
(* Steps that write.                                                       *)

\* A transaction may only write a grant it has locked, and if that is an
\* admin's it has locked another admin's as well.
LEMMA WriterHoldsLocks ==
  ASSUME AdminInv, NEW r \in Request, MayWrite(r)
  PROVE  /\ tx[r].id \in DOMAIN grants /\ tx[r].id \in tx[r].locked
         /\ grants[tx[r].id].active
         /\ IsAdmin(tx[r].id) =>
              \E j \in DOMAIN grants : j # tx[r].id /\ IsAdmin(j)
<1>1. TxInv(r) /\ tx[r].phase \in {"ready", "counting"}
  BY DEF AdminInv, MayWrite, Counted
<1>2. /\ tx[r].id \in DOMAIN grants /\ tx[r].id \in tx[r].locked
      /\ grants[tx[r].id].active
  BY <1>1 DEF TxInv
<1>3. ASSUME IsAdmin(tx[r].id)
      PROVE  \E j \in DOMAIN grants : j # tx[r].id /\ IsAdmin(j)
  <2>1. tx[r].phase = "counting" /\ ~(Cardinality(tx[r].locked) <= 1)
    BY <1>1, <1>3 DEF MayWrite, Counted, IsLast, TxInv
  <2>2. tx[r].locked # {tx[r].id}
    <3>1. Cardinality({tx[r].id}) = 1
      BY FS_Singleton
    <3>2. QED
      BY <2>1, <3>1
  <2>3. PICK j \in tx[r].locked : j # tx[r].id
    BY <1>2, <2>2
  <2>4. QED
    BY <1>1, <2>1, <2>3 DEF TxInv
<1>4. QED
  BY <1>2, <1>3

\* What a write does to the rows that were there: one ends, by its holder.
LEMMA EndedRows ==
  ASSUME TypeOK, NEW i \in DOMAIN grants
  PROVE  /\ Ended(i) \in Seq(Grant) /\ DOMAIN Ended(i) = DOMAIN grants
         /\ ~Ended(i)[i].active
         /\ Ended(i)[i].who = grants[i].who /\ Ended(i)[i].role = grants[i].role
         /\ \A j \in DOMAIN grants : j # i => Ended(i)[j] = grants[j]
<1>1. grants \in Seq(Grant)
  BY DEF TypeOK
<1>2. grants[i] \in Grant
  BY <1>1
<1>3. [grants[i] EXCEPT !.active = FALSE] \in Grant
  BY <1>2 DEF Grant
<1>4. Ended(i) = [grants EXCEPT ![i] = [grants[i] EXCEPT !.active = FALSE]]
  BY DEF Ended
<1>5. Ended(i) \in Seq(Grant) /\ DOMAIN Ended(i) = DOMAIN grants
  BY <1>1, <1>3, <1>4
<1>6. Ended(i)[i] = [grants[i] EXCEPT !.active = FALSE]
  BY <1>1, <1>4
<1>7. /\ ~Ended(i)[i].active
      /\ Ended(i)[i].who = grants[i].who /\ Ended(i)[i].role = grants[i].role
  BY <1>2, <1>6 DEF Grant
<1>8. \A j \in DOMAIN grants : j # i => Ended(i)[j] = grants[j]
  BY <1>1, <1>4
<1>9. QED
  BY <1>5, <1>7, <1>8

\* The other transactions do not notice a write: they have locked none of
\* the rows it ends.
LEMMA WriteKeepsTx ==
  ASSUME AdminInv, NEW r \in Request, MayWrite(r),
         tx' = [tx EXCEPT ![r] = NoTx],
         DOMAIN grants \subseteq DOMAIN grants',
         \A j \in DOMAIN grants : j # tx[r].id => grants'[j] = grants[j],
         grants'[tx[r].id].active = FALSE
  PROVE  LocksExclude' /\ \A q \in Request : TxInv(q)'
<1>1. tx'[r] = NoTx /\ \A q \in Request : q # r => tx'[q] = tx[q]
  BY DEF AdminInv, TypeOK
<1>2. LocksExclude'
  BY <1>1 DEF AdminInv, LocksExclude, NoTx
<1>3. TxInv(r)'
  BY <1>1 DEF TxInv, NoTx
<1>4. ASSUME NEW q \in Request, q # r PROVE TxInv(q)'
  <2>1. tx'[q] = tx[q] /\ TxInv(q)
    BY <1>1, <1>4 DEF AdminInv
  <2>2. tx[r].id \in tx[r].locked /\ tx[r].id \notin tx[q].locked
    BY <1>4, WriterHoldsLocks DEF AdminInv, LocksExclude
  <2>3. \A i \in tx[q].locked : i \in DOMAIN grants /\ grants'[i] = grants[i]
    BY <2>1, <2>2 DEF TxInv
  <2>4. QED
    BY <2>1, <2>3 DEF TxInv, IsAdmin
<1>5. QED
  BY <1>2, <1>3, <1>4

LEMMA EndKeeps ==
  ASSUME AdminInv, NEW r \in Request, End(r)
  PROVE  AdminInv'
<1> DEFINE i == tx[r].id
<1>1. MayWrite(r) /\ grants' = Ended(i) /\ tx' = [tx EXCEPT ![r] = NoTx]
  BY DEF End
<1>2. i \in DOMAIN grants
  BY <1>1, WriterHoldsLocks
<1>3. /\ Ended(i) \in Seq(Grant) /\ DOMAIN Ended(i) = DOMAIN grants
      /\ ~Ended(i)[i].active
      /\ \A j \in DOMAIN grants : j # i => Ended(i)[j] = grants[j]
  BY <1>2, EndedRows DEF AdminInv
<1>4. TypeOK'
  BY <1>1, <1>3, NoTxIsTx DEF AdminInv, TypeOK
<1>5. OneActiveGrant'
  BY <1>1, <1>3 DEF AdminInv, OneActiveGrant
<1>6. grants'[i].active = FALSE
  BY <1>1, <1>2, EndedRows DEF AdminInv, Ended, TypeOK
<1>7. LocksExclude' /\ \A q \in Request : TxInv(q)'
  BY <1>1, <1>3, <1>6, WriteKeepsTx
<1>8. QED
  BY <1>4, <1>5, <1>7 DEF AdminInv

LEMMA SetRoleRows ==
  ASSUME AdminInv, NEW r \in Request, SetRole(r)
  PROVE  LET i == tx[r].id
             n == Len(grants) + 1
         IN  /\ grants' \in Seq(Grant)
             /\ DOMAIN grants' = DOMAIN grants \cup {n} /\ n \notin DOMAIN grants
             /\ grants'[n] = [who |-> grants[i].who, role |-> tx[r].to, active |-> TRUE]
             /\ grants'[i] = Ended(i)[i]
             /\ \A j \in DOMAIN grants : j # i => grants'[j] = grants[j]
<1> DEFINE i == tx[r].id
           n == Len(grants) + 1
           new == [who |-> grants[i].who, role |-> tx[r].to, active |-> TRUE]
<1>1. MayWrite(r) /\ grants' = Append(Ended(i), new) /\ tx[r].to # "ended"
  BY DEF SetRole
<1>2. i \in DOMAIN grants /\ grants \in Seq(Grant)
  BY <1>1, WriterHoldsLocks DEF AdminInv, TypeOK
<1>3. tx[r].to \in Role
  BY <1>1, TxFields DEF AdminInv, Tx
<1>4. grants[i] \in Grant
  BY <1>2
<1>5. new \in Grant
  BY <1>3, <1>4 DEF Grant
<1>6. /\ Ended(i) \in Seq(Grant) /\ DOMAIN Ended(i) = DOMAIN grants
      /\ \A j \in DOMAIN grants : j # i => Ended(i)[j] = grants[j]
  BY <1>2, EndedRows DEF AdminInv
<1>7. Len(Ended(i)) = Len(grants)
  BY <1>2, <1>6
<1>8. grants' \in Seq(Grant) /\ DOMAIN grants' = 1 .. n
  BY <1>1, <1>2, <1>5, <1>6, <1>7
<1>9. DOMAIN grants = 1 .. Len(grants) /\ Len(grants) \in Nat
  BY <1>2
<1>10. DOMAIN grants' = DOMAIN grants \cup {n} /\ n \notin DOMAIN grants
  BY <1>8, <1>9
<1>11. grants'[n] = new
  BY <1>1, <1>6, <1>7
<1>12. \A j \in DOMAIN grants : grants'[j] = Ended(i)[j]
  BY <1>1, <1>6
<1>13. QED
  BY <1>2, <1>6, <1>8, <1>10, <1>11, <1>12

LEMMA SetRoleKeeps ==
  ASSUME AdminInv, NEW r \in Request, SetRole(r)
  PROVE  AdminInv'
<1> DEFINE i == tx[r].id
           n == Len(grants) + 1
<1>1. MayWrite(r) /\ tx' = [tx EXCEPT ![r] = NoTx]
  BY DEF SetRole
<1>2. i \in DOMAIN grants /\ grants[i].active
  BY <1>1, WriterHoldsLocks
<1>3. /\ grants' \in Seq(Grant)
      /\ DOMAIN grants' = DOMAIN grants \cup {n} /\ n \notin DOMAIN grants
      /\ grants'[n] = [who |-> grants[i].who, role |-> tx[r].to, active |-> TRUE]
      /\ grants'[i] = Ended(i)[i]
      /\ \A j \in DOMAIN grants : j # i => grants'[j] = grants[j]
  BY SetRoleRows
<1>4. TypeOK'
  BY <1>1, <1>3, NoTxIsTx DEF AdminInv, TypeOK
<1>5. grants'[i].active = FALSE
  <2>1. grants \in Seq(Grant)
    BY DEF AdminInv, TypeOK
  <2>2. Ended(i)[i] = [grants[i] EXCEPT !.active = FALSE] /\ grants[i] \in Grant
    BY <1>2, <2>1 DEF Ended
  <2>3. QED
    BY <1>3, <2>2 DEF Grant
<1>6. grants'[n].who = grants[i].who
  BY <1>3
<1>7. ASSUME NEW j \in DOMAIN grants', NEW k \in DOMAIN grants',
             grants'[j].active, grants'[k].active, grants'[j].who = grants'[k].who
      PROVE  j = k
  <2>1. j # i /\ k # i
    BY <1>5, <1>7
  <2>2. \A l \in DOMAIN grants : l # i /\ grants[l].active => grants[l].who # grants[i].who
    BY <1>2 DEF AdminInv, OneActiveGrant
  <2>3. CASE j \in DOMAIN grants /\ k \in DOMAIN grants
    BY <1>3, <1>7, <2>1, <2>3 DEF AdminInv, OneActiveGrant
  <2>4. CASE j = n /\ k \in DOMAIN grants
    BY <1>3, <1>6, <1>7, <2>1, <2>2, <2>4
  <2>5. CASE j \in DOMAIN grants /\ k = n
    BY <1>3, <1>6, <1>7, <2>1, <2>2, <2>5
  <2>6. QED
    BY <1>3, <2>3, <2>4, <2>5
<1>8. OneActiveGrant'
  BY <1>7 DEF OneActiveGrant
<1>9. LocksExclude' /\ \A q \in Request : TxInv(q)'
  BY <1>1, <1>3, <1>5, WriteKeepsTx
<1>10. QED
  BY <1>4, <1>8, <1>9 DEF AdminInv

LEMMA AddRows ==
  ASSUME TypeOK, NEW who \in Identity, NEW role \in Role, Add(who, role)
  PROVE  LET n == Len(grants) + 1
         IN  /\ grants' \in Seq(Grant)
             /\ DOMAIN grants' = DOMAIN grants \cup {n} /\ n \notin DOMAIN grants
             /\ grants'[n] = [who |-> who, role |-> role, active |-> TRUE]
             /\ \A j \in DOMAIN grants : grants'[j] = grants[j]
<1> DEFINE new == [who |-> who, role |-> role, active |-> TRUE]
<1>1. grants \in Seq(Grant) /\ new \in Grant /\ grants' = Append(grants, new)
  BY DEF TypeOK, Add, Grant
<1>2. DOMAIN grants = 1 .. Len(grants) /\ Len(grants) \in Nat
  BY <1>1
<1>3. grants' \in Seq(Grant) /\ DOMAIN grants' = 1 .. Len(grants) + 1
  BY <1>1
<1>4. DOMAIN grants' = DOMAIN grants \cup {Len(grants) + 1}
      /\ Len(grants) + 1 \notin DOMAIN grants
  BY <1>2, <1>3
<1>5. grants'[Len(grants) + 1] = new /\ \A j \in DOMAIN grants : grants'[j] = grants[j]
  BY <1>1
<1>6. QED
  BY <1>3, <1>4, <1>5

LEMMA AddKeeps ==
  ASSUME AdminInv, NEW who \in Identity, NEW role \in Role, Add(who, role)
  PROVE  AdminInv'
<1> DEFINE n == Len(grants) + 1
<1>1. tx' = tx /\ ~HasGrant(who)
  BY DEF Add
<1>2. /\ grants' \in Seq(Grant)
      /\ DOMAIN grants' = DOMAIN grants \cup {n} /\ n \notin DOMAIN grants
      /\ grants'[n] = [who |-> who, role |-> role, active |-> TRUE]
      /\ \A j \in DOMAIN grants : grants'[j] = grants[j]
  BY AddRows DEF AdminInv
<1>3. grants'[n].who = who
  BY <1>2
<1>4. TypeOK'
  BY <1>1, <1>2 DEF AdminInv, TypeOK
<1>5. OneActiveGrant'
  BY <1>1, <1>2, <1>3 DEF AdminInv, OneActiveGrant, HasGrant
<1>6. LocksExclude'
  BY <1>1 DEF AdminInv, LocksExclude
<1>7. ASSUME NEW r \in Request PROVE TxInv(r)'
  <2>1. TxInv(r)
    BY DEF AdminInv
  <2>2. QED
    BY <1>1, <1>2, <2>1 DEF TxInv, IsAdmin
<1>8. QED
  BY <1>4, <1>5, <1>6, <1>7 DEF AdminInv

-----------------------------------------------------------------------------
(* AdminUsers: the theorems.                                               *)

LEMMA AdminInit == Init => AdminInv
<1> SUFFICES ASSUME Init PROVE AdminInv
  OBVIOUS
<1>1. TypeOK
  BY NoTxIsTx DEF Init, TypeOK
<1>2. OneActiveGrant
  BY DEF Init, OneActiveGrant
<1>3. LocksExclude /\ \A r \in Request : TxInv(r)
  BY DEF Init, LocksExclude, TxInv, NoTx
<1>4. QED
  BY <1>1, <1>2, <1>3 DEF AdminInv

LEMMA AdminStep == AdminInv /\ [Next]_vars => AdminInv'
<1> SUFFICES ASSUME AdminInv, [Next]_vars PROVE AdminInv'
  OBVIOUS
<1>1. ASSUME NEW who \in Identity, NEW role \in Role, Add(who, role)
      PROVE  AdminInv'
  BY <1>1, AddKeeps
<1>2. ASSUME NEW r \in Request, NEW i \in DOMAIN grants,
             NEW to \in Role \cup {"ended"}, Begin(r, i, to)
      PROVE  AdminInv'
  BY <1>2, BeginKeeps
<1>3. ASSUME NEW r \in Request, Lock(r) PROVE AdminInv'
  BY <1>3, LockKeeps
<1>4. ASSUME NEW r \in Request, NEW i \in DOMAIN grants, Count(r, i)
      PROVE  AdminInv'
  BY <1>4, CountKeeps
<1>5. ASSUME NEW r \in Request, Refuse(r) \/ Fail(r) \/ BreakDeadlock(r)
      PROVE  AdminInv'
  <2>1. Move(r, GivenUp(r))
    BY <1>5 DEF Refuse, Fail, BreakDeadlock
  <2>2. QED
    BY <2>1, GiveUpKeeps
<1>6. ASSUME NEW r \in Request, End(r) PROVE AdminInv'
  BY <1>6, EndKeeps
<1>7. ASSUME NEW r \in Request, SetRole(r) PROVE AdminInv'
  BY <1>7, SetRoleKeeps
<1>8. CASE UNCHANGED vars
  BY <1>8 DEF vars, AdminInv, TypeOK, OneActiveGrant, LocksExclude, TxInv, IsAdmin
<1>9. QED
  BY <1>1, <1>2, <1>3, <1>4, <1>5, <1>6, <1>7, <1>8 DEF Next, Work

LEMMA AdminInvariant == Spec => []AdminInv
  BY AdminInit, AdminStep, PTL DEF Spec

\* The rows of admin_user and the transactions on them have their types in
\* every reachable state.
THEOREM TypeCorrect == Spec => []TypeOK
<1>1. AdminInv => TypeOK
  BY DEF AdminInv
<1>2. QED
  BY <1>1, AdminInvariant, PTL

\* An identity never has two active grants, though a change of role writes
\* the second before anyone sees the first ended.
THEOREM GrantsAreUnique == Spec => []OneActiveGrant
<1>1. AdminInv => OneActiveGrant
  BY DEF AdminInv
<1>2. QED
  BY <1>1, AdminInvariant, PTL

\* A step either leaves the table alone, adds a row, or writes under locks.
LEMMA StepKinds ==
  ASSUME AdminInv, [Next]_vars, grants' # grants
  PROVE  \/ \E who \in Identity, role \in Role : Add(who, role)
         \/ \E r \in Request : End(r) \/ SetRole(r)
  BY DEF Next, Work, Begin, Lock, Count, Refuse, Fail, BreakDeadlock, Move, vars

LEMMA AdminStays ==
  ASSUME AdminInv, [Next]_vars, Admins # {}
  PROVE  Admins' # {}
<1>0. CASE UNCHANGED grants
  BY <1>0 DEF Admins, IsAdmin
<1>1. PICK a \in DOMAIN grants : IsAdmin(a)
  BY DEF Admins
<1>2. ASSUME NEW j \in DOMAIN grants, IsAdmin(j),
             j \in DOMAIN grants', grants'[j] = grants[j]
      PROVE  Admins' # {}
  BY <1>2 DEF Admins, IsAdmin
<1>3. ASSUME NEW who \in Identity, NEW role \in Role, Add(who, role)
      PROVE  Admins' # {}
  <2>1. a \in DOMAIN grants' /\ grants'[a] = grants[a]
    BY <1>3, AddRows DEF AdminInv
  <2>2. QED
    BY <1>1, <1>2, <2>1
<1>4. ASSUME NEW r \in Request, End(r) \/ SetRole(r)
      PROVE  Admins' # {}
  <2>1. MayWrite(r)
    BY <1>4 DEF End, SetRole
  <2>2. PICK j \in DOMAIN grants : j # tx[r].id /\ IsAdmin(j)
    BY <1>1, <2>1, WriterHoldsLocks
  <2>3. j \in DOMAIN grants' /\ grants'[j] = grants[j]
    <3>1. CASE End(r)
      BY <2>1, <2>2, <3>1, WriterHoldsLocks, EndedRows DEF AdminInv, End
    <3>2. CASE SetRole(r)
      BY <2>2, <3>2, SetRoleRows
    <3>3. QED
      BY <1>4, <3>1, <3>2
  <2>4. QED
    BY <1>2, <2>2, <2>3
<1>5. QED
  BY <1>0, <1>3, <1>4, StepKinds

\* The last admin can be neither removed nor demoted, by any number of
\* concurrent requests: each holds the lock of the admin it relies on.
THEOREM LastAdminStays == Spec => AnAdminRemains
<1>1. AdminInv /\ [Next]_vars => [Admins # {} => Admins' # {}]_grants
  BY AdminStays
<1>2. QED
  BY <1>1, AdminInvariant, PTL DEF Spec, AnAdminRemains

\* The table is a history: no interleaving rewrites or revives a grant.
THEOREM HistoryIsKept == Spec => HistoryOnlyGrows
<1> DEFINE Kept(i) == /\ i \in DOMAIN grants'
                      /\ grants'[i].who = grants[i].who
                      /\ grants'[i].role = grants[i].role
                      /\ grants'[i].active => grants[i].active
<1>1. ASSUME AdminInv, [Next]_vars
      PROVE  [\A i \in DOMAIN grants :
                 /\ i \in DOMAIN grants'
                 /\ grants'[i].who = grants[i].who /\ grants'[i].role = grants[i].role
                 /\ grants'[i].active => grants[i].active]_grants
  <2> SUFFICES ASSUME grants' # grants, NEW i \in DOMAIN grants PROVE Kept(i)
    OBVIOUS
  <2>1. ASSUME NEW who \in Identity, NEW role \in Role, Add(who, role)
        PROVE  Kept(i)
    BY <1>1, <2>1, AddRows DEF AdminInv
  <2>2. ASSUME NEW r \in Request, End(r) PROVE Kept(i)
    <3>1. MayWrite(r) /\ grants' = Ended(tx[r].id)
      BY <2>2 DEF End
    <3>2. tx[r].id \in DOMAIN grants /\ grants[tx[r].id].active
      BY <1>1, <3>1, WriterHoldsLocks
    <3>3. QED
      BY <1>1, <3>1, <3>2, EndedRows DEF AdminInv
  <2>3. ASSUME NEW r \in Request, SetRole(r) PROVE Kept(i)
    <3>1. MayWrite(r)
      BY <2>3 DEF SetRole
    <3>2. tx[r].id \in DOMAIN grants /\ grants[tx[r].id].active
      BY <1>1, <3>1, WriterHoldsLocks
    <3>3. i \in DOMAIN grants'
      BY <1>1, <2>3, SetRoleRows
    <3>4. CASE i = tx[r].id
      <4>1. grants'[i] = Ended(i)[i]
        BY <1>1, <2>3, <3>4, SetRoleRows
      <4>2. QED
        BY <1>1, <3>2, <3>3, <3>4, <4>1, EndedRows DEF AdminInv
    <3>5. CASE i # tx[r].id
      BY <1>1, <2>3, <3>3, <3>5, SetRoleRows
    <3>6. QED
      BY <3>4, <3>5
  <2>4. QED
    BY <1>1, <2>1, <2>2, <2>3, StepKinds
<1>2. QED
  BY <1>1, AdminInvariant, PTL DEF Spec, HistoryOnlyGrows

-----------------------------------------------------------------------------
(* Access.                                                                 *)

LEMMA AccessStep == [AccessNext]_accessVars => [Next]_vars
  BY DEF AccessNext, Admit, Handle, Dismiss, Continue, Next, accessVars, vars

\* Requests that were let in change the table as the users handlers do
\* alone, whatever became of the role they were let in for.
THEOREM AccessManages == AccessSpec => AccessIsManaging
<1>1. AccessInit => Init
  BY DEF AccessInit
<1>2. QED
  BY <1>1, AccessStep, PTL DEF AccessSpec, AccessIsManaging, Spec

LEMMA AccessTypes == AccessSpec => []AccessTypeOK
<1>1. AccessInit => admitted \subseteq Request
  BY DEF AccessInit
<1>2. admitted \subseteq Request /\ [AccessNext]_accessVars => (admitted \subseteq Request)'
  BY DEF AccessNext, Admit, Handle, Dismiss, Continue, accessVars
<1>3. AccessSpec => [](admitted \subseteq Request)
  BY <1>1, <1>2, PTL DEF AccessSpec
<1>4. TypeOK /\ admitted \subseteq Request => AccessTypeOK
  BY DEF AccessTypeOK
<1> QED
  BY <1>3, <1>4, AccessManages, TypeCorrect, PTL DEF AccessIsManaging

AnAdminWasMade == \E i \in DOMAIN grants : grants[i].role = "admin"

\* Once anyone was made an admin somebody is one.
AccessInv == AdminInv /\ (AnAdminWasMade => Admins # {})

LEMMA FirstAdmin ==
  ASSUME AdminInv, [Next]_vars, ~AnAdminWasMade, AnAdminWasMade'
  PROVE  Admins' # {}
<1>0. PICK n \in DOMAIN grants' : grants'[n].role = "admin"
  BY DEF AnAdminWasMade
<1>1. grants' # grants
  BY DEF AnAdminWasMade
<1>2. ASSUME NEW who \in Identity, NEW role \in Role, Add(who, role)
      PROVE  grants'[n].active
  <2>1. n \notin DOMAIN grants
    BY <1>0, <1>2, AddRows DEF AdminInv, AnAdminWasMade
  <2>2. grants'[n] = [who |-> who, role |-> role, active |-> TRUE]
    BY <1>2, <2>1, AddRows DEF AdminInv
  <2>3. QED
    BY <2>2
<1>3. ASSUME NEW r \in Request, End(r) PROVE FALSE
  <2>1. MayWrite(r) /\ grants' = Ended(tx[r].id)
    BY <1>3 DEF End
  <2>2. tx[r].id \in DOMAIN grants
    BY <2>1, WriterHoldsLocks
  <2>3. n \in DOMAIN grants /\ grants'[n].role = grants[n].role
    BY <1>0, <2>1, <2>2, EndedRows DEF AdminInv
  <2>4. QED
    BY <1>0, <2>3 DEF AnAdminWasMade
<1>4. ASSUME NEW r \in Request, SetRole(r) PROVE grants'[n].active
  <2>1. MayWrite(r)
    BY <1>4 DEF SetRole
  <2>2. tx[r].id \in DOMAIN grants
    BY <2>1, WriterHoldsLocks
  <2>3. ASSUME n \in DOMAIN grants PROVE grants'[n].role = grants[n].role
    <3>1. CASE n = tx[r].id
      <4>1. grants'[n] = Ended(n)[n]
        BY <1>4, <3>1, SetRoleRows
      <4>2. QED
        BY <2>2, <3>1, <4>1, EndedRows DEF AdminInv
    <3>2. CASE n # tx[r].id
      BY <1>4, <2>3, <3>2, SetRoleRows
    <3>3. QED
      BY <3>1, <3>2
  <2>4. n \notin DOMAIN grants
    BY <1>0, <2>3 DEF AnAdminWasMade
  <2>5. grants'[n] = [who |-> grants[tx[r].id].who, role |-> tx[r].to, active |-> TRUE]
    BY <1>4, <2>4, SetRoleRows
  <2>6. QED
    BY <2>5
<1>5. grants'[n].active
  BY <1>1, <1>2, <1>3, <1>4, StepKinds
<1>6. QED
  BY <1>0, <1>5 DEF Admins, IsAdmin

\* Once anyone was made an admin the environment's list lets nobody in
\* again: the admins it was meant for never all disappear.
THEOREM ListStaysClosed == AccessSpec => []AllowlistStaysClosed
<1>1. AccessInit => AccessInv
  BY AdminInit DEF AccessInit, AccessInv, AnAdminWasMade, Init
<1>2. ASSUME AccessInv, [AccessNext]_accessVars PROVE AccessInv'
  <2>1. AdminInv /\ [Next]_vars
    BY <1>2, AccessStep DEF AccessInv
  <2>2. AdminInv'
    BY <2>1, AdminStep
  <2>3. ASSUME AnAdminWasMade' PROVE Admins' # {}
    <3>1. CASE AnAdminWasMade
      BY <1>2, <2>1, <3>1, AdminStays DEF AccessInv
    <3>2. CASE ~AnAdminWasMade
      BY <2>1, <2>3, <3>2, FirstAdmin
    <3>3. QED
      BY <3>1, <3>2
  <2>4. QED
    BY <2>2, <2>3 DEF AccessInv
<1>3. AccessInv => AllowlistStaysClosed
  BY DEF AccessInv, AnAdminWasMade, AllowlistStaysClosed, AllowlistGoverns, Admins, IsAdmin
<1>4. QED
  BY <1>1, <1>2, <1>3, PTL DEF AccessSpec

-----------------------------------------------------------------------------
(* The key cache.                                                          *)

\* A verification whose key is published all the while: the issuer has the
\* key, and so has the set it fetched a second time.
VisitInv(v) ==
  /\ InProgress(v) /\ visit[v].steady => visit[v].kid \in published
  /\ visit[v].again /\ visit[v].steady /\ visit[v].at \in {"store", "find"} =>
       visit[v].kid \in visit[v].set
  /\ visit[v].at = "refused" => ~visit[v].steady

KeysInv == KeysTypeOK /\ \A v \in Visit : VisitInv(v)

LEMMA KeysStart == KeysInit => KeysInv
<1> SUFFICES ASSUME KeysInit PROVE KeysInv
  OBVIOUS
<1> DEFINE k == CHOOSE k \in Kid : TRUE
           none == [at |-> "none", kid |-> k, set |-> {}, again |-> FALSE, steady |-> FALSE]
<1>1. k \in Kid
  BY KeyCacheAssumption
<1>2. none \in Verification
  BY <1>1 DEF Verification
<1>3. visit = [v \in Visit |-> none]
  BY DEF KeysInit
<1>4. KeysTypeOK
  BY <1>2, <1>3 DEF KeysInit, KeysTypeOK
<1>5. ASSUME NEW v \in Visit PROVE VisitInv(v)
  BY <1>3 DEF VisitInv, InProgress
<1>6. QED
  BY <1>4, <1>5 DEF KeysInv

\* A step about one verification leaves the others as they are.
LEMMA VisitKeeps ==
  ASSUME KeysInv, NEW v \in Visit, NEW new \in Verification,
         visit' = [visit EXCEPT ![v] = new], published' = published,
         discovered' \in BOOLEAN, cache' \in SUBSET SUBSET Kid,
         \A s1, s2 \in cache' : s1 = s2, keyFaults' \in Nat,
         VisitInv(v)'
  PROVE  KeysInv'
<1>1. visit' \in [Visit -> Verification]
  BY DEF KeysInv, KeysTypeOK
<1>2. KeysTypeOK'
  BY <1>1 DEF KeysInv, KeysTypeOK
<1>3. ASSUME NEW u \in Visit, u # v PROVE VisitInv(u)'
  <2>1. visit'[u] = visit[u] /\ VisitInv(u)
    BY <1>3 DEF KeysInv, KeysTypeOK
  <2>2. QED
    BY <2>1 DEF VisitInv, InProgress
<1>4. QED
  BY <1>2, <1>3 DEF KeysInv

\* A verification that returns is steady only if it is not refused.
LEMMA ReturnKeeps ==
  ASSUME KeysInv, NEW v \in Visit, NEW at \in {"accepted", "refused", "failed"},
         Return(v, at), at = "refused" => ~visit[v].steady,
         published' = published, UNCHANGED <<discovered, cache>>, keyFaults' \in Nat
  PROVE  KeysInv'
<1> DEFINE new == [visit[v] EXCEPT !.at = at, !.set = {}, !.again = FALSE]
<1>0. KeysTypeOK /\ VisitInv(v) /\ visit[v] \in Verification
  BY DEF KeysInv, KeysTypeOK
<1>1. visit' = [visit EXCEPT ![v] = new]
  BY DEF Return
<1>2. new \in Verification
  BY <1>0 DEF Verification
<1>3. visit'[v] = new
  BY <1>0, <1>1 DEF KeysTypeOK
<1>4. new.at = at /\ new.steady = visit[v].steady
  BY <1>0 DEF Verification
<1>5. VisitInv(v)'
  BY <1>3, <1>4 DEF VisitInv, InProgress
<1>6. QED
  BY <1>0, <1>1, <1>2, <1>5, VisitKeeps DEF KeysTypeOK

\* The step of a verification, by what the new record says of it.
LEMMA VisitStep ==
  ASSUME KeysInv, NEW v \in Visit,
         \/ \E kid \in Kid : Verify(v, kid)
         \/ Discover(v) \/ Answer(v) \/ Store(v) \/ Find(v) \/ FailToFetch(v)
  PROVE  KeysInv'
<1>0. /\ KeysTypeOK /\ VisitInv(v) /\ visit[v] \in Verification
      /\ visit[v].set \subseteq Kid
  BY DEF KeysInv, KeysTypeOK, Verification
<1>1. ASSUME NEW kid \in Kid, Verify(v, kid) PROVE KeysInv'
  <2> DEFINE new == [at |-> IF cache = {} THEN Fetching ELSE "find", kid |-> kid,
                     set |-> UNION cache, again |-> FALSE, steady |-> kid \in published]
  <2>1. visit' = [visit EXCEPT ![v] = new] /\ UNCHANGED <<published, discovered, cache, keyFaults>>
    BY <1>1 DEF Verify
  <2>2. new \in Verification
    BY <1>0 DEF KeysTypeOK, Verification, Fetching
  <2>3. visit'[v] = new
    BY <1>0, <2>1 DEF KeysTypeOK
  <2>4. new.at # "refused" /\ ~new.again /\ (new.steady => new.kid \in published)
    BY DEF Fetching
  <2>5. VisitInv(v)'
    BY <2>1, <2>3, <2>4 DEF VisitInv
  <2>6. QED
    BY <1>0, <2>1, <2>2, <2>5, VisitKeeps DEF KeysTypeOK
<1>2. CASE Discover(v)
  <2> DEFINE new == [visit[v] EXCEPT !.at = "ask"]
  <2>1. /\ visit' = [visit EXCEPT ![v] = new] /\ visit[v].at = "discover"
        /\ discovered' = TRUE /\ UNCHANGED <<published, cache, keyFaults>>
    BY <1>2 DEF Discover, Go
  <2>2. new \in Verification
    BY <1>0 DEF Verification
  <2>3. visit'[v] = new
    BY <1>0, <2>1 DEF KeysTypeOK
  <2>4. /\ new.at = "ask" /\ new.kid = visit[v].kid /\ new.steady = visit[v].steady
    BY <1>0 DEF Verification
  <2>5. VisitInv(v)'
    BY <1>0, <2>1, <2>3, <2>4 DEF VisitInv, InProgress
  <2>6. QED
    BY <1>0, <2>1, <2>2, <2>5, VisitKeeps DEF KeysTypeOK
<1>3. CASE Answer(v)
  <2> DEFINE new == [visit[v] EXCEPT !.at = "store", !.set = published]
  <2>1. /\ visit' = [visit EXCEPT ![v] = new] /\ visit[v].at = "ask"
        /\ UNCHANGED <<published, discovered, cache, keyFaults>>
    BY <1>3 DEF Answer
  <2>2. new \in Verification
    BY <1>0 DEF Verification, KeysTypeOK
  <2>3. visit'[v] = new
    BY <1>0, <2>1 DEF KeysTypeOK
  <2>4. /\ new.at = "store" /\ new.set = published
        /\ new.kid = visit[v].kid /\ new.steady = visit[v].steady
    BY <1>0 DEF Verification
  <2>5. VisitInv(v)'
    BY <1>0, <2>1, <2>3, <2>4 DEF VisitInv, InProgress
  <2>6. QED
    BY <1>0, <2>1, <2>2, <2>5, VisitKeeps DEF KeysTypeOK
<1>4. CASE Store(v)
  <2> DEFINE new == [visit[v] EXCEPT !.at = "find"]
  <2>1. /\ visit' = [visit EXCEPT ![v] = new] /\ visit[v].at = "store"
        /\ cache' = {visit[v].set} /\ UNCHANGED <<published, discovered, keyFaults>>
    BY <1>4 DEF Store, Go
  <2>2. new \in Verification
    BY <1>0 DEF Verification
  <2>3. visit'[v] = new
    BY <1>0, <2>1 DEF KeysTypeOK
  <2>4. /\ new.at = "find" /\ new.kid = visit[v].kid /\ new.steady = visit[v].steady
        /\ new.again = visit[v].again /\ new.set = visit[v].set
    BY <1>0 DEF Verification
  <2>5. VisitInv(v)'
    BY <1>0, <2>1, <2>3, <2>4 DEF VisitInv, InProgress
  <2>6. cache' \in SUBSET SUBSET Kid /\ \A s1, s2 \in cache' : s1 = s2
    BY <1>0, <2>1
  <2>7. QED
    BY <1>0, <2>1, <2>2, <2>5, <2>6, VisitKeeps DEF KeysTypeOK
<1>5. CASE Find(v)
  <2>1. visit[v].at = "find" /\ UNCHANGED <<published, discovered, cache, keyFaults>>
    BY <1>5 DEF Find
  <2>2. CASE visit[v].kid \in visit[v].set
    BY <1>0, <1>5, <2>1, <2>2, ReturnKeeps DEF Find, KeysTypeOK
  <2>3. CASE visit[v].kid \notin visit[v].set /\ ~visit[v].again
    <3> DEFINE new == [visit[v] EXCEPT !.at = Fetching, !.again = TRUE]
    <3>1. visit' = [visit EXCEPT ![v] = new]
      BY <1>5, <2>3 DEF Find
    <3>2. new \in Verification
      BY <1>0 DEF Verification, Fetching
    <3>3. visit'[v] = new
      BY <1>0, <3>1 DEF KeysTypeOK
    <3>4. /\ new.at \in {"ask", "discover"} /\ new.kid = visit[v].kid
          /\ new.steady = visit[v].steady
      BY <1>0 DEF Verification, Fetching
    <3>5. VisitInv(v)'
      BY <1>0, <2>1, <3>3, <3>4 DEF VisitInv, InProgress
    <3>6. QED
      BY <1>0, <2>1, <3>1, <3>2, <3>5, VisitKeeps DEF KeysTypeOK
  <2>4. CASE visit[v].kid \notin visit[v].set /\ visit[v].again
    <3>1. ~visit[v].steady
      BY <1>0, <2>1, <2>4 DEF VisitInv
    <3>2. Return(v, "refused")
      BY <1>5, <2>4 DEF Find
    <3>3. QED
      BY <1>0, <2>1, <3>1, <3>2, ReturnKeeps DEF KeysTypeOK
  <2>5. QED
    BY <2>2, <2>3, <2>4
<1>6. CASE FailToFetch(v)
  BY <1>0, <1>6, ReturnKeeps DEF FailToFetch, KeysTypeOK
<1>7. QED
  BY <1>1, <1>2, <1>3, <1>4, <1>5, <1>6

LEMMA RotationKeeps ==
  ASSUME KeysInv, NEW k \in Kid, Republish(k)
  PROVE  KeysInv'
<1> DEFINE new(v) == [visit[v] EXCEPT !.steady = @ /\ (visit[v].kid = k => k \notin published)]
<1>1. /\ visit' = [v \in Visit |-> new(v)]
      /\ published' = IF k \in published THEN published \ {k} ELSE published \cup {k}
      /\ UNCHANGED <<discovered, cache, keyFaults>>
  BY DEF Republish
<1>2. ASSUME NEW v \in Visit
      PROVE  /\ new(v) \in Verification
             /\ new(v).at = visit[v].at /\ new(v).kid = visit[v].kid
             /\ new(v).set = visit[v].set /\ new(v).again = visit[v].again
             /\ new(v).steady <=> visit[v].steady /\ (visit[v].kid = k => k \notin published)
  BY DEF KeysInv, KeysTypeOK, Verification
<1>3. KeysTypeOK'
  <2>1. visit' \in [Visit -> Verification]
    BY <1>1, <1>2
  <2>2. published' \subseteq Kid
    BY <1>1 DEF KeysInv, KeysTypeOK
  <2>3. QED
    BY <1>1, <2>1, <2>2 DEF KeysInv, KeysTypeOK
<1>4. ASSUME NEW v \in Visit PROVE VisitInv(v)'
  <2>1. visit'[v] = new(v) /\ VisitInv(v)
    BY <1>1 DEF KeysInv
  <2>2. visit[v].kid \in published /\ visit[v].kid # k => visit[v].kid \in published'
    BY <1>1
  <2>3. QED
    BY <1>2, <2>1, <2>2 DEF VisitInv, InProgress
<1>5. QED
  BY <1>3, <1>4 DEF KeysInv

LEMMA KeysInvariant == KeysSpec => []KeysInv
<1>1. KeysInv /\ [KeysNext]_keyVars => KeysInv'
  <2> SUFFICES ASSUME KeysInv, [KeysNext]_keyVars PROVE KeysInv'
    OBVIOUS
  <2>1. CASE UNCHANGED keyVars
    BY <2>1 DEF keyVars, KeysInv, KeysTypeOK, VisitInv, InProgress
  <2>2. QED
    BY <2>1, VisitStep, RotationKeeps DEF KeysNext
<1>2. QED
  BY <1>1, KeysStart, PTL DEF KeysSpec

\* However verifications overtake each other over the cache, a token whose
\* key was published all the while is refused by none of them.
THEOREM NobodyLockedOut == KeysSpec => []PublishedKeyIsAccepted
<1>1. KeysInv => PublishedKeyIsAccepted
  BY DEF KeysInv, VisitInv, PublishedKeyIsAccepted
<1>2. QED
  BY <1>1, KeysInvariant, PTL

-----------------------------------------------------------------------------
(* Session.                                                                *)
(*                                                                         *)
(* SpentIsReplaced looks at the jar; why it holds is in the tabs as well.  *)
(* A token in the jar that is spent was spent by an exchange whose answer  *)
(* is still on its way, and that answer carries a token nobody else has:   *)
(* neither the jar, nor any request, nor any other answer.                 *)

Known(n) == n \in Issued => refresh[n] # "unissued"

\* Nobody but the answer on its way to t has the token it carries.
WonInv(t) ==
  exchange[t].at = "accepted" =>
    /\ exchange[t].won \in Issued /\ refresh[exchange[t].won] \in {"live", "ended"}
    /\ jar # exchange[t].won
    /\ \A u \in Tab :
         /\ exchange[u].cookie # exchange[t].won
         /\ exchange[u].at = "accepted" /\ u # t => exchange[u].won # exchange[t].won

JarInv ==
  /\ Known(jar)
  /\ Spent(jar) => \E u \in Tab : exchange[u].at = "accepted" /\ exchange[u].cookie = jar

PastInv(t) == Known(exchange[t].cookie)

TokensInv == JarInv /\ \A t \in Tab : WonInv(t) /\ PastInv(t)

TokenTypes ==
  /\ refresh \in [Issued -> Life]
  /\ jar \in 0 .. MaxIssued
  /\ exchange \in [Tab -> Exchange]
  /\ sessionFaults \in Nat

\* After a fault nothing is claimed.
SessionInv ==
  /\ sessionFaults \in Nat
  /\ sessionFaults = 0 => TokenTypes /\ TokensInv

LEMMA NumbersOfTokens ==
  /\ \A n \in 0 .. MaxIssued : n = 0 \/ n \in Issued
  /\ 0 \notin Issued /\ Issued \subseteq 0 .. MaxIssued /\ 0 \in 0 .. MaxIssued
  BY SessionAssumption DEF Issued

LEMMA NoExchangeIsOne ==
  /\ NoExchange \in Exchange /\ NoExchange.at = "none" /\ NoExchange.attempt = 1
  /\ NoExchange.cookie = 0
  BY NumbersOfTokens DEF NoExchange, Exchange

LEMMA AskingIsOne ==
  ASSUME jar \in 0 .. MaxIssued
  PROVE  /\ Asking \in Exchange /\ Asking.at = "asking" /\ Asking.attempt = 1
         /\ Asking.cookie = jar
  BY NoExchangeIsOne, NumbersOfTokens DEF Asking, Exchange

\* A tab's exchange changes, and none of its answers is involved.
LEMMA SetKeeps ==
  ASSUME TokenTypes, TokensInv, NEW t \in Tab, NEW new \in Exchange, Set(t, new),
         UNCHANGED <<refresh, jar>>,
         exchange[t].at # "accepted", new.at # "accepted",
         new.cookie \in {0, jar}
  PROVE  TokensInv'
<1>1. exchange' = [exchange EXCEPT ![t] = new] /\ exchange \in [Tab -> Exchange]
  BY DEF Set, TokenTypes
<1>2. exchange'[t] = new /\ \A u \in Tab : u # t => exchange'[u] = exchange[u]
  BY <1>1
<1>3. JarInv'
  BY <1>2 DEF TokensInv, JarInv, Known, Spent
<1>4. Known(0) /\ Known(jar)
  BY NumbersOfTokens DEF Known, TokensInv, JarInv
<1>5. PastInv(t)'
  BY <1>2, <1>4 DEF PastInv, Known
<1>6. ASSUME NEW u \in Tab, u # t PROVE PastInv(u)'
  BY <1>2, <1>6 DEF TokensInv, PastInv, Known
<1>7. ASSUME NEW u \in Tab, exchange'[u].at = "accepted" PROVE WonInv(u)'
  <2>1. u # t /\ exchange'[u] = exchange[u] /\ WonInv(u) /\ exchange[u].won # 0
    BY <1>2, <1>7, NumbersOfTokens DEF TokensInv, WonInv
  <2>2. new.cookie # exchange[u].won
    BY <1>7, <2>1 DEF WonInv
  <2>3. QED
    BY <1>2, <2>1, <2>2 DEF WonInv
<1>8. \A u \in Tab : WonInv(u)'
  BY <1>7 DEF WonInv
<1>9. QED
  BY <1>3, <1>5, <1>6, <1>8 DEF TokensInv

\* Whoever has been there is so for good.
OnlyForward == \A k \in Issued : refresh[k] # "unissued" => refresh'[k] # "unissued"

LEMMA PastStays ==
  ASSUME OnlyForward, NEW u \in Tab, PastInv(u), exchange'[u] = exchange[u]
  PROVE  PastInv(u)'
  BY DEF PastInv, Known, OnlyForward

\* No exchange changes, no token is issued, and the jar is left or emptied.
LEMMA LeaveTokensKeeps ==
  ASSUME TokenTypes, TokensInv, NEW t \in Tab, exchange[t].at # "accepted",
         Set(t, NoExchange), jar' = 0, refresh' \in [Issued -> Life],
         \A k \in Issued : \/ refresh'[k] = refresh[k]
                           \/ refresh[k] = "live" /\ refresh'[k] = "ended"
  PROVE  TokensInv'
<1>1. exchange' = [exchange EXCEPT ![t] = NoExchange] /\ exchange \in [Tab -> Exchange]
  BY DEF Set, TokenTypes
<1>2. exchange'[t] = NoExchange /\ \A u \in Tab : u # t => exchange'[u] = exchange[u]
  BY <1>1
<1>3. OnlyForward
  BY DEF OnlyForward
<1>6. JarInv'
  BY NumbersOfTokens DEF JarInv, Known, Spent
<1>7. PastInv(t)'
  BY <1>2, NoExchangeIsOne, NumbersOfTokens DEF PastInv, Known
<1>8. ASSUME NEW u \in Tab, u # t PROVE PastInv(u)'
  BY <1>2, <1>3, <1>8, PastStays DEF TokensInv
<1>9. ASSUME NEW u \in Tab, exchange'[u].at = "accepted" PROVE WonInv(u)'
  <2>1. u # t /\ exchange'[u] = exchange[u] /\ WonInv(u) /\ exchange[u].won # 0
    BY <1>2, <1>9, NoExchangeIsOne, NumbersOfTokens DEF TokensInv, WonInv
  <2>2. refresh'[exchange[u].won] \in {"live", "ended"}
    BY <1>9, <2>1 DEF WonInv
  <2>3. QED
    BY <1>2, <2>1, <2>2, NoExchangeIsOne DEF WonInv
<1>10. \A u \in Tab : WonInv(u)'
  BY <1>9 DEF WonInv
<1>11. QED
  BY <1>6, <1>7, <1>8, <1>10 DEF TokensInv

\* The issuer hands out a token, and may spend one that was live.
LEMMA IssuedTokens ==
  ASSUME TokenTypes, NEW n \in Issued, NEW spent, Issues(n, spent),
         \A k \in spent : k \in Issued /\ refresh[k] = "live"
  PROVE  /\ OnlyForward /\ refresh' \in [Issued -> Life]
         /\ refresh[n] = "unissued" /\ refresh'[n] = "live"
         /\ \A k \in Issued : k # n /\ k \notin spent => refresh'[k] = refresh[k]
<1>1. refresh[n] = "unissued"
      /\ refresh' = [k \in Issued |-> CASE k = n -> "live" [] k \in spent -> "spent"
                                        [] OTHER -> refresh[k]]
  BY DEF Issues
<1>2. n \notin spent
  BY <1>1
<1>3. /\ refresh'[n] = "live"
      /\ \A k \in Issued : k \in spent => refresh'[k] = "spent"
      /\ \A k \in Issued : k # n /\ k \notin spent => refresh'[k] = refresh[k]
  BY <1>1, <1>2
<1>4. OnlyForward
  BY <1>1, <1>2, <1>3 DEF OnlyForward
<1>5. \A k \in Issued : refresh'[k] \in Life
  BY <1>3 DEF TokenTypes, Life
<1>6. QED
  BY <1>1, <1>3, <1>4, <1>5

LEMMA LoginKeeps ==
  ASSUME TokenTypes, TokensInv, NEW t \in Tab, Login(t)
  PROVE  TokensInv' /\ TokenTypes'
<1>1. PICK n \in Issued : Issues(n, {}) /\ jar' = n
  BY DEF Login
<1>2. exchange' = [exchange EXCEPT ![t] = NoExchange] /\ exchange[t].at # "accepted"
      /\ sessionFaults' = sessionFaults
  BY DEF Login, Set, Quiet
<1>3. exchange'[t] = NoExchange /\ \A u \in Tab : u # t => exchange'[u] = exchange[u]
  BY <1>2 DEF TokenTypes
<1>4. /\ OnlyForward /\ refresh' \in [Issued -> Life]
      /\ refresh[n] = "unissued" /\ refresh'[n] = "live"
      /\ \A k \in Issued : k # n => refresh'[k] = refresh[k]
  BY <1>1, IssuedTokens
<1>5. JarInv'
  BY <1>1, <1>4 DEF JarInv, Known, Spent
<1>6. PastInv(t)'
  BY <1>3, NoExchangeIsOne, NumbersOfTokens DEF PastInv, Known
<1>7. ASSUME NEW u \in Tab, u # t PROVE PastInv(u)'
  BY <1>3, <1>4, <1>7, PastStays DEF TokensInv
<1>8. ASSUME NEW u \in Tab, exchange'[u].at = "accepted" PROVE WonInv(u)'
  <2>1. u # t /\ exchange'[u] = exchange[u] /\ WonInv(u) /\ exchange[u].at = "accepted"
    BY <1>3, <1>8, NoExchangeIsOne DEF TokensInv
  <2>2. /\ exchange[u].won \in Issued /\ exchange[u].won # n
        /\ refresh'[exchange[u].won] \in {"live", "ended"} /\ exchange[u].won # 0
    BY <1>4, <2>1, NumbersOfTokens DEF WonInv
  <2>3. QED
    BY <1>1, <1>3, <2>1, <2>2, NoExchangeIsOne DEF WonInv
<1>9. \A u \in Tab : WonInv(u)'
  BY <1>8 DEF WonInv
<1>10. TokenTypes'
  BY <1>1, <1>2, <1>4, NoExchangeIsOne, NumbersOfTokens DEF TokenTypes
<1>11. QED
  BY <1>5, <1>6, <1>7, <1>9, <1>10 DEF TokensInv

LEMMA AcceptedKeeps ==
  ASSUME TokenTypes, TokensInv, NEW t \in Tab, Accepted(t)
  PROVE  TokensInv' /\ TokenTypes'
<1> DEFINE c == exchange[t].cookie
<1>1. PICK n \in Issued : Rotate(t, n)
  BY DEF Accepted
<1> DEFINE new == [exchange[t] EXCEPT !.at = "accepted", !.won = n]
<1>2. /\ exchange[t] \in Exchange /\ exchange[t].at = "asking"
      /\ c \in Issued /\ refresh[c] = "live"
      /\ jar' = jar /\ sessionFaults' = sessionFaults
  BY NumbersOfTokens DEF Accepted, TokenTypes, Exchange
<1>3. Issues(n, {c}) /\ exchange' = [exchange EXCEPT ![t] = new]
  BY <1>1 DEF Rotate, Set
<1>4. /\ OnlyForward /\ refresh' \in [Issued -> Life]
      /\ refresh[n] = "unissued" /\ refresh'[n] = "live"
      /\ \A k \in Issued : k # n /\ k # c => refresh'[k] = refresh[k]
  BY <1>2, <1>3, IssuedTokens
<1>5. /\ new \in Exchange /\ new.at = "accepted" /\ new.won = n
      /\ new.cookie = c
  BY <1>2, NumbersOfTokens DEF Exchange
<1>6. exchange'[t] = new /\ \A u \in Tab : u # t => exchange'[u] = exchange[u]
  BY <1>3 DEF TokenTypes
<1>7. JarInv'
  <2>1. Known(jar)'
    BY <1>2, <1>4 DEF TokensInv, JarInv, Known, OnlyForward
  <2>2. CASE jar = c
    BY <1>2, <1>5, <1>6, <2>1, <2>2 DEF JarInv
  <2>3. CASE jar # c /\ jar \in Issued /\ refresh'[jar] = "spent"
    <3>1. Spent(jar)
      BY <1>4, <2>3 DEF Spent
    <3>2. PICK u \in Tab : exchange[u].at = "accepted" /\ exchange[u].cookie = jar
      BY <3>1 DEF TokensInv, JarInv
    <3>3. exchange'[u] = exchange[u]
      BY <1>2, <1>6, <3>2
    <3>4. QED
      BY <1>2, <2>1, <3>2, <3>3 DEF JarInv
  <2>4. CASE ~(jar \in Issued /\ refresh'[jar] = "spent")
    BY <1>2, <2>1, <2>4 DEF JarInv, Spent
  <2>5. QED
    BY <2>2, <2>3, <2>4
<1>8. PastInv(t)'
  BY <1>4, <1>5, <1>6 DEF TokensInv, PastInv, Known, OnlyForward
<1>9. ASSUME NEW u \in Tab, u # t PROVE PastInv(u)'
  BY <1>4, <1>6, <1>9, PastStays DEF TokensInv
<1>10. /\ jar # n
       /\ \A u \in Tab : exchange[u].cookie # n
  BY <1>4 DEF TokensInv, JarInv, PastInv, Known
<1>11. \A u \in Tab : exchange[u].at = "accepted" => exchange[u].won # n
  BY <1>4 DEF TokensInv, WonInv
<1>12. \A u \in Tab : /\ exchange'[u].cookie = exchange[u].cookie
                      /\ u # t => /\ exchange'[u].at = exchange[u].at
                                  /\ exchange'[u].won = exchange[u].won
  BY <1>5, <1>6
<1>17. WonInv(t)'
  <2>1. exchange'[t].won = n
    BY <1>5, <1>6
  <2>2. \A u \in Tab :
         /\ exchange'[u].cookie # n
         /\ exchange'[u].at = "accepted" /\ u # t => exchange'[u].won # n
    BY <1>10, <1>11, <1>12
  <2>3. QED
    BY <1>2, <1>4, <1>10, <2>1, <2>2 DEF WonInv
<1>13. ASSUME NEW u \in Tab, u # t, exchange'[u].at = "accepted" PROVE WonInv(u)'
  <2>1. exchange'[u] = exchange[u] /\ WonInv(u) /\ exchange[u].at = "accepted"
    BY <1>6, <1>13 DEF TokensInv
  <2>2. exchange[u].won # c /\ exchange[u].won # n /\ exchange[u].won \in Issued
    BY <1>11, <2>1 DEF WonInv
  <2>3. refresh'[exchange[u].won] \in {"live", "ended"}
    BY <1>4, <2>1, <2>2 DEF WonInv
  <2>4. exchange'[t].won # exchange[u].won
    BY <1>5, <1>6, <2>2
  <2>5. \A v \in Tab :
         /\ exchange'[v].cookie # exchange[u].won
         /\ exchange'[v].at = "accepted" /\ v # u => exchange'[v].won # exchange[u].won
    BY <1>12, <2>1, <2>4 DEF WonInv
  <2>6. QED
    BY <1>2, <2>1, <2>2, <2>3, <2>5 DEF WonInv
<1>14. \A u \in Tab : WonInv(u)'
  BY <1>17, <1>13 DEF WonInv
<1>15. TokenTypes'
  BY <1>2, <1>3, <1>4, <1>5 DEF TokenTypes
<1>16. QED
  BY <1>7, <1>8, <1>9, <1>14, <1>15 DEF TokensInv

LEMMA ArriveKeeps ==
  ASSUME TokenTypes, TokensInv, NEW t \in Tab, Arrive(t)
  PROVE  TokensInv' /\ TokenTypes'
<1> DEFINE n == exchange[t].won
<1>1. /\ exchange[t].at = "accepted" /\ jar' = n
      /\ exchange' = [exchange EXCEPT ![t] = NoExchange]
      /\ refresh' = refresh /\ sessionFaults' = sessionFaults
  BY DEF Arrive, Set
<1>2. exchange'[t] = NoExchange /\ \A u \in Tab : u # t => exchange'[u] = exchange[u]
  BY <1>1 DEF TokenTypes
<1>3. WonInv(t) /\ n \in Issued /\ refresh[n] \in {"live", "ended"}
  BY <1>1 DEF TokensInv, WonInv
<1>4. JarInv'
  BY <1>1, <1>3 DEF JarInv, Known, Spent
<1>5. PastInv(t)'
  BY <1>2, NoExchangeIsOne, NumbersOfTokens DEF PastInv, Known
<1>6. OnlyForward
  BY <1>1 DEF OnlyForward
<1>7. ASSUME NEW u \in Tab, u # t PROVE PastInv(u)'
  BY <1>2, <1>6, <1>7, PastStays DEF TokensInv
<1>8. ASSUME NEW u \in Tab, exchange'[u].at = "accepted" PROVE WonInv(u)'
  <2>1. u # t /\ exchange'[u] = exchange[u] /\ WonInv(u) /\ exchange[u].at = "accepted"
    BY <1>2, <1>8, NoExchangeIsOne DEF TokensInv
  <2>2. exchange[u].won # n /\ exchange[u].won # 0
    BY <1>1, <1>3, <2>1, NumbersOfTokens DEF WonInv
  <2>3. QED
    BY <1>1, <1>2, <2>1, <2>2, NoExchangeIsOne DEF WonInv
<1>9. \A u \in Tab : WonInv(u)'
  BY <1>8 DEF WonInv
<1>10. TokenTypes'
  BY <1>1, <1>3, NoExchangeIsOne, NumbersOfTokens DEF TokenTypes
<1>11. QED
  BY <1>4, <1>5, <1>7, <1>9, <1>10 DEF TokensInv

\* The steps about which the tokens do not care.
LEMMA QuietStepKeeps ==
  ASSUME TokenTypes, TokensInv, UNCHANGED <<refresh, jar, exchange>>
  PROVE  TokensInv'
  BY DEF TokensInv, JarInv, Known, Spent, WonInv, PastInv

LEMMA AskingKeeps ==
  ASSUME TokenTypes, TokensInv, NEW t \in Tab, Set(t, Asking),
         UNCHANGED <<refresh, jar>>, exchange[t].at # "accepted"
  PROVE  TokensInv'
<1>1. /\ Asking \in Exchange /\ Asking.at = "asking" /\ Asking.attempt = 1
      /\ Asking.cookie = jar
  BY AskingIsOne DEF TokenTypes
<1>2. QED
  BY <1>1, SetKeeps

LEMMA TurnedAwayIsOne ==
  ASSUME NEW x \in Exchange
  PROVE  /\ TurnedAway(x) \in Exchange /\ TurnedAway(x).cookie = 0
         /\ TurnedAway(x).at # "accepted"
  BY NoExchangeIsOne, NumbersOfTokens DEF TurnedAway, NoExchange, Exchange

\* One tab's exchange goes on without an answer being taken.
LEMMA ExchangeStepKeeps ==
  ASSUME TokenTypes, TokensInv, NEW t \in Tab, Refused(t) \/ AskAgain(t) \/ GiveUp(t)
  PROVE  TokensInv' /\ \E new \in Exchange : Set(t, new)
<1>0. exchange[t] \in Exchange /\ refresh' = refresh /\ jar' = jar
  BY DEF TokenTypes, Refused, AskAgain, GiveUp
<1>1. CASE Refused(t)
  <2>1. Set(t, TurnedAway(exchange[t])) /\ exchange[t].at = "asking"
    BY <1>1 DEF Refused
  <2>2. QED
    BY <1>0, <2>1, TurnedAwayIsOne, SetKeeps
<1>2. CASE AskAgain(t)
  <2> DEFINE new == [exchange[t] EXCEPT !.at = "asking", !.attempt = 2, !.cookie = jar]
  <2>1. new \in Exchange /\ new.at = "asking" /\ new.cookie = jar
    <3>1. 2 \in 1 .. 2 /\ jar \in 0 .. MaxIssued
      BY DEF TokenTypes
    <3>2. QED
      BY <1>0, <3>1 DEF Exchange
  <2>2. Set(t, new) /\ exchange[t].at = "resting"
    BY <1>2 DEF AskAgain
  <2> HIDE DEF new
  <2>3. QED
    BY <1>0, <2>1, <2>2, SetKeeps
<1>3. CASE GiveUp(t)
  <2>1. Set(t, NoExchange) /\ exchange[t].at = "refused"
    BY <1>3 DEF GiveUp, Fails
  <2>2. QED
    BY <1>0, <2>1, NoExchangeIsOne, SetKeeps
<1>4. QED
  BY <1>1, <1>2, <1>3

\* The steps that change nothing but the calls, or who has which token.
LEMMA OtherTypesStay ==
  ASSUME TokenTypes, UNCHANGED <<refresh, jar, sessionFaults>>,
         \/ exchange' = exchange
         \/ \E t \in Tab, new \in Exchange : Set(t, new)
  PROVE  TokenTypes'
  BY DEF TokenTypes, Set

LEMMA SessionStart == SessionInit => SessionInv
<1> SUFFICES ASSUME SessionInit PROVE SessionInv
  OBVIOUS
<1>1. TokenTypes
  BY NoExchangeIsOne, NumbersOfTokens DEF SessionInit, TokenTypes, Life
<1>2. JarInv
  BY NumbersOfTokens DEF SessionInit, JarInv, Known, Spent
<1>3. ASSUME NEW t \in Tab PROVE WonInv(t) /\ PastInv(t)
  <2>1. exchange[t] = NoExchange
    BY DEF SessionInit
  <2>2. QED
    BY <2>1, NoExchangeIsOne, NumbersOfTokens DEF WonInv, PastInv, Known
<1>4. QED
  BY <1>1, <1>2, <1>3 DEF SessionInv, TokensInv, TokenTypes

\* While nothing fails, every step keeps the invariant.
LEMMA FaultlessStep ==
  ASSUME TokenTypes, TokensInv, SessionNext, sessionFaults' = 0, sessionFaults = 0
  PROVE  TokenTypes' /\ TokensInv'
<1>1. ASSUME NEW t \in Tab, SignOut(t) PROVE TokenTypes' /\ TokensInv'
  BY <1>1, QuietStepKeeps, OtherTypesStay DEF SignOut
<1>2. ASSUME NEW t \in Tab, NEW c \in Call,
             SendCall(t, c) \/ CallAnswered(t, c) \/ CallRefusedAgain(t, c)
      PROVE  TokenTypes' /\ TokensInv'
  BY <1>2, QuietStepKeeps, OtherTypesStay DEF SendCall, CallAnswered, CallRefusedAgain
<1>3. ASSUME NEW n \in Issued, Expire(n) PROVE TokenTypes' /\ TokensInv'
  BY <1>3, QuietStepKeeps, OtherTypesStay DEF Expire
<1>4. ASSUME NEW t \in Tab, Load(t) PROVE TokenTypes' /\ TokensInv'
  <2>1. /\ Set(t, Asking) /\ UNCHANGED <<refresh, jar, sessionFaults>>
        /\ exchange[t].at # "accepted"
    BY <1>4 DEF Load, Quiet
  <2>2. Asking \in Exchange
    BY AskingIsOne DEF TokenTypes
  <2>3. QED
    BY <2>1, <2>2, AskingKeeps, OtherTypesStay
<1>5. ASSUME NEW t \in Tab, NEW c \in Call, CallRefused(t, c)
      PROVE  TokenTypes' /\ TokensInv'
  <2>1. UNCHANGED <<refresh, jar, sessionFaults>>
    BY <1>5 DEF CallRefused
  <2>2. Asking \in Exchange
    BY AskingIsOne DEF TokenTypes
  <2>3. CASE exchange[t].at = "none" /\ Set(t, Asking)
    BY <2>1, <2>2, <2>3, AskingKeeps, OtherTypesStay
  <2>4. CASE UNCHANGED exchange
    BY <2>1, <2>4, QuietStepKeeps, OtherTypesStay
  <2>5. QED
    BY <1>5, <2>3, <2>4 DEF CallRefused
<1>6. ASSUME NEW t \in Tab, Leave(t) PROVE TokenTypes' /\ TokensInv'
  <2>1. /\ Set(t, NoExchange) /\ jar' = 0 /\ sessionFaults' = sessionFaults
        /\ exchange[t].at # "accepted"
    BY <1>6 DEF Leave, Quiet
  <2>2. /\ refresh' \in [Issued -> Life]
        /\ \A k \in Issued : \/ refresh'[k] = refresh[k]
                             \/ refresh[k] = "live" /\ refresh'[k] = "ended"
    BY <1>6 DEF Leave, TokenTypes, Life
  <2>3. TokensInv'
    BY <2>1, <2>2, LeaveTokensKeeps
  <2>4. exchange' \in [Tab -> Exchange]
    BY <2>1, NoExchangeIsOne DEF TokenTypes, Set
  <2>5. QED
    BY <2>1, <2>2, <2>3, <2>4, NumbersOfTokens DEF TokenTypes
<1>7. ASSUME NEW t \in Tab, Refused(t) \/ AskAgain(t) \/ GiveUp(t)
      PROVE  TokenTypes' /\ TokensInv'
  <2>1. TokensInv' /\ \E new \in Exchange : Set(t, new)
    BY <1>7, ExchangeStepKeeps
  <2>2. UNCHANGED <<refresh, jar, sessionFaults>>
    BY <1>7 DEF Refused, AskAgain, GiveUp
  <2>3. QED
    BY <2>1, <2>2, OtherTypesStay
<1>8. ASSUME NEW t \in Tab, LoseAnswer(t) \/ SpentInVain(t) PROVE FALSE
  BY <1>8 DEF LoseAnswer, SpentInVain
<1>9. ~CookieExpires
  BY DEF CookieExpires
<1>10. QED
  BY <1>1, <1>2, <1>3, <1>4, <1>5, <1>6, <1>7, <1>8, <1>9,
     LoginKeeps, AcceptedKeeps, ArriveKeeps DEF SessionNext

\* oidc.rs: "the token just spent is dead and the answer carries its
\* replacement" - and until it is there, nobody but the tab that waits for it
\* has either: sharing the cookie loses nobody the session, for any number of
\* tabs, calls and tokens.
THEOREM SessionIsKept == SessionSpec => []SpentIsReplaced
<1>1. SessionInv /\ [SessionNext]_sessionVars => SessionInv'
  <2> SUFFICES ASSUME SessionInv, [SessionNext]_sessionVars PROVE SessionInv'
    OBVIOUS
  <2>1. sessionFaults' = sessionFaults \/ sessionFaults' = sessionFaults + 1
    BY ZenonT(30) DEF SessionNext, Login, Load, SignOut, Leave, SendCall, CallAnswered, CallRefused,
           CallRefusedAgain, Accepted, Refused, Arrive, GiveUp, AskAgain,
           LoseAnswer, SpentInVain, Expire, CookieExpires, sessionVars
  <2>2. sessionFaults' \in Nat /\ (sessionFaults' = 0 => sessionFaults = 0)
    BY <2>1 DEF SessionInv
  <2>3. CASE UNCHANGED sessionVars
    BY <2>3, QuietStepKeeps DEF SessionInv, sessionVars, TokenTypes
  <2>4. CASE SessionNext
    BY <2>2, <2>4, FaultlessStep DEF SessionInv
  <2>5. QED
    BY <2>3, <2>4
<1>2. SessionInv => SpentIsReplaced
  <2> SUFFICES ASSUME TokensInv, Spent(jar) PROVE SpentIsReplaced
    BY DEF SessionInv, SpentIsReplaced
  <2>1. PICK t \in Tab : exchange[t].at = "accepted" /\ exchange[t].cookie = jar
    BY DEF TokensInv, JarInv
  <2>2. WonInv(t)
    BY DEF TokensInv
  <2>3. QED
    BY <2>1, <2>2 DEF WonInv, SpentIsReplaced
<1>3. QED
  BY <1>1, <1>2, SessionStart, PTL DEF SessionSpec

\* Types, whatever was lost: unlike the invariant they do not depend on the
\* faults.
LEMMA CallTypes ==
  ASSUME SessionTypeOK, NEW t \in Tab
  PROVE  /\ NoCalls \in [Call -> ApiCall] /\ open[t] \in [Call -> ApiCall]
         /\ \A n \in 0 .. MaxIssued : Resent(t, n) \in [Call -> ApiCall]
<1>1. 0 \in 0 .. MaxIssued
  BY SessionAssumption
<1>2. NoCalls \in [Call -> ApiCall]
  BY <1>1 DEF NoCalls, ApiCall
<1>3. open[t] \in [Call -> ApiCall]
  BY DEF SessionTypeOK
<1>4. ASSUME NEW n \in 0 .. MaxIssued PROVE Resent(t, n) \in [Call -> ApiCall]
  <2>1. [at |-> "resent", token |-> n] \in ApiCall
    BY <1>4 DEF ApiCall
  <2> QED
    BY <1>3, <2>1 DEF Resent
<1> QED
  BY <1>2, <1>3, <1>4

\* An exchange that fails leaves types as they are.
LEMMA FailsTypes ==
  ASSUME SessionTypeOK, NEW t \in Tab, Fails(t)
  PROVE  /\ exchange' \in [Tab -> Exchange] /\ token' \in [Tab -> 0 .. MaxIssued]
         /\ open' \in [Tab -> [Call -> ApiCall]]
<1>1. exchange' \in [Tab -> Exchange]
  BY NoExchangeIsOne DEF Fails, Set, SessionTypeOK
<1>2. token' \in [Tab -> 0 .. MaxIssued]
  BY NumbersOfTokens DEF Fails, SessionTypeOK
<1>3. open' \in [Tab -> [Call -> ApiCall]]
  <2> DEFINE kept == [c \in Call |->
               IF open[t][c].at = "waiting" THEN NoCalls[c] ELSE open[t][c]]
  <2>1. kept \in [Call -> ApiCall]
    BY CallTypes
  <2>2. open' = [open EXCEPT ![t] = kept]
    BY DEF Fails
  <2> HIDE DEF kept
  <2> QED
    BY <2>1, <2>2 DEF SessionTypeOK
<1> QED
  BY <1>1, <1>2, <1>3

\* What the page does by itself.
LEMMA PageTypes ==
  ASSUME SessionTypeOK, NEW t \in Tab,
         Login(t) \/ Load(t) \/ SignOut(t) \/ Leave(t)
  PROVE  SessionTypeOK'
<1>1. CASE Login(t)
  <2>1. PICK n \in Issued : Issues(n, {}) /\ jar' = n /\ token' = [token EXCEPT ![t] = n]
    BY <1>1 DEF Login
  <2>2. refresh' \in [Issued -> Life] /\ good' \subseteq Issued
    BY <2>1 DEF Issues, SessionTypeOK, Life
  <2> QED
    BY <1>1, <2>1, <2>2, CallTypes, NumbersOfTokens, NoExchangeIsOne
    DEF Login, Set, SessionTypeOK
<1>2. CASE Load(t)
  BY <1>2, AskingIsOne, CallTypes, NumbersOfTokens DEF Load, Set, SessionTypeOK
<1>3. CASE SignOut(t)
  BY <1>3, NumbersOfTokens DEF SignOut, SessionTypeOK
<1>4. CASE Leave(t)
  <2>1. refresh' \in [Issued -> Life]
    BY <1>4 DEF Leave, SessionTypeOK, Life
  <2> QED
    BY <1>4, <2>1, NoExchangeIsOne, CallTypes, NumbersOfTokens DEF Leave, Set, SessionTypeOK
<1> QED
  BY <1>1, <1>2, <1>3, <1>4

LEMMA CallStepTypes ==
  ASSUME SessionTypeOK, NEW t \in Tab, NEW c \in Call,
         \/ SendCall(t, c) \/ CallAnswered(t, c)
         \/ CallRefused(t, c) \/ CallRefusedAgain(t, c)
  PROVE  SessionTypeOK'
<1>1. /\ \A n \in 0 .. MaxIssued : [at |-> "sent", token |-> n] \in ApiCall
      /\ [at |-> "waiting", token |-> 0] \in ApiCall
      /\ NoCalls[c] \in ApiCall
  BY NumbersOfTokens, CallTypes DEF ApiCall
<1>2. \A new \in ApiCall : [open EXCEPT ![t][c] = new] \in [Tab -> [Call -> ApiCall]]
  BY DEF SessionTypeOK
<1>3. CASE SendCall(t, c)
  <2>1. [at |-> "sent", token |-> token[t]] \in ApiCall
    BY <1>1 DEF SessionTypeOK
  <2>2. open' \in [Tab -> [Call -> ApiCall]]
    BY <1>2, <1>3, <2>1 DEF SendCall
  <2> QED
    BY <1>3, <2>2 DEF SendCall, SessionTypeOK
<1>4. CASE CallAnswered(t, c)
  <2>1. open' \in [Tab -> [Call -> ApiCall]]
    BY <1>1, <1>2, <1>4 DEF CallAnswered
  <2> QED
    BY <1>4, <2>1 DEF CallAnswered, SessionTypeOK
<1>5. CASE CallRefused(t, c)
  <2>1. open' \in [Tab -> [Call -> ApiCall]]
    BY <1>1, <1>2, <1>5 DEF CallRefused
  <2>2. exchange' \in [Tab -> Exchange]
    BY <1>5, AskingIsOne DEF CallRefused, Set, SessionTypeOK
  <2> QED
    BY <1>5, <2>1, <2>2 DEF CallRefused, SessionTypeOK
<1>6. CASE CallRefusedAgain(t, c)
  <2>1. open' \in [Tab -> [Call -> ApiCall]]
    BY <1>1, <1>2, <1>6 DEF CallRefusedAgain
  <2> QED
    BY <1>6, <2>1, NumbersOfTokens DEF CallRefusedAgain, SessionTypeOK
<1> QED
  BY <1>3, <1>4, <1>5, <1>6

LEMMA ExchangeStepTypes ==
  ASSUME SessionTypeOK, NEW t \in Tab,
         \/ Accepted(t) \/ Refused(t) \/ Arrive(t) \/ GiveUp(t)
         \/ AskAgain(t) \/ LoseAnswer(t) \/ SpentInVain(t)
  PROVE  SessionTypeOK'
<1>0. exchange[t] \in Exchange /\ jar \in 0 .. MaxIssued /\ 2 \in 1 .. 2
  BY DEF SessionTypeOK
<1>1. CASE Accepted(t)
  <2>1. PICK n \in Issued : Rotate(t, n)
    BY <1>1 DEF Accepted
  <2>2. refresh' \in [Issued -> Life] /\ good' \subseteq Issued
    BY <2>1 DEF Rotate, Issues, SessionTypeOK, Life
  <2>3. [exchange[t] EXCEPT !.at = "accepted", !.won = n] \in Exchange
    BY <1>0, NumbersOfTokens DEF Exchange
  <2>4. exchange' \in [Tab -> Exchange]
    BY <2>1, <2>3 DEF Rotate, Set, SessionTypeOK
  <2> QED
    BY <1>1, <2>2, <2>4 DEF Accepted, SessionTypeOK
<1>2. CASE Refused(t) \/ AskAgain(t) \/ SpentInVain(t)
  <2>1. /\ TurnedAway(exchange[t]) \in Exchange
        /\ [exchange[t] EXCEPT !.at = "asking", !.attempt = 2, !.cookie = jar] \in Exchange
    BY <1>0, TurnedAwayIsOne DEF Exchange
  <2>2. exchange' \in [Tab -> Exchange]
    BY <1>2, <2>1 DEF Refused, AskAgain, SpentInVain, Set, SessionTypeOK
  <2>3. sessionFaults' \in 0 .. MaxSessionFaults
    BY <1>2, SessionAssumption DEF Refused, AskAgain, SpentInVain, SessionTypeOK
  <2> QED
    BY <1>2, <2>2, <2>3 DEF Refused, AskAgain, SpentInVain, SessionTypeOK
<1>3. CASE Arrive(t)
  <2>1. exchange[t].won \in 0 .. MaxIssued
    BY <1>0 DEF Exchange
  <2>2. Resent(t, exchange[t].won) \in [Call -> ApiCall]
    BY <2>1, CallTypes
  <2> QED
    BY <1>3, <2>1, <2>2, NoExchangeIsOne DEF Arrive, Set, SessionTypeOK
<1>4. CASE GiveUp(t)
  BY <1>4, FailsTypes DEF GiveUp, SessionTypeOK
<1>5. CASE LoseAnswer(t)
  <2>1. jar' \in 0 .. MaxIssued
    BY <1>0, <1>5 DEF LoseAnswer, Exchange
  <2>2. sessionFaults' \in 0 .. MaxSessionFaults
    BY <1>5, SessionAssumption DEF LoseAnswer, SessionTypeOK
  <2> QED
    BY <1>5, <2>1, <2>2, FailsTypes DEF LoseAnswer, SessionTypeOK
<1> QED
  BY <1>1, <1>2, <1>3, <1>4, <1>5

LEMMA SessionTypes == SessionSpec => []SessionTypeOK
<1>1. SessionInit => SessionTypeOK
  <2> SUFFICES ASSUME SessionInit PROVE SessionTypeOK
    OBVIOUS
  <2>1. NoCalls \in [Call -> ApiCall]
    BY NumbersOfTokens DEF NoCalls, ApiCall
  <2>2. sessionFaults \in 0 .. MaxSessionFaults
    BY SessionAssumption DEF SessionInit
  <2> QED
    BY <2>1, <2>2, NoExchangeIsOne, NumbersOfTokens DEF SessionInit, SessionTypeOK, Life
<1>2. SessionTypeOK /\ [SessionNext]_sessionVars => SessionTypeOK'
  <2> SUFFICES ASSUME SessionTypeOK, [SessionNext]_sessionVars PROVE SessionTypeOK'
    OBVIOUS
  <2>1. ASSUME NEW n \in Issued, Expire(n) PROVE SessionTypeOK'
    BY <2>1 DEF Expire, SessionTypeOK
  <2>2. CASE CookieExpires
    BY <2>2, SessionAssumption, NumbersOfTokens DEF CookieExpires, SessionTypeOK
  <2>3. CASE UNCHANGED sessionVars
    BY <2>3 DEF sessionVars, SessionTypeOK
  <2> QED
    BY <2>1, <2>2, <2>3, PageTypes, CallStepTypes, ExchangeStepTypes DEF SessionNext
<1> QED
  BY <1>1, <1>2, PTL DEF SessionSpec

-----------------------------------------------------------------------------
(* Notices.                                                                *)

SameWords(report, block) ==
  report.status = block.status /\ report.diagnostic = block.diagnostic

\* The blocks so far, the one that is being read included.
All == reports \o current

\* The relay's blocks are the first ones, as it wrote them - but for the words
\* of the last, once the returned text has words - and each with the queue id
\* that was known when it began.
BlocksInv ==
  /\ Len(meant) <= Len(All) /\ ("recipient" \notin quoted => Len(All) = Len(meant))
  /\ \A i \in DOMAIN meant :
       /\ i < Len(meant) \/ quoted \cap (Code \cup Words) = {} => SameWords(All[i], meant[i])
       /\ All[i].id = IF meant[i].named THEN "own" ELSE "none"
       /\ meant[i].named => named

NoticesInv ==
  /\ NoticesTypeOK
  /\ part # "text" => quoted = {}
  /\ quoted \cap {"own", "foreign"} = {} => queueId = IF named THEN "own" ELSE "none"
  /\ current = << >> <=> part = "head"
  /\ BlocksInv

LEMMA NoticesStart == NoticesInit => NoticesInv
<1> SUFFICES ASSUME NoticesInit PROVE NoticesInv
  OBVIOUS
<1>1. NoticesTypeOK
  <2>1. named \in BOOLEAN /\ quoted \subseteq Field /\ queueId \in QueueId
    BY Zenon DEF NoticesInit, QueueId
  <2>2. lines \in 0 .. MaxLines
    BY NoticesAssumption DEF NoticesInit
  <2>3. meant \in Seq(Block) /\ reports \in Seq(Report)
    BY DEF NoticesInit
  <2>4. part \in {"head", "blocks", "text"} /\ current = << >>
    BY DEF NoticesInit
  <2>5. QED
    BY <2>1, <2>2, <2>3, <2>4, Zenon DEF NoticesTypeOK
<1>2. BlocksInv
  <2>1. All = << >> /\ meant = << >>
    BY DEF NoticesInit, All
  <2>2. QED
    BY <2>1 DEF BlocksInv
<1>3. queueId = IF named THEN "own" ELSE "none"
  BY Zenon DEF NoticesInit
<1>4. QED
  BY <1>1, <1>2, <1>3 DEF NoticesInit, NoticesInv

\* A block being read is one report.
LEMMA CurrentIsOne ==
  ASSUME NoticesTypeOK, current # << >>
  PROVE  \E r \in Report : current = <<r>>
  BY DEF NoticesTypeOK

LEMMA AllAreReports ==
  ASSUME NoticesTypeOK
  PROVE  /\ All \in Seq(Report) /\ meant \in Seq(Block)
         /\ Len(All) = Len(reports) + Len(current)
<1>1. reports \in Seq(Report) /\ meant \in Seq(Block)
  BY DEF NoticesTypeOK
<1>2. CASE current = << >>
  BY <1>1, <1>2 DEF All
<1>3. CASE current # << >>
  <2>1. PICK r \in Report : current = <<r>>
    BY <1>3, CurrentIsOne
  <2>2. QED
    BY <1>1, <2>1 DEF All
<1>4. QED
  BY <1>2, <1>3

LEMMA BlocksAreRead == NoticesInv => EachByItsOwnBlock
<1> SUFFICES ASSUME NoticesInv PROVE EachByItsOwnBlock
  OBVIOUS
<1>0. /\ NoticesTypeOK /\ BlocksInv /\ All \in Seq(Report) /\ meant \in Seq(Block)
  BY AllAreReports DEF NoticesInv
<1>1. Parsed = [i \in DOMAIN All |-> Filled(All[i])]
  BY DEF Parsed, All
<1>2. DOMAIN All = 1 .. Len(All) /\ Len(All) \in Nat /\ Len(meant) \in Nat
      /\ DOMAIN meant = 1 .. Len(meant)
  BY <1>0
<1>3. Parsed = [i \in 1 .. Len(All) |-> Filled(All[i])]
  BY <1>1, <1>2
<1> HIDE DEF All
<1>4. Len(Parsed) = Len(All)
  BY <1>2, <1>3
<1>5. ASSUME NEW i \in DOMAIN meant
      PROVE  /\ meant[i].named \/ quoted \cap {"own", "foreign"} = {} =>
                  Parsed[i].id = IF named THEN "own" ELSE "none"
             /\ i < Len(meant) \/ quoted \cap (Code \cup Words) = {} =>
                  (ShouldSuppress(Parsed[i]) <=> SaysGone(meant[i]))
  <2>1. i \in 1 .. Len(All) /\ All[i] \in Report /\ Parsed[i] = Filled(All[i])
    <3>0. Len(meant) <= Len(All)
      BY <1>0 DEF BlocksInv
    <3>1. i \in 1 .. Len(All)
      BY <1>2, <3>0
    <3>2. All[i] \in Report
      BY <1>0, <3>1
    <3>3. Parsed[i] = Filled(All[i])
      BY <1>3, <3>1
    <3>4. QED
      BY <3>1, <3>2, <3>3
  <2>2. /\ Parsed[i].status = All[i].status /\ Parsed[i].diagnostic = All[i].diagnostic
        /\ Parsed[i].id = IF All[i].id = "none" THEN queueId ELSE All[i].id
    BY <2>1 DEF Filled, Report
  <2>3. /\ i < Len(meant) \/ quoted \cap (Code \cup Words) = {} =>
             SameWords(All[i], meant[i])
        /\ All[i].id = IF meant[i].named THEN "own" ELSE "none"
        /\ meant[i].named => named
    BY <1>0 DEF BlocksInv
  <2>4. quoted \cap {"own", "foreign"} = {} => queueId = IF named THEN "own" ELSE "none"
    BY DEF NoticesInv
  <2>5. meant[i].named \/ quoted \cap {"own", "foreign"} = {} =>
          Parsed[i].id = IF named THEN "own" ELSE "none"
    BY <2>2, <2>3, <2>4
  <2>6. i < Len(meant) \/ quoted \cap (Code \cup Words) = {} =>
          (ShouldSuppress(Parsed[i]) <=> SaysGone(meant[i]))
    BY <2>2, <2>3 DEF ShouldSuppress, SaysGone, SameWords
  <2>7. QED
    BY <2>5, <2>6
<1>6. QED
  BY <1>0, <1>4, <1>5 DEF EachByItsOwnBlock, BlocksInv

\* Which turn of the loop a line is.
LEMMA Turns ==
  /\ \A id \in {"own", "foreign"} : Parse(id) => queueId' = id /\ UNCHANGED <<reports, current>>
  /\ Parse("recipient") =>
       /\ reports' = reports \o current
       /\ current' = <<[status |-> "none", diagnostic |-> "none", id |-> queueId]>>
       /\ UNCHANGED queueId
  /\ \A code \in Code : Parse(code) => File("status", code)
  /\ \A words \in Words : Parse(words) => File("diagnostic", words)
<1>1. \A id \in {"own", "foreign"} : Parse(id) => queueId' = id /\ UNCHANGED <<reports, current>>
  BY DEF Parse, Code, Words
<1>2. Parse("recipient") =>
       /\ reports' = reports \o current
       /\ current' = <<[status |-> "none", diagnostic |-> "none", id |-> queueId]>>
       /\ UNCHANGED queueId
  BY DEF Parse, Code, Words
<1>3. \A code \in Code : Parse(code) => File("status", code)
  BY DEF Parse, Code, Words
<1>4. \A words \in Words : Parse(words) => File("diagnostic", words)
  BY DEF Parse, Code, Words
<1>5. QED
  BY <1>1, <1>2, <1>3, <1>4

\* A new block comes after all the others, with the queue id known by then.
LEMMA RecipientParsed ==
  ASSUME NoticesTypeOK, Parse("recipient")
  PROVE  \E next \in Report :
           /\ next.status = "none" /\ next.diagnostic = "none" /\ next.id = queueId
           /\ current' = <<next>> /\ reports' \in Seq(Report) /\ queueId' = queueId
           /\ All' = Append(All, next)
<1> DEFINE next == [status |-> "none", diagnostic |-> "none", id |-> queueId]
<1>1. next \in Report /\ next.status = "none" /\ next.diagnostic = "none" /\ next.id = queueId
  BY DEF NoticesTypeOK, Report
<1>2. reports' = All /\ current' = <<next>> /\ queueId' = queueId
  BY Turns DEF All
<1> HIDE DEF next
<1>3. All \in Seq(Report)
  BY AllAreReports
<1>4. All' = reports' \o current'
  BY DEF All
<1>5. All' = Append(All, next)
  BY <1>1, <1>2, <1>3, <1>4
<1>6. QED
  BY <1>1, <1>2, <1>3, <1>5

\* A status or words change the block being read, and nothing else.
LEMMA FieldParsed ==
  ASSUME NoticesTypeOK, current # << >>, NEW field \in Code \cup Words, Parse(field)
  PROVE  \E next \in Report :
           /\ current' = <<next>> /\ next.id = All[Len(All)].id
           /\ field \in Code =>
                next.status = field /\ next.diagnostic = All[Len(All)].diagnostic
           /\ field \in Words =>
                next.diagnostic = field /\ next.status = All[Len(All)].status
           /\ All' = [All EXCEPT ![Len(All)] = next] /\ UNCHANGED <<queueId, reports>>
<1>1. PICK last \in Report : current = <<last>>
  BY CurrentIsOne
<1>2. reports \in Seq(Report)
  BY DEF NoticesTypeOK
<1>3. /\ All \in Seq(Report) /\ Len(All) = Len(reports) + 1 /\ All[Len(All)] = last
      /\ \A i \in 1 .. Len(reports) : All[i] = reports[i]
  BY <1>1, <1>2 DEF All
<1>4. ASSUME NEW next \in Report, current' = <<next>>, UNCHANGED reports
      PROVE  All' = [All EXCEPT ![Len(All)] = next]
  <2>1. All' = reports \o <<next>>
    BY <1>4 DEF All
  <2>2. /\ All' \in Seq(Report) /\ Len(All') = Len(reports) + 1 /\ All'[Len(reports) + 1] = next
        /\ \A i \in 1 .. Len(reports) : All'[i] = reports[i]
    BY <1>2, <2>1
  <2> HIDE DEF All
  <2>3. QED
    BY <1>2, <1>3, <2>2
<1>5. CASE field \in Code
  <2> DEFINE next == [last EXCEPT !.status = field]
  <2>1. File("status", field)
    BY <1>5, Turns
  <2>2. current' = <<next>> /\ UNCHANGED <<queueId, reports>>
    BY <1>1, <2>1 DEF File
  <2>3. /\ next \in Report /\ next.status = field
        /\ next.diagnostic = last.diagnostic /\ next.id = last.id
    BY <1>5 DEF Report
  <2>4. field \notin Words
    BY <1>5 DEF Code, Words
  <2> HIDE DEF next
  <2>5. QED
    BY <1>3, <1>4, <2>2, <2>3, <2>4
<1>6. CASE field \in Words
  <2> DEFINE next == [last EXCEPT !.diagnostic = field]
  <2>1. File("diagnostic", field)
    BY <1>6, Turns
  <2>2. current' = <<next>> /\ UNCHANGED <<queueId, reports>>
    BY <1>1, <2>1 DEF File
  <2>3. /\ next \in Report /\ next.diagnostic = field
        /\ next.status = last.status /\ next.id = last.id
    BY <1>6 DEF Report
  <2>4. field \notin Code
    BY <1>6 DEF Code, Words
  <2> HIDE DEF next
  <2>5. QED
    BY <1>3, <1>4, <2>2, <2>3, <2>4
<1>7. QED
  BY <1>5, <1>6

LEMMA QueueIdKeeps ==
  ASSUME NoticesInv, WriteQueueId, lines' \in 0 .. MaxLines
  PROVE  NoticesInv'
<1>1. /\ queueId' = "own" /\ named' = TRUE /\ part # "text"
      /\ UNCHANGED <<reports, current, part, meant, quoted>>
  BY Turns DEF WriteQueueId
<1>2. NoticesTypeOK'
  BY <1>1, Zenon DEF NoticesInv, NoticesTypeOK, QueueId
<1>3. All' = All
  BY <1>1 DEF All
<1>4. BlocksInv'
  BY <1>1, <1>3 DEF NoticesInv, BlocksInv
<1>5. QED
  BY <1>1, <1>2, <1>4 DEF NoticesInv

\* The relay opens the block of its next recipient.
LEMMA RecipientKeeps ==
  ASSUME NoticesInv, WriteRecipient, lines' \in 0 .. MaxLines
  PROVE  NoticesInv'
<1> DEFINE block == [status |-> "none", diagnostic |-> "none", named |-> named]
<1>0. /\ NoticesTypeOK /\ BlocksInv /\ All \in Seq(Report) /\ meant \in Seq(Block)
  BY AllAreReports DEF NoticesInv
<1>1. /\ part' = "blocks" /\ meant' = Append(meant, block) /\ part # "text"
      /\ UNCHANGED <<named, quoted>> /\ Parse("recipient")
  BY DEF WriteRecipient
<1>2. PICK next \in Report :
        /\ next.status = "none" /\ next.diagnostic = "none" /\ next.id = queueId
        /\ current' = <<next>> /\ reports' \in Seq(Report) /\ queueId' = queueId
        /\ All' = Append(All, next)
  BY <1>0, <1>1, RecipientParsed
<1>3. block \in Block /\ block.status = "none" /\ block.diagnostic = "none"
  BY <1>0, Zenon DEF NoticesTypeOK, Block
<1>4. block.named = named
  BY Zenon
<1> HIDE DEF block
<1>5. quoted = {} /\ queueId = (IF named THEN "own" ELSE "none")
  BY <1>1 DEF NoticesInv
<1>6. Len(All) = Len(meant)
  BY <1>0, <1>5 DEF BlocksInv
<1>7. /\ meant' \in Seq(Block) /\ Len(meant') = Len(meant) + 1 /\ meant'[Len(meant) + 1] = block
      /\ \A i \in 1 .. Len(meant) : meant'[i] = meant[i]
  BY <1>0, <1>1, <1>3
<1> HIDE DEF All
<1>8. /\ Len(All') = Len(meant) + 1 /\ All'[Len(meant) + 1] = next
      /\ \A i \in 1 .. Len(meant) : All'[i] = All[i]
  BY <1>0, <1>2, <1>6
<1>9. ASSUME NEW i \in DOMAIN meant'
      PROVE  /\ SameWords(All'[i], meant'[i])
             /\ All'[i].id = IF meant'[i].named THEN "own" ELSE "none"
             /\ meant'[i].named => named'
  <2>1. CASE i = Len(meant) + 1
    BY <1>1, <1>2, <1>3, <1>4, <1>5, <1>7, <1>8, <2>1 DEF SameWords
  <2>2. CASE i # Len(meant) + 1
    <3>1. i \in 1 .. Len(meant) /\ i \in DOMAIN meant
      BY <1>0, <1>7, <2>2
    <3>2. All'[i] = All[i] /\ meant'[i] = meant[i]
      BY <1>7, <1>8, <3>1
    <3>3. /\ SameWords(All[i], meant[i])
          /\ All[i].id = IF meant[i].named THEN "own" ELSE "none"
          /\ meant[i].named => named
      BY <1>0, <1>5, <3>1 DEF BlocksInv
    <3>4. QED
      BY <1>1, <3>2, <3>3
  <2>3. QED
    BY <2>1, <2>2
<1>10. BlocksInv'
  BY <1>0, <1>7, <1>8, <1>9 DEF BlocksInv
<1>11. NoticesTypeOK'
  <2>1. current' \in {<<r>> : r \in Report}
    BY <1>2
  <2>2. QED
    BY <1>0, <1>1, <1>2, <1>7, <2>1, Zenon DEF NoticesTypeOK
<1>12. QED
  BY <1>1, <1>2, <1>5, <1>10, <1>11 DEF NoticesInv

\* The relay writes a status or words for the recipient at hand.
LEMMA FieldKeeps ==
  ASSUME NoticesInv, NEW field \in Code \cup Words, lines' \in 0 .. MaxLines,
         \/ field \in Code  /\ WriteField("status", field)
         \/ field \in Words /\ WriteField("diagnostic", field)
  PROVE  NoticesInv'
<1> DEFINE n == Len(meant)
<1>0. /\ NoticesTypeOK /\ BlocksInv /\ All \in Seq(Report) /\ meant \in Seq(Block)
  BY AllAreReports DEF NoticesInv
<1>1. part = "blocks" /\ UNCHANGED <<part, named, quoted>> /\ Parse(field)
  BY DEF WriteField
<1>2. quoted = {} /\ current # << >> /\ queueId = (IF named THEN "own" ELSE "none")
  BY <1>1 DEF NoticesInv
<1>3. Len(All) = n /\ n \in Nat
  BY <1>0, <1>2 DEF BlocksInv
<1>4. n # 0
  <2>1. PICK r \in Report : current = <<r>>
    BY <1>0, <1>2, CurrentIsOne
  <2>2. Len(All) = Len(reports) + 1 /\ reports \in Seq(Report)
    BY <1>0, <2>1, AllAreReports DEF NoticesTypeOK
  <2>3. QED
    BY <1>3, <2>2
<1>5. n \in DOMAIN meant /\ meant[n] \in Block
  BY <1>0, <1>3, <1>4
<1>6. PICK next \in Report :
        /\ current' = <<next>> /\ next.id = All[n].id
        /\ field \in Code => next.status = field /\ next.diagnostic = All[n].diagnostic
        /\ field \in Words => next.diagnostic = field /\ next.status = All[n].status
        /\ All' = [All EXCEPT ![n] = next] /\ UNCHANGED <<queueId, reports>>
  BY <1>0, <1>1, <1>2, <1>3, FieldParsed
<1>7. PICK block \in Block :
        /\ meant' = [meant EXCEPT ![n] = block] /\ block.named = meant[n].named
        /\ field \in Code => block.status = field /\ block.diagnostic = meant[n].diagnostic
        /\ field \in Words => block.diagnostic = field /\ block.status = meant[n].status
  <2>0. ~(field \in Code /\ field \in Words)
    BY DEF Code, Words
  <2>1. CASE field \in Code /\ WriteField("status", field)
    <3> DEFINE block == [meant[n] EXCEPT !.status = field]
    <3>1. block \in Block /\ block.status = field /\ block.diagnostic = meant[n].diagnostic
      BY <1>5, <2>1 DEF Block
    <3>2. block.named = meant[n].named
      BY <1>5, Zenon DEF Block
    <3>3. meant' = [meant EXCEPT ![n] = block]
      BY <2>1 DEF WriteField
    <3> HIDE DEF block
    <3>4. QED
      BY <2>0, <2>1, <3>1, <3>2, <3>3
  <2>2. CASE field \in Words /\ WriteField("diagnostic", field)
    <3> DEFINE block == [meant[n] EXCEPT !.diagnostic = field]
    <3>1. block \in Block /\ block.diagnostic = field /\ block.status = meant[n].status
      BY <1>5, <2>2 DEF Block
    <3>2. block.named = meant[n].named
      BY <1>5, Zenon DEF Block
    <3>3. meant' = [meant EXCEPT ![n] = block]
      BY <2>2 DEF WriteField
    <3> HIDE DEF block
    <3>4. QED
      BY <2>0, <2>2, <3>1, <3>2, <3>3
  <2>3. QED
    BY <2>1, <2>2
<1> HIDE DEF All
<1>8. /\ meant' \in Seq(Block) /\ Len(meant') = n /\ meant'[n] = block
      /\ Len(All') = n /\ All'[n] = next
      /\ \A i \in 1 .. n : i # n => meant'[i] = meant[i] /\ All'[i] = All[i]
  BY <1>0, <1>3, <1>5, <1>6, <1>7
<1>9. ASSUME NEW i \in DOMAIN meant'
      PROVE  /\ SameWords(All'[i], meant'[i])
             /\ All'[i].id = IF meant'[i].named THEN "own" ELSE "none"
             /\ meant'[i].named => named'
  <2>1. i \in 1 .. n /\ i \in DOMAIN meant
    BY <1>0, <1>8
  <2>2. /\ SameWords(All[i], meant[i])
        /\ All[i].id = IF meant[i].named THEN "own" ELSE "none"
        /\ meant[i].named => named
    BY <1>0, <1>2, <2>1 DEF BlocksInv
  <2>3. CASE i = n
    <3>1. SameWords(next, block)
      BY <1>6, <1>7, <2>2, <2>3 DEF SameWords
    <3>2. next.id = (IF block.named THEN "own" ELSE "none") /\ (block.named => named)
      BY <1>6, <1>7, <2>2, <2>3
    <3>3. QED
      BY <1>1, <1>8, <2>3, <3>1, <3>2
  <2>4. CASE i # n
    BY <1>1, <1>8, <2>1, <2>2, <2>4
  <2>5. QED
    BY <2>3, <2>4
<1>10. BlocksInv'
  BY <1>3, <1>8, <1>9 DEF BlocksInv
<1>11. NoticesTypeOK'
  <2>1. current' \in {<<r>> : r \in Report}
    BY <1>6
  <2>2. QED
    BY <1>0, <1>1, <1>6, <1>8, <2>1, Zenon DEF NoticesTypeOK
<1>12. current' # << >>
  BY <1>6
<1>13. QED
  BY <1>1, <1>2, <1>6, <1>10, <1>11, <1>12 DEF NoticesInv

\* A line of the returned text: it may open blocks after the relay's, and
\* change the last one, or the queue id that is known.
LEMMA TextKeeps ==
  ASSUME NoticesInv, NEW field \in Field, WriteText(field), lines' \in 0 .. MaxLines
  PROVE  NoticesInv'
<1> DEFINE n == Len(meant)
<1>0. /\ NoticesTypeOK /\ BlocksInv /\ All \in Seq(Report) /\ meant \in Seq(Block)
      /\ n \in Nat /\ DOMAIN meant = 1 .. n
  BY AllAreReports DEF NoticesInv
<1>1. /\ part # "head" /\ part' = "text" /\ UNCHANGED <<meant, named>>
      /\ quoted' = quoted \cup {field} /\ Parse(field)
  BY DEF WriteText
<1>2. current # << >>
  BY <1>1 DEF NoticesInv
<1>3. quoted' \subseteq Field
  BY <1>0, <1>1 DEF NoticesTypeOK
<1>4. PICK last \in Report : current = <<last>>
  BY <1>0, <1>2, CurrentIsOne
<1>5. Len(All) # 0 /\ Len(All) \in Nat
  <2>1. reports \in Seq(Report)
    BY <1>0 DEF NoticesTypeOK
  <2>2. QED
    BY <1>4, <2>1, AllAreReports, <1>0
<1>6. /\ current' \in {<<r>> : r \in Report} /\ reports' \in Seq(Report)
      /\ queueId' \in QueueId
      /\ field \notin {"own", "foreign"} => queueId' = queueId
      /\ Len(All) <= Len(All') /\ (field # "recipient" => Len(All') = Len(All))
      /\ \A i \in 1 .. Len(All) : All'[i].id = All[i].id
      /\ \A i \in 1 .. Len(All) :
           i < Len(All) \/ field \notin Code \cup Words => All'[i] = All[i]
  <2>1. CASE field \in {"own", "foreign"}
    <3>1. queueId' = field /\ UNCHANGED <<reports, current>>
      BY <1>1, <2>1, Turns
    <3>2. All' = All
      BY <3>1 DEF All
    <3>3. field # "recipient" /\ field \in QueueId
      BY <2>1 DEF QueueId
    <3>4. QED
      BY <1>0, <1>4, <1>5, <2>1, <3>1, <3>2, <3>3 DEF NoticesTypeOK
  <2>2. CASE field = "recipient"
    <3>1. PICK next \in Report :
            /\ current' = <<next>> /\ reports' \in Seq(Report) /\ queueId' = queueId
            /\ All' = Append(All, next)
      BY <1>0, <1>1, <2>2, RecipientParsed
    <3> HIDE DEF All
    <3>2. /\ Len(All') = Len(All) + 1
          /\ \A i \in 1 .. Len(All) : All'[i] = All[i]
      BY <1>0, <3>1
    <3>3. QED
      BY <1>0, <1>5, <2>2, <3>1, <3>2 DEF NoticesTypeOK
  <2>3. CASE field \in Code \cup Words
    <3>1. PICK next \in Report :
            /\ current' = <<next>> /\ next.id = All[Len(All)].id
            /\ All' = [All EXCEPT ![Len(All)] = next] /\ UNCHANGED <<queueId, reports>>
      BY <1>0, <1>1, <1>2, <2>3, FieldParsed
    <3> HIDE DEF All
    <3>2. /\ Len(All') = Len(All)
          /\ All'[Len(All)] = next
          /\ \A i \in 1 .. Len(All) : i # Len(All) => All'[i] = All[i]
      BY <1>0, <1>5, <3>1
    <3>3. \A i \in 1 .. Len(All) : All'[i].id = All[i].id
      BY <3>1, <3>2
    <3>4. /\ current' \in {<<r>> : r \in Report} /\ reports' \in Seq(Report)
          /\ queueId' \in QueueId /\ queueId' = queueId
      BY <1>0, <3>1 DEF NoticesTypeOK
    <3>5. field # "recipient"
      BY <2>3 DEF Code, Words
    <3>6. \A i \in 1 .. Len(All) : i < Len(All) => All'[i] = All[i]
      BY <1>5, <3>2
    <3>7. QED
      BY <1>5, <2>3, <3>2, <3>3, <3>4, <3>5, <3>6
  <2>4. QED
    BY <2>1, <2>2, <2>3 DEF Field
<1> HIDE DEF All
<1>7. Len(meant) <= Len(All) /\ ("recipient" \notin quoted => Len(All) = Len(meant))
  BY <1>0 DEF BlocksInv
<1>8. ASSUME NEW i \in DOMAIN meant
      PROVE  /\ i < n \/ quoted' \cap (Code \cup Words) = {} => SameWords(All'[i], meant[i])
             /\ All'[i].id = IF meant[i].named THEN "own" ELSE "none"
             /\ meant[i].named => named
  <2>1. i \in 1 .. Len(All) /\ i <= n
    BY <1>0, <1>5, <1>7
  <2>2. /\ i < n \/ quoted \cap (Code \cup Words) = {} => SameWords(All[i], meant[i])
        /\ All[i].id = IF meant[i].named THEN "own" ELSE "none"
        /\ meant[i].named => named
    BY <1>0 DEF BlocksInv
  <2>3. All'[i].id = All[i].id
    BY <1>6, <2>1
  <2>4. ASSUME i < n \/ quoted' \cap (Code \cup Words) = {}
        PROVE  SameWords(All'[i], meant[i])
    <3>1. i < n \/ quoted \cap (Code \cup Words) = {}
      BY <1>1, <2>4
    <3>2. i < Len(All) \/ field \notin Code \cup Words
      BY <1>0, <1>1, <1>5, <1>7, <2>1, <2>4
    <3>3. All'[i] = All[i]
      BY <1>6, <2>1, <3>2
    <3>4. QED
      BY <2>2, <3>1, <3>3
  <2>5. QED
    BY <2>2, <2>3, <2>4
<1>9. Len(meant) <= Len(All') /\ ("recipient" \notin quoted' => Len(All') = Len(meant))
  <2>1. Len(All') \in Nat
    BY <1>5, <1>6, <1>7 DEF NoticesTypeOK, All
  <2>2. QED
    BY <1>0, <1>1, <1>5, <1>6, <1>7, <2>1
<1>10. BlocksInv'
  BY <1>1, <1>8, <1>9 DEF BlocksInv
<1>11. NoticesTypeOK'
  BY <1>0, <1>1, <1>3, <1>6, Zenon DEF NoticesTypeOK
<1>12. current' # << >>
  <2>1. PICK r \in Report : current' = <<r>>
    BY <1>6
  <2>2. QED
    BY <2>1
<1>13. quoted' \cap {"own", "foreign"} = {} => queueId' = IF named' THEN "own" ELSE "none"
  BY <1>1, <1>6 DEF NoticesInv
<1>14. QED
  BY <1>1, <1>10, <1>11, <1>12, <1>13 DEF NoticesInv

LEMMA NoticesInvariant == NoticesSpec => []NoticesInv
<1>1. NoticesInv /\ [NoticesNext]_noticeVars => NoticesInv'
  <2> SUFFICES ASSUME NoticesInv, [NoticesNext]_noticeVars PROVE NoticesInv'
    OBVIOUS
  <2>1. CASE UNCHANGED noticeVars
    <3>1. All' = All
      BY <2>1 DEF noticeVars, All
    <3>2. BlocksInv'
      BY <2>1, <3>1, Zenon DEF noticeVars, NoticesInv, BlocksInv
    <3>3. QED
      BY <2>1, <3>2, Zenon DEF noticeVars, NoticesInv, NoticesTypeOK
  <2>2. CASE NoticesNext
    <3>1. lines' \in 0 .. MaxLines
      BY <2>2, NoticesAssumption DEF NoticesNext, NoticesInv, NoticesTypeOK
    <3>2. QED
      BY <2>2, <3>1, QueueIdKeeps, RecipientKeeps, FieldKeeps, TextKeeps DEF NoticesNext
  <2>3. QED
    BY <2>1, <2>2
<1>2. QED
  BY <1>1, NoticesStart, PTL DEF NoticesSpec

\* Wherever a notification ends, the relay's recipients are found first and in
\* order, each with what its own block says and with the queue id if it was
\* named, whatever the returned text reads like - but for what it may change.
THEOREM NobodyAnswersForAnother == NoticesSpec => []EachByItsOwnBlock
<1> QED
  BY BlocksAreRead, NoticesInvariant, PTL

-----------------------------------------------------------------------------
(* The console.                                                            *)

\* Behind whatever the console is used for, each concern goes on as its own
\* module says: it begins as it does there, and no other concern touches it
\* (the handlers are separate requests over separate tables).
THEOREM ConcernsAreIndependent ==
  ConsoleSpec => /\ AccessSpec /\ KeysSpec /\ SessionSpec /\ TenantsSpec
                 /\ VolumeSpec /\ PagingSpec /\ NoticesSpec
<1>1. ConsoleInit => /\ AccessInit /\ KeysInit /\ SessionInit /\ TenantsInit
                     /\ VolumeInit /\ PagingInit /\ NoticesInit
  BY DEF ConsoleInit
<1>2. ASSUME [ConsoleNext]_consoleVars
      PROVE  /\ [AccessNext]_accessVars /\ [KeysNext]_keyVars
             /\ [SessionNext]_sessionVars /\ [TenantsNext]_tenantVars
             /\ [VolumeNext]_volumeVars /\ [PagingNext]_pagingVars
             /\ [NoticesNext]_noticeVars
  <2>1. CASE ManagingUsers(AccessNext)
    BY <2>1 DEF ManagingUsers
  <2>2. CASE CheckingTokens(KeysNext)
    BY <2>2 DEF CheckingTokens
  <2>3. CASE KeepingSession(SessionNext)
    BY <2>3 DEF KeepingSession
  <2>4. CASE ManagingTenants(TenantsNext)
    BY <2>4 DEF ManagingTenants
  <2>5. CASE WatchingVolume(VolumeNext)
    BY <2>5 DEF WatchingVolume
  <2>6. CASE Listing(PagingNext)
    BY <2>6 DEF Listing
  <2>7. CASE ReadingNotices(NoticesNext)
    BY <2>7 DEF ReadingNotices
  <2>8. CASE UNCHANGED consoleVars
    BY <2>8 DEF consoleVars
  <2> QED
    BY <1>2, <2>1, <2>2, <2>3, <2>4, <2>5, <2>6, <2>7, <2>8 DEF ConsoleNext
<1> QED
  BY <1>1, <1>2, PTL
  DEF ConsoleSpec, AccessSpec, KeysSpec, SessionSpec, TenantsSpec, VolumeSpec, PagingSpec, NoticesSpec

\* Every variable behind the console keeps its type.
THEOREM ConsoleTypes == ConsoleSpec => []ConsoleTypeOK
<1>1. ConsoleInit => concern \in Concern
  BY DEF ConsoleInit
<1>2. concern \in Concern /\ [ConsoleNext]_consoleVars => (concern \in Concern)'
  BY DEF ConsoleNext, ManagingUsers, CheckingTokens, KeepingSession, ManagingTenants,
         WatchingVolume, Listing, ReadingNotices, consoleVars
<1>3. ConsoleSpec => [](concern \in Concern)
  BY <1>1, <1>2, PTL DEF ConsoleSpec
<1>4. /\ KeysInv => KeysTypeOK
      /\ TenantsInv => TenantsTypeOK
      /\ NoticesInv => NoticesTypeOK
  BY DEF KeysInv, TenantsInv, NoticesInv
<1>5. /\ concern \in Concern
      /\ AccessTypeOK /\ KeysTypeOK /\ SessionTypeOK /\ TenantsTypeOK
      /\ VolumeTypeOK /\ PagingTypeOK /\ NoticesTypeOK
      => ConsoleTypeOK
  BY DEF ConsoleTypeOK
<1> QED
  BY <1>3, <1>4, <1>5, ConcernsAreIndependent, AccessTypes, KeysInvariant, SessionTypes,
     TenantsInvariant, NoBurstHidesAnother, ListsAreComplete, NoticesInvariant, PTL

\* What is shown of each concern holds of a console that has them all.
THEOREM ConsoleIsSafe ==
  ConsoleSpec => [](/\ AllowlistStaysClosed /\ PublishedKeyIsAccepted
                   /\ SpentIsReplaced /\ HistoryChains /\ MailsAreExplained
                   /\ BurstsHideNothing /\ EveryRowOnce /\ EachByItsOwnBlock)
<1> QED
  BY ConcernsAreIndependent, ListStaysClosed, NobodyLockedOut, SessionIsKept,
     HistoryIsTrue, HistoryExplainsMails, NoBurstHidesAnother, ListsAreComplete,
     NobodyAnswersForAnother, PTL

\* And so does what no step may do: the last admin stays.
THEOREM ConsoleKeepsAnAdmin == ConsoleSpec => AnAdminRemains
<1> QED
  BY ConcernsAreIndependent, AccessManages, LastAdminStays, PTL DEF AccessIsManaging

=============================================================================
