------------------------------ MODULE Tenants -------------------------------
(***************************************************************************)
(* Which tenant may send as which domain, and the record of it: the tables *)
(* tenant and tenant_domain_change (crates/postbud-db/src/tenant.rs), the  *)
(* admin handlers that write them (crates/postbud-api/src/admin.rs), and a *)
(* submission up to message::accept (crates/postbud-api/src/auth.rs and    *)
(* messages.rs).                                                           *)
(*                                                                         *)
(* A submission reads the tenant once and is decided on that copy; the     *)
(* binding, the key and the tenant itself may change before it is done.    *)
(***************************************************************************)
EXTENDS Naturals, Sequences, FiniteSets, Functions

CONSTANTS
  Account,     \* tenants, created or not yet
  Domain,      \* sending domains, in lower case
  Editor,      \* changes of a binding that may be in progress at once
  Submission,  \* submissions that may be in progress at once
  MaxListed,   \* bound: domains in one list
  MaxKeys,     \* bound: keys ever made for one tenant
  MaxBindings  \* bound: rows of one tenant's history

ASSUME TenantsAssumption ==
  MaxListed \in Nat /\ MaxKeys \in Nat \ {0} /\ MaxBindings \in Nat

VARIABLES
  tenant,      \* [Account -> TenantRow], the table tenant
  bindings,    \* [Account -> Seq(Binding)], tenant_domain_change in id order
  edit,        \* [Editor -> Edit], set_domains in progress
  submission,  \* [Submission -> Open], authenticated and not yet accepted
  mails        \* {[tenant, from]}, what was accepted

tenantVars == <<tenant, bindings, edit, submission, mails>>

-----------------------------------------------------------------------------
(* Data.                                                                   *)

\* A list as clean_domains leaves it: not empty, with the order and the
\* repetitions of the request.  Lists are compared as they stand.
DomainList == UNION {[1 .. n -> Domain] : n \in 1 .. MaxListed}

MaybeList == {<< >>} \cup DomainList

\* The number of the key whose digest is stored, 0 before there is a tenant.
TenantRow == [key : 0 .. MaxKeys, active : BOOLEAN, domains : MaybeList]

NoTenant == [key |-> 0, active |-> FALSE, domains |-> << >>]

Binding == [before : MaybeList, after : MaybeList]

\* A transaction begun, or holding the row's lock with what it read.
NoEdit == [at |-> "idle"]

Edit == {NoEdit} \cup
        [at : {"begun", "locked"}, of : Account, to : DomainList, before : MaybeList]

\* The tenant as it was read, or nothing.
NoSubmission == [open |-> FALSE]

Open == {NoSubmission} \cup
        [open : {TRUE}, of : Account, allowed : MaybeList, from : Domain]

Exists(a) == tenant[a].key > 0

\* Nobody holds the lock on a's row.
RowFree(a) == \A e \in Editor : edit[e].at = "locked" => edit[e].of # a

Recorded(a, before, after) ==
  bindings' = [bindings EXCEPT ![a] = Append(@, [before |-> before, after |-> after])]

-----------------------------------------------------------------------------
(* Administration.                                                         *)

\* Mutant: the opening grant is not recorded.
CreateTenant_Unrecorded(a, domains) ==
  /\ ~Exists(a)
  /\ tenant' = [tenant EXCEPT ![a] = [key |-> 1, active |-> TRUE, domains |-> domains]]
  /\ UNCHANGED <<bindings, edit, submission, mails>>

\* tenant::create, one transaction: the tenant and its opening grant.
CreateTenant(a, domains) ==
  /\ ~Exists(a)
  /\ tenant' = [tenant EXCEPT ![a] = [key |-> 1, active |-> TRUE, domains |-> domains]]
  /\ Recorded(a, << >>, domains)
  /\ UNCHANGED <<edit, submission, mails>>

\* tenant::rotate_key and tenant::set_active, a statement each: it waits
\* for the row.
Update(a, row) ==
  /\ Exists(a) /\ RowFree(a)
  /\ tenant' = [tenant EXCEPT ![a] = row]
  /\ UNCHANGED <<bindings, edit, submission, mails>>

RotateKey(a) ==
  tenant[a].key < MaxKeys /\ Update(a, [tenant[a] EXCEPT !.key = @ + 1])

SetActive(a, active) == Update(a, [tenant[a] EXCEPT !.active = active])

\* tenant::set_domains, called for any id.  The bound leaves room for what
\* the open transactions may still record.
BeginEdit(e, a, domains) ==
  /\ edit[e].at = "idle"
  /\ Len(bindings[a]) + Cardinality({f \in Editor : edit[f].at # "idle"}) < MaxBindings
  /\ edit' = [edit EXCEPT ![e] = [at |-> "begun", of |-> a, to |-> domains, before |-> << >>]]
  /\ UNCHANGED <<tenant, bindings, submission, mails>>

LeaveEdit(e) == edit' = [edit EXCEPT ![e] = NoEdit]

\* Mutant: the row is read without a lock.
ReadBefore_NoLock(e) ==
  /\ edit[e].at = "begun"
  /\ LET a == edit[e].of
     IN  IF ~Exists(a) \/ tenant[a].domains = edit[e].to
         THEN LeaveEdit(e)
         ELSE edit' = [edit EXCEPT ![e].at = "locked", ![e].before = tenant[a].domains]
  /\ UNCHANGED <<tenant, bindings, submission, mails>>

\* select ... for update: no such tenant, nothing to change, or the value
\* the change replaces.
ReadBefore(e) ==
  /\ edit[e].at = "begun"
  /\ RowFree(edit[e].of)
  /\ LET a == edit[e].of
     IN  IF ~Exists(a) \/ tenant[a].domains = edit[e].to
         THEN LeaveEdit(e)
         ELSE edit' = [edit EXCEPT ![e].at = "locked", ![e].before = tenant[a].domains]
  /\ UNCHANGED <<tenant, bindings, submission, mails>>

\* The update, the record of it, and the commit of both.
WriteEdit(e) ==
  /\ edit[e].at = "locked"
  /\ tenant' = [tenant EXCEPT ![edit[e].of].domains = edit[e].to]
  /\ Recorded(edit[e].of, edit[e].before, edit[e].to)
  /\ LeaveEdit(e)
  /\ UNCHANGED <<submission, mails>>

\* A statement fails: the transaction is rolled back.
AbandonEdit(e) ==
  /\ edit[e].at # "idle"
  /\ LeaveEdit(e)
  /\ UNCHANGED <<tenant, bindings, submission, mails>>

-----------------------------------------------------------------------------
(* Submitting.                                                             *)

\* The extractor Tenant: by_api_key finds the key of an active tenant.
Authenticate(s, a, key, from) ==
  /\ ~submission[s].open
  /\ tenant[a].active /\ Exists(a) /\ tenant[a].key = key
  /\ submission' = [submission EXCEPT ![s] =
       [open |-> TRUE, of |-> a, allowed |-> tenant[a].domains, from |-> from]]
  /\ UNCHANGED <<tenant, bindings, edit, mails>>

\* authz::may_send_as: exact, no subdomain is implied.
MaySendAs(s) == submission[s].from \in Range(submission[s].allowed)

Answered(s) == submission' = [submission EXCEPT ![s] = NoSubmission]

\* submit, to the commit of message::accept.
AcceptMail(s) ==
  /\ submission[s].open /\ MaySendAs(s)
  /\ mails' = mails \cup {[tenant |-> submission[s].of, from |-> submission[s].from]}
  /\ Answered(s)
  /\ UNCHANGED <<tenant, bindings, edit>>

\* "tenant may not send as", another field is refused, or accept fails.
RejectMail(s) ==
  /\ submission[s].open
  /\ Answered(s)
  /\ UNCHANGED <<tenant, bindings, edit, mails>>

-----------------------------------------------------------------------------
(* The specification.                                                      *)

TenantsInit ==
  /\ tenant   = [a \in Account |-> NoTenant]
  /\ bindings = [a \in Account |-> << >>]
  /\ edit     = [e \in Editor |-> NoEdit]
  /\ submission = [s \in Submission |-> NoSubmission]
  /\ mails = {}

TenantsNext ==
  \/ \E a \in Account :
       \/ \E domains \in DomainList : CreateTenant(a, domains)
       \/ RotateKey(a)
       \/ \E active \in BOOLEAN : SetActive(a, active)
  \/ \E e \in Editor :
       \/ \E a \in Account, domains \in DomainList : BeginEdit(e, a, domains)
       \/ ReadBefore(e) \/ WriteEdit(e) \/ AbandonEdit(e)
  \/ \E s \in Submission :
       \/ \E a \in Account, key \in 1 .. MaxKeys, from \in Domain :
            Authenticate(s, a, key, from)
       \/ AcceptMail(s) \/ RejectMail(s)

TenantsSpec == TenantsInit /\ [][TenantsNext]_tenantVars

-----------------------------------------------------------------------------
(* Properties.                                                             *)

TenantsTypeOK ==
  /\ tenant \in [Account -> TenantRow]
  /\ bindings \in [Account -> Seq(Binding)]
  /\ edit \in [Editor -> Edit]
  /\ submission \in [Submission -> Open]
  /\ mails \subseteq [tenant : Account, from : Domain]

\* The history is complete and is what happened: it starts with the opening
\* grant, each change starts from what the one before it left, none changes
\* nothing, and the last is what holds now - whatever edits ran at once.
HistoryChains ==
  \A a \in Account :
    LET log == bindings[a]
    IN  /\ tenant[a].domains = IF log = << >> THEN << >> ELSE log[Len(log)].after
        /\ \A i \in DOMAIN log :
             /\ log[i].before = IF i = 1 THEN << >> ELSE log[i - 1].after
             /\ log[i].before # log[i].after

\* "Was this a misconfiguration or a bypass?" (migrations/0010) has an
\* answer: for every message that was accepted the history names a binding
\* that allowed it, though the binding may have been lifted, the key
\* replaced or the tenant stopped while the message was being accepted.
MailsAreExplained ==
  \A mail \in mails :
    \E i \in DOMAIN bindings[mail.tenant] :
      mail.from \in Range(bindings[mail.tenant][i].after)

=============================================================================
