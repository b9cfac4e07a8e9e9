------------------------------ MODULE Postbud ------------------------------
(***************************************************************************)
(* The submission API in front of the queue: callers submitting mail under *)
(* an idempotency key (message::accept, crates/postbud-db/src/message.rs;  *)
(* submit, crates/postbud-api/src/messages.rs), and the suppression list   *)
(* (crates/postbud-db/src/suppression.rs) that tenants edit and bounces    *)
(* feed.  The queue itself is module Queue, extended unchanged.            *)
(*                                                                         *)
(* message::accept runs at READ COMMITTED and is two steps here, as it is  *)
(* there: the suppression list is read, and some time later the row is     *)
(* inserted or found.  Bounces, edits and other callers come in between.   *)
(***************************************************************************)
EXTENDS Queue

CONSTANTS
  Caller,     \* API requests that may be in progress at once
  Tenant,     \* tenants
  Everyone,   \* a null tenant_id: the entry is global
  Key,        \* idempotency keys
  Address,    \* recipient addresses, lower case
  MaxEntries  \* bound: rows ever written to the suppression table

VARIABLES
  content,  \* [Msg -> Content or Unwritten], the immutable columns
  entry,    \* Seq(Entry), the suppression table; a row's id is its position
  call,     \* [Caller -> Call], the accept transactions in progress
  answers   \* {[tenant, key, msg]}, what callers have been told

serviceVars == <<vars, content, entry, call, answers>>

ASSUME PostbudAssumption ==
  /\ Everyone \notin Tenant
  /\ MaxEntries \in Nat

-----------------------------------------------------------------------------
(* Data.                                                                   *)

Content == [tenant : Tenant, key : Key, rcpt : Address]

Unwritten == [tenant |-> Everyone]

Entry == [tenant : Tenant \cup {Everyone}, address : Address,
          reason : {"manual", "hard_bounce"}, active : BOOLEAN]

\* Nothing in progress, or the content submitted and the answer the
\* suppression list gave.
NoCall == [open |-> FALSE]

Call == {NoCall} \cup
        [open : {TRUE}, content : Content, suppressed : BOOLEAN]

Written(m) == content[m] # Unwritten

-----------------------------------------------------------------------------
(* The suppression list.                                                   *)

\* Does entry i apply to this tenant's mail?
Visible(i, tenant) == entry[i].tenant \in {tenant, Everyone}

\* Mutant: a tenant's own entry applies to every tenant.
IsSuppressed_AnyTenant(tenant, address) ==
  \E i \in DOMAIN entry : entry[i].address = address /\ entry[i].active

\* suppression::is_suppressed_tx
IsSuppressed(tenant, address) ==
  \E i \in DOMAIN entry :
    entry[i].address = address /\ entry[i].active /\ Visible(i, tenant)

\* The unique index suppression_active, nulls not distinct.
Listed(tenant, address) ==
  \E i \in DOMAIN entry :
    entry[i].tenant = tenant /\ entry[i].address = address /\ entry[i].active

\* suppression::add: insert, on conflict do nothing.
Add(tenant, address, reason) ==
  /\ ~Listed(tenant, address)
  /\ Len(entry) < MaxEntries
  /\ entry' = Append(entry, [tenant |-> tenant, address |-> address,
                             reason |-> reason, active |-> TRUE])
  /\ UNCHANGED <<vars, content, call, answers>>

\* POST /v1/suppressions, always scoped to the calling tenant; or an admin's,
\* which may be for the whole installation.
AddManually(tenant, address) == Add(tenant, address, "manual")

\* bounce::ingest of a permanent report: global.  The report is of a copy
\* the relay took.
Bounce(m) ==
  /\ Written(m) /\ handed[m] > 0
  /\ Add(Everyone, content[m].rcpt, "hard_bounce")

\* suppression::remove, by id: a soft delete.
Remove(i) ==
  /\ entry[i].active
  /\ entry' = [entry EXCEPT ![i].active = FALSE]
  /\ UNCHANGED <<vars, content, call, answers>>

-----------------------------------------------------------------------------
(* Submitting.                                                             *)

\* message::accept up to and including the suppression check.
Submit(c, new) ==
  /\ ~call[c].open
  /\ call' = [call EXCEPT ![c] =
                [open |-> TRUE, content |-> new,
                 suppressed |-> IsSuppressed(new.tenant, new.rcpt)]]
  /\ UNCHANGED <<vars, content, entry, answers>>

\* Mutant: the idempotency key is unique across tenants.
Same_AnyTenant(m, new) == Written(m) /\ content[m].key = new.key

\* The unique constraint (tenant_id, idempotency_key).
Same(m, new) ==
  /\ Written(m)
  /\ content[m].tenant = new.tenant
  /\ content[m].key = new.key

\* Mutant: the answer is what the insert returned, nothing on a conflict.
Reply_Returning(c, m) ==
  /\ call' = [call EXCEPT ![c] = NoCall]
  /\ answers' = answers \cup
       {[tenant |-> call[c].content.tenant, key |-> call[c].content.key,
         msg |-> IF Written(m) THEN Nobody ELSE m]}

\* The answer reaches the caller, or the caller is gone and never knows.
Reply(c, m) ==
  /\ call' = [call EXCEPT ![c] = NoCall]
  /\ \/ answers' = answers \cup
          {[tenant |-> call[c].content.tenant, key |-> call[c].content.key,
            msg |-> m]}
     \/ answers' = answers

\* Mutant: a key seen before is inserted again.
Insert_Always(c, m) ==
  /\ call[c].open
  /\ Accept(m, call[c].suppressed)
  /\ content' = [content EXCEPT ![m] = call[c].content]
  /\ Reply(c, m)
  /\ UNCHANGED entry

\* message::accept, the rest of it: the key is new.
Insert(c, m) ==
  /\ call[c].open
  /\ \A other \in Msg : ~Same(other, call[c].content)
  /\ Accept(m, call[c].suppressed)
  /\ content' = [content EXCEPT ![m] = call[c].content]
  /\ Reply(c, m)
  /\ UNCHANGED entry

\* Mutant: submitting again puts the message back in the queue.
Deduplicate_Requeues(c, m) ==
  /\ call[c].open
  /\ Same(m, call[c].content)
  /\ Reply(c, m)
  /\ row' = [row EXCEPT ![m].status = "queued"]
  /\ UNCHANGED <<log, flight, handed, unacked, faults, content, entry>>

\* message::accept, the rest of it: the key was accepted before, and the
\* caller is given the original.
Deduplicate(c, m) ==
  /\ call[c].open
  /\ Same(m, call[c].content)
  /\ Reply(c, m)
  /\ UNCHANGED <<vars, content, entry>>

\* The transaction fails, or the request is dropped before the commit.
Abort(c) ==
  /\ call[c].open
  /\ call' = [call EXCEPT ![c] = NoCall]
  /\ UNCHANGED <<vars, content, entry, answers>>

-----------------------------------------------------------------------------
(* The specification.                                                      *)

ServiceInit ==
  /\ Init
  /\ content = [m \in Msg |-> Unwritten]
  /\ entry   = << >>
  /\ call    = [c \in Caller |-> NoCall]
  /\ answers = {}

\* The queue at work on what was accepted.
QueueStep ==
  /\ (\E w \in Worker : WorkerStep(w)) \/ Tick \/ Purge
  /\ UNCHANGED <<content, entry, call, answers>>

ServiceNext ==
  \/ \E c \in Caller :
       \/ \E new \in Content : Submit(c, new)
       \/ \E m \in Msg : Insert(c, m) \/ Deduplicate(c, m)
       \/ Abort(c)
  \/ \E tenant \in Tenant \cup {Everyone}, address \in Address :
       AddManually(tenant, address)
  \/ \E m \in Msg : Bounce(m)
  \/ \E i \in DOMAIN entry : Remove(i)
  \/ QueueStep

ServiceSpec == ServiceInit /\ [][ServiceNext]_serviceVars

-----------------------------------------------------------------------------
(* Properties.                                                             *)

ServiceTypeOK ==
  /\ content \in [Msg -> Content \cup {Unwritten}]
  /\ entry \in Seq(Entry)
  /\ call \in [Caller -> Call]
  /\ answers \subseteq [tenant : Tenant, key : Key, msg : Msg]

\* One business event is one mail: however many callers submit a key at
\* once, drop their requests and retry, it is given one message at most,
\* and the relay a copy of one message at most.
OneMessagePerKey ==
  \A m1, m2 \in Msg :
    /\ Written(m1) /\ Written(m2)
    /\ content[m1].tenant = content[m2].tenant
    /\ content[m1].key = content[m2].key
    => m1 = m2

\* What a caller was told stays true: the message it was given for a key is
\* that tenant's, was accepted under that key, and is the one every other
\* answer for the key names.
AnswersAgree ==
  \A a \in answers :
    /\ row[a.msg].status # "absent"
    /\ content[a.msg].tenant = a.tenant /\ content[a.msg].key = a.key
    /\ \A b \in answers : a.tenant = b.tenant /\ a.key = b.key => a.msg = b.msg

\* A message that was deliberately not sent can be explained from the table
\* for as long as it exists: some entry, lifted since or not, suppressed
\* that address for that tenant.  Nothing another tenant decided does.
SuppressedIsExplained ==
  \A m \in Msg : row[m].status = "suppressed" =>
    \E i \in DOMAIN entry :
      /\ entry[i].address = content[m].rcpt
      /\ Visible(i, content[m].tenant)

\* One active entry for a tenant and an address, global ones included: so
\* lifting it lifts it.
OneActiveEntry ==
  \A i, j \in DOMAIN entry :
    /\ entry[i].active /\ entry[j].active
    /\ entry[i].tenant = entry[j].tenant /\ entry[i].address = entry[j].address
    => i = j

\* The queue, with callers in front of it, is still the queue.
QueueIsQueue == Spec

\* README.md, line 11: postbud "never writes to an address that has already
\* bounced".  The code checks the list when it accepts, never when it
\* claims: a message accepted before the bounce is still handed over.
NeverWritesToBounced ==
  [][\A m \in Msg : handed'[m] > handed[m] =>
       ~ \E i \in DOMAIN entry :
           /\ entry[i].address = content[m].rcpt
           /\ entry[i].reason = "hard_bounce" /\ entry[i].active]_serviceVars

=============================================================================
