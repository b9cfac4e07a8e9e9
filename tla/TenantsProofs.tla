--------------------------- MODULE TenantsProofs ----------------------------
(***************************************************************************)
(* The history of every tenant's sending domains chains and explains every *)
(* message, for any number of tenants, of edits in progress and of         *)
(* submissions, and lists of any length.                                   *)
(*                                                                         *)
(* That the history chains is not inductive: an edit appends what it read  *)
(* some time ago.  The invariant adds that who has read holds the row      *)
(* alone, so that what it read is still what is there; and for the         *)
(* messages, that the copy of the tenant a submission is decided on was    *)
(* recorded before it was made, and records stay.                          *)
(***************************************************************************)
EXTENDS Tenants, TLAPS

\* Some row of a's history allows d.
Allowed(a, d) == \E i \in DOMAIN bindings[a] : d \in Range(bindings[a][i].after)

\* No row is locked twice.
EditsExclude ==
  \A e, f \in Editor :
    /\ edit[e].at = "locked" /\ edit[f].at = "locked" /\ edit[e].of = edit[f].of
    => e = f

\* What an edit has read under its lock is still there, and is to change.
LockedIsCurrent ==
  \A e \in Editor : edit[e].at = "locked" =>
    /\ Exists(edit[e].of)
    /\ edit[e].before = tenant[edit[e].of].domains
    /\ edit[e].before # edit[e].to

CreatedIsRecorded == \A a \in Account : ~Exists(a) => bindings[a] = << >>

CopiesAreExplained ==
  \A s \in Submission : submission[s].open =>
    \A d \in Range(submission[s].allowed) : Allowed(submission[s].of, d)

TenantsInv ==
  /\ TenantsTypeOK /\ HistoryChains /\ MailsAreExplained
  /\ EditsExclude /\ LockedIsCurrent /\ CreatedIsRecorded /\ CopiesAreExplained

-----------------------------------------------------------------------------
(* Lists.                                                                  *)

\* A list that was asked for is not empty.
LEMMA ListsAreNotEmpty == \A l \in DomainList : l # << >>
<1> SUFFICES ASSUME NEW l \in DomainList PROVE l # << >>
  OBVIOUS
<1>1. PICK n \in 1 .. MaxListed : l \in [1 .. n -> Domain]
  BY DEF DomainList
<1>2. 1 \in DOMAIN l
  BY <1>1, TenantsAssumption
<1>3. QED
  BY <1>2

LEMMA ListType == DomainList \subseteq MaybeList /\ << >> \in MaybeList
  BY DEF MaybeList

\* What edit[e] may be, field by field.
LEMMA EditFields ==
  ASSUME TenantsTypeOK, NEW e \in Editor, edit[e].at # "idle"
  PROVE  /\ edit[e] \in [at : {"begun", "locked"}, of : Account, to : DomainList,
                         before : MaybeList]
         /\ edit[e].of \in Account /\ edit[e].to \in DomainList
         /\ edit[e].before \in MaybeList
<1>1. edit[e] \in Edit /\ edit[e] # NoEdit
  BY DEF TenantsTypeOK, NoEdit
<1>2. QED
  BY <1>1 DEF Edit

LEMMA SubmissionFields ==
  ASSUME TenantsTypeOK, NEW s \in Submission, submission[s].open
  PROVE  /\ submission[s].of \in Account /\ submission[s].from \in Domain
         /\ submission[s].allowed \in MaybeList
<1>1. submission[s] \in Open /\ submission[s] # NoSubmission
  BY DEF TenantsTypeOK, NoSubmission
<1>2. QED
  BY <1>1 DEF Open

-----------------------------------------------------------------------------
(* Administration.                                                         *)

\* A tenant is created with its opening grant, in one transaction.
LEMMA CreateAccountKeeps ==
  ASSUME TenantsInv, NEW a \in Account, NEW domains \in DomainList,
         CreateTenant(a, domains)
  PROVE  TenantsInv'
<1> USE DEF TenantsInv
<1> DEFINE opening == [before |-> << >>, after |-> domains]
<1>1. /\ tenant' = [tenant EXCEPT ![a] = [key |-> 1, active |-> TRUE, domains |-> domains]]
      /\ UNCHANGED <<edit, submission, mails>> /\ ~Exists(a)
      /\ bindings' = [bindings EXCEPT ![a] = Append(@, opening)]
  BY DEF CreateTenant, Recorded
<1>2. bindings[a] = << >> /\ bindings'[a] = <<opening>>
  <2>1. bindings[a] = << >>
    BY <1>1 DEF CreatedIsRecorded
  <2>2. Append(<< >>, opening) = <<opening>>
    OBVIOUS
  <2>3. bindings'[a] = Append(bindings[a], opening)
    BY <1>1, Zenon DEF TenantsTypeOK
  <2>4. QED
    BY <2>1, <2>2, <2>3, Zenon
<1>3. domains # << >> /\ domains \in MaybeList /\ << >> \in MaybeList
  BY ListsAreNotEmpty, ListType
<1>4. TenantsTypeOK'
  <2>1. [key |-> 1, active |-> TRUE, domains |-> domains] \in TenantRow
    BY <1>3, TenantsAssumption DEF TenantRow
  <2>2. opening \in Binding /\ <<opening>> \in Seq(Binding)
    BY <1>3 DEF Binding
  <2>3. tenant' \in [Account -> TenantRow]
    BY <1>1, <2>1 DEF TenantsTypeOK
  <2>4. Append(bindings[a], opening) \in Seq(Binding)
    BY <2>2 DEF TenantsTypeOK
  <2>5. bindings' \in [Account -> Seq(Binding)]
    BY <1>1, <2>4 DEF TenantsTypeOK
  <2>6. QED
    BY <1>1, <2>3, <2>5 DEF TenantsTypeOK
<1>5. HistoryChains'
  <2>1. ASSUME NEW b \in Account, b # a
        PROVE  tenant'[b] = tenant[b] /\ bindings'[b] = bindings[b]
    BY <1>1, <2>1 DEF TenantsTypeOK
  <2>2. tenant'[a].domains = domains
    BY <1>1 DEF TenantsTypeOK
  <2>3. QED
    BY <1>2, <1>3, <2>1, <2>2 DEF HistoryChains
<1>6. ASSUME NEW b \in Account, NEW d, Allowed(b, d)
      PROVE  Allowed(b, d)'
  BY <1>1, <1>2, <1>6 DEF Allowed, TenantsTypeOK
<1>7. MailsAreExplained' /\ CopiesAreExplained'
  <2>1. MailsAreExplained'
    BY <1>1, <1>6 DEF MailsAreExplained, Allowed, TenantsTypeOK
  <2>2. CopiesAreExplained'
    BY <1>1, <1>6, SubmissionFields DEF CopiesAreExplained
  <2>3. QED
    BY <2>1, <2>2
<1>8. EditsExclude'
  BY <1>1 DEF EditsExclude
<1>9. LockedIsCurrent'
  <2>1. ASSUME NEW e \in Editor, edit[e].at = "locked"
        PROVE  edit[e].of # a /\ tenant'[edit[e].of] = tenant[edit[e].of]
    BY <1>1, <2>1, EditFields DEF LockedIsCurrent, TenantsTypeOK
  <2>2. QED
    BY <1>1, <2>1 DEF LockedIsCurrent, Exists
<1>10. CreatedIsRecorded'
  BY <1>1 DEF CreatedIsRecorded, Exists, TenantsTypeOK
<1>11. QED
  BY <1>4, <1>5, <1>7, <1>8, <1>9, <1>10

\* A key is replaced, or the tenant stopped: its domains stay.
LEMMA UpdateKeeps ==
  ASSUME TenantsInv, NEW a \in Account, NEW r \in TenantRow,
         r.domains = tenant[a].domains, r.key > 0, Update(a, r)
  PROVE  TenantsInv'
<1> USE DEF TenantsInv
<1>1. /\ tenant' = [tenant EXCEPT ![a] = r] /\ Exists(a)
      /\ UNCHANGED <<bindings, edit, submission, mails>>
  BY DEF Update
<1>2. ASSUME NEW b \in Account
      PROVE  tenant'[b].domains = tenant[b].domains /\ (Exists(b)' <=> Exists(b))
  BY <1>1 DEF Exists, TenantsTypeOK
<1>3. TenantsTypeOK'
  BY <1>1 DEF TenantsTypeOK
<1>4. HistoryChains'
  BY <1>1, <1>2 DEF HistoryChains
<1>5. MailsAreExplained' /\ CopiesAreExplained'
  BY <1>1 DEF MailsAreExplained, CopiesAreExplained, Allowed
<1>6. EditsExclude' /\ CreatedIsRecorded'
  BY <1>1, <1>2 DEF EditsExclude, CreatedIsRecorded
<1>7. LockedIsCurrent'
  BY <1>1, <1>2, EditFields DEF LockedIsCurrent
<1>8. QED
  BY <1>3, <1>4, <1>5, <1>6, <1>7

LEMMA AdministrationKeeps ==
  ASSUME TenantsInv, NEW a \in Account,
         \/ \E domains \in DomainList : CreateTenant(a, domains)
         \/ RotateKey(a)
         \/ \E active \in BOOLEAN : SetActive(a, active)
  PROVE  TenantsInv'
<1>1. ASSUME NEW domains \in DomainList, CreateTenant(a, domains) PROVE TenantsInv'
  BY <1>1, CreateAccountKeeps
<1>2. tenant[a] \in TenantRow
  BY DEF TenantsInv, TenantsTypeOK
<1>3. CASE RotateKey(a)
  <2> DEFINE r == [tenant[a] EXCEPT !.key = @ + 1]
  <2>1. r \in TenantRow /\ r.domains = tenant[a].domains /\ r.key > 0
    BY <1>2, <1>3, TenantsAssumption DEF RotateKey, TenantRow
  <2>2. QED
    BY <1>3, <2>1, UpdateKeeps DEF RotateKey
<1>4. ASSUME NEW active \in BOOLEAN, SetActive(a, active) PROVE TenantsInv'
  <2> DEFINE r == [tenant[a] EXCEPT !.active = active]
  <2>1. r \in TenantRow /\ r.domains = tenant[a].domains /\ r.key > 0
    BY <1>2, <1>4 DEF SetActive, Update, Exists, TenantRow
  <2>2. QED
    BY <1>4, <2>1, UpdateKeeps DEF SetActive
<1>5. QED
  BY <1>1, <1>3, <1>4

-----------------------------------------------------------------------------
(* Edits of a binding.                                                     *)

\* What an edit does to itself, the tables being as they were.
LEMMA EditMoves ==
  ASSUME TenantsInv, NEW e \in Editor, NEW x \in Edit,
         edit' = [edit EXCEPT ![e] = x],
         UNCHANGED <<tenant, bindings, submission, mails>>,
         x.at = "locked" =>
           /\ RowFree(x.of) /\ Exists(x.of)
           /\ x.before = tenant[x.of].domains /\ x.before # x.to
  PROVE  TenantsInv'
<1> USE DEF TenantsInv
<1>1. edit'[e] = x /\ \A f \in Editor : f # e => edit'[f] = edit[f]
  BY DEF TenantsTypeOK
<1>2. TenantsTypeOK'
  BY DEF TenantsTypeOK
<1>3. HistoryChains' /\ CreatedIsRecorded'
  BY DEF HistoryChains, CreatedIsRecorded, Exists
<1>4. MailsAreExplained' /\ CopiesAreExplained'
  BY DEF MailsAreExplained, CopiesAreExplained, Allowed
<1>5. EditsExclude'
  BY <1>1 DEF EditsExclude, RowFree
<1>6. LockedIsCurrent'
  BY <1>1 DEF LockedIsCurrent, Exists
<1>7. QED
  BY <1>2, <1>3, <1>4, <1>5, <1>6

LEMMA BeginEditKeeps ==
  ASSUME TenantsInv, NEW e \in Editor, NEW a \in Account, NEW domains \in DomainList,
         BeginEdit(e, a, domains)
  PROVE  TenantsInv'
<1> DEFINE x == [at |-> "begun", of |-> a, to |-> domains, before |-> << >>]
<1>1. x \in Edit /\ x.at # "locked"
  BY ListType DEF Edit
<1>2. QED
  BY <1>1, EditMoves DEF BeginEdit

LEMMA LeaveKeeps ==
  ASSUME TenantsInv, NEW e \in Editor, LeaveEdit(e),
         UNCHANGED <<tenant, bindings, submission, mails>>
  PROVE  TenantsInv'
<1>1. NoEdit \in Edit /\ NoEdit.at # "locked"
  BY DEF NoEdit, Edit
<1>2. QED
  BY <1>1, EditMoves DEF LeaveEdit

\* The row is locked, and what is read under the lock is what is there.
LEMMA ReadKeeps ==
  ASSUME TenantsInv, NEW e \in Editor, ReadBefore(e)
  PROVE  TenantsInv'
<1> DEFINE a == edit[e].of
           x == [edit[e] EXCEPT !.at = "locked", !.before = tenant[a].domains]
<1>1. edit[e].at = "begun" /\ RowFree(a) /\ UNCHANGED <<tenant, bindings, submission, mails>>
  BY DEF ReadBefore
<1>2. CASE ~Exists(a) \/ tenant[a].domains = edit[e].to
  BY <1>1, <1>2, LeaveKeeps DEF ReadBefore
<1>3. CASE Exists(a) /\ tenant[a].domains # edit[e].to
  <2>1. edit' = [edit EXCEPT ![e].at = "locked", ![e].before = tenant[a].domains]
    BY <1>3 DEF ReadBefore
  <2>2. /\ edit[e] \in [at : {"begun", "locked"}, of : Account, to : DomainList,
                        before : MaybeList]
        /\ a \in Account /\ tenant[a].domains \in MaybeList
    BY <1>1, EditFields DEF TenantsInv, TenantsTypeOK, TenantRow
  <2>3. x \in Edit /\ x.of = a /\ x.to = edit[e].to /\ x.before = tenant[a].domains
    BY <2>2 DEF Edit
  <2>4. edit' = [edit EXCEPT ![e] = x]
    BY <2>1 DEF TenantsInv, TenantsTypeOK
  <2>5. QED
    BY <1>1, <1>3, <2>3, <2>4, EditMoves
<1>4. QED
  BY <1>2, <1>3

\* A history with one more row: the rows it had are where they were.
LEMMA OneMoreRow ==
  ASSUME NEW S, NEW log \in Seq(S), NEW row \in S, NEW new, new = Append(log, row)
  PROVE  /\ new # << >> /\ Len(new) = Len(log) + 1 /\ new[Len(new)] = row
         /\ \A i \in DOMAIN new : i # Len(new) => i \in DOMAIN log
         /\ \A i \in DOMAIN log : i \in DOMAIN new /\ new[i] = log[i]
<1>1. new \in Seq(S) /\ Len(new) = Len(log) + 1
  OBVIOUS
<1>2. DOMAIN log = 1 .. Len(log) /\ DOMAIN new = 1 .. Len(new) /\ Len(log) \in Nat
  BY <1>1
<1>3. new[Len(new)] = row /\ \A i \in 1 .. Len(log) : new[i] = log[i]
  BY <1>1, <1>2
<1>4. QED
  BY <1>1, <1>2, <1>3

\* The update and the record of it: since the row was locked all the while,
\* the record starts from what the last one left.
LEMMA WriteKeeps ==
  ASSUME TenantsInv, NEW e \in Editor, WriteEdit(e)
  PROVE  TenantsInv'
<1> USE DEF TenantsInv
<1> DEFINE a == edit[e].of
           to == edit[e].to
           record == [before |-> edit[e].before, after |-> to]
           log == bindings[a]
<1>1. /\ edit[e].at = "locked"
      /\ tenant' = [tenant EXCEPT ![a].domains = to]
      /\ bindings' = [bindings EXCEPT ![a] = Append(@, record)]
      /\ edit' = [edit EXCEPT ![e] = NoEdit]
      /\ UNCHANGED <<submission, mails>>
  BY DEF WriteEdit, Recorded, LeaveEdit
<1>2. /\ a \in Account /\ to \in DomainList /\ to \in MaybeList
      /\ edit[e].before \in MaybeList
  BY <1>1, EditFields, ListType
<1>3. /\ Exists(a) /\ edit[e].before = tenant[a].domains /\ edit[e].before # to
  BY <1>1 DEF LockedIsCurrent
<1>4. /\ tenant[a] \in TenantRow /\ log \in Seq(Binding) /\ record \in Binding
  BY <1>2 DEF TenantsTypeOK, Binding
<1>5. /\ tenant'[a] = [tenant[a] EXCEPT !.domains = to]
      /\ bindings'[a] = Append(log, record)
      /\ \A b \in Account : b # a => tenant'[b] = tenant[b] /\ bindings'[b] = bindings[b]
  BY <1>1, <1>2, Zenon DEF TenantsTypeOK
<1>6. tenant'[a] \in TenantRow /\ tenant'[a].domains = to /\ tenant'[a].key = tenant[a].key
  BY <1>2, <1>4, <1>5 DEF TenantRow
<1>7. TenantsTypeOK'
  <2>1. tenant' \in [Account -> TenantRow]
    BY <1>1, <1>5, <1>6 DEF TenantsTypeOK
  <2>2. Append(log, record) \in Seq(Binding)
    BY <1>4
  <2>3. bindings' \in [Account -> Seq(Binding)]
    BY <1>1, <2>2 DEF TenantsTypeOK
  <2>4. edit' \in [Editor -> Edit]
    BY <1>1 DEF TenantsTypeOK, NoEdit, Edit
  <2>5. QED
    BY <1>1, <2>1, <2>3, <2>4 DEF TenantsTypeOK
<1>8. HistoryChains'
  <2> DEFINE new == bindings'[a]
  <2>1. /\ new # << >> /\ Len(new) = Len(log) + 1 /\ new[Len(new)] = record
        /\ \A i \in DOMAIN new : i # Len(new) => i \in DOMAIN log
        /\ \A i \in DOMAIN log : i \in DOMAIN new /\ new[i] = log[i]
    <3> HIDE DEF record, log
    <3>1. new = Append(log, record)
      BY <1>5
    <3>2. QED
      BY <1>4, <3>1, OneMoreRow
  <2>2. tenant'[a].domains = bindings'[a][Len(bindings'[a])].after
    BY <1>6, <2>1
  <2>3. ASSUME NEW i \in DOMAIN bindings'[a]
        PROVE  /\ bindings'[a][i].before = IF i = 1 THEN << >> ELSE bindings'[a][i - 1].after
               /\ bindings'[a][i].before # bindings'[a][i].after
    <3>1. CASE i = Len(bindings'[a])
      <4>1. bindings'[a][i].before = tenant[a].domains /\ bindings'[a][i].after = to
        BY <1>3, <2>1, <3>1
      <4>2. tenant[a].domains = IF log = << >> THEN << >> ELSE log[Len(log)].after
        BY <1>2 DEF HistoryChains
      <4>3. CASE log = << >>
        BY <1>3, <2>1, <3>1, <4>1, <4>2, <4>3
      <4>4. CASE log # << >>
        <5>1. i # 1 /\ i - 1 = Len(log) /\ i - 1 \in DOMAIN log
          BY <1>4, <2>1, <3>1, <4>4
        <5>2. bindings'[a][i - 1] = log[Len(log)]
          BY <2>1, <5>1
        <5>3. QED
          BY <1>3, <4>1, <4>2, <4>4, <5>1, <5>2
      <4>5. QED
        BY <4>3, <4>4
    <3>2. CASE i # Len(bindings'[a])
      <4>1. i \in DOMAIN log /\ bindings'[a][i] = log[i]
        BY <2>1, <3>2
      <4>2. i # 1 => i - 1 \in DOMAIN log /\ bindings'[a][i - 1] = log[i - 1]
        BY <1>4, <2>1, <4>1
      <4>3. /\ log[i].before = IF i = 1 THEN << >> ELSE log[i - 1].after
            /\ log[i].before # log[i].after
        BY <1>2, <4>1 DEF HistoryChains
      <4>4. QED
        BY <4>1, <4>2, <4>3
    <3>3. QED
      BY <3>1, <3>2
  <2>4. ASSUME NEW b \in Account, b # a
        PROVE  tenant'[b] = tenant[b] /\ bindings'[b] = bindings[b]
    BY <1>5, <2>4
  <2> HIDE DEF new
  <2>5. /\ tenant'[a].domains = IF new = << >> THEN << >> ELSE new[Len(new)].after
        /\ \A i \in DOMAIN new :
             /\ new[i].before = IF i = 1 THEN << >> ELSE new[i - 1].after
             /\ new[i].before # new[i].after
    BY <2>1, <2>2, <2>3 DEF new
  <2>6. QED
    BY <2>4, <2>5 DEF HistoryChains, new
<1>9. ASSUME NEW b \in Account, NEW d, Allowed(b, d)
      PROVE  Allowed(b, d)'
  <2>1. \A i \in DOMAIN bindings[b] :
          i \in DOMAIN bindings'[b] /\ bindings'[b][i] = bindings[b][i]
    <3> HIDE DEF record, log
    <3>1. CASE b = a
      <4>1. bindings'[a] = Append(log, record)
        BY <1>5
      <4>2. \A i \in DOMAIN log : i \in DOMAIN bindings'[a] /\ bindings'[a][i] = log[i]
        BY <1>4, <4>1, OneMoreRow
      <4>3. QED
        BY <3>1, <4>2 DEF log
    <3>2. CASE b # a
      BY <1>5, <3>2
    <3>3. QED
      BY <3>1, <3>2
  <2>2. QED
    BY <1>9, <2>1 DEF Allowed
<1>10. MailsAreExplained' /\ CopiesAreExplained'
  <2>1. MailsAreExplained'
    BY <1>1, <1>9 DEF MailsAreExplained, Allowed, TenantsTypeOK
  <2>2. CopiesAreExplained'
    BY <1>1, <1>9, SubmissionFields DEF CopiesAreExplained
  <2>3. QED
    BY <2>1, <2>2
<1>11. \A f \in Editor : edit'[f].at = "locked" =>
         f # e /\ edit'[f] = edit[f] /\ edit[f].of # a /\ edit[f].of \in Account
  BY <1>1, EditFields DEF EditsExclude, NoEdit, TenantsTypeOK
<1>12. EditsExclude'
  BY <1>11 DEF EditsExclude
<1>13. LockedIsCurrent'
  BY <1>5, <1>11 DEF LockedIsCurrent, Exists
<1>14. CreatedIsRecorded'
  BY <1>3, <1>5, <1>6 DEF CreatedIsRecorded, Exists
<1>15. QED
  BY <1>7, <1>8, <1>10, <1>12, <1>13, <1>14

-----------------------------------------------------------------------------
(* Submissions.                                                            *)

\* The tenant as it is now is explained by its history, so a copy made now
\* is too.
LEMMA AuthenticateKeeps ==
  ASSUME TenantsInv, NEW s \in Submission, NEW a \in Account, NEW key \in 1 .. MaxKeys,
         NEW from \in Domain, Authenticate(s, a, key, from)
  PROVE  TenantsInv'
<1> USE DEF TenantsInv
<1> DEFINE copy == [open |-> TRUE, of |-> a, allowed |-> tenant[a].domains, from |-> from]
<1>1. /\ submission' = [submission EXCEPT ![s] = copy]
      /\ UNCHANGED <<tenant, bindings, edit, mails>>
  BY DEF Authenticate
<1>2. TenantsTypeOK'
  <2>1. copy \in Open
    BY DEF Open, TenantsTypeOK, TenantRow
  <2>2. QED
    BY <1>1, <2>1 DEF TenantsTypeOK
<1>3. ASSUME NEW d \in Range(tenant[a].domains) PROVE Allowed(a, d)
  <2>1. bindings[a] \in Seq(Binding)
    BY DEF TenantsTypeOK
  <2>2. bindings[a] # << >>
    BY <1>3 DEF HistoryChains, Range
  <2>3. Len(bindings[a]) \in DOMAIN bindings[a]
    BY <2>1, <2>2
  <2>4. tenant[a].domains = bindings[a][Len(bindings[a])].after
    BY <2>2 DEF HistoryChains
  <2>5. QED
    BY <1>3, <2>3, <2>4 DEF Allowed
<1>4. CopiesAreExplained'
  BY <1>1, <1>3 DEF CopiesAreExplained, Allowed, TenantsTypeOK
<1>5. HistoryChains' /\ MailsAreExplained' /\ CreatedIsRecorded'
  BY <1>1 DEF HistoryChains, MailsAreExplained, CreatedIsRecorded, Exists
<1>6. EditsExclude' /\ LockedIsCurrent'
  BY <1>1 DEF EditsExclude, LockedIsCurrent, Exists
<1>7. QED
  BY <1>2, <1>4, <1>5, <1>6

\* A mail is accepted only if the copy allows it.
LEMMA AnswerKeeps ==
  ASSUME TenantsInv, NEW s \in Submission, AcceptMail(s) \/ RejectMail(s)
  PROVE  TenantsInv'
<1> USE DEF TenantsInv
<1> DEFINE mail == [tenant |-> submission[s].of, from |-> submission[s].from]
<1>1. /\ submission' = [submission EXCEPT ![s] = NoSubmission] /\ submission[s].open
      /\ UNCHANGED <<tenant, bindings, edit>>
      /\ mails' = mails \/ (mails' = mails \cup {mail} /\ MaySendAs(s))
  BY DEF AcceptMail, RejectMail, Answered
<1>2. /\ submission[s].of \in Account /\ submission[s].from \in Domain
  BY <1>1, SubmissionFields
<1>3. TenantsTypeOK'
  <2>1. submission' \in [Submission -> Open]
    BY <1>1 DEF TenantsTypeOK, Open
  <2>2. mails' \subseteq [tenant : Account, from : Domain]
    BY <1>1, <1>2 DEF TenantsTypeOK
  <2>3. QED
    BY <1>1, <2>1, <2>2 DEF TenantsTypeOK
<1>4. MailsAreExplained'
  <2>1. MaySendAs(s) => Allowed(mail.tenant, mail.from)
    BY <1>1 DEF MaySendAs, CopiesAreExplained
  <2>2. QED
    BY <1>1, <2>1 DEF MailsAreExplained, Allowed
<1>5. CopiesAreExplained'
  BY <1>1 DEF CopiesAreExplained, Allowed, NoSubmission, TenantsTypeOK
<1>6. HistoryChains' /\ CreatedIsRecorded'
  BY <1>1 DEF HistoryChains, CreatedIsRecorded, Exists
<1>7. EditsExclude' /\ LockedIsCurrent'
  BY <1>1 DEF EditsExclude, LockedIsCurrent, Exists
<1>8. QED
  BY <1>3, <1>4, <1>5, <1>6, <1>7

-----------------------------------------------------------------------------
(* The theorems.                                                           *)

LEMMA TenantsInvInit == TenantsInit => TenantsInv
<1> SUFFICES ASSUME TenantsInit PROVE TenantsInv
  OBVIOUS
<1>1. TenantsTypeOK
  <2>1. NoTenant \in TenantRow
    BY ListType, TenantsAssumption DEF NoTenant, TenantRow
  <2>2. QED
    BY <2>1 DEF TenantsInit, TenantsTypeOK, Edit, Open
<1>2. HistoryChains /\ MailsAreExplained /\ CreatedIsRecorded
  BY DEF TenantsInit, HistoryChains, MailsAreExplained, CreatedIsRecorded, NoTenant
<1>3. EditsExclude /\ LockedIsCurrent /\ CopiesAreExplained
  BY DEF TenantsInit, EditsExclude, LockedIsCurrent, CopiesAreExplained, NoEdit,
         NoSubmission
<1>4. QED
  BY <1>1, <1>2, <1>3 DEF TenantsInv

LEMMA TenantsInvStep == TenantsInv /\ [TenantsNext]_tenantVars => TenantsInv'
<1> SUFFICES ASSUME TenantsInv, [TenantsNext]_tenantVars PROVE TenantsInv'
  OBVIOUS
<1>1. CASE UNCHANGED tenantVars
  BY <1>1 DEF tenantVars, TenantsInv, TenantsTypeOK, HistoryChains, MailsAreExplained,
              EditsExclude, LockedIsCurrent, CreatedIsRecorded, CopiesAreExplained,
              Allowed, Exists
<1>2. ASSUME NEW a \in Account,
             \/ \E domains \in DomainList : CreateTenant(a, domains)
             \/ RotateKey(a)
             \/ \E active \in BOOLEAN : SetActive(a, active)
      PROVE  TenantsInv'
  BY <1>2, AdministrationKeeps
<1>3. ASSUME NEW e \in Editor, NEW a \in Account, NEW domains \in DomainList,
             BeginEdit(e, a, domains)
      PROVE  TenantsInv'
  BY <1>3, BeginEditKeeps
<1>4. ASSUME NEW e \in Editor, ReadBefore(e) \/ WriteEdit(e) \/ AbandonEdit(e)
      PROVE  TenantsInv'
  BY <1>4, ReadKeeps, WriteKeeps, LeaveKeeps DEF AbandonEdit
<1>5. ASSUME NEW s \in Submission, NEW a \in Account, NEW key \in 1 .. MaxKeys,
             NEW from \in Domain, Authenticate(s, a, key, from)
      PROVE  TenantsInv'
  BY <1>5, AuthenticateKeeps
<1>6. ASSUME NEW s \in Submission, AcceptMail(s) \/ RejectMail(s)
      PROVE  TenantsInv'
  BY <1>6, AnswerKeeps
<1>7. QED
  BY <1>1, <1>2, <1>3, <1>4, <1>5, <1>6 DEF TenantsNext

\* The invariant of the tenants: types, locks, history and copies together.
THEOREM TenantsInvariant == TenantsSpec => []TenantsInv
  BY TenantsInvInit, TenantsInvStep, PTL DEF TenantsSpec

\* The history of a tenant's domains is complete and chains, whatever edits
\* run at once: tenant::set_domains reads what it replaces under a lock.
THEOREM HistoryIsTrue == TenantsSpec => []HistoryChains
<1>1. TenantsInv => HistoryChains
  BY DEF TenantsInv
<1>2. QED
  BY <1>1, TenantsInvariant, PTL

\* Every accepted message is explained by a row of the history, however the
\* tenant changes while it is submitted (messages::submit).
THEOREM HistoryExplainsMails == TenantsSpec => []MailsAreExplained
<1>1. TenantsInv => MailsAreExplained
  BY DEF TenantsInv
<1>2. QED
  BY <1>1, TenantsInvariant, PTL

=============================================================================
