--------------------------- MODULE PostbudProofs ---------------------------
(***************************************************************************)
(* Theorems about module Postbud, for every set of callers, tenants, keys  *)
(* and addresses; through QueueUnderneath every theorem of QueueProofs is  *)
(* one about the service too.                                              *)
(***************************************************************************)
EXTENDS Postbud, QueueProofs

-----------------------------------------------------------------------------
(* The composition.                                                        *)

\* An open call holds what was submitted and a yes or no of the list.
LEMMA OpenCall ==
  ASSUME ServiceTypeOK, NEW c \in Caller, call[c].open
  PROVE  call[c].suppressed \in BOOLEAN /\ call[c].content \in Content
<1>1. call[c] \in Call
  BY DEF ServiceTypeOK
<1>2. call[c] # NoCall
  BY DEF NoCall
<1>3. QED
  BY <1>1, <1>2 DEF Call

\* An edit of the suppression list leaves everything else alone.
ListStep ==
  \/ \E tenant \in Tenant \cup {Everyone}, address \in Address :
       AddManually(tenant, address)
  \/ \E m \in Msg : Bounce(m)
  \/ \E i \in DOMAIN entry : Remove(i)

LEMMA ListStepFrame ==
  ListStep => UNCHANGED <<vars, content, call, answers>>
  BY DEF ListStep, AddManually, Bounce, Add, Remove

LEMMA ServiceRefinesQueue ==
  ServiceTypeOK /\ [ServiceNext]_serviceVars => [Next]_vars
<1> SUFFICES ASSUME ServiceTypeOK, [ServiceNext]_serviceVars PROVE [Next]_vars
  OBVIOUS
<1>1. ASSUME NEW c \in Caller, NEW new \in Content, Submit(c, new)
      PROVE  [Next]_vars
  BY <1>1 DEF Submit
<1>2. ASSUME NEW c \in Caller, NEW m \in Msg,
             Insert(c, m) \/ Deduplicate(c, m)
      PROVE  [Next]_vars
  <2>1. CASE Insert(c, m)
    <3>1. call[c].suppressed \in BOOLEAN
      BY <2>1, OpenCall DEF Insert
    <3>2. QED
      BY <2>1, <3>1 DEF Insert, Next
  <2>2. CASE Deduplicate(c, m)
    BY <2>2 DEF Deduplicate
  <2>3. QED
    BY <1>2, <2>1, <2>2
<1>3. ASSUME NEW c \in Caller, Abort(c)
      PROVE  [Next]_vars
  BY <1>3 DEF Abort
<1>4. CASE ListStep
  BY <1>4, ListStepFrame
<1>5. CASE QueueStep
  BY <1>5 DEF QueueStep, Next
<1>6. CASE UNCHANGED serviceVars
  BY <1>6 DEF serviceVars
<1>7. QED
  BY <1>1, <1>2, <1>3, <1>4, <1>5, <1>6 DEF ServiceNext, ListStep

-----------------------------------------------------------------------------
(* The queue's steps, as the service sees them.                            *)

\* The queue alone never accepts a message, and suppresses none.
LEMMA QueueStepStatus ==
  ASSUME TypeOK, QueueStep, NEW k \in Msg
  PROVE  row'[k].status \in {"sent", "failed", row[k].status}
<1>a. row[k] \in Row
  BY DEF TypeOK
<1>1. ASSUME NEW w \in Worker, Claim(w)
      PROVE  row'[k].status = row[k].status
  <2>1. PICK S \in SUBSET Msg : ClaimTakes(w, S)
    BY <1>1, ClaimFrame
  <2>2. QED
    BY <1>a, <2>1 DEF ClaimTakes, Row
<1>2. ASSUME NEW w \in Worker, NEW m \in Msg,
             Deliver(w, m) \/ RecordingFails(w, m) \/ Crash(w)
      PROVE  row' = row
  BY <1>2 DEF Deliver, HandOver, Refuse, HandOverUnheard, RecordingFails, Crash
<1>3. ASSUME NEW w \in Worker, NEW m \in Msg, Settle(w, m)
      PROVE  row'[k].status \in {"sent", "failed", row[k].status}
  <2>1. CASE k = m
    BY <1>3, <2>1, SettleWrites
  <2>2. CASE k # m
    <3>1. PICK newRow, outcome : Record(w, m, newRow, outcome)
      BY <1>3 DEF Settle, RecordAccepted, RecordTransient, RecordFailed
    <3>2. row'[k] = row[k]
      BY <2>2, <3>1, RecordFrame
    <3>3. QED
      BY <3>2
  <2>3. QED
    BY <2>1, <2>2
<1>4. ASSUME NEW w \in Worker, WorkerStep(w)
      PROVE  row'[k].status \in {"sent", "failed", row[k].status}
  BY <1>1, <1>2, <1>3, <1>4 DEF WorkerStep
<1>5. CASE Tick
  BY <1>a, <1>5 DEF Tick, Aged, Row
<1>6. CASE Purge
  <2>1. row'[k] = row[k] \/ row'[k] = [row[k] EXCEPT !.body = FALSE]
    BY <1>6 DEF Purge
  <2>2. QED
    BY <1>a, <2>1 DEF Row
<1>7. QED
  BY <1>4, <1>5, <1>6 DEF QueueStep

-----------------------------------------------------------------------------
(* What callers and the list leave behind.                                 *)

WrittenIsAccepted == \A m \in Msg : Written(m) => row[m].status # "absent"

\* An address is suppressed for a tenant, now or once.
Explained(tenant, address) ==
  \E i \in DOMAIN entry : entry[i].address = address /\ Visible(i, tenant)

\* The answer of the list that a call is holding was true when it was given.
CallsExplained ==
  \A c \in Caller : call[c].open /\ call[c].suppressed =>
    Explained(call[c].content.tenant, call[c].content.rcpt)

MessagesExplained ==
  \A m \in Msg : row[m].status = "suppressed" =>
    Written(m) /\ Explained(content[m].tenant, content[m].rcpt)

AnswersTrue ==
  \A a \in answers :
    /\ Written(a.msg)
    /\ content[a.msg].tenant = a.tenant /\ content[a.msg].key = a.key

ServiceInv ==
  /\ TypeOK /\ ServiceTypeOK
  /\ WrittenIsAccepted /\ OneMessagePerKey /\ AnswersTrue
  /\ CallsExplained /\ MessagesExplained /\ OneActiveEntry

\* A list only grows and entries are only lifted, so what it explained once
\* it explains for good.
LEMMA ListStepKeeps ==
  ASSUME ServiceTypeOK, OneActiveEntry, ListStep
  PROVE  /\ entry' \in Seq(Entry)
         /\ OneActiveEntry'
         /\ \A tenant \in Tenant \cup {Everyone}, address \in Address :
              Explained(tenant, address) => Explained(tenant, address)'
<1>a. entry \in Seq(Entry) /\ content \in [Msg -> Content \cup {Unwritten}]
  BY DEF ServiceTypeOK
<1>1. ASSUME NEW tenant \in Tenant \cup {Everyone}, NEW address \in Address,
             NEW reason \in {"manual", "hard_bounce"},
             Add(tenant, address, reason)
      PROVE  /\ entry' \in Seq(Entry)
             /\ OneActiveEntry'
             /\ \A i \in DOMAIN entry : i \in DOMAIN entry' /\ entry'[i] = entry[i]
  <2> DEFINE e == [tenant |-> tenant, address |-> address, reason |-> reason,
                   active |-> TRUE]
  <2>1. e \in Entry
    BY DEF Entry
  <2>2. entry' = Append(entry, e) /\ ~Listed(tenant, address)
    BY <1>1 DEF Add
  <2>3. e.tenant = tenant /\ e.address = address
    OBVIOUS
  <2> HIDE DEF e
  <2>4. /\ entry' \in Seq(Entry)
        /\ \A i \in DOMAIN entry : i \in DOMAIN entry' /\ entry'[i] = entry[i]
        /\ \A i \in DOMAIN entry' : i \in DOMAIN entry \/ i = Len(entry) + 1
        /\ entry'[Len(entry) + 1] = e
    BY <1>a, <2>1, <2>2
  <2>5. ASSUME NEW i \in DOMAIN entry', NEW j \in DOMAIN entry',
               entry'[i].active, entry'[j].active,
               entry'[i].tenant = entry'[j].tenant,
               entry'[i].address = entry'[j].address
        PROVE  i = j
    <3>1. CASE i \in DOMAIN entry /\ j \in DOMAIN entry
      BY <2>4, <2>5, <3>1 DEF OneActiveEntry
    <3>2. CASE i \notin DOMAIN entry /\ j \notin DOMAIN entry
      BY <2>4, <3>2
    <3>3. CASE i \in DOMAIN entry /\ j \notin DOMAIN entry
      BY <2>2, <2>3, <2>4, <2>5, <3>3, ZenonT(30) DEF Listed
    <3>4. CASE i \notin DOMAIN entry /\ j \in DOMAIN entry
      BY <2>2, <2>3, <2>4, <2>5, <3>4, ZenonT(30) DEF Listed
    <3>5. QED
      BY <3>1, <3>2, <3>3, <3>4
  <2>6. OneActiveEntry'
    BY <2>5 DEF OneActiveEntry
  <2>7. QED
    BY <2>4, <2>6
<1>2. ASSUME NEW k \in DOMAIN entry, Remove(k)
      PROVE  /\ entry' \in Seq(Entry)
             /\ OneActiveEntry'
             /\ \A i \in DOMAIN entry : /\ i \in DOMAIN entry'
                                        /\ entry'[i].tenant = entry[i].tenant
                                        /\ entry'[i].address = entry[i].address
  <2>1. entry' = [entry EXCEPT ![k].active = FALSE]
    BY <1>2 DEF Remove
  <2>a. entry[k] \in Entry
    BY <1>a
  <2>b. \A e \in Entry : [e EXCEPT !.active = FALSE] \in Entry
    BY DEF Entry
  <2>2. entry[k] \in Entry /\ [entry[k] EXCEPT !.active = FALSE] \in Entry
    BY <2>a, <2>b
  <2>3. entry' \in Seq(Entry) /\ DOMAIN entry' = DOMAIN entry
    BY <1>a, <2>1, <2>2
  <2>4. \A i \in DOMAIN entry :
          /\ entry'[i].tenant = entry[i].tenant
          /\ entry'[i].address = entry[i].address
          /\ i # k => entry'[i] = entry[i]
    BY <1>a, <2>1, <2>2 DEF Entry
  <2>5. ~entry'[k].active
    BY <1>a, <2>1, <2>2 DEF Entry
  <2>6. OneActiveEntry'
    <3> SUFFICES ASSUME NEW i \in DOMAIN entry', NEW j \in DOMAIN entry',
                        entry'[i].active, entry'[j].active,
                        entry'[i].tenant = entry'[j].tenant,
                        entry'[i].address = entry'[j].address
                 PROVE  i = j
      BY DEF OneActiveEntry
    <3>1. i # k /\ j # k
      BY <2>5
    <3>2. QED
      BY <2>3, <2>4, <3>1 DEF OneActiveEntry
  <2>7. QED
    BY <2>3, <2>4, <2>6
<1>3. ASSUME NEW m \in Msg, Bounce(m)
      PROVE  /\ entry' \in Seq(Entry)
             /\ OneActiveEntry'
             /\ \A i \in DOMAIN entry : i \in DOMAIN entry' /\ entry'[i] = entry[i]
  <2>1. Add(Everyone, content[m].rcpt, "hard_bounce") /\ Written(m)
    BY <1>3 DEF Bounce
  <2>2. content[m].rcpt \in Address
    BY <1>a, <2>1 DEF Written, Content
  <2>3. QED
    BY <1>1, <2>1, <2>2
<1>4. ASSUME NEW tenant \in Tenant \cup {Everyone}, NEW address \in Address,
             AddManually(tenant, address)
      PROVE  /\ entry' \in Seq(Entry)
             /\ OneActiveEntry'
             /\ \A i \in DOMAIN entry : i \in DOMAIN entry' /\ entry'[i] = entry[i]
  BY <1>1, <1>4 DEF AddManually
<1>5. /\ entry' \in Seq(Entry)
      /\ OneActiveEntry'
      /\ \A i \in DOMAIN entry : /\ i \in DOMAIN entry'
                                 /\ entry'[i].tenant = entry[i].tenant
                                 /\ entry'[i].address = entry[i].address
  BY <1>2, <1>3, <1>4 DEF ListStep
<1>6. QED
  BY <1>5 DEF Explained, Visible

LEMMA Lookup ==
  ASSUME NEW tenant, NEW address, IsSuppressed(tenant, address)
  PROVE  Explained(tenant, address)
  BY DEF IsSuppressed, Explained

LEMMA ReplyFrame ==
  ASSUME ServiceTypeOK, NEW c \in Caller, NEW m \in Msg, call[c].open, Reply(c, m)
  PROVE  /\ call' \in [Caller -> Call]
         /\ ~call'[c].open
         /\ \A d \in Caller : d # c => call'[d] = call[d]
         /\ answers' \subseteq [tenant : Tenant, key : Key, msg : Msg]
         /\ \A a \in answers' : a \in answers \/
              /\ a.msg = m
              /\ a.tenant = call[c].content.tenant
              /\ a.key = call[c].content.key
<1>1. NoCall \in Call /\ ~NoCall.open
  BY DEF Call, NoCall
<1>2. call[c].content \in Content
  BY OpenCall
<1>3. call' = [call EXCEPT ![c] = NoCall]
  BY DEF Reply
<1>4. /\ call' \in [Caller -> Call]
      /\ ~call'[c].open
      /\ \A d \in Caller : d # c => call'[d] = call[d]
  BY <1>1, <1>3 DEF ServiceTypeOK
<1>5. call[c].content.tenant \in Tenant /\ call[c].content.key \in Key
  BY <1>2 DEF Content
<1>6. QED
  BY <1>4, <1>5 DEF Reply, ServiceTypeOK

\* The unwritten is no content.
LEMMA UnwrittenIsNot == Unwritten \notin Content
  BY PostbudAssumption DEF Unwritten, Content

LEMMA InsertStep ==
  ASSUME ServiceInv, NEW c \in Caller, NEW m \in Msg, Insert(c, m)
  PROVE  /\ ServiceTypeOK' /\ WrittenIsAccepted' /\ OneMessagePerKey'
         /\ AnswersTrue' /\ CallsExplained' /\ MessagesExplained'
         /\ OneActiveEntry'
<1> DEFINE new == call[c].content
<1>1. /\ TypeOK /\ ServiceTypeOK /\ WrittenIsAccepted /\ OneMessagePerKey
      /\ AnswersTrue /\ CallsExplained /\ MessagesExplained /\ OneActiveEntry
  BY DEF ServiceInv
<1>2. /\ call[c].open /\ row[m].status = "absent" /\ entry' = entry
      /\ \A other \in Msg : ~Same(other, new)
      /\ Accept(m, call[c].suppressed) /\ Reply(c, m)
      /\ content' = [content EXCEPT ![m] = new]
  BY DEF Insert, Accept
<1>3. new \in Content /\ call[c].suppressed \in BOOLEAN
  BY <1>1, <1>2, OpenCall
<1> HIDE DEF new
<1>4. /\ call' \in [Caller -> Call]
      /\ ~call'[c].open
      /\ \A d \in Caller : d # c => call'[d] = call[d]
      /\ answers' \subseteq [tenant : Tenant, key : Key, msg : Msg]
      /\ \A a \in answers' : a \in answers \/
           (a.msg = m /\ a.tenant = new.tenant /\ a.key = new.key)
  BY <1>1, <1>2, ReplyFrame DEF new
<1>5. /\ content' \in [Msg -> Content \cup {Unwritten}]
      /\ content'[m] = new
      /\ \A k \in Msg : k # m => content'[k] = content[k]
  BY <1>1, <1>2, <1>3 DEF ServiceTypeOK
<1>6. /\ row'[m] = NewRow(call[c].suppressed)
      /\ \A k \in Msg : k # m => row'[k] = row[k]
  BY <1>1, <1>2 DEF Accept, TypeOK
<1>7. row'[m].status = IF call[c].suppressed THEN "suppressed" ELSE "queued"
  BY <1>6 DEF NewRow, Absent
<1>8. ~Written(m)
  BY <1>1, <1>2 DEF WrittenIsAccepted
<1>9. ServiceTypeOK'
  BY <1>1, <1>2, <1>4, <1>5 DEF ServiceTypeOK
<1>10. WrittenIsAccepted'
  <2>1. row'[m].status # "absent"
    BY <1>7
  <2>2. QED
    BY <1>1, <1>5, <1>6, <2>1 DEF WrittenIsAccepted, Written
<1>11. OneMessagePerKey'
  <2> SUFFICES ASSUME NEW k \in Msg, NEW l \in Msg,
                      content'[k] # Unwritten, content'[l] # Unwritten,
                      content'[k].tenant = content'[l].tenant,
                      content'[k].key = content'[l].key
               PROVE  k = l
    BY DEF OneMessagePerKey, Written
  <2>1. CASE k = m /\ l # m
    BY <1>2, <1>5, <2>1 DEF Same, Written
  <2>2. CASE k # m /\ l = m
    BY <1>2, <1>5, <2>2 DEF Same, Written
  <2>3. CASE k # m /\ l # m
    BY <1>1, <1>5, <2>3 DEF OneMessagePerKey, Written
  <2>4. QED
    BY <2>1, <2>2, <2>3
<1>12. AnswersTrue'
  <2> SUFFICES ASSUME NEW a \in answers'
               PROVE  /\ content'[a.msg] # Unwritten
                      /\ content'[a.msg].tenant = a.tenant
                      /\ content'[a.msg].key = a.key
    BY DEF AnswersTrue, Written
  <2>1. CASE a \in answers
    <3>1. a.msg \in Msg /\ a.msg # m
      BY <1>1, <1>8, <2>1 DEF AnswersTrue, ServiceTypeOK
    <3>2. QED
      BY <1>1, <1>5, <2>1, <3>1 DEF AnswersTrue, Written
  <2>2. CASE a \notin answers
    <3>1. new # Unwritten
      BY <1>3, UnwrittenIsNot
    <3>2. QED
      BY <1>4, <1>5, <2>2, <3>1
  <2>3. QED
    BY <2>1, <2>2
<1>13. CallsExplained'
  BY <1>1, <1>2, <1>4 DEF CallsExplained, Explained, Visible
<1>14. MessagesExplained'
  <2> SUFFICES ASSUME NEW k \in Msg, row'[k].status = "suppressed"
               PROVE  Written(k)' /\ Explained(content[k].tenant, content[k].rcpt)'
    BY DEF MessagesExplained
  <2>1. CASE k = m
    <3>1. call[c].suppressed
      BY <1>7, <2>1
    <3>2. Explained(new.tenant, new.rcpt)
      BY <1>1, <1>2, <3>1 DEF CallsExplained, new
    <3>3. Written(k)'
      BY <1>3, <1>5, <2>1, UnwrittenIsNot DEF Written
    <3>4. QED
      BY <1>2, <1>5, <2>1, <3>2, <3>3 DEF Explained, Visible
  <2>2. CASE k # m
    BY <1>1, <1>2, <1>5, <1>6, <2>2
       DEF MessagesExplained, Explained, Visible, Written
  <2>3. QED
    BY <2>1, <2>2
<1>15. OneActiveEntry'
  BY <1>1, <1>2 DEF OneActiveEntry
<1>16. QED
  BY <1>9, <1>10, <1>11, <1>12, <1>13, <1>14, <1>15

LEMMA ServiceStep ==
  ServiceInv /\ [ServiceNext]_serviceVars => ServiceInv'
<1> SUFFICES ASSUME ServiceInv, [ServiceNext]_serviceVars PROVE ServiceInv'
  OBVIOUS
<1>1. /\ TypeOK /\ ServiceTypeOK /\ WrittenIsAccepted /\ OneMessagePerKey
      /\ AnswersTrue /\ CallsExplained /\ MessagesExplained /\ OneActiveEntry
  BY DEF ServiceInv
<1>2. TypeOK'
  BY <1>1, ServiceRefinesQueue, TypeStep
<1>3. ASSUME UNCHANGED <<content, entry>>, ServiceTypeOK', AnswersTrue',
             CallsExplained',
             \A k \in Msg : row'[k].status \in {"sent", "failed", row[k].status}
      PROVE  ServiceInv'
  <2>1. WrittenIsAccepted'
    BY <1>1, <1>3 DEF WrittenIsAccepted, Written
  <2>2. OneMessagePerKey'
    BY <1>1, <1>3 DEF OneMessagePerKey, Written
  <2>3. MessagesExplained'
    BY <1>1, <1>3 DEF MessagesExplained, Explained, Visible, Written
  <2>4. OneActiveEntry'
    BY <1>1, <1>3 DEF OneActiveEntry
  <2>5. QED
    BY <1>2, <1>3, <2>1, <2>2, <2>3, <2>4 DEF ServiceInv
<1>4. ASSUME NEW c \in Caller, NEW new \in Content, Submit(c, new)
      PROVE  ServiceInv'
  <2> DEFINE it == [open |-> TRUE, content |-> new,
                    suppressed |-> IsSuppressed(new.tenant, new.rcpt)]
  <2>1. /\ UNCHANGED <<content, entry, answers, row>>
        /\ call' = [call EXCEPT ![c] = it]
    BY <1>4 DEF Submit, vars
  <2>2. IsSuppressed(new.tenant, new.rcpt) \in BOOLEAN
    BY DEF IsSuppressed
  <2>3. it \in Call
    BY <2>2 DEF Call
  <2>4. /\ it.content = new
        /\ it.suppressed => Explained(new.tenant, new.rcpt)
    BY Lookup
  <2> HIDE DEF it
  <2>5. call' \in [Caller -> Call] /\ call'[c] = it
        /\ \A d \in Caller : d # c => call'[d] = call[d]
    BY <1>1, <2>1, <2>3 DEF ServiceTypeOK
  <2>6. ServiceTypeOK'
    BY <1>1, <2>1, <2>5 DEF ServiceTypeOK
  <2>7. CallsExplained'
    BY <1>1, <2>1, <2>4, <2>5 DEF CallsExplained, Explained, Visible
  <2>8. AnswersTrue'
    BY <1>1, <2>1 DEF AnswersTrue, Written
  <2>9. QED
    BY <1>3, <2>1, <2>6, <2>7, <2>8
<1>5. ASSUME NEW c \in Caller, NEW m \in Msg, Insert(c, m)
      PROVE  ServiceInv'
  BY <1>2, <1>5, InsertStep DEF ServiceInv
<1>6. ASSUME NEW c \in Caller, NEW m \in Msg, Deduplicate(c, m)
      PROVE  ServiceInv'
  <2>1. /\ UNCHANGED <<content, entry, row>>
        /\ call[c].open /\ Same(m, call[c].content) /\ Reply(c, m)
    BY <1>6 DEF Deduplicate, vars
  <2>2. /\ call' \in [Caller -> Call]
        /\ ~call'[c].open
        /\ \A d \in Caller : d # c => call'[d] = call[d]
        /\ answers' \subseteq [tenant : Tenant, key : Key, msg : Msg]
        /\ \A a \in answers' : a \in answers \/
             /\ a.msg = m
             /\ a.tenant = call[c].content.tenant
             /\ a.key = call[c].content.key
    BY <1>1, <2>1, ReplyFrame
  <2>3. ServiceTypeOK'
    BY <1>1, <2>1, <2>2 DEF ServiceTypeOK
  <2>4. CallsExplained'
    BY <1>1, <2>1, <2>2 DEF CallsExplained, Explained, Visible
  <2>5. AnswersTrue'
    BY <1>1, <2>1, <2>2 DEF AnswersTrue, Same, Written
  <2>6. QED
    BY <1>3, <2>1, <2>3, <2>4, <2>5
<1>7. ASSUME NEW c \in Caller, Abort(c)
      PROVE  ServiceInv'
  <2>1. /\ UNCHANGED <<content, entry, row, answers>>
        /\ call' = [call EXCEPT ![c] = NoCall]
    BY <1>7 DEF Abort, vars
  <2>2. NoCall \in Call /\ ~NoCall.open
    BY DEF Call, NoCall
  <2>3. ServiceTypeOK'
    BY <1>1, <2>1, <2>2 DEF ServiceTypeOK
  <2>4. CallsExplained'
    BY <1>1, <2>1, <2>2 DEF CallsExplained, Explained, Visible, ServiceTypeOK
  <2>5. AnswersTrue'
    BY <1>1, <2>1 DEF AnswersTrue, Written
  <2>6. QED
    BY <1>3, <2>1, <2>3, <2>4, <2>5
<1>8. CASE ListStep
  <2>1. /\ UNCHANGED <<content, call, answers, row>>
        /\ entry' \in Seq(Entry)
        /\ OneActiveEntry'
        /\ \A tenant \in Tenant, address \in Address :
             Explained(tenant, address) => Explained(tenant, address)'
    BY <1>1, <1>8, ListStepKeeps, ListStepFrame DEF vars
  <2>2. ServiceTypeOK' /\ WrittenIsAccepted' /\ OneMessagePerKey' /\ AnswersTrue'
    BY <1>1, <2>1 DEF ServiceTypeOK, WrittenIsAccepted, OneMessagePerKey,
                      AnswersTrue, Written
  <2>3. CallsExplained'
    <3> SUFFICES ASSUME NEW c \in Caller, call[c].open, call[c].suppressed
                 PROVE  Explained(call[c].content.tenant, call[c].content.rcpt)'
      BY <2>1 DEF CallsExplained
    <3>1. call[c].content.tenant \in Tenant /\ call[c].content.rcpt \in Address
      BY <1>1, OpenCall DEF Content
    <3>2. Explained(call[c].content.tenant, call[c].content.rcpt)
      BY <1>1 DEF CallsExplained
    <3>3. QED
      BY <2>1, <3>1, <3>2 DEF Explained, Visible
  <2>4. MessagesExplained'
    <3> SUFFICES ASSUME NEW m \in Msg, row[m].status = "suppressed"
                 PROVE  Written(m) /\ Explained(content[m].tenant, content[m].rcpt)'
      BY <2>1 DEF MessagesExplained, Written
    <3>1. Written(m) /\ Explained(content[m].tenant, content[m].rcpt)
      BY <1>1 DEF MessagesExplained
    <3>2. content[m].tenant \in Tenant /\ content[m].rcpt \in Address
      BY <1>1, <3>1 DEF ServiceTypeOK, Written, Content
    <3>3. QED
      BY <2>1, <3>1, <3>2 DEF Explained, Visible
  <2>5. QED
    BY <1>2, <2>1, <2>2, <2>3, <2>4 DEF ServiceInv
<1>9. CASE QueueStep
  <2>1. UNCHANGED <<content, entry, call, answers>>
    BY <1>9 DEF QueueStep
  <2>2. \A k \in Msg : row'[k].status \in {"sent", "failed", row[k].status}
    BY <1>1, <1>9, QueueStepStatus
  <2>3. ServiceTypeOK' /\ AnswersTrue' /\ CallsExplained'
    BY <1>1, <2>1 DEF ServiceTypeOK, AnswersTrue, CallsExplained, Explained,
                      Visible, Written
  <2>4. QED
    BY <1>3, <2>1, <2>2, <2>3
<1>10. CASE UNCHANGED serviceVars
  <2>1. UNCHANGED <<content, entry, call, answers, row>>
    BY <1>10 DEF serviceVars, vars
  <2>2. ServiceTypeOK' /\ AnswersTrue' /\ CallsExplained'
    BY <1>1, <2>1 DEF ServiceTypeOK, AnswersTrue, CallsExplained, Explained,
                      Visible, Written
  <2>3. QED
    BY <1>3, <2>1, <2>2
<1>11. QED
  BY <1>4, <1>5, <1>6, <1>7, <1>8, <1>9, <1>10 DEF ServiceNext, ListStep

LEMMA ServiceStart == ServiceInit => ServiceInv
<1> SUFFICES ASSUME ServiceInit PROVE ServiceInv
  OBVIOUS
<1>1. TypeOK
  <2>1. Absent \in Row
    BY DEF Absent, Row, Status
  <2>2. QED
    BY <2>1, IdleType DEF ServiceInit, Init, TypeOK
<1>2. NoCall \in Call /\ ~NoCall.open
  BY DEF Call, NoCall
<1>3. \A m \in Msg : row[m].status = "absent" /\ ~Written(m)
  BY DEF ServiceInit, Init, Absent, Written
<1>4. ServiceTypeOK
  BY <1>2 DEF ServiceInit, ServiceTypeOK
<1>5. WrittenIsAccepted /\ OneMessagePerKey /\ MessagesExplained
  BY <1>3 DEF WrittenIsAccepted, OneMessagePerKey, MessagesExplained
<1>6. AnswersTrue /\ CallsExplained /\ OneActiveEntry
  BY <1>2 DEF ServiceInit, AnswersTrue, CallsExplained, OneActiveEntry
<1>7. QED
  BY <1>1, <1>4, <1>5, <1>6 DEF ServiceInv

LEMMA ServiceInvariant == ServiceSpec => []ServiceInv
  BY ServiceStart, ServiceStep, PTL DEF ServiceSpec

-----------------------------------------------------------------------------

\* Callers and the suppression list do nothing to the queue that the queue
\* does not allow, so every theorem about the queue holds of the service
\* (message::accept is one Accept, or nothing).
THEOREM QueueUnderneath == ServiceSpec => QueueIsQueue
<1>1. ServiceInit => Init
  BY DEF ServiceInit
<1>2. ServiceInv /\ [ServiceNext]_serviceVars => [Next]_vars
  BY ServiceRefinesQueue DEF ServiceInv
<1>3. QED
  BY <1>1, <1>2, ServiceInvariant, PTL DEF ServiceSpec, Spec, QueueIsQueue

\* However many callers submit one key at once, drop their requests and try
\* again, it is given one message (the unique constraint behind
\* message::accept, and the two steps the call is made of).
THEOREM KeysAreIdempotent == ServiceSpec => []OneMessagePerKey
<1>1. ServiceInv => OneMessagePerKey
  BY DEF ServiceInv
<1>2. QED
  BY <1>1, ServiceInvariant, PTL

\* What callers were told for a key stays true and is the same for all of
\* them (message::accept, the inserting and the deduplicating answer).
THEOREM AnswersStayTrue == ServiceSpec => []AnswersAgree
<1>1. ServiceInv => AnswersAgree
  <2> SUFFICES ASSUME ServiceInv, NEW a \in answers
               PROVE  /\ row[a.msg].status # "absent"
                      /\ content[a.msg].tenant = a.tenant
                      /\ content[a.msg].key = a.key
                      /\ \A b \in answers : a.tenant = b.tenant /\ a.key = b.key
                                             => a.msg = b.msg
    BY DEF AnswersAgree
  <2>1. \A b \in answers :
          /\ b.msg \in Msg /\ Written(b.msg)
          /\ content[b.msg].tenant = b.tenant /\ content[b.msg].key = b.key
    BY DEF ServiceInv, AnswersTrue, ServiceTypeOK
  <2>2. QED
    BY <2>1 DEF ServiceInv, OneMessagePerKey, WrittenIsAccepted
<1>2. QED
  BY <1>1, ServiceInvariant, PTL

\* A suppressed message can be explained from the list for good: lifting
\* keeps the row, and no other tenant's entry was the reason
\* (suppression::is_suppressed_tx, suppression::remove).
THEOREM SuppressionHasAReason == ServiceSpec => []SuppressedIsExplained
<1>1. ServiceInv => SuppressedIsExplained
  BY DEF ServiceInv, MessagesExplained, SuppressedIsExplained, Explained
<1>2. QED
  BY <1>1, ServiceInvariant, PTL

\* There is one active entry at most for a tenant and an address
\* (suppression::add under the index suppression_active).
THEOREM EntriesAreUnique == ServiceSpec => []OneActiveEntry
<1>1. ServiceInv => OneActiveEntry
  BY DEF ServiceInv
<1>2. QED
  BY <1>1, ServiceInvariant, PTL
=============================================================================
