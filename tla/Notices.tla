------------------------------ MODULE Notices ------------------------------
(***************************************************************************)
(* Reading a delivery status notification: dsn::parse and should_suppress  *)
(* (crates/postbud-core/src/dsn.rs), a line at a time, while the relay     *)
(* (external) writes it.  A notification is a head, a block of fields for  *)
(* each recipient, and the text of the returned message; the parser knows  *)
(* nothing of these parts and takes every line for what it says.           *)
(*                                                                         *)
(* Module RelayQueue takes it from here: its kind "dead" is a block that   *)
(* ShouldSuppress.                                                         *)
(***************************************************************************)
EXTENDS Naturals, Sequences

CONSTANT MaxLines  \* bound: lines of one notification that matter

ASSUME NoticesAssumption == MaxLines \in Nat

VARIABLES
  part,     \* what the relay writes: "head", "blocks" or "text"
  meant,    \* Seq(Block), the recipients' blocks as the relay writes them
  named,    \* has it named its queue id?
  quoted,   \* the fields that lines of the returned text read like
  lines,    \* lines written, at most MaxLines
  queueId,  \* parse: the local queue_id
  reports,  \* parse: Seq(Report), the blocks that are complete
  current   \* parse: the block being read, << >> or <<Report>>

noticeVars == <<part, meant, named, quoted, lines, queueId, reports, current>>

-----------------------------------------------------------------------------
(* Data.                                                                   *)

\* Status codes as should_suppress tells them apart: a permanent one on its
\* allowlist, any other permanent one, a transient one, and the rest.
Code == {"gone", "refused", "later", "other"}

\* Diagnostics: a phrase of MISSING_MAILBOX, or other words.
Words == {"missing mailbox", "words"}

\* None, the one this notification is about, or that of another message.
QueueId == {"none", "own", "foreign"}

\* A recipient's block, the i-th the i-th recipient's; `named` records whether
\* the relay had named its queue id before it.
Block  == [status : Code \cup {"none"}, diagnostic : Words \cup {"none"},
           named : BOOLEAN]
Report == [status : Code \cup {"none"}, diagnostic : Words \cup {"none"},
           id : QueueId]

Field == {"own", "foreign", "recipient"} \cup Code \cup Words

-----------------------------------------------------------------------------
(* The parser.                                                             *)

\* Report::should_suppress
ShouldSuppress(r) ==
  /\ r.status \in {"gone", "refused"}
  /\ r.status = "gone" \/ r.diagnostic = "missing mailbox"

\* A field of the block being read; before the first block it is nobody's.
File(key, value) ==
  /\ current' = [i \in DOMAIN current |-> [current[i] EXCEPT ![key] = value]]
  /\ UNCHANGED <<queueId, reports>>

\* One turn of parse's loop.
Parse(field) ==
  CASE field \in {"own", "foreign"} -> queueId' = field /\ UNCHANGED <<reports, current>>
    [] field = "recipient" ->
         /\ reports' = reports \o current
         /\ current' = <<[status |-> "none", diagnostic |-> "none", id |-> queueId]>>
         /\ UNCHANGED queueId
    [] field \in Code  -> File("status", field)
    [] field \in Words -> File("diagnostic", field)

\* get_or_insert
Filled(r) == [r EXCEPT !.id = IF @ = "none" THEN queueId ELSE @]

\* Mutant: the block the notification ends with is not taken.
Parsed_DropsLast == [i \in DOMAIN reports |-> Filled(reports[i])]

\* What parse returns if the notification ends here: the last block is
\* taken, and a queue id that came late is filled in.
Parsed == [i \in DOMAIN (reports \o current) |-> Filled((reports \o current)[i])]

-----------------------------------------------------------------------------
(* The relay: RFC 3464, in the order Postfix or another relay chooses.     *)

\* The queue id is a field of the whole message, here or after the blocks.
WriteQueueId ==
  /\ part # "text" /\ ~named
  /\ named' = TRUE
  /\ UNCHANGED <<part, meant, quoted>>
  /\ Parse("own")

WriteRecipient ==
  /\ part \in {"head", "blocks"}
  /\ part' = "blocks"
  /\ meant' = Append(meant, [status |-> "none", diagnostic |-> "none", named |-> named])
  /\ UNCHANGED <<named, quoted>>
  /\ Parse("recipient")

\* A status or a diagnostic, once each, in either order.
WriteField(key, value) ==
  /\ part = "blocks" /\ meant[Len(meant)][key] = "none"
  /\ meant' = [meant EXCEPT ![Len(meant)][key] = value]
  /\ UNCHANGED <<part, named, quoted>>
  /\ Parse(value)

\* A line of the returned message, or of what the relay kept of it, that
\* reads like a field: the message may be a notification itself, or quote one.
WriteText(field) ==
  /\ part # "head" /\ part' = "text"
  /\ quoted' = quoted \cup {field}
  /\ UNCHANGED <<meant, named>>
  /\ Parse(field)

NoticesInit ==
  /\ part = "head" /\ meant = << >> /\ named = FALSE /\ quoted = {}
  /\ lines = 0
  /\ queueId = "none" /\ reports = << >> /\ current = << >>

NoticesNext ==
  /\ lines < MaxLines
  /\ lines' = lines + 1
  /\ \/ WriteQueueId \/ WriteRecipient
     \/ \E code \in Code : WriteField("status", code)
     \/ \E words \in Words : WriteField("diagnostic", words)
     \/ \E field \in Field : WriteText(field)

NoticesSpec == NoticesInit /\ [][NoticesNext]_noticeVars

-----------------------------------------------------------------------------
(* Properties.                                                             *)

NoticesTypeOK ==
  /\ part \in {"head", "blocks", "text"}
  /\ meant \in Seq(Block)
  /\ named \in BOOLEAN /\ quoted \subseteq Field /\ queueId \in QueueId
  /\ lines \in 0 .. MaxLines
  /\ reports \in Seq(Report)
  /\ current \in {<< >>} \cup {<<r>> : r \in Report}

\* The block says for good that the mailbox is gone.
SaysGone(block) ==
  \/ block.status = "gone"
  \/ block.status = "refused" /\ block.diagnostic = "missing mailbox"

\* Nobody answers for another recipient: wherever a notification ends, the
\* relay's recipients come first and in order, and each goes on the list
\* exactly when its own block says so, with the queue id if it was named
\* anywhere.  What the returned text reads like cannot change that, but for
\* the status and the words of the last recipient, for the queue id of those
\* whose block came before it was named, and for recipients after the last.
EachByItsOwnBlock ==
  /\ Len(meant) <= Len(Parsed)
  /\ "recipient" \notin quoted => Len(Parsed) = Len(meant)
  /\ \A i \in DOMAIN meant :
       /\ meant[i].named \/ quoted \cap {"own", "foreign"} = {} =>
            Parsed[i].id = IF named THEN "own" ELSE "none"
       /\ i < Len(meant) \/ quoted \cap (Code \cup Words) = {} =>
            (ShouldSuppress(Parsed[i]) <=> SaysGone(meant[i]))

=============================================================================
