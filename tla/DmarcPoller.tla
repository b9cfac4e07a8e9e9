----------------------------- MODULE DmarcPoller -----------------------------
(***************************************************************************)
(* Fetching DMARC aggregate reports (crates/postbud-relay/src/dmarc.rs)    *)
(* and storing them (crates/postbud-db/src/dmarc.rs).  Every worker        *)
(* process may run a poller, and all of them read the same mailbox with no *)
(* lock between them: each searches the inbox, fetches, stores and files   *)
(* one mail at a time, and every command to the IMAP server and every      *)
(* database transaction is a step of its own.                              *)
(*                                                                         *)
(* The IMAP server is external.  A command on a mail that has left the     *)
(* inbox succeeds and does nothing, as UID commands do.                    *)
(***************************************************************************)
EXTENDS Naturals, Sequences, FiniteSetsExt, Functions

CONSTANTS
  Poller,       \* worker processes that poll
  MaxMail,      \* bound: mails that ever arrive; their uids are 1 .. MaxMail
  Report,       \* aggregate reports, as the pair (org_name, report_id)
  Garbled,      \* a document that is meant as a report and does not parse
  Other,        \* a binary part that is no report: a picture, a vcard
  Carries,      \* what candidates and dmarc::extract find in each mail
  PollBatch,    \* BATCH, the most mails of one pass
  MaxPollFaults \* bound: failed commands and transactions, broken passes

Mail == 1 .. MaxMail

ASSUME PollerAssumption ==
  /\ MaxMail \in Nat /\ MaxPollFaults \in Nat
  /\ PollBatch \in Nat \ {0}
  /\ Garbled \notin Report /\ Other \notin Report
  /\ Carries \in [Mail -> Seq(Report \cup {Garbled, Other})]

VARIABLES
  arrived,    \* mails so far
  folder,     \* [Mail -> SUBSET Folder], the folders that hold a copy
  deleted,    \* mails in the inbox that carry the flag \Deleted
  stored,     \* rows of dmarc_report
  pass,       \* [Poller -> Pass], the passes in progress
  pollFaults  \* faults so far, at most MaxPollFaults

pollVars == <<arrived, folder, deleted, stored, pass, pollFaults>>

-----------------------------------------------------------------------------
(* Data.                                                                   *)

\* By default failures are filed in the archive as well; the model keeps
\* the two apart to tell what was filed as what.
Folder == {"inbox", "archive", "failures"}

\* The uids a pass has still to do, and how far it is with the first one:
\* `next` is the document at hand, `dest` where the mail will be filed.
Pass == [at : {"idle", "fetch", "store", "file", "flag", "expunge"},
         todo : SUBSET Mail, next : Nat \ {0}, dest : {"archive", "failures"}]

NoPass == [at |-> "idle", todo |-> {}, next |-> 1, dest |-> "archive"]

Fresh(mails) == [at |-> "fetch", todo |-> mails, next |-> 1, dest |-> "archive"]

InInbox(m) == "inbox" \in folder[m]

Current(p) == Min(pass[p].todo)

\* The reports of a mail that dmarc::parse can read.
Reports(m) == Range(Carries[m]) \cap Report


\* The uids of a pass, oldest first and at most BATCH of them.
Oldest(mails) ==
  {m \in mails : Cardinality({k \in mails : k < m}) < PollBatch}

-----------------------------------------------------------------------------
(* A pass: drain_mailbox.                                                  *)

Set(p, value) == pass' = [pass EXCEPT ![p] = value]

FileTo(p, dest) == Set(p, [pass[p] EXCEPT !.at = "file", !.dest = dest])

\* The mail at hand is done with, whatever became of it.
NextMail(p) ==
  LET rest == pass[p].todo \ {Current(p)}
  IN  Set(p, IF rest = {} THEN NoPass ELSE Fresh(rest))

\* SELECT and UID SEARCH ALL.
Search(p) ==
  /\ pass[p].at = "idle"
  /\ LET uids == Oldest({m \in Mail : InInbox(m)})
     IN  /\ uids # {}
         /\ Set(p, Fresh(uids))
  /\ UNCHANGED <<arrived, folder, deleted, stored, pollFaults>>

\* handle_one up to the candidates: UID FETCH.  A mail with nothing to
\* offer is no report; one that is gone "has no body" and is set aside.
Fetch(p) ==
  /\ pass[p].at = "fetch"
  /\ LET m == Current(p)
     IN  IF ~InInbox(m)           THEN FileTo(p, "failures")
         ELSE IF Carries[m] = << >> THEN FileTo(p, "archive")
         ELSE Set(p, [pass[p] EXCEPT !.at = "store"])
  /\ UNCHANGED <<arrived, folder, deleted, stored, pollFaults>>

\* Mutant: a mail without a readable report is left where it is.
Verdict_LeftInInbox(m) == IF Reports(m) # {} THEN "archive" ELSE "inbox"

\* handle_one's result once every document was tried: one report is enough,
\* and anything that was tried and is no report is a failure.
Verdict(m) == IF Reports(m) # {} THEN "archive" ELSE "failures"

\* Mutant: the first report decides, the rest is left unread.
Store_FirstOnly(p) ==
  /\ pass[p].at = "store"
  /\ stored' = stored \cup ({Carries[Current(p)][pass[p].next]} \cap Report)
  /\ FileTo(p, Verdict(Current(p)))
  /\ UNCHANGED <<arrived, folder, deleted, pollFaults>>

\* One document: dmarc::store is one transaction, and stores a report that
\* is there already no second time.
Store(p) ==
  /\ pass[p].at = "store"
  /\ LET m == Current(p)
         n == pass[p].next
     IN  /\ stored' = stored \cup ({Carries[m][n]} \cap Report)
         /\ IF n < Len(Carries[m])
            THEN Set(p, [pass[p] EXCEPT !.next = n + 1])
            ELSE FileTo(p, Verdict(m))
  /\ UNCHANGED <<arrived, folder, deleted, pollFaults>>

-----------------------------------------------------------------------------
(* Filing: archive.                                                        *)

\* UID MOVE, where the server has it.
Move(p) ==
  /\ pass[p].at = "file"
  /\ LET m == Current(p)
     IN  /\ folder' = [folder EXCEPT ![m] =
                         IF InInbox(m) THEN (@ \ {"inbox"}) \cup {pass[p].dest}
                                       ELSE @]
         /\ deleted' = deleted \ {m}
  /\ NextMail(p)
  /\ UNCHANGED <<arrived, stored, pollFaults>>

\* Mutant: the mail is flagged before it is copied.
Copy_FlagFirst(p) ==
  /\ pass[p].at = "file"
  /\ deleted' = deleted \cup ({Current(p)} \cap {m \in Mail : InInbox(m)})
  /\ Set(p, [pass[p] EXCEPT !.at = "flag"])
  /\ UNCHANGED <<arrived, folder, stored, pollFaults>>

\* UID COPY, where MOVE was refused.
Copy(p) ==
  /\ pass[p].at = "file"
  /\ folder' = [folder EXCEPT ![Current(p)] =
                  IF InInbox(Current(p)) THEN @ \cup {pass[p].dest} ELSE @]
  /\ Set(p, [pass[p] EXCEPT !.at = "flag"])
  /\ UNCHANGED <<arrived, deleted, stored, pollFaults>>

\* UID STORE +FLAGS (\Deleted).
Flag(p) ==
  /\ pass[p].at = "flag"
  /\ deleted' = deleted \cup ({Current(p)} \cap {m \in Mail : InInbox(m)})
  /\ Set(p, [pass[p] EXCEPT !.at = "expunge"])
  /\ UNCHANGED <<arrived, folder, stored, pollFaults>>

\* EXPUNGE: every flagged mail goes, whoever flagged it.
Expunge(p) ==
  /\ pass[p].at = "expunge"
  /\ folder' = [m \in Mail |-> IF m \in deleted THEN folder[m] \ {"inbox"}
                                                ELSE folder[m]]
  /\ deleted' = {}
  /\ NextMail(p)
  /\ UNCHANGED <<arrived, stored, pollFaults>>

-----------------------------------------------------------------------------
(* Arrivals and faults.                                                    *)

Arrive ==
  /\ arrived < MaxMail
  /\ arrived' = arrived + 1
  /\ folder' = [folder EXCEPT ![arrived + 1] = {"inbox"}]
  /\ UNCHANGED <<deleted, stored, pass, pollFaults>>

PollFault == pollFaults < MaxPollFaults /\ pollFaults' = pollFaults + 1

\* The fetch fails, or the database does, with the transaction committed or
\* not: an error like any other, so the mail counts as unreadable.
HandlingFails(p) ==
  /\ PollFault
  /\ \/ pass[p].at = "fetch" /\ stored' = stored
     \/ /\ pass[p].at = "store"
        /\ stored' \in {stored,
                        stored \cup ({Carries[Current(p)][pass[p].next]} \cap Report)}
  /\ FileTo(p, "failures")
  /\ UNCHANGED <<arrived, folder, deleted>>

\* The flag is refused, which nobody notices: archive reads the answers to
\* the command but not what they say, and goes on to EXPUNGE.
FlagRefused(p) ==
  /\ PollFault
  /\ pass[p].at = "flag"
  /\ Set(p, [pass[p] EXCEPT !.at = "expunge"])
  /\ UNCHANGED <<arrived, folder, deleted, stored>>

\* A command of archive is refused (or, an EXPUNGE, without notice): the mail
\* stays for the next pass.
FilingFails(p) ==
  /\ PollFault
  /\ pass[p].at \in {"file", "flag", "expunge"}
  /\ NextMail(p)
  /\ UNCHANGED <<arrived, folder, deleted, stored>>

\* The connection breaks, so no later command of the pass does anything, or
\* the process dies.
Break(p) ==
  /\ PollFault
  /\ pass[p].at # "idle"
  /\ Set(p, NoPass)
  /\ UNCHANGED <<arrived, folder, deleted, stored>>

-----------------------------------------------------------------------------
(* The specification.                                                      *)

PollInit ==
  /\ arrived = 0
  /\ folder  = [m \in Mail |-> {}]
  /\ deleted = {}
  /\ stored  = {}
  /\ pass    = [p \in Poller |-> NoPass]
  /\ pollFaults = 0

Poll(p) ==
  Search(p) \/ Fetch(p) \/ Store(p) \/ Move(p) \/ Copy(p) \/ Flag(p) \/ Expunge(p)

PollNext ==
  \/ Arrive
  \/ \E p \in Poller :
       \/ Poll(p)
       \/ HandlingFails(p) \/ FlagRefused(p) \/ FilingFails(p) \/ Break(p)

PollSpec == PollInit /\ [][PollNext]_pollVars

-----------------------------------------------------------------------------
(* Properties.                                                             *)

PollTypeOK ==
  /\ arrived \in 0 .. MaxMail
  /\ folder \in [Mail -> SUBSET Folder]
  /\ deleted \subseteq Mail
  /\ stored \subseteq Report
  /\ pass \in [Poller -> Pass]
  /\ pollFaults \in 0 .. MaxPollFaults

\* A mail that arrived is always somewhere: between the copy, the flag and
\* the expunge of one poller, the moves of another and every fault, it is in
\* the inbox or has been filed ("the evidence survives").
MailIsKept == \A m \in 1 .. arrived : folder[m] # {}

\* What is filed as handled has been stored: every report in it that can be
\* read is in the table, whichever poller filed it and whatever failed.
ArchivedIsStored ==
  \A m \in Mail : "archive" \in folder[m] => Reports(m) \subseteq stored


=============================================================================
