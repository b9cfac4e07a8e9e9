------------------------------- MODULE Paging -------------------------------
(***************************************************************************)
(* The list of messages, page by page (messages in                         *)
(* crates/postbud-db/src/admin.rs, page_size and paginate in               *)
(* crates/postbud-api/src/admin.rs).  A reader asks for the first page and *)
(* follows the cursor `next` until there is none, while messages are       *)
(* accepted, with timestamps that need not be in the order of the commits, *)
(* and change their status under the reader's filter.                      *)
(*                                                                         *)
(* The lists of suppressions and bounces page in the same way with the row *)
(* id alone: they are the case in which no two timestamps are equal.       *)
(***************************************************************************)
EXTENDS Integers, Sequences, FiniteSets, SequencesExt

CONSTANTS
  MaxId,        \* bound: messages; an id says nothing of a message's age
  MaxStamp,     \* bound: microseconds in which messages are created
  DefaultPage,  \* DEFAULT_PAGE_SIZE
  MaxPage,      \* MAX_PAGE_SIZE
  SqlLimit      \* the clamp in the query, 201

ASSUME PagingAssumption ==
  /\ {MaxId, MaxStamp, SqlLimit} \subseteq Nat
  /\ MaxPage \in Nat /\ DefaultPage \in 1 .. MaxPage
  /\ SqlLimit > MaxPage

VARIABLES
  rows,   \* [Id -> Row], the messages
  walk,   \* the reader: what was asked for, and the cursor
  shown,  \* ids of the rows on the pages so far, in order
  stayed  \* rows that matched when the walk began and have matched since

pagingVars == <<rows, walk, shown, stayed>>

-----------------------------------------------------------------------------
(* Data.                                                                   *)

Id == 1 .. MaxId
ListedStatus == {"queued", "sent"}

NoRow == [created |-> 0, status |-> "none"]
ListedRow == {NoRow} \cup [created : 1 .. MaxStamp, status : ListedStatus]

\* A cursor is a row's timestamp and id.
NoCursor == [created |-> MaxStamp + 1, id |-> 0]
Cursor == [created : 1 .. MaxStamp + 1, id : 0 .. MaxId]

Walk == [at : {"nowhere", "walking", "done"}, limit : 1 .. MaxPage,
         filter : ListedStatus \cup {"any"}, cursor : Cursor]

\* page_size
PageSize(requested) ==
  IF requested = "none" THEN DefaultPage
  ELSE IF requested = "zero" THEN 1
  ELSE MaxPage

Matches(i, filter) == rows[i] # NoRow /\ filter \in {"any", rows[i].status}

\* Mutant: the cursor compares timestamps alone.
Older_ByTime(i, cursor) == rows[i].created < cursor.created

\* (created_at, id) < (before, before_id), or everything when both are null.
Older(i, cursor) ==
  \/ rows[i].created < cursor.created
  \/ rows[i].created = cursor.created /\ i < cursor.id

\* created_at desc, id desc
Newer(i, k) ==
  \/ rows[i].created > rows[k].created
  \/ rows[i].created = rows[k].created /\ i > k

\* How many of the rows come before row i in that order.
Place(i, found) == Cardinality({k \in found : Newer(k, i)})

Found(filter, cursor) == {i \in Id : Matches(i, filter) /\ Older(i, cursor)}

\* The query's answer, newest first: at most `limit` rows.
Newest(filter, cursor, limit) ==
  LET found == Found(filter, cursor)
      size  == IF Cardinality(found) < limit THEN Cardinality(found) ELSE limit
  IN  [n \in 1 .. size |-> CHOOSE i \in found : Place(i, found) = n - 1]

-----------------------------------------------------------------------------
(* The table changes.                                                      *)

\* accept: created_at is when its transaction began, not when it committed.
Create(i, stamp) ==
  /\ rows[i] = NoRow
  /\ rows' = [rows EXCEPT ![i] = [created |-> stamp, status |-> "queued"]]
  /\ UNCHANGED <<walk, shown, stayed>>

\* The message is sent, and no longer matches a filter on "queued".
Finish(i) ==
  /\ rows[i].status = "queued"
  /\ rows' = [rows EXCEPT ![i].status = "sent"]
  /\ stayed' = IF walk.filter = "any" THEN stayed ELSE stayed \ {i}
  /\ UNCHANGED <<walk, shown>>

-----------------------------------------------------------------------------
(* The reader.                                                             *)

Start(requested, filter) ==
  /\ walk.at = "nowhere"
  /\ walk' = [at |-> "walking", limit |-> PageSize(requested),
              filter |-> filter, cursor |-> NoCursor]
  /\ stayed' = {i \in Id : Matches(i, filter)}
  /\ UNCHANGED <<rows, shown>>

\* messages and paginate: the probe row is dropped, and the last row kept
\* is the cursor of the next page.
NextPage ==
  /\ walk.at = "walking"
  /\ LET probe == IF walk.limit + 1 < SqlLimit THEN walk.limit + 1 ELSE SqlLimit
         items == Newest(walk.filter, walk.cursor, probe)
         last  == items[walk.limit]
     IN  IF Len(items) > walk.limit
         THEN /\ shown' = shown \o SubSeq(items, 1, walk.limit)
              /\ walk' = [walk EXCEPT !.cursor = [created |-> rows[last].created, id |-> last]]
         ELSE /\ shown' = shown \o items
              /\ walk' = [walk EXCEPT !.at = "done"]
  /\ UNCHANGED <<rows, stayed>>

PagingInit ==
  /\ rows = [i \in Id |-> NoRow]
  /\ walk = [at |-> "nowhere", limit |-> 1, filter |-> "any", cursor |-> NoCursor]
  /\ shown = << >> /\ stayed = {}

PagingNext ==
  \/ \E i \in Id, stamp \in 1 .. MaxStamp : Create(i, stamp)
  \/ \E i \in Id : Finish(i)
  \/ \E requested \in {"none", "zero", "huge"}, f \in ListedStatus \cup {"any"} :
       Start(requested, f)
  \/ NextPage

PagingSpec == PagingInit /\ [][PagingNext]_pagingVars

-----------------------------------------------------------------------------
(* Properties.                                                             *)

PagingTypeOK ==
  /\ rows \in [Id -> ListedRow]
  /\ walk \in Walk
  /\ shown \in Seq(Id)
  /\ stayed \subseteq Id

\* Whatever is accepted, sent or created at one and the same instant while
\* somebody reads: no row is on two pages, and who reads to the end has seen
\* every row that was there all the time.
EveryRowOnce ==
  /\ IsInjective(shown)
  /\ walk.at = "done" => stayed \subseteq ToSet(shown)

=============================================================================
