---------------------------- MODULE PagingProofs ----------------------------
(***************************************************************************)
(* What the console shows is complete and not misled: a list read page by  *)
(* page (Paging), and the alert about a tenant's volume (Volume), for      *)
(* tables, pages and windows of any size.                                  *)
(*                                                                         *)
(* The order in which rows are shown is total, so a row is told by the     *)
(* number of rows before it (Place).  The invariant of the walk is about   *)
(* the rows the cursor has passed: what is on a page has been passed, and  *)
(* what has been passed and matched all along is on a page.                *)
(***************************************************************************)
EXTENDS Paging, Volume, FiniteSetTheorems, TLAPS

\* The cursor has passed row i.
Passed(i) == rows[i] # NoRow /\ ~Older(i, walk.cursor)

WalkInv ==
  /\ walk.at = "nowhere" => shown = << >> /\ stayed = {}
  /\ walk.at = "walking" =>
       /\ \A n \in DOMAIN shown : Passed(shown[n])
       /\ \A i \in stayed : Matches(i, walk.filter)
       /\ \A i \in stayed : Passed(i) => i \in ToSet(shown)

ListInv == PagingTypeOK /\ WalkInv /\ EveryRowOnce

-----------------------------------------------------------------------------
(* The order of the rows.                                                  *)

LEMMA ListBounds ==
  /\ MaxId \in Nat /\ MaxStamp \in Nat /\ SqlLimit \in Nat /\ SqlLimit > MaxPage
  /\ MaxPage \in Nat \ {0} /\ DefaultPage \in 1 .. MaxPage
BY PagingAssumption

\* A row that is none is as old as no row is.
LEMMA RowFields ==
  ASSUME PagingTypeOK, NEW i \in Id
  PROVE  /\ rows[i].created \in 0 .. MaxStamp /\ rows[i].created \in Nat /\ i \in Nat
         /\ rows[i] # NoRow => rows[i].created \in 1 .. MaxStamp
                             /\ rows[i].status \in ListedStatus
<1>1. rows[i] \in ListedRow
  BY DEF PagingTypeOK
<1> QED
  BY <1>1, ListBounds DEF ListedRow, NoRow, Id

\* The rows are totally ordered by time and id.
LEMMA NewerIsTotal ==
  ASSUME PagingTypeOK, NEW i \in Id, NEW k \in Id
  PROVE  /\ rows[i].created \in Nat /\ rows[k].created \in Nat
         /\ i # k => Newer(i, k) \/ Newer(k, i)
         /\ ~Newer(i, i)
         /\ \A j \in Id : Newer(i, j) /\ Newer(j, k) => Newer(i, k)
<1>1. \A j \in Id : rows[j].created \in Nat /\ j \in Nat
  BY RowFields
<1> QED
  BY <1>1 DEF Newer

\* Sets of rows are finite, and have as many members as can be counted.
LEMMA RowsAreFinite ==
  ASSUME NEW found \in SUBSET Id
  PROVE  IsFiniteSet(found) /\ Cardinality(found) \in Nat
<1>1. IsFiniteSet(Id)
  BY ListBounds, FS_Interval DEF Id
<1> QED
  BY <1>1, FS_Subset, FS_CardinalityType

\* Who is newer has fewer rows before it.
LEMMA PlaceOrder ==
  ASSUME PagingTypeOK, NEW found \in SUBSET Id, NEW i \in found, NEW k \in found, Newer(i, k)
  PROVE  Place(i, found) < Place(k, found)
<1> DEFINE Before(j) == {m \in found : Newer(m, j)}
<1>1. Before(i) \cup {i} \subseteq Before(k) /\ i \notin Before(i)
  <2>1. ASSUME NEW m \in Before(i) PROVE Newer(m, k)
    BY <2>1, NewerIsTotal
  <2> QED
    BY <2>1, NewerIsTotal
<1>2. Before(i) \in SUBSET Id /\ Before(k) \in SUBSET Id
  OBVIOUS
<1> HIDE DEF Before
<1>3. /\ IsFiniteSet(Before(i)) /\ IsFiniteSet(Before(k))
      /\ Cardinality(Before(i)) \in Nat /\ Cardinality(Before(k)) \in Nat
  BY <1>2, RowsAreFinite
<1>4. Cardinality(Before(i) \cup {i}) = Cardinality(Before(i)) + 1
  BY <1>1, <1>3, FS_AddElement
<1>5. Cardinality(Before(i) \cup {i}) <= Cardinality(Before(k))
  BY <1>1, <1>3, FS_Subset
<1> QED
  BY <1>3, <1>4, <1>5 DEF Place, Before

\* Every place from the first to the last is taken by one row.
LEMMA PlacesAreTaken ==
  ASSUME PagingTypeOK, NEW found \in SUBSET Id
  PROVE  /\ \A i \in found : Place(i, found) \in 0 .. Cardinality(found) - 1
         /\ \A i, k \in found : Place(i, found) = Place(k, found) => i = k
         /\ \A n \in 0 .. Cardinality(found) - 1 : \E i \in found : Place(i, found) = n
<1> DEFINE size   == Cardinality(found)
           places == 0 .. size - 1
           place  == [i \in found |-> Place(i, found)]
<1>1. IsFiniteSet(found) /\ size \in Nat
  BY RowsAreFinite
<1>2. ASSUME NEW i \in found PROVE Place(i, found) \in places
  <2> DEFINE before == {m \in found : Newer(m, i)}
  <2>1. before \in SUBSET (found \ {i})
    BY NewerIsTotal
  <2> HIDE DEF before
  <2>2. IsFiniteSet(found \ {i}) /\ Cardinality(found \ {i}) = size - 1
    <3> HIDE DEF size
    <3> QED
      BY <1>1, <1>2, FS_RemoveElement DEF size
  <2>3. Cardinality(before) \in Nat /\ Cardinality(before) <= size - 1
    <3> HIDE DEF size
    <3>1. IsFiniteSet(before) /\ Cardinality(before) <= Cardinality(found \ {i})
      BY <2>1, <2>2, FS_Subset
    <3> QED
      BY <2>2, <3>1, FS_CardinalityType
  <2> QED
    BY <1>1, <2>3 DEF Place, before
<1>3. ASSUME NEW i \in found, NEW k \in found, Place(i, found) = Place(k, found) PROVE i = k
  <2>1. ~Newer(i, k) /\ ~Newer(k, i)
    BY <1>1, <1>2, <1>3, PlaceOrder
  <2> QED
    BY <2>1, NewerIsTotal
<1>4. place \in Injection(found, places)
  BY <1>2, <1>3 DEF Injection, IsInjective
<1>5. IsFiniteSet(places) /\ Cardinality(places) = size
  <2>1. size - 1 \in Int /\ 0 \in Int /\ (0 > size - 1 <=> size = 0)
    BY <1>1
  <2> HIDE DEF size
  <2> QED
    BY <1>1, <2>1, FS_Interval
<1>6. place \in Surjection(found, places)
  <2> HIDE DEF place, places, size
  <2> QED
    BY <1>1, <1>4, <1>5, FS_Injection DEF size
<1> QED
  BY <1>2, <1>3, <1>6 DEF Surjection

\* Two rows and a cursor: who is older than an older row is older.
LEMMA OlderIsTransitive ==
  ASSUME PagingTypeOK, NEW i \in Id, NEW last \in Id, NEW cursor \in Cursor
  PROVE  LET onto == [created |-> rows[last].created, id |-> last]
         IN  /\ rows[last] # NoRow => onto \in Cursor
             /\ Older(i, onto) <=> Newer(last, i)
             /\ Older(last, cursor) /\ Older(i, onto) => Older(i, cursor)
<1>1. /\ rows[i].created \in Nat /\ i \in Nat /\ rows[last].created \in Nat /\ last \in Nat
      /\ cursor.created \in Nat /\ cursor.id \in Nat
  BY RowFields, ListBounds DEF Cursor
<1>2. rows[last] # NoRow => [created |-> rows[last].created, id |-> last] \in Cursor
  BY RowFields, ListBounds DEF Cursor, Id
<1> QED
  BY <1>1, <1>2 DEF Older, Newer

-----------------------------------------------------------------------------
(* A page.                                                                 *)

\* The query's answer: the newest of what it found, each row once, as many
\* as there are or as were asked for.
LEMMA NewestRows ==
  ASSUME PagingTypeOK, NEW filter, NEW cursor, NEW limit \in Nat
  PROVE  LET found == Found(filter, cursor)
             items == Newest(filter, cursor, limit)
         IN  /\ Cardinality(found) \in Nat
             /\ Len(items) = IF Cardinality(found) < limit THEN Cardinality(found) ELSE limit
             /\ items \in Seq(found)
             /\ \A n \in 1 .. Len(items) : items[n] \in found /\ Place(items[n], found) = n - 1
             /\ \A i \in found : \/ Place(i, found) \in Nat /\ Place(i, found) >= Len(items)
                                 \/ \E n \in 1 .. Len(items) : items[n] = i
<1> DEFINE found == Found(filter, cursor)
           items == Newest(filter, cursor, limit)
           most  == Cardinality(found)
           size  == IF most < limit THEN most ELSE limit
<1>1. found \in SUBSET Id
  BY DEF Found
<1>2. items = [n \in 1 .. size |-> CHOOSE i \in found : Place(i, found) = n - 1]
  BY DEF Newest
<1> HIDE DEF found, items
<1>3. most \in Nat /\ size \in Nat /\ size <= most
  BY <1>1, RowsAreFinite
<1>4. ASSUME NEW n \in 1 .. size PROVE items[n] \in found /\ Place(items[n], found) = n - 1
  <2>1. \E i \in found : Place(i, found) = n - 1
    <3>1. n - 1 \in 0 .. most - 1
      BY <1>3
    <3> QED
      BY <1>1, <3>1, PlacesAreTaken
  <2>2. items[n] = CHOOSE i \in found : Place(i, found) = n - 1
    BY <1>2
  <2> QED
    BY <2>1, <2>2
<1>5. items \in Seq(found) /\ Len(items) = size
  <2>1. items \in [1 .. size -> found]
    BY <1>2, <1>4
  <2> HIDE DEF size
  <2> QED
    BY <1>3, <2>1
<1>6. ASSUME NEW i \in found, ~(Place(i, found) \in Nat /\ Place(i, found) >= size)
      PROVE  \E n \in 1 .. size : items[n] = i
  <2>1. Place(i, found) \in 0 .. most - 1
    BY <1>1, PlacesAreTaken
  <2> DEFINE n == Place(i, found) + 1
  <2>2. n \in 1 .. size
    BY <1>3, <1>6, <2>1
  <2>3. Place(items[n], found) = Place(i, found) /\ items[n] \in found
    <3>1. Place(items[n], found) = n - 1 /\ items[n] \in found
      BY <1>4, <2>2
    <3> QED
      BY <2>1, <3>1
  <2>4. items[n] = i
    BY <1>1, <2>3, PlacesAreTaken
  <2> QED
    BY <2>2, <2>4
<1> QED
  <2> HIDE DEF size
  <2> USE DEF found, items
  <2> QED
    BY <1>3, <1>4, <1>5, <1>6 DEF size

-----------------------------------------------------------------------------
(* The walk.                                                               *)

\* Pages are put one behind the other.
LEMMA OnPages ==
  ASSUME NEW pages \in Seq(Id), NEW page \in Seq(Id)
  PROVE  /\ pages \o page \in Seq(Id)
         /\ \A n \in DOMAIN (pages \o page) :
              \/ \E m \in DOMAIN pages : (pages \o page)[n] = pages[m]
              \/ \E m \in DOMAIN page : (pages \o page)[n] = page[m]
         /\ ToSet(pages \o page) = ToSet(pages) \cup ToSet(page)
         /\ (/\ IsInjective(pages) /\ IsInjective(page)
             /\ \A n \in DOMAIN pages, m \in DOMAIN page : pages[n] # page[m])
            => IsInjective(pages \o page)
<1> DEFINE both == pages \o page
<1>1. /\ both \in Seq(Id) /\ Len(both) = Len(pages) + Len(page)
      /\ Len(pages) \in Nat /\ Len(page) \in Nat
      /\ DOMAIN both = 1 .. Len(both) /\ DOMAIN pages = 1 .. Len(pages)
      /\ DOMAIN page = 1 .. Len(page)
  OBVIOUS
<1>2. \A n \in DOMAIN both : both[n] = IF n <= Len(pages) THEN pages[n] ELSE page[n - Len(pages)]
  OBVIOUS
<1> HIDE DEF both
<1>3. \A n \in DOMAIN both : n \in DOMAIN pages \/ n - Len(pages) \in DOMAIN page
  BY <1>1
<1>4. \A m \in DOMAIN pages : m \in DOMAIN both /\ both[m] = pages[m]
  BY <1>1, <1>2
<1>5. \A m \in DOMAIN page : m + Len(pages) \in DOMAIN both /\ both[m + Len(pages)] = page[m]
  BY <1>1, <1>2
<1>6. ASSUME NEW n \in DOMAIN both
      PROVE  \/ n \in DOMAIN pages /\ both[n] = pages[n]
             \/ n - Len(pages) \in DOMAIN page /\ both[n] = page[n - Len(pages)]
                /\ n \notin DOMAIN pages
  BY <1>1, <1>2
<1>7. ToSet(both) = ToSet(pages) \cup ToSet(page)
  BY <1>4, <1>5, <1>6 DEF ToSet
<1>8. ASSUME IsInjective(pages), IsInjective(page),
             \A n \in DOMAIN pages, m \in DOMAIN page : pages[n] # page[m]
      PROVE  IsInjective(both)
  <2> SUFFICES ASSUME NEW n \in DOMAIN both, NEW m \in DOMAIN both, both[n] = both[m]
               PROVE  n = m
    BY DEF IsInjective
  <2>1. CASE n \in DOMAIN pages /\ m \in DOMAIN pages
    BY <1>4, <1>8, <2>1 DEF IsInjective
  <2>2. CASE n \notin DOMAIN pages /\ m \notin DOMAIN pages
    <3>1. n - Len(pages) = m - Len(pages)
      BY <1>6, <1>8, <2>2 DEF IsInjective
    <3> QED
      BY <1>1, <3>1
  <2> QED
    BY <1>6, <1>8, <2>1, <2>2
<1> QED
  BY <1>1, <1>6, <1>7, <1>8 DEF both

\* A page the reader gets shows each row once, and no row of a page before.
LEMMA PageIsNew ==
  ASSUME ListInv, walk.at = "walking", NEW page \in Seq(Id), IsInjective(page),
         \A m \in DOMAIN page : Older(page[m], walk.cursor)
  PROVE  /\ shown \o page \in Seq(Id)
         /\ IsInjective(shown \o page)
         /\ ToSet(shown \o page) = ToSet(shown) \cup ToSet(page)
<1>1. shown \in Seq(Id) /\ IsInjective(shown)
  BY DEF ListInv, PagingTypeOK, EveryRowOnce
<1>2. \A n \in DOMAIN shown, m \in DOMAIN page : shown[n] # page[m]
  BY DEF ListInv, WalkInv, Passed
<1> QED
  BY <1>1, <1>2, OnPages

LEMMA WalkFields ==
  ASSUME PagingTypeOK
  PROVE  /\ walk.limit \in Nat \ {0} /\ walk.limit + 1 <= SqlLimit
         /\ walk.cursor \in Cursor /\ walk.filter \in ListedStatus \cup {"any"}
BY ListBounds DEF PagingTypeOK, Walk

\* What NextPage asks for and gets.
LEMMA PageFacts ==
  ASSUME ListInv, walk.at = "walking"
  PROVE  LET probe == IF walk.limit + 1 < SqlLimit THEN walk.limit + 1 ELSE SqlLimit
             found == Found(walk.filter, walk.cursor)
             items == Newest(walk.filter, walk.cursor, probe)
         IN  /\ probe = walk.limit + 1
             /\ items \in Seq(Id) /\ Len(items) \in Nat /\ Len(items) <= probe
             /\ IsInjective(items)
             /\ \A n \in 1 .. Len(items) : /\ items[n] \in found /\ rows[items[n]] # NoRow
                                           /\ Older(items[n], walk.cursor)
             /\ \A n, m \in 1 .. Len(items) : n < m => Newer(items[n], items[m])
             /\ \A i \in found : \/ i \in ToSet(items)
                                 \/ /\ Len(items) = probe
                                    /\ \A n \in 1 .. Len(items) : Newer(items[n], i)
<1> DEFINE found == Found(walk.filter, walk.cursor)
           items == Newest(walk.filter, walk.cursor, walk.limit + 1)
<1>1. /\ PagingTypeOK
      /\ (IF walk.limit + 1 < SqlLimit THEN walk.limit + 1 ELSE SqlLimit) = walk.limit + 1
      /\ walk.limit + 1 \in Nat
  BY WalkFields, ListBounds DEF ListInv
<1>2. found \in SUBSET Id /\ \A i \in found : rows[i] # NoRow /\ Older(i, walk.cursor)
  BY DEF Matches, Found
<1>3. /\ Cardinality(found) \in Nat /\ items \in Seq(found)
      /\ Len(items) = IF Cardinality(found) < walk.limit + 1 THEN Cardinality(found)
                      ELSE walk.limit + 1
      /\ \A n \in 1 .. Len(items) : items[n] \in found /\ Place(items[n], found) = n - 1
      /\ \A i \in found : \/ Place(i, found) \in Nat /\ Place(i, found) >= Len(items)
                          \/ \E n \in 1 .. Len(items) : items[n] = i
  BY <1>1, NewestRows
<1> HIDE DEF found, items
<1>4. items \in Seq(Id) /\ Len(items) \in Nat /\ DOMAIN items = 1 .. Len(items)
  BY <1>2, <1>3
<1>5. IsInjective(items)
  <2> SUFFICES ASSUME NEW n \in 1 .. Len(items), NEW m \in 1 .. Len(items), items[n] = items[m]
               PROVE  n = m
    BY <1>4 DEF IsInjective
  <2>1. n - 1 = m - 1
    BY <1>3
  <2> QED
    BY <1>4, <2>1
<1>6. ASSUME NEW i \in found, NEW k \in found, Place(i, found) < Place(k, found)
      PROVE  Newer(i, k)
  <2>1. Place(i, found) \in Int /\ Place(k, found) \in Int
    <3>1. \A j \in found : Place(j, found) \in 0 .. Cardinality(found) - 1
      BY <1>1, <1>2, PlacesAreTaken
    <3> QED
      BY <3>1
  <2>2. ~(Newer(k, i)) /\ i # k
    BY <1>1, <1>2, <1>6, <2>1, PlaceOrder
  <2> QED
    BY <1>1, <1>2, <2>2, NewerIsTotal
<1>7. ASSUME NEW n \in 1 .. Len(items), NEW m \in 1 .. Len(items), n < m
      PROVE  Newer(items[n], items[m])
  BY <1>3, <1>4, <1>6, <1>7
<1>8. ASSUME NEW i \in found, i \notin ToSet(items)
      PROVE  /\ Len(items) = walk.limit + 1
             /\ \A n \in 1 .. Len(items) : Newer(items[n], i)
  <2>1. Place(i, found) \in Nat /\ Place(i, found) >= Len(items)
    BY <1>3, <1>4, <1>8 DEF ToSet
  <2>2. Place(i, found) < Cardinality(found)
    BY <1>1, <1>2, <1>3, PlacesAreTaken
  <2>3. ASSUME NEW n \in 1 .. Len(items) PROVE Newer(items[n], i)
    BY <1>3, <1>4, <1>6, <2>1
  <2> QED
    BY <1>1, <1>3, <2>1, <2>2, <2>3
<1> QED
  <2>1. Len(items) <= walk.limit + 1
    BY <1>1, <1>3
  <2> QED
    BY <1>1, <1>2, <1>3, <1>4, <1>5, <1>7, <1>8, <2>1 DEF found, items

\* The last page: the query found no more rows than fit on it.
LEMMA LastPageKeeps ==
  ASSUME ListInv, NextPage, walk'.at # "walking"
  PROVE  ListInv'
<1> DEFINE found == Found(walk.filter, walk.cursor)
           items == Newest(walk.filter, walk.cursor, walk.limit + 1)
<1>1. /\ walk.at = "walking" /\ walk \in Walk /\ walk.limit \in Nat
      /\ UNCHANGED <<rows, stayed>>
      /\ items \in Seq(Id) /\ IsInjective(items) /\ Len(items) \in Nat
      /\ \A n \in DOMAIN items : Older(items[n], walk.cursor)
      /\ \A i \in found : i \in ToSet(items) \/ Len(items) = walk.limit + 1
      /\ (IF walk.limit + 1 < SqlLimit THEN walk.limit + 1 ELSE SqlLimit) = walk.limit + 1
  <2>1. walk.at = "walking" /\ UNCHANGED <<rows, stayed>>
    BY DEF NextPage
  <2>2. walk \in Walk /\ walk.limit \in Nat
    BY WalkFields DEF ListInv, PagingTypeOK
  <2> HIDE DEF found, items
  <2> QED
    BY <2>1, <2>2, PageFacts DEF found, items
<1> HIDE DEF found, items
<1>2. /\ Len(items) <= walk.limit
      /\ shown' = shown \o items /\ walk' = [walk EXCEPT !.at = "done"]
  <2>1. ~(Len(items) > walk.limit)
    <3> SUFFICES ASSUME Len(items) > walk.limit PROVE FALSE
      OBVIOUS
    <3>1. \E c : walk' = [walk EXCEPT !.cursor = c]
      BY <1>1 DEF NextPage, items
    <3> QED
      BY <1>1, <3>1 DEF Walk
  <2> QED
    BY <1>1, <2>1 DEF NextPage, items
<1>3. walk'.at = "done" /\ walk' \in Walk
  BY <1>1, <1>2 DEF Walk
<1>4. /\ shown' \in Seq(Id) /\ IsInjective(shown')
      /\ ToSet(shown') = ToSet(shown) \cup ToSet(items)
  BY <1>1, <1>2, PageIsNew
<1>5. ASSUME NEW i \in stayed PROVE i \in ToSet(shown')
  <2>1. i \in Id /\ Matches(i, walk.filter)
    BY <1>1, <1>5 DEF ListInv, WalkInv, PagingTypeOK
  <2>2. CASE Older(i, walk.cursor)
    <3>1. i \in found
      BY <2>1, <2>2 DEF found, Found
    <3> QED
      BY <1>1, <1>2, <1>4, <3>1
  <2>3. CASE ~Older(i, walk.cursor)
    <3>1. Passed(i)
      BY <2>1, <2>3 DEF Passed, Matches
    <3> QED
      BY <1>1, <1>4, <1>5, <3>1 DEF ListInv, WalkInv
  <2> QED
    BY <2>2, <2>3
<1>6. PagingTypeOK'
  BY <1>1, <1>3, <1>4 DEF ListInv, PagingTypeOK
<1> QED
  BY <1>1, <1>3, <1>4, <1>5, <1>6 DEF ListInv, WalkInv, EveryRowOnce

\* A page that is followed by another: the cursor goes to its last row.
LEMMA FullPageKeeps ==
  ASSUME ListInv, NextPage, walk'.at = "walking"
  PROVE  ListInv'
<1> DEFINE found == Found(walk.filter, walk.cursor)
           items == Newest(walk.filter, walk.cursor, walk.limit + 1)
           page  == SubSeq(items, 1, walk.limit)
           last  == items[walk.limit]
           onto  == [created |-> rows[last].created, id |-> last]
<1>1. /\ walk.at = "walking" /\ walk \in Walk /\ walk.limit \in Nat \ {0}
      /\ UNCHANGED <<rows, stayed>> /\ walk.cursor \in Cursor
  BY WalkFields DEF NextPage, ListInv, PagingTypeOK
<1>2. /\ items \in Seq(Id) /\ IsInjective(items) /\ Len(items) \in Nat
      /\ \A n \in 1 .. Len(items) : /\ items[n] \in found /\ rows[items[n]] # NoRow
                                    /\ Older(items[n], walk.cursor)
      /\ \A n, m \in 1 .. Len(items) : n < m => Newer(items[n], items[m])
      /\ \A i \in found : i \in ToSet(items) \/ \A n \in 1 .. Len(items) : Newer(items[n], i)
      /\ (IF walk.limit + 1 < SqlLimit THEN walk.limit + 1 ELSE SqlLimit) = walk.limit + 1
      /\ Len(items) <= walk.limit + 1
  <2> HIDE DEF found, items
  <2> QED
    BY <1>1, PageFacts DEF found, items
<1> HIDE DEF found, items
<1>3. /\ Len(items) > walk.limit
      /\ shown' = shown \o page /\ walk' = [walk EXCEPT !.cursor = onto]
  <2>1. Len(items) > walk.limit
    <3> SUFFICES ASSUME ~(Len(items) > walk.limit) PROVE FALSE
      OBVIOUS
    <3>1. walk' = [walk EXCEPT !.at = "done"]
      BY <1>2 DEF NextPage, items
    <3> QED
      BY <1>1, <3>1 DEF Walk
  <2> QED
    BY <1>2, <2>1 DEF NextPage, items
<1>4. /\ page \in Seq(Id) /\ DOMAIN page = 1 .. walk.limit
      /\ \A n \in 1 .. walk.limit : n \in 1 .. Len(items) /\ page[n] = items[n]
      /\ DOMAIN items = 1 .. Len(items)
  BY <1>1, <1>2, <1>3
<1> HIDE DEF page
<1>5. IsInjective(page) /\ \A n \in DOMAIN page : Older(page[n], walk.cursor)
  BY <1>2, <1>4 DEF IsInjective
<1>6. /\ shown' \in Seq(Id) /\ IsInjective(shown')
      /\ ToSet(shown') = ToSet(shown) \cup ToSet(page)
  BY <1>1, <1>3, <1>4, <1>5, PageIsNew
<1>7. /\ walk.limit \in 1 .. Len(items) /\ last \in Id /\ rows[last] # NoRow
      /\ Older(last, walk.cursor)
  <2>1. walk.limit \in 1 .. Len(items)
    BY <1>1, <1>2, <1>3
  <2> QED
    BY <1>2, <2>1
<1> HIDE DEF last
<1>8. /\ onto \in Cursor
      /\ \A i \in Id : /\ Older(i, onto) <=> Newer(last, i)
                       /\ Older(i, onto) => Older(i, walk.cursor)
  BY <1>1, <1>7, OlderIsTransitive DEF ListInv
<1> HIDE DEF onto
<1>9. walk' \in Walk /\ walk'.cursor = onto /\ walk'.filter = walk.filter /\ walk'.at = "walking"
  BY <1>1, <1>3, <1>8 DEF Walk
<1>10. ASSUME NEW i \in Id
       PROVE  /\ Matches(i, walk.filter)' <=> Matches(i, walk.filter)
              /\ Passed(i)' <=> (rows[i] # NoRow /\ ~Newer(last, i))
              /\ Passed(i) => ~Newer(last, i)
  BY <1>1, <1>8, <1>9 DEF Older, Matches, Passed
<1>11. ASSUME NEW i \in ToSet(shown') PROVE i \in Id /\ Passed(i)'
  <2>1. CASE i \in ToSet(shown)
    <3>1. i \in Id /\ Passed(i)
      BY <1>1, <2>1 DEF ListInv, WalkInv, PagingTypeOK, ToSet
    <3> QED
      BY <1>10, <3>1 DEF Passed
  <2>2. CASE i \in ToSet(page)
    <3>1. PICK n \in 1 .. walk.limit : i = items[n] /\ n \in 1 .. Len(items)
      BY <1>4, <2>2 DEF ToSet
    <3>2. i \in Id /\ rows[i] # NoRow
      BY <1>2, <3>1
    <3>3. ~Newer(last, i)
      <4>1. CASE n = walk.limit
        BY <3>1, <3>2, <4>1, NewerIsTotal DEF last, ListInv
      <4>2. CASE n < walk.limit
        <5>1. Newer(i, last)
          BY <1>2, <1>7, <3>1, <4>2 DEF last
        <5> QED
          BY <1>7, <3>2, <5>1, NewerIsTotal DEF ListInv
      <4> QED
        BY <1>1, <3>1, <4>1, <4>2
    <3> QED
      BY <1>10, <3>2, <3>3
  <2> QED
    BY <1>6, <1>11, <2>1, <2>2
<1>12. ASSUME NEW i \in stayed, Passed(i)' PROVE i \in ToSet(shown')
  <2>1. i \in Id /\ Matches(i, walk.filter) /\ ~Newer(last, i)
    <3>1. i \in Id /\ Matches(i, walk.filter)
      BY <1>1, <1>12 DEF ListInv, WalkInv, PagingTypeOK
    <3> QED
      BY <1>10, <1>12, <3>1
  <2>2. CASE Older(i, walk.cursor)
    <3>1. i \in found
      BY <2>1, <2>2 DEF found, Found
    <3>2. PICK n \in 1 .. Len(items) : items[n] = i
      BY <1>2, <1>4, <1>7, <2>1, <3>1 DEF last, ToSet
    <3>3. ~(walk.limit < n)
      BY <1>2, <1>7, <2>1, <3>2 DEF last
    <3>4. n \in DOMAIN page /\ page[n] = i
      BY <1>1, <1>2, <1>4, <3>2, <3>3
    <3> QED
      BY <1>6, <3>4 DEF ToSet
  <2>3. CASE ~Older(i, walk.cursor)
    <3>1. Passed(i)
      BY <2>1, <2>3 DEF Passed, Matches
    <3> QED
      BY <1>1, <1>6, <1>12, <3>1 DEF ListInv, WalkInv
  <2> QED
    BY <2>2, <2>3
<1>13. PagingTypeOK'
  BY <1>1, <1>6, <1>9 DEF ListInv, PagingTypeOK
<1>14. WalkInv'
  <2>1. \A n \in DOMAIN shown' : shown'[n] \in ToSet(shown')
    BY DEF ToSet
  <2>2. \A n \in DOMAIN shown' : Passed(shown[n])'
    BY <1>11, <2>1
  <2>3. \A i \in stayed' : Matches(i, walk.filter)'
    BY <1>1, <1>10 DEF ListInv, WalkInv, PagingTypeOK
  <2> QED
    BY <1>1, <1>9, <1>12, <2>2, <2>3 DEF WalkInv
<1> QED
  BY <1>6, <1>9, <1>13, <1>14 DEF ListInv, EveryRowOnce

\* A row that appears was neither on a page nor there when the walk began.
LEMMA CreateRowKeeps ==
  ASSUME ListInv, NEW i \in Id, NEW stamp \in 1 .. MaxStamp, Create(i, stamp)
  PROVE  ListInv'
<1>1. /\ rows[i] = NoRow /\ UNCHANGED <<walk, shown, stayed>>
      /\ rows' = [rows EXCEPT ![i] = [created |-> stamp, status |-> "queued"]]
  BY DEF Create
<1>2. [created |-> stamp, status |-> "queued"] \in ListedRow
  BY DEF ListedRow, ListedStatus
<1>3. PagingTypeOK'
  BY <1>1, <1>2 DEF ListInv, PagingTypeOK
<1>4. ASSUME NEW k \in Id, rows[k] # NoRow
      PROVE  /\ Passed(k)' <=> Passed(k)
             /\ Matches(k, walk.filter) => Matches(k, walk.filter)'
  <2>1. rows'[k] = rows[k]
    BY <1>1, <1>4 DEF ListInv, PagingTypeOK
  <2> QED
    BY <1>1, <2>1 DEF Passed, Older, Matches
<1>5. WalkInv'
  <2> SUFFICES ASSUME walk.at = "walking" PROVE WalkInv'
    BY <1>1 DEF ListInv, WalkInv
  <2>1. \A n \in DOMAIN shown : shown[n] \in Id /\ Passed(shown[n]) /\ rows[shown[n]] # NoRow
    BY DEF ListInv, WalkInv, PagingTypeOK, Passed
  <2>2. \A k \in stayed : /\ k \in Id /\ Matches(k, walk.filter) /\ rows[k] # NoRow
                          /\ Passed(k) => k \in ToSet(shown)
    BY DEF ListInv, WalkInv, PagingTypeOK, Matches
  <2>3. \A n \in DOMAIN shown' : Passed(shown[n])'
    BY <1>1, <1>4, <2>1
  <2>4. ASSUME NEW k \in stayed'
        PROVE  Matches(k, walk.filter)' /\ (Passed(k)' => k \in ToSet(shown'))
    <3>1. k \in stayed /\ shown' = shown
      BY <1>1, <2>4
    <3>2. /\ k \in Id /\ Matches(k, walk.filter) /\ rows[k] # NoRow
          /\ Passed(k) => k \in ToSet(shown)
      BY <2>2, <3>1
    <3>3. Matches(k, walk.filter)' /\ (Passed(k)' <=> Passed(k))
      BY <1>4, <3>2
    <3> QED
      BY <3>1, <3>2, <3>3
  <2> QED
    BY <1>1, <2>3, <2>4 DEF WalkInv
<1> QED
  BY <1>1, <1>3, <1>5 DEF ListInv, EveryRowOnce

\* A message that is sent keeps its place in the list.
LEMMA FinishKeeps ==
  ASSUME ListInv, NEW i \in Id, Finish(i)
  PROVE  ListInv'
<1>1. /\ rows[i].status = "queued" /\ rows' = [rows EXCEPT ![i].status = "sent"]
      /\ stayed' = (IF walk.filter = "any" THEN stayed ELSE stayed \ {i})
      /\ UNCHANGED <<walk, shown>>
  BY DEF Finish
<1>2. rows[i] \in [created : 1 .. MaxStamp, status : ListedStatus]
  BY <1>1 DEF ListInv, PagingTypeOK, ListedRow, NoRow
<1>3. rows'[i] \in [created : 1 .. MaxStamp, status : ListedStatus]
  BY <1>1, <1>2 DEF ListedStatus, ListInv, PagingTypeOK
<1>4. PagingTypeOK'
  BY <1>1, <1>3 DEF ListInv, PagingTypeOK, ListedRow
<1>5. ASSUME NEW k \in Id, rows[k] # NoRow
      PROVE  /\ Passed(k)' <=> Passed(k)
             /\ k \in stayed' /\ Matches(k, walk.filter) => Matches(k, walk.filter)'
  <2>1. /\ rows'[k].created = rows[k].created /\ rows'[k] # NoRow
        /\ k # i => rows'[k] = rows[k]
    BY <1>1, <1>2, <1>3, <1>5, ListBounds DEF ListInv, PagingTypeOK, NoRow, ListedStatus
  <2>2. Passed(k)' <=> Passed(k)
    BY <1>1, <1>5, <2>1 DEF Passed, Older
  <2>3. k = i /\ k \in stayed' => walk.filter = "any"
    BY <1>1
  <2>4. k \in stayed' /\ Matches(k, walk.filter) => Matches(k, walk.filter)'
    BY <1>1, <2>1, <2>3 DEF Matches
  <2> QED
    BY <2>2, <2>4
<1>6. stayed' \subseteq stayed
  BY <1>1
<1>7. WalkInv'
  <2> SUFFICES ASSUME walk.at # "done" PROVE WalkInv'
    BY <1>1 DEF WalkInv
  <2>1. CASE walk.at = "nowhere"
    BY <1>1, <1>6, <2>1 DEF ListInv, WalkInv
  <2>2. CASE walk.at = "walking"
    <3>1. \A n \in DOMAIN shown : shown[n] \in Id /\ Passed(shown[n]) /\ rows[shown[n]] # NoRow
      BY <2>2 DEF ListInv, WalkInv, PagingTypeOK, Passed
    <3>2. \A k \in stayed : /\ k \in Id /\ Matches(k, walk.filter) /\ rows[k] # NoRow
                            /\ Passed(k) => k \in ToSet(shown)
      BY <2>2 DEF ListInv, WalkInv, PagingTypeOK, Matches
    <3>3. \A n \in DOMAIN shown' : Passed(shown[n])'
      BY <1>1, <1>5, <3>1
    <3>4. ASSUME NEW k \in stayed'
          PROVE  Matches(k, walk.filter)' /\ (Passed(k)' => k \in ToSet(shown'))
      <4>1. k \in stayed /\ shown' = shown
        BY <1>1, <1>6, <3>4
      <4>2. /\ k \in Id /\ Matches(k, walk.filter) /\ rows[k] # NoRow
            /\ Passed(k) => k \in ToSet(shown)
        BY <3>2, <4>1
      <4>3. Matches(k, walk.filter)' /\ (Passed(k)' <=> Passed(k))
        BY <1>5, <3>4, <4>2
      <4> QED
        BY <4>1, <4>2, <4>3
    <3> QED
      BY <1>1, <2>2, <3>3, <3>4 DEF WalkInv
  <2> QED
    BY <2>1, <2>2 DEF ListInv, PagingTypeOK, Walk
<1> QED
  BY <1>1, <1>4, <1>6, <1>7 DEF ListInv, EveryRowOnce

\* Before the first page nothing has been passed.
LEMMA StartKeeps ==
  ASSUME ListInv, NEW requested \in {"none", "zero", "huge"},
         NEW f \in ListedStatus \cup {"any"}, Start(requested, f)
  PROVE  ListInv'
<1>1. PageSize(requested) \in 1 .. MaxPage
  BY ListBounds DEF PageSize
<1>2. /\ walk.at = "nowhere" /\ UNCHANGED <<rows, shown>>
      /\ walk' = [at |-> "walking", limit |-> PageSize(requested),
                  filter |-> f, cursor |-> NoCursor]
      /\ stayed' = {i \in Id : Matches(i, f)}
  BY DEF Start
<1>3. NoCursor \in Cursor
  BY ListBounds DEF NoCursor, Cursor
<1>4. walk' \in Walk
  BY <1>1, <1>2, <1>3 DEF Walk
<1>5. PagingTypeOK'
  BY <1>2, <1>4 DEF ListInv, PagingTypeOK
<1>6. shown = << >> /\ IsInjective(shown)
  BY <1>2 DEF ListInv, WalkInv, EveryRowOnce
<1>7. ASSUME NEW i \in Id PROVE ~Passed(i)'
  <2>1. rows'[i].created \in Nat /\ rows'[i].created < MaxStamp + 1
    BY <1>2, RowFields, ListBounds DEF ListInv
  <2> QED
    BY <1>2, <2>1 DEF Passed, Older, NoCursor
<1>8. \A i \in stayed' : i \in Id /\ Matches(i, walk.filter)'
  BY <1>2 DEF Matches
<1>9. WalkInv'
  BY <1>2, <1>6, <1>7, <1>8 DEF WalkInv
<1> QED
  BY <1>2, <1>5, <1>6, <1>9 DEF ListInv, EveryRowOnce

LEMMA ListStart == PagingInit => ListInv
<1> SUFFICES ASSUME PagingInit PROVE ListInv
  OBVIOUS
<1>1. NoRow \in ListedRow /\ NoCursor \in Cursor /\ 1 \in 1 .. MaxPage
  BY ListBounds DEF ListedRow, NoCursor, Cursor
<1> QED
  BY <1>1 DEF PagingInit, ListInv, PagingTypeOK, WalkInv, EveryRowOnce, Walk, IsInjective

LEMMA ListStep == ListInv /\ [PagingNext]_pagingVars => ListInv'
<1> SUFFICES ASSUME ListInv, [PagingNext]_pagingVars PROVE ListInv'
  OBVIOUS
<1>1. CASE \E i \in Id, stamp \in 1 .. MaxStamp : Create(i, stamp)
  BY <1>1, CreateRowKeeps
<1>2. CASE \E i \in Id : Finish(i)
  BY <1>2, FinishKeeps
<1>3. CASE \E requested \in {"none", "zero", "huge"}, f \in ListedStatus \cup {"any"} :
             Start(requested, f)
  BY <1>3, StartKeeps
<1>4. CASE NextPage
  BY <1>4, LastPageKeeps, FullPageKeeps
<1>5. CASE UNCHANGED pagingVars
  BY <1>5 DEF pagingVars, ListInv, PagingTypeOK, WalkInv, Passed, Older, Matches, EveryRowOnce
<1> QED
  BY <1>1, <1>2, <1>3, <1>4, <1>5 DEF PagingNext

\* No row is on two pages, and who reads to the end has seen every row that
\* was there all along, for any number of messages created and sent meanwhile,
\* any timestamps, equal ones among them, and any size of a page.
THEOREM ListsAreComplete == PagingSpec => [](PagingTypeOK /\ EveryRowOnce)
<1>1. ListInv => PagingTypeOK /\ EveryRowOnce
  BY DEF ListInv
<1> QED
  BY <1>1, ListStart, ListStep, PTL DEF PagingSpec

-----------------------------------------------------------------------------
(* The typical day.                                                        *)

\* A set of naturals that is not empty has a least element.
LEMMA LeastNat ==
  ASSUME NEW S, S \subseteq Nat, S # {}
  PROVE  \E n \in S : \A m \in S : n <= m
<1>1. IsWellFoundedOn(OpToRel(<, Nat), Nat)
  BY NatLessThanWellFounded
<1>2. PICK n \in S : \A m \in S : ~(<<m, n>> \in OpToRel(<, Nat))
  BY <1>1, WFMin
<1>3. \A m \in S : ~(m < n)
  BY <1>2 DEF OpToRel
<1> QED
  BY <1>3

LEMMA WindowBounds ==
  /\ WindowDays \in Nat /\ WindowDays > 0 /\ \A n \in Nat : 2 * n # WindowDays
  /\ MaxDaily \in Nat /\ SpikeMultiple \in Nat /\ MinDaily \in Nat /\ MinHistoryDays \in Nat
BY VolumeAssumption

\* The busier a day may be, the more days count.
LEMMA AtMostGrows ==
  ASSUME VolumeTypeOK, NEW q \in Int, NEW p \in Int, q <= p
  PROVE  /\ Cardinality(AtMost(q)) \in Nat /\ Cardinality(AtMost(p)) \in Nat
         /\ Cardinality(AtMost(q)) <= Cardinality(AtMost(p))
<1>1. \A d \in 1 .. WindowDays : days[d] \in Nat
  BY DEF VolumeTypeOK
<1>2. AtMost(q) \in SUBSET AtMost(p) /\ AtMost(p) \in SUBSET (1 .. WindowDays)
  BY <1>1 DEF AtMost
<1>3. IsFiniteSet(1 .. WindowDays)
  BY WindowBounds, FS_Interval
<1>4. IsFiniteSet(AtMost(p))
  BY <1>2, <1>3, FS_Subset
<1>5. IsFiniteSet(AtMost(q)) /\ Cardinality(AtMost(q)) <= Cardinality(AtMost(p))
  BY <1>2, <1>4, FS_Subset
<1> QED
  BY <1>4, <1>5, FS_CardinalityType

\* The typical day exists, and it is the median: more days than not were no
\* busier, and fewer than not were quieter.
LEMMA TypicalIsMedian ==
  ASSUME VolumeTypeOK
  PROVE  /\ Typical \in 0 .. MaxDaily
         /\ 2 * Cardinality(AtMost(Typical)) > WindowDays
         /\ 2 * Cardinality(AtMost(Typical - 1)) < WindowDays
<1> DEFINE Enough == {q \in 0 .. MaxDaily : 2 * Cardinality(AtMost(q)) > WindowDays}
<1>1. MaxDaily \in Enough
  <2>1. AtMost(MaxDaily) = 1 .. WindowDays
    BY WindowBounds DEF AtMost, VolumeTypeOK
  <2>2. Cardinality(1 .. WindowDays) = WindowDays
    BY WindowBounds, FS_Interval
  <2> QED
    BY <2>1, <2>2, WindowBounds
<1>2. PICK q \in Enough : \A p \in Enough : q <= p
  <2>1. Enough \subseteq Nat /\ Enough # {}
    BY <1>1
  <2> HIDE DEF Enough
  <2> QED
    BY <2>1, LeastNat
<1>3. 2 * Cardinality(AtMost(q - 1)) < WindowDays
  <2>1. CASE q = 0
    <3>1. AtMost(q - 1) = {}
      BY <2>1, WindowBounds DEF AtMost, VolumeTypeOK
    <3> QED
      BY <3>1, WindowBounds, FS_EmptySet
  <2>2. CASE q # 0
    <3>1. q - 1 \in 0 .. MaxDaily /\ q - 1 \notin Enough
      BY <1>2, <2>2, WindowBounds
    <3>2. Cardinality(AtMost(q - 1)) \in Nat
      BY <3>1, AtMostGrows
    <3> QED
      BY <3>1, <3>2, WindowBounds
  <2> QED
    BY <2>1, <2>2
<1> QED
  BY <1>2, <1>3 DEF Typical

\* Bursts in the past do not raise what is typical.
LEMMA TypicalIsQuiet ==
  ASSUME VolumeTypeOK, NEW q \in 0 .. MaxDaily, 2 * Cardinality(AtMost(q)) > WindowDays
  PROVE  Typical <= q
<1> SUFFICES ASSUME q < Typical PROVE FALSE
  BY TypicalIsMedian
<1>1. Typical \in Int /\ q \in Int /\ q <= Typical - 1
  BY TypicalIsMedian, WindowBounds
<1>2. /\ Cardinality(AtMost(q)) \in Nat /\ Cardinality(AtMost(Typical - 1)) \in Nat
      /\ Cardinality(AtMost(q)) <= Cardinality(AtMost(Typical - 1))
  BY <1>1, AtMostGrows
<1> QED
  BY <1>2, TypicalIsMedian, WindowBounds

LEMMA AlertIsRight == VolumeTypeOK => BurstsHideNothing
<1> SUFFICES ASSUME VolumeTypeOK, NEW q \in 0 .. MaxDaily,
                    NEW recent \in 0 .. SpikeMultiple * MaxDaily,
                    2 * Cardinality(AtMost(q)) > WindowDays,
                    recent >= SpikeMultiple * q, recent >= MinDaily,
                    history >= MinHistoryDays
             PROVE  Judge(recent) = "unusual"
  BY DEF BurstsHideNothing
<1>1. history \in Nat /\ recent \in Int /\ q \in Nat
  BY WindowBounds DEF VolumeTypeOK
<1>2. recent >= Typical * SpikeMultiple
  <2>1. Typical \in Nat /\ Typical <= q
    BY TypicalIsMedian, TypicalIsQuiet, WindowBounds
  <2>2. PICK k \in Nat : q = Typical + k
    <3>1. q - Typical \in Nat /\ q = Typical + (q - Typical)
      BY <1>1, <2>1
    <3> QED
      BY <3>1
  <2>3. SpikeMultiple * q = Typical * SpikeMultiple + SpikeMultiple * k
    BY <2>1, <2>2, WindowBounds
  <2>4. SpikeMultiple * k \in Nat /\ Typical * SpikeMultiple \in Nat
    BY <2>1, <2>2, WindowBounds
  <2> QED
    BY <1>1, <2>3, <2>4
<1> QED
  BY <1>1, <1>2, WindowBounds DEF Judge

LEMMA VolumeTypes == VolumeInit => VolumeTypeOK
BY WindowBounds DEF VolumeInit, VolumeTypeOK

LEMMA VolumeStep == VolumeTypeOK /\ [VolumeNext]_volumeVars => VolumeTypeOK'
<1> SUFFICES ASSUME VolumeTypeOK, [VolumeNext]_volumeVars PROVE VolumeTypeOK'
  OBVIOUS
<1>1. ASSUME NEW n \in 0 .. MaxDaily, Midnight(n) PROVE VolumeTypeOK'
  BY <1>1, WindowBounds DEF Midnight, VolumeTypeOK
<1> QED
  BY <1>1 DEF VolumeNext, volumeVars, VolumeTypeOK

\* Whatever was sent in the past, ten times what more days than not stayed
\* within is noticed: for a window of any odd number of days, any volume and
\* any thresholds.
THEOREM NoBurstHidesAnother == VolumeSpec => [](VolumeTypeOK /\ BurstsHideNothing)
<1>1. VolumeTypeOK => BurstsHideNothing
  BY AlertIsRight
<1> QED
  BY <1>1, VolumeTypes, VolumeStep, PTL DEF VolumeSpec
=============================================================================
