----------------------------- MODULE ListProofs -----------------------------
(***************************************************************************)
(* Proofs about KeysetList, for any rows, limits and page sizes.           *)
(*                                                                         *)
(* Why the pages make a list although rows come and go between them: a     *)
(* row never changes its place, so what a page shows stays in order, and   *)
(* the next page holds only rows beyond the last one shown.                *)
(***************************************************************************)
EXTENDS KeysetList, FunctionTheorems, FiniteSetTheorems, SequenceTheorems, TLAPS

(* The list is ordered by createdAt and id, which no two rows share. *)
LEMMA NewerIsAnOrder ==
  ASSUME ListTypeOK
  PROVE  /\ \A r \in Row : ~Newer(r, r)
         /\ \A r, s \in Row : r = s \/ Newer(r, s) \/ Newer(s, r)
         /\ \A r, s, t \in Row : Newer(r, s) /\ Newer(s, t) => Newer(r, t)
<1>1. \A r \in Row : r \in Int /\ table[r].createdAt \in Int
  BY ListAssumption DEF ListTypeOK
<1>2. QED
  BY <1>1 DEF Newer

(* The rank of a row among finitely many: the rows before it, and itself. *)
Rank(rows) == [r \in rows |-> Cardinality({s \in rows : Newer(s, r)}) + 1]

LEMMA RanksAreDistinct ==
  ASSUME ListTypeOK, NEW rows \in SUBSET Row, IsFiniteSet(rows)
  PROVE  /\ Rank(rows) \in Bijection(rows, 1 .. Cardinality(rows))
         /\ \A r, s \in rows : Newer(r, s) => Rank(rows)[r] < Rank(rows)[s]
<1> DEFINE n == Cardinality(rows)
           Before(r) == {s \in rows : Newer(s, r)}
<1>1. n \in Nat
  BY FS_CardinalityType
<1>2. ASSUME NEW r \in rows
      PROVE  /\ IsFiniteSet(Before(r)) /\ Cardinality(Before(r)) \in Nat
             /\ Cardinality(Before(r)) < n
  <2>1. Before(r) \in SUBSET rows /\ r \notin Before(r)
    BY NewerIsAnOrder
  <2>2. IsFiniteSet(Before(r)) /\ Cardinality(Before(r)) <= n
        /\ (n = Cardinality(Before(r)) => rows = Before(r))
    BY <2>1, FS_Subset
  <2>3. Cardinality(Before(r)) \in Nat
    BY <2>2, FS_CardinalityType
  <2>4. QED
    BY <1>1, <2>1, <2>2, <2>3
<1>3. ASSUME NEW r \in rows, NEW s \in rows, Newer(r, s)
      PROVE  Cardinality(Before(r)) < Cardinality(Before(s))
  <2>1. Before(r) \in SUBSET Before(s) /\ r \in Before(s) /\ r \notin Before(r)
    BY <1>3, NewerIsAnOrder
  <2>2. IsFiniteSet(Before(s)) /\ Cardinality(Before(r)) \in Nat /\ Cardinality(Before(s)) \in Nat
    BY <1>2
  <2>3. Cardinality(Before(r)) <= Cardinality(Before(s))
        /\ (Cardinality(Before(s)) = Cardinality(Before(r)) => Before(s) = Before(r))
    BY <2>1, <2>2, FS_Subset
  <2>4. QED
    BY <2>1, <2>2, <2>3
<1> DEFINE rank == Rank(rows)
<1>4. \A r \in rows : rank[r] = Cardinality(Before(r)) + 1
  BY DEF Rank
<1>5. rank \in [rows -> 1 .. n]
  <2>1. \A r \in rows : Cardinality(Before(r)) + 1 \in 1 .. n
    <3> HIDE DEF Before, n
    <3> QED  BY <1>1, <1>2
  <2>2. QED
    BY <2>1 DEF Rank
<1>6. \A r, s \in rows : Newer(r, s) => rank[r] < rank[s]
  <2>1. \A r \in rows : Cardinality(Before(r)) \in Nat
    BY <1>2
  <2> HIDE DEF Before, rank
  <2>2. QED
    BY <1>3, <1>4, <2>1
<1>7. \A r, s \in rows : rank[r] = rank[s] => r = s
  <2> SUFFICES ASSUME NEW r \in rows, NEW s \in rows, rank[r] = rank[s] PROVE r = s
    OBVIOUS
  <2>1. rank[r] \in Int /\ rank[s] \in Int
    BY <1>1, <1>5
  <2>2. r = s \/ Newer(r, s) \/ Newer(s, r)
    BY NewerIsAnOrder
  <2> HIDE DEF rank
  <2>3. QED
    BY <1>6, <2>1, <2>2
<1>8. rank \in Injection(rows, 1 .. n)
  BY <1>5, <1>7 DEF Injection, IsInjective
<1>9. IsFiniteSet(1 .. n) /\ Cardinality(1 .. n) = n
  BY <1>1, FS_Interval
<1>10. rank \in Surjection(rows, 1 .. n)
  BY <1>8, <1>9, FS_Injection
<1>11. QED
  BY <1>6, <1>8, <1>10 DEF Bijection

(* Finitely many rows can be sorted, and sorting leaves none out. *)
LEMMA SortedSorts ==
  ASSUME ListTypeOK, NEW rows \in SUBSET Row, IsFiniteSet(rows)
  PROVE  /\ Sorted(rows) \in [1 .. Cardinality(rows) -> rows]
         /\ Sorts(Sorted(rows), rows)
         /\ \A r \in rows : \E i \in 1 .. Cardinality(rows) : Sorted(rows)[i] = r
<1> DEFINE n == Cardinality(rows)
           rank == Rank(rows)
           s == [i \in 1 .. n |-> CHOOSE r \in rows : rank[r] = i]
<1>1. n \in Nat
  BY FS_CardinalityType
<1>2. /\ rank \in [rows -> 1 .. n]
      /\ \A i \in 1 .. n : \E r \in rows : rank[r] = i
  BY RanksAreDistinct DEF Bijection, Surjection, Injection
<1>3. \A i \in 1 .. n : s[i] \in rows /\ rank[s[i]] = i
  BY <1>2
<1>4. s \in [1 .. n -> rows]
  BY <1>3
<1>5. Sorts(s, rows)
  <2> SUFFICES ASSUME NEW i \in 1 .. n, NEW j \in 1 .. n, i < j
               PROVE  Newer(s[i], s[j])
    BY DEF Sorts
  <2>1. s[i] \in rows /\ s[j] \in rows /\ rank[s[i]] = i /\ rank[s[j]] = j
    BY <1>3
  <2>2. s[i] = s[j] \/ Newer(s[i], s[j]) \/ Newer(s[j], s[i])
    BY <2>1, NewerIsAnOrder
  <2>3. Newer(s[j], s[i]) => j < i
    BY <2>1, RanksAreDistinct
  <2> HIDE DEF s, rank
  <2>4. QED
    BY <1>1, <2>1, <2>2, <2>3
<1>6. Sorted(rows) \in [1 .. n -> rows] /\ Sorts(Sorted(rows), rows)
  <2> HIDE DEF s
  <2>1. \E x \in [1 .. n -> rows] : Sorts(x, rows)
    BY <1>4, <1>5
  <2>2. QED
    BY <2>1 DEF Sorted
<1>7. ASSUME NEW i \in 1 .. n, NEW j \in 1 .. n, Sorted(rows)[i] = Sorted(rows)[j]
      PROVE  i = j
  <2>1. i < j => Newer(Sorted(rows)[i], Sorted(rows)[j])
    BY <1>6 DEF Sorts
  <2>2. j < i => Newer(Sorted(rows)[j], Sorted(rows)[i])
    BY <1>6 DEF Sorts
  <2>3. Sorted(rows)[i] \in Row
    BY <1>6
  <2>4. QED
    BY <1>1, <1>7, <2>1, <2>2, <2>3, NewerIsAnOrder
<1>8. Sorted(rows) \in Injection(1 .. n, rows)
  BY <1>6, <1>7 DEF Injection, IsInjective
<1>9. IsFiniteSet(1 .. n) /\ Cardinality(1 .. n) = n
  BY <1>1, FS_Interval
<1>10. Sorted(rows) \in Surjection(1 .. n, rows)
  BY <1>8, <1>9, FS_Injection
<1>11. QED
  BY <1>6, <1>10 DEF Surjection

-----------------------------------------------------------------------------
(* One page. *)

LEMMA CursorIs ==
  ASSUME ListTypeOK, NEW r \in Row
  PROVE  /\ CursorOf(r) \in Cursor /\ CursorOf(r) # NoCursor
         /\ \A s \in Row : Beyond(s, CursorOf(r)) <=> Newer(r, s)
<1>1. r \in Int /\ table[r].createdAt \in 0 .. Horizon /\ table[r].createdAt \in Int
  BY ListAssumption DEF ListTypeOK
<1>2. CursorOf(r) \in Cursor /\ CursorOf(r) # NoCursor
  BY <1>1, ListAssumption DEF CursorOf, Cursor
<1>3. \A s \in Row : s \in Int /\ table[s].createdAt \in Int
  BY ListAssumption DEF ListTypeOK
<1>4. QED
  BY <1>1, <1>2, <1>3 DEF Beyond, Newer, CursorOf

After(r, cursor) == cursor = NoCursor \/ Beyond(r, cursor)

PageIsRight(page, cursor) ==
  /\ page \in PageRecord
  /\ \A k \in DOMAIN page.items : page.items[k] \in RowsIn /\ After(page.items[k], cursor)
  /\ \A k, l \in DOMAIN page.items : k < l => Newer(page.items[k], page.items[l])
  /\ page.nextCursor # NoCursor =>
       page.items # <<>> /\ page.nextCursor = CursorOf(page.items[Len(page.items)])
  /\ \A r \in RowsIn :
       After(r, cursor) /\ (page.nextCursor = NoCursor \/ ~Beyond(r, page.nextCursor))
         => \E k \in DOMAIN page.items : page.items[k] = r

(* A page holds the next rows in order, and all of them up to its cursor. *)
LEMMA PageHolds ==
  ASSUME ListTypeOK, IsFiniteSet(RowsIn),
         NEW cursor \in Cursor \cup {NoCursor}, NEW take \in Nat \ {0}
  PROVE  PageIsRight(Page(cursor, take), cursor)
<1> DEFINE rows == {r \in RowsIn : After(r, cursor)}
           n == Cardinality(rows)
           all == Sorted(rows)
           page == Page(cursor, take)
<1>1. rows \in SUBSET Row /\ rows \in SUBSET RowsIn
  BY DEF RowsIn
<1>2. IsFiniteSet(rows)
  BY <1>1, FS_Subset
<1>3. n \in Nat
  BY <1>2, FS_CardinalityType
<1>4. /\ all \in [1 .. n -> rows]
      /\ \A i, j \in 1 .. n : i < j => Newer(all[i], all[j])
      /\ \A r \in rows : \E i \in 1 .. n : all[i] = r
  BY <1>1, <1>2, SortedSorts DEF Sorts
<1>5. all \in Seq(Row) /\ Len(all) = n /\ DOMAIN all = 1 .. n
  <2> HIDE DEF n, all
  <2>1. all \in [1 .. n -> Row]
    BY <1>1, <1>4
  <2>2. QED
    BY <1>3, <2>1
<1>6. page = IF n > take
             THEN [items |-> SubSeq(all, 1, take), nextCursor |-> CursorOf(all[take])]
             ELSE [items |-> all, nextCursor |-> NoCursor]
  BY <1>5 DEF Page, After
<1> HIDE DEF n, all, page
<1>7. CASE n > take
  <2> DEFINE items == SubSeq(all, 1, take)
  <2>1. page.items = items /\ page.nextCursor = CursorOf(all[take])
        /\ page = [items |-> items, nextCursor |-> CursorOf(all[take])]
    BY <1>6, <1>7
  <2>2. /\ items \in Seq(Row) /\ Len(items) = take
        /\ DOMAIN items = 1 .. take /\ \A i \in 1 .. take : items[i] = all[i]
    <3>1. \A i \in 1 .. take : all[i] \in Row
      BY <1>1, <1>3, <1>4, <1>7
    <3>2. /\ items \in Seq(Row)
          /\ Len(items) = IF 1 <= take THEN take - 1 + 1 ELSE 0
          /\ \A i \in 1 .. take - 1 + 1 : items[i] = all[1 + i - 1]
      BY <3>1, SubSeqProperties, 1 \in Int, take \in Int
    <3>3. take - 1 + 1 = take /\ 1 <= take /\ \A i \in 1 .. take : 1 + i - 1 = i
      OBVIOUS
    <3> HIDE DEF items
    <3>4. Len(items) = take /\ \A i \in 1 .. take : items[i] = all[i]
      BY <3>2, <3>3
    <3>5. QED
      BY <3>2, <3>4, LenProperties
  <2> HIDE DEF items
  <2>3. all[take] \in rows /\ all[take] \in Row /\ take \in 1 .. n
    BY <1>1, <1>3, <1>4, <1>7
  <2>4. page \in PageRecord
    <3>1. CursorOf(all[take]) \in Cursor
      BY <2>3, CursorIs
    <3>2. QED
      BY <2>1, <2>2, <3>1 DEF PageRecord
  <2>5. \A k \in 1 .. take : items[k] \in rows
    BY <1>3, <1>4, <1>7, <2>2
  <2>6. \A k, l \in 1 .. take : k < l => Newer(items[k], items[l])
    BY <1>3, <1>4, <1>7, <2>2
  <2>7. items # <<>> /\ CursorOf(all[take]) = CursorOf(items[Len(items)])
    <3>1. Len(items) # 0
      BY <2>2
    <3>2. QED
      BY <2>2, <2>3, <3>1
  <2>8. ASSUME NEW r \in RowsIn, After(r, cursor), ~Beyond(r, CursorOf(all[take]))
        PROVE  \E k \in 1 .. take : items[k] = r
    <3>1. r \in rows /\ r \in Row
      BY <2>8, <1>1
    <3>2. PICK i \in 1 .. n : all[i] = r
      BY <3>1, <1>4
    <3>3. ~Newer(all[take], r)
      BY <2>3, <2>8, <3>1, CursorIs
    <3>4. take < i => Newer(all[take], all[i])
      BY <1>4, <2>3
    <3>5. i <= take
      BY <1>3, <3>2, <3>3, <3>4
    <3>6. QED
      BY <1>3, <2>2, <3>2, <3>5
  <2>9. CursorOf(all[take]) # NoCursor
    BY <2>3, CursorIs
  <2>10. \A r \in rows : r \in RowsIn /\ After(r, cursor)
    OBVIOUS
  <2> HIDE DEF rows
  <2>11. QED
    BY <2>1, <2>2, <2>4, <2>5, <2>6, <2>7, <2>8, <2>9, <2>10 DEF PageIsRight, page
<1>8. CASE ~(n > take)
  <2>1. page.items = all /\ page.nextCursor = NoCursor
        /\ page = [items |-> all, nextCursor |-> NoCursor]
    BY <1>6, <1>8
  <2>2. page \in PageRecord
    BY <1>5, <2>1 DEF PageRecord
  <2>3. \A k \in 1 .. n : all[k] \in RowsIn /\ After(all[k], cursor)
    BY <1>4
  <2> HIDE DEF rows
  <2>4. \A r \in RowsIn : After(r, cursor) => \E k \in 1 .. n : all[k] = r
    BY <1>4 DEF rows
  <2>5. QED
    BY <1>4, <1>5, <2>1, <2>2, <2>3, <2>4 DEF PageIsRight, page
<1>9. QED
  BY <1>7, <1>8

-----------------------------------------------------------------------------
(* The pages. *)

LastOf(pages) == pages[Len(pages)]

\* What pages show is in the table and in order, and their cursors name their last rows.
PagesInOrder(pages) ==
  /\ \A i \in DOMAIN pages : \A k \in DOMAIN pages[i].items :
       table[pages[i].items[k]].status # "none"
  /\ InOrder(pages)
  /\ \A i \in DOMAIN pages : pages[i].nextCursor # NoCursor =>
       /\ pages[i].items # <<>>
       /\ pages[i].nextCursor = CursorOf(pages[i].items[Len(pages[i].items)])

\* Of rows that stay in the list, the pages show all those they have come past.
Covers(pages, since) ==
  pages # <<>> =>
    \A r \in since :
      LastOf(pages).nextCursor = NoCursor \/ ~Beyond(r, LastOf(pages).nextCursor)
        => Listed(pages, r)

ShownInv ==
  /\ steady \subseteq RowsIn
  /\ PagesInOrder(list.pages)
  /\ Covers(list.pages, steady)

FetchInv ==
  request.kind # "none" =>
    /\ request.since \subseteq RowsIn
    /\ PagesInOrder(request.got)
    /\ Covers(request.got, request.since)
    /\ request.got = <<>> => request.cursor = NoCursor
    /\ request.got # <<>> =>
         request.cursor # NoCursor /\ request.cursor = LastOf(request.got).nextCursor

ListInv == ListTypeOK /\ IsFiniteSet(RowsIn) /\ ShownInv /\ FetchInv

LEMMA InitList == ListInit => ListInv
<1> SUFFICES ASSUME ListInit PROVE ListInv
  OBVIOUS
<1>1. ListTypeOK
  BY ListAssumption DEF ListInit, ListTypeOK
<1>2. RowsIn = {}
  BY DEF ListInit, RowsIn
<1>3. IsFiniteSet(RowsIn)
  BY <1>2, FS_EmptySet
<1>4. ShownInv
  BY DEF ListInit, ShownInv, PagesInOrder, Covers, InOrder
<1>5. FetchInv
  BY DEF ListInit, FetchInv
<1>6. QED
  BY <1>1, <1>3, <1>4, <1>5 DEF ListInv

(* What no step does to a row: take it out of the table, or move it. *)
RowsKeepPlace ==
  \A r \in Row : table[r].status # "none" =>
    table'[r].status # "none" /\ table'[r].createdAt = table[r].createdAt

LEMMA PlacesKeep ==
  ASSUME RowsKeepPlace, NEW r \in Row, NEW s \in Row,
         table[r].status # "none", table[s].status # "none"
  PROVE  /\ Newer(r, s)' <=> Newer(r, s)
         /\ CursorOf(r)' = CursorOf(r)
BY DEF RowsKeepPlace, Newer, CursorOf

LEMMA BeyondKeeps ==
  ASSUME RowsKeepPlace, NEW r \in Row, table[r].status # "none", NEW c
  PROVE  Beyond(r, c)' <=> Beyond(r, c)
BY DEF RowsKeepPlace, Beyond

LEMMA PagesStay ==
  ASSUME RowsKeepPlace, NEW pages \in Seq(PageRecord), PagesInOrder(pages)
  PROVE  PagesInOrder(pages)'
<1>1. \A i \in DOMAIN pages : pages[i] \in PageRecord
  OBVIOUS
<1>2. \A i \in DOMAIN pages : pages[i].items \in Seq(Row)
  BY <1>1 DEF PageRecord
<1>3. \A i \in DOMAIN pages : \A k \in DOMAIN pages[i].items :
        pages[i].items[k] \in Row /\ table[pages[i].items[k]].status # "none"
  BY <1>2 DEF PagesInOrder
<1>4. \A i \in DOMAIN pages : \A k \in DOMAIN pages[i].items :
        table'[pages[i].items[k]].status # "none"
  BY <1>3 DEF RowsKeepPlace
<1>5. InOrder(pages)'
  <2> SUFFICES ASSUME NEW i \in DOMAIN pages, NEW j \in DOMAIN pages,
                      NEW k \in DOMAIN pages[i].items, NEW l \in DOMAIN pages[j].items,
                      i < j \/ (i = j /\ k < l)
               PROVE  Newer(pages[i].items[k], pages[j].items[l])'
    BY DEF InOrder
  <2>1. Newer(pages[i].items[k], pages[j].items[l])
    BY DEF PagesInOrder, InOrder
  <2>2. QED
    BY <1>3, <2>1, PlacesKeep
<1>6. ASSUME NEW i \in DOMAIN pages, pages[i].nextCursor # NoCursor
      PROVE  /\ pages[i].items # <<>>
             /\ pages[i].nextCursor = CursorOf(pages[i].items[Len(pages[i].items)])'
  <2>1. /\ pages[i].items # <<>>
        /\ pages[i].nextCursor = CursorOf(pages[i].items[Len(pages[i].items)])
    BY <1>6 DEF PagesInOrder
  <2>2. Len(pages[i].items) \in DOMAIN pages[i].items
    BY <1>2, <2>1
  <2>3. QED
    BY <1>3, <2>1, <2>2, PlacesKeep
<1>7. QED
  BY <1>4, <1>5, <1>6 DEF PagesInOrder

LEMMA CoversStay ==
  ASSUME RowsKeepPlace, NEW pages, NEW since \in SUBSET RowsIn, NEW later \in SUBSET since,
         Covers(pages, since)
  PROVE  Covers(pages, later)'
<1>1. \A r \in later : r \in Row /\ table[r].status # "none"
  BY DEF RowsIn
<1>2. \A r \in later : Beyond(r, LastOf(pages).nextCursor)' <=> Beyond(r, LastOf(pages).nextCursor)
  BY <1>1, BeyondKeeps
<1>3. QED
  BY <1>2 DEF Covers, LastOf, Listed

(* The next page goes on where the pages fetched so far end. *)
LEMMA PageAppends ==
  ASSUME ListTypeOK, FetchInv, request.kind # "none",
         NEW page, PageIsRight(page, request.cursor)
  PROVE  LET got == Append(request.got, page)
         IN  /\ got \in Seq(PageRecord) /\ got # <<>> /\ LastOf(got) = page
             /\ PagesInOrder(got)
             /\ Covers(got, request.since)
<1> DEFINE old == request.got
           got == Append(old, page)
           n == Len(old)
<1>1. /\ old \in Seq(PageRecord) /\ n \in Nat /\ DOMAIN old = 1 .. n
      /\ page \in PageRecord
      /\ request \in FetchRecord
  BY DEF ListTypeOK, FetchRecord, PageIsRight
<1>2. /\ got \in Seq(PageRecord) /\ Len(got) = n + 1 /\ DOMAIN got = 1 .. n + 1
      /\ \A i \in 1 .. n : got[i] = old[i]
      /\ got[n + 1] = page
  BY <1>1
<1> HIDE DEF got
<1>3. got # <<>> /\ LastOf(got) = page
  <2>1. Len(got) # 0
    BY <1>1, <1>2
  <2>2. QED
    BY <1>1, <1>2, <2>1 DEF LastOf
<1>4. /\ PagesInOrder(old) /\ Covers(old, request.since) /\ request.since \subseteq RowsIn
      /\ old = <<>> => request.cursor = NoCursor
      /\ old # <<>> => request.cursor # NoCursor /\ request.cursor = LastOf(old).nextCursor
  BY DEF FetchInv
<1>5. /\ page.items \in Seq(Row)
      /\ \A i \in 1 .. n : old[i].items \in Seq(Row)
      /\ \A i \in 1 .. n : old[i].nextCursor \in Cursor \cup {NoCursor}
  <2>1. \A i \in 1 .. n : old[i] \in PageRecord
    BY <1>1
  <2>2. QED
    BY <1>1, <2>1 DEF PageRecord
<1>6. /\ \A k \in DOMAIN page.items : /\ page.items[k] \in Row /\ page.items[k] \in RowsIn
                                     /\ After(page.items[k], request.cursor)
      /\ \A k \in DOMAIN page.items : table[page.items[k]].status # "none"
  BY DEF PageIsRight, RowsIn
\* Where the pages fetched so far end, if there are any.
<1>7. ASSUME n > 0
      PROVE  LET end == old[n].items
             IN  /\ end # <<>> /\ Len(end) \in DOMAIN end /\ end[Len(end)] \in Row
                 /\ request.cursor = CursorOf(end[Len(end)])
                 /\ \A k \in DOMAIN page.items : Newer(end[Len(end)], page.items[k])
                 /\ \A i \in 1 .. n : \A k \in DOMAIN old[i].items :
                      \/ old[i].items[k] = end[Len(end)]
                      \/ Newer(old[i].items[k], end[Len(end)])
  <2> DEFINE end == old[n].items
             last == end[Len(end)]
  <2>1. n \in 1 .. n /\ old # <<>>
    BY <1>1, <1>7
  <2>2. old[n].nextCursor # NoCursor /\ request.cursor = old[n].nextCursor
    BY <1>4, <2>1 DEF LastOf
  <2>3. end # <<>> /\ old[n].nextCursor = CursorOf(last)
    BY <1>1, <1>4, <2>1, <2>2 DEF PagesInOrder
  <2>4. Len(end) \in DOMAIN end /\ last \in Row
    BY <1>5, <2>1, <2>3
  <2>5. request.cursor = CursorOf(last) /\ request.cursor # NoCursor
    BY <2>2, <2>3
  <2>6. \A k \in DOMAIN page.items : Newer(last, page.items[k])
    <3> HIDE DEF last
    <3>1. \A r \in Row : Beyond(r, CursorOf(last)) <=> Newer(last, r)
      BY <2>4, CursorIs
    <3>2. QED
      BY <1>6, <2>5, <3>1 DEF After
  <2>7. ASSUME NEW i \in 1 .. n, NEW k \in DOMAIN old[i].items
        PROVE  old[i].items[k] = last \/ Newer(old[i].items[k], last)
    <3>1. i < n \/ i = n
      BY <1>1
    <3>2. CASE i < n
      BY <1>1, <1>4, <2>1, <2>4, <3>2 DEF PagesInOrder, InOrder
    <3>3. CASE i = n
      <4>1. k < Len(end) \/ k = Len(end)
        BY <1>5, <2>1, <3>3
      <4>2. k < Len(end) => Newer(old[n].items[k], last)
        BY <1>1, <1>4, <2>1, <2>4, <2>7, <3>3 DEF PagesInOrder, InOrder
      <4>3. QED
        BY <3>3, <4>1, <4>2
    <3>4. QED
      BY <3>1, <3>2, <3>3
  <2>8. QED
    BY <2>3, <2>4, <2>5, <2>6, <2>7
<1>8. InOrder(got)
  <2> SUFFICES ASSUME NEW i \in 1 .. n + 1, NEW j \in 1 .. n + 1,
                      NEW k \in DOMAIN got[i].items, NEW l \in DOMAIN got[j].items,
                      i < j \/ (i = j /\ k < l)
               PROVE  Newer(got[i].items[k], got[j].items[l])
    BY <1>2 DEF InOrder
  <2>1. CASE j \in 1 .. n
    <3>1. i \in 1 .. n /\ got[i] = old[i] /\ got[j] = old[j]
      BY <1>1, <1>2, <2>1
    <3>2. QED
      BY <1>1, <1>4, <2>1, <3>1 DEF PagesInOrder, InOrder
  <2>2. CASE j = n + 1 /\ i = n + 1
    <3>1. \A x, y \in DOMAIN page.items : x < y => Newer(page.items[x], page.items[y])
      BY DEF PageIsRight
    <3>2. k < l /\ k \in DOMAIN page.items /\ l \in DOMAIN page.items
      BY <1>1, <1>2, <2>2
    <3>3. QED
      BY <1>2, <2>2, <3>1, <3>2
  <2>3. CASE j = n + 1 /\ i \in 1 .. n
    <3>1. n > 0 /\ got[i] = old[i] /\ got[j] = page
      BY <1>1, <1>2, <2>3
    <3> DEFINE last == old[n].items[Len(old[n].items)]
    <3>2. /\ last \in Row /\ Newer(last, page.items[l])
          /\ old[i].items[k] = last \/ Newer(old[i].items[k], last)
      BY <1>7, <2>3, <3>1
    <3>3. old[i].items[k] \in Row /\ page.items[l] \in Row
      BY <1>5, <1>6, <2>3, <3>1
    <3> HIDE DEF last
    <3>4. QED
      BY <3>1, <3>2, <3>3, NewerIsAnOrder
  <2>4. QED
    BY <1>1, <2>1, <2>2, <2>3
<1>9. PagesInOrder(got)
  <2>1. ASSUME NEW i \in 1 .. n + 1
        PROVE  /\ \A k \in DOMAIN got[i].items : table[got[i].items[k]].status # "none"
               /\ got[i].nextCursor # NoCursor =>
                    /\ got[i].items # <<>>
                    /\ got[i].nextCursor = CursorOf(got[i].items[Len(got[i].items)])
    <3>1. CASE i \in 1 .. n
      BY <1>1, <1>2, <1>4, <3>1 DEF PagesInOrder
    <3>2. CASE i = n + 1
      BY <1>2, <1>6, <3>2 DEF PageIsRight
    <3>3. QED
      BY <1>1, <3>1, <3>2
  <2>2. QED
    BY <1>2, <1>8, <2>1 DEF PagesInOrder
<1>10. Covers(got, request.since)
  <2> SUFFICES ASSUME NEW r \in request.since,
                      page.nextCursor = NoCursor \/ ~Beyond(r, page.nextCursor)
               PROVE  Listed(got, r)
    BY <1>3 DEF Covers
  <2>1. r \in RowsIn
    BY <1>4
  <2>2. CASE After(r, request.cursor)
    <3>1. PICK k \in DOMAIN page.items : page.items[k] = r
      BY <2>1, <2>2 DEF PageIsRight
    <3>2. n + 1 \in DOMAIN got
      BY <1>1, <1>2
    <3>3. QED
      BY <1>2, <3>1, <3>2 DEF Listed
  <2>3. CASE ~After(r, request.cursor)
    <3>1. old # <<>> /\ ~Beyond(r, LastOf(old).nextCursor)
      BY <1>4, <2>3 DEF After
    <3>2. Listed(old, r)
      BY <1>4, <3>1 DEF Covers
    <3>3. DOMAIN old \subseteq DOMAIN got
      BY <1>1, <1>2
    <3>4. QED
      BY <1>1, <1>2, <3>2, <3>3 DEF Listed
  <2>4. QED
    BY <2>2, <2>3
<1>11. QED
  BY <1>2, <1>3, <1>9, <1>10 DEF got

-----------------------------------------------------------------------------
(* The steps. *)

LEMMA TakeIsPositive == \A limit \in Limit \cup {0} : TakeOf(limit) \in Nat \ {0}
<1>1. /\ \A limit \in Limit \cup {0} : limit \in Int
      /\ DefaultTake \in Nat \ {0} /\ MaxTake \in Nat \ {0}
  BY ListAssumption
<1>2. QED
  BY <1>1 DEF TakeOf

(* What the table does leaves the pages shown and fetched right. *)
LEMMA TableFrame ==
  ASSUME ListInv, ListTypeOK', RowsKeepPlace, UNCHANGED list,
         steady' \subseteq steady, steady' \subseteq RowsIn',
         \/ UNCHANGED request
         \/ /\ request.kind # "none"
            /\ request' = [request EXCEPT !.since = request'.since],
         request.kind # "none" =>
           request'.since \subseteq request.since /\ request'.since \subseteq RowsIn'
  PROVE  ShownInv' /\ FetchInv'
<1>1. list.pages \in Seq(PageRecord) /\ steady \in SUBSET RowsIn /\ steady' \in SUBSET steady
  BY DEF ListInv, ListTypeOK, ShownInv
<1>2. PagesInOrder(list.pages)' /\ Covers(list.pages, steady)'
  <2>1. PagesInOrder(list.pages) /\ Covers(list.pages, steady)
    BY DEF ListInv, ShownInv
  <2>2. \A pages \in Seq(PageRecord) : PagesInOrder(pages) => PagesInOrder(pages)'
    BY PagesStay
  <2>3. \A pages : \A later \in SUBSET steady :
          Covers(pages, steady) => Covers(pages, later)'
    BY <1>1, CoversStay
  <2>4. PagesInOrder(list.pages)'
    BY <1>1, <2>1, <2>2 DEF PagesInOrder, InOrder
  <2>5. Covers(list.pages, steady)'
    BY <1>1, <2>1, <2>3 DEF Covers
  <2>6. QED
    BY <2>4, <2>5
<1>3. ShownInv'
  BY <1>2 DEF ShownInv
<1>4. ASSUME request'.kind # "none"
      PROVE  /\ request.kind # "none" /\ request \in FetchRecord
             /\ request'.kind = request.kind /\ request'.got = request.got
             /\ request'.cursor = request.cursor
             /\ request'.since \in SUBSET request.since
  BY <1>4 DEF ListInv, ListTypeOK, FetchRecord
<1>5. ASSUME request'.kind # "none"
      PROVE  /\ request'.since \subseteq RowsIn'
             /\ PagesInOrder(request.got)' /\ Covers(request.got, request.since)'
  <2>1. /\ request.got \in Seq(PageRecord) /\ request.since \in SUBSET RowsIn
        /\ PagesInOrder(request.got) /\ Covers(request.got, request.since)
    BY <1>4, <1>5 DEF FetchRecord, ListInv, FetchInv
  <2>2. \A pages \in Seq(PageRecord) : PagesInOrder(pages) => PagesInOrder(pages)'
    BY PagesStay
  <2>3. \A pages : \A later \in SUBSET request.since :
          Covers(pages, request.since) => Covers(pages, later)'
    BY <2>1, CoversStay
  <2>4. PagesInOrder(request.got)'
    BY <1>4, <1>5, <2>1, <2>2 DEF PagesInOrder, InOrder
  <2>5. Covers(request.got, request.since)'
    BY <1>4, <1>5, <2>1, <2>3 DEF Covers
  <2>6. QED
    BY <1>4, <1>5, <2>4, <2>5
<1>6. FetchInv'
  BY <1>4, <1>5 DEF FetchInv, ListInv, LastOf
<1>7. QED
  BY <1>3, <1>6

LEMMA InsertKeeps ==
  ASSUME ListInv, NEW r \in Row, Insert(r)
  PROVE  ListInv'
<1>1. PICK at \in clock - CommitLag .. clock, status \in {"in", "out"} :
        at >= 0 /\ table' = [table EXCEPT ![r] = [createdAt |-> at, status |-> status]]
  BY DEF Insert
<1>2. UNCHANGED <<clock, list, request, steady>> /\ table[r].status = "none"
  BY DEF Insert
<1>3. ListTypeOK /\ IsFiniteSet(RowsIn) /\ steady \subseteq RowsIn
  BY DEF ListInv, ShownInv
<1>4. at \in 0 .. Horizon
  BY <1>1, <1>3, ListAssumption DEF ListTypeOK
<1>5. ListTypeOK'
  BY <1>1, <1>2, <1>3, <1>4 DEF ListTypeOK
<1>6. RowsKeepPlace
  BY <1>1, <1>2, <1>3 DEF RowsKeepPlace, ListTypeOK
<1>7. RowsIn \subseteq RowsIn' /\ RowsIn' \subseteq RowsIn \cup {r}
  BY <1>1, <1>2, <1>3 DEF RowsIn, ListTypeOK
<1>8. IsFiniteSet(RowsIn)'
  <2>1. IsFiniteSet(RowsIn \cup {r})
    BY <1>3, FS_AddElement
  <2>2. QED
    BY <1>7, <2>1, FS_Subset
<1>9. request.kind # "none" => request.since \subseteq RowsIn
  BY DEF ListInv, FetchInv
<1>10. ShownInv' /\ FetchInv'
  BY <1>2, <1>3, <1>5, <1>6, <1>7, <1>9, TableFrame
<1>11. QED
  BY <1>5, <1>8, <1>10 DEF ListInv

LEMMA ChangeKeeps ==
  ASSUME ListInv, NEW r \in Row, Change(r)
  PROVE  ListInv'
<1>1. /\ table' = [table EXCEPT ![r].status = IF @ = "in" THEN "out" ELSE "in"]
      /\ steady' = StillIn(steady, r)
      /\ request' = IF request.kind = "none" THEN request
                    ELSE [request EXCEPT !.since = StillIn(@, r)]
      /\ UNCHANGED <<clock, list>> /\ table[r].status # "none"
  BY DEF Change
<1>2. ListTypeOK /\ IsFiniteSet(RowsIn) /\ steady \subseteq RowsIn
  BY DEF ListInv, ShownInv
<1>3. \A rows \in SUBSET RowsIn : StillIn(rows, r) \subseteq rows /\ StillIn(rows, r) \subseteq RowsIn'
  BY <1>1, <1>2 DEF StillIn, RowsIn, ListTypeOK
<1>4. steady' \subseteq steady /\ steady' \subseteq RowsIn'
  BY <1>1, <1>2, <1>3
<1>5. ASSUME request.kind # "none"
      PROVE  /\ request \in FetchRecord
             /\ request' = [request EXCEPT !.since = StillIn(request.since, r)]
             /\ request'.since = StillIn(request.since, r)
             /\ request'.since \subseteq request.since /\ request'.since \subseteq RowsIn'
             /\ request' \in FetchRecord
  <2>1. request \in FetchRecord /\ request.since \subseteq RowsIn
    BY <1>2, <1>5 DEF ListTypeOK, ListInv, FetchInv
  <2>2. /\ request' = [request EXCEPT !.since = StillIn(request.since, r)]
        /\ request'.since = StillIn(request.since, r)
    BY <1>1, <1>5, <2>1 DEF FetchRecord
  <2>3. StillIn(request.since, r) \subseteq request.since
    BY <1>3, <2>1
  <2>4. request' \in FetchRecord
    BY <2>1, <2>2, <2>3 DEF FetchRecord
  <2>5. QED
    BY <1>3, <2>1, <2>2, <2>3, <2>4
<1>6. request.kind = "none" => UNCHANGED request
  BY <1>1
<1>7. ListTypeOK'
  <2>1. table' \in [Row -> [createdAt : 0 .. Horizon, status : {"none", "in", "out"}]]
    BY <1>1, <1>2 DEF ListTypeOK
  <2>2. request' \in [kind : {"none"}] \cup FetchRecord
    BY <1>2, <1>5, <1>6 DEF ListTypeOK
  <2>3. QED
    BY <1>1, <1>2, <1>4, <2>1, <2>2 DEF ListTypeOK
<1>8. RowsKeepPlace
  BY <1>1, <1>2 DEF RowsKeepPlace, ListTypeOK
<1>9. IsFiniteSet(RowsIn)'
  <2>1. RowsIn' \subseteq RowsIn \cup {r}
    BY <1>1, <1>2 DEF RowsIn, ListTypeOK
  <2>2. IsFiniteSet(RowsIn \cup {r})
    BY <1>2, FS_AddElement
  <2>3. QED
    BY <2>1, <2>2, FS_Subset
<1>10. ShownInv' /\ FetchInv'
  BY <1>1, <1>4, <1>5, <1>6, <1>7, <1>8, TableFrame
<1>11. QED
  BY <1>7, <1>9, <1>10 DEF ListInv

LEMMA TimeKeeps ==
  ASSUME ListInv, TimePasses
  PROVE  ListInv'
<1>1. ListTypeOK /\ clock < Horizon /\ clock' = clock + 1 /\ UNCHANGED <<table, list, request, steady>>
  BY DEF ListInv, TimePasses
<1>2. clock' \in 0 .. Horizon
  BY <1>1, ListAssumption DEF ListTypeOK
<1>3. ListTypeOK'
  BY <1>1, <1>2 DEF ListTypeOK
<1>4. RowsIn' = RowsIn /\ RowsKeepPlace
  BY <1>1 DEF RowsIn, RowsKeepPlace
<1>5. ShownInv' /\ FetchInv'
  BY <1>1, <1>3, <1>4, TableFrame DEF ListInv, ShownInv, FetchInv
<1>6. QED
  BY <1>3, <1>4, <1>5 DEF ListInv

(* What the CMS does leaves the table alone. *)
LEMMA BrowserFrame ==
  ASSUME ListInv, UNCHANGED table
  PROVE  /\ IsFiniteSet(RowsIn)' /\ RowsIn' = RowsIn
         /\ UNCHANGED <<list, steady>> => ShownInv'
         /\ \A pages : PagesInOrder(pages)' <=> PagesInOrder(pages)
         /\ \A pages, since : Covers(pages, since)' <=> Covers(pages, since)
<1>1. RowsIn' = RowsIn
  BY DEF RowsIn
<1>2. ASSUME NEW pages PROVE PagesInOrder(pages)' <=> PagesInOrder(pages)
  BY DEF PagesInOrder, InOrder, Newer, CursorOf
<1>3. ASSUME NEW pages, NEW since PROVE Covers(pages, since)' <=> Covers(pages, since)
  BY DEF Covers, LastOf, Listed, Beyond
<1>4. UNCHANGED <<list, steady>> => ShownInv'
  BY <1>1 DEF ListInv, ShownInv, PagesInOrder, InOrder, Newer, CursorOf, Covers, LastOf, Listed, Beyond
<1>5. QED
  BY <1>1, <1>2, <1>3, <1>4 DEF ListInv

(* A list is loaded from its first page on. *)
LEMMA LoadKeeps ==
  ASSUME ListInv, NEW pages \in Nat, Load(pages), UNCHANGED <<clock, table, steady>>,
         list' \in [limit : Limit \cup {0}, pages : {list.pages}]
  PROVE  ListInv'
<1>1. request' = [kind |-> "all", cursor |-> NoCursor, got |-> <<>>, want |-> pages,
                  since |-> RowsIn]
  BY DEF Load
<1>2. ListTypeOK
  BY DEF ListInv
<1>3. RowsIn \in SUBSET Row
  BY DEF RowsIn
<1>4. request' \in FetchRecord
  BY <1>1, <1>3 DEF FetchRecord
<1>5. list' \in [limit : Limit \cup {0}, pages : Seq(PageRecord)] /\ list'.pages = list.pages
  BY <1>2 DEF ListTypeOK
<1>6. ListTypeOK'
  BY <1>2, <1>4, <1>5 DEF ListTypeOK
<1>7. IsFiniteSet(RowsIn)' /\ RowsIn' = RowsIn
  BY BrowserFrame
<1>8. ShownInv'
  BY <1>5, <1>7 DEF ListInv, ShownInv, PagesInOrder, InOrder, Newer, CursorOf, Covers, LastOf, Listed, Beyond
<1>9. FetchInv'
  BY <1>1, <1>7 DEF FetchInv, PagesInOrder, InOrder, Covers
<1>10. QED
  BY <1>6, <1>7, <1>8, <1>9 DEF ListInv

LEMMA FetchNextKeeps ==
  ASSUME ListInv, FetchNextPage
  PROVE  ListInv'
<1>1. /\ list.pages # <<>> /\ LastCursor # NoCursor
      /\ request' = [kind |-> "next", cursor |-> LastCursor, got |-> list.pages,
                     want |-> Len(list.pages) + 1, since |-> steady]
      /\ UNCHANGED <<clock, table, list, steady>>
  BY DEF FetchNextPage
<1>2. ListTypeOK /\ list.pages \in Seq(PageRecord) /\ steady \in SUBSET Row
  BY DEF ListInv, ListTypeOK
<1>3. LastCursor \in Cursor \cup {NoCursor}
  <2>1. list.pages[Len(list.pages)] \in PageRecord
    BY <1>1, <1>2
  <2>2. QED
    BY <2>1 DEF LastCursor, PageRecord
<1>4. request' \in FetchRecord
  <2>1. Len(list.pages) + 1 \in Nat
    BY <1>2
  <2>2. QED
    BY <1>1, <1>2, <1>3, <2>1 DEF FetchRecord
<1>5. ListTypeOK'
  BY <1>1, <1>2, <1>4 DEF ListTypeOK
<1>6. IsFiniteSet(RowsIn)' /\ RowsIn' = RowsIn /\ ShownInv'
  BY <1>1, BrowserFrame
<1>7. FetchInv'
  <2>1. /\ steady \subseteq RowsIn
        /\ PagesInOrder(list.pages) /\ Covers(list.pages, steady)
    BY DEF ListInv, ShownInv
  <2>2. LastCursor = LastOf(list.pages).nextCursor
    BY DEF LastCursor, LastOf
  <2>3. QED
    BY <1>1, <1>6, <2>1, <2>2
       DEF FetchInv, PagesInOrder, InOrder, Newer, CursorOf, Covers, LastOf, Listed, Beyond
<1>8. QED
  BY <1>5, <1>6, <1>7 DEF ListInv

LEMMA PageArrivesKeeps ==
  ASSUME ListInv, PageArrives
  PROVE  ListInv'
<1> DEFINE page == Page(request.cursor, TakeOf(list.limit))
           got == Append(request.got, page)
           more == Len(got) < request.want /\ page.nextCursor # NoCursor
<1>1. /\ request.kind # "none"
      /\ IF more
         THEN /\ request' = [request EXCEPT !.got = got, !.cursor = page.nextCursor]
              /\ UNCHANGED <<list, steady>>
         ELSE /\ list' = [list EXCEPT !.pages = got]
              /\ steady' = request.since
              /\ request' = [kind |-> "none"]
      /\ UNCHANGED <<clock, table>>
  BY DEF PageArrives
<1>2. ListTypeOK /\ IsFiniteSet(RowsIn) /\ FetchInv
  BY DEF ListInv
<1>3. /\ request \in FetchRecord
      /\ list \in [limit : Limit \cup {0}, pages : Seq(PageRecord)]
  BY <1>1, <1>2 DEF ListTypeOK
<1>4. TakeOf(list.limit) \in Nat \ {0} /\ request.cursor \in Cursor \cup {NoCursor}
  BY <1>3, TakeIsPositive DEF FetchRecord
<1>5. PageIsRight(page, request.cursor)
  BY <1>2, <1>4, PageHolds
<1> HIDE DEF page
<1>6. /\ got \in Seq(PageRecord) /\ got # <<>> /\ LastOf(got) = page
      /\ PagesInOrder(got) /\ Covers(got, request.since)
  BY <1>1, <1>2, <1>5, PageAppends
<1>7. page.nextCursor \in Cursor \cup {NoCursor}
  BY <1>5 DEF PageIsRight, PageRecord
<1> HIDE DEF got
<1>8. IsFiniteSet(RowsIn)' /\ RowsIn' = RowsIn
  BY <1>1, BrowserFrame
<1>9. request.since \subseteq RowsIn /\ request.since \subseteq Row
  BY <1>1, <1>2 DEF FetchInv, RowsIn
<1>10. CASE more
  <2>1. /\ request' \in FetchRecord
        /\ request'.got = got /\ request'.cursor = page.nextCursor /\ request'.since = request.since
    BY <1>1, <1>3, <1>6, <1>7, <1>10 DEF FetchRecord
  <2>2. ListTypeOK'
    BY <1>1, <1>2, <1>10, <2>1 DEF ListTypeOK
  <2>3. ShownInv'
    BY <1>1, <1>10, BrowserFrame
  <2>4. FetchInv'
    <3>1. page.nextCursor # NoCursor
      BY <1>10
    <3>2. QED
      BY <1>1, <1>6, <1>8, <1>9, <2>1, <3>1
         DEF FetchInv, PagesInOrder, InOrder, Newer, CursorOf, Covers, LastOf, Listed, Beyond
  <2>5. QED
    BY <1>8, <2>2, <2>3, <2>4 DEF ListInv
<1>11. CASE ~more
  <2>1. /\ list' = [list EXCEPT !.pages = got] /\ list'.pages = got
        /\ steady' = request.since /\ request' = [kind |-> "none"]
    BY <1>1, <1>3, <1>11
  <2>2. ListTypeOK'
    BY <1>1, <1>2, <1>3, <1>6, <1>9, <2>1 DEF ListTypeOK
  <2>3. ShownInv'
    BY <1>1, <1>6, <1>8, <1>9, <2>1
       DEF ShownInv, PagesInOrder, InOrder, Newer, CursorOf, Covers, LastOf, Listed, Beyond
  <2>4. FetchInv'
    BY <2>1 DEF FetchInv
  <2>5. QED
    BY <1>8, <2>2, <2>3, <2>4 DEF ListInv
<1>12. QED
  BY <1>10, <1>11

LEMMA ListStep == ListInv /\ [ListNext]_listVars => ListInv'
<1> SUFFICES ASSUME ListInv, [ListNext]_listVars PROVE ListInv'
  OBVIOUS
<1>1. ASSUME NEW r \in Row, Insert(r) PROVE ListInv'
  BY <1>1, InsertKeeps
<1>2. ASSUME NEW r \in Row, Change(r) PROVE ListInv'
  BY <1>2, ChangeKeeps
<1>3. CASE TimePasses
  BY <1>3, TimeKeeps
<1>4. ASSUME NEW limit \in Limit, Open(limit) PROVE ListInv'
  <2>1. /\ Load(1) /\ UNCHANGED <<clock, table, steady>>
        /\ list' = [list EXCEPT !.limit = limit]
    BY <1>4 DEF Open
  <2>2. list' \in [limit : Limit \cup {0}, pages : {list.pages}]
    BY <2>1 DEF ListInv, ListTypeOK
  <2>3. QED
    BY <2>1, <2>2, LoadKeeps
<1>5. CASE Refetch
  <2>1. Load(Len(list.pages)) /\ UNCHANGED <<clock, table, list, steady>>
    BY <1>5 DEF Refetch
  <2>2. list' \in [limit : Limit \cup {0}, pages : {list.pages}] /\ Len(list.pages) \in Nat
    BY <2>1 DEF ListInv, ListTypeOK
  <2>3. QED
    BY <2>1, <2>2, LoadKeeps
<1>6. CASE FetchNextPage
  BY <1>6, FetchNextKeeps
<1>7. CASE PageArrives
  BY <1>7, PageArrivesKeeps
<1>8. CASE PageFails
  <2>1. request' = [kind |-> "none"] /\ UNCHANGED <<clock, table, list, steady>>
    BY <1>8 DEF PageFails
  <2>2. ListTypeOK' /\ FetchInv'
    BY <2>1 DEF ListInv, ListTypeOK, FetchInv
  <2>3. QED
    BY <2>1, <2>2, BrowserFrame DEF ListInv
<1>9. CASE UNCHANGED listVars
  BY <1>9 DEF listVars, ListInv, ListTypeOK, RowsIn, ShownInv, FetchInv, PagesInOrder, InOrder,
              Newer, CursorOf, Covers, LastOf, Listed, Beyond
<1>10. QED
  BY <1>1, <1>2, <1>3, <1>4, <1>5, <1>6, <1>7, <1>8, <1>9 DEF ListNext

(* ListCorrect.  ListInv is an invariant of the list and of its fetches.   *)
THEOREM ListCorrect == ListSpec => []ListInv
BY InitList, ListStep, PTL DEF ListSpec

(* ListInOrder.  However rows are added between and during the fetches,    *)
(* with equal times or late, the pages put together by useInfiniteQuery    *)
(* are in order, and show no row twice.                                    *)
THEOREM ListInOrder == ListSpec => []ListedInOrder
<1>1. ListInv => ListedInOrder
  BY DEF ListInv, ShownInv, PagesInOrder, ListedInOrder
<1>2. QED
  BY <1>1, ListCorrect, PTL

(* ListSkipsNothing.  A row that was in the list since its first page was  *)
(* asked for is shown once the pages have come past its place, whatever    *)
(* happens to other rows.                                                  *)
THEOREM ListSkipsNothing == ListSpec => []NothingSkipped
<1>1. ListInv => NothingSkipped
  BY DEF ListInv, ShownInv, Covers, LastOf, LastCursor, NothingSkipped
<1>2. QED
  BY <1>1, ListCorrect, PTL
=============================================================================
