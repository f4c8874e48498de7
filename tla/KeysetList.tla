----------------------------- MODULE KeysetList ----------------------------
(***************************************************************************)
(* The list of transactions (or of API calls) in the CMS: a keyset-paged   *)
(* query of the server, and the pages the CMS puts together from it with   *)
(* useInfiniteQuery, one at a time, while rows are added and change their  *)
(* status.  A list is that of one choice of filters; a row is "in" it or   *)
(* "out" of it by the columns the filters name.                            *)
(***************************************************************************)
EXTENDS Integers, Sequences, FiniteSets

CONSTANTS
  Row,                     \* ids, a set of numbers: compared as strings are
  Limit,                   \* values of "limit"; 0 where it is left out or no number
  DefaultTake, MaxTake,    \* 50 and 100
  Horizon,                 \* bound of the clock
  CommitLag,               \* ticks from a row's createdAt to its commit, at most
  NoCursor

ASSUME ListAssumption ==
  /\ Row \subseteq Int /\ Limit \subseteq Int
  /\ {DefaultTake, MaxTake} \subseteq Nat \ {0}
  /\ {Horizon, CommitLag} \subseteq Nat
  /\ NoCursor \notin [createdAt : 0 .. Horizon, id : Row]

VARIABLES
  clock,
  table,     \* the rows
  list,      \* what the CMS shows: its limit and pages
  request,   \* the fetch that is under way
  steady     \* history: rows in the list ever since its first page was asked for

listVars == <<clock, table, list, request, steady>>

ListInit ==
  /\ clock = 0
  /\ table = [r \in Row |-> [createdAt |-> 0, status |-> "none"]]
  /\ list = [limit |-> 0, pages |-> <<>>]
  /\ request = [kind |-> "none"]
  /\ steady = {}

RowsIn == {r \in Row : table[r].status = "in"}

-----------------------------------------------------------------------------
(* The table. *)

Insert(r) ==
  /\ table[r].status = "none"
  /\ \E at \in clock - CommitLag .. clock, status \in {"in", "out"} :
       at >= 0 /\ table' = [table EXCEPT ![r] = [createdAt |-> at, status |-> status]]
  /\ UNCHANGED <<clock, list, request, steady>>

StillIn(rows, r) == IF table[r].status = "in" THEN rows \ {r} ELSE rows

\* A status or a policy number changes.
Change(r) ==
  /\ table[r].status # "none"
  /\ table' = [table EXCEPT ![r].status = IF @ = "in" THEN "out" ELSE "in"]
  /\ steady' = StillIn(steady, r)
  /\ request' = IF request.kind = "none" THEN request
                ELSE [request EXCEPT !.since = StillIn(@, r)]
  /\ UNCHANGED <<clock, list>>

TimePasses ==
  /\ clock < Horizon
  /\ clock' = clock + 1
  /\ UNCHANGED <<table, list, request, steady>>

-----------------------------------------------------------------------------
(* The server: parsePaginationQuery, buildKeysetWhere, findMany and        *)
(* buildPageResponse.                                                      *)

TakeOf(limit) ==
  LET asked == IF limit = 0 THEN DefaultTake ELSE IF limit < 1 THEN 1 ELSE limit
  IN IF asked > MaxTake THEN MaxTake ELSE asked

CursorOf(r) == [createdAt |-> table[r].createdAt, id |-> r]

\* Faults: the row the cursor names is asked for again; rows of the same moment are
\* left out.
BeyondOrAt(r, c) ==
  table[r].createdAt < c.createdAt \/ (table[r].createdAt = c.createdAt /\ r <= c.id)
BeyondInTime(r, c) == table[r].createdAt < c.createdAt

\* Does row r come after cursor c?
Beyond(r, c) ==
  table[r].createdAt < c.createdAt \/ (table[r].createdAt = c.createdAt /\ r < c.id)

Newer(r, s) ==
  table[r].createdAt > table[s].createdAt
    \/ (table[r].createdAt = table[s].createdAt /\ r > s)

Sorts(s, rows) == \A i, j \in 1 .. Cardinality(rows) : i < j => Newer(s[i], s[j])

\* orderBy createdAt, then id, the newest first.
Sorted(rows) == CHOOSE s \in [1 .. Cardinality(rows) -> rows] : Sorts(s, rows)

Page(cursor, take) ==
  LET rows == Sorted({r \in RowsIn : cursor = NoCursor \/ Beyond(r, cursor)})
  IN IF Len(rows) > take
     THEN [items |-> SubSeq(rows, 1, take), nextCursor |-> CursorOf(rows[take])]
     ELSE [items |-> rows, nextCursor |-> NoCursor]

-----------------------------------------------------------------------------
(* The CMS. *)

LastCursor == list.pages[Len(list.pages)].nextCursor

Load(pages) ==
  request' = [kind |-> "all", cursor |-> NoCursor, got |-> <<>>, want |-> pages,
              since |-> RowsIn]

\* The page opens, or its filters change: a list of its own.
Open(limit) ==
  /\ list.pages = <<>> /\ request.kind = "none"
  /\ list' = [list EXCEPT !.limit = limit]
  /\ Load(1)
  /\ UNCHANGED <<clock, table, steady>>

\* The window gets the focus back, or a mutation invalidates the list.  A fetch under
\* way is dropped.
Refetch ==
  /\ list.pages # <<>>
  /\ Load(Len(list.pages))
  /\ UNCHANGED <<clock, table, list, steady>>

\* "Tải thêm", shown while there is a cursor and dead while the next page is fetched.
FetchNextPage ==
  /\ list.pages # <<>>
  /\ LastCursor # NoCursor
  /\ request.kind # "next"
  /\ request' = [kind |-> "next", cursor |-> LastCursor, got |-> list.pages,
                 want |-> Len(list.pages) + 1, since |-> steady]
  /\ UNCHANGED <<clock, table, list, steady>>

\* The answer to the page under way; a list that is loaded anew is asked for page by
\* page and shown when it is complete.
PageArrives ==
  /\ request.kind # "none"
  /\ LET page == Page(request.cursor, TakeOf(list.limit))
         got == Append(request.got, page)
     IN IF Len(got) < request.want /\ page.nextCursor # NoCursor
        THEN /\ request' = [request EXCEPT !.got = got, !.cursor = page.nextCursor]
             /\ UNCHANGED <<list, steady>>
        ELSE /\ list' = [list EXCEPT !.pages = got]
             /\ steady' = request.since
             /\ request' = [kind |-> "none"]
  /\ UNCHANGED <<clock, table>>

\* The second try has failed too: what was shown stays.
PageFails ==
  /\ request.kind # "none"
  /\ request' = [kind |-> "none"]
  /\ UNCHANGED <<clock, table, list, steady>>

ListNext ==
  \/ \E r \in Row : Insert(r) \/ Change(r)
  \/ TimePasses
  \/ \E limit \in Limit : Open(limit)
  \/ Refetch
  \/ FetchNextPage
  \/ PageArrives
  \/ PageFails

ListSpec == ListInit /\ [][ListNext]_listVars

-----------------------------------------------------------------------------
Cursor == [createdAt : 0 .. Horizon, id : Row]
PageRecord == [items : Seq(Row), nextCursor : Cursor \cup {NoCursor}]
FetchRecord == [kind : {"next", "all"}, cursor : Cursor \cup {NoCursor},
                got : Seq(PageRecord), want : Nat, since : SUBSET Row]

ListTypeOK ==
  /\ clock \in 0 .. Horizon
  /\ table \in [Row -> [createdAt : 0 .. Horizon, status : {"none", "in", "out"}]]
  /\ list \in [limit : Limit \cup {0}, pages : Seq(PageRecord)]
  /\ request \in [kind : {"none"}] \cup FetchRecord
  /\ steady \subseteq Row

\* The CMS shows the items of all pages, one after the other.
Listed(pages, r) == \E i \in DOMAIN pages : \E k \in DOMAIN pages[i].items : pages[i].items[k] = r

\* The pages put together show the newest first and no row twice, whatever rows were
\* added between them.
InOrder(pages) ==
  \A i, j \in DOMAIN pages :
    \A k \in DOMAIN pages[i].items, l \in DOMAIN pages[j].items :
      i < j \/ (i = j /\ k < l) => Newer(pages[i].items[k], pages[j].items[l])

ListedInOrder == InOrder(list.pages)

\* A row that was in the list all the time is shown as soon as the pages reach it; where
\* they end without a cursor, every such row is.
NothingSkipped ==
  list.pages # <<>> =>
    \A r \in steady : LastCursor = NoCursor \/ ~Beyond(r, LastCursor) => Listed(list.pages, r)
=============================================================================
