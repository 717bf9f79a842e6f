------------------------------ MODULE Listing ------------------------------
(***************************************************************************)
(* GET /api/users: one page of the users in the order of their ids.  The   *)
(* handler counts the rows and then reads the page, in two queries; rows   *)
(* are inserted meanwhile.  A client walks through the pages for as long   *)
(* as the answers say has_more.  No endpoint deletes a user.               *)
(*                                                                         *)
(* A row's id is assigned by its INSERT and seen from its commit on.  With *)
(* SQLite, the default driver, one transaction writes at a time, so ids    *)
(* are committed in their order; PostgreSQL and MySQL do not promise it.   *)
(***************************************************************************)
EXTENDS Naturals, FiniteSets, Sequences

CONSTANTS
  Writer,     \* sign-ups during the walk
  MaxInitial, \* the most rows there are before it
  PerPage,    \* the values of per_page the client asks for
  MaxPages    \* bound: pages after which the client gives up

ASSUME ListingAssumption ==
  /\ IsFiniteSet(Writer)
  /\ MaxInitial \in Nat
  /\ PerPage \subseteq Nat \ {0}
  /\ MaxPages \in Nat

VARIABLES
  inOrder, \* whether the database commits ids in the order it assigned them
  rows,    \* ids of the committed rows
  lastId,  \* the last id assigned
  pending, \* the id of each sign-up's uncommitted row, 0 if it has none
  waiting, \* sign-ups not made yet
  pc,      \* where the walk is
  perPage, \* its per_page
  start,   \* the rows there were when it started
  total,   \* what the current request counted
  pages    \* the ids answered, one set per request

vars == <<inOrder, rows, lastId, pending, waiting, pc, perPage, start, total, pages>>
table == <<inOrder, rows, lastId, pending, waiting>>

Init ==
  /\ inOrder \in BOOLEAN
  /\ \E n \in 0..MaxInitial : rows = 1..n /\ lastId = n
  /\ pending = [w \in Writer |-> 0]
  /\ waiting = Writer
  /\ pc = "idle"
  /\ perPage \in PerPage
  /\ start = {}
  /\ total = 0
  /\ pages = <<>>

-----------------------------------------------------------------------------
(* Sign-ups, as far as a listing sees them. *)

Insert(w) ==
  /\ w \in waiting
  /\ inOrder => \A v \in Writer : pending[v] = 0
  /\ lastId' = lastId + 1
  /\ pending' = [pending EXCEPT ![w] = lastId']
  /\ waiting' = waiting \ {w}
  /\ UNCHANGED <<inOrder, rows, pc, perPage, start, total, pages>>

Commit(w) ==
  /\ pending[w] # 0
  /\ rows' = rows \cup {pending[w]}
  /\ pending' = [pending EXCEPT ![w] = 0]
  /\ UNCHANGED <<inOrder, lastId, waiting, pc, perPage, start, total, pages>>

Rollback(w) ==
  /\ pending[w] # 0
  /\ pending' = [pending EXCEPT ![w] = 0]
  /\ UNCHANGED <<inOrder, rows, lastId, waiting, pc, perPage, start, total, pages>>

-----------------------------------------------------------------------------
(* The handler. *)

Page == Len(pages) + 1

\* Variant with a bug: page numbers taken to start at 0.
OffsetFromZero(page) == page * perPage

Offset(page) == (page - 1) * perPage

\* Variant with a bug: LIMIT and OFFSET without ORDER BY: any rows.
SelectUnordered(offset) ==
  LET size == IF Cardinality(rows) > offset + perPage THEN perPage
              ELSE IF Cardinality(rows) > offset THEN Cardinality(rows) - offset
              ELSE 0
  IN {ids \in SUBSET rows : Cardinality(ids) = size}

\* The possible results of ORDER BY id LIMIT per_page OFFSET offset.
Select(offset) ==
  LET Before(id) == Cardinality({j \in rows : j < id})
  IN {{id \in rows : Before(id) \in offset .. offset + perPage - 1}}

LastPage(count) == (count + perPage - 1) \div perPage

HasMore(page) == page < LastPage(total)

Start ==
  /\ pc = "idle"
  /\ pc' = "count"
  /\ start' = rows
  /\ UNCHANGED <<table, perPage, total, pages>>

\* Variant with a bug: the highest id stands for the number of rows.
CountByHighestId ==
  /\ pc = "count"
  /\ pc' = "query"
  /\ total' = lastId
  /\ UNCHANGED <<table, perPage, start, pages>>

Count ==
  /\ pc = "count"
  /\ pc' = "query"
  /\ total' = Cardinality(rows)
  /\ UNCHANGED <<table, perPage, start, pages>>

Query ==
  /\ pc = "query"
  /\ Page <= MaxPages
  /\ \E ids \in Select(Offset(Page)) : pages' = Append(pages, ids)
  /\ pc' = IF HasMore(Page) THEN "count" ELSE "done"
  /\ UNCHANGED <<table, perPage, start, total>>

-----------------------------------------------------------------------------
Next ==
  \/ \E w \in Writer : Insert(w) \/ Commit(w) \/ Rollback(w)
  \/ Start
  \/ Count
  \/ Query

Spec == Init /\ [][Next]_vars

-----------------------------------------------------------------------------
(* Properties *)

Seen == UNION {pages[p] : p \in DOMAIN pages}

\* Every variable has its type, and rows have ids that were assigned.
TypeOK ==
  /\ inOrder \in BOOLEAN
  /\ rows \subseteq 1..lastId
  /\ lastId \in 0 .. MaxInitial + Cardinality(Writer)
  /\ pending \in [Writer -> {0} \cup (1..lastId \ rows)]
  /\ waiting \subseteq Writer
  /\ pc \in {"idle", "count", "query", "done"}
  /\ perPage \in PerPage
  /\ start \subseteq rows
  /\ total \in 0 .. Cardinality(rows)
  /\ Len(pages) <= MaxPages
  /\ \A p \in DOMAIN pages : pages[p] \subseteq rows /\ Cardinality(pages[p]) <= perPage

\* With ids committed in order, a walk that ended has seen every user there was
\* when it started, although the table grew between its pages.
WalkSeesAll == inOrder /\ pc = "done" => start \subseteq Seen

\* In whatever order ids are committed, a walk misses no more of the users there
\* were when it started than rows were committed between its last count and its
\* last page: only those can push somebody off the end of that page.
WalkMissesFew ==
  [][pc # "done" /\ pc' = "done" =>
       Cardinality(start \ Seen') <= Cardinality(rows) - total]_vars

\* With ids committed in order, later pages hold later ids: nobody is listed
\* twice, and the answers put together are in the order index() sorts by.
PagesAscend ==
  inOrder =>
  \A p, q \in DOMAIN pages :
    p < q => \A i \in pages[p], j \in pages[q] : i < j

=============================================================================
