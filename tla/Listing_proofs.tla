--------------------------- MODULE Listing_proofs ---------------------------
(***************************************************************************)
(* Proofs about Listing, for tables and pages of any size and any number   *)
(* of sign-ups.  Where a row stands among the others is its rank; with ids *)
(* committed in order, a rank never changes.                               *)
(***************************************************************************)
EXTENDS Listing, FiniteSetTheorems, FunctionTheorems, TLAPS

Rank(R, id) == Cardinality({j \in R : j < id})

LEMMA RankFacts ==
  ASSUME NEW n \in Nat, NEW S \in SUBSET (1..n)
  PROVE  /\ IsFiniteSet(S) /\ Cardinality(S) \in Nat
         /\ \A i \in S : Rank(S, i) \in Nat /\ Rank(S, i) < Cardinality(S)
         /\ \A i, j \in S : Rank(S, i) < Rank(S, j) => i < j
<1>1. IsFiniteSet(S) /\ Cardinality(S) \in Nat
  <2>1. IsFiniteSet(1..n)
    BY FS_Interval
  <2>2. IsFiniteSet(S)
    BY <2>1, FS_Subset
  <2> QED
    BY <2>2, FS_CardinalityType
<1>2. ASSUME NEW i \in S
      PROVE  Rank(S, i) \in Nat /\ Rank(S, i) < Cardinality(S)
  <2> DEFINE B == {j \in S : j < i}
  <2>1. B \in SUBSET S /\ i \notin B
    OBVIOUS
  <2>2. IsFiniteSet(B) /\ Cardinality(B) \in Nat
    BY <1>1, <2>1, FS_Subset, FS_CardinalityType
  <2>3. Cardinality(B) <= Cardinality(S) /\ Cardinality(B) # Cardinality(S)
    BY <1>1, <2>1, FS_Subset
  <2> QED
    BY <1>1, <2>2, <2>3 DEF Rank
<1>3. ASSUME NEW i \in S, NEW j \in S, ~ (i < j)
      PROVE  ~ (Rank(S, i) < Rank(S, j))
  <2> DEFINE B == {k \in S : k < i}
             C == {k \in S : k < j}
  <2>1. C \in SUBSET B /\ B \in SUBSET S
    <3>1. i \in Nat /\ j \in Nat /\ j <= i /\ \A k \in S : k \in Nat
      BY <1>3
    <3>2. \A k \in S : k < j => k < i
      BY <3>1
    <3> QED
      BY <3>2
  <2>2. IsFiniteSet(B)
    BY <1>1, <2>1, FS_Subset
  <2>3. Cardinality(C) <= Cardinality(B)
    BY <2>1, <2>2, FS_Subset
  <2>4. Cardinality(B) \in Nat /\ Cardinality(C) \in Nat
    BY <2>1, <2>2, FS_Subset, FS_CardinalityType
  <2> QED
    BY <2>3, <2>4 DEF Rank
<1> QED
  BY <1>1, <1>2, <1>3

LEMMA RankGrows ==
  ASSUME NEW n \in Nat, NEW S \in SUBSET (1..n), NEW i \in S, NEW j \in S, i < j
  PROVE  Rank(S, i) # Rank(S, j)
<1> DEFINE B == {k \in S : k < i}
           C == {k \in S : k < j}
<1>1. i \in Nat /\ j \in Nat /\ \A k \in S : k \in Nat
  OBVIOUS
<1>2. \A k \in S : k < i => k < j
  BY <1>1
<1>3. i \in C /\ i \notin B /\ C \in SUBSET S
  BY <1>1
<1>4. B \in SUBSET C
  BY <1>2
<1>5. IsFiniteSet(C)
  BY <1>3, RankFacts, FS_Subset
<1>6. Cardinality(B) # Cardinality(C)
  BY <1>3, <1>5, <1>4, FS_Subset
<1> QED
  BY <1>6 DEF Rank

\* A row with a higher id changes no rank.
LEMMA RankStays ==
  ASSUME NEW S \in SUBSET Nat, NEW x \in Nat, \A j \in S : j < x, NEW i \in S
  PROVE  Rank(S \cup {x}, i) = Rank(S, i)
<1>1. {j \in S \cup {x} : j < i} = {j \in S : j < i}
  OBVIOUS
<1> QED
  BY <1>1 DEF Rank

\* Rows that are added push the others back, never forward.
LEMMA RankNeverFalls ==
  ASSUME NEW n \in Nat, NEW S \in SUBSET (1..n), NEW T \in SUBSET S, NEW i \in T
  PROVE  Rank(T, i) <= Rank(S, i)
<1>1. {j \in T : j < i} \subseteq {j \in S : j < i} /\ {j \in S : j < i} \subseteq S
  OBVIOUS
<1>2. IsFiniteSet({j \in S : j < i})
  BY <1>1, RankFacts, FS_Subset
<1> QED
  BY <1>1, <1>2, FS_Subset DEF Rank

\* No two rows have one rank, so there are no more of them than ranks.
LEMMA RanksAreDistinct ==
  ASSUME NEW n \in Nat, NEW S \in SUBSET (1..n), NEW M \in SUBSET S,
         NEW low \in Nat, NEW size \in Nat,
         \A i \in M : Rank(S, i) \in low .. low + size - 1
  PROVE  Cardinality(M) <= size
<1> DEFINE R == low .. low + size - 1
           f == [i \in M |-> Rank(S, i)]
<1>1. IsFiniteSet(R) /\ Cardinality(R) = size
  <2>1. /\ IsFiniteSet(R)
        /\ Cardinality(R) = IF low > low + size - 1 THEN 0 ELSE (low + size - 1) - low + 1
    BY FS_Interval
  <2> QED
    BY <2>1
<1>2. f \in Injection(M, R)
  <2>1. \A i, j \in M : i \in Nat /\ j \in Nat /\ i \in S /\ j \in S
    OBVIOUS
  <2>2. ASSUME NEW i \in M, NEW j \in M, i < j PROVE Rank(S, i) # Rank(S, j)
    BY <2>2, <2>1, RankGrows
  <2>3. \A i, j \in M : f[i] = f[j] => i = j
    BY <2>1, <2>2
  <2>4. f \in [M -> R]
    OBVIOUS
  <2> HIDE DEF f, R
  <2> QED
    BY <2>3, <2>4, Fun_IsInj
<1> QED
  BY <1>1, <1>2, FS_Injection

LEMMA PageEnds ==
  ASSUME NEW k \in Nat \ {0}, NEW p \in Nat \ {0}, NEW q \in Nat \ {0}, p < q
  PROVE  p * k <= (q - 1) * k
OBVIOUS

LEMMA LastPageCovers ==
  ASSUME NEW k \in Nat \ {0}, NEW count \in Nat, NEW p \in Nat,
         ~ (p < (count + k - 1) \div k)
  PROVE  count <= p * k
OBVIOUS

\* The ranks on page p.
RanksOf(p) == (p - 1) * perPage .. p * perPage - 1

LEMMA PageRanks ==
  ASSUME perPage \in Nat \ {0}, NEW p \in Nat \ {0}
  PROVE  /\ RanksOf(p) = Offset(p) .. Offset(p) + perPage - 1
         /\ \A n \in Nat : n < p * perPage /\ ~ (n < (p - 1) * perPage) => n \in RanksOf(p)
<1>1. p * perPage = (p - 1) * perPage + perPage
  OBVIOUS
<1>2. (p - 1) * perPage \in Nat
  OBVIOUS
<1> QED
  BY <1>1, <1>2 DEF RanksOf, Offset

-----------------------------------------------------------------------------
(* Type correctness, as far as the pages need it.                          *)

TInv ==
  /\ inOrder \in BOOLEAN
  /\ lastId \in Nat /\ rows \in SUBSET (1..lastId)
  /\ pending \in [Writer -> 0..lastId]
  /\ pc \in {"idle", "count", "query", "done"}
  /\ perPage \in Nat \ {0}
  /\ start \subseteq rows
  /\ total \in Nat
  /\ pages \in Seq(SUBSET Nat)
  /\ pc = "idle" => pages = <<>> /\ start = {}

LEMMA TypeInit == Init => TInv
BY ListingAssumption DEF Init, TInv

LEMMA RowRank ==
  ASSUME TInv
  PROVE  /\ Cardinality(rows) \in Nat
         /\ \A id \in rows : Rank(rows, id) \in Nat /\ Rank(rows, id) < Cardinality(rows)
BY RankFacts DEF TInv

LEMMA SelectFacts ==
  ASSUME TInv, pc = "query", NEW ids \in Select(Offset(Page))
  PROVE  ids = {id \in rows : Rank(rows, id) \in RanksOf(Page)} /\ Page \in Nat \ {0}
<1>1. Page \in Nat \ {0}
  BY DEF TInv, Page
<1>2. RanksOf(Page) = Offset(Page) .. Offset(Page) + perPage - 1
  BY <1>1, PageRanks DEF TInv
<1>3. ids = {id \in rows : Rank(rows, id) \in Offset(Page) .. Offset(Page) + perPage - 1}
  BY DEF Select, Rank
<1> QED
  BY <1>1, <1>2, <1>3

LEMMA TypeStep == TInv /\ [Next]_vars => TInv'
<1> SUFFICES ASSUME TInv, [Next]_vars PROVE TInv'
  OBVIOUS
<1>1. CASE UNCHANGED vars
  BY <1>1 DEF vars, TInv
<1>2. ASSUME NEW w \in Writer, Insert(w) PROVE TInv'
  BY <1>2 DEF Insert, TInv
<1>3. ASSUME NEW w \in Writer, Commit(w) PROVE TInv'
  <2>1. /\ rows' = rows \cup {pending[w]} /\ pending[w] # 0 /\ lastId' = lastId
        /\ pending' = [pending EXCEPT ![w] = 0]
        /\ UNCHANGED <<inOrder, pc, perPage, start, total, pages>>
    BY <1>3 DEF Commit
  <2>2. pending[w] \in 1..lastId /\ pending' \in [Writer -> 0..lastId]
    BY <2>1 DEF TInv
  <2>3. rows' \in SUBSET (1..lastId) /\ start \subseteq rows'
    BY <2>1, <2>2 DEF TInv
  <2> QED
    BY <2>1, <2>2, <2>3 DEF TInv
<1>4. ASSUME NEW w \in Writer, Rollback(w) PROVE TInv'
  BY <1>4 DEF Rollback, TInv
<1>5. CASE Start
  BY <1>5 DEF Start, table, TInv
<1>6. CASE Count
  <2>1. Cardinality(rows) \in Nat
    BY RankFacts DEF TInv
  <2> QED
    BY <1>6, <2>1 DEF Count, table, TInv
<1>7. CASE Query
  <2>1. PICK ids \in Select(Offset(Page)) : pages' = Append(pages, ids)
    BY <1>7 DEF Query
  <2>2. ids \in SUBSET Nat
    <3>1. ids = {id \in rows : Rank(rows, id) \in RanksOf(Page)}
      BY <1>7, SelectFacts DEF Query
    <3>2. rows \in SUBSET Nat
      BY DEF TInv
    <3> QED
      BY <3>1, <3>2
  <2>3. pages' \in Seq(SUBSET Nat)
    BY <2>1, <2>2 DEF TInv
  <2> QED
    BY <1>7, <2>3 DEF Query, table, TInv
<1> QED
  BY <1>1, <1>2, <1>3, <1>4, <1>5, <1>6, <1>7 DEF Next

-----------------------------------------------------------------------------
(* The rest of type correctness: ids are pending once, there are as many   *)
(* as sign-ups, and a page is no longer than asked for.                    *)

Pending ==
  /\ \A w \in Writer : pending[w] \notin rows
  /\ \A v, w \in Writer : pending[v] = pending[w] /\ pending[v] # 0 => v = w

Counting ==
  /\ waiting \subseteq Writer
  /\ lastId + Cardinality(waiting) <= MaxInitial + Cardinality(Writer)

PagesFit ==
  /\ perPage \in PerPage
  /\ total <= Cardinality(rows)
  /\ Len(pages) <= MaxPages
  /\ \A p \in DOMAIN pages : pages[p] \subseteq rows /\ Cardinality(pages[p]) <= perPage

LEMMA TypeParts == TInv /\ Pending /\ Counting /\ PagesFit => TypeOK
<1> SUFFICES ASSUME TInv, Pending, Counting, PagesFit PROVE TypeOK
  OBVIOUS
<1>1. lastId \in 0 .. MaxInitial + Cardinality(Writer)
  <2>1. IsFiniteSet(waiting)
    BY ListingAssumption, FS_Subset DEF Counting
  <2>2. Cardinality(waiting) \in Nat /\ Cardinality(Writer) \in Nat
    BY <2>1, ListingAssumption, FS_CardinalityType
  <2> QED
    BY <2>2, ListingAssumption DEF TInv, Counting
<1>2. total \in 0 .. Cardinality(rows)
  BY RankFacts DEF TInv, PagesFit
<1>3. pending \in [Writer -> {0} \cup (1..lastId \ rows)]
  BY DEF TInv, Pending
<1> QED
  BY <1>1, <1>2, <1>3 DEF TypeOK, TInv, Counting, PagesFit

LEMMA PartsInit == Init => Pending /\ Counting /\ PagesFit
<1> SUFFICES ASSUME Init PROVE Pending /\ Counting /\ PagesFit
  OBVIOUS
<1>1. Pending
  BY ListingAssumption DEF Init, Pending
<1>2. Cardinality(Writer) \in Nat /\ lastId <= MaxInitial /\ lastId \in Nat
  BY ListingAssumption, FS_CardinalityType DEF Init
<1>3. Cardinality(rows) \in Nat
  BY ListingAssumption, RankFacts DEF Init
<1> QED
  BY <1>1, <1>2, <1>3, ListingAssumption DEF Init, Counting, PagesFit

LEMMA PendingStep == TInv /\ Pending /\ [Next]_vars => Pending'
<1> SUFFICES ASSUME TInv, Pending, [Next]_vars PROVE Pending'
  OBVIOUS
<1>1. CASE UNCHANGED <<rows, pending>>
  BY <1>1 DEF Pending
<1>2. ASSUME NEW w \in Writer, Insert(w) PROVE Pending'
  <2>1. pending' = [pending EXCEPT ![w] = lastId + 1] /\ rows' = rows
    BY <1>2 DEF Insert
  <2> QED
    BY <2>1 DEF TInv, Pending
<1>3. ASSUME NEW w \in Writer, Commit(w) PROVE Pending'
  <2>1. /\ pending' = [pending EXCEPT ![w] = 0] /\ rows' = rows \cup {pending[w]}
        /\ pending[w] # 0
    BY <1>3 DEF Commit
  <2>2. 0 \notin rows
    BY DEF TInv
  <2> QED
    BY <2>1, <2>2 DEF TInv, Pending
<1>4. ASSUME NEW w \in Writer, Rollback(w) PROVE Pending'
  <2>1. pending' = [pending EXCEPT ![w] = 0] /\ rows' = rows /\ 0 \notin rows
    BY <1>4 DEF Rollback, TInv
  <2> QED
    BY <2>1 DEF TInv, Pending
<1> QED
  BY <1>1, <1>2, <1>3, <1>4 DEF Next, vars, Start, Count, Query, table

LEMMA CountingStep == TInv /\ Counting /\ [Next]_vars => Counting'
<1> SUFFICES ASSUME TInv, Counting, [Next]_vars PROVE Counting'
  OBVIOUS
<1>1. CASE UNCHANGED <<lastId, waiting>>
  BY <1>1 DEF Counting
<1>2. ASSUME NEW w \in Writer, Insert(w) PROVE Counting'
  <2>1. w \in waiting /\ waiting' = waiting \ {w} /\ lastId' = lastId + 1
    BY <1>2 DEF Insert
  <2>2. IsFiniteSet(waiting)
    BY ListingAssumption, FS_Subset DEF Counting
  <2>3. Cardinality(waiting \ {w}) = Cardinality(waiting) - 1 /\ Cardinality(waiting) \in Nat
    BY <2>1, <2>2, FS_RemoveElement, FS_CardinalityType
  <2>4. Cardinality(Writer) \in Nat
    BY ListingAssumption, FS_CardinalityType
  <2> QED
    BY <2>1, <2>3, <2>4, ListingAssumption DEF Counting, TInv
<1> QED
  BY <1>1, <1>2 DEF Next, vars, Commit, Rollback, Start, Count, Query, table

LEMMA PageSize ==
  ASSUME TInv, NEW p \in Nat \ {0}, NEW ids,
         ids = {id \in rows : Rank(rows, id) \in RanksOf(p)}
  PROVE  Cardinality(ids) <= perPage
<1> DEFINE low == (p - 1) * perPage
<1>1. low \in Nat /\ p * perPage = low + perPage /\ perPage \in Nat
  BY DEF TInv
<1>2. RanksOf(p) = low .. low + perPage - 1
  BY <1>1 DEF RanksOf
<1> HIDE DEF low
<1>3. \A i \in ids : Rank(rows, i) \in low .. low + perPage - 1
  BY <1>2
<1> QED
  BY <1>1, <1>3, RanksAreDistinct DEF TInv

LEMMA PagesFitStep == TInv /\ TInv' /\ PagesFit /\ [Next]_vars => PagesFit'
<1> SUFFICES ASSUME TInv, TInv', PagesFit, [Next]_vars PROVE PagesFit'
  OBVIOUS
<1>1. rows \subseteq rows' /\ Cardinality(rows) <= Cardinality(rows')
  <2>1. rows \subseteq rows'
    BY DEF Next, vars, Insert, Commit, Rollback, Start, Count, Query, table
  <2>2. IsFiniteSet(rows')
    BY RankFacts DEF TInv
  <2> QED
    BY <2>1, <2>2, FS_Subset
<1>2. Cardinality(rows) \in Nat /\ Cardinality(rows') \in Nat
  BY RankFacts DEF TInv
<1>3. CASE UNCHANGED <<perPage, total, pages>>
  BY <1>1, <1>2, <1>3 DEF PagesFit, TInv
<1>4. CASE Count
  BY <1>1, <1>2, <1>4 DEF Count, PagesFit, TInv, table
<1>5. CASE Query
  <2>1. PICK ids \in Select(Offset(Page)) : pages' = Append(pages, ids)
    BY <1>5 DEF Query
  <2>2. /\ ids = {id \in rows : Rank(rows, id) \in RanksOf(Page)} /\ Page \in Nat \ {0}
        /\ Page <= MaxPages /\ UNCHANGED <<rows, perPage, total>>
    BY <1>5, <2>1, SelectFacts DEF Query, table
  <2>3. Cardinality(ids) <= perPage
    BY <2>2, PageSize
  <2>4. Len(pages') = Page
    BY <2>1 DEF TInv, Page
  <2>5. ASSUME NEW q \in DOMAIN pages'
        PROVE  pages'[q] \subseteq rows /\ Cardinality(pages'[q]) <= perPage
    <3>1. \/ q \in DOMAIN pages /\ pages'[q] = pages[q]
          \/ q = Page /\ pages'[q] = ids
      BY <2>1, <2>5 DEF TInv, Page
    <3> QED
      BY <2>2, <2>3, <3>1 DEF PagesFit
  <2> QED
    BY <2>2, <2>4, <2>5 DEF PagesFit
<1> QED
  BY <1>3, <1>4, <1>5 DEF Next, vars, Insert, Commit, Rollback, Start

\* Every variable of Listing keeps its type: no id is used twice or beyond the
\* sign-ups there are, and no page is longer than per_page.
THEOREM TypeCorrect == Spec => []TypeOK
  BY TypeInit, TypeStep, PartsInit, PendingStep, CountingStep, PagesFitStep, TypeParts, PTL DEF Spec

-----------------------------------------------------------------------------
(* With ids committed in order, ranks never change.                        *)

OneWriter ==
  inOrder => \A w \in Writer : pending[w] # 0 =>
    /\ \A id \in rows : id < pending[w]
    /\ \A v \in Writer : pending[v] # 0 => v = w

LEMMA OneWriterStep == TInv /\ OneWriter /\ [Next]_vars => OneWriter'
<1> SUFFICES ASSUME TInv, OneWriter, [Next]_vars PROVE OneWriter'
  OBVIOUS
<1>1. CASE UNCHANGED <<inOrder, rows, pending>>
  BY <1>1 DEF OneWriter
<1>2. ASSUME NEW w \in Writer, Insert(w) PROVE OneWriter'
  BY <1>2 DEF Insert, TInv, OneWriter
<1>3. ASSUME NEW w \in Writer, Commit(w) PROVE OneWriter'
  BY <1>3 DEF Commit, TInv, OneWriter
<1>4. ASSUME NEW w \in Writer, Rollback(w) PROVE OneWriter'
  BY <1>4 DEF Rollback, TInv, OneWriter
<1> QED
  BY <1>1, <1>2, <1>3, <1>4 DEF Next, vars, Start, Count, Query, table

LEMMA RanksStay ==
  ASSUME TInv, OneWriter, inOrder, [Next]_vars, NEW id \in rows
  PROVE  id \in rows' /\ Rank(rows', id) = Rank(rows, id)
<1>1. CASE UNCHANGED rows
  BY <1>1
<1>2. ASSUME NEW w \in Writer, Commit(w)
      PROVE  id \in rows' /\ Rank(rows', id) = Rank(rows, id)
  <2>1. rows' = rows \cup {pending[w]} /\ pending[w] # 0
    BY <1>2 DEF Commit
  <2>2. rows \in SUBSET Nat /\ pending[w] \in Nat /\ \A j \in rows : j < pending[w]
    BY <2>1 DEF TInv, OneWriter
  <2> QED
    BY <2>1, <2>2, RankStays
<1> QED
  BY <1>1, <1>2 DEF Next, vars, Insert, Rollback, Start, Count, Query, table

-----------------------------------------------------------------------------
(* What the pages hold.                                                    *)

PagesByRank ==
  inOrder => \A p \in DOMAIN pages : \A id \in pages[p] :
    id \in rows /\ Rank(rows, id) \in RanksOf(p)

\* Holds in whatever order ids are committed: rows only move to later pages.
SeenBelow ==
  \A id \in start : Rank(rows, id) < Len(pages) * perPage => id \in Seen

WalkByRank ==
  inOrder =>
    /\ pc = "query" => \A id \in start : Rank(rows, id) < total
    /\ pc = "done" => \A id \in start : Rank(rows, id) < Len(pages) * perPage

LEMMA PagesInit == Init => OneWriter /\ PagesByRank /\ SeenBelow /\ WalkByRank
BY DEF Init, OneWriter, PagesByRank, SeenBelow, WalkByRank

LEMMA PagesStep ==
  TInv /\ OneWriter /\ PagesByRank /\ [Next]_vars => PagesByRank'
<1> SUFFICES ASSUME TInv, OneWriter, PagesByRank, [Next]_vars, inOrder',
                    NEW p \in DOMAIN pages', NEW id \in pages'[p]
             PROVE  id \in rows' /\ Rank(rows', id) \in RanksOf(p)'
  BY DEF PagesByRank
<1>1. inOrder /\ RanksOf(p)' = RanksOf(p)
  BY DEF Next, vars, Insert, Commit, Rollback, Start, Count, Query, table, RanksOf
<1>2. CASE p \in DOMAIN pages /\ id \in pages[p]
  BY <1>1, <1>2, RanksStay DEF PagesByRank
<1>3. CASE UNCHANGED pages
  BY <1>2, <1>3
<1>4. CASE Query
  <2>1. PICK ids \in Select(Offset(Page)) : pages' = Append(pages, ids)
    BY <1>4 DEF Query
  <2>2. \/ p \in DOMAIN pages /\ pages'[p] = pages[p]
        \/ p = Page /\ pages'[p] = ids
    BY <2>1 DEF TInv, Page
  <2>3. CASE p = Page /\ pages'[p] = ids
    <3>1. id \in rows /\ Rank(rows, id) \in RanksOf(p)
      BY <1>4, <2>3, SelectFacts DEF Query
    <3> QED
      BY <1>1, <3>1, RanksStay
  <2> QED
    BY <1>2, <2>2, <2>3
<1> QED
  BY <1>3, <1>4 DEF Next, vars, Insert, Commit, Rollback, Start, Count

\* What a Query does to the walk.
LEMMA QueryFacts ==
  ASSUME TInv, Query
  PROVE  /\ Page \in Nat \ {0} /\ Len(pages') = Page /\ Page - 1 = Len(pages)
         /\ UNCHANGED <<rows, perPage, start, total>> /\ pc = "query"
         /\ Seen' = Seen \cup {id \in rows : Rank(rows, id) \in RanksOf(Page)}
         /\ ~ HasMore(Page) => pc' = "done"
         /\ HasMore(Page) => pc' = "count"
         /\ ~ HasMore(Page) => total <= Page * perPage
<1>1. PICK ids \in Select(Offset(Page)) : pages' = Append(pages, ids)
  BY DEF Query
<1>2. /\ pc = "query" /\ pc' = IF HasMore(Page) THEN "count" ELSE "done"
      /\ UNCHANGED <<rows, perPage, start, total>>
  BY DEF Query, table
<1>3. ids = {id \in rows : Rank(rows, id) \in RanksOf(Page)} /\ Page \in Nat \ {0}
  BY <1>1, <1>2, SelectFacts
<1>4. Len(pages') = Page /\ Page - 1 = Len(pages)
  BY <1>1 DEF TInv, Page
<1>5. Seen' = Seen \cup ids
  <2>1. /\ DOMAIN pages' = DOMAIN pages \cup {Page} /\ pages'[Page] = ids
        /\ \A p \in DOMAIN pages : pages'[p] = pages[p]
    BY <1>1 DEF TInv, Page
  <2> QED
    BY <2>1 DEF Seen
<1>6. ~ HasMore(Page) => total <= Page * perPage
  BY <1>3, LastPageCovers DEF HasMore, LastPage, TInv
<1> QED
  BY <1>2, <1>3, <1>4, <1>5, <1>6

LEMMA SeenBelowStep == TInv /\ SeenBelow /\ [Next]_vars => SeenBelow'
<1> SUFFICES ASSUME TInv, SeenBelow, [Next]_vars,
                    NEW id \in start', Rank(rows', id) < Len(pages') * perPage'
             PROVE  id \in Seen'
  BY DEF SeenBelow
<1>1. CASE UNCHANGED <<rows, perPage, start, pages>>
  BY <1>1 DEF SeenBelow, Seen
<1>2. ASSUME NEW w \in Writer, Commit(w) PROVE id \in Seen'
  <2>1. rows' = rows \cup {pending[w]} /\ UNCHANGED <<lastId, perPage, start, pages>>
    BY <1>2 DEF Commit
  <2>2. rows' \in SUBSET (1..lastId) /\ rows \in SUBSET rows' /\ id \in rows
    BY <1>2, <2>1, TypeStep DEF TInv
  <2>3. Rank(rows, id) <= Rank(rows', id)
    BY <2>2, RankNeverFalls DEF TInv
  <2>4. Rank(rows, id) \in Nat /\ Rank(rows', id) \in Nat /\ Len(pages) * perPage \in Nat
    <3>1. Rank(rows', id) \in Nat
      BY <2>2, RankFacts DEF TInv
    <3>2. Rank(rows, id) \in Nat
      BY <2>2, RowRank
    <3>3. Len(pages) * perPage \in Nat
      BY DEF TInv
    <3> QED
      BY <3>1, <3>2, <3>3
  <2>5. Rank(rows, id) < Len(pages) * perPage
    BY <2>1, <2>3, <2>4
  <2> QED
    BY <2>1, <2>5 DEF SeenBelow, Seen
<1>3. CASE Start
  <2>1. pages' = <<>> /\ rows' = rows /\ start' = rows /\ perPage' = perPage
    BY <1>3 DEF Start, table, TInv
  <2>2. Len(pages') * perPage' = 0
    BY <2>1 DEF TInv
  <2>3. Rank(rows, id) \in Nat
    BY <2>1, RowRank
  <2> QED
    BY <2>1, <2>2, <2>3
<1>4. CASE Query
  <2>1. /\ Page \in Nat \ {0} /\ Len(pages') = Page /\ Page - 1 = Len(pages)
        /\ UNCHANGED <<rows, perPage, start>>
        /\ Seen' = Seen \cup {j \in rows : Rank(rows, j) \in RanksOf(Page)}
    BY <1>4, QueryFacts
  <2>2. id \in rows /\ Rank(rows, id) \in Nat
    BY <2>1, RankFacts DEF TInv
  <2>3. CASE Rank(rows, id) < (Page - 1) * perPage
    BY <2>1, <2>3 DEF SeenBelow
  <2>4. CASE ~ (Rank(rows, id) < (Page - 1) * perPage)
    <3>1. Rank(rows, id) \in RanksOf(Page)
      BY <2>1, <2>2, <2>4, PageRanks DEF TInv
    <3> QED
      BY <2>1, <2>2, <3>1
  <2> QED
    BY <2>3, <2>4
<1> QED
  BY <1>1, <1>2, <1>3, <1>4 DEF Next, vars, Insert, Rollback, Count, table

LEMMA WalkStep == TInv /\ OneWriter /\ WalkByRank /\ [Next]_vars => WalkByRank'
<1> SUFFICES ASSUME TInv, OneWriter, WalkByRank, [Next]_vars, inOrder'
             PROVE  /\ pc' = "query" => \A id \in start' : Rank(rows', id) < total'
                    /\ pc' = "done" => \A id \in start' : Rank(rows', id) < Len(pages') * perPage'
  BY DEF WalkByRank
<1>1. inOrder
  BY DEF Next, vars, Insert, Commit, Rollback, Start, Count, Query, table
<1>2. \A id \in rows : id \in rows' /\ Rank(rows', id) = Rank(rows, id)
  BY <1>1, RanksStay
<1>3. CASE UNCHANGED <<pc, perPage, start, total, pages>>
  BY <1>1, <1>2, <1>3 DEF WalkByRank, TInv
<1>4. CASE Start
  BY <1>4 DEF Start
<1>5. CASE Count
  <2>1. \A id \in rows : Rank(rows, id) < Cardinality(rows)
    BY RankFacts DEF TInv
  <2> QED
    BY <1>5, <2>1 DEF Count, table, TInv
<1>6. CASE Query
  <2>1. /\ Page \in Nat \ {0} /\ Len(pages') = Page
        /\ UNCHANGED <<rows, perPage, start, total>> /\ pc = "query" /\ pc' # "query"
        /\ pc' = "done" => total <= Page * perPage
    BY <1>6, QueryFacts
  <2>2. ASSUME NEW id \in start, pc' = "done" PROVE Rank(rows, id) < Page * perPage
    <3>1. Rank(rows, id) \in Nat /\ Rank(rows, id) < total
      BY <1>1, <2>1, RankFacts DEF TInv, WalkByRank
    <3>2. Page * perPage \in Nat /\ total \in Nat
      BY <2>1 DEF TInv
    <3> QED
      BY <2>1, <2>2, <3>1, <3>2
  <2> QED
    BY <2>1, <2>2
<1> QED
  BY <1>3, <1>4, <1>5, <1>6 DEF Next, vars, Insert, Commit, Rollback

\* With ids committed in order, later pages hold later ids: nobody is listed
\* twice, and the answers put together are in the order index() sorts by.
THEOREM PagesInOrder == Spec => []PagesAscend
<1>1. TInv /\ PagesByRank => PagesAscend
  <2> SUFFICES ASSUME TInv, PagesByRank, inOrder,
                      NEW p \in DOMAIN pages, NEW q \in DOMAIN pages, p < q,
                      NEW i \in pages[p], NEW j \in pages[q]
               PROVE  i < j
    BY DEF PagesAscend
  <2>1. /\ i \in rows /\ Rank(rows, i) \in RanksOf(p)
        /\ j \in rows /\ Rank(rows, j) \in RanksOf(q)
    BY DEF PagesByRank
  <2>2. p \in Nat \ {0} /\ q \in Nat \ {0}
    BY DEF TInv
  <2>3. p * perPage <= (q - 1) * perPage /\ p * perPage \in Nat /\ (q - 1) * perPage \in Nat
    BY <2>2, PageEnds DEF TInv
  <2>4. Rank(rows, i) < Rank(rows, j)
    BY <2>1, <2>3 DEF RanksOf
  <2> QED
    BY <2>1, <2>4, RankFacts DEF TInv
<1> QED
  BY TypeInit, TypeStep, PagesInit, OneWriterStep, PagesStep, <1>1, PTL DEF Spec

\* With ids committed in order, a walk that ended has seen every user there was
\* when it started, although the table grew between its pages.
THEOREM WalkComplete == Spec => []WalkSeesAll
<1>1. WalkByRank /\ SeenBelow => WalkSeesAll
  BY DEF WalkByRank, SeenBelow, WalkSeesAll
<1> QED
  BY TypeInit, TypeStep, PagesInit, OneWriterStep, SeenBelowStep, WalkStep, <1>1, PTL DEF Spec

\* In whatever order ids are committed, a walk misses no more of the users there
\* were when it started than rows were committed between its last count and its
\* last page: whoever it missed stands behind that page by now.
THEOREM WalkMissesOnlyPushed == Spec => WalkMissesFew
<1>1. ASSUME TInv, SeenBelow, SeenBelow', PagesFit, [Next]_vars, pc # "done", pc' = "done"
      PROVE  Cardinality(start \ Seen') <= Cardinality(rows) - total
  <2>1. Query
    BY <1>1 DEF Next, vars, Insert, Commit, Rollback, Start, Count, TInv
  <2>2. /\ Page \in Nat \ {0} /\ Len(pages') = Page
        /\ UNCHANGED <<rows, perPage, start, total>>
        /\ total <= Page * perPage
    BY <1>1, <2>1, QueryFacts
  <2> DEFINE M == start \ Seen'
             size == Cardinality(rows) - total
  <2>3. M \in SUBSET rows /\ total \in Nat /\ size \in Nat
    <3>1. Cardinality(rows) \in Nat /\ total \in Nat /\ start \subseteq rows
      BY <1>1, RowRank DEF TInv
    <3> QED
      BY <1>1, <3>1 DEF PagesFit
  <2>4. ASSUME NEW id \in M PROVE Rank(rows, id) \in total .. total + size - 1
    <3>1. id \in rows /\ Rank(rows, id) \in Nat /\ Rank(rows, id) < Cardinality(rows)
      BY <1>1, <2>3, RowRank
    <3>2. ~ (Rank(rows, id) < Page * perPage)
      BY <1>1, <2>2 DEF SeenBelow
    <3>3. Page * perPage \in Nat /\ Cardinality(rows) \in Nat
      BY <1>1, <2>2, RowRank DEF TInv
    <3> QED
      BY <2>2, <2>3, <3>1, <3>2, <3>3
  <2> HIDE DEF M, size
  <2>5. Cardinality(M) <= size
    BY <1>1, <2>3, <2>4, RanksAreDistinct DEF TInv
  <2> QED
    BY <2>5 DEF M, size
<1> QED
  BY TypeInit, TypeStep, PartsInit, PagesFitStep, PagesInit, SeenBelowStep, <1>1, PTL
  DEF Spec, WalkMissesFew

=============================================================================
