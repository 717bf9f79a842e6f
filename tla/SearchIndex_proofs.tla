------------------------- MODULE SearchIndex_proofs -------------------------
(***************************************************************************)
(* Proofs about SearchIndex: what a search shows, for any requests, texts, *)
(* limit and number of users, and any engine the model allows.             *)
(***************************************************************************)
EXTENDS SearchIndex, FiniteSetTheorems, TLAPS

WriterStep(w) == Create(w) \/ Save(w) \/ IndexUser(w) \/ IndexFails(w) \/ Crash(w)
SearcherStep(s) == Search(s) \/ LookUp(s) \/ Respond(s)

LEMMA IdsAreFinite ==
  ASSUME NEW S \in SUBSET Id
  PROVE  IsFiniteSet(S) /\ Cardinality(S) \in 0..MaxId
<1>1. IsFiniteSet(Id) /\ Cardinality(Id) = MaxId
  BY FS_Interval, SearchAssumption DEF Id
<1> QED
  BY <1>1, FS_Subset, FS_CardinalityType, SearchAssumption

-----------------------------------------------------------------------------
(* Type correctness, with a user for every writer that created or saved    *)
(* one.                                                                    *)

WriterHasUser ==
  \A w \in Writer : pc[w] \in {"index", "answered"} => mine[w] \in DOMAIN rows

TInv == TypeOK /\ WriterHasUser

LEMMA TypeInit == Init => TInv
BY SearchAssumption
   DEF Init, TInv, TypeOK, WriterHasUser, Id, Request, Docs

\* A row of the table, as a document.
LEMMA DocumentType ==
  ASSUME TInv, NEW i \in DOMAIN rows
  PROVE  i \in Id /\ rows[i] \in Raw /\ Canon[rows[i]] = rows[i] /\ Document(i) \in Docs
BY SearchAssumption DEF TInv, TypeOK, Document, Docs, Id

LEMMA TypeStep == TInv /\ [Next]_vars => TInv'
<1> SUFFICES ASSUME TInv, [Next]_vars PROVE TInv'
  OBVIOUS
<1> USE SearchAssumption DEF TInv, TypeOK, WriterHasUser, Request, Goto
<1>1. CASE UNCHANGED vars
  BY <1>1 DEF vars
<1>2. ASSUME NEW w \in Writer, Create(w) PROVE TInv'
  BY <1>2 DEF Create, engine, search
<1>3. ASSUME NEW w \in Writer, Save(w) PROVE TInv'
  BY <1>3 DEF Save, table, engine, search
<1>4. ASSUME NEW w \in Writer, IndexUser(w) PROVE TInv'
  <2>1. mine[w] \in Id /\ rows[mine[w]] \in Raw /\ Document(mine[w]) \in Docs
    BY <1>4, DocumentType DEF IndexUser
  <2>2. index' \in [Id -> Raw \cup {Absent}] /\ tasks' \in Seq(Docs)
    <3>1. Document(mine[w]).text \in Raw
      BY <2>1 DEF Document
    <3>2. CASE waits
      <4>1. index' = [index EXCEPT ![Document(mine[w]).id] = Document(mine[w]).text] /\ UNCHANGED tasks
        BY <1>4, <3>2 DEF IndexUser, Upsert
      <4> QED
        BY <3>1, <4>1
    <3>3. CASE ~ waits
      <4>1. tasks' = Append(tasks, Document(mine[w])) /\ UNCHANGED index
        BY <1>4, <3>3 DEF IndexUser, Upsert
      <4> QED
        BY <2>1, <4>1
    <3> QED
      BY <3>2, <3>3
  <2> QED
    BY <1>4, <2>2 DEF IndexUser, table, search
<1>5. ASSUME NEW w \in Writer, IndexFails(w) \/ Crash(w) PROVE TInv'
  BY <1>5 DEF IndexFails, Crash, table, engine, search
<1>6. CASE Seed
  BY <1>6 DEF Seed, engine, search
<1>7. CASE Apply
  <2>1. Head(tasks) \in Docs /\ Tail(tasks) \in Seq(Docs)
    BY <1>7 DEF Apply
  <2>2. index' \in [Id -> Raw \cup {Absent}]
    BY <1>7, <2>1 DEF Apply, Docs
  <2> QED
    BY <1>7, <2>1, <2>2 DEF Apply, table, search
<1>8. CASE Fresh
  BY <1>8 DEF Fresh, search
<1>9. ASSUME NEW s \in Searcher, Search(s) PROVE TInv'
  <2>1. PICK q \in Raw : \E found \in SUBSET Matches(q) :
          /\ query' = [query EXCEPT ![s] = q]
          /\ todo' = [todo EXCEPT ![s] = found]
          /\ total' = [total EXCEPT ![s] = Cardinality(Matches(q))]
          /\ sure' = [sure EXCEPT ![s] = {i \in Indexed : rows[i] = q}]
    BY <1>9 DEF Search
  <2>2. Matches(q) \subseteq Id /\ Cardinality(Matches(q)) \in 0..MaxId
    BY IdsAreFinite DEF Matches
  <2>3. {i \in Indexed : rows[i] = q} \subseteq Id
    <3>1. \A i \in Indexed : i \in Id
      BY DEF Indexed, Id
    <3> QED
      BY <3>1
  <2> QED
    BY <1>9, <2>1, <2>2, <2>3 DEF Search, table, engine
<1>10. ASSUME NEW s \in Searcher, LookUp(s) PROVE TInv'
  <2>1. PICK i \in todo[s] :
          /\ todo' = [todo EXCEPT ![s] = @ \ {i}]
          /\ hits' = [hits EXCEPT ![s] = @ \cup {Document(j) : j \in {i} \cap DOMAIN rows}]
    BY <1>10 DEF LookUp
  <2>2. {Document(j) : j \in {i} \cap DOMAIN rows} \subseteq Docs
    BY DocumentType
  <2> QED
    BY <1>10, <2>1, <2>2 DEF LookUp, table, engine
<1>11. ASSUME NEW s \in Searcher, Respond(s) PROVE TInv'
  BY <1>11 DEF Respond, table, engine, search
<1> QED
  BY <1>1, <1>2, <1>3, <1>4, <1>5, <1>6, <1>7, <1>8, <1>9, <1>10, <1>11 DEF Next

\* Every variable of SearchIndex keeps its type: the table holds normalised
\* users only, and the engine never counts more documents than there are ids.
THEOREM TypeCorrect == Spec => []TypeOK
<1>1. TInv => TypeOK
  BY DEF TInv
<1> QED
  BY TypeInit, TypeStep, <1>1, PTL DEF Spec

-----------------------------------------------------------------------------
(* Rows stay as they are, except where the table is emptied.               *)

RowsKept == \A i \in DOMAIN rows : i \in DOMAIN rows' /\ rows'[i] = rows[i]

LEMMA OnlyFreshDropsRows == TInv /\ [Next]_vars => RowsKept \/ Fresh
<1> SUFFICES ASSUME TInv, [Next]_vars, ~ Fresh PROVE RowsKept
  OBVIOUS
<1>1. UNCHANGED rows \/ \E t \in Raw : rows' = Append(rows, t)
  <2>1. CASE UNCHANGED vars
    BY <2>1 DEF vars
  <2>2. ASSUME NEW w \in Writer, WriterStep(w)
        PROVE  UNCHANGED rows \/ \E t \in Raw : rows' = Append(rows, t)
    BY <2>2, SearchAssumption
       DEF WriterStep, Create, Save, IndexUser, IndexFails, Crash, table
  <2>3. CASE Seed
    BY <2>3 DEF Seed
  <2>4. CASE Apply
    BY <2>4 DEF Apply, table
  <2>5. ASSUME NEW s \in Searcher, SearcherStep(s) PROVE UNCHANGED rows
    BY <2>5 DEF SearcherStep, Search, LookUp, Respond, table
  <2> QED
    BY <2>1, <2>2, <2>3, <2>4, <2>5 DEF Next, WriterStep, SearcherStep
<1>2. rows \in Seq(Raw)
  BY DEF TInv, TypeOK
<1>3. CASE UNCHANGED rows
  BY <1>3 DEF RowsKept
<1>4. ASSUME NEW t \in Raw, rows' = Append(rows, t) PROVE RowsKept
  BY <1>2, <1>4 DEF RowsKept
<1> QED
  BY <1>1, <1>3, <1>4

-----------------------------------------------------------------------------
(* What search shows are users.                                            *)

HitsAccount ==
  \A s \in Searcher :
    /\ pc[s] = "idle" => hits[s] = {}
    /\ pc[s] \in {"look", "answered"} =>
         \A h \in hits[s] : h.id \in DOMAIN rows /\ h = Document(h.id)

LEMMA HitsInit == Init => HitsAccount
BY DEF Init, HitsAccount, Request

\* What a step that keeps the rows and a search's hits keeps of that search.
LEMMA HitsStep == TInv /\ HitsAccount /\ [Next]_vars => HitsAccount'
<1> SUFFICES ASSUME TInv, HitsAccount, [Next]_vars, NEW s \in Searcher
             PROVE  /\ pc'[s] = "idle" => hits'[s] = {}
                    /\ pc'[s] \in {"look", "answered"} =>
                         \A h \in hits'[s] : h.id \in DOMAIN rows' /\ h = Document(h.id)'
  BY DEF HitsAccount
<1>1. pc \in [Request -> {"idle", "index", "look", "answered", "crashed", "past"}]
      /\ hits \in [Searcher -> SUBSET Docs]
      /\ s \in Request /\ s \notin Writer
  BY SearchAssumption DEF TInv, TypeOK, Request
<1>2. CASE RowsKept /\ hits'[s] = hits[s]
           /\ \/ pc'[s] = pc[s]
              \/ pc[s] = "idle" /\ pc'[s] = "look"
              \/ pc[s] = "look" /\ pc'[s] = "answered"
  <2>1. \A h \in hits[s] : h.id \in DOMAIN rows /\ h = Document(h.id)
                             => h.id \in DOMAIN rows' /\ h = Document(h.id)'
    BY <1>2 DEF RowsKept, Document
  <2> QED
    BY <1>2, <2>1 DEF HitsAccount
<1>3. CASE Fresh
  BY <1>1, <1>3 DEF Fresh, search, HitsAccount
<1>4. ASSUME ~ Fresh PROVE RowsKept
  BY <1>4, OnlyFreshDropsRows
<1>5. ASSUME NEW w \in Writer, WriterStep(w)
      PROVE  hits' = hits /\ pc'[s] = pc[s]
  BY <1>1, <1>5
     DEF WriterStep, Create, Save, IndexUser, IndexFails, Crash, Goto, search
<1>6. ASSUME Seed \/ Apply \/ UNCHANGED vars PROVE hits' = hits /\ pc'[s] = pc[s]
  BY <1>6 DEF Seed, Apply, vars, search
<1>7. ASSUME NEW t \in Searcher, Search(t) \/ Respond(t)
      PROVE  /\ hits' = hits
             /\ \/ pc'[s] = pc[s]
                \/ pc[s] = "idle" /\ pc'[s] = "look"
                \/ pc[s] = "look" /\ pc'[s] = "answered"
  BY <1>1, <1>7 DEF Search, Respond, Goto, search
<1>8. ASSUME NEW t \in Searcher, LookUp(t), t # s
      PROVE  hits'[s] = hits[s] /\ pc'[s] = pc[s]
  BY <1>1, <1>8 DEF LookUp
<1>9. CASE LookUp(s)
  <2>1. PICK i \in todo[s] :
          hits' = [hits EXCEPT ![s] = @ \cup {Document(j) : j \in {i} \cap DOMAIN rows}]
    BY <1>9 DEF LookUp
  <2>2. hits'[s] = hits[s] \cup {Document(j) : j \in {i} \cap DOMAIN rows}
    BY <1>1, <2>1
  <2>3. pc' = pc /\ rows' = rows /\ pc[s] = "look"
    BY <1>9 DEF LookUp, table
  <2>4. \A h \in {Document(j) : j \in {i} \cap DOMAIN rows} :
           h.id \in DOMAIN rows /\ h = Document(h.id)
    BY DEF Document
  <2>5. \A h \in hits'[s] : h.id \in DOMAIN rows /\ h = Document(h.id)
    BY <2>2, <2>3, <2>4 DEF HitsAccount
  <2> QED
    BY <2>3, <2>5 DEF Document
<1> QED
  BY <1>2, <1>3, <1>4, <1>5, <1>6, <1>7, <1>8, <1>9 DEF Next, WriterStep

\* What search shows are users as the table has them, whatever the engine
\* remembers of a table that was emptied: search() looks every hit up.
THEOREM HitsTrue == Spec => []HitsAreUsers
<1>1. HitsAccount => HitsAreUsers
  BY DEF HitsAccount, HitsAreUsers
<1> QED
  BY TypeInit, TypeStep, HitsInit, HitsStep, <1>1, PTL DEF Spec

-----------------------------------------------------------------------------
(* As long as the table was never emptied, the engine repeats what the     *)
(* table says, and a search is about what it asked for.                    *)

IndexFaithful ==
  resets = 0 =>
    /\ \A i \in Id : index[i] # Absent => i \in DOMAIN rows /\ index[i] = rows[i]
    /\ \A n \in DOMAIN tasks :
         tasks[n].id \in DOMAIN rows /\ tasks[n].text = rows[tasks[n].id]

LEMMA FaithfulInit == Init => IndexFaithful
BY DEF Init, IndexFaithful

\* A table that was not emptied has kept its rows.
LEMMA RowsKeptUnlessReset ==
  ASSUME TInv, [Next]_vars, resets' = 0 PROVE RowsKept /\ resets = 0
<1>1. resets = 0 /\ ~ Fresh
  <2>1. ~ Fresh
    BY DEF Fresh
  <2>2. UNCHANGED resets
    BY <2>1 DEF Next, vars, Create, Save, IndexUser, IndexFails, Crash, Seed, Apply,
                Search, LookUp, Respond, table
  <2> QED
    BY <2>1, <2>2
<1> QED
  BY <1>1, OnlyFreshDropsRows

LEMMA FaithfulStep == TInv /\ IndexFaithful /\ [Next]_vars => IndexFaithful'
<1> SUFFICES ASSUME TInv, IndexFaithful, [Next]_vars, resets' = 0
             PROVE  /\ \A i \in Id : index'[i] # Absent =>
                                       i \in DOMAIN rows' /\ index'[i] = rows'[i]
                    /\ \A n \in DOMAIN tasks' : /\ tasks'[n].id \in DOMAIN rows'
                                                /\ tasks'[n].text = rows'[tasks'[n].id]
  BY DEF IndexFaithful
<1>1. RowsKept /\ resets = 0
  BY RowsKeptUnlessReset
<1>2. index \in [Id -> Raw \cup {Absent}] /\ tasks \in Seq(Docs)
  BY DEF TInv, TypeOK
<1>3. CASE UNCHANGED <<index, tasks>>
  BY <1>1, <1>3 DEF IndexFaithful, RowsKept
<1>4. ASSUME NEW w \in Writer, IndexUser(w)
      PROVE  \/ index' = [index EXCEPT ![mine[w]] = rows[mine[w]]] /\ UNCHANGED tasks
             \/ tasks' = Append(tasks, Document(mine[w])) /\ UNCHANGED index
  BY <1>4 DEF IndexUser, Upsert, Document
<1>5. ASSUME NEW w \in Writer, IndexUser(w)
      PROVE  UNCHANGED rows /\ mine[w] \in DOMAIN rows /\ Document(mine[w]) \in Docs
  BY <1>5, DocumentType DEF IndexUser, table, TInv, WriterHasUser
<1>6. ASSUME NEW w \in Writer, IndexUser(w),
             index' = [index EXCEPT ![mine[w]] = rows[mine[w]]], UNCHANGED tasks
      PROVE  UNCHANGED tasks /\ \A i \in Id : index'[i] # Absent =>
                                       i \in DOMAIN rows' /\ index'[i] = rows'[i]
  BY <1>1, <1>2, <1>5, <1>6 DEF IndexFaithful
<1>7. ASSUME NEW w \in Writer, IndexUser(w),
             tasks' = Append(tasks, Document(mine[w])), UNCHANGED index
      PROVE  \A n \in DOMAIN tasks' : /\ tasks'[n].id \in DOMAIN rows'
                                      /\ tasks'[n].text = rows'[tasks'[n].id]
  <2> SUFFICES ASSUME NEW n \in DOMAIN tasks'
               PROVE  tasks'[n].id \in DOMAIN rows /\ tasks'[n].text = rows[tasks'[n].id]
    BY <1>5, <1>7
  <2>1. CASE n \in DOMAIN tasks
    BY <1>1, <1>2, <1>5, <1>7, <2>1 DEF IndexFaithful
  <2>2. CASE n = Len(tasks) + 1
    BY <1>2, <1>5, <1>7, <2>2 DEF Document
  <2> QED
    BY <1>2, <1>5, <1>7, <2>1, <2>2
<1>8. ASSUME Apply
      PROVE  /\ UNCHANGED rows
             /\ \A i \in Id : index'[i] # Absent =>
                                i \in DOMAIN rows /\ index'[i] = rows[i]
             /\ \A n \in DOMAIN tasks' : /\ tasks'[n].id \in DOMAIN rows
                                         /\ tasks'[n].text = rows[tasks'[n].id]
  <2>1. /\ tasks # <<>> /\ tasks' = Tail(tasks) /\ UNCHANGED rows
        /\ index' = [index EXCEPT ![tasks[1].id] = tasks[1].text]
    <3>1. Head(tasks) = tasks[1]
      OBVIOUS
    <3> QED
      BY <1>8, <3>1 DEF Apply, table
  <2>2. 1 \in DOMAIN tasks /\ tasks[1] \in Docs
    BY <1>2, <2>1
  <2>3. \A i \in Id : index'[i] # Absent => i \in DOMAIN rows /\ index'[i] = rows[i]
    BY <1>1, <1>2, <2>1, <2>2 DEF IndexFaithful
  <2>4. \A n \in DOMAIN tasks' : n + 1 \in DOMAIN tasks /\ tasks'[n] = tasks[n + 1]
    BY <1>2, <2>1
  <2> QED
    BY <1>1, <2>1, <2>3, <2>4 DEF IndexFaithful
<1>9. ASSUME ~ Apply, \A w \in Writer : ~ IndexUser(w) PROVE UNCHANGED <<index, tasks>>
  <2>1. ~ Fresh
    BY DEF Fresh
  <2> QED
    BY <1>9, <2>1 DEF Next, vars, Create, Save, IndexFails, Crash, Seed,
                      Search, LookUp, Respond, engine
<1>10. ASSUME NEW w \in Writer, IndexUser(w) PROVE IndexFaithful'
  BY <1>1, <1>4, <1>5, <1>6, <1>7, <1>10 DEF IndexFaithful
<1> QED
  BY <1>3, <1>8, <1>9, <1>10 DEF IndexFaithful

\* Nobody else touches a search.
LEMMA OthersKeepSearch ==
  ASSUME TInv, [Next]_vars, ~ Fresh, NEW s \in Searcher,
         ~ Search(s), ~ LookUp(s), ~ Respond(s)
  PROVE  /\ pc'[s] = pc[s] /\ query'[s] = query[s] /\ todo'[s] = todo[s]
         /\ hits'[s] = hits[s] /\ total'[s] = total[s] /\ sure'[s] = sure[s]
<1>1. /\ pc \in [Request -> {"idle", "index", "look", "answered", "crashed", "past"}]
      /\ query \in [Searcher -> Raw \cup {Absent}] /\ todo \in [Searcher -> SUBSET Id]
      /\ hits \in [Searcher -> SUBSET Docs] /\ total \in [Searcher -> 0..MaxId]
      /\ sure \in [Searcher -> SUBSET Id]
      /\ s \in Request /\ s \notin Writer
  BY SearchAssumption DEF TInv, TypeOK, Request
<1>2. ASSUME NEW w \in Writer, WriterStep(w)
      PROVE  UNCHANGED search /\ pc'[s] = pc[s]
  BY <1>1, <1>2 DEF WriterStep, Create, Save, IndexUser, IndexFails, Crash, Goto
<1>3. ASSUME Seed \/ Apply \/ UNCHANGED vars PROVE UNCHANGED <<search, pc>>
  BY <1>3 DEF Seed, Apply, vars, search
<1>4. ASSUME NEW t \in Searcher, t # s, Search(t)
      PROVE  /\ pc'[s] = pc[s] /\ query'[s] = query[s] /\ todo'[s] = todo[s]
             /\ hits'[s] = hits[s] /\ total'[s] = total[s] /\ sure'[s] = sure[s]
  BY <1>1, <1>4 DEF Search, Goto
<1>5. ASSUME NEW t \in Searcher, t # s, LookUp(t) \/ Respond(t)
      PROVE  /\ pc'[s] = pc[s] /\ query'[s] = query[s] /\ todo'[s] = todo[s]
             /\ hits'[s] = hits[s] /\ total'[s] = total[s] /\ sure'[s] = sure[s]
  BY <1>1, <1>5 DEF LookUp, Respond, Goto, search
<1> QED
  BY <1>2, <1>3, <1>4, <1>5 DEF Next, WriterStep, search

Searching(s) == pc[s] \in {"look", "answered"}

AnsweredInFull == \A s \in Searcher : pc[s] = "answered" => todo[s] = {}

\* How many hits a search will show, if none is dropped.
Shown(s) == IF total[s] < Limit THEN total[s] ELSE Limit

MatchAccount ==
  \A s \in Searcher : resets = 0 /\ Searching(s) =>
    /\ \A i \in todo[s] : i \in DOMAIN rows /\ rows[i] = query[s]
    /\ \A h \in hits[s] : h.text = query[s] /\ h.id \notin todo[s]
    /\ IsFiniteSet(hits[s])
    /\ Cardinality(hits[s]) + Cardinality(todo[s]) = Shown(s)

LEMMA MatchInit == Init => AnsweredInFull /\ MatchAccount
BY DEF Init, AnsweredInFull, MatchAccount, Searching, Request

LEMMA AnsweredStep == TInv /\ AnsweredInFull /\ [Next]_vars => AnsweredInFull'
<1> SUFFICES ASSUME TInv, AnsweredInFull, [Next]_vars,
                    NEW s \in Searcher, pc'[s] = "answered"
             PROVE  todo'[s] = {}
  BY DEF AnsweredInFull
<1>1. pc \in [Request -> {"idle", "index", "look", "answered", "crashed", "past"}]
      /\ s \in Request
  BY DEF TInv, TypeOK, Request
<1>2. CASE Fresh
  BY <1>1, <1>2 DEF Fresh
<1>3. CASE Search(s) \/ LookUp(s)
  BY <1>1, <1>3 DEF Search, LookUp, Goto
<1>4. CASE Respond(s)
  BY <1>1, <1>4 DEF Respond, search
<1> QED
  BY <1>2, <1>3, <1>4, OthersKeepSearch DEF AnsweredInFull

LEMMA MatchStep ==
  TInv /\ HitsAccount /\ IndexFaithful /\ MatchAccount /\ [Next]_vars => MatchAccount'
<1> SUFFICES ASSUME TInv, HitsAccount, IndexFaithful, MatchAccount, [Next]_vars,
                    NEW s \in Searcher, resets' = 0, Searching(s)'
             PROVE  (/\ \A i \in todo[s] : i \in DOMAIN rows /\ rows[i] = query[s]
                     /\ \A h \in hits[s] : h.text = query[s] /\ h.id \notin todo[s]
                     /\ IsFiniteSet(hits[s])
                     /\ Cardinality(hits[s]) + Cardinality(todo[s]) = Shown(s))'
  BY DEF MatchAccount
<1>1. RowsKept /\ resets = 0 /\ ~ Fresh
  BY RowsKeptUnlessReset DEF Fresh
<1>2. /\ pc \in [Request -> {"idle", "index", "look", "answered", "crashed", "past"}]
      /\ query \in [Searcher -> Raw \cup {Absent}] /\ todo \in [Searcher -> SUBSET Id]
      /\ hits \in [Searcher -> SUBSET Docs] /\ total \in [Searcher -> 0..MaxId]
      /\ s \in Request
  BY DEF TInv, TypeOK, Request
<1>3. CASE Search(s)
  <2>1. PICK q \in Raw : \E found \in SUBSET Matches(q) :
          /\ Cardinality(found) = IF Cardinality(Matches(q)) < Limit
                                  THEN Cardinality(Matches(q)) ELSE Limit
          /\ query' = [query EXCEPT ![s] = q]
          /\ todo' = [todo EXCEPT ![s] = found]
          /\ total' = [total EXCEPT ![s] = Cardinality(Matches(q))]
    BY <1>3 DEF Search
  <2>2. \A i \in Matches(q) : i \in DOMAIN rows /\ rows[i] = q
    <3>1. Absent \notin Raw
      BY SearchAssumption
    <3> QED
      BY <1>1, <3>1 DEF Matches, IndexFaithful
  <2>3. UNCHANGED rows /\ hits'[s] = {}
    BY <1>3 DEF Search, table, HitsAccount
  <2>4. Cardinality({}) = 0 /\ IsFiniteSet({})
    BY FS_EmptySet
  <2>5. /\ query'[s] = q /\ total'[s] = Cardinality(Matches(q))
        /\ todo'[s] \subseteq Matches(q) /\ Cardinality(todo'[s]) = Shown(s)'
    BY <1>2, <2>1 DEF Shown
  <2>6. Cardinality(todo'[s]) \in Nat
    <3>1. todo'[s] \subseteq Id
      BY <2>5 DEF Matches
    <3> QED
      BY <3>1, IdsAreFinite, SearchAssumption
  <2> QED
    BY <2>2, <2>3, <2>4, <2>5, <2>6
<1>4. CASE LookUp(s)
  <2>1. PICK i \in todo[s] :
          /\ todo' = [todo EXCEPT ![s] = @ \ {i}]
          /\ hits' = [hits EXCEPT ![s] = @ \cup {Document(j) : j \in {i} \cap DOMAIN rows}]
    BY <1>4 DEF LookUp
  <2>2. UNCHANGED <<rows, query, total, pc>> /\ Searching(s)
    BY <1>4 DEF LookUp, table, Searching
  <2>3. i \in DOMAIN rows /\ rows[i] = query[s]
    BY <1>1, <2>2 DEF MatchAccount
  <2>4. todo'[s] = todo[s] \ {i} /\ hits'[s] = hits[s] \cup {Document(i)}
    BY <1>2, <2>1, <2>3
  <2>5. Document(i) \notin hits[s]
    <3>1. Document(i).id = i
      BY DEF Document
    <3>2. \A h \in hits[s] : h.id \notin todo[s]
      BY <1>1, <2>2 DEF MatchAccount
    <3> QED
      BY <3>1, <3>2
  <2>6. IsFiniteSet(hits'[s]) /\ Cardinality(hits'[s]) = Cardinality(hits[s]) + 1
    <3>1. IsFiniteSet(hits[s])
      BY <1>1, <2>2 DEF MatchAccount
    <3>2. /\ IsFiniteSet(hits[s] \cup {Document(i)})
          /\ Cardinality(hits[s] \cup {Document(i)}) = Cardinality(hits[s]) + 1
      BY <2>5, <3>1, FS_AddElement
    <3> QED
      BY <2>4, <3>2
  <2>7. IsFiniteSet(todo[s]) /\ Cardinality(todo[s]) \in Nat
    BY <1>2, IdsAreFinite, SearchAssumption
  <2>8. Cardinality(todo'[s]) = Cardinality(todo[s]) - 1
    BY <2>4, <2>7, FS_RemoveElement
  <2>9. Cardinality(hits[s]) \in Nat
    BY <1>1, <2>2, FS_CardinalityType DEF MatchAccount
  <2>10. Cardinality(hits'[s]) + Cardinality(todo'[s]) = Shown(s)'
    <3>1. Cardinality(hits[s]) + Cardinality(todo[s]) = Shown(s) /\ Shown(s)' = Shown(s)
      BY <1>1, <2>2 DEF MatchAccount, Shown
    <3> QED
      BY <2>6, <2>7, <2>8, <2>9, <3>1
  <2>11. \A h \in hits'[s] : h.text = query[s] /\ h.id \notin todo'[s]
    BY <1>1, <2>2, <2>3, <2>4 DEF MatchAccount, Document
  <2> QED
    BY <1>1, <2>2, <2>4, <2>6, <2>10, <2>11 DEF MatchAccount
<1>5. CASE ~ Search(s) /\ ~ LookUp(s)
  <2>1. /\ query'[s] = query[s] /\ todo'[s] = todo[s] /\ hits'[s] = hits[s]
        /\ total'[s] = total[s] /\ Searching(s)
    BY <1>1, <1>2, <1>5, OthersKeepSearch DEF Respond, Goto, search, Searching
  <2> QED
    BY <1>1, <2>1 DEF MatchAccount, RowsKept, Shown
<1> QED
  BY <1>3, <1>4, <1>5

\* As long as the table was never emptied, every hit has what was searched
\* for, and search() drops none: total counts what the client is shown, up to
\* the limit.
THEOREM HitsMatch == Spec => []HitsMatchQuery
<1>1. TInv /\ AnsweredInFull /\ MatchAccount => HitsMatchQuery
  <2> SUFFICES ASSUME TInv, AnsweredInFull, MatchAccount,
                      NEW s \in Searcher, resets = 0, pc[s] = "answered"
               PROVE  /\ \A h \in hits[s] : h.text = query[s]
                      /\ Cardinality(hits[s]) = IF total[s] < Limit THEN total[s] ELSE Limit
    BY DEF HitsMatchQuery
  <2>1. Cardinality(todo[s]) = 0
    BY FS_EmptySet DEF AnsweredInFull
  <2>2. /\ \A h \in hits[s] : h.text = query[s]
        /\ IsFiniteSet(hits[s])
        /\ Cardinality(hits[s]) + Cardinality(todo[s]) = Shown(s)
    BY DEF MatchAccount, Searching
  <2> QED
    BY <2>1, <2>2, FS_CardinalityType DEF Shown
<1> QED
  BY TypeInit, TypeStep, HitsInit, HitsStep, FaithfulInit, FaithfulStep,
     MatchInit, AnsweredStep, MatchStep, <1>1, PTL DEF Spec

-----------------------------------------------------------------------------
(* Whoever was answered is found.                                          *)

Dependable == waits /\ keeps

AnsweredIndexed ==
  /\ waits => tasks = <<>>
  /\ Dependable => \A w \in Writer : pc[w] = "answered" => index[mine[w]] = rows[mine[w]]

SureAccount ==
  Dependable => \A s \in Searcher : Searching(s) =>
    /\ pc[s] = "look" => sure[s] \subseteq DOMAIN rows
    /\ total[s] > Limit \/ sure[s] \subseteq todo[s] \cup {h.id : h \in hits[s]}

LEMMA FoundInit == Init => AnsweredIndexed /\ SureAccount
BY DEF Init, AnsweredIndexed, SureAccount, Searching, Request

LEMMA EngineStaysAsItIs == [Next]_vars => UNCHANGED <<waits, keeps>>
BY DEF Next, vars, Create, Save, IndexUser, IndexFails, Crash, Seed, Apply, Fresh,
       Search, LookUp, Respond, engine, Upsert

LEMMA IndexedStep == TInv /\ AnsweredIndexed /\ [Next]_vars => AnsweredIndexed'
<1> SUFFICES ASSUME TInv, AnsweredIndexed, [Next]_vars PROVE AnsweredIndexed'
  OBVIOUS
<1>1. UNCHANGED <<waits, keeps>>
  BY EngineStaysAsItIs
<1>2. /\ pc \in [Request -> {"idle", "index", "look", "answered", "crashed", "past"}]
      /\ index \in [Id -> Raw \cup {Absent}] /\ mine \in [Writer -> 0..MaxId]
      /\ Writer \subseteq Request /\ Writer \cap Searcher = {}
  BY SearchAssumption DEF TInv, TypeOK, Request
<1>3. waits' => tasks' = <<>>
  BY <1>1 DEF AnsweredIndexed, Next, vars, Create, Save, IndexUser, Upsert, IndexFails,
              Crash, Seed, Apply, Fresh, Search, LookUp, Respond, engine
<1> SUFFICES ASSUME Dependable, NEW v \in Writer, pc'[v] = "answered"
             PROVE  index'[mine'[v]] = rows'[mine'[v]]
  BY <1>1, <1>3 DEF AnsweredIndexed, Dependable
<1>4. ~ Fresh
  BY <1>2 DEF Fresh
<1>5. ~ Apply
  BY DEF Apply, AnsweredIndexed, Dependable
<1>6. RowsKept
  BY <1>4, OnlyFreshDropsRows
<1>7. ASSUME pc[v] = "answered"
      PROVE  mine[v] \in DOMAIN rows /\ mine[v] \in Id /\ index[mine[v]] = rows[mine[v]]
  BY <1>7, DocumentType DEF TInv, WriterHasUser, AnsweredIndexed
<1>8. ASSUME NEW w \in Writer, IndexUser(w) PROVE index'[mine'[v]] = rows'[mine'[v]]
  <2>1. index' = [index EXCEPT ![mine[w]] = rows[mine[w]]] /\ UNCHANGED <<rows, mine>>
    BY <1>8 DEF IndexUser, Upsert, Document, Dependable, table
  <2>2. pc[v] = "answered" \/ v = w
    BY <1>2, <1>8 DEF IndexUser, Goto
  <2>3. mine[w] \in Id
    BY <1>8, DocumentType DEF IndexUser, TInv, WriterHasUser
  <2> QED
    BY <1>2, <1>7, <2>1, <2>2, <2>3
<1>9. ASSUME NEW w \in Writer, Create(w) \/ Save(w) \/ IndexFails(w) \/ Crash(w)
      PROVE  UNCHANGED index /\ mine'[v] = mine[v] /\ pc[v] = "answered"
  BY <1>2, <1>9 DEF Create, Save, IndexFails, Crash, Goto, engine, Dependable
<1>10. ASSUME NEW s \in Searcher, SearcherStep(s)
       PROVE  UNCHANGED <<index, mine>> /\ pc[v] = "answered"
  BY <1>2, <1>10 DEF SearcherStep, Search, LookUp, Respond, Goto, engine
<1>11. ASSUME Seed \/ UNCHANGED vars PROVE UNCHANGED <<index, mine, pc>>
  BY <1>11 DEF Seed, vars, engine
<1> QED
  BY <1>4, <1>5, <1>6, <1>7, <1>8, <1>9, <1>10, <1>11 DEF Next, RowsKept, SearcherStep

\* A search that the limit does not cut off is given all that match.
LEMMA AllMatchesFound ==
  ASSUME NEW q \in Raw, NEW found \in SUBSET Matches(q),
         Cardinality(found) = IF Cardinality(Matches(q)) < Limit
                              THEN Cardinality(Matches(q)) ELSE Limit,
         Cardinality(Matches(q)) <= Limit
  PROVE  found = Matches(q)
<1>1. IsFiniteSet(Matches(q)) /\ Cardinality(Matches(q)) \in Nat
  BY IdsAreFinite, SearchAssumption DEF Matches
<1>2. Cardinality(Matches(q)) = Cardinality(found)
  BY <1>1, SearchAssumption
<1> QED
  BY <1>1, <1>2, FS_Subset

LEMMA SureStep ==
  TInv /\ HitsAccount /\ AnsweredIndexed /\ SureAccount /\ [Next]_vars => SureAccount'
<1> SUFFICES ASSUME TInv, HitsAccount, AnsweredIndexed, SureAccount, [Next]_vars,
                    Dependable, NEW s \in Searcher, Searching(s)'
             PROVE  /\ pc'[s] = "look" => sure'[s] \subseteq DOMAIN rows'
                    /\ \/ total'[s] > Limit
                       \/ sure'[s] \subseteq todo'[s] \cup {h.id : h \in hits'[s]}
  BY EngineStaysAsItIs DEF SureAccount, Dependable
<1>1. /\ pc \in [Request -> {"idle", "index", "look", "answered", "crashed", "past"}]
      /\ todo \in [Searcher -> SUBSET Id] /\ hits \in [Searcher -> SUBSET Docs]
      /\ total \in [Searcher -> 0..MaxId] /\ sure \in [Searcher -> SUBSET Id]
      /\ s \in Request
  BY DEF TInv, TypeOK, Request
<1>2. ~ Fresh
  BY <1>1 DEF Fresh, Searching
<1>3. RowsKept
  BY <1>2, OnlyFreshDropsRows
<1>4. CASE Search(s)
  <2> DEFINE Chosen(q, found) ==
          /\ Cardinality(found) = IF Cardinality(Matches(q)) < Limit
                                  THEN Cardinality(Matches(q)) ELSE Limit
          /\ todo' = [todo EXCEPT ![s] = found]
          /\ total' = [total EXCEPT ![s] = Cardinality(Matches(q))]
          /\ sure' = [sure EXCEPT ![s] = {i \in Indexed : rows[i] = q}]
  <2>0. PICK q \in Raw : \E found \in SUBSET Matches(q) : Chosen(q, found)
    BY <1>4 DEF Search
  <2>1. PICK found \in SUBSET Matches(q) : Chosen(q, found)
    BY <2>0
  <2>2. UNCHANGED rows
    BY <1>4 DEF Search, table
  <2>3. \A i \in Indexed : i \in DOMAIN rows /\ i \in Id /\ index[i] = rows[i]
    <3> SUFFICES ASSUME NEW w \in Writer, pc[w] = "answered"
                 PROVE  /\ mine[w] \in DOMAIN rows /\ mine[w] \in Id
                        /\ index[mine[w]] = rows[mine[w]]
      BY DEF Indexed
    <3> QED
      BY DocumentType DEF TInv, WriterHasUser, AnsweredIndexed
  <2>4. sure'[s] \subseteq Matches(q) /\ sure'[s] \subseteq DOMAIN rows
    BY <1>1, <2>1, <2>3 DEF Matches
  <2>5. Cardinality(Matches(q)) \in Nat
    BY IdsAreFinite DEF Matches
  <2>6. CASE Cardinality(Matches(q)) <= Limit
    <3>1. found = Matches(q)
      BY <2>1, <2>6, AllMatchesFound
    <3> QED
      BY <1>1, <2>1, <2>2, <2>4, <3>1
  <2>7. CASE ~ (Cardinality(Matches(q)) <= Limit)
    BY <1>1, <2>1, <2>2, <2>4, <2>5, <2>7, SearchAssumption
  <2> QED
    BY <2>6, <2>7
<1>5. CASE LookUp(s)
  <2>1. PICK i \in todo[s] :
          /\ todo' = [todo EXCEPT ![s] = @ \ {i}]
          /\ hits' = [hits EXCEPT ![s] = @ \cup {Document(j) : j \in {i} \cap DOMAIN rows}]
    BY <1>5 DEF LookUp
  <2>2. UNCHANGED <<rows, total, sure, pc>> /\ pc[s] = "look" /\ Searching(s)
    BY <1>5 DEF LookUp, table, Searching
  <2>3. sure[s] \subseteq DOMAIN rows
    BY <2>2 DEF SureAccount
  <2>4. ASSUME NEW k \in sure[s], k \in todo[s] \cup {h.id : h \in hits[s]}
        PROVE  k \in todo'[s] \cup {h.id : h \in hits'[s]}
    <3>1. CASE k = i
      <4>1. Document(i) \in hits'[s] /\ Document(i).id = i
        BY <1>1, <2>1, <2>3, <3>1 DEF Document
      <4> QED
        BY <3>1, <4>1
    <3>2. CASE k # i
      BY <1>1, <2>1, <2>4, <3>2
    <3> QED
      BY <3>1, <3>2
  <2> QED
    BY <2>2, <2>3, <2>4 DEF SureAccount
<1>6. CASE ~ Search(s) /\ ~ LookUp(s)
  <2>1. /\ todo'[s] = todo[s] /\ hits'[s] = hits[s] /\ total'[s] = total[s]
        /\ sure'[s] = sure[s] /\ Searching(s) /\ (pc'[s] = "look" => pc[s] = "look")
    BY <1>1, <1>2, <1>6, OthersKeepSearch DEF Respond, Goto, search, Searching
  <2> QED
    BY <1>3, <2>1 DEF SureAccount, RowsKept
<1> QED
  BY <1>4, <1>5, <1>6

\* Whoever was answered finds the user he created or saved, with an engine that
\* takes every document and has applied it when upsert_documents returns, unless
\* the limit cuts the answer off.
THEOREM WriterFound == Spec => []WriterFindsUser
<1>1. AnsweredInFull /\ SureAccount => WriterFindsUser
  <2> SUFFICES ASSUME AnsweredInFull, SureAccount, NEW s \in Searcher,
                      pc[s] = "answered", Dependable
               PROVE  sure[s] \subseteq {h.id : h \in hits[s]} \/ total[s] > Limit
    BY DEF WriterFindsUser, Dependable
  <2> QED
    BY DEF AnsweredInFull, SureAccount, Searching
<1> QED
  BY TypeInit, TypeStep, HitsInit, HitsStep, MatchInit, AnsweredStep,
     FoundInit, IndexedStep, SureStep, <1>1, PTL DEF Spec

-----------------------------------------------------------------------------
(* The engine's last word about a user is his row.                         *)

Word(i, t) == [id |-> i, text |-> t]

\* Applying the first task leaves every last word what it was.
LEMMA ApplyKeepsWord ==
  ASSUME TInv, Apply, NEW i \in Id, NEW t, LastWordIs(i, t)
  PROVE  LastWordIs(i, t)'
<1>1. tasks \in Seq(Docs) /\ tasks # <<>> /\ index \in [Id -> Raw \cup {Absent}]
  BY DEF TInv, TypeOK, Apply
<1>2. 1 \in DOMAIN tasks /\ tasks[1].id \in Id
  <2>1. 1 \in DOMAIN tasks /\ tasks[1] \in Docs
    BY <1>1
  <2> QED
    BY <2>1 DEF Docs
<1>3. /\ tasks' = Tail(tasks)
      /\ index' = [index EXCEPT ![tasks[1].id] = tasks[1].text]
  <2>1. Head(tasks) = tasks[1]
    BY <1>1
  <2> QED
    BY <2>1 DEF Apply
<1>4. /\ \A n \in DOMAIN tasks' : n + 1 \in DOMAIN tasks /\ tasks'[n] = tasks[n + 1]
      /\ \A n \in DOMAIN tasks : n # 1 => n - 1 \in DOMAIN tasks'
                                          /\ tasks'[n - 1] = tasks[n]
  BY <1>1, <1>3
<1>5. DOMAIN tasks \subseteq Nat /\ DOMAIN tasks' \subseteq Nat
  BY <1>1, <1>3
<1>6. CASE index[i] = t /\ \A n \in DOMAIN tasks : tasks[n].id # i
  BY <1>1, <1>2, <1>3, <1>4, <1>6 DEF LastWordIs
<1>7. ASSUME NEW n \in DOMAIN tasks, tasks[n] = Word(i, t),
             \A m \in DOMAIN tasks : m > n => tasks[m].id # i
      PROVE  LastWordIs(i, t)'
  <2>1. CASE n = 1
    <3>1. index'[i] = t
      BY <1>1, <1>3, <1>7, <2>1 DEF Word
    <3>2. \A m \in DOMAIN tasks' : tasks'[m].id # i
      BY <1>1, <1>3, <1>4, <1>7, <2>1
    <3> QED
      BY <3>1, <3>2 DEF LastWordIs
  <2>2. CASE n # 1
    <3>1. n - 1 \in DOMAIN tasks' /\ tasks'[n - 1] = Word(i, t)
      BY <1>4, <1>7, <2>2
    <3>2. ASSUME NEW m \in DOMAIN tasks', m > n - 1 PROVE tasks'[m].id # i
      <4>1. m + 1 \in DOMAIN tasks /\ tasks'[m] = tasks[m + 1] /\ m + 1 > n
        BY <1>4, <1>5, <3>2
      <4> QED
        BY <1>7, <4>1
    <3> QED
      BY <3>1, <3>2 DEF LastWordIs, Word
  <2> QED
    BY <2>1, <2>2
<1> QED
  BY <1>6, <1>7 DEF LastWordIs, Word

\* An upsert is the last word about its user, and no word about another.
LEMMA UpsertWord ==
  ASSUME TInv, waits => tasks = <<>>, NEW d \in Docs, Upsert(d)
  PROVE  /\ LastWordIs(d.id, d.text)'
         /\ \A i \in Id \ {d.id}, t \in Raw : LastWordIs(i, t) => LastWordIs(i, t)'
<1>1. tasks \in Seq(Docs) /\ index \in [Id -> Raw \cup {Absent}]
  BY DEF TInv, TypeOK
<1>2. d.id \in Id /\ d = Word(d.id, d.text)
  BY DEF Docs, Word
<1>3. CASE waits
  <2>1. /\ index' = [index EXCEPT ![d.id] = d.text]
        /\ tasks = <<>> /\ tasks' = <<>>
    BY <1>3 DEF Upsert
  <2>2. DOMAIN tasks = {} /\ DOMAIN tasks' = {}
    BY <2>1
  <2> QED
    BY <1>1, <1>2, <2>1, <2>2 DEF LastWordIs
<1>4. CASE ~ waits
  <2>1. tasks' = Append(tasks, d) /\ UNCHANGED index
    BY <1>4 DEF Upsert
  <2>2. /\ Len(tasks) \in Nat
        /\ DOMAIN tasks = 1..Len(tasks) /\ DOMAIN tasks' = 1..(Len(tasks) + 1)
        /\ \A n \in DOMAIN tasks : tasks'[n] = tasks[n]
        /\ tasks'[Len(tasks) + 1] = d
    BY <1>1, <2>1
  <2>3. LastWordIs(d.id, d.text)'
    <3>1. /\ Len(tasks) + 1 \in DOMAIN tasks'
          /\ \A m \in DOMAIN tasks' : ~ (m > Len(tasks) + 1)
      BY <2>2
    <3> QED
      BY <1>2, <2>2, <3>1 DEF LastWordIs, Word
  <2>4. ASSUME NEW i \in Id \ {d.id}, NEW t \in Raw, LastWordIs(i, t)
        PROVE  LastWordIs(i, t)'
    <3>1. \A m \in DOMAIN tasks' : m \notin DOMAIN tasks => tasks'[m].id # i
      BY <2>2
    <3>2. DOMAIN tasks \subseteq DOMAIN tasks'
      BY <2>2
    <3>3. CASE index[i] = t /\ \A n \in DOMAIN tasks : tasks[n].id # i
      BY <2>1, <2>2, <3>1, <3>3 DEF LastWordIs
    <3>4. ASSUME NEW n \in DOMAIN tasks, tasks[n] = Word(i, t),
                 \A m \in DOMAIN tasks : m > n => tasks[m].id # i
          PROVE  LastWordIs(i, t)'
      <4>1. \A m \in DOMAIN tasks' : m > n => tasks'[m].id # i
        BY <2>2, <3>1, <3>4
      <4>2. n \in DOMAIN tasks' /\ tasks'[n] = Word(i, t)
        BY <2>2, <3>2, <3>4
      <4> QED
        BY <4>1, <4>2 DEF LastWordIs, Word
    <3> QED
      BY <2>4, <3>3, <3>4 DEF LastWordIs, Word
  <2> QED
    BY <2>3, <2>4
<1> QED
  BY <1>3, <1>4

LEMMA WordInit == Init => LastWordIsRow
BY DEF Init, LastWordIsRow, Request

LEMMA WordStep == TInv /\ AnsweredIndexed /\ LastWordIsRow /\ [Next]_vars => LastWordIsRow'
<1> SUFFICES ASSUME TInv, AnsweredIndexed, LastWordIsRow, [Next]_vars,
                    NEW v \in Writer, keeps, pc'[v] = "answered"
             PROVE  LastWordIs(mine[v], rows[mine[v]])'
  BY EngineStaysAsItIs DEF LastWordIsRow
<1>1. /\ pc \in [Request -> {"idle", "index", "look", "answered", "crashed", "past"}]
      /\ mine \in [Writer -> 0..MaxId]
      /\ Writer \subseteq Request /\ Writer \cap Searcher = {}
  BY SearchAssumption DEF TInv, TypeOK, Request
<1>2. ~ Fresh
  BY <1>1 DEF Fresh
<1>3. RowsKept
  BY <1>2, OnlyFreshDropsRows
<1>4. ASSUME pc[v] = "answered"
      PROVE  /\ mine[v] \in DOMAIN rows /\ mine[v] \in Id /\ rows[mine[v]] \in Raw
             /\ rows'[mine[v]] = rows[mine[v]]
             /\ LastWordIs(mine[v], rows[mine[v]])
  BY <1>3, <1>4, DocumentType DEF TInv, WriterHasUser, RowsKept, LastWordIsRow
<1>5. CASE mine'[v] = mine[v] /\ pc[v] = "answered" /\ UNCHANGED <<index, tasks>>
  BY <1>4, <1>5 DEF LastWordIs
<1>6. CASE Apply
  <2>1. UNCHANGED <<rows, mine, pc>>
    BY <1>6 DEF Apply, table
  <2> DEFINE i == mine[v]
             t == rows[mine[v]]
  <2>2. i \in Id /\ LastWordIs(i, t) /\ i' = i /\ t' = t
    BY <1>4, <2>1
  <2>3. \A j \in Id, x \in Raw : LastWordIs(j, x) => LastWordIs(j, x)'
    BY <1>6, ApplyKeepsWord
  <2> QED
    BY <1>4, <2>1, <2>3 DEF LastWordIs
<1>7. ASSUME NEW w \in Writer, IndexUser(w) PROVE LastWordIs(mine[v], rows[mine[v]])'
  <2> DEFINE d == Document(mine[w])
  <2>1. Upsert(d) /\ UNCHANGED <<rows, mine>> /\ (pc[v] = "answered" \/ v = w)
    BY <1>1, <1>7 DEF IndexUser, table, Goto
  <2>2. d \in Docs /\ d.id = mine[w] /\ d.text = rows[mine[w]] /\ mine[w] \in Id
    BY <1>7, DocumentType DEF IndexUser, TInv, WriterHasUser, Document
  <2>3. waits => tasks = <<>>
    BY DEF AnsweredIndexed
  <2>4. \A e \in Docs : Upsert(e) =>
          /\ LastWordIs(e.id, e.text)'
          /\ \A i \in Id \ {e.id}, t \in Raw : LastWordIs(i, t) => LastWordIs(i, t)'
    BY <2>3, UpsertWord
  <2>5. CASE mine[v] = mine[w]
    BY <2>1, <2>2, <2>4, <2>5 DEF LastWordIs
  <2>6. CASE mine[v] # mine[w]
    <3>1. pc[v] = "answered"
      BY <2>1, <2>6
    <3> QED
      BY <1>4, <2>1, <2>2, <2>4, <2>6, <3>1 DEF LastWordIs
  <2> QED
    BY <2>5, <2>6
<1>8. ASSUME NEW w \in Writer, Create(w) \/ Save(w) \/ IndexFails(w) \/ Crash(w)
      PROVE  mine'[v] = mine[v] /\ pc[v] = "answered" /\ UNCHANGED <<index, tasks>>
  BY <1>1, <1>8 DEF Create, Save, IndexFails, Crash, Goto, engine
<1>9. ASSUME NEW s \in Searcher, SearcherStep(s)
      PROVE  mine'[v] = mine[v] /\ pc[v] = "answered" /\ UNCHANGED <<index, tasks>>
  BY <1>1, <1>9 DEF SearcherStep, Search, LookUp, Respond, Goto, engine
<1>10. ASSUME Seed \/ UNCHANGED vars
       PROVE  mine'[v] = mine[v] /\ pc[v] = "answered" /\ UNCHANGED <<index, tasks>>
  BY <1>10 DEF Seed, vars, engine
<1> QED
  BY <1>2, <1>5, <1>6, <1>7, <1>8, <1>9, <1>10 DEF Next, SearcherStep

\* The last word of an engine that accepts every document, about the user of an
\* answered writer, is his row, however late it applies what it accepted and
\* whatever it was told of a table that was emptied before.
THEOREM LastWordRight == Spec => []LastWordIsRow
BY TypeInit, TypeStep, FoundInit, IndexedStep, WordInit, WordStep, PTL DEF Spec

=============================================================================
