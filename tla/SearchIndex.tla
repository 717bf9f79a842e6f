---------------------------- MODULE SearchIndex ----------------------------
(***************************************************************************)
(* GET /api/users/search beside the handlers that keep the index: the      *)
(* observer's created and updated hooks upsert the row's document after    *)
(* the row is written, the seeder writes rows without a hook, and search   *)
(* asks the engine for ids and looks every one of them up in the table.    *)
(*                                                                         *)
(* The engine is a service of its own.  It may refuse a document (the      *)
(* observer swallows that), and it may apply documents later, in order.    *)
(* `make fresh` empties the table and hands the ids out anew; the engine   *)
(* is not told.                                                            *)
(***************************************************************************)
EXTENDS Naturals, FiniteSets, Sequences

CONSTANTS
  Writer,   \* requests that create or save a user
  Searcher, \* search requests
  Raw,      \* what clients send: name and address, and what they search for
  Canon,    \* a user's fields as the creating hook leaves them
  Limit,    \* limit of the searches
  MaxId     \* bound: ids handed out

Absent == "no document"

ASSUME SearchAssumption ==
  /\ Writer \cap Searcher = {}
  /\ Absent \notin Raw
  /\ Canon \in [Raw -> Raw]
  /\ \A t \in Raw : Canon[Canon[t]] = Canon[t]
  /\ Limit \in Nat \ {0}
  /\ MaxId \in Nat

VARIABLES
  rows,   \* the users by id: a sequence, as ids are handed out from 1 on
  index,  \* the engine's document for each id
  tasks,  \* documents the engine has accepted and not applied yet
  waits,  \* whether the engine answers an upsert once it is applied
  keeps,  \* whether the engine never refuses a document
  resets, \* how often the table was emptied
  pc,     \* where each request is
  mine,   \* the user each writer works on
  query,  \* what each search looks for
  todo,   \* the ids each search has yet to look up
  hits,   \* the users each search has found
  total,  \* the number of documents the engine found
  sure    \* the users each search can expect to find

vars == <<rows, index, tasks, waits, keeps, resets, pc, mine, query, todo, hits, total, sure>>
table  == <<rows, resets>>
engine == <<index, tasks, waits, keeps>>
search == <<query, todo, hits, total, sure>>

Id == 1..MaxId
Request == Writer \cup Searcher

Init ==
  /\ rows = <<>>
  /\ index = [i \in Id |-> Absent]
  /\ tasks = <<>>
  /\ waits \in BOOLEAN /\ keeps \in BOOLEAN
  /\ resets = 0
  /\ pc = [r \in Request |-> "idle"]
  /\ mine = [w \in Writer |-> 0]
  /\ query = [s \in Searcher |-> Absent]
  /\ todo = [s \in Searcher |-> {}]
  /\ hits = [s \in Searcher |-> {}]
  /\ total = [s \in Searcher |-> 0]
  /\ sure = [s \in Searcher |-> {}]

-----------------------------------------------------------------------------
(* Requests that write. *)

Goto(r, step) == pc' = [pc EXCEPT ![r] = step]

Document(i) == [id |-> i, text |-> rows[i]]

\* Variant with a bug: the row keeps what the client sent.
CreateAsSent(w) ==
  /\ pc[w] = "idle"
  /\ Len(rows) < MaxId
  /\ \E t \in Raw : rows' = Append(rows, t)
  /\ mine' = [mine EXCEPT ![w] = Len(rows')]
  /\ Goto(w, "index")
  /\ UNCHANGED <<resets, engine, search>>

\* The creating hook and the INSERT; created() is next.
Create(w) ==
  /\ pc[w] = "idle"
  /\ Len(rows) < MaxId
  /\ \E t \in Raw : rows' = Append(rows, Canon[t])
  /\ mine' = [mine EXCEPT ![w] = Len(rows')]
  /\ Goto(w, "index")
  /\ UNCHANGED <<resets, engine, search>>

\* A password or a verification is saved.  The updating hook normalises what
\* is normalised already; updated() is next.
Save(w) ==
  /\ pc[w] = "idle"
  /\ \E i \in DOMAIN rows : mine' = [mine EXCEPT ![w] = i]
  /\ Goto(w, "index")
  /\ UNCHANGED <<table, engine, search>>

\* The seeder adds a user to its session; no hook runs.
Seed ==
  /\ Len(rows) < MaxId
  /\ \E t \in Raw : Canon[t] = t /\ rows' = Append(rows, t)
  /\ UNCHANGED <<resets, engine, pc, mine, search>>

Upsert(d) ==
  IF waits
  THEN index' = [index EXCEPT ![d.id] = d.text] /\ UNCHANGED tasks
  ELSE tasks' = Append(tasks, d) /\ UNCHANGED index

\* Variant with a bug: the request does not wait for the engine.
IndexUserUnawaited(w) ==
  /\ pc[w] = "index"
  /\ Goto(w, "answered")
  /\ tasks' = Append(tasks, Document(mine[w]))
  /\ UNCHANGED <<table, index, waits, keeps, mine, search>>

\* Variant with a bug: a document the engine has already is left as it is.
IndexUserOnce(w) ==
  /\ pc[w] = "index"
  /\ Goto(w, "answered")
  /\ IF index[mine[w]] = Absent
     THEN Upsert(Document(mine[w]))
     ELSE UNCHANGED <<index, tasks>>
  /\ UNCHANGED <<table, waits, keeps, mine, search>>

IndexUser(w) ==
  /\ pc[w] = "index"
  /\ Goto(w, "answered")
  /\ Upsert(Document(mine[w]))
  /\ UNCHANGED <<table, waits, keeps, mine, search>>

\* upsert_documents raises; the observer logs it and the request goes on.
IndexFails(w) ==
  /\ pc[w] = "index"
  /\ ~ keeps
  /\ Goto(w, "answered")
  /\ UNCHANGED <<table, engine, mine, search>>

\* The worker dies between the write and the hook.
Crash(w) ==
  /\ pc[w] = "index"
  /\ Goto(w, "crashed")
  /\ UNCHANGED <<table, engine, mine, search>>

Apply ==
  /\ tasks # <<>>
  /\ index' = [index EXCEPT ![Head(tasks).id] = Head(tasks).text]
  /\ tasks' = Tail(tasks)
  /\ UNCHANGED <<table, waits, keeps, pc, mine, search>>

\* `make fresh`, with no request under way.  An engine in memory or in the
\* database loses its documents with the restart, a service keeps them.
Fresh ==
  /\ resets = 0
  /\ \A r \in Request : pc[r] \notin {"index", "look"}
  /\ rows' = <<>>
  /\ resets' = 1
  /\ index' \in {index, [i \in Id |-> Absent]}
  /\ pc' = [r \in Request |-> IF pc[r] = "idle" THEN "idle" ELSE "past"]
  /\ UNCHANGED <<tasks, waits, keeps, mine, search>>

-----------------------------------------------------------------------------
(* Search. *)

Matches(q) == {i \in Id : index[i] = q}

\* The users that answered writers have had indexed.
Indexed == {mine[w] : w \in {v \in Writer : pc[v] = "answered"}}

\* engine.search(): at most limit ids, and how many documents match.
Search(s) ==
  /\ pc[s] = "idle"
  /\ \E q \in Raw : \E found \in SUBSET Matches(q) :
       /\ Cardinality(found) = IF Cardinality(Matches(q)) < Limit
                               THEN Cardinality(Matches(q)) ELSE Limit
       /\ query' = [query EXCEPT ![s] = q]
       /\ todo' = [todo EXCEPT ![s] = found]
       /\ total' = [total EXCEPT ![s] = Cardinality(Matches(q))]
       /\ sure' = [sure EXCEPT ![s] = {i \in Indexed : rows[i] = q}]
  /\ Goto(s, "look")
  /\ UNCHANGED <<table, engine, mine, hits>>

\* Variant with a bug: the hit is made of the document.
LookUpDocument(s) ==
  /\ pc[s] = "look"
  /\ \E i \in todo[s] :
       /\ todo' = [todo EXCEPT ![s] = @ \ {i}]
       /\ hits' = [hits EXCEPT ![s] = @ \cup {[id |-> i, text |-> query[s]]}]
  /\ UNCHANGED <<table, engine, pc, mine, query, total, sure>>

\* One round of the loop: find_or_none(hit.id), and a hit if there is a row.
LookUp(s) ==
  /\ pc[s] = "look"
  /\ \E i \in todo[s] :
       /\ todo' = [todo EXCEPT ![s] = @ \ {i}]
       /\ hits' = [hits EXCEPT ![s] = @ \cup {Document(j) : j \in {i} \cap DOMAIN rows}]
  /\ UNCHANGED <<table, engine, pc, mine, query, total, sure>>

\* Variant with a bug: the answer leaves with the first hit.
RespondEarly(s) ==
  /\ pc[s] = "look"
  /\ todo[s] = {} \/ hits[s] # {}
  /\ Goto(s, "answered")
  /\ UNCHANGED <<table, engine, mine, search>>

Respond(s) ==
  /\ pc[s] = "look"
  /\ todo[s] = {}
  /\ Goto(s, "answered")
  /\ UNCHANGED <<table, engine, mine, search>>

-----------------------------------------------------------------------------
Next ==
  \/ \E w \in Writer :
       Create(w) \/ Save(w) \/ IndexUser(w) \/ IndexFails(w) \/ Crash(w)
  \/ Seed \/ Apply \/ Fresh
  \/ \E s \in Searcher : Search(s) \/ LookUp(s) \/ Respond(s)

Spec == Init /\ [][Next]_vars

\* The engine works its tasks off.
FairSpec == Spec /\ WF_vars(Apply)

-----------------------------------------------------------------------------
(* Properties *)

Docs == [id : Id, text : Raw]

\* Every variable has its type, and the table holds normalised users only.
TypeOK ==
  /\ rows \in Seq({t \in Raw : Canon[t] = t}) /\ Len(rows) <= MaxId
  /\ index \in [Id -> Raw \cup {Absent}]
  /\ tasks \in Seq(Docs)
  /\ waits \in BOOLEAN /\ keeps \in BOOLEAN /\ resets \in {0, 1}
  /\ pc \in [Request -> {"idle", "index", "look", "answered", "crashed", "past"}]
  /\ mine \in [Writer -> 0..MaxId]
  /\ query \in [Searcher -> Raw \cup {Absent}]
  /\ todo \in [Searcher -> SUBSET Id]
  /\ hits \in [Searcher -> SUBSET Docs]
  /\ total \in [Searcher -> 0..MaxId]
  /\ sure \in [Searcher -> SUBSET Id]

\* What search shows are users as the table has them, whatever the engine
\* remembers of a table that was emptied.
HitsAreUsers ==
  \A s \in Searcher : pc[s] \in {"look", "answered"} =>
    \A h \in hits[s] : h.id \in DOMAIN rows /\ h = Document(h.id)

\* As long as the table was never emptied, every hit has what was searched
\* for, and no hit is dropped: total counts what the client is shown, up to
\* the limit.
HitsMatchQuery ==
  \A s \in Searcher : resets = 0 /\ pc[s] = "answered" =>
    /\ \A h \in hits[s] : h.text = query[s]
    /\ Cardinality(hits[s]) = IF total[s] < Limit THEN total[s] ELSE Limit

\* Whoever was answered finds the user he created or saved, if the engine
\* works and applies what it accepts, and the answer is not cut off.  That
\* includes users an earlier crash or the seeder had left out of the index.
WriterFindsUser ==
  \A s \in Searcher : pc[s] = "answered" /\ waits /\ keeps =>
    \/ sure[s] \subseteq {h.id : h \in hits[s]}
    \/ total[s] > Limit

\* What the engine was told last about a user: in a task, or applied already.
LastWordIs(i, t) ==
  \/ \E n \in DOMAIN tasks :
       /\ tasks[n] = [id |-> i, text |-> t]
       /\ \A m \in DOMAIN tasks : m > n => tasks[m].id # i
  \/ /\ index[i] = t
     /\ \A n \in DOMAIN tasks : tasks[n].id # i

\* The last word of an engine that accepts every document, about the user of an
\* answered writer, is his row: neither a task that is still under way nor a
\* document of a table that was emptied before comes after it.
LastWordIsRow ==
  \A w \in Writer :
    keeps /\ pc[w] = "answered" => LastWordIs(mine[w], rows[mine[w]])

\* With an engine that accepts every document, the index catches up with each
\* answered writer, unless the table is emptied first; what the engine holds of
\* a table that was emptied before does not keep it from that.
IndexCatchesUp ==
  \A w \in Writer :
    keeps /\ pc[w] = "answered"
      ~> pc[w] = "past" \/ \E i \in DOMAIN rows : i = mine[w] /\ index[i] = rows[i]

=============================================================================
