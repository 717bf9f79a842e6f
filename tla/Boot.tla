-------------------------------- MODULE Boot --------------------------------
(***************************************************************************)
(* Worker processes that boot against one database.  Each boots its        *)
(* providers by priority; the last of ours, DataProvider, registers the    *)
(* user observer and runs create_all: look which tables there are, then    *)
(* create the others.  Meanwhile somebody may run the migrations, which    *)
(* create tables without looking.                                          *)
(*                                                                         *)
(* What a process created is its own until it commits, if the database     *)
(* has transactions for that (MySQL has not); who creates the same table   *)
(* has to wait.  The server's supervisor starts a worker again that went   *)
(* down.                                                                   *)
(***************************************************************************)
EXTENDS Naturals, FiniteSets, Sequences

CONSTANTS
  Worker,      \* the server's worker processes
  Migrator,    \* the process that runs the migrations
  CreateOrder, \* the tables of the models, in the order create_all takes
  Optional,    \* services the observer does without when they are missing
  AccessLog,   \* whether the access log is switched on
  MaxDeaths,   \* bound: processes killed
  MaxMigrates  \* bound: times the migrations are run

\* The upgrades, in order: the table or the column that each adds.
Migrations ==
  <<"users", "auth_refresh_tokens", "media", "parent_id", "notifications",
    "audit_entries", "activity_entries">>

Elements(seq) == {seq[n] : n \in DOMAIN seq}

ASSUME BootAssumption ==
  /\ Migrator \notin Worker
  /\ CreateOrder \in Seq(Elements(CreateOrder)) /\ "users" \in Elements(CreateOrder)
  /\ "parent_id" \notin Elements(CreateOrder)
  /\ Optional \subseteq {"search", "broadcast"}
  /\ AccessLog \in BOOLEAN
  /\ MaxDeaths \in Nat /\ MaxMigrates \in Nat

VARIABLES
  transactional, \* whether creating a table can be rolled back
  perMigration,  \* whether each migration is committed for itself
  schema,        \* the tables and columns everybody sees
  version,       \* the number of migrations recorded
  open,          \* what each process created and did not commit
  todo,          \* what each process has yet to create, as places in its Order
  pc,            \* where each process is
  left,          \* the providers each worker has yet to boot
  has,           \* what can be resolved from each worker's container
  stack,         \* each worker's middleware, outermost first
  observer,      \* the services of each worker's user observer
  deaths,        \* processes killed so far
  migrates       \* times the migrations were run

app == <<left, has, stack, observer>>
kinds == <<transactional, perMigration>>
bounds == <<deaths, migrates>>
database == <<schema, version, open, todo>>
vars == <<kinds, database, pc, app, bounds>>

Process == Worker \cup {Migrator}

\* What a process would create, in its order.
Order(p) == IF p \in Worker THEN CreateOrder ELSE Migrations

-----------------------------------------------------------------------------
(* Providers. *)

Priority ==
  [database |-> 5, observability |-> 8, infra |-> 10, queue |-> 12,
   auth |-> 15, event |-> 16, data |-> 20]

Provider == DOMAIN Priority

\* What register() binds before any provider boots.
Registered == {"auth manager", "event dispatcher"}

\* What a provider's boot() resolves; without it the worker does not get further.
Needs(p) ==
  CASE p = "auth"  -> {"auth manager"}
    [] p = "event" -> {"event dispatcher", "queue", "mail"}
    [] p = "data"  -> {"engine"}
    [] OTHER       -> {}

\* What can be resolved once it has booted.
Gives(p) ==
  CASE p = "database" -> {"engine", "observer registry"}
    [] p = "infra"    -> {"mail"}
    [] p = "queue"    -> {"queue"}
    [] p = "event"    -> {"scheduler", "notification dispatcher"}
    [] OTHER          -> {}

\* The middleware it adds, first to last.
Adds(p) ==
  CASE p = "observability" ->
         IF AccessLog THEN <<"request id", "locale", "access log">>
                      ELSE <<"request id", "locale">>
    [] p = "auth" -> <<"guard", "container">>
    [] OTHER      -> <<>>

\* Variant with a bug: whatever is added later is further in.
AddMiddlewareInside(old, new) == old \o new

\* Whatever is added later is further out.
AddMiddleware(old, new) == [n \in DOMAIN new |-> new[Len(new) + 1 - n]] \o old

-----------------------------------------------------------------------------
Init ==
  /\ transactional \in BOOLEAN /\ perMigration \in BOOLEAN
  /\ schema = {} /\ version = 0
  /\ open = [p \in Process |-> {}]
  /\ todo = [p \in Process |-> {}]
  /\ pc = [p \in Process |-> "down"]
  /\ left = [w \in Worker |-> {}]
  /\ has = [w \in Worker |-> {}]
  /\ stack = [w \in Worker |-> <<>>]
  /\ observer = [w \in Worker |-> {}]
  /\ deaths = 0 /\ migrates = 0

Goto(p, step) == pc' = [pc EXCEPT ![p] = step]

\* Process p ends, and the database forgets what it did not commit.
GoDown(p) ==
  /\ Goto(p, "down")
  /\ open' = [open EXCEPT ![p] = {}]
  /\ todo' = [todo EXCEPT ![p] = {}]
  /\ UNCHANGED <<kinds, schema, version, app>>

\* Variant with a bug: the application object outlives the failed start.
StartAgain(w) ==
  /\ pc[w] = "down"
  /\ Goto(w, "boot")
  /\ left' = [left EXCEPT ![w] = Provider]
  /\ \E found \in SUBSET Optional : has' = [has EXCEPT ![w] = Registered \cup found]
  /\ UNCHANGED <<kinds, database, stack, observer, bounds>>

\* create_app() and the register phase.  The optional services can be
\* resolved or not.
Start(w) ==
  /\ pc[w] = "down"
  /\ Goto(w, "boot")
  /\ left' = [left EXCEPT ![w] = Provider]
  /\ \E found \in SUBSET Optional : has' = [has EXCEPT ![w] = Registered \cup found]
  /\ stack' = [stack EXCEPT ![w] = <<>>]
  /\ observer' = [observer EXCEPT ![w] = {}]
  /\ UNCHANGED <<kinds, database, bounds>>

NextProvider(w) ==
  CHOOSE p \in left[w] : \A q \in left[w] : Priority[p] <= Priority[q]

BootProvider(w) ==
  LET p == NextProvider(w) IN
  /\ pc[w] = "boot"
  /\ left[w] # {} /\ p # "data" /\ Needs(p) \subseteq has[w]
  /\ left' = [left EXCEPT ![w] = @ \ {p}]
  /\ has' = [has EXCEPT ![w] = @ \cup Gives(p)]
  /\ stack' = [stack EXCEPT ![w] = AddMiddleware(@, Adds(p))]
  /\ UNCHANGED <<kinds, database, pc, observer, bounds>>

\* The observer gets the services that can be resolved, and is registered if
\* there is a registry by now; create_all is next.
BootData(w) ==
  /\ pc[w] = "boot"
  /\ left[w] # {} /\ NextProvider(w) = "data" /\ Needs("data") \subseteq has[w]
  /\ left' = [left EXCEPT ![w] = @ \ {"data"}]
  /\ observer' = [observer EXCEPT ![w] =
                    IF "observer registry" \in has[w]
                    THEN has[w] \cap (Optional \cup {"event dispatcher"}) ELSE {}]
  /\ Goto(w, "look")
  /\ UNCHANGED <<kinds, database, has, stack, bounds>>

\* Variant with a bug: create_all is told not to look.
LookForTablesNot(w) ==
  /\ pc[w] = "look"
  /\ todo' = [todo EXCEPT ![w] = DOMAIN CreateOrder]
  /\ Goto(w, "create")
  /\ UNCHANGED <<kinds, schema, version, open, app, bounds>>

\* Variant with a bug: it also sees tables that others have not committed.
LookForTablesDirty(w) ==
  /\ pc[w] = "look"
  /\ todo' = [todo EXCEPT ![w] =
                {n \in DOMAIN CreateOrder :
                   CreateOrder[n] \notin schema \cup UNION {open[p] : p \in Process}}]
  /\ Goto(w, "create")
  /\ UNCHANGED <<kinds, schema, version, open, app, bounds>>

\* create_all looks for every table before it creates the first.
LookForTables(w) ==
  /\ pc[w] = "look"
  /\ todo' = [todo EXCEPT ![w] = {n \in DOMAIN CreateOrder : CreateOrder[n] \notin schema}]
  /\ Goto(w, "create")
  /\ UNCHANGED <<kinds, schema, version, open, app, bounds>>

-----------------------------------------------------------------------------
(* Creating tables. *)

\* The model's users have parent_id from the start, the first migration's not.
Makes(p, t) == IF p \in Worker /\ t = "users" THEN {"users", "parent_id"} ELSE {t}

Place(p) == CHOOSE n \in todo[p] : \A m \in todo[p] : n <= m

Wanted(p) == IF todo[p] = {} THEN {} ELSE Makes(p, Order(p)[Place(p)])

WaitsFor(p, q) == p # q /\ Wanted(p) \cap open[q] # {}

Blocked(p) == \E q \in Process : WaitsFor(p, q)

Execute(p) ==
  /\ pc[p] = "create" /\ todo[p] # {}
  /\ ~ Blocked(p)
  /\ Wanted(p) \cap schema = {}
  /\ todo' = [todo EXCEPT ![p] = @ \ {Place(p)}]
  /\ IF transactional
     THEN open' = [open EXCEPT ![p] = @ \cup Wanted(p)] /\ UNCHANGED schema
     ELSE schema' = schema \cup Wanted(p) /\ UNCHANGED open
  /\ Goto(p, IF p = Migrator THEN "record" ELSE "create")
  /\ UNCHANGED <<kinds, version, app, bounds>>

\* Variant with a bug: the error is logged and the worker serves.
ConflictLogged(p) ==
  /\ pc[p] = "create" /\ ~ Blocked(p)
  /\ Wanted(p) \cap schema # {}
  /\ Goto(p, IF p = Migrator THEN "down" ELSE "serving")
  /\ open' = [open EXCEPT ![p] = {}]
  /\ todo' = [todo EXCEPT ![p] = {}]
  /\ UNCHANGED <<kinds, schema, version, app, bounds>>

\* The table is there already.
Conflict(p) ==
  /\ pc[p] = "create" /\ ~ Blocked(p)
  /\ Wanted(p) \cap schema # {}
  /\ GoDown(p)
  /\ UNCHANGED bounds

\* The database picks one of two that wait for each other.
Deadlock(p) ==
  /\ pc[p] = "create"
  /\ \E q \in Process : WaitsFor(p, q) /\ WaitsFor(q, p)
  /\ GoDown(p)
  /\ UNCHANGED bounds

Commit(p) ==
  /\ schema' = schema \cup open[p]
  /\ open' = [open EXCEPT ![p] = {}]

\* The worker's boot is over.
Serve(w) ==
  /\ pc[w] = "create" /\ todo[w] = {}
  /\ Commit(w)
  /\ Goto(w, "serving")
  /\ UNCHANGED <<kinds, version, todo, app, bounds>>

\* `make migrate`: the upgrades that are not recorded yet.
Migrate ==
  /\ pc[Migrator] = "down"
  /\ migrates < MaxMigrates /\ version < Len(Migrations)
  /\ migrates' = migrates + 1
  /\ todo' = [todo EXCEPT ![Migrator] = version + 1 .. Len(Migrations)]
  /\ Goto(Migrator, "create")
  /\ UNCHANGED <<kinds, schema, version, open, app, deaths>>

\* An upgrade has run: it is recorded, or all are in the end.
Record ==
  /\ pc[Migrator] = "record"
  /\ IF perMigration \/ todo[Migrator] = {}
     THEN Commit(Migrator) /\ version' = Len(Migrations) - Cardinality(todo[Migrator])
     ELSE UNCHANGED <<schema, open, version>>
  /\ Goto(Migrator, IF todo[Migrator] = {} THEN "down" ELSE "create")
  /\ UNCHANGED <<kinds, todo, app, bounds>>

Die(p) ==
  /\ pc[p] # "down" /\ deaths < MaxDeaths
  /\ deaths' = deaths + 1
  /\ GoDown(p)
  /\ UNCHANGED migrates

-----------------------------------------------------------------------------
WorkerStep(w) ==
  Start(w) \/ BootProvider(w) \/ BootData(w) \/ LookForTables(w) \/ Serve(w)

ProcessStep(p) == Execute(p) \/ Conflict(p) \/ Deadlock(p)

Next ==
  \/ \E w \in Worker : WorkerStep(w)
  \/ \E p \in Process : ProcessStep(p) \/ Die(p)
  \/ Migrate \/ Record

\* Processes go on, the database resolves deadlocks, and the supervisor
\* starts workers again.
Spec ==
  /\ Init /\ [][Next]_vars
  /\ \A w \in Worker : WF_vars(WorkerStep(w))
  /\ \A p \in Process : WF_vars(ProcessStep(p))
  /\ WF_vars(Record)

-----------------------------------------------------------------------------
(* Properties *)

Addition == Elements(Migrations) \cup Elements(CreateOrder)

\* Every variable has its type; a process that is down holds nothing open, no
\* two processes have created the same, and each start begins a stack anew.
TypeOK ==
  /\ transactional \in BOOLEAN /\ perMigration \in BOOLEAN
  /\ schema \subseteq Addition
  /\ version \in 0..Len(Migrations)
  /\ open \in [Process -> SUBSET (Addition \ schema)]
  /\ \A p \in Process :
       /\ todo[p] \subseteq DOMAIN Order(p)
       /\ pc[p] \in {"down", "boot", "look", "serving"} => open[p] = {} /\ todo[p] = {}
       /\ \A q \in Process : p # q => open[p] \cap open[q] = {}
  /\ pc \in [Process -> {"down", "boot", "look", "create", "record", "serving"}]
  /\ left \in [Worker -> SUBSET Provider]
  /\ \A w \in Worker :
       /\ has[w] \subseteq Registered \cup Optional \cup UNION {Gives(p) : p \in Provider}
       /\ Cardinality(Elements(stack[w])) = Len(stack[w])
       /\ observer[w] \subseteq has[w]
  /\ deaths \in 0..MaxDeaths /\ migrates \in 0..MaxMigrates

HasTables == Elements(CreateOrder) \subseteq schema

\* Sign-ups reach the event dispatcher, the handlers' services can be
\* resolved, and the guard runs inside the container, which is further out.
Wired(w) ==
  /\ "event dispatcher" \in observer[w]
  /\ {"scheduler", "notification dispatcher"} \subseteq has[w]
  /\ \E m, n \in DOMAIN stack[w] : m < n /\ stack[w][m] = "container" /\ stack[w][n] = "guard"

\* A worker serves only when its tables are there, although each may have
\* been created by another worker or by the migrations, and when it is wired.
ServingIsReady ==
  \A w \in Worker : pc[w] = "serving" => HasTables /\ Wired(w)

\* Of the workers that boot together, one at most has created tables and not
\* committed them, as all look and create in one order.  So workers never wait
\* for each other in a circle: who waits in one waits for a worker and the
\* migrations, which are two, as Deadlock has it.
OneWorkerCreates ==
  \A v, w \in Worker : open[v] # {} /\ open[w] # {} => v = w

\* Whatever races, conflicts and deadlocks the first boot meets, in the end
\* every worker serves: each conflict means that the tables are there.
AllServe == \A w \in Worker : <>[](pc[w] = "serving")

=============================================================================
