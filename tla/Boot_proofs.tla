----------------------------- MODULE Boot_proofs -----------------------------
(***************************************************************************)
(* Proofs about Boot: a worker that serves has its tables and is wired,    *)
(* for any number of workers, tables, deaths and runs of the migrations.   *)
(***************************************************************************)
EXTENDS Boot, FiniteSetTheorems, FunctionTheorems, TLAPS

-----------------------------------------------------------------------------
(* Type correctness, as far as the wiring needs it.                        *)

Middleware == {"request id", "locale", "access log", "guard", "container"}

TInv ==
  /\ DOMAIN open = Process /\ DOMAIN todo = Process
  /\ pc \in [Process -> {"down", "boot", "look", "create", "record", "serving"}]
  /\ left \in [Worker -> SUBSET Provider]
  /\ DOMAIN has = Worker /\ DOMAIN observer = Worker
  /\ stack \in [Worker -> Seq(Middleware)]
  /\ pc[Migrator] \in {"down", "create", "record"}
  /\ \A w \in Worker : pc[w] # "record"

LEMMA WorkersAndMigrator ==
  /\ Worker \subseteq Process /\ Migrator \in Process /\ Migrator \notin Worker
  /\ \A p \in Process : p # Migrator => p \in Worker
BY BootAssumption DEF Process

LEMMA AddsType == \A p \in Provider : Adds(p) \in Seq(Middleware)
<1>1. /\ <<"request id", "locale">> \in Seq(Middleware)
      /\ <<"request id", "locale", "access log">> \in Seq(Middleware)
      /\ <<"guard", "container">> \in Seq(Middleware) /\ << >> \in Seq(Middleware)
  BY DEF Middleware
<1>2. ASSUME NEW p \in Provider PROVE Adds(p) \in Seq(Middleware)
  <2>1. CASE p = "observability"
    BY <1>1, <2>1 DEF Adds
  <2>2. CASE p = "auth"
    BY <1>1, <2>2 DEF Adds
  <2>3. CASE p # "observability" /\ p # "auth"
    BY <1>1, <2>3 DEF Adds
  <2> QED
    BY <2>1, <2>2, <2>3
<1> QED
  BY <1>2

LEMMA StackGrows ==
  ASSUME NEW old \in Seq(Middleware), NEW new \in Seq(Middleware)
  PROVE  /\ AddMiddleware(old, new) \in Seq(Middleware)
         /\ Len(AddMiddleware(old, new)) = Len(new) + Len(old)
         /\ \A n \in DOMAIN new : AddMiddleware(old, new)[n] = new[Len(new) + 1 - n]
         /\ \A n \in DOMAIN old : AddMiddleware(old, new)[Len(new) + n] = old[n]
<1> DEFINE turned == [n \in DOMAIN new |-> new[Len(new) + 1 - n]]
<1>1. turned \in Seq(Middleware) /\ Len(turned) = Len(new)
  OBVIOUS
<1>2. \A n \in DOMAIN new : turned[n] = new[Len(new) + 1 - n]
  OBVIOUS
<1> HIDE DEF turned
<1>3. /\ turned \o old \in Seq(Middleware)
      /\ Len(turned \o old) = Len(new) + Len(old)
      /\ \A n \in DOMAIN new : (turned \o old)[n] = turned[n]
      /\ \A n \in DOMAIN old : (turned \o old)[Len(new) + n] = old[n]
  BY <1>1
<1> QED
  BY <1>2, <1>3 DEF AddMiddleware, turned

LEMMA TypeInit == Init => TInv
<1>1. << >> \in Seq(Middleware)
  OBVIOUS
<1> QED
  BY <1>1, WorkersAndMigrator DEF Init, TInv

\* The first provider left is one of them.
LEMMA FirstLeft ==
  ASSUME NEW L \in SUBSET Provider, L # {}
  PROVE  \E p \in L : \A q \in L : Priority[p] <= Priority[q]
<1>1. Provider = {"database", "observability", "infra", "queue", "auth", "event", "data"}
  BY DEF Provider, Priority
<1>2. /\ Priority["database"] = 5 /\ Priority["observability"] = 8 /\ Priority["infra"] = 10
      /\ Priority["queue"] = 12 /\ Priority["auth"] = 15 /\ Priority["event"] = 16
      /\ Priority["data"] = 20
  BY DEF Priority
<1>3. CASE "database" \in L
  BY <1>1, <1>2, <1>3
<1>4. CASE L \cap {"database"} = {} /\ "observability" \in L
  BY <1>1, <1>2, <1>4
<1>5. CASE L \cap {"database", "observability"} = {} /\ "infra" \in L
  BY <1>1, <1>2, <1>5
<1>6. CASE L \cap {"database", "observability", "infra"} = {} /\ "queue" \in L
  BY <1>1, <1>2, <1>6
<1>7. CASE L \cap {"database", "observability", "infra", "queue"} = {} /\ "auth" \in L
  BY <1>1, <1>2, <1>7
<1>8. CASE L \cap {"database", "observability", "infra", "queue", "auth"} = {} /\ "event" \in L
  BY <1>1, <1>2, <1>8
<1>9. CASE L \cap {"database", "observability", "infra", "queue", "auth", "event"} = {} /\ "data" \in L
  BY <1>1, <1>2, <1>9
<1> QED
  BY <1>1, <1>3, <1>4, <1>5, <1>6, <1>7, <1>8, <1>9

LEMMA NextIsLeft ==
  ASSUME TInv, NEW w \in Worker, left[w] # {}
  PROVE  /\ NextProvider(w) \in left[w] /\ NextProvider(w) \in Provider
         /\ NextProvider(w) = "data" => left[w] = {"data"}
<1>1. left[w] \in SUBSET Provider
  BY DEF TInv
<1>2. NextProvider(w) \in left[w] /\ \A q \in left[w] : Priority[NextProvider(w)] <= Priority[q]
  BY <1>1, FirstLeft DEF NextProvider
<1>3. \A q \in Provider : q # "data" => ~ (Priority["data"] <= Priority[q])
  BY DEF Provider, Priority
<1> QED
  BY <1>1, <1>2, <1>3

LEMMA TypeStep == TInv /\ [Next]_vars => TInv'
<1> SUFFICES ASSUME TInv, [Next]_vars PROVE TInv'
  OBVIOUS
<1> USE WorkersAndMigrator
<1>1. CASE UNCHANGED vars
  BY <1>1 DEF vars, TInv, app, database
<1>2. ASSUME NEW w \in Worker, Start(w) PROVE TInv'
  <2>1. << >> \in Seq(Middleware)
    OBVIOUS
  <2> QED
    BY <1>2, <2>1 DEF Start, Goto, TInv, database
<1>3. ASSUME NEW w \in Worker, BootProvider(w) PROVE TInv'
  <2>1. stack' \in [Worker -> Seq(Middleware)]
    BY <1>3, NextIsLeft, AddsType, StackGrows DEF BootProvider, TInv
  <2> QED
    BY <1>3, <2>1 DEF BootProvider, TInv, database
<1>4. ASSUME NEW w \in Worker, BootData(w) PROVE TInv'
  BY <1>4 DEF BootData, Goto, TInv, database
<1>5. ASSUME NEW w \in Worker, LookForTables(w) \/ Serve(w) PROVE TInv'
  BY <1>5 DEF LookForTables, Serve, Commit, Goto, TInv, app
<1>6. ASSUME NEW p \in Process, Execute(p) PROVE TInv'
  BY <1>6 DEF Execute, Goto, TInv, app
<1>7. ASSUME NEW p \in Process, GoDown(p) PROVE TInv'
  BY <1>7 DEF GoDown, Goto, TInv, app
<1>8. CASE Migrate
  BY <1>8 DEF Migrate, Goto, TInv, app
<1>9. CASE Record
  BY <1>9 DEF Record, Commit, Goto, TInv, app
<1> QED
  BY <1>1, <1>2, <1>3, <1>4, <1>5, <1>6, <1>7, <1>8, <1>9
     DEF Next, WorkerStep, ProcessStep, Conflict, Deadlock, Die

-----------------------------------------------------------------------------
(* The wiring: providers boot in their order, so that the last one finds   *)
(* what the others left.                                                   *)

GuardInside(s) == \E m, n \in DOMAIN s : m < n /\ s[m] = "container" /\ s[n] = "guard"

Booting(w) ==
  /\ "data" \in left[w] /\ Registered \subseteq has[w]
  /\ \A p \in Provider \ left[w] : Gives(p) \subseteq has[w]
  /\ "auth" \notin left[w] => GuardInside(stack[w])

WiringInv ==
  \A w \in Worker :
    /\ pc[w] = "boot" => Booting(w)
    /\ pc[w] \in {"look", "create", "serving"} => Wired(w)

\* Whatever is added later is further out: who was inside stays inside.
LEMMA GuardStaysInside ==
  ASSUME NEW old \in Seq(Middleware), NEW new \in Seq(Middleware), GuardInside(old)
  PROVE  GuardInside(AddMiddleware(old, new))
<1>1. PICK m, n \in DOMAIN old : m < n /\ old[m] = "container" /\ old[n] = "guard"
  BY DEF GuardInside
<1>2. /\ Len(new) + m \in DOMAIN AddMiddleware(old, new)
      /\ Len(new) + n \in DOMAIN AddMiddleware(old, new)
      /\ Len(new) + m < Len(new) + n
  <2>1. DOMAIN AddMiddleware(old, new) = 1 .. Len(new) + Len(old)
    BY StackGrows
  <2>2. m \in 1..Len(old) /\ n \in 1..Len(old) /\ Len(new) \in Nat /\ Len(old) \in Nat
    OBVIOUS
  <2> QED
    BY <1>1, <2>1, <2>2
<1>3. /\ AddMiddleware(old, new)[Len(new) + m] = "container"
      /\ AddMiddleware(old, new)[Len(new) + n] = "guard"
  BY <1>1, StackGrows
<1> QED
  BY <1>2, <1>3 DEF GuardInside

LEMMA TwoAdded ==
  ASSUME NEW old \in Seq(Middleware), NEW new \in Seq(Middleware),
         Len(new) = 2, new[1] = "guard", new[2] = "container"
  PROVE  GuardInside(AddMiddleware(old, new))
<1>1. 1 \in DOMAIN new /\ 2 \in DOMAIN new
  OBVIOUS
<1>2. /\ AddMiddleware(old, new)[1] = new[Len(new) + 1 - 1]
      /\ AddMiddleware(old, new)[2] = new[Len(new) + 1 - 2]
  BY <1>1, StackGrows
<1>3. /\ AddMiddleware(old, new) \in Seq(Middleware)
      /\ Len(AddMiddleware(old, new)) = Len(new) + Len(old)
  BY StackGrows, Zenon
<1>4. 1 \in DOMAIN AddMiddleware(old, new) /\ 2 \in DOMAIN AddMiddleware(old, new)
  BY <1>3
<1> QED
  BY <1>2, <1>4 DEF GuardInside

LEMMA AuthAddsGuardInside ==
  ASSUME NEW old \in Seq(Middleware)
  PROVE  GuardInside(AddMiddleware(old, Adds("auth")))
<1>1. Adds("auth") = <<"guard", "container">>
  BY DEF Adds
<1>2. Adds("auth") \in Seq(Middleware)
  BY AddsType DEF Provider, Priority
<1> QED
  BY <1>1, <1>2, TwoAdded

LEMMA WiringStep == TInv /\ WiringInv /\ [Next]_vars => WiringInv'
<1> SUFFICES ASSUME TInv, WiringInv, [Next]_vars, NEW w \in Worker
             PROVE  /\ pc'[w] = "boot" => Booting(w)'
                    /\ pc'[w] \in {"look", "create", "serving"} => Wired(w)'
  BY DEF WiringInv
<1> USE WorkersAndMigrator
<1>1. CASE UNCHANGED app /\ (pc'[w] = pc[w] \/ pc'[w] = "down" \/
           (pc[w] \in {"look", "create"} /\ pc'[w] \in {"create", "serving"}))
  BY <1>1 DEF WiringInv, app, Booting, Wired, TInv
<1>2. ASSUME NEW v \in Worker, v # w, Start(v) \/ BootProvider(v) \/ BootData(v)
      PROVE  /\ pc'[w] = pc[w] /\ left'[w] = left[w] /\ has'[w] = has[w]
             /\ stack'[w] = stack[w] /\ observer'[w] = observer[w]
  BY <1>2 DEF Start, BootProvider, BootData, Goto, TInv
<1>3. CASE Start(w)
  BY <1>3 DEF Start, Goto, TInv, Booting, Provider, Priority
<1>4. CASE BootProvider(w)
  <2> DEFINE p == NextProvider(w)
  <2>1. p \in Provider /\ p \in left[w] /\ p # "data"
    BY <1>4, NextIsLeft DEF BootProvider
  <2>2. /\ pc'[w] = "boot" /\ pc[w] = "boot"
        /\ left'[w] = left[w] \ {p} /\ has'[w] = has[w] \cup Gives(p)
        /\ stack'[w] = AddMiddleware(stack[w], Adds(p))
    BY <1>4 DEF BootProvider, TInv
  <2>3. stack[w] \in Seq(Middleware) /\ Adds(p) \in Seq(Middleware)
    BY <2>1, AddsType DEF TInv
  <2>4. Booting(w)
    BY <2>2 DEF WiringInv
  <2> HIDE DEF p
  <2>5. "auth" \notin left'[w] => GuardInside(stack'[w])
    BY <2>2, <2>3, <2>4, GuardStaysInside, AuthAddsGuardInside DEF Booting
  <2>6. \A q \in Provider \ left'[w] : Gives(q) \subseteq has'[w]
    BY <2>2, <2>4 DEF Booting
  <2>7. "data" \in left'[w] /\ Registered \subseteq has'[w]
    BY <2>1, <2>2, <2>4 DEF Booting
  <2> QED
    BY <2>2, <2>5, <2>6, <2>7 DEF Booting, GuardInside
<1>5. CASE BootData(w)
  <2>1. left[w] = {"data"} /\ Booting(w)
    BY <1>5, NextIsLeft DEF BootData, WiringInv
  <2>2. "database" \in Provider /\ "event" \in Provider
    BY DEF Provider, Priority
  <2>3. Gives("database") \subseteq has[w] /\ Gives("event") \subseteq has[w]
    BY <2>1, <2>2 DEF Booting
  <2>4. /\ "observer registry" \in has[w]
        /\ {"scheduler", "notification dispatcher"} \subseteq has[w]
    BY <2>3 DEF Gives
  <2>5. /\ pc'[w] = "look" /\ has' = has /\ stack' = stack
        /\ observer'[w] = has[w] \cap (Optional \cup {"event dispatcher"})
    BY <1>5, <2>4 DEF BootData, Goto, TInv
  <2>6. "event dispatcher" \in observer'[w]
    BY <2>1, <2>5 DEF Booting, Registered
  <2>7. GuardInside(stack[w])
    BY <2>1 DEF Booting
  <2> QED
    BY <2>4, <2>5, <2>6, <2>7 DEF Wired, GuardInside
<1>6. CASE UNCHANGED vars
  BY <1>1, <1>6 DEF vars
<1>7. ASSUME NEW v \in Worker, LookForTables(v) \/ Serve(v)
      PROVE  UNCHANGED app /\ (pc'[w] = pc[w] \/
               (pc[w] \in {"look", "create"} /\ pc'[w] \in {"create", "serving"}))
  BY <1>7 DEF LookForTables, Serve, Goto, TInv
<1>8. ASSUME NEW p \in Process, Execute(p) \/ GoDown(p)
      PROVE  UNCHANGED app /\ (pc'[w] = pc[w] \/ pc'[w] = "down" \/
               (pc[w] \in {"look", "create"} /\ pc'[w] \in {"create", "serving"}))
  BY <1>8 DEF Execute, GoDown, Goto, TInv
<1>9. CASE Migrate \/ Record
  BY <1>1, <1>9 DEF Migrate, Record, Goto, TInv
<1>10. ASSUME NEW v \in Worker, v # w, Start(v) \/ BootProvider(v) \/ BootData(v)
       PROVE  /\ pc'[w] = "boot" => Booting(w)'
              /\ pc'[w] \in {"look", "create", "serving"} => Wired(w)'
  <2>1. pc[w] = "boot" => Booting(w)
    BY DEF WiringInv
  <2>2. pc[w] \in {"look", "create", "serving"} => Wired(w)
    BY DEF WiringInv
  <2>3. Booting(w) => Booting(w)'
    BY <1>2, <1>10 DEF Booting, GuardInside
  <2>4. Wired(w) => Wired(w)'
    BY <1>2, <1>10 DEF Wired
  <2> QED
    BY <1>2, <1>10, <2>1, <2>2, <2>3, <2>4
<1> QED
  BY <1>1, <1>3, <1>4, <1>5, <1>6, <1>7, <1>8, <1>9, <1>10
     DEF Next, WorkerStep, ProcessStep, Conflict, Deadlock, Die

-----------------------------------------------------------------------------
(* The tables: nothing is dropped, and what create_all found or created is *)
(* there when it is over.                                                  *)

TablesInv ==
  \A w \in Worker :
    /\ pc[w] = "create" => \A n \in DOMAIN CreateOrder :
                             CreateOrder[n] \in schema \cup open[w] \/ n \in todo[w]
    /\ pc[w] = "serving" => HasTables

LEMMA SchemaGrows == [Next]_vars => schema \subseteq schema'
BY DEF Next, vars, database, WorkerStep, ProcessStep, Start, BootProvider, BootData, LookForTables,
       Serve, Execute, Conflict, Deadlock, GoDown, Commit, Migrate, Record, Die

LEMMA TablesStep == TInv /\ TablesInv /\ [Next]_vars => TablesInv'
<1> SUFFICES ASSUME TInv, TablesInv, [Next]_vars, NEW w \in Worker
             PROVE  /\ pc'[w] = "create" => \A n \in DOMAIN CreateOrder :
                          CreateOrder[n] \in schema' \cup open'[w] \/ n \in todo'[w]
                    /\ pc'[w] = "serving" => HasTables'
  BY DEF TablesInv
<1> USE WorkersAndMigrator
<1>1. CASE pc'[w] = pc[w] /\ open'[w] = open[w] /\ todo'[w] = todo[w]
  BY <1>1, SchemaGrows DEF TablesInv, HasTables
<1>2. CASE pc'[w] \in {"down", "boot", "look"}
  BY <1>2
<1>3. CASE UNCHANGED vars
  BY <1>1, <1>3 DEF vars, database
<1>4. ASSUME NEW v \in Worker, Start(v) \/ BootProvider(v) \/ BootData(v)
      PROVE  \/ pc'[w] = pc[w] /\ open'[w] = open[w] /\ todo'[w] = todo[w]
             \/ pc'[w] \in {"down", "boot", "look"}
  BY <1>4 DEF Start, BootProvider, BootData, Goto, TInv, database
<1>5. ASSUME NEW p \in Process, p # w, LookForTables(p) \/ Serve(p) \/ Execute(p) \/ GoDown(p)
      PROVE  pc'[w] = pc[w] /\ open'[w] = open[w] /\ todo'[w] = todo[w]
  BY <1>5 DEF LookForTables, Serve, Execute, GoDown, Commit, Goto, TInv
<1>6. CASE GoDown(w)
  BY <1>6, <1>2 DEF GoDown, Goto, TInv
<1>7. CASE LookForTables(w)
  <2>1. /\ pc'[w] = "create" /\ schema' = schema
        /\ todo'[w] = {n \in DOMAIN CreateOrder : CreateOrder[n] \notin schema}
    BY <1>7 DEF LookForTables, Goto, TInv
  <2> QED
    BY <2>1
<1>8. CASE Serve(w)
  <2>1. /\ pc[w] = "create" /\ todo[w] = {} /\ pc'[w] = "serving"
        /\ schema' = schema \cup open[w]
    BY <1>8 DEF Serve, Commit, Goto, TInv
  <2>2. \A n \in DOMAIN CreateOrder : CreateOrder[n] \in schema'
    BY <2>1 DEF TablesInv
  <2> QED
    BY <2>1, <2>2 DEF HasTables, Elements
<1>9. CASE Execute(w)
  <2>1. /\ pc[w] = "create" /\ pc'[w] = "create" /\ todo[w] # {}
        /\ todo'[w] = todo[w] \ {Place(w)}
        /\ schema' \cup open'[w] = schema \cup open[w] \cup Wanted(w)
    BY <1>9 DEF Execute, Goto, TInv
  <2>2. CreateOrder[Place(w)] \in Wanted(w)
    BY <2>1 DEF Wanted, Makes, Order
  <2> QED
    BY <2>1, <2>2 DEF TablesInv
<1>10. CASE Migrate \/ Record
  BY <1>1, <1>10 DEF Migrate, Record, Commit, Goto, TInv
<1> QED
  BY <1>1, <1>2, <1>3, <1>4, <1>5, <1>6, <1>7, <1>8, <1>9, <1>10
     DEF Next, WorkerStep, ProcessStep, Conflict, Deadlock, Die

-----------------------------------------------------------------------------
LEMMA ReadyInit == Init => WiringInv /\ TablesInv
BY WorkersAndMigrator DEF Init, WiringInv, TablesInv

\* A worker serves only when its tables are there and it is wired, however
\* many workers and runs of the migrations create the tables at once, in
\* whatever order, and whichever of them fail or are killed.
THEOREM ServesWhenReady == Spec => []ServingIsReady
<1>1. WiringInv /\ TablesInv => ServingIsReady
  BY DEF WiringInv, TablesInv, ServingIsReady
<1> QED
  BY TypeInit, TypeStep, ReadyInit, WiringStep, TablesStep, <1>1, PTL DEF Spec

-----------------------------------------------------------------------------
(* The rest of type correctness: the database.                             *)

\* Counting the members below each member of a set numbers them from 0.
LEMMA LeastOf ==
  ASSUME NEW T \in SUBSET Nat, IsFiniteSet(T), T # {}
  PROVE  \E n \in T : \A m \in T : n <= m
<1> DEFINE Below(n) == {m \in T : m < n}
           count == [n \in T |-> Cardinality(Below(n))]
           size == Cardinality(T)
<1>1. size \in Nat \ {0}
  BY FS_CardinalityType, FS_EmptySet
<1>2. ASSUME NEW n \in T
      PROVE  IsFiniteSet(Below(n)) /\ Cardinality(Below(n)) \in 0 .. size - 1
  <2>1. Below(n) \in SUBSET T /\ n \notin Below(n)
    OBVIOUS
  <2>2. Cardinality(Below(n)) <= size /\ Cardinality(Below(n)) # size
    BY <2>1, FS_Subset
  <2>3. IsFiniteSet(Below(n)) /\ Cardinality(Below(n)) \in Nat
    BY <2>1, FS_Subset, FS_CardinalityType
  <2> QED
    BY <1>1, <2>2, <2>3
<1>3. ASSUME NEW m \in T, NEW n \in T, m < n
      PROVE  Cardinality(Below(m)) # Cardinality(Below(n))
  <2>1. \A k \in T : k < m => k < n
    BY <1>3
  <2>2. Below(m) \in SUBSET Below(n)
    BY <2>1
  <2>3. m \in Below(n) /\ m \notin Below(m)
    BY <1>3
  <2> QED
    BY <1>2, <2>2, <2>3, FS_Subset
<1>4. count \in Injection(T, 0 .. size - 1)
  <2>1. count \in [T -> 0 .. size - 1]
    BY <1>2
  <2>2. \A m, n \in T : count[m] = count[n] => m = n
    <3>1. \A m, n \in T : m # n => m < n \/ n < m
      OBVIOUS
    <3> QED
      BY <1>3, <3>1
  <2> QED
    BY <2>1, <2>2, Fun_IsInj
<1>5. IsFiniteSet(0 .. size - 1) /\ Cardinality(0 .. size - 1) = size
  <2>1. /\ IsFiniteSet(0 .. size - 1)
        /\ Cardinality(0 .. size - 1) = IF 0 > size - 1 THEN 0 ELSE (size - 1) - 0 + 1
    BY <1>1, FS_Interval
  <2> QED
    BY <1>1, <2>1
<1>6. count \in Surjection(T, 0 .. size - 1)
  BY <1>4, <1>5, FS_Injection
<1>7. PICK n \in T : count[n] = 0
  <2>1. 0 \in 0 .. size - 1
    BY <1>1
  <2> QED
    BY <1>6, <2>1 DEF Surjection
<1>8. Below(n) = {}
  BY <1>2, <1>7, FS_EmptySet
<1> QED
  BY <1>8

LEMMA OneTo ==
  ASSUME NEW n \in Nat
  PROVE  IsFiniteSet(1..n) /\ Cardinality(1..n) = n
<1>1. IsFiniteSet(1..n) /\ Cardinality(1..n) = IF 1 > n THEN 0 ELSE n - 1 + 1
  BY FS_Interval
<1> QED
  BY <1>1

Quiet == {"down", "boot", "look", "serving"}

DInv ==
  /\ transactional \in BOOLEAN /\ perMigration \in BOOLEAN
  /\ schema \subseteq Addition
  /\ version \in 0..Len(Migrations)
  /\ open \in [Process -> SUBSET (Addition \ schema)]
  /\ \A p \in Process :
       /\ todo[p] \subseteq DOMAIN Order(p)
       /\ pc[p] \in Quiet => open[p] = {} /\ todo[p] = {}
       /\ ~ transactional => open[p] = {}
       /\ \A q \in Process : p # q => open[p] \cap open[q] = {}

LEMMA DInit == Init => DInv
<1>1. 0 \in 0..Len(Migrations)
  BY DEF Migrations
<1> QED
  BY <1>1 DEF Init, DInv, Quiet

LEMMA OrderDomain ==
  ASSUME NEW p \in Process
  PROVE  /\ DOMAIN Order(p) \subseteq Nat /\ IsFiniteSet(DOMAIN Order(p))
         /\ \A n \in DOMAIN Order(p) : Makes(p, Order(p)[n]) \subseteq Addition
<1>1. DOMAIN Migrations = 1..7 /\ {"users", "parent_id"} \subseteq Elements(Migrations)
  <2>1. Migrations[1] = "users" /\ Migrations[4] = "parent_id" /\ DOMAIN Migrations = 1..7
    BY DEF Migrations
  <2> QED
    BY <2>1 DEF Elements
<1>2. DOMAIN CreateOrder = 1..Len(CreateOrder) /\ Len(CreateOrder) \in Nat
  BY BootAssumption
<1>3. DOMAIN Order(p) \subseteq Nat /\ IsFiniteSet(DOMAIN Order(p))
  <2>1. PICK n \in Nat : DOMAIN Order(p) = 1..n
    BY <1>1, <1>2 DEF Order
  <2> QED
    BY <2>1, OneTo
<1>4. \A n \in DOMAIN Order(p) : Order(p)[n] \in Addition
  BY DEF Order, Addition, Elements
<1> QED
  BY <1>1, <1>3, <1>4 DEF Makes, Addition

LEMMA WantedType ==
  ASSUME DInv, NEW p \in Process
  PROVE  Wanted(p) \subseteq Addition
<1>1. CASE todo[p] = {}
  BY <1>1 DEF Wanted
<1>2. CASE todo[p] # {}
  <2>1. todo[p] \subseteq Nat /\ todo[p] \subseteq DOMAIN Order(p)
    BY OrderDomain DEF DInv
  <2>2. Place(p) \in todo[p]
    BY <1>2, <2>1, OrderDomain, FS_Subset, LeastOf DEF Place
  <2> QED
    BY <1>2, <2>1, <2>2, OrderDomain DEF Wanted
<1> QED
  BY <1>1, <1>2

\* What p has committed leaves the others' tables alone.
LEMMA CommitKeeps ==
  ASSUME DInv, NEW p \in Process, Commit(p)
  PROVE  /\ schema' \subseteq Addition
         /\ open' \in [Process -> SUBSET (Addition \ schema')]
         /\ \A q \in Process : open'[q] \subseteq open[q]
<1>1. open' = [open EXCEPT ![p] = {}] /\ schema' = schema \cup open[p]
  BY DEF Commit
<1>2. ASSUME NEW q \in Process
      PROVE  open'[q] \in SUBSET (Addition \ schema') /\ open'[q] \subseteq open[q]
  BY <1>1 DEF DInv
<1>3. open' \in [Process -> SUBSET (Addition \ schema')]
  BY <1>1, <1>2 DEF DInv
<1> QED
  BY <1>1, <1>2, <1>3 DEF DInv

LEMMA DStep == TInv /\ DInv /\ [Next]_vars => DInv'
<1> SUFFICES ASSUME TInv, DInv, [Next]_vars PROVE DInv'
  OBVIOUS
<1> USE WorkersAndMigrator
<1>1. CASE UNCHANGED <<transactional, perMigration, schema, version, open, todo, pc>>
  BY <1>1 DEF DInv
<1>2. ASSUME NEW w \in Worker, Start(w) \/ BootProvider(w) \/ BootData(w) PROVE DInv'
  <2>1. UNCHANGED <<transactional, perMigration, schema, version, open, todo>>
    BY <1>2 DEF Start, BootProvider, BootData, database, kinds
  <2>2. \A p \in Process : pc'[p] \in Quiet => pc[p] \in Quiet
    BY <1>2 DEF Start, BootProvider, BootData, Goto, Quiet, TInv
  <2> QED
    BY <2>1, <2>2 DEF DInv
<1>3. ASSUME NEW w \in Worker, LookForTables(w) PROVE DInv'
  <2>1. /\ UNCHANGED <<transactional, perMigration, schema, version, open>>
        /\ todo' = [todo EXCEPT ![w] = {n \in DOMAIN CreateOrder : CreateOrder[n] \notin schema}]
        /\ pc' = [pc EXCEPT ![w] = "create"]
    BY <1>3 DEF LookForTables, Goto, kinds
  <2>2. Order(w) = CreateOrder
    BY DEF Order
  <2>3. \A p \in Process : todo'[p] \subseteq DOMAIN Order(p)
    BY <2>1, <2>2 DEF DInv, TInv
  <2>4. \A p \in Process : pc'[p] \in Quiet => open'[p] = {} /\ todo'[p] = {}
    BY <2>1 DEF DInv, TInv, Quiet
  <2> QED
    BY <2>1, <2>3, <2>4 DEF DInv
<1>4. ASSUME NEW w \in Worker, Serve(w) PROVE DInv'
  <2>1. /\ Commit(w) /\ todo[w] = {} /\ pc' = [pc EXCEPT ![w] = "serving"]
        /\ UNCHANGED <<transactional, perMigration, version, todo>> /\ open'[w] = {}
    BY <1>4 DEF Serve, Commit, Goto, kinds, TInv
  <2>2. \A p \in Process : pc'[p] \in Quiet => open'[p] = {} /\ todo'[p] = {}
    BY <2>1, CommitKeeps DEF DInv, TInv
  <2> QED
    BY <2>1, <2>2, CommitKeeps DEF DInv
<1>5. ASSUME NEW p \in Process, Execute(p) PROVE DInv'
  <2>1. /\ \A q \in Process : p # q => Wanted(p) \cap open[q] = {}
        /\ Wanted(p) \cap schema = {} /\ Wanted(p) \subseteq Addition
        /\ todo' = [todo EXCEPT ![p] = @ \ {Place(p)}]
        /\ pc' = [pc EXCEPT ![p] = IF p = Migrator THEN "record" ELSE "create"]
        /\ UNCHANGED <<transactional, perMigration, version>>
    BY <1>5, WantedType DEF Execute, Blocked, WaitsFor, Goto, kinds
  <2>2. \A q \in Process : /\ todo'[q] \subseteq DOMAIN Order(q)
                          /\ pc'[q] \in Quiet => q # p /\ todo'[q] = {} /\ open[q] = {}
    BY <2>1 DEF DInv, TInv, Quiet
  <2>3. CASE transactional
    <3>1. open' = [open EXCEPT ![p] = @ \cup Wanted(p)] /\ schema' = schema
      BY <1>5, <2>3 DEF Execute
    <3>2. \A q \in Process : open'[q] \in SUBSET (Addition \ schema')
      BY <2>1, <3>1 DEF DInv
    <3>3. \A q, r \in Process : q # r => open'[q] \cap open'[r] = {}
      BY <2>1, <3>1 DEF DInv
    <3>4. \A q \in Process : q # p => open'[q] = open[q]
      BY <3>1 DEF DInv
    <3>5. open' \in [Process -> SUBSET (Addition \ schema')]
      BY <3>1, <3>2 DEF DInv
    <3> QED
      BY <2>1, <2>2, <2>3, <3>1, <3>3, <3>4, <3>5 DEF DInv
  <2>4. CASE ~ transactional
    <3>1. open' = open /\ schema' = schema \cup Wanted(p)
      BY <1>5, <2>4 DEF Execute
    <3>2. \A q \in Process : open[q] = {}
      BY <2>4 DEF DInv
    <3>3. open' \in [Process -> SUBSET (Addition \ schema')]
      BY <3>1, <3>2 DEF DInv
    <3> QED
      BY <2>1, <2>2, <2>4, <3>1, <3>2, <3>3 DEF DInv
  <2> QED
    BY <2>3, <2>4
<1>6. ASSUME NEW p \in Process, GoDown(p) PROVE DInv'
  <2>1. /\ open' = [open EXCEPT ![p] = {}] /\ todo' = [todo EXCEPT ![p] = {}]
        /\ pc' = [pc EXCEPT ![p] = "down"] /\ UNCHANGED <<transactional, perMigration, schema, version>>
    BY <1>6 DEF GoDown, Goto, kinds
  <2>2. \A q \in Process : open'[q] \in SUBSET (Addition \ schema) /\ open'[q] \subseteq open[q]
    BY <2>1 DEF DInv
  <2>3. open' \in [Process -> SUBSET (Addition \ schema')]
    BY <2>1, <2>2 DEF DInv
  <2>4. \A q \in Process : /\ todo'[q] \subseteq todo[q]
                          /\ pc'[q] \in Quiet => open'[q] = {} /\ todo'[q] = {}
    BY <2>1 DEF DInv, TInv
  <2> QED
    BY <2>1, <2>2, <2>3, <2>4 DEF DInv
<1>7. CASE Migrate
  <2>1. /\ UNCHANGED <<transactional, perMigration, schema, version, open>>
        /\ todo' = [todo EXCEPT ![Migrator] = version + 1 .. Len(Migrations)]
        /\ pc' = [pc EXCEPT ![Migrator] = "create"]
    BY <1>7 DEF Migrate, Goto, kinds
  <2>2. Order(Migrator) = Migrations /\ DOMAIN Migrations = 1..Len(Migrations)
    BY DEF Order, Migrations
  <2>3. \A p \in Process : todo'[p] \subseteq DOMAIN Order(p)
    BY <2>1, <2>2 DEF DInv, TInv
  <2>4. \A p \in Process : pc'[p] \in Quiet => open'[p] = {} /\ todo'[p] = {}
    BY <2>1 DEF DInv, TInv, Quiet
  <2> QED
    BY <2>1, <2>3, <2>4 DEF DInv
<1>8. CASE Record
  <2>1. /\ pc' = [pc EXCEPT ![Migrator] = IF todo[Migrator] = {} THEN "down" ELSE "create"]
        /\ UNCHANGED <<transactional, perMigration, todo>> /\ pc[Migrator] = "record"
    BY <1>8 DEF Record, Goto, kinds
  <2>2. CASE perMigration \/ todo[Migrator] = {}
    <3>1. Commit(Migrator) /\ version' = Len(Migrations) - Cardinality(todo[Migrator])
      BY <1>8, <2>2 DEF Record
    <3>2. version' \in 0..Len(Migrations)
      <4>1. todo[Migrator] \subseteq 1..7 /\ Len(Migrations) = 7
        BY DEF DInv, Order, Migrations
      <4>2. IsFiniteSet(1..7) /\ Cardinality(1..7) = 7
        BY OneTo
      <4>3. Cardinality(todo[Migrator]) \in 0..7
        BY <4>1, <4>2, FS_Subset, FS_CardinalityType
      <4> QED
        BY <3>1, <4>1, <4>3
    <3>3. open'[Migrator] = {}
      BY <3>1 DEF Commit, TInv
    <3>4. \A p \in Process : pc'[p] \in Quiet => open'[p] = {} /\ todo'[p] = {}
      BY <2>1, <3>1, <3>3, CommitKeeps DEF DInv, TInv, Quiet
    <3> QED
      BY <2>1, <3>1, <3>2, <3>4, CommitKeeps DEF DInv
  <2>3. CASE ~ (perMigration \/ todo[Migrator] = {})
    <3>1. UNCHANGED <<schema, open, version>> /\ pc'[Migrator] = "create"
      BY <1>8, <2>1, <2>3 DEF Record, TInv
    <3>2. \A p \in Process : pc'[p] \in Quiet => pc[p] \in Quiet
      BY <2>1, <3>1 DEF TInv, Quiet
    <3> QED
      BY <2>1, <3>1, <3>2 DEF DInv
  <2> QED
    BY <2>2, <2>3
<1>9. CASE UNCHANGED vars
  BY <1>1, <1>9 DEF vars, kinds, database
<1> QED
  BY <1>2, <1>3, <1>4, <1>5, <1>6, <1>7, <1>8, <1>9
     DEF Next, WorkerStep, ProcessStep, Conflict, Deadlock, Die

-----------------------------------------------------------------------------
(* The rest of type correctness: each worker's application.                *)

OnceEach(s) == \A m, n \in DOMAIN s : s[m] = s[n] => m = n

Container == Registered \cup Optional \cup UNION {Gives(p) : p \in Provider}

AInv ==
  /\ \A w \in Worker :
       /\ has[w] \subseteq Container /\ observer[w] \subseteq has[w]
       /\ OnceEach(stack[w])
       /\ \A p \in left[w] : Elements(stack[w]) \cap Elements(Adds(p)) = {}
  /\ deaths \in 0..MaxDeaths /\ migrates \in 0..MaxMigrates

LEMMA AInit == Init => AInv
BY BootAssumption DEF Init, AInv, OnceEach, Elements

\* A provider adds each piece once, and no two providers the same.
LEMMA AddsApart ==
  ASSUME NEW p \in Provider
  PROVE  /\ OnceEach(Adds(p))
         /\ \A q \in Provider : p # q => Elements(Adds(p)) \cap Elements(Adds(q)) = {}
<1> DEFINE Own(q) == CASE q = "observability" -> {"request id", "locale", "access log"}
                       [] q = "auth" -> {"guard", "container"}
                       [] OTHER -> {}
<1>1. ASSUME NEW q \in Provider
      PROVE  OnceEach(Adds(q)) /\ Elements(Adds(q)) \subseteq Own(q)
  <2>1. CASE q = "observability" /\ AccessLog
    <3>1. /\ DOMAIN Adds(q) = 1..3
          /\ Adds(q)[1] = "request id" /\ Adds(q)[2] = "locale" /\ Adds(q)[3] = "access log"
      BY <2>1 DEF Adds
    <3>2. \A n \in 1..3 : n = 1 \/ n = 2 \/ n = 3
      OBVIOUS
    <3>3. OnceEach(Adds(q))
      BY <3>1, <3>2 DEF OnceEach
    <3>4. Elements(Adds(q)) \subseteq {"request id", "locale", "access log"}
      BY <3>1, <3>2 DEF Elements
    <3> QED
      BY <2>1, <3>3, <3>4
  <2>2. CASE q = "observability" /\ ~ AccessLog
    <3>1. DOMAIN Adds(q) = 1..2 /\ Adds(q)[1] = "request id" /\ Adds(q)[2] = "locale"
      BY <2>2 DEF Adds
    <3>2. \A n \in 1..2 : n = 1 \/ n = 2
      OBVIOUS
    <3>3. OnceEach(Adds(q))
      BY <3>1, <3>2 DEF OnceEach
    <3>4. Elements(Adds(q)) \subseteq {"request id", "locale", "access log"}
      BY <3>1, <3>2 DEF Elements
    <3> QED
      BY <2>2, <3>3, <3>4
  <2>3. CASE q = "auth"
    <3>1. DOMAIN Adds(q) = 1..2 /\ Adds(q)[1] = "guard" /\ Adds(q)[2] = "container"
      BY <2>3 DEF Adds
    <3> QED
      BY <2>3, <3>1 DEF OnceEach, Elements
  <2>4. CASE q # "observability" /\ q # "auth"
    BY <2>4 DEF Adds, OnceEach, Elements
  <2> QED
    BY <2>1, <2>2, <2>3, <2>4
<1>2. ASSUME NEW q \in Provider, p # q PROVE Own(p) \cap Own(q) = {}
  <2>1. CASE p = "observability"
    BY <1>2, <2>1
  <2>2. CASE p = "auth"
    BY <1>2, <2>2
  <2>3. CASE p # "observability" /\ p # "auth"
    BY <2>3
  <2> QED
    BY <2>1, <2>2, <2>3
<1> HIDE DEF Own
<1> QED
  BY <1>1, <1>2

LEMMA StackOnceEach ==
  ASSUME NEW old \in Seq(Middleware), NEW new \in Seq(Middleware),
         OnceEach(old), OnceEach(new), Elements(old) \cap Elements(new) = {}
  PROVE  /\ OnceEach(AddMiddleware(old, new))
         /\ Elements(AddMiddleware(old, new)) \subseteq Elements(old) \cup Elements(new)
<1> DEFINE s == AddMiddleware(old, new)
           a == Len(new)
           b == Len(old)
<1>1. s \in Seq(Middleware) /\ Len(s) = a + b
  BY StackGrows, Zenon
<1>2. a \in Nat /\ b \in Nat /\ DOMAIN new = 1..a /\ DOMAIN old = 1..b
  OBVIOUS
<1>3. DOMAIN s = 1 .. a + b
  BY <1>1
<1>4. /\ \A n \in DOMAIN new : s[n] = new[a + 1 - n]
      /\ \A n \in DOMAIN old : s[a + n] = old[n]
  BY StackGrows, Zenon
<1> HIDE DEF s, a, b
<1>5. ASSUME NEW n \in DOMAIN s
      PROVE  \/ n \in 1..a /\ a + 1 - n \in DOMAIN new /\ s[n] = new[a + 1 - n]
             \/ n \notin 1..a /\ n - a \in DOMAIN old /\ s[n] = old[n - a]
  <2>1. CASE n \in 1..a
    BY <1>2, <1>4, <2>1
  <2>2. CASE n \notin 1..a
    <3>1. n - a \in DOMAIN old /\ n = a + (n - a)
      BY <1>2, <1>3, <2>2
    <3> QED
      BY <1>4, <2>2, <3>1
  <2> QED
    BY <2>1, <2>2
<1>6. \A m \in DOMAIN new, n \in DOMAIN old : new[m] # old[n]
  BY DEF Elements
<1>7. ASSUME NEW m \in DOMAIN s, NEW n \in DOMAIN s, s[m] = s[n]
      PROVE  m = n
  <2>1. CASE m \in 1..a /\ n \in 1..a
    <3>1. a + 1 - m = a + 1 - n
      BY <1>5, <1>7, <2>1 DEF OnceEach
    <3> QED
      BY <1>2, <2>1, <3>1
  <2>2. CASE m \notin 1..a /\ n \notin 1..a
    <3>1. m - a = n - a /\ m \in Nat /\ n \in Nat
      BY <1>2, <1>3, <1>5, <1>7, <2>2 DEF OnceEach
    <3> QED
      BY <1>2, <3>1
  <2>3. CASE (m \in 1..a) # (n \in 1..a)
    BY <1>5, <1>6, <1>7, <2>3
  <2> QED
    BY <2>1, <2>2, <2>3
<1>8. Elements(s) \subseteq Elements(old) \cup Elements(new)
  BY <1>5 DEF Elements
<1> QED
  BY <1>7, <1>8 DEF OnceEach, s

LEMMA AStep == TInv /\ AInv /\ [Next]_vars => AInv'
<1> SUFFICES ASSUME TInv, AInv, [Next]_vars PROVE AInv'
  OBVIOUS
<1>1. CASE UNCHANGED <<app, bounds>>
  BY <1>1 DEF AInv, app, bounds
<1>2. ASSUME UNCHANGED app, deaths' \in 0..MaxDeaths, migrates' \in 0..MaxMigrates
      PROVE  AInv'
  BY <1>2 DEF AInv, app
<1>3. ASSUME NEW w \in Worker, Start(w) PROVE AInv'
  <2>1. PICK found \in SUBSET Optional : has' = [has EXCEPT ![w] = Registered \cup found]
    BY <1>3 DEF Start
  <2>2. /\ stack' = [stack EXCEPT ![w] = << >>] /\ observer' = [observer EXCEPT ![w] = {}]
        /\ left' = [left EXCEPT ![w] = Provider] /\ UNCHANGED <<deaths, migrates>>
    BY <1>3 DEF Start, bounds
  <2>3. OnceEach(<< >>) /\ Elements(<< >>) = {}
    BY DEF OnceEach, Elements
  <2>4. Registered \cup found \subseteq Container
    BY DEF Container
  <2> QED
    BY <2>1, <2>2, <2>3, <2>4 DEF AInv, TInv
<1>4. ASSUME NEW w \in Worker, BootProvider(w) PROVE AInv'
  <2> DEFINE p == NextProvider(w)
  <2>1. p \in Provider /\ p \in left[w]
    BY <1>4, NextIsLeft DEF BootProvider
  <2>2. /\ left' = [left EXCEPT ![w] = @ \ {p}] /\ has' = [has EXCEPT ![w] = @ \cup Gives(p)]
        /\ stack' = [stack EXCEPT ![w] = AddMiddleware(@, Adds(p))]
        /\ UNCHANGED <<observer, deaths, migrates>>
    BY <1>4 DEF BootProvider, bounds
  <2> HIDE DEF p
  <2>3. Gives(p) \subseteq Container
    BY <2>1 DEF Container
  <2>4. /\ stack[w] \in Seq(Middleware) /\ Adds(p) \in Seq(Middleware)
        /\ OnceEach(stack[w]) /\ OnceEach(Adds(p))
        /\ Elements(stack[w]) \cap Elements(Adds(p)) = {}
    BY <2>1, AddsType, AddsApart DEF AInv, TInv
  <2>5. /\ OnceEach(stack'[w])
        /\ Elements(stack'[w]) \subseteq Elements(stack[w]) \cup Elements(Adds(p))
    BY <2>2, <2>4, StackOnceEach DEF TInv
  <2>6. ASSUME NEW q \in left'[w]
        PROVE  Elements(stack'[w]) \cap Elements(Adds(q)) = {}
    <3>1. q \in Provider /\ q \in left[w] /\ p # q
      BY <2>2 DEF TInv
    <3>2. /\ Elements(stack[w]) \cap Elements(Adds(q)) = {}
          /\ Elements(Adds(p)) \cap Elements(Adds(q)) = {}
      BY <2>1, <3>1, AddsApart DEF AInv
    <3> QED
      BY <2>5, <3>2
  <2>7. ASSUME NEW v \in Worker
        PROVE  /\ has'[v] \subseteq Container /\ observer'[v] \subseteq has'[v]
               /\ OnceEach(stack'[v])
               /\ \A q \in left'[v] : Elements(stack'[v]) \cap Elements(Adds(q)) = {}
    <3>1. CASE v = w
      BY <2>2, <2>3, <2>5, <2>6, <3>1 DEF AInv, TInv
    <3>2. CASE v # w
      BY <2>2, <3>2 DEF AInv, TInv
    <3> QED
      BY <3>1, <3>2
  <2> QED
    BY <2>2, <2>7 DEF AInv
<1>5. ASSUME NEW w \in Worker, BootData(w) PROVE AInv'
  <2>1. /\ left' = [left EXCEPT ![w] = @ \ {"data"}]
        /\ observer'[w] \subseteq has[w] /\ \A v \in Worker : v # w => observer'[v] = observer[v]
        /\ UNCHANGED <<has, stack, deaths, migrates>>
    BY <1>5 DEF BootData, bounds, TInv
  <2> QED
    BY <2>1 DEF AInv, TInv
<1>6. ASSUME NEW p \in Process, Die(p) PROVE AInv'
  <2>1. deaths' \in 0..MaxDeaths /\ UNCHANGED migrates /\ UNCHANGED app
    BY <1>6, BootAssumption DEF Die, GoDown, AInv
  <2> QED
    BY <1>2, <2>1 DEF AInv
<1>7. CASE Migrate
  <2>1. migrates' \in 0..MaxMigrates /\ UNCHANGED deaths /\ UNCHANGED app
    BY <1>7, BootAssumption DEF Migrate, AInv
  <2> QED
    BY <1>2, <2>1 DEF AInv
<1>8. ASSUME NEW w \in Worker, LookForTables(w) \/ Serve(w) PROVE UNCHANGED <<app, bounds>>
  BY <1>8 DEF LookForTables, Serve
<1>9. ASSUME NEW p \in Process, Execute(p) \/ Conflict(p) \/ Deadlock(p)
      PROVE  UNCHANGED <<app, bounds>>
  BY <1>9 DEF Execute, Conflict, Deadlock, GoDown
<1>10. CASE Record
  BY <1>1, <1>10 DEF Record
<1>11. CASE UNCHANGED vars
  BY <1>1, <1>11 DEF vars
<1> QED
  BY <1>1, <1>3, <1>4, <1>5, <1>6, <1>7, <1>8, <1>9, <1>10, <1>11
     DEF Next, WorkerStep, ProcessStep

LEMMA LengthByElements ==
  ASSUME NEW s \in Seq(Middleware), OnceEach(s)
  PROVE  Cardinality(Elements(s)) = Len(s)
<1>1. DOMAIN s = 1..Len(s) /\ Len(s) \in Nat
  OBVIOUS
<1>2. s \in [1..Len(s) -> Elements(s)]
  BY <1>1 DEF Elements
<1>3. s \in Bijection(1..Len(s), Elements(s))
  <2>1. \A m, n \in 1..Len(s) : s[m] = s[n] => m = n
    BY <1>1 DEF OnceEach
  <2>2. \A e \in Elements(s) : \E n \in 1..Len(s) : s[n] = e
    BY <1>1 DEF Elements
  <2> QED
    BY <1>2, <2>1, <2>2, Fun_IsBij
<1> QED
  BY <1>1, <1>3, FS_CountingElements DEF ExistsBijection

\* Every variable of Boot keeps its type: no two processes have created the
\* same table, nobody who is not at work holds one open, and a worker's
\* middleware is added once.
THEOREM TypeCorrect == Spec => []TypeOK
<1>1. TInv /\ DInv /\ AInv => TypeOK
  <2> SUFFICES ASSUME TInv, DInv, AInv PROVE TypeOK
    OBVIOUS
  <2>1. \A w \in Worker : Cardinality(Elements(stack[w])) = Len(stack[w])
    BY LengthByElements DEF TInv, AInv
  <2> QED
    BY <2>1 DEF TypeOK, TInv, DInv, AInv, Container, Quiet
<1> QED
  BY TypeInit, TypeStep, DInit, DStep, AInit, AStep, <1>1, PTL DEF Spec

-----------------------------------------------------------------------------
(* One worker at a time creates tables.                                    *)

\* A worker with tables of its own has the first that was missing among them.
HasFirstMissing ==
  \A w \in Worker : open[w] # {} =>
    \E n \in DOMAIN CreateOrder :
      /\ CreateOrder[n] \in open[w]
      /\ \A m \in DOMAIN CreateOrder : m < n => CreateOrder[m] \in schema

LEMMA FirstMissingInit == Init => HasFirstMissing
BY WorkersAndMigrator DEF Init, HasFirstMissing

\* What a step does to the tables a worker has open.
LEMMA OpenMoves ==
  ASSUME TInv, [Next]_vars, NEW w \in Worker
  PROVE  open'[w] = open[w] \/ open'[w] = {} \/ Execute(w)
<1> USE WorkersAndMigrator
<1>1. ASSUME NEW p \in Process, GoDown(p) PROVE open'[w] = open[w] \/ open'[w] = {}
  BY <1>1 DEF GoDown, TInv
<1>2. ASSUME NEW p \in Process, Commit(p) PROVE open'[w] = open[w] \/ open'[w] = {}
  BY <1>2 DEF Commit, TInv
<1>3. ASSUME NEW p \in Process, p # w, Execute(p) PROVE open'[w] = open[w]
  BY <1>3 DEF Execute, TInv
<1>4. ASSUME NEW v \in Worker, Start(v) \/ BootProvider(v) \/ BootData(v) \/ LookForTables(v)
      PROVE  open' = open
  BY <1>4 DEF Start, BootProvider, BootData, LookForTables, database
<1>5. Migrate \/ UNCHANGED vars => open' = open
  BY DEF Migrate, vars, database
<1>6. Record => open' = open \/ Commit(Migrator)
  BY DEF Record
<1>7. \A v \in Worker : Serve(v) => Commit(v)
  BY DEF Serve
<1> QED
  BY <1>1, <1>2, <1>3, <1>4, <1>5, <1>6, <1>7
     DEF Next, WorkerStep, ProcessStep, Conflict, Deadlock, Die

LEMMA FirstMissingStep ==
  TInv /\ DInv /\ TablesInv /\ HasFirstMissing /\ [Next]_vars => HasFirstMissing'
<1> SUFFICES ASSUME TInv, DInv, TablesInv, HasFirstMissing, [Next]_vars,
                    NEW w \in Worker, open'[w] # {}
             PROVE  \E n \in DOMAIN CreateOrder :
                      /\ CreateOrder[n] \in open'[w]
                      /\ \A m \in DOMAIN CreateOrder : m < n => CreateOrder[m] \in schema'
  BY DEF HasFirstMissing
<1>1. schema \subseteq schema'
  BY SchemaGrows
<1>2. CASE open[w] # {} /\ open[w] \subseteq open'[w]
  BY <1>1, <1>2 DEF HasFirstMissing
<1>3. CASE Execute(w)
  <2>1. /\ pc[w] = "create" /\ todo[w] # {} /\ transactional
        /\ open'[w] = open[w] \cup Wanted(w) /\ Order(w) = CreateOrder
    BY <1>3, WorkersAndMigrator DEF Execute, TInv, DInv, Order
  <2>2. CASE open[w] = {}
    <3> DEFINE n == Place(w)
    <3>1. todo[w] \subseteq Nat /\ todo[w] \subseteq DOMAIN CreateOrder /\ IsFiniteSet(todo[w])
      BY <2>1, WorkersAndMigrator, OrderDomain, FS_Subset DEF DInv
    <3>2. n \in todo[w] /\ \A m \in todo[w] : n <= m
      BY <2>1, <3>1, LeastOf DEF Place
    <3>3. CreateOrder[n] \in open'[w]
      BY <2>1 DEF Wanted, Makes
    <3> HIDE DEF n
    <3>4. ASSUME NEW m \in DOMAIN CreateOrder, m < n PROVE CreateOrder[m] \in schema'
      <4>1. DOMAIN CreateOrder \subseteq Nat
        BY <2>1, WorkersAndMigrator, OrderDomain
      <4>2. m \notin todo[w]
        BY <3>1, <3>2, <3>4, <4>1
      <4> QED
        BY <1>1, <2>1, <2>2, <4>2 DEF TablesInv
    <3> QED
      BY <3>1, <3>2, <3>3, <3>4
  <2>3. CASE open[w] # {}
    BY <1>2, <2>1, <2>3
  <2> QED
    BY <2>2, <2>3
<1> QED
  BY <1>2, <1>3, OpenMoves

\* Of the workers that boot together, one at most has created tables and not
\* committed them, however many there are and whoever runs the migrations.
THEOREM WorkersCreateAlone == Spec => []OneWorkerCreates
<1>1. DInv /\ HasFirstMissing => OneWorkerCreates
  <2> SUFFICES ASSUME DInv, HasFirstMissing, NEW v \in Worker, NEW w \in Worker,
                      open[v] # {}, open[w] # {}
               PROVE  v = w
    BY DEF OneWorkerCreates
  <2>1. PICK k \in DOMAIN CreateOrder :
          /\ CreateOrder[k] \in open[v]
          /\ \A m \in DOMAIN CreateOrder : m < k => CreateOrder[m] \in schema
    BY DEF HasFirstMissing
  <2>2. PICK n \in DOMAIN CreateOrder :
          /\ CreateOrder[n] \in open[w]
          /\ \A m \in DOMAIN CreateOrder : m < n => CreateOrder[m] \in schema
    BY DEF HasFirstMissing
  <2>3. CreateOrder[k] \notin schema /\ CreateOrder[n] \notin schema
    BY <2>1, <2>2, WorkersAndMigrator DEF DInv
  <2>4. k \in Nat /\ n \in Nat
    BY BootAssumption
  <2>5. k = n
    BY <2>1, <2>2, <2>3, <2>4
  <2> QED
    BY <2>1, <2>2, <2>5, WorkersAndMigrator DEF DInv
<1> QED
  BY TypeInit, TypeStep, DInit, DStep, ReadyInit, TablesStep, FirstMissingInit, FirstMissingStep,
     <1>1, PTL DEF Spec

\* Who waits for somebody that waits for a third waits at two that wait for each
\* other, if the third waits as well: there is no longer circle than Deadlock's.
THEOREM DeadlocksArePairs ==
  Spec => [](\A p, q, r, s \in Process :
               WaitsFor(p, q) /\ WaitsFor(q, r) /\ WaitsFor(r, s) => s = q)
<1>1. OneWorkerCreates => \A p, q, r, s \in Process :
        WaitsFor(p, q) /\ WaitsFor(q, r) /\ WaitsFor(r, s) => s = q
  <2> SUFFICES ASSUME OneWorkerCreates,
                      NEW p \in Process, NEW q \in Process, NEW r \in Process, NEW s \in Process,
                      WaitsFor(p, q), WaitsFor(q, r), WaitsFor(r, s)
               PROVE  s = q
    OBVIOUS
  <2>1. open[q] # {} /\ open[r] # {} /\ open[s] # {} /\ q # r /\ r # s
    BY DEF WaitsFor
  <2> QED
    BY <2>1, WorkersAndMigrator DEF OneWorkerCreates
<1> QED
  BY WorkersCreateAlone, <1>1, PTL

=============================================================================
