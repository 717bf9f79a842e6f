--------------------------- MODULE Notify_proofs ---------------------------
(***************************************************************************)
(* Proofs about Notify, for any number of requests, processes and users,   *)
(* either driver, any lease, any demo keys and sends of any length: type   *)
(* correctness, exclusion behind each lock store until the lock goes, what *)
(* a lease covers, what may make a lock go, and that the handlers          *)
(* implement Mutex.  There is no hypothesis beside NotifyAssumption.       *)
(***************************************************************************)
EXTENDS Notify, TLAPS

LEMMA StoreOfType == \A h \in Handler : StoreOf(h) \in Store
BY NotifyAssumption DEF StoreOf, Store

Leases == [Store -> [Key -> Nat]]

\* Setting the lease of one key in one store leaves all the others alone.
LEMMA SetLease ==
  ASSUME left \in Leases, NEW s \in Store, NEW k \in Key, NEW t \in Nat,
         left' = [left EXCEPT ![s][k] = t]
  PROVE  /\ left' \in Leases
         /\ left'[s][k] = t
         /\ \A s2 \in Store, k2 \in Key :
              s2 # s \/ k2 # k => left'[s2][k2] = left[s2][k2]
<1>1. left' = [left EXCEPT ![s] = [left[s] EXCEPT ![k] = t]]
  OBVIOUS
<1>2. left[s] \in [Key -> Nat] /\ [left[s] EXCEPT ![k] = t] \in [Key -> Nat]
  BY DEF Leases
<1> QED
  BY <1>1, <1>2 DEF Leases

Marks == [Store -> SUBSET UserId]

\* What the history keeps in a step.
LEMMA DisturbSets ==
  ASSUME disturbed \in Marks, NEW lost \in Marks, Disturb(lost)
  PROVE  /\ disturbed' \in Marks
         /\ \A s \in Store : \A u \in UserId :
              u \in disturbed'[s] <=> u \in disturbed[s] \cup lost[s] /\ Occupied(s, u)'
BY DEF Disturb, Marks

LEMMA NoneLostType == NoneLost \in Marks /\ \A s \in Store : NoneLost[s] = {}
BY DEF NoneLost, Marks

\* What a demo release takes away.
LEMMA FreedType ==
  ASSUME NEW s \in Store, NEW k
  PROVE  /\ [NoneLost EXCEPT ![s] = {k} \cap UserId] \in Marks
         /\ \A t \in Store : \A u \in UserId :
              u \in [NoneLost EXCEPT ![s] = {k} \cap UserId][t] <=> t = s /\ u = k
BY DEF NoneLost, Marks

-----------------------------------------------------------------------------
(* Type correctness, with an id for every request inside.                  *)

LockedHasTarget == \A h \in Handler : pc[h] \in Locked => target[h] \in UserId

TInv == TypeOK /\ LockedHasTarget

LEMMA TypeInit == Init => TInv
BY NotifyAssumption DEF Init, TInv, TypeOK, LockedHasTarget, Steps, Locked

LEMMA TypeStep == TInv /\ [Next]_vars => TInv'
<1> SUFFICES ASSUME TInv, [Next]_vars PROVE TInv'
  OBVIOUS
<1> USE NotifyAssumption, StoreOfType
        DEF TInv, TypeOK, LockedHasTarget, Steps, Locked, Goto, Key
<1>0. disturbed \in Marks
  BY DEF Marks
<1>1. CASE UNCHANGED vars
  BY <1>1 DEF vars
<1>2. ASSUME NEW h \in Handler, Acquire(h) PROVE TInv'
  <2>1. PICK u \in UserId : /\ left' = [left EXCEPT ![StoreOf(h)][u] = TTL]
                            /\ target' = [target EXCEPT ![h] = u]
    BY <1>2 DEF Acquire, AcquireLock
  <2>2. left' \in [Store -> [Key -> Nat]]
    BY <2>1, SetLease DEF Leases
  <2> QED
    BY <1>2, <2>1, <2>2 DEF Acquire
<1>3. ASSUME NEW h \in Handler, Skip(h) PROVE TInv'
  BY <1>3 DEF Skip
<1>4. ASSUME NEW h \in Handler, Find(h) PROVE TInv'
  BY <1>4 DEF Find
<1>5. ASSUME NEW h \in Handler, Send(h) \/ SendRaises(h) PROVE TInv'
  BY <1>5 DEF Send, SendRaises
<1>6. ASSUME NEW h \in Handler, Release(h) \/ ReleaseRaises(h) PROVE TInv'
  <2>1. target[h] \in Key
    BY <1>6 DEF Release, ReleaseRaises, ReleaseSteps
  <2>2. left' \in [Store -> [Key -> Nat]]
    BY <1>6, <2>1, SetLease DEF Release, ReleaseRaises, ReleaseLock, Leases
  <2>3. /\ pc' \in [Handler -> Steps] /\ pc'[h] \in {"sent", "notfound", "error"}
        /\ \A g \in Handler : g # h => pc'[g] = pc[g]
    <3>1. [release200 |-> "sent", release404 |-> "notfound", release500 |-> "error"][pc[h]]
            \in {"sent", "notfound", "error"} \/ ReleaseRaises(h)
      BY <1>6 DEF Release, ReleaseSteps
    <3> QED
      BY <1>6, <3>1 DEF Release, ReleaseRaises
  <2>4. Leave(h)
    BY <1>6 DEF Release, ReleaseRaises
  <2>5. age' \in [Handler -> 0..TTL] /\ target' = target /\ sent' = sent
    BY <2>4 DEF Leave
  <2>6. disturbed' \in [Store -> SUBSET UserId]
    BY <1>0, <2>4, NoneLostType, DisturbSets DEF Leave, Marks
  <2> QED
    BY <2>2, <2>3, <2>5, <2>6
<1>7. ASSUME NEW s \in Store, NEW k \in DemoKey, LockAcquire(s, k) \/ LockRelease(s, k)
      PROVE  TInv'
  <2>1. left' \in [Store -> [Key -> Nat]]
    BY <1>7, SetLease DEF LockAcquire, LockRelease, AcquireLock, ReleaseLock, Leases
  <2>2. disturbed' \in [Store -> SUBSET UserId]
    <3>1. CASE LockAcquire(s, k)
      BY <3>1 DEF LockAcquire
    <3>2. CASE LockRelease(s, k)
      <4> DEFINE lost == [NoneLost EXCEPT ![s] = {k} \cap UserId]
      <4>1. lost \in Marks /\ Disturb(lost)
        BY <3>2, FreedType DEF LockRelease
      <4> HIDE DEF lost
      <4> QED
        BY <1>0, <4>1, DisturbSets DEF Marks
    <3> QED
      BY <1>7, <3>1, <3>2
  <2> QED
    BY <1>7, <2>1, <2>2 DEF LockAcquire, LockRelease
<1>8. ASSUME NEW w \in Worker, CrashWorker(w) PROVE TInv'
  <2>1. left' \in [Store -> [Key -> Nat]]
    <3>1. CASE SharedLocks
      BY <1>8, <3>1 DEF CrashWorker
    <3>2. CASE ~ SharedLocks
      BY <1>8, <3>2 DEF CrashWorker, Store
    <3> QED
      BY <3>1, <3>2
  <2>2. /\ pc' \in [Handler -> Steps] /\ age' \in [Handler -> 0..TTL]
        /\ \A h \in Handler : pc'[h] \in Locked => pc[h] \in Locked
    BY <1>8 DEF CrashWorker
  <2>3. disturbed' \in [Store -> SUBSET UserId]
    BY <1>0, <1>8, NoneLostType, DisturbSets DEF CrashWorker, Marks
  <2> QED
    BY <1>8, <2>1, <2>2, <2>3 DEF CrashWorker
<1>9. CASE Tick
  <2>1. left' \in [Store -> [Key -> Nat]] /\ age' \in [Handler -> 0..TTL]
    BY <1>9 DEF Tick, Expire
  <2>2. disturbed' \in [Store -> SUBSET UserId]
    BY <1>9 DEF Tick, Disturb
  <2> QED
    BY <1>9, <2>1, <2>2 DEF Tick
<1> QED
  BY <1>1, <1>2, <1>3, <1>4, <1>5, <1>6, <1>7, <1>8, <1>9 DEF Next, HandlerStep

\* Every variable of Notify keeps its type: in particular no lease falls below
\* zero, and only users' keys are ever disturbed.
THEOREM TypeCorrect == Spec => []TypeOK
<1>1. TInv => TypeOK
  BY DEF TInv
<1> QED
  BY TypeInit, TypeStep, <1>1, PTL DEF Spec

-----------------------------------------------------------------------------
(* Mutual exclusion.  What keeps it is the lease: a request inside an      *)
(* undisturbed section is covered by what is left of its own.              *)

OnlyOccupied ==
  \A s \in Store : \A u \in UserId : u \in disturbed[s] => Occupied(s, u)

IInv == TInv /\ LeaseCoversHolder /\ ExclusivePerStore /\ OnlyOccupied

LEMMA IInit == Init => IInv
BY TypeInit DEF Init, IInv, LeaseCoversHolder, ExclusivePerStore, OnlyOccupied,
   Undisturbed, Inside, Locked

LEMMA IStep == IInv /\ [Next]_vars => IInv'
<1> SUFFICES ASSUME IInv, [Next]_vars PROVE IInv'
  OBVIOUS
<1> USE NotifyAssumption
<1>0. /\ TInv /\ TInv' /\ left \in Leases /\ left' \in Leases
      /\ disturbed \in Marks /\ disturbed' \in Marks
      /\ LeaseCoversHolder /\ ExclusivePerStore /\ OnlyOccupied
  BY TypeStep DEF IInv, TInv, TypeOK, Leases, Marks
<1>t. \A g \in Handler : \A u \in UserId :
        left[StoreOf(g)][u] \in Nat /\ left'[StoreOf(g)][u] \in Nat
  BY <1>0, StoreOfType DEF Leases, Key
\* Who leaves, or stays inside under a lease nobody touched, breaks nothing.
<1>a. ASSUME \A g \in Handler : \A u \in UserId :
               Inside(g, u)' => Inside(g, u) /\ age'[g] = age[g],
             \A g \in Handler : \A u \in UserId :
               Undisturbed(g, u)' => /\ u \notin disturbed[StoreOf(g)]
                                     /\ left'[StoreOf(g)][u] = left[StoreOf(g)][u],
             OnlyOccupied'
      PROVE  IInv'
  <2>1. ASSUME NEW g \in Handler, NEW u \in UserId, Undisturbed(g, u)'
        PROVE  /\ Undisturbed(g, u) /\ age'[g] = age[g]
               /\ left'[StoreOf(g)][u] = left[StoreOf(g)][u]
    BY <1>a, <2>1 DEF Undisturbed
  <2>2. LeaseCoversHolder'
    BY <1>0, <2>1 DEF LeaseCoversHolder, IsLocked, StoreOf
  <2>3. ExclusivePerStore'
    BY <1>0, <1>a, <2>1 DEF ExclusivePerStore, StoreOf
  <2> QED
    BY <1>0, <1>a, <2>2, <2>3 DEF IInv
\* The history after a step that loses `lost`.
<1>b. ASSUME NEW lost \in Marks, Disturb(lost)
      PROVE  /\ OnlyOccupied'
             /\ \A g \in Handler : \A u \in UserId :
                  Undisturbed(g, u)' => /\ u \notin disturbed[StoreOf(g)]
                                        /\ u \notin lost[StoreOf(g)]
  <2>1. \A s \in Store : \A u \in UserId :
          u \in disturbed'[s] <=> u \in disturbed[s] \cup lost[s] /\ Occupied(s, u)'
    BY <1>0, <1>b, DisturbSets
  <2>2. \A g \in Handler : \A u \in UserId : Inside(g, u)' => Occupied(StoreOf(g), u)'
    BY DEF Occupied, StoreOf
  <2> QED
    BY <2>1, <2>2, StoreOfType DEF OnlyOccupied, Undisturbed, StoreOf
\* The history after a step that leaves it alone and nobody inside leaves.
<1>c. ASSUME disturbed' = disturbed,
             \A g \in Handler : \A u \in UserId : Inside(g, u) => Inside(g, u)'
      PROVE  OnlyOccupied'
  BY <1>0, <1>c DEF OnlyOccupied, Occupied, StoreOf
<1>1. CASE UNCHANGED vars
  BY <1>0, <1>1 DEF vars, IInv, LeaseCoversHolder, ExclusivePerStore, OnlyOccupied, Occupied,
     Undisturbed, Inside, IsLocked, StoreOf
<1>2. ASSUME NEW h \in Handler, Acquire(h) PROVE IInv'
  <2>1. PICK u \in UserId : /\ ~ IsLocked(StoreOf(h), u)
                            /\ left' = [left EXCEPT ![StoreOf(h)][u] = TTL]
                            /\ target' = [target EXCEPT ![h] = u]
    BY <1>2 DEF Acquire, AcquireLock
  <2>2. /\ pc[h] = "idle" /\ age' = age /\ target'[h] = u /\ disturbed' = disturbed
        /\ pc'[h] = "find"
        /\ \A g \in Handler : g # h => pc'[g] = pc[g] /\ target'[g] = target[g]
    BY <1>0, <1>2, <2>1 DEF Acquire, Goto, TInv, TypeOK
  <2>3. /\ left'[StoreOf(h)][u] = TTL
        /\ \A s \in Store, v \in UserId :
             s # StoreOf(h) \/ v # u => left'[s][v] = left[s][v]
    <3> DEFINE s0 == StoreOf(h)
    <3>1. /\ s0 \in Store /\ u \in Key /\ TTL \in Nat /\ UserId \subseteq Key
          /\ left' = [left EXCEPT ![s0][u] = TTL]
      BY <2>1, StoreOfType DEF Key
    <3> HIDE DEF s0
    <3>2. left'[s0] = [left[s0] EXCEPT ![u] = TTL] /\ left[s0] \in [Key -> Nat]
      BY <1>0, <3>1 DEF Leases
    <3>3. \A s \in Store : s # s0 => left'[s] = left[s]
      BY <1>0, <3>1 DEF Leases
    <3> QED
      BY <3>1, <3>2, <3>3 DEF s0
  <2>4. \A g \in Handler : StoreOf(g) = StoreOf(h) => ~ Undisturbed(g, u)
    BY <1>0, <2>1 DEF LeaseCoversHolder
  <2>5. ASSUME NEW g \in Handler, NEW v \in UserId
        PROVE  Inside(g, v)' <=> (g = h /\ v = u) \/ Inside(g, v)
    BY <2>2 DEF Inside, Locked
  <2>6. ASSUME NEW g \in Handler, NEW v \in UserId, Undisturbed(g, v)'
        PROVE  \/ g = h /\ v = u
               \/ Undisturbed(g, v) /\ (StoreOf(g) # StoreOf(h) \/ v # u)
    BY <2>2, <2>4, <2>5, <2>6 DEF Undisturbed, StoreOf
  <2>7. LeaseCoversHolder'
    <3> SUFFICES ASSUME NEW g \in Handler, NEW v \in UserId, Undisturbed(g, v)'
                 PROVE  left'[StoreOf(g)][v] > 0 /\ left'[StoreOf(g)][v] + age'[g] >= TTL
      BY DEF LeaseCoversHolder, IsLocked, StoreOf
    <3>1. age[g] \in Nat /\ StoreOf(g) \in Store
      BY <1>0, StoreOfType DEF TInv, TypeOK
    <3>2. CASE g = h /\ v = u
      BY <2>2, <2>3, <3>1, <3>2
    <3>3. CASE Undisturbed(g, v) /\ (StoreOf(g) # StoreOf(h) \/ v # u)
      BY <1>0, <2>2, <2>3, <3>1, <3>3 DEF LeaseCoversHolder, IsLocked
    <3> QED
      BY <2>6, <3>2, <3>3
  <2>8. ExclusivePerStore'
    <3> SUFFICES ASSUME NEW g \in Handler, NEW f \in Handler, NEW v \in UserId,
                        StoreOf(g) = StoreOf(f), Undisturbed(g, v)', Inside(f, v)'
                 PROVE  g = f
      BY DEF ExclusivePerStore, StoreOf
    <3>1. v \notin disturbed[StoreOf(f)]
      BY <2>2 DEF Undisturbed, StoreOf
    <3>2. CASE g = h /\ v = u
      BY <2>4, <2>5, <3>1, <3>2 DEF Undisturbed
    <3>3. CASE Undisturbed(g, v) /\ (StoreOf(g) # StoreOf(h) \/ v # u)
      BY <1>0, <2>5, <3>3 DEF ExclusivePerStore
    <3> QED
      BY <2>6, <3>2, <3>3
  <2>9. OnlyOccupied'
    BY <1>c, <2>2, <2>5
  <2> QED
    BY <1>0, <2>7, <2>8, <2>9 DEF IInv
<1>3. ASSUME NEW h \in Handler, Skip(h) \/ Find(h) \/ Send(h) \/ SendRaises(h) PROVE IInv'
  <2>1. \A g \in Handler : \A u \in UserId : Inside(g, u)' <=> Inside(g, u)
    BY <1>0, <1>3 DEF Skip, Find, Send, SendRaises, Goto, Inside, Locked, TInv, TypeOK
  <2>2. age' = age /\ left' = left /\ disturbed' = disturbed
    BY <1>3 DEF Skip, Find, Send, SendRaises
  <2> QED
    BY <1>a, <1>c, <2>1, <2>2 DEF Undisturbed, StoreOf
<1>4. ASSUME NEW h \in Handler, Release(h) \/ ReleaseRaises(h) PROVE IInv'
  <2>1. /\ pc[h] \in Locked /\ pc'[h] \notin Locked /\ target' = target
        /\ left' = [left EXCEPT ![StoreOf(h)][target[h]] = 0] \/ left' = left
        /\ \A g \in Handler : g # h => pc'[g] = pc[g] /\ age'[g] = age[g]
        /\ Disturb(NoneLost)
    BY <1>0, <1>4 DEF Release, ReleaseRaises, Leave, ReleaseLock, ReleaseSteps, Goto, Locked,
       TInv, TypeOK
  <2>2. target[h] \in UserId /\ Inside(h, target[h])
    BY <1>0, <2>1 DEF TInv, LockedHasTarget, Inside
  <2>3. \A g \in Handler : \A u \in UserId : Inside(g, u)' => Inside(g, u) /\ g # h
    BY <2>1 DEF Inside
  <2>4. \A s \in Store : \A u \in UserId :
          s # StoreOf(h) \/ u # target[h] => left'[s][u] = left[s][u]
    BY <1>0, <2>1, <2>2, SetLease, StoreOfType DEF Key
  <2>5. /\ OnlyOccupied'
        /\ \A g \in Handler : \A u \in UserId :
             Undisturbed(g, u)' => u \notin disturbed[StoreOf(g)]
    BY <1>b, <2>1, NoneLostType
  <2>6. ASSUME NEW g \in Handler, NEW u \in UserId, Undisturbed(g, u)'
        PROVE  left'[StoreOf(g)][u] = left[StoreOf(g)][u]
    <3>1. g # h /\ Undisturbed(g, u)
      BY <2>3, <2>5, <2>6 DEF Undisturbed
    <3>2. StoreOf(g) # StoreOf(h) \/ u # target[h]
      BY <1>0, <2>2, <3>1 DEF ExclusivePerStore
    <3> QED
      BY <2>4, <3>2, StoreOfType
  <2> QED
    BY <1>a, <2>1, <2>3, <2>5, <2>6
<1>5. ASSUME NEW s \in Store, NEW k \in DemoKey, LockAcquire(s, k) PROVE IInv'
  <2>1. /\ ~ IsLocked(s, k) /\ left' = [left EXCEPT ![s][k] = DemoTTL]
        /\ UNCHANGED <<pc, target, age, disturbed>>
    BY <1>5 DEF LockAcquire, AcquireLock
  <2>2. \A t \in Store : \A u \in UserId : t # s \/ u # k => left'[t][u] = left[t][u]
    BY <1>0, <2>1, SetLease DEF Key
  <2>3. \A g \in Handler : \A u \in UserId :
          /\ Inside(g, u)' <=> Inside(g, u)
          /\ Undisturbed(g, u)' => Undisturbed(g, u) /\ (StoreOf(g) # s \/ u # k)
    BY <1>0, <2>1 DEF Inside, Undisturbed, StoreOf, LeaseCoversHolder
  <2> QED
    BY <1>a, <1>c, <2>1, <2>2, <2>3, StoreOfType DEF Undisturbed
<1>6. ASSUME NEW s \in Store, NEW k \in DemoKey, LockRelease(s, k) PROVE IInv'
  <2> DEFINE lost == [NoneLost EXCEPT ![s] = {k} \cap UserId]
  <2>1. /\ left' = [left EXCEPT ![s][k] = 0] /\ UNCHANGED <<pc, target, age>>
        /\ Disturb(lost)
    BY <1>6 DEF LockRelease, ReleaseLock
  <2>2. \A t \in Store : \A u \in UserId : t # s \/ u # k => left'[t][u] = left[t][u]
    BY <1>0, <2>1, SetLease DEF Key
  <2>3. \A g \in Handler : \A u \in UserId : Inside(g, u)' <=> Inside(g, u)
    BY <2>1 DEF Inside
  <2>4. lost \in Marks /\ \A t \in Store : \A u \in UserId : u \in lost[t] <=> t = s /\ u = k
    BY FreedType
  <2> HIDE DEF lost
  <2>5. /\ OnlyOccupied'
        /\ \A g \in Handler : \A u \in UserId :
             Undisturbed(g, u)' => /\ u \notin disturbed[StoreOf(g)]
                                   /\ StoreOf(g) # s \/ u # k
    BY <1>b, <2>1, <2>4, StoreOfType
  <2> QED
    BY <1>a, <2>1, <2>2, <2>3, <2>5, StoreOfType
<1>7. ASSUME NEW w \in Worker, CrashWorker(w) PROVE IInv'
  <2>1. \A g \in Handler : \A u \in UserId :
          Inside(g, u)' => Inside(g, u) /\ age'[g] = age[g] /\ WorkerOf[g] # w
    BY <1>0, <1>7 DEF CrashWorker, Inside, Locked, TInv, TypeOK
  <2>2. /\ OnlyOccupied'
        /\ \A g \in Handler : \A u \in UserId :
             Undisturbed(g, u)' => u \notin disturbed[StoreOf(g)]
    BY <1>7, <1>b, NoneLostType DEF CrashWorker
  <2>3. \A g \in Handler : \A u \in UserId :
          Undisturbed(g, u)' => left'[StoreOf(g)][u] = left[StoreOf(g)][u]
    <3>1. CASE SharedLocks
      BY <1>7, <3>1 DEF CrashWorker
    <3>2. CASE ~ SharedLocks
      BY <1>0, <1>7, <2>1, <3>2 DEF CrashWorker, StoreOf, Undisturbed, Leases, Store
    <3> QED
      BY <3>1, <3>2
  <2> QED
    BY <1>a, <2>1, <2>2, <2>3
<1>8. CASE Tick
  <2> DEFINE lost == [s \in Store |-> {u \in UserId : left'[s][u] = 0}]
  <2>1. lost \in Marks /\ Disturb(lost)
    BY <1>8 DEF Tick, Marks
  <2>2. \A s \in Store : \A u \in UserId : u \in lost[s] <=> left'[s][u] = 0
    BY DEF IsLocked
  <2> HIDE DEF lost
  <2>3. /\ OnlyOccupied'
        /\ \A g \in Handler : \A u \in UserId :
             Undisturbed(g, u)' => u \notin disturbed[StoreOf(g)] /\ left'[StoreOf(g)][u] > 0
    BY <1>b, <1>t, <2>1, <2>2, StoreOfType
  <2>4. \A g \in Handler : \A u \in UserId : Inside(g, u)' <=> Inside(g, u)
    BY <1>8 DEF Tick, Inside
  <2>5. ASSUME NEW g \in Handler, NEW u \in UserId, Undisturbed(g, u)'
        PROVE  left'[StoreOf(g)][u] + age'[g] >= TTL
    <3>1. Undisturbed(g, u) /\ left'[StoreOf(g)][u] > 0
      BY <2>3, <2>4, <2>5 DEF Undisturbed
    <3>2. age[g] \in 0..TTL /\ pc[g] \in Locked
      BY <1>0, <3>1 DEF TInv, TypeOK, Undisturbed, Inside
    <3>3. age'[g] = IF age[g] < TTL THEN age[g] + 1 ELSE age[g]
      BY <1>8, <3>2 DEF Tick
    <3>4. left'[StoreOf(g)][u] = left[StoreOf(g)][u] - 1
      BY <1>8, <1>t, <3>1, StoreOfType DEF Tick, Expire, Key
    <3>5. left[StoreOf(g)][u] + age[g] >= TTL
      BY <1>0, <3>1 DEF LeaseCoversHolder
    <3> QED
      BY <1>t, <3>1, <3>2, <3>3, <3>4, <3>5
  <2>6. LeaseCoversHolder'
    BY <2>3, <2>5 DEF LeaseCoversHolder, IsLocked, StoreOf
  <2>7. ExclusivePerStore'
    BY <1>0, <2>3, <2>4 DEF ExclusivePerStore, Undisturbed, StoreOf
  <2> QED
    BY <1>0, <2>3, <2>6, <2>7 DEF IInv
<1> QED
  BY <1>1, <1>2, <1>3, <1>4, <1>5, <1>6, <1>7, <1>8 DEF Next, HandlerStep

LEMMA Invariance == Spec => []IInv
  BY IInit, IStep, PTL DEF Spec

\* Behind each lock store, whatever the driver, two requests never notify one
\* user at the same time unless the lock went while one of them was inside.
THEOREM ExclusionPerStore == Spec => []ExclusivePerStore
<1>1. IInv => ExclusivePerStore
  BY DEF IInv
<1> QED
  BY <1>1, Invariance, PTL

\* No `finally` block frees the lock of another request before somebody's lock
\* went while he was inside, and a lease outlives what is left of its TTL.
THEOREM LeaseCovers == Spec => []LeaseCoversHolder
<1>1. IInv => LeaseCoversHolder
  BY DEF IInv
<1> QED
  BY <1>1, Invariance, PTL

-----------------------------------------------------------------------------
(* What may make a lock go.                                                *)

LEMMA CauseStep ==
  ASSUME IInv, [Next]_vars,
         NEW s \in Store, NEW u \in UserId, u \in disturbed'[s], u \notin disturbed[s]
  PROVE  Overstayed(s, u)' \/ Freed(s, u)
<1> USE NotifyAssumption
<1>0. /\ TInv /\ disturbed \in Marks /\ LeaseCoversHolder
      /\ left \in Leases
  BY DEF IInv, TInv, TypeOK, Marks, Leases
<1>1. ASSUME NEW t \in Store, NEW k \in DemoKey, LockRelease(t, k)
      PROVE  Freed(s, u)
  <2> DEFINE lost == [NoneLost EXCEPT ![t] = {k} \cap UserId]
  <2>1. Disturb(lost)
    BY <1>1 DEF LockRelease
  <2>2. /\ lost \in Marks
        /\ \A r \in Store : \A v \in UserId : v \in lost[r] <=> r = t /\ v = k
    BY FreedType
  <2> HIDE DEF lost
  <2>3. u \in lost[s]
    BY <1>0, <2>1, <2>2, DisturbSets
  <2> QED
    BY <1>1, <2>2, <2>3 DEF Freed
<1>2. CASE Tick
  <2> DEFINE lost == [r \in Store |-> {v \in UserId : left'[r][v] = 0}]
  <2>1. lost \in Marks /\ Disturb(lost)
    BY <1>2 DEF Tick, Marks
  <2>2. u \in lost[s] => left'[s][u] = 0
    BY DEF IsLocked
  <2> HIDE DEF lost
  <2>3. u \in lost[s] /\ Occupied(s, u)'
    BY <1>0, <2>1, DisturbSets
  <2>4. PICK g \in Handler : StoreOf(g) = s /\ Inside(g, u)'
    BY <2>3 DEF Occupied, StoreOf
  <2>5. Inside(g, u) /\ Undisturbed(g, u)
    BY <1>2, <2>4 DEF Tick, Inside, Undisturbed
  <2>6. left[s][u] > 0 /\ left[s][u] + age[g] >= TTL
    BY <1>0, <2>4, <2>5 DEF LeaseCoversHolder, IsLocked
  <2>7. age[g] \in 0..TTL /\ pc[g] \in Locked /\ left[s][u] \in Nat
    BY <1>0, <2>5 DEF TInv, TypeOK, Inside, Leases, Key
  <2>8. left'[s][u] = left[s][u] - 1
    BY <1>2, <2>6, <2>7 DEF Tick, Expire, Key
  <2>9. age'[g] = IF age[g] < TTL THEN age[g] + 1 ELSE age[g]
    BY <1>2, <2>7 DEF Tick
  <2>10. age'[g] = TTL
    BY <2>2, <2>3, <2>6, <2>7, <2>8, <2>9
  <2> QED
    BY <2>4, <2>10 DEF Overstayed, StoreOf
<1>3. ASSUME Disturb(NoneLost) PROVE FALSE
  BY <1>0, <1>3, NoneLostType, DisturbSets
<1>4. disturbed' # disturbed
  OBVIOUS
<1> QED
  BY <1>1, <1>2, <1>3, <1>4 DEF Next, HandlerStep, Acquire, Skip, Find, Send, SendRaises,
     Release, ReleaseRaises, Leave, LockAcquire, CrashWorker, vars

\* A lock goes while somebody is inside only when a request has been in the
\* section for the whole lease, or when a demo client freed the user's key.
THEOREM DisturbanceHasCause == Spec => DisturbedForCause
<1>1. IInv /\ [Next]_vars =>
        [\A s \in Store : \A u \in UserId :
           u \in disturbed'[s] => u \in disturbed[s] \/ Overstayed(s, u)' \/ Freed(s, u)]_vars
  BY CauseStep
<1> QED
  BY <1>1, Invariance, PTL DEF Spec, DisturbedForCause

-----------------------------------------------------------------------------
(* Notify implements Mutex.                                                *)

LEMMA SectionInit == Init => Section!Init
BY DEF Init, Section!Init, InsidePairs, DisturbedPairs, Inside, Locked

\* A key is taken exactly when a request behind its store is inside.
LEMMA TakenIsOccupied ==
  ASSUME NEW s \in Store, NEW u \in UserId
  PROVE  Section!Taken(<<s, u>>) <=> Occupied(s, u)
<1>1. \A h \in Handler : <<h, <<s, u>>>> \in InsidePairs <=> s = StoreOf(h) /\ Inside(h, u)
  BY DEF InsidePairs
<1> QED
  BY <1>1 DEF Section!Taken, Occupied

LEMMA TakenIsOccupied2 ==
  ASSUME NEW s \in Store, NEW u \in UserId
  PROVE  Section!Taken(<<s, u>>)' <=> Occupied(s, u)'
<1>1. \A h \in Handler :
        <<h, <<s, u>>>> \in InsidePairs' <=> s = StoreOf(h) /\ Inside(h, u)'
  BY DEF InsidePairs, StoreOf
<1> QED
  BY <1>1 DEF Section!Taken, Occupied, StoreOf

LEMMA SectionStep ==
  IInv /\ [Next]_vars => [Section!Next]_<<InsidePairs, DisturbedPairs>>
<1> SUFFICES ASSUME IInv, [Next]_vars
             PROVE  [Section!Next]_<<InsidePairs, DisturbedPairs>>
  OBVIOUS
<1>0. TInv /\ TInv' /\ LeaseCoversHolder /\ OnlyOccupied /\ disturbed \in Marks
  BY TypeStep DEF IInv, TInv, TypeOK, Marks
\* Nobody moves, and locks go under somebody inside.
<1>a. ASSUME NEW lost \in Marks, Disturb(lost),
             \A g \in Handler : \A u \in UserId : Inside(g, u)' <=> Inside(g, u)
      PROVE  [Section!Next]_<<InsidePairs, DisturbedPairs>>
  <2> DEFINE K == {p \in Store \X UserId : p[2] \in lost[p[1]] /\ Occupied(p[1], p[2])}
  <2>1. InsidePairs' = InsidePairs
    BY <1>a DEF InsidePairs, StoreOf
  <2>2. \A s \in Store : \A u \in UserId :
          u \in disturbed'[s] <=> u \in disturbed[s] \/ (u \in lost[s] /\ Occupied(s, u))
    BY <1>0, <1>a, DisturbSets DEF OnlyOccupied, Occupied, StoreOf
  <2>3. DisturbedPairs' = DisturbedPairs \cup K
    BY <2>2 DEF DisturbedPairs
  <2>4. K \in SUBSET (Store \X UserId) /\ \A k \in K : Section!Taken(k)
    BY TakenIsOccupied
  <2> QED
    BY <2>1, <2>3, <2>4 DEF Section!Next, Section!Disturb
\* Some leave, and a key nobody is inside of protects again.
<1>b. ASSUME Disturb(NoneLost),
             \A g \in Handler : \A u \in UserId : Inside(g, u)' => Inside(g, u),
             InsidePairs' # InsidePairs
      PROVE  [Section!Next]_<<InsidePairs, DisturbedPairs>>
  <2> DEFINE gone == InsidePairs \ InsidePairs'
  <2>1. InsidePairs' \subseteq InsidePairs
    BY <1>b DEF InsidePairs, StoreOf
  <2>2. gone \in SUBSET InsidePairs /\ gone # {} /\ InsidePairs' = InsidePairs \ gone
    BY <1>b, <2>1
  <2>3. \A s \in Store : \A u \in UserId :
          u \in disturbed'[s] <=> u \in disturbed[s] /\ Section!Taken(<<s, u>>)'
    BY <1>0, <1>b, DisturbSets, NoneLostType, TakenIsOccupied2
  <2>4. DisturbedPairs' = {k \in DisturbedPairs : Section!Taken(k)'}
    BY <2>3 DEF DisturbedPairs
  <2> QED
    BY <2>2, <2>4 DEF Section!Next, Section!Leave
<1>1. CASE UNCHANGED vars
  BY <1>1 DEF vars, InsidePairs, DisturbedPairs, Inside
<1>2. ASSUME NEW h \in Handler, Acquire(h)
      PROVE  [Section!Next]_<<InsidePairs, DisturbedPairs>>
  <2>1. PICK u \in UserId : /\ ~ IsLocked(StoreOf(h), u)
                            /\ target' = [target EXCEPT ![h] = u]
    BY <1>2 DEF Acquire, AcquireLock
  <2>2. /\ pc[h] = "idle" /\ pc'[h] = "find" /\ target'[h] = u /\ disturbed' = disturbed
        /\ \A g \in Handler : g # h => pc'[g] = pc[g] /\ target'[g] = target[g]
    BY <1>0, <1>2, <2>1 DEF Acquire, Goto, TInv, TypeOK
  <2>3. \A g \in Handler : StoreOf(g) = StoreOf(h) => ~ Undisturbed(g, u)
    BY <1>0, <2>1 DEF LeaseCoversHolder
  <2>4. \A g \in Handler, v \in UserId :
          Inside(g, v)' <=> Inside(g, v) \/ (g = h /\ v = u)
    BY <2>2 DEF Inside, Locked
  <2> DEFINE k == <<StoreOf(h), u>>
  <2>5. InsidePairs' = InsidePairs \cup {<<h, k>>}
    <3>1. <<h, k>> \in Handler \X (Store \X UserId)
      BY StoreOfType
    <3>2. ASSUME NEW p \in Handler \X (Store \X UserId)
          PROVE  p \in InsidePairs' <=> p \in InsidePairs \/ p = <<h, k>>
      <4>1. PICK g \in Handler, s \in Store, v \in UserId : p = <<g, <<s, v>>>>
        OBVIOUS
      <4>2. p \in InsidePairs <=> s = StoreOf(g) /\ Inside(g, v)
        BY <4>1 DEF InsidePairs
      <4>3. p \in InsidePairs' <=> s = StoreOf(g) /\ Inside(g, v)'
        BY <4>1 DEF InsidePairs, StoreOf
      <4>4. p = <<h, k>> <=> g = h /\ s = StoreOf(h) /\ v = u
        BY <4>1
      <4> QED
        BY <2>4, <4>2, <4>3, <4>4
    <3> QED
      BY <3>1, <3>2 DEF InsidePairs
  <2>6. Section!Taken(k) => k \in DisturbedPairs
    <3>1. Section!Taken(k) <=> Occupied(StoreOf(h), u)
      BY TakenIsOccupied, StoreOfType
    <3>2. Occupied(StoreOf(h), u) => u \in disturbed[StoreOf(h)]
      BY <2>3 DEF Occupied, Undisturbed
    <3> QED
      BY <3>1, <3>2, StoreOfType DEF DisturbedPairs
  <2>7. k \in Store \X UserId /\ DisturbedPairs' = DisturbedPairs
    BY <2>2, StoreOfType DEF DisturbedPairs
  <2> QED
    BY <2>5, <2>6, <2>7 DEF Section!Next, Section!Enter
<1>3. ASSUME NEW h \in Handler, Skip(h) \/ Find(h) \/ Send(h) \/ SendRaises(h)
      PROVE  [Section!Next]_<<InsidePairs, DisturbedPairs>>
  <2>1. \A g \in Handler : \A u \in UserId : Inside(g, u)' <=> Inside(g, u)
    BY <1>0, <1>3 DEF Skip, Find, Send, SendRaises, Goto, Inside, Locked, TInv, TypeOK
  <2>2. disturbed' = disturbed
    BY <1>3 DEF Skip, Find, Send, SendRaises
  <2> QED
    BY <2>1, <2>2 DEF InsidePairs, DisturbedPairs, StoreOf
<1>4. ASSUME NEW h \in Handler, Release(h) \/ ReleaseRaises(h)
      PROVE  [Section!Next]_<<InsidePairs, DisturbedPairs>>
  <2>1. /\ pc[h] \in Locked /\ pc'[h] \notin Locked /\ target' = target
        /\ \A g \in Handler : g # h => pc'[g] = pc[g]
        /\ Disturb(NoneLost)
    BY <1>0, <1>4 DEF Release, ReleaseRaises, Leave, ReleaseSteps, Goto, Locked, TInv, TypeOK
  <2>2. \A g \in Handler : \A u \in UserId : Inside(g, u)' => Inside(g, u)
    BY <2>1 DEF Inside
  <2>3. InsidePairs' # InsidePairs
    <3> DEFINE p == <<h, <<StoreOf(h), target[h]>>>>
    <3>1. target[h] \in UserId /\ StoreOf(h) \in Store
      BY <1>0, <2>1, StoreOfType DEF TInv, LockedHasTarget
    <3>2. p \in InsidePairs /\ p \notin InsidePairs'
      BY <2>1, <3>1 DEF InsidePairs, Inside
    <3> QED
      BY <3>2
  <2> QED
    BY <1>b, <2>1, <2>2, <2>3
<1>5. ASSUME NEW s \in Store, NEW k \in DemoKey, LockAcquire(s, k)
      PROVE  [Section!Next]_<<InsidePairs, DisturbedPairs>>
  BY <1>5 DEF LockAcquire, InsidePairs, DisturbedPairs, Inside
<1>6. ASSUME NEW s \in Store, NEW k \in DemoKey, LockRelease(s, k)
      PROVE  [Section!Next]_<<InsidePairs, DisturbedPairs>>
  BY <1>a, <1>6, FreedType DEF LockRelease, Inside
<1>7. ASSUME NEW w \in Worker, CrashWorker(w)
      PROVE  [Section!Next]_<<InsidePairs, DisturbedPairs>>
  <2>1. \A g \in Handler : pc'[g] \in Locked => pc[g] \in Locked /\ target'[g] = target[g]
    BY <1>0, <1>7 DEF CrashWorker, Locked, TInv, TypeOK
  <2>2. PICK h \in Handler : pc[h] \in Locked /\ WorkerOf[h] = w
    BY <1>7 DEF CrashWorker
  <2>3. pc'[h] \notin Locked
    BY <1>7, <2>2 DEF CrashWorker, Locked
  <2>4. InsidePairs' # InsidePairs
    <3> DEFINE p == <<h, <<StoreOf(h), target[h]>>>>
    <3>1. target[h] \in UserId /\ StoreOf(h) \in Store
      BY <1>0, <2>2, StoreOfType DEF TInv, LockedHasTarget
    <3>2. p \in InsidePairs /\ p \notin InsidePairs'
      BY <2>2, <2>3, <3>1 DEF InsidePairs, Inside
    <3> QED
      BY <3>2
  <2> QED
    BY <1>7, <1>b, <2>1, <2>4 DEF Inside, CrashWorker
<1>8. CASE Tick
  <2> DEFINE lost == [r \in Store |-> {v \in UserId : left'[r][v] = 0}]
  <2>1. lost \in Marks /\ Disturb(lost)
    BY <1>8 DEF Tick, Marks
  <2> HIDE DEF lost
  <2> QED
    BY <1>a, <1>8, <2>1 DEF Tick, Inside
<1> QED
  BY <1>1, <1>2, <1>3, <1>4, <1>5, <1>6, <1>7, <1>8 DEF Next, HandlerStep

\* The handlers of notify are a lock for each user in each store, one that may
\* be disturbed while it is held and protects again once nobody is inside.
THEOREM NotifyImplementsMutex == Spec => ImplementsMutex
  BY Invariance, SectionInit, SectionStep, PTL
  DEF Spec, ImplementsMutex, Section!Spec, Section!vars

=============================================================================
