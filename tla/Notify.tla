------------------------------- MODULE Notify -------------------------------
(***************************************************************************)
(* POST /api/users/{id}/notify: send the welcome notification under a lock *)
(* that the handler takes without waiting and that expires by itself, and  *)
(* the demo endpoints POST and DELETE /api/infra/lock/{key}, which work on *)
(* the same LockContract.                                                  *)
(*                                                                         *)
(* The server is a set of worker processes.  LOCK_DRIVER=memory keeps the  *)
(* locks inside each process, LOCK_DRIVER=redis shares them and they       *)
(* outlive the process.  Time passes in ticks: `left` counts down for each *)
(* held lock, `age` up for each handler inside the locked section, which   *)
(* nothing in the code makes shorter than the lease.  `disturbed` is a     *)
(* history variable: the users whose lock went while somebody was inside.  *)
(***************************************************************************)
EXTENDS Naturals, FiniteSets

CONSTANTS
  Handler,     \* notify requests
  Worker,      \* processes of the server
  WorkerOf,    \* the process that serves each request
  SharedLocks, \* whether the lock driver is shared by the processes
  UserId,      \* the ids requests name; a lock key is made of the id
  Registered,  \* the ids that have a row
  DemoKey,     \* the keys clients of the demo endpoints use
  TTL,         \* ttl of notify's lock
  DemoTTL      \* ttl of the demo endpoint's lock

ASSUME NotifyAssumption ==
  /\ WorkerOf \in [Handler -> Worker]
  /\ SharedLocks \in BOOLEAN
  /\ Registered \subseteq UserId
  /\ TTL \in Nat \ {0}
  /\ DemoTTL \in Nat \ {0}

VARIABLES
  pc,      \* where each request is in the handler
  target,  \* the user id each request names, NoUser before
  left,    \* what is left of the lease of each key in each lock store
  age,     \* how long each request has been in the locked section, up to TTL
  sent,    \* the requests whose notification was handed to the mail channel
  disturbed \* history: the users of each store whose lock went while a
            \* request was inside, until none is

vars == <<pc, target, left, age, sent, disturbed>>

NoUser == "no user"
Redis  == "redis"
Store  == IF SharedLocks THEN {Redis} ELSE Worker
Key    == UserId \cup DemoKey

\* The store behind the LockContract a request is injected with.
StoreOf(h) == IF SharedLocks THEN Redis ELSE WorkerOf[h]

Locked == {"find", "send", "release404", "release200", "release500"}

Inside(h, u)   == pc[h] \in Locked /\ target[h] = u
Occupied(s, u) == \E h \in Handler : StoreOf(h) = s /\ Inside(h, u)

Init ==
  /\ pc = [h \in Handler |-> "idle"]
  /\ target = [h \in Handler |-> NoUser]
  /\ left = [s \in Store |-> [k \in Key |-> 0]]
  /\ age = [h \in Handler |-> 0]
  /\ sent = {}
  /\ disturbed = [s \in Store |-> {}]

-----------------------------------------------------------------------------
(* LockContract.  acquire() succeeds when the key is free or its lease ran *)
(* out; release() takes the key only, so it frees whatever lease is there. *)

IsLocked(s, k) == left[s][k] > 0

\* Variant with a bug: the lock is taken whoever holds it.
AcquireAnyway(s, k, t) == left' = [left EXCEPT ![s][k] = t]

\* Variant with a bug: the lease is shorter than its ttl.
AcquireShort(s, k, t) ==
  ~ IsLocked(s, k) /\ left' = [left EXCEPT ![s][k] = t - 1]

AcquireLock(s, k, t) == ~ IsLocked(s, k) /\ left' = [left EXCEPT ![s][k] = t]
ReleaseLock(s, k)    == left' = [left EXCEPT ![s][k] = 0]

-----------------------------------------------------------------------------
(* The history: the locks in `lost` go in this step; what nobody is inside *)
(* of any more is forgotten.                                               *)
NoneLost == [s \in Store |-> {}]

Disturb(lost) ==
  disturbed' = [s \in Store |-> {u \in disturbed[s] \cup lost[s] : Occupied(s, u)'}]

-----------------------------------------------------------------------------
Goto(h, step) == pc' = [pc EXCEPT ![h] = step]

Acquire(h) ==
  /\ pc[h] = "idle"
  /\ \E u \in UserId :
       /\ AcquireLock(StoreOf(h), u, TTL)
       /\ target' = [target EXCEPT ![h] = u]
  /\ Goto(h, "find")
  /\ UNCHANGED <<age, sent, disturbed>>

\* The lock is held: answer "skipped" at once.
Skip(h) ==
  /\ pc[h] = "idle"
  /\ \E u \in UserId :
       /\ IsLocked(StoreOf(h), u)
       /\ target' = [target EXCEPT ![h] = u]
  /\ Goto(h, "skipped")
  /\ UNCHANGED <<left, age, sent, disturbed>>

\* Variant with a bug: the lock covers the lookup only.
FindAndRelease(h) ==
  /\ pc[h] = "find"
  /\ ReleaseLock(StoreOf(h), target[h])
  /\ Goto(h, IF target[h] \in Registered THEN "send" ELSE "release404")
  /\ UNCHANGED <<target, age, sent, disturbed>>

\* The query finds the row or none, or it raises.
Find(h) ==
  /\ pc[h] = "find"
  /\ \/ Goto(h, IF target[h] \in Registered THEN "send" ELSE "release404")
     \/ Goto(h, "release500")
  /\ UNCHANGED <<target, left, age, sent, disturbed>>

\* The dispatcher has one channel, mail.
Send(h) ==
  /\ pc[h] = "send"
  /\ sent' = sent \cup {h}
  /\ Goto(h, "release200")
  /\ UNCHANGED <<target, left, age, disturbed>>

\* The mail channel raises, before or after the server took the message, or
\* the mail is sent and the notification's other channel, database, raises.
SendRaises(h) ==
  /\ pc[h] = "send"
  /\ sent' \in {sent, sent \cup {h}}
  /\ Goto(h, "release500")
  /\ UNCHANGED <<target, left, age, disturbed>>

ReleaseSteps == {"release404", "release200", "release500"}

Leave(h) ==
  /\ age' = [age EXCEPT ![h] = 0]
  /\ UNCHANGED <<target, sent>>
  /\ Disturb(NoneLost)

\* finally: every way out of the try block releases the lock.
Release(h) ==
  /\ pc[h] \in ReleaseSteps
  /\ ReleaseLock(StoreOf(h), target[h])
  /\ Goto(h, [release200 |-> "sent", release404 |-> "notfound", release500 |-> "error"][pc[h]])
  /\ Leave(h)

\* The lock driver fails before it released the lock: the lease stays.
ReleaseRaises(h) ==
  /\ pc[h] \in ReleaseSteps
  /\ Goto(h, "error")
  /\ Leave(h)
  /\ UNCHANGED left

-----------------------------------------------------------------------------
\* The demo endpoints, served by any process.  Any key may be named, the key
\* of a user's notifications among them.
LockAcquire(s, k) ==
  /\ AcquireLock(s, k, DemoTTL)
  /\ UNCHANGED <<pc, target, age, sent, disturbed>>

LockRelease(s, k) ==
  /\ ReleaseLock(s, k)
  /\ UNCHANGED <<pc, target, age, sent>>
  /\ Disturb([NoneLost EXCEPT ![s] = {k} \cap UserId])

\* A worker process dies with the requests it serves and, under the memory
\* driver, with its locks.  Nothing runs the `finally` blocks.
CrashWorker(w) ==
  LET dying == {h \in Handler : WorkerOf[h] = w /\ pc[h] \in Locked}
  IN  /\ dying # {}
      /\ pc' = [h \in Handler |-> IF h \in dying THEN "crashed" ELSE pc[h]]
      /\ age' = [h \in Handler |-> IF h \in dying THEN 0 ELSE age[h]]
      /\ left' = IF SharedLocks THEN left
                 ELSE [left EXCEPT ![w] = [k \in Key |-> 0]]
      /\ UNCHANGED <<target, sent>>
      /\ Disturb(NoneLost)

\* Variant with a bug: the count runs on below zero.
ExpireBelowZero(n) == n - 1

\* Variant with a bug: a lease does not expire.
ExpireNever(n) == n

Expire(n) == IF n > 0 THEN n - 1 ELSE 0

\* Time passes whatever the handlers do.  Bound: age is counted up to TTL.
Tick ==
  /\ left' = [s \in Store |-> [k \in Key |-> Expire(left[s][k])]]
  /\ age' = [h \in Handler |->
               IF pc[h] \in Locked /\ age[h] < TTL THEN age[h] + 1 ELSE age[h]]
  /\ UNCHANGED <<pc, target, sent>>
  /\ Disturb([s \in Store |-> {u \in UserId : left'[s][u] = 0}])

-----------------------------------------------------------------------------
HandlerStep(h) == Find(h) \/ Send(h) \/ SendRaises(h) \/ Release(h) \/ ReleaseRaises(h)

Next ==
  \/ \E h \in Handler : Acquire(h) \/ Skip(h) \/ HandlerStep(h)
  \/ \E s \in Store, k \in DemoKey : LockAcquire(s, k) \/ LockRelease(s, k)
  \/ \E w \in Worker : CrashWorker(w)
  \/ Tick

Spec == Init /\ [][Next]_vars

\* Coroutines are resumed and clocks advance.
FairSpec ==
  /\ Spec
  /\ \A h \in Handler : WF_vars(HandlerStep(h))
  /\ WF_vars(Tick)

-----------------------------------------------------------------------------
Steps == Locked \cup {"idle", "skipped", "sent", "notfound", "error", "crashed"}

TypeOK ==
  /\ pc \in [Handler -> Steps]
  /\ target \in [Handler -> UserId \cup {NoUser}]
  /\ left \in [Store -> [Key -> Nat]]
  /\ age \in [Handler -> 0..TTL]
  /\ sent \subseteq Handler
  /\ disturbed \in [Store -> SUBSET UserId]

\* Two requests never notify the same user at the same time.
NotifyExclusive ==
  \A g, h \in Handler, u \in UserId : Inside(g, u) /\ Inside(h, u) => g = h

Undisturbed(h, u) == Inside(h, u) /\ u \notin disturbed[StoreOf(h)]

\* Requests behind one lock store never notify the same user at the same time,
\* unless the lock went while one of them was inside: what the lock gives
\* whatever its driver is and however long a send takes.
ExclusivePerStore ==
  \A g, h \in Handler, u \in UserId :
    StoreOf(g) = StoreOf(h) /\ Undisturbed(g, u) /\ Inside(h, u) => g = h

\* A handler inside an undisturbed section is covered by a lease of its own,
\* so its `finally` never frees the lock of a request that came after it.
LeaseCoversHolder ==
  \A h \in Handler, u \in UserId :
    Undisturbed(h, u) => /\ IsLocked(StoreOf(h), u)
                         /\ left[StoreOf(h)][u] + age[h] >= TTL

\* A section is disturbed for one of two causes only: some request has been in
\* it as long as the lease, or a client of the demo endpoint freed its key.
Overstayed(s, u) == \E h \in Handler : StoreOf(h) = s /\ Inside(h, u) /\ age[h] = TTL
Freed(s, u)      == u \in DemoKey /\ LockRelease(s, u)

DisturbedForCause ==
  [][\A s \in Store : \A u \in UserId :
       u \in disturbed'[s] => u \in disturbed[s] \/ Overstayed(s, u)' \/ Freed(s, u)]_vars

\* Seen from outside, the handlers share mutual-exclusion locks, one for each
\* user in each lock store.
InsidePairs ==
  {p \in Handler \X (Store \X UserId) :
     p[2][1] = StoreOf(p[1]) /\ Inside(p[1], p[2][2])}

DisturbedPairs == {p \in Store \X UserId : p[2] \in disturbed[p[1]]}

Section ==
  INSTANCE Mutex WITH Party <- Handler, Key <- Store \X UserId,
                      inside <- InsidePairs, disturbed <- DisturbedPairs

ImplementsMutex == Section!Spec

\* Even a crashed worker blocks a user's notifications for a while only.
LockFreed ==
  \A s \in Store, u \in UserId : IsLocked(s, u) ~> ~ IsLocked(s, u)

=============================================================================
