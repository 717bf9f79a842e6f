CONSTANTS
  h1 = h1
  h2 = h2
  h3 = h3
  w1 = w1
  w2 = w2
  Handler = {h1, h2, h3}
  Worker = {w1, w2}
  WorkerOf <- MCWorkerOf
  SharedLocks = TRUE
  UserId = {u1, u2}
  Registered = {u1}
  DemoKey = {u1}
  TTL = 2
  DemoTTL = 3
SPECIFICATION FairSpec
INVARIANTS
  TypeOK
PROPERTIES
  ImplementsMutex
  DisturbedForCause
  LockFreed
CHECK_DEADLOCK FALSE
