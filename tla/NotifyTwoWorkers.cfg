CONSTANTS
  h1 = h1
  h2 = h2
  h3 = h3
  w1 = w1
  w2 = w2
  Handler = {h1, h2, h3}
  Worker = {w1, w2}
  WorkerOf <- MCWorkerOf
  SharedLocks = FALSE
  UserId = {u1, u2}
  Registered = {u1}
  DemoKey = {d1}
  TTL = 3
  DemoTTL = 4
SPECIFICATION Spec
INVARIANTS
  NotifyExclusive
CHECK_DEADLOCK FALSE
