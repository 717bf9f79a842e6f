CONSTANTS
  r1 = r1
  r2 = r2
  r3 = r3
  r4 = r4
  Request = {r1, r2, r3}
  User = {"ada"}
  Stranger = {"Ada"}
  Password = {"p", "q"}
  Stored <- MCStored
  Ttl <- MCTtl
  MaxTime = 2
  None = None
SYMMETRY MCSymmetry
SPECIFICATION Spec
PROPERTIES
  LogoutInvalidates
CHECK_DEADLOCK FALSE
