CONSTANTS
  r1 = r1
  r2 = r2
  r3 = r3
  r4 = r4
  Request = {r1, r2, r3, r4}
  User = {"ada", "bob"}
  Stranger = {"Ada"}
  Password = {"p", "q"}
  Stored <- MCStored
  Ttl <- MCTtl
  MaxTime = 2
  None = None
SYMMETRY MCSymmetry
SPECIFICATION Spec
INVARIANTS
  TypeOK
  NoLostUpdate
PROPERTIES
  StampedAgainOnlyByRace
  ImplementsCredentials
CHECK_DEADLOCK FALSE
