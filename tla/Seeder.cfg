CONSTANTS
  Run = {r1, r2, r3}
  SignUpAddress = {"root", "someone"}
SPECIFICATION FairSpec
INVARIANTS
  TypeOK
  WaitsForward
PROPERTIES
  ImplementsSeeding
  RunsEnd
CHECK_DEADLOCK FALSE
