CONSTANTS
  Worker = {w1, w2}
  Migrator = m
  CreateOrder <- MCCreateOrder
  Optional = {"search"}
  AccessLog = TRUE
  MaxDeaths = 1
  MaxMigrates = 2
SPECIFICATION Spec
INVARIANTS
  TypeOK
  ServingIsReady
  OneWorkerCreates
PROPERTIES
  AllServe
CHECK_DEADLOCK FALSE
