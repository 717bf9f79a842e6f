CONSTANTS
  Writer = {v1, v2, v3}
  MaxInitial = 3
  PerPage = {1, 2}
  MaxPages = 8
SPECIFICATION Spec
INVARIANTS
  TypeOK
  WalkSeesAll
  PagesAscend
PROPERTIES
  WalkMissesFew
CHECK_DEADLOCK FALSE
