CONSTANTS
  Writer = {w1, w2}
  Searcher = {s1}
  Raw <- MCRaw
  Canon <- MCCanon
  Limit = 2
  MaxId = 3
SPECIFICATION FairSpec
INVARIANTS
  TypeOK
  HitsAreUsers
  HitsMatchQuery
  WriterFindsUser
  LastWordIsRow
PROPERTIES
  IndexCatchesUp
CHECK_DEADLOCK FALSE
