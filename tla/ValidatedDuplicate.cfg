CONSTANTS
  r1 = r1
  r2 = r2
  r3 = r3
  Request = {r1, r2}
  RawEmail <- MCRawEmail
  Canon <- MCCanon
  Reliable = {"search", "broadcast", "events"}
  FormSession = FALSE
SPECIFICATION Spec
PROPERTIES
  ValidatedDuplicateRejected
CHECK_DEADLOCK FALSE
