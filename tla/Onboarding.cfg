CONSTANTS
  Request = {r1, r2}
  RawEmail <- MCRawEmail
  Canon <- MCCanon
  Reliable = {"search", "events"}
  FormSession = TRUE
  MaxRetries = 1
SPECIFICATION OnboardingSpec
INVARIANTS
  MailsPerMailbox
PROPERTIES
  Welcomed
  ImplementsClaims
  Answered
CHECK_DEADLOCK FALSE
