CONSTANTS
  r1 = r1
  r2 = r2
  r3 = r3
  Request = {r1, r2, r3}
  RawEmail <- MCRawEmail
  Canon <- MCCanon
  Reliable = {"search", "events"}
  FormSession = FALSE
SYMMETRY MCSymmetry
SPECIFICATION Spec
INVARIANTS
  TypeOK
  OneAccountPerMailbox
  AnswerMatchesStore
  EffectsFollowPersistence
  EffectsIndependent
  AnnouncedIsIndexed
CHECK_DEADLOCK FALSE
