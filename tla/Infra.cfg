CONSTANTS
  Request = {r1, r2, r3}
  Subject = {ada, bob}
  i1 = i1
  Id = {i1, i2}
  MaxFresh = 1
  DemoPath <- MCDemoPath
SPECIFICATION Spec
INVARIANTS
  TypeOK
  InfoFitsFile
  OwnImage
PROPERTIES
  RememberKeepsPut
SYMMETRY Interchangeable
CHECK_DEADLOCK FALSE
