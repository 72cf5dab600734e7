SPECIFICATION Spec
CONSTANTS
  t1 = t1
  t2 = t2
  a = a
  b = b
  c = c
  Thread <- Threads2
  NoThread = NoThread
  Body <- Bodies2
  HasId <- Bodies2
  BodySize <- Sizes2
  PageSize = 90
  PagesPerSegment = 1
  MaxPages = 2
  MaxRestart = 0
  Fault = {"write", "mmap"}
SYMMETRY ThreadSymmetry
INVARIANT TypeOK
INVARIANT PublishedIsFormatted
INVARIANT MapMatchesPages
PROPERTY ImplementsRecordStore
