SPECIFICATION Spec
CONSTANTS
  t1 = t1
  t2 = t2
  a = a
  b = b
  c = c
  Thread <- Threads1
  NoThread = NoThread
  Body <- Bodies3
  HasId <- Bodies2
  BodySize <- Sizes3
  PageSize = 126
  PagesPerSegment = 2
  MaxPages = 2
  MaxRestart = 1
  Fault = {}
INVARIANT PagesAccount
INVARIANT RecordsAreApart
PROPERTY ImplementsRecordStore
