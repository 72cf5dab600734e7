SPECIFICATION Spec
CONSTANTS
  t1 = t1
  t2 = t2
  a = a
  b = b
  c = c
  Thread <- Threads1
  NoThread = NoThread
  Body <- Bodies2
  HasId <- Bodies2
  BodySize <- Sizes2
  PageSize = 100
  PagesPerSegment = 1
  MaxPages = 2
  MaxRestart = 1
  Fault = {}
INVARIANT EveryPageIsLoaded
