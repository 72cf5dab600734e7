SPECIFICATION FairSpec
CONSTANTS
  t1 = t1
  t2 = t2
  a = a
  b = b
  c = c
  Thread <- Threads2
  NoThread = NoThread
  Body <- Bodies2
  HasId <- Bodies2
  BodySize <- Sizes2
  PageSize = 60
  PagesPerSegment = 2
  MaxPages = 3
  MaxRestart = 0
  Fault = {"write", "mmap"}
PROPERTY InsertReturns
