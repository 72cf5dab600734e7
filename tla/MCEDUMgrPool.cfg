SPECIFICATION Spec
CONSTANTS
  c1 = c1
  c2 = c2
  c3 = c3
  NoConn = NoConn
  EDU <- EDU4
  Conn <- Conns3
  MaxPool = 2
  ForcePeriod = 2
SYMMETRY ConnSymmetry
INVARIANT TypeOK
INVARIANT QueuesMatchStatus
INVARIANT OneWork
INVARIANT PoolBound
INVARIANT ThreadHasBlock
INVARIANT DestroyAllIsComplete
INVARIANT HandedIsKept
INVARIANT OpenIsOwned
PROPERTY LifeCycles
