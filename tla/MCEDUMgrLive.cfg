SPECIFICATION FairSpec
CONSTANTS
  c1 = c1
  c2 = c2
  c3 = c3
  NoConn = NoConn
  EDU <- EDU3
  Conn <- Conns2
  MaxPool = 2
  ForcePeriod = 2
PROPERTY ShutdownCompletes
PROPERTY AcceptedIsAnswered
