SPECIFICATION FairSpec
CONSTANTS
  MaxConn = 1
  MaxReq = 2
  Commands <- AllCommands
  Docs <- AllDocs
  AgentBuf = 32
INVARIANT TypeOK
INVARIANT StreamsInSync
INVARIANT BuffersHold
INVARIANT ExtractInvertsBuild
INVARIANT ReplyIsForRequest
INVARIANT AckIsTrue
INVARIANT AtMostOnce
PROPERTY CommandReturns
PROPERTY ForcedAgentEnds
