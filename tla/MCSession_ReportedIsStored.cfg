SPECIFICATION Spec
CONSTANTS
  MaxConn = 1
  MaxReq = 1
  Commands <- Insert
  Docs = {"id"}
  AgentBuf = 32
INVARIANT ReportedIsStored
