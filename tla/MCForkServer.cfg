CONSTANTS
  Programs <- MCPrograms
  Conns = {c1, c2}
  NoConn = NoConn
  Backlog = 1
  BufLen = 2
  MaxProcs = 3
  MaxMsgs = 1
  MsgLens = {2}
  MaxErrors = 1
  MaxKills = 1
SPECIFICATION FairSpec
CHECK_DEADLOCK FALSE
INVARIANTS OneReader NoDescriptorLeak BytesReportedOnce
PROPERTIES WaitEnds ConnectionReleased
