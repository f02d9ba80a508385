CONSTANTS
  Runs = {1, 2, 3}
  Programs = {"19", "20", "21", "22"}
  Nobody = 0
  Capacity = 2
  InitValue = 7
  Loops = 2
  MsgLen = 2
  MemRuns = {1, 2}
SPECIFICATION FairSpec
CHECK_DEADLOCK FALSE
INVARIANTS OneMessageEach PrintedRight NothingLeft
PROPERTIES ReceiversEnd
