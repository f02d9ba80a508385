CONSTANTS
  Thousand = 1000
  Million = 1000000
  Word = 65536
  Slots = 2
  ShortMod = 8
  Pid = 2
  IdMod = 4
  Foreign <- MCForeign
  MaxAttempts = 4
  MaxFails = 1
  MaxDups = 1
  MaxTwins = 1
  MaxSigs = 2
SPECIFICATION Spec
CHECK_DEADLOCK FALSE
INVARIANTS NoStaleEintr ReceivedAccounted SummaryTimeMeasured SummaryRight
