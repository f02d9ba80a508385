CONSTANTS
  Thousand = 1000
  Million = 1000000
  Word = 65536
  Slots = 2
  ShortMod = 16
  Pid = 2
  IdMod = 4
  Foreign <- MCForeign
  MaxAttempts = 5
  MaxFails = 2
  MaxDups = 0
  MaxTwins = 0
  MaxSigs = 2
SPECIFICATION FairSpec
CHECK_DEADLOCK FALSE
INVARIANTS TableKeepsProbes NoEntryLeak LeaksOnlyOnFailure AnswersMatched
PROPERTIES AbsSpec StopsAfterSigint
