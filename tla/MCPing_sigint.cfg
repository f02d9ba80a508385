CONSTANTS
  Thousand = 1000
  Million = 1000000
  Word = 65536
  Slots = 1
  ShortMod = 8
  Pid = 2
  IdMod = 4
  Foreign <- MCForeign
  MaxAttempts = 1
  MaxFails = 0
  MaxDups = 0
  MaxTwins = 0
  MaxSigs = 1
SPECIFICATION FairSpec
CHECK_DEADLOCK FALSE
PROPERTY SigintExits
