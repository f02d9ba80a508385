CONSTANTS
  MaxRounds = 3
SPECIFICATION FairThreadsSpec
CHECK_DEADLOCK FALSE
INVARIANTS CounterExact OneLateRound
PROPERTIES MainEnds
