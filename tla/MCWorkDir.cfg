CONSTANTS
  r1 = r1
  r2 = r2
  r3 = r3
  WriteLen = 13
  TextLen = 2
  ReadLen = 3
  Capacity = 4
  Mapped = 5
  FileRuns = {r1, r2, r3}
  Jobs <- MCJobs
  HelloLen = 3
  ChunkLen = 2
  HoleAt = 2
SPECIFICATION FairSpec
CHECK_DEADLOCK FALSE
INVARIANTS NothingLost TextKept MappedKept
PROPERTIES AllDelivered SurvivorEnds
