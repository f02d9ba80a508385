CONSTANTS
  n1 = n1
  n2 = n2
  n3 = n3
  n4 = n4
  n5 = n5
  Nodes = {n1, n2, n3, n4, n5}
  Null = Null
  Data = {1, 2}
  MaxCalls = 2
SPECIFICATION Spec
CHECK_DEADLOCK FALSE
SYMMETRY NodeSymmetry
INVARIANTS MemorySafe NoNodeLost
PROPERTIES KeepsPromise LoopsAdvance
