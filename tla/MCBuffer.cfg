CONSTANTS
  Name = {b1, b2}
  Base = 2
  CheapPrepend = 1
  InitialSize = 1
  ExtraBuf = 1
  Data <- MCData
  IntSize = {1, 2}
  MaxBytes = 3
SPECIFICATION Spec
INVARIANTS TypeOK IndicesInOrder MemoryBounded IntsReadBack
PROPERTY KeepsBytes
CHECK_DEADLOCK FALSE
