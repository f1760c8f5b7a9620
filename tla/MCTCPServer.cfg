CONSTANTS
  LoopThread = {0, 1, side}
  ThreadNum = 2
  Starter = {s1}
  Conn = {c1, c2}
  MaxFds = 1
SPECIFICATION Spec
INVARIANT TypeOK
PROPERTIES NotifiedHasLoop StartReturns QueuedIsAccepted StopReturns
CHECK_DEADLOCK FALSE
