CONSTANTS
  Thread = {t1}
  Loop = loop
  Owner = owner
  ThreadOps = {"send"}
  LoopOps = {"send", "shutdown", "forceClose"}
  Notify = {}
  MsgLen = 2
  MaxMsgs = 2
  SndBuf = 1
  HighWaterMark = 2
  MaxQueue = 3
SPECIFICATION Spec
INVARIANTS TypeOK WirePrefix BufferedIsAwaited AssertionsHold
PROPERTIES FinAfterData BufferDrains
CHECK_DEADLOCK FALSE
