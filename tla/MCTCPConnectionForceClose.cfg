CONSTANTS
  Thread = {t1}
  Loop = loop
  Owner = owner
  ThreadOps = {"forceClose"}
  LoopOps = {}
  Notify = {}
  MsgLen = 2
  MaxMsgs = 1
  SndBuf = 1
  HighWaterMark = 2
  MaxQueue = 2
SPECIFICATION Safety
INVARIANT DestroyedWhenClosed
CHECK_DEADLOCK FALSE
