CONSTANTS
  Thread = {t1}
  Loop = loop
  Owner = owner
  ThreadOps = {"send", "shutdown", "forceClose", "startRead"}
  LoopOps = {"send", "stopRead"}
  Notify = {"writeComplete", "highWaterMark"}
  MsgLen = 2
  MaxMsgs = 1
  SndBuf = 1
  HighWaterMark = 2
  MaxQueue = 2
SPECIFICATION Spec
PROPERTIES FinAfterData PeerCloseIsReported ForceCloseCloses
CHECK_DEADLOCK FALSE
