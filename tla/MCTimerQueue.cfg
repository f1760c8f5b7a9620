CONSTANTS
  Timer = {1, 2, 3}
  Interval <- MCInterval
  MaxTime = 2
  MaxSets = 1
  MaxQueue = 1
SPECIFICATION Spec
INVARIANTS TypeOK ArmedForFirst OwnedOnce NothingFails
PROPERTY TimersRun
CHECK_DEADLOCK FALSE
