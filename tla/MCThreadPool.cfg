CONSTANTS
  Worker = {w1, w2}
  Producer = {p1, p2}
  Task = {a, b, c}
  MaxQueueSize = 1
  Nested = TRUE
SPECIFICATION Spec
INVARIANTS TypeOK TasksHaveTakers PlacesHavePushers TakenOnce
PROPERTIES StopReturns QueuedIsTaken
CHECK_DEADLOCK FALSE
