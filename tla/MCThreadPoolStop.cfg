CONSTANTS
  Worker = {w1, w2}
  Producer = {p1}
  Task = {a, b}
  MaxQueueSize = 1
  Nested = FALSE
SPECIFICATION Safety
INVARIANT AllTakenAtStop
CHECK_DEADLOCK FALSE
