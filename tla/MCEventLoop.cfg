CONSTANTS
  Thread = {t1, t2}
  Channel = {c1, c2}
  Wakeup = wakeup
  Task = {a, b}
  Posts <- MCPosts
  InitEvents = 1
  MaxPending = 2
SPECIFICATION Spec
INVARIANTS TypeOK NoLostWakeup
PROPERTIES RunsTasksInOrder TasksAreRun QuitStops ReadyIsHandled
CHECK_DEADLOCK FALSE
