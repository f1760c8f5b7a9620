SPECIFICATION Spec
INVARIANTS TypeOK AttemptIsWatched RetriesUntilConnected
PROPERTY ConnectsAtLast
CHECK_DEADLOCK FALSE
