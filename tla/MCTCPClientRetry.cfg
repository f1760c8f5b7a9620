SPECIFICATION Safety
PROPERTY UpMeansConnected
CHECK_DEADLOCK FALSE
