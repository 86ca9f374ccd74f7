SPECIFICATION TrailSpec
CONSTANTS
    QueueLimit = 1
    MaxBuckets = 3
    LastTries = 3
    MaxOrder = 1
INVARIANT HonestShutdown
CHECK_DEADLOCK FALSE
