SPECIFICATION FairSpec
CONSTANTS
    Key = {k1}
    Worker = {w1, w2}
    MaxAttempts = 2
    MaxRetries = 2
    Threshold = 2
INVARIANTS TypeOK OneRunner TaskHasFate
PROPERTIES TasksEnd BreakerCloses
