SPECIFICATION FairSpec
CONSTANTS
    Session = {s1, s2}
    User = {u1}
    Connector = {c1}
    Tx = {t1}
    OcppId <- MCOcppId
    Numeric <- MCNumeric
    Null = Null
    CostPerKwh = 1
    Handler = {h1}
    Worker = {w1}
    InitBalance = 1
    MinStartBalance = 1
    MaxKwh = 0
    MaxAttempts = 2
    MaxCrashes = 1
    MaxStops = 1
    Faults = {"start", "stop", "sync", "lookup", "retry"}
    Named = {TRUE}
    LateMeter = FALSE
PROPERTIES StartingResolves PolledStopResolves
CHECK_DEADLOCK FALSE
