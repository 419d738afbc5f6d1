SPECIFICATION Spec
CONSTANTS
    Session = {s1}
    User = {u1}
    Connector = {c1}
    Tx = {t1}
    OcppId <- MCOcppId
    Numeric <- MCNumeric
    Null = Null
    CostPerKwh = 1
    Handler = {h1}
    Worker = {w1, w2}
    InitBalance = 1
    MinStartBalance = 1
    MaxKwh = 1
    MaxAttempts = 1
    MaxCrashes = 0
    MaxStops = 1
    Faults = {}
    Named = {TRUE}
    LateMeter = FALSE
INVARIANTS FinalCostIsDebited
CHECK_DEADLOCK FALSE
