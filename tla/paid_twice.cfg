SPECIFICATION WebhookSpec
CONSTANTS
    Session = {s1, s2}
    User = {u1}
    Connector = {c1}
    Tx = {t1}
    OcppId <- MCOcppId
    Numeric <- MCNumeric
    Null = Null
    CostPerKwh = 1
    Handler = {h1}
    Worker = {w1}
    Delivery = {d1}
    MaxEvents = 2
    InitBalance = 2
    MinStartBalance = 1
    MaxKwh = 1
    MaxAttempts = 1
    MaxCrashes = 0
    MaxStops = 0
    Faults = {}
    Named = {TRUE}
    LateMeter = FALSE
INVARIANTS TransactionPaidOnce
CHECK_DEADLOCK FALSE
