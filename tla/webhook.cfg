SPECIFICATION WebhookSpec
CONSTANTS
    Session = {s1}
    User = {u1}
    Connector = {c1, c2}
    Tx = {t1}
    OcppId <- MCOcppId
    Numeric <- MCKeys
    Null = Null
    CostPerKwh = 1
    Handler = {h1}
    Worker = {w1}
    Delivery = {d1}
    MaxEvents = 2
    InitBalance = 2
    MinStartBalance = 1
    MaxKwh = 1
    MaxAttempts = 1
    MaxCrashes = 0
    MaxStops = 1
    Faults = {}
    Named = {TRUE}
    LateMeter = FALSE
SYMMETRY Symmetry
CONSTRAINT NoTwins
INVARIANTS WebhookTypeOK DebitsSettled PaysForItsOwn
PROPERTIES StoppedIsFinal
CHECK_DEADLOCK FALSE
