SPECIFICATION Spec
CONSTANTS
    Session = {s1}
    User = {u1}
    Connector = {c1}
    Tx = {t1, t2}
    OcppId <- MCSwapped
    Numeric <- MCKeys
    Null = Null
    CostPerKwh = 1
    Handler = {h1}
    Worker = {w1, w2}
    InitBalance = 2
    MinStartBalance = 1
    MaxKwh = 1
    MaxAttempts = 1
    MaxCrashes = 1
    MaxStops = 1
    Faults = {"start", "stop", "sync", "lookup", "poll", "retry"}
    Named = {TRUE}
    LateMeter = FALSE
SYMMETRY Symmetry
INVARIANTS TypeOK IInv WalletConserved PaysItsMeter FailedIsUntouched
PROPERTIES StatusFollowsStateMachine RefWriteOnce KeepsBillingContract
CHECK_DEADLOCK FALSE
