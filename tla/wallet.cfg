SPECIFICATION FairSpec
CONSTANTS
    Rider = {r1}
    Order = {o1}
    Payment = {p1, p2}
    Session = {s1, s2}
    Conn = {c1, c2}
    Null = Null
    OrderOf <- MCOrderOf
    WalletOf <- MCWalletOf
    Amount <- MCAmount
    Price <- MCOneFree
    InitBalance = 0
    MaxFaults = 1
INVARIANTS TypeOK BalanceIsLedger CapturedIsCredited KeysSerialised
PROPERTIES CapturedStays ActsAtomically TransactionsEnd CapturesAreCredited
CHECK_DEADLOCK FALSE
