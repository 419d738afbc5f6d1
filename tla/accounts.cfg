SPECIFICATION FairSpec
CONSTANTS
    Phone = {p1}
    Request = {r1, r2}
    Code = {k1, k2}
    Null = Null
    OtpTTL = 1
    RefreshTTL = 1
    MaxTime = 1
    MaxOtps = 2
INVARIANTS TypeOK OtpLogsInOnce UsersHaveWallets LogoutLasts CommandsAreAuthorised
PROPERTIES NewestCodeSurvives RequestsEnd
