SPECIFICATION FairSpec
CONSTANTS
    Handler = {h1}
    Webhook = {h1}
    Goroutine = {g1}
    Sub = {s1, s2}
    Null = Null
    Buffer = 1
INVARIANTS TypeOK EndIsSeen NoWriteAfterClose
PROPERTIES HubMoves
CHECK_DEADLOCK FALSE
