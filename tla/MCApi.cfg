SPECIFICATION FairSpec
CHECK_DEADLOCK FALSE
CONSTANTS
    verify = verify
    date = date
    check = check
    Null = Null
    bad = bad
    s1 = s1
    s2 = s2
    number = number
    Req = {verify, date, check, bad}
    Kind <- MCKind
    Session <- MCSession
    Swap <- MCSwap
    PoolSize = 1
    Day = 1
    MaxTime = 2
INVARIANTS
    NoLostWakeup
    VerifyIsCurrent
    SwapIsLatest
PROPERTIES
    RequestsEnd
