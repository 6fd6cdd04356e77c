CONSTANTS
    s1 = s1
    s2 = s2
    s3 = s3
    m1 = m1
    m2 = m2
    n1 = n1
    n2 = n2
    e1 = e1
    e2 = e2
    Pool = 4
    SimEvery = 2
    DeviceEvery = 2
    Subscribers = 3
    Sessions = 3
    Spacing = 7
    Duration <- MCDuration
    Pause = 5
    SwapTime = 4
    MaxLookups = 2
    BatchSize = 1
    Session <- MCSession
    Imsi <- MCImsi
    Msisdn <- MCMsisdn
    Imei <- MCImei
    GroupOrder <- MCGroupOrder
    Scenario <- MCScenario
    Batch <- MCBatch
SPECIFICATION DetectSpec
INVARIANTS
    LoopComputesRule
    OneOpenSessionPerImsi
    SessionKeepsIdentity
    EventsAreReassignments
    SwapsRecorded
    InjectedFound
\* Every batch is done.
CHECK_DEADLOCK FALSE
