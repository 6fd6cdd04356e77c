CONSTANTS
    n1 = n1
    n2 = n2
    p1 = p1
    p2 = p2
    Msisdn = {n1, n2}
    Partition = {p1, p2}
    MsisdnOf <- MCMsisdnOf
    PartitionOf <- MCPartitionOf
    FlushEvery = 3
    MaxLines = 5
    MaxFaults = 3
SPECIFICATION FairSpec
INVARIANTS
    OrderPerNumber
    BackPressure
    ReportAccounted
PROPERTIES
    PublishEnds
\* The process ends.
CHECK_DEADLOCK FALSE
