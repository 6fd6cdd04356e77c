CONSTANTS
    IdleLimit = 2
    StableLimit = 2
    BatchLimit = 1
    MaxPolls = 3
    Records = 1
    Earlier = 1
    MaxRunFaults = 2
SPECIFICATION FairRunSpec
INVARIANTS
    NoStageLeft
    CompleteMeansRead
PROPERTIES
    MainEnds
\* main() ends.
CHECK_DEADLOCK FALSE
