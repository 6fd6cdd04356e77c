CONSTANTS
    IdleLimit = 6
    StableLimit = 2
    BatchLimit = 2
    MaxPolls = 8
    Records = 2
    Earlier = 0
    MaxRunFaults = 0
SPECIFICATION RunSpec
INVARIANTS
    CompleteMeansProcessed
\* main() ends.
CHECK_DEADLOCK FALSE
