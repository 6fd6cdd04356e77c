CONSTANTS
    good = good
    bad = bad
    stop = stop
    Rec = {good, bad, stop}
    Row <- MCRow
    Time <- MCTime
    Invalid = {}
    Delayed = {}
    Unix = {}
    Confirmed = {}
    Msg = {good, bad, stop}
    Key <- MCKey
    KeyOf <- MCKeyOf
    Rejected = {bad}
    Partition = {1, 2}
    MaxRaw = 2
    BatchLimit = 2
    MaxFaults = 2
    MaxMsgs = 6
SPECIFICATION PipelineSpec
INVARIANTS
    SeenMatchesSessions
    CommittedAccounted
    EndToEnd
    RerunRepairs
PROPERTIES
    StreamNeverWedges
    PipelineDrains
\* The topics are bounded and the stages wait at their ends.
CHECK_DEADLOCK FALSE
