CONSTANTS
    start1 = start1
    start2 = start2
    stop1 = stop1
    broken = broken
    lateIso = lateIso
    lateUnix = lateUnix
    Rec = {start1, start2, stop1, broken, lateIso, lateUnix}
    Row <- MCRow
    Time <- MCTime
    Invalid = {broken}
    Delayed = {lateIso, lateUnix}
    Unix = {lateUnix}
    Confirmed <- MCConfirmed
    MaxRaw = 3
    BatchLimit = 2
    MaxFaults = 0
SPECIFICATION Spec
INVARIANTS
    ActiveStartsConflict
\* The topic is bounded and S2 waits at its end.
CHECK_DEADLOCK FALSE
