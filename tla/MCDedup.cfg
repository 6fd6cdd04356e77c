CONSTANTS
    iso = iso
    epoch = epoch
    NoEntry = NoEntry
    Key = {iso, epoch}
    EpochKey = {epoch}
    EventTime = {0, 1, 5}
    TTL = 3
    CleanupEvery = 1
    MaxClock = 7
    MaxRecords = 3
SPECIFICATION Spec
INVARIANTS
    DuplicatesAreTTLApart
    DroppedHasOriginal
    EntriesExpire
