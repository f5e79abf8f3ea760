CONSTANTS
    f1 = f1
    f2 = f2
    A = A
    Empty = Empty
    Files = {f1, f2}
    Contents = {A, Empty}
    Torn = Torn
    Absent = Absent
    DeletedSentinel = DeletedSentinel
    NoEntry = NoEntry
    NoSession = NoSession
    ChunkCount <- TwoChunks
    PageSize = 1
    IOErrors = TRUE
    Timeouts = TRUE
    MaxChanges = 1
    MaxSessions = 1
    MaxBroadcasts = 0
SPECIFICATION FairSpec
INVARIANTS CompleteMeansHandled
PROPERTIES SyncTerminates KeepsContract
CHECK_DEADLOCK FALSE
