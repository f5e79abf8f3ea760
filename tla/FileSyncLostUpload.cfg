CONSTANTS
    f1 = f1
    A = A
    B = B
    Empty = Empty
    Files = {f1}
    Contents = {A, B, Empty}
    Torn = Torn
    Absent = Absent
    DeletedSentinel = DeletedSentinel
    NoEntry = NoEntry
    NoSession = NoSession
    ChunkCount <- TwoChunks
    PageSize = 1
    IOErrors = FALSE
    Timeouts = FALSE
    MaxChanges = 0
    MaxSessions = 2
    MaxBroadcasts = 0
SPECIFICATION Spec
INVARIANTS SyncedMeansSame
CHECK_DEADLOCK FALSE
