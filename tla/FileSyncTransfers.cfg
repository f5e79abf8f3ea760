CONSTANTS
    f1 = f1
    A = A
    B = B
    Empty = Empty
    Files = {f1}
    Contents = {A, B, Empty}
    Torn = Torn
    Absent = Absent
    DeletedSentinel = DeletedSentinel
    NoEntry = NoEntry
    NoSession = NoSession
    ChunkCount <- TwoChunks
    PageSize = 1
    IOErrors = TRUE
    Timeouts = TRUE
    MaxChanges = 2
    MaxSessions = 2
    MaxBroadcasts = 1
SPECIFICATION Spec
INVARIANTS TypeOK SameUnlessSkipped NeverTorn TransferInv
CHECK_DEADLOCK FALSE
