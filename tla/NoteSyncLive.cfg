CONSTANTS
    n1 = n1
    n2 = n2
    A = A
    B = B
    Paths = {n1, n2}
    Hashes = {A, B}
    NonText = {}
    Absent = Absent
    DeletedMarker = DeletedMarker
    NoEntry = NoEntry
    PageSize = 2
    SlowReads = FALSE
    IOErrors = TRUE
    MaxChanges = 1
    MaxSessions = 1
    MaxBroadcasts = 1
SPECIFICATION FairSpec
PROPERTIES SyncTerminates
INVARIANTS EchoTruthful
CHECK_DEADLOCK FALSE
