CONSTANTS
    n1 = n1
    n2 = n2
    A = A
    B = B
    Paths = {n1, n2}
    Hashes = {A, B}
    NonText = {B}
    Absent = Absent
    DeletedMarker = DeletedMarker
    NoEntry = NoEntry
    PageSize = 1
    SlowReads = FALSE
    IOErrors = FALSE
    MaxChanges = 0
    MaxSessions = 1
    MaxBroadcasts = 0
SPECIFICATION FairSpec
PROPERTIES SyncTerminates
CHECK_DEADLOCK FALSE
