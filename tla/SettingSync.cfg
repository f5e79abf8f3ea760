CONSTANTS
    s1 = s1
    s2 = s2
    A = A
    U = U
    Paths = {s1, s2}
    Contents = {A, U}
    NonText = {U}
    Binary = {}
    Excluded = {s2}
    Absent = Absent
    DeletedMarker = DeletedMarker
    NoEntry = NoEntry
    PageSize = 1
    QuietInSync = TRUE
    Timeouts = TRUE
    IOErrors = TRUE
    MaxChanges = 1
    MaxSessions = 2
    MaxBroadcasts = 1
SPECIFICATION FairSpec
INVARIANTS TypeOK SessionInv MissedOnlyByTimeOut
PROPERTIES KeepsContract EndsUnlessSilent
CHECK_DEADLOCK FALSE
