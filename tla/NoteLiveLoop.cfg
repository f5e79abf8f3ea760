CONSTANTS
    n1 = n1
    A = A
    B = B
    Paths = {n1}
    Hashes = {A, B}
    NonText = {}
    Absent = Absent
    DeletedMarker = DeletedMarker
    NoEntry = NoEntry
    EchoesToAuthor = TRUE
    Removals = TRUE
    Overlap = TRUE
    EventsPerWrite = 1
    MaxUserChanges = 2
    MaxRemoteChanges = 0
SPECIFICATION FairSpec
PROPERTIES FeedbackEnds
CHECK_DEADLOCK FALSE
