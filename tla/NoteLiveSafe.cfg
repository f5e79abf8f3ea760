CONSTANTS
    n1 = n1
    n2 = n2
    A = A
    B = B
    Paths = {n1, n2}
    Hashes = {A, B}
    NonText = {}
    Absent = Absent
    DeletedMarker = DeletedMarker
    NoEntry = NoEntry
    EchoesToAuthor = TRUE
    Removals = TRUE
    Overlap = FALSE
    EventsPerWrite = 2
    MaxUserChanges = 3
    MaxRemoteChanges = 1
SPECIFICATION FairSpec
INVARIANTS TypeOK QuietMeansSame UploadsAreOurs
PROPERTIES FeedbackEnds
CHECK_DEADLOCK FALSE
