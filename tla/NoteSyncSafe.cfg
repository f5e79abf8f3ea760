CONSTANTS
    n1 = n1
    n2 = n2
    A = A
    B = B
    Paths = {n1, n2}
    Hashes = {A, B}
    NonText = {}
    Absent = Absent
    DeletedMarker = DeletedMarker
    NoEntry = NoEntry
    PageSize = 1
    SlowReads = TRUE
    IOErrors = TRUE
    MaxChanges = 2
    MaxSessions = 2
    MaxBroadcasts = 0
SPECIFICATION Spec
SYMMETRY Symmetry
INVARIANTS TypeOK AppliedUpToLastTime EchoTruthful CompleteMeansHandled AckedPageHandled SessionInv
PROPERTIES KeepsContract
CHECK_DEADLOCK FALSE
