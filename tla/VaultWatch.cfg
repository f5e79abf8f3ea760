CONSTANTS
    plain1 = plain1
    plain2 = plain2
    dotted = dotted
    image = image
    A = A
    U = U
    Dirs = {plain1, plain2, dotted}
    Names = {image}
    Kind <- KindByDir
    Contents = {A, U}
    NonText = {U}
    Initial <- OneEmptyAtMost
    Absent = Absent
    DeletedMarker = DeletedMarker
    NoEntry = NoEntry
    Backends = {"paired", "single"}
    MaxChanges = 3
    MaxPending = 2
SPECIFICATION Spec
SYMMETRY Symmetry
INVARIANTS TypeOK QuietMeansReported KnownIsTrue
CHECK_DEADLOCK FALSE
