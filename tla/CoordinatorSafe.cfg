CONSTANTS
    Enabled <- NotesAndFiles
    MaxRetries = 1
    Timeouts = TRUE
    HandlerErrors = TRUE
    MaxChanges = 2
    MaxFailures = 2
    MaxDrops = 1
    MaxRestarts = 1
SPECIFICATION FairSpec
INVARIANTS TypeOK GivesUpRightly NotesUpToLast  ForgottenOnlyIfPassed
PROPERTIES NotesCatchUp
CHECK_DEADLOCK FALSE
