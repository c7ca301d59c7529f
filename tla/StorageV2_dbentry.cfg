\* A process crash before the directory of a new database is synced.
SPECIFICATION Spec
CONSTANTS
    MaxPages = 2
    MaxStatements = 2
    Starts = {"fresh"}
    ProcessCrashes = TRUE
    IoErrors = FALSE
    PowerLosses = FALSE
PROPERTIES
    EntryBeforeAcknowledge
