\* A process crash before the WAL is synced, then recovery.
SPECIFICATION Spec
CONSTANTS
    MaxPages = 2
    MaxStatements = 2
    Starts = {"fresh"}
    ProcessCrashes = TRUE
    IoErrors = FALSE
    PowerLosses = FALSE
PROPERTIES
    WalOnDiskBeforePages
