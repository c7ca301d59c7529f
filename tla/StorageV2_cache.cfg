\* Process crashes and failing system calls, with the page cache intact.
SPECIFICATION Spec
CONSTANTS
    MaxPages = 3
    MaxStatements = 3
    Starts = {"fresh", "migrated", "stale-wal"}
    ProcessCrashes = TRUE
    IoErrors = TRUE
    PowerLosses = FALSE
INVARIANTS
    TypeOK
    AcknowledgedSurvive
    TornOnlyUnderWal
PROPERTIES
    NeverMadeStale
    Refinement
