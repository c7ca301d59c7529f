\* Power losses alone: what was not synced may be lost, torn or kept.
SPECIFICATION FairSpec
CONSTANTS
    MaxPages = 3
    MaxStatements = 2
    Starts = {"fresh", "migrated", "stale-wal"}
    ProcessCrashes = FALSE
    IoErrors = FALSE
    PowerLosses = TRUE
PROPERTIES
    NeverRolledBack
    AcknowledgedOnDisk
    WalOnDiskBeforePages
    EntryBeforeAcknowledge
    Refinement
    StatementsEnd
    RetriesRepair
