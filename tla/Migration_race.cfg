\* Two migrations at once, retried, with a failure of any kind at any step.
SPECIFICATION FairSpec
CONSTANTS
    Procs = {"p", "q"}
    Inodes = {1, 2, 3, 4, 5}
    FieldCount = 2
    MaxSlots = 2
    MaxFailures = 1
INVARIANTS
    TypeOK
    OneWinner
    PromotionDurable
    NoForeignWal
PROPERTIES
    PromotesCheckedSource
    DestinationKept
    NothingLeftBehind
    MigrationsEnd
    RetryPromotes
