\* Two indexes grown to three levels, and the row stream, in one file.
SPECIFICATION Spec
CONSTANTS
    Keys = {1, 2, 3}
    LongKeys = {2, 3}
    FieldCount = 2
    Rows <- MCRows
    PayloadCells = 4
    BuiltSizes = {0, 4}
    MaxRows = 5
INVARIANTS
    EveryRowStored
PROPERTIES
    DirtyPagesCoverChanges
    NoMixtureAccepted
CHECK_DEADLOCK FALSE
