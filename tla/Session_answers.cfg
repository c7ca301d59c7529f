\* Statements, a kept table, failing storage calls, a v1 writer and a migration.
SPECIFICATION Spec
CONSTANTS
    Schema <- MCSchema
    Rows <- MCRows
    Values = {1, 2, 3}
    BadRows <- MCBadRows
    Projections <- MCProjections
    Filters <- MCFilters
    MaxRows = 3
INVARIANTS
    TypeOK
    SqlAnswersFile
    FilterExactOrRefused
PROPERTIES
    CopyDivergesByInsert
