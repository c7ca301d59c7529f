\* A WHERE clause cut short by the keyword create.
SPECIFICATION Spec
CONSTANTS
    Words = {"create", "a", "1", "=", "and", "or", "(", ")"}
    QuotedWords = {}
    TableName = "t"
    TableFields = {"a"}
    CellValues = {"0", "1"}
    Filtering = TRUE
    MaxTokens = 18
    MaxParens = 2
INVARIANTS
    NeverUnfiltered
CHECK_DEADLOCK FALSE
