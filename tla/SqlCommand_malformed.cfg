\* Parentheses in the wrong place, without the keyword create.
SPECIFICATION Spec
CONSTANTS
    Words = {"a", "1", "=", "and", "or", "(", ")"}
    QuotedWords = {}
    TableName = "t"
    TableFields = {"a"}
    CellValues = {"0", "1"}
    Filtering = TRUE
    MaxTokens = 18
    MaxParens = 2
INVARIANTS
    MalformedWhereRejected
CHECK_DEADLOCK FALSE
