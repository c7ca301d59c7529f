\* Every WHERE clause of up to three comparisons and four parentheses.
SPECIFICATION Spec
CONSTANTS
    Words = {"a", "1", "=", "and", "or", "(", ")"}
    QuotedWords = {}
    TableName = "t"
    TableFields = {"a"}
    CellValues = {"0", "1"}
    Filtering = TRUE
    MaxTokens = 18
    MaxParens = 4
INVARIANTS
    WellFormedAnswered
    NeverUnfiltered
CHECK_DEADLOCK FALSE
