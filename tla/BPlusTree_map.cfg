\* One multimap: inserted into, erased from, copied and cleared in any order.
SPECIFICATION Spec
CONSTANTS
    Keys = {1, 2, 3, 4, 5, 6}
    ListKeys = {2}
    MaxValues = 1
INVARIANTS
    NodesOwnedOnce
    WellFormed
    IterationOrderedAndComplete
    LookupsAgree
PROPERTIES
    Refinement
