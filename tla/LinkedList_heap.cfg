\* Two queues, two stacks and a list that share a small heap.  The fourth node is
\* for copies: with it a list of two nodes is copied.
SPECIFICATION Spec
CONSTANTS
    Queues = {q, r}
    Stacks = {s, t}
    Lists = {l}
    Items = {a, b}
    Nodes = {1, 2, 3, 4}
    MaxGrown = 3
SYMMETRY Symmetry
INVARIANTS
    NoFault
    NodesOwned
    LinksAgree
    EditsInPlace
PROPERTIES
    Refinement
