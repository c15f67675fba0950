\* Violated: a list that loses its first element is replaced, without blank nodes.
CONSTANTS
    MaxObjects = 7
    Literals = {0, 1}
    DefaultLit = 0
    Graphs <- MCOneList
    Lists <- MCTails
    Policies <- MCNoBlankNodes
    KeepsMap = {TRUE}
    Unknown = FALSE
    MaxEdits = 1
    MaxCalls = 2
SPECIFICATION Spec
CHECK_DEADLOCK FALSE
INVARIANTS ListsAreReplaced
