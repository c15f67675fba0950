\* Violated: someone changes an element of a list that was loaded.
CONSTANTS
    MaxObjects = 6
    Literals = {0, 1}
    DefaultLit = 0
    Graphs <- MCGraphs
    Lists <- MCLists
    MaxEdits = 1
    MaxOthers = 1
    MaxCommits = 1
SPECIFICATION Spec
CHECK_DEADLOCK FALSE
INVARIANTS ListChangesReachObjects
