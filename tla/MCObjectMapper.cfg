\* A parent with a child, new or loaded; the client, its slots and others change it.
CONSTANTS
    MaxObjects = 6
    Literals = {0, 1}
    DefaultLit = 0
    Graphs <- MCGraphs
    Lists <- MCLists
    MaxEdits = 2
    MaxOthers = 2
    MaxCommits = 2
SPECIFICATION Spec
CHECK_DEADLOCK FALSE
INVARIANTS TypeOK InStep MapsAgree
PROPERTIES DestroyedObjectsLeaveTheStore
