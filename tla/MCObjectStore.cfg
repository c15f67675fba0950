\* Three objects under four settings: stored, changed, and stored or loaded again.
CONSTANTS
    MaxObjects = 7
    Literals = {0, 1}
    DefaultLit = 0
    Graphs <- MCGraphs
    Lists <- MCLists
    Policies <- MCPolicies
    KeepsMap = {TRUE, FALSE}
    Unknown = TRUE
    MaxEdits = 1
    MaxCalls = 2
SPECIFICATION Spec
CHECK_DEADLOCK FALSE
INVARIANTS TypeOK LoadingGivesBackWhatWasStored NoListIsLeftBehind ReloadedObjectsAgree StoringAgainChangesNothing
PROPERTIES OnlyWhatIsAskedIsRewritten
