\* Both backends, two imports, two saves, crashes at any point.
CONSTANTS
    ns1 = ns1
    fileUrl = fileUrl
    x = x
    p = p
    lit = lit
    b = b
    Namespace = {ns1, fileUrl}
    FileUrl = fileUrl
    Local = {x}
    Predicate = Predicate
    Literal = {lit}
    Label = {b}
    Prefixes = {p}
    Documents <- MCDocuments
    ChangeSets <- MCChangeSets
    Nothing = Nothing
    NoUri = NoUri
    Throws = Throws
    MaxOperations = 4
SPECIFICATION Spec
INVARIANTS TypeOK RevertUndoesChange ReadsAgree SomeCopySurvives
PROPERTIES ImportsAreAllOrNothing ImportsKeepBlankNodesApart
