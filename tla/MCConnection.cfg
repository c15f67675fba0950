\* Two connections, two triples, and any writes of up to four changes.
CONSTANTS
    c1 = c1
    c2 = c2
    t1 = t1
    t2 = t2
    Conn = {c1, c2}
    Triple = {t1, t2}
    Incomplete = Incomplete
    NoTransaction = NoTransaction
    MaxChanges = 4
SYMMETRY Alike
SPECIFICATION Spec
CHECK_DEADLOCK FALSE
INVARIANTS TypeOK CurrentIsTheOpenOne ReadsSeeTheUnitOfWork ReplicasFollow
PROPERTIES CommitsPublishWholeUnits
