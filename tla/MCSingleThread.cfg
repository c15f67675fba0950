\* One thread that uses the store as its documentation asks.
CONSTANTS
    Thread = {th1}
    Tx = {tx1, tx2}
    Triple = {t1, t2}
    Incomplete = Incomplete
    NoTransaction = NoTransaction
    Free = Free
    DirectWriteBehaviour = "NoAutoTransaction"
    ChangeSets <- MCChangeSets
    Documents <- MCDocuments
    Liberties = {"reads"}
    MaxChanges = 3
SPECIFICATION Spec
SYMMETRY MCSymmetry
INVARIANTS TypeOK DirectReadsAreIsolated TransactionsSeeTheirChanges ContextSwitchesSucceed MutexIsReleased OneOpenTransaction
PROPERTIES CommitsPublishTheirChangeSet ImplementsIsolation
