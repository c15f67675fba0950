\* Two threads that share the store, scheduled fairly.  A read may revert a
\* change that is not recorded yet, and what follows may leave every thread
\* waiting for the mutex.  No symmetry, as one property is a liveness property.
CONSTANTS
    Thread = {th1, th2}
    Tx = {tx1, tx2}
    Triple = {t1}
    Incomplete = Incomplete
    NoTransaction = NoTransaction
    Free = Free
    DirectWriteBehaviour = "NoAutoTransaction"
    ChangeSets <- MCFewChangeSets
    Documents <- MCNoDocuments
    Liberties = {"reads"}
    MaxChanges = 2
SPECIFICATION FairSpec
INVARIANTS IsolatedUnlessRaced
PROPERTIES CommitsPublishTheirChangeSet ImplementsIsolationUnlessRaced EveryCallReturns
CHECK_DEADLOCK FALSE
