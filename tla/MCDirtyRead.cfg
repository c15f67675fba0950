\* Violated: two threads, isolation of direct reads.
CONSTANTS
    Thread = {th1, th2}
    Tx = {tx1}
    Triple = {t1}
    Incomplete = Incomplete
    NoTransaction = NoTransaction
    Free = Free
    DirectWriteBehaviour = "NoAutoTransaction"
    ChangeSets <- MCFewChangeSets
    Documents <- MCNoDocuments
    Liberties = {"reads"}
    MaxChanges = 1
SPECIFICATION Spec
SYMMETRY MCSymmetry
INVARIANTS DirectReadsAreIsolated
CHECK_DEADLOCK FALSE
