\* Violated: a direct write under AutoTransaction returns.
CONSTANTS
    Thread = {th1}
    Tx = {tx1}
    Triple = {t1}
    Incomplete = Incomplete
    NoTransaction = NoTransaction
    Free = Free
    DirectWriteBehaviour = "AutoTransaction"
    ChangeSets <- MCFewChangeSets
    Documents <- MCNoDocuments
    Liberties = {"reads"}
    MaxChanges = 1
SPECIFICATION Spec
SYMMETRY MCSymmetry
PROPERTIES DirectWritesPersist
CHECK_DEADLOCK FALSE
