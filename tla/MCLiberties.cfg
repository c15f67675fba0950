\* One thread that writes directly under AutoTransaction, drops transactions and
\* re-enters them from slots: it may deadlock with itself or end the process.
CONSTANTS
    Thread = {th1}
    Tx = {tx1, tx2}
    Triple = {t1, t2}
    Incomplete = Incomplete
    NoTransaction = NoTransaction
    Free = Free
    DirectWriteBehaviour = "AutoTransaction"
    ChangeSets <- MCChangeSets
    Documents <- MCDocuments
    Liberties = {"reads", "reenters", "drops"}
    MaxChanges = 3
SPECIFICATION Spec
SYMMETRY MCSymmetry
PROPERTIES ChangeSetsAreHistory OutcomesAreFinal DeletionMakesRoom ImplementsIsolation
CHECK_DEADLOCK FALSE
