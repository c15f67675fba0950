-------------------------- MODULE MCTransactionalStore --------------------------
(* Values of TransactionalStore's constants for TLC.  The inputs treat all      *)
(* triples alike, so that threads, addresses and triples may be permuted.      *)
EXTENDS TransactionalStoreRefinement

Adds(t) == [op |-> "add", t |-> t]
Removes(t) == [op |-> "remove", t |-> t]

\* Change sets that may take effect whole, be refused at either change, or
\* throw at the second one.
MCChangeSets ==
    {<<Adds(t), Adds(u)>> : t, u \in Triple}
        \cup {<<Removes(t), Adds(u)>> : t \in Triple, u \in Triple \cup {Incomplete}}

\* For several threads: one change set of each kind is enough there.
MCFewChangeSets == {<<Adds(t), Removes(t)>> : t \in Triple}

MCDocuments == {<<t, u>> \in Triple \X Triple : t # u}

MCNoDocuments == {}

MCSymmetry == Permutations(Thread) \cup Permutations(Tx) \cup Permutations(Triple)
================================================================================
