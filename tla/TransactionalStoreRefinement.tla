---------------------- MODULE TransactionalStoreRefinement ----------------------
(*****************************************************************************)
(* TransactionalStore as an implementation of IsolatedTransactions.  What a   *)
(* user is shown is what the wrapped store holds while the user's thread is   *)
(* at its access; the rest is the history of the current transaction.         *)
(*****************************************************************************)
EXTENDS TransactionalStore

Published == trail[1]
Working == Last(trail)
Owner == {th \in Thread : currentTx \in holds[th]}
Shown == [th \in Thread |-> IF pc[th] \in {"body", "left"} THEN {store} ELSE {}]

Promised == INSTANCE IsolatedTransactions
    WITH published <- Published, owner <- Owner, working <- Working, shown <- Shown

\* One thread gets what IsolatedTransactions promises: whatever it reads,
\* inside or outside its transaction, and whatever becomes of that, an observer
\* who only knows the promise sees nothing that contradicts it.
ImplementsIsolation == Promised!Spec

\* Several threads get the same until a read reverts the changes of a
\* transaction whose owner has not recorded the last one yet.
ImplementsIsolationUnlessRaced ==
    Promised!Init /\ [][Promised!Next \/ raced']_(Promised!view)
=================================================================================
