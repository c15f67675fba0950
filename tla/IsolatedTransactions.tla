------------------------- MODULE IsolatedTransactions -------------------------
(*****************************************************************************)
(* What the users of a TransactionalStore are promised, without the store     *)
(* that it wraps: one transaction at a time works on contents of its own,     *)
(* nobody else is shown them before it commits, and then they replace the     *)
(* published contents at once.                                                *)
(*****************************************************************************)
EXTENDS FiniteSets

CONSTANTS
    Thread,     \* users
    Triple      \* what contents are made of

VARIABLES
    published,  \* the contents that everyone outside the transaction is shown
    owner,      \* the users with an open transaction: one, or none
    working,    \* what the open transaction has made of the published contents
    shown       \* shown[th]: the contents that the access of th finds, if it
                \* is making one

view == <<published, owner, working, shown>>

Init ==
    /\ published \in SUBSET Triple
    /\ owner = {}
    /\ working = published
    /\ shown = [th \in Thread |-> {}]

Show(th, contents) ==
    /\ shown[th] = {}
    /\ shown' = [shown EXCEPT ![th] = {contents}]
    /\ UNCHANGED <<published, owner, working>>

\* An access from outside the transaction, by anyone, and one from inside.
LookOutside(th) == Show(th, published)
LookInside(th) == owner = {th} /\ Show(th, working)

LookAway(th) ==
    /\ shown[th] # {}
    /\ shown' = [shown EXCEPT ![th] = {}]
    /\ UNCHANGED <<published, owner, working>>

Open(th) ==
    /\ owner = {}
    /\ owner' = {th}
    /\ UNCHANGED <<published, working, shown>>

\* The transaction is changed by one triple, while nobody is looking.
Alter(th) ==
    /\ owner = {th}
    /\ \A other \in Thread : shown[other] = {}
    /\ \E t \in Triple :
        \/ t \notin working /\ working' = working \cup {t}
        \/ t \in working /\ working' = working \ {t}
    /\ UNCHANGED <<published, owner, shown>>

Commit(th) ==
    /\ owner = {th}
    /\ shown[th] = {working}
    /\ published' = working
    /\ owner' = {}
    /\ shown' = [shown EXCEPT ![th] = {}]
    /\ UNCHANGED working

\* A transaction ends without a commit: it is rolled back, which makes its
\* thread look at the published contents, or forgotten before its first change.
Discard(th) ==
    /\ owner = {th}
    /\ \/ shown[th] = {published}
       \/ shown[th] = {} /\ working = published
    /\ working' = published
    /\ owner' = {}
    /\ shown' = [shown EXCEPT ![th] = {}]
    /\ UNCHANGED published

Next ==
    \E th \in Thread :
        \/ LookOutside(th) \/ LookInside(th) \/ LookAway(th)
        \/ Open(th) \/ Alter(th) \/ Commit(th) \/ Discard(th)

Spec == Init /\ [][Next]_view
===============================================================================
