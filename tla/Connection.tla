------------------------------- MODULE Connection -------------------------------
(* Connections to one TransactionalStore, each used by a thread of its own: a    *)
(* transaction is started by the first write of a unit of work and kept in m_tx  *)
(* until commit or rollback.                                                     *)
(*                                                                               *)
(* The store is the one that IsolatedTransactions promises: a call through it is *)
(* one step.  A commit takes two, as it signals after it has unlocked.           *)
EXTENDS Integers, Sequences, FiniteSets, SequencesExt

CONSTANTS
    Conn,       \* the connections
    Triple,     \* complete triples
    Incomplete, \* a triple of three nodes that is no statement, which the store throws for
    MaxChanges, \* bound on the changes that are made in a run
    NoTransaction

ASSUME ConnectionConstants ==
    /\ Incomplete \notin Triple /\ NoTransaction \notin Conn
    /\ MaxChanges \in Nat

VARIABLES
    published,  \* the contents that are seen outside the transaction
    working,    \* the contents with the transaction's changes
    current,    \* the connection whose transaction is the store's m_currentTx
    tx,         \* the state of the transaction that m_tx of each points to
    changes,    \* m_changes of that transaction
    deleted,    \* the connections that were deleted
    terminated, \* an exception left a destructor, which ends the process
    replica,    \* contents that a client keeps by applying the signalled changes
    overlapped, \* history: a commit came before the signal of another
    unit,       \* history: what each unit of work changed, in order
    made        \* history: how many changes were made

store == <<published, working, current>>
vars == <<store, tx, changes, deleted, terminated, replica, overlapped, unit, made>>

\* A store holds finitely many triples, and a document lists as many.
Contents == {S \in SUBSET Triple : IsFiniteSet(S)}
Change == [op : {"add", "remove"}, t : Triple \cup {Incomplete}]
CompleteChange == [op : {"add", "remove"}, t : Triple]
TxStates == {"none", "open", "committing", "abandoned"}

TypeOK ==
    /\ published \in Contents /\ working \in Contents /\ replica \in Contents
    /\ current \in Conn \cup {NoTransaction}
    /\ tx \in [Conn -> TxStates]
    /\ changes \in [Conn -> Seq(CompleteChange)]
    /\ unit \in [Conn -> Seq(CompleteChange)]
    /\ deleted \subseteq Conn
    /\ terminated \in BOOLEAN /\ overlapped \in BOOLEAN
    /\ made \in 0..MaxChanges

-------------------------------------------------------------------------------
(* A write through a transaction: single changes, one after the other.  One is   *)
(* refused if the triple is there already, or not there; onRefusal says whether  *)
(* the write goes on, stops and throws, or throws so that the transaction is     *)
(* rolled back.                                                                  *)

Effective(T, c) == (c.op = "add") = (c.t \notin T)
Effect(T, c) == IF c.op = "add" THEN T \cup {c.t} ELSE T \ {c.t}
Applied(T, cs) == FoldLeft(Effect, T, cs)

\* Mutant: incomplete triples are not noticed.
WritesAnything(state, c, onRefusal) ==
    IF state.outcome # "returns" THEN state
    ELSE [state EXCEPT !.contents = Effect(@, c), !.done = Append(@, c)]

WriteOne(state, c, onRefusal) ==
    IF state.outcome # "returns" THEN state
    ELSE IF c.t = Incomplete THEN [state EXCEPT !.outcome = "abandons"]
    ELSE IF Effective(state.contents, c)
    THEN [state EXCEPT !.contents = Effect(@, c), !.done = Append(@, c)]
    ELSE [state EXCEPT !.outcome = onRefusal]

RunWrite(T, todo, onRefusal) ==
    FoldLeft(LAMBDA state, c : WriteOne(state, c, onRefusal),
             [contents |-> T, done |-> <<>>, outcome |-> "returns"], todo)

Flip(c) == [c EXCEPT !.op = IF @ = "add" THEN "remove" ELSE "add"]
Inverted(cs) == [i \in 1..Len(cs) |-> Flip(cs[Len(cs) + 1 - i])]
AddAll(S) == [i \in 1..Cardinality(S) |-> [op |-> "add", t |-> SetToSeq(S)[i]]]
RemoveAll(S) == [i \in 1..Cardinality(S) |-> [op |-> "remove", t |-> SetToSeq(S)[i]]]

-------------------------------------------------------------------------------
(* The transactional store.                                                      *)

Alive(c) == c \notin deleted /\ ~terminated
Open(c) == tx[c] = "open"

\* Mutant: a rollback does not make room for another transaction.
StaysCurrent == working' = published /\ UNCHANGED <<published, current>>

\* A transaction is rolled back: by rollback, or as an exception passes.
Discard == working' = published /\ current' = NoTransaction /\ UNCHANGED published

\* Mutant: the transaction is overlooked.
AlwaysTheStore(c) == published

\* getStore: the transaction, or the store if there is none.
GetStore(c) == IF tx[c] = "none" THEN published ELSE working

-------------------------------------------------------------------------------
(* The operations.                                                               *)

\* start: startTransaction throws while another connection has a transaction.
CanStart(c) == tx[c] = "none" => current = NoTransaction

\* Mutant: start replaces a transaction that was rolled back by a new one.
StartsOver(c, todo, onRefusal) ==
    /\ Alive(c) /\ tx[c] # "committing" /\ (~Open(c) => current = NoTransaction)
    /\ LET w == RunWrite(working, todo, onRefusal) IN
       /\ made + Len(w.done) <= MaxChanges
       /\ made' = made + Len(w.done)
       /\ unit' = [unit EXCEPT ![c] = @ \o w.done]
       /\ changes' = [changes EXCEPT ![c] = w.done]
       /\ working' = w.contents /\ current' = c /\ UNCHANGED published
       /\ tx' = [tx EXCEPT ![c] = "open"]
    /\ UNCHANGED <<deleted, terminated, replica, overlapped>>

\* add, remove, change, revert, import, importString and addBlankNode.
Modify(c, todo, onRefusal) ==
    /\ Alive(c) /\ tx[c] \in {"none", "open"} /\ CanStart(c)
    /\ LET w == RunWrite(working, todo, onRefusal) IN
       /\ made + Len(w.done) <= MaxChanges
       /\ made' = made + Len(w.done)
       /\ unit' = [unit EXCEPT ![c] = @ \o w.done]
       /\ changes' = [changes EXCEPT ![c] = @ \o w.done]
       /\ IF w.outcome = "abandons"
          THEN Discard /\ tx' = [tx EXCEPT ![c] = "abandoned"]
          ELSE /\ working' = w.contents /\ current' = c /\ UNCHANGED published
               /\ tx' = [tx EXCEPT ![c] = "open"]
    /\ UNCHANGED <<deleted, terminated, replica, overlapped>>

AddTriple(c, t) == Modify(c, <<[op |-> "add", t |-> t]>>, "returns")
RemoveTriple(c, t) == Modify(c, <<[op |-> "remove", t |-> t]>>, "returns")
\* A triple with empty nodes is a pattern: all that match are removed.
RemoveMatching(c, P) == Modify(c, RemoveAll(working \cap P), "abandons")
ApplyChanges(c, cs) == Modify(c, cs, "throws")
RevertChanges(c, cs) == Modify(c, Inverted(cs), "throws")
Import(c, S) == Modify(c, AddAll(S), "returns")
ImportOrFail(c, S) == Modify(c, AddAll(S), "abandons")
AddBlankNode(c) == Modify(c, <<>>, "returns")

\* A read or a save through the transaction throws, which rolls it back: an
\* incomplete triple, a query or a file that fails.
ReadThrows(c) ==
    /\ Alive(c) /\ Open(c)
    /\ Discard
    /\ tx' = [tx EXCEPT ![c] = "abandoned"]
    /\ UNCHANGED <<changes, deleted, terminated, replica, overlapped, unit, made>>

\* commit and commitAndObtain, up to the signals.  A commit that has nothing to
\* commit returns, and one of a transaction that was rolled back throws.
Publish(c) ==
    /\ published' = working /\ UNCHANGED working
    /\ current' = NoTransaction
    /\ tx' = [tx EXCEPT ![c] = "committing"]
    /\ overlapped' = (overlapped \/ \E other \in Conn : tx[other] = "committing")
    /\ unit' = [unit EXCEPT ![c] = <<>>]

\* Mutant: the changes are forgotten before they are signalled.
ForgetsBeforeTheSignal(c) ==
    /\ Alive(c) /\ Open(c)
    /\ Publish(c)
    /\ changes' = [changes EXCEPT ![c] = <<>>]
    /\ UNCHANGED <<deleted, terminated, replica, made>>

Commit(c) ==
    /\ Alive(c) /\ Open(c)
    /\ Publish(c)
    /\ UNCHANGED <<changes, deleted, terminated, replica, made>>

\* The signals, whose slots are given the change set; then the transaction is
\* deleted and forgotten.  Slots that call the same connection never get the
\* store's mutex back, or throw.
Announce(c) ==
    /\ tx[c] = "committing"
    /\ replica' = Applied(replica, changes[c])
    /\ changes' = [changes EXCEPT ![c] = <<>>]
    /\ tx' = [tx EXCEPT ![c] = "none"]
    /\ UNCHANGED <<store, deleted, terminated, overlapped, unit, made>>

\* Of a transaction that was rolled back, rollback throws before it forgets it, and
\* without one it returns: neither is a step.
Rollback(c) ==
    /\ Alive(c) /\ Open(c)
    /\ Discard
    /\ tx' = [tx EXCEPT ![c] = "none"]
    /\ changes' = [changes EXCEPT ![c] = <<>>]
    /\ unit' = [unit EXCEPT ![c] = <<>>]
    /\ UNCHANGED <<deleted, terminated, replica, overlapped, made>>

\* The destructor commits.
Delete(c) ==
    /\ Alive(c) /\ tx[c] # "committing"
    /\ deleted' = deleted \cup {c}
    /\ terminated' = (tx[c] = "abandoned")
    /\ IF Open(c) THEN Publish(c) ELSE UNCHANGED <<store, tx, overlapped, unit>>
    /\ UNCHANGED <<changes, replica, made>>

Init ==
    /\ published \in Contents /\ working = published /\ replica = published
    /\ current = NoTransaction /\ tx = [c \in Conn |-> "none"]
    /\ changes = [c \in Conn |-> <<>>] /\ unit = [c \in Conn |-> <<>>]
    /\ deleted = {} /\ terminated = FALSE /\ overlapped = FALSE
    /\ made = 0

ChangeSets == {<<a, b>> : a, b \in Change}

Next ==
    \/ \E c \in Conn, t \in Triple \cup {Incomplete} : AddTriple(c, t)
    \/ \E c \in Conn, t \in Triple \cup {Incomplete} : RemoveTriple(c, t)
    \/ \E c \in Conn, P \in SUBSET Triple : RemoveMatching(c, P)
    \/ \E c \in Conn, cs \in ChangeSets : ApplyChanges(c, cs)
    \/ \E c \in Conn, cs \in ChangeSets : RevertChanges(c, cs)
    \/ \E c \in Conn, S \in Contents : Import(c, S)
    \/ \E c \in Conn, S \in Contents : ImportOrFail(c, S)
    \/ \E c \in Conn : AddBlankNode(c)
    \/ \E c \in Conn : ReadThrows(c)
    \/ \E c \in Conn : Commit(c)
    \/ \E c \in Conn : Announce(c)
    \/ \E c \in Conn : Rollback(c)
    \/ \E c \in Conn : Delete(c)

Spec == Init /\ [][Next]_vars

-------------------------------------------------------------------------------
(* Properties.                                                                   *)

\* The store's current transaction is that of the one connection with an open
\* one: no connection keeps the others out by a transaction that it has lost, and
\* none writes without one (start, and the exceptions on the way).
CurrentIsTheOpenOne == \A c \in Conn : Open(c) <=> current = c

\* What is published are whole units of work: everything that one connection has
\* changed since its last commit or rollback, also what it changed before an
\* exception, in order, and nothing of another (start, commit and the destructor).
CommitsPublishWholeUnits ==
    [][published' # published =>
           \E c \in Conn : tx'[c] = "committing" /\ published' = Applied(published, unit[c])]_vars

\* A connection reads its own unit of work, and without one what is published, at
\* all times at which its reads return (getStore).
ReadsSeeTheUnitOfWork ==
    \A c \in Conn : tx[c] \in {"none", "open"} => GetStore(c) = Applied(published, unit[c])

\* A client that applies the signalled change sets in the order of the signals
\* has the published contents, once every commit is announced, unless another
\* commit came between a commit and its signal (commitTransaction's unlocking).
ReplicasFollow ==
    ~overlapped /\ (\A c \in Conn : tx[c] # "committing") => replica = published

================================================================================
