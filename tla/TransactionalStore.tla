--------------------------- MODULE TransactionalStore ---------------------------
(*****************************************************************************)
(* Dataquay's TransactionalStore: a Store that wraps a non-transactional      *)
(* Store and gives at most one Transaction at a time a private view of it.    *)
(*                                                                           *)
(* There is one copy of the contents.  While the pending changes of the       *)
(* current transaction are applied to it the wrapper is in TxContext; before  *)
(* an access from outside the transaction it reverts them (NonTxContext), and *)
(* before the next access from inside it replays them.  Every such access     *)
(* holds a plain, non-recursive QMutex.                                       *)
(*                                                                           *)
(* A thread runs one API call at a time, recorded in call[th], and pc[th]     *)
(* says where in the source it is:                                            *)
(*   start    about to lock the mutex in D::startTransaction                  *)
(*   lock     about to lock the mutex for the operation call[th].op           *)
(*   replay   in m_store->change(cs), called by enterTransactionContext       *)
(*   revert   in m_store->revert(cs), called by leaveTransactionContext       *)
(*   body     in transaction context, about to access the store               *)
(*   left     out of transaction context, about to use the committed state    *)
(*   record   the mutex is unlocked, the change is not yet in m_changes       *)
(*   destroy  in ~TSTransaction                                               *)
(*****************************************************************************)
EXTENDS Naturals, Sequences, FiniteSets, SequencesExt

CONSTANTS
    Thread,                \* threads that use the store
    Tx,                    \* addresses at which Transaction objects live
    Triple,                \* complete triples
    Incomplete,            \* a triple with an empty node, which a store will not add
    NoTransaction,         \* the null Transaction pointer
    Free,                  \* the mutex is unlocked
    DirectWriteBehaviour,  \* constructor argument: "NoAutoTransaction" or "AutoTransaction"
    ChangeSets,            \* the change sets clients pass to change() and revert()
    Documents,             \* the RDF documents clients import, as sequences of triples
    Liberties,             \* things some clients do: see below
    MaxChanges             \* bound on the length of a transaction's change set

(* Liberties the code leaves its clients:                                     *)
(*   "reads"     reads the TransactionalStore directly, outside transactions  *)
(*   "reenters"  a slot of transactionCommitted uses the Transaction whose    *)
(*               commit is emitting the signal                                *)
(*   "drops"     deletes a Transaction that was neither committed nor rolled  *)
(*               back                                                         *)
AllLiberties == {"reads", "reenters", "drops"}

Change == [op : {"add", "remove"}, t : Triple \cup {Incomplete}]

ASSUME ValuesAssumption ==
    /\ Incomplete \notin Triple
    /\ NoTransaction \notin Tx
    /\ Free \notin Thread
    /\ DirectWriteBehaviour \in {"NoAutoTransaction", "AutoTransaction"}
    /\ Liberties \subseteq AllLiberties
    /\ MaxChanges \in Nat

\* An incomplete triple in a removal is a pattern, which CallRemoveMatching
\* models, so that change sets only hold one in an addition.
ASSUME InputsAssumption ==
    /\ ChangeSets \subseteq Seq(Change)
    /\ Documents \subseteq Seq(Triple)

VARIABLES
    \* the wrapped store and TransactionalStore::D
    store,        \* contents of m_store
    mutex,        \* the thread that holds m_mutex, or Free
    currentTx,    \* m_currentTx
    context,      \* m_context
    \* the TSTransaction::D objects
    holds,        \* holds[th]: the transaction objects thread th has not deleted
    changes,      \* m_changes
    committed,    \* the objects with m_committed set
    abandoned,    \* the objects with m_abandoned set
    \* the threads
    pc,           \* where each thread is
    call,         \* the API call each thread is in
    committing,   \* stack of the commits whose signals each thread is emitting
    crashed,      \* the process has terminated
    \* history: what a client may rely on, never read by the code's actions
    trail,        \* contents after each recorded change of the current
                  \* transaction, starting with the committed contents
    raced         \* an access reverted the transaction's changes while one of
                  \* them was in the store but not yet in m_changes

storeVars == <<store, mutex, currentTx, context>>
txVars == <<holds, changes, committed, abandoned>>
threadVars == <<pc, call, committing>>
history == <<trail, raced>>
vars == <<storeVars, txVars, threadVars, crashed, history>>

-----------------------------------------------------------------------------
(* Triples and change sets.                                                   *)

\* Mutants: a store that takes incomplete triples, one whose add always
\* returns true.
TakesIncomplete(c, S) == c.op = "add" <=> c.t \notin S
AlwaysAdds(c, S) == c.t \in Triple /\ (c.op = "add" \/ c.t \in S)

\* The store operation c returns true on contents S, and what it leaves.
Effective(c, S) == c.t \in Triple /\ (c.op = "add" <=> c.t \notin S)
Applied(c, S) == IF c.op = "add" THEN S \cup {c.t} ELSE S \ {c.t}

Opposite(c) == [c EXCEPT !.op = IF @ = "add" THEN "remove" ELSE "add"]

\* What revert(cs) asks for: the opposite of each change, last one first.
Reverting(cs) == [i \in 1 .. Len(cs) |-> Opposite(cs[Len(cs) + 1 - i])]

\* What import of document doc asks for.
Adding(doc) == [i \in 1 .. Len(doc) |-> [op |-> "add", t |-> doc[i]]]

\* The orders in which the removal of all triples of S may be carried out.
RemovalOrders(S) ==
    {r \in UNION {[1 .. n -> [op : {"remove"}, t : S]] : n \in 0 .. MaxChanges} :
        IsInjective(r) /\ \A t \in S : \E i \in DOMAIN r : r[i].t = t}

-----------------------------------------------------------------------------
(* Calls.                                                                     *)

Ops == {"none", "write", "match", "read", "commit", "rollback", "abandon",
        "drop", "ntread"}

\* What to do when the store refuses a write: return false (add, remove),
\* raise without rolling back (change, revert), raise and roll back (removal
\* of matches, import that fails on duplicates), or carry on (other imports).
OnFalse == {"return", "raise", "abandon", "skip"}

PCs == {"idle", "start", "lock", "replay", "revert", "body", "left", "record",
        "destroy"}

CallRecord == [op : Ops, tx : Tx \cup {NoTransaction}, todo : Seq(Change),
               n : Nat, onFalse : OnFalse, auto : BOOLEAN, cs : Seq(Change), i : Nat]

NoCall == [op |-> "none", tx |-> NoTransaction, todo |-> <<>>, n |-> 1,
           onFalse |-> "return", auto |-> FALSE, cs |-> <<>>, i |-> 0]

Idle(th) ==
    /\ pc' = [pc EXCEPT ![th] = "idle"]
    /\ call' = [call EXCEPT ![th] = NoCall]

\* A call on a transaction is over.  That of a direct write under
\* AutoTransaction is then destroyed with the unique_ptr that holds it.
Return(th) ==
    IF call[th].auto
    THEN /\ pc' = [pc EXCEPT ![th] = "destroy"]
         /\ call' = [call EXCEPT ![th].op = "drop"]
    ELSE Idle(th)

Goto(th, label) == pc' = [pc EXCEPT ![th] = label] /\ UNCHANGED call

\* An exception in a TSTransaction method is caught there and rolls back.
Abandon(th) ==
    /\ pc' = [pc EXCEPT ![th] = "lock"]
    /\ call' = [call EXCEPT ![th].op = "abandon"]

alive == UNION {holds[th] : th \in Thread}

\* Transaction objects on which check() does not throw.
Unresolved == alive \ (committed \cup abandoned)

InSlotOf(th, tx) == \E i \in DOMAIN committing[th] : committing[th][i] = tx

Usable(th, tx) ==
    /\ pc[th] = "idle"
    /\ tx \in holds[th] \cap Unresolved
    /\ InSlotOf(th, tx) => "reenters" \in Liberties

Begin(th, label, c) ==
    /\ ~crashed
    /\ pc' = [pc EXCEPT ![th] = label]
    /\ call' = [call EXCEPT ![th] = c]
    /\ UNCHANGED <<storeVars, txVars, committing, crashed, history>>

\* The address the next new TSTransaction gets.
Fresh(tx) == tx \in Tx \ alive /\ \A th \in Thread : call[th].tx # tx

CallStartTransaction(th) ==
    /\ pc[th] = "idle"
    /\ \E tx \in Tx : Fresh(tx) /\ Begin(th, "start", [NoCall EXCEPT !.tx = tx])

\* TSTransaction::add, remove of a complete triple, change, revert and import
\* are sequences of adds and removes that differ in how they take a refusal.
Write(tx, todo, onFalse) ==
    [NoCall EXCEPT !.op = "write", !.tx = tx, !.todo = todo, !.onFalse = onFalse]

Writes(tx) ==
    UNION {{Write(tx, <<c>>, "return") :
                c \in {d \in Change : d.t \in Triple \/ d.op = "add"}},
           {Write(tx, cs, "raise") : cs \in ChangeSets},
           {Write(tx, Reverting(cs), "raise") :
                cs \in {d \in ChangeSets : \A i \in DOMAIN d : d[i].t \in Triple}},
           {Write(tx, Adding(doc), f) : doc \in Documents, f \in {"skip", "abandon"}}}

CallWrite(th) ==
    \E tx \in Tx : \E c \in Writes(tx) :
        /\ Usable(th, tx)
        /\ Len(c.todo) > 0
        /\ Len(changes[tx]) + Len(c.todo) <= MaxChanges
        /\ Begin(th, "lock", c)

\* remove() of a pattern, here one that matches every triple.
CallRemoveMatching(th) ==
    \E tx \in Tx :
        /\ Usable(th, tx)
        /\ Len(changes[tx]) + Cardinality(Triple) <= MaxChanges
        /\ Begin(th, "lock", [NoCall EXCEPT !.op = "match", !.tx = tx])

\* contains, match, query, complete, matchOnce, queryOnce, getUniqueUri,
\* addBlankNode and save.
CallRead(th) ==
    \E tx \in Tx : Usable(th, tx)
        /\ Begin(th, "lock", [NoCall EXCEPT !.op = "read", !.tx = tx])

\* import() of a document that cannot be loaded throws before it writes.
CallImportUnreadable(th) ==
    \E tx \in Tx : Usable(th, tx)
        /\ Begin(th, "lock", [NoCall EXCEPT !.op = "abandon", !.tx = tx])

CallCommit(th) ==
    \E tx \in Tx : Usable(th, tx)
        /\ Begin(th, "lock", [NoCall EXCEPT !.op = "commit", !.tx = tx])

CallRollback(th) ==
    \E tx \in Tx : Usable(th, tx)
        /\ Begin(th, "lock", [NoCall EXCEPT !.op = "rollback", !.tx = tx])

\* delete of a Transaction; never of one whose commit is still running.
CallDelete(th) ==
    /\ pc[th] = "idle"
    /\ \E tx \in holds[th] :
        /\ ~InSlotOf(th, tx)
        /\ tx \in Unresolved => "drops" \in Liberties
        /\ Begin(th, "destroy", [NoCall EXCEPT !.op = "drop", !.tx = tx])

\* A read on the TransactionalStore itself, through NonTransactionalAccess.
CallDirectRead(th) ==
    /\ pc[th] = "idle"
    /\ "reads" \in Liberties
    /\ Begin(th, "lock", [NoCall EXCEPT !.op = "ntread"])

\* A write on the TransactionalStore itself: under NoAutoTransaction it throws
\* and changes nothing, under AutoTransaction it makes a transaction first.
CallDirectWrite(th) ==
    /\ pc[th] = "idle"
    /\ DirectWriteBehaviour = "AutoTransaction"
    /\ \E tx \in Tx :
        /\ Fresh(tx)
        /\ \E c \in Writes(tx) \cup
                    {[NoCall EXCEPT !.op = o, !.tx = tx] : o \in {"match", "read", "abandon"}} :
            /\ c.op = "write" => Len(c.todo) \in 1 .. MaxChanges
            /\ c.op = "match" => Cardinality(Triple) <= MaxChanges
            /\ Begin(th, "start", [c EXCEPT !.auto = TRUE])

-----------------------------------------------------------------------------
(* TransactionalStore::D.                                                     *)

\* Mutants: no locking, no integrity check, a mutex left locked, a current
\* transaction that is not reset, single changes forgotten by the replay or
\* the reversal.
NoLocking == TRUE
Unchecked(th) == TRUE
StaysLocked == UNCHANGED mutex
StaysCurrent == UNCHANGED currentTx
NoReplayOfOne == currentTx = NoTransaction \/ Len(changes[currentTx]) <= 1
NoReversalOfOne == currentTx = NoTransaction \/ Len(changes[currentTx]) <= 1

CanLock == mutex = Free
Unlock == mutex' = Free
IsCurrent(th) == call[th].tx = currentTx
ResetCurrentTx == currentTx' = NoTransaction
NothingToReplay == currentTx = NoTransaction \/ changes[currentTx] = <<>>
NothingToRevert == currentTx = NoTransaction \/ changes[currentTx] = <<>>

\* startTransaction throws while there is a current transaction, whichever
\* thread has it.
StartTransaction(th) ==
    /\ pc[th] = "start" /\ CanLock
    /\ IF currentTx # NoTransaction
       THEN Idle(th) /\ UNCHANGED <<currentTx, holds>>
       ELSE /\ currentTx' = call[th].tx
            /\ holds' = [holds EXCEPT ![th] = @ \cup {call[th].tx}]
            /\ IF call[th].auto THEN Goto(th, "lock") ELSE Idle(th)
    /\ UNCHANGED <<store, mutex, context, changes, committed, abandoned,
                   committing, crashed, history>>

\* With the mutex taken: the store is already in transaction context, or there
\* is nothing to replay, or the replay begins.
EnterTransactionContext(th) ==
    /\ mutex' = th
    /\ IF context = "TxContext" \/ NothingToReplay
       THEN /\ context' = IF currentTx = NoTransaction THEN context ELSE "TxContext"
            /\ Goto(th, "body")
       ELSE /\ pc' = [pc EXCEPT ![th] = "replay"]
            /\ call' = [call EXCEPT ![th].cs = changes[currentTx], ![th].i = 1]
            /\ UNCHANGED context

\* The constructor of Operation.  Its integrity check throws with the mutex
\* held, and no destructor runs to unlock it.
StartOperation(th) ==
    /\ pc[th] = "lock" /\ call[th].op \in {"write", "match", "read"} /\ CanLock
    /\ IF ~IsCurrent(th)
       THEN mutex' = th /\ Abandon(th) /\ UNCHANGED context
       ELSE EnterTransactionContext(th)
    /\ UNCHANGED <<store, currentTx, txVars, committing, crashed, history>>

\* commitTransaction up to its call of enterTransactionContext.  It holds the
\* mutex in a QMutexLocker, so that an exception does unlock it.
CommitTransaction(th) ==
    /\ pc[th] = "lock" /\ call[th].op = "commit" /\ CanLock
    /\ IF ~IsCurrent(th)
       THEN Idle(th) /\ UNCHANGED <<mutex, context>>
       ELSE EnterTransactionContext(th)
    /\ UNCHANGED <<store, currentTx, txVars, committing, crashed, history>>

Current(th) == call[th].cs[call[th].i]

\* One change of m_store->change(cs).
ReplayStep(th) ==
    /\ pc[th] = "replay"
    /\ Effective(Current(th), store)
    /\ store' = Applied(Current(th), store)
    /\ IF call[th].i < Len(call[th].cs)
       THEN call' = [call EXCEPT ![th].i = @ + 1] /\ UNCHANGED <<pc, context>>
       ELSE /\ context' = "TxContext"
            /\ pc' = [pc EXCEPT ![th] = "body"]
            /\ call' = [call EXCEPT ![th].cs = <<>>, ![th].i = 0]
    /\ UNCHANGED <<mutex, currentTx, txVars, committing, crashed, history>>

\* The store refuses it: what was replayed so far stays, and startOperation
\* throws with the mutex held.
ReplayFails(th) ==
    /\ pc[th] = "replay"
    /\ ~Effective(Current(th), store)
    /\ IF call[th].op = "commit"
       THEN Unlock /\ Idle(th)
       ELSE /\ UNCHANGED mutex
            /\ pc' = [pc EXCEPT ![th] = "lock"]
            /\ call' = [call EXCEPT ![th].op = "abandon", ![th].cs = <<>>, ![th].i = 0]
    /\ UNCHANGED <<store, currentTx, context, txVars, committing, crashed, history>>

\* Another thread's change of the current transaction is in the store but not
\* yet pushed onto m_changes: TSTransaction::D::add pushes it after D::add has
\* unlocked the mutex.
Unrecorded(tx) ==
    context = "TxContext" /\ \E th \in Thread : pc[th] = "record" /\ call[th].tx = tx

\* With the mutex taken: the store is already out of transaction context, or
\* there is nothing to revert, or the reversal begins.  A deleted current
\* transaction is read as the empty one it was when it was deleted.
LeaveTransactionContext(th) ==
    /\ mutex' = th
    /\ raced' = (raced \/ Unrecorded(currentTx))
    /\ IF context = "NonTxContext" \/ NothingToRevert
       THEN context' = "NonTxContext" /\ Goto(th, "left")
       ELSE /\ pc' = [pc EXCEPT ![th] = "revert"]
            /\ call' = [call EXCEPT ![th].cs = changes[currentTx],
                                    ![th].i = Len(changes[currentTx])]
            /\ UNCHANGED context

\* The constructor of NonTransactionalAccess.
StartNonTransactionalAccess(th) ==
    /\ pc[th] = "lock" /\ call[th].op = "ntread" /\ CanLock
    /\ LeaveTransactionContext(th)
    /\ UNCHANGED <<store, currentTx, txVars, committing, crashed, trail>>

\* The same, when it reads a freed transaction, or m_changes while its owner
\* pushes onto it: undefined behaviour, which may also end the process.
ReadUndefined(th) ==
    /\ pc[th] = "lock" /\ call[th].op = "ntread" /\ CanLock
    /\ context = "TxContext" /\ currentTx # NoTransaction
    /\ currentTx \notin alive \/ Unrecorded(currentTx)
    /\ raced' = (raced \/ Unrecorded(currentTx))
    /\ crashed' = TRUE
    /\ UNCHANGED <<storeVars, txVars, threadVars, trail>>

Releases == {"rollback", "abandon", "drop"}

\* What a thread does when rollbackTransaction throws: the exception leaves
\* rollback(), replaces the one that abandon() was handling, or leaves the
\* destructor and so terminates the process.
RollbackThrows(th) ==
    CASE call[th].op = "rollback" -> Idle(th) /\ UNCHANGED crashed
      [] call[th].op = "abandon" -> Return(th) /\ UNCHANGED crashed
      [] OTHER -> crashed' = TRUE /\ UNCHANGED <<pc, call>>

RollbackTransaction(th) ==
    /\ pc[th] = "lock" /\ call[th].op \in Releases /\ CanLock
    /\ IF ~IsCurrent(th)
       THEN RollbackThrows(th) /\ UNCHANGED <<mutex, context, raced>>
       ELSE LeaveTransactionContext(th) /\ UNCHANGED crashed
    /\ UNCHANGED <<store, currentTx, txVars, committing, trail>>

\* One change of m_store->revert(cs).
RevertStep(th) ==
    LET c == Opposite(Current(th)) IN
    /\ pc[th] = "revert"
    /\ Effective(c, store)
    /\ store' = Applied(c, store)
    /\ IF call[th].i > 1
       THEN call' = [call EXCEPT ![th].i = @ - 1] /\ UNCHANGED <<pc, context>>
       ELSE /\ context' = "NonTxContext"
            /\ pc' = [pc EXCEPT ![th] = "left"]
            /\ call' = [call EXCEPT ![th].cs = <<>>, ![th].i = 0]
    /\ UNCHANGED <<mutex, currentTx, txVars, committing, crashed, history>>

\* The store refuses it.  startNonTransactionalAccess then throws with the
\* mutex held, rollbackTransaction unlocks it.
RevertFails(th) ==
    /\ pc[th] = "revert"
    /\ ~Effective(Opposite(Current(th)), store)
    /\ IF call[th].op = "ntread"
       THEN Idle(th) /\ UNCHANGED <<mutex, crashed>>
       ELSE Unlock /\ RollbackThrows(th)
    /\ UNCHANGED <<store, currentTx, context, txVars, committing, history>>

\* The access itself, then the destructor of NonTransactionalAccess.  The
\* wrapper stays in NonTxContext.
DirectRead(th) ==
    /\ pc[th] = "left" /\ call[th].op = "ntread"
    /\ Unlock
    /\ Idle(th)
    /\ UNCHANGED <<store, currentTx, context, txVars, committing, crashed, history>>

\* The object is gone.  The next one at this address starts with no changes
\* and neither flag.
Deallocate(th, tx) ==
    /\ holds' = [holds EXCEPT ![th] = @ \ {tx}]
    /\ changes' = [changes EXCEPT ![tx] = <<>>]
    /\ committed' = committed \ {tx}
    /\ abandoned' = abandoned \ {tx}

\* The end of rollbackTransaction and of its caller.
FinishRollback(th) ==
    LET tx == call[th].tx IN
    /\ pc[th] = "left" /\ call[th].op \in Releases
    /\ ResetCurrentTx
    /\ Unlock
    /\ trail' = <<trail[1]>>
    /\ IF call[th].op = "drop"
       THEN Deallocate(th, tx) /\ Idle(th)
       ELSE /\ abandoned' = abandoned \cup {tx}
            /\ Return(th)
            /\ UNCHANGED <<holds, changes, committed>>
    /\ UNCHANGED <<store, context, committing, crashed, raced>>

\* The end of commitTransaction's critical section.  The signals are emitted
\* after it: the slots run in this thread, as calls it makes from here on.
PublishCommit(th) ==
    /\ pc[th] = "body" /\ call[th].op = "commit"
    /\ ResetCurrentTx
    /\ context' = "NonTxContext"
    /\ Unlock
    /\ committing' = [committing EXCEPT ![th] = Append(@, call[th].tx)]
    /\ trail' = <<Last(trail)>>
    /\ Idle(th)
    /\ UNCHANGED <<store, txVars, crashed, raced>>

\* The slots have returned: commit() sets m_committed.
FinishCommit(th) ==
    /\ pc[th] = "idle" /\ committing[th] # <<>>
    /\ committed' = committed \cup {Last(committing[th])}
    /\ committing' = [committing EXCEPT ![th] = Front(@)]
    /\ UNCHANGED <<storeVars, holds, changes, abandoned, pc, call, crashed, history>>

-----------------------------------------------------------------------------
(* TransactionalStore::TSTransaction::D.                                      *)

Todo(th) == call[th].todo[call[th].n]

NextWrite(th) ==
    IF call[th].n = Len(call[th].todo)
    THEN Return(th)
    ELSE /\ pc' = [pc EXCEPT ![th] = "lock"]
         /\ call' = [call EXCEPT ![th].n = @ + 1]

\* m_td->add or m_td->remove succeeds, and unlocks the mutex.
WriteTakesEffect(th) ==
    /\ pc[th] = "body" /\ call[th].op = "write"
    /\ Effective(Todo(th), store)
    /\ store' = Applied(Todo(th), store)
    /\ Unlock
    /\ Goto(th, "record")
    /\ UNCHANGED <<currentTx, context, txVars, committing, crashed, history>>

\* m_changes.push_back, without the mutex.
Record(th) ==
    LET tx == call[th].tx IN
    /\ pc[th] = "record"
    /\ changes' = [changes EXCEPT ![tx] = Append(@, Todo(th))]
    /\ trail' = Append(trail, Applied(Todo(th), Last(trail)))
    /\ NextWrite(th)
    /\ UNCHANGED <<storeVars, holds, committed, abandoned, committing, crashed, raced>>

\* m_td->add or m_td->remove returns false.
WriteRefused(th) ==
    /\ pc[th] = "body" /\ call[th].op = "write"
    /\ Todo(th).t \in Triple /\ ~Effective(Todo(th), store)
    /\ Unlock
    /\ CASE call[th].onFalse = "skip" -> NextWrite(th)
         [] call[th].onFalse = "abandon" -> Abandon(th)
         [] OTHER -> Return(th)
    /\ UNCHANGED <<store, currentTx, context, txVars, committing, crashed, history>>

\* The store throws: the triple is incomplete, or the backend fails.
StoreThrows(th) ==
    /\ pc[th] = "body" /\ call[th].op \in {"write", "match", "read"}
    /\ call[th].op = "write" => Todo(th).t = Incomplete
    /\ Unlock
    /\ Abandon(th)
    /\ UNCHANGED <<store, currentTx, context, txVars, committing, crashed, history>>

\* remove() of a pattern goes on to remove the matches one at a time.
MatchForRemoval(th) ==
    /\ pc[th] = "body" /\ call[th].op = "match"
    /\ Unlock
    /\ IF store = {}
       THEN Return(th)
       ELSE \E r \in RemovalOrders(store) :
              /\ pc' = [pc EXCEPT ![th] = "lock"]
              /\ call' = [call EXCEPT ![th].op = "write", ![th].todo = r,
                                      ![th].onFalse = "abandon"]
    /\ UNCHANGED <<store, currentTx, context, txVars, committing, crashed, history>>

ReadInTransaction(th) ==
    /\ pc[th] = "body" /\ call[th].op = "read"
    /\ Unlock
    /\ Return(th)
    /\ UNCHANGED <<store, currentTx, context, txVars, committing, crashed, history>>

\* Mutant: a destructor that does not roll back.
NeverRollsBack(th) ==
    /\ pc[th] = "destroy"
    /\ Deallocate(th, call[th].tx) /\ Idle(th)
    /\ UNCHANGED <<storeVars, committing, crashed, history>>

\* ~D rolls back a transaction with changes that was neither committed nor
\* rolled back, and forgets one without changes.
Destroy(th) ==
    LET tx == call[th].tx IN
    /\ pc[th] = "destroy"
    /\ IF tx \in Unresolved /\ changes[tx] # <<>>
       THEN Goto(th, "lock") /\ UNCHANGED txVars
       ELSE Deallocate(th, tx) /\ Idle(th)
    /\ UNCHANGED <<storeVars, committing, crashed, history>>

-----------------------------------------------------------------------------
(* The specification.                                                         *)

Init ==
    /\ store \in SUBSET Triple
    /\ mutex = Free
    /\ currentTx = NoTransaction
    /\ context = "NonTxContext"
    /\ holds = [th \in Thread |-> {}]
    /\ changes = [tx \in Tx |-> <<>>]
    /\ committed = {}
    /\ abandoned = {}
    /\ pc = [th \in Thread |-> "idle"]
    /\ call = [th \in Thread |-> NoCall]
    /\ committing = [th \in Thread |-> <<>>]
    /\ crashed = FALSE
    /\ trail = <<store>>
    /\ raced = FALSE

\* A client's thread makes a call.
Call(th) ==
    \/ CallStartTransaction(th) \/ CallWrite(th) \/ CallRemoveMatching(th)
    \/ CallRead(th) \/ CallImportUnreadable(th) \/ CallCommit(th)
    \/ CallRollback(th) \/ CallDelete(th) \/ CallDirectRead(th) \/ CallDirectWrite(th)

\* The steps that wait for the mutex, and those of a call that runs.
Lock(th) ==
    \/ StartTransaction(th) \/ StartOperation(th) \/ CommitTransaction(th)
    \/ RollbackTransaction(th) \/ StartNonTransactionalAccess(th) \/ ReadUndefined(th)

Run(th) ==
    \/ ReplayStep(th) \/ ReplayFails(th) \/ RevertStep(th) \/ RevertFails(th)
    \/ DirectRead(th) \/ FinishRollback(th) \/ PublishCommit(th)
    \/ WriteTakesEffect(th) \/ Record(th) \/ WriteRefused(th) \/ StoreThrows(th)
    \/ MatchForRemoval(th) \/ ReadInTransaction(th) \/ Destroy(th)

Next == ~crashed /\ \E th \in Thread : Call(th) \/ Lock(th) \/ Run(th) \/ FinishCommit(th)

Spec == Init /\ [][Next]_vars

\* The scheduler runs every thread, and the mutex does not starve one that
\* waits for it.
Fairness ==
    \A th \in Thread : WF_vars(~crashed /\ Run(th)) /\ SF_vars(~crashed /\ Lock(th))

FairSpec == Spec /\ Fairness

-----------------------------------------------------------------------------
(* What must be true of it.                                                   *)

Inside == {"replay", "revert", "body", "left"}

\* Every variable keeps its type: m_changes never holds anything but changes,
\* the store never anything but complete triples.
TypeOK ==
    /\ store \in SUBSET Triple
    /\ mutex \in Thread \cup {Free}
    /\ currentTx \in Tx \cup {NoTransaction}
    /\ context \in {"TxContext", "NonTxContext"}
    /\ holds \in [Thread -> SUBSET Tx]
    /\ changes \in [Tx -> Seq(Change)]
    /\ committed \subseteq Tx
    /\ abandoned \subseteq Tx
    /\ pc \in [Thread -> PCs]
    /\ call \in [Thread -> CallRecord]
    /\ committing \in [Thread -> Seq(Tx)]
    /\ crashed \in BOOLEAN
    /\ trail \in Seq(SUBSET Triple)
    /\ raced \in BOOLEAN

\* A read on the TransactionalStore, and a rollback that is about to finish,
\* find exactly the committed contents: nothing of the pending transaction has
\* been left in the store and nothing committed is missing from it.
DirectReadsAreIsolated == \A th \in Thread : pc[th] = "left" => store = trail[1]

\* An access through a transaction is made for the current transaction and
\* finds the committed contents with exactly the changes it has made so far,
\* however often other reads have reverted and replayed them in between.
TransactionsSeeTheirChanges ==
    \A th \in Thread : pc[th] = "body" => currentTx = call[th].tx /\ store = Last(trail)

\* Replaying or reverting the pending changes never meets a triple that is
\* already there or already gone, so neither enterTransactionContext nor
\* leaveTransactionContext throws.
ContextSwitchesSucceed ==
    \A th \in Thread :
        /\ pc[th] = "replay" => Effective(Current(th), store)
        /\ pc[th] = "revert" => Effective(Opposite(Current(th)), store)

\* With several threads all of this holds until one of them reverts the
\* changes of a transaction whose owner has not recorded the last one yet.
IsolatedUnlessRaced ==
    ~raced => DirectReadsAreIsolated /\ TransactionsSeeTheirChanges /\ ContextSwitchesSucceed

\* The mutex is only held by a thread that is in a critical section: no
\* exception leaves it locked behind a call that is over or is now handling
\* the exception.
MutexIsReleased == mutex # Free => pc[mutex] \in Inside

\* The one transaction that is neither resolved nor emitting its commit is the
\* current one, so that startTransaction throws only while its owner can still
\* commit or roll it back.
OneOpenTransaction ==
    {tx \in Unresolved : \A th \in Thread : ~InSlotOf(th, tx)} = {currentTx} \ {NoTransaction}

\* Contents S after the changes of cs, with ok if each of them took effect.
ApplyAll(cs, S) ==
    FoldLeft(LAMBDA r, c : [ok |-> r.ok /\ Effective(c, r.s), s |-> Applied(c, r.s)],
             [ok |-> TRUE, s |-> S], cs)

\* The committed contents change only when the current transaction commits,
\* and then by exactly its change set, which could be reverted again in its
\* entirety; the store then holds the new committed contents.
CommitsPublishTheirChangeSet ==
    [][trail'[1] # trail[1] /\ ~raced =>
        /\ currentTx # NoTransaction /\ currentTx' = NoTransaction
        /\ ApplyAll(changes[currentTx], trail[1]) = [ok |-> TRUE, s |-> store']
        /\ ApplyAll(Reverting(changes[currentTx]), store') = [ok |-> TRUE, s |-> trail[1]]]_vars

\* From the moment a commit emits its change set until the object is deleted,
\* getChanges returns that change set; before that it only grows.
ChangeSetsAreHistory ==
    [][\A th \in Thread : \A tx \in holds[th] \cap holds'[th] :
         /\ IsPrefix(changes[tx], changes'[tx])
         /\ tx \notin Unresolved \/ InSlotOf(th, tx) => changes'[tx] = changes[tx]]_vars

\* A resolved transaction keeps its outcome, and only one of the two.
OutcomesAreFinal ==
    [][\A th \in Thread : \A tx \in holds[th] \cap holds'[th] :
         /\ tx \in committed => tx \in committed' \ abandoned'
         /\ tx \in abandoned => tx \in abandoned' \ committed']_vars

\* A transaction that has changes makes room for another one when it is deleted,
\* however its client, its slots or an exception left it (~D).  One without changes
\* does not: it stays current.
DeletionMakesRoom ==
    [][\A th \in Thread : \A tx \in holds[th] \ holds'[th] :
         changes[tx] # <<>> => currentTx' # tx]_vars

\* When a direct write under AutoTransaction returns, the committed contents
\* are what its transaction had made of them.
DirectWritesPersist ==
    [][\A th \in Thread :
         call[th].auto /\ pc[th] = "left" /\ pc'[th] = "idle" /\ ~raced
            => trail'[1] = Last(trail)]_vars

\* Every call returns, in every behaviour without such a race.
EveryCallReturns == \A th \in Thread : pc[th] # "idle" ~> pc[th] = "idle" \/ raced
=============================================================================
