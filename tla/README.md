# Dataquay in TLA+

Dataquay is a C++ library (Qt) over an RDF triple store. It wraps a backend
store (Sord or Redland) in classes that add transactions, connections, cached
properties and a mapping between QObjects and triples. This directory holds
TLA+ modules translated from its code, the TLC configurations that check them on
small instances, and proofs, checked by TLAPS, of what holds for every instance.

## The system

| part | state | operations | interacts with |
|---|---|---|---|
| `BasicStore` (`src/backend/`) | the set of triples, prefixes, base URI, `m_backendLock` | add, remove (of a triple or a pattern), change, revert, match, query, getUniqueUri, save, import | called by everything below |
| `TransactionalStore` | wrapped store, `m_mutex`, `m_currentTx`, `m_context` | startTransaction, direct reads, direct writes | replays and reverts change sets on the wrapped store; emits `transactionCommitted` |
| `TransactionalStore::TSTransaction` | `m_changes`, `m_committed`, `m_abandoned` | the Store operations, commit, rollback, getChanges | calls back into `TransactionalStore::D` |
| `Connection` | `m_tx` | the Store operations, commit, commitAndObtain, rollback | starts a Transaction on its first write; forwards the signals |
| `PropertyObject`, `CacheingPropertyObject` | a node, a prefix; the cache | getProperty, setProperty, removeProperty | a Store or a Transaction |
| `ObjectStorer` | object to node map, policies | store, removeObject | a Store |
| `ObjectLoader` | node to object map, policies | load, reload, loadAll | a Store, `ObjectBuilder`, `ContainerBuilder` |
| `ObjectMapper` | both maps, queues of changed and deleted objects, `m_inCommit`, `m_inReload` | add, manage, commit, slots for modified and destroyed objects and for transactionCommitted | a Connection, an ObjectStorer, an ObjectLoader |
| `TypeMapping`, `Node`, `Uri`, `Triple`, exceptions | values | conversions | all |

What makes it hard, and what would make it correct:

* **TransactionalStore.** There is one copy of the contents. While a transaction
  is pending, its changes are taken out of the store for every read from outside
  and put back for the next access from inside. Correct means that a direct read
  never sees a pending change, that a transaction always sees exactly its own,
  that a commit publishes exactly its change set, and that every one of the many
  exception paths leaves the mutex, the current transaction and the contents in
  agreement. Threads, slots that run inside a commit, and destructors that roll
  back are what makes this hard to test.
* **Connection.** Keeps a Transaction for as long as the client neither commits
  nor rolls back, although the Transaction may have rolled itself back meanwhile.
  Correct means that what is published and signalled is a whole unit of work of
  one connection, and that a connection which lost its transaction does not keep
  the others out.
* **BasicStore.** Change sets that are undone by running them backwards; imports
  that fail half way; two places that both say what the empty prefix is; a save
  that must not lose the old document wherever it fails or the process ends.
* **Properties.** A write is several calls on a store that others use, and a cache
  must agree with that store.
* **Object mapping.** The storer decides by an object to node map, which outlives
  its calls, what is written; the loader deletes, makes and changes objects that
  others own or point to; the mapper runs both against each other: a commit of its
  own must not come back as a reload, a reload must not come back as a change, and
  what others commit must reach its objects.

`PROJECT.json` lists each hazard of this kind at the line where it bites, with
the properties that watch it, or the reason why none does.

## Plan

Done, in this order: `TransactionalStore` and the abstract specification that it
implements; `Connection` over that abstract specification; `BasicStore`;
`PropertyObject`; `ObjectGraph` with `ObjectStorer` and `ObjectLoader` as pure
algorithms, `StoredObjects`, which runs one against the other, and `ObjectMapper`,
which runs both against a store that others write to. Proofs of every property that
is checked of these, liveness excepted and what is loaded in another process or by a
mapper; for those of `StoredObjects` and `ObjectMapper` the recursive walks of storer and
loader became folds.

Left, in the order of what it would add: exceptions of the loader and of the
connection inside the mapper's commits and reloads (`m_inCommit` and
`m_reloading` then stay set); properties of objects that are sets; policies that
change between calls of the storer; the immediate object callbacks of the loader.
To prove: `LoadingGivesBackWhatWasStored` and `InStep`, from what storer and loader compute
of a whole list or graph.

## Modules

| module | holds |
|---|---|
| `TransactionalStore` | the wrapper, its transactions and threads, with their properties |
| `IsolatedTransactions` | what a client of transactions is promised |
| `TransactionalStoreRefinement` | the refinement mapping from the one to the other |
| `TransactionalStoreProofs` | typing, and the inductive invariant of isolation; every step maps to a step of the promise or a stutter; the mutex and the open transaction, for disciplined clients; outcomes; what a commit publishes |
| `Connection`, `ConnectionProofs` | connections to a store that keeps that promise |
| `BasicStore`, `BasicStoreProofs` | contents, names, imports, saves and crashes, both backends |
| `PropertyObject`, `PropertyObjectProofs` | PropertyObject and CacheingPropertyObject on one node |
| `ObjectGraph`, `ObjectGraphProofs` | QObjects with parents, triples and nodes |
| `ObjectStorer`, `ObjectLoader` | from objects to triples, and back |
| `StoredObjects`, `StoredObjectsProofs` | a client that stores, changes and reloads objects |
| `ObjectMapper`, `ObjectMapperProofs` | the mapper, on `ObjectStorer` and `ObjectLoader` |
| `FoldTheorems` | what a fold along a sequence computes, for any operator |
| `MC...` | values of the constants for TLC |

The operators introduced as mutants in a module are plausible slips of the code.
Nothing in the module uses them: putting one in the place of the definition that
follows it is how each property was seen to fail.

### TransactionalStore

State. `store`, `mutex`, `currentTx` and `context` are the members of
`TransactionalStore::D`. `changes`, `committed` and `abandoned` are the members of
the `TSTransaction::D` objects, indexed by the object's address; `holds[th]` are
the objects that thread `th` has not deleted, and an address is used again after
a deletion, as `new` may do. `pc`, `call` and `committing` are the threads'
stacks: the line a thread has reached, the call it makes and its locals, and the
commits whose signals it is emitting. `trail` and `raced` are history: no action
of the code reads them. `trail` is the sequence of contents after each recorded
change of the current transaction, from the committed contents on, which is what
a client who does not know of the wrapped store would compute.

Atomicity. What happens between two points where another thread can act, or
where the code can throw, is one step. A call first waits for the mutex
(`StartTransaction`, `StartOperation`, `CommitTransaction`,
`RollbackTransaction`, `StartNonTransactionalAccess`), then replays or reverts
the change set one change at a time (`ReplayStep`, `RevertStep`, or
`ReplayFails`, `RevertFails`), then reads or writes (`WriteTakesEffect`,
`WriteRefused`, `StoreThrows`, `ReadInTransaction`, `MatchForRemoval`,
`DirectRead`), and unlocks. `Record` is the push onto `m_changes`, which the code
makes after it has unlocked the mutex. `PublishCommit` ends the critical section
of a commit. The slots of `transactionCommitted` are the calls the thread makes
from there until `FinishCommit`, which sets `m_committed`.

Exceptions. `Abandon` is the handler in each TSTransaction method, which rolls
back. `RollbackThrows` is what becomes of an exception from that rollback: it
leaves `rollback()`, replaces the one being handled, or leaves a destructor and
ends the process (`crashed`). `startOperation` throws with the mutex held and no
destructor to release it, so its handler waits for a mutex its own thread holds.

Data. A triple is a model value and an incomplete triple is a value of its own.
add, remove, change, revert and import are sequences of adds and removes that
differ in how a refusal is taken (`onFalse`). The removal of a pattern is modelled
for a pattern that every triple matches, with its matches in any order.
A transaction's m_changes, read while its owner pushes onto it, or after its
deletion, is undefined behaviour: the read sees what was there before, or the
process ends (`ReadUndefined`).

Clients. A Transaction is used by the thread that started it only, as
`TransactionalStore.h:71` says. Three things some clients do are switched on by
the constant `Liberties`: direct reads, slots that use the committing transaction,
and deletion of a transaction that was not resolved. Not modelled: writes to the
wrapped store from elsewhere (forbidden by `TransactionalStore.h:101`), slots that
throw, calls with an empty change set, deletion of the TransactionalStore while in
use.

### IsolatedTransactions

`published` are the contents everyone agrees on, `owner` is the set of threads
with an open transaction (one, or none), `working` is what it has made of them,
and `shown[th]` is what the access that thread `th` is making finds. A transaction that opens starts from
`published`, its changes touch `working` one triple at a time, `Commit` publishes
`working` at once, `Discard` drops it. `TransactionalStoreRefinement` maps `shown` to the
contents of the wrapped store while a thread stands at its access, and the rest
to the history of the current transaction.

### Connection

`published`, `working` and `current` are the store, as `IsolatedTransactions`
describes it; `tx[c]` is the state of the transaction that `m_tx` of connection
`c` points to, or `"none"`, and `changes[c]` its `m_changes`. Every connection is
used by a thread of its own. A write (`Modify`) is one step, as the abstract
specification allows: no other connection can write between its changes, and
their order and the point where one is refused are kept (`RunWrite`). `Incomplete` is a
triple that is no statement, as with a literal for its subject, for which the store throws;
a triple with empty nodes is a pattern (`RemoveMatching`). A commit is two steps, `Commit` and
`Announce`: the store signals after it has unlocked, so that another connection may
commit in between. `Delete` is the destructor, which commits, and ends the process
if that throws. `unit` and `replica` are history: what a unit of work changed, and
the contents that a client has who applies every change set that is signalled.

### BasicStore

Every operation holds the backend's lock and is one step; `save` is one step for
each of its calls on the file system, so that a crash can come between any two.
`Crash` drops the store and keeps the files; `Load` makes a new one. The choice of
`backend` is made once: where Sord and Redland differ (blank nodes of a document,
names in queries, which errors of a save are noticed) an operator says so. URIs
are records of namespace and local name, so that relative URIs, base URIs and
prefixes act as they do in the code; which of several matches `matchOnce` returns is
left open. An import reads some lines of its document and fails, at the last of them
too, or reads all. A crash while the partial file is written leaves it cut. `overridden`, `cutShort` and `stranded` are history: the client gave
the empty prefix another meaning, a write lost data without an error, a save was
begun when only the partial file was left.

### PropertyObject

All objects are on one node; the other properties of the store do not matter to
them. A write is one step that removes the old values and one for each new value
(`BeginWrite`, `AddValue`, `Return`), with any step of others in between;
`AddThrows` is an incomplete value, alone or within a list, or a direct write while a transaction is open,
whose exception leaves the method before `m_cached` is reset. Each object's store
is the store itself, or a transaction, or a Connection. `contended` and `disturbed`
are history: another object wrote the same property while a write ran; somebody
else changed what a cache was filled from, or a write threw.

### ObjectGraph, ObjectStorer, ObjectLoader, StoredObjects

Objects are of one class with a literal, an object and a sequence property, which
are the three ways in which the code treats values, and have parents and ordered
children. Storer and loader are pure: an operator for each of their functions takes
the state of the call (triples, objects, map, policies, the sets of what is still to
do) and returns the next. A loop, or a recursion, is a fold of its body over a number
of rounds that it does not exceed, which is named where it is used (`Times`): a walk
along list nodes, siblings or parents has at most as many steps as there are triples
that lead on, or goes round in a circle, which the code never leaves (`Chain`): a load
that meets a list or siblings of that kind never returns (`Hang`). `LoadType` leaves the
caller the map that it came with, as the code does.
`Collect` is the walk that decides what to store, `AllocateNode` gives nodes, `StoreObject` writes one object, `RemoveUnusedNode` is the
cascade along a list; `CollectNodes`, `AllocateUnder`, `Initialise` and `Populate`
are the phases of the loader, which may throw, or never end (`outcome`), or need more
objects than the bound `MaxObjects` has. Sets are
walked in two orders, up and down. `StoredObjects` is a client with one setting of
the policies: it changes, moves and destroys objects, others change literals and
types or remove objects, and it stores (`StoreObjects`) and reloads (`Reload`) any or
all, with or without the map of earlier calls. `LoadingGivesBackWhatWasStored` asks what
a new process would load, where no type is unknown, no node belongs to two objects and
no parents or siblings go round in a circle; each of these exceptions is a disagreement
described below.

### ObjectMapper

The variables are the mapper's members. `Add`, `Modify` and `Destroy` are what the
client does, with the slots `objectModified` and `objectDestroyed` that run within
it. `CommitStores` is `commit()` up to the store's signal, `CommitEnds` is what
follows it; in between, slots of that signal may be any of the other actions, and a
commit by others is taken for the mapper's own. `OtherCommits` is a commit of another
connection with the reload that follows. `Load` is `load` and `loadType`. Calls of the
loader that throw, never end or find no room are not followed further (`Going`). `lapses`
is history and names the cases in which objects and store may part:
`"slot"` a slot of the mapper's own commit changed something, `"element"` others
changed a list node that no map has, `"revived"` an object was loaded whose removal
waits for a commit, `"twice"` the client loaded a node that has an object already,
`"lost"` a child was reloaded together with its removed parent. `InStep` claims
agreement where none of these happened, which is what the code can be trusted with;
each of the five is a disagreement described below.

## Runs

| run | instance | shows |
|---|---|---|
| `single_thread` | 1 thread, 2 addresses, 2 triples, 3 changes | a client that keeps to the documentation gets isolation, its own changes, exact commits and a free mutex, and never gets stuck; deadlock is checked; the abstract specification is implemented |
| `two_threads` | 2 threads, 2 addresses, 1 triple, 2 changes, fairness | the same between threads until a race, and every call returns |
| `liberties` | 1 thread that drops, re-enters and writes directly | outcomes and published change sets are final, the abstract specification is implemented and with it the isolation of reads, a dropped transaction with changes makes room for the next, whatever the client does |
| `connection` | 2 connections, 2 triples, 4 changes | the current transaction is the open one, reads see the unit of work, commits publish whole units, replicas follow unless a commit overtakes a signal |
| `basic_store` | both backends, 2 namespaces, 2 documents, 4 writes, imports and saves | change sets can be undone, reads agree, imports are all or nothing and keep blank nodes apart, a saved document survives |
| `properties` | a CacheingPropertyObject and a PropertyObject with a short prefix, 1 name, 2 values | the cache is exact unless disturbed, writes replace what they write |
| `object_store` | 2 graphs of 3 objects, 4 settings of the policies, 1 edit, 2 calls | what is stored can be loaded, what is reloaded agrees, nothing else is rewritten, storing again changes nothing, lists go whole |
| `object_mapper` | a parent, a child and a list; 2 edits, 2 commits of others, 2 commits | objects and store agree when nothing waits, the maps agree, destroyed objects leave the store |
| `dirty_read` | 2 threads, 1 triple | **violation**: a direct read between a write and its push onto `m_changes` sees uncommitted contents |
| `direct_write` | 1 thread | **violation**: a direct write under AutoTransaction does not persist |
| `lists_lost` | 3 objects, one list, NeverUseBlankNodes | **violation**: a list stored again without its first element is lost |
| `list_changes` | a parent, a child and a list | **violation**: a changed element of a list does not reach the object that was loaded with it |

What each run checks, by the name of the definition:

| run | module | properties |
|---|---|---|
| `single_thread` | `MCTransactionalStore` | `TypeOK`, `DirectReadsAreIsolated`, `TransactionsSeeTheirChanges`, `ContextSwitchesSucceed`, `MutexIsReleased`, `OneOpenTransaction`, `CommitsPublishTheirChangeSet`, `ImplementsIsolation` |
| `two_threads` | `MCTransactionalStore` | `IsolatedUnlessRaced`, `CommitsPublishTheirChangeSet`, `EveryCallReturns`, `ImplementsIsolationUnlessRaced` |
| `liberties` | `MCTransactionalStore` | `ChangeSetsAreHistory`, `OutcomesAreFinal`, `DeletionMakesRoom`, `ImplementsIsolation` |
| `dirty_read` | `MCTransactionalStore` | `DirectReadsAreIsolated` |
| `direct_write` | `MCTransactionalStore` | `DirectWritesPersist` |
| `properties` | `MCPropertyObject` | `TypeOK`, `CacheIsExactUnlessDisturbed`, `WritesReplaceTheProperty` |
| `basic_store` | `MCBasicStore` | `TypeOK`, `RevertUndoesChange`, `ReadsAgree`, `SomeCopySurvives`, `ImportsAreAllOrNothing`, `ImportsKeepBlankNodesApart` |
| `connection` | `MCConnection` | `TypeOK`, `CurrentIsTheOpenOne`, `ReadsSeeTheUnitOfWork`, `ReplicasFollow`, `CommitsPublishWholeUnits` |
| `object_store` | `MCStoredObjects` | `TypeOK`, `LoadingGivesBackWhatWasStored`, `NoListIsLeftBehind`, `ReloadedObjectsAgree`, `StoringAgainChangesNothing`, `OnlyWhatIsAskedIsRewritten` |
| `object_mapper` | `MCObjectMapper` | `TypeOK`, `InStep`, `MapsAgree`, `DestroyedObjectsLeaveTheStore` |
| `lists_lost` | `MCStoredObjects` | `ListsAreReplaced` |
| `list_changes` | `MCObjectMapper` | `ListChangesReachObjects` |

Bounds of the transactional store. Two addresses are enough to have one transaction
whose commit is emitting its signals, or that is resolved and not yet deleted, while
the next one is current. Three changes allow a change set that adds, removes and
adds the same triple, a change set refused in its middle, and a pattern removed
after a write; two triples tell a reversal in the right order from one in the wrong
order. Two threads are enough for each pair of accesses to interleave; what holds
with more is in the proofs. `MaxChanges` bounds the calls a client makes, never a
step of the code. Deadlock is not checked where the system may really stop: after a
race or a re-entry every thread may wait for the mutex, and the process may end.

Bounds of the others, which again only limit what clients and others do.
`connection`: two connections suffice for one to hold the transaction that the other
needs, and for one commit to overtake another's signal; four changes for two units of
work of two. `basic_store`: four operations are a write, an import and two saves, the
second of which may be cut off anywhere, and two documents have blank nodes with the
same label. `properties`: the values are one URI, one literal and the missing node;
lists have up to two values; writes and caches are not bounded at all, as the state is
finite. `object_store`: two calls, with a change between them, are a store and a reload, or a
store that finds what an earlier one left; the graphs hold objects that refer to each other, a shared
list element, and a parent with two children. `object_mapper`: two of each lets
a change meet a commit of others, and a destruction meet a reload, before and within a
commit. Deadlock is not checked where the bounds end the run; it is in
`basic_store` and `properties`, whose clients can always go on.

Fairness (`FairSpec`, used by `two_threads`). The operating system runs every
thread, so a step of a running call is weakly fair. A thread that waits for the
QMutex gets it eventually if it becomes free again and again: the wait is
strongly fair. Nothing is assumed of when clients make calls, or of when slots
return. The other components run in one thread, or hold a lock for each operation, and
wait for nothing: no property of theirs needs fairness.

## Proofs

| theorem | module | property of a run |
|---|---|---|
| `TypesAreKept` | `TransactionalStoreProofs` | `TypeOK` |
| `Isolation` | `TransactionalStoreProofs` | `IsolatedUnlessRaced` |
| `SingleThreadReadsAreIsolated` | `TransactionalStoreProofs` | `DirectReadsAreIsolated` |
| `SingleThreadTransactionsSeeTheirChanges` | `TransactionalStoreProofs` | `TransactionsSeeTheirChanges` |
| `SingleThreadSwitchesSucceed` | `TransactionalStoreProofs` | `ContextSwitchesSucceed` |
| `Implementation` | `TransactionalStoreProofs` | `ImplementsIsolationUnlessRaced` |
| `SingleThreadImplementation` | `TransactionalStoreProofs` | `ImplementsIsolation` |
| `Discipline` | `TransactionalStoreProofs` | none: `MutexIsReleased` and `OneOpenTransaction` until a race, any number of threads |
| `SingleThreadUnlocks` | `TransactionalStoreProofs` | `MutexIsReleased` |
| `SingleThreadOpensOne` | `TransactionalStoreProofs` | `OneOpenTransaction` |
| `HistoryUnlessRaced` | `TransactionalStoreProofs` | none: `ChangeSetsAreHistory` and `OutcomesAreFinal` until a race, any number of threads |
| `SingleThreadHistory` | `TransactionalStoreProofs` | `ChangeSetsAreHistory` |
| `SingleThreadOutcomes` | `TransactionalStoreProofs` | `OutcomesAreFinal` |
| `RoomUnlessRaced` | `TransactionalStoreProofs` | none: `DeletionMakesRoom` until a race, any number of threads |
| `SingleThreadMakesRoom` | `TransactionalStoreProofs` | `DeletionMakesRoom` |
| `CommitsPublish` | `TransactionalStoreProofs` | `CommitsPublishTheirChangeSet` |
| `CurrentAgrees` | `ConnectionProofs` | `CurrentIsTheOpenOne` |
| `TypesAreKept` | `ConnectionProofs` | `TypeOK` |
| `ReadsAreOfTheUnitOfWork` | `ConnectionProofs` | `ReadsSeeTheUnitOfWork` |
| `ReplicasKeepUp` | `ConnectionProofs` | `ReplicasFollow` |
| `CommitsPublishUnits` | `ConnectionProofs` | `CommitsPublishWholeUnits` |
| `SavedDocumentsSurvive` | `BasicStoreProofs` | `SomeCopySurvives` |
| `EmptyPrefixAgrees` | `BasicStoreProofs` | none: a part of `ReadsAgree` |
| `ChangesCanBeUndone` | `BasicStoreProofs` | `RevertUndoesChange` |
| `ImportsAreWhole` | `BasicStoreProofs` | `ImportsAreAllOrNothing` |
| `TypesAreKept` | `BasicStoreProofs` | `TypeOK` |
| `BlankNodesStayApart` | `BasicStoreProofs` | `ImportsKeepBlankNodesApart` |
| `AllReadsAgree` | `BasicStoreProofs` | `ReadsAgree` |
| `TypesAreKept` | `PropertyObjectProofs` | `TypeOK` |
| `CacheExactness` | `PropertyObjectProofs` | `CacheIsExactUnlessDisturbed` |
| `WritesReplace` | `PropertyObjectProofs` | `WritesReplaceTheProperty` |
| `MapsAreInverse` | `ObjectMapperProofs` | `TypeOK` |
| `CommitsFindMapsInAgreement` | `ObjectMapperProofs` | `MapsAgree` |
| `ObjectsAreInOrder` | `StoredObjectsProofs` | `TypeOK` |
| `NoListNodeIsLost` | `StoredObjectsProofs` | `NoListIsLeftBehind` |
| `OthersAreLeftAlone` | `StoredObjectsProofs` | `OnlyWhatIsAskedIsRewritten` |
| `StoringAgainIsIdempotent` | `StoredObjectsProofs` | `StoringAgainChangesNothing` |
| `ReloadedObjectsHaveWhatTheStoreSays` | `StoredObjectsProofs` | `ReloadedObjectsAgree` |
| `CommitsLeaveNoDestroyedObjects` | `ObjectMapperProofs` | `DestroyedObjectsLeaveTheStore` |

`TransactionalStoreProofs` has one part for each of these questions. It first proves typing, under the two assumptions on the
constants that `TransactionalStore` states. `TypeInv` strengthens `TypeOK`
with what makes a step type-correct: a thread that replays, reverts or writes has
a position inside its sequence, a thread at work has a transaction, and the trail
is never empty.

It then proves `IsolatedUnlessRaced` for any number of
threads, addresses, triples and changes, with all liberties and both behaviours
of direct writes. Direct induction fails because a replay starts from whatever
state earlier accesses left behind. The inductive invariant says, until a race:

* *ownership*: threads hold disjoint sets of objects, and the objects a thread
  works on, or is emitting commits for, are its own;
* *exclusion*: at most one thread is inside the critical section, and then holds
  the mutex; only one change at a time waits to be recorded, for the current
  transaction;
* *trail*: the trail is the committed contents followed by the effect of each
  recorded change, each of which took effect;
* *store*: the contents are determined by the position of the thread inside the
  critical section, and by `context` if there is none: the committed contents, or
  the last of the trail with the change that waits to be recorded.

A context switch cannot fail because each change it reverts or replays is one
that took effect between two neighbouring entries of the trail.
`SingleThreadNeverRaces` shows that one thread never races, so that the three
properties hold without condition, each a theorem of its own. TLC checks the same invariant on small
instances.

The simulation proves that each step maps to a step of
`IsolatedTransactions` or to a stutter. It needs no invariant of its own: each
step is taken from a state in which the invariant of isolation holds, which fixes
the contents a thread finds at its access, and says that the step which extends
the trail (`Record`) is taken for the transaction that is open. The mapping reads
what is published and what is open from the trail and the current transaction, so
that context switches, which only move the store between the two, are stutters.

What is known of outcomes has four parts. The first assumes `Disciplined` clients: they resolve every
transaction before they delete it, do not use one from the slots of its own commit,
and the store's direct writes throw. `DisciplineInv` then holds until a race: every
thread that works for a transaction works for the current one, so that no integrity
check fails (`Proper`); an unresolved transaction is current or emitting its commit
(`OpenIsCurrent`); the current one still exists (`CurrentIsOpen`); and the mutex is
free or held inside a critical section. Without the discipline each of these fails,
which is two of the disagreements below. It needs the ownership and exclusion of the isolation
invariant: only they say that another thread cannot be at work for the transaction
that a step resolves. `Discipline` is the result for any number of threads,
`SingleThreadUnlocks` and `SingleThreadOpensOne` drop the condition on races.

The second part proves `ChangeSetsAreHistory` and `OutcomesAreFinal` for
one thread with all liberties, and the same steps for any number of threads until a
race. The strengthening (`OutcomeInv`) is that nothing has two outcomes and that a
transaction in a thread's stack of commits was not abandoned; the rest is ownership,
which keeps the current transaction out of every such stack.

The third part proves `DeletionMakesRoom`, for one thread and, until a race, for any
number (`RoomUnlessRaced`): ownership says that what was committed or abandoned is not
current, so the destructor forgets nothing with changes that still is.

The fourth part proves `CommitsPublishTheirChangeSet` for any number of threads. By the
invariant of isolation the trail leads from the committed contents to the store's, one
effective change at a time; so applying the change set as a whole follows the trail
(`ApplyAllLeads`), and the reverted change set follows it backwards.

`FoldTheorems` holds the induction that these and the following proofs rest on. The
library states induction over numbers for an operator that the provers cannot
instantiate, so the module proves it for sets (`NatSetInduction`): `<` is well-founded
on the numbers, and the least one outside a set that is closed under successor would
have a smaller one. From it follow, for any operator `Op`, that a fold from the left is
the last value of a function defined along the sequence (`FoldIsLastStep`), what it
gives for the empty sequence, one more element and a concatenation, and that it keeps
what each step keeps (`FoldKeeps`, or `FoldInduction` for what depends on the step).
`Op` and the invariant `Inv` are parameters of the module, and every use is an instance
of it. Its `Fold` is `FoldLeft` of the community modules written out: small as it is, the
provers take many instances of it, and where one is used a lemma unfolds both.

`ConnectionProofs` proves `CurrentIsTheOpenOne`, which is inductive with the types of
`tx` and `current`: each action begins, loses or forgets a connection's transaction,
or touches neither. The others need `UnitInv`, which TLC has checked too: the working
contents are the published ones with the open unit of work, which is the open
transaction's change set, each change of which took effect (`UnitsOK`); and a client that
follows the signals is behind by exactly the change set that is being signalled, unless
commits overlapped (`ReplicaOK`). A write that removes or imports many triples adds one
change for each of them, in an order that is left open; that each is effective, and
what all of them make of the contents, is a fold (`RemoveAll`, `AddAll`). This is where
`Contents` has to be finite sets, as what a store holds is.

`BasicStoreProofs` proves `SomeCopySurvives` from where a document is at each stage of
a save (`SavesInv`): a save that is past its write has the partial file whole, or has
lost data unnoticed; at rest, what was saved last is in the file, unless a rename
did not happen, when it is in the partial file. `EmptyPrefixIsBase`, a
part of `ReadsAgree`, follows from an invariant of its own (`EmptyInv`): `m_baseUri` and
the empty prefix agree through imports, saves and loads. `RevertUndoesChange` needs no
invariant: by induction along the change set, from any contents, what was done after `n`
changes is what is left when all but the first `n` are undone, in both directions.
`ImportsAreAllOrNothing` follows from the order of parsing, check and transfer.
`TypeOK` and `ImportsKeepBlankNodesApart` need `StoredInv`, which TLC has checked: the store and the files hold
RDF statements only, and every blank node in them carries stamps of past imports only.
So a document's blank nodes, which get the stamp of the present import, meet none of them
with the same label; where Sord does not stamp them, the store is empty. The rest of
`ReadsAgree` is then a matter of which pattern has which wildcards.

The proofs about `BasicStore` assume of its constants what `BasicStoreConstants` and
`BasicStoreInputs` state: kinds of nodes are disjoint, documents are sets of lines that
the parsers can deliver, change sets are finite sequences of changes. A change set that
names blank nodes only names ones that an import has made (`Known`), as a client has
them from nowhere else.

`PropertyObjectProofs` proves typing; `CacheIsExactUnlessDisturbed`, from the fact that
an undisturbed cache equals what its object sees while the object is idle (`CacheInv`);
and `WritesReplaceTheProperty`, from what a write in progress has achieved so far
(`ActiveInv`): what is there and what is still to add make up what was wanted, in the
store and in a transaction that was begun since, unless another wrote the property.
The proof needs that no object is named `"transaction"` (`TransactionIsNoObject`),
which is how history notes the steps of a transaction's client.

`ObjectMapperProofs` proves that the mapper's two maps are each other's inverse, and
that a commit which throws because they contradict each other follows a node that the
client loaded twice. Both need `MapperInv`, which TLC has checked on the instance of
`object_mapper`: objects and triples are well-formed (`IsGraph`, `GoodTriples`); objects
that have a node are watched and have its URI, and nodes those objects that have them
(`IsNetwork`); and, until a node is loaded twice, every living object that has a URI is
in both maps (`MapsAll`), also between the two halves of a commit, where `TypeOK` claims
less. Only `MapsAll` makes it inductive: a commit stores objects that are not in the map,
and those that it gives a URI must not have been in it under another.

An action of the mapper is a call of the storer or of the loader and what the mapper
makes of it, and the proof has the same parts. Of the storer: what it collects are
living objects, and those that it allocates are the ones without a node
(`CollectFinds`); allocation gives nodes that are the URIs of their objects and, being
fresh, no other's (`AllocationAllocates`); writing the objects changes triples only
(`Stores`). `StoreGives` sums this up. Of the loader: while it collects, it only deletes
objects, whose nodes are then null in its map (`Collects`); from there on it only adds
objects, each for a node that was to be allocated and that has its URI (`Grows`), through
all of allocation, lists and references. `Loads` sums this up. Of the mapper: `manage`
keeps the network and adds those objects to it that have URIs (`ManagesAll`), a
deletion takes the deleted out of it (`ForgetAllForgets`), and the loader's map is a
network with its inverse (`SyncMapKeeps`). Each of these is an invariant of a fold, by
`FoldInduction` of an instance of `FoldTheorems`. Of the constants, `Graphs` has to be
graphs whose pointers lead to living objects without URIs, and `Lists` sequences.

`CommitsLeaveNoDestroyedObjects` needs `LeftInv` besides, which TLC has checked as well:
unless there was a lapse, every node whose object is gone (`Vacant`) and that still has a
type in the store is among `m_deletedObjectNodes`, and while a commit's signal is sent
there is none. Who destroys an object, the client or a reload, leaves its node there
because the object was watched (`DestroyWaits`, `HearTells`); a reload keeps back the
nodes that it was asked for, of which one without an object is the lapse `"lost"`. The
commit removes every triple about the nodes that wait (`RemoveObjectsRemoves`), what it
stores types nodes of objects only (`KeepsTypes`, `Stores`), and by `MapsAll` those have
their objects in the other map. Other connections type no node (`OthersKeepTypes`).

`StoredObjectsProofs` is about what a client with a storer and a loader can rely on. Its
inductive invariant (`Inv`), which TLC has checked on small graphs, has five parts:

* *objects* (`ObjectsInOrder`): parents and children agree and pointers lead to living
  objects (`IsGrove`); an object's node is its URI where that is one (`NodesFit`); and a
  client that keeps its map has no two objects with one node (`NoNodeIsShared`), and every
  URI of an object in it (`UrisAreNodes`), unless a load has failed;
* *the store* (`StoreInOrder`): each triple is one that the storer writes (`Fits`). Nodes of
  objects and nodes of lists are told apart by what they are subjects of: a node of a list
  has only `first` and `rest`, and no list begins or goes on with a node of an object, so
  that the cascade that removes a list never goes into an object where objects have URIs. A
  property has one value (`SingleValued`), and, where objects have URIs, each blank node is
  referred to (`NoneLost`);
* *bounds*, and that what was stored is alive;
* *what was asked for* (`AskedAreSettled`): until something else happens, the objects of the
  last call are `Settled`, which is to say that their type, literal, object, parent and
  preceding sibling are in the store as writing them again would write them; and every
  object to which a walk from them leads has a node.

A call of the storer keeps this. Its first phase collects the objects to store and to
allocate (`CollectInv`), its second gives nodes (`Numbered`), its third writes one object
after another. Between two of its writes a blank node may wait for its first reference, and
`Stage` says which (`X`): the list that is built before it is referred to, and the old one,
whose nodes are removed one by one from the head until one is still in use (`Removal`, by
induction along the cascade, whose number of rounds is bounded by the triples that lead
on). `CallStores` sums this up, and `OthersAreLeftAlone` follows from what it says of the
triples about objects that were not asked for: they are not collected for writing, and
no cascade reaches them. `CallStoresAgain` is the second half of
`StoringAgainIsIdempotent`: for settled objects nothing is collected beyond those asked for,
no node is allocated, and each write replaces triples by themselves but for the nodes of
lists, which are built again and whose old ones go. Order does not matter, because what
settles an object is not touched by writing another.

The loader keeps the invariant by `IsLoaderCall`, which relates each state of a call to the
one in which it began: its map leads to living objects, each the object of one node, which
is its URI; only nodes that have a type are allocated; no object that it did not delete
loses its URI; and if all URIs were mapped, they still are. It goes through the phases, and
through the walks over parents, siblings, children and property nodes, by `FoldInduction`.

That each node that was asked for is loaded as well is `ReloadedAgree`. The rounds of
collection note each of them (`Gathers`). From then on no node may be forgotten: until a
node is populated it is either still to allocate or has an object, and is either still to
initialise or has its literals (`Ready`), and each step keeps this where all types are
known (`Moves`). The allocation leaves nothing to allocate (`AllocateAllMoves`), so that no
object is made while references and lists are set; each is then set from the store
(`ListIsSet`, by induction along the list), and is not disturbed by setting another's
(`PopulateAllGives`). The objects of two nodes being two, this is what the client finds.

`TypeOK` and `NoListIsLeftBehind` are consequences of `Inv` itself. The proofs assume of the
constants what `StoredObjectsConstants` states: objects begin as forests without URIs, lists
are finite sequences of literals and objects, and the settings are those of the code.

Only model-checked:

* liveness (`EveryCallReturns`), which this prover does not reach;
* `LoadingGivesBackWhatWasStored` of `StoredObjects`: it also needs what the storer has
  written of a whole list or family, and that the loader's walks over it end, neither of
  which the proofs have;
* `InStep` of `ObjectMapper`: it needs, of every interleaving of changes, commits and
  reloads, that the last of them read the last triples;
* `ENABLED`, so that nobody is left without a step (the deadlock checks of the runs).

## Not modelled

* `TypeMapping`, `ObjectBuilder` and `ContainerBuilder`: tables of names and factories,
  filled before use. The loader's model tells a class that is known from one that is not.
* Conversions of `Node` to and from variants and text, and the text of URIs: nodes are
  compared and never taken apart, apart from prefixes and relative URIs. Documents hold
  no URI that the constructor of `Uri` throws for (`Uri.cpp:112`).
* In `Connection`: change sets with patterns, triples with empty nodes, for `change` and
  `revert`; `remove` takes them.
* SPARQL, beyond what a prefixed name in a query stands for; streaming operators,
  debug output and the examples. `TransactionalCommand` among these is what
  `TransactionalStore` shows of a transaction that nothing commits.
* In `PropertyObject`: the default prefix of the process, and writing through a store
  that several threads' transactions share.
* In `ObjectStorer` and `ObjectLoader`: properties that are sets, type mappings that
  the client supplies, immediate callbacks, and policies that change between calls.
* In `ObjectMapper`: exceptions of loader and connection inside a commit or a reload,
  other policies than those it is constructed with, and `unmanage`, which is a stub.
* Writes to the wrapped store from elsewhere, which the documentation forbids.

## Disagreements with the documentation

Four are runs that end in a violation, listed under `findings`:

* `dirty_read`, `direct_write`: the class documentation of `TransactionalStore` promises
  isolation between threads, and that a direct write under AutoTransaction is closed
  and stays.
* `lists_lost`: under NeverUseBlankNodes the new list reuses nodes of the old one, whose
  removal then takes them away.
* `list_changes`: list nodes lead to their object only after a commit of the mapper's own.

Others were read off the models and have no run of their own.

TransactionalStore and Connection:

* The destructor's comment (`TransactionalStore.cpp:335`) describes the stall that it
  causes itself for a transaction without changes, which stays current; `DeletionMakesRoom`
  excepts it. No client need be at fault: a direct write under AutoTransaction that has
  no effect is enough.
* The mutex is described as recursive (`TransactionalStore.cpp:262`) and is not: a slot
  that uses the transaction whose commit is being signalled waits for its own thread.
* `change()` in a transaction keeps what it did before it was refused, where
  `Store.h:91` calls it atomic.
* After an exception `Connection` keeps its dead transaction: `rollback` throws before
  it forgets it, and every later call fails, the destructor's commit included.

BasicStore and properties:

* `BasicStoreSord.cpp:408` says that a failure after the partial file is complete does
  not matter; if the rename fails, the next save overwrites the only copy.
* `setProperty` of a CacheingPropertyObject that throws on its second call has already
  removed the old values and leaves the cache as it was.
* `getPropertyNames` compares with the prefix as given, so that it lists nothing for a
  short one, where the header says that all names with the prefix are listed.

Object mapping:

* `loadType` loads into a copy of the map, never writes it back, and looks its objects up
  in the old one, so that it returns none that it has just loaded, where
  `ObjectLoader.h:216` says that the map is updated and the objects returned
  (`LoadTypeGivesTheObjects` does not hold). `ObjectMapper::loadType` passes that on.
* A node of unknown type that is to be ignored stays among those to allocate, so that a
  later reference to it throws out of the whole load.
* After a parent was removed from the map its children keep the stale parent property,
  and `follows` properties left by partial stores can form a cycle on which a load
  with siblings never ends.
* Storing again writes new list nodes each time, and lists with common elements share
  nodes under NeverUseBlankNodes.
* With PermitBlankObjectNodes and a map that is kept, storing an object that pointed to
  another with a blank node removes the triples of that one, even if the same call has
  just stored it, where `ObjectStorer.h:310` says that objects and their nodes are added
  (`StoredObjectsAreInTheStore` does not hold).
* `removeObject` also removes the triples in which the node is the object.
* `isListNode` is satisfied by a node with one of `first` and `rest`.
* An object that was added to a mapper without a URI and is then destroyed leaves a
  dangling pointer that the next commit follows (`CommitCrashes`).
* The five lapses of `ObjectMapper` above; after `"twice"` every later commit throws.
* `unmanage` does nothing, and a client that changes an object's `uri` property leaves
  the old entry in both maps.
