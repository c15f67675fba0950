------------------------- MODULE TransactionalStoreProofs -------------------------
(*****************************************************************************)
(* Theorems about TransactionalStore, for all values of its constants, in     *)
(* every behaviour until an access has reverted a change that was not         *)
(* recorded yet, and in every behaviour of a single thread:                   *)
(*   - its variables keep their types, and direct reads are isolated from the *)
(*     pending transaction;                                                   *)
(*   - it implements IsolatedTransactions;                                    *)
(*   - for clients that resolve every transaction they start and do not use   *)
(*     one from the slots of its own commit, the current transaction is the   *)
(*     open one, and no exception leaves the mutex locked;                    *)
(*   - with all liberties, a resolved transaction keeps its outcome and its   *)
(*     change set, what a commit publishes is that change set, and a deleted  *)
(*     transaction that has changes does not stay current.                    *)
(*****************************************************************************)
EXTENDS TransactionalStoreRefinement, TLAPS

-------------------------------------------------------------------------------
(* Types.                                                                     *)

(* What a call in progress looks like, beyond its type.                       *)
OpFits(label, op) ==
    /\ label \in {"replay", "body"} => op \in {"write", "match", "read", "commit"}
    /\ label \in {"revert", "left"} => op \in Releases \cup {"ntread"}
    /\ label = "record" => op = "write"
    /\ label = "destroy" => op = "drop"
    /\ label \notin {"start", "idle"} => op # "none"

CallOK(th) ==
    /\ pc[th] = "idle" => call[th] = NoCall
    /\ pc[th] = "start" \/ call[th].op \notin {"none", "ntread"} => call[th].tx \in Tx
    /\ OpFits(pc[th], call[th].op)
    /\ call[th].auto => call[th].op \in Ops \ {"none", "ntread", "commit", "rollback"}
    /\ call[th].op = "write" => call[th].n \in 1 .. Len(call[th].todo)
    /\ call[th].op = "match" => call[th].n = 1
    /\ pc[th] = "record" => Todo(th).t \in Triple

ThreadsOK ==
    /\ pc \in [Thread -> PCs]
    /\ call \in [Thread -> CallRecord]
    /\ \A th \in Thread : CallOK(th)

TypeInv == TypeOK /\ trail # <<>> /\ ThreadsOK

-----------------------------------------------------------------------------
(* Lemmas on change sets.                                                     *)

\* The opposite of a change is a change.
LEMMA OppositeType == \A c \in Change : Opposite(c) \in Change
BY DEF Opposite, Change

\* What revert() asks for is a change set as long as the one it reverts.
LEMMA RevertingType ==
    ASSUME NEW cs \in Seq(Change)
    PROVE  Reverting(cs) \in Seq(Change) /\ Len(Reverting(cs)) = Len(cs)
<1>1. \A i \in 1 .. Len(cs) : Opposite(cs[Len(cs) + 1 - i]) \in Change
  BY OppositeType
<1>2. Reverting(cs) \in [1 .. Len(cs) -> Change]
  BY <1>1 DEF Reverting
<1> QED BY <1>2

\* What import() asks for is a change set as long as the document.
LEMMA AddingType ==
    ASSUME NEW doc \in Seq(Triple)
    PROVE  Adding(doc) \in Seq(Change) /\ Len(Adding(doc)) = Len(doc)
<1>1. \A i \in 1 .. Len(doc) : [op |-> "add", t |-> doc[i]] \in Change
  BY DEF Change
<1>2. Adding(doc) \in [1 .. Len(doc) -> Change]
  BY <1>1 DEF Adding
<1> QED BY <1>2

\* The removal of all matches is a change set, which removes something unless
\* nothing matches.
LEMMA RemovalOrdersType ==
    ASSUME NEW S \in SUBSET Triple, NEW r \in RemovalOrders(S)
    PROVE  r \in Seq(Change) /\ (S # {} => 1 \in 1 .. Len(r))
<1>1. PICK n \in 0 .. MaxChanges : r \in [1 .. n -> [op : {"remove"}, t : S]]
  BY DEF RemovalOrders
<1>2. n \in Nat
  BY ValuesAssumption
<1>3. r \in [1 .. n -> Change]
  BY <1>1 DEF Change
<1>4. r \in Seq(Change) /\ Len(r) = n
  BY <1>2, <1>3
<1>5. S # {} => DOMAIN r # {}
  BY DEF RemovalOrders
<1> QED BY <1>1, <1>2, <1>4, <1>5

\* A thread that is in no call has a call record of the right type.
LEMMA NoCallType == NoCall \in CallRecord
BY DEF NoCall, CallRecord, Ops, OnFalse

\* The write calls on tx have the right type, and start at their first change.
LEMMA WritesType ==
    ASSUME NEW tx \in Tx, NEW c \in Writes(tx)
    PROVE  /\ c \in CallRecord /\ c.op = "write" /\ c.tx = tx /\ c.n = 1
           /\ c.auto = FALSE /\ c.cs = <<>> /\ c.i = 0
<1>1. ASSUME NEW todo \in Seq(Change), NEW f \in OnFalse
      PROVE  /\ Write(tx, todo, f) \in CallRecord
             /\ Write(tx, todo, f).op = "write" /\ Write(tx, todo, f).tx = tx
             /\ Write(tx, todo, f).n = 1 /\ Write(tx, todo, f).auto = FALSE
             /\ Write(tx, todo, f).cs = <<>> /\ Write(tx, todo, f).i = 0
  <2>1. Write(tx, todo, f) \in CallRecord
    BY NoCallType DEF Write, CallRecord, Ops
  <2>2. Write(tx, todo, f).auto = FALSE /\ Write(tx, todo, f).cs = <<>>
    BY Zenon DEF Write, NoCall
  <2> QED BY <2>1, <2>2 DEF Write, NoCall
<1>2. \E todo \in Seq(Change) : \E f \in OnFalse : c = Write(tx, todo, f)
  <2>1. CASE \E d \in Change : c = Write(tx, <<d>>, "return")
    <3>1. PICK d \in Change : c = Write(tx, <<d>>, "return")
      BY <2>1
    <3>2. <<d>> \in Seq(Change) /\ "return" \in OnFalse
      BY DEF OnFalse
    <3> QED BY <3>1, <3>2
  <2>2. CASE \E cs \in ChangeSets : c = Write(tx, cs, "raise")
    BY <2>2, InputsAssumption DEF OnFalse
  <2>3. CASE \E cs \in ChangeSets : c = Write(tx, Reverting(cs), "raise")
    BY <2>3, InputsAssumption, RevertingType DEF OnFalse
  <2>4. CASE \E doc \in Documents : \E f \in {"skip", "abandon"} : c = Write(tx, Adding(doc), f)
    BY <2>4, InputsAssumption, AddingType DEF OnFalse
  <2> QED BY <2>1, <2>2, <2>3, <2>4 DEF Writes
<1> QED BY <1>1, <1>2

-----------------------------------------------------------------------------
(* Type correctness.                                                          *)

USE DEF OpFits, Releases

\* The ways in which a step moves a thread.
LEMMA ThreadStep ==
    ASSUME ThreadsOK, NEW th \in Thread, NEW label \in PCs, NEW c \in CallRecord,
           pc' = [pc EXCEPT ![th] = label], call' = [call EXCEPT ![th] = c],
           CallOK(th)'
    PROVE  ThreadsOK'
BY DEF ThreadsOK, CallOK, Todo

\* A call that is over.
LEMMA IdleStep ==
    ASSUME ThreadsOK, NEW th \in Thread, Idle(th)
    PROVE  ThreadsOK'
<1>1. pc'[th] = "idle" /\ call'[th] = NoCall
  BY DEF Idle, ThreadsOK
<1>2. CallOK(th)'
  BY <1>1 DEF CallOK, NoCall, Todo, OpFits
<1> QED BY <1>2, ThreadStep, NoCallType DEF Idle, PCs

\* A call that goes on somewhere else.
LEMMA GotoStep ==
    ASSUME ThreadsOK, NEW th \in Thread, NEW label \in PCs, Goto(th, label),
           OpFits(label, call[th].op), label \notin {"start", "idle"},
           label = "record" => Todo(th).t \in Triple
    PROVE  ThreadsOK'
BY DEF ThreadsOK, CallOK, Goto, Todo

\* A call that handles an exception.
LEMMA AbandonStep ==
    ASSUME ThreadsOK, NEW th \in Thread, Abandon(th), call[th].tx \in Tx
    PROVE  ThreadsOK'
<1> DEFINE c == [call[th] EXCEPT !.op = "abandon"]
<1>1. c \in CallRecord /\ call' = [call EXCEPT ![th] = c] /\ pc' = [pc EXCEPT ![th] = "lock"]
  BY DEF ThreadsOK, Abandon, CallRecord, Ops
<1>2. CallOK(th)'
  BY <1>1 DEF ThreadsOK, CallOK, CallRecord
<1> QED BY <1>1, <1>2, ThreadStep DEF PCs

\* A call that returns, and may be followed by the end of its transaction.
LEMMA ReturnStep ==
    ASSUME ThreadsOK, NEW th \in Thread, Return(th), call[th].tx \in Tx
    PROVE  ThreadsOK'
<1>1. CASE ~call[th].auto
  BY <1>1, IdleStep DEF Return
<1>2. CASE call[th].auto
  <2> DEFINE c == [call[th] EXCEPT !.op = "drop"]
  <2>1. c \in CallRecord /\ call' = [call EXCEPT ![th] = c] /\ pc' = [pc EXCEPT ![th] = "destroy"]
    BY <1>2 DEF ThreadsOK, Return, CallRecord, Ops
  <2>2. CallOK(th)'
    BY <2>1 DEF ThreadsOK, CallOK, CallRecord
  <2> QED BY <2>1, <2>2, ThreadStep DEF PCs
<1> QED BY <1>1, <1>2

\* A call that goes on with its next write, or has none left.
LEMMA NextWriteStep ==
    ASSUME ThreadsOK, NEW th \in Thread, NextWrite(th), call[th].op = "write",
           pc[th] # "start"
    PROVE  ThreadsOK'
<1>0. call[th].tx \in Tx /\ call[th].n \in 1 .. Len(call[th].todo)
  BY DEF ThreadsOK, CallOK
<1>1. CASE call[th].n = Len(call[th].todo)
  BY <1>0, <1>1, ReturnStep DEF NextWrite
<1>2. CASE call[th].n # Len(call[th].todo)
  <2> DEFINE c == [call[th] EXCEPT !.n = call[th].n + 1]
  <2>0. call[th] \in CallRecord /\ call[th].n + 1 \in Nat
    BY <1>0 DEF ThreadsOK, CallRecord
  <2>1. c \in CallRecord /\ call' = [call EXCEPT ![th] = c] /\ pc' = [pc EXCEPT ![th] = "lock"]
    <3>1. c \in CallRecord
      BY <2>0 DEF CallRecord
    <3>2. call' = [call EXCEPT ![th] = c] /\ pc' = [pc EXCEPT ![th] = "lock"]
      BY <1>2 DEF NextWrite
    <3> QED BY <3>1, <3>2
  <2>2. call'[th] = c /\ pc'[th] = "lock"
    BY <2>1 DEF ThreadsOK
  <2>3. c.n \in 1 .. Len(c.todo) /\ c.tx \in Tx /\ c.op = "write"
    BY <1>0, <1>2, <2>0 DEF ThreadsOK, CallOK, CallRecord
  <2>4. CallOK(th)'
    BY <2>2, <2>3 DEF CallOK, Ops
  <2> QED BY <2>1, <2>4, ThreadStep DEF PCs
<1> QED BY <1>1, <1>2

\* A call that starts, with a record that fits the label it starts at.
LEMMA BeginStep ==
    ASSUME TypeInv, NEW th \in Thread, NEW label \in {"start", "lock", "destroy"},
           NEW c \in CallRecord, Begin(th, label, c),
           label = "start" \/ c.op \notin {"none", "ntread"} => c.tx \in Tx,
           OpFits(label, c.op),
           c.op = "write" => c.n \in 1 .. Len(c.todo), c.op = "match" => c.n = 1,
           c.auto => c.op \in Ops \ {"none", "ntread", "commit", "rollback"}
    PROVE  TypeInv'
<1>1. pc'[th] = label /\ call'[th] = c
  BY DEF Begin, TypeInv, ThreadsOK
<1>2. CallOK(th)'
  BY <1>1 DEF CallOK
<1>3. ThreadsOK'
  BY <1>2, ThreadStep DEF Begin, TypeInv, PCs
<1> QED BY <1>3 DEF Begin, TypeInv, TypeOK, ThreadsOK, storeVars, txVars, history

\* Every call starts with a record of the right type.
LEMMA CallType ==
    ASSUME TypeInv, NEW th \in Thread, Call(th)
    PROVE  TypeInv'
<1> DEFINE On(o, tx) == [NoCall EXCEPT !.op = o, !.tx = tx]
<1>1. ASSUME NEW tx \in Tx, NEW o \in Ops \ {"none", "write"}, NEW label \in {"start", "lock", "destroy"},
             label = "destroy" => o = "drop", Begin(th, label, On(o, tx))
      PROVE  TypeInv'
  <2>1. On(o, tx) \in CallRecord /\ On(o, tx).op = o /\ On(o, tx).tx = tx /\ On(o, tx).auto = FALSE
        /\ On(o, tx).n = 1
    BY NoCallType DEF CallRecord, NoCall
  <2> QED BY <1>1, <2>1, BeginStep
<1>2. CASE CallStartTransaction(th)
  <2>1. PICK tx \in Tx : Begin(th, "start", [NoCall EXCEPT !.tx = tx])
    BY <1>2 DEF CallStartTransaction
  <2>2. [NoCall EXCEPT !.tx = tx] \in CallRecord /\ [NoCall EXCEPT !.tx = tx].tx = tx
        /\ [NoCall EXCEPT !.tx = tx].op = "none" /\ [NoCall EXCEPT !.tx = tx].auto = FALSE
    BY NoCallType DEF CallRecord, NoCall
  <2> QED BY <2>1, <2>2, BeginStep
<1>3. CASE CallWrite(th)
  <2>1. PICK tx \in Tx : \E c \in Writes(tx) : Len(c.todo) > 0 /\ Begin(th, "lock", c)
    BY <1>3 DEF CallWrite
  <2>0. PICK c \in Writes(tx) : Len(c.todo) > 0 /\ Begin(th, "lock", c)
    BY <2>1
  <2>2. c \in CallRecord /\ c.op = "write" /\ c.tx = tx /\ c.n = 1 /\ c.auto = FALSE
    BY WritesType
  <2>3. c.n \in 1 .. Len(c.todo)
    BY <2>0, <2>2 DEF CallRecord
  <2> QED BY <2>0, <2>2, <2>3, BeginStep
<1>4. CASE CallRemoveMatching(th)
  BY <1>4, <1>1 DEF CallRemoveMatching, Ops
<1>5. CASE CallRead(th)
  BY <1>5, <1>1 DEF CallRead, Ops
<1>6. CASE CallImportUnreadable(th)
  BY <1>6, <1>1 DEF CallImportUnreadable, Ops
<1>7. CASE CallCommit(th)
  BY <1>7, <1>1 DEF CallCommit, Ops
<1>8. CASE CallRollback(th)
  BY <1>8, <1>1 DEF CallRollback, Ops
<1>9. CASE CallDelete(th)
  <2>1. holds[th] \subseteq Tx
    BY DEF TypeInv, TypeOK
  <2> QED BY <1>9, <1>1, <2>1 DEF CallDelete, Ops
<1>10. CASE CallDirectRead(th)
  <2>1. [NoCall EXCEPT !.op = "ntread"] \in CallRecord /\ [NoCall EXCEPT !.op = "ntread"].op = "ntread"
        /\ [NoCall EXCEPT !.op = "ntread"].auto = FALSE
    BY NoCallType DEF CallRecord, NoCall, Ops
  <2> QED BY <1>10, <2>1, BeginStep DEF CallDirectRead
<1>11. CASE CallDirectWrite(th)
  <2>1. PICK tx \in Tx : \E c \in Writes(tx) \cup {On(o, tx) : o \in {"match", "read", "abandon"}} :
          /\ c.op = "write" => Len(c.todo) \in 1 .. MaxChanges
          /\ Begin(th, "start", [c EXCEPT !.auto = TRUE])
    BY <1>11, Zenon DEF CallDirectWrite
  <2>0. PICK c \in Writes(tx) \cup {On(o, tx) : o \in {"match", "read", "abandon"}} :
          /\ c.op = "write" => Len(c.todo) \in 1 .. MaxChanges
          /\ Begin(th, "start", [c EXCEPT !.auto = TRUE])
    BY <2>1
  <2> DEFINE d == [c EXCEPT !.auto = TRUE]
  <2>2. c \in CallRecord /\ c.tx = tx /\ c.n = 1 /\ c.op \in {"write", "match", "read", "abandon"}
    <3>1. CASE c \in Writes(tx)
      BY <3>1, WritesType
    <3>2. CASE \E o \in {"match", "read", "abandon"} : c = On(o, tx)
      BY <3>2, NoCallType DEF CallRecord, NoCall, Ops
    <3> QED BY <3>1, <3>2
  <2>3. d \in CallRecord /\ d.tx = tx /\ d.op = c.op /\ d.n = 1 /\ d.todo = c.todo
    BY <2>2 DEF CallRecord
  <2>4. d.op = "write" => d.n \in 1 .. Len(d.todo)
    BY <2>0, <2>3, ValuesAssumption DEF CallRecord
  <2>5. d.op \in Ops \ {"none", "ntread", "commit", "rollback"}
    BY <2>2, <2>3 DEF Ops
  <2> QED BY <2>0, <2>3, <2>4, <2>5, BeginStep
<1> QED BY <1>2, <1>3, <1>4, <1>5, <1>6, <1>7, <1>8, <1>9, <1>10, <1>11 DEF Call

\* The wrapper's switch to transaction context keeps the types.
LEMMA EnterType ==
    ASSUME TypeInv, NEW th \in Thread, EnterTransactionContext(th),
           call[th].op \in {"write", "match", "read", "commit"}, pc[th] = "lock",
           UNCHANGED <<store, currentTx, txVars, committing, crashed, history>>
    PROVE  TypeInv'
<1>1. context' \in {"TxContext", "NonTxContext"} /\ mutex' \in Thread
  BY DEF EnterTransactionContext, TypeInv, TypeOK
<1>2. ThreadsOK'
  <2>1. CASE Goto(th, "body")
    BY <2>1, GotoStep DEF TypeInv, PCs, ThreadsOK, CallOK, OpFits
  <2>2. CASE ~Goto(th, "body")
    <3> DEFINE c == [call[th] EXCEPT !.cs = changes[currentTx], !.i = 1]
    <3>1. currentTx \in Tx /\ pc' = [pc EXCEPT ![th] = "replay"] /\ call' = [call EXCEPT ![th] = c]
      BY <2>2 DEF EnterTransactionContext, NothingToReplay, TypeInv, TypeOK
    <3>2. c \in CallRecord /\ c.op = call[th].op /\ c.tx = call[th].tx /\ c.n = call[th].n
          /\ c.todo = call[th].todo /\ c.auto = call[th].auto
      BY <3>1 DEF TypeInv, TypeOK, CallRecord
    <3>3. call'[th] = c /\ pc'[th] = "replay"
      BY <3>1 DEF TypeInv, ThreadsOK
    <3>4. CallOK(th)'
      BY <3>2, <3>3 DEF CallOK, TypeInv, ThreadsOK
    <3> QED BY <3>1, <3>2, <3>4, ThreadStep DEF TypeInv, PCs
  <2> QED BY <2>1, <2>2
<1> QED BY <1>1, <1>2 DEF TypeInv, TypeOK, ThreadsOK, txVars, history

\* So does its switch out of transaction context.
LEMMA LeaveType ==
    ASSUME TypeInv, NEW th \in Thread, LeaveTransactionContext(th),
           call[th].op \in Releases \cup {"ntread"}, pc[th] = "lock",
           UNCHANGED <<store, currentTx, txVars, committing, crashed, trail>>
    PROVE  TypeInv'
<1>1. context' \in {"TxContext", "NonTxContext"} /\ mutex' \in Thread /\ raced' \in BOOLEAN
  BY DEF LeaveTransactionContext, TypeInv, TypeOK
<1>2. ThreadsOK'
  <2>1. CASE Goto(th, "left")
    BY <2>1, GotoStep DEF TypeInv, PCs, ThreadsOK, CallOK, OpFits
  <2>2. CASE ~Goto(th, "left")
    <3> DEFINE c == [call[th] EXCEPT !.cs = changes[currentTx], !.i = Len(changes[currentTx])]
    <3>1. currentTx \in Tx /\ pc' = [pc EXCEPT ![th] = "revert"] /\ call' = [call EXCEPT ![th] = c]
      BY <2>2 DEF LeaveTransactionContext, NothingToRevert, TypeInv, TypeOK
    <3>0. changes[currentTx] \in Seq(Change) /\ Len(changes[currentTx]) \in Nat
      BY <3>1 DEF TypeInv, TypeOK
    <3>2. c \in CallRecord /\ c.op = call[th].op /\ c.tx = call[th].tx /\ c.n = call[th].n
          /\ c.todo = call[th].todo /\ c.auto = call[th].auto
      BY <3>0 DEF TypeInv, TypeOK, CallRecord
    <3>3. call'[th] = c /\ pc'[th] = "revert"
      BY <3>1 DEF TypeInv, ThreadsOK
    <3>4. CallOK(th)'
      BY <3>2, <3>3 DEF CallOK, TypeInv, ThreadsOK
    <3> QED BY <3>1, <3>2, <3>4, ThreadStep DEF TypeInv, PCs
  <2> QED BY <2>1, <2>2
<1> QED BY <1>1, <1>2 DEF TypeInv, TypeOK, ThreadsOK, txVars

\* So does an exception from rollbackTransaction.
LEMMA RollbackThrowsType ==
    ASSUME TypeInv, NEW th \in Thread, RollbackThrows(th), call[th].op \in Releases
    PROVE  ThreadsOK' /\ crashed' \in BOOLEAN
<1>1. call[th].tx \in Tx
  BY DEF TypeInv, ThreadsOK, CallOK, Releases
<1>2. CASE call[th].op = "rollback"
  BY <1>2, IdleStep DEF RollbackThrows, TypeInv, TypeOK
<1>3. CASE call[th].op = "abandon"
  BY <1>1, <1>3, ReturnStep DEF RollbackThrows, TypeInv, TypeOK
<1>4. CASE call[th].op = "drop"
  BY <1>4 DEF RollbackThrows, TypeInv, ThreadsOK, CallOK, Todo
<1> QED BY <1>2, <1>3, <1>4 DEF Releases

\* The steps that take the mutex keep the types.
LEMMA LockType ==
    ASSUME TypeInv, NEW th \in Thread, Lock(th)
    PROVE  TypeInv'
<1> USE DEF TypeInv, storeVars, txVars, threadVars, history
<1>1. CASE StartTransaction(th)
  <2>1. call[th].tx \in Tx
    BY <1>1 DEF StartTransaction, ThreadsOK, CallOK
  <2>2. ThreadsOK'
    <3>1. CASE Idle(th)
      BY <3>1, IdleStep
    <3>2. CASE Goto(th, "lock") /\ call[th].auto
      BY <3>2, GotoStep DEF ThreadsOK, CallOK, PCs
    <3> QED BY <1>1, <3>1, <3>2 DEF StartTransaction
  <2>3. currentTx' \in Tx \cup {NoTransaction} /\ holds' \in [Thread -> SUBSET Tx]
    <3>1. [holds EXCEPT ![th] = @ \cup {call[th].tx}] \in [Thread -> SUBSET Tx]
      BY <2>1 DEF TypeOK
    <3> QED BY <1>1, <2>1, <3>1 DEF StartTransaction, TypeOK
  <2> QED BY <1>1, <2>2, <2>3 DEF StartTransaction, TypeOK, ThreadsOK
<1>2. CASE StartOperation(th)
  <2>1. call[th].tx \in Tx
    BY <1>2 DEF StartOperation, ThreadsOK, CallOK
  <2>2. CASE IsCurrent(th)
    BY <1>2, <2>2, EnterType DEF StartOperation
  <2>3. CASE ~IsCurrent(th)
    BY <1>2, <2>1, <2>3, AbandonStep DEF StartOperation, TypeOK, ThreadsOK
  <2> QED BY <2>2, <2>3
<1>3. CASE CommitTransaction(th)
  <2>2. CASE IsCurrent(th)
    BY <1>3, <2>2, EnterType DEF CommitTransaction
  <2>3. CASE ~IsCurrent(th)
    BY <1>3, <2>3, IdleStep DEF CommitTransaction, TypeOK, ThreadsOK
  <2> QED BY <2>2, <2>3
<1>4. CASE RollbackTransaction(th)
  <2>2. CASE IsCurrent(th)
    BY <1>4, <2>2, LeaveType DEF RollbackTransaction
  <2>3. CASE ~IsCurrent(th)
    BY <1>4, <2>3, RollbackThrowsType DEF RollbackTransaction, TypeOK, ThreadsOK
  <2> QED BY <2>2, <2>3
<1>5. CASE StartNonTransactionalAccess(th)
  BY <1>5, LeaveType DEF StartNonTransactionalAccess
<1>6. CASE ReadUndefined(th)
  BY <1>6 DEF ReadUndefined, TypeOK, ThreadsOK, CallOK, Todo
<1> QED BY <1>1, <1>2, <1>3, <1>4, <1>5, <1>6 DEF Lock

\* Deleting a transaction object keeps the types.
LEMMA DeallocateType ==
    ASSUME TypeOK, NEW th \in Thread, NEW tx \in Tx, Deallocate(th, tx)
    PROVE  /\ holds' \in [Thread -> SUBSET Tx] /\ changes' \in [Tx -> Seq(Change)]
           /\ committed' \subseteq Tx /\ abandoned' \subseteq Tx
BY DEF Deallocate, TypeOK

\* A step of a context switch that goes on, or leads to the access itself.
LEMMA SwitchStep ==
    ASSUME TypeInv, NEW th \in Thread, NEW label \in {"replay", "revert", "body", "left"},
           NEW c \in CallRecord, OpFits(label, call[th].op),
           c.op = call[th].op, c.tx = call[th].tx, c.n = call[th].n,
           c.todo = call[th].todo, c.auto = call[th].auto,
           pc' = [pc EXCEPT ![th] = label], call' = [call EXCEPT ![th] = c]
    PROVE  ThreadsOK'
<1>1. call'[th] = c /\ pc'[th] = label
  BY DEF TypeInv, ThreadsOK
<1>2. CallOK(th)'
  BY <1>1 DEF CallOK, TypeInv, ThreadsOK
<1> QED BY <1>2, ThreadStep DEF TypeInv, PCs

\* A change that adds nothing but triples leaves a set of triples.
LEMMA AppliedType ==
    ASSUME NEW S \in SUBSET Triple, NEW c, c.op = "add" => c.t \in Triple
    PROVE  Applied(c, S) \in SUBSET Triple
BY DEF Applied

\* The steps of a call that runs keep the types.
LEMMA RunType ==
    ASSUME TypeInv, NEW th \in Thread, Run(th)
    PROVE  TypeInv'
<1> USE DEF TypeInv, storeVars, txVars, threadVars, history, Unlock, ResetCurrentTx
<1>0. call[th] \in CallRecord /\ CallOK(th)
  BY DEF ThreadsOK, CallOK
<1>1. CASE ReplayStep(th)
  <2>1. store' \in SUBSET Triple
    BY <1>1, AppliedType DEF ReplayStep, Effective, TypeOK
  <2>2. OpFits("replay", call[th].op)
    BY <1>0, <1>1 DEF ReplayStep, CallOK
  <2>3. CASE call[th].i < Len(call[th].cs)
    <3> DEFINE c == [call[th] EXCEPT !.i = call[th].i + 1]
    <3>1. call[th].i + 1 \in Nat
      BY <1>0, <2>3 DEF CallRecord
    <3>2. c \in CallRecord /\ c.op = call[th].op /\ c.tx = call[th].tx /\ c.n = call[th].n
          /\ c.todo = call[th].todo /\ c.auto = call[th].auto
      BY <1>0, <3>1 DEF CallRecord
    <3>3. pc' = [pc EXCEPT ![th] = "replay"] /\ call' = [call EXCEPT ![th] = c]
      BY <1>1, <2>3 DEF ReplayStep, ThreadsOK
    <3>4. ThreadsOK'
      BY <2>2, <3>2, <3>3, SwitchStep
    <3> QED BY <1>1, <2>1, <2>3, <3>4 DEF ReplayStep, TypeOK, ThreadsOK
  <2>4. CASE ~(call[th].i < Len(call[th].cs))
    <3> DEFINE c == [call[th] EXCEPT !.cs = <<>>, !.i = 0]
    <3>1. <<>> \in Seq(Change)
      OBVIOUS
    <3>2. c \in CallRecord /\ c.op = call[th].op /\ c.tx = call[th].tx /\ c.n = call[th].n
          /\ c.todo = call[th].todo /\ c.auto = call[th].auto
      BY <1>0, <3>1 DEF CallRecord
    <3>3. pc' = [pc EXCEPT ![th] = "body"] /\ call' = [call EXCEPT ![th] = c]
      BY <1>1, <2>4 DEF ReplayStep, ThreadsOK
    <3>4. ThreadsOK'
      BY <2>2, <3>2, <3>3, SwitchStep
    <3> QED BY <1>1, <2>1, <2>4, <3>4 DEF ReplayStep, TypeOK, ThreadsOK
  <2> QED BY <2>3, <2>4
<1>2. CASE RevertStep(th)
  <2>1. store' \in SUBSET Triple
    BY <1>2, AppliedType DEF RevertStep, Effective, TypeOK
  <2>2. OpFits("revert", call[th].op)
    BY <1>0, <1>2 DEF RevertStep, CallOK
  <2>3. CASE call[th].i > 1
    <3> DEFINE c == [call[th] EXCEPT !.i = call[th].i - 1]
    <3>1. call[th].i - 1 \in Nat
      BY <1>0, <2>3 DEF CallRecord
    <3>2. c \in CallRecord /\ c.op = call[th].op /\ c.tx = call[th].tx /\ c.n = call[th].n
          /\ c.todo = call[th].todo /\ c.auto = call[th].auto
      BY <1>0, <3>1 DEF CallRecord
    <3>3. pc' = [pc EXCEPT ![th] = "revert"] /\ call' = [call EXCEPT ![th] = c]
      BY <1>2, <2>3 DEF RevertStep, ThreadsOK
    <3>4. ThreadsOK'
      BY <2>2, <3>2, <3>3, SwitchStep
    <3> QED BY <1>2, <2>1, <2>3, <3>4 DEF RevertStep, TypeOK, ThreadsOK
  <2>4. CASE ~(call[th].i > 1)
    <3> DEFINE c == [call[th] EXCEPT !.cs = <<>>, !.i = 0]
    <3>1. <<>> \in Seq(Change)
      OBVIOUS
    <3>2. c \in CallRecord /\ c.op = call[th].op /\ c.tx = call[th].tx /\ c.n = call[th].n
          /\ c.todo = call[th].todo /\ c.auto = call[th].auto
      BY <1>0, <3>1 DEF CallRecord
    <3>3. pc' = [pc EXCEPT ![th] = "left"] /\ call' = [call EXCEPT ![th] = c]
      BY <1>2, <2>4 DEF RevertStep, ThreadsOK
    <3>4. ThreadsOK'
      BY <2>2, <3>2, <3>3, SwitchStep
    <3> QED BY <1>2, <2>1, <2>4, <3>4 DEF RevertStep, TypeOK, ThreadsOK
  <2> QED BY <2>3, <2>4
<1>3. CASE ReplayFails(th)
  <2>1. CASE call[th].op = "commit"
    BY <1>3, <2>1, IdleStep DEF ReplayFails, TypeOK, ThreadsOK
  <2>2. CASE call[th].op # "commit"
    <3> DEFINE c == [call[th] EXCEPT !.op = "abandon", !.cs = <<>>, !.i = 0]
    <3>1. <<>> \in Seq(Change) /\ "abandon" \in Ops \ {"none", "ntread", "commit", "rollback"}
      BY DEF Ops
    <3>2. c \in CallRecord /\ c.op = "abandon" /\ c.tx = call[th].tx
      BY <1>0, <3>1 DEF CallRecord
    <3>3. call[th].tx \in Tx
      BY <1>0, <1>3, <2>2 DEF ReplayFails, CallOK
    <3>4. pc' = [pc EXCEPT ![th] = "lock"] /\ call' = [call EXCEPT ![th] = c]
      BY <1>3, <2>2 DEF ReplayFails
    <3>5. CallOK(th)'
      BY <3>1, <3>2, <3>3, <3>4 DEF CallOK, ThreadsOK
    <3>6. ThreadsOK'
      BY <3>2, <3>4, <3>5, ThreadStep DEF PCs
    <3> QED BY <1>3, <2>2, <3>6 DEF ReplayFails, TypeOK, ThreadsOK
  <2> QED BY <2>1, <2>2
<1>4. CASE RevertFails(th)
  <2>1. CASE call[th].op = "ntread"
    BY <1>4, <2>1, IdleStep DEF RevertFails, TypeOK, ThreadsOK
  <2>2. CASE call[th].op # "ntread"
    <3>1. call[th].op \in Releases
      BY <1>0, <1>4, <2>2 DEF RevertFails, CallOK, Releases
    <3> QED BY <1>4, <2>2, <3>1, RollbackThrowsType DEF RevertFails, TypeOK, ThreadsOK
  <2> QED BY <2>1, <2>2
<1>5. CASE DirectRead(th)
  BY <1>5, IdleStep DEF DirectRead, TypeOK, ThreadsOK
<1>6. CASE FinishRollback(th)
  <2>1. call[th].tx \in Tx
    BY <1>0, <1>6 DEF FinishRollback, CallOK
  <2>2. trail' \in Seq(SUBSET Triple) /\ trail' # <<>>
    BY <1>6 DEF FinishRollback, TypeOK
  <2>3. CASE call[th].op = "drop"
    BY <1>6, <2>1, <2>2, <2>3, IdleStep, DeallocateType DEF FinishRollback, TypeOK, ThreadsOK
  <2>4. CASE call[th].op # "drop"
    BY <1>6, <2>1, <2>2, <2>4, ReturnStep DEF FinishRollback, TypeOK, ThreadsOK
  <2> QED BY <2>3, <2>4
<1>7. CASE PublishCommit(th)
  <2>1. call[th].tx \in Tx
    BY <1>0, <1>7 DEF PublishCommit, CallOK
  <2>2. trail' \in Seq(SUBSET Triple) /\ trail' # <<>>
    BY <1>7 DEF PublishCommit, TypeOK, Last
  <2>3. committing' \in [Thread -> Seq(Tx)]
    BY <1>7, <2>1 DEF PublishCommit, TypeOK
  <2> QED BY <1>7, <2>2, <2>3, IdleStep DEF PublishCommit, TypeOK, ThreadsOK
<1>8. CASE WriteTakesEffect(th)
  <2>1. Todo(th).t \in Triple
    BY <1>8 DEF WriteTakesEffect, Effective
  <2>2. store' \in SUBSET Triple
    BY <1>8, <2>1, AppliedType DEF WriteTakesEffect, TypeOK
  <2>3. ThreadsOK'
    BY <1>8, <2>1, GotoStep DEF WriteTakesEffect, PCs
  <2> QED BY <1>8, <2>2, <2>3 DEF WriteTakesEffect, TypeOK, ThreadsOK
<1>9. CASE Record(th)
  <2>1. /\ call[th].op = "write" /\ Todo(th).t \in Triple /\ Todo(th) \in Change
        /\ call[th].tx \in Tx
    BY <1>0, <1>9 DEF Record, CallOK, Todo, CallRecord
  <2>2. changes' \in [Tx -> Seq(Change)]
    BY <1>9, <2>1 DEF Record, TypeOK
  <2>3. Last(trail) \in SUBSET Triple
    BY DEF TypeOK, Last
  <2>4. trail' \in Seq(SUBSET Triple) /\ trail' # <<>>
    <3> DEFINE S == Applied(Todo(th), Last(trail))
    <3>1. S \in SUBSET Triple
      BY <2>1, <2>3, AppliedType
    <3>2. trail' = Append(trail, S) /\ trail \in Seq(SUBSET Triple)
      BY <1>9 DEF Record, TypeOK
    <3> HIDE DEF S
    <3>3. Len(trail') = Len(trail) + 1 /\ trail' \in Seq(SUBSET Triple)
      BY <3>1, <3>2
    <3> QED BY <3>2, <3>3
  <2>5. ThreadsOK'
    BY <1>9, <2>1, NextWriteStep DEF Record
  <2> QED BY <1>9, <2>2, <2>4, <2>5 DEF Record, TypeOK, ThreadsOK
<1>10. CASE WriteRefused(th)
  <2>1. call[th].op = "write" /\ call[th].tx \in Tx /\ pc[th] = "body"
    BY <1>0, <1>10 DEF WriteRefused, CallOK
  <2>2. ThreadsOK'
    <3>1. CASE call[th].onFalse = "skip"
      BY <1>10, <2>1, <3>1, NextWriteStep DEF WriteRefused
    <3>2. CASE call[th].onFalse = "abandon"
      BY <1>10, <2>1, <3>2, AbandonStep DEF WriteRefused
    <3>3. CASE call[th].onFalse \notin {"skip", "abandon"}
      BY <1>10, <2>1, <3>3, ReturnStep DEF WriteRefused
    <3> QED BY <3>1, <3>2, <3>3
  <2> QED BY <1>10, <2>2 DEF WriteRefused, TypeOK, ThreadsOK
<1>11. CASE StoreThrows(th)
  <2>1. call[th].tx \in Tx
    BY <1>0, <1>11 DEF StoreThrows, CallOK
  <2> QED BY <1>11, <2>1, AbandonStep DEF StoreThrows, TypeOK, ThreadsOK
<1>12. CASE MatchForRemoval(th)
  <2>1. call[th].tx \in Tx
    BY <1>0, <1>12 DEF MatchForRemoval, CallOK
  <2>2. CASE store = {}
    BY <1>12, <2>1, <2>2, ReturnStep DEF MatchForRemoval, TypeOK, ThreadsOK
  <2>3. CASE store # {}
    <3>1. PICK r \in RemovalOrders(store) :
            /\ pc' = [pc EXCEPT ![th] = "lock"]
            /\ call' = [call EXCEPT ![th].op = "write", ![th].todo = r, ![th].onFalse = "abandon"]
      BY <1>12, <2>3 DEF MatchForRemoval
    <3> DEFINE c == [call[th] EXCEPT !.op = "write", !.todo = r, !.onFalse = "abandon"]
    <3>2. r \in Seq(Change) /\ 1 \in 1 .. Len(r)
      BY <2>3, RemovalOrdersType DEF TypeOK
    <3>3. "write" \in Ops /\ "abandon" \in OnFalse
      BY DEF Ops, OnFalse
    <3>4. c \in CallRecord /\ c.op = "write" /\ c.todo = r /\ c.tx = call[th].tx /\ c.n = call[th].n
      BY <1>0, <3>2, <3>3 DEF CallRecord
    <3>5. call[th].n = 1
      BY <1>0, <1>12 DEF MatchForRemoval, CallOK
    <3>6. call'[th] = c /\ pc'[th] = "lock"
      BY <3>1 DEF ThreadsOK
    <3>7. CallOK(th)'
      BY <2>1, <3>2, <3>3, <3>4, <3>5, <3>6 DEF CallOK
    <3>8. ThreadsOK'
      BY <3>1, <3>4, <3>7, ThreadStep DEF PCs
    <3> QED BY <1>12, <3>8 DEF MatchForRemoval, TypeOK, ThreadsOK
  <2> QED BY <2>2, <2>3
<1>13. CASE ReadInTransaction(th)
  <2>1. call[th].tx \in Tx
    BY <1>0, <1>13 DEF ReadInTransaction, CallOK
  <2> QED BY <1>13, <2>1, ReturnStep DEF ReadInTransaction, TypeOK, ThreadsOK
<1>14. CASE Destroy(th)
  <2>1. call[th].tx \in Tx /\ call[th].op = "drop"
    BY <1>0, <1>14 DEF Destroy, CallOK
  <2>2. CASE Goto(th, "lock") /\ UNCHANGED txVars
    BY <1>14, <2>1, <2>2, GotoStep DEF Destroy, TypeOK, ThreadsOK, PCs
  <2>3. CASE Deallocate(th, call[th].tx) /\ Idle(th)
    BY <1>14, <2>1, <2>3, IdleStep, DeallocateType DEF Destroy, TypeOK, ThreadsOK
  <2> QED BY <1>14, <2>2, <2>3 DEF Destroy
<1> QED BY <1>1, <1>2, <1>3, <1>4, <1>5, <1>6, <1>7, <1>8, <1>9, <1>10, <1>11, <1>12, <1>13,
           <1>14 DEF Run

\* So does the end of commit(), after the slots have returned.
LEMMA FinishCommitType ==
    ASSUME TypeInv, NEW th \in Thread, FinishCommit(th)
    PROVE  TypeInv'
<1>1. committing[th] \in Seq(Tx) /\ committing[th] # <<>>
  BY DEF FinishCommit, TypeInv, TypeOK
<1>2. Front(committing[th]) \in Seq(Tx) /\ Last(committing[th]) \in Tx
  BY <1>1 DEF Front, Last
<1> QED BY <1>1, <1>2 DEF FinishCommit, TypeInv, TypeOK, ThreadsOK, CallOK, Todo, storeVars, history

\* The type invariant, with what makes it inductive: a call in progress is at a
\* label that fits its operation, its writes are within its change set, and the
\* change that is about to be recorded is one of a complete triple.
THEOREM TypeCorrect == Spec => []TypeInv
<1>1. Init => TypeInv
  <2> SUFFICES ASSUME Init PROVE TypeInv
    OBVIOUS
  <2>1. ThreadsOK
    BY NoCallType DEF Init, ThreadsOK, CallOK, PCs, NoCall
  <2>2. <<>> \in Seq(Change) /\ <<>> \in Seq(Tx) /\ trail \in Seq(SUBSET Triple) /\ trail # <<>>
    BY DEF Init
  <2> QED BY <2>1, <2>2 DEF Init, TypeInv, TypeOK, ThreadsOK
<1>2. TypeInv /\ [Next]_vars => TypeInv'
  <2> SUFFICES ASSUME TypeInv, [Next]_vars PROVE TypeInv'
    OBVIOUS
  <2>1. CASE Next
    BY <2>1, CallType, LockType, RunType, FinishCommitType DEF Next
  <2>2. CASE UNCHANGED vars
    BY <2>2 DEF vars, storeVars, txVars, threadVars, history, TypeInv, TypeOK, ThreadsOK, CallOK, Todo
  <2> QED BY <2>1, <2>2
<1> QED BY <1>1, <1>2, PTL DEF Spec
\* Every variable of TransactionalStore keeps its type, whatever the clients do.
THEOREM TypesAreKept == Spec => []TypeOK
<1>1. TypeInv => TypeOK
  BY DEF TypeInv
<1> QED BY <1>1, TypeCorrect, PTL

-------------------------------------------------------------------------------
(* Isolation.                                                                 *)

(* The inductive invariant.  At most one thread is busy with the store at a   *)
(* time; the contents of the store are then known from where it is, and       *)
(* otherwise from the context, in terms of the trail of contents that the     *)
(* pending changes lead through.                                              *)

Busy(th) == pc[th] \in Inside \cup {"record"}

CurrentChanges == IF currentTx = NoTransaction THEN <<>> ELSE changes[currentTx]

\* The transaction objects that thread th works with.
OwnedBy(th) ==
    /\ pc[th] # "start" /\ call[th].op \notin {"none", "ntread"} => call[th].tx \in holds[th]
    /\ pc[th] = "start" => call[th].tx \notin alive
    /\ \A i \in DOMAIN committing[th] : committing[th][i] \in holds[th] \ {currentTx}
    /\ call[th].op = "drop" \/ call[th].auto => ~InSlotOf(th, call[th].tx)

\* No two threads work with the same one, and what is resolved or deleted is
\* not the current one.
OwnershipInv ==
    /\ \A a, b \in Thread : a # b => holds[a] \cap holds[b] = {}
    /\ \A th \in Thread : OwnedBy(th)
    /\ \A a, b \in Thread : pc[a] = "start" /\ b # a => call[b].tx # call[a].tx
    /\ committed \cup abandoned \subseteq alive \ {currentTx}
    /\ \A tx \in Tx \ alive : changes[tx] = <<>>

\* The mutex excludes every thread but its holder from the store, and a thread
\* that is yet to record its change excludes the others from the transaction.
ExclusionInv ==
    /\ \A th \in Thread : pc[th] \in Inside => mutex = th
    /\ \A a, b \in Thread : Busy(a) /\ Busy(b) => a = b
    /\ \A th \in Thread :
         /\ pc[th] \in {"replay", "body", "record"} => IsCurrent(th)
         /\ pc[th] \in {"revert", "left"} /\ call[th].op \in Releases => IsCurrent(th)

\* Each pending change took effect on what the ones before it had left.
TrailInv ==
    /\ Len(trail) = Len(CurrentChanges) + 1
    /\ \A i \in 1 .. Len(CurrentChanges) :
         /\ Effective(CurrentChanges[i], trail[i])
         /\ trail[i + 1] = Applied(CurrentChanges[i], trail[i])

Switching(th) == call[th].cs = CurrentChanges /\ call[th].i \in 1 .. Len(CurrentChanges)

\* The contents of the store while th is busy with it.
BusyStore(th) ==
    /\ pc[th] = "replay" => Switching(th) /\ store = trail[call[th].i]
    /\ pc[th] = "revert" => Switching(th) /\ store = trail[call[th].i + 1]
    /\ pc[th] = "body" => context = "TxContext" /\ store = Last(trail)
    /\ pc[th] = "left" => context = "NonTxContext" /\ store = trail[1]
    /\ pc[th] = "record" => /\ context = "TxContext"
                            /\ Effective(Todo(th), Last(trail))
                            /\ store = Applied(Todo(th), Last(trail))

StoreInv ==
    /\ \A th \in Thread : BusyStore(th)
    /\ (\A th \in Thread : ~Busy(th)) =>
         store = IF context = "TxContext" THEN Last(trail) ELSE trail[1]

IsolationInv ==
    ~raced => OwnershipInv /\ ExclusionInv /\ TrailInv /\ StoreInv

-----------------------------------------------------------------------------
(* Steps in general.                                                          *)

\* A step of th leaves the other threads where they are.
Others(th) == \A u \in Thread \ {th} : pc'[u] = pc[u] /\ call'[u] = call[u]

\* No other thread is busy with the store.
Alone(th) == \A u \in Thread \ {th} : ~Busy(u)

\* A call goes on, or returns, without taking up another transaction.
Continues(th) ==
    /\ Others(th)
    /\ pc[th] # "start" /\ pc'[th] # "start"
    /\ call'[th].tx \in {call[th].tx, NoTransaction}
    /\ call'[th].op \notin {"none", "ntread"} =>
         call[th].op \notin {"none", "ntread"} /\ call'[th].tx = call[th].tx
    /\ call'[th].op = "drop" \/ call'[th].auto =>
         (call[th].op = "drop" \/ call[th].auto) /\ call'[th].tx = call[th].tx

Inv == TypeInv /\ OwnershipInv /\ ExclusionInv /\ TrailInv /\ StoreInv

\* A change that took effect can be undone, which restores the contents.
LEMMA OppositeUndoes ==
    ASSUME NEW c \in Change, NEW S, Effective(c, S)
    PROVE  Effective(Opposite(c), Applied(c, S)) /\ Applied(Opposite(c), Applied(c, S)) = S
BY DEF Effective, Opposite, Applied, Change

\* A thread that is busy with the store is alone with it.
LEMMA BusyIsAlone ==
    ASSUME ExclusionInv, NEW th \in Thread, Busy(th)
    PROVE  Alone(th)
BY DEF ExclusionInv, Alone

\* So is one that finds the mutex free and works for the current transaction,
\* or knows that no change of it is still to be recorded.
LEMMA LockerIsAlone ==
    ASSUME Inv, NEW th \in Thread, CanLock, pc[th] = "lock",
           \/ IsCurrent(th) /\ call[th].op \notin {"none", "ntread"}
           \/ ~Unrecorded(currentTx)
    PROVE  Alone(th)
<1> SUFFICES ASSUME NEW u \in Thread \ {th}, Busy(u) PROVE FALSE
  BY DEF Alone
<1>1. pc[u] = "record"
  BY ValuesAssumption DEF Inv, ExclusionInv, Busy, CanLock
<1>2. call[u].tx = currentTx /\ context = "TxContext" /\ call[u].op = "write"
  BY <1>1 DEF Inv, ExclusionInv, IsCurrent, StoreInv, BusyStore, TypeInv, ThreadsOK, CallOK, OpFits
<1>3. call[u].tx \in holds[u]
  BY <1>1, <1>2 DEF Inv, OwnershipInv, OwnedBy
<1>4. IsCurrent(th) /\ call[th].op \notin {"none", "ntread"}
  BY <1>1, <1>2 DEF Unrecorded
<1>5. call[th].tx \in holds[th]
  BY <1>4 DEF Inv, OwnershipInv, OwnedBy
<1> QED BY <1>2, <1>3, <1>4, <1>5 DEF Inv, OwnershipInv, IsCurrent

\* Ownership through a step that creates and deletes no transaction object.
LEMMA OwnershipChange ==
    ASSUME OwnershipInv, TypeInv, NEW th \in Thread, Continues(th), holds' = holds,
           committed' \cup abandoned' \subseteq alive \ {currentTx'},
           \A u \in Thread :
              /\ \A i \in DOMAIN committing'[u] : committing'[u][i] \in holds[u] \ {currentTx'}
              /\ call'[u].op = "drop" \/ call'[u].auto => committing'[u] = committing[u],
           \A tx \in Tx \ alive : changes'[tx] = <<>>
    PROVE  OwnershipInv'
<1>1. alive' = alive
  BY DEF alive
<1>2. ASSUME NEW u \in Thread PROVE OwnedBy(u)'
  <2>1. CASE u = th
    BY <1>1, <2>1 DEF OwnershipInv, OwnedBy, Continues, InSlotOf
  <2>2. CASE u # th
    BY <1>1, <2>2 DEF OwnershipInv, OwnedBy, Continues, Others, InSlotOf
  <2> QED BY <2>1, <2>2
<1>3. ASSUME NEW a \in Thread, NEW u \in Thread, pc'[a] = "start", u # a
      PROVE  call'[u].tx # call'[a].tx
  <2>1. a # th /\ pc[a] = "start" /\ call'[a] = call[a] /\ call[a].tx \in Tx \ alive
    BY <1>3 DEF Continues, Others, OwnershipInv, OwnedBy, TypeInv, ThreadsOK, CallOK
  <2> QED BY <1>3, <2>1, ValuesAssumption DEF Continues, Others, OwnershipInv
<1> QED BY <1>1, <1>2, <1>3 DEF OwnershipInv

\* Ownership through a step that only goes on with a call.
LEMMA OwnershipStep ==
    ASSUME OwnershipInv, TypeInv, NEW th \in Thread, Continues(th),
           UNCHANGED <<holds, committed, abandoned, committing>>,
           currentTx' \in {currentTx, NoTransaction},
           \A tx \in Tx \ alive : changes'[tx] = <<>>
    PROVE  OwnershipInv'
<1>1. committed \cup abandoned \subseteq Tx /\ \A u \in Thread : holds[u] \subseteq Tx
  BY DEF TypeInv, TypeOK
<1>2. committed' \cup abandoned' \subseteq alive \ {currentTx'}
  BY <1>1, ValuesAssumption DEF OwnershipInv
<1>3. \A u \in Thread : \A i \in DOMAIN committing'[u] : committing'[u][i] \in holds[u] \ {currentTx'}
  BY <1>1, ValuesAssumption DEF OwnershipInv, OwnedBy
<1> QED BY <1>2, <1>3, OwnershipChange

\* Ownership through the deletion of a transaction object.
LEMMA DeallocateOwnership ==
    ASSUME OwnershipInv, TypeInv, NEW th \in Thread, pc[th] # "start",
           call[th].tx \in holds[th], ~InSlotOf(th, call[th].tx),
           Deallocate(th, call[th].tx), Idle(th), committing' = committing,
           currentTx' \in {currentTx, NoTransaction}
    PROVE  OwnershipInv'
<1> DEFINE tx == call[th].tx
<1>1. /\ holds' = [holds EXCEPT ![th] = @ \ {tx}] /\ changes' = [changes EXCEPT ![tx] = <<>>]
      /\ committed' = committed \ {tx} /\ abandoned' = abandoned \ {tx}
      /\ pc'[th] = "idle" /\ call'[th] = NoCall /\ Others(th)
  BY DEF Deallocate, Idle, Others, TypeInv, ThreadsOK
<1>2. /\ holds \in [Thread -> SUBSET Tx] /\ changes \in [Tx -> Seq(Change)] /\ alive \subseteq Tx
      /\ \A u \in Thread \ {th} : tx \notin holds[u]
  BY DEF TypeInv, TypeOK, OwnershipInv, alive
<1>3. alive' = alive \ {tx}
  BY <1>1, <1>2 DEF alive
<1>4. \A u \in Thread : \A i \in DOMAIN committing'[u] : committing'[u][i] \in holds'[u] \ {currentTx'}
  BY <1>1, <1>2, ValuesAssumption DEF OwnershipInv, OwnedBy, InSlotOf
<1>5. ASSUME NEW u \in Thread PROVE OwnedBy(u)'
  <2>1. CASE u = th
    BY <1>1, <1>4, <2>1 DEF OwnedBy, NoCall
  <2>2. CASE u # th
    BY <1>1, <1>2, <1>3, <1>4, <2>2 DEF OwnershipInv, OwnedBy, Others, InSlotOf
  <2> QED BY <2>1, <2>2
<1>6. ASSUME NEW a \in Thread, NEW u \in Thread, pc'[a] = "start", u # a
      PROVE  call'[u].tx # call'[a].tx
  <2>1. a # th /\ pc[a] = "start" /\ call'[a] = call[a] /\ call[a].tx \in Tx
    BY <1>1, <1>6 DEF Others, TypeInv, ThreadsOK, CallOK
  <2> QED BY <1>1, <1>6, <2>1, ValuesAssumption DEF Others, OwnershipInv, NoCall
<1>7. committed' \cup abandoned' \subseteq alive' \ {currentTx'}
  BY <1>1, <1>2, <1>3, ValuesAssumption DEF OwnershipInv
<1>8. \A x \in Tx \ alive' : changes'[x] = <<>>
  BY <1>1, <1>2, <1>3 DEF OwnershipInv
<1>9. \A a, b \in Thread : a # b => holds'[a] \cap holds'[b] = {}
  BY <1>1, <1>2 DEF OwnershipInv
<1> QED BY <1>5, <1>6, <1>7, <1>8, <1>9 DEF OwnershipInv

\* A step of the only thread that may be busy with the store.
LEMMA AloneStep ==
    ASSUME Inv, NEW th \in Thread, Others(th), Alone(th),
           pc'[th] \in Inside => mutex' = th,
           pc'[th] \in {"replay", "body", "record"} => IsCurrent(th)',
           pc'[th] \in {"revert", "left"} /\ call'[th].op \in Releases => IsCurrent(th)',
           BusyStore(th)',
           ~Busy(th)' => store' = IF context' = "TxContext" THEN Last(trail') ELSE trail'[1]
    PROVE  ExclusionInv' /\ StoreInv'
<1>1. \A u \in Thread \ {th} : ~Busy(u)'
  BY DEF Others, Alone, Busy
<1>2. ExclusionInv'
  <2>1. \A a, b \in Thread : Busy(a)' /\ Busy(b)' => a = b
    BY <1>1
  <2>2. \A u \in Thread : pc'[u] \in Inside => mutex' = u
    BY <1>1 DEF Busy
  <2>3. ASSUME NEW u \in Thread
        PROVE  /\ pc'[u] \in {"replay", "body", "record"} => IsCurrent(u)'
               /\ pc'[u] \in {"revert", "left"} /\ call'[u].op \in Releases => IsCurrent(u)'
    BY <1>1 DEF Busy, Inside
  <2> QED BY <2>1, <2>2, <2>3 DEF ExclusionInv
<1>3. \A u \in Thread \ {th} : BusyStore(u)'
  BY <1>1 DEF BusyStore, Busy, Inside
<1> QED BY <1>1, <1>2, <1>3 DEF StoreInv

\* A step of a thread that is not busy with it.
LEMMA AsideStep ==
    ASSUME Inv, NEW th \in Thread, Others(th), ~Busy(th), ~Busy(th)',
           UNCHANGED <<store, context, trail>>, CurrentChanges' = CurrentChanges,
           mutex' = mutex \/ CanLock, currentTx' = currentTx \/ Alone(th)
    PROVE  ExclusionInv' /\ TrailInv' /\ StoreInv'
<1>1. TrailInv'
  BY DEF Inv, TrailInv
<1>2. \A u \in Thread \ {th} : pc'[u] = pc[u] /\ call'[u] = call[u] /\ (Busy(u)' <=> Busy(u))
  BY DEF Others, Busy
<1>3. \A u \in Thread : BusyStore(u)'
  <2> SUFFICES ASSUME NEW u \in Thread PROVE BusyStore(u)'
    OBVIOUS
  <2>1. CASE u = th
    BY <2>1 DEF BusyStore, Busy, Inside
  <2>2. CASE u # th
    BY <1>2, <2>2 DEF Inv, StoreInv, BusyStore, Switching, Todo
  <2> QED BY <2>1, <2>2
<1>4. StoreInv'
  BY <1>2, <1>3 DEF Inv, StoreInv
<1>5. ASSUME NEW u \in Thread
      PROVE  /\ pc'[u] \in Inside => mutex' = u
             /\ pc'[u] \in {"replay", "body", "record"} => IsCurrent(u)'
             /\ pc'[u] \in {"revert", "left"} /\ call'[u].op \in Releases => IsCurrent(u)'
  <2>1. CASE u = th
    BY <2>1 DEF Busy, Inside
  <2>2. CASE u # th
    <3>1. pc[u] \in Inside => mutex' = u
      BY <2>2, ValuesAssumption DEF Inv, ExclusionInv, CanLock
    <3>2. Busy(u) => currentTx' = currentTx
      BY <2>2 DEF Alone
    <3> QED BY <1>2, <2>2, <3>1, <3>2 DEF Inv, ExclusionInv, IsCurrent, Busy, Inside
  <2> QED BY <2>1, <2>2
<1>6. \A a, b \in Thread : Busy(a)' /\ Busy(b)' => a = b
  BY <1>2 DEF Inv, ExclusionInv
<1>7. ExclusionInv'
  BY <1>5, <1>6 DEF ExclusionInv
<1> QED BY <1>1, <1>4, <1>7

\* What the current changes and the trail are, in terms of their types.
LEMMA CurrentType ==
    ASSUME Inv
    PROVE  /\ CurrentChanges \in Seq(Change) /\ Len(CurrentChanges) \in Nat
           /\ NothingToReplay <=> CurrentChanges = <<>>
           /\ NothingToRevert <=> CurrentChanges = <<>>
           /\ CurrentChanges = <<>> <=> Len(CurrentChanges) = 0
           /\ trail \in Seq(SUBSET Triple) /\ Len(trail) = Len(CurrentChanges) + 1
           /\ Last(trail) = trail[Len(CurrentChanges) + 1]
<1>1. CurrentChanges \in Seq(Change)
  BY DEF Inv, TypeInv, TypeOK, CurrentChanges
<1>2. NothingToReplay <=> CurrentChanges = <<>>
  BY DEF NothingToReplay, CurrentChanges
<1>3. NothingToRevert <=> CurrentChanges = <<>>
  BY DEF NothingToRevert, CurrentChanges
<1>4. trail \in Seq(SUBSET Triple) /\ Len(trail) = Len(CurrentChanges) + 1
  BY DEF Inv, TypeInv, TypeOK, TrailInv
<1> QED BY <1>1, <1>2, <1>3, <1>4 DEF Last

\* Locking the mutex and entering the transaction context.
LEMMA EnterIsolation ==
    ASSUME Inv, NEW th \in Thread, CanLock, pc[th] = "lock", IsCurrent(th),
           call[th].op \in {"write", "match", "read", "commit"},
           EnterTransactionContext(th),
           UNCHANGED <<store, currentTx, txVars, committing, history>>
    PROVE  OwnershipInv' /\ ExclusionInv' /\ TrailInv' /\ StoreInv'
<1>1. Alone(th) /\ ~Busy(th)
  BY LockerIsAlone DEF Busy, Inside
<1>2. store = IF context = "TxContext" THEN Last(trail) ELSE trail[1]
  BY <1>1 DEF Alone, Inv, StoreInv
<1>3. /\ pc[th] \in PCs /\ call[th] \in CallRecord /\ call[th].tx \in Tx
      /\ currentTx \in Tx /\ currentTx # NoTransaction
      /\ context \in {"TxContext", "NonTxContext"}
  BY ValuesAssumption DEF Inv, TypeInv, TypeOK, ThreadsOK, CallOK, IsCurrent
<1>4. /\ Others(th) /\ mutex' = th /\ pc'[th] \in {"body", "replay"}
      /\ call'[th].op = call[th].op /\ call'[th].tx = call[th].tx /\ call'[th].auto = call[th].auto
  BY <1>3 DEF EnterTransactionContext, Goto, Others, Inv, TypeInv, TypeOK, CallRecord
<1>5. CurrentChanges' = CurrentChanges /\ trail' = trail
  BY DEF CurrentChanges, txVars, history
<1>6. OwnershipInv'
  <2>1. Continues(th)
    BY <1>4 DEF Continues
  <2> QED BY <2>1, OwnershipStep DEF Inv, OwnershipInv, txVars
<1>7. TrailInv'
  BY <1>5 DEF Inv, TrailInv
<1>8. BusyStore(th)'
  <2>1. CASE context = "TxContext" \/ NothingToReplay
    <3>1. pc'[th] = "body" /\ context' = "TxContext"
      BY <1>3, <2>1 DEF EnterTransactionContext, Goto, Inv, TypeInv, TypeOK
    <3>2. store = Last(trail)
      BY <1>2, <2>1, CurrentType
    <3> QED BY <1>5, <3>1, <3>2 DEF BusyStore
  <2>2. CASE ~(context = "TxContext" \/ NothingToReplay)
    <3>1. pc'[th] = "replay" /\ call'[th].cs = CurrentChanges /\ call'[th].i = 1
      BY <1>3, <2>2 DEF EnterTransactionContext, Inv, TypeInv, TypeOK, CallRecord, CurrentChanges
    <3>2. 1 \in 1 .. Len(CurrentChanges) /\ store = trail[1]
      BY <1>2, <2>2, CurrentType
    <3> QED BY <1>5, <3>1, <3>2 DEF BusyStore, Switching
  <2> QED BY <2>1, <2>2
<1>9. ExclusionInv' /\ StoreInv'
  BY <1>1, <1>4, <1>8, AloneStep DEF IsCurrent, Busy, Inside, Releases
<1> QED BY <1>6, <1>7, <1>9

\* Locking the mutex and leaving the transaction context.
LEMMA LeaveIsolation ==
    ASSUME Inv, NEW th \in Thread, CanLock, pc[th] = "lock",
           call[th].op = "ntread" \/ (call[th].op \in Releases /\ IsCurrent(th)),
           ~raced', LeaveTransactionContext(th),
           UNCHANGED <<store, currentTx, txVars, committing, trail>>
    PROVE  OwnershipInv' /\ ExclusionInv' /\ TrailInv' /\ StoreInv'
<1>1. Alone(th) /\ ~Busy(th)
  BY LockerIsAlone DEF Busy, Inside, LeaveTransactionContext
<1>2. store = IF context = "TxContext" THEN Last(trail) ELSE trail[1]
  BY <1>1 DEF Alone, Inv, StoreInv
<1>3. /\ pc[th] \in PCs /\ call[th] \in CallRecord
      /\ context \in {"TxContext", "NonTxContext"}
  BY ValuesAssumption DEF Inv, TypeInv, TypeOK, ThreadsOK, CallOK, IsCurrent
<1>4. /\ Others(th) /\ mutex' = th /\ pc'[th] \in {"left", "revert"}
      /\ call'[th].op = call[th].op /\ call'[th].tx = call[th].tx /\ call'[th].auto = call[th].auto
  BY <1>3 DEF LeaveTransactionContext, Goto, Others, Inv, TypeInv, TypeOK, CallRecord
<1>5. CurrentChanges' = CurrentChanges /\ trail' = trail
  BY DEF CurrentChanges, txVars
<1>6. OwnershipInv'
  <2>1. Continues(th)
    BY <1>4 DEF Continues
  <2> QED BY <2>1, OwnershipStep DEF Inv, OwnershipInv, txVars
<1>7. TrailInv'
  BY <1>5 DEF Inv, TrailInv
<1>8. BusyStore(th)'
  <2>1. CASE context = "NonTxContext" \/ NothingToRevert
    <3>1. pc'[th] = "left" /\ context' = "NonTxContext"
      BY <1>3, <2>1 DEF LeaveTransactionContext, Goto, Inv, TypeInv, TypeOK
    <3>2. store = trail[1]
      BY <1>2, <2>1, CurrentType
    <3> QED BY <1>5, <3>1, <3>2 DEF BusyStore
  <2>2. CASE ~(context = "NonTxContext" \/ NothingToRevert)
    <3>1. pc'[th] = "revert" /\ call'[th].cs = CurrentChanges /\ call'[th].i = Len(CurrentChanges)
      BY <1>3, <2>2 DEF LeaveTransactionContext, NothingToRevert, Inv, TypeInv, TypeOK, CallRecord,
                        CurrentChanges
    <3>2. Len(CurrentChanges) \in 1 .. Len(CurrentChanges) /\ store = trail[Len(CurrentChanges) + 1]
      BY <1>2, <1>3, <2>2, CurrentType
    <3> QED BY <1>5, <3>1, <3>2 DEF BusyStore, Switching
  <2> QED BY <2>1, <2>2
<1>9. ExclusionInv' /\ StoreInv'
  BY <1>1, <1>4, <1>8, AloneStep DEF IsCurrent, Busy, Inside, Releases
<1> QED BY <1>6, <1>7, <1>9
-----------------------------------------------------------------------------
(* The steps of the specification.                                            *)

\* A call of record c, made at a label that it may start at, only takes up a
\* transaction that the thread holds, or the address of a new one.
Claims(th, label, c) ==
    /\ label # "start" /\ c.op \notin {"none", "ntread"} => c.tx \in holds[th]
    /\ label = "start" => Fresh(c.tx)
    /\ label # "start" => c.tx \in holds[th] \cup {NoTransaction}
    /\ c.op = "drop" => ~InSlotOf(th, c.tx)
    /\ c.auto => label = "start"

\* A call that starts leaves the store as it is, whoever is busy with it.
LEMMA BeginIsolation ==
    ASSUME Inv, NEW th \in Thread, NEW label \in {"start", "lock", "destroy"}, NEW c,
           pc[th] = "idle", Begin(th, label, c), Claims(th, label, c)
    PROVE  OwnershipInv' /\ ExclusionInv' /\ TrailInv' /\ StoreInv'
<1>1. pc'[th] = label /\ call'[th] = c /\ Others(th) /\ UNCHANGED <<storeVars, txVars, committing, history>>
  BY DEF Begin, Others, Inv, TypeInv, ThreadsOK
<1>2. alive' = alive /\ UNCHANGED <<holds, changes, currentTx, committed, abandoned>>
  BY <1>1 DEF alive, txVars, storeVars
<1>3. ASSUME NEW u \in Thread PROVE OwnedBy(u)'
  <2>1. CASE u = th
    <3>1. label = "start" => ~InSlotOf(th, c.tx)
      BY DEF Claims, Fresh, InSlotOf, alive, Inv, OwnershipInv, OwnedBy
    <3>2. label = "start" => c.tx \notin alive
      BY DEF Claims, Fresh
    <3> QED BY <1>1, <1>2, <2>1, <3>1, <3>2 DEF Claims, Inv, OwnershipInv, OwnedBy, InSlotOf
  <2>2. CASE u # th
    BY <1>1, <1>2, <2>2 DEF Others, Inv, OwnershipInv, OwnedBy, InSlotOf
  <2> QED BY <2>1, <2>2
<1>4. ASSUME NEW a \in Thread, NEW b \in Thread, pc'[a] = "start", b # a
      PROVE  call'[b].tx # call'[a].tx
  <2>1. CASE a = th
    BY <1>1, <1>4, <2>1 DEF Claims, Fresh, Others
  <2>2. CASE a # th
    <3>1. pc[a] = "start" /\ call'[a] = call[a] /\ call[a].tx \in Tx \ alive
      BY <1>1, <1>4, <2>2 DEF Others, Inv, OwnershipInv, OwnedBy, TypeInv, ThreadsOK, CallOK
    <3>2. CASE b = th
      BY <1>1, <2>2, <3>1, <3>2, ValuesAssumption DEF Claims, Fresh, alive
    <3>3. CASE b # th
      BY <1>1, <1>4, <3>1, <3>3 DEF Others, Inv, OwnershipInv
    <3> QED BY <3>2, <3>3
  <2> QED BY <2>1, <2>2
<1>5. OwnershipInv'
  BY <1>2, <1>3, <1>4 DEF Inv, OwnershipInv
<1>6. ~Busy(th) /\ ~Busy(th)'
  BY <1>1 DEF Busy, Inside
<1> QED BY <1>1, <1>2, <1>5, <1>6, AsideStep DEF storeVars, history, CurrentChanges

\* Every call of the API starts in that way.
LEMMA CallIsolation ==
    ASSUME Inv, NEW th \in Thread, Call(th)
    PROVE  OwnershipInv' /\ ExclusionInv' /\ TrailInv' /\ StoreInv'
<1> DEFINE On(o, tx) == [NoCall EXCEPT !.op = o, !.tx = tx]
<1>0. \A tx \in Tx : \A o \in Ops : On(o, tx).op = o /\ On(o, tx).tx = tx /\ On(o, tx).auto = FALSE
  BY DEF NoCall
<1>1. ASSUME NEW tx \in Tx, NEW o \in Ops \ {"none", "write", "drop", "ntread"},
             Usable(th, tx), Begin(th, "lock", On(o, tx))
      PROVE  OwnershipInv' /\ ExclusionInv' /\ TrailInv' /\ StoreInv'
  <2>1. Claims(th, "lock", On(o, tx))
    BY <1>0, <1>1 DEF Claims, Usable
  <2> QED BY <1>1, <2>1, BeginIsolation DEF Usable
<1>2. CASE CallStartTransaction(th)
  <2>1. PICK tx \in Tx : Fresh(tx) /\ Begin(th, "start", [NoCall EXCEPT !.tx = tx])
    BY <1>2 DEF CallStartTransaction
  <2>2. Claims(th, "start", [NoCall EXCEPT !.tx = tx])
    BY <2>1 DEF Claims, NoCall
  <2> QED BY <1>2, <2>1, <2>2, BeginIsolation DEF CallStartTransaction
<1>3. CASE CallWrite(th)
  <2>1. PICK tx \in Tx : \E c \in Writes(tx) : Usable(th, tx) /\ Begin(th, "lock", c)
    BY <1>3 DEF CallWrite
  <2>2. PICK c \in Writes(tx) : Usable(th, tx) /\ Begin(th, "lock", c)
    BY <2>1
  <2>3. c.op = "write" /\ c.tx = tx /\ c.auto = FALSE
    BY WritesType
  <2>4. Claims(th, "lock", c)
    BY <2>2, <2>3 DEF Claims, Usable
  <2> QED BY <2>2, <2>4, BeginIsolation DEF Usable
<1>4. CASE CallRemoveMatching(th)
  BY <1>4, <1>1 DEF CallRemoveMatching, Ops
<1>5. CASE CallRead(th)
  BY <1>5, <1>1 DEF CallRead, Ops
<1>6. CASE CallImportUnreadable(th)
  BY <1>6, <1>1 DEF CallImportUnreadable, Ops
<1>7. CASE CallCommit(th)
  BY <1>7, <1>1 DEF CallCommit, Ops
<1>8. CASE CallRollback(th)
  BY <1>8, <1>1 DEF CallRollback, Ops
<1>9. CASE CallDelete(th)
  <2>1. PICK tx \in holds[th] : ~InSlotOf(th, tx) /\ Begin(th, "destroy", On("drop", tx))
    BY <1>9 DEF CallDelete
  <2>2. tx \in Tx
    BY DEF Inv, TypeInv, TypeOK
  <2>3. Claims(th, "destroy", On("drop", tx))
    BY <1>0, <2>1, <2>2 DEF Claims, Ops
  <2> QED BY <1>9, <2>1, <2>3, BeginIsolation DEF CallDelete
<1>10. CASE CallDirectRead(th)
  <2>1. Claims(th, "lock", [NoCall EXCEPT !.op = "ntread"])
    BY DEF Claims, NoCall
  <2> QED BY <1>10, <2>1, BeginIsolation DEF CallDirectRead
<1>11. CASE CallDirectWrite(th)
  <2>1. PICK tx \in Tx : /\ Fresh(tx)
                         /\ \E c \in Writes(tx) \cup {On(o, tx) : o \in {"match", "read", "abandon"}} :
                              Begin(th, "start", [c EXCEPT !.auto = TRUE])
    BY <1>11, Zenon DEF CallDirectWrite
  <2>2. PICK c \in Writes(tx) \cup {On(o, tx) : o \in {"match", "read", "abandon"}} :
          Begin(th, "start", [c EXCEPT !.auto = TRUE])
    BY <2>1
  <2>3. c \in CallRecord /\ c.tx = tx /\ c.op \in {"write", "match", "read", "abandon"}
    <3>1. CASE c \in Writes(tx)
      BY <3>1, WritesType
    <3>2. CASE \E o \in {"match", "read", "abandon"} : c = On(o, tx)
      BY <3>2, NoCallType DEF CallRecord, NoCall, Ops
    <3> QED BY <3>1, <3>2
  <2>4. Claims(th, "start", [c EXCEPT !.auto = TRUE])
    BY <2>1, <2>3 DEF Claims, CallRecord
  <2> QED BY <1>11, <2>2, <2>4, BeginIsolation DEF CallDirectWrite
<1> QED BY <1>2, <1>3, <1>4, <1>5, <1>6, <1>7, <1>8, <1>9, <1>10, <1>11 DEF Call
\* Returning, rolling back after an exception and going on to the next write
\* end a thread's business with the store.
LEMMA LeavesContinue ==
    ASSUME TypeInv, NEW th \in Thread, pc[th] # "start",
           \/ Idle(th)
           \/ call[th].op \notin {"none", "ntread"} /\ (Return(th) \/ Abandon(th) \/ NextWrite(th))
    PROVE  Continues(th) /\ ~Busy(th)'
<1>0. call[th] \in CallRecord /\ pc \in [Thread -> PCs] /\ call \in [Thread -> CallRecord]
  BY DEF TypeInv, ThreadsOK
<1>1. CASE Idle(th)
  BY <1>0, <1>1 DEF Idle, Continues, Others, Busy, Inside, NoCall
<1>2. CASE Abandon(th) /\ call[th].op \notin {"none", "ntread"}
  BY <1>0, <1>2 DEF Abandon, Continues, Others, Busy, Inside, CallRecord
<1>3. CASE Return(th) /\ call[th].op \notin {"none", "ntread"} /\ call[th].auto
  BY <1>0, <1>3 DEF Return, Continues, Others, Busy, Inside, CallRecord
<1>4. CASE NextWrite(th) /\ call[th].op \notin {"none", "ntread"} /\ call[th].n # Len(call[th].todo)
  BY <1>0, <1>4 DEF NextWrite, Continues, Others, Busy, Inside, CallRecord
<1> QED BY <1>1, <1>2, <1>3, <1>4 DEF Return, NextWrite

\* Making a transaction current, or throwing because there is one already.
LEMMA StartIsolation ==
    ASSUME Inv, NEW th \in Thread, StartTransaction(th)
    PROVE  OwnershipInv' /\ ExclusionInv' /\ TrailInv' /\ StoreInv'
<1>0. /\ pc[th] = "start" /\ CanLock /\ call[th].tx \in Tx \ alive /\ pc \in [Thread -> PCs]
      /\ call \in [Thread -> CallRecord] /\ holds \in [Thread -> SUBSET Tx]
      /\ UNCHANGED <<store, mutex, context, changes, committed, abandoned, committing, trail>>
  BY DEF StartTransaction, Inv, OwnershipInv, OwnedBy, TypeInv, TypeOK, ThreadsOK, CallOK, history
<1>1. Others(th) /\ ~Busy(th) /\ ~Busy(th)' /\ pc'[th] \in {"idle", "lock"}
  BY <1>0 DEF StartTransaction, Others, Idle, Goto, Busy, Inside
<1>2. CASE currentTx # NoTransaction
  <2>1. /\ call'[th] = NoCall /\ pc'[th] = "idle"
        /\ UNCHANGED <<currentTx, holds>>
    BY <1>0, <1>2 DEF StartTransaction, Idle
  <2>2. CurrentChanges' = CurrentChanges /\ alive' = alive
    BY <1>0, <2>1 DEF CurrentChanges, alive
  <2>3. ASSUME NEW u \in Thread PROVE OwnedBy(u)'
    <3>1. CASE u = th
      BY <1>0, <2>1, <2>2, <3>1 DEF Inv, OwnershipInv, OwnedBy, InSlotOf, NoCall
    <3>2. CASE u # th
      BY <1>0, <1>1, <2>1, <2>2, <3>2 DEF Inv, OwnershipInv, OwnedBy, InSlotOf, Others
    <3> QED BY <3>1, <3>2
  <2>4. ASSUME NEW a \in Thread, NEW b \in Thread, pc'[a] = "start", b # a
        PROVE  call'[b].tx # call'[a].tx
    <3>1. a # th /\ call'[a] = call[a] /\ pc[a] = "start" /\ call[a].tx \in Tx
      BY <1>1, <2>1, <2>4 DEF Others, Inv, TypeInv, ThreadsOK, CallOK
    <3> QED BY <1>1, <2>1, <2>4, <3>1, ValuesAssumption DEF Others, Inv, OwnershipInv, NoCall
  <2>5. OwnershipInv'
    BY <1>0, <2>1, <2>2, <2>3, <2>4 DEF Inv, OwnershipInv
  <2> QED BY <1>0, <1>1, <2>1, <2>2, <2>5, AsideStep
<1>3. CASE currentTx = NoTransaction
  <2>1. /\ currentTx' = call[th].tx /\ holds' = [holds EXCEPT ![th] = @ \cup {call[th].tx}]
        /\ \/ call'[th] = NoCall /\ pc'[th] = "idle"
           \/ call'[th] = call[th] /\ pc'[th] = "lock"
    BY <1>0, <1>3 DEF StartTransaction, Idle, Goto
  <2>2. alive' = alive \cup {call[th].tx} /\ alive \subseteq Tx
    BY <1>0, <2>1 DEF alive
  <2>3. CurrentChanges' = CurrentChanges
    BY <1>0, <1>3, <2>1, ValuesAssumption DEF CurrentChanges, Inv, OwnershipInv
  <2>4. \A u \in Thread : \A i \in DOMAIN committing[u] : committing[u][i] \in holds[u] \cap alive
    BY DEF Inv, OwnershipInv, OwnedBy, alive
  <2>5. ASSUME NEW u \in Thread PROVE OwnedBy(u)'
    <3>1. CASE u = th
      BY <1>0, <2>1, <2>2, <2>4, <3>1 DEF Inv, OwnershipInv, OwnedBy, InSlotOf, NoCall
    <3>2. CASE u # th
      <4>1. pc[u] = "start" => call[u].tx \notin alive'
        BY <1>0, <2>2, <3>2 DEF Inv, OwnershipInv, OwnedBy
      <4> QED BY <1>0, <1>1, <2>1, <2>2, <2>4, <3>2, <4>1 DEF Inv, OwnershipInv, OwnedBy, InSlotOf, Others
    <3> QED BY <3>1, <3>2
  <2>6. ASSUME NEW a \in Thread, NEW b \in Thread, pc'[a] = "start", b # a
        PROVE  call'[b].tx # call'[a].tx
    <3>1. a # th /\ call'[a] = call[a] /\ pc[a] = "start" /\ call[a].tx \in Tx
      BY <1>1, <2>1, <2>6 DEF Others, Inv, TypeInv, ThreadsOK, CallOK
    <3> QED BY <1>1, <2>1, <2>6, <3>1, ValuesAssumption DEF Others, Inv, OwnershipInv, NoCall
  <2>7. \A a, b \in Thread : a # b => holds'[a] \cap holds'[b] = {}
    BY <1>0, <2>1 DEF Inv, OwnershipInv, alive
  <2>8. OwnershipInv'
    BY <1>0, <2>1, <2>2, <2>5, <2>6, <2>7 DEF Inv, OwnershipInv
  <2>9. Alone(th)
    <3> SUFFICES ASSUME NEW u \in Thread, Busy(u) PROVE FALSE
      BY DEF Alone
    <3>1. pc[u] = "record"
      BY <1>0, ValuesAssumption DEF Inv, ExclusionInv, Busy, CanLock
    <3>2. call[u].tx = NoTransaction /\ call[u].tx \in Tx
      BY <1>3, <3>1 DEF Inv, ExclusionInv, IsCurrent, TypeInv, ThreadsOK, CallOK, OpFits
    <3> QED BY <3>2, ValuesAssumption
  <2> QED BY <1>0, <1>1, <2>3, <2>8, <2>9, AsideStep
<1> QED BY <1>2, <1>3

\* A failed integrity check leaves the store as it is, although it may leave
\* the mutex locked.
LEMMA RefusedIsolation ==
    ASSUME Inv, NEW th \in Thread, pc[th] = "lock", CanLock, Continues(th), ~Busy(th)',
           UNCHANGED <<store, context, currentTx, txVars, committing, trail>>
    PROVE  OwnershipInv' /\ ExclusionInv' /\ TrailInv' /\ StoreInv'
<1>1. OwnershipInv'
  BY OwnershipStep DEF Inv, OwnershipInv, txVars
<1>2. CurrentChanges' = CurrentChanges
  BY DEF CurrentChanges, txVars
<1>3. ~Busy(th)
  BY DEF Busy, Inside
<1> QED BY <1>1, <1>2, <1>3, AsideStep DEF Continues

\* The steps that take the mutex preserve the invariant, unless an access
\* reverts a change that is not recorded yet.
LEMMA LockIsolation ==
    ASSUME Inv, ~raced', NEW th \in Thread, Lock(th)
    PROVE  OwnershipInv' /\ ExclusionInv' /\ TrailInv' /\ StoreInv'
<1>0. call[th] \in CallRecord /\ pc \in [Thread -> PCs] /\ CallOK(th)
  BY DEF Inv, TypeInv, ThreadsOK
<1>1. CASE StartTransaction(th)
  BY <1>1, StartIsolation
<1>2. CASE StartOperation(th)
  <2>1. CASE IsCurrent(th)
    BY <1>2, <2>1, EnterIsolation DEF StartOperation
  <2>2. CASE ~IsCurrent(th)
    <3>1. Continues(th) /\ ~Busy(th)'
      BY <1>2, <2>2, LeavesContinue DEF StartOperation, Inv
    <3> QED BY <1>2, <2>2, <3>1, RefusedIsolation DEF StartOperation, history
  <2> QED BY <2>1, <2>2
<1>3. CASE CommitTransaction(th)
  <2>1. CASE IsCurrent(th)
    BY <1>3, <2>1, EnterIsolation DEF CommitTransaction
  <2>2. CASE ~IsCurrent(th)
    <3>1. Continues(th) /\ ~Busy(th)'
      BY <1>3, <2>2, LeavesContinue DEF CommitTransaction, Inv
    <3> QED BY <1>3, <2>2, <3>1, RefusedIsolation DEF CommitTransaction, history
  <2> QED BY <2>1, <2>2
<1>4. CASE RollbackTransaction(th)
  <2>1. CASE IsCurrent(th)
    BY <1>4, <2>1, LeaveIsolation DEF RollbackTransaction
  <2>2. CASE ~IsCurrent(th)
    <3>1. Continues(th) /\ ~Busy(th)'
      <4>1. CASE call[th].op \in {"rollback", "abandon"}
        BY <1>4, <2>2, <4>1, LeavesContinue DEF RollbackTransaction, RollbackThrows, Inv
      <4>2. CASE call[th].op = "drop"
        <5>1. UNCHANGED <<pc, call>> /\ pc[th] = "lock"
          BY <1>4, <2>2, <4>2 DEF RollbackTransaction, RollbackThrows
        <5>2. call[th].tx = call'[th].tx /\ call'[th].op = call[th].op /\ Others(th)
          BY <5>1 DEF Others
        <5> QED BY <4>2, <5>1, <5>2 DEF Continues, Busy, Inside
      <4> QED BY <1>4, <4>1, <4>2 DEF RollbackTransaction, Releases
    <3> QED BY <1>4, <2>2, <3>1, RefusedIsolation DEF RollbackTransaction
  <2> QED BY <2>1, <2>2
<1>5. CASE StartNonTransactionalAccess(th)
  <2>1. /\ pc[th] = "lock" /\ call[th].op = "ntread" /\ CanLock /\ LeaveTransactionContext(th)
        /\ UNCHANGED <<store, currentTx, txVars, committing, trail>>
    BY <1>5 DEF StartNonTransactionalAccess
  <2> QED BY <2>1, LeaveIsolation
<1>6. CASE ReadUndefined(th)
  <2>1. UNCHANGED <<store, context, currentTx, txVars, committing, trail, pc, call>>
    BY <1>6 DEF ReadUndefined, storeVars, threadVars
  <2>2. Continues(th) /\ ~Busy(th)' /\ pc[th] = "lock" /\ CanLock
    BY <1>6, <2>1 DEF ReadUndefined, Continues, Others, Busy, Inside
  <2> QED BY <2>1, <2>2, RefusedIsolation
<1> QED BY <1>1, <1>2, <1>3, <1>4, <1>5, <1>6 DEF Lock
\* Replaying finds each triple as the change expects it.
LEMMA ReplayFits ==
    ASSUME Inv, NEW th \in Thread, pc[th] = "replay"
    PROVE  /\ Effective(Current(th), store)
           /\ call[th].i \in 1 .. Len(CurrentChanges) /\ call[th].cs = CurrentChanges
           /\ Applied(Current(th), store) = trail[call[th].i + 1]
BY DEF Inv, StoreInv, BusyStore, Switching, TrailInv, Current

\* So does reverting.
LEMMA RevertFits ==
    ASSUME Inv, NEW th \in Thread, pc[th] = "revert"
    PROVE  /\ Effective(Opposite(Current(th)), store)
           /\ call[th].i \in 1 .. Len(CurrentChanges) /\ call[th].cs = CurrentChanges
           /\ Applied(Opposite(Current(th)), store) = trail[call[th].i]
<1>1. call[th].i \in 1 .. Len(CurrentChanges) /\ call[th].cs = CurrentChanges
  BY DEF Inv, StoreInv, BusyStore, Switching
<1>2. Current(th) \in Change
  BY <1>1, CurrentType DEF Current
<1>3. Effective(Current(th), trail[call[th].i]) /\ store = Applied(Current(th), trail[call[th].i])
  BY <1>1 DEF Inv, StoreInv, BusyStore, TrailInv, Current
<1> QED BY <1>1, <1>2, <1>3, OppositeUndoes

\* A step of a context switch.
LEMMA SwitchIsolation ==
    ASSUME Inv, NEW th \in Thread, ReplayStep(th) \/ RevertStep(th)
    PROVE  OwnershipInv' /\ ExclusionInv' /\ TrailInv' /\ StoreInv'
<1>0. /\ call[th] \in CallRecord /\ pc \in [Thread -> PCs] /\ call \in [Thread -> CallRecord]
      /\ CallOK(th) /\ Busy(th) /\ Alone(th) /\ mutex = th
      /\ UNCHANGED <<mutex, currentTx, txVars, committing, history>>
  BY BusyIsAlone DEF Inv, TypeInv, ThreadsOK, ReplayStep, RevertStep, Busy, Inside, ExclusionInv
<1>1. CurrentChanges' = CurrentChanges /\ UNCHANGED <<holds, changes, committed, abandoned, trail>>
  BY <1>0 DEF CurrentChanges, txVars, history
<1>2. TrailInv'
  BY <1>1 DEF Inv, TrailInv
<1>3. CASE ReplayStep(th)
  <2>1. /\ call'[th].op = call[th].op /\ call'[th].tx = call[th].tx /\ call'[th].auto = call[th].auto
        /\ pc'[th] \in {"replay", "body"} /\ Others(th) /\ pc[th] = "replay"
    BY <1>0, <1>3 DEF ReplayStep, Others, CallRecord
  <2>2. store' = trail[call[th].i + 1]
    BY <1>3, ReplayFits DEF ReplayStep
  <2>3. BusyStore(th)'
    <3>1. CASE call[th].i < Len(call[th].cs)
      <4>1. pc'[th] = "replay" /\ call'[th].i = call[th].i + 1 /\ call'[th].cs = call[th].cs
        BY <1>0, <1>3, <3>1 DEF ReplayStep, CallRecord
      <4>2. call'[th].i \in 1 .. Len(CurrentChanges)
        BY <2>1, <3>1, <4>1, ReplayFits, CurrentType
      <4> QED BY <1>1, <2>1, <2>2, <4>1, <4>2, ReplayFits DEF BusyStore, Switching
    <3>2. CASE ~(call[th].i < Len(call[th].cs))
      <4>1. pc'[th] = "body" /\ context' = "TxContext"
        BY <1>0, <1>3, <3>2 DEF ReplayStep
      <4>2. call[th].i = Len(CurrentChanges)
        BY <2>1, <3>2, ReplayFits, CurrentType
      <4> QED BY <1>1, <2>2, <4>1, <4>2, CurrentType DEF BusyStore
    <3> QED BY <3>1, <3>2
  <2>4. IsCurrent(th)'
    BY <1>0, <2>1 DEF Inv, ExclusionInv, IsCurrent
  <2>5. ExclusionInv' /\ StoreInv'
    BY <1>0, <2>1, <2>3, <2>4, AloneStep DEF Busy, Inside
  <2>6. OwnershipInv'
    BY <1>0, <1>1, <2>1, OwnershipStep DEF Continues, Inv, OwnershipInv
  <2> QED BY <1>2, <2>5, <2>6
<1>4. CASE RevertStep(th)
  <2>1. /\ call'[th].op = call[th].op /\ call'[th].tx = call[th].tx /\ call'[th].auto = call[th].auto
        /\ pc'[th] \in {"revert", "left"} /\ Others(th) /\ pc[th] = "revert"
    BY <1>0, <1>4 DEF RevertStep, Others, CallRecord
  <2>2. store' = trail[call[th].i]
    BY <1>4, RevertFits DEF RevertStep
  <2>3. BusyStore(th)'
    <3>1. CASE call[th].i > 1
      <4>1. pc'[th] = "revert" /\ call'[th].i = call[th].i - 1 /\ call'[th].cs = call[th].cs
        BY <1>0, <1>4, <3>1 DEF RevertStep, CallRecord
      <4>2. call'[th].i \in 1 .. Len(CurrentChanges) /\ call'[th].i + 1 = call[th].i
        BY <2>1, <3>1, <4>1, RevertFits, CurrentType
      <4> QED BY <1>1, <2>1, <2>2, <4>1, <4>2, RevertFits DEF BusyStore, Switching
    <3>2. CASE ~(call[th].i > 1)
      <4>1. pc'[th] = "left" /\ context' = "NonTxContext"
        BY <1>0, <1>4, <3>2 DEF RevertStep
      <4>2. call[th].i = 1
        BY <2>1, <3>2, RevertFits, CurrentType
      <4> QED BY <1>1, <2>2, <4>1, <4>2 DEF BusyStore
    <3> QED BY <3>1, <3>2
  <2>4. call'[th].op \in Releases => IsCurrent(th)'
    BY <1>0, <2>1 DEF Inv, ExclusionInv, IsCurrent
  <2>5. ExclusionInv' /\ StoreInv'
    BY <1>0, <2>1, <2>3, <2>4, AloneStep DEF Busy, Inside
  <2>6. OwnershipInv'
    BY <1>0, <1>1, <2>1, OwnershipStep DEF Continues, Inv, OwnershipInv
  <2> QED BY <1>2, <2>5, <2>6
<1> QED BY <1>3, <1>4

\* The end of an access that leaves the store and the transaction as they are.
LEMMA AccessIsolation ==
    ASSUME Inv, NEW th \in Thread, pc[th] \in {"body", "left"}, Continues(th), ~Busy(th)',
           UNCHANGED <<store, context, currentTx, txVars, committing, trail>>
    PROVE  OwnershipInv' /\ ExclusionInv' /\ TrailInv' /\ StoreInv'
<1>1. OwnershipInv'
  BY OwnershipStep DEF Inv, OwnershipInv, txVars
<1>2. CurrentChanges' = CurrentChanges /\ trail' = trail
  BY DEF CurrentChanges, txVars
<1>3. TrailInv'
  BY <1>2 DEF Inv, TrailInv
<1>4. Busy(th) /\ Alone(th)
  BY BusyIsAlone DEF Busy, Inside, Inv
<1>5. store = IF context = "TxContext" THEN Last(trail) ELSE trail[1]
  BY DEF Inv, StoreInv, BusyStore
<1>6. pc'[th] \notin Inside \cup {"record"} /\ BusyStore(th)'
  BY DEF Busy, BusyStore, Inside
<1>7. ExclusionInv' /\ StoreInv'
  BY <1>4, <1>5, <1>6, AloneStep DEF Continues, Inside
<1> QED BY <1>1, <1>3, <1>7
\* The end of a rollback, which finds the committed contents in the store.
LEMMA FinishRollbackIsolation ==
    ASSUME Inv, NEW th \in Thread, FinishRollback(th)
    PROVE  OwnershipInv' /\ ExclusionInv' /\ TrailInv' /\ StoreInv'
<1>0. /\ pc[th] = "left" /\ call[th].op \in Releases /\ IsCurrent(th) /\ call[th].tx \in holds[th]
      /\ Alone(th) /\ context = "NonTxContext" /\ store = trail[1] /\ pc \in [Thread -> PCs]
      /\ call[th] \in CallRecord /\ holds \in [Thread -> SUBSET Tx]
  BY BusyIsAlone DEF FinishRollback, Inv, ExclusionInv, StoreInv, BusyStore, Busy, Inside, OwnershipInv,
                     OwnedBy, TypeInv, TypeOK, ThreadsOK, Releases
<1>1. /\ currentTx' = NoTransaction /\ trail' = <<trail[1]>>
      /\ UNCHANGED <<store, context, committing>>
  BY DEF FinishRollback, ResetCurrentTx
<1>2. Idle(th) \/ Return(th)
  BY DEF FinishRollback
<1>3. Continues(th) /\ ~Busy(th)'
  BY <1>0, <1>2, LeavesContinue DEF Inv, Releases
<1>4. OwnershipInv'
  <2>1. CASE call[th].op = "drop"
    <3>1. ~InSlotOf(th, call[th].tx)
      BY <2>1 DEF Inv, OwnershipInv, OwnedBy
    <3> QED BY <1>0, <1>1, <2>1, <3>1, DeallocateOwnership DEF FinishRollback, Inv
  <2>2. CASE call[th].op # "drop"
    <3>1. /\ abandoned' = abandoned \cup {call[th].tx}
          /\ UNCHANGED <<holds, changes, committed>>
      BY <2>2 DEF FinishRollback
    <3>2. call[th].tx \in alive /\ alive \subseteq Tx /\ \A u \in Thread : holds[u] \subseteq Tx
      BY <1>0 DEF alive
    <3>3. committed' \cup abandoned' \subseteq alive \ {currentTx'}
      BY <1>1, <3>1, <3>2, ValuesAssumption DEF Inv, OwnershipInv
    <3>4. \A u \in Thread : \A i \in DOMAIN committing'[u] : committing'[u][i] \in holds[u] \ {currentTx'}
      BY <1>1, <3>2, ValuesAssumption DEF Inv, OwnershipInv, OwnedBy
    <3> QED BY <1>1, <1>3, <3>1, <3>3, <3>4, OwnershipChange DEF Inv, OwnershipInv
  <2> QED BY <2>1, <2>2
<1>5. CurrentChanges' = <<>> /\ TrailInv'
  BY <1>1 DEF CurrentChanges, TrailInv
<1>6. BusyStore(th)' /\ pc'[th] \notin Inside \cup {"record"}
  BY <1>3 DEF Busy, BusyStore, Inside
<1>7. ExclusionInv' /\ StoreInv'
  BY <1>0, <1>1, <1>3, <1>6, AloneStep DEF Continues, Inside
<1> QED BY <1>4, <1>5, <1>7

\* The end of the critical section of a commit: what the transaction has made
\* of the contents is what is committed.
LEMMA PublishCommitIsolation ==
    ASSUME Inv, NEW th \in Thread, PublishCommit(th)
    PROVE  OwnershipInv' /\ ExclusionInv' /\ TrailInv' /\ StoreInv'
<1>0. /\ pc[th] = "body" /\ call[th].op = "commit" /\ IsCurrent(th) /\ call[th].tx \in holds[th]
      /\ Alone(th) /\ store = Last(trail) /\ pc \in [Thread -> PCs] /\ call[th] \in CallRecord
      /\ holds \in [Thread -> SUBSET Tx] /\ committing \in [Thread -> Seq(Tx)] /\ Idle(th)
  BY BusyIsAlone DEF PublishCommit, Inv, ExclusionInv, StoreInv, BusyStore, Busy, Inside, OwnershipInv,
                     OwnedBy, TypeInv, TypeOK, ThreadsOK
<1>1. /\ currentTx' = NoTransaction /\ trail' = <<Last(trail)>> /\ context' = "NonTxContext"
      /\ committing' = [committing EXCEPT ![th] = Append(@, call[th].tx)]
      /\ UNCHANGED <<store, txVars>>
  BY DEF PublishCommit, ResetCurrentTx
<1>2. Continues(th) /\ ~Busy(th)'
  BY <1>0, LeavesContinue DEF Inv
<1>3. OwnershipInv'
  <2>1. alive \subseteq Tx /\ \A u \in Thread : holds[u] \subseteq Tx
    BY <1>0 DEF alive
  <2>2. ASSUME NEW u \in Thread, NEW i \in DOMAIN committing'[u]
        PROVE  committing'[u][i] \in holds[u] \ {currentTx'}
    <3>1. CASE u = th /\ i = Len(committing[th]) + 1
      BY <1>0, <1>1, <2>1, <3>1, ValuesAssumption
    <3>2. CASE ~(u = th /\ i = Len(committing[th]) + 1)
      <4>1. i \in DOMAIN committing[u] /\ committing'[u][i] = committing[u][i]
        BY <1>0, <1>1, <2>2, <3>2
      <4> QED BY <1>1, <2>1, <4>1, ValuesAssumption DEF Inv, OwnershipInv, OwnedBy
    <3> QED BY <3>1, <3>2
  <2>3. \A u \in Thread : call'[u].op = "drop" \/ call'[u].auto => committing'[u] = committing[u]
    <3>1. call'[th] = NoCall
      BY <1>0 DEF Idle, Inv, TypeInv, ThreadsOK
    <3> QED BY <1>0, <1>1, <3>1 DEF NoCall
  <2>4. committed' \cup abandoned' \subseteq alive \ {currentTx'}
    BY <1>1, <2>1, ValuesAssumption DEF txVars, Inv, OwnershipInv
  <2> QED BY <1>1, <1>2, <2>2, <2>3, <2>4, OwnershipChange DEF Inv, OwnershipInv, txVars
<1>4. CurrentChanges' = <<>> /\ TrailInv'
  BY <1>1 DEF CurrentChanges, TrailInv
<1>5. BusyStore(th)' /\ pc'[th] \notin Inside \cup {"record"}
  BY <1>2 DEF Busy, BusyStore, Inside
<1>6. ExclusionInv' /\ StoreInv'
  BY <1>0, <1>1, <1>2, <1>5, AloneStep DEF Continues, Inside
<1> QED BY <1>3, <1>4, <1>6

\* A change takes effect, and is yet to be recorded.
LEMMA WriteIsolation ==
    ASSUME Inv, NEW th \in Thread, WriteTakesEffect(th)
    PROVE  OwnershipInv' /\ ExclusionInv' /\ TrailInv' /\ StoreInv'
<1>0. /\ pc[th] = "body" /\ IsCurrent(th) /\ Alone(th) /\ store = Last(trail) /\ context = "TxContext"
      /\ Effective(Todo(th), store) /\ store' = Applied(Todo(th), store) /\ pc \in [Thread -> PCs]
      /\ UNCHANGED <<call, currentTx, context, txVars, committing, trail>>
  BY BusyIsAlone DEF WriteTakesEffect, Goto, Inv, ExclusionInv, StoreInv, BusyStore, Busy, Inside,
                     TypeInv, TypeOK, history
<1>1. pc' = [pc EXCEPT ![th] = "record"]
  BY DEF WriteTakesEffect, Goto
<1>2. Continues(th) /\ pc'[th] = "record"
  BY <1>0, <1>1 DEF Continues, Others
<1>3. OwnershipInv'
  BY <1>0, <1>2, OwnershipStep DEF Inv, OwnershipInv, txVars
<1>4. CurrentChanges' = CurrentChanges /\ TrailInv'
  BY <1>0 DEF CurrentChanges, txVars, Inv, TrailInv
<1>5. BusyStore(th)' /\ Busy(th)'
  BY <1>0, <1>2 DEF BusyStore, Todo, Busy
<1>6. ExclusionInv' /\ StoreInv'
  BY <1>0, <1>2, <1>5, AloneStep DEF Continues, Inside, IsCurrent
<1> QED BY <1>3, <1>4, <1>6

\* It is recorded: the trail leads through it to what is in the store.
LEMMA RecordIsolation ==
    ASSUME Inv, NEW th \in Thread, Record(th)
    PROVE  OwnershipInv' /\ ExclusionInv' /\ TrailInv' /\ StoreInv'
<1> DEFINE tx == call[th].tx
           S == Applied(Todo(th), Last(trail))
<1>0. /\ pc[th] = "record" /\ call[th].op = "write" /\ IsCurrent(th) /\ tx \in holds[th] /\ tx \in Tx
      /\ Alone(th) /\ store = S /\ context = "TxContext" /\ Effective(Todo(th), Last(trail))
      /\ changes \in [Tx -> Seq(Change)] /\ Todo(th) \in Change
  <2>1. pc[th] = "record"
    BY DEF Record
  <2>2. call[th] \in CallRecord /\ CallOK(th) /\ changes \in [Tx -> Seq(Change)]
    BY DEF Inv, TypeInv, TypeOK, ThreadsOK
  <2>3. call[th].op = "write" /\ tx \in Tx /\ Todo(th) \in Change
    BY <2>1, <2>2 DEF CallOK, OpFits, CallRecord, Todo
  <2>4. tx \in holds[th]
    BY <2>1, <2>3 DEF Inv, OwnershipInv, OwnedBy
  <2>5. IsCurrent(th) /\ Alone(th)
    BY <2>1, BusyIsAlone DEF Inv, ExclusionInv, Busy
  <2>6. store = S /\ context = "TxContext" /\ Effective(Todo(th), Last(trail))
    BY <2>1 DEF Inv, StoreInv, BusyStore
  <2> QED BY <2>1, <2>2, <2>3, <2>4, <2>5, <2>6
<1>1. /\ changes' = [changes EXCEPT ![tx] = Append(@, Todo(th))]
      /\ trail' = Append(trail, S) /\ NextWrite(th)
      /\ UNCHANGED <<store, currentTx, context, holds, committed, abandoned, committing>>
  BY DEF Record, storeVars
<1>2. Continues(th) /\ ~Busy(th)'
  BY <1>0, <1>1, LeavesContinue DEF Inv
<1>3. OwnershipInv'
  <2>1. tx \in alive
    BY <1>0 DEF alive
  <2> QED BY <1>0, <1>1, <1>2, <2>1, OwnershipStep DEF Inv, OwnershipInv
<1>4. CurrentChanges' = Append(CurrentChanges, Todo(th))
  BY <1>0, <1>1, ValuesAssumption DEF IsCurrent, CurrentChanges
<1>5. S \in SUBSET Triple
  BY <1>0, AppliedType, CurrentType DEF Effective, Inv, TypeInv, TypeOK
<1> HIDE DEF S
<1>6. /\ Len(CurrentChanges') = Len(CurrentChanges) + 1 /\ Len(trail') = Len(CurrentChanges) + 2
      /\ \A i \in 1 .. Len(CurrentChanges) : CurrentChanges'[i] = CurrentChanges[i]
      /\ \A i \in 1 .. Len(CurrentChanges) + 1 : trail'[i] = trail[i]
      /\ CurrentChanges'[Len(CurrentChanges) + 1] = Todo(th)
      /\ trail'[Len(CurrentChanges) + 2] = S
  BY <1>0, <1>1, <1>4, <1>5, CurrentType
<1>7. TrailInv'
  <2>1. ASSUME NEW i \in 1 .. Len(CurrentChanges')
        PROVE  /\ Effective(CurrentChanges'[i], trail'[i])
               /\ trail'[i + 1] = Applied(CurrentChanges'[i], trail'[i])
    <3>1. CASE i \in 1 .. Len(CurrentChanges)
      BY <1>6, <3>1, CurrentType DEF Inv, TrailInv
    <3>2. CASE i = Len(CurrentChanges) + 1
      BY <1>0, <1>6, <3>2, CurrentType DEF S
    <3> QED BY <1>6, <2>1, <3>1, <3>2, CurrentType
  <2> QED BY <1>6, <2>1, CurrentType DEF TrailInv
<1>8. Last(trail') = S
  BY <1>6, CurrentType DEF Last
<1>9. BusyStore(th)' /\ pc'[th] \notin Inside \cup {"record"}
  BY <1>2 DEF Busy, BusyStore, Inside
<1>10. ExclusionInv' /\ StoreInv'
  BY <1>0, <1>1, <1>2, <1>8, <1>9, AloneStep DEF Continues, Inside
<1> QED BY <1>3, <1>7, <1>10

\* The destructor either starts a rollback, or deletes a transaction that is
\* not the current one or has no changes.
LEMMA DestroyIsolation ==
    ASSUME Inv, NEW th \in Thread, Destroy(th)
    PROVE  OwnershipInv' /\ ExclusionInv' /\ TrailInv' /\ StoreInv'
<1> DEFINE tx == call[th].tx
<1>0. /\ pc[th] = "destroy" /\ call[th].op = "drop" /\ tx \in holds[th] /\ tx \in Tx
      /\ ~InSlotOf(th, tx) /\ pc \in [Thread -> PCs] /\ ~Busy(th)
      /\ changes \in [Tx -> Seq(Change)] /\ tx \in alive
      /\ UNCHANGED <<store, mutex, currentTx, context, committing, trail>>
  <2>1. pc[th] = "destroy" /\ UNCHANGED <<store, mutex, currentTx, context, committing, trail>>
    BY DEF Destroy, storeVars, history
  <2>2. CallOK(th) /\ pc \in [Thread -> PCs] /\ changes \in [Tx -> Seq(Change)]
    BY DEF Inv, TypeInv, TypeOK, ThreadsOK
  <2>3. call[th].op = "drop" /\ tx \in Tx /\ ~Busy(th)
    BY <2>1, <2>2 DEF CallOK, OpFits, Busy, Inside
  <2>4. tx \in holds[th] /\ ~InSlotOf(th, tx)
    BY <2>1, <2>3 DEF Inv, OwnershipInv, OwnedBy
  <2> QED BY <2>1, <2>2, <2>3, <2>4 DEF alive
<1>1. CASE Goto(th, "lock") /\ UNCHANGED txVars
  <2>1. Continues(th) /\ ~Busy(th)'
    BY <1>0, <1>1 DEF Goto, Continues, Others, Busy, Inside
  <2>2. OwnershipInv'
    BY <1>0, <1>1, <2>1, OwnershipStep DEF Inv, OwnershipInv, txVars
  <2>3. CurrentChanges' = CurrentChanges
    BY <1>0, <1>1 DEF CurrentChanges, txVars
  <2> QED BY <1>0, <2>1, <2>2, <2>3, AsideStep DEF Continues
<1>2. CASE (tx \notin Unresolved \/ changes[tx] = <<>>) /\ Deallocate(th, tx) /\ Idle(th)
  <2>1. Continues(th) /\ ~Busy(th)'
    BY <1>0, <1>2, LeavesContinue DEF Inv
  <2>2. OwnershipInv'
    BY <1>0, <1>2, DeallocateOwnership DEF Inv
  <2>3. tx # currentTx \/ changes[tx] = <<>>
    BY <1>0, <1>2 DEF Unresolved, Inv, OwnershipInv
  <2>4. changes' = [changes EXCEPT ![tx] = <<>>]
    BY <1>2 DEF Deallocate
  <2>5. CurrentChanges' = CurrentChanges
    <3>1. CASE currentTx = NoTransaction
      BY <1>0, <3>1 DEF CurrentChanges
    <3>2. CASE currentTx # NoTransaction
      <4>1. currentTx \in Tx
        BY <3>2 DEF Inv, TypeInv, TypeOK
      <4> QED BY <1>0, <2>3, <2>4, <3>2, <4>1 DEF CurrentChanges
    <3> QED BY <3>1, <3>2
  <2> QED BY <1>0, <2>1, <2>2, <2>5, AsideStep DEF Continues
<1> QED BY <1>1, <1>2 DEF Destroy

\* The steps of a call that runs preserve it; a replay or a reversal never
\* fails.
LEMMA RunIsolation ==
    ASSUME Inv, NEW th \in Thread, Run(th)
    PROVE  OwnershipInv' /\ ExclusionInv' /\ TrailInv' /\ StoreInv'
<1>0. call[th] \in CallRecord /\ CallOK(th)
  BY DEF Inv, TypeInv, ThreadsOK
<1>1. CASE ReplayStep(th) \/ RevertStep(th)
  BY <1>1, SwitchIsolation
<1>2. ~ReplayFails(th)
  BY ReplayFits DEF ReplayFails
<1>3. ~RevertFails(th)
  BY RevertFits DEF RevertFails
<1>4. CASE DirectRead(th)
  <2>1. Continues(th) /\ ~Busy(th)'
    BY <1>4, LeavesContinue DEF DirectRead, Inv
  <2> QED BY <1>4, <2>1, AccessIsolation DEF DirectRead, history
<1>5. CASE FinishRollback(th)
  BY <1>5, FinishRollbackIsolation
<1>6. CASE PublishCommit(th)
  BY <1>6, PublishCommitIsolation
<1>7. CASE WriteTakesEffect(th)
  BY <1>7, WriteIsolation
<1>8. CASE Record(th)
  BY <1>8, RecordIsolation
<1>9. CASE WriteRefused(th)
  <2>1. Continues(th) /\ ~Busy(th)'
    BY <1>9, LeavesContinue DEF WriteRefused, Inv
  <2> QED BY <1>9, <2>1, AccessIsolation DEF WriteRefused, history
<1>10. CASE StoreThrows(th)
  <2>1. Continues(th) /\ ~Busy(th)'
    BY <1>10, LeavesContinue DEF StoreThrows, Inv
  <2> QED BY <1>10, <2>1, AccessIsolation DEF StoreThrows, history
<1>11. CASE MatchForRemoval(th)
  <2>1. CASE store = {}
    <3>1. Continues(th) /\ ~Busy(th)'
      BY <1>11, <2>1, LeavesContinue DEF MatchForRemoval, Inv
    <3> QED BY <1>11, <3>1, AccessIsolation DEF MatchForRemoval, history
  <2>2. CASE store # {}
    <3>1. PICK r \in RemovalOrders(store) :
            /\ pc' = [pc EXCEPT ![th] = "lock"]
            /\ call' = [call EXCEPT ![th].op = "write", ![th].todo = r, ![th].onFalse = "abandon"]
      BY <1>11, <2>2 DEF MatchForRemoval
    <3>2. /\ pc'[th] = "lock" /\ Others(th) /\ call'[th].op = "write" /\ call'[th].tx = call[th].tx
          /\ call'[th].auto = call[th].auto
      BY <1>0, <3>1 DEF Inv, TypeInv, ThreadsOK, Others, CallRecord
    <3>3. Continues(th) /\ ~Busy(th)'
      BY <1>11, <3>2 DEF MatchForRemoval, Continues, Busy, Inside
    <3> QED BY <1>11, <3>3, AccessIsolation DEF MatchForRemoval, history
  <2> QED BY <2>1, <2>2
<1>12. CASE ReadInTransaction(th)
  <2>1. Continues(th) /\ ~Busy(th)'
    BY <1>12, LeavesContinue DEF ReadInTransaction, Inv
  <2> QED BY <1>12, <2>1, AccessIsolation DEF ReadInTransaction, history
<1>13. CASE Destroy(th)
  BY <1>13, DestroyIsolation
<1> QED BY <1>1, <1>2, <1>3, <1>4, <1>5, <1>6, <1>7, <1>8, <1>9, <1>10, <1>11, <1>12, <1>13 DEF Run

\* So does the end of commit(), after the slots have returned.
LEMMA FinishCommitIsolation ==
    ASSUME Inv, NEW th \in Thread, FinishCommit(th)
    PROVE  OwnershipInv' /\ ExclusionInv' /\ TrailInv' /\ StoreInv'
<1>0. /\ pc[th] = "idle" /\ call[th] = NoCall /\ committing \in [Thread -> Seq(Tx)]
      /\ committing[th] # <<>> /\ ~Busy(th)
      /\ UNCHANGED <<storeVars, holds, changes, abandoned, pc, call, trail>>
  BY DEF FinishCommit, Inv, TypeInv, TypeOK, ThreadsOK, CallOK, Busy, Inside, history
<1>1. /\ committed' = committed \cup {Last(committing[th])}
      /\ committing' = [committing EXCEPT ![th] = Front(@)]
  BY DEF FinishCommit
<1>2. Continues(th) /\ ~Busy(th)'
  BY <1>0 DEF Continues, Others, NoCall, Busy, Inside
<1>3. /\ Last(committing[th]) \in holds[th] \ {currentTx}
      /\ \A i \in DOMAIN Front(committing[th]) :
           i \in DOMAIN committing[th] /\ Front(committing[th])[i] = committing[th][i]
  BY <1>0 DEF Inv, OwnershipInv, OwnedBy, Last, Front
<1>4. currentTx' = currentTx
  BY <1>0 DEF storeVars
<1>5. committed' \cup abandoned' \subseteq alive \ {currentTx'}
  BY <1>0, <1>1, <1>3, <1>4 DEF Inv, OwnershipInv, alive
<1>6. ASSUME NEW u \in Thread
      PROVE  /\ \A i \in DOMAIN committing'[u] : committing'[u][i] \in holds[u] \ {currentTx'}
             /\ call'[u].op = "drop" \/ call'[u].auto => committing'[u] = committing[u]
  <2>1. CASE u = th
    BY <1>0, <1>1, <1>3, <1>4, <2>1 DEF Inv, OwnershipInv, OwnedBy, NoCall
  <2>2. CASE u # th
    BY <1>0, <1>1, <1>4, <2>2 DEF Inv, OwnershipInv, OwnedBy
  <2> QED BY <2>1, <2>2
<1>7. OwnershipInv'
  BY <1>0, <1>2, <1>5, <1>6, OwnershipChange DEF Inv, OwnershipInv
<1>8. CurrentChanges' = CurrentChanges
  BY <1>0, <1>4 DEF CurrentChanges
<1> QED BY <1>0, <1>2, <1>7, <1>8, AsideStep DEF Continues, storeVars
-----------------------------------------------------------------------------
(* The theorems.                                                              *)

\* A new TransactionalStore starts with the invariant.
LEMMA InitIsolation == Init => IsolationInv
<1> SUFFICES ASSUME Init PROVE OwnershipInv /\ ExclusionInv /\ TrailInv /\ StoreInv
  BY DEF IsolationInv
<1>1. pc = [th \in Thread |-> "idle"] /\ call = [th \in Thread |-> NoCall] /\ \A th \in Thread : ~Busy(th)
  BY DEF Init, Busy, Inside
<1>2. alive = {}
  BY DEF Init, alive
<1>3. OwnershipInv
  BY <1>1, <1>2 DEF Init, OwnershipInv, OwnedBy, NoCall
<1>4. ExclusionInv
  BY <1>1 DEF ExclusionInv, Inside, Busy
<1>5. TrailInv
  BY DEF Init, TrailInv, CurrentChanges
<1>6. StoreInv
  BY <1>1 DEF Init, StoreInv, BusyStore
<1> QED BY <1>3, <1>4, <1>5, <1>6

\* A race is not forgotten.
LEMMA RacedStays == Next /\ ~raced' => ~raced
<1>1. ASSUME NEW th \in Thread, Call(th), ~raced' PROVE ~raced
  BY <1>1 DEF Call, CallStartTransaction, CallWrite, CallRemoveMatching, CallRead, CallImportUnreadable,
              CallCommit, CallRollback, CallDelete, CallDirectRead, CallDirectWrite, Begin, history
<1>2. ASSUME NEW th \in Thread, Lock(th), ~raced' PROVE ~raced
  BY <1>2 DEF Lock, StartTransaction, StartOperation, CommitTransaction, RollbackTransaction,
              StartNonTransactionalAccess, ReadUndefined, LeaveTransactionContext, history
<1>3. ASSUME NEW th \in Thread, Run(th), ~raced' PROVE ~raced
  BY <1>3 DEF Run, ReplayStep, ReplayFails, RevertStep, RevertFails, DirectRead, FinishRollback,
              PublishCommit, WriteTakesEffect, Record, WriteRefused, StoreThrows, MatchForRemoval,
              ReadInTransaction, Destroy, history
<1>4. ASSUME NEW th \in Thread, FinishCommit(th), ~raced' PROVE ~raced
  BY <1>4 DEF FinishCommit, history
<1> QED BY <1>1, <1>2, <1>3, <1>4 DEF Next

\* Every step preserves it.
LEMMA NextIsolation == TypeInv /\ IsolationInv /\ [Next]_vars => IsolationInv'
<1> SUFFICES ASSUME TypeInv, IsolationInv, [Next]_vars, ~raced'
             PROVE  OwnershipInv' /\ ExclusionInv' /\ TrailInv' /\ StoreInv'
  BY DEF IsolationInv
<1>1. ~raced
  BY RacedStays DEF vars, history
<1>2. Inv
  BY <1>1 DEF IsolationInv, Inv
<1>3. CASE Next
  BY <1>2, <1>3, CallIsolation, LockIsolation, RunIsolation, FinishCommitIsolation DEF Next
<1>4. CASE UNCHANGED vars
  <2>1. /\ UNCHANGED <<store, mutex, currentTx, context, holds, changes, committed, abandoned>>
        /\ UNCHANGED <<pc, call, committing, trail>>
    BY <1>4 DEF vars, storeVars, txVars, threadVars, history
  <2>2. alive' = alive /\ CurrentChanges' = CurrentChanges
    BY <2>1 DEF alive, CurrentChanges
  <2>3. OwnershipInv'
    BY <1>2, <2>1, <2>2 DEF Inv, OwnershipInv, OwnedBy, InSlotOf
  <2>4. ExclusionInv' /\ TrailInv'
    BY <1>2, <2>1, <2>2 DEF Inv, ExclusionInv, TrailInv, Busy, IsCurrent
  <2>5. StoreInv'
    BY <1>2, <2>1, <2>2 DEF Inv, StoreInv, BusyStore, Busy, Switching, Todo
  <2> QED BY <2>3, <2>4, <2>5
<1> QED BY <1>3, <1>4

\* Until an access has reverted a change that was in the store but not in
\* m_changes, direct reads find exactly the committed contents, accesses through
\* a transaction find these with its own changes, and neither
\* enterTransactionContext nor leaveTransactionContext throws.
THEOREM Isolation == Spec => []IsolatedUnlessRaced
<1>1. TypeInv /\ IsolationInv => IsolatedUnlessRaced
  <2> SUFFICES ASSUME TypeInv, IsolationInv, ~raced, NEW th \in Thread
               PROVE  /\ pc[th] = "left" => store = trail[1]
                      /\ pc[th] = "body" => currentTx = call[th].tx /\ store = Last(trail)
                      /\ pc[th] = "replay" => Effective(Current(th), store)
                      /\ pc[th] = "revert" => Effective(Opposite(Current(th)), store)
    BY DEF IsolatedUnlessRaced, DirectReadsAreIsolated, TransactionsSeeTheirChanges, ContextSwitchesSucceed
  <2>1. Inv
    BY DEF Inv, IsolationInv
  <2>2. /\ pc[th] = "left" => store = trail[1]
        /\ pc[th] = "body" => currentTx = call[th].tx /\ store = Last(trail)
    BY <2>1 DEF Inv, StoreInv, BusyStore, ExclusionInv, IsCurrent
  <2> QED BY <2>1, <2>2, ReplayFits, RevertFits
<1> QED BY <1>1, TypeCorrect, InitIsolation, NextIsolation, PTL DEF Spec

\* A single thread records each change before it makes another call.
LEMMA SingleThreadNeverRaces ==
    ASSUME \A a, b \in Thread : a = b
    PROVE  Spec => []~raced
<1>1. Init => ~raced
  BY DEF Init
<1>2. ~raced /\ [Next]_vars => ~raced'
  <2> SUFFICES ASSUME ~raced, [Next]_vars PROVE ~raced'
    OBVIOUS
  <2>1. CASE UNCHANGED vars
    BY <2>1 DEF vars, history
  <2>2. ASSUME NEW th \in Thread, Call(th) PROVE ~raced'
    BY <2>2 DEF Call, CallStartTransaction, CallWrite, CallRemoveMatching, CallRead, CallImportUnreadable,
                CallCommit, CallRollback, CallDelete, CallDirectRead, CallDirectWrite, Begin, history
  <2>3. ASSUME NEW th \in Thread, Lock(th) PROVE ~raced'
    <3>1. CASE pc[th] = "lock"
      <4>1. ~Unrecorded(currentTx)
        BY <3>1 DEF Unrecorded
      <4> QED BY <2>3, <4>1 DEF Lock, StartTransaction, StartOperation, CommitTransaction, RollbackTransaction,
                  StartNonTransactionalAccess, ReadUndefined, LeaveTransactionContext, history
    <3>2. CASE pc[th] # "lock"
      BY <2>3, <3>2 DEF Lock, StartTransaction, StartOperation, CommitTransaction, RollbackTransaction,
                  StartNonTransactionalAccess, ReadUndefined, history
    <3> QED BY <3>1, <3>2
  <2>4. ASSUME NEW th \in Thread, Run(th) PROVE ~raced'
    BY <2>4 DEF Run, ReplayStep, ReplayFails, RevertStep, RevertFails, DirectRead, FinishRollback,
                PublishCommit, WriteTakesEffect, Record, WriteRefused, StoreThrows, MatchForRemoval,
                ReadInTransaction, Destroy, history
  <2>5. ASSUME NEW th \in Thread, FinishCommit(th) PROVE ~raced'
    BY <2>5 DEF FinishCommit, history
  <2> QED BY <2>1, <2>2, <2>3, <2>4, <2>5 DEF Next
<1> QED BY <1>1, <1>2, PTL DEF Spec

LEMMA SingleThreadIsolation ==
    ASSUME \A a, b \in Thread : a = b
    PROVE  Spec => [](DirectReadsAreIsolated /\ TransactionsSeeTheirChanges /\ ContextSwitchesSucceed)
<1>1. ~raced /\ IsolatedUnlessRaced
        => DirectReadsAreIsolated /\ TransactionsSeeTheirChanges /\ ContextSwitchesSucceed
  BY DEF IsolatedUnlessRaced
<1> QED BY <1>1, SingleThreadNeverRaces, Isolation, PTL

\* A read on the store of a single thread's client never shows it changes that it
\* has not committed, and misses none that it has, whenever it makes it (contains,
\* match and the other reads that leave the transaction's context).
THEOREM SingleThreadReadsAreIsolated ==
    ASSUME \A a, b \in Thread : a = b
    PROVE  Spec => []DirectReadsAreIsolated
  BY SingleThreadIsolation, PTL

\* Nor do such reads, made between its accesses, ever cost the transaction of a
\* single thread one of its changes (enterTransactionContext).
THEOREM SingleThreadTransactionsSeeTheirChanges ==
    ASSUME \A a, b \in Thread : a = b
    PROVE  Spec => []TransactionsSeeTheirChanges
  BY SingleThreadIsolation, PTL

\* With one thread no replay and no reversal throws, so that none of the handlers
\* of such exceptions ever runs (enterTransactionContext, leaveTransactionContext).
THEOREM SingleThreadSwitchesSucceed ==
    ASSUME \A a, b \in Thread : a = b
    PROVE  Spec => []ContextSwitchesSucceed
  BY SingleThreadIsolation, PTL

HIDE DEF OpFits, Releases

-------------------------------------------------------------------------------
(*****************************************************************************)
(* The implementation of IsolatedTransactions.                                *)
(*****************************************************************************)

Looking == {"body", "left"}

\* What a step of the code looks like to users.
Simulated == [Promised!Next]_(Promised!view)

-----------------------------------------------------------------------------
(* What users are shown.                                                      *)

\* A thread that has the current transaction is the owner, and nobody else is.
LEMMA OwnerIs ==
    ASSUME Inv, NEW th \in Thread, currentTx \in holds[th]
    PROVE  Owner = {th}
BY DEF Inv, OwnershipInv, Owner

\* A thread in a transaction's operation has the current transaction.
LEMMA WorkerHasCurrent ==
    ASSUME Inv, NEW th \in Thread, IsCurrent(th), pc[th] \notin {"start", "idle"},
           call[th].op # "ntread"
    PROVE  currentTx \in holds[th]
BY DEF Inv, OwnershipInv, OwnedBy, IsCurrent, TypeInv, ThreadsOK, CallOK, OpFits

\* A step of a thread that does not access the store before or after it.
LEMMA ShownToNobody ==
    ASSUME Inv, NEW th \in Thread, Others(th), pc[th] \notin Looking, pc'[th] \notin Looking,
           store' = store \/ Alone(th)
    PROVE  Shown' = Shown
BY DEF Shown, Looking, Others, Alone, Busy, Inside

\* One that brings it to its access.
LEMMA ShownOnArrival ==
    ASSUME Inv, NEW th \in Thread, Others(th), pc[th] \notin Looking, pc'[th] \in Looking,
           store' = store \/ Alone(th)
    PROVE  Shown[th] = {} /\ Shown' = [Shown EXCEPT ![th] = {store'}]
BY DEF Shown, Looking, Others, Alone, Busy, Inside

\* One that takes it away from there.
LEMMA ShownOnDeparture ==
    ASSUME Inv, NEW th \in Thread, Others(th), pc[th] \in Looking, pc'[th] \notin Looking
    PROVE  Shown[th] = {store} /\ Shown' = [Shown EXCEPT ![th] = {}]
<1>1. Alone(th)
  BY BusyIsAlone DEF Inv, Looking, Busy, Inside
<1> QED BY <1>1 DEF Shown, Looking, Others, Alone, Busy, Inside

-----------------------------------------------------------------------------
(* Kinds of steps.                                                            *)

\* A step that users do not see.
LEMMA Unseen ==
    ASSUME Inv, NEW th \in Thread, Others(th), pc[th] \notin Looking, pc'[th] \notin Looking,
           store' = store \/ Alone(th), UNCHANGED <<currentTx, holds, trail>>
    PROVE  Simulated
<1>1. Shown' = Shown
  BY ShownToNobody
<1> QED BY <1>1 DEF Simulated, Promised!view, Owner, Published, Working

\* The end of an access.
LEMMA LooksAway ==
    ASSUME Inv, NEW th \in Thread, Others(th), pc[th] \in Looking, pc'[th] \notin Looking,
           UNCHANGED <<currentTx, holds, trail>>
    PROVE  Simulated
<1>1. Shown[th] = {store} /\ Shown' = [Shown EXCEPT ![th] = {}]
  BY ShownOnDeparture
<1>2. Promised!LookAway(th)
  BY <1>1 DEF Promised!LookAway, Owner, Published, Working
<1> QED BY <1>2 DEF Simulated, Promised!Next

\* The arrival at an access inside the transaction, which finds its contents.
LEMMA LooksInside ==
    ASSUME Inv, Inv', NEW th \in Thread, Others(th), pc[th] \notin Looking, pc'[th] = "body",
           store' = store \/ Alone(th), UNCHANGED <<currentTx, holds, trail>>
    PROVE  Simulated
<1>1. Shown[th] = {} /\ Shown' = [Shown EXCEPT ![th] = {store'}]
  BY ShownOnArrival DEF Looking
<1>2. store' = Working
  BY DEF Inv, StoreInv, BusyStore, Working
<1>3. (currentTx \in holds[th])'
  <2>1. IsCurrent(th)' /\ call'[th].op \notin {"none", "ntread"} /\ pc'[th] # "start"
    BY DEF Inv, ExclusionInv, TypeInv, ThreadsOK, CallOK, OpFits
  <2> QED BY <2>1 DEF Inv, OwnershipInv, OwnedBy, IsCurrent
<1>4. Owner = {th} /\ Owner' = Owner
  BY <1>3, OwnerIs DEF Owner
<1>5. Promised!LookInside(th)
  BY <1>1, <1>2, <1>4 DEF Promised!LookInside, Promised!Show, Published, Working
<1> QED BY <1>5 DEF Simulated, Promised!Next

\* The arrival at an access outside it, which finds the committed contents.
LEMMA LooksOutside ==
    ASSUME Inv, Inv', NEW th \in Thread, Others(th), pc[th] \notin Looking, pc'[th] = "left",
           store' = store \/ Alone(th), UNCHANGED <<currentTx, holds, trail>>
    PROVE  Simulated
<1>1. Shown[th] = {} /\ Shown' = [Shown EXCEPT ![th] = {store'}]
  BY ShownOnArrival DEF Looking
<1>2. store' = Published
  BY DEF Inv, StoreInv, BusyStore, Published
<1>3. Promised!LookOutside(th)
  BY <1>1, <1>2 DEF Promised!LookOutside, Promised!Show, Owner, Published, Working
<1> QED BY <1>3 DEF Simulated, Promised!Next

-----------------------------------------------------------------------------
(* The steps.                                                                 *)

\* A client that makes a call is not seen yet.
LEMMA CallSimulated ==
    ASSUME Inv, NEW th \in Thread, Call(th)
    PROVE  Simulated
<1>1. PICK label \in {"start", "lock", "destroy"} :
        /\ pc[th] = "idle"
        /\ \E c : Begin(th, label, c)
  BY DEF Call, CallStartTransaction, CallWrite, CallRemoveMatching, CallRead, CallImportUnreadable,
         CallCommit, CallRollback, CallDelete, CallDirectRead, CallDirectWrite, Usable
<1>2. /\ Others(th) /\ pc'[th] = label
      /\ UNCHANGED <<store, currentTx, holds, trail>>
  BY <1>1 DEF Begin, Others, storeVars, txVars, history, Inv, TypeInv, ThreadsOK
<1> QED BY <1>1, <1>2, Unseen DEF Looking

\* Becoming the owner.
LEMMA StartSimulated ==
    ASSUME Inv, NEW th \in Thread, StartTransaction(th)
    PROVE  Simulated
<1>0. /\ pc[th] = "start" /\ call[th].tx \in Tx \ alive /\ pc \in [Thread -> PCs]
      /\ call \in [Thread -> CallRecord] /\ holds \in [Thread -> SUBSET Tx] /\ UNCHANGED <<store, trail>>
  BY DEF StartTransaction, Inv, OwnershipInv, OwnedBy, TypeInv, TypeOK, ThreadsOK, CallOK, history
<1>1. Others(th) /\ pc'[th] \in {"idle", "lock"}
  BY <1>0 DEF StartTransaction, Idle, Goto, Others
<1>2. CASE currentTx # NoTransaction
  BY <1>0, <1>1, <1>2, Unseen DEF StartTransaction, Looking
<1>3. CASE currentTx = NoTransaction
  <2>1. currentTx' = call[th].tx /\ holds' = [holds EXCEPT ![th] = @ \cup {call[th].tx}]
    BY <1>3 DEF StartTransaction
  <2>2. Owner = {}
    BY <1>0, <1>3, ValuesAssumption DEF Owner
  <2>3. Owner' = {th}
    BY <1>0, <2>1 DEF Owner, alive
  <2>4. Shown' = Shown
    BY <1>0, <1>1, ShownToNobody DEF Looking
  <2>5. Promised!Open(th)
    BY <1>0, <2>2, <2>3, <2>4 DEF Promised!Open, Published, Working
  <2> QED BY <2>5 DEF Simulated, Promised!Next
<1> QED BY <1>2, <1>3

\* Taking the mutex, which may bring a thread to its access at once.
LEMMA LockSimulated ==
    ASSUME Inv, Inv', NEW th \in Thread, Lock(th)
    PROVE  Simulated
<1>0. /\ pc \in [Thread -> PCs] /\ call \in [Thread -> CallRecord] /\ pc[th] \notin Looking
  BY DEF Inv, TypeInv, ThreadsOK, Lock, StartTransaction, StartOperation, CommitTransaction,
         RollbackTransaction, StartNonTransactionalAccess, ReadUndefined, Looking
<1>1. CASE StartTransaction(th)
  BY <1>1, StartSimulated
<1>2. CASE Lock(th) /\ ~StartTransaction(th)
  <2>1. UNCHANGED <<store, currentTx, holds, trail>>
    BY <1>2 DEF Lock, StartOperation, CommitTransaction, RollbackTransaction,
                StartNonTransactionalAccess, ReadUndefined, storeVars, txVars, history
  <2>2. Others(th)
    <3>1. CASE StartOperation(th) \/ CommitTransaction(th)
      BY <1>0, <3>1 DEF StartOperation, CommitTransaction, EnterTransactionContext, Goto, Abandon, Idle, Others
    <3>2. CASE RollbackTransaction(th)
      BY <1>0, <3>2 DEF RollbackTransaction, RollbackThrows, LeaveTransactionContext, Goto, Return, Idle, Others
    <3>3. CASE StartNonTransactionalAccess(th) \/ ReadUndefined(th)
      BY <1>0, <3>3 DEF StartNonTransactionalAccess, ReadUndefined, LeaveTransactionContext, Goto, Others, threadVars
    <3> QED BY <1>2, <3>1, <3>2, <3>3 DEF Lock
  <2>3. CASE pc'[th] \notin Looking
    BY <1>0, <2>1, <2>2, <2>3, Unseen
  <2>4. CASE pc'[th] = "body"
    BY <1>0, <2>1, <2>2, <2>4, LooksInside
  <2>5. CASE pc'[th] = "left"
    BY <1>0, <2>1, <2>2, <2>5, LooksOutside
  <2> QED BY <2>3, <2>4, <2>5 DEF Looking
<1> QED BY <1>1, <1>2

\* A step of a context switch, the last of which brings it there.
LEMMA SwitchSimulated ==
    ASSUME Inv, Inv', NEW th \in Thread, ReplayStep(th) \/ RevertStep(th)
    PROVE  Simulated
<1>1. /\ pc[th] \in {"replay", "revert"} /\ pc'[th] \in {"replay", "revert", "body", "left"}
      /\ Others(th) /\ UNCHANGED <<currentTx, holds, trail>>
  BY DEF ReplayStep, RevertStep, Others, Inv, TypeInv, ThreadsOK, txVars, history
<1>2. Alone(th)
  BY <1>1, BusyIsAlone DEF Inv, Busy, Inside
<1> QED BY <1>1, <1>2, Unseen, LooksInside, LooksOutside DEF Looking

\* The end of an access that changes no transaction.
LEMMA AccessSimulated ==
    ASSUME Inv, NEW th \in Thread,
           \/ DirectRead(th) \/ WriteTakesEffect(th) \/ WriteRefused(th)
           \/ StoreThrows(th) \/ MatchForRemoval(th) \/ ReadInTransaction(th)
    PROVE  Simulated
<1>0. pc \in [Thread -> PCs] /\ call \in [Thread -> CallRecord]
  BY DEF Inv, TypeInv, ThreadsOK
<1>1. /\ pc[th] \in Looking /\ UNCHANGED <<currentTx, holds, trail>>
  BY DEF DirectRead, WriteTakesEffect, WriteRefused, StoreThrows, MatchForRemoval, ReadInTransaction,
         Looking, txVars, history
<1>2. Others(th) /\ pc'[th] \notin Looking
  <2>1. CASE DirectRead(th) \/ ReadInTransaction(th) \/ StoreThrows(th) \/ WriteTakesEffect(th)
    BY <1>0, <2>1 DEF DirectRead, ReadInTransaction, StoreThrows, WriteTakesEffect, Idle, Return, Abandon,
                      Goto, Others, Looking
  <2>2. CASE WriteRefused(th)
    BY <1>0, <2>2 DEF WriteRefused, NextWrite, Idle, Return, Abandon, Others, Looking
  <2>3. CASE MatchForRemoval(th)
    BY <1>0, <2>3 DEF MatchForRemoval, Idle, Return, Others, Looking
  <2> QED BY <2>1, <2>2, <2>3
<1> QED BY <1>1, <1>2, LooksAway

\* Recording a change is what makes it part of the transaction.
LEMMA RecordSimulated ==
    ASSUME Inv, NEW th \in Thread, Record(th)
    PROVE  Simulated
<1>0. /\ pc[th] = "record" /\ call \in [Thread -> CallRecord] /\ pc \in [Thread -> PCs]
      /\ call[th].op = "write" /\ CallOK(th)
  BY DEF Record, Inv, TypeInv, ThreadsOK, CallOK, OpFits
<1>1. /\ trail' = Append(trail, Applied(Todo(th), Last(trail))) /\ NextWrite(th)
      /\ UNCHANGED <<store, currentTx, holds>>
  BY DEF Record, storeVars
<1>2. Others(th) /\ pc'[th] \notin Looking
  BY <1>0, <1>1 DEF NextWrite, Return, Idle, Others, Looking
<1>3. Alone(th) /\ IsCurrent(th)
  BY <1>0, BusyIsAlone DEF Inv, ExclusionInv, Busy
<1>4. Owner = {th} /\ Owner' = Owner
  BY <1>0, <1>1, <1>3, WorkerHasCurrent, OwnerIs DEF Owner
<1>5. Shown' = Shown /\ \A u \in Thread : Shown[u] = {}
  <2>1. Shown' = Shown
    BY <1>0, <1>1, <1>2, ShownToNobody DEF Looking
  <2> QED BY <1>0, <1>3, <2>1 DEF Shown, Alone, Busy, Inside
<1>6. /\ Todo(th) \in Change /\ Todo(th).t \in Triple
      /\ Effective(Todo(th), Last(trail))
  <2>1. Todo(th) \in Change
    BY <1>0 DEF CallOK, CallRecord, Todo
  <2> QED BY <1>0, <2>1 DEF CallOK, Inv, StoreInv, BusyStore
<1>7. Working' = Applied(Todo(th), Working) /\ Published' = Published
  <2>1. /\ trail \in Seq(SUBSET Triple) /\ Len(trail) \in Nat /\ Len(trail) >= 1
        /\ Applied(Todo(th), Last(trail)) \in SUBSET Triple
    <3>1. trail \in Seq(SUBSET Triple) /\ Len(trail) = Len(CurrentChanges) + 1 /\ Len(CurrentChanges) \in Nat
          /\ Last(trail) = trail[Len(CurrentChanges) + 1]
      BY CurrentType
    <3>2. Last(trail) \in SUBSET Triple
      BY <3>1
    <3> QED BY <1>6, <3>1, <3>2, AppliedType
  <2> QED BY <1>1, <2>1 DEF Working, Published, Last
<1>8. Promised!Alter(th)
  <2>1. \E t \in Triple : \/ t \notin Working /\ Working' = Working \cup {t}
                          \/ t \in Working /\ Working' = Working \ {t}
    BY <1>6, <1>7 DEF Effective, Applied, Change, Working
  <2> QED BY <1>4, <1>5, <1>7, <2>1 DEF Promised!Alter
<1> QED BY <1>8 DEF Simulated, Promised!Next

\* The end of a commit's critical section publishes the transaction's contents.
LEMMA CommitSimulated ==
    ASSUME Inv, NEW th \in Thread, PublishCommit(th)
    PROVE  Simulated
<1>1. /\ pc[th] = "body" /\ currentTx' = NoTransaction /\ trail' = <<Last(trail)>> /\ holds' = holds
      /\ pc'[th] = "idle" /\ Others(th) /\ holds \in [Thread -> SUBSET Tx] /\ call[th].op = "commit"
  BY DEF PublishCommit, ResetCurrentTx, Idle, Others, txVars, Inv, TypeInv, TypeOK, ThreadsOK
<1>2. Shown[th] = {Working} /\ Shown' = [Shown EXCEPT ![th] = {}]
  <2>1. store = Last(trail)
    BY <1>1 DEF Inv, StoreInv, BusyStore
  <2> QED BY <1>1, <2>1, ShownOnDeparture DEF Looking, Working
<1>3. Owner = {th}
  <2>1. IsCurrent(th)
    BY <1>1 DEF Inv, ExclusionInv
  <2> QED BY <1>1, <2>1, WorkerHasCurrent, OwnerIs
<1>4. Owner' = {}
  BY <1>1, ValuesAssumption DEF Owner
<1>5. Published' = Working /\ Working' = Working
  BY <1>1 DEF Published, Working, Last
<1>6. Promised!Commit(th)
  BY <1>2, <1>3, <1>4, <1>5 DEF Promised!Commit
<1> QED BY <1>6 DEF Simulated, Promised!Next

\* The end of a rollback discards them.
LEMMA RollbackSimulated ==
    ASSUME Inv, NEW th \in Thread, FinishRollback(th)
    PROVE  Simulated
<1>1. /\ pc[th] = "left" /\ currentTx' = NoTransaction /\ trail' = <<trail[1]>>
      /\ pc'[th] \notin Looking /\ Others(th) /\ call[th].op \in Releases
  BY DEF FinishRollback, ResetCurrentTx, Idle, Return, Others, Looking, Inv, TypeInv, ThreadsOK
<1>2. Shown[th] = {Published} /\ Shown' = [Shown EXCEPT ![th] = {}]
  <2>1. store = trail[1]
    BY <1>1 DEF Inv, StoreInv, BusyStore
  <2> QED BY <1>1, <2>1, ShownOnDeparture DEF Looking, Published
<1>3. Owner = {th}
  <2>1. IsCurrent(th)
    BY <1>1 DEF Inv, ExclusionInv
  <2> QED BY <1>1, <2>1, WorkerHasCurrent, OwnerIs DEF Releases
<1>4. Owner' = {}
  <2>1. holds \in [Thread -> SUBSET Tx]
    BY DEF Inv, TypeInv, TypeOK
  <2>2. holds' = holds \/ holds' = [holds EXCEPT ![th] = @ \ {call[th].tx}]
    BY DEF FinishRollback, Deallocate
  <2>3. \A u \in Thread : NoTransaction \notin holds'[u]
    BY <2>1, <2>2, ValuesAssumption
  <2> QED BY <1>1, <2>3 DEF Owner
<1>5. Working' = Published /\ Published' = Published
  BY <1>1 DEF Published, Working, Last
<1>6. Promised!Discard(th)
  BY <1>2, <1>3, <1>4, <1>5 DEF Promised!Discard
<1> QED BY <1>6 DEF Simulated, Promised!Next

\* A destructor that rolls nothing back deletes a transaction that is not the
\* current one, or has no changes.
LEMMA DestroySimulated ==
    ASSUME Inv, NEW th \in Thread, Destroy(th)
    PROVE  Simulated
<1> DEFINE tx == call[th].tx
<1>0. /\ pc[th] = "destroy" /\ tx \in holds[th] /\ holds \in [Thread -> SUBSET Tx]
      /\ pc \in [Thread -> PCs] /\ call \in [Thread -> CallRecord]
      /\ UNCHANGED <<store, currentTx, trail>>
  <2>1. pc[th] = "destroy" /\ UNCHANGED <<store, currentTx, trail>>
    BY DEF Destroy, storeVars, history
  <2>2. /\ CallOK(th) /\ holds \in [Thread -> SUBSET Tx] /\ pc \in [Thread -> PCs]
        /\ call \in [Thread -> CallRecord]
    BY DEF Inv, TypeInv, TypeOK, ThreadsOK
  <2>3. call[th].op = "drop"
    BY <2>1, <2>2 DEF CallOK, OpFits
  <2> QED BY <2>1, <2>2, <2>3 DEF Inv, OwnershipInv, OwnedBy
<1>1. Others(th) /\ pc'[th] \notin Looking
  BY <1>0 DEF Destroy, Goto, Idle, Others, Looking
<1>2. Shown' = Shown /\ Shown[th] = {}
  <2>1. Shown' = Shown
    BY <1>0, <1>1, ShownToNobody DEF Looking
  <2> QED BY <1>0, <2>1 DEF Shown
<1>3. CASE Goto(th, "lock") /\ UNCHANGED txVars
  BY <1>0, <1>1, <1>3, Unseen DEF txVars, Looking
<1>4. CASE (tx \notin Unresolved \/ changes[tx] = <<>>) /\ Deallocate(th, tx)
  <2>1. holds' = [holds EXCEPT ![th] = @ \ {tx}]
    BY <1>4 DEF Deallocate
  <2>2. CASE tx # currentTx
    <3>1. Owner' = Owner
      BY <1>0, <2>1, <2>2 DEF Owner
    <3> QED BY <1>0, <1>2, <3>1 DEF Simulated, Promised!view, Published, Working
  <2>3. CASE tx = currentTx
    <3>1. Owner = {th}
      BY <1>0, <2>3, OwnerIs
    <3>2. Owner' = {}
      BY <1>0, <2>1, <2>3 DEF Owner, Inv, OwnershipInv
    <3>3. CurrentChanges = <<>>
      BY <1>0, <1>4, <2>3 DEF CurrentChanges, Unresolved, alive, Inv, OwnershipInv
    <3>4. Working = Published
      BY <3>3, CurrentType DEF Working, Published
    <3>5. Shown' = [Shown EXCEPT ![th] = {}]
      BY <1>2 DEF Shown
    <3>6. Promised!Discard(th)
      BY <1>0, <1>2, <3>1, <3>2, <3>4, <3>5 DEF Promised!Discard, Working, Published
    <3> QED BY <3>6 DEF Simulated, Promised!Next
  <2> QED BY <2>2, <2>3
<1> QED BY <1>3, <1>4 DEF Destroy

\* Every step of a call that runs looks like a step of the promise.
LEMMA RunSimulated ==
    ASSUME Inv, Inv', NEW th \in Thread, Run(th)
    PROVE  Simulated
<1>1. ~ReplayFails(th) /\ ~RevertFails(th)
  BY ReplayFits, RevertFits DEF ReplayFails, RevertFails
<1> QED BY <1>1, SwitchSimulated, AccessSimulated, RecordSimulated, CommitSimulated,
           RollbackSimulated, DestroySimulated DEF Run

-----------------------------------------------------------------------------
(* The theorems.                                                              *)

\* A new TransactionalStore shows what a new promise shows.
LEMMA InitSimulated == Init => Promised!Init
<1> SUFFICES ASSUME Init PROVE Promised!Init
  OBVIOUS
<1>1. trail = <<store>> /\ store \in SUBSET Triple
  BY DEF Init
<1>2. Published = store /\ Working = store
  BY <1>1 DEF Published, Working, Last
<1>3. Owner = {} /\ Shown = [th \in Thread |-> {}]
  BY DEF Init, Owner, Shown
<1> QED BY <1>1, <1>2, <1>3 DEF Promised!Init

\* Every step of it is a step of the promise, or one that is not seen, until a
\* race.
LEMMA NextSimulated ==
    ASSUME TypeInv, IsolationInv, TypeInv', IsolationInv', [Next]_vars, ~raced'
    PROVE  Simulated
<1>1. ~raced
  <2>1. CASE UNCHANGED vars
    BY <2>1 DEF vars, history
  <2>2. CASE Next
    BY <2>2, RacedStays
  <2> QED BY <2>1, <2>2
<1>2. Inv /\ Inv'
  BY <1>1 DEF IsolationInv, Inv
<1>3. CASE UNCHANGED vars
  BY <1>3 DEF vars, storeVars, txVars, threadVars, history, Simulated, Promised!view, Published, Working,
              Owner, Shown
<1>4. ASSUME NEW th \in Thread, FinishCommit(th) PROVE Simulated
  <2>1. Others(th) /\ pc[th] = "idle" /\ pc'[th] = "idle" /\ UNCHANGED <<store, currentTx, holds, trail>>
    BY <1>4 DEF FinishCommit, Others, storeVars, history
  <2> QED BY <1>2, <2>1, Unseen DEF Looking
<1> QED BY <1>2, <1>3, <1>4, CallSimulated, LockSimulated, RunSimulated DEF Next

\* A TransactionalStore gives any number of threads what IsolatedTransactions
\* promises, until an access reverts a change that was in the store but not yet
\* in m_changes.
THEOREM Implementation == Spec => ImplementsIsolationUnlessRaced
<1>1. TypeInv /\ IsolationInv /\ TypeInv' /\ IsolationInv' /\ [Next]_vars
        => [Promised!Next \/ raced']_(Promised!view)
  BY NextSimulated DEF Simulated
<1> QED BY <1>1, TypeCorrect, InitIsolation, NextIsolation, InitSimulated, PTL
        DEF Spec, ImplementsIsolationUnlessRaced

\* It gives a single thread the same without condition.
THEOREM SingleThreadImplementation ==
    ASSUME \A a, b \in Thread : a = b
    PROVE  Spec => ImplementsIsolation
<1>1. TypeInv /\ IsolationInv /\ TypeInv' /\ IsolationInv' /\ [Next]_vars /\ ~raced'
        => [Promised!Next]_(Promised!view)
  BY NextSimulated DEF Simulated
<1> QED BY <1>1, TypeCorrect, InitIsolation, NextIsolation, InitSimulated, SingleThreadNeverRaces, PTL
        DEF Spec, ImplementsIsolation, Promised!Spec

-------------------------------------------------------------------------------
(*****************************************************************************)
(* How calls and transactions end.                                            *)
(*****************************************************************************)

\* The clients in question, of a store whose direct writes throw.
Disciplined == Liberties \subseteq {"reads"} /\ DirectWriteBehaviour = "NoAutoTransaction"

(* The inductive invariant, beside that of isolation.  Each call is made for  *)
(* the current transaction, or deletes one that is resolved, so that no       *)
(* integrity check fails.                                                     *)

Proper(th) ==
    /\ ~call[th].auto
    /\ call[th].op \notin {"none", "ntread", "drop"} => IsCurrent(th)
    /\ call[th].op = "drop" => pc[th] = "destroy" /\ call[th].tx \in committed \cup abandoned

CurrentIsOpen == currentTx # NoTransaction => currentTx \in alive
OpenIsCurrent == \A tx \in Unresolved : tx = currentTx \/ \E th \in Thread : InSlotOf(th, tx)

DisciplineInv ==
    /\ CurrentIsOpen /\ OpenIsCurrent
    /\ \A th \in Thread : Proper(th)
    /\ MutexIsReleased

-----------------------------------------------------------------------------
(* Steps in general.                                                          *)

\* Who holds the mutex after a step of th: th in a critical section, nobody, or
\* another thread as before.
MutexFits(th) ==
    \/ mutex' = th /\ pc'[th] \in Inside
    \/ mutex' = Free
    \/ mutex' = mutex /\ mutex # th

LEMMA MutexStep ==
    ASSUME MutexIsReleased, NEW th \in Thread, mutex \in Thread \cup {Free}, Others(th), MutexFits(th)
    PROVE  MutexIsReleased'
BY ValuesAssumption DEF MutexIsReleased, MutexFits, Others, Inside

\* A step that resolves, creates and deletes no transaction.
LEMMA ProperStep ==
    ASSUME Inv, DisciplineInv, NEW th \in Thread, Others(th), Proper(th)', MutexFits(th),
           UNCHANGED <<currentTx, holds, committed, abandoned, committing>>
    PROVE  DisciplineInv'
<1>1. alive' = alive /\ Unresolved' = Unresolved
  BY DEF alive, Unresolved
<1>2. CurrentIsOpen' /\ OpenIsCurrent'
  BY <1>1 DEF DisciplineInv, CurrentIsOpen, OpenIsCurrent, InSlotOf
<1>3. ASSUME NEW u \in Thread PROVE Proper(u)'
  BY <1>3 DEF DisciplineInv, Proper, Others, IsCurrent
<1>4. MutexIsReleased'
  BY MutexStep DEF DisciplineInv, Inv, TypeInv, TypeOK
<1> QED BY <1>2, <1>3, <1>4 DEF DisciplineInv

LEMMA IdleIsProper ==
    ASSUME Inv, NEW th \in Thread, Idle(th)
    PROVE  Others(th) /\ Proper(th)' /\ pc'[th] = "idle"
<1>1. call'[th] = NoCall /\ pc'[th] = "idle" /\ Others(th)
  BY DEF Idle, Inv, TypeInv, ThreadsOK, Others
<1> QED BY <1>1 DEF Proper, NoCall

\* Nothing but a direct write is destroyed when it returns.
LEMMA ReturnIsProper ==
    ASSUME Inv, DisciplineInv, NEW th \in Thread, Return(th)
    PROVE  Others(th) /\ Proper(th)'
BY IdleIsProper DEF Return, DisciplineInv, Proper

\* A call for the current transaction goes on.
LEMMA WorkIsProper ==
    ASSUME Inv, DisciplineInv, NEW th \in Thread, NEW label, NEW c,
           pc' = [pc EXCEPT ![th] = label], call' = [call EXCEPT ![th] = c],
           call[th].op \notin {"none", "ntread", "drop"}, c.op # "drop",
           c.tx = call[th].tx, c.auto = call[th].auto, UNCHANGED currentTx
    PROVE  Others(th) /\ Proper(th)'
<1>1. call'[th] = c /\ Others(th)
  BY DEF Inv, TypeInv, ThreadsOK, Others
<1> QED BY <1>1 DEF DisciplineInv, Proper, IsCurrent

\* A transaction belongs to one thread.
LEMMA OneOwner ==
    ASSUME Inv, NEW a \in Thread, NEW b \in Thread, NEW tx \in holds[a] \cap holds[b]
    PROVE  a = b
BY DEF Inv, OwnershipInv

-----------------------------------------------------------------------------
(* Calls begin.                                                               *)

\* A disciplined client only uses a transaction that is current.
LEMMA UsableIsCurrent ==
    ASSUME Inv, DisciplineInv, Disciplined, NEW th \in Thread, NEW tx \in Tx, Usable(th, tx)
    PROVE  tx = currentTx
<1>1. tx \in holds[th] /\ tx \in Unresolved /\ ~InSlotOf(th, tx)
  BY DEF Usable, Disciplined
<1>2. ASSUME NEW u \in Thread, InSlotOf(u, tx) PROVE FALSE
  <2>1. tx \in holds[u]
    BY <1>2 DEF InSlotOf, Inv, OwnershipInv, OwnedBy
  <2> QED BY <1>1, <1>2, <2>1, OneOwner
<1> QED BY <1>1, <1>2 DEF DisciplineInv, OpenIsCurrent

LEMMA BeginIsProper ==
    ASSUME Inv, DisciplineInv, NEW th \in Thread, NEW label, NEW c, Begin(th, label, c),
           pc[th] = "idle", ~c.auto,
           c.op \notin {"none", "ntread", "drop"} => c.tx = currentTx,
           c.op = "drop" => label = "destroy" /\ c.tx \in committed \cup abandoned
    PROVE  DisciplineInv'
<1>1. pc'[th] = label /\ call'[th] = c /\ Others(th)
  BY DEF Begin, Inv, TypeInv, ThreadsOK, Others
<1>2. UNCHANGED <<mutex, currentTx, holds, committed, abandoned, committing>>
  BY DEF Begin, storeVars, txVars
<1>3. Proper(th)'
  BY <1>1, <1>2 DEF Proper, IsCurrent
<1>4. MutexFits(th)
  BY <1>2, ValuesAssumption DEF MutexFits, DisciplineInv, MutexIsReleased, Inside
<1> QED BY <1>1, <1>2, <1>3, <1>4, ProperStep

LEMMA CallDisciplined ==
    ASSUME Inv, DisciplineInv, Disciplined, NEW th \in Thread, Call(th)
    PROVE  DisciplineInv'
<1>0. pc[th] = "idle"
  BY DEF Call, CallStartTransaction, CallWrite, CallRemoveMatching, CallRead, CallImportUnreadable,
         CallCommit, CallRollback, CallDelete, CallDirectRead, CallDirectWrite, Usable
<1>1. CASE CallStartTransaction(th)
  <2>1. PICK tx \in Tx : Begin(th, "start", [NoCall EXCEPT !.tx = tx])
    BY <1>1 DEF CallStartTransaction
  <2>2. [NoCall EXCEPT !.tx = tx].op = "none" /\ ~[NoCall EXCEPT !.tx = tx].auto
    BY DEF NoCall
  <2> QED BY <1>0, <2>1, <2>2, BeginIsProper
<1>2. CASE CallWrite(th)
  <2>1. PICK tx \in Tx : \E c \in Writes(tx) : Usable(th, tx) /\ Begin(th, "lock", c)
    BY <1>2 DEF CallWrite
  <2>2. PICK c \in Writes(tx) : Usable(th, tx) /\ Begin(th, "lock", c)
    BY <2>1
  <2>3. c.op = "write" /\ c.tx = tx /\ ~c.auto
    BY WritesType
  <2> QED BY <1>0, <2>2, <2>3, BeginIsProper, UsableIsCurrent
<1>3. ASSUME NEW tx \in Tx, NEW op \in {"match", "read", "abandon", "commit", "rollback"},
             Usable(th, tx), Begin(th, "lock", [NoCall EXCEPT !.op = op, !.tx = tx])
      PROVE  DisciplineInv'
  <2> DEFINE c == [NoCall EXCEPT !.op = op, !.tx = tx]
  <2>1. c.op = op /\ c.tx = tx /\ ~c.auto
    BY DEF NoCall
  <2> QED BY <1>0, <1>3, <2>1, BeginIsProper, UsableIsCurrent
<1>4. CASE CallDelete(th)
  <2>1. PICK tx \in holds[th] :
             /\ tx \in Unresolved => "drops" \in Liberties
             /\ Begin(th, "destroy", [NoCall EXCEPT !.op = "drop", !.tx = tx])
    BY <1>4 DEF CallDelete
  <2>2. tx \in alive /\ tx \notin Unresolved
    BY <2>1 DEF alive, Disciplined
  <2> DEFINE c == [NoCall EXCEPT !.op = "drop", !.tx = tx]
  <2>3. c.op = "drop" /\ c.tx = tx /\ ~c.auto
    BY DEF NoCall
  <2> QED BY <1>0, <2>1, <2>2, <2>3, BeginIsProper DEF Unresolved
<1>5. CASE CallDirectRead(th)
  <2> DEFINE c == [NoCall EXCEPT !.op = "ntread"]
  <2>1. c.op = "ntread" /\ ~c.auto /\ Begin(th, "lock", c)
    BY <1>5 DEF NoCall, CallDirectRead
  <2> QED BY <1>0, <2>1, BeginIsProper
<1>6. ~CallDirectWrite(th)
  BY DEF CallDirectWrite, Disciplined
<1> QED BY <1>1, <1>2, <1>3, <1>4, <1>5, <1>6 DEF Call, CallRemoveMatching, CallRead,
           CallImportUnreadable, CallCommit, CallRollback

-----------------------------------------------------------------------------
(* Locking.                                                                   *)

\* startTransaction makes its transaction current, or throws.
LEMMA StartDisciplined ==
    ASSUME Inv, DisciplineInv, NEW th \in Thread, StartTransaction(th)
    PROVE  DisciplineInv'
<1> DEFINE tx == call[th].tx
<1>1. /\ pc[th] = "start" /\ mutex = Free /\ ~call[th].auto /\ tx \in Tx
      /\ UNCHANGED <<mutex, committed, abandoned, committing>>
  BY DEF StartTransaction, CanLock, DisciplineInv, Proper, Inv, TypeInv, ThreadsOK, CallOK
<1>2. Idle(th)
  BY <1>1 DEF StartTransaction
<1>3. Others(th) /\ Proper(th)' /\ MutexFits(th)
  BY <1>1, <1>2, IdleIsProper DEF MutexFits
<1>4. CASE currentTx # NoTransaction
  BY <1>1, <1>3, <1>4, ProperStep DEF StartTransaction
<1>5. CASE currentTx = NoTransaction
  <2>1. currentTx' = tx /\ holds' = [holds EXCEPT ![th] = @ \cup {tx}]
    BY <1>5 DEF StartTransaction
  <2>2. holds \in [Thread -> SUBSET Tx]
    BY DEF Inv, TypeInv, TypeOK
  <2>3. alive' = alive \cup {tx} /\ alive \subseteq Tx
    BY <2>1, <2>2 DEF alive
  <2>4. CurrentIsOpen'
    BY <2>1, <2>3 DEF CurrentIsOpen
  <2>5. ASSUME NEW t \in Unresolved', t # currentTx' PROVE \E u \in Thread : InSlotOf(u, t)'
    <3>1. t \in Unresolved /\ t # currentTx
      BY <1>1, <1>5, <2>1, <2>3, <2>5, ValuesAssumption DEF Unresolved
    <3> QED BY <1>1, <3>1 DEF DisciplineInv, OpenIsCurrent, InSlotOf
  <2>6. ASSUME NEW u \in Thread PROVE Proper(u)'
    <3>1. CASE u = th
      BY <1>3, <3>1
    <3>2. CASE u # th
      <4>1. call[u].op \in {"none", "ntread", "drop"}
        BY <1>5, ValuesAssumption
        DEF DisciplineInv, Proper, IsCurrent, Inv, TypeInv, ThreadsOK, CallOK
      <4> QED BY <1>1, <1>3, <3>2, <4>1 DEF DisciplineInv, Proper, Others
    <3> QED BY <3>1, <3>2
  <2>7. MutexIsReleased'
    BY <1>1, <1>3, MutexStep DEF DisciplineInv, Inv, TypeInv, TypeOK
  <2> QED BY <2>4, <2>5, <2>6, <2>7 DEF DisciplineInv, OpenIsCurrent
<1> QED BY <1>4, <1>5

\* A thread that takes the mutex starts a context switch, or needs none.
LEMMA SwitchBegins ==
    ASSUME Inv, DisciplineInv, NEW th \in Thread, pc[th] = "lock",
           UNCHANGED <<currentTx, holds, committed, abandoned, committing>>,
           EnterTransactionContext(th) \/ LeaveTransactionContext(th)
    PROVE  DisciplineInv'
<1>1. call[th] \in CallRecord /\ pc \in [Thread -> PCs] /\ call \in [Thread -> CallRecord]
  BY DEF Inv, TypeInv, ThreadsOK
<1>2. /\ mutex' = th /\ pc'[th] \in Inside /\ Others(th)
      /\ call'[th].op = call[th].op /\ call'[th].tx = call[th].tx /\ call'[th].auto = call[th].auto
  BY <1>1 DEF EnterTransactionContext, LeaveTransactionContext, Goto, Inside, Others, CallRecord
<1>3. call[th].op # "drop"
  BY DEF DisciplineInv, Proper
<1>4. Proper(th)'
  BY <1>2, <1>3 DEF DisciplineInv, Proper, IsCurrent
<1>5. MutexFits(th)
  BY <1>2 DEF MutexFits
<1> QED BY <1>2, <1>4, <1>5, ProperStep

LEMMA LockDisciplined ==
    ASSUME Inv, DisciplineInv, NEW th \in Thread, Lock(th)
    PROVE  DisciplineInv'
<1>1. CASE StartOperation(th)
  <2>1. IsCurrent(th)
    BY <1>1 DEF StartOperation, DisciplineInv, Proper
  <2> QED BY <1>1, <2>1, SwitchBegins DEF StartOperation, txVars
<1>2. CASE CommitTransaction(th)
  <2>1. IsCurrent(th)
    BY <1>2 DEF CommitTransaction, DisciplineInv, Proper
  <2> QED BY <1>2, <2>1, SwitchBegins DEF CommitTransaction, txVars
<1>3. CASE RollbackTransaction(th)
  <2>1. IsCurrent(th)
    BY <1>3 DEF RollbackTransaction, Releases, DisciplineInv, Proper
  <2> QED BY <1>3, <2>1, SwitchBegins DEF RollbackTransaction, txVars
<1>4. CASE StartNonTransactionalAccess(th)
  BY <1>4, SwitchBegins DEF StartNonTransactionalAccess, txVars
<1>5. CASE ReadUndefined(th)
  <2>1. UNCHANGED <<mutex, currentTx, holds, committed, abandoned, committing, pc, call>>
    BY <1>5 DEF ReadUndefined, storeVars, txVars, threadVars
  <2> QED BY <2>1 DEF DisciplineInv, CurrentIsOpen, OpenIsCurrent, Unresolved, alive, InSlotOf,
                      Proper, IsCurrent, MutexIsReleased
<1> QED BY <1>1, <1>2, <1>3, <1>4, <1>5, StartDisciplined DEF Lock

-----------------------------------------------------------------------------
(* Inside the critical sections, and after them.                              *)

\* A thread that leaves a critical section unlocks the mutex on its way.
LEMMA LeavingIsProper ==
    ASSUME Inv, DisciplineInv, NEW th \in Thread, Others(th), Proper(th)', Unlock,
           UNCHANGED <<currentTx, holds, committed, abandoned, committing>>
    PROVE  DisciplineInv'
BY ProperStep DEF MutexFits, Unlock

LEMMA SwitchDisciplined ==
    ASSUME Inv, DisciplineInv, NEW th \in Thread,
           ReplayStep(th) \/ ReplayFails(th) \/ RevertStep(th) \/ RevertFails(th)
    PROVE  DisciplineInv'
<1>1. /\ call[th] \in CallRecord /\ pc \in [Thread -> PCs] /\ call \in [Thread -> CallRecord]
  BY DEF Inv, TypeInv, ThreadsOK
<1>2. ~ReplayFails(th) /\ ~RevertFails(th)
  BY ReplayFits, RevertFits DEF ReplayFails, RevertFails
<1>3. /\ pc[th] \in {"replay", "revert"}
      /\ UNCHANGED <<mutex, currentTx, holds, committed, abandoned, committing>>
  BY <1>2 DEF ReplayStep, RevertStep, txVars
<1>4. /\ pc'[th] \in Inside /\ Others(th)
      /\ call'[th].op = call[th].op /\ call'[th].tx = call[th].tx /\ call'[th].auto = call[th].auto
  <2>1. CASE ReplayStep(th)
    BY <1>1, <2>1 DEF ReplayStep, Inside, Others, CallRecord
  <2>2. CASE RevertStep(th)
    BY <1>1, <2>2 DEF RevertStep, Inside, Others, CallRecord
  <2> QED BY <1>2, <2>1, <2>2
<1>5. mutex' = th
  BY <1>3 DEF Inv, ExclusionInv, Inside
<1>6. Proper(th)'
  BY <1>3, <1>4 DEF DisciplineInv, Proper, IsCurrent
<1> QED BY <1>3, <1>4, <1>5, <1>6, ProperStep DEF MutexFits

\* A call that handles an exception, or goes on with its next write.
LEMMA AbandonIsProper ==
    ASSUME Inv, DisciplineInv, NEW th \in Thread, Abandon(th), UNCHANGED currentTx,
           call[th].op \notin {"none", "ntread", "drop"}
    PROVE  Others(th) /\ Proper(th)'
<1> DEFINE c == [call[th] EXCEPT !.op = "abandon"]
<1>1. call[th] \in CallRecord
  BY DEF Inv, TypeInv, ThreadsOK
<1>2. c.op = "abandon" /\ c.tx = call[th].tx /\ c.auto = call[th].auto
  BY <1>1 DEF CallRecord
<1>3. pc' = [pc EXCEPT ![th] = "lock"] /\ call' = [call EXCEPT ![th] = c]
  BY DEF Abandon
<1> HIDE DEF c
<1> QED BY <1>2, <1>3, WorkIsProper

LEMMA NextWriteIsProper ==
    ASSUME Inv, DisciplineInv, NEW th \in Thread, NextWrite(th), UNCHANGED currentTx,
           call[th].op = "write"
    PROVE  Others(th) /\ Proper(th)'
<1>1. CASE call[th].n = Len(call[th].todo)
  BY <1>1, ReturnIsProper DEF NextWrite
<1>2. CASE call[th].n # Len(call[th].todo)
  <2> DEFINE c == [call[th] EXCEPT !.n = @ + 1]
  <2>1. call[th] \in CallRecord
    BY DEF Inv, TypeInv, ThreadsOK
  <2>2. c.op = "write" /\ c.tx = call[th].tx /\ c.auto = call[th].auto
    BY <2>1 DEF CallRecord
  <2>3. pc' = [pc EXCEPT ![th] = "lock"] /\ call' = [call EXCEPT ![th] = c]
    BY <1>2 DEF NextWrite
  <2> HIDE DEF c
  <2> QED BY <2>2, <2>3, WorkIsProper
<1> QED BY <1>1, <1>2

LEMMA AccessDisciplined ==
    ASSUME Inv, DisciplineInv, NEW th \in Thread,
           \/ DirectRead(th) \/ WriteTakesEffect(th) \/ WriteRefused(th) \/ StoreThrows(th)
           \/ MatchForRemoval(th) \/ ReadInTransaction(th)
    PROVE  DisciplineInv'
<1>1. Unlock /\ UNCHANGED <<currentTx, holds, committed, abandoned, committing>>
  BY DEF DirectRead, WriteTakesEffect, WriteRefused, StoreThrows, MatchForRemoval,
         ReadInTransaction, txVars
<1>2. CASE DirectRead(th)
  BY <1>1, <1>2, IdleIsProper, LeavingIsProper DEF DirectRead
<1>3. CASE WriteTakesEffect(th)
  <2>1. Goto(th, "record") /\ call[th].op = "write"
    BY <1>3 DEF WriteTakesEffect
  <2>2. Others(th) /\ Proper(th)'
    BY <1>1, <2>1 DEF Goto, Others, DisciplineInv, Proper, IsCurrent, Inv, TypeInv, ThreadsOK
  <2> QED BY <1>1, <2>2, LeavingIsProper
<1>4. CASE WriteRefused(th)
  <2>1. call[th].op = "write" /\ (NextWrite(th) \/ Abandon(th) \/ Return(th))
    BY <1>4 DEF WriteRefused
  <2> QED BY <1>1, <2>1, NextWriteIsProper, AbandonIsProper, ReturnIsProper, LeavingIsProper
<1>5. CASE StoreThrows(th)
  <2>1. call[th].op \in {"write", "match", "read"} /\ Abandon(th)
    BY <1>5 DEF StoreThrows
  <2> QED BY <1>1, <2>1, AbandonIsProper, LeavingIsProper
<1>6. CASE MatchForRemoval(th)
  <2>1. CASE store = {}
    BY <1>1, <1>6, <2>1, ReturnIsProper, LeavingIsProper DEF MatchForRemoval
  <2>2. CASE store # {}
    <3>1. PICK r \in RemovalOrders(store) :
              /\ pc' = [pc EXCEPT ![th] = "lock"]
              /\ call' = [call EXCEPT ![th].op = "write", ![th].todo = r, ![th].onFalse = "abandon"]
      BY <1>6, <2>2 DEF MatchForRemoval
    <3> DEFINE c == [call[th] EXCEPT !.op = "write", !.todo = r, !.onFalse = "abandon"]
    <3>2. call[th] \in CallRecord /\ call \in [Thread -> CallRecord]
      BY DEF Inv, TypeInv, ThreadsOK
    <3>3. c.op = "write" /\ c.tx = call[th].tx /\ c.auto = call[th].auto
      BY <3>2 DEF CallRecord
    <3>4. call' = [call EXCEPT ![th] = c]
      BY <3>1, <3>2
    <3>5. call[th].op = "match"
      BY <1>6 DEF MatchForRemoval
    <3> HIDE DEF c
    <3> QED BY <1>1, <3>1, <3>3, <3>4, <3>5, WorkIsProper, LeavingIsProper
  <2> QED BY <2>1, <2>2
<1>7. CASE ReadInTransaction(th)
  BY <1>1, <1>7, ReturnIsProper, LeavingIsProper DEF ReadInTransaction
<1> QED BY <1>2, <1>3, <1>4, <1>5, <1>6, <1>7

LEMMA RecordDisciplined ==
    ASSUME Inv, DisciplineInv, NEW th \in Thread, Record(th)
    PROVE  DisciplineInv'
<1>1. /\ pc[th] = "record" /\ NextWrite(th)
      /\ UNCHANGED <<mutex, currentTx, holds, committed, abandoned, committing>>
  BY DEF Record, storeVars
<1>2. call[th].op = "write"
  BY <1>1 DEF Inv, TypeInv, ThreadsOK, CallOK, OpFits
<1>3. MutexFits(th)
  BY <1>1, ValuesAssumption DEF MutexFits, DisciplineInv, MutexIsReleased, Inside
<1> QED BY <1>1, <1>2, <1>3, NextWriteIsProper, ProperStep

-----------------------------------------------------------------------------
(* Transactions end.                                                          *)

\* While one thread works for the current transaction, no other one does.
LEMMA OthersDoNotWork ==
    ASSUME Inv, DisciplineInv, NEW th \in Thread, IsCurrent(th), call[th].tx \in holds[th],
           NEW u \in Thread \ {th}
    PROVE  call[u].op \in {"none", "ntread", "drop"}
<1> SUFFICES ASSUME call[u].op \notin {"none", "ntread", "drop"} PROVE FALSE
  OBVIOUS
<1>1. IsCurrent(u)
  BY DEF DisciplineInv, Proper
<1>2. call[u].tx \in alive
  BY <1>1 DEF IsCurrent, alive
<1>3. call[u].tx \in holds[u]
  BY <1>2 DEF Inv, OwnershipInv, OwnedBy
<1> QED BY <1>1, <1>3, OneOwner DEF IsCurrent

\* The current transaction is resolved, and none is current any more.
LEMMA ResolutionStep ==
    ASSUME Inv, DisciplineInv, NEW th \in Thread, NEW cur \in holds[th],
           call[th].tx = cur, IsCurrent(th), Others(th), Proper(th)', Unlock, ResetCurrentTx, UNCHANGED holds,
           committed \subseteq committed', abandoned \subseteq abandoned',
           \A u \in Thread, tx \in Tx : InSlotOf(u, tx) => InSlotOf(u, tx)' \/ tx \notin Unresolved',
           cur \in Unresolved' => InSlotOf(th, cur)'
    PROVE  DisciplineInv'
<1>1. alive' = alive /\ Unresolved' \subseteq Unresolved /\ alive \subseteq Tx
  BY DEF alive, Unresolved, Inv, TypeInv, TypeOK
<1>2. CurrentIsOpen'
  BY DEF CurrentIsOpen, ResetCurrentTx
<1>3. ASSUME NEW tx \in Unresolved' PROVE \E u \in Thread : InSlotOf(u, tx)'
  <2>1. tx \in Tx /\ (tx = currentTx \/ \E u \in Thread : InSlotOf(u, tx))
    BY <1>1, <1>3 DEF DisciplineInv, OpenIsCurrent, Unresolved
  <2> QED BY <1>3, <2>1 DEF IsCurrent
<1>4. ASSUME NEW u \in Thread PROVE Proper(u)'
  <2>1. CASE u = th
    BY <2>1
  <2>2. CASE u # th
    BY <2>2, OthersDoNotWork DEF DisciplineInv, Proper, Others
  <2> QED BY <2>1, <2>2
<1>5. MutexIsReleased'
  BY ValuesAssumption DEF MutexIsReleased, Unlock
<1> QED BY <1>2, <1>3, <1>4, <1>5 DEF DisciplineInv, OpenIsCurrent

LEMMA FinishRollbackDisciplined ==
    ASSUME Inv, DisciplineInv, NEW th \in Thread, FinishRollback(th)
    PROVE  DisciplineInv'
<1> PICK cur : cur = call[th].tx
  OBVIOUS
<1>1. pc[th] = "left" /\ call[th].op \in {"rollback", "abandon"}
  BY DEF FinishRollback, Releases, DisciplineInv, Proper
<1>2. IsCurrent(th) /\ cur \in holds[th]
  BY <1>1 DEF DisciplineInv, Proper, Inv, OwnershipInv, OwnedBy
<1>3. /\ Return(th) /\ Unlock /\ ResetCurrentTx
      /\ abandoned' = abandoned \cup {cur}
      /\ UNCHANGED <<holds, committed, committing>>
  BY <1>1 DEF FinishRollback
<1>4. Others(th) /\ Proper(th)'
  BY <1>3, ReturnIsProper
<1>5. \A u \in Thread, tx \in Tx : InSlotOf(u, tx) => InSlotOf(u, tx)'
  BY <1>3 DEF InSlotOf
<1>6. cur \notin Unresolved'
  BY <1>3 DEF Unresolved
<1> QED BY <1>2, <1>3, <1>4, <1>5, <1>6, ResolutionStep

LEMMA PublishCommitDisciplined ==
    ASSUME Inv, DisciplineInv, NEW th \in Thread, PublishCommit(th)
    PROVE  DisciplineInv'
<1> PICK cur : cur = call[th].tx
  OBVIOUS
<1>1. pc[th] = "body" /\ call[th].op = "commit"
  BY DEF PublishCommit
<1>2. IsCurrent(th) /\ cur \in holds[th]
  BY <1>1 DEF DisciplineInv, Proper, Inv, OwnershipInv, OwnedBy
<1>3. /\ Idle(th) /\ Unlock /\ ResetCurrentTx
      /\ committing' = [committing EXCEPT ![th] = Append(@, cur)]
      /\ UNCHANGED <<holds, committed, abandoned>>
  BY DEF PublishCommit, txVars
<1>4. Others(th) /\ Proper(th)'
  BY <1>3, IdleIsProper
<1>5. committing \in [Thread -> Seq(Tx)] /\ cur \in Tx
  BY <1>1 DEF Inv, TypeInv, TypeOK, ThreadsOK, CallOK
<1>6. /\ committing'[th] = Append(committing[th], cur)
      /\ \A u \in Thread \ {th} : committing'[u] = committing[u]
  BY <1>3, <1>5
<1>7. InSlotOf(th, cur)'
  <2>1. committing'[th][Len(committing[th]) + 1] = cur
        /\ Len(committing[th]) + 1 \in DOMAIN committing'[th]
    BY <1>5, <1>6
  <2>2. \E i \in DOMAIN committing'[th] : committing'[th][i] = cur
    BY <2>1
  <2>3. \A t : (\E i \in DOMAIN committing'[th] : committing'[th][i] = t) => InSlotOf(th, t)'
    BY DEF InSlotOf
  <2> QED BY <2>2, <2>3
<1>8. \A u \in Thread, tx \in Tx : InSlotOf(u, tx) => InSlotOf(u, tx)'
  <2> SUFFICES ASSUME NEW u \in Thread, NEW i \in DOMAIN committing[u]
               PROVE  i \in DOMAIN committing'[u] /\ committing'[u][i] = committing[u][i]
    BY DEF InSlotOf
  <2>1. CASE u = th
    <3>1. committing[th] \in Seq(Tx) /\ i \in 1 .. Len(committing[th])
      BY <1>5, <2>1
    <3> QED BY <1>5, <1>6, <2>1, <3>1
  <2>2. CASE u # th
    BY <1>6, <2>2
  <2> QED BY <2>1, <2>2
<1> QED BY <1>2, <1>3, <1>4, <1>7, <1>8, ResolutionStep

\* Only what is resolved is deleted.
LEMMA DestroyDisciplined ==
    ASSUME Inv, DisciplineInv, NEW th \in Thread, Destroy(th)
    PROVE  DisciplineInv'
<1> PICK tx : tx = call[th].tx
  OBVIOUS
<1>1. pc[th] = "destroy" /\ call[th].op = "drop" /\ tx \in committed \cup abandoned
  BY DEF Destroy, DisciplineInv, Proper, Inv, TypeInv, ThreadsOK, CallOK, OpFits
<1>2. tx \in holds[th] /\ tx # currentTx
  BY <1>1 DEF Inv, OwnershipInv, OwnedBy
<1>3. /\ Idle(th) /\ UNCHANGED <<mutex, currentTx, committing>>
      /\ holds' = [holds EXCEPT ![th] = @ \ {tx}]
      /\ committed' = committed \ {tx} /\ abandoned' = abandoned \ {tx}
  BY <1>1 DEF Destroy, Deallocate, Unresolved, storeVars
<1>4. holds \in [Thread -> SUBSET Tx] /\ \A u \in Thread \ {th} : tx \notin holds[u]
  BY <1>2, OneOwner DEF Inv, TypeInv, TypeOK
<1>5. alive' = alive \ {tx} /\ Unresolved' = Unresolved
  BY <1>1, <1>3, <1>4 DEF alive, Unresolved
<1>6. CurrentIsOpen' /\ OpenIsCurrent'
  BY <1>2, <1>3, <1>5 DEF DisciplineInv, CurrentIsOpen, OpenIsCurrent, InSlotOf
<1>7. Others(th) /\ Proper(th)'
  BY <1>3, IdleIsProper
<1>8. ASSUME NEW u \in Thread \ {th} PROVE Proper(u)'
  <2>1. pc'[u] = pc[u] /\ call'[u] = call[u] /\ Proper(u)
    BY <1>7 DEF Others, DisciplineInv
  <2>2. CASE call[u].op = "drop"
    <3>1. call[u].tx \in holds[u]
      BY <2>1, <2>2 DEF Proper, Inv, OwnershipInv, OwnedBy
    <3>2. call[u].tx # tx
      BY <1>4, <3>1
    <3> QED BY <1>3, <2>1, <2>2, <3>2 DEF Proper
  <2>3. CASE call[u].op # "drop"
    BY <1>3, <2>1, <2>3 DEF Proper, IsCurrent
  <2> QED BY <2>2, <2>3
<1>9. MutexIsReleased'
  <2>1. MutexFits(th)
    BY <1>1, <1>3, ValuesAssumption DEF MutexFits, DisciplineInv, MutexIsReleased, Inside
  <2> QED BY <1>7, <2>1, MutexStep DEF DisciplineInv, Inv, TypeInv, TypeOK
<1> QED BY <1>6, <1>7, <1>8, <1>9 DEF DisciplineInv

\* commit() returns from its slots, which leaves the transaction resolved.
LEMMA FinishCommitDisciplined ==
    ASSUME Inv, DisciplineInv, NEW th \in Thread, FinishCommit(th)
    PROVE  DisciplineInv'
<1> DEFINE top == committing[th][Len(committing[th])]
<1>1. /\ committing \in [Thread -> Seq(Tx)] /\ committing[th] # <<>>
      /\ committed' = committed \cup {top}
      /\ committing' = [committing EXCEPT ![th] = Front(@)]
      /\ UNCHANGED <<mutex, currentTx, holds, abandoned, pc, call>>
  BY DEF FinishCommit, Last, Inv, TypeInv, TypeOK, storeVars
<1>2. alive' = alive /\ Unresolved' = Unresolved \ {top}
  BY <1>1 DEF alive, Unresolved
<1>3. ASSUME NEW u \in Thread, NEW i \in DOMAIN committing[u], committing[u][i] # top
      PROVE  i \in DOMAIN committing'[u] /\ committing'[u][i] = committing[u][i]
  <2>1. CASE u = th
    <3>1. /\ committing[th] \in Seq(Tx) /\ i \in 1 .. Len(committing[th])
          /\ i # Len(committing[th]) /\ committing'[th] = Front(committing[th])
      BY <1>1, <1>3, <2>1
    <3> QED BY <2>1, <3>1 DEF Front
  <2>2. CASE u # th
    BY <1>1, <1>3, <2>2
  <2> QED BY <2>1, <2>2
<1>4. ASSUME NEW tx \in Unresolved' PROVE tx = currentTx' \/ \E u \in Thread : InSlotOf(u, tx)'
  <2>1. tx # top /\ (tx = currentTx \/ \E u \in Thread : InSlotOf(u, tx))
    BY <1>2, <1>4 DEF DisciplineInv, OpenIsCurrent
  <2> QED BY <1>1, <1>3, <2>1 DEF InSlotOf
<1>5. CurrentIsOpen' /\ MutexIsReleased'
  BY <1>1, <1>2 DEF DisciplineInv, CurrentIsOpen, MutexIsReleased
<1>6. \A u \in Thread : Proper(u)'
  BY <1>1 DEF DisciplineInv, Proper, IsCurrent
<1> QED BY <1>4, <1>5, <1>6 DEF DisciplineInv, OpenIsCurrent

LEMMA RunDisciplined ==
    ASSUME Inv, DisciplineInv, NEW th \in Thread, Run(th)
    PROVE  DisciplineInv'
BY SwitchDisciplined, AccessDisciplined, RecordDisciplined, FinishRollbackDisciplined,
   PublishCommitDisciplined, DestroyDisciplined DEF Run

-----------------------------------------------------------------------------
(* The theorems.                                                              *)

DisciplinedUnlessRaced == ~raced => DisciplineInv

LEMMA InitDisciplined == Init => DisciplinedUnlessRaced
<1> SUFFICES ASSUME Init PROVE DisciplineInv
  BY DEF DisciplinedUnlessRaced
<1>1. alive = {} /\ currentTx = NoTransaction /\ mutex = Free
  BY DEF Init, alive
<1>2. \A th \in Thread : Proper(th)
  BY DEF Init, Proper, NoCall
<1> QED BY <1>1, <1>2 DEF DisciplineInv, CurrentIsOpen, OpenIsCurrent, Unresolved, MutexIsReleased

\* Every step of disciplined clients preserves it.
LEMMA NextDisciplined ==
    ASSUME Disciplined
    PROVE  TypeInv /\ IsolationInv /\ DisciplinedUnlessRaced /\ [Next]_vars => DisciplinedUnlessRaced'
<1> SUFFICES ASSUME TypeInv, IsolationInv, DisciplinedUnlessRaced, [Next]_vars, ~raced'
             PROVE  DisciplineInv'
  BY DEF DisciplinedUnlessRaced
<1>1. ~raced
  BY RacedStays DEF vars, history
<1>2. Inv /\ DisciplineInv
  BY <1>1 DEF IsolationInv, Inv, DisciplinedUnlessRaced
<1>3. CASE Next
  BY <1>2, <1>3, CallDisciplined, LockDisciplined, RunDisciplined, FinishCommitDisciplined DEF Next
<1>4. CASE UNCHANGED vars
  <2>1. UNCHANGED <<mutex, currentTx, holds, committed, abandoned, committing, pc, call>>
    BY <1>4 DEF vars, storeVars, txVars, threadVars
  <2> QED BY <1>2, <2>1 DEF DisciplineInv, CurrentIsOpen, OpenIsCurrent, Unresolved, alive, InSlotOf,
                            Proper, IsCurrent, MutexIsReleased
<1> QED BY <1>3, <1>4

\* What it says of the transactions: a current one is neither resolved nor
\* emitting its commit, and any other one is.
LEMMA OneIsOpen == Inv /\ DisciplineInv => OneOpenTransaction
<1> SUFFICES ASSUME Inv, DisciplineInv, NEW tx
             PROVE  tx \in Unresolved /\ (\A th \in Thread : ~InSlotOf(th, tx))
                      <=> tx = currentTx /\ tx # NoTransaction
  BY DEF OneOpenTransaction, Unresolved
<1>1. ASSUME tx \in Unresolved, \A th \in Thread : ~InSlotOf(th, tx)
      PROVE  tx = currentTx /\ tx # NoTransaction
  <2>1. tx \in Tx
    BY <1>1 DEF Unresolved, alive, Inv, TypeInv, TypeOK
  <2> QED BY <1>1, <2>1, ValuesAssumption DEF DisciplineInv, OpenIsCurrent
<1>2. ASSUME tx = currentTx, tx # NoTransaction
      PROVE  tx \in Unresolved /\ \A th \in Thread : ~InSlotOf(th, tx)
  <2>1. tx \in Unresolved
    BY <1>2 DEF DisciplineInv, CurrentIsOpen, Unresolved, Inv, OwnershipInv
  <2>2. \A th \in Thread : ~InSlotOf(th, tx)
    BY <1>2 DEF InSlotOf, Inv, OwnershipInv, OwnedBy
  <2> QED BY <2>1, <2>2
<1> QED BY <1>1, <1>2

\* However many threads use the store, and until an access has reverted a
\* change that was not recorded yet: no exception, not even one of the integrity
\* check of Operation, leaves the mutex locked behind it, and startTransaction
\* throws only while the owner of the open transaction can still resolve it.
THEOREM Discipline ==
    ASSUME Disciplined
    PROVE  Spec => [](~raced => MutexIsReleased /\ OneOpenTransaction)
<1>1. TypeInv /\ IsolationInv /\ DisciplinedUnlessRaced => (~raced => MutexIsReleased /\ OneOpenTransaction)
  BY OneIsOpen DEF DisciplinedUnlessRaced, DisciplineInv, IsolationInv, Inv
<1> QED BY <1>1, TypeCorrect, InitIsolation, NextIsolation, InitDisciplined, NextDisciplined, PTL DEF Spec

\* With one thread the mutex is free whenever it makes a call, so that it never
\* waits for itself.
THEOREM SingleThreadUnlocks ==
    ASSUME Disciplined, \A a, b \in Thread : a = b
    PROVE  Spec => []MutexIsReleased
<1>1. ~raced /\ (~raced => MutexIsReleased /\ OneOpenTransaction) => MutexIsReleased
  OBVIOUS
<1> QED BY <1>1, SingleThreadNeverRaces, Discipline, PTL

\* With one thread the transaction that is current is always one that it can
\* still commit or roll back.
THEOREM SingleThreadOpensOne ==
    ASSUME Disciplined, \A a, b \in Thread : a = b
    PROVE  Spec => []OneOpenTransaction
<1>1. ~raced /\ (~raced => MutexIsReleased /\ OneOpenTransaction) => OneOpenTransaction
  OBVIOUS
<1> QED BY <1>1, SingleThreadNeverRaces, Discipline, PTL

-----------------------------------------------------------------------------
(* The bodies of ChangeSetsAreHistory and OutcomesAreFinal.                   *)

ChangeSetsKept ==
    \A th \in Thread : \A tx \in holds[th] \cap holds'[th] :
         /\ IsPrefix(changes[tx], changes'[tx])
         /\ tx \notin Unresolved \/ InSlotOf(th, tx) => changes'[tx] = changes[tx]

OutcomesKept ==
    \A th \in Thread : \A tx \in holds[th] \cap holds'[th] :
         /\ tx \in committed => tx \in committed' \ abandoned'
         /\ tx \in abandoned => tx \in abandoned' \ committed'

\* The inductive invariant, beside that of isolation: nothing has two outcomes,
\* and nothing that a thread is still emitting the commit of has been abandoned.
OutcomeInv ==
    /\ committed \cap abandoned = {}
    /\ \A th \in Thread : \A i \in DOMAIN committing[th] : committing[th][i] \notin abandoned

Preserves == OutcomeInv' /\ ChangeSetsKept /\ OutcomesKept

LEMMA PrefixOfItself == ASSUME NEW s \in Seq(Change) PROVE IsPrefix(s, s)
BY DEF IsPrefix

LEMMA PrefixOfAppend ==
    ASSUME NEW s \in Seq(Change), NEW c \in Change
    PROVE  IsPrefix(s, Append(s, c))
<1>1. SubSeq(s, 1, Len(s)) = s /\ SubSeq(Append(s, c), 1, Len(s)) = s
  OBVIOUS
<1> QED BY <1>1 DEF IsPrefix

-----------------------------------------------------------------------------
(* The steps.                                                                 *)

\* Most steps leave transaction objects alone.
LEMMA AsideKeeps ==
    ASSUME Inv, OutcomeInv, UNCHANGED <<changes, committed, abandoned, committing>>
    PROVE  Preserves
<1>1. \A tx \in Tx : IsPrefix(changes[tx], changes[tx])
  BY PrefixOfItself DEF Inv, TypeInv, TypeOK
<1> QED BY <1>1 DEF Inv, TypeInv, TypeOK, OutcomeInv, Preserves, ChangeSetsKept, OutcomesKept

LEMMA CallKeeps ==
    ASSUME Inv, OutcomeInv, NEW th \in Thread, Call(th)
    PROVE  Preserves
BY AsideKeeps DEF Call, CallStartTransaction, CallWrite, CallRemoveMatching, CallRead, CallImportUnreadable,
   CallCommit, CallRollback, CallDelete, CallDirectRead, CallDirectWrite, Begin, txVars

LEMMA LockKeeps ==
    ASSUME Inv, OutcomeInv, NEW th \in Thread, Lock(th)
    PROVE  Preserves
BY AsideKeeps DEF Lock, StartTransaction, StartOperation, CommitTransaction, RollbackTransaction,
   StartNonTransactionalAccess, ReadUndefined, txVars, threadVars

\* The object that is deleted is held by nobody afterwards.
LEMMA DeallocateKeeps ==
    ASSUME Inv, OutcomeInv, NEW th \in Thread, NEW tx \in holds[th],
           Deallocate(th, tx), UNCHANGED committing
    PROVE  Preserves
<1>1. /\ holds' = [holds EXCEPT ![th] = @ \ {tx}] /\ changes' = [changes EXCEPT ![tx] = <<>>]
      /\ committed' = committed \ {tx} /\ abandoned' = abandoned \ {tx}
  BY DEF Deallocate
<1>2. /\ holds \in [Thread -> SUBSET Tx] /\ changes \in [Tx -> Seq(Change)]
      /\ \A u \in Thread \ {th} : tx \notin holds[u]
  BY DEF Inv, TypeInv, TypeOK, OwnershipInv
<1>3. ASSUME NEW u \in Thread, NEW t \in holds[u] \cap holds'[u]
      PROVE  /\ t # tx /\ changes'[t] = changes[t] /\ IsPrefix(changes[t], changes'[t])
  <2>1. t # tx /\ t \in Tx
    BY <1>1, <1>2, <1>3
  <2> QED BY <1>1, <1>2, <2>1, PrefixOfItself
<1>4. ChangeSetsKept /\ OutcomesKept
  BY <1>1, <1>3 DEF OutcomeInv, ChangeSetsKept, OutcomesKept
<1> QED BY <1>1, <1>4 DEF OutcomeInv, Preserves

\* A change is added to the current transaction only, which is not resolved and
\* whose commit no slot is in.
LEMMA RecordKeeps ==
    ASSUME Inv, OutcomeInv, NEW th \in Thread, Record(th)
    PROVE  Preserves
<1> DEFINE tx == call[th].tx
<1>1. /\ pc[th] = "record" /\ changes' = [changes EXCEPT ![tx] = Append(@, Todo(th))]
      /\ UNCHANGED <<holds, committed, abandoned, committing>>
  BY DEF Record
<1>2. tx = currentTx /\ changes \in [Tx -> Seq(Change)] /\ \A u \in Thread : holds[u] \subseteq Tx
  BY <1>1 DEF Inv, ExclusionInv, IsCurrent, TypeInv, TypeOK
<1>3. Todo(th) \in Change
  <2>1. call[th].todo \in Seq(Change) /\ call[th].n \in 1 .. Len(call[th].todo)
    BY <1>1 DEF Inv, TypeInv, ThreadsOK, CallOK, OpFits, CallRecord
  <2> QED BY <2>1 DEF Todo
<1>4. ASSUME NEW u \in Thread, NEW t \in holds[u]
      PROVE  /\ IsPrefix(changes[t], changes'[t])
             /\ t \notin Unresolved \/ InSlotOf(u, t) => changes'[t] = changes[t]
  <2>1. CASE t = tx
    <3>1. t \in Unresolved /\ ~InSlotOf(u, t)
      BY <1>2, <2>1 DEF Inv, OwnershipInv, OwnedBy, InSlotOf, Unresolved, alive
    <3> QED BY <1>1, <1>2, <1>3, <2>1, <3>1, PrefixOfAppend
  <2>2. CASE t # tx
    BY <1>1, <1>2, <2>2, PrefixOfItself
  <2> QED BY <2>1, <2>2
<1> QED BY <1>1, <1>4 DEF OutcomeInv, Preserves, ChangeSetsKept, OutcomesKept

\* The current transaction is abandoned, or deleted.
LEMMA FinishRollbackKeeps ==
    ASSUME Inv, OutcomeInv, NEW th \in Thread, FinishRollback(th)
    PROVE  Preserves
<1> PICK tx : tx = call[th].tx
  OBVIOUS
<1>1. tx = currentTx /\ tx \in holds[th] /\ UNCHANGED committing
  BY DEF FinishRollback, Releases, Inv, ExclusionInv, IsCurrent, OwnershipInv, OwnedBy
<1>2. CASE call[th].op = "drop"
  BY <1>1, <1>2, DeallocateKeeps DEF FinishRollback
<1>3. CASE call[th].op # "drop"
  <2>1. abandoned' = abandoned \cup {tx} /\ UNCHANGED <<holds, changes, committed, committing>>
    BY <1>1, <1>3 DEF FinishRollback
  <2>2. tx \notin committed /\ \A u \in Thread : \A i \in DOMAIN committing[u] : committing[u][i] # tx
    BY <1>1 DEF Inv, OwnershipInv, OwnedBy
  <2>3. \A t \in Tx : IsPrefix(changes[t], changes'[t]) /\ changes'[t] = changes[t]
    BY <2>1, PrefixOfItself DEF Inv, TypeInv, TypeOK
  <2>4. ChangeSetsKept
    BY <2>3 DEF ChangeSetsKept, Inv, TypeInv, TypeOK
  <2> QED BY <2>1, <2>2, <2>4 DEF OutcomeInv, Preserves, OutcomesKept
<1> QED BY <1>2, <1>3

\* The current transaction's commit is published; its object is not yet marked.
LEMMA PublishCommitKeeps ==
    ASSUME Inv, OutcomeInv, NEW th \in Thread, PublishCommit(th)
    PROVE  Preserves
<1> PICK tx : tx = call[th].tx
  OBVIOUS
<1>1. /\ pc[th] = "body" /\ committing' = [committing EXCEPT ![th] = Append(@, tx)]
      /\ UNCHANGED <<holds, changes, committed, abandoned>>
  BY DEF PublishCommit, txVars
<1>2. tx = currentTx /\ tx \notin abandoned
  BY <1>1 DEF Inv, ExclusionInv, IsCurrent, OwnershipInv
<1>3. committing \in [Thread -> Seq(Tx)] /\ tx \in Tx
  BY <1>1 DEF Inv, TypeInv, TypeOK, ThreadsOK, CallOK, PublishCommit
<1>4. ASSUME NEW u \in Thread, NEW i \in DOMAIN committing'[u] PROVE committing'[u][i] \notin abandoned
  <2>1. CASE u = th
    <3>1. committing'[th] = Append(committing[th], tx) /\ committing[th] \in Seq(Tx)
      BY <1>1, <1>3
    <3>2. i \in 1 .. Len(committing[th]) + 1
      BY <1>3, <1>4, <2>1, <3>1
    <3>3. CASE i = Len(committing[th]) + 1
      BY <1>2, <1>3, <2>1, <3>1, <3>3
    <3>4. CASE i \in 1 .. Len(committing[th])
      BY <1>3, <2>1, <3>1, <3>4 DEF OutcomeInv
    <3> QED BY <3>2, <3>3, <3>4, <3>1
  <2>2. CASE u # th
    BY <1>1, <1>3, <1>4, <2>2 DEF OutcomeInv
  <2> QED BY <2>1, <2>2
<1>5. \A t \in Tx : IsPrefix(changes[t], changes'[t]) /\ changes'[t] = changes[t]
  BY <1>1, PrefixOfItself DEF Inv, TypeInv, TypeOK
<1>6. ChangeSetsKept
  BY <1>5 DEF ChangeSetsKept, Inv, TypeInv, TypeOK
<1> QED BY <1>1, <1>4, <1>6 DEF OutcomeInv, Preserves, OutcomesKept

\* It is marked, and was not abandoned by the slots.
LEMMA FinishCommitKeeps ==
    ASSUME Inv, OutcomeInv, NEW th \in Thread, FinishCommit(th)
    PROVE  Preserves
<1> DEFINE top == committing[th][Len(committing[th])]
<1>1. /\ committing \in [Thread -> Seq(Tx)] /\ committing[th] # <<>>
      /\ committed' = committed \cup {top}
      /\ committing' = [committing EXCEPT ![th] = Front(@)]
      /\ UNCHANGED <<holds, changes, abandoned>>
  BY DEF FinishCommit, Last, Inv, TypeInv, TypeOK
<1>2. Len(committing[th]) \in DOMAIN committing[th]
  <2>1. committing[th] \in Seq(Tx) /\ committing[th] # <<>>
    BY <1>1
  <2> QED BY <2>1
<1>3. top \notin abandoned
  BY <1>2 DEF OutcomeInv
<1>4. ASSUME NEW u \in Thread, NEW i \in DOMAIN committing'[u] PROVE committing'[u][i] \notin abandoned
  <2>1. CASE u = th
    <3>1. committing'[th] = Front(committing[th]) /\ committing[th] \in Seq(Tx)
      BY <1>1
    <3>2. i \in DOMAIN committing[th] /\ committing'[th][i] = committing[th][i]
      BY <1>2, <1>4, <2>1, <3>1 DEF Front
    <3> QED BY <2>1, <3>2 DEF OutcomeInv
  <2>2. CASE u # th
    BY <1>1, <1>4, <2>2 DEF OutcomeInv
  <2> QED BY <2>1, <2>2
<1>5. \A t \in Tx : IsPrefix(changes[t], changes'[t]) /\ changes'[t] = changes[t]
  BY <1>1, PrefixOfItself DEF Inv, TypeInv, TypeOK
<1>6. ChangeSetsKept
  BY <1>5 DEF ChangeSetsKept, Inv, TypeInv, TypeOK
<1> QED BY <1>1, <1>3, <1>4, <1>6 DEF OutcomeInv, Preserves, OutcomesKept

LEMMA RunKeeps ==
    ASSUME Inv, OutcomeInv, NEW th \in Thread, Run(th)
    PROVE  Preserves
<1>1. ASSUME ReplayStep(th) \/ ReplayFails(th) \/ RevertStep(th) \/ RevertFails(th) \/ DirectRead(th)
             \/ WriteTakesEffect(th) \/ WriteRefused(th) \/ StoreThrows(th)
             \/ MatchForRemoval(th) \/ ReadInTransaction(th)
      PROVE  Preserves
  BY <1>1, AsideKeeps DEF ReplayStep, ReplayFails, RevertStep, RevertFails, DirectRead, WriteTakesEffect,
     WriteRefused, StoreThrows, MatchForRemoval, ReadInTransaction, txVars
<1>2. CASE Destroy(th)
  <2>1. pc[th] = "destroy" /\ UNCHANGED committing
    BY <1>2 DEF Destroy
  <2>2. call[th].tx \in holds[th]
    BY <2>1 DEF Inv, TypeInv, ThreadsOK, CallOK, OpFits, OwnershipInv, OwnedBy
  <2> QED BY <1>2, <2>1, <2>2, AsideKeeps, DeallocateKeeps DEF Destroy, txVars
<1> QED BY <1>1, <1>2, RecordKeeps, FinishRollbackKeeps, PublishCommitKeeps DEF Run

-----------------------------------------------------------------------------
(* The theorems.                                                              *)

OutcomesUnlessRaced == ~raced => OutcomeInv

LEMMA InitOutcomes == Init => OutcomesUnlessRaced
BY DEF Init, OutcomesUnlessRaced, OutcomeInv

LEMMA NextKeeps ==
    ASSUME TypeInv, IsolationInv, OutcomesUnlessRaced, Next, ~raced'
    PROVE  Preserves
<1>1. Inv /\ OutcomeInv
  BY RacedStays DEF IsolationInv, Inv, OutcomesUnlessRaced
<1> QED BY <1>1, CallKeeps, LockKeeps, RunKeeps, FinishCommitKeeps DEF Next

\* The invariant is preserved by every step.
LEMMA NextOutcomes == TypeInv /\ IsolationInv /\ OutcomesUnlessRaced /\ [Next]_vars => OutcomesUnlessRaced'
<1>1. CASE UNCHANGED vars
  BY <1>1 DEF vars, txVars, threadVars, history, OutcomesUnlessRaced, OutcomeInv
<1>2. CASE Next
  BY <1>2, NextKeeps DEF OutcomesUnlessRaced, Preserves
<1> QED BY <1>1, <1>2

\* However many threads use the store, and until an access reverts a change that
\* was not recorded yet: from the moment a commit emits its change set until the
\* object is deleted, getChanges returns that change set, and commit and rollback
\* never both mark an object.
THEOREM HistoryUnlessRaced == Spec => [][~raced' => ChangeSetsKept /\ OutcomesKept]_vars
<1>1. TypeInv /\ IsolationInv /\ OutcomesUnlessRaced /\ [Next]_vars
        => [~raced' => ChangeSetsKept /\ OutcomesKept]_vars
  BY NextKeeps DEF Preserves
<1> QED BY <1>1, TypeCorrect, InitIsolation, NextIsolation, InitOutcomes, NextOutcomes, PTL DEF Spec

\* With one thread getChanges keeps returning the change set that was committed,
\* whatever the slots of that commit do.
THEOREM SingleThreadHistory ==
    ASSUME \A a, b \in Thread : a = b
    PROVE  Spec => ChangeSetsAreHistory
<1>1. (~raced' => ChangeSetsKept /\ OutcomesKept) /\ ~raced' => ChangeSetsKept
  OBVIOUS
<1> QED BY <1>1, SingleThreadNeverRaces, HistoryUnlessRaced, PTL DEF ChangeSetsAreHistory, ChangeSetsKept

\* With one thread a transaction that was committed is never rolled back as well,
\* nor the other way round, whichever exception or slot comes between.
THEOREM SingleThreadOutcomes ==
    ASSUME \A a, b \in Thread : a = b
    PROVE  Spec => OutcomesAreFinal
<1>1. (~raced' => ChangeSetsKept /\ OutcomesKept) /\ ~raced' => OutcomesKept
  OBVIOUS
<1> QED BY <1>1, SingleThreadNeverRaces, HistoryUnlessRaced, PTL DEF OutcomesAreFinal, OutcomesKept

-----------------------------------------------------------------------------
(* What deletions leave current.  An object is only let go when it is not      *)
(* current any more, or was rolled back for it, or has no changes.            *)

\* The body of DeletionMakesRoom.
RoomIsMade ==
    \A th \in Thread : \A tx \in holds[th] \ holds'[th] : changes[tx] # <<>> => currentTx' # tx

LEMMA DestroyMakesRoom ==
    ASSUME Inv, NEW th \in Thread, Destroy(th)
    PROVE  RoomIsMade
<1> PICK tx : tx = call[th].tx
  OBVIOUS
<1>1. UNCHANGED currentTx
  BY DEF Destroy, storeVars
<1>2. CASE tx \in Unresolved /\ changes[tx] # <<>>
  BY <1>2 DEF Destroy, txVars, RoomIsMade
<1>3. CASE ~(tx \in Unresolved /\ changes[tx] # <<>>)
  <2>1. holds' = [holds EXCEPT ![th] = @ \ {tx}]
    BY <1>3 DEF Destroy, Deallocate
  <2>2. \A u \in Thread : \A t \in holds[u] \ holds'[u] : t = tx /\ t \in alive
    BY <2>1 DEF alive, Inv, TypeInv, TypeOK
  <2>3. tx \in alive /\ changes[tx] # <<>> => tx \in committed \cup abandoned
    BY <1>3 DEF Unresolved
  <2> QED BY <1>1, <2>2, <2>3 DEF RoomIsMade, Inv, OwnershipInv
<1> QED BY <1>2, <1>3

LEMMA FinishRollbackMakesRoom ==
    ASSUME Inv, NEW th \in Thread, FinishRollback(th)
    PROVE  RoomIsMade
<1>1. currentTx' = NoTransaction
  BY DEF FinishRollback, ResetCurrentTx
<1>2. \A u \in Thread : holds[u] \subseteq Tx
  BY DEF Inv, TypeInv, TypeOK
<1> QED BY <1>1, <1>2, ValuesAssumption DEF RoomIsMade

LEMMA NextMakesRoom ==
    ASSUME Inv, Next
    PROVE  RoomIsMade
<1>1. ASSUME UNCHANGED holds PROVE RoomIsMade
  BY <1>1 DEF RoomIsMade
<1>2. ASSUME NEW th \in Thread, Call(th) PROVE RoomIsMade
  BY <1>1, <1>2 DEF Call, CallStartTransaction, CallWrite, CallRemoveMatching, CallRead,
     CallImportUnreadable, CallCommit, CallRollback, CallDelete, CallDirectRead, CallDirectWrite,
     Begin, txVars
<1>3. ASSUME NEW th \in Thread, Lock(th) PROVE RoomIsMade
  <2>1. CASE StartTransaction(th)
    BY <2>1 DEF StartTransaction, RoomIsMade, Inv, TypeInv, TypeOK
  <2>2. CASE ~StartTransaction(th)
    BY <1>1, <1>3, <2>2 DEF Lock, StartOperation, CommitTransaction, RollbackTransaction,
       StartNonTransactionalAccess, ReadUndefined, txVars, threadVars
  <2> QED BY <2>1, <2>2
<1>4. ASSUME NEW th \in Thread, Run(th) PROVE RoomIsMade
  <2>1. CASE Destroy(th) \/ FinishRollback(th)
    BY <2>1, DestroyMakesRoom, FinishRollbackMakesRoom
  <2>2. CASE ~(Destroy(th) \/ FinishRollback(th))
    BY <1>1, <1>4, <2>2 DEF Run, ReplayStep, ReplayFails, RevertStep, RevertFails, DirectRead,
       WriteTakesEffect, WriteRefused, StoreThrows, MatchForRemoval, ReadInTransaction, Record,
       PublishCommit, txVars
  <2> QED BY <2>1, <2>2
<1>5. ASSUME NEW th \in Thread, FinishCommit(th) PROVE RoomIsMade
  BY <1>1, <1>5 DEF FinishCommit
<1> QED BY <1>2, <1>3, <1>4, <1>5 DEF Next

\* However many threads use the store, and until a race: a transaction that is
\* deleted with changes is not current afterwards, so that another can be started.
THEOREM RoomUnlessRaced == Spec => [][~raced' => RoomIsMade]_vars
<1>1. TypeInv /\ IsolationInv /\ Next /\ ~raced' => RoomIsMade
  BY RacedStays, NextMakesRoom DEF IsolationInv, Inv
<1>2. TypeInv /\ IsolationInv /\ [Next]_vars => [~raced' => RoomIsMade]_vars
  BY <1>1
<1> QED BY <1>2, TypeCorrect, InitIsolation, NextIsolation, PTL DEF Spec

\* With one thread that holds without condition, whatever slots and exceptions
\* have left of the transaction.
THEOREM SingleThreadMakesRoom ==
    ASSUME \A a, b \in Thread : a = b
    PROVE  Spec => DeletionMakesRoom
<1>1. (~raced' => RoomIsMade) /\ ~raced' => RoomIsMade
  OBVIOUS
<1> QED BY <1>1, SingleThreadNeverRaces, RoomUnlessRaced, PTL DEF DeletionMakesRoom, RoomIsMade

-----------------------------------------------------------------------------
(* What a commit publishes.  The trail of contents that isolation rests on     *)
(* holds the steps of folding the change set over the committed contents, and, *)
(* read backwards, those of its reversal.                                     *)

ApplyFold == INSTANCE FoldTheorems
    WITH Op <- LAMBDA r, c, p : [ok |-> r.ok /\ Effective(c, r.s), s |-> Applied(c, r.s)],
         Inv <- LAMBDA x, k, p : TRUE

LEMMA ApplyAllIsFold ==
    ASSUME NEW cs, NEW S
    PROVE  ApplyAll(cs, S) = ApplyFold!Fold([ok |-> TRUE, s |-> S], cs, 0)
BY DEF ApplyAll, FoldLeft, MapThenFoldSet, Max, ApplyFold!Fold, ApplyFold!Largest

\* Contents that each of the changes leads on from.
LeadsThrough(cs, g) ==
    \A i \in 1 .. Len(cs) : Effective(cs[i], g[i - 1]) /\ g[i] = Applied(cs[i], g[i - 1])

LEMMA ApplyAllLeads ==
    ASSUME NEW cs \in Seq(Change), NEW g, LeadsThrough(cs, g)
    PROVE  ApplyAll(cs, g[0]) = [ok |-> TRUE, s |-> g[Len(cs)]]
<1> DEFINE f == [i \in 0 .. Len(cs) |-> [ok |-> TRUE, s |-> g[i]]]
           h == [i \in 0 .. Len(cs) |->
                    IF i = 0 THEN [ok |-> TRUE, s |-> g[0]]
                    ELSE [ok |-> f[i - 1].ok /\ Effective(cs[i], f[i - 1].s),
                          s |-> Applied(cs[i], f[i - 1].s)]]
<1>1. ASSUME NEW i \in 0 .. Len(cs) PROVE f[i] = h[i]
  <2>1. CASE i = 0
    BY <2>1
  <2>2. CASE i # 0
    <3>1. i \in 1 .. Len(cs) /\ i - 1 \in 0 .. Len(cs)
      BY <2>2
    <3>2. Effective(cs[i], g[i - 1]) /\ g[i] = Applied(cs[i], g[i - 1])
      BY <3>1 DEF LeadsThrough
    <3>3. f[i - 1].ok = TRUE /\ f[i - 1].s = g[i - 1]
      BY <3>1
    <3>4. h[i] = [ok |-> f[i - 1].ok /\ Effective(cs[i], f[i - 1].s), s |-> Applied(cs[i], f[i - 1].s)]
      BY <2>2
    <3> QED BY <3>2, <3>3, <3>4
  <2> QED BY <2>1, <2>2
<1>2. f = h
  BY <1>1
<1>3. ApplyFold!Steps(f, [ok |-> TRUE, s |-> g[0]], cs, 0)
  <2> HIDE DEF f
  <2> QED BY <1>2 DEF ApplyFold!Steps
<1>4. Len(cs) \in Nat /\ DOMAIN cs = 1 .. Len(cs)
  OBVIOUS
<1> HIDE DEF f
<1>5. ApplyFold!Fold([ok |-> TRUE, s |-> g[0]], cs, 0) = f[Len(cs)]
  BY <1>3, <1>4, ApplyFold!FoldIsLastStep
<1>6. f[Len(cs)] = [ok |-> TRUE, s |-> g[Len(cs)]]
  BY <1>4 DEF f
<1> QED BY <1>5, <1>6, ApplyAllIsFold

\* The committed contents through the change set to the pending ones, and back.
LEMMA PendingChangesLead ==
    ASSUME Inv, NEW tx \in Tx, currentTx = tx
    PROVE  /\ ApplyAll(changes[tx], trail[1]) = [ok |-> TRUE, s |-> Last(trail)]
           /\ ApplyAll(Reverting(changes[tx]), Last(trail)) = [ok |-> TRUE, s |-> trail[1]]
<1> DEFINE cs == changes[tx]
           n == Len(cs)
           there == [i \in 0 .. n |-> trail[i + 1]]
           back == [i \in 0 .. n |-> trail[n + 1 - i]]
<1>1. cs \in Seq(Change) /\ trail \in Seq(SUBSET Triple)
  BY DEF Inv, TypeInv, TypeOK
<1>2. CurrentChanges = cs
  BY ValuesAssumption DEF CurrentChanges
<1>3. /\ n \in Nat /\ Len(trail) = n + 1 /\ Last(trail) = trail[n + 1]
      /\ \A i \in 1 .. n : cs[i] \in Change /\ Effective(cs[i], trail[i]) /\ trail[i + 1] = Applied(cs[i], trail[i])
  BY <1>1, <1>2 DEF Inv, TrailInv, Last
<1>4. ApplyAll(cs, there[0]) = [ok |-> TRUE, s |-> there[n]]
  <2>1. \A i \in 1 .. n : there[i] = trail[i + 1] /\ there[i - 1] = trail[i]
    BY <1>3
  <2>2. LeadsThrough(cs, there)
    <3> HIDE DEF there
    <3> QED BY <1>3, <2>1 DEF LeadsThrough
  <2> HIDE DEF there, cs
  <2> QED BY <1>1, <2>2, ApplyAllLeads DEF cs
<1>5. Reverting(cs) \in Seq(Change) /\ Len(Reverting(cs)) = n
  <2>1. ASSUME NEW i \in 1 .. n PROVE Opposite(cs[n + 1 - i]) \in Change
    <3>1. n + 1 - i \in 1 .. n
      BY <1>3
    <3>2. cs[n + 1 - i] \in Change
      BY <1>3, <3>1
    <3> QED BY <3>2 DEF Opposite, Change
  <2> QED BY <1>3, <2>1 DEF Reverting
<1>6. ASSUME NEW i \in 1 .. n
      PROVE  Effective(Reverting(cs)[i], back[i - 1]) /\ back[i] = Applied(Reverting(cs)[i], back[i - 1])
  <2> DEFINE j == n + 1 - i
  <2>1. j \in 1 .. n /\ back[i - 1] = trail[j + 1] /\ back[i] = trail[j]
    BY <1>3
  <2>2. Reverting(cs)[i] = Opposite(cs[j])
    BY DEF Reverting
  <2> HIDE DEF j, back
  <2>3. cs[j] \in Change /\ Effective(cs[j], trail[j]) /\ trail[j + 1] = Applied(cs[j], trail[j])
    BY <1>3, <2>1
  <2> HIDE DEF cs
  <2> QED BY <2>1, <2>2, <2>3, OppositeUndoes
<1>7. ApplyAll(Reverting(cs), back[0]) = [ok |-> TRUE, s |-> back[n]]
  <2>1. LeadsThrough(Reverting(cs), back)
    <3> HIDE DEF back
    <3> QED BY <1>5, <1>6 DEF LeadsThrough
  <2> HIDE DEF back
  <2> QED BY <1>5, <2>1, ApplyAllLeads
<1>8. there[0] = trail[1] /\ there[n] = trail[n + 1] /\ back[0] = trail[n + 1] /\ back[n] = trail[1]
  BY <1>3
<1> QED BY <1>3, <1>4, <1>7, <1>8

\* The body of CommitsPublishTheirChangeSet.
PublishesItsChangeSet ==
    /\ currentTx # NoTransaction /\ currentTx' = NoTransaction
    /\ ApplyAll(changes[currentTx], trail[1]) = [ok |-> TRUE, s |-> store']
    /\ ApplyAll(Reverting(changes[currentTx]), store') = [ok |-> TRUE, s |-> trail[1]]

LEMMA NextPublishes ==
    ASSUME TypeInv, IsolationInv, Next, ~raced, trail'[1] # trail[1]
    PROVE  PublishesItsChangeSet
<1>1. Inv
  BY DEF IsolationInv, Inv
<1>2. PICK th \in Thread : Call(th) \/ Lock(th) \/ Run(th) \/ FinishCommit(th)
  BY DEF Next
<1>3. trail \in Seq(SUBSET Triple) /\ Len(trail) \geq 1
  <2>1. trail \in Seq(SUBSET Triple)
    BY DEF TypeInv, TypeOK
  <2>2. CurrentChanges \in Seq(Change)
    <3>1. CASE currentTx = NoTransaction
      BY <3>1 DEF CurrentChanges
    <3>2. CASE currentTx # NoTransaction
      BY <3>2 DEF TypeInv, TypeOK, CurrentChanges
    <3> QED BY <3>1, <3>2
  <2> QED BY <1>1, <2>1, <2>2 DEF Inv, TrailInv
<1>4. ~Call(th)
  BY DEF Call, CallStartTransaction, CallWrite, CallRemoveMatching, CallRead, CallImportUnreadable,
     CallCommit, CallRollback, CallDelete, CallDirectRead, CallDirectWrite, Begin, history
<1>5. ~Lock(th)
  BY DEF Lock, StartTransaction, StartOperation, CommitTransaction, RollbackTransaction,
     StartNonTransactionalAccess, ReadUndefined, history
<1>6. ~Record(th) /\ ~FinishRollback(th) /\ ~FinishCommit(th)
  <2>1. ~Record(th)
    <3>1. \A S : Append(trail, S)[1] = trail[1]
      BY <1>3
    <3> QED BY <3>1 DEF Record
  <2>2. ~FinishRollback(th)
    <3>1. <<trail[1]>>[1] = trail[1]
      OBVIOUS
    <3> QED BY <3>1 DEF FinishRollback
  <2> QED BY <2>1, <2>2 DEF FinishCommit, history
<1>7. PublishCommit(th)
  BY <1>2, <1>4, <1>5, <1>6 DEF Run, ReplayStep, ReplayFails, RevertStep, RevertFails, DirectRead,
     WriteTakesEffect, WriteRefused, StoreThrows, MatchForRemoval, ReadInTransaction, Destroy, history
<1>8. /\ pc[th] = "body" /\ call[th].op = "commit" /\ currentTx' = NoTransaction /\ store' = store
  BY <1>7 DEF PublishCommit, ResetCurrentTx
<1>9. store = Last(trail) /\ currentTx \in Tx
  <2>1. call[th].tx \in holds[th] /\ holds[th] \subseteq Tx
    BY <1>1, <1>8 DEF Inv, OwnershipInv, OwnedBy, TypeInv, TypeOK
  <2> QED BY <1>1, <1>8, <2>1 DEF Inv, StoreInv, BusyStore, ExclusionInv, IsCurrent
<1> QED BY <1>1, <1>8, <1>9, PendingChangesLead, ValuesAssumption DEF PublishesItsChangeSet

\* However many threads use the store, and until an access reverts a change that
\* was not recorded yet: what is committed is the pending change set, each change of
\* it took effect on what the ones before had left, and reverting it would restore
\* what was committed before.
THEOREM CommitsPublish == Spec => CommitsPublishTheirChangeSet
<1>1. TypeInv /\ IsolationInv /\ [Next]_vars
        => [trail'[1] # trail[1] /\ ~raced => PublishesItsChangeSet]_vars
  BY NextPublishes
<1> QED BY <1>1, TypeCorrect, InitIsolation, NextIsolation, PTL
    DEF Spec, CommitsPublishTheirChangeSet, PublishesItsChangeSet
===================================================================================
