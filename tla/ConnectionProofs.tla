---------------------------- MODULE ConnectionProofs ----------------------------
(* Proofs about Connection, for all connections, triples and change sets: who the *)
(* store's current transaction belongs to, and what units of work read, publish   *)
(* and signal.                                                                   *)
EXTENDS Connection, FiniteSetTheorems, TLAPS

-------------------------------------------------------------------------------
(* The current transaction.                                                      *)

\* CurrentIsTheOpenOne with the types that it rests on.
CurrentInv ==
    /\ tx \in [Conn -> TxStates]
    /\ current \in Conn \cup {NoTransaction}
    /\ CurrentIsTheOpenOne

\* What a step does to the store's current transaction and the one of its
\* connection, if it does anything.
Begins(c) == tx' = [tx EXCEPT ![c] = "open"] /\ current' = c
Loses(c) == \E s \in {"none", "abandoned", "committing"} :
    tx' = [tx EXCEPT ![c] = s] /\ current' = NoTransaction
Forgets(c) == tx' = [tx EXCEPT ![c] = "none"] /\ UNCHANGED current

LEMMA BeginKeepsCurrent ==
  ASSUME CurrentInv, NEW c \in Conn, current \in {c, NoTransaction}, Begins(c)
  PROVE  CurrentInv'
<1>1. tx' \in [Conn -> TxStates] /\ current' \in Conn
  BY DEF CurrentInv, TxStates, Begins
<1>2. ASSUME NEW d \in Conn \ {c} PROVE ~(tx'[d] = "open") /\ current' # d
  <2>1. tx[d] # "open"
    BY ConnectionConstants DEF CurrentInv, CurrentIsTheOpenOne, Open
  <2>. QED  BY <2>1 DEF CurrentInv, Begins
<1>3. tx'[c] = "open" /\ current' = c
  BY DEF CurrentInv, Begins
<1>. QED  BY <1>1, <1>2, <1>3 DEF CurrentInv, CurrentIsTheOpenOne, Open

\* Only the connection with an open transaction can lose it for the store, or one
\* that begins it in the same step.
LEMMA LossKeepsCurrent ==
  ASSUME CurrentInv, NEW c \in Conn, current \in {c, NoTransaction}, Loses(c)
  PROVE  CurrentInv'
<1>1. tx' \in [Conn -> TxStates] /\ current' = NoTransaction
  BY DEF CurrentInv, TxStates, Loses
<1>2. ASSUME NEW d \in Conn PROVE tx'[d] # "open" /\ current' # d
  <2>1. d # c => tx[d] # "open"
    BY ConnectionConstants DEF CurrentInv, CurrentIsTheOpenOne, Open
  <2>. QED  BY <1>1, <2>1, ConnectionConstants DEF CurrentInv, Loses
<1>. QED  BY <1>1, <1>2 DEF CurrentInv, CurrentIsTheOpenOne, Open

LEMMA ForgettingKeepsCurrent ==
  ASSUME CurrentInv, NEW c \in Conn, tx[c] # "open", Forgets(c)
  PROVE  CurrentInv'
<1>1. tx' \in [Conn -> TxStates] /\ current' \in Conn \cup {NoTransaction}
  BY DEF CurrentInv, TxStates, Forgets
<1>2. \A d \in Conn : tx'[d] = "open" <=> tx[d] = "open"
  BY DEF CurrentInv, Forgets
<1>. QED  BY <1>1, <1>2 DEF CurrentInv, CurrentIsTheOpenOne, Open, Forgets

\* A write leaves its connection with the transaction, or loses it.
LEMMA ModifyKeepsCurrent ==
  ASSUME CurrentInv, NEW c \in Conn, NEW todo, NEW onRefusal, Modify(c, todo, onRefusal)
  PROVE  CurrentInv'
<1>1. current \in {c, NoTransaction}
  BY DEF Modify, CanStart, CurrentInv, CurrentIsTheOpenOne, Open
<1>2. Begins(c) \/ Loses(c)
  BY DEF Modify, Discard, Begins, Loses
<1>. QED  BY <1>1, <1>2, BeginKeepsCurrent, LossKeepsCurrent

LEMMA CurrentStep == CurrentInv /\ [Next]_vars => CurrentInv'
<1>. SUFFICES ASSUME CurrentInv, [Next]_vars PROVE CurrentInv'
  OBVIOUS
<1>1. ASSUME NEW c \in Conn, NEW t, AddTriple(c, t) \/ RemoveTriple(c, t) PROVE CurrentInv'
  BY <1>1, ModifyKeepsCurrent DEF AddTriple, RemoveTriple
<1>2. ASSUME NEW c \in Conn, NEW P, RemoveMatching(c, P) \/ AddBlankNode(c) PROVE CurrentInv'
  BY <1>2, ModifyKeepsCurrent DEF RemoveMatching, AddBlankNode
<1>3. ASSUME NEW c \in Conn, NEW cs, ApplyChanges(c, cs) \/ RevertChanges(c, cs)
      PROVE  CurrentInv'
  BY <1>3, ModifyKeepsCurrent DEF ApplyChanges, RevertChanges
<1>4. ASSUME NEW c \in Conn, NEW S, Import(c, S) \/ ImportOrFail(c, S) PROVE CurrentInv'
  BY <1>4, ModifyKeepsCurrent DEF Import, ImportOrFail
<1>5. ASSUME NEW c \in Conn, ReadThrows(c) \/ Commit(c) \/ Rollback(c) PROVE CurrentInv'
  <2>1. current \in {c, NoTransaction}
    BY <1>5 DEF ReadThrows, Commit, Rollback, CurrentInv, CurrentIsTheOpenOne
  <2>2. Loses(c)
    BY <1>5 DEF ReadThrows, Commit, Rollback, Discard, Publish, Loses
  <2>. QED  BY <2>1, <2>2, LossKeepsCurrent
<1>6. ASSUME NEW c \in Conn, Announce(c) PROVE CurrentInv'
  <2>1. tx[c] # "open" /\ Forgets(c)
    BY <1>6 DEF Announce, Forgets, store
  <2>. QED  BY <2>1, ForgettingKeepsCurrent
<1>7. ASSUME NEW c \in Conn, Delete(c) PROVE CurrentInv'
  <2>1. CASE Open(c)
    <3>1. current \in {c, NoTransaction}
      BY <2>1 DEF CurrentInv, CurrentIsTheOpenOne
    <3>2. Loses(c)
      BY <1>7, <2>1 DEF Delete, Publish, Loses
    <3>. QED  BY <3>1, <3>2, LossKeepsCurrent
  <2>2. CASE ~Open(c)
    BY <1>7, <2>2 DEF Delete, store, CurrentInv, CurrentIsTheOpenOne, Open
  <2>. QED  BY <2>1, <2>2
<1>8. CASE UNCHANGED vars
  BY <1>8 DEF vars, store, CurrentInv, CurrentIsTheOpenOne, Open
<1>. QED
  BY <1>1, <1>2, <1>3, <1>4, <1>5, <1>6, <1>7, <1>8 DEF Next

\* However connections start, lose, commit and drop their transactions, the
\* store's current one is that of the connection whose m_tx is open, if there is
\* one, and two are never open at once (Connection's start, commit and rollback,
\* and the exceptions that pass through a transaction).
THEOREM CurrentAgrees == Spec => []CurrentIsTheOpenOne
<1>1. Init => CurrentInv
  BY ConnectionConstants DEF Init, CurrentInv, CurrentIsTheOpenOne, Open, TxStates
<1>2. CurrentInv => CurrentIsTheOpenOne
  BY DEF CurrentInv
<1>. QED  BY <1>1, <1>2, CurrentStep, PTL DEF Spec

-------------------------------------------------------------------------------
(* What a sequence of changes makes of some contents, and what a write does.     *)

EffectFold == INSTANCE FoldTheorems WITH Op <- LAMBDA T, c, p : Effect(T, c), Inv <- LAMBDA x, k, p : TRUE
WriteFold == INSTANCE FoldTheorems WITH Op <- WriteOne, Inv <- LAMBDA x, k, p : TRUE

LEMMA AppliedIsFold ==
  ASSUME NEW T, NEW cs
  PROVE  Applied(T, cs) = EffectFold!Fold(T, cs, 0)
  BY DEF Applied, FoldLeft, MapThenFoldSet, Max, EffectFold!Fold, EffectFold!Largest

LEMMA AppliedEmpty ==
  ASSUME NEW T
  PROVE  Applied(T, <<>>) = T
  BY AppliedIsFold, EffectFold!FoldEmpty

LEMMA AppliedAppend ==
  ASSUME NEW T, NEW cs \in Seq(CompleteChange), NEW c \in CompleteChange
  PROVE  Applied(T, Append(cs, c)) = Effect(Applied(T, cs), c)
  BY AppliedIsFold, EffectFold!FoldAppend

LEMMA AppliedConcat ==
  ASSUME NEW T, NEW cs \in Seq(CompleteChange), NEW ds \in Seq(CompleteChange)
  PROVE  Applied(T, cs \o ds) = Applied(Applied(T, cs), ds)
  BY AppliedIsFold, EffectFold!FoldConcat

LEMMA EffectKeepsContents ==
  ASSUME NEW T \in Contents, NEW c \in CompleteChange
  PROVE  Effect(T, c) \in Contents
<1>1. IsFiniteSet(T \cup {c.t}) /\ IsFiniteSet(T \ {c.t})
  BY FS_AddElement, FS_RemoveElement DEF Contents
<1>. QED  BY <1>1 DEF Contents, Effect, CompleteChange

LEMMA RunWriteIsFold ==
  ASSUME NEW T, NEW todo, NEW onRefusal
  PROVE  RunWrite(T, todo, onRefusal)
           = WriteFold!Fold([contents |-> T, done |-> <<>>, outcome |-> "returns"], todo, onRefusal)
  BY DEF RunWrite, FoldLeft, MapThenFoldSet, Max, WriteFold!Fold, WriteFold!Largest

\* However far a write comes: what it leaves are the effects of the changes that it
\* has recorded.
Outcomes == {"returns", "throws", "abandons"}
Written(T) ==
    {w \in [contents : Contents, done : Seq(CompleteChange), outcome : Outcomes] :
        w.contents = Applied(T, w.done)}

LEMMA WriteOneKeeps ==
  ASSUME NEW T, NEW w \in Written(T), NEW c \in Change, NEW onRefusal \in Outcomes
  PROVE  WriteOne(w, c, onRefusal) \in Written(T)
<1>. DEFINE more == [w EXCEPT !.contents = Effect(@, c), !.done = Append(@, c)]
<1>1. ASSUME c.t # Incomplete PROVE more \in Written(T)
  <2>1. c \in CompleteChange
    BY <1>1 DEF Change, CompleteChange
  <2>2. Effect(w.contents, c) \in Contents /\ Append(w.done, c) \in Seq(CompleteChange)
    BY <2>1, EffectKeepsContents DEF Written
  <2>3. Effect(w.contents, c) = Applied(T, Append(w.done, c))
    BY <2>1, AppliedAppend DEF Written
  <2>. QED  BY <2>2, <2>3 DEF Written
<1>2. ASSUME NEW outcome \in Outcomes PROVE [w EXCEPT !.outcome = outcome] \in Written(T)
  BY <1>2 DEF Written
<1>3. "abandons" \in Outcomes
  BY DEF Outcomes
<1>. QED  BY <1>1, <1>2, <1>3 DEF WriteOne

LEMMA RunWriteKeeps ==
  ASSUME NEW T \in Contents, NEW todo \in Seq(Change), NEW onRefusal \in Outcomes
  PROVE  RunWrite(T, todo, onRefusal) \in Written(T)
<1>. DEFINE base == [contents |-> T, done |-> <<>>, outcome |-> "returns"]
<1>1. base \in Written(T)
  BY AppliedEmpty DEF Written, Outcomes
<1>2. \A w \in Written(T), c \in Change : WriteOne(w, c, onRefusal) \in Written(T)
  BY WriteOneKeeps
<1>. HIDE DEF base
<1>3. WriteFold!Fold(base, todo, onRefusal) \in Written(T)
  BY <1>1, <1>2, WriteFold!FoldKeeps
<1>. QED  BY <1>3, RunWriteIsFold DEF base

\* The changes that the operations make.
LEMMA AddAllIsSeq ==
  ASSUME NEW S \in Contents
  PROVE  AddAll(S) \in Seq(Change) /\ RemoveAll(S) \in Seq(Change)
<1>1. Cardinality(S) \in Nat /\ ExistsBijection(1..Cardinality(S), S)
  BY FS_CardinalityType DEF Contents
<1>2. SetToSeq(S) \in [1..Cardinality(S) -> S]
  BY <1>1 DEF SetToSeq, ExistsBijection, Bijection, Injection, IsInjective
<1>3. \A i \in 1..Cardinality(S) : SetToSeq(S)[i] \in Triple
  BY <1>2 DEF Contents
<1>4. ASSUME NEW op \in {"add", "remove"}
      PROVE  [i \in 1..Cardinality(S) |-> [op |-> op, t |-> SetToSeq(S)[i]]] \in Seq(Change)
  <2>1. \A i \in 1..Cardinality(S) : [op |-> op, t |-> SetToSeq(S)[i]] \in Change
    BY <1>3, <1>4 DEF Change
  <2>. QED  BY <1>1, <2>1
<1>. QED  BY <1>4 DEF AddAll, RemoveAll

LEMMA InvertedIsSeq ==
  ASSUME NEW cs \in Seq(Change)
  PROVE  Inverted(cs) \in Seq(Change)
<1>1. ASSUME NEW i \in 1..Len(cs) PROVE Flip(cs[Len(cs) + 1 - i]) \in Change
  <2>1. cs[Len(cs) + 1 - i] \in Change
    OBVIOUS
  <2>. QED  BY <2>1 DEF Flip, Change
<1>. QED  BY <1>1 DEF Inverted

-------------------------------------------------------------------------------
(* Units of work.  The open one is what separates the working contents from the  *)
(* published ones, and is the change set that will be signalled; a commit that   *)
(* is not announced yet separates the published contents from the replica.       *)

UnitsOK ==
    /\ current = NoTransaction => working = published
    /\ \A c \in Conn : tx[c] = "none" => unit[c] = <<>> /\ changes[c] = <<>>
    /\ \A c \in Conn : tx[c] = "committing" => unit[c] = <<>>
    /\ \A c \in Conn : Open(c) => working = Applied(published, unit[c]) /\ changes[c] = unit[c]

ReplicaOK ==
    ~overlapped =>
        /\ \A c, d \in Conn : tx[c] = "committing" /\ tx[d] = "committing" => c = d
        /\ \A c \in Conn : tx[c] = "committing" => published = Applied(replica, changes[c])
        /\ (\A c \in Conn : tx[c] # "committing") => replica = published

UnitInv == TypeOK /\ CurrentIsTheOpenOne /\ UnitsOK /\ ReplicaOK

LEMMA UnitInvHasCurrent == UnitInv => CurrentInv
  BY DEF UnitInv, CurrentInv, TypeOK

\* Steps that neither begin nor end a commit.
LEMMA ReplicaUntouched ==
  ASSUME ReplicaOK, UNCHANGED <<published, replica, overlapped>>,
         \A c \in Conn : tx'[c] = "committing" <=> tx[c] = "committing",
         \A c \in Conn : tx[c] = "committing" => changes'[c] = changes[c]
  PROVE  ReplicaOK'
  BY DEF ReplicaOK

\* What the write of c does, with todo of the right type.
LEMMA ModifyKeeps ==
  ASSUME UnitInv, NEW c \in Conn, NEW todo \in Seq(Change), NEW onRefusal \in Outcomes,
         Modify(c, todo, onRefusal)
  PROVE  TypeOK' /\ UnitsOK' /\ ReplicaOK'
<1>. DEFINE w == RunWrite(working, todo, onRefusal)
<1>1. w \in Written(working)
  BY RunWriteKeeps DEF UnitInv, TypeOK
<1>. HIDE DEF w
<1>2. /\ w.contents \in Contents /\ w.done \in Seq(CompleteChange) /\ Len(w.done) \in Nat
      /\ w.contents = Applied(working, w.done)
  BY <1>1 DEF Written
<1>3. /\ tx[c] \in {"none", "open"} /\ CanStart(c)
      /\ made + Len(w.done) <= MaxChanges /\ made' = made + Len(w.done)
      /\ unit' = [unit EXCEPT ![c] = @ \o w.done]
      /\ changes' = [changes EXCEPT ![c] = @ \o w.done]
      /\ \/ /\ working' = published /\ current' = NoTransaction /\ tx' = [tx EXCEPT ![c] = "abandoned"]
         \/ /\ working' = w.contents /\ current' = c /\ tx' = [tx EXCEPT ![c] = "open"]
      /\ UNCHANGED <<published, deleted, terminated, replica, overlapped>>
  BY DEF Modify, Discard, w
<1>4. TypeOK'
  <2>1. unit[c] \o w.done \in Seq(CompleteChange) /\ changes[c] \o w.done \in Seq(CompleteChange)
    BY <1>2 DEF UnitInv, TypeOK
  <2>2. made' \in 0..MaxChanges
    BY <1>2, <1>3, ConnectionConstants DEF UnitInv, TypeOK
  <2>3. unit' \in [Conn -> Seq(CompleteChange)] /\ changes' \in [Conn -> Seq(CompleteChange)]
    BY <1>3, <2>1 DEF UnitInv, TypeOK
  <2>4. working' \in Contents /\ current' \in Conn \cup {NoTransaction} /\ tx' \in [Conn -> TxStates]
    BY <1>2, <1>3 DEF UnitInv, TypeOK, TxStates
  <2>. QED  BY <1>3, <2>2, <2>3, <2>4 DEF UnitInv, TypeOK
<1>5. /\ working = Applied(published, unit[c]) /\ changes[c] = unit[c]
      /\ \A d \in Conn \ {c} : tx[d] # "open"
  <2>1. CASE tx[c] = "none"
    BY <1>3, <2>1, AppliedEmpty, ConnectionConstants
    DEF UnitInv, UnitsOK, CanStart, CurrentIsTheOpenOne, Open
  <2>2. CASE tx[c] = "open"
    BY <2>2 DEF UnitInv, UnitsOK, CurrentIsTheOpenOne, Open
  <2>. QED  BY <1>3, <2>1, <2>2
<1>6. w.contents = Applied(published, unit[c] \o w.done)
  BY <1>2, <1>5, AppliedConcat DEF UnitInv, TypeOK
<1>7. /\ unit'[c] = unit[c] \o w.done /\ changes'[c] = changes[c] \o w.done
      /\ tx'[c] \in {"abandoned", "open"}
      /\ \A d \in Conn \ {c} : unit'[d] = unit[d] /\ changes'[d] = changes[d] /\ tx'[d] = tx[d]
  BY <1>3 DEF UnitInv, TypeOK
<1>8. UnitsOK'
  <2>1. current' = NoTransaction => working' = published'
    BY <1>3, ConnectionConstants
  <2>2. \A d \in Conn : tx'[d] = "none" => unit'[d] = <<>> /\ changes'[d] = <<>>
    BY <1>7 DEF UnitInv, UnitsOK
  <2>3. ASSUME NEW d \in Conn, tx'[d] = "open"
        PROVE  working' = Applied(published', unit'[d]) /\ changes'[d] = unit'[d]
    <3>1. d = c
      BY <1>5, <1>7, <2>3
    <3>2. working' = w.contents /\ published' = published
      BY <1>3, <2>3, <3>1 DEF UnitInv, TypeOK
    <3>. QED  BY <1>5, <1>6, <1>7, <3>1, <3>2
  <2>4. \A d \in Conn : tx'[d] = "committing" => unit'[d] = <<>>
    BY <1>7 DEF UnitInv, UnitsOK
  <2>. QED  BY <2>1, <2>2, <2>3, <2>4 DEF UnitsOK, Open
<1>9. ReplicaOK'
  <2>1. \A d \in Conn : tx'[d] = "committing" <=> tx[d] = "committing"
    BY <1>3, <1>7
  <2>2. \A d \in Conn : tx[d] = "committing" => changes'[d] = changes[d]
    BY <1>3, <1>7
  <2>. QED  BY <1>3, <2>1, <2>2, ReplicaUntouched DEF UnitInv
<1>. QED  BY <1>4, <1>8, <1>9

\* A transaction that is rolled back, by rollback or an exception on the way.
LEMMA DiscardKeeps ==
  ASSUME UnitInv, NEW c \in Conn, ReadThrows(c) \/ Rollback(c)
  PROVE  TypeOK' /\ UnitsOK' /\ ReplicaOK'
<1>1. /\ tx[c] = "open" /\ working' = published /\ current' = NoTransaction
      /\ \/ tx' = [tx EXCEPT ![c] = "abandoned"] /\ UNCHANGED <<changes, unit>>
         \/ /\ tx' = [tx EXCEPT ![c] = "none"]
            /\ changes' = [changes EXCEPT ![c] = <<>>] /\ unit' = [unit EXCEPT ![c] = <<>>]
      /\ UNCHANGED <<published, deleted, terminated, replica, overlapped, made>>
  BY DEF ReadThrows, Rollback, Discard, Open
<1>2. <<>> \in Seq(CompleteChange)
  OBVIOUS
<1>3. TypeOK'
  BY <1>1, <1>2 DEF UnitInv, TypeOK, TxStates
<1>4. /\ \A d \in Conn \ {c} : unit'[d] = unit[d] /\ changes'[d] = changes[d] /\ tx'[d] = tx[d]
      /\ tx'[c] = "abandoned" \/ (tx'[c] = "none" /\ unit'[c] = <<>> /\ changes'[c] = <<>>)
  BY <1>1 DEF UnitInv, TypeOK
<1>5. \A d \in Conn \ {c} : tx[d] # "open"
  BY <1>1 DEF UnitInv, CurrentIsTheOpenOne, Open
<1>6. UnitsOK'
  BY <1>1, <1>4, <1>5 DEF UnitInv, UnitsOK, Open
<1>7. ReplicaOK'
  <2>1. \A d \in Conn : tx'[d] = "committing" <=> tx[d] = "committing"
    BY <1>1, <1>4
  <2>2. \A d \in Conn : tx[d] = "committing" => changes'[d] = changes[d]
    BY <1>1, <1>4
  <2>. QED  BY <1>1, <2>1, <2>2, ReplicaUntouched DEF UnitInv
<1>. QED  BY <1>3, <1>6, <1>7

\* A commit, by commit or the destructor.
LEMMA PublishKeeps ==
  ASSUME UnitInv, NEW c \in Conn, Open(c), Publish(c), UNCHANGED <<changes, replica, made>>,
         deleted' \subseteq Conn, terminated' \in BOOLEAN
  PROVE  TypeOK' /\ UnitsOK' /\ ReplicaOK'
<1>1. /\ tx[c] = "open" /\ published' = working /\ working' = working /\ current' = NoTransaction
      /\ tx' = [tx EXCEPT ![c] = "committing"] /\ unit' = [unit EXCEPT ![c] = <<>>]
      /\ overlapped' = (overlapped \/ \E d \in Conn : tx[d] = "committing")
  BY DEF Publish, Open
<1>2. <<>> \in Seq(CompleteChange) /\ overlapped' \in BOOLEAN
  BY <1>1 DEF UnitInv, TypeOK
<1>3. TypeOK'
  BY <1>1, <1>2 DEF UnitInv, TypeOK, TxStates
<1>4. /\ \A d \in Conn \ {c} : unit'[d] = unit[d] /\ tx'[d] = tx[d] /\ tx[d] # "open"
      /\ tx'[c] = "committing" /\ unit'[c] = <<>>
  BY <1>1 DEF UnitInv, TypeOK, CurrentIsTheOpenOne, Open
<1>5. UnitsOK'
  BY <1>1, <1>4 DEF UnitInv, UnitsOK, Open
<1>6. ReplicaOK'
  <2>. SUFFICES ASSUME ~overlapped'
                PROVE  /\ \A d \in Conn : tx'[d] = "committing" => d = c
                       /\ published' = Applied(replica, changes[c])
    BY <1>4 DEF ReplicaOK
  <2>1. ~overlapped /\ \A d \in Conn : tx[d] # "committing"
    <3>1. ~(overlapped \/ \E d \in Conn : tx[d] = "committing")
      BY <1>1, Zenon
    <3>. QED  BY <3>1
  <2>2. replica = published
    BY <2>1 DEF UnitInv, ReplicaOK
  <2>3. working = Applied(published, changes[c])
    BY DEF UnitInv, UnitsOK
  <2>. QED  BY <1>1, <1>4, <2>1, <2>2, <2>3
<1>. QED  BY <1>3, <1>5, <1>6

LEMMA AppliedKeepsContents ==
  ASSUME NEW T \in Contents, NEW cs \in Seq(CompleteChange)
  PROVE  Applied(T, cs) \in Contents
<1>1. \A U \in Contents, c \in CompleteChange : Effect(U, c) \in Contents
  BY EffectKeepsContents
<1>. QED  BY <1>1, EffectFold!FoldKeeps, AppliedIsFold

\* The signals of a commit.
LEMMA AnnounceKeeps ==
  ASSUME UnitInv, NEW c \in Conn, Announce(c)
  PROVE  TypeOK' /\ UnitsOK' /\ ReplicaOK'
<1>1. /\ tx[c] = "committing" /\ replica' = Applied(replica, changes[c])
      /\ changes' = [changes EXCEPT ![c] = <<>>] /\ tx' = [tx EXCEPT ![c] = "none"]
      /\ UNCHANGED <<published, working, current, deleted, terminated, overlapped, unit, made>>
  BY DEF Announce, store
<1>2. replica' \in Contents /\ <<>> \in Seq(CompleteChange)
  BY <1>1, AppliedKeepsContents DEF UnitInv, TypeOK
<1>3. TypeOK'
  BY <1>1, <1>2 DEF UnitInv, TypeOK, TxStates
<1>4. /\ tx'[c] = "none" /\ changes'[c] = <<>>
      /\ \A d \in Conn \ {c} : changes'[d] = changes[d] /\ tx'[d] = tx[d]
  BY <1>1 DEF UnitInv, TypeOK
<1>5. unit[c] = <<>>
  BY <1>1 DEF UnitInv, UnitsOK
<1>6. UnitsOK'
  BY <1>1, <1>4, <1>5 DEF UnitInv, UnitsOK, Open
<1>7. ReplicaOK'
  <2>. SUFFICES ASSUME ~overlapped PROVE (\A d \in Conn : tx'[d] # "committing") /\ replica' = published'
    BY <1>1 DEF ReplicaOK
  <2>. QED  BY <1>1, <1>4 DEF UnitInv, ReplicaOK
<1>. QED  BY <1>3, <1>6, <1>7

LEMMA DeleteKeeps ==
  ASSUME UnitInv, NEW c \in Conn, Delete(c)
  PROVE  TypeOK' /\ UnitsOK' /\ ReplicaOK'
<1>1. /\ deleted' \subseteq Conn /\ terminated' \in BOOLEAN
      /\ UNCHANGED <<changes, replica, made>>
  BY DEF Delete, UnitInv, TypeOK
<1>2. CASE Open(c)
  BY <1>1, <1>2, PublishKeeps DEF Delete
<1>3. CASE ~Open(c)
  <2>1. UNCHANGED <<published, working, current, tx, overlapped, unit>>
    BY <1>3 DEF Delete, store
  <2>. QED  BY <1>1, <2>1 DEF UnitInv, TypeOK, UnitsOK, Open, ReplicaOK
<1>. QED  BY <1>2, <1>3

LEMMA UnitStep == UnitInv /\ [Next]_vars => UnitInv'
<1>. SUFFICES ASSUME UnitInv, [Next]_vars PROVE TypeOK' /\ UnitsOK' /\ ReplicaOK'
  BY UnitInvHasCurrent, CurrentStep DEF UnitInv, CurrentInv
<1>0. {"returns", "throws", "abandons"} \subseteq Outcomes
  BY DEF Outcomes
<1>1. ASSUME NEW c \in Conn, NEW t \in Triple \cup {Incomplete}, AddTriple(c, t) \/ RemoveTriple(c, t)
      PROVE  TypeOK' /\ UnitsOK' /\ ReplicaOK'
  <2>1. <<[op |-> "add", t |-> t]>> \in Seq(Change) /\ <<[op |-> "remove", t |-> t]>> \in Seq(Change)
    <3>1. [op |-> "add", t |-> t] \in Change /\ [op |-> "remove", t |-> t] \in Change
      BY DEF Change
    <3>. QED  BY <3>1
  <2>. QED  BY <1>0, <1>1, <2>1, ModifyKeeps DEF AddTriple, RemoveTriple
<1>2. ASSUME NEW c \in Conn, NEW P \in SUBSET Triple, RemoveMatching(c, P) \/ AddBlankNode(c)
      PROVE  TypeOK' /\ UnitsOK' /\ ReplicaOK'
  <2>1. working \cap P \in Contents
    BY FS_Subset DEF UnitInv, TypeOK, Contents
  <2>2. RemoveAll(working \cap P) \in Seq(Change) /\ <<>> \in Seq(Change)
    BY <2>1, AddAllIsSeq
  <2>. QED  BY <1>0, <1>2, <2>2, ModifyKeeps DEF RemoveMatching, AddBlankNode
<1>3. ASSUME NEW c \in Conn, NEW cs \in ChangeSets, ApplyChanges(c, cs) \/ RevertChanges(c, cs)
      PROVE  TypeOK' /\ UnitsOK' /\ ReplicaOK'
  <2>1. \A a, b \in Change : <<a, b>> \in Seq(Change)
    OBVIOUS
  <2>2. cs \in Seq(Change)
    <3>1. PICK a \in Change, b \in Change : cs = <<a, b>>
      BY DEF ChangeSets
    <3>. QED  BY <2>1, <3>1
  <2>3. Inverted(cs) \in Seq(Change)
    BY <2>2, InvertedIsSeq
  <2>. QED  BY <1>0, <1>3, <2>2, <2>3, ModifyKeeps DEF ApplyChanges, RevertChanges
<1>4. ASSUME NEW c \in Conn, NEW S \in Contents, Import(c, S) \/ ImportOrFail(c, S)
      PROVE  TypeOK' /\ UnitsOK' /\ ReplicaOK'
  BY <1>0, <1>4, AddAllIsSeq, ModifyKeeps DEF Import, ImportOrFail
<1>5. ASSUME NEW c \in Conn, Commit(c) PROVE TypeOK' /\ UnitsOK' /\ ReplicaOK'
  <2>1. deleted' \subseteq Conn /\ terminated' \in BOOLEAN
    BY <1>5 DEF Commit, UnitInv, TypeOK
  <2>. QED  BY <1>5, <2>1, PublishKeeps DEF Commit
<1>6. CASE UNCHANGED vars
  BY <1>6 DEF vars, store, UnitInv, TypeOK, UnitsOK, Open, ReplicaOK
<1>. QED
  BY <1>1, <1>2, <1>3, <1>4, <1>5, <1>6, DiscardKeeps, AnnounceKeeps, DeleteKeeps DEF Next

LEMMA UnitInit == Init => UnitInv
<1>. SUFFICES ASSUME Init PROVE UnitInv
  OBVIOUS
<1>1. <<>> \in Seq(CompleteChange) /\ 0 \in 0..MaxChanges
  BY ConnectionConstants
<1>2. TypeOK
  BY <1>1 DEF Init, TypeOK, TxStates
<1>. QED
  BY <1>2, ConnectionConstants DEF Init, UnitInv, UnitsOK, ReplicaOK, CurrentIsTheOpenOne, Open

LEMMA UnitInvariant == Spec => []UnitInv
  BY UnitInit, UnitStep, PTL DEF Spec

\* Contents stay finite sets of complete triples, and what transactions record are
\* changes of complete triples: a change that the store throws for is not recorded.
THEOREM TypesAreKept == Spec => []TypeOK
  BY UnitInvariant, PTL DEF UnitInv

LEMMA ReadsFollow == UnitInv => ReadsSeeTheUnitOfWork
<1>. SUFFICES ASSUME UnitInv, NEW c \in Conn, tx[c] \in {"none", "open"}
              PROVE  GetStore(c) = Applied(published, unit[c])
  BY DEF ReadsSeeTheUnitOfWork
<1>. QED  BY AppliedEmpty DEF UnitInv, UnitsOK, Open, GetStore

\* Whatever the connections do, one without a transaction reads what is published,
\* and one that has one reads the published contents with all that it changed
\* since (getStore, start and the writes).
THEOREM ReadsAreOfTheUnitOfWork == Spec => []ReadsSeeTheUnitOfWork
  BY UnitInvariant, ReadsFollow, PTL

\* A client that applies the change sets as they are signalled keeps up with any
\* run in which no commit comes between another and its signal (commit and
\* commitAndObtain).
THEOREM ReplicasKeepUp == Spec => []ReplicasFollow
<1>1. UnitInv => ReplicasFollow
  BY DEF UnitInv, ReplicaOK, ReplicasFollow
<1>. QED  BY <1>1, UnitInvariant, PTL

\* Only a commit changes what is published, by commit or the destructor, and what it
\* publishes is the unit of work of its connection.
LEMMA PublishingStep ==
  UnitInv /\ [Next]_vars =>
    [published' # published =>
        \E c \in Conn : tx'[c] = "committing" /\ published' = Applied(published, unit[c])]_vars
<1>. SUFFICES ASSUME UnitInv, Next, published' # published
              PROVE  \E c \in Conn : tx'[c] = "committing" /\ published' = Applied(published, unit[c])
  OBVIOUS
<1>1. ASSUME NEW c \in Conn, NEW todo, NEW onRefusal, Modify(c, todo, onRefusal) PROVE FALSE
  BY <1>1 DEF Modify, Discard
<1>2. PICK c \in Conn : Open(c) /\ Publish(c)
  BY <1>1 DEF Next, AddTriple, RemoveTriple, RemoveMatching, ApplyChanges, RevertChanges, Import,
              ImportOrFail, AddBlankNode, ReadThrows, Discard, Commit, Announce, Rollback, Delete, store
<1>3. tx'[c] = "committing" /\ published' = working
  BY <1>2 DEF Publish, UnitInv, TypeOK
<1>. QED  BY <1>2, <1>3 DEF UnitInv, UnitsOK

\* No run of commits publishes part of a unit of work, or a change that is not in it.
THEOREM CommitsPublishUnits == Spec => CommitsPublishWholeUnits
  BY UnitInvariant, PublishingStep, PTL DEF Spec, CommitsPublishWholeUnits

================================================================================
