-------------------------- MODULE PropertyObjectProofs --------------------------
(* Proofs about PropertyObject: its types, and that the cache of a               *)
(* CacheingPropertyObject is exact unless somebody disturbed it, and that a write *)
(* replaces what was there, whatever objects, names and values there are.        *)
EXTENDS PropertyObject, TLAPS

-------------------------------------------------------------------------------
(* Lemmas on the helpers.                                                       *)

\* A call in progress is told from none by its stage.
LEMMA CallsAreNotIdle == ASSUME NEW c \in Calls PROVE c # Idle
  BY DEF Calls, Idle

\* A name stands for a URI of the model.
LEMMA PropertyUriType ==
  ASSUME NEW o \in Object, NEW name \in Name
  PROVE  PropertyUri(o, name) \in Uri
<1>1. CASE name = BareName("a")
  BY <1>1 DEF PropertyUri, Uri, TypeUri
<1>2. CASE name # BareName("a")
  <2>1. name \in [ns : Namespace \cup {NoPrefix}, local : Local]
    BY <1>2 DEF Name
  <2>2. Upfx(o) \in Namespace
    BY ObjectsAreWellFormed DEF Upfx
  <2>3. CASE name.ns = NoPrefix
    BY <1>2, <2>1, <2>2, <2>3 DEF PropertyUri, Uri
  <2>4. CASE name.ns # NoPrefix
    <3>1. PropertyUri(o, name) = name
      BY <1>2, <2>4 DEF PropertyUri
    <3>2. name \in [ns : Namespace, local : Local]
      BY <2>1, <2>4
    <3>. QED  BY <3>1, <3>2 DEF Uri
  <2>. QED  BY <2>3, <2>4
<1>. QED  BY <1>1, <1>2

\* Marking calls as contended leaves calls calls, and everything but the mark.
LEMMA ContendType ==
  ASSUME NEW calls \in [Object -> {Idle} \cup Calls], NEW actor, NEW uri
  PROVE  Contend(calls, actor, uri) \in [Object -> {Idle} \cup Calls]
<1>. SUFFICES ASSUME NEW o \in Object
              PROVE  (IF o # actor /\ calls[o] # Idle /\ calls[o].uri = uri
                      THEN [calls[o] EXCEPT !.contended = TRUE] ELSE calls[o])
                        \in {Idle} \cup Calls
  BY DEF Contend
<1>1. CASE o # actor /\ calls[o] # Idle /\ calls[o].uri = uri
  <2>1. calls[o] \in Calls
    BY <1>1
  <2>2. [calls[o] EXCEPT !.contended = TRUE] \in Calls
    BY <2>1 DEF Calls
  <2>. QED  BY <1>1, <2>2
<1>2. CASE ~(o # actor /\ calls[o] # Idle /\ calls[o].uri = uri)
  BY <1>2
<1>. QED  BY <1>1, <1>2

\* The store that an object uses is one of the two.
LEMMA GetStoreType ==
  ASSUME NEW o, NEW given \in {"none", "transaction"}
  PROVE  GetStore(o, given) \in {"store", "transaction"}
  BY DEF GetStore

LEMMA ContentsType ==
  ASSUME TypeOK, NEW target
  PROVE  Contents(target) \subseteq Triple
  BY DEF TypeOK, Contents

LEMMA PutType ==
  ASSUME TypeOK, NEW target, NEW c \in SUBSET Triple, Put(target, c)
  PROVE  /\ published' \subseteq Triple /\ working' \subseteq Triple
         /\ tx' \in {"none", "open", "dead"}
  BY DEF TypeOK, Put

LEMMA DisturbType ==
  ASSUME TypeOK, NEW actor, Disturb(actor)
  PROVE  disturbed' \in [Cacheing -> SUBSET Reasons]
  BY DEF TypeOK, Disturb, Reasons

-------------------------------------------------------------------------------
(* Types.                                                                       *)

LEMMA BeginWriteType ==
  ASSUME TypeOK, NEW o \in Object, NEW name \in Name, NEW values \in SUBSET Node,
         NEW given \in {"none", "transaction"}, BeginWrite(o, name, values, given)
  PROVE  TypeOK'
<1>. DEFINE target == GetStore(o, given)
            uri == PropertyUri(o, name)
            contended == \E p \in Object \ {o} : call[p] # Idle /\ call[p].uri = uri
            new == [stage |-> "adding", uri |-> uri, rest |-> values, target |-> target,
                    wanted |-> values \ {Nothing}, contended |-> contended]
<1>1. Put(target, RemoveAll(Contents(target), uri)) /\ Disturb(o)
  BY DEF BeginWrite
<1>2. RemoveAll(Contents(target), uri) \in SUBSET Triple
  BY ContentsType DEF RemoveAll
<1>3. /\ published' \subseteq Triple /\ working' \subseteq Triple
      /\ tx' \in {"none", "open", "dead"}
  BY <1>1, <1>2, PutType
<1>4. new \in Calls
  <2>1. uri \in Uri
    BY PropertyUriType
  <2>2. target \in {"store", "transaction"}
    BY GetStoreType
  <2>3. values \ {Nothing} \in SUBSET Value
    BY DEF Node
  <2>4. contended \in BOOLEAN
    OBVIOUS
  <2>. HIDE DEF target, uri, contended
  <2>. QED  BY <2>1, <2>2, <2>3, <2>4 DEF Calls
<1>5. Contend(call, o, uri) \in [Object -> {Idle} \cup Calls]
  BY ContendType DEF TypeOK
<1>6. call' = [Contend(call, o, uri) EXCEPT ![o] = new]
  BY DEF BeginWrite
<1>7. call' \in [Object -> {Idle} \cup Calls]
  <2>. HIDE DEF new, uri
  <2>. QED  BY <1>4, <1>5, <1>6
<1>8. disturbed' \in [Cacheing -> SUBSET Reasons]
  BY <1>1, DisturbType
<1>9. UNCHANGED <<onTransaction, cached, cache>>
  BY DEF BeginWrite
<1>. QED  BY <1>3, <1>7, <1>8, <1>9 DEF TypeOK

LEMMA AddValueType ==
  ASSUME TypeOK, NEW o \in Object, AddValue(o)
  PROVE  TypeOK'
<1>. DEFINE c == call[o]
<1>1. PICK v \in c.rest \ {Nothing} :
          /\ Put(c.target, Contents(c.target) \cup {[uri |-> c.uri, value |-> v]})
          /\ call' = [Contend(call, o, c.uri) EXCEPT ![o].rest = @ \ {v}]
  BY DEF AddValue
<1>2. c \in Calls
  BY DEF AddValue, TypeOK
<1>3. [uri |-> c.uri, value |-> v] \in Triple
  BY <1>2 DEF Calls, Triple, Node
<1>4. /\ published' \subseteq Triple /\ working' \subseteq Triple
      /\ tx' \in {"none", "open", "dead"}
  BY <1>1, <1>3, ContentsType, PutType
<1>5. Contend(call, o, c.uri) \in [Object -> {Idle} \cup Calls]
  BY ContendType DEF TypeOK
<1>6. Contend(call, o, c.uri)[o] = c
  BY DEF Contend
<1>7. [c EXCEPT !.rest = @ \ {v}] \in Calls
  BY <1>2 DEF Calls
<1>8. call' \in [Object -> {Idle} \cup Calls]
  BY <1>1, <1>5, <1>6, <1>7
<1>9. disturbed' \in [Cacheing -> SUBSET Reasons]
  BY DisturbType DEF AddValue
<1>. QED  BY <1>4, <1>8, <1>9 DEF TypeOK, AddValue

LEMMA AddThrowsType ==
  ASSUME TypeOK, NEW o \in Object, AddThrows(o)
  PROVE  TypeOK'
<1>1. tx' \in {"none", "open", "dead"} /\ working' \subseteq Triple
  BY DEF AddThrows, TypeOK
<1>2. call' \in [Object -> {Idle} \cup Calls]
  BY DEF AddThrows, TypeOK
<1>3. disturbed' \in [Cacheing -> SUBSET Reasons]
  BY DEF AddThrows, TypeOK, Reasons
<1>. QED  BY <1>1, <1>2, <1>3 DEF AddThrows, TypeOK

LEMMA ReturnType ==
  ASSUME TypeOK, NEW o \in Object, Return(o)
  PROVE  TypeOK'
<1>1. call' \in [Object -> {Idle} \cup Calls]
  BY DEF Return, TypeOK
<1>2. /\ cached' \in [Cacheing -> BOOLEAN]
      /\ cache' \in [Cacheing -> SUBSET Triple]
      /\ disturbed' \in [Cacheing -> SUBSET Reasons]
  BY DEF Return, Invalidate, TypeOK
<1>. QED  BY <1>1, <1>2 DEF Return, TypeOK

\* The type invariant is inductive.
LEMMA TypeStep == TypeOK /\ [Next]_vars => TypeOK'
<1>. SUFFICES ASSUME TypeOK, [Next]_vars PROVE TypeOK'
  OBVIOUS
<1>1. ASSUME NEW o \in Object, SetProperty(o) PROVE TypeOK'
  <2>1. PICK name \in Name, v \in Node, given \in GivenTo(o) :
             BeginWrite(o, name, {v}, given)
    BY <1>1 DEF SetProperty
  <2>. QED  BY <2>1, BeginWriteType DEF GivenTo
<1>2. ASSUME NEW o \in Object, SetPropertyList(o) PROVE TypeOK'
  <2>1. PICK name \in Name, values \in SUBSET Node, given \in GivenTo(o) :
             BeginWrite(o, name, values, given)
    BY <1>2 DEF SetPropertyList
  <2>. QED  BY <2>1, BeginWriteType DEF GivenTo
<1>3. ASSUME NEW o \in Object, RemoveProperty(o) PROVE TypeOK'
  <2>1. PICK name \in Name, given \in GivenTo(o) : BeginWrite(o, name, {}, given)
    BY <1>3 DEF RemoveProperty
  <2>. QED  BY <2>1, BeginWriteType DEF GivenTo
<1>4. ASSUME NEW o \in Cacheing, Encache(o) PROVE TypeOK'
  <2>1. CachedView(o) \in SUBSET Triple
    BY ContentsType DEF CachedView
  <2>. QED  BY <1>4, <2>1 DEF Encache, TypeOK
<1>5. CASE Commit
  BY <1>5, DisturbType DEF Commit, TypeOK
<1>6. CASE Rollback
  BY <1>6, DisturbType DEF Rollback, TypeOK
<1>7. CASE UNCHANGED vars
  BY <1>7 DEF vars, TypeOK
<1>. QED
  BY <1>1, <1>2, <1>3, <1>4, <1>5, <1>6, <1>7, AddValueType, AddThrowsType, ReturnType
  DEF Next

LEMMA TypeInit == Init => TypeOK
<1>. SUFFICES ASSUME Init PROVE TypeOK
  OBVIOUS
<1>1. published \subseteq Triple
  BY DEF Init, Triple, Uri, TypeUri, Value
<1>2. onTransaction \subseteq Cacheing /\ working \subseteq Triple
  BY DEF Init
<1>. QED  BY <1>1, <1>2 DEF Init, TypeOK

\* Every variable keeps its type: names become URIs of the model, and a call in
\* progress is one that a method began (PropertyObject's state).
THEOREM TypesAreKept == Spec => []TypeOK
  BY TypeInit, TypeStep, PTL DEF Spec

-------------------------------------------------------------------------------
(* The cache.                                                                   *)

\* A cache that nothing is noted against holds what its object sees in the
\* store, while the object has no write in progress.
CacheInv ==
    \A o \in Cacheing :
        call[o] = Idle /\ cached[o] /\ disturbed[o] = {} => cache[o] = CachedView(o)

\* Contend only marks: who is idle stays so, and nobody else becomes so.
LEMMA ContendKeepsIdle ==
  ASSUME NEW calls \in [Object -> {Idle} \cup Calls], NEW actor, NEW uri, NEW o \in Object
  PROVE  Contend(calls, actor, uri)[o] = Idle <=> calls[o] = Idle
<1>1. CASE o # actor /\ calls[o] # Idle /\ calls[o].uri = uri
  <2>1. [calls[o] EXCEPT !.contended = TRUE] \in Calls
    BY <1>1 DEF Calls
  <2>2. Contend(calls, actor, uri)[o] = [calls[o] EXCEPT !.contended = TRUE]
    BY <1>1 DEF Contend
  <2>. QED  BY <1>1, <2>1, <2>2, CallsAreNotIdle
<1>2. CASE ~(o # actor /\ calls[o] # Idle /\ calls[o].uri = uri)
  BY <1>2 DEF Contend
<1>. QED  BY <1>1, <1>2

\* A step that notes whom it disturbs keeps the cache of everybody else exact.
LEMMA DisturbKeepsExact ==
  ASSUME TypeOK, CacheInv, NEW actor, Disturb(actor), UNCHANGED <<cached, cache>>,
         \A o \in Cacheing : o # actor /\ call'[o] = Idle => call[o] = Idle,
         actor \in Cacheing => call'[actor] # Idle
  PROVE  CacheInv'
<1>. SUFFICES ASSUME NEW o \in Cacheing, call'[o] = Idle, cached'[o], disturbed'[o] = {}
              PROVE  cache'[o] = CachedView(o)'
  BY DEF CacheInv
<1>1. o # actor /\ call[o] = Idle /\ cached[o]
  OBVIOUS
<1>2. CachedView(o)' = CachedView(o)
  BY <1>1 DEF Disturb
<1>3. disturbed[o] = {}
  BY <1>1, <1>2 DEF Disturb
<1>. QED  BY <1>1, <1>2, <1>3 DEF CacheInv

LEMMA BeginWriteKeepsExact ==
  ASSUME TypeOK, CacheInv, NEW o \in Object, NEW name \in Name, NEW values \in SUBSET Node,
         NEW given \in {"none", "transaction"}, BeginWrite(o, name, values, given)
  PROVE  CacheInv'
<1>. DEFINE uri == PropertyUri(o, name)
            marked == Contend(call, o, uri)
<1>1. marked \in [Object -> {Idle} \cup Calls]
  BY ContendType DEF TypeOK
<1>2. call'[o].stage = "adding" /\ \A p \in Object \ {o} : call'[p] = marked[p]
  BY <1>1 DEF BeginWrite
<1>3. call'[o] # Idle
  BY <1>2 DEF Idle
<1>4. \A p \in Object \ {o} : call'[p] = Idle <=> call[p] = Idle
  BY <1>2, ContendKeepsIdle DEF TypeOK
<1>5. \A p \in Cacheing : p \in Object
  BY ObjectsAreWellFormed
<1>. QED  BY <1>3, <1>4, <1>5, DisturbKeepsExact DEF BeginWrite

LEMMA AddValueKeepsExact ==
  ASSUME TypeOK, CacheInv, NEW o \in Object, AddValue(o)
  PROVE  CacheInv'
<1>. DEFINE marked == Contend(call, o, call[o].uri)
<1>1. PICK v : call' = [marked EXCEPT ![o].rest = @ \ {v}]
  BY DEF AddValue
<1>2. marked \in [Object -> {Idle} \cup Calls]
  BY ContendType DEF TypeOK
<1>3. call[o] \in Calls /\ marked[o] = call[o]
  BY DEF TypeOK, AddValue, Contend
<1>4. /\ call'[o] = [call[o] EXCEPT !.rest = @ \ {v}]
      /\ \A p \in Object \ {o} : call'[p] = marked[p]
  BY <1>1, <1>2, <1>3
<1>5. call'[o] # Idle
  BY <1>3, <1>4 DEF Calls, Idle
<1>6. \A p \in Object \ {o} : call'[p] = Idle <=> call[p] = Idle
  BY <1>4, ContendKeepsIdle DEF TypeOK
<1>7. \A p \in Cacheing : p \in Object
  BY ObjectsAreWellFormed
<1>. QED  BY <1>5, <1>6, <1>7, DisturbKeepsExact DEF AddValue

\* An exception changes the view of the transaction only.
LEMMA AddThrowsKeepsExact ==
  ASSUME TypeOK, CacheInv, NEW o \in Object, AddThrows(o)
  PROVE  CacheInv'
<1>. SUFFICES ASSUME NEW p \in Cacheing, call'[p] = Idle, cached'[p], disturbed'[p] = {}
              PROVE  cache'[p] = CachedView(p)'
  BY DEF CacheInv
<1>1. p # o /\ cached[p] /\ disturbed[p] = {} /\ ~(tx' # tx /\ GetStore(p, "none") = "transaction")
  BY DEF AddThrows
<1>2. call[p] = Idle
  BY <1>1, ObjectsAreWellFormed DEF AddThrows, TypeOK
<1>3. CachedView(p)' = CachedView(p)
  <2>1. CASE GetStore(p, "none") = "store"
    BY <2>1 DEF AddThrows, CachedView, Contents, GetStore
  <2>2. CASE GetStore(p, "none") = "transaction" /\ tx' = tx
    BY <2>2 DEF AddThrows, CachedView, Contents, GetStore
  <2>. QED  BY <1>1, <2>1, <2>2, GetStoreType
<1>. QED  BY <1>1, <1>2, <1>3 DEF CacheInv, AddThrows

\* A write that returns leaves no cache to its own object.
LEMMA ReturnKeepsExact ==
  ASSUME TypeOK, CacheInv, NEW o \in Object, Return(o)
  PROVE  CacheInv'
<1>. SUFFICES ASSUME NEW p \in Cacheing, call'[p] = Idle, cached'[p], disturbed'[p] = {}
              PROVE  cache'[p] = CachedView(p)'
  BY DEF CacheInv
<1>1. p # o
  BY DEF Return, Invalidate, TypeOK
<1>2. /\ call[p] = Idle /\ cached[p] /\ disturbed[p] = {} /\ cache'[p] = cache[p]
  BY <1>1, ObjectsAreWellFormed DEF Return, Invalidate, TypeOK
<1>3. CachedView(p)' = CachedView(p)
  BY DEF Return, CachedView, Contents, GetStore
<1>. QED  BY <1>2, <1>3 DEF CacheInv

LEMMA EncacheKeepsExact ==
  ASSUME TypeOK, CacheInv, NEW o \in Cacheing, Encache(o)
  PROVE  CacheInv'
<1>. SUFFICES ASSUME NEW p \in Cacheing, call'[p] = Idle, cached'[p], disturbed'[p] = {}
              PROVE  cache'[p] = CachedView(p)'
  BY DEF CacheInv
<1>1. CachedView(p)' = CachedView(p)
  BY DEF Encache, CachedView, Contents, GetStore
<1>2. CASE p = o
  BY <1>1, <1>2 DEF Encache, TypeOK
<1>3. CASE p # o
  BY <1>1, <1>3 DEF Encache, TypeOK, CacheInv
<1>. QED  BY <1>2, <1>3

LEMMA CacheStep == TypeOK /\ CacheInv /\ [Next]_vars => CacheInv'
<1>. SUFFICES ASSUME TypeOK, CacheInv, [Next]_vars PROVE CacheInv'
  OBVIOUS
<1>1. ASSUME NEW o \in Object, SetProperty(o) PROVE CacheInv'
  <2>1. PICK name \in Name, v \in Node, given \in GivenTo(o) :
             BeginWrite(o, name, {v}, given)
    BY <1>1 DEF SetProperty
  <2>. QED  BY <2>1, BeginWriteKeepsExact DEF GivenTo
<1>2. ASSUME NEW o \in Object, SetPropertyList(o) PROVE CacheInv'
  <2>1. PICK name \in Name, values \in SUBSET Node, given \in GivenTo(o) :
             BeginWrite(o, name, values, given)
    BY <1>2 DEF SetPropertyList
  <2>. QED  BY <2>1, BeginWriteKeepsExact DEF GivenTo
<1>3. ASSUME NEW o \in Object, RemoveProperty(o) PROVE CacheInv'
  <2>1. PICK name \in Name, given \in GivenTo(o) : BeginWrite(o, name, {}, given)
    BY <1>3 DEF RemoveProperty
  <2>. QED  BY <2>1, BeginWriteKeepsExact DEF GivenTo
<1>4. ASSUME Commit \/ Rollback PROVE CacheInv'
  <2>1. "transaction" \notin Cacheing
    BY ObjectsAreWellFormed, TransactionIsNoObject
  <2>2. Disturb("transaction") /\ UNCHANGED <<cached, cache, call>>
    BY <1>4 DEF Commit, Rollback
  <2>. QED  BY <2>1, <2>2, DisturbKeepsExact
<1>5. CASE UNCHANGED vars
  BY <1>5 DEF vars, CacheInv, CachedView, Contents, GetStore
<1>. QED
  BY <1>1, <1>2, <1>3, <1>4, <1>5, AddValueKeepsExact, AddThrowsKeepsExact,
     ReturnKeepsExact, EncacheKeepsExact
  DEF Next

\* An object that answers from what the store would show answers like the store.
LEMMA ExactAnswersAgree ==
  ASSUME TypeOK, NEW o \in Cacheing, Encached(o) = Contents(GetStore(o, "none"))
  PROVE  AgreesWithStore(o)
<1>. DEFINE C == Contents(GetStore(o, "none"))
<1>1. ASSUME NEW name \in Name
      PROVE  /\ CachedHasProperty(o, name) = HasProperty(o, name, "none")
             /\ CachedGetProperty(o, name) = GetProperty(o, name, "none")
             /\ CachedGetPropertyList(o, name) = GetPropertyList(o, name, "none")
  BY DEF CachedHasProperty, HasProperty, CachedGetProperty, GetProperty,
         CachedGetPropertyList, GetPropertyList
<1>2. ASSUME "throws" \notin GetObjectType(o, "none")
      PROVE  CachedGetObjectType(o) = GetObjectType(o, "none")
  <2>. DEFINE types == OneOf(ValuesIn(C, TypeUri))
  <2>1. \A v \in types : v \notin Literal
    BY <1>2 DEF GetObjectType
  <2>. HIDE DEF types
  <2>2. {IF v \in Literal THEN "throws" ELSE v : v \in types}
          = {IF v \in Literal THEN Nothing ELSE v : v \in types}
    BY <2>1
  <2>. QED  BY <2>2 DEF types, CachedGetObjectType, GetObjectType
<1>3. ASSUME o \notin Abbreviated, NEW n \in Local \ {"a"}
      PROVE  CachedHasProperty(o, BareName(n)) <=> n \in GetPropertyNames(o, "none")
  <2>. DEFINE u == [ns |-> Prefix[o], local |-> n]
  <2>1. PropertyUri(o, BareName(n)) = u
    BY <1>3 DEF PropertyUri, BareName, Upfx
  <2>2. CachedHasProperty(o, BareName(n)) <=> \E t \in C : t.uri = u
    BY <2>1 DEF CachedHasProperty, ValuesIn
  <2>3. n \in GetPropertyNames(o, "none")
          <=> \E t \in C : t.uri.ns = Prefix[o] /\ t.uri.local = n
    BY <1>3 DEF GetPropertyNames, StartsWithPrefix
  <2>4. Prefix[o] # RdfType
    BY ObjectsAreWellFormed
  <2>5. ASSUME NEW t \in C
        PROVE  t.uri = u <=> t.uri.ns = Prefix[o] /\ t.uri.local = n
    <3>1. t.uri \in Uri
      BY <2>5, ContentsType DEF Triple
    <3>2. CASE t.uri \in [ns : Namespace, local : Local]
      BY <3>2
    <3>3. CASE t.uri = [ns |-> RdfType, local |-> "type"]
      BY <2>4, <3>3
    <3>. QED  BY <3>1, <3>2, <3>3 DEF Uri
  <2>. QED  BY <2>2, <2>3, <2>5
<1>. QED  BY <1>1, <1>2, <1>3 DEF AgreesWithStore

LEMMA CacheInvSuffices == TypeOK /\ CacheInv => CacheIsExactUnlessDisturbed
<1>. SUFFICES ASSUME TypeOK, CacheInv, NEW o \in Cacheing, Usable(o), disturbed[o] = {}
              PROVE  AgreesWithStore(o)
  BY DEF CacheIsExactUnlessDisturbed
<1>1. Encached(o) = Contents(GetStore(o, "none"))
  BY DEF Usable, CacheInv, Encached, CachedView
<1>. QED  BY <1>1, ExactAnswersAgree

\* What a CacheingPropertyObject answers from its cache is what the store would
\* answer, unless others changed it since or a write of its own threw
\* (CacheingPropertyObject's encache and m_cached).
THEOREM CacheExactness == Spec => []CacheIsExactUnlessDisturbed
<1>1. Init => CacheInv
  BY DEF Init, CacheInv
<1>. QED  BY <1>1, TypeInit, TypeStep, CacheStep, CacheInvSuffices, PTL DEF Spec

-------------------------------------------------------------------------------
(* Writes.                                                                      *)

RunsAlone(o) == \A p \in Object \ {o} : call[p] # Idle => call[p].target = "store"

\* The values that a call has still to add make up, with those that are there,
\* the ones that were wanted, in the store and in a transaction that was begun
\* since; and a transaction is used by one call at a time, which holds it open.
Progress(o) ==
    LET c == call[o] IN
    /\ c.target = "transaction" => tx = "open" /\ RunsAlone(o)
    /\ ~c.contended =>
          /\ ValuesIn(Contents(c.target), c.uri) \cup (c.rest \ {Nothing}) = c.wanted
          /\ c.target = "store" /\ tx = "open" =>
                ValuesIn(working, c.uri) = ValuesIn(published, c.uri)
ActiveInv == \A o \in Object : call[o] # Idle => Progress(o)

\* What Contend does to the call of another object.
LEMMA ContendMarks ==
  ASSUME NEW calls \in [Object -> {Idle} \cup Calls], NEW actor, NEW uri,
         NEW o \in Object \ {actor}, calls[o] # Idle
  PROVE  LET c == Contend(calls, actor, uri)[o] IN
         /\ c.target = calls[o].target /\ c.contended \in BOOLEAN
         /\ ~c.contended => c = calls[o] /\ calls[o].uri # uri
<1>1. calls[o] \in Calls
  OBVIOUS
<1>2. CASE calls[o].uri = uri
  <2>1. Contend(calls, actor, uri)[o] = [calls[o] EXCEPT !.contended = TRUE]
    BY <1>2 DEF Contend
  <2>2. /\ [calls[o] EXCEPT !.contended = TRUE].contended = TRUE
        /\ [calls[o] EXCEPT !.contended = TRUE].target = calls[o].target
    BY <1>1 DEF Calls
  <2>. QED  BY <2>1, <2>2
<1>3. CASE calls[o].uri # uri
  <2>1. Contend(calls, actor, uri)[o] = calls[o]
    BY <1>3 DEF Contend
  <2>2. calls[o].contended \in BOOLEAN
    BY <1>1 DEF Calls
  <2>. QED  BY <1>3, <2>1, <2>2
<1>. QED  BY <1>2, <1>3

\* While one call writes, the others are on the store.
LEMMA OthersAreOnTheStore ==
  ASSUME TypeOK, ActiveInv, NEW o \in Object, NEW target \in {"store", "transaction"},
         Writable(target), target = "transaction" => RunsAlone(o),
         NEW p \in Object \ {o}, call[p] # Idle
  PROVE  call[p].target = "store"
<1>1. call[p] \in Calls /\ Progress(p)
  BY DEF TypeOK, ActiveInv
<1>2. call[p].target = "transaction" => tx = "open"
  BY <1>1 DEF Progress
<1>3. call[p].target \in {"store", "transaction"}
  BY <1>1 DEF Calls
<1>. QED  BY <1>2, <1>3 DEF Writable, RunsAlone

\* A write to one property leaves the calls that write others in order.
LEMMA PutKeepsOthers ==
  ASSUME TypeOK, ActiveInv, NEW o \in Object, NEW target \in {"store", "transaction"},
         Writable(target), target = "transaction" => RunsAlone(o),
         NEW contents, Put(target, contents), NEW uri,
         \A u : u # uri => ValuesIn(contents, u) = ValuesIn(Contents(target), u),
         NEW p \in Object \ {o}, call'[p] = Contend(call, o, uri)[p], call'[p] # Idle
  PROVE  Progress(p)'
<1>1. call \in [Object -> {Idle} \cup Calls] /\ call[p] # Idle
  BY ContendKeepsIdle DEF TypeOK
<1>2. call[p].target = "store" /\ Progress(p)
  BY <1>1, OthersAreOnTheStore DEF ActiveInv
<1>3. /\ call'[p].target = "store"
      /\ ~call'[p].contended => call'[p] = call[p] /\ call[p].uri # uri
  BY <1>1, <1>2, ContendMarks
<1>4. ASSUME ~call'[p].contended
      PROVE  /\ ValuesIn(Contents("store"), call[p].uri)' \cup (call[p].rest \ {Nothing})
                   = call[p].wanted
             /\ tx' = "open" =>
                   ValuesIn(working', call[p].uri) = ValuesIn(published', call[p].uri)
  <2>. DEFINE u == call[p].uri
  <2>1. u # uri /\ call'[p] = call[p]
    BY <1>3, <1>4
  <2>2. /\ ValuesIn(published, u) \cup (call[p].rest \ {Nothing}) = call[p].wanted
        /\ tx = "open" => ValuesIn(working, u) = ValuesIn(published, u)
    BY <1>2, <1>4, <2>1 DEF Progress, Contents
  <2>3. ValuesIn(contents, u) = ValuesIn(Contents(target), u)
    BY <2>1
  <2>4. CASE target = "store"
    <3>1. published' = contents /\ tx' = tx /\ tx # "open"
      BY <2>4 DEF Put, Writable
    <3>2. ValuesIn(published', u) = ValuesIn(published, u)
      BY <2>3, <2>4, <3>1 DEF Contents
    <3>. QED  BY <2>1, <2>2, <3>1, <3>2 DEF Contents
  <2>5. CASE target = "transaction"
    <3>1. published' = published /\ working' = contents
      BY <2>5 DEF Put
    <3>2. ValuesIn(contents, u) = ValuesIn(published, u)
      BY <2>2, <2>3, <2>5 DEF Contents
    <3>. QED  BY <2>1, <2>2, <3>1, <3>2 DEF Contents
  <2>. QED  BY <2>4, <2>5
<1>. QED  BY <1>3, <1>4 DEF Progress

LEMMA BeginWriteProgress ==
  ASSUME TypeOK, ActiveInv, NEW o \in Object, NEW name \in Name, NEW values \in SUBSET Node,
         NEW given \in {"none", "transaction"}, BeginWrite(o, name, values, given)
  PROVE  ActiveInv'
<1>. DEFINE target == GetStore(o, given)
            uri == PropertyUri(o, name)
            marked == Contend(call, o, uri)
            contents == RemoveAll(Contents(target), uri)
<1>1. target \in {"store", "transaction"}
  BY GetStoreType
<1>2. Writable(target) /\ Put(target, contents)
  BY DEF BeginWrite
<1>3. target = "transaction" => RunsAlone(o)
  BY DEF BeginWrite, TransactionIdle, RunsAlone
<1>4. marked \in [Object -> {Idle} \cup Calls]
  BY ContendType DEF TypeOK
<1>5. /\ call'[o].target = target /\ call'[o].uri = uri /\ call'[o].rest = values
      /\ call'[o].wanted = values \ {Nothing}
      /\ \A p \in Object \ {o} : call'[p] = marked[p]
  BY <1>4 DEF BeginWrite
<1>6. \A u : u # uri => ValuesIn(contents, u) = ValuesIn(Contents(target), u)
  BY DEF ValuesIn, RemoveAll
<1>7. ASSUME NEW p \in Object \ {o}, call'[p] # Idle
      PROVE  Progress(p)'
  <2>. HIDE DEF target, uri, contents
  <2>. QED  BY <1>1, <1>2, <1>3, <1>5, <1>6, <1>7, PutKeepsOthers DEF uri
<1>8. Progress(o)'
  <2>1. ValuesIn(contents, uri) = {}
    BY DEF ValuesIn, RemoveAll
  <2>2. (IF target = "transaction" /\ tx' = "open" THEN working' ELSE published') = contents
    BY <1>1, <1>2 DEF Put
  <2>3. target = "store" => tx' # "open"
    BY <1>2 DEF Put, Writable
  <2>4. ASSUME target = "transaction" PROVE tx' = "open" /\ RunsAlone(o)'
    <3>1. tx' = "open"
      BY <1>2, <2>4 DEF Put
    <3>2. ASSUME NEW p \in Object \ {o}, call'[p] # Idle PROVE call'[p].target = "store"
      <4>1. call[p] # Idle
        BY <1>5, <3>2, ContendKeepsIdle DEF TypeOK
      <4>2. call'[p].target = call[p].target
        BY <1>5, <4>1, ContendMarks DEF TypeOK
      <4>. QED  BY <1>3, <2>4, <4>1, <4>2 DEF RunsAlone
    <3>. QED  BY <3>1, <3>2 DEF RunsAlone
  <2>5. (Contents(call[o].target))' = contents
    <3>. HIDE DEF target, contents
    <3>. QED  BY <1>5, <2>2 DEF Contents
  <2>. HIDE DEF target, uri, contents
  <2>. QED  BY <1>5, <2>1, <2>3, <2>4, <2>5 DEF Progress
<1>. QED  BY <1>7, <1>8 DEF ActiveInv

LEMMA AddValueProgress ==
  ASSUME TypeOK, ActiveInv, NEW o \in Object, AddValue(o)
  PROVE  ActiveInv'
<1>. DEFINE c == call[o]
            marked == Contend(call, o, c.uri)
<1>1. c \in Calls /\ Progress(o) /\ c # Idle
  BY DEF AddValue, TypeOK, ActiveInv
<1>2. PICK v \in c.rest \ {Nothing} :
          /\ Writable(c.target)
          /\ Put(c.target, Contents(c.target) \cup {[uri |-> c.uri, value |-> v]})
          /\ call' = [marked EXCEPT ![o].rest = @ \ {v}]
  BY DEF AddValue
<1>. DEFINE new == [uri |-> c.uri, value |-> v]
            contents == Contents(c.target) \cup {new}
<1>3. c.target \in {"store", "transaction"}
  BY <1>1 DEF Calls
<1>4. c.target = "transaction" => tx = "open" /\ RunsAlone(o)
  BY <1>1 DEF Progress
<1>5. marked \in [Object -> {Idle} \cup Calls]
  BY ContendType DEF TypeOK
<1>6. marked[o] = c
  BY DEF Contend
<1>7. /\ call'[o] = [c EXCEPT !.rest = @ \ {v}]
      /\ \A p \in Object \ {o} : call'[p] = marked[p]
  BY <1>2, <1>5, <1>6
<1>8. /\ call'[o].target = c.target /\ call'[o].uri = c.uri /\ call'[o].rest = c.rest \ {v}
      /\ call'[o].wanted = c.wanted /\ call'[o].contended = c.contended
  BY <1>1, <1>7 DEF Calls
<1>9. ASSUME NEW u, u # c.uri PROVE ValuesIn(contents, u) = ValuesIn(Contents(c.target), u)
  <2>1. {t \in contents : t.uri = u} = {t \in Contents(c.target) : t.uri = u}
    BY <1>9
  <2>. QED  BY <2>1 DEF ValuesIn
<1>10. ASSUME NEW p \in Object \ {o}, call'[p] # Idle
       PROVE  Progress(p)'
  <2>. HIDE DEF contents
  <2>1. Put(c.target, contents)
    BY <1>2 DEF contents
  <2>. QED  BY <1>2, <1>3, <1>4, <1>7, <1>9, <1>10, <2>1, PutKeepsOthers
<1>11. Progress(o)'
  <2>1. ValuesIn(contents, c.uri) = ValuesIn(Contents(c.target), c.uri) \cup {v}
    <3>1. {t \in contents : t.uri = c.uri} = {t \in Contents(c.target) : t.uri = c.uri} \cup {new}
      OBVIOUS
    <3>2. new.value = v
      OBVIOUS
    <3>. HIDE DEF contents, new
    <3>3. \A A : {t.value : t \in A \cup {new}} = {t.value : t \in A} \cup {v}
      BY <3>2
    <3>. QED  BY <3>1, <3>3 DEF ValuesIn
  <2>2. (Contents(call[o].target))' = contents
    BY <1>2, <1>3, <1>8 DEF Contents, Put
  <2>3. c.target = "store" => tx' # "open"
    BY <1>2 DEF Put, Writable
  <2>4. ASSUME c.target = "transaction" PROVE tx' = "open" /\ RunsAlone(o)'
    <3>1. tx' = "open"
      BY <1>2, <2>4 DEF Put
    <3>2. ASSUME NEW p \in Object \ {o}, call'[p] # Idle PROVE call'[p].target = "store"
      <4>1. call[p] # Idle
        BY <1>7, <3>2, ContendKeepsIdle DEF TypeOK
      <4>2. call'[p].target = call[p].target
        BY <1>7, <4>1, ContendMarks DEF TypeOK
      <4>. QED  BY <1>4, <2>4, <4>1, <4>2 DEF RunsAlone
    <3>. QED  BY <3>1, <3>2 DEF RunsAlone
  <2>5. ASSUME ~c.contended
        PROVE  ValuesIn(contents, c.uri) \cup ((c.rest \ {v}) \ {Nothing}) = c.wanted
    <3>. HIDE DEF contents
    <3>1. ValuesIn(Contents(c.target), c.uri) \cup (c.rest \ {Nothing}) = c.wanted
      BY <1>1, <2>5 DEF Progress
    <3>. QED  BY <1>2, <2>1, <3>1
  <2>. HIDE DEF contents
  <2>. QED  BY <1>8, <2>2, <2>3, <2>4, <2>5 DEF Progress
<1>. QED  BY <1>10, <1>11 DEF ActiveInv

\* A call that ends, by returning or by an exception, leaves the others in order.
LEMMA EndProgress ==
  ASSUME TypeOK, ActiveInv, NEW o \in Object, AddThrows(o) \/ Return(o)
  PROVE  ActiveInv'
<1>1. call[o] # Idle /\ call' = [call EXCEPT ![o] = Idle] /\ published' = published
  BY DEF AddThrows, Return
<1>. SUFFICES ASSUME NEW p \in Object, call'[p] # Idle PROVE Progress(p)'
  BY DEF ActiveInv
<1>2. p # o /\ call'[p] = call[p] /\ Progress(p)
  BY <1>1 DEF TypeOK, ActiveInv
<1>3. RunsAlone(p) => RunsAlone(p)'
  BY <1>1 DEF RunsAlone, TypeOK
<1>4. CASE UNCHANGED <<tx, working>>
  BY <1>1, <1>2, <1>3, <1>4 DEF Progress, Contents
<1>5. CASE call[o].target = "transaction" /\ tx' = "dead"
  <2>1. RunsAlone(o)
    BY <1>1, <1>5 DEF ActiveInv, Progress
  <2>2. call[p].target = "store"
    BY <1>2, <2>1 DEF RunsAlone
  <2>. QED  BY <1>1, <1>2, <1>5, <2>2 DEF Progress, Contents
<1>. QED  BY <1>4, <1>5 DEF AddThrows, Return

LEMMA ActiveStep == TypeOK /\ ActiveInv /\ [Next]_vars => ActiveInv'
<1>. SUFFICES ASSUME TypeOK, ActiveInv, [Next]_vars PROVE ActiveInv'
  OBVIOUS
<1>1. ASSUME NEW o \in Object, SetProperty(o) PROVE ActiveInv'
  <2>1. PICK name \in Name, v \in Node, given \in GivenTo(o) :
             BeginWrite(o, name, {v}, given)
    BY <1>1 DEF SetProperty
  <2>. QED  BY <2>1, BeginWriteProgress DEF GivenTo
<1>2. ASSUME NEW o \in Object, SetPropertyList(o) PROVE ActiveInv'
  <2>1. PICK name \in Name, values \in SUBSET Node, given \in GivenTo(o) :
             BeginWrite(o, name, values, given)
    BY <1>2 DEF SetPropertyList
  <2>. QED  BY <2>1, BeginWriteProgress DEF GivenTo
<1>3. ASSUME NEW o \in Object, RemoveProperty(o) PROVE ActiveInv'
  <2>1. PICK name \in Name, given \in GivenTo(o) : BeginWrite(o, name, {}, given)
    BY <1>3 DEF RemoveProperty
  <2>. QED  BY <2>1, BeginWriteProgress DEF GivenTo
<1>4. ASSUME Commit \/ Rollback PROVE ActiveInv'
  <2>1. call' = call /\ tx' = "none" /\ \A p \in Object : call[p] # Idle => call[p].target = "store"
    BY <1>4 DEF Commit, Rollback, TransactionIdle
  <2>2. ASSUME NEW p \in Object, call[p] # Idle, ~call[p].contended
        PROVE  ValuesIn(published', call[p].uri) = ValuesIn(published, call[p].uri)
    <3>1. CASE Commit
      BY <2>1, <2>2, <3>1 DEF Commit, ActiveInv, Progress
    <3>2. CASE Rollback
      BY <3>2 DEF Rollback
    <3>. QED  BY <1>4, <3>1, <3>2
  <2>. QED  BY <2>1, <2>2 DEF ActiveInv, Progress, Contents
<1>5. ASSUME UNCHANGED <<published, working, tx, call>> PROVE ActiveInv'
  BY <1>5 DEF ActiveInv, Progress, RunsAlone, Contents
<1>6. CASE UNCHANGED vars
  BY <1>5, <1>6 DEF vars
<1>7. ASSUME NEW o \in Cacheing, Encache(o) PROVE ActiveInv'
  BY <1>5, <1>7 DEF Encache
<1>. QED
  BY <1>1, <1>2, <1>3, <1>4, <1>6, <1>7, AddValueProgress, EndProgress DEF Next

\* A write that runs to its end, without another to the same property beside it,
\* replaces the property's values, whatever other calls and transactions come
\* between its steps (setProperty, setPropertyList and removeProperty).
THEOREM WritesReplace == Spec => WritesReplaceTheProperty
<1>1. Init => ActiveInv
  BY DEF Init, ActiveInv
<1>2. ActiveInv /\ [Next]_vars =>
          [\A o \in Object :
              LET c == call[o] IN
              c # Idle /\ c.rest = {} /\ ~c.contended /\ call'[o] = Idle
                  => ValuesIn(Contents(c.target), c.uri) = c.wanted]_vars
  BY DEF ActiveInv, Progress
<1>. QED
  BY <1>1, <1>2, TypeInit, TypeStep, ActiveStep, PTL DEF Spec, WritesReplaceTheProperty

================================================================================
