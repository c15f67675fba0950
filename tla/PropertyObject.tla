----------------------------- MODULE PropertyObject -----------------------------
(* PropertyObject and CacheingPropertyObject: the properties of one subject      *)
(* node, read and written by several objects, each used by a thread of its own.  *)
(*                                                                               *)
(* The store is reached directly or through a transaction (a Transaction, or a   *)
(* Connection that begins one at its first write).  A write is several calls on  *)
(* the store: one that removes the old values and one for each new value, with   *)
(* nothing that holds them together.                                             *)
EXTENDS Naturals, FiniteSets

CONSTANTS
    Object,         \* the property objects, all on the same node
    Cacheing,       \* those that are CacheingPropertyObjects
    Abbreviated,    \* those whose prefix was given in short form, as "myprops:"
    Prefix,         \* Prefix[o]: the namespace that object o's prefix expands to
    Local,          \* names as they follow a prefix
    Namespace,
    RdfType,        \* the namespace of the URI that "a" stands for
    UriValue,       \* complete nodes that are URIs
    Literal,        \* complete nodes that are literals
    Nothing,        \* Node(), which makes a triple that cannot be added
    MaxValues       \* bound on the values of a list, which are added in any order

ASSUME ObjectsAreWellFormed ==
    /\ Cacheing \subseteq Object /\ Abbreviated \subseteq Object
    /\ Prefix \in [Object -> Namespace]
    /\ RdfType \notin Namespace
    /\ UriValue \cap Literal = {} /\ Nothing \notin UriValue \cup Literal
    /\ MaxValues \in Nat \ {0}

\* "transaction" is what the steps of a transaction's client are noted under.
ASSUME TransactionIsNoObject == "transaction" \notin Object

VARIABLES
    onTransaction,  \* the objects whose m_store is the transaction or Connection
    published,  \* the node's properties as the store has them
    working,    \* the same within the open transaction
    tx,         \* "none", "open", or "dead": rolled back by an exception
    cached,     \* m_cached of each CacheingPropertyObject
    cache,      \* m_cache, emptied when m_cached is reset rather than at the refill
    call,       \* the write each object is making
    disturbed   \* history: why an object's cache may be out of date

vars == <<onTransaction, published, working, tx, cached, cache, call, disturbed>>

Value == UriValue \cup Literal
Node == Value \cup {Nothing}
Uri == [ns : Namespace, local : Local] \cup {[ns |-> RdfType, local |-> "type"]}
TypeUri == [ns |-> RdfType, local |-> "type"]
Triple == [uri : Uri, value : Value]

\* What a method is given as the name of a property: the name "a", a name with
\* a prefix of its own, or a bare one.
NoPrefix == "no prefix"
BareName(n) == [ns |-> NoPrefix, local |-> n]
Name == {BareName("a")} \cup [ns : Namespace \cup {NoPrefix}, local : Local]

Idle == [stage |-> "idle"]
Calls == [stage : {"adding"}, uri : Uri, wanted : SUBSET Value,
          rest : SUBSET Node, target : {"store", "transaction"},
          contended : BOOLEAN]
Reasons == {"foreign", "failed"}

TypeOK ==
    /\ onTransaction \subseteq Cacheing
    /\ published \subseteq Triple /\ working \subseteq Triple
    /\ tx \in {"none", "open", "dead"}
    /\ cached \in [Cacheing -> BOOLEAN]
    /\ cache \in [Cacheing -> SUBSET Triple]
    /\ call \in [Object -> {Idle} \cup Calls]
    /\ disturbed \in [Cacheing -> SUBSET Reasons]

-------------------------------------------------------------------------------
(* Names and stores.                                                            *)

\* The constructors expand the prefix once, and keep it as given, too.
Upfx(o) == Prefix[o]

\* Mutant: names are taken as they are.
LeavesNamesBare(o, name) == name

PropertyUri(o, name) ==
    IF name = BareName("a") THEN TypeUri
    ELSE IF name.ns = NoPrefix THEN [ns |-> Upfx(o), local |-> name.local]
    ELSE name

\* The prefix as given is the start of a URI only when it was given in full.
StartsWithPrefix(o, uri) == o \notin Abbreviated /\ uri.ns = Prefix[o]

\* getStore: the transaction that a method is given, or else the object's store.
GetStore(o, given) ==
    IF given # "none" THEN given ELSE IF o \in onTransaction THEN "transaction" ELSE "store"

\* What a store shows: a Connection without a transaction reads from the store.
Contents(target) == IF target = "transaction" /\ tx = "open" THEN working ELSE published

\* An access to a transaction that was rolled back throws, and so does a direct
\* write while a transaction is open.
Readable(target) == target = "store" \/ tx # "dead"
Writable(target) == IF target = "store" THEN tx # "open" ELSE tx # "dead"

-------------------------------------------------------------------------------
(* What the reading methods answer.  Where a property has several values, which *)
(* one comes first is the store's choice: these are the sets of possibilities.  *)

ValuesIn(contents, uri) == {t.value : t \in {u \in contents : u.uri = uri}}
OneOf(values) == IF values = {} THEN {Nothing} ELSE values

GetPropertyList(o, name, given) ==
    ValuesIn(Contents(GetStore(o, given)), PropertyUri(o, name))
GetPropertyNodeList(o, name, given) ==
    ValuesIn(Contents(GetStore(o, given)), PropertyUri(o, name))
GetProperty(o, name, given) ==
    OneOf(ValuesIn(Contents(GetStore(o, given)), PropertyUri(o, name)))
HasProperty(o, name, given) ==
    ValuesIn(Contents(GetStore(o, given)), PropertyUri(o, name)) # {}

\* A type that is not a URI makes the constructor of Uri throw.
GetObjectType(o, given) ==
    {IF v \in Literal THEN "throws" ELSE v :
        v \in OneOf(ValuesIn(Contents(GetStore(o, given)), TypeUri))}

GetPropertyNames(o, given) ==
    {uri.local : uri \in {t.uri : t \in {u \in Contents(GetStore(o, given)) :
                                            StartsWithPrefix(o, u.uri)}}}

\* CacheingPropertyObject answers from its cache, filled first if need be.
Encached(o) == IF cached[o] THEN cache[o] ELSE Contents(GetStore(o, "none"))

CachedGetPropertyList(o, name) == ValuesIn(Encached(o), PropertyUri(o, name))
CachedGetProperty(o, name) == OneOf(ValuesIn(Encached(o), PropertyUri(o, name)))
CachedHasProperty(o, name) == ValuesIn(Encached(o), PropertyUri(o, name)) # {}
CachedGetObjectType(o) ==
    {IF v \in Literal THEN Nothing ELSE v : v \in OneOf(ValuesIn(Encached(o), TypeUri))}

-------------------------------------------------------------------------------
(* Steps.                                                                       *)

CachedView(o) == Contents(GetStore(o, "none"))

\* History: whose view did this step change behind its cache?
Disturb(actor) ==
    disturbed' = [o \in Cacheing |->
        IF o # actor /\ cached[o] /\ CachedView(o)' # CachedView(o)
        THEN disturbed[o] \cup {"foreign"} ELSE disturbed[o]]

\* History: another object writes the property that a call in progress writes.
Contend(calls, actor, uri) ==
    [o \in Object |-> IF o # actor /\ calls[o] # Idle /\ calls[o].uri = uri
                      THEN [calls[o] EXCEPT !.contended = TRUE] ELSE calls[o]]

\* A call on the store that turns its contents into c.  The first write through
\* a Connection begins the transaction.
Put(target, c) ==
    IF target = "store"
    THEN published' = c /\ UNCHANGED <<working, tx>>
    ELSE working' = c /\ tx' = "open" /\ UNCHANGED published

\* Mutant: the old values stay.
KeepsOldValues(contents, uri) == contents

RemoveAll(contents, uri) == {t \in contents : t.uri # uri}

\* The thread that uses a transaction makes one call at a time.
TransactionIdle == \A o \in Object : call[o] # Idle => call[o].target = "store"

\* A method that writes begins: the old values go, whatever follows.
BeginWrite(o, name, values, given) ==
    LET target == GetStore(o, given)
        uri == PropertyUri(o, name)
    IN  /\ call[o] = Idle
        /\ Writable(target)
        /\ target = "transaction" => TransactionIdle
        /\ Put(target, RemoveAll(Contents(target), uri))
        /\ call' = [Contend(call, o, uri) EXCEPT ![o] =
               [stage |-> "adding", uri |-> uri, rest |-> values, target |-> target,
                wanted |-> values \ {Nothing},
                contended |-> \E p \in Object \ {o} : call[p] # Idle /\ call[p].uri = uri]]
        /\ UNCHANGED <<onTransaction, cached, cache>>
        /\ Disturb(o)

GivenTo(o) == IF o \in Cacheing THEN {"none"} ELSE {"none", "transaction"}
SetProperty(o) == \E name \in Name, v \in Node, given \in GivenTo(o) :
    BeginWrite(o, name, {v}, given)
SetPropertyList(o) == \E name \in Name, values \in SUBSET Node, given \in GivenTo(o) :
    Cardinality(values) \in 2..MaxValues /\ BeginWrite(o, name, values, given)
RemoveProperty(o) == \E name \in Name, given \in GivenTo(o) :
    BeginWrite(o, name, {}, given)

\* One new value.  Adding a triple that is there already has no effect.
AddValue(o) ==
    /\ call[o] # Idle
    /\ \E v \in call[o].rest \ {Nothing} : LET c == call[o] IN
       /\ Writable(c.target)
       /\ Put(c.target, Contents(c.target) \cup {[uri |-> c.uri, value |-> v]})
       /\ call' = [Contend(call, o, c.uri) EXCEPT ![o].rest = @ \ {v}]
    /\ UNCHANGED <<onTransaction, cached, cache>>
    /\ Disturb(o)

\* add throws, for an incomplete triple or a transaction opened meanwhile.  The
\* exception leaves the method before m_cached is reset, and a transaction that
\* it passes through rolls itself back.
AddThrows(o) ==
    /\ call[o] # Idle /\ call[o].rest # {}
    /\ Nothing \in call[o].rest \/ ~Writable(call[o].target)
    /\ IF call[o].target = "transaction"
       THEN tx' = "dead" /\ working' = {}
       ELSE UNCHANGED <<tx, working>>
    /\ call' = [call EXCEPT ![o] = Idle]
    /\ disturbed' = [p \in Cacheing |->
           IF ~cached[p] THEN {}
           ELSE IF p = o THEN disturbed[p] \cup {"failed"}
           ELSE IF tx' # tx /\ GetStore(p, "none") = "transaction"
           THEN disturbed[p] \cup {"foreign"} ELSE disturbed[p]]
    /\ UNCHANGED <<onTransaction, published, cached, cache>>

\* Mutant: the cache outlives the write.
KeepsTheCache(o) == UNCHANGED <<cached, cache, disturbed>>

\* The methods of CacheingPropertyObject forget the cache when the write is done.
Invalidate(o) ==
    IF o \in Cacheing
    THEN /\ cached' = [cached EXCEPT ![o] = FALSE]
         /\ cache' = [cache EXCEPT ![o] = {}]
         /\ disturbed' = [disturbed EXCEPT ![o] = {}]
    ELSE UNCHANGED <<cached, cache, disturbed>>

Return(o) ==
    /\ call[o] # Idle /\ call[o].rest = {}
    /\ call' = [call EXCEPT ![o] = Idle]
    /\ Invalidate(o)
    /\ UNCHANGED <<onTransaction, published, working, tx>>

\* Every reading method of a CacheingPropertyObject but getPropertyNames.
Encache(o) ==
    /\ call[o] = Idle /\ ~cached[o]
    /\ Readable(GetStore(o, "none"))
    /\ cache' = [cache EXCEPT ![o] = CachedView(o)]
    /\ cached' = [cached EXCEPT ![o] = TRUE]
    /\ UNCHANGED <<onTransaction, published, working, tx, call, disturbed>>

\* The client ends the transaction.  One that an exception rolled back can only
\* be deleted, and another one begun.
Commit ==
    /\ tx = "open" /\ TransactionIdle
    /\ published' = working /\ tx' = "none" /\ working' = {}
    /\ UNCHANGED <<onTransaction, cached, cache, call>>
    /\ Disturb("transaction")

Rollback ==
    /\ tx \in {"open", "dead"} /\ TransactionIdle
    /\ tx' = "none" /\ working' = {}
    /\ UNCHANGED <<onTransaction, published, cached, cache, call>>
    /\ Disturb("transaction")

Init ==
    /\ onTransaction \in SUBSET Cacheing
    /\ published \in {{}, {[uri |-> TypeUri, value |-> v] : v \in UriValue}}
    /\ working = {} /\ tx = "none"
    /\ cached = [o \in Cacheing |-> FALSE]
    /\ cache = [o \in Cacheing |-> {}]
    /\ call = [o \in Object |-> Idle]
    /\ disturbed = [o \in Cacheing |-> {}]

Next ==
    \/ \E o \in Object : \/ SetProperty(o)
                         \/ SetPropertyList(o)
                         \/ RemoveProperty(o)
                         \/ AddValue(o)
                         \/ AddThrows(o)
                         \/ Return(o)
    \/ \E o \in Cacheing : Encache(o)
    \/ Commit
    \/ Rollback

Spec == Init /\ [][Next]_vars

-------------------------------------------------------------------------------
(* Properties.                                                                  *)

Usable(o) == call[o] = Idle /\ Readable(GetStore(o, "none"))

\* What a CacheingPropertyObject answers is what a PropertyObject in its place
\* would, and the names are listed of all properties that it has under bare ones,
\* other than "a", which stands for the type.
\* (A type that is no URI is the exception: one throws, one has no type.)
AgreesWithStore(o) ==
    /\ \A name \in Name :
          /\ CachedHasProperty(o, name) = HasProperty(o, name, "none")
          /\ CachedGetProperty(o, name) = GetProperty(o, name, "none")
          /\ CachedGetPropertyList(o, name) = GetPropertyList(o, name, "none")
    /\ "throws" \notin GetObjectType(o, "none")
          => CachedGetObjectType(o) = GetObjectType(o, "none")
    /\ o \notin Abbreviated =>
          \A n \in Local \ {"a"} : CachedHasProperty(o, BareName(n)) <=> n \in GetPropertyNames(o, "none")

\* The cache may be out of date only because somebody else changed what the
\* object sees after it was filled, or because a write of its own threw: own
\* writes that return, in whatever order, never leave it stale
\* (CacheingPropertyObject's m_cached).
CacheIsExactUnlessDisturbed ==
    \A o \in Cacheing : Usable(o) /\ disturbed[o] = {} => AgreesWithStore(o)

\* When a write returns, and no other object wrote the same property while it
\* ran, the property has the values it was given and none that it had before,
\* although other calls and transactions came between its steps (setProperty,
\* setPropertyList and removeProperty).
WritesReplaceTheProperty ==
    [][\A o \in Object :
          LET c == call[o] IN
          c # Idle /\ c.rest = {} /\ ~c.contended /\ call'[o] = Idle
              => ValuesIn(Contents(c.target), c.uri) = c.wanted]_vars

================================================================================
