----------------------------- MODULE ObjectMapper -----------------------------
(* ObjectMapper: keeps objects and a store in step.  It watches its objects and  *)
(* writes what changed when the client commits; and it reloads its objects when  *)
(* another connection of the TransactionalStore commits.                         *)
(*                                                                               *)
(* All of this happens in one thread.  A commit is two steps, between which the  *)
(* slots of the store's signal run; they may be any of the other actions.  The   *)
(* history variable lapses names what happened that the mapper does not follow:  *)
(*   "slot"     a slot of its own commit changed objects or store                *)
(*   "element"  another connection changed a list node that it does not know     *)
(*   "revived"  it loaded an object again whose removal waits for a commit        *)
(*   "twice"    the client loaded a node that has an object already               *)
(*   "lost"     it reloaded a child together with its parent, which is gone       *)
EXTENDS ObjectStorer, ObjectLoader

CONSTANTS
    Graphs,     \* the objects that there are at first, or those of an earlier session
    Lists,      \* the sequences that the client may set
    MaxEdits,   \* bound on what the client does to the objects
    MaxOthers,  \* bound on the transactions of others
    MaxCommits  \* bound on commits

ASSUME ObjectMapperConstants ==
    /\ MaxEdits \in Nat /\ MaxOthers \in Nat /\ MaxCommits \in Nat
    /\ \A graph \in Graphs : IsGraph(graph) /\ \A o \in Object : graph[o].uri = Nothing
    /\ \A list \in Lists : IsSequence(list)

VARIABLES
    triples,        \* the store
    objects,        \* the objects
    objectNode,     \* m_n.objectNodeMap, Nothing for objects that it lacks
    nodeObject,     \* m_n.nodeObjectMap, a function from the nodes that it has
    listNodeObject, \* m_n.listNodeObjectMap
    watched,        \* the objects that have a forwarder
    changed,        \* m_changedObjects
    deleted,        \* m_deletedObjectNodes
    inCommit,       \* m_inCommit
    outcome,        \* "runs", or how the program came to an end
    lapses,         \* see above
    edits, others, commits

client == <<triples, objects>>
network == <<objectNode, nodeObject, listNodeObject, watched>>
queues == <<changed, deleted>>
vars == <<client, network, queues, inCommit, outcome, lapses, edits, others, commits>>

FollowPolicy == {"properties"}
StorerState(T, O, map) ==
    [T |-> T, O |-> O, map |-> map,
     used |-> DOMAIN listNodeObject \cup DOMAIN nodeObject \cup deleted,
     bp |-> "NoBlankObjectNodes", fp |-> FollowPolicy, psp |-> "StoreIfChanged"]
LoaderState(T, map, ignoreUnknown) ==
    Start(T, objects, map, FollowPolicy, "ResetAbsentProperties", ignoreUnknown)

NoNodes == [o \in Object |-> Nothing]
NoObjects == [o \in Object |-> Dead]

Init ==
    /\ objectNode = NoNodes /\ nodeObject = <<>> /\ listNodeObject = <<>>
    /\ watched = {} /\ changed = {} /\ deleted = {}
    /\ \E graph \in Graphs :
        \/ objects = graph /\ triples = {}
        \/ /\ objects = NoObjects
           /\ triples = Store(StorerState({}, graph, NoNodes),
                                     Ordered(Living(graph), "up"), "up").s.T
    /\ inCommit = FALSE /\ outcome = "runs"
    /\ lapses = {} /\ edits = 0 /\ others = 0 /\ commits = 0

Running == outcome = "runs"
Lapse(more) == lapses' = lapses \cup more \cup (IF inCommit THEN {"slot"} ELSE {})

-------------------------------------------------------------------------------
(* manage.  m: the network.                                                      *)

Set(f, x, v) == [y \in DOMAIN f \cup {x} |-> IF y = x THEN v ELSE f[y]]

\* Mutant: only one of the maps has the new object.
MapsOneWay(m, o, uri) ==
    IF uri = Nothing \/ (m.objectNode[o] # Nothing /\ uri \in DOMAIN m.nodeObject) THEN m
    ELSE [m EXCEPT !.objectNode[o] = uri, !.watched = @ \cup {o}]

\* An object without a uri is refused, one that is in both maps is managed already.
Manage(m, o, uri) ==
    IF uri = Nothing \/ (m.objectNode[o] # Nothing /\ uri \in DOMAIN m.nodeObject) THEN m
    ELSE [m EXCEPT !.objectNode[o] = uri, !.nodeObject = Set(@, uri, o), !.watched = @ \cup {o}]
ManageAll(O, os) ==
    FoldLeft(LAMBDA m, o : Manage(m, o, O[o].uri),
             [objectNode |-> objectNode, nodeObject |-> nodeObject, watched |-> watched], SetToSeq(os))

ClientEdits ==
    /\ edits < MaxEdits /\ edits' = edits + 1
    /\ UNCHANGED <<others, commits>>

Add ==
    /\ Running
    /\ ClientEdits
    /\ Lapse({})
    /\ UNCHANGED <<client, listNodeObject, deleted, inCommit, outcome>>
    /\ \E os \in SUBSET Living(objects) \ {{}} :
        LET m == ManageAll(objects, os)
        IN  /\ objectNode' = m.objectNode /\ nodeObject' = m.nodeObject
            /\ watched' = m.watched /\ changed' = changed \cup os

-------------------------------------------------------------------------------
(* objectModified and objectDestroyed, by way of the forwarders.                 *)

Modify ==
    /\ Running
    /\ ClientEdits
    /\ Lapse({})
    /\ UNCHANGED <<triples, network, deleted, inCommit, outcome>>
    /\ \E o \in Living(objects) :
        /\ \/ \E lit \in Literals : objects' = [objects EXCEPT ![o].lit = lit]
           \/ \E p \in Living(objects) \cup {Null} : objects' = [objects EXCEPT ![o].ref = p]
           \/ \E list \in Lists : /\ \A v \in ToSet(list) : IsObject(v) => objects[v[2]].alive
                                  /\ objects' = [objects EXCEPT ![o].list = list]
        /\ changed' = changed \cup ({o} \cap watched)

\* The null pointers that a deletion leaves to an object's watched neighbours are
\* modifications of these.
Holders(O, gone) ==
    {o \in Living(O) \ gone : O[o].ref \in gone
                              \/ \E v \in ToSet(O[o].list) : IsObject(v) /\ v[2] \in gone}
ListNodesWithout(gone) ==
    [n \in {m \in DOMAIN listNodeObject : listNodeObject[m] \notin gone} |-> listNodeObject[n]]
PointersWithout(map, gone) == [n \in DOMAIN map |-> IF map[n] \in gone THEN Null ELSE map[n]]

\* Who says good-bye when o goes.  Mutant: only o itself.
HearsTheObject(o) == {o} \cap watched
Heard(o) == Family(objects, o) \cap watched

Destroy ==
    /\ Running
    /\ ClientEdits
    /\ Lapse({})
    /\ UNCHANGED <<triples, inCommit, outcome>>
    /\ \E o \in Living(objects) :
        LET gone == Family(objects, o)
            heard == Heard(o)
        IN  /\ objects' = Delete(objects, o)
            /\ nodeObject' = PointersWithout(nodeObject, gone)
            /\ listNodeObject' = ListNodesWithout(gone)
            /\ watched' = watched \ heard
            /\ objectNode' = [p \in Object |-> IF p \in heard THEN Nothing ELSE objectNode[p]]
            /\ deleted' = deleted \cup ({objectNode[p] : p \in heard} \ {Nothing})
            /\ changed' = (changed \ heard) \cup (Holders(objects, gone) \cap watched)

-------------------------------------------------------------------------------
(* commit.                                                                       *)

\* The objects that are to be stored include one that is gone.
CommitCrashes ==
    /\ Running /\ ~inCommit
    /\ ~(changed \subseteq Living(objects))
    /\ outcome' = "crashes"
    /\ UNCHANGED <<client, network, queues, inCommit, lapses, edits, others, commits>>

CommitStores ==
    /\ Running /\ ~inCommit
    /\ commits < MaxCommits
    /\ changed \subseteq Living(objects)
    /\ commits' = commits + 1
    /\ inCommit' = TRUE
    /\ UNCHANGED <<listNodeObject, queues, outcome, lapses, edits, others>>
    /\ \E order \in Orders :
        LET removed == FoldLeft(RemoveObject, triples, Ordered(deleted, order))
        IN  \E r \in {Store(StorerState(removed, objects, objectNode),
                                   Ordered(changed, order), order)} :
                /\ triples' = r.s.T /\ objects' = r.s.O
                /\ objectNode' = r.s.map
                /\ nodeObject' = ManageAll(r.s.O, r.stored).nodeObject
                /\ watched' = ManageAll(r.s.O, r.stored).watched

\* syncMap finds another object for a node.
NodesDisagree ==
    \E o \in Object : /\ objectNode[o] \in DOMAIN nodeObject
                      /\ nodeObject[objectNode[o]] \notin {Null, o}

RestInStore(n) == ObjectOf(triples, n, "rest")
ListNodesFrom(n) ==
    LET NextOf(m) == IF RestInStore(m) = Nil THEN Nothing ELSE RestInStore(m)
        cells == Chain(Links(triples, "rest"), NextOf, n)
    IN  {m \in ToSet(cells) : RestInStore(m) # Nothing}
ListNodesFor(o) ==
    IF objectNode[o] = Nothing THEN {}
    ELSE ListNodesFrom(ObjectOf(triples, objectNode[o], "list"))

CommitEnds ==
    /\ outcome = "runs" /\ inCommit
    /\ inCommit' = FALSE
    /\ UNCHANGED <<client, objectNode, watched, lapses, edits, others, commits>>
    /\ IF NodesDisagree
       THEN outcome' = "throws" /\ UNCHANGED <<nodeObject, listNodeObject, queues>>
       ELSE /\ nodeObject' = [n \in {objectNode[o] : o \in Object} \ {Nothing} |->
                                 CHOOSE o \in Object : objectNode[o] = n]
            /\ LET new == UNION {ListNodesFor(o) : o \in changed}
               IN  listNodeObject' = [n \in DOMAIN listNodeObject \cup new |->
                                         IF n \in new THEN CHOOSE o \in changed : n \in ListNodesFor(o)
                                         ELSE listNodeObject[n]]
            /\ changed' = {} /\ deleted' = {}
            /\ UNCHANGED outcome

-------------------------------------------------------------------------------
(* transactionCommitted, for the commits of others.                              *)

\* Mutant: list nodes are not looked up.
IgnoresListNodes(subjects) == subjects \cap DOMAIN nodeObject

ToReload(subjects) ==
    (subjects \cap DOMAIN nodeObject)
    \cup ({objectNode[listNodeObject[n]] :
              n \in {m \in (subjects \cap DOMAIN listNodeObject) \ DOMAIN nodeObject :
                        listNodeObject[m] # Null}} \ {Nothing})

\* The network after the objects in gone have said good-bye.
ForgetAll(gone) ==
    [objectNode |-> [o \in Object |-> IF o \in gone \cap watched THEN Nothing ELSE objectNode[o]],
     nodeObject |-> PointersWithout(nodeObject, gone), watched |-> watched \ gone]

\* What a call r of the loader does to those who watch: the objects that it deleted
\* are forgotten and those that it loaded are managed.  m: the network then.
AfterLoading(r) ==
    FoldLeft(LAMBDA m, o : Manage(m, o, r.O[o].uri), ForgetAll(r.gone),
             SetToSeq({Value(r.map, n) : n \in r.populated} \ {Null}))
Revived(r) == {"revived" : n \in {k \in deleted : Value(r.map, k) # Null}}
Hear(r, m, reloading) ==
    LET heard == r.gone \cap watched
    IN  /\ objects' = r.O
        /\ watched' = m.watched
        /\ listNodeObject' = ListNodesWithout(heard)
        /\ changed' = changed \ heard
        /\ deleted' = deleted \cup ({objectNode[o] : o \in heard} \ (reloading \cup {Nothing}))

\* Elements that others exchange in lists whose nodes the mapper does not know.
Unnoticed(T) ==
    {"element" : t \in {u \in triples \ T : /\ u[2] = "first" /\ About(T, u[1]) # {}
                                          /\ u[1] \notin DOMAIN listNodeObject}}

Lost(r, reloading) ==
    {"lost" : n \in {k \in reloading \cap Typed(r.T) : Value(r.map, k) = Null}}

\* syncMap.  Mutant: it adds to the map instead of replacing it.
NodeIn(map, o) == CHOOSE n \in DOMAIN map : map[n] = o
AddsNodesFrom(map) ==
    [o \in Object |-> IF \E n \in DOMAIN map : map[n] = o THEN NodeIn(map, o) ELSE objectNode[o]]
NodesFrom(map) ==
    [o \in Object |-> IF \E n \in DOMAIN map : map[n] = o THEN NodeIn(map, o) ELSE Nothing]

\* The loader's map replaces the mapper's, and objectNode follows it.
TransactionCommitted(T) ==
    LET subjects == {t[1] : t \in (T \ triples) \cup (triples \ T)}
        reloading == ToReload(subjects)
    IN  \E order \in Orders :
            \E r \in {LoadNodes(LoaderState(T, nodeObject, TRUE), Ordered(reloading, order), order)} :
                /\ Going(r)
                /\ Lapse(Revived(r) \cup Unnoticed(T) \cup Lost(r, reloading))
                /\ Hear(r, AfterLoading(r), reloading)
                /\ nodeObject' = r.map
                /\ objectNode' = NodesFrom(r.map)

\* Another connection commits.  A commit from a slot of the mapper's own is taken
\* for the mapper's.
OtherCommits(T) ==
    /\ Running
    /\ others < MaxOthers /\ others' = others + 1
    /\ triples' = T
    /\ UNCHANGED <<inCommit, outcome, edits, commits>>
    /\ \/ ~inCommit /\ TransactionCommitted(T)
       \/ inCommit /\ Lapse({}) /\ UNCHANGED <<objects, network, queues>>

OtherSetsProperty ==
    \E n \in Typed(triples) :
        \/ \E lit \in Literals : OtherCommits(ReplaceOne(triples, n, "lit", <<"literal", lit>>))
        \/ \E m \in Typed(triples) : OtherCommits(ReplaceOne(triples, n, "ref", m))
OtherChangesElement ==
    \E t \in triples, lit \in Literals :
        t[2] = "first" /\ OtherCommits(ReplaceOne(triples, t[1], "first", <<"literal", lit>>))
OtherRemovesObject == \E n \in Typed(triples) : OtherCommits(RemoveObject(triples, n))

\* load and loadType, with a map of their own.
Doubles(r) == {"twice" : n \in {k \in DOMAIN r.map : Value(nodeObject, k) # Null}}
Load ==
    /\ Running
    /\ ClientEdits
    /\ UNCHANGED <<triples, inCommit, outcome>>
    /\ \E requested \in {{n} : n \in Typed(triples)} \cup ({Typed(triples)} \ {{}}), order \in Orders :
        \E r \in {LoadNodes(LoaderState(triples, <<>>, FALSE), Ordered(requested, order), order)} :
            /\ Going(r)
            /\ Lapse(Revived(r) \cup Doubles(r))
            /\ Hear(r, AfterLoading(r), {})
            /\ objectNode' = AfterLoading(r).objectNode
            /\ nodeObject' = AfterLoading(r).nodeObject

Next ==
    \/ Add
    \/ Modify
    \/ Destroy
    \/ CommitCrashes
    \/ CommitStores
    \/ CommitEnds
    \/ OtherSetsProperty
    \/ OtherChangesElement
    \/ OtherRemovesObject
    \/ Load

Spec == Init /\ [][Next]_vars

-------------------------------------------------------------------------------
(* Properties.                                                                   *)

\* The two maps are each other's inverse except while a commit's signal is sent, and
\* each object in them is watched and has the URI of its node.
TypeOK ==
    /\ \A o \in Object : objectNode[o] # Nothing =>
        /\ o \in watched /\ objects[o].alive /\ objects[o].uri = objectNode[o]
        /\ ~inCommit /\ "twice" \notin lapses => Value(nodeObject, objectNode[o]) = o
    /\ \A n \in DOMAIN nodeObject : nodeObject[n] # Null => objectNode[nodeObject[n]] = n
    /\ watched \subseteq Living(objects) /\ changed \subseteq Object
    /\ outcome \in {"runs", "crashes", "throws"}

\* When nothing waits for a commit, the managed objects and the store agree,
\* whoever changed which.
ObjectFor(n) == Value(nodeObject, n)
InStep ==
    lapses = {} /\ outcome = "runs" /\ ~inCommit /\ changed = {} /\ deleted = {} =>
        \A o \in Living(objects) : objectNode[o] # Nothing =>
            /\ objectNode[o] \in Typed(triples)
            /\ Agrees(triples, objects, ObjectFor, objectNode[o], "ResetAbsentProperties")

\* A commit leaves nothing in the store of objects that were destroyed, children that
\* went with their parents included.
DestroyedObjectsLeaveTheStore ==
    [][lapses = {} /\ inCommit /\ ~inCommit' =>
        \A n \in DOMAIN nodeObject \cap Typed(triples) : nodeObject[n] # Null]_vars

\* The two maps contradict each other, so that commit throws, only when the client
\* loaded a node twice.
MapsAgree == outcome = "throws" => "twice" \in lapses

\* Comment at ObjectMapper.cpp:559: list nodes are associated with their object, so
\* that it is reloaded if something in the list changes but its head does not.
ListChangesReachObjects ==
    lapses \subseteq {"element"} /\ outcome = "runs" /\ ~inCommit /\ changed = {} /\ deleted = {} =>
        \A o \in Living(objects) : objectNode[o] # Nothing /\ objectNode[o] \in Typed(triples) =>
            Agrees(triples, objects, ObjectFor, objectNode[o], "ResetAbsentProperties")
================================================================================
