----------------------------- MODULE StoredObjects -----------------------------
(* A client that keeps objects in a store with ObjectStorer and ObjectLoader: it *)
(* changes its objects and stores them, others change the store, and it reloads. *)
EXTENDS ObjectStorer, ObjectLoader

CONSTANTS
    Graphs,   \* the objects that a client may begin with
    Lists,    \* the sequences that it may set
    Policies, \* settings of storer and loader: records with bp, fp, psp and ap
    KeepsMap, \* whether the client passes the map of an earlier call to the next
    Unknown,  \* whether others may write objects of a type that is not known here
    MaxEdits, \* bound on the changes to objects and store
    MaxCalls  \* bound on the calls that store and load

ASSUME StoredObjectsConstants ==
    /\ \A graph \in Graphs : /\ IsGraph(graph) /\ IsForest(graph)
                             /\ \A o \in Object : /\ graph[o].uri = Nothing
                                                 /\ IsList(graph[o].list)
    /\ \A list \in Lists : IsList(list)
    /\ KeepsMap \subseteq BOOLEAN /\ Unknown \in BOOLEAN
    /\ MaxEdits \in Nat /\ MaxCalls \in Nat
    /\ \A policy \in Policies :
        /\ policy.bp \in {"PermitBlankObjectNodes", "NoBlankObjectNodes", "NeverUseBlankNodes"}
        /\ policy.fp \subseteq {"parent", "children", "siblings", "properties"}
        /\ policy.psp \in {"StoreIfChanged", "StoreAlways"}
        /\ policy.ap \in {"IgnoreAbsentProperties", "ResetAbsentProperties"}

VARIABLES
    triples, \* the store
    objects, \* the client's objects
    nodeOf,  \* its ObjectNodeMap
    policy,  \* its settings, for good
    keeps,   \* whether it keeps the map, for good
    asked,   \* the objects that the last call was to store, {} since anything else
    stored,  \* and those that it stored
    loaded,  \* the nodes that the last call was to load, {} since anything else
    outcome, \* how that call ended
    edits, calls

vars == <<triples, objects, nodeOf, policy, keeps, asked, stored, loaded, outcome, edits, calls>>

NoNodes == [o \in Object |-> Nothing]

Init ==
    /\ triples = {} /\ nodeOf = NoNodes
    /\ objects \in Graphs /\ policy \in Policies /\ keeps \in KeepsMap
    /\ asked = {} /\ stored = {} /\ loaded = {} /\ outcome = "returns"
    /\ edits = 0 /\ calls = 0

-------------------------------------------------------------------------------
(* The client's objects.                                                         *)

Edit ==
    /\ edits < MaxEdits /\ outcome = "returns"
    /\ edits' = edits + 1 /\ asked' = {} /\ stored' = {} /\ loaded' = {}
    /\ UNCHANGED <<policy, keeps, outcome, calls>>

SetProperty ==
    /\ Edit
    /\ UNCHANGED <<triples, nodeOf>>
    /\ \E o \in Living(objects) :
        \/ \E lit \in Literals : objects' = [objects EXCEPT ![o].lit = lit]
        \/ \E p \in Living(objects) \cup {Null} : objects' = [objects EXCEPT ![o].ref = p]
        \/ \E list \in Lists : /\ \A v \in ToSet(list) : IsObject(v) => objects[v[2]].alive
                               /\ objects' = [objects EXCEPT ![o].list = list]

Reparent ==
    /\ Edit
    /\ UNCHANGED <<triples, nodeOf>>
    /\ \E o \in Living(objects), p \in Living(objects) \cup {Null} :
        /\ p \notin Family(objects, o) /\ p # objects[o].parent
        /\ objects' = SetParent(objects, o, p)

\* The client removes the objects from its map, as it has to.
Destroy ==
    /\ Edit
    /\ UNCHANGED triples
    /\ \E o \in Living(objects) :
        /\ objects' = Delete(objects, o)
        /\ nodeOf' = [p \in Object |-> IF p \in Family(objects, o) THEN Nothing ELSE nodeOf[p]]

-------------------------------------------------------------------------------
(* The store.                                                                    *)

SomeoneSetsLiteral ==
    /\ Edit
    /\ UNCHANGED <<objects, nodeOf>>
    /\ \E n \in Typed(triples), lit \in Literals :
        triples' = ReplaceOne(triples, n, "lit", <<"literal", lit>>)

SomeoneChangesType ==
    /\ Edit /\ Unknown
    /\ UNCHANGED <<objects, nodeOf>>
    /\ \E n \in Typed(triples) : triples' = ReplaceOne(triples, n, "type", UnknownType)

SomeoneRemovesObject ==
    /\ Edit
    /\ UNCHANGED <<objects, nodeOf>>
    /\ \E n \in Typed(triples) : triples' = RemoveObject(triples, n)

-------------------------------------------------------------------------------
(* Storing and loading.                                                          *)

Call ==
    /\ calls < MaxCalls /\ outcome = "returns"
    /\ calls' = calls + 1
    /\ UNCHANGED <<policy, keeps, edits>>

StorerState(map) ==
    [T |-> triples, O |-> objects, map |-> map, used |-> {},
     bp |-> policy.bp, fp |-> policy.fp, psp |-> policy.psp]

\* One at a time, or all of them.
Requests(S) == {{x} : x \in S} \cup ({S} \ {{}})

StoreObjects ==
    /\ Call
    /\ UNCHANGED outcome
    /\ \E requested \in Requests(Living(objects)), order \in Orders :
        \E r \in {Store(StorerState(IF keeps THEN nodeOf ELSE NoNodes),
                               Ordered(requested, order), order)} :
            /\ triples' = r.s.T /\ objects' = r.s.O /\ nodeOf' = r.s.map
            /\ asked' = requested /\ stored' = r.stored /\ loaded' = {}

\* The client's NodeObjectMap, and back.
ObjectOfNode ==
    [n \in {nodeOf[o] : o \in Object} \ {Nothing} |-> CHOOSE o \in Object : nodeOf[o] = n]
NodesIn(map) ==
    [o \in Object |-> IF \E n \in DOMAIN map : map[n] = o
                      THEN CHOOSE n \in DOMAIN map : map[n] = o ELSE Nothing]

LoaderState(O, map) == Start(triples, O, map, policy.fp, policy.ap, TRUE)

\* A call that throws leaves the map, whose pointers to deleted objects are null.
Reload ==
    /\ Call
    /\ UNCHANGED triples
    /\ \E requested \in Requests(Typed(triples) \cup DOMAIN ObjectOfNode), order \in Orders :
        \E r \in {LoadNodes(LoaderState(objects, ObjectOfNode), Ordered(requested, order), order)} :
            /\ r.outcome # "full" /\ objects' = r.O /\ outcome' = r.outcome
            /\ nodeOf' = IF Going(r) THEN NodesIn(r.map)
                         ELSE [o \in Object |-> IF o \in Living(r.O) \ r.gone THEN nodeOf[o] ELSE Nothing]
            /\ loaded' = requested /\ asked' = {} /\ stored' = {}

Next ==
    \/ SetProperty
    \/ Reparent
    \/ Destroy
    \/ SomeoneSetsLiteral
    \/ SomeoneChangesType
    \/ SomeoneRemovesObject
    \/ StoreObjects
    \/ Reload

Spec == Init /\ [][Next]_vars

-------------------------------------------------------------------------------
(* Properties.                                                                   *)

\* Parents and children agree, an object whose node is a URI carries that URI, and
\* no two objects share a node where the client keeps its map.
TypeOK ==
    /\ IsForest(objects)
    /\ \A o \in Object :
        /\ nodeOf[o] # Nothing => objects[o].alive
        /\ nodeOf[o] # Nothing /\ IsUri(nodeOf[o]) => objects[o].uri = nodeOf[o]
        /\ keeps => \A p \in Object : nodeOf[o] = nodeOf[p] /\ nodeOf[o] # Nothing => o = p
    /\ \A t \in triples : t[2] \in {"type", "parent", "follows", "lit", "ref", "list", "first", "rest"}
    /\ stored \subseteq Living(objects) /\ edits <= MaxEdits /\ calls <= MaxCalls

\* What a new process would load.
NoObjects == [o \in Object |-> Dead]
Anew == LoadAll(LoaderState(NoObjects, <<>>), "up")

NodeFor(o) == IF nodeOf[o] # Nothing THEN nodeOf[o] ELSE objects[o].uri
Image(r, o) == IF o = Null THEN Null ELSE Value(r.map, NodeFor(o))
IsLoaded(r, v) == IsObject(v) => Image(r, v[2]) # Null
ImageOfElement(r, v) == IF IsObject(v) THEN ToObject(Image(r, v[2])) ELSE v
ImageOfList(r, list) ==
    LET elements == SelectSeq(list, LAMBDA v : IsLoaded(r, v))
    IN  [i \in DOMAIN elements |-> ImageOfElement(r, elements[i])]

AllTypesAreKnown == UnknownType \notin NodesOf(triples)

\* A sibling that was not stored again may still claim to follow one that moved.
ParentsAreUpToDate == "siblings" \in policy.fp => stored = Living(objects)

\* A client that lost its map may load an object that it has already.
NoUriIsShared ==
    \A o, p \in Living(objects) : objects[o].uri = objects[p].uri => o = p \/ objects[o].uri = Nothing

\* Objects that moved and were not all stored again may leave a circle of parents or
\* of siblings, which the loader follows for ever.
NothingIsInACircle ==
    \A n \in Typed(triples) :
        /\ Chain(Links(triples, "parent"), LAMBDA m : ParentOf(triples, m), n) # <<>>
        /\ OrderedSiblingsOf(triples, n) # <<>>

\* ObjectStorer.h:310: "Store the given objects, and add them and their nodes".  One with a
\* blank node may go again, within the call, with the last triple that refers to it.
StoredObjectsAreInTheStore == \A o \in stored : NodeFor(o) \in Typed(triples)

\* Objects that have just been stored can be loaded: each has its properties again,
\* whether literal, object or list, its parent and the order of its children.
LoadingGivesBackWhatWasStored ==
    stored # {} /\ AllTypesAreKnown /\ NoUriIsShared /\ NothingIsInACircle =>
        \E r \in {Anew} :
        /\ r.outcome = "returns"
        /\ \A o \in {p \in stored : IsUri(nodeOf[p]) \/ ~keeps} :
            LET new == r.O[Image(r, o)] IN
            /\ Image(r, o) # Null
            /\ new.lit = objects[o].lit
            /\ new.ref = Image(r, objects[o].ref)
            /\ policy.bp # "NeverUseBlankNodes" => new.list = ImageOfList(r, objects[o].list)
            /\ ParentsAreUpToDate /\ objects[o].parent = Null => new.parent = Null
            /\ ParentsAreUpToDate /\ objects[o].parent # Null /\ nodeOf[objects[o].parent] # Nothing
                => new.parent = Image(r, objects[o].parent)
            /\ {"children", "siblings"} \subseteq policy.fp /\ stored = Living(objects) /\ StoredObjectsAreInTheStore
                => LET images == [i \in DOMAIN objects[o].children |-> Image(r, objects[o].children[i])]
                   IN  SelectSeq(new.children, LAMBDA c : c \in ToSet(images)) = images

\* Storing some objects writes no triple about another that has its node already,
\* and leaves that node to it.
OnlyWhatIsAskedIsRewritten ==
    [][\A o \in Object :
        asked' # {} /\ keeps /\ o \notin asked' /\ IsUri(nodeOf[o]) =>
            /\ nodeOf'[o] = nodeOf[o]
            /\ About(triples', nodeOf[o]) = About(triples, nodeOf[o])]_vars

\* Replaced and removed lists go with all their nodes, where objects have URIs.
NoListIsLeftBehind ==
    policy.bp = "NoBlankObjectNodes" =>
        \A t \in triples : IsBlank(t[1]) => To(triples, t[1]) # {}

\* Objects that were reloaded have the properties that the store has, and those
\* that are no longer in the store are gone.
ObjectFor(n) == IF n \in DOMAIN ObjectOfNode THEN ObjectOfNode[n] ELSE Null
ReloadedObjectsAgree ==
    outcome = "returns" =>
        /\ \A n \in loaded \ Typed(triples) : ObjectFor(n) = Null
        /\ loaded \subseteq Typed(triples) /\ AllTypesAreKnown =>
            \A n \in loaded : Agrees(triples, objects, ObjectFor, n, policy.ap)

\* Storing the same objects again with the same map writes the same triples, save
\* for the nodes of lists, where objects have URIs.
Plain(T) == {t \in T : t[2] \notin {"list", "first", "rest"}}
StoringAgainChangesNothing ==
    asked # {} /\ keeps /\ policy.bp # "PermitBlankObjectNodes" =>
        \A order \in Orders :
            \E r \in {Store(StorerState(nodeOf), Ordered(asked, order), order)} :
                Plain(r.s.T) = Plain(triples) /\ r.s.map = nodeOf

\* Comment at ObjectStorer.cpp:556: list nodes are removed, blank or not, so that lists
\* are replaced correctly under NeverUseBlankNodes (here, lists that share no element).
IsAlone(o) ==
    \A p \in Living(objects) \ {o} : ToSet(objects[o].list) \cap ToSet(objects[p].list) = {}
ListsAreReplaced ==
    stored # {} /\ AllTypesAreKnown =>
        \E r \in {Anew} :
            \A o \in stored : IsAlone(o) =>
                r.O[Image(r, o)].list = ImageOfList(r, objects[o].list)

\* ObjectLoader.h:216: loadType updates the map with all resulting node-object
\* correspondences, and so returns the objects.
LoadTypeGivesTheObjects ==
    stored # {} /\ AllTypesAreKnown =>
        \E r \in {LoadType(LoaderState(NoObjects, <<>>), KnownType, "up")} :
            r.outcome = "returns" => \A n \in Typed(triples) : Value(r.map, n) # Null

================================================================================
