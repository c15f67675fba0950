------------------------------ MODULE ObjectLoader ------------------------------
(* ObjectLoader: from triples to objects.                                       *)
(*                                                                               *)
(* A state s of a call has the triples T, the objects O, the object of each node *)
(* (map, a function from some nodes, Null where there is none), the policies fp  *)
(* for relatives and ap for absent properties, whether unknown types are ignored *)
(* (the load flag), the sets of nodes that are still to allocate, initialise and *)
(* populate, what becomes of the call: it returns, throws or never ends, or needs *)
(* more than MaxObjects; for those who watch the objects, those it deleted and    *)
(* the nodes it populated; and the order in which the store's matches come.       *)
EXTENDS ObjectGraph

Going(s) == s.outcome = "returns"
Throw(s) == [s EXCEPT !.outcome = "throws"]
Hang(s) == [s EXCEPT !.outcome = "hangs"]
NoRoom(s) == [s EXCEPT !.outcome = "full"]

Insert(s, n, o) ==
    [s EXCEPT !.map = [m \in DOMAIN @ \cup {n} |-> IF m = n THEN o ELSE @[m]]]

\* The map's pointers become null when an object goes, and all it owns.
DeleteObject(s, o) ==
    IF o = Null THEN s
    ELSE LET gone == Family(s.O, o)
         IN  [s EXCEPT !.O = Delete(@, o),
                       !.map = [n \in DOMAIN @ |-> IF @[n] \in gone THEN Null ELSE @[n]],
                       !.gone = @ \cup gone]

-------------------------------------------------------------------------------
(* What the triples say of a node's relatives.                                   *)

NodeHasType(T, n) == IsUri(ObjectOf(T, n, "type"))
ParentOf(T, n) == ObjectOf(T, n, "parent")
ChildrenOf(T, n) == {t[1] : t \in {u \in To(T, n) : u[2] = "parent"}}
PrevSiblingOf(T, n) == ObjectOf(T, n, "follows")
NextSiblingOf(T, n) ==
    LET after == {t \in To(T, n) : t[2] = "follows"}
    IN  IF after = {} THEN Nothing ELSE (CHOOSE t \in after : TRUE)[1]

\* Up to the first sibling and down to the last: <<>> if that never ends.
OrderedSiblingsOf(T, n) ==
    LET before == Chain(Links(T, "follows"), LAMBDA m : PrevSiblingOf(T, m), n)
    IN  IF before = <<>> THEN <<>>
        ELSE Chain(Links(T, "follows"), LAMBDA m : NextSiblingOf(T, m), Last(before))

\* The siblings of a child, and then the children that are none of them: <<>> if
\* there are none, or the siblings never end.
OrderedChildrenOf(T, n, order) ==
    LET children == Ordered(ChildrenOf(T, n), order)
        siblings == OrderedSiblingsOf(T, children[1])
    IN  IF children = <<>> \/ siblings = <<>> THEN <<>>
        ELSE siblings \o Ordered(ToSet(children) \ ToSet(siblings), order)

\* The list with this head: its nodes, <<>> if they never end, and its elements.
RestOf(T, n) ==
    IF ObjectOf(T, n, "first") = Nothing \/ ObjectOf(T, n, "rest") = Nil THEN Nothing
    ELSE ObjectOf(T, n, "rest")
CellsFrom(T, n) == Chain(Links(T, "rest"), LAMBDA m : RestOf(T, m), n)
NeverEnds(T, n) == CellsFrom(T, n) = <<>>
SequenceStartingAt(T, n) ==
    LET cells == CellsFrom(T, n)
        values == [i \in DOMAIN cells |-> ObjectOf(T, cells[i], "first")]
    IN  Among(values, ToSet(values) \ {Nothing})

PotentialPropertyNodesOf(T, n) ==
    UNION {IF NodeHasType(T, v) THEN {v}
           ELSE {m \in ToSet(SequenceStartingAt(T, v)) : NodeHasType(T, m)} :
           v \in {t[3] : t \in About(T, n)}}
HasEndlessList(T, n) == \E t \in About(T, n) : ~NodeHasType(T, t[3]) /\ NeverEnds(T, t[3])

-------------------------------------------------------------------------------
(* Which nodes to load.                                                          *)

RelativesOfNode(s, n) ==
    (IF "parent" \in s.fp THEN {ParentOf(s.T, n)} ELSE {})
    \cup (IF "children" \in s.fp THEN ChildrenOf(s.T, n) ELSE {})
    \cup (IF "siblings" \in s.fp THEN {PrevSiblingOf(s.T, n), NextSiblingOf(s.T, n)} ELSE {})
    \cup (IF "properties" \in s.fp THEN PotentialPropertyNodesOf(s.T, n) ELSE {})

\* A candidate n is noted, and the object of a requested node that is no longer in
\* the store goes.
NoteNode(s, requested, n) ==
    LET wanted == n \in ToSet(requested)
        typed == NodeHasType(s.T, n)
        new == Value(s.map, n) = Null
    IN  IF new /\ typed
        THEN [s EXCEPT !.toAllocate = @ \cup {n}, !.toInitialise = @ \cup {n},
                       !.toPopulate = @ \cup {n}]
        ELSE IF ~new /\ wanted /\ typed
        THEN [s EXCEPT !.toInitialise = @ \cup {n}, !.toPopulate = @ \cup {n}]
        ELSE IF ~new /\ wanted THEN Insert(DeleteObject(s, Value(s.map, n)), n, Null)
        ELSE s

\* The candidate n.  c: the call's state, the nodes that were looked at, and the
\* candidates of the next round.
CollectNode(c, requested, n, order) ==
    LET leads == NodeHasType(c.s.T, n) \/ ~(Value(c.s.map, n) = Null \/ n \in ToSet(requested))
        relatives == RelativesOfNode(c.s, n) \ (c.visited \cup {n, Nothing})
        endless == leads /\ "properties" \in c.s.fp /\ HasEndlessList(c.s.T, n)
        noted == NoteNode(c.s, requested, n)
    IN  IF ~Going(c.s) THEN c
        ELSE [s |-> IF endless THEN Hang(noted) ELSE noted,
              candidates |-> c.candidates \o (IF leads THEN Ordered(relatives, order) ELSE <<>>),
              visited |-> c.visited \cup {n}]

\* The nodes that requested ones lead to, in rounds of candidates.
CollectRound(c, requested, order) ==
    FoldLeft(LAMBDA d, n : CollectNode(d, requested, n, order), [c EXCEPT !.candidates = <<>>],
             c.candidates)
CollectNodes(s, requested, order) ==
    FoldLeft(LAMBDA c, k : CollectRound(c, requested, order),
             [s |-> s, candidates |-> requested, visited |-> {}],
             Times(Cardinality(NodesOf(s.T)) + 2)).s

-------------------------------------------------------------------------------
(* Properties.                                                                   *)

IsKnown(T, n) == ObjectOf(T, n, "type") = KnownType

\* build, and the object's uri.
AllocateObject(s, n, parent) ==
    LET o == Unused(s.O)
        made == [s.O EXCEPT ![o] = New(IF IsUri(n) THEN n ELSE Nothing)]
    IN  [s EXCEPT !.O = SetParent(made, o, parent)]

AllocateSingleUnder(s, n, parent) ==
    IF ~Going(s) \/ n \notin s.toAllocate THEN s
    ELSE IF ~IsKnown(s.T, n) THEN Throw(s)
    ELSE IF Living(s.O) = Object THEN NoRoom(s)
    ELSE LET o == Unused(s.O)
         IN  [Insert(AllocateObject(s, n, parent), n, o) EXCEPT !.toAllocate = @ \ {n}]

ValuesOf(s, n, p) == {t[3] : t \in Match(s.T, n, p)}
First(values) == CHOOSE v \in values : TRUE

\* Properties that are absent, or all of literals.
LoadLiteralProperties(s, n) ==
    LET o == Value(s.map, n)
        lits == ValuesOf(s, n, "lit")
        absent == s.ap = "ResetAbsentProperties"
    IN  IF ~Going(s) \/ o = Null THEN s
        ELSE [s EXCEPT
                !.O[o].lit = IF lits # {} THEN First(lits)[2] ELSE IF absent THEN DefaultLit ELSE @,
                !.O[o].ref = IF absent /\ ValuesOf(s, n, "ref") = {} THEN Null ELSE @,
                !.O[o].list = IF absent /\ ValuesOf(s, n, "list") = {} THEN <<>> ELSE @]

Initialise(s, n) == [LoadLiteralProperties(s, n) EXCEPT !.toInitialise = @ \ {n}]

-------------------------------------------------------------------------------
(* Allocation: parents first, then siblings in their order, and children last.   *)

InitialiseIfDue(s, n) == IF Going(s) /\ n \in s.toInitialise THEN Initialise(s, n) ELSE s

\* One node with its siblings, whose parent has the node p.
AllocateOne(s, n, p) ==
    LET siblings == IF "siblings" \in s.fp THEN OrderedSiblingsOf(s.T, n) ELSE <<>>
    IN  IF "siblings" \in s.fp /\ siblings = <<>> THEN Hang(s)
        ELSE InitialiseIfDue(FoldLeft(LAMBDA r, m : AllocateSingleUnder(r, m, Value(r.map, p)),
                                      s, Append(siblings, n)), n)

\* w: the call's state, and the nodes that wait for their turn, each with that of
\* its parent; children come before what waits already.
WithChildren(s, n, waiting) ==
    LET children == IF "children" \in s.fp THEN OrderedChildrenOf(s.T, n, s.order) ELSE <<>>
        endless == "children" \in s.fp /\ ChildrenOf(s.T, n) # {} /\ children = <<>>
    IN  [s |-> IF Going(s) /\ endless THEN Hang(s) ELSE s,
         waiting |-> [i \in 1..Len(children) |-> <<children[i], n>>] \o waiting]
AllocateNext(w) ==
    LET waiting == Among(w.waiting, {x \in ToSet(w.waiting) : x[1] \in w.s.toAllocate})
    IN  IF ~Going(w.s) \/ waiting = <<>> THEN w
        ELSE WithChildren(AllocateOne(w.s, waiting[1][1], waiting[1][2]),
                          waiting[1][1], Tail(waiting))
AllocateUnder(s, n, p) ==
    FoldLeft(LAMBDA w, k : AllocateNext(w), [s |-> s, waiting |-> <<<<n, p>>>>],
             Times(Cardinality(s.toAllocate))).s

\* The ancestors of a node that are yet to allocate: the recursion goes up to the
\* first and comes back, or it goes on for ever.
UnallocatedParentOf(s, n) ==
    IF ParentOf(s.T, n) \in s.toAllocate THEN ParentOf(s.T, n) ELSE Nothing
UnallocatedAncestorsOf(s, n) ==
    Chain(Links(s.T, "parent"), LAMBDA m : UnallocatedParentOf(s, m), n)
Allocate(s, n) ==
    LET ancestors == UnallocatedAncestorsOf(s, n)
    IN  IF ~Going(s) \/ n \notin s.toAllocate THEN s
        ELSE IF ancestors = <<>> THEN Hang(s)
        ELSE FoldLeft(LAMBDA r, m : AllocateUnder(r, m, ParentOf(s.T, m)), s, Reverse(ancestors))

AllocateParentOf(s, n) ==
    IF ParentOf(s.T, n) = Nothing THEN s ELSE Allocate(s, ParentOf(s.T, n))
AllocateSingleUnderParent(s, n) ==
    AllocateSingleUnder(s, n, Value(s.map, ParentOf(s.T, n)))
AllocateSingle(s, n) == AllocateSingleUnderParent(AllocateParentOf(s, n), n)

-------------------------------------------------------------------------------
(* Properties that point to objects.                                             *)

PropertyNodeToObject(s, v) == IF IsLiteral(v) THEN s ELSE AllocateSingle(s, v)

\* An element that is no literal and has no object is left out.
AppendObject(r, o, v) ==
    IF ~Going(r) \/ Value(r.map, v) = Null THEN r
    ELSE [r EXCEPT !.O[o].list = Append(@, ToObject(Value(r.map, v)))]
AddElement(s, o, v) ==
    IF IsLiteral(v) THEN [s EXCEPT !.O[o].list = Append(@, v)]
    ELSE AppendObject(PropertyNodeToObject(s, v), o, v)

OrRestoreList(r, o, list) == IF Going(r) THEN r ELSE [r EXCEPT !.O[o].list = list]

\* Mutant: the elements are added to those that the object has.
AddsToTheList(s, o, head) ==
    OrRestoreList(FoldLeft(LAMBDA q, v : IF Going(q) THEN AddElement(q, o, v) ELSE q,
                           s, SequenceStartingAt(s.T, head)),
                  o, s.O[o].list)

\* A list is set when it is complete; until then the object keeps the one it had.
PropertyNodeToList(s, o, head) ==
    OrRestoreList(FoldLeft(LAMBDA q, v : IF Going(q) THEN AddElement(q, o, v) ELSE q,
                           [s EXCEPT !.O[o].list = <<>>], SequenceStartingAt(s.T, head)),
                  o, s.O[o].list)

SetReference(r, o, v) ==
    IF ~Going(r) \/ IsLiteral(v) \/ Value(r.map, v) = Null THEN r
    ELSE [r EXCEPT !.O[o].ref = Value(r.map, v)]
LoadReference(s, n) ==
    LET v == First(ValuesOf(s, n, "ref"))
    IN  IF ~Going(s) \/ Value(s.map, n) = Null \/ ValuesOf(s, n, "ref") = {} THEN s
        ELSE SetReference(PropertyNodeToObject(s, v), Value(s.map, n), v)

LoadList(s, n) ==
    LET head == First(ValuesOf(s, n, "list"))
    IN  IF ~Going(s) \/ Value(s.map, n) = Null \/ ValuesOf(s, n, "list") = {} THEN s
        ELSE IF NeverEnds(s.T, head) THEN Hang(s)
        ELSE PropertyNodeToList(s, Value(s.map, n), head)

Populate(s, n) == [LoadList(LoadReference(s, n), n) EXCEPT !.toPopulate = @ \ {n}]

-------------------------------------------------------------------------------
(* Loading.                                                                      *)

\* An unknown type that is to be ignored costs the node its object, and whatever
\* else was to be allocated with it; the node itself stays among those to allocate.
Ignore(r, n) ==
    [Insert(DeleteObject([r EXCEPT !.outcome = "returns"], Value(r.map, n)), n, Null)
        EXCEPT !.toInitialise = @ \ {n}, !.toPopulate = @ \ {n}]
OrIgnore(s, n, r) ==
    IF r.outcome = "throws" /\ Going(s) /\ s.ignoreUnknown THEN Ignore(r, n) ELSE r
AllocateOrIgnore(s, n) == OrIgnore(s, n, Allocate(s, n))

AllocateAll(s, order) == FoldLeft(AllocateOrIgnore, s, Ordered(s.toAllocate, order))
InitialiseAll(s, order) == FoldLeft(Initialise, s, Ordered(s.toInitialise, order))
Note(s, nodes) == IF Going(s) THEN [s EXCEPT !.populated = nodes] ELSE s
PopulateAll(s, order) ==
    Note(FoldLeft(Populate, s, Ordered(s.toPopulate, order)), s.toPopulate)
LoadCollected(s, order) == PopulateAll(InitialiseAll(AllocateAll(s, order), order), order)

Start(T, O, map, fp, ap, ignoreUnknown) ==
    [T |-> T, O |-> O, map |-> map, fp |-> fp, ap |-> ap, ignoreUnknown |-> ignoreUnknown,
     toAllocate |-> {}, toInitialise |-> {}, toPopulate |-> {}, outcome |-> "returns",
     gone |-> {}, populated |-> {}, order |-> "up"]

\* order: that in which sets of nodes are taken, and the store's matches.
LoadNodes(s, requested, order) ==
    LET c == CollectNodes([s EXCEPT !.order = order], requested, order)
    IN  IF Going(c) THEN LoadCollected(c, order) ELSE c

\* The nodes that have a type.
TypesIn(T) == {t \in T : t[2] = "type" /\ IsUri(t[3])}
LoadAll(s, order) == LoadNodes(s, Ordered({t[1] : t \in TypesIn(s.T)}, order), order)

\* loadType, which leaves the caller its own map and ignores no unknown type.
LoadType(s, type, order) ==
    LET r == LoadNodes([s EXCEPT !.ignoreUnknown = FALSE],
                       Ordered({t[1] : t \in To(TypesIn(s.T), type)}, order), order)
    IN  [r EXCEPT !.map = [n \in DOMAIN s.map |-> IF s.map[n] \in r.gone THEN Null ELSE s.map[n]]]

-------------------------------------------------------------------------------
(* Used by the properties of the modules that load: the object of a node has what *)
(* the store says, object(_) being the objects of nodes.                          *)

ElementsIn(T, object(_), head) ==
    LET values == SequenceStartingAt(T, head)
        elements == Among(values, {v \in ToSet(values) : IsLiteral(v) \/ object(v) # Null})
    IN  [i \in DOMAIN elements |-> IF IsLiteral(elements[i]) THEN elements[i]
                                   ELSE ToObject(object(elements[i]))]

Agrees(T, O, object(_), n, ap) ==
    LET o == object(n)
        values(p) == {t[3] : t \in Match(T, n, p)}
        resets == ap = "ResetAbsentProperties"
    IN  /\ o # Null
        /\ \A v \in values("lit") : O[o].lit = v[2]
        /\ \A v \in values("ref") : object(v) # Null => O[o].ref = object(v)
        /\ \A v \in values("list") : O[o].list = ElementsIn(T, object, v)
        /\ resets /\ values("lit") = {} => O[o].lit = DefaultLit
        /\ resets /\ values("ref") = {} => O[o].ref = Null
        /\ resets /\ values("list") = {} => O[o].list = <<>>
================================================================================
