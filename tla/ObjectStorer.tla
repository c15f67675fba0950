------------------------------ MODULE ObjectStorer ------------------------------
(* ObjectStorer: from objects to triples.                                       *)
(*                                                                               *)
(* A state s of a call has the triples T, the objects O, the node of each object *)
(* (map, Nothing for those without one), the names that its callers remember     *)
(* (used) and the policies: bp for blank nodes, fp for the relatives that are    *)
(* followed, psp for properties with default values.                             *)
EXTENDS ObjectGraph

-------------------------------------------------------------------------------
(* Which objects to store.                                                       *)

\* The objects that are values of an object's properties, sequences included.
PropertyObjectsOf(O, o) ==
    LET elements == Among(O[o].list, {ToObject(x) : x \in Object})
    IN  (IF O[o].ref = Null THEN <<>> ELSE <<O[o].ref>>) \o [i \in DOMAIN elements |-> elements[i][2]]

RelativesOf(s, o) ==
    LET parent == s.O[o].parent
    IN  (IF "parent" \in s.fp /\ parent # Null THEN <<parent>> ELSE <<>>)
        \o (IF "children" \in s.fp THEN s.O[o].children ELSE <<>>)
        \o (IF "siblings" \in s.fp /\ parent # Null THEN s.O[parent].children ELSE <<>>)

\* Mutant: what is found on the way is stored again.
StoresWhatItMeets(s, requested, c, o) ==
    LET visited == c.visited \cup {o}
        found == RelativesOf(s, o)
                 \o (IF "properties" \in s.fp THEN PropertyObjectsOf(s.O, o) ELSE <<>>)
    IN  [c EXCEPT !.visited = visited,
                  !.candidates = @ \o Among(found, Object \ visited),
                  !.toAllocate = IF s.map[o] = Nothing THEN @ \cup {o} ELSE @,
                  !.toStore = @ \cup {o},
                  !.noBlanks = @ \cup ToSet(RelativesOf(s, o)) \cup (ToSet(found) \cap visited)]

\* The candidate o.  c: what has been collected, and the candidates of the next round.
CollectOne(s, requested, c, o) ==
    LET visited == c.visited \cup {o}
        new == s.map[o] = Nothing
        relatives == RelativesOf(s, o)
        properties == IF "properties" \in s.fp THEN PropertyObjectsOf(s.O, o) ELSE <<>>
    IN  [visited |-> visited,
         candidates |-> c.candidates \o Among(relatives \o properties, Object \ visited),
         toAllocate |-> IF new THEN c.toAllocate \cup {o} ELSE c.toAllocate,
         toStore |-> IF new \/ o \in ToSet(requested) THEN c.toStore \cup {o} ELSE c.toStore,
         noBlanks |-> c.noBlanks \cup ToSet(relatives) \cup (ToSet(properties) \cap visited)]

\* The candidates come in rounds, each farther from those requested than the last.
CollectCandidates(s, requested, c) ==
    FoldLeft(LAMBDA d, o : CollectOne(s, requested, d, o), [c EXCEPT !.candidates = <<>>],
             c.candidates)
Collect(s, requested) ==
    FoldLeft(LAMBDA c, k : CollectCandidates(s, requested, c),
             [visited |-> {}, candidates |-> requested, toAllocate |-> {}, toStore |-> {},
              noBlanks |-> ToSet(requested)],
             Times(MaxObjects + 1))

-------------------------------------------------------------------------------
(* Which nodes they have.                                                        *)

Names(s) == NodesOf(s.T) \cup s.used \cup {s.map[o] : o \in Object} \cup {s.O[o].uri : o \in Object}
AddBlankNode(s) == Fresh("blank", Names(s))
GetUniqueUri(s, kind) == Fresh(kind, Names(s))

\* Mutant: the new URI is not given to the object.
LeavesTheObject(s, noBlanks, o) ==
    IF s.map[o] # Nothing THEN s
    ELSE IF s.bp = "PermitBlankObjectNodes" /\ o \notin noBlanks
    THEN [s EXCEPT !.map[o] = AddBlankNode(s)]
    ELSE [s EXCEPT !.map[o] = GetUniqueUri(s, "uri")]

AllocateNode(s, noBlanks, o) ==
    IF s.map[o] # Nothing THEN s
    ELSE IF s.O[o].uri # Nothing THEN [s EXCEPT !.map[o] = s.O[o].uri]
    ELSE IF s.bp = "PermitBlankObjectNodes" /\ o \notin noBlanks
    THEN [s EXCEPT !.map[o] = AddBlankNode(s)]
    ELSE [s EXCEPT !.map[o] = GetUniqueUri(s, "uri"), !.O[o].uri = GetUniqueUri(s, "uri")]

-------------------------------------------------------------------------------
(* Property nodes and what they leave behind.                                    *)

IsListNode(T, n) ==
    /\ Cardinality(About(T, n)) = 2
    /\ \E t \in About(T, n) : t[2] \in {"first", "rest"}

\* Mutant: the rest of a list stays.
RemovesTheHead(T, n) == IF To(T, n) # {} THEN T ELSE T \ About(T, n)

\* A node that nothing refers to goes, and a list with it.  w: the triples, and the
\* nodes that may have to go.
RemoveNext(w) ==
    LET n == Head(w.nodes)
        rest == SetToSeq({t[3] : t \in Match(w.T, n, "rest")})
    IN  IF w.nodes = <<>> THEN w
        ELSE IF To(w.T, n) # {} THEN [w EXCEPT !.nodes = Tail(@)]
        ELSE [T |-> w.T \ About(w.T, n), nodes |-> rest \o Tail(w.nodes)]
RemoveUnusedNode(T, n) ==
    FoldLeft(LAMBDA w, k : RemoveNext(w), [T |-> T, nodes |-> <<n>>], Times(Cardinality(Links(T, "rest")) + 1)).T

\* Mutant: objects go with the last triple that refers to them, like list nodes.
RemovesUnusedObjects(T, t) == IF t[3] # t[1] THEN RemoveUnusedNode(T \ {t}, t[3]) ELSE T \ {t}

RemoveOne(T, t) ==
    LET left == T \ {t}
    IN  IF t[3] # t[1] /\ (IsBlank(t[3]) \/ IsListNode(left, t[3]))
        THEN RemoveUnusedNode(left, t[3]) ELSE left

RemovePropertyNodes(T, n, p, retain) ==
    FoldLeft(RemoveOne, T, SetToSeq({t \in Match(T, n, p) : t[3] \notin retain}))

ReplacePropertyNodes(T, n, p, values) ==
    RemovePropertyNodes(T, n, p, values) \cup {<<n, p, v>> : v \in values}

RemoveObject(T, n) ==
    LET properties == SetToSeq({t[2] : t \in About(T, n)})
        gone == FoldLeft(LAMBDA U, p : RemovePropertyNodes(U, n, p, {}), T, properties)
    IN  gone \ To(gone, n)

-------------------------------------------------------------------------------
(* Property values.                                                              *)

\* An object that is not to be stored is referred to by the URI it has, if any.
ObjectToPropertyNode(s, o) == IF s.map[o] # Nothing THEN s.map[o] ELSE s.O[o].uri
ValueToNode(s, v) == IF IsObject(v) THEN ObjectToPropertyNode(s, v[2]) ELSE v

ListNode(s, n) ==
    IF s.bp # "NeverUseBlankNodes" THEN AddBlankNode(s)
    ELSE IF n[1] = "uri" THEN <<"listnode", n[2]>>
    ELSE GetUniqueUri(s, "uri")

ReplaceOne(T, n, p, v) == (T \ Match(T, n, p)) \cup {<<n, p, v>>}

\* l: the call's state, and the first and the last node of the list so far.
AddToList(l, v) ==
    LET value == ValueToNode(l.s, v)
        node == ListNode(l.s, value)
        linked == IF l.last = Nothing THEN l.s.T ELSE ReplaceOne(l.s.T, l.last, "rest", node)
    IN  IF value = Nothing THEN l
        ELSE [s |-> [l.s EXCEPT !.T = ReplaceOne(linked, node, "first", value)],
              first |-> IF l.first = Nothing THEN node ELSE l.first,
              last |-> node]

EndList(l) ==
    IF l.last = Nothing THEN l ELSE [l EXCEPT !.s.T = ReplaceOne(@, l.last, "rest", Nil)]
ListToPropertyNode(s, list) ==
    EndList(FoldLeft(AddToList, [s |-> s, first |-> Nothing, last |-> Nothing], list))

\* Values that equal those of a new object: pointers and literals, not sequences.
VariantsEqual(x, y) == x = y
NodesOrNone(n) == {n} \ {Nothing}

StoreProperties(s, o) ==
    LET n == s.map[o]
        isDefault == s.psp = "StoreIfChanged" /\ VariantsEqual(s.O[o].lit, DefaultLit)
        lit == IF isDefault THEN RemovePropertyNodes(s.T, n, "lit", {})
               ELSE ReplacePropertyNodes(s.T, n, "lit", {<<"literal", s.O[o].lit>>})
        target == IF s.O[o].ref = Null THEN Nothing ELSE ObjectToPropertyNode(s, s.O[o].ref)
        ref == ReplacePropertyNodes(lit, n, "ref", NodesOrNone(target))
        ReplaceList(l) == [s EXCEPT !.T = ReplacePropertyNodes(l.s.T, n, "list", NodesOrNone(l.first))]
    IN  ReplaceList(ListToPropertyNode([s EXCEPT !.T = ref], s.O[o].list))

-------------------------------------------------------------------------------
(* Storing.                                                                      *)

PreviousSibling(O, o) ==
    LET siblings == O[O[o].parent].children
    IN  IF \E i \in 2..Len(siblings) : siblings[i] = o
        THEN siblings[(CHOOSE i \in 2..Len(siblings) : siblings[i] = o) - 1] ELSE Null

\* Mutant: an object that has no parent any more keeps the one it was stored with.
KeepsTheParent(s, o) ==
    IF s.O[o].parent = Null \/ s.map[s.O[o].parent] = Nothing THEN s
    ELSE [s EXCEPT !.T = ReplacePropertyNodes(@, s.map[o], "parent", {s.map[s.O[o].parent]})]

\* A parent without a node leaves the parent property as it was.
StoreParent(s, o) ==
    LET n == s.map[o]
        parent == s.O[o].parent
    IN  IF parent = Null THEN [s EXCEPT !.T = @ \ Match(@, n, "parent")]
        ELSE IF s.map[parent] = Nothing THEN s
        ELSE [s EXCEPT !.T = ReplacePropertyNodes(@, n, "parent", {s.map[parent]})]

StoreFollows(s, o) ==
    LET n == s.map[o]
        previous == IF s.O[o].parent = Null \/ "siblings" \notin s.fp THEN Null
                    ELSE PreviousSibling(s.O, o)
    IN  IF previous # Null /\ s.map[previous] # Nothing
        THEN [s EXCEPT !.T = ReplacePropertyNodes(@, n, "follows", {s.map[previous]})]
        ELSE [s EXCEPT !.T = @ \ Match(@, n, "follows")]

StoreSingle(s, o) == StoreProperties([s EXCEPT !.T = @ \cup {<<s.map[o], "type", KnownType>>}], o)
StoreObject(s, o) == StoreFollows(StoreParent(StoreSingle(s, o), o), o)

\* All of a call, with what it stored.
StoreCollected(s, c, order) ==
    LET allocated == FoldLeft(LAMBDA r, o : AllocateNode(r, c.noBlanks, o), s,
                              Ordered(c.toAllocate, order))
    IN  [s |-> FoldLeft(StoreObject, allocated, Ordered(c.toStore, order)),
         stored |-> c.toStore]
Store(s, requested, order) == StoreCollected(s, Collect(s, requested), order)
================================================================================
