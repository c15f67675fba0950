------------------------------ MODULE ObjectGraph ------------------------------
(* What ObjectStorer and ObjectLoader work on: a graph of QObjects, and the      *)
(* triples that stand for it in a store.                                         *)
(*                                                                               *)
(* The objects are of one class, that has a literal, an object and a sequence    *)
(* among its properties.  A client that deletes an object clears the properties  *)
(* of others that point to it.                                                   *)
EXTENDS Integers, Sequences, FiniteSets, SequencesExt

CONSTANTS
    MaxObjects, \* bound on the objects that live at a time
    Literals,   \* numbers of literal nodes
    DefaultLit  \* the one that a new object has for a property

ASSUME ObjectGraphConstants == MaxObjects \in Nat /\ DefaultLit \in Literals

Object == 1..MaxObjects
Null == 0

\* Nodes are pairs of a kind and a number.
Nothing == <<"nothing", 0>>
Nil == <<"nil", 0>>
KnownType == <<"class", 1>>
UnknownType == <<"class", 2>>
IsBlank(n) == n[1] = "blank"
IsLiteral(n) == n[1] = "literal"
IsUri(n) == n[1] \in {"uri", "listnode", "nil", "class"}

\* The elements of a sequence: objects and literals.
ToObject(o) == <<"object", o>>
IsObject(v) == v[1] = "object"

Dead == [alive |-> FALSE, uri |-> Nothing, parent |-> Null, children |-> <<>>,
         lit |-> DefaultLit, ref |-> Null, list |-> <<>>]
New(uri) == [Dead EXCEPT !.alive = TRUE, !.uri = uri]
Living(O) == {o \in Object : O[o].alive}

\* Objects refer to objects that live: pointers become null when these go.
IsSequence(s) == s \in Seq(ToSet(s))
IsList(s) ==
    IsSequence(s) /\ \A v \in ToSet(s) : IsLiteral(v) \/ \E o \in Object : v = ToObject(o)
IsObjectRecord(r) ==
    r = [alive |-> r.alive, uri |-> r.uri, parent |-> r.parent, children |-> r.children,
         lit |-> r.lit, ref |-> r.ref, list |-> r.list]
IsGraph(O) ==
    /\ O = [o \in Object |-> O[o]]
    /\ \A o \in Object :
        /\ IsObjectRecord(O[o]) /\ O[o].alive \in BOOLEAN
        /\ O[o].uri # Nothing => IsUri(O[o].uri)
        /\ O[o].ref # Null => O[o].ref \in Living(O)
        /\ IsSequence(O[o].list)
        /\ \A x \in Object : ToObject(x) \in ToSet(O[o].list) => x \in Living(O)

-------------------------------------------------------------------------------
(* QObject: parents own their children, in the order in which they came.         *)

\* The elements of a sequence that are in S.
Among(seq, S) == FoldLeft(LAMBDA c, x : IF x \in S THEN Append(c, x) ELSE c, <<>>, seq)
Without(seq, x) == Among(seq, ToSet(seq) \ {x})

Orphan(O, o) ==
    [O EXCEPT ![o].parent = Null,
              ![O[o].parent].children = Without(@, o)]
SetParent(O, o, p) ==
    LET alone == IF O[o].parent = Null THEN O ELSE Orphan(O, o)
    IN  IF p = Null THEN alone
        ELSE [alone EXCEPT ![o].parent = p, ![p].children = Append(@, o)]

\* An object and all that it owns: what is in every set that has it and, with each
\* of its members, the children.
Owning(O, S) == \A o \in S : ToSet(O[o].children) \subseteq S
Family(O, o) == {x \in Object : \A S \in SUBSET Object : o \in S /\ Owning(O, S) => x \in S}

\* Parents and children agree, and what does not live has neither.
IsForest(O) ==
    \A o \in Object :
        /\ O[o].parent # Null => /\ O[o].parent \in Living(O)
                                /\ o \in ToSet(O[O[o].parent].children)
        /\ IsSequence(O[o].children)
        /\ \A c \in ToSet(O[o].children) : c \in Living(O) /\ O[c].parent = o
        /\ o \notin Living(O) => O[o] = Dead

Delete(O, o) ==
    LET gone == Family(O, o) IN
    [x \in Object |->
        IF x \in gone THEN Dead
        ELSE [O[x] EXCEPT !.children = Without(@, o),
                          !.ref = IF @ \in gone THEN Null ELSE @,
                          !.list = Among(@, ToSet(@) \ {ToObject(y) : y \in gone})]]

Unused(O) == CHOOSE o \in Object : o \notin Living(O)

-------------------------------------------------------------------------------
(* Triples.                                                                      *)

Links(T, p) == {t \in T : t[2] = p}
Match(T, s, p) == {t \in T : t[1] = s /\ t[2] = p}
About(T, s) == {t \in T : t[1] = s}
To(T, n) == {t \in T : t[3] = n}
NodesOf(T) == UNION {{t[1], t[3]} : t \in T}
Typed(T) == {t[1] : t \in {u \in T : u[2] = "type"}}

\* matchOnce: the backend's choice among the triples that match.
ObjectOf(T, s, p) ==
    IF Match(T, s, p) = {} THEN Nothing ELSE (CHOOSE t \in Match(T, s, p) : TRUE)[3]

\* The object of a node, in a map that may lack it.
Value(map, n) == IF n \in DOMAIN map THEN map[n] ELSE Null

\* A loop is a fold of its body over Times(n), for an n that its rounds do not
\* exceed.
Times(n) == [k \in 1..n |-> k]

\* The nodes from n on, each one next(_) of the one before, until there is none:
\* <<>> if they go round in a circle.  links: the triples that lead to next nodes.
Extended(c, next) ==
    IF next = Nothing THEN c ELSE IF next \in ToSet(c) THEN <<>> ELSE Append(c, next)
Chain(links, next(_), n) ==
    FoldLeft(LAMBDA c, k : IF c = <<>> THEN c ELSE Extended(c, next(Last(c))),
             IF n = Nothing THEN <<>> ELSE <<n>>, Times(Cardinality(links)))

\* A new node of a kind, as getUniqueUri and addBlankNode make them.
Fresh(kind, used) ==
    LET numbers == {n[2] : n \in {m \in used : m[1] = kind}}
    IN  <<kind, CHOOSE k \in 1..Cardinality(numbers) + 1 : k \notin numbers>>

\* The order in which the elements of a QSet come: one, or its reverse.
Orders == {"up", "down"}
Ordered(S, order) == IF order = "up" THEN SetToSeq(S) ELSE Reverse(SetToSeq(S))
================================================================================
