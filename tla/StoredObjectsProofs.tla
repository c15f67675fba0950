-------------------------- MODULE StoredObjectsProofs --------------------------
(* What a client that stores, changes and reloads its objects can rely on: that    *)
(* the forest of objects and the nodes they have stay in order, that storing some  *)
(* objects rewrites no others, that lists leave nothing behind, that storing twice *)
(* is storing once, and that reloaded objects have what the store says.          *)
EXTENDS StoredObjects, ObjectGraphProofs

-------------------------------------------------------------------------------
(* Sequences.                                                                    *)

ElementsFold == INSTANCE FoldTheorems
    WITH Op <- LAMBDA c, x, S : IF x \in S THEN Append(c, x) ELSE c,
         Inv <- LAMBDA c, k, q : /\ c \in Seq(ToSet(q.seq))
                                 /\ \A i \in 1..k : q.seq[i] \in q.S => q.seq[i] \in ToSet(c)

LEMMA AppendedElements ==
  ASSUME NEW E, NEW c \in Seq(E), NEW x
  PROVE  ToSet(Append(c, x)) = ToSet(c) \cup {x}
<1>1. /\ Len(c) \in Nat /\ DOMAIN c = 1..Len(c) /\ Len(Append(c, x)) = Len(c) + 1
      /\ DOMAIN Append(c, x) = 1..Len(c) + 1
      /\ Append(c, x)[Len(c) + 1] = x /\ \A i \in 1..Len(c) : Append(c, x)[i] = c[i]
  <2>1. c \in Seq(E \cup {x}) /\ x \in E \cup {x}
    OBVIOUS
  <2>. QED  BY <2>1
<1>2. \A i \in 1..Len(c) + 1 : i \in 1..Len(c) \/ i = Len(c) + 1
  BY <1>1
<1>3. Len(c) + 1 \in 1..Len(c) + 1 /\ 1..Len(c) \subseteq 1..Len(c) + 1
  BY <1>1
<1>4. ToSet(Append(c, x)) = {Append(c, x)[i] : i \in 1..Len(c) + 1}
  BY <1>1 DEF ToSet
<1>5. ToSet(c) = {c[i] : i \in 1..Len(c)}
  BY <1>1 DEF ToSet
<1>. QED  BY <1>1, <1>2, <1>3, <1>4, <1>5

LEMMA AmongElements ==
  ASSUME NEW seq, IsSequence(seq), NEW S
  PROVE  ToSet(Among(seq, S)) = ToSet(seq) \cap S
<1>. DEFINE q == [seq |-> seq, S |-> S]
            r == ElementsFold!Fold(<<>>, seq, S)
            Holds(c, k) == /\ c \in Seq(ToSet(q.seq))
                           /\ \A i \in 1..k : q.seq[i] \in q.S => q.seq[i] \in ToSet(c)
<1>1. Among(seq, S) = r
  BY DEF Among, FoldLeft, MapThenFoldSet, Max, ElementsFold!Fold, ElementsFold!Largest
<1>2. q.seq = seq /\ q.S = S
  OBVIOUS
<1>. HIDE DEF q
<1>3. Len(seq) \in Nat /\ DOMAIN seq = 1..Len(seq) /\ \A i \in 1..Len(seq) : seq[i] \in ToSet(seq)
  BY SequenceDomain
<1>4. Holds(<<>>, 0)
  OBVIOUS
<1>5. ASSUME NEW c, NEW k \in 1..Len(seq), Holds(c, k - 1)
      PROVE  Holds(IF seq[k] \in S THEN Append(c, seq[k]) ELSE c, k)
  <2>1. \A i \in 1..k : i \in 1..k - 1 \/ i = k
    BY <1>3
  <2>2. CASE seq[k] \notin S
    BY <1>2, <1>5, <2>1, <2>2
  <2>3. CASE seq[k] \in S
    <3>1. c \in Seq(ToSet(seq)) /\ seq[k] \in ToSet(seq)
      BY <1>2, <1>3, <1>5
    <3>2. ToSet(Append(c, seq[k])) = ToSet(c) \cup {seq[k]}
      BY <3>1, AppendedElements
    <3>3. Append(c, seq[k]) \in Seq(ToSet(seq))
      BY <3>1
    <3>. QED  BY <1>2, <1>5, <2>1, <2>3, <3>2, <3>3
  <2>. QED  BY <2>2, <2>3
<1>6. Holds(r, Len(seq))
  <2>. HIDE DEF r
  <2>1. Holds(ElementsFold!Fold(<<>>, seq, S), Len(seq))
    BY <1>3, <1>4, <1>5, ElementsFold!FoldInduction
  <2>. QED  BY <2>1 DEF r
<1>. HIDE DEF r
<1>7. ToSet(seq) \cap S \subseteq ToSet(r)
  <2>1. ASSUME NEW x \in ToSet(seq) \cap S PROVE x \in ToSet(r)
    <3>1. PICK i \in 1..Len(seq) : x = seq[i]
      BY <1>3 DEF ToSet
    <3>. QED  BY <1>2, <1>6, <3>1
  <2>. QED  BY <2>1
<1>8. ToSet(Among(seq, S)) \subseteq ToSet(seq) \cap S
  BY AmongIsSequence
<1>. QED  BY <1>1, <1>7, <1>8

LEMMA EmptySequence == IsSequence(<<>>) /\ ToSet(<<>>) = {} /\ IsList(<<>>)
<1>1. IsSequence(<<>>) /\ ToSet(<<>>) = {}
  BY DEF IsSequence, ToSet
<1>. QED  BY <1>1 DEF IsList

LEMMA LongerSequence ==
  ASSUME NEW s, IsSequence(s), NEW x
  PROVE  IsSequence(Append(s, x)) /\ ToSet(Append(s, x)) = ToSet(s) \cup {x}
<1>. DEFINE E == ToSet(s) \cup {x}
<1>1. s \in Seq(E) /\ x \in E
  BY SequenceIn
<1>2. Append(s, x) \in Seq(E)
  BY <1>1
<1>. QED  BY <1>1, <1>2, SequenceOf, AppendedElements

LEMMA FewerValues ==
  ASSUME NEW s, IsList(s), NEW S
  PROVE  IsList(Among(s, S))
BY AmongIsSequence DEF IsList

-------------------------------------------------------------------------------
(* Forests.                                                                      *)

\* The objects in all states: a graph, its parents and children in order.
IsGrove(O) == IsGraph(O) /\ IsForest(O) /\ \A o \in Object : IsList(O[o].list)

\* A change that leaves parents and children alone.
LEMMA SameForest ==
  ASSUME NEW O, IsForest(O), NEW P,
         \A o \in Object : /\ P[o].parent = O[o].parent /\ P[o].children = O[o].children
                           /\ P[o].alive = O[o].alive /\ (o \notin Living(O) => P[o] = O[o])
  PROVE  IsForest(P)
<1>1. Living(P) = Living(O)
  BY DEF Living
<1>. QED  BY <1>1 DEF IsForest, Living

LEMMA OwnChildren ==
  ASSUME NEW O, NEW o \in Object
  PROVE  o \in Family(O, o) /\ \A x \in Family(O, o) : ToSet(O[x].children) \cap Object \subseteq Family(O, o)
BY DEF Family, Owning

\* Whoever is in a family and is not its head has its parent there.
LEMMA ParentsInFamily ==
  ASSUME NEW O, IsForest(O), NEW o \in Object, NEW c \in Family(O, o), c # o
  PROVE  O[c].parent \in Family(O, o)
<1>. DEFINE F == Family(O, o)
            S == F \ {c}
<1>. SUFFICES ASSUME O[c].parent \notin F PROVE FALSE
  OBVIOUS
<1>1. F \subseteq Object /\ S \in SUBSET Object /\ o \in S
  BY DEF Family
<1>2. Owning(O, S)
  <2>1. ASSUME NEW x \in S, NEW y \in ToSet(O[x].children) PROVE y \in S
    <3>1. y \in Object /\ O[y].parent = x
      BY <1>1, <2>1 DEF IsForest, Living
    <3>2. y \in F
      BY <2>1, <3>1, OwnChildren
    <3>. QED  BY <3>1, <3>2
  <2>. QED  BY <2>1 DEF Owning
<1>3. c \in S
  BY <1>1, <1>2 DEF Family
<1>. QED  BY <1>3

\* Deleting an object takes its family, and nobody else's children.
LEMMA DeleteKeepsForest ==
  ASSUME NEW O, IsGrove(O), NEW o \in Object
  PROVE  IsGrove(Delete(O, o))
<1>. DEFINE gone == Family(O, o)
            P == Delete(O, o)
            Kept(x) == [O[x] EXCEPT !.children = Without(@, o),
                                    !.ref = IF @ \in gone THEN Null ELSE @,
                                    !.list = Among(@, ToSet(@) \ {ToObject(y) : y \in gone})]
<1>1. IsGraph(O) /\ IsForest(O)
  BY DEF IsGrove
<1>2. IsGraph(P) /\ Living(P) = Living(O) \ gone /\ o \in gone /\ gone \subseteq Object
  BY <1>1, DeleteLeaves
<1>3. P = [x \in Object |-> IF x \in gone THEN Dead ELSE Kept(x)]
  BY DEF Delete
<1>4. ASSUME NEW c \in gone, c # o PROVE O[c].parent \in gone
  BY <1>1, <1>4, ParentsInFamily
<1>5. ASSUME NEW x \in gone PROVE ToSet(O[x].children) \cap Object \subseteq gone
  BY OwnChildren
<1>. HIDE DEF gone, P
<1>6. ASSUME NEW x \in Object
      PROVE  /\ Kept(x).parent = O[x].parent /\ Kept(x).children = Without(O[x].children, o)
             /\ Kept(x).list = Among(O[x].list, ToSet(O[x].list) \ {ToObject(y) : y \in gone})
             /\ Kept(x).alive = O[x].alive
  <2>. DEFINE c == Without(O[x].children, o)
              f == IF O[x].ref \in gone THEN Null ELSE O[x].ref
              l == Among(O[x].list, ToSet(O[x].list) \ {ToObject(y) : y \in gone})
  <2>1. IsObjectRecord(O[x])
    BY <1>1 DEF IsGraph
  <2>2. Kept(x) = [O[x] EXCEPT !.children = c, !.ref = f, !.list = l]
    OBVIOUS
  <2>. HIDE DEF Kept, c, f, l
  <2>3. /\ Kept(x).parent = O[x].parent /\ Kept(x).children = c /\ Kept(x).list = l
        /\ Kept(x).alive = O[x].alive
    BY <2>1, <2>2 DEF IsObjectRecord
  <2>. QED  BY <2>3 DEF c, l
<1>7. ASSUME NEW x \in Object \ Living(O), x \notin gone PROVE Kept(x) = Dead
  <2>1. O[x] = Dead
    BY <1>1, <1>7 DEF IsForest
  <2>2. Without(<<>>, o) = <<>>
    <3>1. IsSequence(Without(<<>>, o)) /\ ToSet(Without(<<>>, o)) \subseteq {}
      BY EmptySequence, AmongIsSequence DEF Without
    <3>2. Without(<<>>, o) \in Seq({})
      BY <3>1, SequenceIn
    <3>. QED  BY <3>2
  <2>3. ASSUME NEW S PROVE Among(<<>>, S) = <<>>
    <3>1. IsSequence(Among(<<>>, S)) /\ ToSet(Among(<<>>, S)) \subseteq {}
      BY EmptySequence, AmongIsSequence
    <3>2. Among(<<>>, S) \in Seq({})
      BY <3>1, SequenceIn
    <3>. QED  BY <3>2
  <2>4. Null \notin gone
    BY <1>2, ObjectGraphConstants DEF Null, Object
  <2>5. Dead = [alive |-> FALSE, uri |-> Nothing, parent |-> Null, children |-> <<>>,
                lit |-> DefaultLit, ref |-> Null, list |-> <<>>]
    BY DEF Dead
  <2>6. Kept(x) = [Dead EXCEPT !.children = Without(<<>>, o), !.ref = Null,
                               !.list = Among(<<>>, ToSet(<<>>) \ {ToObject(y) : y \in gone})]
    BY <2>1, <2>4, <2>5
  <2>7. Kept(x) = [Dead EXCEPT !.children = <<>>, !.ref = Null, !.list = <<>>]
    BY <2>2, <2>3, <2>6
  <2>. HIDE DEF Kept
  <2>. QED  BY <2>5, <2>7
<1>. HIDE DEF Kept
<1>8. IsForest(P)
  <2>. SUFFICES ASSUME NEW x \in Object
                PROVE  /\ P[x].parent # Null => /\ P[x].parent \in Living(P)
                                                /\ x \in ToSet(P[P[x].parent].children)
                       /\ IsSequence(P[x].children)
                       /\ \A c \in ToSet(P[x].children) : c \in Living(P) /\ P[c].parent = x
                       /\ x \notin Living(P) => P[x] = Dead
    BY DEF IsForest
  <2>1. CASE x \in gone
    <3>1. P[x] = Dead
      BY <1>3, <2>1
    <3>. QED  BY <3>1, EmptySequence DEF Dead
  <2>2. CASE x \notin gone
    <3>1. P[x] = Kept(x)
      BY <1>3, <2>2
    <3>2. IsSequence(O[x].children) /\ ToSet(P[x].children) = ToSet(O[x].children) \ {o}
      <4>1. IsSequence(O[x].children)
        BY <1>1 DEF IsForest
      <4>2. ToSet(Without(O[x].children, o)) = ToSet(O[x].children) \cap (ToSet(O[x].children) \ {o})
        BY <4>1, AmongElements DEF Without
      <4>. QED  BY <1>6, <3>1, <4>1, <4>2
    <3>3. IsSequence(P[x].children)
      <4>. DEFINE S == ToSet(O[x].children) \ {o}
      <4>1. P[x].children = Among(O[x].children, S)
        BY <1>6, <3>1 DEF Without
      <4>. HIDE DEF S
      <4>. QED  BY <3>2, <4>1, AmongIsSequence
    <3>4. ASSUME P[x].parent # Null
          PROVE  P[x].parent \in Living(P) /\ x \in ToSet(P[P[x].parent].children)
      <4>. DEFINE y == O[x].parent
      <4>1. P[x].parent = y /\ y \in Living(O) /\ x \in ToSet(O[y].children) /\ y \in Object
        BY <1>1, <1>6, <3>1, <3>4 DEF IsForest, Living
      <4>2. y \notin gone
        BY <1>5, <2>2, <4>1
      <4>3. ToSet(P[y].children) = ToSet(O[y].children) \ {o}
        <5>1. P[y].children = Without(O[y].children, o)
          BY <1>3, <1>6, <4>1, <4>2
        <5>2. IsSequence(O[y].children)
          BY <1>1, <4>1 DEF IsForest
        <5>3. ToSet(Without(O[y].children, o)) = ToSet(O[y].children) \cap (ToSet(O[y].children) \ {o})
          BY <5>2, AmongElements DEF Without
        <5>. QED  BY <5>1, <5>3
      <4>4. x # o
        BY <1>2, <2>2
      <4>. QED  BY <1>2, <4>1, <4>2, <4>3, <4>4
    <3>5. ASSUME NEW c \in ToSet(P[x].children) PROVE c \in Living(P) /\ P[c].parent = x
      <4>1. c \in ToSet(O[x].children) /\ c # o
        BY <3>2, <3>5
      <4>2. c \in Living(O) /\ O[c].parent = x /\ c \in Object
        BY <1>1, <4>1 DEF IsForest, Living
      <4>3. c \notin gone
        BY <1>4, <2>2, <4>1, <4>2
      <4>. QED  BY <1>2, <1>3, <1>6, <4>2, <4>3
    <3>6. x \notin Living(P) => P[x] = Dead
      BY <1>2, <1>7, <2>2, <3>1
    <3>. QED  BY <3>3, <3>4, <3>5, <3>6
  <2>. QED  BY <2>1, <2>2
<1>9. ASSUME NEW x \in Object PROVE IsList(P[x].list)
  <2>1. CASE x \in gone
    BY <1>3, <2>1, EmptySequence DEF Dead
  <2>2. CASE x \notin gone
    <3>1. P[x].list = Among(O[x].list, ToSet(O[x].list) \ {ToObject(y) : y \in gone})
      BY <1>3, <1>6, <2>2
    <3>2. IsList(O[x].list)
      BY DEF IsGrove
    <3>. DEFINE S == ToSet(O[x].list) \ {ToObject(y) : y \in gone}
    <3>. HIDE DEF S
    <3>3. IsList(Among(O[x].list, S))
      BY <3>2, FewerValues
    <3>. QED  BY <3>1, <3>3 DEF S
  <2>. QED  BY <2>1, <2>2
<1>. QED  BY <1>2, <1>8, <1>9 DEF IsGrove, P

\* Orphans, and objects that get a parent.
LEMMA OrphanKeepsForest ==
  ASSUME NEW O, IsGraph(O), IsForest(O), NEW o \in Living(O), O[o].parent # Null
  PROVE  /\ IsForest(Orphan(O, o)) /\ Orphan(O, o)[o].parent = Null
         /\ \A x \in Object : Orphan(O, o)[x].list = O[x].list
<1>. DEFINE q == O[o].parent
            P == Orphan(O, o)
            M == [O EXCEPT ![o].parent = Null]
            c == Without(O[q].children, o)
<1>1. /\ o \in Object /\ q \in Object /\ q \in Living(O) /\ o \in ToSet(O[q].children)
      /\ IsSequence(O[q].children)
  BY DEF IsForest, Living
<1>2. \A x \in Object : IsObjectRecord(O[x])
  BY DEF IsGraph
<1>3. DOMAIN M = Object
      /\ \A x \in Object : M[x] = IF x = o THEN [O[o] EXCEPT !.parent = Null] ELSE O[x]
  BY <1>1 DEF IsGraph
<1>. DEFINE r == [O[o] EXCEPT !.parent = Null]
<1>4. /\ IsObjectRecord(r) /\ r.parent = Null /\ r.children = O[o].children /\ r.list = O[o].list
      /\ r.alive = O[o].alive
  <2>1. IsObjectRecord(O[o])
    BY <1>1, <1>2
  <2>. QED  BY <2>1 DEF IsObjectRecord
<1>5. P = [M EXCEPT ![q].children = Without(M[q].children, o)]
  BY DEF Orphan
<1>. HIDE DEF M, r, P, c
<1>6. \A x \in Object : /\ IsObjectRecord(M[x]) /\ M[x].children = O[x].children
                        /\ M[x].list = O[x].list /\ M[x].alive = O[x].alive
                        /\ M[x].parent = IF x = o THEN Null ELSE O[x].parent
                        /\ x # o => M[x] = O[x]
  BY <1>2, <1>3, <1>4 DEF r
<1>7. P = [M EXCEPT ![q].children = c]
  BY <1>1, <1>5, <1>6 DEF c
<1>8. \A x \in Object : P[x] = IF x = q THEN [M[q] EXCEPT !.children = c] ELSE M[x]
  BY <1>1, <1>3, <1>7
<1>. DEFINE t == [M[q] EXCEPT !.children = c]
<1>9. t.children = c /\ t.parent = M[q].parent /\ t.list = M[q].list /\ t.alive = M[q].alive
  BY <1>1, <1>6 DEF IsObjectRecord
<1>. HIDE DEF t
<1>10. \A x \in Object : /\ P[x].children = IF x = q THEN c ELSE O[x].children
                         /\ P[x].list = O[x].list /\ P[x].alive = O[x].alive
                         /\ P[x].parent = IF x = o THEN Null ELSE O[x].parent
                         /\ x \notin {o, q} => P[x] = O[x]
  BY <1>6, <1>8, <1>9 DEF t
<1>11. IsSequence(c) /\ ToSet(c) = ToSet(O[q].children) \ {o}
  <2>. DEFINE S == ToSet(O[q].children) \ {o}
  <2>1. c = Among(O[q].children, S) /\ S = ToSet(O[q].children) \cap S
    BY DEF c, Without
  <2>2. IsSequence(c) /\ ToSet(c) = ToSet(O[q].children) \cap S
    <3>. HIDE DEF S
    <3>. QED  BY <1>1, <2>1, AmongIsSequence, AmongElements
  <2>. QED  BY <2>1, <2>2
<1>. HIDE DEF q
<1>12. Living(P) = Living(O)
  BY <1>10 DEF Living
<1>13. IsForest(P)
  <2>1. ASSUME NEW x \in Object, P[x].parent # Null
        PROVE  P[x].parent \in Living(P) /\ x \in ToSet(P[P[x].parent].children)
    <3>1. x # o /\ P[x].parent = O[x].parent
      BY <1>10, <2>1
    <3>2. O[x].parent \in Living(O) /\ O[x].parent \in Object /\ x \in ToSet(O[O[x].parent].children)
      BY <2>1, <3>1 DEF IsForest, Living
    <3>. QED  BY <1>10, <1>11, <1>12, <3>1, <3>2
  <2>2. ASSUME NEW x \in Object
        PROVE  /\ IsSequence(P[x].children)
               /\ \A y \in ToSet(P[x].children) : y \in Living(P) /\ P[y].parent = x
    <3>1. IsSequence(P[x].children) /\ ToSet(P[x].children) \subseteq ToSet(O[x].children)
      BY <1>10, <1>11 DEF IsForest
    <3>2. ASSUME NEW y \in ToSet(P[x].children) PROVE y \in Living(P) /\ P[y].parent = x
      <4>1. y \in Living(O) /\ O[y].parent = x /\ y \in Object
        BY <3>1, <3>2 DEF IsForest, Living
      <4>2. y # o
        <5>1. CASE x = q
          BY <1>10, <1>11, <3>2, <5>1
        <5>2. CASE x # q
          BY <4>1, <5>2 DEF q
        <5>. QED  BY <5>1, <5>2
      <4>. QED  BY <1>10, <1>12, <4>1, <4>2
    <3>. QED  BY <3>1, <3>2
  <2>3. ASSUME NEW x \in Object, x \notin Living(P) PROVE P[x] = Dead
    <3>1. O[x] = Dead /\ x \notin {o, q}
      BY <1>1, <1>12, <2>3 DEF IsForest
    <3>. QED  BY <1>10, <3>1
  <2>. QED  BY <2>1, <2>2, <2>3 DEF IsForest
<1>. QED  BY <1>1, <1>10, <1>13 DEF P

LEMMA SetParentKeepsForest ==
  ASSUME NEW O, IsGrove(O), NEW o \in Living(O), NEW p \in Living(O) \cup {Null}
  PROVE  IsGrove(SetParent(O, o, p)) /\ SameLives(O, SetParent(O, o, p))
<1>. DEFINE A == IF O[o].parent = Null THEN O ELSE Orphan(O, o)
            P == SetParent(O, o, p)
<1>1. IsGraph(O) /\ IsForest(O) /\ o \in Object
  BY DEF IsGrove, Living
<1>2. IsGraph(P) /\ SameLives(O, P)
  BY <1>1, SetParentKeeps
<1>3. IsGraph(A) /\ SameLives(O, A) /\ IsForest(A) /\ A[o].parent = Null
      /\ \A x \in Object : A[x].list = O[x].list
  <2>1. CASE O[o].parent = Null
    BY <1>1, <2>1 DEF SameLives
  <2>2. CASE O[o].parent # Null
    <3>1. IsForest(A) /\ A[o].parent = Null /\ \A x \in Object : A[x].list = O[x].list
      BY <1>1, <2>2, OrphanKeepsForest
    <3>2. SetParent(O, o, Null) = A
      BY DEF SetParent
    <3>3. IsGraph(SetParent(O, o, Null)) /\ SameLives(O, SetParent(O, o, Null))
      BY <1>1, SetParentKeeps
    <3>. QED  BY <3>1, <3>2, <3>3
  <2>. QED  BY <2>1, <2>2
<1>4. P = IF p = Null THEN A ELSE [A EXCEPT ![o].parent = p, ![p].children = Append(@, o)]
  BY DEF SetParent
<1>. HIDE DEF A, P
<1>a. \A x \in Object : IsList(A[x].list)
  <2>1. \A x \in Object : IsList(O[x].list)
    BY DEF IsGrove
  <2>. QED  BY <1>3, <2>1
<1>5. CASE p = Null
  <2>1. P = A
    BY <1>4, <1>5
  <2>. QED  BY <1>2, <1>3, <1>a, <2>1 DEF IsGrove, P
<1>6. CASE p # Null
  <2>. DEFINE M == [A EXCEPT ![o].parent = p]
              r == [A[o] EXCEPT !.parent = p]
              c == Append(A[p].children, o)
              t == [M[p] EXCEPT !.children = c]
  <2>1. p \in Object /\ \A x \in Object : IsObjectRecord(A[x])
    BY <1>3, <1>6 DEF IsGraph, Living
  <2>2. /\ IsObjectRecord(r) /\ r.parent = p /\ r.children = A[o].children /\ r.list = A[o].list
        /\ r.alive = A[o].alive
    <3>1. IsObjectRecord(A[o])
      BY <1>1, <2>1
    <3>. QED  BY <3>1 DEF IsObjectRecord
  <2>3. DOMAIN M = Object /\ \A x \in Object : M[x] = IF x = o THEN r ELSE A[x]
    BY <1>1, <1>3 DEF IsGraph
  <2>4. P = [M EXCEPT ![p].children = Append(M[p].children, o)]
    BY <1>4, <1>6
  <2>. HIDE DEF M, r
  <2>5. \A x \in Object : /\ IsObjectRecord(M[x]) /\ M[x].children = A[x].children
                          /\ M[x].list = A[x].list /\ M[x].alive = A[x].alive
                          /\ M[x].parent = IF x = o THEN p ELSE A[x].parent
                          /\ x # o => M[x] = A[x]
    BY <2>1, <2>2, <2>3
  <2>6. P = [M EXCEPT ![p].children = c]
    BY <2>1, <2>4, <2>5
  <2>. HIDE DEF c
  <2>7. \A x \in Object : P[x] = IF x = p THEN t ELSE M[x]
    BY <2>1, <2>3, <2>6
  <2>8. t.children = c /\ t.parent = M[p].parent /\ t.list = M[p].list /\ t.alive = M[p].alive
    BY <2>1, <2>5 DEF IsObjectRecord
  <2>. HIDE DEF t
  <2>9. \A x \in Object : /\ P[x].children = IF x = p THEN c ELSE A[x].children
                          /\ P[x].list = A[x].list /\ P[x].alive = A[x].alive
                          /\ P[x].parent = IF x = o THEN p ELSE A[x].parent
                          /\ x \notin {o, p} => P[x] = A[x]
    BY <2>5, <2>7, <2>8
  <2>10. IsSequence(c) /\ ToSet(c) = ToSet(A[p].children) \cup {o}
    BY <1>3, <2>1, LongerSequence DEF c, IsForest
  <2>11. Living(P) = Living(A) /\ o \in Living(P) /\ p \in Living(P)
    BY <1>1, <1>3, <1>6, <2>9 DEF Living, SameLives
  <2>12. IsForest(P)
    <3>1. ASSUME NEW x \in Object, P[x].parent # Null
          PROVE  P[x].parent \in Living(P) /\ x \in ToSet(P[P[x].parent].children)
      <4>1. CASE x = o
        BY <2>1, <2>9, <2>10, <2>11, <4>1
      <4>2. CASE x # o
        <5>1. /\ P[x].parent = A[x].parent /\ A[x].parent \in Living(A) /\ A[x].parent \in Object
              /\ x \in ToSet(A[A[x].parent].children)
          BY <1>3, <2>9, <3>1, <4>2 DEF IsForest, Living
        <5>. QED  BY <2>9, <2>10, <2>11, <5>1
      <4>. QED  BY <4>1, <4>2
    <3>2. ASSUME NEW x \in Object
          PROVE  /\ IsSequence(P[x].children)
                 /\ \A y \in ToSet(P[x].children) : y \in Living(P) /\ P[y].parent = x
      <4>1. IsSequence(P[x].children)
        BY <1>3, <2>9, <2>10 DEF IsForest
      <4>2. ASSUME NEW y \in ToSet(P[x].children) PROVE y \in Living(P) /\ P[y].parent = x
        <5>1. y \in ToSet(A[x].children) \/ (x = p /\ y = o)
          BY <2>9, <2>10, <4>2
        <5>2. CASE x = p /\ y = o
          BY <1>1, <2>9, <2>11, <5>2
        <5>3. CASE y \in ToSet(A[x].children)
          <6>1. y \in Living(A) /\ y \in Object /\ A[y].parent = x
            BY <1>3, <5>3 DEF IsForest, Living
          <6>2. y # o
            BY <1>3, <6>1, ObjectGraphConstants DEF Object, Null
          <6>. QED  BY <2>9, <2>11, <6>1, <6>2
        <5>. QED  BY <5>1, <5>2, <5>3
      <4>. QED  BY <4>1, <4>2
    <3>3. ASSUME NEW x \in Object, x \notin Living(P) PROVE P[x] = Dead
      <4>1. A[x] = Dead /\ x \notin {o, p}
        BY <1>3, <2>11, <3>3 DEF IsForest
      <4>. QED  BY <2>9, <4>1
    <3>. QED  BY <3>1, <3>2, <3>3 DEF IsForest
  <2>13. \A x \in Object : IsList(P[x].list)
    BY <1>a, <2>9
  <2>. QED  BY <1>2, <2>12, <2>13 DEF IsGrove, P
<1>. QED  BY <1>5, <1>6 DEF P

\* What a change of an object's URI or values leaves.
LEMMA ChangeInGrove ==
  ASSUME NEW O, IsGrove(O), NEW o \in Living(O), NEW r, IsObjectRecord(r),
         r.alive = O[o].alive, r.parent = O[o].parent, r.children = O[o].children,
         r.uri # Nothing => IsUri(r.uri), r.ref # Null => r.ref \in Living(O),
         IsList(r.list), \A x \in Object : ToObject(x) \in ToSet(r.list) => x \in Living(O)
  PROVE  /\ IsGrove([O EXCEPT ![o] = r]) /\ Living([O EXCEPT ![o] = r]) = Living(O)
         /\ \A x \in Object : [O EXCEPT ![o] = r][x] = IF x = o THEN r ELSE O[x]
<1>. DEFINE P == [O EXCEPT ![o] = r]
<1>1. o \in Object /\ IsGraph(O) /\ IsForest(O)
  BY DEF IsGrove, Living
<1>2. \A x \in Object : P[x] = IF x = o THEN r ELSE O[x]
  BY <1>1 DEF IsGraph
<1>3. IsGraph(P) /\ Living(P) = Living(O)
  BY <1>1, ChangeOfOne DEF IsList
<1>. HIDE DEF P
<1>4. \A x \in Object : /\ P[x].parent = O[x].parent /\ P[x].children = O[x].children
                        /\ P[x].alive = O[x].alive /\ (x \notin Living(O) => P[x] = O[x])
  BY <1>2
<1>5. IsForest(P)
  BY <1>1, <1>4, SameForest
<1>6. ASSUME NEW x \in Object PROVE IsList(P[x].list)
  <2>1. IsList(O[x].list)
    BY DEF IsGrove
  <2>. QED  BY <1>2, <2>1
<1>7. IsGrove(P)
  BY <1>3, <1>5, <1>6 DEF IsGrove
<1>. QED  BY <1>2, <1>3, <1>7 DEF P

LEMMA ValuesInGrove ==
  ASSUME NEW O, IsGrove(O), NEW o \in Living(O)
  PROVE  /\ IsObjectRecord(O[o])
         /\ O[o].uri # Nothing => IsUri(O[o].uri)
         /\ O[o].ref # Null => O[o].ref \in Living(O)
         /\ IsList(O[o].list)
         /\ \A x \in Object : ToObject(x) \in ToSet(O[o].list) => x \in Living(O)
<1>1. o \in Object
  BY DEF Living
<1>2. IsList(O[o].list)
  BY <1>1 DEF IsGrove
<1>3. IsGraph(O)
  BY DEF IsGrove
<1>4. IsObjectRecord(O[o])
  BY <1>1, <1>3 DEF IsGraph
<1>. QED  BY <1>1, <1>2, <1>3, <1>4 DEF IsGraph

LEMMA LitInGrove ==
  ASSUME NEW O, IsGrove(O), NEW o \in Living(O), NEW lit
  PROVE  LET P == [O EXCEPT ![o].lit = lit]
         IN  /\ IsGrove(P) /\ SameLives(O, P) /\ Living(P) = Living(O)
             /\ \A x \in Object : /\ P[x].lit = IF x = o THEN lit ELSE O[x].lit
                                  /\ P[x].ref = O[x].ref /\ P[x].list = O[x].list
                                  /\ P[x].parent = O[x].parent /\ P[x].children = O[x].children
<1>. DEFINE r == [O[o] EXCEPT !.lit = lit]
            P == [O EXCEPT ![o] = r]
<1>1. IsObjectRecord(O[o])
  BY ValuesInGrove
<1>2. /\ IsObjectRecord(r) /\ r.alive = O[o].alive /\ r.parent = O[o].parent
      /\ r.children = O[o].children /\ r.uri = O[o].uri /\ r.ref = O[o].ref /\ r.list = O[o].list
      /\ r.lit = lit
  BY <1>1 DEF IsObjectRecord
<1>. HIDE DEF r
<1>3. /\ IsGrove(P) /\ Living(P) = Living(O)
      /\ \A x \in Object : P[x] = IF x = o THEN r ELSE O[x]
  BY <1>2, ValuesInGrove, ChangeInGrove
<1>. HIDE DEF P
<1>4. SameLives(O, P) /\ \A x \in Object : /\ P[x].lit = IF x = o THEN lit ELSE O[x].lit
                        /\ P[x].ref = O[x].ref /\ P[x].list = O[x].list
                        /\ P[x].parent = O[x].parent /\ P[x].children = O[x].children
  BY <1>2, <1>3 DEF SameLives
<1>. QED  BY <1>3, <1>4 DEF P, r

LEMMA RefInGrove ==
  ASSUME NEW O, IsGrove(O), NEW o \in Living(O), NEW ref, ref # Null => ref \in Living(O)
  PROVE  LET P == [O EXCEPT ![o].ref = ref]
         IN  /\ IsGrove(P) /\ SameLives(O, P) /\ Living(P) = Living(O)
             /\ \A x \in Object : /\ P[x].ref = IF x = o THEN ref ELSE O[x].ref
                                  /\ P[x].lit = O[x].lit /\ P[x].list = O[x].list
                                  /\ P[x].parent = O[x].parent /\ P[x].children = O[x].children
<1>. DEFINE r == [O[o] EXCEPT !.ref = ref]
            P == [O EXCEPT ![o] = r]
<1>1. IsObjectRecord(O[o])
  BY ValuesInGrove
<1>2. /\ IsObjectRecord(r) /\ r.alive = O[o].alive /\ r.parent = O[o].parent
      /\ r.children = O[o].children /\ r.uri = O[o].uri /\ r.ref = ref /\ r.list = O[o].list
      /\ r.lit = O[o].lit
  BY <1>1 DEF IsObjectRecord
<1>. HIDE DEF r
<1>3. /\ IsGrove(P) /\ Living(P) = Living(O)
      /\ \A x \in Object : P[x] = IF x = o THEN r ELSE O[x]
  BY <1>2, ValuesInGrove, ChangeInGrove
<1>. HIDE DEF P
<1>4. SameLives(O, P) /\ \A x \in Object : /\ P[x].ref = IF x = o THEN ref ELSE O[x].ref
                        /\ P[x].lit = O[x].lit /\ P[x].list = O[x].list
                        /\ P[x].parent = O[x].parent /\ P[x].children = O[x].children
  BY <1>2, <1>3 DEF SameLives
<1>. QED  BY <1>3, <1>4 DEF P, r

LEMMA ListInGrove ==
  ASSUME NEW O, IsGrove(O), NEW o \in Living(O), NEW list, IsList(list),
         \A x \in Object : ToObject(x) \in ToSet(list) => x \in Living(O)
  PROVE  LET P == [O EXCEPT ![o].list = list]
         IN  /\ IsGrove(P) /\ SameLives(O, P) /\ Living(P) = Living(O)
             /\ \A x \in Object : /\ P[x].list = IF x = o THEN list ELSE O[x].list
                                  /\ P[x].lit = O[x].lit /\ P[x].ref = O[x].ref
                                  /\ P[x].parent = O[x].parent /\ P[x].children = O[x].children
<1>. DEFINE r == [O[o] EXCEPT !.list = list]
            P == [O EXCEPT ![o] = r]
<1>1. IsObjectRecord(O[o])
  BY ValuesInGrove
<1>2. /\ IsObjectRecord(r) /\ r.alive = O[o].alive /\ r.parent = O[o].parent
      /\ r.children = O[o].children /\ r.uri = O[o].uri /\ r.ref = O[o].ref /\ r.list = list
      /\ r.lit = O[o].lit
  BY <1>1 DEF IsObjectRecord
<1>. HIDE DEF r
<1>3. /\ IsGrove(P) /\ Living(P) = Living(O)
      /\ \A x \in Object : P[x] = IF x = o THEN r ELSE O[x]
  BY <1>2, ValuesInGrove, ChangeInGrove
<1>. HIDE DEF P
<1>4. SameLives(O, P) /\ \A x \in Object : /\ P[x].list = IF x = o THEN list ELSE O[x].list
                        /\ P[x].lit = O[x].lit /\ P[x].ref = O[x].ref
                        /\ P[x].parent = O[x].parent /\ P[x].children = O[x].children
  BY <1>2, <1>3 DEF SameLives
<1>. QED  BY <1>3, <1>4 DEF P, r

LEMMA UriInGrove ==
  ASSUME NEW O, IsGrove(O), NEW o \in Living(O), NEW u, IsUri(u)
  PROVE  LET P == [O EXCEPT ![o].uri = u]
         IN  /\ IsGrove(P) /\ Living(P) = Living(O)
             /\ \A x \in Object : /\ P[x].uri = IF x = o THEN u ELSE O[x].uri
                                  /\ P[x].lit = O[x].lit /\ P[x].ref = O[x].ref /\ P[x].list = O[x].list
                                  /\ P[x].parent = O[x].parent /\ P[x].children = O[x].children
<1>. DEFINE r == [O[o] EXCEPT !.uri = u]
            P == [O EXCEPT ![o] = r]
<1>1. IsObjectRecord(O[o])
  BY ValuesInGrove
<1>2. /\ IsObjectRecord(r) /\ r.alive = O[o].alive /\ r.parent = O[o].parent
      /\ r.children = O[o].children /\ r.uri = u /\ r.ref = O[o].ref /\ r.list = O[o].list
      /\ r.lit = O[o].lit
  BY <1>1 DEF IsObjectRecord
<1>. HIDE DEF r
<1>3. /\ IsGrove(P) /\ Living(P) = Living(O)
      /\ \A x \in Object : P[x] = IF x = o THEN r ELSE O[x]
  BY <1>2, ValuesInGrove, ChangeInGrove
<1>. HIDE DEF P
<1>4. \A x \in Object : /\ P[x].uri = IF x = o THEN u ELSE O[x].uri
                        /\ P[x].lit = O[x].lit /\ P[x].ref = O[x].ref /\ P[x].list = O[x].list
                        /\ P[x].parent = O[x].parent /\ P[x].children = O[x].children
  BY <1>2, <1>3
<1>. QED  BY <1>3, <1>4 DEF P, r

\* What a change of parents or children leaves alone.
KeepsProperties(O, P) ==
    \A x \in Object : P[x].lit = O[x].lit /\ P[x].ref = O[x].ref /\ P[x].list = O[x].list

LEMMA ChangeInTreeKeeps ==
  ASSUME NEW O, IsGraph(O), NEW q, NEW x
  PROVE  /\ KeepsProperties(O, [O EXCEPT ![q].parent = x])
         /\ KeepsProperties(O, [O EXCEPT ![q].children = x])
<1>. DEFINE a == [O[q] EXCEPT !.parent = x]
            b == [O[q] EXCEPT !.children = x]
<1>1. DOMAIN O = Object
  BY DEF IsGraph
<1>2. /\ a.lit = O[q].lit /\ a.ref = O[q].ref /\ a.list = O[q].list
      /\ b.lit = O[q].lit /\ b.ref = O[q].ref /\ b.list = O[q].list
  OBVIOUS
<1>. HIDE DEF a, b
<1>3. \A y \in Object : /\ [O EXCEPT ![q] = a][y] = IF y = q THEN a ELSE O[y]
                        /\ [O EXCEPT ![q] = b][y] = IF y = q THEN b ELSE O[y]
  BY <1>1
<1>4. KeepsProperties(O, [O EXCEPT ![q] = a]) /\ KeepsProperties(O, [O EXCEPT ![q] = b])
  BY <1>2, <1>3 DEF KeepsProperties
<1>. QED  BY <1>4 DEF a, b

LEMMA SetParentKeepsProperties ==
  ASSUME NEW O, IsGraph(O), NEW o, NEW p
  PROVE  KeepsProperties(O, SetParent(O, o, p))
<1>1. IsGraph(Orphan(O, o)) /\ KeepsProperties(O, Orphan(O, o))
  <2>. DEFINE P == [O EXCEPT ![o].parent = Null]
              q == O[o].parent
              c == Without(P[q].children, o)
  <2>1. Orphan(O, o) = [P EXCEPT ![q].children = c]
    BY DEF Orphan
  <2>2. IsGraph(P) /\ KeepsProperties(O, P)
    BY ChangeInTree, ChangeInTreeKeeps
  <2>. HIDE DEF P, q, c
  <2>3. IsGraph([P EXCEPT ![q].children = c]) /\ KeepsProperties(P, [P EXCEPT ![q].children = c])
    BY <2>2, ChangeInTree, ChangeInTreeKeeps
  <2>. QED  BY <2>1, <2>2, <2>3 DEF KeepsProperties
<1>2. ASSUME NEW P, IsGraph(P)
      PROVE  KeepsProperties(P, [P EXCEPT ![o].parent = p, ![p].children = Append(@, o)])
  <2>. DEFINE R == [P EXCEPT ![o].parent = p]
              c == Append(R[p].children, o)
  <2>1. [P EXCEPT ![o].parent = p, ![p].children = Append(@, o)] = [R EXCEPT ![p].children = c]
    OBVIOUS
  <2>2. IsGraph(R) /\ KeepsProperties(P, R)
    BY <1>2, ChangeInTree, ChangeInTreeKeeps
  <2>. HIDE DEF R, c
  <2>3. KeepsProperties(R, [R EXCEPT ![p].children = c])
    BY <2>2, ChangeInTreeKeeps
  <2>. QED  BY <2>1, <2>2, <2>3 DEF KeepsProperties
<1>. DEFINE alone == IF O[o].parent = Null THEN O ELSE Orphan(O, o)
<1>3. IsGraph(alone) /\ KeepsProperties(O, alone)
  BY <1>1 DEF KeepsProperties
<1>4. SetParent(O, o, p) = IF p = Null THEN alone
                           ELSE [alone EXCEPT ![o].parent = p, ![p].children = Append(@, o)]
  BY DEF SetParent
<1>. HIDE DEF alone
<1>5. KeepsProperties(alone, [alone EXCEPT ![o].parent = p, ![p].children = Append(@, o)])
  BY <1>2, <1>3
<1>. QED  BY <1>3, <1>4, <1>5 DEF KeepsProperties

\* An object that is made has no values, nor is it among anyone's children.
LEMMA NewInGrove ==
  ASSUME NEW O, IsGrove(O), NEW o \in Object \ Living(O), NEW u, u # Nothing => IsUri(u),
         NEW p \in Living(O) \cup {Null}
  PROVE  LET P == SetParent([O EXCEPT ![o] = New(u)], o, p)
         IN  /\ IsGrove(P) /\ Living(P) = Living(O) \cup {o} /\ P[o].uri = u
             /\ \A x \in Living(O) : /\ P[x].uri = O[x].uri
                                     /\ P[x].lit = O[x].lit /\ P[x].ref = O[x].ref /\ P[x].list = O[x].list
<1>. DEFINE M == [O EXCEPT ![o] = New(u)]
            P == SetParent(M, o, p)
<1>1. IsGraph(O) /\ IsForest(O) /\ \A x \in Object : IsList(O[x].list)
  BY DEF IsGrove
<1>2. DOMAIN M = Object /\ \A x \in Object : M[x] = IF x = o THEN New(u) ELSE O[x]
  BY <1>1 DEF IsGraph
<1>. HIDE DEF M
<1>3. New(u) = [alive |-> TRUE, uri |-> u, parent |-> Null, children |-> <<>>,
                lit |-> DefaultLit, ref |-> Null, list |-> <<>>]
  <2>. DEFINE d == Dead
  <2>1. /\ DOMAIN d = {"alive", "uri", "parent", "children", "lit", "ref", "list"}
        /\ d.parent = Null /\ d.children = <<>> /\ d.lit = DefaultLit /\ d.ref = Null /\ d.list = <<>>
    BY DEF Dead
  <2>2. New(u) = [d EXCEPT !.alive = TRUE, !.uri = u]
    BY DEF New
  <2>3. d = [x \in DOMAIN d |-> d[x]]
    BY DEF Dead
  <2>. HIDE DEF d
  <2>. QED  BY <2>1, <2>2, <2>3
<1>4. Living(M) = Living(O) \cup {o}
  BY <1>2, <1>3 DEF Living
<1>5. ASSUME NEW x \in Object
      PROVE  /\ IsObjectRecord(M[x]) /\ M[x].alive \in BOOLEAN
             /\ M[x].uri # Nothing => IsUri(M[x].uri)
             /\ M[x].ref # Null => M[x].ref \in Living(M)
             /\ IsList(M[x].list)
             /\ \A y \in Object : ToObject(y) \in ToSet(M[x].list) => y \in Living(M)
             /\ M[x].parent # Null => /\ M[x].parent \in Living(M)
                                      /\ x \in ToSet(M[M[x].parent].children)
             /\ IsSequence(M[x].children)
             /\ \A c \in ToSet(M[x].children) : c \in Living(M) /\ M[c].parent = x
             /\ x \notin Living(M) => M[x] = Dead
  <2>1. CASE x = o
    <3>1. M[x] = New(u)
      BY <1>2, <2>1
    <3>2. IsObjectRecord(New(u))
      BY <1>3 DEF IsObjectRecord
    <3>. QED  BY <1>3, <1>4, <2>1, <3>1, <3>2, EmptySequence
  <2>2. CASE x # o
    <3>1. M[x] = O[x]
      BY <1>2, <2>2
    <3>2. /\ O[x].parent # Null => /\ O[x].parent \in Living(O)
                                   /\ x \in ToSet(O[O[x].parent].children)
          /\ IsSequence(O[x].children)
          /\ \A c \in ToSet(O[x].children) : c \in Living(O) /\ O[c].parent = x
          /\ x \notin Living(O) => O[x] = Dead
      BY <1>1 DEF IsForest
    <3>3. \A y \in Living(O) : y \in Object /\ y # o /\ M[y] = O[y]
      BY <1>2 DEF Living
    <3>4. /\ O[x].alive \in BOOLEAN
          /\ O[x].uri # Nothing => IsUri(O[x].uri)
          /\ O[x].ref # Null => O[x].ref \in Living(O)
          /\ \A y \in Object : ToObject(y) \in ToSet(O[x].list) => y \in Living(O)
      BY <1>1 DEF IsGraph
    <3>5. IsObjectRecord(O[x])
      BY <1>1 DEF IsGraph
    <3>6. IsList(O[x].list)
      BY <1>1
    <3>. QED  BY <1>4, <3>1, <3>2, <3>3, <3>4, <3>5, <3>6
  <2>. QED  BY <2>1, <2>2
<1>6. M = [x \in Object |-> M[x]]
  <2>1. M = [x \in DOMAIN M |-> M[x]]
    BY <1>1 DEF M, IsGraph
  <2>. QED  BY <1>2, <2>1
<1>7. IsGraph(M)
  BY <1>5, <1>6 DEF IsGraph, IsList
<1>8. IsForest(M)
  BY <1>5 DEF IsForest
<1>9. IsGrove(M)
  BY <1>5, <1>7, <1>8 DEF IsGrove
<1>10. IsGrove(P) /\ SameLives(M, P) /\ KeepsProperties(M, P)
  BY <1>4, <1>7, <1>9, SetParentKeepsForest, SetParentKeepsProperties
<1>. HIDE DEF P
<1>11. Living(P) = Living(M) /\ \A x \in Object : P[x].uri = M[x].uri
  BY <1>10 DEF SameLives, Living
<1>12. M[o].uri = u /\ \A x \in Living(O) : M[x] = O[x] /\ x \in Object
  BY <1>2, <1>3 DEF Living
<1>13. \A x \in Living(O) : P[x].lit = O[x].lit /\ P[x].ref = O[x].ref /\ P[x].list = O[x].list
  BY <1>10, <1>12 DEF KeepsProperties
<1>. QED  BY <1>4, <1>10, <1>11, <1>12, <1>13 DEF P, M

-------------------------------------------------------------------------------
(* What the storer collects: all that the requested objects lead to.             *)

StorerFields == {"T", "O", "map", "used", "bp", "fp", "psp"}
IsStorerCall(s) ==
    /\ DOMAIN s = StorerFields /\ IsGrove(s.O) /\ s.map = [o \in Object |-> s.map[o]]
    /\ IsFiniteSet(s.T) /\ IsFiniteSet(s.used)

PropertiesOf(s, o) == IF "properties" \in s.fp THEN PropertyObjectsOf(s.O, o) ELSE <<>>
RelatedTo(s, o) == ToSet(RelativesOf(s, o)) \cup ToSet(PropertiesOf(s, o))
IsClosed(s, V) == \A o \in V : RelatedTo(s, o) \subseteq V

LEMMA ConcatElements ==
  ASSUME NEW E, NEW s \in Seq(E), NEW t \in Seq(E)
  PROVE  s \o t \in Seq(E) /\ ToSet(s \o t) = ToSet(s) \cup ToSet(t)
<1>. DEFINE u == s \o t
<1>1. /\ Len(s) \in Nat /\ DOMAIN s = 1..Len(s) /\ Len(t) \in Nat /\ DOMAIN t = 1..Len(t)
      /\ u \in Seq(E) /\ Len(u) = Len(s) + Len(t) /\ DOMAIN u = 1..Len(s) + Len(t)
      /\ \A i \in 1..Len(u) : u[i] = IF i <= Len(s) THEN s[i] ELSE t[i - Len(s)]
  OBVIOUS
<1>. HIDE DEF u
<1>2. ASSUME NEW x \in ToSet(u) PROVE x \in ToSet(s) \cup ToSet(t)
  <2>1. PICK i \in 1..Len(u) : x = u[i]
    BY <1>1 DEF ToSet
  <2>2. CASE i <= Len(s)
    BY <1>1, <2>1, <2>2 DEF ToSet
  <2>3. CASE i > Len(s)
    <3>1. i - Len(s) \in 1..Len(t) /\ x = t[i - Len(s)]
      BY <1>1, <2>1, <2>3
    <3>. QED  BY <1>1, <3>1 DEF ToSet
  <2>. QED  BY <1>1, <2>2, <2>3
<1>3. ASSUME NEW x \in ToSet(s) PROVE x \in ToSet(u)
  <2>1. PICK i \in 1..Len(s) : x = s[i]
    BY <1>1 DEF ToSet
  <2>2. i \in 1..Len(u) /\ u[i] = s[i]
    BY <1>1
  <2>. QED  BY <1>1, <2>1, <2>2 DEF ToSet
<1>4. ASSUME NEW x \in ToSet(t) PROVE x \in ToSet(u)
  <2>1. PICK i \in 1..Len(t) : x = t[i]
    BY <1>1 DEF ToSet
  <2>2. i + Len(s) \in 1..Len(u) /\ u[i + Len(s)] = t[i]
    BY <1>1
  <2>. QED  BY <1>1, <2>1, <2>2 DEF ToSet
<1>. QED  BY <1>1, <1>2, <1>3, <1>4 DEF u

LEMMA RelatedLive ==
  ASSUME NEW s, IsStorerCall(s), NEW o \in Living(s.O)
  PROVE  /\ RelativesOf(s, o) \in Seq(Living(s.O)) /\ PropertiesOf(s, o) \in Seq(Living(s.O))
         /\ RelativesOf(s, o) \o PropertiesOf(s, o) \in Seq(Living(s.O))
         /\ ToSet(RelativesOf(s, o) \o PropertiesOf(s, o)) = RelatedTo(s, o)
         /\ RelatedTo(s, o) \subseteq Living(s.O)
<1>. DEFINE L == Living(s.O)
            q == s.O[o].parent
            up == IF "parent" \in s.fp /\ q # Null THEN <<q>> ELSE <<>>
            down == IF "children" \in s.fp THEN s.O[o].children ELSE <<>>
            beside == IF "siblings" \in s.fp /\ q # Null THEN s.O[q].children ELSE <<>>
<1>1. IsGraph(s.O) /\ IsForest(s.O) /\ o \in Object
  BY DEF IsStorerCall, IsGrove, Living
<1>2. q # Null => q \in L /\ q \in Object
  BY <1>1 DEF IsForest, Living
<1>3. ASSUME NEW x \in Object PROVE s.O[x].children \in Seq(L)
  <2>1. IsSequence(s.O[x].children) /\ ToSet(s.O[x].children) \subseteq L
    BY <1>1 DEF IsForest
  <2>. QED  BY <2>1, SequenceIn
<1>4. PropertyObjectsOf(s.O, o) \in Seq(L)
  BY <1>1, PropertyObjectsLive
<1>. HIDE DEF L, q
<1>5. up \in Seq(L) /\ down \in Seq(L) /\ beside \in Seq(L)
  <2>1. up \in Seq(L)
    BY <1>2
  <2>2. down \in Seq(L)
    BY <1>1, <1>3
  <2>3. beside \in Seq(L)
    BY <1>2, <1>3
  <2>. QED  BY <2>1, <2>2, <2>3
<1>6. RelativesOf(s, o) = up \o down \o beside
  BY DEF RelativesOf, q
<1>7. PropertiesOf(s, o) \in Seq(L)
  BY <1>4 DEF PropertiesOf
<1>. HIDE DEF up, down, beside
<1>8. RelativesOf(s, o) \in Seq(L)
  BY <1>5, <1>6
<1>9. /\ RelativesOf(s, o) \o PropertiesOf(s, o) \in Seq(L)
      /\ ToSet(RelativesOf(s, o) \o PropertiesOf(s, o)) = RelatedTo(s, o)
  BY <1>7, <1>8, ConcatElements DEF RelatedTo
<1>10. RelatedTo(s, o) \subseteq L
  BY <1>9, SequenceOf
<1>. QED  BY <1>7, <1>8, <1>9, <1>10 DEF L

\* What has been collected from those who live: who has no node is to get one, and
\* only who was requested is stored besides.
CollectInv(c, s, requested) ==
    /\ DOMAIN c = {"visited", "candidates", "toAllocate", "toStore", "noBlanks"}
    /\ c.candidates \in Seq(Living(s.O)) /\ c.visited \subseteq Living(s.O)
    /\ c.toStore \subseteq c.visited
    /\ c.toAllocate = {o \in c.visited : s.map[o] = Nothing}
    /\ c.toStore = c.toAllocate \cup (c.visited \cap ToSet(requested))

LEMMA CollectOneKeeps ==
  ASSUME NEW s, IsStorerCall(s), NEW requested, NEW c, CollectInv(c, s, requested),
         NEW o \in Living(s.O)
  PROVE  LET d == CollectOne(s, requested, c, o)
         IN  /\ CollectInv(d, s, requested) /\ d.visited = c.visited \cup {o}
             /\ ToSet(d.candidates) \subseteq ToSet(c.candidates) \cup RelatedTo(s, o)
             /\ RelatedTo(s, o) \subseteq ToSet(d.candidates) \cup d.visited
             /\ ToSet(c.candidates) \subseteq ToSet(d.candidates)
<1>. DEFINE d == CollectOne(s, requested, c, o)
            visited == c.visited \cup {o}
            found == RelativesOf(s, o) \o PropertiesOf(s, o)
            more == Among(found, Object \ visited)
            L == Living(s.O)
<1>1. /\ DOMAIN d = {"visited", "candidates", "toAllocate", "toStore", "noBlanks"}
      /\ d.visited = visited /\ d.candidates = c.candidates \o more
      /\ d.toAllocate = IF s.map[o] = Nothing THEN c.toAllocate \cup {o} ELSE c.toAllocate
      /\ d.toStore = IF s.map[o] = Nothing \/ o \in ToSet(requested)
                     THEN c.toStore \cup {o} ELSE c.toStore
  BY DEF CollectOne, PropertiesOf
<1>2. found \in Seq(L) /\ ToSet(found) = RelatedTo(s, o) /\ RelatedTo(s, o) \subseteq L /\ o \in Object
      /\ L \subseteq Object
  BY RelatedLive DEF Living
<1>. HIDE DEF d, found
<1>3. IsSequence(found)
  BY <1>2, SequenceOf
<1>4. IsSequence(more) /\ ToSet(more) = RelatedTo(s, o) \cap (Object \ visited)
  <2>. DEFINE S == Object \ visited
  <2>. HIDE DEF S
  <2>1. IsSequence(Among(found, S)) /\ ToSet(Among(found, S)) = RelatedTo(s, o) \cap S
    BY <1>2, <1>3, AmongIsSequence, AmongElements
  <2>. QED  BY <2>1 DEF S
<1>. HIDE DEF more
<1>5. more \in Seq(L)
  BY <1>2, <1>4, SequenceIn
<1>6. d.candidates \in Seq(L) /\ ToSet(d.candidates) = ToSet(c.candidates) \cup ToSet(more)
  <2>1. c.candidates \in Seq(L)
    BY DEF CollectInv
  <2>. HIDE DEF L
  <2>. QED  BY <1>1, <1>5, <2>1, ConcatElements
<1>7. CollectInv(d, s, requested)
  BY <1>1, <1>6 DEF CollectInv
<1>. QED  BY <1>1, <1>2, <1>4, <1>6, <1>7 DEF d

\* Within a round: the candidates so far have been visited, and what they lead to
\* has been, is still to come in this round or will in the next.
InRound(c, k, q) ==
    /\ CollectInv(c, q.s, q.requested)
    /\ c.visited = q.c.visited \cup {q.c.candidates[i] : i \in 1..k}
    /\ \A o \in c.visited :
        RelatedTo(q.s, o) \subseteq c.visited \cup ToSet(c.candidates) \cup ToSet(q.c.candidates)
    /\ \A V : IsClosed(q.s, V) /\ q.c.visited \cup ToSet(q.c.candidates) \subseteq V
                => ToSet(c.candidates) \subseteq V

CandidatesFold == INSTANCE FoldTheorems
    WITH Op <- LAMBDA c, o, p : CollectOne(p.s, p.requested, c, o),
         Inv <- LAMBDA c, k, q : InRound(c, k, q)

LeadsOn(c, s) == \A o \in c.visited : RelatedTo(s, o) \subseteq c.visited \cup ToSet(c.candidates)

LEMMA RoundCollects ==
  ASSUME NEW s, IsStorerCall(s), NEW requested, NEW c, CollectInv(c, s, requested), LeadsOn(c, s)
  PROVE  LET d == CollectCandidates(s, requested, c)
         IN  /\ CollectInv(d, s, requested) /\ LeadsOn(d, s)
             /\ d.visited = c.visited \cup ToSet(c.candidates)
             /\ \A V : IsClosed(s, V) /\ c.visited \cup ToSet(c.candidates) \subseteq V
                         => ToSet(d.candidates) \subseteq V
<1>. DEFINE q == [s |-> s, requested |-> requested, c |-> c]
            base == [c EXCEPT !.candidates = <<>>]
            seq == c.candidates
            r == CandidatesFold!Fold(base, seq, q)
<1>1. CollectCandidates(q.s, q.requested, c) = r
  BY DEF CollectCandidates, FoldLeft, MapThenFoldSet, Max, CandidatesFold!Fold, CandidatesFold!Largest
<1>2. q.s = s /\ q.requested = requested /\ q.c = c
  OBVIOUS
<1>. HIDE DEF q
<1>3. Len(seq) \in Nat /\ DOMAIN seq = 1..Len(seq) /\ \A k \in 1..Len(seq) : seq[k] \in Living(s.O)
  BY DEF CollectInv
<1>4. InRound(base, 0, q)
  <2>1. /\ DOMAIN base = {"visited", "candidates", "toAllocate", "toStore", "noBlanks"}
        /\ base.visited = c.visited /\ base.candidates = <<>> /\ base.toAllocate = c.toAllocate
        /\ base.toStore = c.toStore
    BY DEF CollectInv
  <2>. HIDE DEF base
  <2>2. CollectInv(base, s, requested)
    BY <2>1 DEF CollectInv
  <2>3. {q.c.candidates[i] : i \in 1..0} = {}
    OBVIOUS
  <2>. QED  BY <1>2, <2>1, <2>2, <2>3, EmptySequence DEF InRound, LeadsOn
<1>5. ASSUME NEW d, NEW k \in 1..Len(seq), InRound(d, k - 1, q)
      PROVE  InRound(CollectOne(q.s, q.requested, d, seq[k]), k, q)
  <2>. DEFINE e == CollectOne(s, requested, d, seq[k])
  <2>1. /\ CollectInv(e, s, requested) /\ e.visited = d.visited \cup {seq[k]}
        /\ ToSet(e.candidates) \subseteq ToSet(d.candidates) \cup RelatedTo(s, seq[k])
        /\ RelatedTo(s, seq[k]) \subseteq ToSet(e.candidates) \cup e.visited
        /\ ToSet(d.candidates) \subseteq ToSet(e.candidates)
    <3>1. CollectInv(d, s, requested) /\ seq[k] \in Living(s.O)
      BY <1>2, <1>3, <1>5 DEF InRound
    <3>. QED  BY <3>1, CollectOneKeeps DEF e
  <2>. HIDE DEF e
  <2>2. 1..k = 1..k - 1 \cup {k}
    BY <1>3
  <2>3. {seq[i] : i \in 1..k} = {seq[i] : i \in 1..k - 1} \cup {seq[k]}
    BY <2>2
  <2>4. seq[k] \in ToSet(seq)
    BY <1>3 DEF ToSet
  <2>5. e.visited = c.visited \cup {seq[i] : i \in 1..k}
    BY <1>2, <1>5, <2>1, <2>3 DEF InRound
  <2>6. ASSUME NEW o \in e.visited
        PROVE  RelatedTo(s, o) \subseteq e.visited \cup ToSet(e.candidates) \cup ToSet(seq)
    BY <1>2, <1>5, <2>1, <2>6 DEF InRound
  <2>7. ASSUME NEW V, IsClosed(s, V), c.visited \cup ToSet(seq) \subseteq V
        PROVE  ToSet(e.candidates) \subseteq V
    <3>1. ToSet(d.candidates) \subseteq V
      BY <1>2, <1>5, <2>7 DEF InRound
    <3>2. RelatedTo(s, seq[k]) \subseteq V
      BY <2>4, <2>7 DEF IsClosed
    <3>. QED  BY <2>1, <3>1, <3>2
  <2>8. InRound(e, k, q)
    BY <1>2, <2>1, <2>5, <2>6, <2>7 DEF InRound
  <2>. QED  BY <1>2, <2>8 DEF e
<1>6. InRound(r, Len(seq), q)
  <2>. HIDE DEF base, r
  <2>1. InRound(CandidatesFold!Fold(base, seq, q), Len(seq), q)
    BY <1>3, <1>4, <1>5, CandidatesFold!FoldInduction
  <2>. QED  BY <2>1 DEF r
<1>. HIDE DEF r
<1>7. {seq[i] : i \in 1..Len(seq)} = ToSet(seq)
  BY <1>3 DEF ToSet
<1>8. r.visited = c.visited \cup ToSet(seq)
  BY <1>2, <1>6, <1>7 DEF InRound
<1>9. LeadsOn(r, s)
  BY <1>2, <1>6, <1>8 DEF InRound, LeadsOn
<1>. QED  BY <1>1, <1>2, <1>6, <1>8, <1>9 DEF InRound

\* The rounds are enough: with each, more is visited, or nothing is left to visit.
CollectedSoFar(c, k, q) ==
    /\ CollectInv(c, q.s, q.requested) /\ LeadsOn(c, q.s)
    /\ \A V : IsClosed(q.s, V) /\ ToSet(q.requested) \subseteq V
                => c.visited \cup ToSet(c.candidates) \subseteq V
    /\ k = 0 => c.candidates = q.requested
    /\ k >= 1 => ToSet(q.requested) \subseteq c.visited
    /\ k >= 1 => ToSet(c.candidates) \subseteq c.visited \/ Cardinality(c.visited) + 1 >= k

RoundsFold == INSTANCE FoldTheorems
    WITH Op <- LAMBDA c, k, p : CollectCandidates(p.s, p.requested, c),
         Inv <- LAMBDA c, k, q : CollectedSoFar(c, k, q)

LEMMA LiveAreFew ==
  ASSUME NEW O, NEW S \in SUBSET Living(O)
  PROVE  IsFiniteSet(S) /\ Cardinality(S) \in Nat /\ Cardinality(S) <= MaxObjects
<1>1. S \subseteq 1..MaxObjects /\ MaxObjects \in Nat
  BY ObjectGraphConstants DEF Living, Object
<1>2. IsFiniteSet(1..MaxObjects) /\ Cardinality(1..MaxObjects) = MaxObjects
  BY <1>1, FS_Interval
<1>3. IsFiniteSet(S) /\ Cardinality(S) <= Cardinality(1..MaxObjects)
  BY <1>1, <1>2, FS_Subset
<1>. QED  BY <1>2, <1>3, FS_CardinalityType

LEMMA CollectFinds ==
  ASSUME NEW s, IsStorerCall(s), NEW requested \in Seq(Living(s.O))
  PROVE  LET c == Collect(s, requested)
         IN  /\ CollectInv(c, s, requested)
             /\ ToSet(requested) \subseteq c.visited /\ IsClosed(s, c.visited)
             /\ \A V : IsClosed(s, V) /\ ToSet(requested) \subseteq V => c.visited \subseteq V
<1>. DEFINE q == [s |-> s, requested |-> requested]
            base == [visited |-> {}, candidates |-> requested, toAllocate |-> {},
                     toStore |-> {}, noBlanks |-> ToSet(requested)]
            N == MaxObjects + 1
            seq == Times(N)
            r == RoundsFold!Fold(base, seq, q)
<1>1. Collect(q.s, q.requested) = r
  BY DEF Collect, FoldLeft, MapThenFoldSet, Max, RoundsFold!Fold, RoundsFold!Largest
<1>2. q.s = s /\ q.requested = requested
  OBVIOUS
<1>. HIDE DEF q
<1>3. N \in Nat /\ N >= 1 /\ Len(seq) = N /\ DOMAIN seq = 1..N
  BY ObjectGraphConstants, TimesIsSequence DEF Times
<1>4. CollectedSoFar(base, 0, q)
  <2>1. CollectInv(base, s, requested)
    BY DEF CollectInv
  <2>. QED  BY <1>2, <2>1 DEF CollectedSoFar, LeadsOn
<1>5. ASSUME NEW c, NEW k \in 1..N, CollectedSoFar(c, k - 1, q)
      PROVE  CollectedSoFar(CollectCandidates(q.s, q.requested, c), k, q)
  <2>. DEFINE d == CollectCandidates(s, requested, c)
  <2>1. CollectInv(c, s, requested) /\ LeadsOn(c, s)
    BY <1>2, <1>5 DEF CollectedSoFar
  <2>2. /\ CollectInv(d, s, requested) /\ LeadsOn(d, s)
        /\ d.visited = c.visited \cup ToSet(c.candidates)
        /\ \A V : IsClosed(s, V) /\ c.visited \cup ToSet(c.candidates) \subseteq V
                    => ToSet(d.candidates) \subseteq V
    BY <2>1, RoundCollects
  <2>. HIDE DEF d
  <2>3. ASSUME NEW V, IsClosed(s, V), ToSet(requested) \subseteq V
        PROVE  d.visited \cup ToSet(d.candidates) \subseteq V
    BY <1>2, <1>5, <2>2, <2>3 DEF CollectedSoFar
  <2>4. ToSet(requested) \subseteq d.visited
    <3>1. CASE k = 1
      BY <1>2, <1>5, <2>2, <3>1 DEF CollectedSoFar
    <3>2. CASE k # 1
      <4>1. k - 1 >= 1
        BY <3>2
      <4>. QED  BY <1>2, <1>5, <2>2, <4>1 DEF CollectedSoFar
    <3>. QED  BY <3>1, <3>2
  <2>5. ToSet(d.candidates) \subseteq d.visited \/ Cardinality(d.visited) + 1 >= k
    <3>1. c.visited \subseteq Living(s.O) /\ d.visited \subseteq Living(s.O)
      BY <2>1, <2>2 DEF CollectInv
    <3>2. /\ IsFiniteSet(d.visited) /\ Cardinality(d.visited) \in Nat
          /\ Cardinality(c.visited) \in Nat
      BY <3>1, LiveAreFew
    <3>3. CASE k = 1
      BY <3>2, <3>3
    <3>4. CASE k # 1 /\ ToSet(c.candidates) \subseteq c.visited
      <4>1. IsClosed(s, c.visited)
        BY <2>1, <3>4 DEF LeadsOn, IsClosed
      <4>2. d.visited = c.visited /\ ToSet(d.candidates) \subseteq c.visited
        BY <2>2, <3>4, <4>1
      <4>. QED  BY <4>2
    <3>5. CASE k # 1 /\ ~(ToSet(c.candidates) \subseteq c.visited)
      <4>1. k - 1 >= 1 /\ Cardinality(c.visited) + 1 >= k - 1
        BY <1>5, <3>5 DEF CollectedSoFar
      <4>2. c.visited \subseteq d.visited /\ c.visited # d.visited
        BY <2>2, <3>5
      <4>3. Cardinality(c.visited) < Cardinality(d.visited)
        BY <3>2, <4>2, FS_Subset
      <4>. QED  BY <3>2, <4>1, <4>3
    <3>. QED  BY <3>3, <3>4, <3>5
  <2>6. k # 0
    OBVIOUS
  <2>7. CollectedSoFar(d, k, q)
    BY <1>2, <2>2, <2>3, <2>4, <2>5, <2>6 DEF CollectedSoFar
  <2>. QED  BY <1>2, <2>7 DEF d
<1>6. CollectedSoFar(r, N, q)
  <2>. HIDE DEF base, r, N
  <2>1. \A k \in 1..Len(seq) : k \in 1..N
    BY <1>3
  <2>. HIDE DEF seq
  <2>2. CollectedSoFar(RoundsFold!Fold(base, seq, q), Len(seq), q)
    BY <1>3, <1>4, <1>5, <2>1, RoundsFold!FoldInduction
  <2>. QED  BY <1>3, <2>2 DEF r
<1>. HIDE DEF r
<1>7. CollectInv(r, s, requested) /\ LeadsOn(r, s) /\ ToSet(requested) \subseteq r.visited
  BY <1>2, <1>3, <1>6 DEF CollectedSoFar
<1>8. ToSet(r.candidates) \subseteq r.visited
  <2>. SUFFICES ASSUME ~(ToSet(r.candidates) \subseteq r.visited) PROVE FALSE
    OBVIOUS
  <2>1. Cardinality(r.visited) + 1 >= MaxObjects + 1
    BY <1>3, <1>6 DEF CollectedSoFar
  <2>2. r.visited \subseteq Living(s.O) /\ Living(s.O) \subseteq Object /\ ToSet(r.candidates) \subseteq Living(s.O)
    <3>1. r.candidates \in Seq(Living(s.O)) /\ r.visited \subseteq Living(s.O)
      BY <1>7 DEF CollectInv
    <3>. QED  BY <3>1, SequenceOf DEF Living
  <2>3. Cardinality(r.visited) < Cardinality(Living(s.O))
    <3>1. r.visited # Living(s.O)
      BY <2>2
    <3>. QED  BY <2>2, <3>1, LiveAreFew, FS_Subset
  <2>4. /\ Cardinality(Living(s.O)) <= MaxObjects /\ Cardinality(Living(s.O)) \in Nat
        /\ Cardinality(r.visited) \in Nat
    BY <2>2, LiveAreFew
  <2>. QED  BY <2>1, <2>3, <2>4, ObjectGraphConstants
<1>9. IsClosed(s, r.visited)
  BY <1>7, <1>8 DEF IsClosed, LeadsOn
<1>10. \A V : IsClosed(s, V) /\ ToSet(requested) \subseteq V => r.visited \subseteq V
  BY <1>2, <1>6 DEF CollectedSoFar
<1>. QED  BY <1>1, <1>2, <1>7, <1>9, <1>10

-------------------------------------------------------------------------------
(* What the storer gives its objects for nodes.                                  *)

\* The client's map, and what it keeps to when it has not been lost.
NodesFit(O, map) ==
    \A o \in Object : map[o] # Nothing =>
        o \in Living(O) /\ (IsUri(map[o]) => O[o].uri = map[o])
NoNodeIsShared(map) == \A o, p \in Object : map[o] = map[p] /\ map[o] # Nothing => o = p
UrisAreNodes(O, map) == \A o \in Object : O[o].uri # Nothing => map[o] = O[o].uri

SameValues(O, P) ==
    /\ Living(P) = Living(O)
    /\ \A o \in Object : /\ P[o].lit = O[o].lit /\ P[o].ref = O[o].ref /\ P[o].list = O[o].list
                         /\ P[o].parent = O[o].parent /\ P[o].children = O[o].children

\* What an object's node is when it gets one.
IsNewNode(s, o, n) ==
    /\ n # Nothing
    /\ n = s.O[o].uri \/ /\ n \notin Names(s)
                         /\ n[1] = "uri" \/ (n[1] = "blank" /\ s.bp = "PermitBlankObjectNodes")

\* r: s when some of its objects have been given nodes.
Numbered(r, s) ==
    /\ IsStorerCall(r) /\ SameValues(s.O, r.O)
    /\ r.T = s.T /\ r.used = s.used /\ r.bp = s.bp /\ r.fp = s.fp /\ r.psp = s.psp
    /\ \A o \in Object :
        /\ r.map[o] = s.map[o] \/ (s.map[o] = Nothing /\ o \in Living(s.O) /\ IsNewNode(s, o, r.map[o]))
        /\ r.O[o].uri = s.O[o].uri \/ (s.O[o].uri = Nothing /\ r.O[o].uri = r.map[o])
    /\ NodesFit(s.O, s.map) => NodesFit(r.O, r.map)
    /\ NoNodeIsShared(s.map) /\ UrisAreNodes(s.O, s.map)
        => NoNodeIsShared(r.map) /\ UrisAreNodes(r.O, r.map)

LEMMA NodeIsNumbered ==
  ASSUME NEW s, NEW r, Numbered(r, s), NEW o \in Living(s.O), NEW noBlanks
  PROVE  /\ Numbered(AllocateNode(r, noBlanks, o), s)
         /\ AllocateNode(r, noBlanks, o).map[o] # Nothing
         /\ \A p \in Object : r.map[p] # Nothing => AllocateNode(r, noBlanks, o).map[p] = r.map[p]
<1>. DEFINE blank == AddBlankNode(r)
            uri == GetUniqueUri(r, "uri")
<1>1. /\ IsStorerCall(r) /\ o \in Living(r.O) /\ o \in Object
      /\ DOMAIN r = StorerFields /\ r.map = [p \in Object |-> r.map[p]]
      /\ IsGrove(r.O) /\ SameValues(s.O, r.O)
      /\ r.T = s.T /\ r.used = s.used /\ r.bp = s.bp /\ r.fp = s.fp /\ r.psp = s.psp
  BY DEF Numbered, IsStorerCall, SameValues, Living
<1>2. IsFiniteSet(Names(r)) /\ IsFiniteSet(r.T) /\ IsFiniteSet(r.used)
  BY <1>1, NamesAreFinite DEF IsStorerCall
<1>3. /\ blank \notin Names(r) /\ blank[1] = "blank"
      /\ uri \notin Names(r) /\ uri[1] = "uri"
  BY <1>2, FreshIsNew DEF AddBlankNode, GetUniqueUri
<1>4. blank # Nothing /\ uri # Nothing /\ IsUri(uri) /\ ~IsUri(blank)
  BY <1>3 DEF Nothing, IsUri
<1>. HIDE DEF blank, uri
<1>5. \A p \in Object :
        /\ r.map[p] = s.map[p] \/ (s.map[p] = Nothing /\ p \in Living(s.O) /\ IsNewNode(s, p, r.map[p]))
        /\ r.O[p].uri = s.O[p].uri \/ (s.O[p].uri = Nothing /\ r.O[p].uri = r.map[p])
  BY DEF Numbered
<1>6. Names(s) \subseteq Names(r) \cup {Nothing}
  <2>1. \A p \in Object : s.map[p] \in Names(r) \cup {Nothing}
    BY <1>5 DEF Names
  <2>2. \A p \in Object : s.O[p].uri \in Names(r) \cup {Nothing}
    BY <1>5 DEF Names
  <2>3. NodesOf(s.T) \cup s.used \subseteq Names(r)
    BY <1>1 DEF Names
  <2>. QED  BY <2>1, <2>2, <2>3 DEF Names
<1>7. \A p \in Object : r.map[p] \in Names(r) /\ r.O[p].uri \in Names(r)
  BY DEF Names
<1>. DEFINE a == AllocateNode(r, noBlanks, o)
<1>8. CASE r.map[o] # Nothing
  <2>1. a = r
    BY <1>8 DEF AllocateNode
  <2>. QED  BY <1>8, <2>1
<1>9. CASE r.map[o] = Nothing /\ r.O[o].uri # Nothing
  <2>. DEFINE n == r.O[o].uri
  <2>1. a = [r EXCEPT !.map[o] = n]
    BY <1>9 DEF AllocateNode
  <2>2. /\ DOMAIN a = StorerFields /\ a.T = r.T /\ a.O = r.O /\ a.used = r.used /\ a.bp = r.bp
        /\ a.fp = r.fp /\ a.psp = r.psp /\ a.map = [r.map EXCEPT ![o] = n]
    BY <1>1, <2>1 DEF StorerFields
  <2>. HIDE DEF a
  <2>3. /\ a.map = [p \in Object |-> a.map[p]]
        /\ \A p \in Object : a.map[p] = IF p = o THEN n ELSE r.map[p]
    BY <1>1, <2>2
  <2>4. IsStorerCall(a)
    BY <1>1, <1>2, <2>2, <2>3 DEF IsStorerCall
  <2>5. s.map[o] = Nothing /\ n = s.O[o].uri
    BY <1>1, <1>5, <1>9 DEF IsNewNode
  <2>6. IsNewNode(s, o, n)
    BY <1>9, <2>5 DEF IsNewNode
  <2>7. NodesFit(s.O, s.map) => NodesFit(a.O, a.map)
    BY <1>1, <2>2, <2>3 DEF NodesFit, Numbered
  <2>8. ~UrisAreNodes(r.O, r.map)
    BY <1>1, <1>9 DEF UrisAreNodes
  <2>9. ASSUME NEW p \in Object
        PROVE  /\ a.map[p] = s.map[p] \/ (s.map[p] = Nothing /\ p \in Living(s.O) /\ IsNewNode(s, p, a.map[p]))
               /\ a.O[p].uri = s.O[p].uri \/ (s.O[p].uri = Nothing /\ a.O[p].uri = a.map[p])
    <3>1. CASE p = o
      BY <2>2, <2>3, <2>5, <2>6, <3>1
    <3>2. CASE p # o
      BY <1>5, <2>2, <2>3, <3>2
    <3>. QED  BY <3>1, <3>2
  <2>10. Numbered(a, s)
    BY <1>1, <2>2, <2>4, <2>7, <2>8, <2>9 DEF Numbered
  <2>. QED  BY <1>1, <1>9, <2>3, <2>10 DEF a
<1>10. CASE r.map[o] = Nothing /\ r.O[o].uri = Nothing
  <2>. DEFINE isBlank == r.bp = "PermitBlankObjectNodes" /\ o \notin noBlanks
              n == IF isBlank THEN blank ELSE uri
              u == IF isBlank THEN r.O[o].uri ELSE uri
              P == [r.O EXCEPT ![o].uri = uri]
  <2>1. a = IF isBlank THEN [r EXCEPT !.map[o] = blank]
                       ELSE [r EXCEPT !.map[o] = uri, !.O[o].uri = uri]
    BY <1>10 DEF AllocateNode, blank, uri
  <2>2. /\ DOMAIN a = StorerFields /\ a.T = r.T /\ a.used = r.used /\ a.bp = r.bp
        /\ a.fp = r.fp /\ a.psp = r.psp /\ a.map = [r.map EXCEPT ![o] = n]
        /\ a.O = IF isBlank THEN r.O ELSE P
    <3>. HIDE DEF isBlank
    <3>1. CASE isBlank
      BY <1>1, <2>1, <3>1 DEF StorerFields
    <3>2. CASE ~isBlank
      <4>1. a = [r EXCEPT !.map = [r.map EXCEPT ![o] = uri], !.O = P]
        BY <2>1, <3>2
      <4>. HIDE DEF P, a
      <4>. QED  BY <1>1, <3>2, <4>1 DEF StorerFields
    <3>. QED  BY <3>1, <3>2
  <2>. HIDE DEF a
  <2>3. /\ IsGrove(P) /\ Living(P) = Living(r.O)
        /\ \A x \in Object : /\ P[x].uri = IF x = o THEN uri ELSE r.O[x].uri
                             /\ P[x].lit = r.O[x].lit /\ P[x].ref = r.O[x].ref /\ P[x].list = r.O[x].list
                             /\ P[x].parent = r.O[x].parent /\ P[x].children = r.O[x].children
    BY <1>1, <1>4, UriInGrove
  <2>4. IsGrove(a.O) /\ SameValues(s.O, a.O)
        /\ \A x \in Object : a.O[x].uri = IF x = o THEN u ELSE r.O[x].uri
    <3>. HIDE DEF P
    <3>1. SameValues(s.O, P)
      BY <1>1, <2>3 DEF SameValues
    <3>. QED  BY <1>1, <2>2, <2>3, <3>1
  <2>5. /\ a.map = [p \in Object |-> a.map[p]]
        /\ \A p \in Object : a.map[p] = IF p = o THEN n ELSE r.map[p]
    BY <1>1, <2>2
  <2>6. IsStorerCall(a)
    BY <1>1, <1>2, <2>2, <2>4, <2>5 DEF IsStorerCall
  <2>7. s.map[o] = Nothing /\ s.O[o].uri = Nothing
    BY <1>1, <1>5, <1>10 DEF IsNewNode
  <2>8. /\ n # Nothing /\ n \notin Names(r)
        /\ n[1] = "uri" \/ (n[1] = "blank" /\ s.bp = "PermitBlankObjectNodes")
        /\ u = Nothing \/ u = n
        /\ IsUri(n) => u = n
    BY <1>1, <1>3, <1>4, <1>10
  <2>. HIDE DEF n, u
  <2>9. IsNewNode(s, o, n)
    BY <1>6, <2>8 DEF IsNewNode
  <2>10. ASSUME NEW p \in Object
        PROVE  /\ a.map[p] = s.map[p] \/ (s.map[p] = Nothing /\ p \in Living(s.O) /\ IsNewNode(s, p, a.map[p]))
               /\ a.O[p].uri = s.O[p].uri \/ (s.O[p].uri = Nothing /\ a.O[p].uri = a.map[p])
    <3>1. CASE p = o
      BY <2>4, <2>5, <2>7, <2>8, <2>9, <3>1
    <3>2. CASE p # o
      BY <1>5, <2>4, <2>5, <3>2
    <3>. QED  BY <3>1, <3>2
  <2>11. NodesFit(s.O, s.map) => NodesFit(a.O, a.map)
    <3>. SUFFICES ASSUME NodesFit(r.O, r.map), NEW p \in Object, a.map[p] # Nothing
                  PROVE  p \in Living(a.O) /\ (IsUri(a.map[p]) => a.O[p].uri = a.map[p])
      BY DEF Numbered, NodesFit
    <3>1. Living(a.O) = Living(r.O)
      BY <1>1, <2>4 DEF SameValues
    <3>2. CASE p = o
      BY <1>1, <2>4, <2>5, <2>8, <3>1, <3>2
    <3>3. CASE p # o
      BY <2>4, <2>5, <3>1, <3>3 DEF NodesFit
    <3>. QED  BY <3>2, <3>3
  <2>12. ASSUME NoNodeIsShared(s.map), UrisAreNodes(s.O, s.map)
         PROVE  NoNodeIsShared(a.map) /\ UrisAreNodes(a.O, a.map)
    <3>1. NoNodeIsShared(r.map) /\ UrisAreNodes(r.O, r.map)
      BY <2>12 DEF Numbered
    <3>2. \A p \in Object : r.map[p] # n
      BY <1>7, <2>8
    <3>3. NoNodeIsShared(a.map)
      BY <2>5, <3>1, <3>2 DEF NoNodeIsShared
    <3>4. UrisAreNodes(a.O, a.map)
      BY <2>4, <2>5, <2>8, <3>1 DEF UrisAreNodes
    <3>. QED  BY <3>3, <3>4
  <2>13. Numbered(a, s)
    BY <1>1, <2>2, <2>4, <2>6, <2>10, <2>11, <2>12 DEF Numbered
  <2>. QED  BY <1>1, <1>10, <2>5, <2>8, <2>13 DEF a
<1>. QED  BY <1>8, <1>9, <1>10

NumberFold == INSTANCE FoldTheorems
    WITH Op <- LAMBDA r, o, p : AllocateNode(r, p, o),
         Inv <- LAMBDA r, k, q : Numbered(r, q.s) /\ \A i \in 1..k : r.map[q.seq[i]] # Nothing

\* All who are to have one get a node.
Allocated(s, c, order) ==
    FoldLeft(LAMBDA r, o : AllocateNode(r, c.noBlanks, o), s, Ordered(c.toAllocate, order))

LEMMA AllAreNumbered ==
  ASSUME NEW s, IsStorerCall(s), NEW c, c.toAllocate \subseteq Living(s.O), NEW order
  PROVE  /\ Numbered(Allocated(s, c, order), s)
         /\ \A o \in c.toAllocate : Allocated(s, c, order).map[o] # Nothing
<1>. DEFINE seq == Ordered(c.toAllocate, order)
            q == [s |-> s, seq |-> seq]
            r == NumberFold!Fold(s, seq, c.noBlanks)
            Holds(x, k) == Numbered(x, q.s) /\ \A i \in 1..k : x.map[q.seq[i]] # Nothing
<1>1. Allocated(s, c, order) = r
  BY DEF Allocated, FoldLeft, MapThenFoldSet, Max, NumberFold!Fold, NumberFold!Largest
<1>2. seq \in Seq(c.toAllocate) /\ ToSet(seq) = c.toAllocate
  BY LiveAreFew, OrderedIsSequence
<1>. HIDE DEF seq
<1>3. q.s = s /\ q.seq = seq
  OBVIOUS
<1>. HIDE DEF q
<1>4. Len(seq) \in Nat /\ DOMAIN seq = 1..Len(seq) /\ \A i \in 1..Len(seq) : seq[i] \in Living(s.O)
  BY <1>2
<1>5. Holds(s, 0)
  BY <1>3 DEF Numbered, SameValues
<1>6. ASSUME NEW x, NEW k \in 1..Len(seq), Holds(x, k - 1)
      PROVE  Holds(AllocateNode(x, c.noBlanks, seq[k]), k)
  <2>1. /\ Numbered(AllocateNode(x, c.noBlanks, seq[k]), s)
        /\ AllocateNode(x, c.noBlanks, seq[k]).map[seq[k]] # Nothing
        /\ \A p \in Object : x.map[p] # Nothing => AllocateNode(x, c.noBlanks, seq[k]).map[p] = x.map[p]
    <3>1. Numbered(x, s) /\ seq[k] \in Living(s.O)
      BY <1>3, <1>4, <1>6
    <3>. QED  BY <3>1, NodeIsNumbered
  <2>2. \A i \in 1..k : (i \in 1..k - 1 \/ i = k) /\ seq[i] \in Object
    BY <1>4 DEF Living
  <2>. QED  BY <1>3, <1>6, <2>1, <2>2
<1>7. Holds(r, Len(seq))
  <2>. HIDE DEF r
  <2>1. Holds(NumberFold!Fold(s, seq, c.noBlanks), Len(seq))
    BY <1>4, <1>5, <1>6, NumberFold!FoldInduction
  <2>. QED  BY <2>1 DEF r
<1>. HIDE DEF r
<1>8. \A o \in c.toAllocate : \E i \in 1..Len(seq) : o = seq[i]
  BY <1>2, <1>4 DEF ToSet
<1>. QED  BY <1>1, <1>3, <1>7, <1>8

-------------------------------------------------------------------------------
(* The triples in the store.                                                     *)

Cells == {"first", "rest"}
Predicates == {"type", "parent", "follows", "lit", "ref", "list", "first", "rest"}

\* The nodes of objects: those in the map, the objects' URIs, and the subjects of
\* what objects have.
ObjectNodes(T, map, O) ==
    ({map[o] : o \in Object} \cup {O[o].uri : o \in Object}
     \cup {t[1] : t \in {u \in T : u[2] \notin Cells}}) \ {Nothing}
AreNodes(N, bp) == \A n \in N : n[1] = "uri" \/ (n[1] = "blank" /\ bp = "PermitBlankObjectNodes")

\* No list begins or goes on with an object, and no object's property is a blank
\* node where objects have URIs.
Fits(t, N, bp) ==
    /\ t = <<t[1], t[2], t[3]>> /\ t[2] \in Predicates
    /\ t[2] \in Cells <=> t[1] \notin N
    /\ t[2] \in {"list", "rest"} => t[3] \notin N
    /\ bp = "NoBlankObjectNodes" => /\ t[2] \in Cells => IsBlank(t[1])
                                    /\ IsBlank(t[3]) => t[2] \in {"list", "rest"}
    /\ t[2] = "type" => t[3] \in {KnownType, UnknownType}
    /\ t[2] = "lit" => t[3][1] = "literal"
SingleValued(T) == \A t, u \in T : t[1] = u[1] /\ t[2] = u[2] /\ t[2] # "type" => t = u

\* Blank nodes that nothing refers to are in X.
NoneLost(T, X) == \A t \in T : IsBlank(t[1]) /\ t[1] \notin X => To(T, t[1]) # {}
InOrder(T, N, bp, X) ==
    /\ IsFiniteSet(T) /\ SingleValued(T) /\ \A t \in T : Fits(t, N, bp)
    /\ bp = "NoBlankObjectNodes" => NoneLost(T, X)

\* A node that is no list's, and that no removal of a list takes.
IsApart(T, m) ==
    ~IsBlank(m) /\ \A t \in T : (t[1] = m => t[2] \notin Cells) /\ (t[2] = "rest" => t[3] # m)

LEMMA ObjectsAreApart ==
  ASSUME NEW T, NEW N, NEW bp, \A t \in T : Fits(t, N, bp), NEW m \in N, ~IsBlank(m)
  PROVE  IsApart(T, m)
BY DEF IsApart, Fits

\* What removing a node that nothing refers to leaves.
Removal(w, k, q) ==
    /\ w.T \subseteq q.T /\ IsSequence(w.nodes) /\ w = [T |-> w.T, nodes |-> w.nodes]
    /\ q.m # q.n /\ IsApart(q.T, q.m) => About(w.T, q.m) = About(q.T, q.m) /\ q.m \notin ToSet(w.nodes)
    /\ q.bp = "NoBlankObjectNodes" /\ InOrder(q.T, q.N, q.bp, q.X \cup {q.n}) /\ q.n \notin q.N =>
        /\ NoneLost(w.T, q.X \cup ToSet(w.nodes)) /\ ToSet(w.nodes) \cap q.N = {}
        /\ Len(w.nodes) + Cardinality(Links(w.T, "rest")) + k <= Cardinality(Links(q.T, "rest")) + 1
           \/ w.nodes = <<>>

ListFold == INSTANCE FoldTheorems
    WITH Op <- LAMBDA w, k, p : RemoveNext(w),
         Inv <- LAMBDA w, k, q : Removal(w, k, q)

LEMMA SequenceOfOne ==
  ASSUME NEW x
  PROVE  IsSequence(<<x>>) /\ ToSet(<<x>>) = {x} /\ Len(<<x>>) = 1
<1>1. <<x>> \in Seq({x}) /\ Len(<<x>>) = 1
  OBVIOUS
<1>2. x \in ToSet(<<x>>)
  BY <1>1 DEF ToSet
<1>. QED  BY <1>1, <1>2, SequenceOf

LEMMA FewElements ==
  ASSUME NEW x
  PROVE  SetToSeq({}) = <<>> /\ Len(SetToSeq({x})) = 1
<1>1. IsFiniteSet({}) /\ IsFiniteSet({x}) /\ Cardinality({x}) = 1
  BY FS_EmptySet, FS_Singleton
<1>2. SetToSeq({}) \in Seq({})
  BY <1>1, SetToSeqIsSequence
<1>3. 1 \in Nat /\ ExistsBijection(1..1, {x})
  BY <1>1, FS_CardinalityType
<1>4. \E f \in [1..1 -> {x}] : IsInjective(f)
  <2>1. [i \in 1..1 |-> x] \in [1..1 -> {x}] /\ IsInjective([i \in 1..1 |-> x])
    BY DEF IsInjective
  <2>. QED  BY <2>1
<1>5. SetToSeq({x}) \in [1..1 -> {x}]
  BY <1>1, <1>4 DEF SetToSeq
<1>6. Len(SetToSeq({x})) = 1
  BY <1>5
<1>. QED  BY <1>2, <1>6

LEMMA RestOfSequence ==
  ASSUME NEW s, IsSequence(s), s # <<>>
  PROVE  /\ IsSequence(Tail(s)) /\ Len(Tail(s)) = Len(s) - 1 /\ Len(s) >= 1
         /\ ToSet(s) = ToSet(Tail(s)) \cup {Head(s)}
<1>. DEFINE E == ToSet(s)
            r == Tail(s)
<1>1. s \in Seq(E)
  BY DEF IsSequence
<1>2. /\ Len(s) \in Nat /\ DOMAIN s = 1..Len(s) /\ Len(s) >= 1 /\ Head(s) = s[1] /\ Head(s) \in E
      /\ r \in Seq(E) /\ Len(r) = Len(s) - 1 /\ DOMAIN r = 1..Len(s) - 1
      /\ \A i \in 1..Len(s) - 1 : r[i] = s[i + 1]
  <2>. HIDE DEF E
  <2>. QED  BY <1>1
<1>. HIDE DEF r
<1>3. ASSUME NEW x \in E PROVE x \in ToSet(r) \cup {Head(s)}
  <2>1. PICK i \in 1..Len(s) : x = s[i]
    BY <1>2 DEF ToSet
  <2>2. CASE i # 1
    <3>1. i - 1 \in 1..Len(s) - 1 /\ x = r[i - 1]
      BY <1>2, <2>1, <2>2
    <3>. QED  BY <1>2, <3>1 DEF ToSet
  <2>. QED  BY <1>2, <2>1, <2>2
<1>4. IsSequence(r) /\ ToSet(r) \subseteq E
  BY <1>2, SequenceOf
<1>. QED  BY <1>2, <1>3, <1>4 DEF r


LEMMA RemovalGoesOn ==
  ASSUME NEW q, IsFiniteSet(q.T), NEW w, NEW k \in Nat, Removal(w, k, q)
  PROVE  Removal(RemoveNext(w), k + 1, q)
<1>. DEFINE n == Head(w.nodes)
            targets == {t[3] : t \in Match(w.T, n, "rest")}
            rest == SetToSeq(targets)
            v == RemoveNext(w)
            counted == q.bp = "NoBlankObjectNodes" /\ InOrder(q.T, q.N, q.bp, q.X \cup {q.n}) /\ q.n \notin q.N
<1>1. w.T \subseteq q.T /\ IsSequence(w.nodes) /\ IsFiniteSet(w.T) /\ w = [T |-> w.T, nodes |-> w.nodes]
  <2>1. w.T \subseteq q.T /\ IsSequence(w.nodes) /\ w = [T |-> w.T, nodes |-> w.nodes]
    BY DEF Removal
  <2>. QED  BY <2>1, FS_Subset
<1>2. CASE w.nodes = <<>>
  <2>1. v = w
    BY <1>2 DEF RemoveNext
  <2>. HIDE DEF v
  <2>. QED  BY <1>2, <2>1 DEF Removal, v
<1>3. CASE w.nodes # <<>>
  <2>1. /\ IsSequence(Tail(w.nodes)) /\ Len(Tail(w.nodes)) = Len(w.nodes) - 1
        /\ Len(w.nodes) \in Nat /\ Len(w.nodes) >= 1
        /\ ToSet(w.nodes) = ToSet(Tail(w.nodes)) \cup {n}
    BY <1>1, <1>3, RestOfSequence, SequenceDomain
  <2>2. Cardinality(Links(w.T, "rest")) \in Nat /\ Cardinality(Links(q.T, "rest")) \in Nat
    BY <1>1, LinksAreFinite
  <2>3. CASE To(w.T, n) # {}
    <3>1. v = [w EXCEPT !.nodes = Tail(@)]
      BY <1>3, <2>3 DEF RemoveNext
    <3>2. w.T = v.T /\ v.nodes = Tail(w.nodes) /\ v = [T |-> v.T, nodes |-> v.nodes]
      BY <1>1, <3>1
    <3>. HIDE DEF v, n
    <3>3. q.m # q.n /\ IsApart(q.T, q.m) => About(v.T, q.m) = About(q.T, q.m) /\ q.m \notin ToSet(v.nodes)
      BY <2>1, <3>2 DEF Removal
    <3>4. ASSUME counted
          PROVE  /\ NoneLost(v.T, q.X \cup ToSet(v.nodes)) /\ ToSet(v.nodes) \cap q.N = {}
                 /\ Len(v.nodes) + Cardinality(Links(v.T, "rest")) + (k + 1) <= Cardinality(Links(q.T, "rest")) + 1
                    \/ v.nodes = <<>>
      <4>1. /\ NoneLost(w.T, q.X \cup ToSet(w.nodes)) /\ ToSet(w.nodes) \cap q.N = {}
            /\ Len(w.nodes) + Cardinality(Links(w.T, "rest")) + k <= Cardinality(Links(q.T, "rest")) + 1
        BY <1>3, <3>4 DEF Removal
      <4>2. NoneLost(v.T, q.X \cup ToSet(v.nodes))
        BY <2>1, <2>3, <3>2, <4>1 DEF NoneLost
      <4>3. Len(v.nodes) + Cardinality(Links(v.T, "rest")) + (k + 1) <= Cardinality(Links(q.T, "rest")) + 1
        BY <2>1, <2>2, <3>2, <4>1
      <4>. QED  BY <2>1, <3>2, <4>1, <4>2, <4>3
    <3>5. v.T \subseteq q.T /\ IsSequence(v.nodes)
      BY <1>1, <2>1, <3>2
    <3>. HIDE DEF counted
    <3>6. Removal(v, k + 1, q)
      BY <3>2, <3>3, <3>4, <3>5 DEF Removal, counted
    <3>. QED  BY <3>6 DEF v
  <2>4. CASE To(w.T, n) = {}
    <3>1. v = [T |-> w.T \ About(w.T, n), nodes |-> rest \o Tail(w.nodes)]
      BY <1>3, <2>4 DEF RemoveNext
    <3>2. v.T = w.T \ About(w.T, n) /\ v.nodes = rest \o Tail(w.nodes) /\ v = [T |-> v.T, nodes |-> v.nodes]
      <4>. HIDE DEF v, n, rest
      <4>. QED  BY <3>1
    <3>3. IsFiniteSet(targets)
      <4>1. IsFiniteSet(Match(w.T, n, "rest"))
        BY <1>1, FS_Subset DEF Match
      <4>. DEFINE M == Match(w.T, n, "rest")
                  third == [t \in M |-> t[3]]
      <4>2. targets \subseteq {third[t] : t \in M}
        <5>1. ASSUME NEW t \in M PROVE t[3] \in {third[u] : u \in M}
          <6>1. t[3] = third[t]
            OBVIOUS
          <6>. HIDE DEF third, M
          <6>. QED  BY <6>1
        <5>. QED  BY <5>1
      <4>3. IsFiniteSet({third[t] : t \in M})
        <5>. HIDE DEF third
        <5>. QED  BY <4>1, FiniteImage
      <4>. QED  BY <4>2, <4>3, FS_Subset
    <3>4. rest \in Seq(targets) /\ ToSet(rest) = targets
      BY <3>3, SetToSeqIsSequence
    <3>. DEFINE others == Tail(w.nodes)
    <3>5. /\ IsSequence(v.nodes) /\ ToSet(v.nodes) = targets \cup ToSet(others)
          /\ Len(v.nodes) = Len(rest) + Len(w.nodes) - 1 /\ Len(rest) \in Nat
      <4>. DEFINE E == targets \cup ToSet(others)
      <4>1. rest \in Seq(E) /\ others \in Seq(E)
        <5>. HIDE DEF targets, rest, others
        <5>1. IsSequence(others)
          BY <2>1 DEF others
        <5>. QED  BY <3>4, <5>1, SequenceIn
      <4>. HIDE DEF E, rest, others
      <4>2. v.nodes \in Seq(E) /\ ToSet(v.nodes) = ToSet(rest) \cup ToSet(others)
        <5>1. v.nodes = rest \o others
          BY <3>2 DEF others
        <5>. QED  BY <4>1, <5>1, ConcatElements
      <4>3. Len(v.nodes) = Len(rest) + Len(others) /\ Len(rest) \in Nat
        BY <3>2, <4>1 DEF others
      <4>. QED  BY <2>1, <3>4, <4>2, <4>3, SequenceOf DEF others
    <3>. HIDE DEF v, n, rest, others
    <3>6. ASSUME q.m # q.n, IsApart(q.T, q.m)
          PROVE  About(v.T, q.m) = About(q.T, q.m) /\ q.m \notin ToSet(v.nodes)
      <4>1. About(w.T, q.m) = About(q.T, q.m) /\ q.m \notin ToSet(w.nodes)
        BY <3>6 DEF Removal
      <4>2. q.m # n /\ q.m \notin ToSet(others)
        BY <2>1, <4>1 DEF others
      <4>3. q.m \notin targets
        BY <1>1, <3>6 DEF IsApart, Match
      <4>4. About(v.T, q.m) = About(w.T, q.m)
        BY <3>2, <4>2 DEF About
      <4>. QED  BY <3>5, <4>1, <4>2, <4>3, <4>4
    <3>7. ASSUME counted
          PROVE  /\ NoneLost(v.T, q.X \cup ToSet(v.nodes)) /\ ToSet(v.nodes) \cap q.N = {}
                 /\ Len(v.nodes) + Cardinality(Links(v.T, "rest")) + (k + 1) <= Cardinality(Links(q.T, "rest")) + 1
                    \/ v.nodes = <<>>
      <4>1. /\ NoneLost(w.T, q.X \cup ToSet(w.nodes)) /\ ToSet(w.nodes) \cap q.N = {}
            /\ Len(w.nodes) + Cardinality(Links(w.T, "rest")) + k <= Cardinality(Links(q.T, "rest")) + 1
        BY <1>3, <3>7 DEF Removal
      <4>2. n \notin q.N
        BY <2>1, <4>1
      <4>3. \A t \in w.T : Fits(t, q.N, q.bp) /\ \A u \in w.T : t[1] = u[1] /\ t[2] = u[2] /\ t[2] # "type" => t = u
        BY <1>1, <3>7 DEF InOrder, SingleValued
      <4>4. NoneLost(v.T, q.X \cup ToSet(v.nodes))
        <5>. SUFFICES ASSUME NEW t \in v.T, IsBlank(t[1]), t[1] \notin q.X \cup ToSet(v.nodes), To(v.T, t[1]) = {}
                      PROVE  FALSE
          BY DEF NoneLost
        <5>1. t \in w.T /\ t[1] # n
          BY <3>2 DEF About
        <5>2. t[1] \notin q.X \cup ToSet(w.nodes)
          BY <2>1, <3>5, <5>1 DEF others
        <5>3. PICK u \in To(w.T, t[1]) : TRUE
          BY <4>1, <5>1, <5>2 DEF NoneLost
        <5>4. u \in w.T /\ u[3] = t[1] /\ u[1] = n
          BY <3>2, <5>3 DEF To, About
        <5>5. u[2] \in {"list", "rest"} /\ u[2] \in Cells
          BY <3>7, <4>2, <4>3, <5>4 DEF Fits
        <5>6. u[2] = "rest"
          BY <5>5 DEF Cells
        <5>7. t[1] \in targets
          BY <5>4, <5>6 DEF Match
        <5>. QED  BY <3>5, <5>7
      <4>5. targets \cap q.N = {}
        BY <4>3 DEF Match, Fits
      <4>6. Len(v.nodes) + Cardinality(Links(v.T, "rest")) + (k + 1) <= Cardinality(Links(q.T, "rest")) + 1
        <5>1. IsFiniteSet(Links(w.T, "rest"))
          BY <1>1, FS_Subset DEF Links
        <5>2. CASE Match(w.T, n, "rest") = {}
          <6>1. targets = {}
            BY <5>2
          <6>2. rest = <<>>
            BY <6>1, FewElements DEF rest
          <6>3. Links(v.T, "rest") = Links(w.T, "rest")
            BY <3>2, <5>2 DEF Links, Match, About
          <6>. QED  BY <2>1, <2>2, <3>5, <4>1, <6>2, <6>3
        <5>3. CASE Match(w.T, n, "rest") # {}
          <6>1. PICK t \in Match(w.T, n, "rest") : TRUE
            BY <5>3
          <6>2. Match(w.T, n, "rest") = {t}
            BY <4>3, <6>1 DEF Match
          <6>3. targets = {t[3]}
            BY <6>2
          <6>4. Len(rest) = 1
            BY <6>3, FewElements DEF rest
          <6>5. Links(v.T, "rest") = Links(w.T, "rest") \ {t} /\ t \in Links(w.T, "rest")
            BY <3>2, <6>2 DEF Links, Match, About
          <6>6. Cardinality(Links(v.T, "rest")) = Cardinality(Links(w.T, "rest")) - 1
            BY <5>1, <6>5, FS_RemoveElement
          <6>. QED  BY <2>1, <2>2, <3>5, <4>1, <6>4, <6>6
        <5>. QED  BY <5>2, <5>3
      <4>. QED  BY <2>1, <3>5, <4>1, <4>4, <4>5, <4>6 DEF others
    <3>8. v.T \subseteq q.T
      BY <1>1, <3>2
    <3>. HIDE DEF counted
    <3>9. Removal(v, k + 1, q)
      BY <3>2, <3>5, <3>6, <3>7, <3>8 DEF Removal, counted
    <3>. QED  BY <3>9 DEF v
  <2>. QED  BY <2>3, <2>4
<1>. QED  BY <1>2, <1>3

LEMMA RemovalIsDone ==
  ASSUME NEW T, IsFiniteSet(T), NEW n
  PROVE  /\ \A m : m # n /\ IsApart(T, m) => About(RemoveUnusedNode(T, n), m) = About(T, m)
         /\ \A N, X : InOrder(T, N, "NoBlankObjectNodes", X \cup {n}) /\ n \notin N
                        => NoneLost(RemoveUnusedNode(T, n), X)
<1>1. ASSUME NEW m, NEW N, NEW X, NEW bp
      PROVE  /\ m # n /\ IsApart(T, m) => About(RemoveUnusedNode(T, n), m) = About(T, m)
             /\ bp = "NoBlankObjectNodes" /\ InOrder(T, N, bp, X \cup {n}) /\ n \notin N
                  => NoneLost(RemoveUnusedNode(T, n), X)
  <2>. DEFINE q == [T |-> T, n |-> n, m |-> m, N |-> N, X |-> X, bp |-> bp]
              base == [T |-> T, nodes |-> <<n>>]
              L == Cardinality(Links(T, "rest")) + 1
              r == ListFold!Fold(base, Times(L), 0)
  <2>1. RemoveUnusedNode(T, n) = r.T
    BY DEF RemoveUnusedNode, FoldLeft, MapThenFoldSet, Max, ListFold!Fold, ListFold!Largest
  <2>2. q.T = T /\ q.n = n /\ q.m = m /\ q.N = N /\ q.X = X /\ q.bp = bp
    OBVIOUS
  <2>. HIDE DEF q
  <2>3. L \in Nat /\ Len(Times(L)) = L /\ DOMAIN Times(L) = 1..L
    <3>1. L \in Nat
      BY LinksAreFinite
    <3>. QED  BY <3>1, TimesIsSequence DEF Times
  <2>4. Removal(base, 0, q)
    <3>1. /\ base.T = T /\ base.nodes = <<n>> /\ IsSequence(base.nodes) /\ ToSet(base.nodes) = {n}
          /\ Len(base.nodes) = 1 /\ base = [T |-> base.T, nodes |-> base.nodes]
      BY SequenceOfOne
    <3>. HIDE DEF base
    <3>2. 1 + Cardinality(Links(T, "rest")) + 0 <= Cardinality(Links(T, "rest")) + 1
      BY <2>3, LinksAreFinite
    <3>. QED  BY <2>2, <3>1, <3>2 DEF Removal, InOrder
  <2>5. ASSUME NEW w, NEW k \in 1..L, Removal(w, k - 1, q) PROVE Removal(RemoveNext(w), k, q)
    <3>1. k - 1 \in Nat /\ (k - 1) + 1 = k /\ IsFiniteSet(q.T)
      BY <2>2, <2>3
    <3>. QED  BY <2>5, <3>1, RemovalGoesOn
  <2>6. Removal(r, L, q)
    <3>. DEFINE times == Times(L)
    <3>. HIDE DEF base, r, L, times
    <3>1. Len(times) \in Nat /\ DOMAIN times = 1..Len(times) /\ Len(times) = L
      BY <2>3 DEF times
    <3>2. Removal(ListFold!Fold(base, times, 0), Len(times), q)
      BY <2>4, <2>5, <3>1, ListFold!FoldInduction
    <3>. QED  BY <3>1, <3>2 DEF r, times
  <2>. HIDE DEF r
  <2>7. ASSUME bp = "NoBlankObjectNodes", InOrder(T, N, bp, X \cup {n}), n \notin N
        PROVE  NoneLost(r.T, X)
    <3>1. /\ NoneLost(r.T, X \cup ToSet(r.nodes)) /\ IsSequence(r.nodes) /\ r.T \subseteq T
          /\ Len(r.nodes) + Cardinality(Links(r.T, "rest")) + L <= Cardinality(Links(T, "rest")) + 1
             \/ r.nodes = <<>>
      BY <2>2, <2>6, <2>7 DEF Removal
    <3>2. r.nodes = <<>>
      <4>1. IsFiniteSet(r.T)
        BY <3>1, FS_Subset
      <4>2. Cardinality(Links(r.T, "rest")) \in Nat /\ Len(r.nodes) \in Nat
        BY <3>1, <4>1, LinksAreFinite, SequenceDomain
      <4>3. CASE Len(r.nodes) = 0
        BY <3>1, <4>3 DEF IsSequence
      <4>4. CASE Len(r.nodes) # 0
        BY <2>3, <3>1, <4>2, <4>4
      <4>. QED  BY <4>3, <4>4
    <3>3. X \cup ToSet(r.nodes) = X
      BY <3>2, EmptySequence
    <3>. QED  BY <3>1, <3>3
  <2>. QED  BY <2>1, <2>2, <2>6, <2>7 DEF Removal
<1>. QED  BY <1>1


LEMMA FewerInOrder ==
  ASSUME NEW T, NEW N, NEW bp, NEW X, InOrder(T, N, bp, X), NEW U \in SUBSET T, NEW Y,
         bp = "NoBlankObjectNodes" => NoneLost(U, Y)
  PROVE  InOrder(U, N, bp, Y)
BY FS_Subset DEF InOrder, SingleValued

LEMMA FewerApart ==
  ASSUME NEW T, NEW U \in SUBSET T, NEW m, IsApart(T, m)
  PROVE  IsApart(U, m)
BY DEF IsApart

\* A triple goes, and with it a list, but nothing about those apart.
LEMMA RemoveOneSpares ==
  ASSUME NEW T, IsFiniteSet(T), NEW t
  PROVE  /\ \A m : IsApart(T, m) => About(RemoveOne(T, t), m) = About(T, m) \ {t}
         /\ \A N, X : InOrder(T, N, "NoBlankObjectNodes", X) /\ AreNodes(N, "NoBlankObjectNodes")
                      /\ t[1] \in N => NoneLost(RemoveOne(T, t), X)
<1>. DEFINE left == T \ {t}
            removes == t[3] # t[1] /\ (IsBlank(t[3]) \/ IsListNode(left, t[3]))
<1>1. RemoveOne(T, t) = IF removes THEN RemoveUnusedNode(left, t[3]) ELSE left
  BY DEF RemoveOne
<1>2. IsFiniteSet(left) /\ left \subseteq T
  BY FS_Subset
<1>3. ASSUME NEW m, IsApart(T, m) PROVE About(RemoveOne(T, t), m) = About(T, m) \ {t}
  <2>1. IsApart(left, m) /\ About(left, m) = About(T, m) \ {t}
    BY <1>2, <1>3, FewerApart DEF About
  <2>2. removes => m # t[3]
    BY <2>1 DEF IsApart, IsListNode, About, Cells
  <2>. HIDE DEF left, removes
  <2>3. removes => About(RemoveUnusedNode(left, t[3]), m) = About(left, m)
    BY <1>2, <2>1, <2>2, RemovalIsDone
  <2>. QED  BY <1>1, <2>1, <2>3
<1>4. ASSUME NEW N, NEW X, InOrder(T, N, "NoBlankObjectNodes", X), AreNodes(N, "NoBlankObjectNodes"),
             t[1] \in N
      PROVE  NoneLost(RemoveOne(T, t), X)
  <2>1. ~IsBlank(t[1]) /\ \A n \in N : ~IsBlank(n)
    BY <1>4 DEF AreNodes, IsBlank
  <2>2. NoneLost(T, X) /\ \A u \in T : Fits(u, N, "NoBlankObjectNodes")
    BY <1>4 DEF InOrder
  <2>3. CASE ~removes
    <3>1. t[3] = t[1] \/ ~IsBlank(t[3])
      BY <2>3
    <3>2. ASSUME NEW u \in left, IsBlank(u[1]), u[1] \notin X PROVE To(left, u[1]) # {}
      <4>1. PICK w \in To(T, u[1]) : TRUE
        BY <2>2, <3>2 DEF NoneLost
      <4>2. w # t
        BY <2>1, <3>1, <3>2, <4>1 DEF To
      <4>. QED  BY <4>1, <4>2 DEF To
    <3>. HIDE DEF left, removes
    <3>3. NoneLost(left, X)
      BY <3>2 DEF NoneLost
    <3>. QED  BY <1>1, <2>3, <3>3
  <2>4. CASE removes
    <3>1. IsBlank(t[3]) /\ t[3] \notin N
      <4>1. CASE IsListNode(left, t[3])
        <5>1. PICK u \in left : u[1] = t[3] /\ u[2] \in Cells
          BY <4>1 DEF IsListNode, About, Cells
        <5>2. IsBlank(u[1]) /\ u[1] \notin N
          BY <2>2, <5>1 DEF Fits
        <5>. QED  BY <5>1, <5>2
      <4>. QED  BY <2>1, <2>4, <4>1
    <3>2. NoneLost(left, X \cup {t[3]})
      <4>. SUFFICES ASSUME NEW u \in left, IsBlank(u[1]), u[1] \notin X, u[1] # t[3]
                    PROVE  To(left, u[1]) # {}
        BY DEF NoneLost
      <4>1. PICK w \in To(T, u[1]) : TRUE
        BY <2>2 DEF NoneLost
      <4>2. w # t
        BY <4>1 DEF To
      <4>. QED  BY <4>1, <4>2 DEF To
    <3>. HIDE DEF left, removes
    <3>3. InOrder(left, N, "NoBlankObjectNodes", X \cup {t[3]})
      BY <1>2, <1>4, <3>2, FewerInOrder
    <3>4. NoneLost(RemoveUnusedNode(left, t[3]), X)
      BY <1>2, <3>1, <3>3, RemovalIsDone
    <3>. QED  BY <1>1, <2>4, <3>4
  <2>. QED  BY <2>3, <2>4
<1>. QED  BY <1>3, <1>4

Removed(U, k, q) ==
    /\ U \subseteq q.T
    /\ IsApart(q.T, q.m) => About(U, q.m) = About(q.T, q.m) \ {q.seq[i] : i \in 1..k}
    /\ InOrder(q.T, q.N, "NoBlankObjectNodes", q.X) /\ AreNodes(q.N, "NoBlankObjectNodes")
       /\ q.n \in q.N => NoneLost(U, q.X)

RemovedFold == INSTANCE FoldTheorems
    WITH Op <- LAMBDA U, t, p : RemoveOne(U, t),
         Inv <- LAMBDA U, k, q : Removed(U, k, q)

LEMMA PropertyNodesRemoved ==
  ASSUME NEW T, IsFiniteSet(T), NEW n, NEW p, NEW retain
  PROVE  LET R == RemovePropertyNodes(T, n, p, retain)
             S == {t \in Match(T, n, p) : t[3] \notin retain}
         IN  /\ R \subseteq T \ S
             /\ \A m : IsApart(T, m) => About(R, m) = About(T, m) \ S
             /\ \A N, bp, X : InOrder(T, N, bp, X) /\ AreNodes(N, bp) /\ n \in N => InOrder(R, N, bp, X)
<1>. DEFINE R == RemovePropertyNodes(T, n, p, retain)
            S == {t \in Match(T, n, p) : t[3] \notin retain}
            seq == SetToSeq(S)
            r == RemovedFold!Fold(T, seq, 0)
<1>1. R = r
  BY DEF RemovePropertyNodes, FoldLeft, MapThenFoldSet, Max, RemovedFold!Fold, RemovedFold!Largest
<1>2. R \in SUBSET (T \ S)
  BY RemovePropertyNodesRemoves
<1>3. IsFiniteSet(S) /\ \A t \in S : t[1] = n
  BY FS_Subset DEF Match
<1>. HIDE DEF S
<1>4. seq \in Seq(S) /\ ToSet(seq) = S
  BY <1>3, SetToSeqIsSequence
<1>. HIDE DEF seq
<1>5. Len(seq) \in Nat /\ DOMAIN seq = 1..Len(seq) /\ \A i \in 1..Len(seq) : seq[i] \in S
  BY <1>4
<1>6. ASSUME NEW m, NEW N, NEW X
      PROVE  /\ IsApart(T, m) => About(R, m) = About(T, m) \ S
             /\ InOrder(T, N, "NoBlankObjectNodes", X) /\ AreNodes(N, "NoBlankObjectNodes")
                /\ n \in N => NoneLost(R, X)
  <2>. DEFINE q == [T |-> T, m |-> m, N |-> N, X |-> X, n |-> n, seq |-> seq]
  <2>1. q.T = T /\ q.m = m /\ q.N = N /\ q.X = X /\ q.n = n /\ q.seq = seq
    OBVIOUS
  <2>. HIDE DEF q
  <2>2. Removed(T, 0, q)
    BY <2>1 DEF Removed, InOrder
  <2>3. ASSUME NEW U, NEW k \in 1..Len(seq), Removed(U, k - 1, q)
        PROVE  Removed(RemoveOne(U, seq[k]), k, q)
    <3>. DEFINE t == seq[k]
                V == RemoveOne(U, t)
    <3>1. U \subseteq T /\ IsFiniteSet(U)
      <4>1. U \subseteq T
        BY <2>1, <2>3 DEF Removed
      <4>. QED  BY <4>1, FS_Subset
    <3>2. V \subseteq U
      BY <3>1, RemoveOneRemoves
    <3>3. /\ \A x : IsApart(U, x) => About(V, x) = About(U, x) \ {t}
          /\ \A M, Y : InOrder(U, M, "NoBlankObjectNodes", Y) /\ AreNodes(M, "NoBlankObjectNodes")
                      /\ t[1] \in M => NoneLost(V, Y)
      BY <3>1, RemoveOneSpares
    <3>. HIDE DEF V
    <3>4. ASSUME IsApart(T, m) PROVE About(V, m) = About(T, m) \ {seq[i] : i \in 1..k}
      <4>1. IsApart(U, m)
        BY <3>1, <3>4, FewerApart
      <4>2. {seq[i] : i \in 1..k} = {seq[i] : i \in 1..k - 1} \cup {t}
        <5>1. 1..k = 1..k - 1 \cup {k}
          BY <1>5
        <5>. QED  BY <5>1
      <4>3. About(U, m) = About(T, m) \ {seq[i] : i \in 1..k - 1}
        BY <2>1, <2>3, <3>4 DEF Removed
      <4>. QED  BY <3>3, <4>1, <4>2, <4>3
    <3>5. ASSUME InOrder(T, N, "NoBlankObjectNodes", X), AreNodes(N, "NoBlankObjectNodes"), n \in N
          PROVE  NoneLost(V, X)
      <4>1. NoneLost(U, X)
        BY <2>1, <2>3, <3>5 DEF Removed
      <4>2. InOrder(U, N, "NoBlankObjectNodes", X)
        BY <3>1, <3>5, <4>1, FewerInOrder
      <4>3. t[1] \in N
        BY <1>3, <1>5, <3>5
      <4>. QED  BY <3>3, <3>5, <4>2, <4>3
    <3>6. Removed(V, k, q)
      BY <2>1, <3>1, <3>2, <3>4, <3>5 DEF Removed
    <3>. QED  BY <3>6 DEF V
  <2>4. Removed(r, Len(seq), q)
    <3>. HIDE DEF r
    <3>1. Removed(RemovedFold!Fold(T, seq, 0), Len(seq), q)
      BY <1>5, <2>2, <2>3, RemovedFold!FoldInduction
    <3>. QED  BY <3>1 DEF r
  <2>5. {seq[i] : i \in 1..Len(seq)} = S
    BY <1>4, <1>5 DEF ToSet
  <2>. HIDE DEF r, R
  <2>. QED  BY <1>1, <2>1, <2>4, <2>5 DEF Removed
<1>. HIDE DEF R
<1>7. ASSUME NEW N, NEW bp, NEW X, InOrder(T, N, bp, X), AreNodes(N, bp), n \in N
      PROVE  InOrder(R, N, bp, X)
  <2>1. bp = "NoBlankObjectNodes" => NoneLost(R, X)
    BY <1>6, <1>7
  <2>2. R \in SUBSET T
    BY <1>2
  <2>. QED  BY <1>7, <2>1, <2>2, FewerInOrder
<1>. QED  BY <1>2, <1>6, <1>7 DEF R, S


\* A property of an object is written, a list referred to.
LEMMA OneMoreInOrder ==
  ASSUME NEW T, NEW N, NEW bp, NEW X, InOrder(T, N, bp, X), AreNodes(N, bp), NEW n \in N, NEW p, NEW v,
         Fits(<<n, p, v>>, N, bp), Match(T, n, p) \subseteq {<<n, p, v>>} \/ p = "type"
  PROVE  InOrder(T \cup {<<n, p, v>>}, N, bp, X \ {v})
<1>. DEFINE t == <<n, p, v>>
            U == T \cup {t}
<1>1. t[1] = n /\ t[2] = p /\ t[3] = v
  OBVIOUS
<1>. HIDE DEF t
<1>2. IsFiniteSet(U)
  BY FS_AddElement DEF InOrder
<1>3. SingleValued(U)
  <2>1. SingleValued(T)
    BY DEF InOrder
  <2>2. \A u \in T : u[1] = n /\ u[2] = p /\ p # "type" => u = t
    BY DEF Match, t
  <2>. QED  BY <1>1, <2>1, <2>2 DEF SingleValued
<1>4. \A u \in U : Fits(u, N, bp)
  BY DEF InOrder, t
<1>5. ASSUME bp = "NoBlankObjectNodes" PROVE NoneLost(U, X \ {v})
  <2>1. NoneLost(T, X) /\ ~IsBlank(n)
    BY <1>5 DEF InOrder, AreNodes, IsBlank
  <2>. SUFFICES ASSUME NEW u \in U, IsBlank(u[1]), u[1] \notin X \ {v} PROVE To(U, u[1]) # {}
    BY DEF NoneLost
  <2>2. u \in T
    BY <1>1, <2>1
  <2>3. CASE u[1] = v
    BY <1>1, <2>3 DEF To
  <2>4. CASE u[1] # v
    BY <2>1, <2>2, <2>4 DEF NoneLost, To
  <2>. QED  BY <2>3, <2>4
<1>. QED  BY <1>2, <1>3, <1>4, <1>5 DEF InOrder, t

LEMMA DroppedInOrder ==
  ASSUME NEW T, NEW N, NEW bp, NEW X, InOrder(T, N, bp, X), NEW n, NEW p, p \notin {"list", "rest"}
  PROVE  InOrder(T \ Match(T, n, p), N, bp, X)
<1>. DEFINE U == T \ Match(T, n, p)
<1>1. ASSUME bp = "NoBlankObjectNodes" PROVE NoneLost(U, X)
  <2>. SUFFICES ASSUME NEW u \in U, IsBlank(u[1]), u[1] \notin X PROVE To(U, u[1]) # {}
    BY DEF NoneLost
  <2>1. PICK w \in To(T, u[1]) : TRUE
    BY <1>1 DEF InOrder, NoneLost
  <2>2. w \in T /\ w[2] \in {"list", "rest"}
    BY <1>1, <2>1 DEF To, InOrder, Fits
  <2>. QED  BY <2>1, <2>2 DEF To, Match
<1>. QED  BY <1>1, FewerInOrder

LEMMA PropertyReplaced ==
  ASSUME NEW T, IsFiniteSet(T), NEW n, NEW p, p # "type", NEW V, NEW v, V \subseteq {v}
  PROVE  LET R == ReplacePropertyNodes(T, n, p, V)
         IN  /\ \A m : IsApart(T, m) /\ m # n => About(R, m) = About(T, m)
             /\ IsApart(T, n) /\ (\A t \in T : t = <<t[1], t[2], t[3]>>)
                  => About(R, n) = (About(T, n) \ Match(T, n, p)) \cup {<<n, p, x>> : x \in V}
             /\ \A N, bp, X : InOrder(T, N, bp, X) /\ AreNodes(N, bp) /\ n \in N
                              /\ (\A x \in V : Fits(<<n, p, x>>, N, bp)) => InOrder(R, N, bp, X \ V)
<1>. DEFINE R == ReplacePropertyNodes(T, n, p, V)
            D == RemovePropertyNodes(T, n, p, V)
            S == {t \in Match(T, n, p) : t[3] \notin V}
            new == {<<n, p, x>> : x \in V}
<1>1. R = D \cup new
  BY DEF ReplacePropertyNodes
<1>2. /\ D \subseteq T \ S
      /\ \A m : IsApart(T, m) => About(D, m) = About(T, m) \ S
      /\ \A N, bp, X : InOrder(T, N, bp, X) /\ AreNodes(N, bp) /\ n \in N => InOrder(D, N, bp, X)
  BY PropertyNodesRemoved
<1>. HIDE DEF R, D
<1>3. ASSUME NEW m, IsApart(T, m), m # n PROVE About(R, m) = About(T, m)
  <2>1. About(T, m) \cap S = {} /\ About(new, m) = {}
    BY <1>3 DEF About, Match
  <2>. HIDE DEF S, new
  <2>2. About(R, m) = About(D, m) \cup About(new, m)
    BY <1>1 DEF About
  <2>. QED  BY <1>2, <1>3, <2>1, <2>2
<1>4. ASSUME NEW N, NEW bp, NEW X, InOrder(T, N, bp, X), AreNodes(N, bp), n \in N,
             \A x \in V : Fits(<<n, p, x>>, N, bp)
      PROVE  InOrder(R, N, bp, X \ V)
  <2>1. InOrder(D, N, bp, X)
    BY <1>2, <1>4
  <2>2. CASE V = {}
    BY <1>1, <2>1, <2>2
  <2>3. CASE V = {v}
    <3>1. R = D \cup {<<n, p, v>>} /\ Fits(<<n, p, v>>, N, bp)
      BY <1>1, <1>4, <2>3
    <3>2. Match(D, n, p) \subseteq {<<n, p, v>>}
      <4>1. ASSUME NEW t \in Match(D, n, p) PROVE t = <<n, p, v>>
        <5>1. t \in T /\ t \notin S /\ t[1] = n /\ t[2] = p
          BY <1>2, <4>1 DEF Match
        <5>2. t[3] = v /\ t = <<t[1], t[2], t[3]>>
          BY <1>4, <2>3, <5>1 DEF Match, InOrder, Fits
        <5>. QED  BY <5>1, <5>2
      <4>. QED  BY <4>1
    <3>. QED  BY <1>4, <2>1, <2>3, <3>1, <3>2, OneMoreInOrder
  <2>. QED  BY <2>2, <2>3
<1>5. ASSUME IsApart(T, n), \A t \in T : t = <<t[1], t[2], t[3]>>
      PROVE  About(R, n) = (About(T, n) \ Match(T, n, p)) \cup new
  <2>1. About(R, n) = About(D, n) \cup new
    <3>1. About(new, n) = new
      BY DEF About
    <3>. HIDE DEF new
    <3>. QED  BY <1>1, <3>1 DEF About
  <2>2. About(D, n) = About(T, n) \ S
    BY <1>2, <1>5
  <2>3. Match(T, n, p) \ S \subseteq new
    BY <1>5 DEF Match
  <2>. QED  BY <2>1, <2>2, <2>3
<1>. QED  BY <1>3, <1>4, <1>5 DEF R


ObjectRemovedFold == INSTANCE FoldTheorems
    WITH Op <- LAMBDA U, p, n : RemovePropertyNodes(U, n, p, {}),
         Inv <- LAMBDA U, k, q : TRUE

LEMMA ObjectRemovedInOrder ==
  ASSUME NEW T, NEW N, NEW bp, NEW X, InOrder(T, N, bp, X), AreNodes(N, bp), NEW n \in N
  PROVE  InOrder(RemoveObject(T, n), N, bp, X) /\ RemoveObject(T, n) \subseteq T \ About(T, n)
<1>. DEFINE S == {t[2] : t \in About(T, n)}
            seq == SetToSeq(S)
            gone == ObjectRemovedFold!Fold(T, seq, n)
            Sound == {U \in SUBSET T : InOrder(U, N, bp, X)}
<1>1. RemoveObject(T, n) = gone \ To(gone, n)
  BY DEF RemoveObject, FoldLeft, MapThenFoldSet, Max, ObjectRemovedFold!Fold, ObjectRemovedFold!Largest
<1>2. IsFiniteSet(T) /\ \A t \in T : t[2] \in Predicates
  BY DEF InOrder, Fits
<1>3. IsFiniteSet(S)
  <2>1. IsFiniteSet(Predicates)
    <3>1. IsFiniteSet({"type", "parent", "follows"}) /\ IsFiniteSet({"lit", "ref", "list", "first", "rest"})
      <4>1. IsFiniteSet({})
        BY FS_EmptySet
      <4>2. IsFiniteSet({"type"}) /\ IsFiniteSet({"lit"}) /\ IsFiniteSet({"rest"})
        BY FS_Singleton
      <4>3. IsFiniteSet({"type"} \cup {"parent"}) /\ IsFiniteSet({"lit"} \cup {"ref"})
        BY <4>2, FS_AddElement
      <4>4. IsFiniteSet({"type"} \cup {"parent"} \cup {"follows"}) /\ IsFiniteSet({"lit"} \cup {"ref"} \cup {"list"})
        BY <4>3, FS_AddElement
      <4>5. IsFiniteSet({"lit"} \cup {"ref"} \cup {"list"} \cup {"first"})
        BY <4>4, FS_AddElement
      <4>6. IsFiniteSet({"lit"} \cup {"ref"} \cup {"list"} \cup {"first"} \cup {"rest"})
        BY <4>5, FS_AddElement
      <4>7. {"type", "parent", "follows"} = {"type"} \cup {"parent"} \cup {"follows"}
        OBVIOUS
      <4>8. {"lit", "ref", "list", "first", "rest"} = {"lit"} \cup {"ref"} \cup {"list"} \cup {"first"} \cup {"rest"}
        OBVIOUS
      <4>. QED  BY <4>4, <4>6, <4>7, <4>8
    <3>2. Predicates = {"type", "parent", "follows"} \cup {"lit", "ref", "list", "first", "rest"}
      BY DEF Predicates
    <3>. QED  BY <3>1, <3>2, FS_Union
  <2>2. S \subseteq Predicates
    BY <1>2 DEF About
  <2>. QED  BY <2>1, <2>2, FS_Subset
<1>4. seq \in Seq(S)
  BY <1>3, SetToSeqIsSequence
<1>5. \A U \in Sound, p \in S : RemovePropertyNodes(U, n, p, {}) \in Sound
  <2>. SUFFICES ASSUME NEW U \in Sound, NEW p \in S PROVE RemovePropertyNodes(U, n, p, {}) \in Sound
    OBVIOUS
  <2>1. IsFiniteSet(U) /\ U \subseteq T /\ InOrder(U, N, bp, X)
    BY DEF InOrder
  <2>. DEFINE R == RemovePropertyNodes(U, n, p, {})
  <2>2. /\ R \subseteq U \ {t \in Match(U, n, p) : t[3] \notin {}}
        /\ InOrder(R, N, bp, X)
    BY <2>1, PropertyNodesRemoved
  <2>. QED  BY <2>1, <2>2
<1>6. T \in Sound
  OBVIOUS
<1>7. gone \in Sound
  <2>. HIDE DEF S, seq, Sound
  <2>. QED  BY <1>4, <1>5, <1>6, ObjectRemovedFold!FoldKeeps
<1>. HIDE DEF gone
<1>8. ASSUME bp = "NoBlankObjectNodes" PROVE NoneLost(gone \ To(gone, n), X)
  <2>1. NoneLost(gone, X) /\ ~IsBlank(n)
    BY <1>7, <1>8 DEF InOrder, AreNodes, IsBlank
  <2>. QED  BY <2>1 DEF NoneLost, To
<1>9. InOrder(gone \ To(gone, n), N, bp, X)
  BY <1>7, <1>8, FewerInOrder
<1>10. RemoveObject(T, n) \subseteq T \ About(T, n)
  BY <1>2, RemoveObjectRemoves
<1>. QED  BY <1>1, <1>9, <1>10


-------------------------------------------------------------------------------
(* Lists.                                                                        *)

Nodes(s) == ObjectNodes(s.T, s.map, s.O)

\* A call whose triples are in order.
Stage(s, X) == IsStorerCall(s) /\ AreNodes(Nodes(s), s.bp) /\ InOrder(s.T, Nodes(s), s.bp, X)
SameButTriples(s, r) ==
    /\ DOMAIN r = StorerFields /\ r.O = s.O /\ r.map = s.map /\ r.used = s.used
    /\ r.bp = s.bp /\ r.fp = s.fp /\ r.psp = s.psp

LEMMA OtherTriples ==
  ASSUME NEW s, DOMAIN s = StorerFields, NEW T
  PROVE  SameButTriples(s, [s EXCEPT !.T = T]) /\ [s EXCEPT !.T = T].T = T
BY DEF SameButTriples, StorerFields

LEMMA FewerNodes ==
  ASSUME NEW T, NEW N, NEW bp, NEW X, InOrder(T, N, bp, X),
         NEW M \in SUBSET N, \A t \in T : t[2] \notin Cells => t[1] \in M
  PROVE  InOrder(T, M, bp, X)
BY DEF InOrder, Fits

\* Writing about objects and lists brings no new ones.
LEMMA NextStage ==
  ASSUME NEW s, NEW X, Stage(s, X), NEW T, NEW Y, InOrder(T, Nodes(s), s.bp, Y)
  PROVE  /\ Stage([s EXCEPT !.T = T], Y) /\ Nodes([s EXCEPT !.T = T]) \subseteq Nodes(s)
         /\ SameButTriples(s, [s EXCEPT !.T = T]) /\ [s EXCEPT !.T = T].T = T
<1>. DEFINE r == [s EXCEPT !.T = T]
<1>1. SameButTriples(s, r) /\ r.T = T
  BY OtherTriples DEF Stage, IsStorerCall
<1>. HIDE DEF r
<1>2. Nodes(r) \subseteq Nodes(s)
  <2>1. \A t \in T : t[2] \notin Cells => t[1] \in Nodes(s)
    BY DEF InOrder, Fits
  <2>. QED  BY <1>1, <2>1 DEF Nodes, ObjectNodes, SameButTriples
<1>3. \A t \in T : t[2] \notin Cells => t[1] \in Nodes(r)
  <2>1. \A t \in T : t[2] \notin Cells => t[1] \in Nodes(s)
    BY DEF InOrder, Fits
  <2>2. Nothing \notin Nodes(s)
    BY DEF Nodes, ObjectNodes
  <2>. QED  BY <1>1, <2>1, <2>2 DEF Nodes, ObjectNodes
<1>4. InOrder(r.T, Nodes(r), r.bp, Y)
  <2>1. InOrder(T, Nodes(r), s.bp, Y)
    BY <1>2, <1>3, FewerNodes
  <2>. QED  BY <1>1, <2>1 DEF SameButTriples
<1>5. AreNodes(Nodes(r), r.bp)
  BY <1>1, <1>2 DEF Stage, AreNodes, SameButTriples
<1>6. IsStorerCall(r)
  BY <1>1, <1>4 DEF Stage, IsStorerCall, SameButTriples, InOrder
<1>. QED  BY <1>1, <1>2, <1>4, <1>5, <1>6 DEF Stage, r

LEMMA NoBlankIsNothing ==
  ASSUME NEW T, NEW N, NEW bp, InOrder(T, N, bp, {Nothing})
  PROVE  InOrder(T, N, bp, {})
BY DEF InOrder, NoneLost, IsBlank, Nothing

\* A cell gets a value, or one to follow it.
LEMMA CellReplaced ==
  ASSUME NEW T, NEW N, NEW bp, NEW X, InOrder(T, N, bp, X), NEW n, n \notin N, NEW p \in Cells, NEW v,
         Fits(<<n, p, v>>, N, bp), NEW Y,
         bp = "NoBlankObjectNodes" => NoneLost(ReplaceOne(T, n, p, v), Y)
  PROVE  LET R == ReplaceOne(T, n, p, v)
         IN  /\ InOrder(R, N, bp, Y)
             /\ {t \in R : t[2] \notin Cells} = {t \in T : t[2] \notin Cells}
             /\ \A m : m # n => About(R, m) = About(T, m)
             /\ Match(T, n, p) = {} => R = T \cup {<<n, p, v>>}
             /\ <<n, p, v>> \in R
<1>. DEFINE R == ReplaceOne(T, n, p, v)
            new == <<n, p, v>>
            D == T \ Match(T, n, p)
<1>1. R = D \cup {new} /\ new[1] = n /\ new[2] = p
  BY DEF ReplaceOne
<1>. HIDE DEF new, R
<1>2. IsFiniteSet(R) /\ \A t \in R : Fits(t, N, bp)
  <2>1. IsFiniteSet(D) /\ Fits(new, N, bp) /\ \A t \in D : Fits(t, N, bp)
    BY FS_Subset DEF InOrder, new
  <2>. QED  BY <1>1, <2>1, FS_AddElement
<1>3. SingleValued(R)
  <2>1. SingleValued(T)
    BY DEF InOrder
  <2>2. \A t \in D : ~(t[1] = n /\ t[2] = p) /\ t \in T
    BY DEF Match
  <2>. HIDE DEF D
  <2>. QED  BY <1>1, <2>1, <2>2 DEF SingleValued
<1>4. {t \in R : t[2] \notin Cells} = {t \in T : t[2] \notin Cells}
  BY <1>1 DEF Match
<1>5. \A m : m # n => About(R, m) = About(T, m)
  BY <1>1 DEF About, Match
<1>6. InOrder(R, N, bp, Y)
  BY <1>2, <1>3 DEF InOrder, R
<1>. QED  BY <1>1, <1>4, <1>5, <1>6 DEF R, new

IsValue(N, v) == v \in N \/ IsLiteral(v)

\* What the elements of a list are as nodes.
LEMMA ElementNodes ==
  ASSUME NEW s, NEW X, Stage(s, X), NEW v, IsLiteral(v) \/ \E o \in Object : v = ToObject(o)
  PROVE  ValueToNode(s, v) = Nothing \/ IsValue(Nodes(s), ValueToNode(s, v))
<1>1. CASE IsLiteral(v)
  BY <1>1 DEF IsLiteral, IsObject, ValueToNode, IsValue
<1>2. CASE \E o \in Object : v = ToObject(o)
  <2>1. PICK o \in Object : v = ToObject(o)
    BY <1>2
  <2>2. IsObject(v) /\ v[2] = o
    BY <2>1 DEF ToObject, IsObject
  <2>3. ValueToNode(s, v) = IF s.map[o] # Nothing THEN s.map[o] ELSE s.O[o].uri
    BY <2>2 DEF ValueToNode, ObjectToPropertyNode
  <2>. QED  BY <2>3 DEF Nodes, ObjectNodes, IsValue
<1>. QED  BY <1>1, <1>2

LEMMA CellsAreNoObjects ==
  ASSUME NEW s, NEW X, Stage(s, X), NEW v
  PROVE  LET n == ListNode(s, v)
         IN  /\ n \notin Nodes(s) /\ n # Nothing
             /\ s.bp = "NoBlankObjectNodes" => IsBlank(n) /\ n \notin NodesOf(s.T)
<1>. DEFINE n == ListNode(s, v)
<1>1. IsFiniteSet(Names(s))
  BY NamesAreFinite DEF Stage, IsStorerCall
<1>2. Nodes(s) \subseteq Names(s) /\ NodesOf(s.T) \subseteq Names(s)
  BY DEF Nodes, ObjectNodes, Names, NodesOf
<1>3. /\ AddBlankNode(s) \notin Names(s) /\ AddBlankNode(s)[1] = "blank"
      /\ GetUniqueUri(s, "uri") \notin Names(s) /\ GetUniqueUri(s, "uri")[1] = "uri"
  BY <1>1, FreshIsNew DEF AddBlankNode, GetUniqueUri
<1>4. \A m \in Nodes(s) : m[1] # "listnode"
  BY DEF Stage, AreNodes
<1>5. CASE s.bp # "NeverUseBlankNodes"
  <2>1. n = AddBlankNode(s)
    BY <1>5 DEF ListNode
  <2>. QED  BY <1>2, <1>3, <2>1 DEF Nothing, IsBlank
<1>6. CASE s.bp = "NeverUseBlankNodes" /\ v[1] = "uri"
  <2>1. n = <<"listnode", v[2]>>
    BY <1>6 DEF ListNode
  <2>. QED  BY <1>4, <1>6, <2>1 DEF Nothing
<1>7. CASE s.bp = "NeverUseBlankNodes" /\ v[1] # "uri"
  <2>1. n = GetUniqueUri(s, "uri")
    BY <1>7 DEF ListNode
  <2>. QED  BY <1>2, <1>3, <1>7, <2>1 DEF Nothing
<1>. QED  BY <1>5, <1>6, <1>7


\* A list under way: its cells are no objects' nodes, what is about objects stays,
\* and only its first cell has nothing that refers to it.
UnderWay(l, q) ==
    /\ l = [s |-> l.s, first |-> l.first, last |-> l.last]
    /\ SameButTriples(q.s, l.s) /\ Stage(l.s, {l.first}) /\ Nodes(l.s) = Nodes(q.s)
    /\ \A m \in Nodes(q.s) : About(l.s.T, m) = About(q.s.T, m)
    /\ l.first \notin Nodes(q.s) /\ l.last \notin Nodes(q.s)
    /\ l.first = Nothing <=> l.last = Nothing
    /\ q.s.bp = "NoBlankObjectNodes" /\ l.last # Nothing =>
        /\ IsBlank(l.last) /\ IsBlank(l.first)
        /\ Match(l.s.T, l.last, "rest") = {} /\ About(l.s.T, l.last) # {}

BuildFold == INSTANCE FoldTheorems
    WITH Op <- LAMBDA l, v, p : AddToList(l, v),
         Inv <- LAMBDA l, k, q : UnderWay(l, q)

LEMMA SameNodes ==
  ASSUME NEW s, NEW r, SameButTriples(s, r),
         {t \in r.T : t[2] \notin Cells} = {t \in s.T : t[2] \notin Cells}
  PROVE  Nodes(r) = Nodes(s)
BY DEF SameButTriples, Nodes, ObjectNodes

\* The last cell is followed.
LEMMA LastIsFollowed ==
  ASSUME NEW q, NEW l, UnderWay(l, q), l.last # Nothing,
         NEW v, v \notin Nodes(q.s)
  PROVE  LET R == ReplaceOne(l.s.T, l.last, "rest", v)
         IN  /\ InOrder(R, Nodes(q.s), q.s.bp, {l.first} \ {v})
             /\ {t \in R : t[2] \notin Cells} = {t \in l.s.T : t[2] \notin Cells}
             /\ \A m : m # l.last => About(R, m) = About(l.s.T, m)
             /\ <<l.last, "rest", v>> \in R
             /\ q.s.bp = "NoBlankObjectNodes" => R = l.s.T \cup {<<l.last, "rest", v>>}
<1>. DEFINE N == Nodes(q.s)
            t == <<l.last, "rest", v>>
            R == ReplaceOne(l.s.T, l.last, "rest", v)
<1>1. InOrder(l.s.T, N, q.s.bp, {l.first}) /\ l.last \notin N
  BY DEF UnderWay, Stage, SameButTriples
<1>2. Fits(t, N, q.s.bp)
  <2>1. t[1] = l.last /\ t[2] = "rest" /\ t[3] = v
    OBVIOUS
  <2>2. q.s.bp = "NoBlankObjectNodes" => IsBlank(l.last)
    BY DEF UnderWay
  <2>. HIDE DEF t
  <2>. QED  BY <1>1, <2>1, <2>2 DEF Fits, Predicates, Cells, t
<1>3. ASSUME q.s.bp = "NoBlankObjectNodes"
      PROVE  R = l.s.T \cup {t} /\ NoneLost(R, {l.first} \ {v})
  <2>1. Match(l.s.T, l.last, "rest") = {} /\ About(l.s.T, l.last) # {} /\ IsBlank(l.last)
    BY <1>3 DEF UnderWay
  <2>2. R = l.s.T \cup {t}
    BY <2>1 DEF ReplaceOne
  <2>3. NoneLost(l.s.T, {l.first})
    BY <1>1, <1>3 DEF InOrder
  <2>4. t[1] = l.last /\ t[3] = v
    OBVIOUS
  <2>. HIDE DEF t, R
  <2>5. ASSUME NEW u \in R, IsBlank(u[1]), u[1] \notin {l.first} \ {v} PROVE To(R, u[1]) # {}
    <3>1. CASE u[1] = v
      BY <2>2, <2>4, <3>1 DEF To
    <3>2. CASE u[1] # v /\ u \in l.s.T
      BY <2>2, <2>3, <2>5, <3>2 DEF NoneLost, To
    <3>3. CASE u[1] # v /\ u = t
      <4>1. PICK w \in l.s.T : w[1] = l.last
        BY <2>1 DEF About
      <4>. QED  BY <2>2, <2>3, <2>4, <2>5, <3>3, <4>1 DEF NoneLost, To
    <3>. QED  BY <2>2, <2>5, <3>1, <3>2, <3>3
  <2>. QED  BY <2>2, <2>5 DEF NoneLost
<1>4. "rest" \in Cells
  BY DEF Cells
<1>. HIDE DEF N
<1>5. /\ InOrder(R, N, q.s.bp, {l.first} \ {v})
      /\ {u \in R : u[2] \notin Cells} = {u \in l.s.T : u[2] \notin Cells}
      /\ \A m : m # l.last => About(R, m) = About(l.s.T, m)
      /\ t \in R
  BY <1>1, <1>2, <1>3, <1>4, CellReplaced
<1>. QED  BY <1>3, <1>5 DEF N

LEMMA OneMoreElement ==
  ASSUME NEW q, NEW l, UnderWay(l, q), NEW v, IsLiteral(v) \/ \E o \in Object : v = ToObject(o)
  PROVE  UnderWay(AddToList(l, v), q)
<1>. DEFINE N == Nodes(q.s)
            value == ValueToNode(l.s, v)
            node == ListNode(l.s, value)
            linked == IF l.last = Nothing THEN l.s.T ELSE ReplaceOne(l.s.T, l.last, "rest", node)
            R == ReplaceOne(linked, node, "first", value)
            first == IF l.first = Nothing THEN node ELSE l.first
            bp == q.s.bp
            t == <<node, "first", value>>
<1>1. AddToList(l, v) = IF value = Nothing THEN l
                        ELSE [s |-> [l.s EXCEPT !.T = R], first |-> first, last |-> node]
  BY DEF AddToList
<1>2. /\ SameButTriples(q.s, l.s) /\ Stage(l.s, {l.first}) /\ Nodes(l.s) = N /\ l.s.bp = bp
      /\ l.first \notin N /\ l.last \notin N /\ (l.first = Nothing <=> l.last = Nothing)
      /\ \A m \in N : About(l.s.T, m) = About(q.s.T, m)
      /\ InOrder(l.s.T, N, bp, {l.first}) /\ AreNodes(N, bp)
  BY DEF UnderWay, Stage, SameButTriples
<1>3. value = Nothing \/ IsValue(N, value)
  BY <1>2, ElementNodes
<1>4. node \notin N /\ node # Nothing /\ (bp = "NoBlankObjectNodes" => IsBlank(node) /\ node \notin NodesOf(l.s.T))
  BY <1>2, CellsAreNoObjects
<1>. HIDE DEF value, node, N
<1>5. CASE value = Nothing
  BY <1>1, <1>5
<1>6. CASE value # Nothing
  <2>1. /\ InOrder(linked, N, bp, {l.first} \ {node})
        /\ {u \in linked : u[2] \notin Cells} = {u \in l.s.T : u[2] \notin Cells}
        /\ \A m : m # l.last => About(linked, m) = About(l.s.T, m)
        /\ bp = "NoBlankObjectNodes" => linked = l.s.T \cup {<<l.last, "rest", node>>} \/ l.last = Nothing
        /\ l.last # Nothing => <<l.last, "rest", node>> \in linked
    <3>1. CASE l.last = Nothing
      BY <1>2, <1>4, <3>1
    <3>2. CASE l.last # Nothing
      <4>. DEFINE L == ReplaceOne(l.s.T, l.last, "rest", node)
      <4>1. linked = L
        BY <3>2
      <4>2. /\ InOrder(L, N, bp, {l.first} \ {node})
            /\ {u \in L : u[2] \notin Cells} = {u \in l.s.T : u[2] \notin Cells}
            /\ \A m : m # l.last => About(L, m) = About(l.s.T, m)
            /\ <<l.last, "rest", node>> \in L
            /\ bp = "NoBlankObjectNodes" => L = l.s.T \cup {<<l.last, "rest", node>>}
        BY <1>4, <3>2, LastIsFollowed DEF N
      <4>. HIDE DEF L, linked
      <4>. QED  BY <4>1, <4>2
    <3>. QED  BY <3>1, <3>2
  <2>2. Fits(t, N, bp)
    <3>1. t[1] = node /\ t[2] = "first" /\ t[3] = value
      OBVIOUS
    <3>2. bp = "NoBlankObjectNodes" => ~IsBlank(value)
      BY <1>2, <1>3, <1>6 DEF IsValue, AreNodes, IsBlank, IsLiteral
    <3>. HIDE DEF t
    <3>. QED  BY <1>4, <3>1, <3>2 DEF Fits, Predicates, Cells, t
  <2>3. ASSUME bp = "NoBlankObjectNodes"
        PROVE  /\ R = linked \cup {t} /\ NoneLost(R, {first}) /\ IsBlank(first)
               /\ Match(R, node, "rest") = {}
    <3>1. \A u \in l.s.T : u[1] # node /\ u[3] # node
      BY <1>4, <2>3 DEF NodesOf
    <3>2. l.last # Nothing => l.last # node /\ IsBlank(l.first)
      <4>1. l.last # Nothing => About(l.s.T, l.last) # {} /\ IsBlank(l.first)
        BY <2>3 DEF UnderWay
      <4>. QED  BY <3>1, <4>1 DEF About
    <3>3. \A u \in linked : u[1] # node
      <4>1. CASE l.last = Nothing
        BY <3>1, <4>1
      <4>2. CASE l.last # Nothing
        <5>1. linked = l.s.T \cup {<<l.last, "rest", node>>}
          BY <2>1, <2>3, <4>2
        <5>. HIDE DEF linked
        <5>. QED  BY <3>1, <3>2, <4>2, <5>1
      <4>. QED  BY <4>1, <4>2
    <3>. HIDE DEF linked
    <3>4. Match(linked, node, "first") = {}
      BY <3>3 DEF Match
    <3>5. R = linked \cup {t}
      BY <3>4 DEF ReplaceOne
    <3>. HIDE DEF R
    <3>6. Match(R, node, "rest") = {}
      BY <3>3, <3>5 DEF Match
    <3>7. IsBlank(first)
      BY <1>2, <1>4, <2>3, <3>2
    <3>8. NoneLost(R, {first})
      <4>1. NoneLost(linked, {l.first} \ {node})
        BY <2>1, <2>3 DEF InOrder
      <4>2. ASSUME NEW u \in R, IsBlank(u[1]), u[1] # first PROVE To(R, u[1]) # {}
        <5>1. CASE u = t
          <6>1. u[1] = node
            BY <5>1
          <6>2. l.last # Nothing
            BY <1>2, <4>2, <6>1
          <6>3. <<l.last, "rest", node>> \in R
            BY <2>1, <3>5, <6>2
          <6>. QED  BY <6>1, <6>3 DEF To
        <5>2. CASE u \in linked
          <6>1. u[1] # l.first
            BY <4>2 DEF IsBlank, Nothing
          <6>2. To(linked, u[1]) # {}
            BY <4>1, <4>2, <5>2, <6>1 DEF NoneLost
          <6>. QED  BY <3>5, <6>2 DEF To
        <5>. QED  BY <3>5, <4>2, <5>1, <5>2
      <4>. QED  BY <4>2 DEF NoneLost
    <3>. QED  BY <3>5, <3>6, <3>7, <3>8
  <2>. HIDE DEF linked
  <2>4. /\ InOrder(R, N, bp, {first})
        /\ {u \in R : u[2] \notin Cells} = {u \in linked : u[2] \notin Cells}
        /\ \A m : m # node => About(R, m) = About(linked, m)
        /\ t \in R
    <3>1. "first" \in Cells
      BY DEF Cells
    <3>2. bp = "NoBlankObjectNodes" => NoneLost(R, {first})
      BY <2>3
    <3>. HIDE DEF first, bp
    <3>. QED  BY <1>4, <2>1, <2>2, <3>1, <3>2, CellReplaced
  <2>. DEFINE r == [l.s EXCEPT !.T = R]
              a == [s |-> r, first |-> first, last |-> node]
  <2>. HIDE DEF R, first
  <2>5. /\ Stage(r, {first}) /\ SameButTriples(l.s, r) /\ r.T = R
    <3>1. InOrder(R, Nodes(l.s), l.s.bp, {first})
      BY <1>2, <2>4
    <3>. QED  BY <1>2, <3>1, NextStage
  <2>. HIDE DEF r
  <2>6. SameButTriples(q.s, r)
    BY <1>2, <2>5 DEF SameButTriples
  <2>7. Nodes(r) = N
    <3>1. {u \in r.T : u[2] \notin Cells} = {u \in l.s.T : u[2] \notin Cells}
      BY <2>1, <2>4, <2>5
    <3>2. Nodes(r) = Nodes(l.s)
      BY <2>5, <3>1, SameNodes
    <3>. QED  BY <1>2, <3>2
  <2>8. \A m \in N : About(R, m) = About(q.s.T, m)
    BY <1>2, <1>4, <2>1, <2>4
  <2>9. first \notin N /\ first # Nothing
    BY <1>2, <1>4 DEF first
  <2>10. About(R, node) # {}
    BY <2>4 DEF About
  <2>11. a.s = r /\ a.first = first /\ a.last = node
    OBVIOUS
  <2>12. UnderWay(a, q)
    <3>. HIDE DEF a
    <3>1. a = [s |-> a.s, first |-> a.first, last |-> a.last]
      BY DEF a
    <3>. QED  BY <1>4, <2>3, <2>5, <2>6, <2>7, <2>8, <2>9, <2>10, <2>11, <3>1 DEF UnderWay, N, R, first
  <2>. QED  BY <1>1, <1>6, <2>12 DEF r, R, first
<1>. QED  BY <1>5, <1>6


\* A list that is written touches no object, and is lost unless it is referred to.
LEMMA ListIsWritten ==
  ASSUME NEW s, Stage(s, {}), NEW list, IsList(list)
  PROVE  LET l == ListToPropertyNode(s, list)
         IN  /\ SameButTriples(s, l.s) /\ Stage(l.s, {l.first}) /\ Nodes(l.s) = Nodes(s)
             /\ \A m \in Nodes(s) : About(l.s.T, m) = About(s.T, m)
             /\ l.first \notin Nodes(s)
<1>. DEFINE base == [s |-> s, first |-> Nothing, last |-> Nothing]
            q == [s |-> s, seq |-> list]
            b == BuildFold!Fold(base, list, 0)
            l == ListToPropertyNode(s, list)
<1>1. l = EndList(b)
  BY DEF ListToPropertyNode, FoldLeft, MapThenFoldSet, Max, BuildFold!Fold, BuildFold!Largest
<1>2. q.s = s
  OBVIOUS
<1>. HIDE DEF q
<1>3. Len(list) \in Nat /\ DOMAIN list = 1..Len(list)
      /\ \A i \in 1..Len(list) : IsLiteral(list[i]) \/ \E o \in Object : list[i] = ToObject(o)
  BY SequenceDomain DEF IsList
<1>4. UnderWay(base, q)
  <2>1. base.s = s /\ base.first = Nothing /\ base.last = Nothing /\ base = [s |-> base.s, first |-> base.first, last |-> base.last]
    OBVIOUS
  <2>. HIDE DEF base
  <2>2. Stage(s, {Nothing}) /\ SameButTriples(s, s) /\ Nothing \notin Nodes(s)
    BY DEF Stage, InOrder, NoneLost, SameButTriples, IsStorerCall, Nodes, ObjectNodes
  <2>. QED  BY <1>2, <2>1, <2>2 DEF UnderWay
<1>5. UnderWay(b, q)
  <2>. HIDE DEF base, b
  <2>1. ASSUME NEW x, NEW k \in 1..Len(list), UnderWay(x, q) PROVE UnderWay(AddToList(x, list[k]), q)
    BY <1>3, <2>1, OneMoreElement
  <2>2. UnderWay(BuildFold!Fold(base, list, 0), q)
    BY <1>3, <1>4, <2>1, BuildFold!FoldInduction
  <2>. QED  BY <2>2 DEF b
<1>. HIDE DEF b
<1>6. /\ b = [s |-> b.s, first |-> b.first, last |-> b.last]
      /\ SameButTriples(s, b.s) /\ Stage(b.s, {b.first}) /\ Nodes(b.s) = Nodes(s)
      /\ \A m \in Nodes(s) : About(b.s.T, m) = About(s.T, m)
      /\ b.first \notin Nodes(s) /\ b.last \notin Nodes(s)
  BY <1>2, <1>5 DEF UnderWay
<1>7. CASE b.last = Nothing
  <2>1. l = b
    BY <1>1, <1>7 DEF EndList
  <2>. QED  BY <1>6, <2>1
<1>8. CASE b.last # Nothing
  <2>. DEFINE R == ReplaceOne(b.s.T, b.last, "rest", Nil)
              r == [b.s EXCEPT !.T = R]
  <2>1. Nil \notin Nodes(s)
    <3>1. AreNodes(Nodes(s), s.bp)
      BY DEF Stage
    <3>. QED  BY <3>1 DEF AreNodes, Nil
  <2>2. /\ InOrder(R, Nodes(s), s.bp, {b.first} \ {Nil})
        /\ {t \in R : t[2] \notin Cells} = {t \in b.s.T : t[2] \notin Cells}
        /\ \A m : m # b.last => About(R, m) = About(b.s.T, m)
    BY <1>2, <1>5, <1>8, <2>1, LastIsFollowed
  <2>3. l = [b EXCEPT !.s = [b.s EXCEPT !.T = R]]
    BY <1>1, <1>8 DEF EndList
  <2>. HIDE DEF R
  <2>4. InOrder(R, Nodes(s), s.bp, {b.first})
    BY <2>2 DEF InOrder, NoneLost
  <2>5. Stage(r, {b.first}) /\ SameButTriples(b.s, r) /\ r.T = R
    <3>1. InOrder(R, Nodes(b.s), b.s.bp, {b.first})
      BY <1>6, <2>4 DEF SameButTriples
    <3>. QED  BY <1>6, <3>1, NextStage
  <2>. HIDE DEF r
  <2>6. l.s = r /\ l.first = b.first
    <3>1. l = [b EXCEPT !.s = r]
      BY <2>3 DEF r
    <3>. HIDE DEF l
    <3>. QED  BY <1>6, <3>1
  <2>7. SameButTriples(s, r)
    BY <1>6, <2>5 DEF SameButTriples
  <2>8. Nodes(r) = Nodes(s)
    <3>1. Nodes(r) = Nodes(b.s)
      BY <2>2, <2>5, SameNodes
    <3>. QED  BY <1>6, <3>1
  <2>9. \A m \in Nodes(s) : About(r.T, m) = About(s.T, m)
    BY <1>6, <2>2, <2>5
  <2>. HIDE DEF l
  <2>. QED  BY <1>6, <2>5, <2>6, <2>7, <2>8, <2>9 DEF l
<1>. QED  BY <1>7, <1>8


-------------------------------------------------------------------------------
(* Storing an object.                                                            *)

\* What is about other objects stays, save for those with blank nodes.
Spares(s, r, n) ==
    \A m \in Nodes(s) : m # n /\ ~IsBlank(m) => About(r.T, m) = About(s.T, m)
Rewrites(s, r, n, P) ==
    /\ SameButTriples(s, r) /\ Stage(r, {}) /\ Nodes(r) \subseteq Nodes(s) /\ Spares(s, r, n)
    /\ ~IsBlank(n) => \A p : p \notin P => Match(r.T, n, p) = Match(s.T, n, p)

Valued(n, p, V) == {<<n, p, x>> : x \in V}

LEMMA SparedAreNodes ==
  ASSUME NEW s, NEW r, SameButTriples(s, r), NEW m \in Nodes(s), About(r.T, m) = About(s.T, m)
  PROVE  m \in Nodes(r)
BY DEF SameButTriples, Nodes, ObjectNodes, About

LEMMA RewritesOn ==
  ASSUME NEW s, NEW r, NEW u, NEW n, NEW P, NEW Q, Rewrites(s, r, n, P), Rewrites(r, u, n, Q)
  PROVE  Rewrites(s, u, n, P \cup Q)
<1>1. SameButTriples(s, u)
  BY DEF Rewrites, SameButTriples
<1>2. Spares(s, u, n)
  <2>. SUFFICES ASSUME NEW m \in Nodes(s), m # n, ~IsBlank(m) PROVE About(u.T, m) = About(s.T, m)
    BY DEF Spares
  <2>1. About(r.T, m) = About(s.T, m) /\ SameButTriples(s, r)
    BY DEF Rewrites, Spares
  <2>2. m \in Nodes(r)
    BY <2>1, SparedAreNodes
  <2>. QED  BY <2>1, <2>2 DEF Rewrites, Spares
<1>. QED  BY <1>1, <1>2 DEF Rewrites

LEMMA MatchAbout ==
  ASSUME NEW T, NEW n, NEW p
  PROVE  Match(T, n, p) = {t \in About(T, n) : t[2] = p}
BY DEF Match, About

LEMMA PropertyWritten ==
  ASSUME NEW s, Stage(s, {}), NEW n \in Nodes(s), NEW p, p # "type", NEW V, NEW v, V \subseteq {v},
         \A x \in V : Fits(<<n, p, x>>, Nodes(s), s.bp)
  PROVE  LET r == [s EXCEPT !.T = ReplacePropertyNodes(s.T, n, p, V)]
         IN  /\ Rewrites(s, r, n, {p})
             /\ ~IsBlank(n) => Match(r.T, n, p) = Valued(n, p, V)
<1>. DEFINE R == ReplacePropertyNodes(s.T, n, p, V)
            r == [s EXCEPT !.T = R]
            new == {<<n, p, x>> : x \in V}
<1>1. InOrder(s.T, Nodes(s), s.bp, {}) /\ AreNodes(Nodes(s), s.bp)
  BY DEF Stage
<1>2. IsFiniteSet(s.T) /\ \A t \in s.T : Fits(t, Nodes(s), s.bp) /\ t = <<t[1], t[2], t[3]>>
  BY <1>1 DEF InOrder, Fits
<1>3. /\ \A m : IsApart(s.T, m) /\ m # n => About(R, m) = About(s.T, m)
      /\ IsApart(s.T, n) /\ (\A t \in s.T : t = <<t[1], t[2], t[3]>>)
           => About(R, n) = (About(s.T, n) \ Match(s.T, n, p)) \cup new
      /\ \A N, bp, X : InOrder(s.T, N, bp, X) /\ AreNodes(N, bp) /\ n \in N
                       /\ (\A x \in V : Fits(<<n, p, x>>, N, bp)) => InOrder(R, N, bp, X \ V)
  BY <1>2, PropertyReplaced
<1>. HIDE DEF R
<1>4. InOrder(R, Nodes(s), s.bp, {})
  <2>1. InOrder(R, Nodes(s), s.bp, {} \ V)
    BY <1>1, <1>3
  <2>2. {} \ V = {}
    OBVIOUS
  <2>. QED  BY <2>1, <2>2
<1>5. Stage(r, {}) /\ Nodes(r) \subseteq Nodes(s) /\ SameButTriples(s, r) /\ r.T = R
  BY <1>4, NextStage
<1>. HIDE DEF r
<1>6. Spares(s, r, n)
  BY <1>2, <1>3, <1>5, ObjectsAreApart DEF Spares
<1>7. ASSUME ~IsBlank(n)
      PROVE  /\ Match(r.T, n, p) = new
             /\ \A x : x # p => Match(r.T, n, x) = Match(s.T, n, x)
  <2>1. About(r.T, n) = (About(s.T, n) \ Match(s.T, n, p)) \cup new
    BY <1>2, <1>3, <1>5, <1>7, ObjectsAreApart
  <2>2. \A t \in new : t[1] = n /\ t[2] = p
    OBVIOUS
  <2>. HIDE DEF new
  <2>. QED  BY <2>1, <2>2, MatchAbout
<1>8. new = Valued(n, p, V)
  BY DEF Valued
<1>. HIDE DEF new
<1>. QED  BY <1>5, <1>6, <1>7, <1>8 DEF Rewrites, r, R

LEMMA PropertyDropped ==
  ASSUME NEW s, Stage(s, {}), NEW n, NEW p, p \notin {"list", "rest"}
  PROVE  LET r == [s EXCEPT !.T = s.T \ Match(s.T, n, p)]
         IN  Rewrites(s, r, n, {p}) /\ Match(r.T, n, p) = {}
<1>. DEFINE R == s.T \ Match(s.T, n, p)
            r == [s EXCEPT !.T = R]
<1>1. InOrder(R, Nodes(s), s.bp, {})
  BY DroppedInOrder DEF Stage
<1>2. (\A m : m # n => About(R, m) = About(s.T, m)) /\ Match(R, n, p) = {}
      /\ \A x : x # p => Match(R, n, x) = Match(s.T, n, x)
  BY DEF About, Match
<1>. HIDE DEF R
<1>3. Stage(r, {}) /\ Nodes(r) \subseteq Nodes(s) /\ SameButTriples(s, r) /\ r.T = R
  BY <1>1, NextStage
<1>. HIDE DEF r
<1>. QED  BY <1>2, <1>3 DEF Rewrites, Spares, r, R

LEMMA TypeAdded ==
  ASSUME NEW s, Stage(s, {}), NEW n \in Nodes(s)
  PROVE  LET r == [s EXCEPT !.T = s.T \cup {<<n, "type", KnownType>>}]
         IN  /\ Rewrites(s, r, n, {"type"})
             /\ Match(r.T, n, "type") = Match(s.T, n, "type") \cup {<<n, "type", KnownType>>}
<1>. DEFINE t == <<n, "type", KnownType>>
            R == s.T \cup {t}
            r == [s EXCEPT !.T = R]
<1>1. t[1] = n /\ t[2] = "type" /\ t[3] = KnownType
  OBVIOUS
<1>2. Fits(t, Nodes(s), s.bp)
  <2>1. ~IsBlank(KnownType)
    BY DEF KnownType, IsBlank
  <2>. HIDE DEF t
  <2>. QED  BY <1>1, <2>1 DEF Fits, Predicates, Cells, t
<1>3. InOrder(R, Nodes(s), s.bp, {} \ {KnownType})
  BY <1>2, OneMoreInOrder DEF Stage
<1>4. InOrder(R, Nodes(s), s.bp, {})
  <2>1. {} \ {KnownType} = {}
    OBVIOUS
  <2>. HIDE DEF R
  <2>. QED  BY <1>3, <2>1
<1>. HIDE DEF t
<1>5. (\A m : m # n => About(R, m) = About(s.T, m))
      /\ Match(R, n, "type") = Match(s.T, n, "type") \cup {t}
      /\ \A x : x # "type" => Match(R, n, x) = Match(s.T, n, x)
  BY <1>1 DEF About, Match
<1>. HIDE DEF R
<1>6. Stage(r, {}) /\ Nodes(r) \subseteq Nodes(s) /\ SameButTriples(s, r) /\ r.T = R
  BY <1>4, NextStage
<1>. HIDE DEF r
<1>. QED  BY <1>5, <1>6 DEF Rewrites, Spares, r, R, t

\* The list of an object, and the end of the one it had.
LEMMA ListStored ==
  ASSUME NEW s, Stage(s, {}), NEW n \in Nodes(s), NEW list, IsList(list)
  PROVE  LET l == ListToPropertyNode(s, list)
             r == [s EXCEPT !.T = ReplacePropertyNodes(l.s.T, n, "list", NodesOrNone(l.first))]
         IN  Rewrites(s, r, n, {"list"})
<1>. DEFINE l == ListToPropertyNode(s, list)
            u == l.s
            V == NodesOrNone(l.first)
            T == ReplacePropertyNodes(u.T, n, "list", V)
            r == [s EXCEPT !.T = T]
            N == Nodes(s)
<1>1. /\ SameButTriples(s, u) /\ Stage(u, {l.first}) /\ Nodes(u) = N
      /\ \A m \in N : About(u.T, m) = About(s.T, m)
      /\ l.first \notin N
  BY ListIsWritten
<1>. HIDE DEF l, N
<1>2. InOrder(u.T, N, s.bp, {l.first}) /\ AreNodes(N, s.bp) /\ n \in N
  BY <1>1 DEF Stage, SameButTriples, N
<1>3. \A x \in V : Fits(<<n, "list", x>>, N, s.bp)
  <2>. SUFFICES ASSUME NEW x \in V PROVE Fits(<<n, "list", x>>, N, s.bp)
    OBVIOUS
  <2>. DEFINE t == <<n, "list", x>>
  <2>1. t[1] = n /\ t[2] = "list" /\ t[3] = x /\ x = l.first
    BY DEF NodesOrNone
  <2>. HIDE DEF t
  <2>2. Fits(t, N, s.bp)
    BY <1>1, <1>2, <2>1 DEF Fits, Predicates, Cells, t
  <2>. QED  BY <2>2 DEF t
<1>4. IsFiniteSet(u.T) /\ \A t \in u.T : Fits(t, N, s.bp) /\ t = <<t[1], t[2], t[3]>>
  BY <1>2 DEF InOrder, Fits
<1>5. V \subseteq {l.first}
  BY DEF NodesOrNone
<1>. HIDE DEF u, V
<1>6. /\ \A m : IsApart(u.T, m) /\ m # n => About(T, m) = About(u.T, m)
      /\ IsApart(u.T, n) => About(T, n) = (About(u.T, n) \ Match(u.T, n, "list")) \cup {<<n, "list", x>> : x \in V}
      /\ InOrder(T, N, s.bp, {l.first} \ V)
  <2>. DEFINE first == l.first
  <2>. HIDE DEF first
  <2>1. V \subseteq {first}
    BY <1>5 DEF first
  <2>2. /\ \A m : IsApart(u.T, m) /\ m # n => About(T, m) = About(u.T, m)
        /\ IsApart(u.T, n) /\ (\A t \in u.T : t = <<t[1], t[2], t[3]>>)
             => About(T, n) = (About(u.T, n) \ Match(u.T, n, "list")) \cup {<<n, "list", x>> : x \in V}
        /\ \A M, bp, X : InOrder(u.T, M, bp, X) /\ AreNodes(M, bp) /\ n \in M
                         /\ (\A x \in V : Fits(<<n, "list", x>>, M, bp)) => InOrder(T, M, bp, X \ V)
    BY <1>4, <2>1, PropertyReplaced
  <2>. HIDE DEF T
  <2>. QED  BY <1>2, <1>3, <1>4, <2>2
<1>. HIDE DEF T
<1>7. InOrder(T, N, s.bp, {})
  <2>1. CASE l.first = Nothing
    <3>1. {l.first} \ V = {Nothing}
      BY <2>1 DEF V, NodesOrNone
    <3>. QED  BY <1>6, <3>1, NoBlankIsNothing
  <2>2. CASE l.first # Nothing
    <3>1. {l.first} \ V = {}
      BY <2>2 DEF V, NodesOrNone
    <3>. QED  BY <1>6, <3>1
  <2>. QED  BY <2>1, <2>2
<1>8. Stage(r, {}) /\ Nodes(r) \subseteq Nodes(s) /\ SameButTriples(s, r) /\ r.T = T
  BY <1>7, NextStage DEF N
<1>. HIDE DEF r
<1>9. Spares(s, r, n)
  BY <1>1, <1>4, <1>6, <1>8, ObjectsAreApart DEF Spares, N, u
<1>10. ASSUME ~IsBlank(n), NEW p, p # "list" PROVE Match(r.T, n, p) = Match(s.T, n, p)
  <2>1. About(r.T, n) = (About(s.T, n) \ Match(u.T, n, "list")) \cup {<<n, "list", x>> : x \in V}
    BY <1>1, <1>2, <1>4, <1>6, <1>8, <1>10, ObjectsAreApart DEF u
  <2>. DEFINE new == {<<n, "list", x>> : x \in V}
  <2>2. \A t \in new : t[2] = "list"
    OBVIOUS
  <2>. HIDE DEF new
  <2>3. About(r.T, n) = (About(s.T, n) \ Match(u.T, n, "list")) \cup new
    BY <2>1 DEF new
  <2>4. \A t \in Match(u.T, n, "list") : t[2] = "list"
    BY DEF Match
  <2>. QED  BY <1>10, <2>2, <2>3, <2>4, MatchAbout
<1>11. Rewrites(s, r, n, {"list"})
  BY <1>8, <1>9, <1>10 DEF Rewrites
<1>. QED  BY <1>11 DEF r, T, V, u, l


LEMMA LastTriplesCount ==
  ASSUME NEW s, DOMAIN s = StorerFields, NEW T, NEW U
  PROVE  [[s EXCEPT !.T = T] EXCEPT !.T = U] = [s EXCEPT !.T = U]
BY DEF StorerFields

LEMMA StageFields ==
  ASSUME NEW s, NEW X, Stage(s, X)
  PROVE  DOMAIN s = StorerFields /\ IsGrove(s.O)
BY DEF Stage, IsStorerCall

\* The values that an object's properties are written with.
LitValues(s, o) ==
    IF s.psp = "StoreIfChanged" /\ VariantsEqual(s.O[o].lit, DefaultLit) THEN {}
    ELSE {<<"literal", s.O[o].lit>>}
RefValues(s, o) ==
    NodesOrNone(IF s.O[o].ref = Null THEN Nothing ELSE ObjectToPropertyNode(s, s.O[o].ref))
ParentValues(s, o) == IF s.O[o].parent = Null THEN {} ELSE {s.map[s.O[o].parent]}
PreviousOf(s, o) ==
    IF s.O[o].parent = Null \/ "siblings" \notin s.fp THEN Null ELSE PreviousSibling(s.O, o)
FollowsValues(s, o) ==
    IF PreviousOf(s, o) # Null /\ s.map[PreviousOf(s, o)] # Nothing THEN {s.map[PreviousOf(s, o)]} ELSE {}

LEMMA MappedNodes ==
  ASSUME NEW s, NEW X, Stage(s, X), NEW o \in Object, s.map[o] # Nothing
  PROVE  /\ s.map[o] \in Nodes(s)
         /\ s.bp # "PermitBlankObjectNodes" => ~IsBlank(s.map[o])
<1>1. s.map[o] \in Nodes(s)
  BY DEF Nodes, ObjectNodes
<1>. QED  BY <1>1 DEF Stage, AreNodes, IsBlank

\* What may be written about an object.
LEMMA ValuesFit ==
  ASSUME NEW s, NEW X, Stage(s, X), NEW n \in Nodes(s), NEW p \in {"parent", "follows", "ref"},
         NEW v \in Nodes(s)
  PROVE  Fits(<<n, p, v>>, Nodes(s), s.bp)
<1>. DEFINE t == <<n, p, v>>
<1>1. t[1] = n /\ t[2] = p /\ t[3] = v
  OBVIOUS
<1>2. s.bp = "NoBlankObjectNodes" => ~IsBlank(v)
  BY DEF Stage, AreNodes, IsBlank
<1>. HIDE DEF t
<1>3. Fits(t, Nodes(s), s.bp)
  BY <1>1, <1>2 DEF Fits, Predicates, Cells, t
<1>. QED  BY <1>3 DEF t

LEMMA SingleIsStored ==
  ASSUME NEW s, Stage(s, {}), NEW o \in Living(s.O), s.map[o] # Nothing
  PROVE  LET r == StoreSingle(s, o)
             n == s.map[o]
         IN  /\ Rewrites(s, r, n, {"type", "lit", "ref", "list"})
             /\ ~IsBlank(n) =>
                  /\ Match(r.T, n, "type") = Match(s.T, n, "type") \cup {<<n, "type", KnownType>>}
                  /\ Match(r.T, n, "lit") = Valued(n, "lit", LitValues(s, o))
                  /\ Match(r.T, n, "ref") = Valued(n, "ref", RefValues(s, o))
<1>. DEFINE n == s.map[o]
            s1 == [s EXCEPT !.T = s.T \cup {<<n, "type", KnownType>>}]
            T2 == ReplacePropertyNodes(s1.T, n, "lit", LitValues(s, o))
            s2 == [s1 EXCEPT !.T = T2]
            T3 == ReplacePropertyNodes(s2.T, n, "ref", RefValues(s, o))
            s3 == [s2 EXCEPT !.T = T3]
            l == ListToPropertyNode(s3, s.O[o].list)
            T4 == ReplacePropertyNodes(l.s.T, n, "list", NodesOrNone(l.first))
            s4 == [s3 EXCEPT !.T = T4]
<1>1. o \in Object /\ n \in Nodes(s)
  BY MappedNodes DEF Living
<1>. HIDE DEF n
<1>2. /\ Rewrites(s, s1, n, {"type"})
      /\ Match(s1.T, n, "type") = Match(s.T, n, "type") \cup {<<n, "type", KnownType>>}
  BY <1>1, TypeAdded
<1>. HIDE DEF s1
<1>3. Stage(s1, {}) /\ SameButTriples(s, s1) /\ n \in Nodes(s1)
  BY <1>1, <1>2 DEF Rewrites, Nodes, ObjectNodes, SameButTriples, n
<1>4. Rewrites(s1, s2, n, {"lit"}) /\ (~IsBlank(n) => Match(s2.T, n, "lit") = Valued(n, "lit", LitValues(s, o)))
  <2>. DEFINE v == <<"literal", s.O[o].lit>>
              V == LitValues(s, o)
  <2>1. V \subseteq {v}
    BY DEF LitValues
  <2>2. Fits(<<n, "lit", v>>, Nodes(s1), s1.bp)
    <3>. DEFINE t == <<n, "lit", v>>
    <3>1. t[1] = n /\ t[2] = "lit" /\ t[3] = v /\ v[1] = "literal"
      OBVIOUS
    <3>. HIDE DEF t, v
    <3>2. Fits(t, Nodes(s1), s1.bp)
      BY <1>3, <3>1 DEF Fits, Predicates, Cells, IsBlank, t
    <3>. QED  BY <3>2 DEF t
  <2>. HIDE DEF v, V
  <2>3. \A x \in V : Fits(<<n, "lit", x>>, Nodes(s1), s1.bp)
    BY <2>1, <2>2
  <2>4. LET r == [s1 EXCEPT !.T = ReplacePropertyNodes(s1.T, n, "lit", V)]
        IN  Rewrites(s1, r, n, {"lit"}) /\ (~IsBlank(n) => Match(r.T, n, "lit") = Valued(n, "lit", V))
    BY <1>3, <2>1, <2>3, PropertyWritten
  <2>. QED  BY <2>4 DEF V
<1>5. s2.T = T2 /\ s2 = [s EXCEPT !.T = T2]
  <2>. HIDE DEF T2
  <2>. QED  BY LastTriplesCount, OtherTriples, <1>3, StageFields DEF s1
<1>. HIDE DEF s2
<1>6. Stage(s2, {}) /\ SameButTriples(s, s2) /\ n \in Nodes(s2)
  <2>1. Stage(s2, {}) /\ SameButTriples(s, s2)
    BY <1>3, <1>4 DEF Rewrites, SameButTriples
  <2>. QED  BY <1>1, <2>1, MappedNodes DEF SameButTriples, n
<1>7. Rewrites(s2, s3, n, {"ref"}) /\ (~IsBlank(n) => Match(s3.T, n, "ref") = Valued(n, "ref", RefValues(s, o)))
  <2>. DEFINE v == IF s.O[o].ref = Null THEN Nothing ELSE ObjectToPropertyNode(s, s.O[o].ref)
              V == RefValues(s, o)
  <2>1. V \subseteq {v}
    BY DEF RefValues, NodesOrNone
  <2>5. Nothing \notin V
    BY DEF RefValues, NodesOrNone
  <2>2. v \in Nodes(s2) \cup {Nothing}
    <3>1. s.O[o].ref # Null => s.O[o].ref \in Object
      <4>1. IsGraph(s.O)
        BY StageFields DEF IsGrove
      <4>. QED  BY <1>1, <4>1 DEF IsGraph, Living
    <3>. QED  BY <1>6, <3>1 DEF ObjectToPropertyNode, Nodes, ObjectNodes, SameButTriples
  <2>. HIDE DEF v, V
  <2>3. \A x \in V : Fits(<<n, "ref", x>>, Nodes(s2), s2.bp)
    BY <1>6, <2>1, <2>2, <2>5, ValuesFit
  <2>4. LET r == [s2 EXCEPT !.T = ReplacePropertyNodes(s2.T, n, "ref", V)]
        IN  Rewrites(s2, r, n, {"ref"}) /\ (~IsBlank(n) => Match(r.T, n, "ref") = Valued(n, "ref", V))
    BY <1>6, <2>1, <2>3, PropertyWritten
  <2>. QED  BY <2>4 DEF V
<1>8. s3 = [s EXCEPT !.T = T3] /\ s3.T = T3
  <2>1. DOMAIN s2 = StorerFields /\ DOMAIN s = StorerFields
    BY <1>6, StageFields
  <2>. HIDE DEF T2, T3
  <2>. QED  BY <1>5, <2>1, LastTriplesCount, OtherTriples
<1>. HIDE DEF s3
<1>9. Stage(s3, {}) /\ SameButTriples(s, s3) /\ n \in Nodes(s3)
  <2>1. Stage(s3, {}) /\ SameButTriples(s, s3)
    BY <1>6, <1>7 DEF Rewrites, SameButTriples
  <2>. QED  BY <1>1, <2>1, MappedNodes DEF SameButTriples, n
<1>10. Rewrites(s3, s4, n, {"list"})
  <2>1. IsList(s.O[o].list)
    BY StageFields, ValuesInGrove
  <2>. QED  BY <1>9, <2>1, ListStored
<1>11. s4 = [s1 EXCEPT !.T = T4]
  <2>1. DOMAIN s2 = StorerFields /\ DOMAIN s = StorerFields /\ DOMAIN s1 = StorerFields
    BY <1>3, <1>6, StageFields
  <2>. HIDE DEF T2, T3, T4
  <2>. QED  BY <1>5, <1>8, <2>1, LastTriplesCount, OtherTriples DEF s1
<1>12. StoreSingle(s, o) = s4
  <2>. DEFINE isDefault == s1.psp = "StoreIfChanged" /\ VariantsEqual(s1.O[o].lit, DefaultLit)
              lit == IF isDefault THEN RemovePropertyNodes(s1.T, s1.map[o], "lit", {})
                     ELSE ReplacePropertyNodes(s1.T, s1.map[o], "lit", {<<"literal", s1.O[o].lit>>})
              target == IF s1.O[o].ref = Null THEN Nothing ELSE ObjectToPropertyNode(s1, s1.O[o].ref)
              ref == ReplacePropertyNodes(lit, s1.map[o], "ref", NodesOrNone(target))
              k == ListToPropertyNode([s1 EXCEPT !.T = ref], s1.O[o].list)
  <2>1. StoreSingle(s, o) = [s1 EXCEPT !.T = ReplacePropertyNodes(k.s.T, s1.map[o], "list", NodesOrNone(k.first))]
    BY DEF StoreSingle, StoreProperties, s1, n
  <2>2. s1.map = s.map /\ s1.O = s.O /\ s1.psp = s.psp
    BY <1>3 DEF SameButTriples
  <2>3. lit = T2
    <3>1. LitValues(s, o) = IF isDefault THEN {} ELSE {<<"literal", s1.O[o].lit>>}
      BY <2>2 DEF LitValues
    <3>2. ReplacePropertyNodes(s1.T, n, "lit", {}) = RemovePropertyNodes(s1.T, n, "lit", {})
      BY DEF ReplacePropertyNodes
    <3>. QED  BY <2>2, <3>1, <3>2 DEF n
  <2>4. target = IF s.O[o].ref = Null THEN Nothing ELSE ObjectToPropertyNode(s, s.O[o].ref)
    BY <2>2 DEF ObjectToPropertyNode
  <2>. HIDE DEF lit, target, T2
  <2>5. ref = T3
    BY <1>5, <2>2, <2>3, <2>4 DEF RefValues, n
  <2>. HIDE DEF ref, T3
  <2>6. [s1 EXCEPT !.T = ref] = s3
    <3>1. DOMAIN s2 = StorerFields /\ DOMAIN s = StorerFields /\ DOMAIN s1 = StorerFields
      BY <1>3, <1>6, StageFields
    <3>. QED  BY <1>8, <2>5, <3>1, LastTriplesCount DEF s1
  <2>7. k = l
    BY <2>2, <2>6
  <2>. HIDE DEF k, l
  <2>. QED  BY <1>11, <2>1, <2>2, <2>7 DEF n
<1>13. Rewrites(s, s4, n, {"type"} \cup {"lit"} \cup {"ref"} \cup {"list"})
  <2>. HIDE DEF s4
  <2>1. Rewrites(s, s2, n, {"type"} \cup {"lit"})
    BY <1>2, <1>4, RewritesOn
  <2>2. Rewrites(s, s3, n, {"type"} \cup {"lit"} \cup {"ref"})
    BY <1>7, <2>1, RewritesOn
  <2>. QED  BY <1>10, <2>2, RewritesOn
<1>14. {"type"} \cup {"lit"} \cup {"ref"} \cup {"list"} = {"type", "lit", "ref", "list"}
  OBVIOUS
<1>15. ASSUME ~IsBlank(n)
       PROVE  /\ Match(s4.T, n, "type") = Match(s.T, n, "type") \cup {<<n, "type", KnownType>>}
              /\ Match(s4.T, n, "lit") = Valued(n, "lit", LitValues(s, o))
              /\ Match(s4.T, n, "ref") = Valued(n, "ref", RefValues(s, o))
  <2>. HIDE DEF s4
  <2>1. \A p : p \notin {"lit"} => Match(s2.T, n, p) = Match(s1.T, n, p)
    BY <1>4, <1>15 DEF Rewrites
  <2>2. \A p : p \notin {"ref"} => Match(s3.T, n, p) = Match(s2.T, n, p)
    BY <1>7, <1>15 DEF Rewrites
  <2>3. \A p : p \notin {"list"} => Match(s4.T, n, p) = Match(s3.T, n, p)
    BY <1>10, <1>15 DEF Rewrites
  <2>4. /\ Match(s4.T, n, "type") = Match(s1.T, n, "type")
        /\ Match(s4.T, n, "lit") = Match(s2.T, n, "lit")
        /\ Match(s4.T, n, "ref") = Match(s3.T, n, "ref")
    BY <2>1, <2>2, <2>3
  <2>. QED  BY <1>2, <1>4, <1>7, <1>15, <2>4
<1>. HIDE DEF s4
<1>. QED  BY <1>12, <1>13, <1>14, <1>15 DEF n

LEMMA PreviousIsObject ==
  ASSUME NEW s, IsGrove(s.O), NEW o \in Living(s.O), PreviousOf(s, o) # Null
  PROVE  PreviousOf(s, o) \in Object
<1>. DEFINE siblings == s.O[s.O[o].parent].children
<1>1. s.O[o].parent # Null /\ PreviousOf(s, o) = PreviousSibling(s.O, o)
  BY DEF PreviousOf
<1>2. IsSequence(siblings) /\ ToSet(siblings) \subseteq Object
  BY <1>1 DEF IsGrove, IsForest, Living
<1>3. Len(siblings) \in Nat /\ \A i \in 1..Len(siblings) : siblings[i] \in Object
  BY <1>2, SequenceDomain
<1>4. PreviousSibling(s.O, o)
        = IF \E i \in 2..Len(siblings) : siblings[i] = o
          THEN siblings[(CHOOSE i \in 2..Len(siblings) : siblings[i] = o) - 1] ELSE Null
  BY DEF PreviousSibling
<1>. HIDE DEF siblings
<1>5. \E i \in 2..Len(siblings) : siblings[i] = o
  BY <1>1, <1>4
<1>. DEFINE j == CHOOSE i \in 2..Len(siblings) : siblings[i] = o
<1>6. j \in 2..Len(siblings)
  BY <1>5
<1>7. PreviousOf(s, o) = siblings[j - 1]
  BY <1>1, <1>4, <1>5
<1>. HIDE DEF j
<1>8. j - 1 \in 1..Len(siblings)
  BY <1>3, <1>6
<1>. QED  BY <1>3, <1>7, <1>8

LEMMA NothingRewritten ==
  ASSUME NEW s, Stage(s, {}), NEW n, NEW P
  PROVE  Rewrites(s, s, n, P)
BY DEF Rewrites, Spares, SameButTriples, Stage, IsStorerCall

LEMMA ParentIsStored ==
  ASSUME NEW s, Stage(s, {}), NEW o \in Living(s.O), s.map[o] # Nothing
  PROVE  LET r == StoreParent(s, o)
             n == s.map[o]
         IN  /\ Rewrites(s, r, n, {"parent"})
             /\ ~IsBlank(n) /\ (s.O[o].parent = Null \/ s.map[s.O[o].parent] # Nothing)
                  => Match(r.T, n, "parent") = Valued(n, "parent", ParentValues(s, o))
             /\ s.O[o].parent = Null \/ s.map[s.O[o].parent] # Nothing \/ r = s
<1>. DEFINE n == s.map[o]
            parent == s.O[o].parent
            v == s.map[parent]
            r == StoreParent(s, o)
<1>1. n \in Nodes(s)
  BY MappedNodes DEF Living
<1>2. CASE parent = Null
  <2>1. r = [s EXCEPT !.T = s.T \ Match(s.T, n, "parent")]
    BY <1>2 DEF StoreParent
  <2>2. ParentValues(s, o) = {} /\ Valued(n, "parent", {}) = {}
    BY <1>2 DEF ParentValues, Valued
  <2>3. Rewrites(s, r, n, {"parent"}) /\ Match(r.T, n, "parent") = {}
    <3>. HIDE DEF r, n
    <3>. QED  BY <2>1, PropertyDropped
  <2>. QED  BY <1>2, <2>2, <2>3
<1>3. CASE parent # Null /\ v = Nothing
  <2>1. r = s
    BY <1>3 DEF StoreParent
  <2>. QED  BY <1>3, <2>1, NothingRewritten
<1>4. CASE parent # Null /\ v # Nothing
  <2>1. r = [s EXCEPT !.T = ReplacePropertyNodes(s.T, n, "parent", {v})]
    BY <1>4 DEF StoreParent
  <2>2. ParentValues(s, o) = {v}
    BY <1>4 DEF ParentValues
  <2>3. parent \in Object
    BY <1>4, StageFields DEF IsGrove, IsForest, Living
  <2>. HIDE DEF n, v, r
  <2>4. v \in Nodes(s)
    BY <1>4, <2>3, MappedNodes DEF v
  <2>5. \A x \in {v} : Fits(<<n, "parent", x>>, Nodes(s), s.bp)
    BY <1>1, <2>4, ValuesFit
  <2>6. LET u == [s EXCEPT !.T = ReplacePropertyNodes(s.T, n, "parent", {v})]
        IN  Rewrites(s, u, n, {"parent"}) /\ (~IsBlank(n) => Match(u.T, n, "parent") = Valued(n, "parent", {v}))
    <3>. DEFINE V == {v}
    <3>1. V \subseteq {v} /\ (\A x \in V : Fits(<<n, "parent", x>>, Nodes(s), s.bp)) /\ "parent" # "type"
      BY <2>5
    <3>. HIDE DEF V
    <3>2. LET u == [s EXCEPT !.T = ReplacePropertyNodes(s.T, n, "parent", V)]
          IN  Rewrites(s, u, n, {"parent"}) /\ (~IsBlank(n) => Match(u.T, n, "parent") = Valued(n, "parent", V))
      BY <1>1, <3>1, PropertyWritten
    <3>. QED  BY <3>2 DEF V
  <2>7. Rewrites(s, r, n, {"parent"}) /\ (~IsBlank(n) => Match(r.T, n, "parent") = Valued(n, "parent", ParentValues(s, o)))
    BY <2>1, <2>2, <2>6
  <2>. QED  BY <1>4, <2>7 DEF r, n, v
<1>. QED  BY <1>2, <1>3, <1>4

LEMMA FollowsIsStored ==
  ASSUME NEW s, Stage(s, {}), NEW o \in Living(s.O), s.map[o] # Nothing
  PROVE  LET r == StoreFollows(s, o)
             n == s.map[o]
         IN  /\ Rewrites(s, r, n, {"follows"})
             /\ ~IsBlank(n) => Match(r.T, n, "follows") = Valued(n, "follows", FollowsValues(s, o))
<1>. DEFINE n == s.map[o]
            previous == PreviousOf(s, o)
            v == s.map[previous]
            r == StoreFollows(s, o)
            isKnown == previous # Null /\ v # Nothing
<1>1. n \in Nodes(s)
  BY MappedNodes DEF Living
<1>2. r = IF isKnown THEN [s EXCEPT !.T = ReplacePropertyNodes(s.T, n, "follows", {v})]
          ELSE [s EXCEPT !.T = s.T \ Match(s.T, n, "follows")]
  BY DEF StoreFollows, PreviousOf
<1>3. FollowsValues(s, o) = IF isKnown THEN {v} ELSE {}
  BY DEF FollowsValues
<1>4. CASE ~isKnown
  <2>1. Valued(n, "follows", {}) = {}
    BY DEF Valued
  <2>2. Rewrites(s, r, n, {"follows"}) /\ Match(r.T, n, "follows") = {}
    <3>. HIDE DEF r, isKnown
    <3>. QED  BY <1>2, <1>4, PropertyDropped
  <2>. QED  BY <1>3, <1>4, <2>1, <2>2
<1>5. CASE isKnown
  <2>1. previous \in Object
    BY <1>5, StageFields, PreviousIsObject
  <2>2. v \in Nodes(s)
    BY <1>5, <2>1, MappedNodes
  <2>. HIDE DEF n, v, r, isKnown
  <2>3. \A x \in {v} : Fits(<<n, "follows", x>>, Nodes(s), s.bp)
    BY <1>1, <2>2, ValuesFit
  <2>4. LET u == [s EXCEPT !.T = ReplacePropertyNodes(s.T, n, "follows", {v})]
        IN  Rewrites(s, u, n, {"follows"}) /\ (~IsBlank(n) => Match(u.T, n, "follows") = Valued(n, "follows", {v}))
    <3>. DEFINE V == {v}
    <3>1. V \subseteq {v} /\ (\A x \in V : Fits(<<n, "follows", x>>, Nodes(s), s.bp)) /\ "follows" # "type"
      BY <2>3
    <3>. HIDE DEF V
    <3>2. LET u == [s EXCEPT !.T = ReplacePropertyNodes(s.T, n, "follows", V)]
          IN  Rewrites(s, u, n, {"follows"}) /\ (~IsBlank(n) => Match(u.T, n, "follows") = Valued(n, "follows", V))
      BY <1>1, <3>1, PropertyWritten
    <3>. QED  BY <3>2 DEF V
  <2>5. Rewrites(s, r, n, {"follows"}) /\ (~IsBlank(n) => Match(r.T, n, "follows") = Valued(n, "follows", FollowsValues(s, o)))
    BY <1>2, <1>3, <1>5, <2>4
  <2>. QED  BY <2>5 DEF r, n
<1>. QED  BY <1>4, <1>5

\* What an object's node has, when it was stored last with s for the call's state.
Settled(T, s, o) ==
    LET n == s.map[o] IN
    /\ <<n, "type", KnownType>> \in T
    /\ Match(T, n, "lit") = Valued(n, "lit", LitValues(s, o))
    /\ Match(T, n, "ref") = Valued(n, "ref", RefValues(s, o))
    /\ s.O[o].parent = Null \/ s.map[s.O[o].parent] # Nothing
         => Match(T, n, "parent") = Valued(n, "parent", ParentValues(s, o))
    /\ Match(T, n, "follows") = Valued(n, "follows", FollowsValues(s, o))

LEMMA SameSettled ==
  ASSUME NEW s, NEW r, SameButTriples(s, r), NEW o
  PROVE  /\ r.map = s.map /\ r.O = s.O /\ Living(r.O) = Living(s.O)
         /\ LitValues(r, o) = LitValues(s, o) /\ RefValues(r, o) = RefValues(s, o)
         /\ ParentValues(r, o) = ParentValues(s, o) /\ FollowsValues(r, o) = FollowsValues(s, o)
         /\ \A T : Settled(T, r, o) <=> Settled(T, s, o)
<1>1. r.map = s.map /\ r.O = s.O /\ r.psp = s.psp /\ r.fp = s.fp
  BY DEF SameButTriples
<1>2. PreviousOf(r, o) = PreviousOf(s, o)
  BY <1>1 DEF PreviousOf
<1>3. /\ LitValues(r, o) = LitValues(s, o) /\ RefValues(r, o) = RefValues(s, o)
      /\ ParentValues(r, o) = ParentValues(s, o) /\ FollowsValues(r, o) = FollowsValues(s, o)
  BY <1>1, <1>2 DEF LitValues, RefValues, ParentValues, FollowsValues, ObjectToPropertyNode
<1>. QED  BY <1>1, <1>3 DEF Settled

\* A stored object has what it is to have, and storing it again writes nothing but
\* its list.
LEMMA ObjectIsStored ==
  ASSUME NEW s, Stage(s, {}), NEW o \in Living(s.O), s.map[o] # Nothing
  PROVE  LET r == StoreObject(s, o)
             n == s.map[o]
         IN  /\ Rewrites(s, r, n, {"type", "lit", "ref", "list", "parent", "follows"})
             /\ ~IsBlank(n) => Settled(r.T, s, o)
             /\ ~IsBlank(n) /\ Settled(s.T, s, o)
                  => \A p : p # "list" => Match(r.T, n, p) = Match(s.T, n, p)
<1>. DEFINE n == s.map[o]
            u == StoreSingle(s, o)
            v == StoreParent(u, o)
            r == StoreFollows(v, o)
            P == {"type", "lit", "ref", "list"}
            hasParent == s.O[o].parent = Null \/ s.map[s.O[o].parent] # Nothing
<1>1. StoreObject(s, o) = r
  BY DEF StoreObject
<1>2. /\ Rewrites(s, u, n, P)
      /\ ~IsBlank(n) =>
           /\ Match(u.T, n, "type") = Match(s.T, n, "type") \cup {<<n, "type", KnownType>>}
           /\ Match(u.T, n, "lit") = Valued(n, "lit", LitValues(s, o))
           /\ Match(u.T, n, "ref") = Valued(n, "ref", RefValues(s, o))
  BY SingleIsStored
<1>. HIDE DEF u
<1>3. Stage(u, {}) /\ SameButTriples(s, u) /\ o \in Living(u.O) /\ u.map[o] = n /\ u.map = s.map /\ u.O = s.O
  BY <1>2 DEF Rewrites, SameButTriples, Living
<1>4. /\ Rewrites(u, v, n, {"parent"})
      /\ ~IsBlank(n) /\ hasParent => Match(v.T, n, "parent") = Valued(n, "parent", ParentValues(s, o))
      /\ ~hasParent => v = u
  <2>1. ParentValues(u, o) = ParentValues(s, o)
    BY <1>3, SameSettled
  <2>2. /\ Rewrites(u, v, u.map[o], {"parent"})
        /\ ~IsBlank(u.map[o]) /\ (u.O[o].parent = Null \/ u.map[u.O[o].parent] # Nothing)
             => Match(v.T, u.map[o], "parent") = Valued(u.map[o], "parent", ParentValues(u, o))
        /\ u.O[o].parent = Null \/ u.map[u.O[o].parent] # Nothing \/ v = u
    BY <1>3, ParentIsStored
  <2>. HIDE DEF v, n
  <2>. QED  BY <1>3, <2>1, <2>2
<1>. HIDE DEF v
<1>5. Stage(v, {}) /\ SameButTriples(s, v) /\ o \in Living(v.O) /\ v.map[o] = n
  BY <1>3, <1>4 DEF Rewrites, SameButTriples, Living
<1>6. /\ Rewrites(v, r, n, {"follows"})
      /\ ~IsBlank(n) => Match(r.T, n, "follows") = Valued(n, "follows", FollowsValues(s, o))
  <2>1. FollowsValues(v, o) = FollowsValues(s, o)
    BY <1>5, SameSettled
  <2>2. /\ Rewrites(v, r, v.map[o], {"follows"})
        /\ ~IsBlank(v.map[o]) => Match(r.T, v.map[o], "follows") = Valued(v.map[o], "follows", FollowsValues(v, o))
    BY <1>5, FollowsIsStored
  <2>. HIDE DEF r, n
  <2>. QED  BY <1>5, <2>1, <2>2
<1>. HIDE DEF r
<1>7. Rewrites(s, r, n, P \cup {"parent"} \cup {"follows"})
  <2>. HIDE DEF n, P
  <2>1. Rewrites(s, v, n, P \cup {"parent"})
    BY <1>2, <1>4, RewritesOn
  <2>. QED  BY <1>6, <2>1, RewritesOn
<1>8. P \cup {"parent"} \cup {"follows"} = {"type", "lit", "ref", "list", "parent", "follows"}
  OBVIOUS
<1>9. ASSUME ~IsBlank(n)
      PROVE  /\ Match(r.T, n, "type") = Match(s.T, n, "type") \cup {<<n, "type", KnownType>>}
             /\ Match(r.T, n, "lit") = Valued(n, "lit", LitValues(s, o))
             /\ Match(r.T, n, "ref") = Valued(n, "ref", RefValues(s, o))
             /\ hasParent => Match(r.T, n, "parent") = Valued(n, "parent", ParentValues(s, o))
             /\ ~hasParent => Match(r.T, n, "parent") = Match(s.T, n, "parent")
             /\ Match(r.T, n, "follows") = Valued(n, "follows", FollowsValues(s, o))
  <2>1. \A p : p \notin P => Match(u.T, n, p) = Match(s.T, n, p)
    BY <1>2, <1>9 DEF Rewrites
  <2>2. \A p : p # "parent" => Match(v.T, n, p) = Match(u.T, n, p)
    BY <1>4, <1>9 DEF Rewrites
  <2>3. \A p : p # "follows" => Match(r.T, n, p) = Match(v.T, n, p)
    BY <1>6, <1>9 DEF Rewrites
  <2>4. /\ Match(r.T, n, "type") = Match(u.T, n, "type")
        /\ Match(r.T, n, "lit") = Match(u.T, n, "lit")
        /\ Match(r.T, n, "ref") = Match(u.T, n, "ref")
        /\ Match(r.T, n, "parent") = Match(v.T, n, "parent")
        /\ Match(u.T, n, "parent") = Match(s.T, n, "parent")
    BY <2>1, <2>2, <2>3
  <2>. HIDE DEF n, hasParent
  <2>. QED  BY <1>2, <1>4, <1>6, <1>9, <2>4
<1>10. ~IsBlank(n) => Settled(r.T, s, o)
  <2>1. <<n, "type", KnownType>> \in Match(r.T, n, "type") => <<n, "type", KnownType>> \in r.T
    BY DEF Match
  <2>. QED  BY <1>9, <2>1 DEF Settled
<1>11. ASSUME ~IsBlank(n), Settled(s.T, s, o), NEW p, p # "list"
       PROVE  Match(r.T, n, p) = Match(s.T, n, p)
  <2>1. CASE p \notin P \cup {"parent"} \cup {"follows"}
    BY <1>7, <1>11, <2>1 DEF Rewrites
  <2>2. CASE p = "type"
    <3>1. <<n, "type", KnownType>> \in Match(s.T, n, "type")
      BY <1>11 DEF Settled, Match
    <3>. HIDE DEF n
    <3>. QED  BY <1>9, <1>11, <2>2, <3>1
  <2>3. CASE p \in {"lit", "ref", "parent", "follows"}
    BY <1>9, <1>11, <2>3 DEF Settled
  <2>. QED  BY <1>11, <2>1, <2>2, <2>3
<1>. HIDE DEF r, P
<1>12. Rewrites(s, r, n, {"type", "lit", "ref", "list", "parent", "follows"})
  BY <1>7, <1>8
<1>. QED  BY <1>1, <1>10, <1>11, <1>12

LEMMA SettledStays ==
  ASSUME NEW s, Stage(s, {}), s.bp # "PermitBlankObjectNodes", NEW o \in Living(s.O), s.map[o] # Nothing,
         Settled(s.T, s, o)
  PROVE  Plain(StoreObject(s, o).T) = Plain(s.T)
<1>. DEFINE n == s.map[o]
            r == StoreObject(s, o)
<1>1. n \in Nodes(s) /\ ~IsBlank(n)
  BY MappedNodes DEF Living
<1>2. Rewrites(s, r, n, {"type", "lit", "ref", "list", "parent", "follows"})
      /\ \A p : p # "list" => Match(r.T, n, p) = Match(s.T, n, p)
  BY <1>1, ObjectIsStored
<1>. HIDE DEF r, n
<1>3. Nodes(r) \subseteq Nodes(s) /\ Spares(s, r, n) /\ Stage(r, {})
  BY <1>2 DEF Rewrites
<1>4. \A m \in Nodes(s) : ~IsBlank(m)
  BY DEF Stage, AreNodes, IsBlank
<1>5. /\ \A t \in r.T : t[2] \notin Cells => t[1] \in Nodes(r)
      /\ \A t \in s.T : t[2] \notin Cells => t[1] \in Nodes(s)
  BY <1>3 DEF Stage, InOrder, Fits
<1>6. \A m \in Nodes(s) : \A p : p # "list" => Match(r.T, m, p) = Match(s.T, m, p)
  BY <1>2, <1>3, <1>4, MatchAbout DEF Spares
<1>7. ASSUME NEW t, t[2] \notin {"list", "first", "rest"} PROVE t \in r.T <=> t \in s.T
  <2>1. t \in r.T \/ t \in s.T => t[1] \in Nodes(s)
    BY <1>3, <1>5, <1>7 DEF Cells
  <2>2. t[1] \in Nodes(s) => (t \in Match(r.T, t[1], t[2]) <=> t \in Match(s.T, t[1], t[2]))
    BY <1>6, <1>7
  <2>. QED  BY <2>1, <2>2 DEF Match
<1>8. Plain(r.T) = Plain(s.T)
  BY <1>7 DEF Plain
<1>. QED  BY <1>8 DEF r

LEMMA SettledAlike ==
  ASSUME NEW T, NEW U, NEW s, NEW o, Settled(T, s, o)
  PROVE  /\ About(U, s.map[o]) = About(T, s.map[o]) => Settled(U, s, o)
         /\ Plain(U) = Plain(T) => Settled(U, s, o)
<1>. DEFINE n == s.map[o]
            t == <<n, "type", KnownType>>
<1>1. t[1] = n /\ t[2] = "type"
  OBVIOUS
<1>. HIDE DEF t
<1>2. (t \in T <=> t \in About(T, n)) /\ (t \in U <=> t \in About(U, n))
  BY <1>1 DEF About
<1>3. (t \in T <=> t \in Plain(T)) /\ (t \in U <=> t \in Plain(U))
  BY <1>1 DEF Plain
<1>4. \A p : About(U, n) = About(T, n) => Match(U, n, p) = Match(T, n, p)
  BY MatchAbout
<1>5. \A p \in {"lit", "ref", "parent", "follows"} :
        Match(U, n, p) = {x \in Plain(U) : x[1] = n /\ x[2] = p} /\ Match(T, n, p) = {x \in Plain(T) : x[1] = n /\ x[2] = p}
  BY DEF Match, Plain
<1>6. /\ t \in T /\ Match(T, n, "lit") = Valued(n, "lit", LitValues(s, o))
      /\ Match(T, n, "ref") = Valued(n, "ref", RefValues(s, o))
      /\ s.O[o].parent = Null \/ s.map[s.O[o].parent] # Nothing
           => Match(T, n, "parent") = Valued(n, "parent", ParentValues(s, o))
      /\ Match(T, n, "follows") = Valued(n, "follows", FollowsValues(s, o))
  BY DEF Settled, t
<1>7. ASSUME t \in U, \A p \in {"lit", "ref", "parent", "follows"} : Match(U, n, p) = Match(T, n, p)
      PROVE  Settled(U, s, o)
  BY <1>6, <1>7 DEF Settled, t
<1>8. About(U, n) = About(T, n) => Settled(U, s, o)
  BY <1>2, <1>4, <1>6, <1>7
<1>9. Plain(U) = Plain(T) => Settled(U, s, o)
  <2>. SUFFICES ASSUME Plain(U) = Plain(T) PROVE Settled(U, s, o)
    OBVIOUS
  <2>1. \A p \in {"lit", "ref", "parent", "follows"} : Match(U, n, p) = Match(T, n, p)
    BY <1>5
  <2>. QED  BY <1>3, <1>6, <1>7, <2>1
<1>. QED  BY <1>8, <1>9

\* Storing one object after the other.
StoredSoFar(r, k, q) ==
    /\ Stage(r, {}) /\ SameButTriples(q.s, r) /\ Nodes(r) \subseteq Nodes(q.s)
    /\ \A m \in Nodes(q.s) : ~IsBlank(m) /\ (\A i \in 1..Len(q.seq) : m # q.s.map[q.seq[i]])
         => About(r.T, m) = About(q.s.T, m)
    /\ q.s.bp # "PermitBlankObjectNodes" /\ NoNodeIsShared(q.s.map)
         => \A i \in 1..k : Settled(r.T, q.s, q.seq[i])
    /\ q.s.bp # "PermitBlankObjectNodes" /\ (\A i \in 1..Len(q.seq) : Settled(q.s.T, q.s, q.seq[i]))
         => Plain(r.T) = Plain(q.s.T)

StoringFold == INSTANCE FoldTheorems
    WITH Op <- LAMBDA r, o, p : StoreObject(r, o),
         Inv <- LAMBDA r, k, q : StoredSoFar(r, k, q)

LEMMA OneMoreIsStored ==
  ASSUME NEW q, NEW r, NEW k \in Nat, StoredSoFar(r, k, q), Len(q.seq) \in Nat, k + 1 <= Len(q.seq),
         \A i \in 1..Len(q.seq) : q.seq[i] \in Living(q.s.O) /\ q.s.map[q.seq[i]] # Nothing
  PROVE  StoredSoFar(StoreObject(r, q.seq[k + 1]), k + 1, q)
<1>. DEFINE s == q.s
            seq == q.seq
            o == seq[k + 1]
            n == s.map[o]
            u == StoreObject(r, o)
<1>1. k + 1 \in 1..Len(seq) /\ o \in Living(s.O) /\ n # Nothing
  OBVIOUS
<1>2. Stage(r, {}) /\ SameButTriples(s, r) /\ Nodes(r) \subseteq Nodes(s)
  BY DEF StoredSoFar
<1>3. r.map = s.map /\ o \in Living(r.O) /\ r.bp = s.bp
  BY <1>1, <1>2 DEF SameButTriples, Living
<1>4. /\ Rewrites(r, u, n, {"type", "lit", "ref", "list", "parent", "follows"})
      /\ ~IsBlank(n) => Settled(u.T, r, o)
  <2>1. /\ Rewrites(r, u, r.map[o], {"type", "lit", "ref", "list", "parent", "follows"})
        /\ ~IsBlank(r.map[o]) => Settled(u.T, r, o)
    BY <1>1, <1>2, <1>3, ObjectIsStored
  <2>. QED  BY <1>3, <2>1
<1>5. Settled(r.T, r, o) /\ s.bp # "PermitBlankObjectNodes" => Plain(u.T) = Plain(r.T)
  BY <1>1, <1>2, <1>3, SettledStays
<1>. HIDE DEF u, n, o
<1>6. Stage(u, {}) /\ SameButTriples(s, u) /\ Nodes(u) \subseteq Nodes(s) /\ Spares(r, u, n)
  BY <1>2, <1>4 DEF Rewrites, SameButTriples
<1>7. ASSUME NEW m \in Nodes(s), ~IsBlank(m), \A i \in 1..Len(seq) : m # s.map[seq[i]]
      PROVE  About(u.T, m) = About(s.T, m)
  <2>1. About(r.T, m) = About(s.T, m)
    BY <1>7 DEF StoredSoFar
  <2>2. m \in Nodes(r)
    BY <1>2, <2>1, SparedAreNodes
  <2>3. m # n
    BY <1>1, <1>7 DEF n, o
  <2>. QED  BY <1>6, <1>7, <2>1, <2>2, <2>3 DEF Spares
<1>8. ASSUME s.bp # "PermitBlankObjectNodes", NoNodeIsShared(s.map), NEW i \in 1..k + 1
      PROVE  Settled(u.T, s, seq[i])
  <2>1. ~IsBlank(n)
    <3>1. r.map[o] # Nothing /\ o \in Object
      BY <1>1, <1>3 DEF n, Living
    <3>2. ~IsBlank(r.map[o])
      BY <1>2, <1>3, <1>8, <3>1, MappedNodes
    <3>. QED  BY <1>3, <3>2 DEF n
  <2>2. Settled(u.T, s, o)
    <3>1. Settled(u.T, r, o)
      BY <1>4, <2>1
    <3>. QED  BY <1>2, <3>1, SameSettled
  <2>. DEFINE p == seq[i]
              m == s.map[p]
  <2>3. i \in 1..Len(seq) /\ p \in Living(s.O) /\ p \in Object /\ m # Nothing
    BY DEF Living
  <2>4. CASE p = o
    BY <2>2, <2>4
  <2>5. CASE p # o
    <3>1. i \in 1..k
      BY <2>5 DEF o
    <3>2. Settled(r.T, s, p)
      BY <1>8, <3>1 DEF StoredSoFar
    <3>3. m # n
      BY <1>1, <1>8, <2>3, <2>5 DEF NoNodeIsShared, Living, n
    <3>4. r.map[p] # Nothing /\ r.map[p] = m
      BY <1>3, <2>3
    <3>5. m \in Nodes(r) /\ ~IsBlank(m)
      BY <1>2, <1>3, <1>8, <2>3, <3>4, MappedNodes
    <3>6. About(u.T, m) = About(r.T, m)
      BY <1>6, <3>3, <3>5 DEF Spares
    <3>. HIDE DEF p
    <3>7. Settled(u.T, s, p)
      BY <3>2, <3>6, SettledAlike DEF m
    <3>. QED  BY <3>7 DEF p
  <2>. QED  BY <2>4, <2>5
<1>9. ASSUME s.bp # "PermitBlankObjectNodes", \A i \in 1..Len(seq) : Settled(s.T, s, seq[i])
      PROVE  Plain(u.T) = Plain(s.T)
  <2>1. Plain(r.T) = Plain(s.T)
    BY <1>9 DEF StoredSoFar
  <2>2. Settled(s.T, s, o)
    BY <1>1, <1>9 DEF o
  <2>3. Settled(r.T, s, o)
    BY <2>1, <2>2, SettledAlike
  <2>4. Settled(r.T, r, o)
    BY <1>2, <2>3, SameSettled
  <2>. QED  BY <1>5, <1>9, <2>1, <2>4
<1>10. StoredSoFar(u, k + 1, q)
  BY <1>6, <1>7, <1>8, <1>9 DEF StoredSoFar
<1>. QED  BY <1>10 DEF u, o

LEMMA AllAreStored ==
  ASSUME NEW s, Stage(s, {}), NEW S \in SUBSET Living(s.O), \A o \in S : s.map[o] # Nothing, NEW order
  PROVE  LET r == FoldLeft(StoreObject, s, Ordered(S, order))
         IN  /\ Stage(r, {}) /\ SameButTriples(s, r) /\ Nodes(r) \subseteq Nodes(s)
             /\ \A m \in Nodes(s) : ~IsBlank(m) /\ (\A o \in S : m # s.map[o]) => About(r.T, m) = About(s.T, m)
             /\ s.bp # "PermitBlankObjectNodes" /\ NoNodeIsShared(s.map) => \A o \in S : Settled(r.T, s, o)
             /\ s.bp # "PermitBlankObjectNodes" /\ (\A o \in S : Settled(s.T, s, o)) => Plain(r.T) = Plain(s.T)
<1>. DEFINE seq == Ordered(S, order)
            q == [s |-> s, seq |-> seq]
            r == StoringFold!Fold(s, seq, 0)
<1>1. FoldLeft(StoreObject, s, seq) = r
  BY DEF FoldLeft, MapThenFoldSet, Max, StoringFold!Fold, StoringFold!Largest
<1>2. seq \in Seq(S) /\ ToSet(seq) = S
  BY LiveAreFew, OrderedIsSequence
<1>3. q.s = s /\ q.seq = seq
  OBVIOUS
<1>. HIDE DEF q, seq
<1>4. /\ Len(seq) \in Nat /\ DOMAIN seq = 1..Len(seq) /\ \A i \in 1..Len(seq) : seq[i] \in S
      /\ \A o \in S : \E i \in 1..Len(seq) : seq[i] = o
  BY <1>2 DEF ToSet
<1>5. StoredSoFar(s, 0, q)
  <2>1. SameButTriples(s, s)
    BY DEF SameButTriples, Stage, IsStorerCall
  <2>. QED  BY <1>3, <2>1 DEF StoredSoFar
<1>6. ASSUME NEW x, NEW k \in 1..Len(seq), StoredSoFar(x, k - 1, q) PROVE StoredSoFar(StoreObject(x, seq[k]), k, q)
  <2>1. k - 1 \in Nat /\ (k - 1) + 1 = k /\ k <= Len(seq)
    BY <1>4
  <2>2. \A i \in 1..Len(q.seq) : q.seq[i] \in Living(q.s.O) /\ q.s.map[q.seq[i]] # Nothing
    BY <1>3, <1>4
  <2>3. StoredSoFar(StoreObject(x, q.seq[(k - 1) + 1]), (k - 1) + 1, q)
    BY <1>3, <1>4, <1>6, <2>1, <2>2, OneMoreIsStored
  <2>. QED  BY <1>3, <2>1, <2>3
<1>7. StoredSoFar(r, Len(seq), q)
  <2>. HIDE DEF r
  <2>1. StoredSoFar(StoringFold!Fold(s, seq, 0), Len(seq), q)
    BY <1>4, <1>5, <1>6, StoringFold!FoldInduction
  <2>. QED  BY <2>1 DEF r
<1>. HIDE DEF r
<1>8. /\ Stage(r, {}) /\ SameButTriples(s, r) /\ Nodes(r) \subseteq Nodes(s)
      /\ \A m \in Nodes(s) : ~IsBlank(m) /\ (\A i \in 1..Len(seq) : m # s.map[seq[i]]) => About(r.T, m) = About(s.T, m)
      /\ s.bp # "PermitBlankObjectNodes" /\ NoNodeIsShared(s.map) => \A i \in 1..Len(seq) : Settled(r.T, s, seq[i])
      /\ s.bp # "PermitBlankObjectNodes" /\ (\A i \in 1..Len(seq) : Settled(s.T, s, seq[i])) => Plain(r.T) = Plain(s.T)
  BY <1>3, <1>7 DEF StoredSoFar
<1>9. \A m \in Nodes(s) : ~IsBlank(m) /\ (\A o \in S : m # s.map[o]) => About(r.T, m) = About(s.T, m)
  BY <1>4, <1>8
<1>10. s.bp # "PermitBlankObjectNodes" /\ NoNodeIsShared(s.map) => \A o \in S : Settled(r.T, s, o)
  BY <1>4, <1>8
<1>11. s.bp # "PermitBlankObjectNodes" /\ (\A o \in S : Settled(s.T, s, o)) => Plain(r.T) = Plain(s.T)
  BY <1>4, <1>8
<1>. QED  BY <1>1, <1>8, <1>9, <1>10, <1>11 DEF seq

-------------------------------------------------------------------------------
(* A call that stores.                                                           *)

LEMMA NewNodesInOrder ==
  ASSUME NEW s, Stage(s, {}), NEW a, Numbered(a, s)
  PROVE  Stage(a, {}) /\ Nodes(s) \subseteq Nodes(a)
<1>1. /\ IsStorerCall(a) /\ a.T = s.T /\ a.bp = s.bp
      /\ \A o \in Object :
            /\ a.map[o] = s.map[o] \/ (s.map[o] = Nothing /\ IsNewNode(s, o, a.map[o]))
            /\ a.O[o].uri = s.O[o].uri \/ (s.O[o].uri = Nothing /\ a.O[o].uri = a.map[o])
  BY DEF Numbered
<1>2. Nothing \notin Nodes(s) /\ AreNodes(Nodes(s), s.bp) /\ InOrder(s.T, Nodes(s), s.bp, {})
  BY DEF Stage, Nodes, ObjectNodes
<1>. DEFINE IsNew(m) == m \notin Names(s) /\ (m[1] = "uri" \/ (m[1] = "blank" /\ s.bp = "PermitBlankObjectNodes"))
<1>3. ASSUME NEW o \in Object, a.map[o] # Nothing PROVE a.map[o] \in Nodes(s) \/ IsNew(a.map[o])
  <2>1. CASE a.map[o] = s.map[o]
    BY <1>3, <2>1 DEF Nodes, ObjectNodes
  <2>2. CASE IsNewNode(s, o, a.map[o])
    BY <1>3, <2>2 DEF IsNewNode, Nodes, ObjectNodes
  <2>. QED  BY <1>1, <2>1, <2>2
<1>4. ASSUME NEW m \in Nodes(a) PROVE m \in Nodes(s) \/ IsNew(m)
  <2>1. m # Nothing
    BY DEF Nodes, ObjectNodes
  <2>2. CASE \E o \in Object : m = a.map[o]
    <3>. HIDE DEF IsNew
    <3>. QED  BY <1>3, <2>1, <2>2
  <2>3. CASE \E o \in Object : m = a.O[o].uri
    <3>1. PICK o \in Object : m = a.O[o].uri
      BY <2>3
    <3>2. CASE m = s.O[o].uri
      BY <2>1, <3>2 DEF Nodes, ObjectNodes
    <3>3. CASE m = a.map[o]
      <4>. HIDE DEF IsNew
      <4>. QED  BY <1>3, <2>1, <3>3
    <3>. QED  BY <1>1, <3>1, <3>2, <3>3
  <2>4. CASE m \in {t[1] : t \in {u \in s.T : u[2] \notin Cells}}
    BY <2>1, <2>4 DEF Nodes, ObjectNodes
  <2>. QED  BY <1>1, <2>2, <2>3, <2>4 DEF Nodes, ObjectNodes
<1>5. AreNodes(Nodes(a), s.bp)
  <2>. SUFFICES ASSUME NEW m \in Nodes(a)
                PROVE  m[1] = "uri" \/ (m[1] = "blank" /\ s.bp = "PermitBlankObjectNodes")
    BY DEF AreNodes
  <2>. QED  BY <1>2, <1>4 DEF AreNodes
<1>6. \A m \in NodesOf(s.T) : m \in Nodes(a) => m \in Nodes(s)
  BY <1>4 DEF Names
<1>7. \A t \in s.T : t[1] \in NodesOf(s.T) /\ t[3] \in NodesOf(s.T)
  BY DEF NodesOf
<1>8. \A t \in s.T : t[2] \notin Cells => t[1] \in Nodes(a)
  <2>1. \A t \in s.T : t[2] \notin Cells => t[1] \in Nodes(s)
    BY <1>2 DEF InOrder, Fits
  <2>. QED  BY <1>1, <1>2, <2>1 DEF Nodes, ObjectNodes
<1>9. ASSUME NEW t \in s.T PROVE Fits(t, Nodes(a), s.bp)
  <2>1. Fits(t, Nodes(s), s.bp)
    BY <1>2 DEF InOrder
  <2>2. t[1] \in Nodes(a) => t[1] \in Nodes(s)
    BY <1>6, <1>7
  <2>3. t[3] \in Nodes(a) => t[3] \in Nodes(s)
    BY <1>6, <1>7
  <2>4. t[2] \notin Cells => t[1] \in Nodes(a)
    BY <1>8
  <2>. QED  BY <2>1, <2>2, <2>3, <2>4 DEF Fits
<1>10. InOrder(s.T, Nodes(a), s.bp, {})
  BY <1>2, <1>9 DEF InOrder
<1>11. Nodes(s) \subseteq Nodes(a)
  <2>1. \A o \in Object : s.map[o] # Nothing => a.map[o] = s.map[o]
    BY <1>1
  <2>2. \A o \in Object : s.O[o].uri # Nothing => a.O[o].uri = s.O[o].uri
    BY <1>1
  <2>. QED  BY <1>1, <2>1, <2>2 DEF Nodes, ObjectNodes
<1>. QED  BY <1>1, <1>5, <1>10, <1>11 DEF Stage

LEMMA SameRelatives ==
  ASSUME NEW s, NEW r, SameValues(s.O, r.O), r.fp = s.fp, IsGrove(s.O), NEW V \in SUBSET Living(s.O), IsClosed(s, V)
  PROVE  IsClosed(r, V)
<1>. SUFFICES ASSUME NEW o \in V PROVE RelatedTo(r, o) \subseteq V
  BY DEF IsClosed
<1>1. o \in Object /\ o \in Living(s.O)
  BY DEF Living
<1>2. /\ r.O[o].ref = s.O[o].ref /\ r.O[o].list = s.O[o].list
      /\ r.O[o].parent = s.O[o].parent /\ r.O[o].children = s.O[o].children
  BY <1>1 DEF SameValues
<1>3. PropertiesOf(r, o) = PropertiesOf(s, o)
  BY <1>2 DEF PropertiesOf, PropertyObjectsOf
<1>4. s.O[o].parent # Null => r.O[s.O[o].parent].children = s.O[s.O[o].parent].children
  BY <1>1 DEF SameValues, IsGrove, IsForest, Living
<1>5. RelativesOf(r, o) = RelativesOf(s, o)
  BY <1>2, <1>4 DEF RelativesOf
<1>. QED  BY <1>3, <1>5 DEF RelatedTo, IsClosed

\* The parts of a call that stores.
LEMMA CallInParts ==
  ASSUME NEW s, Stage(s, {}), NEW requested \in SUBSET Living(s.O), NEW order
  PROVE  LET seq == Ordered(requested, order)
             c == Collect(s, seq)
             a == Allocated(s, c, order)
             r == Store(s, seq, order)
         IN  /\ CollectInv(c, s, seq) /\ requested \subseteq c.visited /\ IsClosed(s, c.visited)
             /\ ToSet(seq) = requested
             /\ \A V : IsClosed(s, V) /\ requested \subseteq V => c.visited \subseteq V
             /\ Numbered(a, s) /\ Stage(a, {}) /\ Nodes(s) \subseteq Nodes(a)
             /\ \A o \in c.visited : a.map[o] # Nothing
             /\ c.toStore \subseteq Living(a.O)
             /\ r.s = FoldLeft(StoreObject, a, Ordered(c.toStore, order)) /\ r.stored = c.toStore
<1>. DEFINE seq == Ordered(requested, order)
            c == Collect(s, seq)
            a == Allocated(s, c, order)
            r == Store(s, seq, order)
<1>1. seq \in Seq(requested) /\ ToSet(seq) = requested
  BY LiveAreFew, OrderedIsSequence
<1>. HIDE DEF seq
<1>2. seq \in Seq(Living(s.O)) /\ IsStorerCall(s)
  BY <1>1 DEF Stage
<1>3. /\ CollectInv(c, s, seq) /\ ToSet(seq) \subseteq c.visited /\ IsClosed(s, c.visited)
      /\ \A V : IsClosed(s, V) /\ ToSet(seq) \subseteq V => c.visited \subseteq V
  BY <1>2, CollectFinds
<1>. HIDE DEF c
<1>4. c.toAllocate \subseteq Living(s.O) /\ c.visited \subseteq Living(s.O) /\ c.toStore \subseteq c.visited
      /\ \A o \in c.visited : o \notin c.toAllocate => s.map[o] # Nothing
  BY <1>3 DEF CollectInv
<1>5. Numbered(a, s) /\ \A o \in c.toAllocate : a.map[o] # Nothing
  BY <1>2, <1>4, AllAreNumbered
<1>6. r.s = FoldLeft(StoreObject, a, Ordered(c.toStore, order)) /\ r.stored = c.toStore
  BY DEF Store, StoreCollected, Allocated, c
<1>. HIDE DEF a, r
<1>7. Stage(a, {}) /\ Nodes(s) \subseteq Nodes(a)
  BY <1>5, NewNodesInOrder
<1>8. ASSUME NEW o \in c.visited PROVE a.map[o] # Nothing
  <2>1. o \in Object
    BY <1>4 DEF Living
  <2>2. s.map[o] # Nothing => a.map[o] = s.map[o]
    BY <1>5, <2>1 DEF Numbered
  <2>. QED  BY <1>4, <1>5, <2>2
<1>9. c.toStore \subseteq Living(a.O)
  BY <1>4, <1>5 DEF Numbered, SameValues
<1>. QED  BY <1>1, <1>3, <1>5, <1>6, <1>7, <1>8, <1>9 DEF seq, c, a, r

\* What a call that stores leaves in order, and to whom.
LEMMA CallStores ==
  ASSUME NEW s, Stage(s, {}), NEW requested \in SUBSET Living(s.O), NEW order
  PROVE  LET call == Store(s, Ordered(requested, order), order)
             r == call.s
         IN  /\ Stage(r, {}) /\ r.bp = s.bp /\ r.fp = s.fp /\ r.psp = s.psp /\ r.used = s.used
             /\ SameValues(s.O, r.O)
             /\ NodesFit(s.O, s.map) => NodesFit(r.O, r.map)
             /\ NoNodeIsShared(s.map) /\ UrisAreNodes(s.O, s.map)
                  => NoNodeIsShared(r.map) /\ UrisAreNodes(r.O, r.map)
             /\ requested \subseteq call.stored /\ call.stored \subseteq Living(s.O)
             /\ \A o \in Object : s.map[o] # Nothing => r.map[o] = s.map[o]
             /\ NoNodeIsShared(s.map) /\ UrisAreNodes(s.O, s.map) =>
                  \A o \in Object : s.map[o] # Nothing /\ ~IsBlank(s.map[o]) /\ o \notin requested
                                      => About(r.T, s.map[o]) = About(s.T, s.map[o])
             /\ \E V \in SUBSET Living(s.O) :
                  requested \subseteq V /\ IsClosed(r, V) /\ \A o \in V : r.map[o] # Nothing
             /\ s.bp # "PermitBlankObjectNodes" /\ NoNodeIsShared(s.map) /\ UrisAreNodes(s.O, s.map)
                  => \A o \in requested : Settled(r.T, r, o)
<1>. DEFINE seq == Ordered(requested, order)
            c == Collect(s, seq)
            a == Allocated(s, c, order)
            call == Store(s, seq, order)
            r == call.s
<1>1. /\ CollectInv(c, s, seq) /\ requested \subseteq c.visited /\ IsClosed(s, c.visited)
      /\ ToSet(seq) = requested
      /\ Numbered(a, s) /\ Stage(a, {}) /\ Nodes(s) \subseteq Nodes(a)
      /\ \A o \in c.visited : a.map[o] # Nothing
      /\ c.toStore \subseteq Living(a.O)
      /\ r = FoldLeft(StoreObject, a, Ordered(c.toStore, order)) /\ call.stored = c.toStore
  <2>1. /\ CollectInv(c, s, seq) /\ requested \subseteq c.visited /\ IsClosed(s, c.visited)
        /\ ToSet(seq) = requested
        /\ Numbered(a, s) /\ Stage(a, {}) /\ Nodes(s) \subseteq Nodes(a)
    BY CallInParts
  <2>2. /\ \A o \in c.visited : a.map[o] # Nothing
        /\ c.toStore \subseteq Living(a.O) /\ call.stored = c.toStore
    BY CallInParts
  <2>3. r = FoldLeft(StoreObject, a, Ordered(c.toStore, order))
    BY DEF Store, StoreCollected, Allocated
  <2>. HIDE DEF seq, c, a, call
  <2>. QED  BY <2>1, <2>2, <2>3
<1>. HIDE DEF seq, c, a, call
<1>2. /\ c.toStore \subseteq c.visited /\ c.visited \subseteq Living(s.O)
      /\ requested \subseteq c.toStore
      /\ \A o \in c.toStore : o \in requested \/ s.map[o] = Nothing
  BY <1>1 DEF CollectInv
<1>3. /\ Stage(r, {}) /\ SameButTriples(a, r) /\ Nodes(r) \subseteq Nodes(a)
      /\ \A m \in Nodes(a) : ~IsBlank(m) /\ (\A o \in c.toStore : m # a.map[o]) => About(r.T, m) = About(a.T, m)
      /\ a.bp # "PermitBlankObjectNodes" /\ NoNodeIsShared(a.map) => \A o \in c.toStore : Settled(r.T, a, o)
  <2>1. \A o \in c.toStore : a.map[o] # Nothing
    BY <1>1, <1>2
  <2>. DEFINE S == c.toStore
              u == FoldLeft(StoreObject, a, Ordered(S, order))
  <2>. HIDE DEF S
  <2>2. /\ Stage(u, {}) /\ SameButTriples(a, u) /\ Nodes(u) \subseteq Nodes(a)
        /\ \A m \in Nodes(a) : ~IsBlank(m) /\ (\A o \in S : m # a.map[o]) => About(u.T, m) = About(a.T, m)
        /\ a.bp # "PermitBlankObjectNodes" /\ NoNodeIsShared(a.map) => \A o \in S : Settled(u.T, a, o)
    <3>1. S \in SUBSET Living(a.O) /\ Stage(a, {}) /\ \A o \in S : a.map[o] # Nothing
      BY <1>1, <2>1 DEF S
    <3>. QED  BY <3>1, AllAreStored
  <2>3. r = u
    BY <1>1 DEF S
  <2>. HIDE DEF u
  <2>. QED  BY <2>2, <2>3 DEF S
<1>. HIDE DEF r
<1>4. /\ r.map = a.map /\ r.O = a.O /\ r.used = a.used /\ r.bp = a.bp /\ r.fp = a.fp /\ r.psp = a.psp
      /\ a.T = s.T /\ a.used = s.used /\ a.bp = s.bp /\ a.fp = s.fp /\ a.psp = s.psp
      /\ SameValues(s.O, a.O)
      /\ NodesFit(s.O, s.map) => NodesFit(a.O, a.map)
      /\ NoNodeIsShared(s.map) /\ UrisAreNodes(s.O, s.map)
           => NoNodeIsShared(a.map) /\ UrisAreNodes(a.O, a.map)
      /\ \A o \in Object : s.map[o] # Nothing => a.map[o] = s.map[o]
  BY <1>1, <1>3 DEF Numbered, SameButTriples
<1>5. ASSUME NoNodeIsShared(s.map), UrisAreNodes(s.O, s.map), NEW o \in Object, s.map[o] # Nothing,
             ~IsBlank(s.map[o]), o \notin requested
      PROVE  About(r.T, s.map[o]) = About(s.T, s.map[o])
  <2>1. s.map[o] \in Nodes(a)
    BY <1>1, <1>5, MappedNodes
  <2>2. o \notin c.toStore
    BY <1>2, <1>5
  <2>3. \A p \in c.toStore : p \in Object
    BY <1>2 DEF Living
  <2>4. \A p \in c.toStore : s.map[o] # a.map[p]
    BY <1>4, <1>5, <2>2, <2>3 DEF NoNodeIsShared
  <2>. QED  BY <1>3, <1>4, <1>5, <2>1, <2>4
<1>6. \E V \in SUBSET Living(s.O) : requested \subseteq V /\ IsClosed(r, V) /\ \A o \in V : r.map[o] # Nothing
  <2>1. IsClosed(r, c.visited)
    <3>. DEFINE V == c.visited
    <3>. HIDE DEF V
    <3>1. V \in SUBSET Living(s.O) /\ IsClosed(s, V)
      BY <1>1, <1>2 DEF V
    <3>2. SameValues(s.O, r.O) /\ r.fp = s.fp /\ IsGrove(s.O)
      BY <1>4, StageFields
    <3>3. IsClosed(r, V)
      BY <3>1, <3>2, SameRelatives
    <3>. QED  BY <3>3 DEF V
  <2>. QED  BY <1>1, <1>2, <1>4, <2>1
<1>7. ASSUME s.bp # "PermitBlankObjectNodes", NoNodeIsShared(s.map), UrisAreNodes(s.O, s.map), NEW o \in requested
      PROVE  Settled(r.T, r, o)
  <2>1. Settled(r.T, a, o)
    BY <1>2, <1>3, <1>4, <1>7
  <2>. QED  BY <1>3, <2>1, SameSettled
<1>8. requested \subseteq call.stored /\ call.stored \subseteq Living(s.O)
  BY <1>1, <1>2
<1>. QED  BY <1>3, <1>4, <1>5, <1>6, <1>7, <1>8 DEF seq, call, r

\* A call that stores what is settled already.
LEMMA CallStoresAgain ==
  ASSUME NEW s, Stage(s, {}), s.bp # "PermitBlankObjectNodes", NEW requested \in SUBSET Living(s.O), NEW order,
         NEW V, requested \subseteq V, IsClosed(s, V), \A o \in V : s.map[o] # Nothing,
         \A o \in requested : Settled(s.T, s, o)
  PROVE  LET r == Store(s, Ordered(requested, order), order).s
         IN  Plain(r.T) = Plain(s.T) /\ r.map = s.map
<1>. DEFINE seq == Ordered(requested, order)
            c == Collect(s, seq)
            a == Allocated(s, c, order)
            call == Store(s, seq, order)
            r == call.s
<1>1. /\ CollectInv(c, s, seq) /\ requested \subseteq c.visited
      /\ ToSet(seq) = requested
      /\ c.visited \subseteq V
      /\ r = FoldLeft(StoreObject, a, Ordered(c.toStore, order))
  BY CallInParts
<1>. HIDE DEF seq, call, r
<1>2. c.toAllocate = {} /\ c.toStore = requested
  <2>. HIDE DEF c
  <2>. QED  BY <1>1 DEF CollectInv
<1>3. a = s
  <2>. DEFINE empty == Ordered(c.toAllocate, order)
              noBlanks == c.noBlanks
  <2>1. a = NumberFold!Fold(s, empty, noBlanks)
    BY DEF Allocated, FoldLeft, MapThenFoldSet, Max, NumberFold!Fold, NumberFold!Largest
  <2>2. empty = <<>>
    <3>1. empty \in Seq({})
      <4>. DEFINE S == c.toAllocate
      <4>. HIDE DEF S
      <4>1. S = {}
        BY <1>2 DEF S
      <4>2. IsFiniteSet(S)
        BY <4>1, FS_EmptySet
      <4>3. Ordered(S, order) \in Seq(S)
        BY <4>2, OrderedIsSequence
      <4>4. Ordered(S, order) \in Seq({})
        BY <4>1, <4>3
      <4>. QED  BY <4>4 DEF S
    <3>. HIDE DEF empty
    <3>2. Len(empty) \in Nat /\ \A i \in 1..Len(empty) : empty[i] \in {}
      BY <3>1
    <3>3. Len(empty) = 0
      BY <3>2
    <3>. QED  BY <3>1, <3>3
  <2>. HIDE DEF empty, noBlanks, a
  <2>. QED  BY <2>1, <2>2, NumberFold!FoldEmpty
<1>. HIDE DEF a, c
<1>. DEFINE S == requested
            u == FoldLeft(StoreObject, s, Ordered(S, order))
<1>4. r = u
  BY <1>1, <1>2, <1>3
<1>5. SameButTriples(s, u) /\ Plain(u.T) = Plain(s.T)
  <2>1. \A o \in requested : s.map[o] # Nothing /\ Settled(s.T, s, o)
    OBVIOUS
  <2>. QED  BY <2>1, AllAreStored
<1>. HIDE DEF u
<1>6. Plain(r.T) = Plain(s.T) /\ r.map = s.map
  BY <1>4, <1>5 DEF SameButTriples
<1>. QED  BY <1>6 DEF r, call, seq

-------------------------------------------------------------------------------
(* Walks from node to node.                                                      *)

PreviousFold == INSTANCE FoldTheorems
    WITH Op <- LAMBDA c, k, T : IF c = <<>> THEN c ELSE Extended(c, PrevSiblingOf(T, Last(c))),
         Inv <- LAMBDA c, k, T : IsSequence(c)
FollowingFold == INSTANCE FoldTheorems
    WITH Op <- LAMBDA c, k, T : IF c = <<>> THEN c ELSE Extended(c, NextSiblingOf(T, Last(c))),
         Inv <- LAMBDA c, k, T : IsSequence(c)

LEMMA SiblingsAreSequence ==
  ASSUME NEW T, IsFiniteSet(T), NEW n
  PROVE  IsSequence(OrderedSiblingsOf(T, n))
<1>. DEFINE N == Cardinality(Links(T, "follows"))
            From(m) == IF m = Nothing THEN <<>> ELSE <<m>>
            before == Chain(Links(T, "follows"), LAMBDA m : PrevSiblingOf(T, m), n)
            after == Chain(Links(T, "follows"), LAMBDA m : NextSiblingOf(T, m), Last(before))
<1>1. after = FollowingFold!Fold(From(Last(before)), Times(N), T)
  <2>. HIDE DEF before
  <2>. QED  BY DEF Chain, FoldLeft, MapThenFoldSet, Max, FollowingFold!Fold, FollowingFold!Largest
<1>2. N \in Nat
  BY LinksAreFinite
<1>3. Len(Times(N)) \in Nat /\ DOMAIN Times(N) = 1..Len(Times(N))
  BY <1>2, TimesIsSequence
<1>4. \A m : IsSequence(From(m))
  BY SingletonIsSequence
<1>. HIDE DEF N, From
<1>5. ASSUME NEW c, IsSequence(c)
      PROVE  IsSequence(IF c = <<>> THEN c ELSE Extended(c, NextSiblingOf(T, Last(c))))
  BY <1>5, ExtendedIsSequence
<1>6. ASSUME NEW m PROVE IsSequence(FollowingFold!Fold(From(m), Times(N), T))
  BY <1>3, <1>4, <1>5, FollowingFold!FoldInduction
<1>7. IsSequence(after)
  BY <1>1, <1>6
<1>8. OrderedSiblingsOf(T, n) = IF before = <<>> THEN <<>> ELSE after
  BY DEF OrderedSiblingsOf
<1>. QED  BY <1>7, <1>8, EmptySequence

\* The relatives of a node, in all settings.
LEMMA RelativesAreFinite ==
  ASSUME NEW s, IsFiniteSet(s.T), NEW n
  PROVE  IsFiniteSet(RelativesOfNode(s, n))
<1>1. IsFiniteSet(ChildrenOf(s.T, n))
  <2>. DEFINE S == {u \in To(s.T, n) : u[2] = "parent"}
              first == [t \in S |-> t[1]]
  <2>1. IsFiniteSet(S)
    BY FS_Subset DEF To
  <2>2. ChildrenOf(s.T, n) = {first[t] : t \in S}
    BY DEF ChildrenOf
  <2>. HIDE DEF S, first
  <2>. QED  BY <2>1, <2>2, FiniteImage
<1>2. IsFiniteSet(PotentialPropertyNodesOf(s.T, n))
  BY PropertyNodesAreFinite
<1>3. IsFiniteSet({ParentOf(s.T, n)}) /\ IsFiniteSet({}) /\ IsFiniteSet({PrevSiblingOf(s.T, n), NextSiblingOf(s.T, n)})
  <2>1. {PrevSiblingOf(s.T, n), NextSiblingOf(s.T, n)} = {PrevSiblingOf(s.T, n)} \cup {NextSiblingOf(s.T, n)}
    OBVIOUS
  <2>2. IsFiniteSet({PrevSiblingOf(s.T, n)}) /\ IsFiniteSet({NextSiblingOf(s.T, n)})
    BY FS_Singleton
  <2>3. IsFiniteSet({PrevSiblingOf(s.T, n), NextSiblingOf(s.T, n)})
    BY <2>1, <2>2, FS_Union
  <2>. QED  BY <2>3, FS_EmptySet, FS_Singleton
<1>. DEFINE a == IF "parent" \in s.fp THEN {ParentOf(s.T, n)} ELSE {}
            b == IF "children" \in s.fp THEN ChildrenOf(s.T, n) ELSE {}
            c == IF "siblings" \in s.fp THEN {PrevSiblingOf(s.T, n), NextSiblingOf(s.T, n)} ELSE {}
            d == IF "properties" \in s.fp THEN PotentialPropertyNodesOf(s.T, n) ELSE {}
<1>4. IsFiniteSet(a) /\ IsFiniteSet(b) /\ IsFiniteSet(c) /\ IsFiniteSet(d)
  BY <1>1, <1>2, <1>3
<1>5. RelativesOfNode(s, n) = a \cup b \cup c \cup d
  BY DEF RelativesOfNode
<1>. HIDE DEF a, b, c, d
<1>. QED  BY <1>4, <1>5, FS_Union

-------------------------------------------------------------------------------
(* What a call of the loader leaves in order.                                    *)

LoaderFields == {"T", "O", "map", "fp", "ap", "ignoreUnknown", "toAllocate", "toInitialise",
                 "toPopulate", "outcome", "gone", "populated", "order"}

\* A client that passes the map of the objects that have URIs gets such a map.
UrisAreMapped(s) == \A o \in Living(s.O) : s.O[o].uri # Nothing => Value(s.map, s.O[o].uri) = o

\* The objects of nodes are alive, each that of one node, which is its URI where the
\* node has one.  q: the state in which the call began.
IsMapping(r, q, n) ==
    /\ n # Nothing /\ Value(r.map, n) \in Living(r.O)
    /\ IsUri(n) => r.O[Value(r.map, n)].uri = n
    /\ Value(q.map, n) # Null \/ n \in Typed(q.T)
IsLoaderCall(r, q) ==
    /\ DOMAIN r = LoaderFields /\ r.T = q.T /\ IsFiniteSet(q.T) /\ Nothing \notin Typed(q.T)
    /\ IsGrove(r.O)
    /\ \A n : Value(r.map, n) # Null => IsMapping(r, q, n)
    /\ \A n, m : Value(r.map, n) # Null /\ Value(r.map, m) = Value(r.map, n) => m = n
    /\ \A n \in r.toAllocate : n \in Typed(q.T) /\ Value(r.map, n) = Null
    /\ r.toInitialise \subseteq Typed(q.T) /\ r.toPopulate \subseteq Typed(q.T)
    /\ \A o \in Living(q.O) \ r.gone : o \in Living(r.O) /\ r.O[o].uri = q.O[o].uri
    /\ \A o \in Living(r.O) : r.O[o].uri \in {Nothing} \cup Typed(q.T) \cup {q.O[p].uri : p \in Object}
    /\ UrisAreMapped(q) => UrisAreMapped(r)

\* In such a step, no object goes.
Allocates(r, s, q) == IsLoaderCall(r, q) /\ Living(s.O) \subseteq Living(r.O)

LEMMA AllocatesOn ==
  ASSUME NEW q, NEW s, NEW r, Allocates(r, s, q), NEW x, Allocates(x, r, q)
  PROVE  Allocates(x, s, q)
BY DEF Allocates

LEMMA AllocatesNothing ==
  ASSUME NEW q, NEW s, IsLoaderCall(s, q)
  PROVE  Allocates(s, s, q)
BY DEF Allocates

\* What an object x has once its node n is initialised: the literals that the store
\* has, and what is to be had for a property that it lacks.
ValuesAt(T, n, p) == {t[3] : t \in Match(T, n, p)}
HasLiterals(T, x, n, ap) ==
    /\ ValuesAt(T, n, "lit") # {} => x.lit = First(ValuesAt(T, n, "lit"))[2]
    /\ ap = "ResetAbsentProperties" =>
        /\ ValuesAt(T, n, "lit") = {} => x.lit = DefaultLit
        /\ ValuesAt(T, n, "ref") = {} => x.ref = Null
        /\ ValuesAt(T, n, "list") = {} => x.list = <<>>
IsInitialised(s, n) == Value(s.map, n) # Null /\ HasLiterals(s.T, s.O[Value(s.map, n)], n, s.ap)

\* Each node to populate has an object or is to get one, and so with its literals:
\* what keeps a node from being forgotten between one stage and the next.
Ready(s) ==
    \A n \in s.toPopulate : /\ n \in s.toAllocate \/ Value(s.map, n) # Null
                            /\ n \in s.toInitialise \/ IsInitialised(s, n)
AllAreKnown(T) == \A n \in Typed(T) : IsKnown(T, n)
Advances(r, s) ==
    /\ r.T = s.T /\ r.ap = s.ap /\ r.toPopulate = s.toPopulate
    /\ r.toAllocate \subseteq s.toAllocate
    /\ Going(r) => Going(s)
    /\ AllAreKnown(s.T) => /\ r.outcome = "throws" => s.outcome = "throws"
                           /\ Going(r) /\ Ready(s) => Ready(r)
Moves(r, s, q) == Allocates(r, s, q) /\ Advances(r, s)

LEMMA MovesOn ==
  ASSUME NEW q, NEW s, NEW r, Moves(r, s, q), NEW x, Moves(x, r, q)
  PROVE  Moves(x, s, q)
<1>1. Allocates(x, s, q)
  BY AllocatesOn DEF Moves
<1>2. Advances(x, s)
  BY DEF Moves, Advances
<1>. QED  BY <1>1, <1>2 DEF Moves

LEMMA MovesNothing ==
  ASSUME NEW q, NEW s, IsLoaderCall(s, q)
  PROVE  Moves(s, s, q)
BY AllocatesNothing DEF Moves, Advances

LEMMA ReadyNode ==
  ASSUME NEW s, Ready(s), NEW n \in s.toPopulate
  PROVE  /\ n \in s.toAllocate \/ Value(s.map, n) # Null
         /\ n \in s.toInitialise \/ IsInitialised(s, n)
BY DEF Ready

LEMMA StaysInitialised ==
  ASSUME NEW s, NEW n, IsInitialised(s, n), NEW r, r.T = s.T, r.ap = s.ap,
         Value(r.map, n) = Value(s.map, n),
         LET o == Value(s.map, n)
         IN  r.O[o].lit = s.O[o].lit /\ r.O[o].ref = s.O[o].ref /\ r.O[o].list = s.O[o].list
  PROVE  IsInitialised(r, n)
BY DEF IsInitialised, HasLiterals

\* A step that changes neither objects nor map.
LEMMA SameCall ==
  ASSUME NEW q, NEW s, IsLoaderCall(s, q), NEW r, DOMAIN r = LoaderFields,
         r.T = s.T, r.O = s.O, r.map = s.map, r.gone = s.gone,
         \A n \in r.toAllocate : n \in s.toAllocate \/ (n \in Typed(q.T) /\ Value(s.map, n) = Null),
         r.toInitialise \subseteq s.toInitialise \cup Typed(q.T),
         r.toPopulate \subseteq s.toPopulate \cup Typed(q.T)
  PROVE  Allocates(r, s, q)
<1>1. \A n : Value(r.map, n) # Null => IsMapping(r, q, n)
  BY DEF IsLoaderCall, IsMapping
<1>2. \A n \in r.toAllocate : n \in Typed(q.T) /\ Value(r.map, n) = Null
  BY DEF IsLoaderCall
<1>3. UrisAreMapped(q) => UrisAreMapped(r)
  BY DEF IsLoaderCall, UrisAreMapped
<1>. QED  BY <1>1, <1>2, <1>3 DEF IsLoaderCall, Allocates

\* A step that changes values of objects.
LEMMA SameObjects ==
  ASSUME NEW q, NEW s, IsLoaderCall(s, q), NEW P, IsGrove(P), SameLives(s.O, P)
  PROVE  Allocates([s EXCEPT !.O = P], s, q) /\ [s EXCEPT !.O = P].O = P
<1>. DEFINE r == [s EXCEPT !.O = P]
<1>1. /\ DOMAIN r = LoaderFields /\ r.T = s.T /\ r.O = P /\ r.map = s.map /\ r.gone = s.gone
      /\ r.toAllocate = s.toAllocate /\ r.toInitialise = s.toInitialise /\ r.toPopulate = s.toPopulate
  BY DEF IsLoaderCall, LoaderFields
<1>. HIDE DEF r
<1>2. Living(P) = Living(s.O) /\ \A o \in Living(s.O) : P[o].uri = s.O[o].uri
  BY DEF SameLives, Living
<1>3. \A n : Value(r.map, n) # Null => IsMapping(r, q, n)
  BY <1>1, <1>2 DEF IsLoaderCall, IsMapping
<1>4. UrisAreMapped(q) => UrisAreMapped(r)
  BY <1>1, <1>2 DEF IsLoaderCall, UrisAreMapped
<1>5. /\ \A o \in Living(q.O) \ r.gone : o \in Living(r.O) /\ r.O[o].uri = q.O[o].uri
      /\ \A o \in Living(r.O) : r.O[o].uri \in {Nothing} \cup Typed(q.T) \cup {q.O[p].uri : p \in Object}
  BY <1>1, <1>2 DEF IsLoaderCall
<1>. QED  BY <1>1, <1>2, <1>3, <1>4, <1>5 DEF IsLoaderCall, Allocates, r

LEMMA Halts ==
  ASSUME NEW q, NEW s, IsLoaderCall(s, q), NEW end
  PROVE  Allocates([s EXCEPT !.outcome = end], s, q)
<1>. DEFINE r == [s EXCEPT !.outcome = end]
<1>1. /\ DOMAIN r = LoaderFields /\ r.T = s.T /\ r.O = s.O /\ r.map = s.map /\ r.gone = s.gone
      /\ r.toAllocate = s.toAllocate /\ r.toInitialise = s.toInitialise /\ r.toPopulate = s.toPopulate
  BY DEF IsLoaderCall, LoaderFields
<1>. HIDE DEF r
<1>. QED  BY <1>1, SameCall DEF r

LEMMA StopsMoving ==
  ASSUME NEW q, NEW s, IsLoaderCall(s, q),
         NEW end, end \in {"hangs", "full"} \/ (end = "throws" /\ ~AllAreKnown(s.T))
  PROVE  Moves([s EXCEPT !.outcome = end], s, q) /\ ~Going([s EXCEPT !.outcome = end])
<1>. DEFINE r == [s EXCEPT !.outcome = end]
<1>1. /\ r.T = s.T /\ r.ap = s.ap /\ r.toPopulate = s.toPopulate /\ r.toAllocate = s.toAllocate
      /\ r.outcome = end
  BY DEF IsLoaderCall, LoaderFields
<1>2. Allocates(r, s, q)
  BY Halts
<1>. HIDE DEF r
<1>3. ~Going(r) /\ Advances(r, s)
  BY <1>1 DEF Advances, Going
<1>. QED  BY <1>2, <1>3 DEF Moves, r

LEMMA InitialisesLess ==
  ASSUME NEW q, NEW s, IsLoaderCall(s, q), NEW S, S \subseteq s.toInitialise \/ S \subseteq s.toPopulate
  PROVE  /\ Allocates([s EXCEPT !.toInitialise = S], s, q)
         /\ Allocates([s EXCEPT !.toPopulate = S], s, q)
<1>. DEFINE a == [s EXCEPT !.toInitialise = S]
            b == [s EXCEPT !.toPopulate = S]
<1>1. \A r \in {a, b} :
        /\ DOMAIN r = LoaderFields /\ r.T = s.T /\ r.O = s.O /\ r.map = s.map /\ r.gone = s.gone
        /\ r.toAllocate = s.toAllocate
        /\ r.toInitialise \in {s.toInitialise, S} /\ r.toPopulate \in {s.toPopulate, S}
  BY DEF IsLoaderCall, LoaderFields
<1>2. \A r \in {a, b} : Allocates(r, s, q)
  <2>. TAKE r \in {a, b}
  <2>1. S \subseteq Typed(q.T)
    BY DEF IsLoaderCall
  <2>. HIDE DEF a, b
  <2>2. /\ DOMAIN r = LoaderFields /\ r.T = s.T /\ r.O = s.O /\ r.map = s.map /\ r.gone = s.gone
        /\ r.toAllocate = s.toAllocate
        /\ r.toInitialise \in {s.toInitialise, S} /\ r.toPopulate \in {s.toPopulate, S}
    BY <1>1
  <2>. QED  BY <2>1, <2>2, SameCall
<1>. QED  BY <1>2

LEMMA ReversedElements ==
  ASSUME NEW s, IsSequence(s)
  PROVE  ToSet(s) \subseteq ToSet(Reverse(s))
<1>. SUFFICES ASSUME NEW i \in DOMAIN s PROVE s[i] \in ToSet(Reverse(s))
  BY DEF ToSet
<1>1. Len(s) \in Nat /\ i \in 1..Len(s)
  BY SequenceDomain
<1>2. /\ DOMAIN Reverse(s) = 1..Len(s) /\ Len(s) - i + 1 \in 1..Len(s)
      /\ Reverse(s)[Len(s) - i + 1] = s[Len(s) - (Len(s) - i + 1) + 1]
      /\ Len(s) - (Len(s) - i + 1) + 1 = i
  BY <1>1 DEF Reverse
<1>. QED  BY <1>2 DEF ToSet

\* Nodes that a type was found for.
LEMMA TypedNodes ==
  ASSUME NEW T, NEW n, NodeHasType(T, n) \/ IsKnown(T, n)
  PROVE  n \in Typed(T)
<1>1. ~IsUri(Nothing) /\ Nothing # KnownType
  BY DEF IsUri, Nothing, KnownType
<1>2. Match(T, n, "type") # {}
  BY <1>1 DEF NodeHasType, IsKnown, ObjectOf
<1>. QED  BY <1>2 DEF Match, Typed

LEMMA TypedAreFinite ==
  ASSUME NEW T, IsFiniteSet(T), NEW S \in SUBSET Typed(T)
  PROVE  IsFiniteSet(S)
<1>1. Typed(T) \subseteq NodesOf(T)
  BY DEF Typed, NodesOf
<1>. QED  BY <1>1, NodesAreFinite, FS_Subset

-------------------------------------------------------------------------------
(* Allocation.                                                                   *)

LEMMA AllocateSingleUnderMoves ==
  ASSUME NEW q, NEW s, IsLoaderCall(s, q), NEW n, NEW parent \in Living(s.O) \cup {Null}
  PROVE  LET r == AllocateSingleUnder(s, n, parent)
         IN  Moves(r, s, q) /\ (Going(r) => n \notin r.toAllocate)
<1>. DEFINE r == AllocateSingleUnder(s, n, parent)
<1>1. CASE ~Going(s) \/ n \notin s.toAllocate
  <2>1. r = s
    BY <1>1 DEF AllocateSingleUnder
  <2>. QED  BY <1>1, <2>1, MovesNothing
<1>2. CASE Going(s) /\ n \in s.toAllocate /\ (~IsKnown(s.T, n) \/ Living(s.O) = Object)
  <2>1. \/ r = [s EXCEPT !.outcome = "throws"] /\ ~IsKnown(s.T, n)
        \/ r = [s EXCEPT !.outcome = "full"]
    BY <1>2 DEF AllocateSingleUnder, NoRoom, Throw
  <2>2. ~IsKnown(s.T, n) => ~AllAreKnown(s.T)
    BY <1>2 DEF IsLoaderCall, AllAreKnown
  <2>. HIDE DEF r
  <2>. QED  BY <2>1, <2>2, StopsMoving DEF r
<1>3. CASE Going(s) /\ n \in s.toAllocate /\ IsKnown(s.T, n) /\ Living(s.O) # Object
  <2>. DEFINE o == Unused(s.O)
              u == IF IsUri(n) THEN n ELSE Nothing
              P == SetParent([s.O EXCEPT ![o] = New(u)], o, parent)
              f == [m \in DOMAIN s.map \cup {n} |-> IF m = n THEN o ELSE s.map[m]]
  <2>1. n \in Typed(q.T) /\ n # Nothing /\ Value(s.map, n) = Null
    BY <1>3 DEF IsLoaderCall
  <2>2. o \in Object \ Living(s.O) /\ o # Null
    <3>1. \E x \in Object : x \notin Living(s.O)
      BY <1>3 DEF Living
    <3>. QED  BY <3>1 DEF Unused, Object, Null
  <2>3. r = [[[s EXCEPT !.O = P] EXCEPT !.map = f] EXCEPT !.toAllocate = s.toAllocate \ {n}]
    <3>1. DOMAIN s = LoaderFields
      BY DEF IsLoaderCall
    <3>2. AllocateObject(s, n, parent) = [s EXCEPT !.O = P]
      BY DEF AllocateObject
    <3>. HIDE DEF P, o
    <3>3. Insert([s EXCEPT !.O = P], n, o) = [[s EXCEPT !.O = P] EXCEPT !.map = f]
      BY <3>1 DEF Insert, LoaderFields
    <3>4. r = [Insert(AllocateObject(s, n, parent), n, o) EXCEPT !.toAllocate = @ \ {n}]
      BY <1>3 DEF AllocateSingleUnder, o
    <3>. HIDE DEF f, r
    <3>5. [[s EXCEPT !.O = P] EXCEPT !.map = f].toAllocate = s.toAllocate
      BY <3>1 DEF LoaderFields
    <3>. QED  BY <3>2, <3>3, <3>4, <3>5
  <2>4. /\ IsGrove(P) /\ Living(P) = Living(s.O) \cup {o} /\ P[o].uri = u
        /\ \A x \in Living(s.O) :
              /\ P[x].uri = s.O[x].uri
              /\ P[x].lit = s.O[x].lit /\ P[x].ref = s.O[x].ref /\ P[x].list = s.O[x].list
    <3>1. IsGrove(s.O) /\ (u # Nothing => IsUri(u))
      BY DEF IsLoaderCall
    <3>. HIDE DEF o, u
    <3>. QED  BY <2>2, <3>1, NewInGrove
  <2>. HIDE DEF o, P, r
  <2>5. /\ DOMAIN r = LoaderFields /\ r.O = P /\ r.map = f /\ r.T = s.T
        /\ r.toAllocate = s.toAllocate \ {n} /\ r.gone = s.gone
        /\ r.toInitialise = s.toInitialise /\ r.toPopulate = s.toPopulate
        /\ r.ap = s.ap /\ r.outcome = s.outcome
    <3>. HIDE DEF f
    <3>. QED  BY <2>3 DEF IsLoaderCall, LoaderFields
  <2>6. \A m : Value(r.map, m) = IF m = n THEN o ELSE Value(s.map, m)
    BY <2>5 DEF Value
  <2>. HIDE DEF f
  <2>7. ASSUME NEW m, Value(r.map, m) # Null PROVE IsMapping(r, q, m)
    <3>1. CASE m = n
      BY <2>1, <2>4, <2>5, <2>6, <3>1 DEF IsMapping
    <3>2. CASE m # n
      <4>1. IsMapping(s, q, m) /\ Value(r.map, m) = Value(s.map, m)
        BY <2>6, <2>7, <3>2 DEF IsLoaderCall
      <4>. QED  BY <2>4, <2>5, <4>1 DEF IsMapping
    <3>. QED  BY <3>1, <3>2
  <2>8. ASSUME NEW m, NEW k, Value(r.map, m) # Null, Value(r.map, k) = Value(r.map, m) PROVE k = m
    <3>1. \A j : Value(s.map, j) # Null => Value(s.map, j) # o
      BY <2>2 DEF IsLoaderCall, IsMapping
    <3>2. CASE m = n \/ k = n
      BY <2>2, <2>6, <2>8, <3>1, <3>2
    <3>3. CASE m # n /\ k # n
      <4>1. Value(s.map, m) # Null /\ Value(s.map, k) = Value(s.map, m)
        BY <2>6, <2>8, <3>3
      <4>. QED  BY <4>1 DEF IsLoaderCall
    <3>. QED  BY <3>2, <3>3
  <2>9. \A m \in r.toAllocate : m \in Typed(q.T) /\ Value(r.map, m) = Null
    BY <2>5, <2>6 DEF IsLoaderCall
  <2>10. \A x \in Living(q.O) \ r.gone : x \in Living(r.O) /\ r.O[x].uri = q.O[x].uri
    BY <2>4, <2>5 DEF IsLoaderCall
  <2>11. \A x \in Living(r.O) : r.O[x].uri \in {Nothing} \cup Typed(q.T) \cup {q.O[p].uri : p \in Object}
    <3>. DEFINE U == {q.O[p].uri : p \in Object}
    <3>1. \A x \in Living(s.O) : s.O[x].uri \in {Nothing} \cup Typed(q.T) \cup U
      BY DEF IsLoaderCall
    <3>. HIDE DEF U
    <3>. QED  BY <2>1, <2>4, <2>5, <3>1 DEF U
  <2>12. ASSUME UrisAreMapped(q) PROVE UrisAreMapped(r)
    <3>. SUFFICES ASSUME NEW x \in Living(r.O), r.O[x].uri # Nothing PROVE Value(r.map, r.O[x].uri) = x
      BY DEF UrisAreMapped
    <3>1. CASE x = o
      BY <2>4, <2>5, <2>6, <3>1
    <3>2. CASE x # o
      <4>1. x \in Living(s.O) /\ r.O[x].uri = s.O[x].uri
        BY <2>4, <2>5, <3>2
      <4>2. Value(s.map, s.O[x].uri) = x
        BY <2>12, <4>1 DEF IsLoaderCall, UrisAreMapped
      <4>3. x # Null
        BY <4>1 DEF Living, Object, Null
      <4>. QED  BY <2>1, <2>6, <4>1, <4>2, <4>3
    <3>. QED  BY <3>1, <3>2
  <2>13. IsLoaderCall(r, q)
    <3>1. /\ r.T = q.T /\ IsFiniteSet(q.T) /\ Nothing \notin Typed(q.T)
          /\ r.toInitialise \subseteq Typed(q.T) /\ r.toPopulate \subseteq Typed(q.T)
      BY <2>5 DEF IsLoaderCall
    <3>. QED  BY <2>4, <2>5, <2>7, <2>8, <2>9, <2>10, <2>11, <2>12, <3>1 DEF IsLoaderCall
  <2>14. ASSUME Ready(s) PROVE Ready(r)
    <3>. SUFFICES ASSUME NEW m \in s.toPopulate
                  PROVE  /\ m \in r.toAllocate \/ Value(r.map, m) # Null
                         /\ m \in r.toInitialise \/ IsInitialised(r, m)
      BY <2>5 DEF Ready
    <3>1. m \in s.toAllocate \/ Value(s.map, m) # Null
      BY <2>14, ReadyNode
    <3>2. m \in s.toInitialise \/ IsInitialised(s, m)
      BY <2>14, ReadyNode
    <3>3. ASSUME IsInitialised(s, m) PROVE IsInitialised(r, m)
      <4>1. Value(s.map, m) # Null
        BY <3>3 DEF IsInitialised
      <4>2. Value(r.map, m) = Value(s.map, m) /\ Value(s.map, m) \in Living(s.O)
        BY <2>1, <2>6, <4>1 DEF IsLoaderCall, IsMapping
      <4>. QED  BY <2>4, <2>5, <3>3, <4>2, StaysInitialised
    <3>. QED  BY <2>2, <2>5, <2>6, <3>1, <3>2, <3>3
  <2>15. Advances(r, s) /\ n \notin r.toAllocate
    BY <2>5, <2>14 DEF Advances, Going
  <2>. QED  BY <2>4, <2>5, <2>13, <2>15 DEF Allocates, Moves, r
<1>. QED  BY <1>1, <1>2, <1>3

LEMMA MappedLive ==
  ASSUME NEW q, NEW s, IsLoaderCall(s, q), NEW n
  PROVE  Value(s.map, n) \in Living(s.O) \cup {Null}
BY DEF IsLoaderCall, IsMapping

LEMMA SetsLit ==
  ASSUME NEW q, NEW s, IsLoaderCall(s, q), NEW o \in Living(s.O), NEW lit
  PROVE  LET r == [s EXCEPT !.O[o].lit = lit]
         IN  Allocates(r, s, q) /\ r.O[o].ref = s.O[o].ref /\ r.O[o].list = s.O[o].list
<1>. DEFINE P == [s.O EXCEPT ![o].lit = lit]
<1>1. /\ IsGrove(P) /\ SameLives(s.O, P)
      /\ P[o].ref = s.O[o].ref /\ P[o].list = s.O[o].list
  <2>1. IsGrove(s.O) /\ o \in Object
    BY DEF IsLoaderCall, Living
  <2>2. \A x \in Object : P[x].ref = s.O[x].ref /\ P[x].list = s.O[x].list
    BY <2>1, LitInGrove
  <2>. QED  BY <2>1, <2>2, LitInGrove
<1>2. [s EXCEPT !.O[o].lit = lit] = [s EXCEPT !.O = P]
  OBVIOUS
<1>. HIDE DEF P
<1>3. Allocates([s EXCEPT !.O = P], s, q) /\ [s EXCEPT !.O = P].O = P
  BY <1>1, SameObjects
<1>. QED  BY <1>1, <1>2, <1>3

LEMMA SetsRef ==
  ASSUME NEW q, NEW s, IsLoaderCall(s, q), NEW o \in Living(s.O), NEW ref, ref # Null => ref \in Living(s.O)
  PROVE  LET r == [s EXCEPT !.O[o].ref = ref]
         IN  Allocates(r, s, q) /\ r.O[o].list = s.O[o].list
<1>. DEFINE P == [s.O EXCEPT ![o].ref = ref]
<1>1. IsGrove(P) /\ SameLives(s.O, P) /\ P[o].list = s.O[o].list
  <2>1. IsGrove(s.O) /\ o \in Object
    BY DEF IsLoaderCall, Living
  <2>2. \A x \in Object : P[x].list = s.O[x].list
    BY <2>1, RefInGrove
  <2>. QED  BY <2>1, <2>2, RefInGrove
<1>2. [s EXCEPT !.O[o].ref = ref] = [s EXCEPT !.O = P]
  OBVIOUS
<1>. HIDE DEF P
<1>3. Allocates([s EXCEPT !.O = P], s, q) /\ [s EXCEPT !.O = P].O = P
  BY <1>1, SameObjects
<1>. QED  BY <1>1, <1>2, <1>3

LEMMA SetsList ==
  ASSUME NEW q, NEW s, IsLoaderCall(s, q), NEW o \in Living(s.O), NEW list, IsList(list),
         \A x \in Object : ToObject(x) \in ToSet(list) => x \in Living(s.O)
  PROVE  Allocates([s EXCEPT !.O[o].list = list], s, q)
<1>. DEFINE P == [s.O EXCEPT ![o].list = list]
<1>1. IsGrove(P) /\ SameLives(s.O, P)
  <2>1. IsGrove(s.O)
    BY DEF IsLoaderCall
  <2>. QED  BY <2>1, ListInGrove
<1>2. [s EXCEPT !.O[o].list = list] = [s EXCEPT !.O = P]
  OBVIOUS
<1>. HIDE DEF P
<1>. QED  BY <1>1, <1>2, SameObjects

LEMMA InitialiseAllocates ==
  ASSUME NEW q, NEW s, IsLoaderCall(s, q), NEW n
  PROVE  Allocates(Initialise(s, n), s, q)
<1>. DEFINE o == Value(s.map, n)
            r == LoadLiteralProperties(s, n)
<1>1. Allocates(r, s, q)
  <2>1. CASE ~Going(s) \/ o = Null
    <3>1. r = s
      BY <2>1 DEF LoadLiteralProperties
    <3>. QED  BY <3>1, AllocatesNothing
  <2>2. CASE Going(s) /\ o # Null
    <3>. DEFINE lits == ValuesOf(s, n, "lit")
                absent == s.ap = "ResetAbsentProperties"
                lit == IF lits # {} THEN First(lits)[2] ELSE IF absent THEN DefaultLit ELSE s.O[o].lit
                ref == IF absent /\ ValuesOf(s, n, "ref") = {} THEN Null ELSE s.O[o].ref
                list == IF absent /\ ValuesOf(s, n, "list") = {} THEN <<>> ELSE s.O[o].list
                x == [s EXCEPT !.O[o].lit = lit]
                y == [x EXCEPT !.O[o].ref = ref]
                z == [y EXCEPT !.O[o].list = list]
    <3>0. o \in Living(s.O)
      BY <2>2, MappedLive
    <3>1. /\ ref # Null => ref \in Living(s.O)
          /\ IsList(list)
          /\ \A p \in Object : ToObject(p) \in ToSet(list) => p \in Living(s.O)
      <4>1. IsGrove(s.O)
        BY DEF IsLoaderCall
      <4>2. /\ s.O[o].ref # Null => s.O[o].ref \in Living(s.O)
            /\ IsList(s.O[o].list)
            /\ \A p \in Object : ToObject(p) \in ToSet(s.O[o].list) => p \in Living(s.O)
        <5>. HIDE DEF o
        <5>. QED  BY <3>0, <4>1, ValuesInGrove
      <4>. QED  BY <4>2, EmptySequence
    <3>2. Allocates(x, s, q) /\ x.O[o].ref = s.O[o].ref /\ x.O[o].list = s.O[o].list
      <4>. HIDE DEF o, lit
      <4>. QED  BY <3>0, SetsLit
    <3>3. Allocates(y, x, q) /\ y.O[o].list = x.O[o].list
      <4>1. o \in Living(x.O) /\ IsLoaderCall(x, q) /\ (ref # Null => ref \in Living(x.O))
        BY <3>0, <3>1, <3>2 DEF Allocates
      <4>. HIDE DEF o, x, ref
      <4>. QED  BY <4>1, SetsRef
    <3>4. r = z
      <4>1. r = [s EXCEPT
                  !.O[o].lit = IF lits # {} THEN First(lits)[2] ELSE IF absent THEN DefaultLit ELSE @,
                  !.O[o].ref = IF absent /\ ValuesOf(s, n, "ref") = {} THEN Null ELSE @,
                  !.O[o].list = IF absent /\ ValuesOf(s, n, "list") = {} THEN <<>> ELSE @]
        BY <2>2 DEF LoadLiteralProperties
      <4>2. x = [s EXCEPT !.O[o].lit = IF lits # {} THEN First(lits)[2]
                                       ELSE IF absent THEN DefaultLit ELSE @]
        OBVIOUS
      <4>3. y = [x EXCEPT !.O[o].ref = IF absent /\ ValuesOf(s, n, "ref") = {} THEN Null ELSE @]
        <5>. HIDE DEF x
        <5>. QED  BY <3>2
      <4>4. z = [y EXCEPT !.O[o].list = IF absent /\ ValuesOf(s, n, "list") = {} THEN <<>> ELSE @]
        <5>. HIDE DEF y
        <5>1. y.O[o].list = s.O[o].list
          BY <3>2, <3>3 DEF y
        <5>. QED  BY <5>1
      <4>. QED  BY <4>1, <4>2, <4>3, <4>4
    <3>. HIDE DEF lit, ref, list, r, o
    <3>5. Allocates(z, y, q)
      <4>1. Living(s.O) \subseteq Living(y.O) /\ IsLoaderCall(y, q)
        BY <3>2, <3>3 DEF Allocates
      <4>. HIDE DEF y
      <4>. QED  BY <3>0, <3>1, <4>1, SetsList
    <3>6. Allocates(z, s, q)
      <4>. HIDE DEF x, y, z
      <4>. QED  BY <3>2, <3>3, <3>5, AllocatesOn
    <3>. QED  BY <3>4, <3>6 DEF r
  <2>. QED  BY <2>1, <2>2
<1>. HIDE DEF r
<1>2. Allocates([r EXCEPT !.toInitialise = r.toInitialise \ {n}], r, q)
  BY <1>1, InitialisesLess DEF Allocates
<1>3. Initialise(s, n) = [r EXCEPT !.toInitialise = r.toInitialise \ {n}]
  BY DEF Initialise, r
<1>. QED  BY <1>1, <1>2, <1>3, AllocatesOn

\* What it sets: nothing but the values of the node's object.
LEMMA InitialiseSets ==
  ASSUME NEW q, NEW s, IsLoaderCall(s, q), NEW n
  PROVE  LET r == Initialise(s, n)
             o == Value(s.map, n)
         IN  /\ r.T = s.T /\ r.map = s.map /\ r.ap = s.ap /\ r.outcome = s.outcome
             /\ r.toAllocate = s.toAllocate /\ r.toPopulate = s.toPopulate
             /\ r.toInitialise = s.toInitialise \ {n}
             /\ \A x \in Living(s.O) \ {o} :
                  r.O[x].lit = s.O[x].lit /\ r.O[x].ref = s.O[x].ref /\ r.O[x].list = s.O[x].list
             /\ Going(s) /\ o # Null => HasLiterals(s.T, r.O[o], n, s.ap)
<1>. DEFINE r == Initialise(s, n)
            o == Value(s.map, n)
            a == LoadLiteralProperties(s, n)
<1>1. r = [a EXCEPT !.toInitialise = a.toInitialise \ {n}]
  BY DEF Initialise
<1>. HIDE DEF r
<1>2. CASE ~Going(s) \/ o = Null
  <2>1. a = s
    BY <1>2 DEF LoadLiteralProperties
  <2>2. /\ r.T = s.T /\ r.O = s.O /\ r.map = s.map /\ r.ap = s.ap /\ r.outcome = s.outcome
        /\ r.toAllocate = s.toAllocate /\ r.toPopulate = s.toPopulate
        /\ r.toInitialise = s.toInitialise \ {n}
    <3>. HIDE DEF a
    <3>. QED  BY <1>1, <2>1 DEF IsLoaderCall, LoaderFields
  <2>. QED  BY <1>2, <2>2 DEF r
<1>3. CASE Going(s) /\ o # Null
  <2>. DEFINE lits == ValuesAt(s.T, n, "lit")
              absent == s.ap = "ResetAbsentProperties"
              lit == IF lits # {} THEN First(lits)[2] ELSE IF absent THEN DefaultLit ELSE s.O[o].lit
              ref == IF absent /\ ValuesAt(s.T, n, "ref") = {} THEN Null ELSE s.O[o].ref
              list == IF absent /\ ValuesAt(s.T, n, "list") = {} THEN <<>> ELSE s.O[o].list
              P == [s.O EXCEPT ![o].lit = lit]
              Q == [P EXCEPT ![o].ref = ref]
              R == [Q EXCEPT ![o].list = list]
  <2>1. o \in Living(s.O) /\ o \in Object /\ IsGrove(s.O)
    BY <1>3, MappedLive DEF Living, IsLoaderCall
  <2>. HIDE DEF o
  <2>2. /\ \A x \in Object : /\ P[x].lit = IF x = o THEN lit ELSE s.O[x].lit
                             /\ P[x].ref = s.O[x].ref /\ P[x].list = s.O[x].list
        /\ IsGrove(P) /\ Living(P) = Living(s.O)
    <3>. HIDE DEF lit
    <3>. QED  BY <2>1, LitInGrove
  <2>3. /\ ref # Null => ref \in Living(s.O)
        /\ IsList(list)
        /\ \A p \in Object : ToObject(p) \in ToSet(list) => p \in Living(s.O)
    BY <2>1, ValuesInGrove, EmptySequence
  <2>4. /\ \A x \in Object : /\ Q[x].ref = IF x = o THEN ref ELSE P[x].ref
                             /\ Q[x].lit = P[x].lit /\ Q[x].list = P[x].list
        /\ IsGrove(Q) /\ Living(Q) = Living(P)
    <3>. HIDE DEF P, ref
    <3>. QED  BY <2>1, <2>2, <2>3, RefInGrove
  <2>5. /\ \A x \in Object : /\ R[x].list = IF x = o THEN list ELSE Q[x].list
                             /\ R[x].lit = Q[x].lit /\ R[x].ref = Q[x].ref
        /\ IsGrove(R) /\ Living(R) = Living(Q)
    <3>1. o \in Living(Q) /\ \A p \in Object : ToObject(p) \in ToSet(list) => p \in Living(Q)
      BY <2>1, <2>2, <2>3, <2>4
    <3>2. IsGrove(Q) /\ IsList(list)
      BY <2>3, <2>4
    <3>. HIDE DEF P, Q, list
    <3>. QED  BY <3>1, <3>2, ListInGrove
  <2>6. a = [s EXCEPT !.O = R]
    <3>1. a = [s EXCEPT
                !.O[o].lit = IF lits # {} THEN First(lits)[2] ELSE IF absent THEN DefaultLit ELSE @,
                !.O[o].ref = IF absent /\ ValuesAt(s.T, n, "ref") = {} THEN Null ELSE @,
                !.O[o].list = IF absent /\ ValuesAt(s.T, n, "list") = {} THEN <<>> ELSE @]
      BY <1>3 DEF LoadLiteralProperties, o, ValuesOf, ValuesAt
    <3>. DEFINE x == [s EXCEPT !.O[o].lit = lit]
                y == [x EXCEPT !.O[o].ref = ref]
                z == [y EXCEPT !.O[o].list = list]
    <3>2. x = [s EXCEPT !.O = P]
      OBVIOUS
    <3>. HIDE DEF P, Q, R
    <3>3. x.O = P /\ DOMAIN x = DOMAIN s /\ "O" \in DOMAIN s
      <4>. HIDE DEF x
      <4>. QED  BY <3>2 DEF IsLoaderCall, LoaderFields
    <3>4. y = [x EXCEPT !.O = Q]
      <4>. HIDE DEF x, ref
      <4>. QED  BY <3>3 DEF Q
    <3>5. y.O = Q /\ DOMAIN y = DOMAIN s
      <4>. HIDE DEF x, y
      <4>. QED  BY <3>3, <3>4
    <3>6. z = [y EXCEPT !.O = R]
      <4>. HIDE DEF y, list
      <4>. QED  BY <3>5 DEF R
    <3>7. z = [s EXCEPT !.O = R]
      <4>. HIDE DEF x, y, z
      <4>. QED  BY <3>2, <3>3, <3>4, <3>5, <3>6
    <3>8. x.O[o].ref = s.O[o].ref /\ y.O[o].list = s.O[o].list
      <4>. HIDE DEF x, y, lit, ref
      <4>. QED  BY <2>1, <2>2, <2>4, <3>3, <3>5
    <3>9. a = z
      <4>1. x = [s EXCEPT !.O[o].lit = IF lits # {} THEN First(lits)[2]
                                       ELSE IF absent THEN DefaultLit ELSE @]
        OBVIOUS
      <4>2. y = [x EXCEPT !.O[o].ref = IF absent /\ ValuesAt(s.T, n, "ref") = {} THEN Null ELSE @]
        <5>. HIDE DEF x
        <5>. QED  BY <3>8
      <4>3. z = [y EXCEPT !.O[o].list = IF absent /\ ValuesAt(s.T, n, "list") = {} THEN <<>> ELSE @]
        <5>. HIDE DEF y
        <5>. QED  BY <3>8
      <4>. QED  BY <3>1, <4>1, <4>2, <4>3
    <3>. HIDE DEF x, y, z
    <3>. QED  BY <3>7, <3>9
  <2>. HIDE DEF a, R, Q, P
  <2>7. /\ r.T = s.T /\ r.O = R /\ r.map = s.map /\ r.ap = s.ap /\ r.outcome = s.outcome
        /\ r.toAllocate = s.toAllocate /\ r.toPopulate = s.toPopulate
        /\ r.toInitialise = s.toInitialise \ {n}
    BY <1>1, <2>6 DEF IsLoaderCall, LoaderFields
  <2>8. R[o].lit = lit /\ R[o].ref = ref /\ R[o].list = list
    <3>. HIDE DEF lit, ref, list
    <3>. QED  BY <2>1, <2>2, <2>4, <2>5
  <2>9. HasLiterals(s.T, r.O[o], n, s.ap)
    BY <2>7, <2>8 DEF HasLiterals
  <2>10. \A x \in Living(s.O) \ {o} :
           R[x].lit = s.O[x].lit /\ R[x].ref = s.O[x].ref /\ R[x].list = s.O[x].list
    <3>. HIDE DEF lit, ref, list
    <3>. QED  BY <2>2, <2>4, <2>5 DEF Living
  <2>. QED  BY <2>7, <2>9, <2>10 DEF r, o
<1>. QED  BY <1>2, <1>3

LEMMA InitialiseMoves ==
  ASSUME NEW q, NEW s, IsLoaderCall(s, q), NEW n, Going(s) => n \notin s.toAllocate
  PROVE  Moves(Initialise(s, n), s, q)
<1>. DEFINE r == Initialise(s, n)
            o == Value(s.map, n)
<1>1. /\ r.T = s.T /\ r.map = s.map /\ r.ap = s.ap /\ r.outcome = s.outcome
      /\ r.toAllocate = s.toAllocate /\ r.toPopulate = s.toPopulate
      /\ r.toInitialise = s.toInitialise \ {n}
      /\ \A x \in Living(s.O) \ {o} :
           r.O[x].lit = s.O[x].lit /\ r.O[x].ref = s.O[x].ref /\ r.O[x].list = s.O[x].list
      /\ Going(s) /\ o # Null => HasLiterals(s.T, r.O[o], n, s.ap)
  BY InitialiseSets
<1>2. Allocates(r, s, q)
  BY InitialiseAllocates
<1>. HIDE DEF r
<1>3. ASSUME Going(s), Ready(s) PROVE Ready(r)
  <2>. SUFFICES ASSUME NEW m \in s.toPopulate
                PROVE  /\ m \in s.toAllocate \/ Value(s.map, m) # Null
                       /\ m \in r.toInitialise \/ IsInitialised(r, m)
    BY <1>1 DEF Ready
  <2>1. /\ m \in s.toAllocate \/ Value(s.map, m) # Null
        /\ m \in s.toInitialise \/ IsInitialised(s, m)
    BY <1>3, ReadyNode
  <2>2. CASE m = n
    <3>1. o # Null
      BY <1>3, <2>1, <2>2
    <3>2. IsInitialised(r, m)
      BY <1>1, <1>3, <2>2, <3>1 DEF IsInitialised
    <3>. QED  BY <2>1, <3>2
  <2>3. CASE m # n
    <3>1. ASSUME IsInitialised(s, m) PROVE IsInitialised(r, m)
      <4>1. Value(s.map, m) # Null
        BY <3>1 DEF IsInitialised
      <4>2. Value(s.map, m) \in Living(s.O) \ {o}
        BY <2>3, <4>1 DEF IsLoaderCall, IsMapping
      <4>. QED  BY <1>1, <3>1, <4>2, StaysInitialised
    <3>. QED  BY <1>1, <2>1, <2>3, <3>1
  <2>. QED  BY <2>2, <2>3
<1>4. Advances(r, s)
  BY <1>1, <1>3 DEF Advances, Going
<1>. QED  BY <1>2, <1>4 DEF Moves, r

\* The nodes so far are allocated, unless the call has stopped.
SiblingsFold == INSTANCE FoldTheorems
    WITH Op <- LAMBDA r, m, p : AllocateSingleUnder(r, m, Value(r.map, p)),
         Inv <- LAMBDA r, k, x : /\ Moves(r, x.s, x.q)
                                 /\ Going(r) => \A i \in 1..k : x.seq[i] \notin r.toAllocate

LEMMA SiblingsAreFolded ==
  ASSUME NEW s, NEW seq, NEW p
  PROVE  FoldLeft(LAMBDA r, m : AllocateSingleUnder(r, m, Value(r.map, p)), s, seq)
           = SiblingsFold!Fold(s, seq, p)
BY DEF FoldLeft, MapThenFoldSet, Max, SiblingsFold!Fold, SiblingsFold!Largest

LEMMA AllocateOneMoves ==
  ASSUME NEW q, NEW s, IsLoaderCall(s, q), NEW n, NEW p
  PROVE  LET r == AllocateOne(s, n, p)
         IN  Moves(r, s, q) /\ (Going(r) => n \notin r.toAllocate)
<1>. DEFINE siblings == IF "siblings" \in s.fp THEN OrderedSiblingsOf(s.T, n) ELSE <<>>
            seq == Append(siblings, n)
            all == SiblingsFold!Fold(s, seq, p)
            x == [s |-> s, q |-> q, seq |-> seq]
<1>1. all = FoldLeft(LAMBDA r, m : AllocateSingleUnder(r, m, Value(r.map, p)), s, seq)
  <2>. HIDE DEF seq
  <2>. QED  BY SiblingsAreFolded
<1>2. \/ AllocateOne(s, n, p) = Hang(s)
      \/ AllocateOne(s, n, p) = IF Going(all) /\ n \in all.toInitialise THEN Initialise(all, n) ELSE all
  BY <1>1 DEF AllocateOne, InitialiseIfDue
<1>3. IsSequence(seq) /\ Len(seq) \in Nat \ {0} /\ seq[Len(seq)] = n
  <2>1. IsSequence(siblings)
    <3>1. IsFiniteSet(s.T)
      BY DEF IsLoaderCall
    <3>. QED  BY <3>1, SiblingsAreSequence, EmptySequence
  <2>. HIDE DEF siblings
  <2>2. siblings \in Seq(ToSet(siblings) \cup {n})
    BY <2>1, SequenceIn
  <2>3. /\ seq \in Seq(ToSet(siblings) \cup {n})
        /\ Len(seq) = Len(siblings) + 1 /\ Len(siblings) \in Nat /\ seq[Len(siblings) + 1] = n
    BY <2>2
  <2>. HIDE DEF seq
  <2>. QED  BY <2>3, SequenceOf
<1>4. x.s = s /\ x.q = q /\ x.seq = seq
  OBVIOUS
<1>. HIDE DEF seq, x
<1>5. Moves(all, s, q) /\ (Going(all) => n \notin all.toAllocate)
  <2>1. Moves(s, x.s, x.q) /\ (Going(s) => \A i \in 1..0 : x.seq[i] \notin s.toAllocate)
    BY <1>4, MovesNothing
  <2>2. Len(seq) \in Nat /\ DOMAIN seq = 1..Len(seq)
    BY <1>3, SequenceDomain
  <2>3. ASSUME NEW r, NEW k \in 1..Len(seq), Moves(r, x.s, x.q),
               Going(r) => \A i \in 1..k - 1 : x.seq[i] \notin r.toAllocate
        PROVE  LET y == AllocateSingleUnder(r, seq[k], Value(r.map, p))
               IN  Moves(y, x.s, x.q) /\ (Going(y) => \A i \in 1..k : x.seq[i] \notin y.toAllocate)
    <3>. DEFINE y == AllocateSingleUnder(r, seq[k], Value(r.map, p))
    <3>1. IsLoaderCall(r, q)
      BY <1>4, <2>3 DEF Moves, Allocates
    <3>2. Moves(y, r, q) /\ (Going(y) => seq[k] \notin y.toAllocate)
      BY <3>1, AllocateSingleUnderMoves, MappedLive
    <3>. HIDE DEF y
    <3>3. Moves(y, x.s, x.q)
      BY <1>4, <2>3, <3>2, MovesOn
    <3>4. y.toAllocate \subseteq r.toAllocate /\ (Going(y) => Going(r))
      BY <3>2 DEF Moves, Advances
    <3>5. \A i \in 1..k : i \in 1..k - 1 \/ i = k
      BY <2>2
    <3>. QED  BY <1>4, <2>3, <3>2, <3>3, <3>4, <3>5 DEF y
  <2>4. Moves(all, x.s, x.q) /\ (Going(all) => \A i \in 1..Len(seq) : x.seq[i] \notin all.toAllocate)
    BY <2>1, <2>2, <2>3, SiblingsFold!FoldInduction
  <2>5. Len(seq) \in 1..Len(seq)
    BY <1>3
  <2>. QED  BY <1>3, <1>4, <2>4, <2>5
<1>. HIDE DEF all
<1>6. Moves(Initialise(all, n), s, q) /\ (Going(Initialise(all, n)) => n \notin Initialise(all, n).toAllocate)
  <2>1. Moves(Initialise(all, n), all, q)
    BY <1>5, InitialiseMoves DEF Moves, Allocates
  <2>. QED  BY <1>5, <2>1, MovesOn DEF Moves, Advances
<1>7. Moves(Hang(s), s, q) /\ ~Going(Hang(s))
  BY StopsMoving DEF Hang
<1>. QED  BY <1>2, <1>5, <1>6, <1>7

\* The first that waits is allocated.
LEMMA AllocateNextMoves ==
  ASSUME NEW q, NEW w, IsLoaderCall(w.s, q)
  PROVE  /\ Moves(AllocateNext(w).s, w.s, q)
         /\ \A n, p : w.waiting = <<<<n, p>>>> /\ Going(AllocateNext(w).s) => n \notin AllocateNext(w).s.toAllocate
<1>. DEFINE S == {x \in ToSet(w.waiting) : x[1] \in w.s.toAllocate}
            waiting == Among(w.waiting, S)
            n == waiting[1][1]
            s == AllocateOne(w.s, n, waiting[1][2])
<1>1. AllocateNext(w)
        = IF ~Going(w.s) \/ waiting = <<>> THEN w ELSE WithChildren(s, n, Tail(waiting))
  BY DEF AllocateNext
<1>2. ASSUME NEW m, NEW p, w.waiting = <<<<m, p>>>>, m \in w.s.toAllocate
      PROVE  waiting # <<>> /\ n = m
  <2>1. IsSequence(w.waiting) /\ ToSet(w.waiting) = {<<m, p>>}
    BY <1>2, SequenceOfOne
  <2>2. ToSet(waiting) = {<<m, p>>} /\ IsSequence(waiting)
    <3>1. S = {<<m, p>>}
      BY <1>2, <2>1
    <3>. HIDE DEF S
    <3>. QED  BY <2>1, <3>1, AmongElements, AmongIsSequence
  <2>. HIDE DEF waiting
  <2>3. waiting # <<>>
    BY <2>2, EmptySequence
  <2>4. waiting[1] \in ToSet(waiting)
    <3>1. Len(waiting) \in Nat /\ Len(waiting) # 0
      BY <2>2, <2>3 DEF IsSequence
    <3>2. 1 \in 1..Len(waiting)
      BY <3>1
    <3>. QED  BY <2>2, <3>2, SequenceDomain
  <2>. QED  BY <2>2, <2>3, <2>4
<1>. HIDE DEF waiting
<1>3. Moves(s, w.s, q) /\ (Going(s) => n \notin s.toAllocate)
  BY AllocateOneMoves
<1>4. Moves(Hang(s), w.s, q) /\ ~Going(Hang(s))
  <2>1. Moves(Hang(s), s, q) /\ ~Going(Hang(s))
    BY <1>3, StopsMoving DEF Moves, Allocates, Hang
  <2>. HIDE DEF s
  <2>. QED  BY <1>3, <2>1, MovesOn
<1>. HIDE DEF n, s
<1>5. \/ AllocateNext(w).s = w.s /\ (~Going(w.s) \/ waiting = <<>>)
      \/ AllocateNext(w).s = s \/ AllocateNext(w).s = Hang(s)
  BY <1>1 DEF WithChildren
<1>6. ASSUME NEW m, NEW p, w.waiting = <<<<m, p>>>>, Going(AllocateNext(w).s)
      PROVE  m \notin AllocateNext(w).s.toAllocate
  <2>1. CASE m \in w.s.toAllocate
    BY <1>2, <1>3, <1>4, <1>5, <1>6, <2>1
  <2>2. CASE m \notin w.s.toAllocate
    BY <1>3, <1>4, <1>5, <1>6, <2>2 DEF Moves, Advances
  <2>. QED  BY <2>1, <2>2
<1>7. Moves(AllocateNext(w).s, w.s, q)
  BY <1>3, <1>4, <1>5, MovesNothing
<1>. QED  BY <1>6, <1>7

UnderFold == INSTANCE FoldTheorems
    WITH Op <- LAMBDA w, k, p : AllocateNext(w),
         Inv <- LAMBDA w, k, x : /\ Moves(w.s, x.s, x.q)
                                 /\ k = 0 => w = x.base
                                 /\ k > 0 /\ Going(w.s) => x.n \notin w.s.toAllocate

LEMMA AllocateUnderMoves ==
  ASSUME NEW q, NEW s, IsLoaderCall(s, q), NEW n, NEW p
  PROVE  LET r == AllocateUnder(s, n, p)
         IN  Moves(r, s, q) /\ (Going(r) => n \notin r.toAllocate)
<1>. DEFINE base == [s |-> s, waiting |-> <<<<n, p>>>>]
            N == Cardinality(s.toAllocate)
            w == UnderFold!Fold(base, Times(N), 0)
            x == [s |-> s, q |-> q, base |-> base, n |-> n]
<1>1. AllocateUnder(s, n, p) = w.s
  BY DEF AllocateUnder, FoldLeft, MapThenFoldSet, Max, UnderFold!Fold, UnderFold!Largest
<1>2. N \in Nat /\ (n \in s.toAllocate => N > 0)
  <2>1. IsFiniteSet(s.toAllocate)
    BY TypedAreFinite DEF IsLoaderCall
  <2>. QED  BY <2>1, FS_CardinalityType, FS_EmptySet
<1>3. Len(Times(N)) = N /\ DOMAIN Times(N) = 1..Len(Times(N))
  BY <1>2, TimesIsSequence
<1>4. x.s = s /\ x.q = q /\ x.base = base /\ x.n = n /\ base.s = s /\ base.waiting = <<<<n, p>>>>
  OBVIOUS
<1>. HIDE DEF x, base, N
<1>5. Moves(base.s, x.s, x.q)
  BY <1>4, MovesNothing
<1>6. ASSUME NEW v, NEW k \in 1..Len(Times(N)), Moves(v.s, x.s, x.q), k - 1 = 0 => v = x.base,
             k - 1 > 0 /\ Going(v.s) => x.n \notin v.s.toAllocate
      PROVE  LET y == AllocateNext(v)
             IN  /\ Moves(y.s, x.s, x.q) /\ (k = 0 => y = x.base)
                 /\ k > 0 /\ Going(y.s) => x.n \notin y.s.toAllocate
  <2>. DEFINE y == AllocateNext(v)
  <2>1. IsLoaderCall(v.s, q)
    BY <1>4, <1>6 DEF Moves, Allocates
  <2>2. Moves(y.s, v.s, q) /\ (v = base /\ Going(y.s) => n \notin y.s.toAllocate)
    BY <1>4, <2>1, AllocateNextMoves
  <2>. HIDE DEF y
  <2>3. Moves(y.s, x.s, x.q)
    BY <1>4, <1>6, <2>2, MovesOn
  <2>4. y.s.toAllocate \subseteq v.s.toAllocate /\ (Going(y.s) => Going(v.s))
    BY <2>2 DEF Moves, Advances
  <2>5. k # 0 /\ (k - 1 = 0 \/ k - 1 > 0)
    BY <1>2, <1>3
  <2>. QED  BY <1>4, <1>6, <2>2, <2>3, <2>4, <2>5 DEF y
<1>7. /\ Moves(w.s, x.s, x.q)
      /\ N = 0 => w = x.base
      /\ N > 0 /\ Going(w.s) => x.n \notin w.s.toAllocate
  <2>. DEFINE seq == Times(N)
  <2>1. (0 = 0 => base = x.base) /\ ~(0 > 0)
    BY <1>4
  <2>2. Len(seq) \in Nat /\ DOMAIN seq = 1..Len(seq)
    BY <1>2, <1>3
  <2>. HIDE DEF seq
  <2>3. /\ Moves(w.s, x.s, x.q)
        /\ Len(seq) = 0 => w = x.base
        /\ Len(seq) > 0 /\ Going(w.s) => x.n \notin w.s.toAllocate
    BY <1>5, <1>6, <2>1, <2>2, UnderFold!FoldInduction DEF seq
  <2>. QED  BY <1>3, <2>3 DEF seq
<1>. HIDE DEF w
<1>8. w.s.toAllocate \subseteq s.toAllocate
  BY <1>4, <1>7 DEF Moves, Advances
<1>. QED  BY <1>1, <1>2, <1>4, <1>7, <1>8

\* The node itself is the first of its ancestors.
FirstFold == INSTANCE FoldTheorems
    WITH Op <- LAMBDA c, k, s : IF c = <<>> THEN c ELSE Extended(c, UnallocatedParentOf(s, Last(c))),
         Inv <- LAMBDA c, k, n : IsSequence(c) /\ (c # <<>> => n \in ToSet(c))

LEMMA AncestorsHaveNode ==
  ASSUME NEW s, IsFiniteSet(s.T), NEW n
  PROVE  UnallocatedAncestorsOf(s, n) # <<>> => n \in ToSet(UnallocatedAncestorsOf(s, n))
<1>. DEFINE base == IF n = Nothing THEN <<>> ELSE <<n>>
            N == Cardinality(Links(s.T, "parent"))
<1>1. UnallocatedAncestorsOf(s, n) = FirstFold!Fold(base, Times(N), s)
  BY DEF UnallocatedAncestorsOf, Chain, FoldLeft, MapThenFoldSet, Max, FirstFold!Fold, FirstFold!Largest
<1>2. IsSequence(base) /\ (base # <<>> => n \in ToSet(base))
  BY SingletonIsSequence, SequenceOfOne
<1>3. N \in Nat
  BY LinksAreFinite
<1>4. Len(Times(N)) \in Nat /\ DOMAIN Times(N) = 1..Len(Times(N))
  BY <1>3, TimesIsSequence
<1>. HIDE DEF base, N
<1>5. ASSUME NEW c, IsSequence(c), c # <<>> => n \in ToSet(c), NEW m
      PROVE  LET e == Extended(c, m) IN IsSequence(e) /\ (c # <<>> /\ e # <<>> => n \in ToSet(e))
  <2>1. IsSequence(Extended(c, m))
    BY <1>5, ExtendedIsSequence
  <2>2. ToSet(Append(c, m)) = ToSet(c) \cup {m}
    BY <1>5, LongerSequence
  <2>. QED  BY <1>5, <2>1, <2>2 DEF Extended
<1>6. LET all == FirstFold!Fold(base, Times(N), s) IN IsSequence(all) /\ (all # <<>> => n \in ToSet(all))
  BY <1>2, <1>4, <1>5, FirstFold!FoldInduction
<1>. QED  BY <1>1, <1>6

AncestorsFold == INSTANCE FoldTheorems
    WITH Op <- LAMBDA r, m, T : AllocateUnder(r, m, ParentOf(T, m)),
         Inv <- LAMBDA r, k, x : /\ Moves(r, x.s, x.q)
                                 /\ Going(r) => \A i \in 1..k : x.seq[i] \notin r.toAllocate

LEMMA AncestorsAreFolded ==
  ASSUME NEW s, NEW T, NEW seq
  PROVE  FoldLeft(LAMBDA r, m : AllocateUnder(r, m, ParentOf(T, m)), s, seq)
           = AncestorsFold!Fold(s, seq, T)
  BY DEF FoldLeft, MapThenFoldSet, Max, AncestorsFold!Fold, AncestorsFold!Largest

LEMMA AllocateMoves ==
  ASSUME NEW q, NEW s, IsLoaderCall(s, q), NEW n
  PROVE  LET r == Allocate(s, n)
         IN  Moves(r, s, q) /\ (Going(r) => n \notin r.toAllocate)
<1>. DEFINE ancestors == UnallocatedAncestorsOf(s, n)
            seq == Reverse(ancestors)
            all == AncestorsFold!Fold(s, seq, s.T)
            x == [s |-> s, q |-> q, seq |-> seq]
<1>1. all = FoldLeft(LAMBDA r, m : AllocateUnder(r, m, ParentOf(s.T, m)), s, seq)
  BY AncestorsAreFolded
<1>2. IsSequence(seq) /\ (ancestors # <<>> => n \in ToSet(seq))
  <2>1. IsSequence(ancestors) /\ (ancestors # <<>> => n \in ToSet(ancestors))
    BY AncestorsAreSequence, AncestorsHaveNode DEF IsLoaderCall
  <2>. HIDE DEF ancestors
  <2>. QED  BY <2>1, ReverseIsSequence, ReversedElements
<1>3. \/ Allocate(s, n) = s /\ (~Going(s) \/ n \notin s.toAllocate)
      \/ Allocate(s, n) = Hang(s) \/ (Allocate(s, n) = all /\ ancestors # <<>>)
  BY <1>1 DEF Allocate
<1>4. x.s = s /\ x.q = q /\ x.seq = seq
  OBVIOUS
<1>. HIDE DEF seq, x
<1>5. Len(seq) \in Nat /\ DOMAIN seq = 1..Len(seq)
  BY <1>2, SequenceDomain
<1>6. Moves(all, s, q) /\ (Going(all) => \A i \in 1..Len(seq) : seq[i] \notin all.toAllocate)
  <2>1. Moves(s, x.s, x.q) /\ (Going(s) => \A i \in 1..0 : x.seq[i] \notin s.toAllocate)
    BY <1>4, MovesNothing
  <2>2. ASSUME NEW r, NEW k \in 1..Len(seq), Moves(r, x.s, x.q),
               Going(r) => \A i \in 1..k - 1 : x.seq[i] \notin r.toAllocate
        PROVE  LET y == AllocateUnder(r, seq[k], ParentOf(s.T, seq[k]))
               IN  Moves(y, x.s, x.q) /\ (Going(y) => \A i \in 1..k : x.seq[i] \notin y.toAllocate)
    <3>. DEFINE y == AllocateUnder(r, seq[k], ParentOf(s.T, seq[k]))
    <3>1. IsLoaderCall(r, q)
      BY <1>4, <2>2 DEF Moves, Allocates
    <3>2. Moves(y, r, q) /\ (Going(y) => seq[k] \notin y.toAllocate)
      BY <3>1, AllocateUnderMoves
    <3>. HIDE DEF y
    <3>3. Moves(y, x.s, x.q)
      BY <1>4, <2>2, <3>2, MovesOn
    <3>4. y.toAllocate \subseteq r.toAllocate /\ (Going(y) => Going(r))
      BY <3>2 DEF Moves, Advances
    <3>5. \A i \in 1..k : i \in 1..k - 1 \/ i = k
      BY <1>5
    <3>. QED  BY <1>4, <2>2, <3>2, <3>3, <3>4, <3>5 DEF y
  <2>3. Moves(all, x.s, x.q) /\ (Going(all) => \A i \in 1..Len(seq) : x.seq[i] \notin all.toAllocate)
    BY <1>5, <2>1, <2>2, AncestorsFold!FoldInduction
  <2>. QED  BY <1>4, <2>3
<1>7. Moves(s, s, q) /\ Moves(Hang(s), s, q) /\ ~Going(Hang(s))
  BY MovesNothing, StopsMoving DEF Hang
<1>8. ancestors # <<>> => \E i \in 1..Len(seq) : seq[i] = n
  BY <1>2, <1>5 DEF ToSet
<1>. HIDE DEF all, ancestors
<1>. QED  BY <1>3, <1>6, <1>7, <1>8

LEMMA AllocateSingleMoves ==
  ASSUME NEW q, NEW s, IsLoaderCall(s, q), NEW n
  PROVE  Moves(AllocateSingle(s, n), s, q)
<1>. DEFINE above == AllocateParentOf(s, n)
            r == AllocateSingleUnder(above, n, Value(above.map, ParentOf(above.T, n)))
<1>1. AllocateSingle(s, n) = r
  BY DEF AllocateSingle, AllocateSingleUnderParent
<1>2. Moves(above, s, q)
  BY AllocateMoves, MovesNothing DEF AllocateParentOf
<1>. HIDE DEF above
<1>3. Moves(r, above, q)
  <2>1. IsLoaderCall(above, q)
    BY <1>2 DEF Moves, Allocates
  <2>. QED  BY <2>1, AllocateSingleUnderMoves, MappedLive
<1>. HIDE DEF r
<1>. QED  BY <1>1, <1>2, <1>3, MovesOn

-------------------------------------------------------------------------------
(* Properties.                                                                   *)

LEMMA AppendsToList ==
  ASSUME NEW q, NEW s, IsLoaderCall(s, q), NEW o \in Living(s.O), NEW v,
         IsLiteral(v) \/ \E x \in Living(s.O) : v = ToObject(x)
  PROVE  Allocates([s EXCEPT !.O[o].list = Append(@, v)], s, q)
<1>. DEFINE old == s.O[o].list
            list == Append(old, v)
<1>1. /\ IsList(old)
      /\ \A x \in Object : ToObject(x) \in ToSet(old) => x \in Living(s.O)
  <2>1. IsGrove(s.O)
    BY DEF IsLoaderCall
  <2>. QED  BY <2>1, ValuesInGrove
<1>2. [s EXCEPT !.O[o].list = Append(@, v)] = [s EXCEPT !.O[o].list = list]
  OBVIOUS
<1>. HIDE DEF old
<1>3. IsSequence(list) /\ ToSet(list) = ToSet(old) \cup {v}
  <2>1. IsSequence(old)
    BY <1>1 DEF IsList
  <2>. QED  BY <2>1, LongerSequence
<1>. HIDE DEF list
<1>4. \A x \in Object : v = ToObject(x) => x \in Living(s.O)
  BY DEF ToObject, IsLiteral
<1>5. IsLiteral(v) \/ \E x \in Object : v = ToObject(x)
  BY DEF Living
<1>6. IsList(list)
  BY <1>1, <1>3, <1>5 DEF IsList
<1>7. \A x \in Object : ToObject(x) \in ToSet(list) => x \in Living(s.O)
  BY <1>1, <1>3, <1>4
<1>. QED  BY <1>2, <1>6, <1>7, SetsList

LEMMA AddElementAllocates ==
  ASSUME NEW q, NEW s, IsLoaderCall(s, q), NEW o \in Living(s.O), NEW v
  PROVE  Allocates(AddElement(s, o, v), s, q)
<1>1. CASE IsLiteral(v)
  <2>1. Allocates([s EXCEPT !.O[o].list = Append(@, v)], s, q)
    BY <1>1, AppendsToList
  <2>. QED  BY <1>1, <2>1 DEF AddElement
<1>2. CASE ~IsLiteral(v)
  <2>. DEFINE r == AllocateSingle(s, v)
              x == Value(r.map, v)
  <2>1. Allocates(r, s, q)
    BY AllocateSingleMoves DEF Moves
  <2>2. AddElement(s, o, v)
          = IF ~Going(r) \/ x = Null THEN r ELSE [r EXCEPT !.O[o].list = Append(@, ToObject(x))]
    BY <1>2 DEF AddElement, PropertyNodeToObject, AppendObject
  <2>. HIDE DEF r
  <2>3. x # Null => Allocates([r EXCEPT !.O[o].list = Append(@, ToObject(x))], r, q)
    <3>1. IsLoaderCall(r, q) /\ (x # Null => x \in Living(r.O)) /\ o \in Living(r.O)
      BY <2>1, MappedLive DEF Allocates
    <3>. HIDE DEF x
    <3>. QED  BY <3>1, AppendsToList
  <2>. QED  BY <2>1, <2>2, <2>3, AllocatesOn
<1>. QED  BY <1>1, <1>2

AddedFold == INSTANCE FoldTheorems
    WITH Op <- LAMBDA r, v, o : IF Going(r) THEN AddElement(r, o, v) ELSE r,
         Inv <- LAMBDA r, k, x : Allocates(r, x.s, x.q)

LEMMA ElementsAreFolded ==
  ASSUME NEW s, NEW o, NEW seq
  PROVE  FoldLeft(LAMBDA q, v : IF Going(q) THEN AddElement(q, o, v) ELSE q, s, seq)
           = AddedFold!Fold(s, seq, o)
  BY DEF FoldLeft, MapThenFoldSet, Max, AddedFold!Fold, AddedFold!Largest

LEMMA PropertyNodeToListAllocates ==
  ASSUME NEW q, NEW s, IsLoaderCall(s, q), NEW o \in Living(s.O), NEW head
  PROVE  Allocates(PropertyNodeToList(s, o, head), s, q)
<1>. DEFINE base == [s EXCEPT !.O[o].list = <<>>]
            seq == SequenceStartingAt(s.T, head)
            list == s.O[o].list
            r == AddedFold!Fold(base, seq, o)
            x == [s |-> s, q |-> q]
<1>1. PropertyNodeToList(s, o, head) = IF Going(r) THEN r ELSE [r EXCEPT !.O[o].list = list]
  BY ElementsAreFolded DEF PropertyNodeToList, OrRestoreList
<1>2. Allocates(base, s, q)
  BY EmptySequence, SetsList
<1>3. Len(seq) \in Nat /\ DOMAIN seq = 1..Len(seq)
  <2>1. IsSequence(seq)
    BY SequenceStartingAtIsSequence DEF IsLoaderCall
  <2>. QED  BY <2>1, SequenceDomain
<1>4. /\ IsList(list)
      /\ \A y \in Object : ToObject(y) \in ToSet(list) => y \in Living(s.O)
  <2>1. IsGrove(s.O)
    BY DEF IsLoaderCall
  <2>. QED  BY <2>1, ValuesInGrove
<1>5. x.s = s /\ x.q = q
  OBVIOUS
<1>. HIDE DEF base, seq, list, x
<1>6. ASSUME NEW y, Allocates(y, x.s, x.q), NEW v
      PROVE  Allocates(IF Going(y) THEN AddElement(y, o, v) ELSE y, x.s, x.q)
  <2>1. IsLoaderCall(y, q) /\ o \in Living(y.O)
    BY <1>5, <1>6 DEF Allocates
  <2>2. Allocates(AddElement(y, o, v), y, q)
    BY <2>1, AddElementAllocates
  <2>3. Allocates(AddElement(y, o, v), s, q)
    BY <1>5, <1>6, <2>2, AllocatesOn
  <2>. QED  BY <1>5, <1>6, <2>3
<1>7. Allocates(r, s, q)
  <2>1. Allocates(base, x.s, x.q)
    BY <1>2, <1>5
  <2>2. Allocates(r, x.s, x.q)
    BY <1>3, <1>6, <2>1, AddedFold!FoldInduction
  <2>. QED  BY <1>5, <2>2
<1>. HIDE DEF r
<1>8. Allocates([r EXCEPT !.O[o].list = list], s, q)
  <2>1. IsLoaderCall(r, q) /\ Living(s.O) \subseteq Living(r.O)
    BY <1>7 DEF Allocates
  <2>2. Allocates([r EXCEPT !.O[o].list = list], r, q)
    BY <1>4, <2>1, SetsList
  <2>. QED  BY <1>7, <2>2, AllocatesOn
<1>. QED  BY <1>1, <1>7, <1>8

LEMMA LoadReferenceAllocates ==
  ASSUME NEW q, NEW s, IsLoaderCall(s, q), NEW n
  PROVE  Allocates(LoadReference(s, n), s, q)
<1>. DEFINE v == First(ValuesOf(s, n, "ref"))
            o == Value(s.map, n)
            r == PropertyNodeToObject(s, v)
            x == Value(r.map, v)
<1>1. Allocates(s, s, q)
  BY AllocatesNothing
<1>2. CASE ~Going(s) \/ o = Null \/ ValuesOf(s, n, "ref") = {}
  <2>1. LoadReference(s, n) = s
    BY <1>2 DEF LoadReference
  <2>. QED  BY <1>1, <2>1
<1>3. CASE Going(s) /\ o # Null /\ ValuesOf(s, n, "ref") # {}
  <2>1. LoadReference(s, n) = SetReference(r, o, v)
    BY <1>3 DEF LoadReference
  <2>2. o \in Living(s.O)
    BY <1>3, MappedLive
  <2>. HIDE DEF v, o
  <2>3. Allocates(r, s, q)
    BY <1>1, AllocateSingleMoves DEF PropertyNodeToObject, Moves
  <2>. HIDE DEF r
  <2>4. SetReference(r, o, v) = r \/ (x # Null /\ SetReference(r, o, v) = [r EXCEPT !.O[o].ref = x])
    BY DEF SetReference
  <2>5. x # Null => Allocates([r EXCEPT !.O[o].ref = x], r, q)
    <3>1. IsLoaderCall(r, q) /\ (x # Null => x \in Living(r.O)) /\ o \in Living(r.O)
      BY <2>2, <2>3, MappedLive DEF Allocates
    <3>. HIDE DEF x
    <3>. QED  BY <3>1, SetsRef
  <2>. QED  BY <2>1, <2>3, <2>4, <2>5, AllocatesOn
<1>. QED  BY <1>2, <1>3

LEMMA LoadListAllocates ==
  ASSUME NEW q, NEW s, IsLoaderCall(s, q), NEW n
  PROVE  Allocates(LoadList(s, n), s, q)
<1>. DEFINE o == Value(s.map, n)
            head == First(ValuesOf(s, n, "list"))
<1>1. Allocates(s, s, q)
  BY AllocatesNothing
<1>2. o # Null => o \in Living(s.O)
  BY MappedLive
<1>3. \/ LoadList(s, n) \in {s, Hang(s)}
      \/ o # Null /\ LoadList(s, n) = PropertyNodeToList(s, o, head)
  BY DEF LoadList
<1>4. Allocates(Hang(s), s, q)
  BY Halts DEF Hang
<1>. HIDE DEF o, head
<1>. QED  BY <1>1, <1>2, <1>3, <1>4, PropertyNodeToListAllocates

LEMMA PopulateAllocates ==
  ASSUME NEW q, NEW s, IsLoaderCall(s, q), NEW n
  PROVE  Allocates(Populate(s, n), s, q)
<1>. DEFINE a == LoadReference(s, n)
            r == LoadList(a, n)
            p == [r EXCEPT !.toPopulate = r.toPopulate \ {n}]
<1>1. Allocates(a, s, q)
  BY LoadReferenceAllocates
<1>. HIDE DEF a
<1>2. Allocates(r, a, q)
  BY <1>1, LoadListAllocates DEF Allocates
<1>. HIDE DEF r
<1>3. Allocates(p, r, q)
  BY <1>2, InitialisesLess DEF Allocates
<1>4. Populate(s, n) = p
  BY DEF Populate, r, a
<1>. HIDE DEF p
<1>. QED  BY <1>1, <1>2, <1>3, <1>4, AllocatesOn

-------------------------------------------------------------------------------
(* Objects that go.                                                              *)

LEMMA DeletesObject ==
  ASSUME NEW q, NEW r, IsLoaderCall(r, q), NEW o \in Living(r.O)
  PROVE  IsLoaderCall(DeleteObject(r, o), q) /\ \A n : Value(r.map, n) = o => Value(DeleteObject(r, o).map, n) = Null
<1>. DEFINE gone == Family(r.O, o)
            d == DeleteObject(r, o)
<1>1. o \in Object /\ o # Null /\ IsGrove(r.O)
  BY DEF IsLoaderCall, Living, Object, Null
<1>2. /\ IsGrove(Delete(r.O, o))
      /\ Living(Delete(r.O, o)) = Living(r.O) \ gone
      /\ \A x \in Living(r.O) \ gone : Delete(r.O, o)[x].uri = r.O[x].uri
      /\ o \in gone /\ gone \subseteq Object
  BY <1>1, DeleteLeaves, DeleteKeepsForest DEF IsGrove
<1>. HIDE DEF gone
<1>3. /\ DOMAIN d = LoaderFields /\ d.O = Delete(r.O, o)
      /\ d.map = [m \in DOMAIN r.map |-> IF r.map[m] \in gone THEN Null ELSE r.map[m]]
      /\ d.gone = r.gone \cup gone /\ d.T = r.T
      /\ d.toAllocate = r.toAllocate /\ d.toInitialise = r.toInitialise /\ d.toPopulate = r.toPopulate
  BY <1>1 DEF DeleteObject, IsLoaderCall, LoaderFields, gone
<1>. HIDE DEF d
<1>4. ASSUME NEW m
      PROVE  Value(d.map, m) = IF Value(r.map, m) \in gone THEN Null ELSE Value(r.map, m)
  <2>1. Null \notin gone
    BY <1>2 DEF Null, Object
  <2>2. DOMAIN d.map = DOMAIN r.map
    BY <1>3
  <2>3. CASE m \notin DOMAIN r.map
    BY <2>1, <2>2, <2>3 DEF Value
  <2>4. CASE m \in DOMAIN r.map
    <3>1. d.map[m] = IF r.map[m] \in gone THEN Null ELSE r.map[m]
      BY <1>3, <2>4
    <3>. QED  BY <2>2, <2>4, <3>1 DEF Value
  <2>. QED  BY <2>3, <2>4
<1>5. Living(d.O) = Living(r.O) \ gone /\ \A x \in Living(d.O) : d.O[x].uri = r.O[x].uri
  BY <1>2, <1>3
<1>6. ASSUME NEW m, Value(d.map, m) # Null PROVE IsMapping(d, q, m)
  <2>1. Value(d.map, m) = Value(r.map, m) /\ Value(r.map, m) \notin gone
    BY <1>4, <1>6
  <2>2. IsMapping(r, q, m)
    BY <1>6, <2>1 DEF IsLoaderCall
  <2>. QED  BY <1>5, <2>1, <2>2 DEF IsMapping
<1>7. ASSUME NEW m, NEW k, Value(d.map, m) # Null, Value(d.map, k) = Value(d.map, m) PROVE k = m
  <2>1. Value(d.map, m) = Value(r.map, m) /\ Value(d.map, k) = Value(r.map, k)
    BY <1>4, <1>7
  <2>. QED  BY <1>7, <2>1 DEF IsLoaderCall
<1>8. \A m \in d.toAllocate : m \in Typed(q.T) /\ Value(d.map, m) = Null
  BY <1>3, <1>4 DEF IsLoaderCall
<1>9. \A x \in Living(q.O) \ d.gone : x \in Living(d.O) /\ d.O[x].uri = q.O[x].uri
  BY <1>3, <1>5 DEF IsLoaderCall
<1>10. \A x \in Living(d.O) : d.O[x].uri \in {Nothing} \cup Typed(q.T) \cup {q.O[p].uri : p \in Object}
  BY <1>5 DEF IsLoaderCall
<1>11. ASSUME UrisAreMapped(q) PROVE UrisAreMapped(d)
  BY <1>4, <1>5, <1>11 DEF IsLoaderCall, UrisAreMapped
<1>12. IsLoaderCall(d, q)
  <2>1. /\ d.T = q.T /\ IsFiniteSet(q.T) /\ Nothing \notin Typed(q.T)
        /\ d.toInitialise \subseteq Typed(q.T) /\ d.toPopulate \subseteq Typed(q.T) /\ IsGrove(d.O)
    BY <1>2, <1>3 DEF IsLoaderCall
  <2>. QED  BY <1>3, <1>6, <1>7, <1>8, <1>9, <1>10, <1>11, <2>1 DEF IsLoaderCall
<1>. QED  BY <1>2, <1>4, <1>12 DEF d

LEMMA InsertsNull ==
  ASSUME NEW q, NEW r, IsLoaderCall(r, q), NEW n, Value(r.map, n) = Null
  PROVE  IsLoaderCall(Insert(r, n, Null), q)
<1>. DEFINE d == Insert(r, n, Null)
<1>1. /\ DOMAIN d = LoaderFields /\ d.O = r.O /\ d.T = r.T /\ d.gone = r.gone
      /\ d.map = [m \in DOMAIN r.map \cup {n} |-> IF m = n THEN Null ELSE r.map[m]]
      /\ d.toAllocate = r.toAllocate /\ d.toInitialise = r.toInitialise /\ d.toPopulate = r.toPopulate
  BY DEF Insert, IsLoaderCall, LoaderFields
<1>. HIDE DEF d
<1>2. \A m : Value(d.map, m) = Value(r.map, m)
  BY <1>1 DEF Value
<1>3. ASSUME NEW m, Value(d.map, m) # Null PROVE IsMapping(d, q, m)
  <2>1. Value(d.map, m) = Value(r.map, m) /\ IsMapping(r, q, m)
    BY <1>2, <1>3 DEF IsLoaderCall
  <2>. QED  BY <1>1, <2>1 DEF IsMapping
<1>4. UrisAreMapped(q) => UrisAreMapped(d)
  BY <1>1, <1>2 DEF IsLoaderCall, UrisAreMapped
<1>. QED  BY <1>1, <1>2, <1>3, <1>4 DEF IsLoaderCall, d

\* A node loses its object.
LEMMA ObjectIsLost ==
  ASSUME NEW q, NEW r, IsLoaderCall(r, q), NEW n
  PROVE  IsLoaderCall(Insert(DeleteObject(r, Value(r.map, n)), n, Null), q)
<1>. DEFINE o == Value(r.map, n)
            d == DeleteObject(r, o)
<1>1. CASE o = Null
  <2>1. d = r
    BY <1>1 DEF DeleteObject
  <2>. QED  BY <1>1, <2>1, InsertsNull
<1>2. CASE o # Null
  <2>1. o \in Living(r.O)
    BY <1>2, MappedLive
  <2>2. IsLoaderCall(d, q) /\ Value(d.map, n) = Null
    BY <2>1, DeletesObject
  <2>. HIDE DEF d
  <2>. QED  BY <2>2, InsertsNull DEF d
<1>. QED  BY <1>1, <1>2

-------------------------------------------------------------------------------
(* Loading what has been collected.                                              *)

LEMMA AllocateOrIgnoreKeeps ==
  ASSUME NEW q, NEW s, IsLoaderCall(s, q), NEW n
  PROVE  IsLoaderCall(AllocateOrIgnore(s, n), q)
<1>. DEFINE r == Allocate(s, n)
            a == [r EXCEPT !.outcome = "returns"]
            b == Insert(DeleteObject(a, Value(a.map, n)), n, Null)
            c == [b EXCEPT !.toInitialise = b.toInitialise \ {n}]
            d == [c EXCEPT !.toPopulate = c.toPopulate \ {n}]
<1>1. IsLoaderCall(r, q)
  BY AllocateMoves DEF Moves, Allocates
<1>2. AllocateOrIgnore(s, n) = r \/ AllocateOrIgnore(s, n) = Ignore(r, n)
  BY DEF AllocateOrIgnore, OrIgnore
<1>. HIDE DEF r
<1>3. IsLoaderCall(a, q) /\ a.map = r.map
  <2>1. a.map = r.map
    BY <1>1 DEF IsLoaderCall, LoaderFields
  <2>. QED  BY <1>1, <2>1, Halts DEF Allocates
<1>4. Ignore(r, n) = [b EXCEPT !.toInitialise = @ \ {n}, !.toPopulate = @ \ {n}]
  BY <1>3 DEF Ignore
<1>. HIDE DEF a
<1>5. IsLoaderCall(b, q)
  BY <1>3, ObjectIsLost
<1>. HIDE DEF b
<1>6. [b EXCEPT !.toInitialise = @ \ {n}, !.toPopulate = @ \ {n}] = d
  BY <1>5 DEF IsLoaderCall, LoaderFields
<1>7. IsLoaderCall(c, q)
  BY <1>5, InitialisesLess DEF Allocates
<1>. HIDE DEF c
<1>8. IsLoaderCall(d, q)
  BY <1>7, InitialisesLess DEF Allocates
<1>. HIDE DEF d
<1>. QED  BY <1>1, <1>2, <1>4, <1>6, <1>8

AllocationsFold == INSTANCE FoldTheorems
    WITH Op <- LAMBDA r, n, p : AllocateOrIgnore(r, n), Inv <- LAMBDA r, k, q : IsLoaderCall(r, q)
InitialisesFold == INSTANCE FoldTheorems
    WITH Op <- LAMBDA r, n, p : Initialise(r, n), Inv <- LAMBDA r, k, q : IsLoaderCall(r, q)
PopulatesFold == INSTANCE FoldTheorems
    WITH Op <- LAMBDA r, n, p : Populate(r, n), Inv <- LAMBDA r, k, q : IsLoaderCall(r, q)

LEMMA AllocateAllKeeps ==
  ASSUME NEW q, NEW s, IsLoaderCall(s, q), NEW order
  PROVE  IsLoaderCall(AllocateAll(s, order), q)
<1>. DEFINE seq == Ordered(s.toAllocate, order)
<1>1. AllocateAll(s, order) = AllocationsFold!Fold(s, seq, 0)
  BY DEF AllocateAll, FoldLeft, MapThenFoldSet, Max, AllocationsFold!Fold, AllocationsFold!Largest
<1>2. Len(seq) \in Nat /\ DOMAIN seq = 1..Len(seq)
  <2>1. IsFiniteSet(s.toAllocate)
    BY TypedAreFinite DEF IsLoaderCall
  <2>. QED  BY <2>1, OrderedDomain
<1>. HIDE DEF seq
<1>3. ASSUME NEW r, IsLoaderCall(r, q), NEW n PROVE IsLoaderCall(AllocateOrIgnore(r, n), q)
  BY <1>3, AllocateOrIgnoreKeeps
<1>4. IsLoaderCall(AllocationsFold!Fold(s, seq, 0), q)
  BY <1>2, <1>3, AllocationsFold!FoldInduction
<1>. QED  BY <1>1, <1>4

LEMMA InitialiseAllKeeps ==
  ASSUME NEW q, NEW s, IsLoaderCall(s, q), NEW order
  PROVE  IsLoaderCall(InitialiseAll(s, order), q)
<1>. DEFINE seq == Ordered(s.toInitialise, order)
<1>1. InitialiseAll(s, order) = InitialisesFold!Fold(s, seq, 0)
  BY DEF InitialiseAll, FoldLeft, MapThenFoldSet, Max, InitialisesFold!Fold, InitialisesFold!Largest
<1>2. Len(seq) \in Nat /\ DOMAIN seq = 1..Len(seq)
  <2>1. IsFiniteSet(s.toInitialise)
    BY TypedAreFinite DEF IsLoaderCall
  <2>. QED  BY <2>1, OrderedDomain
<1>. HIDE DEF seq
<1>3. ASSUME NEW r, IsLoaderCall(r, q), NEW n PROVE IsLoaderCall(Initialise(r, n), q)
  BY <1>3, InitialiseAllocates DEF Allocates
<1>4. IsLoaderCall(InitialisesFold!Fold(s, seq, 0), q)
  BY <1>2, <1>3, InitialisesFold!FoldInduction
<1>. QED  BY <1>1, <1>4

LEMMA PopulateAllKeeps ==
  ASSUME NEW q, NEW s, IsLoaderCall(s, q), NEW order
  PROVE  IsLoaderCall(PopulateAll(s, order), q)
<1>. DEFINE seq == Ordered(s.toPopulate, order)
            x == PopulatesFold!Fold(s, seq, 0)
<1>1. PopulateAll(s, order) = Note(x, s.toPopulate)
  BY DEF PopulateAll, FoldLeft, MapThenFoldSet, Max, PopulatesFold!Fold, PopulatesFold!Largest
<1>2. Len(seq) \in Nat /\ DOMAIN seq = 1..Len(seq)
  <2>1. IsFiniteSet(s.toPopulate)
    BY TypedAreFinite DEF IsLoaderCall
  <2>. QED  BY <2>1, OrderedDomain
<1>. HIDE DEF seq
<1>3. ASSUME NEW r, IsLoaderCall(r, q), NEW n PROVE IsLoaderCall(Populate(r, n), q)
  BY <1>3, PopulateAllocates DEF Allocates
<1>4. IsLoaderCall(x, q)
  BY <1>2, <1>3, PopulatesFold!FoldInduction
<1>. HIDE DEF x
<1>5. IsLoaderCall([x EXCEPT !.populated = s.toPopulate], q)
  <2>. DEFINE S == s.toPopulate
              y == [x EXCEPT !.populated = S]
  <2>1. /\ DOMAIN y = LoaderFields /\ y.T = x.T /\ y.O = x.O /\ y.map = x.map /\ y.gone = x.gone
        /\ y.toAllocate = x.toAllocate /\ y.toInitialise = x.toInitialise /\ y.toPopulate = x.toPopulate
    BY <1>4 DEF IsLoaderCall, LoaderFields
  <2>. HIDE DEF y
  <2>2. IsLoaderCall(y, q)
    BY <1>4, <2>1, SameCall DEF Allocates
  <2>. QED  BY <2>2 DEF y
<1>. QED  BY <1>1, <1>4, <1>5 DEF Note

LEMMA LoadCollectedKeeps ==
  ASSUME NEW q, NEW s, IsLoaderCall(s, q), NEW order
  PROVE  IsLoaderCall(LoadCollected(s, order), q)
<1>. DEFINE a == AllocateAll(s, order)
            i == InitialiseAll(a, order)
<1>1. IsLoaderCall(a, q)
  BY AllocateAllKeeps
<1>. HIDE DEF a
<1>2. IsLoaderCall(i, q)
  BY <1>1, InitialiseAllKeeps
<1>. HIDE DEF i
<1>3. IsLoaderCall(PopulateAll(i, order), q)
  BY <1>2, PopulateAllKeeps
<1>. QED  BY <1>3 DEF LoadCollected, i, a

-------------------------------------------------------------------------------
(* Collecting the nodes to load.                                                 *)

LEMMA NoteNodeKeeps ==
  ASSUME NEW q, NEW r, IsLoaderCall(r, q), NEW requested, NEW n
  PROVE  IsLoaderCall(NoteNode(r, requested, n), q)
<1>. DEFINE typed == NodeHasType(r.T, n)
            a == [r EXCEPT !.toAllocate = @ \cup {n}, !.toInitialise = @ \cup {n},
                           !.toPopulate = @ \cup {n}]
            b == [r EXCEPT !.toInitialise = @ \cup {n}, !.toPopulate = @ \cup {n}]
<1>1. typed => n \in Typed(q.T)
  BY TypedNodes DEF IsLoaderCall
<1>2. ASSUME typed, Value(r.map, n) = Null PROVE IsLoaderCall(a, q)
  <2>1. /\ DOMAIN a = LoaderFields /\ a.O = r.O /\ a.map = r.map /\ a.T = r.T /\ a.gone = r.gone
        /\ a.toAllocate = r.toAllocate \cup {n} /\ a.toInitialise = r.toInitialise \cup {n}
        /\ a.toPopulate = r.toPopulate \cup {n}
    BY DEF IsLoaderCall, LoaderFields
  <2>. HIDE DEF a
  <2>. QED  BY <1>1, <1>2, <2>1, SameCall DEF Allocates
<1>3. ASSUME typed PROVE IsLoaderCall(b, q)
  <2>1. /\ DOMAIN b = LoaderFields /\ b.O = r.O /\ b.map = r.map /\ b.T = r.T /\ b.gone = r.gone
        /\ b.toAllocate = r.toAllocate /\ b.toInitialise = r.toInitialise \cup {n}
        /\ b.toPopulate = r.toPopulate \cup {n}
    BY DEF IsLoaderCall, LoaderFields
  <2>. HIDE DEF b
  <2>. QED  BY <1>1, <1>3, <2>1, SameCall DEF Allocates
<1>4. IsLoaderCall(Insert(DeleteObject(r, Value(r.map, n)), n, Null), q)
  BY ObjectIsLost
<1>. HIDE DEF a, b
<1>. QED  BY <1>2, <1>3, <1>4 DEF NoteNode, a, b

IsCollection(c, q) ==
    /\ c = [s |-> c.s, candidates |-> c.candidates, visited |-> c.visited]
    /\ IsLoaderCall(c.s, q) /\ IsSequence(c.candidates)

LEMMA CollectNodeKeeps ==
  ASSUME NEW q, NEW c, IsCollection(c, q), NEW requested, NEW n, NEW order
  PROVE  /\ IsCollection(CollectNode(c, requested, n, order), q)
         /\ Going(CollectNode(c, requested, n, order).s) =>
              Going(c.s) /\ CollectNode(c, requested, n, order).s = NoteNode(c.s, requested, n)
<1>. DEFINE relatives == RelativesOfNode(c.s, n) \ (c.visited \cup {n, Nothing})
            more(leads) == c.candidates \o (IF leads THEN Ordered(relatives, order) ELSE <<>>)
            noted == NoteNode(c.s, requested, n)
<1>1. IsLoaderCall(noted, q)
  BY NoteNodeKeeps DEF IsCollection
<1>2. IsLoaderCall(Hang(noted), q) /\ ~Going(Hang(noted))
  <2>. HIDE DEF noted
  <2>1. IsLoaderCall(Hang(noted), q)
    BY <1>1, Halts DEF Hang, Allocates
  <2>. QED  BY <1>1, <2>1 DEF Hang, Going, IsLoaderCall, LoaderFields
<1>3. IsFiniteSet(relatives)
  <2>1. IsFiniteSet(c.s.T)
    BY DEF IsCollection, IsLoaderCall
  <2>. QED  BY <2>1, RelativesAreFinite, FS_Subset
<1>. HIDE DEF relatives
<1>4. ASSUME NEW leads PROVE IsSequence(more(leads))
  <2>1. Ordered(relatives, order) \in Seq(relatives)
    BY <1>3, OrderedIsSequence
  <2>2. c.candidates \in Seq(ToSet(c.candidates) \cup relatives)
    <3>1. IsSequence(c.candidates)
      BY DEF IsCollection
    <3>. QED  BY <3>1, SequenceIn
  <2>3. more(leads) \in Seq(ToSet(c.candidates) \cup relatives)
    BY <2>1, <2>2
  <2>. HIDE DEF more
  <2>. QED  BY <2>3, SequenceOf
<1>. DEFINE leads == NodeHasType(c.s.T, n) \/ ~(Value(c.s.map, n) = Null \/ n \in ToSet(requested))
            d == CollectNode(c, requested, n, order)
<1>5. \/ ~Going(c.s) /\ d = c
      \/ Going(c.s) /\ \E s \in {noted, Hang(noted)} :
           d = [s |-> s, candidates |-> more(leads), visited |-> c.visited \cup {n}]
  BY DEF CollectNode, relatives
<1>. HIDE DEF more, leads, noted, d
<1>6. CASE ~Going(c.s) /\ d = c
  BY <1>6 DEF d
<1>7. ASSUME Going(c.s), NEW s \in {noted, Hang(noted)},
             d = [s |-> s, candidates |-> more(leads), visited |-> c.visited \cup {n}]
      PROVE  IsCollection(d, q) /\ (Going(d.s) => d.s = noted)
  <2>1. d.s = s /\ d = [s |-> d.s, candidates |-> d.candidates, visited |-> d.visited]
        /\ d.candidates = more(leads)
    BY <1>7
  <2>2. IsLoaderCall(s, q) /\ (Going(s) => s = noted)
    BY <1>1, <1>2, <1>7
  <2>. QED  BY <1>4, <2>1, <2>2 DEF IsCollection
<1>. QED  BY <1>5, <1>6, <1>7 DEF d, noted


NodesFold == INSTANCE FoldTheorems
    WITH Op <- LAMBDA d, n, p : CollectNode(d, p.requested, n, p.order),
         Inv <- LAMBDA d, k, q : IsCollection(d, q)
CandidateRoundsFold == INSTANCE FoldTheorems
    WITH Op <- LAMBDA c, k, p : CollectRound(c, p.requested, p.order),
         Inv <- LAMBDA c, k, q : IsCollection(c, q)

LEMMA CollectRoundIsFold ==
  ASSUME NEW c, NEW p
  PROVE  CollectRound(c, p.requested, p.order)
           = NodesFold!Fold([c EXCEPT !.candidates = <<>>], c.candidates, p)
  BY DEF CollectRound, FoldLeft, MapThenFoldSet, Max, NodesFold!Fold, NodesFold!Largest

LEMMA CollectRoundKeeps ==
  ASSUME NEW q, NEW c, IsCollection(c, q), NEW p
  PROVE  IsCollection(CollectRound(c, p.requested, p.order), q)
<1>. DEFINE base == [c EXCEPT !.candidates = <<>>]
<1>1. IsCollection(base, q)
  <2>1. base = [s |-> c.s, candidates |-> <<>>, visited |-> c.visited]
    BY DEF IsCollection
  <2>. HIDE DEF base
  <2>. QED  BY <2>1, EmptySequence DEF IsCollection
<1>. HIDE DEF base
<1>2. Len(c.candidates) \in Nat /\ DOMAIN c.candidates = 1..Len(c.candidates)
  BY SequenceDomain DEF IsCollection
<1>3. ASSUME NEW d, NEW k \in 1..Len(c.candidates), IsCollection(d, q)
      PROVE  IsCollection(CollectNode(d, p.requested, c.candidates[k], p.order), q)
  BY <1>3, CollectNodeKeeps
<1>4. IsCollection(NodesFold!Fold(base, c.candidates, p), q)
  BY <1>1, <1>2, <1>3, NodesFold!FoldInduction
<1>. QED  BY <1>4, CollectRoundIsFold DEF base

LEMMA CollectNodesIsFold ==
  ASSUME NEW s, NEW p
  PROVE  CollectNodes(s, p.requested, p.order)
           = CandidateRoundsFold!Fold([s |-> s, candidates |-> p.requested, visited |-> {}],
                                      Times(Cardinality(NodesOf(s.T)) + 2), p).s
  BY DEF CollectNodes, FoldLeft, MapThenFoldSet, Max, CandidateRoundsFold!Fold,
         CandidateRoundsFold!Largest

LEMMA CollectNodesKeeps ==
  ASSUME NEW q, NEW s, IsLoaderCall(s, q), NEW requested, IsSequence(requested), NEW order
  PROVE  IsLoaderCall(CollectNodes(s, requested, order), q)
<1>. DEFINE p == [requested |-> requested, order |-> order]
            base == [s |-> s, candidates |-> p.requested, visited |-> {}]
            n == Cardinality(NodesOf(s.T)) + 2
<1>1. p.requested = requested /\ p.order = order
  OBVIOUS
<1>. HIDE DEF p
<1>2. IsCollection(base, q)
  BY <1>1 DEF IsCollection
<1>3. n \in Nat
  <2>1. IsFiniteSet(NodesOf(s.T))
    BY NodesAreFinite DEF IsLoaderCall
  <2>. QED  BY <2>1, FS_CardinalityType
<1>. HIDE DEF base, n
<1>4. Len(Times(n)) = n /\ DOMAIN Times(n) = 1..n
  BY <1>3, TimesIsSequence
<1>5. ASSUME NEW c, NEW k \in 1..n, IsCollection(c, q)
      PROVE  IsCollection(CollectRound(c, p.requested, p.order), q)
  BY <1>5, CollectRoundKeeps
<1>6. IsCollection(CandidateRoundsFold!Fold(base, Times(n), p), q)
  BY <1>2, <1>3, <1>4, <1>5, CandidateRoundsFold!FoldInduction
<1>7. CollectNodes(s, p.requested, p.order) = CandidateRoundsFold!Fold(base, Times(n), p).s
  BY CollectNodesIsFold DEF base, n
<1>. QED  BY <1>1, <1>6, <1>7 DEF IsCollection

-------------------------------------------------------------------------------
(* All of a call of the loader.                                                  *)

LEMMA StartIsCall ==
  ASSUME NEW T, IsFiniteSet(T), Nothing \notin Typed(T), NEW O, IsGrove(O), NEW map,
         \A n \in DOMAIN map : /\ n # Nothing /\ map[n] \in Living(O)
                               /\ IsUri(n) => O[map[n]].uri = n
                               /\ \A m \in DOMAIN map : map[m] = map[n] => m = n,
         NEW fp, NEW ap, NEW ignoreUnknown
  PROVE  LET q == Start(T, O, map, fp, ap, ignoreUnknown)
         IN  IsLoaderCall(q, q) /\ q.T = T /\ q.O = O /\ q.map = map /\ q.gone = {}
<1>. DEFINE q == Start(T, O, map, fp, ap, ignoreUnknown)
<1>1. /\ DOMAIN q = LoaderFields /\ q.O = O /\ q.map = map /\ q.T = T
      /\ q.toAllocate = {} /\ q.toInitialise = {} /\ q.toPopulate = {} /\ q.gone = {}
  BY DEF Start, LoaderFields
<1>. HIDE DEF q
<1>2. \A n : Value(q.map, n) # Null => n \in DOMAIN map /\ Value(q.map, n) = map[n]
  BY <1>1 DEF Value
<1>3. ASSUME NEW n, Value(q.map, n) # Null PROVE IsMapping(q, q, n)
  <2>1. n \in DOMAIN map /\ Value(q.map, n) = map[n]
    BY <1>2, <1>3
  <2>. QED  BY <1>1, <1>3, <2>1 DEF IsMapping
<1>4. ASSUME NEW n, NEW m, Value(q.map, n) # Null, Value(q.map, m) = Value(q.map, n) PROVE m = n
  <2>1. n \in DOMAIN map /\ Value(q.map, n) = map[n] /\ m \in DOMAIN map /\ Value(q.map, m) = map[m]
    BY <1>2, <1>4
  <2>. QED  BY <1>4, <2>1
<1>5. \A o \in Living(q.O) : o \in Object
  BY DEF Living
<1>. QED  BY <1>1, <1>3, <1>4, <1>5 DEF IsLoaderCall, q

LEMMA TakesOrder ==
  ASSUME NEW q, NEW s, IsLoaderCall(s, q), NEW order
  PROVE  LET x == [s EXCEPT !.order = order]
         IN  /\ IsLoaderCall(x, q) /\ x.T = s.T /\ x.ap = s.ap /\ x.map = s.map
             /\ x.toPopulate = s.toPopulate
<1>. DEFINE x == [s EXCEPT !.order = order]
<1>1. /\ DOMAIN x = LoaderFields /\ x.T = s.T /\ x.O = s.O /\ x.map = s.map /\ x.gone = s.gone
      /\ x.toAllocate = s.toAllocate /\ x.toInitialise = s.toInitialise
      /\ x.toPopulate = s.toPopulate /\ x.ap = s.ap
  BY DEF IsLoaderCall, LoaderFields
<1>. HIDE DEF x
<1>2. IsLoaderCall(x, q)
  BY <1>1, SameCall DEF Allocates
<1>. QED  BY <1>1, <1>2 DEF x

LEMMA LoadNodesKeeps ==
  ASSUME NEW q, NEW s, IsLoaderCall(s, q), NEW requested, IsSequence(requested), NEW order
  PROVE  IsLoaderCall(LoadNodes(s, requested, order), q)
<1>. DEFINE x == [s EXCEPT !.order = order]
            c == CollectNodes(x, requested, order)
<1>1. IsLoaderCall(c, q)
  <2>1. IsLoaderCall(x, q)
    BY TakesOrder
  <2>. HIDE DEF x
  <2>. QED  BY <2>1, CollectNodesKeeps
<1>2. LoadNodes(s, requested, order) = IF Going(c) THEN LoadCollected(c, order) ELSE c
  BY DEF LoadNodes
<1>. HIDE DEF c
<1>. QED  BY <1>1, <1>2, LoadCollectedKeeps

-------------------------------------------------------------------------------
(* The inductive invariant: the objects, their nodes and the store are in order,   *)
(* and what was stored last is settled, so that storing it again changes nothing.  *)

NodesHere == ObjectNodes(triples, nodeOf, objects)
ObjectsInOrder ==
    /\ IsGrove(objects)
    /\ nodeOf = [o \in Object |-> nodeOf[o]] /\ NodesFit(objects, nodeOf)
    /\ keeps => NoNodeIsShared(nodeOf)
    /\ keeps /\ outcome = "returns" => UrisAreNodes(objects, nodeOf)
StoreInOrder == AreNodes(NodesHere, policy.bp) /\ InOrder(triples, NodesHere, policy.bp, {})
Bounded ==
    /\ policy \in Policies /\ keeps \in BOOLEAN
    /\ edits \in Nat /\ edits <= MaxEdits /\ calls \in Nat /\ calls <= MaxCalls
StoredLive == stored \subseteq Living(objects)
AskedAreSettled ==
    asked # {} /\ keeps /\ policy.bp # "PermitBlankObjectNodes" =>
        /\ asked \subseteq Living(objects)
        /\ \E V \in SUBSET Living(objects) :
              asked \subseteq V /\ IsClosed(StorerState(nodeOf), V) /\ \A o \in V : nodeOf[o] # Nothing
        /\ \A o \in asked : Settled(triples, StorerState(nodeOf), o)
Inv == ObjectsInOrder /\ StoreInOrder /\ Bounded /\ StoredLive /\ AskedAreSettled

LEMMA TypedAreNodes ==
  ASSUME NEW T, NEW map, NEW O, NEW bp, NEW X, InOrder(T, ObjectNodes(T, map, O), bp, X)
  PROVE  Typed(T) \subseteq ObjectNodes(T, map, O) /\ Nothing \notin Typed(T)
<1>1. ASSUME NEW n \in Typed(T) PROVE n \in ObjectNodes(T, map, O)
  <2>1. PICK t \in T : t[2] = "type" /\ t[1] = n
    BY DEF Typed
  <2>. QED  BY <2>1 DEF InOrder, Fits, Cells
<1>. QED  BY <1>1 DEF ObjectNodes

\* Fewer nodes, and the same or fewer triples.
LEMMA StaysInOrder ==
  ASSUME NEW T, NEW N, NEW bp, InOrder(T, N, bp, {}), AreNodes(N, bp), Nothing \notin N, NEW map, NEW O,
         \A o \in Object : (map[o] # Nothing => map[o] \in N) /\ (O[o].uri # Nothing => O[o].uri \in N)
  PROVE  AreNodes(ObjectNodes(T, map, O), bp) /\ InOrder(T, ObjectNodes(T, map, O), bp, {})
<1>. DEFINE M == ObjectNodes(T, map, O)
<1>1. \A t \in T : t[2] \notin Cells => t[1] \in N
  BY DEF InOrder, Fits
<1>2. M \subseteq N
  BY <1>1 DEF ObjectNodes
<1>3. \A t \in T : t[2] \notin Cells => t[1] \in M
  BY <1>1 DEF ObjectNodes
<1>. HIDE DEF M
<1>4. InOrder(T, M, bp, {})
  BY <1>2, <1>3, FewerNodes
<1>5. AreNodes(M, bp)
  BY <1>2 DEF AreNodes
<1>. QED  BY <1>4, <1>5 DEF M

LEMMA InitHolds == Init => Inv
<1>. SUFFICES ASSUME Init PROVE Inv
  OBVIOUS
<1>1. /\ IsGraph(objects) /\ IsForest(objects)
      /\ \A o \in Object : objects[o].uri = Nothing /\ IsList(objects[o].list)
  BY StoredObjectsConstants DEF Init
<1>2. \A o \in Object : nodeOf[o] = Nothing
  BY DEF Init, NoNodes
<1>3. ObjectsInOrder
  <2>1. nodeOf = [o \in Object |-> nodeOf[o]]
    BY DEF Init, NoNodes
  <2>. QED  BY <1>1, <1>2, <2>1 DEF ObjectsInOrder, IsGrove, NodesFit, NoNodeIsShared, UrisAreNodes
<1>4. StoreInOrder
  <2>1. triples = {}
    BY DEF Init
  <2>2. NodesHere = {}
    BY <1>1, <1>2, <2>1 DEF NodesHere, ObjectNodes
  <2>3. IsFiniteSet(triples)
    BY <2>1, FS_EmptySet
  <2>. QED  BY <2>1, <2>2, <2>3 DEF StoreInOrder, AreNodes, InOrder, SingleValued, NoneLost
<1>. QED  BY <1>3, <1>4, StoredObjectsConstants DEF Init, Inv, Bounded, StoredLive, AskedAreSettled

\* The client changes its objects.
LEMMA ChangeKeeps ==
  ASSUME Inv, Edit, UNCHANGED <<triples, nodeOf>>, IsGrove(objects'), SameLives(objects, objects')
  PROVE  Inv'
<1>1. Living(objects') = Living(objects) /\ \A o \in Object : objects'[o].uri = objects[o].uri
  BY DEF SameLives, Living
<1>2. ObjectsInOrder'
  BY <1>1 DEF Inv, ObjectsInOrder, Edit, NodesFit, UrisAreNodes
<1>3. NodesHere' = NodesHere
  BY <1>1 DEF NodesHere, ObjectNodes
<1>4. StoreInOrder'
  BY <1>3 DEF Inv, StoreInOrder, Edit
<1>5. Bounded'
  BY StoredObjectsConstants DEF Inv, Bounded, Edit
<1>. QED  BY <1>2, <1>4, <1>5 DEF Inv, Edit, StoredLive, AskedAreSettled

LEMMA SetPropertyKeeps ==
  ASSUME Inv, SetProperty
  PROVE  Inv'
<1>1. PICK o \in Living(objects) :
        \/ \E lit \in Literals : objects' = [objects EXCEPT ![o].lit = lit]
        \/ \E p \in Living(objects) \cup {Null} : objects' = [objects EXCEPT ![o].ref = p]
        \/ \E list \in Lists : /\ \A v \in ToSet(list) : IsObject(v) => objects[v[2]].alive
                               /\ objects' = [objects EXCEPT ![o].list = list]
  BY DEF SetProperty
<1>2. IsGrove(objects)
  BY DEF Inv, ObjectsInOrder
<1>3. IsGrove(objects') /\ SameLives(objects, objects')
  <2>1. ASSUME NEW lit, objects' = [objects EXCEPT ![o].lit = lit]
        PROVE  IsGrove(objects') /\ SameLives(objects, objects')
    BY <1>2, <2>1, LitInGrove
  <2>2. ASSUME NEW p \in Living(objects) \cup {Null}, objects' = [objects EXCEPT ![o].ref = p]
        PROVE  IsGrove(objects') /\ SameLives(objects, objects')
    BY <1>2, <2>2, RefInGrove
  <2>3. ASSUME NEW list \in Lists, \A v \in ToSet(list) : IsObject(v) => objects[v[2]].alive,
               objects' = [objects EXCEPT ![o].list = list]
        PROVE  IsGrove(objects') /\ SameLives(objects, objects')
    <3>1. IsList(list)
      BY StoredObjectsConstants
    <3>2. \A x \in Object : ToObject(x) \in ToSet(list) => x \in Living(objects)
      BY <2>3 DEF IsObject, ToObject, Living
    <3>. QED  BY <1>2, <2>3, <3>1, <3>2, ListInGrove
  <2>. QED  BY <1>1, <2>1, <2>2, <2>3
<1>. QED  BY <1>3, ChangeKeeps DEF SetProperty

LEMMA ReparentKeeps ==
  ASSUME Inv, Reparent
  PROVE  Inv'
<1>1. PICK o \in Living(objects), p \in Living(objects) \cup {Null} : objects' = SetParent(objects, o, p)
  BY DEF Reparent
<1>2. IsGrove(objects)
  BY DEF Inv, ObjectsInOrder
<1>3. IsGrove(objects') /\ SameLives(objects, objects')
  BY <1>1, <1>2, SetParentKeepsForest
<1>. QED  BY <1>3, ChangeKeeps DEF Reparent

LEMMA DeadHaveNoUri ==
  ASSUME NEW O, IsGrove(O), NEW o \in Object, o \notin Living(O)
  PROVE  O[o].uri = Nothing
BY DEF IsGrove, IsForest, Dead

LEMMA DestroyKeeps ==
  ASSUME Inv, Destroy
  PROVE  Inv'
<1>1. PICK o \in Living(objects) :
        /\ objects' = Delete(objects, o)
        /\ nodeOf' = [p \in Object |-> IF p \in Family(objects, o) THEN Nothing ELSE nodeOf[p]]
  BY DEF Destroy
<1>. DEFINE gone == Family(objects, o)
<1>2. IsGrove(objects) /\ o \in Object
  BY DEF Inv, ObjectsInOrder, Living
<1>3. /\ IsGrove(objects') /\ Living(objects') = Living(objects) \ gone
      /\ \A x \in Living(objects) \ gone : objects'[x].uri = objects[x].uri
  BY <1>1, <1>2, DeleteLeaves, DeleteKeepsForest DEF IsGrove
<1>4. /\ nodeOf' = [p \in Object |-> nodeOf'[p]]
      /\ \A p \in Object : nodeOf'[p] = IF p \in gone THEN Nothing ELSE nodeOf[p]
  BY <1>1
<1>. HIDE DEF gone
<1>5. \A p \in Object : objects'[p].uri = objects[p].uri \/ objects'[p].uri = Nothing
  <2>. TAKE p \in Object
  <2>1. CASE p \in Living(objects')
    BY <1>3, <2>1
  <2>2. CASE p \notin Living(objects')
    BY <1>3, <2>2, DeadHaveNoUri
  <2>. QED  BY <2>1, <2>2
<1>6. NodesFit(objects, nodeOf) /\ UNCHANGED <<triples, policy, keeps, outcome>>
  BY DEF Inv, ObjectsInOrder, Destroy, Edit
<1>7. NodesFit(objects', nodeOf')
  BY <1>3, <1>4, <1>6 DEF NodesFit
<1>8. NoNodeIsShared(nodeOf) => NoNodeIsShared(nodeOf')
  BY <1>4 DEF NoNodeIsShared
<1>9. UrisAreNodes(objects, nodeOf) => UrisAreNodes(objects', nodeOf')
  <2>. SUFFICES ASSUME UrisAreNodes(objects, nodeOf), NEW p \in Object, objects'[p].uri # Nothing
                PROVE  nodeOf'[p] = objects'[p].uri
    BY DEF UrisAreNodes
  <2>1. p \in Living(objects')
    BY <1>3, DeadHaveNoUri
  <2>. QED  BY <1>3, <1>4, <2>1 DEF UrisAreNodes
<1>10. ObjectsInOrder'
  BY <1>3, <1>4, <1>6, <1>7, <1>8, <1>9 DEF Inv, ObjectsInOrder
<1>11. StoreInOrder'
  <2>1. AreNodes(NodesHere, policy.bp) /\ InOrder(triples, NodesHere, policy.bp, {})
    BY DEF Inv, StoreInOrder
  <2>2. /\ Nothing \notin NodesHere
        /\ \A p \in Object : (nodeOf'[p] # Nothing => nodeOf'[p] \in NodesHere)
                             /\ (objects'[p].uri # Nothing => objects'[p].uri \in NodesHere)
    BY <1>4, <1>5 DEF NodesHere, ObjectNodes
  <2>. DEFINE N == NodesHere
              bp == policy.bp
  <2>. HIDE DEF N, bp
  <2>3. AreNodes(ObjectNodes(triples, nodeOf', objects'), bp)
        /\ InOrder(triples, ObjectNodes(triples, nodeOf', objects'), bp, {})
    BY <2>1, <2>2, StaysInOrder DEF N, bp
  <2>. QED  BY <1>6, <2>3 DEF StoreInOrder, NodesHere, bp
<1>12. Bounded'
  BY StoredObjectsConstants DEF Inv, Bounded, Edit, Destroy
<1>. QED  BY <1>10, <1>11, <1>12 DEF Inv, Edit, Destroy, StoredLive, AskedAreSettled

\* Others change the store.
LEMMA OthersKeep ==
  ASSUME Inv, Edit, UNCHANGED <<objects, nodeOf>>, InOrder(triples', NodesHere, policy.bp, {})
  PROVE  Inv'
<1>1. ObjectsInOrder'
  BY DEF Inv, ObjectsInOrder, Edit
<1>2. StoreInOrder'
  <2>1. /\ Nothing \notin NodesHere /\ AreNodes(NodesHere, policy.bp)
        /\ \A p \in Object : (nodeOf[p] # Nothing => nodeOf[p] \in NodesHere)
                             /\ (objects[p].uri # Nothing => objects[p].uri \in NodesHere)
    BY DEF Inv, StoreInOrder, NodesHere, ObjectNodes
  <2>. DEFINE N == NodesHere
              bp == policy.bp
  <2>. HIDE DEF N, bp
  <2>2. AreNodes(ObjectNodes(triples', nodeOf, objects), bp)
        /\ InOrder(triples', ObjectNodes(triples', nodeOf, objects), bp, {})
    BY <2>1, StaysInOrder DEF N, bp
  <2>. QED  BY <2>2 DEF Edit, StoreInOrder, NodesHere, bp
<1>3. Bounded'
  BY StoredObjectsConstants DEF Inv, Bounded, Edit
<1>. QED  BY <1>1, <1>2, <1>3 DEF Inv, Edit, StoredLive, AskedAreSettled

LEMMA OneReplaced ==
  ASSUME NEW T, NEW N, NEW bp, InOrder(T, N, bp, {}), AreNodes(N, bp), NEW n \in N, NEW p, p \notin {"list", "rest"},
         NEW v, Fits(<<n, p, v>>, N, bp)
  PROVE  InOrder(ReplaceOne(T, n, p, v), N, bp, {})
<1>. DEFINE D == T \ Match(T, n, p)
<1>1. InOrder(D, N, bp, {})
  BY DroppedInOrder
<1>2. Match(D, n, p) = {}
  BY DEF Match
<1>3. ReplaceOne(T, n, p, v) = D \cup {<<n, p, v>>}
  BY DEF ReplaceOne
<1>. HIDE DEF D
<1>4. InOrder(D \cup {<<n, p, v>>}, N, bp, {} \ {v})
  <2>1. Match(D, n, p) \subseteq {<<n, p, v>>}
    BY <1>2
  <2>. QED  BY <1>1, <2>1, OneMoreInOrder
<1>5. {} \ {v} = {}
  OBVIOUS
<1>. QED  BY <1>3, <1>4, <1>5

LEMMA SomeoneWritesKeeps ==
  ASSUME Inv, SomeoneSetsLiteral \/ SomeoneChangesType \/ SomeoneRemovesObject
  PROVE  Inv'
<1>1. Typed(triples) \subseteq NodesHere
  BY TypedAreNodes DEF Inv, StoreInOrder, NodesHere
<1>2. AreNodes(NodesHere, policy.bp) /\ InOrder(triples, NodesHere, policy.bp, {})
  BY DEF Inv, StoreInOrder
<1>3. InOrder(triples', NodesHere, policy.bp, {})
  <2>. DEFINE N == NodesHere
              bp == policy.bp
              T == triples
  <2>. HIDE DEF N, bp, T
  <2>0. InOrder(T, N, bp, {}) /\ AreNodes(N, bp)
    BY <1>2 DEF N, bp, T
  <2>1. ASSUME NEW n \in N, NEW lit PROVE InOrder(ReplaceOne(T, n, "lit", <<"literal", lit>>), N, bp, {})
    <3>1. Fits(<<n, "lit", <<"literal", lit>>>>, N, bp)
      BY DEF Fits, Predicates, Cells, IsBlank
    <3>. QED  BY <2>0, <3>1, OneReplaced
  <2>2. ASSUME NEW n \in N PROVE InOrder(ReplaceOne(T, n, "type", UnknownType), N, bp, {})
    <3>1. Fits(<<n, "type", UnknownType>>, N, bp)
      BY DEF Fits, Predicates, Cells, IsBlank, UnknownType
    <3>. QED  BY <2>0, <3>1, OneReplaced
  <2>3. ASSUME NEW n \in N PROVE InOrder(RemoveObject(T, n), N, bp, {})
    BY <2>0, <2>3, ObjectRemovedInOrder
  <2>4. \/ \E n \in N, lit \in Literals : triples' = ReplaceOne(T, n, "lit", <<"literal", lit>>)
        \/ \E n \in N : triples' = ReplaceOne(T, n, "type", UnknownType)
        \/ \E n \in N : triples' = RemoveObject(T, n)
    BY <1>1 DEF SomeoneSetsLiteral, SomeoneChangesType, SomeoneRemovesObject, N, T
  <2>5. InOrder(triples', N, bp, {})
    BY <2>1, <2>2, <2>3, <2>4
  <2>. QED  BY <2>5 DEF N, bp
<1>. QED  BY <1>3, OthersKeep DEF SomeoneSetsLiteral, SomeoneChangesType, SomeoneRemovesObject

-------------------------------------------------------------------------------
(* The client stores objects.                                                    *)

LEMMA StorerStateFields ==
  ASSUME NEW map
  PROVE  LET s == StorerState(map)
         IN  /\ DOMAIN s = StorerFields /\ s.T = triples /\ s.O = objects /\ s.map = map /\ s.used = {}
             /\ s.bp = policy.bp /\ s.fp = policy.fp /\ s.psp = policy.psp
BY DEF StorerState, StorerFields

\* The call begins with the client's map, or with none.
LEMMA BeginsInOrder ==
  ASSUME Inv, NEW map, map = nodeOf \/ map = NoNodes
  PROVE  Stage(StorerState(map), {}) /\ NodesFit(objects, map)
<1>. DEFINE s == StorerState(map)
<1>1. /\ DOMAIN s = StorerFields /\ s.T = triples /\ s.O = objects /\ s.map = map /\ s.used = {}
      /\ s.bp = policy.bp
  BY StorerStateFields
<1>. HIDE DEF s
<1>2. map = [o \in Object |-> map[o]] /\ NodesFit(objects, map)
      /\ \A o \in Object : map[o] = nodeOf[o] \/ map[o] = Nothing
  BY DEF Inv, ObjectsInOrder, NoNodes, NodesFit
<1>3. AreNodes(Nodes(s), s.bp) /\ InOrder(s.T, Nodes(s), s.bp, {})
  <2>1. AreNodes(NodesHere, policy.bp) /\ InOrder(triples, NodesHere, policy.bp, {})
    BY DEF Inv, StoreInOrder
  <2>2. /\ Nothing \notin NodesHere
        /\ \A p \in Object : (map[p] # Nothing => map[p] \in NodesHere)
                             /\ (objects[p].uri # Nothing => objects[p].uri \in NodesHere)
    BY <1>2 DEF NodesHere, ObjectNodes
  <2>. DEFINE N == NodesHere
              bp == policy.bp
  <2>. HIDE DEF N, bp
  <2>3. AreNodes(ObjectNodes(triples, map, objects), bp)
        /\ InOrder(triples, ObjectNodes(triples, map, objects), bp, {})
    BY <2>1, <2>2, StaysInOrder DEF N, bp
  <2>. QED  BY <1>1, <2>3 DEF Nodes, bp
<1>4. IsStorerCall(s)
  <2>1. IsGrove(objects) /\ IsFiniteSet(triples)
    BY DEF Inv, ObjectsInOrder, StoreInOrder, InOrder
  <2>. QED  BY <1>1, <1>2, <2>1, FS_EmptySet DEF IsStorerCall
<1>. QED  BY <1>2, <1>3, <1>4 DEF Stage, s

\* What a call that stores is to the client.
LEMMA StoreInParts ==
  ASSUME StoreObjects
  PROVE  \E order \in Orders :
           LET s == StorerState(IF keeps THEN nodeOf ELSE NoNodes)
               call == Store(s, Ordered(asked', order), order)
           IN  /\ asked' \in SUBSET Living(objects)
               /\ triples' = call.s.T /\ objects' = call.s.O /\ nodeOf' = call.s.map
               /\ stored' = call.stored
<1>1. PICK requested \in Requests(Living(objects)), order \in Orders :
        LET call == Store(StorerState(IF keeps THEN nodeOf ELSE NoNodes), Ordered(requested, order), order)
        IN  /\ triples' = call.s.T /\ objects' = call.s.O /\ nodeOf' = call.s.map
            /\ asked' = requested /\ stored' = call.stored
  BY DEF StoreObjects
<1>2. requested \in SUBSET Living(objects)
  BY DEF Requests
<1>. QED  BY <1>1, <1>2

\* What a call of store from s for the requested objects has done, when it ends as call.
HasStored(s, call, requested) ==
    /\ Stage(call.s, {}) /\ call.s.bp = s.bp /\ call.s.fp = s.fp /\ call.s.psp = s.psp
    /\ call.s.used = s.used
    /\ SameValues(s.O, call.s.O)
    /\ NodesFit(s.O, s.map) => NodesFit(call.s.O, call.s.map)
    /\ NoNodeIsShared(s.map) /\ UrisAreNodes(s.O, s.map)
         => NoNodeIsShared(call.s.map) /\ UrisAreNodes(call.s.O, call.s.map)
    /\ requested \subseteq call.stored /\ call.stored \subseteq Living(s.O)
    /\ \A o \in Object : s.map[o] # Nothing => call.s.map[o] = s.map[o]
    /\ NoNodeIsShared(s.map) /\ UrisAreNodes(s.O, s.map) =>
         \A o \in Object : s.map[o] # Nothing /\ ~IsBlank(s.map[o]) /\ o \notin requested
                             => About(call.s.T, s.map[o]) = About(s.T, s.map[o])
    /\ \E V \in SUBSET Living(s.O) :
         requested \subseteq V /\ IsClosed(call.s, V) /\ \A o \in V : call.s.map[o] # Nothing
    /\ s.bp # "PermitBlankObjectNodes" /\ NoNodeIsShared(s.map) /\ UrisAreNodes(s.O, s.map)
         => \A o \in requested : Settled(call.s.T, call.s, o)

LEMMA CallHasStored ==
  ASSUME NEW s, Stage(s, {}), NEW requested \in SUBSET Living(s.O), NEW order
  PROVE  HasStored(s, Store(s, Ordered(requested, order), order), requested)
<1>. DEFINE call == Store(s, Ordered(requested, order), order)
            r == call.s
<1>1. /\ Stage(r, {}) /\ r.bp = s.bp /\ r.fp = s.fp /\ r.psp = s.psp /\ r.used = s.used
      /\ SameValues(s.O, r.O)
      /\ NodesFit(s.O, s.map) => NodesFit(r.O, r.map)
      /\ NoNodeIsShared(s.map) /\ UrisAreNodes(s.O, s.map)
           => NoNodeIsShared(r.map) /\ UrisAreNodes(r.O, r.map)
      /\ requested \subseteq call.stored /\ call.stored \subseteq Living(s.O)
      /\ \A o \in Object : s.map[o] # Nothing => r.map[o] = s.map[o]
      /\ NoNodeIsShared(s.map) /\ UrisAreNodes(s.O, s.map) =>
           \A o \in Object : s.map[o] # Nothing /\ ~IsBlank(s.map[o]) /\ o \notin requested
                               => About(r.T, s.map[o]) = About(s.T, s.map[o])
      /\ \E V \in SUBSET Living(s.O) :
           requested \subseteq V /\ IsClosed(r, V) /\ \A o \in V : r.map[o] # Nothing
      /\ s.bp # "PermitBlankObjectNodes" /\ NoNodeIsShared(s.map) /\ UrisAreNodes(s.O, s.map)
           => \A o \in requested : Settled(r.T, r, o)
  BY CallStores
<1>2. HasStored(s, call, requested)
  <2>. HIDE DEF call
  <2>. QED  BY <1>1 DEF HasStored
<1>. QED  BY <1>2

LEMMA StoreKeeps ==
  ASSUME Inv, StoreObjects
  PROVE  Inv'
<1>. DEFINE map == IF keeps THEN nodeOf ELSE NoNodes
            s == StorerState(map)
<1>1. /\ UNCHANGED <<policy, keeps, edits, outcome>> /\ outcome = "returns"
      /\ calls < MaxCalls /\ calls' = calls + 1
  BY DEF StoreObjects, Call
<1>2. PICK order \in Orders :
        /\ asked' \in SUBSET Living(objects)
        /\ triples' = Store(s, Ordered(asked', order), order).s.T
        /\ objects' = Store(s, Ordered(asked', order), order).s.O
        /\ nodeOf' = Store(s, Ordered(asked', order), order).s.map
        /\ stored' = Store(s, Ordered(asked', order), order).stored
  BY StoreInParts
<1>. DEFINE requested == asked'
            call == Store(s, Ordered(requested, order), order)
            r == call.s
<1>3. /\ s.T = triples /\ s.O = objects /\ s.map = map /\ s.used = {}
      /\ s.bp = policy.bp /\ s.fp = policy.fp /\ s.psp = policy.psp
  BY StorerStateFields
<1>4. Stage(s, {}) /\ NodesFit(s.O, s.map)
  <2>1. map = nodeOf \/ map = NoNodes
    OBVIOUS
  <2>. HIDE DEF map
  <2>. QED  BY <1>3, <2>1, BeginsInOrder
<1>5. keeps => NoNodeIsShared(s.map) /\ UrisAreNodes(s.O, s.map) /\ s.map = nodeOf
  BY <1>1, <1>3 DEF Inv, ObjectsInOrder
<1>. HIDE DEF s, map
<1>6. requested \in SUBSET Living(s.O)
  BY <1>2, <1>3
<1>. DEFINE S == requested
<1>7. /\ Stage(r, {}) /\ r.bp = s.bp /\ r.fp = s.fp /\ r.psp = s.psp /\ r.used = s.used
      /\ SameValues(s.O, r.O)
      /\ NodesFit(s.O, s.map) => NodesFit(r.O, r.map)
      /\ NoNodeIsShared(s.map) /\ UrisAreNodes(s.O, s.map)
           => NoNodeIsShared(r.map) /\ UrisAreNodes(r.O, r.map)
      /\ S \subseteq call.stored /\ call.stored \subseteq Living(s.O)
      /\ \E V \in SUBSET Living(s.O) :
           S \subseteq V /\ IsClosed(r, V) /\ \A o \in V : r.map[o] # Nothing
      /\ s.bp # "PermitBlankObjectNodes" /\ NoNodeIsShared(s.map) /\ UrisAreNodes(s.O, s.map)
           => \A o \in S : Settled(r.T, r, o)
  <2>1. S \in SUBSET Living(s.O)
    BY <1>6
  <2>. HIDE DEF S
  <2>2. HasStored(s, Store(s, Ordered(S, order), order), S)
    BY <1>4, <2>1, CallHasStored
  <2>3. call = Store(s, Ordered(S, order), order)
    BY DEF call, S
  <2>. HIDE DEF call
  <2>4. HasStored(s, call, S)
    BY <2>2, <2>3
  <2>. QED  BY <2>4 DEF HasStored
<1>8. triples' = r.T /\ objects' = r.O /\ nodeOf' = r.map /\ stored' = call.stored
  BY <1>2
<1>. HIDE DEF r, call
<1>9. ObjectsInOrder'
  <2>1. IsGrove(r.O) /\ r.map = [o \in Object |-> r.map[o]]
    BY <1>7 DEF Stage, IsStorerCall
  <2>. QED  BY <1>1, <1>4, <1>5, <1>7, <1>8, <2>1 DEF ObjectsInOrder
<1>10. StoreInOrder'
  <2>1. Nodes(r) = NodesHere'
    BY <1>8 DEF Nodes, NodesHere
  <2>2. policy'.bp = r.bp
    BY <1>1, <1>3, <1>7
  <2>. QED  BY <1>7, <1>8, <2>1, <2>2 DEF Stage, StoreInOrder
<1>11. Bounded'
  BY <1>1, StoredObjectsConstants DEF Inv, Bounded
<1>12. Living(objects') = Living(objects)
  BY <1>3, <1>7, <1>8 DEF SameValues
<1>13. StoredLive'
  BY <1>3, <1>7, <1>8, <1>12 DEF StoredLive
<1>14. AskedAreSettled'
  <2>. SUFFICES ASSUME keeps', policy'.bp # "PermitBlankObjectNodes"
                PROVE  /\ asked' \subseteq Living(objects')
                       /\ \E V \in SUBSET Living(objects') :
                             asked' \subseteq V /\ IsClosed(StorerState(nodeOf)', V) /\ \A o \in V : nodeOf'[o] # Nothing
                       /\ \A o \in asked' : Settled(triples', StorerState(nodeOf)', o)
    BY DEF AskedAreSettled
  <2>. DEFINE x == StorerState(nodeOf)'
  <2>1. /\ DOMAIN x = StorerFields /\ x.T = triples' /\ x.O = objects' /\ x.map = nodeOf' /\ x.used = {}
        /\ x.bp = policy'.bp /\ x.fp = policy'.fp /\ x.psp = policy'.psp
    BY DEF StorerState, StorerFields
  <2>. HIDE DEF x
  <2>2. SameButTriples(r, x)
    BY <1>1, <1>3, <1>7, <1>8, <2>1 DEF SameButTriples
  <2>3. \A V : IsClosed(r, V) => IsClosed(x, V)
    <3>1. r.fp = x.fp /\ r.O = x.O
      BY <2>2 DEF SameButTriples
    <3>. QED  BY <3>1 DEF IsClosed, RelatedTo, RelativesOf, PropertiesOf
  <2>4. \A o : Settled(r.T, r, o) => Settled(r.T, x, o)
    BY <2>2, SameSettled
  <2>5. keeps /\ s.bp # "PermitBlankObjectNodes"
    BY <1>1, <1>3
  <2>6. \A o \in S : Settled(r.T, r, o)
    BY <1>5, <1>7, <2>5
  <2>7. PICK V \in SUBSET Living(s.O) : S \subseteq V /\ IsClosed(r, V) /\ \A o \in V : r.map[o] # Nothing
    BY <1>7
  <2>8. V \in SUBSET Living(objects') /\ asked' \subseteq V /\ IsClosed(x, V) /\ \A o \in V : nodeOf'[o] # Nothing
    BY <1>3, <1>8, <1>12, <2>3, <2>7
  <2>9. \A o \in asked' : Settled(triples', x, o)
    BY <1>8, <2>4, <2>6
  <2>. QED  BY <1>2, <1>12, <2>8, <2>9 DEF x
<1>. QED  BY <1>9, <1>10, <1>11, <1>13, <1>14 DEF Inv

-------------------------------------------------------------------------------
(* Loading.                                                                      *)

\* The map that the client passes: each node that an object has, with one of the
\* objects that have it.
LEMMA NodesHaveObjects ==
  ASSUME Inv
  PROVE  /\ DOMAIN ObjectOfNode = {nodeOf[o] : o \in Object} \ {Nothing}
         /\ IsFiniteSet(DOMAIN ObjectOfNode)
         /\ \A n \in DOMAIN ObjectOfNode :
              /\ n # Nothing /\ ObjectOfNode[n] \in Living(objects) /\ nodeOf[ObjectOfNode[n]] = n
              /\ IsUri(n) => objects[ObjectOfNode[n]].uri = n
              /\ \A m \in DOMAIN ObjectOfNode : ObjectOfNode[m] = ObjectOfNode[n] => m = n
<1>. DEFINE N == {nodeOf[o] : o \in Object} \ {Nothing}
<1>1. DOMAIN ObjectOfNode = N /\ \A n \in N : ObjectOfNode[n] = CHOOSE o \in Object : nodeOf[o] = n
  BY DEF ObjectOfNode
<1>2. IsFiniteSet({nodeOf[o] : o \in Object})
  BY ObjectsAreFinite, FiniteImage
<1>3. IsFiniteSet(N)
  BY <1>2, FS_Subset
<1>4. ASSUME NEW n \in N PROVE ObjectOfNode[n] \in Object /\ nodeOf[ObjectOfNode[n]] = n
  <2>1. \E o \in Object : nodeOf[o] = n
    OBVIOUS
  <2>2. ObjectOfNode[n] = CHOOSE o \in Object : nodeOf[o] = n
    BY <1>1
  <2>. QED  BY <2>1, <2>2
<1>5. NodesFit(objects, nodeOf)
  BY DEF Inv, ObjectsInOrder
<1>6. \A n \in N : n # Nothing
  OBVIOUS
<1>. HIDE DEF N
<1>7. ASSUME NEW n \in N
      PROVE  /\ ObjectOfNode[n] \in Living(objects)
             /\ IsUri(n) => objects[ObjectOfNode[n]].uri = n
             /\ \A m \in N : ObjectOfNode[m] = ObjectOfNode[n] => m = n
  <2>1. ObjectOfNode[n] \in Object /\ nodeOf[ObjectOfNode[n]] = n /\ n # Nothing
    BY <1>4, <1>6
  <2>2. \A m \in N : nodeOf[ObjectOfNode[m]] = m
    BY <1>4
  <2>. QED  BY <1>5, <2>1, <2>2 DEF NodesFit
<1>. QED  BY <1>1, <1>3, <1>4, <1>6, <1>7 DEF N

\* A call for some nodes, from where the client is.
LEMMA ReloadIsCall ==
  ASSUME Inv, NEW requested \in SUBSET (Typed(triples) \cup DOMAIN ObjectOfNode), NEW order
  PROVE  LET q == LoaderState(objects, ObjectOfNode)
             seq == Ordered(requested, order)
         IN  /\ IsSequence(seq) /\ ToSet(seq) = requested
             /\ IsLoaderCall(LoadNodes(q, seq, order), q) /\ IsLoaderCall(q, q)
             /\ q.T = triples /\ q.O = objects /\ q.map = ObjectOfNode /\ q.gone = {}
             /\ q.toPopulate = {} /\ q.ap = policy.ap
<1>. DEFINE q == LoaderState(objects, ObjectOfNode)
            seq == Ordered(requested, order)
<1>1. IsFiniteSet(triples) /\ IsGrove(objects) /\ InOrder(triples, ObjectNodes(triples, nodeOf, objects), policy.bp, {})
  BY DEF Inv, ObjectsInOrder, StoreInOrder, NodesHere, InOrder
<1>2. Nothing \notin Typed(triples)
  <2>. DEFINE bp == policy.bp
              map == nodeOf
  <2>1. InOrder(triples, ObjectNodes(triples, map, objects), bp, {})
    BY <1>1
  <2>. HIDE DEF bp, map
  <2>. QED  BY <2>1, TypedAreNodes
<1>3. IsSequence(seq) /\ ToSet(seq) = requested
  <2>1. IsFiniteSet(Typed(triples)) /\ IsFiniteSet(DOMAIN ObjectOfNode)
    BY <1>1, TypedAreFinite, NodesHaveObjects
  <2>2. IsFiniteSet(requested)
    BY <2>1, FS_Union, FS_Subset
  <2>3. seq \in Seq(requested) /\ ToSet(seq) = requested
    BY <2>2, OrderedIsSequence
  <2>. QED  BY <2>3 DEF IsSequence
<1>4. IsLoaderCall(q, q) /\ q.T = triples /\ q.O = objects /\ q.map = ObjectOfNode /\ q.gone = {}
  <2>. DEFINE map == ObjectOfNode
  <2>1. \A n \in DOMAIN map :
          /\ n # Nothing /\ map[n] \in Living(objects)
          /\ IsUri(n) => objects[map[n]].uri = n
          /\ \A m \in DOMAIN map : map[m] = map[n] => m = n
    BY NodesHaveObjects
  <2>. HIDE DEF map
  <2>2. IsFiniteSet(triples) /\ Nothing \notin Typed(triples) /\ IsGrove(objects)
    BY <1>1, <1>2
  <2>3. LET x == Start(triples, objects, map, policy.fp, policy.ap, TRUE)
        IN  IsLoaderCall(x, x) /\ x.T = triples /\ x.O = objects /\ x.map = map /\ x.gone = {}
    BY <2>1, <2>2, StartIsCall
  <2>. QED  BY <2>3 DEF LoaderState, map
<1>5. q.toPopulate = {} /\ q.ap = policy.ap
  BY DEF LoaderState, Start
<1>. HIDE DEF q, seq
<1>6. IsLoaderCall(LoadNodes(q, seq, order), q)
  BY <1>3, <1>4, LoadNodesKeeps
<1>. QED  BY <1>3, <1>4, <1>5, <1>6 DEF q, seq

\* The map of nodes that the client gets back from one of objects.
LEMMA NodesInMap ==
  ASSUME NEW r, NEW q, IsLoaderCall(r, q)
  PROVE  LET map == NodesIn(r.map)
         IN  /\ map = [o \in Object |-> map[o]]
             /\ NodesFit(r.O, map) /\ NoNodeIsShared(map)
             /\ \A o \in Object : map[o] # Nothing => Value(r.map, map[o]) = o
             /\ \A o \in Object : \A n : Value(r.map, n) = o => map[o] = n
             /\ UrisAreMapped(r) => UrisAreNodes(r.O, map)
<1>. DEFINE map == NodesIn(r.map)
<1>1. map = [o \in Object |-> map[o]]
  BY DEF NodesIn
<1>2. ASSUME NEW o \in Object
      PROVE  map[o] = IF \E n \in DOMAIN r.map : r.map[n] = o
                      THEN CHOOSE n \in DOMAIN r.map : r.map[n] = o ELSE Nothing
  BY DEF NodesIn
<1>. HIDE DEF map
<1>3. ASSUME NEW o \in Object, map[o] # Nothing
      PROVE  Value(r.map, map[o]) = o /\ o # Null
  <2>1. \E n \in DOMAIN r.map : r.map[n] = o
    BY <1>2, <1>3
  <2>2. map[o] \in DOMAIN r.map /\ r.map[map[o]] = o
    BY <1>2, <2>1
  <2>. QED  BY <2>2 DEF Value, Object, Null
<1>4. ASSUME NEW o \in Object, NEW n, Value(r.map, n) = o
      PROVE  map[o] = n
  <2>1. n \in DOMAIN r.map /\ r.map[n] = o
    BY <1>4 DEF Value, Object, Null
  <2>2. map[o] \in DOMAIN r.map /\ r.map[map[o]] = o
    BY <1>2, <2>1
  <2>3. Value(r.map, n) # Null /\ Value(r.map, map[o]) = Value(r.map, n)
    BY <1>4, <2>2 DEF Value, Object, Null
  <2>. QED  BY <2>3 DEF IsLoaderCall
<1>5. NodesFit(r.O, map)
  <2>. SUFFICES ASSUME NEW o \in Object, map[o] # Nothing
                PROVE  o \in Living(r.O) /\ (IsUri(map[o]) => r.O[o].uri = map[o])
    BY DEF NodesFit
  <2>1. Value(r.map, map[o]) = o /\ o # Null
    BY <1>3
  <2>2. IsMapping(r, q, map[o])
    BY <2>1 DEF IsLoaderCall
  <2>. QED  BY <2>1, <2>2 DEF IsMapping
<1>6. NoNodeIsShared(map)
  BY <1>3 DEF NoNodeIsShared
<1>7. UrisAreMapped(r) => UrisAreNodes(r.O, map)
  <2>. SUFFICES ASSUME UrisAreMapped(r), NEW o \in Object, r.O[o].uri # Nothing
                PROVE  map[o] = r.O[o].uri
    BY DEF UrisAreNodes
  <2>1. o \in Living(r.O)
    BY DeadHaveNoUri DEF IsLoaderCall
  <2>2. Value(r.map, r.O[o].uri) = o
    BY <2>1 DEF UrisAreMapped
  <2>. QED  BY <1>4, <2>2
<1>. QED  BY <1>1, <1>3, <1>4, <1>5, <1>6, <1>7 DEF map

\* What the call loads, and what the client is left with.
LEMMA ReloadInParts ==
  ASSUME Reload
  PROVE  \E requested \in SUBSET (Typed(triples) \cup DOMAIN ObjectOfNode), order \in Orders :
           LET r == LoadNodes(LoaderState(objects, ObjectOfNode), Ordered(requested, order), order)
           IN  /\ objects' = r.O /\ outcome' = r.outcome /\ loaded' = requested
               /\ nodeOf' = IF Going(r) THEN NodesIn(r.map)
                            ELSE [o \in Object |-> IF o \in Living(r.O) \ r.gone THEN nodeOf[o] ELSE Nothing]
<1>. DEFINE q == LoaderState(objects, ObjectOfNode)
            S == Typed(triples) \cup DOMAIN ObjectOfNode
<1>1. PICK requested \in Requests(S), order \in Orders :
        \E r \in {LoadNodes(q, Ordered(requested, order), order)} :
          /\ objects' = r.O /\ outcome' = r.outcome /\ loaded' = requested
          /\ nodeOf' = IF Going(r) THEN NodesIn(r.map)
                       ELSE [o \in Object |-> IF o \in Living(r.O) \ r.gone THEN nodeOf[o] ELSE Nothing]
  BY DEF Reload
<1>2. requested \in SUBSET S
  <2>. HIDE DEF S
  <2>. QED  BY DEF Requests
<1>. HIDE DEF q, S
<1>3. LET r == LoadNodes(q, Ordered(requested, order), order)
      IN  /\ objects' = r.O /\ outcome' = r.outcome /\ loaded' = requested
          /\ nodeOf' = IF Going(r) THEN NodesIn(r.map)
                       ELSE [o \in Object |-> IF o \in Living(r.O) \ r.gone THEN nodeOf[o] ELSE Nothing]
  BY <1>1
<1>. QED  BY <1>2, <1>3 DEF q, S

LEMMA ReloadKeeps ==
  ASSUME Inv, Reload
  PROVE  Inv'
<1>. DEFINE q == LoaderState(objects, ObjectOfNode)
<1>1. /\ UNCHANGED <<policy, keeps, edits, triples>> /\ outcome = "returns"
      /\ calls < MaxCalls /\ calls' = calls + 1 /\ asked' = {} /\ stored' = {}
  BY DEF Reload, Call
<1>2. PICK requested \in SUBSET (Typed(triples) \cup DOMAIN ObjectOfNode), order \in Orders :
        LET r == LoadNodes(q, Ordered(requested, order), order)
        IN  /\ objects' = r.O /\ outcome' = r.outcome
            /\ nodeOf' = IF Going(r) THEN NodesIn(r.map)
                         ELSE [o \in Object |-> IF o \in Living(r.O) \ r.gone THEN nodeOf[o] ELSE Nothing]
  BY ReloadInParts
<1>. DEFINE r == LoadNodes(q, Ordered(requested, order), order)
<1>3. IsLoaderCall(r, q) /\ q.T = triples /\ q.O = objects /\ q.map = ObjectOfNode /\ q.gone = {}
  BY ReloadIsCall
<1>4. /\ objects' = r.O /\ outcome' = r.outcome
      /\ nodeOf' = IF Going(r) THEN NodesIn(r.map)
                   ELSE [o \in Object |-> IF o \in Living(r.O) \ r.gone THEN nodeOf[o] ELSE Nothing]
  BY <1>2
<1>. HIDE DEF q, r
<1>5. NodesFit(objects, nodeOf) /\ (keeps => NoNodeIsShared(nodeOf) /\ UrisAreNodes(objects, nodeOf))
  BY <1>1 DEF Inv, ObjectsInOrder
<1>6. IsGrove(objects')
  BY <1>3, <1>4 DEF IsLoaderCall
<1>7. keeps => UrisAreMapped(q)
  <2>. SUFFICES ASSUME keeps, NEW o \in Living(objects), objects[o].uri # Nothing
                PROVE  Value(ObjectOfNode, objects[o].uri) = o
    BY <1>3 DEF UrisAreMapped
  <2>1. o \in Object /\ nodeOf[o] = objects[o].uri
    BY <1>5 DEF UrisAreNodes, Living
  <2>. DEFINE n == objects[o].uri
  <2>2. n \in DOMAIN ObjectOfNode
    BY <2>1, NodesHaveObjects
  <2>3. ObjectOfNode[n] \in Object /\ nodeOf[ObjectOfNode[n]] = nodeOf[o] /\ nodeOf[o] # Nothing
    BY <2>1, <2>2, NodesHaveObjects DEF Living
  <2>4. ObjectOfNode[n] = o
    <3>. HIDE DEF n
    <3>. QED  BY <1>5, <2>1, <2>3 DEF NoNodeIsShared
  <2>. QED  BY <2>2, <2>4 DEF Value
<1>8. ASSUME Going(r)
      PROVE  ObjectsInOrder'
             /\ \A o \in Object : nodeOf'[o] # Nothing => nodeOf'[o] \in Typed(triples) \cup DOMAIN ObjectOfNode
  <2>. DEFINE map == NodesIn(r.map)
  <2>1. /\ map = [o \in Object |-> map[o]]
        /\ NodesFit(r.O, map) /\ NoNodeIsShared(map)
        /\ \A o \in Object : map[o] # Nothing => Value(r.map, map[o]) = o
        /\ UrisAreMapped(r) => UrisAreNodes(r.O, map)
    BY <1>3, NodesInMap
  <2>2. nodeOf' = map
    BY <1>4, <1>8
  <2>. HIDE DEF map
  <2>3. keeps => UrisAreNodes(r.O, map)
    BY <1>3, <1>7, <2>1 DEF IsLoaderCall
  <2>4. ObjectsInOrder'
    BY <1>1, <1>4, <1>6, <2>1, <2>2, <2>3 DEF ObjectsInOrder
  <2>5. \A o \in Object : nodeOf'[o] # Nothing => nodeOf'[o] \in Typed(triples) \cup DOMAIN ObjectOfNode
    <3>. SUFFICES ASSUME NEW o \in Object, map[o] # Nothing
                  PROVE  map[o] \in Typed(triples) \cup DOMAIN ObjectOfNode
      BY <2>2
    <3>1. Value(r.map, map[o]) # Null
      BY <2>1 DEF Object, Null
    <3>2. IsMapping(r, q, map[o])
      BY <1>3, <3>1 DEF IsLoaderCall
    <3>3. map[o] \in Typed(triples) \/ Value(ObjectOfNode, map[o]) # Null
      BY <1>3, <3>2 DEF IsMapping
    <3>4. Value(ObjectOfNode, map[o]) # Null => map[o] \in DOMAIN ObjectOfNode
      BY DEF Value
    <3>. QED  BY <3>3, <3>4
  <2>. QED  BY <2>4, <2>5
<1>9. ASSUME ~Going(r)
      PROVE  ObjectsInOrder'
             /\ \A o \in Object : nodeOf'[o] # Nothing => nodeOf'[o] \in Typed(triples) \cup DOMAIN ObjectOfNode
  <2>1. /\ nodeOf' = [o \in Object |-> nodeOf'[o]]
        /\ \A o \in Object : nodeOf'[o] = IF o \in Living(r.O) \ r.gone THEN nodeOf[o] ELSE Nothing
    BY <1>4, <1>9
  <2>2. NodesFit(objects', nodeOf')
    <3>. SUFFICES ASSUME NEW o \in Object, nodeOf'[o] # Nothing
                  PROVE  o \in Living(r.O) /\ (IsUri(nodeOf[o]) => r.O[o].uri = nodeOf[o]) /\ nodeOf'[o] = nodeOf[o]
      BY <1>4 DEF NodesFit
    <3>1. o \in Living(r.O) \ r.gone /\ nodeOf'[o] = nodeOf[o]
      BY <2>1
    <3>2. o \in Living(objects) /\ (IsUri(nodeOf[o]) => objects[o].uri = nodeOf[o])
      BY <1>5, <3>1 DEF NodesFit
    <3>3. r.O[o].uri = objects[o].uri
      BY <1>3, <3>1, <3>2 DEF IsLoaderCall
    <3>. QED  BY <3>1, <3>2, <3>3
  <2>3. NoNodeIsShared(nodeOf) => NoNodeIsShared(nodeOf')
    BY <2>1 DEF NoNodeIsShared
  <2>4. outcome' # "returns"
    BY <1>4, <1>9 DEF Going
  <2>5. ObjectsInOrder'
    BY <1>1, <1>5, <1>6, <2>1, <2>2, <2>3, <2>4 DEF ObjectsInOrder
  <2>6. \A o \in Object : nodeOf'[o] # Nothing => nodeOf'[o] \in Typed(triples) \cup DOMAIN ObjectOfNode
    <3>1. DOMAIN ObjectOfNode = {nodeOf[o] : o \in Object} \ {Nothing}
      BY NodesHaveObjects
    <3>2. \A o \in Object : nodeOf'[o] = nodeOf[o] \/ nodeOf'[o] = Nothing
      BY <2>1
    <3>. HIDE DEF ObjectOfNode
    <3>. QED  BY <3>1, <3>2
  <2>. QED  BY <2>5, <2>6
<1>10. ObjectsInOrder' /\ \A o \in Object : nodeOf'[o] # Nothing => nodeOf'[o] \in Typed(triples) \cup DOMAIN ObjectOfNode
  BY <1>8, <1>9
<1>11. StoreInOrder'
  <2>1. AreNodes(NodesHere, policy.bp) /\ InOrder(triples, NodesHere, policy.bp, {})
    BY DEF Inv, StoreInOrder
  <2>2. Nothing \notin NodesHere /\ DOMAIN ObjectOfNode \subseteq NodesHere
        /\ \A p \in Object : objects[p].uri # Nothing => objects[p].uri \in NodesHere
    BY NodesHaveObjects DEF NodesHere, ObjectNodes
  <2>3. Typed(triples) \subseteq NodesHere
    <3>. DEFINE bp == policy.bp
                map == nodeOf
                O == objects
    <3>1. InOrder(triples, ObjectNodes(triples, map, O), bp, {})
      BY <2>1 DEF NodesHere
    <3>. HIDE DEF bp, map, O
    <3>2. Typed(triples) \subseteq ObjectNodes(triples, map, O)
      BY <3>1, TypedAreNodes
    <3>. QED  BY <3>2 DEF NodesHere, map, O
  <2>4. ASSUME NEW p \in Object, objects'[p].uri # Nothing PROVE objects'[p].uri \in NodesHere
    <3>1. p \in Living(objects')
      BY <1>6, <2>4, DeadHaveNoUri
    <3>2. objects'[p].uri \in {Nothing} \cup Typed(triples) \cup {objects[x].uri : x \in Object}
      BY <1>3, <1>4, <3>1 DEF IsLoaderCall
    <3>. QED  BY <2>2, <2>3, <2>4, <3>2
  <2>5. \A p \in Object : (nodeOf'[p] # Nothing => nodeOf'[p] \in NodesHere)
                          /\ (objects'[p].uri # Nothing => objects'[p].uri \in NodesHere)
    BY <1>10, <2>2, <2>3, <2>4
  <2>. DEFINE N == NodesHere
              bp == policy.bp
  <2>. HIDE DEF N, bp
  <2>6. AreNodes(ObjectNodes(triples, nodeOf', objects'), bp)
        /\ InOrder(triples, ObjectNodes(triples, nodeOf', objects'), bp, {})
    BY <2>1, <2>2, <2>5, StaysInOrder DEF N, bp
  <2>. QED  BY <1>1, <2>6 DEF StoreInOrder, NodesHere, bp
<1>12. Bounded'
  BY <1>1, StoredObjectsConstants DEF Inv, Bounded
<1>. QED  BY <1>1, <1>10, <1>11, <1>12 DEF Inv, StoredLive, AskedAreSettled

-------------------------------------------------------------------------------
(* What a call that returns has given the nodes that it was to populate, where     *)
(* all types are known.                                                          *)

LEMMA NothingIsIgnored ==
  ASSUME NEW q, NEW s, IsLoaderCall(s, q), AllAreKnown(s.T), NEW n
  PROVE  AllocateOrIgnore(s, n) = Allocate(s, n)
<1>1. Moves(Allocate(s, n), s, q)
  BY AllocateMoves
<1>2. Allocate(s, n).outcome = "throws" => s.outcome = "throws"
  BY <1>1 DEF Moves, Advances
<1>. QED  BY <1>2 DEF AllocateOrIgnore, OrIgnore, Going

AllocatedFold == INSTANCE FoldTheorems
    WITH Op <- LAMBDA r, n, p : AllocateOrIgnore(r, n),
         Inv <- LAMBDA r, k, x : /\ Moves(r, x.s, x.q)
                                 /\ Going(r) => \A i \in 1..k : x.seq[i] \notin r.toAllocate

LEMMA AllocateAllMoves ==
  ASSUME NEW q, NEW s, IsLoaderCall(s, q), AllAreKnown(s.T), NEW order
  PROVE  LET r == AllocateAll(s, order)
         IN  Moves(r, s, q) /\ (Going(r) => r.toAllocate = {})
<1>. DEFINE seq == Ordered(s.toAllocate, order)
            all == AllocatedFold!Fold(s, seq, 0)
            x == [s |-> s, q |-> q, seq |-> seq]
<1>1. AllocateAll(s, order) = all
  BY DEF AllocateAll, FoldLeft, MapThenFoldSet, Max, AllocatedFold!Fold, AllocatedFold!Largest
<1>2. Len(seq) \in Nat /\ DOMAIN seq = 1..Len(seq) /\ ToSet(seq) = s.toAllocate
  <2>1. IsFiniteSet(s.toAllocate)
    BY TypedAreFinite DEF IsLoaderCall
  <2>. QED  BY <2>1, OrderedDomain, OrderedIsSequence
<1>3. x.s = s /\ x.q = q /\ x.seq = seq
  OBVIOUS
<1>. HIDE DEF seq, x
<1>4. Moves(s, x.s, x.q) /\ (Going(s) => \A i \in 1..0 : x.seq[i] \notin s.toAllocate)
  BY <1>3, MovesNothing
<1>5. ASSUME NEW r, NEW k \in 1..Len(seq), Moves(r, x.s, x.q),
             Going(r) => \A i \in 1..k - 1 : x.seq[i] \notin r.toAllocate
      PROVE  LET y == AllocateOrIgnore(r, seq[k])
             IN  Moves(y, x.s, x.q) /\ (Going(y) => \A i \in 1..k : x.seq[i] \notin y.toAllocate)
  <2>. DEFINE y == AllocateOrIgnore(r, seq[k])
  <2>1. IsLoaderCall(r, q) /\ r.T = s.T
    BY <1>3, <1>5 DEF Moves, Allocates, Advances
  <2>2. Moves(y, r, q) /\ (Going(y) => seq[k] \notin y.toAllocate)
    BY <2>1, NothingIsIgnored, AllocateMoves
  <2>. HIDE DEF y
  <2>3. Moves(y, x.s, x.q)
    BY <1>3, <1>5, <2>2, MovesOn
  <2>4. y.toAllocate \subseteq r.toAllocate /\ (Going(y) => Going(r))
    BY <2>2 DEF Moves, Advances
  <2>5. \A i \in 1..k : i \in 1..k - 1 \/ i = k
    BY <1>2
  <2>. QED  BY <1>3, <1>5, <2>2, <2>3, <2>4, <2>5 DEF y
<1>6. Moves(all, x.s, x.q) /\ (Going(all) => \A i \in 1..Len(seq) : x.seq[i] \notin all.toAllocate)
  BY <1>2, <1>4, <1>5, AllocatedFold!FoldInduction
<1>. HIDE DEF all
<1>7. all.toAllocate \subseteq s.toAllocate
  BY <1>3, <1>6 DEF Moves, Advances
<1>8. \A n \in s.toAllocate : \E i \in 1..Len(seq) : seq[i] = n
  BY <1>2 DEF ToSet
<1>. QED  BY <1>1, <1>3, <1>6, <1>7, <1>8

InitialisedFold == INSTANCE FoldTheorems
    WITH Op <- LAMBDA r, n, p : Initialise(r, n),
         Inv <- LAMBDA r, k, x : /\ Moves(r, x.s, x.q) /\ r.toInitialise \subseteq x.s.toInitialise
                                 /\ \A i \in 1..k : x.seq[i] \notin r.toInitialise

LEMMA InitialiseAllMoves ==
  ASSUME NEW q, NEW s, IsLoaderCall(s, q), Going(s) => s.toAllocate = {}, NEW order
  PROVE  LET r == InitialiseAll(s, order)
         IN  Moves(r, s, q) /\ r.toInitialise = {}
<1>. DEFINE seq == Ordered(s.toInitialise, order)
            all == InitialisedFold!Fold(s, seq, 0)
            x == [s |-> s, q |-> q, seq |-> seq]
<1>1. InitialiseAll(s, order) = all
  BY DEF InitialiseAll, FoldLeft, MapThenFoldSet, Max, InitialisedFold!Fold, InitialisedFold!Largest
<1>2. Len(seq) \in Nat /\ DOMAIN seq = 1..Len(seq) /\ ToSet(seq) = s.toInitialise
  <2>1. IsFiniteSet(s.toInitialise)
    BY TypedAreFinite DEF IsLoaderCall
  <2>. QED  BY <2>1, OrderedDomain, OrderedIsSequence
<1>3. x.s = s /\ x.q = q /\ x.seq = seq
  OBVIOUS
<1>. HIDE DEF seq, x
<1>4. Moves(s, x.s, x.q) /\ s.toInitialise \subseteq x.s.toInitialise
      /\ \A i \in 1..0 : x.seq[i] \notin s.toInitialise
  BY <1>3, MovesNothing
<1>5. ASSUME NEW r, NEW k \in 1..Len(seq), Moves(r, x.s, x.q), r.toInitialise \subseteq x.s.toInitialise,
             \A i \in 1..k - 1 : x.seq[i] \notin r.toInitialise
      PROVE  LET y == Initialise(r, seq[k])
             IN  /\ Moves(y, x.s, x.q) /\ y.toInitialise \subseteq x.s.toInitialise
                 /\ \A i \in 1..k : x.seq[i] \notin y.toInitialise
  <2>. DEFINE y == Initialise(r, seq[k])
  <2>1. IsLoaderCall(r, q) /\ (Going(r) => r.toAllocate = {})
    BY <1>3, <1>5 DEF Moves, Allocates, Advances
  <2>2. Moves(y, r, q) /\ y.toInitialise = r.toInitialise \ {seq[k]}
    BY <2>1, InitialiseMoves, InitialiseSets
  <2>. HIDE DEF y
  <2>3. Moves(y, x.s, x.q)
    BY <1>3, <1>5, <2>2, MovesOn
  <2>4. \A i \in 1..k : i \in 1..k - 1 \/ i = k
    BY <1>2
  <2>. QED  BY <1>3, <1>5, <2>2, <2>3, <2>4 DEF y
<1>6. /\ Moves(all, x.s, x.q) /\ all.toInitialise \subseteq x.s.toInitialise
      /\ \A i \in 1..Len(seq) : x.seq[i] \notin all.toInitialise
  BY <1>2, <1>4, <1>5, InitialisedFold!FoldInduction
<1>. HIDE DEF all
<1>7. \A n \in s.toInitialise : \E i \in 1..Len(seq) : seq[i] = n
  BY <1>2 DEF ToSet
<1>. QED  BY <1>1, <1>3, <1>6, <1>7

\* All have objects with their literals before the first is populated.
LEMMA AllAreInitialised ==
  ASSUME NEW q, NEW s, IsLoaderCall(s, q), AllAreKnown(s.T), Ready(s), NEW order
  PROVE  LET r == InitialiseAll(AllocateAll(s, order), order)
         IN  /\ IsLoaderCall(r, q) /\ r.T = s.T /\ r.ap = s.ap /\ r.toPopulate = s.toPopulate
             /\ Going(r) => r.toAllocate = {} /\ \A n \in r.toPopulate : IsInitialised(r, n)
<1>. DEFINE a == AllocateAll(s, order)
            r == InitialiseAll(a, order)
<1>1. Moves(a, s, q) /\ (Going(a) => a.toAllocate = {})
  BY AllocateAllMoves
<1>. HIDE DEF a
<1>2. Moves(r, a, q) /\ r.toInitialise = {}
  BY <1>1, InitialiseAllMoves DEF Moves, Allocates
<1>. HIDE DEF r
<1>3. Moves(r, s, q)
  BY <1>1, <1>2, MovesOn
<1>4. ASSUME Going(r) PROVE r.toAllocate = {}
  BY <1>1, <1>2, <1>4 DEF Moves, Advances
<1>5. ASSUME Going(r), NEW n \in r.toPopulate PROVE IsInitialised(r, n)
  <2>1. Ready(r)
    BY <1>3, <1>5 DEF Moves, Advances
  <2>. QED  BY <1>2, <1>5, <2>1, ReadyNode
<1>. QED  BY <1>3, <1>4, <1>5 DEF Moves, Allocates, Advances, r, a

\* With nothing left to allocate, a property that points to objects is set from the
\* map alone.
LEMMA AllocatesNoMore ==
  ASSUME NEW s, s.toAllocate = {}, NEW v
  PROVE  PropertyNodeToObject(s, v) = s
BY DEF PropertyNodeToObject, AllocateSingle, AllocateSingleUnderParent, AllocateSingleUnder,
       AllocateParentOf, Allocate

Element(map, v) == IF IsLiteral(v) THEN v ELSE ToObject(Value(map, v))
Converted(map, values) == [i \in DOMAIN values |-> Element(map, values[i])]
Wanted(map, values) == Among(values, {v \in ToSet(values) : IsLiteral(v) \/ Value(map, v) # Null})

HasReference(T, x, n, map) ==
    LET v == First(ValuesAt(T, n, "ref"))
    IN  ValuesAt(T, n, "ref") # {} /\ ~IsLiteral(v) /\ Value(map, v) # Null => x.ref = Value(map, v)
HasList(T, x, n, map) ==
    LET values == SequenceStartingAt(T, First(ValuesAt(T, n, "list")))
    IN  ValuesAt(T, n, "list") # {} => x.list = Converted(map, Wanted(map, values))
HasRest(s, n) ==
    LET x == s.O[Value(s.map, n)]
    IN  HasReference(s.T, x, n, s.map) /\ HasList(s.T, x, n, s.map)

\* The state s once an object's list is l, or its object x.
WithList(s, o, l) == [s EXCEPT !.O[o].list = l]
WithReference(s, o, x) == [s EXCEPT !.O[o].ref = x]

LEMMA SetsOneProperty ==
  ASSUME NEW q, NEW s, IsLoaderCall(s, q), NEW o \in Living(s.O), NEW l
  PROVE  /\ \A r \in {WithList(s, o, l), WithReference(s, o, l)} :
              /\ r.T = s.T /\ r.map = s.map /\ r.ap = s.ap /\ r.outcome = s.outcome
              /\ r.toAllocate = s.toAllocate /\ r.toPopulate = s.toPopulate
              /\ r.O[o].lit = s.O[o].lit
              /\ \A x \in Living(s.O) \ {o} : r.O[x] = s.O[x]
         /\ WithList(s, o, l).O[o].list = l /\ WithList(s, o, l).O[o].ref = s.O[o].ref
         /\ WithReference(s, o, l).O[o].ref = l /\ WithReference(s, o, l).O[o].list = s.O[o].list
         /\ \A m : WithList(WithList(s, o, l), o, m) = WithList(s, o, m)
<1>. DEFINE a == [s.O[o] EXCEPT !.list = l]
            b == [s.O[o] EXCEPT !.ref = l]
            A == [s.O EXCEPT ![o] = a]
            B == [s.O EXCEPT ![o] = b]
<1>1. DOMAIN s = LoaderFields /\ DOMAIN s.O = Object /\ o \in Object
      /\ DOMAIN s.O[o] = {"alive", "uri", "parent", "children", "lit", "ref", "list"}
  <2>1. /\ DOMAIN s = LoaderFields /\ o \in Object /\ s.O = [x \in Object |-> s.O[x]]
        /\ IsObjectRecord(s.O[o])
    BY DEF IsLoaderCall, IsGrove, IsGraph, Living
  <2>2. DOMAIN s.O[o] = {"alive", "uri", "parent", "children", "lit", "ref", "list"}
    BY <2>1 DEF IsObjectRecord
  <2>. QED  BY <2>1, <2>2
<1>2. WithList(s, o, l) = [s EXCEPT !.O = A] /\ WithReference(s, o, l) = [s EXCEPT !.O = B]
  BY DEF WithList, WithReference
<1>3. /\ a.list = l /\ a.lit = s.O[o].lit /\ a.ref = s.O[o].ref /\ DOMAIN a = DOMAIN s.O[o]
      /\ b.ref = l /\ b.lit = s.O[o].lit /\ b.list = s.O[o].list
  BY <1>1
<1>4. \A m : [a EXCEPT !.list = m] = [s.O[o] EXCEPT !.list = m]
  BY <1>1
<1>. HIDE DEF a, b
<1>5. A[o] = a /\ B[o] = b /\ \A x \in Living(s.O) \ {o} : A[x] = s.O[x] /\ B[x] = s.O[x]
  BY <1>1 DEF Living
<1>6. \A e : [A EXCEPT ![o] = e] = [s.O EXCEPT ![o] = e]
  BY <1>1
<1>. HIDE DEF A, B
<1>7. /\ [s EXCEPT !.O = A].O = A /\ [s EXCEPT !.O = B].O = B
      /\ \A r \in {[s EXCEPT !.O = A], [s EXCEPT !.O = B]} :
              /\ r.T = s.T /\ r.map = s.map /\ r.ap = s.ap /\ r.outcome = s.outcome
              /\ r.toAllocate = s.toAllocate /\ r.toPopulate = s.toPopulate
  BY <1>1 DEF LoaderFields
<1>8. \A P : [[s EXCEPT !.O = A] EXCEPT !.O = P] = [s EXCEPT !.O = P]
  BY <1>1 DEF LoaderFields
<1>9. ASSUME NEW m PROVE WithList(WithList(s, o, l), o, m) = WithList(s, o, m)
  <2>. DEFINE y == [s EXCEPT !.O = A]
              Put(t, P) == [t EXCEPT !.O = P]
              At(P, e) == [P EXCEPT ![o] = e]
              Set(x) == [x EXCEPT !.list = m]
  <2>1. /\ WithList(y, o, m) = Put(y, At(y.O, Set(y.O[o])))
        /\ WithList(s, o, m) = Put(s, At(s.O, Set(s.O[o])))
    BY DEF WithList
  <2>2. y.O = A /\ y.O[o] = a /\ WithList(s, o, l) = y
    BY <1>2, <1>5, <1>7
  <2>3. Set(a) = Set(s.O[o]) /\ (\A e : At(A, e) = At(s.O, e)) /\ (\A P : Put(y, P) = Put(s, P))
    BY <1>4, <1>6, <1>8
  <2>. HIDE DEF y, Put, At, Set
  <2>4. At(y.O, Set(y.O[o])) = At(s.O, Set(s.O[o]))
    BY <2>2, <2>3
  <2>5. WithList(y, o, m) = WithList(s, o, m)
    BY <2>1, <2>3, <2>4
  <2>. QED  BY <2>2, <2>5
<1>10. ASSUME NEW r \in {WithList(s, o, l), WithReference(s, o, l)}
       PROVE  /\ r.T = s.T /\ r.map = s.map /\ r.ap = s.ap /\ r.outcome = s.outcome
              /\ r.toAllocate = s.toAllocate /\ r.toPopulate = s.toPopulate
              /\ r.O[o].lit = s.O[o].lit
              /\ \A x \in Living(s.O) \ {o} : r.O[x] = s.O[x]
  <2>1. r \in {[s EXCEPT !.O = A], [s EXCEPT !.O = B]} /\ r.O \in {A, B}
    BY <1>2, <1>7
  <2>. QED  BY <1>3, <1>5, <1>7, <2>1
<1>11. /\ WithList(s, o, l).O[o].list = l /\ WithList(s, o, l).O[o].ref = s.O[o].ref
       /\ WithReference(s, o, l).O[o].ref = l /\ WithReference(s, o, l).O[o].list = s.O[o].list
  BY <1>2, <1>3, <1>5, <1>7
<1>. QED  BY <1>9, <1>10, <1>11, Zenon

LEMMA AddsOneElement ==
  ASSUME NEW map, NEW l, IsSequence(l), NEW v
  PROVE  Converted(map, Append(l, v)) = Append(Converted(map, l), Element(map, v))
<1>. DEFINE E == ToSet(l) \cup {v}
            e == Element(map, v)
            c == Converted(map, l)
            F == {Element(map, x) : x \in E}
<1>1. l \in Seq(E)
  BY SequenceIn
<1>2. Len(l) \in Nat /\ DOMAIN l = 1..Len(l) /\ \A i \in 1..Len(l) : l[i] \in E
  BY SequenceDomain
<1>3. /\ DOMAIN Append(l, v) = 1..Len(l) + 1 /\ Append(l, v)[Len(l) + 1] = v
      /\ \A i \in 1..Len(l) : Append(l, v)[i] = l[i]
  <2>. HIDE DEF E
  <2>. QED  BY <1>1, <1>2
<1>4. c = [i \in 1..Len(l) |-> Element(map, l[i])] /\ c \in Seq(F) /\ Len(c) = Len(l) /\ e \in F
  <2>1. c = [i \in 1..Len(l) |-> Element(map, l[i])]
    BY <1>2 DEF Converted
  <2>2. \A i \in 1..Len(l) : Element(map, l[i]) \in F
    BY <1>2
  <2>3. e \in F
    OBVIOUS
  <2>. HIDE DEF c, F, e
  <2>. QED  BY <1>2, <2>1, <2>2, <2>3
<1>. HIDE DEF F, e, c, E
<1>5. /\ DOMAIN Append(c, e) = 1..Len(l) + 1 /\ Append(c, e)[Len(l) + 1] = e
      /\ \A i \in 1..Len(l) : Append(c, e)[i] = c[i]
      /\ Append(c, e) = [i \in 1..Len(l) + 1 |-> Append(c, e)[i]]
  BY <1>2, <1>4
<1>6. ASSUME NEW i \in 1..Len(l) + 1
      PROVE  Append(c, e)[i] = Element(map, Append(l, v)[i])
  <2>1. CASE i \in 1..Len(l)
    BY <1>3, <1>4, <1>5, <2>1
  <2>2. CASE i = Len(l) + 1
    <3>1. Append(c, e)[i] = e
      BY <1>5, <2>2
    <3>2. Append(l, v)[i] = v
      BY <1>3, <2>2
    <3>3. e = Element(map, v)
      BY DEF e
    <3>4. Element(map, Append(l, v)[i]) = Element(map, v)
      BY <3>2
    <3>5. Append(c, e)[i] = Element(map, v)
      BY <3>1, <3>3
    <3>. QED  BY <3>4, <3>5
  <2>3. i \in 1..Len(l) \/ i = Len(l) + 1
    BY <1>2
  <2>. QED  BY <2>1, <2>2, <2>3
<1>7. Converted(map, Append(l, v)) = [i \in 1..Len(l) + 1 |-> Element(map, Append(l, v)[i])]
  BY <1>3 DEF Converted
<1>. QED  BY <1>5, <1>6, <1>7 DEF c, e

LEMMA AddsToConverted ==
  ASSUME NEW q, NEW s, IsLoaderCall(s, q), Going(s), s.toAllocate = {}, NEW o \in Living(s.O),
         NEW l, IsSequence(l), NEW v
  PROVE  AddElement(WithList(s, o, Converted(s.map, l)), o, v)
           = WithList(s, o, Converted(s.map, IF IsLiteral(v) \/ Value(s.map, v) # Null THEN Append(l, v) ELSE l))
<1>. DEFINE c == Converted(s.map, l)
            r == WithList(s, o, c)
            e == Element(s.map, v)
            more == [r EXCEPT !.O[o].list = Append(@, e)]
<1>1. r.map = s.map /\ Going(r) /\ r.toAllocate = {} /\ r.O[o].list = c
      /\ \A m : WithList(r, o, m) = WithList(s, o, m)
  <2>. HIDE DEF c
  <2>. QED  BY SetsOneProperty DEF Going
<1>. HIDE DEF c, r
<1>2. PropertyNodeToObject(r, v) = r
  BY <1>1, AllocatesNoMore
<1>3. AddElement(r, o, v) = IF IsLiteral(v) \/ Value(s.map, v) # Null THEN more ELSE r
  BY <1>1, <1>2 DEF AddElement, AppendObject, Element
<1>4. more = WithList(r, o, Append(c, e))
  <2>1. more = [r EXCEPT !.O[o].list = Append(r.O[o].list, e)]
    OBVIOUS
  <2>. HIDE DEF more, e
  <2>. QED  BY <1>1, <2>1 DEF WithList
<1>5. more = WithList(s, o, Append(c, e))
  BY <1>1, <1>4
<1>. HIDE DEF more
<1>6. Append(c, e) = Converted(s.map, Append(l, v))
  BY AddsOneElement DEF c, e
<1>. HIDE DEF e
<1>. QED  BY <1>3, <1>5, <1>6 DEF c, r

\* So far, the object's list is that of the elements so far.
IsListed(r, k, x) == r = WithList(x.s, x.o, Converted(x.s.map, x.f[k])) /\ IsSequence(x.f[k])
ListedFold == INSTANCE FoldTheorems
    WITH Op <- LAMBDA r, v, o : IF Going(r) THEN AddElement(r, o, v) ELSE r,
         Inv <- LAMBDA r, k, x : IsListed(r, k, x)

LEMMA ListIsSet ==
  ASSUME NEW q, NEW s, IsLoaderCall(s, q), Going(s), s.toAllocate = {}, NEW o \in Living(s.O), NEW head
  PROVE  PropertyNodeToList(s, o, head)
           = WithList(s, o, Converted(s.map, Wanted(s.map, SequenceStartingAt(s.T, head))))
<1>. DEFINE values == SequenceStartingAt(s.T, head)
            S == {v \in ToSet(values) : IsLiteral(v) \/ Value(s.map, v) # Null}
            base == [s EXCEPT !.O[o].list = <<>>]
            list == s.O[o].list
            all == ListedFold!Fold(base, values, o)
<1>1. PropertyNodeToList(s, o, head) = IF Going(all) THEN all ELSE [all EXCEPT !.O[o].list = list]
  BY DEF PropertyNodeToList, OrRestoreList, FoldLeft, MapThenFoldSet, Max, ListedFold!Fold, ListedFold!Largest
<1>2. Len(values) \in Nat /\ DOMAIN values = 1..Len(values) /\ \A i \in 1..Len(values) : values[i] \in ToSet(values)
  <2>1. IsSequence(values)
    BY SequenceStartingAtIsSequence DEF IsLoaderCall
  <2>. QED  BY <2>1, SequenceDomain
<1>3. Among(values, S) = ElementsFold!Fold(<<>>, values, S)
  BY DEF Among, FoldLeft, MapThenFoldSet, Max, ElementsFold!Fold, ElementsFold!Largest
<1>4. Wanted(s.map, values) = Among(values, S)
  BY DEF Wanted
<1>. HIDE DEF values
<1>5. PICK f : ElementsFold!Steps(f, <<>>, values, S)
  BY <1>2, ElementsFold!StepsExist
<1>6. Among(values, S) = f[Len(values)]
  BY <1>2, <1>3, <1>5, ElementsFold!FoldIsLastStep
<1>7. /\ f[0] = <<>>
      /\ \A k \in 1..Len(values) : f[k] = IF values[k] \in S THEN Append(f[k - 1], values[k]) ELSE f[k - 1]
  <2>. DEFINE step(i) == IF i = 0 THEN <<>>
                         ELSE IF values[i] \in S THEN Append(f[i - 1], values[i]) ELSE f[i - 1]
  <2>. HIDE DEF S
  <2>1. f = [i \in 0..Len(values) |-> step(i)]
    BY <1>5 DEF ElementsFold!Steps
  <2>. HIDE DEF step
  <2>2. \A i \in 0..Len(values) : f[i] = step(i)
    BY <2>1
  <2>3. 0 \in 0..Len(values) /\ \A k \in 1..Len(values) : k \in 0..Len(values) /\ k # 0
    BY <1>2
  <2>. QED  BY <2>2, <2>3 DEF step
<1>. DEFINE x == [s |-> s, o |-> o, f |-> f]
<1>8. x.s = s /\ x.o = o /\ x.f = f
  OBVIOUS
<1>. HIDE DEF x, all
<1>9. base = WithList(s, o, Converted(s.map, f[0])) /\ IsSequence(f[0])
  <2>1. Converted(s.map, <<>>) = <<>>
    BY DEF Converted
  <2>. QED  BY <1>7, <2>1, EmptySequence DEF WithList
<1>. HIDE DEF base
<1>10. ASSUME NEW r, NEW k \in 1..Len(values), IsListed(r, k - 1, x)
       PROVE  IsListed(IF Going(r) THEN AddElement(r, o, values[k]) ELSE r, k, x)
  <2>. DEFINE l == f[k - 1]
              v == values[k]
              m == IF IsLiteral(v) \/ Value(s.map, v) # Null THEN Append(l, v) ELSE l
  <2>1. IsSequence(l) /\ r = WithList(s, o, Converted(s.map, l))
    BY <1>8, <1>10 DEF IsListed
  <2>2. f[k] = m
    BY <1>2, <1>7
  <2>. HIDE DEF l, v
  <2>3. Going(r)
    BY <2>1, SetsOneProperty DEF Going
  <2>4. AddElement(r, o, v) = WithList(s, o, Converted(s.map, m))
    BY <2>1, AddsToConverted
  <2>5. IsSequence(m)
    BY <2>1, LongerSequence
  <2>. HIDE DEF m
  <2>. QED  BY <1>8, <2>2, <2>3, <2>4, <2>5 DEF v, IsListed
<1>11. all = WithList(x.s, x.o, Converted(x.s.map, x.f[Len(values)]))
  <2>1. IsListed(base, 0, x)
    BY <1>8, <1>9 DEF IsListed
  <2>2. IsListed(all, Len(values), x)
    BY <1>2, <1>10, <2>1, ListedFold!FoldInduction DEF all
  <2>. QED  BY <2>2 DEF IsListed
<1>12. all = WithList(s, o, Converted(s.map, Wanted(s.map, values)))
  BY <1>4, <1>6, <1>8, <1>11
<1>13. Going(all)
  BY <1>12, SetsOneProperty DEF Going
<1>. QED  BY <1>1, <1>12, <1>13 DEF values

LEMMA PopulateSets ==
  ASSUME NEW q, NEW s, IsLoaderCall(s, q), Going(s), s.toAllocate = {}, NEW n, Value(s.map, n) # Null,
         Going(Populate(s, n))
  PROVE  LET r == Populate(s, n)
             o == Value(s.map, n)
         IN  /\ r.T = s.T /\ r.map = s.map /\ r.ap = s.ap /\ r.outcome = s.outcome /\ r.toAllocate = {}
             /\ \A x \in Living(s.O) \ {o} : r.O[x] = s.O[x]
             /\ r.O[o].lit = s.O[o].lit
             /\ ValuesAt(s.T, n, "ref") = {} => r.O[o].ref = s.O[o].ref
             /\ ValuesAt(s.T, n, "list") = {} => r.O[o].list = s.O[o].list
             /\ HasRest(r, n)
<1>. DEFINE o == Value(s.map, n)
            v == First(ValuesAt(s.T, n, "ref"))
            head == First(ValuesAt(s.T, n, "list"))
            list == Converted(s.map, Wanted(s.map, SequenceStartingAt(s.T, head)))
            a == LoadReference(s, n)
            b == LoadList(a, n)
            r == Populate(s, n)
<1>1. o \in Living(s.O) /\ o # Null
  BY MappedLive
<1>2. a = IF ValuesAt(s.T, n, "ref") = {} \/ IsLiteral(v) \/ Value(s.map, v) = Null THEN s
          ELSE WithReference(s, o, Value(s.map, v))
  BY AllocatesNoMore DEF LoadReference, SetReference, ValuesOf, ValuesAt, WithReference
<1>. HIDE DEF o
<1>3. /\ a.T = s.T /\ a.map = s.map /\ a.ap = s.ap /\ a.outcome = s.outcome /\ a.toAllocate = {}
      /\ \A x \in Living(s.O) \ {o} : a.O[x] = s.O[x]
      /\ a.O[o].lit = s.O[o].lit /\ a.O[o].list = s.O[o].list
      /\ ValuesAt(s.T, n, "ref") = {} => a.O[o].ref = s.O[o].ref
      /\ HasReference(s.T, a.O[o], n, s.map)
  <2>. DEFINE x == Value(s.map, v)
              w == WithReference(s, o, x)
  <2>1. /\ w.T = s.T /\ w.map = s.map /\ w.ap = s.ap /\ w.outcome = s.outcome
        /\ w.toAllocate = s.toAllocate /\ w.O[o].lit = s.O[o].lit
        /\ \A y \in Living(s.O) \ {o} : w.O[y] = s.O[y]
        /\ w.O[o].ref = x /\ w.O[o].list = s.O[o].list
    <3>. HIDE DEF x
    <3>. QED  BY <1>1, SetsOneProperty
  <2>. HIDE DEF w, a
  <2>2. a = IF ValuesAt(s.T, n, "ref") = {} \/ IsLiteral(v) \/ x = Null THEN s ELSE w
    BY <1>2 DEF w
  <2>. QED  BY <2>1, <2>2 DEF HasReference
<1>4. IsLoaderCall(a, q) /\ Living(s.O) \subseteq Living(a.O)
  BY LoadReferenceAllocates DEF Allocates
<1>. HIDE DEF a
<1>5. b = IF ValuesAt(s.T, n, "list") = {} THEN a ELSE WithList(a, o, list)
  <2>1. Value(a.map, n) = o /\ Going(a) /\ o \in Living(a.O)
    BY <1>1, <1>3, <1>4 DEF o, Going
  <2>2. ValuesOf(a, n, "list") = ValuesAt(s.T, n, "list")
    BY <1>3 DEF ValuesOf, ValuesAt
  <2>3. LoadList(a, n) = IF ValuesAt(s.T, n, "list") = {} THEN a ELSE PropertyNodeToList(a, o, head)
    <3>1. LoadList(a, n) = IF ValuesAt(s.T, n, "list") = {} THEN a
                           ELSE IF NeverEnds(a.T, head) THEN Hang(a) ELSE PropertyNodeToList(a, o, head)
      BY <1>1, <2>1, <2>2 DEF LoadList
    <3>2. b # Hang(a)
      <4>1. b.outcome = "returns"
        <5>. HIDE DEF b
        <5>1. IsLoaderCall(b, q) /\ Populate(s, n) = [b EXCEPT !.toPopulate = b.toPopulate \ {n}]
          BY <1>4, LoadListAllocates DEF b, a, Populate, Allocates
        <5>. QED  BY <5>1 DEF Going, IsLoaderCall, LoaderFields
      <4>2. Hang(a).outcome = "hangs"
        BY <1>4 DEF Hang, IsLoaderCall, LoaderFields
      <4>. QED  BY <4>1, <4>2
    <3>. HIDE DEF head
    <3>. QED  BY <3>1, <3>2
  <2>4. PropertyNodeToList(a, o, head) = WithList(a, o, Converted(a.map, Wanted(a.map, SequenceStartingAt(a.T, head))))
    <3>. HIDE DEF head
    <3>. QED  BY <1>3, <1>4, <2>1, ListIsSet
  <2>. QED  BY <1>3, <2>3, <2>4
<1>6. /\ b.T = s.T /\ b.map = s.map /\ b.ap = s.ap /\ b.outcome = s.outcome /\ b.toAllocate = {}
      /\ \A x \in Living(s.O) \ {o} : b.O[x] = s.O[x]
      /\ b.O[o].lit = s.O[o].lit /\ b.O[o].ref = a.O[o].ref
      /\ ValuesAt(s.T, n, "list") = {} => b.O[o].list = s.O[o].list
      /\ HasList(s.T, b.O[o], n, s.map)
  <2>. DEFINE w == WithList(a, o, list)
  <2>1. /\ w.T = s.T /\ w.map = s.map /\ w.ap = s.ap /\ w.outcome = s.outcome
        /\ w.toAllocate = {} /\ w.O[o].lit = s.O[o].lit
        /\ \A x \in Living(s.O) \ {o} : w.O[x] = s.O[x]
        /\ w.O[o].list = list /\ w.O[o].ref = a.O[o].ref
    <3>1. o \in Living(a.O) /\ \A x \in Living(s.O) \ {o} : x \in Living(a.O) \ {o}
      BY <1>1, <1>4
    <3>. HIDE DEF list
    <3>2. /\ w.T = a.T /\ w.map = a.map /\ w.ap = a.ap /\ w.outcome = a.outcome
          /\ w.toAllocate = a.toAllocate /\ w.O[o].lit = a.O[o].lit
          /\ \A y \in Living(a.O) \ {o} : w.O[y] = a.O[y]
          /\ w.O[o].list = list /\ w.O[o].ref = a.O[o].ref
      BY <1>4, <3>1, SetsOneProperty
    <3>. HIDE DEF w
    <3>. QED  BY <1>3, <3>1, <3>2
  <2>. HIDE DEF w, b
  <2>2. b = IF ValuesAt(s.T, n, "list") = {} THEN a ELSE w
    BY <1>5 DEF w
  <2>. QED  BY <1>3, <2>1, <2>2 DEF HasList
<1>7. DOMAIN b = LoaderFields
  BY <1>4, LoadListAllocates DEF Allocates, IsLoaderCall
<1>8. r = [b EXCEPT !.toPopulate = b.toPopulate \ {n}]
  BY DEF Populate, b, a
<1>. HIDE DEF b, r
<1>9. /\ r.T = b.T /\ r.map = b.map /\ r.ap = b.ap /\ r.outcome = b.outcome /\ r.toAllocate = b.toAllocate
      /\ r.O = b.O
  BY <1>7, <1>8 DEF LoaderFields
<1>10. HasReference(s.T, b.O[o], n, s.map)
  BY <1>3, <1>6 DEF HasReference
<1>11. HasRest(r, n)
  BY <1>6, <1>9, <1>10 DEF HasRest, o
<1>12. ValuesAt(s.T, n, "ref") = {} => r.O[o].ref = s.O[o].ref
  BY <1>3, <1>6, <1>9
<1>. QED  BY <1>6, <1>9, <1>11, <1>12 DEF r, o

LEMMA StoppedStaysStopped ==
  ASSUME NEW q, NEW s, IsLoaderCall(s, q), NEW n, Going(Populate(s, n))
  PROVE  Going(s)
<1>. SUFFICES ASSUME ~Going(s) PROVE FALSE
  OBVIOUS
<1>1. LoadList(LoadReference(s, n), n) = s
  BY DEF LoadList, LoadReference
<1>2. Populate(s, n) = [s EXCEPT !.toPopulate = s.toPopulate \ {n}]
  BY <1>1 DEF Populate
<1>3. Populate(s, n).outcome = s.outcome
  BY <1>2 DEF IsLoaderCall, LoaderFields
<1>. QED  BY <1>3 DEF Going

HasPopulated(r, k, x) ==
    /\ IsLoaderCall(r, x.q)
    /\ Going(r) => /\ Going(x.s) /\ r.T = x.s.T /\ r.map = x.s.map /\ r.ap = x.s.ap /\ r.toAllocate = {}
                   /\ \A n \in ToSet(x.seq) : IsInitialised(r, n)
                   /\ \A i \in 1..k : HasRest(r, x.seq[i])
PopulatedFold == INSTANCE FoldTheorems
    WITH Op <- LAMBDA r, n, p : Populate(r, n),
         Inv <- LAMBDA r, k, x : HasPopulated(r, k, x)

LEMMA PopulatesNext ==
  ASSUME NEW x, NEW r, NEW k \in Nat \ {0}, HasPopulated(r, k - 1, x),
         \A i \in 1..k : x.seq[i] \in ToSet(x.seq)
  PROVE  HasPopulated(Populate(r, x.seq[k]), k, x)
<1>. DEFINE n == x.seq[k]
            y == Populate(r, n)
            o == Value(r.map, n)
<1>1. IsLoaderCall(r, x.q) /\ IsLoaderCall(y, x.q)
  BY PopulateAllocates DEF HasPopulated, Allocates
<1>. SUFFICES ASSUME Going(y)
              PROVE  /\ Going(x.s) /\ y.T = x.s.T /\ y.map = x.s.map /\ y.ap = x.s.ap /\ y.toAllocate = {}
                     /\ \A m \in ToSet(x.seq) : IsInitialised(y, m)
                     /\ \A i \in 1..k : HasRest(y, x.seq[i])
  BY <1>1 DEF HasPopulated
<1>2. Going(r)
  BY <1>1, StoppedStaysStopped
<1>3. /\ Going(x.s) /\ r.T = x.s.T /\ r.map = x.s.map /\ r.ap = x.s.ap /\ r.toAllocate = {}
      /\ \A m \in ToSet(x.seq) : IsInitialised(r, m)
      /\ \A i \in 1..k - 1 : HasRest(r, x.seq[i])
  BY <1>2 DEF HasPopulated
<1>. HIDE DEF n
<1>4. IsInitialised(r, n) /\ o # Null
  BY <1>3 DEF n, IsInitialised
<1>5. /\ y.T = r.T /\ y.map = r.map /\ y.ap = r.ap /\ y.toAllocate = {}
      /\ \A z \in Living(r.O) \ {o} : y.O[z] = r.O[z]
      /\ y.O[o].lit = r.O[o].lit
      /\ ValuesAt(r.T, n, "ref") = {} => y.O[o].ref = r.O[o].ref
      /\ ValuesAt(r.T, n, "list") = {} => y.O[o].list = r.O[o].list
      /\ HasRest(y, n)
  BY <1>1, <1>2, <1>3, <1>4, PopulateSets
<1>. HIDE DEF y
<1>6. ASSUME NEW m, m # n, Value(r.map, m) # Null
      PROVE  y.O[Value(r.map, m)] = r.O[Value(r.map, m)]
  <2>1. Value(r.map, m) \in Living(r.O) /\ Value(r.map, m) # o
    BY <1>1, <1>6 DEF IsLoaderCall, IsMapping
  <2>. QED  BY <1>5, <2>1
<1>7. ASSUME NEW m \in ToSet(x.seq) PROVE IsInitialised(y, m)
  <2>1. CASE m = n
    <3>1. HasLiterals(r.T, r.O[o], n, r.ap)
      BY <1>4 DEF IsInitialised
    <3>2. HasLiterals(y.T, y.O[o], n, y.ap)
      BY <1>5, <3>1 DEF HasLiterals
    <3>. QED  BY <1>4, <1>5, <2>1, <3>2 DEF IsInitialised
  <2>2. CASE m # n
    <3>1. IsInitialised(r, m) /\ Value(r.map, m) # Null
      BY <1>3, <1>7 DEF IsInitialised
    <3>2. y.O[Value(r.map, m)] = r.O[Value(r.map, m)]
      BY <1>6, <2>2, <3>1
    <3>. QED  BY <1>5, <3>1, <3>2, StaysInitialised
  <2>. QED  BY <2>1, <2>2
<1>8. ASSUME NEW i \in 1..k PROVE HasRest(y, x.seq[i])
  <2>. DEFINE m == x.seq[i]
  <2>1. CASE m = n
    BY <1>5, <2>1
  <2>2. CASE m # n
    <3>1. i \in 1..k - 1
      BY <2>2 DEF n
    <3>2. HasRest(r, m) /\ Value(r.map, m) # Null
      BY <1>3, <1>8, <3>1 DEF IsInitialised
    <3>. HIDE DEF m
    <3>3. y.O[Value(r.map, m)] = r.O[Value(r.map, m)]
      BY <1>6, <2>2, <3>2
    <3>4. HasRest(y, m)
      BY <1>5, <3>2, <3>3 DEF HasRest
    <3>. QED  BY <3>4 DEF m
  <2>. QED  BY <2>1, <2>2
<1>. QED  BY <1>3, <1>5, <1>7, <1>8

LEMMA PopulateAllGives ==
  ASSUME NEW q, NEW s, IsLoaderCall(s, q), NEW order,
         Going(s) => s.toAllocate = {} /\ \A n \in s.toPopulate : IsInitialised(s, n)
  PROVE  LET r == PopulateAll(s, order)
         IN  Going(r) => /\ r.T = s.T /\ r.ap = s.ap
                         /\ \A n \in s.toPopulate : IsInitialised(r, n) /\ HasRest(r, n)
<1>. DEFINE seq == Ordered(s.toPopulate, order)
            all == PopulatedFold!Fold(s, seq, 0)
            x == [s |-> s, q |-> q, seq |-> seq]
            r == PopulateAll(s, order)
<1>1. r = Note(all, s.toPopulate)
  BY DEF PopulateAll, FoldLeft, MapThenFoldSet, Max, PopulatedFold!Fold, PopulatedFold!Largest
<1>2. Len(seq) \in Nat /\ DOMAIN seq = 1..Len(seq) /\ ToSet(seq) = s.toPopulate
  <2>1. IsFiniteSet(s.toPopulate)
    BY TypedAreFinite DEF IsLoaderCall
  <2>. QED  BY <2>1, OrderedDomain, OrderedIsSequence
<1>3. x.s = s /\ x.q = q /\ x.seq = seq
  OBVIOUS
<1>. HIDE DEF seq, x, all
<1>4. HasPopulated(s, 0, x)
  BY <1>2, <1>3 DEF HasPopulated
<1>5. ASSUME NEW y, NEW k \in 1..Len(seq), HasPopulated(y, k - 1, x)
      PROVE  HasPopulated(Populate(y, seq[k]), k, x)
  <2>1. k \in Nat \ {0} /\ \A i \in 1..k : x.seq[i] \in ToSet(x.seq)
    BY <1>2, <1>3 DEF ToSet
  <2>2. HasPopulated(Populate(y, x.seq[k]), k, x)
    BY <1>5, <2>1, PopulatesNext
  <2>. QED  BY <1>3, <2>2
<1>6. HasPopulated(all, Len(seq), x)
  BY <1>2, <1>4, <1>5, PopulatedFold!FoldInduction DEF all
<1>. SUFFICES ASSUME Going(r)
              PROVE  /\ r.T = s.T /\ r.ap = s.ap
                     /\ \A n \in s.toPopulate : IsInitialised(r, n) /\ HasRest(r, n)
  OBVIOUS
<1>. HIDE DEF r
<1>7. Going(all) /\ r.T = all.T /\ r.ap = all.ap /\ r.map = all.map /\ r.O = all.O
  <2>1. DOMAIN all = LoaderFields
    BY <1>6 DEF HasPopulated, IsLoaderCall
  <2>2. r = all \/ (Going(all) /\ r = [all EXCEPT !.populated = s.toPopulate])
    BY <1>1 DEF Note
  <2>. QED  BY <2>1, <2>2 DEF LoaderFields, Going
<1>8. /\ all.T = s.T /\ all.ap = s.ap /\ \A n \in ToSet(seq) : IsInitialised(all, n)
      /\ \A i \in 1..Len(seq) : HasRest(all, seq[i])
  BY <1>3, <1>6, <1>7 DEF HasPopulated
<1>9. ASSUME NEW n \in s.toPopulate PROVE IsInitialised(r, n) /\ HasRest(r, n)
  <2>1. \E i \in 1..Len(seq) : seq[i] = n
    BY <1>2, <1>9 DEF ToSet
  <2>2. IsInitialised(all, n) /\ HasRest(all, n)
    BY <1>2, <1>8, <2>1
  <2>. QED  BY <1>7, <2>2 DEF IsInitialised, HasRest
<1>. QED  BY <1>7, <1>8, <1>9

LEMMA LoadCollectedGives ==
  ASSUME NEW q, NEW s, IsLoaderCall(s, q), AllAreKnown(s.T), Ready(s), NEW order
  PROVE  LET r == LoadCollected(s, order)
         IN  Going(r) => /\ r.T = s.T /\ r.ap = s.ap
                         /\ \A n \in s.toPopulate : IsInitialised(r, n) /\ HasRest(r, n)
<1>. DEFINE i == InitialiseAll(AllocateAll(s, order), order)
<1>1. /\ IsLoaderCall(i, q) /\ i.T = s.T /\ i.ap = s.ap /\ i.toPopulate = s.toPopulate
      /\ Going(i) => i.toAllocate = {} /\ \A n \in i.toPopulate : IsInitialised(i, n)
  BY AllAreInitialised
<1>2. LoadCollected(s, order) = PopulateAll(i, order)
  BY DEF LoadCollected
<1>. HIDE DEF i
<1>. QED  BY <1>1, <1>2, PopulateAllGives

-------------------------------------------------------------------------------
(* What collecting the nodes notes of the requested ones.                        *)

\* A node is to be populated if it is in the store, and has no object if it is not.
Noted(s, n) == IF NodeHasType(s.T, n) THEN n \in s.toPopulate ELSE Value(s.map, n) = Null

\* Every node to populate has an object or is to get one.
Gathers(s, requested, q) ==
    /\ IsLoaderCall(s, q) /\ s.ap = q.ap /\ s.outcome = q.outcome /\ s.toPopulate \subseteq s.toInitialise
    /\ requested \subseteq Typed(q.T) /\ AllAreKnown(q.T) =>
        \A n \in s.toPopulate : n \in s.toAllocate \/ Value(s.map, n) # Null

LEMMA NodeIsLost ==
  ASSUME NEW q, NEW r, IsLoaderCall(r, q), NEW n
  PROVE  LET d == Insert(DeleteObject(r, Value(r.map, n)), n, Null)
         IN  /\ d.T = r.T /\ d.ap = r.ap /\ d.outcome = r.outcome
             /\ d.toAllocate = r.toAllocate /\ d.toInitialise = r.toInitialise /\ d.toPopulate = r.toPopulate
             /\ Value(d.map, n) = Null /\ \A m : Value(r.map, m) = Null => Value(d.map, m) = Null
<1>. DEFINE o == Value(r.map, n)
            x == DeleteObject(r, o)
            d == Insert(x, n, Null)
<1>1. /\ DOMAIN x = LoaderFields /\ x.T = r.T /\ x.ap = r.ap /\ x.outcome = r.outcome
      /\ x.toAllocate = r.toAllocate /\ x.toInitialise = r.toInitialise /\ x.toPopulate = r.toPopulate
      /\ x.map = r.map \/ \E gone : x.map = [m \in DOMAIN r.map |-> IF r.map[m] \in gone THEN Null ELSE r.map[m]]
  BY DEF DeleteObject, IsLoaderCall, LoaderFields
<1>. HIDE DEF x
<1>2. /\ d.T = x.T /\ d.ap = x.ap /\ d.outcome = x.outcome
      /\ d.toAllocate = x.toAllocate /\ d.toInitialise = x.toInitialise /\ d.toPopulate = x.toPopulate
      /\ d.map = [m \in DOMAIN x.map \cup {n} |-> IF m = n THEN Null ELSE x.map[m]]
  BY <1>1 DEF Insert, LoaderFields
<1>. HIDE DEF d
<1>3. ASSUME NEW m, Value(r.map, m) = Null PROVE Value(x.map, m) = Null
  BY <1>1, <1>3 DEF Value
<1>4. Value(d.map, n) = Null /\ \A m : Value(x.map, m) = Null => Value(d.map, m) = Null
  BY <1>2 DEF Value
<1>. QED  BY <1>1, <1>2, <1>3, <1>4 DEF d, x

LEMMA NoteNodeNotes ==
  ASSUME NEW q, NEW s, NEW requested, Gathers(s, ToSet(requested), q), NEW n
  PROVE  LET r == NoteNode(s, requested, n)
         IN  /\ Gathers(r, ToSet(requested), q)
             /\ n \in ToSet(requested) => Noted(r, n)
             /\ \A m : Noted(s, m) => Noted(r, m)
<1>. DEFINE wanted == n \in ToSet(requested)
            typed == NodeHasType(s.T, n)
            new == Value(s.map, n) = Null
            a == [s EXCEPT !.toAllocate = @ \cup {n}, !.toInitialise = @ \cup {n},
                           !.toPopulate = @ \cup {n}]
            b == [s EXCEPT !.toInitialise = @ \cup {n}, !.toPopulate = @ \cup {n}]
            d == Insert(DeleteObject(s, Value(s.map, n)), n, Null)
            r == NoteNode(s, requested, n)
<1>1. /\ DOMAIN s = LoaderFields /\ IsLoaderCall(s, q) /\ s.ap = q.ap /\ s.outcome = q.outcome /\ s.T = q.T
      /\ s.toPopulate \subseteq s.toInitialise
      /\ ToSet(requested) \subseteq Typed(q.T) /\ AllAreKnown(q.T) =>
           \A m \in s.toPopulate : m \in s.toAllocate \/ Value(s.map, m) # Null
  BY DEF Gathers, IsLoaderCall
<1>2. IsLoaderCall(r, q)
  BY <1>1, NoteNodeKeeps
<1>3. \/ r = a /\ new /\ typed
      \/ r = b /\ ~new /\ wanted /\ typed
      \/ r = d /\ ~new /\ wanted /\ ~typed
      \/ r = s /\ ~(new /\ typed) /\ (wanted => new)
  BY DEF NoteNode
<1>4. /\ a.T = s.T /\ a.ap = s.ap /\ a.outcome = s.outcome /\ a.map = s.map
      /\ a.toAllocate = s.toAllocate \cup {n} /\ a.toInitialise = s.toInitialise \cup {n}
      /\ a.toPopulate = s.toPopulate \cup {n}
      /\ b.T = s.T /\ b.ap = s.ap /\ b.outcome = s.outcome /\ b.map = s.map
      /\ b.toAllocate = s.toAllocate /\ b.toInitialise = s.toInitialise \cup {n}
      /\ b.toPopulate = s.toPopulate \cup {n}
  BY <1>1 DEF LoaderFields
<1>5. /\ d.T = s.T /\ d.ap = s.ap /\ d.outcome = s.outcome
      /\ d.toAllocate = s.toAllocate /\ d.toInitialise = s.toInitialise /\ d.toPopulate = s.toPopulate
      /\ Value(d.map, n) = Null /\ \A m : Value(s.map, m) = Null => Value(d.map, m) = Null
  BY <1>1, NodeIsLost
<1>6. ToSet(requested) \subseteq Typed(q.T) /\ AllAreKnown(q.T) /\ wanted => typed
  BY <1>1 DEF AllAreKnown, IsKnown, NodeHasType, KnownType, IsUri
<1>. HIDE DEF a, b, d, r
<1>7. r.ap = q.ap /\ r.outcome = q.outcome /\ r.toPopulate \subseteq r.toInitialise /\ r.T = s.T
  BY <1>1, <1>3, <1>4, <1>5
<1>8. ASSUME ToSet(requested) \subseteq Typed(q.T), AllAreKnown(q.T), NEW m \in r.toPopulate
      PROVE  m \in r.toAllocate \/ Value(r.map, m) # Null
  BY <1>1, <1>3, <1>4, <1>6, <1>8
<1>9. ASSUME wanted PROVE Noted(r, n)
  BY <1>3, <1>4, <1>5, <1>9 DEF Noted
<1>10. ASSUME NEW m, Noted(s, m) PROVE Noted(r, m)
  BY <1>3, <1>4, <1>5, <1>10 DEF Noted
<1>. QED  BY <1>2, <1>7, <1>8, <1>9, <1>10 DEF Gathers, r

\* After k of the candidates of a round that began with the state x.s.
HasNoted(d, k, x) ==
    /\ IsCollection(d, x.q)
    /\ Going(d.s) => /\ Going(x.s) /\ Gathers(d.s, ToSet(x.requested), x.q)
                     /\ \A n : Noted(x.s, n) => Noted(d.s, n)
                     /\ \A i \in 1..k : x.seq[i] \in ToSet(x.requested) => Noted(d.s, x.seq[i])
NotedFold == INSTANCE FoldTheorems
    WITH Op <- LAMBDA d, n, p : CollectNode(d, p.requested, n, p.order),
         Inv <- LAMBDA d, k, x : HasNoted(d, k, x)

LEMMA CollectRoundNotes ==
  ASSUME NEW q, NEW c, IsCollection(c, q), NEW p, Going(c.s) => Gathers(c.s, ToSet(p.requested), q)
  PROVE  LET d == CollectRound(c, p.requested, p.order)
         IN  /\ IsCollection(d, q)
             /\ Going(d.s) =>
                  /\ Going(c.s) /\ Gathers(d.s, ToSet(p.requested), q)
                  /\ \A n : Noted(c.s, n) => Noted(d.s, n)
                  /\ \A n \in ToSet(c.candidates) : n \in ToSet(p.requested) => Noted(d.s, n)
<1>. DEFINE base == [c EXCEPT !.candidates = <<>>]
            seq == c.candidates
            all == NotedFold!Fold(base, seq, p)
            x == [s |-> c.s, q |-> q, seq |-> seq, requested |-> p.requested]
<1>1. CollectRound(c, p.requested, p.order) = all
  BY DEF CollectRound, FoldLeft, MapThenFoldSet, Max, NotedFold!Fold, NotedFold!Largest
<1>2. IsCollection(base, q) /\ base.s = c.s
  <2>1. base = [s |-> c.s, candidates |-> <<>>, visited |-> c.visited]
    BY DEF IsCollection
  <2>. HIDE DEF base
  <2>. QED  BY <2>1, EmptySequence DEF IsCollection
<1>3. Len(seq) \in Nat /\ DOMAIN seq = 1..Len(seq)
  BY SequenceDomain DEF IsCollection
<1>4. x.s = c.s /\ x.q = q /\ x.seq = seq /\ x.requested = p.requested
  OBVIOUS
<1>. HIDE DEF base, seq, all, x
<1>5. HasNoted(base, 0, x)
  BY <1>2, <1>4 DEF HasNoted
<1>6. ASSUME NEW d, NEW k \in 1..Len(seq), HasNoted(d, k - 1, x)
      PROVE  HasNoted(CollectNode(d, p.requested, seq[k], p.order), k, x)
  <2>. DEFINE e == CollectNode(d, p.requested, seq[k], p.order)
              r == NoteNode(d.s, p.requested, seq[k])
  <2>0. IsCollection(d, q) /\ IsCollection(e, q) /\ (Going(e.s) => Going(d.s) /\ e.s = r)
    BY <1>4, <1>6, CollectNodeKeeps DEF HasNoted
  <2>. SUFFICES ASSUME Going(e.s) PROVE HasNoted(e, k, x)
    BY <1>4, <2>0 DEF HasNoted
  <2>1. Going(c.s) /\ Gathers(d.s, ToSet(p.requested), q)
        /\ (\A n : Noted(c.s, n) => Noted(d.s, n))
        /\ \A i \in 1..k - 1 : seq[i] \in ToSet(p.requested) => Noted(d.s, seq[i])
    BY <1>4, <1>6, <2>0 DEF HasNoted
  <2>2. IsCollection(e, q) /\ e.s = r
    BY <2>0
  <2>3. /\ Gathers(r, ToSet(p.requested), q)
        /\ seq[k] \in ToSet(p.requested) => Noted(r, seq[k])
        /\ \A m : Noted(d.s, m) => Noted(r, m)
    BY <2>1, NoteNodeNotes
  <2>. HIDE DEF e, r
  <2>4. \A i \in 1..k : i \in 1..k - 1 \/ i = k
    BY <1>3
  <2>5. HasNoted(e, k, x)
    BY <1>4, <2>1, <2>2, <2>3, <2>4 DEF HasNoted
  <2>. QED  BY <2>5 DEF e
<1>7. HasNoted(all, Len(seq), x)
  BY <1>3, <1>5, <1>6, NotedFold!FoldInduction DEF all
<1>8. \A n \in ToSet(seq) : \E i \in 1..Len(seq) : seq[i] = n
  BY <1>3 DEF ToSet
<1>. QED  BY <1>1, <1>4, <1>7, <1>8 DEF HasNoted, seq

\* The first round has all requested nodes, and those that follow undo nothing.
HasGathered(c, k, x) ==
    /\ IsCollection(c, x.q)
    /\ Going(c.s) => Gathers(c.s, ToSet(x.requested), x.q)
    /\ k = 0 => c.candidates = x.requested
    /\ k > 0 /\ Going(c.s) => \A n \in ToSet(x.requested) : Noted(c.s, n)
GatheredFold == INSTANCE FoldTheorems
    WITH Op <- LAMBDA c, k, p : CollectRound(c, p.requested, p.order),
         Inv <- LAMBDA c, k, x : HasGathered(c, k, x)

LEMMA CollectNodesNotes ==
  ASSUME NEW q, IsLoaderCall(q, q), q.toPopulate = {}, NEW requested, IsSequence(requested), NEW order
  PROVE  LET c == CollectNodes(q, requested, order)
         IN  Going(c) => Gathers(c, ToSet(requested), q) /\ \A n \in ToSet(requested) : Noted(c, n)
<1>. DEFINE p == [requested |-> requested, order |-> order]
            base == [s |-> q, candidates |-> p.requested, visited |-> {}]
            n == Cardinality(NodesOf(q.T)) + 2
            all == GatheredFold!Fold(base, Times(n), p)
            x == [q |-> q, requested |-> requested]
<1>1. p.requested = requested /\ p.order = order /\ x.q = q /\ x.requested = requested
  OBVIOUS
<1>2. CollectNodes(q, p.requested, p.order) = all.s
  BY DEF CollectNodes, FoldLeft, MapThenFoldSet, Max, GatheredFold!Fold, GatheredFold!Largest
<1>. HIDE DEF p, x
<1>3. IsCollection(base, q) /\ base.s = q /\ base.candidates = requested
  BY <1>1 DEF IsCollection
<1>4. n \in Nat /\ n > 0
  <2>1. IsFiniteSet(NodesOf(q.T))
    BY NodesAreFinite DEF IsLoaderCall
  <2>. QED  BY <2>1, FS_CardinalityType
<1>. HIDE DEF base, n, all
<1>5. Len(Times(n)) = n /\ DOMAIN Times(n) = 1..n
  BY <1>4, TimesIsSequence
<1>6. HasGathered(base, 0, x)
  BY <1>1, <1>3 DEF HasGathered, Gathers
<1>7. ASSUME NEW c, NEW k \in 1..n, HasGathered(c, k - 1, x)
      PROVE  HasGathered(CollectRound(c, p.requested, p.order), k, x)
  <2>. DEFINE d == CollectRound(c, p.requested, p.order)
  <2>1. /\ IsCollection(c, q) /\ (Going(c.s) => Gathers(c.s, ToSet(requested), q))
        /\ k - 1 = 0 => c.candidates = requested
        /\ k - 1 > 0 /\ Going(c.s) => \A m \in ToSet(requested) : Noted(c.s, m)
    BY <1>1, <1>7 DEF HasGathered
  <2>2. /\ IsCollection(d, q)
        /\ Going(d.s) => /\ Going(c.s) /\ Gathers(d.s, ToSet(requested), q)
                         /\ \A m : Noted(c.s, m) => Noted(d.s, m)
                         /\ \A m \in ToSet(c.candidates) : m \in ToSet(requested) => Noted(d.s, m)
    BY <1>1, <2>1, CollectRoundNotes
  <2>. HIDE DEF d
  <2>3. k # 0 /\ (k - 1 = 0 \/ k - 1 > 0)
    BY <1>4
  <2>4. Going(d.s) => \A m \in ToSet(requested) : Noted(d.s, m)
    BY <2>1, <2>2, <2>3
  <2>5. HasGathered(d, k, x)
    BY <1>1, <2>2, <2>3, <2>4 DEF HasGathered
  <2>. QED  BY <2>5 DEF d
<1>8. HasGathered(all, n, x)
  <2>. DEFINE seq == Times(n)
  <2>1. Len(seq) = n /\ Len(seq) \in Nat /\ DOMAIN seq = 1..Len(seq)
    BY <1>4, <1>5
  <2>. HIDE DEF seq
  <2>2. HasGathered(GatheredFold!Fold(base, seq, p), Len(seq), x)
    BY <1>6, <1>7, <2>1, GatheredFold!FoldInduction
  <2>. QED  BY <2>1, <2>2 DEF all, seq
<1>. QED  BY <1>1, <1>2, <1>4, <1>8 DEF HasGathered

\* A call may be seen as beginning where another has come to.
LEMMA BeginsHere ==
  ASSUME NEW q, NEW s, IsLoaderCall(s, q)
  PROVE  IsLoaderCall(s, s)
<1>1. \A n : Value(s.map, n) # Null => IsMapping(s, s, n)
  BY DEF IsLoaderCall, IsMapping
<1>2. s.T = q.T /\ \A o \in Living(s.O) : o \in Object
  BY DEF IsLoaderCall, Living
<1>. QED  BY <1>1, <1>2 DEF IsLoaderCall

LEMMA LoadNodesGives ==
  ASSUME NEW q, IsLoaderCall(q, q), q.toPopulate = {}, NEW requested, IsSequence(requested), NEW order
  PROVE  LET r == LoadNodes(q, requested, order)
         IN  /\ Going(r) => \A n \in ToSet(requested) \ Typed(q.T) : Value(r.map, n) = Null
             /\ Going(r) /\ ToSet(requested) \subseteq Typed(q.T) /\ AllAreKnown(q.T) =>
                  /\ r.T = q.T /\ r.ap = q.ap
                  /\ \A n \in ToSet(requested) : IsInitialised(r, n) /\ HasRest(r, n)
<1>. DEFINE s == [q EXCEPT !.order = order]
            c == CollectNodes(s, requested, order)
            r == LoadCollected(c, order)
<1>1. LoadNodes(q, requested, order) = IF Going(c) THEN r ELSE c
  BY DEF LoadNodes
<1>2. IsLoaderCall(s, s) /\ s.T = q.T /\ s.ap = q.ap /\ s.toPopulate = {}
  BY TakesOrder, BeginsHere
<1>. HIDE DEF s
<1>. SUFFICES ASSUME Going(c), Going(r)
              PROVE  /\ \A n \in ToSet(requested) \ Typed(q.T) : Value(r.map, n) = Null
                     /\ ToSet(requested) \subseteq Typed(q.T) /\ AllAreKnown(q.T) =>
                          /\ r.T = q.T /\ r.ap = q.ap
                          /\ \A n \in ToSet(requested) : IsInitialised(r, n) /\ HasRest(r, n)
  BY <1>1
<1>3. IsLoaderCall(c, s) /\ IsLoaderCall(c, c)
  BY <1>2, CollectNodesKeeps, BeginsHere
<1>4. /\ c.T = q.T /\ c.ap = q.ap /\ c.toPopulate \subseteq c.toInitialise
      /\ ToSet(requested) \subseteq Typed(q.T) /\ AllAreKnown(q.T) =>
           \A n \in c.toPopulate : n \in c.toAllocate \/ Value(c.map, n) # Null
      /\ \A n \in ToSet(requested) : Noted(c, n)
  BY <1>2, CollectNodesNotes DEF Gathers, IsLoaderCall
<1>. HIDE DEF c
<1>5. ASSUME NEW n \in ToSet(requested) \ Typed(q.T) PROVE Value(r.map, n) = Null
  <2>1. ~NodeHasType(c.T, n)
    BY <1>4, TypedNodes
  <2>2. Value(c.map, n) = Null
    BY <1>4, <2>1 DEF Noted
  <2>3. IsLoaderCall(r, c)
    BY <1>3, LoadCollectedKeeps
  <2>. HIDE DEF r
  <2>. QED  BY <1>4, <2>2, <2>3 DEF IsLoaderCall, IsMapping
<1>6. ASSUME ToSet(requested) \subseteq Typed(q.T), AllAreKnown(q.T)
      PROVE  /\ r.T = q.T /\ r.ap = q.ap
             /\ \A n \in ToSet(requested) : IsInitialised(r, n) /\ HasRest(r, n)
  <2>1. Ready(c)
    BY <1>4, <1>6 DEF Ready
  <2>2. /\ r.T = c.T /\ r.ap = c.ap
        /\ \A n \in c.toPopulate : IsInitialised(r, n) /\ HasRest(r, n)
    BY <1>4, <1>6, <1>3, <2>1, LoadCollectedGives
  <2>. HIDE DEF r
  <2>3. \A n \in ToSet(requested) : n \in c.toPopulate
    <3>1. \A n \in ToSet(requested) : NodeHasType(c.T, n)
      BY <1>4, <1>6 DEF AllAreKnown, IsKnown, NodeHasType, KnownType, IsUri
    <3>. QED  BY <1>4, <3>1 DEF Noted
  <2>. QED  BY <1>4, <2>2, <2>3
<1>. QED  BY <1>5, <1>6

-------------------------------------------------------------------------------
(* Reloaded objects.                                                             *)

\* The one value of a property is its first.
LEMMA OneValue ==
  ASSUME NEW T, SingleValued(T), NEW n, NEW p, p # "type", NEW v \in ValuesAt(T, n, p)
  PROVE  First(ValuesAt(T, n, p)) = v
<1>1. \A w \in ValuesAt(T, n, p) : w = v
  BY DEF ValuesAt, Match, SingleValued
<1>2. First(ValuesAt(T, n, p)) \in ValuesAt(T, n, p)
  BY DEF First
<1>. QED  BY <1>1, <1>2

\* What an object is to have, where m has the objects of nodes.
ElementsOf(T, m, head) == ElementsIn(T, LAMBDA v : Value(m, v), head)
AgreesWith(T, O, m, n, ap) == Agrees(T, O, LAMBDA v : Value(m, v), n, ap)

\* Maps that have the same objects give the same sequence.
LEMMA SameElements ==
  ASSUME NEW T, NEW map, NEW m, \A v : Value(m, v) = Value(map, v), NEW head
  PROVE  ElementsOf(T, m, head) = Converted(map, Wanted(map, SequenceStartingAt(T, head)))
<1>. DEFINE values == SequenceStartingAt(T, head)
            elements == Among(values, {v \in ToSet(values) : IsLiteral(v) \/ Value(m, v) # Null})
<1>1. ElementsOf(T, m, head)
        = [i \in DOMAIN elements |-> IF IsLiteral(elements[i]) THEN elements[i] ELSE ToObject(Value(m, elements[i]))]
  BY DEF ElementsOf, ElementsIn
<1>. HIDE DEF values
<1>2. {v \in ToSet(values) : IsLiteral(v) \/ Value(m, v) # Null}
        = {v \in ToSet(values) : IsLiteral(v) \/ Value(map, v) # Null}
  OBVIOUS
<1>3. elements = Wanted(map, values)
  BY <1>2 DEF Wanted
<1>. HIDE DEF elements
<1>4. [i \in DOMAIN elements |-> IF IsLiteral(elements[i]) THEN elements[i] ELSE ToObject(Value(m, elements[i]))]
        = Converted(map, elements)
  BY DEF Converted, Element
<1>. QED  BY <1>1, <1>3, <1>4 DEF values

\* A node that was initialised and populated has an object that agrees with the store.
LEMMA PopulatedAgrees ==
  ASSUME NEW s, SingleValued(s.T), \A v : Value(s.map, v) # Null => ~IsLiteral(v),
         NEW m, \A v : Value(m, v) = Value(s.map, v),
         NEW n, IsInitialised(s, n), HasRest(s, n)
  PROVE  AgreesWith(s.T, s.O, m, n, s.ap)
<1>. DEFINE o == Value(m, n)
            x == s.O[o]
<1>1. /\ o = Value(s.map, n) /\ o # Null /\ HasLiterals(s.T, x, n, s.ap)
      /\ HasReference(s.T, x, n, s.map) /\ HasList(s.T, x, n, s.map)
  BY DEF IsInitialised, HasRest
<1>. HIDE DEF o, x
<1>2. ASSUME NEW v \in ValuesAt(s.T, n, "lit") PROVE x.lit = v[2]
  BY <1>1, OneValue DEF HasLiterals
<1>3. ASSUME NEW v \in ValuesAt(s.T, n, "ref"), Value(m, v) # Null PROVE x.ref = Value(m, v)
  <2>1. First(ValuesAt(s.T, n, "ref")) = v
    BY OneValue
  <2>. QED  BY <1>1, <1>3, <2>1 DEF HasReference
<1>4. ASSUME NEW v \in ValuesAt(s.T, n, "list")
      PROVE  x.list = ElementsOf(s.T, m, v)
  <2>1. First(ValuesAt(s.T, n, "list")) = v
    BY OneValue
  <2>2. x.list = Converted(s.map, Wanted(s.map, SequenceStartingAt(s.T, v)))
    BY <1>1, <2>1 DEF HasList
  <2>. QED  BY <2>2, SameElements
<1>5. s.ap = "ResetAbsentProperties" =>
        /\ ValuesAt(s.T, n, "lit") = {} => x.lit = DefaultLit
        /\ ValuesAt(s.T, n, "ref") = {} => x.ref = Null
        /\ ValuesAt(s.T, n, "list") = {} => x.list = <<>>
  BY <1>1 DEF HasLiterals
<1>. QED  BY <1>1, <1>2, <1>3, <1>4, <1>5 DEF AgreesWith, Agrees, ElementsOf, ValuesAt, o, x

\* The client's map of nodes has what the map that came back has.
LEMMA NodesBothWays ==
  ASSUME NEW r, NEW q, IsLoaderCall(r, q)
  PROVE  LET map == NodesIn(r.map)
             m == [n \in {map[o] : o \in Object} \ {Nothing} |-> CHOOSE o \in Object : map[o] = n]
         IN  \A n : Value(m, n) = Value(r.map, n)
<1>. DEFINE map == NodesIn(r.map)
            N == {map[o] : o \in Object} \ {Nothing}
            m == [n \in N |-> CHOOSE o \in Object : map[o] = n]
<1>1. /\ NoNodeIsShared(map)
      /\ \A o \in Object : map[o] # Nothing => Value(r.map, map[o]) = o
      /\ \A o \in Object : \A n : Value(r.map, n) = o => map[o] = n
  BY NodesInMap
<1>. HIDE DEF map
<1>2. DOMAIN m = N /\ \A n \in N : m[n] = CHOOSE o \in Object : map[o] = n
  OBVIOUS
<1>3. \A n \in N : n # Nothing /\ \E o \in Object : map[o] = n
  OBVIOUS
<1>4. \A o \in Object : map[o] # Nothing => map[o] \in N
  OBVIOUS
<1>. HIDE DEF m, N
<1>5. ASSUME NEW n PROVE Value(m, n) = Value(r.map, n)
  <2>1. CASE n \in N
    <3>1. m[n] \in Object /\ map[m[n]] = n
      BY <1>2, <1>3, <2>1
    <3>2. Value(m, n) = m[n] /\ n # Nothing
      BY <1>2, <1>3, <2>1 DEF Value
    <3>. QED  BY <1>1, <3>1, <3>2
  <2>2. CASE n \notin N
    <3>1. Value(m, n) = Null
      BY <1>2, <2>2 DEF Value
    <3>2. ASSUME Value(r.map, n) # Null PROVE FALSE
      <4>1. Value(r.map, n) \in Object /\ n # Nothing
        BY <3>2 DEF IsLoaderCall, IsMapping, Living
      <4>. QED  BY <1>1, <1>4, <2>2, <4>1
    <3>. QED  BY <3>1, <3>2
  <2>. QED  BY <2>1, <2>2
<1>. QED  BY <1>5 DEF m, N, map

LEMMA KnownTypes ==
  ASSUME NEW T, NEW N, NEW bp, InOrder(T, N, bp, {}), UnknownType \notin NodesOf(T)
  PROVE  AllAreKnown(T)
<1>. SUFFICES ASSUME NEW n \in Typed(T) PROVE IsKnown(T, n)
  BY DEF AllAreKnown
<1>1. Match(T, n, "type") # {}
  BY DEF Typed, Match
<1>2. ASSUME NEW t \in Match(T, n, "type") PROVE t[3] = KnownType
  <2>1. t \in T /\ t[2] = "type"
    BY DEF Match
  <2>2. t[3] \in {KnownType, UnknownType}
    BY <2>1 DEF InOrder, Fits
  <2>3. t[3] \in NodesOf(T)
    BY <2>1 DEF NodesOf
  <2>. QED  BY <2>2, <2>3
<1>. DEFINE t == CHOOSE u \in Match(T, n, "type") : TRUE
<1>3. t \in Match(T, n, "type")
  BY <1>1
<1>. HIDE DEF t
<1>4. t[3] = KnownType
  BY <1>2, <1>3
<1>. QED  BY <1>1, <1>4 DEF IsKnown, ObjectOf, t

\* Nodes that have objects are no literals.
LEMMA MappedAreNodes ==
  ASSUME Inv, NEW r, NEW q, IsLoaderCall(r, q), q.T = triples, q.map = ObjectOfNode, NEW n, Value(r.map, n) # Null
  PROVE  ~IsLiteral(n)
<1>1. n \in Typed(triples) \cup DOMAIN ObjectOfNode
  BY DEF IsLoaderCall, IsMapping, Value
<1>2. DOMAIN ObjectOfNode \subseteq NodesHere
  BY NodesHaveObjects DEF NodesHere, ObjectNodes
<1>3. Typed(triples) \subseteq NodesHere
  <2>. DEFINE bp == policy.bp
              map == nodeOf
  <2>1. InOrder(triples, ObjectNodes(triples, map, objects), bp, {})
    BY DEF Inv, StoreInOrder, NodesHere
  <2>. HIDE DEF bp, map
  <2>2. Typed(triples) \subseteq ObjectNodes(triples, map, objects)
    BY <2>1, TypedAreNodes
  <2>. QED  BY <2>2 DEF NodesHere, map
<1>4. AreNodes(NodesHere, policy.bp)
  BY DEF Inv, StoreInOrder
<1>. HIDE DEF NodesHere
<1>. QED  BY <1>1, <1>2, <1>3, <1>4 DEF AreNodes, IsLiteral

LEMMA ReloadedAgree ==
  ASSUME Inv, Reload
  PROVE  ReloadedObjectsAgree'
<1>. DEFINE q == LoaderState(objects, ObjectOfNode)
<1>1. PICK requested \in SUBSET (Typed(triples) \cup DOMAIN ObjectOfNode), order \in Orders :
        LET r == LoadNodes(q, Ordered(requested, order), order)
        IN  /\ objects' = r.O /\ outcome' = r.outcome /\ loaded' = requested
            /\ nodeOf' = IF Going(r) THEN NodesIn(r.map)
                         ELSE [o \in Object |-> IF o \in Living(r.O) \ r.gone THEN nodeOf[o] ELSE Nothing]
  BY ReloadInParts
<1>2. UNCHANGED <<triples, policy>>
  BY DEF Reload, Call
<1>. DEFINE seq == Ordered(requested, order)
            r == LoadNodes(q, seq, order)
<1>3. /\ IsSequence(seq) /\ ToSet(seq) = requested /\ IsLoaderCall(r, q) /\ IsLoaderCall(q, q)
      /\ q.T = triples /\ q.map = ObjectOfNode /\ q.toPopulate = {} /\ q.ap = policy.ap
  BY ReloadIsCall
<1>4. /\ objects' = r.O /\ outcome' = r.outcome /\ loaded' = requested
      /\ Going(r) => nodeOf' = NodesIn(r.map)
  BY <1>1
<1>. HIDE DEF q, seq
<1>5. /\ Going(r) => \A n \in ToSet(seq) \ Typed(q.T) : Value(r.map, n) = Null
      /\ Going(r) /\ ToSet(seq) \subseteq Typed(q.T) /\ AllAreKnown(q.T) =>
           /\ r.T = q.T /\ r.ap = q.ap
           /\ \A n \in ToSet(seq) : IsInitialised(r, n) /\ HasRest(r, n)
  BY <1>3, LoadNodesGives
<1>. HIDE DEF r
<1>6. ASSUME Going(r) PROVE \A n : Value(ObjectOfNode', n) = Value(r.map, n)
  <2>1. ObjectOfNode' = [n \in {nodeOf'[o] : o \in Object} \ {Nothing} |-> CHOOSE o \in Object : nodeOf'[o] = n]
    BY DEF ObjectOfNode
  <2>2. nodeOf' = NodesIn(r.map)
    BY <1>4, <1>6
  <2>. DEFINE map == nodeOf'
              m == ObjectOfNode'
  <2>3. map = NodesIn(r.map)
        /\ m = [n \in {map[o] : o \in Object} \ {Nothing} |-> CHOOSE o \in Object : map[o] = n]
    BY <2>1, <2>2
  <2>. HIDE DEF map, m
  <2>4. \A n : Value(m, n) = Value(r.map, n)
    BY <1>3, <2>3, NodesBothWays
  <2>. QED  BY <2>4 DEF m
<1>7. ASSUME NEW n \in loaded' \ Typed(triples'), Going(r) PROVE ObjectFor(n)' = Null
  <2>1. n \in ToSet(seq) \ Typed(q.T)
    BY <1>2, <1>3, <1>4
  <2>2. Value(r.map, n) = Null
    BY <1>5, <1>7, <2>1
  <2>3. Value(ObjectOfNode', n) = Null
    BY <1>6, <1>7, <2>2
  <2>. QED  BY <2>3 DEF ObjectFor, Value
<1>8. ASSUME NEW n \in loaded', Going(r), loaded' \subseteq Typed(triples'), AllTypesAreKnown'
      PROVE  Agrees(triples, objects, ObjectFor, n, policy.ap)'
  <2>1. InOrder(triples, NodesHere, policy.bp, {})
    BY DEF Inv, StoreInOrder
  <2>2. AllAreKnown(triples)
    <3>. DEFINE bp == policy.bp
    <3>1. UnknownType \notin NodesOf(triples) /\ InOrder(triples, NodesHere, bp, {})
      BY <1>2, <1>8, <2>1 DEF AllTypesAreKnown
    <3>. HIDE DEF bp, NodesHere
    <3>. QED  BY <3>1, KnownTypes
  <2>3. r.T = triples /\ r.ap = policy.ap /\ IsInitialised(r, n) /\ HasRest(r, n)
    BY <1>2, <1>3, <1>4, <1>5, <1>8, <2>2
  <2>4. SingleValued(r.T)
    BY <2>1, <2>3 DEF InOrder
  <2>5. \A v : Value(r.map, v) # Null => ~IsLiteral(v)
    BY <1>3, MappedAreNodes
  <2>. DEFINE m == ObjectOfNode'
  <2>6. \A v : Value(m, v) = Value(r.map, v)
    BY <1>6, <1>8
  <2>. HIDE DEF m
  <2>7. AgreesWith(r.T, r.O, m, n, r.ap)
    BY <2>3, <2>4, <2>5, <2>6, PopulatedAgrees
  <2>8. AgreesWith(triples', objects', ObjectOfNode', n, policy'.ap)
    BY <1>2, <1>4, <2>3, <2>7 DEF m
  <2>. QED  BY <2>8 DEF AgreesWith, Agrees, ElementsIn, ObjectFor, Value
<1>9. outcome' = "returns" => Going(r)
  BY <1>4 DEF Going
<1>. QED  BY <1>7, <1>8, <1>9 DEF ReloadedObjectsAgree

-------------------------------------------------------------------------------
(* The theorems.                                                                 *)

LEMMA NextKeeps ==
  ASSUME Inv, [Next]_vars
  PROVE  Inv'
<1>1. CASE SetProperty
  BY <1>1, SetPropertyKeeps
<1>2. CASE Reparent
  BY <1>2, ReparentKeeps
<1>3. CASE Destroy
  BY <1>3, DestroyKeeps
<1>4. CASE SomeoneSetsLiteral \/ SomeoneChangesType \/ SomeoneRemovesObject
  BY <1>4, SomeoneWritesKeeps
<1>5. CASE StoreObjects
  BY <1>5, StoreKeeps
<1>6. CASE Reload
  BY <1>6, ReloadKeeps
<1>7. CASE UNCHANGED vars
  BY <1>7 DEF vars, Inv, ObjectsInOrder, StoreInOrder, NodesHere, Bounded, StoredLive, AskedAreSettled, StorerState
<1>. QED  BY <1>1, <1>2, <1>3, <1>4, <1>5, <1>6, <1>7 DEF Next

\* The inductive invariant of the client, its objects and the store.
LEMMA InvHolds == Spec => []Inv
<1>1. Init => Inv
  BY InitHolds
<1>2. Inv /\ [Next]_vars => Inv'
  BY NextKeeps
<1>. QED  BY <1>1, <1>2, PTL DEF Spec

\* Whatever the client does with its objects and whoever writes to the store,
\* parents and children agree, objects have the nodes whose URIs they carry, and no
\* two of them have the same one while the client keeps its map.
THEOREM ObjectsAreInOrder == Spec => []TypeOK
<1>1. Inv => TypeOK
  <2>. SUFFICES ASSUME Inv PROVE TypeOK
    OBVIOUS
  <2>1. IsForest(objects)
    BY DEF Inv, ObjectsInOrder, IsGrove
  <2>2. /\ NodesFit(objects, nodeOf) /\ (keeps => NoNodeIsShared(nodeOf))
        /\ \A t \in triples : t[2] \in Predicates
    BY DEF Inv, ObjectsInOrder, StoreInOrder, InOrder, Fits
  <2>3. ASSUME NEW o \in Object
        PROVE  /\ nodeOf[o] # Nothing => objects[o].alive
               /\ nodeOf[o] # Nothing /\ IsUri(nodeOf[o]) => objects[o].uri = nodeOf[o]
               /\ keeps => \A p \in Object : nodeOf[o] = nodeOf[p] /\ nodeOf[o] # Nothing => o = p
    BY <2>2 DEF NodesFit, NoNodeIsShared, Living
  <2>4. \A t \in triples : t[2] \in {"type", "parent", "follows", "lit", "ref", "list", "first", "rest"}
    BY <2>2 DEF Predicates, Cells
  <2>5. stored \subseteq Living(objects) /\ edits <= MaxEdits /\ calls <= MaxCalls
    BY DEF Inv, Bounded, StoredLive
  <2>. QED  BY <2>1, <2>3, <2>4, <2>5 DEF TypeOK
<1>. QED  BY <1>1, InvHolds, PTL

\* A list's node goes when the last triple that refers to it goes: where objects have
\* URIs, no blank node is left in the store that nothing refers to.
THEOREM NoListNodeIsLost == Spec => []NoListIsLeftBehind
<1>1. Inv => NoListIsLeftBehind
  BY DEF Inv, StoreInOrder, InOrder, NoneLost, NoListIsLeftBehind
<1>. QED  BY <1>1, InvHolds, PTL

\* A call that stores some objects leaves the triples about every other that has a
\* URI already, and the URI.
THEOREM OthersAreLeftAlone == Spec => OnlyWhatIsAskedIsRewritten
<1>. DEFINE Left == \A o \in Object :
                asked' # {} /\ keeps /\ o \notin asked' /\ IsUri(nodeOf[o]) =>
                    /\ nodeOf'[o] = nodeOf[o]
                    /\ About(triples', nodeOf[o]) = About(triples, nodeOf[o])
<1>1. ASSUME Inv, StoreObjects PROVE Left
  <2>. SUFFICES ASSUME keeps, NEW o \in Object, o \notin asked', IsUri(nodeOf[o])
                PROVE  /\ nodeOf'[o] = nodeOf[o]
                       /\ About(triples', nodeOf[o]) = About(triples, nodeOf[o])
    OBVIOUS
  <2>. DEFINE s == StorerState(nodeOf)
  <2>1. PICK order \in Orders :
          LET call == Store(s, Ordered(asked', order), order)
          IN  /\ asked' \in SUBSET Living(objects)
              /\ triples' = call.s.T /\ nodeOf' = call.s.map
    BY <1>1, StoreInParts
  <2>2. s.T = triples /\ s.O = objects /\ s.map = nodeOf
    BY StorerStateFields
  <2>3. Stage(s, {}) /\ NoNodeIsShared(s.map) /\ UrisAreNodes(s.O, s.map)
    <3>1. Stage(s, {})
      <4>. DEFINE map == nodeOf
      <4>1. map = nodeOf
        OBVIOUS
      <4>. HIDE DEF map
      <4>2. Stage(StorerState(map), {})
        BY <1>1, <4>1, BeginsInOrder
      <4>. QED  BY <4>1, <4>2
    <3>2. outcome = "returns"
      BY <1>1 DEF StoreObjects, Call
    <3>. QED  BY <1>1, <2>2, <3>1, <3>2 DEF Inv, ObjectsInOrder
  <2>. HIDE DEF s
  <2>. DEFINE S == asked'
              call == Store(s, Ordered(S, order), order)
  <2>4. S \in SUBSET Living(s.O) /\ o \notin S /\ triples' = call.s.T /\ nodeOf' = call.s.map
    BY <2>1, <2>2
  <2>. HIDE DEF S
  <2>5. HasStored(s, call, S)
    BY <2>3, <2>4, CallHasStored
  <2>. HIDE DEF call
  <2>6. s.map[o] # Nothing /\ ~IsBlank(s.map[o])
    BY <2>2 DEF IsUri, IsBlank, Nothing
  <2>. QED  BY <2>2, <2>3, <2>4, <2>5, <2>6 DEF HasStored
<1>2. ASSUME [Next]_vars, ~StoreObjects PROVE Left
  <2>1. CASE UNCHANGED vars
    BY <2>1 DEF vars
  <2>2. CASE Edit
    BY <2>2 DEF Edit
  <2>3. CASE Reload
    BY <2>3 DEF Reload
  <2>. QED
    BY <1>2, <2>1, <2>2, <2>3
       DEF Next, SetProperty, Reparent, Destroy, SomeoneSetsLiteral, SomeoneChangesType, SomeoneRemovesObject
<1>3. Inv /\ [Next]_vars => Left
  BY <1>1, <1>2
<1>. QED  BY <1>3, InvHolds, PTL DEF Spec, OnlyWhatIsAskedIsRewritten

\* Storing the objects of the last call again, in whatever order, writes the same
\* triples but for the nodes of lists, where objects have URIs and the client keeps
\* its map.
THEOREM StoringAgainIsIdempotent == Spec => []StoringAgainChangesNothing
<1>1. Inv => StoringAgainChangesNothing
  <2>. SUFFICES ASSUME Inv, asked # {}, keeps, policy.bp # "PermitBlankObjectNodes", NEW order \in Orders
                PROVE  \E r \in {Store(StorerState(nodeOf), Ordered(asked, order), order)} :
                           Plain(r.s.T) = Plain(triples) /\ r.s.map = nodeOf
    BY DEF StoringAgainChangesNothing
  <2>. DEFINE s == StorerState(nodeOf)
              call == Store(s, Ordered(asked, order), order)
  <2>1. s.T = triples /\ s.O = objects /\ s.map = nodeOf /\ s.bp = policy.bp
    BY StorerStateFields
  <2>2. Stage(s, {})
    <3>. DEFINE map == nodeOf
    <3>1. map = nodeOf
      OBVIOUS
    <3>. HIDE DEF map
    <3>2. Stage(StorerState(map), {})
      BY <3>1, BeginsInOrder
    <3>. QED  BY <3>1, <3>2
  <2>. HIDE DEF s
  <2>3. /\ asked \in SUBSET Living(s.O)
        /\ \E V \in SUBSET Living(objects) :
              asked \subseteq V /\ IsClosed(s, V) /\ \A o \in V : s.map[o] # Nothing
        /\ \A o \in asked : Settled(s.T, s, o)
    BY <2>1 DEF Inv, AskedAreSettled, s
  <2>4. PICK V : asked \subseteq V /\ IsClosed(s, V) /\ \A o \in V : s.map[o] # Nothing
    BY <2>3
  <2>5. Plain(call.s.T) = Plain(s.T) /\ call.s.map = s.map
    <3>. DEFINE S == asked
    <3>1. /\ S \in SUBSET Living(s.O) /\ S \subseteq V /\ \A o \in S : Settled(s.T, s, o)
          /\ s.bp # "PermitBlankObjectNodes"
      BY <2>1, <2>3, <2>4
    <3>. HIDE DEF S
    <3>2. Plain(Store(s, Ordered(S, order), order).s.T) = Plain(s.T)
          /\ Store(s, Ordered(S, order), order).s.map = s.map
      BY <2>2, <2>4, <3>1, CallStoresAgain
    <3>. QED  BY <3>2 DEF S
  <2>. QED  BY <2>1, <2>5 DEF s
<1>. QED  BY <1>1, InvHolds, PTL

\* An object that was asked for and loaded has what the store says of its node,
\* whatever the objects were before, and one that is no longer in the store is gone.
THEOREM ReloadedObjectsHaveWhatTheStoreSays == Spec => []ReloadedObjectsAgree
<1>1. Init => ReloadedObjectsAgree
  BY DEF Init, ReloadedObjectsAgree
<1>2. Inv /\ ReloadedObjectsAgree /\ [Next]_vars => ReloadedObjectsAgree'
  <2>. SUFFICES ASSUME Inv, ReloadedObjectsAgree, [Next]_vars PROVE ReloadedObjectsAgree'
    OBVIOUS
  <2>1. CASE Reload
    BY <2>1, ReloadedAgree
  <2>2. CASE StoreObjects \/ Edit
    <3>1. loaded' = {}
      BY <2>2 DEF StoreObjects, Edit
    <3>. QED  BY <3>1 DEF ReloadedObjectsAgree
  <2>3. CASE UNCHANGED vars
    <3>1. /\ triples' = triples /\ objects' = objects /\ policy' = policy
          /\ outcome' = outcome /\ loaded' = loaded /\ nodeOf' = nodeOf
      BY <2>3 DEF vars
    <3>2. ObjectOfNode' = ObjectOfNode
      BY <3>1 DEF ObjectOfNode
    <3>3. \A n : ObjectFor(n)' = ObjectFor(n)
      BY <3>2 DEF ObjectFor
    <3>4. AllTypesAreKnown' <=> AllTypesAreKnown
      BY <3>1 DEF AllTypesAreKnown
    <3>5. ASSUME NEW n, Agrees(triples, objects, ObjectFor, n, policy.ap)
          PROVE  Agrees(triples, objects, ObjectFor, n, policy.ap)'
      <4>1. AgreesWith(triples, objects, ObjectOfNode, n, policy.ap)
        BY <3>5 DEF AgreesWith, Agrees, ElementsIn, ObjectFor, Value
      <4>2. AgreesWith(triples', objects', ObjectOfNode', n, policy'.ap)
        BY <3>1, <3>2, <4>1
      <4>. QED  BY <4>2 DEF AgreesWith, Agrees, ElementsIn, ObjectFor, Value
    <3>. QED  BY <3>1, <3>3, <3>4, <3>5 DEF ReloadedObjectsAgree
  <2>. QED
    BY <2>1, <2>2, <2>3
       DEF Next, SetProperty, Reparent, Destroy, SomeoneSetsLiteral, SomeoneChangesType, SomeoneRemovesObject
<1>. QED  BY <1>1, <1>2, InvHolds, PTL DEF Spec

================================================================================
