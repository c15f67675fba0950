---------------------------- MODULE ObjectGraphProofs ----------------------------
(* Facts about objects and triples that the proofs about the storer, the loader   *)
(* and those that use them have in common.                                       *)
EXTENDS ObjectStorer, ObjectLoader, FiniteSetTheorems, TLAPS

-------------------------------------------------------------------------------
(* Sequences.                                                                    *)

LEMMA SequenceOf ==
  ASSUME NEW E, NEW s \in Seq(E)
  PROVE  IsSequence(s) /\ ToSet(s) \subseteq E
<1>1. DOMAIN s = 1..Len(s) /\ Len(s) \in Nat /\ \A i \in 1..Len(s) : s[i] \in E
  OBVIOUS
<1>2. \A i \in 1..Len(s) : s[i] \in ToSet(s)
  BY <1>1 DEF ToSet
<1>. QED  BY <1>1, <1>2 DEF IsSequence, ToSet

LEMMA FiniteImage ==
  ASSUME NEW S, IsFiniteSet(S), NEW f
  PROVE  IsFiniteSet({f[x] : x \in S})
<1>. DEFINE T == {f[x] : x \in S}
            g == [x \in S |-> f[x]]
<1>1. g \in Surjection(S, T)
  BY DEF Surjection
<1>. QED  BY <1>1, FS_Surjection

LEMMA SequenceDomain ==
  ASSUME NEW s, IsSequence(s)
  PROVE  /\ Len(s) \in Nat /\ DOMAIN s = 1..Len(s)
         /\ \A i \in 1..Len(s) : s[i] \in ToSet(s)
         /\ IsFiniteSet(ToSet(s))
<1>1. Len(s) \in Nat /\ DOMAIN s = 1..Len(s)
  BY DEF IsSequence
<1>2. IsFiniteSet(1..Len(s))
  BY <1>1, FS_Interval
<1>. QED  BY <1>1, <1>2, FiniteImage DEF ToSet

LEMMA SequenceIn ==
  ASSUME NEW s, IsSequence(s), NEW E, ToSet(s) \subseteq E
  PROVE  s \in Seq(E)
<1>1. Len(s) \in Nat /\ DOMAIN s = 1..Len(s) /\ \A i \in 1..Len(s) : s[i] \in E
  BY SequenceDomain
<1>2. s = [i \in 1..Len(s) |-> s[i]]
  BY <1>1 DEF IsSequence
<1>. QED  BY <1>1, <1>2

AmongFold == INSTANCE FoldTheorems
    WITH Op <- LAMBDA c, x, S : IF x \in S THEN Append(c, x) ELSE c, Inv <- LAMBDA x, k, p : TRUE

LEMMA AmongIsFold ==
  ASSUME NEW seq, NEW S
  PROVE  Among(seq, S) = AmongFold!Fold(<<>>, seq, S)
  BY DEF Among, FoldLeft, MapThenFoldSet, Max, AmongFold!Fold, AmongFold!Largest

LEMMA AmongIsSequence ==
  ASSUME NEW seq, IsSequence(seq), NEW S
  PROVE  IsSequence(Among(seq, S)) /\ ToSet(Among(seq, S)) \subseteq ToSet(seq) \cap S
<1>. DEFINE T == Seq(ToSet(seq) \cap S)
<1>1. <<>> \in T
  OBVIOUS
<1>2. ASSUME NEW c \in T, NEW x \in ToSet(seq)
      PROVE  (IF x \in S THEN Append(c, x) ELSE c) \in T
  OBVIOUS
<1>3. AmongFold!Fold(<<>>, seq, S) \in T
  <2>. HIDE DEF T
  <2>. QED  BY <1>1, <1>2, AmongFold!FoldKeeps DEF IsSequence
<1>. QED  BY <1>3, AmongIsFold, SequenceOf

LEMMA SetToSeqIsSequence ==
  ASSUME NEW S, IsFiniteSet(S)
  PROVE  SetToSeq(S) \in Seq(S) /\ ToSet(SetToSeq(S)) = S
<1>. DEFINE D == 1..Cardinality(S)
            f == SetToSeq(S)
<1>1. Cardinality(S) \in Nat /\ ExistsBijection(D, S)
  BY FS_CardinalityType
<1>2. f \in [D -> S] /\ f \in Injection(D, S)
  BY <1>1 DEF SetToSeq, ExistsBijection, Bijection, Injection, IsInjective
<1>. HIDE DEF f
<1>3. f \in Seq(S)
  BY <1>1, <1>2
<1>4. IsFiniteSet(D) /\ Cardinality(D) = Cardinality(S)
  BY <1>1, FS_Interval
<1>5. f \in Surjection(D, S)
  BY <1>2, <1>4, FS_Injection
<1>6. ToSet(f) = S
  BY <1>2, <1>5 DEF Surjection, ToSet
<1>. QED  BY <1>3, <1>6 DEF f

LEMMA OrderedIsSequence ==
  ASSUME NEW S, IsFiniteSet(S), NEW order
  PROVE  Ordered(S, order) \in Seq(S) /\ ToSet(Ordered(S, order)) = S
<1>. DEFINE f == SetToSeq(S)
<1>1. f \in Seq(S) /\ ToSet(f) = S
  BY SetToSeqIsSequence
<1>. HIDE DEF f
<1>2. /\ Len(f) \in Nat /\ DOMAIN f = 1..Len(f)
      /\ \A i \in 1..Len(f) : Len(f) - i + 1 \in 1..Len(f) /\ Len(f) - (Len(f) - i + 1) + 1 = i
  BY <1>1
<1>3. Reverse(f) \in Seq(S)
  BY <1>1, <1>2 DEF Reverse
<1>4. ToSet(Reverse(f)) = ToSet(f)
  BY <1>2 DEF Reverse, ToSet
<1>. QED  BY <1>1, <1>3, <1>4 DEF Ordered, f

-------------------------------------------------------------------------------
(* Nodes and objects.                                                            *)

LEMMA FreshIsNew ==
  ASSUME NEW used, IsFiniteSet(used), NEW kind
  PROVE  Fresh(kind, used) \notin used /\ Fresh(kind, used)[1] = kind
<1>. DEFINE S == {m \in used : m[1] = kind}
            second == [n \in S |-> n[2]]
            numbers == {n[2] : n \in S}
            I == 1..Cardinality(numbers) + 1
            k == CHOOSE j \in I : j \notin numbers
<1>1. IsFiniteSet(S)
  BY FS_Subset
<1>2. IsFiniteSet(numbers)
  <2>1. numbers = {second[n] : n \in S}
    OBVIOUS
  <2>. HIDE DEF numbers, second
  <2>. QED  BY <1>1, <2>1, FiniteImage
<1>. HIDE DEF numbers
<1>3. Cardinality(numbers) \in Nat
  BY <1>2, FS_CardinalityType
<1>. DEFINE N == Cardinality(numbers) + 1
<1>4. IsFiniteSet(1..N) /\ Cardinality(1..N) = N
  <2>. HIDE DEF N
  <2>1. N \in Nat \ {0}
    BY <1>3 DEF N
  <2>. QED  BY <2>1, FS_Interval
<1>5. \E j \in I : j \notin numbers
  <2>1. SUFFICES ASSUME I \in SUBSET numbers PROVE FALSE
    OBVIOUS
  <2>2. Cardinality(I) <= Cardinality(numbers)
    BY <1>2, <2>1, FS_Subset
  <2>. QED  BY <1>3, <1>4, <2>2
<1>6. k \notin numbers
  BY <1>5
<1>7. Fresh(kind, used) = <<kind, k>>
  BY DEF Fresh, numbers
<1>. HIDE DEF k
<1>8. <<kind, k>> \notin used
  BY <1>6 DEF numbers
<1>. QED  BY <1>7, <1>8

\* What a change leaves of the objects: they live on, with their URIs.
SameLives(O, P) == \A o \in Object : P[o].alive = O[o].alive /\ P[o].uri = O[o].uri

LEMMA ChangeOfOne ==
  ASSUME NEW O, IsGraph(O), NEW o \in Object, NEW r, IsObjectRecord(r),
         r.alive = O[o].alive, r.uri # Nothing => IsUri(r.uri), r.ref # Null => r.ref \in Living(O),
         IsSequence(r.list), \A x \in Object : ToObject(x) \in ToSet(r.list) => x \in Living(O)
  PROVE  /\ IsGraph([O EXCEPT ![o] = r])
         /\ Living([O EXCEPT ![o] = r]) = Living(O)
         /\ r.uri = O[o].uri => SameLives(O, [O EXCEPT ![o] = r])
<1>. DEFINE P == [O EXCEPT ![o] = r]
<1>1. P = [x \in Object |-> IF x = o THEN r ELSE O[x]]
  BY DEF IsGraph
<1>. HIDE DEF P
<1>2. r.uri = O[o].uri => SameLives(O, P)
  BY <1>1 DEF SameLives
<1>3. Living(P) = Living(O)
  BY <1>1 DEF Living
<1>4. P = [x \in Object |-> P[x]]
  BY <1>1
<1>5. ASSUME NEW x \in Object
      PROVE  /\ IsObjectRecord(P[x]) /\ P[x].alive \in BOOLEAN
             /\ P[x].uri # Nothing => IsUri(P[x].uri)
             /\ P[x].ref # Null => P[x].ref \in Living(P)
             /\ IsSequence(P[x].list)
             /\ \A y \in Object : ToObject(y) \in ToSet(P[x].list) => y \in Living(P)
  BY <1>1, <1>3 DEF IsGraph
<1>. QED  BY <1>2, <1>3, <1>4, <1>5 DEF IsGraph, P

LEMMA ChangeInTree ==
  ASSUME NEW O, IsGraph(O), NEW q, NEW x
  PROVE  /\ IsGraph([O EXCEPT ![q].parent = x]) /\ SameLives(O, [O EXCEPT ![q].parent = x])
         /\ IsGraph([O EXCEPT ![q].children = x]) /\ SameLives(O, [O EXCEPT ![q].children = x])
<1>1. CASE q \in Object
  <2>. DEFINE r == [O[q] EXCEPT !.parent = x]
              s == [O[q] EXCEPT !.children = x]
  <2>1. IsObjectRecord(O[q])
    BY <1>1 DEF IsGraph
  <2>2. /\ O[q].uri # Nothing => IsUri(O[q].uri)
        /\ O[q].ref # Null => O[q].ref \in Living(O)
        /\ IsSequence(O[q].list)
        /\ \A y \in Object : ToObject(y) \in ToSet(O[q].list) => y \in Living(O)
    BY <1>1 DEF IsGraph
  <2>3. /\ IsObjectRecord(r) /\ r.alive = O[q].alive /\ r.uri = O[q].uri
        /\ r.ref = O[q].ref /\ r.list = O[q].list
        /\ IsObjectRecord(s) /\ s.alive = O[q].alive /\ s.uri = O[q].uri
        /\ s.ref = O[q].ref /\ s.list = O[q].list
    BY <2>1 DEF IsObjectRecord
  <2>. HIDE DEF r, s
  <2>4. /\ IsGraph([O EXCEPT ![q] = r]) /\ SameLives(O, [O EXCEPT ![q] = r])
        /\ IsGraph([O EXCEPT ![q] = s]) /\ SameLives(O, [O EXCEPT ![q] = s])
    BY <1>1, <2>2, <2>3, ChangeOfOne
  <2>. QED  BY <2>4 DEF r, s
<1>2. CASE q \notin Object
  <2>1. [O EXCEPT ![q].parent = x] = O /\ [O EXCEPT ![q].children = x] = O
    BY <1>2 DEF IsGraph
  <2>. QED  BY <2>1 DEF SameLives
<1>. QED  BY <1>1, <1>2

LEMMA SetParentKeeps ==
  ASSUME NEW O, IsGraph(O), NEW o, NEW p
  PROVE  IsGraph(SetParent(O, o, p)) /\ SameLives(O, SetParent(O, o, p))
<1>1. IsGraph(Orphan(O, o)) /\ SameLives(O, Orphan(O, o))
  <2>. DEFINE P == [O EXCEPT ![o].parent = Null]
              q == O[o].parent
              c == Without(P[q].children, o)
  <2>1. Orphan(O, o) = [P EXCEPT ![q].children = c]
    BY DEF Orphan
  <2>2. IsGraph(P) /\ SameLives(O, P)
    BY ChangeInTree
  <2>. HIDE DEF P, q, c
  <2>3. IsGraph([P EXCEPT ![q].children = c]) /\ SameLives(P, [P EXCEPT ![q].children = c])
    BY <2>2, ChangeInTree
  <2>. QED  BY <2>1, <2>2, <2>3 DEF SameLives
<1>2. ASSUME NEW P, IsGraph(P)
      PROVE  LET Q == [P EXCEPT ![o].parent = p, ![p].children = Append(@, o)]
             IN  IsGraph(Q) /\ SameLives(P, Q)
  <2>. DEFINE R == [P EXCEPT ![o].parent = p]
              c == Append(R[p].children, o)
  <2>1. [P EXCEPT ![o].parent = p, ![p].children = Append(@, o)] = [R EXCEPT ![p].children = c]
    OBVIOUS
  <2>2. IsGraph(R) /\ SameLives(P, R)
    BY <1>2, ChangeInTree
  <2>. HIDE DEF R, c
  <2>3. IsGraph([R EXCEPT ![p].children = c]) /\ SameLives(R, [R EXCEPT ![p].children = c])
    BY <2>2, ChangeInTree
  <2>. QED  BY <2>1, <2>2, <2>3 DEF SameLives
<1>3. SameLives(O, O)
  BY DEF SameLives
<1>. DEFINE alone == IF O[o].parent = Null THEN O ELSE Orphan(O, o)
<1>4. IsGraph(alone) /\ SameLives(O, alone)
  BY <1>1, <1>3
<1>5. SetParent(O, o, p) = IF p = Null THEN alone
                           ELSE [alone EXCEPT ![o].parent = p, ![p].children = Append(@, o)]
  BY DEF SetParent
<1>. HIDE DEF alone
<1>6. CASE p = Null
  BY <1>4, <1>5, <1>6
<1>7. CASE p # Null
  <2>. DEFINE Q == [alone EXCEPT ![o].parent = p, ![p].children = Append(@, o)]
  <2>1. IsGraph(Q) /\ SameLives(alone, Q)
    BY <1>2, <1>4
  <2>. HIDE DEF Q
  <2>2. SameLives(O, Q)
    BY <1>4, <2>1 DEF SameLives
  <2>. QED  BY <1>5, <1>7, <2>1, <2>2 DEF Q
<1>. QED  BY <1>6, <1>7

\* What deleting leaves.
LEMMA DeleteLeaves ==
  ASSUME NEW O, IsGraph(O), NEW o \in Object
  PROVE  /\ IsGraph(Delete(O, o))
         /\ Living(Delete(O, o)) = Living(O) \ Family(O, o)
         /\ \A x \in Living(O) \ Family(O, o) : Delete(O, o)[x].uri = O[x].uri
         /\ o \in Family(O, o) /\ Family(O, o) \subseteq Object
<1>. DEFINE gone == Family(O, o)
            P == Delete(O, o)
            Kept(x) == [O[x] EXCEPT !.children = Without(@, o),
                                    !.ref = IF @ \in gone THEN Null ELSE @,
                                    !.list = Among(@, ToSet(@) \ {ToObject(y) : y \in gone})]
<1>1. o \in gone /\ gone \subseteq Object
  BY DEF Family
<1>2. P = [x \in Object |-> IF x \in gone THEN Dead ELSE Kept(x)]
  BY DEF Delete
<1>. HIDE DEF gone, P
<1>3. IsObjectRecord(Dead) /\ Dead.alive = FALSE /\ Dead.uri = Nothing /\ Dead.ref = Null
      /\ Dead.list = <<>>
  BY DEF Dead, IsObjectRecord
<1>4. ASSUME NEW x \in Object
      PROVE  /\ IsObjectRecord(Kept(x)) /\ Kept(x).alive = O[x].alive /\ Kept(x).uri = O[x].uri
             /\ Kept(x).ref = IF O[x].ref \in gone THEN Null ELSE O[x].ref
             /\ Kept(x).list = Among(O[x].list, ToSet(O[x].list) \ {ToObject(y) : y \in gone})
  <2>. DEFINE c == Without(O[x].children, o)
              f == IF O[x].ref \in gone THEN Null ELSE O[x].ref
              l == Among(O[x].list, ToSet(O[x].list) \ {ToObject(y) : y \in gone})
  <2>1. IsObjectRecord(O[x])
    BY DEF IsGraph
  <2>2. Kept(x) = [O[x] EXCEPT !.children = c, !.ref = f, !.list = l]
    OBVIOUS
  <2>. HIDE DEF Kept, c, f, l
  <2>3. /\ IsObjectRecord(Kept(x)) /\ Kept(x).alive = O[x].alive /\ Kept(x).uri = O[x].uri
        /\ Kept(x).ref = f /\ Kept(x).list = l
    BY <2>1, <2>2 DEF IsObjectRecord
  <2>. QED  BY <2>3 DEF f, l
<1>. HIDE DEF Kept
<1>5. Living(P) = Living(O) \ gone
  BY <1>2, <1>3, <1>4 DEF Living
<1>6. \A x \in Living(O) \ gone : P[x].uri = O[x].uri
  BY <1>2, <1>4 DEF Living
<1>7. IsGraph(P)
  <2>1. P = [x \in Object |-> P[x]]
    BY <1>2
  <2>2. ASSUME NEW x \in Object
        PROVE  /\ IsObjectRecord(P[x]) /\ P[x].alive \in BOOLEAN
               /\ P[x].uri # Nothing => IsUri(P[x].uri)
               /\ P[x].ref # Null => P[x].ref \in Living(P)
               /\ IsSequence(P[x].list)
               /\ \A y \in Object : ToObject(y) \in ToSet(P[x].list) => y \in Living(P)
    <3>1. CASE x \in gone
      <4>1. IsSequence(<<>>) /\ ToSet(<<>>) = {}
        BY DEF IsSequence, ToSet
      <4>. QED  BY <1>2, <1>3, <3>1, <4>1
    <3>2. CASE x \notin gone
      <4>. DEFINE S == ToSet(O[x].list) \ {ToObject(y) : y \in gone}
      <4>1. P[x] = Kept(x)
        BY <1>2, <3>2
      <4>2. IsSequence(O[x].list)
        BY DEF IsGraph
      <4>3. IsSequence(P[x].list) /\ ToSet(P[x].list) \subseteq ToSet(O[x].list) \cap S
        <5>1. P[x].list = Among(O[x].list, S)
          BY <1>4, <4>1
        <5>. HIDE DEF S
        <5>. QED  BY <4>2, <5>1, AmongIsSequence
      <4>4. \A y \in Object : ToObject(y) \in ToSet(P[x].list) => y \in Living(P)
        BY <1>5, <4>3 DEF IsGraph
      <4>5. P[x].ref # Null => P[x].ref \in Living(P)
        BY <1>4, <1>5, <4>1 DEF IsGraph
      <4>. QED  BY <1>4, <4>1, <4>3, <4>4, <4>5 DEF IsGraph
    <3>. QED  BY <3>1, <3>2
  <2>. QED  BY <2>1, <2>2 DEF IsGraph
<1>. QED  BY <1>1, <1>5, <1>6, <1>7 DEF gone, P

\* What a new object adds.
LEMMA NewObject ==
  ASSUME NEW O, IsGraph(O), NEW o \in Object \ Living(O), NEW n, IsUri(n), NEW p
  PROVE  LET P == SetParent([O EXCEPT ![o] = New(n)], o, p)
         IN  /\ IsGraph(P)
             /\ Living(P) = Living(O) \cup {o} /\ P[o].uri = n
             /\ \A x \in Living(O) : P[x].uri = O[x].uri
<1>. DEFINE M == [O EXCEPT ![o] = New(n)]
            P == SetParent(M, o, p)
<1>1. M = [x \in Object |-> IF x = o THEN New(n) ELSE O[x]]
  BY DEF IsGraph
<1>. HIDE DEF M
<1>2. /\ IsObjectRecord(New(n)) /\ New(n).alive = TRUE /\ New(n).uri = n
      /\ New(n).ref = Null /\ New(n).list = <<>>
  <2>1. IsObjectRecord(Dead) /\ Dead.ref = Null /\ Dead.list = <<>>
    BY DEF Dead, IsObjectRecord
  <2>2. ASSUME NEW d, IsObjectRecord(d), NEW b
        PROVE  LET r == [d EXCEPT !.alive = b, !.uri = n]
               IN  /\ IsObjectRecord(r) /\ r.alive = b /\ r.uri = n
                   /\ r.ref = d.ref /\ r.list = d.list
    <3>. DEFINE e == [d EXCEPT !.alive = b]
    <3>1. /\ IsObjectRecord(e) /\ e.alive = b /\ e.ref = d.ref /\ e.list = d.list
          /\ [d EXCEPT !.alive = b, !.uri = n] = [e EXCEPT !.uri = n]
      BY <2>2 DEF IsObjectRecord
    <3>. DEFINE f == [e EXCEPT !.uri = n]
    <3>. HIDE DEF e
    <3>2. IsObjectRecord(f) /\ f.alive = e.alive /\ f.uri = n /\ f.ref = e.ref /\ f.list = e.list
      BY <3>1 DEF IsObjectRecord
    <3>. HIDE DEF f
    <3>. QED  BY <3>1, <3>2 DEF f
  <2>. QED  BY <2>1, <2>2 DEF New
<1>3. Living(M) = Living(O) \cup {o}
  BY <1>1, <1>2 DEF Living
<1>4. IsGraph(M)
  <2>1. M = [x \in Object |-> M[x]]
    BY <1>1
  <2>2. ASSUME NEW x \in Object
        PROVE  /\ IsObjectRecord(M[x]) /\ M[x].alive \in BOOLEAN
               /\ M[x].uri # Nothing => IsUri(M[x].uri)
               /\ M[x].ref # Null => M[x].ref \in Living(M)
               /\ IsSequence(M[x].list)
               /\ \A y \in Object : ToObject(y) \in ToSet(M[x].list) => y \in Living(M)
    <3>1. CASE x = o
      <4>1. IsSequence(<<>>) /\ ToSet(<<>>) = {}
        BY DEF IsSequence, ToSet
      <4>. QED  BY <1>1, <1>2, <3>1, <4>1
    <3>2. CASE x # o
      <4>1. M[x] = O[x]
        BY <1>1, <3>2
      <4>. QED  BY <1>3, <4>1 DEF IsGraph
    <3>. QED  BY <3>1, <3>2
  <2>. QED  BY <2>1, <2>2 DEF IsGraph
<1>5. IsGraph(P) /\ SameLives(M, P)
  BY <1>4, SetParentKeeps
<1>6. /\ Living(P) = Living(M) /\ P[o].uri = M[o].uri
      /\ \A x \in Living(O) : P[x].uri = M[x].uri
  BY <1>5 DEF SameLives, Living
<1>7. M[o].uri = n /\ \A x \in Living(O) : M[x].uri = O[x].uri
  BY <1>1, <1>2 DEF Living
<1>. QED  BY <1>3, <1>5, <1>6, <1>7 DEF M

LEMMA OrderedDomain ==
  ASSUME NEW S, IsFiniteSet(S), NEW order
  PROVE  Len(Ordered(S, order)) \in Nat /\ DOMAIN Ordered(S, order) = 1..Len(Ordered(S, order))
<1>. DEFINE seq == Ordered(S, order)
<1>1. seq \in Seq(S)
  BY OrderedIsSequence
<1>. HIDE DEF seq
<1>2. Len(seq) \in Nat /\ DOMAIN seq = 1..Len(seq)
  BY <1>1
<1>. QED  BY <1>2 DEF seq

-------------------------------------------------------------------------------
(* Changes of values.                                                            *)

\* What the values of an object's properties may become.
LEMMA ChangeOfValues ==
  ASSUME NEW O, IsGraph(O), NEW o \in Object,
         NEW lit, NEW ref, ref # Null => ref \in Living(O),
         NEW list, IsSequence(list), \A x \in Object : ToObject(x) \in ToSet(list) => x \in Living(O)
  PROVE  /\ IsGraph([O EXCEPT ![o].lit = lit]) /\ SameLives(O, [O EXCEPT ![o].lit = lit])
         /\ IsGraph([O EXCEPT ![o].ref = ref]) /\ SameLives(O, [O EXCEPT ![o].ref = ref])
         /\ IsGraph([O EXCEPT ![o].list = list]) /\ SameLives(O, [O EXCEPT ![o].list = list])
<1>. DEFINE r == [O[o] EXCEPT !.lit = lit]
            s == [O[o] EXCEPT !.ref = ref]
            t == [O[o] EXCEPT !.list = list]
<1>1. IsObjectRecord(O[o])
  BY DEF IsGraph
<1>2. /\ O[o].uri # Nothing => IsUri(O[o].uri)
      /\ O[o].ref # Null => O[o].ref \in Living(O)
      /\ IsSequence(O[o].list)
      /\ \A y \in Object : ToObject(y) \in ToSet(O[o].list) => y \in Living(O)
  BY DEF IsGraph
<1>3. /\ IsObjectRecord(r) /\ r.alive = O[o].alive /\ r.uri = O[o].uri
      /\ r.ref = O[o].ref /\ r.list = O[o].list
      /\ IsObjectRecord(s) /\ s.alive = O[o].alive /\ s.uri = O[o].uri
      /\ s.ref = ref /\ s.list = O[o].list
      /\ IsObjectRecord(t) /\ t.alive = O[o].alive /\ t.uri = O[o].uri
      /\ t.ref = O[o].ref /\ t.list = list
  BY <1>1 DEF IsObjectRecord
<1>. HIDE DEF r, s, t
<1>4. IsGraph([O EXCEPT ![o] = r]) /\ SameLives(O, [O EXCEPT ![o] = r])
  BY <1>2, <1>3, ChangeOfOne
<1>5. IsGraph([O EXCEPT ![o] = s]) /\ SameLives(O, [O EXCEPT ![o] = s])
  BY <1>2, <1>3, ChangeOfOne
<1>6. IsGraph([O EXCEPT ![o] = t]) /\ SameLives(O, [O EXCEPT ![o] = t])
  BY <1>2, <1>3, ChangeOfOne
<1>. QED  BY <1>4, <1>5, <1>6 DEF r, s, t

LEMMA PropertyObjectsLive ==
  ASSUME NEW O, IsGraph(O), NEW o \in Object
  PROVE  PropertyObjectsOf(O, o) \in Seq(Living(O))
<1>. DEFINE S == {ToObject(x) : x \in Object}
            elements == Among(O[o].list, S)
            ref == IF O[o].ref = Null THEN <<>> ELSE <<O[o].ref>>
            found == [i \in DOMAIN elements |-> elements[i][2]]
<1>1. IsSequence(elements) /\ ToSet(elements) \subseteq ToSet(O[o].list) \cap S
  <2>1. IsSequence(O[o].list)
    BY DEF IsGraph
  <2>. HIDE DEF S
  <2>. QED  BY <2>1, AmongIsSequence
<1>2. ref \in Seq(Living(O))
  <2>1. O[o].ref # Null => O[o].ref \in Living(O)
    BY DEF IsGraph
  <2>. QED  BY <2>1
<1>. HIDE DEF elements, ref
<1>3. /\ Len(elements) \in Nat /\ DOMAIN elements = 1..Len(elements)
      /\ \A i \in 1..Len(elements) : elements[i] \in ToSet(elements)
  BY <1>1, SequenceDomain
<1>4. ASSUME NEW i \in 1..Len(elements) PROVE elements[i][2] \in Living(O)
  <2>1. elements[i] \in ToSet(O[o].list) /\ elements[i] \in S
    BY <1>1, <1>3
  <2>2. PICK x \in Object : elements[i] = ToObject(x)
    BY <2>1
  <2>3. x \in Living(O)
    BY <2>1, <2>2 DEF IsGraph
  <2>. QED  BY <2>2, <2>3 DEF ToObject
<1>5. found \in Seq(Living(O))
  BY <1>3, <1>4
<1>6. PropertyObjectsOf(O, o) = ref \o found
  BY DEF PropertyObjectsOf, elements, ref
<1>. HIDE DEF found
<1>. QED  BY <1>2, <1>5, <1>6

LEMMA GiveUri ==
  ASSUME NEW O, IsGraph(O), NEW o \in Object, NEW u, IsUri(u)
  PROVE  LET P == [O EXCEPT ![o].uri = u]
         IN  /\ IsGraph(P) /\ Living(P) = Living(O)
             /\ \A x \in Object : P[x].uri = IF x = o THEN u ELSE O[x].uri
<1>. DEFINE r == [O[o] EXCEPT !.uri = u]
            P == [O EXCEPT ![o] = r]
<1>1. IsObjectRecord(O[o])
  BY DEF IsGraph
<1>2. IsObjectRecord(r) /\ r.alive = O[o].alive /\ r.uri = u /\ r.ref = O[o].ref /\ r.list = O[o].list
  BY <1>1 DEF IsObjectRecord
<1>. HIDE DEF r
<1>3. /\ O[o].ref # Null => O[o].ref \in Living(O)
      /\ IsSequence(O[o].list)
      /\ \A y \in Object : ToObject(y) \in ToSet(O[o].list) => y \in Living(O)
  BY DEF IsGraph
<1>4. IsGraph(P) /\ Living(P) = Living(O)
  BY <1>2, <1>3, ChangeOfOne
<1>5. \A x \in Object : P[x].uri = IF x = o THEN u ELSE O[x].uri
  BY <1>2 DEF IsGraph
<1>. HIDE DEF P
<1>6. P = [O EXCEPT ![o].uri = u]
  BY DEF P, r
<1>. QED  BY <1>4, <1>5, <1>6

LEMMA ObjectsAreFinite == IsFiniteSet(Object)
  BY FS_Interval, ObjectGraphConstants DEF Object

LEMMA NodesAreFinite ==
  ASSUME NEW T, IsFiniteSet(T)
  PROVE  IsFiniteSet(NodesOf(T))
<1>. DEFINE ends == [t \in T |-> {t[1], t[3]}]
            S == {ends[t] : t \in T}
<1>1. IsFiniteSet(S)
  BY FiniteImage
<1>2. \A t \in T : IsFiniteSet({t[1], t[3]})
  <2>. TAKE t \in T
  <2>1. IsFiniteSet({t[1]}) /\ {t[1], t[3]} = {t[1]} \cup {t[3]}
    BY FS_Singleton
  <2>. QED  BY <2>1, FS_AddElement
<1>3. \A A \in S : IsFiniteSet(A)
  BY <1>2
<1>4. NodesOf(T) = UNION S
  BY DEF NodesOf
<1>. HIDE DEF S
<1>. QED  BY <1>1, <1>3, <1>4, FS_UNION

LEMMA NamesAreFinite ==
  ASSUME NEW s, IsFiniteSet(s.used), IsFiniteSet(s.T)
  PROVE  IsFiniteSet(Names(s))
<1>. DEFINE nodes == {s.map[o] : o \in Object}
            uri == [o \in Object |-> s.O[o].uri]
            uris == {uri[o] : o \in Object}
<1>1. IsFiniteSet(nodes)
  BY ObjectsAreFinite, FiniteImage
<1>2. IsFiniteSet(uris)
  BY ObjectsAreFinite, FiniteImage
<1>3. uris = {s.O[o].uri : o \in Object}
  OBVIOUS
<1>. HIDE DEF nodes, uris
<1>4. IsFiniteSet(NodesOf(s.T) \cup s.used)
  BY NodesAreFinite, FS_Union
<1>5. IsFiniteSet(NodesOf(s.T) \cup s.used \cup nodes)
  BY <1>1, <1>4, FS_Union
<1>6. IsFiniteSet(NodesOf(s.T) \cup s.used \cup nodes \cup uris)
  BY <1>2, <1>5, FS_Union
<1>. QED  BY <1>3, <1>6 DEF Names, nodes

-------------------------------------------------------------------------------
(* Removing triples.                                                             *)

LEMMA TimesIsSequence ==
  ASSUME NEW n \in Nat
  PROVE  Times(n) \in Seq(1..n) /\ Len(Times(n)) = n
  BY DEF Times

LEMMA LinksAreFinite ==
  ASSUME NEW T, IsFiniteSet(T), NEW p
  PROVE  Cardinality(Links(T, p)) \in Nat
<1>1. IsFiniteSet(Links(T, p))
  BY FS_Subset DEF Links
<1>. QED  BY <1>1, FS_CardinalityType

RemovalFold == INSTANCE FoldTheorems
    WITH Op <- LAMBDA w, k, T : RemoveNext(w),
         Inv <- LAMBDA w, k, T : w = [T |-> w.T, nodes |-> w.nodes] /\ w.T \subseteq T

LEMMA RemoveUnusedNodeRemoves ==
  ASSUME NEW T, IsFiniteSet(T), NEW n
  PROVE  RemoveUnusedNode(T, n) \in SUBSET T
<1>. DEFINE base == [T |-> T, nodes |-> <<n>>]
            N == Cardinality(Links(T, "rest")) + 1
            w == RemovalFold!Fold(base, Times(N), T)
<1>1. RemoveUnusedNode(T, n) = w.T
  BY DEF RemoveUnusedNode, FoldLeft, MapThenFoldSet, Max, RemovalFold!Fold, RemovalFold!Largest
<1>2. N \in Nat
  BY LinksAreFinite
<1>3. Len(Times(N)) \in Nat /\ DOMAIN Times(N) = 1..Len(Times(N))
  BY <1>2 DEF Times
<1>4. ASSUME NEW v, v = [T |-> v.T, nodes |-> v.nodes], v.T \subseteq T
      PROVE  LET x == RemoveNext(v) IN x = [T |-> x.T, nodes |-> x.nodes] /\ x.T \subseteq T
  BY <1>4 DEF RemoveNext
<1>5. w = [T |-> w.T, nodes |-> w.nodes] /\ w.T \subseteq T
  <2>1. base = [T |-> base.T, nodes |-> base.nodes] /\ base.T \subseteq T
    OBVIOUS
  <2>. HIDE DEF base, N
  <2>. QED  BY <1>3, <1>4, <2>1, RemovalFold!FoldInduction
<1>. QED  BY <1>1, <1>5

LEMMA RemoveOneRemoves ==
  ASSUME NEW T, IsFiniteSet(T), NEW t
  PROVE  RemoveOne(T, t) \in SUBSET (T \ {t})
<1>1. IsFiniteSet(T \ {t})
  BY FS_Subset
<1>2. RemoveUnusedNode(T \ {t}, t[3]) \in SUBSET (T \ {t})
  BY <1>1, RemoveUnusedNodeRemoves
<1>. QED  BY <1>2 DEF RemoveOne

RemoveFold == INSTANCE FoldTheorems
    WITH Op <- LAMBDA T, t, p : RemoveOne(T, t),
         Inv <- LAMBDA x, k, q : x \subseteq q.T /\ \A j \in 1..k : q.seq[j] \notin x

LEMMA RemovePropertyNodesRemoves ==
  ASSUME NEW T, IsFiniteSet(T), NEW n, NEW p, NEW retain
  PROVE  RemovePropertyNodes(T, n, p, retain)
             \in SUBSET (T \ {t \in Match(T, n, p) : t[3] \notin retain})
<1>. DEFINE S == {t \in Match(T, n, p) : t[3] \notin retain}
            seq == SetToSeq(S)
            q == [T |-> T, seq |-> seq]
            R == RemoveFold!Fold(T, seq, 0)
            Holds(x, k) == x \subseteq q.T /\ \A j \in 1..k : q.seq[j] \notin x
<1>1. RemovePropertyNodes(T, n, p, retain) = R
  BY DEF RemovePropertyNodes, FoldLeft, MapThenFoldSet, Max, RemoveFold!Fold, RemoveFold!Largest
<1>2. seq \in Seq(S) /\ ToSet(seq) = S
  <2>1. IsFiniteSet(S)
    BY FS_Subset DEF Match
  <2>. HIDE DEF S
  <2>. QED  BY <2>1, SetToSeqIsSequence
<1>3. q.T = T /\ q.seq = seq
  OBVIOUS
<1>. HIDE DEF seq, q, S
<1>4. Len(seq) \in Nat /\ DOMAIN seq = 1..Len(seq)
  BY <1>2
<1>5. Holds(T, 0)
  BY <1>3
<1>6. ASSUME NEW x, NEW k \in 1..Len(seq), Holds(x, k - 1)
      PROVE  Holds(RemoveOne(x, seq[k]), k)
  <2>1. x \in SUBSET T
    BY <1>3, <1>6
  <2>2. RemoveOne(x, seq[k]) \in SUBSET (x \ {seq[k]})
    BY <2>1, FS_Subset, RemoveOneRemoves
  <2>3. \A j \in 1..k : j \in 1..k - 1 \/ j = k
    BY <1>4
  <2>. QED  BY <1>3, <1>6, <2>1, <2>2, <2>3
<1>7. Holds(R, Len(seq))
  BY <1>4, <1>5, <1>6, RemoveFold!FoldInduction
<1>8. \A t \in S : \E j \in 1..Len(seq) : t = seq[j]
  BY <1>2, <1>4 DEF ToSet
<1>9. R \in SUBSET (T \ S)
  BY <1>3, <1>7, <1>8
<1>. QED  BY <1>1, <1>9 DEF S

ObjectFold == INSTANCE FoldTheorems
    WITH Op <- LAMBDA T, p, n : RemovePropertyNodes(T, n, p, {}),
         Inv <- LAMBDA x, k, q : x \subseteq q.T /\ \A j \in 1..k : Match(x, q.n, q.seq[j]) = {}

LEMMA RemoveObjectRemoves ==
  ASSUME NEW T, IsFiniteSet(T), NEW n
  PROVE  RemoveObject(T, n) \in SUBSET (T \ About(T, n))
<1>. DEFINE S == {t[2] : t \in About(T, n)}
            seq == SetToSeq(S)
            q == [T |-> T, n |-> n, seq |-> seq]
            gone == ObjectFold!Fold(T, seq, n)
            Holds(x, k) == x \subseteq q.T /\ \A j \in 1..k : Match(x, q.n, q.seq[j]) = {}
<1>1. RemoveObject(T, n) = gone \ To(gone, n)
  BY DEF RemoveObject, FoldLeft, MapThenFoldSet, Max, ObjectFold!Fold, ObjectFold!Largest
<1>2. seq \in Seq(S) /\ ToSet(seq) = S
  <2>. DEFINE second == [t \in About(T, n) |-> t[2]]
  <2>1. IsFiniteSet(About(T, n))
    BY FS_Subset DEF About
  <2>2. S = {second[t] : t \in About(T, n)}
    OBVIOUS
  <2>. HIDE DEF second, S
  <2>3. IsFiniteSet(S)
    BY <2>1, <2>2, FiniteImage
  <2>. QED  BY <2>3, SetToSeqIsSequence
<1>3. q.T = T /\ q.n = n /\ q.seq = seq
  OBVIOUS
<1>. HIDE DEF seq, q
<1>4. Len(seq) \in Nat /\ DOMAIN seq = 1..Len(seq)
  BY <1>2
<1>5. Holds(T, 0)
  BY <1>3
<1>6. ASSUME NEW x, NEW k \in 1..Len(seq), Holds(x, k - 1)
      PROVE  Holds(RemovePropertyNodes(x, n, seq[k], {}), k)
  <2>. DEFINE r == RemovePropertyNodes(x, n, seq[k], {})
  <2>1. x \in SUBSET T
    BY <1>3, <1>6
  <2>2. r \in SUBSET (x \ Match(x, n, seq[k]))
    <3>1. IsFiniteSet(x)
      BY <2>1, FS_Subset
    <3>2. r \in SUBSET (x \ {t \in Match(x, n, seq[k]) : t[3] \notin {}})
      BY <3>1, RemovePropertyNodesRemoves
    <3>3. Match(x, n, seq[k]) = {t \in Match(x, n, seq[k]) : t[3] \notin {}}
      OBVIOUS
    <3>. QED  BY <3>2, <3>3
  <2>. HIDE DEF r
  <2>3. Match(r, n, seq[k]) = {} /\ \A j \in 1..k - 1 : Match(r, n, seq[j]) = {}
    BY <1>3, <1>6, <2>2 DEF Match
  <2>4. \A j \in 1..k : j \in 1..k - 1 \/ j = k
    BY <1>4
  <2>5. Holds(r, k)
    BY <1>3, <2>1, <2>2, <2>3, <2>4
  <2>. QED  BY <2>5 DEF r
<1>7. Holds(gone, Len(seq))
  BY <1>4, <1>5, <1>6, ObjectFold!FoldInduction
<1>. HIDE DEF gone
<1>8. ASSUME NEW t \in gone PROVE t \notin About(T, n)
  <2>. SUFFICES ASSUME t \in About(T, n) PROVE FALSE
    OBVIOUS
  <2>1. t[2] \in S /\ t \in Match(gone, n, t[2])
    BY <1>8 DEF About, Match
  <2>2. \E j \in 1..Len(seq) : t[2] = seq[j]
    BY <1>2, <1>4, <2>1 DEF ToSet
  <2>. QED  BY <1>3, <1>7, <2>1, <2>2
<1>. QED  BY <1>1, <1>3, <1>7, <1>8

-------------------------------------------------------------------------------
(* Walks from node to node.                                                      *)

LEMMA ExtendedIsSequence ==
  ASSUME NEW c, IsSequence(c), NEW n
  PROVE  IsSequence(Extended(c, n))
<1>1. IsSequence(<<>>)
  BY DEF IsSequence
<1>2. Append(c, n) \in Seq(ToSet(c) \cup {n})
  <2>1. c \in Seq(ToSet(c) \cup {n})
    BY SequenceIn
  <2>. QED  BY <2>1
<1>3. IsSequence(Append(c, n))
  BY <1>2, SequenceOf
<1>. QED  BY <1>1, <1>3 DEF Extended

LEMMA SingletonIsSequence ==
  ASSUME NEW n
  PROVE  IsSequence(IF n = Nothing THEN <<>> ELSE <<n>>)
<1>1. <<>> \in Seq({n}) /\ <<n>> \in Seq({n})
  OBVIOUS
<1>2. IsSequence(<<>>) /\ IsSequence(<<n>>)
  BY <1>1, SequenceOf
<1>. QED  BY <1>2

RestFold == INSTANCE FoldTheorems
    WITH Op <- LAMBDA c, k, T : IF c = <<>> THEN c ELSE Extended(c, RestOf(T, Last(c))),
         Inv <- LAMBDA c, k, T : IsSequence(c)

LEMMA SequenceStartingAtIsSequence ==
  ASSUME NEW T, IsFiniteSet(T), NEW n
  PROVE  IsSequence(SequenceStartingAt(T, n))
<1>. DEFINE base == IF n = Nothing THEN <<>> ELSE <<n>>
            N == Cardinality(Links(T, "rest"))
            cells == Chain(Links(T, "rest"), LAMBDA m : RestOf(T, m), n)
            first == [i \in DOMAIN cells |-> ObjectOf(T, cells[i], "first")]
<1>1. cells = RestFold!Fold(base, Times(N), T)
  BY DEF Chain, FoldLeft, MapThenFoldSet, Max, RestFold!Fold, RestFold!Largest
<1>2. IsSequence(base)
  BY SingletonIsSequence
<1>3. N \in Nat
  BY LinksAreFinite
<1>4. Len(Times(N)) \in Nat /\ DOMAIN Times(N) = 1..Len(Times(N))
  BY <1>3, TimesIsSequence
<1>. HIDE DEF base, N
<1>5. ASSUME NEW c, IsSequence(c)
      PROVE  IsSequence(IF c = <<>> THEN c ELSE Extended(c, RestOf(T, Last(c))))
  BY <1>5, ExtendedIsSequence
<1>6. IsSequence(RestFold!Fold(base, Times(N), T))
  BY <1>2, <1>4, <1>5, RestFold!FoldInduction
<1>7. IsSequence(cells)
  BY <1>1, <1>6
<1>8. SequenceStartingAt(T, n) = Among(first, ToSet(first) \ {Nothing})
  BY DEF SequenceStartingAt, CellsFrom
<1>. HIDE DEF cells
<1>9. IsSequence(first)
  <2>1. Len(cells) \in Nat /\ DOMAIN cells = 1..Len(cells)
    BY <1>7, SequenceDomain
  <2>2. first \in Seq({first[i] : i \in 1..Len(cells)})
    BY <2>1
  <2>. HIDE DEF first
  <2>. QED  BY <2>2, SequenceOf
<1>. HIDE DEF first
<1>. QED  BY <1>8, <1>9, AmongIsSequence

AncestorFold == INSTANCE FoldTheorems
    WITH Op <- LAMBDA c, k, s : IF c = <<>> THEN c ELSE Extended(c, UnallocatedParentOf(s, Last(c))),
         Inv <- LAMBDA c, k, s : IsSequence(c)

LEMMA AncestorsAreSequence ==
  ASSUME NEW s, IsFiniteSet(s.T), NEW n
  PROVE  IsSequence(UnallocatedAncestorsOf(s, n))
<1>. DEFINE base == IF n = Nothing THEN <<>> ELSE <<n>>
            N == Cardinality(Links(s.T, "parent"))
<1>1. UnallocatedAncestorsOf(s, n) = AncestorFold!Fold(base, Times(N), s)
  BY DEF UnallocatedAncestorsOf, Chain, FoldLeft, MapThenFoldSet, Max, AncestorFold!Fold, AncestorFold!Largest
<1>2. IsSequence(base)
  BY SingletonIsSequence
<1>3. N \in Nat
  BY LinksAreFinite
<1>4. Len(Times(N)) \in Nat /\ DOMAIN Times(N) = 1..Len(Times(N))
  BY <1>3, TimesIsSequence
<1>. HIDE DEF base, N
<1>5. ASSUME NEW c, IsSequence(c)
      PROVE  IsSequence(IF c = <<>> THEN c ELSE Extended(c, UnallocatedParentOf(s, Last(c))))
  BY <1>5, ExtendedIsSequence
<1>6. IsSequence(AncestorFold!Fold(base, Times(N), s))
  BY <1>2, <1>4, <1>5, AncestorFold!FoldInduction
<1>. QED  BY <1>1, <1>6

LEMMA ReverseIsSequence ==
  ASSUME NEW s, IsSequence(s)
  PROVE  IsSequence(Reverse(s))
<1>1. Len(s) \in Nat /\ \A i \in 1..Len(s) : s[i] \in ToSet(s)
  BY SequenceDomain
<1>2. \A i \in 1..Len(s) : Len(s) - i + 1 \in 1..Len(s)
  BY <1>1
<1>3. Reverse(s) \in Seq(ToSet(s))
  BY <1>1, <1>2 DEF Reverse
<1>. QED  BY <1>3, SequenceOf

\* The nodes that a node's properties lead to.
LEMMA PropertyNodesAreFinite ==
  ASSUME NEW T, IsFiniteSet(T), NEW n
  PROVE  IsFiniteSet(PotentialPropertyNodesOf(T, n))
<1>. DEFINE Found(v) == IF NodeHasType(T, v) THEN {v}
                        ELSE {m \in ToSet(SequenceStartingAt(T, v)) : NodeHasType(T, m)}
            third == [t \in About(T, n) |-> t[3]]
            S == {t[3] : t \in About(T, n)}
            found == [v \in S |-> Found(v)]
            R == {found[v] : v \in S}
<1>1. IsFiniteSet(S)
  <2>1. IsFiniteSet(About(T, n))
    BY FS_Subset DEF About
  <2>2. S = {third[t] : t \in About(T, n)}
    OBVIOUS
  <2>. HIDE DEF S, third
  <2>. QED  BY <2>1, <2>2, FiniteImage
<1>2. ASSUME NEW v PROVE IsFiniteSet(Found(v))
  <2>1. IsFiniteSet(ToSet(SequenceStartingAt(T, v)))
    BY SequenceStartingAtIsSequence, SequenceDomain
  <2>2. IsFiniteSet({v})
    BY FS_Singleton
  <2>3. IsFiniteSet({m \in ToSet(SequenceStartingAt(T, v)) : NodeHasType(T, m)})
    BY <2>1, FS_Subset
  <2>. QED  BY <2>2, <2>3
<1>3. PotentialPropertyNodesOf(T, n) = UNION {Found(v) : v \in S}
  BY DEF PotentialPropertyNodesOf
<1>. HIDE DEF Found, S
<1>4. R = {Found(v) : v \in S}
  OBVIOUS
<1>5. \A A \in R : IsFiniteSet(A)
  BY <1>2
<1>6. IsFiniteSet(R)
  <2>. HIDE DEF found
  <2>. QED  BY <1>1, FiniteImage
<1>. HIDE DEF R
<1>7. IsFiniteSet(UNION R)
  BY <1>5, <1>6, FS_UNION
<1>. QED  BY <1>3, <1>4, <1>7

================================================================================
