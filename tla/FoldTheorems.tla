------------------------------ MODULE FoldTheorems ------------------------------
(* What a fold over a sequence, and a function defined by recursion along one,    *)
(* compute: facts that take an induction over the sequence.                      *)
(*                                                                               *)
(* Op is any operator, with a parameter that stays the same along the sequence,   *)
(* and Inv what is to hold of a result after so many elements; other modules      *)
(* take the instance in which they are some of theirs.                            *)
EXTENDS Naturals, Sequences, WellFoundedInduction, TLAPS

CONSTANTS Op(_, _, _), Inv(_, _, _)

\* The fold from the left, and the functions that hold its results so far.
Largest(S) == CHOOSE i \in S : \A j \in S : i >= j
Fold(base, s, p) ==
    LET iter[S \in SUBSET DOMAIN s] ==
            IF S = {} THEN base
            ELSE LET i == Largest(S) IN Op(iter[S \ {i}], s[i], p)
    IN  iter[DOMAIN s]
Steps(f, base, s, p) ==
    f = [i \in 0..Len(s) |-> IF i = 0 THEN base ELSE Op(f[i - 1], s[i], p)]

-------------------------------------------------------------------------------
(* Induction, in a form that speaks of sets: the least number outside of S would  *)
(* have a predecessor in S.                                                      *)
LEMMA NatSetInduction ==
  ASSUME NEW S, 0 \in S, \A n \in Nat : n \in S => n + 1 \in S
  PROVE  Nat \subseteq S
<1>. DEFINE B == Nat \ S
            R == {mn \in Nat \X Nat : mn[1] < mn[2]}
<1>. SUFFICES ASSUME B # {} PROVE FALSE
  OBVIOUS
<1>1. PICK n \in B : \A m \in B : <<m, n>> \notin R
  <2>1. IsWellFoundedOn(R, Nat)
    BY NatLessThanWellFounded DEF OpToRel
  <2>2. B \subseteq Nat
    OBVIOUS
  <2>. HIDE DEF R, B
  <2>. QED  BY <2>1, <2>2, WFMin
<1>2. n - 1 \in B /\ <<n - 1, n>> \in R
  OBVIOUS
<1>. QED  BY <1>1, <1>2

LEMMA StepsExist ==
  ASSUME NEW base, NEW s, Len(s) \in Nat, NEW p
  PROVE  \E f : Steps(f, base, s, p)
<1>. DEFINE Upto(f, n) ==
              f = [i \in 0..n |-> IF i = 0 THEN base ELSE Op(f[i - 1], s[i], p)]
            S == {n \in Nat : \E f : Upto(f, n)}
<1>1. 0 \in S
  <2>1. Upto([i \in 0..0 |-> base], 0)
    OBVIOUS
  <2>. QED  BY <2>1
<1>2. ASSUME NEW n \in Nat, n \in S PROVE n + 1 \in S
  <2>1. PICK f : Upto(f, n)
    BY <1>2
  <2>. DEFINE g == [i \in 0..(n + 1) |-> IF i <= n THEN f[i] ELSE Op(f[n], s[n + 1], p)]
              h == [i \in 0..(n + 1) |-> IF i = 0 THEN base ELSE Op(g[i - 1], s[i], p)]
  <2>2. ASSUME NEW i \in 0..(n + 1) PROVE g[i] = h[i]
    <3>1. CASE i = 0
      BY <2>1, <3>1
    <3>2. CASE i \in 1..n
      <4>1. g[i] = f[i] /\ g[i - 1] = f[i - 1]
        BY <3>2
      <4>2. f[i] = Op(f[i - 1], s[i], p)
        BY <2>1, <3>2
      <4>. QED  BY <3>2, <4>1, <4>2
    <3>3. CASE i = n + 1
      <4>1. g[i] = Op(f[n], s[n + 1], p) /\ g[i - 1] = f[n]
        BY <3>3
      <4>. QED  BY <3>3, <4>1
    <3>. QED  BY <3>1, <3>2, <3>3
  <2>3. g = h
    BY <2>2
  <2>. HIDE DEF g
  <2>. QED  BY <2>3
<1>. HIDE DEF S
<1>3. Len(s) \in S
  BY <1>1, <1>2, NatSetInduction
<1>. QED  BY <1>3 DEF S, Steps

-------------------------------------------------------------------------------
(* The fold.  It is defined by recursion over the sets of indices, of which the   *)
(* largest is taken each time.                                                   *)

OverIndices(it, n, base, s, p) ==
    it = [S \in SUBSET (1..n) |->
              IF S = {} THEN base ELSE Op(it[S \ {Largest(S)}], s[Largest(S)], p)]

LEMMA MaxOfInterval ==
  ASSUME NEW n \in Nat, NEW S \in SUBSET (1..n + 1), n + 1 \in S
  PROVE  Largest(S) = n + 1
<1>1. \A y \in S : n + 1 >= y
  OBVIOUS
<1>2. \A x \in S : (\A y \in S : x >= y) => x = n + 1
  OBVIOUS
<1>. QED  BY <1>1, <1>2 DEF Largest

LEMMA OverIndicesExists ==
  ASSUME NEW base, NEW s, NEW p, NEW n \in Nat
  PROVE  \E it : OverIndices(it, n, base, s, p)
<1>. DEFINE S == {k \in Nat : \E it : OverIndices(it, k, base, s, p)}
<1>1. 0 \in S
  <2>1. OverIndices([R \in SUBSET (1..0) |-> base], 0, base, s, p)
    BY DEF OverIndices
  <2>. QED  BY <2>1
<1>2. ASSUME NEW k \in Nat, k \in S PROVE k + 1 \in S
  <2>1. PICK it : OverIndices(it, k, base, s, p)
    BY <1>2
  <2>. DEFINE g == [R \in SUBSET (1..k + 1) |->
                        IF k + 1 \in R THEN Op(it[R \ {k + 1}], s[k + 1], p) ELSE it[R]]
              h == [R \in SUBSET (1..k + 1) |->
                        IF R = {} THEN base ELSE Op(g[R \ {Largest(R)}], s[Largest(R)], p)]
  <2>2. ASSUME NEW R \in SUBSET (1..k + 1) PROVE g[R] = h[R]
    <3>1. CASE k + 1 \in R
      <4>1. Largest(R) = k + 1
        BY <3>1, MaxOfInterval
      <4>2. R \ {k + 1} \in SUBSET (1..k + 1) /\ k + 1 \notin R \ {k + 1}
        OBVIOUS
      <4>3. g[R \ {k + 1}] = it[R \ {k + 1}]
        BY <4>2
      <4>4. g[R] = Op(it[R \ {k + 1}], s[k + 1], p)
        BY <3>1
      <4>5. h[R] = Op(g[R \ {Largest(R)}], s[Largest(R)], p)
        BY <3>1
      <4>. QED  BY <4>1, <4>3, <4>4, <4>5
    <3>2. CASE k + 1 \notin R
      <4>1. R \in SUBSET (1..k) /\ g[R] = it[R]
        BY <3>2
      <4>2. CASE R = {}
        BY <2>1, <4>1, <4>2 DEF OverIndices
      <4>3. CASE R # {}
        <5>1. it[R] = Op(it[R \ {Largest(R)}], s[Largest(R)], p)
          BY <2>1, <4>1, <4>3 DEF OverIndices
        <5>2. R \ {Largest(R)} \in SUBSET (1..k + 1) /\ k + 1 \notin R \ {Largest(R)}
          BY <3>2
        <5>3. g[R \ {Largest(R)}] = it[R \ {Largest(R)}]
          BY <5>2
        <5>4. h[R] = Op(g[R \ {Largest(R)}], s[Largest(R)], p)
          BY <4>3
        <5>. QED  BY <4>1, <5>1, <5>3, <5>4
      <4>. QED  BY <4>2, <4>3
    <3>. QED  BY <3>1, <3>2
  <2>3. g = h
    BY <2>2
  <2>4. OverIndices(g, k + 1, base, s, p)
    <3>. HIDE DEF g
    <3>. QED  BY <2>3 DEF OverIndices
  <2>. QED  BY <2>4
<1>. HIDE DEF S
<1>3. n \in S
  BY <1>1, <1>2, NatSetInduction
<1>. QED  BY <1>3 DEF S

LEMMA FoldOverIndices ==
  ASSUME NEW base, NEW s, NEW p, NEW n \in Nat, DOMAIN s = 1..n
  PROVE  \E it : OverIndices(it, n, base, s, p) /\ Fold(base, s, p) = it[1..n]
<1>. DEFINE iter == CHOOSE it : OverIndices(it, n, base, s, p)
<1>1. OverIndices(iter, n, base, s, p)
  BY OverIndicesExists
<1>2. Fold(base, s, p) = iter[1..n]
  BY DEF Fold, OverIndices
<1>. QED  BY <1>1, <1>2

\* The fold is the last of its steps.
THEOREM FoldIsLastStep ==
  ASSUME NEW base, NEW s, NEW p, Len(s) \in Nat, DOMAIN s = 1..Len(s),
         NEW f, Steps(f, base, s, p)
  PROVE  Fold(base, s, p) = f[Len(s)]
<1>. DEFINE n == Len(s)
<1>1. PICK it : OverIndices(it, n, base, s, p) /\ Fold(base, s, p) = it[1..n]
  BY FoldOverIndices
<1>. DEFINE S == {k \in Nat : k <= n => it[1..k] = f[k]}
<1>2. 0 \in S
  <2>1. 1..0 = {} /\ {} \in SUBSET (1..n)
    OBVIOUS
  <2>2. it[{}] = base
    BY <1>1, <2>1 DEF OverIndices
  <2>3. f[0] = base
    BY DEF Steps
  <2>. QED  BY <2>1, <2>2, <2>3
<1>3. ASSUME NEW k \in Nat, k \in S PROVE k + 1 \in S
  <2>. SUFFICES ASSUME k + 1 <= n PROVE it[1..k + 1] = f[k + 1]
    OBVIOUS
  <2>1. Largest(1..k + 1) = k + 1
    BY MaxOfInterval
  <2>2. (1..k + 1) \ {k + 1} = 1..k
    OBVIOUS
  <2>3. 1..k + 1 \in SUBSET (1..n)
    OBVIOUS
  <2>4. k + 1 \in 1..k + 1
    OBVIOUS
  <2>5. it[1..k + 1] = Op(it[1..k], s[k + 1], p)
    BY <1>1, <2>1, <2>2, <2>3, <2>4 DEF OverIndices
  <2>6. f[k + 1] = Op(f[k], s[k + 1], p)
    BY DEF Steps
  <2>7. it[1..k] = f[k]
    BY <1>3
  <2>. QED  BY <2>5, <2>6, <2>7
<1>. HIDE DEF S
<1>4. n \in S
  BY <1>2, <1>3, NatSetInduction
<1>. QED  BY <1>1, <1>4 DEF S

THEOREM FoldEmpty ==
  ASSUME NEW base, NEW p
  PROVE  Fold(base, <<>>, p) = base
<1>. DEFINE f == [i \in 0..0 |-> base]
<1>1. Steps(f, base, <<>>, p)
  BY DEF Steps
<1>. HIDE DEF f
<1>2. Fold(base, <<>>, p) = f[0]
  BY <1>1, FoldIsLastStep
<1>. QED  BY <1>2 DEF f

\* A sequence without its last element has the same steps but the last.
THEOREM FoldAppend ==
  ASSUME NEW base, NEW p, NEW E, NEW s \in Seq(E), NEW e \in E
  PROVE  Fold(base, Append(s, e), p) = Op(Fold(base, s, p), e, p)
<1>. DEFINE t == Append(s, e)
<1>1. /\ Len(s) \in Nat /\ Len(t) = Len(s) + 1 /\ t[Len(s) + 1] = e
      /\ DOMAIN s = 1..Len(s) /\ DOMAIN t = 1..Len(t)
      /\ \A i \in 1..Len(s) : t[i] = s[i]
  OBVIOUS
<1>. HIDE DEF t
<1>2. PICK f : Steps(f, base, t, p)
  <2>1. Len(t) \in Nat
    BY <1>1
  <2>. QED  BY <2>1, StepsExist
<1>. DEFINE g == [i \in 0..Len(s) |-> f[i]]
<1>3. Steps(g, base, s, p)
  <2>1. ASSUME NEW i \in 0..Len(s)
        PROVE  g[i] = IF i = 0 THEN base ELSE Op(g[i - 1], s[i], p)
    <3>1. CASE i = 0
      BY <1>1, <1>2, <3>1 DEF Steps
    <3>2. CASE i # 0
      <4>1. f[i] = Op(f[i - 1], t[i], p)
        BY <1>1, <1>2, <3>2 DEF Steps
      <4>2. t[i] = s[i] /\ g[i] = f[i] /\ g[i - 1] = f[i - 1]
        BY <1>1, <3>2
      <4>. QED  BY <3>2, <4>1, <4>2
    <3>. QED  BY <3>1, <3>2
  <2>. HIDE DEF g
  <2>2. g = [i \in 0..Len(s) |-> g[i]]
    BY DEF g
  <2>. QED  BY <2>1, <2>2 DEF Steps
<1>4. Fold(base, s, p) = f[Len(s)] /\ Fold(base, t, p) = f[Len(s) + 1]
  <2>1. g[Len(s)] = f[Len(s)]
    BY <1>1
  <2>. HIDE DEF g
  <2>. QED  BY <1>1, <1>2, <1>3, <2>1, FoldIsLastStep
<1>5. f[Len(s) + 1] = Op(f[Len(s)], e, p)
  BY <1>1, <1>2 DEF Steps
<1>. QED  BY <1>4, <1>5 DEF t

\* What holds of the base, and of the result so far from one element to the next,
\* holds of the result.
THEOREM FoldInduction ==
  ASSUME NEW base, NEW s, NEW p, NEW q, Len(s) \in Nat, DOMAIN s = 1..Len(s),
         Inv(base, 0, q),
         ASSUME NEW x, NEW k \in 1..Len(s), Inv(x, k - 1, q) PROVE Inv(Op(x, s[k], p), k, q)
  PROVE  Inv(Fold(base, s, p), Len(s), q)
<1>1. PICK f : Steps(f, base, s, p)
  BY StepsExist
<1>. DEFINE S == {k \in Nat : k <= Len(s) => Inv(f[k], k, q)}
<1>2. 0 \in S
  <2>1. f[0] = base
    BY <1>1 DEF Steps
  <2>. QED  BY <2>1
<1>3. ASSUME NEW k \in Nat, k \in S PROVE k + 1 \in S
  <2>. SUFFICES ASSUME k + 1 <= Len(s) PROVE Inv(f[k + 1], k + 1, q)
    OBVIOUS
  <2>1. Inv(f[k], k, q)
    BY <1>3
  <2>2. f[k + 1] = Op(f[k], s[k + 1], p)
    BY <1>1 DEF Steps
  <2>3. k + 1 \in 1..Len(s) /\ (k + 1) - 1 = k
    OBVIOUS
  <2>4. Inv(Op(f[k], s[k + 1], p), k + 1, q)
    BY <2>1, <2>3
  <2>. QED  BY <2>2, <2>4
<1>. HIDE DEF S
<1>4. Len(s) \in S
  BY <1>2, <1>3, NatSetInduction
<1>5. Inv(f[Len(s)], Len(s), q)
  BY <1>4 DEF S
<1>. QED  BY <1>1, <1>5, FoldIsLastStep

\* What each step keeps holds of the result.
THEOREM FoldKeeps ==
  ASSUME NEW T, NEW base \in T, NEW p, NEW E, NEW s \in Seq(E),
         \A x \in T, e \in E : Op(x, e, p) \in T
  PROVE  Fold(base, s, p) \in T
<1>1. Len(s) \in Nat /\ DOMAIN s = 1..Len(s) /\ \A i \in 1..Len(s) : s[i] \in E
  OBVIOUS
<1>2. PICK f : Steps(f, base, s, p)
  BY <1>1, StepsExist
<1>. DEFINE S == {k \in Nat : k <= Len(s) => f[k] \in T}
<1>3. 0 \in S
  BY <1>1, <1>2 DEF Steps
<1>4. ASSUME NEW k \in Nat, k \in S PROVE k + 1 \in S
  <2>. SUFFICES ASSUME k + 1 <= Len(s) PROVE f[k + 1] \in T
    OBVIOUS
  <2>1. f[k] \in T /\ s[k + 1] \in E
    BY <1>1, <1>4
  <2>2. f[k + 1] = Op(f[k], s[k + 1], p)
    BY <1>1, <1>2 DEF Steps
  <2>. QED  BY <2>1, <2>2
<1>. HIDE DEF S
<1>5. Len(s) \in S
  BY <1>1, <1>3, <1>4, NatSetInduction
<1>6. f[Len(s)] \in T
  BY <1>1, <1>5 DEF S
<1>. QED  BY <1>1, <1>2, <1>6, FoldIsLastStep

\* Two sequences, one after the other.
THEOREM FoldConcat ==
  ASSUME NEW base, NEW p, NEW E, NEW s \in Seq(E), NEW t \in Seq(E)
  PROVE  Fold(base, s \o t, p) = Fold(Fold(base, s, p), t, p)
<1>. DEFINE Part(n) == SubSeq(t, 1, n)
            S == {n \in Nat : n <= Len(t) =>
                     Fold(base, s \o Part(n), p) = Fold(Fold(base, s, p), Part(n), p)}
<1>1. 0 \in S
  <2>1. Part(0) = <<>> /\ s \o <<>> = s
    OBVIOUS
  <2>. QED  BY <2>1, FoldEmpty
<1>2. ASSUME NEW n \in Nat, n \in S PROVE n + 1 \in S
  <2>. SUFFICES ASSUME n + 1 <= Len(t)
                PROVE  Fold(base, s \o Part(n + 1), p) = Fold(Fold(base, s, p), Part(n + 1), p)
    OBVIOUS
  <2>1. Part(n) \in Seq(E) /\ Part(n + 1) \in Seq(E) /\ t[n + 1] \in E
    OBVIOUS
  <2>2. Part(n + 1) = Append(Part(n), t[n + 1])
    OBVIOUS
  <2>3. s \o Part(n + 1) = Append(s \o Part(n), t[n + 1]) /\ s \o Part(n) \in Seq(E)
    BY <2>1, <2>2
  <2>4. Fold(base, s \o Part(n), p) = Fold(Fold(base, s, p), Part(n), p)
    BY <1>2
  <2>. HIDE DEF Part
  <2>5. Fold(base, s \o Part(n + 1), p) = Op(Fold(base, s \o Part(n), p), t[n + 1], p)
    BY <2>1, <2>3, FoldAppend
  <2>6. Fold(Fold(base, s, p), Part(n + 1), p)
          = Op(Fold(Fold(base, s, p), Part(n), p), t[n + 1], p)
    BY <2>1, <2>2, FoldAppend
  <2>. QED  BY <2>4, <2>5, <2>6
<1>3. Part(Len(t)) = t /\ Len(t) \in Nat
  OBVIOUS
<1>. HIDE DEF S, Part
<1>4. Len(t) \in S
  BY <1>1, <1>2, <1>3, NatSetInduction
<1>5. Fold(base, s \o Part(Len(t)), p) = Fold(Fold(base, s, p), Part(Len(t)), p)
  BY <1>3, <1>4 DEF S
<1>. QED  BY <1>3, <1>5
================================================================================
