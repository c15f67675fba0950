--------------------------- MODULE ObjectMapperProofs ---------------------------
(* That the mapper's two maps are each other's inverse, and that a commit finds    *)
(* them to be so: what a call of the storer and one of the loader do to the nodes  *)
(* of objects, and what the mapper makes of it.                                  *)
EXTENDS ObjectMapper, ObjectGraphProofs

-------------------------------------------------------------------------------
(* Triples.  Objects have URIs for their nodes, and their types are known.        *)

GoodTriples(T) ==
    IsFiniteSet(T) /\ \A t \in T : t[2] = "type" => IsUri(t[1]) /\ t[3] = KnownType

LEMMA GoodAreFinite ==
  ASSUME NEW T, GoodTriples(T)
  PROVE  IsFiniteSet(T)
BY DEF GoodTriples

\* What is done to a node's properties, or to its list, leaves the types of nodes
\* as they are, or takes some away.
KeepsTypes(U, T) == GoodTriples(U) /\ Typed(U) \subseteq Typed(T)

LEMMA FewerTriples ==
  ASSUME NEW T, GoodTriples(T), NEW U \in SUBSET T
  PROVE  GoodTriples(U) /\ KeepsTypes(U, T)
<1>1. GoodTriples(U)
  BY FS_Subset DEF GoodTriples
<1>. QED  BY <1>1 DEF KeepsTypes, Typed

LEMMA MoreTriples ==
  ASSUME NEW T, GoodTriples(T), NEW U, IsFiniteSet(U),
         \A t \in U : t[2] = "type" => IsUri(t[1]) /\ t[3] = KnownType
  PROVE  GoodTriples(T \cup U) /\ Typed(T \cup U) = Typed(T) \cup Typed(U)
<1>1. GoodTriples(T \cup U)
  BY FS_Union DEF GoodTriples
<1>. QED  BY <1>1 DEF Typed

DeletedFold == INSTANCE FoldTheorems
    WITH Op <- LAMBDA T, n, p : RemoveObject(T, n),
         Inv <- LAMBDA x, k, q : x \subseteq q.T /\ \A j \in 1..k : About(x, q.seq[j]) = {}

LEMMA RemoveObjectsRemoves ==
  ASSUME NEW T, GoodTriples(T), NEW S, IsFiniteSet(S), NEW order
  PROVE  LET r == FoldLeft(RemoveObject, T, Ordered(S, order))
         IN  r \in SUBSET T /\ S \cap Typed(r) = {}
<1>. DEFINE seq == Ordered(S, order)
            q == [T |-> T, seq |-> seq]
            r == FoldLeft(RemoveObject, T, seq)
            Holds(x, k) == x \subseteq q.T /\ \A j \in 1..k : About(x, q.seq[j]) = {}
<1>1. r = DeletedFold!Fold(T, seq, 0)
  BY DEF FoldLeft, MapThenFoldSet, Max, DeletedFold!Fold, DeletedFold!Largest
<1>2. seq \in Seq(S) /\ ToSet(seq) = S
  BY OrderedIsSequence
<1>3. q.T = T /\ q.seq = seq
  OBVIOUS
<1>. HIDE DEF q, r
<1>4. Len(seq) \in Nat /\ DOMAIN seq = 1..Len(seq)
  BY <1>2
<1>5. Holds(T, 0)
  BY <1>3
<1>6. ASSUME NEW x, NEW k \in 1..Len(seq), Holds(x, k - 1)
      PROVE  Holds(RemoveObject(x, seq[k]), k)
  <2>. DEFINE y == RemoveObject(x, seq[k])
  <2>1. x \in SUBSET T
    BY <1>3, <1>6
  <2>2. y \in SUBSET (x \ About(x, seq[k]))
    BY <2>1, FewerTriples, GoodAreFinite, RemoveObjectRemoves
  <2>. HIDE DEF y
  <2>3. About(y, seq[k]) = {} /\ \A j \in 1..k - 1 : About(y, seq[j]) = {}
    BY <1>3, <1>6, <2>2 DEF About
  <2>4. \A j \in 1..k : j \in 1..k - 1 \/ j = k
    BY <1>4
  <2>5. Holds(y, k)
    BY <1>3, <2>1, <2>2, <2>3, <2>4
  <2>. QED  BY <2>5 DEF y
<1>7. Holds(DeletedFold!Fold(T, seq, 0), Len(seq))
  BY <1>4, <1>5, <1>6, DeletedFold!FoldInduction
<1>8. r \in SUBSET T /\ \A j \in 1..Len(seq) : About(r, seq[j]) = {}
  BY <1>1, <1>3, <1>7
<1>9. ASSUME NEW n \in S PROVE n \notin Typed(r)
  <2>1. \E j \in 1..Len(seq) : n = seq[j]
    BY <1>2, <1>4 DEF ToSet
  <2>2. About(r, n) = {}
    BY <1>8, <2>1
  <2>. QED  BY <2>2 DEF About, Typed
<1>. QED  BY <1>8, <1>9 DEF r

LEMMA ReplacePropertyNodesKeeps ==
  ASSUME NEW T, GoodTriples(T), NEW n, NEW p, p # "type", NEW values, IsFiniteSet(values)
  PROVE  KeepsTypes(ReplacePropertyNodes(T, n, p, values), T)
<1>. DEFINE new == [v \in values |-> <<n, p, v>>]
            U == {<<n, p, v>> : v \in values}
            left == RemovePropertyNodes(T, n, p, values)
<1>1. U = {new[v] : v \in values}
  OBVIOUS
<1>2. \A t \in U : t[2] # "type"
  OBVIOUS
<1>. HIDE DEF U, new
<1>3. IsFiniteSet(U)
  BY <1>1, FiniteImage
<1>4. KeepsTypes(left, T)
  BY GoodAreFinite, RemovePropertyNodesRemoves, FewerTriples
<1>. HIDE DEF left
<1>5. GoodTriples(left \cup U) /\ Typed(left \cup U) = Typed(left) \cup Typed(U)
  BY <1>2, <1>3, <1>4, MoreTriples DEF KeepsTypes
<1>6. Typed(U) = {}
  BY <1>2 DEF Typed
<1>. QED  BY <1>4, <1>5, <1>6 DEF ReplacePropertyNodes, KeepsTypes, U, left

LEMMA ReplaceOneKeeps ==
  ASSUME NEW T, GoodTriples(T), NEW n, NEW p, p # "type", NEW v
  PROVE  KeepsTypes(ReplaceOne(T, n, p, v), T)
<1>. DEFINE U == {<<n, p, v>>}
            left == T \ Match(T, n, p)
<1>1. KeepsTypes(left, T)
  BY FewerTriples
<1>2. IsFiniteSet(U) /\ \A t \in U : t[2] # "type"
  <2>1. IsFiniteSet({<<n, p, v>>})
    BY FS_Singleton
  <2>2. \A t \in U : t = <<n, p, v>>
    OBVIOUS
  <2>. QED  BY <2>1, <2>2
<1>. HIDE DEF U, left
<1>3. GoodTriples(left \cup U) /\ Typed(left \cup U) = Typed(left) \cup Typed(U)
  BY <1>1, <1>2, MoreTriples DEF KeepsTypes
<1>4. Typed(U) = {}
  BY <1>2 DEF Typed
<1>. QED  BY <1>1, <1>3, <1>4 DEF ReplaceOne, KeepsTypes, U, left

-------------------------------------------------------------------------------
(* What the storer collects.                                                     *)

\* A call of the storer with the settings that the mapper has.
StorerFields == {"T", "O", "map", "used", "bp", "fp", "psp"}
IsStorerState(s) ==
    /\ DOMAIN s = StorerFields
    /\ IsGraph(s.O) /\ s.map = [o \in Object |-> s.map[o]]
    /\ s.fp = {"properties"} /\ s.bp = "NoBlankObjectNodes"

\* What has been collected: objects that live, those without a node to be given one.
CollectInv(c, s) ==
    /\ DOMAIN c = {"visited", "candidates", "toAllocate", "toStore", "noBlanks"}
    /\ c.candidates \in Seq(Living(s.O))
    /\ c.toAllocate \subseteq c.toStore /\ c.toStore \subseteq Living(s.O)
    /\ \A o \in c.toStore : o \in c.toAllocate <=> s.map[o] = Nothing

LEMMA CollectOneKeeps ==
  ASSUME NEW s, IsStorerState(s), NEW requested, NEW c, CollectInv(c, s), NEW o \in Living(s.O)
  PROVE  CollectInv(CollectOne(s, requested, c, o), s)
<1>. DEFINE visited == c.visited \cup {o}
            new == s.map[o] = Nothing
            found == RelativesOf(s, o) \o PropertyObjectsOf(s.O, o)
            d == CollectOne(s, requested, c, o)
<1>1. RelativesOf(s, o) = <<>>
  BY DEF RelativesOf, IsStorerState
<1>2. PropertyObjectsOf(s.O, o) \in Seq(Living(s.O))
  BY PropertyObjectsLive DEF IsStorerState, Living
<1>3. found \in Seq(Living(s.O))
  BY <1>1, <1>2
<1>4. /\ DOMAIN d = {"visited", "candidates", "toAllocate", "toStore", "noBlanks"}
      /\ d.candidates = c.candidates \o Among(found, Object \ visited)
      /\ d.toAllocate = IF new THEN c.toAllocate \cup {o} ELSE c.toAllocate
      /\ d.toStore = IF new \/ o \in ToSet(requested) THEN c.toStore \cup {o} ELSE c.toStore
  <2>1. "properties" \in s.fp
    BY DEF IsStorerState
  <2>. QED  BY <2>1 DEF CollectOne
<1>. HIDE DEF found, visited, d
<1>5. Among(found, Object \ visited) \in Seq(Living(s.O))
  <2>1. IsSequence(found) /\ ToSet(found) \subseteq Living(s.O)
    BY <1>3, SequenceOf
  <2>2. IsSequence(Among(found, Object \ visited))
        /\ ToSet(Among(found, Object \ visited)) \subseteq Living(s.O)
    BY <2>1, AmongIsSequence
  <2>. QED  BY <2>2, SequenceIn
<1>6. d.candidates \in Seq(Living(s.O))
  <2>1. c.candidates \in Seq(Living(s.O))
    BY DEF CollectInv
  <2>. DEFINE more == Among(found, Object \ visited)
  <2>. HIDE DEF more
  <2>2. more \in Seq(Living(s.O))
    BY <1>5 DEF more
  <2>3. c.candidates \o more \in Seq(Living(s.O))
    BY <2>1, <2>2
  <2>. QED  BY <1>4, <2>3 DEF more
<1>7. d.toAllocate \subseteq d.toStore /\ d.toStore \subseteq Living(s.O)
  BY <1>4 DEF CollectInv
<1>8. \A x \in d.toStore : x \in d.toAllocate <=> s.map[x] = Nothing
  BY <1>4 DEF CollectInv
<1>. QED  BY <1>4, <1>6, <1>7, <1>8 DEF CollectInv, d

CandidatesFold == INSTANCE FoldTheorems
    WITH Op <- LAMBDA c, o, p : CollectOne(p.s, p.requested, c, o),
         Inv <- LAMBDA c, k, s : CollectInv(c, s)
RoundsFold == INSTANCE FoldTheorems
    WITH Op <- LAMBDA c, k, p : CollectCandidates(p.s, p.requested, c),
         Inv <- LAMBDA c, k, s : CollectInv(c, s)

LEMMA CandidatesAreFolded ==
  ASSUME NEW p, NEW c
  PROVE  CollectCandidates(p.s, p.requested, c)
           = CandidatesFold!Fold([c EXCEPT !.candidates = <<>>], c.candidates, p)
  BY DEF CollectCandidates, FoldLeft, MapThenFoldSet, Max, CandidatesFold!Fold, CandidatesFold!Largest

LEMMA CollectCandidatesKeeps ==
  ASSUME NEW s, IsStorerState(s), NEW requested, NEW c, CollectInv(c, s)
  PROVE  CollectInv(CollectCandidates(s, requested, c), s)
<1>. DEFINE p == [s |-> s, requested |-> requested]
            base == [c EXCEPT !.candidates = <<>>]
            seq == c.candidates
<1>1. CollectCandidates(p.s, p.requested, c) = CandidatesFold!Fold(base, seq, p)
  BY CandidatesAreFolded
<1>2. p.s = s /\ p.requested = requested
  OBVIOUS
<1>3. CollectInv(base, s)
  BY DEF CollectInv
<1>4. Len(seq) \in Nat /\ DOMAIN seq = 1..Len(seq) /\ \A k \in 1..Len(seq) : seq[k] \in Living(s.O)
  BY DEF CollectInv
<1>. HIDE DEF base, seq, p
<1>5. ASSUME NEW d, NEW k \in 1..Len(seq), CollectInv(d, s)
      PROVE  CollectInv(CollectOne(p.s, p.requested, d, seq[k]), s)
  BY <1>2, <1>4, <1>5, CollectOneKeeps
<1>6. CollectInv(CandidatesFold!Fold(base, seq, p), s)
  BY <1>3, <1>4, <1>5, CandidatesFold!FoldInduction
<1>. QED  BY <1>1, <1>2, <1>6

LEMMA RoundsAreFolded ==
  ASSUME NEW p
  PROVE  Collect(p.s, p.requested)
           = RoundsFold!Fold([visited |-> {}, candidates |-> p.requested, toAllocate |-> {},
                              toStore |-> {}, noBlanks |-> ToSet(p.requested)],
                             Times(MaxObjects + 1), p)
  BY DEF Collect, FoldLeft, MapThenFoldSet, Max, RoundsFold!Fold, RoundsFold!Largest

LEMMA CollectFinds ==
  ASSUME NEW s, IsStorerState(s), NEW requested \in Seq(Living(s.O))
  PROVE  CollectInv(Collect(s, requested), s)
<1>. DEFINE p == [s |-> s, requested |-> requested]
            base == [visited |-> {}, candidates |-> requested, toAllocate |-> {},
                     toStore |-> {}, noBlanks |-> ToSet(requested)]
            seq == Times(MaxObjects + 1)
<1>1. Collect(p.s, p.requested) = RoundsFold!Fold(base, seq, p)
  BY RoundsAreFolded
<1>2. p.s = s /\ p.requested = requested
  OBVIOUS
<1>3. CollectInv(base, s)
  BY DEF CollectInv
<1>4. Len(seq) \in Nat /\ DOMAIN seq = 1..Len(seq)
  <2>1. MaxObjects + 1 \in Nat
    BY ObjectGraphConstants
  <2>. QED  BY <2>1, TimesIsSequence
<1>. HIDE DEF base, seq, p
<1>5. ASSUME NEW d, CollectInv(d, s)
      PROVE  CollectInv(CollectCandidates(p.s, p.requested, d), s)
  BY <1>2, <1>5, CollectCandidatesKeeps
<1>6. CollectInv(RoundsFold!Fold(base, seq, p), s)
  BY <1>3, <1>4, <1>5, RoundsFold!FoldInduction
<1>. QED  BY <1>1, <1>2, <1>6

-------------------------------------------------------------------------------
(* Which nodes the storer gives.                                                 *)

\* The nodes of objects are their URIs, and, where they did not share any, they
\* still do not.
NodesAreUris(s) == \A o \in Object : s.map[o] # Nothing => s.O[o].uri = s.map[o]
UrisDiffer(O) ==
    \A x, y \in Living(O) : O[x].uri # Nothing /\ O[x].uri = O[y].uri => x = y

\* s: the state before the call, todo: the objects that are to get a node.
Allocated(x, s, todo) ==
    /\ IsStorerState(x) /\ x.T = s.T /\ x.used = s.used
    /\ NodesAreUris(x) /\ Living(x.O) = Living(s.O)
    /\ \A o \in Object :
        /\ s.map[o] # Nothing => x.map[o] = s.map[o]
        /\ s.O[o].uri # Nothing => x.O[o].uri = s.O[o].uri
        /\ o \notin todo => x.map[o] = s.map[o] /\ x.O[o].uri = s.O[o].uri
    /\ UrisDiffer(s.O) => UrisDiffer(x.O)

NodesStay(x, y) == \A p \in Object : x.map[p] # Nothing => y.map[p] = x.map[p]

LEMMA AllocateNodeAllocates ==
  ASSUME NEW s, GoodTriples(s.T), IsFiniteSet(s.used), NEW todo \in SUBSET Living(s.O),
         NEW x, Allocated(x, s, todo), NEW noBlanks, NEW o \in todo
  PROVE  /\ Allocated(AllocateNode(x, noBlanks, o), s, todo)
         /\ AllocateNode(x, noBlanks, o).map[o] # Nothing
         /\ NodesStay(x, AllocateNode(x, noBlanks, o))
<1>. DEFINE y == AllocateNode(x, noBlanks, o)
            u == GetUniqueUri(x, "uri")
<1>1. o \in Object /\ IsStorerState(x) /\ x.map = [p \in Object |-> x.map[p]]
  BY DEF Living, Allocated, IsStorerState
<1>2. CASE x.map[o] # Nothing
  BY <1>2 DEF AllocateNode, NodesStay
<1>3. CASE x.map[o] = Nothing /\ x.O[o].uri # Nothing
  <2>1. y = [x EXCEPT !.map[o] = x.O[o].uri]
    BY <1>3 DEF AllocateNode
  <2>2. /\ DOMAIN y = StorerFields /\ y.O = x.O /\ y.T = x.T /\ y.used = x.used
        /\ y.fp = x.fp /\ y.bp = x.bp
        /\ y.map = [p \in Object |-> IF p = o THEN x.O[o].uri ELSE x.map[p]]
    BY <1>1, <2>1 DEF IsStorerState, StorerFields
  <2>. HIDE DEF y
  <2>3. IsStorerState(y) /\ NodesAreUris(y)
    BY <1>1, <2>2 DEF IsStorerState, NodesAreUris, Allocated
  <2>4. s.map[o] = Nothing
    BY <1>1, <1>3 DEF Allocated
  <2>5. \A p \in Object :
          /\ s.map[p] # Nothing => y.map[p] = s.map[p]
          /\ s.O[p].uri # Nothing => y.O[p].uri = s.O[p].uri
          /\ p \notin todo => y.map[p] = s.map[p] /\ y.O[p].uri = s.O[p].uri
    BY <2>2, <2>4 DEF Allocated
  <2>6. Living(y.O) = Living(s.O) /\ (UrisDiffer(s.O) => UrisDiffer(y.O))
        /\ y.T = s.T /\ y.used = s.used
    BY <2>2 DEF Allocated
  <2>7. Allocated(y, s, todo)
    BY <2>3, <2>5, <2>6 DEF Allocated
  <2>8. y.map[o] # Nothing /\ NodesStay(x, y)
    BY <1>1, <1>3, <2>2 DEF NodesStay
  <2>. QED  BY <2>7, <2>8 DEF y
<1>4. CASE x.map[o] = Nothing /\ x.O[o].uri = Nothing
  <2>1. y = [x EXCEPT !.map[o] = u, !.O[o].uri = u]
    BY <1>1, <1>4 DEF AllocateNode, IsStorerState
  <2>2. u \notin Names(x) /\ u[1] = "uri"
    <3>1. IsFiniteSet(Names(x))
      BY GoodAreFinite, NamesAreFinite DEF Allocated
    <3>. QED  BY <3>1, FreshIsNew DEF GetUniqueUri
  <2>. HIDE DEF u
  <2>3. IsUri(u) /\ u # Nothing
    BY <2>2 DEF IsUri, Nothing
  <2>. DEFINE P == [x.O EXCEPT ![o].uri = u]
  <2>4. /\ IsGraph(P) /\ Living(P) = Living(x.O)
        /\ \A p \in Object : P[p].uri = IF p = o THEN u ELSE x.O[p].uri
    BY <1>1, <2>3, GiveUri DEF IsStorerState
  <2>5. /\ DOMAIN y = StorerFields /\ y.O = P /\ y.T = x.T /\ y.used = x.used
        /\ y.fp = x.fp /\ y.bp = x.bp
        /\ y.map = [p \in Object |-> IF p = o THEN u ELSE x.map[p]]
    BY <1>1, <2>1 DEF IsStorerState, StorerFields
  <2>. HIDE DEF P, y
  <2>6. IsStorerState(y) /\ NodesAreUris(y)
    BY <1>1, <2>4, <2>5 DEF IsStorerState, NodesAreUris, Allocated
  <2>7. s.map[o] = Nothing /\ s.O[o].uri = Nothing
    BY <1>1, <1>4 DEF Allocated
  <2>8. \A p \in Object :
          /\ s.map[p] # Nothing => y.map[p] = s.map[p]
          /\ s.O[p].uri # Nothing => y.O[p].uri = s.O[p].uri
          /\ p \notin todo => y.map[p] = s.map[p] /\ y.O[p].uri = s.O[p].uri
    BY <2>4, <2>5, <2>7 DEF Allocated
  <2>9. UrisDiffer(x.O) => UrisDiffer(y.O)
    <3>1. \A p \in Object : x.O[p].uri # u
      BY <2>2 DEF Names
    <3>. QED  BY <2>4, <2>5, <3>1 DEF UrisDiffer, Living
  <2>10. Living(y.O) = Living(s.O) /\ y.T = s.T /\ y.used = s.used
    BY <2>4, <2>5 DEF Allocated
  <2>11. Allocated(y, s, todo)
    BY <2>6, <2>8, <2>9, <2>10 DEF Allocated
  <2>12. y.map[o] # Nothing /\ NodesStay(x, y)
    BY <1>1, <1>4, <2>3, <2>5 DEF NodesStay
  <2>. QED  BY <2>11, <2>12 DEF y
<1>. QED  BY <1>2, <1>3, <1>4

AllocationFold == INSTANCE FoldTheorems
    WITH Op <- LAMBDA x, o, c : AllocateNode(x, c.noBlanks, o),
         Inv <- LAMBDA x, k, q : Allocated(x, q.s, q.todo) /\ \A j \in 1..k : x.map[q.seq[j]] # Nothing

LEMMA AllocationIsFolded ==
  ASSUME NEW s, NEW c, NEW seq
  PROVE  FoldLeft(LAMBDA r, o : AllocateNode(r, c.noBlanks, o), s, seq) = AllocationFold!Fold(s, seq, c)
  BY DEF FoldLeft, MapThenFoldSet, Max, AllocationFold!Fold, AllocationFold!Largest

LEMMA AllocationAllocates ==
  ASSUME NEW s, IsStorerState(s), NodesAreUris(s), GoodTriples(s.T), IsFiniteSet(s.used),
         NEW c, c.toAllocate \subseteq Living(s.O), NEW order
  PROVE  LET x == AllocationFold!Fold(s, Ordered(c.toAllocate, order), c)
         IN  Allocated(x, s, c.toAllocate) /\ \A o \in c.toAllocate : x.map[o] # Nothing
<1>0. ASSUME NEW todo \in SUBSET Living(s.O), NEW y, Allocated(y, s, todo), NEW noBlanks, NEW o \in todo
      PROVE  /\ Allocated(AllocateNode(y, noBlanks, o), s, todo)
             /\ AllocateNode(y, noBlanks, o).map[o] # Nothing
             /\ NodesStay(y, AllocateNode(y, noBlanks, o))
  BY <1>0, AllocateNodeAllocates
<1>. DEFINE todo == c.toAllocate
            seq == Ordered(todo, order)
            q == [s |-> s, todo |-> todo, seq |-> seq]
            x == AllocationFold!Fold(s, seq, c)
            Holds(y, k) == Allocated(y, q.s, q.todo) /\ \A j \in 1..k : y.map[q.seq[j]] # Nothing
<1>1. IsFiniteSet(todo) /\ \A o \in todo : o \in Object
  BY ObjectsAreFinite, FS_Subset DEF Living
<1>2. seq \in Seq(todo) /\ ToSet(seq) = todo
  BY <1>1, OrderedIsSequence
<1>3. q.s = s /\ q.todo = todo /\ q.seq = seq
  OBVIOUS
<1>. HIDE DEF seq, q
<1>4. Len(seq) \in Nat /\ DOMAIN seq = 1..Len(seq) /\ \A j \in 1..Len(seq) : seq[j] \in todo
  BY <1>2
<1>5. Holds(s, 0)
  BY <1>3 DEF Allocated
<1>6. ASSUME NEW y, NEW k \in 1..Len(seq), Holds(y, k - 1), NEW o \in todo, o = seq[k], NEW noBlanks
      PROVE  Holds(AllocateNode(y, noBlanks, o), k)
  <2>. DEFINE z == AllocateNode(y, noBlanks, o)
  <2>1. Allocated(y, s, todo) /\ todo \in SUBSET Living(s.O)
    BY <1>3, <1>6
  <2>2. Allocated(z, s, todo) /\ z.map[o] # Nothing /\ NodesStay(y, z)
    <3>. HIDE DEF todo, Holds
    <3>. QED  BY <1>0, <2>1
  <2>. HIDE DEF z
  <2>3. ASSUME NEW j \in 1..k PROVE z.map[seq[j]] # Nothing
    <3>1. CASE j = k
      BY <1>6, <2>2, <3>1
    <3>2. CASE j # k
      <4>1. j \in 1..k - 1 /\ j \in 1..Len(seq)
        BY <3>2
      <4>2. y.map[seq[j]] # Nothing /\ seq[j] \in Object
        BY <1>1, <1>3, <1>4, <1>6, <4>1
      <4>. QED  BY <2>2, <4>2 DEF NodesStay
    <3>. QED  BY <3>1, <3>2
  <2>. QED  BY <1>3, <2>2, <2>3 DEF z
<1>7. Holds(x, Len(seq))
  <2>1. ASSUME NEW y, NEW k \in 1..Len(seq), Holds(y, k - 1)
        PROVE  Holds(AllocateNode(y, c.noBlanks, seq[k]), k)
    <3>. HIDE DEF Holds
    <3>. QED  BY <1>4, <1>6, <2>1
  <2>. QED  BY <1>4, <1>5, <2>1, AllocationFold!FoldInduction
<1>8. \A o \in todo : x.map[o] # Nothing
  <2>. TAKE o \in todo
  <2>1. \E j \in 1..Len(seq) : o = seq[j]
    BY <1>2, <1>4 DEF ToSet
  <2>. QED  BY <1>3, <1>7, <2>1
<1>. QED  BY <1>3, <1>7, <1>8 DEF seq

-------------------------------------------------------------------------------
(* Storing the objects changes nothing but triples, and gives types to their      *)
(* nodes only.                                                                   *)

NodesIn(map) == {map[o] : o \in Object}
Stores(y, x) ==
    /\ DOMAIN y = StorerFields /\ y.O = x.O /\ y.map = x.map /\ y.used = x.used
    /\ y.bp = x.bp /\ y.fp = x.fp /\ y.psp = x.psp
    /\ GoodTriples(y.T) /\ Typed(y.T) \subseteq Typed(x.T) \cup NodesIn(x.map)

LEMMA StoresTriples ==
  ASSUME NEW s, NEW x, Stores(x, s), NEW T, KeepsTypes(T, x.T)
  PROVE  Stores([x EXCEPT !.T = T], s)
  BY DEF Stores, StorerFields, KeepsTypes

LEMMA StoresOn ==
  ASSUME NEW s, NEW x, Stores(x, s), NEW y, Stores(y, x)
  PROVE  Stores(y, s)
  BY DEF Stores

LEMMA KeepsTypesOn ==
  ASSUME NEW T, NEW U, KeepsTypes(U, T), NEW V, KeepsTypes(V, U)
  PROVE  KeepsTypes(V, T)
  BY DEF KeepsTypes

LEMMA SameTypes ==
  ASSUME NEW T, GoodTriples(T)
  PROVE  KeepsTypes(T, T)
  BY DEF KeepsTypes

LEMMA AddToListStores ==
  ASSUME NEW s, NEW l, l = [s |-> l.s, first |-> l.first, last |-> l.last], Stores(l.s, s), NEW v
  PROVE  LET m == AddToList(l, v)
         IN  m = [s |-> m.s, first |-> m.first, last |-> m.last] /\ Stores(m.s, s)
<1>. DEFINE value == ValueToNode(l.s, v)
            node == ListNode(l.s, value)
            linked == IF l.last = Nothing THEN l.s.T ELSE ReplaceOne(l.s.T, l.last, "rest", node)
            T == ReplaceOne(linked, node, "first", value)
            m == AddToList(l, v)
<1>1. GoodTriples(l.s.T)
  BY DEF Stores
<1>2. KeepsTypes(linked, l.s.T)
  BY <1>1, ReplaceOneKeeps, SameTypes
<1>. HIDE DEF linked
<1>3. KeepsTypes(T, l.s.T)
  <2>1. KeepsTypes(T, linked)
    BY <1>2, ReplaceOneKeeps DEF KeepsTypes
  <2>. QED  BY <1>2, <2>1, KeepsTypesOn
<1>4. m = IF value = Nothing THEN l
          ELSE [s |-> [l.s EXCEPT !.T = T],
                first |-> IF l.first = Nothing THEN node ELSE l.first, last |-> node]
  BY DEF AddToList, linked
<1>. HIDE DEF T, m, node, value
<1>5. Stores([l.s EXCEPT !.T = T], s)
  BY <1>3, StoresTriples
<1>6. m = [s |-> m.s, first |-> m.first, last |-> m.last] /\ Stores(m.s, s)
  <2>1. CASE value = Nothing
    BY <1>4, <2>1
  <2>2. CASE value # Nothing
    BY <1>4, <1>5, <2>2
  <2>. QED  BY <2>1, <2>2
<1>. QED  BY <1>6 DEF m

ListFold == INSTANCE FoldTheorems
    WITH Op <- LAMBDA l, v, p : AddToList(l, v),
         Inv <- LAMBDA l, k, s : l = [s |-> l.s, first |-> l.first, last |-> l.last] /\ Stores(l.s, s)

LEMMA ListToPropertyNodeStores ==
  ASSUME NEW s, Stores(s, s), NEW list, IsSequence(list)
  PROVE  Stores(ListToPropertyNode(s, list).s, s)
<1>. DEFINE base == [s |-> s, first |-> Nothing, last |-> Nothing]
            l == ListFold!Fold(base, list, 0)
<1>1. ListToPropertyNode(s, list) = EndList(l)
  BY DEF ListToPropertyNode, FoldLeft, MapThenFoldSet, Max, ListFold!Fold, ListFold!Largest
<1>2. base = [s |-> base.s, first |-> base.first, last |-> base.last] /\ Stores(base.s, s)
  OBVIOUS
<1>3. Len(list) \in Nat /\ DOMAIN list = 1..Len(list)
  BY SequenceDomain
<1>. HIDE DEF base
<1>4. ASSUME NEW m, m = [s |-> m.s, first |-> m.first, last |-> m.last], Stores(m.s, s), NEW v
      PROVE  LET n == AddToList(m, v)
             IN  n = [s |-> n.s, first |-> n.first, last |-> n.last] /\ Stores(n.s, s)
  BY <1>4, AddToListStores
<1>5. l = [s |-> l.s, first |-> l.first, last |-> l.last] /\ Stores(l.s, s)
  BY <1>2, <1>3, <1>4, ListFold!FoldInduction
<1>. HIDE DEF l
<1>6. KeepsTypes(ReplaceOne(l.s.T, l.last, "rest", Nil), l.s.T)
  BY <1>5, ReplaceOneKeeps DEF Stores
<1>7. CASE l.last = Nothing
  BY <1>1, <1>5, <1>7 DEF EndList
<1>8. CASE l.last # Nothing
  <2>. DEFINE T == ReplaceOne(l.s.T, l.last, "rest", Nil)
  <2>1. EndList(l) = [l EXCEPT !.s.T = T]
    BY <1>8 DEF EndList
  <2>. HIDE DEF T
  <2>2. EndList(l).s = [l.s EXCEPT !.T = T]
    BY <1>5, <2>1
  <2>3. Stores([l.s EXCEPT !.T = T], s)
    BY <1>5, <1>6, StoresTriples DEF T
  <2>. QED  BY <1>1, <2>2, <2>3
<1>. QED  BY <1>7, <1>8

LEMMA NodesOrNoneAreFinite ==
  ASSUME NEW n
  PROVE  IsFiniteSet(NodesOrNone(n))
<1>1. IsFiniteSet({n}) /\ {n} \ {Nothing} \subseteq {n}
  BY FS_Singleton
<1>. QED  BY <1>1, FS_Subset DEF NodesOrNone

LEMMA StorePropertiesStores ==
  ASSUME NEW s, Stores(s, s), NEW o, IsSequence(s.O[o].list)
  PROVE  Stores(StoreProperties(s, o), s)
<1>. DEFINE n == s.map[o]
            isDefault == s.psp = "StoreIfChanged" /\ VariantsEqual(s.O[o].lit, DefaultLit)
            lit == IF isDefault THEN RemovePropertyNodes(s.T, n, "lit", {})
                   ELSE ReplacePropertyNodes(s.T, n, "lit", {<<"literal", s.O[o].lit>>})
            target == IF s.O[o].ref = Null THEN Nothing ELSE ObjectToPropertyNode(s, s.O[o].ref)
            ref == ReplacePropertyNodes(lit, n, "ref", NodesOrNone(target))
            l == ListToPropertyNode([s EXCEPT !.T = ref], s.O[o].list)
            T == ReplacePropertyNodes(l.s.T, n, "list", NodesOrNone(l.first))
<1>1. StoreProperties(s, o) = [s EXCEPT !.T = T]
  BY DEF StoreProperties
<1>2. KeepsTypes(lit, s.T)
  <2>1. GoodTriples(s.T) /\ IsFiniteSet({<<"literal", s.O[o].lit>>})
    BY FS_Singleton DEF Stores
  <2>2. KeepsTypes(RemovePropertyNodes(s.T, n, "lit", {}), s.T)
    BY <2>1, GoodAreFinite, RemovePropertyNodesRemoves, FewerTriples
  <2>3. KeepsTypes(ReplacePropertyNodes(s.T, n, "lit", {<<"literal", s.O[o].lit>>}), s.T)
    BY <2>1, ReplacePropertyNodesKeeps
  <2>. QED  BY <2>2, <2>3
<1>. HIDE DEF lit, target
<1>3. KeepsTypes(ref, s.T)
  <2>1. KeepsTypes(ref, lit)
    BY <1>2, NodesOrNoneAreFinite, ReplacePropertyNodesKeeps DEF KeepsTypes
  <2>. QED  BY <1>2, <2>1, KeepsTypesOn
<1>. HIDE DEF ref
<1>. DEFINE r == [s EXCEPT !.T = ref]
<1>4. Stores(r, s)
  BY <1>3, StoresTriples
<1>5. Stores(l.s, r)
  <2>1. Stores(r, r)
    BY <1>4 DEF Stores
  <2>. HIDE DEF r
  <2>. QED  BY <2>1, ListToPropertyNodeStores DEF r
<1>. HIDE DEF l, r
<1>6. Stores(l.s, s)
  BY <1>4, <1>5, StoresOn
<1>7. KeepsTypes(T, l.s.T)
  BY <1>6, NodesOrNoneAreFinite, ReplacePropertyNodesKeeps DEF Stores
<1>. HIDE DEF T
<1>8. Stores([l.s EXCEPT !.T = T], s)
  BY <1>6, <1>7, StoresTriples
<1>9. [l.s EXCEPT !.T = T] = [s EXCEPT !.T = T]
  BY <1>6 DEF Stores, StorerFields
<1>. QED  BY <1>1, <1>8, <1>9

LEMMA StoreObjectStores ==
  ASSUME NEW s, NEW x, Stores(x, s), IsGraph(s.O), NEW o \in Object, IsUri(s.map[o])
  PROVE  Stores(StoreObject(x, o), s)
<1>. DEFINE typed == [x EXCEPT !.T = @ \cup {<<x.map[o], "type", KnownType>>}]
            single == StoreSingle(x, o)
            parented == StoreParent(single, o)
<1>2. Stores(typed, s)
  <2>. DEFINE U == {<<x.map[o], "type", KnownType>>}
  <2>1. IsFiniteSet(U) /\ GoodTriples(x.T) /\ x.map[o] = s.map[o]
    BY FS_Singleton DEF Stores
  <2>2. \A t \in U : IsUri(t[1]) /\ t[3] = KnownType
    BY <2>1
  <2>3. Typed(U) \subseteq NodesIn(s.map)
    BY <2>1 DEF Typed, NodesIn
  <2>. HIDE DEF U
  <2>4. GoodTriples(x.T \cup U) /\ Typed(x.T \cup U) = Typed(x.T) \cup Typed(U)
    BY <2>1, <2>2, MoreTriples
  <2>5. typed = [x EXCEPT !.T = x.T \cup U]
    BY DEF U
  <2>. QED  BY <2>3, <2>4, <2>5 DEF Stores, StorerFields
<1>3. Stores(single, s)
  <2>1. Stores(typed, typed) /\ IsSequence(typed.O[o].list)
    BY <1>2 DEF Stores, IsGraph
  <2>2. Stores(StoreProperties(typed, o), typed)
    BY <2>1, StorePropertiesStores
  <2>3. single = StoreProperties(typed, o)
    BY DEF StoreSingle, typed
  <2>. QED  BY <1>2, <2>2, <2>3, StoresOn
<1>. HIDE DEF typed, single
<1>4. Stores(parented, s)
  <2>. DEFINE n == single.map[o]
              values == {single.map[single.O[o].parent]}
  <2>1. KeepsTypes(single.T \ Match(single.T, n, "parent"), single.T)
    BY <1>3, FewerTriples DEF Stores
  <2>2. KeepsTypes(ReplacePropertyNodes(single.T, n, "parent", values), single.T)
    BY <1>3, FS_Singleton, ReplacePropertyNodesKeeps DEF Stores
  <2>3. parented \in {[single EXCEPT !.T = single.T \ Match(single.T, n, "parent")], single,
                      [single EXCEPT !.T = ReplacePropertyNodes(single.T, n, "parent", values)]}
    BY DEF StoreParent
  <2>. HIDE DEF parented
  <2>. QED  BY <1>3, <2>1, <2>2, <2>3, StoresTriples
<1>5. StoreObject(x, o) = StoreFollows(parented, o)
  BY DEF StoreObject, single
<1>. HIDE DEF parented
<1>6. Stores(StoreFollows(parented, o), s)
  <2>. DEFINE n == parented.map[o]
              previous == IF parented.O[o].parent = Null \/ "siblings" \notin parented.fp THEN Null
                          ELSE PreviousSibling(parented.O, o)
              values == {parented.map[previous]}
  <2>1. KeepsTypes(parented.T \ Match(parented.T, n, "follows"), parented.T)
    BY <1>4, FewerTriples DEF Stores
  <2>2. KeepsTypes(ReplacePropertyNodes(parented.T, n, "follows", values), parented.T)
    BY <1>4, FS_Singleton, ReplacePropertyNodesKeeps DEF Stores
  <2>3. StoreFollows(parented, o)
          \in {[parented EXCEPT !.T = parented.T \ Match(parented.T, n, "follows")],
               [parented EXCEPT !.T = ReplacePropertyNodes(parented.T, n, "follows", values)]}
    BY DEF StoreFollows
  <2>. QED  BY <1>4, <2>1, <2>2, <2>3, StoresTriples
<1>. QED  BY <1>5, <1>6

StoringFold == INSTANCE FoldTheorems
    WITH Op <- LAMBDA x, o, p : StoreObject(x, o), Inv <- LAMBDA x, k, s : Stores(x, s)

\* All of a call: the objects that are stored have URIs for their nodes, and others
\* keep theirs.
LEMMA StoreGives ==
  ASSUME NEW s, IsStorerState(s), NodesAreUris(s), GoodTriples(s.T), IsFiniteSet(s.used),
         NEW requested \in Seq(Living(s.O)), NEW order
  PROVE  LET r == Store(s, requested, order)
         IN  /\ IsGraph(r.s.O) /\ Living(r.s.O) = Living(s.O)
             /\ NodesAreUris(r.s) /\ GoodTriples(r.s.T)
             /\ r.s.map = [o \in Object |-> r.s.map[o]]
             /\ r.stored \subseteq Living(s.O)
             /\ \A o \in r.stored : r.s.map[o] # Nothing
             /\ \A o \in Object :
                 /\ s.map[o] # Nothing => r.s.map[o] = s.map[o]
                 /\ s.O[o].uri # Nothing => r.s.O[o].uri = s.O[o].uri
                 /\ o \notin r.stored => r.s.map[o] = s.map[o] /\ r.s.O[o].uri = s.O[o].uri
             /\ UrisDiffer(s.O) => UrisDiffer(r.s.O)
             /\ Typed(r.s.T) \subseteq Typed(s.T) \cup NodesIn(r.s.map)
<1>. DEFINE c == Collect(s, requested)
            x == AllocationFold!Fold(s, Ordered(c.toAllocate, order), c)
            seq == Ordered(c.toStore, order)
            y == StoringFold!Fold(x, seq, 0)
            r == Store(s, requested, order)
<1>1. r = [s |-> y, stored |-> c.toStore]
  <2>1. x = FoldLeft(LAMBDA q, o : AllocateNode(q, c.noBlanks, o), s, Ordered(c.toAllocate, order))
    BY AllocationIsFolded
  <2>. HIDE DEF x, c
  <2>2. StoreCollected(s, c, order)
          = [s |-> FoldLeft(StoreObject, x, Ordered(c.toStore, order)), stored |-> c.toStore]
    BY <2>1 DEF StoreCollected
  <2>3. FoldLeft(StoreObject, x, seq) = StoringFold!Fold(x, seq, 0)
    BY DEF FoldLeft, MapThenFoldSet, Max, StoringFold!Fold, StoringFold!Largest
  <2>. QED  BY <2>2, <2>3 DEF Store, c
<1>2. CollectInv(c, s)
  BY CollectFinds
<1>. HIDE DEF c, r
<1>3. /\ c.toAllocate \subseteq c.toStore /\ c.toStore \subseteq Living(s.O)
      /\ c.toAllocate \subseteq Living(s.O)
  BY <1>2 DEF CollectInv
<1>4. Allocated(x, s, c.toAllocate) /\ \A o \in c.toAllocate : x.map[o] # Nothing
  BY <1>3, AllocationAllocates
<1>. HIDE DEF x
<1>5. seq \in Seq(c.toStore)
  <2>1. IsFiniteSet(c.toStore)
    BY <1>3, ObjectsAreFinite, FS_Subset DEF Living
  <2>. QED  BY <2>1, OrderedIsSequence
<1>. HIDE DEF seq
<1>6. ASSUME NEW o \in c.toStore PROVE o \in Object /\ x.map[o] # Nothing /\ IsUri(x.map[o])
  <2>1. o \in Object
    BY <1>3 DEF Living
  <2>2. x.map[o] # Nothing
    <3>1. CASE o \in c.toAllocate
      BY <1>4, <3>1
    <3>2. CASE o \notin c.toAllocate
      <4>1. s.map[o] # Nothing
        BY <1>2, <3>2 DEF CollectInv
      <4>. QED  BY <1>4, <2>1, <4>1 DEF Allocated
    <3>. QED  BY <3>1, <3>2
  <2>. QED  BY <1>4, <2>1, <2>2 DEF Allocated, NodesAreUris, IsStorerState, IsGraph
<1>7. IsGraph(x.O) /\ Stores(x, x)
  BY <1>4 DEF Allocated, IsStorerState, Stores
<1>8. Stores(y, x)
  <2>1. Len(seq) \in Nat /\ DOMAIN seq = 1..Len(seq) /\ \A k \in 1..Len(seq) : seq[k] \in c.toStore
    BY <1>5
  <2>2. ASSUME NEW z, NEW k \in 1..Len(seq), Stores(z, x) PROVE Stores(StoreObject(z, seq[k]), x)
    BY <1>6, <1>7, <2>1, <2>2, StoreObjectStores
  <2>. QED  BY <1>7, <2>1, <2>2, StoringFold!FoldInduction
<1>. HIDE DEF y
<1>9. /\ r.s.O = x.O /\ r.s.map = x.map /\ r.stored = c.toStore /\ GoodTriples(r.s.T)
  BY <1>1, <1>8 DEF Stores
<1>10. /\ IsGraph(r.s.O) /\ Living(r.s.O) = Living(s.O) /\ NodesAreUris(r.s)
       /\ r.s.map = [o \in Object |-> r.s.map[o]]
       /\ UrisDiffer(s.O) => UrisDiffer(r.s.O)
  BY <1>4, <1>9 DEF Allocated, IsStorerState, NodesAreUris
<1>11. \A o \in Object :
         /\ s.map[o] # Nothing => r.s.map[o] = s.map[o]
         /\ s.O[o].uri # Nothing => r.s.O[o].uri = s.O[o].uri
         /\ o \notin r.stored => r.s.map[o] = s.map[o] /\ r.s.O[o].uri = s.O[o].uri
  BY <1>3, <1>4, <1>9 DEF Allocated
<1>12. r.stored \subseteq Living(s.O) /\ \A o \in r.stored : r.s.map[o] # Nothing
  BY <1>3, <1>6, <1>9
<1>13. Typed(r.s.T) \subseteq Typed(s.T) \cup NodesIn(r.s.map)
  BY <1>1, <1>4, <1>8 DEF Stores, Allocated
<1>. QED  BY <1>9, <1>10, <1>11, <1>12, <1>13 DEF r

-------------------------------------------------------------------------------
(* manage.                                                                       *)

\* Objects in the network are watched and have the URIs of their nodes, and nodes
\* those objects that have them.
IsNetwork(m, O) ==
    /\ DOMAIN m = {"objectNode", "nodeObject", "watched"}
    /\ m.objectNode = [o \in Object |-> m.objectNode[o]]
    /\ m.nodeObject = [n \in DOMAIN m.nodeObject |-> m.nodeObject[n]]
    /\ IsFiniteSet(DOMAIN m.nodeObject)
    /\ m.watched \subseteq Living(O)
    /\ \A o \in Object : m.objectNode[o] # Nothing =>
        o \in m.watched /\ O[o].uri = m.objectNode[o]
    /\ \A n \in DOMAIN m.nodeObject : m.nodeObject[n] # Null =>
        n # Nothing /\ m.nodeObject[n] \in Object /\ m.objectNode[m.nodeObject[n]] = n

\* The nodes in a map that have lost their objects.
Vacant(map) == {n \in DOMAIN map : map[n] = Null}

\* The objects in one of the maps are in both.
MapsTo(m, O, o) == m.objectNode[o] = O[o].uri /\ Value(m.nodeObject, O[o].uri) = o
IsPaired(m, O) == \A o \in Living(O) : m.objectNode[o] # Nothing => MapsTo(m, O, o)

LEMMA ManageKeeps ==
  ASSUME NEW O, NEW m, IsNetwork(m, O), NEW o \in Living(O)
  PROVE  LET w == Manage(m, o, O[o].uri)
         IN  /\ IsNetwork(w, O) /\ m.watched \subseteq w.watched
             /\ \A p \in Object \ {o} : w.objectNode[p] = m.objectNode[p]
             /\ m.objectNode[o] # Nothing \/ O[o].uri # Nothing => w.objectNode[o] # Nothing
             /\ UrisDiffer(O) /\ IsPaired(m, O) => IsPaired(w, O)
             /\ Vacant(w.nodeObject) \subseteq Vacant(m.nodeObject)
<1>. DEFINE u == O[o].uri
            w == Manage(m, o, u)
<1>0. o \in Object
  BY DEF Living
<1>1. CASE u = Nothing \/ (m.objectNode[o] # Nothing /\ u \in DOMAIN m.nodeObject)
  <2>1. w = m
    BY <1>1 DEF Manage
  <2>2. O[o].uri # Nothing => m.objectNode[o] # Nothing
    BY <1>1
  <2>. QED  BY <2>1, <2>2
<1>2. CASE u # Nothing /\ ~(m.objectNode[o] # Nothing /\ u \in DOMAIN m.nodeObject)
  <2>. DEFINE f == Set(m.nodeObject, u, o)
  <2>1. f = [n \in DOMAIN m.nodeObject \cup {u} |-> IF n = u THEN o ELSE m.nodeObject[n]]
    BY DEF Set
  <2>2. w = [m EXCEPT !.objectNode[o] = u, !.nodeObject = f, !.watched = @ \cup {o}]
    BY <1>2 DEF Manage
  <2>. HIDE DEF f, u, w
  <2>3. /\ DOMAIN w = {"objectNode", "nodeObject", "watched"}
        /\ w.objectNode = [p \in Object |-> IF p = o THEN u ELSE m.objectNode[p]]
        /\ w.nodeObject = f /\ w.watched = m.watched \cup {o}
    BY <1>0, <2>2 DEF IsNetwork
  <2>4. IsFiniteSet(DOMAIN w.nodeObject)
    <3>1. IsFiniteSet(DOMAIN m.nodeObject \cup {u})
      BY FS_AddElement DEF IsNetwork
    <3>. QED  BY <2>1, <2>3, <3>1
  <2>5. ASSUME NEW p \in Object, w.objectNode[p] # Nothing
        PROVE  p \in w.watched /\ O[p].uri = w.objectNode[p]
    <3>1. CASE p = o
      BY <2>3, <3>1 DEF u
    <3>2. CASE p # o
      BY <2>3, <2>5, <3>2 DEF IsNetwork
    <3>. QED  BY <3>1, <3>2
  <2>6. ASSUME NEW n \in DOMAIN w.nodeObject, w.nodeObject[n] # Null
        PROVE  n # Nothing /\ w.nodeObject[n] \in Object /\ w.objectNode[w.nodeObject[n]] = n
    <3>1. CASE n = u
      BY <1>0, <1>2, <2>1, <2>3, <3>1
    <3>2. CASE n # u
      <4>1. n \in DOMAIN m.nodeObject /\ w.nodeObject[n] = m.nodeObject[n]
        BY <2>1, <2>3, <2>6, <3>2
      <4>2. /\ n # Nothing /\ m.nodeObject[n] \in Object /\ m.objectNode[m.nodeObject[n]] = n
        BY <2>6, <4>1 DEF IsNetwork
      <4>3. O[m.nodeObject[n]].uri = n
        BY <4>2 DEF IsNetwork
      <4>4. m.nodeObject[n] # o
        BY <3>2, <4>3 DEF u
      <4>. QED  BY <2>3, <4>1, <4>2, <4>4
    <3>. QED  BY <3>1, <3>2
  <2>7. IsNetwork(w, O)
    BY <2>1, <2>3, <2>4, <2>5, <2>6 DEF IsNetwork
  <2>8. /\ m.watched \subseteq w.watched /\ w.objectNode[o] # Nothing
        /\ \A p \in Object \ {o} : w.objectNode[p] = m.objectNode[p]
    BY <1>0, <1>2, <2>3
  <2>9. ASSUME UrisDiffer(O), IsPaired(m, O), NEW p \in Living(O), w.objectNode[p] # Nothing
        PROVE  MapsTo(w, O, p)
    <3>1. CASE p = o
      BY <1>0, <2>1, <2>3, <3>1 DEF MapsTo, Value, u
    <3>2. CASE p # o
      <4>1. m.objectNode[p] # Nothing /\ w.objectNode[p] = m.objectNode[p] /\ p \in Object
        BY <2>8, <2>9, <3>2 DEF Living
      <4>2. MapsTo(m, O, p) /\ O[p].uri # Nothing
        BY <2>9, <4>1 DEF IsPaired, MapsTo
      <4>3. O[p].uri # u
        BY <2>9, <3>2, <4>2 DEF UrisDiffer, u
      <4>4. Value(w.nodeObject, O[p].uri) = Value(m.nodeObject, O[p].uri)
        BY <2>1, <2>3, <4>3 DEF Value
      <4>. QED  BY <4>1, <4>2, <4>4 DEF MapsTo
    <3>. QED  BY <3>1, <3>2
  <2>10. UrisDiffer(O) /\ IsPaired(m, O) => IsPaired(w, O)
    BY <2>9 DEF IsPaired
  <2>11. Vacant(w.nodeObject) \subseteq Vacant(m.nodeObject)
    <3>1. o # Null
      BY <1>0 DEF Object, Null
    <3>. QED  BY <2>1, <2>3, <3>1 DEF Vacant
  <2>. QED  BY <2>7, <2>8, <2>10, <2>11 DEF w, u
<1>. QED  BY <1>1, <1>2

\* A network after the objects in S have been managed in one with m's settings.
Manages(w, m, O, S) ==
    /\ IsNetwork(w, O) /\ m.watched \subseteq w.watched
    /\ \A o \in Object \ S : w.objectNode[o] = m.objectNode[o]
    /\ \A o \in Object : m.objectNode[o] # Nothing => w.objectNode[o] # Nothing
    /\ UrisDiffer(O) /\ IsPaired(m, O) => IsPaired(w, O)
    /\ Vacant(w.nodeObject) \subseteq Vacant(m.nodeObject)

ManageFold == INSTANCE FoldTheorems
    WITH Op <- LAMBDA m, o, O : Manage(m, o, O[o].uri),
         Inv <- LAMBDA w, k, q :
                    /\ Manages(w, q.m, q.O, ToSet(q.seq))
                    /\ \A j \in 1..k : q.O[q.seq[j]].uri # Nothing => w.objectNode[q.seq[j]] # Nothing

LEMMA ManagedIsFolded ==
  ASSUME NEW O, NEW m, NEW seq
  PROVE  FoldLeft(LAMBDA w, o : Manage(w, o, O[o].uri), m, seq) = ManageFold!Fold(m, seq, O)
  BY DEF FoldLeft, MapThenFoldSet, Max, ManageFold!Fold, ManageFold!Largest

LEMMA LoadedIsFolded ==
  ASSUME NEW r
  PROVE  AfterLoading(r) = ManageFold!Fold(ForgetAll(r.gone),
                                           SetToSeq({Value(r.map, n) : n \in r.populated} \ {Null}), r.O)
  BY DEF AfterLoading, FoldLeft, MapThenFoldSet, Max, ManageFold!Fold, ManageFold!Largest

LEMMA ManagedObjects ==
  ASSUME NEW O, NEW m, IsNetwork(m, O), NEW S \in SUBSET Living(O)
  PROVE  LET w == ManageFold!Fold(m, SetToSeq(S), O)
         IN  /\ Manages(w, m, O, S)
             /\ \A o \in S : O[o].uri # Nothing => w.objectNode[o] # Nothing
<1>. DEFINE seq == SetToSeq(S)
            q == [m |-> m, O |-> O, seq |-> seq]
            w == ManageFold!Fold(m, seq, O)
            Holds(x, k) ==
              /\ Manages(x, q.m, q.O, ToSet(q.seq))
              /\ \A j \in 1..k : q.O[q.seq[j]].uri # Nothing => x.objectNode[q.seq[j]] # Nothing
<1>1. seq \in Seq(S) /\ ToSet(seq) = S
  <2>1. IsFiniteSet(S)
    BY ObjectsAreFinite, FS_Subset DEF Living
  <2>. QED  BY <2>1, SetToSeqIsSequence
<1>2. q.m = m /\ q.O = O /\ q.seq = seq
  OBVIOUS
<1>. HIDE DEF q, seq
<1>3. /\ Len(seq) \in Nat /\ DOMAIN seq = 1..Len(seq)
      /\ \A j \in 1..Len(seq) : seq[j] \in S /\ seq[j] \in Object
  BY <1>1 DEF Living
<1>4. Holds(m, 0)
  BY <1>2 DEF Manages
<1>5. ASSUME NEW x, NEW k \in 1..Len(seq), Holds(x, k - 1)
      PROVE  Holds(Manage(x, seq[k], O[seq[k]].uri), k)
  <2>. DEFINE o == seq[k]
              z == Manage(x, o, O[o].uri)
  <2>0. Manages(x, m, O, S) /\ o \in S /\ o \in Object
    BY <1>1, <1>2, <1>3, <1>5
  <2>1. /\ IsNetwork(z, O) /\ x.watched \subseteq z.watched
        /\ \A p \in Object \ {o} : z.objectNode[p] = x.objectNode[p]
        /\ x.objectNode[o] # Nothing \/ O[o].uri # Nothing => z.objectNode[o] # Nothing
        /\ UrisDiffer(O) /\ IsPaired(x, O) => IsPaired(z, O)
        /\ Vacant(z.nodeObject) \subseteq Vacant(x.nodeObject)
    <3>1. IsNetwork(x, O) /\ o \in Living(O)
      BY <2>0 DEF Manages
    <3>. HIDE DEF o
    <3>. QED  BY <3>1, ManageKeeps
  <2>. HIDE DEF z
  <2>2. Manages(z, m, O, S)
    BY <2>0, <2>1 DEF Manages
  <2>3. ASSUME NEW j \in 1..k, O[seq[j]].uri # Nothing PROVE z.objectNode[seq[j]] # Nothing
    <3>1. CASE seq[j] = o
      BY <2>1, <2>3, <3>1
    <3>2. CASE seq[j] # o
      <4>1. j \in 1..k - 1 /\ j \in 1..Len(seq)
        BY <3>2
      <4>2. x.objectNode[seq[j]] # Nothing
        BY <1>2, <1>5, <2>3, <4>1
      <4>. QED  BY <1>3, <2>1, <3>2, <4>1, <4>2
    <3>. QED  BY <3>1, <3>2
  <2>. QED  BY <1>1, <1>2, <2>2, <2>3 DEF z
<1>6. Holds(w, Len(seq))
  BY <1>3, <1>4, <1>5, ManageFold!FoldInduction
<1>7. ASSUME NEW o \in S, O[o].uri # Nothing PROVE w.objectNode[o] # Nothing
  <2>1. \E j \in 1..Len(seq) : o = seq[j]
    BY <1>1, <1>3 DEF ToSet
  <2>. QED  BY <1>2, <1>6, <1>7, <2>1
<1>. QED  BY <1>1, <1>2, <1>6, <1>7 DEF seq

-------------------------------------------------------------------------------
(* Walks from node to node.                                                      *)

\* What properties lead to.
LEMMA RelativesAreFinite ==
  ASSUME NEW s, GoodTriples(s.T), s.fp = {"properties"}, NEW n
  PROVE  IsFiniteSet(RelativesOfNode(s, n))
<1>1. IsFiniteSet(s.T)
  BY GoodAreFinite
<1>2. RelativesOfNode(s, n) = PotentialPropertyNodesOf(s.T, n)
  BY DEF RelativesOfNode
<1>. QED  BY <1>1, <1>2, PropertyNodesAreFinite

-------------------------------------------------------------------------------
(* What the loader makes.                                                        *)

\* The objects of nodes live and have them for URIs; nodes that are to be allocated
\* have none, and a type.
LoaderFields == {"T", "O", "map", "fp", "ap", "ignoreUnknown", "toAllocate", "toInitialise",
                 "toPopulate", "outcome", "gone", "populated", "order"}
IsLoaderState(s) ==
    /\ DOMAIN s = LoaderFields /\ s.fp = {"properties"} /\ GoodTriples(s.T)
    /\ s.outcome \in {"returns", "hangs", "full"}
    /\ IsGraph(s.O)
    /\ s.map = [n \in DOMAIN s.map |-> s.map[n]] /\ IsFiniteSet(DOMAIN s.map)
    /\ \A n : Value(s.map, n) # Null =>
        n # Nothing /\ Value(s.map, n) \in Living(s.O) /\ s.O[Value(s.map, n)].uri = n
    /\ \A n \in s.toAllocate : NodeHasType(s.T, n) /\ Value(s.map, n) = Null
    /\ \A n \in s.toInitialise : NodeHasType(s.T, n)

\* From s to r objects have only been added, each for a node that was to be
\* allocated.
Grows(r, s) ==
    /\ IsLoaderState(r) /\ r.T = s.T /\ r.gone = s.gone /\ r.populated = s.populated
    /\ r.toAllocate \subseteq s.toAllocate /\ r.toInitialise \subseteq s.toInitialise
    /\ Living(s.O) \subseteq Living(r.O)
    /\ \A o \in Living(s.O) : r.O[o].uri = s.O[o].uri
    /\ \A n : Value(s.map, n) # Null => Value(r.map, n) = Value(s.map, n)
    /\ \A n : Value(r.map, n) # Null => Value(r.map, n) = Value(s.map, n) \/ n \in s.toAllocate
    /\ \A n \in DOMAIN r.map : Value(r.map, n) = Null => n \in DOMAIN s.map
    /\ \A o \in Living(r.O) \ Living(s.O) : Value(r.map, r.O[o].uri) = o
Allocates(r, s) == Grows(r, s) /\ r.toPopulate = s.toPopulate

LEMMA GrowsOn ==
  ASSUME NEW q, NEW r, NEW s, Grows(q, r), Grows(r, s)
  PROVE  Grows(q, s)
<1>1. ASSUME NEW n, Value(q.map, n) # Null
      PROVE  Value(q.map, n) = Value(s.map, n) \/ n \in s.toAllocate
  <2>1. Value(q.map, n) = Value(r.map, n) \/ n \in r.toAllocate
    BY <1>1 DEF Grows
  <2>. QED  BY <1>1, <2>1 DEF Grows
<1>2. ASSUME NEW n, Value(s.map, n) # Null PROVE Value(q.map, n) = Value(s.map, n)
  <2>1. Value(r.map, n) = Value(s.map, n)
    BY <1>2 DEF Grows
  <2>2. Value(q.map, n) = Value(r.map, n)
    BY <1>2, <2>1 DEF Grows
  <2>. QED  BY <2>1, <2>2
<1>3. ASSUME NEW o \in Living(q.O) \ Living(s.O) PROVE Value(q.map, q.O[o].uri) = o
  <2>1. CASE o \in Living(r.O)
    <3>1. Value(r.map, r.O[o].uri) = o /\ q.O[o].uri = r.O[o].uri
      BY <2>1 DEF Grows
    <3>2. o # Null
      BY DEF Living, Object, Null
    <3>. DEFINE n == r.O[o].uri
    <3>. HIDE DEF n
    <3>3. Value(r.map, n) # Null => Value(q.map, n) = Value(r.map, n)
      BY DEF Grows
    <3>. QED  BY <3>1, <3>2, <3>3 DEF n
  <2>2. CASE o \notin Living(r.O)
    BY <2>2 DEF Grows
  <2>. QED  BY <2>1, <2>2
<1>4. \A o \in Living(s.O) : q.O[o].uri = s.O[o].uri
  BY DEF Grows
<1>5. /\ IsLoaderState(q) /\ q.T = s.T /\ q.gone = s.gone /\ q.populated = s.populated
      /\ q.toAllocate \subseteq s.toAllocate /\ q.toInitialise \subseteq s.toInitialise
      /\ Living(s.O) \subseteq Living(q.O)
  BY DEF Grows
<1>6. ASSUME NEW n \in DOMAIN q.map, Value(q.map, n) = Null PROVE n \in DOMAIN s.map
  <2>1. n \in DOMAIN r.map
    BY <1>6 DEF Grows
  <2>2. Value(r.map, n) = Null
    BY <1>6 DEF Grows
  <2>. QED  BY <2>1, <2>2 DEF Grows
<1>. QED  BY <1>1, <1>2, <1>3, <1>4, <1>5, <1>6 DEF Grows

LEMMA AllocatesOn ==
  ASSUME NEW q, NEW r, NEW s, Allocates(q, r), Allocates(r, s)
  PROVE  Allocates(q, s)
  BY GrowsOn DEF Allocates

LEMMA AllocatesNothing ==
  ASSUME NEW s, IsLoaderState(s)
  PROVE  Allocates(s, s)
  BY DEF Allocates, Grows

\* Steps that do not touch the objects' lives.
LEMMA SameObjects ==
  ASSUME NEW s, IsLoaderState(s), NEW P, IsGraph(P), SameLives(s.O, P)
  PROVE  Allocates([s EXCEPT !.O = P], s)
<1>. DEFINE r == [s EXCEPT !.O = P]
<1>1. /\ DOMAIN r = LoaderFields /\ r.O = P /\ r.map = s.map /\ r.T = s.T /\ r.fp = s.fp
      /\ r.toAllocate = s.toAllocate /\ r.toInitialise = s.toInitialise
      /\ r.toPopulate = s.toPopulate /\ r.outcome = s.outcome /\ r.gone = s.gone
      /\ r.populated = s.populated
  BY DEF IsLoaderState, LoaderFields
<1>. HIDE DEF r
<1>2. Living(r.O) = Living(s.O) /\ \A o \in Living(s.O) : r.O[o].uri = s.O[o].uri
  BY <1>1 DEF SameLives, Living
<1>3. IsLoaderState(r)
  BY <1>1, <1>2 DEF IsLoaderState
<1>. QED  BY <1>1, <1>2, <1>3 DEF Allocates, Grows, r

LEMMA Halts ==
  ASSUME NEW s, IsLoaderState(s), NEW end \in {"returns", "hangs", "full"}
  PROVE  Allocates([s EXCEPT !.outcome = end], s)
<1>. DEFINE r == [s EXCEPT !.outcome = end]
<1>1. /\ DOMAIN r = LoaderFields /\ r.O = s.O /\ r.map = s.map /\ r.T = s.T /\ r.fp = s.fp
      /\ r.toAllocate = s.toAllocate /\ r.toInitialise = s.toInitialise
      /\ r.toPopulate = s.toPopulate /\ r.outcome = end /\ r.gone = s.gone
      /\ r.populated = s.populated
  BY DEF IsLoaderState, LoaderFields
<1>. HIDE DEF r
<1>2. IsLoaderState(r)
  BY <1>1 DEF IsLoaderState
<1>. QED  BY <1>1, <1>2 DEF Allocates, Grows, r

LEMMA InitialisesLess ==
  ASSUME NEW s, IsLoaderState(s), NEW n
  PROVE  Allocates([s EXCEPT !.toInitialise = @ \ {n}], s)
<1>. DEFINE r == [s EXCEPT !.toInitialise = @ \ {n}]
<1>1. /\ DOMAIN r = LoaderFields /\ r.O = s.O /\ r.map = s.map /\ r.T = s.T /\ r.fp = s.fp
      /\ r.toAllocate = s.toAllocate /\ r.toInitialise = s.toInitialise \ {n}
      /\ r.toPopulate = s.toPopulate /\ r.outcome = s.outcome /\ r.gone = s.gone
      /\ r.populated = s.populated
  BY DEF IsLoaderState, LoaderFields
<1>. HIDE DEF r
<1>2. IsLoaderState(r)
  BY <1>1 DEF IsLoaderState
<1>. QED  BY <1>1, <1>2 DEF Allocates, Grows, r

-------------------------------------------------------------------------------
(* Allocation.                                                                   *)

LEMMA TypedNodes ==
  ASSUME NEW T, GoodTriples(T), NEW n, NodeHasType(T, n)
  PROVE  IsUri(n) /\ n # Nothing /\ IsKnown(T, n) /\ n \in NodesOf(T)
<1>. DEFINE t == CHOOSE u \in Match(T, n, "type") : TRUE
<1>1. ~IsUri(Nothing)
  BY DEF IsUri, Nothing
<1>2. Match(T, n, "type") # {} /\ ObjectOf(T, n, "type") = t[3]
  BY <1>1 DEF NodeHasType, ObjectOf
<1>3. t \in Match(T, n, "type")
  BY <1>2
<1>. HIDE DEF t
<1>4. t \in T /\ t[1] = n /\ t[2] = "type"
  BY <1>3 DEF Match
<1>5. IsUri(n) /\ t[3] = KnownType
  BY <1>4 DEF GoodTriples
<1>6. n \in NodesOf(T)
  <2>1. n \in {t[1], t[3]}
    BY <1>4
  <2>. QED  BY <1>4, <2>1 DEF NodesOf
<1>. QED  BY <1>1, <1>2, <1>5, <1>6 DEF IsKnown

LEMMA TypedNodesAreFinite ==
  ASSUME NEW T, GoodTriples(T), NEW S, \A n \in S : NodeHasType(T, n)
  PROVE  IsFiniteSet(S)
<1>1. S \subseteq NodesOf(T)
  BY TypedNodes
<1>. QED  BY <1>1, GoodAreFinite, NodesAreFinite, FS_Subset

LEMMA AllocateSingleUnderAllocates ==
  ASSUME NEW s, IsLoaderState(s), NEW n, NEW parent
  PROVE  Allocates(AllocateSingleUnder(s, n, parent), s)
<1>. DEFINE r == AllocateSingleUnder(s, n, parent)
<1>1. CASE ~Going(s) \/ n \notin s.toAllocate
  <2>1. r = s
    BY <1>1 DEF AllocateSingleUnder
  <2>. QED  BY <2>1, AllocatesNothing
<1>2. CASE Going(s) /\ n \in s.toAllocate /\ Living(s.O) = Object
  <2>1. IsKnown(s.T, n)
    BY <1>2, TypedNodes DEF IsLoaderState
  <2>2. r = NoRoom(s)
    BY <1>2, <2>1 DEF AllocateSingleUnder
  <2>. QED  BY <2>2, Halts DEF NoRoom
<1>3. CASE Going(s) /\ n \in s.toAllocate /\ Living(s.O) # Object
  <2>. DEFINE o == Unused(s.O)
              P == SetParent([s.O EXCEPT ![o] = New(n)], o, parent)
              f == [m \in DOMAIN s.map \cup {n} |-> IF m = n THEN o ELSE s.map[m]]
  <2>1. IsKnown(s.T, n) /\ IsUri(n) /\ n # Nothing /\ Value(s.map, n) = Null
    BY <1>3, TypedNodes DEF IsLoaderState
  <2>2. o \in Object \ Living(s.O) /\ o # Null
    <3>1. \E x \in Object : x \notin Living(s.O)
      BY <1>3 DEF Living
    <3>. QED  BY <3>1 DEF Unused, Object, Null
  <2>3. r = [[[s EXCEPT !.O = P] EXCEPT !.map = f] EXCEPT !.toAllocate = s.toAllocate \ {n}]
    <3>1. DOMAIN s = LoaderFields
      BY DEF IsLoaderState
    <3>2. AllocateObject(s, n, parent) = [s EXCEPT !.O = P]
      BY <2>1 DEF AllocateObject
    <3>. HIDE DEF P, o
    <3>3. Insert([s EXCEPT !.O = P], n, o) = [[s EXCEPT !.O = P] EXCEPT !.map = f]
      BY <3>1 DEF Insert, LoaderFields
    <3>4. r = [Insert(AllocateObject(s, n, parent), n, o) EXCEPT !.toAllocate = @ \ {n}]
      BY <1>3, <2>1 DEF AllocateSingleUnder, o
    <3>. HIDE DEF f, r
    <3>5. [[s EXCEPT !.O = P] EXCEPT !.map = f].toAllocate = s.toAllocate
      BY <3>1 DEF LoaderFields
    <3>. QED  BY <3>2, <3>3, <3>4, <3>5
  <2>4. /\ IsGraph(P) /\ Living(P) = Living(s.O) \cup {o} /\ P[o].uri = n
        /\ \A x \in Living(s.O) : P[x].uri = s.O[x].uri
    <3>. HIDE DEF o
    <3>. QED  BY <2>1, <2>2, NewObject DEF IsLoaderState
  <2>5. IsFiniteSet(DOMAIN s.map \cup {n})
    BY FS_AddElement DEF IsLoaderState
  <2>. HIDE DEF o, P, r
  <2>6. /\ DOMAIN r = LoaderFields /\ r.O = P /\ r.map = f /\ r.T = s.T /\ r.fp = s.fp
        /\ r.toAllocate = s.toAllocate \ {n} /\ r.toInitialise = s.toInitialise
        /\ r.toPopulate = s.toPopulate /\ r.outcome = s.outcome /\ r.gone = s.gone
        /\ r.populated = s.populated
    <3>. HIDE DEF f
    <3>. QED  BY <2>3 DEF IsLoaderState, LoaderFields
  <2>7. \A m : Value(r.map, m) = IF m = n THEN o ELSE Value(s.map, m)
    BY <2>6 DEF Value
  <2>8. /\ r.map = [m \in DOMAIN r.map |-> r.map[m]] /\ IsFiniteSet(DOMAIN r.map)
        /\ DOMAIN r.map = DOMAIN s.map \cup {n}
    BY <2>5, <2>6
  <2>. HIDE DEF f
  <2>9. \A m : Value(r.map, m) # Null =>
           m # Nothing /\ Value(r.map, m) \in Living(r.O) /\ r.O[Value(r.map, m)].uri = m
    <3>. TAKE m
    <3>1. CASE m = n
      BY <2>1, <2>4, <2>6, <2>7, <3>1
    <3>2. CASE m # n
      BY <2>4, <2>6, <2>7, <3>2 DEF IsLoaderState
    <3>. QED  BY <3>1, <3>2
  <2>10. \A m \in r.toAllocate : NodeHasType(r.T, m) /\ Value(r.map, m) = Null
    BY <2>6, <2>7 DEF IsLoaderState
  <2>11. IsLoaderState(r)
    BY <2>4, <2>6, <2>8, <2>9, <2>10 DEF IsLoaderState
  <2>12. \A m : Value(s.map, m) # Null => Value(r.map, m) = Value(s.map, m)
    BY <2>1, <2>7
  <2>13. \A m : Value(r.map, m) # Null => Value(r.map, m) = Value(s.map, m) \/ m \in s.toAllocate
    BY <1>3, <2>7
  <2>14. \A x \in Living(r.O) \ Living(s.O) : Value(r.map, r.O[x].uri) = x
    BY <2>4, <2>6, <2>7
  <2>15. /\ r.toAllocate \subseteq s.toAllocate /\ r.toInitialise \subseteq s.toInitialise
         /\ Living(s.O) \subseteq Living(r.O)
         /\ \A x \in Living(s.O) : r.O[x].uri = s.O[x].uri
    BY <2>4, <2>6
  <2>16. \A m \in DOMAIN r.map : Value(r.map, m) = Null => m \in DOMAIN s.map
    BY <2>2, <2>7, <2>8
  <2>. QED  BY <2>6, <2>11, <2>12, <2>13, <2>14, <2>15, <2>16 DEF Allocates, Grows, r
<1>. QED  BY <1>1, <1>2, <1>3 DEF Living

\* The same in a state of the loader.
LEMMA SetsLit ==
  ASSUME NEW s, IsLoaderState(s), NEW o \in Object, NEW lit
  PROVE  Allocates([s EXCEPT !.O[o].lit = lit], s)
<1>. DEFINE P == [s.O EXCEPT ![o].lit = lit]
<1>1. IsGraph(P) /\ SameLives(s.O, P)
  <2>1. IsSequence(<<>>) /\ ToSet(<<>>) = {}
    BY DEF IsSequence, ToSet
  <2>. QED  BY <2>1, ChangeOfValues DEF IsLoaderState
<1>2. [s EXCEPT !.O[o].lit = lit] = [s EXCEPT !.O = P]
  OBVIOUS
<1>. HIDE DEF P
<1>. QED  BY <1>1, <1>2, SameObjects

LEMMA SetsRef ==
  ASSUME NEW s, IsLoaderState(s), NEW o \in Object, NEW ref, ref # Null => ref \in Living(s.O)
  PROVE  Allocates([s EXCEPT !.O[o].ref = ref], s)
<1>. DEFINE P == [s.O EXCEPT ![o].ref = ref]
<1>1. IsGraph(P) /\ SameLives(s.O, P)
  <2>1. IsSequence(<<>>) /\ ToSet(<<>>) = {}
    BY DEF IsSequence, ToSet
  <2>. QED  BY <2>1, ChangeOfValues DEF IsLoaderState
<1>2. [s EXCEPT !.O[o].ref = ref] = [s EXCEPT !.O = P]
  OBVIOUS
<1>. HIDE DEF P
<1>. QED  BY <1>1, <1>2, SameObjects

LEMMA SetsList ==
  ASSUME NEW s, IsLoaderState(s), NEW o \in Object, NEW list, IsSequence(list),
         \A x \in Object : ToObject(x) \in ToSet(list) => x \in Living(s.O)
  PROVE  Allocates([s EXCEPT !.O[o].list = list], s)
<1>. DEFINE P == [s.O EXCEPT ![o].list = list]
<1>1. IsGraph(P) /\ SameLives(s.O, P)
  BY ChangeOfValues DEF IsLoaderState
<1>2. [s EXCEPT !.O[o].list = list] = [s EXCEPT !.O = P]
  OBVIOUS
<1>. HIDE DEF P
<1>. QED  BY <1>1, <1>2, SameObjects

LEMMA InitialiseAllocates ==
  ASSUME NEW s, IsLoaderState(s), NEW n
  PROVE  Allocates(Initialise(s, n), s)
<1>. DEFINE o == Value(s.map, n)
            r == LoadLiteralProperties(s, n)
<1>1. Allocates(r, s)
  <2>1. CASE ~Going(s) \/ o = Null
    <3>1. r = s
      BY <2>1 DEF LoadLiteralProperties
    <3>. QED  BY <3>1, AllocatesNothing
  <2>2. CASE Going(s) /\ o # Null
    <3>. DEFINE lits == ValuesOf(s, n, "lit")
                absent == s.ap = "ResetAbsentProperties"
                lit == IF lits # {} THEN First(lits)[2] ELSE IF absent THEN DefaultLit ELSE s.O[o].lit
                ref == IF absent /\ ValuesOf(s, n, "ref") = {} THEN Null ELSE s.O[o].ref
                list == IF absent /\ ValuesOf(s, n, "list") = {} THEN <<>> ELSE s.O[o].list
                x == [s EXCEPT !.O[o].lit = lit]
                y == [x EXCEPT !.O[o].ref = ref]
                z == [y EXCEPT !.O[o].list = list]
    <3>0. o \in Object /\ IsGraph(s.O) /\ DOMAIN s = LoaderFields
      BY <2>2 DEF IsLoaderState, Living
    <3>1. /\ ref # Null => ref \in Living(s.O)
          /\ IsSequence(list)
          /\ \A p \in Object : ToObject(p) \in ToSet(list) => p \in Living(s.O)
      <4>1. IsSequence(<<>>) /\ ToSet(<<>>) = {}
        BY DEF IsSequence, ToSet
      <4>. QED  BY <3>0, <4>1 DEF IsGraph
    <3>2. r = z
      <4>1. r = [s EXCEPT
                  !.O[o].lit = IF lits # {} THEN First(lits)[2] ELSE IF absent THEN DefaultLit ELSE @,
                  !.O[o].ref = IF absent /\ ValuesOf(s, n, "ref") = {} THEN Null ELSE @,
                  !.O[o].list = IF absent /\ ValuesOf(s, n, "list") = {} THEN <<>> ELSE @]
        BY <2>2 DEF LoadLiteralProperties
      <4>2. x = [s EXCEPT !.O[o].lit = IF lits # {} THEN First(lits)[2]
                                       ELSE IF absent THEN DefaultLit ELSE @]
        OBVIOUS
      <4>3. y = [x EXCEPT !.O[o].ref = IF absent /\ ValuesOf(s, n, "ref") = {} THEN Null ELSE @]
        <5>1. x.O[o].ref = s.O[o].ref
          <6>. HIDE DEF lit, o
          <6>1. IsObjectRecord(s.O[o]) /\ s.O = [p \in Object |-> s.O[p]]
            BY <3>0 DEF IsGraph
          <6>2. x.O = [s.O EXCEPT ![o].lit = lit]
            BY <3>0 DEF LoaderFields
          <6>. HIDE DEF x
          <6>3. x.O[o] = [s.O[o] EXCEPT !.lit = lit]
            BY <3>0, <6>1, <6>2
          <6>. QED  BY <6>1, <6>3 DEF IsObjectRecord
        <5>. HIDE DEF x
        <5>. QED  BY <5>1
      <4>4. z = [y EXCEPT !.O[o].list = IF absent /\ ValuesOf(s, n, "list") = {} THEN <<>> ELSE @]
        <5>1. y.O[o].list = s.O[o].list
          <6>. HIDE DEF lit, ref, o
          <6>1. IsObjectRecord(s.O[o]) /\ s.O = [p \in Object |-> s.O[p]]
            BY <3>0 DEF IsGraph
          <6>2. DOMAIN x = LoaderFields /\ x.O = [s.O EXCEPT ![o].lit = lit]
            BY <3>0 DEF LoaderFields
          <6>. HIDE DEF x
          <6>3. y.O = [x.O EXCEPT ![o].ref = ref]
            BY <6>2 DEF LoaderFields
          <6>. HIDE DEF y
          <6>4. x.O[o] = [s.O[o] EXCEPT !.lit = lit] /\ y.O[o] = [x.O[o] EXCEPT !.ref = ref]
            BY <3>0, <6>1, <6>2, <6>3
          <6>. QED  BY <6>1, <6>4 DEF IsObjectRecord
        <5>. HIDE DEF y
        <5>. QED  BY <5>1
      <4>. QED  BY <4>1, <4>2, <4>3, <4>4
    <3>. HIDE DEF lit, ref, list, r, o
    <3>3. Allocates(x, s)
      BY <3>0, SetsLit
    <3>4. Allocates(y, x)
      <4>1. Living(s.O) \subseteq Living(x.O) /\ IsLoaderState(x)
        BY <3>3 DEF Allocates, Grows
      <4>. HIDE DEF x
      <4>. QED  BY <3>0, <3>1, <4>1, SetsRef
    <3>5. Allocates(y, s)
      BY <3>3, <3>4, AllocatesOn
    <3>6. Allocates(z, y)
      <4>1. Living(s.O) \subseteq Living(y.O) /\ IsLoaderState(y)
        BY <3>5 DEF Allocates, Grows
      <4>. HIDE DEF y
      <4>. QED  BY <3>0, <3>1, <4>1, SetsList
    <3>. QED  BY <3>2, <3>5, <3>6, AllocatesOn DEF r
  <2>. QED  BY <2>1, <2>2
<1>. HIDE DEF r
<1>2. Allocates([r EXCEPT !.toInitialise = @ \ {n}], r)
  BY <1>1, InitialisesLess DEF Allocates, Grows
<1>3. Initialise(s, n) = [r EXCEPT !.toInitialise = @ \ {n}]
  BY DEF Initialise, r
<1>. QED  BY <1>1, <1>2, <1>3, AllocatesOn

SiblingsFold == INSTANCE FoldTheorems
    WITH Op <- LAMBDA r, m, p : AllocateSingleUnder(r, m, Value(r.map, p)),
         Inv <- LAMBDA r, k, s : Allocates(r, s)

LEMMA AllocateOneAllocates ==
  ASSUME NEW s, IsLoaderState(s), NEW n, NEW p
  PROVE  Allocates(AllocateOne(s, n, p), s)
<1>. DEFINE seq == Append(<<>>, n)
            self == SiblingsFold!Fold(s, seq, p)
<1>1. self = FoldLeft(LAMBDA r, m : AllocateSingleUnder(r, m, Value(r.map, p)), s, seq)
  BY DEF FoldLeft, MapThenFoldSet, Max, SiblingsFold!Fold, SiblingsFold!Largest
<1>2. "siblings" \notin s.fp
  BY DEF IsLoaderState
<1>3. AllocateOne(s, n, p) = IF Going(self) /\ n \in self.toInitialise THEN Initialise(self, n) ELSE self
  BY <1>1, <1>2 DEF AllocateOne, InitialiseIfDue
<1>4. Allocates(self, s)
  <2>1. Allocates(s, s)
    BY AllocatesNothing
  <2>2. Len(seq) \in Nat /\ DOMAIN seq = 1..Len(seq)
    OBVIOUS
  <2>. HIDE DEF seq
  <2>3. ASSUME NEW r, Allocates(r, s), NEW m
        PROVE  Allocates(AllocateSingleUnder(r, m, Value(r.map, p)), s)
    <3>1. IsLoaderState(r)
      BY <2>3 DEF Allocates, Grows
    <3>2. Allocates(AllocateSingleUnder(r, m, Value(r.map, p)), r)
      BY <3>1, AllocateSingleUnderAllocates
    <3>. QED  BY <2>3, <3>2, AllocatesOn
  <2>. QED  BY <2>1, <2>2, <2>3, SiblingsFold!FoldInduction
<1>. HIDE DEF self
<1>5. Allocates(Initialise(self, n), s)
  <2>1. IsLoaderState(self)
    BY <1>4 DEF Allocates, Grows
  <2>2. Allocates(Initialise(self, n), self)
    BY <2>1, InitialiseAllocates
  <2>. QED  BY <1>4, <2>2, AllocatesOn
<1>. QED  BY <1>3, <1>4, <1>5

LEMMA WithChildrenIsSame ==
  ASSUME NEW s, IsLoaderState(s), NEW n, NEW waiting
  PROVE  WithChildren(s, n, waiting).s = s
<1>. DEFINE children == IF "children" \in s.fp THEN OrderedChildrenOf(s.T, n, s.order) ELSE <<>>
            endless == "children" \in s.fp /\ ChildrenOf(s.T, n) # {} /\ children = <<>>
<1>1. ~endless
  BY DEF IsLoaderState
<1>2. WithChildren(s, n, waiting)
        = [s |-> IF Going(s) /\ endless THEN Hang(s) ELSE s,
           waiting |-> [i \in 1..Len(children) |-> <<children[i], n>>] \o waiting]
  BY DEF WithChildren
<1>. HIDE DEF children, endless
<1>. QED  BY <1>1, <1>2

LEMMA AllocateNextAllocates ==
  ASSUME NEW w, IsLoaderState(w.s)
  PROVE  Allocates(AllocateNext(w).s, w.s)
<1>. DEFINE waiting == Among(w.waiting, {x \in ToSet(w.waiting) : x[1] \in w.s.toAllocate})
            n == waiting[1][1]
            s == AllocateOne(w.s, n, waiting[1][2])
<1>1. AllocateNext(w)
        = IF ~Going(w.s) \/ waiting = <<>> THEN w ELSE WithChildren(s, n, Tail(waiting))
  BY DEF AllocateNext
<1>. HIDE DEF waiting
<1>2. Allocates(s, w.s)
  BY AllocateOneAllocates
<1>3. IsLoaderState(s)
  BY <1>2 DEF Allocates, Grows
<1>. HIDE DEF n, s
<1>4. AllocateNext(w).s = w.s \/ AllocateNext(w).s = s
  BY <1>1, <1>3, WithChildrenIsSame
<1>. QED  BY <1>2, <1>4, AllocatesNothing

UnderFold == INSTANCE FoldTheorems
    WITH Op <- LAMBDA w, k, p : AllocateNext(w), Inv <- LAMBDA w, k, s : Allocates(w.s, s)

LEMMA AllocateUnderAllocates ==
  ASSUME NEW s, IsLoaderState(s), NEW n, NEW p
  PROVE  Allocates(AllocateUnder(s, n, p), s)
<1>. DEFINE base == [s |-> s, waiting |-> <<<<n, p>>>>]
            N == Cardinality(s.toAllocate)
            w == UnderFold!Fold(base, Times(N), 0)
<1>1. AllocateUnder(s, n, p) = w.s
  BY DEF AllocateUnder, FoldLeft, MapThenFoldSet, Max, UnderFold!Fold, UnderFold!Largest
<1>2. N \in Nat
  <2>1. IsFiniteSet(s.toAllocate)
    BY TypedNodesAreFinite DEF IsLoaderState
  <2>. QED  BY <2>1, FS_CardinalityType
<1>3. Len(Times(N)) \in Nat /\ DOMAIN Times(N) = 1..Len(Times(N))
  BY <1>2, TimesIsSequence
<1>4. Allocates(base.s, s)
  BY AllocatesNothing
<1>. HIDE DEF base, N
<1>5. ASSUME NEW v, Allocates(v.s, s) PROVE Allocates(AllocateNext(v).s, s)
  <2>1. IsLoaderState(v.s)
    BY <1>5 DEF Allocates, Grows
  <2>2. Allocates(AllocateNext(v).s, v.s)
    BY <2>1, AllocateNextAllocates
  <2>. QED  BY <1>5, <2>2, AllocatesOn
<1>6. Allocates(w.s, s)
  BY <1>3, <1>4, <1>5, UnderFold!FoldInduction
<1>. QED  BY <1>1, <1>6

AncestorsFold == INSTANCE FoldTheorems
    WITH Op <- LAMBDA r, m, T : AllocateUnder(r, m, ParentOf(T, m)),
         Inv <- LAMBDA r, k, s : Allocates(r, s)

LEMMA AncestorsAreFolded ==
  ASSUME NEW s, NEW T, NEW seq
  PROVE  FoldLeft(LAMBDA r, m : AllocateUnder(r, m, ParentOf(T, m)), s, seq)
           = AncestorsFold!Fold(s, seq, T)
  BY DEF FoldLeft, MapThenFoldSet, Max, AncestorsFold!Fold, AncestorsFold!Largest

LEMMA AllocateAllocates ==
  ASSUME NEW s, IsLoaderState(s), NEW n
  PROVE  Allocates(Allocate(s, n), s)
<1>. DEFINE ancestors == UnallocatedAncestorsOf(s, n)
            seq == Reverse(ancestors)
            all == AncestorsFold!Fold(s, seq, s.T)
<1>1. all = FoldLeft(LAMBDA r, m : AllocateUnder(r, m, ParentOf(s.T, m)), s, seq)
  BY AncestorsAreFolded
<1>2. IsSequence(seq)
  <2>1. IsSequence(ancestors)
    BY GoodAreFinite, AncestorsAreSequence DEF IsLoaderState
  <2>. HIDE DEF ancestors
  <2>. QED  BY <2>1, ReverseIsSequence
<1>3. Allocate(s, n) = s \/ Allocate(s, n) = Hang(s) \/ Allocate(s, n) = all
  BY <1>1 DEF Allocate
<1>. HIDE DEF seq
<1>4. Allocates(all, s)
  <2>1. Allocates(s, s)
    BY AllocatesNothing
  <2>2. Len(seq) \in Nat /\ DOMAIN seq = 1..Len(seq)
    BY <1>2, SequenceDomain
  <2>3. ASSUME NEW r, Allocates(r, s), NEW m
        PROVE  Allocates(AllocateUnder(r, m, ParentOf(s.T, m)), s)
    <3>1. IsLoaderState(r)
      BY <2>3 DEF Allocates, Grows
    <3>2. Allocates(AllocateUnder(r, m, ParentOf(s.T, m)), r)
      BY <3>1, AllocateUnderAllocates
    <3>. QED  BY <2>3, <3>2, AllocatesOn
  <2>. QED  BY <2>1, <2>2, <2>3, AncestorsFold!FoldInduction
<1>5. Allocates(s, s)
  BY AllocatesNothing
<1>6. Allocates(Hang(s), s)
  BY Halts DEF Hang
<1>. HIDE DEF all
<1>. QED  BY <1>3, <1>4, <1>5, <1>6

LEMMA AllocateSingleAllocates ==
  ASSUME NEW s, IsLoaderState(s), NEW n
  PROVE  Allocates(AllocateSingle(s, n), s)
<1>. DEFINE above == AllocateParentOf(s, n)
            r == AllocateSingleUnder(above, n, Value(above.map, ParentOf(above.T, n)))
<1>1. AllocateSingle(s, n) = r
  BY DEF AllocateSingle, AllocateSingleUnderParent
<1>2. Allocates(above, s)
  BY AllocateAllocates, AllocatesNothing DEF AllocateParentOf
<1>. HIDE DEF above
<1>3. Allocates(r, above)
  <2>1. IsLoaderState(above)
    BY <1>2 DEF Allocates, Grows
  <2>. QED  BY <2>1, AllocateSingleUnderAllocates
<1>. HIDE DEF r
<1>. QED  BY <1>1, <1>2, <1>3, AllocatesOn

-------------------------------------------------------------------------------
(* Properties.                                                                   *)

LEMMA LongerList ==
  ASSUME NEW s, IsLoaderState(s), NEW o \in Object, NEW v,
         \A x \in Object : v = ToObject(x) => x \in Living(s.O)
  PROVE  Allocates([s EXCEPT !.O[o].list = Append(@, v)], s)
<1>. DEFINE old == s.O[o].list
            list == Append(old, v)
<1>1. /\ IsSequence(old)
      /\ \A x \in Object : ToObject(x) \in ToSet(old) => x \in Living(s.O)
  BY DEF IsLoaderState, IsGraph
<1>2. [s EXCEPT !.O[o].list = Append(@, v)] = [s EXCEPT !.O[o].list = list]
  OBVIOUS
<1>. HIDE DEF old
<1>3. list \in Seq(ToSet(old) \cup {v})
  <2>1. old \in Seq(ToSet(old) \cup {v})
    BY <1>1, SequenceIn
  <2>. QED  BY <2>1
<1>. HIDE DEF list
<1>4. IsSequence(list) /\ ToSet(list) \subseteq ToSet(old) \cup {v}
  BY <1>3, SequenceOf
<1>5. \A x \in Object : ToObject(x) \in ToSet(list) => x \in Living(s.O)
  BY <1>1, <1>4
<1>. QED  BY <1>2, <1>4, <1>5, SetsList

LEMMA AddElementAllocates ==
  ASSUME NEW s, IsLoaderState(s), NEW o \in Object, NEW v
  PROVE  Allocates(AddElement(s, o, v), s)
<1>1. CASE IsLiteral(v)
  <2>1. \A x \in Object : v # ToObject(x)
    BY <1>1 DEF IsLiteral, ToObject
  <2>2. Allocates([s EXCEPT !.O[o].list = Append(@, v)], s)
    BY <2>1, LongerList
  <2>. QED  BY <1>1, <2>2 DEF AddElement
<1>2. CASE ~IsLiteral(v)
  <2>. DEFINE r == AllocateSingle(s, v)
              x == Value(r.map, v)
  <2>1. Allocates(r, s)
    BY AllocateSingleAllocates
  <2>2. AddElement(s, o, v)
          = IF ~Going(r) \/ x = Null THEN r ELSE [r EXCEPT !.O[o].list = Append(@, ToObject(x))]
    BY <1>2 DEF AddElement, PropertyNodeToObject, AppendObject
  <2>. HIDE DEF r
  <2>3. x # Null => Allocates([r EXCEPT !.O[o].list = Append(@, ToObject(x))], r)
    <3>1. IsLoaderState(r) /\ (x # Null => x \in Living(r.O))
      BY <2>1 DEF Allocates, Grows, IsLoaderState
    <3>. HIDE DEF x
    <3>2. \A y \in Object : ToObject(x) = ToObject(y) => y = x
      BY DEF ToObject
    <3>. QED  BY <3>1, <3>2, LongerList
  <2>. QED  BY <2>1, <2>2, <2>3, AllocatesOn
<1>. QED  BY <1>1, <1>2

ElementsFold == INSTANCE FoldTheorems
    WITH Op <- LAMBDA q, v, o : IF Going(q) THEN AddElement(q, o, v) ELSE q,
         Inv <- LAMBDA q, k, s : Allocates(q, s)

LEMMA ElementsAreFolded ==
  ASSUME NEW s, NEW o, NEW seq
  PROVE  FoldLeft(LAMBDA q, v : IF Going(q) THEN AddElement(q, o, v) ELSE q, s, seq)
           = ElementsFold!Fold(s, seq, o)
  BY DEF FoldLeft, MapThenFoldSet, Max, ElementsFold!Fold, ElementsFold!Largest

LEMMA PropertyNodeToListAllocates ==
  ASSUME NEW s, IsLoaderState(s), NEW o \in Object, NEW head
  PROVE  Allocates(PropertyNodeToList(s, o, head), s)
<1>. DEFINE base == [s EXCEPT !.O[o].list = <<>>]
            seq == SequenceStartingAt(s.T, head)
            list == s.O[o].list
            r == ElementsFold!Fold(base, seq, o)
<1>1. PropertyNodeToList(s, o, head) = IF Going(r) THEN r ELSE [r EXCEPT !.O[o].list = list]
  BY ElementsAreFolded DEF PropertyNodeToList, OrRestoreList
<1>2. Allocates(base, s)
  <2>1. IsSequence(<<>>) /\ ToSet(<<>>) = {}
    BY DEF IsSequence, ToSet
  <2>. QED  BY <2>1, SetsList
<1>3. Len(seq) \in Nat /\ DOMAIN seq = 1..Len(seq)
  <2>1. IsSequence(seq)
    BY GoodAreFinite, SequenceStartingAtIsSequence DEF IsLoaderState
  <2>. QED  BY <2>1, SequenceDomain
<1>4. /\ IsSequence(list)
      /\ \A x \in Object : ToObject(x) \in ToSet(list) => x \in Living(s.O)
  BY DEF IsLoaderState, IsGraph
<1>. HIDE DEF base, seq, list
<1>5. ASSUME NEW q, Allocates(q, s), NEW v
      PROVE  Allocates(IF Going(q) THEN AddElement(q, o, v) ELSE q, s)
  <2>1. IsLoaderState(q)
    BY <1>5 DEF Allocates, Grows
  <2>2. Allocates(AddElement(q, o, v), q)
    BY <2>1, AddElementAllocates
  <2>3. Allocates(AddElement(q, o, v), s)
    BY <1>5, <2>2, AllocatesOn
  <2>. QED  BY <1>5, <2>3
<1>6. Allocates(r, s)
  BY <1>2, <1>3, <1>5, ElementsFold!FoldInduction
<1>. HIDE DEF r
<1>7. Allocates([r EXCEPT !.O[o].list = list], s)
  <2>1. IsLoaderState(r) /\ Living(s.O) \subseteq Living(r.O)
    BY <1>6 DEF Allocates, Grows
  <2>2. Allocates([r EXCEPT !.O[o].list = list], r)
    BY <1>4, <2>1, SetsList
  <2>. QED  BY <1>6, <2>2, AllocatesOn
<1>. QED  BY <1>1, <1>6, <1>7

LEMMA LoadReferenceAllocates ==
  ASSUME NEW s, IsLoaderState(s), NEW n
  PROVE  Allocates(LoadReference(s, n), s)
<1>. DEFINE v == First(ValuesOf(s, n, "ref"))
            o == Value(s.map, n)
            r == PropertyNodeToObject(s, v)
            x == Value(r.map, v)
<1>1. Allocates(s, s)
  BY AllocatesNothing
<1>2. CASE ~Going(s) \/ o = Null \/ ValuesOf(s, n, "ref") = {}
  <2>1. LoadReference(s, n) = s
    BY <1>2 DEF LoadReference
  <2>. QED  BY <1>1, <2>1
<1>3. CASE Going(s) /\ o # Null /\ ValuesOf(s, n, "ref") # {}
  <2>1. LoadReference(s, n) = SetReference(r, o, v)
    BY <1>3 DEF LoadReference
  <2>2. o \in Object
    BY <1>3 DEF IsLoaderState, Living
  <2>. HIDE DEF v, o
  <2>3. Allocates(r, s)
    BY <1>1, AllocateSingleAllocates DEF PropertyNodeToObject
  <2>. HIDE DEF r
  <2>4. SetReference(r, o, v) = r \/ (x # Null /\ SetReference(r, o, v) = [r EXCEPT !.O[o].ref = x])
    BY DEF SetReference
  <2>5. x # Null => Allocates([r EXCEPT !.O[o].ref = x], r)
    <3>1. IsLoaderState(r) /\ (x # Null => x \in Living(r.O))
      BY <2>3 DEF Allocates, Grows, IsLoaderState
    <3>. HIDE DEF x
    <3>. QED  BY <2>2, <3>1, SetsRef
  <2>. QED  BY <2>1, <2>3, <2>4, <2>5, AllocatesOn
<1>. QED  BY <1>2, <1>3

LEMMA LoadListAllocates ==
  ASSUME NEW s, IsLoaderState(s), NEW n
  PROVE  Allocates(LoadList(s, n), s)
<1>. DEFINE o == Value(s.map, n)
            head == First(ValuesOf(s, n, "list"))
<1>1. Allocates(s, s)
  BY AllocatesNothing
<1>2. o # Null => o \in Object
  BY DEF IsLoaderState, Living
<1>3. \/ LoadList(s, n) \in {s, Hang(s)}
      \/ o # Null /\ LoadList(s, n) = PropertyNodeToList(s, o, head)
  BY DEF LoadList
<1>4. Allocates(Hang(s), s)
  BY Halts DEF Hang
<1>. HIDE DEF o, head
<1>. QED  BY <1>1, <1>2, <1>3, <1>4, PropertyNodeToListAllocates

LEMMA PopulateGrows ==
  ASSUME NEW s, IsLoaderState(s), NEW n
  PROVE  Grows(Populate(s, n), s)
<1>. DEFINE q == LoadReference(s, n)
            r == LoadList(q, n)
            p == [r EXCEPT !.toPopulate = @ \ {n}]
<1>1. Allocates(q, s)
  BY LoadReferenceAllocates
<1>. HIDE DEF q
<1>2. Allocates(r, q)
  BY <1>1, LoadListAllocates DEF Allocates, Grows
<1>. HIDE DEF r
<1>3. Grows(r, s) /\ IsLoaderState(r)
  <2>1. Allocates(r, s)
    BY <1>1, <1>2, AllocatesOn
  <2>. QED  BY <2>1 DEF Allocates, Grows
<1>4. Grows(p, r)
  <2>1. /\ DOMAIN p = LoaderFields /\ p.O = r.O /\ p.map = r.map /\ p.T = r.T /\ p.fp = r.fp
        /\ p.toAllocate = r.toAllocate /\ p.toInitialise = r.toInitialise
        /\ p.outcome = r.outcome /\ p.gone = r.gone /\ p.populated = r.populated
    BY <1>3 DEF IsLoaderState, LoaderFields
  <2>. HIDE DEF p
  <2>2. IsLoaderState(p)
    BY <1>3, <2>1 DEF IsLoaderState
  <2>. QED  BY <2>1, <2>2 DEF Grows
<1>. HIDE DEF p
<1>5. Populate(s, n) = p
  BY DEF Populate, p, r, q
<1>. QED  BY <1>3, <1>4, <1>5, GrowsOn
-------------------------------------------------------------------------------
(* Loading what has been collected.                                              *)

AllocationsFold == INSTANCE FoldTheorems
    WITH Op <- LAMBDA r, n, p : AllocateOrIgnore(r, n), Inv <- LAMBDA r, k, s : Allocates(r, s)
InitialisesFold == INSTANCE FoldTheorems
    WITH Op <- LAMBDA r, n, p : Initialise(r, n), Inv <- LAMBDA r, k, s : Allocates(r, s)
PopulatesFold == INSTANCE FoldTheorems
    WITH Op <- LAMBDA r, n, p : Populate(r, n), Inv <- LAMBDA r, k, s : Grows(r, s)

LEMMA AllocateAllAllocates ==
  ASSUME NEW s, IsLoaderState(s), NEW order
  PROVE  Allocates(AllocateAll(s, order), s)
<1>. DEFINE seq == Ordered(s.toAllocate, order)
<1>1. AllocateAll(s, order) = AllocationsFold!Fold(s, seq, 0)
  BY DEF AllocateAll, FoldLeft, MapThenFoldSet, Max, AllocationsFold!Fold, AllocationsFold!Largest
<1>2. Len(seq) \in Nat /\ DOMAIN seq = 1..Len(seq)
  BY TypedNodesAreFinite, OrderedDomain DEF IsLoaderState
<1>. HIDE DEF seq
<1>3. Allocates(s, s)
  BY AllocatesNothing
<1>4. ASSUME NEW r, Allocates(r, s), NEW n PROVE Allocates(AllocateOrIgnore(r, n), s)
  <2>1. IsLoaderState(r)
    BY <1>4 DEF Allocates, Grows
  <2>2. Allocates(Allocate(r, n), r)
    BY <2>1, AllocateAllocates
  <2>3. Allocates(Allocate(r, n), s)
    BY <1>4, <2>2, AllocatesOn
  <2>4. Allocate(r, n).outcome # "throws"
    BY <2>3 DEF Allocates, Grows, IsLoaderState
  <2>. QED  BY <2>3, <2>4 DEF AllocateOrIgnore, OrIgnore
<1>5. Allocates(AllocationsFold!Fold(s, seq, 0), s)
  BY <1>2, <1>3, <1>4, AllocationsFold!FoldInduction
<1>. QED  BY <1>1, <1>5

LEMMA InitialiseAllAllocates ==
  ASSUME NEW s, IsLoaderState(s), NEW order
  PROVE  Allocates(InitialiseAll(s, order), s)
<1>. DEFINE seq == Ordered(s.toInitialise, order)
<1>1. InitialiseAll(s, order) = InitialisesFold!Fold(s, seq, 0)
  BY DEF InitialiseAll, FoldLeft, MapThenFoldSet, Max, InitialisesFold!Fold, InitialisesFold!Largest
<1>2. Len(seq) \in Nat /\ DOMAIN seq = 1..Len(seq)
  BY TypedNodesAreFinite, OrderedDomain DEF IsLoaderState
<1>. HIDE DEF seq
<1>3. Allocates(s, s)
  BY AllocatesNothing
<1>4. ASSUME NEW r, Allocates(r, s), NEW n PROVE Allocates(Initialise(r, n), s)
  <2>1. IsLoaderState(r)
    BY <1>4 DEF Allocates, Grows
  <2>2. Allocates(Initialise(r, n), r)
    BY <2>1, InitialiseAllocates
  <2>. QED  BY <1>4, <2>2, AllocatesOn
<1>5. Allocates(InitialisesFold!Fold(s, seq, 0), s)
  BY <1>2, <1>3, <1>4, InitialisesFold!FoldInduction
<1>. QED  BY <1>1, <1>5

LEMMA LoadCollectedGrows ==
  ASSUME NEW s, IsLoaderState(s), \A n \in s.toPopulate : NodeHasType(s.T, n), NEW order
  PROVE  \E x : Grows(x, s) /\ LoadCollected(s, order) = Note(x, s.toPopulate)
<1>. DEFINE a == AllocateAll(s, order)
            i == InitialiseAll(a, order)
            seq == Ordered(i.toPopulate, order)
            x == PopulatesFold!Fold(i, seq, 0)
<1>1. Allocates(a, s)
  BY AllocateAllAllocates
<1>2. Allocates(i, s)
  <2>. HIDE DEF a
  <2>1. IsLoaderState(a)
    BY <1>1 DEF Allocates, Grows
  <2>2. Allocates(i, a)
    BY <2>1, InitialiseAllAllocates
  <2>. QED  BY <1>1, <2>2, AllocatesOn
<1>3. LoadCollected(s, order) = PopulateAll(i, order)
  BY DEF LoadCollected
<1>. HIDE DEF a, i
<1>4. PopulateAll(i, order) = Note(x, i.toPopulate)
  BY DEF PopulateAll, FoldLeft, MapThenFoldSet, Max, PopulatesFold!Fold, PopulatesFold!Largest
<1>5. i.toPopulate = s.toPopulate /\ Grows(i, s)
  BY <1>2 DEF Allocates
<1>6. Len(seq) \in Nat /\ DOMAIN seq = 1..Len(seq)
  <2>1. IsFiniteSet(s.toPopulate)
    BY TypedNodesAreFinite DEF IsLoaderState
  <2>. QED  BY <1>5, <2>1, OrderedDomain
<1>. HIDE DEF seq
<1>7. ASSUME NEW r, Grows(r, s), NEW n PROVE Grows(Populate(r, n), s)
  <2>1. IsLoaderState(r)
    BY <1>7 DEF Grows
  <2>2. Grows(Populate(r, n), r)
    BY <2>1, PopulateGrows
  <2>. QED  BY <1>7, <2>2, GrowsOn
<1>8. Grows(x, s)
  BY <1>5, <1>6, <1>7, PopulatesFold!FoldInduction
<1>. HIDE DEF x
<1>. QED  BY <1>3, <1>4, <1>5, <1>8

-------------------------------------------------------------------------------
(* What the loader collects.                                                     *)

\* From s to r objects have only been deleted, of requested nodes that are no longer
\* in the store; the nodes that have been noted have types.
Collects(r, s) ==
    /\ IsLoaderState(r) /\ r.outcome \in {"returns", "hangs"} /\ r.T = s.T /\ r.populated = s.populated
    /\ r.gone \subseteq Object
    /\ Living(r.O) = Living(s.O) \ r.gone
    /\ \A o \in Living(r.O) : r.O[o].uri = s.O[o].uri
    /\ \A n : Value(r.map, n) = IF Value(s.map, n) \in r.gone THEN Null ELSE Value(s.map, n)
    /\ DOMAIN r.map = DOMAIN s.map
    /\ \A n \in r.toPopulate : NodeHasType(r.T, n)
    /\ r.toAllocate \subseteq r.toPopulate

LEMMA DeleteObjectCollects ==
  ASSUME NEW s, NEW r, Collects(r, s), NEW n, Value(r.map, n) # Null
  PROVE  Collects(Insert(DeleteObject(r, Value(r.map, n)), n, Null), s)
<1>. DEFINE o == Value(r.map, n)
            gone == Family(r.O, o)
            d == DeleteObject(r, o)
            q == Insert(d, n, Null)
<1>1. o \in Living(r.O) /\ o \in Object /\ o # Null /\ IsLoaderState(r) /\ n \in DOMAIN r.map
  BY DEF Collects, IsLoaderState, Living, Value
<1>2. /\ IsGraph(Delete(r.O, o))
      /\ Living(Delete(r.O, o)) = Living(r.O) \ gone
      /\ \A x \in Living(r.O) \ gone : Delete(r.O, o)[x].uri = r.O[x].uri
      /\ o \in gone /\ gone \subseteq Object
  <2>. HIDE DEF o
  <2>1. IsGraph(r.O)
    BY <1>1 DEF IsLoaderState
  <2>. QED  BY <1>1, <2>1, DeleteLeaves
<1>. HIDE DEF o, gone
<1>3. /\ DOMAIN d = LoaderFields /\ d.O = Delete(r.O, o)
      /\ d.map = [m \in DOMAIN r.map |-> IF r.map[m] \in gone THEN Null ELSE r.map[m]]
      /\ d.gone = r.gone \cup gone
      /\ d.T = r.T /\ d.fp = r.fp /\ d.toAllocate = r.toAllocate /\ d.toInitialise = r.toInitialise
      /\ d.toPopulate = r.toPopulate /\ d.outcome = r.outcome /\ d.populated = r.populated
  BY <1>1 DEF DeleteObject, IsLoaderState, LoaderFields, gone
<1>. HIDE DEF d
<1>4. /\ DOMAIN q = LoaderFields /\ q.O = d.O
      /\ q.map = [m \in DOMAIN d.map \cup {n} |-> IF m = n THEN Null ELSE d.map[m]]
      /\ q.gone = d.gone
      /\ q.T = r.T /\ q.fp = r.fp /\ q.toAllocate = r.toAllocate /\ q.toInitialise = r.toInitialise
      /\ q.toPopulate = r.toPopulate /\ q.outcome = r.outcome /\ q.populated = r.populated
  BY <1>3 DEF Insert, LoaderFields
<1>. HIDE DEF q
<1>5. DOMAIN q.map = DOMAIN r.map
  BY <1>1, <1>3, <1>4
<1>6. ASSUME NEW m
      PROVE  Value(q.map, m) = IF Value(r.map, m) \in gone THEN Null ELSE Value(r.map, m)
  <2>1. Null \notin gone
    BY <1>2 DEF Null, Object
  <2>2. CASE m \notin DOMAIN r.map
    BY <1>5, <2>1, <2>2 DEF Value
  <2>3. CASE m = n
    BY <1>1, <1>2, <1>4, <1>5, <2>3 DEF Value, o
  <2>4. CASE m \in DOMAIN r.map /\ m # n
    <3>1. q.map[m] = IF r.map[m] \in gone THEN Null ELSE r.map[m]
      BY <1>3, <1>4, <2>4
    <3>. QED  BY <1>5, <2>4, <3>1 DEF Value
  <2>. QED  BY <2>2, <2>3, <2>4
<1>7. Living(q.O) = Living(r.O) \ gone /\ \A x \in Living(q.O) : q.O[x].uri = r.O[x].uri
  BY <1>2, <1>3, <1>4
<1>8. IsLoaderState(q)
  <2>0. q.map = [m \in DOMAIN q.map |-> q.map[m]]
    BY <1>4
  <2>1. IsGraph(q.O) /\ IsFiniteSet(DOMAIN q.map)
    BY <1>1, <1>2, <1>3, <1>4, <1>5 DEF IsLoaderState
  <2>2. ASSUME NEW m, Value(q.map, m) # Null
        PROVE  m # Nothing /\ Value(q.map, m) \in Living(q.O) /\ q.O[Value(q.map, m)].uri = m
    <3>1. Value(q.map, m) = Value(r.map, m) /\ Value(r.map, m) \notin gone
      BY <1>6, <2>2
    <3>2. m # Nothing /\ Value(r.map, m) \in Living(r.O) /\ r.O[Value(r.map, m)].uri = m
      BY <1>1, <2>2, <3>1 DEF IsLoaderState
    <3>. QED  BY <1>7, <3>1, <3>2
  <2>3. ASSUME NEW m \in q.toAllocate PROVE NodeHasType(q.T, m) /\ Value(q.map, m) = Null
    BY <1>1, <1>4, <1>6 DEF IsLoaderState
  <2>. QED  BY <1>1, <1>4, <2>0, <2>1, <2>2, <2>3 DEF IsLoaderState
<1>9. ASSUME NEW m
      PROVE  Value(q.map, m) = IF Value(s.map, m) \in q.gone THEN Null ELSE Value(s.map, m)
  <2>1. q.gone = r.gone \cup gone /\ Null \notin q.gone
    BY <1>2, <1>3, <1>4 DEF Collects, Null, Object
  <2>2. Value(r.map, m) = IF Value(s.map, m) \in r.gone THEN Null ELSE Value(s.map, m)
    BY DEF Collects
  <2>. QED  BY <1>6, <2>1, <2>2
<1>. QED  BY <1>2, <1>3, <1>4, <1>5, <1>7, <1>8, <1>9 DEF Collects, d, q, o

LEMMA NoteNodeCollects ==
  ASSUME NEW s, NEW r, Collects(r, s), NEW requested, NEW n
  PROVE  Collects(NoteNode(r, requested, n), s)
<1>. DEFINE typed == NodeHasType(r.T, n)
            a == [r EXCEPT !.toAllocate = @ \cup {n}, !.toInitialise = @ \cup {n},
                           !.toPopulate = @ \cup {n}]
            b == [r EXCEPT !.toInitialise = @ \cup {n}, !.toPopulate = @ \cup {n}]
<1>0. DOMAIN r = LoaderFields
  BY DEF Collects, IsLoaderState
<1>1. ASSUME typed, Value(r.map, n) = Null PROVE Collects(a, s)
  <2>1. /\ DOMAIN a = LoaderFields /\ a.O = r.O /\ a.map = r.map /\ a.T = r.T /\ a.fp = r.fp
        /\ a.toAllocate = r.toAllocate \cup {n} /\ a.toInitialise = r.toInitialise \cup {n}
        /\ a.toPopulate = r.toPopulate \cup {n} /\ a.outcome = r.outcome /\ a.gone = r.gone
        /\ a.populated = r.populated
    BY <1>0 DEF LoaderFields
  <2>. HIDE DEF a
  <2>2. IsLoaderState(a)
    BY <1>1, <2>1 DEF IsLoaderState, Collects
  <2>. QED  BY <1>1, <2>1, <2>2 DEF Collects
<1>2. ASSUME typed PROVE Collects(b, s)
  <2>1. /\ DOMAIN b = LoaderFields /\ b.O = r.O /\ b.map = r.map /\ b.T = r.T /\ b.fp = r.fp
        /\ b.toAllocate = r.toAllocate /\ b.toInitialise = r.toInitialise \cup {n}
        /\ b.toPopulate = r.toPopulate \cup {n} /\ b.outcome = r.outcome /\ b.gone = r.gone
        /\ b.populated = r.populated
    BY <1>0 DEF LoaderFields
  <2>. HIDE DEF b
  <2>2. IsLoaderState(b)
    BY <1>2, <2>1 DEF IsLoaderState, Collects
  <2>. QED  BY <1>2, <2>1, <2>2 DEF Collects
<1>3. ASSUME Value(r.map, n) # Null
      PROVE  Collects(Insert(DeleteObject(r, Value(r.map, n)), n, Null), s)
  BY <1>3, DeleteObjectCollects
<1>. HIDE DEF a, b
<1>. QED  BY <1>1, <1>2, <1>3 DEF NoteNode, a, b

IsCollection(c, s) ==
    /\ c = [s |-> c.s, candidates |-> c.candidates, visited |-> c.visited]
    /\ Collects(c.s, s) /\ IsSequence(c.candidates)

LEMMA HangCollects ==
  ASSUME NEW s, NEW r, Collects(r, s)
  PROVE  Collects(Hang(r), s)
<1>. DEFINE h == Hang(r)
<1>1. IsLoaderState(r)
  BY DEF Collects
<1>2. /\ DOMAIN h = LoaderFields /\ h.O = r.O /\ h.map = r.map /\ h.T = r.T /\ h.fp = r.fp
      /\ h.toAllocate = r.toAllocate /\ h.toInitialise = r.toInitialise
      /\ h.toPopulate = r.toPopulate /\ h.outcome = "hangs" /\ h.gone = r.gone
      /\ h.populated = r.populated
  BY <1>1 DEF Hang, IsLoaderState, LoaderFields
<1>. HIDE DEF h
<1>3. IsLoaderState(h)
  BY <1>1, <1>2 DEF IsLoaderState
<1>. QED  BY <1>2, <1>3 DEF Collects, h

LEMMA CollectNodeCollects ==
  ASSUME NEW s, NEW c, IsCollection(c, s), NEW requested, NEW n, NEW order
  PROVE  IsCollection(CollectNode(c, requested, n, order), s)
<1>. DEFINE relatives == RelativesOfNode(c.s, n) \ (c.visited \cup {n, Nothing})
            more(some) == c.candidates \o (IF some THEN Ordered(relatives, order) ELSE <<>>)
            noted == NoteNode(c.s, requested, n)
            leads == NodeHasType(c.s.T, n) \/ ~(Value(c.s.map, n) = Null \/ n \in ToSet(requested))
            d == CollectNode(c, requested, n, order)
<1>1. Collects(noted, s)
  BY NoteNodeCollects DEF IsCollection
<1>2. Collects(Hang(noted), s)
  <2>. HIDE DEF noted
  <2>. QED  BY <1>1, HangCollects
<1>3. \/ d = c
      \/ \E r \in {noted, Hang(noted)} :
           d = [s |-> r, candidates |-> more(leads), visited |-> c.visited \cup {n}]
  BY DEF CollectNode
<1>. HIDE DEF noted, leads, d
<1>4. IsFiniteSet(relatives)
  <2>1. GoodTriples(c.s.T) /\ c.s.fp = {"properties"}
    BY DEF IsCollection, Collects, IsLoaderState
  <2>. QED  BY <2>1, RelativesAreFinite, FS_Subset
<1>. HIDE DEF relatives
<1>5. ASSUME NEW any PROVE IsSequence(more(any))
  <2>1. Ordered(relatives, order) \in Seq(relatives)
    BY <1>4, OrderedIsSequence
  <2>2. c.candidates \in Seq(ToSet(c.candidates) \cup relatives)
    <3>1. IsSequence(c.candidates)
      BY DEF IsCollection
    <3>. QED  BY <3>1, SequenceIn
  <2>3. more(any) \in Seq(ToSet(c.candidates) \cup relatives)
    BY <2>1, <2>2
  <2>. HIDE DEF more
  <2>. QED  BY <2>3, SequenceOf
<1>. HIDE DEF more
<1>6. ASSUME NEW r \in {noted, Hang(noted)},
             d = [s |-> r, candidates |-> more(leads), visited |-> c.visited \cup {n}]
      PROVE  IsCollection(d, s)
  <2>1. d.s = r /\ d = [s |-> d.s, candidates |-> d.candidates, visited |-> d.visited]
        /\ d.candidates = more(leads)
    BY <1>6
  <2>. QED  BY <1>1, <1>5, <1>2, <1>6, <2>1 DEF IsCollection
<1>. QED  BY <1>3, <1>6 DEF d

NodesFold == INSTANCE FoldTheorems
    WITH Op <- LAMBDA d, n, p : CollectNode(d, p.requested, n, p.order),
         Inv <- LAMBDA d, k, s : IsCollection(d, s)
CandidateRoundsFold == INSTANCE FoldTheorems
    WITH Op <- LAMBDA c, k, p : CollectRound(c, p.requested, p.order),
         Inv <- LAMBDA c, k, s : IsCollection(c, s)

LEMMA CollectRoundIsFold ==
  ASSUME NEW c, NEW p
  PROVE  CollectRound(c, p.requested, p.order)
           = NodesFold!Fold([c EXCEPT !.candidates = <<>>], c.candidates, p)
  BY DEF CollectRound, FoldLeft, MapThenFoldSet, Max, NodesFold!Fold, NodesFold!Largest

LEMMA CollectRoundCollects ==
  ASSUME NEW s, NEW c, IsCollection(c, s), NEW p
  PROVE  IsCollection(CollectRound(c, p.requested, p.order), s)
<1>. DEFINE base == [c EXCEPT !.candidates = <<>>]
<1>1. IsCollection(base, s)
  <2>1. IsSequence(<<>>)
    BY DEF IsSequence
  <2>2. base = [s |-> c.s, candidates |-> <<>>, visited |-> c.visited]
    BY DEF IsCollection
  <2>. HIDE DEF base
  <2>. QED  BY <2>1, <2>2 DEF IsCollection
<1>. HIDE DEF base
<1>2. Len(c.candidates) \in Nat /\ DOMAIN c.candidates = 1..Len(c.candidates)
  BY SequenceDomain DEF IsCollection
<1>3. ASSUME NEW d, NEW k \in 1..Len(c.candidates), IsCollection(d, s)
      PROVE  IsCollection(CollectNode(d, p.requested, c.candidates[k], p.order), s)
  BY <1>3, CollectNodeCollects
<1>4. IsCollection(NodesFold!Fold(base, c.candidates, p), s)
  BY <1>1, <1>2, <1>3, NodesFold!FoldInduction
<1>. QED  BY <1>4, CollectRoundIsFold DEF base

LEMMA CollectNodesIsFold ==
  ASSUME NEW s, NEW p
  PROVE  CollectNodes(s, p.requested, p.order)
           = CandidateRoundsFold!Fold([s |-> s, candidates |-> p.requested, visited |-> {}],
                                      Times(Cardinality(NodesOf(s.T)) + 2), p).s
  BY DEF CollectNodes, FoldLeft, MapThenFoldSet, Max, CandidateRoundsFold!Fold,
         CandidateRoundsFold!Largest

LEMMA CollectNodesCollects ==
  ASSUME NEW s, Collects(s, s), NEW requested, IsSequence(requested), NEW order
  PROVE  Collects(CollectNodes(s, requested, order), s)
<1>. DEFINE p == [requested |-> requested, order |-> order]
            base == [s |-> s, candidates |-> p.requested, visited |-> {}]
            n == Cardinality(NodesOf(s.T)) + 2
<1>1. p.requested = requested /\ p.order = order
  OBVIOUS
<1>. HIDE DEF p
<1>2. IsCollection(base, s)
  BY <1>1 DEF IsCollection
<1>3. n \in Nat
  <2>1. IsFiniteSet(NodesOf(s.T))
    BY GoodAreFinite, NodesAreFinite DEF Collects, IsLoaderState
  <2>. QED  BY <2>1, FS_CardinalityType
<1>. HIDE DEF base, n
<1>4. Len(Times(n)) = n /\ DOMAIN Times(n) = 1..n
  BY <1>3, TimesIsSequence
<1>5. ASSUME NEW c, NEW k \in 1..n, IsCollection(c, s)
      PROVE  IsCollection(CollectRound(c, p.requested, p.order), s)
  BY <1>5, CollectRoundCollects
<1>6. IsCollection(CandidateRoundsFold!Fold(base, Times(n), p), s)
  BY <1>2, <1>3, <1>4, <1>5, CandidateRoundsFold!FoldInduction
<1>7. CollectNodes(s, p.requested, p.order) = CandidateRoundsFold!Fold(base, Times(n), p).s
  BY CollectNodesIsFold DEF base, n
<1>. QED  BY <1>1, <1>6, <1>7 DEF IsCollection

-------------------------------------------------------------------------------
(* All of a call of the loader.                                                  *)

\* From s to r: what lived and has not been deleted is as it was; every other object
\* is that of a node, which has been populated.
Loads(r, s) ==
    /\ IsLoaderState(r) /\ r.T = s.T /\ r.gone \subseteq Object
    /\ IsFiniteSet(r.populated)
    /\ Living(s.O) \ r.gone \subseteq Living(r.O)
    /\ \A o \in Living(s.O) \ r.gone : r.O[o].uri = s.O[o].uri
    /\ \A n : Value(s.map, n) \notin r.gone \cup {Null} => Value(r.map, n) = Value(s.map, n)
    /\ \A n \in DOMAIN r.map : Value(r.map, n) = Null => n \in DOMAIN s.map
    /\ \A n : Value(r.map, n) # Null =>
        \/ n \in r.populated
        \/ Value(r.map, n) = Value(s.map, n) /\ Value(s.map, n) \notin r.gone
    /\ \A o \in Living(r.O) :
        o \in Living(s.O) \ r.gone \/ Value(r.map, r.O[o].uri) = o

LEMMA LoadNodesLoads ==
  ASSUME NEW s, Collects(s, s), NEW requested, IsSequence(requested), NEW order,
         Going(LoadNodes(s, requested, order))
  PROVE  Loads(LoadNodes(s, requested, order), s)
<1>. DEFINE y == [s EXCEPT !.order = order]
            c == CollectNodes(y, requested, order)
            r == LoadNodes(s, requested, order)
<1>1. IsLoaderState(s)
  BY DEF Collects
<1>2. /\ DOMAIN y = LoaderFields /\ y.O = s.O /\ y.map = s.map /\ y.T = s.T /\ y.fp = s.fp
       /\ y.toAllocate = s.toAllocate /\ y.toInitialise = s.toInitialise
       /\ y.toPopulate = s.toPopulate /\ y.outcome = s.outcome /\ y.gone = s.gone
       /\ y.populated = s.populated
  BY <1>1 DEF IsLoaderState, LoaderFields
<1>3. Collects(c, s)
  <2>. HIDE DEF y
  <2>1. IsLoaderState(y)
    BY <1>1, <1>2 DEF IsLoaderState
  <2>2. Collects(y, y)
    BY <1>2, <2>1 DEF Collects
  <2>3. Collects(c, y)
    BY <2>2, CollectNodesCollects
  <2>. HIDE DEF c
  <2>. QED  BY <1>2, <2>3 DEF Collects
<1>4. r = IF Going(c) THEN LoadCollected(c, order) ELSE c
  BY DEF LoadNodes
<1>. HIDE DEF c, r, y
<1>5. IsLoaderState(c) /\ \A n \in c.toPopulate : NodeHasType(c.T, n)
  BY <1>3 DEF Collects
<1>6. PICK x : Grows(x, c) /\ r = Note(x, c.toPopulate)
  <2>1. Going(c)
    BY <1>4 DEF r
  <2>. QED  BY <1>4, <1>5, <2>1, LoadCollectedGrows
<1>7. DOMAIN x = LoaderFields /\ IsLoaderState(x)
  BY <1>6 DEF Grows, IsLoaderState
<1>8. r = [x EXCEPT !.populated = c.toPopulate]
  <2>1. Going(r)
    BY DEF r
  <2>. QED  BY <1>6, <2>1 DEF Note
<1>9. /\ DOMAIN r = LoaderFields /\ r.O = x.O /\ r.map = x.map /\ r.T = x.T /\ r.fp = x.fp
      /\ r.toAllocate = x.toAllocate /\ r.toInitialise = x.toInitialise
      /\ r.outcome = x.outcome /\ r.gone = x.gone /\ r.populated = c.toPopulate
  BY <1>7, <1>8 DEF LoaderFields
<1>10. IsLoaderState(r)
  BY <1>7, <1>9 DEF IsLoaderState
<1>11. IsFiniteSet(r.populated)
  <2>1. GoodTriples(c.T)
    BY <1>5 DEF IsLoaderState
  <2>. QED  BY <1>5, <1>9, <2>1, TypedNodesAreFinite
<1>12. r.T = s.T /\ r.gone = c.gone /\ r.gone \subseteq Object
  BY <1>3, <1>6, <1>9 DEF Collects, Grows
<1>13. /\ Living(s.O) \ r.gone = Living(c.O) /\ Living(c.O) \subseteq Living(r.O)
       /\ \A o \in Living(c.O) : r.O[o].uri = s.O[o].uri
  BY <1>3, <1>6, <1>9, <1>12 DEF Collects, Grows
<1>14. ASSUME NEW n, Value(s.map, n) \notin r.gone \cup {Null}
       PROVE  Value(r.map, n) = Value(s.map, n)
  <2>1. Value(c.map, n) = Value(s.map, n)
    BY <1>3, <1>12, <1>14 DEF Collects
  <2>. QED  BY <1>6, <1>9, <1>14, <2>1 DEF Grows
<1>15. ASSUME NEW n, Value(r.map, n) # Null
       PROVE  \/ n \in r.populated
              \/ Value(r.map, n) = Value(s.map, n) /\ Value(s.map, n) \notin r.gone
  <2>1. CASE n \in c.toAllocate
    BY <1>3, <1>9, <2>1 DEF Collects
  <2>2. CASE n \notin c.toAllocate
    <3>1. Value(r.map, n) = Value(c.map, n)
      BY <1>6, <1>9, <1>15, <2>2 DEF Grows
    <3>2. Value(c.map, n) = IF Value(s.map, n) \in c.gone THEN Null ELSE Value(s.map, n)
      BY <1>3 DEF Collects
    <3>. QED  BY <1>12, <1>15, <3>1, <3>2
  <2>. QED  BY <2>1, <2>2
<1>16. ASSUME NEW o \in Living(r.O), o \notin Living(c.O)
       PROVE  Value(r.map, r.O[o].uri) = o
  BY <1>6, <1>9, <1>16 DEF Grows
<1>17. \A n \in DOMAIN r.map : Value(r.map, n) = Null => n \in DOMAIN s.map
  BY <1>3, <1>6, <1>9 DEF Grows, Collects
<1>. QED  BY <1>10, <1>11, <1>12, <1>13, <1>14, <1>15, <1>16, <1>17 DEF Loads, r

LEMMA StartCollects ==
  ASSUME NEW T, GoodTriples(T), NEW O, IsGraph(O), NEW map, map = [n \in DOMAIN map |-> map[n]],
         IsFiniteSet(DOMAIN map),
         \A n \in DOMAIN map : map[n] # Null =>
             n # Nothing /\ map[n] \in Living(O) /\ O[map[n]].uri = n,
         NEW ap, NEW ignoreUnknown
  PROVE  LET s == Start(T, O, map, {"properties"}, ap, ignoreUnknown)
         IN  Collects(s, s) /\ s.O = O /\ s.map = map /\ s.T = T
<1>. DEFINE s == Start(T, O, map, {"properties"}, ap, ignoreUnknown)
<1>1. /\ DOMAIN s = LoaderFields /\ s.O = O /\ s.map = map /\ s.T = T /\ s.fp = {"properties"}
      /\ s.toAllocate = {} /\ s.toInitialise = {} /\ s.toPopulate = {} /\ s.outcome = "returns"
      /\ s.gone = {} /\ s.populated = {}
  BY DEF Start, LoaderFields
<1>. HIDE DEF s
<1>2. IsLoaderState(s)
  BY <1>1 DEF IsLoaderState, Value
<1>3. Collects(s, s)
  BY <1>1, <1>2 DEF Collects
<1>. QED  BY <1>1, <1>3 DEF s

-------------------------------------------------------------------------------
(* The mapper's network, before and after.                                       *)

Network == [objectNode |-> objectNode, nodeObject |-> nodeObject, watched |-> watched]

\* What manage makes of it: the objects in S that have URIs are in the network.
ManagesAll(w, m, O, S) ==
    Manages(w, m, O, S) /\ \A o \in S : O[o].uri # Nothing => w.objectNode[o] # Nothing
\* All objects with URIs are in both maps.
MapsAll(m, O) == \A o \in Living(O) : O[o].uri # Nothing => MapsTo(m, O, o)

LEMMA ManageAllManages ==
  ASSUME NEW O, NEW S \in SUBSET Living(O), IsNetwork(Network, O)
  PROVE  ManagesAll(ManageAll(O, S), Network, O, S)
<1>1. ManageAll(O, S) = ManageFold!Fold(Network, SetToSeq(S), O)
  BY ManagedIsFolded DEF ManageAll, Network
<1>. HIDE DEF Network
<1>. QED  BY <1>1, ManagedObjects DEF ManagesAll

LEMMA AfterLoadingManages ==
  ASSUME NEW r, IsNetwork(ForgetAll(r.gone), r.O),
         {Value(r.map, n) : n \in r.populated} \ {Null} \subseteq Living(r.O)
  PROVE  ManagesAll(AfterLoading(r), ForgetAll(r.gone), r.O,
                    {Value(r.map, n) : n \in r.populated} \ {Null})
<1>. DEFINE S == {Value(r.map, n) : n \in r.populated} \ {Null}
<1>1. AfterLoading(r) = ManageFold!Fold(ForgetAll(r.gone), SetToSeq(S), r.O)
  BY LoadedIsFolded
<1>2. S \in SUBSET Living(r.O)
  OBVIOUS
<1>. HIDE DEF S
<1>. QED  BY <1>1, <1>2, ManagedObjects DEF ManagesAll, S

LEMMA ManagedMaps ==
  ASSUME NEW O, NEW m, NEW w, NEW S, ManagesAll(w, m, O, S), UrisDiffer(O), IsPaired(m, O),
         \A o \in Living(O) : O[o].uri # Nothing => o \in S \/ m.objectNode[o] # Nothing
  PROVE  MapsAll(w, O)
<1>1. IsPaired(w, O)
  BY DEF ManagesAll, Manages
<1>. SUFFICES ASSUME NEW o \in Living(O), O[o].uri # Nothing
              PROVE  MapsTo(w, O, o)
  BY DEF MapsAll
<1>2. w.objectNode[o] # Nothing
  BY DEF ManagesAll, Manages, Living
<1>. QED  BY <1>1, <1>2 DEF IsPaired

LEMMA MapsAllPairs ==
  ASSUME NEW O, NEW m, IsNetwork(m, O), MapsAll(m, O)
  PROVE  IsPaired(m, O) /\ UrisDiffer(O)
<1>1. IsPaired(m, O)
  BY DEF IsPaired, MapsAll, IsNetwork, Living
<1>2. UrisDiffer(O)
  BY DEF UrisDiffer, MapsAll, MapsTo
<1>. QED  BY <1>1, <1>2

\* The objects in gone have left, and the others are as they were.
LEMMA ForgetAllForgets ==
  ASSUME NEW O, IsNetwork(Network, O), NEW P, NEW gone \in SUBSET Object,
         Living(O) \ gone \subseteq Living(P), \A o \in Living(O) \ gone : P[o].uri = O[o].uri
  PROVE  LET m == ForgetAll(gone)
         IN  /\ IsNetwork(m, P)
             /\ m.watched = watched \ gone
             /\ \A o \in Living(O) \ gone : m.objectNode[o] = objectNode[o]
             /\ \A o \in Object : m.objectNode[o] # Nothing => o \in Living(O) \ gone
             /\ MapsAll(Network, O) => \A o \in Living(O) \ gone :
                    P[o].uri # Nothing => MapsTo(m, P, o)
<1>. DEFINE m == ForgetAll(gone)
<1>1. /\ m.objectNode = [o \in Object |-> IF o \in gone \cap watched THEN Nothing ELSE objectNode[o]]
      /\ m.nodeObject = [n \in DOMAIN nodeObject |-> IF nodeObject[n] \in gone THEN Null ELSE nodeObject[n]]
      /\ m.watched = watched \ gone /\ DOMAIN m = {"objectNode", "nodeObject", "watched"}
  BY DEF ForgetAll, PointersWithout
<1>. HIDE DEF m
<1>2. /\ IsFiniteSet(DOMAIN nodeObject) /\ watched \subseteq Living(O)
      /\ \A o \in Object : objectNode[o] # Nothing => o \in watched /\ O[o].uri = objectNode[o]
      /\ \A n \in DOMAIN nodeObject : nodeObject[n] # Null =>
            n # Nothing /\ nodeObject[n] \in Object /\ objectNode[nodeObject[n]] = n
  BY DEF IsNetwork, Network
<1>3. /\ m.objectNode = [o \in Object |-> m.objectNode[o]]
      /\ m.nodeObject = [n \in DOMAIN m.nodeObject |-> m.nodeObject[n]]
      /\ IsFiniteSet(DOMAIN m.nodeObject)
  BY <1>1, <1>2
<1>4. m.watched \subseteq Living(P)
  BY <1>1, <1>2
<1>5. ASSUME NEW o \in Object, m.objectNode[o] # Nothing
      PROVE  o \in m.watched /\ P[o].uri = m.objectNode[o] /\ o \in Living(O) \ gone
  <2>1. o \notin gone \cap watched /\ m.objectNode[o] = objectNode[o]
    BY <1>1, <1>5
  <2>. QED  BY <1>1, <1>2, <1>5, <2>1
<1>6. ASSUME NEW n \in DOMAIN m.nodeObject, m.nodeObject[n] # Null
      PROVE  n # Nothing /\ m.nodeObject[n] \in Object /\ m.objectNode[m.nodeObject[n]] = n
  <2>1. n \in DOMAIN nodeObject /\ nodeObject[n] \notin gone /\ m.nodeObject[n] = nodeObject[n]
    BY <1>1, <1>6
  <2>. QED  BY <1>1, <1>2, <1>6, <2>1
<1>7. IsNetwork(m, P)
  BY <1>1, <1>3, <1>4, <1>5, <1>6 DEF IsNetwork
<1>8. ASSUME NEW o \in Living(O) \ gone PROVE m.objectNode[o] = objectNode[o]
  BY <1>1 DEF Living
<1>9. ASSUME MapsAll(Network, O), NEW o \in Living(O) \ gone, P[o].uri # Nothing
      PROVE  MapsTo(m, P, o)
  <2>1. objectNode[o] = O[o].uri /\ Value(nodeObject, O[o].uri) = o
    BY <1>9 DEF MapsAll, MapsTo, Network
  <2>2. P[o].uri \in DOMAIN nodeObject /\ nodeObject[P[o].uri] = o
    BY <1>9, <2>1 DEF Value, Living, Object, Null
  <2>3. P[o].uri \in DOMAIN m.nodeObject /\ m.nodeObject[P[o].uri] = o
    BY <1>1, <2>2
  <2>. QED  BY <1>8, <2>1, <2>3 DEF MapsTo, Value
<1>. QED  BY <1>1, <1>5, <1>7, <1>8, <1>9 DEF m

-------------------------------------------------------------------------------
(* The inductive invariant.  Until the client loads a node twice, every object    *)
(* that has a URI is in both maps, also while a commit's signal is sent.          *)

MapperInv ==
    /\ IsGraph(objects) /\ GoodTriples(triples)
    /\ IsNetwork(Network, objects)
    /\ IsFiniteSet(DOMAIN listNodeObject) /\ IsFiniteSet(deleted) /\ changed \subseteq Object
    /\ outcome \in {"runs", "crashes", "throws"}
    /\ "twice" \notin lapses => MapsAll(Network, objects) /\ outcome # "throws"

LEMMA NextNetwork ==
  ASSUME NEW O, NEW m, IsNetwork(m, O),
         objectNode' = m.objectNode, nodeObject' = m.nodeObject, watched' = m.watched
  PROVE  IsNetwork(Network', O) /\ (MapsAll(m, O) => MapsAll(Network', O))
<1>1. /\ DOMAIN Network' = {"objectNode", "nodeObject", "watched"}
      /\ Network'.objectNode = m.objectNode /\ Network'.nodeObject = m.nodeObject
      /\ Network'.watched = m.watched
  BY DEF Network
<1>. QED  BY <1>1 DEF IsNetwork, MapsAll, MapsTo

LEMMA InitHolds ==
  ASSUME Init
  PROVE  MapperInv
<1>1. PICK graph \in Graphs :
        \/ objects = graph /\ triples = {}
        \/ /\ objects = NoObjects
           /\ triples = Store(StorerState({}, graph, NoNodes), Ordered(Living(graph), "up"), "up").s.T
  BY DEF Init
<1>2. IsGraph(graph) /\ \A o \in Object : graph[o].uri = Nothing
  BY ObjectMapperConstants
<1>3. GoodTriples({})
  BY FS_EmptySet DEF GoodTriples
<1>4. IsNetwork(Network, objects)
  BY FS_EmptySet DEF Init, IsNetwork, Network, NoNodes
<1>5. /\ IsFiniteSet(DOMAIN listNodeObject) /\ IsFiniteSet(deleted) /\ changed \subseteq Object
      /\ outcome = "runs"
  BY FS_EmptySet DEF Init
<1>6. CASE objects = graph /\ triples = {}
  BY <1>2, <1>3, <1>4, <1>5, <1>6 DEF MapperInv, MapsAll, Living
<1>7. CASE /\ objects = NoObjects
           /\ triples = Store(StorerState({}, graph, NoNodes), Ordered(Living(graph), "up"), "up").s.T
  <2>. DEFINE s == StorerState({}, graph, NoNodes)
              requested == Ordered(Living(graph), "up")
  <2>1. /\ DOMAIN s = StorerFields /\ s.O = graph /\ s.map = NoNodes /\ s.T = {} /\ s.fp = {"properties"}
        /\ s.bp = "NoBlankObjectNodes" /\ s.used = {}
    BY DEF StorerState, StorerFields, FollowPolicy, Init
  <2>. HIDE DEF s
  <2>2. IsStorerState(s) /\ NodesAreUris(s)
    BY <1>2, <2>1 DEF IsStorerState, NodesAreUris, NoNodes
  <2>3. requested \in Seq(Living(s.O))
    <3>1. IsFiniteSet(Living(graph))
      BY ObjectsAreFinite, FS_Subset DEF Living
    <3>. QED  BY <2>1, <3>1, OrderedIsSequence
  <2>. HIDE DEF requested
  <2>4. GoodTriples(Store(s, requested, "up").s.T)
    <3>1. GoodTriples(s.T) /\ IsFiniteSet(s.used)
      BY <1>3, <2>1, FS_EmptySet
    <3>. QED  BY <2>2, <2>3, <3>1, StoreGives
  <2>5. GoodTriples(triples)
    BY <1>7, <2>4 DEF s, requested
  <2>6. IsGraph(NoObjects) /\ Living(NoObjects) = {}
    <3>1. ASSUME NEW o \in Object PROVE NoObjects[o] = Dead
      BY DEF NoObjects
    <3>2. /\ IsObjectRecord(Dead) /\ Dead.alive = FALSE /\ Dead.uri = Nothing /\ Dead.ref = Null
          /\ Dead.list = <<>>
      BY DEF Dead, IsObjectRecord
    <3>3. IsSequence(<<>>) /\ ToSet(<<>>) = {}
      BY DEF IsSequence, ToSet
    <3>4. NoObjects = [o \in Object |-> NoObjects[o]]
      BY DEF NoObjects
    <3>. QED  BY <3>1, <3>2, <3>3, <3>4 DEF IsGraph, Living
  <2>. QED  BY <1>4, <1>5, <1>7, <2>5, <2>6 DEF MapperInv, MapsAll
<1>. QED  BY <1>1, <1>6, <1>7

LEMMA AddKeeps ==
  ASSUME MapperInv, Add
  PROVE  MapperInv'
<1>1. /\ UNCHANGED <<triples, objects, listNodeObject, deleted, outcome>>
      /\ lapses \subseteq lapses'
  BY DEF Add, client, Lapse
<1>2. PICK os \in SUBSET Living(objects) \ {{}} :
        /\ objectNode' = ManageAll(objects, os).objectNode
        /\ nodeObject' = ManageAll(objects, os).nodeObject
        /\ watched' = ManageAll(objects, os).watched /\ changed' = changed \cup os
  BY DEF Add
<1>. DEFINE w == ManageAll(objects, os)
<1>3. ManagesAll(w, Network, objects, os)
  BY ManageAllManages DEF MapperInv
<1>. HIDE DEF w
<1>4. IsNetwork(w, objects)
  BY <1>3 DEF ManagesAll, Manages
<1>5. IsNetwork(Network', objects) /\ (MapsAll(w, objects) => MapsAll(Network', objects))
  BY <1>2, <1>4, NextNetwork DEF w
<1>6. ASSUME "twice" \notin lapses' PROVE MapsAll(w, objects) /\ outcome # "throws"
  <2>1. MapsAll(Network, objects) /\ IsNetwork(Network, objects) /\ outcome # "throws"
    BY <1>1, <1>6 DEF MapperInv
  <2>2. UrisDiffer(objects) /\ IsPaired(Network, objects)
    BY <2>1, MapsAllPairs
  <2>3. \A o \in Living(objects) : objects[o].uri # Nothing => Network.objectNode[o] # Nothing
    BY <2>1 DEF MapsAll, MapsTo
  <2>. QED  BY <1>3, <2>1, <2>2, <2>3, ManagedMaps
<1>7. changed' \subseteq Object
  BY <1>2 DEF MapperInv, Living
<1>. QED  BY <1>1, <1>4, <1>5, <1>6, <1>7 DEF MapperInv

LEMMA ModifyKeeps ==
  ASSUME MapperInv, Modify
  PROVE  MapperInv'
<1>1. /\ UNCHANGED <<triples, objectNode, nodeObject, listNodeObject, watched, deleted, outcome>>
      /\ lapses \subseteq lapses'
  BY DEF Modify, network, Lapse
<1>2. PICK o \in Living(objects) :
        /\ \/ \E lit \in Literals : objects' = [objects EXCEPT ![o].lit = lit]
           \/ \E p \in Living(objects) \cup {Null} : objects' = [objects EXCEPT ![o].ref = p]
           \/ \E list \in Lists : /\ \A v \in ToSet(list) : IsObject(v) => objects[v[2]].alive
                                  /\ objects' = [objects EXCEPT ![o].list = list]
        /\ changed' = changed \cup ({o} \cap watched)
  BY DEF Modify
<1>0. o \in Object /\ IsGraph(objects)
  BY DEF Living, MapperInv
<1>3. IsGraph(objects') /\ SameLives(objects, objects')
  <2>1. CASE \E lit \in Literals : objects' = [objects EXCEPT ![o].lit = lit]
    <3>1. PICK lit \in Literals : objects' = [objects EXCEPT ![o].lit = lit]
      BY <2>1
    <3>3. Null # Null => Null \in Living(objects)
      OBVIOUS
    <3>4. IsSequence(objects[o].list) /\ \A x \in Object : ToObject(x) \in ToSet(objects[o].list) => x \in Living(objects)
      BY <1>0 DEF IsGraph
    <3>5. IsGraph([objects EXCEPT ![o].lit = lit]) /\ SameLives(objects, [objects EXCEPT ![o].lit = lit])
      BY <1>0, <3>3, <3>4, ChangeOfValues
    <3>. QED  BY <3>1, <3>5
  <2>2. CASE \E p \in Living(objects) \cup {Null} : objects' = [objects EXCEPT ![o].ref = p]
    <3>1. PICK p \in Living(objects) \cup {Null} : objects' = [objects EXCEPT ![o].ref = p]
      BY <2>2
    <3>2. p # Null => p \in Living(objects)
      OBVIOUS
    <3>3. IsSequence(objects[o].list) /\ \A x \in Object : ToObject(x) \in ToSet(objects[o].list) => x \in Living(objects)
      BY <1>0 DEF IsGraph
    <3>4. IsGraph([objects EXCEPT ![o].ref = p]) /\ SameLives(objects, [objects EXCEPT ![o].ref = p])
      BY <1>0, <3>2, <3>3, ChangeOfValues
    <3>. QED  BY <3>1, <3>4
  <2>3. CASE \E list \in Lists : /\ \A v \in ToSet(list) : IsObject(v) => objects[v[2]].alive
                                 /\ objects' = [objects EXCEPT ![o].list = list]
    <3>1. PICK list \in Lists : /\ \A v \in ToSet(list) : IsObject(v) => objects[v[2]].alive
                                /\ objects' = [objects EXCEPT ![o].list = list]
      BY <2>3
    <3>2. IsSequence(list)
      BY ObjectMapperConstants
    <3>3. \A x \in Object : ToObject(x) \in ToSet(list) => x \in Living(objects)
      BY <3>1 DEF ToObject, IsObject, Living
    <3>. QED  BY <1>0, <3>1, <3>2, <3>3, ChangeOfValues
  <2>. QED  BY <1>2, <2>1, <2>2, <2>3
<1>4. Living(objects') = Living(objects) /\ \A x \in Object : objects'[x].uri = objects[x].uri
  BY <1>3 DEF SameLives, Living
<1>5. Network' = Network
  BY <1>1 DEF Network
<1>6. IsNetwork(Network, objects')
  BY <1>4 DEF IsNetwork, MapperInv
<1>7. MapsAll(Network, objects) => MapsAll(Network, objects')
  BY <1>4 DEF MapsAll, MapsTo, Living
<1>8. changed' \subseteq Object
  BY <1>0, <1>2 DEF MapperInv
<1>. QED  BY <1>1, <1>3, <1>5, <1>6, <1>7, <1>8 DEF MapperInv

LEMMA DestroyKeeps ==
  ASSUME MapperInv, Destroy
  PROVE  MapperInv'
<1>1. UNCHANGED <<triples, outcome>> /\ lapses \subseteq lapses'
  BY DEF Destroy, Lapse
<1>2. PICK o \in Living(objects) :
        /\ objects' = Delete(objects, o)
        /\ nodeObject' = PointersWithout(nodeObject, Family(objects, o))
        /\ listNodeObject' = ListNodesWithout(Family(objects, o))
        /\ watched' = watched \ Heard(o)
        /\ objectNode' = [p \in Object |-> IF p \in Heard(o) THEN Nothing ELSE objectNode[p]]
        /\ deleted' = deleted \cup ({objectNode[p] : p \in Heard(o)} \ {Nothing})
        /\ changed' = (changed \ Heard(o)) \cup (Holders(objects, Family(objects, o)) \cap watched)
  BY DEF Destroy
<1>. DEFINE gone == Family(objects, o)
            m == ForgetAll(gone)
<1>3. /\ IsGraph(objects') /\ Living(objects') = Living(objects) \ gone
      /\ \A x \in Living(objects) \ gone : objects'[x].uri = objects[x].uri
      /\ gone \subseteq Object
  BY <1>2, DeleteLeaves DEF MapperInv, Living
<1>4. Heard(o) = gone \cap watched /\ Heard(o) \subseteq Object
  BY <1>3 DEF Heard
<1>. HIDE DEF gone
<1>5. objectNode' = m.objectNode /\ nodeObject' = m.nodeObject /\ watched' = m.watched
  BY <1>2, <1>4 DEF ForgetAll, gone
<1>6. IsNetwork(m, objects') /\ (MapsAll(Network, objects) => MapsAll(m, objects'))
  <2>1. /\ IsNetwork(m, objects')
        /\ MapsAll(Network, objects) => \A x \in Living(objects) \ gone :
                objects'[x].uri # Nothing => MapsTo(m, objects', x)
    BY <1>3, ForgetAllForgets DEF MapperInv
  <2>. HIDE DEF m
  <2>. QED  BY <1>3, <2>1 DEF MapsAll
<1>. HIDE DEF m
<1>7. IsNetwork(Network', objects') /\ (MapsAll(m, objects') => MapsAll(Network', objects'))
  BY <1>5, <1>6, NextNetwork
<1>8. IsFiniteSet(DOMAIN listNodeObject')
  <2>1. DOMAIN listNodeObject' \subseteq DOMAIN listNodeObject
    BY <1>2 DEF ListNodesWithout
  <2>. QED  BY <2>1, FS_Subset DEF MapperInv
<1>9. IsFiniteSet(deleted')
  <2>1. IsFiniteSet(Heard(o))
    BY <1>4, ObjectsAreFinite, FS_Subset
  <2>2. IsFiniteSet({objectNode[p] : p \in Heard(o)})
    BY <2>1, FiniteImage
  <2>3. IsFiniteSet({objectNode[p] : p \in Heard(o)} \ {Nothing})
    BY <2>2, FS_Subset
  <2>. QED  BY <1>2, <2>3, FS_Union DEF MapperInv
<1>10. changed' \subseteq Object
  BY <1>2 DEF MapperInv, Holders, Living
<1>. QED  BY <1>1, <1>3, <1>6, <1>7, <1>8, <1>9, <1>10 DEF MapperInv

LEMMA CommitCrashesKeeps ==
  ASSUME MapperInv, CommitCrashes
  PROVE  MapperInv'
<1>1. /\ UNCHANGED <<triples, objects, objectNode, nodeObject, listNodeObject, watched, changed,
                     deleted, lapses>>
      /\ outcome' = "crashes"
  BY DEF CommitCrashes, client, network, queues
<1>2. Network' = Network
  BY <1>1 DEF Network
<1>. QED  BY <1>1, <1>2 DEF MapperInv

LEMMA CommitStoresKeeps ==
  ASSUME MapperInv, CommitStores
  PROVE  /\ MapperInv'
         /\ Typed(triples') \subseteq (Typed(triples) \ deleted) \cup NodesIn(objectNode')
         /\ Vacant(nodeObject') \subseteq Vacant(nodeObject)
<1>1. UNCHANGED <<listNodeObject, changed, deleted, outcome, lapses>>
  BY DEF CommitStores, queues
<1>2. changed \subseteq Living(objects)
  BY DEF CommitStores
<1>3. PICK order \in Orders :
        LET removed == FoldLeft(RemoveObject, triples, Ordered(deleted, order))
            r == Store(StorerState(removed, objects, objectNode), Ordered(changed, order), order)
        IN  /\ triples' = r.s.T /\ objects' = r.s.O
            /\ objectNode' = r.s.map
            /\ nodeObject' = ManageAll(r.s.O, r.stored).nodeObject
            /\ watched' = ManageAll(r.s.O, r.stored).watched
  BY DEF CommitStores
<1>. DEFINE removed == FoldLeft(RemoveObject, triples, Ordered(deleted, order))
            s == StorerState(removed, objects, objectNode)
            requested == Ordered(changed, order)
            r == Store(s, requested, order)
            w == ManageAll(r.s.O, r.stored)
<1>4. /\ IsGraph(objects) /\ GoodTriples(triples) /\ IsFiniteSet(deleted)
      /\ objectNode = [o \in Object |-> objectNode[o]] /\ IsFiniteSet(DOMAIN nodeObject)
      /\ IsFiniteSet(DOMAIN listNodeObject)
      /\ \A o \in Object : objectNode[o] # Nothing =>
            o \in watched /\ o \in Living(objects) /\ objects[o].uri = objectNode[o]
  BY DEF MapperInv, IsNetwork, Network
<1>5. GoodTriples(removed) /\ Typed(removed) \subseteq Typed(triples) \ deleted
  <2>1. removed \in SUBSET triples /\ deleted \cap Typed(removed) = {}
    BY <1>4, RemoveObjectsRemoves
  <2>. HIDE DEF removed
  <2>. QED  BY <1>4, <2>1, FewerTriples DEF KeepsTypes
<1>. HIDE DEF removed
<1>6. /\ DOMAIN s = StorerFields /\ s.T = removed /\ s.O = objects /\ s.map = objectNode
      /\ s.used = DOMAIN listNodeObject \cup DOMAIN nodeObject \cup deleted
      /\ s.bp = "NoBlankObjectNodes" /\ s.fp = {"properties"}
  BY DEF StorerState, StorerFields, FollowPolicy
<1>. HIDE DEF s
<1>7. IsStorerState(s) /\ NodesAreUris(s) /\ GoodTriples(s.T) /\ IsFiniteSet(s.used)
  <2>1. IsFiniteSet(s.used)
    <3>1. IsFiniteSet(DOMAIN listNodeObject \cup DOMAIN nodeObject)
      BY <1>4, FS_Union
    <3>2. IsFiniteSet((DOMAIN listNodeObject \cup DOMAIN nodeObject) \cup deleted)
      BY <1>4, <3>1, FS_Union
    <3>. QED  BY <1>6, <3>2
  <2>. QED  BY <1>4, <1>5, <1>6, <2>1 DEF IsStorerState, NodesAreUris
<1>8. requested \in Seq(Living(s.O))
  <2>1. IsFiniteSet(changed)
    BY <1>2, ObjectsAreFinite, FS_Subset DEF Living
  <2>2. requested \in Seq(changed)
    BY <2>1, OrderedIsSequence
  <2>. HIDE DEF requested
  <2>. QED  BY <1>2, <1>6, <2>2
<1>. HIDE DEF requested
<1>9. /\ IsGraph(r.s.O) /\ Living(r.s.O) = Living(s.O)
      /\ NodesAreUris(r.s) /\ GoodTriples(r.s.T)
      /\ r.s.map = [o \in Object |-> r.s.map[o]]
      /\ r.stored \subseteq Living(s.O)
      /\ \A o \in r.stored : r.s.map[o] # Nothing
      /\ \A o \in Object :
          /\ s.map[o] # Nothing => r.s.map[o] = s.map[o]
          /\ s.O[o].uri # Nothing => r.s.O[o].uri = s.O[o].uri
          /\ o \notin r.stored => r.s.map[o] = s.map[o] /\ r.s.O[o].uri = s.O[o].uri
      /\ UrisDiffer(s.O) => UrisDiffer(r.s.O)
      /\ Typed(r.s.T) \subseteq Typed(s.T) \cup NodesIn(r.s.map)
  BY <1>7, <1>8, StoreGives
<1>10. /\ triples' = r.s.T /\ objects' = r.s.O /\ objectNode' = r.s.map
       /\ nodeObject' = w.nodeObject /\ watched' = w.watched
  BY <1>3 DEF removed, s, requested
<1>. HIDE DEF r
<1>11. IsNetwork(Network, r.s.O)
  BY <1>4, <1>6, <1>9 DEF MapperInv, IsNetwork, Network
<1>12. ManagesAll(w, Network, r.s.O, r.stored)
  BY <1>9, <1>11, ManageAllManages
<1>. HIDE DEF w
<1>13. IsNetwork(w, r.s.O)
  BY <1>12 DEF ManagesAll, Manages
<1>14. r.s.map = w.objectNode
  <2>1. ASSUME NEW o \in Object PROVE r.s.map[o] = w.objectNode[o]
    <3>1. CASE o \in r.stored
      <4>1. r.s.O[o].uri = r.s.map[o] /\ r.s.map[o] # Nothing
        BY <1>9, <3>1 DEF NodesAreUris
      <4>2. w.objectNode[o] # Nothing
        BY <1>12, <3>1, <4>1 DEF ManagesAll
      <4>. QED  BY <1>13, <4>1, <4>2 DEF IsNetwork
    <3>2. CASE o \notin r.stored
      BY <1>6, <1>9, <1>12, <3>2 DEF ManagesAll, Manages, Network
    <3>. QED  BY <3>1, <3>2
  <2>2. w.objectNode = [o \in Object |-> w.objectNode[o]]
    BY <1>13 DEF IsNetwork
  <2>. QED  BY <1>9, <2>1, <2>2
<1>15. IsNetwork(Network', objects') /\ (MapsAll(w, objects') => MapsAll(Network', objects'))
  BY <1>10, <1>13, <1>14, NextNetwork
<1>16. ASSUME MapsAll(Network, objects) PROVE MapsAll(w, r.s.O)
  <2>1. UrisDiffer(r.s.O)
    BY <1>6, <1>9, <1>16, MapsAllPairs DEF MapperInv
  <2>2. IsPaired(Network, r.s.O)
    <3>1. ASSUME NEW o \in Living(r.s.O), objectNode[o] # Nothing
          PROVE  MapsTo(Network, r.s.O, o)
      <4>1. o \in Object /\ o \in Living(objects) /\ objects[o].uri = objectNode[o]
        BY <1>4, <3>1 DEF Living
      <4>2. r.s.O[o].uri = objects[o].uri
        BY <1>6, <1>9, <3>1, <4>1
      <4>3. MapsTo(Network, objects, o)
        BY <1>16, <3>1, <4>1 DEF MapsAll
      <4>. QED  BY <4>2, <4>3 DEF MapsTo
    <3>. QED  BY <3>1 DEF IsPaired, Network
  <2>3. ASSUME NEW o \in Living(r.s.O), r.s.O[o].uri # Nothing, o \notin r.stored
        PROVE  Network.objectNode[o] # Nothing
    <3>1. o \in Object /\ o \in Living(objects) /\ objects[o].uri = r.s.O[o].uri
      BY <1>6, <1>9, <2>3 DEF Living
    <3>. QED  BY <1>16, <2>3, <3>1 DEF MapsAll, MapsTo
  <2>. QED  BY <1>12, <2>1, <2>2, <2>3, ManagedMaps
<1>17. MapperInv'
  BY <1>1, <1>9, <1>10, <1>15, <1>16 DEF MapperInv
<1>18. Vacant(nodeObject') \subseteq Vacant(nodeObject)
  BY <1>10, <1>12 DEF ManagesAll, Manages, Network
<1>19. Typed(triples') \subseteq (Typed(triples) \ deleted) \cup NodesIn(objectNode')
  BY <1>5, <1>6, <1>9, <1>10
<1>. QED  BY <1>17, <1>18, <1>19

CellFold == INSTANCE FoldTheorems
    WITH Op <- LAMBDA c, k, p : IF c = <<>> THEN c
                                ELSE Extended(c, IF RestInStore(Last(c)) = Nil THEN Nothing
                                                 ELSE RestInStore(Last(c))),
         Inv <- LAMBDA c, k, p : IsSequence(c)

LEMMA ListNodesAreFinite ==
  ASSUME GoodTriples(triples), NEW o
  PROVE  IsFiniteSet(ListNodesFor(o))
<1>1. ASSUME NEW n PROVE IsFiniteSet(ListNodesFrom(n))
  <2>. DEFINE base == IF n = Nothing THEN <<>> ELSE <<n>>
              N == Cardinality(Links(triples, "rest"))
              cells == CellFold!Fold(base, Times(N), 0)
  <2>1. ListNodesFrom(n) = {m \in ToSet(cells) : RestInStore(m) # Nothing}
    BY DEF ListNodesFrom, Chain, FoldLeft, MapThenFoldSet, Max, CellFold!Fold, CellFold!Largest
  <2>2. IsSequence(base)
    BY SingletonIsSequence
  <2>3. N \in Nat
    BY GoodAreFinite, LinksAreFinite
  <2>4. Len(Times(N)) \in Nat /\ DOMAIN Times(N) = 1..Len(Times(N))
    BY <2>3, TimesIsSequence
  <2>. HIDE DEF base, N
  <2>5. ASSUME NEW c, IsSequence(c)
        PROVE  IsSequence(IF c = <<>> THEN c
                          ELSE Extended(c, IF RestInStore(Last(c)) = Nil THEN Nothing
                                           ELSE RestInStore(Last(c))))
    BY <2>5, ExtendedIsSequence
  <2>6. IsSequence(cells)
    BY <2>2, <2>4, <2>5, CellFold!FoldInduction
  <2>. HIDE DEF cells
  <2>. QED  BY <2>1, <2>6, SequenceDomain, FS_Subset
<1>. QED  BY <1>1, FS_EmptySet DEF ListNodesFor

LEMMA CommitEndsKeeps ==
  ASSUME MapperInv, CommitEnds
  PROVE  MapperInv'
<1>1. UNCHANGED <<triples, objects, objectNode, watched, lapses>> /\ outcome = "runs"
  BY DEF CommitEnds, client
<1>2. /\ objectNode = [o \in Object |-> objectNode[o]] /\ watched \subseteq Living(objects)
      /\ \A o \in Object : objectNode[o] # Nothing =>
            o \in watched /\ o \in Living(objects) /\ objects[o].uri = objectNode[o]
      /\ \A n \in DOMAIN nodeObject : nodeObject[n] # Null =>
            n # Nothing /\ nodeObject[n] \in Object /\ objectNode[nodeObject[n]] = n
  BY DEF MapperInv, IsNetwork, Network
<1>3. CASE NodesDisagree
  <2>1. UNCHANGED <<nodeObject, listNodeObject, changed, deleted>> /\ outcome' = "throws"
    BY <1>3 DEF CommitEnds, queues
  <2>2. Network' = Network
    BY <1>1, <2>1 DEF Network
  <2>3. "twice" \in lapses
    <3>. SUFFICES ASSUME "twice" \notin lapses PROVE FALSE
      OBVIOUS
    <3>1. PICK o \in Object : /\ objectNode[o] \in DOMAIN nodeObject
                              /\ nodeObject[objectNode[o]] \notin {Null, o}
      BY <1>3 DEF NodesDisagree
    <3>2. objectNode[o] # Nothing
      BY <1>2, <3>1
    <3>3. Value(nodeObject, objectNode[o]) = o
      BY <1>2, <3>2 DEF MapperInv, MapsAll, MapsTo, Network
    <3>. QED  BY <3>1, <3>3 DEF Value
  <2>. QED  BY <1>1, <2>1, <2>2, <2>3 DEF MapperInv
<1>4. CASE ~NodesDisagree
  <2>. DEFINE nodes == {objectNode[o] : o \in Object} \ {Nothing}
              new == UNION {ListNodesFor(o) : o \in changed}
  <2>1. /\ nodeObject' = [n \in nodes |-> CHOOSE o \in Object : objectNode[o] = n]
        /\ DOMAIN listNodeObject' = DOMAIN listNodeObject \cup new
        /\ changed' = {} /\ deleted' = {} /\ outcome' = outcome
    BY <1>4 DEF CommitEnds
  <2>2. IsFiniteSet(nodes)
    <3>1. IsFiniteSet({objectNode[o] : o \in Object})
      BY ObjectsAreFinite, FiniteImage
    <3>. QED  BY <3>1, FS_Subset
  <2>3. IsFiniteSet(DOMAIN listNodeObject')
    <3>1. IsFiniteSet(changed)
      BY ObjectsAreFinite, FS_Subset DEF MapperInv
    <3>. DEFINE f == [o \in changed |-> ListNodesFor(o)]
    <3>2. IsFiniteSet({f[o] : o \in changed})
      <4>. HIDE DEF f
      <4>. QED  BY <3>1, FiniteImage
    <3>3. IsFiniteSet(new)
      <4>1. \A S \in {f[o] : o \in changed} : IsFiniteSet(S)
        BY ListNodesAreFinite DEF MapperInv
      <4>2. IsFiniteSet(UNION {f[o] : o \in changed})
        <5>. HIDE DEF f
        <5>. QED  BY <3>2, <4>1, FS_UNION
      <4>3. new = UNION {f[o] : o \in changed}
        OBVIOUS
      <4>. QED  BY <4>2, <4>3
    <3>. HIDE DEF new
    <3>. QED  BY <2>1, <3>3, FS_Union DEF MapperInv
  <2>4. ASSUME NEW n \in nodes
        PROVE  n # Nothing /\ nodeObject'[n] \in Object /\ objectNode[nodeObject'[n]] = n
    <3>1. \E o \in Object : objectNode[o] = n
      BY <2>4
    <3>. QED  BY <2>1, <2>4, <3>1
  <2>. HIDE DEF nodes
  <2>5. IsNetwork(Network', objects')
    <3>1. /\ Network'.objectNode = objectNode /\ Network'.nodeObject = nodeObject'
          /\ Network'.watched = watched /\ DOMAIN Network' = {"objectNode", "nodeObject", "watched"}
      BY <1>1 DEF Network
    <3>2. DOMAIN nodeObject' = nodes
      BY <2>1
    <3>3. nodeObject' = [n \in DOMAIN nodeObject' |-> nodeObject'[n]]
      BY <2>1
    <3>. QED  BY <1>1, <1>2, <2>2, <2>4, <3>1, <3>2, <3>3 DEF IsNetwork
  <2>6. ASSUME MapsAll(Network, objects) PROVE MapsAll(Network', objects')
    <3>. SUFFICES ASSUME NEW o \in Living(objects), objects[o].uri # Nothing
                  PROVE  objectNode[o] = objects[o].uri /\ Value(nodeObject', objects[o].uri) = o
      BY <1>1 DEF MapsAll, MapsTo, Network
    <3>1. objectNode[o] = objects[o].uri /\ o \in Object
      BY <2>6 DEF MapsAll, MapsTo, Network, Living
    <3>2. objects[o].uri \in nodes
      BY <3>1 DEF nodes
    <3>. DEFINE p == nodeObject'[objects[o].uri]
    <3>3. p \in Object /\ objectNode[p] = objects[o].uri
      BY <2>4, <3>2
    <3>. HIDE DEF p
    <3>4. p \in Living(objects) /\ objects[p].uri = objects[o].uri
      BY <1>2, <3>3
    <3>5. p = o
      BY <2>6, <3>4, MapsAllPairs DEF MapperInv, UrisDiffer
    <3>. QED  BY <2>1, <3>1, <3>2, <3>5 DEF Value, p
  <2>7. IsFiniteSet(deleted') /\ changed' \subseteq Object
    BY <2>1, FS_EmptySet
  <2>. QED  BY <1>1, <2>1, <2>3, <2>5, <2>6, <2>7 DEF MapperInv
<1>. QED  BY <1>3, <1>4

-------------------------------------------------------------------------------
(* What the mapper makes of a call of the loader.                                *)

Populated(r) == {Value(r.map, n) : n \in r.populated} \ {Null}

LEMMA LoadingManages ==
  ASSUME MapperInv, NEW s, s.O = objects, NEW r, Loads(r, s)
  PROVE  LET m == ForgetAll(r.gone)
         IN  /\ ManagesAll(AfterLoading(r), m, r.O, Populated(r))
             /\ IsNetwork(m, r.O) /\ m.watched = watched \ r.gone
             /\ \A o \in Living(objects) \ r.gone : m.objectNode[o] = objectNode[o]
             /\ \A o \in Object : m.objectNode[o] # Nothing => o \in Living(objects) \ r.gone
             /\ MapsAll(Network, objects) => \A o \in Living(objects) \ r.gone :
                    r.O[o].uri # Nothing => MapsTo(m, r.O, o)
<1>. DEFINE m == ForgetAll(r.gone)
<1>1. /\ IsNetwork(m, r.O)
      /\ m.watched = watched \ r.gone
      /\ \A o \in Living(objects) \ r.gone : m.objectNode[o] = objectNode[o]
      /\ \A o \in Object : m.objectNode[o] # Nothing => o \in Living(objects) \ r.gone
      /\ MapsAll(Network, objects) => \A o \in Living(objects) \ r.gone :
             r.O[o].uri # Nothing => MapsTo(m, r.O, o)
  <2>1. /\ r.gone \in SUBSET Object /\ Living(objects) \ r.gone \subseteq Living(r.O)
        /\ \A o \in Living(objects) \ r.gone : r.O[o].uri = objects[o].uri
    BY DEF Loads
  <2>. QED  BY <2>1, ForgetAllForgets DEF MapperInv
<1>2. Populated(r) \subseteq Living(r.O)
  BY DEF Populated, Loads, IsLoaderState
<1>3. ManagesAll(AfterLoading(r), m, r.O, Populated(r))
  BY <1>1, <1>2, AfterLoadingManages DEF Populated
<1>. QED  BY <1>1, <1>3

LEMMA HearKeeps ==
  ASSUME MapperInv, NEW r, r.gone \subseteq Object, NEW m, NEW reloading, Hear(r, m, reloading)
  PROVE  /\ objects' = r.O /\ watched' = m.watched
         /\ IsFiniteSet(DOMAIN listNodeObject') /\ IsFiniteSet(deleted') /\ changed' \subseteq Object
<1>. DEFINE heard == r.gone \cap watched
<1>1. /\ objects' = r.O /\ watched' = m.watched /\ listNodeObject' = ListNodesWithout(heard)
      /\ changed' = changed \ heard
      /\ deleted' = deleted \cup ({objectNode[o] : o \in heard} \ (reloading \cup {Nothing}))
  BY DEF Hear
<1>2. IsFiniteSet(heard)
  BY ObjectsAreFinite, FS_Subset
<1>. HIDE DEF heard
<1>3. IsFiniteSet(DOMAIN listNodeObject')
  <2>1. DOMAIN listNodeObject' \subseteq DOMAIN listNodeObject
    BY <1>1 DEF ListNodesWithout
  <2>. QED  BY <2>1, FS_Subset DEF MapperInv
<1>4. IsFiniteSet(deleted')
  <2>1. IsFiniteSet({objectNode[o] : o \in heard})
    BY <1>2, FiniteImage
  <2>2. IsFiniteSet({objectNode[o] : o \in heard} \ (reloading \cup {Nothing}))
    BY <2>1, FS_Subset
  <2>. QED  BY <1>1, <2>2, FS_Union DEF MapperInv
<1>. QED  BY <1>1, <1>3, <1>4 DEF MapperInv

\* The nodes of the objects that the loader deleted wait for a commit.
LEMMA HearTells ==
  ASSUME MapperInv, NEW r, NEW m, NEW reloading, Hear(r, m, reloading),
         NEW n \in DOMAIN nodeObject \ reloading, nodeObject[n] \in r.gone, nodeObject[n] # Null
  PROVE  n \in deleted'
<1>. DEFINE o == nodeObject[n]
<1>1. n # Nothing /\ o \in Object /\ objectNode[o] = n
  BY DEF MapperInv, IsNetwork, Network
<1>. HIDE DEF o
<1>2. o \in watched
  BY <1>1 DEF MapperInv, IsNetwork, Network
<1>3. deleted' = deleted \cup ({objectNode[p] : p \in r.gone \cap watched} \ (reloading \cup {Nothing}))
  BY DEF Hear
<1>4. o \in r.gone
  BY DEF o
<1>. QED  BY <1>1, <1>2, <1>3, <1>4

\* The states in which the mapper calls the loader: its own map when it reloads,
\* an empty one when the client loads a node.
LEMMA ReloadStateCollects ==
  ASSUME MapperInv, NEW T, GoodTriples(T), NEW ignoreUnknown
  PROVE  LET s == LoaderState(T, nodeObject, ignoreUnknown)
         IN  Collects(s, s) /\ s.O = objects /\ s.map = nodeObject /\ s.T = T
<1>1. /\ IsGraph(objects) /\ nodeObject = [n \in DOMAIN nodeObject |-> nodeObject[n]]
      /\ IsFiniteSet(DOMAIN nodeObject)
      /\ \A n \in DOMAIN nodeObject : nodeObject[n] # Null =>
            n # Nothing /\ nodeObject[n] \in Living(objects) /\ objects[nodeObject[n]].uri = n
  BY DEF MapperInv, IsNetwork, Network
<1>. QED  BY <1>1, StartCollects DEF LoaderState, FollowPolicy

LEMMA LoadStateCollects ==
  ASSUME MapperInv, NEW ignoreUnknown
  PROVE  LET s == LoaderState(triples, <<>>, ignoreUnknown)
         IN  Collects(s, s) /\ s.O = objects /\ DOMAIN s.map = {}
<1>. DEFINE none == <<>>
            s == Start(triples, objects, none, {"properties"}, "ResetAbsentProperties", ignoreUnknown)
<1>0. DOMAIN none = {} /\ none = [n \in DOMAIN none |-> none[n]]
  OBVIOUS
<1>. HIDE DEF none
<1>1. /\ GoodTriples(triples) /\ IsGraph(objects)
      /\ none = [n \in DOMAIN none |-> none[n]] /\ IsFiniteSet(DOMAIN none)
      /\ \A n \in DOMAIN none : none[n] # Null =>
            n # Nothing /\ none[n] \in Living(objects) /\ objects[none[n]].uri = n
  BY <1>0, FS_EmptySet DEF MapperInv
<1>2. Collects(s, s) /\ s.O = objects /\ s.map = none
  BY <1>1, StartCollects
<1>3. DOMAIN s.map = {}
  BY <1>0, <1>2
<1>. HIDE DEF s
<1>. QED  BY <1>2, <1>3 DEF LoaderState, FollowPolicy, s, none

\* The mapper takes the loader's map for its own.
LEMMA SyncMapKeeps ==
  ASSUME MapperInv, NEW s, s.O = objects, s.map = nodeObject, NEW r, Loads(r, s),
         objects' = r.O, watched' = AfterLoading(r).watched,
         nodeObject' = r.map, objectNode' = NodesFrom(r.map)
  PROVE  IsNetwork(Network', objects') /\ (MapsAll(Network, objects) => MapsAll(Network', objects'))
<1>. DEFINE m == ForgetAll(r.gone)
            w == AfterLoading(r)
<1>1. /\ ManagesAll(w, m, r.O, Populated(r)) /\ IsNetwork(m, r.O) /\ m.watched = watched \ r.gone
  BY LoadingManages
<1>. HIDE DEF m, w
<1>2. /\ IsNetwork(w, r.O) /\ m.watched \subseteq w.watched
      /\ \A o \in Populated(r) : r.O[o].uri # Nothing => w.objectNode[o] # Nothing
  BY <1>1 DEF ManagesAll, Manages
<1>3. /\ r.map = [n \in DOMAIN r.map |-> r.map[n]] /\ IsFiniteSet(DOMAIN r.map)
      /\ \A n \in DOMAIN r.map : r.map[n] # Null =>
            n # Nothing /\ r.map[n] \in Living(r.O) /\ r.O[r.map[n]].uri = n
  BY DEF Loads, IsLoaderState, Value
<1>4. /\ Network'.objectNode = NodesFrom(r.map) /\ Network'.nodeObject = r.map
      /\ Network'.watched = w.watched /\ DOMAIN Network' = {"objectNode", "nodeObject", "watched"}
  BY DEF Network, w
<1>5. ASSUME NEW o \in Object, NEW n \in DOMAIN r.map, r.map[n] = o
      PROVE  NodesFrom(r.map)[o] = n /\ r.O[o].uri = n
  <2>1. \A k \in DOMAIN r.map : r.map[k] = o => r.O[o].uri = k
    BY <1>3 DEF Object, Null
  <2>. QED  BY <1>5, <2>1 DEF NodesFrom, NodeIn
<1>6. ASSUME NEW o \in Object, NodesFrom(r.map)[o] # Nothing
      PROVE  o \in w.watched /\ r.O[o].uri = NodesFrom(r.map)[o]
  <2>1. PICK n \in DOMAIN r.map : r.map[n] = o
    BY <1>6 DEF NodesFrom
  <2>2. NodesFrom(r.map)[o] = n /\ r.O[o].uri = n /\ Value(r.map, n) = o /\ o # Null
    BY <1>5, <2>1 DEF Value, Object, Null
  <2>3. CASE n \in r.populated
    BY <1>2, <1>6, <2>2, <2>3 DEF Populated, IsNetwork
  <2>4. CASE Value(s.map, n) = o /\ o \notin r.gone
    <3>1. objectNode[o] = n
      BY <2>2, <2>4 DEF MapperInv, IsNetwork, Network, Value
    <3>2. o \in watched
      BY <1>6, <2>2, <3>1 DEF MapperInv, IsNetwork, Network
    <3>. QED  BY <1>1, <1>2, <2>2, <2>4, <3>2
  <2>. QED  BY <2>2, <2>3, <2>4 DEF Loads
<1>7. IsNetwork(Network', objects')
  <2>1. w.watched \subseteq Living(r.O)
    BY <1>2 DEF IsNetwork
  <2>2. NodesFrom(r.map) = [o \in Object |-> NodesFrom(r.map)[o]]
    BY DEF NodesFrom
  <2>3. ASSUME NEW n \in DOMAIN r.map, r.map[n] # Null
        PROVE  n # Nothing /\ r.map[n] \in Object /\ NodesFrom(r.map)[r.map[n]] = n
    BY <1>3, <1>5, <2>3 DEF Living
  <2>. QED  BY <1>3, <1>4, <1>6, <2>1, <2>2, <2>3 DEF IsNetwork
<1>8. ASSUME MapsAll(Network, objects) PROVE MapsAll(Network', objects')
  <2>. SUFFICES ASSUME NEW o \in Living(r.O), r.O[o].uri # Nothing
                PROVE  MapsTo(Network', r.O, o)
    BY DEF MapsAll
  <2>1. Value(r.map, r.O[o].uri) = o
    <3>1. CASE o \in Living(objects) \ r.gone
      <4>1. r.O[o].uri = objects[o].uri /\ o \in Object /\ o # Null
        BY <3>1 DEF Loads, Living, Object, Null
      <4>2. Value(nodeObject, r.O[o].uri) = o
        BY <1>8, <3>1, <4>1 DEF MapsAll, MapsTo, Network
      <4>. QED  BY <3>1, <4>1, <4>2 DEF Loads
    <3>. QED  BY <3>1 DEF Loads
  <2>2. o \in Object /\ o # Null
    BY DEF Living, Object, Null
  <2>3. r.O[o].uri \in DOMAIN r.map /\ r.map[r.O[o].uri] = o
    BY <2>1, <2>2 DEF Value
  <2>. QED  BY <1>4, <1>5, <2>1, <2>2, <2>3 DEF MapsTo
<1>. QED  BY <1>7, <1>8

LEMMA TransactionCommittedKeeps ==
  ASSUME MapperInv, NEW T, GoodTriples(T), triples' = T, TransactionCommitted(T),
         UNCHANGED outcome
  PROVE  /\ MapperInv'
         /\ lapses' = {} =>
                Vacant(nodeObject') \cap Typed(T) \subseteq Vacant(nodeObject) \cup deleted'
<1>. DEFINE subjects == {t[1] : t \in (T \ triples) \cup (triples \ T)}
            reloading == ToReload(subjects)
            known == {m \in (subjects \cap DOMAIN listNodeObject) \ DOMAIN nodeObject :
                          listNodeObject[m] # Null}
            f == [n \in known |-> objectNode[listNodeObject[n]]]
            Outcome(r) ==
                /\ Going(r)
                /\ lapses \cup Lost(r, reloading) \subseteq lapses'
                /\ Hear(r, AfterLoading(r), reloading)
                /\ nodeObject' = r.map
                /\ objectNode' = NodesFrom(r.map)
<1>1. IsFiniteSet(reloading)
  <2>1. IsFiniteSet(subjects \cap DOMAIN nodeObject)
    BY FS_Subset DEF MapperInv, IsNetwork, Network
  <2>2. IsFiniteSet(known)
    BY FS_Subset DEF MapperInv
  <2>3. IsFiniteSet({f[n] : n \in known})
    <3>. HIDE DEF f, known
    <3>. QED  BY <2>2, FiniteImage
  <2>4. IsFiniteSet({objectNode[listNodeObject[n]] : n \in known} \ {Nothing})
    <3>1. {f[n] : n \in known} = {objectNode[listNodeObject[n]] : n \in known}
      OBVIOUS
    <3>. QED  BY <2>3, <3>1, FS_Subset
  <2>. HIDE DEF subjects
  <2>. QED  BY <2>1, <2>4, FS_Union DEF ToReload
<1>2. PICK order \in Orders :
        \E r \in {LoadNodes(LoaderState(T, nodeObject, TRUE), Ordered(reloading, order), order)} :
            Outcome(r)
  BY DEF TransactionCommitted, Lapse
<1>3. PICK r \in {LoadNodes(LoaderState(T, nodeObject, TRUE), Ordered(reloading, order), order)} :
            Outcome(r)
  BY <1>2
<1>. HIDE DEF reloading
<1>4. r = LoadNodes(LoaderState(T, nodeObject, TRUE), Ordered(reloading, order), order) /\ Outcome(r)
  BY <1>3
<1>. DEFINE s == LoaderState(T, nodeObject, TRUE)
            requested == Ordered(reloading, order)
<1>5. Collects(s, s) /\ s.O = objects /\ s.map = nodeObject /\ s.T = T
  BY ReloadStateCollects
<1>. HIDE DEF s
<1>6. IsSequence(requested)
  BY <1>1, OrderedIsSequence, SequenceOf
<1>. HIDE DEF requested
<1>7. r = LoadNodes(s, requested, order)
  BY <1>4 DEF s, requested
<1>8. Loads(r, s)
  BY <1>4, <1>5, <1>6, <1>7, LoadNodesLoads
<1>9. /\ objects' = r.O /\ watched' = AfterLoading(r).watched
      /\ IsFiniteSet(DOMAIN listNodeObject') /\ IsFiniteSet(deleted') /\ changed' \subseteq Object
  <2>1. r.gone \subseteq Object
    BY <1>8 DEF Loads
  <2>. QED  BY <1>4, <2>1, HearKeeps
<1>10. IsNetwork(Network', objects') /\ (MapsAll(Network, objects) => MapsAll(Network', objects'))
  BY <1>4, <1>5, <1>8, <1>9, SyncMapKeeps
<1>11. IsGraph(objects')
  BY <1>8, <1>9 DEF Loads, IsLoaderState
<1>12. MapperInv'
  BY <1>4, <1>9, <1>10, <1>11 DEF MapperInv
<1>13. ASSUME lapses' = {}, NEW n \in Vacant(nodeObject') \cap Typed(T), n \notin Vacant(nodeObject)
       PROVE  n \in deleted'
  <2>1. n \in DOMAIN r.map /\ Value(r.map, n) = Null
    BY <1>4, <1>13 DEF Vacant, Value
  <2>2. n \in DOMAIN nodeObject /\ nodeObject[n] # Null
    BY <1>5, <1>8, <1>13, <2>1 DEF Loads, Vacant
  <2>3. nodeObject[n] \in r.gone
    BY <1>5, <1>8, <2>1, <2>2 DEF Loads, Value
  <2>4. n \notin reloading
    <3>1. r.T = T
      BY <1>5, <1>8 DEF Loads
    <3>. QED  BY <1>4, <1>13, <2>1, <3>1 DEF Lost
  <2>. QED  BY <1>4, <2>2, <2>3, <2>4, HearTells
<1>. QED  BY <1>12, <1>13

LEMMA OtherCommitsKeeps ==
  ASSUME MapperInv, NEW T, GoodTriples(T), OtherCommits(T)
  PROVE  /\ MapperInv'
         /\ lapses' = {} => /\ ~inCommit
                            /\ Vacant(nodeObject') \cap Typed(T) \subseteq Vacant(nodeObject) \cup deleted'
<1>1. triples' = T /\ UNCHANGED outcome
  BY DEF OtherCommits
<1>2. CASE ~inCommit /\ TransactionCommitted(T)
  BY <1>1, <1>2, TransactionCommittedKeeps
<1>3. CASE inCommit /\ Lapse({}) /\ UNCHANGED <<objects, network, queues>>
  <2>1. /\ UNCHANGED <<objects, objectNode, nodeObject, listNodeObject, watched, changed, deleted>>
        /\ lapses \subseteq lapses' /\ lapses' # {}
    BY <1>3 DEF network, queues, Lapse
  <2>2. Network' = Network
    BY <2>1 DEF Network
  <2>. QED  BY <1>1, <2>1, <2>2 DEF MapperInv
<1>. QED  BY <1>2, <1>3 DEF OtherCommits

\* What others do to properties and elements, or to whole objects, types no node.
LEMMA OthersKeepTypes ==
  ASSUME GoodTriples(triples), OtherSetsProperty \/ OtherChangesElement \/ OtherRemovesObject
  PROVE  \E T : KeepsTypes(T, triples) /\ OtherCommits(T)
<1>1. CASE OtherSetsProperty
  <2>1. \/ \E n, v : OtherCommits(ReplaceOne(triples, n, "lit", v))
        \/ \E n, v : OtherCommits(ReplaceOne(triples, n, "ref", v))
    BY <1>1 DEF OtherSetsProperty
  <2>2. \A n, v : KeepsTypes(ReplaceOne(triples, n, "lit", v), triples)
                  /\ KeepsTypes(ReplaceOne(triples, n, "ref", v), triples)
    BY ReplaceOneKeeps
  <2>. QED  BY <2>1, <2>2
<1>2. CASE OtherChangesElement
  <2>1. PICK n, v : OtherCommits(ReplaceOne(triples, n, "first", v))
    BY <1>2 DEF OtherChangesElement
  <2>2. KeepsTypes(ReplaceOne(triples, n, "first", v), triples)
    BY ReplaceOneKeeps
  <2>. QED  BY <2>1, <2>2
<1>3. CASE OtherRemovesObject
  <2>1. PICK n : OtherCommits(RemoveObject(triples, n))
    BY <1>3 DEF OtherRemovesObject
  <2>2. KeepsTypes(RemoveObject(triples, n), triples)
    BY GoodAreFinite, RemoveObjectRemoves, FewerTriples
  <2>. QED  BY <2>1, <2>2
<1>. QED  BY <1>1, <1>2, <1>3

LEMMA OthersKeep ==
  ASSUME MapperInv, OtherSetsProperty \/ OtherChangesElement \/ OtherRemovesObject
  PROVE  MapperInv'
<1>1. PICK T : KeepsTypes(T, triples) /\ OtherCommits(T)
  BY OthersKeepTypes DEF MapperInv
<1>. QED  BY <1>1, OtherCommitsKeeps DEF KeepsTypes

\* No node that the client loads had an object, unless that is counted as a lapse.
LEMMA LoadKeeps ==
  ASSUME MapperInv, Load
  PROVE  /\ MapperInv'
         /\ Vacant(nodeObject') \subseteq Vacant(nodeObject) \cup deleted'
<1>1. UNCHANGED <<triples, outcome>>
  BY DEF Load
<1>2. PICK asked \in {{n} : n \in Typed(triples)} \cup ({Typed(triples)} \ {{}}), order \in Orders :
        \E r \in {LoadNodes(LoaderState(triples, <<>>, FALSE), Ordered(asked, order), order)} :
            /\ Going(r)
            /\ Lapse(Revived(r) \cup Doubles(r))
            /\ Hear(r, AfterLoading(r), {})
            /\ objectNode' = AfterLoading(r).objectNode
            /\ nodeObject' = AfterLoading(r).nodeObject
  BY DEF Load
<1>3. PICK r \in {LoadNodes(LoaderState(triples, <<>>, FALSE), Ordered(asked, order), order)} :
            /\ Going(r)
            /\ Lapse(Revived(r) \cup Doubles(r))
            /\ Hear(r, AfterLoading(r), {})
            /\ objectNode' = AfterLoading(r).objectNode
            /\ nodeObject' = AfterLoading(r).nodeObject
  BY <1>2
<1>. DEFINE s == LoaderState(triples, <<>>, FALSE)
            requested == Ordered(asked, order)
            m == ForgetAll(r.gone)
            w == AfterLoading(r)
<1>4. r = LoadNodes(s, requested, order)
  BY <1>3
<1>5. GoodTriples(triples) /\ IsGraph(objects)
  BY DEF MapperInv
<1>6. Collects(s, s) /\ s.O = objects /\ DOMAIN s.map = {}
  BY LoadStateCollects
<1>. HIDE DEF s
<1>7. IsSequence(requested)
  <2>1. IsFiniteSet(Typed(triples))
    <3>1. Typed(triples) \subseteq NodesOf(triples)
      BY DEF Typed, NodesOf
    <3>. QED  BY <1>5, <3>1, GoodAreFinite, NodesAreFinite, FS_Subset
  <2>2. IsFiniteSet(asked)
    BY <1>2, <2>1, FS_Singleton
  <2>. QED  BY <2>2, OrderedIsSequence, SequenceOf
<1>. HIDE DEF requested
<1>8. Loads(r, s)
  BY <1>3, <1>4, <1>6, <1>7, LoadNodesLoads
<1>9. /\ objects' = r.O /\ watched' = w.watched
      /\ IsFiniteSet(DOMAIN listNodeObject') /\ IsFiniteSet(deleted') /\ changed' \subseteq Object
  <2>1. r.gone \subseteq Object
    BY <1>8 DEF Loads
  <2>. HIDE DEF w
  <2>. QED  BY <1>3, <2>1, HearKeeps DEF w
<1>10. /\ ManagesAll(w, m, r.O, Populated(r)) /\ IsNetwork(m, r.O)
       /\ \A o \in Object : m.objectNode[o] # Nothing => o \in Living(objects) \ r.gone
       /\ MapsAll(Network, objects) => \A o \in Living(objects) \ r.gone :
              r.O[o].uri # Nothing => MapsTo(m, r.O, o)
  BY <1>6, <1>8, LoadingManages
<1>11. objectNode' = w.objectNode /\ nodeObject' = w.nodeObject
  BY <1>3
<1>. HIDE DEF m, w
<1>12. IsNetwork(w, r.O)
  BY <1>10 DEF ManagesAll, Manages
<1>13. IsNetwork(Network', objects') /\ (MapsAll(w, objects') => MapsAll(Network', objects'))
  BY <1>9, <1>11, <1>12, NextNetwork
<1>14. IsGraph(objects')
  BY <1>8, <1>9 DEF Loads, IsLoaderState
<1>15. lapses \subseteq lapses' /\ Doubles(r) \subseteq lapses'
  BY <1>3 DEF Lapse
<1>16. ASSUME "twice" \notin lapses' PROVE MapsAll(w, r.O) /\ outcome # "throws"
  <2>1. MapsAll(Network, objects) /\ outcome # "throws"
    BY <1>15, <1>16 DEF MapperInv
  <2>2. ASSUME NEW n, Value(r.map, n) # Null PROVE Value(nodeObject, n) = Null
    BY <1>15, <1>16, <2>2 DEF Doubles, Value
  <2>3. ASSUME NEW o \in Living(r.O)
        PROVE  \/ /\ o \in Living(objects) \ r.gone
                  /\ r.O[o].uri # Nothing => Value(nodeObject, r.O[o].uri) = o
               \/ Value(r.map, r.O[o].uri) = o
    <3>1. CASE o \in Living(objects) \ r.gone
      <4>1. r.O[o].uri = objects[o].uri
        BY <1>6, <1>8, <3>1 DEF Loads
      <4>. QED  BY <2>1, <3>1, <4>1 DEF MapsAll, MapsTo, Network
    <3>2. CASE o \notin Living(objects) \ r.gone
      BY <1>6, <1>8, <3>2 DEF Loads
    <3>. QED  BY <3>1, <3>2
  <2>4. \A o \in Living(r.O) : o # Null
    BY DEF Living, Object, Null
  <2>5. UrisDiffer(r.O)
    BY <2>2, <2>3, <2>4 DEF UrisDiffer
  <2>6. IsPaired(m, r.O)
    <3>1. ASSUME NEW o \in Living(r.O), m.objectNode[o] # Nothing
          PROVE  MapsTo(m, r.O, o)
      <4>1. o \in Living(objects) \ r.gone /\ o \in Object
        BY <1>10, <3>1 DEF Living
      <4>2. r.O[o].uri # Nothing
        BY <1>10, <3>1, <4>1 DEF IsNetwork
      <4>. QED  BY <1>10, <2>1, <4>1, <4>2
    <3>. QED  BY <3>1 DEF IsPaired
  <2>7. ASSUME NEW o \in Living(r.O), r.O[o].uri # Nothing
        PROVE  o \in Populated(r) \/ m.objectNode[o] # Nothing
    <3>1. CASE o \in Living(objects) \ r.gone
      BY <1>10, <2>1, <2>7, <3>1 DEF MapsTo
    <3>2. CASE Value(r.map, r.O[o].uri) = o
      <4>1. Value(s.map, r.O[o].uri) = Null
        BY <1>6 DEF Value
      <4>2. r.O[o].uri \in r.populated
        BY <1>8, <2>4, <3>2, <4>1 DEF Loads
      <4>. QED  BY <2>4, <3>2, <4>2 DEF Populated
    <3>. QED  BY <2>3, <3>1, <3>2
  <2>8. MapsAll(w, r.O)
    BY <1>10, <2>5, <2>6, <2>7, ManagedMaps
  <2>. QED  BY <2>1, <2>8
<1>17. MapperInv'
  BY <1>1, <1>5, <1>9, <1>13, <1>14, <1>16 DEF MapperInv
<1>18. ASSUME NEW n \in Vacant(nodeObject'), n \notin Vacant(nodeObject)
       PROVE  n \in deleted'
  <2>1. Vacant(nodeObject') \subseteq Vacant(m.nodeObject)
    BY <1>10, <1>11 DEF ManagesAll, Manages
  <2>2. m.nodeObject = PointersWithout(nodeObject, r.gone)
    BY DEF m, ForgetAll
  <2>3. n \in DOMAIN nodeObject /\ nodeObject[n] # Null /\ nodeObject[n] \in r.gone
    BY <1>18, <2>1, <2>2 DEF Vacant, PointersWithout
  <2>. QED  BY <1>3, <2>3, HearTells
<1>. QED  BY <1>17, <1>18

-------------------------------------------------------------------------------
(* The nodes of objects that are gone.  As long as the mapper follows everything,  *)
(* those that have a type in the store wait for a commit, and a commit leaves none. *)

Left == Vacant(nodeObject) \cap Typed(triples)
LeftInv == lapses = {} => Left \subseteq deleted /\ (inCommit => Left = {})

LEMMA InitLeavesNone ==
  ASSUME Init
  PROVE  LeftInv
<1>1. Vacant(nodeObject) = {}
  BY DEF Init, Vacant
<1>. QED  BY <1>1 DEF LeftInv, Left

\* The store stays, and so do the objects of the nodes except for those that wait.
LEMMA OrWait ==
  ASSUME LeftInv, UNCHANGED <<triples, inCommit>>,
         lapses \subseteq lapses', deleted \subseteq deleted',
         \/ Vacant(nodeObject') \subseteq Vacant(nodeObject)
         \/ /\ Vacant(nodeObject') \subseteq Vacant(nodeObject) \cup deleted'
            /\ lapses' = {} => ~inCommit
  PROVE  LeftInv'
  BY DEF LeftInv, Left

LEMMA DestroyWaits ==
  ASSUME MapperInv, LeftInv, Destroy
  PROVE  LeftInv'
<1>1. /\ UNCHANGED <<triples, inCommit>> /\ lapses \subseteq lapses'
      /\ lapses' = {} => ~inCommit
  BY DEF Destroy, Lapse
<1>2. PICK o \in Living(objects) :
        /\ nodeObject' = PointersWithout(nodeObject, Family(objects, o))
        /\ deleted' = deleted \cup ({objectNode[p] : p \in Heard(o)} \ {Nothing})
  BY DEF Destroy
<1>3. ASSUME NEW n \in Vacant(nodeObject'), n \notin Vacant(nodeObject)
      PROVE  n \in deleted'
  <2>. DEFINE p == nodeObject[n]
  <2>1. n \in DOMAIN nodeObject /\ p # Null /\ p \in Family(objects, o)
    BY <1>2, <1>3 DEF PointersWithout, Vacant
  <2>2. n # Nothing /\ p \in Object /\ objectNode[p] = n
    BY <2>1 DEF MapperInv, IsNetwork, Network
  <2>. HIDE DEF p
  <2>3. p \in watched
    BY <2>2 DEF MapperInv, IsNetwork, Network
  <2>. QED  BY <1>2, <2>1, <2>2, <2>3 DEF Heard
<1>. QED  BY <1>1, <1>2, <1>3, OrWait

\* Those that wait are removed, and what has been stored has its objects.
LEMMA CommitStoresLeavesNone ==
  ASSUME MapperInv, LeftInv, CommitStores
  PROVE  LeftInv'
<1>1. UNCHANGED <<deleted, lapses>>
  BY DEF CommitStores, queues
<1>2. /\ MapperInv'
      /\ Typed(triples') \subseteq (Typed(triples) \ deleted) \cup NodesIn(objectNode')
      /\ Vacant(nodeObject') \subseteq Vacant(nodeObject)
  BY CommitStoresKeeps
<1>3. ASSUME lapses = {}, NEW n \in Vacant(nodeObject') \cap Typed(triples') PROVE FALSE
  <2>1. n # Nothing
    BY <1>2, <1>3 DEF MapperInv, GoodTriples, Typed, IsUri, Nothing
  <2>2. CASE n \in Typed(triples) \ deleted
    BY <1>2, <1>3, <2>2 DEF LeftInv, Left
  <2>3. CASE n \in NodesIn(objectNode')
    <3>1. PICK o \in Object : objectNode'[o] = n
      BY <2>3 DEF NodesIn
    <3>2. o \in Living(objects') /\ objects'[o].uri = n
      BY <1>2, <2>1, <3>1 DEF MapperInv, IsNetwork, Network
    <3>3. MapsTo(Network', objects', o)
      BY <1>1, <1>2, <1>3, <2>1, <3>2 DEF MapperInv, MapsAll
    <3>4. Value(nodeObject', n) = o /\ o # Null
      BY <3>1, <3>2, <3>3 DEF MapsTo, Network, Object, Null
    <3>. QED  BY <1>3, <3>4 DEF Vacant, Value
  <2>. QED  BY <1>2, <1>3, <2>2, <2>3
<1>. QED  BY <1>1, <1>3 DEF LeftInv, Left

LEMMA CommitEndsLeavesNone ==
  ASSUME LeftInv, CommitEnds
  PROVE  LeftInv'
<1>1. inCommit /\ ~inCommit' /\ UNCHANGED <<triples, lapses>>
  BY DEF CommitEnds, client
<1>2. CASE NodesDisagree
  <2>1. UNCHANGED <<nodeObject, deleted>>
    BY <1>2 DEF CommitEnds, queues
  <2>. QED  BY <1>1, <2>1 DEF LeftInv, Left
<1>3. CASE ~NodesDisagree
  <2>. DEFINE nodes == {objectNode[o] : o \in Object} \ {Nothing}
  <2>1. nodeObject' = [n \in nodes |-> CHOOSE o \in Object : objectNode[o] = n]
    BY <1>3 DEF CommitEnds
  <2>2. ASSUME NEW n \in nodes PROVE nodeObject'[n] \in Object
    <3>1. \E o \in Object : objectNode[o] = n
      OBVIOUS
    <3>. QED  BY <2>1, <3>1
  <2>. HIDE DEF nodes
  <2>3. Vacant(nodeObject') = {}
    BY <2>1, <2>2 DEF Vacant, Object, Null
  <2>. QED  BY <1>1, <2>3 DEF LeftInv, Left
<1>. QED  BY <1>2, <1>3

\* Other connections type no node, and one whose object the reload deletes waits for a
\* commit; one that was reloaded in vain is a lapse.
LEMMA OthersLeave ==
  ASSUME MapperInv, LeftInv, OtherSetsProperty \/ OtherChangesElement \/ OtherRemovesObject
  PROVE  LeftInv'
<1>1. PICK T : KeepsTypes(T, triples) /\ OtherCommits(T)
  BY OthersKeepTypes DEF MapperInv
<1>2. lapses' = {} => /\ ~inCommit
                      /\ Vacant(nodeObject') \cap Typed(T) \subseteq Vacant(nodeObject) \cup deleted'
  BY <1>1, OtherCommitsKeeps DEF KeepsTypes
<1>3. /\ triples' = T /\ UNCHANGED inCommit
      /\ lapses \subseteq lapses' /\ deleted \subseteq deleted'
  BY <1>1 DEF OtherCommits, TransactionCommitted, Lapse, Hear, queues
<1>. QED  BY <1>1, <1>2, <1>3 DEF LeftInv, Left, KeepsTypes

LEMMA LeftInvKeeps ==
  ASSUME MapperInv, LeftInv, [Next]_vars
  PROVE  LeftInv'
<1>1. CASE Add
  <2>1. UNCHANGED <<triples, inCommit, deleted>> /\ lapses \subseteq lapses'
    BY <1>1 DEF Add, client, Lapse
  <2>2. PICK os \in SUBSET Living(objects) : nodeObject' = ManageAll(objects, os).nodeObject
    BY <1>1 DEF Add
  <2>3. ManagesAll(ManageAll(objects, os), Network, objects, os)
    BY ManageAllManages DEF MapperInv
  <2>4. Vacant(nodeObject') \subseteq Vacant(nodeObject)
    BY <2>2, <2>3 DEF ManagesAll, Manages, Network
  <2>. QED  BY <2>1, <2>4, OrWait
<1>2. CASE Modify \/ CommitCrashes \/ UNCHANGED vars
  <2>1. UNCHANGED <<triples, nodeObject, inCommit, deleted>> /\ lapses \subseteq lapses'
    BY <1>2 DEF Modify, CommitCrashes, vars, client, network, queues, Lapse
  <2>. QED  BY <2>1, OrWait
<1>3. CASE Load
  <2>1. /\ UNCHANGED <<triples, inCommit>> /\ lapses \subseteq lapses'
        /\ lapses' = {} => ~inCommit
        /\ deleted \subseteq deleted'
    BY <1>3 DEF Load, Lapse, Hear
  <2>. QED  BY <1>3, <2>1, LoadKeeps, OrWait
<1>. QED  BY <1>1, <1>2, <1>3, DestroyWaits, CommitStoresLeavesNone, CommitEndsLeavesNone,
             OthersLeave DEF Next

-------------------------------------------------------------------------------
(* The theorems.                                                                 *)

LEMMA MapperInvHolds == Spec => []MapperInv
<1>1. Init => MapperInv
  BY InitHolds
<1>2. MapperInv /\ [Next]_vars => MapperInv'
  <2>. SUFFICES ASSUME MapperInv, [Next]_vars PROVE MapperInv'
    OBVIOUS
  <2>1. CASE Add
    BY <2>1, AddKeeps
  <2>2. CASE Modify
    BY <2>2, ModifyKeeps
  <2>3. CASE Destroy
    BY <2>3, DestroyKeeps
  <2>4. CASE CommitCrashes
    BY <2>4, CommitCrashesKeeps
  <2>5. CASE CommitStores
    BY <2>5, CommitStoresKeeps
  <2>6. CASE CommitEnds
    BY <2>6, CommitEndsKeeps
  <2>7. CASE OtherSetsProperty \/ OtherChangesElement \/ OtherRemovesObject
    BY <2>7, OthersKeep
  <2>8. CASE Load
    BY <2>8, LoadKeeps
  <2>9. CASE UNCHANGED vars
    <3>1. UNCHANGED <<triples, objects, objectNode, nodeObject, listNodeObject, watched, changed,
                      deleted, outcome, lapses>>
      BY <2>9 DEF vars, client, network, queues
    <3>2. Network' = Network
      BY <3>1 DEF Network
    <3>. QED  BY <3>1, <3>2 DEF MapperInv
  <2>. QED  BY <2>1, <2>2, <2>3, <2>4, <2>5, <2>6, <2>7, <2>8, <2>9 DEF Next
<1>. QED  BY <1>1, <1>2, PTL DEF Spec

\* The two maps are each other's inverse, of objects that live, are watched and have
\* the URIs of their nodes (manage, objectDestroyed, syncMap).
THEOREM MapsAreInverse == Spec => []TypeOK
<1>1. MapperInv => TypeOK
  <2>. SUFFICES ASSUME MapperInv PROVE TypeOK
    OBVIOUS
  <2>1. /\ watched \subseteq Living(objects)
        /\ \A o \in Object : objectNode[o] # Nothing =>
              o \in watched /\ objects[o].uri = objectNode[o]
        /\ \A n \in DOMAIN nodeObject : nodeObject[n] # Null => objectNode[nodeObject[n]] = n
    BY DEF MapperInv, IsNetwork, Network
  <2>2. ASSUME NEW o \in Object, objectNode[o] # Nothing, "twice" \notin lapses
        PROVE  Value(nodeObject, objectNode[o]) = o
    <3>1. o \in Living(objects) /\ objects[o].uri = objectNode[o]
      BY <2>1, <2>2
    <3>. QED  BY <2>2, <3>1 DEF MapperInv, MapsAll, MapsTo, Network
  <2>3. changed \subseteq Object /\ outcome \in {"runs", "crashes", "throws"}
    BY DEF MapperInv
  <2>. QED  BY <2>1, <2>2, <2>3 DEF TypeOK, Living
<1>. QED  BY <1>1, MapperInvHolds, PTL

\* A commit finds that the two maps contradict each other, and throws (syncMap), only
\* after the client has loaded a node that had an object.
THEOREM CommitsFindMapsInAgreement == Spec => []MapsAgree
<1>1. MapperInv => MapsAgree
  BY DEF MapperInv, MapsAgree
<1>. QED  BY <1>1, MapperInvHolds, PTL

\* A commit leaves no node in the store whose object was destroyed, also by the loader
\* or with its parent, if nothing happened that the mapper does not follow
\* (objectDestroyed, doCommit).
THEOREM CommitsLeaveNoDestroyedObjects == Spec => DestroyedObjectsLeaveTheStore
<1>1. Init => LeftInv
  BY InitLeavesNone
<1>2. MapperInv /\ LeftInv /\ [Next]_vars => LeftInv'
  BY LeftInvKeeps
<1>3. LeftInv =>
        (lapses = {} /\ inCommit /\ ~inCommit' =>
             \A n \in DOMAIN nodeObject \cap Typed(triples) : nodeObject[n] # Null)
  BY DEF LeftInv, Left, Vacant
<1>. QED  BY <1>1, <1>2, <1>3, MapperInvHolds, PTL DEF Spec, DestroyedObjectsLeaveTheStore

================================================================================
