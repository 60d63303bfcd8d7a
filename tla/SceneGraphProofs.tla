-------------------------- MODULE SceneGraphProofs --------------------------
(***************************************************************************)
(* Proofs about the graph of a scene, for any list of nodes.               *)
(*                                                                         *)
(* The recursive functions are modelled one call at a time, so an          *)
(* invariant must say what the calls still to be made will do.  For        *)
(* MarkReachable: whatever lies below a root is marked with the length of  *)
(* some way to it, and where a shorter one exists there is a call pending  *)
(* that leads to it.  For a depth-first walk: at gives for each node on    *)
(* the path the place of its Leave among the tasks, and each child of a    *)
(* node on the path is done with, next on the path, or waits before that   *)
(* place; so all that lies below a node is done with when its call         *)
(* returns.  What is reached is defined layer by layer, as in SceneGraph.  *)
(*                                                                         *)
(* The queries have invariants of their own.  The ways a breadth-first     *)
(* traversal has queued or taken are a list in which none is longer than a *)
(* later one; a search has queued all that is next to what it has found.   *)
(* The path of the world transforms leads upwards, and its Leaves lie on   *)
(* top of the tasks.  A component that is put together cannot be split     *)
(* without cutting a link, and one that is complete is left by none.       *)
(*                                                                         *)
(* A depth counted upwards is compared with the marked one by the one way  *)
(* there is from a root to a node: the walks from a node, from its parent  *)
(* and with a cursor follow it backwards, and the children lead along it.  *)
(***************************************************************************)
EXTENDS SceneGraph, DataLemmas

(***************************************************************************)
(* Lists of ids.                                                           *)
(***************************************************************************)

NoRepeats(s) == \A i, j \in 1..Len(s) : s[i] = s[j] => i = j

LEMMA ToSetOfSeq ==
  ASSUME NEW S, NEW s \in Seq(S)
  PROVE  /\ ToSet(s) = {s[i] : i \in 1..Len(s)}
         /\ ToSet(s) \subseteq S
BY LenProperties DEF ToSet

(* No id twice means as many ids as places.                                *)
LEMMA DistinctIsNoRepeats ==
  ASSUME NEW S, NEW s \in Seq(S)
  PROVE  /\ AreDistinct(s) <=> NoRepeats(s)
         /\ IsFiniteSet(ToSet(s)) /\ Cardinality(ToSet(s)) <= Len(s)
<1>1. Len(s) \in Nat /\ s \in [1..Len(s) -> ToSet(s)]
  BY LenProperties, ToSetOfSeq
<1>2. s \in Surjection(1..Len(s), ToSet(s))
  BY <1>1, ToSetOfSeq DEF Surjection
<1>3. IsFiniteSet(1..Len(s)) /\ Cardinality(1..Len(s)) = Len(s)
  BY <1>1, Interval
<1>4. /\ IsFiniteSet(ToSet(s)) /\ Cardinality(ToSet(s)) <= Len(s)
      /\ Cardinality(ToSet(s)) = Len(s) <=> s \in Injection(1..Len(s), ToSet(s))
  BY <1>2, <1>3, FS_Surjection
<1>5. NoRepeats(s) <=> s \in Injection(1..Len(s), ToSet(s))
  BY <1>1 DEF NoRepeats, Injection, IsInjective
<1> QED BY <1>4, <1>5 DEF AreDistinct

(* A function on 1..n that hits each of n values, and no others.           *)
LEMMA SortUniqueLists ==
  ASSUME NEW ids, ids \subseteq Nat, IsFiniteSet(ids)
  PROVE  /\ SortUnique(ids) \in Seq(ids)
         /\ Len(SortUnique(ids)) = Cardinality(ids)
         /\ ToSet(SortUnique(ids)) = ids
         /\ NoRepeats(SortUnique(ids))
<1> DEFINE n == Cardinality(ids)
           key == [id \in ids |-> id]
           place == SortUnique(ids)
<1>1. key \in [ids -> Int] /\ n \in Nat
  BY FS_CardinalityType
<1>2. \A id \in ids : {other \in ids : other < id} = Earlier(key, ids, id)
  BY DEF Earlier, Precedes
<1>3. TakesRanks(place, key, ids, n)
  <2>1. place = [k \in 1..n |-> CHOOSE id \in ids : Cardinality({other \in ids : other < id}) = k - 1]
    BY DEF SortUnique
  <2>2. ASSUME NEW k \in 1..n, NEW i \in ids, Cardinality(Earlier(key, ids, i)) = k - 1
        PROVE  place[k] \in ids /\ Cardinality(Earlier(key, ids, place[k])) = k - 1
    <3>1. place[k] = CHOOSE id \in ids : Cardinality({other \in ids : other < id}) = k - 1
      BY <2>1
    <3>2. Cardinality({other \in ids : other < i}) = k - 1
      BY <1>2, <2>2
    <3>3. place[k] \in ids /\ Cardinality({other \in ids : other < place[k]}) = k - 1
      BY <3>1, <3>2
    <3> QED BY <1>2, <3>3
  <2>3. place = [k \in 1..n |-> place[k]]
    BY <2>1
  <2> QED BY <2>2, <2>3 DEF TakesRanks
<1> HIDE DEF key, place, n
<1>4. place \in Bijection(1..n, ids)
  <2>1. n = Cardinality(ids)
    BY DEF n
  <2> QED BY <1>1, <1>3, <2>1, PlacesInOrder
<1>5. place \in [1..n -> ids]
  BY <1>4 DEF Bijection, Injection
<1>6. place \in Seq(ids) /\ Len(place) = n
  BY <1>1, <1>5, FunctionIsSeq
<1>7. ToSet(place) = ids
  <2>1. ToSet(place) = {place[i] : i \in 1..n}
    BY <1>6, ToSetOfSeq
  <2>2. \A id \in ids : \E i \in 1..n : place[i] = id
    BY <1>4 DEF Bijection, Surjection
  <2> QED BY <1>5, <2>1, <2>2
<1>8. NoRepeats(place)
  BY <1>4, <1>6 DEF NoRepeats, Bijection, Injection, IsInjective
<1> QED BY <1>6, <1>7, <1>8 DEF place, n

(* What is taken from a list, by its places.                               *)
Picked(ids, places) == [n \in 1..Len(SortUnique(places)) |-> ids[SortUnique(places)[n]]]

LEMMA PickedLists ==
  ASSUME NEW S, NEW ids \in Seq(S), NEW places \in SUBSET (1..Len(ids))
  PROVE  /\ Picked(ids, places) \in Seq(S)
         /\ ToSet(Picked(ids, places)) = {ids[i] : i \in places}
         /\ NoRepeats(ids) => NoRepeats(Picked(ids, places))
<1>1. Len(ids) \in Nat /\ ids \in [1..Len(ids) -> S]
  BY LenProperties
<1>2. places \subseteq Nat /\ IsFiniteSet(places)
  <2>1. IsFiniteSet(1..Len(ids))
    BY <1>1, Interval
  <2>2. IsFiniteSet(places)
    BY <2>1, FS_Subset
  <2> QED BY <1>1, <2>2
<1> DEFINE order == SortUnique(places)
           m == Len(order)
           picked == Picked(ids, places)
<1>3. order \in Seq(places) /\ ToSet(order) = places /\ NoRepeats(order)
  BY <1>2, SortUniqueLists
<1>4. picked = [n \in 1..m |-> ids[order[n]]]
  BY DEF Picked
<1> HIDE DEF order, picked
<1>5. m \in Nat /\ order \in [1..m -> places]
  BY <1>3, LenProperties
<1>6. picked \in [1..m -> S]
  BY <1>1, <1>4, <1>5
<1>7. picked \in Seq(S) /\ Len(picked) = m
  BY <1>5, <1>6, FunctionIsSeq
<1>8. ToSet(picked) = {ids[i] : i \in places}
  <2>1. ToSet(picked) = {picked[n] : n \in 1..m} /\ places = {order[n] : n \in 1..m}
    BY <1>3, <1>7, ToSetOfSeq
  <2> QED BY <1>4, <2>1
<1>9. ASSUME NoRepeats(ids) PROVE NoRepeats(picked)
  <2>1. \A n \in 1..m : order[n] \in 1..Len(ids) /\ picked[n] = ids[order[n]]
    BY <1>4, <1>5
  <2> QED BY <1>3, <1>7, <1>9, <2>1 DEF NoRepeats
<1> QED BY <1>7, <1>8, <1>9 DEF picked

LEMMA ToSetConcat ==
  ASSUME NEW S, NEW s \in Seq(S), NEW t \in Seq(S)
  PROVE  ToSet(s \o t) = ToSet(s) \cup ToSet(t)
<1>1. s \o t \in Seq(S) /\ Joined(s \o t, s, t)
  BY ConcatPlaces
<1>2. /\ ToSet(s) = {s[i] : i \in 1..Len(s)} /\ ToSet(t) = {t[i] : i \in 1..Len(t)}
      /\ ToSet(s \o t) = {(s \o t)[i] : i \in 1..Len(s \o t)}
  BY <1>1, ToSetOfSeq
<1>3. PICK st : st = s \o t
  OBVIOUS
<1>4. \A k \in 1..Len(st) : k \in 1..Len(s) \/ (k - Len(s) \in 1..Len(t) /\ Len(s) + (k - Len(s)) = k)
  BY <1>1, <1>3 DEF Joined
<1>5. /\ \A k \in 1..Len(s) : k \in 1..Len(st)
      /\ \A k \in 1..Len(t) : Len(s) + k \in 1..Len(st)
  BY <1>1, <1>3 DEF Joined
<1> QED BY <1>1, <1>2, <1>3, <1>4, <1>5 DEF Joined

LEMMA ToSetAppend ==
  ASSUME NEW S, NEW s \in Seq(S), NEW e \in S
  PROVE  ToSet(Append(s, e)) = ToSet(s) \cup {e}
<1>1. /\ Append(s, e) \in Seq(S) /\ Len(Append(s, e)) = Len(s) + 1 /\ Len(s) \in Nat
      /\ \A i \in 1..Len(s) : Append(s, e)[i] = s[i]
      /\ Append(s, e)[Len(s) + 1] = e
  BY AppendProperties, LenProperties
<1>2. \A i \in 1..Len(s) + 1 : i \in 1..Len(s) \/ i = Len(s) + 1
  BY <1>1
<1>3. Len(s) + 1 \in 1..Len(s) + 1 /\ \A i \in 1..Len(s) : i \in 1..Len(s) + 1
  BY <1>1
<1>4. ToSet(s) = {s[i] : i \in 1..Len(s)}
  BY ToSetOfSeq
<1>5. ToSet(Append(s, e)) = {Append(s, e)[i] : i \in 1..Len(s) + 1}
  BY <1>1, ToSetOfSeq
<1> QED BY <1>1, <1>2, <1>3, <1>4, <1>5

(***************************************************************************)
(* Layers of a graph.                                                      *)
(***************************************************************************)

ChildrenIn(nodes, id) == IF id \in DOMAIN nodes THEN nodes[id].children ELSE << >>
Kids(nodes, ids) == UNION {ToSet(ChildrenIn(nodes, id)) : id \in ids}
Layer(nodes, ids, n) ==
  LET layer[k \in 0..n] == IF k = 0 THEN ids ELSE layer[k - 1] \cup Kids(nodes, layer[k - 1])
  IN layer[n]
ClosureIn(nodes, ids) == Layer(nodes, ids, Cardinality(DOMAIN nodes) + 1)
BelowIn(nodes, id) == ClosureIn(nodes, ToSet(ChildrenIn(nodes, id)))

(* They are what the properties speak about.                               *)
LEMMA LayersOfGraph ==
  /\ \A id : Children(id) = ChildrenIn(graph.nodes, id)
  /\ \A ids, n : Within(ids, n) = Layer(graph.nodes, ids, n)
  /\ \A ids : Closure(ids) = ClosureIn(graph.nodes, ids)
  /\ \A id : Below(id) = BelowIn(graph.nodes, id)
<1>1. \A id : Children(id) = ChildrenIn(graph.nodes, id)
  BY DEF Children, ChildrenIn, GraphContainsNode, Ids
<1>3. \A ids, n : Within(ids, n) = Layer(graph.nodes, ids, n)
  <2> SUFFICES ASSUME NEW ids, NEW n PROVE Within(ids, n) = Layer(graph.nodes, ids, n)
    OBVIOUS
  <2> QED BY Zenon DEF Within, Layer, Kids, Children, ChildrenIn, GraphContainsNode, Ids
<1>4. \A ids : Closure(ids) = ClosureIn(graph.nodes, ids)
  BY <1>3 DEF Closure, ClosureIn, Ids
<1>5. \A id : Below(id) = BelowIn(graph.nodes, id)
  BY <1>1, <1>4 DEF Below, BelowIn
<1> QED BY <1>1, <1>3, <1>4, <1>5

IsLayering(f, nodes, ids, n) ==
  f = [k \in 0..n |-> IF k = 0 THEN ids ELSE f[k - 1] \cup Kids(nodes, f[k - 1])]

LEMMA LayeringExists ==
  ASSUME NEW nodes, NEW ids, NEW n \in Nat
  PROVE  \E f : IsLayering(f, nodes, ids, n)
<1> DEFINE all == ids \cup Kids(nodes, DOMAIN nodes)
           V == SUBSET all
           step == [p \in V \X (1..n) |-> p[1] \cup Kids(nodes, p[1])]
<1>1. \A S : Kids(nodes, S) \subseteq Kids(nodes, DOMAIN nodes)
  BY DEF Kids, ChildrenIn, ToSet
<1>2. step \in [V \X (1..n) -> V]
  BY <1>1
<1>3. ids \in V
  OBVIOUS
<1>4. PICK f : IsRecursive(f, n, V, ids, step)
  <2> HIDE DEF step, V
  <2> QED BY <1>2, <1>3, RecursionUp
<1>5. f \in [0..n -> V] /\ f[0] = ids
  BY <1>4 DEF IsRecursive
<1>6. ASSUME NEW k \in 1..n PROVE f[k] = f[k - 1] \cup Kids(nodes, f[k - 1])
  <2>1. k - 1 \in 0..n
    OBVIOUS
  <2>2. f[k] = step[<<f[k - 1], k>>] /\ f[k - 1] \in V
    BY <1>4, <2>1 DEF IsRecursive
  <2> QED BY <2>2
<1> HIDE DEF V
<1>7. \A k \in 0..n : k = 0 \/ k \in 1..n
  OBVIOUS
<1> QED BY <1>5, <1>6, <1>7 DEF IsLayering

LEMMA LayerByLayering ==
  ASSUME NEW nodes, NEW ids, NEW n \in Nat
  PROVE  \E f : IsLayering(f, nodes, ids, n) /\ Layer(nodes, ids, n) = f[n]
<1> DEFINE f == CHOOSE layer : layer = [k \in 0..n |-> IF k = 0 THEN ids
                                                ELSE layer[k - 1] \cup Kids(nodes, layer[k - 1])]
<1>1. IsLayering(f, nodes, ids, n)
  <2>1. \E layer : layer = [k \in 0..n |-> IF k = 0 THEN ids
                                        ELSE layer[k - 1] \cup Kids(nodes, layer[k - 1])]
    <3>1. PICK g : IsLayering(g, nodes, ids, n)
      BY LayeringExists
    <3> QED BY <3>1, Zenon DEF IsLayering
  <2> QED BY <2>1, Zenon DEF IsLayering
<1>2. Layer(nodes, ids, n) = f[n]
  BY DEF Layer
<1> HIDE DEF f
<1> QED BY <1>1, <1>2

(* A layer adds the children of the one before it.                         *)
LEMMA LayerSteps ==
  ASSUME NEW nodes, NEW ids
  PROVE  /\ Layer(nodes, ids, 0) = ids
         /\ \A n \in Nat :
              Layer(nodes, ids, n + 1) = Layer(nodes, ids, n) \cup Kids(nodes, Layer(nodes, ids, n))
<1>1. Layer(nodes, ids, 0) = ids
  <2>1. PICK f : IsLayering(f, nodes, ids, 0) /\ Layer(nodes, ids, 0) = f[0]
    BY LayerByLayering
  <2> QED BY <2>1 DEF IsLayering
<1>2. ASSUME NEW n \in Nat
      PROVE  Layer(nodes, ids, n + 1) = Layer(nodes, ids, n) \cup Kids(nodes, Layer(nodes, ids, n))
  <2>1. PICK f : IsLayering(f, nodes, ids, n) /\ Layer(nodes, ids, n) = f[n]
    BY LayerByLayering
  <2>2. PICK g : IsLayering(g, nodes, ids, n + 1) /\ Layer(nodes, ids, n + 1) = g[n + 1]
    BY LayerByLayering
  <2> DEFINE S == {k \in 0..n : f[k] = g[k]}
  <2>3. 0 \in S
    BY <2>1, <2>2 DEF IsLayering
  <2>4. ASSUME NEW k \in 0..n - 1, k \in S PROVE k + 1 \in S
    <3>1. k + 1 \in 0..n /\ k + 1 \in 0..n + 1 /\ k + 1 # 0 /\ (k + 1) - 1 = k
      OBVIOUS
    <3>2. f[k + 1] = f[k] \cup Kids(nodes, f[k])
      BY <2>1, <3>1 DEF IsLayering
    <3>3. g[k + 1] = g[k] \cup Kids(nodes, g[k])
      BY <2>2, <3>1 DEF IsLayering
    <3> QED BY <2>4, <3>1, <3>2, <3>3
  <2>5. n \in S
    <3> HIDE DEF S
    <3> QED BY <2>3, <2>4, BoundedInduction
  <2>6. n + 1 \in 0..n + 1 /\ n + 1 # 0 /\ (n + 1) - 1 = n
    OBVIOUS
  <2>7. g[n + 1] = g[n] \cup Kids(nodes, g[n])
    BY <2>2, <2>6 DEF IsLayering
  <2> QED BY <2>1, <2>2, <2>5, <2>7
<1> QED BY <1>1, <1>2

Closed(nodes, ids) == Kids(nodes, ids) \subseteq ids

LEMMA KidsOf ==
  ASSUME NEW nodes, NEW ids
  PROVE  /\ \A c : c \in Kids(nodes, ids) <=>
                     \E p \in ids \cap DOMAIN nodes : c \in ToSet(nodes[p].children)
         /\ Closed(nodes, ids) <=>
              \A p \in ids \cap DOMAIN nodes : ToSet(nodes[p].children) \subseteq ids
BY DEF Kids, Closed, ChildrenIn, ToSet

(* What a closed set has to begin with, it has in every layer.             *)
LEMMA LayersWithin ==
  ASSUME NEW nodes, NEW ids, NEW T, ids \subseteq T, Closed(nodes, T)
  PROVE  \A n \in Nat : Layer(nodes, ids, n) \subseteq T
<1> DEFINE S == {n \in Nat : Layer(nodes, ids, n) \subseteq T}
<1>1. 0 \in S
  BY LayerSteps
<1>2. ASSUME NEW n \in Nat, n \in S PROVE n + 1 \in S
  <2>1. Layer(nodes, ids, n + 1) = Layer(nodes, ids, n) \cup Kids(nodes, Layer(nodes, ids, n))
    BY LayerSteps
  <2>2. Kids(nodes, Layer(nodes, ids, n)) \subseteq T
    BY <1>2 DEF Kids, Closed
  <2> QED BY <1>2, <2>1, <2>2
<1>3. \A n \in Nat : n \in S
  <2> HIDE DEF S
  <2> QED BY <1>1, <1>2, InductionOnSet
<1> QED BY <1>3

(* One layer more than there are nodes is all there is to reach: a layer   *)
(* that adds no node adds nothing that has children.                       *)
LEMMA LayersEnd ==
  ASSUME NEW nodes, NEW ids, IsFiniteSet(DOMAIN nodes)
  PROVE  Closed(nodes, ClosureIn(nodes, ids))
<1> DEFINE L(n) == Layer(nodes, ids, n)
           D == DOMAIN nodes
           N == Cardinality(D)
           C(n) == Cardinality(L(n) \cap D)
           S == {n \in 0..N + 1 : Closed(nodes, L(n)) \/ C(n) >= n}
<1>1. N \in Nat
  BY FS_CardinalityType
<1>2. \A n \in Nat : /\ IsFiniteSet(L(n) \cap D) /\ C(n) \in Nat /\ C(n) <= N
  <2> HIDE DEF L
  <2>1. ASSUME NEW n \in Nat PROVE IsFiniteSet(L(n) \cap D) /\ C(n) <= N
    BY FS_Intersection
  <2> QED BY <2>1, FS_CardinalityType
<1>3. 0 \in S
  BY <1>1, <1>2
<1>4. \A n \in Nat : L(n + 1) = L(n) \cup Kids(nodes, L(n))
  BY LayerSteps
<1> HIDE DEF L
<1>5. ASSUME NEW n \in 0..(N + 1) - 1, n \in S PROVE n + 1 \in S
  <2>1. n \in Nat /\ n + 1 \in Nat /\ n + 1 \in 0..N + 1
    BY <1>1
  <2>2. L(n + 1) = L(n) \cup Kids(nodes, L(n))
    BY <1>4, <2>1
  <2>3. CASE Closed(nodes, L(n))
    <3>1. L(n + 1) = L(n)
      BY <2>2, <2>3 DEF Closed
    <3> QED BY <2>1, <2>3, <3>1
  <2>4. CASE ~Closed(nodes, L(n))
    <3>1. C(n) >= n
      BY <1>5, <2>4
    <3>2. CASE L(n + 1) \cap D = L(n) \cap D
      <4>1. Kids(nodes, L(n + 1)) = Kids(nodes, L(n))
        BY <3>2 DEF Kids, ChildrenIn, ToSet
      <4>2. Closed(nodes, L(n + 1))
        BY <2>2, <4>1 DEF Closed
      <4> QED BY <2>1, <4>2
    <3>3. CASE L(n + 1) \cap D # L(n) \cap D
      <4>1. L(n) \cap D \in SUBSET (L(n + 1) \cap D)
        BY <2>2
      <4>2. IsFiniteSet(L(n + 1) \cap D)
        BY <1>2, <2>1
      <4>3. C(n) <= C(n + 1) /\ C(n) # C(n + 1)
        BY <3>3, <4>1, <4>2, FS_Subset
      <4>4. C(n) \in Nat /\ C(n + 1) \in Nat
        BY <1>2, <2>1
      <4>5. C(n + 1) >= n + 1
        BY <2>1, <3>1, <4>3, <4>4
      <4> QED BY <2>1, <4>5
    <3> QED BY <3>2, <3>3
  <2> QED BY <2>3, <2>4
<1>6. N + 1 \in S
  <2> HIDE DEF S
  <2>1. N + 1 \in Nat /\ N + 1 \in 0..N + 1
    BY <1>1
  <2> QED BY <1>3, <1>5, <2>1, BoundedInduction
<1>7. ~(C(N + 1) >= N + 1)
  BY <1>1, <1>2
<1> QED BY <1>6, <1>7 DEF ClosureIn, L

(* The closure is the least closed set.                                    *)
LEMMA ClosureFacts ==
  ASSUME NEW nodes, NEW ids, IsFiniteSet(DOMAIN nodes)
  PROVE  /\ ids \subseteq ClosureIn(nodes, ids)
         /\ Closed(nodes, ClosureIn(nodes, ids))
         /\ \A T : ids \subseteq T /\ Closed(nodes, T) => ClosureIn(nodes, ids) \subseteq T
         /\ \A n \in Nat : Layer(nodes, ids, n) \subseteq ClosureIn(nodes, ids)
<1> DEFINE m == Cardinality(DOMAIN nodes) + 1
           S == {n \in Nat : ids \subseteq Layer(nodes, ids, n)}
<1>1. m \in Nat
  BY FS_CardinalityType
<1>2. 0 \in S /\ \A n \in Nat : n \in S => n + 1 \in S
  BY LayerSteps
<1>3. m \in S
  <2> HIDE DEF S, m
  <2> QED BY <1>1, <1>2, InductionOnSet
<1>4. ids \subseteq ClosureIn(nodes, ids)
  BY <1>3 DEF ClosureIn
<1>5. Closed(nodes, ClosureIn(nodes, ids))
  BY LayersEnd
<1>6. ASSUME NEW T, ids \subseteq T, Closed(nodes, T) PROVE ClosureIn(nodes, ids) \subseteq T
  BY <1>1, <1>6, LayersWithin DEF ClosureIn
<1> QED BY <1>4, <1>5, <1>6, LayersWithin

LEMMA HeadAndTail ==
  ASSUME NEW S, NEW s \in Seq(S), s # << >>
  PROVE  /\ Head(s) \in S /\ Tail(s) \in Seq(S) /\ Len(Tail(s)) = Len(s) - 1
         /\ Len(s) \in Nat \ {0} /\ Head(s) = s[1]
         /\ \A i \in 1..Len(s) - 1 : Tail(s)[i] = s[i + 1]
         /\ ToSet(s) = {Head(s)} \cup ToSet(Tail(s))
<1>1. /\ Head(s) \in S /\ Tail(s) \in Seq(S) /\ Len(Tail(s)) = Len(s) - 1
      /\ Len(s) \in Nat \ {0} /\ Head(s) = s[1]
      /\ \A i \in 1..Len(s) - 1 : Tail(s)[i] = s[i + 1]
  BY HeadTailProperties, EmptySeq
<1>2. /\ ToSet(s) = {s[i] : i \in 1..Len(s)}
      /\ ToSet(Tail(s)) = {Tail(s)[i] : i \in 1..Len(s) - 1}
  BY <1>1, ToSetOfSeq
<1>3. \A i \in 1..Len(s) : i = 1 \/ (i - 1 \in 1..Len(s) - 1 /\ (i - 1) + 1 = i)
  BY <1>1
<1>4. 1 \in 1..Len(s) /\ \A i \in 1..Len(s) - 1 : i + 1 \in 1..Len(s)
  BY <1>1
<1>5. ASSUME NEW e \in ToSet(s) PROVE e \in {Head(s)} \cup ToSet(Tail(s))
  <2>1. PICK i \in 1..Len(s) : s[i] = e
    BY <1>2
  <2>2. i = 1 \/ Tail(s)[i - 1] = e
    BY <1>1, <1>3, <2>1
  <2> QED BY <1>1, <1>2, <1>3, <2>1, <2>2
<1>6. ASSUME NEW i \in 1..Len(s) - 1 PROVE Tail(s)[i] \in ToSet(s)
  BY <1>1, <1>2, <1>4
<1>7. Head(s) \in ToSet(s)
  BY <1>1, <1>2, <1>4
<1>8. ToSet(s) = {Head(s)} \cup ToSet(Tail(s))
  BY <1>2, <1>5, <1>6, <1>7
<1> QED BY <1>1, <1>8

(***************************************************************************)
(* Marking.                                                                *)
(***************************************************************************)

Info == [parent : Nat, children : Seq(Nat), depth : Nat, reachable : BOOLEAN]
IsGraph(nodes) ==
  /\ nodes \in [DOMAIN nodes -> Info]
  /\ DOMAIN nodes \subseteq Nat /\ IsFiniteSet(DOMAIN nodes)
  /\ \A id \in DOMAIN nodes : NoRepeats(nodes[id].children)

SameLinks(nodes, others) ==
  DOMAIN others = DOMAIN nodes /\ \A id \in DOMAIN nodes : others[id].children = nodes[id].children

LEMMA SameLayers ==
  ASSUME NEW nodes, NEW others, SameLinks(nodes, others)
  PROVE  /\ \A id : ChildrenIn(others, id) = ChildrenIn(nodes, id)
         /\ \A ids, n : Layer(others, ids, n) = Layer(nodes, ids, n)
<1>1. \A id : ChildrenIn(others, id) = ChildrenIn(nodes, id)
  BY DEF SameLinks, ChildrenIn
<1>2. \A ids : Kids(others, ids) = Kids(nodes, ids)
  BY <1>1 DEF Kids
<1>3. ASSUME NEW ids, NEW n PROVE Layer(others, ids, n) = Layer(nodes, ids, n)
  BY <1>2 DEF Layer
<1> QED BY <1>1, <1>3

(* Every mark and every call to come is within its depth of the roots, and *)
(* what a mark still owes to a child, or to a root, a call will settle.    *)
MarkedFor(nodes, id, depth) == nodes[id].reachable /\ nodes[id].depth <= depth
MarkInv(nodes, roots, calls) ==
  /\ \A call \in calls : call.id \in Nat /\ call.depth \in Nat
  /\ \A call \in calls : call.id \in Layer(nodes, roots, call.depth)
  /\ \A id \in DOMAIN nodes : nodes[id].reachable => id \in Layer(nodes, roots, nodes[id].depth)
  /\ \A id \in roots \cap DOMAIN nodes :
       MarkedFor(nodes, id, 0) \/ \E call \in calls : call.id = id /\ call.depth = 0
  /\ \A p \in DOMAIN nodes : \A c \in ToSet(nodes[p].children) \cap DOMAIN nodes :
       nodes[p].reachable =>
         \/ MarkedFor(nodes, c, nodes[p].depth + 1)
         \/ \E call \in calls : call.id = c /\ call.depth <= nodes[p].depth + 1

LEMMA MarkStep ==
  ASSUME NEW nodes, IsGraph(nodes), NEW roots, NEW x, NEW d, NEW call, NEW rest, NEW below, NEW others,
         call.id = x, call.depth = d,
         MarkInv(nodes, roots, {call} \cup rest),
         x \in DOMAIN nodes, ~MarkedFor(nodes, x, d),
         SameLinks(nodes, others),
         \A id \in DOMAIN nodes : id # x => others[id] = nodes[id],
         others[x].reachable, others[x].depth = d,
         \A c \in below : c.depth = d + 1 /\ c.id \in ToSet(nodes[x].children),
         \A id \in ToSet(nodes[x].children) : \E c \in below : c.id = id
  PROVE  MarkInv(others, roots, below \cup rest)
<1>1. x \in Nat /\ d \in Nat /\ x \in Layer(nodes, roots, d)
  BY DEF MarkInv
<1>5. DOMAIN others = DOMAIN nodes
  BY DEF SameLinks
<1>10. /\ \A ids, n : Layer(others, ids, n) = Layer(nodes, ids, n)
       /\ \A id \in DOMAIN nodes : others[id].children = nodes[id].children
  <2>1. \A ids, n : Layer(others, ids, n) = Layer(nodes, ids, n)
    BY SameLayers
  <2> QED BY <2>1 DEF SameLinks
<1>11. \A id \in DOMAIN nodes : nodes[id].depth \in Nat /\ ToSet(nodes[id].children) \subseteq Nat
  <2>1. \A id \in DOMAIN nodes : nodes[id] \in Info
    BY DEF IsGraph
  <2> QED BY <2>1, ToSetOfSeq DEF Info
(* Marks are only bettered.                                                *)
<1>12. \A id \in DOMAIN nodes : \A n \in Nat : MarkedFor(nodes, id, n) => MarkedFor(others, id, n)
  <2>1. \A n \in Nat : MarkedFor(nodes, x, n) => MarkedFor(others, x, n)
    <3>1. nodes[x].depth \in Nat
      BY <1>11
    <3> QED BY <1>1, <3>1 DEF MarkedFor
  <2> QED BY <1>5, <2>1 DEF MarkedFor
<1>13. \A n \in Nat : d <= n => MarkedFor(others, x, n)
  BY DEF MarkedFor
<1>14. \A c \in below : c.id \in Nat /\ c.depth = d + 1 /\ c.id \in ToSet(nodes[x].children)
  BY <1>11
<1>15. ASSUME NEW c \in below PROVE c.id \in Layer(others, roots, c.depth)
  <2>1. Layer(nodes, roots, d + 1) = Layer(nodes, roots, d) \cup Kids(nodes, Layer(nodes, roots, d))
    <3>1. \A n \in Nat :
            Layer(nodes, roots, n + 1) = Layer(nodes, roots, n) \cup Kids(nodes, Layer(nodes, roots, n))
      BY LayerSteps
    <3> QED BY <1>1, <3>1
  <2>2. c.id \in Kids(nodes, Layer(nodes, roots, d))
    BY <1>1, <1>14, KidsOf
  <2> QED BY <1>10, <1>14, <2>1, <2>2
<1>16. \A c \in below \cup rest : c.id \in Nat /\ c.depth \in Nat /\ c.id \in Layer(others, roots, c.depth)
  <2>1. d + 1 \in Nat
    BY <1>1
  <2> QED BY <1>10, <1>14, <1>15, <2>1 DEF MarkInv
<1>17. \A id \in DOMAIN others : others[id].reachable => id \in Layer(others, roots, others[id].depth)
  <2>1. others[x].depth = d /\ x \in Layer(others, roots, d)
    BY <1>1, <1>10
  <2>2. ASSUME NEW id \in DOMAIN nodes, id # x, nodes[id].reachable
        PROVE  id \in Layer(others, roots, nodes[id].depth)
    BY <1>10, <2>2 DEF MarkInv
  <2> QED BY <1>5, <2>1, <2>2
<1>18. ASSUME NEW id \in roots \cap DOMAIN nodes
       PROVE  MarkedFor(others, id, 0) \/ \E c \in below \cup rest : c.id = id /\ c.depth = 0
  <2>1. MarkedFor(nodes, id, 0) \/ \E c \in {call} \cup rest : c.id = id /\ c.depth = 0
    BY DEF MarkInv
  <2>2. call.id = id /\ call.depth = 0 => MarkedFor(others, id, 0)
    BY <1>13
  <2> QED BY <1>12, <2>1, <2>2
<1>19. ASSUME NEW p \in DOMAIN nodes, NEW c \in ToSet(nodes[p].children) \cap DOMAIN nodes,
              others[p].reachable
       PROVE  \/ MarkedFor(others, c, others[p].depth + 1)
              \/ \E e \in below \cup rest : e.id = c /\ e.depth <= others[p].depth + 1
  <2>1. CASE p = x
    <3>1. others[p].depth = d
      BY <2>1
    <3>2. PICK e \in below : e.id = c /\ e.depth = d + 1
      BY <2>1
    <3>3. d + 1 <= d + 1
      BY <1>1
    <3> QED BY <3>1, <3>2, <3>3
  <2>2. CASE p # x
    <3>1. others[p] = nodes[p]
      BY <1>5, <2>2
    <3>2. \/ MarkedFor(nodes, c, nodes[p].depth + 1)
          \/ \E e \in {call} \cup rest : e.id = c /\ e.depth <= nodes[p].depth + 1
      BY <1>19, <3>1 DEF MarkInv
    <3>3. nodes[p].depth + 1 \in Nat
      BY <1>11
    <3>4. call.id = c /\ call.depth <= nodes[p].depth + 1 => MarkedFor(others, c, nodes[p].depth + 1)
      BY <1>13, <3>3
    <3> QED BY <1>12, <3>1, <3>2, <3>3, <3>4
  <2> QED BY <2>1, <2>2
<1>20. \A p \in DOMAIN others : \A c \in ToSet(others[p].children) \cap DOMAIN others :
         others[p].reachable =>
           \/ MarkedFor(others, c, others[p].depth + 1)
           \/ \E e \in below \cup rest : e.id = c /\ e.depth <= others[p].depth + 1
  BY <1>5, <1>10, <1>19
<1> QED BY <1>5, <1>16, <1>17, <1>18, <1>20 DEF MarkInv

LEMMA MarkSkip ==
  ASSUME NEW nodes, IsGraph(nodes), NEW roots, NEW call, NEW rest,
         MarkInv(nodes, roots, {call} \cup rest),
         ~(call.id \in DOMAIN nodes /\ ~MarkedFor(nodes, call.id, call.depth))
  PROVE  MarkInv(nodes, roots, rest)
<1>1. \A id \in DOMAIN nodes : nodes[id].depth \in Nat
  BY DEF IsGraph, Info
<1>2. call.id \in DOMAIN nodes => MarkedFor(nodes, call.id, call.depth) /\ call.depth \in Nat
  BY DEF MarkInv
<1>3. \A n \in Nat : call.id \in DOMAIN nodes /\ call.depth <= n => MarkedFor(nodes, call.id, n)
  BY <1>1, <1>2 DEF MarkedFor
<1>4. \A id \in DOMAIN nodes : nodes[id].depth + 1 \in Nat
  BY <1>1
<1>5. \A id \in roots \cap DOMAIN nodes :
        MarkedFor(nodes, id, 0) \/ \E c \in rest : c.id = id /\ c.depth = 0
  BY <1>3 DEF MarkInv
<1>6. \A p \in DOMAIN nodes : \A c \in ToSet(nodes[p].children) \cap DOMAIN nodes :
        nodes[p].reachable =>
          \/ MarkedFor(nodes, c, nodes[p].depth + 1)
          \/ \E e \in rest : e.id = c /\ e.depth <= nodes[p].depth + 1
  BY <1>3, <1>4 DEF MarkInv
<1> QED BY <1>5, <1>6 DEF MarkInv

Marked(nodes, roots) ==
  \A id \in DOMAIN nodes :
    /\ nodes[id].reachable <=> id \in ClosureIn(nodes, roots)
    /\ nodes[id].reachable =>
         /\ id \in Layer(nodes, roots, nodes[id].depth)
         /\ nodes[id].depth > 0 => id \notin Layer(nodes, roots, nodes[id].depth - 1)

(* When no call is left, marks are exact: by induction over the layers.    *)
LEMMA MarkingEnds ==
  ASSUME NEW nodes, IsGraph(nodes), NEW roots, MarkInv(nodes, roots, {})
  PROVE  Marked(nodes, roots)
<1> DEFINE Done(n) == \A id \in Layer(nodes, roots, n) \cap DOMAIN nodes : MarkedFor(nodes, id, n)
           S == {n \in Nat : Done(n)}
<1>1. \A id \in DOMAIN nodes : nodes[id].depth \in Nat
  BY DEF IsGraph, Info
<1>2. 0 \in S
  BY LayerSteps DEF MarkInv
<1>3. ASSUME NEW n \in Nat, n \in S PROVE n + 1 \in S
  <2>1. Layer(nodes, roots, n + 1) = Layer(nodes, roots, n) \cup Kids(nodes, Layer(nodes, roots, n))
    BY LayerSteps
  <2>2. ASSUME NEW id \in Layer(nodes, roots, n + 1) \cap DOMAIN nodes PROVE MarkedFor(nodes, id, n + 1)
    <3>1. CASE id \in Layer(nodes, roots, n)
      <4>1. MarkedFor(nodes, id, n)
        BY <1>3, <3>1
      <4> QED BY <1>1, <4>1 DEF MarkedFor
    <3>2. CASE id \in Kids(nodes, Layer(nodes, roots, n))
      <4>1. PICK p \in Layer(nodes, roots, n) \cap DOMAIN nodes : id \in ToSet(nodes[p].children)
        BY <3>2, KidsOf
      <4>2. MarkedFor(nodes, p, n)
        BY <1>3
      <4>3. MarkedFor(nodes, id, nodes[p].depth + 1)
        BY <4>1, <4>2 DEF MarkInv, MarkedFor
      <4> QED BY <1>1, <4>2, <4>3 DEF MarkedFor
    <3> QED BY <2>1, <3>1, <3>2
  <2> QED BY <2>2
<1>4. \A n \in Nat : Done(n)
  <2>1. \A n \in Nat : n \in S
    <3> HIDE DEF S
    <3> QED BY <1>2, <1>3, InductionOnSet
  <2> QED BY <2>1
<1>5. IsFiniteSet(DOMAIN nodes) /\ Cardinality(DOMAIN nodes) + 1 \in Nat
  BY FS_CardinalityType DEF IsGraph
<1>6. ASSUME NEW id \in DOMAIN nodes, id \in ClosureIn(nodes, roots) PROVE nodes[id].reachable
  BY <1>4, <1>5, <1>6 DEF ClosureIn, MarkedFor
<1>7. ASSUME NEW id \in DOMAIN nodes, nodes[id].reachable
      PROVE  /\ id \in ClosureIn(nodes, roots) /\ id \in Layer(nodes, roots, nodes[id].depth)
             /\ nodes[id].depth > 0 => id \notin Layer(nodes, roots, nodes[id].depth - 1)
  <2>1. nodes[id].depth \in Nat
    BY <1>1
  <2>2. id \in Layer(nodes, roots, nodes[id].depth)
    BY <1>7 DEF MarkInv
  <2>3. id \in ClosureIn(nodes, roots)
    BY <1>5, <2>1, <2>2, ClosureFacts
  <2>4. ASSUME nodes[id].depth > 0, id \in Layer(nodes, roots, nodes[id].depth - 1) PROVE FALSE
    <3>1. nodes[id].depth - 1 \in Nat
      BY <2>1, <2>4
    <3>2. MarkedFor(nodes, id, nodes[id].depth - 1)
      BY <1>4, <2>4, <3>1
    <3> QED BY <2>1, <3>2 DEF MarkedFor
  <2> QED BY <2>2, <2>3, <2>4
<1> QED BY <1>6, <1>7 DEF Marked

(***************************************************************************)
(* Calls of a depth-first recursion.  at gives for each node on the path   *)
(* the place of the task that leaves it.  A task that enters a node stands *)
(* before the one that leaves the node it is a child of.                   *)
(***************************************************************************)

Tasks == Seq([enters : BOOLEAN, id : Nat])

Stacked(nodes, tops, tasks, road, at) ==
  /\ at \in [1..Len(road) -> 1..Len(tasks)]
  /\ \A i \in 1..Len(road) : ~tasks[at[i]].enters /\ tasks[at[i]].id = road[i]
  /\ \A i, k \in 1..Len(road) : i < k => at[k] < at[i]
  /\ \A j \in 1..Len(tasks) : ~tasks[j].enters => \E i \in 1..Len(road) : at[i] = j
  /\ \A j \in 1..Len(tasks), i \in 1..Len(road) :
       /\ tasks[j].enters /\ j < at[i]
       /\ \A k \in 1..Len(road) : i < k => at[k] < j
       => tasks[j].id \in ToSet(ChildrenIn(nodes, road[i]))
  /\ \A j \in 1..Len(tasks) :
       tasks[j].enters /\ (\A k \in 1..Len(road) : at[k] < j) => tasks[j].id \in tops

(* The task that comes first enters a child of the last node on the path,  *)
(* or leaves that node.                                                    *)
LEMMA FirstTask ==
  ASSUME NEW nodes, NEW tops, NEW tasks \in Tasks, NEW road \in Seq(Nat), NEW at,
         Stacked(nodes, tops, tasks, road, at), tasks # << >>
  PROVE  /\ tasks[1].enters =>
              /\ road # << >> => tasks[1].id \in ToSet(ChildrenIn(nodes, road[Len(road)]))
              /\ road = << >> => tasks[1].id \in tops
              /\ \A i \in 1..Len(road) : at[i] > 1
         /\ ~tasks[1].enters =>
              /\ road # << >> /\ tasks[1].id = road[Len(road)] /\ at[Len(road)] = 1
              /\ \A i \in 1..Len(road) - 1 : at[i] > 1
<1>1. Len(tasks) \in Nat \ {0} /\ Len(road) \in Nat /\ (road # << >> => Len(road) \in Nat \ {0})
  BY EmptySeq DEF Tasks
<1>2. \A i \in 1..Len(road) : at[i] \in 1..Len(tasks)
  BY DEF Stacked
<1>3. 1 \in 1..Len(tasks)
  BY <1>1
<1>4. ASSUME tasks[1].enters
      PROVE  /\ road # << >> => tasks[1].id \in ToSet(ChildrenIn(nodes, road[Len(road)]))
             /\ road = << >> => tasks[1].id \in tops
             /\ \A i \in 1..Len(road) : at[i] > 1
  <2>1. \A i \in 1..Len(road) : at[i] # 1
    BY <1>4 DEF Stacked
  <2>2. \A i \in 1..Len(road) : at[i] > 1
    BY <1>2, <2>1
  <2>3. ASSUME road # << >> PROVE tasks[1].id \in ToSet(ChildrenIn(nodes, road[Len(road)]))
    <3>1. Len(road) \in 1..Len(road)
      BY <1>1, <2>3
    <3>2. 1 < at[Len(road)] /\ \A k \in 1..Len(road) : ~(Len(road) < k)
      BY <1>1, <2>2, <3>1
    <3> QED BY <1>3, <1>4, <3>1, <3>2 DEF Stacked
  <2>4. ASSUME road = << >> PROVE tasks[1].id \in tops
    <3>1. Len(road) = 0
      BY <2>4
    <3>2. 1..Len(road) = {}
      BY <3>1
    <3> QED BY <1>3, <1>4, <3>2 DEF Stacked
  <2> QED BY <2>2, <2>3, <2>4
<1>5. ASSUME ~tasks[1].enters
      PROVE  /\ road # << >> /\ tasks[1].id = road[Len(road)] /\ at[Len(road)] = 1
             /\ \A i \in 1..Len(road) - 1 : at[i] > 1
  <2>1. PICK i \in 1..Len(road) : at[i] = 1
    BY <1>3, <1>5 DEF Stacked
  <2>2. \A k \in 1..Len(road) : ~(i < k)
    BY <1>2, <2>1 DEF Stacked
  <2>3. i = Len(road)
    BY <1>1, <2>2
  <2>4. tasks[1].id = road[Len(road)] /\ road # << >>
    <3>1. tasks[at[i]].id = road[i]
      BY DEF Stacked
    <3> QED BY <1>1, <2>1, <2>3, <3>1
  <2>5. ASSUME NEW k \in 1..Len(road) - 1 PROVE at[k] > 1
    <3>1. k \in 1..Len(road) /\ k < i
      BY <1>1, <2>3
    <3>2. at[i] < at[k]
      BY <3>1 DEF Stacked
    <3> QED BY <1>2, <2>1, <3>1, <3>2
  <2> QED BY <2>1, <2>3, <2>4, <2>5
<1> QED BY <1>4, <1>5

(* The tasks once the first one has entered a node with these children.    *)
Entered(tasks, id, ids) ==
  [i \in DOMAIN ids |-> [enters |-> TRUE, id |-> ids[i]]]
    \o <<[enters |-> FALSE, id |-> id]>> \o Tail(tasks)

IsEntered(others, tasks, id, ids) ==
  /\ Len(others) = Len(ids) + Len(tasks)
  /\ \A j \in 1..Len(ids) : others[j].enters /\ others[j].id = ids[j]
  /\ ~others[Len(ids) + 1].enters /\ others[Len(ids) + 1].id = id
  /\ \A j \in 2..Len(tasks) : others[Len(ids) + j] = tasks[j]

LEMMA EnteredTasks ==
  ASSUME NEW tasks \in Tasks, tasks # << >>, NEW id \in Nat, NEW ids \in Seq(Nat)
  PROVE  Entered(tasks, id, ids) \in Tasks /\ IsEntered(Entered(tasks, id, ids), tasks, id, ids)
<1> DEFINE T == [enters : BOOLEAN, id : Nat]
           a == [i \in DOMAIN ids |-> [enters |-> TRUE, id |-> ids[i]]]
           b == <<[enters |-> FALSE, id |-> id]>>
           c == Tail(tasks)
           K == Len(ids)
<1>1. K \in Nat /\ DOMAIN ids = 1..K /\ ids \in [1..K -> Nat]
  BY LenProperties
<1>2. a \in [1..K -> T]
  BY <1>1
<1>3. a \in Seq(T) /\ Len(a) = K
  <2> HIDE DEF a, T, K
  <2> QED BY <1>1, <1>2, FunctionIsSeq
<1>4. b \in Seq(T) /\ Len(b) = 1 /\ b[1] = [enters |-> FALSE, id |-> id]
  OBVIOUS
<1>5. /\ c \in Seq(T) /\ Len(c) = Len(tasks) - 1 /\ Len(tasks) \in Nat \ {0}
      /\ \A i \in 1..Len(tasks) - 1 : c[i] = tasks[i + 1]
  BY HeadAndTail DEF Tasks
<1>6. \A j \in 1..K : a[j] = [enters |-> TRUE, id |-> ids[j]]
  BY <1>1
<1> HIDE DEF a, b, c, T, K
<1>7. a \o b \in Seq(T) /\ Joined(a \o b, a, b)
  BY <1>3, <1>4, ConcatPlaces
<1>8. (a \o b) \o c \in Seq(T) /\ Joined((a \o b) \o c, a \o b, c)
  BY <1>5, <1>7, ConcatPlaces
<1>9. PICK ab : ab = a \o b
  OBVIOUS
<1>10. PICK abc : abc = ab \o c
  OBVIOUS
<1>11. Len(ab) = K + 1 /\ Len(abc) = K + Len(tasks)
  <2>1. Len(ab) = Len(a) + Len(b)
    BY <1>7, <1>9 DEF Joined
  <2>2. Len(abc) = Len(ab) + Len(c)
    BY <1>8, <1>9, <1>10 DEF Joined
  <2>3. Len(c) = Len(tasks) - 1 /\ Len(tasks) \in Nat
    BY <1>5
  <2> QED BY <1>1, <1>3, <1>4, <2>1, <2>2, <2>3
<1>12. \A j \in 1..K : abc[j] = [enters |-> TRUE, id |-> ids[j]]
  <2>1. \A j \in 1..K : j \in 1..Len(ab) /\ j \in 1..Len(a)
    BY <1>1, <1>3, <1>11
  <2>2. \A j \in 1..Len(ab) : abc[j] = ab[j]
    BY <1>8, <1>9, <1>10 DEF Joined
  <2>3. \A j \in 1..Len(a) : ab[j] = a[j]
    BY <1>7, <1>9 DEF Joined
  <2> QED BY <1>6, <2>1, <2>2, <2>3
<1>13. abc[K + 1] = [enters |-> FALSE, id |-> id]
  <2>1. K + 1 \in 1..Len(ab) /\ 1 \in 1..Len(b)
    BY <1>1, <1>4, <1>11
  <2>2. abc[K + 1] = ab[K + 1]
    BY <1>8, <1>9, <1>10, <2>1 DEF Joined
  <2>3. ab[K + 1] = b[1]
    BY <1>3, <1>7, <1>9, <2>1 DEF Joined
  <2> QED BY <1>4, <2>2, <2>3
<1>14. ASSUME NEW j \in 2..Len(tasks) PROVE abc[K + j] = tasks[j]
  <2>1. /\ j - 1 \in 1..Len(c) /\ j - 1 \in 1..Len(tasks) - 1
        /\ (K + 1) + (j - 1) = K + j /\ (j - 1) + 1 = j
    BY <1>1, <1>5
  <2>2. abc[Len(ab) + (j - 1)] = c[j - 1]
    BY <1>8, <1>9, <1>10, <2>1 DEF Joined
  <2> QED BY <1>5, <1>11, <2>1, <2>2
<1>15. Entered(tasks, id, ids) = abc
  BY <1>9, <1>10 DEF Entered, a, b, c
<1>16. IsEntered(abc, tasks, id, ids)
  <2>1. ASSUME NEW j \in 1..K PROVE abc[j].enters /\ abc[j].id = ids[j]
    <3>1. abc[j] = [enters |-> TRUE, id |-> ids[j]]
      BY <1>12
    <3>2. abc[j].enters = TRUE
      BY ONLY <3>1
    <3>3. abc[j].id = ids[j]
      BY ONLY <3>1
    <3> QED BY <3>2, <3>3
  <2>2. ~abc[K + 1].enters /\ abc[K + 1].id = id
    BY <1>13
  <2>3. \A j \in 2..Len(tasks) : abc[K + j] = tasks[j]
    BY <1>14
  <2>4. Len(abc) = K + Len(tasks)
    BY <1>11
  <2> QED BY <2>1, <2>2, <2>3, <2>4 DEF IsEntered, K
<1>17. abc \in Tasks
  BY <1>8, <1>9, <1>10 DEF Tasks, T
<1> QED BY <1>15, <1>16, <1>17

LEMMA EnterStack ==
  ASSUME NEW nodes, NEW tops, NEW tasks \in Tasks, NEW road \in Seq(Nat), NEW at,
         Stacked(nodes, tops, tasks, road, at), tasks # << >>, tasks[1].enters,
         NEW ids \in Seq(Nat), ids = ChildrenIn(nodes, tasks[1].id),
         NEW others \in Tasks, IsEntered(others, tasks, tasks[1].id, ids),
         NEW moved, moved = [i \in 1..Len(road) + 1 |-> IF i = Len(road) + 1 THEN Len(ids) + 1
                                                                          ELSE at[i] + Len(ids)]
  PROVE  Stacked(nodes, tops, others, Append(road, tasks[1].id), moved)
<1> DEFINE K == Len(ids)
           n == Len(road)
           m == Len(tasks)
           id == tasks[1].id
<1>1. K \in Nat /\ n \in Nat /\ m \in Nat \ {0} /\ id \in Nat
  <2>1. m \in Nat \ {0}
    BY EmptySeq DEF Tasks
  <2>2. tasks[1] \in [enters : BOOLEAN, id : Nat]
    BY HeadAndTail DEF Tasks
  <2> QED BY <2>1, <2>2
<1>2. PICK p : p = Append(road, id)
  OBVIOUS
<1>3. /\ Len(p) = n + 1 /\ p[n + 1] = id /\ p \in Seq(Nat)
      /\ \A i \in 1..n : p[i] = road[i]
  BY <1>1, <1>2, AppendProperties
<1>4. /\ Len(others) = K + m
      /\ \A j \in 1..K : others[j].enters /\ others[j].id = ids[j]
      /\ ~others[K + 1].enters /\ others[K + 1].id = id
      /\ \A j \in 2..m : others[K + j] = tasks[j]
  BY DEF IsEntered
<1>5. \A i \in 1..n : at[i] \in 1..m /\ at[i] > 1
  <2>1. at \in [1..n -> 1..m]
    BY DEF Stacked
  <2>2. \A i \in 1..n : at[i] > 1
    BY FirstTask
  <2> QED BY <2>1, <2>2
<1>6. /\ moved[n + 1] = K + 1
      /\ \A i \in 1..n : moved[i] = K + at[i]
  BY <1>1, <1>5
<1>7. moved = [i \in 1..n + 1 |-> moved[i]]
  OBVIOUS
<1> HIDE DEF K, n, m, id
<1>8. \A i \in 1..n + 1 : i \in 1..n \/ i = n + 1
  BY <1>1
<1>9. \A j \in 1..K + m : j \in 1..K \/ j = K + 1 \/ (j - K \in 2..m /\ K + (j - K) = j)
  BY <1>1
<1>10. moved \in [1..n + 1 -> 1..K + m]
  <2>1. ASSUME NEW i \in 1..n PROVE moved[i] \in 1..K + m
    <3>1. at[i] \in 1..m /\ moved[i] = K + at[i]
      BY <1>5, <1>6
    <3> QED BY <1>1, <3>1
  <2>2. moved[n + 1] \in 1..K + m
    BY <1>1, <1>6
  <2>3. \A i \in 1..n + 1 : moved[i] \in 1..K + m
    BY <1>8, <2>1, <2>2
  <2> QED BY <1>7, <2>3
<1>11. \A i \in 1..n + 1 : ~others[moved[i]].enters /\ others[moved[i]].id = p[i]
  <2>1. ASSUME NEW i \in 1..n PROVE ~others[moved[i]].enters /\ others[moved[i]].id = p[i]
    <3>1. at[i] \in 1..m /\ at[i] > 1 /\ moved[i] = K + at[i]
      BY <1>5, <1>6
    <3>2. at[i] \in 2..m
      BY <1>1, <3>1
    <3>3. others[moved[i]] = tasks[at[i]]
      BY <1>4, <3>1, <3>2
    <3>4. ~tasks[at[i]].enters /\ tasks[at[i]].id = road[i]
      BY DEF Stacked, n
    <3> QED BY <1>3, <3>3, <3>4
  <2>2. ~others[moved[n + 1]].enters /\ others[moved[n + 1]].id = p[n + 1]
    BY <1>3, <1>4, <1>6
  <2> QED BY <1>8, <2>1, <2>2
<1>12. \A i, k \in 1..n + 1 : i < k => moved[k] < moved[i]
  <2>1. \A i, k \in 1..n : i < k => at[k] < at[i]
    BY DEF Stacked, n
  <2>2. ASSUME NEW i \in 1..n, NEW k \in 1..n, i < k PROVE moved[k] < moved[i]
    <3>1. at[i] \in 1..m /\ at[k] \in 1..m /\ moved[i] = K + at[i] /\ moved[k] = K + at[k]
      BY <1>5, <1>6
    <3>2. at[k] < at[i]
      BY <2>1, <2>2
    <3> QED BY <1>1, <3>1, <3>2
  <2>3. ASSUME NEW i \in 1..n PROVE moved[n + 1] < moved[i]
    <3>1. at[i] \in 1..m /\ at[i] > 1 /\ moved[i] = K + at[i] /\ moved[n + 1] = K + 1
      BY <1>5, <1>6
    <3> QED BY <1>1, <3>1
  <2>4. \A i \in 1..n + 1 : ~(n + 1 < i)
    BY <1>1
  <2> QED BY <1>8, <2>2, <2>3, <2>4
<1>13. ASSUME NEW j \in 1..K + m, ~others[j].enters PROVE \E i \in 1..n + 1 : moved[i] = j
  <2>1. CASE j = K + 1
    <3>1. n + 1 \in 1..n + 1 /\ moved[n + 1] = j
      BY <1>1, <1>6, <2>1
    <3> QED BY <3>1
  <2>2. CASE j - K \in 2..m
    <3>1. ~tasks[j - K].enters /\ j - K \in 1..m
      BY <1>1, <1>4, <1>13, <2>2
    <3>2. PICK i \in 1..n : at[i] = j - K
      BY <3>1 DEF Stacked, n, m
    <3>3. moved[i] = K + at[i] /\ K + (j - K) = j /\ i \in 1..n + 1
      <4>1. moved[i] = K + at[i]
        BY <1>6
      <4> QED BY <1>1, <4>1
    <3>4. i \in 1..n + 1 /\ moved[i] = j
      BY <3>2, <3>3
    <3> QED BY <3>4
  <2> QED BY <1>4, <1>9, <1>13, <2>1, <2>2
<1>14. ASSUME NEW j \in 1..K + m, NEW i \in 1..n + 1, others[j].enters, j < moved[i],
              \A k \in 1..n + 1 : i < k => moved[k] < j
       PROVE  others[j].id \in ToSet(ChildrenIn(nodes, p[i]))
  <2>1. CASE j \in 1..K
    <3>1. i = n + 1
      <4>1. ~(i < n + 1)
        <5>1. SUFFICES ASSUME i < n + 1 PROVE FALSE
          OBVIOUS
        <5>2. K + 1 < j
          <6>1. n + 1 \in 1..n + 1
            BY <1>1
          <6> QED BY <1>6, <1>14, <5>1, <6>1
        <5> QED BY <1>1, <2>1, <5>2
      <4> QED BY <1>1, <4>1
    <3>2. others[j].id = ids[j] /\ p[i] = id
      BY <1>3, <1>4, <2>1, <3>1
    <3>3. ids[j] \in ToSet(ids)
      BY <2>1, ToSetOfSeq DEF K
    <3> QED BY <3>2, <3>3 DEF id
  <2>2. CASE j - K \in 2..m
    <3>1. others[j] = tasks[j - K] /\ j - K \in 1..m
      BY <1>1, <1>4, <2>2
    <3>2. i \in 1..n
      <4>1. i # n + 1
        <5>1. j < moved[i]
          BY <1>14
        <5>2. moved[n + 1] = K + 1
          BY <1>6
        <5>3. ~(j < K + 1)
          BY <1>1, <2>2
        <5> QED BY <5>1, <5>2, <5>3
      <4> QED BY <1>8, <4>1
    <3>3. j - K < at[i] /\ \A k \in 1..n : i < k => at[k] < j - K
      <4>1. j < moved[i] /\ moved[i] = K + at[i] /\ at[i] \in 1..m
        BY <1>5, <1>6, <1>14, <3>2
      <4>2. j - K < at[i]
        BY <1>1, <4>1
      <4>3. ASSUME NEW k \in 1..n, i < k PROVE at[k] < j - K
        <5>1. k \in 1..n + 1
          BY <1>1
        <5>2. moved[k] < j /\ moved[k] = K + at[k] /\ at[k] \in 1..m
          BY <1>5, <1>6, <1>14, <4>3, <5>1
        <5> QED BY <1>1, <5>2
      <4> QED BY <4>2, <4>3
    <3>4. tasks[j - K].id \in ToSet(ChildrenIn(nodes, road[i]))
      BY <1>14, <3>1, <3>2, <3>3 DEF Stacked, n, m
    <3> QED BY <1>3, <3>1, <3>2, <3>4
  <2> QED BY <1>4, <1>9, <1>14, <2>1, <2>2
<1>15. ASSUME NEW j \in 1..K + m, others[j].enters, \A k \in 1..n + 1 : moved[k] < j
       PROVE  others[j].id \in tops
  <2>1. moved[n + 1] < j
    <3>1. n + 1 \in 1..n + 1
      BY <1>1
    <3> QED BY <1>15, <3>1
  <2>2. j - K \in 2..m
    BY <1>1, <1>6, <1>9, <2>1
  <2>3. others[j] = tasks[j - K] /\ j - K \in 1..m
    BY <1>1, <1>4, <2>2
  <2>4. ASSUME NEW k \in 1..n PROVE at[k] < j - K
    <3>1. k \in 1..n + 1
      BY <1>1
    <3>2. moved[k] < j /\ moved[k] = K + at[k] /\ at[k] \in 1..m
      BY <1>5, <1>6, <1>15, <3>1
    <3> QED BY <1>1, <3>2
  <2> QED BY <1>15, <2>3, <2>4 DEF Stacked, n, m
<1>16. Stacked(nodes, tops, others, p, moved)
  <2>1. Len(p) = n + 1 /\ Len(others) = K + m
    BY <1>3, <1>4
  <2>2. /\ \A j \in 1..K + m : ~others[j].enters => \E i \in 1..n + 1 : moved[i] = j
        /\ \A j \in 1..K + m, i \in 1..n + 1 :
             /\ others[j].enters /\ j < moved[i]
             /\ \A k \in 1..n + 1 : i < k => moved[k] < j
             => others[j].id \in ToSet(ChildrenIn(nodes, p[i]))
        /\ \A j \in 1..K + m :
             others[j].enters /\ (\A k \in 1..n + 1 : moved[k] < j) => others[j].id \in tops
    BY <1>13, <1>14, <1>15
  <2> HIDE DEF Tasks
  <2> QED BY <1>10, <1>11, <1>12, <2>1, <2>2, Zenon DEF Stacked
<1> QED BY <1>2, <1>16 DEF id

LEMMA SkipStack ==
  ASSUME NEW nodes, NEW tops, NEW tasks \in Tasks, NEW road \in Seq(Nat), NEW at,
         Stacked(nodes, tops, tasks, road, at), tasks # << >>, tasks[1].enters
  PROVE  Stacked(nodes, tops, Tail(tasks), road, [i \in 1..Len(road) |-> at[i] - 1])
<1> DEFINE n == Len(road)
           m == Len(tasks)
           moved == [i \in 1..n |-> at[i] - 1]
<1>1. PICK others : others = Tail(tasks)
  OBVIOUS
<1>2. /\ n \in Nat /\ m \in Nat \ {0} /\ Len(others) = m - 1
      /\ \A i \in 1..m - 1 : others[i] = tasks[i + 1]
  BY <1>1, HeadAndTail DEF Tasks
<1>3. \A i \in 1..n : at[i] \in 2..m /\ moved[i] = at[i] - 1
  <2>1. \A i \in 1..n : at[i] \in 1..m /\ at[i] > 1
    <3>1. at \in [1..n -> 1..m]
      BY DEF Stacked
    <3>2. \A i \in 1..n : at[i] > 1
      BY FirstTask
    <3> QED BY <3>1, <3>2
  <2> QED BY <1>2, <2>1
<1>4. moved = [i \in 1..n |-> moved[i]]
  OBVIOUS
<1> HIDE DEF n, m, moved
<1>5. \A j \in 1..m - 1 : j + 1 \in 1..m /\ others[j] = tasks[j + 1]
  BY <1>2
<1>6. ASSUME NEW i \in 1..n PROVE moved[i] \in 1..m - 1 /\ moved[i] + 1 = at[i]
  <2>1. at[i] \in 2..m /\ moved[i] = at[i] - 1
    BY <1>3
  <2>2. m \in Nat
    BY <1>2
  <2> HIDE DEF m
  <2> QED BY <2>1, <2>2
<1>7. moved \in [1..n -> 1..m - 1]
  BY <1>4, <1>6
<1>8. \A i \in 1..n : ~others[moved[i]].enters /\ others[moved[i]].id = road[i]
  BY <1>5, <1>6 DEF Stacked, n
<1>9. \A i, k \in 1..n : i < k => moved[k] < moved[i]
  <2>1. \A i, k \in 1..n : i < k => at[k] < at[i]
    BY DEF Stacked, n
  <2> QED BY <1>2, <1>3, <2>1
<1>10. ASSUME NEW j \in 1..m - 1, ~others[j].enters PROVE \E i \in 1..n : moved[i] = j
  <2>1. PICK i \in 1..n : at[i] = j + 1
    BY <1>5, <1>10 DEF Stacked, n, m
  <2> QED BY <1>3, <2>1
<1>11. ASSUME NEW j \in 1..m - 1, NEW i \in 1..n, others[j].enters, j < moved[i],
              \A k \in 1..n : i < k => moved[k] < j
       PROVE  others[j].id \in ToSet(ChildrenIn(nodes, road[i]))
  <2>1. j + 1 < at[i] /\ \A k \in 1..n : i < k => at[k] < j + 1
    <3>1. j < moved[i] /\ moved[i] = at[i] - 1 /\ at[i] \in 2..m
      BY <1>3, <1>11
    <3>2. j + 1 < at[i]
      BY <1>2, <3>1
    <3>3. ASSUME NEW k \in 1..n, i < k PROVE at[k] < j + 1
      <4>1. moved[k] < j /\ moved[k] = at[k] - 1 /\ at[k] \in 2..m
        BY <1>3, <1>11, <3>3
      <4> QED BY <1>2, <4>1
    <3> QED BY <3>2, <3>3
  <2> QED BY <1>5, <1>11, <2>1 DEF Stacked, n, m
<1>12. ASSUME NEW j \in 1..m - 1, others[j].enters, \A k \in 1..n : moved[k] < j
       PROVE  others[j].id \in tops
  <2>1. ASSUME NEW k \in 1..n PROVE at[k] < j + 1
    <3>1. moved[k] < j /\ moved[k] = at[k] - 1 /\ at[k] \in 2..m
      BY <1>3, <1>12
    <3> QED BY <1>2, <3>1
  <2> QED BY <1>5, <1>12, <2>1 DEF Stacked, n, m
<1>13. Stacked(nodes, tops, others, road, moved)
  BY <1>2, <1>7, <1>8, <1>9, <1>10, <1>11, <1>12 DEF Stacked, n
<1> QED BY <1>1, <1>13 DEF moved, n

LEMMA FrontOfPath ==
  ASSUME NEW S, NEW road \in Seq(S), road # << >>
  PROVE  /\ Front(road) \in Seq(S) /\ Len(Front(road)) = Len(road) - 1 /\ Len(road) \in Nat \ {0}
         /\ \A i \in 1..Len(road) - 1 : Front(road)[i] = road[i]
         /\ ToSet(road) = ToSet(Front(road)) \cup {road[Len(road)]}
<1>1. Len(road) \in Nat \ {0}
  BY EmptySeq
<1>2. PICK n \in Nat : Len(road) = n + 1
  <2>1. Len(road) - 1 \in Nat /\ Len(road) = (Len(road) - 1) + 1
    BY <1>1
  <2> QED BY <2>1
<1>3. PICK front : front = Front(road)
  OBVIOUS
<1>4. front = SubSeq(road, 1, n)
  BY <1>2, <1>3 DEF Front
<1>5. front \in Seq(S) /\ IsPart(front, road, 0, n)
  <2>1. 0 + 1 = 1 /\ 0 + n = n /\ 0 + n <= Len(road)
    BY <1>2
  <2> QED BY <1>4, <2>1, PartOfSeq
<1>6. Len(front) = n /\ \A i \in 1..n : front[i] = road[i]
  BY <1>5 DEF IsPart
<1>7. ToSet(road) = {road[i] : i \in 1..n + 1} /\ ToSet(front) = {front[i] : i \in 1..n}
  BY <1>2, <1>5, <1>6, ToSetOfSeq
<1>8. \A i \in 1..n + 1 : i \in 1..n \/ i = n + 1
  OBVIOUS
<1>9. n + 1 \in 1..n + 1 /\ \A i \in 1..n : i \in 1..n + 1
  OBVIOUS
<1>10. ToSet(road) = ToSet(front) \cup {road[n + 1]}
  BY <1>6, <1>7, <1>8, <1>9
<1> QED BY <1>1, <1>2, <1>3, <1>5, <1>6, <1>10

LEMMA ReturnStack ==
  ASSUME NEW nodes, NEW tops, NEW tasks \in Tasks, NEW road \in Seq(Nat), NEW at,
         Stacked(nodes, tops, tasks, road, at), tasks # << >>, ~tasks[1].enters
  PROVE  Stacked(nodes, tops, Tail(tasks), Front(road), [i \in 1..Len(road) - 1 |-> at[i] - 1])
<1> DEFINE n == Len(road) - 1
           m == Len(tasks)
           moved == [i \in 1..n |-> at[i] - 1]
<1>1. PICK others : others = Tail(tasks)
  OBVIOUS
<1>2. /\ m \in Nat \ {0} /\ Len(others) = m - 1
      /\ \A i \in 1..m - 1 : others[i] = tasks[i + 1]
  BY <1>1, HeadAndTail DEF Tasks
<1>3. road # << >> /\ at[Len(road)] = 1 /\ \A i \in 1..n : at[i] > 1
  BY FirstTask
<1>4. PICK front : front = Front(road)
  OBVIOUS
<1>5. n \in Nat /\ Len(road) = n + 1 /\ Len(front) = n /\ \A i \in 1..n : front[i] = road[i]
  <2>1. /\ Len(road) \in Nat \ {0} /\ Len(front) = Len(road) - 1
        /\ \A i \in 1..Len(road) - 1 : front[i] = road[i]
    <3>1. road \in Seq(Nat) /\ road # << >>
      BY <1>3
    <3> QED BY ONLY <1>4, <3>1, FrontOfPath
  <2>2. (Len(road) - 1) + 1 = Len(road) /\ Len(road) - 1 \in Nat
    BY ONLY <2>1
  <2> QED BY ONLY <2>1, <2>2
<1>6. \A i \in 1..n : at[i] \in 2..m /\ moved[i] = at[i] - 1
  <2>1. \A i \in 1..n : i \in 1..Len(road)
    BY <1>5
  <2>2. ASSUME NEW i \in 1..n PROVE at[i] \in 2..m /\ moved[i] = at[i] - 1
    <3>1. at[i] \in 1..m
      BY <2>1 DEF Stacked
    <3> QED BY <1>2, <1>3, <3>1
  <2> QED BY <2>2
<1>7. moved = [i \in 1..n |-> moved[i]]
  OBVIOUS
<1> HIDE DEF n, m, moved
<1>8. \A j \in 1..m - 1 : j + 1 \in 1..m /\ others[j] = tasks[j + 1] /\ 1 < j + 1 /\ j + 1 # 1
  BY <1>2
<1>9. \A i \in 1..n : moved[i] \in 1..m - 1 /\ moved[i] + 1 = at[i] /\ i \in 1..Len(road)
  <2>1. ASSUME NEW i \in 1..n PROVE moved[i] \in 1..m - 1 /\ moved[i] + 1 = at[i]
    <3>1. at[i] \in 2..m /\ moved[i] = at[i] - 1
      BY <1>6
    <3> QED BY <1>2, <3>1
  <2>2. \A i \in 1..n : i \in 1..Len(road)
    BY <1>5
  <2> QED BY <2>1, <2>2
<1>10. \A i \in 1..Len(road) : i \in 1..n \/ (i = Len(road) /\ at[i] = 1)
  BY <1>3, <1>5
<1>11. moved \in [1..n -> 1..m - 1]
  BY <1>7, <1>9
<1>12. \A i \in 1..n : ~others[moved[i]].enters /\ others[moved[i]].id = front[i]
  <2>1. \A i \in 1..n : ~tasks[at[i]].enters /\ tasks[at[i]].id = road[i]
    BY <1>9 DEF Stacked
  <2> QED BY <1>5, <1>8, <1>9, <2>1
<1>13. \A i, k \in 1..n : i < k => moved[k] < moved[i]
  <2>1. \A i, k \in 1..n : i < k => at[k] < at[i]
    BY <1>9 DEF Stacked
  <2> QED BY <1>2, <1>6, <2>1
<1>14. ASSUME NEW j \in 1..m - 1, ~others[j].enters PROVE \E i \in 1..n : moved[i] = j
  <2>1. PICK i \in 1..Len(road) : at[i] = j + 1
    BY <1>8, <1>14 DEF Stacked, m
  <2>2. i \in 1..n
    BY <1>8, <1>10, <2>1
  <2> QED BY <1>6, <2>1, <2>2
<1>15. ASSUME NEW j \in 1..m - 1, NEW i \in 1..n, others[j].enters, j < moved[i],
              \A k \in 1..n : i < k => moved[k] < j
       PROVE  others[j].id \in ToSet(ChildrenIn(nodes, front[i]))
  <2>1. j + 1 < at[i] /\ \A k \in 1..n : i < k => at[k] < j + 1
    <3>1. j < moved[i] /\ moved[i] = at[i] - 1 /\ at[i] \in 2..m
      BY <1>6, <1>15
    <3>2. j + 1 < at[i]
      BY <1>2, <3>1
    <3>3. ASSUME NEW k \in 1..n, i < k PROVE at[k] < j + 1
      <4>1. moved[k] < j /\ moved[k] = at[k] - 1 /\ at[k] \in 2..m
        BY <1>6, <1>15, <3>3
      <4> QED BY <1>2, <4>1
    <3> QED BY <3>2, <3>3
  <2>2. \A k \in 1..Len(road) : i < k => at[k] < j + 1
    BY <1>8, <1>10, <2>1
  <2>3. tasks[j + 1].id \in ToSet(ChildrenIn(nodes, road[i]))
    BY <1>8, <1>9, <1>15, <2>1, <2>2 DEF Stacked, m
  <2> QED BY <1>5, <1>8, <2>3
<1>16. ASSUME NEW j \in 1..m - 1, others[j].enters, \A k \in 1..n : moved[k] < j
       PROVE  others[j].id \in tops
  <2>1. ASSUME NEW k \in 1..n PROVE at[k] < j + 1
    <3>1. moved[k] < j /\ moved[k] = at[k] - 1 /\ at[k] \in 2..m
      BY <1>6, <1>16
    <3> QED BY <1>2, <3>1
  <2>2. \A k \in 1..Len(road) : at[k] < j + 1
    BY <1>8, <1>10, <2>1
  <2> QED BY <1>8, <1>16, <2>2 DEF Stacked, m
<1>17. Stacked(nodes, tops, others, front, moved)
  BY <1>2, <1>5, <1>11, <1>12, <1>13, <1>14, <1>15, <1>16 DEF Stacked
<1> QED BY <1>1, <1>4, <1>17 DEF moved, n

(* A task at place j belongs to the call for path[i].                      *)
Owned(road, at, i, j) == j < at[i] /\ \A k \in 1..Len(road) : i < k => at[k] < j

(* What is still to be seen below the nodes on the path has a task.        *)
Open(nodes, tasks, road, at, done) ==
  \A i \in 1..Len(road) : \A c \in ToSet(ChildrenIn(nodes, road[i])) :
    \/ c \in done
    \/ i + 1 \in 1..Len(road) /\ c = road[i + 1]
    \/ \E j \in 1..Len(tasks) : tasks[j].enters /\ tasks[j].id = c /\ Owned(road, at, i, j)

LEMMA EnterOpen ==
  ASSUME NEW nodes, NEW tops, NEW tasks \in Tasks, NEW road \in Seq(Nat), NEW at, NEW done,
         Stacked(nodes, tops, tasks, road, at), tasks # << >>, tasks[1].enters,
         NEW ids \in Seq(Nat), ids = ChildrenIn(nodes, tasks[1].id),
         NEW others \in Tasks, IsEntered(others, tasks, tasks[1].id, ids),
         NEW moved, moved = [i \in 1..Len(road) + 1 |-> IF i = Len(road) + 1 THEN Len(ids) + 1
                                                                          ELSE at[i] + Len(ids)],
         Open(nodes, tasks, road, at, done)
  PROVE  Open(nodes, others, Append(road, tasks[1].id), moved, done)
<1> DEFINE K == Len(ids)
           n == Len(road)
           m == Len(tasks)
           id == tasks[1].id
<1>1. K \in Nat /\ n \in Nat /\ m \in Nat \ {0} /\ id \in Nat
  <2>1. m \in Nat \ {0}
    BY EmptySeq DEF Tasks
  <2>2. tasks[1] \in [enters : BOOLEAN, id : Nat]
    BY HeadAndTail DEF Tasks
  <2> QED BY <2>1, <2>2
<1>2. PICK p : p = Append(road, id)
  OBVIOUS
<1>3. /\ Len(p) = n + 1 /\ p[n + 1] = id
      /\ \A i \in 1..n : p[i] = road[i]
  BY <1>1, <1>2, AppendProperties
<1>4. /\ Len(others) = K + m
      /\ \A j \in 1..K : others[j].enters /\ others[j].id = ids[j]
      /\ \A j \in 2..m : others[K + j] = tasks[j]
  BY DEF IsEntered
<1>5. \A i \in 1..n : at[i] \in 1..m /\ at[i] > 1
  <2>1. at \in [1..n -> 1..m]
    BY DEF Stacked
  <2>2. \A i \in 1..n : at[i] > 1
    BY FirstTask
  <2> QED BY <2>1, <2>2
<1>6. /\ moved[n + 1] = K + 1
      /\ \A i \in 1..n : moved[i] = K + at[i]
  BY <1>1, <1>5
<1>7. ids = ChildrenIn(nodes, id)
  OBVIOUS
<1> HIDE DEF K, n, m, id
<1>8. \A i \in 1..n + 1 : i \in 1..n \/ i = n + 1
  BY <1>1
<1>9. ASSUME NEW c \in ToSet(ids)
      PROVE  \E j \in 1..K + m : others[j].enters /\ others[j].id = c /\ Owned(p, moved, n + 1, j)
  <2>1. PICK j \in 1..K : ids[j] = c
    <3>1. ToSet(ids) = {ids[i] : i \in 1..Len(ids)}
      BY ToSetOfSeq
    <3> QED BY <1>9, <3>1 DEF K
  <2>2. j \in 1..K + m /\ j < K + 1 /\ \A k \in 1..n + 1 : ~(n + 1 < k)
    BY <1>1
  <2>3. Owned(p, moved, n + 1, j)
    BY <1>3, <1>6, <2>2 DEF Owned
  <2> QED BY <1>4, <2>1, <2>2, <2>3
<1>10. ASSUME NEW i \in 1..n, NEW j \in 1..m, j # 1, Owned(road, at, i, j)
       PROVE  K + j \in 1..K + m /\ others[K + j] = tasks[j] /\ Owned(p, moved, i, K + j)
  <2>1. j \in 2..m /\ K + j \in 1..K + m
    BY <1>1, <1>10
  <2>2. K + j < moved[i]
    <3>1. j < at[i] /\ at[i] \in 1..m /\ moved[i] = K + at[i]
      BY <1>5, <1>6, <1>10 DEF Owned
    <3> QED BY <1>1, <3>1
  <2>3. ASSUME NEW k \in 1..n, i < k PROVE moved[k] < K + j
    <3>1. at[k] < j /\ at[k] \in 1..m /\ moved[k] = K + at[k]
      BY <1>5, <1>6, <1>10, <2>3 DEF Owned, n
    <3> QED BY <1>1, <3>1
  <2>4. moved[n + 1] < K + j
    BY <1>1, <1>6, <2>1
  <2> QED BY <1>3, <1>4, <1>8, <2>1, <2>2, <2>3, <2>4 DEF Owned
<1>11. ASSUME NEW i \in 1..n + 1, NEW c \in ToSet(ChildrenIn(nodes, p[i]))
       PROVE  \/ c \in done
              \/ i + 1 \in 1..n + 1 /\ c = p[i + 1]
              \/ \E j \in 1..K + m : others[j].enters /\ others[j].id = c /\ Owned(p, moved, i, j)
  <2>1. CASE i = n + 1
    BY <1>3, <1>7, <1>9, <2>1
  <2>2. CASE i \in 1..n
    <3>1. c \in ToSet(ChildrenIn(nodes, road[i]))
      BY <1>3, <2>2
    <3>2. \/ c \in done
          \/ i + 1 \in 1..n /\ c = road[i + 1]
          \/ \E j \in 1..m : tasks[j].enters /\ tasks[j].id = c /\ Owned(road, at, i, j)
      BY <2>2, <3>1 DEF Open, n, m
    <3>3. CASE i + 1 \in 1..n /\ c = road[i + 1]
      <4>1. i + 1 \in 1..n + 1
        BY <1>1, <3>3
      <4> QED BY <1>3, <3>3, <4>1
    <3>4. ASSUME NEW j \in 1..m, tasks[j].enters, tasks[j].id = c, Owned(road, at, i, j), j # 1
          PROVE  \E e \in 1..K + m : others[e].enters /\ others[e].id = c /\ Owned(p, moved, i, e)
      BY <1>10, <2>2, <3>4
    <3>5. ASSUME tasks[1].id = c, Owned(road, at, i, 1)
          PROVE  i + 1 \in 1..n + 1 /\ c = p[i + 1]
      <4>1. ~(i < n)
        <5>1. SUFFICES ASSUME i < n PROVE FALSE
          OBVIOUS
        <5>2. n \in 1..n
          BY <1>1, <2>2
        <5>3. at[n] < 1 /\ at[n] > 1 /\ at[n] \in 1..m
          BY <1>5, <3>5, <5>1, <5>2 DEF Owned, n
        <5> QED BY <1>1, <5>3
      <4>2. i = n
        BY <1>1, <2>2, <4>1
      <4>3. n + 1 \in 1..n + 1
        BY <1>1
      <4> QED BY <1>3, <3>5, <4>2, <4>3 DEF id
    <3> QED BY <3>2, <3>3, <3>4, <3>5
  <2> QED BY <1>8, <2>1, <2>2
<1>12. Open(nodes, others, p, moved, done)
  BY <1>3, <1>4, <1>11 DEF Open
<1> QED BY <1>2, <1>12 DEF id

LEMMA SkipOpen ==
  ASSUME NEW nodes, NEW tops, NEW tasks \in Tasks, NEW road \in Seq(Nat), NEW at, NEW done,
         Stacked(nodes, tops, tasks, road, at), tasks # << >>, tasks[1].enters,
         Open(nodes, tasks, road, at, done), tasks[1].id \in done
  PROVE  Open(nodes, Tail(tasks), road, [i \in 1..Len(road) |-> at[i] - 1], done)
<1> DEFINE n == Len(road)
           m == Len(tasks)
           moved == [i \in 1..n |-> at[i] - 1]
<1>1. PICK others : others = Tail(tasks)
  OBVIOUS
<1>2. /\ n \in Nat /\ m \in Nat \ {0} /\ Len(others) = m - 1
      /\ \A i \in 1..m - 1 : others[i] = tasks[i + 1]
  BY <1>1, HeadAndTail DEF Tasks
<1>3. \A i \in 1..n : at[i] \in 1..m /\ moved[i] = at[i] - 1
  BY DEF Stacked
<1> HIDE DEF n, m, moved
<1>4. ASSUME NEW i \in 1..n, NEW j \in 1..m, j # 1, Owned(road, at, i, j)
      PROVE  j - 1 \in 1..m - 1 /\ others[j - 1] = tasks[j] /\ Owned(road, moved, i, j - 1)
  <2>1. j - 1 \in 1..m - 1 /\ (j - 1) + 1 = j
    BY <1>2, <1>4
  <2>2. j - 1 < moved[i]
    <3>1. j < at[i] /\ at[i] \in 1..m /\ moved[i] = at[i] - 1
      BY <1>3, <1>4 DEF Owned
    <3> QED BY <1>2, <3>1
  <2>3. ASSUME NEW k \in 1..n, i < k PROVE moved[k] < j - 1
    <3>1. at[k] < j /\ at[k] \in 1..m /\ moved[k] = at[k] - 1
      BY <1>3, <1>4, <2>3 DEF Owned, n
    <3> QED BY <1>2, <3>1
  <2> QED BY <1>2, <2>1, <2>2, <2>3 DEF Owned, n
<1>5. ASSUME NEW i \in 1..n, NEW c \in ToSet(ChildrenIn(nodes, road[i]))
      PROVE  \/ c \in done
             \/ i + 1 \in 1..n /\ c = road[i + 1]
             \/ \E j \in 1..m - 1 : others[j].enters /\ others[j].id = c /\ Owned(road, moved, i, j)
  <2>1. \/ c \in done
        \/ i + 1 \in 1..n /\ c = road[i + 1]
        \/ \E j \in 1..m : tasks[j].enters /\ tasks[j].id = c /\ Owned(road, at, i, j)
    BY DEF Open, n, m
  <2>2. ASSUME NEW j \in 1..m, tasks[j].enters, tasks[j].id = c, Owned(road, at, i, j), j # 1
        PROVE  \E e \in 1..m - 1 : others[e].enters /\ others[e].id = c /\ Owned(road, moved, i, e)
    BY <1>4, <2>2
  <2> QED BY <2>1, <2>2
<1>6. Open(nodes, others, road, moved, done)
  BY <1>2, <1>5 DEF Open, n
<1> QED BY <1>1, <1>6 DEF moved, n

LEMMA ReturnOpen ==
  ASSUME NEW nodes, NEW tops, NEW tasks \in Tasks, NEW road \in Seq(Nat), NEW at, NEW done, NEW then,
         Stacked(nodes, tops, tasks, road, at), tasks # << >>, ~tasks[1].enters,
         Open(nodes, tasks, road, at, done), done \cup {tasks[1].id} \subseteq then
  PROVE  /\ Open(nodes, Tail(tasks), Front(road), [i \in 1..Len(road) - 1 |-> at[i] - 1], then)
         /\ ToSet(ChildrenIn(nodes, tasks[1].id)) \subseteq done
<1> DEFINE n == Len(road) - 1
           m == Len(tasks)
           moved == [i \in 1..n |-> at[i] - 1]
<1>1. PICK others : others = Tail(tasks)
  OBVIOUS
<1>2. /\ m \in Nat \ {0} /\ Len(others) = m - 1
      /\ \A i \in 1..m - 1 : others[i] = tasks[i + 1]
  BY <1>1, HeadAndTail DEF Tasks
<1>3. road # << >> /\ at[Len(road)] = 1 /\ tasks[1].id = road[Len(road)]
  BY FirstTask
<1>4. PICK front : front = Front(road)
  OBVIOUS
<1>5. n \in Nat /\ Len(road) = n + 1 /\ Len(front) = n /\ \A i \in 1..n : front[i] = road[i]
  <2>1. /\ Len(road) \in Nat \ {0} /\ Len(front) = Len(road) - 1
        /\ \A i \in 1..Len(road) - 1 : front[i] = road[i]
    <3>1. road \in Seq(Nat) /\ road # << >>
      BY <1>3
    <3> QED BY ONLY <1>4, <3>1, FrontOfPath
  <2>2. (Len(road) - 1) + 1 = Len(road) /\ Len(road) - 1 \in Nat
    BY ONLY <2>1
  <2> QED BY ONLY <2>1, <2>2
<1>6. \A i \in 1..n + 1 : at[i] \in 1..m
  BY <1>5 DEF Stacked
<1>7. \A i \in 1..n : i \in 1..n + 1 /\ moved[i] = at[i] - 1
  BY <1>5
<1> HIDE DEF n, m, moved
<1>8. n + 1 \in 1..n + 1
  BY <1>5
<1>9. ToSet(ChildrenIn(nodes, tasks[1].id)) \subseteq done
  <2>1. SUFFICES ASSUME NEW c \in ToSet(ChildrenIn(nodes, road[n + 1])), c \notin done PROVE FALSE
    BY <1>3, <1>5
  <2>2. ~((n + 1) + 1 \in 1..n + 1)
    BY <1>5
  <2>3. PICK j \in 1..m : Owned(road, at, n + 1, j)
    BY <1>5, <1>8, <2>1, <2>2 DEF Open, m
  <2>4. j < 1
    BY <1>3, <1>5, <2>3 DEF Owned
  <2> QED BY <1>2, <2>4
<1>10. ASSUME NEW i \in 1..n, NEW j \in 1..m, Owned(road, at, i, j)
       PROVE  j - 1 \in 1..m - 1 /\ others[j - 1] = tasks[j] /\ Owned(front, moved, i, j - 1)
  <2>1. i < n + 1
    BY <1>5
  <2>2. 1 < j
    BY <1>3, <1>5, <1>8, <1>10, <2>1 DEF Owned
  <2>3. j - 1 \in 1..m - 1 /\ (j - 1) + 1 = j
    BY <1>2, <2>2
  <2>4. j - 1 < moved[i]
    <3>1. j < at[i] /\ at[i] \in 1..m /\ moved[i] = at[i] - 1
      BY <1>6, <1>7, <1>10 DEF Owned
    <3> QED BY <1>2, <3>1
  <2>5. ASSUME NEW k \in 1..n, i < k PROVE moved[k] < j - 1
    <3>1. at[k] < j /\ at[k] \in 1..m /\ moved[k] = at[k] - 1
      BY <1>5, <1>6, <1>7, <1>10, <2>5 DEF Owned
    <3> QED BY <1>2, <3>1
  <2> QED BY <1>2, <1>5, <2>3, <2>4, <2>5 DEF Owned
<1>11. ASSUME NEW i \in 1..n, NEW c \in ToSet(ChildrenIn(nodes, front[i]))
       PROVE  \/ c \in then
              \/ i + 1 \in 1..n /\ c = front[i + 1]
              \/ \E j \in 1..m - 1 : others[j].enters /\ others[j].id = c /\ Owned(front, moved, i, j)
  <2>1. \/ c \in done
        \/ i + 1 \in 1..n + 1 /\ c = road[i + 1]
        \/ \E j \in 1..m : tasks[j].enters /\ tasks[j].id = c /\ Owned(road, at, i, j)
    BY <1>5, <1>7 DEF Open, m
  <2>2. CASE i + 1 \in 1..n + 1 /\ c = road[i + 1]
    <3>1. i + 1 \in 1..n \/ i + 1 = n + 1
      BY <1>5
    <3>2. i + 1 = n + 1 => c \in then
      BY <1>3, <1>5, <2>2
    <3> QED BY <1>5, <2>2, <3>1, <3>2
  <2>3. ASSUME NEW j \in 1..m, tasks[j].enters, tasks[j].id = c, Owned(road, at, i, j)
        PROVE  \E e \in 1..m - 1 : others[e].enters /\ others[e].id = c /\ Owned(front, moved, i, e)
    BY <1>10, <2>3
  <2> QED BY <2>1, <2>2, <2>3
<1>12. Open(nodes, others, front, moved, then)
  BY <1>2, <1>5, <1>11 DEF Open
<1> QED BY <1>1, <1>4, <1>9, <1>12 DEF moved, n

Linked(nodes, s) == \A i \in 1..Len(s) - 1 : s[i + 1] \in ToSet(ChildrenIn(nodes, s[i]))
ToEnter(tasks) == {tasks[j].id : j \in {i \in 1..Len(tasks) : tasks[i].enters}}

(* A recursion that started from tops: the nodes on the path are distinct, *)
(* follow links from one of them and are not done with.                    *)
Walk(nodes, tops, tasks, road, past, at) ==
  /\ tasks \in Tasks /\ road \in Seq(Nat) /\ past \subseteq Nat
  /\ Stacked(nodes, tops, tasks, road, at)
  /\ NoRepeats(road) /\ ToSet(road) \cap past = {}
  /\ Linked(nodes, road)
  /\ road # << >> => road[1] \in tops
  /\ tops \subseteq past \cup ToSet(road) \cup ToEnter(tasks)

LEMMA WalkStarts ==
  ASSUME NEW nodes, NEW ids \in Seq(Nat), NEW tasks, tasks = [i \in DOMAIN ids |-> Enter(ids[i])]
  PROVE  /\ Walk(nodes, ToSet(ids), tasks, << >>, {}, << >>)
         /\ \A done : Open(nodes, tasks, << >>, << >>, done)
<1> DEFINE T == [enters : BOOLEAN, id : Nat]
<1>1. Len(ids) \in Nat /\ ids \in [1..Len(ids) -> Nat] /\ DOMAIN ids = 1..Len(ids)
  BY LenProperties
<1>2. tasks = [i \in 1..Len(ids) |-> [enters |-> TRUE, id |-> ids[i]]]
  BY <1>1 DEF Enter
<1>3. tasks \in [1..Len(ids) -> T]
  <2>1. \A i \in 1..Len(ids) : [enters |-> TRUE, id |-> ids[i]] \in T
    BY <1>1
  <2> HIDE DEF T
  <2> QED BY <1>2, <2>1
<1>4. tasks \in Tasks /\ Len(tasks) = Len(ids)
  <2> HIDE DEF T
  <2>1. tasks \in Seq(T) /\ Len(tasks) = Len(ids)
    BY <1>1, <1>3, FunctionIsSeq
  <2> QED BY <2>1 DEF Tasks, T
<1>5. ASSUME NEW j \in 1..Len(ids) PROVE tasks[j].enters /\ tasks[j].id = ids[j]
  <2>1. tasks[j] = [enters |-> TRUE, id |-> ids[j]]
    BY <1>2
  <2>2. tasks[j].enters = TRUE
    BY ONLY <2>1
  <2>3. tasks[j].id = ids[j]
    BY ONLY <2>1
  <2> QED BY <2>2, <2>3
<1>6. ToSet(ids) = {ids[i] : i \in 1..Len(ids)}
  BY ToSetOfSeq
<1>7. ToSet(ids) \subseteq ToEnter(tasks)
  <2> SUFFICES ASSUME NEW i \in 1..Len(ids) PROVE ids[i] \in ToEnter(tasks)
    BY <1>6
  <2>1. i \in 1..Len(tasks) /\ tasks[i].enters /\ tasks[i].id = ids[i]
    BY <1>4, <1>5
  <2> QED BY <2>1 DEF ToEnter
<1>8. \A j \in 1..Len(ids) : tasks[j].id \in ToSet(ids)
  BY <1>5, <1>6
<1>9. PICK none \in Seq(Nat) : none = << >> /\ Len(none) = 0 /\ 1..Len(none) = {} /\ ToSet(none) = {}
  <2>1. << >> \in Seq(Nat) /\ Len(<< >>) = 0 /\ 1..Len(<< >>) = {} /\ ToSet(<< >>) = {}
    BY EmptySeq DEF ToSet
  <2> QED BY <2>1
<1>10. none \in [{} -> 1..Len(ids)]
  BY <1>9
<1>11. Stacked(nodes, ToSet(ids), tasks, none, none)
  BY <1>4, <1>5, <1>8, <1>9, <1>10 DEF Stacked
<1>12. NoRepeats(none) /\ Linked(nodes, none)
  BY <1>9 DEF NoRepeats, Linked
<1>13. Walk(nodes, ToSet(ids), tasks, none, {}, none)
  BY <1>4, <1>7, <1>9, <1>11, <1>12 DEF Walk
<1>14. \A done : Open(nodes, tasks, none, none, done)
  BY <1>9 DEF Open
<1> QED BY <1>9, <1>13, <1>14

LEMMA AppendToPath ==
  ASSUME NEW nodes, NEW road \in Seq(Nat), NEW id \in Nat, NoRepeats(road), id \notin ToSet(road),
         Linked(nodes, road), road # << >> => id \in ToSet(ChildrenIn(nodes, road[Len(road)]))
  PROVE  /\ Append(road, id) \in Seq(Nat) /\ Append(road, id) # << >>
         /\ NoRepeats(Append(road, id)) /\ Linked(nodes, Append(road, id))
         /\ ToSet(Append(road, id)) = ToSet(road) \cup {id}
         /\ road # << >> => Append(road, id)[1] = road[1]
         /\ road = << >> => Append(road, id)[1] = id
<1> DEFINE n == Len(road)
<1>1. n \in Nat /\ (road # << >> => n \in Nat \ {0}) /\ (road = << >> => n = 0)
  BY EmptySeq
<1>2. PICK p : p = Append(road, id)
  OBVIOUS
<1>3. /\ p \in Seq(Nat) /\ Len(p) = n + 1 /\ p[n + 1] = id
      /\ \A i \in 1..n : p[i] = road[i]
  BY <1>2, AppendProperties
<1>4. \A i \in 1..n + 1 : i \in 1..n \/ i = n + 1
  BY <1>1
<1>5. \A i \in 1..n : road[i] # id
  BY ToSetOfSeq
<1>6. NoRepeats(p)
  BY <1>3, <1>4, <1>5 DEF NoRepeats
<1>7. ASSUME NEW i \in 1..n PROVE p[i + 1] \in ToSet(ChildrenIn(nodes, p[i]))
  <2>1. CASE i = n
    BY <1>1, <1>3, <2>1
  <2>2. CASE i # n
    <3>1. i \in 1..n - 1 /\ i + 1 \in 1..n
      BY <1>1, <2>2
    <3> QED BY <1>3, <3>1 DEF Linked
  <2> QED BY <2>1, <2>2
<1>8. Linked(nodes, p)
  <2>1. (n + 1) - 1 = n
    BY <1>1
  <2> QED BY <1>3, <1>7, <2>1 DEF Linked
<1>9. p # << >> /\ (road # << >> => p[1] = road[1]) /\ (road = << >> => p[1] = id)
  <2>1. n + 1 # 0
    BY <1>1
  <2>2. p # << >>
    BY <1>3, <2>1
  <2>3. n # 0 => 1 \in 1..n
    BY <1>1
  <2>4. n = 0 => n + 1 = 1
    BY <1>1
  <2> QED BY <1>1, <1>3, <2>2, <2>3, <2>4
<1> QED BY <1>2, <1>3, <1>6, <1>8, <1>9, ToSetAppend

LEMMA TaskIds ==
  ASSUME NEW tasks \in Tasks, tasks # << >>
  PROVE  /\ Tail(tasks) \in Tasks /\ tasks[1].id \in Nat
         /\ tasks[1].enters => ToEnter(tasks) = {tasks[1].id} \cup ToEnter(Tail(tasks))
         /\ ~tasks[1].enters => ToEnter(tasks) = ToEnter(Tail(tasks))
<1> DEFINE m == Len(tasks)
<1>1. PICK others : others = Tail(tasks)
  OBVIOUS
<1>2. /\ m \in Nat \ {0} /\ Len(others) = m - 1 /\ others \in Tasks
      /\ \A i \in 1..m - 1 : others[i] = tasks[i + 1]
      /\ tasks[1] \in [enters : BOOLEAN, id : Nat]
  BY <1>1, HeadAndTail DEF Tasks
<1>3. \A j \in 1..m : j = 1 \/ (j - 1 \in 1..m - 1 /\ (j - 1) + 1 = j)
  BY <1>2
<1>4. 1 \in 1..m /\ \A j \in 1..m - 1 : j + 1 \in 1..m
  BY <1>2
<1>5. ASSUME NEW e \in ToEnter(tasks)
      PROVE  (tasks[1].enters /\ e = tasks[1].id) \/ e \in ToEnter(others)
  <2>1. PICK j \in 1..m : tasks[j].enters /\ e = tasks[j].id
    BY DEF ToEnter
  <2>2. CASE j = 1
    BY <2>1, <2>2
  <2>3. CASE j # 1
    <3>1. j - 1 \in 1..m - 1 /\ others[j - 1] = tasks[j]
      BY <1>2, <1>3, <2>3
    <3> QED BY <1>2, <2>1, <3>1 DEF ToEnter
  <2> QED BY <2>2, <2>3
<1>6. ASSUME NEW e \in ToEnter(others) PROVE e \in ToEnter(tasks)
  <2>1. PICK j \in 1..m - 1 : others[j].enters /\ e = others[j].id
    BY <1>2 DEF ToEnter
  <2> QED BY <1>2, <1>4, <2>1 DEF ToEnter
<1>7. tasks[1].enters => tasks[1].id \in ToEnter(tasks)
  BY <1>4 DEF ToEnter
<1> QED BY <1>1, <1>2, <1>5, <1>6, <1>7

LEMMA WalkEnters ==
  ASSUME NEW nodes, NEW tops, NEW tasks, NEW road, NEW past, NEW at,
         Walk(nodes, tops, tasks, road, past, at), tasks # << >>, tasks[1].enters,
         tasks[1].id \notin past \cup ToSet(road),
         NEW ids \in Seq(Nat), ids = ChildrenIn(nodes, tasks[1].id)
  PROVE  \E places :
           /\ Walk(nodes, tops, Entered(tasks, tasks[1].id, ids), Append(road, tasks[1].id), past, places)
           /\ \A done : Open(nodes, tasks, road, at, done) =>
                          Open(nodes, Entered(tasks, tasks[1].id, ids), Append(road, tasks[1].id), places, done)
<1> DEFINE id == tasks[1].id
           moved == [i \in 1..Len(road) + 1 |-> IF i = Len(road) + 1 THEN Len(ids) + 1
                                                                     ELSE at[i] + Len(ids)]
<1>1. /\ tasks \in Tasks /\ road \in Seq(Nat) /\ past \subseteq Nat
      /\ Stacked(nodes, tops, tasks, road, at)
  BY DEF Walk
<1>2. id \in Nat /\ ToEnter(tasks) = {id} \cup ToEnter(Tail(tasks)) /\ Tail(tasks) \in Tasks
  BY <1>1, TaskIds
<1>3. PICK others : others = Entered(tasks, id, ids)
  OBVIOUS
<1>4. others \in Tasks /\ IsEntered(others, tasks, id, ids)
  BY <1>1, <1>2, <1>3, EnteredTasks
<1>5. PICK places : places = moved
  OBVIOUS
<1>6. Stacked(nodes, tops, others, Append(road, id), places)
  BY <1>1, <1>4, <1>5, EnterStack
<1>7. ASSUME NEW done, Open(nodes, tasks, road, at, done)
      PROVE  Open(nodes, others, Append(road, id), places, done)
  BY <1>1, <1>4, <1>5, <1>7, EnterOpen
<1>8. /\ road # << >> => id \in ToSet(ChildrenIn(nodes, road[Len(road)]))
      /\ road = << >> => id \in tops
  BY <1>1, FirstTask
<1> HIDE DEF id, moved
<1>9. PICK p : p = Append(road, id)
  OBVIOUS
<1>10. /\ p \in Seq(Nat) /\ p # << >> /\ NoRepeats(p) /\ Linked(nodes, p)
       /\ ToSet(p) = ToSet(road) \cup {id}
       /\ road # << >> => p[1] = road[1]
       /\ road = << >> => p[1] = id
  <2>1. NoRepeats(road) /\ Linked(nodes, road) /\ id \notin ToSet(road)
    BY DEF Walk, id
  <2> QED BY <1>1, <1>2, <1>8, <1>9, <2>1, AppendToPath
<1>11. p[1] \in tops
  BY <1>8, <1>10 DEF Walk
<1>12. ToEnter(Tail(tasks)) \subseteq ToEnter(others)
  <2> DEFINE K == Len(ids)
             m == Len(tasks)
  <2>1. K \in Nat /\ m \in Nat \ {0} /\ Len(Tail(tasks)) = m - 1
        /\ \A i \in 1..m - 1 : Tail(tasks)[i] = tasks[i + 1]
    BY <1>1, HeadAndTail DEF Tasks
  <2>2. Len(others) = K + m /\ \A j \in 2..m : others[K + j] = tasks[j]
    BY <1>4 DEF IsEntered
  <2> HIDE DEF K, m
  <2>3. \A j \in 1..m - 1 : j + 1 \in 2..m /\ K + (j + 1) \in 1..K + m
    BY <2>1
  <2>4. ASSUME NEW e \in ToEnter(Tail(tasks)) PROVE e \in ToEnter(others)
    <3>1. PICK j \in 1..m - 1 : Tail(tasks)[j].enters /\ e = Tail(tasks)[j].id
      BY <2>1 DEF ToEnter
    <3>2. others[K + (j + 1)] = Tail(tasks)[j] /\ K + (j + 1) \in 1..Len(others)
      BY <2>1, <2>2, <2>3
    <3> QED BY <3>1, <3>2 DEF ToEnter
  <2> QED BY <2>4
<1>13. tops \subseteq past \cup ToSet(p) \cup ToEnter(others)
  BY <1>2, <1>10, <1>12 DEF Walk
<1>14. ToSet(p) \cap past = {}
  BY <1>10 DEF Walk, id
<1>15. Walk(nodes, tops, others, p, past, places)
  BY <1>1, <1>4, <1>6, <1>9, <1>10, <1>11, <1>13, <1>14 DEF Walk
<1> QED BY <1>3, <1>7, <1>9, <1>15 DEF id

LEMMA WalkSkips ==
  ASSUME NEW nodes, NEW tops, NEW tasks, NEW road, NEW past, NEW at,
         Walk(nodes, tops, tasks, road, past, at), tasks # << >>, tasks[1].enters,
         tasks[1].id \in tops => tasks[1].id \in past \cup ToSet(road)
  PROVE  \E places :
           /\ Walk(nodes, tops, Tail(tasks), road, past, places)
           /\ \A done : Open(nodes, tasks, road, at, done) /\ tasks[1].id \in done =>
                          Open(nodes, Tail(tasks), road, places, done)
<1>1. /\ tasks \in Tasks /\ road \in Seq(Nat) /\ past \subseteq Nat
      /\ Stacked(nodes, tops, tasks, road, at)
  BY DEF Walk
<1>2. ToEnter(tasks) = {tasks[1].id} \cup ToEnter(Tail(tasks)) /\ Tail(tasks) \in Tasks
  BY <1>1, TaskIds
<1>3. PICK places : places = [i \in 1..Len(road) |-> at[i] - 1]
  OBVIOUS
<1>4. Stacked(nodes, tops, Tail(tasks), road, places)
  BY <1>1, <1>3, SkipStack
<1>5. ASSUME NEW done, Open(nodes, tasks, road, at, done), tasks[1].id \in done
      PROVE  Open(nodes, Tail(tasks), road, places, done)
  BY <1>1, <1>3, <1>5, SkipOpen
<1>6. Walk(nodes, tops, Tail(tasks), road, past, places)
  BY <1>2, <1>4 DEF Walk
<1> QED BY <1>5, <1>6

(* What was open before a call returned is open after, and nothing was     *)
(* open below its own node.                                                *)
StillOpen(nodes, tasks, road, at, places) ==
  \A done, then :
    Open(nodes, tasks, road, at, done) /\ done \cup {tasks[1].id} \subseteq then =>
      /\ Open(nodes, Tail(tasks), Front(road), places, then)
      /\ ToSet(ChildrenIn(nodes, tasks[1].id)) \subseteq done

LEMMA WalkReturns ==
  ASSUME NEW nodes, NEW tops, NEW tasks, NEW road, NEW past, NEW at,
         Walk(nodes, tops, tasks, road, past, at), tasks # << >>, ~tasks[1].enters
  PROVE  /\ \E places :
              /\ Walk(nodes, tops, Tail(tasks), Front(road), past \cup {tasks[1].id}, places)
              /\ StillOpen(nodes, tasks, road, at, places)
         /\ tasks[1].id \notin past
         /\ ToSet(road) = ToSet(Front(road)) \cup {tasks[1].id}
<1>1. /\ tasks \in Tasks /\ road \in Seq(Nat) /\ past \subseteq Nat
      /\ Stacked(nodes, tops, tasks, road, at)
      /\ NoRepeats(road) /\ ToSet(road) \cap past = {} /\ Linked(nodes, road)
      /\ road # << >> => road[1] \in tops
  BY DEF Walk
<1>2. ToEnter(tasks) = ToEnter(Tail(tasks)) /\ Tail(tasks) \in Tasks /\ tasks[1].id \in Nat
  BY <1>1, TaskIds
<1>3. PICK places : places = [i \in 1..Len(road) - 1 |-> at[i] - 1]
  OBVIOUS
<1>4. PICK front : front = Front(road)
  OBVIOUS
<1>5. Stacked(nodes, tops, Tail(tasks), front, places)
  BY <1>1, <1>3, <1>4, ReturnStack
<1>6. ASSUME NEW done, NEW then,
             Open(nodes, tasks, road, at, done), done \cup {tasks[1].id} \subseteq then
      PROVE  /\ Open(nodes, Tail(tasks), front, places, then)
             /\ ToSet(ChildrenIn(nodes, tasks[1].id)) \subseteq done
  <2>1. /\ Open(nodes, Tail(tasks), Front(road), [i \in 1..Len(road) - 1 |-> at[i] - 1], then)
        /\ ToSet(ChildrenIn(nodes, tasks[1].id)) \subseteq done
    BY <1>1, <1>6, ReturnOpen
  <2> QED BY <1>3, <1>4, <2>1
<1>7. road # << >> /\ tasks[1].id = road[Len(road)]
  <2>1. tasks \in Tasks /\ road \in Seq(Nat) /\ Stacked(nodes, tops, tasks, road, at)
    BY <1>1
  <2> QED BY <2>1, FirstTask
<1>8. /\ front \in Seq(Nat) /\ Len(front) = Len(road) - 1 /\ Len(road) \in Nat \ {0}
      /\ \A i \in 1..Len(road) - 1 : front[i] = road[i]
      /\ ToSet(road) = ToSet(front) \cup {tasks[1].id}
  BY <1>1, <1>4, <1>7, FrontOfPath
<1>9. PICK n \in Nat : Len(road) = n + 1 /\ Len(front) = n
  <2>1. Len(road) - 1 \in Nat /\ Len(road) = (Len(road) - 1) + 1
    BY <1>8
  <2> QED BY <1>8, <2>1
<1>10. /\ \A i \in 1..n : i \in 1..n + 1 /\ front[i] = road[i] /\ i # n + 1
       /\ n + 1 \in 1..n + 1
       /\ \A i \in 1..n - 1 : i \in 1..n /\ i + 1 \in 1..n
       /\ (n + 1) - 1 = n
  BY <1>8, <1>9
<1>11. NoRepeats(front) /\ Linked(nodes, front)
  BY <1>1, <1>9, <1>10 DEF NoRepeats, Linked
<1>12. tasks[1].id \notin ToSet(front)
  <2>1. ToSet(front) = {front[i] : i \in 1..n}
    BY <1>8, <1>9, ToSetOfSeq
  <2> QED BY <1>1, <1>7, <1>9, <1>10, <2>1 DEF NoRepeats
<1>13. front # << >> => front[1] \in tops
  <2>1. front # << >> => Len(front) # 0
    BY <1>8, EmptySeq
  <2>2. n # 0 => 1 \in 1..n
    OBVIOUS
  <2> QED BY <1>1, <1>7, <1>9, <1>10, <2>1, <2>2
<1>14. tasks[1].id \notin past
  BY <1>1, <1>8
<1>15. Walk(nodes, tops, Tail(tasks), front, past \cup {tasks[1].id}, places)
  <2>1. tops \subseteq (past \cup {tasks[1].id}) \cup ToSet(front) \cup ToEnter(Tail(tasks))
    BY <1>2, <1>8 DEF Walk
  <2>2. ToSet(front) \cap (past \cup {tasks[1].id}) = {}
    BY <1>1, <1>8, <1>12
  <2> QED BY <1>1, <1>2, <1>5, <1>8, <1>11, <1>13, <2>1, <2>2 DEF Walk
<1>16. StillOpen(nodes, tasks, road, at, places)
  BY <1>4, <1>6 DEF StillOpen
<1> QED BY <1>4, <1>8, <1>14, <1>15, <1>16

LEMMA WalkEnds ==
  ASSUME NEW nodes, NEW tops, NEW road, NEW past, NEW at,
         Walk(nodes, tops, << >>, road, past, at)
  PROVE  road = << >> /\ ToSet(road) = {} /\ tops \subseteq past
<1>1. road \in Seq(Nat) /\ at \in [1..Len(road) -> 1..Len(<< >>)]
  BY DEF Walk, Stacked
<1>2. 1..Len(<< >>) = {}
  OBVIOUS
<1>3. road = << >>
  <2>1. SUFFICES ASSUME road # << >> PROVE FALSE
    OBVIOUS
  <2>2. 1 \in 1..Len(road)
    BY <1>1, <2>1, EmptySeq
  <2> QED BY <1>1, <1>2, <2>2
<1>4. ToSet(road) = {} /\ ToEnter(<< >>) = {}
  BY <1>2, <1>3 DEF ToSet, ToEnter
<1> QED BY <1>3, <1>4 DEF Walk

(***************************************************************************)
(* Cycles.                                                                 *)
(***************************************************************************)

IsCycle(nodes, c) == c \in Seq(Nat) /\ c # << >> /\ NoRepeats(c) /\ Linked(nodes, Append(c, c[1]))

(* A node of a reported cycle is below itself.                             *)
LEMMA CycleIsBelow ==
  ASSUME NEW nodes, IsFiniteSet(DOMAIN nodes), NEW c, IsCycle(nodes, c)
  PROVE  c[1] \in DOMAIN nodes /\ c[1] \in BelowIn(nodes, c[1])
<1> DEFINE n == Len(c)
           T == BelowIn(nodes, c[1])
<1>1. /\ c \in Seq(Nat) /\ n \in Nat \ {0} /\ c[1] \in Nat
  <2>1. c \in Seq(Nat) /\ n \in Nat \ {0}
    BY EmptySeq DEF IsCycle
  <2>2. 1 \in 1..n
    BY <2>1
  <2> QED BY <2>1, <2>2, ElementOfSeq
<1>2. PICK p : p = Append(c, c[1])
  OBVIOUS
<1>3. Len(p) = n + 1 /\ p[n + 1] = c[1] /\ p[1] = c[1] /\ Linked(nodes, p)
  <2>1. 1 \in 1..n
    BY <1>1
  <2>2. Linked(nodes, p)
    BY <1>2 DEF IsCycle
  <2> QED BY <1>1, <1>2, <2>1, <2>2, AppendProperties
<1>4. PICK m \in Nat : n = m + 1
  <2>1. n - 1 \in Nat /\ n = (n - 1) + 1
    BY <1>1
  <2> QED BY <2>1
<1>5. ASSUME NEW i \in 1..n PROVE p[i + 1] \in ToSet(ChildrenIn(nodes, p[i]))
  <2>1. i \in 1..Len(p) - 1
    BY <1>1, <1>3
  <2> QED BY <1>3, <2>1 DEF Linked
<1>6. p[2] \in ToSet(ChildrenIn(nodes, c[1]))
  <2>1. 1 \in 1..n /\ 1 + 1 = 2
    BY <1>1
  <2> QED BY <1>3, <1>5, <2>1
<1>7. c[1] \in DOMAIN nodes
  <2>1. ToSet(<< >>) = {}
    BY EmptySeq DEF ToSet
  <2> QED BY <1>6, <2>1 DEF ChildrenIn
<1>8. ToSet(ChildrenIn(nodes, c[1])) \subseteq T /\ Closed(nodes, T)
  BY ClosureFacts DEF BelowIn
<1> DEFINE S == {k \in 0..m : p[k + 2] \in T}
<1> HIDE DEF T, n
<1>9. 0 \in S
  BY <1>6, <1>8
<1>10. ASSUME NEW k \in 0..m - 1, k \in S PROVE k + 1 \in S
  <2>1. k + 2 \in 1..n /\ (k + 2) + 1 = (k + 1) + 2 /\ k + 1 \in 0..m
    BY <1>4
  <2>2. p[(k + 1) + 2] \in ToSet(ChildrenIn(nodes, p[k + 2]))
    BY <1>5, <2>1
  <2>3. p[k + 2] \in T
    BY <1>10
  <2>4. ToSet(ChildrenIn(nodes, p[k + 2])) \subseteq T
    BY <1>8, <2>3 DEF Closed, Kids
  <2> QED BY <2>1, <2>2, <2>4
<1>11. m \in S
  <2> HIDE DEF S
  <2> QED BY <1>4, <1>9, <1>10, BoundedInduction
<1>12. c[1] \in T
  <2>1. m + 2 = n + 1
    BY <1>4
  <2> QED BY <1>3, <1>11, <2>1
<1> QED BY <1>7, <1>12 DEF T

(* While no cycle was found, what is done with is closed under the links   *)
(* and nothing of it is below itself.                                      *)
CycleInv(nodes, cycles, tasks, road, past) ==
  /\ cycles \in Seq(Seq(Nat)) /\ \A c \in ToSet(cycles) : IsCycle(nodes, c)
  /\ \E at : /\ Walk(nodes, DOMAIN nodes, tasks, road, past, at)
             /\ cycles = << >> => Open(nodes, tasks, road, at, past)
  /\ cycles = << >> => Closed(nodes, past) /\ \A x \in past : x \notin BelowIn(nodes, x)

LEMMA NoneInEmpty == << >> \in Seq(Nat) /\ << >> \in Seq(Seq(Nat)) /\ ToSet(<< >>) = {}
BY EmptySeq DEF ToSet

LEMMA CyclesStart ==
  ASSUME NEW nodes, NEW ids \in Seq(Nat), ToSet(ids) = DOMAIN nodes
  PROVE  CycleInv(nodes, << >>, [i \in DOMAIN ids |-> Enter(ids[i])], << >>, {})
<1>1. PICK tasks : tasks = [i \in DOMAIN ids |-> Enter(ids[i])]
  OBVIOUS
<1>2. /\ Walk(nodes, DOMAIN nodes, tasks, << >>, {}, << >>)
      /\ Open(nodes, tasks, << >>, << >>, {})
  BY <1>1, WalkStarts
<1>3. Closed(nodes, {})
  BY DEF Closed, Kids
<1> QED BY <1>1, <1>2, <1>3, NoneInEmpty DEF CycleInv

LEMMA ChildrenTyped ==
  ASSUME NEW nodes, IsGraph(nodes), NEW id
  PROVE  ChildrenIn(nodes, id) \in Seq(Nat) /\ NoRepeats(ChildrenIn(nodes, id))
<1>1. CASE id \in DOMAIN nodes
  BY <1>1 DEF IsGraph, Info, ChildrenIn
<1>2. CASE id \notin DOMAIN nodes
  <2>1. NoRepeats(<< >>)
    BY EmptySeq DEF NoRepeats
  <2> QED BY <1>2, <2>1, NoneInEmpty DEF ChildrenIn
<1> QED BY <1>1, <1>2

LEMMA CyclesEnter ==
  ASSUME NEW nodes, IsGraph(nodes), NEW cycles, NEW tasks, NEW road, NEW past,
         CycleInv(nodes, cycles, tasks, road, past), tasks # << >>, tasks[1].enters,
         tasks[1].id \notin past, tasks[1].id \notin ToSet(road)
  PROVE  CycleInv(nodes, cycles, Entered(tasks, tasks[1].id, ChildrenIn(nodes, tasks[1].id)),
                  Append(road, tasks[1].id), past)
<1>1. PICK at : /\ Walk(nodes, DOMAIN nodes, tasks, road, past, at)
                /\ cycles = << >> => Open(nodes, tasks, road, at, past)
  BY DEF CycleInv
<1>2. PICK ids \in Seq(Nat) : ids = ChildrenIn(nodes, tasks[1].id)
  BY ChildrenTyped
<1>3. tasks[1].id \notin past \cup ToSet(road)
  OBVIOUS
<1>4. PICK places :
        /\ Walk(nodes, DOMAIN nodes, Entered(tasks, tasks[1].id, ids), Append(road, tasks[1].id), past, places)
        /\ \A done : Open(nodes, tasks, road, at, done) =>
                       Open(nodes, Entered(tasks, tasks[1].id, ids), Append(road, tasks[1].id), places, done)
  BY <1>1, <1>2, <1>3, WalkEnters
<1> QED BY <1>1, <1>2, <1>4 DEF CycleInv

LEMMA CyclesSkip ==
  ASSUME NEW nodes, NEW cycles, NEW tasks, NEW road, NEW past,
         CycleInv(nodes, cycles, tasks, road, past), tasks # << >>, tasks[1].enters,
         tasks[1].id \in past
  PROVE  CycleInv(nodes, cycles, Tail(tasks), road, past)
<1>1. PICK at : /\ Walk(nodes, DOMAIN nodes, tasks, road, past, at)
                /\ cycles = << >> => Open(nodes, tasks, road, at, past)
  BY DEF CycleInv
<1>2. PICK places :
        /\ Walk(nodes, DOMAIN nodes, Tail(tasks), road, past, places)
        /\ \A done : Open(nodes, tasks, road, at, done) /\ tasks[1].id \in done =>
                       Open(nodes, Tail(tasks), road, places, done)
  BY <1>1, WalkSkips
<1> QED BY <1>1, <1>2 DEF CycleInv

(* The stack from the node on that it holds already is a cycle.            *)
LEMMA StackHoldsCycle ==
  ASSUME NEW nodes, NEW road \in Seq(Nat), NoRepeats(road), Linked(nodes, road),
         NEW from \in 1..Len(road), road[from] \in ToSet(ChildrenIn(nodes, road[Len(road)]))
  PROVE  IsCycle(nodes, SubSeq(road, from, Len(road)))
<1>1. Len(road) \in Nat
  OBVIOUS
<1>2. PICK b \in Nat, n \in Nat : from = b + 1 /\ Len(road) = b + n /\ n # 0
  <2>1. from - 1 \in Nat /\ Len(road) - (from - 1) \in Nat /\ from = (from - 1) + 1
        /\ Len(road) = (from - 1) + (Len(road) - (from - 1)) /\ Len(road) - (from - 1) # 0
    BY <1>1
  <2> QED BY <2>1
<1>3. PICK c : c = SubSeq(road, b + 1, b + n)
  OBVIOUS
<1>4. c \in Seq(Nat) /\ Len(c) = n /\ \A k \in 1..n : c[k] = road[b + k]
  <2>1. b + n <= Len(road)
    BY <1>2
  <2> QED BY <1>3, <2>1, PartOfSeq DEF IsPart
<1>5. \A k \in 1..n : b + k \in 1..b + n
  BY <1>2
<1>6. NoRepeats(c)
  <2>1. ASSUME NEW k \in 1..n, NEW l \in 1..n, c[k] = c[l] PROVE k = l
    <3>1. b + k = b + l
      BY <1>2, <1>4, <1>5, <2>1 DEF NoRepeats
    <3> QED BY <1>2, <3>1
  <2> QED BY <1>4, <2>1 DEF NoRepeats
<1>7. 1 \in 1..n /\ c[1] = road[from] /\ c # << >> /\ c[1] \in Nat
  <2>1. 1 \in 1..n
    BY <1>2
  <2>2. c # << >>
    BY <1>2, <1>4
  <2> QED BY <1>2, <1>4, <2>1, <2>2, ElementOfSeq
<1>8. PICK p : p = Append(c, c[1])
  OBVIOUS
<1>9. Len(p) = n + 1 /\ p[n + 1] = c[1] /\ \A k \in 1..n : p[k] = c[k]
  BY <1>4, <1>7, <1>8, AppendProperties
<1>10. ASSUME NEW k \in 1..n PROVE p[k + 1] \in ToSet(ChildrenIn(nodes, p[k]))
  <2>1. CASE k = n
    <3>1. p[k] = road[Len(road)]
      BY <1>2, <1>4, <1>9, <2>1
    <3> QED BY <1>7, <1>9, <2>1, <3>1
  <2>2. CASE k # n
    <3>1. k + 1 \in 1..n /\ (b + k) + 1 = b + (k + 1) /\ b + k \in 1..Len(road) - 1
      BY <1>2, <2>2
    <3>2. road[(b + k) + 1] \in ToSet(ChildrenIn(nodes, road[b + k]))
      BY <3>1 DEF Linked
    <3> QED BY <1>4, <1>9, <3>1, <3>2
  <2> QED BY <2>1, <2>2
<1>11. Linked(nodes, p)
  <2>1. (n + 1) - 1 = n
    BY <1>2
  <2> QED BY <1>9, <1>10, <2>1 DEF Linked
<1> QED BY <1>2, <1>3, <1>4, <1>6, <1>7, <1>8, <1>11 DEF IsCycle

LEMMA CyclesReport ==
  ASSUME NEW nodes, NEW cycles, NEW tasks, NEW road, NEW past,
         CycleInv(nodes, cycles, tasks, road, past), tasks # << >>, tasks[1].enters,
         tasks[1].id \in ToSet(road),
         NEW from, from = CHOOSE i \in DOMAIN road : road[i] = tasks[1].id
  PROVE  CycleInv(nodes, Append(cycles, SubSeq(road, from, Len(road))), Tail(tasks), road, past)
<1>1. PICK at : Walk(nodes, DOMAIN nodes, tasks, road, past, at)
  BY DEF CycleInv
<1>2. PICK places : Walk(nodes, DOMAIN nodes, Tail(tasks), road, past, places)
  BY <1>1, WalkSkips
<1>3. /\ tasks \in Tasks /\ road \in Seq(Nat) /\ Stacked(nodes, DOMAIN nodes, tasks, road, at)
      /\ NoRepeats(road) /\ Linked(nodes, road)
  BY <1>1 DEF Walk
<1>4. from \in 1..Len(road) /\ road[from] = tasks[1].id
  <2>1. DOMAIN road = 1..Len(road)
    BY <1>3, LenProperties
  <2>2. \E i \in DOMAIN road : road[i] = tasks[1].id
    BY DEF ToSet
  <2> QED BY <2>1, <2>2
<1>5. road # << >>
  BY NoneInEmpty
<1>6. tasks[1].id \in ToSet(ChildrenIn(nodes, road[Len(road)]))
  BY <1>3, <1>5, FirstTask
<1>7. PICK c : c = SubSeq(road, from, Len(road))
  OBVIOUS
<1>8. IsCycle(nodes, c)
  BY <1>3, <1>4, <1>6, <1>7, StackHoldsCycle
<1>9. /\ cycles \in Seq(Seq(Nat)) /\ \A e \in ToSet(cycles) : IsCycle(nodes, e)
      /\ c \in Seq(Nat)
  BY <1>8 DEF CycleInv, IsCycle
<1>10. PICK more : more = Append(cycles, c)
  OBVIOUS
<1>11. more \in Seq(Seq(Nat)) /\ ToSet(more) = ToSet(cycles) \cup {c} /\ more # << >>
  <2>1. more \in Seq(Seq(Nat))
    BY <1>9, <1>10, AppendProperties
  <2>2. ToSet(more) = ToSet(cycles) \cup {c}
    BY <1>9, <1>10, ToSetAppend
  <2> QED BY <2>1, <2>2, NoneInEmpty
<1>12. CycleInv(nodes, more, Tail(tasks), road, past)
  BY <1>2, <1>8, <1>9, <1>11 DEF CycleInv
<1> QED BY <1>7, <1>10, <1>12

LEMMA CyclesReturn ==
  ASSUME NEW nodes, IsFiniteSet(DOMAIN nodes), NEW cycles, NEW tasks, NEW road, NEW past,
         CycleInv(nodes, cycles, tasks, road, past), tasks # << >>, ~tasks[1].enters
  PROVE  CycleInv(nodes, cycles, Tail(tasks), Front(road), past \cup {tasks[1].id})
<1>1. PICK at : /\ Walk(nodes, DOMAIN nodes, tasks, road, past, at)
                /\ cycles = << >> => Open(nodes, tasks, road, at, past)
  BY DEF CycleInv
<1> DEFINE id == tasks[1].id
           then == past \cup {id}
<1>2. PICK places :
        /\ Walk(nodes, DOMAIN nodes, Tail(tasks), Front(road), then, places)
        /\ Open(nodes, tasks, road, at, past) =>
             /\ Open(nodes, Tail(tasks), Front(road), places, then)
             /\ ToSet(ChildrenIn(nodes, id)) \subseteq past
  <2>1. PICK places :
          /\ Walk(nodes, DOMAIN nodes, Tail(tasks), Front(road), then, places)
          /\ StillOpen(nodes, tasks, road, at, places)
    BY <1>1, WalkReturns
  <2>2. past \cup {id} \subseteq then
    OBVIOUS
  <2>3. Open(nodes, tasks, road, at, past) =>
             /\ Open(nodes, Tail(tasks), Front(road), places, then)
             /\ ToSet(ChildrenIn(nodes, id)) \subseteq past
    BY <2>1, <2>2 DEF StillOpen
  <2> QED BY <2>1, <2>3
<1>3. id \notin past
  BY <1>1, WalkReturns
<1>4. ASSUME cycles = << >>
      PROVE  Closed(nodes, then) /\ \A x \in then : x \notin BelowIn(nodes, x)
  <2>1. /\ Closed(nodes, past) /\ \A x \in past : x \notin BelowIn(nodes, x)
        /\ ToSet(ChildrenIn(nodes, id)) \subseteq past
    BY <1>1, <1>2, <1>4 DEF CycleInv
  <2>2. Closed(nodes, then)
    BY <2>1 DEF Closed, Kids
  <2>3. BelowIn(nodes, id) \subseteq past
    BY <2>1, ClosureFacts DEF BelowIn
  <2> QED BY <1>3, <2>1, <2>2, <2>3
<1> QED BY <1>1, <1>2, <1>4 DEF CycleInv

LEMMA CyclesEnd ==
  ASSUME NEW nodes, IsFiniteSet(DOMAIN nodes), NEW cycles, NEW road, NEW past,
         CycleInv(nodes, cycles, << >>, road, past)
  PROVE  /\ road = << >>
         /\ cycles = << >> <=> \A id \in DOMAIN nodes : id \notin BelowIn(nodes, id)
<1>1. road = << >> /\ DOMAIN nodes \subseteq past
  BY WalkEnds DEF CycleInv
<1>2. ASSUME cycles # << >> PROVE \E id \in DOMAIN nodes : id \in BelowIn(nodes, id)
  <2>1. cycles \in Seq(Seq(Nat)) /\ Len(cycles) \in Nat \ {0}
    BY <1>2, EmptySeq DEF CycleInv
  <2>2. cycles[1] \in ToSet(cycles)
    BY <2>1, ToSetOfSeq
  <2>3. IsCycle(nodes, cycles[1])
    BY <2>2 DEF CycleInv
  <2> QED BY <2>3, CycleIsBelow
<1> QED BY <1>1, <1>2 DEF CycleInv

LEMMA ImageFinite ==
  ASSUME NEW S, IsFiniteSet(S), NEW f
  PROVE  IsFiniteSet({f[x] : x \in S})
<1> DEFINE g == [x \in S |-> f[x]]
<1>1. g \in Surjection(S, {f[x] : x \in S})
  BY DEF Surjection
<1> QED BY <1>1, FS_Surjection

(***************************************************************************)
(* Links.                                                                  *)
(***************************************************************************)

(* What the first two loops leave: every node is a root or has a parent.   *)
LinksOk(nodes, roots) ==
  /\ IsGraph(nodes)
  /\ roots \in Seq(Nat) /\ NoRepeats(roots) /\ ToSet(roots) \subseteq DOMAIN nodes
  /\ \A id \in DOMAIN nodes :
       id \in ToSet(roots) \/ \E p \in DOMAIN nodes : id \in ToSet(nodes[p].children)
  /\ \A id \in DOMAIN nodes :
       nodes[id].parent \notin DOMAIN nodes \ {NoId} => id \in ToSet(roots)

(***************************************************************************)
(* Forests.                                                                *)
(***************************************************************************)

Edges(nodes) == UNION {{id} \X ToSet(ChildrenIn(nodes, id)) : id \in DOMAIN nodes}
ParentsIn(nodes, id) == {p \in DOMAIN nodes : id \in ToSet(ChildrenIn(nodes, p))}
HangsOnceIn(nodes, roots, id) ==
  IF id \in ToSet(roots) THEN ParentsIn(nodes, id) = {} ELSE Cardinality(ParentsIn(nodes, id)) = 1

LEMMA EdgesFinite ==
  ASSUME NEW nodes, IsGraph(nodes)
  PROVE  /\ IsFiniteSet(Edges(nodes))
         /\ \A e : e \in Edges(nodes) <=>
                     \E p \in DOMAIN nodes : \E c \in ToSet(ChildrenIn(nodes, p)) : e = <<p, c>>
         /\ \A p, c : <<p, c>> \in Edges(nodes) => p \in Nat /\ c \in Nat
<1> DEFINE kids == [p \in DOMAIN nodes |-> ToSet(ChildrenIn(nodes, p))]
           all == UNION {kids[p] : p \in DOMAIN nodes}
<1>1. IsFiniteSet(DOMAIN nodes) /\ DOMAIN nodes \subseteq Nat
  BY DEF IsGraph
<1>2. \A p \in DOMAIN nodes : IsFiniteSet(kids[p]) /\ kids[p] \subseteq Nat
  BY ChildrenTyped, DistinctIsNoRepeats, ToSetOfSeq
<1>3. IsFiniteSet({kids[p] : p \in DOMAIN nodes})
  <2> HIDE DEF kids
  <2> QED BY <1>1, ImageFinite
<1>4. IsFiniteSet(all)
  BY <1>2, <1>3, FS_UNION
<1>5. IsFiniteSet((DOMAIN nodes) \X all)
  <2> HIDE DEF all
  <2> QED BY <1>1, <1>4, FS_Product
<1>6. \A e : e \in Edges(nodes) <=>
               \E p \in DOMAIN nodes : \E c \in ToSet(ChildrenIn(nodes, p)) : e = <<p, c>>
  BY DEF Edges
<1>7. Edges(nodes) \in SUBSET ((DOMAIN nodes) \X all)
  BY <1>6
<1>8. IsFiniteSet(Edges(nodes))
  <2> HIDE DEF all
  <2> QED BY <1>5, <1>7, FS_Subset
<1>9. ASSUME NEW p, NEW c, <<p, c>> \in Edges(nodes) PROVE p \in Nat /\ c \in Nat
  BY <1>1, <1>2, <1>6, <1>9
<1> QED BY <1>6, <1>8, <1>9

(* Edges and roots are as many as nodes just when they hang every node, and*)
(* nothing else, once.                                                     *)
LEMMA ForestCounts ==
  ASSUME NEW nodes, NEW roots, LinksOk(nodes, roots)
  PROVE  Cardinality(Edges(nodes)) + Len(roots) = Cardinality(DOMAIN nodes) <=>
           \A id \in DOMAIN nodes :
             ToSet(ChildrenIn(nodes, id)) \subseteq DOMAIN nodes /\ HangsOnceIn(nodes, roots, id)
<1> DEFINE D == DOMAIN nodes
           R == ToSet(roots)
           E == Edges(nodes)
           H == {-1} \X R
           X == E \cup H
           all == {x[2] : x \in X}
           f == [x \in X |-> x[2]]
<1>1. /\ IsGraph(nodes) /\ roots \in Seq(Nat) /\ NoRepeats(roots) /\ R \subseteq D
      /\ D \subseteq Nat /\ IsFiniteSet(D)
  BY DEF LinksOk, IsGraph
<1>2. /\ IsFiniteSet(E)
      /\ \A p, c : <<p, c>> \in E <=> p \in D /\ c \in ToSet(ChildrenIn(nodes, p))
      /\ \A p, c : <<p, c>> \in E => p \in Nat /\ c \in Nat
      /\ \A e \in E : e = <<e[1], e[2]>>
  BY <1>1, EdgesFinite
<1>3. IsFiniteSet(R) /\ Cardinality(R) = Len(roots)
  BY <1>1, DistinctIsNoRepeats DEF AreDistinct
<1>4. IsFiniteSet(H) /\ Cardinality(H) = Len(roots)
  <2> DEFINE g == [r \in R |-> <<-1, r>>]
  <2>1. g \in Bijection(R, H)
    <3> HIDE DEF R
    <3>1. \A r \in R : g[r] = <<-1, r>> /\ g[r] \in H /\ g[r][2] = r
      OBVIOUS
    <3>2. \A h \in H : h[2] \in R /\ h = <<-1, h[2]>>
      OBVIOUS
    <3>3. g \in [R -> H]
      OBVIOUS
    <3> HIDE DEF g, H
    <3>4. \A h \in H : h[2] \in R /\ g[h[2]] = h
      BY <3>1, <3>2
    <3>5. g \in Surjection(R, H)
      BY <3>3, <3>4 DEF Surjection
    <3>6. \A r, q \in R : g[r] = g[q] => r = q
      BY <3>1
    <3> QED BY <3>3, <3>5, <3>6 DEF Bijection, Injection, IsInjective
  <2> HIDE DEF g, R, H
  <2>2. ExistsBijection(R, H)
    BY <2>1 DEF ExistsBijection
  <2> QED BY <1>3, <2>2, FS_Bijection
<1>5. E \cap H = {}
  <2>1. SUFFICES ASSUME NEW e \in E, e \in H PROVE FALSE
    OBVIOUS
  <2>2. e[1] = -1
    BY <2>1
  <2>3. e[1] \in Nat
    <3> HIDE DEF E
    <3> QED BY <1>2
  <2>4. -1 \notin Nat
    OBVIOUS
  <2> QED BY <2>2, <2>3, <2>4
<1>6. IsFiniteSet(X) /\ Cardinality(X) = Cardinality(E) + Len(roots)
  <2> HIDE DEF E, H
  <2>1. IsFiniteSet(X) /\ Cardinality(X) = Cardinality(E) + Cardinality(H) - Cardinality({})
    BY <1>2, <1>4, <1>5, FS_Union
  <2>2. Cardinality({}) = 0 /\ Cardinality(E) \in Nat /\ Cardinality(H) \in Nat
    BY <1>2, <1>4, FS_EmptySet, FS_CardinalityType
  <2> QED BY <1>4, <2>1, <2>2
<1>7. /\ \A c : c \in all <=> c \in R \/ \E p \in D : c \in ToSet(ChildrenIn(nodes, p))
  <2>1. ASSUME NEW c \in all PROVE c \in R \/ \E p \in D : c \in ToSet(ChildrenIn(nodes, p))
    <3>1. PICK x \in X : c = x[2]
      OBVIOUS
    <3>2. CASE x \in H
      BY <3>1, <3>2
    <3>3. CASE x \in E
      <4>1. x = <<x[1], c>>
        BY <1>2, <3>1, <3>3
      <4> HIDE DEF E
      <4> QED BY <1>2, <3>3, <4>1
    <3> HIDE DEF E, H
    <3> QED BY <3>2, <3>3
  <2>2. ASSUME NEW c \in R PROVE c \in all
    <3>1. <<-1, c>> \in H /\ <<-1, c>>[2] = c
      OBVIOUS
    <3> HIDE DEF E, H
    <3> QED BY <3>1
  <2>3. ASSUME NEW p \in D, NEW c \in ToSet(ChildrenIn(nodes, p)) PROVE c \in all
    <3>1. <<p, c>> \in E /\ <<p, c>>[2] = c
      BY <1>2
    <3> HIDE DEF E, H
    <3> QED BY <3>1
  <2> QED BY <2>1, <2>2, <2>3
<1>8. D \subseteq all
  <2>1. \A id \in D : id \in R \/ \E p \in D : id \in ToSet(ChildrenIn(nodes, p))
    BY DEF LinksOk, ChildrenIn
  <2> HIDE DEF all, D, R
  <2> QED BY <1>7, <2>1
<1>9. f \in Surjection(X, all)
  <2> HIDE DEF X
  <2> QED BY DEF Surjection
<1>10. /\ IsFiniteSet(all) /\ Cardinality(all) <= Cardinality(X)
       /\ Cardinality(all) = Cardinality(X) <=> f \in Injection(X, all)
  <2> HIDE DEF X, all, f
  <2> QED BY <1>6, <1>9, FS_Surjection
<1>11. /\ Cardinality(D) <= Cardinality(all) /\ (Cardinality(all) = Cardinality(D) => all = D)
       /\ Cardinality(D) \in Nat /\ Cardinality(all) \in Nat /\ Cardinality(X) \in Nat
  <2> HIDE DEF X, all, D
  <2>1. D \in SUBSET all
    BY <1>8
  <2>2. /\ Cardinality(D) <= Cardinality(all) /\ (Cardinality(all) = Cardinality(D) => all = D)
    BY <1>10, <2>1, FS_Subset
  <2>3. Cardinality(D) \in Nat /\ Cardinality(all) \in Nat /\ Cardinality(X) \in Nat
    BY <1>1, <1>6, <1>10, FS_CardinalityType
  <2> QED BY <2>2, <2>3
<1>12. f \in Injection(X, all) <=> \A x, y \in X : x[2] = y[2] => x = y
  <2> HIDE DEF X, all
  <2>1. f \in [X -> all] /\ \A x \in X : f[x] = x[2]
    BY <1>9 DEF Surjection
  <2> HIDE DEF f
  <2> QED BY <2>1 DEF Injection, IsInjective
<1>13. all = D <=> \A id \in D : ToSet(ChildrenIn(nodes, id)) \subseteq D
  <2> HIDE DEF all
  <2> QED BY <1>1, <1>7, <1>8
<1>14. ASSUME \A x, y \in X : x[2] = y[2] => x = y, NEW id \in D
       PROVE  HangsOnceIn(nodes, roots, id)
  <2> DEFINE P == ParentsIn(nodes, id)
  <2>1. \A p \in P : <<p, id>> \in X /\ p \in Nat
    BY <1>1, <1>2 DEF ParentsIn
  <2>2. ASSUME id \in R PROVE P = {}
    <3>1. SUFFICES ASSUME NEW p \in P PROVE FALSE
      OBVIOUS
    <3>2. <<-1, id>> \in X
      BY <2>2
    <3>3. <<-1, id>> = <<p, id>>
      <4>1. <<-1, id>>[2] = <<p, id>>[2] /\ <<p, id>> \in X
        BY <2>1, <3>1
      <4> HIDE DEF X
      <4> QED BY <1>14, <3>2, <4>1
    <3>4. -1 = p
      BY <3>3
    <3>5. p \in Nat
      BY <2>1
    <3> QED BY <3>4, <3>5
  <2>3. ASSUME id \notin R PROVE Cardinality(P) = 1
    <3>1. PICK p \in D : id \in ToSet(ChildrenIn(nodes, p))
      BY <2>3 DEF LinksOk, ChildrenIn
    <3>2. p \in P
      BY <3>1 DEF ParentsIn
    <3>3. ASSUME NEW q \in P PROVE q = p
      <4>1. <<q, id>>[2] = <<p, id>>[2] /\ <<q, id>> \in X /\ <<p, id>> \in X
        BY <2>1, <3>2, <3>3
      <4>2. <<q, id>> = <<p, id>>
        <5> HIDE DEF X
        <5> QED BY <1>14, <4>1
      <4> QED BY <4>2
    <3>4. P = {p}
      BY <3>2, <3>3
    <3> HIDE DEF P
    <3> QED BY <3>4, FS_Singleton
  <2> QED BY <2>2, <2>3 DEF HangsOnceIn
<1>15. ASSUME \A id \in D : HangsOnceIn(nodes, roots, id), all = D, NEW x \in X, NEW y \in X, x[2] = y[2]
       PROVE  x = y
  <2> DEFINE id == x[2]
             P == ParentsIn(nodes, id)
  <2>1. id \in D
    <3>1. x[2] \in all
      OBVIOUS
    <3> HIDE DEF all
    <3> QED BY <1>15, <3>1
  <2>2. /\ id \in R => P = {}
        /\ id \notin R => Cardinality(P) = 1
    BY <1>15, <2>1 DEF HangsOnceIn
  <2>3. ASSUME NEW z \in X, z[2] = id
        PROVE  \/ z = <<-1, id>> /\ id \in R
               \/ z = <<z[1], id>> /\ z[1] \in P
    <3>1. CASE z \in H
      <4>1. z = <<-1, z[2]>> /\ z[2] \in R
        BY <3>1
      <4> HIDE DEF id, R, H, X
      <4> QED BY <2>3, <4>1
    <3>2. CASE z \in E
      <4>1. z = <<z[1], id>>
        BY <1>2, <2>3, <3>2
      <4>2. z[1] \in D /\ id \in ToSet(ChildrenIn(nodes, z[1]))
        <5> HIDE DEF E, id
        <5> QED BY <1>2, <3>2, <4>1
      <4> QED BY <4>1, <4>2 DEF ParentsIn
    <3> HIDE DEF E, H
    <3> QED BY <3>1, <3>2
  <2>4. x[2] = id /\ y[2] = id
    BY <1>15
  <2>5. IsFiniteSet(P)
    <3>1. P \in SUBSET D
      BY DEF ParentsIn
    <3> HIDE DEF P, D
    <3> QED BY <1>1, <3>1, FS_Subset
  <2> HIDE DEF X, P, id, R
  <2>6. CASE id \in R
    BY <2>2, <2>3, <2>4, <2>6
  <2>7. CASE id \notin R
    <3>1. PICK p : P = {p}
      BY <2>2, <2>5, <2>7, FS_Singleton
    <3> QED BY <2>3, <2>4, <2>7, <3>1
  <2> QED BY <2>6, <2>7
<1> HIDE DEF X, all, D, E, f
<1>16. Cardinality(X) = Cardinality(D) <=> all = D /\ f \in Injection(X, all)
  BY <1>10, <1>11
<1>17. all = D /\ f \in Injection(X, all) <=>
         \A id \in D : ToSet(ChildrenIn(nodes, id)) \subseteq D /\ HangsOnceIn(nodes, roots, id)
  <2>1. f \in Injection(X, all) => \A id \in D : HangsOnceIn(nodes, roots, id)
    BY <1>12, <1>14
  <2>2. all = D /\ (\A id \in D : HangsOnceIn(nodes, roots, id)) => f \in Injection(X, all)
    BY <1>12, <1>15
  <2> QED BY <1>13, <2>1, <2>2
<1> QED BY <1>6, <1>16, <1>17 DEF D, E

(***************************************************************************)
(* The graph while it is built.                                            *)
(***************************************************************************)

Idle == pending = << >> /\ path = << >> /\ seen = {} /\ answer = << >>
IsGraphRecord(g) ==
  g = [nodes |-> g.nodes, roots |-> g.roots, unreachable |-> g.unreachable, cycles |-> g.cycles]

Marking ==
  /\ pending \in Seq([id : Nat, depth : Nat])
  /\ MarkInv(graph.nodes, Roots, ToSet(pending))
  /\ path = << >> /\ seen = {} /\ answer = << >> /\ graph.cycles = << >>

MarksKnown ==
  /\ Marked(graph.nodes, Roots)
  /\ graph.unreachable \in Seq(Nat)
  /\ ToSet(graph.unreachable) = Ids \ ClosureIn(graph.nodes, Roots)

FindingCycles ==
  /\ CycleInv(graph.nodes, graph.cycles, pending, path, seen)
  /\ answer = << >>

CyclesKnown ==
  /\ graph.cycles \in Seq(Seq(Nat)) /\ \A c \in ToSet(graph.cycles) : IsCycle(graph.nodes, c)
  /\ graph.cycles = << >> <=> \A id \in Ids : id \notin BelowIn(graph.nodes, id)

(* The inductive invariant.                                                *)
(* The graph has the nodes of the scene, each with its parent, and a node  *)
(* whose parent is there is a child of it.                                 *)
FromScene(s, nodes) ==
  /\ \A i \in DOMAIN s : s[i].id \in DOMAIN nodes
  /\ \A id \in DOMAIN nodes : \E i \in DOMAIN s : s[i].id = id /\ s[i].parent = nodes[id].parent
  /\ \A id \in DOMAIN nodes :
       nodes[id].parent \in DOMAIN nodes \ {NoId} => id \in ToSet(nodes[nodes[id].parent].children)

GraphInv ==
  /\ scene \in Scenes /\ IsGraphRecord(graph)
  /\ stage = "link" => Idle /\ graph.cycles = << >>
  /\ stage # "link" => LinksOk(graph.nodes, graph.roots)
  /\ stage = "mark" => Marking
  /\ stage \notin {"link", "mark"} => MarksKnown
  /\ stage = "find_cycles" => FindingCycles
  /\ stage \notin Building => CyclesKnown
  /\ stage = "built" => Idle

WithLinks(g, n, r) == [g EXCEPT !.nodes = n, !.roots = r]
WithNodes(g, n) == [g EXCEPT !.nodes = n]
WithUnreachable(g, n) == [g EXCEPT !.unreachable = n]
WithCycles(g, n) == [g EXCEPT !.cycles = n]

LEMMA GraphUpdates ==
  ASSUME NEW g, IsGraphRecord(g), NEW n, NEW r
  PROVE  /\ LET h == WithLinks(g, n, r)
            IN IsGraphRecord(h) /\ h.nodes = n /\ h.roots = r /\ h.cycles = g.cycles
         /\ LET h == WithNodes(g, n)
            IN IsGraphRecord(h) /\ h.nodes = n /\ h.roots = g.roots /\ h.cycles = g.cycles
         /\ LET h == WithUnreachable(g, n)
            IN /\ IsGraphRecord(h) /\ h.nodes = g.nodes /\ h.roots = g.roots /\ h.cycles = g.cycles
               /\ h.unreachable = n
         /\ LET h == WithCycles(g, n)
            IN /\ IsGraphRecord(h) /\ h.nodes = g.nodes /\ h.roots = g.roots /\ h.cycles = n
               /\ h.unreachable = g.unreachable
<1>1. PICK a, b, c, d : g = [nodes |-> a, roots |-> b, unreachable |-> c, cycles |-> d]
  BY DEF IsGraphRecord
<1>2. WithLinks(g, n, r) = [nodes |-> n, roots |-> r, unreachable |-> c, cycles |-> d]
  <2>1. PICK f : f = [g EXCEPT !.nodes = n]
    OBVIOUS
  <2>2. f = [nodes |-> n, roots |-> b, unreachable |-> c, cycles |-> d]
    BY <1>1, <2>1
  <2>3. WithLinks(g, n, r) = [f EXCEPT !.roots = r]
    BY <2>1 DEF WithLinks
  <2> QED BY <2>2, <2>3
<1>3. WithNodes(g, n) = [nodes |-> n, roots |-> b, unreachable |-> c, cycles |-> d]
  BY <1>1 DEF WithNodes
<1>4. WithUnreachable(g, n) = [nodes |-> a, roots |-> b, unreachable |-> n, cycles |-> d]
  BY <1>1 DEF WithUnreachable
<1>5. WithCycles(g, n) = [nodes |-> a, roots |-> b, unreachable |-> c, cycles |-> n]
  BY <1>1 DEF WithCycles
<1> QED BY <1>1, <1>2, <1>3, <1>4, <1>5 DEF IsGraphRecord

LEMMA SceneTyped ==
  ASSUME NEW s \in Scenes
  PROVE  /\ s \in Seq([id : Nat, parent : Nat, children : SUBSET Nat])
         /\ \A i \in 1..Len(s) : /\ s[i].id \in Nat /\ s[i].parent \in Nat /\ s[i].children \subseteq Nat
                                 /\ IsFiniteSet(s[i].children)
         /\ DOMAIN s = 1..Len(s) /\ Len(s) \in Nat
         /\ IsFiniteSet({s[i].id : i \in DOMAIN s}) /\ {s[i].id : i \in DOMAIN s} \subseteq Nat
<1>1. s \in Seq([id : Nat, parent : Nat, children : SUBSET Nat]) /\ NoId \in Nat
  BY GraphAssumption
<1>2. DOMAIN s = 1..Len(s) /\ Len(s) \in Nat
  BY <1>1, LenProperties
<1>3. \A i \in 1..Len(s) : s[i] \in [id : Nat, parent : Nat, children : SUBSET Nat]
  BY <1>1, ElementOfSeq
<1>4. \A i \in 1..Len(s) : IsFiniteSet(s[i].children)
  BY <1>2, GraphAssumption
<1> DEFINE f == [i \in DOMAIN s |-> s[i].id]
<1>5. IsFiniteSet(DOMAIN s)
  BY <1>2, Interval
<1>6. IsFiniteSet({f[i] : i \in DOMAIN s})
  <2> HIDE DEF f
  <2> QED BY <1>5, ImageFinite
<1>7. {f[i] : i \in DOMAIN s} = {s[i].id : i \in DOMAIN s}
  OBVIOUS
<1> QED BY <1>1, <1>2, <1>3, <1>4, <1>6, <1>7

LEMMA LinkNodesLinks ==
  ASSUME GraphInv, LinkNodes
  PROVE  /\ IsGraphRecord(graph') /\ graph'.cycles = << >>
         /\ LinksOk(graph'.nodes, graph'.roots)
         /\ pending' \in Seq([id : Nat, depth : Nat])
         /\ MarkInv(graph'.nodes, ToSet(graph'.roots), ToSet(pending'))
         /\ FromScene(scene, graph'.nodes)
<1> DEFINE ids == {scene[i].id : i \in DOMAIN scene}
           First(id) == scene[CHOOSE i \in DOMAIN scene :
                                scene[i].id = id /\ \A j \in 1..i - 1 : scene[j].id # id]
           HasParent(node) == node.parent # NoId /\ node.parent \in ids
           Named(id) == {scene[i].id : i \in {j \in DOMAIN scene :
                                                HasParent(scene[j]) /\ scene[j].parent = id}}
           info(id) == [parent |-> First(id).parent,
                        children |-> SortUnique(First(id).children \cup Named(id)),
                        depth |-> 0, reachable |-> FALSE]
           tops == {scene[i].id : i \in {j \in DOMAIN scene : ~HasParent(scene[j])}}
           top == SortUnique(tops)
           linked == [id \in ids |-> info(id)]
<1>1. /\ scene \in Scenes /\ IsGraphRecord(graph) /\ graph.cycles = << >>
  BY DEF GraphInv, LinkNodes
<1>2. /\ graph' = [graph EXCEPT !.nodes = linked, !.roots = top]
      /\ pending' = [i \in DOMAIN top |-> [id |-> top[i], depth |-> 0]]
  BY DEF LinkNodes, Each
<1>3. /\ \A i \in DOMAIN scene : /\ scene[i].id \in Nat /\ scene[i].parent \in Nat
                                 /\ scene[i].children \subseteq Nat /\ IsFiniteSet(scene[i].children)
      /\ DOMAIN scene = 1..Len(scene) /\ Len(scene) \in Nat
      /\ IsFiniteSet(ids) /\ ids \subseteq Nat
  BY <1>1, SceneTyped
<1>4. ASSUME NEW id \in ids PROVE \E i \in DOMAIN scene : First(id) = scene[i] /\ scene[i].id = id
  <2> DEFINE S == {i \in DOMAIN scene : scene[i].id = id}
  <2>1. S \subseteq Nat /\ S # {}
    BY <1>3
  <2>2. PICK i \in S : \A j \in S : i <= j
    <3> HIDE DEF S
    <3> QED BY <2>1, LeastMember
  <2>3. ASSUME NEW j \in 1..i - 1 PROVE scene[j].id # id
    <3>1. j \in DOMAIN scene /\ ~(i <= j)
      BY <1>3, <2>1
    <3> QED BY <2>2, <3>1
  <2>4. \E k \in DOMAIN scene : scene[k].id = id /\ \A j \in 1..k - 1 : scene[j].id # id
    BY <2>2, <2>3
  <2> QED BY <2>4
<1>5. \A id : Named(id) \subseteq ids
  OBVIOUS
<1>6. ASSUME NEW id \in ids
      PROVE  /\ First(id).parent \in Nat
             /\ First(id).children \cup Named(id) \subseteq Nat
             /\ IsFiniteSet(First(id).children \cup Named(id))
  <2>1. PICK i \in DOMAIN scene : First(id) = scene[i] /\ scene[i].id = id
    BY <1>4
  <2>2. PICK node : node = First(id)
    OBVIOUS
  <2>3. node.parent \in Nat /\ node.children \subseteq Nat /\ IsFiniteSet(node.children)
    BY <1>3, <2>1, <2>2
  <2>4. PICK named : named = Named(id)
    OBVIOUS
  <2>5. named \subseteq Nat /\ named \in SUBSET ids
    BY <1>3, <1>5, <2>4
  <2>6. IsFiniteSet(named)
    <3> HIDE DEF ids, Named
    <3> QED BY <1>3, <2>5, FS_Subset
  <2>7. IsFiniteSet(node.children \cup named)
    BY <2>3, <2>6, FS_Union
  <2> QED BY <2>2, <2>3, <2>4, <2>5, <2>7
<1>7. tops \subseteq ids /\ IsFiniteSet(tops) /\ tops \subseteq Nat
  <2>1. tops \in SUBSET ids
    OBVIOUS
  <2> HIDE DEF tops, ids
  <2> QED BY <1>3, <2>1, FS_Subset
<1>8. top \in Seq(Nat) /\ ToSet(top) = tops /\ NoRepeats(top)
  <2> HIDE DEF tops
  <2>1. top \in Seq(tops) /\ ToSet(top) = tops /\ NoRepeats(top)
    BY <1>7, SortUniqueLists
  <2>2. top \in Seq(Nat)
    <3> HIDE DEF top
    <3>1. Len(top) \in Nat /\ top \in [1..Len(top) -> tops]
      BY <2>1, LenProperties
    <3>2. top \in [1..Len(top) -> Nat]
      BY <1>7, <3>1
    <3> QED BY <3>1, <3>2, FunctionIsSeq
  <2> QED BY <2>1, <2>2
<1> DEFINE kids(id) == SortUnique(First(id).children \cup Named(id))
<1>9. ASSUME NEW id \in ids
      PROVE  kids(id) \in Seq(Nat) /\ NoRepeats(kids(id)) /\ ToSet(kids(id)) = First(id).children \cup Named(id)
  <2>1. PICK S : S = First(id).children \cup Named(id)
    OBVIOUS
  <2>2. S \subseteq Nat /\ IsFiniteSet(S)
    BY <1>6, <2>1
  <2>3. PICK s : s = SortUnique(S)
    OBVIOUS
  <2>4. s \in Seq(S) /\ ToSet(s) = S /\ NoRepeats(s)
    BY <2>2, <2>3, SortUniqueLists
  <2>5. s \in Seq(Nat)
    <3>1. Len(s) \in Nat /\ s \in [1..Len(s) -> S]
      BY <2>4, LenProperties
    <3>2. s \in [1..Len(s) -> Nat]
      BY <2>2, <3>1
    <3> QED BY <3>1, <3>2, FunctionIsSeq
  <2> QED BY <2>1, <2>3, <2>4, <2>5
<1>10. DOMAIN linked = ids /\ \A id \in ids : linked[id] = [parent |-> First(id).parent, children |-> kids(id),
                                                           depth |-> 0, reachable |-> FALSE]
  OBVIOUS
<1>11. \A id \in ids : id \in tops \/ \E p \in ids : id \in Named(p)
  OBVIOUS
<1>12. PICK nodes, roots : nodes = linked /\ roots = top
  OBVIOUS
<1>13. PICK Fparent, Fnamed, K : /\ Fparent = [id \in ids |-> First(id).parent]
                                  /\ Fnamed = [id \in ids |-> Named(id)]
                                  /\ K = [id \in ids |-> kids(id)]
  OBVIOUS
<1>14. /\ DOMAIN nodes = ids
       /\ \A id \in ids : nodes[id] = [parent |-> Fparent[id], children |-> K[id], depth |-> 0, reachable |-> FALSE]
  <2>1. \A id \in ids : Fparent[id] = First(id).parent /\ K[id] = kids(id)
    <3> HIDE DEF First, kids, ids
    <3> QED BY <1>13
  <2> HIDE DEF First, kids, ids, linked
  <2> QED BY <1>10, <1>12, <2>1
<1>15. /\ \A id \in ids : /\ Fparent[id] \in Nat /\ K[id] \in Seq(Nat) /\ NoRepeats(K[id])
                          /\ Fnamed[id] \subseteq ToSet(K[id])
       /\ \A id \in ids : id \in tops \/ \E p \in ids : id \in Fnamed[p]
  BY <1>6, <1>9, <1>11, <1>13
<1>28. ASSUME NEW id \in ids
       PROVE  /\ \E i \in DOMAIN scene : scene[i].id = id /\ scene[i].parent = Fparent[id]
              /\ Fparent[id] \in ids \ {NoId} => id \in Fnamed[Fparent[id]]
              /\ Fparent[id] \notin ids \ {NoId} => id \in tops
  <2>1. PICK i \in DOMAIN scene : First(id) = scene[i] /\ scene[i].id = id
    BY <1>4
  <2>2. Fparent[id] = scene[i].parent
    <3> HIDE DEF First, ids
    <3> QED BY <1>13, <2>1
  <2>3. ASSUME scene[i].parent \in ids \ {NoId} PROVE id \in Fnamed[scene[i].parent]
    <3>1. HasParent(scene[i])
      BY <2>3
    <3>2. id \in Named(scene[i].parent)
      <4> HIDE DEF HasParent, ids, First
      <4> QED BY <2>1, <3>1
    <3> HIDE DEF Named, ids
    <3> QED BY <1>13, <2>3, <3>2
  <2>4. scene[i].parent \notin ids \ {NoId} => id \in tops
    <3>1. scene[i].parent \notin ids \ {NoId} => ~HasParent(scene[i])
      OBVIOUS
    <3>2. ~HasParent(scene[i]) => scene[i].id \in tops
      <4> HIDE DEF HasParent
      <4> QED OBVIOUS
    <3> HIDE DEF HasParent, ids, First, tops
    <3> QED BY <2>1, <3>1, <3>2
  <2> HIDE DEF tops, First, ids, Named, HasParent
  <2> QED BY <2>1, <2>2, <2>3, <2>4
<1>29. \A i \in DOMAIN scene : scene[i].id \in ids
  OBVIOUS
<1> HIDE DEF ids, First, HasParent, Named, info, tops, top, linked, kids
<1>16. nodes = [id \in ids |-> [parent |-> Fparent[id], children |-> K[id], depth |-> 0, reachable |-> FALSE]]
  <2>1. nodes = [id \in DOMAIN nodes |-> nodes[id]]
    BY <1>12 DEF linked
  <2> QED BY <1>14, <2>1
<1>17. IsGraph(nodes)
  <2>1. ASSUME NEW id \in ids PROVE nodes[id] \in Info /\ nodes[id].children = K[id]
    <3>1. nodes[id] = [parent |-> Fparent[id], children |-> K[id], depth |-> 0, reachable |-> FALSE]
      BY <1>14
    <3>2. Fparent[id] \in Nat /\ K[id] \in Seq(Nat)
      BY <1>15
    <3> QED BY <3>1, <3>2 DEF Info
  <2>2. nodes \in [DOMAIN nodes -> Info]
    BY <1>14, <1>16, <2>1
  <2> QED BY <1>3, <1>14, <1>15, <2>1, <2>2 DEF IsGraph
<1>18. /\ \A id \in ids : nodes[id].children = K[id] /\ ~nodes[id].reachable
       /\ \A id \in ids : nodes[id].parent = Fparent[id]
  BY <1>14
<1>30. FromScene(scene, nodes)
  <2>1. ASSUME NEW id \in ids, nodes[id].parent \in ids \ {NoId}
        PROVE  id \in ToSet(nodes[nodes[id].parent].children)
    <3>1. PICK p : p = nodes[id].parent
      OBVIOUS
    <3>2. p \in ids \ {NoId} /\ p = Fparent[id]
      BY <1>18, <2>1, <3>1
    <3>3. id \in Fnamed[p]
      BY <1>28, <3>2
    <3>4. id \in ToSet(nodes[p].children)
      BY <1>15, <1>18, <3>2, <3>3
    <3> QED BY <3>1, <3>4
  <2>2. \A id \in ids : \E i \in DOMAIN scene : scene[i].id = id /\ scene[i].parent = nodes[id].parent
    BY <1>18, <1>28
  <2> QED BY <1>14, <1>29, <2>1, <2>2 DEF FromScene
<1>19. LinksOk(nodes, roots)
  <2>1. \A id \in ids : nodes[id].parent \notin ids \ {NoId} => id \in tops
    BY <1>18, <1>28
  <2> QED BY <1>7, <1>8, <1>12, <1>14, <1>15, <1>17, <1>18, <2>1 DEF LinksOk
<1>20. PICK calls : calls = [i \in DOMAIN roots |-> [id |-> roots[i], depth |-> 0]]
  OBVIOUS
<1>21. roots \in Seq(Nat) /\ DOMAIN roots = 1..Len(roots) /\ Len(roots) \in Nat
       /\ ToSet(roots) = {roots[i] : i \in 1..Len(roots)} /\ \A i \in 1..Len(roots) : roots[i] \in Nat
  BY <1>8, <1>12, LenProperties, ToSetOfSeq, ElementOfSeq
<1>22. calls \in Seq([id : Nat, depth : Nat]) /\ Len(calls) = Len(roots)
  <2>1. calls \in [1..Len(roots) -> [id : Nat, depth : Nat]]
    BY <1>20, <1>21
  <2> QED BY <1>21, <2>1, FunctionIsSeq
<1>23. \A i \in 1..Len(roots) : calls[i].id = roots[i] /\ calls[i].depth = 0
  BY <1>20, <1>21
<1>24. ToSet(calls) = {calls[i] : i \in 1..Len(roots)}
  BY <1>22, ToSetOfSeq
<1>25. MarkInv(nodes, ToSet(roots), ToSet(calls))
  <2>1. \A call \in ToSet(calls) : call.id \in ToSet(roots) /\ call.id \in Nat /\ call.depth = 0
    BY <1>21, <1>23, <1>24
  <2>2. \A id \in ToSet(roots) : \E call \in ToSet(calls) : call.id = id /\ call.depth = 0
    BY <1>21, <1>23, <1>24
  <2>3. \A call \in ToSet(calls) : call.id \in Layer(nodes, ToSet(roots), call.depth)
    BY <2>1, LayerSteps
  <2> QED BY <1>14, <1>18, <2>1, <2>2, <2>3 DEF MarkInv
<1>26. graph' = WithLinks(graph, nodes, roots) /\ pending' = calls
  BY <1>2, <1>12, <1>20 DEF WithLinks
<1>27. /\ IsGraphRecord(graph') /\ graph'.cycles = << >> /\ graph'.nodes = nodes /\ graph'.roots = roots
  BY <1>1, <1>26, GraphUpdates
<1> QED BY <1>19, <1>22, <1>25, <1>26, <1>27, <1>30

(* The calls for these ids at a depth.                                     *)
CallsFor(ids, d) == [i \in DOMAIN ids |-> [id |-> ids[i], depth |-> d]]

LEMMA CallsForIds ==
  ASSUME NEW ids \in Seq(Nat), NEW d \in Nat
  PROVE  /\ CallsFor(ids, d) \in Seq([id : Nat, depth : Nat])
         /\ \A c \in ToSet(CallsFor(ids, d)) : c.depth = d /\ c.id \in ToSet(ids)
         /\ \A id \in ToSet(ids) : \E c \in ToSet(CallsFor(ids, d)) : c.id = id
<1>0. PICK calls : calls = CallsFor(ids, d)
  OBVIOUS
<1>1. /\ DOMAIN ids = 1..Len(ids) /\ Len(ids) \in Nat /\ ToSet(ids) = {ids[i] : i \in 1..Len(ids)}
      /\ \A i \in 1..Len(ids) : ids[i] \in Nat
  BY LenProperties, ToSetOfSeq, ElementOfSeq
<1>2. calls \in [1..Len(ids) -> [id : Nat, depth : Nat]]
  BY <1>0, <1>1 DEF CallsFor
<1>3. calls \in Seq([id : Nat, depth : Nat]) /\ Len(calls) = Len(ids)
  BY <1>1, <1>2, FunctionIsSeq
<1>4. \A i \in 1..Len(ids) : calls[i].id = ids[i] /\ calls[i].depth = d
  BY <1>0, <1>1 DEF CallsFor
<1>5. ToSet(calls) = {calls[i] : i \in 1..Len(ids)}
  <2>1. PICK T : T = [id : Nat, depth : Nat]
    OBVIOUS
  <2>2. calls \in Seq(T)
    BY <1>3, <2>1
  <2> QED BY ONLY <1>3, <2>2, ToSetOfSeq
<1>6. \A c \in ToSet(calls) : c.depth = d /\ c.id \in ToSet(ids)
  BY <1>1, <1>4, <1>5
<1>7. ASSUME NEW id \in ToSet(ids) PROVE \E c \in ToSet(calls) : c.id = id
  <2>1. PICK i \in 1..Len(ids) : ids[i] = id
    BY <1>1
  <2> QED BY <1>4, <1>5, <2>1
<1> QED BY <1>0, <1>3, <1>6, <1>7

LEMMA MarkedInfo ==
  ASSUME NEW old \in Info, NEW d \in Nat, NEW new, new = [old EXCEPT !.reachable = TRUE],
         NEW info, info = [new EXCEPT !.depth = d]
  PROVE  /\ info \in Info /\ info.children = old.children /\ info.parent = old.parent
         /\ info.depth = d /\ info.reachable
<1>1. new \in Info /\ new.children = old.children /\ new.parent = old.parent /\ new.reachable
  BY DEF Info
<1>2. /\ info \in Info /\ info.children = new.children /\ info.parent = new.parent
      /\ info.depth = d /\ info.reachable = new.reachable
  BY <1>1 DEF Info
<1> QED BY <1>1, <1>2

LEMMA MarkReachableMarks ==
  ASSUME GraphInv, MarkReachable
  PROVE  /\ IsGraphRecord(graph') /\ graph'.cycles = << >>
         /\ graph'.roots = graph.roots
         /\ LinksOk(graph'.nodes, graph'.roots)
         /\ pending' \in Seq([id : Nat, depth : Nat])
         /\ MarkInv(graph'.nodes, ToSet(graph'.roots), ToSet(pending'))
         /\ SameLinks(graph.nodes, graph'.nodes)
         /\ \A id \in DOMAIN graph.nodes : graph'.nodes[id].parent = graph.nodes[id].parent
<1>1. PICK nodes : nodes = graph.nodes
  OBVIOUS
<1>2. PICK call : call = Head(pending)
  OBVIOUS
<1>3. PICK x, d : x = call.id /\ d = call.depth
  OBVIOUS
<1>4. /\ IsGraphRecord(graph) /\ LinksOk(nodes, graph.roots) /\ graph.cycles = << >>
      /\ pending \in Seq([id : Nat, depth : Nat]) /\ pending # << >>
      /\ MarkInv(nodes, Roots, ToSet(pending))
  BY <1>1 DEF GraphInv, Marking, MarkReachable
<1>5. x \in DOMAIN nodes /\ ~MarkedFor(nodes, x, d)
  BY <1>1, <1>2, <1>3 DEF MarkReachable, ReachesCloser, GraphContainsNode, Ids, MarkedFor
<1>6. /\ graph' = [graph EXCEPT !.nodes[x].reachable = TRUE, !.nodes[x].depth = d]
      /\ pending' = [i \in DOMAIN nodes[x].children |-> [id |-> nodes[x].children[i], depth |-> d + 1]]
                      \o Tail(pending)
  BY <1>1, <1>2, <1>3, <1>5 DEF MarkReachable, Children, GraphContainsNode, Ids, Each
<1>7. IsGraph(nodes) /\ nodes \in [DOMAIN nodes -> Info] /\ nodes[x] \in Info
  BY <1>4, <1>5 DEF LinksOk, IsGraph
<1>8. PICK new, info : new = [nodes[x] EXCEPT !.reachable = TRUE] /\ info = [new EXCEPT !.depth = d]
  OBVIOUS
<1>9. PICK ch : ch = nodes[x].children
  OBVIOUS
<1>10. PICK others : others = [nodes EXCEPT ![x] = info]
  OBVIOUS
<1>11. graph' = WithNodes(graph, others)
  <2>1. PICK b, c, u : graph = [nodes |-> nodes, roots |-> b, unreachable |-> u, cycles |-> c]
    BY <1>1, <1>4 DEF IsGraphRecord
  <2>2. PICK g : g = [graph EXCEPT !.nodes[x].reachable = TRUE]
    OBVIOUS
  <2>3. PICK some : some = [nodes EXCEPT ![x] = [nodes[x] EXCEPT !.reachable = TRUE]]
    OBVIOUS
  <2>4. g = [nodes |-> some, roots |-> b, unreachable |-> u, cycles |-> c]
    BY <2>1, <2>2, <2>3
  <2>5. graph' = [g EXCEPT !.nodes[x].depth = d]
    BY <1>6, <2>2
  <2>6. PICK more : more = [some EXCEPT ![x] = [some[x] EXCEPT !.depth = d]]
    OBVIOUS
  <2>7. graph' = [nodes |-> more, roots |-> b, unreachable |-> u, cycles |-> c]
    BY <2>4, <2>5, <2>6
  <2>8. more = others
    <3>1. some = [nodes EXCEPT ![x] = new] /\ DOMAIN some = DOMAIN nodes /\ some[x] = new
      BY <1>5, <1>7, <1>8, <2>3
    <3>4. more = [some EXCEPT ![x] = info]
      BY <1>8, <2>6, <3>1
    <3>5. \A id \in DOMAIN nodes : more[id] = others[id]
      BY <1>5, <1>7, <1>10, <2>3, <3>1, <3>4
    <3>6. DOMAIN more = DOMAIN nodes /\ DOMAIN others = DOMAIN nodes
      BY <1>7, <1>10, <3>1, <3>4
    <3>7. more = [id \in DOMAIN nodes |-> more[id]] /\ others = [id \in DOMAIN nodes |-> others[id]]
      BY <1>10, <3>4, <3>6
    <3> QED BY <3>5, <3>7
  <2>9. WithNodes(graph, others) = [nodes |-> others, roots |-> b, unreachable |-> u, cycles |-> c]
    BY <2>1 DEF WithNodes
  <2> QED BY <2>7, <2>8, <2>9
<1>12. /\ IsGraphRecord(graph') /\ graph'.cycles = << >> /\ graph'.nodes = others /\ graph'.roots = graph.roots
  BY <1>4, <1>11, GraphUpdates
<1>13. /\ DOMAIN others = DOMAIN nodes /\ others[x] = info
       /\ \A id \in DOMAIN nodes : id # x => others[id] = nodes[id]
  BY <1>5, <1>7, <1>10
<1>15. PICK rest : rest = Tail(pending)
  OBVIOUS
<1>16. /\ call \in [id : Nat, depth : Nat] /\ rest \in Seq([id : Nat, depth : Nat])
       /\ ToSet(pending) = {call} \cup ToSet(rest)
  BY <1>2, <1>4, <1>15, HeadAndTail
<1>17. x \in Nat /\ d \in Nat /\ d + 1 \in Nat
  BY <1>3, <1>16
<1>14. /\ info \in Info /\ info.reachable /\ info.depth = d /\ info.children = ch
       /\ info.parent = nodes[x].parent
       /\ nodes[x].children = ch /\ ch \in Seq(Nat)
  BY <1>7, <1>8, <1>9, <1>17, MarkedInfo DEF Info
<1>18. PICK calls : calls = CallsFor(ch, d + 1)
  OBVIOUS
<1>19. /\ calls \in Seq([id : Nat, depth : Nat])
       /\ \A c \in ToSet(calls) : c.depth = d + 1 /\ c.id \in ToSet(ch)
       /\ \A id \in ToSet(ch) : \E c \in ToSet(calls) : c.id = id
  BY <1>14, <1>17, <1>18, CallsForIds
<1>20. pending' = calls \o rest
  BY <1>6, <1>14, <1>15, <1>18 DEF CallsFor
<1>21. pending' \in Seq([id : Nat, depth : Nat]) /\ ToSet(pending') = ToSet(calls) \cup ToSet(rest)
  BY <1>16, <1>19, <1>20, ConcatPlaces, ToSetConcat
<1>22. SameLinks(nodes, others)
  BY <1>13, <1>14 DEF SameLinks
<1>23. MarkInv(others, Roots, ToSet(calls) \cup ToSet(rest))
  <2>1. call.id = x /\ call.depth = d
    BY <1>3
  <2>2. MarkInv(nodes, Roots, {call} \cup ToSet(rest))
    BY <1>4, <1>16
  <2>3. others[x].reachable /\ others[x].depth = d /\ ToSet(nodes[x].children) = ToSet(ch)
    BY <1>13, <1>14
  <2>4. PICK below, left : below = ToSet(calls) /\ left = ToSet(rest)
    OBVIOUS
  <2>5. /\ \A c \in below : c.depth = d + 1 /\ c.id \in ToSet(nodes[x].children)
        /\ \A id \in ToSet(nodes[x].children) : \E c \in below : c.id = id
    BY <1>19, <2>3, <2>4
  <2>6. MarkInv(others, Roots, below \cup left)
    <3>1. MarkInv(nodes, Roots, {call} \cup left)
      BY <2>2, <2>4
    <3>2. \A id \in DOMAIN nodes : id # x => others[id] = nodes[id]
      BY <1>13
    <3>3. others[x].reachable /\ others[x].depth = d
      BY <2>3
    <3>4. IsGraph(nodes)
      BY <1>7
    <3>5. \A c \in below : c.depth = call.depth + 1 /\ c.id \in ToSet(nodes[call.id].children)
      BY <2>1, <2>5
    <3> QED BY <1>5, <1>22, <2>1, <2>5, <3>1, <3>2, <3>3, <3>4, <3>5, MarkStep, SMTT(30)
  <2> QED BY <2>4, <2>6
<1>24. IsGraph(others)
  <2>1. info \in Info
    BY <1>14
  <2>2. \A id \in DOMAIN nodes : others[id] \in Info /\ others[id].children = nodes[id].children
    BY <1>7, <1>13, <1>14, <2>1
  <2>3. others \in [DOMAIN others -> Info]
    BY <1>10, <1>13, <2>2
  <2> QED BY <1>7, <1>13, <2>2, <2>3 DEF IsGraph
<1>25. LinksOk(others, graph.roots)
  <2>1. \A id \in DOMAIN nodes : others[id].children = nodes[id].children
    BY <1>22 DEF SameLinks
  <2>2. \A id \in DOMAIN nodes : others[id].parent = nodes[id].parent
    BY <1>13, <1>14
  <2> QED BY <1>4, <1>13, <1>24, <2>1, <2>2 DEF LinksOk
<1>26. \A id \in DOMAIN nodes : others[id].parent = nodes[id].parent
  BY <1>13, <1>14
<1> QED BY <1>1, <1>12, <1>21, <1>22, <1>23, <1>25, <1>26 DEF Roots

LEMMA EnteredForm ==
  ASSUME NEW id
  PROVE  Each(Children(id), Enter) \o <<Leave(id)>> \o Tail(pending)
           = Entered(pending, id, ChildrenIn(graph.nodes, id))
BY LayersOfGraph DEF Each, Enter, Leave, Entered

LEMMA BuildStep ==
  ASSUME GraphInv,
         \/ LinkNodes \/ MarkReachable \/ MarkNothing \/ CollectUnreachable
         \/ EnterForCycles \/ ReportCycle \/ SkipForCycles \/ (Return /\ stage = "find_cycles")
         \/ FinishGraph
  PROVE  GraphInv'
<1>0. scene' = scene /\ scene \in Scenes /\ IsGraphRecord(graph)
  BY DEF GraphInv, LinkNodes, MarkReachable, MarkNothing, CollectUnreachable, EnterForCycles,
         ReportCycle, SkipForCycles, Return, FinishGraph
<1>1. CASE LinkNodes
  <2>1. /\ path = << >> /\ seen = {} /\ answer = << >>
        /\ path' = path /\ seen' = seen /\ answer' = answer /\ stage' = "mark"
    BY <1>1 DEF GraphInv, LinkNodes, Idle
  <2>2. Marking' /\ LinksOk(graph'.nodes, graph'.roots) /\ IsGraphRecord(graph')
    BY <1>1, <2>1, LinkNodesLinks DEF Marking, Roots
  <2> QED BY <1>0, <2>1, <2>2 DEF GraphInv, Building
<1>2. CASE MarkReachable
  <2>1. /\ path = << >> /\ seen = {} /\ answer = << >>
        /\ path' = path /\ seen' = seen /\ answer' = answer /\ stage' = "mark"
    BY <1>2 DEF GraphInv, MarkReachable, Marking
  <2>2. Marking' /\ LinksOk(graph'.nodes, graph'.roots) /\ IsGraphRecord(graph')
    BY <1>2, <2>1, MarkReachableMarks DEF Marking, Roots
  <2> QED BY <1>0, <2>1, <2>2 DEF GraphInv, Building
<1>3. CASE MarkNothing
  <2>1. /\ stage = "mark" /\ stage' = "mark" /\ graph' = graph /\ pending # << >>
        /\ pending' = Tail(pending) /\ path' = path /\ seen' = seen /\ answer' = answer
        /\ ~ReachesCloser(Head(pending))
    BY <1>3 DEF MarkNothing
  <2>2. /\ pending \in Seq([id : Nat, depth : Nat])
        /\ MarkInv(graph.nodes, Roots, ToSet(pending))
        /\ path = << >> /\ seen = {} /\ answer = << >> /\ graph.cycles = << >>
        /\ LinksOk(graph.nodes, graph.roots) /\ IsGraph(graph.nodes)
    BY <2>1 DEF GraphInv, Marking, LinksOk
  <2>3. PICK call, rest : call = Head(pending) /\ rest = Tail(pending)
    OBVIOUS
  <2>4. rest \in Seq([id : Nat, depth : Nat]) /\ ToSet(pending) = {call} \cup ToSet(rest)
    BY <2>1, <2>2, <2>3, HeadAndTail
  <2>5. ~(call.id \in DOMAIN graph.nodes /\ ~MarkedFor(graph.nodes, call.id, call.depth))
    BY <2>1, <2>3 DEF ReachesCloser, GraphContainsNode, Ids, MarkedFor
  <2>6. MarkInv(graph.nodes, Roots, ToSet(rest))
    BY <2>2, <2>4, <2>5, MarkSkip
  <2>7. Marking'
    BY <2>1, <2>2, <2>3, <2>4, <2>6 DEF Marking, Roots
  <2> QED BY <1>0, <2>1, <2>2, <2>7 DEF GraphInv, Building
<1>4. CASE CollectUnreachable
  <2> DEFINE lost == {id \in Ids : ~graph.nodes[id].reachable}
             nodes == graph.nodes
  <2>1. /\ stage = "mark" /\ stage' = "find_cycles" /\ pending = << >>
        /\ graph' = WithUnreachable(graph, SortUnique(lost))
        /\ pending' = [i \in DOMAIN SortUnique(Ids) |-> Enter(SortUnique(Ids)[i])]
        /\ path' = path /\ seen' = seen /\ answer' = answer
    BY <1>4 DEF CollectUnreachable, WithUnreachable, Each
  <2>2. /\ MarkInv(nodes, Roots, ToSet(pending))
        /\ path = << >> /\ seen = {} /\ answer = << >> /\ graph.cycles = << >>
        /\ LinksOk(nodes, graph.roots) /\ IsGraph(nodes)
    BY <2>1 DEF GraphInv, Marking, LinksOk
  <2>3. /\ IsGraphRecord(graph') /\ graph'.nodes = nodes /\ graph'.roots = graph.roots
        /\ graph'.cycles = << >> /\ graph'.unreachable = SortUnique(lost)
    BY <1>0, <2>1, <2>2, GraphUpdates
  <2>4. Marked(nodes, Roots)
    <3>1. ToSet(pending) = {}
      BY <2>1, NoneInEmpty
    <3>2. MarkInv(nodes, Roots, {})
      BY <2>2, <3>1
    <3> HIDE DEF nodes
    <3> QED BY <2>2, <3>2, MarkingEnds
  <2>5. Ids \subseteq Nat /\ IsFiniteSet(Ids) /\ Ids = DOMAIN nodes
    BY <2>2 DEF Ids, IsGraph
  <2>6. lost \subseteq Nat /\ IsFiniteSet(lost)
    <3>1. lost \in SUBSET Ids
      OBVIOUS
    <3> HIDE DEF lost
    <3> QED BY <2>5, <3>1, FS_Subset
  <2>7. \A S : S \subseteq Nat /\ IsFiniteSet(S) => SortUnique(S) \in Seq(Nat) /\ ToSet(SortUnique(S)) = S
    <3>1. SUFFICES ASSUME NEW S, S \subseteq Nat, IsFiniteSet(S)
                   PROVE  SortUnique(S) \in Seq(Nat) /\ ToSet(SortUnique(S)) = S
      OBVIOUS
    <3>2. PICK s : s = SortUnique(S)
      OBVIOUS
    <3>3. s \in Seq(S) /\ ToSet(s) = S
      BY <3>1, <3>2, SortUniqueLists
    <3>4. Len(s) \in Nat /\ s \in [1..Len(s) -> S]
      BY <3>3, LenProperties
    <3>5. s \in [1..Len(s) -> Nat]
      BY <3>1, <3>4
    <3>6. s \in Seq(Nat)
      BY <3>4, <3>5, FunctionIsSeq
    <3> QED BY <3>2, <3>3, <3>6
  <2>8. lost = Ids \ ClosureIn(nodes, Roots)
    BY <2>4, <2>5 DEF Marked
  <2>9. MarksKnown'
    <3>1. SortUnique(lost) \in Seq(Nat) /\ ToSet(SortUnique(lost)) = lost
      <4> HIDE DEF lost
      <4> QED BY <2>6, <2>7
    <3> HIDE DEF lost
    <3> QED BY <2>3, <2>4, <2>5, <2>8, <3>1 DEF MarksKnown, Roots, Ids
  <2>10. CycleInv(nodes, << >>, pending', << >>, {})
    <3>1. PICK ids \in Seq(Nat) : ids = SortUnique(Ids) /\ ToSet(ids) = DOMAIN nodes
      BY <2>5, <2>7
    <3>2. pending' = [i \in DOMAIN ids |-> Enter(ids[i])]
      BY <2>1, <3>1
    <3> HIDE DEF nodes
    <3> QED BY <3>1, <3>2, CyclesStart
  <2>11. FindingCycles'
    BY <2>1, <2>2, <2>3, <2>10 DEF FindingCycles
  <2> QED BY <1>0, <2>1, <2>2, <2>3, <2>9, <2>11 DEF GraphInv, Building
<1>5. ASSUME stage = "find_cycles", stage' = "find_cycles", IsGraphRecord(graph'),
             graph'.nodes = graph.nodes, graph'.roots = graph.roots, graph'.unreachable = graph.unreachable,
             answer' = answer, CycleInv(graph.nodes, graph'.cycles, pending', path', seen')
      PROVE  GraphInv'
  <2>1. MarksKnown' /\ FindingCycles' /\ LinksOk(graph'.nodes, graph'.roots)
    BY <1>5 DEF GraphInv, MarksKnown, FindingCycles, Roots, Ids
  <2> QED BY <1>0, <1>5, <2>1 DEF GraphInv, Building
<1>6. ASSUME stage = "find_cycles"
      PROVE  /\ CycleInv(graph.nodes, graph.cycles, pending, path, seen)
             /\ LinksOk(graph.nodes, graph.roots) /\ IsGraph(graph.nodes) /\ IsFiniteSet(DOMAIN graph.nodes)
             /\ pending \in Tasks
             /\ pending # << >> => pending[1] = Head(pending)
  <2>1. /\ CycleInv(graph.nodes, graph.cycles, pending, path, seen)
        /\ LinksOk(graph.nodes, graph.roots) /\ IsGraph(graph.nodes) /\ IsFiniteSet(DOMAIN graph.nodes)
    BY <1>6 DEF GraphInv, FindingCycles, LinksOk, IsGraph
  <2>2. pending \in Tasks
    BY <2>1 DEF CycleInv, Walk
  <2>3. pending # << >> => pending[1] = Head(pending)
    BY <2>2, HeadAndTail DEF Tasks
  <2> QED BY <2>1, <2>2, <2>3
<1>7. CASE EnterForCycles
  <2>1. /\ stage = "find_cycles" /\ pending # << >> /\ Head(pending).enters
        /\ Head(pending).id \notin seen /\ Head(pending).id \notin ToSet(path)
        /\ path' = Append(path, Head(pending).id)
        /\ pending' = Each(Children(Head(pending).id), Enter) \o <<Leave(Head(pending).id)>> \o Tail(pending)
        /\ graph' = graph /\ stage' = stage /\ seen' = seen /\ answer' = answer
    BY <1>7 DEF EnterForCycles, Entering, Descend
  <2>2. pending' = Entered(pending, pending[1].id, ChildrenIn(graph.nodes, pending[1].id))
    BY <1>6, <2>1, EnteredForm
  <2>3. CycleInv(graph.nodes, graph.cycles, pending', path', seen')
    BY <1>6, <2>1, <2>2, CyclesEnter
  <2> QED BY <1>0, <1>5, <2>1, <2>3
<1>8. CASE ReportCycle
  <2> DEFINE from == CHOOSE i \in DOMAIN path : path[i] = Head(pending).id
             cycle == SubSeq(path, from, Len(path))
  <2>1. /\ stage = "find_cycles" /\ pending # << >> /\ Head(pending).enters
        /\ Head(pending).id \in ToSet(path)
        /\ graph' = WithCycles(graph, Append(graph.cycles, cycle))
        /\ pending' = Tail(pending)
        /\ path' = path /\ stage' = stage /\ seen' = seen /\ answer' = answer
    BY <1>8 DEF ReportCycle, Entering, WithCycles
  <2>2. CycleInv(graph.nodes, Append(graph.cycles, cycle), pending', path', seen')
    BY <1>6, <2>1, CyclesReport
  <2>3. /\ IsGraphRecord(graph') /\ graph'.nodes = graph.nodes /\ graph'.roots = graph.roots
        /\ graph'.cycles = Append(graph.cycles, cycle) /\ graph'.unreachable = graph.unreachable
    <3>1. PICK more : more = Append(graph.cycles, cycle)
      OBVIOUS
    <3>2. graph' = WithCycles(graph, more)
      BY <2>1, <3>1
    <3>3. /\ IsGraphRecord(graph') /\ graph'.nodes = graph.nodes /\ graph'.roots = graph.roots
          /\ graph'.cycles = more /\ graph'.unreachable = graph.unreachable
      BY <1>0, <3>2, GraphUpdates
    <3> HIDE DEF cycle
    <3> QED BY <3>1, <3>3
  <2> HIDE DEF cycle
  <2> QED BY <1>5, <2>1, <2>2, <2>3
<1>9. CASE SkipForCycles
  <2>1. /\ stage = "find_cycles" /\ pending # << >> /\ Head(pending).enters
        /\ Head(pending).id \in seen /\ pending' = Tail(pending)
        /\ graph' = graph /\ path' = path /\ stage' = stage /\ seen' = seen /\ answer' = answer
    BY <1>9 DEF SkipForCycles, Entering
  <2>2. CycleInv(graph.nodes, graph.cycles, pending', path', seen')
    BY <1>6, <2>1, CyclesSkip
  <2> QED BY <1>0, <1>5, <2>1, <2>2
<1>10. CASE Return /\ stage = "find_cycles"
  <2>1. /\ pending # << >> /\ ~Head(pending).enters
        /\ path' = Front(path) /\ pending' = Tail(pending) /\ seen' = seen \cup {Head(pending).id}
        /\ graph' = graph /\ stage' = stage /\ answer' = answer
    BY <1>10 DEF Return
  <2>2. CycleInv(graph.nodes, graph.cycles, pending', path', seen')
    BY <1>6, <1>10, <2>1, CyclesReturn
  <2> QED BY <1>0, <1>5, <1>10, <2>1, <2>2
<1>11. CASE FinishGraph
  <2>1. /\ stage = "find_cycles" /\ pending = << >> /\ stage' = "built" /\ seen' = {}
        /\ graph' = graph /\ pending' = pending /\ path' = path /\ answer' = answer
    BY <1>11 DEF FinishGraph
  <2>2. /\ path = << >>
        /\ graph.cycles = << >> <=> \A id \in DOMAIN graph.nodes : id \notin BelowIn(graph.nodes, id)
    BY <1>6, <2>1, CyclesEnd
  <2>3. answer = << >> /\ MarksKnown /\ LinksOk(graph.nodes, graph.roots)
    BY <2>1 DEF GraphInv, FindingCycles
  <2>4. CyclesKnown'
    BY <1>6, <2>1, <2>2 DEF CyclesKnown, CycleInv, Ids
  <2>5. MarksKnown' /\ Idle'
    BY <2>1, <2>2, <2>3 DEF MarksKnown, Idle, Roots, Ids
  <2> QED BY <1>0, <2>1, <2>3, <2>4, <2>5 DEF GraphInv, Building
<1> QED BY <1>1, <1>2, <1>3, <1>4, <1>7, <1>8, <1>9, <1>10, <1>11

(* A query leaves the graph as it is.                                      *)
LEMMA QueryStep ==
  ASSUME GraphInv, scene' = scene, graph' = graph,
         stage \notin Building, stage' \notin Building \cup {"built"}
  PROVE  GraphInv'
<1>1. /\ scene \in Scenes /\ IsGraphRecord(graph)
      /\ LinksOk(graph.nodes, graph.roots) /\ MarksKnown /\ CyclesKnown
  BY DEF GraphInv, Building
<1>2. MarksKnown' /\ CyclesKnown'
  BY <1>1 DEF MarksKnown, CyclesKnown, Roots, Ids
<1> QED BY <1>1, <1>2 DEF GraphInv, Building

LEMMA GraphInvKept == GraphInv /\ [Next]_vars => GraphInv'
<1> SUFFICES ASSUME GraphInv, [Next]_vars PROVE GraphInv'
  OBVIOUS
<1>1. CASE UNCHANGED vars
  <2>1. /\ scene' = scene /\ graph' = graph /\ stage' = stage /\ query' = query
        /\ pending' = pending /\ path' = path /\ seen' = seen /\ answer' = answer
    BY <1>1 DEF vars
  <2>2. /\ Marking => Marking'
        /\ MarksKnown => MarksKnown'
        /\ FindingCycles => FindingCycles'
        /\ CyclesKnown => CyclesKnown'
        /\ Idle => Idle'
    BY <2>1 DEF Marking, MarksKnown, FindingCycles, CyclesKnown, Idle, Roots, Ids
  <2> QED BY <2>1, <2>2 DEF GraphInv
<1>2. CASE \/ LinkNodes \/ MarkReachable \/ MarkNothing \/ CollectUnreachable
           \/ EnterForCycles \/ ReportCycle \/ SkipForCycles \/ FinishGraph
  BY <1>2, BuildStep
<1>3. CASE Return
  <2>1. CASE stage = "find_cycles"
    BY <1>3, <2>1, BuildStep
  <2>2. CASE stage # "find_cycles"
    BY <1>3, <2>2, QueryStep DEF Return, Building
  <2> QED BY <2>1, <2>2
<1>4. CASE TraverseDepthFirst \/ EnterDepthFirst \/ SkipDepthFirst \/ TopologicalNodeOrder
  BY <1>4, QueryStep
  DEF TraverseDepthFirst, EnterDepthFirst, SkipDepthFirst, TopologicalNodeOrder, Ask, Entering, Building
<1>5. CASE TraverseBreadthFirst \/ VisitBreadthFirst
  BY <1>5, QueryStep DEF TraverseBreadthFirst, VisitBreadthFirst, Ask, Building
<1>6. ASSUME NEW id, DescendantsOf(id) \/ ReachableFrom(id) PROVE GraphInv'
  BY <1>6, QueryStep DEF DescendantsOf, ReachableFrom, Ask, Building
<1>7. CASE VisitDescendant \/ SkipDescendant \/ VisitReachable
  BY <1>7, QueryStep DEF VisitDescendant, SkipDescendant, VisitReachable, Building
<1>8. CASE ConnectedComponents \/ StartComponent \/ VisitNeighbors \/ FinishComponent
  BY <1>8, QueryStep
  DEF ConnectedComponents, StartComponent, VisitNeighbors, FinishComponent, Ask, Building
<1>9. CASE ComputeWorldTransforms \/ EnterForWorld \/ SkipForWorld \/ RefuseWorld \/ LeaveWithWorld
  <2>1. scene' = scene /\ graph' = graph /\ stage \notin Building /\ stage' \notin Building \cup {"built"}
    BY <1>9
    DEF ComputeWorldTransforms, EnterForWorld, SkipForWorld, RefuseWorld, LeaveWithWorld, Entering, Building
  <2> QED BY <2>1, QueryStep
<1>10. CASE Answer
  BY <1>10, QueryStep DEF Answer, Building
<1> QED BY <1>1, <1>2, <1>3, <1>4, <1>5, <1>6, <1>7, <1>8, <1>9, <1>10 DEF Next

(* The graph that BuildSceneGraph puts together, at every step of it and   *)
(* while the queries are answered.                                         *)
THEOREM GraphInvHolds == Spec => []GraphInv
<1>1. Init => GraphInv
  <2> SUFFICES ASSUME Init PROVE GraphInv
    OBVIOUS
  <2>1. IsGraphRecord(graph) /\ graph.cycles = << >>
    BY DEF Init, IsGraphRecord
  <2> QED BY <2>1 DEF Init, GraphInv, Idle, Building
<1> QED BY <1>1, GraphInvKept, PTL DEF Spec

(* MarkReachable marks what lies below the roots, with the length of a     *)
(* shortest way, and BuildSceneGraph lists the other nodes as unreachable. *)
THEOREM MarksAreShortest == Spec => []MarksShortestDepth
<1>1. GraphInv => MarksShortestDepth
  <2> SUFFICES ASSUME GraphInv, stage \notin {"link", "mark"}
               PROVE  /\ ToSet(graph.unreachable) = Ids \ Closure(Roots)
                      /\ \A id \in Ids :
                           LET node == graph.nodes[id]
                           IN /\ node.reachable <=> id \in Closure(Roots)
                              /\ node.reachable =>
                                   /\ id \in Within(Roots, node.depth)
                                   /\ node.depth > 0 => id \notin Within(Roots, node.depth - 1)
    BY DEF MarksShortestDepth
  <2>1. Marked(graph.nodes, Roots) /\ ToSet(graph.unreachable) = Ids \ ClosureIn(graph.nodes, Roots)
    BY DEF GraphInv, MarksKnown
  <2>2. ToSet(graph.unreachable) = Ids \ Closure(Roots)
    BY <2>1, LayersOfGraph
  <2>3. ASSUME NEW id \in Ids
        PROVE  /\ graph.nodes[id].reachable <=> id \in Closure(Roots)
               /\ graph.nodes[id].reachable =>
                    /\ id \in Within(Roots, graph.nodes[id].depth)
                    /\ graph.nodes[id].depth > 0 => id \notin Within(Roots, graph.nodes[id].depth - 1)
    BY <2>1, LayersOfGraph DEF Marked, Ids
  <2> QED BY <2>2, <2>3
<1> QED BY <1>1, GraphInvHolds, PTL

(* What FindCycles reports are cycles, it reports one when there is one,   *)
(* also among nodes that no root reaches, and counting edges and roots     *)
(* tells a forest.                                                         *)
THEOREM CyclesAreExact == Spec => []CyclesExact
<1>1. GraphInv => CyclesExact
  <2> DEFINE ParentsOf(id) == {p \in Ids : id \in ToSet(Children(p))}
             HangsOnce(id) == IF id \in Roots THEN ParentsOf(id) = {} ELSE Cardinality(ParentsOf(id)) = 1
  <2> SUFFICES ASSUME GraphInv, stage \notin Building
               PROVE  /\ graph.cycles = << >> <=> \A id \in Ids : id \notin Below(id)
                      /\ \A cycle \in ToSet(graph.cycles) :
                           AreDistinct(cycle) /\ IsLinked(Append(cycle, cycle[1]))
                      /\ GraphIsForest <=>
                           \A id \in Ids : /\ id \notin Below(id) /\ ToSet(Children(id)) \subseteq Ids
                                           /\ HangsOnce(id)
    BY Zenon DEF CyclesExact
  <2>1. LinksOk(graph.nodes, graph.roots) /\ CyclesKnown /\ IsGraph(graph.nodes)
    BY DEF GraphInv, LinksOk, Building
  <2>2. graph.cycles = << >> <=> \A id \in Ids : id \notin Below(id)
    BY <2>1, LayersOfGraph DEF CyclesKnown
  <2>3. ASSUME NEW cycle \in ToSet(graph.cycles)
        PROVE  AreDistinct(cycle) /\ IsLinked(Append(cycle, cycle[1]))
    <3>1. IsCycle(graph.nodes, cycle)
      BY <2>1 DEF CyclesKnown
    <3>2. AreDistinct(cycle)
      BY <3>1, DistinctIsNoRepeats DEF IsCycle
    <3>3. Linked(graph.nodes, Append(cycle, cycle[1]))
      BY <3>1 DEF IsCycle
    <3> QED BY <3>2, <3>3, LayersOfGraph DEF Linked, IsLinked
  <2>4. /\ GraphEdgeCount = Cardinality(Edges(graph.nodes)) /\ Ids = DOMAIN graph.nodes
        /\ \A id : Children(id) = ChildrenIn(graph.nodes, id)
        /\ \A id : ParentsOf(id) = ParentsIn(graph.nodes, id)
    BY LayersOfGraph DEF GraphEdgeCount, Edges, Ids, ParentsIn
  <2>5. Cardinality(Edges(graph.nodes)) + Len(graph.roots) = Cardinality(Ids) <=>
          \A id \in Ids : ToSet(Children(id)) \subseteq Ids /\ HangsOnce(id)
    <3>1. \A id : HangsOnce(id) <=> HangsOnceIn(graph.nodes, graph.roots, id)
      <4> HIDE DEF ParentsOf
      <4> QED BY <2>4 DEF HangsOnceIn, Roots
    <3> HIDE DEF HangsOnce
    <3> QED BY <2>1, <2>4, <3>1, ForestCounts
  <2>6. GraphIsForest <=>
          \A id \in Ids : id \notin Below(id) /\ ToSet(Children(id)) \subseteq Ids /\ HangsOnce(id)
    <3> HIDE DEF HangsOnce
    <3> QED BY <2>2, <2>4, <2>5 DEF GraphIsForest
  <2> QED BY <2>2, <2>3, <2>6
<1> QED BY <1>1, GraphInvHolds, PTL

(* A graph is built right, whatever the nodes and their links.             *)
THEOREM GraphAlwaysExact == Spec => []GraphExact
<1>1. MarksShortestDepth /\ CyclesExact => GraphExact
  BY DEF GraphExact
<1> QED BY <1>1, MarksAreShortest, CyclesAreExact, PTL

(***************************************************************************)
(* Searches from one node.                                                 *)
(***************************************************************************)

LEMMA UnseenIds ==
  ASSUME NEW ids \in Seq(Nat)
  PROVE  /\ Unseen(ids) \in Seq(Nat) /\ ToSet(Unseen(ids)) = ToSet(ids) \ seen
         /\ NoRepeats(ids) => NoRepeats(Unseen(ids))
<1> DEFINE places == {i \in DOMAIN ids : ids[i] \notin seen}
<1>1. DOMAIN ids = 1..Len(ids) /\ ToSet(ids) = {ids[i] : i \in 1..Len(ids)}
  BY LenProperties, ToSetOfSeq
<1>2. Unseen(ids) = Picked(ids, places)
  <2>1. places \subseteq Nat /\ IsFiniteSet(places)
    <3>1. Len(ids) \in Nat
      BY LenProperties
    <3>2. IsFiniteSet(1..Len(ids))
      BY <3>1, Interval
    <3>3. places \in SUBSET (1..Len(ids))
      BY <1>1
    <3> HIDE DEF places
    <3>4. IsFiniteSet(places)
      BY <3>2, <3>3, FS_Subset
    <3> QED BY <3>1, <3>3, <3>4
  <2>2. SortUnique(places) \in Seq(places)
    <3> HIDE DEF places
    <3> QED BY <2>1, SortUniqueLists
  <2>3. DOMAIN SortUnique(places) = 1..Len(SortUnique(places))
    BY <2>2, LenProperties
  <2>4. Unseen(ids) = [n \in DOMAIN SortUnique(places) |-> ids[SortUnique(places)[n]]]
    BY DEF Unseen, Taken, Each
  <2> QED BY <2>3, <2>4 DEF Picked
<1>3. places \in SUBSET (1..Len(ids))
  BY <1>1
<1>4. ToSet(ids) \ seen = {ids[i] : i \in places}
  BY <1>1
<1> HIDE DEF places
<1> QED BY <1>2, <1>3, <1>4, PickedLists

(* What DescendantsOf has looked at, found and still has in its queue.     *)
Descending(nodes, top, queue, found, past) ==
  /\ queue \in Seq(Nat) /\ found \in Seq(Nat)
  /\ past = {top} \cup ToSet(found) /\ top \notin ToSet(found)
  /\ ToSet(queue) \cup ToSet(found) \subseteq BelowIn(nodes, top)
  /\ \A id \in past : ToSet(ChildrenIn(nodes, id)) \subseteq past \cup ToSet(queue)

LEMMA DescendingStarts ==
  ASSUME NEW nodes, IsGraph(nodes), NEW top
  PROVE  Descending(nodes, top, ChildrenIn(nodes, top), << >>, {top})
<1>1. ChildrenIn(nodes, top) \in Seq(Nat) /\ IsFiniteSet(DOMAIN nodes)
  BY ChildrenTyped DEF IsGraph
<1>2. ToSet(ChildrenIn(nodes, top)) \subseteq BelowIn(nodes, top)
  BY <1>1, ClosureFacts DEF BelowIn
<1> QED BY <1>1, <1>2, NoneInEmpty DEF Descending

LEMMA DescendingVisits ==
  ASSUME NEW nodes, IsGraph(nodes), NEW top, NEW queue, NEW found, NEW past,
         Descending(nodes, top, queue, found, past), queue # << >>, Head(queue) \notin past
  PROVE  Descending(nodes, top, Tail(queue) \o ChildrenIn(nodes, Head(queue)),
                    Append(found, Head(queue)), past \cup {Head(queue)})
<1> DEFINE id == Head(queue)
           ids == ChildrenIn(nodes, id)
           T == BelowIn(nodes, top)
<1>1. /\ queue \in Seq(Nat) /\ found \in Seq(Nat)
      /\ past = {top} \cup ToSet(found) /\ top \notin ToSet(found)
      /\ ToSet(queue) \cup ToSet(found) \subseteq T
      /\ \A x \in past : ToSet(ChildrenIn(nodes, x)) \subseteq past \cup ToSet(queue)
  BY DEF Descending
<1>2. id \in Nat /\ Tail(queue) \in Seq(Nat) /\ ToSet(queue) = {id} \cup ToSet(Tail(queue))
  BY <1>1, HeadAndTail
<1>3. ids \in Seq(Nat) /\ IsFiniteSet(DOMAIN nodes)
  BY ChildrenTyped DEF IsGraph
<1>4. ToSet(ids) \subseteq T
  <2>1. Closed(nodes, T) /\ id \in T
    BY <1>1, <1>2, <1>3, ClosureFacts DEF BelowIn
  <2> QED BY <2>1 DEF Closed, Kids
<1>5. /\ Tail(queue) \o ids \in Seq(Nat) /\ ToSet(Tail(queue) \o ids) = ToSet(Tail(queue)) \cup ToSet(ids)
      /\ Append(found, id) \in Seq(Nat) /\ ToSet(Append(found, id)) = ToSet(found) \cup {id}
  <2>1. Tail(queue) \o ids \in Seq(Nat) /\ ToSet(Tail(queue) \o ids) = ToSet(Tail(queue)) \cup ToSet(ids)
    <3>1. Tail(queue) \o ids \in Seq(Nat)
      BY <1>2, <1>3, ConcatProperties
    <3>2. PICK a, b : a = Tail(queue) /\ b = ids
      OBVIOUS
    <3>3. a \in Seq(Nat) /\ b \in Seq(Nat)
      BY <1>2, <1>3, <3>2
    <3>4. ToSet(a \o b) = ToSet(a) \cup ToSet(b)
      BY <3>3, ToSetConcat
    <3> QED BY <3>1, <3>2, <3>4
  <2>2. Append(found, id) \in Seq(Nat) /\ ToSet(Append(found, id)) = ToSet(found) \cup {id}
    BY <1>1, <1>2, ToSetAppend, AppendProperties
  <2> QED BY <2>1, <2>2
<1>6. \A x \in past \cup {id} :
        ToSet(ChildrenIn(nodes, x)) \subseteq past \cup {id} \cup ToSet(Tail(queue)) \cup ToSet(ids)
  BY <1>1, <1>2
<1> HIDE DEF id, ids, T
<1>7. Descending(nodes, top, Tail(queue) \o ids, Append(found, id), past \cup {id})
  BY <1>1, <1>2, <1>4, <1>5, <1>6 DEF Descending, id, T
<1> QED BY <1>7 DEF id, ids

LEMMA DescendingSkips ==
  ASSUME NEW nodes, NEW top, NEW queue, NEW found, NEW past,
         Descending(nodes, top, queue, found, past), queue # << >>, Head(queue) \in past
  PROVE  Descending(nodes, top, Tail(queue), found, past)
<1>1. /\ queue \in Seq(Nat) /\ ToSet(queue) \subseteq BelowIn(nodes, top)
      /\ \A x \in past : ToSet(ChildrenIn(nodes, x)) \subseteq past \cup ToSet(queue)
  BY DEF Descending
<1>2. Tail(queue) \in Seq(Nat) /\ ToSet(queue) = {Head(queue)} \cup ToSet(Tail(queue))
  BY <1>1, HeadAndTail
<1> QED BY <1>1, <1>2 DEF Descending

LEMMA DescendingEnds ==
  ASSUME NEW nodes, IsGraph(nodes), NEW top, NEW found, NEW past,
         Descending(nodes, top, << >>, found, past)
  PROVE  ToSet(found) = BelowIn(nodes, top) \ {top}
<1>1. /\ past = {top} \cup ToSet(found) /\ top \notin ToSet(found)
      /\ ToSet(found) \subseteq BelowIn(nodes, top)
      /\ \A x \in past : ToSet(ChildrenIn(nodes, x)) \subseteq past
  BY NoneInEmpty DEF Descending
<1>2. Closed(nodes, past)
  BY <1>1 DEF Closed, Kids
<1>3. IsFiniteSet(DOMAIN nodes) /\ ToSet(ChildrenIn(nodes, top)) \subseteq past
  BY <1>1 DEF IsGraph
<1>4. BelowIn(nodes, top) \subseteq past
  BY <1>2, <1>3, ClosureFacts DEF BelowIn
<1> QED BY <1>1, <1>4

(* What ReachableFrom has found and still has in its queue.                *)
Reaching(nodes, top, queue, found, past) ==
  /\ queue \in Seq(Nat) /\ found \in Seq(Nat)
  /\ past = ToSet(found) \cup ToSet(queue) /\ past \subseteq ClosureIn(nodes, {top})
  /\ top \in past <=> top \in DOMAIN nodes
  /\ top \notin DOMAIN nodes => past = {}
  /\ \A id \in ToSet(found) : ToSet(ChildrenIn(nodes, id)) \subseteq past

LEMMA ReachingStarts ==
  ASSUME NEW nodes, IsGraph(nodes), NEW top,
         NEW queue, queue = IF top \in DOMAIN nodes THEN <<top>> ELSE << >>
  PROVE  Reaching(nodes, top, queue, << >>, ToSet(queue))
<1>1. IsFiniteSet(DOMAIN nodes) /\ DOMAIN nodes \subseteq Nat
  BY DEF IsGraph
<1>2. {top} \subseteq ClosureIn(nodes, {top})
  BY <1>1, ClosureFacts
<1>3. CASE top \in DOMAIN nodes
  <2>1. PICK one : one = <<top>>
    OBVIOUS
  <2>2. one \in Seq(Nat) /\ Len(one) = 1 /\ one[1] = top
    BY <1>1, <1>3, <2>1
  <2>3. ToSet(one) = {one[i] : i \in 1..Len(one)}
    BY ONLY <2>2, ToSetOfSeq
  <2>4. ToSet(one) = {top}
    BY ONLY <2>2, <2>3
  <2>5. queue = one
    BY <1>3, <2>1
  <2> QED BY <1>2, <1>3, <2>2, <2>4, <2>5, NoneInEmpty DEF Reaching
<1>4. CASE top \notin DOMAIN nodes
  BY <1>4, NoneInEmpty DEF Reaching
<1> QED BY <1>3, <1>4

LEMMA ReachingVisits ==
  ASSUME NEW nodes, IsGraph(nodes), NEW top, NEW queue, NEW found, NEW past,
         Reaching(nodes, top, queue, found, past), queue # << >>,
         NEW next \in Seq(Nat), ToSet(next) = ToSet(ChildrenIn(nodes, Head(queue))) \ past
  PROVE  Reaching(nodes, top, Tail(queue) \o next, Append(found, Head(queue)), past \cup ToSet(next))
<1> DEFINE id == Head(queue)
           T == ClosureIn(nodes, {top})
<1>1. /\ queue \in Seq(Nat) /\ found \in Seq(Nat)
      /\ past = ToSet(found) \cup ToSet(queue) /\ past \subseteq T
      /\ top \in past <=> top \in DOMAIN nodes
      /\ top \notin DOMAIN nodes => past = {}
      /\ \A x \in ToSet(found) : ToSet(ChildrenIn(nodes, x)) \subseteq past
  BY DEF Reaching
<1>2. id \in Nat /\ Tail(queue) \in Seq(Nat) /\ ToSet(queue) = {id} \cup ToSet(Tail(queue))
  BY <1>1, HeadAndTail
<1>3. ToSet(next) \subseteq T
  <2>1. IsFiniteSet(DOMAIN nodes)
    BY DEF IsGraph
  <2>2. Closed(nodes, T) /\ id \in T
    BY <1>1, <1>2, <2>1, ClosureFacts
  <2> QED BY <2>2 DEF Closed, Kids
<1>4. /\ Tail(queue) \o next \in Seq(Nat)
      /\ ToSet(Tail(queue) \o next) = ToSet(Tail(queue)) \cup ToSet(next)
      /\ Append(found, id) \in Seq(Nat) /\ ToSet(Append(found, id)) = ToSet(found) \cup {id}
  <2>1. /\ Tail(queue) \o next \in Seq(Nat)
        /\ ToSet(Tail(queue) \o next) = ToSet(Tail(queue)) \cup ToSet(next)
    <3>1. Tail(queue) \o next \in Seq(Nat)
      BY <1>2, ConcatProperties
    <3>2. PICK rest : rest = Tail(queue)
      OBVIOUS
    <3>3. rest \in Seq(Nat)
      BY <1>2, <3>2
    <3>4. ToSet(rest \o next) = ToSet(rest) \cup ToSet(next)
      BY <3>3, ToSetConcat
    <3> QED BY <3>1, <3>2, <3>4
  <2>2. Append(found, id) \in Seq(Nat) /\ ToSet(Append(found, id)) = ToSet(found) \cup {id}
    BY <1>1, <1>2, ToSetAppend, AppendProperties
  <2> QED BY <2>1, <2>2
<1>5. past # {} /\ top \in DOMAIN nodes
  BY <1>1, <1>2
<1> HIDE DEF id, T
<1>6. Reaching(nodes, top, Tail(queue) \o next, Append(found, id), past \cup ToSet(next))
  BY <1>1, <1>2, <1>3, <1>4, <1>5 DEF Reaching, id, T
<1> QED BY <1>6 DEF id

LEMMA ReachingEnds ==
  ASSUME NEW nodes, IsGraph(nodes), NEW top, NEW found, NEW past,
         Reaching(nodes, top, << >>, found, past)
  PROVE  ToSet(found) = IF top \in DOMAIN nodes THEN ClosureIn(nodes, {top}) ELSE {}
<1>1. /\ past = ToSet(found) /\ past \subseteq ClosureIn(nodes, {top})
      /\ top \in past <=> top \in DOMAIN nodes
      /\ top \notin DOMAIN nodes => past = {}
      /\ \A x \in ToSet(found) : ToSet(ChildrenIn(nodes, x)) \subseteq past
  BY NoneInEmpty DEF Reaching
<1>2. Closed(nodes, past)
  BY <1>1 DEF Closed, Kids
<1>3. IsFiniteSet(DOMAIN nodes)
  BY DEF IsGraph
<1>4. top \in DOMAIN nodes => ClosureIn(nodes, {top}) \subseteq past
  BY <1>1, <1>2, <1>3, ClosureFacts
<1> QED BY <1>1, <1>4

(***************************************************************************)
(* Traversals depth first.                                                 *)
(***************************************************************************)

(* The ids a traversal has visited, and the ways by which it came there.   *)
Way(nodes, roots, s) ==
  s \in Seq(Nat) /\ s # << >> /\ s[1] \in roots /\ Linked(nodes, s) /\ NoRepeats(s)

LEMMA AppendDistinct ==
  ASSUME NEW S, NEW s \in Seq(S), NEW e \in S, NoRepeats(s), e \notin ToSet(s)
  PROVE  /\ Append(s, e) \in Seq(S) /\ NoRepeats(Append(s, e))
         /\ ToSet(Append(s, e)) = ToSet(s) \cup {e}
<1> DEFINE n == Len(s)
<1>1. PICK t : t = Append(s, e)
  OBVIOUS
<1>2. /\ t \in Seq(S) /\ Len(t) = n + 1 /\ t[n + 1] = e /\ n \in Nat
      /\ \A i \in 1..n : t[i] = s[i]
  BY <1>1, AppendProperties, LenProperties
<1>3. \A i \in 1..n + 1 : i \in 1..n \/ i = n + 1
  BY <1>2
<1>4. \A i \in 1..n : s[i] # e
  BY ToSetOfSeq
<1>5. NoRepeats(t)
  BY <1>2, <1>3, <1>4 DEF NoRepeats
<1> QED BY <1>1, <1>2, <1>5, ToSetAppend

(* What was entered before stays open when more is done with.              *)
LEMMA OpenForMore ==
  ASSUME NEW nodes, NEW tasks, NEW road, NEW at, NEW done, NEW then,
         Open(nodes, tasks, road, at, done), done \subseteq then
  PROVE  Open(nodes, tasks, road, at, then)
BY DEF Open

Outside(nodes) == Nat \ DOMAIN nodes

(* A traversal is done with what has been visited, and with what does not  *)
(* exist.                                                                  *)
Wandering(nodes, roots, tasks, road, past, visited) ==
  /\ \E at : /\ Walk(nodes, roots, tasks, road, past, at)
             /\ Open(nodes, tasks, road, at, past \cup ToSet(road) \cup Outside(nodes))
  /\ past \cup ToSet(road) \subseteq ClosureIn(nodes, roots) \cap DOMAIN nodes
  /\ \A x \in past : ToSet(ChildrenIn(nodes, x)) \subseteq past \cup ToSet(road) \cup Outside(nodes)
  /\ visited \in Seq(Nat) /\ NoRepeats(visited) /\ ToSet(visited) = past \cup ToSet(road)

LEMMA WanderingStarts ==
  ASSUME NEW nodes, NEW roots \in Seq(Nat)
  PROVE  Wandering(nodes, ToSet(roots), [i \in DOMAIN roots |-> Enter(roots[i])], << >>, {}, << >>)
<1>1. PICK tasks : tasks = [i \in DOMAIN roots |-> Enter(roots[i])]
  OBVIOUS
<1>2. /\ Walk(nodes, ToSet(roots), tasks, << >>, {}, << >>)
      /\ Open(nodes, tasks, << >>, << >>, {} \cup ToSet(<< >>) \cup Outside(nodes))
  BY <1>1, WalkStarts
<1>3. << >> \in Seq(Nat) /\ NoRepeats(<< >>)
  BY DEF NoRepeats
<1> QED BY <1>1, <1>2, <1>3, NoneInEmpty DEF Wandering

LEMMA WanderingEnters ==
  ASSUME NEW nodes, IsGraph(nodes), NEW roots \in SUBSET DOMAIN nodes,
         NEW tasks, NEW road, NEW past, NEW visited,
         Wandering(nodes, roots, tasks, road, past, visited), tasks # << >>, tasks[1].enters,
         NEW id, id = tasks[1].id, id \in DOMAIN nodes, id \notin past \cup ToSet(road)
  PROVE  /\ Wandering(nodes, roots, Entered(tasks, id, ChildrenIn(nodes, id)), Append(road, id),
                      past, Append(visited, id))
         /\ Way(nodes, roots, Append(road, id)) /\ Last(Append(road, id)) = id
<1>1. PICK at : /\ Walk(nodes, roots, tasks, road, past, at)
                /\ Open(nodes, tasks, road, at, past \cup ToSet(road) \cup Outside(nodes))
  BY DEF Wandering
<1>2. /\ past \cup ToSet(road) \subseteq ClosureIn(nodes, roots) \cap DOMAIN nodes
      /\ \A x \in past : ToSet(ChildrenIn(nodes, x)) \subseteq past \cup ToSet(road) \cup Outside(nodes)
      /\ visited \in Seq(Nat) /\ NoRepeats(visited) /\ ToSet(visited) = past \cup ToSet(road)
  BY DEF Wandering
<1>3. PICK ids : ids = ChildrenIn(nodes, id)
  OBVIOUS
<1>4. ids \in Seq(Nat) /\ IsFiniteSet(DOMAIN nodes) /\ id \in Nat
  BY <1>3, ChildrenTyped DEF IsGraph
<1>5. PICK others, way : others = Entered(tasks, id, ids) /\ way = Append(road, id)
  OBVIOUS
<1>6. PICK places :
        /\ Walk(nodes, roots, others, way, past, places)
        /\ \A done : Open(nodes, tasks, road, at, done) => Open(nodes, others, way, places, done)
  BY <1>1, <1>3, <1>4, <1>5, WalkEnters
<1>7. /\ tasks \in Tasks /\ road \in Seq(Nat) /\ Stacked(nodes, roots, tasks, road, at)
      /\ NoRepeats(road) /\ Linked(nodes, road)
      /\ road # << >> => road[1] \in roots
  BY <1>1 DEF Walk
<1>8. /\ road # << >> => id \in ToSet(ChildrenIn(nodes, road[Len(road)]))
      /\ road = << >> => id \in roots
  BY <1>7, FirstTask
<1>9. /\ way \in Seq(Nat) /\ way # << >> /\ NoRepeats(way) /\ Linked(nodes, way)
      /\ ToSet(way) = ToSet(road) \cup {id}
      /\ road # << >> => way[1] = road[1]
      /\ road = << >> => way[1] = id
  BY <1>4, <1>5, <1>7, <1>8, AppendToPath
<1>10. Way(nodes, roots, way)
  BY <1>7, <1>8, <1>9 DEF Way
<1>11. Last(way) = id
  <2>1. Len(way) = Len(road) + 1 /\ way[Len(road) + 1] = id
    BY <1>4, <1>5, <1>7, AppendProperties
  <2> QED BY <2>1 DEF Last
<1>12. id \in ClosureIn(nodes, roots)
  <2>1. roots \subseteq ClosureIn(nodes, roots) /\ Closed(nodes, ClosureIn(nodes, roots))
    BY <1>4, ClosureFacts
  <2>2. CASE road = << >>
    BY <1>8, <2>1, <2>2
  <2>3. CASE road # << >>
    <3>1. Len(road) \in 1..Len(road) /\ road[Len(road)] \in ToSet(road)
      BY <1>7, <2>3, EmptySeq, ToSetOfSeq
    <3>2. road[Len(road)] \in ClosureIn(nodes, roots)
      BY <1>2, <3>1
    <3> QED BY <1>8, <2>1, <2>3, <3>2 DEF Closed, Kids
  <2> QED BY <2>2, <2>3
<1>13. Open(nodes, others, way, places, past \cup ToSet(way) \cup Outside(nodes))
  <2>1. Open(nodes, others, way, places, past \cup ToSet(road) \cup Outside(nodes))
    BY <1>1, <1>6
  <2> QED BY <1>9, <2>1, OpenForMore
<1>14. /\ Append(visited, id) \in Seq(Nat) /\ NoRepeats(Append(visited, id))
       /\ ToSet(Append(visited, id)) = past \cup ToSet(way)
  <2>1. id \notin ToSet(visited)
    BY <1>2
  <2>2. /\ Append(visited, id) \in Seq(Nat) /\ NoRepeats(Append(visited, id))
        /\ ToSet(Append(visited, id)) = ToSet(visited) \cup {id}
    BY <1>2, <1>4, <2>1, AppendDistinct
  <2> QED BY <1>2, <1>9, <2>2
<1>15. Wandering(nodes, roots, others, way, past, Append(visited, id))
  BY <1>2, <1>6, <1>9, <1>12, <1>13, <1>14 DEF Wandering
<1> QED BY <1>3, <1>5, <1>10, <1>11, <1>15

LEMMA WanderingSkips ==
  ASSUME NEW nodes, NEW roots \in SUBSET DOMAIN nodes,
         NEW tasks, NEW road, NEW past, NEW visited,
         Wandering(nodes, roots, tasks, road, past, visited), tasks # << >>, tasks[1].enters,
         NEW id, id = tasks[1].id, id \notin DOMAIN nodes \/ id \in past \cup ToSet(road)
  PROVE  Wandering(nodes, roots, Tail(tasks), road, past, visited)
<1>1. PICK at : /\ Walk(nodes, roots, tasks, road, past, at)
                /\ Open(nodes, tasks, road, at, past \cup ToSet(road) \cup Outside(nodes))
  BY DEF Wandering
<1>2. id \in Nat
  <2>1. tasks \in Tasks
    BY <1>1 DEF Walk
  <2> QED BY <2>1, TaskIds
<1>3. tasks[1].id \in roots => tasks[1].id \in past \cup ToSet(road)
  OBVIOUS
<1>4. PICK places :
        /\ Walk(nodes, roots, Tail(tasks), road, past, places)
        /\ \A done : Open(nodes, tasks, road, at, done) /\ tasks[1].id \in done =>
                       Open(nodes, Tail(tasks), road, places, done)
  BY <1>1, <1>3, WalkSkips
<1>5. tasks[1].id \in past \cup ToSet(road) \cup Outside(nodes)
  BY <1>2 DEF Outside
<1>6. Open(nodes, Tail(tasks), road, places, past \cup ToSet(road) \cup Outside(nodes))
  BY <1>1, <1>4, <1>5
<1> QED BY <1>4, <1>6 DEF Wandering

LEMMA WanderingReturns ==
  ASSUME NEW nodes, NEW roots, NEW tasks, NEW road, NEW past, NEW visited,
         Wandering(nodes, roots, tasks, road, past, visited), tasks # << >>, ~tasks[1].enters
  PROVE  Wandering(nodes, roots, Tail(tasks), Front(road), past \cup {tasks[1].id}, visited)
<1>1. PICK at : /\ Walk(nodes, roots, tasks, road, past, at)
                /\ Open(nodes, tasks, road, at, past \cup ToSet(road) \cup Outside(nodes))
  BY DEF Wandering
<1>2. /\ past \cup ToSet(road) \subseteq ClosureIn(nodes, roots) \cap DOMAIN nodes
      /\ \A x \in past : ToSet(ChildrenIn(nodes, x)) \subseteq past \cup ToSet(road) \cup Outside(nodes)
      /\ visited \in Seq(Nat) /\ NoRepeats(visited) /\ ToSet(visited) = past \cup ToSet(road)
  BY DEF Wandering
<1>3. PICK id, front, done : id = tasks[1].id /\ front = Front(road)
                             /\ done = past \cup ToSet(road) \cup Outside(nodes)
  OBVIOUS
<1>4. PICK places :
        /\ Walk(nodes, roots, Tail(tasks), front, past \cup {id}, places)
        /\ StillOpen(nodes, tasks, road, at, places)
  <2>1. PICK p : /\ Walk(nodes, roots, Tail(tasks), Front(road), past \cup {tasks[1].id}, p)
                 /\ StillOpen(nodes, tasks, road, at, p)
    BY <1>1, WalkReturns
  <2> QED BY <1>3, <2>1
<1>5. ToSet(road) = ToSet(front) \cup {id}
  <2>1. ToSet(road) = ToSet(Front(road)) \cup {tasks[1].id}
    BY <1>1, WalkReturns
  <2> QED BY <1>3, <2>1
<1>6. done = (past \cup {id}) \cup ToSet(front) \cup Outside(nodes) /\ id \in done
  BY <1>3, <1>5
<1>7. /\ Open(nodes, Tail(tasks), front, places, done)
      /\ ToSet(ChildrenIn(nodes, id)) \subseteq done
  <2>1. Open(nodes, tasks, road, at, done) /\ done \cup {tasks[1].id} \subseteq done
    BY <1>1, <1>3, <1>6
  <2> QED BY <1>3, <1>4, <2>1 DEF StillOpen
<1>8. Wandering(nodes, roots, Tail(tasks), front, past \cup {id}, visited)
  BY <1>2, <1>3, <1>4, <1>5, <1>6, <1>7 DEF Wandering
<1> QED BY <1>3, <1>8

LEMMA WanderingEnds ==
  ASSUME NEW nodes, IsGraph(nodes), NEW roots, NEW road, NEW past, NEW visited,
         Wandering(nodes, roots, << >>, road, past, visited)
  PROVE  ToSet(visited) = ClosureIn(nodes, roots) \cap DOMAIN nodes
<1>1. PICK at : Walk(nodes, roots, << >>, road, past, at)
  BY DEF Wandering
<1>2. road = << >> /\ ToSet(road) = {} /\ roots \subseteq past
  BY <1>1, WalkEnds
<1>3. /\ past \subseteq ClosureIn(nodes, roots) \cap DOMAIN nodes /\ ToSet(visited) = past
      /\ \A x \in past : ToSet(ChildrenIn(nodes, x)) \subseteq past \cup Outside(nodes)
  BY <1>2 DEF Wandering
<1>4. Closed(nodes, past \cup Outside(nodes))
  <2>1. \A x \in Outside(nodes) : ToSet(ChildrenIn(nodes, x)) = {}
    BY NoneInEmpty DEF Outside, ChildrenIn
  <2> QED BY <1>3, <2>1 DEF Closed, Kids
<1>5. ClosureIn(nodes, roots) \subseteq past \cup Outside(nodes)
  <2>1. IsFiniteSet(DOMAIN nodes)
    BY DEF IsGraph
  <2> QED BY <1>2, <1>4, <2>1, ClosureFacts
<1> QED BY <1>3, <1>5 DEF Outside

(***************************************************************************)
(* Traversals breadth first.                                               *)
(***************************************************************************)

End(s) == s[Len(s)]

(* The ways taken and those in the queue, in the order in which they were  *)
(* found: each to an id of its own, shorter ones first, and no way could   *)
(* be shorter.                                                             *)
Spread(nodes, roots, ways, past) ==
  /\ ways \in Seq(Seq(Nat))
  /\ \A i \in 1..Len(ways) : Way(nodes, roots, ways[i]) /\ ToSet(ways[i]) \subseteq past
  /\ \A i, j \in 1..Len(ways) : End(ways[i]) = End(ways[j]) => i = j
  /\ \A x : x \in past <=> \E i \in 1..Len(ways) : x = End(ways[i])
  /\ \A i, j \in 1..Len(ways) : i <= j => Len(ways[i]) <= Len(ways[j])
  /\ \A i \in 1..Len(ways) :
       Len(ways[i]) > 1 => End(ways[i]) \notin Layer(nodes, roots, Len(ways[i]) - 2)

(* The first count of them have been taken.  What is nearer than the next  *)
(* one has been found.                                                     *)
Taking(nodes, roots, ways, count, past) ==
  /\ count \in 0..Len(ways)
  /\ \A i \in 1..count : ToSet(ChildrenIn(nodes, End(ways[i]))) \subseteq past
  /\ \A i \in count + 1..Len(ways) :
       /\ Len(ways[i]) <= Len(ways[count + 1]) + 1
       /\ Layer(nodes, roots, Len(ways[count + 1]) - 1) \subseteq past
  /\ roots \subseteq past /\ past \subseteq ClosureIn(nodes, roots)

LEMMA WayEnds ==
  ASSUME NEW nodes, NEW roots, NEW s, Way(nodes, roots, s)
  PROVE  /\ Len(s) \in Nat \ {0} /\ End(s) \in Nat /\ End(s) \in ToSet(s) /\ Last(s) = End(s)
         /\ Head(s) = s[1]
<1>1. s \in Seq(Nat) /\ s # << >>
  BY DEF Way
<1>2. Len(s) \in Nat \ {0}
  BY <1>1, EmptySeq
<1>3. Len(s) \in 1..Len(s)
  BY <1>2
<1>4. s[Len(s)] \in Nat /\ s[Len(s)] \in ToSet(s)
  BY <1>1, <1>3, ElementOfSeq, ToSetOfSeq
<1>5. Head(s) = s[1]
  BY <1>1, HeadTailProperties
<1> QED BY <1>2, <1>4, <1>5 DEF End, Last

(* A way goes on to an id that has not been found.                         *)
LEMMA WayGoesOn ==
  ASSUME NEW nodes, NEW roots, NEW s, Way(nodes, roots, s), NEW past, ToSet(s) \subseteq past,
         NEW c \in Nat, c \in ToSet(ChildrenIn(nodes, End(s))), c \notin past
  PROVE  /\ Way(nodes, roots, Append(s, c)) /\ ToSet(Append(s, c)) \subseteq past \cup {c}
         /\ Len(Append(s, c)) = Len(s) + 1 /\ End(Append(s, c)) = c
<1>1. s \in Seq(Nat) /\ s # << >> /\ s[1] \in roots /\ Linked(nodes, s) /\ NoRepeats(s)
  BY DEF Way
<1>2. PICK t : t = Append(s, c)
  OBVIOUS
<1>3. /\ t \in Seq(Nat) /\ t # << >> /\ NoRepeats(t) /\ Linked(nodes, t)
      /\ ToSet(t) = ToSet(s) \cup {c} /\ t[1] = s[1]
  BY <1>1, <1>2, AppendToPath DEF End
<1>4. Len(t) = Len(s) + 1 /\ t[Len(s) + 1] = c
  BY <1>1, <1>2, AppendProperties
<1>5. Way(nodes, roots, t) /\ ToSet(t) \subseteq past \cup {c} /\ Len(t) = Len(s) + 1 /\ End(t) = c
  BY <1>1, <1>3, <1>4 DEF Way, End
<1> QED BY <1>2, <1>5

(* The ways that were found, and then those that go on from one of them.   *)
GoesOn(more, ways, s, next) ==
  /\ more \in Seq(Seq(Nat))
  /\ Len(more) = Len(ways) + Len(next)
  /\ \A i \in 1..Len(ways) : more[i] = ways[i]
  /\ \A k \in 1..Len(next) : more[Len(ways) + k] = Append(s, next[k])

(* What a new way is.                                                      *)
NewWay(nodes, roots, t, c, n, past) ==
  Way(nodes, roots, t) /\ ToSet(t) \subseteq past /\ Len(t) = n /\ End(t) = c

LEMMA NewWays ==
  ASSUME NEW nodes, NEW roots, NEW s, Way(nodes, roots, s), NEW past, ToSet(s) \subseteq past,
         NEW next \in Seq(Nat), ToSet(next) = ToSet(ChildrenIn(nodes, End(s))) \ past,
         NEW k \in 1..Len(next)
  PROVE  /\ NewWay(nodes, roots, Append(s, next[k]), next[k], Len(s) + 1, past \cup ToSet(next))
         /\ next[k] \in Nat /\ next[k] \notin past /\ next[k] \in ToSet(next)
<1>1. next[k] \in Nat /\ next[k] \in ToSet(next)
  BY ElementOfSeq, ToSetOfSeq
<1>2. next[k] \in ToSet(ChildrenIn(nodes, End(s))) /\ next[k] \notin past
  BY <1>1
<1>3. PICK c : c = next[k]
  OBVIOUS
<1>4. /\ Way(nodes, roots, Append(s, c)) /\ ToSet(Append(s, c)) \subseteq past \cup {c}
      /\ Len(Append(s, c)) = Len(s) + 1 /\ End(Append(s, c)) = c
  BY <1>1, <1>2, <1>3, WayGoesOn
<1> QED BY <1>1, <1>2, <1>3, <1>4 DEF NewWay

LEMMA SpreadGoesOn ==
  ASSUME NEW nodes, NEW roots, NEW ways, NEW past, Spread(nodes, roots, ways, past),
         NEW s, Way(nodes, roots, s), ToSet(s) \subseteq past,
         \A i \in 1..Len(ways) : Len(ways[i]) <= Len(s) + 1,
         Layer(nodes, roots, Len(s) - 1) \subseteq past,
         NEW next \in Seq(Nat), NoRepeats(next), ToSet(next) = ToSet(ChildrenIn(nodes, End(s))) \ past,
         NEW more, GoesOn(more, ways, s, next)
  PROVE  Spread(nodes, roots, more, past \cup ToSet(next))
<1> DEFINE n == Len(ways)
           K == Len(next)
           all == past \cup ToSet(next)
<1>1. n \in Nat /\ K \in Nat /\ Len(s) \in Nat \ {0}
  BY WayEnds, LenProperties DEF Spread
<1>2. /\ more \in Seq(Seq(Nat)) /\ Len(more) = n + K
      /\ \A i \in 1..n : more[i] = ways[i]
      /\ \A k \in 1..K : more[n + k] = Append(s, next[k])
  BY DEF GoesOn
<1>3. /\ \A i \in 1..n : Way(nodes, roots, ways[i]) /\ ToSet(ways[i]) \subseteq past
      /\ \A i, j \in 1..n : End(ways[i]) = End(ways[j]) => i = j
      /\ \A x : x \in past <=> \E i \in 1..n : x = End(ways[i])
      /\ \A i, j \in 1..n : i <= j => Len(ways[i]) <= Len(ways[j])
      /\ \A i \in 1..n :
           Len(ways[i]) > 1 => End(ways[i]) \notin Layer(nodes, roots, Len(ways[i]) - 2)
  BY DEF Spread
<1>4. \A k \in 1..K : /\ NewWay(nodes, roots, more[n + k], next[k], Len(s) + 1, all)
                      /\ next[k] \notin past /\ next[k] \in ToSet(next)
  <2> SUFFICES ASSUME NEW k \in 1..K
               PROVE  /\ NewWay(nodes, roots, more[n + k], next[k], Len(s) + 1, all)
                      /\ next[k] \notin past /\ next[k] \in ToSet(next)
    OBVIOUS
  <2>1. more[n + k] = Append(s, next[k])
    BY <1>2
  <2>2. /\ Way(nodes, roots, s) /\ ToSet(s) \subseteq past /\ next \in Seq(Nat)
        /\ ToSet(next) = ToSet(ChildrenIn(nodes, End(s))) \ past /\ k \in 1..Len(next)
    OBVIOUS
  <2>3. /\ NewWay(nodes, roots, Append(s, next[k]), next[k], Len(s) + 1, past \cup ToSet(next))
        /\ next[k] \notin past /\ next[k] \in ToSet(next)
    BY ONLY <2>2, NewWays
  <2> QED BY <2>1, <2>3
<1> HIDE DEF n, K, all
<1>5. ASSUME NEW i \in 1..n + K
      PROVE  i \in 1..n \/ \E k \in 1..K : i = n + k
  <2>1. CASE i <= n
    BY <1>1, <2>1
  <2>2. CASE i > n
    <3>1. i - n \in 1..K /\ i = n + (i - n)
      BY <1>1, <2>2
    <3> QED BY <3>1
  <2> QED BY <1>1, <2>1, <2>2
<1>6. \A i \in 1..n : /\ i \in 1..n + K /\ more[i] = ways[i] /\ End(more[i]) \in past
                      /\ Way(nodes, roots, more[i]) /\ ToSet(more[i]) \subseteq all
                      /\ Len(more[i]) <= Len(s) + 1 /\ Len(more[i]) \in Nat \ {0}
  <2> SUFFICES ASSUME NEW i \in 1..n
               PROVE  /\ i \in 1..n + K /\ more[i] = ways[i] /\ End(more[i]) \in past
                      /\ Way(nodes, roots, more[i]) /\ ToSet(more[i]) \subseteq all
                      /\ Len(more[i]) <= Len(s) + 1 /\ Len(more[i]) \in Nat \ {0}
    OBVIOUS
  <2>1. i \in 1..n + K /\ more[i] = ways[i]
    BY <1>1, <1>2
  <2>2. Way(nodes, roots, ways[i]) /\ ToSet(ways[i]) \subseteq past
    BY <1>3
  <2>3. Len(ways[i]) \in Nat \ {0} /\ End(ways[i]) \in past
    BY <2>2, WayEnds
  <2>4. Len(ways[i]) <= Len(s) + 1
    BY DEF n
  <2> QED BY <2>1, <2>2, <2>3, <2>4 DEF all
<1>7. \A k \in 1..K : /\ n + k \in 1..n + K /\ End(more[n + k]) = next[k]
                      /\ Way(nodes, roots, more[n + k]) /\ ToSet(more[n + k]) \subseteq all
                      /\ Len(more[n + k]) = Len(s) + 1 /\ next[k] \notin past
  <2>1. \A k \in 1..K : n + k \in 1..n + K
    BY <1>1
  <2> QED BY <1>4, <2>1 DEF NewWay
<1>8. \A i \in 1..n + K : Way(nodes, roots, more[i]) /\ ToSet(more[i]) \subseteq all
  BY <1>5, <1>6, <1>7
<1>9. ASSUME NEW i \in 1..n + K, NEW j \in 1..n + K, End(more[i]) = End(more[j])
      PROVE  i = j
  <2>1. CASE i \in 1..n /\ j \in 1..n
    BY <1>3, <1>6, <1>9, <2>1
  <2>2. ASSUME NEW k \in 1..K, NEW l \in 1..K, i = n + k, j = n + l PROVE i = j
    <3>1. next[k] = next[l]
      BY <1>7, <1>9, <2>2
    <3> QED BY <2>2, <3>1 DEF NoRepeats, K
  <2>3. ASSUME NEW k \in 1..K, i = n + k, j \in 1..n PROVE FALSE
    BY <1>6, <1>7, <1>9, <2>3
  <2>4. ASSUME NEW k \in 1..K, j = n + k, i \in 1..n PROVE FALSE
    BY <1>6, <1>7, <1>9, <2>4
  <2> QED BY <1>5, <2>1, <2>2, <2>3, <2>4
<1>10. ASSUME NEW x PROVE x \in all <=> \E i \in 1..n + K : x = End(more[i])
  <2>1. ASSUME x \in past PROVE \E i \in 1..n + K : x = End(more[i])
    <3>1. PICK i \in 1..n : x = End(ways[i])
      BY <1>3, <2>1
    <3> QED BY <1>6, <3>1
  <2>2. ASSUME x \in ToSet(next) PROVE \E i \in 1..n + K : x = End(more[i])
    <3>1. ToSet(next) = {next[k] : k \in 1..Len(next)}
      BY ToSetOfSeq
    <3>2. PICK k \in 1..K : x = next[k]
      BY <2>2, <3>1 DEF K
    <3> QED BY <1>7, <3>2
  <2>3. ASSUME NEW i \in 1..n + K PROVE End(more[i]) \in all
    BY <1>4, <1>5, <1>6, <1>7 DEF all
  <2> QED BY <2>1, <2>2, <2>3 DEF all
<1>11. ASSUME NEW i \in 1..n + K, NEW j \in 1..n + K, i <= j
       PROVE  Len(more[i]) <= Len(more[j])
  <2>1. CASE i \in 1..n /\ j \in 1..n
    BY <1>3, <1>6, <1>11, <2>1
  <2>2. ASSUME NEW k \in 1..K, j = n + k PROVE Len(more[i]) <= Len(more[j])
    <3>1. Len(more[j]) = Len(s) + 1
      BY <1>7, <2>2
    <3>2. Len(more[i]) <= Len(s) + 1
      <4>1. ASSUME NEW l \in 1..K, i = n + l PROVE Len(more[i]) <= Len(s) + 1
        <5>1. Len(more[n + l]) = Len(s) + 1
          BY <1>7
        <5> QED BY <1>1, <4>1, <5>1
      <4> QED BY <1>5, <1>6, <4>1
    <3> QED BY <3>1, <3>2
  <2>3. ASSUME NEW k \in 1..K, i = n + k, j \in 1..n PROVE FALSE
    BY <1>1, <1>11, <2>3
  <2> QED BY <1>5, <2>1, <2>2, <2>3
<1>12. ASSUME NEW i \in 1..n + K, Len(more[i]) > 1
       PROVE  End(more[i]) \notin Layer(nodes, roots, Len(more[i]) - 2)
  <2>1. CASE i \in 1..n
    BY <1>3, <1>6, <1>12, <2>1
  <2>2. ASSUME NEW k \in 1..K, i = n + k
        PROVE  End(more[i]) \notin Layer(nodes, roots, Len(more[i]) - 2)
    <3>1. Len(more[i]) = Len(s) + 1 /\ End(more[i]) \notin past
      BY <1>7, <2>2
    <3>2. Len(more[i]) - 2 = Len(s) - 1
      BY <1>1, <3>1
    <3> QED BY <3>1, <3>2
  <2> QED BY <1>5, <2>1, <2>2
<1> QED BY <1>2, <1>8, <1>9, <1>10, <1>11, <1>12 DEF Spread, all

(* All ways found so far are at most one longer than the next one.         *)
LEMMA WaysAreShort ==
  ASSUME NEW nodes, NEW roots, NEW ways, NEW past, Spread(nodes, roots, ways, past),
         NEW count, Taking(nodes, roots, ways, count, past), count # Len(ways),
         NEW s, s = ways[count + 1]
  PROVE  /\ count + 1 \in 1..Len(ways) /\ Way(nodes, roots, s) /\ ToSet(s) \subseteq past
         /\ \A i \in 1..Len(ways) : Len(ways[i]) <= Len(s) + 1
         /\ Layer(nodes, roots, Len(s) - 1) \subseteq past
<1> DEFINE n == Len(ways)
<1>1. n \in Nat /\ count \in 0..n /\ count # n
  BY LenProperties DEF Spread, Taking
<1>2. count + 1 \in 1..n /\ count + 1 \in count + 1..n
  BY <1>1
<1>3. Way(nodes, roots, s) /\ ToSet(s) \subseteq past
  BY <1>2 DEF Spread
<1>4. Layer(nodes, roots, Len(s) - 1) \subseteq past
  BY <1>2 DEF Taking
<1>5. ASSUME NEW i \in 1..n PROVE Len(ways[i]) <= Len(s) + 1
  <2>1. CASE i <= count
    <3>1. Len(ways[i]) <= Len(s)
      <4>1. i <= count + 1
        BY <1>1, <2>1
      <4> QED BY <1>2, <4>1 DEF Spread
    <3>2. Way(nodes, roots, ways[i])
      BY DEF Spread
    <3>3. Len(s) \in Nat /\ Len(ways[i]) \in Nat
      BY <1>3, <3>2, WayEnds
    <3> QED BY <3>1, <3>3
  <2>2. CASE ~(i <= count)
    <3>1. i \in count + 1..n
      BY <1>1, <2>2
    <3> QED BY <3>1 DEF Taking
  <2> QED BY <2>1, <2>2
<1> QED BY <1>2, <1>3, <1>4, <1>5

LEMMA TakingGoesOn ==
  ASSUME NEW nodes, IsGraph(nodes), NEW roots, NEW ways, NEW past, Spread(nodes, roots, ways, past),
         NEW count, Taking(nodes, roots, ways, count, past), count # Len(ways),
         NEW s, s = ways[count + 1],
         NEW next \in Seq(Nat), NoRepeats(next), ToSet(next) = ToSet(ChildrenIn(nodes, End(s))) \ past,
         NEW more, GoesOn(more, ways, s, next)
  PROVE  /\ Spread(nodes, roots, more, past \cup ToSet(next))
         /\ Taking(nodes, roots, more, count + 1, past \cup ToSet(next))
<1> DEFINE n == Len(ways)
           K == Len(next)
           all == past \cup ToSet(next)
           d == Len(s) - 1
<1>1. n \in Nat /\ count \in 0..n /\ count # n /\ K \in Nat
  BY LenProperties DEF Spread, Taking
<1>2. /\ count + 1 \in 1..n /\ Way(nodes, roots, s) /\ ToSet(s) \subseteq past
      /\ \A i \in 1..n : Len(ways[i]) <= Len(s) + 1
      /\ Layer(nodes, roots, d) \subseteq past
  BY WaysAreShort
<1>3. Len(s) \in Nat \ {0} /\ End(s) \in past /\ d \in Nat /\ d + 1 = Len(s)
  BY <1>2, WayEnds
<1>4. Spread(nodes, roots, more, all)
  BY <1>2, SpreadGoesOn
<1>5. /\ Len(more) = n + K
      /\ \A i \in 1..n : more[i] = ways[i]
  BY DEF GoesOn
<1>6. ASSUME NEW i \in 1..n + K
      PROVE  Len(more[i]) \in Nat \ {0} /\ Len(more[i]) <= Len(s) + 1
  <2>1. Len(more[i]) \in Nat \ {0}
    <3>1. Way(nodes, roots, more[i])
      BY <1>4, <1>5 DEF Spread
    <3> QED BY <3>1, WayEnds
  <2>2. CASE i \in 1..n
    BY <1>2, <1>5, <2>1, <2>2
  <2>3. CASE i - n \in 1..K
    <3>1. more[n + (i - n)] = Append(s, next[i - n])
      BY <2>3 DEF GoesOn
    <3>2. n + (i - n) = i
      BY <1>1
    <3>3. s \in Seq(Nat) /\ next[i - n] \in Nat
      BY <1>2, <2>3, ElementOfSeq DEF Way
    <3>4. Len(more[i]) = Len(s) + 1
      BY <3>1, <3>2, <3>3, AppendProperties
    <3> QED BY <1>3, <2>1, <3>4
  <2>4. i \in 1..n \/ i - n \in 1..K
    BY <1>1
  <2> QED BY <2>1, <2>2, <2>3, <2>4
<1>7. ASSUME NEW i \in 1..count + 1
      PROVE  ToSet(ChildrenIn(nodes, End(ways[i]))) \subseteq all
  <2>1. CASE i = count + 1
    BY <2>1
  <2>2. CASE i \in 1..count
    BY <2>2 DEF Taking
  <2>3. i = count + 1 \/ i \in 1..count
    BY <1>1
  <2> QED BY <2>1, <2>2, <2>3
<1>8. \A i \in 1..count + 1 : ToSet(ChildrenIn(nodes, End(more[i]))) \subseteq all
  <2>1. \A i \in 1..count + 1 : i \in 1..n
    BY <1>1
  <2> QED BY <1>5, <1>7, <2>1
<1> HIDE DEF n, K, all, d
<1>9. ASSUME NEW i \in count + 2..n + K
      PROVE  /\ Len(more[i]) <= Len(more[count + 2]) + 1
             /\ Layer(nodes, roots, Len(more[count + 2]) - 1) \subseteq all
  <2> DEFINE h == Len(more[count + 2])
  <2>1. count + 2 \in 1..n + K /\ count + 1 \in 1..n + K /\ i \in 1..n + K
    BY <1>1
  <2>2. h \in Nat \ {0} /\ h <= Len(s) + 1 /\ Len(more[i]) \in Nat \ {0} /\ Len(more[i]) <= Len(s) + 1
    BY <1>6, <2>1
  <2>3. Len(s) <= h
    <3>1. more[count + 1] = s
      BY <1>2, <1>5
    <3>2. count + 1 <= count + 2
      BY <1>1
    <3> QED BY <1>4, <1>5, <2>1, <3>1, <3>2 DEF Spread
  <2>4. Len(more[i]) <= h + 1
    BY <1>3, <2>2, <2>3
  <2>5. h = Len(s) \/ h = Len(s) + 1
    BY <1>3, <2>2, <2>3
  <2>6. CASE h = Len(s)
    BY <1>2, <2>4, <2>6 DEF all, d
  <2>7. CASE h = Len(s) + 1
    <3>1. h - 1 = d + 1
      BY <1>3, <2>7
    <3>2. Layer(nodes, roots, d + 1) = Layer(nodes, roots, d) \cup Kids(nodes, Layer(nodes, roots, d))
      <4>1. \A k \in Nat :
              Layer(nodes, roots, k + 1) = Layer(nodes, roots, k) \cup Kids(nodes, Layer(nodes, roots, k))
        BY LayerSteps
      <4> QED BY <1>3, <4>1
    <3>3. ASSUME NEW x \in Layer(nodes, roots, d) PROVE ToSet(ChildrenIn(nodes, x)) \subseteq all
      <4>1. PICK k \in 1..n : x = End(ways[k])
        BY <1>2, <3>3 DEF Spread, n
      <4>2. CASE k \in 1..count + 1
        BY <1>7, <4>1, <4>2
      <4>3. CASE k \notin 1..count + 1
        <5>1. count + 2 <= k /\ k \in 1..n + K
          BY <1>1, <4>3
        <5>2. h <= Len(more[k])
          BY <1>4, <1>5, <2>1, <5>1 DEF Spread
        <5>3. Len(more[k]) \in Nat \ {0} /\ Len(more[k]) <= Len(s) + 1
          BY <1>6, <5>1
        <5>4. Len(ways[k]) = Len(s) + 1
          BY <1>3, <1>5, <2>7, <5>2, <5>3
        <5>5. Len(ways[k]) > 1 /\ Len(ways[k]) - 2 = d
          BY <1>3, <5>4
        <5>6. End(ways[k]) \notin Layer(nodes, roots, d)
          BY <5>5 DEF Spread, n
        <5> QED BY <3>3, <4>1, <5>6
      <4> QED BY <4>2, <4>3
    <3>4. Layer(nodes, roots, d + 1) \subseteq all
      <4>1. Layer(nodes, roots, d) \subseteq all
        BY <1>2 DEF all
      <4>2. Kids(nodes, Layer(nodes, roots, d)) \subseteq all
        BY <3>3 DEF Kids
      <4> QED BY <3>2, <4>1, <4>2
    <3> QED BY <2>4, <3>1, <3>4
  <2> QED BY <2>5, <2>6, <2>7
<1>10. roots \subseteq all /\ all \subseteq ClosureIn(nodes, roots)
  <2>1. roots \subseteq past /\ past \subseteq ClosureIn(nodes, roots)
    BY DEF Taking
  <2>2. Closed(nodes, ClosureIn(nodes, roots))
    BY ClosureFacts DEF IsGraph
  <2>3. ToSet(next) \subseteq ClosureIn(nodes, roots)
    BY <1>3, <2>1, <2>2 DEF Closed, Kids
  <2> QED BY <2>1, <2>3 DEF all
<1>11. count + 1 \in 0..n + K /\ (count + 1) + 1 = count + 2
  BY <1>1
<1>12. Taking(nodes, roots, more, count + 1, all)
  BY <1>5, <1>8, <1>9, <1>10, <1>11 DEF Taking
<1> QED BY <1>4, <1>12 DEF all

LEMMA SpreadEnds ==
  ASSUME NEW nodes, IsGraph(nodes), NEW roots, NEW ways, NEW past, Spread(nodes, roots, ways, past),
         Taking(nodes, roots, ways, Len(ways), past)
  PROVE  past = ClosureIn(nodes, roots)
<1>1. Closed(nodes, past)
  <2> SUFFICES ASSUME NEW x \in past PROVE ToSet(ChildrenIn(nodes, x)) \subseteq past
    BY DEF Closed, Kids
  <2>1. PICK i \in 1..Len(ways) : x = End(ways[i])
    BY DEF Spread
  <2> QED BY <2>1 DEF Taking
<1>2. roots \subseteq past /\ past \subseteq ClosureIn(nodes, roots)
  BY DEF Taking
<1>3. IsFiniteSet(DOMAIN nodes)
  BY DEF IsGraph
<1> QED BY <1>1, <1>2, <1>3, ClosureFacts

Visit == [id : Nat, path : Seq(Nat)]

(* The queue holds the ways that have not been taken, and the answer the   *)
(* others.                                                                 *)
Queued(queue, found, ways, count) ==
  /\ queue \in Seq(Seq(Nat)) /\ Len(queue) = Len(ways) - count
  /\ \A j \in 1..Len(queue) : queue[j] = ways[count + j]
  /\ found \in Seq(Visit) /\ Len(found) = count
  /\ \A i \in 1..count : found[i].id = End(ways[i]) /\ found[i].path = ways[i]

Spreading(nodes, roots, queue, found, past) ==
  \E ways, count :
    /\ Spread(nodes, roots, ways, past) /\ Taking(nodes, roots, ways, count, past)
    /\ Queued(queue, found, ways, count)

LEMMA SpreadingStarts ==
  ASSUME NEW nodes, IsGraph(nodes), NEW roots \in Seq(Nat), NoRepeats(roots),
         NEW queue, queue = [i \in DOMAIN roots |-> <<roots[i]>>]
  PROVE  Spreading(nodes, ToSet(roots), queue, << >>, ToSet(roots))
<1> DEFINE n == Len(roots)
           all == ToSet(roots)
<1>1. n \in Nat /\ DOMAIN roots = 1..n /\ all = {roots[i] : i \in 1..n} /\ \A i \in 1..n : roots[i] \in Nat
  BY LenProperties, ToSetOfSeq, ElementOfSeq
<1>2. queue \in Seq(Seq(Nat)) /\ Len(queue) = n
  <2>1. \A i \in 1..n : <<roots[i]>> \in Seq(Nat)
    BY <1>1
  <2>2. queue \in [1..n -> Seq(Nat)]
    BY <1>1, <2>1
  <2> QED BY <1>1, <2>2, FunctionIsSeq
<1>3. ASSUME NEW i \in 1..n
      PROVE  /\ Way(nodes, all, queue[i]) /\ ToSet(queue[i]) = {roots[i]}
             /\ Len(queue[i]) = 1 /\ End(queue[i]) = roots[i]
  <2>1. PICK one : one = <<roots[i]>>
    OBVIOUS
  <2>2. one \in Seq(Nat) /\ Len(one) = 1 /\ one[1] = roots[i] /\ one # << >>
    BY <1>1, <2>1
  <2>3. queue[i] = one
    BY <1>1, <2>1
  <2>4. ToSet(one) = {one[k] : k \in 1..Len(one)}
    BY ONLY <2>2, ToSetOfSeq
  <2>5. ToSet(one) = {roots[i]}
    BY ONLY <2>2, <2>4
  <2>6. NoRepeats(one) /\ Linked(nodes, one) /\ End(one) = roots[i]
    BY ONLY <2>2 DEF NoRepeats, Linked, End
  <2> QED BY <1>1, <2>2, <2>3, <2>5, <2>6 DEF Way
<1>4. \A i, j \in 1..n : roots[i] = roots[j] => i = j
  BY DEF NoRepeats
<1> HIDE DEF n, all
<1>5. Spread(nodes, all, queue, all)
  <2>1. \A i \in 1..n : Way(nodes, all, queue[i]) /\ ToSet(queue[i]) \subseteq all
    BY <1>1, <1>3
  <2>2. ASSUME NEW i \in 1..n, NEW j \in 1..n, End(queue[i]) = End(queue[j]) PROVE i = j
    <3>1. End(queue[i]) = roots[i] /\ End(queue[j]) = roots[j]
      BY <1>3
    <3> QED BY <1>4, <2>2, <3>1
  <2>3. \A x : x \in all <=> \E i \in 1..n : x = End(queue[i])
    BY <1>1, <1>3
  <2>4. ASSUME NEW i \in 1..n, NEW j \in 1..n PROVE Len(queue[i]) <= Len(queue[j])
    <3>1. Len(queue[i]) = 1 /\ Len(queue[j]) = 1
      BY <1>3
    <3> QED BY ONLY <3>1
  <2>5. ASSUME NEW i \in 1..n PROVE ~(Len(queue[i]) > 1)
    <3>1. Len(queue[i]) = 1
      BY <1>3
    <3> QED BY ONLY <3>1
  <2> QED BY <1>2, <2>1, <2>2, <2>3, <2>4, <2>5 DEF Spread
<1>6. Taking(nodes, all, queue, 0, all)
  <2>1. 0 \in 0..n /\ 1..0 = {} /\ 0 + 1 = 1
    BY <1>1
  <2>2. Layer(nodes, all, 0) = all
    BY LayerSteps
  <2>3. all \subseteq ClosureIn(nodes, all)
    BY ClosureFacts DEF IsGraph
  <2>4. ASSUME NEW i \in 1..n
        PROVE  /\ Len(queue[i]) <= Len(queue[1]) + 1
               /\ Layer(nodes, all, Len(queue[1]) - 1) \subseteq all
    <3>1. 1 \in 1..n
      BY <1>1
    <3>2. Len(queue[i]) = 1 /\ Len(queue[1]) = 1
      BY <1>3, <3>1
    <3>3. Len(queue[1]) - 1 = 0 /\ Len(queue[i]) <= Len(queue[1]) + 1
      BY ONLY <3>2
    <3> QED BY <2>2, <3>3
  <2> QED BY <1>2, <2>1, <2>3, <2>4 DEF Taking
<1>7. Queued(queue, << >>, queue, 0)
  <2>1. << >> \in Seq(Visit) /\ Len(<< >>) = 0 /\ n = n - 0 /\ 1..0 = {}
    BY <1>1
  <2>2. \A j \in 1..n : queue[j] = queue[0 + j]
    BY <1>1
  <2> QED BY <1>2, <2>1, <2>2 DEF Queued
<1> QED BY <1>5, <1>6, <1>7 DEF Spreading, all

LEMMA SpreadingVisits ==
  ASSUME NEW nodes, IsGraph(nodes), NEW roots, NEW queue, NEW found, NEW past,
         Spreading(nodes, roots, queue, found, past), queue # << >>,
         NEW s, s = Head(queue),
         NEW next \in Seq(Nat), NoRepeats(next), ToSet(next) = ToSet(ChildrenIn(nodes, Last(s))) \ past,
         NEW others, others = [i \in DOMAIN next |-> Append(s, next[i])]
  PROVE  Spreading(nodes, roots, Tail(queue) \o others,
                   Append(found, [id |-> Last(s), path |-> s]), past \cup ToSet(next))
<1>1. PICK ways, count :
        /\ Spread(nodes, roots, ways, past) /\ Taking(nodes, roots, ways, count, past)
        /\ Queued(queue, found, ways, count)
  BY DEF Spreading
<1> DEFINE n == Len(ways)
           K == Len(next)
           m == Len(queue)
<1>2. /\ ways \in Seq(Seq(Nat)) /\ n \in Nat /\ count \in 0..n /\ K \in Nat /\ DOMAIN next = 1..K
  BY <1>1, LenProperties DEF Spread, Taking
<1>3. PICK rest : rest = Tail(queue)
  OBVIOUS
<1>4. /\ queue \in Seq(Seq(Nat)) /\ m = n - count
      /\ \A j \in 1..m : queue[j] = ways[count + j]
      /\ found \in Seq(Visit) /\ Len(found) = count
      /\ \A i \in 1..count : found[i].id = End(ways[i]) /\ found[i].path = ways[i]
  BY <1>1 DEF Queued
<1>5. /\ m \in Nat \ {0} /\ s = queue[1] /\ rest \in Seq(Seq(Nat)) /\ Len(rest) = m - 1
      /\ \A i \in 1..m - 1 : rest[i] = queue[i + 1]
  <2>1. /\ Head(queue) = queue[1] /\ m \in Nat \ {0} /\ Tail(queue) \in Seq(Seq(Nat))
        /\ Len(Tail(queue)) = m - 1
        /\ \A i \in 1..Len(Tail(queue)) : Tail(queue)[i] = queue[i + 1]
    BY <1>4, HeadTailProperties, EmptySeq
  <2> QED BY <1>3, <2>1
<1>6. count # n /\ s = ways[count + 1]
  <2>1. count # n /\ 1 \in 1..m
    BY <1>2, <1>4, <1>5
  <2> QED BY <1>4, <1>5, <2>1
<1>7. Way(nodes, roots, s) /\ ToSet(s) \subseteq past /\ count + 1 \in 1..n
  BY <1>1, <1>6, WaysAreShort
<1>8. s \in Seq(Nat) /\ Last(s) = End(s) /\ End(s) \in Nat
  BY <1>7, WayEnds DEF Way
<1>9. others \in Seq(Seq(Nat)) /\ Len(others) = K /\ \A k \in 1..K : others[k] = Append(s, next[k])
  <2>1. \A k \in 1..K : others[k] = Append(s, next[k])
    BY <1>2
  <2>2. \A k \in 1..K : next[k] \in Nat
    BY ElementOfSeq
  <2>3. \A k \in 1..K : Append(s, next[k]) \in Seq(Nat)
    BY <1>8, <2>2, AppendProperties
  <2>4. others \in [1..K -> Seq(Nat)]
    BY <1>2, <2>3
  <2> QED BY <1>2, <2>1, <2>4, FunctionIsSeq
<1>10. PICK more : more = ways \o others
  OBVIOUS
<1>11. more \in Seq(Seq(Nat)) /\ Joined(more, ways, others)
  BY <1>2, <1>9, <1>10, ConcatPlaces
<1>12. GoesOn(more, ways, s, next)
  BY <1>9, <1>11 DEF Joined, GoesOn
<1>13. /\ Spread(nodes, roots, more, past \cup ToSet(next))
       /\ Taking(nodes, roots, more, count + 1, past \cup ToSet(next))
  BY <1>1, <1>6, <1>8, <1>12, TakingGoesOn
<1>14. PICK then : then = rest \o others
  OBVIOUS
<1>15. then \in Seq(Seq(Nat)) /\ Joined(then, rest, others)
  BY <1>5, <1>9, <1>14, ConcatPlaces
<1> HIDE DEF n, K, m
<1>16. /\ Len(then) = (m - 1) + K /\ Len(more) = n + K
       /\ \A i \in 1..m - 1 : then[i] = rest[i]
       /\ \A k \in 1..K : then[(m - 1) + k] = others[k] /\ more[n + k] = others[k]
       /\ \A i \in 1..n : more[i] = ways[i]
  BY <1>5, <1>9, <1>11, <1>15 DEF Joined, n
<1>17. ASSUME NEW j \in 1..(m - 1) + K PROVE then[j] = more[(count + 1) + j]
  <2>1. CASE j \in 1..m - 1
    <3>1. j + 1 \in 1..m /\ count + (j + 1) = (count + 1) + j
      BY <1>2, <1>5, <2>1
    <3>2. (count + 1) + j \in 1..n
      BY <1>2, <1>4, <1>5, <2>1
    <3>3. then[j] = rest[j] /\ rest[j] = queue[j + 1]
      BY <1>5, <1>16, <2>1
    <3>4. queue[j + 1] = ways[(count + 1) + j]
      BY <1>4, <3>1
    <3>5. more[(count + 1) + j] = ways[(count + 1) + j]
      BY <1>16, <3>2
    <3> QED BY <3>3, <3>4, <3>5
  <2>2. CASE j - (m - 1) \in 1..K
    <3>1. (m - 1) + (j - (m - 1)) = j /\ n + (j - (m - 1)) = (count + 1) + j
      BY <1>2, <1>4, <1>5
    <3>2. /\ then[(m - 1) + (j - (m - 1))] = others[j - (m - 1)]
          /\ more[n + (j - (m - 1))] = others[j - (m - 1)]
      BY <1>16, <2>2
    <3> QED BY <3>1, <3>2
  <2>3. j \in 1..m - 1 \/ j - (m - 1) \in 1..K
    BY <1>2, <1>5
  <2> QED BY <2>1, <2>2, <2>3
<1>18. PICK visit : visit = [id |-> Last(s), path |-> s]
  OBVIOUS
<1>19. visit \in Visit /\ visit.id = End(s) /\ visit.path = s
  BY <1>8, <1>18 DEF Visit
<1>20. PICK visits : visits = Append(found, visit)
  OBVIOUS
<1>21. /\ visits \in Seq(Visit) /\ Len(visits) = count + 1 /\ visits[count + 1] = visit
       /\ \A i \in 1..count : visits[i] = found[i]
  BY <1>4, <1>19, <1>20, AppendProperties
<1>22. ASSUME NEW i \in 1..count + 1 PROVE visits[i].id = End(more[i]) /\ visits[i].path = more[i]
  <2>1. i \in 1..n /\ more[i] = ways[i]
    <3>1. i \in 1..n
      BY <1>2, <1>6
    <3> QED BY <1>16, <3>1
  <2>2. CASE i = count + 1
    BY <1>6, <1>19, <1>21, <2>1, <2>2
  <2>3. CASE i \in 1..count
    BY <1>4, <1>21, <2>1, <2>3
  <2>4. i = count + 1 \/ i \in 1..count
    BY <1>2
  <2> QED BY <2>2, <2>3, <2>4
<1>23. Queued(then, visits, more, count + 1)
  <2>1. Len(then) = Len(more) - (count + 1)
    BY <1>2, <1>4, <1>5, <1>16
  <2> QED BY <1>15, <1>16, <1>17, <1>21, <1>22, <2>1 DEF Queued
<1> QED BY <1>3, <1>13, <1>14, <1>18, <1>20, <1>23 DEF Spreading

(* Once the queue is empty every way has been taken.                       *)
LEMMA SpreadingEnds ==
  ASSUME NEW nodes, IsGraph(nodes), NEW roots, NEW found, NEW past,
         Spreading(nodes, roots, << >>, found, past)
  PROVE  /\ found \in Seq(Visit)
         /\ \A i \in 1..Len(found) :
              /\ Way(nodes, roots, found[i].path) /\ found[i].id = End(found[i].path)
              /\ Len(found[i].path) > 1 =>
                   found[i].id \notin Layer(nodes, roots, Len(found[i].path) - 2)
              /\ \A j \in 1..i : Len(found[j].path) <= Len(found[i].path)
         /\ \A i, j \in 1..Len(found) : found[i].id = found[j].id => i = j
         /\ {found[i].id : i \in 1..Len(found)} = ClosureIn(nodes, roots)
<1>1. PICK ways, count :
        /\ Spread(nodes, roots, ways, past) /\ Taking(nodes, roots, ways, count, past)
        /\ Queued(<< >>, found, ways, count)
  BY DEF Spreading
<1> DEFINE n == Len(ways)
<1>2. n \in Nat /\ count = n
  <2>1. n \in Nat /\ count \in 0..n
    BY <1>1, LenProperties DEF Spread, Taking
  <2>2. 0 = n - count
    BY <1>1 DEF Queued
  <2> QED BY <2>1, <2>2
<1>3. /\ found \in Seq(Visit) /\ Len(found) = n
      /\ \A i \in 1..n : found[i].id = End(ways[i]) /\ found[i].path = ways[i]
  BY <1>1, <1>2 DEF Queued
<1>4. past = ClosureIn(nodes, roots)
  BY <1>1, <1>2, SpreadEnds
<1>5. /\ \A i \in 1..n : Way(nodes, roots, ways[i])
      /\ \A i, j \in 1..n : End(ways[i]) = End(ways[j]) => i = j
      /\ \A x : x \in past <=> \E i \in 1..n : x = End(ways[i])
      /\ \A i, j \in 1..n : i <= j => Len(ways[i]) <= Len(ways[j])
      /\ \A i \in 1..n :
           Len(ways[i]) > 1 => End(ways[i]) \notin Layer(nodes, roots, Len(ways[i]) - 2)
  BY <1>1 DEF Spread
<1> HIDE DEF n
<1>6. ASSUME NEW i \in 1..n, NEW j \in 1..i PROVE Len(found[j].path) <= Len(found[i].path)
  <2>1. j \in 1..n /\ j <= i
    BY <1>2
  <2> QED BY <1>3, <1>5, <2>1
<1>7. {found[i].id : i \in 1..n} = past
  BY <1>3, <1>5
<1>8. \A i \in 1..n : /\ Way(nodes, roots, found[i].path) /\ found[i].id = End(found[i].path)
                      /\ Len(found[i].path) > 1 =>
                           found[i].id \notin Layer(nodes, roots, Len(found[i].path) - 2)
  BY <1>3, <1>5
<1>9. \A i, j \in 1..n : found[i].id = found[j].id => i = j
  BY <1>3, <1>5
<1> QED BY ONLY <1>3, <1>4, <1>6, <1>7, <1>8, <1>9

(***************************************************************************)
(* What a running traversal or search has done.                            *)
(***************************************************************************)

WayTo(nodes, roots, visit) == Way(nodes, roots, visit.path) /\ End(visit.path) = visit.id

Steps(nodes, roots, found, visited) ==
  /\ found \in Seq(Visit) /\ Len(found) = Len(visited)
  /\ \A i \in 1..Len(found) : found[i].id = visited[i] /\ WayTo(nodes, roots, found[i])

Wanders ==
  /\ query.name \in {"depth_first", "order"}
  /\ \E visited :
       /\ Wandering(graph.nodes, Roots, pending, path, seen, visited)
       /\ query.name = "order" => answer = visited /\ graph.cycles = << >>
       /\ query.name # "order" => Steps(graph.nodes, Roots, answer, visited)

Spreads == query.name = "breadth_first" /\ Spreading(graph.nodes, Roots, pending, answer, seen)
Descends == query.name = "descendants" /\ Descending(graph.nodes, query.id, pending, answer, seen)
Reaches == query.name = "reachable_from" /\ Reaching(graph.nodes, query.id, pending, answer, seen)

LEMMA GraphTyped ==
  ASSUME GraphInv, stage \notin Building
  PROVE  /\ IsGraph(graph.nodes) /\ Ids = DOMAIN graph.nodes
         /\ graph.roots \in Seq(Nat) /\ NoRepeats(graph.roots) /\ Roots = ToSet(graph.roots)
         /\ Roots \in SUBSET DOMAIN graph.nodes
         /\ Marked(graph.nodes, Roots) /\ graph.unreachable \in Seq(Nat)
         /\ ToSet(graph.unreachable) = Ids \ ClosureIn(graph.nodes, Roots)
         /\ CyclesKnown
         /\ stage = "built" => Idle
<1>1. LinksOk(graph.nodes, graph.roots) /\ MarksKnown /\ CyclesKnown
  BY DEF GraphInv, Building
<1> QED BY <1>1 DEF GraphInv, LinksOk, MarksKnown, Roots, Ids

LEMMA Unmoved ==
  ASSUME graph' = graph
  PROVE  /\ Roots' = Roots /\ Ids' = Ids
         /\ \A id : Children(id)' = Children(id)
BY DEF Roots, Ids, Children, GraphContainsNode

LEMMA WandersStarts ==
  ASSUME GraphInv, \/ TraverseDepthFirst
                   \/ TopologicalNodeOrder /\ graph.cycles = << >>
  PROVE  Wanders'
<1>1. /\ stage = "built" /\ graph' = graph /\ path' = path /\ seen' = seen /\ answer' = answer
      /\ pending' = Each(graph.roots, Enter)
      /\ query'.name = "depth_first" \/ (query'.name = "order" /\ graph.cycles = << >>)
  BY DEF TraverseDepthFirst, TopologicalNodeOrder, Ask
<1>2. path = << >> /\ seen = {} /\ answer = << >> /\ graph.roots \in Seq(Nat) /\ Roots = ToSet(graph.roots)
  BY <1>1, GraphTyped DEF Idle, Building
<1>3. pending' = [i \in DOMAIN graph.roots |-> Enter(graph.roots[i])]
  BY <1>1 DEF Each
<1>4. Wandering(graph.nodes, Roots, pending', << >>, {}, << >>)
  BY <1>2, <1>3, WanderingStarts
<1>5. Wandering(graph'.nodes, Roots', pending', path', seen', << >>)
  BY <1>1, <1>2, <1>4, Unmoved
<1>6. Steps(graph'.nodes, Roots', << >>, << >>)
  BY DEF Steps
<1> QED BY <1>1, <1>2, <1>5, <1>6 DEF Wanders

LEMMA WandersEnters ==
  ASSUME GraphInv, Wanders, EnterDepthFirst
  PROVE  Wanders'
<1>1. PICK id, way : id = Head(pending).id /\ way = Append(path, id)
  OBVIOUS
<1>2. /\ stage = "depth_first" /\ pending # << >> /\ Head(pending).enters
      /\ id \in Ids /\ id \notin seen \cup ToSet(path)
      /\ path' = way /\ graph' = graph /\ query' = query /\ seen' = seen
      /\ pending' = Each(Children(id), Enter) \o <<Leave(id)>> \o Tail(pending)
      /\ answer' = Append(answer, IF query.name = "order" THEN id ELSE Step(way))
  BY <1>1 DEF EnterDepthFirst, Entering, Descend, GraphContainsNode
<1>3. PICK visited :
        /\ Wandering(graph.nodes, Roots, pending, path, seen, visited)
        /\ query.name = "order" => answer = visited /\ graph.cycles = << >>
        /\ query.name # "order" => Steps(graph.nodes, Roots, answer, visited)
  BY DEF Wanders
<1>4. /\ IsGraph(graph.nodes) /\ Ids = DOMAIN graph.nodes /\ Roots \in SUBSET DOMAIN graph.nodes
  BY <1>2, GraphTyped DEF Building
<1>5. pending \in Tasks /\ pending[1] = Head(pending) /\ visited \in Seq(Nat) /\ id \in Nat
  <2>1. pending \in Tasks /\ visited \in Seq(Nat)
    BY <1>3 DEF Wandering, Walk
  <2> QED BY <1>2, <1>4, <2>1, HeadAndTail DEF Tasks, IsGraph
<1>6. pending' = Entered(pending, id, ChildrenIn(graph.nodes, id))
  BY <1>2, EnteredForm
<1>7. /\ Wandering(graph.nodes, Roots, pending', way, seen, Append(visited, id))
      /\ Way(graph.nodes, Roots, way) /\ Last(way) = id
  <2>1. pending[1].enters /\ id = pending[1].id /\ id \in DOMAIN graph.nodes
    BY <1>1, <1>2, <1>4, <1>5
  <2>2. /\ Wandering(graph.nodes, Roots, Entered(pending, id, ChildrenIn(graph.nodes, id)), Append(path, id),
                      seen, Append(visited, id))
        /\ Way(graph.nodes, Roots, Append(path, id)) /\ Last(Append(path, id)) = id
    <3>1. id \notin seen \cup ToSet(path) /\ pending # << >>
      BY <1>2
    <3>2. Wandering(graph.nodes, Roots, pending, path, seen, visited)
      BY <1>3
    <3> QED BY ONLY <1>4, <2>1, <3>1, <3>2, WanderingEnters
  <2> QED BY <1>1, <1>6, <2>2
<1>8. Wandering(graph'.nodes, Roots', pending', path', seen', Append(visited, id))
  BY <1>2, <1>7, Unmoved
<1>9. CASE query.name = "order"
  BY <1>2, <1>3, <1>8, <1>9 DEF Wanders
<1>10. CASE query.name # "order"
  <2>1. PICK visit : visit = Step(way)
    OBVIOUS
  <2>2. visit.id = id /\ visit.path = way
    BY <1>7, <2>1 DEF Step
  <2>3. visit \in Visit /\ WayTo(graph.nodes, Roots, visit)
    <3>1. way \in Seq(Nat) /\ End(way) = id
      BY <1>7, WayEnds DEF Way
    <3>2. visit = [id |-> id, path |-> way]
      BY <1>7, <2>1 DEF Step
    <3> QED BY <1>5, <1>7, <2>2, <3>1, <3>2 DEF Visit, WayTo
  <2>4. Steps(graph.nodes, Roots, answer, visited) /\ answer' = Append(answer, visit)
    BY <1>2, <1>3, <1>10, <2>1
  <2>5. PICK more, ids : more = Append(answer, visit) /\ ids = Append(visited, id)
    OBVIOUS
  <2>6. /\ more \in Seq(Visit) /\ Len(more) = Len(answer) + 1 /\ more[Len(answer) + 1] = visit
        /\ \A i \in 1..Len(answer) : more[i] = answer[i]
    BY <2>3, <2>4, <2>5, AppendProperties DEF Steps
  <2>7. /\ Len(ids) = Len(visited) + 1 /\ ids[Len(visited) + 1] = id
        /\ \A i \in 1..Len(visited) : ids[i] = visited[i]
    BY <1>5, <2>5, AppendProperties
  <2>8. Len(answer) = Len(visited) /\ Len(visited) \in Nat
    BY <1>5, <2>4, LenProperties DEF Steps
  <2>9. ASSUME NEW i \in 1..Len(answer) + 1
        PROVE  more[i].id = ids[i] /\ WayTo(graph.nodes, Roots, more[i])
    <3>1. CASE i \in 1..Len(answer)
      BY <2>4, <2>6, <2>7, <2>8, <3>1 DEF Steps
    <3>2. CASE i = Len(answer) + 1
      BY <2>2, <2>3, <2>6, <2>7, <2>8, <3>2
    <3>3. i \in 1..Len(answer) \/ i = Len(answer) + 1
      BY <2>8
    <3> QED BY <3>1, <3>2, <3>3
  <2>10. Steps(graph.nodes, Roots, more, ids)
    BY <2>6, <2>7, <2>8, <2>9 DEF Steps
  <2>11. Steps(graph'.nodes, Roots', answer', Append(visited, id))
    BY <1>2, <2>4, <2>5, <2>10, Unmoved
  <2>12. query' = query /\ query.name \in {"depth_first", "order"}
    BY <1>2 DEF Wanders
  <2> QED BY <1>8, <1>10, <2>11, <2>12 DEF Wanders
<1> QED BY <1>9, <1>10

LEMMA WandersSkips ==
  ASSUME GraphInv, Wanders, SkipDepthFirst
  PROVE  Wanders'
<1>1. PICK id : id = Head(pending).id
  OBVIOUS
<1>2. /\ stage = "depth_first" /\ pending # << >> /\ Head(pending).enters
      /\ id \notin Ids \/ id \in ToSet(path) \cup seen
      /\ path' = path /\ graph' = graph /\ query' = query /\ seen' = seen /\ answer' = answer
      /\ pending' = Tail(pending)
  BY <1>1 DEF SkipDepthFirst, Entering, GraphContainsNode
<1>3. PICK visited :
        /\ Wandering(graph.nodes, Roots, pending, path, seen, visited)
        /\ query.name = "order" => answer = visited /\ graph.cycles = << >>
        /\ query.name # "order" => Steps(graph.nodes, Roots, answer, visited)
  BY DEF Wanders
<1>4. Ids = DOMAIN graph.nodes /\ Roots \in SUBSET DOMAIN graph.nodes
  BY <1>2, GraphTyped DEF Building
<1>5. pending \in Tasks /\ pending[1] = Head(pending)
  <2>1. pending \in Tasks
    BY <1>3 DEF Wandering, Walk
  <2> QED BY <1>2, <2>1, HeadAndTail DEF Tasks
<1>6. pending[1].enters /\ id = pending[1].id /\ (id \notin DOMAIN graph.nodes \/ id \in seen \cup ToSet(path))
  BY <1>1, <1>2, <1>4, <1>5
<1>7. Wandering(graph.nodes, Roots, Tail(pending), path, seen, visited)
  BY <1>2, <1>3, <1>4, <1>6, WanderingSkips
<1>8. /\ Wandering(graph'.nodes, Roots', pending', path', seen', visited)
      /\ query'.name = "order" => answer' = visited /\ graph'.cycles = << >>
      /\ query'.name # "order" => Steps(graph'.nodes, Roots', answer', visited)
  BY <1>2, <1>3, <1>7, Unmoved
<1>9. query'.name \in {"depth_first", "order"}
  BY <1>2 DEF Wanders
<1> QED BY <1>8, <1>9 DEF Wanders

LEMMA WandersReturns ==
  ASSUME GraphInv, Wanders, Return
  PROVE  Wanders'
<1>1. PICK id : id = Head(pending).id
  OBVIOUS
<1>2. /\ pending # << >> /\ ~Head(pending).enters
      /\ path' = Front(path) /\ graph' = graph /\ query' = query /\ seen' = seen \cup {id}
      /\ answer' = answer /\ pending' = Tail(pending)
  BY <1>1 DEF Return
<1>3. PICK visited :
        /\ Wandering(graph.nodes, Roots, pending, path, seen, visited)
        /\ query.name = "order" => answer = visited /\ graph.cycles = << >>
        /\ query.name # "order" => Steps(graph.nodes, Roots, answer, visited)
  BY DEF Wanders
<1>4. pending \in Tasks /\ pending[1] = Head(pending)
  <2>1. pending \in Tasks
    BY <1>3 DEF Wandering, Walk
  <2> QED BY <1>2, <2>1, HeadAndTail DEF Tasks
<1>5. Wandering(graph.nodes, Roots, Tail(pending), Front(path), seen \cup {pending[1].id}, visited)
  BY <1>2, <1>3, <1>4, WanderingReturns
<1>6. /\ Wandering(graph'.nodes, Roots', pending', path', seen', visited)
      /\ query'.name = "order" => answer' = visited /\ graph'.cycles = << >>
      /\ query'.name # "order" => Steps(graph'.nodes, Roots', answer', visited)
  BY <1>1, <1>2, <1>3, <1>4, <1>5, Unmoved
<1>7. query'.name \in {"depth_first", "order"}
  BY <1>2 DEF Wanders
<1> QED BY <1>6, <1>7 DEF Wanders

(* A depth-first traversal that is over has visited what it should.        *)
LEMMA WandersEnds ==
  ASSUME GraphInv, Wanders, stage = "depth_first", pending = << >>
  PROVE  /\ query.name = "order" =>
              /\ answer \in Seq(Nat) /\ ToSet(answer) = ClosureIn(graph.nodes, Roots) \cap Ids
              /\ graph.cycles = << >>
         /\ query.name # "order" =>
              /\ answer \in Seq(Visit)
              /\ \A i \in 1..Len(answer) : WayTo(graph.nodes, Roots, answer[i])
              /\ \A i, j \in 1..Len(answer) : answer[i].id = answer[j].id => i = j
              /\ {answer[i].id : i \in 1..Len(answer)} = ClosureIn(graph.nodes, Roots) \cap Ids
<1>1. PICK visited :
        /\ Wandering(graph.nodes, Roots, << >>, path, seen, visited)
        /\ query.name = "order" => answer = visited /\ graph.cycles = << >>
        /\ query.name # "order" => Steps(graph.nodes, Roots, answer, visited)
  BY DEF Wanders
<1>2. IsGraph(graph.nodes) /\ Ids = DOMAIN graph.nodes
  BY GraphTyped DEF Building
<1>3. ToSet(visited) = ClosureIn(graph.nodes, Roots) \cap Ids
  BY <1>1, <1>2, WanderingEnds
<1>4. visited \in Seq(Nat) /\ NoRepeats(visited)
  BY <1>1 DEF Wandering
<1>5. ToSet(visited) = {visited[i] : i \in 1..Len(visited)}
  BY <1>4, ToSetOfSeq
<1>6. ASSUME query.name # "order"
      PROVE  /\ answer \in Seq(Visit)
             /\ \A i \in 1..Len(answer) : WayTo(graph.nodes, Roots, answer[i])
             /\ \A i, j \in 1..Len(answer) : answer[i].id = answer[j].id => i = j
             /\ {answer[i].id : i \in 1..Len(answer)} = ClosureIn(graph.nodes, Roots) \cap Ids
  <2>1. /\ answer \in Seq(Visit) /\ Len(answer) = Len(visited)
        /\ \A i \in 1..Len(answer) : answer[i].id = visited[i] /\ WayTo(graph.nodes, Roots, answer[i])
    BY <1>1, <1>6 DEF Steps
  <2>2. \A i, j \in 1..Len(answer) : answer[i].id = answer[j].id => i = j
    BY <1>4, <2>1 DEF NoRepeats
  <2>3. {answer[i].id : i \in 1..Len(answer)} = {visited[i] : i \in 1..Len(visited)}
    BY <2>1
  <2> QED BY <1>3, <1>5, <2>1, <2>2, <2>3
<1> QED BY <1>1, <1>3, <1>4, <1>6

LEMMA SpreadsStarts ==
  ASSUME GraphInv, TraverseBreadthFirst
  PROVE  Spreads'
<1>1. /\ stage = "built" /\ graph' = graph /\ answer' = answer /\ query'.name = "breadth_first"
      /\ pending' = [i \in DOMAIN graph.roots |-> <<graph.roots[i]>>]
      /\ seen' = ToSet(graph.roots)
  BY DEF TraverseBreadthFirst, Ask, Each
<1>2. answer = << >>
  BY <1>1, GraphTyped DEF Idle, Building
<1>3. /\ IsGraph(graph.nodes) /\ graph.roots \in Seq(Nat) /\ NoRepeats(graph.roots)
      /\ Roots = ToSet(graph.roots)
  BY <1>1, GraphTyped DEF Building
<1>4. Spreading(graph.nodes, Roots, pending', << >>, Roots)
  BY <1>1, <1>3, SpreadingStarts
<1>5. Spreading(graph'.nodes, Roots', pending', answer', seen')
  BY <1>1, <1>2, <1>3, <1>4, Unmoved
<1> QED BY <1>1, <1>5 DEF Spreads

LEMMA SpreadsVisits ==
  ASSUME GraphInv, Spreads, VisitBreadthFirst
  PROVE  Spreads'
<1>1. PICK steps, next : steps = Head(pending) /\ next = Unseen(Children(Last(steps)))
  OBVIOUS
<1>2. PICK others : others = [i \in DOMAIN next |-> Append(steps, next[i])]
  OBVIOUS
<1>3. /\ stage = "breadth_first" /\ pending # << >> /\ graph' = graph /\ query' = query
      /\ answer' = Append(answer, [id |-> Last(steps), path |-> steps])
      /\ pending' = Tail(pending) \o others
      /\ seen' = seen \cup ToSet(next)
  BY <1>1, <1>2 DEF VisitBreadthFirst, Each, Step
<1>4. IsGraph(graph.nodes)
  BY <1>3, GraphTyped DEF Building
<1>5. Children(Last(steps)) = ChildrenIn(graph.nodes, Last(steps))
  BY LayersOfGraph
<1>6. /\ ChildrenIn(graph.nodes, Last(steps)) \in Seq(Nat)
      /\ NoRepeats(ChildrenIn(graph.nodes, Last(steps)))
  BY <1>4, ChildrenTyped
<1>7. /\ next \in Seq(Nat) /\ NoRepeats(next)
      /\ ToSet(next) = ToSet(ChildrenIn(graph.nodes, Last(steps))) \ seen
  BY <1>1, <1>5, <1>6, UnseenIds
<1>8. Spreading(graph.nodes, Roots, pending, answer, seen)
  BY DEF Spreads
<1>9. Spreading(graph.nodes, Roots, Tail(pending) \o others,
                Append(answer, [id |-> Last(steps), path |-> steps]), seen \cup ToSet(next))
  BY ONLY <1>1, <1>2, <1>3, <1>4, <1>7, <1>8, SpreadingVisits
<1>10. Spreading(graph'.nodes, Roots', pending', answer', seen')
  BY <1>3, <1>9, Unmoved
<1> QED BY <1>3, <1>10 DEF Spreads

LEMMA DescendsStarts ==
  ASSUME GraphInv, NEW id, DescendantsOf(id)
  PROVE  Descends'
<1>1. /\ stage = "built" /\ graph' = graph /\ answer' = answer
      /\ query'.name = "descendants" /\ query'.id = id
      /\ pending' = ChildrenIn(graph.nodes, id) /\ seen' = {id}
  BY LayersOfGraph DEF DescendantsOf, Ask
<1>2. answer = << >> /\ IsGraph(graph.nodes)
  BY <1>1, GraphTyped DEF Idle, Building
<1>3. Descending(graph'.nodes, query'.id, pending', answer', seen')
  BY <1>1, <1>2, DescendingStarts
<1> QED BY <1>1, <1>3 DEF Descends

LEMMA DescendsOn ==
  ASSUME GraphInv, Descends, VisitDescendant \/ SkipDescendant
  PROVE  Descends'
<1>1. stage = "descendants" /\ pending # << >> /\ graph' = graph /\ query' = query
  BY DEF VisitDescendant, SkipDescendant
<1>2. IsGraph(graph.nodes)
  BY <1>1, GraphTyped DEF Building
<1>3. Descending(graph.nodes, query.id, pending, answer, seen)
  BY DEF Descends
<1>4. CASE VisitDescendant
  <2>1. /\ Head(pending) \notin seen
        /\ answer' = Append(answer, Head(pending)) /\ seen' = seen \cup {Head(pending)}
        /\ pending' = Tail(pending) \o ChildrenIn(graph.nodes, Head(pending))
    BY <1>4, LayersOfGraph DEF VisitDescendant
  <2>2. Descending(graph'.nodes, query'.id, pending', answer', seen')
    BY <1>1, <1>2, <1>3, <2>1, DescendingVisits
  <2> QED BY <1>1, <2>2 DEF Descends
<1>5. CASE SkipDescendant
  <2>1. Head(pending) \in seen /\ answer' = answer /\ seen' = seen /\ pending' = Tail(pending)
    BY <1>5 DEF SkipDescendant
  <2>2. Descending(graph'.nodes, query'.id, pending', answer', seen')
    BY <1>1, <1>3, <2>1, DescendingSkips
  <2> QED BY <1>1, <2>2 DEF Descends
<1> QED BY <1>4, <1>5

LEMMA ReachesStarts ==
  ASSUME GraphInv, NEW id, ReachableFrom(id)
  PROVE  Reaches'
<1>1. /\ stage = "built" /\ graph' = graph /\ answer' = answer
      /\ query'.name = "reachable_from" /\ query'.id = id
      /\ pending' = (IF id \in DOMAIN graph.nodes THEN <<id>> ELSE << >>) /\ seen' = ToSet(pending')
  BY DEF ReachableFrom, Ask, GraphContainsNode, Ids
<1>2. answer = << >> /\ IsGraph(graph.nodes)
  BY <1>1, GraphTyped DEF Idle, Building
<1>3. PICK queue : queue = IF id \in DOMAIN graph.nodes THEN <<id>> ELSE << >>
  OBVIOUS
<1>4. Reaching(graph.nodes, id, queue, << >>, ToSet(queue))
  BY <1>2, <1>3, ReachingStarts
<1>5. Reaching(graph'.nodes, query'.id, pending', answer', seen')
  BY <1>1, <1>2, <1>3, <1>4
<1> QED BY <1>1, <1>5 DEF Reaches

LEMMA ReachesOn ==
  ASSUME GraphInv, Reaches, VisitReachable
  PROVE  Reaches'
<1>1. PICK next : next = Unseen(Children(Head(pending)))
  OBVIOUS
<1>2. /\ stage = "reachable_from" /\ pending # << >> /\ graph' = graph /\ query' = query
      /\ answer' = Append(answer, Head(pending)) /\ seen' = seen \cup ToSet(next)
      /\ pending' = Tail(pending) \o next
  BY <1>1 DEF VisitReachable
<1>3. IsGraph(graph.nodes)
  BY <1>2, GraphTyped DEF Building
<1>4. Children(Head(pending)) = ChildrenIn(graph.nodes, Head(pending))
  BY LayersOfGraph
<1>5. ChildrenIn(graph.nodes, Head(pending)) \in Seq(Nat)
  BY <1>3, ChildrenTyped
<1>6. next \in Seq(Nat) /\ ToSet(next) = ToSet(ChildrenIn(graph.nodes, Head(pending))) \ seen
  BY <1>1, <1>4, <1>5, UnseenIds
<1>7. Reaching(graph.nodes, query.id, pending, answer, seen)
  BY DEF Reaches
<1>8. Reaching(graph'.nodes, query'.id, pending', answer', seen')
  BY <1>2, <1>3, <1>6, <1>7, ReachingVisits
<1> QED BY <1>2, <1>8 DEF Reaches

(***************************************************************************)
(* What the queries have found when they return.                           *)
(***************************************************************************)

Visited(nodes, roots, found) ==
  /\ found \in Seq(Visit)
  /\ \A i \in 1..Len(found) : WayTo(nodes, roots, found[i])
  /\ \A i, j \in 1..Len(found) : found[i].id = found[j].id => i = j

WanderingDone ==
  /\ Visited(graph.nodes, Roots, answer)
  /\ {answer[i].id : i \in 1..Len(answer)} = ClosureIn(graph.nodes, Roots) \cap Ids

SpreadingDone ==
  /\ Visited(graph.nodes, Roots, answer)
  /\ {answer[i].id : i \in 1..Len(answer)} = ClosureIn(graph.nodes, Roots)
  /\ \A i \in 1..Len(answer) :
       /\ Len(answer[i].path) > 1 =>
            answer[i].id \notin Layer(graph.nodes, Roots, Len(answer[i].path) - 2)
       /\ \A j \in 1..i : Len(answer[j].path) <= Len(answer[i].path)

OrderDone == answer = IF graph.cycles = << >> THEN SortUnique(Ids) ELSE << >>
DescendingDone == answer = SortUnique(BelowIn(graph.nodes, query.id) \ {query.id})
ReachingDone ==
  answer = IF query.id \in Ids THEN SortUnique(ClosureIn(graph.nodes, {query.id})) ELSE << >>

VisitsDone ==
  /\ query.name = "depth_first" => WanderingDone
  /\ query.name = "breadth_first" => SpreadingDone
  /\ query.name = "order" => OrderDone
  /\ query.name = "descendants" => DescendingDone
  /\ query.name = "reachable_from" => ReachingDone

(* The traversal or search that runs has done what it should.              *)
VisitsRun ==
  /\ stage = "depth_first" => Wanders
  /\ stage = "breadth_first" => Spreads
  /\ stage = "descendants" => Descends
  /\ stage = "reachable_from" => Reaches
  /\ stage = "answered" => VisitsDone

LEMMA NothingSorted == SortUnique({}) = << >>
<1>1. IsFiniteSet({}) /\ Cardinality({}) = 0
  BY FS_EmptySet
<1>2. SortUnique({}) \in Seq({}) /\ Len(SortUnique({})) = 0
  BY <1>1, SortUniqueLists
<1> QED BY <1>2, EmptySeq

LEMMA ReadVisits ==
  ASSUME GraphInv, stage = "answered", Visited(graph.nodes, Roots, answer)
  PROVE  /\ AreDistinct(Each(answer, LAMBDA step : step.id))
         /\ ToSet(Each(answer, LAMBDA step : step.id)) = {answer[i].id : i \in 1..Len(answer)}
         /\ \A step \in ToSet(answer) :
              Head(step.path) \in Roots /\ IsLinked(step.path) /\ AreDistinct(step.path)
         /\ DOMAIN answer = 1..Len(answer)
         /\ \A i \in 1..Len(answer) :
              /\ Each(answer, LAMBDA step : step.id)[i] = answer[i].id
              /\ Len(answer[i].path) \in Nat
<1>1. /\ answer \in Seq(Visit)
      /\ \A i \in 1..Len(answer) : WayTo(graph.nodes, Roots, answer[i])
      /\ \A i, j \in 1..Len(answer) : answer[i].id = answer[j].id => i = j
  BY DEF Visited
<1>2. /\ DOMAIN answer = 1..Len(answer) /\ Len(answer) \in Nat
      /\ ToSet(answer) = {answer[i] : i \in 1..Len(answer)}
      /\ \A i \in 1..Len(answer) : answer[i] \in Visit
  BY <1>1, LenProperties, ToSetOfSeq, ElementOfSeq
<1>3. PICK ids : ids = [i \in 1..Len(answer) |-> answer[i].id]
  OBVIOUS
<1>4. Each(answer, LAMBDA step : step.id) = ids
  BY <1>2, <1>3 DEF Each
<1>5. ids \in Seq(Nat) /\ Len(ids) = Len(answer) /\ \A i \in 1..Len(answer) : ids[i] = answer[i].id
  <2>1. ids \in [1..Len(answer) -> Nat]
    BY <1>2, <1>3 DEF Visit
  <2> QED BY <1>2, <1>3, <2>1, FunctionIsSeq
<1>6. NoRepeats(ids)
  BY <1>1, <1>5 DEF NoRepeats
<1>7. AreDistinct(ids) /\ ToSet(ids) = {answer[i].id : i \in 1..Len(answer)}
  <2>1. ToSet(ids) = {ids[i] : i \in 1..Len(ids)}
    BY <1>5, ToSetOfSeq
  <2> QED BY <1>5, <1>6, <2>1, DistinctIsNoRepeats
<1>8. ASSUME NEW step \in ToSet(answer)
      PROVE  Head(step.path) \in Roots /\ IsLinked(step.path) /\ AreDistinct(step.path)
  <2>1. PICK s : s = step.path
    OBVIOUS
  <2>2. Way(graph.nodes, Roots, s)
    BY <1>1, <1>2, <2>1 DEF WayTo
  <2>3. s \in Seq(Nat) /\ s # << >> /\ s[1] \in Roots /\ Linked(graph.nodes, s) /\ NoRepeats(s)
    BY <2>2 DEF Way
  <2>4. Head(s) = s[1] /\ AreDistinct(s)
    BY <2>3, HeadAndTail, DistinctIsNoRepeats
  <2>5. IsLinked(s)
    BY <2>3, LayersOfGraph DEF Linked, IsLinked
  <2> QED BY <2>1, <2>3, <2>4, <2>5
<1>9. \A i \in 1..Len(answer) : Len(answer[i].path) \in Nat
  BY <1>2, LenProperties DEF Visit
<1> QED BY <1>2, <1>4, <1>5, <1>7, <1>8, <1>9

LEMMA TraversalsRead ==
  ASSUME GraphInv, stage = "answered" => VisitsDone
  PROVE  TraversalsExact
<1> DEFINE visited == Each(answer, LAMBDA step : step.id)
           Depth(i) == Len(answer[i].path) - 1
           Walked == /\ AreDistinct(visited)
                     /\ \A step \in ToSet(answer) :
                          Head(step.path) \in Roots /\ IsLinked(step.path) /\ AreDistinct(step.path)
           Nearest == \A i \in DOMAIN answer :
                        /\ Depth(i) > 0 => visited[i] \notin Within(Roots, Depth(i) - 1)
                        /\ \A j \in 1..i : Depth(j) <= Depth(i)
<1>1. ASSUME Answered("depth_first") PROVE Walked /\ ToSet(visited) = Closure(Roots) \cap Ids
  <2>1. stage = "answered" /\ WanderingDone
    BY <1>1 DEF Answered, VisitsDone
  <2>2. Visited(graph.nodes, Roots, answer)
    BY <2>1 DEF WanderingDone
  <2>3. Walked /\ ToSet(visited) = {answer[i].id : i \in 1..Len(answer)}
    BY <2>1, <2>2, ReadVisits
  <2> HIDE DEF visited, Walked
  <2> QED BY <2>1, <2>3, LayersOfGraph DEF WanderingDone
<1>2. ASSUME Answered("breadth_first") PROVE Walked /\ ToSet(visited) = Closure(Roots) /\ Nearest
  <2>1. stage = "answered" /\ SpreadingDone
    BY <1>2 DEF Answered, VisitsDone
  <2>2. Visited(graph.nodes, Roots, answer)
    BY <2>1 DEF SpreadingDone
  <2>3. /\ Walked /\ ToSet(visited) = {answer[i].id : i \in 1..Len(answer)}
        /\ DOMAIN answer = 1..Len(answer)
        /\ \A i \in 1..Len(answer) : visited[i] = answer[i].id /\ Len(answer[i].path) \in Nat
    BY <2>1, <2>2, ReadVisits
  <2> HIDE DEF visited, Walked
  <2>4. ASSUME NEW i \in 1..Len(answer)
        PROVE  /\ Depth(i) > 0 => visited[i] \notin Within(Roots, Depth(i) - 1)
               /\ \A j \in 1..i : Depth(j) <= Depth(i)
    <3>1. /\ Len(answer[i].path) > 1 =>
               answer[i].id \notin Layer(graph.nodes, Roots, Len(answer[i].path) - 2)
          /\ \A j \in 1..i : Len(answer[j].path) <= Len(answer[i].path)
      BY <2>1 DEF SpreadingDone
    <3>2. Len(answer[i].path) \in Nat /\ visited[i] = answer[i].id
      BY <2>3
    <3>3. Depth(i) > 0 => Len(answer[i].path) > 1 /\ Depth(i) - 1 = Len(answer[i].path) - 2
      BY <3>2
    <3>4. Depth(i) > 0 => visited[i] \notin Within(Roots, Depth(i) - 1)
      BY <3>1, <3>2, <3>3, LayersOfGraph
    <3>5. ASSUME NEW j \in 1..i PROVE Depth(j) <= Depth(i)
      <4>1. j \in 1..Len(answer)
        <5>1. answer \in Seq(Visit)
          BY <2>2 DEF Visited
        <5>2. Len(answer) \in Nat
          BY <5>1, LenProperties
        <5> QED BY <5>2
      <4>2. Len(answer[j].path) \in Nat /\ Len(answer[j].path) <= Len(answer[i].path)
        BY <2>3, <3>1, <4>1
      <4> QED BY <3>2, <4>2
    <3> QED BY <3>4, <3>5
  <2>5. Nearest
    BY <2>3, <2>4
  <2>6. ToSet(visited) = Closure(Roots)
    BY <2>1, <2>3, LayersOfGraph DEF SpreadingDone
  <2> QED BY <2>3, <2>5, <2>6
<1>3. ASSUME Answered("order")
      PROVE  answer = IF \E id \in Ids : id \in Below(id) THEN << >> ELSE SortUnique(Ids)
  <2>1. stage = "answered" /\ OrderDone
    BY <1>3 DEF Answered, VisitsDone
  <2>2. graph.cycles = << >> <=> \A id \in Ids : id \notin BelowIn(graph.nodes, id)
    BY <2>1, GraphTyped DEF Building, CyclesKnown
  <2>3. \A id : Below(id) = BelowIn(graph.nodes, id)
    BY LayersOfGraph
  <2> QED BY <2>1, <2>2, <2>3 DEF OrderDone
<1> HIDE DEF visited, Walked, Nearest
<1>4. /\ Answered("depth_first") \/ Answered("breadth_first") => Walked
      /\ Answered("depth_first") => ToSet(visited) = Closure(Roots) \cap Ids
      /\ Answered("breadth_first") => ToSet(visited) = Closure(Roots) /\ Nearest
      /\ Answered("order") =>
           answer = IF \E id \in Ids : id \in Below(id) THEN << >> ELSE SortUnique(Ids)
  BY <1>1, <1>2, <1>3
<1> QED BY <1>4, Zenon DEF TraversalsExact, visited, Walked, Nearest

LEMMA SearchesRead ==
  ASSUME stage = "answered" => VisitsDone
  PROVE  SearchesExact
<1>1. ASSUME Answered("descendants") PROVE answer = SortUnique(Below(query.id) \ {query.id})
  BY <1>1, LayersOfGraph DEF Answered, VisitsDone, DescendingDone
<1>2. ASSUME Answered("reachable_from")
      PROVE  answer = IF GraphContainsNode(query.id) THEN SortUnique(Closure({query.id})) ELSE << >>
  BY <1>2, LayersOfGraph DEF Answered, VisitsDone, ReachingDone, GraphContainsNode
<1> QED BY <1>1, <1>2 DEF SearchesExact

LEMMA UnmovedLayers ==
  ASSUME graph' = graph, query' = query
  PROVE  /\ Ids' = Ids /\ Roots' = Roots
         /\ answer' = answer => (WanderingDone <=> WanderingDone') /\ (SpreadingDone <=> SpreadingDone')
         /\ VisitsDone /\ answer' = answer => VisitsDone'
<1>1. Ids' = Ids /\ Roots' = Roots
  BY Unmoved
<1>2. answer' = answer => (WanderingDone <=> WanderingDone') /\ (SpreadingDone <=> SpreadingDone')
  BY <1>1 DEF WanderingDone, SpreadingDone
<1>3. answer' = answer => (OrderDone <=> OrderDone')
  BY <1>1 DEF OrderDone
<1>4. answer' = answer => (DescendingDone <=> DescendingDone')
  BY <1>1 DEF DescendingDone
<1>5. answer' = answer => (ReachingDone <=> ReachingDone')
  BY <1>1 DEF ReachingDone
<1>6. ASSUME VisitsDone, answer' = answer PROVE VisitsDone'
  BY <1>2, <1>3, <1>4, <1>5, <1>6 DEF VisitsDone
<1> QED BY <1>1, <1>2, <1>6

(* Whatever is sorted, it is the same ids that come out.                   *)
LEMMA OrderIsComplete ==
  ASSUME GraphInv, Wanders, stage = "depth_first", pending = << >>, query.name = "order",
         NEW all, all = answer \o graph.unreachable
  PROVE  ToSet(all) = Ids
<1>1. answer \in Seq(Nat) /\ ToSet(answer) = ClosureIn(graph.nodes, Roots) \cap Ids
  BY WandersEnds
<1>2. graph.unreachable \in Seq(Nat) /\ ToSet(graph.unreachable) = Ids \ ClosureIn(graph.nodes, Roots)
  BY GraphTyped DEF Building
<1>3. PICK a, b : a = answer /\ b = graph.unreachable
  OBVIOUS
<1>4. ToSet(a \o b) = ToSet(a) \cup ToSet(b)
  BY <1>1, <1>2, <1>3, ToSetConcat
<1> QED BY <1>1, <1>2, <1>3, <1>4

LEMMA AnswerIsExact ==
  ASSUME GraphInv, VisitsRun, Answer,
         stage = "components" => query.name = "components",
         stage = "world" => query.name = "world"
  PROVE  VisitsDone'
<1>1. /\ graph' = graph /\ query' = query /\ pending = << >> /\ path = << >>
      /\ Ids' = Ids /\ Roots' = Roots
  BY Unmoved DEF Answer
<1>2. CASE query.name = "depth_first" /\ stage = "depth_first" /\ answer' = answer
  <2>1. Wanders /\ query.name # "order"
    BY <1>2 DEF VisitsRun
  <2>2. WanderingDone
    BY <1>1, <1>2, <2>1, WandersEnds DEF WanderingDone, Visited
  <2> QED BY <1>1, <1>2, <2>2, UnmovedLayers DEF VisitsDone
<1>3. CASE query.name = "breadth_first" /\ stage = "breadth_first" /\ answer' = answer
  <2>1. Spreading(graph.nodes, Roots, << >>, answer, seen) /\ IsGraph(graph.nodes)
    BY <1>1, <1>3, GraphTyped DEF VisitsRun, Spreads, Building
  <2>2. /\ answer \in Seq(Visit)
        /\ \A i \in 1..Len(answer) :
              /\ Way(graph.nodes, Roots, answer[i].path) /\ answer[i].id = End(answer[i].path)
              /\ Len(answer[i].path) > 1 =>
                   answer[i].id \notin Layer(graph.nodes, Roots, Len(answer[i].path) - 2)
              /\ \A j \in 1..i : Len(answer[j].path) <= Len(answer[i].path)
        /\ \A i, j \in 1..Len(answer) : answer[i].id = answer[j].id => i = j
        /\ {answer[i].id : i \in 1..Len(answer)} = ClosureIn(graph.nodes, Roots)
    BY <2>1, SpreadingEnds
  <2>3. SpreadingDone
    BY <2>2 DEF SpreadingDone, Visited, WayTo
  <2> QED BY <1>1, <1>3, <2>3, UnmovedLayers DEF VisitsDone
<1>4. CASE query.name = "order" /\ stage = "depth_first"
           /\ answer' = SortUnique(ToSet(answer \o graph.unreachable))
  <2>1. Wanders
    BY <1>4 DEF VisitsRun
  <2>2. ToSet(answer \o graph.unreachable) = Ids
    BY <1>1, <1>4, <2>1, OrderIsComplete
  <2>3. graph.cycles = << >>
    BY <1>1, <1>4, <2>1, WandersEnds
  <2>4. answer' = SortUnique(Ids)
    BY <1>4, <2>2
  <2>5. OrderDone'
    BY <1>1, <2>3, <2>4 DEF OrderDone, SortUnique
  <2> QED BY <1>1, <1>4, <2>5 DEF VisitsDone
<1>5. CASE stage = "descendants" /\ answer' = SortUnique(ToSet(answer))
  <2>1. query.name = "descendants" /\ Descending(graph.nodes, query.id, << >>, answer, seen)
    BY <1>1, <1>5 DEF VisitsRun, Descends
  <2>2. ToSet(answer) = BelowIn(graph.nodes, query.id) \ {query.id}
    BY <1>5, <2>1, DescendingEnds, GraphTyped DEF Building
  <2>3. DescendingDone'
    BY <1>1, <1>5, <2>2 DEF DescendingDone, SortUnique
  <2> QED BY <1>1, <2>1, <2>3 DEF VisitsDone
<1>6. CASE stage = "reachable_from" /\ answer' = SortUnique(ToSet(answer))
  <2>1. query.name = "reachable_from" /\ Reaching(graph.nodes, query.id, << >>, answer, seen)
    BY <1>1, <1>6 DEF VisitsRun, Reaches
  <2>2. /\ Ids = DOMAIN graph.nodes
        /\ ToSet(answer) = IF query.id \in Ids THEN ClosureIn(graph.nodes, {query.id}) ELSE {}
    BY <1>6, <2>1, ReachingEnds, GraphTyped DEF Building
  <2>3. answer' = IF query.id \in Ids THEN SortUnique(ClosureIn(graph.nodes, {query.id})) ELSE << >>
    BY <1>6, <2>2, NothingSorted
  <2>4. ReachingDone'
    BY <1>1, <2>3 DEF ReachingDone, SortUnique
  <2> QED BY <1>1, <2>1, <2>4 DEF VisitsDone
<1>7. CASE stage \in {"components", "world"}
  BY <1>1, <1>7 DEF VisitsDone
<1> QED BY <1>2, <1>3, <1>4, <1>5, <1>6, <1>7 DEF Answer

LEMMA VisitsRunKept ==
  ASSUME GraphInv, VisitsRun, Next,
         stage = "components" => query.name = "components",
         stage = "world" => query.name = "world"
  PROVE  VisitsRun'
<1>1. CASE LinkNodes \/ MarkReachable \/ MarkNothing \/ CollectUnreachable
           \/ EnterForCycles \/ ReportCycle \/ SkipForCycles \/ FinishGraph
  BY <1>1 DEF LinkNodes, MarkReachable, MarkNothing, CollectUnreachable, EnterForCycles, ReportCycle,
              SkipForCycles, FinishGraph, Entering, VisitsRun
<1>2. CASE Return
  <2>1. stage' = stage /\ stage \in {"find_cycles", "depth_first"}
    BY <1>2 DEF Return
  <2>2. stage = "depth_first" => Wanders'
    BY <1>2, WandersReturns DEF VisitsRun
  <2> QED BY <2>1, <2>2 DEF VisitsRun
<1>3. CASE TraverseDepthFirst
  <2>1. stage' = "depth_first" /\ Wanders'
    BY <1>3, WandersStarts DEF TraverseDepthFirst, Ask
  <2> QED BY <2>1 DEF VisitsRun
<1>4. CASE EnterDepthFirst \/ SkipDepthFirst
  <2>1. stage = "depth_first" /\ stage' = "depth_first"
    BY <1>4 DEF EnterDepthFirst, SkipDepthFirst, Entering
  <2>2. Wanders'
    BY <1>4, <2>1, WandersEnters, WandersSkips DEF VisitsRun
  <2> QED BY <2>1, <2>2 DEF VisitsRun
<1>5. CASE TopologicalNodeOrder
  <2>1. CASE graph.cycles = << >>
    <3>1. stage' = "depth_first" /\ Wanders'
      BY <1>5, <2>1, WandersStarts DEF TopologicalNodeOrder
    <3> QED BY <3>1 DEF VisitsRun
  <2>2. CASE graph.cycles # << >>
    <3>1. /\ stage = "built" /\ stage' = "answered" /\ query'.name = "order" /\ answer' = answer
          /\ graph' = graph
      BY <1>5, <2>2 DEF TopologicalNodeOrder
    <3>2. answer = << >>
      BY <3>1, GraphTyped DEF Idle, Building
    <3>3. OrderDone'
      BY <2>2, <3>1, <3>2 DEF OrderDone
    <3> QED BY <3>1, <3>3 DEF VisitsRun, VisitsDone
  <2> QED BY <2>1, <2>2
<1>6. CASE TraverseBreadthFirst \/ VisitBreadthFirst
  <2>1. stage' = "breadth_first" /\ (VisitBreadthFirst => stage = "breadth_first")
    BY <1>6 DEF TraverseBreadthFirst, VisitBreadthFirst, Ask
  <2>2. Spreads'
    BY <1>6, <2>1, SpreadsStarts, SpreadsVisits DEF VisitsRun
  <2> QED BY <2>1, <2>2 DEF VisitsRun
<1>7. ASSUME NEW id, DescendantsOf(id) PROVE VisitsRun'
  <2>1. stage' = "descendants" /\ Descends'
    BY <1>7, DescendsStarts DEF DescendantsOf, Ask
  <2> QED BY <2>1 DEF VisitsRun
<1>8. ASSUME NEW id, ReachableFrom(id) PROVE VisitsRun'
  <2>1. stage' = "reachable_from" /\ Reaches'
    BY <1>8, ReachesStarts DEF ReachableFrom, Ask
  <2> QED BY <2>1 DEF VisitsRun
<1>9. CASE VisitDescendant \/ SkipDescendant
  <2>1. stage = "descendants" /\ stage' = "descendants"
    BY <1>9 DEF VisitDescendant, SkipDescendant
  <2>2. Descends'
    BY <1>9, <2>1, DescendsOn DEF VisitsRun
  <2> QED BY <2>1, <2>2 DEF VisitsRun
<1>10. CASE VisitReachable
  <2>1. stage = "reachable_from" /\ stage' = "reachable_from"
    BY <1>10 DEF VisitReachable
  <2>2. Reaches'
    BY <1>10, <2>1, ReachesOn DEF VisitsRun
  <2> QED BY <2>1, <2>2 DEF VisitsRun
<1>11. CASE ConnectedComponents \/ StartComponent \/ VisitNeighbors \/ FinishComponent
  BY <1>11 DEF ConnectedComponents, StartComponent, VisitNeighbors, FinishComponent, Ask, VisitsRun
<1>12. CASE ComputeWorldTransforms
  <2>1. query'.name = "world" /\ stage' \in {"world", "answered"}
    BY <1>12 DEF ComputeWorldTransforms
  <2> QED BY <2>1 DEF VisitsRun, VisitsDone
<1>13. CASE EnterForWorld \/ SkipForWorld \/ RefuseWorld \/ LeaveWithWorld
  <2>1. stage = "world" /\ query' = query /\ stage' \in {"world", "answered"}
    BY <1>13 DEF EnterForWorld, SkipForWorld, RefuseWorld, LeaveWithWorld, Entering
  <2> QED BY <2>1 DEF VisitsRun, VisitsDone
<1>14. CASE Answer
  <2>1. stage' = "answered" /\ VisitsDone'
    BY <1>14, AnswerIsExact DEF Answer
  <2> QED BY <2>1 DEF VisitsRun
<1> QED BY <1>1, <1>2, <1>3, <1>4, <1>5, <1>6, <1>7, <1>8, <1>9, <1>10, <1>11, <1>12, <1>13, <1>14 DEF Next

(***************************************************************************)
(* Walks over parents.                                                     *)
(***************************************************************************)

NextUp(nodes, id, s) == IF s = << >> THEN id ELSE nodes[Last(s)].parent
Stopped(nodes, id, s) == NextUp(nodes, id, s) \notin DOMAIN nodes \ ({NoId} \cup ToSet(s))
Up(nodes, id, s) ==
  IF NextUp(nodes, id, s) \in DOMAIN nodes \ ({NoId} \cup ToSet(s)) THEN Append(s, NextUp(nodes, id, s))
                                                                     ELSE s

(* A part of the walk from a node, which comes first.                      *)
Climbed(nodes, id, s) ==
  /\ s \in Seq(Nat) /\ NoRepeats(s) /\ ToSet(s) \subseteq DOMAIN nodes \ {NoId}
  /\ s # << >> => s[1] = id
  /\ \A i \in 1..Len(s) - 1 : s[i + 1] = nodes[s[i]].parent

IsWalk(f, nodes, id, n) ==
  f = [k \in 0..n |-> IF k = 0 THEN << >> ELSE Up(nodes, id, f[k - 1])]

LEMMA WalkExists ==
  ASSUME NEW nodes, NEW id, NEW n \in Nat
  PROVE  \E f : IsWalk(f, nodes, id, n)
<1> DEFINE V == Seq(DOMAIN nodes)
           step == [p \in V \X (1..n) |-> Up(nodes, id, p[1])]
<1>1. ASSUME NEW s \in V PROVE Up(nodes, id, s) \in V
  <2>1. PICK next : next = NextUp(nodes, id, s)
    OBVIOUS
  <2>2. next \in DOMAIN nodes => Append(s, next) \in V
    BY AppendProperties
  <2> QED BY <2>1, <2>2 DEF Up
<1>2. step \in [V \X (1..n) -> V]
  BY <1>1
<1>3. << >> \in V
  OBVIOUS
<1>4. PICK f : IsRecursive(f, n, V, << >>, step)
  <2> HIDE DEF step, V
  <2> QED BY <1>2, <1>3, RecursionUp
<1>5. f \in [0..n -> V] /\ f[0] = << >>
  BY <1>4 DEF IsRecursive
<1>6. ASSUME NEW k \in 1..n PROVE f[k] = Up(nodes, id, f[k - 1])
  <2>1. k - 1 \in 0..n
    OBVIOUS
  <2>2. f[k] = step[<<f[k - 1], k>>] /\ f[k - 1] \in V
    BY <1>4, <2>1 DEF IsRecursive
  <2> HIDE DEF V
  <2> QED BY <2>2
<1> HIDE DEF V
<1>7. \A k \in 0..n : k = 0 \/ k \in 1..n
  OBVIOUS
<1> QED BY <1>5, <1>6, <1>7 DEF IsWalk

LEMMA PathToRootWalks ==
  ASSUME NEW id, Cardinality(Ids) \in Nat
  PROVE  \E f : /\ IsWalk(f, graph.nodes, id, Cardinality(Ids))
                /\ PathToRoot(id) = Reverse(f[Cardinality(Ids)])
<1> DEFINE n == Cardinality(Ids)
           Next1(w) == LET cursor == IF w = << >> THEN id ELSE ParentOfLast(w)
                       IN IF cursor \in Ids \ ({NoId} \cup ToSet(w)) THEN Append(w, cursor) ELSE w
           f == CHOOSE walk : walk = [k \in 0..n |-> IF k = 0 THEN << >> ELSE Next1(walk[k - 1])]
<1>1. \A w : Next1(w) = Up(graph.nodes, id, w)
  BY DEF Up, NextUp, ParentOfLast, Ids
<1>2. PathToRoot(id) = Reverse(f[n])
  BY DEF PathToRoot
<1> HIDE DEF Next1
<1>3. IsWalk(f, graph.nodes, id, n)
  <2>1. PICK g : IsWalk(g, graph.nodes, id, n)
    <3> HIDE DEF n
    <3> QED BY WalkExists DEF n
  <2>2. g = [k \in 0..n |-> IF k = 0 THEN << >> ELSE Next1(g[k - 1])]
    BY <1>1, <2>1 DEF IsWalk
  <2>3. f = [k \in 0..n |-> IF k = 0 THEN << >> ELSE Next1(f[k - 1])]
    <3> HIDE DEF n
    <3> QED BY <2>2, Zenon
  <2> HIDE DEF f
  <2> QED BY <1>1, <2>3 DEF IsWalk
<1> HIDE DEF f
<1> QED BY <1>2, <1>3

LEMMA UpClimbs ==
  ASSUME NEW nodes, IsGraph(nodes), NEW id, NEW s, Climbed(nodes, id, s), ~Stopped(nodes, id, s)
  PROVE  /\ Climbed(nodes, id, Up(nodes, id, s)) /\ Len(Up(nodes, id, s)) = Len(s) + 1
<1>1. PICK next, t : next = NextUp(nodes, id, s) /\ t = Append(s, next)
  OBVIOUS
<1>2. next \in DOMAIN nodes \ {NoId} /\ next \notin ToSet(s) /\ Up(nodes, id, s) = t /\ next \in Nat
  BY <1>1 DEF Stopped, Up, IsGraph
<1>3. s \in Seq(Nat) /\ Len(s) \in Nat /\ NoRepeats(s)
  BY LenProperties DEF Climbed
<1>4. t \in Seq(Nat) /\ NoRepeats(t) /\ ToSet(t) = ToSet(s) \cup {next}
  BY <1>1, <1>2, <1>3, AppendDistinct, ToSetAppend
<1>5. /\ Len(t) = Len(s) + 1 /\ t[Len(s) + 1] = next
      /\ \A i \in 1..Len(s) : t[i] = s[i]
  BY <1>1, <1>2, <1>3, AppendProperties
<1>6. t[1] = id
  <2>1. CASE s = << >>
    BY <1>1, <1>5, <2>1 DEF NextUp
  <2>2. CASE s # << >>
    <3>1. Len(s) \in Nat \ {0}
      BY <1>3, <2>2, HeadAndTail
    <3>2. 1 \in 1..Len(s)
      BY <3>1
    <3> QED BY <1>5, <2>2, <3>2 DEF Climbed
  <2> QED BY <2>1, <2>2
<1>7. ASSUME NEW i \in 1..Len(s) PROVE t[i + 1] = nodes[t[i]].parent
  <2>1. CASE i = Len(s)
    <3>1. s # << >> /\ Last(s) = s[Len(s)]
      BY <1>3, <2>1, EmptySeq DEF Last
    <3> QED BY <1>1, <1>5, <2>1, <3>1 DEF NextUp
  <2>2. CASE i # Len(s)
    <3>1. i \in 1..Len(s) - 1 /\ i + 1 \in 1..Len(s)
      BY <1>3, <2>2
    <3> QED BY <1>5, <3>1 DEF Climbed
  <2> QED BY <2>1, <2>2
<1>8. \A i \in 1..Len(t) - 1 : t[i + 1] = nodes[t[i]].parent
  BY <1>3, <1>5, <1>7
<1>9. ToSet(t) \subseteq DOMAIN nodes \ {NoId}
  BY <1>2, <1>4 DEF Climbed
<1> QED BY <1>2, <1>4, <1>5, <1>6, <1>8, <1>9 DEF Climbed

(* The walk has come to its end after as many rounds as there are nodes.   *)
LEMMA UpwardsEnds ==
  ASSUME NEW nodes, IsGraph(nodes), NEW id, NEW f, IsWalk(f, nodes, id, Cardinality(DOMAIN nodes))
  PROVE  Climbed(nodes, id, f[Cardinality(DOMAIN nodes)]) /\ Stopped(nodes, id, f[Cardinality(DOMAIN nodes)])
<1> DEFINE n == Cardinality(DOMAIN nodes)
           S == {k \in 0..n : /\ Climbed(nodes, id, f[k])
                              /\ Stopped(nodes, id, f[k]) \/ Len(f[k]) = k}
<1>1. n \in Nat /\ IsFiniteSet(DOMAIN nodes)
  BY FS_CardinalityType DEF IsGraph
<1>2. 0 \in S
  <2>1. f[0] = << >> /\ 0 \in 0..n
    BY <1>1 DEF IsWalk
  <2>2. << >> \in Seq(Nat) /\ Len(<< >>) = 0 /\ ToSet(<< >>) = {} /\ NoRepeats(<< >>)
    BY NoneInEmpty DEF NoRepeats
  <2>3. Climbed(nodes, id, << >>)
    BY <2>2 DEF Climbed
  <2> QED BY <2>1, <2>2, <2>3
<1>3. ASSUME NEW k \in 0..n - 1, k \in S PROVE k + 1 \in S
  <2>1. k + 1 \in 0..n /\ f[k + 1] = Up(nodes, id, f[k])
    BY <1>1 DEF IsWalk
  <2>2. CASE Stopped(nodes, id, f[k])
    <3>1. f[k + 1] = f[k]
      BY <2>1, <2>2 DEF Stopped, Up
    <3> QED BY <1>3, <2>1, <2>2, <3>1
  <2>3. CASE ~Stopped(nodes, id, f[k])
    <3>1. Climbed(nodes, id, f[k]) /\ Len(f[k]) = k
      BY <1>3, <2>3
    <3>2. Climbed(nodes, id, f[k + 1]) /\ Len(f[k + 1]) = k + 1
      BY <2>1, <2>3, <3>1, UpClimbs
    <3> QED BY <2>1, <3>2
  <2> QED BY <2>2, <2>3
<1>4. n \in S
  <2> HIDE DEF S, n
  <2>1. \A k \in 0..n : k \in S
    BY <1>1, <1>2, <1>3, BoundedInduction
  <2> QED BY <1>1, <2>1
<1>5. PICK s : s = f[n]
  OBVIOUS
<1>6. Climbed(nodes, id, s) /\ (Stopped(nodes, id, s) \/ Len(s) = n)
  BY <1>4, <1>5
<1>7. ASSUME Len(s) = n PROVE Stopped(nodes, id, s)
  <2>1. s \in Seq(Nat) /\ NoRepeats(s) /\ ToSet(s) \subseteq DOMAIN nodes
    BY <1>6 DEF Climbed
  <2>2. Cardinality(ToSet(s)) = n
    BY <1>7, <2>1, DistinctIsNoRepeats DEF AreDistinct
  <2>3. ToSet(s) = DOMAIN nodes
    BY <1>1, <2>1, <2>2, FS_Subset
  <2> QED BY <2>3 DEF Stopped
<1>8. Climbed(nodes, id, s) /\ Stopped(nodes, id, s)
  BY <1>6, <1>7
<1> HIDE DEF S
<1>9. s = f[Cardinality(DOMAIN nodes)]
  BY <1>5
<1>10. Climbed(nodes, id, f[Cardinality(DOMAIN nodes)])
  BY <1>8, <1>9
<1>11. Stopped(nodes, id, f[Cardinality(DOMAIN nodes)])
  BY <1>8, <1>9
<1> QED BY <1>10, <1>11

(* The way down to a node that PathToRoot gives: as far up as parents lead.*)
Climb(nodes, id, r) ==
  /\ r \in Seq(Nat) /\ NoRepeats(r) /\ ToSet(r) \subseteq DOMAIN nodes \ {NoId}
  /\ r # << >> /\ End(r) = id
  /\ \A i \in 1..Len(r) - 1 : nodes[r[i + 1]].parent = r[i]
  /\ nodes[r[1]].parent \notin DOMAIN nodes \ ({NoId} \cup ToSet(r))

LEMMA ReversedSeq ==
  ASSUME NEW S, NEW s \in Seq(S), NEW r, r = Reverse(s)
  PROVE  /\ r \in Seq(S) /\ Len(r) = Len(s) /\ ToSet(r) = ToSet(s)
         /\ \A i \in 1..Len(s) : r[i] = s[(Len(s) - i) + 1]
         /\ NoRepeats(s) => NoRepeats(r)
<1> DEFINE n == Len(s)
<1>1. n \in Nat /\ \A i \in 1..n : s[i] \in S
  BY LenProperties, ElementOfSeq
<1>2. r = [i \in 1..n |-> s[(n - i) + 1]]
  BY DEF Reverse
<1>3. \A i \in 1..n : (n - i) + 1 \in 1..n
  BY <1>1
<1>4. r \in [1..n -> S]
  BY <1>1, <1>2, <1>3
<1>5. r \in Seq(S) /\ Len(r) = n
  BY <1>1, <1>4, FunctionIsSeq
<1>6. \A i \in 1..n : r[i] = s[(n - i) + 1]
  BY <1>2
<1>7. ToSet(r) = ToSet(s)
  <2>1. ToSet(r) = {r[i] : i \in 1..n} /\ ToSet(s) = {s[i] : i \in 1..n}
    BY <1>5, ToSetOfSeq
  <2>2. ASSUME NEW i \in 1..n PROVE \E j \in 1..n : r[j] = s[i]
    <3>1. (n - i) + 1 \in 1..n /\ (n - ((n - i) + 1)) + 1 = i
      BY <1>1
    <3> QED BY <1>6, <3>1
  <2>3. ASSUME NEW i \in 1..n PROVE \E j \in 1..n : s[j] = r[i]
    BY <1>3, <1>6
  <2> HIDE DEF n
  <2> QED BY ONLY <2>1, <2>2, <2>3
<1>8. ASSUME NoRepeats(s), NEW i \in 1..n, NEW j \in 1..n, r[i] = r[j] PROVE i = j
  <2>1. (n - i) + 1 \in 1..n /\ (n - j) + 1 \in 1..n
    BY <1>1
  <2>2. s[(n - i) + 1] = s[(n - j) + 1]
    BY <1>6, <1>8
  <2>3. (n - i) + 1 = (n - j) + 1
    BY <1>8, <2>1, <2>2 DEF NoRepeats
  <2> QED BY <1>1, <2>3
<1>9. NoRepeats(s) => NoRepeats(r)
  BY <1>5, <1>8 DEF NoRepeats
<1> QED BY <1>5, <1>6, <1>7, <1>9

LEMMA PathToRootClimbs ==
  ASSUME IsGraph(graph.nodes), NEW id
  PROVE  /\ id \in Ids \ {NoId} => Climb(graph.nodes, id, PathToRoot(id))
         /\ id \notin Ids \ {NoId} => PathToRoot(id) = << >>
<1>1. Ids = DOMAIN graph.nodes /\ Cardinality(Ids) \in Nat
  BY FS_CardinalityType DEF IsGraph, Ids
<1>2. PICK f : /\ IsWalk(f, graph.nodes, id, Cardinality(Ids))
               /\ PathToRoot(id) = Reverse(f[Cardinality(Ids)])
  BY <1>1, PathToRootWalks
<1>3. PICK s, r : s = f[Cardinality(Ids)] /\ r = Reverse(s)
  OBVIOUS
<1>4. Climbed(graph.nodes, id, s) /\ Stopped(graph.nodes, id, s) /\ PathToRoot(id) = r
  <2>1. IsWalk(f, graph.nodes, id, Cardinality(DOMAIN graph.nodes))
    BY <1>1, <1>2
  <2>2. /\ Climbed(graph.nodes, id, f[Cardinality(DOMAIN graph.nodes)])
        /\ Stopped(graph.nodes, id, f[Cardinality(DOMAIN graph.nodes)])
    BY <2>1, UpwardsEnds
  <2>3. PathToRoot(id) = r
    BY <1>2, <1>3
  <2>4. s = f[Cardinality(DOMAIN graph.nodes)]
    BY <1>1, <1>3
  <2> QED BY ONLY <2>2, <2>3, <2>4
<1>5. /\ s \in Seq(Nat) /\ NoRepeats(s) /\ ToSet(s) \subseteq Ids \ {NoId} /\ Len(s) \in Nat
      /\ s # << >> => s[1] = id
      /\ \A i \in 1..Len(s) - 1 : s[i + 1] = graph.nodes[s[i]].parent
  BY <1>1, <1>4, LenProperties DEF Climbed
<1>6. /\ r \in Seq(Nat) /\ Len(r) = Len(s) /\ ToSet(r) = ToSet(s) /\ NoRepeats(r)
      /\ \A i \in 1..Len(s) : r[i] = s[(Len(s) - i) + 1]
  <2>1. s \in Seq(Nat) /\ NoRepeats(s)
    BY <1>5
  <2>2. r = Reverse(s)
    BY <1>3
  <2> QED BY ONLY <2>1, <2>2, ReversedSeq
<1>7. CASE s = << >>
  <2>1. id \notin Ids \ {NoId}
    BY <1>1, <1>4, <1>7, NoneInEmpty DEF Stopped, NextUp
  <2>2. r = << >>
    BY <1>6, <1>7, EmptySeq
  <2> QED BY <1>4, <2>1, <2>2
<1>8. CASE s # << >>
  <2>1. Len(s) \in Nat \ {0} /\ s[1] = id
    BY <1>5, <1>8, HeadAndTail
  <2>2. 1 \in 1..Len(s) /\ Len(s) \in 1..Len(s)
    BY <2>1
  <2>3. id \in Ids \ {NoId}
    <3>1. ToSet(s) = {s[i] : i \in 1..Len(s)}
      BY <1>5, ToSetOfSeq
    <3> QED BY <1>5, <2>1, <2>2, <3>1
  <2>4. r # << >> /\ End(r) = id /\ r[1] = s[Len(s)]
    <3>1. (Len(s) - Len(s)) + 1 = 1 /\ (Len(s) - 1) + 1 = Len(s)
      BY <2>1
    <3>2. r[Len(s)] = s[1] /\ r[1] = s[Len(s)]
      BY <1>6, <2>2, <3>1
    <3>3. r # << >>
      BY <1>6, <2>1
    <3> QED BY <1>6, <2>1, <3>2, <3>3 DEF End
  <2>5. ASSUME NEW i \in 1..Len(r) - 1 PROVE graph.nodes[r[i + 1]].parent = r[i]
    <3>1. i \in 1..Len(s) /\ i + 1 \in 1..Len(s) /\ Len(s) - i \in 1..Len(s) - 1
          /\ (Len(s) - (i + 1)) + 1 = Len(s) - i
      BY <1>5, <1>6
    <3>2. r[i] = s[(Len(s) - i) + 1] /\ r[i + 1] = s[Len(s) - i]
      BY <1>6, <3>1
    <3> QED BY <1>5, <3>1, <3>2
  <2>6. graph.nodes[r[1]].parent \notin Ids \ ({NoId} \cup ToSet(r))
    <3>1. Last(s) = s[Len(s)]
      BY DEF Last
    <3> QED BY <1>1, <1>4, <1>6, <1>8, <2>4, <3>1 DEF Stopped, NextUp
  <2> QED BY <1>1, <1>4, <1>5, <1>6, <2>3, <2>4, <2>5, <2>6 DEF Climb
<1> QED BY <1>7, <1>8

(* What is closed under parents has all of the way up.                     *)
LEMMA ClimbWithin ==
  ASSUME NEW nodes, IsGraph(nodes), NEW id, NEW r, Climb(nodes, id, r), NEW T, id \in T,
         \A x \in T \cap DOMAIN nodes : nodes[x].parent \in DOMAIN nodes \ {NoId} => nodes[x].parent \in T
  PROVE  ToSet(r) \subseteq T
<1> DEFINE n == Len(r)
           S == {k \in 0..n - 1 : r[n - k] \in T}
<1>1. /\ r \in Seq(Nat) /\ n \in Nat \ {0} /\ r[n] = id
      /\ \A i \in 1..n - 1 : nodes[r[i + 1]].parent = r[i]
      /\ \A i \in 1..n : r[i] \in DOMAIN nodes \ {NoId}
      /\ ToSet(r) = {r[i] : i \in 1..n}
  <2>1. r \in Seq(Nat) /\ r # << >> /\ ToSet(r) \subseteq DOMAIN nodes \ {NoId}
    BY DEF Climb
  <2>2. n \in Nat \ {0} /\ ToSet(r) = {r[i] : i \in 1..n}
    BY <2>1, HeadAndTail, ToSetOfSeq
  <2> QED BY <2>1, <2>2 DEF Climb, End
<1>2. n - 1 \in Nat
  BY <1>1
<1>3. 0 \in S
  <2>1. n - 0 = n /\ 0 \in 0..n - 1
    BY <1>1
  <2> QED BY <1>1, <2>1
<1>4. ASSUME NEW k \in 0..(n - 1) - 1, k \in S PROVE k + 1 \in S
  <2>1. k + 1 \in 0..n - 1 /\ n - (k + 1) \in 1..n - 1 /\ (n - (k + 1)) + 1 = n - k
        /\ n - k \in 1..n /\ n - (k + 1) \in 1..n
    BY <1>1
  <2>2. nodes[r[n - k]].parent = r[n - (k + 1)] /\ r[n - k] \in DOMAIN nodes
        /\ r[n - (k + 1)] \in DOMAIN nodes \ {NoId}
    BY <1>1, <2>1
  <2>3. r[n - k] \in T
    BY <1>4
  <2>4. r[n - (k + 1)] \in T
    BY <2>2, <2>3
  <2> QED BY <2>1, <2>4
<1>5. \A k \in 0..n - 1 : k \in S
  <2> HIDE DEF S, n
  <2> QED BY <1>2, <1>3, <1>4, BoundedInduction
<1>6. ASSUME NEW i \in 1..n PROVE r[i] \in T
  <2>1. n - i \in 0..n - 1 /\ n - (n - i) = i
    BY <1>1
  <2> QED BY <1>5, <2>1
<1> QED BY <1>1, <1>6

(* The way down to a node from one whose parent is not in the graph.       *)
Rooted(nodes, id, r) == Climb(nodes, id, r) /\ nodes[r[1]].parent \notin DOMAIN nodes

LEMMA ClimbFacts ==
  ASSUME NEW nodes, NEW id, NEW r, Climb(nodes, id, r)
  PROVE  /\ r \in Seq(Nat) /\ Len(r) \in Nat \ {0} /\ r[Len(r)] = id /\ NoRepeats(r)
         /\ \A i \in 1..Len(r) : r[i] \in DOMAIN nodes \ {NoId}
         /\ ToSet(r) = {r[i] : i \in 1..Len(r)}
         /\ \A i \in 1..Len(r) - 1 : nodes[r[i + 1]].parent = r[i]
<1>1. r \in Seq(Nat) /\ r # << >> /\ ToSet(r) \subseteq DOMAIN nodes \ {NoId}
  BY DEF Climb
<1>2. Len(r) \in Nat \ {0} /\ ToSet(r) = {r[i] : i \in 1..Len(r)}
  BY <1>1, HeadAndTail, ToSetOfSeq
<1> QED BY <1>1, <1>2 DEF Climb, End

LEMMA ClimbsAgree ==
  ASSUME NEW nodes, NEW id, NEW a, Climb(nodes, id, a), NEW b, Climb(nodes, id, b), Len(a) <= Len(b)
  PROVE  \A i \in 1..Len(a) : a[i] = b[(Len(b) - Len(a)) + i]
<1> DEFINE n == Len(a)
           m == Len(b)
           S == {k \in 0..n - 1 : a[n - k] = b[m - k]}
<1>1. /\ n \in Nat \ {0} /\ a[n] = id /\ \A i \in 1..n - 1 : nodes[a[i + 1]].parent = a[i]
      /\ m \in Nat \ {0} /\ b[m] = id /\ \A i \in 1..m - 1 : nodes[b[i + 1]].parent = b[i]
  BY ClimbFacts
<1>2. n - 1 \in Nat /\ n <= m
  BY <1>1
<1> HIDE DEF n, m
<1>3. 0 \in S
  <2>1. n - 0 = n /\ m - 0 = m /\ 0 \in 0..n - 1
    BY <1>1
  <2> QED BY <1>1, <2>1
<1>4. ASSUME NEW k \in 0..(n - 1) - 1, k \in S PROVE k + 1 \in S
  <2>1. /\ k + 1 \in 0..n - 1 /\ n - (k + 1) \in 1..n - 1 /\ (n - (k + 1)) + 1 = n - k
        /\ m - (k + 1) \in 1..m - 1 /\ (m - (k + 1)) + 1 = m - k
    BY <1>1, <1>2
  <2>2. nodes[a[n - k]].parent = a[n - (k + 1)] /\ nodes[b[m - k]].parent = b[m - (k + 1)]
    BY <1>1, <2>1
  <2>3. a[n - k] = b[m - k]
    BY <1>4
  <2> QED BY <2>1, <2>2, <2>3
<1>5. \A k \in 0..n - 1 : k \in S
  <2> HIDE DEF S
  <2> QED BY <1>2, <1>3, <1>4, BoundedInduction
<1>6. ASSUME NEW i \in 1..n PROVE a[i] = b[(m - n) + i]
  <2>1. n - i \in 0..n - 1 /\ n - (n - i) = i /\ m - (n - i) = (m - n) + i
    BY <1>1
  <2>2. a[n - (n - i)] = b[m - (n - i)]
    BY <1>5, <2>1
  <2> QED BY <2>1, <2>2
<1> QED BY <1>6 DEF n, m

(* There is one way from a node to the root above it.                      *)
LEMMA RootedIsOnlyClimb ==
  ASSUME NEW nodes, NEW id, NEW a, Rooted(nodes, id, a), NEW b, Climb(nodes, id, b)
  PROVE  b = a
<1> DEFINE n == Len(a)
           m == Len(b)
<1>1. Climb(nodes, id, a) /\ nodes[a[1]].parent \notin DOMAIN nodes
  BY DEF Rooted
<1>2. /\ a \in Seq(Nat) /\ n \in Nat \ {0} /\ NoRepeats(a)
      /\ \A i \in 1..n : a[i] \in DOMAIN nodes \ {NoId}
      /\ \A i \in 1..n - 1 : nodes[a[i + 1]].parent = a[i]
  BY <1>1, ClimbFacts
<1>3. /\ b \in Seq(Nat) /\ m \in Nat \ {0}
      /\ \A i \in 1..m : b[i] \in DOMAIN nodes \ {NoId}
      /\ \A i \in 1..m - 1 : nodes[b[i + 1]].parent = b[i]
      /\ ToSet(b) = {b[i] : i \in 1..m}
  BY ClimbFacts
<1>4. CASE n < m
  <2>1. \A i \in 1..n : a[i] = b[(m - n) + i]
    <3>1. Len(a) <= Len(b)
      BY <1>2, <1>3, <1>4
    <3>2. Climb(nodes, id, a) /\ Climb(nodes, id, b)
      BY <1>1
    <3> QED BY ONLY <3>1, <3>2, ClimbsAgree
  <2>2. 1 \in 1..n /\ m - n \in 1..m - 1 /\ m - n \in 1..m
    BY <1>2, <1>3, <1>4
  <2>3. a[1] = b[(m - n) + 1] /\ nodes[b[(m - n) + 1]].parent = b[m - n] /\ b[m - n] \in DOMAIN nodes
    BY <1>3, <2>1, <2>2
  <2> QED BY <1>1, <2>3
<1>5. CASE m < n
  <2>1. \A i \in 1..m : b[i] = a[(n - m) + i]
    <3>1. Len(b) <= Len(a)
      BY <1>2, <1>3, <1>5
    <3>2. Climb(nodes, id, a) /\ Climb(nodes, id, b)
      BY <1>1
    <3> QED BY ONLY <3>1, <3>2, ClimbsAgree
  <2>2. 1 \in 1..m /\ n - m \in 1..n - 1 /\ n - m \in 1..n
    BY <1>2, <1>3, <1>5
  <2>3. b[1] = a[(n - m) + 1] /\ nodes[a[(n - m) + 1]].parent = a[n - m] /\ a[n - m] \in DOMAIN nodes \ {NoId}
    BY <1>2, <2>1, <2>2
  <2>4. a[n - m] \in ToSet(b)
    BY <2>3 DEF Climb
  <2>5. PICK i \in 1..m : a[n - m] = b[i]
    BY <1>3, <2>4
  <2>6. (n - m) + i \in 1..n /\ n - m # (n - m) + i
    BY <1>2, <1>3, <1>5
  <2>7. a[n - m] = a[(n - m) + i]
    BY <2>1, <2>5
  <2> QED BY <1>2, <2>2, <2>6, <2>7 DEF NoRepeats
<1>6. CASE m = n
  <2>1. \A i \in 1..n : a[i] = b[(m - n) + i]
    <3>1. Len(a) <= Len(b)
      BY <1>2, <1>3, <1>6
    <3>2. Climb(nodes, id, a) /\ Climb(nodes, id, b)
      BY <1>1
    <3> QED BY ONLY <3>1, <3>2, ClimbsAgree
  <2>2. \A i \in 1..n : a[i] = b[i]
    BY <1>2, <1>3, <1>6, <2>1
  <2> QED BY <1>2, <1>3, <1>6, <2>2, SeqEqual
<1> QED BY <1>2, <1>3, <1>4, <1>5, <1>6

LEMMA RootedAlone ==
  ASSUME NEW nodes, IsGraph(nodes), NEW id \in DOMAIN nodes \ {NoId}, nodes[id].parent \notin DOMAIN nodes
  PROVE  Rooted(nodes, id, <<id>>)
<1>1. PICK one : one = <<id>>
  OBVIOUS
<1>2. one \in Seq(Nat) /\ Len(one) = 1 /\ one[1] = id
  BY <1>1 DEF IsGraph
<1>3. ToSet(one) = {one[i] : i \in 1..Len(one)}
  BY ONLY <1>2, ToSetOfSeq
<1>4. ToSet(one) = {id}
  BY ONLY <1>2, <1>3
<1>5. NoRepeats(one) /\ one # << >> /\ End(one) = id /\ 1..Len(one) - 1 = {}
  BY ONLY <1>2 DEF NoRepeats, End
<1> QED BY <1>1, <1>2, <1>4, <1>5 DEF Rooted, Climb

LEMMA RootedGrows ==
  ASSUME NEW nodes, IsGraph(nodes), NEW id \in DOMAIN nodes \ {NoId},
         NEW r, Rooted(nodes, nodes[id].parent, r), id \notin ToSet(r)
  PROVE  Rooted(nodes, id, Append(r, id))
<1>1. Climb(nodes, nodes[id].parent, r) /\ nodes[r[1]].parent \notin DOMAIN nodes
  BY DEF Rooted
<1>2. /\ r \in Seq(Nat) /\ Len(r) \in Nat \ {0} /\ r[Len(r)] = nodes[id].parent /\ NoRepeats(r)
      /\ \A i \in 1..Len(r) - 1 : nodes[r[i + 1]].parent = r[i]
      /\ ToSet(r) \subseteq DOMAIN nodes \ {NoId}
  BY <1>1, ClimbFacts DEF Climb
<1>3. PICK t : t = Append(r, id)
  OBVIOUS
<1>4. id \in Nat
  BY DEF IsGraph
<1>5. t \in Seq(Nat) /\ NoRepeats(t) /\ ToSet(t) = ToSet(r) \cup {id}
  BY <1>2, <1>3, <1>4, AppendDistinct, ToSetAppend
<1>6. /\ Len(t) = Len(r) + 1 /\ t[Len(r) + 1] = id
      /\ \A i \in 1..Len(r) : t[i] = r[i]
  BY <1>2, <1>3, <1>4, AppendProperties
<1>7. ASSUME NEW i \in 1..Len(r) PROVE nodes[t[i + 1]].parent = t[i]
  <2>1. CASE i = Len(r)
    BY <1>2, <1>6, <2>1
  <2>2. CASE i # Len(r)
    <3>1. i \in 1..Len(r) - 1 /\ i + 1 \in 1..Len(r)
      BY <1>2, <2>2
    <3> QED BY <1>2, <1>6, <3>1
  <2> QED BY <2>1, <2>2
<1>8. \A i \in 1..Len(t) - 1 : nodes[t[i + 1]].parent = t[i]
  BY <1>2, <1>6, <1>7
<1>9. t[1] = r[1] /\ t # << >> /\ End(t) = id
  <2>1. 1 \in 1..Len(r)
    BY <1>2
  <2> QED BY <1>2, <1>6, <2>1 DEF End
<1> QED BY <1>1, <1>2, <1>3, <1>5, <1>8, <1>9 DEF Rooted, Climb

LEMMA RootedIsPath ==
  ASSUME IsGraph(graph.nodes), NEW id \in Ids \ {NoId}, NEW r, Rooted(graph.nodes, id, r)
  PROVE  PathToRoot(id) = r /\ Anchored(id)
<1>1. Climb(graph.nodes, id, PathToRoot(id))
  BY PathToRootClimbs
<1>2. PathToRoot(id) = r
  BY <1>1, RootedIsOnlyClimb
<1> QED BY <1>2 DEF Rooted, Anchored, Ids

LEMMA CycleIsNotAnchored ==
  ASSUME IsGraph(graph.nodes), NEW T, T \subseteq Ids \ {NoId}, NEW id \in T,
         \A x \in T : graph.nodes[x].parent \in T
  PROVE  ~Anchored(id)
<1>1. PICK r : r = PathToRoot(id)
  OBVIOUS
<1>2. Climb(graph.nodes, id, r)
  BY <1>1, PathToRootClimbs
<1>3. ToSet(r) \subseteq T
  BY <1>2, ClimbWithin
<1>4. r[1] \in ToSet(r)
  <2>1. Len(r) \in Nat \ {0} /\ ToSet(r) = {r[i] : i \in 1..Len(r)}
    BY <1>2, ClimbFacts
  <2>2. 1 \in 1..Len(r)
    BY <2>1
  <2> QED BY <2>1, <2>2
<1> QED BY <1>1, <1>3, <1>4 DEF Anchored

(***************************************************************************)
(* World transforms.  The nodes on the path lead upwards, their Leaves are *)
(* on top of the tasks, and above these there may be a call for the parent *)
(* of the last one.                                                        *)
(***************************************************************************)

ParentsOk(nodes) ==
  /\ NoId \notin DOMAIN nodes
  /\ \A id \in DOMAIN nodes : nodes[id].parent \in DOMAIN nodes \cup {NoId}

Piled(nodes, tasks, road, past, e) ==
  /\ e \in {0, 1} /\ e + Len(road) <= Len(tasks)
  /\ e = 1 => /\ road # << >> /\ tasks[1].enters /\ tasks[1].id = nodes[road[Len(road)]].parent
              /\ tasks[1].id \in DOMAIN nodes
  /\ e = 0 /\ road # << >> => nodes[road[Len(road)]].parent \in {NoId} \cup past
  /\ \A j \in 1..Len(road) : ~tasks[e + j].enters /\ tasks[e + j].id = road[(Len(road) + 1) - j]
  /\ \A j \in e + Len(road) + 1..Len(tasks) : tasks[j].enters /\ tasks[j].id \in DOMAIN nodes

Rising(nodes, tasks, road, past) ==
  /\ tasks \in Tasks /\ road \in Seq(Nat) /\ NoRepeats(road)
  /\ ToSet(road) \subseteq DOMAIN nodes /\ ToSet(road) \cap past = {}
  /\ \A i \in 1..Len(road) - 1 : road[i + 1] = nodes[road[i]].parent
  /\ \E e : Piled(nodes, tasks, road, past, e)
  /\ DOMAIN nodes \subseteq past \cup {tasks[j].id : j \in 1..Len(tasks)}

(* What has been put together.                                             *)
Worlds(nodes, found, past) ==
  /\ found \in Seq(Visit) /\ past = {found[i].id : i \in 1..Len(found)}
  /\ \A i \in 1..Len(found) :
       Rooted(nodes, found[i].id, found[i].path) /\ ToSet(found[i].path) \subseteq past
  /\ \A i, j \in 1..Len(found) : found[i].id = found[j].id => i = j

LEMMA RisingStarts ==
  ASSUME NEW nodes, IsGraph(nodes), NEW ids \in Seq(Nat), ToSet(ids) = DOMAIN nodes,
         NEW tasks, tasks = [i \in DOMAIN ids |-> Enter(ids[i])]
  PROVE  Rising(nodes, tasks, << >>, {}) /\ Worlds(nodes, << >>, {})
<1> DEFINE T == [enters : BOOLEAN, id : Nat]
<1>1. /\ Len(ids) \in Nat /\ ids \in [1..Len(ids) -> Nat] /\ DOMAIN ids = 1..Len(ids)
      /\ ToSet(ids) = {ids[i] : i \in 1..Len(ids)}
  BY LenProperties, ToSetOfSeq
<1>2. \A i \in 1..Len(ids) : tasks[i] = [enters |-> TRUE, id |-> ids[i]]
  BY <1>1 DEF Enter
<1>3. \A i \in 1..Len(ids) : tasks[i] \in T
  <2>1. \A x \in Nat : [enters |-> TRUE, id |-> x] \in T
    OBVIOUS
  <2>2. \A i \in 1..Len(ids) : ids[i] \in Nat
    BY <1>1
  <2> HIDE DEF T
  <2> QED BY <1>2, <2>1, <2>2
<1>4. tasks \in Tasks /\ Len(tasks) = Len(ids)
  <2>1. tasks = [i \in 1..Len(ids) |-> tasks[i]]
    BY <1>1
  <2> HIDE DEF T
  <2>2. tasks \in [1..Len(ids) -> T]
    BY <1>3, <2>1
  <2>3. tasks \in Seq(T) /\ Len(tasks) = Len(ids)
    BY <1>1, <2>2, FunctionIsSeq
  <2> QED BY <2>3 DEF Tasks, T
<1>5. \A i \in 1..Len(ids) : tasks[i].enters /\ tasks[i].id = ids[i]
  <2> SUFFICES ASSUME NEW i \in 1..Len(ids) PROVE tasks[i].enters /\ tasks[i].id = ids[i]
    OBVIOUS
  <2>1. tasks[i] = [enters |-> TRUE, id |-> ids[i]]
    BY <1>2
  <2>2. tasks[i].enters = TRUE
    BY ONLY <2>1
  <2>3. tasks[i].id = ids[i]
    BY ONLY <2>1
  <2> QED BY <2>2, <2>3
<1>6. PICK none \in Seq(Nat) : none = << >> /\ Len(none) = 0 /\ ToSet(none) = {} /\ NoRepeats(none)
  <2>1. << >> \in Seq(Nat) /\ Len(<< >>) = 0 /\ ToSet(<< >>) = {} /\ NoRepeats(<< >>)
    BY NoneInEmpty DEF NoRepeats
  <2> QED BY <2>1
<1>7. \A j \in 1..Len(ids) : tasks[j].enters /\ tasks[j].id \in DOMAIN nodes
  BY <1>1, <1>5
<1>8. Piled(nodes, tasks, none, {}, 0)
  <2>1. 0 + Len(none) = 0 /\ 0 + Len(none) + 1 = 1 /\ 1..Len(none) = {} /\ 0 <= Len(tasks)
    BY <1>1, <1>4, <1>6
  <2>2. \A j \in 1..Len(none) :
          ~tasks[0 + j].enters /\ tasks[0 + j].id = none[(Len(none) + 1) - j]
    BY <2>1
  <2>3. \A j \in 0 + Len(none) + 1..Len(tasks) : tasks[j].enters /\ tasks[j].id \in DOMAIN nodes
    BY <1>4, <1>7, <2>1
  <2>4. 0 \in {0, 1} /\ 0 # 1 /\ 0 + Len(none) <= Len(tasks) /\ none = << >>
    BY <1>6, <2>1
  <2> QED BY ONLY <2>2, <2>3, <2>4 DEF Piled
<1>9. DOMAIN nodes \subseteq {tasks[j].id : j \in 1..Len(tasks)}
  BY <1>1, <1>4, <1>5
<1>10. 1..Len(none) - 1 = {}
  BY <1>6
<1>11. Rising(nodes, tasks, none, {})
  BY <1>4, <1>6, <1>8, <1>9, <1>10 DEF Rising
<1>12. Worlds(nodes, << >>, {})
  <2>1. << >> \in Seq(Visit) /\ Len(<< >>) = 0 /\ 1..0 = {}
    OBVIOUS
  <2> QED BY <2>1 DEF Worlds
<1> QED BY <1>6, <1>11, <1>12

(* The first task, before anything is done.                                *)
LEMMA RisingFirst ==
  ASSUME NEW nodes, NEW tasks, NEW road, NEW past, Rising(nodes, tasks, road, past), tasks # << >>,
         NEW e, Piled(nodes, tasks, road, past, e)
  PROVE  /\ Len(tasks) \in Nat \ {0} /\ Len(road) \in Nat /\ tasks[1].id \in Nat
         /\ tasks[1].enters /\ e = 0 => road = << >>
         /\ tasks[1].enters => tasks[1].id \in DOMAIN nodes
         /\ ~tasks[1].enters => /\ e = 0 /\ road # << >> /\ Len(road) \in Nat \ {0}
                                /\ tasks[1].id = road[Len(road)]
         /\ road = << >> => e = 0 /\ Len(road) = 0
<1>1. Len(tasks) \in Nat \ {0} /\ Len(road) \in Nat /\ tasks[1] \in [enters : BOOLEAN, id : Nat]
      /\ (road = << >> <=> Len(road) = 0)
  <2>1. tasks \in Tasks /\ road \in Seq(Nat)
    BY DEF Rising
  <2>2. Len(tasks) \in Nat \ {0}
    BY <2>1, HeadAndTail DEF Tasks
  <2>3. 1 \in 1..Len(tasks)
    BY <2>2
  <2>4. tasks[1] \in [enters : BOOLEAN, id : Nat]
    BY <2>1, <2>3, ElementOfSeq DEF Tasks
  <2>5. Len(road) \in Nat /\ (road = << >> <=> Len(road) = 0)
    BY <2>1, EmptySeq
  <2> QED BY <2>2, <2>4, <2>5
<1>2. /\ e \in {0, 1}
      /\ e = 1 => /\ road # << >> /\ tasks[1].enters
                  /\ tasks[1].id \in DOMAIN nodes
      /\ \A j \in 1..Len(road) : ~tasks[e + j].enters /\ tasks[e + j].id = road[(Len(road) + 1) - j]
      /\ \A j \in e + Len(road) + 1..Len(tasks) : tasks[j].enters /\ tasks[j].id \in DOMAIN nodes
  BY DEF Piled
<1>3. CASE e = 1
  BY <1>1, <1>2, <1>3
<1>4. CASE e = 0 /\ Len(road) # 0
  <2>1. 1 \in 1..Len(road) /\ e + 1 = 1 /\ (Len(road) + 1) - 1 = Len(road)
    BY <1>1, <1>4
  <2>2. ~tasks[1].enters /\ tasks[1].id = road[Len(road)]
    BY <1>2, <2>1
  <2> QED BY <1>1, <1>4, <2>2
<1>5. CASE e = 0 /\ Len(road) = 0
  <2>1. 1 \in e + Len(road) + 1..Len(tasks)
    BY <1>1, <1>5
  <2>2. tasks[1].enters /\ tasks[1].id \in DOMAIN nodes
    BY <1>2, <2>1
  <2> QED BY <1>1, <1>5, <2>2
<1> QED BY <1>2, <1>3, <1>4, <1>5

(* The part of the tasks that is left covers what is not done.             *)
LEMMA TailCovers ==
  ASSUME NEW tasks \in Tasks, tasks # << >>
  PROVE  /\ Tail(tasks) \in Tasks /\ Len(Tail(tasks)) = Len(tasks) - 1
         /\ \A i \in 1..Len(tasks) - 1 : Tail(tasks)[i] = tasks[i + 1]
         /\ {tasks[j].id : j \in 1..Len(tasks)}
              = {tasks[1].id} \cup {Tail(tasks)[j].id : j \in 1..Len(Tail(tasks))}
<1>1. PICK rest : rest = Tail(tasks)
  OBVIOUS
<1>2. /\ rest \in Tasks /\ Len(rest) = Len(tasks) - 1 /\ Len(tasks) \in Nat \ {0}
      /\ \A i \in 1..Len(tasks) - 1 : rest[i] = tasks[i + 1]
  BY <1>1, HeadAndTail DEF Tasks
<1>3. \A j \in 1..Len(tasks) : j = 1 \/ (j - 1 \in 1..Len(tasks) - 1 /\ (j - 1) + 1 = j)
  BY <1>2
<1>4. 1 \in 1..Len(tasks) /\ \A j \in 1..Len(tasks) - 1 : j + 1 \in 1..Len(tasks)
  BY <1>2
<1>5. {tasks[j].id : j \in 1..Len(tasks)} = {tasks[1].id} \cup {rest[j].id : j \in 1..Len(rest)}
  <2>1. ASSUME NEW j \in 1..Len(tasks)
        PROVE  tasks[j].id \in {tasks[1].id} \cup {rest[i].id : i \in 1..Len(rest)}
    <3>1. CASE j = 1
      BY <3>1
    <3>2. CASE j # 1
      <4>1. j - 1 \in 1..Len(rest) /\ rest[j - 1] = tasks[j]
        BY <1>2, <1>3, <3>2
      <4> QED BY <4>1
    <3> QED BY <3>1, <3>2
  <2>2. ASSUME NEW j \in 1..Len(rest) PROVE rest[j].id \in {tasks[i].id : i \in 1..Len(tasks)}
    <3>1. j + 1 \in 1..Len(tasks) /\ rest[j] = tasks[j + 1]
      BY <1>2, <1>4
    <3> QED BY <3>1
  <2> QED BY <1>4, <2>1, <2>2
<1> QED BY <1>1, <1>2, <1>5

LEMMA RisingSkips ==
  ASSUME NEW nodes, NEW tasks, NEW road, NEW past, Rising(nodes, tasks, road, past), tasks # << >>,
         tasks[1].enters, tasks[1].id \in past
  PROVE  Rising(nodes, Tail(tasks), road, past)
<1>1. PICK e : Piled(nodes, tasks, road, past, e)
  BY DEF Rising
<1>2. /\ tasks \in Tasks /\ road \in Seq(Nat)
      /\ DOMAIN nodes \subseteq past \cup {tasks[j].id : j \in 1..Len(tasks)}
  BY DEF Rising
<1>3. /\ Len(tasks) \in Nat \ {0} /\ Len(road) \in Nat
      /\ e = 0 => road = << >> /\ Len(road) = 0
      /\ road = << >> => e = 0
  BY <1>1, RisingFirst
<1>4. /\ e \in {0, 1} /\ e + Len(road) <= Len(tasks)
      /\ e = 1 => tasks[1].id = nodes[road[Len(road)]].parent
      /\ \A j \in 1..Len(road) : ~tasks[e + j].enters /\ tasks[e + j].id = road[(Len(road) + 1) - j]
      /\ \A j \in e + Len(road) + 1..Len(tasks) : tasks[j].enters /\ tasks[j].id \in DOMAIN nodes
  BY <1>1 DEF Piled
<1>5. PICK rest : rest = Tail(tasks)
  OBVIOUS
<1>6. /\ rest \in Tasks /\ Len(rest) = Len(tasks) - 1
      /\ \A i \in 1..Len(tasks) - 1 : rest[i] = tasks[i + 1]
      /\ {tasks[j].id : j \in 1..Len(tasks)} = {tasks[1].id} \cup {rest[j].id : j \in 1..Len(rest)}
  BY <1>2, <1>5, TailCovers
<1>7. ASSUME NEW j \in 1..Len(road) PROVE ~rest[j].enters /\ rest[j].id = road[(Len(road) + 1) - j]
  <2>1. Len(road) # 0
    BY <1>3
  <2>2. e = 1
    BY <1>3, <1>4, <2>1
  <2>3. j \in 1..Len(tasks) - 1 /\ e + j = j + 1
    BY <1>3, <1>4, <2>2
  <2>4. rest[j] = tasks[e + j]
    BY <1>6, <2>3
  <2> QED BY <1>4, <2>4
<1>8. ASSUME NEW j \in 0 + Len(road) + 1..Len(rest) PROVE rest[j].enters /\ rest[j].id \in DOMAIN nodes
  <2>1. j \in 1..Len(tasks) - 1 /\ j + 1 \in e + Len(road) + 1..Len(tasks)
    BY <1>3, <1>4, <1>6
  <2>2. rest[j] = tasks[j + 1]
    BY <1>6, <2>1
  <2> QED BY <1>4, <2>1, <2>2
<1>9. 0 + Len(road) <= Len(rest)
  BY <1>3, <1>4, <1>6
<1>10. road # << >> => nodes[road[Len(road)]].parent \in {NoId} \cup past
  BY <1>3, <1>4
<1>11. Piled(nodes, rest, road, past, 0)
  BY <1>7, <1>8, <1>9, <1>10 DEF Piled
<1>12. DOMAIN nodes \subseteq past \cup {rest[j].id : j \in 1..Len(rest)}
  BY <1>2, <1>6
<1> QED BY <1>5, <1>6, <1>11, <1>12 DEF Rising

LEMMA RisingEnters ==
  ASSUME NEW nodes, IsGraph(nodes), ParentsOk(nodes),
         NEW tasks, NEW road, NEW past, Rising(nodes, tasks, road, past), tasks # << >>,
         tasks[1].enters, NEW id, id = tasks[1].id, id \notin past, id \notin ToSet(road),
         NEW ids, ids = IF nodes[id].parent = NoId THEN << >> ELSE <<nodes[id].parent>>
  PROVE  Rising(nodes, Entered(tasks, id, ids), Append(road, id), past) /\ id \in DOMAIN nodes
<1>1. PICK e : Piled(nodes, tasks, road, past, e)
  BY DEF Rising
<1>2. /\ tasks \in Tasks /\ road \in Seq(Nat) /\ NoRepeats(road)
      /\ ToSet(road) \subseteq DOMAIN nodes /\ ToSet(road) \cap past = {}
      /\ \A i \in 1..Len(road) - 1 : road[i + 1] = nodes[road[i]].parent
      /\ DOMAIN nodes \subseteq past \cup {tasks[j].id : j \in 1..Len(tasks)}
  BY DEF Rising
<1>3. /\ Len(tasks) \in Nat \ {0} /\ Len(road) \in Nat
      /\ e = 0 => road = << >> /\ Len(road) = 0
      /\ road = << >> => e = 0
      /\ id \in DOMAIN nodes
  BY <1>1, RisingFirst
<1>4. /\ e \in {0, 1} /\ e + Len(road) <= Len(tasks)
      /\ e = 1 => tasks[1].id = nodes[road[Len(road)]].parent
      /\ \A j \in 1..Len(road) : ~tasks[e + j].enters /\ tasks[e + j].id = road[(Len(road) + 1) - j]
      /\ \A j \in e + Len(road) + 1..Len(tasks) : tasks[j].enters /\ tasks[j].id \in DOMAIN nodes
  BY <1>1 DEF Piled
<1>5. PICK parent, k : parent = nodes[id].parent /\ k = Len(ids)
  OBVIOUS
<1>6. parent \in DOMAIN nodes \cup {NoId} /\ NoId \notin DOMAIN nodes /\ id \in Nat
      /\ DOMAIN nodes \subseteq Nat
  BY <1>3, <1>5 DEF ParentsOk, IsGraph
<1>7. /\ ids \in Seq(Nat) /\ k \in {0, 1}
      /\ k = 0 => parent = NoId
      /\ k = 1 => ids[1] = parent /\ parent \in DOMAIN nodes
  <2>1. CASE parent = NoId
    BY <1>5, <2>1
  <2>2. CASE parent # NoId
    <3>1. parent \in Nat /\ parent \in DOMAIN nodes
      BY <1>6, <2>2
    <3>2. ids = <<parent>>
      BY <1>5, <2>2
    <3> QED BY <1>5, <3>1, <3>2
  <2> QED BY <2>1, <2>2
<1>8. PICK others : others = Entered(tasks, id, ids)
  OBVIOUS
<1>9. others \in Tasks /\ IsEntered(others, tasks, id, ids)
  BY <1>2, <1>6, <1>7, <1>8, EnteredTasks
<1>10. /\ Len(others) = k + Len(tasks)
       /\ k = 1 => others[1].enters /\ others[1].id = parent
       /\ ~others[k + 1].enters /\ others[k + 1].id = id
       /\ \A j \in 2..Len(tasks) : others[k + j] = tasks[j]
  <2>1. k = 1 => 1 \in 1..Len(ids)
    BY <1>5
  <2> QED BY <1>5, <1>7, <1>9, <2>1 DEF IsEntered
<1>11. PICK way : way = Append(road, id)
  OBVIOUS
<1>12. /\ way \in Seq(Nat) /\ NoRepeats(way) /\ ToSet(way) = ToSet(road) \cup {id}
       /\ Len(way) = Len(road) + 1 /\ way[Len(road) + 1] = id
       /\ \A i \in 1..Len(road) : way[i] = road[i]
  BY <1>2, <1>6, <1>11, AppendDistinct, ToSetAppend, AppendProperties
<1>13. ASSUME NEW i \in 1..Len(road) PROVE way[i + 1] = nodes[way[i]].parent
  <2>1. CASE i = Len(road)
    <3>1. e = 1
      BY <1>3, <1>4, <2>1
    <3> QED BY <1>4, <1>12, <2>1, <3>1
  <2>2. CASE i # Len(road)
    <3>1. i \in 1..Len(road) - 1 /\ i + 1 \in 1..Len(road)
      BY <1>3, <2>2
    <3> QED BY <1>2, <1>12, <3>1
  <2> QED BY <2>1, <2>2
<1>14. ASSUME NEW j \in 1..Len(way)
       PROVE  ~others[k + j].enters /\ others[k + j].id = way[(Len(way) + 1) - j]
  <2>1. CASE j = 1
    <3>1. (Len(way) + 1) - j = Len(road) + 1
      BY <1>3, <1>12, <2>1
    <3> QED BY <1>10, <1>12, <2>1, <3>1
  <2>2. CASE j # 1
    <3>1. Len(road) # 0 /\ j - 1 \in 1..Len(road)
      BY <1>3, <1>12, <2>2
    <3>2. e = 1
      BY <1>3, <1>4, <3>1
    <3>3. e + (j - 1) = j /\ j \in 2..Len(tasks) /\ (Len(road) + 1) - (j - 1) = (Len(way) + 1) - j
          /\ (Len(way) + 1) - j \in 1..Len(road)
      BY <1>3, <1>4, <1>12, <3>1, <3>2
    <3>4. ~tasks[j].enters /\ tasks[j].id = road[(Len(way) + 1) - j]
      BY <1>4, <3>1, <3>3
    <3> QED BY <1>10, <1>12, <3>3, <3>4
  <2> QED BY <2>1, <2>2
<1>15. ASSUME NEW j \in k + Len(way) + 1..Len(others) PROVE others[j].enters /\ others[j].id \in DOMAIN nodes
  <2>1. /\ j - k \in 2..Len(tasks) /\ j - k \in e + Len(road) + 1..Len(tasks) /\ k + (j - k) = j
    BY <1>3, <1>4, <1>7, <1>10, <1>12
  <2>2. others[j] = tasks[j - k]
    BY <1>10, <2>1
  <2> QED BY <1>4, <2>1, <2>2
<1>16. Piled(nodes, others, way, past, k)
  <2>1. k + Len(way) <= Len(others)
    BY <1>3, <1>4, <1>7, <1>10, <1>12
  <2>2. way[Len(way)] = id /\ way # << >>
    BY <1>3, <1>12
  <2>3. k = 0 => nodes[way[Len(way)]].parent = NoId
    BY <1>5, <1>7, <2>2
  <2>4. k = 1 => /\ others[1].enters /\ others[1].id = nodes[way[Len(way)]].parent
                 /\ others[1].id \in DOMAIN nodes
    BY <1>5, <1>7, <1>10, <2>2
  <2> QED BY <1>7, <1>14, <1>15, <2>1, <2>2, <2>3, <2>4 DEF Piled
<1>17. DOMAIN nodes \subseteq past \cup {others[j].id : j \in 1..Len(others)}
  <2>1. ASSUME NEW j \in 1..Len(tasks) PROVE \E i \in 1..Len(others) : others[i].id = tasks[j].id
    <3>1. k + j \in 1..Len(others)
      BY <1>3, <1>7, <1>10
    <3>2. CASE j = 1
      BY <1>10, <3>1, <3>2
    <3>3. CASE j # 1
      <4>1. j \in 2..Len(tasks)
        BY <3>3
      <4> QED BY <1>10, <3>1, <4>1
    <3> QED BY <3>2, <3>3
  <2> QED BY <1>2, <2>1
<1>18. \A i \in 1..Len(way) - 1 : way[i + 1] = nodes[way[i]].parent
  BY <1>3, <1>12, <1>13
<1>19. ToSet(way) \subseteq DOMAIN nodes /\ ToSet(way) \cap past = {}
  BY <1>2, <1>3, <1>12
<1>20. Rising(nodes, others, way, past)
  BY <1>9, <1>12, <1>16, <1>17, <1>18, <1>19 DEF Rising
<1> QED BY <1>3, <1>8, <1>11, <1>20

(* A node that is on the path already is the parent of the last one there. *)
LEMMA RisingRefuses ==
  ASSUME NEW nodes, ParentsOk(nodes), NEW tasks, NEW road, NEW past, Rising(nodes, tasks, road, past),
         tasks # << >>, tasks[1].enters, tasks[1].id \in ToSet(road)
  PROVE  \A x \in ToSet(road) : nodes[x].parent \in ToSet(road)
<1>1. PICK e : Piled(nodes, tasks, road, past, e)
  BY DEF Rising
<1>2. /\ road \in Seq(Nat) /\ ToSet(road) = {road[i] : i \in 1..Len(road)} /\ Len(road) \in Nat
      /\ \A i \in 1..Len(road) - 1 : road[i + 1] = nodes[road[i]].parent
  BY ToSetOfSeq, LenProperties DEF Rising
<1>3. road # << >>
  BY NoneInEmpty
<1>4. e = 1 /\ tasks[1].id = nodes[road[Len(road)]].parent
  BY <1>1, <1>3, RisingFirst DEF Piled
<1>5. ASSUME NEW i \in 1..Len(road) PROVE nodes[road[i]].parent \in ToSet(road)
  <2>1. CASE i = Len(road)
    BY <1>4, <2>1
  <2>2. CASE i # Len(road)
    <3>1. i \in 1..Len(road) - 1 /\ i + 1 \in 1..Len(road)
      BY <1>2, <2>2
    <3> QED BY <1>2, <3>1
  <2> QED BY <2>1, <2>2
<1> QED BY <1>2, <1>5

LEMMA RisingLeaves ==
  ASSUME NEW nodes, IsGraph(nodes), NEW tasks, NEW road, NEW past, Rising(nodes, tasks, road, past),
         tasks # << >>, ~tasks[1].enters, NEW id, id = tasks[1].id
  PROVE  /\ Rising(nodes, Tail(tasks), Front(road), past \cup {id})
         /\ id \in DOMAIN nodes /\ id \notin past /\ nodes[id].parent \in {NoId} \cup past
<1>1. PICK e : Piled(nodes, tasks, road, past, e)
  BY DEF Rising
<1>2. /\ tasks \in Tasks /\ road \in Seq(Nat) /\ NoRepeats(road)
      /\ ToSet(road) \subseteq DOMAIN nodes /\ ToSet(road) \cap past = {}
      /\ \A i \in 1..Len(road) - 1 : road[i + 1] = nodes[road[i]].parent
      /\ DOMAIN nodes \subseteq past \cup {tasks[j].id : j \in 1..Len(tasks)}
  BY DEF Rising
<1>3. /\ Len(tasks) \in Nat \ {0} /\ Len(road) \in Nat \ {0} /\ e = 0 /\ road # << >>
      /\ id = road[Len(road)] /\ id \in Nat
  BY <1>1, RisingFirst
<1>4. /\ e + Len(road) <= Len(tasks)
      /\ nodes[road[Len(road)]].parent \in {NoId} \cup past
      /\ \A j \in 1..Len(road) : ~tasks[e + j].enters /\ tasks[e + j].id = road[(Len(road) + 1) - j]
      /\ \A j \in e + Len(road) + 1..Len(tasks) : tasks[j].enters /\ tasks[j].id \in DOMAIN nodes
  BY <1>1, <1>3 DEF Piled
<1>5. PICK rest, front : rest = Tail(tasks) /\ front = Front(road)
  OBVIOUS
<1>6. /\ rest \in Tasks /\ Len(rest) = Len(tasks) - 1
      /\ \A i \in 1..Len(tasks) - 1 : rest[i] = tasks[i + 1]
      /\ {tasks[j].id : j \in 1..Len(tasks)} = {tasks[1].id} \cup {rest[j].id : j \in 1..Len(rest)}
  BY <1>2, <1>5, TailCovers
<1>7. /\ front \in Seq(Nat) /\ Len(front) = Len(road) - 1
      /\ \A i \in 1..Len(road) - 1 : front[i] = road[i]
      /\ ToSet(road) = ToSet(front) \cup {id}
  BY <1>2, <1>3, <1>5, FrontOfPath
<1>8. NoRepeats(front)
  <2>1. \A i \in 1..Len(front) : i \in 1..Len(road) /\ i \in 1..Len(road) - 1
    BY <1>3, <1>7
  <2> QED BY <1>2, <1>7, <2>1 DEF NoRepeats
<1>9. id \notin ToSet(front)
  <2>1. ToSet(front) = {front[i] : i \in 1..Len(front)}
    BY <1>7, ToSetOfSeq
  <2>2. ASSUME NEW i \in 1..Len(front) PROVE front[i] # id
    <3>1. i \in 1..Len(road) - 1 /\ i \in 1..Len(road) /\ Len(road) \in 1..Len(road) /\ i # Len(road)
      BY <1>3, <1>7
    <3>2. road[i] # road[Len(road)]
      BY <1>2, <3>1 DEF NoRepeats
    <3> QED BY <1>3, <1>7, <3>1, <3>2
  <2> QED BY <2>1, <2>2
<1>10. id \in DOMAIN nodes /\ id \notin past
  BY <1>2, <1>7
<1>11. ToSet(front) \subseteq DOMAIN nodes /\ ToSet(front) \cap (past \cup {id}) = {}
  BY <1>2, <1>7, <1>9
<1>12. ASSUME NEW i \in 1..Len(front) - 1 PROVE front[i + 1] = nodes[front[i]].parent
  <2>1. i \in 1..Len(road) - 1 /\ i + 1 \in 1..Len(road) - 1
    BY <1>3, <1>7
  <2> QED BY <1>2, <1>7, <2>1
<1>13. ASSUME NEW j \in 1..Len(front)
       PROVE  ~rest[0 + j].enters /\ rest[0 + j].id = front[(Len(front) + 1) - j]
  <2>1. /\ j \in 1..Len(tasks) - 1 /\ j + 1 \in 1..Len(road) /\ e + (j + 1) = j + 1 /\ 0 + j = j
        /\ (Len(road) + 1) - (j + 1) = (Len(front) + 1) - j /\ (Len(front) + 1) - j \in 1..Len(road) - 1
    BY <1>3, <1>4, <1>7
  <2>2. ~tasks[j + 1].enters /\ tasks[j + 1].id = road[(Len(front) + 1) - j]
    BY <1>4, <2>1
  <2> QED BY <1>6, <1>7, <2>1, <2>2
<1>14. ASSUME NEW j \in 0 + Len(front) + 1..Len(rest) PROVE rest[j].enters /\ rest[j].id \in DOMAIN nodes
  <2>1. j \in 1..Len(tasks) - 1 /\ j + 1 \in e + Len(road) + 1..Len(tasks)
    BY <1>3, <1>6, <1>7
  <2> QED BY <1>4, <1>6, <2>1
<1>15. front # << >> => nodes[front[Len(front)]].parent = id
  <2>1. SUFFICES ASSUME front # << >> PROVE nodes[front[Len(front)]].parent = id
    OBVIOUS
  <2>2. Len(front) \in Nat \ {0}
    BY <1>7, <2>1, HeadAndTail
  <2>3. Len(front) \in 1..Len(road) - 1 /\ Len(front) + 1 = Len(road)
    BY <1>3, <1>7, <2>2
  <2> QED BY <1>2, <1>3, <1>7, <2>3
<1>16. Piled(nodes, rest, front, past \cup {id}, 0)
  <2>1. 0 + Len(front) <= Len(rest)
    BY <1>3, <1>4, <1>6, <1>7
  <2> QED BY <1>13, <1>14, <1>15, <2>1 DEF Piled
<1>17. DOMAIN nodes \subseteq past \cup {id} \cup {rest[j].id : j \in 1..Len(rest)}
  BY <1>2, <1>6
<1>18. Rising(nodes, rest, front, past \cup {id})
  BY <1>6, <1>7, <1>8, <1>11, <1>12, <1>16, <1>17 DEF Rising
<1> QED BY <1>3, <1>4, <1>5, <1>10, <1>18

LEMMA RisingEnds ==
  ASSUME NEW nodes, NEW road, NEW past, Rising(nodes, << >>, road, past)
  PROVE  DOMAIN nodes \subseteq past
<1>1. Len(<< >>) = 0 /\ 1..0 = {}
  OBVIOUS
<1> QED BY <1>1 DEF Rising

(* A world is put together from the one of the parent, if there is one.    *)
LEMMA WorldsGrow ==
  ASSUME NEW nodes, IsGraph(nodes), ParentsOk(nodes), NEW found, NEW past, Worlds(nodes, found, past),
         NEW id \in DOMAIN nodes, id \notin past, nodes[id].parent \in {NoId} \cup past,
         NEW above, above = {step \in ToSet(found) : step.id = nodes[id].parent},
         NEW world, world = IF above = {} THEN << >> ELSE (CHOOSE step \in above : TRUE).path
  PROVE  Worlds(nodes, Append(found, Step(Append(world, id))), past \cup {id})
<1>1. /\ found \in Seq(Visit) /\ past = {found[i].id : i \in 1..Len(found)}
      /\ \A i \in 1..Len(found) :
           Rooted(nodes, found[i].id, found[i].path) /\ ToSet(found[i].path) \subseteq past
      /\ \A i, j \in 1..Len(found) : found[i].id = found[j].id => i = j
  BY DEF Worlds
<1>2. Len(found) \in Nat /\ ToSet(found) = {found[i] : i \in 1..Len(found)}
  BY <1>1, LenProperties, ToSetOfSeq
<1>3. id \in DOMAIN nodes \ {NoId} /\ id \in Nat
  BY DEF ParentsOk, IsGraph
<1>4. PICK way : way = Append(world, id)
  OBVIOUS
<1>5. Rooted(nodes, id, way) /\ ToSet(way) \subseteq past \cup {id} /\ way \in Seq(Nat) /\ Last(way) = id
  <2>1. CASE above = {}
    <3>1. nodes[id].parent \notin past
      BY <1>1, <1>2, <2>1
    <3>2. nodes[id].parent \notin DOMAIN nodes
      BY <3>1 DEF ParentsOk
    <3>3. way = <<id>>
      <4>1. world = << >>
        BY <2>1
      <4> QED BY ONLY <4>1, <1>3, <1>4
    <3>4. Rooted(nodes, id, way)
      BY <1>3, <3>2, <3>3, RootedAlone
    <3>5. way \in Seq(Nat) /\ Len(way) = 1 /\ way[1] = id
      BY <1>3, <3>3
    <3>6. ToSet(way) = {way[i] : i \in 1..Len(way)}
      BY ONLY <3>5, ToSetOfSeq
    <3>7. ToSet(way) = {id}
      BY ONLY <3>5, <3>6
    <3> QED BY <3>4, <3>5, <3>7 DEF Last
  <2>2. CASE above # {}
    <3>1. PICK step \in above : world = step.path
      BY <2>2
    <3>2. PICK i \in 1..Len(found) : step = found[i]
      BY <1>2, <3>1
    <3>3. step.id = nodes[id].parent
      BY <3>1
    <3>4. Rooted(nodes, nodes[id].parent, world) /\ ToSet(world) \subseteq past
      BY <1>1, <3>1, <3>2, <3>3
    <3>5. id \notin ToSet(world)
      BY <3>4
    <3>6. Rooted(nodes, id, way)
      BY <1>3, <1>4, <3>4, <3>5, RootedGrows
    <3>7. world \in Seq(Nat)
      BY <3>4 DEF Rooted, Climb
    <3>8. ToSet(way) = ToSet(world) \cup {id}
      BY ONLY <1>3, <1>4, <3>7, ToSetAppend
    <3>9. way \in Seq(Nat) /\ Last(way) = id
      BY <3>6 DEF Rooted, Climb, End, Last
    <3> QED BY <3>4, <3>6, <3>8, <3>9
  <2> QED BY <2>1, <2>2
<1>6. PICK visit : visit = Step(way)
  OBVIOUS
<1>7. visit \in Visit /\ visit.id = id /\ visit.path = way
  BY <1>3, <1>5, <1>6 DEF Step, Visit
<1>8. PICK more : more = Append(found, visit)
  OBVIOUS
<1>9. /\ more \in Seq(Visit) /\ Len(more) = Len(found) + 1 /\ more[Len(found) + 1] = visit
      /\ \A i \in 1..Len(found) : more[i] = found[i]
  BY <1>1, <1>7, <1>8, AppendProperties
<1>10. \A i \in 1..Len(more) : i \in 1..Len(found) \/ i = Len(found) + 1
  BY <1>2, <1>9
<1>11. ASSUME NEW i \in 1..Len(more)
       PROVE  Rooted(nodes, more[i].id, more[i].path) /\ ToSet(more[i].path) \subseteq past \cup {id}
  <2>1. CASE i \in 1..Len(found)
    BY <1>1, <1>9, <2>1
  <2>2. CASE i = Len(found) + 1
    BY <1>5, <1>7, <1>9, <2>2
  <2> QED BY <1>10, <2>1, <2>2
<1>12. ASSUME NEW i \in 1..Len(more), NEW j \in 1..Len(more), more[i].id = more[j].id PROVE i = j
  <2>1. \A k \in 1..Len(found) : more[k].id # id
    BY <1>1, <1>9
  <2>2. CASE i = Len(found) + 1
    BY <1>7, <1>9, <1>10, <1>12, <2>1, <2>2
  <2>3. CASE i \in 1..Len(found) /\ j = Len(found) + 1
    BY <1>7, <1>9, <1>12, <2>1, <2>3
  <2>4. CASE i \in 1..Len(found) /\ j \in 1..Len(found)
    BY <1>1, <1>9, <1>12, <2>4
  <2> QED BY <1>10, <2>2, <2>3, <2>4
<1>13. past \cup {id} = {more[i].id : i \in 1..Len(more)}
  <2>1. \A i \in 1..Len(found) : i \in 1..Len(more) /\ more[i].id = found[i].id
    BY <1>2, <1>9
  <2>2. Len(found) + 1 \in 1..Len(more) /\ more[Len(found) + 1].id = id
    BY <1>2, <1>7, <1>9
  <2> QED BY <1>1, <1>10, <2>1, <2>2
<1>14. Worlds(nodes, more, past \cup {id})
  BY <1>9, <1>11, <1>12, <1>13 DEF Worlds
<1> QED BY <1>4, <1>6, <1>8, <1>14

(***************************************************************************)
(* The graph and its scene.                                                *)
(***************************************************************************)

Names == stage # "link" => FromScene(scene, graph.nodes)

LEMMA NamesKept ==
  ASSUME GraphInv, Names, Next
  PROVE  Names'
<1>1. IsGraphRecord(graph) /\ scene' = scene /\ stage' # "link"
  <2>1. scene' = scene
    BY DEF Next, LinkNodes, MarkReachable, MarkNothing, CollectUnreachable, EnterForCycles,
           ReportCycle, SkipForCycles, Return, FinishGraph, TraverseDepthFirst, EnterDepthFirst,
           SkipDepthFirst, TopologicalNodeOrder, TraverseBreadthFirst, VisitBreadthFirst, DescendantsOf,
           ReachableFrom, VisitDescendant, SkipDescendant, VisitReachable, ConnectedComponents,
           StartComponent, VisitNeighbors, FinishComponent, ComputeWorldTransforms, EnterForWorld,
           SkipForWorld, RefuseWorld, LeaveWithWorld, Answer
  <2>2. stage' # "link"
    BY DEF Next, LinkNodes, MarkReachable, MarkNothing, CollectUnreachable, EnterForCycles,
           ReportCycle, SkipForCycles, Return, FinishGraph, TraverseDepthFirst, EnterDepthFirst,
           SkipDepthFirst, TopologicalNodeOrder, TraverseBreadthFirst, VisitBreadthFirst, DescendantsOf,
           ReachableFrom, VisitDescendant, SkipDescendant, VisitReachable, ConnectedComponents,
           StartComponent, VisitNeighbors, FinishComponent, ComputeWorldTransforms, EnterForWorld,
           SkipForWorld, RefuseWorld, LeaveWithWorld, Answer, Ask, Entering
  <2> QED BY <2>1, <2>2 DEF GraphInv
<1>2. CASE LinkNodes
  BY <1>1, <1>2, LinkNodesLinks DEF Names
<1>3. CASE MarkReachable
  <2>1. /\ SameLinks(graph.nodes, graph'.nodes)
        /\ \A id \in DOMAIN graph.nodes : graph'.nodes[id].parent = graph.nodes[id].parent
    BY <1>3, MarkReachableMarks
  <2>2. FromScene(scene, graph.nodes)
    BY <1>3 DEF Names, MarkReachable
  <2>3. PICK nodes, others : nodes = graph.nodes /\ others = graph'.nodes
    OBVIOUS
  <2>4. FromScene(scene, others)
    <3>1. /\ DOMAIN others = DOMAIN nodes
          /\ \A id \in DOMAIN nodes : others[id].parent = nodes[id].parent /\ others[id].children = nodes[id].children
      BY <2>1, <2>3 DEF SameLinks
    <3>2. FromScene(scene, nodes)
      BY <2>2, <2>3
    <3> QED BY ONLY <3>1, <3>2 DEF FromScene
  <2> QED BY <1>1, <2>3, <2>4 DEF Names
<1>4. CASE CollectUnreachable
  <2>1. graph' = WithUnreachable(graph, SortUnique({id \in Ids : ~graph.nodes[id].reachable})) /\ stage = "mark"
    BY <1>4 DEF CollectUnreachable, WithUnreachable
  <2>2. graph'.nodes = graph.nodes
    BY <1>1, <2>1, GraphUpdates
  <2> QED BY <1>1, <2>1, <2>2 DEF Names
<1>5. CASE ReportCycle
  <2>1. stage = "find_cycles" /\ \E c : graph' = [graph EXCEPT !.cycles = c]
    BY <1>5 DEF ReportCycle, Entering
  <2>2. PICK c : graph' = WithCycles(graph, c)
    BY <2>1 DEF WithCycles
  <2>3. graph'.nodes = graph.nodes
    BY <1>1, <2>2, GraphUpdates
  <2> QED BY <1>1, <2>1, <2>3 DEF Names
<1>6. ASSUME graph' = graph, stage # "link" PROVE Names'
  BY <1>1, <1>6 DEF Names
<1>7. CASE ~(LinkNodes \/ MarkReachable \/ CollectUnreachable \/ ReportCycle)
  <2>1. graph' = graph
    BY <1>7 DEF Next, MarkNothing, EnterForCycles,
           SkipForCycles, Return, FinishGraph, TraverseDepthFirst, EnterDepthFirst,
           SkipDepthFirst, TopologicalNodeOrder, TraverseBreadthFirst, VisitBreadthFirst, DescendantsOf,
           ReachableFrom, VisitDescendant, SkipDescendant, VisitReachable, ConnectedComponents,
           StartComponent, VisitNeighbors, FinishComponent, ComputeWorldTransforms, EnterForWorld,
           SkipForWorld, RefuseWorld, LeaveWithWorld, Answer
  <2>2. stage # "link"
    BY <1>7 DEF Next, MarkNothing, EnterForCycles,
           SkipForCycles, Return, FinishGraph, TraverseDepthFirst, EnterDepthFirst,
           SkipDepthFirst, TopologicalNodeOrder, TraverseBreadthFirst, VisitBreadthFirst, DescendantsOf,
           ReachableFrom, VisitDescendant, SkipDescendant, VisitReachable, ConnectedComponents,
           StartComponent, VisitNeighbors, FinishComponent, ComputeWorldTransforms, EnterForWorld,
           SkipForWorld, RefuseWorld, LeaveWithWorld, Answer, Ask, Entering
  <2> QED BY <1>6, <2>1, <2>2
<1> QED BY <1>2, <1>3, <1>4, <1>5, <1>7

LEMMA ValidParents ==
  ASSUME GraphInv, FromScene(scene, graph.nodes), NodesAreValid
  PROVE  ParentsOk(graph.nodes)
<1>1. scene \in Seq([id : Nat, parent : Nat, children : SUBSET Nat])
  BY SceneTyped DEF GraphInv
<1>2. ToSet(scene) = {scene[i] : i \in 1..Len(scene)} /\ DOMAIN scene = 1..Len(scene)
  BY <1>1, ToSetOfSeq, LenProperties
<1>3. NoId \notin DOMAIN graph.nodes
  BY DEF NodesAreValid, Ids
<1>4. \A i \in 1..Len(scene) : scene[i].parent \in Ids \cup {NoId}
  <2>1. \A node \in ToSet(scene) : node.parent \in Ids \cup {NoId}
    BY DEF NodesAreValid
  <2> QED BY <1>2, <2>1
<1>5. ASSUME NEW id \in DOMAIN graph.nodes PROVE graph.nodes[id].parent \in DOMAIN graph.nodes \cup {NoId}
  BY <1>2, <1>4 DEF FromScene, Ids
<1> QED BY <1>3, <1>5 DEF ParentsOk

LEMMA SceneNames ==
  ASSUME GraphInv, FromScene(scene, graph.nodes)
  PROVE  \E ids \in Seq(Nat) : /\ ToSet(ids) = DOMAIN graph.nodes
                               /\ Each(scene, LAMBDA node : Enter(node.id)) = [i \in DOMAIN ids |-> Enter(ids[i])]
<1>1. /\ DOMAIN scene = 1..Len(scene) /\ Len(scene) \in Nat
      /\ \A i \in 1..Len(scene) : scene[i].id \in Nat
  BY SceneTyped DEF GraphInv
<1>2. PICK ids : ids = [i \in 1..Len(scene) |-> scene[i].id]
  OBVIOUS
<1>3. /\ ids \in Seq(Nat) /\ Len(ids) = Len(scene) /\ DOMAIN ids = 1..Len(scene)
      /\ \A i \in 1..Len(scene) : ids[i] = scene[i].id
  <2>1. ids \in [1..Len(scene) -> Nat]
    BY <1>1, <1>2
  <2> QED BY <1>1, <1>2, <2>1, FunctionIsSeq
<1>4. ToSet(ids) = {ids[i] : i \in 1..Len(ids)}
  BY <1>3, ToSetOfSeq
<1>5. ToSet(ids) = DOMAIN graph.nodes
  <2>1. \A i \in 1..Len(scene) : ids[i] \in DOMAIN graph.nodes
    BY <1>1, <1>3 DEF FromScene
  <2>2. \A id \in DOMAIN graph.nodes : \E i \in 1..Len(scene) : ids[i] = id
    BY <1>1, <1>3 DEF FromScene
  <2> QED BY ONLY <1>3, <1>4, <2>1, <2>2
<1>6. Each(scene, LAMBDA node : Enter(node.id)) = [i \in DOMAIN ids |-> Enter(ids[i])]
  <2>1. Each(scene, LAMBDA node : Enter(node.id)) = [i \in 1..Len(scene) |-> Enter(scene[i].id)]
    BY <1>1 DEF Each
  <2> QED BY <1>3, <2>1
<1> QED BY <1>3, <1>5, <1>6

(* Parents that lead from one to another forever.                          *)
Circling(nodes) ==
  \E T : T # {} /\ T \subseteq DOMAIN nodes \ {NoId} /\ \A x \in T : nodes[x].parent \in T

WorldRises ==
  /\ query.name = "world" /\ NodesAreValid /\ ParentsOk(graph.nodes)
  /\ Rising(graph.nodes, pending, path, seen) /\ Worlds(graph.nodes, answer, seen)

WorldDone ==
  query.name = "world" =>
    \/ NodesAreValid /\ ParentsOk(graph.nodes) /\ Worlds(graph.nodes, answer, Ids)
    \/ answer = << >> /\ (~NodesAreValid \/ Circling(graph.nodes))

(* The world transforms that are put together are those of the paths.      *)
WorldRun ==
  /\ stage = "world" => WorldRises
  /\ stage = "answered" => WorldDone

LEMMA WorldRead ==
  ASSUME GraphInv, stage = "answered" => WorldDone
  PROVE  WorldExact
<1> DEFINE Found == /\ AreDistinct(Each(answer, LAMBDA step : step.id))
                    /\ ToSet(answer) = {[id |-> id, path |-> PathToRoot(id)] : id \in Ids}
           All == NodesAreValid /\ \A id \in Ids : Anchored(id)
<1> SUFFICES ASSUME stage = "answered", query.name = "world"
             PROVE  IF All THEN Found ELSE answer = << >>
  BY DEF WorldExact, Answered
<1>1. IsGraph(graph.nodes) /\ Ids = DOMAIN graph.nodes
  BY GraphTyped DEF Building
<1>2. CASE NodesAreValid /\ ParentsOk(graph.nodes) /\ Worlds(graph.nodes, answer, Ids)
  <2>1. /\ answer \in Seq(Visit) /\ Ids = {answer[i].id : i \in 1..Len(answer)}
        /\ \A i \in 1..Len(answer) : Rooted(graph.nodes, answer[i].id, answer[i].path)
        /\ \A i, j \in 1..Len(answer) : answer[i].id = answer[j].id => i = j
    BY <1>2 DEF Worlds
  <2>2. /\ DOMAIN answer = 1..Len(answer) /\ Len(answer) \in Nat
        /\ ToSet(answer) = {answer[i] : i \in 1..Len(answer)}
        /\ \A i \in 1..Len(answer) : answer[i] \in Visit
    BY <2>1, LenProperties, ToSetOfSeq, ElementOfSeq
  <2>3. NoId \notin Ids
    BY <1>1, <1>2 DEF ParentsOk
  <2>4. ASSUME NEW i \in 1..Len(answer)
        PROVE  answer[i].path = PathToRoot(answer[i].id) /\ Anchored(answer[i].id)
    <3>1. answer[i].id \in Ids \ {NoId} /\ Rooted(graph.nodes, answer[i].id, answer[i].path)
      BY <2>1, <2>3
    <3>2. PICK x, r : x = answer[i].id /\ r = answer[i].path
      OBVIOUS
    <3>3. PathToRoot(x) = r /\ Anchored(x)
      BY <1>1, <3>1, <3>2, RootedIsPath
    <3> QED BY <3>2, <3>3
  <2>5. \A id \in Ids : Anchored(id)
    <3> SUFFICES ASSUME NEW id \in Ids PROVE Anchored(id)
      OBVIOUS
    <3>1. PICK i \in 1..Len(answer) : id = answer[i].id
      BY <2>1
    <3> QED BY <2>4, <3>1
  <2>6. \A i \in 1..Len(answer) : answer[i] = [id |-> answer[i].id, path |-> answer[i].path]
    BY <2>2 DEF Visit
  <2>7. ToSet(answer) = {[id |-> id, path |-> PathToRoot(id)] : id \in Ids}
    <3>1. ASSUME NEW i \in 1..Len(answer)
          PROVE  answer[i] = [id |-> answer[i].id, path |-> PathToRoot(answer[i].id)]
      <4>1. PICK x, r : x = answer[i].id /\ r = answer[i].path
        OBVIOUS
      <4>2. answer[i] = [id |-> x, path |-> r] /\ r = PathToRoot(x)
        BY <2>4, <2>6, <4>1
      <4> QED BY ONLY <4>1, <4>2
    <3>2. PICK F : F = [id \in Ids |-> [id |-> id, path |-> PathToRoot(id)]]
      OBVIOUS
    <3>3. {[id |-> id, path |-> PathToRoot(id)] : id \in Ids} = {F[id] : id \in Ids}
      BY <3>2
    <3>4. \A i \in 1..Len(answer) : answer[i].id \in Ids /\ answer[i] = F[answer[i].id]
      BY <2>1, <3>1, <3>2
    <3>5. ToSet(answer) = {F[id] : id \in Ids}
      BY ONLY <2>1, <2>2, <3>4
    <3> QED BY <3>3, <3>5
  <2>8. AreDistinct(Each(answer, LAMBDA step : step.id))
    <3>1. PICK ids : ids = [i \in 1..Len(answer) |-> answer[i].id]
      OBVIOUS
    <3>2. Each(answer, LAMBDA step : step.id) = ids
      BY <2>2, <3>1 DEF Each
    <3>3. ids \in Seq(Nat) /\ Len(ids) = Len(answer) /\ \A i \in 1..Len(answer) : ids[i] = answer[i].id
      <4>1. ids \in [1..Len(answer) -> Nat]
        BY <2>2, <3>1 DEF Visit
      <4> QED BY <2>2, <3>1, <4>1, FunctionIsSeq
    <3>4. NoRepeats(ids)
      BY <2>1, <3>3 DEF NoRepeats
    <3> QED BY <3>2, <3>3, <3>4, DistinctIsNoRepeats
  <2> QED BY <1>2, <2>5, <2>7, <2>8
<1>3. CASE answer = << >> /\ (~NodesAreValid \/ Circling(graph.nodes))
  <2>1. ASSUME Circling(graph.nodes) PROVE \E id \in Ids : ~Anchored(id)
    <3>1. PICK T : T # {} /\ T \subseteq Ids \ {NoId} /\ \A x \in T : graph.nodes[x].parent \in T
      BY <1>1, <2>1 DEF Circling
    <3>2. PICK id \in T : TRUE
      BY <3>1
    <3>3. ~Anchored(id)
      BY <1>1, <3>1, <3>2, CycleIsNotAnchored
    <3> QED BY <3>1, <3>2, <3>3
  <2>2. ~All
    BY <1>3, <2>1
  <2> QED BY <1>3, <2>2
<1> QED BY <1>2, <1>3 DEF WorldDone

LEMMA StillValid ==
  ASSUME scene' = scene, graph' = graph
  PROVE  Ids' = Ids /\ (NodesAreValid' <=> NodesAreValid)
BY DEF NodesAreValid, Ids

LEMMA WorldStarts ==
  ASSUME GraphInv, Names, ComputeWorldTransforms
  PROVE  WorldRun'
<1>1. /\ stage = "built" /\ query'.name = "world" /\ graph' = graph /\ scene' = scene
      /\ path' = path /\ seen' = seen /\ answer' = answer
      /\ path = << >> /\ seen = {} /\ answer = << >>
  BY DEF ComputeWorldTransforms, GraphInv, Idle
<1>2. IsGraph(graph.nodes) /\ FromScene(scene, graph.nodes)
  BY <1>1, GraphTyped DEF Building, Names
<1>3. CASE NodesAreValid
  <2>1. stage' = "world" /\ pending' = Each(scene, LAMBDA node : Enter(node.id))
    BY <1>3 DEF ComputeWorldTransforms
  <2>2. ParentsOk(graph.nodes)
    BY <1>2, <1>3, ValidParents
  <2>3. PICK ids \in Seq(Nat) :
          ToSet(ids) = DOMAIN graph.nodes /\ pending' = [i \in DOMAIN ids |-> Enter(ids[i])]
    BY <1>2, <2>1, SceneNames
  <2>4. Rising(graph.nodes, pending', << >>, {}) /\ Worlds(graph.nodes, << >>, {})
    BY ONLY <1>2, <2>3, RisingStarts
  <2>5. WorldRises'
    BY <1>1, <1>3, <2>2, <2>4, StillValid DEF WorldRises
  <2> QED BY <2>1, <2>5 DEF WorldRun
<1>4. CASE ~NodesAreValid
  <2>1. stage' = "answered"
    BY <1>4 DEF ComputeWorldTransforms
  <2>2. WorldDone'
    BY <1>1, <1>4, StillValid DEF WorldDone
  <2> QED BY <2>1, <2>2 DEF WorldRun
<1> QED BY <1>3, <1>4

LEMMA WorldTyped ==
  ASSUME GraphInv, WorldRun, stage = "world"
  PROVE  /\ IsGraph(graph.nodes) /\ ParentsOk(graph.nodes) /\ WorldRises
         /\ Rising(graph.nodes, pending, path, seen) /\ Worlds(graph.nodes, answer, seen)
         /\ pending # << >> => pending[1] = Head(pending)
<1>1. WorldRises
  BY DEF WorldRun
<1>2. pending \in Tasks
  BY <1>1 DEF WorldRises, Rising
<1>3. pending # << >> => pending[1] = Head(pending)
  BY <1>2, HeadAndTail DEF Tasks
<1>4. IsGraph(graph.nodes)
  BY GraphTyped DEF Building
<1> QED BY <1>1, <1>3, <1>4 DEF WorldRises

LEMMA WorldEnters ==
  ASSUME GraphInv, WorldRun, EnterForWorld
  PROVE  WorldRun'
<1>1. PICK id, parent : id = Head(pending).id /\ parent = graph.nodes[id].parent
  OBVIOUS
<1>2. /\ stage = "world" /\ stage' = "world" /\ pending # << >> /\ Head(pending).enters
      /\ id \notin seen /\ id \notin ToSet(path) /\ path' = Append(path, id)
      /\ pending' = (IF parent = NoId THEN << >> ELSE <<Enter(parent)>>) \o <<Leave(id)>> \o Tail(pending)
      /\ scene' = scene /\ graph' = graph /\ query' = query /\ seen' = seen /\ answer' = answer
  BY <1>1 DEF EnterForWorld, Entering
<1>3. /\ IsGraph(graph.nodes) /\ ParentsOk(graph.nodes) /\ WorldRises
      /\ Rising(graph.nodes, pending, path, seen) /\ pending[1] = Head(pending)
  BY <1>2, WorldTyped
<1>4. PICK ids : ids = IF graph.nodes[id].parent = NoId THEN << >> ELSE <<graph.nodes[id].parent>>
  OBVIOUS
<1>5. pending' = Entered(pending, id, ids)
  <2>1. CASE parent = NoId
    <3>1. ids = << >>
      BY <1>1, <1>4, <2>1
    <3>2. [i \in DOMAIN ids |-> [enters |-> TRUE, id |-> ids[i]]] = << >>
      BY <3>1
    <3> QED BY <1>2, <2>1, <3>2 DEF Entered, Leave
  <2>2. CASE parent # NoId
    <3>1. ids = <<parent>>
      BY <1>1, <1>4, <2>2
    <3>2. [i \in DOMAIN ids |-> [enters |-> TRUE, id |-> ids[i]]] = <<[enters |-> TRUE, id |-> parent]>>
      <4>1. PICK task : task = [enters |-> TRUE, id |-> parent]
        OBVIOUS
      <4>2. PICK one : one = [i \in DOMAIN ids |-> [enters |-> TRUE, id |-> ids[i]]]
        OBVIOUS
      <4>3. DOMAIN ids = 1..1 /\ ids[1] = parent
        BY ONLY <3>1
      <4>4. one = [i \in 1..1 |-> one[i]] /\ one[1] = task
        <5>1. DOMAIN one = 1..1
          BY ONLY <4>2, <4>3
        <5>2. one = [i \in DOMAIN one |-> one[i]]
          BY ONLY <4>2
        <5>3. 1 \in DOMAIN ids
          BY ONLY <4>3
        <5>4. one[1] = [enters |-> TRUE, id |-> ids[1]]
          BY ONLY <4>2, <5>3
        <5>5. one[1] = task
          BY <4>1, <4>3, <5>4
        <5> QED BY ONLY <5>1, <5>2, <5>5
      <4>5. one = <<task>>
        BY ONLY <4>4
      <4> QED BY ONLY <4>1, <4>2, <4>5
    <3> QED BY <1>2, <2>2, <3>2 DEF Entered, Enter, Leave
  <2> QED BY <2>1, <2>2
<1>6. Rising(graph.nodes, pending', path', seen')
  <2>1. pending[1].enters /\ id = pending[1].id /\ pending # << >> /\ id \notin seen /\ id \notin ToSet(path)
    BY <1>1, <1>2, <1>3
  <2>2. Rising(graph.nodes, Entered(pending, id, ids), Append(path, id), seen)
    BY ONLY <1>3, <1>4, <2>1, RisingEnters
  <2> QED BY <1>2, <1>5, <2>2
<1>7. WorldRises'
  BY <1>2, <1>3, <1>6, StillValid DEF WorldRises
<1> QED BY <1>2, <1>7 DEF WorldRun

LEMMA WorldSkips ==
  ASSUME GraphInv, WorldRun, SkipForWorld
  PROVE  WorldRun'
<1>1. /\ stage = "world" /\ stage' = "world" /\ pending # << >> /\ Head(pending).enters
      /\ Head(pending).id \in seen /\ pending' = Tail(pending) /\ path' = path
      /\ scene' = scene /\ graph' = graph /\ query' = query /\ seen' = seen /\ answer' = answer
  BY DEF SkipForWorld, Entering
<1>2. WorldRises /\ Rising(graph.nodes, pending, path, seen) /\ pending[1] = Head(pending)
  BY <1>1, WorldTyped
<1>3. Rising(graph.nodes, pending', path', seen')
  BY <1>1, <1>2, RisingSkips
<1>4. WorldRises'
  BY <1>1, <1>2, <1>3, StillValid DEF WorldRises
<1> QED BY <1>1, <1>4 DEF WorldRun

LEMMA WorldRefuses ==
  ASSUME GraphInv, WorldRun, RefuseWorld
  PROVE  WorldRun'
<1>1. /\ stage = "world" /\ stage' = "answered" /\ pending # << >> /\ Head(pending).enters
      /\ Head(pending).id \in ToSet(path) /\ answer' = << >>
      /\ scene' = scene /\ graph' = graph /\ query' = query
  BY DEF RefuseWorld, Entering
<1>2. /\ ParentsOk(graph.nodes) /\ Rising(graph.nodes, pending, path, seen) /\ pending[1] = Head(pending)
  BY <1>1, WorldTyped
<1>3. \A x \in ToSet(path) : graph.nodes[x].parent \in ToSet(path)
  BY <1>1, <1>2, RisingRefuses
<1>4. ToSet(path) \subseteq DOMAIN graph.nodes /\ NoId \notin DOMAIN graph.nodes
  BY <1>2 DEF Rising, ParentsOk
<1>5. Circling(graph.nodes)
  BY <1>1, <1>3, <1>4 DEF Circling
<1>6. WorldDone'
  BY <1>1, <1>5 DEF WorldDone
<1> QED BY <1>1, <1>6 DEF WorldRun

LEMMA WorldLeaves ==
  ASSUME GraphInv, WorldRun, LeaveWithWorld
  PROVE  WorldRun'
<1>1. PICK id : id = Head(pending).id
  OBVIOUS
<1>2. PICK above : above = {step \in ToSet(answer) : step.id = graph.nodes[id].parent}
  OBVIOUS
<1>3. PICK world : world = IF above = {} THEN << >> ELSE (CHOOSE step \in above : TRUE).path
  OBVIOUS
<1>4. /\ stage = "world" /\ stage' = "world" /\ pending # << >> /\ ~Head(pending).enters
      /\ answer' = Append(answer, Step(Append(world, id)))
      /\ seen' = seen \cup {id} /\ path' = Front(path) /\ pending' = Tail(pending)
      /\ scene' = scene /\ graph' = graph /\ query' = query
  BY <1>1, <1>2, <1>3 DEF LeaveWithWorld
<1>5. /\ IsGraph(graph.nodes) /\ ParentsOk(graph.nodes) /\ WorldRises
      /\ Rising(graph.nodes, pending, path, seen) /\ Worlds(graph.nodes, answer, seen)
      /\ pending[1] = Head(pending)
  BY <1>4, WorldTyped
<1>6. /\ Rising(graph.nodes, Tail(pending), Front(path), seen \cup {id})
      /\ id \in DOMAIN graph.nodes /\ id \notin seen /\ graph.nodes[id].parent \in {NoId} \cup seen
  <2>1. pending # << >> /\ ~pending[1].enters /\ id = pending[1].id
    BY <1>1, <1>4, <1>5
  <2> QED BY ONLY <1>5, <2>1, RisingLeaves
<1>7. Worlds(graph.nodes, Append(answer, Step(Append(world, id))), seen \cup {id})
  BY ONLY <1>2, <1>3, <1>5, <1>6, WorldsGrow
<1>8. WorldRises'
  BY <1>4, <1>5, <1>6, <1>7, StillValid DEF WorldRises
<1> QED BY <1>4, <1>8 DEF WorldRun

LEMMA WorldAnswered ==
  ASSUME GraphInv, VisitsRun, WorldRun, stage = "components" => query.name = "components", Answer
  PROVE  WorldRun'
<1>1. /\ pending = << >> /\ stage' = "answered" /\ scene' = scene /\ graph' = graph /\ query' = query
      /\ query.name = "world" => stage = "world" /\ answer' = answer
  BY DEF Answer, VisitsRun, Descends, Reaches, Wanders
<1>2. CASE stage = "world"
  <2>1. /\ IsGraph(graph.nodes) /\ WorldRises /\ Rising(graph.nodes, << >>, path, seen)
        /\ Worlds(graph.nodes, answer, seen)
    BY <1>1, <1>2, WorldTyped
  <2>2. DOMAIN graph.nodes \subseteq seen
    BY <2>1, RisingEnds
  <2>3. ASSUME NEW x \in seen PROVE x \in DOMAIN graph.nodes
    <3>1. PICK i \in 1..Len(answer) : x = answer[i].id /\ Rooted(graph.nodes, answer[i].id, answer[i].path)
      BY <2>1 DEF Worlds
    <3>2. PICK r : r = answer[i].path
      OBVIOUS
    <3>3. Climb(graph.nodes, x, r)
      BY <3>1, <3>2 DEF Rooted
    <3>4. Len(r) \in Nat \ {0} /\ r[Len(r)] = x /\ \A k \in 1..Len(r) : r[k] \in DOMAIN graph.nodes
      BY <3>3, ClimbFacts
    <3> QED BY <3>4
  <2>4. seen = Ids
    BY <2>2, <2>3 DEF Ids
  <2>5. NodesAreValid /\ ParentsOk(graph.nodes) /\ Worlds(graph.nodes, answer, Ids)
    BY <2>1, <2>4 DEF WorldRises
  <2>6. WorldDone'
    BY <1>1, <1>2, <2>1, <2>5, StillValid DEF WorldDone, WorldRises
  <2> QED BY <1>1, <2>6 DEF WorldRun
<1>3. CASE stage # "world"
  BY <1>1, <1>3 DEF WorldRun, WorldDone
<1> QED BY <1>2, <1>3

LEMMA WorldRunKept ==
  ASSUME GraphInv, Names, VisitsRun, WorldRun, stage = "components" => query.name = "components", Next
  PROVE  WorldRun'
<1>1. CASE ComputeWorldTransforms \/ EnterForWorld \/ SkipForWorld \/ RefuseWorld \/ LeaveWithWorld \/ Answer
  BY <1>1, WorldStarts, WorldEnters, WorldSkips, WorldRefuses, WorldLeaves, WorldAnswered
<1>2. CASE TopologicalNodeOrder
  BY <1>2 DEF TopologicalNodeOrder, WorldRun, WorldDone
<1>3. CASE ~(ComputeWorldTransforms \/ EnterForWorld \/ SkipForWorld \/ RefuseWorld \/ LeaveWithWorld \/ Answer
             \/ TopologicalNodeOrder)
  <2>1. stage' # "world" /\ stage' # "answered"
    BY <1>3 DEF Next, LinkNodes, MarkReachable, MarkNothing, CollectUnreachable, EnterForCycles,
           ReportCycle, SkipForCycles, Return, FinishGraph, TraverseDepthFirst, EnterDepthFirst,
           SkipDepthFirst, TraverseBreadthFirst, VisitBreadthFirst, DescendantsOf,
           ReachableFrom, VisitDescendant, SkipDescendant, VisitReachable, ConnectedComponents,
           StartComponent, VisitNeighbors, FinishComponent, Ask, Entering
  <2> QED BY <2>1 DEF WorldRun
<1> QED BY <1>1, <1>2, <1>3

(***************************************************************************)
(* Connected components.                                                   *)
(***************************************************************************)

(* The nodes that a link joins to a node, as VisitNeighbors follows them.  *)
Above(nodes, id) == {nodes[id].parent} \cap (DOMAIN nodes \ {NoId})
Beside(nodes, id) == (ToSet(ChildrenIn(nodes, id)) \cap DOMAIN nodes) \cup Above(nodes, id)

Together(nodes, S) == \A id \in S : Beside(nodes, id) \subseteq S
Unsplit(nodes, S) ==
  \A part : /\ part \subseteq S /\ part # {}
            /\ \A x, y \in S : y \in ToSet(ChildrenIn(nodes, x)) => (x \in part <=> y \in part)
            => part = S

Agree(nodes) ==
  \A id \in DOMAIN nodes : \A child \in ToSet(ChildrenIn(nodes, id)) :
    child \in DOMAIN nodes /\ nodes[child].parent = id

(* A node is among the children of its parent.                             *)
Listed(nodes) ==
  \A id \in DOMAIN nodes :
    nodes[id].parent \in DOMAIN nodes \ {NoId} => id \in ToSet(ChildrenIn(nodes, nodes[id].parent))

(* The components that are complete, and the one that is put together.     *)
In(found) == UNION {ToSet(found[i]) : i \in 1..Len(found)}
Apart(nodes, now, found, past) ==
  /\ found \in Seq(Seq(Nat)) /\ past = In(found) \cup now /\ past \subseteq DOMAIN nodes
  /\ now \cap In(found) = {}
  /\ \A i, j \in 1..Len(found) : i # j => ToSet(found[i]) \cap ToSet(found[j]) = {}
  /\ Unsplit(nodes, now)
  /\ \A i \in 1..Len(found) : Unsplit(nodes, ToSet(found[i]))
  /\ Agree(nodes) => \A i \in 1..Len(found) : Together(nodes, ToSet(found[i]))
  /\ NoId \in DOMAIN nodes => /\ past # {} => NoId \in past
                              /\ found # << >> => NoId \in In(found)
Parting(nodes, queue, part, found, past) ==
  /\ queue \in Seq(Nat) /\ part \in Seq(Nat)
  /\ Apart(nodes, ToSet(part) \cup ToSet(queue), found, past)
  /\ Agree(nodes) => \A id \in ToSet(part) : Beside(nodes, id) \subseteq ToSet(part) \cup ToSet(queue)

LEMMA OneIsUnsplit ==
  ASSUME NEW nodes, NEW S, NEW x, S = {x} \/ S = {}
  PROVE  Unsplit(nodes, S)
BY DEF Unsplit

LEMMA UnsplitGrows ==
  ASSUME NEW nodes, Listed(nodes), NEW S, Unsplit(nodes, S), NEW id \in S, id \in DOMAIN nodes,
         NEW more, more \subseteq Beside(nodes, id)
  PROVE  Unsplit(nodes, S \cup more)
<1> DEFINE all == S \cup more
           Cut(part, T) == \A x, y \in T : y \in ToSet(ChildrenIn(nodes, x)) => (x \in part <=> y \in part)
<1>1. SUFFICES ASSUME NEW part, part \subseteq all, part # {}, Cut(part, all) PROVE part = all
  BY DEF Unsplit
<1>2. \A y \in more : y \in ToSet(ChildrenIn(nodes, id)) \/ id \in ToSet(ChildrenIn(nodes, y))
  <2> SUFFICES ASSUME NEW y \in more, y \notin ToSet(ChildrenIn(nodes, id))
               PROVE  id \in ToSet(ChildrenIn(nodes, y))
    OBVIOUS
  <2>1. y = nodes[id].parent /\ y \in DOMAIN nodes \ {NoId}
    BY DEF Beside, Above
  <2> QED BY <2>1 DEF Listed
<1>3. \A y \in more : y \in part <=> id \in part
  BY <1>1, <1>2
<1>4. (part \cap S) # {} => S \subseteq part
  <2>1. ASSUME (part \cap S) # {} PROVE part \cap S = S
    <3>1. PICK half : half = part \cap S
      OBVIOUS
    <3>2. Cut(half, S)
      BY <1>1, <3>1
    <3>3. half \subseteq S /\ half # {}
      BY <2>1, <3>1
    <3> QED BY <3>1, <3>2, <3>3 DEF Unsplit
  <2> QED BY <2>1
<1>5. part \cap S # {}
  <2>1. CASE \E y \in more : y \in part
    BY <1>3, <2>1
  <2>2. CASE ~\E y \in more : y \in part
    BY <1>1, <2>2
  <2> QED BY <2>1, <2>2
<1>6. id \in part
  BY <1>4, <1>5
<1> QED BY <1>1, <1>3, <1>4, <1>5, <1>6

(* The neighbors of a node that is looked at.                              *)
LEMMA ApartGrows ==
  ASSUME NEW nodes, Listed(nodes), NEW now, NEW found, NEW past, Apart(nodes, now, found, past),
         NEW id \in now, NEW more, more = Beside(nodes, id) \ past
  PROVE  /\ Apart(nodes, now \cup more, found, past \cup more)
         /\ Agree(nodes) => Beside(nodes, id) \subseteq now \cup more
<1>1. /\ past = In(found) \cup now /\ past \subseteq DOMAIN nodes /\ now \cap In(found) = {}
      /\ Unsplit(nodes, now) /\ id \in DOMAIN nodes
      /\ Agree(nodes) => \A i \in 1..Len(found) : Together(nodes, ToSet(found[i]))
      /\ NoId \in DOMAIN nodes => /\ past # {} => NoId \in past
                                  /\ found # << >> => NoId \in In(found)
  BY DEF Apart
<1>2. more \subseteq DOMAIN nodes
  BY DEF Beside, Above
<1>3. Unsplit(nodes, now \cup more)
  BY <1>1, UnsplitGrows
<1>4. (now \cup more) \cap In(found) = {} /\ past \cup more = In(found) \cup (now \cup more)
  BY <1>1
<1>5. Apart(nodes, now \cup more, found, past \cup more)
  BY <1>1, <1>2, <1>3, <1>4 DEF Apart
<1>6. ASSUME Agree(nodes), NEW y \in Beside(nodes, id) PROVE y \in now \cup more
  <2>1. SUFFICES ASSUME y \in past, y \notin now PROVE FALSE
    OBVIOUS
  <2>2. PICK i \in 1..Len(found) : y \in ToSet(found[i])
    BY <1>1, <2>1 DEF In
  <2>3. Beside(nodes, y) \subseteq ToSet(found[i])
    BY <1>1, <1>6, <2>2 DEF Together
  <2>4. id \notin ToSet(found[i])
    BY <1>1 DEF In
  <2>5. id \notin Beside(nodes, y)
    BY <2>3, <2>4
  <2>6. CASE y \in ToSet(ChildrenIn(nodes, id))
    <3>1. nodes[y].parent = id
      BY <1>1, <1>6, <2>6 DEF Agree
    <3>2. id = NoId
      BY <1>1, <2>5, <3>1 DEF Beside, Above
    <3>3. found # << >>
      BY <2>2
    <3> QED BY <1>1, <3>2, <3>3
  <2>7. CASE y \notin ToSet(ChildrenIn(nodes, id))
    <3>1. y = nodes[id].parent /\ y \in DOMAIN nodes \ {NoId}
      BY <2>7 DEF Beside, Above
    <3>2. id \in ToSet(ChildrenIn(nodes, y))
      BY <1>1, <3>1 DEF Listed
    <3> QED BY <1>1, <2>5, <3>2 DEF Beside
  <2> QED BY <2>6, <2>7
<1> QED BY <1>5, <1>6

LEMMA PartingStarts ==
  ASSUME NEW nodes
  PROVE  Parting(nodes, << >>, << >>, << >>, {})
<1>1. << >> \in Seq(Nat) /\ << >> \in Seq(Seq(Nat)) /\ ToSet(<< >>) = {} /\ 1..Len(<< >>) = {}
  BY NoneInEmpty
<1>2. PICK none : none = << >>
  OBVIOUS
<1>3. In(none) = {}
  BY <1>1, <1>2 DEF In
<1>4. Unsplit(nodes, {})
  BY OneIsUnsplit
<1>5. Apart(nodes, {}, none, {})
  BY <1>1, <1>2, <1>3, <1>4 DEF Apart
<1> QED BY <1>1, <1>2, <1>5 DEF Parting

LEMMA PartingNext ==
  ASSUME NEW nodes, NEW found, NEW past, Parting(nodes, << >>, << >>, found, past),
         NEW id \in DOMAIN nodes \ past, IsGraph(nodes),
         past = {} /\ NoId \in DOMAIN nodes => id = NoId
  PROVE  Parting(nodes, <<id>>, << >>, found, past \cup {id})
<1>1. id \in Nat
  BY DEF IsGraph
<1>2. << >> \in Seq(Nat) /\ ToSet(<< >>) = {}
  BY NoneInEmpty
<1>3. PICK one : one = <<id>>
  OBVIOUS
<1>4. one \in Seq(Nat) /\ ToSet(one) = {id}
  <2>1. one \in Seq(Nat) /\ Len(one) = 1 /\ one[1] = id
    BY <1>1, <1>3
  <2>2. ToSet(one) = {one[i] : i \in 1..Len(one)}
    BY <2>1, ToSetOfSeq
  <2> QED BY ONLY <2>1, <2>2
<1>5. Apart(nodes, {}, found, past)
  BY <1>2 DEF Parting
<1>6. Apart(nodes, {id}, found, past \cup {id})
  <2>1. /\ found \in Seq(Seq(Nat)) /\ past = In(found) /\ past \subseteq DOMAIN nodes
        /\ \A i, j \in 1..Len(found) : i # j => ToSet(found[i]) \cap ToSet(found[j]) = {}
        /\ \A i \in 1..Len(found) : Unsplit(nodes, ToSet(found[i]))
        /\ Agree(nodes) => \A i \in 1..Len(found) : Together(nodes, ToSet(found[i]))
        /\ NoId \in DOMAIN nodes => /\ past # {} => NoId \in past
                                    /\ found # << >> => NoId \in In(found)
    BY <1>5 DEF Apart
  <2>2. Unsplit(nodes, {id})
    BY OneIsUnsplit
  <2>3. id \in DOMAIN nodes /\ id \notin In(found)
    BY <2>1
  <2>4. NoId \in DOMAIN nodes => /\ past \cup {id} # {} => NoId \in past \cup {id}
                                 /\ found # << >> => NoId \in In(found)
    BY <2>1
  <2>5. PICK now, all : now = {id} /\ all = past \cup {id}
    OBVIOUS
  <2>6. now \cap In(found) = {} /\ all = In(found) \cup now /\ all \subseteq DOMAIN nodes
    BY <2>1, <2>3, <2>5
  <2> QED BY <2>1, <2>2, <2>4, <2>5, <2>6 DEF Apart
<1>7. {} \cup {id} = {id} /\ \A x \in {} : FALSE
  OBVIOUS
<1> QED BY <1>2, <1>3, <1>4, <1>6, <1>7 DEF Parting

LEMMA PartingVisits ==
  ASSUME NEW nodes, IsGraph(nodes), Listed(nodes), NEW queue, NEW part, NEW found, NEW past,
         Parting(nodes, queue, part, found, past), queue # << >>, NEW id, id = Head(queue),
         NEW next \in Seq(Nat), ToSet(next) = Beside(nodes, id) \ past
  PROVE  Parting(nodes, Tail(queue) \o next, Append(part, id), found, past \cup ToSet(next))
<1>1. /\ queue \in Seq(Nat) /\ part \in Seq(Nat)
      /\ Apart(nodes, ToSet(part) \cup ToSet(queue), found, past)
      /\ Agree(nodes) => \A x \in ToSet(part) : Beside(nodes, x) \subseteq ToSet(part) \cup ToSet(queue)
  BY DEF Parting
<1>2. PICK rest : rest = Tail(queue)
  OBVIOUS
<1>3. rest \in Seq(Nat) /\ id \in Nat /\ ToSet(queue) = {id} \cup ToSet(rest)
  BY <1>1, <1>2, HeadAndTail
<1>4. PICK others, parts : others = rest \o next /\ parts = Append(part, id)
  OBVIOUS
<1>5. others \in Seq(Nat) /\ ToSet(others) = ToSet(rest) \cup ToSet(next)
  <2>1. rest \in Seq(Nat) /\ next \in Seq(Nat)
    BY <1>3
  <2>2. others = rest \o next
    BY <1>4
  <2>3. others \in Seq(Nat)
    BY ONLY <2>1, <2>2, ConcatPlaces
  <2>4. ToSet(others) = ToSet(rest) \cup ToSet(next)
    BY ONLY <2>1, <2>2, ToSetConcat
  <2> QED BY <2>3, <2>4
<1>6. parts \in Seq(Nat) /\ ToSet(parts) = ToSet(part) \cup {id}
  <2>1. part \in Seq(Nat) /\ id \in Nat
    BY <1>1, <1>3
  <2>2. parts = Append(part, id)
    BY <1>4
  <2>3. ToSet(parts) = ToSet(part) \cup {id}
    BY ONLY <2>1, <2>2, ToSetAppend
  <2>4. parts \in Seq(Nat)
    BY ONLY <2>1, <2>2, AppendProperties
  <2> QED BY <2>3, <2>4
<1>7. PICK now, more : now = ToSet(part) \cup ToSet(queue) /\ more = ToSet(next)
  OBVIOUS
<1>8. Apart(nodes, now, found, past) /\ id \in now /\ more = Beside(nodes, id) \ past
  BY <1>1, <1>3, <1>7
<1>9. /\ Apart(nodes, now \cup more, found, past \cup more)
      /\ Agree(nodes) => Beside(nodes, id) \subseteq now \cup more
  BY ONLY <1>8, Listed(nodes), ApartGrows
<1>10. ToSet(parts) \cup ToSet(others) = now \cup more
  BY <1>3, <1>5, <1>6, <1>7
<1>11. Agree(nodes) => \A x \in ToSet(parts) : Beside(nodes, x) \subseteq ToSet(parts) \cup ToSet(others)
  BY <1>1, <1>6, <1>7, <1>9, <1>10
<1>12. Parting(nodes, others, parts, found, past \cup more)
  BY <1>5, <1>6, <1>9, <1>10, <1>11 DEF Parting
<1> QED BY <1>2, <1>4, <1>7, <1>12

LEMMA PartingFinishes ==
  ASSUME NEW nodes, NEW part, NEW found, NEW past, Parting(nodes, << >>, part, found, past), part # << >>,
         NEW one \in Seq(Nat), ToSet(one) = ToSet(part)
  PROVE  Parting(nodes, << >>, << >>, Append(found, one), past)
<1>1. << >> \in Seq(Nat) /\ ToSet(<< >>) = {}
  BY NoneInEmpty
<1>2. PICK now : now = ToSet(part)
  OBVIOUS
<1>3. /\ part \in Seq(Nat) /\ Apart(nodes, now, found, past)
      /\ Agree(nodes) => Together(nodes, now)
  BY <1>1, <1>2 DEF Parting, Together
<1>4. /\ found \in Seq(Seq(Nat)) /\ past = In(found) \cup now /\ past \subseteq DOMAIN nodes
      /\ now \cap In(found) = {}
      /\ \A i, j \in 1..Len(found) : i # j => ToSet(found[i]) \cap ToSet(found[j]) = {}
      /\ Unsplit(nodes, now)
      /\ \A i \in 1..Len(found) : Unsplit(nodes, ToSet(found[i]))
      /\ Agree(nodes) => \A i \in 1..Len(found) : Together(nodes, ToSet(found[i]))
      /\ NoId \in DOMAIN nodes => (past # {} => NoId \in past)
  BY <1>3 DEF Apart
<1>5. PICK more : more = Append(found, one)
  OBVIOUS
<1>6. /\ more \in Seq(Seq(Nat)) /\ Len(more) = Len(found) + 1 /\ more[Len(found) + 1] = one
      /\ \A i \in 1..Len(found) : more[i] = found[i]
      /\ Len(found) \in Nat
  BY ONLY <1>4, <1>5, one \in Seq(Nat), AppendProperties, LenProperties
<1>7. \A i \in 1..Len(more) : \/ i \in 1..Len(found) /\ ToSet(more[i]) = ToSet(found[i])
                              \/ i = Len(found) + 1 /\ ToSet(more[i]) = now
  BY <1>2, <1>6
<1>8. In(more) = In(found) \cup now
  <2>1. \A i \in 1..Len(found) : i \in 1..Len(more) /\ ToSet(more[i]) = ToSet(found[i])
    BY <1>6
  <2>2. Len(found) + 1 \in 1..Len(more) /\ ToSet(more[Len(found) + 1]) = now
    BY <1>2, <1>6
  <2>3. \A x : x \in In(more) => x \in In(found) \cup now
    BY <1>7 DEF In
  <2>4. \A x : x \in In(found) \cup now => x \in In(more)
    BY <2>1, <2>2 DEF In
  <2> QED BY <2>3, <2>4
<1>9. \A i \in 1..Len(found) : ToSet(found[i]) \cap now = {}
  BY <1>4 DEF In
<1>10. ASSUME NEW i \in 1..Len(more), NEW j \in 1..Len(more), i # j
       PROVE  ToSet(more[i]) \cap ToSet(more[j]) = {}
  <2>1. CASE i \in 1..Len(found) /\ j \in 1..Len(found)
    BY <1>4, <1>6, <1>10, <2>1
  <2>2. CASE i \in 1..Len(found) /\ j = Len(found) + 1
    BY <1>2, <1>6, <1>9, <2>2
  <2>3. CASE i = Len(found) + 1 /\ j \in 1..Len(found)
    BY <1>2, <1>6, <1>9, <2>3
  <2> QED BY <1>7, <1>10, <2>1, <2>2, <2>3
<1>11. /\ \A i \in 1..Len(more) : Unsplit(nodes, ToSet(more[i]))
       /\ Agree(nodes) => \A i \in 1..Len(more) : Together(nodes, ToSet(more[i]))
  BY <1>3, <1>4, <1>7
<1>12. NoId \in DOMAIN nodes => NoId \in In(more)
  <2>1. now # {}
    <3>1. Head(part) \in ToSet(part)
      BY <1>3, HeadAndTail
    <3> QED BY <1>2, <3>1
  <2> QED BY <1>4, <1>8, <2>1
<1>13. Unsplit(nodes, {})
  BY OneIsUnsplit
<1>14. Apart(nodes, {}, more, past)
  BY <1>4, <1>6, <1>8, <1>10, <1>11, <1>12, <1>13 DEF Apart
<1>15. {} \cup {} = {} /\ \A x \in {} : FALSE
  OBVIOUS
<1> QED BY <1>1, <1>5, <1>14, <1>15 DEF Parting

(* What is wanted of a list, and the least of some ids.                    *)
LEMMA WantedIds ==
  ASSUME NEW ids \in Seq(Nat)
  PROVE  /\ Taken(ids, GraphContainsNode) \in Seq(Nat)
         /\ ToSet(Taken(ids, GraphContainsNode)) = ToSet(ids) \cap Ids
<1> DEFINE places == {i \in DOMAIN ids : GraphContainsNode(ids[i])}
<1>1. DOMAIN ids = 1..Len(ids) /\ ToSet(ids) = {ids[i] : i \in 1..Len(ids)} /\ Len(ids) \in Nat
  BY LenProperties, ToSetOfSeq
<1>2. places \in SUBSET (1..Len(ids))
  BY <1>1
<1>3. places \subseteq Nat /\ IsFiniteSet(places)
  <2>1. IsFiniteSet(1..Len(ids))
    BY <1>1, Interval
  <2> HIDE DEF places
  <2>2. IsFiniteSet(places)
    BY <1>2, <2>1, FS_Subset
  <2> QED BY <1>1, <1>2, <2>2
<1>4. Taken(ids, GraphContainsNode) = Picked(ids, places)
  <2>1. Taken(ids, GraphContainsNode) = [n \in DOMAIN SortUnique(places) |-> ids[SortUnique(places)[n]]]
    BY DEF Taken, Each
  <2> HIDE DEF places
  <2>2. SortUnique(places) \in Seq(places)
    BY <1>3, SortUniqueLists
  <2>3. DOMAIN SortUnique(places) = 1..Len(SortUnique(places))
    BY <2>2, LenProperties
  <2> QED BY <2>1, <2>3 DEF Picked
<1>5. ToSet(ids) \cap Ids = {ids[i] : i \in places}
  BY <1>1 DEF GraphContainsNode
<1> HIDE DEF places
<1> QED BY <1>2, <1>4, <1>5, PickedLists

LEMMA LeastFirst ==
  ASSUME NEW ids, ids \subseteq Nat, IsFiniteSet(ids), NEW least \in ids, \A x \in ids : least <= x
  PROVE  SortUnique(ids)[1] = least
<1>1. Cardinality(ids) \in Nat /\ Cardinality(ids) # 0
  BY FS_CardinalityType, FS_EmptySet
<1>2. 1 \in 1..Cardinality(ids)
  BY <1>1
<1>3. SortUnique(ids)[1] = CHOOSE id \in ids : Cardinality({other \in ids : other < id}) = 1 - 1
  BY <1>2 DEF SortUnique
<1>4. {other \in ids : other < least} = {}
  <2>1. ASSUME NEW x \in ids PROVE ~(x < least)
    <3>1. x \in Nat /\ least \in Nat /\ least <= x
      OBVIOUS
    <3> QED BY ONLY <3>1
  <2> QED BY <2>1
<1>5. Cardinality({other \in ids : other < least}) = 1 - 1
  BY <1>4, FS_EmptySet
<1>6. ASSUME NEW id \in ids, Cardinality({other \in ids : other < id}) = 1 - 1 PROVE id = least
  <2>1. PICK smaller : smaller = {other \in ids : other < id}
    OBVIOUS
  <2>2. smaller \in SUBSET ids
    BY <2>1
  <2>3. IsFiniteSet(smaller)
    BY <2>2, FS_Subset
  <2>4. Cardinality(smaller) = 0
    BY <1>6, <2>1
  <2>5. smaller = {}
    BY <2>3, <2>4, FS_EmptySet
  <2>6. ~(least < id)
    BY <2>1, <2>5
  <2> QED BY <2>6
<1> QED BY <1>3, <1>5, <1>6

(* The next component begins with a node that is in none, the first one    *)
(* with the least id.                                                      *)
LEMMA LeftHead ==
  ASSUME IsGraph(graph.nodes), NEW left, left = Unseen(SortUnique(Ids)), left # << >>
  PROVE  /\ Head(left) \in Ids \ seen
         /\ seen = {} /\ NoId \in Ids => Head(left) = NoId
<1>1. Ids \subseteq Nat /\ IsFiniteSet(Ids) /\ Ids = DOMAIN graph.nodes
  BY DEF IsGraph, Ids
<1>2. PICK ids : ids = SortUnique(Ids)
  OBVIOUS
<1>3. ids \in Seq(Ids) /\ ToSet(ids) = Ids /\ Len(ids) = Cardinality(Ids)
  BY <1>1, <1>2, SortUniqueLists
<1>4. ids \in Seq(Nat) /\ Len(ids) \in Nat /\ DOMAIN ids = 1..Len(ids)
  <2>1. Len(ids) \in Nat /\ ids \in [1..Len(ids) -> Ids]
    BY <1>3, LenProperties
  <2>2. ids \in [1..Len(ids) -> Nat]
    BY <1>1, <2>1
  <2> QED BY <2>1, <2>2, FunctionIsSeq
<1>5. left \in Seq(Nat) /\ ToSet(left) = Ids \ seen
  BY <1>2, <1>3, <1>4, UnseenIds
<1>6. Head(left) \in ToSet(left) /\ Head(left) = left[1] /\ Len(left) \in Nat \ {0}
  BY <1>5, HeadAndTail
<1>7. ASSUME seen = {}, NoId \in Ids PROVE Head(left) = NoId
  <2>1. PICK places : places = {i \in DOMAIN ids : ids[i] \notin seen}
    OBVIOUS
  <2>2. left = [n \in DOMAIN SortUnique(places) |-> ids[SortUnique(places)[n]]]
    BY <1>2, <2>1 DEF Unseen, Taken, Each
  <2>3. places = 1..Len(ids)
    BY <1>4, <1>7, <2>1
  <2>4. places \subseteq Nat /\ IsFiniteSet(places)
    BY <1>4, <2>3, Interval
  <2>5. 1 \in DOMAIN SortUnique(places)
    <3>1. DOMAIN left = DOMAIN SortUnique(places)
      BY <2>2
    <3>2. DOMAIN left = 1..Len(left)
      BY <1>5, LenProperties
    <3> QED BY <1>6, <3>1, <3>2
  <2>6. 1 \in places /\ \A x \in places : 1 <= x
    <3>1. Len(ids) # 0
      BY <1>1, <1>3, <1>7, FS_EmptySet
    <3> QED BY <1>4, <2>3, <3>1
  <2>7. SortUnique(places)[1] = 1
    BY <2>4, <2>6, LeastFirst
  <2>8. left[1] = ids[1]
    BY <2>2, <2>5, <2>7
  <2>9. NoId \in Ids /\ \A x \in Ids : NoId <= x
    BY <1>1, <1>7, GraphAssumption
  <2>10. SortUnique(Ids)[1] = NoId
    BY <1>1, <2>9, LeastFirst
  <2> QED BY <1>2, <1>6, <2>8, <2>10
<1> QED BY <1>5, <1>6, <1>7

(* VisitNeighbors looks at the nodes that are beside one.                  *)
LEMMA NeighborIds ==
  ASSUME IsGraph(graph.nodes), NEW id \in Ids, NEW parent, parent = graph.nodes[id].parent,
         NEW neighbors,
         neighbors = Children(id) \o IF parent \in ToSet(Children(id)) \cup {NoId} THEN << >> ELSE <<parent>>,
         NEW next, next = Unseen(Taken(neighbors, GraphContainsNode))
  PROVE  next \in Seq(Nat) /\ ToSet(next) = Beside(graph.nodes, id) \ seen
<1>1. PICK ids : ids = ChildrenIn(graph.nodes, id)
  OBVIOUS
<1>2. Children(id) = ids /\ ids \in Seq(Nat) /\ Ids = DOMAIN graph.nodes
  BY <1>1, LayersOfGraph, ChildrenTyped DEF Ids
<1>3. parent \in Nat
  BY <1>2 DEF IsGraph, Info
<1>4. PICK more : more = IF parent \in ToSet(ids) \cup {NoId} THEN << >> ELSE <<parent>>
  OBVIOUS
<1>5. more \in Seq(Nat) /\ ToSet(more) = {parent} \ (ToSet(ids) \cup {NoId})
  <2>1. CASE parent \in ToSet(ids) \cup {NoId}
    <3>1. more = << >> /\ << >> \in Seq(Nat)
      BY <1>4, <2>1
    <3> QED BY <2>1, <3>1, NoneInEmpty
  <2>2. CASE parent \notin ToSet(ids) \cup {NoId}
    <3>1. more = <<parent>>
      BY <1>4, <2>2
    <3>2. more \in Seq(Nat) /\ Len(more) = 1 /\ more[1] = parent
      BY <1>3, <3>1
    <3>3. ToSet(more) = {more[i] : i \in 1..Len(more)}
      BY <3>2, ToSetOfSeq
    <3>4. ToSet(more) = {parent}
      BY ONLY <3>2, <3>3
    <3> QED BY <2>2, <3>2, <3>4
  <2> QED BY <2>1, <2>2
<1>6. neighbors = ids \o more
  BY <1>2, <1>4
<1>7. neighbors \in Seq(Nat) /\ ToSet(neighbors) = ToSet(ids) \cup ToSet(more)
  BY ONLY <1>2, <1>5, <1>6, ConcatPlaces, ToSetConcat
<1>8. PICK wanted : wanted = Taken(neighbors, GraphContainsNode)
  OBVIOUS
<1>9. wanted \in Seq(Nat) /\ ToSet(wanted) = ToSet(neighbors) \cap Ids
  BY <1>7, <1>8, WantedIds
<1>10. next \in Seq(Nat) /\ ToSet(next) = ToSet(wanted) \ seen
  BY <1>8, <1>9, UnseenIds
<1>11. ToSet(wanted) = Beside(graph.nodes, id)
  BY <1>1, <1>2, <1>5, <1>7, <1>9 DEF Beside, Above
<1> QED BY <1>10, <1>11

PartsDone == Parting(graph.nodes, << >>, << >>, answer, Ids)

(* The components that are complete are classes of joined nodes.           *)
PartsRun ==
  /\ stage = "components" => query.name = "components" /\ Parting(graph.nodes, pending, path, answer, seen)
  /\ stage = "answered" /\ query.name = "components" => PartsDone

LEMMA ConsistentAgrees ==
  ASSUME GraphIsConsistent
  PROVE  Agree(graph.nodes)
BY LayersOfGraph DEF GraphIsConsistent, Agree, Ids

LEMMA TogetherIsJoined ==
  ASSUME IsGraph(graph.nodes), Agree(graph.nodes), NEW S, S \subseteq Ids, Together(graph.nodes, S),
         NEW id \in S
  PROVE  Below(id) \cup AncestorsOf(id) \subseteq S
<1>1. PICK nodes : nodes = graph.nodes
  OBVIOUS
<1>2. \A x \in S : x \in DOMAIN nodes /\ ToSet(ChildrenIn(nodes, x)) \subseteq S
  <2> SUFFICES ASSUME NEW x \in S, NEW y \in ToSet(ChildrenIn(nodes, x)) PROVE x \in DOMAIN nodes /\ y \in S
    BY <1>1 DEF Ids
  <2>1. x \in DOMAIN nodes
    BY <1>1 DEF Ids
  <2>2. y \in DOMAIN nodes
    BY <1>1, <2>1 DEF Agree
  <2>3. y \in Beside(nodes, x)
    BY <2>2 DEF Beside
  <2> QED BY <1>1, <2>1, <2>3 DEF Together
<1>3. Below(id) \subseteq S
  <2>1. Closed(nodes, S)
    BY <1>2 DEF Closed, Kids
  <2>2. Cardinality(DOMAIN nodes) + 1 \in Nat
    BY <1>1, FS_CardinalityType DEF IsGraph
  <2>3. Layer(nodes, ToSet(ChildrenIn(nodes, id)), Cardinality(DOMAIN nodes) + 1) \subseteq S
    BY <1>2, <2>1, <2>2, LayersWithin
  <2>4. BelowIn(nodes, id) \subseteq S
    BY <2>3 DEF BelowIn, ClosureIn
  <2> QED BY <1>1, <2>4, LayersOfGraph
<1>4. ToSet(PathToRoot(id)) \subseteq S
  <2>1. CASE id \in Ids \ {NoId}
    <3>1. PICK r : r = PathToRoot(id)
      OBVIOUS
    <3>2. Climb(nodes, id, r)
      BY <1>1, <2>1, <3>1, PathToRootClimbs
    <3>3. \A x \in S \cap DOMAIN nodes :
            nodes[x].parent \in DOMAIN nodes \ {NoId} => nodes[x].parent \in S
      BY <1>1 DEF Together, Beside, Above
    <3>4. IsGraph(nodes) /\ id \in S
      BY <1>1
    <3>5. ToSet(r) \subseteq S
      BY ONLY <3>2, <3>3, <3>4, ClimbWithin
    <3> QED BY <3>1, <3>5
  <2>2. CASE id \notin Ids \ {NoId}
    BY <2>2, PathToRootClimbs, NoneInEmpty
  <2> QED BY <2>1, <2>2
<1> QED BY <1>3, <1>4 DEF AncestorsOf

LEMMA UnsplitIsNotSplit ==
  ASSUME IsGraph(graph.nodes), NEW S, S \subseteq Ids, Unsplit(graph.nodes, S)
  PROVE  ~\E part \in SUBSET S :
            /\ part \notin {{}, S}
            /\ \A id \in part : Below(id) \subseteq part
            /\ \A id \in S \ part : Below(id) \cap part = {}
<1>1. PICK nodes : nodes = graph.nodes
  OBVIOUS
<1> SUFFICES ASSUME NEW part \in SUBSET S, part \notin {{}, S},
                    \A id \in part : Below(id) \subseteq part,
                    \A id \in S \ part : Below(id) \cap part = {}
             PROVE  FALSE
  OBVIOUS
<1>2. \A x : ToSet(ChildrenIn(nodes, x)) \subseteq Below(x)
  <2> SUFFICES ASSUME NEW x PROVE ToSet(ChildrenIn(nodes, x)) \subseteq Below(x)
    OBVIOUS
  <2>1. IsFiniteSet(DOMAIN nodes)
    BY <1>1 DEF IsGraph
  <2>2. ToSet(ChildrenIn(nodes, x)) \subseteq BelowIn(nodes, x)
    BY <2>1, ClosureFacts DEF BelowIn
  <2> QED BY <1>1, <2>2, LayersOfGraph
<1>3. \A x, y \in S : y \in ToSet(ChildrenIn(nodes, x)) => (x \in part <=> y \in part)
  <2> SUFFICES ASSUME NEW x \in S, NEW y \in S, y \in ToSet(ChildrenIn(nodes, x)) PROVE x \in part <=> y \in part
    OBVIOUS
  <2>1. y \in Below(x)
    BY <1>2
  <2> QED BY <2>1
<1>4. part \subseteq S /\ part # {} /\ part # S
  OBVIOUS
<1> QED BY <1>1, <1>3, <1>4 DEF Unsplit

LEMMA ComponentsRead ==
  ASSUME GraphInv, stage = "answered" /\ query.name = "components" => PartsDone
  PROVE  ComponentsExact
<1> DEFINE Whole(c) == \A id \in ToSet(c) : Below(id) \cup AncestorsOf(id) \subseteq ToSet(c)
           Split(c) == \E part \in SUBSET ToSet(c) :
                         /\ part \notin {{}, ToSet(c)}
                         /\ \A id \in part : Below(id) \subseteq part
                         /\ \A id \in ToSet(c) \ part : Below(id) \cap part = {}
<1> SUFFICES ASSUME stage = "answered", query.name = "components"
             PROVE  /\ \A id \in Ids : Cardinality({i \in DOMAIN answer : id \in ToSet(answer[i])}) = 1
                    /\ UNION {ToSet(c) : c \in ToSet(answer)} = Ids
                    /\ GraphIsConsistent => \A c \in ToSet(answer) : Whole(c) /\ ~Split(c)
  BY Zenon DEF ComponentsExact, Answered
<1>1. IsGraph(graph.nodes) /\ Ids = DOMAIN graph.nodes
  BY GraphTyped DEF Building
<1>2. Apart(graph.nodes, {}, answer, Ids)
  <2>1. ToSet(<< >>) \cup ToSet(<< >>) = {}
    BY NoneInEmpty
  <2> QED BY <2>1 DEF PartsDone, Parting
<1>3. /\ answer \in Seq(Seq(Nat)) /\ Ids = In(answer)
      /\ \A i, j \in 1..Len(answer) : i # j => ToSet(answer[i]) \cap ToSet(answer[j]) = {}
      /\ \A i \in 1..Len(answer) : Unsplit(graph.nodes, ToSet(answer[i]))
      /\ Agree(graph.nodes) => \A i \in 1..Len(answer) : Together(graph.nodes, ToSet(answer[i]))
  BY <1>2 DEF Apart
<1>4. /\ DOMAIN answer = 1..Len(answer) /\ ToSet(answer) = {answer[i] : i \in 1..Len(answer)}
  BY <1>3, LenProperties, ToSetOfSeq
<1>5. ASSUME NEW id \in Ids PROVE Cardinality({i \in DOMAIN answer : id \in ToSet(answer[i])}) = 1
  <2>1. PICK i \in 1..Len(answer) : id \in ToSet(answer[i])
    BY <1>3 DEF In
  <2>2. \A j \in 1..Len(answer) : id \in ToSet(answer[j]) => j = i
    BY <1>3, <2>1
  <2>3. {j \in DOMAIN answer : id \in ToSet(answer[j])} = {i}
    BY <1>4, <2>1, <2>2
  <2> QED BY <2>3, FS_Singleton
<1>6. UNION {ToSet(c) : c \in ToSet(answer)} = Ids
  BY <1>3, <1>4 DEF In
<1>7. ASSUME GraphIsConsistent, NEW c \in ToSet(answer) PROVE Whole(c) /\ ~Split(c)
  <2>1. PICK i \in 1..Len(answer) : c = answer[i]
    BY <1>4
  <2>2. PICK S : S = ToSet(c)
    OBVIOUS
  <2>3. S \subseteq Ids /\ Together(graph.nodes, S) /\ Unsplit(graph.nodes, S) /\ Agree(graph.nodes)
    <3>1. Agree(graph.nodes)
      BY <1>7, ConsistentAgrees
    <3> QED BY <1>3, <2>1, <2>2, <3>1 DEF In
  <2>4. Whole(c)
    BY <1>1, <2>2, <2>3, TogetherIsJoined
  <2>5. ~Split(c)
    <3>1. ~\E part \in SUBSET S : /\ part \notin {{}, S}
                                  /\ \A id \in part : Below(id) \subseteq part
                                  /\ \A id \in S \ part : Below(id) \cap part = {}
      BY <1>1, <2>3, UnsplitIsNotSplit
    <3> QED BY <2>2, <3>1
  <2> QED BY <2>4, <2>5
<1> QED BY <1>5, <1>6, <1>7

LEMMA PartsTyped ==
  ASSUME GraphInv, Names, PartsRun, stage = "components"
  PROVE  /\ IsGraph(graph.nodes) /\ Ids = DOMAIN graph.nodes /\ Listed(graph.nodes)
         /\ query.name = "components" /\ Parting(graph.nodes, pending, path, answer, seen)
<1>1. IsGraph(graph.nodes) /\ Ids = DOMAIN graph.nodes
  BY GraphTyped DEF Building
<1>2. Listed(graph.nodes)
  BY DEF Names, FromScene, Listed, ChildrenIn
<1> QED BY <1>1, <1>2 DEF PartsRun

LEMMA PartsStart ==
  ASSUME GraphInv, ConnectedComponents
  PROVE  PartsRun'
<1>1. /\ stage = "built" /\ stage' = "components" /\ query'.name = "components" /\ graph' = graph
      /\ pending' = << >> /\ path' = << >> /\ seen' = {} /\ answer' = << >>
  BY DEF ConnectedComponents, Ask, GraphInv, Idle
<1>2. Parting(graph.nodes, << >>, << >>, << >>, {})
  BY PartingStarts
<1> QED BY <1>1, <1>2 DEF PartsRun

LEMMA PartsNext ==
  ASSUME GraphInv, Names, PartsRun, StartComponent
  PROVE  PartsRun'
<1>1. PICK left : left = Unseen(SortUnique(Ids))
  OBVIOUS
<1>2. PICK id : id = Head(left)
  OBVIOUS
<1>3. /\ stage = "components" /\ stage' = stage /\ pending = << >> /\ path = << >> /\ left # << >>
      /\ pending' = <<id>> /\ seen' = seen \cup {id} /\ path' = path /\ answer' = answer
      /\ graph' = graph /\ query' = query
  BY <1>1, <1>2 DEF StartComponent
<1>4. /\ IsGraph(graph.nodes) /\ Ids = DOMAIN graph.nodes /\ query.name = "components"
      /\ Parting(graph.nodes, << >>, << >>, answer, seen)
  BY <1>3, PartsTyped
<1>5. id \in DOMAIN graph.nodes \ seen /\ (seen = {} /\ NoId \in DOMAIN graph.nodes => id = NoId)
  BY <1>1, <1>2, <1>3, <1>4, LeftHead
<1>6. Parting(graph.nodes, <<id>>, << >>, answer, seen \cup {id})
  BY ONLY <1>4, <1>5, PartingNext
<1> QED BY <1>3, <1>4, <1>6 DEF PartsRun

LEMMA PartsVisit ==
  ASSUME GraphInv, Names, PartsRun, VisitNeighbors
  PROVE  PartsRun'
<1>1. PICK id, parent : id = Head(pending) /\ parent = graph.nodes[id].parent
  OBVIOUS
<1>2. PICK neighbors :
        neighbors = Children(id) \o IF parent \in ToSet(Children(id)) \cup {NoId} THEN << >> ELSE <<parent>>
  OBVIOUS
<1>3. PICK next : next = Unseen(Taken(neighbors, GraphContainsNode))
  OBVIOUS
<1>4. /\ stage = "components" /\ stage' = stage /\ pending # << >>
      /\ path' = Append(path, id) /\ pending' = Tail(pending) \o next /\ seen' = seen \cup ToSet(next)
      /\ answer' = answer /\ graph' = graph /\ query' = query
  BY <1>1, <1>2, <1>3 DEF VisitNeighbors
<1>5. /\ IsGraph(graph.nodes) /\ Ids = DOMAIN graph.nodes /\ Listed(graph.nodes)
      /\ query.name = "components" /\ Parting(graph.nodes, pending, path, answer, seen)
  BY <1>4, PartsTyped
<1>6. id \in Ids
  <2>1. pending \in Seq(Nat) /\ ToSet(pending) \subseteq DOMAIN graph.nodes
    BY <1>5 DEF Parting, Apart
  <2>2. id \in ToSet(pending)
    BY <1>1, <1>4, <2>1, HeadAndTail
  <2> QED BY <1>5, <2>1, <2>2
<1>7. next \in Seq(Nat) /\ ToSet(next) = Beside(graph.nodes, id) \ seen
  <2>1. IsGraph(graph.nodes)
    BY <1>5
  <2> QED BY ONLY <1>1, <1>2, <1>3, <1>6, <2>1, NeighborIds
<1>8. Parting(graph.nodes, Tail(pending) \o next, Append(path, id), answer, seen \cup ToSet(next))
  <2>1. pending # << >> /\ id = Head(pending)
    BY <1>1, <1>4
  <2> QED BY ONLY <1>5, <1>7, <2>1, PartingVisits
<1> QED BY <1>4, <1>5, <1>8 DEF PartsRun

LEMMA PartsFinish ==
  ASSUME GraphInv, Names, PartsRun, FinishComponent
  PROVE  PartsRun'
<1>1. PICK one : one = SortUnique(ToSet(path))
  OBVIOUS
<1>2. /\ stage = "components" /\ stage' = stage /\ pending = << >> /\ path # << >>
      /\ answer' = Append(answer, one) /\ path' = << >> /\ pending' = pending /\ seen' = seen
      /\ graph' = graph /\ query' = query
  BY <1>1 DEF FinishComponent
<1>3. /\ IsGraph(graph.nodes) /\ query.name = "components"
      /\ Parting(graph.nodes, << >>, path, answer, seen)
  BY <1>2, PartsTyped
<1>4. one \in Seq(Nat) /\ ToSet(one) = ToSet(path)
  <2>1. PICK S : S = ToSet(path)
    OBVIOUS
  <2>2. S \in SUBSET DOMAIN graph.nodes
    BY <1>3, <2>1 DEF Parting, Apart
  <2>3. S \subseteq Nat /\ IsFiniteSet(S)
    BY <1>3, <2>2, FS_Subset DEF IsGraph
  <2>4. one \in Seq(S) /\ ToSet(one) = S
    BY <1>1, <2>1, <2>3, SortUniqueLists
  <2>5. Len(one) \in Nat /\ one \in [1..Len(one) -> S]
    BY <2>4, LenProperties
  <2>6. one \in [1..Len(one) -> Nat]
    BY <2>3, <2>5
  <2> QED BY <2>1, <2>4, <2>5, <2>6, FunctionIsSeq
<1>5. Parting(graph.nodes, << >>, << >>, Append(answer, one), seen)
  BY ONLY <1>2, <1>3, <1>4, PartingFinishes
<1> QED BY <1>2, <1>3, <1>5 DEF PartsRun

LEMMA PartsAnswered ==
  ASSUME GraphInv, Names, VisitsRun, WorldRun, PartsRun, Answer
  PROVE  PartsRun'
<1>1. /\ pending = << >> /\ path = << >> /\ stage' = "answered" /\ graph' = graph /\ query' = query
      /\ query.name = "components" => stage = "components" /\ answer' = answer /\ Ids \subseteq seen
  BY DEF Answer, VisitsRun, Descends, Reaches, Wanders, WorldRun, WorldRises
<1>2. CASE stage = "components"
  <2>1. /\ query.name = "components" /\ Ids = DOMAIN graph.nodes
        /\ Parting(graph.nodes, << >>, << >>, answer, seen)
    BY <1>1, <1>2, PartsTyped
  <2>2. seen = Ids
    BY <1>1, <2>1 DEF Parting, Apart
  <2>3. PartsDone'
    BY <1>1, <1>2, <2>1, <2>2, Unmoved DEF PartsDone
  <2> QED BY <1>1, <2>3 DEF PartsRun
<1>3. CASE stage # "components"
  BY <1>1, <1>3 DEF PartsRun
<1> QED BY <1>2, <1>3

LEMMA PartsRunKept ==
  ASSUME GraphInv, Names, VisitsRun, WorldRun, PartsRun, Next
  PROVE  PartsRun'
<1>1. CASE ConnectedComponents \/ StartComponent \/ VisitNeighbors \/ FinishComponent \/ Answer
  BY <1>1, PartsStart, PartsNext, PartsVisit, PartsFinish, PartsAnswered
<1>2. CASE TopologicalNodeOrder
  BY <1>2 DEF TopologicalNodeOrder, PartsRun
<1>3. CASE ComputeWorldTransforms
  <2>1. query'.name = "world" /\ stage' # "components"
    BY <1>3 DEF ComputeWorldTransforms
  <2> QED BY <2>1 DEF PartsRun
<1>4. CASE RefuseWorld
  <2>1. query.name = "world" /\ query' = query /\ stage' = "answered"
    BY <1>4 DEF RefuseWorld, Entering, WorldRun, WorldRises
  <2> QED BY <2>1 DEF PartsRun
<1>5. CASE ~(ConnectedComponents \/ StartComponent \/ VisitNeighbors \/ FinishComponent \/ Answer
             \/ TopologicalNodeOrder \/ ComputeWorldTransforms \/ RefuseWorld)
  <2>1. stage' # "components" /\ stage' # "answered"
    BY <1>5 DEF Next, LinkNodes, MarkReachable, MarkNothing, CollectUnreachable, EnterForCycles,
           ReportCycle, SkipForCycles, Return, FinishGraph, TraverseDepthFirst, EnterDepthFirst,
           SkipDepthFirst, TraverseBreadthFirst, VisitBreadthFirst, DescendantsOf,
           ReachableFrom, VisitDescendant, SkipDescendant, VisitReachable,
           EnterForWorld, SkipForWorld, LeaveWithWorld, Ask, Entering
  <2> QED BY <2>1 DEF PartsRun
<1> QED BY <1>1, <1>2, <1>3, <1>4, <1>5

-----------------------------------------------------------------------------
(* What the query that runs has found, and what it has answered.           *)
AnswerInv == GraphInv /\ Names /\ VisitsRun /\ WorldRun /\ PartsRun

LEMMA AnswerInvKept == AnswerInv /\ [Next]_vars => AnswerInv'
<1> SUFFICES ASSUME AnswerInv, [Next]_vars PROVE AnswerInv'
  OBVIOUS
<1>1. GraphInv'
  BY GraphInvKept DEF AnswerInv
<1>2. CASE UNCHANGED vars
  <2>1. /\ scene' = scene /\ graph' = graph /\ stage' = stage /\ query' = query
        /\ pending' = pending /\ path' = path /\ seen' = seen /\ answer' = answer
    BY <1>2 DEF vars
  <2>2. Names'
    BY <2>1 DEF AnswerInv, Names
  <2>3. VisitsRun'
    <3>1. VisitsDone => VisitsDone'
      BY <2>1, UnmovedLayers
    <3>2. (Wanders => Wanders') /\ (Spreads => Spreads') /\ (Descends => Descends') /\ (Reaches => Reaches')
      BY <2>1, Unmoved DEF Wanders, Spreads, Descends, Reaches
    <3> QED BY <2>1, <3>1, <3>2 DEF AnswerInv, VisitsRun
  <2>4. WorldRun'
    <3>1. WorldRises => WorldRises'
      BY <2>1, StillValid DEF WorldRises
    <3>2. WorldDone => WorldDone'
      BY <2>1, StillValid DEF WorldDone
    <3> QED BY <2>1, <3>1, <3>2 DEF AnswerInv, WorldRun
  <2>5. PartsRun'
    BY <2>1, Unmoved DEF AnswerInv, PartsRun, PartsDone
  <2> QED BY <1>1, <2>2, <2>3, <2>4, <2>5 DEF AnswerInv
<1>3. CASE Next
  <2>1. /\ stage = "components" => query.name = "components"
        /\ stage = "world" => query.name = "world"
    BY DEF AnswerInv, PartsRun, WorldRun, WorldRises
  <2>2. Names'
    BY <1>3, NamesKept DEF AnswerInv
  <2>3. VisitsRun'
    BY <1>3, <2>1, VisitsRunKept DEF AnswerInv
  <2>4. WorldRun'
    BY <1>3, <2>1, WorldRunKept DEF AnswerInv
  <2>5. PartsRun'
    BY <1>3, PartsRunKept DEF AnswerInv
  <2> QED BY <1>1, <2>2, <2>3, <2>4, <2>5 DEF AnswerInv
<1> QED BY <1>2, <1>3

(* The queries keep what they have found right at every step.              *)
THEOREM AnswerInvHolds == Spec => []AnswerInv
<1>1. Init /\ GraphInv => AnswerInv
  BY DEF Init, AnswerInv, Names, VisitsRun, WorldRun, PartsRun
<1> QED BY <1>1, GraphInvHolds, AnswerInvKept, PTL DEF Spec

(* The traversals, the searches, the connected components and the world    *)
(* transforms answer right, whatever the nodes and their links.            *)
THEOREM AnswersAlwaysExact == Spec => []AnswersExact
<1>1. AnswerInv => AnswersExact
  <2> SUFFICES ASSUME AnswerInv PROVE AnswersExact
    OBVIOUS
  <2>1. TraversalsExact /\ SearchesExact
    BY TraversalsRead, SearchesRead DEF AnswerInv, VisitsRun
  <2>2. ComponentsExact
    BY ComponentsRead DEF AnswerInv, PartsRun
  <2>3. WorldExact
    BY WorldRead DEF AnswerInv, WorldRun
  <2> QED BY <2>1, <2>2, <2>3 DEF AnswersExact
<1> QED BY <1>1, AnswerInvHolds, PTL

(***************************************************************************)
(* Depths counted upwards.                                                 *)
(***************************************************************************)

(* A walk that has come to its end.                                        *)
Walked(nodes, id, s) == Climbed(nodes, id, s) /\ Stopped(nodes, id, s)

LEMMA WalkedFacts ==
  ASSUME NEW nodes, IsGraph(nodes), NEW id, NEW s, Walked(nodes, id, s)
  PROVE  /\ s \in Seq(Nat) /\ Len(s) \in Nat /\ ToSet(s) = {s[i] : i \in 1..Len(s)}
         /\ id \notin DOMAIN nodes \ {NoId} => Len(s) = 0
         /\ id \in DOMAIN nodes \ {NoId} =>
              /\ Len(s) > 0 /\ s[1] = id
              /\ nodes[s[Len(s)]].parent \notin DOMAIN nodes \ ({NoId} \cup ToSet(s))
         /\ \A i \in 1..Len(s) : s[i] \in DOMAIN nodes \ {NoId}
         /\ \A i, j \in 1..Len(s) : s[i] = s[j] => i = j
         /\ \A i \in 1..Len(s) - 1 : s[i + 1] = nodes[s[i]].parent
<1>1. s \in Seq(Nat) /\ Len(s) \in Nat /\ ToSet(s) = {s[i] : i \in 1..Len(s)} /\ ToSet(s) \subseteq DOMAIN nodes \ {NoId}
  BY ToSetOfSeq, LenProperties DEF Walked, Climbed
<1>2. /\ \A i, j \in 1..Len(s) : s[i] = s[j] => i = j
      /\ \A i \in 1..Len(s) - 1 : s[i + 1] = nodes[s[i]].parent
  BY DEF Walked, Climbed, NoRepeats
<1>3. \A i \in 1..Len(s) : s[i] \in DOMAIN nodes \ {NoId}
  BY <1>1
<1>4. ASSUME s # << >> PROVE /\ Len(s) > 0 /\ s[1] = id /\ id \in DOMAIN nodes \ {NoId}
                             /\ nodes[s[Len(s)]].parent \notin DOMAIN nodes \ ({NoId} \cup ToSet(s))
  <2>1. Len(s) > 0
    BY <1>1, <1>4, EmptySeq
  <2>2. s[1] = id
    BY <1>4 DEF Walked, Climbed
  <2>3. 1 \in 1..Len(s)
    BY <1>1, <2>1
  <2>4. Last(s) = s[Len(s)]
    BY DEF Last
  <2>5. nodes[s[Len(s)]].parent \notin DOMAIN nodes \ ({NoId} \cup ToSet(s))
    BY <1>4, <2>4 DEF Walked, Stopped, NextUp
  <2> QED BY <1>3, <2>1, <2>2, <2>3, <2>5
<1>5. ASSUME s = << >> PROVE Len(s) = 0 /\ id \notin DOMAIN nodes \ {NoId}
  <2>1. NextUp(nodes, id, s) = id
    BY <1>5 DEF NextUp
  <2>2. ToSet(s) = {}
    BY <1>5, NoneInEmpty
  <2> QED BY <1>5, <2>1, <2>2 DEF Walked, Stopped
<1> QED BY <1>1, <1>2, <1>3, <1>4, <1>5

(* The walk from the parent of a node goes the same way.  It is one node   *)
(* shorter, unless the node is on a cycle, where it ends with the node.    *)
LEMMA UpFromParent ==
  ASSUME NEW nodes, IsGraph(nodes), NoId \notin DOMAIN nodes, NEW id \in DOMAIN nodes,
         NEW w, Walked(nodes, id, w), NEW m, Walked(nodes, nodes[id].parent, m)
  PROVE  /\ Len(m) = Len(w) - 1 \/ Len(m) = Len(w)
         /\ nodes[w[Len(w)]].parent \notin DOMAIN nodes => Len(m) = Len(w) - 1
         /\ ToSet(m) \subseteq ToSet(w)
<1> DEFINE D == DOMAIN nodes
           L == Len(w)
           K == Len(m)
           p == nodes[id].parent
           S == {k \in 0..L - 1 : k = 0 \/ k > K \/ m[k] = w[k + 1]}
<1>1. /\ L \in Nat \ {0} /\ w[1] = id /\ ToSet(w) = {w[i] : i \in 1..L}
      /\ nodes[w[L]].parent \notin D \ ToSet(w)
      /\ \A i \in 1..L : w[i] \in D
      /\ \A i, j \in 1..L : w[i] = w[j] => i = j
      /\ \A i \in 1..L - 1 : w[i + 1] = nodes[w[i]].parent
  BY WalkedFacts
<1>2. /\ K \in Nat /\ ToSet(m) = {m[i] : i \in 1..K}
      /\ p \notin D => K = 0
      /\ p \in D => K > 0 /\ m[1] = p /\ nodes[m[K]].parent \notin D \ ToSet(m)
      /\ \A i \in 1..K : m[i] \in D
      /\ \A i, j \in 1..K : m[i] = m[j] => i = j
      /\ \A i \in 1..K - 1 : m[i + 1] = nodes[m[i]].parent
  BY WalkedFacts
<1> HIDE DEF L, K, D
<1>3. 0 \in S
  BY <1>1
<1>4. ASSUME NEW k \in 0..(L - 1) - 1, k \in S PROVE k + 1 \in S
  <2>1. k + 1 \in 0..L - 1 /\ k + 1 \in 1..L - 1
    BY <1>1
  <2>2. CASE k + 1 > K
    BY <2>1, <2>2
  <2>3. CASE k + 1 <= K
    <3>1. CASE k = 0
      <4>1. 1 \in 1..L - 1 /\ 1 \in 1..L /\ k + 1 = 1 /\ 1 + 1 = (k + 1) + 1
        BY <1>1, <2>1, <3>1
      <4>2. w[(k + 1) + 1] = p
        BY <1>1, <4>1
      <4>3. m[k + 1] = p
        BY <1>2, <2>3, <4>1
      <4> QED BY <2>1, <4>2, <4>3
    <3>2. CASE k # 0
      <4>1. m[k] = w[k + 1] /\ k \in 1..K - 1
        BY <1>2, <1>4, <2>3, <3>2
      <4>2. m[k + 1] = nodes[m[k]].parent
        BY <1>2, <4>1
      <4>3. w[(k + 1) + 1] = nodes[w[k + 1]].parent
        BY <1>1, <2>1
      <4> QED BY <2>1, <4>1, <4>2, <4>3
    <3> QED BY <3>1, <3>2
  <2> QED BY <1>2, <2>1, <2>2, <2>3
<1>5. \A k \in 0..L - 1 : k \in S
  <2> HIDE DEF S
  <2>1. L - 1 \in Nat
    BY <1>1
  <2> QED BY <1>3, <1>4, <2>1, BoundedInduction
<1>6. \A k \in 1..L - 1 : k <= K => m[k] = w[k + 1]
  BY <1>1, <1>2, <1>5
<1> HIDE DEF S
<1>7. ~(K < L - 1)
  <2> SUFFICES ASSUME K < L - 1 PROVE FALSE
    OBVIOUS
  <2>1. K + 1 \in 1..L - 1 /\ (K + 1) + 1 \in 1..L
    BY <1>1, <1>2
  <2>2. 1 \in 1..L - 1 /\ 1 + 1 \in 1..L
    BY <1>1, <2>1
  <2>3. p \in D
    BY <1>1, <2>2
  <2>4. K \in 1..L - 1 /\ m[K] = w[K + 1]
    BY <1>1, <1>2, <1>6, <2>3
  <2>5. nodes[m[K]].parent = w[(K + 1) + 1]
    BY <1>1, <2>1, <2>4
  <2>6. w[(K + 1) + 1] \in ToSet(m)
    BY <1>1, <1>2, <2>1, <2>3, <2>5
  <2>7. PICK j \in 1..K : w[(K + 1) + 1] = m[j]
    BY <1>2, <2>6
  <2>8. m[j] = w[j + 1] /\ j + 1 \in 1..L /\ j + 1 # (K + 1) + 1
    BY <1>1, <1>2, <1>6, <2>4
  <2> QED BY <1>1, <2>1, <2>7, <2>8
<1>8. ASSUME K >= L PROVE m[L] = nodes[w[L]].parent /\ m[L] = id
  <2>1. p \in D
    BY <1>1, <1>2, <1>8
  <2>2. m[L] = nodes[w[L]].parent
    <3>1. CASE L = 1
      BY <1>1, <1>2, <2>1, <3>1
    <3>2. CASE L # 1
      <4>1. L - 1 \in 1..L - 1 /\ L - 1 <= K /\ (L - 1) + 1 = L /\ L - 1 \in 1..K - 1
        BY <1>1, <1>2, <1>8, <3>2
      <4>2. m[L - 1] = w[L]
        BY <1>6, <4>1
      <4>3. m[L] = nodes[m[L - 1]].parent
        BY <1>2, <4>1
      <4> QED BY <4>2, <4>3
    <3> QED BY <3>1, <3>2
  <2>3. L \in 1..K /\ m[L] \in D
    BY <1>1, <1>2, <1>8
  <2>4. PICK j \in 1..L : m[L] = w[j]
    BY <1>1, <2>2, <2>3
  <2>5. j = 1
    <3> SUFFICES ASSUME j # 1 PROVE FALSE
      OBVIOUS
    <3>1. j - 1 \in 1..L - 1 /\ j - 1 <= K /\ (j - 1) + 1 = j /\ j - 1 \in 1..K /\ j - 1 # L
      BY <1>1, <1>2, <1>8
    <3>2. m[j - 1] = w[j]
      BY <1>6, <3>1
    <3> QED BY <1>2, <2>3, <2>4, <3>1, <3>2
  <2> QED BY <1>1, <2>2, <2>4, <2>5
<1>9. ~(K > L)
  <2> SUFFICES ASSUME K > L PROVE FALSE
    OBVIOUS
  <2>1. L \in 1..K - 1 /\ 1 \in 1..K /\ L + 1 \in 1..K /\ L + 1 # 1 /\ K >= L
    BY <1>1, <1>2
  <2>2. m[L + 1] = p
    BY <1>2, <1>8, <2>1
  <2>3. m[1] = p
    BY <1>2, <2>1
  <2> QED BY <1>2, <2>1, <2>2, <2>3
<1>10. K = L - 1 \/ K = L
  BY <1>1, <1>2, <1>7, <1>9
<1>11. nodes[w[L]].parent \notin D => K = L - 1
  <2>1. ASSUME K = L PROVE nodes[w[L]].parent \in D
    <3>1. L \in 1..K /\ K >= L
      BY <1>1, <2>1
    <3> QED BY <1>2, <1>8, <3>1
  <2> QED BY <1>10, <2>1
<1>12. ASSUME NEW k \in 1..K PROVE m[k] \in ToSet(w)
  <2>1. CASE k = L
    <3>1. m[k] = w[1] /\ 1 \in 1..L
      BY <1>1, <1>2, <1>8, <2>1
    <3> QED BY <1>1, <3>1
  <2>2. CASE k # L
    <3>1. k \in 1..L - 1 /\ k <= K /\ k + 1 \in 1..L
      BY <1>1, <1>2, <1>10, <2>2
    <3>2. m[k] = w[k + 1]
      BY <1>6, <3>1
    <3> QED BY <1>1, <3>1, <3>2
  <2> QED BY <2>1, <2>2
<1>13. ToSet(m) \subseteq ToSet(w)
  BY <1>2, <1>12
<1> QED BY <1>10, <1>11, <1>13 DEF D, L, K

(* The places of a cursor that goes on from one that it has not met, or    *)
(* that is missing.                                                        *)
Followed(nodes, id, s) ==
  /\ s \in Seq(Nat) /\ s # << >> /\ s[1] = id
  /\ \A i \in 1..Len(s) - 1 :
       s[i] \in DOMAIN nodes /\ s[i + 1] = nodes[s[i]].parent /\ s[i + 1] # NoId
  /\ \A i, j \in 1..Len(s) - 1 : s[i] = s[j] => i = j
Proceeds(nodes, s) == Last(s) \in DOMAIN nodes \ ToSet(Front(s)) /\ nodes[Last(s)].parent # NoId
Proceed(nodes, s) == IF Proceeds(nodes, s) THEN Append(s, nodes[Last(s)].parent) ELSE s

IsCursor(f, nodes, id, n) ==
  f = [k \in 0..n |-> IF k = 0 THEN <<id>> ELSE Proceed(nodes, f[k - 1])]

LEMMA CursorExists ==
  ASSUME NEW nodes, IsGraph(nodes), NEW id \in Nat, NEW n \in Nat
  PROVE  \E f : IsCursor(f, nodes, id, n)
<1> DEFINE V == Seq(Nat)
           step == [p \in V \X (1..n) |-> Proceed(nodes, p[1])]
<1>1. ASSUME NEW s \in V PROVE Proceed(nodes, s) \in V
  <2>1. PICK last : last = Last(s)
    OBVIOUS
  <2>2. last \in DOMAIN nodes => Append(s, nodes[last].parent) \in V
    BY AppendProperties DEF IsGraph, Info
  <2> QED BY <2>1, <2>2 DEF Proceed, Proceeds
<1>2. step \in [V \X (1..n) -> V]
  BY <1>1
<1>3. <<id>> \in V
  OBVIOUS
<1>4. PICK f : IsRecursive(f, n, V, <<id>>, step)
  <2> HIDE DEF step, V
  <2> QED BY <1>2, <1>3, RecursionUp
<1>5. f \in [0..n -> V] /\ f[0] = <<id>>
  BY <1>4 DEF IsRecursive
<1>6. ASSUME NEW k \in 1..n PROVE f[k] = Proceed(nodes, f[k - 1])
  <2>1. k - 1 \in 0..n
    OBVIOUS
  <2>2. f[k] = step[<<f[k - 1], k>>] /\ f[k - 1] \in V
    BY <1>4, <2>1 DEF IsRecursive
  <2> HIDE DEF V
  <2> QED BY <2>2
<1> HIDE DEF V
<1>7. \A k \in 0..n : k = 0 \/ k \in 1..n
  OBVIOUS
<1> QED BY <1>5, <1>6, <1>7 DEF IsCursor

LEMMA FollowedOn ==
  ASSUME NEW nodes, IsGraph(nodes), NEW id, NEW s, Followed(nodes, id, s), Proceeds(nodes, s)
  PROVE  Followed(nodes, id, Proceed(nodes, s)) /\ Len(Proceed(nodes, s)) = Len(s) + 1
<1>1. PICK last, t : last = s[Len(s)] /\ t = Proceed(nodes, s)
  OBVIOUS
<1>2. /\ s \in Seq(Nat) /\ Len(s) \in Nat \ {0} /\ s[1] = id
      /\ \A i \in 1..Len(s) - 1 :
           s[i] \in DOMAIN nodes /\ s[i + 1] = nodes[s[i]].parent /\ s[i + 1] # NoId
      /\ \A i, j \in 1..Len(s) - 1 : s[i] = s[j] => i = j
  BY EmptySeq, LenProperties DEF Followed
<1>3. /\ last \in DOMAIN nodes /\ nodes[last].parent # NoId /\ nodes[last].parent \in Nat
      /\ t = Append(s, nodes[last].parent) /\ last \notin ToSet(Front(s))
  BY <1>1 DEF Proceeds, Proceed, Last, IsGraph, Info
<1>4. \A i \in 1..Len(s) - 1 : s[i] # last
  <2>1. s # << >>
    BY DEF Followed
  <2>2. /\ Front(s) \in Seq(Nat) /\ Len(Front(s)) = Len(s) - 1
        /\ \A i \in 1..Len(s) - 1 : Front(s)[i] = s[i]
    BY <1>2, <2>1, FrontOfPath
  <2>3. \A i \in 1..Len(s) - 1 : s[i] \in ToSet(Front(s))
    BY <2>2, ToSetOfSeq
  <2> QED BY <1>3, <2>3
<1>5. /\ t \in Seq(Nat) /\ Len(t) = Len(s) + 1 /\ t[Len(s) + 1] = nodes[last].parent
      /\ \A i \in 1..Len(s) : t[i] = s[i]
  BY <1>2, <1>3, AppendProperties
<1>6. t # << >> /\ t[1] = id
  <2>1. 1 \in 1..Len(s) /\ Len(t) # 0
    BY <1>2, <1>5
  <2>2. Len(<< >>) = 0
    OBVIOUS
  <2> QED BY <1>2, <1>5, <2>1, <2>2
<1>7. ASSUME NEW i \in 1..Len(s)
      PROVE  t[i] \in DOMAIN nodes /\ t[i + 1] = nodes[t[i]].parent /\ t[i + 1] # NoId
  <2>1. CASE i = Len(s)
    BY <1>1, <1>2, <1>3, <1>5, <2>1
  <2>2. CASE i # Len(s)
    <3>1. i \in 1..Len(s) - 1 /\ i + 1 \in 1..Len(s)
      BY <1>2, <2>2
    <3> QED BY <1>2, <1>5, <3>1
  <2> QED BY <2>1, <2>2
<1>8. ASSUME NEW i \in 1..Len(s), NEW j \in 1..Len(s), t[i] = t[j] PROVE i = j
  <2>1. s[i] = s[j]
    BY <1>5, <1>8
  <2>2. \A k \in 1..Len(s) : k = Len(s) \/ k \in 1..Len(s) - 1
    BY <1>2
  <2>3. CASE i = Len(s)
    BY <1>1, <1>4, <2>1, <2>2, <2>3
  <2>4. CASE j = Len(s)
    BY <1>1, <1>4, <2>1, <2>2, <2>4
  <2> QED BY <1>2, <2>1, <2>2, <2>3, <2>4
<1>9. Len(t) - 1 = Len(s)
  BY <1>2, <1>5
<1>10. Followed(nodes, id, t)
  BY <1>5, <1>6, <1>7, <1>8, <1>9 DEF Followed
<1> QED BY <1>1, <1>5, <1>10

(* The cursor has come to its end after as many rounds as there are nodes. *)
LEMMA CursorEnds ==
  ASSUME NEW nodes, IsGraph(nodes), NEW id \in Nat, NEW f, IsCursor(f, nodes, id, Cardinality(DOMAIN nodes))
  PROVE  /\ Followed(nodes, id, f[Cardinality(DOMAIN nodes)])
         /\ ~Proceeds(nodes, f[Cardinality(DOMAIN nodes)])
<1> DEFINE n == Cardinality(DOMAIN nodes)
           S == {k \in 0..n : Followed(nodes, id, f[k]) /\ (~Proceeds(nodes, f[k]) \/ Len(f[k]) = k + 1)}
<1>1. n \in Nat /\ IsFiniteSet(DOMAIN nodes)
  BY FS_CardinalityType DEF IsGraph
<1>2. 0 \in S
  <2>1. f[0] = <<id>> /\ 0 \in 0..n
    BY <1>1 DEF IsCursor
  <2>2. PICK one : one = <<id>>
    OBVIOUS
  <2>3. one \in Seq(Nat) /\ Len(one) = 1 /\ one[1] = id /\ one # << >>
    BY <2>2
  <2>4. Followed(nodes, id, one)
    BY <2>3 DEF Followed
  <2> QED BY <2>1, <2>2, <2>3, <2>4
<1>3. ASSUME NEW k \in 0..n - 1, k \in S PROVE k + 1 \in S
  <2>1. k + 1 \in 0..n /\ f[k + 1] = Proceed(nodes, f[k])
    BY <1>1 DEF IsCursor
  <2>2. CASE ~Proceeds(nodes, f[k])
    <3>1. f[k + 1] = f[k]
      BY <2>1, <2>2 DEF Proceed
    <3> QED BY <1>3, <2>1, <2>2, <3>1
  <2>3. CASE Proceeds(nodes, f[k])
    <3>1. Followed(nodes, id, f[k]) /\ Len(f[k]) = k + 1
      BY <1>3, <2>3
    <3>2. Followed(nodes, id, f[k + 1]) /\ Len(f[k + 1]) = (k + 1) + 1
      BY <2>1, <2>3, <3>1, FollowedOn
    <3> QED BY <2>1, <3>2
  <2> QED BY <2>2, <2>3
<1>4. n \in S
  <2> HIDE DEF S, n
  <2>1. \A k \in 0..n : k \in S
    BY <1>1, <1>2, <1>3, BoundedInduction
  <2> QED BY <1>1, <2>1
<1>5. PICK s : s = f[n]
  OBVIOUS
<1>6. Followed(nodes, id, s) /\ (~Proceeds(nodes, s) \/ Len(s) = n + 1)
  BY <1>4, <1>5
<1>7. ASSUME Len(s) = n + 1 PROVE ~Proceeds(nodes, s)
  <2>1. /\ s \in Seq(Nat) /\ s # << >>
        /\ \A i \in 1..Len(s) - 1 : s[i] \in DOMAIN nodes
        /\ \A i, j \in 1..Len(s) - 1 : s[i] = s[j] => i = j
    BY <1>6 DEF Followed
  <2>2. PICK front : front = Front(s)
    OBVIOUS
  <2>3. front \in Seq(Nat) /\ Len(front) = n /\ \A i \in 1..n : front[i] = s[i]
    <3>1. Len(s) - 1 = n
      BY <1>1, <1>7
    <3> QED BY <2>1, <2>2, <3>1, FrontOfPath
  <2>4. NoRepeats(front)
    <3>1. Len(s) - 1 = n
      BY <1>1, <1>7
    <3>2. \A i, j \in 1..n : s[i] = s[j] => i = j
      BY <2>1, <3>1
    <3>3. \A i, j \in 1..n : front[i] = front[j] => i = j
      BY <2>3, <3>2
    <3> HIDE DEF n
    <3> QED BY <2>3, <3>3 DEF NoRepeats
  <2>5. ToSet(front) \subseteq DOMAIN nodes
    <3>1. Len(s) - 1 = n
      BY <1>1, <1>7
    <3>2. \A i \in 1..n : s[i] \in DOMAIN nodes
      BY <2>1, <3>1
    <3>3. ToSet(front) = {front[i] : i \in 1..n}
      <4> HIDE DEF n
      <4> QED BY <2>3, ToSetOfSeq
    <3> HIDE DEF n
    <3> QED BY <2>3, <3>2, <3>3
  <2>6. Cardinality(ToSet(front)) = n
    BY <2>3, <2>4, DistinctIsNoRepeats DEF AreDistinct
  <2>7. ToSet(front) = DOMAIN nodes
    BY <1>1, <2>5, <2>6, FS_Subset
  <2> QED BY <2>2, <2>7 DEF Proceeds
<1>8. Followed(nodes, id, s) /\ ~Proceeds(nodes, s)
  BY <1>6, <1>7
<1> HIDE DEF S
<1>9. s = f[Cardinality(DOMAIN nodes)]
  BY <1>5
<1>10. Followed(nodes, id, f[Cardinality(DOMAIN nodes)])
  BY <1>8, <1>9
<1>11. ~Proceeds(nodes, f[Cardinality(DOMAIN nodes)])
  BY <1>8, <1>9
<1> QED BY <1>10, <1>11

(* How far the cursor goes: as far as the walk, and one place further when *)
(* the last node names a parent, which is missing or was met.              *)
LEMMA CursorGoes ==
  ASSUME NEW nodes, IsGraph(nodes), NoId \notin DOMAIN nodes, NEW id \in DOMAIN nodes,
         NEW w, Walked(nodes, id, w), NEW s, Followed(nodes, id, s), ~Proceeds(nodes, s)
  PROVE  LET last == nodes[w[Len(w)]].parent
         IN /\ last = NoId => Len(s) = Len(w) /\ Last(s) \notin ToSet(Front(s))
            /\ last # NoId /\ last \notin DOMAIN nodes =>
                 Len(s) = Len(w) + 1 /\ Last(s) \notin ToSet(Front(s))
            /\ last \in DOMAIN nodes => Len(s) = Len(w) + 1 /\ Last(s) \in ToSet(Front(s))
<1> DEFINE D == DOMAIN nodes
           L == Len(w)
           K == Len(s)
           last == nodes[w[L]].parent
           S == {k \in 0..L - 1 : k + 1 > K \/ s[k + 1] = w[k + 1]}
<1>1. /\ L \in Nat \ {0} /\ w[1] = id /\ ToSet(w) = {w[i] : i \in 1..L}
      /\ last \notin D \ ToSet(w)
      /\ \A i \in 1..L : w[i] \in D
      /\ \A i, j \in 1..L : w[i] = w[j] => i = j
      /\ \A i \in 1..L - 1 : w[i + 1] = nodes[w[i]].parent
  BY WalkedFacts
<1>2. /\ K \in Nat \ {0} /\ s[1] = id
      /\ \A i \in 1..K - 1 : s[i] \in D /\ s[i + 1] = nodes[s[i]].parent /\ s[i + 1] # NoId
      /\ \A i, j \in 1..K - 1 : s[i] = s[j] => i = j
  BY EmptySeq, LenProperties DEF Followed
<1>3. ToSet(Front(s)) = {s[i] : i \in 1..K - 1} /\ Last(s) = s[K]
  <2>1. s \in Seq(Nat) /\ s # << >>
    BY DEF Followed
  <2>2. PICK front : front = Front(s)
    OBVIOUS
  <2>3. front \in Seq(Nat) /\ Len(front) = K - 1 /\ \A i \in 1..K - 1 : front[i] = s[i]
    BY <2>1, <2>2, FrontOfPath
  <2>4. ToSet(front) = {front[i] : i \in 1..K - 1}
    BY <2>3, ToSetOfSeq
  <2>5. {front[i] : i \in 1..K - 1} = {s[i] : i \in 1..K - 1}
    BY <2>3
  <2> QED BY <2>2, <2>4, <2>5 DEF Last
<1>4. s[K] \in D => s[K] \in ToSet(Front(s)) \/ nodes[s[K]].parent = NoId
  BY <1>3 DEF Proceeds
<1> HIDE DEF L, K, D
<1>5. 0 \in S
  BY <1>1, <1>2
<1>6. ASSUME NEW k \in 0..(L - 1) - 1, k \in S PROVE k + 1 \in S
  <2>1. k + 1 \in 0..L - 1 /\ k + 1 \in 1..L - 1
    BY <1>1
  <2>2. CASE (k + 1) + 1 > K
    BY <2>1, <2>2
  <2>3. CASE ~((k + 1) + 1 > K)
    <3>1. k + 1 \in 1..K - 1 /\ s[k + 1] = w[k + 1]
      BY <1>2, <1>6, <2>3
    <3>2. s[(k + 1) + 1] = nodes[s[k + 1]].parent
      BY <1>2, <3>1
    <3>3. w[(k + 1) + 1] = nodes[w[k + 1]].parent
      BY <1>1, <2>1
    <3> QED BY <2>1, <3>1, <3>2, <3>3
  <2> QED BY <2>2, <2>3
<1>7. \A k \in 0..L - 1 : k \in S
  <2> HIDE DEF S
  <2>1. L - 1 \in Nat
    BY <1>1
  <2> QED BY <1>5, <1>6, <2>1, BoundedInduction
<1>8. ASSUME NEW i \in 1..L, i <= K PROVE s[i] = w[i]
  <2>1. i - 1 \in 0..L - 1 /\ (i - 1) + 1 = i /\ ~(i > K)
    BY <1>1, <1>2, <1>8
  <2> QED BY <1>7, <2>1
<1> HIDE DEF S
<1>9. K <= L => s[K] \in D /\ s[K] \notin ToSet(Front(s))
  <2> SUFFICES ASSUME K <= L PROVE s[K] \in D /\ s[K] \notin ToSet(Front(s))
    OBVIOUS
  <2>1. K \in 1..L /\ K <= K
    BY <1>1, <1>2
  <2>2. s[K] = w[K] /\ s[K] \in D
    BY <1>1, <1>8, <2>1
  <2>3. ASSUME NEW i \in 1..K - 1 PROVE s[i] # s[K]
    <3>1. i \in 1..L /\ i <= K /\ i # K
      BY <1>1, <1>2
    <3> QED BY <1>1, <1>8, <2>1, <2>2, <3>1
  <2> QED BY <1>3, <2>2, <2>3
<1>10. ~(K < L)
  <2> SUFFICES ASSUME K < L PROVE FALSE
    OBVIOUS
  <2>1. K \in 1..L - 1 /\ K + 1 \in 1..L /\ K \in 1..L /\ K <= K
    BY <1>1, <1>2
  <2>2. nodes[s[K]].parent = NoId
    <3>1. K <= L
      BY <2>1
    <3> QED BY <1>4, <1>9, <3>1
  <2>3. w[K + 1] = nodes[s[K]].parent /\ w[K + 1] \in D
    BY <1>1, <1>8, <2>1
  <2> QED BY <2>2, <2>3 DEF D
<1>11. K = L \/ K > L
  BY <1>1, <1>2, <1>10
<1>12. L \in 1..L /\ (K >= L => s[L] = w[L])
  BY <1>1, <1>8
<1>13. K = L => last = NoId /\ s[K] \notin ToSet(Front(s))
  BY <1>1, <1>4, <1>9, <1>12
<1>14. ASSUME K > L PROVE last # NoId /\ s[L + 1] = last /\ L \in 1..K - 1
  <2>1. L \in 1..K - 1 /\ K >= L
    BY <1>1, <1>2, <1>14
  <2>2. s[L + 1] = nodes[s[L]].parent /\ s[L + 1] # NoId
    BY <1>2, <2>1
  <2> QED BY <1>12, <2>1, <2>2
<1>15. ASSUME K > L, last \notin D PROVE K = L + 1 /\ s[K] \notin ToSet(Front(s))
  <2>1. K = L + 1
    <3> SUFFICES ASSUME K # L + 1 PROVE FALSE
      OBVIOUS
    <3>1. L + 1 \in 1..K - 1
      BY <1>1, <1>2, <1>15
    <3> QED BY <1>2, <1>14, <1>15, <3>1
  <2>2. s[K] = last
    BY <1>14, <1>15, <2>1
  <2>3. \A i \in 1..K - 1 : s[i] # last
    BY <1>2, <1>15
  <2> QED BY <1>3, <2>1, <2>2, <2>3
<1>16. ASSUME K > L, last \in D PROVE K = L + 1 /\ s[K] \in ToSet(Front(s))
  <2>1. PICK j \in 1..L : last = w[j]
    BY <1>1, <1>16
  <2>2. s[j] = last /\ j \in 1..K - 1
    <3>1. j <= K /\ j \in 1..K - 1
      BY <1>1, <1>2, <1>16
    <3> QED BY <1>8, <2>1, <3>1
  <2>3. K = L + 1
    <3> SUFFICES ASSUME K # L + 1 PROVE FALSE
      OBVIOUS
    <3>1. L + 1 \in 1..K - 1 /\ L + 1 # j
      BY <1>1, <1>2, <1>16
    <3> QED BY <1>2, <1>14, <1>16, <2>2, <3>1
  <2>4. s[K] = last
    BY <1>14, <1>16, <2>3
  <2> QED BY <1>3, <2>2, <2>3, <2>4
<1>17. last \in D => last # NoId
  BY DEF D
<1>18. last = NoId => K = L
  BY <1>11, <1>14
<1>19. last # NoId => K > L
  BY <1>11, <1>13
<1> HIDE DEF last
<1>20. last = NoId => K = L /\ Last(s) \notin ToSet(Front(s))
  BY <1>3, <1>13, <1>18
<1>21. last # NoId /\ last \notin D => K = L + 1 /\ Last(s) \notin ToSet(Front(s))
  BY <1>3, <1>15, <1>19
<1>22. last \in D => K = L + 1 /\ Last(s) \in ToSet(Front(s))
  BY <1>3, <1>16, <1>17, <1>19
<1> QED BY <1>20, <1>21, <1>22 DEF last, K, L, D

(* Where no id is there twice, the maps of nodes agree with the graph.     *)
LEMMA SceneParents ==
  ASSUME GraphInv, FromScene(scene, graph.nodes), Cardinality(Ids) = Len(scene)
  PROVE  /\ IdsOf(scene) = Ids
         /\ \A n \in ToSet(scene) : n.id \in Ids /\ n.parent = graph.nodes[n.id].parent
         /\ \A x \in Ids : ParentInMap(scene, x) = graph.nodes[x].parent
<1>1. /\ DOMAIN scene = 1..Len(scene) /\ Len(scene) \in Nat
      /\ \A i \in 1..Len(scene) : scene[i].id \in Nat
      /\ scene \in Seq([id : Nat, parent : Nat, children : SUBSET Nat])
  BY SceneTyped DEF GraphInv
<1>2. PICK ids : ids = [i \in 1..Len(scene) |-> scene[i].id]
  OBVIOUS
<1>3. /\ ids \in Seq(Nat) /\ Len(ids) = Len(scene)
      /\ \A i \in 1..Len(scene) : ids[i] = scene[i].id
  <2>1. ids \in [1..Len(scene) -> Nat]
    BY <1>1, <1>2
  <2> QED BY <1>1, <1>2, <2>1, FunctionIsSeq
<1>4. ToSet(ids) = {ids[i] : i \in 1..Len(ids)}
  BY <1>3, ToSetOfSeq
<1>5. /\ \A i \in 1..Len(scene) : scene[i].id \in Ids
      /\ \A x \in Ids : \E i \in 1..Len(scene) : scene[i].id = x /\ scene[i].parent = graph.nodes[x].parent
  BY <1>1 DEF FromScene, Ids
<1>6. ToSet(ids) = Ids
  BY ONLY <1>3, <1>4, <1>5
<1>7. \A i, j \in 1..Len(scene) : scene[i].id = scene[j].id => i = j
  <2>1. AreDistinct(ids)
    BY <1>3, <1>6 DEF AreDistinct
  <2>2. NoRepeats(ids)
    BY <1>3, <2>1, DistinctIsNoRepeats
  <2> QED BY <1>3, <2>2 DEF NoRepeats
<1>8. IdsOf(scene) = Ids
  <2>1. IdsOf(scene) = {scene[i].id : i \in 1..Len(scene)}
    BY <1>1 DEF IdsOf
  <2> QED BY ONLY <1>5, <2>1
<1>9. ASSUME NEW n \in ToSet(scene) PROVE n.id \in Ids /\ n.parent = graph.nodes[n.id].parent
  <2>1. PICK i \in 1..Len(scene) : n = scene[i]
    BY <1>1, ToSetOfSeq
  <2>2. PICK j \in 1..Len(scene) : scene[j].id = n.id /\ scene[j].parent = graph.nodes[n.id].parent
    BY <1>5, <2>1
  <2> QED BY <1>5, <1>7, <2>1, <2>2
<1>10. ASSUME NEW x \in Ids PROVE ParentInMap(scene, x) = graph.nodes[x].parent
  <2> DEFINE Holds(i) == scene[i].id = x /\ \A j \in i + 1..Len(scene) : scene[j].id # x
             k == CHOOSE i \in DOMAIN scene : Holds(i)
  <2>1. PICK i \in 1..Len(scene) : scene[i].id = x /\ scene[i].parent = graph.nodes[x].parent
    BY <1>5
  <2>2. ASSUME NEW j \in i + 1..Len(scene) PROVE scene[j].id # x
    <3>1. j \in 1..Len(scene) /\ j # i
      BY <1>1
    <3> QED BY <1>7, <2>1, <3>1
  <2>3. Holds(i)
    BY <2>1, <2>2
  <2>4. k \in DOMAIN scene /\ Holds(k)
    <3> HIDE DEF Holds
    <3> QED BY <1>1, <2>3
  <2>5. k = i
    <3> HIDE DEF k
    <3> QED BY <1>1, <1>7, <2>1, <2>4
  <2>6. ParentInMap(scene, x) = scene[k].parent
    BY DEF ParentInMap
  <2> QED BY <2>1, <2>5, <2>6
<1> QED BY <1>8, <1>9, <1>10

LEMMA WalkClimbs ==
  ASSUME NEW nodes, IsGraph(nodes), NEW id, NEW n \in Nat, NEW f, IsWalk(f, nodes, id, n)
  PROVE  \A k \in 0..n : Climbed(nodes, id, f[k])
<1> DEFINE S == {k \in 0..n : Climbed(nodes, id, f[k])}
<1>1. 0 \in S
  <2>1. f[0] = << >> /\ 0 \in 0..n
    BY DEF IsWalk
  <2>2. << >> \in Seq(Nat) /\ Len(<< >>) = 0 /\ ToSet(<< >>) = {} /\ NoRepeats(<< >>)
    BY NoneInEmpty DEF NoRepeats
  <2>3. Climbed(nodes, id, << >>)
    BY <2>2 DEF Climbed
  <2> QED BY <2>1, <2>3
<1>2. ASSUME NEW k \in 0..n - 1, k \in S PROVE k + 1 \in S
  <2>1. k + 1 \in 0..n /\ f[k + 1] = Up(nodes, id, f[k])
    BY DEF IsWalk
  <2>2. CASE Stopped(nodes, id, f[k])
    BY <1>2, <2>1, <2>2 DEF Stopped, Up
  <2>3. CASE ~Stopped(nodes, id, f[k])
    BY <1>2, <2>1, <2>3, UpClimbs
  <2> QED BY <2>2, <2>3
<1> HIDE DEF S
<1>3. \A k \in 0..n : k \in S
  BY <1>1, <1>2, BoundedInduction
<1> QED BY <1>3 DEF S

(* NodeDepth walks upwards from the parent.                                *)
LEMMA NodeDepthWalks ==
  ASSUME GraphInv, IsGraph(graph.nodes), FromScene(scene, graph.nodes), Cardinality(Ids) = Len(scene),
         NEW n \in ToSet(scene)
  PROVE  \E m : Walked(graph.nodes, graph.nodes[n.id].parent, m) /\ NodeDepth(scene, n) = Len(m)
<1> DEFINE N == Cardinality(Ids)
           UpFrom(met) ==
             LET parent == IF met = << >> THEN n.parent ELSE ParentInMap(scene, Last(met))
             IN IF parent \in IdsOf(scene) \ (ToSet(met) \cup {NoId}) THEN Append(met, parent) ELSE met
           f == CHOOSE climbed : climbed = [k \in 0..N |-> IF k = 0 THEN << >> ELSE UpFrom(climbed[k - 1])]
<1>1. PICK nodes, p : nodes = graph.nodes /\ p = graph.nodes[n.id].parent
  OBVIOUS
<1>2. /\ IdsOf(scene) = Ids /\ n.parent = p
      /\ \A x \in Ids : ParentInMap(scene, x) = nodes[x].parent
  BY <1>1, SceneParents
<1>3. NodeDepth(scene, n) = Len(f[N])
  BY DEF NodeDepth
<1>4. ASSUME NEW s, Climbed(nodes, p, s) PROVE UpFrom(s) = Up(nodes, p, s)
  <2>1. CASE s = << >>
    BY <1>1, <1>2, <2>1 DEF Up, NextUp, Ids
  <2>2. CASE s # << >>
    <3>1. Last(s) \in Ids
      <4>1. s \in Seq(Nat) /\ ToSet(s) = {s[i] : i \in 1..Len(s)} /\ ToSet(s) \subseteq Ids
        BY <1>1, <1>4, ToSetOfSeq DEF Climbed, Ids
      <4>2. Len(s) \in 1..Len(s)
        BY <2>2, <4>1, EmptySeq
      <4> QED BY <4>1, <4>2 DEF Last
    <3>2. ParentInMap(scene, Last(s)) = nodes[Last(s)].parent
      BY <1>2, <3>1
    <3> QED BY <1>1, <1>2, <2>2, <3>2 DEF Up, NextUp, Ids
  <2> QED BY <2>1, <2>2
<1> HIDE DEF UpFrom
<1>5. N \in Nat /\ IsGraph(nodes) /\ Ids = DOMAIN nodes
  BY <1>1, FS_CardinalityType DEF IsGraph, Ids
<1> HIDE DEF N
<1>6. PICK g : IsWalk(g, nodes, p, N)
  BY <1>5, WalkExists
<1>7. \A k \in 0..N : Climbed(nodes, p, g[k])
  BY <1>5, <1>6, WalkClimbs
<1>8. g = [k \in 0..N |-> IF k = 0 THEN << >> ELSE UpFrom(g[k - 1])]
  <2>1. g = [k \in 0..N |-> IF k = 0 THEN << >> ELSE Up(nodes, p, g[k - 1])]
    BY <1>6 DEF IsWalk
  <2>2. \A k \in 0..N : k # 0 => Up(nodes, p, g[k - 1]) = UpFrom(g[k - 1])
    <3> SUFFICES ASSUME NEW k \in 0..N, k # 0 PROVE Up(nodes, p, g[k - 1]) = UpFrom(g[k - 1])
      OBVIOUS
    <3>1. k - 1 \in 0..N
      BY <1>5
    <3> QED BY <1>4, <1>7, <3>1
  <2> QED BY <2>1, <2>2
<1>9. f = [k \in 0..N |-> IF k = 0 THEN << >> ELSE UpFrom(f[k - 1])]
  BY <1>8, Zenon
<1> HIDE DEF f
<1> DEFINE S == {k \in 0..N : f[k] = g[k]}
<1>10. 0 \in S
  <2>1. 0 \in 0..N
    BY <1>5
  <2> QED BY <1>8, <1>9, <2>1
<1>11. ASSUME NEW k \in 0..N - 1, k \in S PROVE k + 1 \in S
  <2>1. k + 1 \in 0..N /\ k + 1 # 0 /\ (k + 1) - 1 = k
    BY <1>5
  <2>2. f[k + 1] = UpFrom(f[k])
    BY <1>9, <2>1
  <2>3. g[k + 1] = UpFrom(g[k])
    BY <1>8, <2>1
  <2> QED BY <1>11, <2>1, <2>2, <2>3
<1>12. f[N] = g[N]
  <2> HIDE DEF S
  <2>1. \A k \in 0..N : k \in S
    BY <1>5, <1>10, <1>11, BoundedInduction
  <2>2. N \in S
    BY <1>5, <2>1
  <2> QED BY <2>2 DEF S
<1>13. Walked(nodes, p, g[N])
  <2>1. N = Cardinality(DOMAIN nodes)
    BY <1>1 DEF N, Ids
  <2>2. IsWalk(g, nodes, p, Cardinality(DOMAIN nodes))
    BY <1>6, <2>1
  <2>3. /\ Climbed(nodes, p, g[Cardinality(DOMAIN nodes)])
        /\ Stopped(nodes, p, g[Cardinality(DOMAIN nodes)])
    BY <1>5, <2>2, UpwardsEnds
  <2> QED BY <2>1, <2>3 DEF Walked
<1> QED BY <1>1, <1>3, <1>12, <1>13

(* DepthOf moves its cursor.                                               *)
LEMMA DepthOfFollows ==
  ASSUME GraphInv, IsGraph(graph.nodes), FromScene(scene, graph.nodes), Cardinality(Ids) = Len(scene),
         NEW id \in Ids
  PROVE  \E s : /\ Followed(graph.nodes, id, s) /\ ~Proceeds(graph.nodes, s)
                /\ DepthOf(scene, id) = IF Last(s) \in ToSet(Front(s)) THEN Len(s) ELSE Len(s) - 1
<1> DEFINE N == Cardinality(Ids)
           OnFrom(met) ==
             LET at == Last(met)
             IN IF at \in IdsOf(scene) \ ToSet(Front(met)) /\ ParentInMap(scene, at) # NoId
                  THEN Append(met, ParentInMap(scene, at)) ELSE met
           f == CHOOSE cursor : cursor = [k \in 0..N |-> IF k = 0 THEN <<id>> ELSE OnFrom(cursor[k - 1])]
<1>1. PICK nodes : nodes = graph.nodes
  OBVIOUS
<1>2. IdsOf(scene) = Ids /\ \A x \in Ids : ParentInMap(scene, x) = nodes[x].parent
  BY <1>1, SceneParents
<1>3. DepthOf(scene, id) = IF Last(f[N]) \in ToSet(Front(f[N])) THEN Len(f[N]) ELSE Len(f[N]) - 1
  BY DEF DepthOf
<1>4. ASSUME NEW s PROVE OnFrom(s) = Proceed(nodes, s)
  <2>1. CASE Last(s) \in Ids
    BY <1>1, <1>2, <2>1 DEF Proceed, Proceeds, Ids
  <2>2. CASE Last(s) \notin Ids
    BY <1>1, <1>2, <2>2 DEF Proceed, Proceeds, Ids
  <2> QED BY <2>1, <2>2
<1> HIDE DEF OnFrom
<1>5. N \in Nat /\ IsGraph(nodes) /\ Ids = DOMAIN nodes /\ id \in Nat
  BY <1>1, FS_CardinalityType DEF IsGraph, Ids
<1> HIDE DEF N
<1>6. PICK g : IsCursor(g, nodes, id, N)
  BY <1>5, CursorExists
<1>7. g = [k \in 0..N |-> IF k = 0 THEN <<id>> ELSE OnFrom(g[k - 1])]
  BY <1>4, <1>6 DEF IsCursor
<1>8. f = [k \in 0..N |-> IF k = 0 THEN <<id>> ELSE OnFrom(f[k - 1])]
  BY <1>7, Zenon
<1> HIDE DEF f
<1>9. IsCursor(f, nodes, id, N)
  BY <1>4, <1>8 DEF IsCursor
<1>10. Followed(nodes, id, f[N]) /\ ~Proceeds(nodes, f[N])
  <2>1. N = Cardinality(DOMAIN nodes)
    BY <1>1 DEF N, Ids
  <2>2. IsCursor(f, nodes, id, Cardinality(DOMAIN nodes))
    BY <1>9, <2>1
  <2>3. /\ Followed(nodes, id, f[Cardinality(DOMAIN nodes)])
        /\ ~Proceeds(nodes, f[Cardinality(DOMAIN nodes)])
    BY <1>5, <2>2, CursorEnds
  <2> QED BY <2>1, <2>3
<1> QED BY <1>1, <1>3, <1>10

(* PathToRoot is a walk upwards, turned around.                            *)
LEMMA PathTurnsWalk ==
  ASSUME IsGraph(graph.nodes), NoId \notin Ids, NEW id \in Ids
  PROVE  \E w : /\ Walked(graph.nodes, id, w) /\ Len(PathToRoot(id)) = Len(w)
                /\ PathToRoot(id)[1] = w[Len(w)] /\ ToSet(PathToRoot(id)) = ToSet(w)
<1>1. Ids = DOMAIN graph.nodes /\ Cardinality(Ids) \in Nat
  BY FS_CardinalityType DEF IsGraph, Ids
<1>2. PICK f : /\ IsWalk(f, graph.nodes, id, Cardinality(Ids))
               /\ PathToRoot(id) = Reverse(f[Cardinality(Ids)])
  BY <1>1, PathToRootWalks
<1>3. PICK nodes, w, r : nodes = graph.nodes /\ w = f[Cardinality(Ids)] /\ r = Reverse(w)
  OBVIOUS
<1>4. Walked(nodes, id, w)
  <2>1. IsWalk(f, nodes, id, Cardinality(DOMAIN nodes)) /\ w = f[Cardinality(DOMAIN nodes)]
    BY <1>1, <1>2, <1>3
  <2>2. IsGraph(nodes)
    BY <1>3
  <2>3. /\ Climbed(nodes, id, f[Cardinality(DOMAIN nodes)])
        /\ Stopped(nodes, id, f[Cardinality(DOMAIN nodes)])
    BY <2>1, <2>2, UpwardsEnds
  <2> QED BY <2>1, <2>3 DEF Walked
<1>5. w \in Seq(Nat) /\ Len(w) \in Nat \ {0}
  <2>1. IsGraph(nodes) /\ id \in DOMAIN nodes \ {NoId}
    BY <1>1, <1>3
  <2> QED BY <1>4, <2>1, WalkedFacts
<1>6. /\ Len(r) = Len(w) /\ ToSet(r) = ToSet(w)
      /\ \A i \in 1..Len(w) : r[i] = w[(Len(w) - i) + 1]
  BY ONLY <1>3, <1>5, ReversedSeq
<1>7. r[1] = w[Len(w)]
  <2>1. 1 \in 1..Len(w) /\ (Len(w) - 1) + 1 = Len(w)
    BY <1>5
  <2> QED BY <1>6, <2>1
<1>8. PathToRoot(id) = r
  BY <1>2, <1>3
<1> QED BY <1>3, <1>4, <1>6, <1>7, <1>8

LEMMA LayersGrow ==
  ASSUME NEW nodes, NEW ids, NEW a \in Nat, NEW b \in Nat, a <= b
  PROVE  Layer(nodes, ids, a) \subseteq Layer(nodes, ids, b)
<1> DEFINE S == {k \in Nat : Layer(nodes, ids, a) \subseteq Layer(nodes, ids, a + k)}
<1>1. 0 \in S
  OBVIOUS
<1>2. ASSUME NEW k \in Nat, k \in S PROVE k + 1 \in S
  <2>1. a + k \in Nat /\ (a + k) + 1 = a + (k + 1)
    OBVIOUS
  <2>2. Layer(nodes, ids, a + k) \subseteq Layer(nodes, ids, (a + k) + 1)
    <3>1. PICK j \in Nat : j = a + k
      BY <2>1
    <3>2. Layer(nodes, ids, j) \subseteq Layer(nodes, ids, j + 1)
      BY LayerSteps
    <3> QED BY ONLY <3>1, <3>2
  <2> QED BY <1>2, <2>1, <2>2
<1>3. b - a \in Nat /\ a + (b - a) = b
  OBVIOUS
<1>4. b - a \in S
  <2> HIDE DEF S
  <2> QED BY <1>1, <1>2, <1>3, InductionOnSet
<1> QED BY <1>3, <1>4

LEMMA ParentIsNotBelow ==
  ASSUME NEW nodes, NEW id \in DOMAIN nodes, NEW r, Rooted(nodes, nodes[id].parent, r)
  PROVE  id \notin ToSet(r)
<1>1. /\ Len(r) \in Nat \ {0} /\ r[Len(r)] = nodes[id].parent /\ NoRepeats(r)
      /\ \A i \in 1..Len(r) : r[i] \in DOMAIN nodes
      /\ ToSet(r) = {r[i] : i \in 1..Len(r)}
      /\ \A i \in 1..Len(r) - 1 : nodes[r[i + 1]].parent = r[i]
      /\ nodes[r[1]].parent \notin DOMAIN nodes
  BY ClimbFacts DEF Rooted
<1> SUFFICES ASSUME NEW i \in 1..Len(r), r[i] = id PROVE FALSE
  BY <1>1
<1>2. Len(r) \in 1..Len(r)
  BY <1>1
<1>3. i # 1
  BY <1>1, <1>2
<1>4. i - 1 \in 1..Len(r) - 1 /\ (i - 1) + 1 = i /\ i - 1 \in 1..Len(r) /\ i - 1 # Len(r)
  BY <1>1, <1>3
<1>5. r[i - 1] = r[Len(r)]
  BY <1>1, <1>4
<1> QED BY <1>1, <1>2, <1>4, <1>5 DEF NoRepeats

(* A root is what has no parent in the graph.                              *)
Topped(nodes, tops) == \A id \in DOMAIN nodes : nodes[id].parent \notin DOMAIN nodes => id \in tops

(* A way down from a root by which a node is found.                        *)
LEMMA RootedIsReached ==
  ASSUME NEW nodes, Listed(nodes), NoId \notin DOMAIN nodes, NEW tops, Topped(nodes, tops),
         NEW id, NEW r, Rooted(nodes, id, r)
  PROVE  id \in Layer(nodes, tops, Len(r) - 1)
<1> DEFINE n == Len(r) - 1
           S == {k \in 0..n : r[k + 1] \in Layer(nodes, tops, k)}
<1>1. /\ n \in Nat /\ r[n + 1] = id
      /\ \A i \in 1..n + 1 : r[i] \in DOMAIN nodes
      /\ \A i \in 1..n : nodes[r[i + 1]].parent = r[i]
      /\ nodes[r[1]].parent \notin DOMAIN nodes
  <2>1. /\ Len(r) \in Nat \ {0} /\ r[Len(r)] = id
        /\ \A i \in 1..Len(r) : r[i] \in DOMAIN nodes
        /\ \A i \in 1..Len(r) - 1 : nodes[r[i + 1]].parent = r[i]
        /\ nodes[r[1]].parent \notin DOMAIN nodes
    BY ClimbFacts DEF Rooted
  <2>2. n \in Nat /\ n + 1 = Len(r)
    BY <2>1
  <2> QED BY <2>1, <2>2
<1> HIDE DEF n
<1>2. 0 \in S
  <2>1. 1 \in 1..n + 1
    BY <1>1
  <2>2. r[1] \in tops
    BY <1>1, <2>1 DEF Topped
  <2>3. r[1] \in Layer(nodes, tops, 0)
    BY <2>2, LayerSteps
  <2> QED BY <1>1, <2>3
<1>3. ASSUME NEW k \in 0..n - 1, k \in S PROVE k + 1 \in S
  <2>1. k + 1 \in 1..n /\ (k + 1) + 1 \in 1..n + 1 /\ k + 1 \in 1..n + 1 /\ k \in Nat
    BY <1>1
  <2>2. PICK x, y : x = r[k + 1] /\ y = r[(k + 1) + 1]
    OBVIOUS
  <2>3. nodes[y].parent = x /\ y \in DOMAIN nodes /\ x \in DOMAIN nodes
    BY <1>1, <2>1, <2>2
  <2>4. y \in ToSet(ChildrenIn(nodes, x))
    BY <2>3 DEF Listed
  <2>5. x \in Layer(nodes, tops, k)
    BY <1>3, <2>2
  <2>6. y \in Layer(nodes, tops, k + 1)
    <3>1. Layer(nodes, tops, k + 1) = Layer(nodes, tops, k) \cup Kids(nodes, Layer(nodes, tops, k))
      BY <2>1, LayerSteps
    <3>2. y \in Kids(nodes, Layer(nodes, tops, k))
      BY <2>4, <2>5 DEF Kids
    <3> QED BY <3>1, <3>2
  <2> QED BY <1>1, <2>2, <2>6
<1>4. n \in S
  <2> HIDE DEF S
  <2>1. \A k \in 0..n : k \in S
    BY <1>1, <1>2, <1>3, BoundedInduction
  <2> QED BY <1>1, <2>1
<1>5. id \in Layer(nodes, tops, n)
  BY <1>1, <1>4
<1> QED BY <1>5 DEF n

(* When the links agree there is no other way.                             *)
LEMMA ReachedIsRooted ==
  ASSUME NEW nodes, IsGraph(nodes), Agree(nodes), NoId \notin DOMAIN nodes,
         NEW tops, \A x \in tops : x \in DOMAIN nodes /\ nodes[x].parent \notin DOMAIN nodes
  PROVE  \A k \in Nat : \A x \in Layer(nodes, tops, k) :
           x \in DOMAIN nodes /\ \E r : Rooted(nodes, x, r) /\ Len(r) <= k + 1
<1> DEFINE Good(k) == \A x \in Layer(nodes, tops, k) :
                        x \in DOMAIN nodes /\ \E r : Rooted(nodes, x, r) /\ Len(r) <= k + 1
           S == {k \in Nat : Good(k)}
<1>1. 0 \in S
  <2> SUFFICES ASSUME NEW x \in Layer(nodes, tops, 0)
               PROVE  x \in DOMAIN nodes /\ \E r : Rooted(nodes, x, r) /\ Len(r) <= 0 + 1
    OBVIOUS
  <2>1. x \in tops
    BY LayerSteps
  <2>2. x \in DOMAIN nodes \ {NoId} /\ nodes[x].parent \notin DOMAIN nodes
    BY <2>1
  <2>3. Rooted(nodes, x, <<x>>)
    BY <2>2, RootedAlone
  <2>4. Len(<<x>>) <= 0 + 1
    OBVIOUS
  <2> QED BY <2>2, <2>3, <2>4
<1>2. ASSUME NEW k \in Nat, k \in S PROVE k + 1 \in S
  <2> SUFFICES ASSUME NEW x \in Layer(nodes, tops, k + 1)
               PROVE  x \in DOMAIN nodes /\ \E r : Rooted(nodes, x, r) /\ Len(r) <= (k + 1) + 1
    OBVIOUS
  <2>1. Layer(nodes, tops, k + 1) = Layer(nodes, tops, k) \cup Kids(nodes, Layer(nodes, tops, k))
    BY LayerSteps
  <2>2. CASE x \in Layer(nodes, tops, k)
    <3>1. x \in DOMAIN nodes /\ \E r : Rooted(nodes, x, r) /\ Len(r) <= k + 1
      BY <1>2, <2>2
    <3>2. PICK r : Rooted(nodes, x, r) /\ Len(r) <= k + 1
      BY <3>1
    <3>3. Len(r) <= (k + 1) + 1
      BY <3>2, ClimbFacts DEF Rooted
    <3> QED BY <3>1, <3>2, <3>3
  <2>3. CASE x \in Kids(nodes, Layer(nodes, tops, k))
    <3>1. PICK y \in Layer(nodes, tops, k) : x \in ToSet(ChildrenIn(nodes, y))
      BY <2>3 DEF Kids
    <3>2. y \in DOMAIN nodes /\ \E r : Rooted(nodes, y, r) /\ Len(r) <= k + 1
      BY <1>2
    <3>3. PICK r : Rooted(nodes, y, r) /\ Len(r) <= k + 1
      BY <3>2
    <3>4. x \in DOMAIN nodes \ {NoId} /\ nodes[x].parent = y
      BY <3>1, <3>2 DEF Agree
    <3>5. x \notin ToSet(r)
      BY <3>3, <3>4, ParentIsNotBelow
    <3>6. Rooted(nodes, nodes[x].parent, r)
      BY <3>3, <3>4
    <3>7. Rooted(nodes, x, Append(r, x))
      BY <3>4, <3>5, <3>6, RootedGrows
    <3>8. Len(Append(r, x)) <= (k + 1) + 1
      <4>1. r \in Seq(Nat) /\ Len(r) \in Nat /\ x \in Nat
        BY <3>3, <3>4, ClimbFacts DEF Rooted, IsGraph
      <4>2. Len(Append(r, x)) = Len(r) + 1
        BY <4>1, AppendProperties
      <4> QED BY <3>3, <4>1, <4>2
    <3> QED BY <3>4, <3>7, <3>8
  <2> QED BY <2>1, <2>2, <2>3
<1> HIDE DEF S
<1>3. \A k \in Nat : k \in S
  BY <1>1, <1>2, InductionOnSet
<1> QED BY <1>3 DEF S

(* The graph as it is read.                                                *)
Readable == GraphInv /\ Names /\ stage \notin {"link", "mark"} /\ NoId \notin Ids

LEMMA ReadableGraph ==
  ASSUME Readable
  PROVE  /\ IsGraph(graph.nodes) /\ Listed(graph.nodes) /\ Topped(graph.nodes, Roots)
         /\ Marked(graph.nodes, Roots) /\ Ids = DOMAIN graph.nodes /\ Roots \subseteq Ids
         /\ FromScene(scene, graph.nodes) /\ IsFiniteSet(Ids)
<1>1. LinksOk(graph.nodes, graph.roots) /\ MarksKnown /\ FromScene(scene, graph.nodes)
  BY DEF Readable, GraphInv, Names
<1>2. IsGraph(graph.nodes) /\ Marked(graph.nodes, Roots) /\ Ids = DOMAIN graph.nodes /\ Roots \subseteq Ids
  BY <1>1 DEF LinksOk, MarksKnown, Roots, Ids
<1>3. Topped(graph.nodes, Roots)
  BY <1>1 DEF LinksOk, Topped, Roots
<1>4. Listed(graph.nodes)
  BY <1>1 DEF FromScene, Listed, ChildrenIn
<1> QED BY <1>1, <1>2, <1>3, <1>4 DEF IsGraph

(* The depth a node is marked with is at most the length of its way up.    *)
LEMMA MarkedAtMost ==
  ASSUME Readable, NEW id \in Ids, Anchored(id)
  PROVE  /\ Rooted(graph.nodes, id, PathToRoot(id)) /\ Len(PathToRoot(id)) \in Nat \ {0}
         /\ graph.nodes[id].reachable /\ graph.nodes[id].depth \in Nat
         /\ graph.nodes[id].depth <= Len(PathToRoot(id)) - 1
<1>1. PICK nodes, r : nodes = graph.nodes /\ r = PathToRoot(id)
  OBVIOUS
<1>2. /\ IsGraph(nodes) /\ Listed(nodes) /\ Topped(nodes, Roots) /\ Marked(nodes, Roots)
      /\ Ids = DOMAIN nodes /\ NoId \notin DOMAIN nodes /\ IsFiniteSet(DOMAIN nodes)
  BY <1>1, ReadableGraph DEF Readable
<1>3. Rooted(nodes, id, r)
  <2>1. Climb(nodes, id, r)
    BY <1>1, <1>2, PathToRootClimbs
  <2>2. nodes[r[1]].parent \notin DOMAIN nodes
    BY <1>1, <1>2 DEF Anchored
  <2> QED BY <2>1, <2>2 DEF Rooted
<1>4. Len(r) \in Nat \ {0} /\ Len(r) - 1 \in Nat
  BY <1>3, ClimbFacts DEF Rooted
<1>5. id \in Layer(nodes, Roots, Len(r) - 1)
  BY <1>2, <1>3, RootedIsReached
<1>6. id \in ClosureIn(nodes, Roots)
  BY <1>2, <1>4, <1>5, ClosureFacts
<1>7. nodes[id].reachable /\ nodes[id].depth \in Nat
  BY <1>2, <1>6 DEF Marked, IsGraph, Info
<1>8. nodes[id].depth <= Len(r) - 1
  <2> SUFFICES ASSUME nodes[id].depth > Len(r) - 1 PROVE FALSE
    BY <1>4, <1>7
  <2>1. nodes[id].depth > 0 /\ Len(r) - 1 <= nodes[id].depth - 1 /\ nodes[id].depth - 1 \in Nat
    BY <1>4, <1>7
  <2>2. id \notin Layer(nodes, Roots, nodes[id].depth - 1)
    BY <1>2, <1>7, <2>1 DEF Marked
  <2>3. id \in Layer(nodes, Roots, nodes[id].depth - 1)
    BY <1>4, <1>5, <2>1, LayersGrow
  <2> QED BY <2>2, <2>3
<1> QED BY <1>1, <1>3, <1>4, <1>7, <1>8

(* When the links agree it is that length, and only what a root is above   *)
(* of is marked.                                                           *)
LEMMA MarkedAsRooted ==
  ASSUME Readable, GraphIsConsistent, NEW id \in Ids, graph.nodes[id].reachable
  PROVE  Anchored(id) /\ graph.nodes[id].depth = Len(PathToRoot(id)) - 1
<1>1. PICK nodes : nodes = graph.nodes
  OBVIOUS
<1>2. /\ IsGraph(nodes) /\ Marked(nodes, Roots) /\ Roots \subseteq Ids
      /\ Ids = DOMAIN nodes /\ NoId \notin DOMAIN nodes
  BY <1>1, ReadableGraph DEF Readable
<1>3. Agree(nodes) /\ \A x \in Roots : x \in DOMAIN nodes /\ nodes[x].parent \notin DOMAIN nodes
  <2>1. \A x \in Roots : nodes[x].parent = NoId
    BY <1>1 DEF GraphIsConsistent, Roots
  <2> QED BY <1>1, <1>2, <2>1, ConsistentAgrees
<1>4. PICK d : d = nodes[id].depth
  OBVIOUS
<1>5. d \in Nat /\ id \in Layer(nodes, Roots, d)
  BY <1>1, <1>2, <1>4 DEF Marked, IsGraph, Info
<1>6. PICK r : Rooted(nodes, id, r) /\ Len(r) <= d + 1
  BY <1>2, <1>3, <1>5, ReachedIsRooted
<1>7. PathToRoot(id) = r /\ Anchored(id)
  <2>1. IsGraph(graph.nodes) /\ id \in Ids \ {NoId} /\ Rooted(graph.nodes, id, r)
    BY <1>1, <1>2, <1>6
  <2> QED BY ONLY <2>1, RootedIsPath
<1>8. Len(r) \in Nat \ {0} /\ d <= Len(r) - 1
  BY <1>1, <1>4, <1>7, MarkedAtMost
<1>9. d = Len(r) - 1
  BY <1>5, <1>6, <1>8
<1> QED BY <1>1, <1>4, <1>7, <1>9

(* The three depths.                                                       *)
LEMMA DepthsRead ==
  ASSUME GraphInv, Names
  PROVE  DepthsAgree
<1> SUFFICES ASSUME stage \notin {"link", "mark"}, Cardinality(Ids) = Len(scene), NoId \notin Ids,
                    NEW n \in ToSet(scene)
             PROVE  LET node == graph.nodes[n.id]
                        upwards == NodeDepth(scene, n)
                        counted == DepthOf(scene, n.id)
                    IN /\ Anchored(n.id) => /\ node.reachable /\ node.depth <= upwards
                                            /\ counted - upwards \in {0, 1}
                       /\ ~Anchored(n.id) => counted - upwards \in {1, 2}
                       /\ GraphIsConsistent =>
                            (Anchored(n.id) <=> node.reachable)
                              /\ (node.reachable => node.depth = upwards /\ counted = upwards)
  BY DEF DepthsAgree
<1>1. PICK nodes, id : nodes = graph.nodes /\ id = n.id
  OBVIOUS
<1>2. Readable
  BY DEF Readable
<1>3. IsGraph(nodes) /\ FromScene(scene, graph.nodes) /\ Ids = DOMAIN nodes /\ NoId \notin DOMAIN nodes
  BY <1>1, <1>2, ReadableGraph
<1>4. id \in DOMAIN nodes
  BY <1>1, <1>3, SceneParents
<1>5. PICK w : /\ Walked(nodes, id, w) /\ Len(PathToRoot(id)) = Len(w) /\ PathToRoot(id)[1] = w[Len(w)]
  BY <1>1, <1>3, <1>4, PathTurnsWalk
<1>6. PICK m : Walked(nodes, nodes[id].parent, m) /\ NodeDepth(scene, n) = Len(m)
  BY <1>1, <1>3, NodeDepthWalks
<1>7. PICK s : /\ Followed(nodes, id, s) /\ ~Proceeds(nodes, s)
               /\ DepthOf(scene, id) = IF Last(s) \in ToSet(Front(s)) THEN Len(s) ELSE Len(s) - 1
  BY <1>1, <1>3, <1>4, DepthOfFollows
<1>8. PICK last : last = nodes[w[Len(w)]].parent
  OBVIOUS
<1>9. /\ Len(m) = Len(w) - 1 \/ Len(m) = Len(w)
      /\ last \notin DOMAIN nodes => Len(m) = Len(w) - 1
  BY <1>3, <1>4, <1>5, <1>6, <1>8, UpFromParent
<1>10. /\ last = NoId => Len(s) = Len(w) /\ Last(s) \notin ToSet(Front(s))
       /\ last # NoId /\ last \notin DOMAIN nodes => Len(s) = Len(w) + 1 /\ Last(s) \notin ToSet(Front(s))
       /\ last \in DOMAIN nodes => Len(s) = Len(w) + 1 /\ Last(s) \in ToSet(Front(s))
  <2>1. LET end == nodes[w[Len(w)]].parent
        IN /\ end = NoId => Len(s) = Len(w) /\ Last(s) \notin ToSet(Front(s))
           /\ end # NoId /\ end \notin DOMAIN nodes =>
                Len(s) = Len(w) + 1 /\ Last(s) \notin ToSet(Front(s))
           /\ end \in DOMAIN nodes => Len(s) = Len(w) + 1 /\ Last(s) \in ToSet(Front(s))
    <3>1. IsGraph(nodes) /\ NoId \notin DOMAIN nodes /\ id \in DOMAIN nodes /\ Walked(nodes, id, w)
          /\ Followed(nodes, id, s) /\ ~Proceeds(nodes, s)
      BY <1>3, <1>4, <1>5, <1>7
    <3> QED BY ONLY <3>1, CursorGoes
  <2> QED BY ONLY <2>1, <1>8
<1>11. Len(w) \in Nat \ {0}
  BY <1>3, <1>4, <1>5, WalkedFacts
<1>12. PICK counted, upwards : counted = DepthOf(scene, id) /\ upwards = Len(m)
  OBVIOUS
<1>13. /\ last = NoId => counted = Len(w) - 1
       /\ last # NoId /\ last \notin DOMAIN nodes => counted = Len(w)
       /\ last \in DOMAIN nodes => counted = Len(w) + 1
  <2>1. counted = IF Last(s) \in ToSet(Front(s)) THEN Len(s) ELSE Len(s) - 1
    BY <1>7, <1>12
  <2>2. (Len(w) + 1) - 1 = Len(w)
    BY <1>11
  <2>3. CASE Last(s) \in ToSet(Front(s))
    <3>1. counted = Len(s)
      BY ONLY <2>1, <2>3
    <3> QED BY ONLY <1>10, <2>3, <3>1
  <2>4. CASE Last(s) \notin ToSet(Front(s))
    <3>1. counted = Len(s) - 1
      BY ONLY <2>1, <2>4
    <3>2. last = NoId => Len(s) = Len(w)
      BY ONLY <1>10
    <3>3. last # NoId /\ last \notin DOMAIN nodes => Len(s) = Len(w) + 1
      BY ONLY <1>10
    <3>4. last \notin DOMAIN nodes
      BY ONLY <1>10, <2>4
    <3> QED BY ONLY <1>11, <3>1, <3>2, <3>3, <3>4, <1>3, <1>8
  <2> QED BY ONLY <2>3, <2>4
<1>14. Anchored(id) <=> last \notin DOMAIN nodes
  BY <1>1, <1>3, <1>5, <1>8 DEF Anchored
<1>15. Anchored(id) => counted - upwards \in {0, 1}
  BY <1>9, <1>11, <1>12, <1>13, <1>14
<1>16. ~Anchored(id) => counted - upwards \in {1, 2}
  BY <1>9, <1>11, <1>12, <1>13, <1>14
<1>17. Anchored(id) => /\ nodes[id].reachable /\ nodes[id].depth <= upwards
                       /\ nodes[id].depth \in Nat
  BY <1>1, <1>2, <1>3, <1>4, <1>5, <1>9, <1>12, <1>14, MarkedAtMost
<1>18. ASSUME GraphIsConsistent, nodes[id].reachable
       PROVE  Anchored(id) /\ nodes[id].depth = upwards /\ counted = upwards
  <2>1. Anchored(id) /\ nodes[id].depth = Len(w) - 1
    BY <1>1, <1>2, <1>3, <1>4, <1>5, <1>18, MarkedAsRooted
  <2>2. last = NoId
    <3>1. Len(w) \in 1..Len(w) /\ \A i \in 1..Len(w) : w[i] \in DOMAIN nodes
      BY <1>3, <1>5, <1>11, WalkedFacts
    <3>2. last \in Ids \cup {NoId}
      BY <1>1, <1>3, <1>8, <1>18, <3>1 DEF GraphIsConsistent
    <3> QED BY <1>3, <1>14, <2>1, <3>2
  <2> QED BY <1>9, <1>11, <1>12, <1>13, <1>14, <2>1, <2>2
<1> QED BY <1>1, <1>6, <1>12, <1>15, <1>16, <1>17, <1>18

(* Children and parents say the same.                                      *)
Mirrored(nodes) == IsGraph(nodes) /\ Listed(nodes) /\ Agree(nodes) /\ NoId \notin DOMAIN nodes
Acyclic(nodes) == \A id \in DOMAIN nodes : id \notin BelowIn(nodes, id)

(* What is below a node, with the node.                                    *)
LEMMA ClosureOfOne ==
  ASSUME NEW nodes, IsFiniteSet(DOMAIN nodes), NEW id
  PROVE  /\ ClosureIn(nodes, {id}) = {id} \cup BelowIn(nodes, id)
         /\ ToSet(ChildrenIn(nodes, id)) \subseteq BelowIn(nodes, id)
<1>1. PICK C, B, K : /\ C = ClosureIn(nodes, {id}) /\ B = BelowIn(nodes, id)
                     /\ K = ToSet(ChildrenIn(nodes, id))
  OBVIOUS
<1>2. {id} \subseteq C /\ Closed(nodes, C)
      /\ \A T : {id} \subseteq T /\ Closed(nodes, T) => C \subseteq T
  BY <1>1, ClosureFacts
<1>3. K \subseteq B /\ Closed(nodes, B) /\ \A T : K \subseteq T /\ Closed(nodes, T) => B \subseteq T
  BY <1>1, ClosureFacts DEF BelowIn
<1>4. K \subseteq C
  BY <1>1, <1>2 DEF Closed, Kids
<1>5. Closed(nodes, {id} \cup B)
  BY <1>1, <1>3 DEF Closed, Kids
<1>6. B \subseteq C
  BY ONLY <1>2, <1>3, <1>4
<1>7. C \subseteq {id} \cup B
  BY ONLY <1>2, <1>5
<1> QED BY <1>1, <1>2, <1>3, <1>6, <1>7

(* A path leads down.                                                      *)
LEMMA PathLeadsDown ==
  ASSUME NEW nodes, Mirrored(nodes), NEW id, NEW r, Climb(nodes, id, r),
         NEW i \in 1..Len(r), NEW j \in 1..Len(r), i < j
  PROVE  r[j] \in BelowIn(nodes, r[i])
<1> DEFINE B == BelowIn(nodes, r[i])
           n == Len(r)
           S == {k \in 0..n - (i + 1) : r[i + 1 + k] \in B}
<1>1. /\ n \in Nat /\ \A k \in 1..n : r[k] \in DOMAIN nodes \ {NoId}
      /\ \A k \in 1..n - 1 : nodes[r[k + 1]].parent = r[k]
  BY ClimbFacts
<1>2. ToSet(ChildrenIn(nodes, r[i])) \subseteq B /\ Closed(nodes, B)
  BY ClosureFacts DEF Mirrored, IsGraph, BelowIn
<1>3. \A k \in 1..n - 1 : r[k + 1] \in ToSet(ChildrenIn(nodes, r[k]))
  <2> SUFFICES ASSUME NEW k \in 1..n - 1 PROVE r[k + 1] \in ToSet(ChildrenIn(nodes, r[k]))
    OBVIOUS
  <2>1. k + 1 \in 1..n /\ k \in 1..n
    BY <1>1
  <2>2. nodes[r[k + 1]].parent = r[k] /\ r[k + 1] \in DOMAIN nodes /\ r[k] \in DOMAIN nodes \ {NoId}
    BY <1>1, <2>1
  <2> QED BY <2>2 DEF Mirrored, Listed
<1> HIDE DEF B, n
<1>4. i \in Nat /\ j \in Nat /\ i < j /\ j <= n /\ i >= 1
  BY <1>1 DEF n
<1>5. 0 \in S
  <2>1. i \in 1..n - 1 /\ i + 1 + 0 = i + 1 /\ 0 \in 0..n - (i + 1)
    BY <1>1, <1>4
  <2> QED BY <1>2, <1>3, <2>1
<1>6. ASSUME NEW k \in 0..n - (i + 1) - 1, k \in S PROVE k + 1 \in S
  <2>1. PICK at : at = i + 1 + k
    OBVIOUS
  <2>2. at \in 1..n - 1 /\ i + 1 + (k + 1) = at + 1 /\ k + 1 \in 0..n - (i + 1)
    BY <1>1, <1>4, <2>1
  <2>3. r[at + 1] \in ToSet(ChildrenIn(nodes, r[at])) /\ r[at] \in B
    BY <1>3, <1>6, <2>1, <2>2
  <2>4. r[at + 1] \in B
    BY <1>2, <2>3 DEF Closed, Kids
  <2> QED BY <2>2, <2>4
<1>7. \A k \in 0..n - (i + 1) : k \in S
  <2>1. n - (i + 1) \in Nat
    BY <1>1, <1>4
  <2> HIDE DEF S
  <2> QED BY <1>5, <1>6, <2>1, BoundedInduction
<1>8. j - (i + 1) \in 0..n - (i + 1) /\ i + 1 + (j - (i + 1)) = j
  BY <1>1, <1>4
<1>9. j - (i + 1) \in S
  BY <1>7, <1>8
<1>10. r[j] \in B
  BY <1>8, <1>9
<1> QED BY <1>10 DEF B

(* What is met from the parent is met from the child.                      *)
LEMMA ClimbOfParent ==
  ASSUME NEW nodes, IsGraph(nodes), NEW id, NEW r, Climb(nodes, id, r), NEW q, Climb(nodes, nodes[id].parent, q)
  PROVE  ToSet(q) \subseteq ToSet(r)
<1> DEFINE n == Len(r)
           T == ToSet(r)
<1>1. /\ n \in Nat \ {0} /\ r[n] = id /\ ToSet(r) = {r[i] : i \in 1..n}
      /\ \A i \in 1..n - 1 : nodes[r[i + 1]].parent = r[i]
      /\ nodes[r[1]].parent \notin DOMAIN nodes \ ({NoId} \cup T)
  <2>1. nodes[r[1]].parent \notin DOMAIN nodes \ ({NoId} \cup T)
    BY DEF Climb
  <2>2. /\ Len(r) \in Nat \ {0} /\ r[Len(r)] = id /\ ToSet(r) = {r[i] : i \in 1..Len(r)}
        /\ \A i \in 1..Len(r) - 1 : nodes[r[i + 1]].parent = r[i]
    BY ClimbFacts
  <2> HIDE DEF T
  <2> QED BY <2>1, <2>2
<1> HIDE DEF n
<1>2. ASSUME NEW x \in T, nodes[x].parent \in DOMAIN nodes \ {NoId} PROVE nodes[x].parent \in T
  <2>1. PICK i \in 1..n : x = r[i]
    BY <1>1
  <2>2. CASE i = 1
    BY <1>1, <1>2, <2>1, <2>2
  <2>3. CASE i # 1
    <3>1. i - 1 \in 1..n - 1 /\ (i - 1) + 1 = i /\ i - 1 \in 1..n
      BY <1>1, <2>3
    <3>2. nodes[x].parent = r[i - 1]
      BY <1>1, <2>1, <3>1
    <3> QED BY <1>1, <3>1, <3>2
  <2> QED BY <2>2, <2>3
<1>3. nodes[id].parent \in DOMAIN nodes \ {NoId}
  <2>1. Len(q) \in Nat \ {0} /\ q[Len(q)] = nodes[id].parent
        /\ \A i \in 1..Len(q) : q[i] \in DOMAIN nodes \ {NoId}
    BY ClimbFacts
  <2>2. Len(q) \in 1..Len(q)
    BY <2>1
  <2> QED BY <2>1, <2>2
<1>4. id \in T
  <2>1. n \in 1..n
    BY <1>1
  <2> QED BY <1>1, <2>1
<1>5. nodes[id].parent \in T
  BY <1>2, <1>3, <1>4
<1>6. \A x \in T \cap DOMAIN nodes : nodes[x].parent \in DOMAIN nodes \ {NoId} => nodes[x].parent \in T
  BY <1>2
<1> HIDE DEF T
<1>7. ToSet(q) \subseteq T
  BY <1>5, <1>6, ClimbWithin
<1> QED BY <1>7 DEF T

(* A node has below it what has it on its way up.                          *)
LEMMA OnTheWayUp ==
  ASSUME Mirrored(graph.nodes), NEW a \in Ids, NEW d \in Ids
  PROVE  /\ d \in Closure({a}) <=> a \in ToSet(PathToRoot(d))
         /\ a \in AncestorsOf(d) <=> a # d /\ d \in Below(a)
<1>1. PICK nodes : nodes = graph.nodes
  OBVIOUS
<1>2. IsGraph(nodes) /\ Agree(nodes) /\ IsFiniteSet(DOMAIN nodes) /\ Ids = DOMAIN nodes /\ NoId \notin Ids
  BY <1>1 DEF Mirrored, IsGraph, Ids
<1>3. \A x \in Ids : Climb(nodes, x, PathToRoot(x))
  BY <1>1, <1>2, PathToRootClimbs
<1>4. \A x \in Ids : x \in ToSet(PathToRoot(x))
  <2> SUFFICES ASSUME NEW x \in Ids PROVE x \in ToSet(PathToRoot(x))
    OBVIOUS
  <2>1. PICK r : r = PathToRoot(x) /\ Climb(nodes, x, r)
    BY <1>3
  <2>2. Len(r) \in Nat \ {0} /\ r[Len(r)] = x /\ ToSet(r) = {r[i] : i \in 1..Len(r)}
    BY <2>1, ClimbFacts
  <2>3. Len(r) \in 1..Len(r)
    BY <2>2
  <2> QED BY <2>1, <2>2, <2>3
<1>5. /\ Closure({a}) = ClosureIn(nodes, {a}) /\ Below(a) = BelowIn(nodes, a)
      /\ Closure({a}) = {a} \cup Below(a)
  BY <1>1, <1>2, LayersOfGraph, ClosureOfOne
<1>6. ASSUME d \in Closure({a}) PROVE a \in ToSet(PathToRoot(d))
  <2> DEFINE T == {x \in Ids : a \in ToSet(PathToRoot(x))}
  <2>1. {a} \subseteq T
    BY <1>4
  <2>2. Closed(nodes, T)
    <3> SUFFICES ASSUME NEW p \in T \cap DOMAIN nodes, NEW c \in ToSet(nodes[p].children) PROVE c \in T
      BY KidsOf
    <3>1. c \in Ids /\ nodes[c].parent = p
      BY <1>2 DEF Agree, ChildrenIn
    <3>2. Climb(nodes, c, PathToRoot(c)) /\ Climb(nodes, nodes[c].parent, PathToRoot(p))
      BY <1>3, <3>1
    <3>3. ToSet(PathToRoot(p)) \subseteq ToSet(PathToRoot(c))
      BY <1>2, <3>2, ClimbOfParent
    <3> QED BY <3>1, <3>3
  <2>3. ClosureIn(nodes, {a}) \subseteq T
    <3> HIDE DEF T
    <3> QED BY <1>2, <2>1, <2>2, ClosureFacts
  <2> QED BY <1>5, <1>6, <2>3
<1>7. ASSUME a \in ToSet(PathToRoot(d)) PROVE d \in Closure({a})
  <2>1. PICK r : r = PathToRoot(d) /\ Climb(nodes, d, r)
    BY <1>3
  <2>2. Len(r) \in Nat \ {0} /\ r[Len(r)] = d /\ ToSet(r) = {r[i] : i \in 1..Len(r)}
    BY <2>1, ClimbFacts
  <2>3. PICK i \in 1..Len(r) : a = r[i]
    BY <1>7, <2>1, <2>2
  <2>4. CASE i = Len(r)
    BY <1>5, <2>2, <2>3, <2>4
  <2>5. CASE i # Len(r)
    <3>1. Len(r) \in 1..Len(r) /\ i < Len(r)
      BY <2>2, <2>5
    <3>2. d \in BelowIn(nodes, a)
      <4>1. r[Len(r)] \in BelowIn(nodes, r[i])
        BY <1>1, <2>1, <3>1, PathLeadsDown
      <4> QED BY <2>2, <2>3, <4>1
    <3> QED BY <1>5, <3>2
  <2> QED BY <2>4, <2>5
<1>8. AncestorsOf(d) = ToSet(PathToRoot(d)) \ {d}
  BY DEF AncestorsOf
<1> QED BY <1>5, <1>6, <1>7, <1>8

(* The beginning of a way from a root.                                     *)
LEMMA RootedBegins ==
  ASSUME NEW nodes, NEW id, NEW r, Rooted(nodes, id, r), NEW n \in 1..Len(r)
  PROVE  /\ Rooted(nodes, r[n], SubSeq(r, 1, n)) /\ Len(SubSeq(r, 1, n)) = n
         /\ \A i \in 1..n : SubSeq(r, 1, n)[i] = r[i]
<1>1. PICK b : b = SubSeq(r, 1, n)
  OBVIOUS
<1>2. /\ r \in Seq(Nat) /\ Len(r) \in Nat \ {0} /\ NoRepeats(r)
      /\ \A i \in 1..Len(r) : r[i] \in DOMAIN nodes \ {NoId}
      /\ \A i \in 1..Len(r) - 1 : nodes[r[i + 1]].parent = r[i]
      /\ nodes[r[1]].parent \notin DOMAIN nodes
  BY ClimbFacts DEF Rooted
<1>3. n \in Nat \ {0} /\ n <= Len(r) /\ 1 \in 1..n /\ n \in 1..n /\ \A i \in 1..n : i \in 1..Len(r)
  BY <1>2
<1>4. b \in Seq(Nat) /\ Len(b) = n /\ \A i \in 1..n : b[i] = r[i]
  BY <1>1, <1>2, <1>3, SubSeqProperties
<1>5. b # << >> /\ End(b) = r[n] /\ ToSet(b) = {b[i] : i \in 1..n}
  BY <1>3, <1>4, EmptySeq, ToSetOfSeq DEF End
<1>6. ToSet(b) \subseteq DOMAIN nodes \ {NoId}
  BY <1>2, <1>3, <1>4, <1>5
<1>7. NoRepeats(b)
  BY ONLY <1>2, <1>3, <1>4 DEF NoRepeats
<1>8. \A i \in 1..Len(b) - 1 : nodes[b[i + 1]].parent = b[i]
  <2> SUFFICES ASSUME NEW i \in 1..n - 1 PROVE nodes[b[i + 1]].parent = b[i]
    BY <1>4
  <2>1. i \in 1..n /\ i + 1 \in 1..n /\ i \in 1..Len(r) - 1
    BY <1>2, <1>3
  <2> QED BY <1>2, <1>4, <2>1
<1>9. nodes[b[1]].parent \notin DOMAIN nodes
  BY <1>2, <1>3, <1>4
<1> QED BY <1>1, <1>4, <1>5, <1>6, <1>7, <1>8, <1>9 DEF Rooted, Climb

(* Siblings have each other.                                               *)
LEMMA SiblingsOfEachOther ==
  ASSUME Readable, GraphIsConsistent, NEW a \in Ids, NEW b \in SiblingNodes(a)
  PROVE  /\ b \in Ids /\ a \in SiblingNodes(b)
         /\ graph.nodes[a].parent \in Ids => graph.nodes[b].parent = graph.nodes[a].parent
         /\ graph.nodes[a].parent \notin Ids => graph.nodes[b].parent \notin Ids
<1>1. PICK nodes, p : nodes = graph.nodes /\ p = nodes[a].parent
  OBVIOUS
<1>2. /\ Listed(nodes) /\ Agree(nodes) /\ Topped(nodes, Roots) /\ Ids = DOMAIN nodes /\ NoId \notin Ids
      /\ Roots \subseteq Ids
  BY <1>1, ReadableGraph, ConsistentAgrees DEF Readable
<1>3. /\ \A x \in Roots : nodes[x].parent = NoId
      /\ \A id : Children(id) = ChildrenIn(nodes, id)
  BY <1>1, LayersOfGraph DEF GraphIsConsistent, Roots
<1>4. CASE p \in Ids
  <2>1. b \in ToSet(ChildrenIn(nodes, p)) /\ b # a
    BY <1>1, <1>3, <1>4 DEF SiblingNodes, GraphContainsNode, Ids
  <2>2. b \in Ids /\ nodes[b].parent = p
    BY <1>2, <1>4, <2>1 DEF Agree
  <2>3. a \in ToSet(ChildrenIn(nodes, p))
    BY <1>1, <1>2, <1>4 DEF Listed
  <2>4. a \in SiblingNodes(b)
    BY <1>1, <1>3, <1>4, <2>1, <2>2, <2>3 DEF SiblingNodes, GraphContainsNode, Ids
  <2> QED BY <1>1, <1>4, <2>2, <2>4
<1>5. CASE p \notin Ids
  <2>1. b \in Roots /\ b # a
    BY <1>1, <1>5 DEF SiblingNodes, GraphContainsNode, Ids, Roots
  <2>2. b \in Ids /\ nodes[b].parent \notin Ids
    BY <1>2, <1>3, <2>1
  <2>3. a \in Roots
    BY <1>1, <1>2, <1>5 DEF Topped
  <2>4. a \in SiblingNodes(b)
    BY <1>1, <2>1, <2>2, <2>3 DEF SiblingNodes, GraphContainsNode, Ids, Roots
  <2> QED BY <1>1, <1>5, <2>2, <2>4
<1> QED BY <1>4, <1>5

(* They are equally deep.                                                  *)
LEMMA SiblingsLevel ==
  ASSUME Readable, GraphIsConsistent, NEW depth, NEW a \in NodesAtDepth(depth), NEW b \in SiblingNodes(a)
  PROVE  b \in NodesAtDepth(depth)
<1>1. PICK nodes, p, r : nodes = graph.nodes /\ p = nodes[a].parent /\ r = PathToRoot(a)
  OBVIOUS
<1>2. a \in Ids /\ nodes[a].reachable /\ nodes[a].depth = depth
  BY <1>1 DEF NodesAtDepth
<1>3. /\ b \in Ids
      /\ p \in Ids => nodes[b].parent = p
      /\ p \notin Ids => nodes[b].parent \notin Ids
  BY <1>1, <1>2, SiblingsOfEachOther
<1>4. IsGraph(nodes) /\ Ids = DOMAIN nodes /\ NoId \notin Ids
  BY <1>1, ReadableGraph DEF Readable
<1>5. Anchored(a) /\ depth = Len(r) - 1
  BY <1>1, <1>2, MarkedAsRooted
<1>6. Rooted(nodes, a, r)
  BY <1>1, <1>2, <1>5, MarkedAtMost
<1>7. /\ Len(r) \in Nat \ {0} /\ r[Len(r)] = a
      /\ \A i \in 1..Len(r) : r[i] \in DOMAIN nodes
      /\ \A i \in 1..Len(r) - 1 : nodes[r[i + 1]].parent = r[i]
      /\ nodes[r[1]].parent \notin DOMAIN nodes
  BY <1>6, ClimbFacts DEF Rooted
<1>8. \E s : Rooted(nodes, b, s) /\ Len(s) = Len(r)
  <2>1. CASE p \in Ids
    <3>1. Len(r) # 1
      BY <1>1, <1>4, <1>7, <2>1
    <3>2. PICK n : n = Len(r) - 1
      OBVIOUS
    <3>3. n \in 1..Len(r) /\ n \in 1..Len(r) - 1 /\ n + 1 = Len(r) /\ n \in Nat
      BY <1>7, <3>1, <3>2
    <3>4. r[n] = p
      BY <1>1, <1>7, <3>3
    <3>5. PICK q : q = SubSeq(r, 1, n)
      OBVIOUS
    <3>6. Rooted(nodes, p, q) /\ Len(q) = n
      BY <1>6, <3>3, <3>4, <3>5, RootedBegins
    <3>7. Rooted(nodes, nodes[b].parent, q) /\ b \in DOMAIN nodes \ {NoId}
      BY <1>3, <1>4, <2>1, <3>6
    <3>8. b \notin ToSet(q)
      BY <3>7, ParentIsNotBelow
    <3>9. Rooted(nodes, b, Append(q, b))
      BY <1>4, <3>7, <3>8, RootedGrows
    <3>10. Len(Append(q, b)) = n + 1
      <4>1. q \in Seq(Nat) /\ b \in Nat
        BY <1>4, <3>6, <3>7, ClimbFacts DEF Rooted, IsGraph
      <4> QED BY <3>6, <4>1, AppendProperties
    <3> QED BY <3>3, <3>9, <3>10
  <2>2. CASE p \notin Ids
    <3>1. Len(r) = 1
      <4> SUFFICES ASSUME Len(r) # 1 PROVE FALSE
        OBVIOUS
      <4>1. Len(r) - 1 \in 1..Len(r) /\ Len(r) - 1 \in 1..Len(r) - 1 /\ (Len(r) - 1) + 1 = Len(r)
        <5>1. PICK n \in Nat \ {0} : n = Len(r)
          BY <1>7
        <5>2. n # 1
          BY <5>1
        <5>3. n - 1 \in 1..n /\ n - 1 \in 1..n - 1 /\ (n - 1) + 1 = n
          BY ONLY <5>2, n \in Nat \ {0}
        <5> QED BY ONLY <5>1, <5>3
      <4>2. r[Len(r) - 1] = p
        BY <1>1, <1>7, <4>1
      <4> QED BY <1>4, <1>7, <2>2, <4>1, <4>2
    <3>2. b \in DOMAIN nodes \ {NoId} /\ nodes[b].parent \notin DOMAIN nodes
      BY <1>3, <1>4, <2>2
    <3>3. Rooted(nodes, b, <<b>>)
      BY <1>4, <3>2, RootedAlone
    <3>4. Len(<<b>>) = 1
      OBVIOUS
    <3> QED BY <3>1, <3>3, <3>4
  <2> QED BY <2>1, <2>2
<1>9. PICK s : Rooted(nodes, b, s) /\ Len(s) = Len(r)
  BY <1>8
<1>10. PathToRoot(b) = s /\ Anchored(b)
  <2>1. IsGraph(graph.nodes) /\ b \in Ids \ {NoId} /\ Rooted(graph.nodes, b, s)
    BY <1>1, <1>3, <1>4, <1>9
  <2> QED BY ONLY <2>1, RootedIsPath
<1>11. nodes[b].reachable
  BY <1>1, <1>3, <1>10, MarkedAtMost
<1>12. nodes[b].depth = Len(s) - 1
  BY <1>1, <1>3, <1>10, <1>11, MarkedAsRooted
<1>13. nodes[b].depth = depth
  BY <1>5, <1>9, <1>12
<1> QED BY <1>1, <1>3, <1>11, <1>13 DEF NodesAtDepth

(* Where nothing is below itself a leaf is below everything.               *)
LEMMA LeafBelow ==
  ASSUME NEW nodes, Mirrored(nodes), Acyclic(nodes), NEW a \in DOMAIN nodes
  PROVE  \E x \in ClosureIn(nodes, {a}) \cap DOMAIN nodes : ChildrenIn(nodes, x) = << >>
<1> DEFINE D == DOMAIN nodes
           C == ClosureIn(nodes, {a})
           Size(x) == Cardinality(ClosureIn(nodes, {x}))
           T == {Size(x) : x \in C \cap D}
<1>1. IsFiniteSet(D) /\ Agree(nodes)
      /\ \A x \in D : ChildrenIn(nodes, x) \in Seq(Nat)
  BY DEF Mirrored, IsGraph, Info, ChildrenIn
<1>2. Closed(nodes, D)
  BY <1>1 DEF Closed, Kids, Agree, ChildrenIn, ToSet
<1>3. \A x \in D : ClosureIn(nodes, {x}) \subseteq D /\ IsFiniteSet(ClosureIn(nodes, {x})) /\ Size(x) \in Nat
  <2> SUFFICES ASSUME NEW x \in D
               PROVE  /\ ClosureIn(nodes, {x}) \subseteq D /\ IsFiniteSet(ClosureIn(nodes, {x}))
                      /\ Size(x) \in Nat
    OBVIOUS
  <2>1. ClosureIn(nodes, {x}) \subseteq D
    <3>1. {x} \subseteq D
      OBVIOUS
    <3> QED BY <1>1, <1>2, <3>1, ClosureFacts
  <2>2. IsFiniteSet(ClosureIn(nodes, {x}))
    BY <1>1, <2>1, FS_Subset
  <2> QED BY <2>1, <2>2, FS_CardinalityType
<1>4. a \in C
  BY <1>1, ClosureFacts
<1>5. PICK m \in T : \A n \in T : m <= n
  <2>1. T \in SUBSET Nat /\ T # {}
    BY <1>3, <1>4
  <2> HIDE DEF T
  <2> QED BY <2>1, LeastMember
<1>6. PICK x \in C \cap D : m = Size(x)
  OBVIOUS
<1>7. ASSUME ChildrenIn(nodes, x) # << >> PROVE FALSE
  <2>1. PICK c : c = Head(ChildrenIn(nodes, x))
    OBVIOUS
  <2>2. c \in ToSet(ChildrenIn(nodes, x))
    BY <1>1, <1>6, <1>7, <2>1, HeadAndTail
  <2>3. c \in D
    BY <1>1, <1>6, <2>2 DEF Agree
  <2>4. c \in C
    <3>1. Closed(nodes, C)
      BY <1>1, ClosureFacts
    <3> HIDE DEF C
    <3> QED BY <1>6, <2>2, <3>1 DEF Closed, Kids
  <2>5. PICK B, W : B = ClosureIn(nodes, {c}) /\ W = ClosureIn(nodes, {x})
    OBVIOUS
  <2>6. B \subseteq BelowIn(nodes, x)
    <3>1. {c} \subseteq BelowIn(nodes, x)
      BY <1>1, <2>2, ClosureOfOne
    <3>2. Closed(nodes, BelowIn(nodes, x))
      BY <1>1, ClosureFacts DEF BelowIn
    <3> QED BY <1>1, <2>5, <3>1, <3>2, ClosureFacts
  <2>7. W = {x} \cup BelowIn(nodes, x)
    BY <1>1, <2>5, ClosureOfOne
  <2>8. x \notin BelowIn(nodes, x)
    BY <1>6 DEF Acyclic
  <2>9. IsFiniteSet(W) /\ B \subseteq W /\ B # W
    BY <1>3, <1>6, <2>5, <2>6, <2>7, <2>8
  <2>10. Cardinality(B) < Cardinality(W)
    BY <2>9, FS_Subset, FS_CardinalityType
  <2>11. Size(c) \in T
    BY <2>3, <2>4
  <2>12. m <= Size(c) /\ Size(c) \in Nat /\ m \in Nat
    BY <1>3, <1>5, <1>6, <2>3, <2>11
  <2> QED BY <1>6, <2>5, <2>10, <2>12
<1> QED BY <1>6, <1>7

(* And a root above.                                                       *)
LEMMA AcyclicIsRooted ==
  ASSUME Mirrored(graph.nodes), Acyclic(graph.nodes), NEW id \in Ids
  PROVE  Rooted(graph.nodes, id, PathToRoot(id))
<1>1. PICK nodes, r : nodes = graph.nodes /\ r = PathToRoot(id)
  OBVIOUS
<1>2. IsGraph(nodes) /\ Listed(nodes) /\ NoId \notin DOMAIN nodes /\ Ids = DOMAIN nodes
      /\ IsFiniteSet(DOMAIN nodes)
  BY <1>1 DEF Mirrored, IsGraph, Ids
<1>3. Climb(nodes, id, r)
  BY <1>1, <1>2, PathToRootClimbs
<1>4. /\ Len(r) \in Nat \ {0} /\ ToSet(r) = {r[i] : i \in 1..Len(r)}
      /\ \A i \in 1..Len(r) : r[i] \in DOMAIN nodes \ {NoId}
  BY <1>3, ClimbFacts
<1>5. PICK q : q = nodes[r[1]].parent
  OBVIOUS
<1>6. q \notin DOMAIN nodes \ ({NoId} \cup ToSet(r))
  BY <1>3, <1>5 DEF Climb
<1>7. ASSUME q \in DOMAIN nodes PROVE FALSE
  <2>1. PICK t : t = r[1] /\ t \in DOMAIN nodes
    BY <1>4
  <2>2. t \in ToSet(ChildrenIn(nodes, q))
    BY <1>2, <1>5, <1>7, <2>1 DEF Listed
  <2>3. PICK j \in 1..Len(r) : q = r[j]
    BY <1>2, <1>4, <1>6, <1>7
  <2>4. t \in BelowIn(nodes, t)
    <3>1. CASE j = 1
      BY <1>2, <2>1, <2>2, <2>3, <3>1, ClosureOfOne
    <3>2. CASE j # 1
      <4>1. 1 \in 1..Len(r) /\ 1 < j
        BY <1>4, <3>2
      <4>2. q \in BelowIn(nodes, t)
        <5>1. r[j] \in BelowIn(nodes, r[1])
          BY <1>1, <1>3, <4>1, PathLeadsDown
        <5> QED BY <2>1, <2>3, <5>1
      <4>3. Closed(nodes, BelowIn(nodes, t))
        BY <1>2, ClosureFacts DEF BelowIn
      <4> QED BY <2>2, <4>2, <4>3 DEF Closed, Kids
    <3> QED BY <3>1, <3>2
  <2> QED BY <1>1, <2>1, <2>4 DEF Acyclic
<1> QED BY <1>1, <1>3, <1>5, <1>7 DEF Rooted

LEMMA GreatestIsMax ==
  ASSUME NEW N \in Nat, NEW T \in SUBSET (0..N), T # {}
  PROVE  Max(T) \in T /\ \A y \in T : y <= Max(T)
<1>1. PICK x \in T : \A y \in T : y <= x
  BY GreatestMember
<1>2. \A y \in T : x >= y
  BY <1>1
<1> QED BY <1>2 DEF Max

(* Two ways from a root to one node are one way.                           *)
LEMMA OneWayToEach ==
  ASSUME NEW nodes, NEW left, NEW l, Rooted(nodes, left, l), NEW right, NEW r, Rooted(nodes, right, r),
         NEW i \in 1..Len(l), NEW j \in 1..Len(r), l[i] = r[j]
  PROVE  i = j /\ \A k \in 1..i : l[k] = r[k]
<1>1. PICK a, b : a = SubSeq(l, 1, i) /\ b = SubSeq(r, 1, j)
  OBVIOUS
<1>2. Rooted(nodes, l[i], a) /\ Len(a) = i /\ \A k \in 1..i : a[k] = l[k]
  BY <1>1, RootedBegins
<1>3. Rooted(nodes, r[j], b) /\ Len(b) = j /\ \A k \in 1..j : b[k] = r[k]
  BY <1>1, RootedBegins
<1>4. Rooted(nodes, l[i], a) /\ Climb(nodes, l[i], b)
  BY <1>2, <1>3 DEF Rooted
<1>5. b = a
  BY ONLY <1>4, RootedIsOnlyClimb
<1> QED BY <1>2, <1>3, <1>5

(* The last place two paths share has the lowest node above both.          *)
LEMMA LowestIsLowest ==
  ASSUME Mirrored(graph.nodes), Acyclic(graph.nodes), NEW left \in Ids, NEW right \in Ids
  PROVE  LET common == {c \in Ids : {left, right} \subseteq Closure({c})}
             lowest == LowestCommonAncestor(left, right)
         IN IF common = {} THEN lowest = NoId
            ELSE lowest \in common /\ \A c \in common : lowest \in Closure({c})
<1> DEFINE common == {c \in Ids : {left, right} \subseteq Closure({c})}
           nodes == graph.nodes
           l == PathToRoot(left)
           r == PathToRoot(right)
           shared == {n \in 1..Len(l) : n <= Len(r) /\ \A i \in 1..n : l[i] = r[i]}
           lowest == LowestCommonAncestor(left, right)
<1>1. lowest = IF shared = {} THEN NoId ELSE l[Max(shared)]
  BY DEF LowestCommonAncestor
<1>2. Rooted(nodes, left, l) /\ Rooted(nodes, right, r)
  BY AcyclicIsRooted
<1>3. /\ Climb(nodes, left, l) /\ Mirrored(nodes) /\ IsFiniteSet(DOMAIN nodes)
      /\ Ids = DOMAIN nodes
  BY <1>2 DEF Rooted, Mirrored, IsGraph, Ids
<1>4. /\ Len(l) \in Nat \ {0} /\ ToSet(l) = {l[i] : i \in 1..Len(l)}
      /\ \A i \in 1..Len(l) : l[i] \in Ids
  BY <1>2, <1>3, ClimbFacts DEF Rooted
<1>5. Len(r) \in Nat \ {0} /\ ToSet(r) = {r[i] : i \in 1..Len(r)}
  BY <1>2, ClimbFacts DEF Rooted
<1>6. \A c \in Ids : c \in common <=> c \in ToSet(l) /\ c \in ToSet(r)
  BY OnTheWayUp
<1>7. \A a \in Ids : Closure({a}) = {a} \cup BelowIn(nodes, a)
  BY <1>3, LayersOfGraph, ClosureOfOne
<1> HIDE DEF common, nodes, l, r, lowest
<1>8. \A n \in shared : l[n] \in common
  <2> SUFFICES ASSUME NEW n \in shared PROVE l[n] \in common
    OBVIOUS
  <2>1. n \in 1..Len(l) /\ n \in 1..Len(r) /\ n \in 1..n /\ l[n] = r[n]
    BY <1>4, <1>5
  <2> QED BY <1>4, <1>5, <1>6, <2>1
<1>9. \A c \in common : \E n \in shared : l[n] = c
  <2> SUFFICES ASSUME NEW c \in common PROVE \E n \in shared : l[n] = c
    OBVIOUS
  <2>1. c \in ToSet(l) /\ c \in ToSet(r)
    BY <1>6 DEF common
  <2>2. PICK i \in 1..Len(l) : c = l[i]
    BY <1>4, <2>1
  <2>3. PICK j \in 1..Len(r) : c = r[j]
    BY <1>5, <2>1
  <2>4. l[i] = r[j]
    BY <2>2, <2>3
  <2>5. i = j /\ \A k \in 1..i : l[k] = r[k]
    BY ONLY <1>2, <2>4, OneWayToEach, i \in 1..Len(l), j \in 1..Len(r)
  <2>6. i \in shared
    BY <1>5, <2>5
  <2> QED BY <2>2, <2>6
<1>10. shared = {} <=> common = {}
  <2> HIDE DEF shared
  <2> QED BY <1>8, <1>9
<1>11. CASE shared = {}
  <2> HIDE DEF shared
  <2>1. common = {} /\ lowest = NoId
    BY <1>1, <1>10, <1>11
  <2> QED BY <2>1 DEF common, lowest
<1>12. CASE shared # {}
  <2>1. PICK m : m = Max(shared)
    OBVIOUS
  <2>2. m \in shared /\ \A n \in shared : n <= m
    <3>1. shared \in SUBSET (0..Len(l)) /\ Len(l) \in Nat
      BY <1>4
    <3> HIDE DEF shared
    <3> QED BY ONLY <1>12, <2>1, <3>1, GreatestIsMax
  <2>3. shared \subseteq 1..Len(l)
    OBVIOUS
  <2> HIDE DEF shared
  <2>4. lowest = l[m] /\ lowest \in common
    BY <1>1, <1>8, <1>12, <2>1, <2>2
  <2>5. ASSUME NEW c \in common PROVE lowest \in Closure({c})
    <3>1. PICK n \in shared : l[n] = c
      BY <1>9
    <3>2. n \in 1..Len(l) /\ m \in 1..Len(l) /\ n <= m
      BY <2>2, <2>3
    <3>3. c \in Ids
      BY DEF common
    <3>4. CASE n = m
      BY <1>7, <2>4, <3>1, <3>3, <3>4
    <3>5. CASE n # m
      <4>1. n < m
        BY <3>2, <3>5
      <4>2. l[m] \in BelowIn(nodes, l[n])
        BY ONLY <1>3, <3>2, <4>1, PathLeadsDown
      <4> QED BY <1>7, <2>4, <3>1, <3>3, <4>2
    <3> QED BY <3>4, <3>5
  <2>6. common # {}
    BY <2>4
  <2> QED BY <2>4, <2>5, <2>6 DEF common, lowest
<1> QED BY <1>11, <1>12

LEMMA MirrorRead ==
  ASSUME GraphInv, Names
  PROVE  AncestorsMirrorDescendants
<1> SUFFICES ASSUME stage = "built", GraphIsConsistent, NoId \notin Ids
             PROVE  /\ \A a, d \in Ids : a \in AncestorsOf(d) <=> a # d /\ d \in Below(a)
                    /\ \A a, b \in Ids : b \in SiblingNodes(a) => a \in SiblingNodes(b)
                    /\ \A a \in Ids, depth \in 0..Len(scene) :
                         a \in NodesAtDepth(depth) => SiblingNodes(a) \subseteq NodesAtDepth(depth)
                    /\ graph.cycles = << >> => \A a \in Ids : Closure({a}) \cap LeafNodes # {}
                    /\ graph.cycles = << >> =>
                         \A left, right \in Ids :
                           LET common == {c \in Ids : {left, right} \subseteq Closure({c})}
                               lowest == LowestCommonAncestor(left, right)
                           IN IF common = {} THEN lowest = NoId
                              ELSE lowest \in common /\ \A c \in common : lowest \in Closure({c})
  BY DEF AncestorsMirrorDescendants
<1>1. Readable
  BY DEF Readable
<1>2. Mirrored(graph.nodes) /\ Ids = DOMAIN graph.nodes
  BY <1>1, ReadableGraph, ConsistentAgrees DEF Mirrored
<1>3. graph.cycles = << >> => Acyclic(graph.nodes)
  <2>1. CyclesKnown
    BY DEF GraphInv, Building
  <2> QED BY <1>2, <2>1 DEF CyclesKnown, Acyclic
<1>4. \A a, d \in Ids : a \in AncestorsOf(d) <=> a # d /\ d \in Below(a)
  BY <1>2, OnTheWayUp
<1>5. \A a, b \in Ids : b \in SiblingNodes(a) => a \in SiblingNodes(b)
  BY <1>1, SiblingsOfEachOther
<1>6. \A a \in Ids, depth \in 0..Len(scene) :
        a \in NodesAtDepth(depth) => SiblingNodes(a) \subseteq NodesAtDepth(depth)
  BY <1>1, SiblingsLevel
<1>7. ASSUME graph.cycles = << >>, NEW a \in Ids PROVE Closure({a}) \cap LeafNodes # {}
  <2>1. PICK x \in ClosureIn(graph.nodes, {a}) \cap Ids : ChildrenIn(graph.nodes, x) = << >>
    BY <1>2, <1>3, <1>7, LeafBelow
  <2> QED BY <2>1, LayersOfGraph DEF LeafNodes
<1>8. ASSUME graph.cycles = << >>, NEW left \in Ids, NEW right \in Ids
      PROVE  LET common == {c \in Ids : {left, right} \subseteq Closure({c})}
                 lowest == LowestCommonAncestor(left, right)
             IN IF common = {} THEN lowest = NoId
                ELSE lowest \in common /\ \A c \in common : lowest \in Closure({c})
  <2>1. Mirrored(graph.nodes) /\ Acyclic(graph.nodes)
    BY <1>2, <1>3, <1>8
  <2> QED BY ONLY <2>1, LowestIsLowest, left \in Ids, right \in Ids
<1>9. graph.cycles = << >> => \A a \in Ids : Closure({a}) \cap LeafNodes # {}
  BY <1>7
<1> QED BY <1>4, <1>5, <1>6, <1>8, <1>9

-----------------------------------------------------------------------------
(* The ways up say what the ways down say, whatever the nodes and their    *)
(* links, when no node has the id kInvalidObjectId: the three depths and,  *)
(* for consistent links, ancestors and descendants, siblings, leaves and   *)
(* the lowest common ancestor.                                             *)
THEOREM WaysUpAlwaysAgree == Spec => []WaysUpAgree
<1>1. AnswerInv => WaysUpAgree
  BY DepthsRead, MirrorRead DEF AnswerInv, WaysUpAgree
<1> QED BY <1>1, AnswerInvHolds, PTL
=============================================================================
