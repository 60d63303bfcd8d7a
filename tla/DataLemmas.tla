----------------------------- MODULE DataLemmas -----------------------------
(***************************************************************************)
(* Facts about numbers and sequences that the proofs of several parts use. *)
(*                                                                         *)
(* Induction is stated for a set of numbers, not for a predicate: it       *)
(* follows from the least member of a set.  A proof about a function that  *)
(* is defined by recursion takes the set of arguments up to which there is *)
(* such a function.                                                        *)
(***************************************************************************)
EXTENDS Sorting, FiniteSetTheorems, FunctionTheorems, SequenceTheorems,
        WellFoundedInduction, TLAPS

(* A non-empty set of naturals has a least member.                         *)
LEMMA LeastMember ==
  ASSUME NEW T \in SUBSET Nat, T # {}
  PROVE  \E x \in T : \A y \in T : x <= y
<1>1. PICK x \in T : \A y \in T : ~(<<y, x>> \in OpToRel(<, Nat))
  BY NatLessThanWellFounded, WFMin
<1>2. ASSUME NEW y \in T PROVE x <= y
  <2>1. <<y, x>> \notin {ss \in Nat \X Nat : ss[1] < ss[2]}
    BY <1>1 DEF OpToRel
  <2>2. y \in Nat /\ x \in Nat
    OBVIOUS
  <2>3. ~(y < x)
    BY <2>1, <2>2
  <2> QED BY <2>2, <2>3
<1> QED BY <1>2

(* A bounded one has a greatest member, too.                               *)
LEMMA GreatestMember ==
  ASSUME NEW N \in Nat, NEW T \in SUBSET (0..N), T # {}
  PROVE  \E x \in T : \A y \in T : y <= x
<1> DEFINE D == {d \in 0..N : N - d \in T}
<1>1. D \in SUBSET Nat /\ D # {}
  <2>1. PICK t \in T : TRUE
    OBVIOUS
  <2>2. N - t \in D
    BY <2>1
  <2> QED BY <2>2
<1>2. PICK d \in D : \A c \in D : d <= c
  <2> HIDE DEF D
  <2> QED BY <1>1, LeastMember
<1>3. \A y \in T : N - y \in D
  OBVIOUS
<1>4. \A y \in T : y <= N - d
  BY <1>2, <1>3
<1> QED BY <1>4

(* What holds of 0, and of n + 1 if it holds of n, holds of every natural. *)
LEMMA InductionOnSet ==
  ASSUME NEW S, 0 \in S, \A n \in Nat : n \in S => n + 1 \in S
  PROVE  \A n \in Nat : n \in S
<1> SUFFICES ASSUME Nat \ S # {} PROVE FALSE
  OBVIOUS
<1>1. PICK x \in Nat \ S : \A y \in Nat \ S : x <= y
  BY LeastMember
<1>2. x # 0
  OBVIOUS
<1>3. x - 1 \in Nat /\ x - 1 \in S
  BY <1>1, <1>2
<1>4. (x - 1) + 1 = x
  OBVIOUS
<1> QED BY <1>3, <1>4

(* The same up to a bound.                                                 *)
LEMMA BoundedInduction ==
  ASSUME NEW N \in Nat, NEW S, 0 \in S, \A n \in 0..N - 1 : n \in S => n + 1 \in S
  PROVE  \A n \in 0..N : n \in S
<1> DEFINE T == {n \in Nat : n <= N => n \in S}
<1>1. 0 \in T
  OBVIOUS
<1>2. \A n \in Nat : n \in T => n + 1 \in T
  OBVIOUS
<1>3. \A n \in Nat : n \in T
  <2> HIDE DEF T
  <2> QED BY <1>1, <1>2, InductionOnSet
<1> QED BY <1>3

(* A function on 1..n is a sequence of length n.                           *)
LEMMA FunctionIsSeq ==
  ASSUME NEW S, NEW n \in Nat, NEW s \in [1..n -> S]
  PROVE  s \in Seq(S) /\ Len(s) = n
<1>1. DOMAIN s = 1..n
  OBVIOUS
<1>2. s \in Seq(S)
  BY SeqDef
<1> QED BY <1>1, <1>2, LenProperties

(* A function of 0, and of each number and the value before it.            *)
IsRecursive(f, n, V, first, step) ==
  f \in [0..n -> V] /\ f[0] = first /\ \A i \in 1..n : f[i] = step[<<f[i - 1], i>>]

LEMMA RecursionUp ==
  ASSUME NEW n \in Nat, NEW V, NEW first \in V, NEW step \in [V \X (1..n) -> V]
  PROVE  \E f : IsRecursive(f, n, V, first, step)
<1> DEFINE Upto(m, f) == /\ f \in [0..m -> V] /\ f[0] = first
                         /\ \A i \in 1..m : f[i] = step[<<f[i - 1], i>>]
           T == {m \in 0..n : \E f : Upto(m, f)}
<1>1. 0 \in T
  <2>1. Upto(0, [i \in 0..0 |-> first])
    OBVIOUS
  <2> HIDE DEF Upto
  <2> QED BY <2>1
<1>2. ASSUME NEW m \in 0..n - 1, m \in T PROVE m + 1 \in T
  <2>1. PICK f : Upto(m, f)
    BY <1>2
  <2>2. PICK g : g = [i \in 0..m + 1 |-> IF i = m + 1 THEN step[<<f[m], m + 1>>] ELSE f[i]]
    OBVIOUS
  <2>3. f[m] \in V /\ step[<<f[m], m + 1>>] \in V
    <3>1. m + 1 \in 1..n /\ m \in 0..m
      OBVIOUS
    <3> QED BY <2>1, <3>1
  <2>4. \A i \in 0..m : g[i] = f[i] /\ g[i] \in V
    <3>1. \A i \in 0..m : i \in 0..m + 1 /\ i # m + 1
      OBVIOUS
    <3> QED BY <2>1, <2>2, <3>1
  <2>5. g[m + 1] = step[<<f[m], m + 1>>]
    BY <2>2
  <2>6. g \in [0..m + 1 -> V]
    <3>1. \A i \in 0..m + 1 : i \in 0..m \/ i = m + 1
      OBVIOUS
    <3> QED BY <2>2, <2>3, <2>4, <3>1
  <2>7. ASSUME NEW i \in 1..m + 1 PROVE g[i] = step[<<g[i - 1], i>>]
    <3>1. CASE i = m + 1
      <4>1. i - 1 = m /\ g[m] = f[m]
        BY <2>4, <3>1
      <4> QED BY <2>5, <3>1, <4>1
    <3>2. CASE i # m + 1
      <4>1. i \in 0..m /\ i - 1 \in 0..m /\ i \in 1..m
        BY <3>2
      <4>2. g[i] = f[i] /\ g[i - 1] = f[i - 1]
        BY <2>4, <4>1
      <4> QED BY <2>1, <4>1, <4>2
    <3> QED BY <3>1, <3>2
  <2>8. g[0] = first
    BY <2>1, <2>4
  <2>9. Upto(m + 1, g)
    BY <2>6, <2>7, <2>8
  <2> HIDE DEF Upto
  <2> QED BY <2>9
<1>3. n \in T
  <2> HIDE DEF T
  <2> QED BY <1>1, <1>2, BoundedInduction
<1> QED BY <1>3 DEF IsRecursive

(* Behind the first of two sequences comes the second.                     *)
Joined(ab, a, b) ==
  /\ Len(a) \in Nat /\ Len(b) \in Nat /\ Len(ab) = Len(a) + Len(b)
  /\ \A k \in 1..Len(a) : ab[k] = a[k]
  /\ \A k \in 1..Len(b) : ab[Len(a) + k] = b[k]

LEMMA ConcatPlaces ==
  ASSUME NEW S, NEW a \in Seq(S), NEW b \in Seq(S)
  PROVE  a \o b \in Seq(S) /\ Joined(a \o b, a, b)
<1>1. Len(a) \in Nat /\ Len(b) \in Nat
  OBVIOUS
<1>2. \A i \in 1..Len(a) + Len(b) : (a \o b)[i] = IF i <= Len(a) THEN a[i] ELSE b[i - Len(a)]
  OBVIOUS
<1>3. \A k \in 1..Len(a) : k \in 1..Len(a) + Len(b) /\ k <= Len(a)
  BY <1>1
<1>4. ASSUME NEW k \in 1..Len(b) PROVE (a \o b)[Len(a) + k] = b[k]
  <2>1. Len(a) + k \in 1..Len(a) + Len(b) /\ ~(Len(a) + k <= Len(a)) /\ (Len(a) + k) - Len(a) = k
    BY <1>1
  <2> QED BY <1>2, <2>1
<1> QED BY <1>1, <1>2, <1>3, <1>4 DEF Joined

(* What is cut out of a sequence.                                          *)
IsPart(part, s, m, n) == Len(part) = n /\ \A k \in 1..n : part[k] = s[m + k]

LEMMA PartOfSeq ==
  ASSUME NEW S, NEW s \in Seq(S), NEW m \in Nat, NEW n \in Nat, m + n <= Len(s)
  PROVE  SubSeq(s, m + 1, m + n) \in Seq(S) /\ IsPart(SubSeq(s, m + 1, m + n), s, m, n)
<1>1. PICK part : part = SubSeq(s, m + 1, m + n)
  OBVIOUS
<1>2. part \in Seq(S)
  BY <1>1, SubSeqProperties
<1>3. Len(s) \in Nat
  OBVIOUS
<1>4. Len(part) = n
  BY <1>1, <1>3
<1>5. ASSUME NEW k \in 1..n PROVE part[k] = s[m + k]
  <2>1. (m + 1) + k - 1 = m + k /\ k \in 1..((m + n) - (m + 1)) + 1
    OBVIOUS
  <2> QED BY <1>1, <1>3, <2>1
<1> QED BY <1>1, <1>2, <1>4, <1>5 DEF IsPart

(***************************************************************************)
(* Sorting.                                                                *)
(***************************************************************************)

(* Place j comes before place i in a stable sort of the keys.              *)
Precedes(key, j, i) == key[j] < key[i] \/ (key[j] = key[i] /\ j < i)
Earlier(key, P, i)  == {j \in P : Precedes(key, j, i)}

LEMMA Interval ==
  ASSUME NEW n \in Nat
  PROVE  IsFiniteSet(1..n) /\ Cardinality(1..n) = n
BY FS_Interval

(* The ranks of the places are 1, 2, and so on, each once.                 *)
LEMMA RanksArePlaces ==
  ASSUME NEW P, P \subseteq Nat, IsFiniteSet(P), NEW key \in [P -> Int], NEW rank,
         rank = [i \in P |-> Cardinality(Earlier(key, P, i)) + 1]
  PROVE  /\ rank \in Bijection(P, 1..Cardinality(P))
         /\ \A i, j \in P : Precedes(key, i, j) => rank[i] < rank[j]
<1> DEFINE n == Cardinality(P)
<1>1. n \in Nat /\ IsFiniteSet(1..n) /\ Cardinality(1..n) = n
  BY FS_Interval, FS_CardinalityType
<1>2. ASSUME NEW i \in P
      PROVE  /\ IsFiniteSet(Earlier(key, P, i))
             /\ Cardinality(Earlier(key, P, i)) \in Nat
             /\ Cardinality(Earlier(key, P, i)) < n
  <2>1. Earlier(key, P, i) \in SUBSET P /\ i \notin Earlier(key, P, i)
    BY DEF Earlier, Precedes
  <2>2. /\ IsFiniteSet(Earlier(key, P, i))
        /\ Cardinality(Earlier(key, P, i)) <= n
        /\ Cardinality(Earlier(key, P, i)) = n => P = Earlier(key, P, i)
    BY <2>1, FS_Subset
  <2>3. Cardinality(Earlier(key, P, i)) \in Nat
    BY <2>2, FS_CardinalityType
  <2> QED BY <1>1, <2>1, <2>2, <2>3
<1>3. ASSUME NEW i \in P, NEW j \in P, Precedes(key, i, j)
      PROVE  rank[i] < rank[j]
  <2>1. /\ Earlier(key, P, i) \in SUBSET Earlier(key, P, j)
        /\ i \in Earlier(key, P, j) \ Earlier(key, P, i)
    <3>1. \A x \in P : Precedes(key, x, i) => Precedes(key, x, j)
      BY <1>3 DEF Precedes
    <3>2. ~Precedes(key, i, i)
      BY DEF Precedes
    <3> QED BY <1>3, <3>1, <3>2 DEF Earlier
  <2>2. /\ Cardinality(Earlier(key, P, i)) <= Cardinality(Earlier(key, P, j))
        /\ Cardinality(Earlier(key, P, i)) # Cardinality(Earlier(key, P, j))
    BY <1>2, <2>1, FS_Subset
  <2> QED BY <1>2, <2>2
<1>4. ASSUME NEW i \in P, NEW j \in P, i # j PROVE rank[i] # rank[j]
  <2>1. Precedes(key, i, j) \/ Precedes(key, j, i)
    BY <1>4 DEF Precedes
  <2>2. rank[i] \in Nat /\ rank[j] \in Nat
    BY <1>2
  <2> QED BY <1>3, <2>1, <2>2
<1>5. rank \in [P -> 1..n]
  <2>1. ASSUME NEW i \in P PROVE Cardinality(Earlier(key, P, i)) + 1 \in 1..n
    <3> DEFINE c == Cardinality(Earlier(key, P, i))
    <3>1. c \in Nat /\ c < n
      BY <1>2
    <3> HIDE DEF c
    <3>2. c + 1 \in 1..n
      BY <1>1, <3>1
    <3> QED BY <3>2 DEF c
  <2> QED BY <2>1
<1>6. rank \in Injection(P, 1..n)
  BY <1>4, <1>5 DEF Injection, IsInjective
<1>7. rank \in Surjection(P, 1..n)
  BY <1>1, <1>6, FS_Injection
<1> QED BY <1>3, <1>6, <1>7 DEF Bijection

(* Each k is sent to a place with k - 1 earlier ones, when there is one.   *)
TakesRanks(place, key, P, n) ==
  /\ place = [k \in 1..n |-> place[k]]
  /\ \A k \in 1..n :
       (\E i \in P : Cardinality(Earlier(key, P, i)) = k - 1) =>
         place[k] \in P /\ Cardinality(Earlier(key, P, place[k])) = k - 1

(* Taking for each k the place of rank k lists every place once, in the    *)
(* order of the sort.                                                      *)
LEMMA PlacesInOrder ==
  ASSUME NEW P, P \subseteq Nat, IsFiniteSet(P), NEW n, n = Cardinality(P),
         NEW key \in [P -> Int], NEW place, TakesRanks(place, key, P, n)
  PROVE  /\ n \in Nat
         /\ place \in Bijection(1..n, P)
         /\ \A k, l \in 1..n : k < l => Precedes(key, place[k], place[l])
<1> DEFINE Before(i) == Cardinality(Earlier(key, P, i))
           rank == [i \in P |-> Before(i) + 1]
<1>1. n \in Nat
  BY FS_CardinalityType
<1>2. /\ rank \in Bijection(P, 1..n)
      /\ \A i, j \in P : Precedes(key, i, j) => rank[i] < rank[j]
  BY RanksArePlaces
<1>3. \A i \in P : rank[i] = Before(i) + 1 /\ Before(i) \in Nat
  <2>1. ASSUME NEW i \in P PROVE Before(i) \in Nat
    BY FS_Subset, FS_CardinalityType DEF Earlier
  <2> QED BY <2>1
<1> HIDE DEF rank
<1>4. \A k \in 1..n : place[k] \in P /\ rank[place[k]] = k
  <2>1. ASSUME NEW k \in 1..n PROVE place[k] \in P /\ rank[place[k]] = k
    <3>1. PICK i \in P : rank[i] = k
      BY <1>2 DEF Bijection, Surjection
    <3>2. Before(i) = k - 1
      BY <1>1, <1>3, <3>1
    <3>3. place[k] \in P /\ Before(place[k]) = k - 1
      BY <3>2 DEF TakesRanks
    <3> HIDE DEF Before
    <3>4. rank[place[k]] = k - 1 + 1
      BY <1>3, <3>3
    <3> QED BY <1>1, <3>3, <3>4
  <2> QED BY <2>1
<1> HIDE DEF Before
<1>5. \A i \in P : rank[i] \in 1..n /\ place[rank[i]] = i
  <2>1. ASSUME NEW i \in P PROVE rank[i] \in 1..n /\ place[rank[i]] = i
    <3>1. rank[i] \in 1..n
      BY <1>2 DEF Bijection, Injection
    <3>2. place[rank[i]] \in P /\ rank[place[rank[i]]] = rank[i]
      BY <1>4, <3>1
    <3> QED BY <1>2, <3>1, <3>2 DEF Bijection, Injection, IsInjective
  <2> QED BY <2>1
<1>6. place \in [1..n -> P]
  <2>1. \A k \in 1..n : place[k] \in P
    BY <1>4
  <2> QED BY <2>1 DEF TakesRanks
<1>7. place \in Bijection(1..n, P)
  <2>1. place \in Injection(1..n, P)
    BY <1>4, <1>6 DEF Injection, IsInjective
  <2>2. place \in Surjection(1..n, P)
    BY <1>5, <1>6 DEF Surjection
  <2> QED BY <2>1, <2>2 DEF Bijection
<1>8. ASSUME NEW k \in 1..n, NEW l \in 1..n, k < l
      PROVE  Precedes(key, place[k], place[l])
  <2>1. place[k] \in P /\ place[l] \in P /\ rank[place[k]] = k /\ rank[place[l]] = l
    BY <1>4
  <2>2. place[k] # place[l]
    BY <1>1, <1>8, <2>1
  <2>3. Precedes(key, place[k], place[l]) \/ Precedes(key, place[l], place[k])
    <3>1. /\ place[k] \in Int /\ place[l] \in Int
          /\ key[place[k]] \in Int /\ key[place[l]] \in Int
      <4>1. \A i \in P : i \in Int /\ key[i] \in Int
        OBVIOUS
      <4>2. place[k] \in P /\ place[l] \in P
        BY <2>1
      <4> QED BY <4>1, <4>2
    <3> QED BY <2>2, <3>1 DEF Precedes
  <2>4. ~Precedes(key, place[l], place[k])
    <3>1. ~(l < k)
      BY <1>1, <1>8
    <3> QED BY <1>2, <2>1, <3>1
  <2> QED BY <2>3, <2>4
<1> QED BY <1>1, <1>7, <1>8

(* A sequence lists the objects at some places, each of them once, in the  *)
(* order of their ids.                                                     *)
Lists(sorted, objects, P, place) ==
  /\ place \in Bijection(1..Cardinality(P), P)
  /\ sorted = [k \in 1..Cardinality(P) |-> objects[place[k]]]
  /\ \A k, l \in 1..Cardinality(P) :
       k < l => objects[place[k]].id <= objects[place[l]].id

LEMMA PlacesByIdSorts ==
  ASSUME NEW objects, Len(objects) \in Nat,
         \A i \in 1..Len(objects) : objects[i].id \in Int,
         NEW P \in SUBSET (1..Len(objects))
  PROVE  /\ Cardinality(P) \in Nat
         /\ \E place : Lists(PlacesById(objects, P), objects, P, place)
<1> DEFINE n == Cardinality(P)
           key == [i \in P |-> objects[i].id]
           Before(j, i) == \/ objects[j].id < objects[i].id
                           \/ objects[j].id = objects[i].id /\ j < i
           Rank(i) == Cardinality({j \in P : Before(j, i)})
           place == [k \in 1..n |-> CHOOSE i \in P : Rank(i) = k - 1]
<1>1. /\ Len(objects) \in Nat /\ P \subseteq Nat /\ IsFiniteSet(P)
      /\ \A i \in P : objects[i].id \in Int
  <2>1. IsFiniteSet(P)
    BY Interval, FS_Subset
  <2> QED BY <2>1
<1>2. key \in [P -> Int]
  BY <1>1
<1>3. PlacesById(objects, P) = [k \in 1..n |-> objects[place[k]]]
  BY DEF PlacesById, SortPlaces
<1>4. \A i \in P : Rank(i) = Cardinality(Earlier(key, P, i))
  <2>1. ASSUME NEW i \in P PROVE {j \in P : Before(j, i)} = Earlier(key, P, i)
    BY DEF Earlier, Precedes
  <2> QED BY <2>1
<1> HIDE DEF key, Rank
<1>5. /\ n \in Nat
      /\ place \in Bijection(1..n, P)
      /\ \A k, l \in 1..n : k < l => Precedes(key, place[k], place[l])
  <2>1. TakesRanks(place, key, P, n)
    <3>1. ASSUME NEW k \in 1..n, NEW i \in P, Cardinality(Earlier(key, P, i)) = k - 1
          PROVE  place[k] \in P /\ Rank(place[k]) = k - 1
      BY <1>4, <3>1
    <3>2. place = [k \in 1..n |-> place[k]]
      OBVIOUS
    <3> HIDE DEF place
    <3> QED BY <1>4, <3>1, <3>2 DEF TakesRanks
  <2> HIDE DEF place, n
  <2>3. n = Cardinality(P) /\ P \subseteq Nat /\ IsFiniteSet(P)
    BY <1>1 DEF n
  <2> QED BY <1>2, <2>1, <2>3, PlacesInOrder
<1> HIDE DEF place, n
<1>6. ASSUME NEW k \in 1..n, NEW l \in 1..n, k < l
      PROVE  objects[place[k]].id <= objects[place[l]].id
  <2>1. place[k] \in P /\ place[l] \in P
    BY <1>5 DEF Bijection, Injection
  <2>2. key[place[k]] = objects[place[k]].id /\ key[place[l]] = objects[place[l]].id
    BY <2>1 DEF key
  <2>3. Precedes(key, place[k], place[l])
    BY <1>5, <1>6
  <2>4. key[place[k]] \in Int /\ key[place[l]] \in Int
    BY <1>2, <2>1
  <2> QED BY <2>2, <2>3, <2>4 DEF Precedes
<1>7. n = Cardinality(P)
  BY DEF n
<1> QED BY <1>3, <1>5, <1>6, <1>7 DEF Lists

(* A collection sorted by id: every object in one place.                   *)
LEMMA SortByIdPermutes ==
  ASSUME NEW S, \A x \in S : x.id \in Int, NEW objects \in Seq(S)
  PROVE  /\ SortById(objects) \in Seq(S)
         /\ Len(SortById(objects)) = Len(objects)
         /\ \A k, l \in 1..Len(objects) :
              k < l => SortById(objects)[k].id <= SortById(objects)[l].id
         /\ \E place \in Bijection(1..Len(objects), 1..Len(objects)) :
              \A k \in 1..Len(objects) : SortById(objects)[k] = objects[place[k]]
<1> DEFINE n == Len(objects)
<1>1. /\ n \in Nat /\ Cardinality(1..n) = n
      /\ \A i \in 1..n : objects[i] \in S
  <2>1. n \in Nat
    OBVIOUS
  <2> QED BY <2>1, Interval
<1>2. SortById(objects) = PlacesById(objects, 1..n)
  BY DEF SortById, StableSort, PlacesById
<1> HIDE DEF n
<1>3. 1..n \in SUBSET (1..Len(objects))
  BY DEF n
<1>4. PICK place : Lists(SortById(objects), objects, 1..n, place)
  BY <1>1, <1>2, <1>3, PlacesByIdSorts DEF n
<1>5. /\ place \in Bijection(1..n, 1..n)
      /\ SortById(objects) = [k \in 1..n |-> objects[place[k]]]
      /\ \A k, l \in 1..n : k < l => objects[place[k]].id <= objects[place[l]].id
  BY <1>1, <1>4 DEF Lists
<1>6. \A k \in 1..n : place[k] \in 1..n
  BY <1>5 DEF Bijection, Injection
<1> QED BY <1>1, <1>5, <1>6 DEF n

(* The same for a list of ids.                                             *)
LEMMA SortIdsPermutes ==
  ASSUME NEW S, S \subseteq Int, NEW ids \in Seq(S)
  PROVE  /\ SortIds(ids) \in Seq(S)
         /\ Len(SortIds(ids)) = Len(ids)
         /\ \A k, l \in 1..Len(ids) : k < l => SortIds(ids)[k] <= SortIds(ids)[l]
         /\ \E place \in Bijection(1..Len(ids), 1..Len(ids)) :
              \A k \in 1..Len(ids) : SortIds(ids)[k] = ids[place[k]]
<1> DEFINE P == 1..Len(ids)
           n == Cardinality(P)
           Before(j, i) == ids[j] < ids[i] \/ (ids[j] = ids[i] /\ j < i)
           Rank(i) == Cardinality({j \in P : Before(j, i)})
           place == [k \in 1..n |-> CHOOSE i \in P : Rank(i) = k - 1]
<1>1. n = Len(ids) /\ P \subseteq Nat /\ IsFiniteSet(P) /\ n \in Nat
  <2>1. Len(ids) \in Nat
    OBVIOUS
  <2> QED BY <2>1, Interval
<1>2. ids \in [P -> Int] /\ \A i \in P : ids[i] \in S
  <2>1. ids \in [P -> S]
    OBVIOUS
  <2> HIDE DEF P
  <2> QED BY <2>1
<1>3. SortIds(ids) = [k \in 1..n |-> ids[place[k]]]
  BY DEF SortIds, StableSort, SortPlaces
<1>4. \A i \in P : Rank(i) = Cardinality(Earlier(ids, P, i))
  <2>1. ASSUME NEW i \in P PROVE {j \in P : Before(j, i)} = Earlier(ids, P, i)
    BY DEF Earlier, Precedes
  <2> QED BY <2>1
<1> HIDE DEF Rank
<1>5. /\ place \in Bijection(1..n, P)
      /\ \A k, l \in 1..n : k < l => Precedes(ids, place[k], place[l])
  <2>1. TakesRanks(place, ids, P, n)
    <3>1. ASSUME NEW k \in 1..n, NEW i \in P, Cardinality(Earlier(ids, P, i)) = k - 1
          PROVE  place[k] \in P /\ Rank(place[k]) = k - 1
      BY <1>4, <3>1
    <3>2. place = [k \in 1..n |-> place[k]]
      OBVIOUS
    <3> HIDE DEF place
    <3> QED BY <1>4, <3>1, <3>2 DEF TakesRanks
  <2>3. n = Cardinality(P)
    OBVIOUS
  <2> HIDE DEF place, n, P
  <2> QED BY <1>1, <1>2, <2>1, <2>3, PlacesInOrder
<1> HIDE DEF place, n
<1>6. \A k \in 1..n : place[k] \in P
  BY <1>5 DEF Bijection, Injection
<1>7. \A k, l \in 1..n : k < l => ids[place[k]] <= ids[place[l]]
  BY <1>2, <1>5, <1>6 DEF Precedes
<1> QED BY <1>1, <1>2, <1>3, <1>5, <1>6, <1>7
=============================================================================
