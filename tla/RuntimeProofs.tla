--------------------------- MODULE RuntimeProofs ---------------------------
(***************************************************************************)
(* Proofs about the two services a program keeps for as long as it runs,   *)
(* ResourceCache and Logger.                                               *)
(*                                                                         *)
(* The cache, for every set of keys, every capacity and any number of list *)
(* nodes.  The inductive invariant is the conjunction of the type          *)
(* invariant, the agreement of list and index, and the byte accounting;    *)
(* finiteness of the set of held bytes has to be carried along because the *)
(* counting facts about Cardinality need it.                               *)
(*                                                                         *)
(* The logger, for any threads, sinks and levels and any number of         *)
(* records: sinks run with the mutex free, and every record reaches        *)
(* exactly the sinks its call copied, in order.  The state of a delivery   *)
(* lives in the call that makes it: what the sinks were given so far and   *)
(* what is pending make up what the call copied.  This holds for every     *)
(* call on every stack, and is kept because no two calls, of one thread or *)
(* of two, are for the same record.                                        *)
(***************************************************************************)
EXTENDS ResourceCache, Logger, DataLemmas

-----------------------------------------------------------------------------
(* The resource cache.                                                     *)

(* A list whose nodes have distinct addresses and distinct keys.           *)
WellFormed(es) ==
  /\ es \in Seq(Entry)
  /\ \A i, j \in 1..Len(es) :
       i # j => es[i].key # es[j].key /\ es[i].addr # es[j].addr

(***************************************************************************)
(* The list operations.                                                    *)
(***************************************************************************)

(* An iterator designates the one node with its address.                   *)
LEMMA AtIsPosition ==
  ASSUME NEW es, WellFormed(es), NEW i \in 1..Len(es)
  PROVE  At(es, es[i].addr) = i
BY DEF WellFormed, At

(* Erasing a node leaves every other node, in order.                       *)
LEMMA EraseIndexed ==
  ASSUME NEW es, WellFormed(es), NEW i \in 1..Len(es)
  PROVE  LET r == Erase(es, es[i].addr)
         IN /\ r \in Seq(Entry)
            /\ Len(r) = Len(es) - 1
            /\ \A j \in 1..Len(r) : r[j] = IF j < i THEN es[j] ELSE es[j + 1]
<1> DEFINE p == SubSeq(es, 1, i - 1)
           q == SubSeq(es, i + 1, Len(es))
<1>1. Erase(es, es[i].addr) = p \o q
  BY AtIsPosition DEF Erase
<1>2. es \in Seq(Entry) /\ Len(es) \in Nat /\ i \in Int
  BY DEF WellFormed
<1>3. \A j \in 1..Len(es) : es[j] \in Entry
  BY <1>2, ElementOfSeq
<1>4. p \in Seq(Entry) /\ Len(p) = i - 1 /\ \A j \in 1..i - 1 : p[j] = es[j]
  BY <1>2, <1>3, SubSeqProperties
<1>5. /\ q \in Seq(Entry)
      /\ Len(q) = Len(es) - i
      /\ \A j \in 1..Len(es) - i : q[j] = es[j + i]
  BY <1>2, <1>3, SubSeqProperties
<1> HIDE DEF p, q
<1>6. /\ p \o q \in Seq(Entry)
      /\ Len(p \o q) = Len(p) + Len(q)
      /\ \A j \in 1..Len(p) + Len(q) :
           (p \o q)[j] = IF j <= Len(p) THEN p[j] ELSE q[j - Len(p)]
  BY <1>4, <1>5, ConcatProperties
<1>7. ASSUME NEW j \in 1..Len(es) - 1
      PROVE  (p \o q)[j] = IF j < i THEN es[j] ELSE es[j + 1]
  <2>1. CASE j < i
    BY <1>2, <1>4, <1>5, <1>6, <2>1
  <2>2. CASE ~(j < i)
    <3>1. j - (i - 1) \in 1..Len(es) - i
      BY <1>2, <2>2
    <3>2. q[j - (i - 1)] = es[j + 1]
      BY <1>2, <1>5, <3>1
    <3> QED BY <1>2, <1>4, <1>5, <1>6, <2>2, <3>2
  <2> QED BY <2>1, <2>2
<1>8. Len(p \o q) = Len(es) - 1
  BY <1>2, <1>4, <1>5, <1>6
<1>9. \A j \in 1..Len(p \o q) : (p \o q)[j] = IF j < i THEN es[j] ELSE es[j + 1]
  BY <1>7, <1>8
<1> QED
  BY <1>1, <1>6, <1>8, <1>9, Zenon

(* Erasing a node removes it, and only it, from the set of entries.        *)
LEMMA EraseProperties ==
  ASSUME NEW es, WellFormed(es), NEW i \in 1..Len(es)
  PROVE  LET r == Erase(es, es[i].addr)
         IN /\ WellFormed(r)
            /\ EntrySet(r) = EntrySet(es) \ {es[i]}
            /\ es[i].key \notin KeysOf(r)
            /\ es[i].addr \notin AddrsOf(r)
<1> DEFINE r == Erase(es, es[i].addr)
<1>1. /\ r \in Seq(Entry)
      /\ Len(r) = Len(es) - 1
      /\ \A j \in 1..Len(r) : r[j] = IF j < i THEN es[j] ELSE es[j + 1]
  BY EraseIndexed
<1>2. es \in Seq(Entry) /\ Len(es) \in Nat
  BY DEF WellFormed
<1> HIDE DEF r
<1>3. WellFormed(r)
  <2>1. ASSUME NEW j \in 1..Len(r), NEW m \in 1..Len(r), j # m
        PROVE  r[j].key # r[m].key /\ r[j].addr # r[m].addr
    <3>1. PICK k, l \in 1..Len(es) : k # l /\ r[j] = es[k] /\ r[m] = es[l]
      BY <1>1, <1>2, <2>1
    <3> QED BY <3>1 DEF WellFormed
  <2> QED BY <1>1, <2>1 DEF WellFormed
<1>4. ASSUME NEW j \in 1..Len(r) PROVE r[j] \in EntrySet(es) \ {es[i]} 
  <2>1. PICK m \in 1..Len(es) : m # i /\ r[j] = es[m]
    BY <1>1, <1>2
  <2> QED BY <2>1 DEF WellFormed, EntrySet
<1>5. ASSUME NEW m \in 1..Len(es), m # i PROVE es[m] \in EntrySet(r)
  <2>1. CASE m < i
    BY <1>1, <1>2, <2>1 DEF EntrySet
  <2>2. CASE m > i
    <3>1. m - 1 \in 1..Len(r) /\ r[m - 1] = es[m]
      BY <1>1, <1>2, <2>2
    <3> QED BY <3>1 DEF EntrySet
  <2> QED BY <1>2, <1>5, <2>1, <2>2
<1>6. EntrySet(r) = EntrySet(es) \ {es[i]}
  BY <1>4, <1>5 DEF EntrySet
<1>7. \A m \in 1..Len(es) : m # i => es[m].key # es[i].key /\ es[m].addr # es[i].addr
  BY DEF WellFormed
<1>8. es[i].key \notin KeysOf(r) /\ es[i].addr \notin AddrsOf(r)
  BY <1>6, <1>7 DEF KeysOf, AddrsOf, EntrySet
<1> QED BY <1>3, <1>6, <1>8 DEF r

(* A new front node joins the set of entries.                              *)
LEMMA PushProperties ==
  ASSUME NEW es, WellFormed(es), NEW e \in Entry,
         e.key \notin KeysOf(es), e.addr \notin AddrsOf(es)
  PROVE  /\ WellFormed(PushFront(e, es))
         /\ EntrySet(PushFront(e, es)) = EntrySet(es) \cup {e}
         /\ PushFront(e, es)[1] = e
         /\ Len(PushFront(e, es)) = Len(es) + 1
<1> DEFINE r == PushFront(e, es)
<1>1. es \in Seq(Entry) /\ Len(es) \in Nat
  BY DEF WellFormed
<1>2. /\ r \in Seq(Entry)
      /\ Len(r) = Len(es) + 1
      /\ r[1] = e
      /\ \A j \in 2..Len(r) : r[j] = es[j - 1]
  BY <1>1 DEF PushFront
<1> HIDE DEF r
<1>3. \A i \in 1..Len(es) : es[i].key # e.key /\ es[i].addr # e.addr
  BY DEF KeysOf, AddrsOf, EntrySet
<1>4. \A j \in 2..Len(r) : j - 1 \in 1..Len(es)
  BY <1>1, <1>2
<1>5. WellFormed(r)
  <2>1. ASSUME NEW j \in 1..Len(r), NEW m \in 1..Len(r), j # m
        PROVE  r[j].key # r[m].key /\ r[j].addr # r[m].addr
    <3>1. CASE j = 1
      BY <1>1, <1>2, <1>3, <1>4, <2>1, <3>1
    <3>2. CASE m = 1
      BY <1>1, <1>2, <1>3, <1>4, <2>1, <3>2
    <3>3. CASE j # 1 /\ m # 1
      BY <1>1, <1>2, <1>4, <2>1, <3>3 DEF WellFormed
    <3> QED BY <3>1, <3>2, <3>3
  <2> QED BY <1>2, <2>1 DEF WellFormed
<1>6. ASSUME NEW i \in 1..Len(es) PROVE es[i] \in EntrySet(r)
  <2>1. i + 1 \in 1..Len(r) /\ r[i + 1] = es[i]
    BY <1>1, <1>2
  <2> QED BY <2>1 DEF EntrySet
<1>7. EntrySet(r) = EntrySet(es) \cup {e}
  <2>1. e \in EntrySet(r)
    BY <1>1, <1>2 DEF EntrySet
  <2>2. \A j \in 1..Len(r) : r[j] \in EntrySet(es) \cup {e}
    BY <1>1, <1>2, <1>4 DEF EntrySet
  <2> QED BY <1>6, <2>1, <2>2 DEF EntrySet
<1> QED BY <1>2, <1>5, <1>7 DEF r

(* Cutting a list in two divides its entries, and so its keys.             *)
LEMMA CutProperties ==
  ASSUME NEW es, WellFormed(es), NEW n \in 0..Len(es)
  PROVE  LET kept == SubSeq(es, 1, n)
             cut  == SubSeq(es, n + 1, Len(es))
         IN /\ WellFormed(kept)
            /\ Len(kept) = n
            /\ \A j \in 1..n : kept[j] = es[j]
            /\ EntrySet(es) = EntrySet(kept) \cup EntrySet(cut)
            /\ EntrySet(kept) \cap EntrySet(cut) = {}
            /\ KeysOf(kept) = KeysOf(es) \ KeysOf(cut)
<1> DEFINE kept == SubSeq(es, 1, n)
           cut  == SubSeq(es, n + 1, Len(es))
<1>1. es \in Seq(Entry) /\ Len(es) \in Nat /\ n \in Nat
  BY DEF WellFormed
<1>2. \A j \in 1..Len(es) : es[j] \in Entry
  BY <1>1, ElementOfSeq
<1>3. kept \in Seq(Entry) /\ Len(kept) = n /\ \A j \in 1..n : kept[j] = es[j]
  BY <1>1, <1>2, SubSeqProperties
<1>4. /\ Len(cut) = Len(es) - n
      /\ \A j \in 1..Len(es) - n : cut[j] = es[j + n]
  BY <1>1, <1>2, SubSeqProperties
<1> HIDE DEF kept, cut
<1>5. WellFormed(kept)
  BY <1>1, <1>3 DEF WellFormed
<1>6. EntrySet(kept) = {es[j] : j \in 1..n}
  BY <1>3 DEF EntrySet
<1>7. EntrySet(cut) = {es[j] : j \in n + 1..Len(es)}
  <2>1. ASSUME NEW j \in 1..Len(cut) PROVE cut[j] \in {es[m] : m \in n + 1..Len(es)}
    <3>1. j + n \in n + 1..Len(es) /\ cut[j] = es[j + n]
      BY <1>1, <1>4
    <3> QED BY <3>1
  <2>2. ASSUME NEW m \in n + 1..Len(es) PROVE es[m] \in EntrySet(cut)
    <3>1. m - n \in 1..Len(cut) /\ cut[m - n] = es[m]
      BY <1>1, <1>4
    <3> QED BY <3>1 DEF EntrySet
  <2> QED BY <2>1, <2>2 DEF EntrySet
<1>8. EntrySet(es) = EntrySet(kept) \cup EntrySet(cut)
  <2>1. \A j \in 1..Len(es) : j \in 1..n \/ j \in n + 1..Len(es)
    BY <1>1
  <2>2. \A j : j \in 1..n \/ j \in n + 1..Len(es) => j \in 1..Len(es)
    BY <1>1
  <2> QED BY <1>6, <1>7, <2>1, <2>2 DEF EntrySet
<1>9. \A j \in 1..n, m \in n + 1..Len(es) : es[j].key # es[m].key
  BY <1>1 DEF WellFormed
<1>10. EntrySet(kept) \cap EntrySet(cut) = {}
  BY <1>6, <1>7, <1>9
<1>11. KeysOf(kept) = KeysOf(es) \ KeysOf(cut)
  <2>1. KeysOf(es) = KeysOf(kept) \cup KeysOf(cut)
    BY <1>8 DEF KeysOf
  <2>2. KeysOf(kept) \cap KeysOf(cut) = {}
    BY <1>6, <1>7, <1>9 DEF KeysOf
  <2> QED BY <2>1, <2>2
<1> QED BY <1>3, <1>5, <1>8, <1>10, <1>11 DEF kept, cut

(***************************************************************************)
(* Counting bytes.                                                         *)
(***************************************************************************)

(* Disjoint sets of entries hold disjoint sets of bytes, so the counts add *)
(* up.                                                                     *)
LEMMA BytesAddUp ==
  ASSUME NEW S, NEW T, S \cap T = {}, IsFiniteSet(HeldBytes(S)), IsFiniteSet(HeldBytes(T))
  PROVE  /\ IsFiniteSet(HeldBytes(S \cup T))
         /\ Cardinality(HeldBytes(S \cup T)) =
              Cardinality(HeldBytes(S)) + Cardinality(HeldBytes(T))
<1>1. HeldBytes(S \cup T) = HeldBytes(S) \cup HeldBytes(T)
  BY DEF HeldBytes
<1>2. HeldBytes(S) \cap HeldBytes(T) = {}
  BY DEF HeldBytes, BytesOf
<1>3. Cardinality({}) = 0
  BY FS_EmptySet
<1>4. Cardinality(HeldBytes(S)) \in Nat /\ Cardinality(HeldBytes(T)) \in Nat
  BY FS_CardinalityType
<1>5. /\ IsFiniteSet(HeldBytes(S) \cup HeldBytes(T))
      /\ Cardinality(HeldBytes(S) \cup HeldBytes(T)) =
           Cardinality(HeldBytes(S)) + Cardinality(HeldBytes(T))
             - Cardinality(HeldBytes(S) \cap HeldBytes(T))
  BY FS_Union
<1>6. Cardinality(HeldBytes(S) \cap HeldBytes(T)) = 0
  BY <1>2, <1>3, Zenon
<1>7. Cardinality(HeldBytes(S) \cup HeldBytes(T)) =
        Cardinality(HeldBytes(S)) + Cardinality(HeldBytes(T))
  BY <1>4, <1>5, <1>6
<1> QED BY <1>1, <1>5, <1>7, Zenon

(* Part of a set of entries with finitely many bytes has finitely many.    *)
LEMMA FewerBytes ==
  ASSUME NEW S, NEW T, T \subseteq S, IsFiniteSet(HeldBytes(S))
  PROVE  IsFiniteSet(HeldBytes(T)) /\ Cardinality(HeldBytes(T)) \in Nat
<1>1. HeldBytes(T) \subseteq HeldBytes(S)
  BY DEF HeldBytes
<1> QED BY <1>1, FS_Subset, FS_CardinalityType

(* One entry holds as many bytes as its size says.                         *)
LEMMA OneEntry ==
  ASSUME NEW e, e.bytes \in Nat
  PROVE  IsFiniteSet(HeldBytes({e})) /\ Cardinality(HeldBytes({e})) = e.bytes
<1>1. HeldBytes({e}) = {e} \X (1..e.bytes)
  BY DEF HeldBytes, BytesOf
<1>2. IsFiniteSet({e}) /\ Cardinality({e}) = 1
  BY FS_Singleton
<1>3. IsFiniteSet(1..e.bytes) /\ Cardinality(1..e.bytes) = e.bytes
  BY FS_Interval
<1>4. /\ IsFiniteSet({e} \X (1..e.bytes))
      /\ Cardinality({e} \X (1..e.bytes)) = 1 * e.bytes
  BY <1>2, <1>3, FS_Product
<1>5. Cardinality({e} \X (1..e.bytes)) = e.bytes
  BY <1>4
<1> QED BY <1>1, <1>4, <1>5, Zenon

(***************************************************************************)
(* The eviction loop.                                                      *)
(***************************************************************************)

(* Started with an exact byte count, the loop stops with an exact byte     *)
(* count that is within capacity, at the first place where it is.          *)
LEMMA EvictionExact ==
  ASSUME NEW es, WellFormed(es), IsFiniteSet(HeldBytes(EntrySet(es)))
  PROVE  LET n    == StopsAt(es, ByteCount(es))
             kept == SubSeq(es, 1, n)
         IN /\ n \in 0..Len(es)
            /\ SizeAt(es, ByteCount(es), n) = ByteCount(kept)
            /\ ByteCount(kept) \in 0..Capacity
            /\ IsFiniteSet(HeldBytes(EntrySet(kept)))
            /\ \A m \in n + 1..Len(es) : ByteCount(SubSeq(es, 1, m)) > Capacity
<1> DEFINE size == ByteCount(es)
           Stop(n) == n = 0 \/ SizeAt(es, size, n) <= Capacity
           T == {n \in 0..Len(es) : Stop(n)}
           n == StopsAt(es, size)
<1>1. Len(es) \in Nat /\ Capacity \in Nat /\ size \in Nat
  BY CacheAssumption, FS_CardinalityType DEF WellFormed, ByteCount
<1>2. ASSUME NEW m \in 0..Len(es)
      PROVE  /\ SizeAt(es, size, m) = ByteCount(SubSeq(es, 1, m))
             /\ ByteCount(SubSeq(es, 1, m)) \in Nat
             /\ IsFiniteSet(HeldBytes(EntrySet(SubSeq(es, 1, m))))
  <2> DEFINE K == EntrySet(SubSeq(es, 1, m))
             C == EntrySet(SubSeq(es, m + 1, Len(es)))
  <2>1. EntrySet(es) = K \cup C /\ K \cap C = {}
    BY CutProperties
  <2>2. /\ IsFiniteSet(HeldBytes(K)) /\ Cardinality(HeldBytes(K)) \in Nat
        /\ IsFiniteSet(HeldBytes(C)) /\ Cardinality(HeldBytes(C)) \in Nat
    BY <2>1, FewerBytes
  <2>3. size = Cardinality(HeldBytes(K)) + Cardinality(HeldBytes(C))
    BY <2>1, <2>2, BytesAddUp DEF ByteCount
  <2> HIDE DEF size
  <2> QED BY <2>2, <2>3 DEF SizeAt, ByteCount
<1>3. T # {} /\ T \in SUBSET (0..Len(es))
  BY <1>1
<1>4. PICK x \in T : \A y \in T : y <= x
  BY <1>1, <1>3, GreatestMember
<1>5. /\ x = 0 \/ SizeAt(es, size, x) <= Capacity
      /\ \A m \in x + 1..Len(es) : SizeAt(es, size, m) > Capacity
  BY <1>1, <1>2, <1>4
<1>6. /\ n \in 0..Len(es) /\ (n = 0 \/ SizeAt(es, size, n) <= Capacity)
      /\ \A m \in n + 1..Len(es) : SizeAt(es, size, m) > Capacity
  BY <1>4, <1>5 DEF StopsAt
<1>7. ByteCount(SubSeq(es, 1, 0)) = 0
  <2>1. EntrySet(SubSeq(es, 1, 0)) = {}
    BY <1>1, CutProperties DEF EntrySet
  <2> QED BY <2>1, FS_EmptySet DEF ByteCount, HeldBytes
<1>8. \A m \in n + 1..Len(es) : ByteCount(SubSeq(es, 1, m)) > Capacity
  <2>1. \A m \in n + 1..Len(es) : m \in 0..Len(es)
    BY <1>1, <1>6
  <2> QED BY <1>2, <1>6, <2>1
<1>9. SizeAt(es, size, n) = ByteCount(SubSeq(es, 1, n)) /\ ByteCount(SubSeq(es, 1, n)) \in Nat
      /\ IsFiniteSet(HeldBytes(EntrySet(SubSeq(es, 1, n))))
  BY <1>2, <1>6
<1>10. ByteCount(SubSeq(es, 1, n)) \in 0..Capacity
  BY <1>1, <1>6, <1>7, <1>9
<1> QED BY <1>6, <1>8, <1>9, <1>10

(***************************************************************************)
(* The invariant.                                                          *)
(***************************************************************************)

(* What every operation needs and re-establishes.                          *)
Inv ==
  /\ TypeOK
  /\ IndexAgrees
  /\ WithinCapacity
  /\ HeldPointerUsable
  /\ IsFiniteSet(HeldBytes(EntrySet(entries)))

LEMMA InvWellFormed == Inv => WellFormed(entries)
BY DEF Inv, TypeOK, IndexAgrees, WellFormed

(* An empty list holds nothing.                                            *)
LEMMA EmptyList ==
  /\ EntrySet(<< >>) = {}
  /\ KeysOf(<< >>) = {}
  /\ ByteCount(<< >>) = 0
  /\ IsFiniteSet(HeldBytes(EntrySet(<< >>)))
<1>1. EntrySet(<< >>) = {}
  BY DEF EntrySet
<1>2. HeldBytes(EntrySet(<< >>)) = {}
  BY <1>1 DEF HeldBytes
<1>3. IsFiniteSet({}) /\ Cardinality({}) = 0
  BY FS_EmptySet
<1> QED BY <1>1, <1>2, <1>3, Zenon DEF KeysOf, ByteCount

LEMMA InitInv == Init => Inv
<1> SUFFICES ASSUME Init PROVE Inv
  OBVIOUS
<1>1. TypeOK /\ IndexAgrees /\ HeldPointerUsable
  BY EmptyList DEF Init, TypeOK, IndexAgrees, HeldPointerUsable
<1>2. WithinCapacity /\ IsFiniteSet(HeldBytes(EntrySet(entries)))
  BY EmptyList, CacheAssumption DEF Init, WithinCapacity
<1> QED BY <1>1, <1>2 DEF Inv

LEMMA ClearPreserves == Clear => Inv'
<1> SUFFICES ASSUME Clear PROVE Inv'
  OBVIOUS
<1>1. TypeOK' /\ IndexAgrees' /\ HeldPointerUsable'
  BY EmptyList DEF Clear, TypeOK, IndexAgrees, HeldPointerUsable
<1>2. WithinCapacity' /\ IsFiniteSet(HeldBytes(EntrySet(entries)))'
  BY EmptyList, CacheAssumption DEF Clear, WithinCapacity
<1> QED BY <1>1, <1>2 DEF Inv

(* The position an index entry leads to.                                   *)
LEMMA Lookup ==
  ASSUME Inv, NEW k \in DOMAIN index
  PROVE  \E i \in 1..Len(entries) :
           /\ entries[i].key = k
           /\ entries[i].addr = index[k]
           /\ At(entries, index[k]) = i
<1>1. k \in KeysOf(entries)
  BY DEF Inv, IndexAgrees
<1>2. PICK i \in 1..Len(entries) : entries[i].key = k
  BY <1>1 DEF KeysOf, EntrySet
<1>3. entries[i].addr = index[k]
  BY <1>2 DEF Inv, IndexAgrees
<1> QED BY <1>2, <1>3, InvWellFormed, AtIsPosition

(* Get moves one node to the front and changes nothing else.               *)
LEMMA GetPreserves ==
  ASSUME Inv, NEW k \in Keys, Get(k)
  PROVE  Inv'
<1>1. PICK i \in 1..Len(entries) :
        /\ entries[i].addr = index[k]
        /\ At(entries, index[k]) = i
  BY Lookup DEF Get
<1> DEFINE e == entries[i]
           r == Erase(entries, e.addr)
<1>2. WellFormed(entries) /\ e \in Entry
  BY InvWellFormed, ElementOfSeq DEF WellFormed
<1>3. /\ WellFormed(r)
      /\ EntrySet(r) = EntrySet(entries) \ {e}
      /\ e.key \notin KeysOf(r) /\ e.addr \notin AddrsOf(r)
  BY <1>2, EraseProperties
<1>4. entries' = PushFront(e, r)
  BY <1>1 DEF Get, Touch
<1> HIDE DEF r
<1>5. WellFormed(entries') /\ EntrySet(entries') = EntrySet(r) \cup {e} /\ entries'[1] = e
      /\ Len(entries') = Len(r) + 1
  BY <1>2, <1>3, <1>4, PushProperties
<1>6. e \in EntrySet(entries)
  BY DEF EntrySet
<1>7. EntrySet(entries') = EntrySet(entries)
  BY <1>3, <1>5, <1>6
<1>8. UNCHANGED <<index, size_bytes>> /\ held' \in {held, e} /\ used' = k
  BY <1>5 DEF Get
<1>9. TypeOK'
  BY <1>2, <1>5, <1>8 DEF Inv, TypeOK, WellFormed
<1>10. IndexAgrees'
  <2>1. KeysOf(entries') = KeysOf(entries)
    BY <1>7 DEF KeysOf
  <2>2. \A x \in EntrySet(entries) : index[x.key] = x.addr
    BY DEF Inv, IndexAgrees, EntrySet
  <2>3. \A j \in 1..Len(entries') : entries'[j] \in EntrySet(entries')
    BY DEF EntrySet
  <2> QED BY <1>5, <1>7, <1>8, <2>1, <2>2, <2>3 DEF Inv, IndexAgrees, WellFormed
<1>11. WithinCapacity' /\ IsFiniteSet(HeldBytes(EntrySet(entries')))
  BY <1>7, <1>8 DEF Inv, WithinCapacity, ByteCount
<1>12. HeldPointerUsable'
  BY <1>6, <1>7, <1>8 DEF Inv, HeldPointerUsable
<1> QED BY <1>9, <1>10, <1>11, <1>12 DEF Inv

(* What Put finds in the list once an older value of its key is gone.      *)
Without(k) == IF k \in DOMAIN index THEN Erase(entries, index[k]) ELSE entries

LEMMA RestOfPut ==
  ASSUME Inv, NEW k \in Keys
  PROVE  LET present == k \in DOMAIN index
             rest    == Without(k)
             freed   == IF present THEN entries[At(entries, index[k])].bytes ELSE 0
         IN /\ WellFormed(rest)
            /\ EntrySet(rest) = {x \in EntrySet(entries) : x.key # k}
            /\ IsFiniteSet(HeldBytes(EntrySet(rest)))
            /\ size_bytes - freed = ByteCount(rest)
            /\ ByteCount(rest) \in Nat
<1>1. WellFormed(entries) /\ size_bytes = ByteCount(entries)
      /\ IsFiniteSet(HeldBytes(EntrySet(entries)))
  BY InvWellFormed DEF Inv, WithinCapacity
<1>2. CASE k \notin DOMAIN index
  <2>1. \A x \in EntrySet(entries) : x.key # k
    BY <1>2 DEF Inv, IndexAgrees, KeysOf
  <2>2. ByteCount(entries) \in Nat
    BY <1>1, FS_CardinalityType DEF ByteCount
  <2> QED BY <1>1, <1>2, <2>1, <2>2 DEF Without
<1>3. CASE k \in DOMAIN index
  <2>1. PICK i \in 1..Len(entries) :
          /\ entries[i].key = k
          /\ entries[i].addr = index[k]
          /\ At(entries, index[k]) = i
    BY <1>3, Lookup
  <2> DEFINE e == entries[i]
             r == Erase(entries, index[k])
  <2>2. /\ WellFormed(r)
        /\ EntrySet(r) = EntrySet(entries) \ {e}
        /\ k \notin KeysOf(r)
    BY <1>1, <2>1, EraseProperties
  <2> HIDE DEF r
  <2>3. EntrySet(r) = {x \in EntrySet(entries) : x.key # k}
    BY <2>1, <2>2 DEF KeysOf
  <2>4. e \in EntrySet(entries) /\ e.bytes \in Nat
    <3>1. e \in Entry
      BY <1>1, ElementOfSeq DEF WellFormed
    <3>2. e \in EntrySet(entries)
      BY DEF EntrySet
    <3> QED BY <3>1, <3>2, CacheAssumption DEF Entry
  <2>5. /\ EntrySet(entries) = EntrySet(r) \cup {e}
        /\ EntrySet(r) \cap {e} = {}
    BY <2>2, <2>4
  <2>6. IsFiniteSet(HeldBytes(EntrySet(r))) /\ ByteCount(r) \in Nat
    BY <1>1, <2>2, FewerBytes DEF ByteCount
  <2>7. ByteCount(entries) = ByteCount(r) + e.bytes
    <3>1. IsFiniteSet(HeldBytes({e})) /\ Cardinality(HeldBytes({e})) = e.bytes
      BY <2>4, OneEntry
    <3>2. Cardinality(HeldBytes(EntrySet(r) \cup {e})) =
            Cardinality(HeldBytes(EntrySet(r))) + Cardinality(HeldBytes({e}))
      BY <2>5, <2>6, <3>1, BytesAddUp
    <3> QED BY <2>5, <3>1, <3>2 DEF ByteCount
  <2>8. size_bytes - e.bytes = ByteCount(r)
    BY <1>1, <2>4, <2>6, <2>7
  <2> QED BY <1>3, <2>1, <2>2, <2>3, <2>6, <2>8 DEF r, Without
<1> QED BY <1>2, <1>3

(* The list that Put leaves to the eviction loop, and the count it starts  *)
(* from.                                                                   *)
LEMMA PutParts ==
  ASSUME Inv, NEW k \in Keys, NEW bytes \in 0..MaxBytes, Put(k, bytes)
  PROVE  \E a \in Addrs :
           LET new == [addr |-> a, key |-> k, bytes |-> bytes]
               es  == PushFront(new, Without(k))
           IN /\ new \in Entry /\ WellFormed(es)
              /\ EntrySet(es) = {x \in EntrySet(entries) : x.key # k} \cup {new}
              /\ IsFiniteSet(HeldBytes(EntrySet(es)))
              /\ EvictUntilWithinCapacity(es, ByteCount(es),
                   [j \in DOMAIN index \cup {k} |-> IF j = k THEN a ELSE index[j]])
<1> DEFINE rest  == Without(k)
           freed == IF k \in DOMAIN index THEN entries[At(entries, index[k])].bytes ELSE 0
<1>1. /\ WellFormed(rest)
      /\ EntrySet(rest) = {x \in EntrySet(entries) : x.key # k}
      /\ IsFiniteSet(HeldBytes(EntrySet(rest)))
      /\ size_bytes - freed = ByteCount(rest)
      /\ ByteCount(rest) \in Nat
  BY RestOfPut
<1>2. PICK a \in Addrs \ AddrsOf(rest) :
        EvictUntilWithinCapacity(
          PushFront([addr |-> a, key |-> k, bytes |-> bytes], rest),
          size_bytes - freed + bytes,
          [j \in DOMAIN index \cup {k} |-> IF j = k THEN a ELSE index[j]])
  BY DEF Put, Without
<1> DEFINE new == [addr |-> a, key |-> k, bytes |-> bytes]
           es  == PushFront(new, rest)
<1>3. new \in Entry /\ new.bytes = bytes /\ new.key = k /\ new.addr = a /\ bytes \in Nat
  BY CacheAssumption DEF Entry
<1>4. k \notin KeysOf(rest)
  BY <1>1 DEF KeysOf
<1> HIDE DEF rest, freed
<1>5. WellFormed(es) /\ EntrySet(es) = EntrySet(rest) \cup {new}
  BY <1>1, <1>2, <1>3, <1>4, PushProperties
<1>6. /\ IsFiniteSet(HeldBytes(EntrySet(es)))
      /\ ByteCount(es) = ByteCount(rest) + bytes
  <2>1. IsFiniteSet(HeldBytes({new})) /\ Cardinality(HeldBytes({new})) = bytes
    BY <1>3, OneEntry
  <2>2. EntrySet(rest) \cap {new} = {}
    BY <1>3, <1>4 DEF KeysOf
  <2> HIDE DEF new, es
  <2> QED BY <1>1, <1>5, <2>1, <2>2, BytesAddUp DEF ByteCount
<1>7. ByteCount(es) = size_bytes - freed + bytes
  BY <1>1, <1>6
<1> QED BY <1>1, <1>2, <1>3, <1>5, <1>6, <1>7 DEF rest

(* Put replaces, inserts and evicts in all three representations alike.    *)
LEMMA PutPreserves ==
  ASSUME Inv, NEW k \in Keys, NEW bytes \in 0..MaxBytes, Put(k, bytes)
  PROVE  Inv'
<1> DEFINE New(a) == [addr |-> a, key |-> k, bytes |-> bytes]
           Index(a) == [j \in DOMAIN index \cup {k} |-> IF j = k THEN a ELSE index[j]]
<1>1. PICK a \in Addrs :
        LET es == PushFront(New(a), Without(k))
        IN /\ New(a) \in Entry /\ WellFormed(es)
           /\ EntrySet(es) = {x \in EntrySet(entries) : x.key # k} \cup {New(a)}
           /\ IsFiniteSet(HeldBytes(EntrySet(es)))
           /\ EvictUntilWithinCapacity(es, ByteCount(es), Index(a))
  BY PutParts
<1>2. held' = IF held # None /\ held.key # k /\ held.key \in DOMAIN index'
                THEN held ELSE None
  BY DEF Put
<1> DEFINE new  == New(a)
           es   == PushFront(new, Without(k))
           idx  == Index(a)
           n    == StopsAt(es, ByteCount(es))
           kept == SubSeq(es, 1, n)
           cut  == SubSeq(es, n + 1, Len(es))
<1>3. new.key = k /\ new.addr = a
  OBVIOUS
<1>4. /\ WellFormed(es) /\ IsFiniteSet(HeldBytes(EntrySet(es)))
      /\ EntrySet(es) = {x \in EntrySet(entries) : x.key # k} \cup {new}
      /\ EvictUntilWithinCapacity(es, ByteCount(es), idx)
  BY <1>1
<1> HIDE DEF new, es, idx, New, Index
<1>5. /\ n \in 0..Len(es)
      /\ SizeAt(es, ByteCount(es), n) = ByteCount(kept)
      /\ ByteCount(kept) \in 0..Capacity
      /\ IsFiniteSet(HeldBytes(EntrySet(kept)))
  BY <1>4, EvictionExact
<1>6. /\ entries' = kept
      /\ size_bytes' = ByteCount(kept)
      /\ index' = [j \in DOMAIN idx \ KeysOf(cut) |-> idx[j]]
  BY <1>4, <1>5 DEF EvictUntilWithinCapacity
<1>7. /\ WellFormed(kept)
      /\ EntrySet(es) = EntrySet(kept) \cup EntrySet(cut)
      /\ KeysOf(kept) = KeysOf(es) \ KeysOf(cut)
  BY <1>4, <1>5, CutProperties
<1> HIDE DEF n, kept, cut
<1>8. DOMAIN idx = KeysOf(es)
  <2>1. KeysOf(es) = (KeysOf(entries) \ {k}) \cup {k}
    BY <1>3, <1>4 DEF KeysOf
  <2>2. DOMAIN index = KeysOf(entries)
    BY DEF Inv, IndexAgrees
  <2> QED BY <2>1, <2>2 DEF idx, Index
<1>9. ASSUME NEW x \in EntrySet(es) PROVE x.key \in DOMAIN idx /\ idx[x.key] = x.addr
  <2>1. x.key \in DOMAIN idx
    BY <1>8 DEF KeysOf
  <2>2. CASE x = new
    BY <1>3, <2>1, <2>2 DEF idx, Index
  <2>3. CASE x \in EntrySet(entries) /\ x.key # k
    <3>1. index[x.key] = x.addr
      BY <2>3 DEF Inv, IndexAgrees, EntrySet
    <3> QED BY <2>1, <2>3, <3>1 DEF idx, Index
  <2> QED BY <1>4, <2>2, <2>3
<1>10. DOMAIN index' = KeysOf(kept)
  BY <1>6, <1>7, <1>8
<1>11. IndexAgrees'
  <2>1. \A i \in 1..Len(kept) : kept[i] \in EntrySet(kept)
    BY DEF EntrySet
  <2>2. \A x \in EntrySet(kept) : x.key \in DOMAIN index' /\ index'[x.key] = x.addr
    BY <1>6, <1>7, <1>9, <1>10 DEF KeysOf
  <2> QED BY <1>6, <1>7, <1>10, <2>1, <2>2 DEF IndexAgrees, WellFormed
<1>12. WithinCapacity' /\ IsFiniteSet(HeldBytes(EntrySet(entries')))
  BY <1>5, <1>6, CacheAssumption DEF WithinCapacity, ByteCount
<1>13. HeldPointerUsable'
  <2>1. SUFFICES ASSUME held # None, held.key # k, held.key \in DOMAIN index', held' = held
                 PROVE  held \in EntrySet(kept)
    BY <1>2, <1>6 DEF HeldPointerUsable
  <2>2. held \in EntrySet(es)
    BY <1>4, <2>1 DEF Inv, HeldPointerUsable
  <2>3. held \notin EntrySet(cut)
    BY <1>7, <1>10, <2>1 DEF KeysOf
  <2> QED BY <1>7, <2>2, <2>3
<1>14. TypeOK'
  <2>1. entries' \in Seq(Entry)
    BY <1>6, <1>7 DEF WellFormed
  <2>2. held' \in Entry \cup {None}
    BY <1>2 DEF Inv, TypeOK
  <2>3. size_bytes' \in Nat
    BY <1>5, <1>6, CacheAssumption
  <2>4. idx \in [DOMAIN index \cup {k} -> Addrs] /\ DOMAIN index \cup {k} \subseteq Keys
    BY <1>1 DEF Inv, TypeOK, idx, Index
  <2>5. DOMAIN index' \subseteq Keys /\ index' \in [DOMAIN index' -> Addrs]
    BY <1>6, <2>4
  <2>6. used' \in Keys
    BY DEF Put
  <2> QED BY <2>1, <2>2, <2>3, <2>5, <2>6 DEF TypeOK
<1> QED BY <1>11, <1>12, <1>13, <1>14 DEF Inv

(***************************************************************************)
(* The theorems.                                                           *)
(***************************************************************************)

(* The invariant holds in every reachable state.                           *)
THEOREM InvHolds == Spec => []Inv
<1>1. Init => Inv
  BY InitInv
<1>2. Inv /\ [Next]_vars => Inv'
  <2> SUFFICES ASSUME Inv, [Next]_vars PROVE Inv'
    OBVIOUS
  <2>1. CASE UNCHANGED vars
    BY <2>1 DEF vars, Inv, TypeOK, IndexAgrees, WithinCapacity, HeldPointerUsable, ByteCount,
                EntrySet, KeysOf, HeldBytes, BytesOf
  <2>2. ASSUME NEW k \in Keys, NEW bytes \in 0..MaxBytes, PutTooLarge(k, bytes) PROVE Inv'
    BY <2>1, <2>2 DEF PutTooLarge
  <2>3. ASSUME NEW k \in Keys, NEW bytes \in 0..MaxBytes, Put(k, bytes) PROVE Inv'
    BY <2>3, PutPreserves
  <2>4. ASSUME NEW k \in Keys, Get(k) PROVE Inv'
    BY <2>4, GetPreserves
  <2>5. ASSUME NEW k \in Keys, GetMiss(k) PROVE Inv'
    BY <2>1, <2>5 DEF GetMiss
  <2>6. CASE Clear
    BY <2>6, ClearPreserves
  <2> QED BY <2>1, <2>2, <2>3, <2>4, <2>5, <2>6 DEF Next
<1> QED BY <1>1, <1>2, PTL DEF Spec

(* Type correctness; size_bytes_ never underflows.                         *)
THEOREM TypeCorrect == Spec => []TypeOK
BY InvHolds, PTL DEF Inv

(* List and index always describe the same resources.                      *)
THEOREM IndexAlwaysAgrees == Spec => []IndexAgrees
BY InvHolds, PTL DEF Inv

(* The byte count is exact and within capacity after every operation.      *)
THEOREM AlwaysWithinCapacity == Spec => []WithinCapacity
BY InvHolds, PTL DEF Inv

(* A pointer from Get stays good until its own key is stored, evicted or   *)
(* cleared.                                                                *)
THEOREM HeldPointerAlwaysUsable == Spec => []HeldPointerUsable
BY InvHolds, PTL DEF Inv

(***************************************************************************)
(* The cache, a list with an index, implements LruCache, which knows of    *)
(* neither: for every set of keys, every capacity and any number of list   *)
(* nodes, each call is one of its operations or changes nothing it sees.   *)
(***************************************************************************)

(***************************************************************************)
(* The order of a list.                                                    *)
(***************************************************************************)

LEMMA OrderByPlaces ==
  ASSUME NEW es, Len(es) \in Nat, NEW p
  PROVE  p \in Order(es) <=>
           \E i, j \in 1..Len(es) : i < j /\ p = <<es[i].key, es[j].key>>
BY DEF Order

(* Erasing a node takes the pairs with its key out of the order.           *)
LEMMA EraseOrder ==
  ASSUME NEW es, WellFormed(es), NEW i \in 1..Len(es)
  PROVE  Order(Erase(es, es[i].addr)) = {p \in Order(es) : es[i].key \notin {p[1], p[2]}}
<1> DEFINE r == Erase(es, es[i].addr)
           k == es[i].key
<1>1. /\ r \in Seq(Entry)
      /\ Len(r) = Len(es) - 1
      /\ \A j \in 1..Len(r) : r[j] = IF j < i THEN es[j] ELSE es[j + 1]
  BY EraseIndexed
<1>2. Len(es) \in Nat /\ Len(r) \in Nat /\ \A j \in 1..Len(es) : j # i => es[j].key # k
  BY <1>1 DEF WellFormed
<1> HIDE DEF r, k
<1>3. ASSUME NEW p \in Order(r) PROVE p \in Order(es) /\ k \notin {p[1], p[2]}
  <2>1. PICK x, y \in 1..Len(r) : x < y /\ p = <<r[x].key, r[y].key>>
    BY <1>2, OrderByPlaces
  <2>2. PICK u, v \in 1..Len(es) : u < v /\ u # i /\ v # i /\ r[x] = es[u] /\ r[y] = es[v]
    <3> DEFINE Old(w) == IF w < i THEN w ELSE w + 1
    <3>1. \A w \in 1..Len(r) : Old(w) \in 1..Len(es) /\ Old(w) # i /\ r[w] = es[Old(w)]
      BY <1>1, <1>2
    <3>2. Old(x) < Old(y)
      BY <1>1, <1>2, <2>1
    <3> HIDE DEF Old
    <3> QED BY <3>1, <3>2
  <2>3. p = <<es[u].key, es[v].key>>
    BY <2>1, <2>2
  <2>4. p \in Order(es)
    BY <1>2, <2>2, <2>3, OrderByPlaces
  <2> QED BY <1>2, <2>2, <2>3, <2>4
<1>4. ASSUME NEW p \in Order(es), k \notin {p[1], p[2]} PROVE p \in Order(r)
  <2>1. PICK u, v \in 1..Len(es) : u < v /\ p = <<es[u].key, es[v].key>>
    BY <1>2, OrderByPlaces
  <2>2. u # i /\ v # i
    BY <1>4, <2>1 DEF k
  <2>3. PICK x, y \in 1..Len(r) : x < y /\ r[x] = es[u] /\ r[y] = es[v]
    <3> DEFINE Place(w) == IF w < i THEN w ELSE w - 1
    <3>1. Place(u) \in 1..Len(r) /\ Place(v) \in 1..Len(r) /\ Place(u) < Place(v)
      BY <1>1, <1>2, <2>1, <2>2
    <3>2. ASSUME NEW w \in 1..Len(es), w # i, Place(w) \in 1..Len(r) PROVE r[Place(w)] = es[w]
      <4>1. CASE w < i
        BY <1>1, <3>2, <4>1
      <4>2. CASE w > i
        <5>1. Place(w) = w - 1 /\ ~(w - 1 < i) /\ (w - 1) + 1 = w
          BY <4>2
        <5> QED BY <1>1, <3>2, <5>1
      <4> QED BY <3>2, <4>1, <4>2
    <3> HIDE DEF Place
    <3> QED BY <2>2, <3>1, <3>2
  <2>4. p = <<r[x].key, r[y].key>>
    BY <2>1, <2>3
  <2> QED BY <1>2, <2>3, <2>4, OrderByPlaces
<1>5. Order(r) = {p \in Order(es) : k \notin {p[1], p[2]}}
  BY <1>3, <1>4
<1> QED BY <1>5 DEF r, k

(* A new front node comes before all others.                               *)
LEMMA PushOrder ==
  ASSUME NEW es \in Seq(Entry), NEW e \in Entry
  PROVE  Order(PushFront(e, es)) = Order(es) \cup ({e.key} \X KeysOf(es))
<1> DEFINE r == PushFront(e, es)
<1>1. /\ Len(es) \in Nat /\ Len(r) \in Nat
      /\ Len(r) = Len(es) + 1
      /\ r[1] = e
      /\ \A j \in 1..Len(es) : r[j + 1] = es[j]
  BY DEF PushFront
<1> HIDE DEF r
<1>2. ASSUME NEW p \in Order(r) PROVE p \in Order(es) \cup ({e.key} \X KeysOf(es))
  <2>1. PICK x, y \in 1..Len(r) : x < y /\ p = <<r[x].key, r[y].key>>
    BY <1>1, OrderByPlaces
  <2>2. y - 1 \in 1..Len(es) /\ r[y] = es[y - 1]
    BY <1>1, <2>1
  <2>3. CASE x = 1
    <3>1. es[y - 1].key \in KeysOf(es)
      BY <2>2 DEF KeysOf, EntrySet
    <3> QED BY <1>1, <2>1, <2>2, <2>3, <3>1
  <2>4. CASE x # 1
    <3>1. x - 1 \in 1..Len(es) /\ r[x] = es[x - 1] /\ x - 1 < y - 1
      BY <1>1, <2>1, <2>4
    <3>2. p = <<es[x - 1].key, es[y - 1].key>>
      BY <2>1, <2>2, <3>1
    <3> QED BY <1>1, <2>2, <3>1, <3>2, OrderByPlaces
  <2> QED BY <2>3, <2>4
<1>3. ASSUME NEW p \in Order(es) PROVE p \in Order(r)
  <2>1. PICK u, v \in 1..Len(es) : u < v /\ p = <<es[u].key, es[v].key>>
    BY <1>1, OrderByPlaces
  <2>2. u + 1 \in 1..Len(r) /\ v + 1 \in 1..Len(r) /\ u + 1 < v + 1
    BY <1>1, <2>1
  <2>3. p = <<r[u + 1].key, r[v + 1].key>>
    BY <1>1, <2>1
  <2> QED BY <1>1, <2>2, <2>3, OrderByPlaces
<1>4. ASSUME NEW b \in KeysOf(es) PROVE <<e.key, b>> \in Order(r)
  <2>1. PICK v \in 1..Len(es) : es[v].key = b
    BY DEF KeysOf, EntrySet
  <2>2. 1 \in 1..Len(r) /\ v + 1 \in 1..Len(r) /\ 1 < v + 1
    BY <1>1
  <2>3. <<e.key, b>> = <<r[1].key, r[v + 1].key>>
    BY <1>1, <2>1
  <2> QED BY <1>1, <2>2, <2>3, OrderByPlaces
<1>5. Order(r) = Order(es) \cup ({e.key} \X KeysOf(es))
  BY <1>2, <1>3, <1>4
<1> QED BY <1>5 DEF r

(* The first nodes of a list keep their order, and none that comes after   *)
(* them is before one of them.                                             *)
LEMMA CutOrder ==
  ASSUME NEW es, WellFormed(es), NEW n \in 0..Len(es)
  PROVE  LET kept == SubSeq(es, 1, n)
         IN /\ Order(kept) = Order(es) \cap (KeysOf(kept) \X KeysOf(kept))
            /\ \A p \in Order(es) : p[2] \in KeysOf(kept) => p[1] \in KeysOf(kept)
<1> DEFINE kept == SubSeq(es, 1, n)
<1>1. Len(kept) = n /\ \A j \in 1..n : kept[j] = es[j]
  BY CutProperties
<1>2. Len(es) \in Nat /\ n \in Nat /\ \A i, j \in 1..Len(es) : i # j => es[i].key # es[j].key
  BY DEF WellFormed
<1> HIDE DEF kept
<1>3. \A j \in 1..Len(es) : es[j].key \in KeysOf(kept) <=> j <= n
  BY <1>1, <1>2 DEF KeysOf, EntrySet
<1>4. ASSUME NEW p \in Order(kept) PROVE p \in Order(es) \cap (KeysOf(kept) \X KeysOf(kept))
  <2>1. PICK x, y \in 1..n : x < y /\ p = <<kept[x].key, kept[y].key>>
    <3>1. \E x, y \in 1..Len(kept) : x < y /\ p = <<kept[x].key, kept[y].key>>
      BY <1>1, <1>2, OrderByPlaces
    <3> QED BY <1>1, <3>1
  <2>2. x \in 1..Len(es) /\ y \in 1..Len(es) /\ p = <<es[x].key, es[y].key>>
    BY <1>1, <1>2, <2>1
  <2>3. es[x].key \in KeysOf(kept) /\ es[y].key \in KeysOf(kept)
    BY <1>2, <1>3, <2>1, <2>2
  <2> QED BY <1>2, <2>1, <2>2, <2>3, OrderByPlaces
<1>5. ASSUME NEW p \in Order(es), p[2] \in KeysOf(kept)
      PROVE  p[1] \in KeysOf(kept) /\ p \in Order(kept)
  <2>1. PICK u, v \in 1..Len(es) : u < v /\ p = <<es[u].key, es[v].key>>
    BY <1>2, OrderByPlaces
  <2>2. v <= n /\ u <= n
    BY <1>2, <1>3, <1>5, <2>1
  <2>3. u \in 1..n /\ v \in 1..n /\ p = <<kept[u].key, kept[v].key>>
    BY <1>1, <1>2, <2>1, <2>2
  <2>4. p \in Order(kept)
    BY <1>1, <1>2, <2>1, <2>3, OrderByPlaces
  <2> QED BY <1>3, <2>1, <2>2, <2>4
<1>6. Order(kept) = Order(es) \cap (KeysOf(kept) \X KeysOf(kept))
  <2>1. \A p \in Order(es) \cap (KeysOf(kept) \X KeysOf(kept)) : p[2] \in KeysOf(kept)
    OBVIOUS
  <2> QED BY <1>4, <1>5, <2>1
<1> QED BY <1>5, <1>6 DEF kept

(***************************************************************************)
(* The sizes under the keys.                                               *)
(***************************************************************************)

(* LruCache counts as this module does.                                    *)
LEMMA SameCount == \A S : Lru!Cardinality(S) = Cardinality(S)
BY Zenon DEF Lru!Cardinality, Cardinality

(* A function gives every entry's size under its key.                      *)
Describes(sizes, es) ==
  /\ DOMAIN sizes = KeysOf(es)
  /\ \A x \in EntrySet(es) : sizes[x.key] = x.bytes

LEMMA SizesDescribe ==
  ASSUME NEW es, WellFormed(es), NEW idx, DOMAIN idx = KeysOf(es),
         \A i \in 1..Len(es) : idx[es[i].key] = es[i].addr
  PROVE  /\ Describes(Sizes(es, idx), es)
         /\ Sizes(es, idx) = [k \in KeysOf(es) |-> Sizes(es, idx)[k]]
<1>1. ASSUME NEW i \in 1..Len(es) PROVE Sizes(es, idx)[es[i].key] = es[i].bytes
  <2>1. es[i].key \in DOMAIN idx
    BY DEF KeysOf, EntrySet
  <2>2. At(es, idx[es[i].key]) = i
    BY AtIsPosition
  <2> QED BY <2>1, <2>2 DEF Sizes
<1>2. DOMAIN Sizes(es, idx) = KeysOf(es) /\ Sizes(es, idx) = [k \in KeysOf(es) |-> Sizes(es, idx)[k]]
  BY DEF Sizes
<1> QED BY <1>1, <1>2 DEF Describes, EntrySet

(* Two functions that describe the same entries are the same.              *)
LEMMA SameSizes ==
  ASSUME NEW es, NEW f, NEW g, Describes(f, es), Describes(g, es),
         f = [k \in KeysOf(es) |-> f[k]], g = [k \in KeysOf(es) |-> g[k]]
  PROVE  f = g
<1>1. \A k \in KeysOf(es) : f[k] = g[k]
  BY DEF Describes, KeysOf
<1> QED BY <1>1

(* The bytes of a list are as many as those stored under its keys.         *)
LEMMA CountByKey ==
  ASSUME NEW es, WellFormed(es), IsFiniteSet(HeldBytes(EntrySet(es))), NEW sizes,
         \A x \in EntrySet(es) : sizes[x.key] = x.bytes
  PROVE  /\ IsFiniteSet(Lru!StoredBytes(sizes, KeysOf(es)))
         /\ Lru!TotalBytes(sizes, KeysOf(es)) = ByteCount(es)
<1> DEFINE S == HeldBytes(EntrySet(es))
           T == Lru!StoredBytes(sizes, KeysOf(es))
           f == [b \in S |-> <<b[1].key, b[2]>>]
<1>1. \A b : b \in S <=> \E x \in EntrySet(es) : \E m \in 1..x.bytes : b = <<x, m>>
  BY DEF HeldBytes, BytesOf
<1>2. \A b : b \in T <=> \E x \in EntrySet(es) : \E m \in 1..x.bytes : b = <<x.key, m>>
  BY DEF Lru!StoredBytes, KeysOf
<1>3. \A x, y \in EntrySet(es) : x.key = y.key => x = y
  BY DEF WellFormed, EntrySet
<1> HIDE DEF S, T
<1>4. f \in [S -> T]
  BY <1>1, <1>2
<1>5. \A b, c \in S : f[b] = f[c] => b = c
  BY <1>1, <1>3
<1>6. ASSUME NEW t \in T PROVE \E b \in S : f[b] = t
  <2>1. PICK x \in EntrySet(es) : \E m \in 1..x.bytes : t = <<x.key, m>>
    BY <1>2
  <2> PICK m \in 1..x.bytes : t = <<x.key, m>>
    BY <2>1
  <2>2. <<x, m>> \in S
    BY <1>1
  <2>3. f[<<x, m>>] = t
    BY <2>2
  <2> QED BY <2>2, <2>3
<1> HIDE DEF f
<1>7. f \in Bijection(S, T)
  BY <1>4, <1>5, <1>6, Fun_IsBij
<1>8. ExistsBijection(S, T)
  BY <1>7 DEF ExistsBijection
<1>9. IsFiniteSet(T) /\ Cardinality(T) = Cardinality(S)
  BY <1>8, FS_Bijection DEF S
<1> QED BY <1>9, SameCount, Zenon DEF S, T, ByteCount, Lru!TotalBytes

(* More keys hold no fewer bytes.                                          *)
LEMMA FewerKeysFewerBytes ==
  ASSUME NEW sizes, NEW S, NEW T, T \subseteq S, IsFiniteSet(Lru!StoredBytes(sizes, S))
  PROVE  /\ Lru!TotalBytes(sizes, S) \in Nat /\ Lru!TotalBytes(sizes, T) \in Nat
         /\ Lru!TotalBytes(sizes, T) <= Lru!TotalBytes(sizes, S)
         /\ IsFiniteSet(Lru!StoredBytes(sizes, T))
<1>1. Lru!StoredBytes(sizes, T) \subseteq Lru!StoredBytes(sizes, S)
  BY DEF Lru!StoredBytes
<1>2. /\ IsFiniteSet(Lru!StoredBytes(sizes, T))
      /\ Cardinality(Lru!StoredBytes(sizes, T)) <= Cardinality(Lru!StoredBytes(sizes, S))
  BY <1>1, FS_Subset
<1>3. /\ Cardinality(Lru!StoredBytes(sizes, S)) \in Nat
      /\ Cardinality(Lru!StoredBytes(sizes, T)) \in Nat
  BY <1>2, FS_CardinalityType
<1> QED BY <1>2, <1>3, SameCount, Zenon DEF Lru!TotalBytes

(***************************************************************************)
(* Eviction.                                                               *)
(***************************************************************************)

(* The keys the loop keeps fit, are closed under later use, and contain    *)
(* every set of keys that fits and is: what LruStore asks for.             *)
LEMMA KeptIsLargest ==
  ASSUME NEW es, WellFormed(es), IsFiniteSet(HeldBytes(EntrySet(es))),
         NEW sizes, Describes(sizes, es)
  PROVE  LET K == KeysOf(SubSeq(es, 1, StopsAt(es, ByteCount(es))))
             Fits(S) == Lru!TotalBytes(sizes, S) <= Capacity /\ Lru!UpwardClosed(S, Order(es))
         IN /\ K \subseteq DOMAIN sizes
            /\ Fits(K)
            /\ \A T \in SUBSET DOMAIN sizes : Fits(T) => T \subseteq K
<1> DEFINE n == StopsAt(es, ByteCount(es))
           Kept(m) == SubSeq(es, 1, m)
           K == KeysOf(Kept(n))
<1>1. /\ n \in 0..Len(es)
      /\ ByteCount(Kept(n)) \in 0..Capacity
      /\ \A m \in n + 1..Len(es) : ByteCount(Kept(m)) > Capacity
  BY EvictionExact
<1>2. Len(es) \in Nat /\ Capacity \in Nat
  BY CacheAssumption DEF WellFormed
<1> HIDE DEF n
<1>3. ASSUME NEW m \in 0..Len(es)
      PROVE  /\ KeysOf(Kept(m)) \subseteq KeysOf(es)
             /\ Lru!TotalBytes(sizes, KeysOf(Kept(m))) = ByteCount(Kept(m))
  <2>1. WellFormed(Kept(m)) /\ EntrySet(Kept(m)) \subseteq EntrySet(es)
    BY CutProperties
  <2>2. IsFiniteSet(HeldBytes(EntrySet(Kept(m))))
    BY <2>1, FewerBytes
  <2>3. \A x \in EntrySet(Kept(m)) : sizes[x.key] = x.bytes
    BY <2>1 DEF Describes
  <2> HIDE DEF Front
  <2>4. Lru!TotalBytes(sizes, KeysOf(Kept(m))) = ByteCount(Kept(m))
    BY <2>1, <2>2, <2>3, CountByKey
  <2>5. KeysOf(Kept(m)) \subseteq KeysOf(es)
    BY <2>1 DEF KeysOf
  <2> QED BY <2>4, <2>5
<1>4. K \subseteq DOMAIN sizes /\ Lru!TotalBytes(sizes, K) <= Capacity
  <2>1. Lru!TotalBytes(sizes, K) = ByteCount(Kept(n)) /\ K \subseteq KeysOf(es)
    BY <1>1, <1>3
  <2> HIDE DEF K, Front
  <2> QED BY <1>1, <1>2, <2>1 DEF Describes
<1>5. Lru!UpwardClosed(K, Order(es))
  BY <1>1, CutOrder DEF Lru!UpwardClosed
<1>6. ASSUME NEW T \in SUBSET DOMAIN sizes, Lru!TotalBytes(sizes, T) <= Capacity,
             Lru!UpwardClosed(T, Order(es)), NEW t \in T, t \notin K
      PROVE  FALSE
  <2>1. PICK m \in 1..Len(es) : es[m].key = t
    BY DEF Describes, KeysOf, EntrySet
  <2>2. m \in n + 1..Len(es)
    <3>1. \A j \in 1..n : es[j].key \in K
      BY <1>1, CutProperties DEF KeysOf, EntrySet
    <3> HIDE DEF K, Front
    <3> QED BY <1>1, <1>2, <1>6, <2>1, <3>1
  <2>3. KeysOf(Kept(m)) \subseteq T
    <3>1. ASSUME NEW j \in 1..m PROVE es[j].key \in T
      <4>1. CASE j = m
        BY <2>1, <4>1
      <4>2. CASE j < m
        <5>1. j \in 1..Len(es)
          BY <1>2
        <5>2. <<es[j].key, es[m].key>> \in Order(es)
          BY <1>2, <4>2, <5>1, OrderByPlaces
        <5> QED BY <1>6, <2>1, <5>2 DEF Lru!UpwardClosed
      <4> QED BY <4>1, <4>2
    <3>2. m \in 0..Len(es)
      BY <1>2
    <3>3. Len(Kept(m)) = m /\ \A j \in 1..m : Kept(m)[j] = es[j]
      BY <3>2, CutProperties
    <3> HIDE DEF Front
    <3> QED BY <3>1, <3>3 DEF KeysOf, EntrySet
  <2>4. Lru!TotalBytes(sizes, KeysOf(Kept(m))) > Capacity
    <3>1. m \in 0..Len(es) /\ ByteCount(Kept(m)) > Capacity
      BY <1>1, <1>2, <2>2
    <3>2. Lru!TotalBytes(sizes, KeysOf(Kept(m))) = ByteCount(Kept(m))
      BY <1>3, <3>1
    <3> HIDE DEF Front
    <3> QED BY <3>1, <3>2
  <2>5. IsFiniteSet(Lru!StoredBytes(sizes, T))
    <3>1. IsFiniteSet(Lru!StoredBytes(sizes, KeysOf(es)))
      BY CountByKey DEF Describes
    <3>2. T \subseteq KeysOf(es)
      BY DEF Describes
    <3> QED BY <3>1, <3>2, FewerKeysFewerBytes
  <2>6. /\ Lru!TotalBytes(sizes, T) \in Nat /\ Lru!TotalBytes(sizes, KeysOf(Kept(m))) \in Nat
        /\ Lru!TotalBytes(sizes, KeysOf(Kept(m))) <= Lru!TotalBytes(sizes, T)
    BY <2>3, <2>5, FewerKeysFewerBytes
  <2> HIDE DEF Front
  <2> QED BY <1>2, <1>6, <2>4, <2>6
<1>7. \A T \in SUBSET DOMAIN sizes :
        Lru!TotalBytes(sizes, T) <= Capacity /\ Lru!UpwardClosed(T, Order(es)) => T \subseteq K
  BY <1>6
<1> QED BY <1>4, <1>5, <1>7 DEF n

(***************************************************************************)
(* The steps.                                                              *)
(***************************************************************************)

LEMMA InvDescribes ==
  ASSUME Inv
  PROVE  /\ Describes(Sizes(entries, index), entries)
         /\ Sizes(entries, index) = [k \in KeysOf(entries) |-> Sizes(entries, index)[k]]
BY InvWellFormed, SizesDescribe DEF Inv, IndexAgrees

LEMMA InvDescribesNext ==
  ASSUME Inv'
  PROVE  /\ Describes(Sizes(entries', index'), entries')
         /\ Sizes(entries', index') = [k \in KeysOf(entries') |-> Sizes(entries', index')[k]]
<1>1. WellFormed(entries')
  BY DEF Inv, TypeOK, IndexAgrees, WellFormed
<1>2. DOMAIN index' = KeysOf(entries') /\ \A i \in 1..Len(entries') : index'[entries'[i].key] = entries'[i].addr
  BY DEF Inv, IndexAgrees
<1> QED BY <1>1, <1>2, SizesDescribe

(* Get makes its key the freshest and changes no size.                     *)
LEMMA GetImplements ==
  ASSUME Inv, Inv', NEW k \in Keys, Get(k)
  PROVE  Lru!LruUse(k)
<1>1. PICK i \in 1..Len(entries) :
        /\ entries[i].key = k
        /\ entries[i].addr = index[k]
        /\ At(entries, index[k]) = i
  BY Lookup DEF Get
<1> DEFINE e == entries[i]
           r == Erase(entries, e.addr)
<1>2. WellFormed(entries) /\ e \in Entry
  BY InvWellFormed, ElementOfSeq DEF WellFormed
<1>3. WellFormed(r) /\ EntrySet(r) = EntrySet(entries) \ {e} /\ k \notin KeysOf(r)
  BY <1>1, <1>2, EraseProperties
<1>4. Order(r) = {p \in Order(entries) : k \notin {p[1], p[2]}}
  BY <1>1, <1>2, EraseOrder
<1>5. entries' = PushFront(e, r) /\ used' = k /\ k \in DOMAIN index
  BY <1>1 DEF Get, Touch
<1> HIDE DEF r
<1>6. Order(entries') = Order(r) \cup ({k} \X KeysOf(r))
  BY <1>1, <1>2, <1>3, <1>5, PushOrder DEF WellFormed
<1>7. DOMAIN Sizes(entries, index) = KeysOf(entries) /\ k \in KeysOf(entries)
  BY <1>5, InvDescribes DEF Describes, Inv, IndexAgrees
<1>8. KeysOf(r) = KeysOf(entries) \ {k}
  BY <1>1, <1>3, <1>7 DEF KeysOf
<1>9. Order(entries') = Lru!Freshest(k, DOMAIN Sizes(entries, index))
  BY <1>4, <1>6, <1>7, <1>8 DEF Lru!Freshest
<1>10. Sizes(entries', index') = Sizes(entries, index)
  <2>1. EntrySet(entries') = EntrySet(entries)
    <3>1. e \in EntrySet(entries)
      BY DEF EntrySet
    <3>2. EntrySet(entries') = EntrySet(r) \cup {e}
      BY <1>1, <1>2, <1>3, <1>5, EraseProperties, PushProperties DEF r
    <3> QED BY <1>3, <3>1, <3>2
  <2>2. KeysOf(entries') = KeysOf(entries)
    BY <2>1 DEF KeysOf
  <2> QED BY <2>1, <2>2, InvDescribes, InvDescribesNext, SameSizes DEF Describes
<1> QED BY <1>5, <1>7, <1>9, <1>10 DEF Lru!LruUse

(* Put stores its resource and keeps as many of the freshest as fit.       *)
LEMMA PutImplements ==
  ASSUME Inv, Inv', NEW k \in Keys, NEW bytes \in 0..MaxBytes, Put(k, bytes)
  PROVE  Lru!LruStore(k, bytes)
<1> DEFINE New(a) == [addr |-> a, key |-> k, bytes |-> bytes]
<1>1. PICK a \in Addrs :
        LET es == PushFront(New(a), Without(k))
        IN /\ New(a) \in Entry /\ WellFormed(es)
           /\ EntrySet(es) = {x \in EntrySet(entries) : x.key # k} \cup {New(a)}
           /\ IsFiniteSet(HeldBytes(EntrySet(es)))
           /\ EvictUntilWithinCapacity(es, ByteCount(es),
                [j \in DOMAIN index \cup {k} |-> IF j = k THEN a ELSE index[j]])
  BY PutParts
<1> DEFINE es      == PushFront(New(a), Without(k))
           kept    == SubSeq(es, 1, StopsAt(es, ByteCount(es)))
           K       == KeysOf(kept)
           stored  == Sizes(entries, index)
           offered == [j \in DOMAIN stored \cup {k} |-> IF j = k THEN bytes ELSE stored[j]]
           order   == Lru!Freshest(k, DOMAIN offered)
           Fits(S) == Lru!TotalBytes(offered, S) <= Capacity /\ Lru!UpwardClosed(S, order)
<1>2. /\ WellFormed(es) /\ IsFiniteSet(HeldBytes(EntrySet(es)))
      /\ EntrySet(es) = {x \in EntrySet(entries) : x.key # k} \cup {New(a)}
      /\ entries' = kept
  BY <1>1 DEF EvictUntilWithinCapacity
<1>3. New(a).key = k /\ New(a).bytes = bytes /\ New(a) \in Entry
  BY <1>1
<1>4. Order(es) = {p \in Order(entries) : k \notin {p[1], p[2]}} \cup ({k} \X (KeysOf(entries) \ {k}))
  <2>1. /\ Without(k) \in Seq(Entry)
        /\ Order(Without(k)) = {p \in Order(entries) : k \notin {p[1], p[2]}}
    <3>1. CASE k \in DOMAIN index
      <4>1. PICK i \in 1..Len(entries) : entries[i].key = k /\ entries[i].addr = index[k]
        BY <3>1, Lookup
      <4> QED BY <3>1, <4>1, InvWellFormed, EraseOrder, EraseProperties DEF Without, WellFormed
    <3>2. CASE k \notin DOMAIN index
      <4>1. k \notin KeysOf(entries)
        BY <3>2 DEF Inv, IndexAgrees
      <4>2. \A p \in Order(entries) : p[1] \in KeysOf(entries) /\ p[2] \in KeysOf(entries)
        BY DEF Order, KeysOf, EntrySet, Inv, TypeOK
      <4> QED BY <3>2, <4>1, <4>2 DEF Without, Inv, TypeOK
    <3> QED BY <3>1, <3>2
  <2>2. EntrySet(Without(k)) = {x \in EntrySet(entries) : x.key # k}
    BY RestOfPut
  <2>3. KeysOf(Without(k)) = KeysOf(entries) \ {k}
    BY <2>2 DEF KeysOf
  <2>4. Order(es) = Order(Without(k)) \cup ({New(a).key} \X KeysOf(Without(k)))
    BY <1>3, <2>1, PushOrder
  <2> HIDE DEF es, New
  <2> QED BY <1>3, <2>1, <2>3, <2>4
<1> HIDE DEF es, New
<1>5. Describes(stored, entries)
  BY InvDescribes
<1> HIDE DEF stored
<1>6. DOMAIN offered = KeysOf(entries) \cup {k}
  BY <1>5 DEF Describes
<1>7. Describes(offered, es)
  <2>1. KeysOf(es) = KeysOf(entries) \cup {k}
    BY <1>2, <1>3 DEF KeysOf
  <2>2. ASSUME NEW x \in EntrySet(es) PROVE offered[x.key] = x.bytes
    <3>1. x.key \in DOMAIN offered
      BY <1>6, <2>1 DEF KeysOf
    <3>2. CASE x = New(a)
      BY <1>3, <3>1, <3>2
    <3>3. CASE x \in EntrySet(entries) /\ x.key # k
      BY <1>5, <3>1, <3>3 DEF Describes
    <3> QED BY <1>2, <3>2, <3>3
  <2> QED BY <1>6, <2>1, <2>2 DEF Describes
<1>8. order = Order(es)
  BY <1>4, <1>6 DEF Lru!Freshest
<1> HIDE DEF order, offered
<1>9. /\ K \subseteq DOMAIN offered
      /\ Fits(K)
      /\ \A T \in SUBSET DOMAIN offered : Fits(T) => T \subseteq K
  BY <1>2, <1>7, <1>8, KeptIsLargest
<1>10. StopsAt(es, ByteCount(es)) \in 0..Len(es)
  BY <1>2, EvictionExact
<1>11. Order(entries') = order \cap (K \X K)
  BY <1>2, <1>8, <1>10, CutOrder
<1>12. Sizes(entries', index') = [j \in K |-> offered[j]]
  <2> DEFINE f == [j \in K |-> offered[j]]
  <2>1. EntrySet(kept) \subseteq EntrySet(es)
    BY <1>2, <1>10, CutProperties
  <2> HIDE DEF kept
  <2>2. \A x \in EntrySet(kept) : x.key \in K /\ offered[x.key] = x.bytes
    BY <1>7, <2>1 DEF Describes, KeysOf
  <2>3. Describes(f, kept) /\ f = [j \in KeysOf(kept) |-> f[j]]
    BY <2>2 DEF Describes
  <2> HIDE DEF f
  <2>4. /\ Describes(Sizes(entries', index'), kept)
        /\ Sizes(entries', index') = [j \in KeysOf(kept) |-> Sizes(entries', index')[j]]
    BY <1>2, InvDescribesNext
  <2>5. Sizes(entries', index') = f
    BY <2>3, <2>4, SameSizes
  <2> QED BY <2>5 DEF f
<1>13. bytes <= Capacity /\ used' = k
  BY DEF Put
<1> HIDE DEF K
<1>14. \E S \in SUBSET DOMAIN offered :
         /\ Fits(S)
         /\ \A T \in SUBSET DOMAIN offered : Fits(T) => T \subseteq S
         /\ Sizes(entries', index') = [j \in S |-> offered[j]]
         /\ Order(entries') = order \cap (S \X S)
         /\ used' = k
  BY <1>9, <1>11, <1>12, <1>13
<1> QED BY <1>13, <1>14 DEF Lru!LruStore, offered, order, stored

(* An empty cache is an empty cache.                                       *)
LEMMA NothingStored ==
  ASSUME NEW idx, DOMAIN idx = {}
  PROVE  Sizes(<< >>, idx) = << >> /\ Order(<< >>) = {}
BY DEF Sizes, Order

(* The cache is a least-recently-used cache: every call, evictions         *)
(* included, does what LruCache allows, for every capacity and any keys.   *)
THEOREM ImplementsLru == Spec => EvictsLeastRecentlyUsed
<1>1. Init => Lru!LruInit
  BY NothingStored DEF Init, Lru!LruInit
<1>2. Inv /\ Inv' /\ [Next]_vars => [Lru!LruNext]_(Lru!lruVars)
  <2> SUFFICES ASSUME Inv, Inv', [Next]_vars PROVE [Lru!LruNext]_(Lru!lruVars)
    OBVIOUS
  <2>1. CASE UNCHANGED vars
    BY <2>1 DEF vars, Lru!lruVars
  <2>2. ASSUME NEW k \in Keys, NEW bytes \in 0..MaxBytes, PutTooLarge(k, bytes)
        PROVE  [Lru!LruNext]_(Lru!lruVars)
    BY <2>1, <2>2 DEF PutTooLarge
  <2>3. ASSUME NEW k \in Keys, NEW bytes \in 0..MaxBytes, Put(k, bytes)
        PROVE  [Lru!LruNext]_(Lru!lruVars)
    BY <2>3, PutImplements DEF Lru!LruNext
  <2>4. ASSUME NEW k \in Keys, Get(k) PROVE [Lru!LruNext]_(Lru!lruVars)
    BY <2>4, GetImplements DEF Lru!LruNext
  <2>5. ASSUME NEW k \in Keys, GetMiss(k) PROVE [Lru!LruNext]_(Lru!lruVars)
    BY <2>1, <2>5 DEF GetMiss
  <2>6. CASE Clear
    BY <2>6, NothingStored DEF Clear, Lru!LruNext, Lru!LruClear
  <2> QED BY <2>1, <2>2, <2>3, <2>4, <2>5, <2>6 DEF Next
<1> QED BY <1>1, <1>2, InvHolds, PTL DEF Spec, EvictsLeastRecentlyUsed, Lru!LruSpec
-----------------------------------------------------------------------------
(* The logger.                                                             *)

CallConsistent(c) ==
  /\ c.record < next
  /\ c.pc \in {"entered", "locked"} =>
       taken[c.record] = << >> /\ delivered[c.record] = << >>
  /\ c.pc \in {"delivering", "in sink"} =>
       taken[c.record] = delivered[c.record] \o c.pending

CallsConsistent == \A t \in Threads : \A i \in 1..Len(stack[t]) : CallConsistent(stack[t][i])

OneCallPerRecord ==
  \A t, u \in Threads : \A i \in 1..Len(stack[t]), j \in 1..Len(stack[u]) :
    stack[t][i].record = stack[u][j].record => t = u /\ i = j

Settled == \A r \in Record : ~InProgress(r) => delivered[r] = taken[r]
Untouched == \A r \in Record : r >= next => taken[r] = << >> /\ delivered[r] = << >>

LogInv ==
  /\ LogTypeOK
  /\ SinksRunUnlocked
  /\ CallsConsistent
  /\ OneCallPerRecord
  /\ Settled
  /\ Untouched

(***************************************************************************)
(* Stacks.                                                                 *)
(***************************************************************************)

(* Pushing, replacing and popping the first element of a sequence.         *)
LEMMA PushIsSeq ==
  ASSUME NEW S, NEW s \in Seq(S), NEW c \in S
  PROVE  /\ <<c>> \o s \in Seq(S)
         /\ Len(<<c>> \o s) = Len(s) + 1
         /\ (<<c>> \o s)[1] = c
         /\ \A i \in 2..Len(s) + 1 : (<<c>> \o s)[i] = s[i - 1]
OBVIOUS

LEMMA TailIsSeq ==
  ASSUME NEW S, NEW s \in Seq(S), s # << >>
  PROVE  /\ Tail(s) \in Seq(S)
         /\ Len(s) \in Nat /\ Len(s) >= 1
         /\ Len(Tail(s)) = Len(s) - 1
         /\ \A i \in 1..Len(s) - 1 : Tail(s)[i] = s[i + 1]
         /\ s[1] \in S
OBVIOUS

LEMMA ReplaceIsSeq ==
  ASSUME NEW S, NEW s \in Seq(S), s # << >>, NEW c \in S
  PROVE  /\ <<c>> \o Tail(s) \in Seq(S)
         /\ Len(<<c>> \o Tail(s)) = Len(s)
         /\ (<<c>> \o Tail(s))[1] = c
         /\ \A i \in 2..Len(s) : (<<c>> \o Tail(s))[i] = s[i]
<1>1. /\ Tail(s) \in Seq(S)
      /\ Len(s) \in Nat /\ Len(s) >= 1
      /\ Len(Tail(s)) = Len(s) - 1
      /\ \A i \in 1..Len(s) - 1 : Tail(s)[i] = s[i + 1]
  BY TailIsSeq
<1>2. /\ <<c>> \o Tail(s) \in Seq(S)
      /\ Len(<<c>> \o Tail(s)) = Len(Tail(s)) + 1
      /\ (<<c>> \o Tail(s))[1] = c
      /\ \A i \in 2..Len(Tail(s)) + 1 : (<<c>> \o Tail(s))[i] = Tail(s)[i - 1]
  BY <1>1, PushIsSeq
<1> QED BY <1>1, <1>2

(* The innermost call moves on: the others stay, and the same records are  *)
(* in progress.                                                            *)
LEMMA ReplaceTop ==
  ASSUME LogInv, NEW t \in Threads, stack[t] # << >>,
         NEW c \in Call, c.record = stack[t][1].record, GoTo(t, c)
  PROVE  /\ stack' \in [Threads -> Seq(Call)]
         /\ Len(stack'[t]) = Len(stack[t])
         /\ stack'[t][1] = c
         /\ \A i \in 2..Len(stack[t]) : stack'[t][i] = stack[t][i]
         /\ \A u \in Threads : u # t => stack'[u] = stack[u]
         /\ OneCallPerRecord'
         /\ \A r \in Record : InProgress(r)' <=> InProgress(r)
<1>1. stack[t] \in Seq(Call) /\ stack \in [Threads -> Seq(Call)]
  BY DEF LogInv, LogTypeOK
<1>2. stack' = [stack EXCEPT ![t] = <<c>> \o Tail(stack[t])]
  BY DEF GoTo
<1>3. stack'[t] = <<c>> \o Tail(stack[t])
  BY <1>1, <1>2
<1>4. /\ stack'[t] \in Seq(Call)
      /\ Len(stack'[t]) = Len(stack[t])
      /\ stack'[t][1] = c
      /\ \A i \in 2..Len(stack[t]) : stack'[t][i] = stack[t][i]
  BY <1>1, <1>3, ReplaceIsSeq
<1>5. \A u \in Threads : u # t => stack'[u] = stack[u]
  BY <1>1, <1>2
<1>6. stack' \in [Threads -> Seq(Call)]
  BY <1>1, <1>2, <1>3, <1>4
<1>7. \A u \in Threads : /\ Len(stack[u]) \in Nat
                         /\ Len(stack'[u]) = Len(stack[u])
                         /\ \A i \in 1..Len(stack[u]) :
                              stack'[u][i].record = stack[u][i].record
  <2> SUFFICES ASSUME NEW u \in Threads
               PROVE /\ Len(stack[u]) \in Nat
                     /\ Len(stack'[u]) = Len(stack[u])
                     /\ \A i \in 1..Len(stack[u]) : stack'[u][i].record = stack[u][i].record
    OBVIOUS
  <2>1. Len(stack[u]) \in Nat
    BY <1>1
  <2>2. CASE u = t
    BY <2>1, <2>2, <1>4
  <2>3. CASE u # t
    BY <2>1, <2>3, <1>5
  <2> QED BY <2>2, <2>3
<1>8. OneCallPerRecord'
  BY <1>7 DEF OneCallPerRecord, LogInv
<1>9. \A r \in Record : InProgress(r)' <=> InProgress(r)
  <2>1. \A u \in Threads : /\ DOMAIN stack[u] = 1..Len(stack[u])
                           /\ DOMAIN stack'[u] = 1..Len(stack[u])
    BY <1>1, <1>6, <1>7
  <2> QED BY <2>1, <1>7 DEF InProgress
<1> QED BY <1>4, <1>5, <1>6, <1>8, <1>9

(* The innermost call returns: its record is in progress no longer, every  *)
(* other one still is.                                                     *)
LEMMA PopTop ==
  ASSUME LogInv, NEW t \in Threads, stack[t] # << >>, LeaveCall(t)
  PROVE  /\ stack' \in [Threads -> Seq(Call)]
         /\ Len(stack'[t]) = Len(stack[t]) - 1
         /\ \A i \in 1..Len(stack[t]) - 1 : stack'[t][i] = stack[t][i + 1]
         /\ \A u \in Threads : u # t => stack'[u] = stack[u]
         /\ OneCallPerRecord'
         /\ \A r \in Record : InProgress(r)' <=> InProgress(r) /\ r # stack[t][1].record
<1>1. stack[t] \in Seq(Call) /\ stack \in [Threads -> Seq(Call)]
  BY DEF LogInv, LogTypeOK
<1>2. stack' = [stack EXCEPT ![t] = Tail(stack[t])]
  BY DEF LeaveCall
<1>3. stack'[t] = Tail(stack[t])
  BY <1>1, <1>2
<1>4. /\ stack'[t] \in Seq(Call)
      /\ Len(stack[t]) \in Nat /\ Len(stack[t]) >= 1
      /\ Len(stack'[t]) = Len(stack[t]) - 1
      /\ \A i \in 1..Len(stack[t]) - 1 : stack'[t][i] = stack[t][i + 1]
  BY <1>1, <1>3, TailIsSeq
<1>5. \A u \in Threads : u # t => stack'[u] = stack[u]
  BY <1>1, <1>2
<1>6. stack' \in [Threads -> Seq(Call)]
  BY <1>1, <1>2, <1>3, <1>4
<1>7. \A u \in Threads : /\ Len(stack[u]) \in Nat
                         /\ DOMAIN stack[u] = 1..Len(stack[u])
                         /\ DOMAIN stack'[u] = 1..Len(stack'[u])
  BY <1>1, <1>6
<1>8. OneCallPerRecord'
  <2> SUFFICES ASSUME NEW u \in Threads, NEW v \in Threads,
                      NEW i \in 1..Len(stack'[u]), NEW j \in 1..Len(stack'[v]),
                      stack'[u][i].record = stack'[v][j].record
               PROVE  u = v /\ i = j
    BY DEF OneCallPerRecord
  <2> DEFINE old(w, k) == IF w = t THEN k + 1 ELSE k
  <2>1. old(u, i) \in 1..Len(stack[u]) /\ stack[u][old(u, i)] = stack'[u][i]
    BY <1>4, <1>5, <1>7
  <2>2. old(v, j) \in 1..Len(stack[v]) /\ stack[v][old(v, j)] = stack'[v][j]
    BY <1>4, <1>5, <1>7
  <2>3. stack[u][old(u, i)].record = stack[v][old(v, j)].record
    BY <2>1, <2>2
  <2>4. u = v /\ old(u, i) = old(v, j)
    <3> HIDE DEF old
    <3> QED BY <2>1, <2>2, <2>3 DEF LogInv, OneCallPerRecord
  <2> QED BY <2>4, <1>7
<1>9. \A r \in Record : InProgress(r)' <=> InProgress(r) /\ r # stack[t][1].record
  <2> SUFFICES ASSUME NEW r \in Record
               PROVE  InProgress(r)' <=> InProgress(r) /\ r # stack[t][1].record
    OBVIOUS
  <2>1. ASSUME InProgress(r)' PROVE InProgress(r) /\ r # stack[t][1].record
    <3>0. PICK u \in Threads : \E i \in 1..Len(stack'[u]) : stack'[u][i].record = r
      BY <2>1, <1>7 DEF InProgress
    <3>1. PICK i \in 1..Len(stack'[u]) : stack'[u][i].record = r
      BY <3>0
    <3> DEFINE k == IF u = t THEN i + 1 ELSE i
    <3>2. k \in 1..Len(stack[u]) /\ stack[u][k].record = r /\ (u = t => k # 1)
      BY <3>1, <1>4, <1>5, <1>7
    <3>3. InProgress(r)
      BY <3>2, <1>7 DEF InProgress
    <3>4. 1 \in 1..Len(stack[t])
      BY <1>4
    <3>5. r # stack[t][1].record
      BY <3>2, <3>4 DEF LogInv, OneCallPerRecord
    <3> QED BY <3>3, <3>5
  <2>2. ASSUME InProgress(r), r # stack[t][1].record PROVE InProgress(r)'
    <3>0. PICK u \in Threads : \E i \in 1..Len(stack[u]) : stack[u][i].record = r
      BY <2>2, <1>7 DEF InProgress
    <3>1. PICK i \in 1..Len(stack[u]) : stack[u][i].record = r
      BY <3>0
    <3> DEFINE k == IF u = t THEN i - 1 ELSE i
    <3>2. k \in 1..Len(stack'[u]) /\ stack'[u][k].record = r
      BY <3>1, <2>2, <1>4, <1>5, <1>7
    <3> QED BY <3>2, <1>7 DEF InProgress
  <2> QED BY <2>1, <2>2
<1> QED BY <1>4, <1>5, <1>6, <1>8, <1>9

(* A call for a new record is entered.                                     *)
LEMMA PushTop ==
  ASSUME LogInv, NEW t \in Threads, NEW c \in Call, ~InProgress(c.record),
         stack' = [stack EXCEPT ![t] = <<c>> \o @]
  PROVE  /\ stack' \in [Threads -> Seq(Call)]
         /\ Len(stack'[t]) = Len(stack[t]) + 1
         /\ stack'[t][1] = c
         /\ \A i \in 2..Len(stack[t]) + 1 : stack'[t][i] = stack[t][i - 1]
         /\ \A u \in Threads : u # t => stack'[u] = stack[u]
         /\ OneCallPerRecord'
         /\ \A r \in Record : InProgress(r)' <=> InProgress(r) \/ r = c.record
<1>1. stack[t] \in Seq(Call) /\ stack \in [Threads -> Seq(Call)]
  BY DEF LogInv, LogTypeOK
<1>3. stack'[t] = <<c>> \o stack[t]
  BY <1>1
<1>4. /\ stack'[t] \in Seq(Call)
      /\ Len(stack[t]) \in Nat
      /\ Len(stack'[t]) = Len(stack[t]) + 1
      /\ stack'[t][1] = c
      /\ \A i \in 2..Len(stack[t]) + 1 : stack'[t][i] = stack[t][i - 1]
  BY <1>1, <1>3, PushIsSeq
<1>5. \A u \in Threads : u # t => stack'[u] = stack[u]
  BY <1>1
<1>6. stack' \in [Threads -> Seq(Call)]
  BY <1>1, <1>3, <1>4
<1>7. \A u \in Threads : /\ Len(stack[u]) \in Nat
                         /\ DOMAIN stack[u] = 1..Len(stack[u])
                         /\ DOMAIN stack'[u] = 1..Len(stack'[u])
  BY <1>1, <1>6
<1> DEFINE New(u, i) == u = t /\ i = 1
           old(u, i) == IF u = t THEN i - 1 ELSE i
<1>8. ASSUME NEW u \in Threads, NEW i \in 1..Len(stack'[u])
      PROVE  \/ New(u, i) /\ stack'[u][i] = c
             \/ /\ ~New(u, i) /\ old(u, i) \in 1..Len(stack[u])
                /\ stack'[u][i] = stack[u][old(u, i)]
                /\ stack'[u][i].record # c.record
  <2>1. CASE New(u, i)
    BY <2>1, <1>4
  <2>2. CASE ~New(u, i)
    <3>1. old(u, i) \in 1..Len(stack[u]) /\ stack'[u][i] = stack[u][old(u, i)]
      BY <2>2, <1>4, <1>5, <1>7
    <3>2. stack[u][old(u, i)].record # c.record
      BY <3>1, <1>7 DEF InProgress
    <3> QED BY <2>2, <3>1, <3>2
  <2> QED BY <2>1, <2>2
<1>9. OneCallPerRecord'
  <2> SUFFICES ASSUME NEW u \in Threads, NEW v \in Threads,
                      NEW i \in 1..Len(stack'[u]), NEW j \in 1..Len(stack'[v]),
                      stack'[u][i].record = stack'[v][j].record
               PROVE  u = v /\ i = j
    BY DEF OneCallPerRecord
  <2>1. CASE New(u, i)
    BY <2>1, <1>8
  <2>2. CASE ~New(u, i)
    <3>1. ~New(v, j)
      BY <2>2, <1>8
    <3>2. u = v /\ old(u, i) = old(v, j)
      BY <2>2, <3>1, <1>8 DEF LogInv, OneCallPerRecord
    <3> QED BY <3>2, <1>7
  <2> QED BY <2>1, <2>2
<1>10. \A r \in Record : InProgress(r)' <=> InProgress(r) \/ r = c.record
  <2> SUFFICES ASSUME NEW r \in Record
               PROVE  InProgress(r)' <=> InProgress(r) \/ r = c.record
    OBVIOUS
  <2>1. ASSUME InProgress(r)' PROVE InProgress(r) \/ r = c.record
    <3>0. PICK u \in Threads : \E i \in 1..Len(stack'[u]) : stack'[u][i].record = r
      BY <2>1, <1>7 DEF InProgress
    <3>1. PICK i \in 1..Len(stack'[u]) : stack'[u][i].record = r
      BY <3>0
    <3> QED BY <3>1, <1>7, <1>8 DEF InProgress
  <2>2. ASSUME InProgress(r) PROVE InProgress(r)'
    <3>0. PICK u \in Threads : \E i \in 1..Len(stack[u]) : stack[u][i].record = r
      BY <2>2, <1>7 DEF InProgress
    <3>1. PICK i \in 1..Len(stack[u]) : stack[u][i].record = r
      BY <3>0
    <3> DEFINE k == IF u = t THEN i + 1 ELSE i
    <3>2. k \in 1..Len(stack'[u]) /\ stack'[u][k].record = r
      BY <3>1, <1>4, <1>5, <1>7
    <3> QED BY <3>2, <1>7 DEF InProgress
  <2>3. ASSUME r = c.record PROVE InProgress(r)'
    <3>1. 1 \in 1..Len(stack'[t])
      BY <1>4
    <3> QED BY <2>3, <3>1, <1>4, <1>7 DEF InProgress
  <2> QED BY <2>1, <2>2, <2>3
<1> QED BY <1>4, <1>5, <1>6, <1>9, <1>10

(***************************************************************************)
(* What the parts of the invariant need of a step.                         *)
(***************************************************************************)

(* Only thread t locks or unlocks, and holds the mutex afterwards or not.  *)
MutexMoves(t, holds) ==
  /\ mutex' \in Threads \cup {NoThread}
  /\ \A u \in Threads : u # t => (mutex' = u <=> mutex = u)
  /\ mutex' = t <=> holds

(* Nothing is delivered for a record other than q.                         *)
OnlyRecord(q) ==
  /\ taken' \in [Record -> Seq(Sinks \cup {Stderr})]
  /\ delivered' \in [Record -> Seq(Sinks \cup {Stderr})]
  /\ \A r \in Record : r # q => taken'[r] = taken[r] /\ delivered'[r] = delivered[r]

Registration == <<level, sinks, next>>

(* A step that neither calls log nor delivers.                             *)
LEMMA SameCalls ==
  ASSUME LogInv, UNCHANGED <<stack, mutex, next, taken, delivered>>,
         level' \in Levels, sinks' \in Seq(Sinks), Len(sinks') <= MaxSinks
  PROVE  LogInv'
<1>1. LogTypeOK'
  BY DEF LogInv, LogTypeOK
<1>2. SinksRunUnlocked'
  BY DEF LogInv, SinksRunUnlocked, Top
<1>3. CallsConsistent' /\ OneCallPerRecord'
  BY DEF LogInv, CallsConsistent, CallConsistent, OneCallPerRecord
<1>4. Settled' /\ Untouched'
  BY DEF LogInv, Settled, Untouched, InProgress
<1> QED BY <1>1, <1>2, <1>3, <1>4 DEF LogInv

(* The innermost call of a thread, when it is in one.                      *)
LEMMA TopCall ==
  ASSUME LogInv, NEW t \in Threads, stack[t] # << >>
  PROVE  /\ stack[t][1] \in Call
         /\ stack[t] \in Seq(Call)
         /\ 1 \in 1..Len(stack[t])
         /\ Len(stack[t]) \in Nat
         /\ CallConsistent(stack[t][1])
         /\ InProgress(stack[t][1].record)
<1>1. stack[t] \in Seq(Call)
  BY DEF LogInv, LogTypeOK
<1>2. Len(stack[t]) \in Nat /\ Len(stack[t]) >= 1 /\ stack[t][1] \in Call
  BY <1>1, TailIsSeq
<1>3. CallConsistent(stack[t][1])
  BY <1>2 DEF LogInv, CallsConsistent
<1>4. InProgress(stack[t][1].record)
  BY <1>1, <1>2 DEF InProgress
<1> QED BY <1>1, <1>2, <1>3, <1>4

(* Any other call is for another record than the innermost of a thread.    *)
LEMMA OtherCalls ==
  ASSUME LogInv, NEW t \in Threads, stack[t] # << >>,
         NEW u \in Threads, NEW i \in 1..Len(stack[u]), u # t \/ i # 1
  PROVE  /\ stack[u][i] \in Call
         /\ CallConsistent(stack[u][i])
         /\ stack[u][i].record # stack[t][1].record
<1>1. stack[u] \in Seq(Call)
  BY DEF LogInv, LogTypeOK
<1>2. 1 \in 1..Len(stack[t])
  BY TopCall
<1> QED BY <1>1, <1>2 DEF LogInv, CallsConsistent, OneCallPerRecord

(* A step in which the innermost call of t becomes c and nothing changes   *)
(* for other records keeps the invariant, given what c has to satisfy.     *)
LEMMA MoveOn ==
  ASSUME LogInv, NEW t \in Threads, stack[t] # << >>,
         NEW c \in Call, c.record = stack[t][1].record, GoTo(t, c),
         UNCHANGED Registration, OnlyRecord(c.record), CallConsistent(c)',
         MutexMoves(t, c.pc = "locked")
  PROVE  LogInv'
<1>1. /\ stack' \in [Threads -> Seq(Call)]
      /\ Len(stack'[t]) = Len(stack[t])
      /\ stack'[t][1] = c
      /\ \A i \in 2..Len(stack[t]) : stack'[t][i] = stack[t][i]
      /\ \A u \in Threads : u # t => stack'[u] = stack[u]
      /\ OneCallPerRecord'
      /\ \A r \in Record : InProgress(r)' <=> InProgress(r)
  BY ReplaceTop
<1>2. /\ stack[t][1] \in Call /\ stack[t] \in Seq(Call)
      /\ 1 \in 1..Len(stack[t])
      /\ Len(stack[t]) \in Nat
      /\ CallConsistent(stack[t][1])
      /\ InProgress(stack[t][1].record)
  BY TopCall
<1>3. c.record \in Record /\ c.record < next
  BY <1>2 DEF Call, CallConsistent
<1>4. LogTypeOK'
  BY <1>1 DEF LogInv, LogTypeOK, OnlyRecord, MutexMoves, Registration
<1>5. SinksRunUnlocked'
  <2> SUFFICES ASSUME NEW u \in Threads
               PROVE  /\ mutex' = u <=> Top(u, "locked")'
                      /\ \A i \in 2..Len(stack'[u]) : stack'[u][i].pc = "in sink"
    BY DEF SinksRunUnlocked
  <2>1. CASE u = t
    <3>1. stack'[t] # << >>
      BY <1>1, <1>2
    <3>2. Top(t, "locked")' <=> c.pc = "locked"
      BY <3>1, <1>1 DEF Top
    <3>3. mutex' = t <=> c.pc = "locked"
      BY DEF MutexMoves
    <3>4. \A i \in 2..Len(stack'[t]) : stack'[t][i].pc = "in sink"
      BY <1>1 DEF LogInv, SinksRunUnlocked
    <3> QED BY <2>1, <3>2, <3>3, <3>4
  <2>2. CASE u # t
    <3>1. stack'[u] = stack[u] /\ (mutex' = u <=> mutex = u)
      BY <2>2, <1>1 DEF MutexMoves
    <3>2. Top(u, "locked")' <=> Top(u, "locked")
      BY <3>1 DEF Top
    <3> QED BY <3>1, <3>2 DEF LogInv, SinksRunUnlocked
  <2> QED BY <2>1, <2>2
<1>6. CallsConsistent'
  <2> SUFFICES ASSUME NEW u \in Threads, NEW i \in 1..Len(stack'[u])
               PROVE  CallConsistent(stack[u][i])'
    BY DEF CallsConsistent
  <2>1. CASE u = t /\ i = 1
    <3>1. stack'[u][i] = c
      BY <2>1, <1>1
    <3> QED BY <3>1 DEF CallConsistent
  <2>2. CASE u # t \/ i # 1
    <3>1. i \in 1..Len(stack[u]) /\ stack'[u][i] = stack[u][i]
      <4>1. CASE u = t
        <5>1. i \in 1..Len(stack[t]) /\ i # 1
          BY <4>1, <2>2, <1>1
        <5>2. i \in 2..Len(stack[t])
          BY <5>1, <1>2
        <5> QED BY <4>1, <5>1, <5>2, <1>1
      <4>2. CASE u # t
        BY <4>2, <1>1
      <4> QED BY <4>1, <4>2
    <3>2. /\ stack[u][i] \in Call
          /\ CallConsistent(stack[u][i])
          /\ stack[u][i].record # stack[t][1].record
      BY <2>2, <3>1, OtherCalls
    <3>3. /\ taken'[stack[u][i].record] = taken[stack[u][i].record]
          /\ delivered'[stack[u][i].record] = delivered[stack[u][i].record]
      BY <3>2 DEF Call, OnlyRecord
    <3> QED BY <3>1, <3>2, <3>3 DEF CallConsistent, Registration
  <2> QED BY <2>1, <2>2
<1>7. Settled'
  <2> SUFFICES ASSUME NEW r \in Record, ~InProgress(r)' PROVE delivered'[r] = taken'[r]
    BY DEF Settled
  <2>1. ~InProgress(r)
    BY <1>1
  <2>2. r # c.record
    BY <2>1, <1>2
  <2>3. delivered[r] = taken[r]
    BY <2>1 DEF LogInv, Settled
  <2> QED BY <2>2, <2>3 DEF OnlyRecord
<1>8. Untouched'
  <2> SUFFICES ASSUME NEW r \in Record, r >= next PROVE taken'[r] = << >> /\ delivered'[r] = << >>
    BY DEF Untouched, Registration
  <2>1. r \in Nat /\ c.record \in Nat /\ next \in Nat
    BY <1>3, LoggerAssumption DEF LogInv, LogTypeOK, Record
  <2>2. r # c.record
    BY <2>1, <1>3
  <2>3. taken[r] = << >> /\ delivered[r] = << >>
    BY DEF LogInv, Untouched
  <2> QED BY <2>2, <2>3 DEF OnlyRecord
<1> QED BY <1>1, <1>4, <1>5, <1>6, <1>7, <1>8 DEF LogInv

(* A step in which the innermost call of t returns, its record settled.    *)
LEMMA MoveOut ==
  ASSUME LogInv, NEW t \in Threads, stack[t] # << >>, LeaveCall(t),
         UNCHANGED <<Registration, taken, delivered>>,
         delivered[stack[t][1].record] = taken[stack[t][1].record],
         MutexMoves(t, FALSE)
  PROVE  LogInv'
<1>1. /\ stack' \in [Threads -> Seq(Call)]
      /\ Len(stack'[t]) = Len(stack[t]) - 1
      /\ \A i \in 1..Len(stack[t]) - 1 : stack'[t][i] = stack[t][i + 1]
      /\ \A u \in Threads : u # t => stack'[u] = stack[u]
      /\ OneCallPerRecord'
      /\ \A r \in Record : InProgress(r)' <=> InProgress(r) /\ r # stack[t][1].record
  BY PopTop
<1>2. /\ stack[t][1] \in Call
      /\ 1 \in 1..Len(stack[t])
      /\ Len(stack[t]) \in Nat
  BY TopCall
<1>0. UNCHANGED <<level, sinks, next, taken, delivered>>
  BY DEF Registration
<1>3. LogTypeOK'
  BY <1>0, <1>1 DEF LogInv, LogTypeOK, MutexMoves
<1>4. \A i \in 1..Len(stack'[t]) : /\ i + 1 \in 2..Len(stack[t])
                                   /\ stack'[t][i] = stack[t][i + 1]
                                   /\ stack'[t][i].pc = "in sink"
  <2> SUFFICES ASSUME NEW i \in 1..Len(stack'[t])
               PROVE  /\ i + 1 \in 2..Len(stack[t])
                      /\ stack'[t][i] = stack[t][i + 1]
                      /\ stack'[t][i].pc = "in sink"
    OBVIOUS
  <2>1. i + 1 \in 2..Len(stack[t]) /\ i \in 1..Len(stack[t]) - 1
    BY <1>1, <1>2
  <2>2. stack'[t][i] = stack[t][i + 1]
    BY <2>1, <1>1
  <2>3. stack[t][i + 1].pc = "in sink"
    BY <2>1 DEF LogInv, SinksRunUnlocked
  <2> QED BY <2>1, <2>2, <2>3
<1>5. SinksRunUnlocked'
  <2> SUFFICES ASSUME NEW u \in Threads
               PROVE  /\ mutex' = u <=> Top(u, "locked")'
                      /\ \A i \in 2..Len(stack'[u]) : stack'[u][i].pc = "in sink"
    BY DEF SinksRunUnlocked
  <2>1. CASE u = t
    <3>1. stack'[t] \in Seq(Call)
      BY <1>1
    <3>2. stack'[t] # << >> => 1 \in 1..Len(stack'[t])
      BY <3>1
    <3>3. ~Top(t, "locked")'
      BY <3>2, <1>4 DEF Top
    <3>4. \A i \in 2..Len(stack'[t]) : i \in 1..Len(stack'[t])
      BY <3>1
    <3>5. mutex' # t
      BY DEF MutexMoves
    <3> QED BY <2>1, <3>3, <3>4, <3>5, <1>4
  <2>2. CASE u # t
    <3>1. stack'[u] = stack[u] /\ (mutex' = u <=> mutex = u)
      BY <2>2, <1>1 DEF MutexMoves
    <3>2. Top(u, "locked")' <=> Top(u, "locked")
      BY <3>1 DEF Top
    <3> QED BY <3>1, <3>2 DEF LogInv, SinksRunUnlocked
  <2> QED BY <2>1, <2>2
<1>6. CallsConsistent'
  <2> SUFFICES ASSUME NEW u \in Threads, NEW i \in 1..Len(stack'[u])
               PROVE  CallConsistent(stack'[u][i])
    BY <1>0 DEF CallsConsistent, CallConsistent
  <2>1. CASE u = t
    <3>1. i + 1 \in 1..Len(stack[t]) /\ stack'[u][i] = stack[t][i + 1]
      <4>1. i + 1 \in 2..Len(stack[t]) /\ stack'[t][i] = stack[t][i + 1]
        BY <2>1, <1>4
      <4> QED BY <2>1, <4>1, <1>2
    <3> QED BY <3>1 DEF LogInv, CallsConsistent
  <2>2. CASE u # t
    BY <2>2, <1>1 DEF LogInv, CallsConsistent
  <2> QED BY <2>1, <2>2
<1>7. Settled'
  <2> SUFFICES ASSUME NEW r \in Record, ~InProgress(r)' PROVE delivered[r] = taken[r]
    BY <1>0 DEF Settled
  <2>1. CASE r = stack[t][1].record
    BY <2>1
  <2>2. CASE r # stack[t][1].record
    BY <2>2, <1>1 DEF LogInv, Settled
  <2> QED BY <2>1, <2>2
<1>8. Untouched'
  BY <1>0 DEF LogInv, Untouched
<1> QED BY <1>1, <1>3, <1>5, <1>6, <1>7, <1>8 DEF LogInv

(***************************************************************************)
(* The invariant holds at first and is kept by every action.               *)
(***************************************************************************)

LEMMA LogInitInv == LogInit => LogInv
<1> SUFFICES ASSUME LogInit PROVE LogInv
  OBVIOUS
<1>1. \A t \in Threads : Len(stack[t]) = 0 /\ stack[t] = << >> /\ DOMAIN stack[t] = {}
  BY DEF LogInit
<1>2. LogTypeOK
  BY LoggerAssumption DEF LogInit, LogTypeOK, Record
<1>3. SinksRunUnlocked
  BY <1>1, LoggerAssumption DEF LogInit, SinksRunUnlocked, Top
<1>4. CallsConsistent /\ OneCallPerRecord
  BY <1>1 DEF CallsConsistent, OneCallPerRecord
<1>5. Settled /\ Untouched
  BY DEF LogInit, Settled, Untouched
<1> QED BY <1>2, <1>3, <1>4, <1>5 DEF LogInv

LEMMA RegistrationPreserves ==
  ASSUME LogInv, NEW t \in Threads,
         \/ \E l \in Levels : SetLevel(t, l)
         \/ \E s \in Sinks : AddSink(t, s)
         \/ ClearSinks(t)
  PROVE  LogInv'
<1>1. UNCHANGED <<stack, mutex, next, taken, delivered>>
  BY DEF SetLevel, AddSink, ClearSinks
<1>2. level' \in Levels
  BY DEF LogInv, LogTypeOK, SetLevel, AddSink, ClearSinks
<1>3. sinks' \in Seq(Sinks) /\ Len(sinks') <= MaxSinks
  <2>1. sinks \in Seq(Sinks) /\ Len(sinks) \in Nat /\ Len(sinks) <= MaxSinks /\ MaxSinks \in Nat
    BY LoggerAssumption DEF LogInv, LogTypeOK
  <2>2. CASE \E l \in Levels : SetLevel(t, l)
    BY <2>1, <2>2 DEF SetLevel
  <2>3. CASE \E s \in Sinks : AddSink(t, s)
    <3>1. PICK s \in Sinks : sinks' = Append(sinks, s) /\ Len(sinks) < MaxSinks
      BY <2>3 DEF AddSink
    <3> QED BY <2>1, <3>1
  <2>4. CASE ClearSinks(t)
    BY <2>1, <2>4 DEF ClearSinks
  <2> QED BY <2>2, <2>3, <2>4
<1> QED BY <1>1, <1>2, <1>3, SameCalls

LEMMA EnterLogPreserves ==
  ASSUME LogInv, NEW t \in Threads, NEW l \in Levels, EnterLog(t, l)
  PROVE  LogInv'
<1> DEFINE c == [record |-> next, level |-> l, pc |-> "entered", pending |-> << >>]
<1>1. /\ next \in Record /\ next \in Nat /\ next' = next + 1 /\ next' \in 1..MaxRecords + 1
      /\ stack' = [stack EXCEPT ![t] = <<c>> \o @]
      /\ UNCHANGED <<level, sinks, mutex, taken, delivered>>
      /\ AtLiberty(t)
  BY LoggerAssumption DEF EnterLog, Record
<1>2. c \in Call /\ c.record = next /\ c.pc = "entered"
  <2>1. << >> \in Seq(Sinks \cup {Stderr})
    OBVIOUS
  <2> QED BY <2>1, <1>1 DEF Call
<1>3. ~InProgress(next)
  <2> SUFFICES ASSUME NEW u \in Threads, NEW i \in DOMAIN stack[u], stack[u][i].record = next
               PROVE FALSE
    BY DEF InProgress
  <2>1. stack[u] \in Seq(Call)
    BY DEF LogInv, LogTypeOK
  <2>2. i \in 1..Len(stack[u])
    BY <2>1
  <2>3. stack[u][i].record < next
    BY <2>2 DEF LogInv, CallsConsistent, CallConsistent
  <2> QED BY <2>3, <1>1
<1> HIDE DEF c
<1>4. /\ stack' \in [Threads -> Seq(Call)]
      /\ Len(stack'[t]) = Len(stack[t]) + 1
      /\ stack'[t][1] = c
      /\ \A i \in 2..Len(stack[t]) + 1 : stack'[t][i] = stack[t][i - 1]
      /\ \A u \in Threads : u # t => stack'[u] = stack[u]
      /\ OneCallPerRecord'
      /\ \A r \in Record : InProgress(r)' <=> InProgress(r) \/ r = c.record
  BY <1>1, <1>2, <1>3, PushTop
<1>5. stack[t] \in Seq(Call) /\ Len(stack[t]) \in Nat
  BY DEF LogInv, LogTypeOK
<1>6. LogTypeOK'
  BY <1>1, <1>4 DEF LogInv, LogTypeOK
<1>7. \A i \in 2..Len(stack'[t]) : /\ i - 1 \in 1..Len(stack[t])
                                   /\ stack'[t][i] = stack[t][i - 1]
  BY <1>4, <1>5
<1>8. SinksRunUnlocked'
  <2> SUFFICES ASSUME NEW u \in Threads
               PROVE  /\ mutex' = u <=> Top(u, "locked")'
                      /\ \A i \in 2..Len(stack'[u]) : stack'[u][i].pc = "in sink"
    BY DEF SinksRunUnlocked
  <2>1. CASE u = t
    <3>1. ~Top(t, "locked")'
      BY <1>2, <1>4 DEF Top
    <3>2. ~Top(t, "locked")
      BY <1>1 DEF Top, AtLiberty
    <3>3. mutex' # t
      BY <3>2, <1>1 DEF LogInv, SinksRunUnlocked
    <3>4. \A i \in 1..Len(stack[t]) : stack[t][i].pc = "in sink"
      <4>1. Len(stack[t]) > 0 => stack[t] # << >>
        BY <1>5
      <4>2. \A i \in 1..Len(stack[t]) : i = 1 \/ i \in 2..Len(stack[t])
        BY <1>5
      <4>3. ASSUME NEW i \in 1..Len(stack[t]) PROVE stack[t][i].pc = "in sink"
        <5>1. CASE i = 1
          <6>1. stack[t] # << >>
            BY <4>1, <1>5
          <6> QED BY <5>1, <6>1, <1>1 DEF AtLiberty
        <5>2. CASE i \in 2..Len(stack[t])
          BY <5>2 DEF LogInv, SinksRunUnlocked
        <5> QED BY <4>2, <5>1, <5>2
      <4> QED BY <4>3
    <3>5. \A i \in 2..Len(stack'[t]) : stack'[t][i].pc = "in sink"
      BY <3>4, <1>7
    <3> QED BY <2>1, <3>1, <3>3, <3>5
  <2>2. CASE u # t
    <3>1. stack'[u] = stack[u] /\ (mutex' = u <=> mutex = u)
      BY <2>2, <1>1, <1>4
    <3>2. Top(u, "locked")' <=> Top(u, "locked")
      BY <3>1 DEF Top
    <3> QED BY <3>1, <3>2 DEF LogInv, SinksRunUnlocked
  <2> QED BY <2>1, <2>2
<1>9. CallsConsistent'
  <2> SUFFICES ASSUME NEW u \in Threads, NEW i \in 1..Len(stack'[u])
               PROVE  CallConsistent(stack[u][i])'
    BY DEF CallsConsistent
  <2>1. CASE u = t /\ i = 1
    <3>1. stack'[u][i] = c
      BY <2>1, <1>4
    <3>2. taken[next] = << >> /\ delivered[next] = << >>
      BY <1>1 DEF LogInv, Untouched
    <3> QED BY <3>1, <3>2, <1>1, <1>2 DEF CallConsistent
  <2>2. CASE ~(u = t /\ i = 1)
    <3>1. PICK j \in 1..Len(stack[u]) : stack'[u][i] = stack[u][j]
      <4>1. CASE u = t
        <5>1. i \in 2..Len(stack'[t])
          BY <4>1, <2>2, <1>4, <1>5
        <5> QED BY <4>1, <5>1, <1>7
      <4>2. CASE u # t
        BY <4>2, <1>4
      <4> QED BY <4>1, <4>2
    <3>2. CallConsistent(stack[u][j]) /\ stack[u][j] \in Call
      <4>1. stack[u] \in Seq(Call)
        BY DEF LogInv, LogTypeOK
      <4> QED BY <4>1 DEF LogInv, CallsConsistent
    <3>3. stack[u][j].record \in Record
      BY <3>2 DEF Call
    <3>4. stack[u][j].record < next'
      <4>1. stack[u][j].record \in Nat
        BY <3>3, LoggerAssumption DEF Record
      <4>2. stack[u][j].record < next
        BY <3>2 DEF CallConsistent
      <4> QED BY <4>1, <4>2, <1>1
    <3> QED BY <3>1, <3>2, <3>4, <1>1 DEF CallConsistent
  <2> QED BY <2>1, <2>2
<1>10. Settled'
  BY <1>1, <1>4 DEF LogInv, Settled
<1>11. Untouched'
  <2> SUFFICES ASSUME NEW r \in Record, r >= next' PROVE taken'[r] = << >> /\ delivered'[r] = << >>
    BY DEF Untouched
  <2>1. r >= next
    BY <1>1, LoggerAssumption DEF Record
  <2> QED BY <2>1, <1>1 DEF LogInv, Untouched
<1> QED BY <1>4, <1>6, <1>8, <1>9, <1>10, <1>11 DEF LogInv

(* Moving the first pending element over to what was delivered.            *)
LEMMA HandOver ==
  ASSUME NEW S, NEW d \in Seq(S), NEW p \in Seq(S), p # << >>
  PROVE  /\ Append(d, Head(p)) \in Seq(S)
         /\ Tail(p) \in Seq(S)
         /\ d \o p = Append(d, Head(p)) \o Tail(p)
<1>1. Len(p) \in Nat /\ Len(p) >= 1 /\ Len(d) \in Nat
  OBVIOUS
<1>2. Tail(p) \in Seq(S) /\ Len(Tail(p)) = Len(p) - 1 /\ Head(p) = p[1] /\ Head(p) \in S
  OBVIOUS
<1>3. Append(d, Head(p)) \in Seq(S) /\ Len(Append(d, Head(p))) = Len(d) + 1
  BY <1>2
<1>4. Len(d \o p) = Len(Append(d, Head(p)) \o Tail(p))
  BY <1>1, <1>2, <1>3
<1>5. ASSUME NEW i \in 1..Len(d) + Len(p)
      PROVE  (d \o p)[i] = (Append(d, Head(p)) \o Tail(p))[i]
  <2>1. CASE i \in 1..Len(d)
    BY <2>1, <1>1, <1>2, <1>3
  <2>2. CASE i = Len(d) + 1
    BY <2>2, <1>1, <1>2, <1>3
  <2>3. CASE i \in Len(d) + 2..Len(d) + Len(p)
    <3>1. (d \o p)[i] = p[i - Len(d)]
      BY <2>3, <1>1
    <3>2. (Append(d, Head(p)) \o Tail(p))[i] = Tail(p)[i - Len(d) - 1]
      BY <2>3, <1>1, <1>2, <1>3
    <3>3. i - Len(d) - 1 \in 1..Len(p) - 1
      BY <2>3, <1>1
    <3>4. Tail(p)[i - Len(d) - 1] = p[i - Len(d)]
      BY <3>3, <1>1
    <3> QED BY <3>1, <3>2, <3>4
  <2> QED BY <2>1, <2>2, <2>3, <1>1
<1>6. d \o p \in Seq(S) /\ Append(d, Head(p)) \o Tail(p) \in Seq(S) /\ Len(d \o p) = Len(d) + Len(p)
  BY <1>2, <1>3
<1> QED BY <1>2, <1>3, <1>4, <1>5, <1>6

LEMMA LockPreserves ==
  ASSUME LogInv, NEW t \in Threads, Lock(t)
  PROVE  LogInv'
<1>0. /\ stack[t] # << >> /\ mutex = NoThread /\ mutex' = t
      /\ UNCHANGED <<level, sinks, next, taken, delivered>>
  BY DEF Lock, Top
<1>2. PICK top \in Call : top = stack[t][1] /\ CallConsistent(top)
  BY <1>0, TopCall
<1>1. top.pc = "entered" /\ GoTo(t, [top EXCEPT !.pc = "locked"])
  BY <1>2 DEF Lock, Top
<1>3. PICK c \in Call : /\ c = [top EXCEPT !.pc = "locked"]
                        /\ c.record = top.record /\ c.pc = "locked"
  <2>1. [top EXCEPT !.pc = "locked"] \in Call
    BY DEF Call
  <2> QED BY <2>1 DEF Call
<1>4. OnlyRecord(c.record) /\ UNCHANGED Registration
  BY <1>0 DEF LogInv, LogTypeOK, OnlyRecord, Registration
<1>5. CallConsistent(c)'
  BY <1>0, <1>1, <1>2, <1>3 DEF CallConsistent
<1>6. MutexMoves(t, c.pc = "locked")
  BY <1>0, <1>3, LoggerAssumption DEF MutexMoves
<1>7. c.record = stack[t][1].record /\ GoTo(t, c)
  BY <1>1, <1>2, <1>3
<1> QED BY <1>0, <1>3, <1>4, <1>5, <1>6, <1>7, MoveOn

LEMMA FilterPreserves ==
  ASSUME LogInv, NEW t \in Threads, Filter(t)
  PROVE  LogInv'
<1>1. /\ stack[t] # << >> /\ stack[t][1].pc = "locked" /\ Top(t, "locked") /\ mutex' = NoThread
      /\ LeaveCall(t)
      /\ UNCHANGED <<level, sinks, next, taken, delivered>>
  BY DEF Filter, Top
<1>2. CallConsistent(stack[t][1])
  BY <1>1, TopCall
<1>3. delivered[stack[t][1].record] = taken[stack[t][1].record]
  BY <1>1, <1>2 DEF CallConsistent
<1>4. mutex = t
  BY <1>1 DEF LogInv, SinksRunUnlocked
<1>5. MutexMoves(t, FALSE)
  BY <1>1, <1>4, LoggerAssumption DEF MutexMoves
<1>6. UNCHANGED <<Registration, taken, delivered>>
  BY <1>1 DEF Registration
<1> QED BY <1>1, <1>3, <1>5, <1>6, MoveOut

LEMMA CopySinksPreserves ==
  ASSUME LogInv, NEW t \in Threads, CopySinks(t)
  PROVE  LogInv'
<1>0. /\ stack[t] # << >> /\ Top(t, "locked") /\ mutex' = NoThread
      /\ UNCHANGED <<level, sinks, next, delivered>>
  BY DEF CopySinks, Top
<1>1. PICK top \in Call : top = stack[t][1] /\ CallConsistent(top)
  BY <1>0, TopCall
<1>2. PICK copied \in Seq(Sinks \cup {Stderr}) :
        copied = IF sinks = << >> THEN <<Stderr>> ELSE sinks
  <2>1. sinks \in Seq(Sinks \cup {Stderr})
    <3>1. sinks \in Seq(Sinks)
      BY DEF LogInv, LogTypeOK
    <3> QED BY <3>1
  <2>2. <<Stderr>> \in Seq(Sinks \cup {Stderr})
    OBVIOUS
  <2> QED BY <2>1, <2>2
<1>3. PICK c \in Call : /\ c = [top EXCEPT !.pc = "delivering", !.pending = copied]
                        /\ c.record = top.record /\ c.pc = "delivering" /\ c.pending = copied
  <2>1. [top EXCEPT !.pc = "delivering", !.pending = copied] \in Call
    BY <1>2 DEF Call
  <2> QED BY <2>1 DEF Call
<1>4. /\ top.pc = "locked"
      /\ taken' = [taken EXCEPT ![top.record] = copied]
      /\ GoTo(t, c)
  BY <1>1, <1>2, <1>3 DEF CopySinks, Top
<1>5. top.record \in Record
  BY DEF Call
<1>6. /\ taken \in [Record -> Seq(Sinks \cup {Stderr})]
      /\ delivered \in [Record -> Seq(Sinks \cup {Stderr})]
  BY DEF LogInv, LogTypeOK
<1>7. OnlyRecord(c.record) /\ UNCHANGED Registration
  BY <1>0, <1>2, <1>3, <1>4, <1>5, <1>6 DEF OnlyRecord, Registration
<1>8. CallConsistent(c)'
  <2>1. taken'[c.record] = copied /\ delivered'[c.record] = << >>
    BY <1>0, <1>1, <1>3, <1>4, <1>5, <1>6 DEF CallConsistent
  <2>2. << >> \o copied = copied
    BY <1>2
  <2>3. c.record < next'
    BY <1>0, <1>1, <1>3 DEF CallConsistent
  <2> QED BY <2>1, <2>2, <2>3, <1>3 DEF CallConsistent
<1>9. mutex = t
  BY <1>0 DEF LogInv, SinksRunUnlocked
<1>10. MutexMoves(t, c.pc = "locked")
  BY <1>0, <1>3, <1>9, LoggerAssumption DEF MutexMoves
<1>11. c.record = stack[t][1].record
  BY <1>1, <1>3
<1> QED BY <1>0, <1>4, <1>7, <1>8, <1>10, <1>11, MoveOn

LEMMA CallSinkPreserves ==
  ASSUME LogInv, NEW t \in Threads, CallSink(t)
  PROVE  LogInv'
<1>0. stack[t] # << >> /\ UNCHANGED <<level, sinks, mutex, next, taken>>
  BY DEF CallSink, Top
<1>1. PICK top \in Call : top = stack[t][1] /\ CallConsistent(top)
  BY <1>0, TopCall
<1>2. PICK r \in Record : r = top.record
  BY DEF Call
<1>3. PICK c \in Call : /\ c = [top EXCEPT !.pc = "in sink", !.pending = Tail(@)]
                        /\ c.record = r /\ c.pc = "in sink" /\ c.pending = Tail(top.pending)
  <2>1. top.pending # << >> /\ top.pending \in Seq(Sinks \cup {Stderr})
    BY <1>1 DEF CallSink, Call
  <2>2. Tail(top.pending) \in Seq(Sinks \cup {Stderr})
    BY <2>1, TailIsSeq
  <2>3. [top EXCEPT !.pc = "in sink", !.pending = Tail(@)] \in Call
    BY <2>2 DEF Call
  <2> QED BY <2>3, <1>2 DEF Call
<1>4. /\ top.pc = "delivering" /\ top.pending # << >>
      /\ delivered' = [delivered EXCEPT ![r] = Append(delivered[r], Head(top.pending))]
      /\ GoTo(t, c)
  BY <1>1, <1>2, <1>3 DEF CallSink, Top
<1>5. /\ taken \in [Record -> Seq(Sinks \cup {Stderr})]
      /\ delivered \in [Record -> Seq(Sinks \cup {Stderr})]
      /\ delivered[r] \in Seq(Sinks \cup {Stderr})
      /\ top.pending \in Seq(Sinks \cup {Stderr})
  BY DEF LogInv, LogTypeOK, Call
<1>6. /\ Append(delivered[r], Head(top.pending)) \in Seq(Sinks \cup {Stderr})
      /\ delivered[r] \o top.pending =
           Append(delivered[r], Head(top.pending)) \o Tail(top.pending)
  BY <1>4, <1>5, HandOver
<1>7. OnlyRecord(c.record) /\ UNCHANGED Registration
  BY <1>0, <1>3, <1>4, <1>5, <1>6 DEF OnlyRecord, Registration
<1>8. CallConsistent(c)'
  <2>1. taken[r] = delivered[r] \o top.pending
    BY <1>1, <1>2, <1>4 DEF CallConsistent
  <2>2. delivered'[r] = Append(delivered[r], Head(top.pending))
    BY <1>4, <1>5
  <2>3. taken'[c.record] = delivered'[c.record] \o c.pending
    BY <2>1, <2>2, <1>0, <1>3, <1>6
  <2>4. c.record < next'
    BY <1>0, <1>1, <1>2, <1>3 DEF CallConsistent
  <2> QED BY <2>3, <2>4, <1>3 DEF CallConsistent
<1>9. MutexMoves(t, c.pc = "locked")
  <2>1. mutex # t
    BY <1>1, <1>4 DEF LogInv, SinksRunUnlocked, Top
  <2> QED BY <2>1, <1>0, <1>3 DEF MutexMoves, LogInv, LogTypeOK
<1>10. c.record = stack[t][1].record
  BY <1>1, <1>2, <1>3
<1> QED BY <1>0, <1>4, <1>7, <1>8, <1>9, <1>10, MoveOn

LEMMA SinkReturnsPreserves ==
  ASSUME LogInv, NEW t \in Threads, SinkReturns(t)
  PROVE  LogInv'
<1>0. stack[t] # << >> /\ UNCHANGED <<level, sinks, mutex, next, taken, delivered>>
  BY DEF SinkReturns, Top
<1>1. PICK top \in Call : top = stack[t][1] /\ CallConsistent(top)
  BY <1>0, TopCall
<1>2. PICK c \in Call : /\ c = [top EXCEPT !.pc = "delivering"]
                        /\ c.record = top.record /\ c.pc = "delivering"
                        /\ c.pending = top.pending
  <2>1. [top EXCEPT !.pc = "delivering"] \in Call
    BY DEF Call
  <2> QED BY <2>1 DEF Call
<1>3. top.pc = "in sink" /\ GoTo(t, c) /\ c.record = stack[t][1].record
  BY <1>1, <1>2 DEF SinkReturns, Top
<1>4. OnlyRecord(c.record) /\ UNCHANGED Registration
  BY <1>0 DEF LogInv, LogTypeOK, OnlyRecord, Registration
<1>5. CallConsistent(c)'
  BY <1>0, <1>1, <1>2, <1>3 DEF CallConsistent
<1>6. MutexMoves(t, c.pc = "locked")
  <2>1. mutex # t
    BY <1>1, <1>3 DEF LogInv, SinksRunUnlocked, Top
  <2> QED BY <2>1, <1>0, <1>2 DEF MutexMoves, LogInv, LogTypeOK
<1> QED BY <1>0, <1>3, <1>4, <1>5, <1>6, MoveOn

LEMMA LogReturnsPreserves ==
  ASSUME LogInv, NEW t \in Threads, LogReturns(t)
  PROVE  LogInv'
<1>1. /\ stack[t] # << >> /\ stack[t][1].pc = "delivering" /\ stack[t][1].pending = << >>
      /\ LeaveCall(t)
      /\ UNCHANGED <<level, sinks, mutex, next, taken, delivered>>
  BY DEF LogReturns, Top
<1>2. stack[t][1] \in Call /\ CallConsistent(stack[t][1])
  BY <1>1, TopCall
<1>3. delivered[stack[t][1].record] = taken[stack[t][1].record]
  <2>1. stack[t][1].record \in Record
    BY <1>2 DEF Call
  <2>2. delivered[stack[t][1].record] \in Seq(Sinks \cup {Stderr})
    BY <2>1 DEF LogInv, LogTypeOK
  <2>3. taken[stack[t][1].record] = delivered[stack[t][1].record] \o << >>
    BY <1>1, <1>2 DEF CallConsistent
  <2> QED BY <2>2, <2>3
<1>4. MutexMoves(t, FALSE)
  <2>1. mutex # t
    BY <1>1 DEF LogInv, SinksRunUnlocked, Top
  <2> QED BY <2>1, <1>1 DEF MutexMoves, LogInv, LogTypeOK
<1>5. UNCHANGED <<Registration, taken, delivered>>
  BY <1>1 DEF Registration
<1> QED BY <1>1, <1>3, <1>4, <1>5, MoveOut

(***************************************************************************)
(* The theorems.                                                           *)
(***************************************************************************)

(* The inductive invariant.                                                *)
THEOREM LogInvHolds == LogSpec => []LogInv
<1>1. LogInit => LogInv
  BY LogInitInv
<1>2. LogInv /\ [LogNext]_logVars => LogInv'
  <2> SUFFICES ASSUME LogInv, [LogNext]_logVars PROVE LogInv'
    OBVIOUS
  <2>1. CASE UNCHANGED logVars
    <3>1. UNCHANGED <<level, sinks, mutex, stack, next, taken, delivered>>
      BY <2>1 DEF logVars
    <3> QED BY <3>1, SameCalls DEF LogInv, LogTypeOK
  <2>2. CASE LogNext
    <3>1. PICK t \in Threads :
            \/ \E l \in Levels : SetLevel(t, l) \/ EnterLog(t, l)
            \/ \E s \in Sinks : AddSink(t, s)
            \/ ClearSinks(t)
            \/ Proceed(t)
      BY <2>2 DEF LogNext
    <3>2. CASE \/ \E l \in Levels : SetLevel(t, l)
               \/ \E s \in Sinks : AddSink(t, s)
               \/ ClearSinks(t)
      BY <3>2, RegistrationPreserves
    <3>3. CASE \E l \in Levels : EnterLog(t, l)
      BY <3>3, EnterLogPreserves
    <3>4. CASE Proceed(t)
      BY <3>4, LockPreserves, FilterPreserves, CopySinksPreserves, CallSinkPreserves,
         SinkReturnsPreserves, LogReturnsPreserves DEF Proceed
    <3> QED BY <3>1, <3>2, <3>3, <3>4
  <2> QED BY <2>1, <2>2
<1> QED BY <1>1, <1>2, PTL DEF LogSpec

(* The types of the logger's state and of the calls in progress.           *)
THEOREM LogTypeCorrect == LogSpec => []LogTypeOK
BY LogInvHolds, PTL DEF LogInv

(* No sink ever runs while its thread holds the logger's mutex, so a sink  *)
(* that logs, or changes the sinks, cannot block itself.                   *)
THEOREM SinksAlwaysRunUnlocked == LogSpec => []SinksRunUnlocked
BY LogInvHolds, PTL DEF LogInv

LEMMA PrefixOfConcatenation ==
  ASSUME NEW S, NEW d \in Seq(S), NEW p \in Seq(S)
  PROVE  IsPrefix(d, d \o p)
BY DEF IsPrefix

(* Every record reaches the sinks its call copied, each once and in order, *)
(* and none is owed once the call has returned.                            *)
THEOREM AlwaysDeliveredAsTaken == LogSpec => []DeliveredAsTaken
<1>1. LogInv => DeliveredAsTaken
  <2> SUFFICES ASSUME LogInv, NEW r \in Record
               PROVE  /\ IsPrefix(delivered[r], taken[r])
                      /\ ~InProgress(r) => delivered[r] = taken[r]
    BY DEF DeliveredAsTaken
  <2>1. delivered[r] \in Seq(Sinks \cup {Stderr}) /\ << >> \in Seq(Sinks \cup {Stderr})
    BY DEF LogInv, LogTypeOK
  <2>2. IsPrefix(delivered[r], delivered[r])
    <3>1. IsPrefix(delivered[r], delivered[r] \o << >>)
      BY <2>1, PrefixOfConcatenation
    <3>2. delivered[r] \o << >> = delivered[r]
      BY <2>1
    <3> QED BY <3>1, <3>2, Zenon
  <2>3. CASE ~InProgress(r)
    BY <2>2, <2>3 DEF LogInv, Settled
  <2>4. CASE InProgress(r)
    <3>1. PICK t \in Threads : \E i \in DOMAIN stack[t] : stack[t][i].record = r
      BY <2>4 DEF InProgress
    <3>2. stack[t] \in Seq(Call)
      BY DEF LogInv, LogTypeOK
    <3>3. PICK i \in 1..Len(stack[t]) : stack[t][i].record = r
      BY <3>1, <3>2
    <3> DEFINE c == stack[t][i]
    <3>4. c \in Call /\ CallConsistent(c) /\ c.record = r
      BY <3>2, <3>3 DEF LogInv, CallsConsistent
    <3> HIDE DEF c
    <3>5. CASE c.pc \in {"entered", "locked"}
      BY <3>4, <3>5, <2>2 DEF CallConsistent
    <3>6. CASE c.pc \in {"delivering", "in sink"}
      <4>1. c.pending \in Seq(Sinks \cup {Stderr})
        BY <3>4 DEF Call
      <4> QED BY <3>4, <3>6, <4>1, <2>1, <2>4, PrefixOfConcatenation DEF CallConsistent
    <3> QED BY <3>4, <3>5, <3>6 DEF Call
  <2> QED BY <2>3, <2>4
<1> QED BY <1>1, LogInvHolds, PTL

=============================================================================
