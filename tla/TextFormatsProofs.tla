-------------------------- MODULE TextFormatsProofs --------------------------
(***************************************************************************)
(* Proofs about package indexes read from a manifest, for manifests of any *)
(* length and 64-bit numbers of any width.  An index that is accepted has  *)
(* entries with numbers of that width, and was validated.  Validation      *)
(* compares neighbours in a stable sort, described by the places it takes  *)
(* entries from; as no range wraps, neighbours in order are enough.        *)
(***************************************************************************)
EXTENDS TextFormats, DataLemmas

(* An index with as many entries as it likes, all of them in 64 bits.      *)
IsEntry(e) == e.offset \in Id /\ e.size \in Id
IsIndex(index) ==
  \E name, version, S : \E entries \in Seq(S) :
    /\ index = [name |-> name, version |-> version, entries |-> entries]
    /\ \A e \in S : IsEntry(e)

LEMMA ParsedNumbers ==
  ASSUME NEW text, IsNumber(text)
  PROVE  ParseU64(text) \in Id
<1>1. PICK n \in Numbers : ToString(n) = text[1]
  BY DEF IsNumber, Digits
<1>2. NumberOf(text) \in Numbers
  BY <1>1 DEF NumberOf
<1>3. NumberOf(text) \in Nat /\ IdSpace \in Nat \ {0, 1}
  BY <1>2, NumberAssumption, SceneAssumption
<1> QED BY <1>3 DEF ParseU64, Id

(* Whatever good line is added, an index stays one.                        *)
LEMMA AddingKeepsIndex ==
  ASSUME NEW index, IsIndex(index), NEW line, ManifestLineIsGood(line)
  PROVE  IsIndex(AddManifestLine(index, line))
<1>1. PICK name, version, S : \E entries \in Seq(S) :
         /\ index = [name |-> name, version |-> version, entries |-> entries]
         /\ \A e \in S : IsEntry(e)
  BY DEF IsIndex
<1>2. PICK entries \in Seq(S) : index = [name |-> name, version |-> version, entries |-> entries]
  BY <1>1
<1>3. CASE IsPackageLine(line)
  <2>1. PICK n, v : AddManifestLine(index, line) = [index EXCEPT !.name = n, !.version = v]
    BY <1>3 DEF AddManifestLine
  <2>2. AddManifestLine(index, line) = [name |-> n, version |-> v, entries |-> entries]
    BY <1>2, <2>1
  <2> QED BY <1>1, <2>2 DEF IsIndex
<1>4. CASE ~IsPackageLine(line)
  <2> DEFINE parts == SplitEscapedPipes(line)
             entry == [path |-> Unescape(parts[2]), kind |-> parts[3][1],
                       offset |-> ParseU64(parts[4]), size |-> ParseU64(parts[5]),
                       checksum |-> ParseU64(parts[6])]
  <2>1. IsNumber(parts[4]) /\ IsNumber(parts[5])
    BY <1>4 DEF ManifestLineIsGood
  <2>2. IsEntry(entry)
    BY <2>1, ParsedNumbers DEF IsEntry
  <2>3. AddManifestLine(index, line) = [index EXCEPT !.entries = Append(@, entry)]
    BY <1>4 DEF AddManifestLine
  <2> HIDE DEF entry, parts
  <2>4. AddManifestLine(index, line)
          = [name |-> name, version |-> version, entries |-> Append(entries, entry)]
    BY <1>2, <2>3
  <2>5. Append(entries, entry) \in Seq(S \cup {entry})
    <3>1. entries \in Seq(S \cup {entry})
      BY SeqMonotonic
    <3> QED BY <3>1
  <2>6. \A e \in S \cup {entry} : IsEntry(e)
    BY <1>1, <2>2
  <2> QED BY <2>4, <2>5, <2>6 DEF IsIndex
<1> QED BY <1>3, <1>4

(* The stable sort by offsets takes the entries from their places.         *)
LEMMA SortByOffset ==
  ASSUME NEW entries, Len(entries) \in Nat,
         \A i \in 1..Len(entries) : entries[i].offset \in Id
  PROVE  \E place \in Bijection(1..Len(entries), 1..Len(entries)) :
           /\ ByOffset(entries) = [k \in 1..Len(entries) |-> entries[place[k]]]
           /\ \A k, l \in 1..Len(entries) :
                k < l => entries[place[k]].offset <= entries[place[l]].offset
<1> DEFINE P == 1..Len(entries)
           n == Cardinality(P)
           key == [i \in P |-> entries[i].offset]
           Sooner(j, i) == \/ entries[j].offset < entries[i].offset
                           \/ entries[j].offset = entries[i].offset /\ j < i
           Rank(i) == Cardinality({j \in P : Sooner(j, i)})
           place == [k \in 1..n |-> CHOOSE i \in P : Rank(i) = k - 1]
<1>1. n = Len(entries) /\ P \subseteq Nat /\ IsFiniteSet(P) /\ n \in Nat
  BY Interval
<1>2. key \in [P -> Int]
  BY SceneAssumption DEF Id
<1>3. ByOffset(entries) = [k \in 1..n |-> entries[place[k]]]
  BY DEF ByOffset, StableSort, SortPlaces
<1>4. \A i \in P : Rank(i) = Cardinality(Earlier(key, P, i))
  <2>1. ASSUME NEW i \in P PROVE {j \in P : Sooner(j, i)} = Earlier(key, P, i)
    BY DEF Earlier, Precedes
  <2> QED BY <2>1
<1> HIDE DEF key, Rank
<1>5. /\ place \in Bijection(1..n, P)
      /\ \A k, l \in 1..n : k < l => Precedes(key, place[k], place[l])
  <2>1. TakesRanks(place, key, P, n)
    <3>1. ASSUME NEW k \in 1..n, NEW i \in P, Cardinality(Earlier(key, P, i)) = k - 1
          PROVE  place[k] \in P /\ Rank(place[k]) = k - 1
      BY <1>4, <3>1
    <3>2. place = [k \in 1..n |-> place[k]]
      OBVIOUS
    <3> HIDE DEF place
    <3> QED BY <1>4, <3>1, <3>2 DEF TakesRanks
  <2> HIDE DEF place, n
  <2>2. n = Cardinality(P)
    BY DEF n
  <2> QED BY <1>1, <1>2, <2>1, <2>2, PlacesInOrder
<1> HIDE DEF place
<1>6. \A k \in 1..n : place[k] \in P
  BY <1>5 DEF Bijection, Injection
<1>7. \A k, l \in 1..n : k < l => entries[place[k]].offset <= entries[place[l]].offset
  <2>1. ASSUME NEW k \in 1..n, NEW l \in 1..n, k < l
        PROVE  entries[place[k]].offset <= entries[place[l]].offset
    <3>1. Precedes(key, place[k], place[l]) /\ place[k] \in P /\ place[l] \in P
      BY <1>5, <1>6, <2>1
    <3>2. entries[place[k]].offset < entries[place[l]].offset
            \/ entries[place[k]].offset = entries[place[l]].offset
      BY <3>1 DEF Precedes, key
    <3>3. entries[place[k]].offset \in Int /\ entries[place[l]].offset \in Int
      BY <3>1, SceneAssumption DEF Id
    <3> QED BY <3>2, <3>3
  <2> QED BY <2>1
<1> QED BY <1>1, <1>3, <1>5, <1>7

(* The end of a range that has not wrapped.                                *)
LEMMA EndUnwrapped ==
  ASSUME NEW e, IsEntry(e), EndOf(e) >= e.offset
  PROVE  EndOf(e) = e.offset + e.size /\ e.offset + e.size < IdSpace
<1>1. PICK a, b, m : a = e.offset /\ b = e.size /\ m = IdSpace
  OBVIOUS
<1>2. a \in 0..m - 1 /\ b \in 0..m - 1 /\ m \in Nat \ {0, 1} /\ (a + b) % m >= a
  BY <1>1, SceneAssumption DEF IsEntry, Id, EndOf
<1>3. CASE a + b < m
  <2>1. (a + b) % m = a + b
    BY <1>2, <1>3
  <2> QED BY <1>1, <1>3, <2>1 DEF EndOf
<1>4. CASE a + b >= m
  <2>1. (a + b) % m = a + b - m
    BY <1>2, <1>4
  <2> QED BY <1>2, <1>4, <2>1
<1> QED BY <1>2, <1>3, <1>4

(* What the entries of an accepted index are to each other.                *)
RangesDisjoint(entries) ==
  LET bytes(e) == e.offset..e.offset + e.size - 1
  IN /\ \A i \in DOMAIN entries : entries[i].offset + entries[i].size < IdSpace
     /\ \A i, j \in DOMAIN entries :
          i # j => /\ bytes(entries[i]) \cap bytes(entries[j]) = {}
                   /\ entries[i].path # entries[j].path

LEMMA ValidRangesDisjoint ==
  ASSUME NEW index, IsIndex(index), ValidatePackageIndex(index)
  PROVE  RangesDisjoint(index.entries)
<1>1. PICK entries, n, sorted :
         /\ entries = index.entries /\ n = Len(entries)
         /\ sorted = ByOffset(index.entries)
  OBVIOUS
<1>2. n \in Nat /\ DOMAIN entries = 1..n /\ \A i \in 1..n : IsEntry(entries[i])
  <2>1. PICK S : entries \in Seq(S) /\ \A e \in S : IsEntry(e)
    BY <1>1 DEF IsIndex
  <2> QED BY <1>1, <2>1
<1>3. PICK place \in Bijection(1..n, 1..n) :
         /\ sorted = [k \in 1..n |-> entries[place[k]]]
         /\ \A k, l \in 1..n : k < l => entries[place[k]].offset <= entries[place[l]].offset
  <2>1. \A i \in 1..Len(entries) : entries[i].offset \in Id
    BY <1>1, <1>2 DEF IsEntry
  <2>2. Len(entries) \in Nat
    BY <1>1, <1>2
  <2>3. PICK place \in Bijection(1..Len(entries), 1..Len(entries)) :
           /\ ByOffset(entries) = [k \in 1..Len(entries) |-> entries[place[k]]]
           /\ \A k, l \in 1..Len(entries) :
                k < l => entries[place[k]].offset <= entries[place[l]].offset
    BY <2>1, <2>2, SortByOffset
  <2>4. sorted = ByOffset(entries)
    BY <1>1
  <2> QED BY <1>1, <2>3, <2>4
<1>4. /\ \A k \in 1..n : place[k] \in 1..n
      /\ \A i \in 1..n : \E k \in 1..n : place[k] = i
  BY DEF Bijection, Injection, Surjection
<1>5. Len(sorted) = n /\ DOMAIN sorted = 1..n
  BY <1>2, <1>3
<1>6. /\ \A e \in Range(sorted) : EndOf(e) >= e.offset
      /\ \A i, j \in DOMAIN sorted : i # j => sorted[i].path # sorted[j].path
      /\ \A i \in 2..Len(sorted) : sorted[i].offset >= EndOf(sorted[i - 1])
  BY <1>1 DEF ValidatePackageIndex
<1>7. ASSUME NEW k \in 1..n
      PROVE  /\ sorted[k].offset \in Nat /\ sorted[k].size \in Nat
             /\ EndOf(sorted[k]) = sorted[k].offset + sorted[k].size
             /\ sorted[k].offset + sorted[k].size < IdSpace
  <2>1. sorted[k] \in Range(sorted) /\ IsEntry(sorted[k])
    BY <1>2, <1>3, <1>4, <1>5 DEF Range
  <2>2. EndOf(sorted[k]) >= sorted[k].offset
    BY <1>6, <2>1
  <2>3. sorted[k].offset \in Nat /\ sorted[k].size \in Nat
    BY <2>1, SceneAssumption DEF IsEntry, Id
  <2> QED BY <2>1, <2>2, <2>3, EndUnwrapped
(* The next one begins after it, and later ones not before the next.       *)
<1>8. ASSUME NEW k \in 1..n, NEW l \in 1..n, k < l
      PROVE  sorted[l].offset >= sorted[k].offset + sorted[k].size
  <2>1. k + 1 \in 2..n /\ (k + 1) - 1 = k /\ k + 1 \in 1..n
    BY <1>2, <1>8
  <2>2. sorted[k + 1].offset >= EndOf(sorted[k])
    BY <1>5, <1>6, <2>1
  <2>3. sorted[l].offset >= sorted[k + 1].offset
    <3>1. CASE l = k + 1
      BY <1>7, <3>1
    <3>2. CASE k + 1 < l
      BY <1>3, <2>1, <3>2, <1>7
    <3> QED BY <1>8, <3>1, <3>2
  <2> QED BY <1>7, <2>1, <2>2, <2>3
<1>9. ASSUME NEW i \in 1..n PROVE entries[i].offset + entries[i].size < IdSpace
  <2>1. PICK k \in 1..n : place[k] = i
    BY <1>4
  <2> QED BY <1>3, <1>7, <2>1
<1>10. ASSUME NEW i \in 1..n, NEW j \in 1..n, i # j
       PROVE  /\ (entries[i].offset..entries[i].offset + entries[i].size - 1)
                   \cap (entries[j].offset..entries[j].offset + entries[j].size - 1) = {}
              /\ entries[i].path # entries[j].path
  <2>1. PICK k \in 1..n : place[k] = i
    BY <1>4
  <2>2. PICK l \in 1..n : place[l] = j
    BY <1>4
  <2>3. k # l /\ entries[i] = sorted[k] /\ entries[j] = sorted[l]
    BY <1>3, <1>10, <2>1, <2>2
  <2>4. entries[i].path # entries[j].path
    BY <1>5, <1>6, <2>3
  <2>5. \/ sorted[l].offset >= sorted[k].offset + sorted[k].size
        \/ sorted[k].offset >= sorted[l].offset + sorted[l].size
    BY <1>8, <2>3
  <2>6. /\ sorted[k].offset \in Nat /\ sorted[k].size \in Nat
        /\ sorted[l].offset \in Nat /\ sorted[l].size \in Nat
    BY <1>7
  <2>7. (sorted[k].offset..sorted[k].offset + sorted[k].size - 1)
          \cap (sorted[l].offset..sorted[l].offset + sorted[l].size - 1) = {}
    <3>1. ASSUME NEW a \in Nat, NEW b \in Nat, NEW c \in Nat, NEW d \in Nat,
                 c >= a + b \/ a >= c + d
          PROVE  (a..a + b - 1) \cap (c..c + d - 1) = {}
      BY <3>1
    <3> QED BY <2>5, <2>6, <3>1
  <2> QED BY <2>3, <2>4, <2>7
<1> QED BY <1>1, <1>2, <1>9, <1>10 DEF RangesDisjoint

(***************************************************************************)
(* The invariant: what is being read is an index, what was accepted was    *)
(* validated.                                                              *)
(***************************************************************************)

ManifestInv ==
  /\ phase # "done" => result = Refused
  /\ phase = "reading" /\ format = "manifest" => IsIndex(read)
  /\ phase = "done" /\ format = "manifest" /\ result.ok =>
       IsIndex(result.value) /\ ValidatePackageIndex(result.value)

LEMMA ManifestInvStep == ManifestInv /\ [Next]_vars => ManifestInv'
<1> SUFFICES ASSUME ManifestInv, [Next]_vars PROVE ManifestInv'
  OBVIOUS
<1>1. CASE WriteScene \/ WriteManifest \/ FindObjFile \/ WriteMeshScene
  BY <1>1 DEF ManifestInv, WriteScene, WriteManifest, FindObjFile, WriteMeshScene, Save
<1>2. CASE RefuseToWrite \/ RefuseToCombine \/ RefuseToWriteMesh \/ RefuseLine
  BY <1>2 DEF ManifestInv, RefuseToWrite, RefuseToCombine, RefuseToWriteMesh, RefuseLine, Refused
<1>3. CASE StartMesh \/ Weld \/ Repair \/ CombineWithAnother \/ WriteMesh
  BY <1>3 DEF ManifestInv, StartMesh, Weld, Repair, CombineWithAnother, Combine, WriteMesh, WorkOn
<1>4. CASE SwapLines \/ DropLine \/ RepeatLine
  BY <1>4 DEF ManifestInv, SwapLines, DropLine, RepeatLine, Edit
<1>5. CASE Open
  <2>1. IsIndex(EmptyIndex)
    <3>1. PICK S : S = {}
      OBVIOUS
    <3>2. << >> \in Seq(S) /\ \A e \in S : IsEntry(e)
      BY <3>1
    <3> QED BY <3>2 DEF IsIndex, EmptyIndex
  <2>2. format = "manifest" => read' = EmptyIndex
    BY <1>5 DEF Open, Nothing
  <2> QED BY <1>5, <2>1, <2>2 DEF Open, ManifestInv
<1>6. CASE SkipLine
  BY <1>6 DEF ManifestInv, SkipLine
<1>7. CASE ReadLine
  <2>1. ASSUME format = "manifest" PROVE IsIndex(read')
    <3>1. PICK line : line = Content(Head(unread))
      OBVIOUS
    <3>2. ManifestLineIsGood(line) /\ read' = AddManifestLine(read, line) /\ IsIndex(read)
      BY <1>7, <2>1, <3>1 DEF ReadLine, IsGood, Added, ManifestInv
    <3> QED BY <3>2, AddingKeepsIndex
  <2> QED BY <1>7, <2>1 DEF ManifestInv, ReadLine
<1>8. CASE Finish
  <2>1. ASSUME format = "manifest", result'.ok
        PROVE  IsIndex(result'.value) /\ ValidatePackageIndex(result'.value)
    <3>1. result' = Finished("manifest", read) /\ IsIndex(read)
      BY <1>8, <2>1 DEF Finish, ManifestInv
    <3>2. result' = IF FinishManifest(read).ok THEN FinishManifest(read) ELSE Refused
      BY <3>1 DEF Finished
    <3>3. FinishManifest(read).ok /\ result' = FinishManifest(read)
      BY <2>1, <3>2 DEF Refused
    <3> QED BY <3>1, <3>3 DEF FinishManifest
  <2> QED BY <1>8, <2>1 DEF ManifestInv, Finish
<1>9. CASE Rest \/ UNCHANGED vars
  BY <1>9 DEF ManifestInv, Rest, vars
<1> QED BY <1>1, <1>2, <1>3, <1>4, <1>5, <1>6, <1>7, <1>8, <1>9 DEF Next

THEOREM ManifestInvHolds == Spec => []ManifestInv
<1>1. Init => ManifestInv
  BY DEF Init, ManifestInv
<1> QED BY <1>1, ManifestInvStep, PTL DEF Spec

(* No two entries of an accepted index share a byte or a path.             *)
THEOREM AcceptedManifestsDisjoint == Spec => []AcceptedRangesDisjoint
<1>1. ManifestInv => AcceptedRangesDisjoint
  <2> SUFFICES ASSUME ManifestInv, phase = "done", format = "manifest", result.ok
               PROVE  RangesDisjoint(result.value.entries)
    BY DEF AcceptedRangesDisjoint, RangesDisjoint
  <2>1. IsIndex(result.value) /\ ValidatePackageIndex(result.value)
    BY DEF ManifestInv
  <2> QED BY <2>1, ValidRangesDisjoint
<1> QED BY <1>1, ManifestInvHolds, PTL
=============================================================================
