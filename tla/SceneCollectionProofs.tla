------------------------ MODULE SceneCollectionProofs ------------------------
(***************************************************************************)
(* Proofs about scene collections, for any keys, scenes and limits.        *)
(*                                                                         *)
(* A merge puts the objects of two scenes into one, those of the second    *)
(* moved, and then normalises: that rearranges each collection and         *)
(* replaces child lists.  Whatever was found in a scene is found in its    *)
(* rearrangement, so that after n scenes all n are found.                  *)
(*                                                                         *)
(* The second half is about merges that succeed: a valid scene is Fit, two *)
(* fit scenes whose ids are apart make a fit scene, and what the validator *)
(* counts adds up.                                                         *)
(***************************************************************************)
EXTENDS SceneCollection, DataLemmas

ObjectType ==
  [nodes |-> NodeType, meshes |-> MeshType, materials |-> MaterialType,
   textures |-> ResourceType, cameras |-> ResourceType, lights |-> ResourceType,
   skeletons |-> SkeletonType, animations |-> AnimationType]

Texts(m) == \A key \in DOMAIN m : key \in Text /\ m[key] \in Text

LEMMA CollectionNames ==
  /\ Collections = {"nodes", "meshes", "materials", "textures", "cameras", "lights",
                    "animations", "skeletons"}
  /\ DOMAIN EmptyScene = Collections \cup {"metadata"}
BY DEF Collections, IdFields, EmptyScene

LEMMA SceneFields ==
  ASSUME NEW s
  PROVE  IsScene(s) <=> /\ DOMAIN s = Collections \cup {"metadata"}
                        /\ \A f \in Collections : s[f] \in Seq(ObjectType[f])
                        /\ Texts(s.metadata)
<1>1. (\A f \in Collections : s[f] \in Seq(ObjectType[f]))
        <=> /\ s.nodes \in Seq(NodeType) /\ s.meshes \in Seq(MeshType)
            /\ s.materials \in Seq(MaterialType) /\ s.textures \in Seq(ResourceType)
            /\ s.cameras \in Seq(ResourceType) /\ s.lights \in Seq(ResourceType)
            /\ s.skeletons \in Seq(SkeletonType) /\ s.animations \in Seq(AnimationType)
  BY CollectionNames DEF ObjectType
<1> QED BY <1>1, CollectionNames DEF IsScene, Texts

LEMMA IdsAreNumbers ==
  /\ Id \subseteq Int /\ Id \subseteq Nat
  /\ \A f \in Collections : \A x \in ObjectType[f] : x.id \in Id /\ x.id \in Int
<1>1. Id \subseteq Int /\ Id \subseteq Nat
  BY SceneAssumption DEF Id
<1>2. /\ \A x \in NodeType : x.id \in Id
      /\ \A x \in MeshType : x.id \in Id
      /\ \A x \in MaterialType : x.id \in Id
      /\ \A x \in ResourceType : x.id \in Id
      /\ \A x \in SkeletonType : x.id \in Id
      /\ \A x \in AnimationType : x.id \in Id
  BY DEF NodeType, MeshType, MaterialType, ResourceType, SkeletonType, AnimationType
<1>3. \A f \in Collections : \A x \in ObjectType[f] : x.id \in Id
  BY <1>2, CollectionNames DEF ObjectType
<1> QED BY <1>1, <1>3

(***************************************************************************)
(* Rearranging.                                                            *)
(***************************************************************************)

(* What normalising leaves of an object of each collection.                *)
Pairs(joints) == {<<j.id, j.parent>> : j \in Range(joints)}
Alike(f, x, y) ==
  /\ f = "nodes" => \A g \in DOMAIN x \ {"children"} : y[g] = x[g]
  /\ f = "skeletons" => /\ y.id = x.id /\ Pairs(y.joints) = Pairs(x.joints)
                        /\ UniqueIds(x.joints) => UniqueIds(y.joints)
  /\ f \notin {"nodes", "skeletons"} => y = x

Rearranges(f, new, old, p) ==
  /\ p \in Bijection(1..Len(old), 1..Len(old))
  /\ Len(new) = Len(old)
  /\ \A k \in 1..Len(old) : Alike(f, old[p[k]], new[k])

LEMMA StillMoved ==
  ASSUME NEW f \in Collections, NEW x \in ObjectType[f], NEW y \in ObjectType[f], NEW z,
         NEW d, IsMoved(f, x, y, d), Alike(f, y, z)
  PROVE  IsMoved(f, x, z, d)
<1>1. CASE f = "nodes"
  <2>1. x \in NodeType /\ y \in NodeType
    BY <1>1 DEF ObjectType
  <2>2. DOMAIN x = DOMAIN y
    BY <2>1 DEF NodeType
  <2> QED BY <1>1, <2>2 DEF IsMoved, Alike, IdFields
<1>2. CASE f = "skeletons"
  BY <1>2 DEF IsMoved, Alike, IdFields, Pairs
<1>3. CASE f \notin {"nodes", "skeletons"}
  BY <1>3 DEF Alike
<1> QED BY <1>1, <1>2, <1>3

LEMMA SameArrangement ==
  ASSUME NEW f, NEW old, Len(old) \in Nat
  PROVE  \E p : Rearranges(f, old, old, p)
<1> DEFINE p == [k \in 1..Len(old) |-> k]
<1>1. p \in Bijection(1..Len(old), 1..Len(old))
  BY DEF Bijection, Injection, Surjection, IsInjective
<1>2. \A k \in 1..Len(old) : Alike(f, old[p[k]], old[k])
  BY DEF Alike
<1> QED BY <1>1, <1>2 DEF Rearranges

(***************************************************************************)
(* Sorting a scene.                                                        *)
(***************************************************************************)

LEMMA SortedCollection ==
  ASSUME NEW f \in Collections, NEW objects \in Seq(ObjectType[f])
  PROVE  /\ SortById(objects) \in Seq(ObjectType[f])
         /\ Len(SortById(objects)) = Len(objects)
         /\ \E p \in Bijection(1..Len(objects), 1..Len(objects)) :
              \A k \in 1..Len(objects) : SortById(objects)[k] = objects[p[k]]
<1>1. \A x \in ObjectType[f] : x.id \in Int
  BY IdsAreNumbers
<1> QED BY <1>1, SortByIdPermutes

LEMMA SortKeepsMembers ==
  ASSUME NEW old, NEW new, DOMAIN old = 1..Len(old), DOMAIN new = 1..Len(old),
         NEW p \in Bijection(1..Len(old), 1..Len(old)), \A k \in 1..Len(old) : new[k] = old[p[k]]
  PROVE  Range(new) = Range(old)
<1>1. \A k \in 1..Len(old) : p[k] \in 1..Len(old)
  BY DEF Bijection, Injection
<1>2. \A i \in 1..Len(old) : \E k \in 1..Len(old) : p[k] = i
  BY DEF Bijection, Surjection
<1>3. ASSUME NEW x \in Range(new) PROVE x \in Range(old)
  <2>1. PICK k \in 1..Len(old) : x = new[k]
    BY DEF Range
  <2>2. p[k] \in DOMAIN old /\ x = old[p[k]]
    BY <1>1, <2>1
  <2> QED BY <2>2 DEF Range
<1>4. ASSUME NEW x \in Range(old) PROVE x \in Range(new)
  <2>1. PICK i \in 1..Len(old) : x = old[i]
    BY DEF Range
  <2>2. PICK k \in 1..Len(old) : p[k] = i
    BY <1>2
  <2>3. k \in DOMAIN new /\ x = new[k]
    BY <2>1, <2>2
  <2> QED BY <2>3 DEF Range
<1> QED BY <1>3, <1>4

LEMMA SortedIds ==
  ASSUME NEW ids \in Seq(Id)
  PROVE  SortIds(ids) \in Seq(Id) /\ Range(SortIds(ids)) = Range(ids)
<1>1. /\ SortIds(ids) \in Seq(Id) /\ Len(SortIds(ids)) = Len(ids)
      /\ \E p \in Bijection(1..Len(ids), 1..Len(ids)) :
           \A k \in 1..Len(ids) : SortIds(ids)[k] = ids[p[k]]
  BY IdsAreNumbers, SortIdsPermutes
<1>2. DOMAIN ids = 1..Len(ids) /\ DOMAIN SortIds(ids) = 1..Len(ids)
  BY <1>1
<1> QED BY <1>1, <1>2, SortKeepsMembers

JointType == [id : Id, parent : Id]
SortedSkeleton(k) == [k EXCEPT !.joints = SortById(@)]
SortedNode(n) == [n EXCEPT !.children = SortIds(@)]

(* A permutation has each id once if the objects had.                      *)
LEMMA UniqueAgain ==
  ASSUME NEW old, NEW new, Len(new) = Len(old), UniqueIds(old),
         \E p \in Bijection(1..Len(old), 1..Len(old)) :
           \A k \in 1..Len(old) : new[k].id = old[p[k]].id
  PROVE  UniqueIds(new)
<1>1. PICK n : n = Len(old)
  OBVIOUS
<1>2. PICK p \in Bijection(1..n, 1..n) : \A k \in 1..n : new[k].id = old[p[k]].id
  BY <1>1
<1>3. /\ \A k \in 1..n : p[k] \in 1..n
      /\ \A k, l \in 1..n : p[k] = p[l] => k = l
  BY <1>2 DEF Bijection, Injection, IsInjective
<1>4. /\ \A k \in 1..n : old[k].id # NoId
      /\ \A k, l \in 1..n : k # l => old[k].id # old[l].id
  BY <1>1 DEF UniqueIds, Ids
<1>5. /\ \A k \in 1..n : new[k].id # NoId
      /\ \A k, l \in 1..n : k # l => new[k].id # new[l].id
  BY <1>2, <1>3, <1>4
<1> QED BY <1>1, <1>5 DEF UniqueIds, Ids

LEMMA SkeletonSorted ==
  ASSUME NEW k \in SkeletonType
  PROVE  SortedSkeleton(k) \in SkeletonType /\ Alike("skeletons", k, SortedSkeleton(k))
<1>1. k.joints \in Seq(JointType) /\ k.id \in Id
  BY DEF SkeletonType, JointType
<1>2. \A x \in JointType : x.id \in Int
  BY IdsAreNumbers DEF JointType
<1>3. PICK sorted : sorted = SortById(k.joints)
  OBVIOUS
<1>4. /\ sorted \in Seq(JointType) /\ Len(sorted) = Len(k.joints)
      /\ \E p \in Bijection(1..Len(k.joints), 1..Len(k.joints)) :
           \A i \in 1..Len(k.joints) : sorted[i] = k.joints[p[i]]
  BY <1>1, <1>2, <1>3, SortByIdPermutes
<1>5. DOMAIN sorted = 1..Len(k.joints) /\ DOMAIN k.joints = 1..Len(k.joints)
  BY <1>1, <1>4
<1>6. Range(sorted) = Range(k.joints)
  BY <1>4, <1>5, SortKeepsMembers
<1>7. SortedSkeleton(k) = [k EXCEPT !.joints = sorted]
  BY <1>3 DEF SortedSkeleton
<1>8. SortedSkeleton(k) \in SkeletonType /\ SortedSkeleton(k).id = k.id /\ SortedSkeleton(k).joints = sorted
  BY <1>1, <1>4, <1>7 DEF SkeletonType, JointType
<1>9. UniqueIds(k.joints) => UniqueIds(sorted)
  BY <1>4, UniqueAgain
<1> QED BY <1>6, <1>8, <1>9 DEF Alike, Pairs

LEMMA NodeSorted ==
  ASSUME NEW n \in NodeType
  PROVE  /\ SortedNode(n) \in NodeType /\ Alike("nodes", n, SortedNode(n))
         /\ Range(SortedNode(n).children) = Range(n.children)
<1>1. n.children \in Seq(Id)
  BY DEF NodeType
<1>2. PICK sorted : sorted = SortIds(n.children)
  OBVIOUS
<1>3. sorted \in Seq(Id) /\ Range(sorted) = Range(n.children)
  BY <1>1, <1>2, SortedIds
<1>4. SortedNode(n) = [n EXCEPT !.children = sorted]
  BY <1>2 DEF SortedNode
<1> QED BY <1>3, <1>4 DEF NodeType, Alike

(* Each object changed by itself.                                          *)
SortedInto(f, new, objects, p) ==
  /\ Rearranges(f, new, objects, p)
  /\ \A k \in 1..Len(objects) : SortById(objects)[k] = objects[p[k]]

LEMMA EachRearranged ==
  ASSUME NEW f \in Collections, NEW objects \in Seq(ObjectType[f]), NEW new,
         new = [k \in 1..Len(SortById(objects)) |-> new[k]],
         \A k \in 1..Len(SortById(objects)) :
           new[k] \in ObjectType[f] /\ Alike(f, SortById(objects)[k], new[k])
  PROVE  /\ new \in Seq(ObjectType[f])
         /\ \E p : SortedInto(f, new, objects, p)
<1>1. PICK p \in Bijection(1..Len(objects), 1..Len(objects)) :
        /\ Len(SortById(objects)) = Len(objects)
        /\ \A k \in 1..Len(objects) : SortById(objects)[k] = objects[p[k]]
  BY SortedCollection
<1>2. Len(objects) \in Nat
  OBVIOUS
<1>3. new \in [1..Len(objects) -> ObjectType[f]]
  BY <1>1
<1>4. new \in Seq(ObjectType[f]) /\ Len(new) = Len(objects)
  BY <1>2, <1>3, FunctionIsSeq
<1>5. \A k \in 1..Len(objects) : Alike(f, objects[p[k]], new[k])
  BY <1>1
<1> QED BY <1>1, <1>4, <1>5 DEF Rearranges, SortedInto

(* What sorting does to the collections of a scene.                        *)
Sorted(s, t) ==
  /\ IsScene(t) /\ t.metadata = s.metadata
  /\ \A f \in Collections \ {"nodes"} : \E p : Rearranges(f, t[f], s[f], p)
  /\ \E p : /\ Rearranges("nodes", t.nodes, s.nodes, p)
            /\ \A k \in 1..Len(s.nodes) : Range(t.nodes[k].children) = Range(s.nodes[p[k]].children)

LEMMA SortingRearranges ==
  ASSUME NEW s, IsScene(s)
  PROVE  Sorted(s, SortSceneCollections(s))
<1> DEFINE t == SortSceneCollections(s)
           nodes == [k \in 1..Len(SortById(s.nodes)) |-> SortedNode(SortById(s.nodes)[k])]
           skeletons == [k \in 1..Len(SortById(s.skeletons)) |-> SortedSkeleton(SortById(s.skeletons)[k])]
<1>1. /\ DOMAIN s = Collections \cup {"metadata"} /\ Texts(s.metadata)
      /\ \A f \in Collections : s[f] \in Seq(ObjectType[f])
  BY SceneFields
<1>2. t = [s EXCEPT !.nodes = nodes, !.meshes = SortById(@), !.materials = SortById(@),
                    !.textures = SortById(@), !.cameras = SortById(@), !.lights = SortById(@),
                    !.animations = SortById(@), !.skeletons = skeletons]
  BY DEF SortSceneCollections, Mapped, SortedNode, SortedSkeleton
<1> HIDE DEF nodes, skeletons, t
<1>3. /\ DOMAIN t = DOMAIN s /\ t.metadata = s.metadata /\ t.nodes = nodes /\ t.skeletons = skeletons
      /\ \A f \in Collections \ {"nodes", "skeletons"} : t[f] = SortById(s[f])
  BY <1>1, <1>2, CollectionNames
<1>4. ASSUME NEW f \in Collections \ {"nodes", "skeletons"}
      PROVE  t[f] \in Seq(ObjectType[f]) /\ \E p : Rearranges(f, t[f], s[f], p)
  <2>1. PICK p \in Bijection(1..Len(s[f]), 1..Len(s[f])) :
          \A k \in 1..Len(s[f]) : SortById(s[f])[k] = s[f][p[k]]
    BY <1>1, SortedCollection
  <2>2. SortById(s[f]) \in Seq(ObjectType[f]) /\ Len(SortById(s[f])) = Len(s[f])
    BY <1>1, SortedCollection
  <2>3. \A k \in 1..Len(s[f]) : Alike(f, s[f][p[k]], t[f][k])
    BY <1>3, <2>1 DEF Alike
  <2> QED BY <1>3, <2>2, <2>3 DEF Rearranges
<1>5. /\ t.skeletons \in Seq(SkeletonType)
      /\ \E p : Rearranges("skeletons", t.skeletons, s.skeletons, p)
  <2>1. ObjectType["skeletons"] = SkeletonType /\ "skeletons" \in Collections
    BY CollectionNames DEF ObjectType
  <2>2. SortById(s.skeletons) \in Seq(SkeletonType)
    BY <1>1, <2>1, SortedCollection
  <2>3. \A k \in 1..Len(SortById(s.skeletons)) :
          skeletons[k] \in SkeletonType /\ Alike("skeletons", SortById(s.skeletons)[k], skeletons[k])
    BY <2>2, SkeletonSorted DEF skeletons
  <2>4. skeletons = [k \in 1..Len(SortById(s.skeletons)) |-> skeletons[k]]
    BY DEF skeletons
  <2>5. s.skeletons \in Seq(ObjectType["skeletons"])
    BY <1>1, <2>1
  <2>6. skeletons \in Seq(SkeletonType) /\ \E p : SortedInto("skeletons", skeletons, s.skeletons, p)
    BY <2>1, <2>3, <2>4, <2>5, EachRearranged
  <2> QED BY <1>3, <2>6 DEF SortedInto
<1>6. /\ t.nodes \in Seq(NodeType)
      /\ \E p : /\ Rearranges("nodes", t.nodes, s.nodes, p)
                /\ \A k \in 1..Len(s.nodes) : Range(t.nodes[k].children) = Range(s.nodes[p[k]].children)
  <2>1. ObjectType["nodes"] = NodeType /\ "nodes" \in Collections
    BY CollectionNames DEF ObjectType
  <2>2. SortById(s.nodes) \in Seq(NodeType) /\ Len(SortById(s.nodes)) = Len(s.nodes)
    BY <1>1, <2>1, SortedCollection
  <2>3. \A k \in 1..Len(SortById(s.nodes)) :
          /\ nodes[k] \in NodeType /\ Alike("nodes", SortById(s.nodes)[k], nodes[k])
          /\ Range(nodes[k].children) = Range(SortById(s.nodes)[k].children)
    BY <2>2, NodeSorted DEF nodes
  <2>4. nodes = [k \in 1..Len(SortById(s.nodes)) |-> nodes[k]]
    BY DEF nodes
  <2>5. s.nodes \in Seq(ObjectType["nodes"])
    BY <1>1, <2>1
  <2>6. \A k \in 1..Len(SortById(s.nodes)) :
          nodes[k] \in ObjectType["nodes"] /\ Alike("nodes", SortById(s.nodes)[k], nodes[k])
    BY <2>1, <2>3
  <2>7. nodes \in Seq(ObjectType["nodes"])
    BY <2>1, <2>4, <2>5, <2>6, EachRearranged
  <2>8. PICK p : SortedInto("nodes", nodes, s.nodes, p)
    BY <2>1, <2>4, <2>5, <2>6, EachRearranged
  <2> QED BY <1>3, <2>1, <2>2, <2>3, <2>7, <2>8 DEF SortedInto
<1>7. \A f \in Collections : t[f] \in Seq(ObjectType[f])
  BY <1>4, <1>5, <1>6 DEF ObjectType
<1>8. IsScene(t)
  BY <1>1, <1>3, <1>7, SceneFields
<1>9. \A f \in Collections \ {"nodes"} : \E p : Rearranges(f, t[f], s[f], p)
  BY <1>4, <1>5
<1> QED BY <1>3, <1>6, <1>8, <1>9 DEF Sorted, t

(***************************************************************************)
(* Child lists.                                                            *)
(***************************************************************************)

Under(nodes, id) == {i \in 1..Len(nodes) : nodes[i].parent # NoId /\ nodes[i].parent = id}
ChildIds(nodes, id) == Mapped(PlacesById(nodes, Under(nodes, id)), LAMBDA node : node.id)
IsFirst(nodes, i) == \A j \in 1..i - 1 : nodes[j].id # nodes[i].id

LEMMA ChildIdsNameChildren ==
  ASSUME NEW nodes \in Seq(NodeType), NEW id
  PROVE  /\ ChildIds(nodes, id) \in Seq(Id)
         /\ Range(ChildIds(nodes, id)) = {nodes[i].id : i \in Under(nodes, id)}
<1>1. PICK P : P = Under(nodes, id)
  OBVIOUS
<1>2. P \in SUBSET (1..Len(nodes)) /\ Len(nodes) \in Nat
  BY <1>1 DEF Under
<1>3. \A i \in 1..Len(nodes) : nodes[i].id \in Int /\ nodes[i].id \in Id
  <2>1. \A i \in 1..Len(nodes) : nodes[i] \in NodeType
    OBVIOUS
  <2>2. \A x \in NodeType : x.id \in Id
    BY DEF NodeType
  <2> QED BY <2>1, <2>2, IdsAreNumbers
<1>4. PICK n, sorted : n = Cardinality(P) /\ sorted = PlacesById(nodes, P)
  OBVIOUS
<1>5. n \in Nat
  BY <1>2, <1>3, <1>4, PlacesByIdSorts
<1>6. PICK place : Lists(sorted, nodes, P, place)
  BY <1>2, <1>3, <1>4, PlacesByIdSorts
<1>7. place \in Bijection(1..n, P) /\ sorted = [k \in 1..n |-> nodes[place[k]]]
  BY <1>4, <1>6 DEF Lists
<1>8. /\ \A k \in 1..n : place[k] \in P
      /\ \A i \in P : \E k \in 1..n : place[k] = i
  BY <1>7 DEF Bijection, Injection, Surjection
<1>9. Len(sorted) = n
  BY <1>5, <1>7
<1>10. ChildIds(nodes, id) = [k \in 1..n |-> nodes[place[k]].id]
  BY <1>1, <1>4, <1>7, <1>9 DEF ChildIds, Mapped
<1>11. PICK c : c = ChildIds(nodes, id)
  OBVIOUS
<1>12. c \in [1..n -> Id]
  BY <1>2, <1>3, <1>8, <1>10, <1>11
<1>13. c \in Seq(Id)
  BY <1>5, <1>12, FunctionIsSeq
<1>14. ASSUME NEW x \in Range(c) PROVE x \in {nodes[i].id : i \in P}
  BY <1>8, <1>10, <1>11 DEF Range
<1>15. ASSUME NEW i \in P PROVE nodes[i].id \in Range(c)
  <2>1. PICK k \in 1..n : place[k] = i
    BY <1>8
  <2>2. k \in DOMAIN c /\ c[k] = nodes[i].id
    BY <1>10, <1>11, <2>1
  <2> QED BY <2>2 DEF Range
<1> QED BY <1>1, <1>11, <1>13, <1>14, <1>15

Rebuilt(s, t) ==
  /\ IsScene(t) /\ t.metadata = s.metadata
  /\ \A f \in Collections \ {"nodes"} : t[f] = s[f]
  /\ Len(t.nodes) = Len(s.nodes)
  /\ \A i \in 1..Len(s.nodes) : Alike("nodes", s.nodes[i], t.nodes[i])
  /\ \A i \in 1..Len(s.nodes) :
       IsFirst(s.nodes, i) =>
         Range(t.nodes[i].children) = {s.nodes[j].id : j \in Under(s.nodes, s.nodes[i].id)}

LEMMA RebuildingNamesChildren ==
  ASSUME NEW s, IsScene(s)
  PROVE  Rebuilt(s, RebuildChildLists(s))
<1> DEFINE t == RebuildChildLists(s)
           n == Len(s.nodes)
           list == [i \in 1..n |-> IF IsFirst(s.nodes, i) THEN ChildIds(s.nodes, s.nodes[i].id) ELSE << >>]
           nodes == [i \in 1..n |-> [s.nodes[i] EXCEPT !.children = list[i]]]
<1>1. /\ DOMAIN s = Collections \cup {"metadata"} /\ Texts(s.metadata)
      /\ \A f \in Collections : s[f] \in Seq(ObjectType[f])
      /\ s.nodes \in Seq(NodeType) /\ n \in Nat
  BY SceneFields, CollectionNames DEF ObjectType
<1>2. t = [s EXCEPT !.nodes = nodes]
  BY DEF RebuildChildLists, ChildIds, IsFirst, Under
<1>3. ASSUME NEW i \in 1..n
      PROVE  /\ list[i] \in Seq(Id)
             /\ IsFirst(s.nodes, i) =>
                  Range(list[i]) = {s.nodes[j].id : j \in Under(s.nodes, s.nodes[i].id)}
  <2>1. CASE IsFirst(s.nodes, i)
    BY <1>1, <2>1, ChildIdsNameChildren
  <2>2. CASE ~IsFirst(s.nodes, i)
    BY <2>2
  <2> QED BY <2>1, <2>2
<1> HIDE DEF list
<1>4. ASSUME NEW i \in 1..n
      PROVE  /\ nodes[i] \in NodeType /\ Alike("nodes", s.nodes[i], nodes[i])
             /\ nodes[i].children = list[i]
  <2>1. s.nodes[i] \in NodeType
    BY <1>1
  <2> QED BY <1>3, <2>1 DEF NodeType, Alike
<1>5. nodes = [i \in 1..n |-> nodes[i]]
  OBVIOUS
<1> HIDE DEF nodes, t
<1>6. nodes \in Seq(NodeType) /\ Len(nodes) = n
  <2>1. nodes \in [1..n -> NodeType]
    BY <1>4, <1>5
  <2> QED BY <1>1, <2>1, FunctionIsSeq
<1>7. /\ DOMAIN t = DOMAIN s /\ t.metadata = s.metadata /\ t.nodes = nodes
      /\ \A f \in Collections \ {"nodes"} : t[f] = s[f]
  BY <1>1, <1>2, CollectionNames
<1>8. \A f \in Collections : t[f] \in Seq(ObjectType[f])
  BY <1>1, <1>6, <1>7 DEF ObjectType
<1>9. IsScene(t)
  BY <1>1, <1>7, <1>8, SceneFields
<1> QED BY <1>3, <1>4, <1>6, <1>7, <1>9 DEF Rebuilt, t

(* Every entry with a key and a value is kept.                             *)
KeepsTexts(new, old) ==
  \A k \in DOMAIN old :
    k # EmptyText /\ old[k] # EmptyText => k \in DOMAIN new /\ new[k] = old[k]

Cleaned(s, t) ==
  /\ IsScene(t) /\ \A f \in Collections : t[f] = s[f]
  /\ KeepsTexts(t.metadata, s.metadata)

LEMMA CleaningKeepsEntries ==
  ASSUME NEW s, IsScene(s)
  PROVE  Cleaned(s, RemoveEmptyMetadata(s))
<1> DEFINE t == RemoveEmptyMetadata(s)
           K == {k \in DOMAIN s.metadata : k # EmptyText /\ s.metadata[k] # EmptyText}
           kept == [k \in K |-> s.metadata[k]]
<1>1. /\ DOMAIN s = Collections \cup {"metadata"} /\ Texts(s.metadata)
      /\ \A f \in Collections : s[f] \in Seq(ObjectType[f])
  BY SceneFields
<1>2. t = [s EXCEPT !.metadata = kept]
  BY DEF RemoveEmptyMetadata
<1>3. Texts(kept)
  BY <1>1 DEF Texts
<1>4. \A k \in K : k \in DOMAIN kept /\ kept[k] = s.metadata[k]
  OBVIOUS
<1> HIDE DEF kept, t
<1>5. DOMAIN t = DOMAIN s /\ t.metadata = kept /\ \A f \in Collections : t[f] = s[f]
  BY <1>1, <1>2, CollectionNames
<1>6. IsScene(t)
  BY <1>1, <1>3, <1>5, SceneFields
<1> QED BY <1>4, <1>5, <1>6 DEF Cleaned, KeepsTexts, K, t

(***************************************************************************)
(* Moving a scene.                                                         *)
(***************************************************************************)

LEMMA ShiftedIds ==
  ASSUME NEW d \in Id, NEW id \in Id
  PROVE  Shifted(id, d) \in Id
<1>1. PICK a, m : a = id + d /\ m = IdSpace
  OBVIOUS
<1>2. a \in Nat /\ m \in Nat \ {0} /\ NoId \in Id
  BY <1>1, SceneAssumption, IdsAreNumbers DEF Id, NoId
<1>3. a % m \in 0..m - 1
  BY <1>2
<1> QED BY <1>1, <1>2, <1>3 DEF Shifted, Id

(* An object moved, with its parts in their places and as good as before,  *)
(* and every object of a sequence replaced by one that is it, moved.       *)
MovedInPlace(f, x, y, d) ==
  /\ IsMoved(f, x, y, d)
  /\ f = "animations" =>
       /\ y.inRange = x.inRange
       /\ \A c \in 1..Len(x.channels) : y.channels[c].ordered = x.channels[c].ordered
  /\ f = "skeletons" =>
       /\ Len(y.joints) = Len(x.joints)
       /\ \A c \in 1..Len(x.joints) : y.joints[c].id = Shifted(x.joints[c].id, d)

Moves(f, new, old, d) ==
  /\ new \in Seq(ObjectType[f]) /\ Len(new) = Len(old)
  /\ \A i \in 1..Len(old) : MovedInPlace(f, old[i], new[i], d)

LEMMA EachMoved ==
  ASSUME NEW f \in Collections, NEW d, NEW old \in Seq(ObjectType[f]), NEW new,
         new = [i \in 1..Len(old) |-> new[i]],
         \A i \in 1..Len(old) : new[i] \in ObjectType[f] /\ MovedInPlace(f, old[i], new[i], d)
  PROVE  Moves(f, new, old, d)
<1>1. Len(old) \in Nat /\ new \in [1..Len(old) -> ObjectType[f]]
  OBVIOUS
<1> QED BY <1>1, FunctionIsSeq DEF Moves

MovedNode(n, d) ==
  [n EXCEPT !.id = Shifted(@, d), !.parent = Shifted(@, d), !.mesh = Shifted(@, d),
            !.camera = Shifted(@, d), !.light = Shifted(@, d),
            !.children = Mapped(@, LAMBDA id : Shifted(id, d))]
MovedMesh(m, d) == [m EXCEPT !.id = Shifted(@, d), !.material = Shifted(@, d)]
MovedMaterial(m, d) == [m EXCEPT !.id = Shifted(@, d), !.texture = Shifted(@, d)]
MovedResource(x, d) == [x EXCEPT !.id = Shifted(@, d)]
MovedJoint(j, d) == [j EXCEPT !.id = Shifted(@, d), !.parent = Shifted(@, d)]
MovedSkeleton(k, d) ==
  [k EXCEPT !.id = Shifted(@, d), !.joints = Mapped(@, LAMBDA j : MovedJoint(j, d))]
MovedAnimation(a, d) ==
  [a EXCEPT !.id = Shifted(@, d), !.channels = Mapped(@, LAMBDA c : ShiftChannel(c, d))]

LEMMA NodeMoved ==
  ASSUME NEW d \in Id, NEW n \in NodeType
  PROVE  MovedNode(n, d) \in NodeType /\ MovedInPlace("nodes", n, MovedNode(n, d), d)
<1>1. PICK c : c = Mapped(n.children, LAMBDA id : Shifted(id, d))
  OBVIOUS
<1>2. n.children \in Seq(Id) /\ Len(n.children) \in Nat
  BY DEF NodeType
<1>3. c \in [1..Len(n.children) -> Id]
  BY <1>1, <1>2, ShiftedIds DEF Mapped
<1>4. c \in Seq(Id)
  BY <1>2, <1>3, FunctionIsSeq
<1>5. MovedNode(n, d) = [n EXCEPT !.id = Shifted(@, d), !.parent = Shifted(@, d), !.mesh = Shifted(@, d),
                                  !.camera = Shifted(@, d), !.light = Shifted(@, d), !.children = c]
  BY <1>1 DEF MovedNode
<1>6. MovedNode(n, d) \in NodeType
  <2>1. PICK id, parent, mesh, camera, light :
          /\ id = Shifted(n.id, d) /\ parent = Shifted(n.parent, d) /\ mesh = Shifted(n.mesh, d)
          /\ camera = Shifted(n.camera, d) /\ light = Shifted(n.light, d)
    OBVIOUS
  <2>2. n.id \in Id /\ n.parent \in Id /\ n.mesh \in Id /\ n.camera \in Id /\ n.light \in Id
    BY DEF NodeType
  <2>3. id \in Id /\ parent \in Id /\ mesh \in Id /\ camera \in Id /\ light \in Id
    BY <2>1, <2>2, ShiftedIds
  <2>4. MovedNode(n, d) = [n EXCEPT !.id = id, !.parent = parent, !.mesh = mesh, !.camera = camera,
                                    !.light = light, !.children = c]
    BY <1>5, <2>1
  <2> QED BY <1>4, <2>3, <2>4 DEF NodeType
<1>7. IsMoved("nodes", n, MovedNode(n, d), d)
  BY <1>5, SceneAssumption DEF NodeType, IsMoved, IdFields, Shifted
<1> QED BY <1>6, <1>7 DEF MovedInPlace

LEMMA PlainMoved ==
  ASSUME NEW d \in Id
  PROVE  /\ \A m \in MeshType : MovedMesh(m, d) \in MeshType /\ MovedInPlace("meshes", m, MovedMesh(m, d), d)
         /\ \A m \in MaterialType :
              MovedMaterial(m, d) \in MaterialType /\ MovedInPlace("materials", m, MovedMaterial(m, d), d)
         /\ \A f \in {"textures", "cameras", "lights"} : \A x \in ResourceType :
              MovedResource(x, d) \in ResourceType /\ MovedInPlace(f, x, MovedResource(x, d), d)
<1>1. ASSUME NEW m \in MeshType
      PROVE  MovedMesh(m, d) \in MeshType /\ MovedInPlace("meshes", m, MovedMesh(m, d), d)
  <2>1. MovedMesh(m, d) \in MeshType
    BY ShiftedIds DEF MeshType, MovedMesh
  <2>2. IsMoved("meshes", m, MovedMesh(m, d), d)
    BY DEF MeshType, MovedMesh, IsMoved, IdFields, Shifted
  <2> QED BY <2>1, <2>2 DEF MovedInPlace
<1>2. ASSUME NEW m \in MaterialType
      PROVE  MovedMaterial(m, d) \in MaterialType /\ MovedInPlace("materials", m, MovedMaterial(m, d), d)
  <2>1. MovedMaterial(m, d) \in MaterialType
    BY ShiftedIds DEF MaterialType, MovedMaterial
  <2>2. IsMoved("materials", m, MovedMaterial(m, d), d)
    BY DEF MaterialType, MovedMaterial, IsMoved, IdFields, Shifted
  <2> QED BY <2>1, <2>2 DEF MovedInPlace
<1>3. ASSUME NEW f \in {"textures", "cameras", "lights"}, NEW x \in ResourceType
      PROVE  MovedResource(x, d) \in ResourceType /\ MovedInPlace(f, x, MovedResource(x, d), d)
  <2>1. MovedResource(x, d) \in ResourceType
    BY ShiftedIds DEF ResourceType, MovedResource
  <2>2. IsMoved(f, x, MovedResource(x, d), d)
    <3>1. f \in DOMAIN IdFields /\ IdFields[f] = {"id"}
      BY DEF IdFields
    <3>2. /\ DOMAIN x = {"id", "inRange"} /\ MovedResource(x, d).id = Shifted(x.id, d)
          /\ MovedResource(x, d).inRange = x.inRange
      BY DEF ResourceType, MovedResource
    <3> QED BY <3>1, <3>2 DEF IsMoved, Shifted
  <2> QED BY <2>1, <2>2 DEF MovedInPlace
<1> QED BY <1>1, <1>2, <1>3

LEMMA SkeletonMoved ==
  ASSUME NEW d \in Id, NEW k \in SkeletonType
  PROVE  MovedSkeleton(k, d) \in SkeletonType /\ MovedInPlace("skeletons", k, MovedSkeleton(k, d), d)
<1>1. PICK new : new = Mapped(k.joints, LAMBDA j : MovedJoint(j, d))
  OBVIOUS
<1>2. PICK old : old = k.joints
  OBVIOUS
<1>3. old \in Seq(JointType) /\ Len(old) \in Nat /\ DOMAIN old = 1..Len(old)
  BY <1>2 DEF SkeletonType, JointType
<1>4. ASSUME NEW i \in 1..Len(old)
      PROVE  /\ new[i] \in JointType
             /\ new[i].id = Shifted(old[i].id, d) /\ new[i].parent = Shifted(old[i].parent, d)
  <2>1. old[i] \in JointType
    BY <1>3
  <2>2. new[i] = MovedJoint(old[i], d)
    BY <1>1, <1>2 DEF Mapped
  <2> QED BY <2>1, <2>2, ShiftedIds DEF MovedJoint, JointType
<1>5. new = [i \in 1..Len(old) |-> new[i]]
  BY <1>1, <1>2 DEF Mapped
<1>6. new \in Seq(JointType) /\ DOMAIN new = 1..Len(old)
  <2>1. new \in [1..Len(old) -> JointType]
    BY <1>4, <1>5
  <2> QED BY <1>3, <2>1, FunctionIsSeq
<1>7. MovedSkeleton(k, d) = [k EXCEPT !.id = Shifted(@, d), !.joints = new]
  BY <1>1 DEF MovedSkeleton
<1>8. /\ MovedSkeleton(k, d) \in SkeletonType
      /\ MovedSkeleton(k, d).id = Shifted(k.id, d) /\ MovedSkeleton(k, d).joints = new
  BY <1>6, <1>7, ShiftedIds DEF SkeletonType, JointType
<1> DEFINE after == {<<j.id, j.parent>> : j \in Range(new)}
           before == {<<Shifted(j.id, d), Shifted(j.parent, d)>> : j \in Range(old)}
<1>9. after \subseteq before
  BY <1>3, <1>4, <1>6 DEF Range
<1>10. before \subseteq after
  BY <1>3, <1>4, <1>6 DEF Range
<1>11. after = before
  BY <1>9, <1>10
<1>12. IsMoved("skeletons", k, MovedSkeleton(k, d), d)
  BY <1>2, <1>8, <1>11 DEF IsMoved, IdFields, Shifted
<1>13. Len(new) = Len(old) /\ \A i \in 1..Len(old) : new[i].id = Shifted(old[i].id, d)
  BY <1>3, <1>4, <1>5, <1>6
<1> QED BY <1>2, <1>8, <1>12, <1>13 DEF MovedInPlace

LEMMA AnimationMoved ==
  ASSUME NEW d \in Id, NEW a \in AnimationType
  PROVE  MovedAnimation(a, d) \in AnimationType /\ MovedInPlace("animations", a, MovedAnimation(a, d), d)
<1> DEFINE Channel == [target : Id, ordered : BOOLEAN]
<1>1. PICK new : new = Mapped(a.channels, LAMBDA c : ShiftChannel(c, d))
  OBVIOUS
<1>2. PICK old : old = a.channels
  OBVIOUS
<1>3. old \in Seq(Channel) /\ Len(old) \in Nat /\ DOMAIN old = 1..Len(old)
  BY <1>2 DEF AnimationType
<1>4. ASSUME NEW i \in 1..Len(old)
      PROVE  /\ new[i] \in Channel /\ new[i].target = Shifted(old[i].target, d)
             /\ new[i].ordered = old[i].ordered
  <2>1. old[i] \in Channel
    <3> HIDE DEF Channel
    <3> QED BY <1>3
  <2>2. new[i] = [old[i] EXCEPT !.target = Shifted(@, d)]
    BY <1>1, <1>2 DEF Mapped, ShiftChannel
  <2> QED BY <2>1, <2>2, ShiftedIds
<1>5. new = [i \in 1..Len(old) |-> new[i]]
  BY <1>1, <1>2 DEF Mapped
<1>6. new \in Seq(Channel) /\ Len(new) = Len(old)
  <2>1. new \in [1..Len(old) -> Channel]
    BY <1>4, <1>5
  <2> HIDE DEF Channel
  <2> QED BY <1>3, <2>1, FunctionIsSeq
<1>7. MovedAnimation(a, d) = [a EXCEPT !.id = Shifted(@, d), !.channels = new]
  BY <1>1 DEF MovedAnimation
<1>8. /\ MovedAnimation(a, d) \in AnimationType
      /\ MovedAnimation(a, d).id = Shifted(a.id, d) /\ MovedAnimation(a, d).channels = new
      /\ MovedAnimation(a, d).inRange = a.inRange
  BY <1>6, <1>7, ShiftedIds DEF AnimationType
<1>9. IsMoved("animations", a, MovedAnimation(a, d), d)
  BY <1>2, <1>3, <1>4, <1>6, <1>8 DEF IsMoved, IdFields, Shifted
<1> QED BY <1>2, <1>4, <1>8, <1>9 DEF MovedInPlace

Shifts(s, t, d) ==
  /\ DOMAIN t = DOMAIN s
  /\ \A f \in Collections : Moves(f, t[f], s[f], d)

LEMMA ShiftingMoves ==
  ASSUME NEW s, IsScene(s), NEW d \in Id
  PROVE  Shifts(s, ShiftIds(s, d), d)
<1> DEFINE nodes == [i \in 1..Len(s.nodes) |-> MovedNode(s.nodes[i], d)]
           meshes == [i \in 1..Len(s.meshes) |-> MovedMesh(s.meshes[i], d)]
           materials == [i \in 1..Len(s.materials) |-> MovedMaterial(s.materials[i], d)]
           resources(f) == [i \in 1..Len(s[f]) |-> MovedResource(s[f][i], d)]
           skeletons == [i \in 1..Len(s.skeletons) |-> MovedSkeleton(s.skeletons[i], d)]
           animations == [i \in 1..Len(s.animations) |-> MovedAnimation(s.animations[i], d)]
<1>1. /\ DOMAIN s = Collections \cup {"metadata"}
      /\ \A f \in Collections : s[f] \in Seq(ObjectType[f])
  BY SceneFields
<1>2. PICK t : t = ShiftIds(s, d)
  OBVIOUS
<1>3. t = [s EXCEPT !.nodes = nodes, !.meshes = meshes, !.materials = materials,
                    !.textures = resources("textures"), !.cameras = resources("cameras"),
                    !.lights = resources("lights"), !.skeletons = skeletons,
                    !.animations = animations]
  BY <1>2 DEF ShiftIds, Mapped, MovedNode, MovedMesh, MovedMaterial, MovedResource, MovedSkeleton,
              MovedAnimation, MovedJoint
<1>4. /\ Moves("nodes", nodes, s.nodes, d)
      /\ Moves("meshes", meshes, s.meshes, d)
      /\ Moves("materials", materials, s.materials, d)
      /\ Moves("skeletons", skeletons, s.skeletons, d)
      /\ Moves("animations", animations, s.animations, d)
  <2>1. Moves("nodes", nodes, s.nodes, d)
    <3>1. s.nodes \in Seq(NodeType) /\ ObjectType["nodes"] = NodeType /\ "nodes" \in Collections
      BY <1>1, CollectionNames DEF ObjectType
    <3>2. \A i \in 1..Len(s.nodes) : nodes[i] \in NodeType /\ MovedInPlace("nodes", s.nodes[i], nodes[i], d)
      BY <3>1, NodeMoved
    <3>3. nodes = [i \in 1..Len(s.nodes) |-> nodes[i]]
      OBVIOUS
    <3> HIDE DEF nodes
    <3> QED BY <3>1, <3>2, <3>3, EachMoved
  <2>2. Moves("meshes", meshes, s.meshes, d)
    <3>1. s.meshes \in Seq(MeshType) /\ ObjectType["meshes"] = MeshType /\ "meshes" \in Collections
      BY <1>1, CollectionNames DEF ObjectType
    <3>2. \A i \in 1..Len(s.meshes) : meshes[i] \in MeshType /\ MovedInPlace("meshes", s.meshes[i], meshes[i], d)
      BY <3>1, PlainMoved
    <3>3. meshes = [i \in 1..Len(s.meshes) |-> meshes[i]]
      OBVIOUS
    <3> HIDE DEF meshes
    <3> QED BY <3>1, <3>2, <3>3, EachMoved
  <2>3. Moves("materials", materials, s.materials, d)
    <3>1. /\ s.materials \in Seq(MaterialType) /\ ObjectType["materials"] = MaterialType
          /\ "materials" \in Collections
      BY <1>1, CollectionNames DEF ObjectType
    <3>2. \A i \in 1..Len(s.materials) :
            materials[i] \in MaterialType /\ MovedInPlace("materials", s.materials[i], materials[i], d)
      BY <3>1, PlainMoved
    <3>3. materials = [i \in 1..Len(s.materials) |-> materials[i]]
      OBVIOUS
    <3> HIDE DEF materials
    <3> QED BY <3>1, <3>2, <3>3, EachMoved
  <2>4. Moves("skeletons", skeletons, s.skeletons, d)
    <3>1. /\ s.skeletons \in Seq(SkeletonType) /\ ObjectType["skeletons"] = SkeletonType
          /\ "skeletons" \in Collections
      BY <1>1, CollectionNames DEF ObjectType
    <3>2. \A i \in 1..Len(s.skeletons) :
            skeletons[i] \in SkeletonType /\ MovedInPlace("skeletons", s.skeletons[i], skeletons[i], d)
      BY <3>1, SkeletonMoved
    <3>3. skeletons = [i \in 1..Len(s.skeletons) |-> skeletons[i]]
      OBVIOUS
    <3> HIDE DEF skeletons
    <3> QED BY <3>1, <3>2, <3>3, EachMoved
  <2>5. Moves("animations", animations, s.animations, d)
    <3>1. /\ s.animations \in Seq(AnimationType) /\ ObjectType["animations"] = AnimationType
          /\ "animations" \in Collections
      BY <1>1, CollectionNames DEF ObjectType
    <3>2. \A i \in 1..Len(s.animations) :
            animations[i] \in AnimationType /\ MovedInPlace("animations", s.animations[i], animations[i], d)
      BY <3>1, AnimationMoved
    <3>3. animations = [i \in 1..Len(s.animations) |-> animations[i]]
      OBVIOUS
    <3> HIDE DEF animations
    <3> QED BY <3>1, <3>2, <3>3, EachMoved
  <2> QED BY <2>1, <2>2, <2>3, <2>4, <2>5
<1>5. ASSUME NEW f \in {"textures", "cameras", "lights"}
      PROVE  Moves(f, resources(f), s[f], d)
  <2>1. s[f] \in Seq(ResourceType) /\ ObjectType[f] = ResourceType /\ f \in Collections
    BY <1>1, CollectionNames DEF ObjectType
  <2>2. PICK new : new = resources(f)
    OBVIOUS
  <2>3. \A i \in 1..Len(s[f]) : new[i] \in ResourceType /\ MovedInPlace(f, s[f][i], new[i], d)
    BY <2>1, <2>2, PlainMoved
  <2>4. new = [i \in 1..Len(s[f]) |-> new[i]]
    BY <2>2
  <2>5. Moves(f, new, s[f], d)
    <3> HIDE DEF resources
    <3> QED BY <2>1, <2>3, <2>4, EachMoved
  <2> QED BY <2>2, <2>5
<1> HIDE DEF nodes, meshes, materials, resources, skeletons, animations
<1>6. /\ DOMAIN t = DOMAIN s
      /\ t.nodes = nodes /\ t.meshes = meshes /\ t.materials = materials
      /\ t.skeletons = skeletons /\ t.animations = animations
      /\ \A f \in {"textures", "cameras", "lights"} : t[f] = resources(f)
  BY <1>1, <1>3, CollectionNames
<1>7. \A f \in Collections : Moves(f, t[f], s[f], d)
  BY <1>4, <1>5, <1>6, CollectionNames
<1> QED BY <1>2, <1>6, <1>7 DEF Shifts

LEMMA AllIdsAreIds ==
  ASSUME NEW s, IsScene(s)
  PROVE  AllIds(s) \subseteq Id
<1>1. /\ DOMAIN s = Collections \cup {"metadata"}
      /\ \A f \in Collections : s[f] \in Seq(ObjectType[f])
  BY SceneFields
<1>2. ASSUME NEW f \in Collections PROVE Ids(s[f]) \subseteq Id
  <2>1. \A i \in 1..Len(s[f]) : s[f][i] \in ObjectType[f]
    BY <1>1
  <2> QED BY <2>1, IdsAreNumbers DEF Ids
<1>3. ASSUME NEW k \in Range(s.skeletons) PROVE Ids(k.joints) \subseteq Id
  <2>1. s.skeletons \in Seq(SkeletonType)
    BY DEF IsScene
  <2>2. k \in SkeletonType
    BY <2>1 DEF Range
  <2>3. k.joints \in Seq(JointType)
    BY <2>2 DEF SkeletonType, JointType
  <2>4. \A i \in 1..Len(k.joints) : k.joints[i] \in JointType
    BY <2>3
  <2> QED BY <2>4 DEF Ids, JointType
<1>4. /\ Ids(s.nodes) \subseteq Id /\ Ids(s.meshes) \subseteq Id /\ Ids(s.materials) \subseteq Id
      /\ Ids(s.textures) \subseteq Id /\ Ids(s.cameras) \subseteq Id /\ Ids(s.lights) \subseteq Id
      /\ Ids(s.skeletons) \subseteq Id /\ Ids(s.animations) \subseteq Id
  BY <1>2, CollectionNames
<1>5. ASSUME NEW id \in AllIds(s) PROVE id \in Id
  <2> DEFINE main == {Ids(s.nodes), Ids(s.meshes), Ids(s.materials), Ids(s.textures),
                      Ids(s.cameras), Ids(s.lights), Ids(s.skeletons), Ids(s.animations)}
             joints == {Ids(k.joints) : k \in Range(s.skeletons)}
  <2>1. \A ids \in main : ids \subseteq Id
    BY <1>4
  <2>2. \A ids \in joints : ids \subseteq Id
    BY <1>3
  <2>3. AllIds(s) = (UNION main) \cup (UNION joints)
    BY DEF AllIds
  <2> HIDE DEF main, joints
  <2> QED BY <2>1, <2>2, <2>3
<1> QED BY <1>5

LEMMA HighestId ==
  ASSUME NEW s, IsScene(s)
  PROVE  /\ MaxObjectId(s) \in Id /\ MaxObjectId(s) \in Nat /\ MaxObjectId(s) \in AllIds(s) \cup {0}
         /\ \A id \in AllIds(s) : id \in Nat /\ id <= MaxObjectId(s)
<1>1. AllIds(s) \subseteq Id /\ Id \subseteq Nat
  BY AllIdsAreIds, IdsAreNumbers
<1>2. PICK N, T : N = IdSpace /\ T = AllIds(s) \cup {0}
  OBVIOUS
<1>3. N \in Nat \ {0, 1} /\ T \subseteq 0..N - 1 /\ 0 \in T
  BY <1>1, <1>2, SceneAssumption DEF Id
<1>4. PICK m \in T : \A y \in T : y <= m
  <2>1. N - 1 \in Nat /\ T # {}
    BY <1>3
  <2> QED BY <1>3, <2>1, GreatestMember
<1>5. \E x \in AllIds(s) \cup {0} : \A id \in AllIds(s) : id <= x
  BY <1>2, <1>4
<1>6. MaxObjectId(s) \in T /\ \A id \in AllIds(s) : id <= MaxObjectId(s)
  BY <1>2, <1>5 DEF MaxObjectId
<1>7. MaxObjectId(s) \in Id
  BY <1>2, <1>3, <1>6 DEF Id
<1> QED BY <1>1, <1>2, <1>6, <1>7

LEMMA NextFreeId ==
  ASSUME NEW s, IsScene(s)
  PROVE  (MaxObjectId(s) + 1) % IdSpace \in Id
<1>1. PICK x, N : x = MaxObjectId(s) /\ N = IdSpace
  OBVIOUS
<1>2. x \in Nat /\ N \in Nat \ {0, 1}
  BY <1>1, HighestId, SceneAssumption
<1>3. (x + 1) % N \in 0..N - 1
  BY <1>2
<1> QED BY <1>1, <1>3 DEF Id

(***************************************************************************)
(* Putting two scenes together.                                            *)
(***************************************************************************)

LEMMA MetadataMerged ==
  ASSUME NEW left, NEW right, Texts(left), Texts(right)
  PROVE  /\ Texts(MergedMetadata(left, right))
         /\ \A k \in DOMAIN left :
              k \in DOMAIN MergedMetadata(left, right) /\ MergedMetadata(left, right)[k] = left[k]
<1> DEFINE K == {<<"right">> \o x : x \in DOMAIN right}
           all == [k \in DOMAIN left \cup K |-> IF k \in DOMAIN left THEN left[k] ELSE right[Tail(k)]]
<1>1. MergedMetadata(left, right) = all
  BY DEF MergedMetadata
<1>2. ASSUME NEW k \in K PROVE k \in Text /\ right[Tail(k)] \in Text
  <2>1. PICK old \in DOMAIN right : k = <<"right">> \o old
    OBVIOUS
  <2>2. old \in Seq(STRING) /\ right[old] \in Text
    BY DEF Texts, Text
  <2>3. PICK word \in STRING : word = "right"
    BY WordAssumption
  <2>4. k \in Seq(STRING) /\ Tail(k) = old
    <3>1. \A w \in STRING : <<w>> \o old \in Seq(STRING) /\ Tail(<<w>> \o old) = old
      BY <2>2
    <3> QED BY <2>1, <2>3, <3>1
  <2> QED BY <2>2, <2>4 DEF Text
<1>3. Texts(all)
  BY <1>2 DEF Texts
<1>4. \A k \in DOMAIN left : k \in DOMAIN all /\ all[k] = left[k]
  OBVIOUS
<1> QED BY <1>1, <1>3, <1>4

Base(left, right, d) ==
  [f \in DOMAIN left |->
     IF f = "metadata" THEN MergedMetadata(left.metadata, right.metadata)
                       ELSE left[f] \o ShiftIds(right, d)[f]]

(* Every object of s is in m, moved by d.                                  *)
Holds(m, s, d) ==
  \A f \in Collections : \A i \in 1..Len(s[f]) : \E k \in 1..Len(m[f]) : IsMoved(f, s[f][i], m[f][k], d)

Joins(m, left, right, d) ==
  /\ IsScene(m)
  /\ \A f \in Collections : Len(m[f]) = Len(left[f]) + Len(right[f])
  /\ \A s, e : IsScene(s) /\ Holds(left, s, e) => Holds(m, s, e)
  /\ Holds(m, right, d)
  /\ KeepsTexts(m.metadata, left.metadata)

(* A scene and another one, moved, after each other.                       *)
BaseIs(m, left, right, d) ==
  /\ IsScene(m) /\ KeepsTexts(m.metadata, left.metadata)
  /\ \A f \in Collections :
       /\ Len(m[f]) = Len(left[f]) + Len(right[f])
       /\ \A i \in 1..Len(left[f]) : i \in 1..Len(m[f]) /\ m[f][i] = left[f][i]
       /\ \A i \in 1..Len(right[f]) :
            /\ Len(left[f]) + i \in 1..Len(m[f])
            /\ MovedInPlace(f, right[f][i], m[f][Len(left[f]) + i], d)

LEMMA BaseParts ==
  ASSUME NEW left, NEW right, IsScene(left), IsScene(right), NEW d \in Id
  PROVE  BaseIs(Base(left, right, d), left, right, d)
<1>1. PICK m : m = Base(left, right, d)
  OBVIOUS
<1>2. PICK shifted : shifted = ShiftIds(right, d)
  OBVIOUS
<1>3. /\ DOMAIN left = Collections \cup {"metadata"} /\ Texts(left.metadata) /\ Texts(right.metadata)
      /\ \A f \in Collections : left[f] \in Seq(ObjectType[f]) /\ right[f] \in Seq(ObjectType[f])
      /\ "metadata" \notin Collections
  BY SceneFields, CollectionNames
<1>4. /\ DOMAIN m = DOMAIN left
      /\ m.metadata = MergedMetadata(left.metadata, right.metadata)
      /\ \A f \in Collections : m[f] = left[f] \o shifted[f]
  BY <1>1, <1>2, <1>3 DEF Base
<1>5. \A f \in Collections : Moves(f, shifted[f], right[f], d)
  BY <1>2, ShiftingMoves DEF Shifts
<1>6. \A f \in Collections :
        /\ shifted[f] \in Seq(ObjectType[f]) /\ Len(shifted[f]) = Len(right[f])
        /\ \A i \in 1..Len(right[f]) : MovedInPlace(f, right[f][i], shifted[f][i], d)
  BY <1>5 DEF Moves
<1>7. ASSUME NEW f \in Collections
      PROVE  /\ m[f] \in Seq(ObjectType[f]) /\ Len(m[f]) = Len(left[f]) + Len(right[f])
             /\ \A i \in 1..Len(left[f]) : i \in 1..Len(m[f]) /\ m[f][i] = left[f][i]
             /\ \A i \in 1..Len(right[f]) :
                  Len(left[f]) + i \in 1..Len(m[f]) /\ m[f][Len(left[f]) + i] = shifted[f][i]
  <2>1. PICK T, a, b : T = ObjectType[f] /\ a = left[f] /\ b = shifted[f]
    OBVIOUS
  <2>2. a \in Seq(T) /\ b \in Seq(T) /\ m[f] = a \o b /\ Len(b) = Len(right[f])
    BY <1>3, <1>4, <1>6, <2>1
  <2>3. m[f] \in Seq(T) /\ Joined(m[f], a, b)
    BY <2>2, ConcatPlaces
  <2>4. Len(a) \in Nat /\ Len(b) \in Nat /\ Len(m[f]) = Len(a) + Len(b)
    BY <2>3 DEF Joined
  <2>5. /\ \A i \in 1..Len(a) : i \in 1..Len(m[f])
        /\ \A i \in 1..Len(b) : Len(a) + i \in 1..Len(m[f])
    BY <2>4
  <2> QED BY <2>1, <2>2, <2>3, <2>5 DEF Joined
<1>8. IsScene(m)
  BY <1>3, <1>4, <1>7, MetadataMerged, SceneFields
<1>9. KeepsTexts(m.metadata, left.metadata)
  BY <1>3, <1>4, MetadataMerged DEF KeepsTexts
<1> QED BY <1>1, <1>6, <1>7, <1>8, <1>9 DEF BaseIs

LEMMA BaseJoins ==
  ASSUME NEW left, NEW right, IsScene(left), IsScene(right), NEW d \in Id
  PROVE  Joins(Base(left, right, d), left, right, d)
<1>1. PICK m : m = Base(left, right, d)
  OBVIOUS
<1>2. BaseIs(m, left, right, d)
  BY <1>1, BaseParts
<1>3. ASSUME NEW s, NEW e, IsScene(s), Holds(left, s, e)
      PROVE  Holds(m, s, e)
  <2>1. ASSUME NEW f \in Collections, NEW i \in 1..Len(s[f])
        PROVE  \E k \in 1..Len(m[f]) : IsMoved(f, s[f][i], m[f][k], e)
    <3>1. PICK k \in 1..Len(left[f]) : IsMoved(f, s[f][i], left[f][k], e)
      BY <1>3 DEF Holds
    <3>2. k \in 1..Len(m[f]) /\ m[f][k] = left[f][k]
      BY <1>2 DEF BaseIs
    <3> QED BY <3>1, <3>2
  <2> QED BY <2>1 DEF Holds
<1>4. Holds(m, right, d)
  <2>1. ASSUME NEW f \in Collections, NEW i \in 1..Len(right[f])
        PROVE  \E k \in 1..Len(m[f]) : IsMoved(f, right[f][i], m[f][k], d)
    <3>1. /\ Len(left[f]) + i \in 1..Len(m[f])
          /\ IsMoved(f, right[f][i], m[f][Len(left[f]) + i], d)
      BY <1>2 DEF BaseIs, MovedInPlace
    <3> QED BY <3>1
  <2> QED BY <2>1 DEF Holds
<1> QED BY <1>1, <1>2, <1>3, <1>4 DEF Joins, BaseIs

(* Rearranging the collections of a joined scene.                          *)
LEMMA SamePlaces ==
  ASSUME NEW f, NEW old, NEW new, Len(old) \in Nat, Len(new) = Len(old),
         \A i \in 1..Len(old) : Alike(f, old[i], new[i])
  PROVE  \E p : Rearranges(f, new, old, p)
<1> DEFINE p == [k \in 1..Len(old) |-> k]
<1>1. p \in Bijection(1..Len(old), 1..Len(old))
  BY DEF Bijection, Injection, Surjection, IsInjective
<1>2. \A k \in 1..Len(old) : Alike(f, old[p[k]], new[k])
  OBVIOUS
<1> QED BY <1>1, <1>2 DEF Rearranges

Rearranged(t, s) ==
  /\ IsScene(t)
  /\ \A f \in Collections : \E p : Rearranges(f, t[f], s[f], p)
  /\ KeepsTexts(t.metadata, s.metadata)

LEMMA HeldInRearranged ==
  ASSUME NEW s, NEW t, IsScene(s), Rearranged(t, s), NEW x, IsScene(x), NEW d, Holds(s, x, d)
  PROVE  Holds(t, x, d)
<1>1. \A f \in Collections : /\ x[f] \in Seq(ObjectType[f]) /\ s[f] \in Seq(ObjectType[f])
                             /\ t[f] \in Seq(ObjectType[f])
  BY SceneFields DEF Rearranged
<1>2. ASSUME NEW f \in Collections, NEW i \in 1..Len(x[f])
      PROVE  \E k \in 1..Len(t[f]) : IsMoved(f, x[f][i], t[f][k], d)
  <2>1. PICK p : Rearranges(f, t[f], s[f], p)
    BY DEF Rearranged
  <2>2. PICK j \in 1..Len(s[f]) : IsMoved(f, x[f][i], s[f][j], d)
    BY DEF Holds
  <2>3. PICK k \in 1..Len(s[f]) : p[k] = j
    BY <2>1 DEF Rearranges, Bijection, Surjection
  <2>4. Len(t[f]) = Len(s[f]) /\ Alike(f, s[f][j], t[f][k])
    BY <2>1, <2>3 DEF Rearranges
  <2>5. x[f][i] \in ObjectType[f] /\ s[f][j] \in ObjectType[f]
    BY <1>1
  <2>6. IsMoved(f, x[f][i], t[f][k], d)
    BY <2>2, <2>4, <2>5, StillMoved
  <2> QED BY <2>4, <2>6
<1> QED BY <1>2 DEF Holds

LEMMA JoinedRearranged ==
  ASSUME NEW left, NEW right, NEW d, NEW s, NEW t, IsScene(right),
         Joins(s, left, right, d), Rearranged(t, s)
  PROVE  Joins(t, left, right, d)
<1>1. IsScene(s) /\ IsScene(t)
  BY DEF Joins, Rearranged
<1>2. \A f \in Collections : Len(t[f]) = Len(left[f]) + Len(right[f])
  BY DEF Joins, Rearranged, Rearranges
<1>3. \A x, e : IsScene(x) /\ Holds(left, x, e) => Holds(t, x, e)
  BY <1>1, HeldInRearranged DEF Joins
<1>4. Holds(t, right, d)
  BY <1>1, HeldInRearranged DEF Joins
<1>5. KeepsTexts(t.metadata, left.metadata)
  BY DEF Joins, Rearranged, KeepsTexts
<1> QED BY <1>1, <1>2, <1>3, <1>4, <1>5 DEF Joins

LEMMA NormalizingRearranges ==
  ASSUME NEW s, IsScene(s)
  PROVE  \E a, b : /\ Rearranged(a, s) /\ Rearranged(b, a) /\ Rearranged(NormalizeScene(s, DefaultNormalization), b)
                   /\ IsScene(a) /\ Rebuilt(a, b) /\ Sorted(b, NormalizeScene(s, DefaultNormalization))
<1>1. PICK a : a = RemoveEmptyMetadata(s)
  OBVIOUS
<1>2. PICK b : b = RebuildChildLists(a)
  OBVIOUS
<1>3. PICK c : c = SortSceneCollections(b)
  OBVIOUS
<1>4. NormalizeScene(s, DefaultNormalization) = c
  BY <1>1, <1>2, <1>3 DEF NormalizeScene, DefaultNormalization
<1>5. Cleaned(s, a) /\ IsScene(a)
  BY <1>1, CleaningKeepsEntries DEF Cleaned
<1>6. Rebuilt(a, b) /\ IsScene(b)
  BY <1>2, <1>5, RebuildingNamesChildren DEF Rebuilt
<1>7. Sorted(b, c) /\ IsScene(c)
  BY <1>3, <1>6, SortingRearranges DEF Sorted
<1>8. \A x : IsScene(x) => \A f \in Collections : Len(x[f]) \in Nat
  BY SceneFields
<1>9. Rearranged(a, s)
  <2>1. ASSUME NEW f \in Collections PROVE \E p : Rearranges(f, a[f], s[f], p)
    BY <1>5, <1>8, SameArrangement DEF Cleaned
  <2> QED BY <1>5, <2>1 DEF Rearranged, Cleaned
<1>10. Rearranged(b, a)
  <2>1. ASSUME NEW f \in Collections \ {"nodes"} PROVE \E p : Rearranges(f, b[f], a[f], p)
    BY <1>5, <1>6, <1>8, SameArrangement DEF Rebuilt
  <2>2. \E p : Rearranges("nodes", b.nodes, a.nodes, p)
    <3>1. /\ Len(a.nodes) \in Nat /\ Len(b.nodes) = Len(a.nodes)
          /\ \A i \in 1..Len(a.nodes) : Alike("nodes", a.nodes[i], b.nodes[i])
      BY <1>5, <1>6, <1>8, CollectionNames DEF Rebuilt
    <3> QED BY <3>1, SamePlaces
  <2>3. KeepsTexts(b.metadata, a.metadata)
    BY <1>6 DEF Rebuilt, KeepsTexts
  <2> QED BY <1>6, <2>1, <2>2, <2>3 DEF Rearranged
<1>11. Rearranged(c, b)
  <2>1. \A f \in Collections : \E p : Rearranges(f, c[f], b[f], p)
    BY <1>7 DEF Sorted
  <2>2. KeepsTexts(c.metadata, b.metadata)
    BY <1>7 DEF Sorted, KeepsTexts
  <2> QED BY <1>7, <2>1, <2>2 DEF Rearranged
<1> QED BY <1>4, <1>5, <1>6, <1>7, <1>9, <1>10, <1>11

(* Child lists are the inverse of the parents.                             *)
MutualLinks(nodes) ==
  \A k \in 1..Len(nodes) :
    Range(nodes[k].children) =
      {nodes[l].id : l \in {l \in 1..Len(nodes) : nodes[l].parent = nodes[k].id}}

LEMMA RebuiltAndSorted ==
  ASSUME NEW a, NEW b, NEW c, IsScene(a), Rebuilt(a, b), Sorted(b, c), UniqueIds(c.nodes)
  PROVE  MutualLinks(c.nodes)
<1>1. PICK A, B, C : A = a.nodes /\ B = b.nodes /\ C = c.nodes
  OBVIOUS
<1>2. PICK n : n = Len(A)
  OBVIOUS
<1>3. /\ n \in Nat /\ Len(B) = n /\ Len(C) = n
      /\ A \in Seq(NodeType) /\ B \in Seq(NodeType) /\ C \in Seq(NodeType)
  <2>1. A \in Seq(NodeType) /\ B \in Seq(NodeType) /\ C \in Seq(NodeType)
    BY <1>1 DEF Rebuilt, Sorted, IsScene
  <2> QED BY <1>1, <1>2, <2>1 DEF Rebuilt, Sorted, Rearranges
<1>4. PICK p \in Bijection(1..n, 1..n) :
        \A k \in 1..n : Alike("nodes", B[p[k]], C[k]) /\ Range(C[k].children) = Range(B[p[k]].children)
  BY <1>1, <1>2, <1>3 DEF Sorted, Rearranges
<1>5. /\ \A k \in 1..n : p[k] \in 1..n
      /\ \A i \in 1..n : \E k \in 1..n : p[k] = i
  BY <1>4 DEF Bijection, Injection, Surjection
<1>6. \A i \in 1..n : B[i].id = A[i].id /\ B[i].parent = A[i].parent
  <2>1. ASSUME NEW i \in 1..n PROVE B[i].id = A[i].id /\ B[i].parent = A[i].parent
    <3>1. A[i] \in NodeType /\ Alike("nodes", A[i], B[i])
      BY <1>1, <1>2, <1>3 DEF Rebuilt
    <3> QED BY <3>1 DEF Alike, NodeType
  <2> QED BY <2>1
<1>7. \A k \in 1..n : C[k].id = A[p[k]].id /\ C[k].parent = A[p[k]].parent
  <2>1. ASSUME NEW k \in 1..n PROVE C[k].id = A[p[k]].id /\ C[k].parent = A[p[k]].parent
    <3>1. B[p[k]] \in NodeType /\ Alike("nodes", B[p[k]], C[k]) /\ p[k] \in 1..n
      BY <1>3, <1>4, <1>5
    <3>2. C[k].id = B[p[k]].id /\ C[k].parent = B[p[k]].parent
      BY <3>1 DEF Alike, NodeType
    <3> QED BY <1>6, <3>1, <3>2
  <2> QED BY <2>1
<1>8. /\ \A k \in 1..n : C[k].id # NoId
      /\ \A k, l \in 1..n : k # l => C[k].id # C[l].id
  BY <1>1, <1>3 DEF UniqueIds, Ids
<1>9. \A i, j \in 1..n : i # j => A[i].id # A[j].id
  <2>1. ASSUME NEW i \in 1..n, NEW j \in 1..n, i # j PROVE A[i].id # A[j].id
    <3>1. PICK k \in 1..n : p[k] = i
      BY <1>5
    <3>2. PICK l \in 1..n : p[l] = j
      BY <1>5
    <3> QED BY <1>7, <1>8, <2>1, <3>1, <3>2
  <2> QED BY <2>1
<1>10. ASSUME NEW k \in 1..n
       PROVE  Range(C[k].children) = {C[l].id : l \in {l \in 1..n : C[l].parent = C[k].id}}
  <2>1. PICK i \in 1..n : i = p[k]
    BY <1>5
  <2>2. IsFirst(A, i)
    <3>1. \A j \in 1..i - 1 : j \in 1..n /\ j # i
      BY <1>3
    <3> QED BY <1>9, <3>1 DEF IsFirst
  <2>3. Range(B[i].children) = {A[j].id : j \in Under(A, A[i].id)}
    BY <1>1, <1>2, <2>2 DEF Rebuilt
  <2>4. Under(A, A[i].id) = {j \in 1..n : A[j].parent = A[i].id}
    BY <1>2, <1>7, <1>8, <2>1 DEF Under
  <2>5. Range(C[k].children) = {A[j].id : j \in {j \in 1..n : A[j].parent = A[i].id}}
    BY <1>4, <2>1, <2>3, <2>4
  <2>6. C[k].id = A[i].id
    BY <1>7, <2>1
  <2>7. ASSUME NEW j \in 1..n, A[j].parent = A[i].id
        PROVE  \E l \in 1..n : C[l].parent = C[k].id /\ C[l].id = A[j].id
    <3>1. PICK l \in 1..n : p[l] = j
      BY <1>5
    <3> QED BY <1>7, <2>6, <2>7, <3>1
  <2>8. ASSUME NEW l \in 1..n, C[l].parent = C[k].id
        PROVE  \E j \in 1..n : A[j].parent = A[i].id /\ A[j].id = C[l].id
    <3>1. p[l] \in 1..n /\ A[p[l]].parent = A[i].id /\ A[p[l]].id = C[l].id
      BY <1>5, <1>7, <2>6, <2>8
    <3> QED BY <3>1
  <2> DEFINE below == {A[j].id : j \in {j \in 1..n : A[j].parent = A[i].id}}
             named == {C[l].id : l \in {l \in 1..n : C[l].parent = C[k].id}}
  <2>9. ASSUME NEW x \in below PROVE x \in named
    BY <2>7
  <2>10. ASSUME NEW x \in named PROVE x \in below
    BY <2>8
  <2>11. below = named
    <3> HIDE DEF below, named
    <3> QED BY <2>9, <2>10
  <2> QED BY <2>5, <2>11
<1>11. MutualLinks(C)
  <2>1. PICK m : m = Len(C)
    OBVIOUS
  <2>2. m = n
    BY <1>3, <2>1
  <2>3. ASSUME NEW k \in 1..m
        PROVE  Range(C[k].children) = {C[l].id : l \in {l \in 1..m : C[l].parent = C[k].id}}
    BY <1>10, <2>2
  <2> QED BY <2>1, <2>3 DEF MutualLinks
<1> QED BY <1>1, <1>11

Merges(m, left, right) ==
  /\ \E d \in Id : Joins(m, left, right, d)
  /\ ValidateScene(m) => MutualLinks(m.nodes)

LEMMA MergingJoins ==
  ASSUME NEW left, NEW right, IsScene(left), IsScene(right)
  PROVE  Merges(Merged(left, right), left, right)
<1>1. PICK d : d = (MaxObjectId(left) + 1) % IdSpace
  OBVIOUS
<1>2. d \in Id
  BY <1>1, NextFreeId
<1>3. PICK s : s = Base(left, right, d)
  OBVIOUS
<1>4. Joins(s, left, right, d) /\ IsScene(s)
  BY <1>2, <1>3, BaseJoins DEF Joins
<1>5. PICK m : m = NormalizeScene(s, DefaultNormalization)
  OBVIOUS
<1>6. Merged(left, right) = m
  BY <1>1, <1>3, <1>5 DEF Merged, Base
<1>7. PICK a, b : /\ Rearranged(a, s) /\ Rearranged(b, a) /\ Rearranged(m, b)
                  /\ IsScene(a) /\ Rebuilt(a, b) /\ Sorted(b, m)
  BY <1>4, <1>5, NormalizingRearranges
<1>8. Joins(a, left, right, d)
  BY <1>4, <1>7, JoinedRearranged
<1>9. Joins(b, left, right, d)
  BY <1>7, <1>8, JoinedRearranged
<1>10. Joins(m, left, right, d)
  BY <1>7, <1>9, JoinedRearranged
<1>11. ValidateScene(m) => MutualLinks(m.nodes)
  BY <1>7, RebuiltAndSorted DEF ValidateScene, IdsUnique
<1> QED BY <1>2, <1>6, <1>10, <1>11 DEF Merges

(***************************************************************************)
(* Merging all scenes.                                                     *)
(***************************************************************************)

LEMMA SortedKeysNameKeys ==
  ASSUME NEW K, K \subseteq Nat, IsFiniteSet(K)
  PROVE  /\ Cardinality(K) \in Nat /\ Len(SortedKeys(K)) = Cardinality(K)
         /\ SortedKeys(K) \in Bijection(1..Cardinality(K), K)
<1> DEFINE n == Cardinality(K)
           key == [k \in K |-> 0]
           Rank(i) == Cardinality({j \in K : j < i})
           place == [k \in 1..n |-> CHOOSE i \in K : Rank(i) = k - 1]
<1>1. SortedKeys(K) = place
  BY DEF SortedKeys
<1>2. key \in [K -> Int]
  OBVIOUS
<1>3. \A i \in K : Rank(i) = Cardinality(Earlier(key, K, i))
  <2>1. ASSUME NEW i \in K PROVE {j \in K : j < i} = Earlier(key, K, i)
    BY DEF Earlier, Precedes
  <2> QED BY <2>1
<1> HIDE DEF key, Rank
<1>4. TakesRanks(place, key, K, n)
  <2>1. ASSUME NEW k \in 1..n, NEW i \in K, Cardinality(Earlier(key, K, i)) = k - 1
        PROVE  place[k] \in K /\ Rank(place[k]) = k - 1
    BY <1>3, <2>1
  <2>2. place = [k \in 1..n |-> place[k]]
    OBVIOUS
  <2> HIDE DEF place
  <2> QED BY <1>3, <2>1, <2>2 DEF TakesRanks
<1>5. place = [k \in 1..n |-> place[k]]
  OBVIOUS
<1> HIDE DEF place, n
<1>6. n = Cardinality(K)
  BY DEF n
<1>7. n \in Nat /\ place \in Bijection(1..n, K)
  BY <1>2, <1>4, <1>6, PlacesInOrder
<1>8. Len(place) = n
  BY <1>5, <1>7
<1> QED BY <1>1, <1>6, <1>7, <1>8

LoopBody(g, keys, n) ==
  IF n = 1 THEN [ok |-> TRUE, scene |-> scenes[keys[1]]]
  ELSE IF g[n - 1].ok THEN MergeScenes(g[n - 1].scene, scenes[keys[n]])
  ELSE g[n - 1]

IsLoop(u, keys, m) == \A n \in 1..m : u[n] = LoopBody(u, keys, n)

(* The loop of MergeAll runs: there is a scene for every round.            *)
LEMMA MergeLoop ==
  ASSUME NEW keys, Len(keys) \in Nat \ {0}
  PROVE  \E u : IsLoop(u, keys, Len(keys)) /\ MergeUpTo(keys) = u[Len(keys)]
<1> DEFINE N == Len(keys)
           upTo == CHOOSE g : g = [n \in 1..N |-> LoopBody(g, keys, n)]
           Upto(m, g) == g = [n \in 1..m |-> LoopBody(g, keys, n)]
           T == {m \in 0..N : \E g : Upto(m, g)}
<1>1. MergeUpTo(keys) = upTo[N]
  BY DEF MergeUpTo, LoopBody
<1>2. N \in Nat \ {0}
  OBVIOUS
<1> HIDE DEF N
<1>3. 0 \in T
  <2> DEFINE g == [n \in 1..0 |-> 0]
  <2>1. Upto(0, g)
    OBVIOUS
  <2> HIDE DEF Upto, g
  <2> QED BY <1>2, <2>1
<1>4. ASSUME NEW m \in 0..N - 1, m \in T PROVE m + 1 \in T
  <2>1. PICK g : Upto(m, g)
    BY <1>4
  <2> DEFINE h == [n \in 1..m + 1 |-> LoopBody(g, keys, n)]
  <2>2. ASSUME NEW n \in 1..m + 1 PROVE LoopBody(g, keys, n) = LoopBody(h, keys, n)
    <3>1. CASE n = 1
      BY <3>1 DEF LoopBody
    <3>2. CASE n # 1
      <4>1. n - 1 \in 1..m /\ n - 1 \in 1..m + 1
        BY <1>4, <3>2
      <4>2. g[n - 1] = LoopBody(g, keys, n - 1) /\ h[n - 1] = LoopBody(g, keys, n - 1)
        BY <2>1, <4>1
      <4>3. g[n - 1] = h[n - 1]
        BY <4>2
      <4> HIDE DEF h
      <4> QED BY <4>3 DEF LoopBody
    <3> QED BY <3>1, <3>2
  <2>3. Upto(m + 1, h)
    BY <2>2
  <2>4. m + 1 \in 0..N
    BY <1>2, <1>4
  <2> HIDE DEF Upto, h
  <2> QED BY <2>3, <2>4
<1>5. \E g : Upto(N, g)
  <2> HIDE DEF T
  <2>1. \A m \in 0..N : m \in T
    BY <1>2, <1>3, <1>4, BoundedInduction
  <2>2. N \in T
    BY <1>2, <2>1
  <2> USE DEF T
  <2> QED BY <2>2
<1>6. upTo = [n \in 1..N |-> LoopBody(upTo, keys, n)]
  BY <1>5
<1> HIDE DEF upTo
<1>7. IsLoop(upTo, keys, N)
  BY <1>6 DEF IsLoop
<1> QED BY <1>1, <1>7 DEF N

(* The places of the objects of one collection in the first n scenes.      *)
Slots(f, keys, n) == UNION {{keys[m]} \X DOMAIN scenes[keys[m]][f] : m \in 1..n}

LEMMA SlotsOfNext ==
  ASSUME NEW f, NEW keys, NEW N \in Nat, NEW K, keys \in Injection(1..N, K), NEW n \in 1..N - 1,
         IsFiniteSet(Slots(f, keys, n)),
         NEW L \in Nat, DOMAIN scenes[keys[n + 1]][f] = 1..L
  PROVE  /\ IsFiniteSet(Slots(f, keys, n + 1))
         /\ Cardinality(Slots(f, keys, n + 1)) = Cardinality(Slots(f, keys, n)) + L
<1> DEFINE before == Slots(f, keys, n)
           next == {keys[n + 1]} \X (1..L)
<1>1. IsFiniteSet(next) /\ Cardinality(next) = L
  <2>1. PICK one, places : one = {keys[n + 1]} /\ places = 1..L
    OBVIOUS
  <2>2. IsFiniteSet(one) /\ Cardinality(one) = 1
    BY <2>1, FS_Singleton
  <2>3. IsFiniteSet(places) /\ Cardinality(places) = L
    BY <2>1, Interval
  <2>4. IsFiniteSet(one \X places) /\ Cardinality(one \X places) = 1 * L
    BY <2>2, <2>3, FS_Product
  <2> QED BY <2>1, <2>4
<1>2. Slots(f, keys, n + 1) = before \cup next
  <2>1. \A m : m \in 1..n + 1 <=> m \in 1..n \/ m = n + 1
    OBVIOUS
  <2>2. ASSUME NEW x \in Slots(f, keys, n + 1) PROVE x \in before \cup next
    BY <2>1 DEF Slots
  <2>3. ASSUME NEW x \in before \cup next PROVE x \in Slots(f, keys, n + 1)
    BY <2>1 DEF Slots
  <2> QED BY <2>2, <2>3
<1>3. before \cap next = {}
  <2>1. ASSUME NEW x \in before, x \in next PROVE FALSE
    <3>1. PICK m \in 1..n : x \in {keys[m]} \X DOMAIN scenes[keys[m]][f]
      BY DEF Slots
    <3>2. keys[m] = x[1] /\ keys[n + 1] = x[1]
      BY <2>1, <3>1
    <3>3. m \in 1..N /\ n + 1 \in 1..N /\ m # n + 1
      OBVIOUS
    <3> QED BY <3>2, <3>3 DEF Injection, IsInjective
  <2> QED BY <2>1
<1> HIDE DEF before, next
<1>4. IsFiniteSet(before \cup next) /\ Cardinality(before \cup next) = Cardinality(before) + L - Cardinality({})
  <2>1. IsFiniteSet(before)
    BY DEF before
  <2> QED BY <1>1, <1>3, <2>1, FS_Union
<1>5. Cardinality({}) = 0 /\ Cardinality(before) \in Nat
  BY FS_EmptySet, FS_CardinalityType DEF before
<1>6. /\ IsFiniteSet(Slots(f, keys, n + 1))
      /\ Cardinality(Slots(f, keys, n + 1)) = Cardinality(before) + L
  <2>1. PICK c, e : c = Cardinality(before) /\ e = Cardinality({})
    OBVIOUS
  <2>2. c + L - e = c + L
    BY <1>5, <2>1
  <2> QED BY <1>2, <1>4, <2>1, <2>2
<1> QED BY <1>6 DEF before

LEMMA NoDistance ==
  /\ 0 \in Id
  /\ \A id \in Id : (IF id = NoId THEN NoId ELSE (id + 0) % IdSpace) = id
<1>1. PICK n : n = IdSpace
  OBVIOUS
<1>2. n \in Nat \ {0, 1}
  BY <1>1, SceneAssumption
<1>3. \A id \in 0..n - 1 : (id + 0) % n = id
  BY <1>2
<1> QED BY <1>1, <1>2, <1>3 DEF Id, NoId

LEMMA Unmoved ==
  ASSUME NEW f \in Collections, NEW x \in ObjectType[f]
  PROVE  IsMoved(f, x, x, 0)
<1> DEFINE Moved(id) == IF id = NoId THEN NoId ELSE (id + 0) % IdSpace
<1>1. \A id \in Id : Moved(id) = id
  BY NoDistance
<1> HIDE DEF Moved
<1>2. CASE f = "nodes"
  <2>1. x.id \in Id /\ x.parent \in Id /\ x.mesh \in Id /\ x.camera \in Id /\ x.light \in Id
    BY <1>2 DEF ObjectType, NodeType
  <2>2. f \in DOMAIN IdFields /\ IdFields[f] = {"id", "parent", "mesh", "camera", "light"}
    BY <1>2 DEF IdFields
  <2>3. \A g \in IdFields[f] : Moved(x[g]) = x[g]
    BY <1>1, <2>1, <2>2
  <2> QED BY <1>2, <2>2, <2>3 DEF IsMoved, Moved
<1>3. CASE f = "meshes"
  <2>1. x.id \in Id /\ x.material \in Id
    BY <1>3 DEF ObjectType, MeshType
  <2>2. f \in DOMAIN IdFields /\ IdFields[f] = {"id", "material"}
    BY <1>3 DEF IdFields
  <2>3. \A g \in IdFields[f] : Moved(x[g]) = x[g]
    BY <1>1, <2>1, <2>2
  <2> QED BY <1>3, <2>2, <2>3 DEF IsMoved, Moved
<1>4. CASE f = "materials"
  <2>1. x.id \in Id /\ x.texture \in Id
    BY <1>4 DEF ObjectType, MaterialType
  <2>2. f \in DOMAIN IdFields /\ IdFields[f] = {"id", "texture"}
    BY <1>4 DEF IdFields
  <2>3. \A g \in IdFields[f] : Moved(x[g]) = x[g]
    BY <1>1, <2>1, <2>2
  <2> QED BY <1>4, <2>2, <2>3 DEF IsMoved, Moved
<1>5. CASE f \in {"textures", "cameras", "lights"}
  <2>1. x.id \in Id
    BY <1>5, IdsAreNumbers
  <2>2. f \in DOMAIN IdFields /\ IdFields[f] = {"id"}
    BY <1>5 DEF IdFields
  <2>3. \A g \in IdFields[f] : Moved(x[g]) = x[g]
    BY <1>1, <2>1, <2>2
  <2> QED BY <1>5, <2>2, <2>3 DEF IsMoved, Moved
<1>6. CASE f = "animations"
  <2> DEFINE Channel == [target : Id, ordered : BOOLEAN]
  <2>1. x.id \in Id /\ x.channels \in Seq(Channel)
    BY <1>6 DEF ObjectType, AnimationType
  <2>2. ASSUME NEW c \in DOMAIN x.channels PROVE x.channels[c].target \in Id
    <3>1. x.channels[c] \in Channel
      <4> HIDE DEF Channel
      <4> QED BY <2>1
    <3> QED BY <3>1
  <2>3. Moved(x.id) = x.id /\ \A c \in DOMAIN x.channels : x.channels[c].target = Moved(x.channels[c].target)
    BY <1>1, <2>1, <2>2
  <2> QED BY <1>6, <2>3 DEF IsMoved, IdFields, Moved
<1>7. CASE f = "skeletons"
  <2>1. x.id \in Id /\ x.joints \in Seq(JointType)
    BY <1>7 DEF ObjectType, SkeletonType, JointType
  <2>2. ASSUME NEW j \in Range(x.joints) PROVE Moved(j.id) = j.id /\ Moved(j.parent) = j.parent
    <3>1. j \in JointType
      BY <2>1 DEF Range
    <3> QED BY <1>1, <3>1 DEF JointType
  <2>3. {<<j.id, j.parent>> : j \in Range(x.joints)} = {<<Moved(j.id), Moved(j.parent)>> : j \in Range(x.joints)}
    BY <2>2
  <2>4. Moved(x.id) = x.id
    BY <1>1, <2>1
  <2> QED BY <1>7, <2>3, <2>4 DEF IsMoved, IdFields, Moved
<1> QED BY <1>2, <1>3, <1>4, <1>5, <1>6, <1>7, CollectionNames

LEMMA HoldsItself ==
  ASSUME NEW s, IsScene(s)
  PROVE  \E d \in Id : Holds(s, s, d)
<1>1. ASSUME NEW f \in Collections, NEW i \in 1..Len(s[f])
      PROVE  \E k \in 1..Len(s[f]) : IsMoved(f, s[f][i], s[f][k], 0)
  <2>1. s[f][i] \in ObjectType[f]
    BY SceneFields
  <2> QED BY <2>1, Unmoved
<1> QED BY <1>1, NoDistance DEF Holds

(* What n rounds have gathered, unless a scene did not merge.              *)
Gathered(u, keys, n) ==
  /\ IsScene(u.scene)
  /\ u.ok =>
       /\ \A m \in 1..n : \E d \in Id : Holds(u.scene, scenes[keys[m]], d)
       /\ \A f \in Collections :
            IsFiniteSet(Slots(f, keys, n)) /\ Len(u.scene[f]) = Cardinality(Slots(f, keys, n))
       /\ KeepsTexts(u.scene.metadata, scenes[keys[1]].metadata)
       /\ n > 1 => MutualLinks(u.scene.nodes)

LEMMA FirstGathered ==
  ASSUME NEW keys, IsScene(scenes[keys[1]])
  PROVE  Gathered([ok |-> TRUE, scene |-> scenes[keys[1]]], keys, 1)
<1>1. PICK s : s = scenes[keys[1]]
  OBVIOUS
<1>2. \A m \in 1..1 : \E d \in Id : Holds(s, scenes[keys[m]], d)
  BY <1>1, HoldsItself
<1>3. ASSUME NEW f \in Collections
      PROVE  IsFiniteSet(Slots(f, keys, 1)) /\ Len(s[f]) = Cardinality(Slots(f, keys, 1))
  <2>1. PICK one, places : one = {keys[1]} /\ places = 1..Len(s[f])
    OBVIOUS
  <2>2. Len(s[f]) \in Nat /\ DOMAIN s[f] = places
    BY <1>1, <2>1, SceneFields
  <2>3. IsFiniteSet(one) /\ Cardinality(one) = 1
    BY <2>1, FS_Singleton
  <2>4. IsFiniteSet(places) /\ Cardinality(places) = Len(s[f])
    BY <2>1, <2>2, Interval
  <2>5. IsFiniteSet(one \X places) /\ Cardinality(one \X places) = Len(s[f])
    <3>1. IsFiniteSet(one \X places) /\ Cardinality(one \X places) = 1 * Len(s[f])
      BY <2>3, <2>4, FS_Product
    <3>2. \A l \in Nat : 1 * l = l
      OBVIOUS
    <3> QED BY <2>2, <3>1, <3>2
  <2>6. Slots(f, keys, 1) = one \X places
    <3>1. \A m : m \in 1..1 <=> m = 1
      OBVIOUS
    <3>2. ASSUME NEW x PROVE x \in Slots(f, keys, 1) <=> x \in one \X places
      BY <1>1, <2>1, <2>2, <3>1 DEF Slots
    <3> QED BY <3>2
  <2> QED BY <2>2, <2>5, <2>6
<1>4. KeepsTexts(s.metadata, s.metadata)
  BY DEF KeepsTexts
<1> QED BY <1>1, <1>2, <1>3, <1>4 DEF Gathered

LEMMA NextGathered ==
  ASSUME NEW keys, NEW N \in Nat, NEW K, keys \in Injection(1..N, K), NEW n \in 1..N - 1,
         NEW u, Gathered(u, keys, n), \A m \in 1..N : IsScene(scenes[keys[m]])
  PROVE  Gathered(IF u.ok THEN MergeScenes(u.scene, scenes[keys[n + 1]]) ELSE u, keys, n + 1)
<1>1. CASE ~u.ok
  BY <1>1 DEF Gathered
<1>2. CASE u.ok
  <2>1. PICK right, m : right = scenes[keys[n + 1]] /\ m = Merged(u.scene, right)
    OBVIOUS
  <2>2. PICK v : v = MergeScenes(u.scene, right)
    OBVIOUS
  <2>3. v.scene = m /\ v.ok = ValidateScene(m)
    BY <2>1, <2>2 DEF MergeScenes
  <2>4. IsScene(u.scene) /\ IsScene(right)
    <3>1. n + 1 \in 1..N
      OBVIOUS
    <3> QED BY <2>1, <3>1 DEF Gathered
  <2>5. Merges(m, u.scene, right)
    BY <2>1, <2>4, MergingJoins
  <2>6. PICK d \in Id : Joins(m, u.scene, right, d)
    BY <2>5 DEF Merges
  <2>7. IsScene(m)
    BY <2>6 DEF Joins
  <2>8. ASSUME NEW k \in 1..n + 1 PROVE \E e \in Id : Holds(m, scenes[keys[k]], e)
    <3>1. CASE k = n + 1
      BY <2>1, <2>6, <3>1 DEF Joins
    <3>2. CASE k \in 1..n
      <4>1. PICK e \in Id : Holds(u.scene, scenes[keys[k]], e)
        BY <1>2, <3>2 DEF Gathered
      <4>2. k \in 1..N
        BY <3>2
      <4> QED BY <2>6, <4>1, <4>2 DEF Joins
    <3> QED BY <3>1, <3>2
  <2>9. ASSUME NEW f \in Collections
        PROVE  IsFiniteSet(Slots(f, keys, n + 1)) /\ Len(m[f]) = Cardinality(Slots(f, keys, n + 1))
    <3>1. PICK L : L = Len(right[f])
      OBVIOUS
    <3>2. L \in Nat /\ DOMAIN scenes[keys[n + 1]][f] = 1..L
      BY <2>1, <2>4, <3>1, SceneFields
    <3>3. IsFiniteSet(Slots(f, keys, n)) /\ Len(u.scene[f]) = Cardinality(Slots(f, keys, n))
      BY <1>2 DEF Gathered
    <3>4. /\ IsFiniteSet(Slots(f, keys, n + 1))
          /\ Cardinality(Slots(f, keys, n + 1)) = Cardinality(Slots(f, keys, n)) + L
      BY <3>2, <3>3, SlotsOfNext
    <3>5. Len(m[f]) = Len(u.scene[f]) + L
      BY <2>6, <3>1 DEF Joins
    <3> QED BY <3>3, <3>4, <3>5
  <2>10. KeepsTexts(m.metadata, scenes[keys[1]].metadata)
    BY <1>2, <2>6 DEF Joins, Gathered, KeepsTexts
  <2>11. v.ok => MutualLinks(m.nodes)
    BY <2>3, <2>5 DEF Merges
  <2>12. Gathered(v, keys, n + 1)
    BY <2>3, <2>7, <2>8, <2>9, <2>10, <2>11 DEF Gathered
  <2> QED BY <1>2, <2>1, <2>2, <2>12
<1> QED BY <1>1, <1>2

(* What MergeKeepsEveryScene says of a merged scene m.                     *)
KeepsEveryScene(m) ==
  /\ \A key \in DOMAIN scenes : \E distance \in Id : FoundAgain(scenes[key], m, distance)
  /\ \A f \in Collections :
       Len(m[f]) = Cardinality(UNION {{key} \X DOMAIN scenes[key][f] : key \in DOMAIN scenes})
  /\ KeepsTexts(m.metadata, scenes[SortedKeys(DOMAIN scenes)[1]].metadata)
  /\ Cardinality(DOMAIN scenes) > 1 =>
       \A node \in Range(m.nodes) :
         Range(node.children) = {n.id : n \in {x \in Range(m.nodes) : x.parent = node.id}}

Keeps(result) == IsScene(result.scene) /\ (result.ok => KeepsEveryScene(result.scene))

LEMMA HeldIsFound ==
  ASSUME NEW s, NEW m, IsScene(s), IsScene(m), NEW d, Holds(m, s, d)
  PROVE  FoundAgain(s, m, d)
<1>1. \A f \in Collections : DOMAIN s[f] = 1..Len(s[f]) /\ DOMAIN m[f] = 1..Len(m[f])
  BY SceneFields
<1>2. ASSUME NEW f \in Collections, NEW x \in Range(s[f])
      PROVE  \E y \in Range(m[f]) : IsMoved(f, x, y, d)
  <2>1. PICK i \in 1..Len(s[f]) : x = s[f][i]
    BY <1>1 DEF Range
  <2>2. PICK k \in 1..Len(m[f]) : IsMoved(f, x, m[f][k], d)
    BY <2>1 DEF Holds
  <2>3. m[f][k] \in Range(m[f])
    BY <1>1 DEF Range
  <2> QED BY <2>2, <2>3
<1> QED BY <1>2 DEF FoundAgain

LEMMA MutualOfRange ==
  ASSUME NEW nodes, DOMAIN nodes = 1..Len(nodes), MutualLinks(nodes), NEW node \in Range(nodes)
  PROVE  Range(node.children) = {n.id : n \in {x \in Range(nodes) : x.parent = node.id}}
<1>1. PICK k \in 1..Len(nodes) : node = nodes[k]
  BY DEF Range
<1> DEFINE named == {nodes[l].id : l \in {l \in 1..Len(nodes) : nodes[l].parent = nodes[k].id}}
           below == {n.id : n \in {x \in Range(nodes) : x.parent = node.id}}
<1>2. Range(node.children) = named
  BY <1>1 DEF MutualLinks
<1>3. ASSUME NEW x \in named PROVE x \in below
  <2>1. PICK l \in 1..Len(nodes) : nodes[l].parent = nodes[k].id /\ x = nodes[l].id
    OBVIOUS
  <2>2. nodes[l] \in Range(nodes)
    BY DEF Range
  <2> QED BY <1>1, <2>1, <2>2
<1>4. ASSUME NEW x \in below PROVE x \in named
  <2>1. PICK n \in Range(nodes) : n.parent = node.id /\ x = n.id
    OBVIOUS
  <2>2. PICK l \in 1..Len(nodes) : n = nodes[l]
    BY DEF Range
  <2> QED BY <1>1, <2>1, <2>2
<1> HIDE DEF named, below
<1>5. named = below
  BY <1>3, <1>4
<1> QED BY <1>2, <1>5 DEF below

LEMMA MergeUpToGathers ==
  ASSUME IsFiniteSet(DOMAIN scenes), DOMAIN scenes \subseteq Nat, DOMAIN scenes # {},
         \A key \in DOMAIN scenes : IsScene(scenes[key])
  PROVE  Keeps(MergeUpTo(SortedKeys(DOMAIN scenes)))
<1> DEFINE K == DOMAIN scenes
           N == Cardinality(K)
           keys == SortedKeys(K)
<1>1. N \in Nat /\ Len(keys) = N /\ keys \in Bijection(1..N, K)
  BY SortedKeysNameKeys
<1>2. N # 0
  BY FS_EmptySet
<1> HIDE DEF K, N, keys
<1>3. /\ keys \in Injection(1..N, K) /\ \A m \in 1..N : keys[m] \in K
      /\ \A key \in K : \E m \in 1..N : keys[m] = key
  BY <1>1 DEF Bijection, Injection, Surjection
<1>4. \A m \in 1..N : IsScene(scenes[keys[m]])
  BY <1>3 DEF K
<1>5. PICK u : IsLoop(u, keys, N) /\ MergeUpTo(keys) = u[N]
  BY <1>1, <1>2, MergeLoop
<1>6. \A n \in 1..N : u[n] = LoopBody(u, keys, n)
  BY <1>5 DEF IsLoop
<1> DEFINE T == {n \in 0..N : n > 0 => Gathered(u[n], keys, n)}
<1>7. 0 \in T
  BY <1>1
<1>8. ASSUME NEW n \in 0..N - 1, n \in T PROVE n + 1 \in T
  <2>1. n + 1 \in 1..N /\ n + 1 \in 0..N
    BY <1>1
  <2>2. CASE n = 0
    <3>1. u[1] = [ok |-> TRUE, scene |-> scenes[keys[1]]]
      <4>1. 1 \in 1..N
        BY <2>1, <2>2
      <4>2. LoopBody(u, keys, 1) = [ok |-> TRUE, scene |-> scenes[keys[1]]]
        BY DEF LoopBody
      <4> QED BY <1>6, <4>1, <4>2
    <3>2. Gathered(u[1], keys, 1)
      BY <1>4, <2>1, <2>2, <3>1, FirstGathered
    <3> QED BY <2>1, <2>2, <3>2
  <2>3. CASE n # 0
    <3>1. n \in 1..N - 1 /\ n + 1 # 1 /\ (n + 1) - 1 = n
      BY <1>1, <2>3
    <3>2. u[n + 1] = IF u[n].ok THEN MergeScenes(u[n].scene, scenes[keys[n + 1]]) ELSE u[n]
      BY <1>6, <2>1, <3>1 DEF LoopBody
    <3>3. Gathered(u[n], keys, n)
      BY <1>8, <3>1
    <3>4. Gathered(u[n + 1], keys, n + 1)
      BY <1>1, <1>3, <1>4, <3>1, <3>2, <3>3, NextGathered
    <3> QED BY <2>1, <3>4
  <2> QED BY <2>2, <2>3
<1>9. Gathered(u[N], keys, N)
  <2>1. \A n \in 0..N : n \in T
    <3> HIDE DEF T
    <3> QED BY <1>1, <1>7, <1>8, BoundedInduction
  <2> QED BY <1>1, <1>2, <2>1
<1>10. PICK result : result = u[N]
  OBVIOUS
<1>11. IsScene(result.scene)
  BY <1>9, <1>10 DEF Gathered
<1>12. ASSUME result.ok PROVE KeepsEveryScene(result.scene)
  <2>1. PICK m : m = result.scene
    OBVIOUS
  <2>2. ASSUME NEW key \in K PROVE \E d \in Id : FoundAgain(scenes[key], m, d)
    <3>1. PICK i \in 1..N : keys[i] = key
      BY <1>3
    <3>2. PICK d \in Id : Holds(m, scenes[key], d)
      BY <1>9, <1>10, <1>12, <2>1, <3>1 DEF Gathered
    <3>3. FoundAgain(scenes[key], m, d)
      BY <1>4, <1>11, <2>1, <3>1, <3>2, HeldIsFound
    <3> QED BY <3>3
  <2>3. ASSUME NEW f \in Collections
        PROVE  Len(m[f]) = Cardinality(UNION {{key} \X DOMAIN scenes[key][f] : key \in K})
    <3>1. Len(m[f]) = Cardinality(Slots(f, keys, N))
      BY <1>9, <1>10, <1>12, <2>1 DEF Gathered
    <3> DEFINE all == UNION {{key} \X DOMAIN scenes[key][f] : key \in K}
    <3>2. ASSUME NEW x \in all PROVE x \in Slots(f, keys, N)
      <4>1. PICK key \in K : x \in {key} \X DOMAIN scenes[key][f]
        OBVIOUS
      <4>2. PICK i \in 1..N : keys[i] = key
        BY <1>3
      <4>3. x \in {keys[i]} \X DOMAIN scenes[keys[i]][f]
        BY <4>1, <4>2
      <4> QED BY <4>3 DEF Slots
    <3>3. ASSUME NEW x \in Slots(f, keys, N) PROVE x \in all
      <4>1. PICK i \in 1..N : x \in {keys[i]} \X DOMAIN scenes[keys[i]][f]
        BY DEF Slots
      <4>2. keys[i] \in K
        BY <1>3
      <4> QED BY <4>1, <4>2
    <3> HIDE DEF all
    <3>4. all = Slots(f, keys, N)
      BY <3>2, <3>3
    <3> QED BY <3>1, <3>4 DEF all
  <2>4. KeepsTexts(m.metadata, scenes[keys[1]].metadata)
    BY <1>9, <1>10, <1>12, <2>1 DEF Gathered
  <2>5. ASSUME N > 1, NEW node \in Range(m.nodes)
        PROVE  Range(node.children) = {n.id : n \in {x \in Range(m.nodes) : x.parent = node.id}}
    <3>1. MutualLinks(m.nodes)
      BY <1>9, <1>10, <1>12, <2>1, <2>5 DEF Gathered
    <3>2. DOMAIN m.nodes = 1..Len(m.nodes)
      BY <1>11, <2>1, SceneFields, CollectionNames
    <3> QED BY <3>1, <3>2, MutualOfRange
  <2>6. KeepsEveryScene(m)
    BY <2>2, <2>3, <2>4, <2>5 DEF KeepsEveryScene, K, N, keys
  <2> QED BY <2>1, <2>6
<1> QED BY <1>5, <1>10, <1>11, <1>12 DEF Keeps, keys, K

(* What the steps keep: types, finitely many keys, and the merge.          *)
CollectionInv == TypeOK /\ IsFiniteSet(DOMAIN scenes) /\ MergeKeepsEveryScene

LEMMA EmptySceneIsScene == IsScene(EmptyScene)
<1>1. \A S : << >> \in Seq(S)
  OBVIOUS
<1>2. DOMAIN << >> = {}
  OBVIOUS
<1> QED BY <1>1, <1>2 DEF EmptyScene, IsScene

LEMMA CollectionInvInit == Init => CollectionInv
<1> SUFFICES ASSUME Init PROVE CollectionInv
  OBVIOUS
<1>1. DOMAIN scenes = {} /\ edited = {} /\ merged = NoMerge
  BY DEF Init
<1>2. TypeOK
  BY <1>1, EmptySceneIsScene DEF TypeOK, NoMerge
<1>3. MergeKeepsEveryScene
  BY <1>1 DEF MergeKeepsEveryScene, NoMerge
<1>4. IsFiniteSet(DOMAIN scenes)
  BY <1>1, FS_EmptySet
<1> QED BY <1>2, <1>3, <1>4 DEF CollectionInv

LEMMA CollectionInvNext == CollectionInv /\ [Next]_vars => CollectionInv'
<1> SUFFICES ASSUME CollectionInv, [Next]_vars PROVE CollectionInv'
  OBVIOUS
<1>1. TypeOK /\ IsFiniteSet(DOMAIN scenes) /\ MergeKeepsEveryScene
  BY DEF CollectionInv
<1>2. ASSUME merged' = NoMerge, IsFiniteSet(DOMAIN scenes'),
             DOMAIN scenes' \subseteq Keys \ {EmptyKey},
             \A key \in DOMAIN scenes' : IsScene(scenes'[key]), edited' \subseteq DOMAIN scenes'
      PROVE  CollectionInv'
  <2>1. TypeOK'
    BY <1>2, EmptySceneIsScene DEF TypeOK, NoMerge
  <2>2. MergeKeepsEveryScene'
    BY <1>2 DEF MergeKeepsEveryScene, NoMerge
  <2> QED BY <1>2, <2>1, <2>2 DEF CollectionInv
<1>3. ASSUME NEW key \in Keys, NEW s \in Library, Add(key, s) PROVE CollectionInv'
  <2>1. /\ merged' = NoMerge /\ edited' = edited \ {key} /\ key # EmptyKey
        /\ scenes' = [k \in DOMAIN scenes \cup {key} |-> IF k = key THEN s ELSE scenes[k]]
    BY <1>3 DEF Add
  <2>2. IsScene(s)
    BY CollectionAssumption
  <2>3. DOMAIN scenes' = DOMAIN scenes \cup {key}
    BY <2>1
  <2>4. IsFiniteSet(DOMAIN scenes')
    BY <1>1, <2>3, FS_AddElement
  <2>5. \A k \in DOMAIN scenes' : IsScene(scenes'[k])
    BY <1>1, <2>1, <2>2 DEF TypeOK
  <2> QED BY <1>1, <1>2, <2>1, <2>3, <2>4, <2>5 DEF TypeOK
<1>4. ASSUME NEW key \in Keys, NEW s \in Library, AddRefused(key, s) PROVE CollectionInv'
  BY <1>1, <1>2, <1>4 DEF AddRefused, TypeOK
<1>5. ASSUME NEW key \in Keys, NEW s \in Library, EditFound(key, s) PROVE CollectionInv'
  <2>1. /\ merged' = NoMerge /\ edited' = edited \cup {key} /\ key \in DOMAIN scenes
        /\ scenes' = [scenes EXCEPT ![key] = s]
    BY <1>5 DEF EditFound
  <2>2. IsScene(s)
    BY CollectionAssumption
  <2>3. DOMAIN scenes' = DOMAIN scenes
    BY <2>1
  <2>4. \A k \in DOMAIN scenes' : IsScene(scenes'[k])
    BY <1>1, <2>1, <2>2 DEF TypeOK
  <2> QED BY <1>1, <1>2, <2>1, <2>3, <2>4 DEF TypeOK
<1>6. ASSUME NEW key \in Keys, Remove(key) PROVE CollectionInv'
  <2>1. /\ merged' = NoMerge /\ edited' = edited \ {key}
        /\ scenes' = [k \in DOMAIN scenes \ {key} |-> scenes[k]]
    BY <1>6 DEF Remove
  <2>2. DOMAIN scenes' = DOMAIN scenes \ {key}
    BY <2>1
  <2>3. IsFiniteSet(DOMAIN scenes')
    BY <1>1, <2>2, FS_Subset
  <2>4. \A k \in DOMAIN scenes' : IsScene(scenes'[k])
    BY <1>1, <2>1 DEF TypeOK
  <2> QED BY <1>1, <1>2, <2>1, <2>2, <2>3, <2>4 DEF TypeOK
<1>7. CASE MergeAll
  <2>1. PICK result : result = MergeUpTo(SortedKeys(DOMAIN scenes))
    OBVIOUS
  <2>2. /\ DOMAIN scenes # {} /\ scenes' = scenes /\ edited' = edited
        /\ merged' = IF result.ok THEN [status |-> "ok", scene |-> result.scene]
                                  ELSE [status |-> "error", scene |-> EmptyScene]
    BY <1>7, <2>1 DEF MergeAll
  <2>3. DOMAIN scenes \subseteq Nat /\ \A key \in DOMAIN scenes : IsScene(scenes[key])
    BY <1>1, CollectionAssumption DEF TypeOK
  <2>4. Keeps(result)
    BY <1>1, <2>1, <2>2, <2>3, MergeUpToGathers
  <2>5. merged'.status \in {"none", "ok", "error"} /\ IsScene(merged'.scene)
    BY <2>2, <2>4, EmptySceneIsScene DEF Keeps
  <2>6. TypeOK'
    BY <1>1, <2>2, <2>5 DEF TypeOK
  <2>7. ASSUME merged'.status = "ok" PROVE KeepsEveryScene(merged'.scene)
    <3>1. result.ok /\ merged'.scene = result.scene
      BY <2>2, <2>7
    <3> QED BY <2>4, <3>1 DEF Keeps
  <2>8. MergeKeepsEveryScene'
    BY <2>2, <2>7 DEF MergeKeepsEveryScene, KeepsEveryScene, KeepsTexts
  <2> QED BY <1>1, <2>2, <2>6, <2>8 DEF CollectionInv
<1>8. CASE MergeNothing
  <2>1. /\ scenes' = scenes /\ edited' = edited
        /\ merged' = [status |-> "error", scene |-> EmptyScene]
    BY <1>8 DEF MergeNothing
  <2>2. TypeOK'
    BY <1>1, <2>1, EmptySceneIsScene DEF TypeOK
  <2>3. MergeKeepsEveryScene'
    BY <2>1 DEF MergeKeepsEveryScene
  <2> QED BY <1>1, <2>1, <2>2, <2>3 DEF CollectionInv
<1>9. CASE UNCHANGED vars
  <2>1. scenes' = scenes /\ edited' = edited /\ merged' = merged
    BY <1>9 DEF vars
  <2>2. TypeOK'
    BY <1>1, <2>1 DEF TypeOK
  <2>3. MergeKeepsEveryScene'
    BY <1>1, <2>1 DEF MergeKeepsEveryScene
  <2> QED BY <1>1, <2>1, <2>2, <2>3 DEF CollectionInv
<1> QED BY <1>3, <1>4, <1>5, <1>6, <1>7, <1>8, <1>9 DEF Next

(* The invariant holds in every state.                                     *)
THEOREM CollectionInvHolds == Spec => []CollectionInv
BY CollectionInvInit, CollectionInvNext, PTL DEF Spec

(* Whatever is stored and whatever a merge returns is a scene: its objects *)
(* have the types of scene.hpp and its ids are 64-bit.                     *)
THEOREM CollectionTypeCorrect == Spec => []TypeOK
<1>1. CollectionInv => TypeOK
  BY DEF CollectionInv
<1> QED BY <1>1, CollectionInvHolds, PTL

(* A merge that succeeds holds every stored scene, each moved as a whole,  *)
(* and nothing else, whatever the scenes, their ids, their order and how   *)
(* they were edited after they were added.                                 *)
THEOREM MergesKeepScenes == Spec => []MergeKeepsEveryScene
<1>1. CollectionInv => MergeKeepsEveryScene
  BY DEF CollectionInv
<1> QED BY <1>1, CollectionInvHolds, PTL

(***************************************************************************)
(* Sums.                                                                   *)
(***************************************************************************)

(* The things that are counted for a sum, and the sum of a part.           *)
Things(sizes) == UNION {{x} \X (1..sizes[x]) : x \in DOMAIN sizes}
Part(sizes, S) == [x \in S |-> sizes[x]]

LEMMA ThingsAre ==
  ASSUME NEW sizes, NEW z
  PROVE  z \in Things(sizes) <=> \E x \in DOMAIN sizes : \E i \in 1..sizes[x] : z = <<x, i>>
BY DEF Things

LEMMA FinitelyMany ==
  ASSUME NEW S, IsFiniteSet(S), NEW sizes \in [S -> Nat]
  PROVE  /\ IsFiniteSet(Things(sizes)) /\ TotalOf(sizes) = Cardinality(Things(sizes))
         /\ TotalOf(sizes) \in Nat
<1> DEFINE part == [x \in S |-> {x} \X (1..sizes[x])]
           parts == {part[x] : x \in S}
<1>1. part \in Surjection(S, parts)
  BY DEF Surjection
<1>2. \A x \in S : IsFiniteSet(part[x])
  <2>1. ASSUME NEW x \in S PROVE IsFiniteSet(part[x])
    <3>1. IsFiniteSet({x}) /\ IsFiniteSet(1..sizes[x])
      BY FS_Singleton, Interval
    <3> QED BY <3>1, FS_Product
  <2> QED BY <2>1
<1>3. Things(sizes) = UNION parts
  BY DEF Things
<1> HIDE DEF part, parts
<1>4. IsFiniteSet(parts)
  BY <1>1, FS_Surjection
<1>5. \A T \in parts : IsFiniteSet(T)
  BY <1>2 DEF parts
<1>6. IsFiniteSet(UNION parts)
  BY <1>4, <1>5, FS_UNION
<1>7. TotalOf(sizes) = Cardinality(Things(sizes))
  BY DEF TotalOf, Things
<1> QED BY <1>3, <1>6, <1>7, FS_CardinalityType

(* The sum over two disjoint sets.                                         *)
LEMMA TotalSplits ==
  ASSUME NEW S, IsFiniteSet(S), NEW T, IsFiniteSet(T), S \cap T = {}, NEW sizes \in [S \cup T -> Nat]
  PROVE  /\ TotalOf(Part(sizes, S)) \in Nat /\ TotalOf(Part(sizes, T)) \in Nat
         /\ TotalOf(sizes) = TotalOf(Part(sizes, S)) + TotalOf(Part(sizes, T))
<1>1. PICK a, b, c : a = Things(Part(sizes, S)) /\ b = Things(Part(sizes, T)) /\ c = Things(sizes)
  OBVIOUS
<1>2. Part(sizes, S) \in [S -> Nat] /\ Part(sizes, T) \in [T -> Nat]
  BY DEF Part
<1>3. /\ IsFiniteSet(a) /\ TotalOf(Part(sizes, S)) = Cardinality(a)
      /\ TotalOf(Part(sizes, S)) \in Nat
  BY <1>1, <1>2, FinitelyMany
<1>4. /\ IsFiniteSet(b) /\ TotalOf(Part(sizes, T)) = Cardinality(b)
      /\ TotalOf(Part(sizes, T)) \in Nat
  BY <1>1, <1>2, FinitelyMany
<1>5. TotalOf(sizes) = Cardinality(c)
  <2>1. IsFiniteSet(S \cup T)
    BY FS_Union
  <2> QED BY <1>1, <2>1, FinitelyMany
<1>6. \A z : z \in a <=> \E x \in S : \E i \in 1..sizes[x] : z = <<x, i>>
  BY <1>1, ThingsAre DEF Part
<1>7. \A z : z \in b <=> \E x \in T : \E i \in 1..sizes[x] : z = <<x, i>>
  BY <1>1, ThingsAre DEF Part
<1>8. \A z : z \in c <=> \E x \in S \cup T : \E i \in 1..sizes[x] : z = <<x, i>>
  BY <1>1, ThingsAre
<1>9. c = a \cup b
  BY <1>6, <1>7, <1>8
<1>10. a \cap b = {}
  <2>1. ASSUME NEW z \in a, z \in b PROVE FALSE
    <3>1. z[1] \in S /\ z[1] \in T
      BY <1>6, <1>7, <2>1
    <3> QED BY <3>1
  <2> QED BY <2>1
<1>11. Cardinality(a \cup b) = Cardinality(a) + Cardinality(b) - Cardinality({})
  BY <1>3, <1>4, <1>10, FS_Union
<1>12. Cardinality({}) = 0
  BY FS_EmptySet
<1> QED BY <1>3, <1>4, <1>5, <1>9, <1>11, <1>12

(* The sum of the same sizes under other names.                            *)
Renames(new, old, S, T, p) ==
  /\ p \in Bijection(S, T) /\ old \in [T -> Nat] /\ new \in [S -> Nat]
  /\ \A x \in S : new[x] = old[p[x]]

LEMMA TotalRenamed ==
  ASSUME NEW S, NEW T, NEW p, NEW old, NEW new, IsFiniteSet(S), Renames(new, old, S, T, p)
  PROVE  TotalOf(new) = TotalOf(old) /\ TotalOf(new) \in Nat /\ IsFiniteSet(T)
<1>0. /\ p \in Bijection(S, T) /\ old \in [T -> Nat] /\ new \in [S -> Nat]
      /\ \A x \in S : new[x] = old[p[x]]
  BY DEF Renames
<1>1. PICK a, b : a = Things(new) /\ b = Things(old)
  OBVIOUS
<1>2. /\ \A x \in S : p[x] \in T
      /\ \A x, y \in S : p[x] = p[y] => x = y
      /\ \A y \in T : \E x \in S : p[x] = y
      /\ p \in Surjection(S, T)
  BY <1>0 DEF Bijection, Injection, Surjection, IsInjective
<1>3. new \in [S -> Nat] /\ DOMAIN new = S
  BY <1>0
<1>4. IsFiniteSet(a) /\ TotalOf(new) = Cardinality(a) /\ TotalOf(new) \in Nat
  BY <1>1, <1>3, FinitelyMany
<1>5. IsFiniteSet(T)
  BY <1>2, FS_Surjection
<1>6. TotalOf(old) = Cardinality(b)
  BY <1>0, <1>1, <1>5, FinitelyMany
<1>7. \A z : z \in a <=> \E x \in S : \E i \in 1..old[p[x]] : z = <<x, i>>
  <2>1. \A z : z \in a <=> \E x \in S : \E i \in 1..new[x] : z = <<x, i>>
    BY <1>1, <1>3, ThingsAre
  <2> QED BY <1>0, <2>1
<1>8. \A z : z \in b <=> \E y \in T : \E i \in 1..old[y] : z = <<y, i>>
  BY <1>0, <1>1, ThingsAre
<1> DEFINE g == [z \in a |-> <<p[z[1]], z[2]>>]
<1>9. g \in [a -> b]
  <2>1. ASSUME NEW z \in a PROVE <<p[z[1]], z[2]>> \in b
    BY <1>2, <1>7, <1>8
  <2> QED BY <2>1
<1>10. ASSUME NEW y \in a, NEW z \in a, g[y] = g[z] PROVE y = z
  <2>1. PICK x \in S : \E i \in 1..old[p[x]] : y = <<x, i>>
    BY <1>7
  <2>2. PICK w \in S : \E i \in 1..old[p[w]] : z = <<w, i>>
    BY <1>7
  <2>3. p[x] = p[w] /\ y[2] = z[2]
    BY <1>10, <2>1, <2>2
  <2> QED BY <1>2, <2>1, <2>2, <2>3
<1>11. ASSUME NEW z \in b PROVE \E y \in a : g[y] = z
  <2>1. PICK y \in T : \E i \in 1..old[y] : z = <<y, i>>
    BY <1>8
  <2>2. PICK x \in S : p[x] = y
    BY <1>2
  <2>3. PICK i \in 1..old[y] : z = <<y, i>>
    BY <2>1
  <2>4. <<x, i>> \in a
    BY <1>7, <2>2, <2>3
  <2>5. g[<<x, i>>] = <<y, i>>
    BY <2>2, <2>4
  <2> QED BY <2>3, <2>4, <2>5
<1> HIDE DEF g
<1>12. g \in Bijection(a, b)
  BY <1>9, <1>10, <1>11 DEF Bijection, Injection, Surjection, IsInjective
<1>13. Cardinality(b) = Cardinality(a)
  BY <1>4, <1>12, FS_Bijection DEF ExistsBijection
<1> QED BY <1>4, <1>5, <1>6, <1>13

(* The sizes of a sequence of objects, put together or rearranged.         *)
Sizes(objects, size) == [i \in 1..Len(objects) |-> size[objects[i]]]

JoinsSizes(c, a, b, size, S) ==
  /\ Len(c) = Len(a) + Len(b)
  /\ \A i \in 1..Len(a) : c[i] \in S /\ size[c[i]] = size[a[i]]
  /\ \A i \in 1..Len(b) : c[Len(a) + i] \in S /\ size[c[Len(a) + i]] = size[b[i]]

LEMMA TotalOfJoined ==
  ASSUME NEW S, NEW size \in [S -> Nat], NEW a \in Seq(S), NEW b \in Seq(S), NEW c,
         JoinsSizes(c, a, b, size, S)
  PROVE  /\ TotalOf(Sizes(a, size)) \in Nat /\ TotalOf(Sizes(b, size)) \in Nat
         /\ TotalOf(Sizes(c, size)) = TotalOf(Sizes(a, size)) + TotalOf(Sizes(b, size))
<1>1. PICK m, n : m = Len(a) /\ n = Len(b)
  OBVIOUS
<1>2. /\ m \in Nat /\ n \in Nat /\ Len(c) = m + n
      /\ \A i \in 1..m : c[i] \in S /\ size[c[i]] = size[a[i]]
      /\ \A i \in 1..n : c[m + i] \in S /\ size[c[m + i]] = size[b[i]]
  BY <1>1 DEF JoinsSizes
<1> DEFINE A == 1..m
           B == m + 1..m + n
           p == [i \in 1..n |-> m + i]
           all == Sizes(c, size)
<1>3. A \cup B = 1..m + n /\ A \cap B = {}
  BY <1>2
<1>4. p \in Bijection(1..n, B)
  <2>1. p \in [1..n -> B]
    BY <1>2
  <2>2. \A i, j \in 1..n : p[i] = p[j] => i = j
    BY <1>2
  <2>3. ASSUME NEW k \in B PROVE \E i \in 1..n : p[i] = k
    <3>1. k - m \in 1..n /\ p[k - m] = k
      BY <1>2
    <3> QED BY <3>1
  <2> QED BY <2>1, <2>2, <2>3 DEF Bijection, Injection, Surjection, IsInjective
<1>5. IsFiniteSet(A) /\ IsFiniteSet(1..n)
  BY <1>2, Interval
<1>6. all \in [A \cup B -> Nat]
  <2>1. ASSUME NEW i \in 1..m + n PROVE size[c[i]] \in Nat
    <3>1. CASE i \in 1..m
      <4>1. c[i] \in S
        BY <1>1, <1>2, <3>1
      <4> QED BY <4>1
    <3>2. CASE i \notin 1..m
      <4>1. i - m \in 1..n /\ m + (i - m) = i
        BY <1>2, <3>2
      <4>2. c[i] \in S
        BY <1>1, <1>2, <4>1
      <4> QED BY <4>2
    <3> QED BY <3>1, <3>2
  <2> QED BY <1>2, <1>3, <2>1 DEF Sizes
<1>7. all = [i \in 1..m + n |-> size[c[i]]]
  BY <1>2 DEF Sizes
<1> HIDE DEF A, B, p, all
<1>8. Part(all, B) \in [B -> Nat]
  BY <1>6 DEF Part
<1>9. Part(all, A) = Sizes(a, size)
  <2>1. \A i \in 1..m : all[i] = size[a[i]]
    BY <1>1, <1>2, <1>7
  <2> QED BY <1>1, <2>1 DEF Part, Sizes, A
<1>10. Sizes(b, size) = [i \in 1..n |-> Part(all, B)[p[i]]]
  <2>1. ASSUME NEW i \in 1..n PROVE Part(all, B)[p[i]] = size[b[i]]
    <3>1. p[i] \in B /\ p[i] = m + i /\ m + i \in 1..m + n
      BY <1>2 DEF p, B
    <3>2. Part(all, B)[p[i]] = size[c[m + i]]
      BY <1>7, <3>1 DEF Part
    <3> QED BY <1>1, <1>2, <3>2
  <2> QED BY <1>1, <2>1 DEF Sizes
<1>11. TotalOf(Sizes(b, size)) = TotalOf(Part(all, B)) /\ IsFiniteSet(B)
  <2>1. PICK old, new, D, T : old = Part(all, B) /\ new = Sizes(b, size) /\ D = 1..n /\ T = B
    OBVIOUS
  <2>2. /\ p \in Bijection(D, T) /\ old \in [T -> Nat] /\ IsFiniteSet(D)
        /\ \A i \in D : new[i] = old[p[i]]
    BY <1>4, <1>5, <1>8, <1>10, <2>1
  <2>3. new \in [D -> Nat]
    BY <1>1, <2>1 DEF Sizes
  <2>4. TotalOf(new) = TotalOf(old) /\ IsFiniteSet(T)
    <3>1. Renames(new, old, D, T, p)
      BY <2>2, <2>3 DEF Renames
    <3> QED BY <2>2, <3>1, TotalRenamed
  <2> QED BY <2>1, <2>4
<1>12. /\ TotalOf(Part(all, A)) \in Nat /\ TotalOf(Part(all, B)) \in Nat
       /\ TotalOf(all) = TotalOf(Part(all, A)) + TotalOf(Part(all, B))
  BY <1>3, <1>5, <1>6, <1>11, TotalSplits
<1> QED BY <1>9, <1>11, <1>12 DEF all

LEMMA TotalOfRearranged ==
  ASSUME NEW S, NEW size \in [S -> Nat], NEW a \in Seq(S), NEW b, Len(b) = Len(a),
         NEW p \in Bijection(1..Len(a), 1..Len(a)), \A k \in 1..Len(a) : b[k] = a[p[k]]
  PROVE  TotalOf(Sizes(b, size)) = TotalOf(Sizes(a, size))
<1>1. PICK n : n = Len(a)
  OBVIOUS
<1>2. n \in Nat /\ IsFiniteSet(1..n)
  BY <1>1, Interval
<1>3. Sizes(a, size) \in [1..n -> Nat]
  BY <1>1 DEF Sizes
<1>4. \A k \in 1..n : p[k] \in 1..n
  BY <1>1 DEF Bijection, Injection
<1>5. Sizes(b, size) = [k \in 1..n |-> Sizes(a, size)[p[k]]]
  BY <1>1, <1>4 DEF Sizes
<1>6. PICK old, new, D : old = Sizes(a, size) /\ new = Sizes(b, size) /\ D = 1..n
  OBVIOUS
<1>7. /\ \A k \in D : new[k] = old[p[k]]
      /\ old \in [D -> Nat] /\ new \in [D -> Nat] /\ p \in Bijection(D, D)
      /\ IsFiniteSet(D)
  BY <1>1, <1>2, <1>3, <1>4, <1>5, <1>6
<1>8. TotalOf(new) = TotalOf(old)
  <2>1. Renames(new, old, D, D, p)
    BY <1>7 DEF Renames
  <2> QED BY <1>7, <2>1, TotalRenamed
<1> QED BY <1>6, <1>8

(***************************************************************************)
(* Scenes that are valid but for their child lists and their size.         *)
(***************************************************************************)

GoodObject(s, f, x) ==
  /\ f = "nodes" =>
       /\ Contains(Ids(s.nodes), x.parent) /\ Contains(Ids(s.meshes), x.mesh)
       /\ Contains(Ids(s.cameras), x.camera) /\ Contains(Ids(s.lights), x.light)
  /\ f = "meshes" => MeshResolves(s, x)
  /\ f = "materials" => MaterialResolves(s, x)
  /\ f = "skeletons" => JointsResolve(x) /\ UniqueIds(x.joints)
  /\ f = "animations" => ChannelsResolve(s, x) /\ \A c \in Range(x.channels) : c.ordered
  /\ f \notin {"nodes", "meshes", "skeletons"} => x.inRange

Fit(s) ==
  /\ \A f \in DOMAIN IdFields : UniqueIds(s[f])
  /\ \A f \in Collections : \A i \in 1..Len(s[f]) : GoodObject(s, f, s[f][i])

LEMMA FamilyNames ==
  DOMAIN IdFields = {"nodes", "meshes", "materials", "textures", "cameras", "lights"}
BY DEF IdFields

LEMMA ObjectsOf ==
  ASSUME NEW s, IsScene(s), NEW f \in Collections
  PROVE  /\ Len(s[f]) \in Nat /\ DOMAIN s[f] = 1..Len(s[f])
         /\ \A i \in 1..Len(s[f]) : s[f][i] \in ObjectType[f] /\ s[f][i] \in Range(s[f])
         /\ \A x \in Range(s[f]) : \E i \in 1..Len(s[f]) : x = s[f][i]
<1>1. s[f] \in Seq(ObjectType[f])
  BY SceneFields
<1> QED BY <1>1 DEF Range

LEMMA ValidIsFit ==
  ASSUME NEW s, IsScene(s), ValidateScene(s)
  PROVE  Fit(s)
<1>1. IdsUnique(s) /\ ReferencesResolve(s) /\ ValuesInRange(s)
  BY DEF ValidateScene
<1>2. \A f \in DOMAIN IdFields : UniqueIds(s[f])
  BY <1>1, FamilyNames DEF IdsUnique
<1>3. ASSUME NEW f \in Collections, NEW i \in 1..Len(s[f]) PROVE GoodObject(s, f, s[f][i])
  <2>1. PICK x : x = s[f][i]
    OBVIOUS
  <2>2. x \in Range(s[f])
    BY <2>1, ObjectsOf
  <2>3. CASE f = "nodes"
    <3>1. NodeResolves(s, x)
      BY <1>1, <2>2, <2>3 DEF ReferencesResolve
    <3> QED BY <2>1, <2>3, <3>1 DEF GoodObject, NodeResolves
  <2>4. CASE f = "meshes"
    BY <1>1, <2>1, <2>2, <2>4 DEF GoodObject, ReferencesResolve
  <2>5. CASE f = "materials"
    BY <1>1, <2>1, <2>2, <2>5 DEF GoodObject, ReferencesResolve, ValuesInRange
  <2>6. CASE f = "skeletons"
    BY <1>1, <2>1, <2>2, <2>6 DEF GoodObject, ReferencesResolve, IdsUnique
  <2>7. CASE f = "animations"
    BY <1>1, <2>1, <2>2, <2>7 DEF GoodObject, ReferencesResolve, ValuesInRange
  <2>8. CASE f \in {"textures", "cameras", "lights"}
    <3>1. x.inRange
      BY <1>1, <2>2, <2>8 DEF ValuesInRange
    <3> QED BY <2>1, <2>8, <3>1 DEF GoodObject
  <2> QED BY <2>3, <2>4, <2>5, <2>6, <2>7, <2>8, CollectionNames
<1> QED BY <1>2, <1>3 DEF Fit

LEMMA FitIsValid ==
  ASSUME NEW s, IsScene(s), Fit(s), WithinLimits(s), MutualLinks(s.nodes)
  PROVE  ValidateScene(s)
<1>1. ASSUME NEW f \in Collections, NEW x \in Range(s[f]) PROVE GoodObject(s, f, x)
  BY ObjectsOf DEF Fit
<1>2. /\ {"nodes", "meshes", "materials", "skeletons", "animations"} \subseteq Collections
      /\ {"textures", "cameras", "lights"} \subseteq Collections
  BY CollectionNames
<1>3. IdsUnique(s)
  <2>1. \A k \in Range(s.skeletons) : UniqueIds(k.joints)
    BY <1>1, <1>2 DEF GoodObject
  <2> QED BY <2>1, FamilyNames DEF Fit, IdsUnique
<1>4. ReferencesResolve(s)
  <2>1. ASSUME NEW n \in Range(s.nodes) PROVE NodeResolves(s, n)
    <3>1. PICK k \in 1..Len(s.nodes) : n = s.nodes[k]
      BY <1>2, ObjectsOf
    <3>2. Range(n.children) = {s.nodes[l].id : l \in {l \in 1..Len(s.nodes) : s.nodes[l].parent = n.id}}
      BY <3>1 DEF MutualLinks
    <3>3. \A c \in Range(n.children) : c \in Ids(s.nodes)
      BY <3>2 DEF Ids
    <3>4. GoodObject(s, "nodes", n)
      BY <1>1, <1>2
    <3> QED BY <3>3, <3>4 DEF GoodObject, NodeResolves, Contains
  <2>2. \A m \in Range(s.meshes) : MeshResolves(s, m)
    BY <1>1, <1>2 DEF GoodObject
  <2>3. \A m \in Range(s.materials) : MaterialResolves(s, m)
    BY <1>1, <1>2 DEF GoodObject
  <2>4. \A k \in Range(s.skeletons) : JointsResolve(k)
    BY <1>1, <1>2 DEF GoodObject
  <2>5. \A a \in Range(s.animations) : ChannelsResolve(s, a)
    BY <1>1, <1>2 DEF GoodObject
  <2> QED BY <2>1, <2>2, <2>3, <2>4, <2>5 DEF ReferencesResolve
<1>5. ValuesInRange(s)
  <2>1. \A f \in {"materials", "animations", "textures", "cameras", "lights"} :
          \A x \in Range(s[f]) : x.inRange
    BY <1>1, <1>2 DEF GoodObject
  <2>2. \A a \in Range(s.animations) : \A c \in Range(a.channels) : c.ordered
    BY <1>1, <1>2 DEF GoodObject
  <2> QED BY <2>1, <2>2 DEF ValuesInRange
<1> QED BY <1>3, <1>4, <1>5 DEF ValidateScene

(* More objects break no reference, nor does rearranging them.             *)
LEMMA MoreIds ==
  ASSUME NEW s, NEW t, NEW f, NEW x, GoodObject(s, f, x),
         \A g \in Collections : Ids(s[g]) \subseteq Ids(t[g])
  PROVE  GoodObject(t, f, x)
<1>1. /\ Ids(s.nodes) \subseteq Ids(t.nodes) /\ Ids(s.meshes) \subseteq Ids(t.meshes)
      /\ Ids(s.materials) \subseteq Ids(t.materials) /\ Ids(s.textures) \subseteq Ids(t.textures)
      /\ Ids(s.cameras) \subseteq Ids(t.cameras) /\ Ids(s.lights) \subseteq Ids(t.lights)
  BY CollectionNames
<1> QED BY <1>1 DEF GoodObject, MeshResolves, MaterialResolves, ChannelsResolve, Contains

LEMMA JointIds ==
  ASSUME NEW k \in SkeletonType
  PROVE  /\ \A id : id \in Ids(k.joints) <=> \E p \in Pairs(k.joints) : p[1] = id
         /\ \A id : id \in Ids(k.joints) <=> \E j \in Range(k.joints) : j.id = id
<1>1. k.joints \in Seq(JointType)
  BY DEF SkeletonType, JointType
<1>2. PICK joints, pairs : joints = k.joints /\ pairs = Pairs(k.joints)
  OBVIOUS
<1>3. \A j \in Range(joints) : <<j.id, j.parent>> \in pairs
  BY <1>2 DEF Pairs
<1>4. \A p \in pairs : \E j \in Range(joints) : p = <<j.id, j.parent>>
  BY <1>2 DEF Pairs
<1>5. Ids(joints) = {j.id : j \in Range(joints)}
  BY <1>1, <1>2 DEF Ids, Range
<1>6. ASSUME NEW id PROVE id \in Ids(joints) <=> \E p \in pairs : p[1] = id
  <2>1. ASSUME id \in Ids(joints) PROVE \E p \in pairs : p[1] = id
    <3>1. PICK j \in Range(joints) : j.id = id
      BY <1>5, <2>1
    <3>2. <<j.id, j.parent>>[1] = id
      BY <3>1
    <3> QED BY <1>3, <3>2
  <2>2. ASSUME NEW p \in pairs, p[1] = id PROVE id \in Ids(joints)
    <3>1. PICK j \in Range(joints) : p = <<j.id, j.parent>>
      BY <1>4
    <3>2. j.id = id
      BY <2>2, <3>1
    <3> QED BY <1>5, <3>2
  <2> QED BY <2>1, <2>2
<1> QED BY <1>2, <1>5, <1>6

LEMMA SameJointIds ==
  ASSUME NEW x \in SkeletonType, NEW y \in SkeletonType, Pairs(y.joints) = Pairs(x.joints)
  PROVE  Ids(y.joints) = Ids(x.joints)
<1>1. PICK a, b, P : a = Ids(x.joints) /\ b = Ids(y.joints) /\ P = Pairs(x.joints)
  OBVIOUS
<1>2. \A id : id \in a <=> \E p \in P : p[1] = id
  BY <1>1, JointIds
<1>3. \A id : id \in b <=> \E p \in P : p[1] = id
  BY <1>1, JointIds
<1>4. a = b
  BY <1>2, <1>3
<1> QED BY <1>1, <1>4

LEMMA JointsAsPairs ==
  ASSUME NEW k \in SkeletonType
  PROVE  JointsResolve(k) <=> \A p \in Pairs(k.joints) : Contains(Ids(k.joints), p[2])
<1>1. PICK joints, pairs : joints = k.joints /\ pairs = Pairs(k.joints)
  OBVIOUS
<1>2. \A j \in Range(joints) : <<j.id, j.parent>> \in pairs
  BY <1>1 DEF Pairs
<1>3. \A p \in pairs : \E j \in Range(joints) : p = <<j.id, j.parent>>
  BY <1>1 DEF Pairs
<1>4. ASSUME \A j \in Range(joints) : Contains(Ids(joints), j.parent), NEW p \in pairs
      PROVE  Contains(Ids(joints), p[2])
  <2>1. PICK j \in Range(joints) : p = <<j.id, j.parent>>
    BY <1>3
  <2>2. p[2] = j.parent
    BY <2>1
  <2> QED BY <1>4, <2>2
<1>5. ASSUME \A p \in pairs : Contains(Ids(joints), p[2]), NEW j \in Range(joints)
      PROVE  Contains(Ids(joints), j.parent)
  <2>1. <<j.id, j.parent>> \in pairs /\ <<j.id, j.parent>>[2] = j.parent
    BY <1>2
  <2> QED BY <1>5, <2>1
<1> QED BY <1>1, <1>4, <1>5 DEF JointsResolve

LEMMA StillGood ==
  ASSUME NEW f \in Collections, NEW x \in ObjectType[f], NEW y \in ObjectType[f], NEW s,
         Alike(f, x, y), GoodObject(s, f, x)
  PROVE  GoodObject(s, f, y)
<1>1. CASE f = "nodes"
  <2>1. x \in NodeType
    BY <1>1 DEF ObjectType
  <2>2. y.parent = x.parent /\ y.mesh = x.mesh /\ y.camera = x.camera /\ y.light = x.light
    BY <1>1, <2>1 DEF Alike, NodeType
  <2> QED BY <1>1, <2>2 DEF GoodObject
<1>2. CASE f = "skeletons"
  <2>1. x \in SkeletonType /\ y \in SkeletonType
    BY <1>2 DEF ObjectType
  <2>2. Pairs(y.joints) = Pairs(x.joints) /\ (UniqueIds(x.joints) => UniqueIds(y.joints))
    BY <1>2 DEF Alike
  <2>3. JointsResolve(x) /\ UniqueIds(x.joints)
    BY <1>2 DEF GoodObject
  <2>4. JointsResolve(y)
    <3>1. Ids(y.joints) = Ids(x.joints)
      BY <2>1, <2>2, SameJointIds
    <3> QED BY <2>1, <2>2, <2>3, <3>1, JointsAsPairs
  <2> QED BY <1>2, <2>2, <2>3, <2>4 DEF GoodObject
<1>3. CASE f \notin {"nodes", "skeletons"}
  BY <1>3 DEF Alike
<1> QED BY <1>1, <1>2, <1>3

LEMMA RearrangedIds ==
  ASSUME NEW s, NEW t, IsScene(s), Rearranged(t, s), NEW f \in Collections
  PROVE  /\ Ids(t[f]) = Ids(s[f])
         /\ UniqueIds(s[f]) => UniqueIds(t[f])
<1>1. PICK p : Rearranges(f, t[f], s[f], p)
  BY DEF Rearranged
<1>2. PICK old, new, n : old = s[f] /\ new = t[f] /\ n = Len(s[f])
  OBVIOUS
<1>3. /\ p \in Bijection(1..n, 1..n) /\ Len(new) = n /\ Len(old) = n
      /\ \A k \in 1..n : Alike(f, old[p[k]], new[k])
  BY <1>1, <1>2 DEF Rearranges
<1>4. /\ \A k \in 1..n : p[k] \in 1..n
      /\ \A i \in 1..n : \E k \in 1..n : p[k] = i
  BY <1>3 DEF Bijection, Injection, Surjection
<1>5. \A k \in 1..n : new[k].id = old[p[k]].id
  <2>1. ASSUME NEW k \in 1..n PROVE new[k].id = old[p[k]].id
    <3>1. old[p[k]] \in ObjectType[f] /\ Alike(f, old[p[k]], new[k])
      BY <1>2, <1>3, <1>4, ObjectsOf
    <3>2. CASE f = "nodes"
      BY <3>1, <3>2 DEF Alike, ObjectType, NodeType
    <3>3. CASE f # "nodes"
      BY <3>1, <3>3 DEF Alike
    <3> QED BY <3>2, <3>3
  <2> QED BY <2>1
<1>6. Ids(new) = Ids(old)
  <2>1. ASSUME NEW id \in Ids(new) PROVE id \in Ids(old)
    BY <1>3, <1>4, <1>5 DEF Ids
  <2>2. ASSUME NEW id \in Ids(old) PROVE id \in Ids(new)
    <3>1. PICK i \in 1..n : id = old[i].id
      BY <1>3 DEF Ids
    <3>2. PICK k \in 1..n : p[k] = i
      BY <1>4
    <3> QED BY <1>3, <1>5, <3>1, <3>2 DEF Ids
  <2> QED BY <2>1, <2>2
<1>7. UniqueIds(old) => UniqueIds(new)
  BY <1>3, <1>5, UniqueAgain
<1> QED BY <1>2, <1>6, <1>7

LEMMA FitRearranged ==
  ASSUME NEW s, NEW t, IsScene(s), Rearranged(t, s), Fit(s)
  PROVE  Fit(t)
<1>1. IsScene(t) /\ DOMAIN IdFields \subseteq Collections
  BY FamilyNames, CollectionNames DEF Rearranged
<1>2. \A f \in DOMAIN IdFields : UniqueIds(t[f])
  BY <1>1, RearrangedIds DEF Fit
<1>3. \A f \in Collections : Ids(s[f]) \subseteq Ids(t[f])
  BY RearrangedIds
<1>4. ASSUME NEW f \in Collections, NEW k \in 1..Len(t[f]) PROVE GoodObject(t, f, t[f][k])
  <2>1. PICK p : Rearranges(f, t[f], s[f], p)
    BY DEF Rearranged
  <2>2. /\ Len(t[f]) = Len(s[f]) /\ p[k] \in 1..Len(s[f])
        /\ Alike(f, s[f][p[k]], t[f][k])
    BY <2>1 DEF Rearranges, Bijection, Injection
  <2>3. s[f][p[k]] \in ObjectType[f] /\ t[f][k] \in ObjectType[f]
    BY <1>1, <2>2, ObjectsOf
  <2>4. GoodObject(s, f, s[f][p[k]])
    BY <2>2 DEF Fit
  <2>5. GoodObject(s, f, t[f][k])
    BY <2>2, <2>3, <2>4, StillGood
  <2> QED BY <1>3, <2>5, MoreIds
<1> QED BY <1>2, <1>4 DEF Fit

(* All ids of a scene are less than a number.                              *)
Below(s, n) ==
  /\ \A f \in Collections : \A id \in Ids(s[f]) : id < n
  /\ \A k \in Range(s.skeletons) : \A id \in Ids(k.joints) : id < n

LEMMA BelowIsAll ==
  ASSUME NEW s, NEW n
  PROVE  Below(s, n) <=> \A id \in AllIds(s) : id < n
<1> DEFINE main == {Ids(s.nodes), Ids(s.meshes), Ids(s.materials), Ids(s.textures),
                    Ids(s.cameras), Ids(s.lights), Ids(s.skeletons), Ids(s.animations)}
           joints == {Ids(k.joints) : k \in Range(s.skeletons)}
<1>1. AllIds(s) = (UNION main) \cup (UNION joints)
  BY DEF AllIds
<1>2. main = {Ids(s[f]) : f \in Collections}
  BY CollectionNames
<1>3. (\A id \in UNION main : id < n) <=> \A f \in Collections : \A id \in Ids(s[f]) : id < n
  BY <1>2
<1>4. (\A id \in UNION joints : id < n) <=> \A k \in Range(s.skeletons) : \A id \in Ids(k.joints) : id < n
  OBVIOUS
<1> HIDE DEF main, joints
<1> QED BY <1>1, <1>3, <1>4 DEF Below

LEMMA BelowRearranged ==
  ASSUME NEW s, NEW t, IsScene(s), Rearranged(t, s), NEW n, Below(s, n)
  PROVE  Below(t, n)
<1>1. IsScene(t) /\ "skeletons" \in Collections
  BY CollectionNames DEF Rearranged
<1>2. \A f \in Collections : \A id \in Ids(t[f]) : id < n
  BY RearrangedIds DEF Below
<1>3. ASSUME NEW y \in Range(t.skeletons), NEW id \in Ids(y.joints) PROVE id < n
  <2>1. PICK p : Rearranges("skeletons", t.skeletons, s.skeletons, p)
    BY <1>1 DEF Rearranged
  <2>2. PICK k \in 1..Len(t.skeletons) : y = t.skeletons[k]
    BY <1>1, ObjectsOf
  <2>3. PICK x : x = s.skeletons[p[k]]
    OBVIOUS
  <2>4. p[k] \in 1..Len(s.skeletons) /\ Alike("skeletons", x, y)
    BY <2>1, <2>2, <2>3 DEF Rearranges, Bijection, Injection
  <2>5. x \in Range(s.skeletons) /\ x \in ObjectType["skeletons"] /\ y \in ObjectType["skeletons"]
    BY <1>1, <2>2, <2>3, <2>4, ObjectsOf
  <2>6. x \in SkeletonType /\ y \in SkeletonType
    BY <2>5 DEF ObjectType
  <2>7. Ids(x.joints) = Ids(y.joints)
    BY <2>4, <2>6, SameJointIds DEF Alike
  <2> QED BY <2>5, <2>7 DEF Below
<1> QED BY <1>2, <1>3 DEF Below

(***************************************************************************)
(* Ids that do not wrap.                                                   *)
(***************************************************************************)

HasRoom(d, e) == d \in Id /\ 0 < d /\ e \in Nat /\ d + e <= IdSpace

LEMMA ShiftedLow ==
  ASSUME NEW d, NEW e, HasRoom(d, e), NEW id \in Id, id < e
  PROVE  /\ Shifted(id, d) = IF id = NoId THEN NoId ELSE id + d
         /\ Shifted(id, d) < d + e
<1>1. PICK n : n = IdSpace
  OBVIOUS
<1>2. /\ n \in Nat \ {0, 1} /\ d \in 0..n - 1 /\ 0 < d /\ e \in Nat /\ d + e <= n
      /\ id \in 0..n - 1
  BY <1>1, SceneAssumption DEF HasRoom, Id
<1>3. id + d \in 0..n - 1
  BY <1>2
<1>4. \A x \in 0..n - 1 : x % n = x
  BY <1>2
<1>5. (id + d) % n = id + d
  BY <1>3, <1>4
<1> QED BY <1>1, <1>2, <1>5 DEF Shifted, NoId

LEMMA MovedId ==
  ASSUME NEW f \in Collections, NEW x \in ObjectType[f], NEW y, NEW d, IsMoved(f, x, y, d)
  PROVE  y.id = Shifted(x.id, d)
<1>1. CASE f \in DOMAIN IdFields
  <2>1. "id" \in IdFields[f] /\ "id" \in DOMAIN x \ {"children"}
    <3>1. "id" \in IdFields[f]
      BY <1>1 DEF IdFields
    <3>2. "id" \in DOMAIN x
      <4>1. CASE f = "nodes"
        BY <4>1 DEF ObjectType, NodeType
      <4>2. CASE f = "meshes"
        BY <4>2 DEF ObjectType, MeshType
      <4>3. CASE f = "materials"
        BY <4>3 DEF ObjectType, MaterialType
      <4>4. CASE f \in {"textures", "cameras", "lights"}
        <5>1. x \in ResourceType
          BY <4>4 DEF ObjectType
        <5> QED BY <5>1 DEF ResourceType
      <4> QED BY <1>1, <4>1, <4>2, <4>3, <4>4, FamilyNames
    <3> QED BY <3>1, <3>2
  <2> QED BY <1>1, <2>1 DEF IsMoved, Shifted
<1>2. CASE f = "animations"
  BY <1>2 DEF IsMoved, Shifted, IdFields
<1>3. CASE f = "skeletons"
  BY <1>3 DEF IsMoved, Shifted, IdFields
<1> QED BY <1>1, <1>2, <1>3, FamilyNames, CollectionNames

(* The joints of a moved skeleton.                                         *)
LEMMA MovedJoints ==
  ASSUME NEW x \in SkeletonType, NEW y \in SkeletonType, NEW d, NEW e, HasRoom(d, e),
         MovedInPlace("skeletons", x, y, d), \A id \in Ids(x.joints) : id < e
  PROVE  /\ \A id \in Ids(y.joints) : id < d + e
         /\ JointsResolve(x) => JointsResolve(y)
         /\ UniqueIds(x.joints) => UniqueIds(y.joints)
<1>1. PICK a, b, n : a = x.joints /\ b = y.joints /\ n = Len(x.joints)
  OBVIOUS
<1>2. /\ a \in Seq(JointType) /\ Len(a) = n /\ Len(b) = n
      /\ \A c \in 1..n : b[c].id = Shifted(a[c].id, d)
  BY <1>1 DEF MovedInPlace, SkeletonType, JointType
<1>3. \A c \in 1..n : a[c].id \in Id /\ a[c].id < e
  <2>1. ASSUME NEW c \in 1..n PROVE a[c].id \in Id /\ a[c].id \in Ids(a)
    <3>1. a[c] \in JointType
      BY <1>2
    <3> QED BY <1>2, <3>1 DEF Ids, JointType
  <2> QED BY <1>1, <2>1
<1>4. \A c \in 1..n : b[c].id < d + e /\ b[c].id = IF a[c].id = NoId THEN NoId ELSE a[c].id + d
  BY <1>2, <1>3, ShiftedLow
<1>5. \A id \in Ids(b) : id < d + e
  BY <1>2, <1>4 DEF Ids
<1>6. ASSUME UniqueIds(a) PROVE UniqueIds(b)
  <2>1. \A c \in 1..n : a[c].id # NoId /\ a[c].id \in Nat
    BY <1>2, <1>3, <1>6, IdsAreNumbers DEF UniqueIds, Ids
  <2>2. d \in Nat /\ 0 < d
    BY IdsAreNumbers DEF HasRoom
  <2>3. \A c \in 1..n : b[c].id # NoId /\ b[c].id = a[c].id + d
    BY <1>4, <2>1, <2>2 DEF NoId
  <2>4. \A c, k \in 1..n : c # k => b[c].id # b[k].id
    <3>1. \A c, k \in 1..n : c # k => a[c].id # a[k].id
      BY <1>2, <1>6 DEF UniqueIds
    <3> QED BY <2>1, <2>2, <2>3, <3>1
  <2> QED BY <1>2, <2>3, <2>4 DEF UniqueIds, Ids
<1>7. ASSUME JointsResolve(x), NEW p \in Pairs(b) PROVE Contains(Ids(b), p[2])
  <2>1. Pairs(b) = {<<Shifted(j.id, d), Shifted(j.parent, d)>> : j \in Range(a)}
    BY <1>1 DEF MovedInPlace, IsMoved, IdFields, Shifted, Pairs
  <2>2. PICK j \in Range(a) : p = <<Shifted(j.id, d), Shifted(j.parent, d)>>
    BY <2>1
  <2>3. p[2] = Shifted(j.parent, d)
    BY <2>2
  <2>4. j.parent = NoId \/ \E c \in 1..n : a[c].id = j.parent
    BY <1>1, <1>2, <1>7 DEF JointsResolve, Contains, Ids
  <2>5. CASE j.parent = NoId
    BY <2>3, <2>5 DEF Shifted, Contains
  <2>6. CASE j.parent # NoId
    <3>1. PICK c \in 1..n : a[c].id = j.parent
      BY <2>4, <2>6
    <3>2. b[c].id = p[2] /\ b[c].id \in Ids(b)
      BY <1>2, <2>3, <3>1 DEF Ids
    <3> QED BY <3>2 DEF Contains
  <2> QED BY <2>5, <2>6
<1> QED BY <1>1, <1>5, <1>6, <1>7, JointsAsPairs

(* A moved object is as good as it was, where what it refers to moved too. *)
LEMMA MovedGood ==
  ASSUME NEW f \in Collections, NEW x \in ObjectType[f], NEW y \in ObjectType[f],
         NEW d, NEW e, HasRoom(d, e), NEW right, NEW m,
         MovedInPlace(f, x, y, d), GoodObject(right, f, x),
         f = "skeletons" => \A id \in Ids(x.joints) : id < e,
         \A g \in Collections : \A id \in Ids(right[g]) : Shifted(id, d) \in Ids(m[g])
  PROVE  GoodObject(m, f, y)
<1>1. ASSUME NEW g \in Collections, NEW id, Contains(Ids(right[g]), id)
      PROVE  Contains(Ids(m[g]), Shifted(id, d))
  BY <1>1 DEF Contains, Shifted
<1>2. {"nodes", "meshes", "materials", "textures", "cameras", "lights"} \subseteq Collections
  BY CollectionNames
<1>3. IsMoved(f, x, y, d)
  BY DEF MovedInPlace
<1>4. CASE f = "nodes"
  <2>1. x \in NodeType
    BY <1>4 DEF ObjectType
  <2>2. /\ y.parent = Shifted(x.parent, d) /\ y.mesh = Shifted(x.mesh, d)
        /\ y.camera = Shifted(x.camera, d) /\ y.light = Shifted(x.light, d)
    BY <1>3, <1>4, <2>1 DEF IsMoved, IdFields, Shifted, NodeType
  <2>3. /\ Contains(Ids(right.nodes), x.parent) /\ Contains(Ids(right.meshes), x.mesh)
        /\ Contains(Ids(right.cameras), x.camera) /\ Contains(Ids(right.lights), x.light)
    BY <1>4 DEF GoodObject
  <2>4. /\ Contains(Ids(m.nodes), y.parent) /\ Contains(Ids(m.meshes), y.mesh)
        /\ Contains(Ids(m.cameras), y.camera) /\ Contains(Ids(m.lights), y.light)
    BY <1>1, <1>2, <2>2, <2>3
  <2> QED BY <1>4, <2>4 DEF GoodObject
<1>5. CASE f = "meshes"
  <2>1. x \in MeshType
    BY <1>5 DEF ObjectType
  <2>2. y.material = Shifted(x.material, d) /\ y.vertices = x.vertices /\ y.indices = x.indices
    BY <1>3, <1>5, <2>1 DEF IsMoved, IdFields, Shifted, MeshType
  <2>3. MeshResolves(right, x)
    BY <1>5 DEF GoodObject
  <2>4. Contains(Ids(m.materials), y.material)
    BY <1>1, <1>2, <2>2, <2>3 DEF MeshResolves
  <2> QED BY <1>5, <2>2, <2>3, <2>4 DEF GoodObject, MeshResolves
<1>6. CASE f = "materials"
  <2>1. x \in MaterialType
    BY <1>6 DEF ObjectType
  <2>2. y.texture = Shifted(x.texture, d) /\ y.inRange = x.inRange
    BY <1>3, <1>6, <2>1 DEF IsMoved, IdFields, Shifted, MaterialType
  <2>3. MaterialResolves(right, x) /\ x.inRange
    BY <1>6 DEF GoodObject
  <2>4. Contains(Ids(m.textures), y.texture)
    BY <1>1, <1>2, <2>2, <2>3 DEF MaterialResolves
  <2> QED BY <1>6, <2>2, <2>3, <2>4 DEF GoodObject, MaterialResolves
<1>7. CASE f \in {"textures", "cameras", "lights"}
  <2>1. x \in ResourceType
    BY <1>7 DEF ObjectType
  <2>2. CASE f = "textures"
    BY <1>3, <2>1, <2>2 DEF IsMoved, IdFields, Shifted, ResourceType, GoodObject
  <2>3. CASE f = "cameras"
    BY <1>3, <2>1, <2>3 DEF IsMoved, IdFields, Shifted, ResourceType, GoodObject
  <2>4. CASE f = "lights"
    BY <1>3, <2>1, <2>4 DEF IsMoved, IdFields, Shifted, ResourceType, GoodObject
  <2> QED BY <1>7, <2>2, <2>3, <2>4
<1>8. CASE f = "skeletons"
  <2>1. x \in SkeletonType /\ y \in SkeletonType
    BY <1>8 DEF ObjectType
  <2>2. JointsResolve(x) /\ UniqueIds(x.joints)
    BY <1>8 DEF GoodObject
  <2>3. JointsResolve(y) /\ UniqueIds(y.joints)
    BY <1>8, <2>1, <2>2, MovedJoints
  <2> QED BY <1>8, <2>3 DEF GoodObject
<1>9. CASE f = "animations"
  <2> DEFINE Channel == [target : Id, ordered : BOOLEAN]
  <2>1. x.channels \in Seq(Channel) /\ y.channels \in Seq(Channel)
    BY <1>9 DEF ObjectType, AnimationType
  <2> HIDE DEF Channel
  <2>2. PICK a, b, n : a = x.channels /\ b = y.channels /\ n = Len(a)
    OBVIOUS
  <2>3. DOMAIN a = 1..n /\ DOMAIN b = 1..Len(b)
    BY <2>1, <2>2
  <2>4. /\ Len(b) = n /\ y.inRange = x.inRange
        /\ \A c \in 1..n : b[c].ordered = a[c].ordered /\ b[c].target = Shifted(a[c].target, d)
    BY <1>3, <1>9, <2>2, <2>3 DEF IsMoved, MovedInPlace, IdFields, Shifted
  <2>5. x.inRange /\ \A c \in 1..n : a[c].ordered /\ Contains(Ids(right.nodes), a[c].target)
    BY <1>9, <2>2, <2>3 DEF GoodObject, ChannelsResolve, Range
  <2>6. \A c \in 1..n : b[c].ordered /\ Contains(Ids(m.nodes), b[c].target)
    BY <1>1, <1>2, <2>4, <2>5
  <2>7. \A c \in Range(b) : c.ordered /\ Contains(Ids(m.nodes), c.target)
    BY <2>3, <2>4, <2>6 DEF Range
  <2> QED BY <1>9, <2>2, <2>4, <2>5, <2>7 DEF GoodObject, ChannelsResolve
<1> QED BY <1>4, <1>5, <1>6, <1>7, <1>8, <1>9, CollectionNames

(***************************************************************************)
(* Putting two fit scenes together.                                        *)
(***************************************************************************)

Vertices == [x \in MeshType |-> x.vertices]
Indices == [x \in MeshType |-> Len(x.indices)]

LEMMA MeshSums ==
  ASSUME NEW s, IsScene(s)
  PROVE  /\ s.meshes \in Seq(MeshType) /\ Vertices \in [MeshType -> Nat] /\ Indices \in [MeshType -> Nat]
         /\ VertexCount(s) = TotalOf(Sizes(s.meshes, Vertices))
         /\ IndexCount(s) = TotalOf(Sizes(s.meshes, Indices))
<1>1. s.meshes \in Seq(MeshType)
  BY DEF IsScene
<1>2. \A i \in 1..Len(s.meshes) : s.meshes[i] \in MeshType
  BY <1>1
<1>3. Vertices \in [MeshType -> Nat]
  BY DEF Vertices, MeshType
<1>4. Indices \in [MeshType -> Nat]
  <2>1. \A x \in MeshType : x.indices \in Seq(Nat)
    BY DEF MeshType
  <2>2. \A q \in Seq(Nat) : Len(q) \in Nat
    OBVIOUS
  <2> QED BY <2>1, <2>2 DEF Indices
<1>5. Sizes(s.meshes, Vertices) = Mapped(s.meshes, LAMBDA m : m.vertices)
  BY <1>2 DEF Sizes, Vertices, Mapped
<1>6. Sizes(s.meshes, Indices) = Mapped(s.meshes, LAMBDA m : Len(m.indices))
  BY <1>2 DEF Sizes, Indices, Mapped
<1> QED BY <1>1, <1>3, <1>4, <1>5, <1>6 DEF VertexCount, IndexCount, Total

(* The sizes the validator bounds.                                         *)
Counts(s, nodes, vertices, indices) ==
  /\ nodes \in Nat /\ vertices \in Nat /\ indices \in Nat
  /\ Len(s.nodes) = nodes /\ VertexCount(s) = vertices /\ IndexCount(s) = indices

LEMMA HasCounts ==
  ASSUME NEW s, IsScene(s)
  PROVE  Counts(s, Len(s.nodes), VertexCount(s), IndexCount(s))
<1>1. /\ s.meshes \in Seq(MeshType) /\ Vertices \in [MeshType -> Nat] /\ Indices \in [MeshType -> Nat]
      /\ VertexCount(s) = TotalOf(Sizes(s.meshes, Vertices))
      /\ IndexCount(s) = TotalOf(Sizes(s.meshes, Indices))
  BY MeshSums
<1>2. ASSUME NEW size \in [MeshType -> Nat] PROVE TotalOf(Sizes(s.meshes, size)) \in Nat
  <2>1. PICK n, S : n = Len(s.meshes) /\ S = 1..n
    OBVIOUS
  <2>2. Sizes(s.meshes, size) \in [S -> Nat] /\ IsFiniteSet(S)
    BY <1>1, <2>1, Interval DEF Sizes
  <2> QED BY <2>2, FinitelyMany
<1>3. Len(s.nodes) \in Nat
  BY DEF IsScene
<1> QED BY <1>1, <1>2, <1>3 DEF Counts

LEMMA CountsRearranged ==
  ASSUME NEW s, NEW t, IsScene(s), Rearranged(t, s), NEW n, NEW v, NEW i, Counts(s, n, v, i)
  PROVE  Counts(t, n, v, i)
<1>1. IsScene(t) /\ "nodes" \in Collections /\ "meshes" \in Collections
  BY CollectionNames DEF Rearranged
<1>2. PICK p : Rearranges("meshes", t.meshes, s.meshes, p)
  BY <1>1 DEF Rearranged
<1>3. Len(t.nodes) = Len(s.nodes)
  BY <1>1 DEF Rearranged, Rearranges
<1>4. PICK old, new : old = s.meshes /\ new = t.meshes
  OBVIOUS
<1>5. /\ Len(new) = Len(old) /\ p \in Bijection(1..Len(old), 1..Len(old))
      /\ \A k \in 1..Len(old) : new[k] = old[p[k]]
  BY <1>2, <1>4 DEF Rearranges, Alike
<1>6. /\ old \in Seq(MeshType) /\ Vertices \in [MeshType -> Nat] /\ Indices \in [MeshType -> Nat]
      /\ VertexCount(s) = TotalOf(Sizes(old, Vertices))
      /\ IndexCount(s) = TotalOf(Sizes(old, Indices))
  BY <1>4, MeshSums
<1>7. /\ VertexCount(t) = TotalOf(Sizes(new, Vertices))
      /\ IndexCount(t) = TotalOf(Sizes(new, Indices))
  BY <1>1, <1>4, MeshSums
<1>8. \A size \in [MeshType -> Nat] : TotalOf(Sizes(new, size)) = TotalOf(Sizes(old, size))
  BY <1>5, <1>6, TotalOfRearranged
<1> QED BY <1>3, <1>6, <1>7, <1>8 DEF Counts

LEMMA BaseCounts ==
  ASSUME NEW left, NEW right, IsScene(left), IsScene(right), NEW m, NEW d, BaseIs(m, left, right, d),
         NEW n, NEW v, NEW i, Counts(left, n, v, i), NEW o, NEW w, NEW j, Counts(right, o, w, j)
  PROVE  Counts(m, n + o, v + w, i + j)
<1>1. IsScene(m) /\ "nodes" \in Collections /\ "meshes" \in Collections
  BY CollectionNames DEF BaseIs
<1>2. PICK a, b, c : a = left.meshes /\ b = right.meshes /\ c = m.meshes
  OBVIOUS
<1>3. /\ Len(c) = Len(a) + Len(b) /\ Len(m.nodes) = Len(left.nodes) + Len(right.nodes)
      /\ \A k \in 1..Len(a) : c[k] = a[k]
      /\ \A k \in 1..Len(b) : Len(a) + k \in 1..Len(c) /\ MovedInPlace("meshes", b[k], c[Len(a) + k], d)
  BY <1>1, <1>2 DEF BaseIs
<1>4. a \in Seq(MeshType) /\ b \in Seq(MeshType) /\ c \in Seq(MeshType)
  BY <1>1, <1>2, MeshSums
<1>5. ASSUME NEW k \in 1..Len(b)
      PROVE  /\ c[Len(a) + k] \in MeshType /\ c[Len(a) + k].vertices = b[k].vertices
             /\ c[Len(a) + k].indices = b[k].indices
  <2>1. PICK x, y : x = b[k] /\ y = c[Len(a) + k]
    OBVIOUS
  <2>2. x \in MeshType /\ y \in MeshType /\ IsMoved("meshes", x, y, d)
    BY <1>3, <1>4, <2>1 DEF MovedInPlace
  <2> QED BY <2>1, <2>2 DEF IsMoved, IdFields, MeshType
<1>6. ASSUME NEW size \in [MeshType -> Nat],
             \A k \in 1..Len(b) : size[c[Len(a) + k]] = size[b[k]]
      PROVE  TotalOf(Sizes(c, size)) = TotalOf(Sizes(a, size)) + TotalOf(Sizes(b, size))
  <2>1. \A k \in 1..Len(a) : c[k] \in MeshType /\ size[c[k]] = size[a[k]]
    BY <1>3, <1>4
  <2>2. \A k \in 1..Len(b) : c[Len(a) + k] \in MeshType /\ size[c[Len(a) + k]] = size[b[k]]
    BY <1>5, <1>6
  <2>3. PICK S : S = MeshType
    OBVIOUS
  <2>4. size \in [S -> Nat] /\ a \in Seq(S) /\ b \in Seq(S) 
    BY <1>4, <1>6, <2>3
  <2>5. JoinsSizes(c, a, b, size, S)
    BY <1>3, <2>1, <2>2, <2>3 DEF JoinsSizes
  <2> QED BY <2>4, <2>5, TotalOfJoined
<1>7. \A k \in 1..Len(b) : b[k] \in MeshType
  BY <1>4
<1>8. TotalOf(Sizes(c, Vertices)) = TotalOf(Sizes(a, Vertices)) + TotalOf(Sizes(b, Vertices))
  <2>1. \A k \in 1..Len(b) : Vertices[c[Len(a) + k]] = Vertices[b[k]]
    BY <1>5, <1>7 DEF Vertices
  <2> QED BY <1>1, <1>6, <2>1, MeshSums
<1>9. TotalOf(Sizes(c, Indices)) = TotalOf(Sizes(a, Indices)) + TotalOf(Sizes(b, Indices))
  <2>1. \A k \in 1..Len(b) : Indices[c[Len(a) + k]] = Indices[b[k]]
    BY <1>5, <1>7 DEF Indices
  <2> QED BY <1>1, <1>6, <2>1, MeshSums
<1>10. /\ VertexCount(m) = VertexCount(left) + VertexCount(right)
       /\ IndexCount(m) = IndexCount(left) + IndexCount(right)
  BY <1>1, <1>2, <1>8, <1>9, MeshSums
<1> QED BY <1>3, <1>10 DEF Counts

LEMMA BasePlaces ==
  ASSUME NEW left, NEW right, IsScene(left), IsScene(right), NEW m, NEW d, BaseIs(m, left, right, d),
         NEW f \in Collections, NEW k \in 1..Len(m[f])
  PROVE  \/ k \in 1..Len(left[f]) /\ m[f][k] = left[f][k]
         \/ \E i \in 1..Len(right[f]) : /\ k = Len(left[f]) + i /\ IsMoved(f, right[f][i], m[f][k], d)
                                        /\ MovedInPlace(f, right[f][i], m[f][k], d)
<1>1. PICK a, b : a = Len(left[f]) /\ b = Len(right[f])
  OBVIOUS
<1>2. a \in Nat /\ b \in Nat /\ Len(m[f]) = a + b
  BY <1>1, ObjectsOf DEF BaseIs
<1>3. CASE k \in 1..a
  BY <1>1, <1>3 DEF BaseIs
<1>4. CASE k \notin 1..a
  <2>1. k - a \in 1..b /\ k = a + (k - a)
    BY <1>2, <1>4
  <2>2. PICK i \in 1..b : k = a + i
    BY <2>1
  <2>3. MovedInPlace(f, right[f][i], m[f][a + i], d)
    BY <1>1, <2>2 DEF BaseIs
  <2> QED BY <1>1, <2>2, <2>3 DEF MovedInPlace
<1> QED BY <1>3, <1>4

(* The ids of both, those of the right scene moved past those of the left. *)
Apart(left, right, d, e) ==
  /\ IsScene(left) /\ IsScene(right) /\ HasRoom(d, e)
  /\ Below(left, d) /\ Below(right, e)

LEMMA IdsOfObjects ==
  ASSUME NEW s, IsScene(s), NEW f \in Collections, NEW n, Below(s, n)
  PROVE  \A i \in 1..Len(s[f]) : s[f][i].id \in Ids(s[f]) /\ s[f][i].id \in Id /\ s[f][i].id < n
<1>1. ASSUME NEW i \in 1..Len(s[f]) PROVE s[f][i].id \in Ids(s[f]) /\ s[f][i].id \in Id
  <2>1. s[f][i] \in ObjectType[f]
    BY ObjectsOf
  <2> QED BY <2>1, IdsAreNumbers DEF Ids
<1> QED BY <1>1 DEF Below

LEMMA BaseIds ==
  ASSUME NEW left, NEW right, NEW d, NEW e, Apart(left, right, d, e), NEW m, BaseIs(m, left, right, d),
         NEW f \in Collections
  PROVE  /\ Ids(left[f]) \subseteq Ids(m[f])
         /\ \A id \in Ids(right[f]) : Shifted(id, d) \in Ids(m[f])
         /\ \A id \in Ids(m[f]) : id < d + e
         /\ UniqueIds(left[f]) /\ UniqueIds(right[f]) => UniqueIds(m[f])
<1>1. PICK L, R, M, a, b : /\ L = left[f] /\ R = right[f] /\ M = m[f] /\ a = Len(left[f]) /\ b = Len(right[f])
  OBVIOUS
<1>2. /\ IsScene(left) /\ IsScene(right) /\ HasRoom(d, e) /\ d \in Nat /\ 0 < d /\ e \in Nat
      /\ Below(left, d) /\ Below(right, e)
  BY IdsAreNumbers DEF Apart, HasRoom
<1>3. a \in Nat /\ b \in Nat /\ Len(M) = a + b
  BY <1>1, <1>2, ObjectsOf DEF BaseIs
<1>4. \A k \in 1..a : k \in 1..a + b /\ M[k].id = L[k].id
  BY <1>1, <1>3 DEF BaseIs
<1>5. \A i \in 1..b : /\ R[i].id \in Ids(R) /\ R[i].id \in Nat
                      /\ R[i].id < e /\ a + i \in 1..a + b
                      /\ M[a + i].id = IF R[i].id = NoId THEN NoId ELSE R[i].id + d
                      /\ M[a + i].id = Shifted(R[i].id, d)
  <2>1. ASSUME NEW i \in 1..b
        PROVE  /\ R[i].id \in Ids(R) /\ R[i].id \in Nat /\ R[i].id < e
               /\ a + i \in 1..a + b /\ M[a + i].id = Shifted(R[i].id, d)
               /\ M[a + i].id = IF R[i].id = NoId THEN NoId ELSE R[i].id + d
    <3>1. R[i].id \in Ids(R) /\ R[i].id \in Id /\ R[i].id < e /\ R[i].id \in Nat
      BY <1>1, <1>2, IdsOfObjects, IdsAreNumbers
    <3>2. R[i] \in ObjectType[f] /\ IsMoved(f, R[i], M[a + i], d)
      BY <1>1, <1>2, ObjectsOf DEF BaseIs, MovedInPlace
    <3>3. M[a + i].id = Shifted(R[i].id, d)
      BY <3>2, MovedId
    <3>4. a + i \in 1..a + b
      BY <1>3
    <3>5. Shifted(R[i].id, d) = IF R[i].id = NoId THEN NoId ELSE R[i].id + d
      BY <1>2, <3>1, ShiftedLow
    <3> QED BY <3>1, <3>3, <3>4, <3>5
  <2> QED BY <2>1
<1>6. \A k \in 1..a : L[k].id \in Nat /\ L[k].id < d /\ L[k].id \in Ids(L)
  BY <1>1, <1>2, IdsOfObjects, IdsAreNumbers
<1>7. \A k \in 1..a + b : k \in 1..a \/ \E i \in 1..b : k = a + i
  <2>1. ASSUME NEW k \in 1..a + b, k \notin 1..a PROVE \E i \in 1..b : k = a + i
    <3>1. k - a \in 1..b /\ k = a + (k - a)
      BY <1>3, <2>1
    <3> QED BY <3>1
  <2> QED BY <2>1
<1>8. Ids(L) \subseteq Ids(M)
  BY <1>1, <1>3, <1>4 DEF Ids
<1>9. \A id \in Ids(R) : Shifted(id, d) \in Ids(M)
  <2>1. ASSUME NEW id \in Ids(R) PROVE Shifted(id, d) \in Ids(M)
    <3>1. PICK i \in 1..b : id = R[i].id
      BY <1>1 DEF Ids
    <3>2. a + i \in 1..Len(M) /\ M[a + i].id = Shifted(id, d)
      BY <1>3, <1>5, <3>1
    <3> QED BY <3>2 DEF Ids
  <2> QED BY <2>1
<1>10. \A k \in 1..a + b : M[k].id < d + e
  <2>1. ASSUME NEW k \in 1..a + b PROVE M[k].id < d + e
    <3>1. CASE k \in 1..a
      <4>1. M[k].id \in Nat /\ M[k].id < d
        BY <1>4, <1>6, <3>1
      <4> QED BY <1>2, <4>1
    <3>2. ASSUME NEW i \in 1..b, k = a + i PROVE M[k].id < d + e
      <4>1. PICK x : x = R[i].id
        OBVIOUS
      <4>2. x \in Nat /\ x < e /\ M[k].id = IF x = 0 THEN 0 ELSE x + d
        BY <1>5, <3>2, <4>1 DEF NoId
      <4> QED BY <1>2, <4>2
    <3> QED BY <1>7, <3>1, <3>2
  <2> QED BY <2>1
<1>11. \A id \in Ids(M) : id < d + e
  BY <1>3, <1>10 DEF Ids
<1>12. ASSUME UniqueIds(L), UniqueIds(R) PROVE UniqueIds(M)
  <2>1. /\ \A k \in 1..a : L[k].id # NoId
        /\ \A k, l \in 1..a : k # l => L[k].id # L[l].id
    BY <1>1, <1>12 DEF UniqueIds, Ids
  <2>2. /\ \A i \in 1..b : R[i].id # NoId
        /\ \A i, j \in 1..b : i # j => R[i].id # R[j].id
    BY <1>1, <1>12 DEF UniqueIds, Ids
  <2>3. /\ \A k \in 1..a : M[k].id # NoId /\ M[k].id \in Nat /\ M[k].id < d
        /\ \A k, l \in 1..a : k # l => M[k].id # M[l].id
    BY <1>4, <1>6, <2>1
  <2>4. /\ \A i \in 1..b : M[a + i].id # NoId /\ M[a + i].id \in Nat /\ d < M[a + i].id
        /\ \A i, j \in 1..b : i # j => M[a + i].id # M[a + j].id
    <3>1. \A i \in 1..b : R[i].id # 0 /\ R[i].id \in Nat /\ M[a + i].id = R[i].id + d
      BY <1>5, <2>2 DEF NoId
    <3>2. \A i, j \in 1..b : i # j => R[i].id # R[j].id
      BY <2>2
    <3> QED BY <1>2, <3>1, <3>2 DEF NoId
  <2>5. ASSUME NEW k \in 1..a + b PROVE M[k].id # NoId
    BY <1>7, <2>3, <2>4
  <2>6. ASSUME NEW k \in 1..a + b, NEW l \in 1..a + b, k # l PROVE M[k].id # M[l].id
    <3>1. CASE k \in 1..a /\ l \in 1..a
      BY <2>3, <2>6, <3>1
    <3>2. ASSUME NEW i \in 1..b, k = a + i, l \in 1..a PROVE M[k].id # M[l].id
      BY <1>2, <2>3, <2>4, <3>2
    <3>3. ASSUME NEW i \in 1..b, l = a + i, k \in 1..a PROVE M[k].id # M[l].id
      BY <1>2, <2>3, <2>4, <3>3
    <3>4. ASSUME NEW i \in 1..b, NEW j \in 1..b, k = a + i, l = a + j PROVE M[k].id # M[l].id
      BY <2>4, <2>6, <3>4
    <3> QED BY <1>7, <3>1, <3>2, <3>3, <3>4
  <2> QED BY <1>3, <2>5, <2>6 DEF UniqueIds, Ids
<1> QED BY <1>1, <1>8, <1>9, <1>11, <1>12

LEMMA BaseFits ==
  ASSUME NEW left, NEW right, NEW d, NEW e, Apart(left, right, d, e), NEW m, BaseIs(m, left, right, d),
         Fit(left), Fit(right)
  PROVE  Fit(m) /\ Below(m, d + e)
<1>1. /\ IsScene(left) /\ IsScene(right) /\ IsScene(m) /\ HasRoom(d, e)
      /\ Below(left, d) /\ Below(right, e)
  BY DEF Apart, BaseIs
<1>2. /\ \A f \in Collections : Ids(left[f]) \subseteq Ids(m[f])
      /\ \A f \in Collections : \A id \in Ids(right[f]) : Shifted(id, d) \in Ids(m[f])
      /\ \A f \in Collections : \A id \in Ids(m[f]) : id < d + e
      /\ \A f \in Collections : UniqueIds(left[f]) /\ UniqueIds(right[f]) => UniqueIds(m[f])
  BY BaseIds
<1>3. \A f \in DOMAIN IdFields : UniqueIds(m[f])
  BY <1>2, FamilyNames, CollectionNames DEF Fit
<1>4. \A k \in Range(right.skeletons) : \A id \in Ids(k.joints) : id < e
  BY <1>1 DEF Below
<1>5. "skeletons" \in Collections
  BY CollectionNames
<1>6. ASSUME NEW f \in Collections, NEW i \in 1..Len(m[f]) PROVE GoodObject(m, f, m[f][i])
  <2>1. CASE i \in 1..Len(left[f]) /\ m[f][i] = left[f][i]
    <3>1. GoodObject(left, f, m[f][i])
      BY <2>1 DEF Fit
    <3> QED BY <1>2, <3>1, MoreIds
  <2>2. ASSUME NEW l \in 1..Len(right[f]), MovedInPlace(f, right[f][l], m[f][i], d)
        PROVE  GoodObject(m, f, m[f][i])
    <3>1. PICK x, y : x = right[f][l] /\ y = m[f][i]
      OBVIOUS
    <3>2. x \in ObjectType[f] /\ y \in ObjectType[f] /\ x \in Range(right[f])
      BY <1>1, <3>1, ObjectsOf
    <3>3. GoodObject(right, f, x) /\ MovedInPlace(f, x, y, d)
      BY <2>2, <3>1 DEF Fit
    <3>4. f = "skeletons" => \A id \in Ids(x.joints) : id < e
      BY <1>4, <3>2
    <3> QED BY <1>1, <1>2, <3>1, <3>2, <3>3, <3>4, MovedGood
  <2> QED BY <1>1, <2>1, <2>2, BasePlaces
<1>7. ASSUME NEW y \in Range(m.skeletons), NEW id \in Ids(y.joints) PROVE id < d + e
  <2>1. PICK i \in 1..Len(m.skeletons) : y = m.skeletons[i]
    BY <1>1, <1>5, ObjectsOf
  <2>2. y \in ObjectType["skeletons"]
    BY <1>1, <1>5, <2>1, ObjectsOf
  <2>3. y \in SkeletonType
    BY <2>2 DEF ObjectType
  <2>4. CASE i \in 1..Len(left.skeletons) /\ y = left.skeletons[i]
    <3>1. y \in Range(left.skeletons)
      BY <1>1, <1>5, <2>4, ObjectsOf
    <3>2. id < d
      BY <1>1, <3>1 DEF Below
    <3>3. id \in Nat
      <4>1. PICK j \in Range(y.joints) : j.id = id
        BY <2>3, JointIds
      <4>2. y.joints \in Seq(JointType)
        BY <2>3 DEF SkeletonType, JointType
      <4>3. j \in JointType
        BY <4>1, <4>2 DEF Range
      <4> QED BY <4>1, <4>3, IdsAreNumbers DEF JointType
    <3>4. d \in Nat /\ e \in Nat
      BY <1>1, IdsAreNumbers DEF HasRoom
    <3> QED BY <3>2, <3>3, <3>4
  <2>5. ASSUME NEW l \in 1..Len(right.skeletons), MovedInPlace("skeletons", right.skeletons[l], y, d)
        PROVE  id < d + e
    <3>1. PICK x : x = right.skeletons[l]
      OBVIOUS
    <3>2. x \in ObjectType["skeletons"] /\ x \in Range(right.skeletons)
      BY <1>1, <1>5, <3>1, ObjectsOf
    <3>3. x \in SkeletonType
      BY <3>2 DEF ObjectType
    <3>4. \A j \in Ids(x.joints) : j < e
      BY <1>4, <3>2
    <3> QED BY <1>1, <2>3, <2>5, <3>1, <3>3, <3>4, MovedJoints
  <2> QED BY <1>1, <1>5, <2>1, <2>4, <2>5, BasePlaces
<1> QED BY <1>2, <1>3, <1>6, <1>7 DEF Fit, Below

(* The lowest number above all ids.                                        *)
LEMMA TopIdIs ==
  ASSUME NEW s, IsScene(s)
  PROVE  /\ MaxObjectId(s) = TopId(s) /\ TopId(s) \in Nat
         /\ Below(s, TopId(s) + 1)
         /\ \A n \in Nat \ {0} : Below(s, n) => TopId(s) < n
<1>1. PICK A, m : A = AllIds(s) /\ m = TopId(s)
  OBVIOUS
<1>2. MaxObjectId(s) = m
  BY <1>1 DEF MaxObjectId, TopId
<1>3. m \in A \cup {0} /\ m \in Nat /\ \A id \in A : id \in Nat /\ id <= m
  BY <1>1, <1>2, HighestId
<1>4. \A id \in A : id < m + 1
  BY <1>3
<1>5. \A n \in Nat \ {0} : (\A id \in A : id < n) => m < n
  BY <1>3
<1>6. Below(s, m + 1)
  BY <1>1, <1>4, BelowIsAll
<1>7. \A n \in Nat \ {0} : Below(s, n) => m < n
  BY <1>1, <1>5, BelowIsAll
<1> QED BY <1>1, <1>2, <1>3, <1>6, <1>7

(* What is known of a scene that more will be merged into.                 *)
Ready(s, n, nodes, vertices, indices) ==
  IsScene(s) /\ Fit(s) /\ n \in Nat \ {0} /\ Below(s, n) /\ Counts(s, nodes, vertices, indices)

LEMMA ReadyRearranged ==
  ASSUME NEW s, NEW t, NEW n, NEW o, NEW v, NEW i, Ready(s, n, o, v, i), Rearranged(t, s)
  PROVE  Ready(t, n, o, v, i)
<1>1. IsScene(s) /\ IsScene(t)
  BY DEF Ready, Rearranged
<1>2. Fit(t) /\ Below(t, n) /\ Counts(t, o, v, i)
  BY <1>1, FitRearranged, BelowRearranged, CountsRearranged DEF Ready
<1> QED BY <1>1, <1>2 DEF Ready

LEMMA MergedReady ==
  ASSUME NEW left, NEW right, NEW n, NEW e, n + e <= IdSpace,
         NEW o, NEW v, NEW i, Ready(left, n, o, v, i), NEW p, NEW w, NEW j, Ready(right, e, p, w, j)
  PROVE  /\ Ready(Merged(left, right), n + e, o + p, v + w, i + j)
         /\ MutualLinks(Merged(left, right).nodes)
<1>1. /\ IsScene(left) /\ Fit(left) /\ n \in Nat \ {0} /\ Below(left, n) /\ Counts(left, o, v, i)
      /\ IsScene(right) /\ Fit(right) /\ e \in Nat \ {0} /\ Below(right, e) /\ Counts(right, p, w, j)
  BY DEF Ready
<1>2. PICK d : d = (MaxObjectId(left) + 1) % IdSpace
  OBVIOUS
<1>3. PICK top : top = TopId(left)
  OBVIOUS
<1>4. top \in Nat /\ MaxObjectId(left) = top /\ Below(left, top + 1) /\ top < n
  BY <1>1, <1>3, TopIdIs
<1>5. d = top + 1 /\ d \in Id /\ HasRoom(d, e)
  <2>1. PICK N : N = IdSpace
    OBVIOUS
  <2>2. N \in Nat \ {0, 1} /\ top + 1 \in 1..N - 1 /\ top + 1 + e <= N
    BY <1>1, <1>4, <2>1, SceneAssumption
  <2>3. (top + 1) % N = top + 1
    BY <2>2
  <2>4. d = top + 1
    BY <1>2, <1>4, <2>1, <2>3
  <2> QED BY <1>1, <2>1, <2>2, <2>4 DEF HasRoom, Id
<1>6. PICK s : s = Base(left, right, d)
  OBVIOUS
<1>7. BaseIs(s, left, right, d) /\ IsScene(s)
  <2>1. BaseIs(s, left, right, d)
    BY <1>1, <1>5, <1>6, BaseParts
  <2> QED BY <2>1 DEF BaseIs
<1>8. Apart(left, right, d, e)
  BY <1>1, <1>4, <1>5 DEF Apart
<1>9. Fit(s) /\ Below(s, d + e)
  BY <1>1, <1>7, <1>8, BaseFits
<1>10. Counts(s, o + p, v + w, i + j)
  BY <1>1, <1>7, BaseCounts
<1>11. Below(s, n + e) /\ n + e \in Nat \ {0}
  <2>1. AllIds(s) \subseteq Nat
    BY <1>7, AllIdsAreIds, IdsAreNumbers
  <2>2. \A id \in AllIds(s) : id < d + e
    BY <1>9, BelowIsAll
  <2>3. \A id \in AllIds(s) : id < n + e
    BY <1>1, <1>4, <1>5, <2>1, <2>2
  <2> QED BY <1>1, <2>3, BelowIsAll
<1>12. Ready(s, n + e, o + p, v + w, i + j)
  BY <1>7, <1>9, <1>10, <1>11 DEF Ready
<1>13. PICK m : m = NormalizeScene(s, DefaultNormalization)
  OBVIOUS
<1>14. Merged(left, right) = m
  BY <1>2, <1>6, <1>13 DEF Merged, Base
<1>15. PICK a, b : /\ Rearranged(a, s) /\ Rearranged(b, a) /\ Rearranged(m, b)
                   /\ IsScene(a) /\ Rebuilt(a, b) /\ Sorted(b, m)
  BY <1>7, <1>13, NormalizingRearranges
<1>16. Ready(a, n + e, o + p, v + w, i + j)
  BY <1>12, <1>15, ReadyRearranged
<1>17. Ready(b, n + e, o + p, v + w, i + j)
  BY <1>15, <1>16, ReadyRearranged
<1>18. Ready(m, n + e, o + p, v + w, i + j)
  BY <1>15, <1>17, ReadyRearranged
<1>19. UniqueIds(m.nodes)
  BY <1>18, FamilyNames DEF Ready, Fit
<1> QED BY <1>14, <1>15, <1>18, <1>19, RebuiltAndSorted

(***************************************************************************)
(* Merging scenes that have room for each other.                           *)
(***************************************************************************)

LEMMA TotalOfOne ==
  ASSUME NEW x, NEW sizes, DOMAIN sizes = {x}, sizes[x] \in Nat
  PROVE  TotalOf(sizes) = sizes[x]
<1>1. PICK n : n = sizes[x]
  OBVIOUS
<1>2. Things(sizes) = {x} \X (1..n)
  BY <1>1 DEF Things
<1>3. IsFiniteSet({x}) /\ Cardinality({x}) = 1 /\ IsFiniteSet(1..n) /\ Cardinality(1..n) = n
  BY <1>1, FS_Singleton, Interval
<1>4. Cardinality({x} \X (1..n)) = 1 * n
  <2>1. PICK a, b : a = {x} /\ b = 1..n
    OBVIOUS
  <2>2. Cardinality(a \X b) = Cardinality(a) * Cardinality(b)
    BY <1>3, <2>1, FS_Product
  <2> QED BY <1>3, <2>1, <2>2
<1>5. 1 * n = n
  BY <1>1
<1> QED BY <1>1, <1>2, <1>4, <1>5 DEF TotalOf, Things

(* The sum over the first n keys.                                          *)
FirstKeys(keys, n) == {keys[i] : i \in 1..n}
SumUpTo(sizes, keys, n) == TotalOf(Part(sizes, FirstKeys(keys, n)))

Sums(sizes, keys, N) ==
  /\ TotalOf(sizes) \in Nat
  /\ SumUpTo(sizes, keys, 1) = sizes[keys[1]]
  /\ \A n \in 1..N - 1 : SumUpTo(sizes, keys, n + 1) = SumUpTo(sizes, keys, n) + sizes[keys[n + 1]]
  /\ \A n \in 1..N : SumUpTo(sizes, keys, n) \in Nat /\ SumUpTo(sizes, keys, n) <= TotalOf(sizes)

LEMMA SumsGrow ==
  ASSUME NEW K, NEW N \in Nat \ {0}, NEW keys \in Bijection(1..N, K), NEW sizes \in [K -> Nat]
  PROVE  Sums(sizes, keys, N)
<1>1. /\ \A i \in 1..N : keys[i] \in K
      /\ \A i, j \in 1..N : keys[i] = keys[j] => i = j
      /\ keys \in Surjection(1..N, K)
  BY DEF Bijection, Injection, IsInjective
<1>2. IsFiniteSet(K)
  <2>1. PICK S : S = 1..N
    OBVIOUS
  <2>2. IsFiniteSet(S) /\ keys \in Surjection(S, K)
    BY <1>1, <2>1, Interval
  <2> QED BY <2>2, FS_Surjection
<1>3. \A n \in 1..N : FirstKeys(keys, n) \subseteq K /\ IsFiniteSet(FirstKeys(keys, n))
  <2>1. ASSUME NEW n \in 1..N PROVE FirstKeys(keys, n) \subseteq K
    BY <1>1 DEF FirstKeys
  <2> QED BY <1>2, <2>1, FS_Subset
<1>4. SumUpTo(sizes, keys, 1) = sizes[keys[1]]
  <2>1. FirstKeys(keys, 1) = {keys[1]}
    BY DEF FirstKeys
  <2>2. PICK x, p : x = keys[1] /\ p = Part(sizes, {x})
    OBVIOUS
  <2>3. DOMAIN p = {x} /\ p[x] = sizes[x] /\ sizes[x] \in Nat
    BY <1>1, <2>2 DEF Part
  <2> QED BY <2>1, <2>2, <2>3, TotalOfOne DEF SumUpTo
<1>5. ASSUME NEW n \in 1..N - 1
      PROVE  SumUpTo(sizes, keys, n + 1) = SumUpTo(sizes, keys, n) + sizes[keys[n + 1]]
  <2>1. n \in 1..N /\ n + 1 \in 1..N
    OBVIOUS
  <2>2. PICK x, S, T : x = keys[n + 1] /\ S = FirstKeys(keys, n) /\ T = {x}
    OBVIOUS
  <2>3. S \cap T = {}
    <3>1. \A i \in 1..n : i \in 1..N /\ i # n + 1
      OBVIOUS
    <3> QED BY <1>1, <2>1, <2>2, <3>1 DEF FirstKeys
  <2>4. FirstKeys(keys, n + 1) = S \cup T
    <3>1. \A i : i \in 1..n + 1 <=> i \in 1..n \/ i = n + 1
      OBVIOUS
    <3> QED BY <2>2, <3>1 DEF FirstKeys
  <2>5. IsFiniteSet(S) /\ IsFiniteSet(T) /\ S \cup T \subseteq K /\ x \in K
    BY <1>1, <1>3, <2>1, <2>2, FS_Singleton
  <2>6. PICK p : p = Part(sizes, S \cup T)
    OBVIOUS
  <2>7. p \in [S \cup T -> Nat] /\ Part(p, S) = Part(sizes, S) /\ Part(p, T) = Part(sizes, T)
    BY <2>5, <2>6 DEF Part
  <2>8. TotalOf(p) = TotalOf(Part(p, S)) + TotalOf(Part(p, T))
    BY <2>3, <2>5, <2>7, TotalSplits
  <2>9. TotalOf(Part(sizes, T)) = sizes[x]
    <3>1. PICK q : q = Part(sizes, T)
      OBVIOUS
    <3>2. DOMAIN q = {x} /\ q[x] = sizes[x] /\ sizes[x] \in Nat
      BY <2>2, <2>5, <3>1 DEF Part
    <3> QED BY <3>1, <3>2, TotalOfOne
  <2> QED BY <2>2, <2>4, <2>6, <2>7, <2>8, <2>9 DEF SumUpTo
<1>6. ASSUME NEW n \in 1..N
      PROVE  SumUpTo(sizes, keys, n) \in Nat /\ SumUpTo(sizes, keys, n) <= TotalOf(sizes)
  <2>1. PICK S, T : S = FirstKeys(keys, n) /\ T = K \ S
    OBVIOUS
  <2>2. S \cap T = {} /\ S \cup T = K /\ IsFiniteSet(S) /\ IsFiniteSet(T)
    <3>1. S \subseteq K /\ IsFiniteSet(S) /\ T \subseteq K
      BY <1>3, <2>1
    <3>2. IsFiniteSet(T)
      BY <1>2, <3>1, FS_Subset
    <3> QED BY <2>1, <3>1, <3>2
  <2>3. sizes \in [S \cup T -> Nat]
    BY <2>2
  <2>4. /\ TotalOf(Part(sizes, S)) \in Nat /\ TotalOf(Part(sizes, T)) \in Nat
        /\ TotalOf(sizes) = TotalOf(Part(sizes, S)) + TotalOf(Part(sizes, T))
    BY <2>2, <2>3, TotalSplits
  <2> QED BY <2>1, <2>4 DEF SumUpTo
<1> QED BY <1>2, <1>4, <1>5, <1>6, FinitelyMany DEF Sums

Tops == [key \in DOMAIN scenes |-> TopId(scenes[key]) + 1]
NodeCounts == [key \in DOMAIN scenes |-> Len(scenes[key].nodes)]
VertexCounts == [key \in DOMAIN scenes |-> VertexCount(scenes[key])]
IndexCounts == [key \in DOMAIN scenes |-> IndexCount(scenes[key])]

(* After n rounds nothing has failed, and the sizes are the sums.          *)
SoFar(u, keys, n) ==
  /\ u.ok
  /\ Ready(u.scene, SumUpTo(Tops, keys, n), SumUpTo(NodeCounts, keys, n),
           SumUpTo(VertexCounts, keys, n), SumUpTo(IndexCounts, keys, n))

AllSums(keys, N) ==
  /\ Sums(Tops, keys, N) /\ Sums(NodeCounts, keys, N)
  /\ Sums(VertexCounts, keys, N) /\ Sums(IndexCounts, keys, N)

LEMMA ValidIsReady ==
  ASSUME NEW key \in DOMAIN scenes, IsScene(scenes[key]), ValidateScene(scenes[key])
  PROVE  /\ Ready(scenes[key], Tops[key], NodeCounts[key], VertexCounts[key], IndexCounts[key])
         /\ Tops[key] \in Nat /\ NodeCounts[key] \in Nat
         /\ VertexCounts[key] \in Nat /\ IndexCounts[key] \in Nat
<1>1. PICK s : s = scenes[key]
  OBVIOUS
<1>2. IsScene(s) /\ Fit(s)
  BY <1>1, ValidIsFit
<1>3. TopId(s) + 1 \in Nat \ {0} /\ Below(s, TopId(s) + 1)
  <2>1. TopId(s) \in Nat /\ Below(s, TopId(s) + 1)
    BY <1>2, TopIdIs
  <2> QED BY <2>1
<1>4. Counts(s, Len(s.nodes), VertexCount(s), IndexCount(s))
  BY <1>2, HasCounts
<1>5. Ready(s, TopId(s) + 1, Len(s.nodes), VertexCount(s), IndexCount(s))
  BY <1>2, <1>3, <1>4 DEF Ready
<1>6. /\ Tops[key] = TopId(s) + 1 /\ NodeCounts[key] = Len(s.nodes)
      /\ VertexCounts[key] = VertexCount(s) /\ IndexCounts[key] = IndexCount(s)
  BY <1>1 DEF Tops, NodeCounts, VertexCounts, IndexCounts
<1>7. Len(s.nodes) \in Nat /\ VertexCount(s) \in Nat /\ IndexCount(s) \in Nat
  BY <1>4 DEF Counts
<1> QED BY <1>1, <1>3, <1>5, <1>6, <1>7

LEMMA NextSoFar ==
  ASSUME NEW keys, NEW N \in Nat, AllSums(keys, N), RoomFor(scenes), NEW n \in 1..N - 1,
         keys[n + 1] \in DOMAIN scenes,
         IsScene(scenes[keys[n + 1]]), ValidateScene(scenes[keys[n + 1]]),
         NEW u, SoFar(u, keys, n)
  PROVE  SoFar(MergeScenes(u.scene, scenes[keys[n + 1]]), keys, n + 1)
<1>1. PICK key, right, m : key = keys[n + 1] /\ right = scenes[key] /\ m = Merged(u.scene, right)
  OBVIOUS
<1>2. n + 1 \in 1..N
  OBVIOUS
<1>3. PICK t, o, v, i : /\ t = SumUpTo(Tops, keys, n) /\ o = SumUpTo(NodeCounts, keys, n)
                        /\ v = SumUpTo(VertexCounts, keys, n) /\ i = SumUpTo(IndexCounts, keys, n)
  OBVIOUS
<1>4. PICK e, p, w, j : /\ e = Tops[key] /\ p = NodeCounts[key]
                        /\ w = VertexCounts[key] /\ j = IndexCounts[key]
  OBVIOUS
<1>5. Ready(u.scene, t, o, v, i)
  BY <1>3 DEF SoFar
<1>6. Ready(right, e, p, w, j)
  BY <1>1, <1>4, ValidIsReady
<1>7. /\ SumUpTo(Tops, keys, n + 1) = t + e
      /\ SumUpTo(NodeCounts, keys, n + 1) = o + p
      /\ SumUpTo(VertexCounts, keys, n + 1) = v + w
      /\ SumUpTo(IndexCounts, keys, n + 1) = i + j
  BY <1>1, <1>3, <1>4 DEF AllSums, Sums
<1>8. /\ t + e \in Nat /\ t + e <= TotalOf(Tops)
      /\ o + p \in Nat /\ o + p <= TotalOf(NodeCounts)
      /\ v + w \in Nat /\ v + w <= TotalOf(VertexCounts)
      /\ i + j \in Nat /\ i + j <= TotalOf(IndexCounts)
  BY <1>2, <1>7 DEF AllSums, Sums
<1>9. /\ TotalOf(Tops) <= IdSpace /\ TotalOf(NodeCounts) <= MaxNodes
      /\ TotalOf(VertexCounts) <= MaxVertices /\ TotalOf(IndexCounts) <= MaxIndices
  BY DEF RoomFor, Tops, NodeCounts, VertexCounts, IndexCounts
<1>10. /\ t + e <= IdSpace /\ o + p <= MaxNodes /\ v + w <= MaxVertices /\ i + j <= MaxIndices
  BY <1>8, <1>9, SceneAssumption DEF AllSums, Sums
<1>11. Ready(m, t + e, o + p, v + w, i + j) /\ MutualLinks(m.nodes)
  BY <1>1, <1>5, <1>6, <1>10, MergedReady
<1>12. IsScene(m) /\ Fit(m) /\ Counts(m, o + p, v + w, i + j)
  BY <1>11 DEF Ready
<1>13. WithinLimits(m)
  BY <1>10, <1>12 DEF Counts, WithinLimits
<1>14. ValidateScene(m)
  BY <1>11, <1>12, <1>13, FitIsValid
<1>15. PICK x : x = MergeScenes(u.scene, right)
  OBVIOUS
<1>16. x.ok /\ x.scene = m
  BY <1>1, <1>14, <1>15 DEF MergeScenes
<1> QED BY <1>1, <1>7, <1>11, <1>15, <1>16 DEF SoFar

(* Every scene valid, and room for all of them: the loop does not fail.    *)
LEMMA ValidScenesMergeUp ==
  ASSUME IsFiniteSet(DOMAIN scenes), DOMAIN scenes \subseteq Nat, DOMAIN scenes # {},
         \A key \in DOMAIN scenes : IsScene(scenes[key]) /\ ValidateScene(scenes[key]),
         RoomFor(scenes)
  PROVE  MergeUpTo(SortedKeys(DOMAIN scenes)).ok
<1> DEFINE K == DOMAIN scenes
           N == Cardinality(K)
           keys == SortedKeys(K)
<1>1. N \in Nat /\ Len(keys) = N /\ keys \in Bijection(1..N, K)
  BY SortedKeysNameKeys
<1>2. N # 0
  BY FS_EmptySet
<1> HIDE DEF K, N, keys
<1>3. \A m \in 1..N : keys[m] \in K
  BY <1>1 DEF Bijection, Injection
<1>4. PICK u : IsLoop(u, keys, N) /\ MergeUpTo(keys) = u[N]
  BY <1>1, <1>2, MergeLoop
<1>5. \A n \in 1..N : u[n] = LoopBody(u, keys, n)
  BY <1>4 DEF IsLoop
<1>6. \A key \in K : /\ Ready(scenes[key], Tops[key], NodeCounts[key], VertexCounts[key], IndexCounts[key])
                     /\ Tops[key] \in Nat /\ NodeCounts[key] \in Nat
                     /\ VertexCounts[key] \in Nat /\ IndexCounts[key] \in Nat
  BY ValidIsReady DEF K
<1>7. /\ Tops \in [K -> Nat] /\ NodeCounts \in [K -> Nat]
      /\ VertexCounts \in [K -> Nat] /\ IndexCounts \in [K -> Nat]
  <2>1. /\ Tops = [key \in K |-> Tops[key]] /\ NodeCounts = [key \in K |-> NodeCounts[key]]
        /\ VertexCounts = [key \in K |-> VertexCounts[key]]
        /\ IndexCounts = [key \in K |-> IndexCounts[key]]
    BY DEF Tops, NodeCounts, VertexCounts, IndexCounts, K
  <2> QED BY <1>6, <2>1
<1>8. AllSums(keys, N)
  BY <1>1, <1>2, <1>7, SumsGrow DEF AllSums
<1> DEFINE T == {n \in 0..N : n > 0 => SoFar(u[n], keys, n)}
<1>9. 0 \in T
  BY <1>1
<1>10. ASSUME NEW n \in 0..N - 1, n \in T PROVE n + 1 \in T
  <2>1. n + 1 \in 1..N /\ n + 1 \in 0..N
    BY <1>1
  <2>2. CASE n = 0
    <3>1. 1 \in 1..N /\ keys[1] \in K
      BY <1>3, <2>1, <2>2
    <3>2. LoopBody(u, keys, 1) = [ok |-> TRUE, scene |-> scenes[keys[1]]]
      BY DEF LoopBody
    <3>3. PICK x : x = u[1]
      OBVIOUS
    <3>4. x.ok /\ x.scene = scenes[keys[1]]
      BY <1>5, <3>1, <3>2, <3>3
    <3>5. SoFar(x, keys, 1)
      BY <1>6, <1>8, <3>1, <3>4 DEF SoFar, AllSums, Sums
    <3> QED BY <2>1, <2>2, <3>3, <3>5
  <2>3. CASE n # 0
    <3>1. n \in 1..N - 1 /\ n + 1 # 1 /\ (n + 1) - 1 = n
      BY <1>1, <2>3
    <3>2. SoFar(u[n], keys, n) /\ u[n].ok
      BY <1>10, <3>1 DEF SoFar
    <3>3. u[n + 1] = MergeScenes(u[n].scene, scenes[keys[n + 1]])
      BY <1>5, <2>1, <3>1, <3>2 DEF LoopBody
    <3>4. keys[n + 1] \in DOMAIN scenes
      BY <1>3, <2>1 DEF K
    <3>5. SoFar(u[n + 1], keys, n + 1)
      BY <1>1, <1>8, <3>1, <3>2, <3>3, <3>4, NextSoFar
    <3> QED BY <2>1, <3>5
  <2> QED BY <2>2, <2>3
<1>11. SoFar(u[N], keys, N)
  <2>1. \A n \in 0..N : n \in T
    <3> HIDE DEF T
    <3> QED BY <1>1, <1>9, <1>10, BoundedInduction
  <2> QED BY <1>1, <1>2, <2>1
<1> QED BY <1>4, <1>11 DEF SoFar, keys, K

(***************************************************************************)
(* What was stored valid and left alone stays valid, and merges.           *)
(***************************************************************************)

UntouchedAreValid == \A key \in DOMAIN scenes \ edited : ValidateScene(scenes[key])
MergingInv == UntouchedAreValid /\ ValidScenesMerge

LEMMA MergingInvInit == Init => MergingInv
BY DEF Init, MergingInv, UntouchedAreValid, ValidScenesMerge

LEMMA MergingInvNext == CollectionInv /\ MergingInv /\ [Next]_vars => MergingInv'
<1> SUFFICES ASSUME CollectionInv, MergingInv, [Next]_vars PROVE MergingInv'
  OBVIOUS
<1>1. /\ DOMAIN scenes \subseteq Nat /\ IsFiniteSet(DOMAIN scenes)
      /\ \A key \in DOMAIN scenes : IsScene(scenes[key])
      /\ UntouchedAreValid /\ ValidScenesMerge
  BY CollectionAssumption DEF CollectionInv, TypeOK, MergingInv
<1>2. ASSUME merged' = NoMerge, UntouchedAreValid' PROVE MergingInv'
  BY <1>2 DEF MergingInv, ValidScenesMerge, NoMerge
<1>3. ASSUME NEW key \in Keys, NEW s \in Library, Add(key, s) PROVE MergingInv'
  <2>1. /\ merged' = NoMerge /\ edited' = edited \ {key} /\ ValidateScene(s)
        /\ scenes' = [k \in DOMAIN scenes \cup {key} |-> IF k = key THEN s ELSE scenes[k]]
    BY <1>3 DEF Add
  <2>2. ASSUME NEW k \in DOMAIN scenes' \ edited' PROVE ValidateScene(scenes'[k])
    <3>1. CASE k = key
      BY <2>1, <3>1
    <3>2. CASE k # key
      <4>1. k \in DOMAIN scenes \ edited /\ scenes'[k] = scenes[k]
        BY <2>1, <3>2
      <4> QED BY <1>1, <4>1 DEF UntouchedAreValid
    <3> QED BY <3>1, <3>2
  <2> QED BY <1>2, <2>1, <2>2 DEF UntouchedAreValid
<1>4. ASSUME NEW key \in Keys, NEW s \in Library, AddRefused(key, s) PROVE MergingInv'
  BY <1>1, <1>2, <1>4 DEF AddRefused, UntouchedAreValid
<1>5. ASSUME NEW key \in Keys, NEW s \in Library, EditFound(key, s) PROVE MergingInv'
  <2>1. /\ merged' = NoMerge /\ edited' = edited \cup {key}
        /\ scenes' = [scenes EXCEPT ![key] = s]
    BY <1>5 DEF EditFound
  <2>2. \A k \in DOMAIN scenes' \ edited' : k \in DOMAIN scenes \ edited /\ scenes'[k] = scenes[k]
    BY <2>1
  <2> QED BY <1>1, <1>2, <2>1, <2>2 DEF UntouchedAreValid
<1>6. ASSUME NEW key \in Keys, Remove(key) PROVE MergingInv'
  <2>1. /\ merged' = NoMerge /\ edited' = edited \ {key}
        /\ scenes' = [k \in DOMAIN scenes \ {key} |-> scenes[k]]
    BY <1>6 DEF Remove
  <2>2. \A k \in DOMAIN scenes' \ edited' : k \in DOMAIN scenes \ edited /\ scenes'[k] = scenes[k]
    BY <2>1
  <2> QED BY <1>1, <1>2, <2>1, <2>2 DEF UntouchedAreValid
<1>7. CASE MergeAll
  <2>1. PICK result : result = MergeUpTo(SortedKeys(DOMAIN scenes))
    OBVIOUS
  <2>2. /\ DOMAIN scenes # {} /\ scenes' = scenes /\ edited' = edited
        /\ merged' = IF result.ok THEN [status |-> "ok", scene |-> result.scene]
                                  ELSE [status |-> "error", scene |-> EmptyScene]
    BY <1>7, <2>1 DEF MergeAll
  <2>3. ASSUME edited = {}, RoomFor(scenes) PROVE result.ok
    <3>1. \A key \in DOMAIN scenes : ValidateScene(scenes[key])
      BY <1>1, <2>3 DEF UntouchedAreValid
    <3> QED BY <1>1, <2>1, <2>2, <2>3, <3>1, ValidScenesMergeUp
  <2>4. ValidScenesMerge'
    BY <2>2, <2>3 DEF ValidScenesMerge
  <2>5. UntouchedAreValid'
    BY <1>1, <2>2 DEF UntouchedAreValid
  <2> QED BY <2>4, <2>5 DEF MergingInv
<1>8. CASE MergeNothing
  <2>1. DOMAIN scenes = {} /\ scenes' = scenes /\ edited' = edited
    BY <1>8 DEF MergeNothing
  <2> QED BY <2>1 DEF MergingInv, UntouchedAreValid, ValidScenesMerge
<1>9. CASE UNCHANGED vars
  <2>1. scenes' = scenes /\ edited' = edited /\ merged' = merged
    BY <1>9 DEF vars
  <2> QED BY <1>1, <2>1 DEF MergingInv, UntouchedAreValid, ValidScenesMerge
<1> QED BY <1>3, <1>4, <1>5, <1>6, <1>7, <1>8, <1>9 DEF Next

(* Scenes that are valid when stored and left alone since always merge,    *)
(* whatever they hold, unless their ids do not fit in the id space         *)
(* together or their sizes in the limits of the validator.                 *)
THEOREM ValidScenesAlwaysMerge == Spec => []ValidScenesMerge
<1>1. MergingInv => ValidScenesMerge
  BY DEF MergingInv
<1> QED BY <1>1, MergingInvInit, MergingInvNext, CollectionInvHolds, PTL DEF Spec
=============================================================================
