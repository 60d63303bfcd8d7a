------------------------- MODULE SceneBuilderProofs -------------------------
(***************************************************************************)
(* Proofs about the scene builder, for any number of calls and any shapes  *)
(* and entries: the ids of a scene are those handed out, child lists agree *)
(* with parents, a Build fails only for a mistake of the caller, and a     *)
(* second one changes nothing.                                             *)
(*                                                                         *)
(* A sort is described by the places it takes objects from.  From that     *)
(* come what each step of a normalisation keeps and establishes, and that  *)
(* a normal scene is one no step changes.  The inductive invariant says    *)
(* that the scene is good (fresh ids, resolved links, child lists of       *)
(* children), and normal and judged after a Build.                         *)
(***************************************************************************)
EXTENDS SceneBuilder, DataLemmas

(***************************************************************************)
(* Scenes.                                                                 *)
(***************************************************************************)

Kinds == {"nodes", "meshes", "materials", "textures", "cameras", "lights", "animations"}

(* The collections are of their types, whatever their ids.                 *)
Shape(s) ==
  s \in [nodes : Seq(NodeType), meshes : Seq(MeshType), materials : Seq(MaterialType),
         textures : Seq(ResourceType), cameras : Seq(ResourceType),
         lights : Seq(ResourceType), skeletons : {<< >>}, animations : Seq(AnimationType),
         metadata : {s.metadata}]

(* The ids are those below n, each that of one object.                     *)
Fresh(s, n) ==
  /\ \A a, b \in Kinds : \A i \in 1..Len(s[a]), j \in 1..Len(s[b]) :
       s[a][i].id = s[b][j].id => a = b /\ i = j
  /\ \A a \in Kinds : \A i \in 1..Len(s[a]) : s[a][i].id \in 1..n - 1
  /\ \A id \in 1..n - 1 : \E a \in Kinds : \E i \in 1..Len(s[a]) : s[a][i].id = id

(* What AddMeshNode, AddCamera, AddLight and AddLiftAnimation link holds.  *)
Linked(s) ==
  /\ \A i \in 1..Len(s.nodes) :
       /\ s.nodes[i].mesh \in {NoId} \cup Ids(s.meshes)
       /\ s.nodes[i].camera \in {NoId} \cup Ids(s.cameras)
       /\ s.nodes[i].light \in {NoId} \cup Ids(s.lights)
  /\ \A i \in 1..Len(s.materials) : s.materials[i].texture = NoId
  /\ \A i \in 1..Len(s.animations) :
       /\ Len(s.animations[i].channels) = 1
       /\ s.animations[i].channels[1].ordered = s.animations[i].inRange

(* Child lists name children, each once.                                   *)
ClaimsChildren(nodes) ==
  \A i \in 1..Len(nodes) :
    /\ \A k \in 1..Len(nodes[i].children) :
         \E j \in 1..Len(nodes) : /\ nodes[i].children[k] = nodes[j].id
                                  /\ nodes[j].parent = nodes[i].id
    /\ \A k, l \in 1..Len(nodes[i].children) :
         nodes[i].children[k] = nodes[i].children[l] => k = l

(* There is a first node, under which meshes without a parent go.          *)
HasNode(s) == 1 \in 1..Len(s.nodes)

Good(s, n) ==
  Shape(s) /\ Fresh(s, n) /\ Linked(s) /\ ClaimsChildren(s.nodes) /\ HasNode(s)

LEMMA SequenceIds ==
  ASSUME NEW S, \A x \in S : x.id \in Id, NEW objects \in Seq(S)
  PROVE  Len(objects) \in Nat /\ \A i \in 1..Len(objects) : objects[i].id \in Id
<1>1. Len(objects) \in Nat /\ \A i \in 1..Len(objects) : objects[i] \in S
  OBVIOUS
<1> QED BY <1>1

LEMMA ShapeTypes ==
  ASSUME NEW s, Shape(s)
  PROVE  \A a \in Kinds : Len(s[a]) \in Nat /\ \A i \in 1..Len(s[a]) : s[a][i].id \in Id
<1>1. /\ s.nodes \in Seq(NodeType) /\ s.meshes \in Seq(MeshType)
      /\ s.materials \in Seq(MaterialType) /\ s.textures \in Seq(ResourceType)
      /\ s.cameras \in Seq(ResourceType) /\ s.lights \in Seq(ResourceType)
      /\ s.animations \in Seq(AnimationType)
  BY DEF Shape
<1>2. /\ \A x \in NodeType : x.id \in Id
      /\ \A x \in MeshType : x.id \in Id
      /\ \A x \in MaterialType : x.id \in Id
      /\ \A x \in ResourceType : x.id \in Id
      /\ \A x \in AnimationType : x.id \in Id
  BY DEF NodeType, MeshType, MaterialType, ResourceType, AnimationType
<1>3. Len(s.nodes) \in Nat /\ \A i \in 1..Len(s.nodes) : s.nodes[i].id \in Id
  BY <1>1, <1>2, SequenceIds
<1>4. Len(s.meshes) \in Nat /\ \A i \in 1..Len(s.meshes) : s.meshes[i].id \in Id
  BY <1>1, <1>2, SequenceIds
<1>5. Len(s.materials) \in Nat /\ \A i \in 1..Len(s.materials) : s.materials[i].id \in Id
  BY <1>1, <1>2, SequenceIds
<1>6. Len(s.textures) \in Nat /\ \A i \in 1..Len(s.textures) : s.textures[i].id \in Id
  BY <1>1, <1>2, SequenceIds
<1>7. Len(s.cameras) \in Nat /\ \A i \in 1..Len(s.cameras) : s.cameras[i].id \in Id
  BY <1>1, <1>2, SequenceIds
<1>8. Len(s.lights) \in Nat /\ \A i \in 1..Len(s.lights) : s.lights[i].id \in Id
  BY <1>1, <1>2, SequenceIds
<1>9. Len(s.animations) \in Nat /\ \A i \in 1..Len(s.animations) : s.animations[i].id \in Id
  BY <1>1, <1>2, SequenceIds
<1> QED BY <1>3, <1>4, <1>5, <1>6, <1>7, <1>8, <1>9 DEF Kinds

(* An id designates one object.                                            *)
LEMMA OneObject ==
  ASSUME NEW s, NEW n, Fresh(s, n), NEW a \in Kinds, NEW b \in Kinds,
         NEW i \in 1..Len(s[a]), NEW j \in 1..Len(s[b]), s[a][i].id = s[b][j].id
  PROVE  a = b /\ i = j
BY DEF Fresh

(* An object with the next id keeps the ids fresh.                         *)
LEMMA AddingKeepsFresh ==
  ASSUME NEW s, NEW t, NEW n \in Nat \ {0}, NEW c \in Kinds,
         \A a \in Kinds : Len(s[a]) \in Nat, Fresh(s, n),
         \A a \in Kinds \ {c} : t[a] = s[a],
         Len(t[c]) = Len(s[c]) + 1,
         \A i \in 1..Len(s[c]) : t[c][i].id = s[c][i].id,
         t[c][Len(s[c]) + 1].id = n
  PROVE  Fresh(t, n + 1)
<1>1. \A a \in Kinds : \A i \in 1..Len(s[a]) :
        i \in 1..Len(t[a]) /\ t[a][i].id = s[a][i].id /\ t[a][i].id \in 1..n - 1
  BY DEF Fresh
<1>2. \A a \in Kinds : \A i \in 1..Len(t[a]) :
        i \in 1..Len(s[a]) \/ (a = c /\ i = Len(s[c]) + 1 /\ t[a][i].id = n)
  <2>1. ASSUME NEW i \in 1..Len(s[c]) + 1 PROVE i \in 1..Len(s[c]) \/ i = Len(s[c]) + 1
    OBVIOUS
  <2> QED BY <2>1
<1>3. ASSUME NEW a \in Kinds, NEW b \in Kinds, NEW i \in 1..Len(t[a]), NEW j \in 1..Len(t[b]),
             t[a][i].id = t[b][j].id
      PROVE  a = b /\ i = j
  <2>1. CASE i \in 1..Len(s[a]) /\ j \in 1..Len(s[b])
    BY <1>1, <1>3, <2>1 DEF Fresh
  <2>2. CASE i \notin 1..Len(s[a]) /\ j \notin 1..Len(s[b])
    BY <1>2, <2>2
  <2>3. CASE i \in 1..Len(s[a]) /\ j \notin 1..Len(s[b])
    BY <1>1, <1>2, <1>3, <2>3
  <2>4. CASE i \notin 1..Len(s[a]) /\ j \in 1..Len(s[b])
    BY <1>1, <1>2, <1>3, <2>4
  <2> QED BY <2>1, <2>2, <2>3, <2>4
<1>4. ASSUME NEW a \in Kinds, NEW i \in 1..Len(t[a]) PROVE t[a][i].id \in 1..n
  BY <1>1, <1>2
<1>5. ASSUME NEW id \in 1..n PROVE \E a \in Kinds : \E i \in 1..Len(t[a]) : t[a][i].id = id
  <2>1. CASE id = n
    <3>1. Len(s[c]) + 1 \in 1..Len(t[c])
      OBVIOUS
    <3> QED BY <2>1, <3>1
  <2>2. CASE id # n
    <3>1. id \in 1..n - 1
      BY <2>2
    <3>2. PICK a \in Kinds : \E i \in 1..Len(s[a]) : s[a][i].id = id
      BY <3>1 DEF Fresh
    <3> QED BY <1>1, <3>2
  <2> QED BY <2>1, <2>2
<1>6. n + 1 - 1 = n
  OBVIOUS
<1> QED BY <1>3, <1>4, <1>5, <1>6 DEF Fresh

(* So does any other order of the collections.                             *)
LEMMA RearrangingKeepsFresh ==
  ASSUME NEW s, NEW t, NEW n, Fresh(s, n),
         \A a \in Kinds :
           /\ Len(t[a]) = Len(s[a])
           /\ \E p \in Bijection(1..Len(s[a]), 1..Len(s[a])) :
                \A i \in 1..Len(s[a]) : t[a][i].id = s[a][p[i]].id
  PROVE  Fresh(t, n)
<1> DEFINE Place(c, p) == /\ p \in Bijection(1..Len(s[c]), 1..Len(s[c]))
                          /\ \A i \in 1..Len(s[c]) : t[c][i].id = s[c][p[i]].id
           at == [c \in Kinds |-> CHOOSE p : Place(c, p)]
<1>1. ASSUME NEW a \in Kinds PROVE Place(a, at[a])
  <2>1. \E p : Place(a, p)
    OBVIOUS
  <2> HIDE DEF Place
  <2> QED BY <2>1
<1> HIDE DEF at
<1>2. ASSUME NEW a \in Kinds, NEW i \in 1..Len(t[a])
      PROVE  at[a][i] \in 1..Len(s[a]) /\ t[a][i].id = s[a][at[a][i]].id
  BY <1>1 DEF Bijection, Injection
<1>3. ASSUME NEW a \in Kinds, NEW b \in Kinds, NEW i \in 1..Len(t[a]), NEW j \in 1..Len(t[b]),
             t[a][i].id = t[b][j].id
      PROVE  a = b /\ i = j
  <2>1. a = b /\ at[a][i] = at[b][j]
    <3>1. /\ at[a][i] \in 1..Len(s[a]) /\ at[b][j] \in 1..Len(s[b])
          /\ s[a][at[a][i]].id = s[b][at[b][j]].id
      BY <1>2, <1>3
    <3> QED BY <3>1, OneObject
  <2>2. at[a] \in Injection(1..Len(s[a]), 1..Len(s[a]))
    BY <1>1 DEF Bijection
  <2> QED BY <2>1, <2>2 DEF Injection, IsInjective
<1>4. ASSUME NEW a \in Kinds, NEW i \in 1..Len(t[a]) PROVE t[a][i].id \in 1..n - 1
  BY <1>2 DEF Fresh
<1>5. ASSUME NEW id \in 1..n - 1
      PROVE  \E a \in Kinds : \E i \in 1..Len(t[a]) : t[a][i].id = id
  <2>0. PICK a \in Kinds : \E j \in 1..Len(s[a]) : s[a][j].id = id
    BY DEF Fresh
  <2>1. PICK j \in 1..Len(s[a]) : s[a][j].id = id
    BY <2>0
  <2>2. PICK i \in 1..Len(s[a]) : at[a][i] = j
    BY <1>1 DEF Bijection, Surjection
  <2> QED BY <1>1, <2>1, <2>2
<1> QED BY <1>3, <1>4, <1>5 DEF Fresh

(***************************************************************************)
(* Adding objects.                                                         *)
(***************************************************************************)

LEMMA IdsGrow ==
  ASSUME NEW S, NEW objects \in Seq(S), NEW x
  PROVE  /\ Ids(objects) \subseteq Ids(Append(objects, x))
         /\ x.id \in Ids(Append(objects, x))
<1>1. /\ Len(objects) \in Nat /\ Len(Append(objects, x)) = Len(objects) + 1
      /\ \A i \in 1..Len(objects) : Append(objects, x)[i] = objects[i]
      /\ Append(objects, x)[Len(objects) + 1] = x
  OBVIOUS
<1> QED BY <1>1 DEF Ids

(* An object other than a node, with the next id.                          *)
LEMMA AddingAnObject ==
  ASSUME NEW s, NEW n \in Nat \ {0}, Good(s, n), NEW c \in Kinds \ {"nodes"}, NEW x, x.id = n,
         NEW t, t = [s EXCEPT ![c] = Append(@, x)], Shape(t),
         c = "materials" => x.texture = NoId,
         c = "animations" => Len(x.channels) = 1 /\ x.channels[1].ordered = x.inRange
  PROVE  Good(t, n + 1) /\ x.id \in Ids(t[c])
<1>1. /\ \A a \in Kinds : Len(s[a]) \in Nat
      /\ \A a \in Kinds \ {c} : t[a] = s[a]
      /\ t[c] = Append(s[c], x)
  BY ShapeTypes DEF Good, Shape, Kinds
<1>2. \E S : s[c] \in Seq(S)
  BY DEF Good, Shape, Kinds
<1>3. /\ Len(t[c]) = Len(s[c]) + 1 /\ t[c][Len(s[c]) + 1] = x
      /\ \A i \in 1..Len(s[c]) : t[c][i] = s[c][i]
  BY <1>1, <1>2
<1>4. Fresh(t, n + 1)
  BY <1>1, <1>3, AddingKeepsFresh DEF Good
<1>5. /\ \A a \in Kinds : Ids(s[a]) \subseteq Ids(t[a])
      /\ x.id \in Ids(t[c])
  BY <1>1, <1>2, IdsGrow
<1>6. t.nodes = s.nodes /\ ClaimsChildren(t.nodes) /\ HasNode(t)
  BY <1>1 DEF Good, Kinds, HasNode
<1>7. Linked(t)
  <2>1. ASSUME NEW i \in 1..Len(t.nodes)
        PROVE  /\ t.nodes[i].mesh \in {NoId} \cup Ids(t.meshes)
               /\ t.nodes[i].camera \in {NoId} \cup Ids(t.cameras)
               /\ t.nodes[i].light \in {NoId} \cup Ids(t.lights)
    BY <1>5, <1>6 DEF Good, Linked, Kinds
  <2>2. ASSUME NEW i \in 1..Len(t.materials) PROVE t.materials[i].texture = NoId
    <3>1. CASE c # "materials"
      BY <1>1, <3>1 DEF Good, Linked, Kinds
    <3>2. CASE c = "materials"
      <4>1. i \in 1..Len(s.materials) \/ i = Len(s.materials) + 1
        BY <1>1, <1>3, <3>2
      <4> QED BY <1>3, <3>2, <4>1 DEF Good, Linked
    <3> QED BY <3>1, <3>2
  <2>3. ASSUME NEW i \in 1..Len(t.animations)
        PROVE  /\ Len(t.animations[i].channels) = 1
               /\ t.animations[i].channels[1].ordered = t.animations[i].inRange
    <3>1. CASE c # "animations"
      BY <1>1, <3>1 DEF Good, Linked, Kinds
    <3>2. CASE c = "animations"
      <4>1. i \in 1..Len(s.animations) \/ i = Len(s.animations) + 1
        BY <1>1, <1>3, <3>2
      <4> QED BY <1>3, <3>2, <4>1 DEF Good, Linked
    <3> QED BY <3>1, <3>2
  <2> QED BY <2>1, <2>2, <2>3 DEF Linked
<1> QED BY <1>4, <1>5, <1>6, <1>7 DEF Good

(* The nodes once AddNode has appended one: they are what they were, and   *)
(* those with the id it names as its parent may have it as a child.        *)
NodesWith(nodes, node) ==
  UpdateFirst(Append(nodes, node), node.parent,
              LAMBDA parent : [parent EXCEPT !.children = Append(@, node.id)])

MayGain(new, old, node) ==
  /\ new.id = old.id /\ new.parent = old.parent /\ new.mesh = old.mesh
  /\ new.camera = old.camera /\ new.light = old.light
  /\ \/ new.children = old.children
     \/ old.id = node.parent /\ new.children = Append(old.children, node.id)

OldNode(nodes, node, i) == IF i \in 1..Len(nodes) THEN nodes[i] ELSE node

LEMMA AppendingANode ==
  ASSUME NEW nodes \in Seq(NodeType), NEW node \in NodeType, NEW r, r = NodesWith(nodes, node)
  PROVE  /\ r \in Seq(NodeType)
         /\ Len(r) = Len(nodes) + 1
         /\ \A i \in 1..Len(nodes) + 1 :
              /\ OldNode(nodes, node, i) \in NodeType
              /\ MayGain(r[i], OldNode(nodes, node, i), node)
<1> DEFINE m == Append(nodes, node)
           N == Len(nodes)
           Claim(x) == [x EXCEPT !.children = Append(@, node.id)]
<1>1. /\ N \in Nat /\ Len(m) = N + 1
      /\ \A i \in 1..N + 1 : m[i] = OldNode(nodes, node, i) /\ m[i] \in NodeType
  BY DEF OldNode
<1>2. \A x \in NodeType : Claim(x) \in NodeType
  <2>1. ASSUME NEW x \in NodeType PROVE Append(x.children, node.id) \in Seq(Id)
    BY DEF NodeType
  <2> QED BY <2>1 DEF NodeType
<1>3. r = [i \in 1..N + 1 |->
             IF m[i].id = node.parent /\ \A j \in 1..i - 1 : m[j].id # node.parent
               THEN Claim(m[i]) ELSE m[i]]
  BY <1>1 DEF NodesWith, UpdateFirst
<1>6. \A x \in NodeType : /\ MayGain(x, x, node)
                          /\ x.id = node.parent => MayGain(Claim(x), x, node)
  BY DEF NodeType, MayGain
<1> HIDE DEF m, Claim
<1>4. \A i \in 1..N + 1 : /\ r[i] \in NodeType
                          /\ r[i] = m[i] \/ (m[i].id = node.parent /\ r[i] = Claim(m[i]))
  BY <1>1, <1>2, <1>3
<1>5. r \in Seq(NodeType) /\ Len(r) = N + 1
  BY <1>1, <1>3, <1>4
<1>7. ASSUME NEW i \in 1..N + 1 PROVE MayGain(r[i], m[i], node)
  BY <1>1, <1>4, <1>6
<1> QED BY <1>1, <1>5, <1>7

LEMMA AddingANode ==
  ASSUME NEW s, NEW n \in Nat \ {0}, Good(s, n), NEW node \in NodeType,
         node.id = n, node.children = << >>,
         node.mesh \in {NoId} \cup Ids(s.meshes),
         node.camera \in {NoId} \cup Ids(s.cameras),
         node.light \in {NoId} \cup Ids(s.lights)
  PROVE  Good(AddNodeTo(s, node), n + 1)
<1> DEFINE t == AddNodeTo(s, node)
           r == NodesWith(s.nodes, node)
           N == Len(s.nodes)
           Old(i) == OldNode(s.nodes, node, i)
<1>1. s.nodes \in Seq(NodeType) /\ N \in Nat
  BY DEF Good, Shape
<1>2. /\ r \in Seq(NodeType) /\ Len(r) = N + 1
      /\ \A i \in 1..N + 1 :
           Old(i) \in NodeType /\ MayGain(r[i], Old(i), node)
  <2> HIDE DEF r
  <2>1. r = NodesWith(s.nodes, node)
    BY DEF r
  <2> QED BY <1>1, <2>1, AppendingANode
<1>3. t = [s EXCEPT !.nodes = r]
  BY DEF AddNodeTo, NodesWith
<1>4. /\ Shape(t) /\ t.nodes = r
      /\ \A a \in Kinds \ {"nodes"} : t[a] = s[a]
  BY <1>2, <1>3 DEF Good, Shape, Kinds
<1>5. /\ \A i \in 1..N : Old(i) = s.nodes[i]
      /\ Old(N + 1) = node
      /\ 1..Len(r) = 1..N + 1 /\ N + 1 \in 1..N + 1
      /\ \A i \in 1..N + 1 : i \in 1..N \/ i = N + 1
      /\ \A i \in 1..N : i \in 1..N + 1
  BY <1>1, <1>2 DEF OldNode
<1> HIDE DEF r, Old, t
<1>6. \A i \in 1..N + 1 :
        /\ r[i].id = Old(i).id /\ r[i].parent = Old(i).parent /\ r[i].mesh = Old(i).mesh
        /\ r[i].camera = Old(i).camera /\ r[i].light = Old(i).light
  BY <1>2 DEF MayGain
<1>7. Fresh(t, n + 1)
  <2>1. /\ \A a \in Kinds : Len(s[a]) \in Nat
        /\ \A a \in Kinds \ {"nodes"} : t[a] = s[a]
        /\ Len(t["nodes"]) = Len(s["nodes"]) + 1
        /\ \A i \in 1..Len(s["nodes"]) : t["nodes"][i].id = s["nodes"][i].id
        /\ t["nodes"][Len(s["nodes"]) + 1].id = n
    BY <1>2, <1>4, <1>5, <1>6, ShapeTypes DEF Good
  <2>2. "nodes" \in Kinds /\ Fresh(s, n)
    BY DEF Good, Kinds
  <2> QED BY <2>1, <2>2, AddingKeepsFresh
<1>8. Linked(t)
  <2>1. ASSUME NEW i \in 1..N + 1
        PROVE  /\ r[i].mesh \in {NoId} \cup Ids(s.meshes)
               /\ r[i].camera \in {NoId} \cup Ids(s.cameras)
               /\ r[i].light \in {NoId} \cup Ids(s.lights)
    <3>1. CASE i \in 1..N
      BY <1>5, <1>6, <3>1 DEF Good, Linked
    <3>2. CASE i = N + 1
      BY <1>5, <1>6, <3>2
    <3> QED BY <1>5, <3>1, <3>2
  <2>2. /\ t.meshes = s.meshes /\ t.cameras = s.cameras /\ t.lights = s.lights
        /\ t.materials = s.materials /\ t.animations = s.animations
    BY <1>4 DEF Kinds
  <2> QED BY <1>4, <1>5, <2>1, <2>2 DEF Good, Linked
<1>9. ClaimsChildren(r)
  <2> SUFFICES ASSUME NEW i \in 1..N + 1
               PROVE  /\ \A k \in 1..Len(r[i].children) :
                           \E j \in 1..N + 1 : /\ r[i].children[k] = r[j].id
                                               /\ r[j].parent = r[i].id
                      /\ \A k, l \in 1..Len(r[i].children) :
                           r[i].children[k] = r[i].children[l] => k = l
    BY <1>5 DEF ClaimsChildren
  <2> DEFINE old == Old(i).children
  <2>1. old \in Seq(Id)
    BY <1>2 DEF NodeType
  <2>2. /\ \A k \in 1..Len(old) : \E j \in 1..N : old[k] = r[j].id /\ r[j].parent = r[i].id
        /\ \A k, l \in 1..Len(old) : old[k] = old[l] => k = l
    <3>1. CASE i \in 1..N
      <4>1. old = s.nodes[i].children /\ r[i].id = s.nodes[i].id
        BY <1>5, <1>6, <3>1
      <4>2. \A j \in 1..N : r[j].id = s.nodes[j].id /\ r[j].parent = s.nodes[j].parent
        BY <1>5, <1>6
      <4>3. ClaimsChildren(s.nodes)
        BY DEF Good
      <4> HIDE DEF old
      <4>4. /\ \A k \in 1..Len(s.nodes[i].children) :
                 \E j \in 1..N : /\ s.nodes[i].children[k] = s.nodes[j].id
                                 /\ s.nodes[j].parent = s.nodes[i].id
            /\ \A k, l \in 1..Len(s.nodes[i].children) :
                 s.nodes[i].children[k] = s.nodes[i].children[l] => k = l
        BY <3>1, <4>3 DEF ClaimsChildren
      <4>5. ASSUME NEW k \in 1..Len(old)
            PROVE  \E j \in 1..N : old[k] = r[j].id /\ r[j].parent = r[i].id
        <5>1. PICK j \in 1..N : /\ s.nodes[i].children[k] = s.nodes[j].id
                               /\ s.nodes[j].parent = s.nodes[i].id
          BY <4>1, <4>4
        <5> QED BY <4>1, <4>2, <5>1
      <4> QED BY <4>1, <4>4, <4>5
    <3>2. CASE i = N + 1
      BY <1>5, <3>2
    <3> QED BY <1>5, <3>1, <3>2
  <2>3. CASE r[i].children = Old(i).children
    BY <1>5, <2>2, <2>3
  <2>4. CASE Old(i).id = node.parent /\ r[i].children = Append(Old(i).children, node.id)
    <3>1. r[i].children = Append(old, n) /\ r[i].id = node.parent
      BY <1>6, <2>4
    <3>2. /\ Len(old) \in Nat /\ Len(r[i].children) = Len(old) + 1
          /\ \A k \in 1..Len(old) : r[i].children[k] = old[k]
          /\ r[i].children[Len(old) + 1] = n
      BY <2>1, <3>1
    <3>3. \A k \in 1..Len(old) + 1 : k \in 1..Len(old) \/ k = Len(old) + 1
      BY <3>2
    <3>4. \A k \in 1..Len(old) : old[k] \in 1..n - 1
      <4>1. \A j \in 1..N : s["nodes"][j].id \in 1..n - 1
        BY DEF Good, Fresh, Kinds
      <4>2. \A j \in 1..N : r[j].id \in 1..n - 1
        BY <1>5, <1>6, <4>1
      <4> QED BY <2>2, <4>2
    <3>5. r[N + 1].id = n /\ r[N + 1].parent = node.parent
      BY <1>5, <1>6
    <3>6. ASSUME NEW k \in 1..Len(old) + 1
          PROVE  \E j \in 1..N + 1 : r[i].children[k] = r[j].id /\ r[j].parent = r[i].id
      <4>1. CASE k \in 1..Len(old)
        BY <1>5, <2>2, <3>2, <4>1
      <4>2. CASE k = Len(old) + 1
        BY <1>5, <3>1, <3>2, <3>5, <4>2
      <4> QED BY <3>3, <4>1, <4>2
    <3>7. ASSUME NEW k \in 1..Len(old) + 1, NEW l \in 1..Len(old) + 1,
                 r[i].children[k] = r[i].children[l]
          PROVE  k = l
      <4>1. CASE k \in 1..Len(old) /\ l \in 1..Len(old)
        BY <2>2, <3>2, <3>7, <4>1
      <4>2. CASE k = Len(old) + 1 /\ l = Len(old) + 1
        BY <4>2
      <4>3. CASE k \in 1..Len(old) /\ l = Len(old) + 1
        BY <3>2, <3>4, <3>7, <4>3
      <4>4. CASE k = Len(old) + 1 /\ l \in 1..Len(old)
        BY <3>2, <3>4, <3>7, <4>4
      <4> QED BY <3>3, <4>1, <4>2, <4>3, <4>4
    <3> QED BY <3>2, <3>6, <3>7
  <2> QED BY <1>2, <2>3, <2>4 DEF MayGain
<1>10. HasNode(t)
  BY <1>1, <1>2, <1>4 DEF HasNode
<1> QED BY <1>4, <1>7, <1>8, <1>9, <1>10 DEF Good, t

(***************************************************************************)
(* Normalisation.                                                          *)
(***************************************************************************)

(* Places with different keys have one order.                              *)
InOrder(w, key, P, m) ==
  /\ w \in Bijection(1..m, P)
  /\ \A k, l \in 1..m : k < l => key[w[k]] < key[w[l]]

LEMMA InOrderRank ==
  ASSUME NEW P, P \subseteq Nat, IsFiniteSet(P), NEW key \in [P -> Int], NEW m \in Nat,
         NEW w, InOrder(w, key, P, m), NEW k \in 1..m
  PROVE  Cardinality(Earlier(key, P, w[k])) = k - 1
<1> DEFINE E == Earlier(key, P, w[k])
           f == [l \in 1..k - 1 |-> w[l]]
<1>1. /\ w \in [1..m -> P]
      /\ \A i, j \in 1..m : w[i] = w[j] => i = j
      /\ \A x \in P : \E i \in 1..m : w[i] = x
      /\ \A i, j \in 1..m : i < j => key[w[i]] < key[w[j]]
  BY DEF InOrder, Bijection, Injection, IsInjective, Surjection
<1>2. k - 1 \in Nat /\ \A l \in 1..k - 1 : l \in 1..m /\ l < k
  OBVIOUS
<1>3. \A l \in 1..m : w[l] \in E <=> l < k
  <2>1. ASSUME NEW l \in 1..m PROVE w[l] \in E <=> l < k
    <3>1. w[l] \in P /\ w[k] \in P /\ key[w[l]] \in Int /\ key[w[k]] \in Int
      BY <1>1
    <3>2. l < k => key[w[l]] < key[w[k]]
      BY <1>1
    <3>3. k < l => key[w[k]] < key[w[l]]
      BY <1>1
    <3>4. l = k \/ l < k \/ k < l
      OBVIOUS
    <3>5. w[l] \in Int /\ w[k] \in Int
      <4>1. \A x \in P : x \in Int
        OBVIOUS
      <4>2. w[l] \in P /\ w[k] \in P
        BY <3>1
      <4> QED BY <4>1, <4>2
    <3> QED BY <3>1, <3>2, <3>3, <3>4, <3>5 DEF Earlier, Precedes
  <2> QED BY <2>1
<1>4. f \in [1..k - 1 -> E] /\ \A l \in 1..k - 1 : f[l] = w[l]
  BY <1>2, <1>3
<1> HIDE DEF f
<1>5. f \in Injection(1..k - 1, E)
  <2>1. \A i, j \in 1..k - 1 : f[i] = f[j] => i = j
    BY <1>1, <1>2, <1>4
  <2> QED BY <1>4, <2>1 DEF Injection, IsInjective
<1>6. f \in Surjection(1..k - 1, E)
  <2>1. ASSUME NEW x \in E PROVE \E l \in 1..k - 1 : f[l] = x
    <3>1. PICK l \in 1..m : w[l] = x
      BY <1>1 DEF Earlier
    <3>2. l \in 1..k - 1
      BY <1>3, <3>1
    <3> QED BY <1>4, <3>1, <3>2
  <2> QED BY <1>4, <2>1 DEF Surjection
<1>7. ExistsBijection(1..k - 1, E)
  BY <1>5, <1>6 DEF ExistsBijection, Bijection
<1> HIDE DEF E
<1>8. Cardinality(E) = k - 1
  BY <1>2, <1>7, Interval, FS_Bijection
<1> QED BY <1>8 DEF E

Keyed(P, key) == P \subseteq Nat /\ IsFiniteSet(P) /\ key \in [P -> Int]

LEMMA OneOrder ==
  ASSUME NEW P, NEW key, Keyed(P, key), NEW m \in Nat,
         NEW v, InOrder(v, key, P, m), NEW w, InOrder(w, key, P, m)
  PROVE  \A k \in 1..m : v[k] = w[k]
<1> TAKE k \in 1..m
<1> DEFINE rank == [i \in P |-> Cardinality(Earlier(key, P, i)) + 1]
<1> P \subseteq Nat /\ IsFiniteSet(P) /\ key \in [P -> Int]
  BY DEF Keyed
<1>1. v[k] \in P /\ w[k] \in P
  BY DEF InOrder, Bijection, Injection
<1>2. Cardinality(Earlier(key, P, v[k])) = Cardinality(Earlier(key, P, w[k]))
  <2>1. Cardinality(Earlier(key, P, v[k])) = k - 1
    BY InOrderRank
  <2>2. Cardinality(Earlier(key, P, w[k])) = k - 1
    BY InOrderRank
  <2> QED BY <2>1, <2>2
<1>3. rank[v[k]] = rank[w[k]]
  BY <1>1, <1>2
<1>4. rank \in Bijection(P, 1..Cardinality(P))
  BY RanksArePlaces
<1> QED BY <1>1, <1>3, <1>4 DEF Bijection, Injection, IsInjective

(* Sorting what is sorted changes nothing.                                 *)
Increasing(objects) ==
  \A k, l \in 1..Len(objects) : k < l => objects[k].id < objects[l].id

LEMMA SameInOrder ==
  ASSUME NEW n \in Nat, NEW key \in [1..n -> Int],
         \A k, l \in 1..n : k < l => key[k] < key[l],
         NEW place \in Bijection(1..n, 1..n),
         \A k, l \in 1..n : k < l => key[place[k]] <= key[place[l]]
  PROVE  \A k \in 1..n : place[k] = k
<1> DEFINE same == [k \in 1..n |-> k]
<1>1. InOrder(same, key, 1..n, n)
  <2>1. same \in Bijection(1..n, 1..n)
    BY DEF Bijection, Injection, IsInjective, Surjection
  <2> QED BY <2>1 DEF InOrder
<1>2. InOrder(place, key, 1..n, n)
  <2>1. ASSUME NEW k \in 1..n, NEW l \in 1..n, k < l PROVE key[place[k]] < key[place[l]]
    <3>1. place[k] \in 1..n /\ place[l] \in 1..n /\ place[k] # place[l]
      BY <2>1 DEF Bijection, Injection, IsInjective
    <3>2. key[place[k]] \in Int /\ key[place[l]] \in Int
      BY <3>1
    <3>3. key[place[k]] # key[place[l]]
      <4>1. place[k] < place[l] \/ place[l] < place[k]
        BY <3>1
      <4> QED BY <3>1, <3>2, <4>1
    <3> QED BY <2>1, <3>2, <3>3
  <2> QED BY <2>1 DEF InOrder
<1>3. Keyed(1..n, key)
  BY Interval DEF Keyed
<1> HIDE DEF same
<1>4. \A k \in 1..n : place[k] = same[k]
  BY <1>1, <1>2, <1>3, OneOrder
<1> QED BY <1>4 DEF same

LEMMA SortByIdFixes ==
  ASSUME NEW S, \A x \in S : x.id \in Id, NEW objects \in Seq(S), Increasing(objects)
  PROVE  SortById(objects) = objects
<1> DEFINE n == Len(objects)
           key == [k \in 1..n |-> objects[k].id]
<1>1. \A x \in S : x.id \in Int
  BY SceneAssumption DEF Id
<1>2. PICK place \in Bijection(1..n, 1..n) :
        \A k \in 1..n : SortById(objects)[k] = objects[place[k]]
  BY <1>1, SortByIdPermutes
<1>3. /\ SortById(objects) \in Seq(S) /\ Len(SortById(objects)) = n
      /\ \A k, l \in 1..n : k < l => SortById(objects)[k].id <= SortById(objects)[l].id
  BY <1>1, SortByIdPermutes
<1>4. n \in Nat /\ \A k \in 1..n : objects[k] \in S
  OBVIOUS
<1>5. key \in [1..n -> Int]
  BY <1>1, <1>4
<1>6. \A k \in 1..n : place[k] \in 1..n /\ key[k] = objects[k].id
  BY <1>2 DEF Bijection, Injection
<1>7. \A k \in 1..n : place[k] = k
  <2>1. \A k, l \in 1..n : k < l => key[k] < key[l]
    BY DEF Increasing
  <2>2. \A k, l \in 1..n : k < l => key[place[k]] <= key[place[l]]
    BY <1>2, <1>3, <1>6
  <2> HIDE DEF key, n
  <2> QED BY <1>2, <1>4, <1>5, <2>1, <2>2, SameInOrder
<1>8. \A k \in 1..n : SortById(objects)[k] = objects[k]
  BY <1>2, <1>7
<1> QED BY <1>3, <1>8

LEMMA SortIdsFixes ==
  ASSUME NEW ids \in Seq(Id), \A k, l \in 1..Len(ids) : k < l => ids[k] < ids[l]
  PROVE  SortIds(ids) = ids
<1> DEFINE n == Len(ids)
<1>0. Id \subseteq Int
  BY SceneAssumption DEF Id
<1>1. PICK place \in Bijection(1..n, 1..n) : \A k \in 1..n : SortIds(ids)[k] = ids[place[k]]
  BY <1>0, SortIdsPermutes
<1>2. /\ SortIds(ids) \in Seq(Id) /\ Len(SortIds(ids)) = n
      /\ \A k, l \in 1..n : k < l => SortIds(ids)[k] <= SortIds(ids)[l]
  BY <1>0, SortIdsPermutes
<1>3. n \in Nat /\ ids \in [1..n -> Int]
  BY SceneAssumption DEF Id
<1>4. \A k \in 1..n : place[k] = k
  <2>1. \A k, l \in 1..n : k < l => ids[place[k]] <= ids[place[l]]
    BY <1>1, <1>2
  <2> QED BY <1>1, <1>3, <2>1, SameInOrder
<1>5. \A k \in 1..n : SortIds(ids)[k] = ids[k]
  BY <1>1, <1>4
<1> QED BY <1>2, <1>5

(* The children of a node: the ids of the nodes under it, in order.        *)
IsChildList(nodes, id, c) ==
  /\ \A k \in 1..Len(c) : \E j \in 1..Len(nodes) : c[k] = nodes[j].id /\ nodes[j].parent = id
  /\ \A j \in 1..Len(nodes) : nodes[j].parent = id => \E k \in 1..Len(c) : c[k] = nodes[j].id
  /\ \A k, l \in 1..Len(c) : k < l => c[k] < c[l]

ExactChildren(nodes) ==
  \A i \in 1..Len(nodes) : IsChildList(nodes, nodes[i].id, nodes[i].children)

Distinct(nodes) == \A i, j \in 1..Len(nodes) : nodes[i].id = nodes[j].id => i = j

Under(nodes, id) == {i \in 1..Len(nodes) : nodes[i].parent # NoId /\ nodes[i].parent = id}

ChildIds(nodes, id) == Mapped(PlacesById(nodes, Under(nodes, id)), LAMBDA node : node.id)

LEMMA UnderPlaces ==
  ASSUME NEW nodes \in Seq(NodeType), NEW id \in Id \ {NoId}
  PROVE  /\ Len(nodes) \in Nat
         /\ \A i \in 1..Len(nodes) : nodes[i].id \in Id /\ nodes[i].id \in Int
         /\ Under(nodes, id) \in SUBSET (1..Len(nodes))
         /\ Under(nodes, id) \subseteq Nat
         /\ IsFiniteSet(Under(nodes, id))
         /\ [i \in Under(nodes, id) |-> nodes[i].id] \in [Under(nodes, id) -> Int]
         /\ \A i \in 1..Len(nodes) : i \in Under(nodes, id) <=> nodes[i].parent = id
<1>1. Len(nodes) \in Nat /\ \A i \in 1..Len(nodes) : nodes[i] \in NodeType
  OBVIOUS
<1>2. \A i \in 1..Len(nodes) : nodes[i].id \in Id /\ nodes[i].id \in Int
  <2>1. \A x \in NodeType : x.id \in Id /\ x.id \in Int
    BY SceneAssumption DEF NodeType, Id
  <2> QED BY <1>1, <2>1
<1>3. Under(nodes, id) \in SUBSET (1..Len(nodes))
  BY DEF Under
<1>4. IsFiniteSet(Under(nodes, id))
  BY <1>1, <1>3, Interval, FS_Subset
<1>5. \A i \in 1..Len(nodes) : i \in Under(nodes, id) <=> nodes[i].parent = id
  BY DEF Under, NoId
<1>6. \A i \in Under(nodes, id) : nodes[i].id \in Int /\ i \in Nat
  BY <1>1, <1>2, <1>3
<1> QED BY <1>1, <1>2, <1>3, <1>4, <1>5, <1>6

(* A list of the children puts their places in order.                      *)
LEMMA ListInOrder ==
  ASSUME NEW nodes \in Seq(NodeType), Distinct(nodes), NEW id \in Id \ {NoId},
         NEW c \in Seq(Id), IsChildList(nodes, id, c)
  PROVE  \E w : /\ InOrder(w, [i \in Under(nodes, id) |-> nodes[i].id], Under(nodes, id), Len(c))
                /\ \A k \in 1..Len(c) : w[k] \in Under(nodes, id) /\ c[k] = nodes[w[k]].id
<1> DEFINE P == Under(nodes, id)
           key == [i \in P |-> nodes[i].id]
           m == Len(c)
           w == [k \in 1..m |-> CHOOSE j \in P : c[k] = nodes[j].id]
<1>1. /\ P \in SUBSET (1..Len(nodes)) /\ m \in Nat
      /\ \A i \in 1..Len(nodes) : i \in P <=> nodes[i].parent = id
  BY UnderPlaces
<1>2. \A k \in 1..m : c[k] \in Int
  BY SceneAssumption DEF Id
<1> HIDE DEF P
<1>3. ASSUME NEW k \in 1..m PROVE w[k] \in P /\ c[k] = nodes[w[k]].id
  <2>1. \E j \in P : c[k] = nodes[j].id
    BY <1>1 DEF IsChildList
  <2> QED BY <2>1
<1>4. w \in [1..m -> P]
  BY <1>3
<1> HIDE DEF w, m
<1>5. \A k, l \in 1..m : k < l => c[k] < c[l]
  BY DEF IsChildList, m
<1>6. w \in Injection(1..m, P)
  <2>1. ASSUME NEW k \in 1..m, NEW l \in 1..m, w[k] = w[l] PROVE k = l
    <3>1. c[k] = c[l] /\ c[k] \in Int
      BY <1>2, <1>3, <2>1
    <3>2. ~(k < l) /\ ~(l < k)
      BY <1>2, <1>5, <3>1
    <3> QED BY <1>1, <3>2
  <2> QED BY <1>4, <2>1 DEF Injection, IsInjective
<1>7. w \in Surjection(1..m, P)
  <2>1. ASSUME NEW j \in P PROVE \E k \in 1..m : w[k] = j
    <3>1. PICK k \in 1..m : c[k] = nodes[j].id
      BY <1>1 DEF IsChildList, m
    <3>2. w[k] \in 1..Len(nodes) /\ j \in 1..Len(nodes) /\ nodes[w[k]].id = nodes[j].id
      BY <1>1, <1>3, <3>1
    <3> QED BY <3>2 DEF Distinct
  <2> QED BY <1>4, <2>1 DEF Surjection
<1>8. \A k, l \in 1..m : k < l => key[w[k]] < key[w[l]]
  BY <1>3, <1>5
<1> HIDE DEF key
<1>9. InOrder(w, key, P, m)
  BY <1>6, <1>7, <1>8 DEF InOrder, Bijection
<1> QED BY <1>3, <1>9 DEF key, P, m

(* RebuildChildLists computes such a list, and there is no other.          *)
LEMMA ChildIdsListsChildren ==
  ASSUME NEW nodes \in Seq(NodeType), Distinct(nodes), NEW id \in Id \ {NoId}
  PROVE  /\ ChildIds(nodes, id) \in Seq(Id)
         /\ IsChildList(nodes, id, ChildIds(nodes, id))
<1> DEFINE P == Under(nodes, id)
           n == Cardinality(P)
           sorted == PlacesById(nodes, P)
           c == ChildIds(nodes, id)
<1>1. /\ P \in SUBSET (1..Len(nodes)) /\ Len(nodes) \in Nat
      /\ \A i \in 1..Len(nodes) : i \in P <=> nodes[i].parent = id
      /\ \A i \in 1..Len(nodes) : nodes[i].id \in Id /\ nodes[i].id \in Int
  BY UnderPlaces
<1> HIDE DEF P
<1>2. n \in Nat /\ \E place : Lists(sorted, nodes, P, place)
  BY <1>1, PlacesByIdSorts
<1>3. PICK place : Lists(sorted, nodes, P, place)
  BY <1>2
<1>4. /\ place \in Bijection(1..n, P)
      /\ sorted = [k \in 1..n |-> nodes[place[k]]]
      /\ \A k, l \in 1..n : k < l => nodes[place[k]].id <= nodes[place[l]].id
  BY <1>3 DEF Lists
<1> HIDE DEF n
<1>5. \A k \in 1..n : place[k] \in P /\ place[k] \in 1..Len(nodes)
  BY <1>1, <1>4 DEF Bijection, Injection
<1>6. c = [k \in 1..n |-> nodes[place[k]].id]
  <2>1. c = [k \in 1..Len(sorted) |-> sorted[k].id]
    BY DEF ChildIds, Mapped, P
  <2>2. sorted \in Seq(NodeType) /\ Len(sorted) = n
    <3>1. \A k \in 1..n : nodes[place[k]] \in NodeType
      BY <1>5
    <3> QED BY <1>2, <1>4, <3>1
  <2> HIDE DEF sorted, c
  <2> QED BY <1>4, <2>1, <2>2
<1> HIDE DEF c, sorted
<1>7. c \in Seq(Id) /\ Len(c) = n
  BY <1>1, <1>2, <1>5, <1>6
<1>8. IsChildList(nodes, id, c)
  <2>1. ASSUME NEW k \in 1..n
        PROVE  \E j \in 1..Len(nodes) : c[k] = nodes[j].id /\ nodes[j].parent = id
    BY <1>1, <1>5, <1>6
  <2>2. ASSUME NEW j \in 1..Len(nodes), nodes[j].parent = id
        PROVE  \E k \in 1..n : c[k] = nodes[j].id
    <3>1. j \in P
      BY <1>1, <2>2
    <3>2. PICK k \in 1..n : place[k] = j
      BY <1>4, <3>1 DEF Bijection, Surjection
    <3> QED BY <1>6, <3>2
  <2>3. ASSUME NEW k \in 1..n, NEW l \in 1..n, k < l PROVE c[k] < c[l]
    <3>1. place[k] # place[l]
      BY <1>2, <1>4, <2>3 DEF Bijection, Injection, IsInjective
    <3>2. nodes[place[k]].id # nodes[place[l]].id
      BY <1>5, <3>1 DEF Distinct
    <3> QED BY <1>1, <1>4, <1>5, <1>6, <2>3, <3>2
  <2> QED BY <1>7, <2>1, <2>2, <2>3 DEF IsChildList
<1> QED BY <1>7, <1>8 DEF c

LEMMA OneChildList ==
  ASSUME NEW nodes \in Seq(NodeType), Distinct(nodes), NEW id \in Id \ {NoId},
         NEW c \in Seq(Id), IsChildList(nodes, id, c),
         NEW d \in Seq(Id), IsChildList(nodes, id, d)
  PROVE  c = d
<1> DEFINE P == Under(nodes, id)
           key == [i \in P |-> nodes[i].id]
<1>1. Keyed(P, key)
  BY UnderPlaces DEF Keyed
<1>2. PICK v : /\ InOrder(v, key, P, Len(c))
               /\ \A k \in 1..Len(c) : v[k] \in P /\ c[k] = nodes[v[k]].id
  BY ListInOrder
<1>3. PICK w : /\ InOrder(w, key, P, Len(d))
               /\ \A k \in 1..Len(d) : w[k] \in P /\ d[k] = nodes[w[k]].id
  BY ListInOrder
<1> HIDE DEF P, key
<1>4. Len(c) \in Nat /\ Len(d) \in Nat
  OBVIOUS
<1>5. Len(c) = Cardinality(P)
  BY <1>2, <1>4, Interval, FS_Bijection DEF InOrder, ExistsBijection
<1>6. Len(d) = Cardinality(P)
  BY <1>3, <1>4, Interval, FS_Bijection DEF InOrder, ExistsBijection
<1>7. InOrder(w, key, P, Len(c))
  BY <1>3, <1>5, <1>6
<1>8. \A k \in 1..Len(c) : v[k] = w[k]
  <2> DEFINE m == Len(c)
  <2>1. m \in Nat /\ InOrder(v, key, P, m) /\ InOrder(w, key, P, m)
    BY <1>2, <1>4, <1>7
  <2> HIDE DEF m
  <2>2. \A k \in 1..m : v[k] = w[k]
    BY <1>1, <2>1, OneOrder
  <2> QED BY <2>2 DEF m
<1>9. \A k \in 1..Len(c) : c[k] = d[k]
  BY <1>2, <1>3, <1>5, <1>6, <1>8
<1> QED BY <1>5, <1>6, <1>9

(* Normalising rearranges the collections, and changes nothing of a node   *)
(* but its children.                                                       *)
Agree(a, x, y) ==
  /\ x.id = y.id
  /\ a # "nodes" => x = y
  /\ a = "nodes" => /\ x.parent = y.parent /\ x.mesh = y.mesh
                    /\ x.camera = y.camera /\ x.light = y.light

Rearranges(t, s, a, p) ==
  /\ Len(t[a]) = Len(s[a])
  /\ p \in Bijection(1..Len(s[a]), 1..Len(s[a]))
  /\ \A i \in 1..Len(s[a]) : Agree(a, t[a][i], s[a][p[i]])

LEMMA ExactClaims ==
  ASSUME NEW nodes \in Seq(NodeType), ExactChildren(nodes)
  PROVE  ClaimsChildren(nodes)
<1> SUFFICES ASSUME NEW i \in 1..Len(nodes)
             PROVE  /\ \A k \in 1..Len(nodes[i].children) :
                         \E j \in 1..Len(nodes) : /\ nodes[i].children[k] = nodes[j].id
                                                  /\ nodes[j].parent = nodes[i].id
                    /\ \A k, l \in 1..Len(nodes[i].children) :
                         nodes[i].children[k] = nodes[i].children[l] => k = l
  BY DEF ClaimsChildren
<1> DEFINE c == nodes[i].children
<1>1. IsChildList(nodes, nodes[i].id, c)
  BY DEF ExactChildren
<1>2. c \in Seq(Id)
  <2>1. nodes[i] \in NodeType
    OBVIOUS
  <2> QED BY <2>1 DEF NodeType
<1> HIDE DEF c
<1>3. Len(c) \in Nat /\ \A k \in 1..Len(c) : c[k] \in Int
  BY <1>2, SceneAssumption DEF Id
<1>4. ASSUME NEW k \in 1..Len(c), NEW l \in 1..Len(c), c[k] = c[l] PROVE k = l
  <2>1. k < l => c[k] < c[l]
    BY <1>1 DEF IsChildList
  <2>2. l < k => c[l] < c[k]
    BY <1>1 DEF IsChildList
  <2> QED BY <1>3, <1>4, <2>1, <2>2
<1>5. \A k \in 1..Len(c) :
        \E j \in 1..Len(nodes) : c[k] = nodes[j].id /\ nodes[j].parent = nodes[i].id
  BY <1>1 DEF IsChildList
<1> QED BY <1>4, <1>5 DEF c

LEMMA RearrangedChildList ==
  ASSUME NEW s, NEW t, NEW p, Rearranges(t, s, "nodes", p), NEW id, NEW c,
         IsChildList(s.nodes, id, c)
  PROVE  IsChildList(t.nodes, id, c)
<1> DEFINE N == 1..Len(s.nodes)
<1>1. /\ Len(t.nodes) = Len(s.nodes) /\ p \in Bijection(N, N)
      /\ \A i \in N : t.nodes[i].id = s.nodes[p[i]].id /\ t.nodes[i].parent = s.nodes[p[i]].parent
  BY DEF Rearranges, Agree
<1>2. (\A i \in N : p[i] \in N) /\ \A j \in N : \E i \in N : p[i] = j
  BY <1>1 DEF Bijection, Injection, Surjection
<1> HIDE DEF N
<1>3. ASSUME NEW k \in 1..Len(c)
      PROVE  \E i \in N : c[k] = t.nodes[i].id /\ t.nodes[i].parent = id
  <2>1. PICK j \in N : c[k] = s.nodes[j].id /\ s.nodes[j].parent = id
    BY DEF IsChildList, N
  <2> QED BY <1>1, <1>2, <2>1
<1>4. ASSUME NEW i \in N, t.nodes[i].parent = id
      PROVE  \E k \in 1..Len(c) : c[k] = t.nodes[i].id
  <2>1. p[i] \in N /\ s.nodes[p[i]].parent = id
    BY <1>1, <1>2, <1>4
  <2>2. PICK k \in 1..Len(c) : c[k] = s.nodes[p[i]].id
    BY <2>1 DEF IsChildList, N
  <2> QED BY <1>1, <2>2
<1>5. \A k, l \in 1..Len(c) : k < l => c[k] < c[l]
  BY DEF IsChildList
<1>6. N = 1..Len(t.nodes)
  BY <1>1 DEF N
<1> QED BY <1>3, <1>4, <1>5, <1>6 DEF IsChildList

LEMMA RearrangedIds ==
  ASSUME NEW s, NEW t, NEW a, NEW p, Rearranges(t, s, a, p)
  PROVE  Ids(t[a]) = Ids(s[a])
<1>1. /\ Len(t[a]) = Len(s[a])
      /\ \A i \in 1..Len(s[a]) : p[i] \in 1..Len(s[a]) /\ t[a][i].id = s[a][p[i]].id
      /\ \A j \in 1..Len(s[a]) : \E i \in 1..Len(s[a]) : p[i] = j
  BY DEF Rearranges, Agree, Bijection, Injection, Surjection
<1>2. ASSUME NEW x \in Ids(t[a]) PROVE x \in Ids(s[a])
  BY <1>1 DEF Ids
<1>3. ASSUME NEW x \in Ids(s[a]) PROVE x \in Ids(t[a])
  <2>1. PICK j \in 1..Len(s[a]) : s[a][j].id = x
    BY DEF Ids
  <2>2. PICK i \in 1..Len(s[a]) : p[i] = j
    BY <1>1
  <2> QED BY <1>1, <2>1, <2>2 DEF Ids
<1> QED BY <1>2, <1>3

LEMMA RearrangingKeepsGood ==
  ASSUME NEW s, NEW t, NEW n, Good(s, n), Shape(t), ExactChildren(t.nodes),
         \A a \in Kinds : \E p : Rearranges(t, s, a, p)
  PROVE  Good(t, n)
<1>1. Fresh(t, n)
  <2>1. ASSUME NEW a \in Kinds
        PROVE  /\ Len(t[a]) = Len(s[a])
               /\ \E p \in Bijection(1..Len(s[a]), 1..Len(s[a])) :
                    \A i \in 1..Len(s[a]) : t[a][i].id = s[a][p[i]].id
    BY DEF Rearranges, Agree
  <2> QED BY <2>1, RearrangingKeepsFresh DEF Good
<1>2. ClaimsChildren(t.nodes)
  BY ExactClaims DEF Shape
<1>3. ASSUME NEW a \in Kinds, NEW i \in 1..Len(t[a])
      PROVE  \E j \in 1..Len(s[a]) : Agree(a, t[a][i], s[a][j])
  BY DEF Rearranges, Bijection, Injection
<1>4. Linked(t)
  <2>1. /\ Ids(t.meshes) = Ids(s.meshes) /\ Ids(t.cameras) = Ids(s.cameras)
        /\ Ids(t.lights) = Ids(s.lights)
    BY RearrangedIds DEF Kinds
  <2>2. ASSUME NEW i \in 1..Len(t.nodes)
        PROVE  /\ t.nodes[i].mesh \in {NoId} \cup Ids(t.meshes)
               /\ t.nodes[i].camera \in {NoId} \cup Ids(t.cameras)
               /\ t.nodes[i].light \in {NoId} \cup Ids(t.lights)
    <3>1. PICK j \in 1..Len(s.nodes) : Agree("nodes", t.nodes[i], s.nodes[j])
      BY <1>3 DEF Kinds
    <3> QED BY <2>1, <3>1 DEF Good, Linked, Agree
  <2>3. ASSUME NEW i \in 1..Len(t.materials) PROVE t.materials[i].texture = NoId
    <3>1. PICK j \in 1..Len(s.materials) : Agree("materials", t.materials[i], s.materials[j])
      BY <1>3 DEF Kinds
    <3> QED BY <3>1 DEF Good, Linked, Agree
  <2>4. ASSUME NEW i \in 1..Len(t.animations)
        PROVE  /\ Len(t.animations[i].channels) = 1
               /\ t.animations[i].channels[1].ordered = t.animations[i].inRange
    <3>1. PICK j \in 1..Len(s.animations) : Agree("animations", t.animations[i], s.animations[j])
      BY <1>3 DEF Kinds
    <3> QED BY <3>1 DEF Good, Linked, Agree
  <2> QED BY <2>2, <2>3, <2>4 DEF Linked
<1>5. HasNode(t)
  BY DEF Good, HasNode, Rearranges, Kinds
<1> QED BY <1>1, <1>2, <1>4, <1>5 DEF Good

LEMMA GoodNodes ==
  ASSUME NEW s, NEW n, Good(s, n)
  PROVE  /\ s.nodes \in Seq(NodeType) /\ Distinct(s.nodes)
         /\ \A i \in 1..Len(s.nodes) : s.nodes[i].id \in Id \ {NoId}
<1>1. s.nodes \in Seq(NodeType)
  BY DEF Good, Shape
<1>2. "nodes" \in Kinds /\ Fresh(s, n)
  BY DEF Good, Kinds
<1>3. Distinct(s.nodes)
  BY <1>2, OneObject DEF Distinct
<1>4. \A i \in 1..Len(s["nodes"]) : s["nodes"][i].id \in 1..n - 1
  BY <1>2 DEF Fresh
<1>5. \A i \in 1..Len(s["nodes"]) : s["nodes"][i].id \in Id
  BY <1>2, ShapeTypes DEF Good
<1>6. \A x \in 1..n - 1 : x # NoId
  BY DEF NoId
<1> QED BY <1>1, <1>3, <1>4, <1>5, <1>6

(* Rebuilding gives every node the list of its children.                   *)
LEMMA RebuiltNodes ==
  ASSUME NEW s, NEW n, Good(s, n)
  PROVE  RebuildChildLists(s) =
           [s EXCEPT !.nodes = [i \in 1..Len(s.nodes) |->
              [s.nodes[i] EXCEPT !.children = ChildIds(s.nodes, s.nodes[i].id)]]]
<1> DEFINE nodes == s.nodes
           First(i) == \A j \in 1..i - 1 : nodes[j].id # nodes[i].id
           r == [i \in 1..Len(nodes) |->
                   [nodes[i] EXCEPT !.children =
                      IF First(i) THEN ChildIds(nodes, nodes[i].id) ELSE << >>]]
<1>1. RebuildChildLists(s) = [s EXCEPT !.nodes = r]
  BY DEF RebuildChildLists, ChildIds, Under
<1>2. ASSUME NEW i \in 1..Len(nodes) PROVE First(i)
  <2>1. Distinct(nodes) /\ Len(nodes) \in Nat
    BY GoodNodes
  <2>2. \A j \in 1..i - 1 : j \in 1..Len(nodes) /\ j # i
    BY <2>1
  <2> QED BY <2>1, <2>2 DEF Distinct
<1> HIDE DEF First
<1>3. r = [i \in 1..Len(nodes) |->
             [nodes[i] EXCEPT !.children = ChildIds(nodes, nodes[i].id)]]
  BY <1>2
<1> QED BY <1>1, <1>3

LEMMA Rebuilding ==
  ASSUME NEW s, NEW n, Good(s, n), NEW t, t = RebuildChildLists(s)
  PROVE  Good(t, n) /\ ExactChildren(t.nodes)
<1> DEFINE N == Len(s.nodes)
           nodes == s.nodes
           r == [i \in 1..N |-> [nodes[i] EXCEPT !.children = ChildIds(nodes, nodes[i].id)]]
           same == [i \in 1..N |-> i]
<1>1. /\ nodes \in Seq(NodeType) /\ Distinct(nodes) /\ N \in Nat
      /\ \A i \in 1..N : nodes[i] \in NodeType /\ nodes[i].id \in Id \ {NoId}
  <2>1. nodes \in Seq(NodeType)
    BY GoodNodes
  <2>2. N \in Nat /\ \A i \in 1..N : nodes[i] \in NodeType
    BY <2>1
  <2> QED BY <2>1, <2>2, GoodNodes
<1>2. ASSUME NEW i \in 1..N
      PROVE  /\ ChildIds(nodes, nodes[i].id) \in Seq(Id)
             /\ IsChildList(nodes, nodes[i].id, ChildIds(nodes, nodes[i].id))
  BY <1>1, ChildIdsListsChildren
<1>3. t = [s EXCEPT !.nodes = r]
  BY RebuiltNodes
<1>4. ASSUME NEW i \in 1..N
      PROVE  /\ r[i] \in NodeType
             /\ Agree("nodes", r[i], nodes[i])
             /\ r[i].children = ChildIds(nodes, nodes[i].id)
  BY <1>1, <1>2 DEF Agree, NodeType
<1>5. r \in Seq(NodeType) /\ Len(r) = N
  <2>1. r \in [1..N -> NodeType]
    <3>1. \A i \in 1..N : r[i] \in NodeType
      BY <1>4
    <3> QED BY <3>1
  <2>2. N \in Nat
    BY <1>1
  <2> HIDE DEF r, N
  <2> QED BY <2>1, <2>2
<1> HIDE DEF r
<1>6. /\ Shape(t) /\ t.nodes = r
      /\ \A a \in Kinds \ {"nodes"} : t[a] = s[a]
  BY <1>3, <1>5 DEF Good, Shape, Kinds
<1>7. \A a \in Kinds : \E p : Rearranges(t, s, a, p)
  <2>1. ASSUME NEW a \in Kinds PROVE Rearranges(t, s, a, [i \in 1..Len(s[a]) |-> i])
    <3> DEFINE p == [i \in 1..Len(s[a]) |-> i]
    <3>1. p \in Bijection(1..Len(s[a]), 1..Len(s[a])) /\ \A i \in 1..Len(s[a]) : p[i] = i
      BY DEF Bijection, Injection, IsInjective, Surjection
    <3> HIDE DEF p
    <3>2. CASE a = "nodes"
      BY <1>4, <1>5, <1>6, <3>1, <3>2 DEF Rearranges, p
    <3>3. CASE a # "nodes"
      <4>1. t[a] = s[a]
        BY <1>6, <3>3
      <4>2. \A x : Agree(a, x, x)
        BY <3>3 DEF Agree
      <4> QED BY <3>1, <4>1, <4>2 DEF Rearranges, p
    <3> QED BY <3>2, <3>3
  <2> QED BY <2>1
<1>8. ExactChildren(r)
  <2>1. PICK p : Rearranges(t, s, "nodes", p)
    BY <1>7 DEF Kinds
  <2>2. ASSUME NEW i \in 1..N PROVE IsChildList(r, r[i].id, r[i].children)
    <3>1. /\ r[i].id = nodes[i].id /\ r[i].children = ChildIds(nodes, nodes[i].id)
          /\ IsChildList(nodes, nodes[i].id, r[i].children)
      BY <1>2, <1>4 DEF Agree
    <3> QED BY <1>6, <2>1, <3>1, RearrangedChildList
  <2> QED BY <1>5, <2>2 DEF ExactChildren
<1> QED BY <1>6, <1>7, <1>8, RearrangingKeepsGood

LEMMA RebuildingAgain ==
  ASSUME NEW s, NEW n, Good(s, n), ExactChildren(s.nodes)
  PROVE  RebuildChildLists(s) = s
<1> DEFINE nodes == s.nodes
           r == [i \in 1..Len(nodes) |->
                   [nodes[i] EXCEPT !.children = ChildIds(nodes, nodes[i].id)]]
<1>1. nodes \in Seq(NodeType) /\ Distinct(nodes)
  BY GoodNodes
<1>2. ASSUME NEW i \in 1..Len(nodes)
      PROVE  [nodes[i] EXCEPT !.children = ChildIds(nodes, nodes[i].id)] = nodes[i]
  <2>1. nodes[i] \in NodeType /\ nodes[i].children \in Seq(Id)
    <3>1. nodes[i] \in NodeType
      BY <1>1
    <3> QED BY <3>1 DEF NodeType
  <2>2. nodes[i].id \in Id \ {NoId}
    BY GoodNodes
  <2>3. IsChildList(nodes, nodes[i].id, nodes[i].children)
    BY DEF ExactChildren
  <2>4. ChildIds(nodes, nodes[i].id) = nodes[i].children
    BY <1>1, <2>1, <2>2, <2>3, ChildIdsListsChildren, OneChildList
  <2> QED BY <2>1, <2>4 DEF NodeType
<1>3. r = nodes
  <2>1. r = [i \in 1..Len(nodes) |-> nodes[i]]
    BY <1>2
  <2>2. nodes = [i \in 1..Len(nodes) |-> nodes[i]]
    BY <1>1
  <2> HIDE DEF r, nodes
  <2> QED BY <2>1, <2>2
<1>4. RebuildChildLists(s) = [s EXCEPT !.nodes = r]
  BY RebuiltNodes
<1> HIDE DEF r
<1>5. [s EXCEPT !.nodes = s.nodes] = s
  BY DEF Good, Shape
<1> QED BY <1>3, <1>4, <1>5

(* Sorting the collections of a scene whose child lists are rebuilt.       *)
IdsIncrease(s) == \A a \in Kinds : Increasing(s[a])

SortedCollections(s) ==
  [s EXCEPT !.nodes = SortById(@), !.meshes = SortById(@), !.materials = SortById(@),
            !.textures = SortById(@), !.cameras = SortById(@), !.lights = SortById(@),
            !.animations = SortById(@)]

LEMMA ObjectTypes ==
  /\ \A x \in NodeType : x.id \in Id
  /\ \A x \in MeshType : x.id \in Id
  /\ \A x \in MaterialType : x.id \in Id
  /\ \A x \in ResourceType : x.id \in Id
  /\ \A x \in AnimationType : x.id \in Id
BY DEF NodeType, MeshType, MaterialType, ResourceType, AnimationType

LEMMA NoSkeletons ==
  ASSUME NEW f
  PROVE  [i \in 1..Len(SortById(<< >>)) |-> f[i]] = << >>
<1>1. << >> \in Seq({})
  OBVIOUS
<1>2. Len(SortById(<< >>)) = 0
  <2>1. \A x \in {} : x.id \in Int
    OBVIOUS
  <2>2. Len(SortById(<< >>)) = Len(<< >>)
    BY <1>1, <2>1, SortByIdPermutes
  <2> QED BY <2>2
<1> QED BY <1>2

LEMMA SortedNodes ==
  ASSUME NEW nodes \in Seq(NodeType), ExactChildren(nodes)
  PROVE  Mapped(SortById(nodes), LAMBDA n : [n EXCEPT !.children = SortIds(@)])
           = SortById(nodes)
<1> DEFINE r == SortById(nodes)
<1>1. \A x \in NodeType : x.id \in Int
  BY SceneAssumption DEF NodeType, Id
<1>2. PICK p \in Bijection(1..Len(nodes), 1..Len(nodes)) :
        \A k \in 1..Len(nodes) : r[k] = nodes[p[k]]
  BY <1>1, SortByIdPermutes
<1>3. r \in Seq(NodeType) /\ Len(r) = Len(nodes)
  BY <1>1, SortByIdPermutes
<1> HIDE DEF r
<1>4. ASSUME NEW i \in 1..Len(r) PROVE [r[i] EXCEPT !.children = SortIds(@)] = r[i]
  <2>1. p[i] \in 1..Len(nodes) /\ r[i] = nodes[p[i]]
    BY <1>2, <1>3 DEF Bijection, Injection
  <2>2. r[i] \in NodeType
    BY <1>3
  <2>3. r[i].children \in Seq(Id)
    BY <2>2 DEF NodeType
  <2>4. \A k, l \in 1..Len(r[i].children) : k < l => r[i].children[k] < r[i].children[l]
    BY <2>1 DEF ExactChildren, IsChildList
  <2>5. SortIds(r[i].children) = r[i].children
    BY <2>3, <2>4, SortIdsFixes
  <2> QED BY <2>2, <2>5 DEF NodeType
<1>5. Mapped(r, LAMBDA n : [n EXCEPT !.children = SortIds(@)]) = [i \in 1..Len(r) |-> r[i]]
  BY <1>4 DEF Mapped
<1>6. r = [i \in 1..Len(r) |-> r[i]]
  BY <1>3
<1> QED BY <1>5, <1>6 DEF r

LEMMA SortingSorts ==
  ASSUME NEW s, NEW n, Good(s, n), ExactChildren(s.nodes)
  PROVE  SortSceneCollections(s) = SortedCollections(s)
<1>1. s.nodes \in Seq(NodeType) /\ s.skeletons = << >>
  BY DEF Good, Shape
<1>2. Mapped(SortById(s.nodes), LAMBDA x : [x EXCEPT !.children = SortIds(@)])
        = SortById(s.nodes)
  BY <1>1, SortedNodes
<1>3. Mapped(SortById(s.skeletons), LAMBDA k : [k EXCEPT !.joints = SortById(@)]) = s.skeletons
  <2> DEFINE f == [i \in 1..Len(SortById(<< >>)) |->
                     [SortById(<< >>)[i] EXCEPT !.joints = SortById(@)]]
  <2>1. [i \in 1..Len(SortById(<< >>)) |-> f[i]] = << >>
    BY NoSkeletons
  <2>2. f = [i \in 1..Len(SortById(<< >>)) |-> f[i]]
    OBVIOUS
  <2>3. Mapped(SortById(s.skeletons), LAMBDA k : [k EXCEPT !.joints = SortById(@)]) = f
    BY <1>1 DEF Mapped
  <2> QED BY <1>1, <2>1, <2>2, <2>3
<1> QED BY <1>2, <1>3 DEF SortSceneCollections, SortedCollections, Good, Shape

LEMMA SortingOne ==
  ASSUME NEW S, \A x \in S : x.id \in Id, NEW objects \in Seq(S)
  PROVE  /\ SortById(objects) \in Seq(S)
         /\ Len(SortById(objects)) = Len(objects)
         /\ \A k, l \in 1..Len(objects) :
              k < l => SortById(objects)[k].id <= SortById(objects)[l].id
         /\ \E p \in Bijection(1..Len(objects), 1..Len(objects)) :
              \A k \in 1..Len(objects) : SortById(objects)[k] = objects[p[k]]
<1>1. \A x \in S : x.id \in Int
  BY SceneAssumption DEF Id
<1> QED BY <1>1, SortByIdPermutes

LEMMA Sorting ==
  ASSUME NEW s, NEW n, Good(s, n), ExactChildren(s.nodes),
         NEW t, t = SortSceneCollections(s)
  PROVE  Good(t, n) /\ ExactChildren(t.nodes) /\ IdsIncrease(t)
<1>1. /\ s.nodes \in Seq(NodeType) /\ s.meshes \in Seq(MeshType)
      /\ s.materials \in Seq(MaterialType) /\ s.textures \in Seq(ResourceType)
      /\ s.cameras \in Seq(ResourceType) /\ s.lights \in Seq(ResourceType)
      /\ s.animations \in Seq(AnimationType)
  BY DEF Good, Shape
<1>2. \A a \in Kinds : \E S : s[a] \in Seq(S) /\ \A x \in S : x.id \in Id
  BY <1>1, ObjectTypes DEF Kinds
<1>3. t = SortedCollections(s)
  BY SortingSorts
<1>4. /\ \A a \in Kinds : t[a] = SortById(s[a])
      /\ t = [nodes |-> t.nodes, meshes |-> t.meshes, materials |-> t.materials,
              textures |-> t.textures, cameras |-> t.cameras, lights |-> t.lights,
              skeletons |-> << >>, animations |-> t.animations, metadata |-> t.metadata]
  BY <1>3 DEF SortedCollections, Good, Shape, Kinds
<1>5. /\ t.nodes \in Seq(NodeType) /\ t.meshes \in Seq(MeshType)
      /\ t.materials \in Seq(MaterialType) /\ t.textures \in Seq(ResourceType)
      /\ t.cameras \in Seq(ResourceType) /\ t.lights \in Seq(ResourceType)
      /\ t.animations \in Seq(AnimationType)
  BY <1>1, <1>4, ObjectTypes, SortingOne DEF Kinds
<1>6. Shape(t)
  BY <1>4, <1>5 DEF Shape
<1>7. \A a \in Kinds :
        /\ Len(t[a]) = Len(s[a])
        /\ \A k, l \in 1..Len(s[a]) : k < l => t[a][k].id <= t[a][l].id
        /\ \E p \in Bijection(1..Len(s[a]), 1..Len(s[a])) :
             \A k \in 1..Len(s[a]) : t[a][k] = s[a][p[k]]
  BY <1>2, <1>4, SortingOne
<1>8. \A a \in Kinds : \E p : Rearranges(t, s, a, p)
  BY <1>7 DEF Rearranges, Agree
<1>9. ExactChildren(t.nodes)
  <2>1. PICK p \in Bijection(1..Len(s.nodes), 1..Len(s.nodes)) :
          \A k \in 1..Len(s.nodes) : t.nodes[k] = s.nodes[p[k]]
    BY <1>7 DEF Kinds
  <2>2. Len(t.nodes) = Len(s.nodes)
    BY <1>7 DEF Kinds
  <2>3. Rearranges(t, s, "nodes", p)
    BY <2>1, <2>2 DEF Rearranges, Agree
  <2>4. ASSUME NEW i \in 1..Len(t.nodes)
        PROVE  IsChildList(t.nodes, t.nodes[i].id, t.nodes[i].children)
    <3>1. p[i] \in 1..Len(s.nodes) /\ t.nodes[i] = s.nodes[p[i]]
      BY <2>1, <2>2 DEF Bijection, Injection
    <3>2. IsChildList(s.nodes, t.nodes[i].id, t.nodes[i].children)
      BY <3>1 DEF ExactChildren
    <3> QED BY <2>3, <3>2, RearrangedChildList
  <2> QED BY <2>4 DEF ExactChildren
<1>10. Good(t, n)
  BY <1>6, <1>8, <1>9, RearrangingKeepsGood
<1>11. ASSUME NEW a \in Kinds, NEW k \in 1..Len(t[a]), NEW l \in 1..Len(t[a]), k < l
       PROVE  t[a][k].id < t[a][l].id
  <2>1. t[a][k].id <= t[a][l].id
    BY <1>7, <1>11
  <2>2. Len(t[a]) \in Nat /\ t[a][k].id \in Id /\ t[a][l].id \in Id
    BY <1>6, ShapeTypes
  <2>3. t[a][k].id # t[a][l].id
    BY <1>10, <1>11, <2>2, OneObject DEF Good
  <2> QED BY <2>1, <2>2, <2>3, SceneAssumption DEF Id
<1> QED BY <1>9, <1>10, <1>11 DEF IdsIncrease, Increasing

LEMMA SortingAgain ==
  ASSUME NEW s, NEW n, Good(s, n), ExactChildren(s.nodes), IdsIncrease(s)
  PROVE  SortSceneCollections(s) = s
<1>1. /\ s.nodes \in Seq(NodeType) /\ s.meshes \in Seq(MeshType)
      /\ s.materials \in Seq(MaterialType) /\ s.textures \in Seq(ResourceType)
      /\ s.cameras \in Seq(ResourceType) /\ s.lights \in Seq(ResourceType)
      /\ s.animations \in Seq(AnimationType)
  BY DEF Good, Shape
<1>2. \A a \in Kinds : Increasing(s[a])
  BY DEF IdsIncrease
<1>3. /\ SortById(s.nodes) = s.nodes /\ SortById(s.meshes) = s.meshes
      /\ SortById(s.materials) = s.materials /\ SortById(s.textures) = s.textures
      /\ SortById(s.cameras) = s.cameras /\ SortById(s.lights) = s.lights
      /\ SortById(s.animations) = s.animations
  BY <1>1, <1>2, ObjectTypes, SortByIdFixes DEF Kinds
<1>4. SortSceneCollections(s) = SortedCollections(s)
  BY SortingSorts
<1> QED BY <1>3, <1>4 DEF SortedCollections, Good, Shape

(***************************************************************************)
(* The whole of a Build.                                                   *)
(***************************************************************************)

CleanMetadata(m) ==
  /\ m = [k \in DOMAIN m |-> m[k]]
  /\ \A k \in DOMAIN m : k # EmptyText /\ m[k] # EmptyText

(* A scene that normalisation leaves as it is.                             *)
Normal(s) == ExactChildren(s.nodes) /\ IdsIncrease(s) /\ CleanMetadata(s.metadata)

LEMMA NormalizationSteps ==
  ASSUME NEW s
  PROVE  NormalizeScene(s, DefaultNormalization)
           = SortSceneCollections(RebuildChildLists(RemoveEmptyMetadata(s)))
BY DEF NormalizeScene, DefaultNormalization

LEMMA Cleaning ==
  ASSUME NEW s, NEW n, Good(s, n), NEW t, t = RemoveEmptyMetadata(s)
  PROVE  /\ Good(t, n) /\ CleanMetadata(t.metadata)
         /\ CleanMetadata(s.metadata) => t = s
<1> DEFINE m == s.metadata
           K == {k \in DOMAIN m : k # EmptyText /\ m[k] # EmptyText}
           r == [k \in K |-> m[k]]
<1>1. t = [s EXCEPT !.metadata = r]
  BY DEF RemoveEmptyMetadata
<1>2. CleanMetadata(r)
  BY DEF CleanMetadata
<1>3. ASSUME CleanMetadata(m) PROVE r = m
  <2>1. K = DOMAIN m
    BY <1>3 DEF CleanMetadata
  <2> HIDE DEF K
  <2> QED BY <1>3, <2>1 DEF CleanMetadata
<1> HIDE DEF r
<1>4. Shape(t) /\ t.metadata = r /\ \A a \in Kinds : t[a] = s[a]
  BY <1>1 DEF Good, Shape, Kinds
<1>5. Good(t, n)
  <2>1. Fresh(t, n)
    BY <1>4 DEF Good, Fresh
  <2>2. /\ t.nodes = s.nodes /\ t.meshes = s.meshes /\ t.cameras = s.cameras
        /\ t.lights = s.lights /\ t.materials = s.materials /\ t.animations = s.animations
    BY <1>4 DEF Kinds
  <2> QED BY <1>4, <2>1, <2>2 DEF Good, Linked, HasNode
<1>6. m = r => t = s
  BY <1>1 DEF Good, Shape
<1> QED BY <1>2, <1>3, <1>4, <1>5, <1>6

LEMMA Normalizing ==
  ASSUME NEW s, NEW n, Good(s, n), NEW t, t = NormalizeScene(s, DefaultNormalization)
  PROVE  /\ Good(t, n) /\ Normal(t)
         /\ Normal(s) => t = s
         /\ t.metadata = RemoveEmptyMetadata(s).metadata
<1> DEFINE c == RemoveEmptyMetadata(s)
           r == RebuildChildLists(c)
<1>1. t = SortSceneCollections(r)
  BY NormalizationSteps
<1>2. Good(c, n) /\ CleanMetadata(c.metadata) /\ (CleanMetadata(s.metadata) => c = s)
  BY Cleaning
<1> HIDE DEF c
<1>3. Good(r, n) /\ ExactChildren(r.nodes)
  BY <1>2, Rebuilding
<1>4. r.metadata = c.metadata
  BY <1>2, RebuiltNodes DEF Good, Shape
<1> HIDE DEF r
<1>5. Good(t, n) /\ ExactChildren(t.nodes) /\ IdsIncrease(t)
  BY <1>1, <1>3, Sorting
<1>6. t.metadata = r.metadata
  <2>1. t = SortedCollections(r)
    BY <1>1, <1>3, SortingSorts
  <2> QED BY <2>1 DEF SortedCollections
<1>7. ASSUME Normal(s) PROVE t = s
  <2>1. c = s
    BY <1>2, <1>7 DEF Normal
  <2>2. r = s
    BY <1>7, <2>1, RebuildingAgain DEF Normal, r
  <2>3. SortSceneCollections(s) = s
    BY <1>7, SortingAgain DEF Normal
  <2> QED BY <1>1, <2>2, <2>3
<1>8. t.metadata = RemoveEmptyMetadata(s).metadata
  BY <1>4, <1>6 DEF c
<1> QED BY <1>2, <1>4, <1>5, <1>6, <1>7, <1>8 DEF Normal

(***************************************************************************)
(* The builder.                                                            *)
(***************************************************************************)

(* The inductive invariant: the scene is good whatever the caller did, and *)
(* after a Build it is normal and the outcome is that of the validation.   *)
IInv ==
  /\ Good(scene, next_id)
  /\ next_id \in Id \ {NoId}
  /\ built # "none" => Normal(scene)
  /\ built # "none" => (built = "rejected" <=> ~ValidateScene(scene))

LEMMA Ranges ==
  /\ AnyId \subseteq Id /\ MaxIds + 1 \in Id /\ 6 \in Id /\ Id \subseteq Nat /\ NoId \in Id
  /\ \A n \in Nat, k \in Nat : n <= k /\ k \in Id => n \in Id
BY BuilderAssumption, SceneAssumption DEF AnyId, Id, NoId

LEMMA NewNode ==
  ASSUME NEW id \in Id, NEW parent \in Id
  PROVE  LET node == Node(id, parent) IN
         /\ node \in NodeType /\ node.id = id /\ node.children = << >> /\ node.parent = parent
         /\ node.mesh = NoId /\ node.camera = NoId /\ node.light = NoId
<1>1. << >> \in Seq(Id)
  OBVIOUS
<1> QED BY <1>1, Ranges DEF Node, NodeType

LEMMA WithCamera ==
  ASSUME NEW x \in NodeType, NEW c \in Id,
         NEW y, y = [x EXCEPT !.camera = c, !.local = "placed"]
  PROVE  /\ y \in NodeType /\ y.id = x.id /\ y.children = x.children
         /\ y.mesh = x.mesh /\ y.camera = c /\ y.light = x.light
BY DEF NodeType

LEMMA WithLight ==
  ASSUME NEW x \in NodeType, NEW c \in Id,
         NEW y, y = [x EXCEPT !.light = c, !.local = "placed"]
  PROVE  /\ y \in NodeType /\ y.id = x.id /\ y.children = x.children
         /\ y.mesh = x.mesh /\ y.light = c /\ y.camera = x.camera
BY DEF NodeType

LEMMA AddingACamera ==
  ASSUME NEW s, NEW n \in Nat \ {0}, Good(s, n), n + 1 \in Id,
         NEW parent \in Id, NEW inRange \in BOOLEAN
  PROVE  Good(AddCameraTo(s, n, parent, inRange), n + 2)
<1> DEFINE x == [id |-> n, inRange |-> inRange]
           t == [s EXCEPT !.cameras = Append(@, x)]
           new == Node(n + 1, parent)
           node == [new EXCEPT !.camera = n, !.local = "placed"]
<1>1. n \in Id /\ x \in ResourceType
  BY Ranges, SceneAssumption DEF ResourceType, Id
<1>2. Shape(t)
  <2>1. Append(s.cameras, x) \in Seq(ResourceType)
    BY <1>1 DEF Good, Shape
  <2> QED BY <2>1 DEF Good, Shape
<1>3. Good(t, n + 1) /\ n \in Ids(t.cameras)
  <2>1. "cameras" \in Kinds \ {"nodes"} /\ x.id = n /\ t = [s EXCEPT !["cameras"] = Append(@, x)]
    BY DEF Kinds
  <2> HIDE DEF x, t
  <2> QED BY <1>2, <2>1, AddingAnObject
<1>4. /\ node \in NodeType /\ node.id = n + 1 /\ node.children = << >>
      /\ node.mesh = NoId /\ node.camera = n /\ node.light = NoId
  <2>1. /\ new \in NodeType /\ new.id = n + 1 /\ new.children = << >>
        /\ new.mesh = NoId /\ new.light = NoId
    BY NewNode
  <2> HIDE DEF new, node
  <2>2. node = [new EXCEPT !.camera = n, !.local = "placed"]
    BY DEF node
  <2> QED BY <1>1, <2>1, <2>2, WithCamera
<1> HIDE DEF x, t, new, node
<1>5. Good(AddNodeTo(t, node), n + 1 + 1)
  BY <1>3, <1>4, AddingANode
<1> QED BY <1>5 DEF AddCameraTo, x, t, node, new

LEMMA AddingALight ==
  ASSUME NEW s, NEW n \in Nat \ {0}, Good(s, n), n + 1 \in Id,
         NEW parent \in Id, NEW inRange \in BOOLEAN
  PROVE  Good(AddLightTo(s, n, parent, inRange), n + 2)
<1> DEFINE x == [id |-> n, inRange |-> inRange]
           t == [s EXCEPT !.lights = Append(@, x)]
           new == Node(n + 1, parent)
           node == [new EXCEPT !.light = n, !.local = "placed"]
<1>1. n \in Id /\ x \in ResourceType
  BY Ranges, SceneAssumption DEF ResourceType, Id
<1>2. Shape(t)
  <2>1. Append(s.lights, x) \in Seq(ResourceType)
    BY <1>1 DEF Good, Shape
  <2> QED BY <2>1 DEF Good, Shape
<1>3. Good(t, n + 1) /\ n \in Ids(t.lights)
  <2>1. "lights" \in Kinds \ {"nodes"} /\ x.id = n /\ t = [s EXCEPT !["lights"] = Append(@, x)]
    BY DEF Kinds
  <2> HIDE DEF x, t
  <2> QED BY <1>2, <2>1, AddingAnObject
<1>4. /\ node \in NodeType /\ node.id = n + 1 /\ node.children = << >>
      /\ node.mesh = NoId /\ node.camera = NoId /\ node.light = n
  <2>1. /\ new \in NodeType /\ new.id = n + 1 /\ new.children = << >>
        /\ new.mesh = NoId /\ new.camera = NoId
    BY NewNode
  <2> HIDE DEF new, node
  <2>2. node = [new EXCEPT !.light = n, !.local = "placed"]
    BY DEF node
  <2> QED BY <1>1, <2>1, <2>2, WithLight
<1> HIDE DEF x, t, new, node
<1>5. Good(AddNodeTo(t, node), n + 1 + 1)
  BY <1>3, <1>4, AddingANode
<1> QED BY <1>5 DEF AddLightTo, x, t, node, new

(***************************************************************************)
(* What the properties say follows from the invariant.                     *)
(***************************************************************************)

LEMMA SequenceRange ==
  ASSUME NEW S, NEW q \in Seq(S)
  PROVE  /\ Len(q) \in Nat /\ DOMAIN q = 1..Len(q)
         /\ Range(q) = {q[i] : i \in 1..Len(q)}
         /\ \A i \in 1..Len(q) : q[i] \in S
BY DEF Range

(* With the objects linked and the children listed, a reference of a node  *)
(* that does not resolve is that of its parent.                            *)
LEMMA NodesResolve ==
  ASSUME NEW s, NEW n, Good(s, n), ExactChildren(s.nodes)
  PROVE  (\A node \in Range(s.nodes) : NodeResolves(s, node)) <=>
         (\A node \in Range(s.nodes) : node.parent \in {NoId} \cup Ids(s.nodes))
<1>1. s.nodes \in Seq(NodeType)
  BY GoodNodes
<1>2. ASSUME NEW i \in 1..Len(s.nodes)
      PROVE  NodeResolves(s, s.nodes[i]) <=> s.nodes[i].parent \in {NoId} \cup Ids(s.nodes)
  <2> DEFINE node == s.nodes[i]
  <2>1. /\ Contains(Ids(s.meshes), node.mesh)
        /\ Contains(Ids(s.cameras), node.camera)
        /\ Contains(Ids(s.lights), node.light)
    BY DEF Good, Linked, Contains
  <2>2. node.children \in Seq(Id)
    <3>1. node \in NodeType
      BY <1>1
    <3> QED BY <3>1 DEF NodeType
  <2>3. ASSUME NEW child \in Range(node.children) PROVE child \in Ids(s.nodes)
    <3>1. PICK k \in 1..Len(node.children) : node.children[k] = child
      BY <2>2, SequenceRange
    <3>2. PICK j \in 1..Len(s.nodes) : child = s.nodes[j].id
      BY <3>1 DEF ExactChildren, IsChildList
    <3> QED BY <3>2 DEF Ids
  <2>4. Contains(Ids(s.nodes), node.parent) <=> node.parent \in {NoId} \cup Ids(s.nodes)
    BY DEF Contains
  <2> QED BY <2>1, <2>3, <2>4 DEF NodeResolves, Contains
<1>3. Range(s.nodes) = {s.nodes[i] : i \in 1..Len(s.nodes)}
  BY <1>1, SequenceRange
<1> QED BY <1>2, <1>3

LEMMA MeshesResolve ==
  ASSUME NEW s, NEW n, Good(s, n)
  PROVE  (\A mesh \in Range(s.meshes) : MeshResolves(s, mesh)) <=>
         (\A mesh \in Range(s.meshes) :
            /\ mesh.material \in {NoId} \cup Ids(s.materials)
            /\ ~\E k \in DOMAIN mesh.indices : mesh.indices[k] >= mesh.vertices)
<1>1. s.meshes \in Seq(MeshType)
  BY DEF Good, Shape
<1>2. Range(s.meshes) \subseteq MeshType
  BY <1>1, SequenceRange
<1>3. ASSUME NEW mesh \in MeshType
      PROVE  MeshResolves(s, mesh) <=>
               /\ mesh.material \in {NoId} \cup Ids(s.materials)
               /\ ~\E k \in DOMAIN mesh.indices : mesh.indices[k] >= mesh.vertices
  <2>1. mesh.indices \in Seq(Nat) /\ mesh.vertices \in Nat
    BY DEF MeshType
  <2>2. /\ DOMAIN mesh.indices = 1..Len(mesh.indices)
        /\ Range(mesh.indices) = {mesh.indices[k] : k \in 1..Len(mesh.indices)}
        /\ \A k \in 1..Len(mesh.indices) : mesh.indices[k] \in Nat
    BY <2>1, SequenceRange
  <2>3. (\A index \in Range(mesh.indices) : index < mesh.vertices) <=>
        ~\E k \in DOMAIN mesh.indices : mesh.indices[k] >= mesh.vertices
    <3>1. \A k \in 1..Len(mesh.indices) :
            mesh.indices[k] < mesh.vertices <=> ~(mesh.indices[k] >= mesh.vertices)
      BY <2>1, <2>2
    <3> QED BY <2>2, <3>1
  <2> QED BY <2>3 DEF MeshResolves, Contains
<1> QED BY <1>2, <1>3

LEMMA AnimationsResolve ==
  ASSUME NEW s, NEW n, Good(s, n), NEW animation \in Range(s.animations)
  PROVE  /\ ChannelsResolve(s, animation) <=>
              animation.channels[1].target \in {NoId} \cup Ids(s.nodes)
         /\ animation.inRange = TRUE <=>
              \A channel \in Range(animation.channels) : channel.ordered = TRUE
<1>1. PICK i \in 1..Len(s.animations) : animation = s.animations[i]
  BY SequenceRange DEF Good, Shape
<1>2. animation \in AnimationType
  BY <1>1 DEF Good, Shape
<1>3. Len(animation.channels) = 1 /\ animation.channels[1].ordered = animation.inRange
  BY <1>1 DEF Good, Linked
<1>4. animation.channels \in Seq([target : Id, ordered : BOOLEAN])
  BY <1>2 DEF AnimationType
<1>5. Range(animation.channels) = {animation.channels[1]}
  BY <1>3, <1>4, SequenceRange
<1> QED BY <1>3, <1>5 DEF ChannelsResolve, Contains

LEMMA UniqueFamilies ==
  ASSUME NEW s, NEW n, Good(s, n)
  PROVE  IdsUnique(s)
<1>1. ASSUME NEW a \in Kinds PROVE UniqueIds(s[a])
  <2>1. \A i \in 1..Len(s[a]) : s[a][i].id \in 1..n - 1
    BY DEF Good, Fresh
  <2>2. NoId \notin Ids(s[a])
    <3>1. \A x \in 1..n - 1 : x # NoId
      BY DEF NoId
    <3> QED BY <2>1, <3>1 DEF Ids
  <2>3. \A i, j \in 1..Len(s[a]) : i # j => s[a][i].id # s[a][j].id
    BY OneObject DEF Good
  <2> QED BY <2>2, <2>3 DEF UniqueIds
<1>2. Range(s.skeletons) = {}
  BY DEF Range, Good, Shape
<1> QED BY <1>1, <1>2 DEF IdsUnique, Kinds

LEMMA ValidationExact ==
  ASSUME Good(scene, next_id), ExactChildren(scene.nodes)
  PROVE  ValidateScene(scene) <=> ~CallerMistake
<1> DEFINE s == scene
           Materials == Range(s.materials)
           Textures == Range(s.textures)
           Cameras == Range(s.cameras)
           Lights == Range(s.lights)
           Animations == Range(s.animations)
           ParentsExist == \A node \in Range(s.nodes) : node.parent \in {NoId} \cup Ids(s.nodes)
           MeshesMatch == \A mesh \in Range(s.meshes) :
             /\ mesh.material \in {NoId} \cup Ids(s.materials)
             /\ ~\E k \in DOMAIN mesh.indices : mesh.indices[k] >= mesh.vertices
           TargetsExist == \A animation \in Animations :
             animation.channels[1].target \in {NoId} \cup Ids(s.nodes)
           InRange(X) == \A x \in X : x.inRange
<1>1. IdsUnique(s)
  BY UniqueFamilies
<1>2. \A material \in Materials : MaterialResolves(s, material)
  <2>1. \A material \in Materials : material.texture = NoId
    BY SequenceRange DEF Good, Shape, Linked
  <2> QED BY <2>1 DEF MaterialResolves, Contains
<1>3. \A skeleton \in Range(s.skeletons) : JointsResolve(skeleton)
  BY DEF Range, Good, Shape
<1>4. ReferencesResolve(s) <=> ParentsExist /\ MeshesMatch /\ TargetsExist
  BY <1>2, <1>3, NodesResolve, MeshesResolve, AnimationsResolve DEF ReferencesResolve
<1>5. ValuesInRange(s) <=> /\ InRange(Materials) /\ InRange(Textures) /\ InRange(Cameras)
                           /\ InRange(Lights) /\ InRange(Animations)
  BY AnimationsResolve DEF ValuesInRange
<1>6. /\ Families[3] = s.materials /\ Families[4] = s.textures
      /\ Families[5] = s.cameras /\ Families[6] = s.lights
  BY DEF Families
<1>7. (\E f \in 3..6 : \E x \in Range(Families[f]) : ~x.inRange) <=>
      ~(InRange(Materials) /\ InRange(Textures) /\ InRange(Cameras) /\ InRange(Lights))
  <2>1. \A f \in 3..6 : f = 3 \/ f = 4 \/ f = 5 \/ f = 6
    OBVIOUS
  <2>2. 3 \in 3..6 /\ 4 \in 3..6 /\ 5 \in 3..6 /\ 6 \in 3..6
    OBVIOUS
  <2> QED BY <1>6, <2>1, <2>2
<1>8. CallerMistake <=> ~(/\ ParentsExist /\ MeshesMatch /\ TargetsExist /\ InRange(Animations)
                          /\ InRange(Materials) /\ InRange(Textures) /\ InRange(Cameras)
                          /\ InRange(Lights) /\ WithinLimits(s))
  BY <1>7, Zenon DEF CallerMistake
<1> QED BY <1>1, <1>4, <1>5, <1>8 DEF ValidateScene

KindOf == <<"nodes", "meshes", "materials", "textures", "cameras", "lights", "animations">>

LEMMA FreshFamilies ==
  ASSUME Good(scene, next_id)
  PROVE  IdsFresh
<1>1. /\ DOMAIN Families = 1..7
      /\ \A f \in 1..7 : KindOf[f] \in Kinds /\ Families[f] = scene[KindOf[f]]
      /\ \A f, g \in 1..7 : KindOf[f] = KindOf[g] => f = g
  <2>1. DOMAIN Families = 1..7
    BY DEF Families
  <2>2. \A f \in 1..7 : f \in {1, 2, 3, 4, 5, 6, 7}
    OBVIOUS
  <2>3. \A f \in {1, 2, 3, 4, 5, 6, 7} :
          KindOf[f] \in Kinds /\ Families[f] = scene[KindOf[f]]
    BY DEF Families, KindOf, Kinds
  <2>4. \A f, g \in {1, 2, 3, 4, 5, 6, 7} : KindOf[f] = KindOf[g] => f = g
    BY DEF KindOf
  <2> QED BY <2>1, <2>2, <2>3, <2>4
<1>2. \A a \in Kinds : DOMAIN scene[a] = 1..Len(scene[a])
  BY SequenceRange DEF Good, Shape, Kinds
<1>3. ASSUME NEW f \in DOMAIN Families, NEW g \in DOMAIN Families,
             NEW i \in DOMAIN Families[f], NEW j \in DOMAIN Families[g],
             Families[f][i].id = Families[g][j].id
      PROVE  <<f, i>> = <<g, j>>
  <2>1. KindOf[f] = KindOf[g] /\ i = j
    <3>1. /\ i \in 1..Len(scene[KindOf[f]]) /\ j \in 1..Len(scene[KindOf[g]])
          /\ scene[KindOf[f]][i].id = scene[KindOf[g]][j].id
      BY <1>1, <1>2, <1>3
    <3>2. KindOf[f] \in Kinds /\ KindOf[g] \in Kinds /\ Fresh(scene, next_id)
      BY <1>1, <1>3 DEF Good
    <3> HIDE DEF KindOf
    <3> QED BY <3>1, <3>2, OneObject
  <2> QED BY <1>1, <2>1
<1>4. AllIds(scene) = UNION {Ids(scene[a]) : a \in Kinds}
  <2>1. Ids(scene.skeletons) = {} /\ Range(scene.skeletons) = {}
    BY DEF Good, Shape, Ids, Range
  <2> QED BY <2>1 DEF AllIds, Kinds
<1>5. AllIds(scene) = 1..next_id - 1
  <2>1. ASSUME NEW id \in AllIds(scene) PROVE id \in 1..next_id - 1
    <3>1. PICK a \in Kinds : id \in Ids(scene[a])
      BY <1>4
    <3> QED BY <3>1 DEF Good, Fresh, Ids
  <2>2. ASSUME NEW id \in 1..next_id - 1 PROVE id \in AllIds(scene)
    <3>1. PICK a \in Kinds : \E i \in 1..Len(scene[a]) : scene[a][i].id = id
      BY DEF Good, Fresh
    <3>2. id \in Ids(scene[a])
      BY <3>1 DEF Ids
    <3> QED BY <1>4, <3>2
  <2> QED BY <2>1, <2>2
<1> QED BY <1>3, <1>5 DEF IdsFresh

LEMMA MirroredChildren ==
  ASSUME Good(scene, next_id), built # "none" => ExactChildren(scene.nodes)
  PROVE  ChildrenMirrorParents
<1> DEFINE nodes == scene.nodes
<1>1. nodes \in Seq(NodeType)
  BY GoodNodes
<1>2. DOMAIN nodes = 1..Len(nodes) /\ Range(nodes) = {nodes[i] : i \in 1..Len(nodes)}
  BY <1>1, SequenceRange
<1> SUFFICES ASSUME NEW i \in 1..Len(nodes)
             PROVE  LET children == nodes[i].children
                        ofNode == {n.id : n \in {m \in Range(nodes) : m.parent = nodes[i].id}}
                    IN /\ Range(children) \subseteq ofNode
                       /\ \A k, l \in DOMAIN children : children[k] = children[l] => k = l
                       /\ built # "none" =>
                            /\ Range(children) = ofNode
                            /\ \A k \in 1..Len(children) - 1 : children[k] < children[k + 1]
  BY <1>2 DEF ChildrenMirrorParents
<1> DEFINE c == nodes[i].children
           ofNode == {n.id : n \in {m \in Range(nodes) : m.parent = nodes[i].id}}
<1>3. c \in Seq(Id)
  <2>1. nodes[i] \in NodeType
    BY <1>1
  <2> QED BY <2>1 DEF NodeType
<1>4. Len(c) \in Nat /\ DOMAIN c = 1..Len(c) /\ Range(c) = {c[k] : k \in 1..Len(c)}
  BY <1>3, SequenceRange
<1>5. /\ \A k \in 1..Len(c) :
           \E j \in 1..Len(nodes) : c[k] = nodes[j].id /\ nodes[j].parent = nodes[i].id
      /\ \A k, l \in 1..Len(c) : c[k] = c[l] => k = l
  BY DEF Good, ClaimsChildren
<1>6. ASSUME NEW x PROVE x \in ofNode <=>
        \E j \in 1..Len(nodes) : x = nodes[j].id /\ nodes[j].parent = nodes[i].id
  BY <1>2
<1> HIDE DEF c, ofNode, nodes
<1>7. Range(c) \subseteq ofNode
  BY <1>4, <1>5, <1>6
<1>8. ASSUME built # "none"
      PROVE  ofNode \subseteq Range(c) /\ \A k \in 1..Len(c) - 1 : c[k] < c[k + 1]
  <2>1. IsChildList(nodes, nodes[i].id, c)
    BY <1>8 DEF ExactChildren, c, nodes
  <2>2. ofNode \subseteq Range(c)
    <3>1. ASSUME NEW x \in ofNode PROVE x \in Range(c)
      <4>1. PICK j \in 1..Len(nodes) : x = nodes[j].id /\ nodes[j].parent = nodes[i].id
        BY <1>6
      <4>2. PICK k \in 1..Len(c) : c[k] = nodes[j].id
        BY <2>1, <4>1 DEF IsChildList
      <4> QED BY <1>4, <4>1, <4>2
    <3> QED BY <3>1
  <2>3. ASSUME NEW k \in 1..Len(c) - 1 PROVE c[k] < c[k + 1]
    <3>1. k \in 1..Len(c) /\ k + 1 \in 1..Len(c) /\ k < k + 1
      BY <1>4
    <3> QED BY <2>1, <3>1 DEF IsChildList
  <2> QED BY <2>2, <2>3
<1> QED BY <1>4, <1>5, <1>7, <1>8 DEF c, ofNode

(***************************************************************************)
(* The invariant holds.                                                    *)
(***************************************************************************)

LEMMA EmptyShape ==
  ASSUME NEW s, NEW nodes \in Seq(NodeType), NEW m, NEW e,
         e \in Seq(MeshType), e \in Seq(MaterialType), e \in Seq(ResourceType),
         e \in Seq(AnimationType), e \in {<< >>},
         s = [nodes |-> nodes, meshes |-> e, materials |-> e, textures |-> e, cameras |-> e,
              lights |-> e, skeletons |-> e, animations |-> e, metadata |-> m]
  PROVE  Shape(s)
BY DEF Shape

LEMMA EmptyFields ==
  ASSUME NEW s, NEW nodes, NEW m, NEW e,
         s = [nodes |-> nodes, meshes |-> e, materials |-> e, textures |-> e, cameras |-> e,
              lights |-> e, skeletons |-> e, animations |-> e, metadata |-> m]
  PROVE  /\ s["nodes"] = nodes /\ s["metadata"] = m
         /\ \A a \in {"meshes", "materials", "textures", "cameras", "lights", "animations"} :
              s[a] = e
OBVIOUS

LEMMA BaseScene ==
  ASSUME NEW base, NEW m,
         base = [EmptyScene EXCEPT !.nodes = <<Node(1, NoId)>>, !.metadata = m]
  PROVE  Good(base, 2)
<1>0. PICK only, e :
        /\ only = <<Node(1, NoId)>> /\ e = << >>
        /\ base = [nodes |-> only, meshes |-> e, materials |-> e, textures |-> e,
                   cameras |-> e, lights |-> e, skeletons |-> e, animations |-> e,
                   metadata |-> m]
  <2>1. ASSUME NEW only, NEW e, only = <<Node(1, NoId)>>,
               EmptyScene = [nodes |-> e, meshes |-> e, materials |-> e, textures |-> e,
                             cameras |-> e, lights |-> e, skeletons |-> e,
                             animations |-> e, metadata |-> e]
        PROVE  base = [nodes |-> only, meshes |-> e, materials |-> e, textures |-> e,
                       cameras |-> e, lights |-> e, skeletons |-> e, animations |-> e,
                       metadata |-> m]
    <3>1. base = [EmptyScene EXCEPT !.nodes = only, !.metadata = m]
      BY <2>1
    <3> QED BY <2>1, <3>1
  <2>2. EmptyScene = [nodes |-> << >>, meshes |-> << >>, materials |-> << >>,
                      textures |-> << >>, cameras |-> << >>, lights |-> << >>,
                      skeletons |-> << >>, animations |-> << >>, metadata |-> << >>]
    BY DEF EmptyScene
  <2> QED BY <2>1, <2>2, Zenon
<1>1. /\ base.nodes = <<Node(1, NoId)>> /\ base.metadata = m
      /\ \A a \in Kinds \ {"nodes"} : base[a] = << >>
  <2>1. \A a \in Kinds \ {"nodes"} :
          a \in {"meshes", "materials", "textures", "cameras", "lights", "animations"}
    BY DEF Kinds
  <2>2. base.nodes = only
    BY <1>0, EmptyFields
  <2>3. base.metadata = m
    BY <1>0
  <2>4. \A a \in {"meshes", "materials", "textures", "cameras", "lights", "animations"} :
          base[a] = e
    BY <1>0, EmptyFields
  <2>5. \A a \in Kinds \ {"nodes"} : base[a] = e
    BY <2>1, <2>4
  <2> QED BY <1>0, <2>2, <2>3, <2>5
<1> DEFINE root == Node(1, NoId)
<1>2. /\ root \in NodeType /\ root.id = 1 /\ root.children = << >>
      /\ root.mesh = NoId /\ root.camera = NoId /\ root.light = NoId
  <2>1. 1 \in Id /\ NoId \in Id
    BY SceneAssumption DEF Id, NoId
  <2> QED BY <2>1, NewNode
<1> HIDE DEF root
<1>3. base.nodes \in Seq(NodeType) /\ Len(base.nodes) = 1 /\ base.nodes[1] = root
  BY <1>1, <1>2 DEF root
<1>4. Shape(base)
  <2>1. /\ e \in Seq(MeshType) /\ e \in Seq(MaterialType) /\ e \in Seq(ResourceType)
        /\ e \in Seq(AnimationType) /\ e \in {<< >>}
    BY <1>0
  <2>2. only \in Seq(NodeType)
    BY <1>0, <1>2 DEF root
  <2> QED BY <1>0, <2>1, <2>2, EmptyShape
<1>5. \A a \in Kinds : \A i \in 1..Len(base[a]) : a = "nodes" /\ i = 1 /\ base[a][i] = root
  <2>1. ASSUME NEW a \in Kinds \ {"nodes"} PROVE 1..Len(base[a]) = {}
    <3>1. base[a] = << >> /\ Len(<< >>) = 0
      BY <1>1
    <3>2. Len(base[a]) = 0
      BY <3>1
    <3> QED BY <3>2
  <2>2. \A i \in 1..Len(base["nodes"]) : i = 1 /\ base["nodes"][i] = root
    BY <1>3
  <2> QED BY <2>1, <2>2
<1>6. Fresh(base, 2)
  <2>1. \A id \in 1..2 - 1 : id = 1
    OBVIOUS
  <2>2. "nodes" \in Kinds /\ 1 \in 1..Len(base["nodes"]) /\ base["nodes"][1].id = 1
    BY <1>2, <1>3 DEF Kinds
  <2>3. \A id \in 1..2 - 1 : \E a \in Kinds : \E i \in 1..Len(base[a]) : base[a][i].id = id
    BY <2>1, <2>2
  <2>4. \A a \in Kinds : \A i \in 1..Len(base[a]) : base[a][i].id \in 1..2 - 1
    BY <1>2, <1>5
  <2> QED BY <1>5, <2>3, <2>4 DEF Fresh
<1>7. Linked(base)
  <2>1. base["materials"] = << >> /\ base["animations"] = << >>
    BY <1>1 DEF Kinds
  <2>2. \A i \in 1..Len(base.nodes) : base.nodes[i] = root
    BY <1>3
  <2> QED BY <1>2, <2>1, <2>2 DEF Linked
<1>8. ClaimsChildren(base.nodes) /\ HasNode(base)
  <2>1. \A i \in 1..Len(base.nodes) : base.nodes[i].children = << >>
    BY <1>2, <1>3
  <2> QED BY <1>3, <2>1 DEF ClaimsChildren, HasNode
<1> QED BY <1>4, <1>6, <1>7, <1>8 DEF Good

LEMMA InitInvariant == Init => IInv
<1> SUFFICES ASSUME Init PROVE IInv
  OBVIOUS
<1>1. PICK camera \in BOOLEAN, light \in BOOLEAN, metadata \in BOOLEAN :
        LET base == [EmptyScene EXCEPT
                       !.nodes = <<Node(1, NoId)>>,
                       !.metadata =
                         IF metadata
                           THEN WithEntry(WithEntry(@, <<"generator">>,
                                                       <<"Binary Scene Engine">>),
                                          <<"profile">>, <<"procedural">>)
                           ELSE @]
            seen == IF camera THEN AddCameraTo(base, 2, 1, TRUE) ELSE base
            used == IF camera THEN 4 ELSE 2
        IN /\ scene = IF light THEN AddLightTo(seen, used, 1, TRUE) ELSE seen
           /\ next_id = IF light THEN used + 2 ELSE used
           /\ built = "none"
  BY DEF Init
<1> DEFINE m == IF metadata
                  THEN WithEntry(WithEntry(EmptyScene.metadata, <<"generator">>,
                                                                <<"Binary Scene Engine">>),
                                 <<"profile">>, <<"procedural">>)
                  ELSE EmptyScene.metadata
           base == [EmptyScene EXCEPT !.nodes = <<Node(1, NoId)>>, !.metadata = m]
           seen == IF camera THEN AddCameraTo(base, 2, 1, TRUE) ELSE base
           used == IF camera THEN 4 ELSE 2
<1>2. /\ scene = IF light THEN AddLightTo(seen, used, 1, TRUE) ELSE seen
      /\ next_id = IF light THEN used + 2 ELSE used
      /\ built = "none"
  BY <1>1
<1> HIDE DEF m
<1>3. Good(base, 2)
  BY BaseScene
<1> HIDE DEF base
<1>4. \A k \in 1..6 : k \in Id \ {NoId}
  BY Ranges, SceneAssumption DEF Id, NoId
<1>5. Good(seen, used) /\ used \in {2, 4}
  <2>1. /\ 2 \in Nat \ {0} /\ 2 + 1 \in Id /\ 1 \in Id /\ TRUE \in BOOLEAN /\ 2 + 2 = 4
    <3>1. 1 \in 1..6 /\ 3 \in 1..6 /\ 2 + 1 = 3 /\ 2 + 2 = 4
      OBVIOUS
    <3> QED BY <1>4, <3>1
  <2>2. Good(AddCameraTo(base, 2, 1, TRUE), 4)
    <3>1. Good(AddCameraTo(base, 2, 1, TRUE), 2 + 2)
      BY <1>3, <2>1, AddingACamera
    <3> QED BY <2>1, <3>1
  <2>3. CASE camera = TRUE
    BY <2>2, <2>3
  <2>4. CASE camera = FALSE
    BY <1>3, <2>4
  <2> QED BY <2>3, <2>4
<1> HIDE DEF seen, used
<1>6. Good(AddLightTo(seen, used, 1, TRUE), used + 2)
  <2>1. used \in Nat \ {0} /\ used + 1 \in Id /\ 1 \in Id
    BY <1>4, <1>5
  <2>2. TRUE \in BOOLEAN
    OBVIOUS
  <2> QED BY <1>5, <2>1, <2>2, AddingALight
<1>7. Good(scene, next_id) /\ next_id \in {2, 4, 6}
  <2>1. used + 2 \in {2, 4, 6} /\ used \in {2, 4, 6}
    BY <1>5
  <2>2. CASE light = TRUE
    BY <1>2, <1>6, <2>1, <2>2
  <2>3. CASE light = FALSE
    BY <1>2, <1>5, <2>1, <2>3
  <2> QED BY <2>2, <2>3
<1>8. next_id \in Id \ {NoId}
  BY <1>4, <1>7
<1> QED BY <1>2, <1>7, <1>8 DEF IInv

(* An action that adds objects keeps the invariant when the scene it       *)
(* leaves is good.                                                         *)
LEMMA Added ==
  ASSUME IInv, NEW n \in Nat, Allocates(n), Good(scene', next_id + n), built' = "none"
  PROVE  IInv'
<1>1. next_id' = next_id + n /\ next_id' <= MaxIds + 1
  BY DEF Allocates
<1>2. next_id \in Nat /\ next_id # 0
  BY Ranges DEF IInv, NoId
<1>3. next_id' \in Id \ {NoId}
  <2>1. next_id' \in Nat /\ next_id' # 0
    BY <1>1, <1>2
  <2> QED BY <1>1, <2>1, Ranges, BuilderAssumption DEF NoId
<1> QED BY <1>1, <1>3 DEF IInv

LEMMA NextIds ==
  ASSUME IInv
  PROVE  /\ Good(scene, next_id)
         /\ next_id \in Nat \ {0} /\ next_id \in Id
         /\ next_id + 1 \in Nat \ {0} /\ next_id + 1 + 1 = next_id + 2
         /\ Allocates(2) => next_id + 1 \in Id
         /\ scene.nodes[1].id \in Id
<1>1. Good(scene, next_id) /\ next_id \in Nat \ {0} /\ next_id \in Id
  BY Ranges DEF IInv, NoId
<1>2. ASSUME Allocates(2) PROVE next_id + 1 \in Id
  <2>1. next_id + 1 \in Nat /\ next_id + 1 <= MaxIds + 1
    BY <1>1, <1>2, BuilderAssumption DEF Allocates
  <2> QED BY <2>1, Ranges, BuilderAssumption
<1>3. scene.nodes[1].id \in Id
  BY <1>1, GoodNodes DEF Good, HasNode
<1> QED BY <1>1, <1>2, <1>3

LEMMA AddNodeStep ==
  ASSUME IInv, NEW parent \in AnyId, AddNode(parent)
  PROVE  IInv'
<1> DEFINE node == Node(next_id, parent)
<1>1. /\ node \in NodeType /\ node.id = next_id /\ node.children = << >>
      /\ node.mesh = NoId /\ node.camera = NoId /\ node.light = NoId
  BY NextIds, Ranges, NewNode
<1> HIDE DEF node
<1>2. Good(AddNodeTo(scene, node), next_id + 1)
  BY <1>1, NextIds, AddingANode
<1> QED BY <1>2, Added DEF AddNode, node

LEMMA AddMeshNodeStep ==
  ASSUME IInv, NEW shape \in Shapes, NEW material \in AnyId, NEW parent \in AnyId,
         AddMeshNode(shape, material, parent)
  PROVE  IInv'
<1> DEFINE under == IF parent = NoId THEN scene.nodes[1].id ELSE parent
           x == [id |-> next_id, material |-> material,
                 vertices |-> shape.vertices, indices |-> shape.indices]
           t == [scene EXCEPT !.meshes = Append(@, x)]
           new == Node(next_id + 1, under)
           node == [new EXCEPT !.mesh = next_id]
<1>1. /\ Allocates(2) /\ built' = "none"
      /\ scene' = AddNodeTo(t, node)
  BY DEF AddMeshNode
<1>2. under \in Id /\ x \in MeshType
  <2>1. material \in Id /\ shape.vertices \in Nat /\ shape.indices \in Seq(Nat)
    BY Ranges, BuilderAssumption
  <2> QED BY <2>1, NextIds, Ranges DEF MeshType
<1>3. Shape(t)
  <2>1. Append(scene.meshes, x) \in Seq(MeshType)
    BY <1>2, NextIds DEF Good, Shape
  <2> QED BY <2>1, NextIds DEF Good, Shape
<1>4. Good(t, next_id + 1) /\ next_id \in Ids(t.meshes)
  <2>1. "meshes" \in Kinds \ {"nodes"} /\ x.id = next_id
        /\ t = [scene EXCEPT !["meshes"] = Append(@, x)]
    BY DEF Kinds
  <2> HIDE DEF x, t
  <2> QED BY <1>3, <2>1, NextIds, AddingAnObject
<1> HIDE DEF under
<1>5. /\ new \in NodeType /\ new.id = next_id + 1 /\ new.children = << >>
      /\ new.camera = NoId /\ new.light = NoId
  BY <1>1, <1>2, NextIds, NewNode
<1> HIDE DEF new, x, t
<1>6. /\ node \in NodeType /\ node.id = next_id + 1 /\ node.children = << >>
      /\ node.mesh = next_id /\ node.camera = NoId /\ node.light = NoId
  BY <1>5, NextIds DEF NodeType
<1> HIDE DEF node
<1>7. Good(AddNodeTo(t, node), next_id + 1 + 1)
  BY <1>4, <1>6, NextIds, AddingANode
<1> QED BY <1>1, <1>7, NextIds, Added

LEMMA AddCameraStep ==
  ASSUME IInv, NEW parent \in AnyId, NEW inRange \in BOOLEAN, AddCamera(parent, inRange)
  PROVE  IInv'
<1>1. Allocates(2) /\ built' = "none" /\ parent \in Id
      /\ scene' = AddCameraTo(scene, next_id, parent, inRange)
  BY Ranges DEF AddCamera
<1>2. Good(scene', next_id + 2)
  BY <1>1, NextIds, AddingACamera
<1> QED BY <1>1, <1>2, Added

LEMMA AddLightStep ==
  ASSUME IInv, NEW parent \in AnyId, NEW inRange \in BOOLEAN, AddLight(parent, inRange)
  PROVE  IInv'
<1>1. Allocates(2) /\ built' = "none" /\ parent \in Id
      /\ scene' = AddLightTo(scene, next_id, parent, inRange)
  BY Ranges DEF AddLight
<1>2. Good(scene', next_id + 2)
  BY <1>1, NextIds, AddingALight
<1> QED BY <1>1, <1>2, Added

LEMMA AddMaterialStep ==
  ASSUME IInv, NEW inRange \in BOOLEAN, AddMaterial(inRange)
  PROVE  IInv'
<1> DEFINE x == [id |-> next_id, texture |-> NoId, inRange |-> inRange]
<1>1. /\ Allocates(1) /\ built' = "none"
      /\ scene' = [scene EXCEPT !["materials"] = Append(@, x)]
  BY DEF AddMaterial
<1>2. x \in MaterialType /\ x.id = next_id /\ x.texture = NoId
  BY NextIds, Ranges DEF MaterialType
<1> HIDE DEF x
<1>3. Shape(scene')
  <2>1. Append(scene.materials, x) \in Seq(MaterialType)
    BY <1>2, NextIds DEF Good, Shape
  <2> QED BY <1>1, <2>1, NextIds DEF Good, Shape
<1>4. Good(scene', next_id + 1)
  <2>1. "materials" \in Kinds \ {"nodes"}
    BY DEF Kinds
  <2> QED BY <1>1, <1>2, <1>3, <2>1, NextIds, AddingAnObject
<1> QED BY <1>1, <1>4, Added

LEMMA AddTextureStep ==
  ASSUME IInv, NEW inRange \in BOOLEAN, AddTexture(inRange)
  PROVE  IInv'
<1> DEFINE x == [id |-> next_id, inRange |-> inRange]
<1>1. /\ Allocates(1) /\ built' = "none"
      /\ scene' = [scene EXCEPT !["textures"] = Append(@, x)]
  BY DEF AddTexture
<1>2. x \in ResourceType /\ x.id = next_id
  BY NextIds DEF ResourceType
<1> HIDE DEF x
<1>3. Shape(scene')
  <2>1. Append(scene.textures, x) \in Seq(ResourceType)
    BY <1>2, NextIds DEF Good, Shape
  <2> QED BY <1>1, <2>1, NextIds DEF Good, Shape
<1>4. Good(scene', next_id + 1)
  <2>1. "textures" \in Kinds \ {"nodes"}
    BY DEF Kinds
  <2> QED BY <1>1, <1>2, <1>3, <2>1, NextIds, AddingAnObject
<1> QED BY <1>1, <1>4, Added

LEMMA AddLiftAnimationStep ==
  ASSUME IInv, NEW target \in AnyId, NEW inRange \in BOOLEAN, AddLiftAnimation(target, inRange)
  PROVE  IInv'
<1> DEFINE channels == <<[target |-> target, ordered |-> inRange]>>
           x == [id |-> next_id, inRange |-> inRange, channels |-> channels]
<1>1. /\ Allocates(1) /\ built' = "none"
      /\ scene' = [scene EXCEPT !["animations"] = Append(@, x)]
  BY DEF AddLiftAnimation
<1>2. /\ channels \in Seq([target : Id, ordered : BOOLEAN])
      /\ Len(channels) = 1 /\ channels[1].ordered = inRange
  BY Ranges
<1> HIDE DEF channels
<1>3. /\ x \in AnimationType /\ x.id = next_id
      /\ Len(x.channels) = 1 /\ x.channels[1].ordered = x.inRange
  BY <1>2, NextIds DEF AnimationType
<1> HIDE DEF x
<1>4. Shape(scene')
  <2>1. Append(scene.animations, x) \in Seq(AnimationType)
    BY <1>3, NextIds DEF Good, Shape
  <2> QED BY <1>1, <2>1, NextIds DEF Good, Shape
<1>5. Good(scene', next_id + 1)
  <2>1. "animations" \in Kinds \ {"nodes"}
    BY DEF Kinds
  <2> QED BY <1>1, <1>3, <1>4, <2>1, NextIds, AddingAnObject
<1> QED BY <1>1, <1>5, Added

(* A node that moves stays the node it is.                                 *)
LEMMA MovingANode ==
  ASSUME NEW s, NEW n, Good(s, n), NEW id,
         NEW t, t = [s EXCEPT !.nodes =
                       UpdateFirst(@, id, LAMBDA node : [node EXCEPT !.local = "moved"])]
  PROVE  Good(t, n) /\ t.metadata = s.metadata
<1> DEFINE nodes == s.nodes
           N == Len(nodes)
           Moved(x) == [x EXCEPT !.local = "moved"]
           Same(x, y) == /\ x.id = y.id /\ x.parent = y.parent /\ x.children = y.children
                         /\ x.mesh = y.mesh /\ x.camera = y.camera /\ x.light = y.light
           r == [i \in 1..N |->
                   IF nodes[i].id = id /\ \A j \in 1..i - 1 : nodes[j].id # id
                     THEN Moved(nodes[i]) ELSE nodes[i]]
<1>1. t = [s EXCEPT !.nodes = r]
  BY DEF UpdateFirst
<1>2. N \in Nat /\ \A i \in 1..N : nodes[i] \in NodeType
  BY DEF Good, Shape
<1>3. \A x \in NodeType : Moved(x) \in NodeType /\ Same(Moved(x), x) /\ Same(x, x)
  BY DEF NodeType
<1> HIDE DEF Moved, Same
<1>4. \A i \in 1..N : r[i] \in NodeType /\ Same(r[i], nodes[i])
  BY <1>2, <1>3
<1>5. r \in Seq(NodeType) /\ Len(r) = N
  <2>1. DOMAIN r = 1..N /\ r = [i \in 1..N |-> r[i]]
    OBVIOUS
  <2> HIDE DEF r, N
  <2>2. r \in [1..N -> NodeType] /\ N \in Nat
    BY <1>2, <1>4, <2>1
  <2> QED BY <2>2
<1> HIDE DEF r
<1>6. /\ Shape(t) /\ t.nodes = r /\ t.metadata = s.metadata
      /\ \A a \in Kinds \ {"nodes"} : t[a] = s[a]
  BY <1>1, <1>5 DEF Good, Shape, Kinds
<1>7. \A a \in Kinds : /\ Len(t[a]) = Len(s[a])
                       /\ \A i \in 1..Len(s[a]) : t[a][i].id = s[a][i].id
  <2>1. Len(t["nodes"]) = Len(s["nodes"])
    BY <1>5, <1>6
  <2>2. \A i \in 1..Len(s["nodes"]) : t["nodes"][i].id = s["nodes"][i].id
    BY <1>4, <1>6 DEF Same
  <2> QED BY <1>6, <2>1, <2>2
<1>8. Fresh(t, n)
  BY <1>7 DEF Good, Fresh
<1>9. Linked(t)
  <2>1. /\ t.meshes = s.meshes /\ t.cameras = s.cameras /\ t.lights = s.lights
        /\ t.materials = s.materials /\ t.animations = s.animations
    BY <1>6 DEF Kinds
  <2>2. \A i \in 1..N : /\ r[i].mesh = nodes[i].mesh /\ r[i].camera = nodes[i].camera
                        /\ r[i].light = nodes[i].light
    BY <1>4 DEF Same
  <2> QED BY <1>5, <1>6, <2>1, <2>2 DEF Good, Linked
<1>10. ClaimsChildren(t.nodes) /\ HasNode(t)
  <2>1. \A i \in 1..N : /\ r[i].id = nodes[i].id /\ r[i].parent = nodes[i].parent
                        /\ r[i].children = nodes[i].children
    BY <1>4 DEF Same
  <2>2. ClaimsChildren(r)
    BY <1>5, <2>1 DEF Good, ClaimsChildren
  <2> QED BY <1>5, <1>6, <2>2 DEF Good, HasNode
<1> QED BY <1>6, <1>8, <1>9, <1>10 DEF Good

LEMMA SetNodeTransformStep ==
  ASSUME IInv, NEW id \in AnyId, SetNodeTransform(id)
  PROVE  IInv'
<1>1. Good(scene', next_id)
  BY MovingANode DEF IInv, SetNodeTransform
<1> QED BY <1>1 DEF IInv, SetNodeTransform

LEMMA AddMetadataStep ==
  ASSUME IInv, NEW key, NEW value, AddMetadata(key, value)
  PROVE  IInv'
<1> DEFINE m == WithEntry(scene.metadata, key, value)
<1>1. /\ scene' = [scene EXCEPT !.metadata = m]
      /\ built' = "none" /\ next_id' = next_id
  BY DEF AddMetadata
<1> HIDE DEF m
<1>2. Shape(scene') /\ \A a \in Kinds : scene'[a] = scene[a]
  BY <1>1 DEF IInv, Good, Shape, Kinds
<1>3. Fresh(scene', next_id)
  BY <1>2 DEF IInv, Good, Fresh
<1>4. /\ scene'.nodes = scene.nodes /\ scene'.meshes = scene.meshes
      /\ scene'.cameras = scene.cameras /\ scene'.lights = scene.lights
      /\ scene'.materials = scene.materials /\ scene'.animations = scene.animations
  BY <1>2 DEF Kinds
<1>5. Good(scene', next_id)
  BY <1>2, <1>3, <1>4 DEF IInv, Good, Linked, HasNode
<1> QED BY <1>1, <1>5 DEF IInv

(* A Build leaves a normal scene, and leaves a normal one as it is.        *)
LEMMA BuildStep ==
  ASSUME IInv, Build
  PROVE  IInv' /\ (Normal(scene) => scene' = scene)
<1>1. Good(scene', next_id) /\ Normal(scene') /\ (Normal(scene) => scene' = scene)
  BY Normalizing DEF IInv, Build
<1>2. built' # "none" /\ (built' = "rejected" <=> ~ValidateScene(scene'))
  BY DEF Build
<1> QED BY <1>1, <1>2 DEF IInv, Build

LEMMA NextInvariant == IInv /\ [Next]_vars => IInv'
<1> SUFFICES ASSUME IInv, [Next]_vars PROVE IInv'
  OBVIOUS
<1>1. ASSUME NEW parent \in AnyId, AddNode(parent) PROVE IInv'
  BY <1>1, AddNodeStep
<1>2. ASSUME NEW parent \in AnyId, NEW shape \in Shapes, NEW material \in AnyId,
             AddMeshNode(shape, material, parent)
      PROVE  IInv'
  BY <1>2, AddMeshNodeStep
<1>3. ASSUME NEW parent \in AnyId, NEW inRange \in BOOLEAN, AddCamera(parent, inRange)
      PROVE  IInv'
  BY <1>3, AddCameraStep
<1>4. ASSUME NEW parent \in AnyId, NEW inRange \in BOOLEAN, AddLight(parent, inRange)
      PROVE  IInv'
  BY <1>4, AddLightStep
<1>5. ASSUME NEW inRange \in BOOLEAN, AddMaterial(inRange) PROVE IInv'
  BY <1>5, AddMaterialStep
<1>6. ASSUME NEW inRange \in BOOLEAN, AddTexture(inRange) PROVE IInv'
  BY <1>6, AddTextureStep
<1>7. ASSUME NEW target \in AnyId, NEW inRange \in BOOLEAN, AddLiftAnimation(target, inRange)
      PROVE  IInv'
  BY <1>7, AddLiftAnimationStep
<1>8. ASSUME NEW id \in AnyId, SetNodeTransform(id) PROVE IInv'
  BY <1>8, SetNodeTransformStep
<1>9. ASSUME NEW entry \in Entries, AddMetadata(entry[1], entry[2]) PROVE IInv'
  BY <1>9, AddMetadataStep
<1>10. ASSUME Build PROVE IInv'
  BY <1>10, BuildStep
<1>11. ASSUME UNCHANGED vars PROVE IInv'
  <2>1. scene' = scene /\ next_id' = next_id /\ built' = built
    BY <1>11 DEF vars
  <2> QED BY <2>1 DEF IInv
<1> QED BY <1>1, <1>2, <1>3, <1>4, <1>5, <1>6, <1>7, <1>8, <1>9, <1>10, <1>11 DEF Next

(* The scene of the builder is good after every call, and normal after a   *)
(* Build.                                                                  *)
THEOREM Invariance == Spec => []IInv
BY InitInvariant, NextInvariant, PTL DEF Spec

(* An id that an Add call returned designates one object for as long as    *)
(* the builder lives: Build, which sorts all collections, loses none.      *)
THEOREM IdsStayFresh == Spec => []IdsFresh
<1>1. IInv => IdsFresh
  BY FreshFamilies DEF IInv
<1> QED BY <1>1, Invariance, PTL

(* A child list only claims nodes that name its node as their parent, each *)
(* once; after a Build, accepted or not, it is all of them in order.       *)
THEOREM ChildListsMirrorParents == Spec => []ChildrenMirrorParents
<1>1. IInv => ChildrenMirrorParents
  BY MirroredChildren DEF IInv, Normal
<1> QED BY <1>1, Invariance, PTL

(* Build rejects a scene for a mistake of the caller and for nothing that  *)
(* the Add calls or the normalisation did themselves.                      *)
THEOREM OnlyMistakesAreRejected == Spec => []RejectsOnlyMistakes
<1>1. IInv => RejectsOnlyMistakes
  BY ValidationExact DEF IInv, Normal, RejectsOnlyMistakes
<1> QED BY <1>1, Invariance, PTL

(* A Build right after a Build leaves the scene as it is, so the copy the  *)
(* caller got and the scene the builder keeps stay the same.               *)
THEOREM BuildsSettle == Spec => BuildIsIdempotent
<1> DEFINE Settled == built # "none" /\ built' # "none" => scene' = scene
<1>1. ASSUME IInv, Next PROVE Settled
  <2>1. built' # "none" => Build
    BY <1>1 DEF Next, AddNode, AddMeshNode, AddCamera, AddLight, AddMaterial, AddTexture,
       AddLiftAnimation, SetNodeTransform, AddMetadata
  <2> QED BY <1>1, <2>1, BuildStep DEF IInv
<1>2. IInv /\ [Next]_vars => [Settled]_vars
  BY <1>1
<1> QED BY <1>2, Invariance, PTL DEF Spec, BuildIsIdempotent

(* The types that the ids do not matter to: metadata and outcome.          *)
Texts(m) == \A key \in DOMAIN m : key \in Text /\ m[key] \in Text

Typed == Texts(scene.metadata) /\ built \in {"none", "ok", "rejected"}

LEMMA OneWord ==
  ASSUME NEW Word, NEW word \in Word
  PROVE  <<word>> \in Seq(Word)
OBVIOUS

LEMMA TextEntry ==
  ASSUME NEW m, Texts(m), NEW key \in Text, NEW value \in Text
  PROVE  Texts(WithEntry(m, key, value))
BY DEF WithEntry, Texts

LEMMA AddedNodeMetadata ==
  ASSUME NEW s, "metadata" \in DOMAIN s, NEW node
  PROVE  "metadata" \in DOMAIN AddNodeTo(s, node) /\ AddNodeTo(s, node).metadata = s.metadata
<1> DEFINE r == NodesWith(s.nodes, node)
<1>1. AddNodeTo(s, node) = [s EXCEPT !.nodes = r]
  BY DEF AddNodeTo, NodesWith
<1> HIDE DEF r
<1> QED BY <1>1

LEMMA AddedMetadata ==
  ASSUME NEW s, "metadata" \in DOMAIN s, NEW id, NEW parent, NEW inRange \in BOOLEAN
  PROVE  /\ AddCameraTo(s, id, parent, inRange).metadata = s.metadata
         /\ AddLightTo(s, id, parent, inRange).metadata = s.metadata
         /\ "metadata" \in DOMAIN AddCameraTo(s, id, parent, inRange)
<1> DEFINE x == [id |-> id, inRange |-> inRange]
           c == [s EXCEPT !.cameras = Append(@, x)]
           l == [s EXCEPT !.lights = Append(@, x)]
           camera == [Node(id + 1, parent) EXCEPT !.camera = id, !.local = "placed"]
           light == [Node(id + 1, parent) EXCEPT !.light = id, !.local = "placed"]
<1>1. /\ AddCameraTo(s, id, parent, inRange) = AddNodeTo(c, camera)
      /\ AddLightTo(s, id, parent, inRange) = AddNodeTo(l, light)
  BY DEF AddCameraTo, AddLightTo
<1>2. /\ "metadata" \in DOMAIN c /\ c.metadata = s.metadata
      /\ "metadata" \in DOMAIN l /\ l.metadata = s.metadata
  OBVIOUS
<1> HIDE DEF c, l, camera, light
<1> QED BY <1>1, <1>2, AddedNodeMetadata

LEMMA InitTyped == Init => Typed
<1> SUFFICES ASSUME Init PROVE Typed
  OBVIOUS
<1>1. PICK camera \in BOOLEAN, light \in BOOLEAN, metadata \in BOOLEAN :
        LET base == [EmptyScene EXCEPT
                       !.nodes = <<Node(1, NoId)>>,
                       !.metadata =
                         IF metadata
                           THEN WithEntry(WithEntry(@, <<"generator">>,
                                                       <<"Binary Scene Engine">>),
                                          <<"profile">>, <<"procedural">>)
                           ELSE @]
            seen == IF camera THEN AddCameraTo(base, 2, 1, TRUE) ELSE base
            used == IF camera THEN 4 ELSE 2
        IN /\ scene = IF light THEN AddLightTo(seen, used, 1, TRUE) ELSE seen
           /\ next_id = IF light THEN used + 2 ELSE used
           /\ built = "none"
  BY DEF Init
<1> DEFINE m == IF metadata
                  THEN WithEntry(WithEntry(EmptyScene.metadata, <<"generator">>,
                                                                <<"Binary Scene Engine">>),
                                 <<"profile">>, <<"procedural">>)
                  ELSE EmptyScene.metadata
           base == [EmptyScene EXCEPT !.nodes = <<Node(1, NoId)>>, !.metadata = m]
           seen == IF camera THEN AddCameraTo(base, 2, 1, TRUE) ELSE base
           used == IF camera THEN 4 ELSE 2
<1>2. scene = (IF light THEN AddLightTo(seen, used, 1, TRUE) ELSE seen) /\ built = "none"
  BY <1>1
<1>3. Texts(m)
  <2>1. Texts(EmptyScene.metadata)
    <3>1. EmptyScene.metadata = << >>
      BY DEF EmptyScene
    <3>2. \A key \in DOMAIN << >> : FALSE
      OBVIOUS
    <3> QED BY <3>1, <3>2 DEF Texts
  <2>2. /\ <<"generator">> \in Text /\ <<"Binary Scene Engine">> \in Text
        /\ <<"profile">> \in Text /\ <<"procedural">> \in Text
    BY LiteralAssumption, OneWord DEF Text
  <2>3. Texts(WithEntry(EmptyScene.metadata, <<"generator">>, <<"Binary Scene Engine">>))
    BY <2>1, <2>2, TextEntry
  <2>4. Texts(WithEntry(WithEntry(EmptyScene.metadata, <<"generator">>,
                                                       <<"Binary Scene Engine">>),
                        <<"profile">>, <<"procedural">>))
    BY <2>2, <2>3, TextEntry
  <2>5. CASE metadata = TRUE
    BY <2>4, <2>5
  <2>6. CASE metadata = FALSE
    BY <2>1, <2>6
  <2> QED BY <2>5, <2>6
<1> HIDE DEF m
<1>4. "metadata" \in DOMAIN base /\ base.metadata = m
  BY DEF EmptyScene
<1> HIDE DEF base
<1>5. "metadata" \in DOMAIN seen /\ seen.metadata = m
  <2>0. /\ "metadata" \in DOMAIN AddCameraTo(base, 2, 1, TRUE)
        /\ AddCameraTo(base, 2, 1, TRUE).metadata = m
    <3>1. TRUE \in BOOLEAN
      OBVIOUS
    <3> QED BY <1>4, <3>1, AddedMetadata
  <2>1. CASE camera = TRUE
    BY <2>0, <2>1
  <2>2. CASE camera = FALSE
    BY <1>4, <2>2
  <2> QED BY <2>1, <2>2
<1> HIDE DEF seen, used
<1>6. scene.metadata = m
  <2>0. AddLightTo(seen, used, 1, TRUE).metadata = m
    <3>1. TRUE \in BOOLEAN
      OBVIOUS
    <3> QED BY <1>5, <3>1, AddedMetadata
  <2>1. CASE light = TRUE
    BY <1>2, <2>0, <2>1
  <2>2. CASE light = FALSE
    BY <1>2, <1>5, <2>2
  <2> QED BY <2>1, <2>2
<1> QED BY <1>2, <1>3, <1>6 DEF Typed

LEMMA NextTyped == IInv /\ Typed /\ [Next]_vars => Typed'
<1> SUFFICES ASSUME IInv, Typed, [Next]_vars PROVE Typed'
  OBVIOUS
<1>1. ASSUME scene'.metadata = scene.metadata, built' = "none" PROVE Typed'
  BY <1>1 DEF Typed
<1>2. Good(scene, next_id) /\ "metadata" \in DOMAIN scene
  BY DEF IInv, Good, Shape
<1>3. ASSUME NEW parent, AddNode(parent) PROVE Typed'
  BY <1>1, <1>2, <1>3, AddedNodeMetadata DEF AddNode
<1>4. ASSUME NEW parent, NEW shape, NEW material, AddMeshNode(shape, material, parent)
      PROVE  Typed'
  <2>1. built' = "none" /\ \E x, node : scene' = AddNodeTo([scene EXCEPT !.meshes = x], node)
    BY <1>4 DEF AddMeshNode
  <2>2. PICK x, node : scene' = AddNodeTo([scene EXCEPT !.meshes = x], node)
    BY <2>1
  <2> DEFINE t == [scene EXCEPT !.meshes = x]
  <2>3. "metadata" \in DOMAIN t /\ t.metadata = scene.metadata
    BY <1>2
  <2> HIDE DEF t
  <2>4. scene' = AddNodeTo(t, node)
    BY <2>2 DEF t
  <2> QED BY <1>1, <2>1, <2>3, <2>4, AddedNodeMetadata
<1>5. ASSUME NEW parent, NEW inRange \in BOOLEAN,
             AddCamera(parent, inRange) \/ AddLight(parent, inRange)
      PROVE  Typed'
  BY <1>1, <1>2, <1>5, AddedMetadata DEF AddCamera, AddLight
<1>6. ASSUME NEW inRange, AddMaterial(inRange) \/ AddTexture(inRange) PROVE Typed'
  BY <1>1, <1>2, <1>6 DEF AddMaterial, AddTexture
<1>7. ASSUME NEW target, NEW inRange, AddLiftAnimation(target, inRange) PROVE Typed'
  BY <1>1, <1>2, <1>7 DEF AddLiftAnimation
<1>8. ASSUME NEW id, SetNodeTransform(id) PROVE Typed'
  <2>1. scene'.metadata = scene.metadata /\ built' = "none"
    BY <1>2, <1>8, MovingANode DEF SetNodeTransform
  <2> QED BY <1>1, <2>1
<1>9. ASSUME NEW entry \in Entries, AddMetadata(entry[1], entry[2]) PROVE Typed'
  <2>1. entry[1] \in Text /\ entry[2] \in Text
    BY BuilderAssumption
  <2>2. scene'.metadata = WithEntry(scene.metadata, entry[1], entry[2]) /\ built' = "none"
    BY <1>2, <1>9 DEF AddMetadata
  <2> QED BY <2>1, <2>2, TextEntry DEF Typed
<1>10. ASSUME Build PROVE Typed'
  <2>1. scene'.metadata = RemoveEmptyMetadata(scene).metadata
    BY <1>2, <1>10, Normalizing DEF Build
  <2>2. \A key \in DOMAIN scene'.metadata :
          key \in DOMAIN scene.metadata /\ scene'.metadata[key] = scene.metadata[key]
    BY <1>2, <2>1 DEF RemoveEmptyMetadata
  <2> QED BY <1>10, <2>2 DEF Typed, Texts, Build
<1>11. CASE UNCHANGED vars
  BY <1>11 DEF vars, Typed
<1> QED BY <1>3, <1>4, <1>5, <1>6, <1>7, <1>8, <1>9, <1>10, <1>11 DEF Next

(* The scene stays well-formed data and the counter in its range.          *)
THEOREM TypeCorrectness == Spec => []TypeOK
<1>1. ASSUME IInv, Typed PROVE TypeOK
  <2>1. << >> \in Seq(SkeletonType)
    OBVIOUS
  <2>2. Shape(scene)
    BY <1>1 DEF IInv, Good
  <2>3. /\ scene.nodes \in Seq(NodeType) /\ scene.meshes \in Seq(MeshType)
        /\ scene.materials \in Seq(MaterialType) /\ scene.textures \in Seq(ResourceType)
        /\ scene.cameras \in Seq(ResourceType) /\ scene.lights \in Seq(ResourceType)
        /\ scene.skeletons = << >> /\ scene.animations \in Seq(AnimationType)
    BY <2>2 DEF Shape
  <2>4. DOMAIN scene = DOMAIN EmptyScene
    BY <2>2 DEF Shape, EmptyScene
  <2>5. \A key \in DOMAIN scene.metadata : key \in Text /\ scene.metadata[key] \in Text
    BY <1>1 DEF Typed, Texts
  <2>6. IsScene(scene)
    BY <2>1, <2>3, <2>4, <2>5 DEF IsScene
  <2> QED BY <1>1, <2>6 DEF IInv, Typed, TypeOK
<1> QED BY <1>1, Invariance, InitTyped, NextTyped, PTL DEF Spec
=============================================================================
