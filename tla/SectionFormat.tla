--------------------------- MODULE SectionFormat ---------------------------
(***************************************************************************)
(* The older engine of src/bse.cpp without its file: its Scene class, the  *)
(* validator that goes with it, the walks over its nodes, and the lists of *)
(* fields that serializer and parser have for the sections of a file.      *)
(*                                                                         *)
(* A number and everything else of a fixed size (a colour, a transform, a  *)
(* vertex, a key of an animation) is one value, of two bytes, the lower    *)
(* one first; the length of a name is one byte.                            *)
(***************************************************************************)
EXTENDS RunLength, FiniteSets

Base == 2 * Flag
Pods == 0..Base * Base - 1

(* kInvalidObjectId.                                                       *)
NoObject == Base * Base - 1
MaxName == Base - 1

OlderKinds == {"meshes", "materials", "textures", "nodes", "animations"}
EmptyOlderScene ==
  [kind \in OlderKinds \cup {"skeletons", "cameras", "lights"} |-> << >>]

Where(objects, id) == {i \in DOMAIN objects : objects[i].id = id}

(* The index of ids is filled in order: the last object of an id is found. *)
Find(objects, id) ==
  LET places == Where(objects, id)
  IN IF places = {} THEN 0 ELSE CHOOSE i \in places : \A j \in places : j <= i

Finds(objects, id) == Find(objects, id) # 0
Found(objects, id) == objects[Find(objects, id)]

-----------------------------------------------------------------------------
(* Walks.  Endless ones are cut when they repeat a node.                   *)

(* The nodes from this one upwards: worldTransform multiplies their local  *)
(* transforms, depthOf and hasAncestor follow them.                        *)
Upwards(nodes, id) ==
  LET walk[n \in 0..Len(nodes) + 1] ==
        IF n = 0 THEN IF Finds(nodes, id) THEN <<id>> ELSE << >>
        ELSE LET below == walk[n - 1]
                 parent == Found(nodes, Last(below)).parent
             IN IF Len(below) < n \/ ~Finds(nodes, parent) \/ parent = NoObject
                  THEN below ELSE Append(below, parent)
  IN walk[Len(nodes) + 1]

IsEndless(nodes, walk) == Len(walk) > Len(nodes)

HasAncestor(nodes, id, ancestor) ==
  \E i \in DOMAIN Upwards(nodes, id) :
    LET parent == Found(nodes, Upwards(nodes, id)[i]).parent
    IN parent # NoObject /\ parent = ancestor

RootNodes(nodes) ==
  LET IsRoot(node) == node.parent = NoObject \/ ~Finds(nodes, node.parent)
      roots == SelectSeq(nodes, IsRoot)
  IN [i \in DOMAIN roots |-> roots[i].id]

(* The ways by which nodes below the given ones are visited, downwards,    *)
(* the shorter ways first.                                                 *)
Downwards(nodes, ids) ==
  LET Exists(way) == Finds(nodes, Last(way))
      Onwards(way, below) == SelectSeq([i \in DOMAIN below |-> Append(way, below[i])], Exists)
      Next(ways) == FlattenSeq([i \in DOMAIN ways |->
                                  Onwards(ways[i], Found(nodes, Last(ways[i])).children)])
      all[n \in 0..Len(nodes)] ==
        IF n = 0 THEN LET first == Onwards(<< >>, ids) IN [last |-> first, ways |-> first]
        ELSE LET before == all[n - 1]
                 next == Next(before.last)
             IN [last |-> next, ways |-> before.ways \o next]
  IN all[Len(nodes)].ways

Traverse(nodes) == Downwards(nodes, RootNodes(nodes))

(* descendantsOf also names children that do not exist.                    *)
Descendants(nodes, id) ==
  UNION {ToSet(Found(nodes, Last(way)).children) : way \in ToSet(Downwards(nodes, <<id>>))}

-----------------------------------------------------------------------------
(* SceneValidator with its default options: what is wrong, and with which  *)
(* object.                                                                 *)

(* Variant: only the first parent is compared with the node.               *)
IsItsParent(nodes, node) == node.parent = node.id
IsBelowCycle(nodes, node) == IsEndless(nodes, Upwards(nodes, node.id))

Issues(s) ==
  LET Missing(id, kind) == id # NoObject /\ ~Finds(s[kind], id)
      Wrong(i, what) ==
        LET node == s.nodes[i]
        IN CASE what = "duplicate" -> \E j \in 1..i - 1 : s.nodes[j].id = node.id
             [] what = "parent" -> Missing(node.parent, "nodes")
             [] what = "mesh" -> Missing(node.mesh, "meshes")
             [] what = "skeleton" -> Missing(node.skeleton, "skeletons")
             [] what = "camera" -> Missing(node.camera, "cameras")
             [] what = "light" -> Missing(node.light, "lights")
             [] what = "cycle" -> IsBelowCycle(s.nodes, node)
      OutOfRange(mesh) == \E index \in ToSet(mesh.indices) : index >= Len(mesh.vertices)
      ofNodes == {"duplicate", "parent", "mesh", "skeleton", "camera", "light", "cycle"}
  IN {issue \in ofNodes \X DOMAIN s.nodes : Wrong(issue[2], issue[1])}
       \cup {issue \in {"index"} \X DOMAIN s.meshes : OutOfRange(s.meshes[issue[2]])}
       \cup {issue \in {"material"} \X DOMAIN s.meshes :
               Missing(s.meshes[issue[2]].material, "materials")}

-----------------------------------------------------------------------------
(* What SceneSerializer writes.                                            *)

Pod(value) == <<value % Base, value \div Base>>
Each(values) == FlattenSeq([i \in DOMAIN values |-> Pod(values[i])])
Counted(values) == Pod(Len(values)) \o Each(values)

(* A length that its number cannot hold is cut, and the name with it.      *)
ShortName(name) == IF Len(name) > MaxName THEN SubSeq(name, 1, MaxName) ELSE name
Name(name) == <<Len(ShortName(name))>> \o ShortName(name)

WriteMesh(m) ==
  Pod(m.id) \o Name(m.name) \o Pod(m.material)
    \o Pod(Len(m.vertices)) \o Pod(Len(m.indices)) \o Each(m.vertices) \o Each(m.indices)

(* textureForSlot.                                                         *)
TextureForSlot(m, slot) == IF slot \in DOMAIN m.slots THEN m.slots[slot] ELSE NoObject

WriteMaterial(m) ==
  Pod(m.id) \o Name(m.name) \o Pod(m.color) \o Pod(m.metallic) \o Pod(m.roughness)
    \o Pod(TextureForSlot(m, "baseColor"))

WriteTexture(t) ==
  Pod(t.id) \o Name(t.name) \o Name(t.uri) \o Pod(t.width) \o Pod(t.height) \o Pod(t.format)

(* Variant: the references are written in the order of their declaration.  *)
WriteNodeAsDeclared(n) ==
  Pod(n.id) \o Name(n.name) \o Pod(n.parent) \o Pod(n.local)
    \o Pod(n.mesh) \o Pod(n.skeleton) \o Pod(n.camera) \o Pod(n.light)
WriteNode(n) ==
  Pod(n.id) \o Name(n.name) \o Pod(n.parent)
    \o Pod(n.mesh) \o Pod(n.skeleton) \o Pod(n.camera) \o Pod(n.light) \o Pod(n.local)

WriteChannel(c) ==
  Pod(c.target) \o Counted(c.translations) \o Counted(c.rotations) \o Counted(c.scales)
WriteAnimation(a) ==
  Pod(a.id) \o Name(a.name) \o Pod(a.duration) \o Pod(Len(a.channels))
    \o FlattenSeq([i \in DOMAIN a.channels |-> WriteChannel(a.channels[i])])

WriteObject(kind, object) ==
  CASE kind = "meshes" -> WriteMesh(object)
    [] kind = "materials" -> WriteMaterial(object)
    [] kind = "textures" -> WriteTexture(object)
    [] kind = "nodes" -> WriteNode(object)
    [] kind = "animations" -> WriteAnimation(object)

SectionOrder ==
  << "meshes", "materials", "textures", "nodes", "animations",
     "skeletons", "cameras", "lights", "metadata", "strings" >>

(* The last five sections always say that they hold nothing.               *)
SectionBytes(s, kind) ==
  IF kind \in OlderKinds
    THEN Pod(Len(s[kind])) \o FlattenSeq([i \in DOMAIN s[kind] |-> WriteObject(kind, s[kind][i])])
    ELSE Pod(0)

-----------------------------------------------------------------------------
(* What the parser reads: fields in turn, each after those before it.  A   *)
(* counted field has its count at the given place among them.              *)

Read(ok, next, value) == [ok |-> ok, next |-> next, value |-> value]

ReadPod(data, next) ==
  IF next + 2 <= Len(data) THEN Read(TRUE, next + 2, data[next + 1] + Base * data[next + 2])
                           ELSE Read(FALSE, next, 0)

ReadName(data, next) ==
  IF next < Len(data) /\ next + 1 + data[next + 1] <= Len(data)
    THEN Read(TRUE, next + 1 + data[next + 1], Slice(data, next + 1, data[next + 1]))
    ELSE Read(FALSE, next, << >>)

(* F of a value, which is worked out once.                                 *)
With(value, F(_)) == CHOOSE y \in {F(x) : x \in {value}} : TRUE

(* What comes after a read, if it succeeds: Get reads from where it ended. *)
Then(before, Get(_)) ==
  IF before.ok
    THEN With(Get(before), LAMBDA r : Read(r.ok, r.next, Append(before.value, r.value)))
    ELSE before

(* count times the same, until one fails.                                  *)
ReadEach(One(_, _), data, start, count) ==
  LET all[n \in 0..count] ==
        IF n = 0 THEN Read(TRUE, start, << >>)
        ELSE With(all[n - 1], LAMBDA before : Then(before, LAMBDA b : One(data, b.next)))
  IN all[count]

aPod == [type |-> "pod", count |-> 0]
aName == [type |-> "name", count |-> 0]
Many(place) == [type |-> "many", count |-> place]

ReadFields(fields, Counts(_, _, _), data, start) ==
  LET Field(f, b) ==
        CASE f.type = "pod" -> ReadPod(data, b.next)
          [] f.type = "name" -> ReadName(data, b.next)
          [] f.type = "many" -> Counts(data, b.next, b.value[f.count])
      all[n \in 0..Len(fields)] ==
        IF n = 0 THEN Read(TRUE, start, << >>)
        ELSE With(all[n - 1], LAMBDA before : Then(before, LAMBDA b : Field(fields[n], b)))
  IN all[Len(fields)]

ReadPods(data, next, count) == ReadEach(ReadPod, data, next, count)

ChannelOf(v) == [target |-> v[1], translations |-> v[3], rotations |-> v[5], scales |-> v[7]]

Made(r, Make(_)) == Read(r.ok, r.next, IF r.ok THEN Make(r.value) ELSE << >>)

ReadChannel(data, next) ==
  With(ReadFields(<<aPod, aPod, Many(2), aPod, Many(4), aPod, Many(6)>>, ReadPods, data, next),
       LAMBDA r : Made(r, ChannelOf))

ReadChannels(data, next, count) == ReadEach(ReadChannel, data, next, count)

FieldsOf(kind) ==
  CASE kind = "meshes" -> <<aPod, aName, aPod, aPod, aPod, Many(4), Many(5)>>
    [] kind = "materials" -> <<aPod, aName, aPod, aPod, aPod, aPod>>
    [] kind = "textures" -> <<aPod, aName, aName, aPod, aPod, aPod>>
    [] kind = "nodes" -> <<aPod, aName, aPod, aPod, aPod, aPod, aPod, aPod>>
    [] kind = "animations" -> <<aPod, aName, aPod, aPod, Many(4)>>

(* The object with these fields.  Only one texture slot is read, and no    *)
(* child lists are.                                                        *)
ObjectOf(kind, v) ==
  CASE kind = "meshes" ->
         [id |-> v[1], name |-> v[2], material |-> v[3], vertices |-> v[6], indices |-> v[7]]
    [] kind = "materials" ->
         [id |-> v[1], name |-> v[2], color |-> v[3], metallic |-> v[4], roughness |-> v[5],
          slots |-> [slot \in IF v[6] = NoObject THEN {} ELSE {"baseColor"} |-> v[6]]]
    [] kind = "textures" ->
         [id |-> v[1], name |-> v[2], uri |-> v[3], width |-> v[4], height |-> v[5], format |-> v[6]]
    [] kind = "nodes" ->
         [id |-> v[1], name |-> v[2], parent |-> v[3], mesh |-> v[4], skeleton |-> v[5],
          camera |-> v[6], light |-> v[7], local |-> v[8], children |-> << >>]
    [] kind = "animations" ->
         [id |-> v[1], name |-> v[2], duration |-> v[3], channels |-> v[5]]

ReadObject(kind, data, next) ==
  LET Counts(bytes, from, count) ==
        IF kind = "animations" THEN ReadChannels(bytes, from, count) ELSE ReadPods(bytes, from, count)
  IN With(ReadFields(FieldsOf(kind), Counts, data, next),
          LAMBDA r : Made(r, LAMBDA v : ObjectOf(kind, v)))

(* readCounted; bytes behind the last object are not looked at.            *)
ReadSection(kind, data) ==
  LET count == ReadPod(data, 0)
      One(bytes, next) == ReadObject(kind, bytes, next)
  IN IF count.ok THEN ReadEach(One, data, count.next, count.value) ELSE count

(* resolveReferences: each node enters the children of its parent, once.   *)
ResolveReferences(nodes) ==
  LET IsChild(k, id) ==
        /\ nodes[k].parent # NoObject /\ nodes[k].parent = id
        /\ \A j \in 1..k - 1 : nodes[j].parent = id => nodes[j].id # nodes[k].id
      Children(id) == SelectSeq([k \in DOMAIN nodes |-> k], LAMBDA k : IsChild(k, id))
      Ids(places) == [k \in DOMAIN places |-> nodes[places[k]].id]
  IN [i \in DOMAIN nodes |->
        IF Find(nodes, nodes[i].id) = i
          THEN [nodes[i] EXCEPT !.children = Ids(Children(nodes[i].id))] ELSE nodes[i]]

ParentsExist(nodes) ==
  \A node \in ToSet(nodes) : node.parent = NoObject \/ Finds(nodes, node.parent)
=============================================================================
