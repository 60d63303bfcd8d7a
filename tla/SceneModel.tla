----------------------------- MODULE SceneModel -----------------------------
(***************************************************************************)
(* The scene data model of bse/scene.hpp and the operations every other    *)
(* part of the library is built on: validation, normalisation and merging. *)
(*                                                                         *)
(* A scene is a record of collections, sequences in file order.  Objects   *)
(* refer to each other by 64-bit ids, 0 meaning "no reference"; arithmetic *)
(* on ids wraps at IdSpace.  Names, colours, coordinates and the other     *)
(* payload are left out; a numeric field that is only compared with a      *)
(* range is a boolean that says whether it is in range.  Metadata is a     *)
(* function on keys; keys and values are sequences of words, so that the   *)
(* empty string is << >> and the prefix a merge adds is one more word.     *)
(***************************************************************************)
EXTENDS Sorting, Functions, TLC

CONSTANTS
  IdSpace,      \* number of ids: 2^64 in the code
  MaxNodes,     \* ValidationLimits::max_nodes
  MaxVertices,  \* ValidationLimits::max_vertices
  MaxIndices    \* ValidationLimits::max_indices

ASSUME SceneAssumption ==
  /\ IdSpace \in Nat \ {0, 1}
  /\ MaxNodes \in Nat /\ MaxVertices \in Nat /\ MaxIndices \in Nat

NoId == 0
Id == 0..IdSpace - 1

Text == Seq(STRING)
EmptyText == << >>

Node(id, parent) ==
  [id |-> id, parent |-> parent, mesh |-> NoId, camera |-> NoId, light |-> NoId,
   local |-> "identity", children |-> << >>]

EmptyScene ==
  [nodes |-> << >>, meshes |-> << >>, materials |-> << >>, textures |-> << >>,
   cameras |-> << >>, lights |-> << >>, skeletons |-> << >>, animations |-> << >>,
   metadata |-> << >>]

MakeMinimalScene ==
  [EmptyScene EXCEPT !.nodes = <<Node(1, NoId)>>,
                     !.metadata = <<"generator">> :> <<"Binary Scene Engine">>]

(* The types of the objects, whatever the ids they use.                    *)
NodeType ==
  [id : Id, parent : Id, mesh : Id, camera : Id, light : Id,
   local : {"identity", "placed", "moved"}, children : Seq(Id)]
MeshType      == [id : Id, material : Id, vertices : Nat, indices : Seq(Nat)]
MaterialType  == [id : Id, texture : Id, inRange : BOOLEAN]
ResourceType  == [id : Id, inRange : BOOLEAN]
SkeletonType  == [id : Id, joints : Seq([id : Id, parent : Id])]
AnimationType == [id : Id, inRange : BOOLEAN, channels : Seq([target : Id, ordered : BOOLEAN])]

IsScene(s) ==
  /\ DOMAIN s = DOMAIN EmptyScene
  /\ s.nodes \in Seq(NodeType) /\ s.meshes \in Seq(MeshType)
  /\ s.materials \in Seq(MaterialType) /\ s.textures \in Seq(ResourceType)
  /\ s.cameras \in Seq(ResourceType) /\ s.lights \in Seq(ResourceType)
  /\ s.skeletons \in Seq(SkeletonType) /\ s.animations \in Seq(AnimationType)
  /\ \A key \in DOMAIN s.metadata : key \in Text /\ s.metadata[key] \in Text

Mapped(objects, F(_)) == [i \in 1..Len(objects) |-> F(objects[i])]

Ids(objects) == {objects[i].id : i \in 1..Len(objects)}

(* The first object with an id: every lookup of the library scans or       *)
(* indexes its collection in order.                                        *)
FirstWithId(objects, id) ==
  objects[CHOOSE i \in 1..Len(objects) :
            objects[i].id = id /\ \A j \in 1..i - 1 : objects[j].id # id]

(* The objects with the first one of that id, if there is one, changed.    *)
UpdateFirst(objects, id, F(_)) ==
  [i \in 1..Len(objects) |->
     IF objects[i].id = id /\ \A j \in 1..i - 1 : objects[j].id # id
       THEN F(objects[i]) ELSE objects[i]]

-----------------------------------------------------------------------------
(* Validation.                                                             *)

(* InsertUnique over a collection: no object has the reserved id, and no   *)
(* two have the same.                                                      *)
UniqueIds(objects) ==
  /\ NoId \notin Ids(objects)
  /\ \A i, j \in 1..Len(objects) : i # j => objects[i].id # objects[j].id

Contains(ids, id) == id = NoId \/ id \in ids

(* A sum of sizes, as the number of things that have these sizes.          *)
TotalOf(sizes) == Cardinality(UNION {{x} \X (1..sizes[x]) : x \in DOMAIN sizes})
Total(objects, Size(_)) == TotalOf(Mapped(objects, Size))

VertexCount(s) == Total(s.meshes, LAMBDA m : m.vertices)
IndexCount(s)  == Total(s.meshes, LAMBDA m : Len(m.indices))
WithinLimits(s) ==
  /\ Len(s.nodes) <= MaxNodes
  /\ VertexCount(s) <= MaxVertices
  /\ IndexCount(s) <= MaxIndices

(* The checks of one object of each kind, against the ids of the scene.    *)
NodeResolves(s, node) ==
  /\ Contains(Ids(s.nodes), node.parent)
  /\ Contains(Ids(s.meshes), node.mesh)
  /\ Contains(Ids(s.cameras), node.camera)
  /\ Contains(Ids(s.lights), node.light)
  /\ \A child \in Range(node.children) : Contains(Ids(s.nodes), child)
MeshResolves(s, mesh) ==
  /\ Contains(Ids(s.materials), mesh.material)
  /\ \A index \in Range(mesh.indices) : index < mesh.vertices
MaterialResolves(s, material) == Contains(Ids(s.textures), material.texture)
JointsResolve(skeleton) ==
  \A joint \in Range(skeleton.joints) : Contains(Ids(skeleton.joints), joint.parent)
ChannelsResolve(s, animation) ==
  \A channel \in Range(animation.channels) : Contains(Ids(s.nodes), channel.target)

(* Variant: animation targets are not looked up.                           *)
ReferencesResolveButTargets(s) ==
  /\ \A node \in Range(s.nodes) : NodeResolves(s, node)
  /\ \A mesh \in Range(s.meshes) : MeshResolves(s, mesh)
  /\ \A material \in Range(s.materials) : MaterialResolves(s, material)
  /\ \A skeleton \in Range(s.skeletons) : JointsResolve(skeleton)

ReferencesResolve(s) ==
  /\ \A node \in Range(s.nodes) : NodeResolves(s, node)
  /\ \A mesh \in Range(s.meshes) : MeshResolves(s, mesh)
  /\ \A material \in Range(s.materials) : MaterialResolves(s, material)
  /\ \A skeleton \in Range(s.skeletons) : JointsResolve(skeleton)
  /\ \A animation \in Range(s.animations) : ChannelsResolve(s, animation)

ValuesInRange(s) ==
  /\ \A x \in Range(s.materials) \cup Range(s.animations) : x.inRange
  /\ \A x \in Range(s.textures) \cup Range(s.cameras) \cup Range(s.lights) : x.inRange
  /\ \A animation \in Range(s.animations) :
       \A channel \in Range(animation.channels) : channel.ordered

IdsUnique(s) ==
  /\ UniqueIds(s.nodes) /\ UniqueIds(s.meshes) /\ UniqueIds(s.materials)
  /\ UniqueIds(s.textures) /\ UniqueIds(s.cameras) /\ UniqueIds(s.lights)
  /\ \A skeleton \in Range(s.skeletons) : UniqueIds(skeleton.joints)

(* True when ValidateScene returns Ok.  The ids of skeletons and of        *)
(* animations are not looked at, nor whether parents form a cycle, nor     *)
(* whether child lists agree with parents.                                 *)
ValidateScene(s) ==
  WithinLimits(s) /\ IdsUnique(s) /\ ReferencesResolve(s) /\ ValuesInRange(s)

-----------------------------------------------------------------------------
(* Normalisation.                                                          *)

(* Variant: the child lists are not emptied first.                         *)
RebuildByAppending(s) ==
  [s EXCEPT !.nodes = Mapped(@, LAMBDA n :
     [n EXCEPT !.children =
        SortIds(@ \o Mapped(SelectSeq(s.nodes, LAMBDA c : c.parent # NoId /\ c.parent = n.id),
                            LAMBDA c : c.id))])]

(* Each node's child list becomes the ids of the nodes that name it as     *)
(* their parent.  Of nodes that share an id only the first gets children.  *)
RebuildChildLists(s) ==
  LET nodes == s.nodes
      First(i) == \A j \in 1..i - 1 : nodes[j].id # nodes[i].id
      Under(id) == {i \in 1..Len(nodes) : nodes[i].parent # NoId /\ nodes[i].parent = id}
      ChildIds(id) == Mapped(PlacesById(nodes, Under(id)), LAMBDA node : node.id)
  IN [s EXCEPT !.nodes =
        [i \in 1..Len(nodes) |->
           [nodes[i] EXCEPT !.children =
              IF First(i) THEN ChildIds(nodes[i].id) ELSE << >>]]]

(* Meshes no node uses, then materials no remaining mesh uses, then        *)
(* textures no remaining material uses.                                    *)
DropUnreferencedMeshes(s) ==
  [s EXCEPT !.meshes = SelectSeq(@, LAMBDA m : \E n \in Range(s.nodes) :
                                      n.mesh = m.id /\ n.mesh # NoId)]
DropUnreferencedMaterials(s) ==
  [s EXCEPT !.materials = SelectSeq(@, LAMBDA m : \E mesh \in Range(s.meshes) :
                                         mesh.material = m.id /\ mesh.material # NoId)]
DropUnreferencedTextures(s) ==
  [s EXCEPT !.textures = SelectSeq(@, LAMBDA t : \E m \in Range(s.materials) :
                                        m.texture = t.id /\ m.texture # NoId)]

SortSceneCollections(s) ==
  [s EXCEPT
     !.nodes = Mapped(SortById(@), LAMBDA n : [n EXCEPT !.children = SortIds(@)]),
     !.meshes = SortById(@), !.materials = SortById(@), !.textures = SortById(@),
     !.cameras = SortById(@), !.lights = SortById(@), !.animations = SortById(@),
     !.skeletons = Mapped(SortById(@), LAMBDA k : [k EXCEPT !.joints = SortById(@)])]

RemoveEmptyMetadata(s) ==
  [s EXCEPT !.metadata =
     [k \in {k \in DOMAIN s.metadata : k # EmptyText /\ s.metadata[k] # EmptyText} |->
        s.metadata[k]]]

(* NormalizeScene with the set of options that are on.                     *)
DefaultNormalization == {"remove_empty_metadata", "rebuild_child_lists", "sort_collections"}

NormalizeScene(s, options) ==
  LET On(option, Step(_), scene) == IF option \in options THEN Step(scene) ELSE scene
      Drop(scene) ==
        DropUnreferencedTextures(DropUnreferencedMaterials(DropUnreferencedMeshes(scene)))
  IN On("sort_collections", SortSceneCollections,
       On("drop_unreferenced_resources", Drop,
         On("rebuild_child_lists", RebuildChildLists,
           On("remove_empty_metadata", RemoveEmptyMetadata, s))))

-----------------------------------------------------------------------------
(* Merging.                                                                *)

AllIds(s) ==
  (UNION {Ids(s.nodes), Ids(s.meshes), Ids(s.materials), Ids(s.textures), Ids(s.cameras),
          Ids(s.lights), Ids(s.skeletons), Ids(s.animations)})
    \cup (UNION {Ids(skeleton.joints) : skeleton \in Range(s.skeletons)})

(* Variant: only the nodes count.                                          *)
MaxNodeId(s) == CHOOSE m \in Ids(s.nodes) \cup {0} : \A id \in Ids(s.nodes) : id <= m

MaxObjectId(s) == CHOOSE m \in AllIds(s) \cup {0} : \A id \in AllIds(s) : id <= m

(* MergeScenes' shift: ids wrap, a reference to nothing stays so.          *)
Shifted(id, offset) == IF id = NoId THEN NoId ELSE (id + offset) % IdSpace

(* Variant: an animation keeps its targets.                                *)
ShiftChannelNot(channel, offset) == channel
ShiftChannel(channel, offset) == [channel EXCEPT !.target = Shifted(@, offset)]

(* The right scene with every id and reference moved up.                   *)
ShiftIds(s, offset) ==
  LET Shift(id) == Shifted(id, offset)
      ShiftId(x) == [x EXCEPT !.id = Shift(@)]
  IN [s EXCEPT
        !.nodes = Mapped(@, LAMBDA n : [n EXCEPT !.id = Shift(@), !.parent = Shift(@),
                                          !.mesh = Shift(@), !.camera = Shift(@),
                                          !.light = Shift(@), !.children = Mapped(@, Shift)]),
        !.meshes = Mapped(@, LAMBDA m : [m EXCEPT !.id = Shift(@), !.material = Shift(@)]),
        !.materials = Mapped(@, LAMBDA m : [m EXCEPT !.id = Shift(@), !.texture = Shift(@)]),
        !.textures = Mapped(@, ShiftId),
        !.cameras = Mapped(@, ShiftId),
        !.lights = Mapped(@, ShiftId),
        !.skeletons = Mapped(@, LAMBDA k :
                        [k EXCEPT !.id = Shift(@),
                                  !.joints = Mapped(@, LAMBDA j :
                                     [j EXCEPT !.id = Shift(@), !.parent = Shift(@)])]),
        !.animations = Mapped(@, LAMBDA a :
                         [a EXCEPT !.id = Shift(@),
                                   !.channels = Mapped(@, LAMBDA c : ShiftChannel(c, offset))])]

(* A string is one of the words of a text, which the provers do not know.  *)
ASSUME WordAssumption == "right" \in STRING

(* unordered_map::emplace: a key the left scene has keeps its value.       *)
MergedMetadata(left, right) ==
  LET added == {<<"right">> \o k : k \in DOMAIN right}
  IN [k \in DOMAIN left \cup added |-> IF k \in DOMAIN left THEN left[k] ELSE right[Tail(k)]]

Merged(left, right) ==
  LET shifted == ShiftIds(right, (MaxObjectId(left) + 1) % IdSpace)
  IN NormalizeScene(
       [f \in DOMAIN left |->
          IF f = "metadata" THEN MergedMetadata(left.metadata, right.metadata)
                            ELSE left[f] \o shifted[f]],
       DefaultNormalization)

(* MergeScenes: the merged scene, or an error when it does not validate.   *)
MergeScenes(left, right) ==
  LET merged == Merged(left, right)
  IN [ok |-> ValidateScene(merged), scene |-> merged]
=============================================================================
