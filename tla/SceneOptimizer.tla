--------------------------- MODULE SceneOptimizer ---------------------------
(***************************************************************************)
(* The passes of bse/scene_optimizer.cpp, as operators on scenes, and what *)
(* they must leave as it was.  Here a node, mesh, camera, light, skeleton, *)
(* joint and animation has a tag, which stands for its payload; a material *)
(* and a texture has a look, the fields that duplicates are found by; a    *)
(* channel has its number of keys; and a mesh says whether its first two   *)
(* vertices lie within position_epsilon of each other.                     *)
(***************************************************************************)
EXTENDS SceneModel, FiniteSetsExt

SX == INSTANCE SequencesExt

CONSTANT Printed   \* the text a stream prints for each look: std::ostringstream

SamePoint(mesh, a, b) == a = b \/ (mesh.near /\ {a, b} = {0, 1})

DegenerateTriangle(mesh, triangle) ==
  \/ \E i \in 1..3 : triangle[i] >= mesh.vertices
  \/ \E i, j \in 1..3 : i < j /\ SamePoint(mesh, triangle[i], triangle[j])

(* Indices after the last whole triangle go too.                           *)
TrianglesLeft(mesh) ==
  LET triangles == [t \in 1..Len(mesh.indices) \div 3 |->
                      SubSeq(mesh.indices, 3 * t - 2, 3 * t)]
  IN SX!FlattenSeq(SelectSeq(triangles, LAMBDA t : ~DegenerateTriangle(mesh, t)))

RemoveDegenerateTriangles(s) ==
  [s EXCEPT !.meshes = Mapped(@, LAMBDA m : [m EXCEPT !.indices = TrianglesLeft(m)])]

(* Of the objects with equal keys the first stays, and references to the   *)
(* others are references to it.  If an id is that of several objects, the  *)
(* first of them that goes decides.                                        *)
Stays(keys, i) == \A j \in 1..i - 1 : keys[j] # keys[i]

Distinct(objects, keys) ==
  LET stay == {i \in 1..Len(objects) : Stays(keys, i)}
  IN Mapped(SX!SetToSortSeq(stay, <), LAMBDA i : objects[i])

(* Variant: references stay as they are.                                   *)
Unmapped(objects, keys, id) == id
Canonical(objects, keys, id) ==
  LET going == {i \in 1..Len(objects) : objects[i].id = id /\ ~Stays(keys, i)}
  IN IF going = {} THEN id
     ELSE objects[CHOOSE i \in 1..Len(objects) : Stays(keys, i) /\ keys[i] = keys[Min(going)]].id

TextureKeys(s)  == Mapped(s.textures, LAMBDA t : Printed[t.look])
MaterialKeys(s) == Mapped(s.materials, LAMBDA m : <<Printed[m.look], m.texture>>)

MergeDuplicateTextures(s) ==
  LET keys == TextureKeys(s)
  IN [s EXCEPT
        !.textures = Distinct(@, keys),
        !.materials = Mapped(@, LAMBDA m :
                        [m EXCEPT !.texture = Canonical(s.textures, keys, @)])]

MergeDuplicateMaterials(s) ==
  LET keys == MaterialKeys(s)
  IN [s EXCEPT
        !.materials = Distinct(@, keys),
        !.meshes = Mapped(@, LAMBDA m :
                     [m EXCEPT !.material = Canonical(s.materials, keys, @)])]

HasKeys(animation) == \E channel \in Range(animation.channels) : channel.keys > 0
StripEmptyAnimations(s) == [s EXCEPT !.animations = SelectSeq(@, HasKeys)]
StripEmptySkeletons(s) ==
  [s EXCEPT !.skeletons = SelectSeq(@, LAMBDA k : k.joints # << >>)]

(* BuildCompactionMap and RemapId: one numbering for objects of all kinds, *)
(* in the order of the old ids; an id that is no object's stays.           *)
Compacted(s, id) ==
  LET ids == AllIds(s) \ {NoId}
  IN IF id \in ids THEN Cardinality({x \in ids : x <= id}) ELSE id

CompactObjectIds(s) ==
  LET New(id) == Compacted(s, id)
      WithNewId(x) == [x EXCEPT !.id = New(@)]
  IN RebuildChildLists(
       [s EXCEPT
          !.nodes = Mapped(@, LAMBDA n : [n EXCEPT !.id = New(@), !.parent = New(@),
                                            !.mesh = New(@), !.camera = New(@),
                                            !.light = New(@), !.children = Mapped(@, New)]),
          !.meshes = Mapped(@, LAMBDA m : [m EXCEPT !.id = New(@), !.material = New(@)]),
          !.materials = Mapped(@, LAMBDA m : [m EXCEPT !.id = New(@), !.texture = New(@)]),
          !.textures = Mapped(@, WithNewId),
          !.cameras = Mapped(@, WithNewId),
          !.lights = Mapped(@, WithNewId),
          !.skeletons = Mapped(@, LAMBDA k :
                          [k EXCEPT !.id = New(@),
                                    !.joints = Mapped(@, LAMBDA j :
                                       [j EXCEPT !.id = New(@), !.parent = New(@)])]),
          !.animations = Mapped(@, LAMBDA a :
                           [a EXCEPT !.id = New(@),
                                     !.channels = Mapped(@, LAMBDA c :
                                        [c EXCEPT !.target = New(@)])])])

RemoveUnusedResources(s) ==
  DropUnreferencedTextures(DropUnreferencedMaterials(DropUnreferencedMeshes(s)))

OptimizationPass ==
  {"remove_degenerate_triangles", "remove_unused_resources", "merge_duplicate_textures",
   "merge_duplicate_materials", "compact_object_ids", "strip_empty_animations",
   "strip_empty_skeletons", "sort_collections"}

(* Variant: materials are compared before their textures are merged.       *)
MaterialsBeforeTextures ==
  <<"remove_degenerate_triangles", "merge_duplicate_materials", "merge_duplicate_textures",
    "strip_empty_animations", "strip_empty_skeletons", "remove_unused_resources",
    "compact_object_ids", "sort_collections">>

DefaultOptimizationPasses ==
  <<"remove_degenerate_triangles", "merge_duplicate_textures", "merge_duplicate_materials",
    "strip_empty_animations", "strip_empty_skeletons", "remove_unused_resources",
    "compact_object_ids", "sort_collections">>

(* The scene after RunPass, before it is validated.                        *)
RunPass(s, pass) ==
  CASE pass = "remove_degenerate_triangles" -> RemoveDegenerateTriangles(s)
    [] pass = "remove_unused_resources"     -> RemoveUnusedResources(s)
    [] pass = "merge_duplicate_textures"    -> MergeDuplicateTextures(s)
    [] pass = "merge_duplicate_materials"   -> MergeDuplicateMaterials(s)
    [] pass = "compact_object_ids"          -> CompactObjectIds(s)
    [] pass = "strip_empty_animations"      -> StripEmptyAnimations(s)
    [] pass = "strip_empty_skeletons"       -> StripEmptySkeletons(s)
    [] pass = "sort_collections"            -> SortSceneCollections(s)

RunPasses(s, passes) ==
  LET after[n \in 0..Len(passes)] == IF n = 0 THEN s ELSE RunPass(after[n - 1], passes[n])
  IN after[Len(passes)]

-----------------------------------------------------------------------------
(* What a scene shows: its nodes and animations with everything they refer *)
(* to in the place of ids.  Child lists are left out, which a pass may     *)
(* derive again from the parents, and so is what shows nothing: unused     *)
(* resources, degenerate triangles, animations and skeletons without keys  *)
(* and joints.                                                             *)
Referred(objects, id, View(_)) ==
  IF id \in Ids(objects) /\ id # NoId THEN <<View(FirstWithId(objects, id))>> ELSE << >>

Tag(x) == x.tag

View(s) ==
  LET TextureView(t) == Printed[t.look]
      MaterialView(m) == <<Printed[m.look], Referred(s.textures, m.texture, TextureView)>>
      MeshView(m) == <<m.tag, TrianglesLeft(m), Referred(s.materials, m.material, MaterialView)>>
      NodeView(n) == <<n.tag, Referred(s.nodes, n.parent, Tag), Referred(s.meshes, n.mesh, MeshView),
                       Referred(s.cameras, n.camera, Tag), Referred(s.lights, n.light, Tag)>>
      ChannelView(c) == <<c.keys, Referred(s.nodes, c.target, Tag)>>
      JointView(k) == {<<j.tag, Referred(k.joints, j.parent, Tag)>> : j \in Range(k.joints)}
  IN [nodes |-> {NodeView(n) : n \in Range(s.nodes)},
      animations |-> {<<a.tag, Mapped(a.channels, ChannelView)>> :
                        a \in Range(SelectSeq(s.animations, HasKeys))},
      skeletons |-> {<<k.tag, JointView(k)>> : k \in Range(s.skeletons)} \ {<<k.tag, {}>> : k \in Range(s.skeletons)}]

(* A view shows all that another one does, if it shows the same wherever   *)
(* that one has a reference that leads to an object.                       *)
ShowsAll(now, before) ==
  LET Reaches(a, b, Keeps(_, _)) == b = << >> \/ (a # << >> /\ Keeps(a[1], b[1]))
      Same(a, b) == a = b
      KeepsMaterial(a, b) == a[1] = b[1] /\ Reaches(a[2], b[2], Same)
      KeepsMesh(a, b) == a[1] = b[1] /\ a[2] = b[2] /\ Reaches(a[3], b[3], KeepsMaterial)
      KeepsNode(a, b) == /\ a[1] = b[1] /\ Reaches(a[2], b[2], Same) /\ Reaches(a[3], b[3], KeepsMesh)
                         /\ Reaches(a[4], b[4], Same) /\ Reaches(a[5], b[5], Same)
      KeepsLink(a, b) == a[1] = b[1] /\ Reaches(a[2], b[2], Same)
      KeepsAnimation(a, b) == /\ a[1] = b[1] /\ Len(a[2]) = Len(b[2])
                              /\ \A i \in DOMAIN b[2] : KeepsLink(a[2][i], b[2][i])
      KeepsSkeleton(a, b) == a[1] = b[1] /\ \A j \in b[2] : \E i \in a[2] : KeepsLink(i, j)
      KeepEach(kind, Keeps(_, _)) == \A b \in before[kind] : \E a \in now[kind] : Keeps(a, b)
  IN /\ KeepEach("nodes", KeepsNode) /\ KeepEach("animations", KeepsAnimation)
     /\ KeepEach("skeletons", KeepsSkeleton)
=============================================================================
