--------------------------- MODULE SceneInventory ---------------------------
(***************************************************************************)
(* Four functions that look at a scene and say what is used, what is       *)
(* missing and what is wrong, each with lookups of its own:                *)
(* BuildSceneManifest (bse/scene_manifest.cpp), BuildAssetCatalog          *)
(* (bse/asset_catalog.cpp), AuditSceneStructure with the searches it rests *)
(* on (bse/scene_stats.cpp) and LintScene (bse/scene_lint.cpp).  Lists     *)
(* that are sorted at the end are in the order they were collected in.     *)
(***************************************************************************)
EXTENDS SceneModel

CONSTANTS
  LargeTexture  \* LintOptions::large_texture_threshold

ASSUME InventoryAssumption == LargeTexture \in Nat

Flatten(lists) == LET M == INSTANCE SequencesExt IN M!FlattenSeq(lists)
Each(objects, Items(_)) == Flatten(Mapped(objects, Items))

-----------------------------------------------------------------------------
(* The manifest.                                                           *)

ResourceKinds ==
  {"node", "mesh", "material", "texture", "camera", "light", "skeleton", "animation"}

Resources(kind, objects) == Mapped(objects, LAMBDA x : [kind |-> kind, id |-> x.id])

(* AddReference: a reference to nothing is none; whether it resolves is    *)
(* looked up among the resources of its kind.                              *)
Reference(from_kind, from, to_kind, to, targets) ==
  IF to = NoId THEN << >>
  ELSE <<[from_kind |-> from_kind, from |-> from, to_kind |-> to_kind, to |-> to,
          resolved |-> to \in Ids(targets)]>>

(* Variant: the target of a channel counts as found.                       *)
ChannelReferencesTrusted(s, animation) ==
  Each(animation.channels, LAMBDA c :
    IF c.target = NoId THEN << >>
    ELSE <<[from_kind |-> "animation", from |-> animation.id, to_kind |-> "node", to |-> c.target,
            resolved |-> TRUE]>>)

ChannelReferences(s, animation) ==
  Each(animation.channels, LAMBDA c : Reference("animation", animation.id, "node", c.target, s.nodes))

NodeReferences(s, n) ==
  Reference("node", n.id, "node", n.parent, s.nodes)
    \o Reference("node", n.id, "mesh", n.mesh, s.meshes)
    \o Reference("node", n.id, "camera", n.camera, s.cameras)
    \o Reference("node", n.id, "light", n.light, s.lights)

BuildSceneManifest(s) ==
  [resources |->
     Resources("node", s.nodes) \o Resources("mesh", s.meshes)
       \o Resources("material", s.materials) \o Resources("texture", s.textures)
       \o Resources("camera", s.cameras) \o Resources("light", s.lights)
       \o Resources("skeleton", s.skeletons) \o Resources("animation", s.animations),
   references |->
     Each(s.nodes, LAMBDA n : NodeReferences(s, n))
       \o Each(s.meshes, LAMBDA m : Reference("mesh", m.id, "material", m.material, s.materials))
       \o Each(s.materials, LAMBDA m : Reference("material", m.id, "texture", m.texture, s.textures))
       \o Each(s.animations, LAMBDA a : ChannelReferences(s, a))]

FindUnresolvedReferences(manifest) == SelectSeq(manifest.references, LAMBDA r : ~r.resolved)

IncomingReferences(manifest, kind, id) ==
  SelectSeq(manifest.references, LAMBDA r : r.to_kind = kind /\ r.to = id)
OutgoingReferences(manifest, kind, id) ==
  SelectSeq(manifest.references, LAMBDA r : r.from_kind = kind /\ r.from = id)
ManifestContainsResource(manifest, kind, id) == [kind |-> kind, id |-> id] \in Range(manifest.resources)

(* One line per resource, and one per reference that leads nowhere.        *)
BuildManifestUsage(manifest) ==
  Mapped(manifest.resources, LAMBDA r :
    [kind |-> r.kind, id |-> r.id, unresolved |-> FALSE,
     incoming |-> Len(IncomingReferences(manifest, r.kind, r.id)),
     outgoing |-> Len(OutgoingReferences(manifest, r.kind, r.id))])
  \o Mapped(FindUnresolvedReferences(manifest), LAMBDA r :
    [kind |-> r.to_kind, id |-> r.to, unresolved |-> TRUE, incoming |-> 1, outgoing |-> 0])

FindUnusedManifestResources(manifest) ==
  SelectSeq(BuildManifestUsage(manifest),
            LAMBDA u : ~u.unresolved /\ u.incoming = 0 /\ u.kind # "node")

ManifestIsConsistent(manifest) ==
  /\ \A resource \in Range(manifest.resources) : resource.id # NoId
  /\ \A r \in Range(manifest.references) :
       /\ ManifestContainsResource(manifest, r.from_kind, r.from)
       /\ r.resolved => ManifestContainsResource(manifest, r.to_kind, r.to)

-----------------------------------------------------------------------------
(* The asset catalog.  A reference is noted at the first record of its     *)
(* kind and id; an animation is "referenced" by the nodes it moves.        *)

Record(kind, objects, i, owners) ==
  [kind |-> kind, id |-> objects[i].id,
   referenced_by |-> IF \A j \in 1..i - 1 : objects[j].id # objects[i].id
                       THEN owners ELSE << >>]

Records(kind, objects, users, field) ==
  LET Owners(id) == Mapped(SelectSeq(users, LAMBDA u : u[field] = id /\ id # NoId), LAMBDA u : u.id)
  IN [i \in DOMAIN objects |-> Record(kind, objects, i, Owners(objects[i].id))]

BuildAssetCatalog(s) ==
  LET Targets(a) == SelectSeq(Mapped(a.channels, LAMBDA c : c.target), LAMBDA t : t # NoId)
      Moved(id) == Each(SelectSeq(s.animations, LAMBDA a : a.id = id), Targets)
  IN Records("texture", s.textures, s.materials, "texture")
       \o Records("material", s.materials, s.meshes, "material")
       \o Records("mesh", s.meshes, s.nodes, "mesh")
       \o Records("camera", s.cameras, s.nodes, "camera")
       \o Records("light", s.lights, s.nodes, "light")
       \o [i \in DOMAIN s.animations |->
             Record("animation", s.animations, i, Moved(s.animations[i].id))]
       \o [i \in DOMAIN s.skeletons |-> Record("skeleton", s.skeletons, i, << >>)]

FindUnreferencedAssets(catalog) ==
  SelectSeq(catalog, LAMBDA r : r.referenced_by = << >> /\ r.kind \notin {"animation", "skeleton"})

-----------------------------------------------------------------------------
(* Searches, statistics and the audit.                                     *)

FindRootNodes(s) == {n.id : n \in {x \in Range(s.nodes) : x.parent = NoId}}
FindLeafNodes(s) == {n.id : n \in {x \in Range(s.nodes) : x.children = << >>}}

(* The breadth-first search from the roots along child lists, as the set   *)
(* it reaches: children that do not exist are reached, and lead no further.*)
FindReachableNodes(s) ==
  LET Children(id) == IF id \in Ids(s.nodes) THEN Range(FirstWithId(s.nodes, id).children) \ {NoId}
                                             ELSE {}
      reached[k \in 0..Len(s.nodes) + 1] ==
        IF k = 0 THEN FindRootNodes(s) \ {NoId}
                 ELSE LET before == reached[k - 1] IN before \cup UNION {Children(id) : id \in before}
  IN reached[Len(s.nodes) + 1]

FindUnreachableNodes(s) == Ids(s.nodes) \ (FindReachableNodes(s) \ {NoId})

FindReferencedMaterials(s) == {m.material : m \in Range(s.meshes)} \ {NoId}
FindReferencedTextures(s) == {m.texture : m \in Range(s.materials)} \ {NoId}

ComputeSceneStats(s) ==
  LET Triangles(m) == (IF m.indices = << >> THEN m.vertices ELSE Len(m.indices)) \div 3
  IN [root_node_count |-> Len(SelectSeq(s.nodes, LAMBDA n : n.parent = NoId)),
      leaf_node_count |-> Len(SelectSeq(s.nodes, LAMBDA n : n.children = << >>)),
      triangle_count |-> Total(s.meshes, Triangles),
      unindexed_mesh_count |-> Len(SelectSeq(s.meshes, LAMBDA m : m.indices = << >>)),
      referenced_material_count |-> Cardinality(FindReferencedMaterials(s)),
      referenced_texture_count |-> Cardinality(FindReferencedTextures(s)),
      skeleton_joint_count |-> Total(s.skeletons, LAMBDA k : Len(k.joints)),
      channel_count |-> Total(s.animations, LAMBDA a : Len(a.channels))]

Issue(code, subject) == [code |-> code, subject |-> subject]

NodeIssues(s, n) ==
  LET Exists(objects, id) == id \in Ids(objects)
      children == Range(n.children)
  IN {Issue("missing_parent", n.id) : p \in {n.parent} \ (Ids(s.nodes) \cup {NoId})}
       \cup {Issue("missing_child", n.id) : c \in {x \in children : ~Exists(s.nodes, x)}}
       \cup {Issue("child_parent_mismatch", n.id) :
               c \in {x \in children : Exists(s.nodes, x) /\ FirstWithId(s.nodes, x).parent # n.id}}
       \cup {Issue("missing_mesh", n.id) : m \in {n.mesh} \ (Ids(s.meshes) \cup {NoId})}

(* Cameras, lights and animation targets are not looked at.                *)
AuditSceneStructure(s) ==
  UNION {NodeIssues(s, n) : n \in Range(s.nodes)}
    \cup {Issue("missing_material", m.id) :
            m \in {x \in Range(s.meshes) : ~Contains(Ids(s.materials), x.material)}}
    \cup {Issue("bad_mesh_index", m.id) :
            m \in {x \in Range(s.meshes) : \E index \in Range(x.indices) : index >= x.vertices}}
    \cup {Issue("missing_texture", m.id) :
            m \in {x \in Range(s.materials) : ~Contains(Ids(s.textures), x.texture)}}
    \cup {Issue("unreachable_node", id) : id \in FindUnreachableNodes(s)}

-----------------------------------------------------------------------------
(* LintScene, with its default options.                                    *)

Finding(level, rule, subject) == [level |-> level, rule |-> rule, subject |-> subject]
EmptyName(name) == name \in {<< >>, <<"Untitled">>}

LintScene(s) ==
  LET All(objects, Bad(_), level, rule) ==
        {Finding(level, rule, x.id) : x \in {y \in Range(objects) : Bad(y)}}
      Nameless(x) == EmptyName(x.name)
      Bare(m) == \E corner \in Range(m.corners) : corner.normal = 0
      Large(t) == t.width > LargeTexture \/ t.height > LargeTexture
  IN {Finding("warning", "scene-name", NoId) : name \in {n \in {s.name} : EmptyName(n)}}
       \cup {Finding("error", "scene-root", NoId) : none \in {n \in {s.nodes} : n = << >>}}
       \cup All(s.nodes, Nameless, "warning", "object-name")
       \cup All(s.meshes, Nameless, "warning", "object-name")
       \cup All(s.materials, Nameless, "warning", "object-name")
       \cup All(s.meshes, Bare, "warning", "mesh-normal")
       \cup All(s.materials, LAMBDA m : m.id \notin FindReferencedMaterials(s), "note", "unused-material")
       \cup All(s.textures, LAMBDA t : t.id \notin FindReferencedTextures(s), "note", "unused-texture")
       \cup All(s.textures, Large, "warning", "large-texture")
       \cup {Finding("error", i.code, i.subject) : i \in AuditSceneStructure(s)}

HasLintErrors(findings) == \E f \in findings : f.level = "error"
=============================================================================
