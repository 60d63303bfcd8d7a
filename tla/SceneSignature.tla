--------------------------- MODULE SceneSignature ---------------------------
(***************************************************************************)
(* The two ways of comparing scenes: as signatures, lists of paths and     *)
(* printed values (bse/scene_signature.cpp), and object by object          *)
(* (bse/scene_diff.cpp).  Objects are those of SceneModel with their       *)
(* payload added: names are texts, a vector is one number, and numbers are *)
(* finer than what is printed of them.                                     *)
(***************************************************************************)
EXTENDS SceneModel

CONSTANTS
  Grain,  \* how many floats print alike
  Texts   \* the texts of values, in the order of std::string

ASSUME SignatureAssumption == Grain \in Nat \ {0} /\ Texts \in Seq(STRING) /\ IsInjective(Texts)

-----------------------------------------------------------------------------
(* Signatures, as bags of entries: the list is sorted before it is used,   *)
(* and two entries may have one path.                                      *)

SignatureOptions == {"names", "metadata", "geometry", "animation"}

NameOmitted == <<"<name-omitted>">>
Number(n) == <<ToString(n)>>
FloatText(float) == Number(float \div Grain)
TransformText(t) == FloatText(t.translation) \o FloatText(t.rotation) \o FloatText(t.scale)

Entry(path, value) == [path |-> path, value |-> value]
Count(label, objects) == {Entry(<<label, "count">>, Number(Len(objects)))}

(* The entries of one object: its name, if names count, and its fields.    *)
Described(options, path, name, fields) ==
  {Entry(Append(path, f), fields[f]) : f \in DOMAIN fields}
    \cup (IF "names" \in options THEN {Entry(Append(path, "name"), name)} ELSE {})

NodeEntries(n, options) ==
  LET path == <<"node", ToString(n.id)>>
      children == SortIds(n.children)
  IN Described(options, path, n.name,
               [parent |-> Number(n.parent), mesh |-> Number(n.mesh), camera |-> Number(n.camera),
                light |-> Number(n.light), local |-> TransformText(n.local),
                childCount |-> Number(Len(children))])
       \cup {Entry(path \o <<"children", ToString(i)>>, Number(children[i])) : i \in DOMAIN children}

TextureEntries(t, options) ==
  Described(options, <<"texture", ToString(t.id)>>, t.name,
            [uri |-> t.uri, width |-> Number(t.width), height |-> Number(t.height),
             color_space |-> t.color_space])

(* Variant: the texture of a material is forgotten.                        *)
MaterialEntriesUntextured(m, options) ==
  Described(options, <<"material", ToString(m.id)>>, m.name,
            [base_color |-> FloatText(m.base_color), roughness |-> FloatText(m.roughness),
             metallic |-> FloatText(m.metallic)])

MaterialEntries(m, options) ==
  Described(options, <<"material", ToString(m.id)>>, m.name,
            [base_color |-> FloatText(m.base_color), roughness |-> FloatText(m.roughness),
             metallic |-> FloatText(m.metallic), base_color_texture |-> Number(m.texture)])

(* Without geometry only the numbers of vertices and indices count.        *)
MeshEntries(m, options) ==
  LET path == <<"mesh", ToString(m.id)>>
      At(part, i) == path \o <<part, ToString(i)>>
      Vertex(i) == Described({}, At("vertex", i), << >>,
                             [position |-> FloatText(m.corners[i].position),
                              normal |-> FloatText(m.corners[i].normal),
                              uv |-> FloatText(m.corners[i].uv)])
      geometry == UNION {Vertex(i) : i \in DOMAIN m.corners}
                    \cup {Entry(At("index", i), Number(m.indices[i])) : i \in DOMAIN m.indices}
  IN Described(options, path, m.name,
               [material |-> Number(m.material), vertexCount |-> Number(Len(m.corners)),
                indexCount |-> Number(Len(m.indices))])
       \cup (IF "geometry" \in options THEN geometry ELSE {})

CameraEntries(c, options) ==
  Described(options, <<"camera", ToString(c.id)>>, c.name,
            [fov |-> FloatText(c.fov), near |-> FloatText(c.near), far |-> FloatText(c.far)])

LightEntries(l, options) ==
  Described(options, <<"light", ToString(l.id)>>, l.name,
            [type |-> <<l.type>>, color |-> FloatText(l.color), intensity |-> FloatText(l.intensity)])

SkeletonEntries(k, options) ==
  Described(options, <<"skeleton", ToString(k.id)>>, k.name, [jointCount |-> Number(Len(k.joints))])

JointEntries(k, j, options) ==
  Described(options, <<"skeleton", ToString(k.id), "joint", ToString(j.id)>>, j.name,
            [parent |-> Number(j.parent), bind_pose |-> TransformText(j.bind_pose)])

AnimationEntries(a, options) ==
  LET path == <<"animation", ToString(a.id)>>
      Channel(i) == path \o <<"channel", ToString(i)>>
      Keys(i) == a.channels[i].keys
      KeyEntries(i, k) == Described({}, Channel(i) \o <<"key", ToString(k)>>, << >>,
                                    [time |-> FloatText(Keys(i)[k].time),
                                     transform |-> TransformText(Keys(i)[k].transform)])
  IN Described(options, path, a.name,
               [duration |-> FloatText(a.duration), channelCount |-> Number(Len(a.channels))])
       \cup UNION {Described({}, Channel(i), << >>,
                             [target |-> Number(a.channels[i].target),
                              keyCount |-> Number(Len(Keys(i)))]) : i \in DOMAIN a.channels}
       \cup UNION {UNION {KeyEntries(i, k) : k \in DOMAIN Keys(i)} : i \in DOMAIN a.channels}

(* ComputeSceneSignature.  Objects of one kind and id share their paths,   *)
(* and so do a metadata key "count" and the number of keys.                *)
ComputeSceneSignature(s, options) ==
  LET Lists == INSTANCE SequencesExt
      Group(label, objects, Entries(_, _)) ==
        <<Count(label, objects)>> \o Mapped(objects, LAMBDA x : Entries(x, options))
      JointsOf(k) == Mapped(k.joints, LAMBDA j : JointEntries(k, j, options))
      metadata == <<{Entry(<<"metadata", "count">>, Number(Cardinality(DOMAIN s.metadata)))},
                    {Entry(<<"metadata">> \o key, s.metadata[key]) : key \in DOMAIN s.metadata}>>
      parts ==
        <<{Entry(<<"scene", "name">>, IF "names" \in options THEN s.name ELSE NameOmitted)}>>
          \o (IF "metadata" \in options THEN metadata ELSE << >>)
          \o Group("nodes", s.nodes, NodeEntries)
          \o Group("textures", s.textures, TextureEntries)
          \o Group("materials", s.materials, MaterialEntries)
          \o Group("meshes", s.meshes, MeshEntries)
          \o Group("cameras", s.cameras, CameraEntries)
          \o Group("lights", s.lights, LightEntries)
          \o Group("skeletons", s.skeletons, SkeletonEntries)
          \o Lists!FlattenSeq(Mapped(s.skeletons, JointsOf))
          \o (IF "animation" \in options THEN Group("animations", s.animations, AnimationEntries)
              ELSE <<Count("animations", s.animations)>>)
  IN [e \in UNION Range(parts) |-> Cardinality({i \in DOMAIN parts : e \in parts[i]})]

(* Equal signatures have equal hashes, so only the entries decide.         *)
SceneSignaturesEquivalent(left, right) == left = right

ValueLess(a, b) ==
  LET Place(text) == CHOOSE n \in DOMAIN Texts : Texts[n] = text
  IN \E n \in 0..Len(a) :
       /\ n < Len(b) /\ SubSeq(a, 1, n) = SubSeq(b, 1, n)
       /\ n = Len(a) \/ Place(a[n + 1]) < Place(b[n + 1])

(* DiffSceneSignatures: maps from paths to values.  Entries are in the     *)
(* order of their values, and of those with one path the last one stays.   *)
Paths(signature) == {e.path : e \in DOMAIN signature}
ValueAt(signature, path) ==
  LET values == {e.value : e \in {x \in DOMAIN signature : x.path = path}}
  IN CHOOSE last \in values : \A v \in values \ {last} : ValueLess(v, last)

DiffSceneSignatures(left, right) ==
  {[kind |-> "removed", path |-> p] : p \in Paths(left) \ Paths(right)}
    \cup {[kind |-> "added", path |-> p] : p \in Paths(right) \ Paths(left)}
    \cup {[kind |-> "changed", path |-> p] :
            p \in {q \in Paths(left) \cap Paths(right) : ValueAt(left, q) # ValueAt(right, q)}}

-----------------------------------------------------------------------------
(* DiffScenes: the differences with their severity, as a set.              *)

Difference(severity, path) == [severity |-> severity, path |-> path]

CompareMembership(label, left, right) ==
  {Difference("breaking", <<label, ToString(id)>>) : id \in Ids(left) \ Ids(right)}
    \cup {Difference("info", <<label, ToString(id)>>) : id \in Ids(right) \ Ids(left)}

(* Objects of one id compared in what is shown of them, each part with the *)
(* severity of a change of it.                                             *)
CompareObjects(label, left, right, Shown(_), severity) ==
  CompareMembership(label, left, right)
    \cup {Difference(severity[p[2]], <<label, ToString(p[1]), p[2]>>) :
            p \in {q \in (Ids(left) \cap Ids(right)) \X (DOMAIN severity) :
                     Shown(FirstWithId(left, q[1]))[q[2]] # Shown(FirstWithId(right, q[1]))[q[2]]}}

DiffNodes(left, right) ==
  LET Shown(n) == [name |-> n.name, parent |-> n.parent, mesh |-> n.mesh, camera |-> n.camera,
                   light |-> n.light, translation |-> n.local.translation,
                   rotation |-> n.local.rotation, scale |-> n.local.scale, children |-> n.children]
  IN CompareObjects("nodes", left, right, Shown,
       [name |-> "info", parent |-> "breaking", mesh |-> "breaking", camera |-> "breaking",
        light |-> "breaking", translation |-> "warning", rotation |-> "warning",
        scale |-> "warning", children |-> "warning"])

(* Vertices are compared one by one only when there are equally many.      *)
DiffMeshes(left, right) ==
  LET Shown(m) == [name |-> m.name, material |-> m.material, vertices |-> Len(m.corners),
                   indices |-> m.indices]
      Corners(meshes, id) == FirstWithId(meshes, id).corners
      severity == [position |-> "warning", normal |-> "info", uv |-> "info"]
      Vertices(id) ==
        LET l == Corners(left, id)
            r == Corners(right, id)
        IN {Difference(severity[p[2]], <<"meshes", ToString(id), "vertices", ToString(p[1]), p[2]>>) :
              p \in {q \in (DOMAIN l) \X (DOMAIN severity) :
                       Len(l) = Len(r) /\ l[q[1]][q[2]] # r[q[1]][q[2]]}}
  IN CompareObjects("meshes", left, right, Shown,
       [name |-> "info", material |-> "breaking", vertices |-> "breaking", indices |-> "breaking"])
     \cup UNION {Vertices(id) : id \in Ids(left) \cap Ids(right)}

DiffMaterials(left, right) ==
  CompareObjects("materials", left, right, LAMBDA m : m,
    [name |-> "info", base_color |-> "warning", roughness |-> "warning", metallic |-> "warning",
     texture |-> "breaking"])

(* Variant: the size of a texture is its width.                            *)
DiffTexturesByWidth(left, right) ==
  CompareObjects("textures", left, right, LAMBDA t : [size |-> t.width] @@ t,
    [name |-> "info", uri |-> "warning", size |-> "warning", color_space |-> "info"])

DiffTextures(left, right) ==
  CompareObjects("textures", left, right, LAMBDA t : [size |-> <<t.width, t.height>>] @@ t,
    [name |-> "info", uri |-> "warning", size |-> "warning", color_space |-> "info"])

DiffCameras(left, right) ==
  CompareObjects("cameras", left, right, LAMBDA c : c,
    [name |-> "info", fov |-> "warning", near |-> "breaking", far |-> "breaking"])

DiffLights(left, right) ==
  CompareObjects("lights", left, right, LAMBDA l : l,
    [name |-> "info", type |-> "warning", color |-> "warning", intensity |-> "warning"])

DiffMetadata(left, right) ==
  {Difference("info", <<"metadata">> \o key) :
     key \in {k \in DOMAIN left \cup DOMAIN right :
                k \in DOMAIN left \cap DOMAIN right => left[k] # right[k]}}

DiffScenes(left, right) ==
  (IF left.name # right.name THEN {Difference("info", <<"scene", "name">>)} ELSE {})
    \cup DiffMetadata(left.metadata, right.metadata)
    \cup DiffNodes(left.nodes, right.nodes) \cup DiffMeshes(left.meshes, right.meshes)
    \cup DiffMaterials(left.materials, right.materials)
    \cup DiffTextures(left.textures, right.textures)
    \cup DiffCameras(left.cameras, right.cameras) \cup DiffLights(left.lights, right.lights)
    \cup CompareMembership("skeletons", left.skeletons, right.skeletons)
    \cup CompareMembership("animations", left.animations, right.animations)
=============================================================================
