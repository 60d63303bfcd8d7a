---------------------------- MODULE BinaryFormat ----------------------------
(***************************************************************************)
(* The binary scene format: what bse/serializer.cpp writes, and the lists  *)
(* of reads that bse/parser.cpp and bse/binary_inspector.cpp make of it.   *)
(* The three lists stand in three files and are translated one by one.     *)
(*                                                                         *)
(* Scenes carry here everything that is written.  A float is the number    *)
(* its bits make; a vector or a transform is a sequence of floats; a       *)
(* string is a sequence of bytes.  SceneModel's ValidateScene is used      *)
(* through Checked, which forgets the payload it does not look at.         *)
(***************************************************************************)
EXTENDS SceneModel

Seqs == INSTANCE SequencesExt

CONSTANTS
  ByteBase,        \* number of bytes: 256 in the code
  MaxStringBytes,  \* kMaxStringBytes
  FloatOne,        \* the bits of 1.0, of 180.0 and of infinity
  FloatHalfTurn,
  FloatInfinity

SignBit == (ByteBase ^ 4) \div 2

ASSUME FormatAssumption ==
  /\ ByteBase \in Nat \ {0, 1} /\ IdSpace = ByteBase ^ 8
  /\ MaxStringBytes \in Nat
  /\ 0 < FloatOne /\ FloatOne < FloatHalfTurn
  /\ FloatHalfTurn < FloatInfinity /\ FloatInfinity < SignBit

SceneMagic == <<1, 2, 3, 0>>
FormatMajor == 1
FormatMinor == 0

Width(type) ==
  CASE type = "u8" -> 1 [] type = "u16" -> 2 [] type \in {"u32", "f32"} -> 4 [] OTHER -> 8

-----------------------------------------------------------------------------
(* BinaryReader: one read at a position of the buffer.                     *)

Failed(error, position) == [error |-> error, position |-> position, value |-> 0]
Got(value, position) == [error |-> "none", position |-> position, value |-> value]

(* What the k-th of at most eight bytes counts, the lowest first.          *)
Place ==
  LET b == ByteBase
  IN <<1, b, b * b, b * b * b, b * b * b * b, b * b * b * b * b, b * b * b * b * b * b,
       b * b * b * b * b * b * b>>

Value(bytes, position, width) ==
  LET Part(k) == IF k <= width THEN bytes[position + k] * Place[k] ELSE 0
  IN Part(1) + Part(2) + Part(3) + Part(4) + Part(5) + Part(6) + Part(7) + Part(8)

ReadUnsigned(bytes, position, width) ==
  IF Len(bytes) - position < width
    THEN Failed("unexpected_eof", position)
    ELSE Got(Value(bytes, position, width), position + width)

(* Variant: the payload is not compared with what is left of the buffer.   *)
ReadStringUnbounded(bytes, position) ==
  LET length == ReadUnsigned(bytes, position, 4)
      end == length.position + length.value
  IN IF length.error # "none" THEN length
     ELSE IF length.value > MaxStringBytes THEN Failed("limit_exceeded", length.position)
     ELSE Got(SubSeq(bytes, length.position + 1, IF end < Len(bytes) THEN end ELSE Len(bytes)), end)

(* A length that is refused has been consumed.                             *)
ReadString(bytes, position) ==
  LET length == ReadUnsigned(bytes, position, 4)
      end == length.position + length.value
  IN IF length.error # "none" THEN length
     ELSE IF length.value > MaxStringBytes THEN Failed("limit_exceeded", length.position)
     ELSE IF Len(bytes) < end THEN Failed("unexpected_eof", length.position)
     ELSE Got(SubSeq(bytes, length.position + 1, end), end)

ReadOf(type, bytes, position) ==
  IF type = "string" THEN ReadString(bytes, position)
                     ELSE ReadUnsigned(bytes, position, Width(type))

-----------------------------------------------------------------------------
(* SerializeScene.                                                         *)

Unsigned(value, width) == [i \in 1..width |-> (value \div ByteBase ^ (i - 1)) % ByteBase]
U8(value) == Unsigned(value, 1)
U16(value) == Unsigned(value, 2)
U32(value) == Unsigned(value, 4)
U64(value) == Unsigned(value, 8)
String(text) == U32(Len(text)) \o text

Written(items, Write(_)) == Seqs!FlattenSeq(Mapped(items, Write))
Counted(items, Write(_)) == U32(Len(items)) \o Written(items, Write)
Floats(values) == Written(values, U32)

TextLess(a, b) ==
  \E n \in 0..Len(a) :
    /\ n < Len(b) /\ SubSeq(a, 1, n) = SubSeq(b, 1, n)
    /\ n = Len(a) \/ a[n + 1] < b[n + 1]
SortedMetadata(metadata) ==
  LET keys == Seqs!SetToSortSeq(DOMAIN metadata, TextLess)
  IN Mapped(keys, LAMBDA key : <<key, metadata[key]>>)

HeaderBytes == SceneMagic \o U16(FormatMajor) \o U16(FormatMinor) \o U32(0)
MetadataBytes(entry) == String(entry[1]) \o String(entry[2])
NodeBytes(n) ==
  U64(n.id) \o String(n.name) \o U64(n.parent) \o Floats(n.local) \o U64(n.mesh)
    \o U64(n.camera) \o U64(n.light) \o Counted(n.children, U64)
TextureBytes(t) ==
  U64(t.id) \o String(t.name) \o String(t.uri) \o U32(t.width) \o U32(t.height)
    \o String(t.color_space)
MaterialBytes(m) ==
  U64(m.id) \o String(m.name) \o Floats(m.base_color) \o U32(m.roughness) \o U32(m.metallic)
    \o U64(m.base_color_texture)
MeshBytes(m) ==
  U64(m.id) \o String(m.name) \o U64(m.material)
    \o Counted(m.vertices, LAMBDA v : Floats(v.position) \o Floats(v.normal) \o Floats(v.texcoord))
    \o Counted(m.indices, U32)
CameraBytes(c) == U64(c.id) \o String(c.name) \o U32(c.fov) \o U32(c.near) \o U32(c.far)
LightBytes(l) ==
  U64(l.id) \o String(l.name) \o U8(l.type) \o Floats(l.color) \o U32(l.intensity)
SkeletonBytes(s) ==
  U64(s.id) \o String(s.name)
    \o Counted(s.joints, LAMBDA j : U64(j.id) \o String(j.name) \o U64(j.parent) \o Floats(j.bind_pose))
AnimationBytes(a) ==
  U64(a.id) \o String(a.name) \o U32(a.duration)
    \o Counted(a.channels, LAMBDA c :
         U64(c.target) \o Counted(c.keys, LAMBDA k : U32(k.time) \o Floats(k.transform)))

SceneBytes(s) ==
  HeaderBytes \o String(s.name) \o Counted(SortedMetadata(s.metadata), MetadataBytes)
    \o Counted(s.nodes, NodeBytes) \o Counted(s.textures, TextureBytes)
    \o Counted(s.materials, MaterialBytes) \o Counted(s.meshes, MeshBytes)
    \o Counted(s.cameras, CameraBytes) \o Counted(s.lights, LightBytes)
    \o Counted(s.skeletons, SkeletonBytes) \o Counted(s.animations, AnimationBytes)

(* Every string that is written; one too long fails the call.              *)
Strings(s) ==
  LET Names(items) == {x.name : x \in Range(items)}
  IN UNION {{s.name}, DOMAIN s.metadata, Range(s.metadata), Names(s.nodes), Names(s.textures),
            {t.uri : t \in Range(s.textures)}, {t.color_space : t \in Range(s.textures)},
            Names(s.materials), Names(s.meshes), Names(s.cameras), Names(s.lights),
            Names(s.skeletons), Names(s.animations),
            UNION {Names(k.joints) : k \in Range(s.skeletons)}}

-----------------------------------------------------------------------------
(* What ValidateScene looks at.  The bits of floats that are not NaN are   *)
(* in the order of the numbers, but for the sign; NaN compares with none.  *)

IsNaN(float) == float % SignBit > FloatInfinity
IsFinite(float) == float % SignBit < FloatInfinity
Real(float) == IF float < SignBit THEN float ELSE SignBit - float
IsFinitePositive(float) == 0 < float /\ float < FloatInfinity
WithinUnit(float) == ~IsNaN(float) => Real(float) \in 0..FloatOne

MaterialInRange(m) == WithinUnit(m.roughness) /\ WithinUnit(m.metallic)
TextureInRange(t) == t.width # 0 /\ t.height # 0
CameraInRange(c) ==
  /\ IsFinitePositive(c.fov) /\ c.fov < FloatHalfTurn
  /\ IsFinitePositive(c.near) /\ IsFinitePositive(c.far) /\ c.near < c.far
LightInRange(l) == l.type \in 0..2 /\ IsFinitePositive(l.intensity)
AnimationInRange(a) == IsFinite(a.duration) /\ Real(a.duration) >= 0
KeysInRange(a, channel) ==
  \A i \in DOMAIN channel.keys :
    LET time == channel.keys[i].time
    IN /\ IsFinite(time) /\ Real(time) >= 0
       /\ ~IsNaN(a.duration) => Real(time) <= Real(a.duration)
       /\ i > 1 => Real(channel.keys[i - 1].time) <= Real(time)

(* The scene as SceneModel has it.                                         *)
Checked(s) ==
  [EmptyScene EXCEPT
    !.nodes = Mapped(s.nodes, LAMBDA n :
      [Node(n.id, n.parent) EXCEPT !.mesh = n.mesh, !.camera = n.camera, !.light = n.light,
                                   !.children = n.children]),
    !.meshes = Mapped(s.meshes, LAMBDA m :
      [id |-> m.id, material |-> m.material, vertices |-> Len(m.vertices), indices |-> m.indices]),
    !.materials = Mapped(s.materials, LAMBDA m :
      [id |-> m.id, texture |-> m.base_color_texture, inRange |-> MaterialInRange(m)]),
    !.textures = Mapped(s.textures, LAMBDA t : [id |-> t.id, inRange |-> TextureInRange(t)]),
    !.cameras = Mapped(s.cameras, LAMBDA c : [id |-> c.id, inRange |-> CameraInRange(c)]),
    !.lights = Mapped(s.lights, LAMBDA l : [id |-> l.id, inRange |-> LightInRange(l)]),
    !.skeletons = Mapped(s.skeletons, LAMBDA k :
      [id |-> k.id, joints |-> Mapped(k.joints, LAMBDA j : [id |-> j.id, parent |-> j.parent])]),
    !.animations = Mapped(s.animations, LAMBDA a :
      [id |-> a.id, inRange |-> AnimationInRange(a),
       channels |-> Mapped(a.channels, LAMBDA c :
         [target |-> c.target, ordered |-> KeysInRange(a, c)])])]

IsValid(s) == ValidateScene(Checked(s))

SerializeScene(s) ==
  LET ok == IsValid(s) /\ \A text \in Strings(s) : Len(text) <= MaxStringBytes
  IN [ok |-> ok, bytes |-> IF ok THEN SceneBytes(s) ELSE << >>]

-----------------------------------------------------------------------------
(* The reads of the two readers.  A read has a name, the types of the      *)
(* numbers it is made of, and whether errors are looked at after it: a     *)
(* call that only stores its result lets the next one read on from where   *)
(* the cursor is.  A loop reads as many items as the count before it says. *)

Read(name, parts) ==
  [do |-> "read", at |-> << >>, name |-> name, parts |-> parts, part |-> 1, checked |-> FALSE]
Id64(name) == Read(name, <<"u64">>)
Name(name) == Read(name, <<"string">>)
Number(name) == Read(name, <<"u32">>)
Float(name) == Read(name, <<"f32">>)
Vector(name, n) == Read(name, [i \in 1..n |-> "f32"])
Transform(name) == Vector(name, 10)

(* Errors are looked at after the last of several reads, or after each.    *)
Group(reads) == [reads EXCEPT ![Len(reads)].checked = TRUE]
Each(reads) == Mapped(reads, LAMBDA read : [read EXCEPT !.checked = TRUE])
Collection(name) == <<[do |-> "loop", at |-> << >>, name |-> name]>>

-----------------------------------------------------------------------------
(* ParseScene.                                                             *)

ParserHeader == Group(<<Read("major", <<"u16">>), Read("minor", <<"u16">>), Number("flags")>>)
ParserMetadata == Each(<<Name("key"), Name("value")>>)
(* Variant: the camera is read where the mesh was written.                 *)
ParserNodeSwapped ==
  Group(<<Id64("id"), Name("name"), Id64("parent"), Transform("local"), Id64("camera"),
          Id64("mesh"), Id64("light"), Number("children")>>)
    \o Collection("children")
ParserNode ==
  Group(<<Id64("id"), Name("name"), Id64("parent"), Transform("local"), Id64("mesh"),
          Id64("camera"), Id64("light"), Number("children")>>)
    \o Collection("children")
ParserTexture ==
  Group(<<Id64("id"), Name("name"), Name("uri"), Number("width"), Number("height"),
          Name("color_space")>>)
ParserMaterial ==
  Group(<<Id64("id"), Name("name"), Vector("base_color", 3), Float("roughness"),
          Float("metallic"), Id64("base_color_texture")>>)
ParserMesh ==
  Group(<<Id64("id"), Name("name"), Id64("material"), Number("vertices")>>)
    \o Collection("vertices") \o Each(<<Number("indices")>>) \o Collection("indices")
ParserVertex == Group(<<Vector("position", 3), Vector("normal", 3), Vector("texcoord", 2)>>)
ParserCamera == Group(<<Id64("id"), Name("name"), Float("fov"), Float("near"), Float("far")>>)
ParserLight ==
  Group(<<Id64("id"), Name("name"), Read("type", <<"u8">>), Vector("color", 3), Float("intensity")>>)
ParserSkeleton ==
  Group(<<Id64("id"), Name("name"), Number("joints")>>) \o Collection("joints")
ParserJoint == Group(<<Id64("id"), Name("name"), Id64("parent"), Transform("bind_pose")>>)
ParserAnimation ==
  Group(<<Id64("id"), Name("name"), Float("duration"), Number("channels")>>)
    \o Collection("channels")
ParserChannel == Group(<<Id64("target"), Number("keys")>>) \o Collection("keys")
ParserKey == Group(<<Float("time"), Transform("transform")>>)

(* The reads of one item of a collection.                                  *)
ParserReads ==
  [metadata |-> ParserMetadata, nodes |-> ParserNode, children |-> Each(<<Id64("")>>),
   textures |-> ParserTexture, materials |-> ParserMaterial, meshes |-> ParserMesh,
   vertices |-> ParserVertex, indices |-> Each(<<Number("")>>), cameras |-> ParserCamera,
   lights |-> ParserLight, skeletons |-> ParserSkeleton, joints |-> ParserJoint,
   animations |-> ParserAnimation, channels |-> ParserChannel, keys |-> ParserKey]

ParserScene ==
  LET Section(name) == Each(<<Number(name)>>) \o Collection(name)
  IN Each(<<Name("name")>>) \o Section("metadata") \o Section("nodes") \o Section("textures")
       \o Section("materials") \o Section("meshes") \o Section("cameras")
       \o Section("lights") \o Section("skeletons") \o Section("animations")

(* The scene put together from what was read: value[path] is what was read *)
(* at a path, such as <<"nodes", 2, "parent">>.  Of entries of the         *)
(* metadata with one key the first is kept.                                *)
SceneRead(value) ==
  LET Items(at, Make(_)) == [i \in 1..value[at] |-> Make(at \o <<i>>)]
      Vec(at, n) == [k \in 1..n |-> value[at \o <<k>>]]
      At(at, name) == value[at \o <<name>>]
      Plain(at) == value[at]
  IN [name |-> value[<<"name">>],
      metadata |->
        LET keys == Items(<<"metadata">>, LAMBDA at : At(at, "key"))
            First(key) == CHOOSE i \in DOMAIN keys :
                            keys[i] = key /\ \A j \in 1..i - 1 : keys[j] # key
        IN [key \in Range(keys) |-> value[<<"metadata", First(key), "value">>]],
      nodes |-> Items(<<"nodes">>, LAMBDA at :
        [id |-> At(at, "id"), name |-> At(at, "name"), parent |-> At(at, "parent"),
         local |-> Vec(at \o <<"local">>, 10), mesh |-> At(at, "mesh"),
         camera |-> At(at, "camera"), light |-> At(at, "light"),
         children |-> Items(at \o <<"children">>, Plain)]),
      textures |-> Items(<<"textures">>, LAMBDA at :
        [id |-> At(at, "id"), name |-> At(at, "name"), uri |-> At(at, "uri"),
         width |-> At(at, "width"), height |-> At(at, "height"),
         color_space |-> At(at, "color_space")]),
      materials |-> Items(<<"materials">>, LAMBDA at :
        [id |-> At(at, "id"), name |-> At(at, "name"),
         base_color |-> Vec(at \o <<"base_color">>, 3), roughness |-> At(at, "roughness"),
         metallic |-> At(at, "metallic"), base_color_texture |-> At(at, "base_color_texture")]),
      meshes |-> Items(<<"meshes">>, LAMBDA at :
        [id |-> At(at, "id"), name |-> At(at, "name"), material |-> At(at, "material"),
         vertices |-> Items(at \o <<"vertices">>, LAMBDA v :
           [position |-> Vec(v \o <<"position">>, 3), normal |-> Vec(v \o <<"normal">>, 3),
            texcoord |-> Vec(v \o <<"texcoord">>, 2)]),
         indices |-> Items(at \o <<"indices">>, Plain)]),
      cameras |-> Items(<<"cameras">>, LAMBDA at :
        [id |-> At(at, "id"), name |-> At(at, "name"), fov |-> At(at, "fov"),
         near |-> At(at, "near"), far |-> At(at, "far")]),
      lights |-> Items(<<"lights">>, LAMBDA at :
        [id |-> At(at, "id"), name |-> At(at, "name"), type |-> At(at, "type"),
         color |-> Vec(at \o <<"color">>, 3), intensity |-> At(at, "intensity")]),
      skeletons |-> Items(<<"skeletons">>, LAMBDA at :
        [id |-> At(at, "id"), name |-> At(at, "name"),
         joints |-> Items(at \o <<"joints">>, LAMBDA j :
           [id |-> At(j, "id"), name |-> At(j, "name"), parent |-> At(j, "parent"),
            bind_pose |-> Vec(j \o <<"bind_pose">>, 10)])]),
      animations |-> Items(<<"animations">>, LAMBDA at :
        [id |-> At(at, "id"), name |-> At(at, "name"), duration |-> At(at, "duration"),
         channels |-> Items(at \o <<"channels">>, LAMBDA c :
           [target |-> At(c, "target"),
            keys |-> Items(c \o <<"keys">>, LAMBDA k :
              [time |-> At(k, "time"), transform |-> Vec(k \o <<"transform">>, 10)])])])]

-----------------------------------------------------------------------------
(* InspectBinaryScene, which looks at errors in other places.              *)

InspectedHeader == Group(<<Read("major", <<"u16">>), Read("minor", <<"u16">>), Number("flags")>>)
InspectedMetadata == Group(<<Name("key"), Name("value")>>)
InspectedNode ==
  Each(<<Id64("id"), Name("name"), Id64("parent"), Transform("local")>>)
    \o Group(<<Id64("mesh"), Id64("camera"), Id64("light"), Number("children")>>)
    \o Collection("children")
InspectedTexture ==
  Group(<<Id64("id"), Name("name"), Name("uri"), Number("width"), Number("height"),
          Name("color_space")>>)
InspectedMaterial ==
  Group(<<Id64("id"), Name("name")>>)
    \o Each(<<Vector("factors", 5), Id64("base_color_texture")>>)
InspectedMesh ==
  Group(<<Id64("id"), Name("name"), Id64("material"), Number("vertices")>>)
    \o Collection("vertices") \o Each(<<Number("indices")>>) \o Collection("indices")
InspectedVertex == Each(<<Vector("vertex", 8)>>)
InspectedCamera == Group(<<Id64("id"), Name("name")>>) \o Each(<<Vector("lens", 3)>>)
(* Variant: the type of a light is taken for a number of four bytes.       *)
InspectedLightWide ==
  Group(<<Id64("id"), Name("name"), Number("type")>>)
    \o Each(<<Vector("color_and_intensity", 4)>>)
InspectedLight ==
  Group(<<Id64("id"), Name("name"), Read("type", <<"u8">>)>>)
    \o Each(<<Vector("color_and_intensity", 4)>>)
InspectedSkeleton ==
  Group(<<Id64("id"), Name("name"), Number("joints")>>) \o Collection("joints")
InspectedJoint == Group(<<Id64("id"), Name("name"), Id64("parent"), Transform("bind_pose")>>)
InspectedAnimation ==
  Group(<<Id64("id"), Name("name"), Float("duration"), Number("channels")>>)
    \o Collection("channels")
InspectedChannel == Group(<<Id64("target_node"), Number("keys")>>) \o Collection("keys")
InspectedKey == Group(<<Float("time"), Transform("transform")>>)

InspectorReads ==
  [metadata |-> InspectedMetadata, nodes |-> InspectedNode, children |-> Each(<<Id64("")>>),
   textures |-> InspectedTexture, materials |-> InspectedMaterial, meshes |-> InspectedMesh,
   vertices |-> InspectedVertex, indices |-> Each(<<Number("")>>), cameras |-> InspectedCamera,
   lights |-> InspectedLight, skeletons |-> InspectedSkeleton, joints |-> InspectedJoint,
   animations |-> InspectedAnimation, channels |-> InspectedChannel, keys |-> InspectedKey]

InspectorPreamble ==
  Each(<<Name("scene.name"), Number("metadata")>>) \o Collection("metadata")

(* The eight Inspect functions, in the order in which they are called.     *)
InspectorSections ==
  <<"nodes", "textures", "materials", "meshes", "cameras", "lights", "skeletons", "animations">>
InspectorSection(name) == Each(<<Number(name)>>) \o Collection(name)
=============================================================================
