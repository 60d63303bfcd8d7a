------------------------------ MODULE TextScene ------------------------------
(***************************************************************************)
(* The text format of scenes, bse/text_scene.cpp: one line per object,     *)
(* vertex and index.  Objects are those of SceneModel, with the payload    *)
(* that is written added to them.  A vector is one number here.  Numbers   *)
(* are finer than what is printed of them: a stream prints six digits.     *)
(***************************************************************************)
EXTENDS TextLines

CONSTANTS
  Grain  \* how many floats print alike

ASSUME TextAssumption == Grain \in Nat \ {0}

One == 100 * Grain
Printed(float) == ((float + Grain \div 2) \div Grain) * Grain

-----------------------------------------------------------------------------
(* Objects with their payload, and the checks of ValidateScene on it.      *)

TextNode(id, name, parent, mesh, camera, light, translation, scale) ==
  [id |-> id, name |-> name, parent |-> parent, mesh |-> mesh, camera |-> camera,
   light |-> light, children |-> << >>,
   local |-> [translation |-> translation, rotation |-> 0, scale |-> scale]]
TextTexture(id, name, uri, width, height, color) ==
  [id |-> id, name |-> name, uri |-> uri, width |-> width, height |-> height, color |-> color,
   inRange |-> width # 0 /\ height # 0]
TextMaterial(id, name, base, roughness, metallic, texture) ==
  [id |-> id, name |-> name, base |-> base, roughness |-> roughness, metallic |-> metallic,
   texture |-> texture, inRange |-> roughness <= One /\ metallic <= One]
TextMesh(id, name, material, corners, indices) ==
  [id |-> id, name |-> name, material |-> material, corners |-> corners,
   vertices |-> Len(corners), indices |-> indices]
TextCamera(id, name, fov, near, far) ==
  [id |-> id, name |-> name, fov |-> fov, near |-> near, far |-> far,
   inRange |-> 0 < fov /\ fov < 180 * One /\ 0 < near /\ near < far]
TextLight(id, name, type, color, intensity) ==
  [id |-> id, name |-> name, type |-> type, color |-> color, intensity |-> intensity,
   inRange |-> intensity > 0]

-----------------------------------------------------------------------------
(* WriteTextScene.                                                         *)

(* Variant: only quotes are escaped.                                       *)
QuoteOnlyQuotes(text) ==
  <<"\"">> \o Substituted(text, LAMBDA c :
                CASE c = "\"" -> <<"\\", "\"">> [] c = Newline -> <<"\\", "n">> [] OTHER -> <<c>>)
    \o <<"\"">>

Quote(text) ==
  <<"\"">> \o Substituted(text, LAMBDA c :
                CASE c = "\\" -> <<"\\", "\\">> [] c = "\"" -> <<"\\", "\"">>
                  [] c = Newline -> <<"\\", "n">> [] c = Tab -> <<"\\", "t">> [] OTHER -> <<c>>)
    \o <<"\"">>

Put(key, text) == <<" ", key, "=">> \o text
PutName(object) == Put("name", Quote(object.name))
PutId(key, id) == Put(key, NumberText(id))
PutReference(key, id) == IF id = NoId THEN << >> ELSE PutId(key, id)
PutFloat(key, float) == Put(key, NumberText(Printed(float)))

MetaLine(key, value) == <<"meta">> \o Put("key", Quote(key)) \o Put("value", Quote(value))
NodeLine(n) ==
  <<"node">> \o PutId("id", n.id) \o PutName(n) \o PutReference("parent", n.parent)
    \o PutReference("mesh", n.mesh) \o PutReference("camera", n.camera)
    \o PutReference("light", n.light) \o PutFloat("translation", n.local.translation)
    \o PutFloat("scale", n.local.scale)
TextureLine(t) ==
  <<"texture">> \o PutId("id", t.id) \o PutName(t) \o Put("uri", Quote(t.uri))
    \o PutId("width", t.width) \o PutId("height", t.height) \o Put("color", Quote(t.color))
MaterialLine(m) ==
  <<"material">> \o PutId("id", m.id) \o PutName(m) \o PutFloat("base", m.base)
    \o PutFloat("roughness", m.roughness) \o PutFloat("metallic", m.metallic)
    \o PutReference("texture", m.texture)
MeshLines(m) ==
  <<<<"mesh">> \o PutId("id", m.id) \o PutName(m) \o PutReference("material", m.material)>>
    \o Mapped(m.corners, LAMBDA v : <<"vertex">> \o PutId("mesh", m.id) \o PutFloat("position", v))
    \o Mapped(m.indices, LAMBDA i : <<"index">> \o PutId("mesh", m.id) \o PutId("value", i))
CameraLine(c) ==
  <<"camera">> \o PutId("id", c.id) \o PutName(c) \o PutFloat("fov", c.fov)
    \o PutFloat("near", c.near) \o PutFloat("far", c.far)
LightLine(l) ==
  <<"light">> \o PutId("id", l.id) \o PutName(l) \o Put("type", <<l.type>>)
    \o PutFloat("color", l.color) \o PutFloat("intensity", l.intensity)

(* The lines of a scene.  Metadata is written in the order of the hash     *)
(* table, which may be any.                                                *)
SceneLines(s) ==
  LET meta == Seqs!SetToSeq(DOMAIN s.metadata)
  IN <<<<"#">>, <<"scene">> \o PutName(s)>>
       \o Mapped(meta, LAMBDA key : MetaLine(key, s.metadata[key]))
       \o Mapped(s.nodes, NodeLine) \o Mapped(s.textures, TextureLine)
       \o Mapped(s.materials, MaterialLine) \o Seqs!FlattenSeq(Mapped(s.meshes, MeshLines))
       \o Mapped(s.cameras, CameraLine) \o Mapped(s.lights, LightLine)
WriteTextScene(s) ==
  [ok |-> ValidateScene(s), text |-> Substituted(SceneLines(s), LAMBDA line : Append(line, Newline))]

-----------------------------------------------------------------------------
(* ParseLine.                                                              *)

(* Words apart by blanks that stand outside quotes; quotes and backslashes *)
(* stay where they are.                                                    *)
TokenizeFields(text) ==
  LET push(state, c) == [state EXCEPT !.current = Append(@, c)]
      step(state, c) ==
        IF state.escaped THEN [push(state, c) EXCEPT !.escaped = FALSE]
        ELSE IF c = "\\" THEN [push(state, c) EXCEPT !.escaped = TRUE]
        ELSE IF c = "\"" THEN [push(state, c) EXCEPT !.quoted = ~@]
        ELSE IF ~state.quoted /\ c \in Blanks
               THEN [state EXCEPT !.current = << >>,
                                  !.tokens = IF state.current = << >> THEN @
                                             ELSE Append(@, state.current)]
        ELSE push(state, c)
      start == [tokens |-> << >>, current |-> << >>, quoted |-> FALSE, escaped |-> FALSE]
      end == Seqs!FoldLeft(step, start, text)
  IN IF end.current = << >> THEN end.tokens ELSE Append(end.tokens, end.current)

(* A backslash takes the next symbol with it, unless it is the last one    *)
(* before the closing quote.                                               *)
Unquote(value) ==
  LET text == Trim(value)
      inner == SubSeq(text, 2, Len(text) - 1)
      decoded(c) == CASE c = "n" -> Newline [] c = "t" -> Tab [] OTHER -> c
      step(state, i) ==
        IF state.escaped
          THEN [out |-> Append(state.out, decoded(inner[i])), escaped |-> FALSE]
          ELSE IF inner[i] = "\\" /\ i < Len(inner)
                 THEN [state EXCEPT !.escaped = TRUE]
                 ELSE [state EXCEPT !.out = Append(@, inner[i])]
  IN IF Len(text) >= 2 /\ text[1] = "\"" /\ text[Len(text)] = "\""
       THEN Seqs!FoldLeftDomain(step, [out |-> << >>, escaped |-> FALSE], inner).out
       ELSE text

(* The section of a line and its fields; of a field given twice the last   *)
(* one counts.  A line without section says nothing.                       *)
ParseLine(line) ==
  LET tokens == TokenizeFields(Content(line))
      fields == Tail(tokens)
      Key(token) == Trim(Before(token, "="))
      Last(key) == CHOOSE i \in DOMAIN fields :
                     Key(fields[i]) = key /\ \A j \in i + 1..Len(fields) : Key(fields[j]) # key
  IN IF tokens = << >> THEN [ok |-> TRUE, section |-> << >>, fields |-> << >>]
     ELSE [ok |-> \A i \in DOMAIN fields : Find(fields[i], "=") # 0 /\ Key(fields[i]) # << >>,
           section |-> tokens[1],
           fields |-> [key \in {Key(fields[i]) : i \in DOMAIN fields} |->
                         Trim(After(fields[Last(key)], "="))]]

-----------------------------------------------------------------------------
(* ParseTextSceneLines: what one line adds to what was read so far.        *)

Field(line, key, default) ==
  IF <<key>> \in DOMAIN line.fields THEN Unquote(line.fields[<<key>>]) ELSE default
NumberField(line, key, default) ==
  IF <<key>> \in DOMAIN line.fields THEN NumberOf(line.fields[<<key>>]) ELSE default
IdField(line, key) == NumberField(line, key, NoId)

(* The fields of a section that must be numbers when they are given.       *)
NumberFields(section) ==
  CASE section = "node" -> {"id", "parent", "mesh", "camera", "light", "translation", "scale"}
    [] section = "texture" -> {"id", "width", "height"}
    [] section = "material" -> {"id", "base", "roughness", "metallic", "texture"}
    [] section = "mesh" -> {"id", "material"}
    [] section = "vertex" -> {"mesh", "position"}
    [] section = "index" -> {"mesh", "value"}
    [] section = "camera" -> {"id", "fov", "near", "far"}
    [] section = "light" -> {"id", "color", "intensity"}
    [] OTHER -> {}

LightTypes == {"directional", "point", "spot"}
Sections ==
  {"scene", "meta", "node", "texture", "material", "mesh", "vertex", "index", "camera", "light"}

LineIsGood(line) ==
  LET section == line.section[1]
  IN /\ Len(line.section) = 1 /\ section \in Sections
     /\ \A key \in NumberFields(section) :
          <<key>> \in DOMAIN line.fields => IsNumber(line.fields[<<key>>])
     /\ section = "meta" => Field(line, "key", << >>) # << >>
     /\ section = "light" => Field(line, "type", <<"point">>) \in {<<t>> : t \in LightTypes}

NothingRead == [scene |-> [EmptyScene EXCEPT !.metadata = << >>] @@ [name |-> <<"Untitled">>],
                vertices |-> << >>, indices |-> << >>]

(* Variant: a vertex or index goes to a mesh that is there already.        *)
AwaitNothing(read, pending, mesh, value) ==
  IF mesh \in Ids(read.scene.meshes)
    THEN [read EXCEPT ![pending] = Append(@, [mesh |-> mesh, value |-> value])] ELSE read

(* Vertices and indices wait for their mesh until the end.                 *)
Await(read, pending, mesh, value) ==
  [read EXCEPT ![pending] = Append(@, [mesh |-> mesh, value |-> value])]

AddLine(read, line) ==
  LET section == line.section[1]
      F(key, default) == Field(line, key, <<default>>)
      N(key, default) == NumberField(line, key, default)
      With(collection, object) == [read EXCEPT !.scene[collection] = Append(@, object)]
  IN CASE section = "scene" -> [read EXCEPT !.scene.name = Field(line, "name", @)]
       [] section = "meta" ->
            [read EXCEPT !.scene.metadata =
               (Field(line, "key", << >>) :> Field(line, "value", << >>)) @@ @]
       [] section = "node" ->
            With("nodes", TextNode(IdField(line, "id"), F("name", "node"), IdField(line, "parent"),
                                   IdField(line, "mesh"), IdField(line, "camera"), IdField(line, "light"),
                                   N("translation", 0), N("scale", One)))
       [] section = "texture" ->
            With("textures", TextTexture(IdField(line, "id"), F("name", "texture"),
                                         Field(line, "uri", << >>), N("width", 1),
                                         N("height", 1), F("color", "linear")))
       [] section = "material" ->
            With("materials", TextMaterial(IdField(line, "id"), F("name", "material"), N("base", One),
                                           N("roughness", One), N("metallic", 0),
                                           IdField(line, "texture")))
       [] section = "mesh" ->
            With("meshes", TextMesh(IdField(line, "id"), F("name", "mesh"), IdField(line, "material"),
                                    << >>, << >>))
       [] section = "vertex" -> Await(read, "vertices", IdField(line, "mesh"), N("position", 0))
       [] section = "index" -> Await(read, "indices", IdField(line, "mesh"), N("value", 0))
       [] section = "camera" ->
            With("cameras", TextCamera(IdField(line, "id"), F("name", "camera"), N("fov", 60 * One),
                                       N("near", One \div 100), N("far", 1000 * One)))
       [] section = "light" ->
            With("lights", TextLight(IdField(line, "id"), F("name", "light"), F("type", "point")[1],
                                     N("color", One), N("intensity", One)))

(* The end: vertices and indices join the first mesh of their id, wherever *)
(* its line was; the scene is normalised and validated.                    *)
FinishScene(read) ==
  LET Of(mesh, pending) ==
        Mapped(SelectSeq(pending, LAMBDA p : p.mesh = mesh.id), LAMBDA p : p.value)
      meshes == read.scene.meshes
      first(i) == \A j \in 1..i - 1 : meshes[j].id # meshes[i].id
      joined == [read.scene EXCEPT !.meshes =
                   [i \in DOMAIN meshes |->
                      IF first(i)
                        THEN TextMesh(meshes[i].id, meshes[i].name, meshes[i].material,
                                      Of(meshes[i], read.vertices), Of(meshes[i], read.indices))
                        ELSE meshes[i]]]
      scene == NormalizeScene(joined, DefaultNormalization)
  IN [ok |-> ValidateScene(scene), value |-> scene]

(* What the format keeps of a scene: no rotations, child lists, skeletons  *)
(* or animations, and of a number what is printed.                         *)
Shown(s) ==
  NormalizeScene(
    [s EXCEPT
       !.skeletons = << >>, !.animations = << >>,
       !.nodes = Mapped(@, LAMBDA n :
         TextNode(n.id, n.name, n.parent, n.mesh, n.camera, n.light,
                  Printed(n.local.translation), Printed(n.local.scale))),
       !.materials = Mapped(@, LAMBDA m :
         TextMaterial(m.id, m.name, Printed(m.base), Printed(m.roughness), Printed(m.metallic),
                      m.texture)),
       !.meshes = Mapped(@, LAMBDA m :
         TextMesh(m.id, m.name, m.material, Mapped(m.corners, Printed), m.indices)),
       !.cameras = Mapped(@, LAMBDA c :
         TextCamera(c.id, c.name, Printed(c.fov), Printed(c.near), Printed(c.far))),
       !.lights = Mapped(@, LAMBDA l :
         TextLight(l.id, l.name, l.type, Printed(l.color), Printed(l.intensity)))],
    DefaultNormalization)
=============================================================================
