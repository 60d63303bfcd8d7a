----------------------------- MODULE TextFormats -----------------------------
(***************************************************************************)
(* What becomes of a text between the function that writes it and the one  *)
(* that reads it: scenes through WriteTextScene and ParseTextSceneLines,   *)
(* package indexes through WritePackageManifest and ParsePackageManifest,  *)
(* and meshes, after they were worked on, through WriteObjMesh and         *)
(* ReadObjMesh.  Text files are there to be edited by hand, so a line may  *)
(* have moved, gone or be there twice.  All readers go line by line and    *)
(* give up at the first one they cannot read.                              *)
(***************************************************************************)
EXTENDS TextScene, PackageIndex, ObjFormat

CONSTANTS
  TextScenes,  \* the scenes that are written
  Indexes,     \* the package indexes that are written
  Meshes,      \* the meshes that are worked on
  Solids,      \* those of them that bound a body
  MeshScenes,  \* scenes that are written as OBJ: sequences of meshes
  ObjFiles,    \* OBJ files that come from elsewhere
  MaxParts,    \* the meshes that are combined into one
  MaxEdited    \* the lines of a file that is edited

VARIABLES
  phase,   \* "start", "mesh", "written", "reading", "done"
  format,  \* "scene", "manifest" or "obj"
  source,  \* what was written
  lines,   \* the file
  edit,    \* what was done to it: the kind of edit and its line
  unread,  \* the lines the reader has not seen
  read,    \* what it has put together
  result   \* what it returned

vars == <<phase, format, source, lines, edit, unread, read, result>>

NoEdit == [kind |-> "none", at |-> 0]
Refused == [ok |-> FALSE]

-----------------------------------------------------------------------------
(* The two readers as one: which lines say nothing, which are good, what a *)
(* good one adds and what is done at the end.                              *)

SaysNothing(kind, line) == kind # "obj" /\ Content(line) = << >>

IsGood(kind, sofar, line) ==
  CASE kind = "scene" -> ParseLine(line).ok /\ LineIsGood(ParseLine(line))
    [] kind = "manifest" -> ManifestLineIsGood(Content(line))
    [] kind = "obj" -> ObjLineIsGood(sofar, line)

Added(kind, sofar, line) ==
  CASE kind = "scene" -> AddLine(sofar, ParseLine(line))
    [] kind = "manifest" -> AddManifestLine(sofar, Content(line))
    [] kind = "obj" -> AddObjLine(sofar, line)

Nothing(kind) ==
  CASE kind = "scene" -> NothingRead [] kind = "manifest" -> EmptyIndex [] kind = "obj" -> NothingOfMesh

Finished(kind, sofar) ==
  LET end == CASE kind = "scene" -> FinishScene(sofar)
               [] kind = "manifest" -> FinishManifest(sofar)
               [] kind = "obj" -> FinishObj(sofar)
  IN IF end.ok THEN end ELSE Refused

-----------------------------------------------------------------------------

Init ==
  /\ phase = "start" /\ format = "scene" /\ source = EmptyScene
  /\ lines = << >> /\ edit = NoEdit /\ unread = << >> /\ read = << >> /\ result = Refused

(* The file a writer leaves.                                               *)
Save(kind, value, text) ==
  /\ phase = "start" /\ phase' = "written"
  /\ format' = kind /\ source' = value /\ lines' = text
  /\ UNCHANGED <<edit, unread, read, result>>

WriteScene ==
  \E scene \in TextScenes :
    /\ WriteTextScene(scene).ok
    /\ Save("scene", scene, Pieces(WriteTextScene(scene).text, Newline))

WriteManifest ==
  \E index \in Indexes : Save("manifest", index, Pieces(WritePackageManifest(index), Newline))

FindObjFile == \E file \in ObjFiles : Save("obj", [file |-> file], file)

WriteMeshScene ==
  \E meshes \in MeshScenes :
    LET written == WriteObjScene(meshes, [normals |-> TRUE, texcoords |-> TRUE])
    IN written.ok /\ Save("obj", [meshes |-> meshes], written.text)

(* WriteTextScene refuses a scene that is not valid.                       *)
RefuseToWrite ==
  /\ phase = "start" /\ phase' = "done"
  /\ \E scene \in TextScenes : ~WriteTextScene(scene).ok /\ source' = scene
  /\ UNCHANGED <<format, lines, edit, unread, read, result>>

(* A mesh, of how many it is made, and what is written of it.              *)
StartMesh ==
  /\ phase = "start" /\ phase' = "mesh" /\ format' = "obj"
  /\ \E mesh \in Meshes :
       source' = [mesh |-> mesh, parts |-> 1, options |-> [normals |-> TRUE, texcoords |-> TRUE]]
  /\ UNCHANGED <<lines, edit, unread, read, result>>

WorkOn(mesh, parts) ==
  /\ source' = [source EXCEPT !.mesh = mesh, !.parts = @ + parts]
  /\ UNCHANGED <<phase, format, lines, edit, unread, read, result>>

Weld == phase = "mesh" /\ WorkOn(WeldVertices(source.mesh), 0)
Repair == phase = "mesh" /\ WorkOn(RepairMesh(source.mesh), 0)

Combine(mesh) ==
  /\ phase = "mesh" /\ source.parts < MaxParts
  /\ LET combined == CombineMeshes(<<source.mesh, mesh>>)
     IN combined.ok /\ WorkOn(combined.value, 1)

CombineWithAnother == \E mesh \in Meshes : Combine(mesh)

RefuseToCombine ==
  /\ phase = "mesh" /\ source.parts < MaxParts /\ phase' = "done"
  /\ \E mesh \in Meshes : ~CombineMeshes(<<source.mesh, mesh>>).ok
  /\ UNCHANGED <<format, source, lines, edit, unread, read, result>>

WriteMesh ==
  /\ phase = "mesh" /\ phase' = "written"
  /\ \E options \in [normals : BOOLEAN, texcoords : BOOLEAN] :
       LET written == WriteObjMesh(source.mesh, options)
       IN written.ok /\ lines' = written.text /\ source' = [source EXCEPT !.options = options]
  /\ UNCHANGED <<format, edit, unread, read, result>>

RefuseToWriteMesh ==
  /\ phase = "mesh" /\ phase' = "done"
  /\ ~WriteObjMesh(source.mesh, source.options).ok
  /\ UNCHANGED <<format, source, lines, edit, unread, read, result>>

(* One change to the file.                                                 *)
Edit(kind, at, file) ==
  /\ phase = "written" /\ edit = NoEdit /\ Len(lines) <= MaxEdited
  /\ edit' = [kind |-> kind, at |-> at] /\ lines' = file
  /\ UNCHANGED <<phase, format, source, unread, read, result>>

Swapped(file, i) == [file EXCEPT ![i] = file[i + 1], ![i + 1] = file[i]]

SwapLines == \E i \in 1..Len(lines) - 1 : Edit("swap", i, Swapped(lines, i))
DropLine == \E i \in DOMAIN lines : Edit("drop", i, Seqs!RemoveAt(lines, i))
RepeatLine == \E i \in DOMAIN lines : Edit("repeat", i, Seqs!InsertAt(lines, i, lines[i]))

Open ==
  /\ phase = "written" /\ phase' = "reading"
  /\ unread' = lines /\ read' = Nothing(format)
  /\ UNCHANGED <<format, source, lines, edit, result>>

SkipLine ==
  /\ phase = "reading" /\ unread # << >>
  /\ SaysNothing(format, Head(unread))
  /\ unread' = Tail(unread)
  /\ UNCHANGED <<phase, format, source, lines, edit, read, result>>

ReadLine ==
  /\ phase = "reading" /\ unread # << >>
  /\ ~SaysNothing(format, Head(unread)) /\ IsGood(format, read, Head(unread))
  /\ read' = Added(format, read, Head(unread))
  /\ unread' = Tail(unread)
  /\ UNCHANGED <<phase, format, source, lines, edit, result>>

RefuseLine ==
  /\ phase = "reading" /\ unread # << >>
  /\ ~SaysNothing(format, Head(unread)) /\ ~IsGood(format, read, Head(unread))
  /\ phase' = "done"
  /\ UNCHANGED <<format, source, lines, edit, unread, read, result>>

Finish ==
  /\ phase = "reading" /\ unread = << >>
  /\ phase' = "done" /\ result' = Finished(format, read)
  /\ UNCHANGED <<format, source, lines, edit, unread, read>>

Rest == phase = "done" /\ UNCHANGED vars

Next ==
  \/ WriteScene \/ WriteManifest \/ RefuseToWrite \/ FindObjFile \/ WriteMeshScene
  \/ StartMesh \/ Weld \/ Repair \/ CombineWithAnother \/ RefuseToCombine
  \/ WriteMesh \/ RefuseToWriteMesh
  \/ SwapLines \/ DropLine \/ RepeatLine
  \/ Open \/ SkipLine \/ ReadLine \/ RefuseLine \/ Finish
  \/ Rest

Spec == Init /\ [][Next]_vars

-----------------------------------------------------------------------------
(* Properties.                                                             *)

TypeOK ==
  /\ phase \in {"start", "mesh", "written", "reading", "done"}
  /\ format \in {"scene", "manifest", "obj"}
  /\ \A i \in DOMAIN lines :
       IF format = "obj" THEN lines[i].word \in {"v", "vt", "vn", "f"}
                         ELSE \A j \in DOMAIN lines[i] : lines[i][j] # Newline
  /\ edit.kind \in {"none", "swap", "drop", "repeat"}
  /\ Len(unread) <= Len(lines)

(* The texts of a scene: every name, metadata key and value, and path.     *)
Strings(s) ==
  {s.name} \cup DOMAIN s.metadata \cup {s.metadata[key] : key \in DOMAIN s.metadata}
    \cup {x.name : x \in UNION {Range(s.nodes), Range(s.textures), Range(s.materials),
                                Range(s.meshes), Range(s.cameras), Range(s.lights)}}
    \cup {t.uri : t \in Range(s.textures)}

Hashless(text) == Find(text, "#") = 0

SceneReadsBack ==
  /\ (/\ \A text \in Strings(source) : Hashless(text)
      /\ << >> \notin DOMAIN source.metadata
      /\ ValidateScene(Shown(source)))
     => result = [ok |-> TRUE, value |-> Shown(source)]
  /\ result.ok =>
       \A kind \in {"nodes", "textures", "materials", "meshes", "cameras", "lights"} :
         LET shown == Shown(source)[kind]
             got == result.value[kind]
             whole(x) == Hashless(x.name) /\ (kind = "textures" => Hashless(x.uri))
             own(x) == IF kind = "nodes" THEN [x EXCEPT !.children = << >>] ELSE x
         IN /\ Mapped(got, LAMBDA x : x.id) = Mapped(shown, LAMBDA x : x.id)
            /\ \A i \in DOMAIN shown : whole(shown[i]) => own(got[i]) = own(shown[i])
            /\ kind = "meshes" => \A i \in DOMAIN shown : got[i].corners = shown[i].corners
                                                       /\ got[i].indices = shown[i].indices

(* The surface without its normals.                                        *)
Bare(mesh) == Apply(LAMBDA t : Apply(LAMBDA v : <<v.position, v.texcoord>>, t), Surface(mesh))

(* An index of OBJ is an int.                                              *)
Fits(index) == index = ParseIndex(index)

MeshReadsBack ==
  LET untextured == [source.mesh EXCEPT !.vertices =
                       Apply(LAMBDA vertex : [vertex EXCEPT !.texcoord = <<0, 0>>], @)]
      shown == RecalculateNormals(IF source.options.texcoords THEN source.mesh ELSE untextured)
  IN IF source.mesh.indices = << >> THEN result = Refused
     ELSE Fits(Len(source.mesh.vertices)) => result.ok /\ Surface(result.value) = Surface(shown)

MeshesReadBack ==
  LET Together(part) == Seqs!FlattenSeq(Apply(LAMBDA mesh : mesh[part], source.meshes))
  IN result.ok /\ Bare(result.value) = Bare(Mesh(0, Together("vertices"), Together("indices")))

(* A valid scene reads back from its own text as what the format shows of  *)
(* it, whatever quotes, backslashes, blanks, newlines and equal signs its  *)
(* strings hold; but for a hash (ParseLine cuts lines before it looks for  *)
(* quotes), an empty metadata key (written, not readable) and numbers      *)
(* that are no longer valid as they are printed.  A hash damages its own   *)
(* line only: if the text is accepted, all objects are there, those        *)
(* without one in their strings as they were, and every mesh has its       *)
(* geometry.  A mesh reads back with the surface it was written with, and  *)
(* with normals that repairing it would give, if it has triangles and no   *)
(* more vertices than an int can count.  A scene of meshes reads back as   *)
(* one mesh of all vertices in which all corners count from the first      *)
(* one: only the first mesh keeps its surface.                             *)
TextReadsBack ==
  phase = "done" /\ lines # << >> /\ edit = NoEdit =>
    /\ format = "scene" => SceneReadsBack
    /\ format = "obj" /\ "mesh" \in DOMAIN source => MeshReadsBack
    /\ format = "obj" /\ "meshes" \in DOMAIN source => MeshesReadBack

Section(kind, line) ==
  IF kind = "scene" THEN ParseLine(line).section ELSE IsPackageLine(Content(line))

(* What a reader makes of a whole file.                                    *)
Reading(kind, file) ==
  LET said == SelectSeq(file, LAMBDA line : ~SaysNothing(kind, line))
  IN IF \A line \in Range(said) : IsGood(kind, Nothing(kind), line)
       THEN Finished(kind, Seqs!FoldLeft(LAMBDA sofar, line : Added(kind, sofar, line),
                                         Nothing(kind), said))
       ELSE Refused

(* Lines of different sections may stand in any order: a file with two     *)
(* such neighbours swapped reads as it did before.  Vertices and indices   *)
(* wait for their mesh, nodes for what they refer to.                      *)
LinesCommute ==
  (/\ phase = "done" /\ edit.kind = "swap" /\ format # "obj"
   /\ Section(format, lines[edit.at]) # Section(format, lines[edit.at + 1]))
  => result = Reading(format, Swapped(lines, edit.at))

(* A valid index reads back from its manifest, in file order, but for what *)
(* the format cannot hold: of a name what stands before its first blank or *)
(* hash, and with a hash not the version either; of a path no blanks at    *)
(* its ends, and no hash at all.  It is refused when that is no valid      *)
(* index.  The property is about indexes without newlines, whose name has  *)
(* no field behind a blank and where only empty entries share an offset.   *)
ManifestReadsBack ==
  LET cut == Find(source.name, "#") # 0
      Kept(e) == [e EXCEPT !.path = Trim(@)]
      kept == [source EXCEPT !.name = Trim(Before(Before(@, "#"), " ")),
                             !.version = IF cut THEN EmptyIndex.version ELSE @,
                             !.entries = Mapped(InFileOrder(@), Kept)]
      holds == ValidatePackageIndex(kept) /\ \A e \in Range(source.entries) : Find(e.path, "#") = 0
      texts == {source.name} \cup {e.path : e \in Range(source.entries)}
  IN (/\ phase = "done" /\ format = "manifest" /\ edit = NoEdit
      /\ ValidatePackageIndex(source)
      /\ \A text \in texts : Find(text, Newline) = 0
      /\ Find(source.name, " ") = 0 \/ Find(source.name, "=") = 0
      /\ \A i, j \in DOMAIN source.entries :
           i # j /\ source.entries[i].offset = source.entries[j].offset
             => source.entries[i].size = 0)
     => result = IF holds THEN [ok |-> TRUE, value |-> kept] ELSE Refused

(* Whatever was done to a manifest, the entries of an accepted index share *)
(* no byte, end below 2^64 and have different paths, although validation   *)
(* only compares neighbours and its sums wrap.                             *)
AcceptedRangesDisjoint ==
  phase = "done" /\ format = "manifest" /\ result.ok
  => LET entries == result.value.entries
         bytes(e) == e.offset..e.offset + e.size - 1
     IN /\ \A i \in DOMAIN entries : entries[i].offset + entries[i].size < IdSpace
        /\ \A i, j \in DOMAIN entries :
             i # j => /\ bytes(entries[i]) \cap bytes(entries[j]) = {}
                      /\ entries[i].path # entries[j].path

(* A file of meshes, edited or not, is read when it has a face and every   *)
(* face names positions that stand before it.  The mesh then has the       *)
(* triangles of each face in turn, with what their corners name: counted   *)
(* from the first line, or backwards from the face; a texture coordinate   *)
(* that is not there is zero.  Corners of one text share a vertex, so that *)
(* a corner means, in every face, what it meant in the first face that has *)
(* it: backwards, or before a texture coordinate came, that is another     *)
(* vertex than the face names.  Indices are those an int can hold.         *)
FacesAsNamed ==
  LET faces == {k \in DOMAIN lines : lines[k].word = "f"}
      Said(word, k) == SelectSeq(SubSeq(lines, 1, k - 1), LAMBDA line : line.word = word)
      At(index, count) == IF index > 0 THEN index ELSE count + 1 + index
      Position(corner, k) == At(corner.v, Len(Said("v", k)))
      Look(corner, k) ==
        LET texcoords == Said("vt", k)
            named == {At(index, Len(texcoords)) : index \in corner.vt} \cap DOMAIN texcoords
        IN << Said("v", k)[Position(corner, k)].values,
              IF named = {} THEN <<0, 0>> ELSE texcoords[CHOOSE i \in named : TRUE].values >>
      resolves == \A k \in faces : \A corner \in Range(lines[k].values) :
                    Position(corner, k) \in DOMAIN Said("v", k)
      Meant(corner) ==
        Look(corner, CHOOSE k \in faces :
                       /\ corner \in Range(lines[k].values)
                       /\ \A l \in faces : l < k => corner \notin Range(lines[l].values))
      fits == \A k \in faces : \A corner \in Range(lines[k].values) :
                \A index \in {corner.v} \cup corner.vt : Fits(index)
      InTriangles(k) ==
        LET corner == Apply(Meant, lines[k].values)
        IN [i \in 1..Len(corner) - 2 |-> <<corner[1], corner[i + 1], corner[i + 2]>>]
      all == Seqs!FlattenSeq([k \in DOMAIN lines |-> IF k \in faces THEN InTriangles(k) ELSE << >>])
  IN phase = "done" /\ format = "obj" /\ lines # << >> /\ fits =>
       /\ result.ok <=> faces # {} /\ resolves
       /\ result.ok => Bare(result.value) = all

(* Every edge of the surface borders two triangles.                        *)
IsClosed(mesh) ==
  LET Edges(t) == {{t[1].position, t[2].position}, {t[2].position, t[3].position}, {t[3].position, t[1].position}}
      bordered == Apply(Edges, Surface(mesh))
  IN \A edge \in UNION Range(bordered) :
       Cardinality({i \in DOMAIN bordered : edge \in bordered[i]}) = 2

Places(mesh) == Apply(LAMBDA t : Apply(LAMBDA v : v.position, t), Surface(mesh))
HasArea(t) == Cross(Subtract(t[2], t[1]), Subtract(t[3], t[1])) # Zero

CombinesSurfaces(first, second, both) ==
  LET Corners(mesh, t) == Apply(LAMBDA index : mesh.vertices[index + 1], t)
      Keeps(mesh, before) ==
        \A k \in DOMAIN Triangles(mesh.indices) :
          InRange(mesh, Triangles(mesh.indices)[k]) =>
            Surface(both)[before + k] = Corners(mesh, Triangles(mesh.indices)[k])
  IN /\ ValidateMeshTopology(first) /\ ValidateMeshTopology(second) =>
          Surface(both) = Surface(first) \o Surface(second)
     /\ Len(first.indices) % 3 = 0 =>
          /\ Keeps(first, 0) /\ Keeps(second, Len(first.indices) \div 3)
          /\ \A k \in DOMAIN first.indices :
               first.indices[k] >= Len(first.vertices) =>
                 both.vertices[both.indices[k] + 1] = second.vertices[first.indices[k] - Len(first.vertices) + 1]

(* The primitives that should be are closed, although neighbouring faces   *)
(* share no vertices.  Welding keeps the surface of any mesh, normals and  *)
(* texture coordinates included.  Repairing loses only triangles without   *)
(* an area, which a closed primitive has none of, and has nothing to do a  *)
(* second time.  Combining meshes that are valid puts their surfaces       *)
(* together.  Of meshes with indices out of range, which only wrapping     *)
(* brings back into it, combining that succeeds keeps at its place every   *)
(* triangle that was in range, and one of the first mesh that was not is   *)
(* made of the vertices of the second.                                     *)
ToolsKeepSurface ==
  [][ /\ phase = "start" /\ phase' = "mesh" /\ source'.mesh \in Solids =>
           IsClosed(source'.mesh) /\ \A t \in Range(Places(source'.mesh)) : HasArea(t)
      /\ Weld => Surface(source'.mesh) = Surface(source.mesh)
      /\ Repair => /\ Places(source'.mesh) = SelectSeq(Places(source.mesh), HasArea)
                   /\ RepairMesh(source'.mesh) = source'.mesh
      /\ \A mesh \in Meshes : Combine(mesh) => CombinesSurfaces(source.mesh, mesh, source'.mesh)
    ]_vars
=============================================================================
