------------------------------ MODULE ObjFormat ------------------------------
(***************************************************************************)
(* A mesh as OBJ text, bse/obj_io.cpp.  A line is a record of its words: a *)
(* position, a texture coordinate, a normal, or the corners of a face.  A  *)
(* corner names a position and, each in a set of at most one, a texture    *)
(* coordinate and a normal.  Names of objects are left out, and so is the  *)
(* rounding of coordinates to six digits: those here have fewer.           *)
(***************************************************************************)
EXTENDS MeshTools

Corner(position, texcoord, normal) == [v |-> position, vt |-> texcoord, vn |-> normal]

ObjLine(word, values) == [word |-> word, values |-> values]

(* Every line of vertices, then every face, whose corners count from 1.    *)
WriteObjMesh(mesh, options) ==
  LET Optional(included, index) == IF included THEN {index + 1} ELSE {}
      Named(index) == Corner(index + 1, Optional(options.texcoords, index), Optional(options.normals, index))
      Each(word, Value(_)) == Apply(LAMBDA vertex : ObjLine(word, Value(vertex)), mesh.vertices)
      Face(t) == ObjLine("f", Apply(Named, t))
  IN IF ValidateMeshTopology(mesh)
       THEN [ok |-> TRUE,
             text |-> Each("v", LAMBDA vertex : vertex.position)
                        \o (IF options.texcoords THEN Each("vt", LAMBDA vertex : vertex.texcoord) ELSE << >>)
                        \o (IF options.normals THEN Each("vn", LAMBDA vertex : vertex.normal) ELSE << >>)
                        \o Apply(Face, Triangles(mesh.indices))]
       ELSE [ok |-> FALSE]

(* One mesh after the other, each of them counting from 1 again.           *)
WriteObjScene(meshes, options) ==
  LET written == Apply(LAMBDA mesh : WriteObjMesh(mesh, options), meshes)
  IN IF \A k \in DOMAIN written : written[k].ok
       THEN [ok |-> TRUE, text |-> Series!FlattenSeq(Apply(LAMBDA w : w.text, written))]
       ELSE [ok |-> FALSE]

-----------------------------------------------------------------------------
(* ReadObjMesh, a line at a time.  Each entry of the cache came with a     *)
(* vertex of the mesh, so the two are one sequence here.                   *)

NothingOfMesh ==
  [positions |-> << >>, texcoords |-> << >>, cached |-> << >>, indices |-> << >>]

(* ParseIndex: what is left of a long in an int.                           *)
ParseIndex(index) == ((index + IndexSpace \div 2) % IndexSpace) - IndexSpace \div 2

(* From 1 on, or backwards from the last with negative numbers.            *)
ResolveObjIndex(index, count) ==
  IF index > 0 THEN index - 1 ELSE (count + index) % IndexSpace

ObjLineIsGood(sofar, line) ==
  line.word = "f" =>
    \A corner \in Range(line.values) :
      ResolveObjIndex(ParseIndex(corner.v), Len(sofar.positions)) < Len(sofar.positions)

(* Only a texture coordinate that is there is taken.                       *)
VertexNamed(corner, positions, texcoords) ==
  LET resolved == {ResolveObjIndex(ParseIndex(index), Len(texcoords)) : index \in corner.vt}
      present == {index \in resolved : index < Len(texcoords)}
  IN Vertex(positions[ResolveObjIndex(ParseIndex(corner.v), Len(positions)) + 1], Zero,
            IF present = {} THEN <<0, 0>> ELSE texcoords[(CHOOSE index \in present : TRUE) + 1])

(* A corner is looked up by its text.                                      *)
Cache(sofar, corner) ==
  IF \E entry \in Range(sofar.cached) : entry.corner = corner THEN sofar
  ELSE [sofar EXCEPT !.cached = Append(@,
         [corner |-> corner, vertex |-> VertexNamed(corner, sofar.positions, sofar.texcoords)])]

(* Variant: a strip, where it should be a fan.                             *)
Strip(polygon) == Series!FlattenSeq([i \in 1..Len(polygon) - 2 |-> <<polygon[i], polygon[i + 1], polygon[i + 2]>>])

(* Polygons are cut into triangles that share their first corner.          *)
Fan(polygon) == Series!FlattenSeq([i \in 1..Len(polygon) - 2 |-> <<polygon[1], polygon[i + 1], polygon[i + 2]>>])

AddFace(sofar, corners) ==
  LET grown == Series!FoldLeft(Cache, sofar, corners)
      IndexOf(corner) == Series!SelectInSeq(grown.cached, LAMBDA entry : entry.corner = corner) - 1
  IN [grown EXCEPT !.indices = @ \o Fan(Apply(IndexOf, corners))]

(* Normals are read, but computed anew at the end.                         *)
AddObjLine(sofar, line) ==
  CASE line.word = "v" -> [sofar EXCEPT !.positions = Append(@, line.values)]
    [] line.word = "vt" -> [sofar EXCEPT !.texcoords = Append(@, line.values)]
    [] line.word = "vn" -> sofar
    [] line.word = "f" -> AddFace(sofar, line.values)

FinishObj(sofar) ==
  LET mesh == Mesh(0, Apply(LAMBDA entry : entry.vertex, sofar.cached), sofar.indices)
  IN IF mesh.vertices # << >> /\ mesh.indices # << >> /\ ValidateMeshTopology(mesh)
       THEN [ok |-> TRUE, value |-> RecalculateNormals(mesh)] ELSE [ok |-> FALSE]
=============================================================================
