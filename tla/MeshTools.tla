------------------------------ MODULE MeshTools ------------------------------
(***************************************************************************)
(* Meshes with their vertices and indices, bse/mesh_tools.cpp: the four    *)
(* primitives and the tools that weld, repair and combine.  Coordinates    *)
(* are whole numbers, so that areas and normals come out exact; a normal   *)
(* stands for its direction.  Indices count from 0.                        *)
(***************************************************************************)
EXTENDS Integers, Sequences, FiniteSets, Functions

Series == INSTANCE SequencesExt

CONSTANT IndexSpace  \* how many values an index has: 2^32

ASSUME MeshAssumption == IndexSpace \in Nat \ {0}

Vertex(position, normal, texcoord) ==
  [position |-> position, normal |-> normal, texcoord |-> texcoord]
Mesh(material, vertices, indices) ==
  [material |-> material, vertices |-> vertices, indices |-> indices]

Apply(op(_), s) == [i \in DOMAIN s |-> op(s[i])]

(* The indices by threes; one or two that are left over are no triangle.   *)
Triangles(indices) ==
  [t \in 1..Len(indices) \div 3 |-> SubSeq(indices, 3 * t - 2, 3 * t)]

-----------------------------------------------------------------------------
(* Vectors.                                                                *)

Zero == <<0, 0, 0>>
Add(a, b) == [c \in 1..3 |-> a[c] + b[c]]
Subtract(a, b) == [c \in 1..3 |-> a[c] - b[c]]
Cross(a, b) == <<a[2] * b[3] - a[3] * b[2], a[3] * b[1] - a[1] * b[3], a[1] * b[2] - a[2] * b[1]>>

(* The shortest whole vector of the same direction.                        *)
Normalize(v) ==
  LET longest == CHOOSE d \in {IF x < 0 THEN -x ELSE x : x \in Range(v)} :
                   \A x \in Range(v) : -d <= x /\ x <= d
      divides(d) == \A x \in Range(v) : x % d = 0
      common == CHOOSE d \in 1..longest : divides(d) /\ \A e \in d + 1..longest : ~divides(e)
      Times(x) == IF x < 0 THEN -(-x \div common) ELSE x \div common
  IN IF v = Zero THEN Zero ELSE Apply(Times, v)

-----------------------------------------------------------------------------
(* Primitives.                                                             *)

AtLeast(n, least) == IF n < least THEN least ELSE n

(* The parts of a texture that coordinates count: 1.0 is Unit.             *)
Unit == 12

(* A circle of n corners and a half circle of n steps from pole to pole,   *)
(* <<height, radius>>: any convex ones do, and these are whole.            *)
Circle(n) == IF n = 3 THEN <<<<2, 0>>, <<-1, 2>>, <<-1, -2>>>>
                      ELSE <<<<1, 0>>, <<0, 1>>, <<-1, 0>>, <<0, -1>>>>
HalfCircle(n) == IF n = 2 THEN <<<<1, 0>>, <<0, 1>>, <<-1, 0>>>>
                          ELSE <<<<2, 0>>, <<1, 1>>, <<-1, 1>>, <<-2, 0>>>>

(* A grid of columns and rows, one vertex more in each direction.          *)
GridVertices(columns, rows, At(_, _)) ==
  [k \in 1..(columns + 1) * (rows + 1) |-> At((k - 1) % (columns + 1), (k - 1) \div (columns + 1))]
Upper(a, stride) == <<a, a + stride, a + 1>>
Lower(a, stride) == <<a + 1, a + stride, a + stride + 1>>
GridIndices(columns, rows, Cell(_, _, _)) ==
  Series!FlattenSeq([k \in 1..columns * rows |->
    LET x == (k - 1) % columns
        y == (k - 1) \div columns
    IN Cell(y * (columns + 1) + x, columns + 1, y)])

MakePlaneMesh(width, depth, columnsAsked, rowsAsked) ==
  LET columns == AtLeast(columnsAsked, 1)
      rows == AtLeast(rowsAsked, 1)
      At(x, y) == Vertex(<<(width * x) \div columns - width \div 2, 0, (depth * y) \div rows - depth \div 2>>,
                         <<0, 1, 0>>, <<(Unit * x) \div columns, (Unit * y) \div rows>>)
      Cell(a, stride, y) == Upper(a, stride) \o Lower(a, stride)
  IN Mesh(0, GridVertices(columns, rows, At), GridIndices(columns, rows, Cell))

(* Six faces; each is a corner and two edges.                              *)
MakeBoxMesh(x, y, z) ==
  LET face == << [normal |-> <<0, 0, 1>>, a |-> <<-x, -y, z>>, b |-> <<x, -y, z>>, c |-> <<-x, y, z>>],
                 [normal |-> <<0, 0, -1>>, a |-> <<x, -y, -z>>, b |-> <<-x, -y, -z>>, c |-> <<x, y, -z>>],
                 [normal |-> <<1, 0, 0>>, a |-> <<x, -y, z>>, b |-> <<x, -y, -z>>, c |-> <<x, y, z>>],
                 [normal |-> <<-1, 0, 0>>, a |-> <<-x, -y, -z>>, b |-> <<-x, -y, z>>, c |-> <<-x, y, -z>>],
                 [normal |-> <<0, 1, 0>>, a |-> <<-x, y, z>>, b |-> <<x, y, z>>, c |-> <<-x, y, -z>>],
                 [normal |-> <<0, -1, 0>>, a |-> <<-x, -y, -z>>, b |-> <<x, -y, -z>>, c |-> <<-x, -y, z>>] >>
      Corners(f) == << Vertex(f.a, f.normal, <<0, 0>>), Vertex(f.b, f.normal, <<Unit, 0>>),
                       Vertex(f.c, f.normal, <<0, Unit>>),
                       Vertex(Add(f.b, Subtract(f.c, f.a)), f.normal, <<Unit, Unit>>) >>
  IN Mesh(0, Series!FlattenSeq(Apply(Corners, face)),
          Series!FlattenSeq([k \in 1..6 |-> Upper(4 * k - 4, 2) \o Lower(4 * k - 4, 2)]))

(* At the poles a cell is one triangle.                                    *)
MakeUvSphereMesh(slicesAsked, stacksAsked) ==
  LET slices == AtLeast(slicesAsked, 3)
      stacks == AtLeast(stacksAsked, 2)
      At(slice, stack) ==
        LET turn == Circle(slices)[(slice % slices) + 1]
            height == HalfCircle(stacks)[stack + 1][1]
            ring == HalfCircle(stacks)[stack + 1][2]
            position == <<turn[1] * ring, height, turn[2] * ring>>
        IN Vertex(position, Normalize(position), <<(Unit * slice) \div slices, (Unit * stack) \div stacks>>)
      Cell(a, stride, stack) ==
        (IF stack # 0 THEN Upper(a, stride) ELSE << >>)
          \o (IF stack + 1 # stacks THEN Lower(a, stride) ELSE << >>)
  IN Mesh(0, GridVertices(slices, stacks, At), GridIndices(slices, stacks, Cell))

(* The side meets itself at a seam of two vertices, and a cap at the first.*)
MakeCylinderMesh(segmentsAsked, height) ==
  LET segments == AtLeast(segmentsAsked, 3)
      Turn(i) == Circle(segments)[(i % segments) + 1]
      Side(i, y, v) == Vertex(<<Turn(i)[1], y, Turn(i)[2]>>, <<Turn(i)[1], 0, Turn(i)[2]>>,
                              <<(Unit * i) \div segments, v>>)
      sides == Series!FlattenSeq([k \in 1..segments + 1 |-> <<Side(k - 1, -height, 0), Side(k - 1, height, Unit)>>])
      centers == << Vertex(<<0, -height, 0>>, <<0, -1, 0>>, <<Unit \div 2, Unit \div 2>>),
                    Vertex(<<0, height, 0>>, <<0, 1, 0>>, <<Unit \div 2, Unit \div 2>>) >>
      bottom == Len(sides)
      Wall(a) == <<a, a + 1, a + 2, a + 2, a + 1, a + 3>>
      Caps(a, b) == <<bottom, b, a, bottom + 1, a + 1, b + 1>>
  IN Mesh(0, sides \o centers,
          Series!FlattenSeq([k \in 1..segments |-> Wall(2 * k - 2)])
            \o Series!FlattenSeq([k \in 1..segments |-> Caps(2 * k - 2, 2 * (k % segments))]))

-----------------------------------------------------------------------------
(* Tools.                                                                  *)

ValidateMeshTopology(mesh) ==
  Len(mesh.indices) % 3 = 0 /\ \A index \in Range(mesh.indices) : index < Len(mesh.vertices)

PositionOf(mesh, index) == mesh.vertices[index + 1].position
InRange(mesh, triangle) == \A index \in Range(triangle) : index < Len(mesh.vertices)
FaceNormal(mesh, t) ==
  Cross(Subtract(PositionOf(mesh, t[2]), PositionOf(mesh, t[1])),
        Subtract(PositionOf(mesh, t[3]), PositionOf(mesh, t[1])))

(* Each vertex gets the sum of the normals of its triangles.               *)
RecalculateNormals(mesh) ==
  LET faces == SelectSeq(Triangles(mesh.indices), LAMBDA t : InRange(mesh, t))
      Meeting(sum, t, index) == IF index \in Range(t) THEN Add(sum, FaceNormal(mesh, t)) ELSE sum
      Normal(index) == Normalize(Series!FoldLeft(LAMBDA sum, t : Meeting(sum, t, index), Zero, faces))
  IN [mesh EXCEPT !.vertices = [i \in DOMAIN @ |-> [@[i] EXCEPT !.normal = Normal(i - 1)]]]

(* Triangles out of range go, and so do those without an area.             *)
RepairMesh(mesh) ==
  RecalculateNormals([mesh EXCEPT !.indices =
    Series!FlattenSeq(SelectSeq(Triangles(@), LAMBDA t : InRange(mesh, t) /\ FaceNormal(mesh, t) # Zero))])

(* Variant: indices lead to the place the first one had before.            *)
WeldToOldPlaces(mesh) ==
  LET first == [i \in DOMAIN mesh.vertices |-> Series!SelectInSeq(mesh.vertices, LAMBDA v : v = mesh.vertices[i])]
      kept == SelectSeq([i \in DOMAIN first |-> i], LAMBDA i : first[i] = i)
  IN [mesh EXCEPT !.vertices = [k \in DOMAIN kept |-> @[kept[k]]],
                  !.indices = Apply(LAMBDA index : IF index < Len(first) THEN first[index + 1] - 1 ELSE index, @)]

(* Of equal vertices the first one stays, for a tolerance that is finer    *)
(* than any difference.  An index out of range stays what it is.           *)
WeldVertices(mesh) ==
  LET first == [i \in DOMAIN mesh.vertices |-> Series!SelectInSeq(mesh.vertices, LAMBDA v : v = mesh.vertices[i])]
      kept == SelectSeq([i \in DOMAIN first |-> i], LAMBDA i : first[i] = i)
      Welded(index) == IF index < Len(first)
                         THEN Series!SelectInSeq(kept, LAMBDA i : i = first[index + 1]) - 1 ELSE index
  IN [mesh EXCEPT !.vertices = [k \in DOMAIN kept |-> @[kept[k]]], !.indices = Apply(Welded, @)]

(* Indices move up by the vertices before them, in 32 bits; only the       *)
(* result is validated.                                                    *)
CombineMeshes(meshes) ==
  LET all == Series!FlattenSeq(Apply(LAMBDA m : m.vertices, meshes))
      Before(k) == Len(Series!FlattenSeq(Apply(LAMBDA m : m.vertices, SubSeq(meshes, 1, k - 1))))
      Moved(k) == Apply(LAMBDA index : (Before(k) + index) % IndexSpace, meshes[k].indices)
      material == Series!SelectInSeq(meshes, LAMBDA m : m.material # 0)
      combined == Mesh(IF material = 0 THEN 0 ELSE meshes[material].material, all,
                       Series!FlattenSeq([k \in DOMAIN meshes |-> Moved(k)]))
  IN IF Len(all) < IndexSpace /\ ValidateMeshTopology(combined)
       THEN [ok |-> TRUE, value |-> combined] ELSE [ok |-> FALSE]

-----------------------------------------------------------------------------
(* What a mesh looks like: the corners of its triangles.                   *)
Surface(mesh) ==
  Apply(LAMBDA t : Apply(LAMBDA index : mesh.vertices[index + 1], t),
        SelectSeq(Triangles(mesh.indices), LAMBDA t : InRange(mesh, t)))
=============================================================================
