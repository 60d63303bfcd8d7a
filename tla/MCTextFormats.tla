--------------------------- MODULE MCTextFormats ---------------------------
(* Scenes and package indexes whose strings hold every symbol a format     *)
(* treats in a way of its own, for TextFormats.                            *)
EXTENDS TextFormats

MCLetters == <<Newline, " ", "\"", "#", "=", "\\", "a", "b", "n", "|">>

MCNumbers == (0..15) \cup {60 * One, One, 2 * One, One \div 100, 1000 * One, 16, 20}

Symbols == {"a", "n", "#", "\\", "\"", " ", "="}
Names == {<< >>} \cup {<<c>> : c \in Symbols \cup {Newline, Tab}} \cup {<<c, d>> : c, d \in Symbols}

Plain(letter) == <<letter>>

(* Two nodes, the child first, and a material that no mesh uses.           *)
Pair(name) ==
  [EmptyScene EXCEPT
    !.nodes = <<TextNode(3, name, 2, 0, 0, 0, 3, One), TextNode(2, Plain("b"), 0, 0, 0, 0, 0, 3)>>,
    !.materials = <<TextMaterial(1, name, 3, One, 0, 0)>>,
    !.metadata = (name :> Plain("a")) @@ (Plain("b") :> name)]
  @@ [name |-> name]

(* Every kind of object; the two meshes have ids in falling order.         *)
Full(near, far) ==
  [EmptyScene EXCEPT
    !.nodes = <<TextNode(1, Plain("a"), 0, 5, 6, 7, 0, One)>>,
    !.textures = <<TextTexture(3, Plain("a"), <<"a", "\\">>, 2, 1, Plain("n"))>>,
    !.materials = <<TextMaterial(4, Plain("a"), One, 3, 1, 3)>>,
    !.meshes = <<TextMesh(5, Plain("a"), 4, <<2, 5>>, <<1, 0>>), TextMesh(2, Plain("b"), 0, <<7>>, << >>)>>,
    !.cameras = <<TextCamera(6, Plain("a"), 60 * One, near, far)>>,
    !.lights = <<TextLight(7, Plain("a"), "spot", One, 1)>>]
  @@ [name |-> Plain("a")]

(* A text that is short enough to be edited: meshes, vertices and indices. *)
Sketch ==
  [EmptyScene EXCEPT
    !.meshes = <<TextMesh(5, Plain("a"), 0, <<2>>, <<0>>), TextMesh(2, Plain("b"), 0, <<7>>, << >>)>>]
  @@ [name |-> Plain("a")]

(* Planes one apart print alike or not; no length at all is not valid.     *)
MCTextScenes ==
  {Pair(name) : name \in Names} \cup {Full(3, 5), Full(3, 4), Full(4, 5), Full(5, 5), Sketch}

Entry(path, kind, offset, size) ==
  [path |-> path, kind |-> kind, offset |-> offset, size |-> size, checksum |-> 9]

Paths == {<<c>> : c \in {"a", "|", " ", "#"}} \cup {<<c, d>> : c, d \in {"a", "\\", "|", " ", "="}}

MCIndexes ==
  {[name |-> <<"a">>, version |-> 2,
    entries |-> <<Entry(path, "texture", 4, 2), Entry(<<"b">>, "scene", 0, 4)>>] : path \in Paths}
  \cup {[name |-> name, version |-> 0, entries |-> <<Entry(<<"a">>, "unknown", 0, 0)>>]
          : name \in Names \cup {<<"|">>, <<"|", "\\">>}}
  \cup {[name |-> <<"a">>, version |-> 1,
         entries |-> <<Entry(<<"b">>, "metadata", offset, size), Entry(<<"a">>, "scene", at, 3)>>]
          : offset \in {0, 2, 14}, size \in {0, 1, 2, 5}, at \in {0, 3, 12}}

-----------------------------------------------------------------------------
MCSolids ==
  {MakeBoxMesh(1, 1, 1), MakeUvSphereMesh(0, 0), MakeUvSphereMesh(4, 3),
   MakeCylinderMesh(0, 1), MakeCylinderMesh(4, 1)}

Raw(positions, material, indices) ==
  Mesh(material, [i \in DOMAIN positions |-> Vertex(positions[i], Zero, <<i % 2, 0>>)], indices)
P == <<0, 0, 0>>
Q == <<0, 0, 1>>
R == <<0, 1, 0>>

(* A plane; a vertex twice and a triangle without area; an index out of    *)
(* range, one that wraps when it is moved, and one left over; no indices;  *)
(* nothing; and more vertices than an index of OBJ can name.               *)
MCMeshes == MCSolids \cup
  {MakePlaneMesh(2, 2, 0, 1), Raw(<<P, Q, P, R>>, 2, <<0, 1, 3, 2, 0, 3, 2, 3, 1>>),
   Raw(<<P, Q, R>>, 1, <<2, 1, 0, 0, 1, 3>>), Raw(<<P, Q, R>>, 0, <<0, 1, 2, IndexSpace - 1, 1, 0>>),
   Raw(<<Q, P, R>>, 0, <<0, 1, 2, 1>>), Raw(<<P, R, Q>>, 3, << >>), Raw(<< >>, 0, << >>),
   Raw([i \in 1..IndexSpace \div 2 + 1 |-> <<i % 2, i % 3, 0>>], 0,
       <<0, 1, IndexSpace \div 2, 0, 1, 2>>)}

MCMeshScenes ==
  {<<MakePlaneMesh(2, 2, 0, 1), Raw(<<P, Q, R>>, 1, <<2, 1, 0>>)>>,
   <<Raw(<<P, Q, R>>, 1, <<2, 1, 0>>), Raw(<<R, Q, P, <<1, 1, 1>>>>, 1, <<0, 1, 2, 3, 1, 0>>)>>}

V(position) == ObjLine("v", position)
T(texcoord) == ObjLine("vt", texcoord)
F(corners) == ObjLine("f", corners)
Plainly(index) == Corner(index, {}, {})
With(index, texcoord) == Corner(index, {texcoord}, {1})

(* A square; texture coordinates that come late; faces that count          *)
(* backwards, each from its own end; and no face.                          *)
MCObjFiles ==
  {<<V(P), V(Q), V(R), V(<<0, 1, 1>>), F(<<Plainly(1), Plainly(2), Plainly(4), Plainly(3)>>)>>,
   <<V(P), V(Q), V(R), T(<<1, 1>>), F(<<With(1, 1), With(2, 2), With(3, -1)>>), T(<<2, 2>>),
     F(<<With(1, 1), With(3, 1), With(2, 2)>>)>>,
   <<V(P), V(Q), V(R), F(<<Plainly(-3), Plainly(-2), Plainly(-1)>>), V(<<0, 1, 1>>), F(<<Plainly(-4), Plainly(3), Plainly(-1)>>)>>,
   <<V(P), V(Q), V(R), F(<<Plainly(-2), Plainly(-1), Plainly(0)>>)>>,
   <<V(P), V(Q)>>}
=============================================================================
