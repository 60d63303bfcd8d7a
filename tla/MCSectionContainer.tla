------------------------ MODULE MCSectionContainer ------------------------
(* Scenes for SectionContainer, of two-digit numbers.                      *)
EXTENDS SectionContainer

None == NoObject
Node(id, parent, children) ==
  [id |-> id, name |-> << >>, parent |-> parent, mesh |-> None, skeleton |-> None, camera |-> None,
   light |-> None, local |-> id, children |-> children]

Forest(ids, parents, children) ==
  [EmptyOlderScene EXCEPT !.nodes = [i \in 1..3 |-> Node(ids[i], parents[i], children)]]

(* Every kind of object, with slots, names and references of every kind.   *)
Unit ==
  [EmptyOlderScene EXCEPT
    !.textures = <<[id |-> 3, name |-> <<1>>, uri |-> <<2, 2, 3, 4, 5, 6, 7, 0, 1>>, width |-> 32,
                    height |-> 5, format |-> 1]>>,
    !.materials = <<[id |-> 2, name |-> << >>, color |-> 9, metallic |-> 0, roughness |-> 4,
                     slots |-> [slot \in {"baseColor", "normal"} |-> 3]],
                    [id |-> 4, name |-> <<5, 5>>, color |-> 1, metallic |-> 1, roughness |-> 1,
                     slots |-> [slot \in {"normal"} |-> 3]]>>,
    !.meshes = <<[id |-> 1, name |-> <<6>>, material |-> 2, vertices |-> <<10, 11, 12>>,
                  indices |-> <<0, 1, 2>>]>>,
    !.nodes = <<[Node(10, None, << >>) EXCEPT !.mesh = 1]>>]

Attached ==
  [EmptyOlderScene EXCEPT
    !.nodes = <<[Node(10, None, << >>) EXCEPT !.camera = 1, !.skeleton = 5], [Node(9, 10, <<4>>) EXCEPT !.light = 2]>>,
    !.cameras = <<[id |-> 1]>>, !.lights = <<[id |-> 2]>>, !.skeletons = <<[id |-> 5]>>]

Moving ==
  [EmptyOlderScene EXCEPT
    !.nodes = <<Node(1, None, << >>)>>,
    !.animations = <<[id |-> 1, name |-> <<2>>, duration |-> 3,
                      channels |-> <<[target |-> 1, translations |-> <<4, 5>>, rotations |-> << >>, scales |-> <<6>>],
                                     [target |-> 2, translations |-> << >>, rotations |-> <<7>>, scales |-> << >>]>>]>>]

(* A mesh of these vertices: runs, bytes that differ, and too many.  With  *)
(* no material, a literal of the packets is longer than its tag can say.   *)
Geometry(material, vertices) ==
  [EmptyOlderScene EXCEPT
    !.meshes = <<[id |-> 1, name |-> << >>, material |-> material, vertices |-> vertices,
                  indices |-> <<1>>]>>]

Constantly(v, n) == [i \in 1..n |-> v]

MCDamaged ==
  {Unit, Attached, Moving, Forest(<<1, 2, 3>>, <<None, 1, 1>>, << >>), Geometry(2, Constantly(0, 20))}

MCOlderScenes ==
  MCDamaged \cup {EmptyOlderScene}
    \cup {Forest(<<1, 2, 3>>, <<p, q, r>>, c) : p, q \in {1, 2, 3, 9, None}, r \in {1, 2, None}, c \in {<< >>, <<2>>}}
    \cup {Forest(<<1, 2, i>>, <<p, q, r>>, << >>) : i \in {1, 2}, p, q, r \in {1, 2, None}}
    \cup {Geometry(m, Constantly(v, n)) : m \in {None, 2}, n \in {1, 4, 8, 20, 40}, v \in {0, 9, 21}}
    \cup {Geometry(m, [i \in 1..n |-> i]) : m \in {None, 2}, n \in 1..8}
=============================================================================
