------------------------- MODULE MCSceneCollection -------------------------
(***************************************************************************)
(* SceneCollection for TLC: three keys and the empty one, an id space of   *)
(* 16, and scenes whose ids lie at both ends of it: a merge shifts ids,    *)
(* wraps them onto free ones, onto used ones and onto 0.                   *)
(***************************************************************************)
EXTENDS SceneCollection

(* One object of almost every kind, in an order that sorting changes.      *)
Lamp ==
  [EmptyScene EXCEPT
     !.nodes = <<[Node(3, 1) EXCEPT !.mesh = 4],
                 [Node(1, NoId) EXCEPT !.light = 2, !.children = <<3>>]>>,
     !.lights = <<[id |-> 2, inRange |-> TRUE]>>,
     !.meshes = <<[id |-> 4, material |-> 5, vertices |-> 3, indices |-> <<0, 1, 2>>]>>,
     !.materials = <<[id |-> 5, texture |-> 6, inRange |-> TRUE]>>,
     !.textures = <<[id |-> 6, inRange |-> TRUE]>>,
     !.metadata = <<"title">> :> <<"lamp">>]

(* A skeleton and animations; ids are reused between families.             *)
Rig ==
  [EmptyScene EXCEPT
     !.nodes = <<[Node(1, NoId) EXCEPT !.camera = 1]>>,
     !.cameras = <<[id |-> 3, inRange |-> TRUE], [id |-> 1, inRange |-> TRUE]>>,
     !.skeletons = <<[id |-> 1, joints |-> <<[id |-> 3, parent |-> 2], [id |-> 2, parent |-> NoId]>>]>>,
     !.animations = <<[id |-> 1, inRange |-> TRUE, channels |-> <<[target |-> 1, ordered |-> TRUE]>>]>>,
     !.metadata = (<<"title">> :> <<"rig">>) @@ (<<"note">> :> EmptyText)]

(* The last id of the space, and a child list that no parent agrees with.  *)
Last == [EmptyScene EXCEPT
           !.nodes = <<[Node(IdSpace - 1, NoId) EXCEPT !.children = <<IdSpace - 1>>]>>]

(* Ids that wrap to 0 when they follow Lamp.                               *)
Wrapping ==
  [EmptyScene EXCEPT
     !.nodes = <<[Node(8, NoId) EXCEPT !.mesh = 9]>>,
     !.meshes = <<[id |-> 9, material |-> NoId, vertices |-> 1, indices |-> <<0>>]>>]

(* Two animations that share an id, which the validator lets through.      *)
Twins ==
  [Rig EXCEPT !.animations = @ \o @]

(* Rig after its camera was deleted.                                       *)
Broken == [Rig EXCEPT !.cameras = << >>]

MCLibrary == {Lamp, Rig, Last, Wrapping, Broken}
MCLibraryWithTwins == MCLibrary \cup {Twins}
=============================================================================
