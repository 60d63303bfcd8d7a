--------------------------- MODULE MCSceneStream ---------------------------
(* Scenes that between them have every kind of object, of two to four      *)
(* digit bytes, for SceneStream.                                           *)
EXTENDS SceneStream

Identity == <<0, 0, 0, 0, 0, 0, FloatOne, FloatOne, FloatOne, FloatOne>>
Placed == <<FloatOne, 3, SignBit, 0, 0, 0, FloatOne, 5, 6, 7>>

NoScene ==
  [name |-> << >>, metadata |-> << >>, nodes |-> << >>, textures |-> << >>,
   materials |-> << >>, meshes |-> << >>, cameras |-> << >>, lights |-> << >>,
   skeletons |-> << >>, animations |-> << >>]

PlainNode(id, parent, children) ==
  [id |-> id, name |-> << >>, parent |-> parent, local |-> Identity, mesh |-> 0,
   camera |-> 0, light |-> 0, children |-> children]

Tree ==
  [NoScene EXCEPT
    !.name = <<3, 1>>,
    !.metadata = (<<1>> :> <<2, 3>>) @@ (<< >> :> <<0>>),
    !.nodes = <<[PlainNode(7, 0, <<9>>) EXCEPT !.name = <<2>>],
                [PlainNode(9, 7, << >>) EXCEPT !.local = Placed]>>]

Assets ==
  [NoScene EXCEPT
    !.metadata = <<2>> :> <<1>>,
    !.nodes = <<[PlainNode(1, 0, << >>) EXCEPT !.mesh = 300, !.camera = 2, !.light = 3]>>,
    !.textures = <<[id |-> 6, name |-> <<1>>, uri |-> <<2, 0>>, width |-> 4, height |-> 5,
                    color_space |-> << >>]>>,
    !.materials = <<[id |-> 5, name |-> << >>, base_color |-> <<1, 2, 3>>, roughness |-> FloatOne,
                     metallic |-> 2, base_color_texture |-> 6]>>,
    !.meshes = <<[id |-> 300, name |-> <<1>>, material |-> 5,
                  vertices |-> <<[position |-> <<1, 2, 3>>, normal |-> <<4, 5, 6>>,
                                  texcoord |-> <<7, 8>>]>>,
                  indices |-> <<0, 0>>]>>,
    !.cameras = <<[id |-> 2, name |-> << >>, fov |-> 20, near |-> 1, far |-> 30]>>,
    !.lights = <<[id |-> 3, name |-> <<3>>, type |-> 2, color |-> <<9, 8, 7>>, intensity |-> 1]>>]

Motion ==
  [NoScene EXCEPT
    !.nodes = <<PlainNode(1, 0, << >>)>>,
    !.skeletons = <<[id |-> 4, name |-> <<1>>,
                     joints |-> <<[id |-> 2, name |-> << >>, parent |-> 0, bind_pose |-> Placed]>>],
                    [id |-> 4, name |-> << >>, joints |-> << >>]>>,
    !.animations = <<[id |-> 8, name |-> << >>, duration |-> 5,
                      channels |-> <<[target |-> 1,
                                      keys |-> <<[time |-> 4, transform |-> Placed]>>],
                                     [target |-> 0, keys |-> << >>]>>]>>]

(* Not writable: a string too long, a reference to nothing.                *)
Refused == {[Tree EXCEPT !.name = <<1, 1, 1>>], [Tree EXCEPT !.nodes[1].mesh = 4]}

MCScenes == {Tree, Assets, Motion, NoScene} \cup Refused
=============================================================================
