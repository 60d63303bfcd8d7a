--------------------------- MODULE MCSceneReports ---------------------------
(* One scene with every kind of object, the scenes that differ from it in  *)
(* one respect, and scenes with something missing, unused or cyclic.  Two  *)
(* floats print alike, and objects of different kinds share ids.           *)
EXTENDS SceneReports

Place(translation) == [translation |-> translation, rotation |-> 4, scale |-> 2]

NodeAt(id, name, parent, children) ==
  [id |-> id, name |-> <<name>>, parent |-> parent, mesh |-> 0, camera |-> 0, light |-> 0,
   local |-> Place(2), children |-> children]

Corner(at) == [position |-> at, normal |-> 2, uv |-> 4]

Full ==
  [EmptyScene EXCEPT
    !.nodes = <<NodeAt(1, "root", 0, <<3, 2>>), [NodeAt(2, "a", 1, << >>) EXCEPT !.mesh = 1],
                [NodeAt(3, "b", 1, << >>) EXCEPT !.camera = 2, !.light = 3]>>,
    !.meshes = <<[id |-> 1, name |-> <<"m">>, material |-> 2, corners |-> <<Corner(2), Corner(4)>>,
                  vertices |-> 2, indices |-> <<0, 1>>]>>,
    !.materials = <<[id |-> 2, name |-> <<"m">>, base_color |-> 2, roughness |-> 2, metallic |-> 2,
                     texture |-> 3, inRange |-> TRUE]>>,
    !.textures = <<[id |-> 3, name |-> <<"t">>, uri |-> <<"u">>, width |-> 2, height |-> 2,
                    color_space |-> <<"srgb">>, inRange |-> TRUE],
                   [id |-> 1, name |-> <<"t">>, uri |-> <<"v">>, width |-> 4, height |-> 1,
                    color_space |-> <<"srgb">>, inRange |-> TRUE]>>,
    !.cameras = <<[id |-> 2, name |-> <<"c">>, fov |-> 2, near |-> 2, far |-> 8, inRange |-> TRUE]>>,
    !.lights = <<[id |-> 3, name |-> <<"l">>, type |-> "spot", color |-> 2, intensity |-> 2,
                  inRange |-> TRUE]>>,
    !.skeletons = <<[id |-> 1, name |-> <<"k">>,
                     joints |-> <<[id |-> 5, name |-> <<"j">>, parent |-> 0, bind_pose |-> Place(2)],
                                  [id |-> 6, name |-> <<"j">>, parent |-> 5, bind_pose |-> Place(2)]>>]>>,
    !.animations = <<[id |-> 1, name |-> <<"w">>, duration |-> 4, inRange |-> TRUE,
                      channels |-> <<[target |-> 2, ordered |-> TRUE,
                                      keys |-> <<[time |-> 2, transform |-> Place(2)]>>]>>]>>,
    !.metadata = <<"k">> :> <<"v">>]
  @@ [name |-> <<"scene">>]

Swap(s) == <<s[2], s[1]>>

(* One thing changed, printed or not.                                      *)
OneOff ==
  {[Full EXCEPT !.name = <<"other">>],
   [Full EXCEPT !.metadata = <<"k">> :> <<"w">>],
   [Full EXCEPT !.metadata = (<<"k">> :> <<"v">>) @@ (<<"count">> :> <<"1">>)],
   [Full EXCEPT !.metadata = (<<"l">> :> <<"v">>) @@ (<<"count">> :> <<"1">>)],
   [Full EXCEPT !.nodes[2].name = <<"b">>],
   [Full EXCEPT !.nodes[2].mesh = 0],
   [Full EXCEPT !.nodes[3].camera = 0],
   [Full EXCEPT !.nodes[3].light = 0],
   [Full EXCEPT !.nodes[3].parent = 2, !.nodes[1].children = <<2>>, !.nodes[2].children = <<3>>],
   [Full EXCEPT !.nodes[2].local.translation = 3],
   [Full EXCEPT !.nodes[2].local.rotation = 6],
   [Full EXCEPT !.nodes[2].local.scale = 4],
   [Full EXCEPT !.nodes[1].children = <<2, 3>>],
   [Full EXCEPT !.nodes[1].children = <<2>>],
   [Full EXCEPT !.nodes = Swap(@) \o <<@[3]>>],
   [Full EXCEPT !.nodes = <<@[1], @[2]>>, !.nodes[1].children = <<2>>],
   [Full EXCEPT !.meshes[1].name = <<"n">>],
   [Full EXCEPT !.meshes[1].material = 0],
   [Full EXCEPT !.meshes[1].corners[2].position = 6],
   [Full EXCEPT !.meshes[1].corners[2].normal = 3],
   [Full EXCEPT !.meshes[1].corners[1].normal = 0],
   [Full EXCEPT !.meshes[1].corners[1].uv = 6],
   [Full EXCEPT !.meshes[1].corners = Append(@, Corner(2)), !.meshes[1].vertices = 3],
   [Full EXCEPT !.meshes[1].indices = <<1, 0>>],
   [Full EXCEPT !.meshes[1].indices = << >>],
   [Full EXCEPT !.materials[1].base_color = 4],
   [Full EXCEPT !.materials[1].roughness = 0],
   [Full EXCEPT !.materials[1].metallic = 3],
   [Full EXCEPT !.materials[1].texture = 1],
   [Full EXCEPT !.textures[1].uri = <<"v">>],
   [Full EXCEPT !.textures[1].width = 9],
   [Full EXCEPT !.textures[1].height = 4],
   [Full EXCEPT !.textures[1].color_space = <<"linear">>],
   [Full EXCEPT !.textures = Swap(@)],
   [Full EXCEPT !.cameras[1].fov = 4],
   [Full EXCEPT !.cameras[1].near = 3],
   [Full EXCEPT !.cameras[1].far = 10],
   [Full EXCEPT !.lights[1].type = "point"],
   [Full EXCEPT !.lights[1].color = 4],
   [Full EXCEPT !.lights[1].intensity = 4],
   [Full EXCEPT !.skeletons[1].joints[2].parent = 0],
   [Full EXCEPT !.skeletons[1].joints[2].bind_pose = Place(4)],
   [Full EXCEPT !.skeletons[1].joints = Swap(@)],
   [Full EXCEPT !.skeletons = << >>],
   [Full EXCEPT !.animations[1].duration = 6],
   [Full EXCEPT !.animations[1].channels[1].target = 3],
   [Full EXCEPT !.animations[1].channels[1].keys[1].time = 4],
   [Full EXCEPT !.animations[1].channels[1].keys[1].transform = Place(4)],
   [Full EXCEPT !.animations[1].channels[1].keys = << >>],
   [Full EXCEPT !.animations[1].id = 4]}

(* Something missing, out of range or in a circle.                         *)
Broken ==
  {[Full EXCEPT !.nodes[2].parent = 9], [Full EXCEPT !.nodes[2].mesh = 9],
   [Full EXCEPT !.nodes[2].camera = 9], [Full EXCEPT !.nodes[2].light = 9],
   [Full EXCEPT !.nodes[1].children = <<2, 3, 9>>], [Full EXCEPT !.nodes[1].children = <<2, 3, 0>>],
   [Full EXCEPT !.nodes[2].parent = 3, !.nodes[3].parent = 2],
   [Full EXCEPT !.nodes[1].parent = 1],
   [Full EXCEPT !.meshes[1].material = 9], [Full EXCEPT !.meshes[1].indices = <<0, 2>>],
   [Full EXCEPT !.materials[1].texture = 9], [Full EXCEPT !.skeletons[1].joints[1].parent = 9],
   [Full EXCEPT !.animations[1].channels[1].target = 9],
   [Full EXCEPT !.textures[2].id = 3], [Full EXCEPT !.textures[2].id = 3, !.textures[2].width = 5],
   [Full EXCEPT !.skeletons[1].joints[2].id = 5], [Full EXCEPT !.nodes = << >>]}

(* Valid scenes in which skeletons or animations share an id.  The first   *)
(* two mean different things and have the same entries.                    *)
Lasting(name, duration) ==
  [id |-> 1, name |-> <<name>>, duration |-> duration, inRange |-> TRUE, channels |-> << >>]
Repeated ==
  {[Full EXCEPT !.animations = <<Lasting("a", 4), Lasting("b", 6)>>],
   [Full EXCEPT !.animations = <<Lasting("a", 6), Lasting("b", 4)>>],
   [Full EXCEPT !.animations = <<Lasting("b", 6), Lasting("a", 4)>>],
   [Full EXCEPT !.animations = <<Lasting("b", 6), Lasting("b", 6)>>],
   [Full EXCEPT !.skeletons = @ \o @],
   [Full EXCEPT !.skeletons = Append(@, [@[1] EXCEPT !.joints = << >>])]}

MCScenes == {Full} \cup OneOff \cup Broken \cup Repeated

MCBases ==
  {Full, [Full EXCEPT !.cameras[1].near = 3],
   [Full EXCEPT !.metadata = (<<"k">> :> <<"v">>) @@ (<<"count">> :> <<"1">>)],
   [Full EXCEPT !.animations = <<Lasting("a", 4), Lasting("b", 6)>>],
   [Full EXCEPT !.skeletons = @ \o @], [Full EXCEPT !.textures[2].id = 3]}

(* Every number and text of these scenes.                                  *)
MCTexts ==
  <<"0", "1", "2", "3", "4", "5", "6", "7", "8", "9", "<name-omitted>", "a", "b", "c", "j", "k", "l",
    "linear", "m", "n", "other", "point", "root", "scene", "spot", "srgb", "t", "u", "v", "w">>

MCIndexedScenes ==
  {Full, [Full EXCEPT !.textures = Swap(@)], [Full EXCEPT !.name = <<"other">>],
   [Full EXCEPT !.lights[1].type = "point"]}

(* Keys at these times, each with another transform.                       *)
KeysAt(times) ==
  [i \in 1..Len(times) |->
     [time |-> times[i], transform |-> [translation |-> 5 * i - i * i, rotation |-> i, scale |-> 7 - i]]]

(* Two nodes, and two channels that move one or both of them.              *)
Moving(duration, times, target, others) ==
  LET Channel(id, t) == [target |-> id, keys |-> KeysAt(t), ordered |-> KeysOrdered(KeysAt(t), duration)]
  IN [Full EXCEPT
        !.nodes = <<NodeAt(1, "a", 0, <<2>>), [NodeAt(2, "b", 1, << >>) EXCEPT !.local = Place(3)],
                    [NodeAt(3, "b", 0, << >>) EXCEPT !.local = Place(5)]>>,
        !.animations = <<[id |-> 1, name |-> <<"w">>, duration |-> duration, inRange |-> TRUE,
                          channels |-> <<Channel(1, times), Channel(target, others)>>]>>]

MCMovingScenes ==
  {Moving(7, times, target, others) :
     times \in {<< >>, <<2>>, <<2, 2>>, <<0, 4>>, <<0, 3, 7>>, <<1, 3, 3, 7>>, <<1, 3, 3, 3, 5>>,
                <<1, 2, 6>>, <<0, 4, 6, 7>>, <<4, 1, 6>>, <<5, 2, 6, 1, 7>>, <<0, 9>>},
     target \in {0, 1, 2}, others \in {<< >>, <<0, 6>>}}
  \cup {Moving(duration, <<0, duration>>, 2, <<duration>>) : duration \in {0, 8, 10, 16, 24, 28, 32, 40}}
  \cup {Moving(5, <<4>>, 9, << >>)}
=============================================================================
