--------------------------- MODULE MCSceneEditing ---------------------------
(***************************************************************************)
(* SceneEditing for TLC: an id space of 16, and scenes with duplicates,    *)
(* unused resources, empty animations, ids shared between kinds, the last  *)
(* id of the space, and references to nothing.                             *)
(***************************************************************************)
EXTENDS SceneEditing

MCPrinted == ("red" :> "red") @@ ("reddish" :> "red") @@ ("blue" :> "blue")

Tagged(node, tag) == node @@ ("tag" :> tag)
Mesh(id, material, near, indices) ==
  [id |-> id, material |-> material, vertices |-> 3, indices |-> indices,
   near |-> near, tag |-> "mesh"]
Material(id, texture, look) == [id |-> id, texture |-> texture, inRange |-> TRUE, look |-> look]
Texture(id, look) == [id |-> id, inRange |-> TRUE, look |-> look]
Animated(id, target, keys) ==
  [id |-> id, tag |-> "lift", inRange |-> TRUE,
   channels |-> <<[target |-> target, ordered |-> TRUE, keys |-> keys]>>]

(* Two meshes whose materials differ only in textures that are the same.   *)
Twins ==
  [EmptyScene EXCEPT
     !.nodes = <<[Tagged(Node(9, 4), "left") EXCEPT !.mesh = 6],
                 [Tagged(Node(4, NoId), "top") EXCEPT !.camera = 4],
                 [Tagged(Node(7, 4), "right") EXCEPT !.mesh = 8]>>,
     !.meshes = <<Mesh(8, 3, FALSE, <<0, 1, 2, 0, 2>>), Mesh(6, 2, TRUE, <<0, 1, 2>>)>>,
     !.materials = <<Material(2, 5, "red"), Material(3, 2, "reddish"), Material(5, NoId, "blue")>>,
     !.textures = <<Texture(5, "red"), Texture(2, "red"), Texture(9, "blue")>>,
     !.cameras = <<[id |-> 4, inRange |-> TRUE, tag |-> "eye"]>>,
     !.skeletons = <<[id |-> 5, tag |-> "arm", joints |-> <<[id |-> 3, parent |-> NoId, tag |-> "a"],
                                                       [id |-> 2, parent |-> 3, tag |-> "b"]>>],
                     [id |-> 1, tag |-> "none", joints |-> << >>]>>,
     !.animations = <<Animated(3, 7, 1), Animated(3, 9, 0)>>]

(* Only the last id is in use, for a node with a child list of its own.    *)
LastId ==
  [EmptyScene EXCEPT
     !.nodes = <<[Tagged(Node(IdSpace - 1, NoId), "top") EXCEPT !.children = <<IdSpace - 1>>],
                 Tagged(Node(1, IdSpace - 1), "leaf")>>]

(* A node with two children.                                               *)
Family ==
  [EmptyScene EXCEPT
     !.nodes = <<Tagged(Node(1, NoId), "top"), Tagged(Node(2, 1), "left"), Tagged(Node(3, 1), "right")>>,
     !.animations = <<Animated(1, 1, 1)>>]

(* A node that names a mesh which does not exist.                          *)
Dangling ==
  [EmptyScene EXCEPT
     !.nodes = <<[Tagged(Node(5, NoId), "top") EXCEPT !.mesh = 2]>>,
     !.meshes = <<Mesh(7, NoId, FALSE, <<0, 1, 3>>)>>]

MCSources == {EmptyScene, Twins, LastId, Family, Dangling}

MCPassLists ==
  {<< >>, <<"compact_object_ids">>, <<"merge_duplicate_materials", "merge_duplicate_textures">>,
   <<"sort_collections", "remove_unused_resources", "compact_object_ids">>}

MCRecipes ==
  {<<"rename_objects", "perturb_transforms", "perturb_geometry">>,
   <<"duplicate_mesh", "reassign_materials", "quantize_geometry">>,
   <<"duplicate_subtree", "duplicate_subtree", "perturb_transforms">>,
   <<"expand_animation_keys", "perturb_transforms">>,
   <<"inject_dangling_references">>,
   <<"drop_leaf_nodes", "duplicate_subtree">>,
   <<"inject_dangling_references", "duplicate_mesh", "reassign_materials">>}
=============================================================================
