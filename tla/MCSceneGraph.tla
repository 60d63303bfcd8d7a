---------------------------- MODULE MCSceneGraph ----------------------------
(* Scenes of up to three nodes for SceneGraph.                             *)
EXTENDS SceneGraph

(* Any parent, and at most one child in the node's own list besides those  *)
(* that name it; 9 is the id of no node.                                   *)
Nodes(ids, lists) == [id : ids, parent : {0, 1, 2, 3, 9}, children : lists]
Lists == {{}, {1}, {2}, {3}, {9}}

MCScenes ==
  {<< >>}
    \cup {<<a>> : a \in Nodes({1}, {{}, {1}, {9}})}
    \cup (Nodes({1}, Lists) \X Nodes({2}, Lists) \X Nodes({3}, {{}}))
    \cup (Nodes({0}, {{}, {1}}) \X Nodes({1}, {{}}))
    \cup (Nodes({1}, {{}}) \X Nodes({2}, Lists) \X Nodes({2, 3}, {{1}, {2, 9}}))
=============================================================================
