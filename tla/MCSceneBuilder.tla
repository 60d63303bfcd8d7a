--------------------------- MODULE MCSceneBuilder ---------------------------
(* The builder with at most MaxIds objects; see scene_builder.cfg.         *)
EXTENDS SceneBuilder

(* A triangle, and a mesh whose index is one past its only vertex.         *)
MCShapes == {[vertices |-> 3, indices |-> <<0, 1, 2>>],
             [vertices |-> 1, indices |-> <<1>>]}

(* Pairs that normalisation removes, and one that it keeps.                *)
MCEntries == {<<EmptyText, <<"value">>>>, <<<<"profile">>, EmptyText>>}
=============================================================================
