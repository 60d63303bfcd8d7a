---------------------------- MODULE SceneDepths ----------------------------
(***************************************************************************)
(* The depth of a node, counted upwards along parents: NodeDepth of        *)
(* bse/scene_metrics.cpp and DepthOf of bse/validation_profile.cpp.  Both  *)
(* look nodes up in a map that keeps the last node of an id, and both are  *)
(* loops over parents that may be missing or form a cycle; they end them   *)
(* in different places.                                                    *)
(***************************************************************************)
EXTENDS Integers, SequencesExt

CONSTANT NoId    \* kInvalidObjectId

IdsOf(nodes) == {nodes[i].id : i \in DOMAIN nodes}

(* The parent that the last node of an id names.                           *)
ParentInMap(nodes, id) ==
  nodes[CHOOSE i \in DOMAIN nodes :
          nodes[i].id = id /\ \A j \in i + 1..Len(nodes) : nodes[j].id # id].parent

(* The parents the loop of NodeDepth inserts into visited: it stops before *)
(* one that is missing or that it has met.                                 *)
NodeDepth(nodes, node) ==
  LET climbed[k \in 0..Len(nodes)] ==
        IF k = 0 THEN << >>
        ELSE LET met == climbed[k - 1]
                 parent == IF met = << >> THEN node.parent ELSE ParentInMap(nodes, Last(met))
             IN IF parent \in IdsOf(nodes) \ (ToSet(met) \cup {NoId}) THEN Append(met, parent) ELSE met
  IN Len(climbed[Len(nodes)])

(* The places of the cursor in DepthOf: it goes on to a parent that is     *)
(* missing, and to one that it has met, which then counts once more.       *)
DepthOf(nodes, id) ==
  LET cursor[k \in 0..Len(nodes)] ==
        IF k = 0 THEN <<id>>
        ELSE LET met == cursor[k - 1]
                 at == Last(met)
             IN IF at \in IdsOf(nodes) \ ToSet(Front(met)) /\ ParentInMap(nodes, at) # NoId
                  THEN Append(met, ParentInMap(nodes, at)) ELSE met
      met == cursor[Len(nodes)]
  IN IF Last(met) \in ToSet(Front(met)) THEN Len(met) ELSE Len(met) - 1
=============================================================================
