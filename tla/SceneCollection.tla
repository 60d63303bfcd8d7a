-------------------------- MODULE SceneCollection --------------------------
(***************************************************************************)
(* bse::SceneCollection: scenes stored under keys, checked when they are   *)
(* added, open to any change through the pointer Find returns, and merged  *)
(* into one scene by shifting the ids of each past those before it.        *)
(***************************************************************************)
EXTENDS SceneModel

CONSTANTS
  Keys,     \* keys callers use: numbers in the order of the strings, 0 the empty one
  Library   \* scenes callers hold, valid or not

ASSUME CollectionAssumption ==
  /\ Keys \subseteq Nat
  /\ \A s \in Library : IsScene(s)

VARIABLES
  scenes,   \* scenes_: key -> scene
  edited,   \* keys whose scene was changed through a pointer since it was added
  merged    \* what MergeAll returned when it was the last call, else NoMerge

vars == <<scenes, edited, merged>>

EmptyKey == 0
NoMerge  == [status |-> "none", scene |-> EmptyScene]

(* Keys(): the keys in increasing order.                                   *)
SortedKeys(keys) ==
  [n \in 1..Cardinality(keys) |->
     CHOOSE k \in keys : Cardinality({j \in keys : j < k}) = n - 1]

Init == scenes = << >> /\ edited = {} /\ merged = NoMerge

(* A valid scene replaces whatever its key held.                           *)
Add(key, s) ==
  /\ key # EmptyKey
  /\ ValidateScene(s)
  /\ scenes' = [k \in DOMAIN scenes \cup {key} |-> IF k = key THEN s ELSE scenes[k]]
  /\ edited' = edited \ {key}
  /\ merged' = NoMerge

AddRefused(key, s) ==
  /\ key = EmptyKey \/ ~ValidateScene(s)
  /\ merged' = NoMerge
  /\ UNCHANGED <<scenes, edited>>

Remove(key) ==
  /\ scenes' = [k \in DOMAIN scenes \ {key} |-> scenes[k]]
  /\ edited' = edited \ {key}
  /\ merged' = NoMerge

(* The caller writes through the pointer Find(key) returned.               *)
EditFound(key, s) ==
  /\ key \in DOMAIN scenes
  /\ scenes' = [scenes EXCEPT ![key] = s]
  /\ edited' = edited \cup {key}
  /\ merged' = NoMerge

(* The loop of MergeAll: the first scene as it is, each further one merged *)
(* into what came before, until one does not merge.                        *)
MergeUpTo(keys) ==
  LET upTo[n \in 1..Len(keys)] ==
        IF n = 1 THEN [ok |-> TRUE, scene |-> scenes[keys[1]]]
        ELSE IF upTo[n - 1].ok THEN MergeScenes(upTo[n - 1].scene, scenes[keys[n]])
        ELSE upTo[n - 1]
  IN upTo[Len(keys)]

MergeAll ==
  /\ DOMAIN scenes # {}
  /\ LET result == MergeUpTo(SortedKeys(DOMAIN scenes))
     IN merged' = IF result.ok THEN [status |-> "ok", scene |-> result.scene]
                               ELSE [status |-> "error", scene |-> EmptyScene]
  /\ UNCHANGED <<scenes, edited>>

MergeNothing ==
  /\ DOMAIN scenes = {}
  /\ merged' = [status |-> "error", scene |-> EmptyScene]
  /\ UNCHANGED <<scenes, edited>>

Next ==
  \/ \E key \in Keys, s \in Library : Add(key, s) \/ AddRefused(key, s) \/ EditFound(key, s)
  \/ \E key \in Keys : Remove(key)
  \/ MergeAll
  \/ MergeNothing

Spec == Init /\ [][Next]_vars

-----------------------------------------------------------------------------

(* Stored and merged scenes are well-formed data under non-empty keys.     *)
TypeOK ==
  /\ DOMAIN scenes \subseteq Keys \ {EmptyKey}
  /\ \A key \in DOMAIN scenes : IsScene(scenes[key])
  /\ edited \subseteq DOMAIN scenes
  /\ merged.status \in {"none", "ok", "error"} /\ IsScene(merged.scene)

IdFields ==
  [nodes |-> {"id", "parent", "mesh", "camera", "light"}, meshes |-> {"id", "material"},
   materials |-> {"id", "texture"}, textures |-> {"id"}, cameras |-> {"id"}, lights |-> {"id"}]

Collections == DOMAIN IdFields \cup {"animations", "skeletons"}

(* Object y is object x with every id in it moved by the same distance.    *)
IsMoved(f, x, y, distance) ==
  LET Moved(id) == IF id = NoId THEN NoId ELSE (id + distance) % IdSpace
  IN CASE f \in DOMAIN IdFields ->
            \A g \in DOMAIN x \ {"children"} :
              y[g] = IF g \in IdFields[f] THEN Moved(x[g]) ELSE x[g]
       [] f = "animations" ->
            /\ y.id = Moved(x.id) /\ Len(y.channels) = Len(x.channels)
            /\ \A c \in DOMAIN x.channels : y.channels[c].target = Moved(x.channels[c].target)
       [] f = "skeletons" ->
            /\ y.id = Moved(x.id)
            /\ {<<j.id, j.parent>> : j \in Range(y.joints)} =
                 {<<Moved(j.id), Moved(j.parent)>> : j \in Range(x.joints)}

(* Scene s is found again in m, object by object, all moved by the same    *)
(* distance: the same objects refer to the same objects.                   *)
FoundAgain(s, m, distance) ==
  \A f \in Collections : \A x \in Range(s[f]) : \E y \in Range(m[f]) : IsMoved(f, x, y, distance)

(* A merge that succeeds holds every stored scene, each on its own: every  *)
(* object with the references it had, none captured by an object of        *)
(* another scene or lost because the 64-bit shift wrapped around, and      *)
(* nothing more than those objects.  The first scene's metadata stays.     *)
(* The child lists of a merge of several scenes are the inverse of its     *)
(* parents, even when a stored scene came with stale lists, which Add does *)
(* not notice.                                                             *)
MergeKeepsEveryScene ==
  merged.status = "ok" =>
    /\ \A key \in DOMAIN scenes : \E distance \in Id : FoundAgain(scenes[key], merged.scene, distance)
    /\ \A f \in Collections :
         Len(merged.scene[f]) = Cardinality(UNION {{key} \X DOMAIN scenes[key][f] : key \in DOMAIN scenes})
    /\ LET first == scenes[SortedKeys(DOMAIN scenes)[1]].metadata
       IN \A k \in DOMAIN first :
            first[k] # EmptyText /\ k # EmptyText =>
              k \in DOMAIN merged.scene.metadata /\ merged.scene.metadata[k] = first[k]
    /\ Cardinality(DOMAIN scenes) > 1 =>
         \A node \in Range(merged.scene.nodes) :
           Range(node.children) = {n.id : n \in {x \in Range(merged.scene.nodes) : x.parent = node.id}}

(* Scenes that were valid when stored and not edited since always merge,   *)
(* unless together they run out of ids or pass a limit of the validator.   *)
TopId(s) == CHOOSE m \in AllIds(s) \cup {0} : \A id \in AllIds(s) : id <= m
RoomFor(all) ==
  LET keys == DOMAIN all
      Sum(Size(_)) == TotalOf([key \in keys |-> Size(all[key])])
  IN /\ Sum(LAMBDA s : TopId(s) + 1) <= IdSpace
     /\ Sum(LAMBDA s : Len(s.nodes)) <= MaxNodes
     /\ Sum(VertexCount) <= MaxVertices
     /\ Sum(IndexCount) <= MaxIndices
ValidScenesMerge ==
  edited = {} /\ DOMAIN scenes # {} /\ RoomFor(scenes) => merged.status # "error"

(* docs/binary-format.md, Validation: a scene that was accepted uses no    *)
(* object id 0 and no id twice within an object family, animations and     *)
(* skeletons being families like the others.                               *)
StoredScenesMeetFormatRules ==
  \A key \in DOMAIN scenes \ edited :
    \A f \in Collections : UniqueIds(scenes[key][f])
=============================================================================
