---------------------------- MODULE SceneEditing ----------------------------
(***************************************************************************)
(* Calls of OptimizeScene and MutateScene, one after the other, each on    *)
(* what the one before returned.  A call works on a copy, a pass or a      *)
(* mutation at a time.  The generator of bse/scene_mutator.cpp is seeded   *)
(* by the caller; the model lets it give any number.  Names and            *)
(* coordinates are left out: renaming does nothing here, and geometry only *)
(* decides whether vertices fall together.                                 *)
(***************************************************************************)
EXTENDS SceneOptimizer

CONSTANTS
  Sources,      \* scenes a caller begins with
  PassLists,    \* OptimizationOptions::passes of the callers
  Recipes,      \* MutationRecipe::steps of the callers
  MaxNewNodes,  \* MutationOptions::max_new_nodes
  MaxNewMeshes, \* MutationOptions::max_new_meshes
  MaxNewKeys,   \* MutationOptions::max_new_keys_per_channel
  MaxCalls      \* bound of the model

MutationKind ==
  {"rename_objects", "perturb_transforms", "perturb_geometry", "duplicate_mesh",
   "duplicate_subtree", "drop_leaf_nodes", "reassign_materials", "expand_animation_keys",
   "inject_dangling_references", "quantize_geometry"}

ASSUME EditingAssumption ==
  /\ \A passes \in PassLists : passes \in Seq(OptimizationPass)
  /\ \A recipe \in Recipes : recipe \in Seq(MutationKind)
  /\ {MaxNewNodes, MaxNewMeshes, MaxNewKeys, MaxCalls} \subseteq Nat

VARIABLES
  source,   \* the scene the call was given
  scene,    \* its copy of it
  call,     \* "optimize", "mutate", or "none" before the first
  checks,   \* validate_after_pass or preserve_validity
  plan,     \* the passes or mutations of the call
  steps,    \* how many of them have run
  next_id,  \* the id allocated last
  report,   \* MutationReport: nodes added and removed, meshes added
  status,   \* "running", or "ok" and "failed" once the call has returned
  calls     \* number of calls

vars == <<source, scene, call, checks, plan, steps, next_id, report, status, calls>>
options == <<source, call, checks, plan, calls>>

NothingYet == [nodes_added |-> 0, nodes_removed |-> 0, meshes_added |-> 0]

Init ==
  /\ source \in Sources /\ scene = source
  /\ call = "none" /\ checks = FALSE /\ plan = << >> /\ steps = 0
  /\ next_id = NoId /\ report = NothingYet
  /\ status = "ok" /\ calls = 0

Call(name, validates, list) ==
  /\ status = "ok" /\ calls < MaxCalls
  /\ source' = scene
  /\ call' = name /\ checks' = validates /\ plan' = list /\ steps' = 0
  /\ report' = NothingYet
  /\ status' = "running" /\ calls' = calls + 1
  /\ UNCHANGED scene

OptimizeScene(passes, validates) ==
  /\ Call("optimize", validates, IF passes = << >> THEN DefaultOptimizationPasses ELSE passes)
  /\ next_id' = NoId

MutateScene(recipe, validates) ==
  /\ Call("mutate", validates, recipe)
  /\ next_id' = MaxObjectId(scene)

Running(name) == status = "running" /\ call = name /\ steps < Len(plan)

(* A pass, after which the scene is validated if that was asked for.       *)
RunNextPass ==
  /\ Running("optimize")
  /\ scene' = RunPass(scene, plan[steps + 1])
  /\ steps' = steps + 1
  /\ status' = IF checks /\ ~ValidateScene(scene') THEN "failed"
               ELSE IF steps' = Len(plan) THEN "ok" ELSE "running"
  /\ UNCHANGED <<options, next_id, report>>

-----------------------------------------------------------------------------
(* Mutations.                                                              *)

(* Ids are taken one above the other; after the last comes 1.              *)
Allocated(n) == ((next_id + n - 1) % (IdSpace - 1)) + 1

(* Of nodes that share an id only the last gets children.                  *)
RebuildChildren(s) ==
  LET Latest(i) == \A j \in i + 1..Len(s.nodes) : s.nodes[j].id # s.nodes[i].id
      Named(id) == {n.id : n \in {n \in Range(s.nodes) : n.parent # NoId /\ n.parent = id}}
  IN [s EXCEPT !.nodes =
        [i \in 1..Len(s.nodes) |->
           [s.nodes[i] EXCEPT !.children =
              IF Latest(i) THEN SX!SetToSortSeq(Named(s.nodes[i].id), <) ELSE << >>]]]

(* The step of the recipe that runs, and what it does to the scene.        *)
Mutation(kind) ==
  Running("mutate") /\ plan[steps + 1] = kind /\ steps' = steps + 1 /\ UNCHANGED <<options, status>>
Without == UNCHANGED <<next_id, report>>
Nothing == Without /\ UNCHANGED scene

ChangePayload ==
  /\ \E kind \in {"rename_objects", "perturb_transforms"} : Mutation(kind)
  /\ Nothing

(* Vertices move, together or apart.                                       *)
MoveVertices ==
  /\ \E kind \in {"perturb_geometry", "quantize_geometry"} : Mutation(kind)
  /\ \E near \in BOOLEAN :
       scene' = [scene EXCEPT !.meshes = Mapped(@, LAMBDA m : [m EXCEPT !.near = near])]
  /\ Without

(* A copy of a mesh, which some of the nodes that show the mesh show now.  *)
DuplicateMesh ==
  /\ Mutation("duplicate_mesh")
  /\ scene.meshes # << >> /\ report.meshes_added < MaxNewMeshes
  /\ \E original \in Range(scene.meshes) :
       LET copy == [original EXCEPT !.id = Allocated(1)]
           users == {i \in 1..Len(scene.nodes) : scene.nodes[i].mesh = original.id}
       IN \E retargeted \in SUBSET users :
            scene' = [scene EXCEPT
                        !.meshes = Append(@, copy),
                        !.nodes = [i \in 1..Len(@) |->
                                     IF i \in retargeted THEN [@[i] EXCEPT !.mesh = copy.id]
                                                         ELSE @[i]]]
  /\ next_id' = Allocated(1)
  /\ report' = [report EXCEPT !.meshes_added = @ + 1]

DuplicateNoMesh ==
  /\ Mutation("duplicate_mesh")
  /\ scene.meshes = << >> \/ report.meshes_added >= MaxNewMeshes
  /\ Nothing

(* How many children are copied with a node.                               *)
Room(node) == Min({Len(node.children), MaxNewNodes - (report.nodes_added + 1)})

DuplicateSubtree ==
  /\ Mutation("duplicate_subtree")
  /\ scene.nodes # << >> /\ report.nodes_added < MaxNewNodes
  /\ LET linked == RebuildChildren(scene)
     IN \E original \in Range(linked.nodes) :
          LET room == Room(original)
              copy == [original EXCEPT !.id = Allocated(1), !.children = << >>]
              Child(i) == [FirstWithId(linked.nodes, original.children[i]) EXCEPT
                             !.id = Allocated(i + 1), !.parent = copy.id, !.children = << >>]
          IN /\ scene' = RebuildChildren(
                           [linked EXCEPT !.nodes = Append(@, copy) \o [i \in 1..room |-> Child(i)]])
             /\ next_id' = Allocated(room + 1)
             /\ report' = [report EXCEPT !.nodes_added = @ + 1 + room]

DuplicateNoSubtree ==
  /\ Mutation("duplicate_subtree")
  /\ scene.nodes = << >> \/ report.nodes_added >= MaxNewNodes
  /\ Nothing

(* Nodes without children and with a parent can be dropped.                *)
Leaves(s) ==
  LET roots == {n.id : n \in {n \in Range(s.nodes) : n.parent = NoId}}
  IN {n.id : n \in {n \in Range(s.nodes) : n.children = << >>}} \ roots

DropLeafNodes ==
  /\ Mutation("drop_leaf_nodes")
  /\ LET linked == RebuildChildren(scene)
         Dropping(id) == [linked EXCEPT !.nodes = SelectSeq(@, LAMBDA n : n.id # id)]
     IN IF Len(scene.nodes) <= 1 \/ Leaves(linked) = {}
          THEN scene' = linked /\ Without
          ELSE \E id \in Leaves(linked) :
                 /\ scene' = RebuildChildren(Dropping(id))
                 /\ report' = [report EXCEPT !.nodes_removed =
                                 @ + Len(linked.nodes) - Len(Dropping(id).nodes)]
                 /\ UNCHANGED next_id

(* Variant: meshes get materials by their places, not by their ids.        *)
ReassignPlaces ==
  /\ Mutation("reassign_materials")
  /\ \E place \in [1..Len(scene.meshes) -> 1..Len(scene.materials)] :
       scene' = [scene EXCEPT !.meshes =
                   [i \in 1..Len(@) |-> [@[i] EXCEPT !.material = place[i]]]]
  /\ Without

ReassignMaterials ==
  /\ Mutation("reassign_materials")
  /\ \E place \in [1..Len(scene.meshes) -> 1..Len(scene.materials)] :
       scene' = [scene EXCEPT !.meshes =
                   [i \in 1..Len(@) |->
                      [@[i] EXCEPT !.material = scene.materials[place[i]].id]]]
  /\ Without

ReassignNothing ==
  /\ Mutation("reassign_materials") /\ scene.materials = << >> /\ Nothing

(* Each channel gets copies of some of its keys and is sorted by time,     *)
(* which can also put in order what was not.                               *)
ExpandAnimationKeys ==
  /\ Mutation("expand_animation_keys")
  /\ \E mends \in BOOLEAN :
       LET Expand(c) == IF c.keys = 0 THEN c
                        ELSE [c EXCEPT !.keys = @ + Min({@, MaxNewKeys}),
                                       !.ordered = @ \/ mends]
       IN scene' = [scene EXCEPT !.animations =
                      Mapped(@, LAMBDA a : [a EXCEPT !.channels = Mapped(@, Expand)])]
  /\ Without

(* The first node, mesh and material refer to ids above all others, of     *)
(* which only the first is taken.                                          *)
InjectDanglingReferences ==
  LET missing == Allocated(1)
  IN /\ Mutation("inject_dangling_references") /\ ~checks
     /\ scene' = [scene EXCEPT
          !.nodes = IF @ = << >> THEN @ ELSE [@ EXCEPT ![1].mesh = missing],
          !.meshes = IF @ = << >> THEN @ ELSE [@ EXCEPT ![1].material = (missing + 1) % IdSpace],
          !.materials = IF @ = << >> THEN @ ELSE [@ EXCEPT ![1].texture = (missing + 2) % IdSpace]]
     /\ next_id' = missing
     /\ UNCHANGED report

SkipDanglingReferences ==
  Mutation("inject_dangling_references") /\ checks /\ Nothing

(* MutateScene links the children and, if asked to, validates the result.  *)
FinishMutation ==
  /\ status = "running" /\ call = "mutate" /\ steps = Len(plan)
  /\ scene' = RebuildChildren(scene)
  /\ status' = IF checks /\ ~ValidateScene(scene') THEN "failed" ELSE "ok"
  /\ UNCHANGED <<options, steps, next_id, report>>

Next ==
  \/ \E passes \in PassLists, validates \in BOOLEAN : OptimizeScene(passes, validates)
  \/ \E recipe \in Recipes, validates \in BOOLEAN : MutateScene(recipe, validates)
  \/ RunNextPass
  \/ ChangePayload \/ MoveVertices \/ DuplicateMesh \/ DuplicateNoMesh
  \/ DuplicateSubtree \/ DuplicateNoSubtree \/ DropLeafNodes
  \/ ReassignMaterials \/ ReassignNothing \/ ExpandAnimationKeys
  \/ InjectDanglingReferences \/ SkipDanglingReferences
  \/ FinishMutation

Spec == Init /\ [][Next]_vars

-----------------------------------------------------------------------------
(* Ids, counts and the parts of a call have their types.                   *)
TypeOK ==
  /\ AllIds(scene) \subseteq Id /\ next_id \in Id
  /\ {n.parent : n \in Range(scene.nodes)} \subseteq Id
  /\ call \in {"none", "optimize", "mutate"} /\ status \in {"running", "ok", "failed"}
  /\ checks \in BOOLEAN /\ steps \in 0..Len(plan) /\ calls \in 0..MaxCalls
  /\ report \in [nodes_added : 0..MaxNewNodes, nodes_removed : Nat, meshes_added : 0..MaxNewMeshes]

(* After every pass a valid scene shows what it showed before: each node   *)
(* its mesh, material and texture, each animation its targets, whatever    *)
(* ids they have now and whichever duplicates are gone.  A scene that is   *)
(* not valid, but has each id once in its kind, shows at least what it     *)
(* showed before: only a reference that led nowhere may lead to an object. *)
IdsDiffer(s) ==
  LET Once(objects) == Cardinality(Ids(objects)) = Len(objects)
  IN /\ \A kind \in DOMAIN s \ {"metadata"} : Once(s[kind])
     /\ \A k \in Range(s.skeletons) : Once(k.joints)

OptimizingKeepsMeaning ==
  call = "optimize" =>
    /\ ValidateScene(source) => View(scene) = View(source)
    /\ IdsDiffer(source) => ShowsAll(View(scene), View(source))

(* One run of the default passes leaves nothing for another one to do: no  *)
(* duplicate appears, and nothing becomes unused, after the pass for it.   *)
DefaultPassesSettle ==
  /\ call = "optimize" /\ plan = DefaultOptimizationPasses
  /\ status = "ok" /\ ValidateScene(source)
  => RunPasses(scene, DefaultOptimizationPasses) = scene

(* A valid scene is never turned into one that fails validation, except    *)
(* that a mutation may grow it past the limits, run out of ids, or drop a  *)
(* node that is animated.                                                  *)
FailsOnlyForCause ==
  status = "failed" /\ ValidateScene(source) =>
    /\ call = "mutate"
    /\ \/ ~WithinLimits(scene)
       \/ MaxObjectId(source) + report.nodes_added + report.meshes_added >= IdSpace
       \/ \E a \in Range(scene.animations) : \E c \in Range(a.channels) :
            c.target \in Ids(source.nodes) \ Ids(scene.nodes)
=============================================================================
