---------------------------- MODULE SceneBuilder ----------------------------
(***************************************************************************)
(* bse::SceneBuilder: a caller assembles a scene object by object and asks *)
(* for a checked copy of it with Build, as often as it likes.  One counter *)
(* hands out the ids of all families.  The caller names parents, materials *)
(* and animation targets by id and may get them wrong: an id not handed    *)
(* out yet, its own, or that of an object of another kind.                 *)
(***************************************************************************)
EXTENDS SceneModel

CONSTANTS
  MaxIds,     \* bound: the largest id that calls after the constructor use
  Shapes,     \* geometry of the meshes callers pass: records of vertices, indices
  Entries     \* metadata pairs <<key, value>> callers pass

ASSUME BuilderAssumption ==
  /\ MaxIds \in Nat \ {0} /\ {MaxIds + 1, 6} \subseteq Id
  /\ \A shape \in Shapes : shape.vertices \in Nat /\ shape.indices \in Seq(Nat)
  /\ Entries \subseteq Text \X Text

(* What every string literal is, and the provers do not know.              *)
ASSUME LiteralAssumption ==
  {"generator", "Binary Scene Engine", "profile", "procedural"} \subseteq STRING

VARIABLES
  scene,      \* scene_
  next_id,    \* next_id_
  built       \* outcome of Build when it was the last call, else "none"

vars == <<scene, next_id, built>>

(* Ids a caller may name: none, one handed out, or one not handed out yet. *)
AnyId == 0..MaxIds

Allocates(n) ==
  /\ next_id + n <= MaxIds + 1
  /\ next_id' = next_id + n

(* AddNode's push_back, then the parent's child list, the new node itself  *)
(* being a parent it can find.                                             *)
AddNodeTo(s, node) ==
  [s EXCEPT !.nodes = UpdateFirst(Append(@, node), node.parent,
                                  LAMBDA parent : [parent EXCEPT !.children = Append(@, node.id)])]

AddCameraTo(s, id, parent, inRange) ==
  AddNodeTo([s EXCEPT !.cameras = Append(@, [id |-> id, inRange |-> inRange])],
            [Node(id + 1, parent) EXCEPT !.camera = id, !.local = "placed"])

AddLightTo(s, id, parent, inRange) ==
  AddNodeTo([s EXCEPT !.lights = Append(@, [id |-> id, inRange |-> inRange])],
            [Node(id + 1, parent) EXCEPT !.light = id, !.local = "placed"])

(* metadata[key] = value, whether the key is new or not.                   *)
WithEntry(metadata, key, value) ==
  [k \in DOMAIN metadata \cup {key} |-> IF k = key THEN value ELSE metadata[k]]

(* SceneBuilder(options): the root, then a camera and a light under it.    *)
Init ==
  \E camera, light, metadata \in BOOLEAN :
    LET base == [EmptyScene EXCEPT
                   !.nodes = <<Node(1, NoId)>>,
                   !.metadata =
                     IF metadata
                       THEN WithEntry(WithEntry(@, <<"generator">>, <<"Binary Scene Engine">>),
                                      <<"profile">>, <<"procedural">>)
                       ELSE @]
        seen == IF camera THEN AddCameraTo(base, 2, 1, TRUE) ELSE base
        used == IF camera THEN 4 ELSE 2
    IN /\ scene = IF light THEN AddLightTo(seen, used, 1, TRUE) ELSE seen
       /\ next_id = IF light THEN used + 2 ELSE used
       /\ built = "none"

AddNode(parent) ==
  /\ Allocates(1)
  /\ scene' = AddNodeTo(scene, Node(next_id, parent))
  /\ built' = "none"

(* Variant: the node reuses the id of its mesh.                            *)
AddMeshSharingId(shape, material, parent) ==
  LET under == IF parent = NoId THEN scene.nodes[1].id ELSE parent
      mesh  == [id |-> next_id, material |-> material,
                vertices |-> shape.vertices, indices |-> shape.indices]
  IN /\ Allocates(1)
     /\ scene' = AddNodeTo([scene EXCEPT !.meshes = Append(@, mesh)],
                           [Node(next_id, under) EXCEPT !.mesh = next_id])
     /\ built' = "none"

(* Without a parent the mesh goes under the first node.                    *)
AddMeshNode(shape, material, parent) ==
  LET under == IF parent = NoId THEN scene.nodes[1].id ELSE parent
      mesh  == [id |-> next_id, material |-> material,
                vertices |-> shape.vertices, indices |-> shape.indices]
  IN /\ Allocates(2)
     /\ scene' = AddNodeTo([scene EXCEPT !.meshes = Append(@, mesh)],
                           [Node(next_id + 1, under) EXCEPT !.mesh = next_id])
     /\ built' = "none"

AddMaterial(inRange) ==
  /\ Allocates(1)
  /\ scene' = [scene EXCEPT !.materials =
                 Append(@, [id |-> next_id, texture |-> NoId, inRange |-> inRange])]
  /\ built' = "none"

AddTexture(inRange) ==
  /\ Allocates(1)
  /\ scene' = [scene EXCEPT !.textures = Append(@, [id |-> next_id, inRange |-> inRange])]
  /\ built' = "none"

AddCamera(parent, inRange) ==
  /\ Allocates(2)
  /\ scene' = AddCameraTo(scene, next_id, parent, inRange)
  /\ built' = "none"

AddLight(parent, inRange) ==
  /\ Allocates(2)
  /\ scene' = AddLightTo(scene, next_id, parent, inRange)
  /\ built' = "none"

(* Two keys, at 0 and at the duration: in order when the duration is valid. *)
AddLiftAnimation(target, inRange) ==
  /\ Allocates(1)
  /\ scene' = [scene EXCEPT !.animations =
                 Append(@, [id |-> next_id, inRange |-> inRange,
                            channels |-> <<[target |-> target, ordered |-> inRange]>>])]
  /\ built' = "none"

SetNodeTransform(id) ==
  /\ scene' = [scene EXCEPT !.nodes =
                 UpdateFirst(@, id, LAMBDA node : [node EXCEPT !.local = "moved"])]
  /\ built' = "none"
  /\ UNCHANGED next_id

AddMetadata(key, value) ==
  /\ scene' = [scene EXCEPT !.metadata = WithEntry(@, key, value)]
  /\ built' = "none"
  /\ UNCHANGED next_id

(* Variant: the scene is checked as it is.                                 *)
BuildAsIs ==
  /\ built' = IF ValidateScene(scene) THEN "ok" ELSE "rejected"
  /\ UNCHANGED <<scene, next_id>>

(* Build normalises the builder's own scene, and then checks it.           *)
Build ==
  /\ scene' = NormalizeScene(scene, DefaultNormalization)
  /\ built' = IF ValidateScene(scene') THEN "ok" ELSE "rejected"
  /\ UNCHANGED next_id

Next ==
  \/ \E parent \in AnyId :
       \/ AddNode(parent)
       \/ \E shape \in Shapes, material \in AnyId : AddMeshNode(shape, material, parent)
       \/ \E inRange \in BOOLEAN : AddCamera(parent, inRange) \/ AddLight(parent, inRange)
  \/ \E inRange \in BOOLEAN : AddMaterial(inRange) \/ AddTexture(inRange)
  \/ \E target \in AnyId, inRange \in BOOLEAN : AddLiftAnimation(target, inRange)
  \/ \E id \in AnyId : SetNodeTransform(id)
  \/ \E entry \in Entries : AddMetadata(entry[1], entry[2])
  \/ Build

Spec == Init /\ [][Next]_vars

-----------------------------------------------------------------------------

(* The scene is well-formed data and the counter stays in its range.       *)
TypeOK ==
  /\ IsScene(scene)
  /\ next_id \in Id \ {NoId}
  /\ built \in {"none", "ok", "rejected"}

(* One counter serves every family of objects, so an id the caller holds   *)
(* designates one object: no two objects share an id, and every id was     *)
(* handed out.  All later lookups by id rest on it.                        *)
Families == <<scene.nodes, scene.meshes, scene.materials, scene.textures,
              scene.cameras, scene.lights, scene.animations>>
IdsFresh ==
  /\ \A f, g \in DOMAIN Families :
       \A i \in DOMAIN Families[f], j \in DOMAIN Families[g] :
         Families[f][i].id = Families[g][j].id => <<f, i>> = <<g, j>>
  /\ AllIds(scene) = 1..next_id - 1

(* A child list never claims a node that hangs somewhere else, or the same *)
(* node twice: before a Build, after one, and when nodes are added to a    *)
(* scene that a Build has already sorted and relinked.  After a Build,     *)
(* accepted or not, the lists are exactly the inverse of the parents, in   *)
(* increasing order, even for parents named before they existed.           *)
ChildrenMirrorParents ==
  \A i \in DOMAIN scene.nodes :
    LET node == scene.nodes[i]
        children == node.children
        ofNode == {n.id : n \in {m \in Range(scene.nodes) : m.parent = node.id}}
    IN /\ Range(children) \subseteq ofNode
       /\ \A k, l \in DOMAIN children : children[k] = children[l] => k = l
       /\ built # "none" =>
            /\ Range(children) = ofNode
            /\ \A k \in 1..Len(children) - 1 : children[k] < children[k + 1]

(* A Build fails for a mistake of the caller and for nothing the builder   *)
(* did itself: a wrong id among those it passed, a value out of range, a   *)
(* mesh that refers to a vertex it does not have, too much of something.   *)
CallerMistake ==
  \/ \E node \in Range(scene.nodes) : node.parent \notin {NoId} \cup Ids(scene.nodes)
  \/ \E mesh \in Range(scene.meshes) :
       \/ mesh.material \notin {NoId} \cup Ids(scene.materials)
       \/ \E k \in DOMAIN mesh.indices : mesh.indices[k] >= mesh.vertices
  \/ \E animation \in Range(scene.animations) :
       \/ ~animation.inRange
       \/ animation.channels[1].target \notin {NoId} \cup Ids(scene.nodes)
  \/ \E f \in 3..6 : \E x \in Range(Families[f]) : ~x.inRange
  \/ ~WithinLimits(scene)
RejectsOnlyMistakes == built # "none" => (built = "rejected" <=> CallerMistake)

(* A second Build right after a first changes nothing, so the scene the    *)
(* caller was given and the one the builder keeps stay the same.           *)
BuildIsIdempotent == [][built # "none" /\ built' # "none" => scene' = scene]_vars

=============================================================================
