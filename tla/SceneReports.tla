---------------------------- MODULE SceneReports ----------------------------
(***************************************************************************)
(* What the library tells about scenes it has: two scenes compared, one    *)
(* scene looked through by four functions that do not share a lookup, the  *)
(* frames of an animation, and the index of signatures                     *)
(* (SceneSignatureIndex in bse/scene_signature.cpp) that finds the scenes  *)
(* a collection has twice.                                                 *)
(***************************************************************************)
EXTENDS SceneSignature, SceneInventory, AnimationTools

Lists == INSTANCE SequencesExt

CONSTANTS
  Scenes,         \* the scenes that are reported on
  Bases,          \* those that the others are compared with
  IndexedScenes,  \* those whose signatures are put into the index
  MovingScenes,   \* scenes whose animations are baked
  Steps,          \* the times between frames: 1 / sample_rate_hz, rounded
  Names,          \* names in the index, numbers so that they have an order
  Digests         \* the values of the 64-bit hash, likewise

ASSUME ReportsAssumption ==
  Bases \cup IndexedScenes \subseteq Scenes /\ Names \cup Digests \subseteq Nat

VARIABLES
  report,    \* what was found out about one or two scenes
  entries,   \* SceneSignatureIndex::entries_
  hash,      \* HashEntries on the signatures it has met: any function, collisions included
  added,     \* the signatures the index has been given and not lost, by name
  returned   \* the value of the last call of the index

vars == <<report, entries, hash, added, returned>>

IndexedSignatures == {ComputeSceneSignature(s, SignatureOptions) : s \in IndexedScenes}

NoReport == [kind |-> "none"]
NothingAdded == << >>
NothingHashed == << >>

Init ==
  /\ report = NoReport
  /\ entries = << >>
  /\ hash = NothingHashed
  /\ added = NothingAdded
  /\ returned = TRUE

-----------------------------------------------------------------------------
(* Reports.  They do not look at the index, and it is not used meanwhile.  *)

IndexUntouched == hash = NothingHashed

Compare(left, right, options) ==
  LET l == ComputeSceneSignature(left, options)
      r == ComputeSceneSignature(right, options)
  IN /\ report' = [kind |-> "comparison", left |-> left, right |-> right, options |-> options,
                   equivalent |-> SceneSignaturesEquivalent(l, r),
                   deltas |-> DiffSceneSignatures(l, r),
                   differences |-> DiffScenes(left, right)]
     /\ UNCHANGED <<entries, hash, added, returned>>

Inventory(s) ==
  [kind |-> "inventory", scene |-> s, manifest |-> BuildSceneManifest(s),
   catalog |-> BuildAssetCatalog(s), stats |-> ComputeSceneStats(s),
   issues |-> AuditSceneStructure(s), findings |-> LintScene(s)]

Survey(s) ==
  /\ report' = Inventory(s)
  /\ UNCHANGED <<entries, hash, added, returned>>

(* The scene of the report is normalised, and looked through again.        *)
Tidy(options) ==
  /\ report.kind = "inventory"
  /\ report' = Inventory(NormalizeScene(report.scene, options))
  /\ UNCHANGED <<entries, hash, added, returned>>

-----------------------------------------------------------------------------
(* BakeAnimation, one frame a step.  Of the frames the last one is kept.   *)

NoFrame == [time |-> -1]
NoStep == -1  \* of a sample rate that is not positive

BakeAnimation(s, animation, options) ==
  /\ report' = [kind |-> IF options.step = NoStep THEN "refused" ELSE "baking",
                scene |-> s, animation |-> animation, options |-> options, time |-> 0, frame |-> NoFrame]
  /\ UNCHANGED <<entries, hash, added, returned>>

Baking == report.kind = "baking"
InTime == report.time < report.animation.duration
Frame(time) == [time |-> time, samples |-> SampleAnimation(report.animation, time)]

(* Variant: a frame in which nothing moves is passed over, and the time    *)
(* with it.                                                                *)
BakeMovingFrame ==
  /\ Baking /\ InTime
  /\ report' = IF \E x \in Range(Frame(report.time).samples) : x.found
                 THEN [report EXCEPT !.frame = Frame(report.time), !.time = Rounded(@ + report.options.step)]
                 ELSE report
  /\ UNCHANGED <<entries, hash, added, returned>>

BakeFrame ==
  /\ Baking /\ InTime
  /\ report' = [report EXCEPT !.frame = Frame(report.time), !.time = Rounded(@ + report.options.step)]
  /\ UNCHANGED <<entries, hash, added, returned>>

BakeLastFrame ==
  /\ Baking /\ ~InTime
  /\ report' = [report EXCEPT !.kind = "baked",
                              !.frame = IF report.options.include_end_time \/ @ = NoFrame
                                          THEN Frame(report.animation.duration) ELSE @]
  /\ UNCHANGED <<entries, hash, added, returned>>

-----------------------------------------------------------------------------
(* The index: entries in the order of their digests, then of their names.  *)

InOrder(l, r) == l.digest < r.digest \/ (l.digest = r.digest /\ l.name < r.name)
IndexEntry(name, signature) ==
  [name |-> name, digest |-> hash'[signature], entry_count |-> SumFunction(signature)]

(* A signature hashes to what it did before, or to anything at first.      *)
Hash(signature) == \E digest \in Digests : hash' = hash @@ (signature :> digest)
ContainsName(name) == \E e \in Range(entries) : e.name = name

(* Variant: a new entry stays at the end.                                  *)
AddAtTheEnd(name, signature) ==
  /\ report = NoReport
  /\ ~ContainsName(name)
  /\ Hash(signature)
  /\ entries' = Append(entries, IndexEntry(name, signature))
  /\ added' = (name :> signature) @@ added
  /\ returned' = TRUE
  /\ UNCHANGED report

Add(name, signature) ==
  /\ report = NoReport
  /\ ~ContainsName(name)
  /\ Hash(signature)
  /\ entries' = SortSeq(Append(entries, IndexEntry(name, signature)), InOrder)
  /\ added' = (name :> signature) @@ added
  /\ returned' = TRUE
  /\ UNCHANGED report

AddAgain(name) ==
  /\ report = NoReport
  /\ ContainsName(name)
  /\ returned' = FALSE
  /\ UNCHANGED <<report, entries, hash, added>>

Remove(name) ==
  /\ report = NoReport
  /\ entries' = SelectSeq(entries, LAMBDA e : e.name # name)
  /\ added' = [n \in DOMAIN added \ {name} |-> added[n]]
  /\ returned' = (Len(entries') # Len(entries))
  /\ UNCHANGED <<report, hash>>

Clear ==
  /\ report = NoReport
  /\ entries' = << >>
  /\ added' = NothingAdded
  /\ UNCHANGED <<report, hash, returned>>

(* Nobody asks any more.                                                   *)
Rest == report # NoReport /\ ~Baking /\ UNCHANGED vars

Next ==
  \/ /\ report = NoReport /\ IndexUntouched
     /\ \/ \E left \in Bases, right \in Scenes, options \in SUBSET SignatureOptions :
             Compare(left, right, options) \/ Compare(right, left, options)
        \/ \E s \in Scenes : Survey(s)
        \/ \E s \in MovingScenes, step \in Steps \cup {NoStep}, last \in BOOLEAN :
             \E animation \in Range(s.animations) :
               BakeAnimation(s, animation, [step |-> step, include_end_time |-> last])
  \/ BakeFrame \/ BakeLastFrame
  \/ \E more \in SUBSET {"drop_unreferenced_resources"} : Tidy(DefaultNormalization \cup more)
  \/ \E name \in Names, signature \in IndexedSignatures : Add(name, signature)
  \/ \E name \in Names : AddAgain(name) \/ Remove(name)
  \/ Clear
  \/ Rest

(* Baking is a loop of one call.                                           *)
Spec == Init /\ [][Next]_vars /\ WF_vars(BakeFrame \/ BakeLastFrame)

-----------------------------------------------------------------------------
(* What the index answers.                                                 *)

DigestForName(name) == (CHOOSE e \in Range(entries) : e.name = name).digest
NamesForDigest(digest) ==
  LET with == SelectSeq(entries, LAMBDA e : e.digest = digest) IN Mapped(with, LAMBDA e : e.name)

FirstWithDigest(i) == \A j \in 1..i - 1 : entries[j].digest # entries[i].digest
UniqueEntries == {entries[i] : i \in {k \in DOMAIN entries : FirstWithDigest(k)}}

(* The entries cut where the digest changes, in one pass.                  *)
Runs ==
  LET Step(runs, e) ==
        IF runs # << >> /\ Lists!Last(runs).digest = e.digest
          THEN [runs EXCEPT ![Len(runs)].names = Append(@, e.name)]
          ELSE Append(runs, [digest |-> e.digest, names |-> <<e.name>>])
  IN Lists!FoldLeft(Step, << >>, entries)
LongRuns == SelectSeq(Runs, LAMBDA run : Len(run.names) > 1)

DuplicateGroups  == Mapped(LongRuns, LAMBDA run : run.names)
DuplicateDigests == Mapped(LongRuns, LAMBDA run : run.digest)
HasDuplicates == \E i \in 2..Len(entries) : entries[i].digest = entries[i - 1].digest

Stats ==
  LET sizes == Mapped(DuplicateGroups, Len)
  IN [entries |-> Len(entries), unique_digests |-> Cardinality(UniqueEntries),
      duplicate_digests |-> Len(DuplicateGroups), duplicate_entries |-> SumFunction(sizes),
      largest_group |-> CHOOSE m \in {0} \cup Range(sizes) : \A n \in Range(sizes) : n <= m]

-----------------------------------------------------------------------------
(* Properties.                                                             *)

Comparisons == {r \in {report} : r.kind = "comparison"}
Inventories == {r \in {report} : r.kind = "inventory"}

Coarse(float) == float \div Grain

(* What a signature is meant to tell apart: the objects in any order,      *)
(* numbers as they are printed, children in any order, and only what the   *)
(* options include.                                                        *)
Meaning(s, options) ==
  LET On(option, whole, less) == IF option \in options THEN whole ELSE less
      Named(x) == [x EXCEPT !.name = On("names", @, EmptyText)]
      Placed(t) == [part \in DOMAIN t |-> Coarse(t[part])]
      Alike(objects, Seen(_)) ==
        LET seen == Mapped(objects, LAMBDA x : Named(Seen(x)))
        IN [view \in Range(seen) |-> Cardinality({i \in DOMAIN seen : seen[i] = view})]
      Corner(c) == [part \in DOMAIN c |-> Coarse(c[part])]
      Key(k) == [time |-> Coarse(k.time), transform |-> Placed(k.transform)]
  IN [name |-> On("names", s.name, EmptyText),
      metadata |-> On("metadata", s.metadata, << >>),
      nodes |-> Alike(s.nodes, LAMBDA n : [n EXCEPT !.local = Placed(@), !.children = SortIds(@)]),
      textures |-> Alike(s.textures, LAMBDA t : t),
      materials |-> Alike(s.materials, LAMBDA m : [m EXCEPT !.base_color = Coarse(@),
                            !.roughness = Coarse(@), !.metallic = Coarse(@)]),
      meshes |-> Alike(s.meshes, LAMBDA m :
                         [m EXCEPT !.corners = On("geometry", Mapped(@, Corner), << >>),
                                   !.indices = On("geometry", @, <<Len(@)>>)]),
      cameras |-> Alike(s.cameras, LAMBDA c :
                          [c EXCEPT !.fov = Coarse(@), !.near = Coarse(@), !.far = Coarse(@)]),
      lights |-> Alike(s.lights, LAMBDA l : [l EXCEPT !.color = Coarse(@), !.intensity = Coarse(@)]),
      skeletons |-> Alike(s.skeletons, LAMBDA k : [k EXCEPT !.joints =
                      Alike(@, LAMBDA j : [j EXCEPT !.bind_pose = Placed(@)])]),
      animations |-> On("animation",
                        Alike(s.animations, LAMBDA a : [a EXCEPT !.duration = Coarse(@),
                          !.channels = Mapped(@, LAMBDA c : [c EXCEPT !.keys = Mapped(@, Key)])]),
                        Len(s.animations))]

(* No two objects of a kind share an id, which validation only asks of the *)
(* first six of them (validator.cpp:67-88).                                *)
IdsDiffer(s, kinds) ==
  \A kind \in kinds : Cardinality(Ids(s[kind])) = Len(s[kind])
Compared == {"nodes", "meshes", "materials", "textures", "cameras", "lights"}
PathsDiffer(s) ==
  /\ IdsDiffer(s, Compared \cup {"skeletons", "animations"})
  /\ \A skeleton \in Range(s.skeletons) : IdsDiffer(skeleton, {"joints"})

(* Scenes that mean the same under the options are equivalent by their     *)
(* signatures, and equivalent scenes have an empty list of deltas, also    *)
(* when objects share an id.  Where none do, equivalent scenes mean the    *)
(* same, and the list is empty for no others; but it is a map of paths, of *)
(* which a metadata key "count" takes that of the number of keys           *)
(* (scene_signature.cpp:70, :300).  With an id there twice the entries of  *)
(* both objects are one heap, and validation accepts that for skeletons    *)
(* and animations: two scenes may then be equivalent that are not alike.   *)
SignaturesExact ==
  \A r \in Comparisons :
    LET alike == Meaning(r.left, r.options) = Meaning(r.right, r.options)
        apart == PathsDiffer(r.left) /\ PathsDiffer(r.right)
    IN /\ alike => r.equivalent
       /\ r.equivalent => r.deltas = {}
       /\ apart => (r.equivalent => alike)
       /\ apart /\ <<"count">> \notin DOMAIN r.left.metadata \cup DOMAIN r.right.metadata =>
            (r.deltas = {} => r.equivalent)

(* Where no two objects of a kind that it looks into share an id, of which *)
(* IndexById keeps the first only, DiffScenes finds no difference exactly  *)
(* when the scenes are the same up to the order of their objects and the   *)
(* contents of skeletons and animations, of which it compares the ids only *)
(* (scene_diff.cpp:300-301).                                               *)
DifferencesExact ==
  LET Seen(s) == [f \in DOMAIN s |-> CASE f \in {"name", "metadata"} -> s[f]
                                       [] f \in {"skeletons", "animations"} -> Ids(s[f])
                                       [] OTHER -> Range(s[f])]
  IN \A r \in {x \in Comparisons : IdsDiffer(x.left, Compared) /\ IdsDiffer(x.right, Compared)} :
       r.differences = {} <=> Seen(r.left) = Seen(r.right)

(* The index finds the digests it has more than once although it only      *)
(* compares neighbours: Add keeps entries of one digest together.  Groups, *)
(* digests, statistics and HasDuplicates agree about them.                 *)
IndexGroupsDuplicates ==
  LET Bearers(digest) == {name \in DOMAIN added : hash[added[name]] = digest}
      repeated == {d \in Digests : Cardinality(Bearers(d)) > 1}
  IN /\ \A name \in DOMAIN added : ContainsName(name) /\ DigestForName(name) = hash[added[name]]
     /\ \A d \in Digests : Range(NamesForDigest(d)) = Bearers(d)
     /\ {Range(group) : group \in Range(DuplicateGroups)} = {Bearers(d) : d \in repeated}
     /\ Range(DuplicateDigests) = repeated /\ Len(DuplicateDigests) = Cardinality(repeated)
     /\ HasDuplicates <=> repeated # {}
     /\ Stats.unique_digests = Cardinality({hash[added[name]] : name \in DOMAIN added})
     /\ Stats.duplicate_entries = Cardinality(UNION {Bearers(d) : d \in repeated})

(* Of a valid scene the manifest, the catalog, the linter and the drop     *)
(* pass of NormalizeScene agree about which resources nobody uses: what    *)
(* the first three call unused is dropped, and no drop leaves any.         *)
UnusedAgree ==
  LET Unused(r, kind) == {u.id : u \in {x \in Range(FindUnusedManifestResources(r.manifest)) : x.kind = kind}}
      Unreferenced(r, kind) == {u.id : u \in {x \in Range(FindUnreferencedAssets(r.catalog)) : x.kind = kind}}
      Noted(r, rule) == {f.subject : f \in {x \in r.findings : x.rule = rule}}
      Dropped(s) == NormalizeScene(s, {"drop_unreferenced_resources"})
  IN \A r \in {x \in Inventories : ValidateScene(x.scene)} :
       /\ \A kind \in {"mesh", "material", "texture", "camera", "light"} :
            Unused(r, kind) = Unreferenced(r, kind)
       /\ Unused(r, "material") = Noted(r, "unused-material")
       /\ Unused(r, "texture") = Noted(r, "unused-texture")
       /\ r.stats.referenced_material_count = Len(r.scene.materials) - Cardinality(Unused(r, "material"))
       /\ r.stats.referenced_texture_count = Len(r.scene.textures) - Cardinality(Unused(r, "texture"))
       /\ Ids(Dropped(r.scene).meshes) = Ids(r.scene.meshes) \ Unused(r, "mesh")
       /\ Ids(Dropped(r.scene).materials) \subseteq Ids(r.scene.materials) \ Unused(r, "material")
       /\ Ids(Dropped(r.scene).textures) \subseteq Ids(r.scene.textures) \ Unused(r, "texture")
       /\ \A kind \in {"mesh", "material", "texture"} : Unused(Inventory(Dropped(r.scene)), kind) = {}

(* The manifest and the audit between them find a reference that leads     *)
(* nowhere exactly when validation does, save among joints, which neither  *)
(* looks at; a child of id 0 the audit reports and validation accepts.     *)
(* After normalisation a valid scene's audit names only nodes that hang    *)
(* below a cycle of parents.                                               *)
ChecksAgree ==
  LET missing == {"missing_parent", "missing_child", "missing_mesh", "missing_material",
                  "missing_texture", "bad_mesh_index"}
      NoChildZero(s) == \A n \in Range(s.nodes) : NoId \notin Range(n.children)
      Up(s, id) == IF id = NoId THEN NoId ELSE FirstWithId(s.nodes, id).parent
      Above(s, id) == LET up[k \in 0..Len(s.nodes)] == IF k = 0 THEN id ELSE Up(s, up[k - 1])
                      IN up[Len(s.nodes)]
  IN \A r \in {x \in Inventories : IdsUnique(x.scene) /\ NoChildZero(x.scene)} :
       /\ ReferencesResolve(r.scene) <=>
            /\ FindUnresolvedReferences(r.manifest) = << >>
            /\ {i.code : i \in r.issues} \cap missing = {}
            /\ \A skeleton \in Range(r.scene.skeletons) : JointsResolve(skeleton)
       /\ NoId \notin Ids(r.scene.skeletons) \cup Ids(r.scene.animations) =>
            ManifestIsConsistent(r.manifest)
       /\ ValidateScene(r.scene) /\ NormalizeScene(r.scene, DefaultNormalization) = r.scene =>
            r.issues = {Issue("unreachable_node", id) :
                          id \in {x \in Ids(r.scene.nodes) : Above(r.scene, x) # NoId}}

(* Five modules walk the references of a scene, each on its own: what is   *)
(* unused and what leads nowhere is the same to all of them.               *)
ReferenceWalksAgree == UnusedAgree /\ ChecksAgree

(* One transform shows what the other does.                                *)
Same(left, right) ==
  \A part \in DOMAIN left : left[part].num * right[part].den = right[part].num * left[part].den

(* Played backwards, an animation whose keys validation accepts shows at   *)
(* the end minus a time what it showed at that time.  Where neighbouring   *)
(* keys no more than kEpsilon apart stand around the time it may not: then *)
(* each way shows one of the keys that near to it.                         *)
PlaysBackwards(animation, frame) ==
  LET backwards == ReverseAnimation(animation)
      mirrored  == SampleAnimation(backwards, animation.duration - frame.time)
      IsClose(keys) == \E i \in Around(keys, frame.time) : keys[i + 1].time - keys[i].time <= Epsilon
      IsNear(key) == frame.time - Epsilon <= key.time /\ key.time <= frame.time + Epsilon
      ShowsNearKey(keys, transform) ==
        \E key \in Range(keys) : IsNear(key) /\ Same(transform, Exactly(key.transform))
  IN /\ KeysInRange(backwards) /\ ReverseAnimation(backwards) = animation
     /\ \A i \in {k \in DOMAIN mirrored : frame.samples[k].found} :
          LET keys == animation.channels[i].keys
              shown == {mirrored[i].transform, frame.samples[i].transform}
          IN IF IsClose(keys) THEN \A transform \in shown : ShowsNearKey(keys, transform)
                              ELSE Same(mirrored[i].transform, frame.samples[i].transform)

(* What the node old showed the node new shows after retargeting, and old  *)
(* rests, unless new was a target before.                                  *)
MovesAnother(s, animation, time, old, new) ==
  LET pose == ApplyAnimationPose(s, animation, time)
      channels == {c \in Range(animation.channels) : c.target = old}
      Shown(posed, id) == FirstWithId(posed.nodes, id).local
      Rests(posed, id) == Same(Shown(posed, id), Exactly(FirstWithId(s.nodes, id).local))
  IN /\ (RetargetAnimation(animation, old, new) = {}) <=> channels = {}
     /\ \A moved \in RetargetAnimation(animation, old, new) :
          LET after == ApplyAnimationPose(s, moved, time)
          IN pose.ok /\ new \notin {c.target : c \in Range(animation.channels)} =>
               /\ after.ok /\ Rests(after, old)
               /\ IF \E c \in channels : c.keys # << >>
                    THEN Same(Shown(after, new), Shown(pose, old)) ELSE Rests(after, new)
               /\ \A id \in Ids(s.nodes) \ {old, new} : Same(Shown(after, id), Shown(pose, id))

(* Every frame of a baked animation lies in its time and shows something   *)
(* of each channel that has keys, even if they are out of order.  Reversed *)
(* animations, if their keys are valid and the duration is below           *)
(* 2^Precision units, so that no time is rounded, show the same at other   *)
(* times, and retargeted ones the same of other nodes.  A valid scene can  *)
(* be posed unless a channel with keys has target 0, which validation lets *)
(* pass.                                                                   *)
FramesShowKeys ==
  \A r \in {x \in {report} : x.kind \in {"baking", "baked"} /\ x.frame # NoFrame} :
    LET animation == r.animation
        nodes == Ids(r.scene.nodes)
    IN /\ r.frame.time \in 0..animation.duration
       /\ \A i \in DOMAIN animation.channels :
            r.frame.samples[i].found <=> animation.channels[i].keys # << >>
       /\ KeysInRange(animation) /\ animation.duration < 2 ^ Precision => PlaysBackwards(animation, r.frame)
       /\ ValidateScene(r.scene) =>
            (ApplyAnimationPose(r.scene, animation, r.frame.time).ok
               <=> \A c \in Range(animation.channels) : c.target = NoId => c.keys = << >>)
       /\ \A old, new \in nodes : old # new => MovesAnother(r.scene, animation, r.frame.time, old, new)

(* Baking ends although its time is a float: a step is only lost in the    *)
(* rounding of a sum 2^Precision times as large.  Beyond, it may not end.  *)
BakingEnds ==
  (Baking /\ report.animation.duration <= 2 ^ Precision * report.options.step) ~> report.kind = "baked"
=============================================================================
