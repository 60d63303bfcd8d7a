# A TLA+ model of the Binary Scene Engine

The Binary Scene Engine is a C++ library of 3D scenes: a data model, builders,
validation, merging, optimisation, a binary and a text format, caches and
reports. This directory holds TLA+ modules translated from its source, the TLC
runs that check them on small instances, and proofs for the parts where the
size of the instance should not matter.

The repository holds two implementations side by side. The newer one is
`src/bse/*.cpp` (object ids of 64 bits, 0 meaning none); the older one is the
single file `src/bse.cpp` with `include/bse/binary_scene_engine.hpp` and a
dozen small files under `src/*/`. They share a namespace and little else. The
model follows the newer one and takes from the older one what has no newer
counterpart: the logger, the section container with its packet codec, and the
walks over the scene that is read from it.

## Inventory

| Component | State | Operations | Hard behaviour | Correct when |
|---|---|---|---|---|
| Resource cache, `src/bse/resource_cache.cpp` | list of entries, index of iterators into it, byte count | Put, Get, Clear | three representations of one thing; pointers handed out; eviction loop | they always agree, the capacity holds, evictions are in order of use |
| Scene model, `include/bse/scene.hpp` | eight collections with ids and references | (plain data) | links kept twice: parents and child lists | see the operations |
| Validator, `validator.cpp` | none | ValidateScene | what it does *not* check | what it accepts keeps the format's rules |
| Scene operations, `scene_ops.cpp` | none | NormalizeScene, MergeScenes, sorting, dropping, renaming | shifting ids modulo 2^64, references that must all move | merged scenes are whole, relinking is the inverse of the parents |
| Scene builder, `scene_builder.cpp` | scene, next id | twelve calls, Build as often as wanted | ids named before they exist; Build rewrites the builder's own scene | ids are fresh, links consistent, Build blames only the caller |
| Scene collection, `scene_collection.cpp` | key -> scene | Add, Remove, Find (a mutable pointer), MergeAll | scenes edited behind the collection's back | a merge holds every scene, or fails |
| Run-length codecs, `compression.cpp` and `bse.cpp:64` | loop counters | two encoders, two decoders | counters of a byte; truncated streams | round trip; never wrong data |
| Logger, `bse.cpp:35-36` | level, sinks, mutex | setLevel, addSink, clearSinks, log | threads; sinks that log | no deadlock; a record goes where it was meant to |
| Scene graph, transforms, `scene_graph.cpp`, `transform.cpp` | derived graph; cache of world transforms | build, traverse, order, find cycles, compute transforms | cycles; two sources of links | every query answers what its name says; termination |
| Optimizer, mutator, `scene_optimizer.cpp`, `scene_mutator.cpp` | scene copy, id counter, generator | passes, mutations | order of passes; dangling ids when renumbering | references keep their meaning |
| Binary format, `serializer.cpp`, `parser.cpp`, `binary_inspector.cpp` | cursor, buffer | write, parse, inspect | three lists of the same fields; limits, truncation, changed bytes | the same scene or an error; the inspector agrees |
| Text scenes, `text_scene.cpp` | tables of what waits for its mesh | write, read a line | quoting, comments, order of lines, printed decimals | what the format can carry comes back |
| Package index, `package_index.cpp` | entries | validate, write, read | escaping, offset arithmetic, ties in a sort | accepted ranges are disjoint; manifests read back |
| OBJ files, mesh tools, `obj_io.cpp`, `mesh_tools.cpp` | cache of corners | read, write, weld, repair, combine | negative indices, polygons, index arithmetic | faces are what their corners name; surface is kept |
| Animation tools, `animation_tools.cpp` | time of the frame being baked | sample, bake, pose, retarget, reverse | a float as loop counter; keys at one time | baking ends, no channel is lost |
| Signatures, `scene_signature.cpp`, `scene_diff.cpp` | sorted entries of an index | compare, add, remove, group | canonical text of a scene; colliding digests; a sorted vector | tells apart exactly what it compares; groups are complete |
| Manifest, statistics, catalog, lint, depths | none | read-only | five walks over the same references | they agree |
| Section container (older), `bse.cpp` | table of sections, stages of a parse | write, lay out, compress, parse | damaged tables; fields that are dropped | what a file can hold comes back, or it is refused |
| Older scene class and validator, `bse.cpp`, `src/scene/hierarchy.cpp` | index of ids | traverse, transform, validate | walks without a memory | they end when the validator says so |
| Older resource cache | shared handles, statistics | load, evict, releaseUnused | loaders that load | not modelled, see below |

How they interact. The builder, the collection, the optimizer and the mutator
all work on the scene model and end in `ValidateScene`; the builder and the
merge call `NormalizeScene` first. The serializer validates before it writes,
the parser after it has read the last byte. The inspector reads the same bytes
as the parser with a list of fields of its own. The text reader ends in
`ValidateScene` too, and OBJ files become meshes that `RepairMesh` passes over.
Signatures, manifest, catalog, statistics and lint each walk a scene on their
own. A caller may hold pointers into a collection
(`Find`) and into the cache (`Get`) while it makes further calls. Only the
logger is shared by threads; everything else is sequential code whose
difficulty is in sequences of calls.

## Modules

| Module | Models | Extends or instantiates |
|---|---|---|
| `LruCache` | what a bounded least-recently-used cache promises | |
| `ResourceCache` | the cache as it is stored | `LruCache` by a refinement mapping |
| `Sorting` | `std::stable_sort` as the library uses it | |
| `DataLemmas` | lemmas on induction, sequences and sorting that several proofs use | `Sorting`, TLAPS |
| `SceneModel` | data model, validation, normalisation, merge, as operators | `Sorting` |
| `SceneBuilder` | the builder as a state machine | `SceneModel` |
| `SceneBuilderProofs` | proofs about it | `SceneBuilder`, `DataLemmas` |
| `SceneCollection` | the collection, its callers, its merge | `SceneModel` |
| `SceneCollectionProofs` | proofs about it | `SceneCollection`, `DataLemmas` |
| `SceneDepths` | the two loops that count a node's depth upwards | |
| `SceneGraph` | building the graph of nodes, the queries on it, world transforms | `SceneDepths` |
| `SceneGraphProofs` | proofs about them | `SceneGraph`, `DataLemmas` |
| `SceneOptimizer` | the optimizer's passes, as operators | `SceneModel` |
| `SceneEditing` | calls of the optimizer and of the mutator | `SceneOptimizer` |
| `BinaryFormat` | the fields of writer, parser and inspector, as operators | `SceneModel` |
| `SceneStream` | a file, its damage, and the two readers, a field a step | `BinaryFormat` |
| `SceneStreamProofs` | proofs about it | `SceneStream`, TLAPS |
| `TextLines` | lines, words, quotes and comments | |
| `TextScene` | the text format of scenes | `SceneModel`, `TextLines` |
| `PackageIndex` | validation and manifest of a package | `TextLines` |
| `MeshTools` | primitives, normals, repair, welding, combining | |
| `ObjFormat` | OBJ lines, written and read | `MeshTools` |
| `TextFormats` | writing, editing and reading of the three text formats | `TextScene`, `PackageIndex`, `ObjFormat` |
| `TextFormatsProofs` | proofs about reading manifests | `TextFormats`, `DataLemmas` |
| `SceneSignature` | signatures and differences of scenes | `SceneModel` |
| `SceneInventory` | manifest, catalog, statistics, audit, lint | `SceneModel` |
| `AnimationTools` | sampling, posing, retargeting, reversing | `SceneModel` |
| `SceneReports` | reports on scenes, baking, the index of signatures | the three above |
| `RunLength` | both codecs, one step per round of a loop | |
| `SectionFormat` | sections, their coding, the older scene and its validator, as operators | |
| `SectionContainer` | writing, damage and the stages of a parse | `SectionFormat`, `RunLength` |
| `SectionContainerProofs` | proofs about the codecs, alone and inside the container | `SectionContainer`, `DataLemmas` |
| `Logger` | threads, mutex, nested calls | |
| `RuntimeProofs` | proofs about the logger and the cache, and that the cache implements `LruCache` | `ResourceCache`, `Logger`, `DataLemmas` |
| `MC*` | constants for TLC | the module of that name |

A definition keeps the name of the function it stands for. Definitions whose
comment begins with *Variant* are not part of the model: they are what the code
would be with a plausible mistake in it, and each property is checked to fail
with one of them.

**ResourceCache.** `entries`, `index` and `size_bytes` are the three members.
An entry carries the address of its list node, because the index holds
iterators and an address can be used again after an erase; eviction is written
as the place at which the loop stops. `held` is one pointer that some Get
returned, kept while its key is neither stored again nor evicted. `used` only
records the key of the last use, for the abstract specification.

**SceneModel.** Objects have their ids, references and child lists. Names,
coordinates and colours are left out, and a number that the validator only
compares with a range is a boolean. `Shifted` adds ids modulo `IdSpace`. The
validator's checks are grouped by kind, not by the order in which it writes
diagnostics, which does not affect its result.

**SceneBuilder.** One action per member function. A caller passes any id from
0 to `MaxIds`, whether it was handed out or not. `built` is the result of
Build when that was the last call.

**SceneCollection.** Callers add scenes from `Library` under any key, and
`EditFound` writes through the pointer of Find. `MergeUpTo` is the loop of
MergeAll. `edited` marks scenes changed since they were checked.

**SceneGraph.** A recursive function is run one call at a time: `pending` holds
the calls still to be made, in their order, and what a call does after its loop
over the children is a task of its own. `path` holds the nodes of the calls
that have not returned, which is the stack that `FindCyclesFrom` keeps. The
searches with a queue take one entry a step. A behaviour builds one graph and
asks it one query; a query does not change the graph, so another would find
the same. Functions that only read the graph (`PathToRoot`,
`LowestCommonAncestor`, `GraphIsForest`, `GraphIsConsistent`) are operators.

**SceneOptimizer.** Each pass takes a scene and gives a scene. What tells
materials and textures apart is one value, their `look`; `Printed` gives the
decimals of it that the code compares, which may be the same for two looks.
`View` is what a scene shows, with every reference replaced by what it leads
to: two scenes with the same view differ only in ids and duplicates.

**SceneEditing.** `OptimizeScene` and `MutateScene` begin a call, and each pass
or step of a recipe is an action. The pseudo-random generator of the mutator
becomes a choice of everything it could pick. A call that follows works on the
result of the one before, whether it was reported as a success or not, because
both functions return their scene in either case.

**BinaryFormat, SceneStream.** A file is a sequence of bytes; numbers have their
width in bytes. `SceneBytes` gives the bytes of a scene and `SerializeScene` says when it
fails; the parser's and the inspector's fields are two more lists
(`ParserProgram`, `InspectorProgram`), each translated from its own file. `Write` puts the
bytes of a scene on disk, and `ArriveWhole`, `ArriveCut`, `ArriveLonger` and
`ArriveChanged` hand the parser the file as it is, a first part of it, with a byte more, or
with a byte changed. A step of a reader (`ReadOn`, `ReadItem` and those beside them) takes
one field at the cursor, checks it as the code does and appends to `log` where it read
what. The inspector keeps going after a section that failed, as the code does, and
reports it at the end.

**TextLines, TextScene, PackageIndex, ObjFormat, MeshTools, TextFormats.** A line
is a sequence of words, a word a sequence of characters of which only those
that matter to quoting, comments and escapes are told apart. Numbers that print
alike are told apart before writing and not after reading, and a number past 64
bits is read as the largest, as `strtoull` does. `TextFormats`
chooses a document (a scene, a package index, meshes), writes it, edits its
lines (moves, repeats, drops one) and reads it a line a step. Meshes come from
the primitives, welded, repaired or combined before they are written;
coordinates are small whole numbers, which six digits hold. An index of an OBJ file is
cut to an int (`ParseIndex`) and the version of a package to 32 bits.

**SceneSignature, SceneInventory, SceneReports.** A signature is a function from
entries to how often they occur, as the sorted list of lines in the code is; its
64-bit digest is any function of it, chosen as it goes, so that collisions
happen. The deltas come from maps in which the last of the entries with one path stays,
which is the one with the largest value; `Texts` gives the order of values. What a
scene means (`Meaning`) is for each kind how often an object occurs in it. A report is made on one scene or two and held in `report`; `Tidy`
normalises the reported scene and looks again. The index of signatures is
`entries`, in the order in which `Add` sorts it.

**AnimationTools.** Times are floats of `Precision` bits counted in units of the
smallest: `Rounded` rounds to the nearest and ties to even, so a sum may lose
what is added to it. Baking is a step per frame, held in `report`; the value
between two keys is a fraction, but that of the first where they are no more than `Epsilon`
apart, the `kEpsilon` of the code.

**RunLength.** An encoder step is a round of its outer loop, a decoder step one
pair or packet. `Deliver` hands the decoder all or a first part of the bytes.

**SectionFormat, SectionContainer.** The older file is a header, a table and
sections. `WriteNode` and its siblings say what of a scene reaches the file;
`stage` follows `SceneParser` through magic number, table, sections and scene,
with the codec's own loops in between (the stage "codec", from `RunLength`).
Damage cuts a file anywhere or changes one number of its table. The validator,
`traverse` and `worldTransform` are operators on the scene that was read.

**Logger.** A thread has a stack of calls of log. `Lock`, `Filter`,
`CopySinks`, `CallSink`, `SinkReturns` and `LogReturns` are the places at which
another thread can come between. While its top call is inside a sink, a thread
may make any call again. The calls that lock, assign and unlock are single
actions: nothing can observe them half done. Writing to the error stream, when
there are no sinks, is a call of the sink `Stderr`, which uses no logger.

## Runs

| Run | States | Shows |
|---|---|---|
| `resource_cache` | about 900, by symmetry | `IndexAgrees`, `WithinCapacity`, `HeldPointerUsable`, and that the cache implements `LruCache` (`EvictsLeastRecentlyUsed`) |
| `scene_builder` | about 570,000 | ids stay fresh, links stay consistent, Build is idempotent and rejects exactly the caller's mistakes |
| `scene_collection` | 2,000 | a merge that succeeds holds every scene with its references and relinks child lists; valid scenes merge |
| `collection_rules` | violation | two animations of one id are accepted |
| `scene_graph` | about 371,000 | depths are shortest distances from a root and cycles are reported exactly (`GraphExact`); every traversal, search, walk over components and the world transforms find exactly what they should, once (`AnswersExact`); what follows parents agrees with what follows children where the links do, the two upward loops of other modules included (`WaysUpAgree`); everything ends |
| `scene_editing` | about 1,800,000 | a valid scene keeps its meaning through every pass, and any scene whose ids differ keeps what it showed, the default passes leave nothing to do, and calls fail only for a reason |
| `section_container` | about 178,000 | what an older file can hold comes back, damaged files are refused for a known reason, walks and validator agree, codecs end and never give wrong bytes, and the parser holds of every section of an intact file what was written (`ReadAsWritten`) |
| `packet_round_trip` | violation | a literal packet outgrows its length field |
| `logger` | about 160,000 | records reach the sinks copied for them, sinks run unlocked, every log returns |
| `scene_stream` | about 480,000 | a scene arrives as it was or is refused; readers never read outside the buffer or a byte twice; what is accepted can be written again; parser and inspector agree |
| `text_formats` | about 154,000 | text scenes, manifests and OBJ meshes read back as far as their formats hold them, lines of a scene commute, accepted packages have disjoint ranges, the mesh tools keep the surface |
| `scene_reports` | about 37,000 | signatures and differences are exact where ids differ, the index groups what is equal, the reference walks agree, baked frames show every channel, baking ends |

Bounds, and why they suffice.

* Cache: four keys and four addresses, so that every freed address is reused;
  capacity 5 and sizes 0 to 6, so that entries fill the cache exactly, displace
  one or several others, have no bytes, or are refused. One pointer is
  remembered; pointers do not affect each other.
* Builder: `MaxIds` 4, two or three objects beyond the root and, in the
  initial states, the default camera and light; every id named by every call.
  Every pair of calls, and every call between two Builds, occurs. `MaxNodes` 3
  and five vertices let each limit be passed.
* Collection: three keys; five scenes that between them have every kind of
  object, unsorted collections, ids shared between families, the largest id of
  the space, ids that wrap onto 0, stale child lists and a dangling reference.
  An id space of 16 wraps in a merge of two or three.
* Graph: up to three nodes with any parents, one of which does not exist, ids
  that repeat, an id 0, and a child list that adds one or two links to those of the
  parents. This gives cycles of one, two and three nodes, shared children,
  graphs without a root, and depths that are corrected after they were set.
* Editing: two calls; five scenes, of which one has duplicates of every kind
  and one a reference to nothing; the default passes and three shorter lists;
  seven recipes, which between them have every step. Three new nodes and one new mesh
  meet the limits of a recipe and, at seven nodes, that of the format; an id
  space of 16 runs out when the largest id is in use.
* Container and codecs: bytes of three bits and numbers of two bytes, so that a
  run is full at 7 bytes and a packet at 3, and both limits are passed; inputs of
  up to nine bytes of two values for the codecs alone; scenes of each kind for
  the container, five of them in damaged files, one compressed; every cut.
* Stream: bytes of two bits, so that ids of 64 bits have eight of them and reach
  65535; scenes with every kind of object; a cut at every byte and every other
  value of every byte.
* Text: at most two parts to a document and nine lines to an edited file; an
  index space of 50, which meshes of 24 and 26 vertices overrun together and 26 alone
  overrun as an int; an index that wraps when meshes are combined; circles of
  three and four corners and half circles of two and three steps; a weld
  tolerance finer than any difference between coordinates.
* Reports: scenes with objects of every kind, fifty that differ from one of them in
  one respect, seventeen that are broken, and valid ones in which animations or
  skeletons share an id; two digests for three signatures.
* Animations: significands of three bits and steps 0 to 3, so that a step is
  rounded, doubled or lost; durations up to 40; keys at one time, a unit apart (`Epsilon` is 2) and further,
  out of order, out of range and absent.
* Logger: two threads, two records, two sinks: a record is logged from inside
  a sink of the other, or from another thread, at every place of its delivery.

Deadlock is checked in every run but `section_container`, `packet_round_trip`,
`scene_graph` and `scene_editing`, whose calls end. Behaviours of the other new
modules end in a step that changes nothing and is enabled only when nothing
is under way, so a reader or a baking loop that is stuck would be found.

Fairness. The codecs, the stages of the older parser, the graph's functions and
the baking of an animation are loops and calls of one thread: weak fairness of the next step
says that the processor executes them. In the logger each thread is weakly fair
in what it does once it has called log, which says that threads are scheduled
and that sinks return. Weak fairness suffices for a mutex only because the
number of records is bounded: with endless traffic on it, `std::mutex` promises
no thread its turn, and neither does the model. Callers owe the library no
call, so nothing is assumed of the actions that enter it.

## Findings

* `packet_round_trip`: `compressRle` in `src/bse.cpp:64` tests the size of a
  literal before it takes up to two more bytes. A literal of 126 bytes followed
  by a pair becomes one of 128, its length byte reads as a run of no bytes, and
  `decompressRle` refuses the stream. The test of the pair of functions
  (`tests/test_main.cpp:33`) uses an input that is too short. In the run, with
  three-bit bytes, two single bytes followed by a pair are enough.
* `collection_rules`: `docs/binary-format.md:34-37` forbids duplicate ids in any
  object family; `ValidateScene` does not look at the ids of animations and
  skeletons (`src/bse/validator.cpp:152-185`).

Some behaviour is worth knowing although no text of the repository speaks
against it, and the modules follow it:

Scenes and graphs:

* `ValidateScene` accepts parents that form a cycle; `ComputeWorldTransforms`
  then refuses the scene. It accepts an animation channel of target 0 with keys,
  for which `ApplyAnimationPose` fails, a child of id 0, which the audit reports,
  and a roughness that is not a number.
* `TopologicalNodeOrder` sorts all ids by value, so that a child may come
  before its parent.
* `ConnectedComponents` follows the child lists and the parent each node names.
  A link that only a child list has is followed downwards alone, and components
  may depend on which id comes first.
* A node whose id is `kInvalidObjectId`, which `ValidateScene` refuses but
  `BuildSceneGraph` takes, may have children; `PathToRoot` and `AncestorsOf` stop
  before it, so that it is above what it is no ancestor of. `WaysUpAgree` was
  stated without this exception until its proof failed there.
* The depth that the metrics count upwards and the one of the profile differ by
  one or two where parents are missing or form a cycle.
* Renumbering leaves a dangling id as it is, and a renumbered object can take
  that id: a reference to nothing becomes a reference to something. That is all that
  changes in what such a scene shows (`OptimizingKeepsMeaning`).
* `MergeDuplicateMaterials` and `MergeDuplicateTextures` compare printed
  decimals, and take two colours that print alike for the same.
* `DropLeafNodes` can drop a node that an animation targets; with validation on
  the mutation then fails.
* Baking an animation of more than 2^24 steps, or with an infinite rate, does
  not end.
* Between two keys no more than 1e-6 seconds apart `SampleChannel` shows the first,
  so that an animation that plays backwards shows the other one there.
* Animations, or skeletons, of a valid scene may share an id (see the finding). Their
  signature entries then share paths: scenes that give one name each other's duration have
  equal signatures although they differ, and the deltas keep the last entry of a path.
  `SignaturesExact` says what is left: scenes that mean the same are always equivalent.

Formats:

* A `#` inside a quoted name cuts its line short, and only that line: a text that is
  accepted all the same has lost nothing else. A metadata entry without a key
  is written but cannot be read, and near and far planes that print alike make
  the text of a valid camera unreadable.
* The name of a package ends at its first blank or `#` when it is read back, and a `#`
  takes the version with it; a path loses blanks at its ends, and a `#` in it makes the
  manifest unreadable.
* Entries of size zero tie with their neighbours in the check for overlaps, and
  the version of a package is cut from 64 bits to 32.
* The inspector runs on after a section that failed.
* A metadata key `count` gives the same signature path as the number of entries.
  The manifest multiplies the sides of a texture in 32 bits.
* `CombineMeshes` can make an index that was out of range valid, so that a triangle of one
  mesh lies on vertices of the other, and drops the triangles of meshes without indices. `RepairMesh` turns the normals of
  `MakeBoxMesh` and `MakeUvSphereMesh` around; the caps of the cylinder are wound
  against its side.
* `WriteObjScene` starts its indices again for every mesh, so that later meshes come back
  on the vertices of the first. An OBJ file of more than 2^31 - 1 vertices would be written
  and not read. A mesh without
  indices is written without faces and then refused; written normals are
  computed anew by the reader. The cache of corners goes by text, although a
  negative index means another vertex later, and a corner keeps what it meant first; a
  texture coordinate that follows its face is read as zero.
* The older parser ignores checksum, file size, flags and minor version. Its
  serializer drops skeletons, cameras, lights, the name of the scene and all
  texture slots but one, so that a valid scene may be read back as an invalid
  one; it writes sections longer than the parser accepts, and packets that the
  codec refuses (the first finding). With an id there twice `traverse` may not
  end. Its validator looks for duplicates among nodes only and follows neither
  materials to textures nor animations to targets.

## Proofs

The theorems are in `RuntimeProofs`, `SceneBuilderProofs`, `SceneCollectionProofs`,
`SceneGraphProofs`, `SceneStreamProofs`, `SectionContainerProofs` and
`TextFormatsProofs`, with lemmas that several of them cite in `DataLemmas`. They are
checked by TLAPS and hold for all values of the constants that meet the named
assumptions. These say no more than that bounds are natural numbers, that the
null values are not ordinary ones, and

* that a byte counts to at least two (`CodecAssumption`, `FormatAssumption`) and the id
  space has at least two ids (`SceneAssumption`);
* for the stream, that a write gives bytes; for the older container, that the
  sizes of header and table records are numbers and encoded sections bytes;
* for the builder, that the ids a caller can get are 64-bit ids, and that shapes and
  entries are of their types; for the collection, that keys are numbers and
  that what a caller adds is a scene, valid or not;
* for the graph, that nodes come in a list, their ids and parents are natural numbers,
  their child lists finite, and `kInvalidObjectId` is 0 (`GraphAssumption`);
* for text, that the numbers that occur are natural numbers (`NumberAssumption`) and
  that there are versions (`VersionAssumption`);
* that five string literals are strings (`LiteralAssumption`, `WordAssumption`),
  which the provers do not know.

*Cache.* `TypeOK`, `IndexAgrees`, `WithinCapacity` and `HeldPointerUsable` hold
always. They are proved together: that the index leads to the right node is
what makes Put subtract the right number of bytes, and that keys and addresses
are distinct is what makes the eviction loop drop the same entries from the
index as from the list. The inductive invariant adds that the held bytes are a
finite set, since bytes are counted with `Cardinality`. The sum of sizes is
written as the number of held bytes for this reason: it needs no recursion, and
the counts of disjoint parts of a list add up. The facts about
the place where the eviction loop stops rest on a bounded set of naturals
having a greatest member.

*The cache is a least-recently-used cache.* `RuntimeProofs` also proves
`Spec => EvictsLeastRecentlyUsed`. The mapping forgets addresses and keeps the
size under each key (`Sizes`) and which key is nearer to the front (`Order`).
Three lemmas say what erasing, pushing and cutting do to that order; a fourth,
`KeptIsLargest`, that the place at which the loop stops gives the largest set
of keys that fits and leaves out nothing used later than one of its members:
any larger one would contain a longer front part of the list, and that part is
over the capacity, or the loop would have stopped there.

*Logger.* `SinksRunUnlocked` and `DeliveredAsTaken` hold always, for any number
of threads and records and any depth of calls from inside sinks.
`DeliveredAsTaken` is not inductive: it speaks of records, but what is still
owed is in the calls in progress. The invariant says of every call on every
stack that what the sinks were given and what is pending make up what was
copied (`CallConsistent`), that no two calls are for one record
(`OneCallPerRecord`), that records of no call are settled, and that later
records are untouched. Two lemmas, `MoveOn` and `MoveOut`, show once what
happens when the innermost call of a thread advances or returns; each action is
then an instance of one of them.

*Stream.* `FieldsInOrder` holds for any scenes, any bytes that arrive and any list
of reads. The invariant says that the cursor is at most the length of the
buffer, that the log's ranges follow each other and end at the cursor, and that
only an error leaves bytes between them. It is inductive because a read moves
the cursor by what it checked to be there; the lemma `ReadIsGood` says so once
for every kind of read.

*Builder.* All four properties hold for any number of calls (`MaxIds`), with any
ids, shapes and metadata. The invariant `IInv` says that the scene is `Good`
and, after a Build, `Normal`, with the outcome of its validation. `Good` has
what the Add calls keep between Builds: the ids are exactly those handed out
(`Fresh`), what an Add linked resolves (`Linked`), and child lists name nodes
that name their node as the parent, each once (`ClaimsChildren`); they may still
miss children whose parent came later. `Normal` has what a Build establishes:
exact child lists, sorted collections, no empty metadata. Three arguments carry
the proof. First, `PlacesInOrder`: taking the object with n-1 objects before it
as the n-th is a permutation, in the order of the keys; so a sort keeps ids
fresh and references resolved. Second, `SortByIdFixes` and `OneChildList`: there
is one increasing list of given ids, so on a normal scene every step of the
normalisation gives back what it got, which is `BuildIsIdempotent`. Third,
`ValidationExact`: on a scene that is good and has exact child lists the
validator's checks come down to the mistakes of `CallerMistake`.

*Collection.* `MergeKeepsEveryScene` holds for any number of scenes of any size,
valid or not, with any ids, however often they were edited in place. Three
things happen to a collection of a scene in a merge: it is moved, joined to
another, and rearranged. `IsMoved` says that all ids of an object, but not 0, went
up by one distance modulo the id space (`ShiftingMoves`); `Joins` that a scene holds
the objects of one scene as they were and those of another moved, at
disjoint places that cover it (`BaseJoins`); `Rearranges` that a collection is a
permutation of another and its objects are alike but for the order of joints,
children and the like. Sorting, relinking and cleaning are shown to be
rearrangements (`SortingRearranges`, `RebuildingNamesChildren`,
`CleaningKeepsEntries`), so `Joins` survives normalisation (`JoinedRearranged`).
Child lists are made per id and not per node: with an id there twice only the first
node gets them. That they are the inverse of the parents in a merge that succeeds is
therefore due to the validation at its end, which refuses such an id
(`RebuiltAndSorted`, `MergingJoins`). `Gathered` is the invariant of the loop in
MergeAll: after n rounds the scene holds the first n scenes, and the places they
take up are as many as it has (`SlotsOfNext`).

*Merges that succeed.* `ValidScenesMerge` needs a second invariant, that every scene
that was not edited since it was added is valid. `Fit` says that a scene is valid but
for its size and its child lists. Two fit scenes, the ids of the second moved past
the highest of the first and none of them past the id space, make a fit scene: no id is
there twice (`BaseIds`) and an object refers to what it referred to, moved
(`MovedGood`). Rearranging keeps that, and the relinked child lists name nodes of the
scene, so the result is valid if it is within the limits (`FitIsValid`). How far the ids
reach and how many nodes, vertices and indices there are is in each case at most, or
exactly, the sum over the scenes merged so far (`SoFar`). Sums are numbers of things
(`TotalOf`), so that they add up as sets do: over two parts (`TotalSplits`),
under other names (`TotalRenamed`), key by key (`SumsGrow`). The theorem
takes `RoomFor` as the property states it, with sums over all scenes: a sum over fewer
of them is smaller.

*Graph.* `GraphExact` holds for scenes of any size, whatever their links, cycles and
repeated ids included. `Layer` says which nodes are at most so many links below
others; what the properties call `Within`, `Closure` and `Below` are its layers
(`LayersOfGraph`). A recursive function is run one call at a time, so the
invariant `GraphInv` says what the calls that are pending will do. For
`MarkReachable`: a marked node is marked with the length of some way to it, and each
child of it is marked with at most one more, or a call for that child with such a depth
is pending; when no call is left, marks are exact. For `FindCyclesFrom`: the path is a way
down, `at` gives for each node on it the place among the tasks at which its call
returns, and each child of such a node is done with, next on the path, or waits
before that place. So when a call returns, all that is below its node is done with,
and a node that is below itself cannot be done with unless its cycle was reported.
That the numbers of nodes, edges and roots tell a forest (`CyclesExact`) is counting:
where every node but the roots is a child, there are at least as many edges as such
nodes, and as many only if no node is a child twice.

*Queries.* `AnswersExact` holds for any query on any graph. `AnswerInv` adds to `GraphInv`
that the graph has the nodes of the scene with their parents (`Names`) and what each
query holds half way: for the traversals, that each step is a way down from a root
(`VisitsRun`), that the calls that are left are stacked as above, and that a breadth-first
traversal has queued and taken ways none of which is longer than a later one, which is
why its ways are shortest; for the searches, that whatever is next to what was found
is found or queued; for the world transforms (`WorldRun`), that the path leads
upwards with the calls that will return on top of the tasks, and that a
transform in the cache is the product along `PathToRoot`, so that the walk meets its own
path only where parents form a cycle; for the components (`PartsRun`), that a component that
is put together cannot be parted without cutting a link, and that no link leaves one that is
complete.

*Ways up.* `WaysUpAgree` compares four walks: `PathToRoot`, the loop of the metrics, which
begins at the parent, the cursor of the profile, which goes on to a parent that is
missing or was met, and the marks, which follow children. Each of the three upward loops
is described by the list of nodes it met (`Walked`, `Followed`), and two lemmas compare
these lists place by place (`UpFromParent`, `CursorGoes`), in a cycle too: there the two
loops differ by how often they count the node at which it closes. Where the links agree
there is one way from a root to a node (`RootedIsOnlyClimb`), and the layers below the roots
are made of these ways (`RootedIsReached`, `ReachedIsRooted`); so marks are lengths of
paths. Then a node is below another exactly when the other is on its path (`OnTheWayUp`),
siblings have paths that differ in the last node, a node with the fewest nodes below it
is a leaf (`LeafBelow`), and paths that meet are alike up to there (`OneWayToEach`), so that
the last node of a common prefix is the lowest common ancestor.

*Codecs.* `CodecInv` describes encoded bytes by *marks*, the places at which a pair
or packet begins, and *places*, how much of the input each stands for. An encoder
adds one to each, a decoder goes from one to the next, and a cut stream has fewer of
them (`OneMore`, `CutStream`, `DecodedNext`). The literal packet that is too
long (see Findings) has the tag 0; the invariant allows the marks to stop there,
which is also where the decoder stops. So a decoder has gone exactly as far as it
answered, and never answers with other bytes than those encoded (`CodecsNeverWrong`).

*Container.* `ReadAsWritten` says the same of the codecs inside a file, and that what
the parser holds of a section of an intact file is what the serializer was
given for it. `ContainerInv` follows both: while the serializer stores, each blob
says its section, as it is or as an encoder left it; the layout puts every blob where
its record says and no two on one byte (`SectionsInFile`, by induction over the
records, each of which begins after the end of the one before); the parser
goes by the records alone, so their order does not matter, and damage that only
swaps two leaves a file intact. What a decoder then answers is right because the codec
is.

*Manifest.* `AcceptedRangesDisjoint` holds for manifests of any length with any
lines. Numbers that were read are below 2^64, since `strtoull` stops there, so the sum
that the validator computes wraps at most once and a range that passes its test does
not wrap (`EndUnwrapped`). `SortByOffset` gives the stable sort as a permutation
in the order of offsets; when each range ends before the next one begins, it ends
before every later one begins, which is why comparing neighbours is enough
(`ValidRangesDisjoint`).

Two techniques recur. The provers cannot use induction theorems that take a
predicate as a parameter, so `DataLemmas` states induction for *sets* of numbers, from
the least number that is not in the set. And a recursive function is a CHOOSE, of which
nothing is known until some function satisfies its equation; where one
matters (`LiteralEnd`, `MergeUpTo`, the layout) a lemma builds the function, round by
round, first.

The types of the cache, the logger, the builder, the collection, the codecs and the
container are proved (`TypeCorrect`, `TypeCorrectness` and so on) and need no run
of their own.

Only model-checked:

* liveness (`EveryLogReturns`, `EveryCallEnds`, `Terminates`, `BakingEnds`), which TLAPS
  does not cover;
* `ContainerReadsBack`, `TraversalAgrees`, `WholeFilesOnly`, `AcceptedRewrites`,
  `ReadersAgree` and the properties of text and faces that are read back: they need
  that a list of fields, read one after the other, is the list that was written,
  an induction over the structure of a scene in formats with a recursive list of
  fields;
* the properties of edits and reports (`OptimizingKeepsMeaning`, `DefaultPassesSettle`,
  `FailsOnlyForCause`, `SignaturesExact`, `DifferencesExact`, `IndexGroupsDuplicates`,
  `ReferenceWalksAgree`, `FramesShowKeys`), most of which are about what passes and folds
  compute from data.

## Plan

Every part that has state or a format is modelled. What is left to do, in this
order:

1. Theorems: `WholeFilesOnly` and `ContainerReadsBack`, from the lemmas about a list of
   fields named above; that the index of signatures stays sorted.
2. `ResourceHandles`: the older cache, with loaders that load and handles that
   outlive evictions. Only a test calls its `load`, with loaders that do not use
   the cache, which is why it comes last.

## Not modelled

* Quaternions, matrices and the geometry of floats (`Slerp`, products of
  transforms, bounds, normals that are not along an axis): TLC has no floating
  point, and their rounding is the point. Where a float decides about control,
  as in baking, it is modelled with its rounding.
* The older cache with its handles; sampling of the older animation clips, the
  older mesh topology, the section and string table helpers under `src/format`
  and the rule catalog under `src/validation`, which neither serializer nor
  parser calls.
* Sums, filters and printing over one scene: bounds, estimates, histograms,
  queries by name, summaries, diagnostics and their wording.
* The command-line tool, the fuzz targets, corpus generation, and file input and
  output.

PROJECT.json lists every component with its status.
