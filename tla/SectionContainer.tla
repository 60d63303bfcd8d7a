-------------------------- MODULE SectionContainer --------------------------
(***************************************************************************)
(* Files of the older engine: SceneSerializer puts a scene into sections,  *)
(* compresses those that are long enough, and lays them out behind a       *)
(* header and a table; SceneParser goes through its stages, from the       *)
(* header to the scene, and gives up at the first that fails.  The packet  *)
(* codec runs step by step, as RunLength has it, whenever a section is     *)
(* compressed or unpacked.  Between the two the file may be cut short or   *)
(* its table changed.                                                      *)
(* In the stage "codec" a codec is used on its own, with any bytes.        *)
(***************************************************************************)
EXTENDS SectionFormat

CONSTANTS
  OlderScenes,    \* the scenes that are written
  Damaged,        \* those of them whose files are damaged
  HeaderSize,     \* sizeof(FileHeader)
  RecordSize,     \* sizeof(SectionRecord)
  Alignment,      \* SerializerOptions::alignment
  MinSection,     \* the size from which shouldCompress compresses: 64
  MinGain,        \* what must be gained: 8
  MaximumSection  \* ParserOptions::maximumSectionSize

ASSUME ContainerAssumption ==
  {HeaderSize, RecordSize, Alignment, MinSection, MinGain, MaximumSection} \subseteq Nat \ {0}

(* The fields of a scene fit into what is written of them.                 *)
ASSUME SceneAssumption ==
  \A s \in OlderScenes, kind \in OlderKinds : SectionBytes(s, kind) \in Seq(Byte)

VARIABLES
  stage,     \* of the call that is in progress
  options,   \* of serializer and parser
  source,    \* the scene
  blobs,     \* the sections as they are stored
  file,      \* the file
  damage,    \* what was done to it
  row,       \* the record of the table that is read
  sections,  \* sectionData: the bytes of each kind
  result     \* what the parser returned

containerVars == <<stage, options, source, blobs, file, damage, row, sections, result>>
vars == <<containerVars, codecVars>>

NoFile == [size |-> 0, magic |-> "BSEN", major |-> 1, table |-> << >>, bytes |-> << >>]
Refused == [ok |-> FALSE]
Undamaged == [kind |-> "none", row |-> 0]

(* The file as it was written, or with its records in another order.       *)
IsIntact == damage.kind \in {"none", "swap"}

Init ==
  /\ \/ InitCodec /\ stage = "codec" /\ source = EmptyOlderScene
     \/ /\ stage = "serialize" /\ source \in OlderScenes
        /\ codec = "packets" /\ phase = "idle" /\ stream = "whole" /\ at = 0 /\ expected = 0
        /\ input = << >> /\ encoded = << >> /\ decoded = << >>
  /\ options \in [compressLargeSections : BOOLEAN, allowUnknownOptionalSections : BOOLEAN]
  /\ stage = "codec" => options = [compressLargeSections |-> TRUE, allowUnknownOptionalSections |-> TRUE]
  /\ blobs = << >> /\ file = NoFile /\ damage = Undamaged
  /\ row = 0 /\ sections = << >> /\ result = Refused

UseCodec == stage = "codec" /\ NextOfCodec /\ UNCHANGED containerVars

-----------------------------------------------------------------------------
(* SceneSerializer::serialize.                                             *)

(* Variant: compressed sections are not marked as such.                    *)
StoreUnmarked(compressed, bytes, size) ==
  blobs' = Append(blobs, [kind |-> SectionOrder[Len(blobs) + 1], compressed |-> FALSE,
                          bytes |-> bytes, uncompressed |-> size])

Store(compressed, bytes, size) ==
  blobs' = Append(blobs, [kind |-> SectionOrder[Len(blobs) + 1], compressed |-> compressed,
                          bytes |-> bytes, uncompressed |-> size])

NextSection == SectionBytes(source, SectionOrder[Len(blobs) + 1])

MayCompress ==
  /\ options.compressLargeSections /\ SectionOrder[Len(blobs) + 1] \in OlderKinds
  /\ Len(NextSection) >= MinSection

StoreAsIs ==
  /\ stage = "serialize" /\ Len(blobs) < Len(SectionOrder) /\ ~MayCompress
  /\ Store(FALSE, NextSection, Len(NextSection))
  /\ UNCHANGED <<stage, options, source, file, damage, row, sections, result, codecVars>>

(* shouldCompress compresses to see what it gains.                         *)
TryToCompress ==
  /\ stage = "serialize" /\ Len(blobs) < Len(SectionOrder) /\ MayCompress
  /\ stage' = "compress"
  /\ codec' = "packets" /\ phase' = "encode" /\ stream' = "whole"
  /\ input' = NextSection /\ at' = 0 /\ expected' = 0 /\ encoded' = << >> /\ decoded' = << >>
  /\ UNCHANGED <<options, source, blobs, file, damage, row, sections, result>>

Compress ==
  /\ stage = "compress"
  /\ EncodeRunPacket \/ EncodeLiteralPacket
  /\ UNCHANGED containerVars

StoreSmaller ==
  /\ stage = "compress" /\ at = Len(input)
  /\ stage' = "serialize" /\ phase' = "idle"
  /\ IF Len(encoded) + MinGain < Len(input) THEN Store(TRUE, encoded, Len(input))
                                            ELSE Store(FALSE, input, Len(input))
  /\ UNCHANGED <<options, source, file, damage, row, sections, result,
                 codec, input, at, encoded, decoded, expected, stream>>

Aligned(n) == ((n + Alignment - 1) \div Alignment) * Alignment

TableEnd(rows) == HeaderSize + rows * RecordSize

(* Sections are aligned; the bytes of a file are those behind its table.   *)
Layout(stored) ==
  LET start == TableEnd(Len(stored))
      end[i \in 0..Len(stored)] == IF i = 0 THEN start ELSE Aligned(end[i - 1]) + Len(stored[i].bytes)
      offset(i) == Aligned(end[i - 1])
      padding(i) == Copies(0, offset(i) - end[i - 1])
  IN [NoFile EXCEPT
        !.table = [i \in DOMAIN stored |->
                     [kind |-> stored[i].kind, compressed |-> stored[i].compressed, offset |-> offset(i),
                      size |-> Len(stored[i].bytes), uncompressed |-> stored[i].uncompressed]],
        !.bytes = FlattenSeq([i \in DOMAIN stored |-> padding(i) \o stored[i].bytes]),
        !.size = end[Len(stored)]]

FinishFile ==
  /\ stage = "serialize" /\ Len(blobs) = Len(SectionOrder)
  /\ stage' = "file" /\ file' = Layout(blobs)
  /\ UNCHANGED <<options, source, blobs, damage, row, sections, result, codecVars>>

-----------------------------------------------------------------------------
(* What may have become of the file.                                       *)

Damage(kind, i, changed) ==
  /\ stage = "file" /\ damage = Undamaged /\ source \in Damaged
  /\ damage' = [kind |-> kind, row |-> i] /\ file' = changed
  /\ UNCHANGED <<stage, options, source, blobs, row, sections, result, codecVars>>

CutShort ==
  \E n \in 0..file.size - 1 :
    Damage("cut", 0, [file EXCEPT !.size = n,
                                  !.bytes = SubSeq(@, 1, n - TableEnd(Len(file.table)))])

(* Of another program, or another version of this one.                     *)
Replace ==
  \/ Damage("other", 0, [file EXCEPT !.magic = "other"])
  \/ Damage("other", 0, [file EXCEPT !.major = 2])

SwapRows ==
  \E i \in 1..Len(file.table) - 1 :
    Damage("swap", i, [file EXCEPT !.table[i] = file.table[i + 1], !.table[i + 1] = file.table[i]])

RenameSection ==
  \E i \in DOMAIN file.table, kind \in OlderKinds \cup {"unknown"} :
    kind # file.table[i].kind /\ Damage("rename", i, [file EXCEPT !.table[i].kind = kind])

(* The data of one section under the name of another.                      *)
RedirectSection ==
  \E i, j \in DOMAIN file.table :
    i # j /\ Damage("redirect", i, [file EXCEPT !.table[i] = [file.table[j] EXCEPT !.kind = file.table[i].kind]])

MisstateCompression ==
  \E i \in DOMAIN file.table :
    Damage("flag", i, [file EXCEPT !.table[i].compressed = ~@])

-----------------------------------------------------------------------------
(* SceneParser::parse.                                                     *)

Refuse ==
  /\ stage' = "answered" /\ result' = Refused
  /\ UNCHANGED <<options, source, blobs, file, damage, row, sections, codecVars>>

(* parseHeader, validateVersion and discoverSections.                      *)
HasGoodTable ==
  /\ file.size >= HeaderSize /\ file.magic = "BSEN" /\ file.major = 1
  /\ TableEnd(Len(file.table)) <= file.size
  /\ \A i \in DOMAIN file.table :
       file.table[i].kind = "unknown" => options.allowUnknownOptionalSections

OpenFile ==
  /\ stage = "file" /\ HasGoodTable
  /\ stage' = "offsets" /\ row' = 1
  /\ UNCHANGED <<options, source, blobs, file, damage, sections, result, codecVars>>

RefuseFile == stage = "file" /\ ~HasGoodTable /\ Refuse

(* validateOffsets, one record after the other.                            *)
AtRecord == stage = "offsets" /\ row <= Len(file.table)
Record == file.table[row]

IsInside ==
  /\ Record.offset <= file.size /\ Record.size <= file.size - Record.offset
  /\ Record.uncompressed <= MaximumSection

Stored == Slice(file.bytes, Record.offset - TableEnd(Len(file.table)), Record.size)

RefuseRecord == AtRecord /\ ~IsInside /\ Refuse

(* What an earlier record of that kind had is replaced.                    *)
TakeSection(bytes) ==
  /\ row' = row + 1
  /\ sections' = [kind \in DOMAIN sections \cup {Record.kind} |->
                    IF kind = Record.kind THEN bytes ELSE sections[kind]]

TakeAsIs ==
  /\ AtRecord /\ IsInside /\ ~Record.compressed
  /\ TakeSection(Stored)
  /\ UNCHANGED <<stage, options, source, blobs, file, damage, result, codecVars>>

BeginToUnpack ==
  /\ AtRecord /\ IsInside /\ Record.compressed
  /\ stage' = "unpack"
  /\ codec' = "packets" /\ phase' = "decode" /\ at' = 0
  /\ stream' = IF IsIntact THEN "whole" ELSE "foreign"
  /\ input' = IF IsIntact THEN SectionBytes(source, Record.kind) ELSE << >>
  /\ encoded' = Stored /\ decoded' = << >> /\ expected' = Record.uncompressed
  /\ UNCHANGED <<options, source, blobs, file, damage, row, sections, result>>

Unpack ==
  /\ stage = "unpack"
  /\ DecodeNextPacket \/ FinishDecoding \/ RefuseSize
  /\ UNCHANGED containerVars

TakeUnpacked ==
  /\ stage = "unpack" /\ phase = "done"
  /\ stage' = "offsets" /\ TakeSection(decoded)
  /\ UNCHANGED <<options, source, blobs, file, damage, result, codecVars>>

RefuseUnpacked == stage = "unpack" /\ phase = "failed" /\ Refuse

(* createObjects, then the references, then the animations.                *)
AfterOffsets == stage = "offsets" /\ row > Len(file.table)

ReadKind(kind) ==
  IF kind \in DOMAIN sections THEN ReadSection(kind, sections[kind]) ELSE Read(TRUE, 0, << >>)

CanCreateObjects == \A kind \in OlderKinds \ {"animations"} : ReadKind(kind).ok

CreateObjects ==
  /\ AfterOffsets /\ CanCreateObjects
  /\ stage' = "resolve"
  /\ result' = [ok |-> FALSE,
                value |-> [kind \in DOMAIN EmptyOlderScene |->
                             IF kind \in OlderKinds \ {"animations"} THEN ReadKind(kind).value ELSE << >>]]
  /\ UNCHANGED <<options, source, blobs, file, damage, row, sections, codecVars>>

RefuseObjects == AfterOffsets /\ ~CanCreateObjects /\ Refuse

Resolve ==
  /\ stage = "resolve" /\ ParentsExist(result.value.nodes)
  /\ stage' = "animations"
  /\ result' = [result EXCEPT !.value.nodes = ResolveReferences(@)]
  /\ UNCHANGED <<options, source, blobs, file, damage, row, sections, codecVars>>

RefuseReference == stage = "resolve" /\ ~ParentsExist(result.value.nodes) /\ Refuse

LoadAnimations ==
  /\ stage = "animations" /\ ReadKind("animations").ok
  /\ stage' = "answered"
  /\ result' = [ok |-> TRUE, value |-> [result.value EXCEPT !.animations = ReadKind("animations").value]]
  /\ UNCHANGED <<options, source, blobs, file, damage, row, sections, codecVars>>

RefuseAnimations == stage = "animations" /\ ~ReadKind("animations").ok /\ Refuse

Next ==
  \/ UseCodec
  \/ StoreAsIs \/ TryToCompress \/ Compress \/ StoreSmaller \/ FinishFile
  \/ CutShort \/ Replace \/ SwapRows \/ RenameSection \/ RedirectSection \/ MisstateCompression
  \/ OpenFile \/ RefuseFile \/ RefuseRecord \/ TakeAsIs
  \/ BeginToUnpack \/ Unpack \/ TakeUnpacked \/ RefuseUnpacked
  \/ CreateObjects \/ RefuseObjects \/ Resolve \/ RefuseReference
  \/ LoadAnimations \/ RefuseAnimations

(* Sequential code: a call goes on as long as it can.                      *)
Spec == Init /\ [][Next]_vars /\ WF_vars(Next)

-----------------------------------------------------------------------------
(* Properties.                                                             *)

TypeOK ==
  /\ CodecTypeOK
  /\ stage \in {"codec", "serialize", "compress", "file", "offsets", "unpack", "resolve", "animations",
                "answered"}
  /\ Len(blobs) <= Len(SectionOrder) /\ row <= Len(file.table) + 1
  /\ \A blob \in ToSet(blobs) : blob.bytes \in Seq(Byte)
  /\ file.size >= Len(file.bytes)

Answered == stage = "answered"

(* What a file can hold of a scene: no skeletons, cameras and lights, one  *)
(* texture slot, short names, and of each node's children those that name  *)
(* it, in the order of the nodes.                                          *)
Carried(s) ==
  LET Named(object) == [object EXCEPT !.name = ShortName(@)]
      Of(objects, F(_)) == [i \in DOMAIN objects |-> F(objects[i])]
      Slots(m) == [m EXCEPT !.slots = [slot \in DOMAIN @ \cap {"baseColor"} |-> @[slot]]]
      Children(i) ==
        SelectSeq([k \in DOMAIN s.nodes |-> s.nodes[k]],
                  LAMBDA n : n.parent = s.nodes[i].id /\ Find(s.nodes, s.nodes[i].id) = i)
      Once(i) == [k \in DOMAIN Children(i) |-> Children(i)[k].id]
  IN [EmptyOlderScene EXCEPT
        !.meshes = Of(s.meshes, Named), !.materials = Of(s.materials, LAMBDA m : Named(Slots(m))),
        !.textures = Of(s.textures, LAMBDA t : [Named(t) EXCEPT !.uri = ShortName(@)]),
        !.nodes = [i \in DOMAIN s.nodes |-> [Named(s.nodes[i]) EXCEPT !.children = Once(i)]],
        !.animations = Of(s.animations, Named)]

IdsDiffer(nodes) == \A i, j \in DOMAIN nodes : nodes[i].id = nodes[j].id => i = j

(* What is read of a section of an intact file is what the scene has in it.*)
SectionsAsWritten ==
  IsIntact => \A kind \in DOMAIN sections : sections[kind] = SectionBytes(source, kind)

(* Nobody is ever given bytes that were not written: neither by a decoder, *)
(* wherever its stream was cut, nor by the parser, wherever the layout and *)
(* its padding have put a section, and whether it was compressed or not.   *)
ReadAsWritten == NeverWrongBytes /\ SectionsAsWritten

(* A written scene is read back as what a file can hold of it, unless a    *)
(* node names a parent that does not exist, a section is larger than the   *)
(* parser takes, or the packet decoder refuses a section, although         *)
(* serialize succeeded.  A valid scene is then as good as before but for   *)
(* nodes that name a skeleton, a camera or a light, which have gone.  Of   *)
(* a file that was cut anywhere or is another program's nothing is read.   *)
(* The last record of a kind counts, a section may be missing, and one of  *)
(* an unknown kind is passed over if the options say so.                   *)
ContainerReadsBack ==
  Answered =>
    /\ damage.kind \in {"cut", "other"} => ~result.ok
    /\ IsIntact =>
         (result.ok <=> /\ ParentsExist(source.nodes)
                        /\ \A blob \in ToSet(blobs) : blob.uncompressed <= MaximumSection
                        /\ phase # "failed")
    /\ IsIntact /\ result.ok /\ IdsDiffer(source.nodes) =>
         /\ result.value = Carried(source)
         /\ Issues(source) = {} =>
              Issues(result.value) =
                {issue \in {"skeleton", "camera", "light"} \X DOMAIN source.nodes :
                   source.nodes[issue[2]][issue[1]] # NoObject}
    /\ damage.kind = "rename" /\ result.ok /\ IdsDiffer(source.nodes) =>
         LET renamed == SectionOrder[damage.row]
             name == file.table[damage.row].kind
             later == name # "unknown" /\ \E i \in damage.row + 1..Len(file.table) : file.table[i].kind = name
             keeps == [kind \in DOMAIN source |-> IF kind = renamed THEN << >> ELSE source[kind]]
         IN /\ name = "unknown" => options.allowUnknownOptionalSections
            /\ name = "unknown" \/ later => result.value = Carried(keeps)
            /\ renamed \notin OlderKinds /\ name # "unknown" /\ ~later =>
                 result.value = Carried([source EXCEPT ![name] = << >>])

(* In every scene that is read, whatever was done to its file, the nodes   *)
(* that the validator does not report as lying below a cycle are those     *)
(* that traverse visits, each once and with the world transform that       *)
(* worldTransform gives it, if no id is there twice.  descendantsOf,       *)
(* hasAncestor and depthOf then agree with that, and end.                  *)
TraversalAgrees ==
  Answered /\ result.ok /\ IdsDiffer(result.value.nodes) =>
    LET nodes == result.value.nodes
        issues == Issues(result.value)
        ids == {n.id : n \in ToSet(nodes)}
        lost == {nodes[issue[2]].id : issue \in {x \in issues : x[1] = "cycle"}}
        ways == Traverse(nodes)
        Depth(id) == Len(Upwards(nodes, id)) - 1
    IN /\ \A id \in ids : id \in lost <=> IsEndless(nodes, Upwards(nodes, id))
       /\ Len(ways) = Cardinality(ids \ lost)
       /\ ToSet(ways) = {Reverse(Upwards(nodes, id)) : id \in ids \ lost}
       /\ \A a \in ids, d \in ids \ lost : HasAncestor(nodes, d, a) <=> d \in Descendants(nodes, a)
       /\ \A a \in ids, d \in ids \ lost : d \in ToSet(Found(nodes, a).children) => Depth(d) = Depth(a) + 1

(* Both encoders, both decoders and the parser come to an end: every round *)
(* of an encoder consumes at least one byte although its counters are      *)
(* bytes themselves, and every record is looked at once.                   *)
EveryCallEnds == <>(Answered \/ (stage = "codec" /\ phase \in {"done", "failed"}))
=============================================================================
