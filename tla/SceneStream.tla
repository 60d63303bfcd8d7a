----------------------------- MODULE SceneStream -----------------------------
(***************************************************************************)
(* A scene is written, its bytes reach a reader whole or damaged, and both *)
(* readers of the format run over what arrived: ParseScene, then           *)
(* InspectBinaryScene.  Each is a cursor that makes the reads of its list, *)
(* one number or string a step; todo holds the reads and loops still to    *)
(* come.  log has one entry for every read that succeeded: the inspector's *)
(* fields, and the values the parser stores.                               *)
(***************************************************************************)
EXTENDS BinaryFormat

CONSTANTS
  Scenes,  \* scenes that are written
  Deltas   \* what damage adds to a byte

Byte == 0..ByteBase - 1

ASSUME StreamAssumption ==
  /\ Deltas \subseteq Nat
  /\ \A scene \in Scenes : SerializeScene(scene).bytes \in Seq(Byte)

VARIABLES
  phase,     \* what happens next
  source,    \* the scene that was written
  bytes,     \* the buffer
  arrival,   \* how the buffer reached the readers
  position,  \* BinaryReader::position_
  todo,      \* reads and loops still to come
  log,       \* what was read, with its place
  error,     \* the first failed read that was not looked at yet
  failure,   \* the first error a section of the inspector returned
  verdict,   \* what ParseScene returned
  warnings   \* BinaryInspection::warnings

reader == <<position, todo, log, error, failure>>
vars == <<phase, source, bytes, arrival, position, todo, log, error, failure, verdict, warnings>>

ErrorCode ==
  {"none", "unexpected_eof", "limit_exceeded", "invalid_magic", "unsupported_version",
   "malformed_data", "validation_failed"}
Warning == {"magic", "version", "trailing"}

(* Reads of an object, for the object at a path.                           *)
For(items, at) == Mapped(items, LAMBDA item : [item EXCEPT !.at = at])

Program(first, header, rest) == <<[do |-> first]>> \o For(header, << >>) \o <<[do |-> "version"]>> \o rest
ParserProgram == Program("magic", ParserHeader, For(ParserScene, << >>))
InspectorProgram ==
  Program("magic", InspectedHeader,
          For(InspectorPreamble, << >>) \o <<[do |-> "sections", next |-> 1]>>)

TypeOK ==
  /\ phase \in {"write", "arrive", "parse", "validate", "inspect", "done"}
  /\ bytes \in Seq(Byte) /\ position \in Nat /\ arrival \in {"whole", "cut", "longer", "changed"}
  /\ error \in ErrorCode /\ failure \in ErrorCode
  /\ verdict.error \in ErrorCode /\ warnings \in SUBSET Warning

Nothing == [error |-> "none", scene |-> << >>]

Init ==
  /\ phase = "write" /\ source = << >> /\ bytes = << >> /\ arrival = "whole"
  /\ position = 0 /\ todo = << >> /\ log = << >>
  /\ error = "none" /\ failure = "none" /\ verdict = Nothing /\ warnings = {}

Write ==
  /\ phase = "write" /\ phase' = "arrive"
  /\ \E scene \in Scenes :
       LET file == SerializeScene(scene)
       IN file.ok /\ source' = scene /\ bytes' = file.bytes
  /\ UNCHANGED <<arrival, reader, verdict, warnings>>

-----------------------------------------------------------------------------
(* What becomes of the bytes between the calls.                            *)

Open(program) ==
  position' = 0 /\ todo' = program /\ log' = << >> /\ error' = "none" /\ failure' = "none"

Arrive(arrived, how) ==
  /\ phase = "arrive" /\ phase' = "parse"
  /\ bytes' = arrived /\ arrival' = how
  /\ Open(ParserProgram)
  /\ UNCHANGED <<source, verdict, warnings>>

ArriveWhole == Arrive(bytes, "whole")
ArriveCut == \E n \in 0..Len(bytes) - 1 : Arrive(SubSeq(bytes, 1, n), "cut")
ArriveLonger == \E byte \in Byte : Arrive(Append(bytes, byte), "longer")
ArriveChanged ==
  \E i \in 1..Len(bytes), delta \in Deltas :
    Arrive([bytes EXCEPT ![i] = (@ + delta) % ByteBase], "changed")

-----------------------------------------------------------------------------
(* The readers.                                                            *)

Reading == phase \in {"parse", "inspect"} /\ todo # << >>
Next_(do) == Reading /\ Head(todo).do = do

(* The function that is running returns an error: the parser is done; the  *)
(* inspector goes on with its next section once it has begun the sections, *)
(* because it calls all eight before it looks at what they returned.       *)
Fail(code) ==
  /\ todo' = SelectSeq(todo, LAMBDA item : item.do = "sections" /\ item.next > 1)
  /\ failure' = IF failure = "none" THEN code ELSE failure
  /\ error' = "none"

Logged(at, size, value) ==
  log' = Append(log, [at |-> at, offset |-> position, size |-> size, value |-> value])

ReadMagic ==
  LET left == Len(bytes) - position
      wrong == {i \in 1..4 : i <= left /\ bytes[position + i] # SceneMagic[i]}
  IN /\ Next_("magic")
     /\ \/ /\ phase = "parse" /\ wrong # {}
           /\ \E i \in wrong : position' = position + i /\ \A j \in wrong : i <= j
           /\ Fail("invalid_magic")
           /\ UNCHANGED <<log, warnings>>
        \/ /\ phase = "parse" => wrong = {}
           /\ left < 4
           /\ position' = Len(bytes)
           /\ Fail("unexpected_eof")
           /\ UNCHANGED <<log, warnings>>
        \/ /\ phase = "parse" => wrong = {}
           /\ left >= 4
           /\ position' = position + 4 /\ todo' = Tail(todo)
           /\ Logged(<<"magic">>, 4, SubSeq(bytes, position + 1, position + 4))
           /\ warnings' = IF wrong = {} THEN {} ELSE {"magic"}
           /\ UNCHANGED <<error, failure>>
     /\ UNCHANGED <<phase, source, bytes, arrival, verdict>>

CheckVersion ==
  LET known == log[2].value = FormatMajor
  IN /\ Next_("version")
     /\ \/ phase = "parse" /\ ~known /\ Fail("unsupported_version")
        \/ /\ phase = "parse" => known
           /\ todo' = Tail(todo) /\ UNCHANGED <<error, failure>>
     /\ warnings' = IF known THEN warnings ELSE warnings \cup {"version"}
     /\ UNCHANGED <<phase, source, bytes, arrival, position, log, verdict>>

(* What a call does when it has made its last read.                        *)
Return(item, code) ==
  \/ item.checked /\ code # "none" /\ Fail(code)
  \/ /\ ~item.checked \/ code = "none"
     /\ todo' = Tail(todo) /\ error' = code /\ UNCHANGED failure

Path(item) ==
  item.at \o (IF item.name = "" THEN << >> ELSE <<item.name>>)
          \o (IF Len(item.parts) = 1 THEN << >> ELSE <<item.part>>)

ReadOn ==
  LET item == Head(todo)
      read == ReadOf(item.parts[item.part], bytes, position)
  IN /\ Next_("read")
     /\ position' = read.position
     /\ \/ /\ read.error = "none"
           /\ Logged(Path(item), read.position - position, read.value)
           /\ \/ /\ item.part < Len(item.parts)
                 /\ todo' = <<[item EXCEPT !.part = @ + 1]>> \o Tail(todo)
                 /\ UNCHANGED <<error, failure>>
              \/ item.part = Len(item.parts) /\ Return(item, error)
        \/ /\ read.error # "none"
           /\ Return(item, IF error = "none" THEN read.error ELSE error)
           /\ UNCHANGED log
     /\ UNCHANGED <<phase, source, bytes, arrival, verdict, warnings>>

(* A loop makes the reads of one item after the other.                     *)
EnterLoop ==
  LET item == Head(todo)
  IN /\ Next_("loop")
     /\ todo' = <<[do |-> "items", name |-> item.name, at |-> Append(item.at, item.name),
                   next |-> 1, count |-> log[Len(log)].value]>> \o Tail(todo)
     /\ UNCHANGED <<phase, source, bytes, arrival, position, log, error, failure, verdict, warnings>>

ReadItem ==
  LET loop == Head(todo)
      reads == IF phase = "parse" THEN ParserReads ELSE InspectorReads
  IN /\ Next_("items")
     /\ todo' = IF loop.next > loop.count THEN Tail(todo)
                ELSE For(reads[loop.name], Append(loop.at, loop.next))
                       \o <<[loop EXCEPT !.next = @ + 1]>> \o Tail(todo)
     /\ UNCHANGED <<phase, source, bytes, arrival, position, log, error, failure, verdict, warnings>>

NextSection ==
  LET sections == Head(todo)
  IN /\ Next_("sections")
     /\ todo' = IF sections.next > Len(InspectorSections) THEN Tail(todo)
                ELSE For(InspectorSection(InspectorSections[sections.next]), << >>)
                       \o <<[sections EXCEPT !.next = @ + 1]>>
     /\ UNCHANGED <<phase, source, bytes, arrival, position, log, error, failure, verdict, warnings>>

(* The end of ParseScene: nothing may be left over, and the scene is       *)
(* validated.  The inspector follows, on the same bytes.                   *)
Refuse(code) ==
  /\ phase' = "inspect" /\ verdict' = [Nothing EXCEPT !.error = code]
  /\ Open(InspectorProgram)
  /\ warnings' = {}
  /\ UNCHANGED <<source, bytes, arrival>>

RefuseMalformed ==
  /\ phase = "parse" /\ todo = << >>
  /\ \/ failure # "none" /\ Refuse(failure)
     \/ failure = "none" /\ position # Len(bytes) /\ Refuse("malformed_data")

AssembleScene ==
  LET value == [at \in {log[i].at : i \in DOMAIN log} |->
                  log[CHOOSE i \in DOMAIN log : log[i].at = at].value]
  IN /\ phase = "parse" /\ todo = << >> /\ phase' = "validate"
     /\ failure = "none" /\ position = Len(bytes)
     /\ verdict' = [Nothing EXCEPT !.scene = SceneRead(value)]
     /\ UNCHANGED <<source, bytes, arrival, reader, warnings>>

(* Variant: the scene is returned as it was read.                          *)
ReturnUnvalidated ==
  /\ phase = "validate" /\ phase' = "inspect"
  /\ Open(InspectorProgram)
  /\ warnings' = {}
  /\ UNCHANGED <<source, bytes, arrival, verdict>>

ValidateParsed ==
  /\ phase = "validate"
  /\ \/ ~IsValid(verdict.scene) /\ Refuse("validation_failed")
     \/ /\ IsValid(verdict.scene) /\ phase' = "inspect"
        /\ Open(InspectorProgram)
        /\ warnings' = {}
        /\ UNCHANGED <<source, bytes, arrival, verdict>>

FinishInspecting ==
  /\ phase = "inspect" /\ todo = << >> /\ phase' = "done"
  /\ warnings' = IF failure = "none" /\ position # Len(bytes)
                   THEN warnings \cup {"trailing"} ELSE warnings
  /\ UNCHANGED <<source, bytes, arrival, reader, verdict>>

(* Nothing follows the inspector.                                          *)
Rest == phase = "done" /\ UNCHANGED vars

Next ==
  \/ Write \/ ArriveWhole \/ ArriveCut \/ ArriveLonger \/ ArriveChanged
  \/ ReadMagic \/ CheckVersion \/ ReadOn \/ EnterLoop \/ ReadItem \/ NextSection
  \/ RefuseMalformed \/ AssembleScene \/ ValidateParsed \/ FinishInspecting \/ Rest

Spec == Init /\ [][Next]_vars
-----------------------------------------------------------------------------
(* Whatever arrives, the cursor stays in the buffer, and what was read is  *)
(* in order and without overlap, also where the inspector reads on after a *)
(* section that failed (binary_inspector.cpp:332).  As long as nothing     *)
(* failed there are no gaps: every byte before the cursor is accounted for.*)
FieldsInOrder ==
  LET end(i) == log[i].offset + log[i].size
      next(i) == IF i = Len(log) THEN position ELSE log[i + 1].offset
  IN /\ position <= Len(bytes)
     /\ \A i \in 1..Len(log) : log[i].size >= 0 /\ end(i) <= next(i)
     /\ error = "none" /\ failure = "none" =>
          /\ \A i \in 1..Len(log) : end(i) = next(i)
          /\ (IF log = << >> THEN position ELSE log[1].offset) = 0

Parsed == phase \in {"inspect", "done"}

(* A file is read back as the scene that was written, field for field, and *)
(* is refused when anything is missing from its end or added to it.        *)
WholeFilesOnly ==
  Parsed =>
    /\ arrival = "whole" => verdict = [error |-> "none", scene |-> source]
    /\ arrival \in {"cut", "longer"} => verdict.error # "none"

(* What the parser accepts can be written, and gives the same bytes again, *)
(* except the minor version and the flags, which the parser does not look  *)
(* at, and the order of metadata, which is sorted when it is written.      *)
AcceptedRewrites ==
  phase = "done" /\ verdict.error = "none" =>
    LET again == SerializeScene(verdict.scene)
    IN /\ again.ok
       /\ Cardinality(DOMAIN source.metadata) < 2 =>
            /\ Len(again.bytes) = Len(bytes)
            /\ \A i \in 1..Len(bytes) : i \in 7..12 \/ again.bytes[i] = bytes[i]

(* The parser and the inspector, which list the fields separately, agree   *)
(* on the structure of every input: what one accepts the other accepts     *)
(* without a warning, unless the scene itself is invalid.                  *)
ReadersAgree ==
  phase = "done" =>
    /\ verdict.error = "none" => failure = "none" /\ warnings = {}
    /\ failure = "none" /\ warnings = {} => verdict.error \in {"none", "validation_failed"}
=============================================================================
