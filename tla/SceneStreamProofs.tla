------------------------- MODULE SceneStreamProofs -------------------------
(***************************************************************************)
(* Whatever the readers are given, their cursor stays in the buffer and    *)
(* the fields they report follow each other: FieldsInOrder holds of every  *)
(* buffer, every list of reads and every limit on strings.                 *)
(*                                                                         *)
(* Nothing is needed about todo: each read is safe wherever the cursor     *)
(* stands, because it compares its width with what is left.                *)
(***************************************************************************)
EXTENDS SceneStream, TLAPS

-----------------------------------------------------------------------------
(* One read.                                                               *)

LEMMA PlacesAreNumbers == \A k \in 1..8 : Place[k] \in Nat
<1> DEFINE b == ByteBase
<1>0. b \in Nat
  BY FormatAssumption
<1>1. b * b \in Nat
  BY <1>0
<1>2. b * b * b \in Nat
  BY <1>0, <1>1
<1>3. b * b * b * b \in Nat
  BY <1>0, <1>2
<1>4. b * b * b * b * b \in Nat
  BY <1>0, <1>3
<1>5. b * b * b * b * b * b \in Nat
  BY <1>0, <1>4
<1>6. b * b * b * b * b * b * b \in Nat
  BY <1>0, <1>5
<1> QED BY <1>0, <1>1, <1>2, <1>3, <1>4, <1>5, <1>6 DEF Place

LEMMA EightParts ==
  ASSUME NEW a \in Nat, NEW b \in Nat, NEW c \in Nat, NEW d \in Nat,
         NEW e \in Nat, NEW f \in Nat, NEW g \in Nat, NEW h \in Nat
  PROVE  a + b + c + d + e + f + g + h \in Nat
OBVIOUS

(* What is read from inside the buffer is a number.                        *)
LEMMA ValueIsNumber ==
  ASSUME NEW buffer \in Seq(Byte), NEW at \in Nat, NEW width \in 0..8, width <= Len(buffer) - at
  PROVE  Value(buffer, at, width) \in Nat
<1> DEFINE Part(k) == IF k <= width THEN buffer[at + k] * Place[k] ELSE 0
<1>1. ASSUME NEW k \in 1..8 PROVE Part(k) \in Nat
  <2>1. CASE k <= width
    <3>1. buffer[at + k] \in Nat
      <4>1. at + k \in 1..Len(buffer)
        BY <2>1
      <4>2. buffer[at + k] \in Byte
        BY <4>1
      <4> QED BY <4>2, FormatAssumption DEF Byte
    <3>2. Place[k] \in Nat
      BY PlacesAreNumbers
    <3>3. buffer[at + k] * Place[k] \in Nat
      BY <3>1, <3>2
    <3> QED BY <2>1, <3>3
  <2>2. CASE ~(k <= width)
    BY <2>2
  <2> QED BY <2>1, <2>2
<1>2. Value(buffer, at, width)
        = Part(1) + Part(2) + Part(3) + Part(4) + Part(5) + Part(6) + Part(7) + Part(8)
  BY DEF Value
<1>3. /\ Part(1) \in Nat /\ Part(2) \in Nat /\ Part(3) \in Nat /\ Part(4) \in Nat
      /\ Part(5) \in Nat /\ Part(6) \in Nat /\ Part(7) \in Nat /\ Part(8) \in Nat
  BY <1>1
<1> HIDE DEF Part
<1>4. Part(1) + Part(2) + Part(3) + Part(4) + Part(5) + Part(6) + Part(7) + Part(8) \in Nat
  BY <1>3, EightParts, Zenon
<1> QED BY <1>2, <1>4

(* What a read returns: the cursor goes on inside the buffer.              *)
GoodRead(read, buffer, at) ==
  /\ read.position \in Nat /\ at <= read.position /\ read.position <= Len(buffer)

LEMMA UnsignedIsGood ==
  ASSUME NEW buffer \in Seq(Byte), NEW at \in Nat, at <= Len(buffer), NEW width \in 0..8
  PROVE  /\ GoodRead(ReadUnsigned(buffer, at, width), buffer, at)
         /\ ReadUnsigned(buffer, at, width).error = "none" =>
              ReadUnsigned(buffer, at, width).value \in Nat
<1> DEFINE read == ReadUnsigned(buffer, at, width)
<1>1. CASE Len(buffer) - at < width
  <2>1. read = [error |-> "unexpected_eof", position |-> at, value |-> 0]
    BY <1>1 DEF ReadUnsigned, Failed
  <2> QED BY <2>1 DEF GoodRead
<1>2. CASE ~(Len(buffer) - at < width)
  <2>1. width <= Len(buffer) - at
    BY <1>2
  <2>2. Value(buffer, at, width) \in Nat
    BY <2>1, ValueIsNumber
  <2>3. read = [error |-> "none", position |-> at + width, value |-> Value(buffer, at, width)]
    BY <1>2 DEF ReadUnsigned, Got
  <2> QED BY <2>1, <2>2, <2>3 DEF GoodRead
<1> QED BY <1>1, <1>2

LEMMA StringIsGood ==
  ASSUME NEW buffer \in Seq(Byte), NEW at \in Nat, at <= Len(buffer)
  PROVE  GoodRead(ReadString(buffer, at), buffer, at)
<1> DEFINE length == ReadUnsigned(buffer, at, 4)
           end == length.position + length.value
<1>1. GoodRead(length, buffer, at) /\ (length.error = "none" => length.value \in Nat)
  BY UnsignedIsGood
<1>2. CASE length.error # "none"
  BY <1>1, <1>2 DEF ReadString
<1>3. CASE length.error = "none"
  <2> HIDE DEF length
  <2>1. CASE length.value > MaxStringBytes
    <3>1. ReadString(buffer, at) = Failed("limit_exceeded", length.position)
      BY <1>3, <2>1 DEF ReadString, length
    <3> QED BY <3>1, <1>1 DEF Failed, GoodRead
  <2>2. CASE ~(length.value > MaxStringBytes) /\ Len(buffer) < end
    <3>1. ReadString(buffer, at) = Failed("unexpected_eof", length.position)
      BY <1>3, <2>2 DEF ReadString, length
    <3> QED BY <3>1, <1>1 DEF Failed, GoodRead
  <2>3. CASE ~(length.value > MaxStringBytes) /\ ~(Len(buffer) < end)
    <3>1. ReadString(buffer, at) = Got(SubSeq(buffer, length.position + 1, end), end)
      BY <1>3, <2>3 DEF ReadString, length
    <3>2. length.value \in Nat /\ length.position \in Nat /\ at <= length.position
      BY <1>1, <1>3 DEF GoodRead
    <3>3. end \in Nat /\ at <= end /\ end <= Len(buffer)
      BY <3>2, <2>3
    <3> QED BY <3>1, <3>3 DEF Got, GoodRead
  <2> QED BY <2>1, <2>2, <2>3
<1> QED BY <1>2, <1>3

LEMMA ReadIsGood ==
  ASSUME NEW type, NEW buffer \in Seq(Byte), NEW at \in Nat, at <= Len(buffer)
  PROVE  GoodRead(ReadOf(type, buffer, at), buffer, at)
<1>1. Width(type) \in 0..8
  BY DEF Width
<1>2. CASE type = "string"
  BY <1>2, StringIsGood DEF ReadOf
<1>3. CASE type # "string"
  BY <1>1, <1>3, UnsignedIsGood DEF ReadOf
<1> QED BY <1>2, <1>3

-----------------------------------------------------------------------------
(* The invariant.  A log is a sequence of fields that follow each other up *)
(* to the cursor at; it is tight when there are no gaps.                   *)

IsLog(entries) ==
  /\ \E S : entries \in Seq(S)
  /\ \A i \in 1..Len(entries) : entries[i].offset \in Nat /\ entries[i].size \in Nat

End(entries, i) == entries[i].offset + entries[i].size
NextPlace(entries, at, i) == IF i = Len(entries) THEN at ELSE entries[i + 1].offset
Follows(entries, at) == \A i \in 1..Len(entries) : End(entries, i) <= NextPlace(entries, at, i)
Tight(entries, at) ==
  /\ \A i \in 1..Len(entries) : End(entries, i) = NextPlace(entries, at, i)
  /\ (IF entries = << >> THEN at ELSE entries[1].offset) = 0

Inv ==
  /\ bytes \in Seq(Byte)
  /\ position \in Nat /\ position <= Len(bytes)
  /\ IsLog(log) /\ Follows(log, position)
  /\ error = "none" /\ failure = "none" => Tight(log, position)
  /\ phase \in {"write", "arrive"} => position = 0

LEMMA InvImpliesOrder == Inv => FieldsInOrder
BY DEF Inv, FieldsInOrder, IsLog, Follows, Tight, End, NextPlace

LEMMA EmptyLog ==
  IsLog(<< >>) /\ Follows(<< >>, 0) /\ Tight(<< >>, 0)
<1>1. << >> \in Seq({})
  OBVIOUS
<1> QED BY <1>1 DEF IsLog, Follows, Tight

(* The cursor may move on, at the price of a gap.                          *)
LEMMA FollowsFurther ==
  ASSUME NEW entries, IsLog(entries), NEW at \in Nat, NEW further \in Nat, at <= further,
         Follows(entries, at)
  PROVE  Follows(entries, further)
<1>1. Len(entries) \in Nat
  BY DEF IsLog
<1> QED BY <1>1 DEF IsLog, Follows, End, NextPlace

(* A field that begins at the cursor and ends at the next one.             *)
LEMMA OneMoreField ==
  ASSUME NEW entries, IsLog(entries), NEW at \in Nat, NEW further \in Nat, at <= further,
         Follows(entries, at), NEW field, field.offset = at, field.size = further - at
  PROVE  /\ IsLog(Append(entries, field)) /\ Follows(Append(entries, field), further)
         /\ Tight(entries, at) => Tight(Append(entries, field), further)
<1> DEFINE longer == Append(entries, field)
<1>1. PICK S : entries \in Seq(S)
  BY DEF IsLog
<1>2. entries \in Seq(S \cup {field}) /\ field \in S \cup {field}
  BY <1>1
<1>3. /\ longer \in Seq(S \cup {field})
      /\ Len(entries) \in Nat /\ Len(longer) = Len(entries) + 1
      /\ \A i \in 1..Len(entries) : longer[i] = entries[i]
      /\ longer[Len(entries) + 1] = field
  BY <1>2
<1> HIDE DEF longer
<1>4. IsLog(longer)
  BY <1>3 DEF IsLog
<1>5. ASSUME NEW i \in 1..Len(entries)
      PROVE  End(longer, i) = End(entries, i)
             /\ NextPlace(longer, further, i) = NextPlace(entries, at, i)
  BY <1>3 DEF End, NextPlace
<1>6. End(longer, Len(entries) + 1) = further
      /\ NextPlace(longer, further, Len(entries) + 1) = further
  BY <1>3 DEF End, NextPlace
<1>7. Follows(longer, further)
  BY <1>3, <1>5, <1>6 DEF Follows
<1>8. ASSUME Tight(entries, at) PROVE Tight(longer, further)
  <2>1. \A i \in 1..Len(longer) : End(longer, i) = NextPlace(longer, further, i)
    BY <1>3, <1>5, <1>6, <1>8 DEF Tight
  <2>2. longer # << >> /\ longer[1].offset = 0
    <3>1. CASE entries = << >>
      BY <3>1, <1>3, <1>8 DEF Tight
    <3>2. CASE entries # << >>
      BY <3>2, <1>1, <1>3, <1>8 DEF Tight
    <3> QED BY <3>1, <3>2
  <2> QED BY <2>1, <2>2 DEF Tight
<1> QED BY <1>4, <1>7, <1>8 DEF longer

-----------------------------------------------------------------------------
(* Steps of a reader.                                                      *)

LEMMA Opened ==
  ASSUME NEW program, bytes' \in Seq(Byte), Open(program)
  PROVE  Inv'
<1>1. position' = 0 /\ log' = << >>
  BY DEF Open
<1> QED BY <1>1, EmptyLog DEF Inv

(* A function that fails leaves an error behind; one that returns leaves   *)
(* what it had.                                                            *)
LEMMA FailLeavesError ==
  ASSUME NEW code, code # "none", Fail(code)
  PROVE  ~(error' = "none" /\ failure' = "none")
BY DEF Fail

LEMMA ReturnKeepsError ==
  ASSUME NEW item, NEW code, Return(item, code), error' = "none", failure' = "none"
  PROVE  failure = "none" /\ code = "none"
BY DEF Return, Fail

(* The cursor stays or moves on in the same buffer, without a new field:   *)
(* an error is left behind when it moved.                                  *)
LEMMA MovesOn ==
  ASSUME Inv, phase' \notin {"write", "arrive"}, UNCHANGED <<bytes, log>>,
         position' \in Nat, position <= position', position' <= Len(bytes),
         error' = "none" /\ failure' = "none" =>
           error = "none" /\ failure = "none" /\ position' = position
  PROVE  Inv'
<1>1. Follows(log, position')
  BY FollowsFurther DEF Inv
<1>2. error' = "none" /\ failure' = "none" => Tight(log, position')
  BY DEF Inv
<1> QED BY <1>1, <1>2 DEF Inv

(* A field is read.                                                        *)
LEMMA ReadsField ==
  ASSUME Inv, phase' \notin {"write", "arrive"}, UNCHANGED bytes,
         position' \in Nat, position <= position', position' <= Len(bytes),
         NEW at, NEW value, Logged(at, position' - position, value),
         error' = "none" /\ failure' = "none" => error = "none" /\ failure = "none"
  PROVE  Inv'
<1> DEFINE field == [at |-> at, offset |-> position, size |-> position' - position, value |-> value]
<1>1. log' = Append(log, field)
  BY DEF Logged
<1>2. field.offset = position /\ field.size = position' - position
  OBVIOUS
<1> HIDE DEF field
<1>3. /\ IsLog(Append(log, field)) /\ Follows(Append(log, field), position')
      /\ Tight(log, position) => Tight(Append(log, field), position')
  BY <1>2, OneMoreField DEF Inv
<1> QED BY <1>1, <1>3 DEF Inv

LEMMA ReadMagicStep ==
  ASSUME Inv, ReadMagic
  PROVE  Inv'
<1> DEFINE left == Len(bytes) - position
           wrong == {i \in 1..4 : i <= left /\ bytes[position + i] # SceneMagic[i]}
<1>1. phase' \notin {"write", "arrive"} /\ UNCHANGED bytes
  BY DEF ReadMagic, Next_, Reading
<1>2. position \in Nat /\ Len(bytes) \in Nat /\ position <= Len(bytes)
  BY DEF Inv
<1>3. CASE \E i \in wrong : position' = position + i /\ Fail("invalid_magic") /\ UNCHANGED log
  <2>1. PICK i \in wrong : position' = position + i /\ Fail("invalid_magic") /\ UNCHANGED log
    BY <1>3
  <2>2. i \in 1..4 /\ i <= left
    BY <2>1
  <2>3. ~(error' = "none" /\ failure' = "none")
    BY <2>1, FailLeavesError
  <2> QED BY <1>1, <1>2, <2>1, <2>2, <2>3, MovesOn
<1>4. CASE position' = Len(bytes) /\ Fail("unexpected_eof") /\ UNCHANGED log
  <2>1. ~(error' = "none" /\ failure' = "none")
    BY <1>4, FailLeavesError
  <2> QED BY <1>1, <1>2, <1>4, <2>1, MovesOn
<1>5. CASE /\ left >= 4 /\ position' = position + 4
           /\ Logged(<<"magic">>, 4, SubSeq(bytes, position + 1, position + 4))
           /\ UNCHANGED <<error, failure>>
  <2>1. position' - position = 4
    BY <1>2, <1>5
  <2> QED BY <1>1, <1>2, <1>5, <2>1, ReadsField
<1> QED BY <1>3, <1>4, <1>5 DEF ReadMagic

LEMMA CheckVersionStep ==
  ASSUME Inv, CheckVersion
  PROVE  Inv'
<1>1. phase' \notin {"write", "arrive"} /\ UNCHANGED <<bytes, log, position>>
  BY DEF CheckVersion, Next_, Reading
<1>2. error' = "none" /\ failure' = "none" => error = "none" /\ failure = "none"
  BY FailLeavesError DEF CheckVersion
<1> QED BY <1>1, <1>2, MovesOn DEF Inv

LEMMA ReadOnStep ==
  ASSUME Inv, ReadOn
  PROVE  Inv'
<1> DEFINE item == Head(todo)
           read == ReadOf(item.parts[item.part], bytes, position)
<1>1. /\ phase' \notin {"write", "arrive"} /\ UNCHANGED bytes
      /\ position' = read.position
  BY DEF ReadOn, Next_, Reading
<1>2. GoodRead(read, bytes, position)
  BY ReadIsGood DEF Inv
<1>3. position' \in Nat /\ position <= position' /\ position' <= Len(bytes)
  BY <1>1, <1>2 DEF GoodRead
<1>4. CASE read.error = "none"
  <2>1. Logged(Path(item), position' - position, read.value)
    BY <1>1, <1>4 DEF ReadOn
  <2>2. UNCHANGED <<error, failure>> \/ Return(item, error)
    BY <1>4 DEF ReadOn
  <2>3. error' = "none" /\ failure' = "none" => error = "none" /\ failure = "none"
    BY <2>2, ReturnKeepsError
  <2> QED BY <1>1, <1>3, <2>1, <2>3, ReadsField
<1>5. CASE read.error # "none"
  <2>1. UNCHANGED log /\ Return(item, IF error = "none" THEN read.error ELSE error)
    BY <1>5 DEF ReadOn
  <2>2. ~(error' = "none" /\ failure' = "none")
    BY <1>5, <2>1, ReturnKeepsError
  <2> QED BY <1>1, <1>3, <2>1, <2>2, MovesOn
<1> QED BY <1>4, <1>5

-----------------------------------------------------------------------------
(* The other steps.                                                        *)

LEMMA ArrivesInOrder ==
  ASSUME Inv, ArriveWhole \/ ArriveCut \/ ArriveLonger \/ ArriveChanged
  PROVE  Inv'
<1>1. bytes \in Seq(Byte)
  BY DEF Inv
<1>2. ASSUME NEW arrived \in Seq(Byte), NEW how, Arrive(arrived, how) PROVE Inv'
  BY <1>2, Opened DEF Arrive
<1>3. CASE ArriveWhole
  BY <1>1, <1>2, <1>3 DEF ArriveWhole
<1>4. CASE ArriveCut
  <2>1. PICK n \in 0..Len(bytes) - 1 : Arrive(SubSeq(bytes, 1, n), "cut")
    BY <1>4 DEF ArriveCut
  <2>2. SubSeq(bytes, 1, n) \in Seq(Byte)
    BY <1>1
  <2> QED BY <1>2, <2>1, <2>2
<1>5. CASE ArriveLonger
  <2>1. PICK byte \in Byte : Arrive(Append(bytes, byte), "longer")
    BY <1>5 DEF ArriveLonger
  <2>2. Append(bytes, byte) \in Seq(Byte)
    BY <1>1
  <2> QED BY <1>2, <2>1, <2>2
<1>6. CASE ArriveChanged
  <2>1. PICK i \in 1..Len(bytes), delta \in Deltas :
          Arrive([bytes EXCEPT ![i] = (@ + delta) % ByteBase], "changed")
    BY <1>6 DEF ArriveChanged
  <2>2. (bytes[i] + delta) % ByteBase \in Byte
    <3>1. bytes[i] \in Nat /\ delta \in Nat /\ ByteBase \in Nat \ {0, 1}
      <4>1. bytes[i] \in Byte
        BY <1>1
      <4> QED BY <4>1, FormatAssumption, StreamAssumption DEF Byte
    <3>2. bytes[i] + delta \in Nat
      BY <3>1
    <3> HIDE DEF Byte
    <3>3. (bytes[i] + delta) % ByteBase \in 0..ByteBase - 1
      BY <3>1, <3>2
    <3> QED BY <3>3 DEF Byte
  <2>3. [bytes EXCEPT ![i] = (@ + delta) % ByteBase] \in Seq(Byte)
    BY <1>1, <2>2
  <2> QED BY <1>2, <2>1, <2>3
<1> QED BY <1>3, <1>4, <1>5, <1>6

LEMMA WriteStep ==
  ASSUME Inv, Write
  PROVE  Inv'
<1>1. PICK scene \in Scenes : bytes' = SerializeScene(scene).bytes
  BY DEF Write
<1>2. bytes' \in Seq(Byte)
  BY <1>1, StreamAssumption
<1>3. position = 0 /\ phase' = "arrive" /\ UNCHANGED <<position, log, error, failure>>
  BY DEF Inv, Write, reader
<1> QED BY <1>2, <1>3 DEF Inv

LEMMA InvStep == Inv /\ [Next]_vars => Inv'
<1> SUFFICES ASSUME Inv, [Next]_vars PROVE Inv'
  OBVIOUS
<1>1. CASE Write
  BY <1>1, WriteStep
<1>2. CASE ArriveWhole \/ ArriveCut \/ ArriveLonger \/ ArriveChanged
  BY <1>2, ArrivesInOrder
<1>3. CASE ReadMagic
  BY <1>3, ReadMagicStep
<1>4. CASE CheckVersion
  BY <1>4, CheckVersionStep
<1>5. CASE ReadOn
  BY <1>5, ReadOnStep
<1>6. CASE EnterLoop \/ ReadItem \/ NextSection
  BY <1>6 DEF EnterLoop, ReadItem, NextSection, Next_, Inv
<1>7. ASSUME NEW code, Refuse(code) PROVE Inv'
  BY <1>7, Opened DEF Refuse, Inv
<1>8. CASE RefuseMalformed
  BY <1>7, <1>8 DEF RefuseMalformed
<1>9. CASE AssembleScene
  BY <1>9 DEF AssembleScene, reader, Inv
<1>10. CASE ValidateParsed
  <2>1. CASE Refuse("validation_failed")
    BY <1>7, <2>1
  <2>2. CASE Open(InspectorProgram) /\ UNCHANGED bytes
    BY <2>2, Opened DEF Inv
  <2> QED BY <1>10, <2>1, <2>2 DEF ValidateParsed
<1>11. CASE FinishInspecting
  BY <1>11 DEF FinishInspecting, reader, Inv
<1>12. CASE UNCHANGED vars
  BY <1>12 DEF vars, Inv
<1> QED BY <1>1, <1>2, <1>3, <1>4, <1>5, <1>6, <1>8, <1>9, <1>10, <1>11, <1>12 DEF Next, Rest

LEMMA InvInit == Init => Inv
<1> SUFFICES ASSUME Init PROVE Inv
  OBVIOUS
<1>1. bytes \in Seq(Byte) /\ Len(bytes) = 0 /\ position = 0 /\ log = << >>
  BY DEF Init
<1> QED BY <1>1, EmptyLog DEF Inv

(* The invariant of the readers, for any scenes, bytes and damage.         *)
THEOREM InvHolds == Spec => []Inv
BY InvInit, InvStep, PTL DEF Spec

(* The cursor never leaves the buffer, the fields that were read never     *)
(* overlap, and nothing is skipped as long as nothing failed.              *)
THEOREM FieldsAlwaysInOrder == Spec => []FieldsInOrder
BY InvHolds, InvImpliesOrder, PTL
=============================================================================
