----------------------------- MODULE RunLength -----------------------------
(***************************************************************************)
(* The two run-length codecs, one step per round of their loops: bytes go  *)
(* through an encoder and what it wrote, or what is left of it, through    *)
(* the matching decoder.                                                   *)
(* "pairs" is bse::CompressRle and DecompressRle, a stream of count and    *)
(* value; "packets" is compression::compressRle and decompressRle of the   *)
(* section format, packets whose tag has a flag for a run and otherwise    *)
(* introduces literal bytes.  The tag's flag is the top bit of the byte,   *)
(* the count the rest.                                                     *)
(***************************************************************************)
EXTENDS Integers, Sequences, SequencesExt

CONSTANTS
  Flag,       \* the top bit of a byte: 128 in the code
  Symbols,    \* byte values that occur in the input
  MaxLength   \* bound: length of the input

Byte == 0..2 * Flag - 1

(* The most a pair can count, and a packet.                                *)
MaxRun   == 2 * Flag - 1
MaxCount == Flag - 1

ASSUME CodecAssumption == Flag \in Nat \ {0, 1} /\ Symbols \subseteq Byte /\ MaxLength \in Nat

VARIABLES
  codec,     \* which codec is used
  phase,     \* "encode", "decode", and then "done" or "failed"; "idle" when unused
  input,     \* the bytes
  at,        \* i: bytes of input encoded, or of encoded decoded
  encoded,   \* output of the encoder
  decoded,   \* output of the decoder
  expected,  \* expectedSize, which only the packet decoder is given
  stream     \* what the decoder was given: "whole", "cut", or "foreign" bytes

codecVars == <<codec, phase, input, at, encoded, decoded, expected, stream>>

InitCodec ==
  /\ codec \in {"pairs", "packets"}
  /\ phase = "encode"
  /\ input \in BoundedSeq(Symbols, MaxLength)
  /\ at = 0
  /\ encoded = << >>
  /\ decoded = << >>
  /\ expected = 0 /\ stream = "whole"

Copies(byte, n) == [i \in 1..n |-> byte]
Slice(bytes, from, n) == SubSeq(bytes, from + 1, from + n)

(* The number of equal bytes after the first `from`, at most limit.        *)
RunAt(from, limit) ==
  CHOOSE n \in 1..Len(input) - from :
    /\ n <= limit
    /\ \A k \in 1..n - 1 : input[from + 1 + k] = input[from + 1]
    /\ n = limit \/ n = Len(input) - from \/ input[from + 1 + n] # input[from + 1]

(* Where a literal that starts at `at` ends: it takes bytes and pairs of   *)
(* bytes until a run, the end, or the limit, which a pair may step over.   *)
LiteralEnd ==
  LET end[e \in 0..Len(input)] ==
        IF e < Len(input) /\ e - at < MaxCount /\ RunAt(e, MaxCount) < 3
          THEN end[e + RunAt(e, MaxCount)] ELSE e
  IN end[at + RunAt(at, MaxCount)]

EncodePair ==
  /\ phase = "encode" /\ codec = "pairs" /\ at < Len(input)
  /\ encoded' = encoded \o <<RunAt(at, MaxRun), input[at + 1]>>
  /\ at' = at + RunAt(at, MaxRun)
  /\ UNCHANGED <<codec, phase, input, decoded, expected, stream>>

EncodeRunPacket ==
  /\ phase = "encode" /\ codec = "packets" /\ at < Len(input)
  /\ RunAt(at, MaxCount) >= 3
  /\ encoded' = encoded \o <<Flag + RunAt(at, MaxCount), input[at + 1]>>
  /\ at' = at + RunAt(at, MaxCount)
  /\ UNCHANGED <<codec, phase, input, decoded, expected, stream>>

EncodeLiteralPacket ==
  /\ phase = "encode" /\ codec = "packets" /\ at < Len(input)
  /\ RunAt(at, MaxCount) < 3
  /\ LET n == LiteralEnd - at
     IN /\ encoded' = encoded \o <<n % (2 * Flag)>> \o Slice(input, at, n)
        /\ at' = at + n
  /\ UNCHANGED <<codec, phase, input, decoded, expected, stream>>

(* The encoded bytes reach the decoder, perhaps cut short on the way.      *)
Deliver(n) ==
  /\ phase = "encode" /\ at = Len(input)
  /\ phase' = "decode"
  /\ at' = 0
  /\ encoded' = SubSeq(encoded, 1, n)
  /\ stream' = IF n = Len(encoded) THEN "whole" ELSE "cut"
  /\ expected' = Len(input)
  /\ UNCHANGED <<codec, input, decoded>>

Decoding(name) == phase = "decode" /\ codec = name
(* Variant: the loop goes on at the same place.                            *)
FailNowhere(condition) == condition /\ UNCHANGED codecVars
FailOn(condition) ==
  /\ condition
  /\ phase' = "failed"
  /\ UNCHANGED <<codec, input, at, encoded, decoded, expected, stream>>

(* A stream of odd length is refused before anything is decoded.           *)
RefuseOddStream == Decoding("pairs") /\ at = 0 /\ FailOn(Len(encoded) % 2 = 1)

DecodePair ==
  /\ Decoding("pairs") /\ Len(encoded) % 2 = 0 /\ at < Len(encoded)
  /\ decoded' = decoded \o Copies(encoded[at + 2], encoded[at + 1])
  /\ at' = at + 2
  /\ UNCHANGED <<codec, phase, input, encoded, expected, stream>>

(* A packet of no bytes, one that the stream cuts short and one that goes  *)
(* past the expected size are errors.                                      *)
DecodePacket ==
  LET tag   == encoded[at + 1]
      count == tag % Flag
      more  == IF tag >= Flag THEN Copies(encoded[at + 2], count) ELSE Slice(encoded, at + 1, count)
      next  == IF tag >= Flag THEN at + 2 ELSE at + 1 + count
  IN \/ FailOn(count = 0 \/ next > Len(encoded) \/ Len(decoded) + count > expected)
     \/ /\ count > 0 /\ next <= Len(encoded)
        /\ Len(decoded) + count <= expected
        /\ decoded' = decoded \o more
        /\ at' = next
        /\ UNCHANGED <<codec, phase, input, encoded, expected, stream>>

DecodeNextPacket == Decoding("packets") /\ at < Len(encoded) /\ DecodePacket

(* Packets are decoded to an expected size, pairs to whatever they give.   *)
FinishDecoding ==
  /\ phase = "decode" /\ at = Len(encoded)
  /\ codec = "packets" => Len(decoded) = expected
  /\ phase' = "done"
  /\ UNCHANGED <<codec, input, at, encoded, decoded, expected, stream>>

RefuseSize == Decoding("packets") /\ at = Len(encoded) /\ FailOn(Len(decoded) # expected)

NextOfCodec ==
  \/ EncodePair \/ EncodeRunPacket \/ EncodeLiteralPacket
  \/ \E n \in 0..Len(encoded) : Deliver(n)
  \/ RefuseOddStream \/ DecodePair \/ DecodeNextPacket \/ FinishDecoding \/ RefuseSize

(* The loops are sequential code: they go on as long as they can.          *)
CodecSpec == InitCodec /\ [][NextOfCodec]_codecVars /\ WF_codecVars(NextOfCodec)

-----------------------------------------------------------------------------

(* Counts and tags fit in a byte.                                          *)
CodecTypeOK ==
  /\ codec \in {"pairs", "packets"}
  /\ phase \in {"idle", "encode", "decode", "done", "failed"}
  /\ at \in 0..Len(IF phase \in {"idle", "encode"} THEN input ELSE encoded)
  /\ encoded \in Seq(Byte) /\ decoded \in Seq(Byte)
  /\ expected \in Nat /\ stream \in {"whole", "cut", "foreign"}

(* Neither decoder ever answers with bytes other than those encoded: what  *)
(* it writes is a prefix of them, and all of them when it ends well.  With *)
(* a stream that was cut short, only the packet decoder can tell, which    *)
(* knows the size to expect.  And bse::DecompressRle accepts everything    *)
(* bse::CompressRle writes.                                                *)
NeverWrongBytes ==
  stream # "foreign" =>
    /\ IsPrefix(decoded, input)
    /\ phase = "done" /\ (stream = "whole" \/ codec = "packets") => decoded = input
    /\ codec = "pairs" /\ stream = "whole" => phase # "failed"

(* tests/test_main.cpp, compression_test: what compressRle writes,         *)
(* decompressRle reads back.                                               *)
PacketsRoundTrip == codec = "packets" /\ stream = "whole" => phase # "failed"
=============================================================================
