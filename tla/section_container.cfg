\* Bytes of three bits: codecs alone on every input of up to nine bytes of two values.
CONSTANTS
  Flag = 4
  Symbols = {0, 5}
  MaxLength = 9
  OlderScenes <- MCOlderScenes
  Damaged <- MCDamaged
  HeaderSize = 5
  RecordSize = 3
  Alignment = 4
  MinSection = 16
  MinGain = 2
  MaximumSection = 80
SPECIFICATION Spec
INVARIANTS ReadAsWritten ContainerReadsBack TraversalAgrees
PROPERTY EveryCallEnds
\* A call that has ended stops.
CHECK_DEADLOCK FALSE
