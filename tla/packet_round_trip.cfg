\* The same inputs, for the packet codec's own round trip.
CONSTANTS
  Flag = 4
  Symbols = {0, 5}
  MaxLength = 9
SPECIFICATION CodecSpec
INVARIANT PacketsRoundTrip
\* A codec that has finished stops.
CHECK_DEADLOCK FALSE
