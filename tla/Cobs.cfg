\* Full blocks of two bytes; sources of up to seven bytes pass three of them.
\* Destinations are missing, too small by one or more, or larger than needed.
CONSTANTS
  MaxCode = 3
  Capacities = {0, 1, 2, 3, 5, 7, 9, 11, 12, 13, 14}
  MaxSource = 7
SPECIFICATION Spec
INVARIANTS CodecTypeOK RoomSuffices BodyHasNoZero RoundTrip DecodeAgrees
CHECK_DEADLOCK FALSE
