\* A buffer of four bytes: frames of up to three, runs that fill it exactly and
\* runs more than twice as long, before and after frames that fit.
CONSTANTS
  N = 4
  Byte = {0, 1, 2}
  MaxStream = 9
SPECIFICATION Spec
INVARIANTS FramingTypeOK RoomToRead OnlyTailKept
PROPERTIES ImplementsFrameReader
CHECK_DEADLOCK FALSE
