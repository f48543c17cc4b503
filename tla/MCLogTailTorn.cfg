CONSTANTS
  MaxBytes = 4
  MaxClears = 0
  MaxFaults = 0
  MaxEvents = 2
  ChunkSize = 2

SPECIFICATION Spec

INVARIANT SentLinesAreWhole

CHECK_DEADLOCK FALSE
