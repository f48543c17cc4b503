CONSTANTS
  MaxBytes = 3
  MaxClears = 2
  MaxFaults = 1
  MaxEvents = 2
  ChunkSize = 2

SPECIFICATION FairSpec

INVARIANT TypeOK
INVARIANT SentIsTheFile
INVARIANT NoStaleEntry

PROPERTY CatchesUp

CHECK_DEADLOCK FALSE
