SPECIFICATION MCSpec
CONSTANTS
  Dir <- MCDir
  Strip <- MCStrip
  FileName = {"f"}
  MaxDirs = 2
  MaxDeletes = 1
  MaxChanges = 2
  MaxRead = 2
  MaxBytes = 3
  MaxClears = 1
  MaxAdds = 2
  MaxFails = 1
  ChunkSize = 1
INVARIANT BothTypeOK
INVARIANT ToldIsTrue
INVARIANT BlindSpots
INVARIANT NoGap
PROPERTY ChangeTold
PROPERTY LocalCatchesUp
CHECK_DEADLOCK FALSE
