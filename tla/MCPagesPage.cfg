CONSTANTS
  MaxLine = 3
  MaxUiOps = 3
  Filter <- MCFilter
  NoFilter = ""
  Kept <- MCKept
  Word <- MCWord
  Rules <- OneRule

SPECIFICATION PageSpec

INVARIANT TypeOK
INVARIANT PageAgrees
INVARIANT EndsOnlyWhenMet
INVARIANT NothingThrownAway
PROPERTY WindowCatchesUp

CHECK_DEADLOCK FALSE
