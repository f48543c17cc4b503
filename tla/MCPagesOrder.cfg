CONSTANTS
  MaxLine = 3
  MaxUiOps = 0
  Filter <- MCFilter
  NoFilter = ""
  Kept <- MCKept
  Word <- MCWord
  Rules <- AnyOrder

SPECIFICATION RulesSpec

INVARIANT OrderIsFree

CHECK_DEADLOCK FALSE
