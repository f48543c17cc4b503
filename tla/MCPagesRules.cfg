CONSTANTS
  MaxLine = 3
  MaxUiOps = 0
  Filter <- MCFilter
  NoFilter = ""
  Kept <- MCKept
  Word <- MCWord
  Rules <- AllRules

SPECIFICATION RulesSpec

INVARIANT ScriptTypes
INVARIANT BracketsHandled
INVARIANT KeepsWhatItMeans

CHECK_DEADLOCK FALSE
