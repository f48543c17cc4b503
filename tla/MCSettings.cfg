SPECIFICATION MCSpec
CONSTANTS
  Path <- MCPath
  Folder <- MCFolder
  Inside <- MCInside
  Above <- MCAbove
  Pieces <- MCPieces
  MaxStarts = 2
  MaxCalls = 3
  MaxScans = 2
  Str = {"", "a", "b"}
  MaxChanges = 3
INVARIANT SettingsTypeOK
INVARIANT MonitorAgrees
INVARIANT DatabaseKeepsUp
INVARIANT HistoryKept
CHECK_DEADLOCK FALSE
