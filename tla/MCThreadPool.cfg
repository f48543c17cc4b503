CONSTANTS
  Task = {k1, k2, k3}
  NoTask = NoTask
  InitCount = 1
  MaxCount = 2

SPECIFICATION FairSpec

INVARIANT TypeOK
INVARIANT NoTaskForgotten
INVARIANT FirstInFirstOut

PROPERTY EveryTaskRuns

CHECK_DEADLOCK FALSE
