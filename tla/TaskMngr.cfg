SPECIFICATION FairSpec
CONSTANTS
  d1 = d1
  d2 = d2
  Ids = {d1, d2}
  Kinds <- TimedAndEnd
  Bases = {1}
  Repeats = {0, 2}
  MaxTasks = 3
  MaxDepth = 3
  MaxLag = 0
  ClearInFrame = "unnested"
  NoId = none
INVARIANTS CountersExact BookedTasksKept RepeatsExact CalleeExists ExecutingOnce
PROPERTY DueTaskRuns
