SPECIFICATION Spec
CONSTANTS
  d1 = d1
  d2 = d2
  Ids = {d1, d2}
  Kinds <- AllTimed
  Bases = {1}
  Repeats = {2}
  MaxTasks = 3
  MaxDepth = 2
  MaxLag = 0
  ClearInFrame = "any"
  NoId = none
INVARIANT CalleeExists
