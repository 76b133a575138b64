SPECIFICATION Spec
CONSTANTS
  Slots = {s1}
  Stuck = 2
  MaxTime = 3
INVARIANT ConnectIsPaired
