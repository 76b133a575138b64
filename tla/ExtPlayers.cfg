SPECIFICATION Spec
CONSTANTS
  Slots = {s1, s2}
  Stuck = 2
  MaxTime = 4
SYMMETRY Symmetry
INVARIANTS PlayersCounted HeardMatchesSession NobodyForgotten LifecyclePaired
PROPERTY FlagIsWatched
