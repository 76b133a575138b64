SPECIFICATION Spec
CONSTANTS
  Cvars = {a, b}
  Default = 2
  Values = {0, 2, 4}
  Bounds = {1, 2, 4}
  Printed <- SomePrinted
  Managed = {a}
  Variables = {x}
  MaxHooks = 2
  MaxDepth = 2
INVARIANTS HooksHearLatest VariablesMirror
PROPERTY BoundsHold
CHECK_DEADLOCK FALSE
