SPECIFICATION Spec
CONSTANTS
  QCap = 1
  Settings = {1, 2, 7}
  Modes = {TRUE, FALSE}
  Faults = {"spawn", "create", "append", "retry", "writer"}
  MaxCalls = 4
  MaxMaps = 2
  MaxCrashes = 1
INVARIANTS FileOrder OneSessionPerFile ErrorsHaveHeader NothingLostSilently
CHECK_DEADLOCK FALSE
