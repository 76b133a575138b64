SPECIFICATION VaultSpec
CONSTANTS
  Keys = {k1, k2}
  Values = {v1}
  Misread <- OutOfFrame
  MaxTime = 2
  MaxRecords = 2
  MaxFaults = 2
SYMMETRY Symmetry
INVARIANTS JournalCoversSession
PROPERTY RecoversAState
