SPECIFICATION CallSpec
CONSTANTS
  Holders = {h1, h2, h3}
  Keys = {k1, k2, k3}
  Missing = {k3}
  MaxSlots = 2
  MaxDepth = 3
  None = none
  Forwards = {f}
  Functions <- TwoPlugins
  Arrays = {a, b}
  MaxArrays = 2
  MaxReady = 1
SYMMETRY Symmetry
INVARIANTS HandlesDenote RegistryExact ArraysAreOwn
PROPERTY ImplementsTable
