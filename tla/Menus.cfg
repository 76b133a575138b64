SPECIFICATION Spec
CONSTANTS
  Players = {p1, p2}
  MaxIds = 2
  MaxMade = 3
  Turning = {2, 3}
  Asking = {3}
  MaxItems = 3
  PerPage = 1
  MaxLoops = 2
  MaxDepth = 2
  Shapes <- SmallMenus
  Nobody = nobody
SYMMETRY Symmetry
VIEW View
INVARIANTS HandlerToldOnce IdsDenote KeysKeepMeaning PagesAreHonest
CHECK_DEADLOCK FALSE
