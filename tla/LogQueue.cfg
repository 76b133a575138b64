SPECIFICATION FairSpec
CONSTANTS
  Producers = {game, module}
  Game = game
  Writers = {w1, w2}
  QSize = 2
  Paths = {daily}
  NoPath = none
  MaxLines = 3
INVARIANTS SingleWriter RingIsFifo EveryLineAccounted
PROPERTIES ImplementsChannel AcceptedIsDisposedOf DrainedWhenJoined ShutdownReturns
CHECK_DEADLOCK FALSE
