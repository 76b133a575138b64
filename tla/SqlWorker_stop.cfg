SPECIFICATION FairSpec
CONSTANTS
  MaxQueries = 1
  MaxLives = 1
  NoQuery = none
PROPERTY StopReturns
CHECK_DEADLOCK FALSE
