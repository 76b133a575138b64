SPECIFICATION FairSpec
CONSTANTS
  MaxQueries = 5
  MaxLives = 3
  NoQuery = none
INVARIANTS ObjectsInOnePlace AnsweredOnce NothingOutlivesPlugins
PROPERTY QueriesAnswered
CHECK_DEADLOCK FALSE
