SPECIFICATION CalmSpec
CONSTANTS
  a = a
  b = b
  Tasks <- MCTasks
  Rank <- MCRank
  DependsOn <- MCChain
  Capacity = 2
  Edits = {"in_progress", "completed"}
  MaxEra = 0
PROPERTIES
  ClaimsAreReady
  ReservationsGetPrepared
  CompletionsAreRetired
