SPECIFICATION Spec
CONSTANTS
  a = a
  b = b
  Tasks <- MCTasks
  Rank <- MCRank
  DependsOn <- MCIndependent
  Capacity = 1
  Edits = {"in_progress", "completed"}
  MaxEra = 0
PROPERTIES
  PreparationIsIdempotent
