SPECIFICATION Spec
CONSTANTS
  CodexStages = {}
  Pulls = {7, 8}
  MaxRevision = 2
  MaxAttempts = 3
  MaxNumber = 1
  MaxOutside = 0
PROPERTIES
  ImplementsSessionBook
