SPECIFICATION Spec
CONSTANTS
  Retained = 2
  MaxIssued = 3
  MaxRevision = 3
  ThreadsMayFail = TRUE
INVARIANTS
  FreshPassForEveryRequest
