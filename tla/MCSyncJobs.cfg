SPECIFICATION FairSpec
CONSTANTS
  Retained = 2
  MaxIssued = 3
  MaxRevision = 2
  ThreadsMayFail = TRUE
INVARIANTS
  TypeOK
  AtMostOneRunning
  RunnerKeepsItsEntry
  SuccessCoversRequests
PROPERTIES
  OutcomeIsFinal
  RequestsAreServed
  ImplementsSyncQueue
