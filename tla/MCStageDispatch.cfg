SPECIFICATION FairSpec
CONSTANTS
  CodexStages = {"implement"}
  Pulls = {}
  MaxRevision = 2
  MaxAttempts = 3
  MaxNumber = 4
  MaxOutside = 2
INVARIANTS
  TypeOK
  OnlyNewestStands
  SessionsAreRecorded
  OwnBranch
  ReleasedLeavesNothing
PROPERTIES
  SendingEnds
  ImplementsSessionBook
