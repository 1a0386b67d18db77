SPECIFICATION FairSpec
CONSTANTS
  Threads = {t1, t2}
  None = None
  Lifetime = 5
  Margin = 2
  UnknownExpiry = 3
  Timeout = 2
  MaxInstalled = 3
INVARIANTS
  TypeOK
  TokenOutlivesCommand
  MintsAreShared
PROPERTIES
  MissingIsTrue
  MintsEnd
