SPECIFICATION FairSpec
CONSTANTS
  Tasks = {t1, t2}
  MaxPulls = 2
  Again = {t1}
  MaxDeaths = 1
INVARIANTS
  TypeOK
  RecordsAreTrue
PROPERTIES
  RecordsFollow
