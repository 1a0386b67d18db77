SPECIFICATION Spec
CONSTANTS
  Task = task
  Pulls = {p1}
  Works = {w1}
  MaxMain = 3
  MaxLine = 4
INVARIANTS
  TypeOK
  OwnRebaseReadable
PROPERTIES
  NoWorkDropped
  WholeRebases
