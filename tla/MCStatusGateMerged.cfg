SPECIFICATION SmoothSpec
CONSTANTS
  p1 = p1
  p2 = p2
  t1 = t1
  t2 = t2
  Pulls <- MCPulls
  Tasks <- MCTasks
  Named <- MCNamed
  Forks = {p2}
  Exempt = {}
  MaxMain = 3
  MaxPushes = 1

PROPERTIES MergedMeansCompleted
CHECK_DEADLOCK FALSE
