SPECIFICATION Spec
CONSTANTS
  Positions = {0, 1, 2}
  Paths <- MCPaths
  goal_dist_tolerance = 0
  prune_ahead_dist = 0
  Horizon = 2
  MaxPaths = 2
  QueueSize = 1
  Starts = {0, 2}
  Basin = 1
  None = None
  MaxEvents = 1
INVARIANTS
  IndexInPath
  StopsForGood
PROPERTIES
  SuccessNearGoal
  PathEnds
  Relocalizes
CHECK_DEADLOCK FALSE
