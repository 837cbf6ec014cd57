SPECIFICATION WalkSpec
CONSTANTS
  Stamps = {0, 1, 4, 8}
  Begins = {0, 3, 6}
  Offsets <- MCOffsets
  MAX_INI_COUNT = 1
  init_map_size = 1
  MaxImu <- MCMaxImu
  MaxPoints = 3
INVARIANTS
  ImuIsThere
  PointsAreMatchedAtTheirTime
  CovarianceKeepsUp
PROPERTIES
  TimeNeverGoesBack
  ReadyScanIsTaken
  OdometryMovesOn
CHECK_DEADLOCK FALSE
