SPECIFICATION Spec
CONSTANTS
  Axes = {"x", "y"}
  cube_len = 56
  DET_RANGE = 12
  filter_size_map_min = 4
  NUM_MATCH_POINTS = 2
  MatchDist2 = 40
  Landmarks <- RevisitLandmarks
  Places <- RevisitPlaces
  Corrections <- MCCorrections
  Step = 6
PROPERTIES
  LocalPointsStay
CHECK_DEADLOCK FALSE
