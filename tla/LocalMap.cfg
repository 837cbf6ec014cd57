SPECIFICATION Spec
CONSTANTS
  Axes = {"x", "y"}
  cube_len = 56
  DET_RANGE = 12
  filter_size_map_min = 4
  NUM_MATCH_POINTS = 2
  MatchDist2 = 40
  Landmarks <- MCLandmarks
  Places <- MCPlaces
  Corrections <- MCCorrections
  Step = 6
INVARIANTS
  LidarIsInside
  MapIsLocal
  SeenIsMapped
CHECK_DEADLOCK FALSE
