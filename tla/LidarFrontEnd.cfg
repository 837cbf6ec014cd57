SPECIFICATION FrontEndSpec
CONSTANTS
  Ms = 3
  Step = 1
  point_filter_num = 1
  Wide = 32
  Gaps <- MCGaps
  Positions = {0, 1, 2}
  Tags = {TRUE, FALSE}
  MaxPoints = 5
  Rings = {r1, r2}
  Half = 2
  Steps <- MCSteps
  MaxFired = 4
  cut_frame_time_interval = 1
  con_frame_num = 2
  Stamps = {0, 20}
  Messages <- MCMessages
  MaxScans = 3
INVARIANTS
  CurvatureIsTime
  RingTimeIsTurned
  PointsKeepTheirTime
  NoPointLost
CHECK_DEADLOCK FALSE
