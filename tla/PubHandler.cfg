SPECIFICATION HandlerSpec
CONSTANTS
  TimeTypes <- MCTimeTypes
  Ms = 5
  publish_interval_ms = 2
  Dots = 2
  point_interval = 1
  Gaps = {1, 2, 3}
  HostSteps = {0, 11}
  Loads <- MCLoads
  MaxQueue = 1
  MaxNow = 11
INVARIANTS
  EveryPointOnce
PROPERTIES
  FrameIsOneInterval
  JoinReturns
CHECK_DEADLOCK FALSE
