SPECIFICATION Spec
CONSTANTS
  LidarCount = 2
  Capacity = 2
  MaxPackets = 3
  StoreBuffered = {1}
INVARIANTS
  NoLostWakeup
PROPERTIES
  EveryPromisedPacketPublished
  PublishedAfterNextPush
  ExitWithTokenJoins
CHECK_DEADLOCK FALSE
