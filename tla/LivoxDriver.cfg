SPECIFICATION DriverSpec
CONSTANTS
  livox = livox
  hap = hap
  stranger = stranger
  Nobody = Nobody
  Handles <- MCHandles
  JsonFiles <- MCJsonFiles
  MaxDevices = 2
  MaxRounds <- MCRounds
  Place <- MCPlace
  MaxImu <- MCImu
  Shutdown <- MCShutdown
INVARIANTS
  SamplingIsConfigured
  TopicIsOwn
PROPERTIES
  AskedLidarSamples
  ImuIsPublished
CHECK_DEADLOCK FALSE
