SPECIFICATION LioSamSpec
\* A scan is as long as two IMU messages are apart, and stamped at its start.
CONSTANTS
  Margin = 2
  ImuPeriod = 2
  ScanTime = 4
  StampedAt = 0
  OdomGaps = {2, 6}
  MaxStamp = 16
  MaxScans = 4
\* The graph is begun anew at every third key.
CONSTANTS
  Period = 5
  DefaultStep = 1
  LastKey = 3
  MinLatency = 2
  MaxLatency = 3
  MaxDelay = 1
  MaxTime = 8
CONSTANTS
  Reach = 1
  Sectors = 2
  MostCorners = 2
  ArraySize = 11
  Clouds <- FewClouds
  MaxFeatured = 2
\* Clouds at the mapping's pace or too early; a loop after three of them.
CONSTANTS
  Steps = {0, 1}
  Gaps = {1, 2}
  mappingProcessInterval = 2
  SearchRadius = 2
  RecentTime = 3
  TimeDiff = 2
  CacheSize = 2
  Shifts = {1}
  MaxClouds = 4
  MaxLoopInfo = 1
  MaxTroubles = 1
  NoPose = NoPose
INVARIANTS Deskewed OdometryExact CornersApart
  MapOfOneSolution LoopFactorsTrue IncrementalTrue
CHECK_DEADLOCK FALSE
