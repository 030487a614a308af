SPECIFICATION FairSpec
CONSTANTS
  MaxSpeed = 1
  MaxSteer = 1
  Timeout = 3
  Period = 2
  Depth = 1
  Speeds <- MCSpeeds
  Steers <- MCSteers
INVARIANTS TypeOK ManualStandsStill WatchdogBound
PROPERTIES KeepsWatchdog ModeTracked
