SPECIFICATION FairChainSpec
CONSTANTS
  MaxSpeed = 1000
  MaxSteer = 3500
  Timeout = 1
  Period = 1
  Depth = 1
  Speeds = {0, 500}
  Steers = {0}
  StopTimeThreshold = 1
  AliveModulus = 1
  CanDepth = 2
  DriveRequests = {"AUTONOMOUS", "MANUAL"}
  DriveGears = {"PARK"}
  MaxControls = 1
  MaxRequests = 2
  MaxGears = 1
  MaxStops = 1
  MaxOutages = 1
INVARIANT HaltReachesChassis
PROPERTY ComesToRest
