SPECIFICATION SilenceSpec
CONSTANTS
  MaxSpeed = 1
  MaxSteer = 1
  Timeout = 3
  Period = 2
  Depth = 1
  Speeds = {0, 1}
  Steers = {0}
INVARIANTS SilenceStops
