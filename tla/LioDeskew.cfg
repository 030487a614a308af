SPECIFICATION ProjectionSpec
CONSTANTS
  Margin = 2
  ImuPeriod = 2
  ScanTime = 4
  StampedAt = 4
  OdomGaps = {2, 6}
  MaxStamp = 14
  MaxScans = 4
INVARIANT Deskewed
CHECK_DEADLOCK FALSE
