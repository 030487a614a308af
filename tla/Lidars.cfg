SPECIFICATION Spec
CONSTANTS
  Round = 144
  BlindGap = 12
  FiringRate = 144
  DefaultRps = 1
  SeqRange = 3
  Setups <- MCSetups
  Speeds = {0, 2}
  Blind <- MCBlind
  EndTime = 120
  FirstDifop = 24
  MemsSetups <- MCMemsSetups
  FramePackets = 15
  JumboPackets = 5
  Frames = 4
  MaxRequests = 2
  MaxFlight = 2
  Turn = 74
  Scans = 12
  Block = 3
  Near = 14
  Threshold = 3
  MaxTurns = 4
  FullAngle = 6
  Parts = 40
  Skew = 4
  MaxGap = 7
  MaxTime = 150
INVARIANTS TurnsSplit TimesRight FramesWhole SettingsKept SweepsRight PointsRight StampTrue
PROPERTIES DecodingStarts
CHECK_DEADLOCK FALSE
