SPECIFICATION ChassisSpec
CONSTANTS
  MaxSpeed = 1000
  StopTimeThreshold = 2
  AliveModulus = 16
  CanDepth = 4
  CmdVels <- MCNav2
  TwistCmds <- MCAutoware
  Reports <- MCReports
  Extremes <- MCExtremes
  Levels = {40, 80}
  Curvature <- MCCurvature
  HalfTurn = 90
  MaxDt = 2
  MinSpeed = 5
  Jumps <- MCJumps
  MaxElapsed = 4
  MaxJumps = 2
  Budgets <- MCApart
  RxSize = 2
INVARIANTS CarTypeOK GateClosedByStop ClosedGateHolds PendingFramesConsecutive
  PoseBounded OpenMeansRunning
PROPERTIES ReopensForAReason ReportsFaithful BridgeRecovers JoinReturns
