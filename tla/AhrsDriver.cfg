SPECIFICATION SerialSpec
CONSTANTS
  Modulus = 3
  GroundLength = 1
  Sent <- AllSent
  Setups <- MCSetups
  Length <- Lengths
  Noise <- NoiseBytes
  Types <- Parsed
  AnchorTypes <- Anchoring
  MaxLost = 5
  MaxWrong = 2
INVARIANTS MessageIsSent FaultsCostFrames LossExact
PROPERTY FramesComeAgain
