SPECIFICATION AhrsSpec
CONSTANTS
  Modulus = 2
  GroundLength = 1
  Sent <- AllSent
  Setups <- JustImuAndAhrs
  Length <- Lengths
  Noise <- NoiseBytes
INVARIANT BorrowedIsVerified
