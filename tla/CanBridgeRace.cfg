SPECIFICATION FairBridgeSpec
CONSTANTS
  Budgets <- MCRace
  RxSize = 2
INVARIANTS OpenMeansRunning
