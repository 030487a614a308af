SPECIFICATION Spec
CONSTANTS
  Vlen = 2
  PacketBatch = 2
  MaxPackets = 3
  MaxShort = 1
  Capacity = 4
  Batch = 2
  MaxPush = 8
  Fragments = 3
  Ids = 4
  MaxDatagrams = 2
  MaxOthers = 2
INVARIANTS BuffersAccounted InOrder DatagramsRight
PROPERTIES HandsOver ThreadsServe
CHECK_DEADLOCK FALSE
