SPECIFICATION FairSpec
CONSTANTS
  p1 = p1
  p2 = p2
  large = large
  None = None
  Packet <- AllPackets
  Size <- Sizes
  UINT16_MAX = 65535
  BufferSize = 2
  RxdDepth = 6
  Announced <- NoLength
  FreedInTime = TRUE
  DropsFatal = FALSE
INVARIANTS
  FramesInStep
PROPERTIES
  ImplementsPipe
  EveryPacketArrives
