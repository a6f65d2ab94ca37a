SPECIFICATION Spec
CONSTANTS
  p1 = p1
  p2 = p2
  large = large
  None = None
  Packet <- AllPackets
  Size <- Sizes
  UINT16_MAX = 65535
  BufferSize = 2
  RxdDepth = 3
  Announced <- AnyLength
  FreedInTime = FALSE
  DropsFatal = TRUE
INVARIANTS
  TypeOK
  StreamAgrees
  PacketUntouched
CHECK_DEADLOCK FALSE
