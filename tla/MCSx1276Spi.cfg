SPECIFICATION Spec
CONSTANTS
  p1 = p1
  p2 = p2
  None = None
  Packet <- Packets
  FifoSize = 3
  Calls <- HostWhenIdle
  RxModes = {TRUE}
  BadCrc = FALSE
  SpiAtomic = FALSE
INVARIANTS
  StatusCurrent
CHECK_DEADLOCK FALSE
