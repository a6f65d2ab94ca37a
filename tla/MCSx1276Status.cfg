SPECIFICATION FairSpec
CONSTANTS
  p1 = p1
  p2 = p2
  None = None
  Packet <- Packets
  FifoSize = 3
  Calls <- AnyTime
  RxModes = {TRUE, FALSE}
  BadCrc = TRUE
  SpiAtomic = TRUE
INVARIANTS
  StatusCurrent
  FlagsAreTold
  AsleepIsIdle
  SentAsAsked
  ReportedAsReceived
PROPERTIES
  InterruptsTold
  TransmissionEnds
CHECK_DEADLOCK FALSE
