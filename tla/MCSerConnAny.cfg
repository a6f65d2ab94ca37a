SPECIFICATION Spec
CONSTANTS
  c1 = c1
  c2 = c2
  c3 = c3
  c4 = c4
  c5 = c5
  c6 = c6
  c7 = c7
  e1 = e1
  e2 = e2
  big = big
  mute = mute
  long = long
  None = None
  PauseMax = 4
  Cmd <- AnyCmd
  Kind <- AnyKind
  Event <- AnyEvent
  FitsSlot <- SmallEvent
  Encodable <- Supported
  EncodeFails = {long}
  PacedEvents = FALSE
  HwErrors = TRUE
  SlowWire = FALSE
  QueueSize = 2
INVARIANTS
  CommandOwnsBuffer
  CallsLegal
  CommandInWork
  WakeIsNotLost
PROPERTIES
  ImplementsLink
CHECK_DEADLOCK FALSE
