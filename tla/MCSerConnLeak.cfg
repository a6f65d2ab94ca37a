SPECIFICATION Spec
CONSTANTS
  c1 = c1
  c2 = c2
  c3 = c3
  c4 = c4
  c5 = c5
  c6 = c6
  c7 = c7
  e1 = e1
  e2 = e2
  big = big
  mute = mute
  long = long
  None = None
  PauseMax = 4
  Cmd <- GoodCmd
  Kind <- GoodKind
  Event <- GoodEvent
  FitsSlot <- GoodEvent
  Encodable <- GoodEvent
  EncodeFails = {}
  PacedEvents = TRUE
  HwErrors = FALSE
  SlowWire = FALSE
  QueueSize = 2
INVARIANTS
  SchedulerReleased
CHECK_DEADLOCK FALSE
