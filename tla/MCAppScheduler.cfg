SPECIFICATION FairSpec
CONSTANTS
  QueueSize = 3
  MaxLevel = 2
  PauseMax = 2
  e1 = e1
  e2 = e2
  big = big
  Event <- MCEvent
  Oversized <- MCOversized
  NoEvent = NoEvent
INVARIANTS
  HandlerSeesItsEvent
PROPERTIES
  ImplementsFifo
  HeadIsServed
