SPECIFICATION FairSpec
CONSTANTS
  c1 = c1
  answer = answer
  reset = reset
  off = off
  None = None
  Cmd = {c1, answer, reset, off}
  Kind <- MCKind
  Op <- MCOp
  MaxEvents = 3
  Reply <- MCReply
  MailboxSize = 2
  IrqEvents = FALSE
  MaxErrors = 1
INVARIANTS OwnAnswer EventsWillBePulled WaitWillEnd
PROPERTIES MailboxIsFifo CallsReturn
CHECK_DEADLOCK FALSE
