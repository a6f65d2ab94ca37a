SPECIFICATION Spec
CONSTANTS
  m1 = m1
  m2 = m2
  m3 = m3
  a1 = a1
  r1 = r1
  None = None
  Message = {m1, m2, m3}
  Reply = {a1, r1}
  ReadData = {r1}
  Length <- MCLength
  Answer <- MCAnswer
  Fragment = 2
  MaxConnections = 2
  IrqEvents = FALSE
  PasswdSet = TRUE
  EarlyReconnect = FALSE
INVARIANTS
  MessagesWhole
  AnswersWhole
  NothingStuck
PROPERTIES
  TransfersEnd
CHECK_DEADLOCK FALSE
