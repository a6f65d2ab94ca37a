SPECIFICATION FairSpec
CONSTANTS
  host = host
  chip = chip
  Node <- Ends
  Peer <- Other
  MaxPackets <- Packets
  After <- ChipLast
  TooLarge = {9}
  MAX_RETRY_COUNT = 2
INVARIANTS
  SentIsAccepted
  BigBufferFreed
  RequestInWork
PROPERTIES
  ImplementsPipes
  EveryRequestAnswered
CHECK_DEADLOCK FALSE
