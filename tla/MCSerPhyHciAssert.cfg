SPECIFICATION Spec
CONSTANTS
  host = host
  chip = chip
  Node <- Ends
  Peer <- Other
  MaxPackets <- Packets
  After <- ChipLast
  TooLarge = {9}
  MAX_RETRY_COUNT = 2
INVARIANTS
  AssertionsHold
CHECK_DEADLOCK FALSE
