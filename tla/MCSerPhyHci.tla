---------------------------- MODULE MCSerPhyHci ----------------------------
(* A small instance of SerPhyHci for TLC: the host sends more packets than
   there are sequence numbers, the chip one when they have come round. *)
EXTENDS SerPhyHci, TLC
CONSTANTS host, chip

Ends == {host, chip}
Other == host :> chip @@ chip :> host
Packets == host :> 9 @@ chip :> 1
ChipLast == host :> 0 @@ chip :> 8
=============================================================================
