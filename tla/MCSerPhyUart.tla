---------------------------- MODULE MCSerPhyUart ----------------------------
(* Small instances of SerPhyUart for TLC. *)
EXTENDS SerPhyUart, TLC
CONSTANTS p1, p2, large

(* Packets of one and two bytes, and one that is larger than the buffer. *)
AllPackets == {p1, p2, large}
Sizes == p1 :> 1 @@ p2 :> 2 @@ large :> 3

(* A garbled header may announce no payload, one that fits, one too large, or
   one whose frame is longer than a uint16_t can tell. *)
AnyLength == {0, 2, 3, UINT16_MAX}
NoLength == {}
=============================================================================
