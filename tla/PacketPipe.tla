----------------------------- MODULE PacketPipe -----------------------------
(***************************************************************************)
(* What the serial link promises in one direction: packets arrive whole,   *)
(* once, and in the order they were sent.  The only ones that do not reach *)
(* the receiver's upper layer are those larger than its buffer.            *)
(***************************************************************************)
EXTENDS Sequences

CONSTANTS Packet, Fitting, None

VARIABLES
  pipe,     (* packets sent and not yet received *)
  got       (* the last packet received          *)

Init == pipe = <<>> /\ got = None

Send(p) == pipe' = Append(pipe, p) /\ UNCHANGED got

Deliver ==
  /\ pipe # <<>> /\ Head(pipe) \in Fitting
  /\ got' = Head(pipe) /\ pipe' = Tail(pipe)

Discard ==
  /\ pipe # <<>> /\ Head(pipe) \notin Fitting
  /\ pipe' = Tail(pipe) /\ UNCHANGED got

Next == Deliver \/ Discard \/ \E p \in Packet : Send(p)

Step == [Next]_<<pipe, got>>

Spec == Init /\ [][Next]_<<pipe, got>>
=============================================================================
