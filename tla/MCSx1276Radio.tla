--------------------------- MODULE MCSx1276Radio ----------------------------
(* Small instances of Sx1276Radio for TLC. *)
EXTENDS Sx1276Radio
CONSTANTS p1, p2
Packets == {p1, p2}

AnyTime == Call \X RadioState

(* The calls of the host's commands, made by a host that waits for an idle radio: a
   restriction of the run, since no handler of a command looks at State. *)
HostWhenIdle == {"SetSleep"} \X RadioState \cup {"Send", "SetRx"} \X {"RF_IDLE"}
=============================================================================
