----------------------------- MODULE CommandLink -----------------------------
(***************************************************************************)
(* What the connectivity chip promises the host over the serial link.      *)
(*                                                                         *)
(*   - a command is answered at most once, by its own response;            *)
(*   - the events the SoftDevice raised reach the host in the order they   *)
(*     were raised, each at most once;                                     *)
(*   - a response has priority over events: once the chip has begun to     *)
(*     receive a command, at most one event is sent before the response.   *)
(*                                                                         *)
(* The last promise is the gate: it is opened only while no command is     *)
(* being received or processed and no event is on its way, and one event   *)
(* passes through it each time.  SerConn implements this specification.    *)
(***************************************************************************)
EXTENDS Sequences

CONSTANTS Cmd, Event, None

VARIABLES
  cmd,       (* the command the chip has begun to receive, or None          *)
  queue,     (* events raised and not yet taken from the queue              *)
  gateOpen,  (* an event may be taken from the queue                        *)
  sending,   (* <<e>> while event e is prepared or transmitted              *)
  out        (* the last frame the host received                            *)

vars == <<cmd, queue, gateOpen, sending, out>>

Init ==
  /\ cmd = None /\ queue = <<>> /\ gateOpen = FALSE /\ sending = <<>>
  /\ out = <<"none">>

Submit(c) ==
  /\ cmd = None
  /\ cmd' = c
  /\ UNCHANGED <<queue, gateOpen, sending, out>>

Respond ==
  /\ cmd # None
  /\ out' = <<"resp", cmd>>
  /\ cmd' = None
  /\ UNCHANGED <<queue, gateOpen, sending>>

Raise(e) ==
  /\ queue' = Append(queue, e)
  /\ UNCHANGED <<cmd, gateOpen, sending, out>>

OpenGate ==
  /\ cmd = None /\ sending = <<>>
  /\ gateOpen' = TRUE
  /\ UNCHANGED <<cmd, queue, sending, out>>

CloseGate ==
  /\ gateOpen' = FALSE
  /\ UNCHANGED <<cmd, queue, sending, out>>

Take ==
  /\ gateOpen /\ queue # <<>>
  /\ sending' = <<Head(queue)>>
  /\ queue' = Tail(queue)
  /\ gateOpen' = FALSE
  /\ UNCHANGED <<cmd, out>>

Deliver ==
  /\ sending # <<>>
  /\ out' = <<"evt", sending[1]>>
  /\ sending' = <<>>
  /\ UNCHANGED <<cmd, queue, gateOpen>>

(* A reset loses the command that asked for it and every event. *)
Restart ==
  /\ cmd' = None /\ queue' = <<>> /\ gateOpen' = FALSE /\ sending' = <<>>
  /\ UNCHANGED out

Next ==
  \/ \E c \in Cmd : Submit(c)
  \/ \E e \in Event : Raise(e)
  \/ Respond \/ OpenGate \/ CloseGate \/ Take \/ Deliver \/ Restart

Spec == Init /\ [][Next]_vars
=============================================================================
