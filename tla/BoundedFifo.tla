----------------------------- MODULE BoundedFifo -----------------------------
(***************************************************************************)
(* What the application scheduler promises its clients: the events that    *)
(* were accepted are handed to the main loop one at a time, in the order   *)
(* in which they were accepted, each exactly once and with the contents it *)
(* was accepted with.  An event is refused only when it does not fit an    *)
(* entry of the queue, or when Capacity events are already waiting.        *)
(* AppScheduler implements this specification with a ring of entries that  *)
(* interrupt handlers fill while the main loop empties it.                 *)
(***************************************************************************)
EXTENDS Naturals, Sequences

CONSTANTS
  Event,      (* the events that can be put in the queue                   *)
  Oversized,  (* those whose data is larger than an entry of the queue     *)
  Capacity    (* how many events may wait                                  *)

VARIABLES
  queue,      (* accepted events that no handler has been given yet        *)
  serving,    (* <<e>> while e's handler is being run, otherwise <<>>      *)
  verdict     (* what the last put to be decided was told                  *)

vars == <<queue, serving, verdict>>

Verdict == {"NRF_SUCCESS", "NRF_ERROR_NO_MEM", "NRF_ERROR_INVALID_LENGTH"}

TypeOK ==
  /\ queue \in Seq(Event \ Oversized) /\ Len(queue) <= Capacity
  /\ serving \in {<<>>} \cup {<<e>> : e \in Event \ Oversized}
  /\ verdict \in Verdict

Init == queue = <<>> /\ serving = <<>> /\ verdict = "NRF_SUCCESS"

Accept(e) ==
  /\ e \notin Oversized
  /\ Len(queue) < Capacity
  /\ queue' = Append(queue, e)
  /\ verdict' = "NRF_SUCCESS"
  /\ UNCHANGED serving

RefuseFull ==
  /\ Len(queue) = Capacity
  /\ verdict' = "NRF_ERROR_NO_MEM"
  /\ UNCHANGED <<queue, serving>>

RefuseOversized(e) ==
  /\ e \in Oversized
  /\ verdict' = "NRF_ERROR_INVALID_LENGTH"
  /\ UNCHANGED <<queue, serving>>

Serve ==
  /\ serving = <<>> /\ queue # <<>>
  /\ serving' = <<Head(queue)>>
  /\ queue' = Tail(queue)
  /\ UNCHANGED verdict

Finish ==
  /\ serving # <<>>
  /\ serving' = <<>>
  /\ UNCHANGED <<queue, verdict>>

Next ==
  \/ \E e \in Event : Accept(e) \/ RefuseOversized(e)
  \/ RefuseFull
  \/ Serve
  \/ Finish

Spec == Init /\ [][Next]_vars
=============================================================================
