-------------------------- MODULE SerConnRefinement --------------------------
(***************************************************************************)
(* Proof that SerConn implements CommandLink: the promises the chip makes  *)
(* to the host hold for every set of commands and events, every queue size *)
(* and every timing of the wire.                                           *)
(***************************************************************************)
EXTENDS SerConnProofs

(* The refinement mapping, a name for each variable of CommandLink. *)
cmdBar == IF wire = "header" THEN None ELSE outstanding
gateBar == pc = "sched_get"
sendingBar == IF pc \in {"evt_alloc", "evt_send"} THEN <<cur>>
              ELSE IF txState = "TRANSMITTING" /\ txFrame[1] = "evt"
                   THEN <<txFrame[2]>> ELSE <<>>

Still == UNCHANGED <<cmdBar, queue, gateBar, sendingBar, out>>

LEMMA InitLink == Init => Link!Init
  BY DEF Init, ser_hal_transport_opened, Link!Init

(* The steps CommandLink does not see. *)
LEMMA StillStep == Still => UNCHANGED Link!vars
  BY DEF Still, Link!vars, cmdBar, gateBar, sendingBar

LEMMA StepLink == IInv /\ [Next]_vars => [Link!Next]_(Link!vars)
<1> SUFFICES ASSUME IInv, [Next]_vars PROVE Link!Next \/ Still
    BY StillStep
<1> USE Tables, ConnAssumption
    DEF IInv, Alive, Fail, mainVars, hostVars, Still, cmdBar, gateBar, sendingBar
<1>1. CASE SchedCheck
  <2>1. CASE paused = 0
    <3>1. Link!OpenGate
      <4>1. txState = "IDLE" /\ ~CommandInChip
        BY <1>1, <2>1, NothingUnderway DEF SchedCheck
      <4> QED BY <1>1, <2>1, <4>1 DEF SchedCheck, Link!OpenGate, CommandInChip
    <3> QED BY <3>1 DEF Link!Next
  <2>2. CASE paused # 0
    BY <1>1, <2>2 DEF SchedCheck
  <2> QED BY <2>1, <2>2
<1>2. CASE SchedGet
  <2>1. CASE queue = <<>>
    <3>1. Link!CloseGate
      BY <1>2, <2>1 DEF SchedGet, Link!CloseGate, TxInv
    <3> QED BY <3>1 DEF Link!Next
  <2>2. CASE queue # <<>>
    <3>1. Link!Take
      BY <1>2, <2>2 DEF SchedGet, Link!Take
    <3> QED BY <3>1 DEF Link!Next
  <2> QED BY <2>1, <2>2
<1>3. CASE EvtAlloc
  BY <1>3 DEF EvtAlloc
<1>4. CASE EvtSend
  BY <1>4 DEF EvtSend
<1>5. CASE EvtPause
  BY <1>5 DEF EvtPause
<1>6. CASE RxCheck
  BY <1>6 DEF RxCheck
<1>7. CASE CmdAlloc
  BY <1>7 DEF CmdAlloc
<1>8. CASE CmdSend
  BY <1>8 DEF CmdSend
<1>9. CASE RxFree
  BY <1>9 DEF RxFree
<1>10. CASE Idle
  BY <1>10 DEF Idle
<1>11. CASE SystemReset
  <2>1. Link!Restart
    BY <1>11 DEF SystemReset, Link!Restart
  <2> QED BY <2>1 DEF Link!Next
<1>12. CASE RxBufRequest
  <2>1. outstanding \in Cmd
    BY <1>12 DEF RxBufRequest, RxInv
  <2>2. Link!Submit(outstanding)
    BY <1>12 DEF RxBufRequest, Link!Submit
  <2> QED BY <2>1, <2>2 DEF Link!Next
<1>13. CASE RxPktReceived
  BY <1>13 DEF RxPktReceived
<1>14. CASE RxPktDropped \/ RxByteLost \/ PhyError
  BY <1>14 DEF RxPktDropped, RxByteLost, PhyError
<1>15. CASE TxPktSentEvent
  <2>1. CASE txFrame[1] = "resp"
    <3>1. Link!Respond
      BY <1>15, <2>1, FrameKinds
         DEF TxPktSentEvent, ser_hal_transport_close, Link!Respond, TxInv, OnWire, TypeOK
    <3> QED BY <3>1 DEF Link!Next
  <2>2. CASE txFrame[1] = "evt"
    <3>1. Link!Deliver
      BY <1>15, <2>2, FrameKinds
         DEF TxPktSentEvent, ser_hal_transport_close, Link!Deliver, TxInv, RxInv, OnWire,
             TypeOK
    <3> QED BY <3>1 DEF Link!Next
  <2> QED BY <1>15, <2>1, <2>2, FrameKinds DEF TxPktSentEvent, TxInv, TypeOK
<1>16. ASSUME NEW c \in Cmd, HostSend(c) PROVE Still
  BY <1>16 DEF HostSend, RxInv
<1>17. ASSUME NEW e \in Event, BleEvent(e) PROVE Link!Next \/ Still
  <2>1. CASE queue' = Append(queue, e)
    <3>1. Link!Raise(e)
      BY <1>17, <2>1 DEF BleEvent, Link!Raise
    <3> QED BY <3>1 DEF Link!Next
  <2>2. CASE UNCHANGED queue
    BY <1>17, <2>2 DEF BleEvent
  <2> QED BY <1>17, <2>1, <2>2 DEF BleEvent
<1>18. CASE UNCHANGED vars
  BY <1>18 DEF vars
<1> QED BY <1>1, <1>2, <1>3, <1>4, <1>5, <1>6, <1>7, <1>8, <1>9, <1>10, <1>11, <1>12,
           <1>13, <1>14, <1>15, <1>16, <1>17, <1>18 DEF Next, MainStep, WireStep

(* The chip keeps its promises to the host. *)
THEOREM LinkImplemented == Spec => ImplementsLink
  BY InitLink, StepLink, ConnInvariant, PTL DEF Spec, ImplementsLink, Link!Spec
=============================================================================
