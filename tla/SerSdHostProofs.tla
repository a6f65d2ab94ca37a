--------------------------- MODULE SerSdHostProofs ---------------------------
(***************************************************************************)
(* Proofs about SerSdHost, for all calls and events, every size of the     *)
(* mailbox and every number of errors.                                     *)
(***************************************************************************)
EXTENDS SerSdHost, SequenceTheorems, TLAPS

(* Where each context is, and the call it makes. *)
ContextInv ==
  /\ IF IrqEvents THEN scheduled = 0 /\ pc["main"] \notin {"drain", "handle"}
                  ELSE pc["irq"] = "idle"
  /\ \A c \in Context :
       /\ pc[c] \in {"alloc", "write", "send", "clear", "wait"} <=> call[c] # None
       /\ pc[c] = "wait" => Kind[call[c]] = "call"
  /\ pc[EventContext] \in {"idle", "drain"} => handling = None
  /\ pc[EventContext] = "handle" => handling # None
  /\ txState = "TRANSMITTING" => txCmd # None

(* The ring: its indices are len apart, and what lies between them are events. *)
RingInv ==
  /\ w_idx = IF r_idx + len < MailboxSize THEN r_idx + len ELSE r_idx + len - MailboxSize
  /\ \A i \in 1..len : mbox[Slot(i)] \in Event

(* Where the call that main waits for may be: in the host's buffer, on its way to
   the chip, in the chip, or on its way back as a response. *)
IsCall(c) == c \in Cmd /\ Kind[c] = "call"
InBuffer == txState = "TRANSMITTING" /\ IsCall(txCmd)
OnWayTo == \E i \in 1..Len(toChip) : IsCall(toChip[i])
OnWayBack == \E i \in 1..Len(toHost) : toHost[i][1] = "resp"

Awaiting == pc["main"] = "wait" /\ m_rsp_wait

(* It is in one place only, and only while main waits for it. *)
PlaceInv ==
  /\ InBuffer => Awaiting /\ txCmd = call["main"]
  /\ InBuffer => ~OnWayTo /\ cmd = None /\ ~OnWayBack
  /\ OnWayTo => Awaiting /\ cmd = None /\ ~OnWayBack
  /\ \A i \in 1..Len(toChip) : IsCall(toChip[i]) => toChip[i] = call["main"]
  /\ \A i, j \in 1..Len(toChip) : IsCall(toChip[i]) /\ IsCall(toChip[j]) => i = j
  /\ cmd # None => Awaiting /\ ~OnWayBack /\ cmd = call["main"]
  /\ OnWayBack => Awaiting
  /\ \A i \in 1..Len(toHost) : toHost[i][1] = "resp" => toHost[i][2] = call["main"]
  /\ \A i, j \in 1..Len(toHost) : toHost[i][1] = "resp" /\ toHost[j][1] = "resp" => i = j

(* What the flag, the decoder and the return value tell. *)
FlagInv ==
  /\ m_rsp_wait => pc["main"] \in {"send", "clear", "wait"}
  /\ pc["main"] \in {"send", "clear"} => m_rsp_wait
  /\ pc["main"] = "wait" => m_rsp_dec_handler = call["main"]
  /\ pc["main"] = "wait" /\ ~m_rsp_wait => m_return_value = call["main"]

AnswerInv == ~IrqEvents /\ errors = 0 => PlaceInv /\ FlagInv /\ OwnAnswer

IInv == TypeOK /\ ContextInv /\ RingInv
-----------------------------------------------------------------------------
(* The transition tables of ser_hal_transport.c, as facts about states. *)
LEMMA Tables ==
  /\ DOMAIN tx_pkt_alloc = {"IDLE"} /\ DOMAIN PktReceived = {"RECEIVING"}
  /\ rx_pkt_free[PktReceived["RECEIVING"]] = "IDLE"
  /\ Step(tx_pkt_alloc, txState) <=> txState = "IDLE" /\ txState' = "TX_ALLOCATED"
  /\ Step(tx_pkt_send, txState) <=> txState = "TX_ALLOCATED" /\ txState' = "TRANSMITTING"
  /\ Step(TxPktSent, txState) <=> txState = "TRANSMITTING" /\ txState' = "IDLE"
  BY DEF Step, rx_pkt_free, TxPktSent, tx_pkt_alloc, PktReceived, tx_pkt_send

LEMMA RequestTable ==
  ASSUME Step(BufRequested(TRUE), rxState)
  PROVE  rxState' \in RxState
  BY DEF Step, BufRequested, RxState

(* A frame is one of three kinds, told apart by its first field. *)
LEMMA FrameKinds ==
  ASSUME NEW f \in Frame
  PROVE  /\ f[1] = "resp" => f[2] \in Cmd /\ f = <<"resp", f[2]>>
         /\ f[1] = "evt" => f[2] \in Event /\ f = <<"evt", f[2]>>
  BY DEF Frame

LEMMA AppendFacts ==
  ASSUME NEW S, NEW s \in Seq(S), NEW e \in S
  PROVE  /\ Append(s, e) \in Seq(S) /\ Len(Append(s, e)) = Len(s) + 1
         /\ Append(s, e)[Len(s) + 1] = e
         /\ \A i \in 1..Len(s) : Append(s, e)[i] = s[i]
  OBVIOUS

LEMMA TailFacts ==
  ASSUME NEW S, NEW s \in Seq(S), s # <<>>
  PROVE  /\ Head(s) \in S /\ Head(s) = s[1] /\ 1 \in 1..Len(s)
         /\ Tail(s) \in Seq(S) /\ Len(Tail(s)) = Len(s) - 1
         /\ \A i \in 1..Len(Tail(s)) : i + 1 \in 1..Len(s) /\ Tail(s)[i] = s[i + 1]
<1>1. Len(s) \in Nat /\ Len(s) > 0
  BY EmptySeq
<1> QED BY <1>1, HeadTailProperties
-----------------------------------------------------------------------------
LEMMA InitIInv == Init => IInv
<1> SUFFICES ASSUME Init PROVE IInv
    OBVIOUS
<1> USE HostAssumption DEF Init, ser_hal_transport_opened, Chip!Init
<1>1. TypeOK
  <2>1. rxState \in RxState /\ txState \in TxState /\ stopped \in Stop
    BY DEF RxState, TxState, Stop
  <2>2. pc \in [Context -> Pc] /\ call \in [Context -> Cmd \cup {None}]
    BY DEF Pc
  <2>3. out \in Frame
    BY DEF Frame
  <2>4. mbox \in [0..MailboxSize - 1 -> Event \cup {None}] /\ 0 \in 0..MailboxSize - 1
    OBVIOUS
  <2>5. <<>> \in Seq(Cmd) /\ <<>> \in Seq(Frame) /\ <<>> \in Seq(Event)
    OBVIOUS
  <2>6. 0 \in 0..MailboxSize /\ 0 \in 0..MaxErrors /\ 0 \in 0..MaxEvents /\ 0 \in Nat
    OBVIOUS
  <2>7. returned \in [Cmd -> Cmd \cup {"none", "refused", "error", "success"}]
    OBVIOUS
  <2> QED BY <2>1, <2>2, <2>3, <2>4, <2>5, <2>6, <2>7 DEF TypeOK
<1>2. ContextInv
  BY DEF ContextInv, Context, EventContext
<1>3. RingInv
  BY DEF RingInv
<1> QED BY <1>1, <1>2, <1>3 DEF IInv

(* A call returns a response, an error or what cmd_write itself returns. *)
LEMMA ReturnType ==
  ASSUME TypeOK, NEW c \in Context, call[c] # None,
         NEW value \in Cmd \cup {"none", "refused", "error", "success"},
         Return(c, value)
  PROVE  /\ pc' \in [Context -> Pc] /\ call' \in [Context -> Cmd \cup {None}]
         /\ returned' \in [Cmd -> Cmd \cup {"none", "refused", "error", "success"}]
  BY DEF TypeOK, Return, Goto, Pc

(* The next event to pull is one. *)
LEMMA HeadIsEvent ==
  ASSUME TypeOK, RingInv, len > 0
  PROVE  mbox[r_idx] \in Event
<1>1. len \in Nat /\ r_idx \in Nat /\ r_idx < MailboxSize
  BY HostAssumption DEF TypeOK
<1>2. 1 \in 1..len /\ Slot(1) = r_idx
  BY <1>1 DEF Slot
<1> QED BY <1>2 DEF RingInv

LEMMA StepType == IInv /\ Next => TypeOK'
<1> SUFFICES ASSUME IInv, Next PROVE TypeOK'
    OBVIOUS
<1> USE HostAssumption, Tables DEF IInv, Alive, Runs
<1> TypeOK /\ ContextInv
    OBVIOUS
<1>1. ASSUME NEW c \in Context, TxAlloc(c) PROVE TypeOK'
  <2>1. call[c] # None
    BY <1>1 DEF TxAlloc, ContextInv
  <2>2. /\ pc' \in [Context -> Pc] /\ call' \in [Context -> Cmd \cup {None}]
        /\ returned' \in [Cmd -> Cmd \cup {"none", "refused", "error", "success"}]
    BY <1>1, <2>1, ReturnType DEF TxAlloc, Goto, Pc, TypeOK
  <2>3. txState' \in TxState
    BY <1>1 DEF TxAlloc, TypeOK, TxState
  <2> QED BY <1>1, <2>2, <2>3 DEF TxAlloc, TypeOK, chipVars, txVars, rspVars, mboxVars, evtVars
<1>2. ASSUME NEW c \in Context, CmdWrite(c) PROVE TypeOK'
  BY <1>2 DEF CmdWrite, Goto, Pc, TypeOK, chipVars, txVars, mboxVars, evtVars
<1>3. ASSUME NEW c \in Context, TxSend(c) PROVE TypeOK'
  <2>1. pc' \in [Context -> Pc] /\ txState' \in TxState
    BY <1>3 DEF TxSend, Goto, Pc, TxState, TypeOK
  <2>2. m_rsp_dec_handler' \in Cmd \cup {None} /\ txCmd' \in Cmd \cup {None}
    BY <1>3 DEF TxSend, TypeOK
  <2> QED BY <1>3, <2>1, <2>2 DEF TxSend, TypeOK, chipVars, mboxVars, evtVars
<1>4. ASSUME NEW c \in Context, ClearWait(c) PROVE TypeOK'
  <2>1. call[c] # None
    BY <1>4 DEF ClearWait, ContextInv
  <2>2. /\ pc' \in [Context -> Pc] /\ call' \in [Context -> Cmd \cup {None}]
        /\ returned' \in [Cmd -> Cmd \cup {"none", "refused", "error", "success"}]
    BY <1>4, <2>1, ReturnType DEF ClearWait
  <2> QED BY <1>4, <2>2 DEF ClearWait, TypeOK, chipVars, txVars, mboxVars, evtVars
<1>5. ASSUME NEW c \in Context, RspWait(c) PROVE TypeOK'
  <2>1. call[c] # None
    BY <1>5 DEF RspWait, ContextInv
  <2>2. /\ pc' \in [Context -> Pc] /\ call' \in [Context -> Cmd \cup {None}]
        /\ returned' \in [Cmd -> Cmd \cup {"none", "refused", "error", "success"}]
    <3>1. CASE m_rsp_wait
      BY <1>5, <3>1 DEF RspWait, callVars, TypeOK
    <3>2. CASE ~m_rsp_wait
      BY <1>5, <2>1, <3>2, ReturnType DEF RspWait, TypeOK
    <3> QED BY <3>1, <3>2
  <2> QED BY <1>5, <2>2 DEF RspWait, TypeOK, chipVars, txVars, rspVars, mboxVars, evtVars
<1>6. ASSUME NEW c \in Context, EvtGet(c) PROVE TypeOK'
  <2>1. handling' \in Event
    BY <1>6, HeadIsEvent DEF EvtGet
  <2>2. r_idx' \in 0..MailboxSize - 1 /\ len' \in 0..MailboxSize
    BY <1>6 DEF EvtGet, Wrap, TypeOK
  <2>3. pc' \in [Context -> Pc]
    BY <1>6 DEF EvtGet, Goto, Pc, TypeOK
  <2> QED BY SMTT(30), <1>6, <2>1, <2>2, <2>3 DEF EvtGet, TypeOK, chipVars, txVars,
     rspVars
<1>7. ASSUME NEW c \in Context, EvtNone(c) PROVE TypeOK'
  BY <1>7 DEF EvtNone, Goto, Pc, TypeOK, chipVars, txVars, rspVars, mboxVars, evtVars
<1>8. ASSUME NEW c \in Context, EvtHandler(c) PROVE TypeOK'
  <2>1. c = EventContext /\ handling \in Event
    BY <1>8 DEF EvtHandler, ContextInv, Context, EventContext, TypeOK
  <2>2. /\ pc' \in [Context -> Pc] /\ call' \in [Context -> Cmd \cup {None}]
        /\ handling' \in Event \cup {None}
    BY <1>8, <2>1 DEF EvtHandler, Goto, Pc, TypeOK
  <2> QED BY <1>8, <2>2 DEF EvtHandler, TypeOK, chipVars, txVars, rspVars, mboxVars
<1>9. CASE SoftdeviceEvtGet
  BY <1>9 DEF SoftdeviceEvtGet, Goto, Pc, Context, TypeOK, chipVars, txVars, rspVars,
              mboxVars
<1>10. CASE SoftdeviceEvtIrq
  <2>1. pc' \in [Context -> Pc] /\ scheduled' \in Nat
    BY <1>10 DEF SoftdeviceEvtIrq, Goto, Pc, Context, TypeOK
  <2> QED BY <1>10, <2>1 DEF SoftdeviceEvtIrq, TypeOK, chipVars, txVars, rspVars, mboxVars
<1>11. CASE TxPktSentEvent
  <2>1. toChip' \in Seq(Cmd)
    BY <1>11, AppendFacts DEF TxPktSentEvent, ContextInv, TypeOK
  <2>2. txState' \in TxState /\ stopped' \in Stop
    BY <1>11 DEF TxPktSentEvent, TxState, Stop
  <2> QED BY <1>11, <2>1, <2>2 DEF TxPktSentEvent, TypeOK, chipVars, rspVars, mboxVars,
                                   evtVars, callVars
<1>12. CASE RxBufRequest
  BY <1>12, RequestTable DEF RxBufRequest, TypeOK, chipVars, txVars, rspVars, mboxVars,
                             evtVars, callVars
<1>13. CASE ResponseReceived
  <2>1. toHost' \in Seq(Frame) /\ Head(toHost) \in Frame
    BY <1>13, TailFacts DEF ResponseReceived, FrameReceived, TypeOK
  <2>2. rxState' \in RxState /\ wake' \in BOOLEAN
    BY <1>13 DEF ResponseReceived, FrameReceived, RxState
  <2>3. Head(toHost)[2] \in Cmd
    BY <1>13, <2>1, FrameKinds DEF ResponseReceived, FrameReceived
  <2>4. /\ m_rsp_wait' \in BOOLEAN /\ m_rsp_dec_handler' \in Cmd \cup {None}
        /\ m_return_value' \in Cmd \cup {"none", "error"} /\ stopped' \in Stop
    BY <1>13, <2>3 DEF ResponseReceived, TypeOK, rspVars, Stop
  <2> QED BY <1>13, <2>1, <2>2, <2>4 DEF ResponseReceived, TypeOK, chipVars, txVars,
                                         mboxVars, evtVars, callVars
<1>14. CASE EventReceived
  <2>1. toHost' \in Seq(Frame) /\ Head(toHost) \in Frame
    BY <1>14, TailFacts DEF EventReceived, FrameReceived, TypeOK
  <2>2. rxState' \in RxState /\ wake' \in BOOLEAN
    BY <1>14 DEF EventReceived, FrameReceived, RxState
  <2>3. Head(toHost)[2] \in Event
    BY <1>14, <2>1, FrameKinds DEF EventReceived, FrameReceived
  <2>4. /\ mbox' \in [0..MailboxSize - 1 -> Event \cup {None}]
        /\ w_idx' \in 0..MailboxSize - 1 /\ len' \in 0..MailboxSize
        /\ r_idx' \in 0..MailboxSize - 1
        /\ irqPending' \in BOOLEAN /\ stopped' \in Stop
    <3>1. CASE /\ stopped' = "NRF_ERROR_NO_MEM"
               /\ UNCHANGED <<mboxVars, irqPending>>
      BY <3>1 DEF TypeOK, mboxVars, Stop
    <3>2. CASE /\ len < MailboxSize
               /\ mbox' = [mbox EXCEPT ![w_idx] = Head(toHost)[2]]
               /\ w_idx' = Wrap(w_idx + 1) /\ len' = len + 1
               /\ irqPending' = TRUE /\ UNCHANGED <<r_idx, stopped>>
      <4>1. w_idx' \in 0..MailboxSize - 1 /\ len' \in 0..MailboxSize
        BY SMTT(30), <3>2 DEF TypeOK, Wrap
      <4>2. mbox' \in [0..MailboxSize - 1 -> Event \cup {None}]
        BY <2>3, <3>2 DEF TypeOK
      <4> QED BY <3>2, <4>1, <4>2 DEF TypeOK
    <3> QED BY <1>14, <3>1, <3>2 DEF EventReceived
  <2> QED BY <1>14, <2>1, <2>2, <2>4 DEF EventReceived, TypeOK, chipVars, txVars, rspVars,
                                         callVars
<1>15. CASE PhyError
  <2>1. errors' \in 0..MaxErrors /\ stopped' \in Stop /\ wake' \in BOOLEAN
    <3>1. errors < MaxErrors /\ errors' = errors + 1
      BY <1>15 DEF PhyError
    <3>2. errors' \in 0..MaxErrors
      BY <3>1 DEF TypeOK
    <3> QED BY <1>15, <3>2 DEF PhyError, TypeOK, Stop
  <2>2. /\ m_rsp_wait' \in BOOLEAN /\ m_rsp_dec_handler' \in Cmd \cup {None}
        /\ m_return_value' \in Cmd \cup {"none", "error"}
    BY <1>15 DEF PhyError, TypeOK, rspVars
  <2> QED BY <1>15, <2>1, <2>2 DEF PhyError, TypeOK, chipVars, txVars, mboxVars, evtVars,
                                   callVars
<1>16. ASSUME NEW c \in Cmd, AppCalls(c) PROVE TypeOK'
  BY <1>16 DEF AppCalls, Goto, Pc, Context, TypeOK, chipVars, txVars, rspVars, mboxVars,
               evtVars
<1> DEFINE ChipType ==
      /\ toChip \in Seq(Cmd) /\ toHost \in Seq(Frame) /\ raised \in 0..MaxEvents
      /\ cmd \in Cmd \cup {None} /\ queue \in Seq(Event) /\ gateOpen \in BOOLEAN
      /\ sending \in {<<>>} \cup {<<e>> : e \in Event} /\ out \in Frame
<1>17. ASSUME UNCHANGED hostVars, ChipType' PROVE TypeOK'
  BY <1>17 DEF hostVars, TypeOK, rspVars, mboxVars, evtVars, callVars
<1>18. CASE ChipReceives
  <2>1. Head(toChip) \in Cmd /\ toChip' \in Seq(Cmd)
    BY <1>18, TailFacts DEF ChipReceives, TypeOK
  <2>2. ChipType'
    <3>1. cmd' \in Cmd \cup {None}
      BY <1>18, <2>1 DEF ChipReceives, Chip!Submit, Chip!Restart
    <3>2. /\ queue' \in Seq(Event) /\ gateOpen' \in BOOLEAN /\ out' \in Frame
          /\ sending' \in {<<>>} \cup {<<e>> : e \in Event}
      <4>1. CASE UNCHANGED <<queue, gateOpen, sending, out>>
        BY <4>1 DEF TypeOK
      <4>2. CASE queue' = <<>> /\ gateOpen' = FALSE /\ sending' = <<>> /\ UNCHANGED out
        <5>1. <<>> \in Seq(Event)
          OBVIOUS
        <5>2. out' \in Frame
          BY <4>2 DEF TypeOK
        <5> QED BY <4>2, <5>1, <5>2
      <4> QED BY <1>18, <4>1, <4>2 DEF ChipReceives, Chip!Submit, Chip!Restart
    <3> QED BY <1>18, <2>1, <3>1, <3>2 DEF ChipReceives, TypeOK
  <2> QED BY <1>17, <1>18, <2>2 DEF ChipReceives
<1>19. CASE ChipResponds
  <2>1. out' \in Frame
    BY <1>19 DEF ChipResponds, Chip!Respond, Frame, TypeOK
  <2>2. toHost' \in Seq(Frame)
    BY <1>19, <2>1, AppendFacts DEF ChipResponds, TypeOK
  <2>3. ChipType'
    BY <1>19, <2>1, <2>2 DEF ChipResponds, Chip!Respond, TypeOK
  <2> QED BY <1>17, <1>19, <2>3 DEF ChipResponds
<1>20. CASE ChipDelivers
  <2>1. out' \in Frame
    BY <1>20 DEF ChipDelivers, Chip!Deliver, Frame, TypeOK
  <2>2. toHost' \in Seq(Frame)
    BY <1>20, <2>1, AppendFacts DEF ChipDelivers, TypeOK
  <2>3. ChipType'
    BY <1>20, <2>1, <2>2 DEF ChipDelivers, Chip!Deliver, TypeOK
  <2> QED BY <1>17, <1>20, <2>3 DEF ChipDelivers
<1>21. CASE ChipSchedules
  <2>1. CASE Chip!Take
    <3>1. Head(queue) \in Event /\ Tail(queue) \in Seq(Event)
      BY <2>1, TailFacts DEF Chip!Take, TypeOK
    <3>2. ChipType'
      BY <1>21, <2>1, <3>1 DEF ChipSchedules, Chip!Take, TypeOK
    <3> QED BY <1>17, <1>21, <3>2 DEF ChipSchedules
  <2>2. CASE Chip!OpenGate \/ Chip!CloseGate
    <3>1. ChipType'
      BY <1>21, <2>2 DEF ChipSchedules, Chip!OpenGate, Chip!CloseGate, TypeOK
    <3> QED BY <1>17, <1>21, <3>1 DEF ChipSchedules
  <2> QED BY <1>21, <2>1, <2>2 DEF ChipSchedules
<1>22. CASE ChipRaises
  <2>1. raised + 1 \in Event /\ raised' \in 0..MaxEvents
    BY <1>22 DEF ChipRaises, Event, TypeOK
  <2>2. queue' \in Seq(Event)
    BY <1>22, <2>1, AppendFacts DEF ChipRaises, Chip!Raise, TypeOK
  <2>3. ChipType'
    BY <1>22, <2>1, <2>2 DEF ChipRaises, Chip!Raise, TypeOK
  <2> QED BY <1>17, <1>22, <2>3 DEF ChipRaises
<1> QED BY <1>1, <1>2, <1>3, <1>4, <1>5, <1>6, <1>7, <1>8, <1>9, <1>10, <1>11, <1>12, <1>13,
           <1>14, <1>15, <1>16, <1>18, <1>19, <1>20, <1>21, <1>22
        DEF Next, CodeStep, UartStep

LEMMA ReturnContext ==
  ASSUME IInv, NEW c \in Context, call[c] # None, NEW value, Return(c, value),
         UNCHANGED <<scheduled, handling, txState, txCmd>>
  PROVE  ContextInv'
<1> USE HostAssumption DEF IInv, Context, EventContext
<1>1. /\ call'[c] = None /\ \A d \in Context \ {c} : call'[d] = call[d] /\ pc'[d] = pc[d]
      /\ pc'[c] = IF c = EventContext /\ handling # None THEN "handle" ELSE "idle"
  BY DEF Return, Goto, TypeOK
<1> QED BY <1>1 DEF ContextInv

LEMMA StepContext == IInv /\ Next => ContextInv'
<1> SUFFICES ASSUME IInv, Next PROVE ContextInv'
    OBVIOUS
<1> USE HostAssumption, Tables DEF IInv, Runs
<1> TypeOK /\ ContextInv
    OBVIOUS
<1> DEFINE Moved(c) == \A d \in Context \ {c} : call'[d] = call[d] /\ pc'[d] = pc[d]
<1>1. ASSUME NEW c \in Context, TxAlloc(c) PROVE ContextInv'
  <2>1. call[c] # None
    BY <1>1 DEF TxAlloc, ContextInv
  <2>2. CASE Step(tx_pkt_alloc, txState) /\ Goto(c, "write") /\ UNCHANGED <<call, returned>>
    <3>1. Moved(c) /\ pc'[c] = "write" /\ call'[c] = call[c]
      BY <2>2 DEF Goto, TypeOK
    <3> QED BY <1>1, <2>1, <2>2, <3>1 DEF TxAlloc, ContextInv, evtVars, Context, EventContext
  <2>3. CASE Return(c, "refused") /\ UNCHANGED txState
    BY <1>1, <2>1, <2>3, ReturnContext DEF TxAlloc, evtVars
  <2> QED BY <1>1, <2>2, <2>3 DEF TxAlloc
<1>2. ASSUME NEW c \in Context, CmdWrite(c) PROVE ContextInv'
  <2>1. Moved(c) /\ pc'[c] = "send" /\ call'[c] = call[c] /\ pc[c] = "write"
    BY <1>2 DEF CmdWrite, Goto, TypeOK
  <2> QED BY <1>2, <2>1 DEF CmdWrite, ContextInv, evtVars, txVars, Context, EventContext
<1>3. ASSUME NEW c \in Context, TxSend(c) PROVE ContextInv'
  <2>1. /\ Moved(c) /\ call'[c] = call[c] /\ pc[c] = "send"
        /\ pc'[c] = IF Kind[call[c]] = "call" THEN "wait" ELSE "clear"
    BY <1>3 DEF TxSend, Goto, TypeOK
  <2> QED BY <1>3, <2>1 DEF TxSend, ContextInv, evtVars, Context, EventContext
<1>4. ASSUME NEW c \in Context, ClearWait(c) PROVE ContextInv'
  BY <1>4, ReturnContext DEF ClearWait, ContextInv, evtVars, txVars
<1>5. ASSUME NEW c \in Context, RspWait(c) PROVE ContextInv'
  <2>1. CASE UNCHANGED callVars
    BY <1>5, <2>1 DEF RspWait, callVars, evtVars, txVars, ContextInv, EventContext
  <2>2. CASE Return(c, m_return_value)
    BY <1>5, <2>2, ReturnContext DEF RspWait, ContextInv, evtVars, txVars
  <2> QED BY <1>5, <2>1, <2>2 DEF RspWait
<1>6. ASSUME NEW c \in Context, EvtGet(c) PROVE ContextInv'
  <2>1. Moved(c) /\ pc'[c] = "handle" /\ call'[c] = call[c] /\ pc[c] = "drain"
    BY <1>6 DEF EvtGet, Goto, TypeOK
  <2>2. handling' # None
    BY <1>6, HeadIsEvent DEF EvtGet
  <2> QED BY <1>6, <2>1, <2>2 DEF EvtGet, ContextInv, txVars, Context, EventContext
<1>7. ASSUME NEW c \in Context, EvtNone(c) PROVE ContextInv'
  <2>1. Moved(c) /\ pc'[c] = "idle" /\ call'[c] = call[c] /\ pc[c] = "drain"
    BY <1>7 DEF EvtNone, Goto, TypeOK
  <2> QED BY <1>7, <2>1 DEF EvtNone, ContextInv, evtVars, txVars, Context, EventContext
<1>8. ASSUME NEW c \in Context, EvtHandler(c) PROVE ContextInv'
  <2>1. c = EventContext /\ handling \in Event
    BY <1>8 DEF EvtHandler, ContextInv, Context, EventContext, TypeOK
  <2>2. CASE /\ call' = [call EXCEPT ![c] = Reply[handling]] /\ Goto(c, "alloc")
             /\ UNCHANGED handling /\ Reply[handling] # None
    <3>1. Moved(c) /\ pc'[c] = "alloc" /\ call'[c] # None /\ pc[c] = "handle"
      BY <1>8, <2>2 DEF EvtHandler, Goto, TypeOK
    <3> QED BY <1>8, <2>1, <2>2, <3>1 DEF EvtHandler, ContextInv, txVars, Context, EventContext
  <2>3. CASE handling' = None /\ Goto(c, "drain") /\ UNCHANGED call
    <3>1. Moved(c) /\ pc'[c] = "drain" /\ call'[c] = call[c] /\ pc[c] = "handle"
      BY <1>8, <2>3 DEF EvtHandler, Goto, TypeOK
    <3> QED BY <1>8, <2>1, <2>3, <3>1 DEF EvtHandler, ContextInv, txVars, Context, EventContext
  <2> QED BY <1>8, <2>2, <2>3 DEF EvtHandler
<1>9. CASE SoftdeviceEvtGet
  <2>1. Moved("main") /\ pc'["main"] = "drain" /\ call' = call /\ pc["main"] = "idle"
    BY <1>9 DEF SoftdeviceEvtGet, Goto, Context, TypeOK
  <2> QED BY <1>9, <2>1 DEF SoftdeviceEvtGet, ContextInv, txVars, Context, EventContext
<1>10. CASE SoftdeviceEvtIrq
  <2>1. CASE IrqEvents
    <3>1. Moved("irq") /\ pc'["irq"] = "drain" /\ call' = call /\ pc["irq"] = "idle"
      BY <1>10, <2>1 DEF SoftdeviceEvtIrq, Goto, Context, TypeOK
    <3> QED BY <1>10, <2>1, <3>1 DEF SoftdeviceEvtIrq, ContextInv, txVars, Context, EventContext
  <2>2. CASE ~IrqEvents
    BY <1>10, <2>2 DEF SoftdeviceEvtIrq, ContextInv, txVars, EventContext
  <2> QED BY <2>1, <2>2
<1>11. CASE TxPktSentEvent
  BY <1>11 DEF TxPktSentEvent, ContextInv, EventContext, evtVars, callVars
<1>12. CASE RxBufRequest \/ ResponseReceived \/ EventReceived \/ PhyError
  BY <1>12 DEF RxBufRequest, ResponseReceived, EventReceived, PhyError, ContextInv,
               EventContext, txVars, evtVars, callVars
<1>13. ASSUME NEW c \in Cmd, AppCalls(c) PROVE ContextInv'
  <2>1. /\ \A d \in Context \ {"main"} : call'[d] = call[d] /\ pc'[d] = pc[d]
        /\ pc'["main"] = "alloc" /\ call'["main"] = c /\ pc["main"] = "idle"
    BY <1>13 DEF AppCalls, Goto, Context, TypeOK
  <2> QED BY <1>13, <2>1 DEF AppCalls, ContextInv, txVars, evtVars, Context, EventContext
<1>14. CASE UNCHANGED hostVars
  BY <1>14 DEF hostVars, ContextInv, EventContext, evtVars, callVars
<1> QED BY <1>1, <1>2, <1>3, <1>4, <1>5, <1>6, <1>7, <1>8, <1>9, <1>10, <1>11, <1>12, <1>13,
           <1>14
        DEF Next, CodeStep, UartStep, ChipReceives, ChipResponds, ChipDelivers,
            ChipSchedules, ChipRaises

LEMMA SlotFacts ==
  ASSUME TypeOK, RingInv
  PROVE  /\ len \in Nat /\ r_idx \in Nat /\ r_idx < MailboxSize /\ MailboxSize \in Nat \ {0}
         /\ \A i \in 1..MailboxSize : Slot(i) \in 0..MailboxSize - 1
         /\ \A i, j \in 1..MailboxSize : Slot(i) = Slot(j) => i = j
         /\ len < MailboxSize => w_idx = Slot(len + 1)
<1>1. /\ len \in Nat /\ r_idx \in Nat /\ r_idx < MailboxSize /\ MailboxSize \in Nat \ {0}
  BY HostAssumption DEF TypeOK
<1>2. \A i \in 1..MailboxSize : Slot(i) \in 0..MailboxSize - 1
  BY <1>1 DEF Slot
<1>3. \A i, j \in 1..MailboxSize : Slot(i) = Slot(j) => i = j
  BY <1>1 DEF Slot
<1>4. len < MailboxSize => w_idx = Slot(len + 1)
  BY <1>1 DEF Slot, RingInv
<1> QED BY <1>1, <1>2, <1>3, <1>4

(* Taking the first event moves the others one place forward. *)
LEMMA GetShifts ==
  ASSUME TypeOK, RingInv, NEW c \in Context, EvtGet(c)
  PROVE  /\ len' = len - 1
         /\ \A i \in 1..len' : Slot(i)' = Slot(i + 1)
         /\ w_idx' = IF r_idx' + len' < MailboxSize THEN r_idx' + len'
                                                  ELSE r_idx' + len' - MailboxSize
<1>1. /\ len \in Nat /\ r_idx \in Nat /\ r_idx < MailboxSize /\ MailboxSize \in Nat \ {0}
      /\ len <= MailboxSize
  BY HostAssumption DEF TypeOK
<1>2. /\ len' = len - 1 /\ len > 0 /\ w_idx' = w_idx
      /\ r_idx' = IF r_idx + 1 = MailboxSize THEN 0 ELSE r_idx + 1
  BY DEF EvtGet, Wrap
<1>3. \A i \in 1..len' : Slot(i)' = Slot(i + 1)
  BY <1>1, <1>2 DEF Slot
<1>4. w_idx' = IF r_idx' + len' < MailboxSize THEN r_idx' + len'
                                            ELSE r_idx' + len' - MailboxSize
  BY <1>1, <1>2 DEF RingInv
<1> QED BY <1>2, <1>3, <1>4

(* Accepting an event writes it behind the others. *)
Accepted ==
  /\ len < MailboxSize /\ len' = len + 1 /\ UNCHANGED r_idx
  /\ mbox' = [mbox EXCEPT ![w_idx] = Head(toHost)[2]] /\ w_idx' = Wrap(w_idx + 1)

LEMMA PutAppends ==
  ASSUME TypeOK, RingInv, Accepted
  PROVE  /\ mbox'[Slot(len + 1)] = Head(toHost)[2]
         /\ \A i \in 1..len : mbox'[Slot(i)] = mbox[Slot(i)]
         /\ \A i \in 1..len + 1 : Slot(i)' = Slot(i)
         /\ w_idx' = IF r_idx' + len' < MailboxSize THEN r_idx' + len'
                                                  ELSE r_idx' + len' - MailboxSize
<1> USE DEF Accepted
<1>1. /\ len \in Nat /\ len < MailboxSize /\ w_idx = Slot(len + 1)
      /\ w_idx \in 0..MailboxSize - 1 /\ len + 1 \in 1..MailboxSize
  BY SlotFacts DEF TypeOK
<1>2. \A i \in 1..len : i \in 1..MailboxSize /\ Slot(i) \in 0..MailboxSize - 1 /\ Slot(i) # w_idx
  BY <1>1, SlotFacts
<1>3. /\ mbox'[Slot(len + 1)] = Head(toHost)[2]
      /\ \A i \in 1..len : mbox'[Slot(i)] = mbox[Slot(i)]
  BY <1>1, <1>2 DEF TypeOK
<1>4. \A i \in 1..len + 1 : Slot(i)' = Slot(i)
  BY DEF Slot
<1>5. w_idx' = IF r_idx' + len' < MailboxSize THEN r_idx' + len'
                                            ELSE r_idx' + len' - MailboxSize
  BY <1>1, SlotFacts DEF RingInv, Wrap
<1> QED BY <1>3, <1>4, <1>5

LEMMA ReceivedEvent ==
  ASSUME TypeOK, EventReceived
  PROVE  /\ Head(toHost)[2] \in Event /\ Alive
         /\ \/ /\ len = MailboxSize /\ stopped' = "NRF_ERROR_NO_MEM"
               /\ UNCHANGED mboxVars
            \/ Accepted /\ UNCHANGED stopped
<1>1. Head(toHost) \in Frame
  BY TailFacts DEF EventReceived, FrameReceived, TypeOK
<1>2. Head(toHost)[2] \in Event
  BY <1>1, FrameKinds DEF EventReceived, FrameReceived
<1> QED BY <1>2 DEF EventReceived, FrameReceived, Accepted

LEMMA StepRing == IInv /\ Next => RingInv'
<1> SUFFICES ASSUME IInv, Next PROVE RingInv'
    OBVIOUS
<1> TypeOK /\ RingInv
    BY DEF IInv
<1>1. ASSUME NEW c \in Context, EvtGet(c) PROVE RingInv'
  <2>1. \A i \in 1..len' : i + 1 \in 1..len
    BY <1>1, GetShifts, SlotFacts
  <2>2. mbox' = mbox
    BY <1>1 DEF EvtGet
  <2> QED BY <1>1, <2>1, <2>2, GetShifts DEF RingInv
<1>2. CASE EventReceived
  <2>1. CASE Accepted
    <3>1. \A i \in 1..len' : i \in 1..len + 1 /\ (i \in 1..len \/ i = len + 1)
      BY <2>1, SlotFacts DEF Accepted
    <3> QED BY <1>2, <2>1, <3>1, PutAppends, ReceivedEvent DEF RingInv
  <2>2. CASE UNCHANGED mboxVars
    BY <2>2 DEF RingInv, mboxVars, Slot
  <2> QED BY <1>2, <2>1, <2>2, ReceivedEvent
<1>3. CASE UNCHANGED mboxVars
  BY <1>3 DEF RingInv, mboxVars, Slot
<1>4. ASSUME NEW c \in Context, CodeStep(c), ~EvtGet(c) PROVE UNCHANGED mboxVars
  BY <1>4 DEF CodeStep, TxAlloc, CmdWrite, TxSend, ClearWait, RspWait, EvtNone, EvtHandler
<1>5. ASSUME Next, ~EventReceived, \A c \in Context : ~CodeStep(c) PROVE UNCHANGED mboxVars
  BY <1>5 DEF Next, UartStep, SoftdeviceEvtGet, SoftdeviceEvtIrq, TxPktSentEvent,
              RxBufRequest, ResponseReceived, PhyError, AppCalls, ChipReceives,
              ChipResponds, ChipDelivers, ChipSchedules, ChipRaises, hostVars
<1> QED BY <1>1, <1>2, <1>3, <1>4, <1>5

LEMMA StepStutter == IInv /\ UNCHANGED vars => IInv'
  BY DEF IInv, TypeOK, ContextInv, EventContext, RingInv, Slot, vars, txVars, rspVars,
         mboxVars, evtVars, chipVars, callVars

LEMMA StepIInv == IInv /\ [Next]_vars => IInv'
  BY StepType, StepContext, StepRing, StepStutter DEF IInv

THEOREM Invariance == Spec => []IInv
  BY InitIInv, StepIInv, PTL DEF Spec

(* Type correctness: the mailbox's indices and length stay in their ranges, and
   every call that a context makes is one. *)
THEOREM TypeCorrect == Spec => []TypeOK
<1>1. IInv => TypeOK
  BY DEF IInv
<1> QED BY <1>1, Invariance, PTL
-----------------------------------------------------------------------------
(* What the refinement calls queue, serving and verdict. *)
Waiting == [i \in 1..len |-> mbox[Slot(i)]]
Serving == IF handling = None THEN <<>> ELSE <<handling>>
Verdict == IF stopped = "NRF_ERROR_NO_MEM" THEN stopped ELSE "NRF_SUCCESS"

LEMMA WaitingIsSeq ==
  ASSUME TypeOK, RingInv
  PROVE  Waiting \in Seq(Event) /\ Len(Waiting) = len
<1>1. len \in Nat
  BY SlotFacts
<1> QED BY <1>1 DEF Waiting, RingInv

LEMMA GetServes ==
  ASSUME IInv, NEW c \in Context, EvtGet(c)
  PROVE  /\ Waiting # <<>> /\ Serving = <<>>
         /\ Serving' = <<Head(Waiting)>> /\ Waiting' = Tail(Waiting) /\ Verdict' = Verdict
<1> TypeOK /\ RingInv /\ ContextInv
    BY DEF IInv
<1>1. len > 0 /\ len \in Nat /\ Waiting \in Seq(Event) /\ Len(Waiting) = len
  BY WaitingIsSeq, SlotFacts DEF EvtGet
<1>2. Waiting # <<>>
  BY <1>1
<1>3. c = EventContext /\ handling = None
  BY HostAssumption DEF EvtGet, ContextInv, Context, EventContext
<1>4. Head(Waiting) = mbox[r_idx]
  <2>1. Head(Waiting) = Waiting[1] /\ 1 \in 1..len
    BY <1>1, <1>2, TailFacts
  <2>2. Slot(1) = r_idx
    BY SlotFacts DEF Slot
  <2> QED BY <2>1, <2>2 DEF Waiting
<1>5. Serving' = <<Head(Waiting)>>
  BY <1>4, HeadIsEvent, <1>1, HostAssumption DEF EvtGet, Serving
<1>6. Waiting' = Tail(Waiting)
  <2>1. /\ Tail(Waiting) \in Seq(Event) /\ Len(Tail(Waiting)) = len - 1
        /\ \A i \in 1..len - 1 : i + 1 \in 1..len /\ Tail(Waiting)[i] = Waiting[i + 1]
    BY <1>1, <1>2, TailFacts
  <2>2. len' = len - 1 /\ mbox' = mbox /\ \A i \in 1..len' : Slot(i)' = Slot(i + 1)
    BY GetShifts DEF EvtGet
  <2>3. Waiting' = [i \in 1..len - 1 |-> mbox[Slot(i + 1)]]
    BY <2>2 DEF Waiting
  <2>4. \A i \in 1..len - 1 : Waiting'[i] = Tail(Waiting)[i]
    BY <2>1, <2>3 DEF Waiting
  <2>5. Waiting' \in Seq(Event) /\ Len(Waiting') = len - 1
    <3>1. \A i \in 1..len - 1 : mbox[Slot(i + 1)] \in Event
      BY <2>1 DEF RingInv
    <3>2. len - 1 \in Nat
      BY <1>1
    <3> QED BY <2>3, <3>1, <3>2
  <2> QED BY <2>1, <2>4, <2>5, SeqEqual
<1>7. Verdict' = Verdict
  BY DEF EvtGet, Verdict
<1> QED BY <1>2, <1>3, <1>5, <1>6, <1>7 DEF Serving

LEMMA PutAccepts ==
  ASSUME TypeOK, RingInv, Accepted, Head(toHost)[2] \in Event
  PROVE  Len(Waiting) < MailboxSize /\ Waiting' = Append(Waiting, Head(toHost)[2])
<1> DEFINE e == Head(toHost)[2]
<1>1. Waiting \in Seq(Event) /\ Len(Waiting) = len /\ len \in Nat /\ len' = len + 1
  BY WaitingIsSeq, SlotFacts DEF Accepted
<1>2. /\ Append(Waiting, e) \in Seq(Event) /\ Len(Append(Waiting, e)) = len + 1
      /\ Append(Waiting, e)[len + 1] = e
      /\ \A i \in 1..len : Append(Waiting, e)[i] = Waiting[i]
  BY <1>1, AppendFacts
<1>3. Waiting' = [i \in 1..len + 1 |-> mbox'[Slot(i)]]
  BY <1>1, PutAppends DEF Waiting
<1>4. \A i \in 1..len + 1 : i \in 1..len \/ i = len + 1
  BY <1>1
<1>5. \A i \in 1..len + 1 : Waiting'[i] = Append(Waiting, e)[i]
  <2>1. \A i \in 1..len : Waiting[i] = mbox[Slot(i)]
    BY DEF Waiting
  <2>2. \A i \in 1..len : mbox'[Slot(i)] = Append(Waiting, e)[i]
    BY <1>2, <2>1, PutAppends
  <2>3. mbox'[Slot(len + 1)] = Append(Waiting, e)[len + 1]
    BY <1>2, PutAppends
  <2>4. \A i \in 1..len + 1 : Waiting'[i] = mbox'[Slot(i)]
    BY <1>3
  <2> QED BY <1>4, <2>2, <2>3, <2>4
<1>6. Waiting' \in Seq(Event) /\ Len(Waiting') = len + 1
  <2>1. \A i \in 1..len + 1 : mbox'[Slot(i)] \in Event
    BY <1>4, PutAppends DEF RingInv
  <2> QED BY <1>1, <1>3, <2>1
<1>7. Waiting' = Append(Waiting, e)
  BY <1>2, <1>5, <1>6, SeqEqual
<1> QED BY <1>1, <1>7 DEF Accepted

(* The mailbox is a bounded FIFO between the UART interrupt and the loop that
   pulls the events, for every size: nothing is lost, doubled or overtaken. *)
THEOREM MailboxImplementsFifo == Spec => MailboxIsFifo
<1> USE DEF Fifo!vars, Waiting, Serving, Verdict
<1>1. Init => Fifo!Init
  <2> SUFFICES ASSUME Init PROVE Fifo!Init
      OBVIOUS
  <2>1. len = 0 /\ handling = None /\ stopped = "no"
    BY DEF Init
  <2>2. Waiting = <<>>
    BY <2>1
  <2> QED BY <2>1, <2>2 DEF Fifo!Init
<1>2. IInv /\ [Next]_vars => [Fifo!Next]_Fifo!vars
  <2> SUFFICES ASSUME IInv, [Next]_vars PROVE [Fifo!Next]_Fifo!vars
      OBVIOUS
  <2> TypeOK /\ RingInv /\ ContextInv
      BY DEF IInv
  <2>1. ASSUME UNCHANGED <<mboxVars, handling>>, Verdict' = Verdict
        PROVE  UNCHANGED Fifo!vars
    BY <2>1 DEF mboxVars, Slot
  <2>2. ASSUME NEW c \in Context, EvtGet(c) PROVE Fifo!Serve
    BY <2>2, GetServes DEF Fifo!Serve
  <2>3. ASSUME NEW c \in Context, EvtHandler(c) PROVE [Fifo!Next]_Fifo!vars
    <3>1. UNCHANGED mboxVars /\ Verdict' = Verdict
      BY <2>3 DEF EvtHandler
    <3>2. CASE UNCHANGED handling
      BY <2>1, <3>1, <3>2
    <3>3. CASE handling' = None /\ handling # None
      <4>1. Waiting' = Waiting
        BY <3>1 DEF mboxVars, Slot
      <4> QED BY <3>1, <3>3, <4>1 DEF Fifo!Next, Fifo!Finish
    <3>4. handling # None
      BY <2>3, HostAssumption DEF EvtHandler, ContextInv, Context, EventContext
    <3> QED BY <2>3, <3>2, <3>3, <3>4 DEF EvtHandler
  <2>4. CASE EventReceived
    <3>1. stopped = "no" /\ UNCHANGED handling /\ Head(toHost)[2] \in Event
      BY <2>4, ReceivedEvent DEF EventReceived, Alive
    <3>2. CASE Accepted /\ UNCHANGED stopped
      <4>1. Fifo!Accept(Head(toHost)[2])
        BY <3>1, <3>2, PutAccepts DEF Fifo!Accept
      <4> QED BY <3>1, <4>1 DEF Fifo!Next
    <3>3. CASE len = MailboxSize /\ stopped' = "NRF_ERROR_NO_MEM" /\ UNCHANGED mboxVars
      <4>1. Waiting' = Waiting /\ Len(Waiting) = MailboxSize
        BY <3>3, WaitingIsSeq DEF mboxVars, Slot
      <4> QED BY <3>1, <3>3, <4>1 DEF Fifo!Next, Fifo!RefuseFull
    <3> QED BY <2>4, <3>2, <3>3, ReceivedEvent
  <2>5. ASSUME NEW c \in Context, CodeStep(c), ~EvtGet(c), ~EvtHandler(c)
        PROVE  UNCHANGED <<mboxVars, handling, stopped>>
    BY <2>5 DEF CodeStep, TxAlloc, CmdWrite, TxSend, ClearWait, RspWait, EvtNone, evtVars
  <2>6. CASE TxPktSentEvent \/ ResponseReceived \/ PhyError
    <3>1. UNCHANGED <<mboxVars, handling>>
      BY <2>6 DEF TxPktSentEvent, ResponseReceived, PhyError, evtVars
    <3>2. stopped = "no" /\ stopped' # "NRF_ERROR_NO_MEM"
      BY <2>6 DEF TxPktSentEvent, ResponseReceived, PhyError, FrameReceived, Alive
    <3> QED BY <2>1, <3>1, <3>2
  <2>7. ASSUME Next, \A c \in Context : ~CodeStep(c), ~EventReceived, ~TxPktSentEvent,
               ~ResponseReceived, ~PhyError
        PROVE  UNCHANGED <<mboxVars, handling, stopped>>
    BY <2>7 DEF Next, UartStep, SoftdeviceEvtGet, SoftdeviceEvtIrq, RxBufRequest, AppCalls,
                ChipReceives, ChipResponds, ChipDelivers, ChipSchedules, ChipRaises,
                hostVars, evtVars
  <2>8. CASE UNCHANGED vars
    BY <2>1, <2>8 DEF vars, mboxVars, evtVars
  <2> QED BY <2>1, <2>2, <2>3, <2>4, <2>5, <2>6, <2>7, <2>8 DEF Fifo!Next
<1> QED BY <1>1, <1>2, Invariance, PTL DEF Spec, MailboxIsFifo, Fifo!Spec
-----------------------------------------------------------------------------
LEMMA InitAnswer == Init => AnswerInv
<1> SUFFICES ASSUME Init PROVE PlaceInv /\ FlagInv /\ OwnAnswer
    BY DEF AnswerInv
<1> USE DEF Init, ser_hal_transport_opened, Chip!Init
<1>1. PlaceInv
  BY DEF PlaceInv, InBuffer, OnWayTo, OnWayBack
<1>2. FlagInv
  BY DEF FlagInv, Context
<1>3. OwnAnswer
  BY DEF OwnAnswer
<1> QED BY <1>1, <1>2, <1>3

(* The state of a proof about one step, when no event is handled in the interrupt
   and there is no error: only main executes code. *)
Quiet == IInv /\ PlaceInv /\ FlagInv /\ OwnAnswer /\ ~IrqEvents /\ errors = 0 /\ errors' = 0

LEMMA OnlyMain ==
  ASSUME Quiet, NEW c \in Context, pc[c] # "idle"
  PROVE  c = "main"
  BY DEF Quiet, IInv, ContextInv, Context

(* The call stays where it is. *)
LEMMA PlaceKept ==
  ASSUME PlaceInv, UNCHANGED <<toChip, cmd, toHost>>,
         InBuffer' => InBuffer /\ txCmd' = txCmd,
         Awaiting => Awaiting' /\ call'["main"] = call["main"]
  PROVE  PlaceInv'
<1>1. (OnWayTo' <=> OnWayTo) /\ (OnWayBack' <=> OnWayBack)
  BY DEF OnWayTo, OnWayBack
<1>2. \A i \in 1..Len(toChip) : IsCall(toChip[i]) => Awaiting
  BY DEF PlaceInv, OnWayTo
<1>3. \A i \in 1..Len(toHost) : toHost[i][1] = "resp" => Awaiting
  BY DEF PlaceInv, OnWayBack
<1> QED BY <1>1, <1>2, <1>3 DEF PlaceInv

(* A step of main's code. *)
LEMMA MainMoves ==
  ASSUME Quiet, NEW c \in Context, CodeStep(c)
  PROVE  PlaceInv' /\ FlagInv' /\ OwnAnswer'
<1> USE Tables DEF Goto
<1> TypeOK /\ ContextInv /\ PlaceInv /\ FlagInv /\ OwnAnswer /\ "main" \in Context
    BY DEF Quiet, IInv, Context
<1>1. c = "main"
  BY OnlyMain DEF CodeStep, TxAlloc, CmdWrite, TxSend, ClearWait, RspWait, EvtGet, EvtNone,
                  EvtHandler
<1>2. CASE TxAlloc(c)
  <2>1. ~m_rsp_wait /\ pc["main"] = "alloc" /\ UNCHANGED rspVars /\ call["main"] \in Cmd
    BY <1>1, <1>2 DEF TxAlloc, FlagInv, ContextInv, TypeOK
  <2>2. pc'["main"] \in {"write", "handle", "idle"}
    BY <1>1, <1>2 DEF TxAlloc, Return, TypeOK
  <2>3. FlagInv'
    BY <2>1, <2>2 DEF FlagInv, rspVars
  <2>4. PlaceInv'
    BY <1>2, <2>1, PlaceKept DEF TxAlloc, chipVars, InBuffer, Awaiting
  <2>5. OwnAnswer'
    <3>1. \/ UNCHANGED returned
          \/ returned' = [returned EXCEPT ![call["main"]] = "refused"]
      BY <1>1, <1>2 DEF TxAlloc, Return
    <3>2. UNCHANGED <<stopped, errors>>
      BY <1>2 DEF TxAlloc
    <3> QED BY <2>1, <3>1, <3>2 DEF OwnAnswer, TypeOK
  <2> QED BY <2>3, <2>4, <2>5
<1>3. CASE CmdWrite(c)
  <2>1. pc["main"] = "write" /\ pc'["main"] = "send" /\ m_rsp_wait'
    BY <1>1, <1>3 DEF CmdWrite, TypeOK
  <2>2. PlaceInv'
    BY <1>3, <2>1, PlaceKept DEF CmdWrite, chipVars, txVars, InBuffer, Awaiting
  <2> QED BY <1>3, <2>1, <2>2 DEF CmdWrite, FlagInv, OwnAnswer
<1>4. CASE TxSend(c)
  <2>1. /\ pc["main"] = "send" /\ m_rsp_wait /\ call["main"] \in Cmd
        /\ m_rsp_wait' = m_rsp_wait /\ call' = call /\ txCmd' = call["main"]
        /\ pc'["main"] = IF Kind[call["main"]] = "call" THEN "wait" ELSE "clear"
        /\ Kind[call["main"]] = "call" => m_rsp_dec_handler' = call["main"]
    BY <1>1, <1>4 DEF TxSend, FlagInv, ContextInv, TypeOK
  <2>2. ~Awaiting /\ ~OnWayTo /\ cmd = None /\ ~OnWayBack
    BY <2>1 DEF PlaceInv, Awaiting
  <2>3. UNCHANGED <<toChip, cmd, toHost>>
    BY <1>4 DEF TxSend, chipVars
  <2>4. ~OnWayTo' /\ ~OnWayBack'
    BY <2>2, <2>3 DEF OnWayTo, OnWayBack
  <2>5. InBuffer' => Awaiting' /\ txCmd' = call'["main"]
    BY <2>1 DEF InBuffer, IsCall, Awaiting
  <2>6. PlaceInv'
    BY <2>2, <2>3, <2>4, <2>5 DEF PlaceInv, OnWayTo, OnWayBack
  <2>7. FlagInv'
    BY <2>1 DEF FlagInv
  <2> QED BY <1>4, <2>6, <2>7 DEF TxSend, OwnAnswer
<1>5. CASE ClearWait(c)
  <2>1. /\ pc["main"] = "clear" /\ m_rsp_wait' = FALSE /\ call["main"] \in Cmd
        /\ pc'["main"] \in {"idle", "handle"}
    BY <1>1, <1>5 DEF ClearWait, Return, ContextInv, TypeOK
  <2>2. PlaceInv'
    BY <1>5, <2>1, PlaceKept DEF ClearWait, chipVars, txVars, InBuffer, Awaiting
  <2>3. OwnAnswer'
    BY <1>1, <1>5, <2>1 DEF ClearWait, Return, OwnAnswer, TypeOK
  <2> QED BY <2>1, <2>2, <2>3 DEF FlagInv
<1>6. CASE RspWait(c)
  <2>1. CASE UNCHANGED callVars
    <3>1. PlaceInv'
      BY <1>6, <2>1, PlaceKept DEF RspWait, chipVars, txVars, rspVars, callVars, InBuffer,
                                   Awaiting
    <3> QED BY <1>6, <2>1, <3>1 DEF RspWait, rspVars, callVars, FlagInv, OwnAnswer
  <2>2. CASE ~m_rsp_wait /\ Return(c, m_return_value)
    <3>1. /\ call["main"] \in Cmd /\ m_return_value = call["main"] /\ UNCHANGED rspVars
          /\ pc'["main"] \in {"idle", "handle"}
      BY <1>1, <1>6, <2>2 DEF RspWait, Return, FlagInv, ContextInv, TypeOK
    <3>2. PlaceInv'
      BY <1>6, <2>2, PlaceKept DEF RspWait, chipVars, txVars, InBuffer, Awaiting
    <3>3. OwnAnswer'
      BY <1>1, <1>6, <2>2, <3>1 DEF RspWait, Return, OwnAnswer, TypeOK
    <3> QED BY <2>2, <3>1, <3>2, <3>3 DEF FlagInv, rspVars
  <2> QED BY <1>6, <2>1, <2>2 DEF RspWait
<1>7. CASE EvtGet(c) \/ EvtNone(c) \/ EvtHandler(c)
  <2>1. /\ pc["main"] \in {"drain", "handle"} /\ pc'["main"] \in {"handle", "idle", "alloc", "drain"}
        /\ UNCHANGED <<txVars, chipVars, toHost, rspVars, returned, stopped, errors>>
    BY <1>1, <1>7 DEF EvtGet, EvtNone, EvtHandler, TypeOK
  <2>2. PlaceInv'
    BY <2>1, PlaceKept DEF chipVars, txVars, InBuffer, Awaiting
  <2> QED BY <2>1, <2>2 DEF FlagInv, rspVars, OwnAnswer
<1> QED BY <1>2, <1>3, <1>4, <1>5, <1>6, <1>7 DEF CodeStep

(* A response is the one that main waits for. *)
LEMMA ResponseIsOwn ==
  ASSUME Quiet, ResponseReceived
  PROVE  /\ Awaiting /\ m_rsp_wait' = FALSE /\ m_return_value' = call["main"]
         /\ UNCHANGED <<m_rsp_dec_handler, stopped>>
         /\ toHost' = Tail(toHost) /\ ~OnWayBack'
<1> TypeOK /\ ContextInv /\ PlaceInv /\ FlagInv /\ toHost # <<>> /\ toHost[1] = Head(toHost)
    BY TailFacts DEF Quiet, IInv, ResponseReceived, FrameReceived, TypeOK
<1>1. Head(toHost)[1] = "resp" /\ toHost' = Tail(toHost)
  BY DEF ResponseReceived, FrameReceived
<1>2. OnWayBack /\ Awaiting /\ Head(toHost)[2] = call["main"]
  BY <1>1, TailFacts DEF OnWayBack, PlaceInv, TypeOK
<1>3. m_rsp_dec_handler = call["main"] /\ call["main"] # None
  BY <1>2, HostAssumption DEF FlagInv, Awaiting, ContextInv, Context
<1>4. ~OnWayBack'
  <2> SUFFICES ASSUME NEW i \in 1..Len(Tail(toHost)), Tail(toHost)[i][1] = "resp" PROVE FALSE
      BY <1>1 DEF OnWayBack
  <2>1. i + 1 \in 1..Len(toHost) /\ toHost[i + 1][1] = "resp" /\ 1 \in 1..Len(toHost)
    BY TailFacts DEF TypeOK
  <2>2. i + 1 = 1
    BY <1>1, <2>1 DEF PlaceInv
  <2> QED BY <2>2
<1> QED BY <1>1, <1>2, <1>3, <1>4 DEF ResponseReceived, Awaiting

LEMMA UartMoves ==
  ASSUME Quiet, UartStep
  PROVE  PlaceInv' /\ FlagInv' /\ OwnAnswer'
<1> USE Tables
<1> TypeOK /\ ContextInv /\ PlaceInv /\ FlagInv /\ OwnAnswer
    BY DEF Quiet, IInv
<1>1. CASE TxPktSentEvent
  <2>1. /\ toChip' = Append(toChip, txCmd) /\ txState = "TRANSMITTING" /\ txState' = "IDLE"
        /\ UNCHANGED <<txCmd, cmd, toHost, rspVars, callVars>> /\ txCmd \in Cmd
    BY <1>1 DEF TxPktSentEvent, chipVars, ContextInv, TypeOK
  <2>2. /\ Len(toChip') = Len(toChip) + 1 /\ toChip'[Len(toChip) + 1] = txCmd
        /\ \A i \in 1..Len(toChip) : toChip'[i] = toChip[i]
        /\ Len(toChip) \in Nat
    BY <2>1, AppendFacts DEF TypeOK
  <2>3. \A i \in 1..Len(toChip') : i \in 1..Len(toChip) \/ i = Len(toChip) + 1
    BY <2>2
  <2>4. /\ ~InBuffer' /\ (Awaiting' <=> Awaiting) /\ call' = call
        /\ (OnWayBack' <=> OnWayBack)
    BY <2>1 DEF InBuffer, Awaiting, OnWayBack, callVars, rspVars
  <2>5. ASSUME IsCall(txCmd) PROVE PlaceInv'
    <3>1. /\ InBuffer /\ ~OnWayTo /\ cmd = None /\ ~OnWayBack /\ Awaiting
          /\ txCmd = call["main"]
      BY <2>1, <2>5 DEF InBuffer, PlaceInv
    <3>2. \A i \in 1..Len(toChip') : IsCall(toChip'[i]) => i = Len(toChip) + 1
      BY <2>2, <2>3, <3>1 DEF OnWayTo
    <3>3. \A i \in 1..Len(toChip') : IsCall(toChip'[i]) => toChip'[i] = call["main"]
      BY <2>2, <3>1, <3>2
    <3>4. \A i, j \in 1..Len(toChip') : IsCall(toChip'[i]) /\ IsCall(toChip'[j]) => i = j
      BY <3>2
    <3>5. UNCHANGED <<cmd, toHost>>
      BY <2>1
    <3>6. /\ \A i \in 1..Len(toHost') : ~(toHost'[i][1] = "resp")
          /\ cmd' = None /\ ~OnWayBack' /\ ~InBuffer'
      BY <2>4, <3>1, <3>5 DEF OnWayBack
    <3>7. Awaiting' /\ call' = call
      BY <2>4, <3>1
    <3>8. /\ InBuffer' => Awaiting' /\ txCmd' = call'["main"]
          /\ InBuffer' => ~OnWayTo' /\ cmd' = None /\ ~OnWayBack'
          /\ OnWayTo' => Awaiting' /\ cmd' = None /\ ~OnWayBack'
          /\ cmd' # None => Awaiting' /\ ~OnWayBack' /\ cmd' = call'["main"]
          /\ OnWayBack' => Awaiting'
      BY <3>6, <3>7
    <3>9. /\ \A i \in 1..Len(toHost') : toHost'[i][1] = "resp" => toHost'[i][2] = call'["main"]
          /\ \A i, j \in 1..Len(toHost') : toHost'[i][1] = "resp" /\ toHost'[j][1] = "resp" => i = j
      BY <3>6
    <3> QED BY <3>3, <3>4, <3>7, <3>8, <3>9 DEF PlaceInv
  <2>6. ASSUME ~IsCall(txCmd) PROVE PlaceInv'
    <3>1. \A i \in 1..Len(toChip') : IsCall(toChip'[i]) =>
            i \in 1..Len(toChip) /\ toChip'[i] = toChip[i]
      BY <2>2, <2>3, <2>6
    <3>2. OnWayTo' => OnWayTo
      BY <3>1 DEF OnWayTo
    <3>3. \A i, j \in 1..Len(toChip') : IsCall(toChip'[i]) /\ IsCall(toChip'[j]) => i = j
      BY <3>1 DEF PlaceInv
    <3>4. \A i \in 1..Len(toChip') : IsCall(toChip'[i]) => toChip'[i] = call["main"]
      BY <3>1 DEF PlaceInv
    <3>5. UNCHANGED <<cmd, toHost>>
      BY <2>1
    <3>6. /\ \A i \in 1..Len(toHost') : toHost'[i][1] = "resp" => toHost'[i][2] = call["main"]
          /\ \A i, j \in 1..Len(toHost') :
               toHost'[i][1] = "resp" /\ toHost'[j][1] = "resp" => i = j
      BY <3>5 DEF PlaceInv
    <3>7. /\ OnWayTo' => Awaiting' /\ cmd' = None /\ ~OnWayBack'
          /\ cmd' # None => Awaiting' /\ ~OnWayBack' /\ cmd' = call["main"]
          /\ OnWayBack' => Awaiting'
      BY <2>4, <3>2, <3>5 DEF PlaceInv
    <3>8. call' = call /\ ~InBuffer'
      BY <2>4
    <3> QED BY <3>3, <3>4, <3>6, <3>7, <3>8 DEF PlaceInv
  <2>7. PlaceInv'
    BY <2>5, <2>6
  <2>8. FlagInv'
    BY <2>1 DEF FlagInv, rspVars, callVars
  <2>9. OwnAnswer'
    BY <1>1 DEF TxPktSentEvent, callVars, OwnAnswer
  <2> QED BY <2>7, <2>8, <2>9
<1>2. CASE RxBufRequest
  <2>1. PlaceInv'
    BY <1>2, PlaceKept DEF RxBufRequest, txVars, chipVars, rspVars, callVars, InBuffer, Awaiting
  <2> QED BY <1>2, <2>1 DEF RxBufRequest, rspVars, callVars, FlagInv, OwnAnswer
<1>3. CASE ResponseReceived
  <2>1. UNCHANGED <<txVars, chipVars, callVars, errors>>
    BY <1>3 DEF ResponseReceived
  <2>2. ~InBuffer /\ ~OnWayTo /\ cmd = None
    <3>1. OnWayBack
      <4>1. toHost # <<>> /\ Head(toHost)[1] = "resp"
        BY <1>3 DEF ResponseReceived, FrameReceived
      <4>2. toHost[1][1] = "resp" /\ 1 \in 1..Len(toHost)
        BY <4>1, TailFacts DEF TypeOK
      <4> QED BY <4>2 DEF OnWayBack
    <3> QED BY <3>1 DEF PlaceInv
  <2>3. ~InBuffer' /\ ~OnWayTo' /\ cmd' = None /\ ~OnWayBack'
    BY <1>3, <2>1, <2>2, ResponseIsOwn DEF txVars, chipVars, InBuffer, OnWayTo
  <2>4. PlaceInv'
    BY <2>3 DEF PlaceInv, OnWayTo, OnWayBack
  <2>5. FlagInv'
    BY <1>3, <2>1, ResponseIsOwn DEF FlagInv, callVars, Awaiting
  <2> QED BY <1>3, <2>1, <2>4, <2>5, ResponseIsOwn DEF callVars, OwnAnswer
<1>4. CASE EventReceived
  <2>1. /\ UNCHANGED <<txVars, chipVars, callVars, rspVars, errors>> /\ toHost # <<>>
        /\ toHost' = Tail(toHost)
    BY <1>4 DEF EventReceived, FrameReceived
  <2>2. /\ Len(toHost') = Len(toHost) - 1
        /\ \A i \in 1..Len(toHost') : i + 1 \in 1..Len(toHost) /\ toHost'[i] = toHost[i + 1]
    BY <2>1, TailFacts DEF TypeOK
  <2>3. OnWayBack' => OnWayBack
    BY <2>2 DEF OnWayBack
  <2>4. /\ \A i \in 1..Len(toHost') : toHost'[i][1] = "resp" => toHost'[i][2] = call["main"]
        /\ \A i, j \in 1..Len(toHost') : toHost'[i][1] = "resp" /\ toHost'[j][1] = "resp" =>
             i + 1 = j + 1
    <3>1. ASSUME NEW i \in 1..Len(toHost'), toHost'[i][1] = "resp"
          PROVE  /\ i + 1 \in 1..Len(toHost) /\ toHost[i + 1][1] = "resp"
                 /\ toHost'[i][2] = toHost[i + 1][2]
      BY <2>2, <3>1
    <3>2. ASSUME NEW i \in 1..Len(toHost'), toHost'[i][1] = "resp"
          PROVE  toHost'[i][2] = call["main"]
      BY <3>1, <3>2 DEF PlaceInv
    <3>3. ASSUME NEW i \in 1..Len(toHost'), NEW j \in 1..Len(toHost'),
                 toHost'[i][1] = "resp", toHost'[j][1] = "resp"
          PROVE  i + 1 = j + 1
      BY <3>1, <3>3 DEF PlaceInv
    <3> QED BY <3>2, <3>3
  <2>5. \A i, j \in 1..Len(toHost') : i + 1 = j + 1 => i = j
    OBVIOUS
  <2>6. /\ (InBuffer' <=> InBuffer) /\ (OnWayTo' <=> OnWayTo) /\ (Awaiting' <=> Awaiting)
        /\ UNCHANGED <<txCmd, cmd, toChip, call>>
    BY <2>1 DEF txVars, chipVars, callVars, rspVars, InBuffer, OnWayTo, Awaiting
  <2>7. PlaceInv'
    BY <2>3, <2>4, <2>5, <2>6 DEF PlaceInv
  <2>8. FlagInv'
    BY <2>1 DEF FlagInv, rspVars, callVars
  <2>9. OwnAnswer'
    BY <1>4, <2>1, ReceivedEvent DEF OwnAnswer, callVars
  <2> QED BY <2>7, <2>8, <2>9
<1> QED BY <1>1, <1>2, <1>3, <1>4 DEF UartStep

LEMMA ChipMoves ==
  ASSUME Quiet, UNCHANGED hostVars,
         ChipReceives \/ ChipResponds \/ ChipDelivers \/ ChipSchedules \/ ChipRaises
  PROVE  PlaceInv'
<1> TypeOK /\ PlaceInv
    BY DEF Quiet, IInv
<1>1. /\ (Awaiting' <=> Awaiting) /\ (InBuffer' <=> InBuffer) /\ UNCHANGED <<call, txCmd>>
  BY DEF hostVars, callVars, rspVars, Awaiting, InBuffer
<1>2. CASE ChipReceives
  <2>1. /\ toChip # <<>> /\ toChip' = Tail(toChip) /\ UNCHANGED toHost /\ cmd = None
        /\ \/ IsCall(Head(toChip)) /\ cmd' = Head(toChip)
           \/ ~IsCall(Head(toChip)) /\ cmd' = None
    BY <1>2, TailFacts DEF ChipReceives, Chip!Submit, Chip!Restart, IsCall, TypeOK
  <2>2. /\ Head(toChip) = toChip[1] /\ 1 \in 1..Len(toChip)
        /\ Len(toChip') = Len(toChip) - 1
        /\ \A i \in 1..Len(toChip') : i + 1 \in 1..Len(toChip) /\ toChip'[i] = toChip[i + 1]
    BY <2>1, TailFacts DEF TypeOK
  <2>3. (OnWayTo' => OnWayTo) /\ (OnWayBack' <=> OnWayBack)
    BY <2>1, <2>2 DEF OnWayTo, OnWayBack
  <2>4. /\ \A i \in 1..Len(toChip') : IsCall(toChip'[i]) => toChip'[i] = call["main"]
        /\ \A i, j \in 1..Len(toChip') : IsCall(toChip'[i]) /\ IsCall(toChip'[j]) =>
             i + 1 = j + 1
    BY <2>2 DEF PlaceInv
  <2>5. \A i, j \in 1..Len(toChip') : i + 1 = j + 1 => i = j
    OBVIOUS
  <2>6. CASE IsCall(Head(toChip))
    <3>1. /\ OnWayTo /\ Awaiting /\ ~OnWayBack /\ ~InBuffer /\ cmd' = call["main"]
      BY <2>1, <2>2, <2>6 DEF OnWayTo, PlaceInv
    <3>2. ~OnWayTo'
      <4> SUFFICES ASSUME NEW i \in 1..Len(toChip'), IsCall(toChip'[i]) PROVE FALSE
          BY DEF OnWayTo
      <4>1. i + 1 = 1
        BY <2>2, <2>6 DEF PlaceInv
      <4> QED BY <4>1
    <3> QED BY <1>1, <2>1, <2>3, <2>4, <2>5, <3>1, <3>2 DEF PlaceInv
  <2>7. CASE ~IsCall(Head(toChip))
    BY SMTT(30), <1>1, <2>1, <2>3, <2>4, <2>5, <2>7 DEF PlaceInv
  <2> QED BY <2>6, <2>7
<1>3. CASE ChipResponds \/ ChipDelivers
  <2> DEFINE f == out'
  <2>1. /\ toHost' = Append(toHost, f) /\ UNCHANGED toChip /\ f \in Frame
        /\ \/ cmd # None /\ cmd' = None /\ f = <<"resp", cmd>>
           \/ cmd' = cmd /\ f[1] = "evt"
    BY <1>3 DEF ChipResponds, ChipDelivers, Chip!Respond, Chip!Deliver, Frame, TypeOK
  <2>2. /\ Len(toHost') = Len(toHost) + 1 /\ toHost'[Len(toHost) + 1] = f
        /\ \A i \in 1..Len(toHost) : toHost'[i] = toHost[i]
        /\ Len(toHost) \in Nat
    BY <2>1, AppendFacts DEF TypeOK
  <2>3. \A i \in 1..Len(toHost') : i \in 1..Len(toHost) \/ i = Len(toHost) + 1
    BY <2>2
  <2>4. OnWayTo' <=> OnWayTo
    BY <2>1 DEF OnWayTo
  <2>5. CASE cmd # None /\ cmd' = None /\ f = <<"resp", cmd>>
    <3>1. Awaiting /\ ~OnWayBack /\ cmd = call["main"] /\ ~OnWayTo /\ ~InBuffer
      BY <2>5 DEF PlaceInv
    <3>2. \A i \in 1..Len(toHost') : toHost'[i][1] = "resp" => i = Len(toHost) + 1
      BY <2>2, <2>3, <3>1 DEF OnWayBack
    <3>3. \A i \in 1..Len(toHost') : toHost'[i][1] = "resp" => toHost'[i][2] = call["main"]
      BY <2>2, <2>5, <3>1, <3>2
    <3> QED BY <1>1, <2>1, <2>4, <2>5, <3>1, <3>2, <3>3 DEF PlaceInv, OnWayTo
  <2>6. CASE cmd' = cmd /\ f[1] = "evt"
    <3>1. \A i \in 1..Len(toHost') : toHost'[i][1] = "resp" =>
            i \in 1..Len(toHost) /\ toHost'[i] = toHost[i]
      BY <2>2, <2>3, <2>6
    <3>2. OnWayBack' => OnWayBack
      BY <3>1 DEF OnWayBack
    <3> QED BY <1>1, <2>1, <2>4, <2>6, <3>1, <3>2 DEF PlaceInv
  <2> QED BY <2>1, <2>5, <2>6
<1>4. CASE ChipSchedules \/ ChipRaises
  BY <1>1, <1>4, PlaceKept DEF ChipSchedules, ChipRaises, Chip!OpenGate, Chip!CloseGate,
                               Chip!Take, Chip!Raise
<1> QED BY <1>2, <1>3, <1>4

LEMMA StepAnswer ==
  ASSUME IInv, AnswerInv, [Next]_vars, ~IrqEvents, errors' = 0
  PROVE  PlaceInv' /\ FlagInv' /\ OwnAnswer'
<1>1. CASE UNCHANGED vars
  <2>1. PlaceInv /\ FlagInv /\ OwnAnswer
    BY <1>1 DEF AnswerInv, vars
  <2> QED BY <1>1, <2>1 DEF vars, txVars, rspVars, chipVars, callVars, PlaceInv, FlagInv,
                            OwnAnswer, InBuffer, OnWayTo, OnWayBack, Awaiting
<1>2. CASE Next
  <2>1. errors \in Nat
    BY HostAssumption DEF IInv, TypeOK
  <2>2. errors = 0 /\ ~PhyError
    <3>1. ~PhyError
      BY <2>1 DEF PhyError
    <3>2. ASSUME NEW c \in Context, CodeStep(c) PROVE errors' = errors
      BY <3>2 DEF CodeStep, TxAlloc, CmdWrite, TxSend, ClearWait, RspWait, EvtGet, EvtNone,
                  EvtHandler
    <3>3. ASSUME UartStep PROVE errors' = errors
      BY <3>3 DEF UartStep, TxPktSentEvent, RxBufRequest, ResponseReceived, EventReceived
    <3>4. ASSUME SoftdeviceEvtGet \/ SoftdeviceEvtIrq \/ \E c \in Cmd : AppCalls(c)
          PROVE  errors' = errors
      BY <3>4 DEF SoftdeviceEvtGet, SoftdeviceEvtIrq, AppCalls
    <3>5. ASSUME ChipReceives \/ ChipResponds \/ ChipDelivers \/ ChipSchedules \/ ChipRaises
          PROVE  errors' = errors
      BY <3>5 DEF ChipReceives, ChipResponds, ChipDelivers, ChipSchedules, ChipRaises, hostVars
    <3> QED BY <1>2, <3>1, <3>2, <3>3, <3>4, <3>5 DEF Next
  <2>3. Quiet /\ TypeOK /\ PlaceInv /\ FlagInv /\ OwnAnswer
    BY <2>2 DEF Quiet, AnswerInv, IInv
  <2>4. CASE \E c \in Context : CodeStep(c)
    BY <2>3, <2>4, MainMoves
  <2>5. CASE UartStep
    BY <2>3, <2>5, UartMoves
  <2>6. CASE SoftdeviceEvtGet \/ SoftdeviceEvtIrq \/ \E c \in Cmd : AppCalls(c)
    <3>1. /\ \/ UNCHANGED <<pc, call>>
             \/ pc["main"] = "idle" /\ pc'["main"] \in {"drain", "alloc"}
          /\ UNCHANGED <<txVars, chipVars, toHost, rspVars, returned, stopped, errors>>
      BY <2>3, <2>6 DEF SoftdeviceEvtGet, SoftdeviceEvtIrq, AppCalls, Goto, Context, TypeOK
    <3>2. PlaceInv'
      BY <2>3, <3>1, PlaceKept DEF txVars, chipVars, rspVars, InBuffer, Awaiting
    <3>3. FlagInv'
      BY <2>3, <3>1 DEF FlagInv, rspVars
    <3> QED BY <2>3, <3>1, <3>2, <3>3 DEF OwnAnswer
  <2>7. CASE ChipReceives \/ ChipResponds \/ ChipDelivers \/ ChipSchedules \/ ChipRaises
    <3>1. UNCHANGED hostVars
      BY <2>7 DEF ChipReceives, ChipResponds, ChipDelivers, ChipSchedules, ChipRaises
    <3>2. PlaceInv'
      BY <2>3, <2>7, <3>1, ChipMoves
    <3> QED BY <2>3, <3>1, <3>2 DEF hostVars, rspVars, callVars, FlagInv, OwnAnswer
  <2> QED BY <1>2, <2>2, <2>4, <2>5, <2>6, <2>7 DEF Next
<1> QED BY <1>1, <1>2

(* When events are not handled in the interrupt and the UART reports no error, a
   call returns its own response, and none is unexpected: for all calls, opcodes
   and events, though a response carries nothing but its opcode. *)
THEOREM AnswersAreOwn == Spec => [](~IrqEvents => OwnAnswer)
<1>1. IInv /\ AnswerInv /\ [Next]_vars => AnswerInv'
  BY StepAnswer DEF AnswerInv
<1>2. AnswerInv => (~IrqEvents => OwnAnswer)
  BY DEF AnswerInv, OwnAnswer
<1> QED BY <1>1, <1>2, InitAnswer, Invariance, PTL DEF Spec
-----------------------------------------------------------------------------
(* A mailbox that is not empty is known to someone. *)
LEMMA StepPulled == IInv /\ EventsWillBePulled /\ [Next]_vars => EventsWillBePulled'
<1> SUFFICES ASSUME IInv, EventsWillBePulled, [Next]_vars, Alive', len' > 0
             PROVE  EventsWillBePulled'
    BY DEF EventsWillBePulled
<1> USE HostAssumption DEF IInv, EventsWillBePulled, Alive
<1> TypeOK /\ ContextInv
    OBVIOUS
<1>1. ASSUME NEW c \in Context, TxAlloc(c) \/ CmdWrite(c) \/ TxSend(c) \/ ClearWait(c) \/ RspWait(c)
      PROVE  EventsWillBePulled'
  <2>1. /\ UNCHANGED <<len, irqPending, scheduled, handling, stopped>> /\ pc[c] # "drain"
        /\ \A d \in Context \ {c} : pc'[d] = pc[d]
    BY <1>1 DEF TxAlloc, CmdWrite, TxSend, ClearWait, RspWait, Goto, Return, mboxVars, evtVars,
                callVars, TypeOK
  <2> QED BY <2>1 DEF EventContext, Context
<1>2. ASSUME NEW c \in Context, EvtGet(c) PROVE EventsWillBePulled'
  BY <1>2, HeadIsEvent DEF EvtGet
<1>3. ASSUME NEW c \in Context, EvtNone(c) PROVE EventsWillBePulled'
  BY <1>3 DEF EvtNone, mboxVars
<1>4. ASSUME NEW c \in Context, EvtHandler(c) PROVE EventsWillBePulled'
  <2>1. c = EventContext /\ handling \in Event /\ handling # None
    BY <1>4 DEF EvtHandler, ContextInv, Context, EventContext, TypeOK
  <2>2. handling' = handling \/ pc'[c] = "drain"
    BY <1>4 DEF EvtHandler, Goto, TypeOK
  <2> QED BY <2>1, <2>2 DEF EventContext
<1>5. CASE SoftdeviceEvtGet
  <2>1. /\ UNCHANGED <<len, irqPending, handling>> /\ pc'["main"] = "drain"
        /\ pc'["irq"] = pc["irq"] /\ ~IrqEvents
    BY <1>5 DEF SoftdeviceEvtGet, Goto, mboxVars, ContextInv, Context, TypeOK
  <2> QED BY <2>1 DEF EventContext
<1>6. CASE SoftdeviceEvtIrq
  BY <1>6 DEF SoftdeviceEvtIrq, Goto, EventContext, Context, TypeOK
<1>7. CASE EventReceived
  BY <1>7 DEF EventReceived
<1>8. CASE TxPktSentEvent \/ RxBufRequest \/ ResponseReceived \/ PhyError
  <2>1. UNCHANGED <<len, irqPending, scheduled, handling, pc>> /\ Alive
    BY <1>8 DEF TxPktSentEvent, RxBufRequest, ResponseReceived, FrameReceived, PhyError, Alive, mboxVars, evtVars,
                callVars
  <2> QED BY <2>1 DEF EventContext
<1>9. ASSUME NEW c \in Cmd, AppCalls(c) PROVE EventsWillBePulled'
  <2>1. /\ UNCHANGED <<len, irqPending, scheduled, handling, stopped>> /\ pc["main"] = "idle"
        /\ pc'["irq"] = pc["irq"]
    BY <1>9 DEF AppCalls, Goto, mboxVars, evtVars, Context, TypeOK
  <2> QED BY <2>1 DEF EventContext
<1>10. CASE ChipReceives \/ ChipResponds \/ ChipDelivers \/ ChipSchedules \/ ChipRaises
  <2>1. UNCHANGED <<len, irqPending, scheduled, handling, pc, stopped>>
    BY <1>10 DEF ChipReceives, ChipResponds, ChipDelivers, ChipSchedules, ChipRaises, hostVars,
                 mboxVars, evtVars, callVars
  <2> QED BY <2>1 DEF EventContext
<1>11. CASE UNCHANGED vars
  BY <1>11 DEF vars, mboxVars, evtVars, callVars, EventContext
<1> QED BY <1>1, <1>2, <1>3, <1>4, <1>5, <1>6, <1>7, <1>8, <1>9, <1>10, <1>11
        DEF Next, CodeStep, UartStep

(* No event is left in the mailbox with nobody to pull it, wherever events are
   handled and whatever calls, responses and errors come in between. *)
THEOREM NoEventForgotten == Spec => []EventsWillBePulled
<1>1. Init => EventsWillBePulled
  BY DEF Init, EventsWillBePulled
<1> QED BY <1>1, StepPulled, Invariance, PTL DEF Spec
-----------------------------------------------------------------------------
(* What is on its way stays on its way until a response is received. *)
LEMMA UnderwayKept ==
  ASSUME TypeOK, ContextInv, Next, ~ResponseReceived,
         NEW c \in Cmd, Kind[c] = "call", Underway(c)
  PROVE  Underway(c)'
<1> USE HostAssumption, Tables
<1>0. ASSUME UNCHANGED <<txState, txCmd, toChip, cmd, toHost>> PROVE Underway(c)'
  BY <1>0 DEF Underway
<1>1. ASSUME NEW d \in Context, CodeStep(d) PROVE Underway(c)'
  <2>1. UNCHANGED <<toChip, cmd, toHost>>
    BY <1>1 DEF CodeStep, TxAlloc, CmdWrite, TxSend, ClearWait, RspWait, EvtGet, EvtNone,
                EvtHandler, chipVars, txVars
  <2>2. txState = "TRANSMITTING" => UNCHANGED <<txState, txCmd>>
    BY <1>1 DEF CodeStep, TxAlloc, CmdWrite, TxSend, ClearWait, RspWait, EvtGet, EvtNone,
                EvtHandler, txVars
  <2> QED BY <2>1, <2>2 DEF Underway
<1>2. CASE TxPktSentEvent
  <2>1. toChip' = Append(toChip, txCmd) /\ txCmd \in Cmd /\ UNCHANGED <<cmd, toHost>>
    BY <1>2 DEF TxPktSentEvent, chipVars, ContextInv, TypeOK
  <2>2. /\ Len(toChip') = Len(toChip) + 1 /\ toChip'[Len(toChip) + 1] = txCmd
        /\ \A i \in 1..Len(toChip) : toChip'[i] = toChip[i]
        /\ Len(toChip) \in Nat
    BY <2>1, AppendFacts DEF TypeOK
  <2>3. Len(toChip) + 1 \in 1..Len(toChip') /\ \A i \in 1..Len(toChip) : i \in 1..Len(toChip')
    BY <2>2
  <2>4. CASE txCmd = c
    BY <2>2, <2>3, <2>4 DEF Underway
  <2>5. CASE \E i \in 1..Len(toChip) : toChip[i] = c
    BY <2>2, <2>3, <2>5 DEF Underway
  <2> QED BY <2>1, <2>4, <2>5 DEF Underway
<1>3. CASE RxBufRequest
  BY <1>0, <1>3 DEF RxBufRequest, txVars, chipVars
<1>4. CASE EventReceived
  <2>1. /\ UNCHANGED <<txState, txCmd, toChip, cmd>> /\ toHost # <<>>
        /\ toHost' = Tail(toHost) /\ Head(toHost)[1] = "evt"
    BY <1>4 DEF EventReceived, FrameReceived, txVars, chipVars
  <2>2. ASSUME NEW i \in 1..Len(toHost), toHost[i] = <<"resp", c>> PROVE Underway(c)'
    <3>1. /\ Head(toHost) = toHost[1] /\ Len(Tail(toHost)) = Len(toHost) - 1
          /\ \A j \in 1..Len(Tail(toHost)) : Tail(toHost)[j] = toHost[j + 1]
      BY <2>1, TailFacts DEF TypeOK
    <3>2. i # 1
      BY <2>1, <2>2, <3>1
    <3>3. Len(toHost) \in Nat
      BY DEF TypeOK
    <3>4. i - 1 \in 1..Len(toHost') /\ i = (i - 1) + 1
      BY <2>1, <3>1, <3>2, <3>3
    <3>5. toHost'[i - 1] = <<"resp", c>>
      BY <2>1, <2>2, <3>1, <3>4
    <3> QED BY <3>4, <3>5 DEF Underway
  <2> QED BY <2>1, <2>2 DEF Underway
<1>5. CASE PhyError
  BY <1>0, <1>5 DEF PhyError, txVars, chipVars
<1>6. CASE SoftdeviceEvtGet \/ SoftdeviceEvtIrq
  BY <1>0, <1>6 DEF SoftdeviceEvtGet, SoftdeviceEvtIrq, txVars, chipVars
<1>7. ASSUME NEW d \in Cmd, AppCalls(d) PROVE Underway(c)'
  BY <1>0, <1>7 DEF AppCalls, txVars, chipVars
<1>8. CASE ChipReceives
  <2>1. UNCHANGED <<txState, txCmd, toHost>> /\ toChip # <<>> /\ toChip' = Tail(toChip) /\ cmd = None
    BY <1>8 DEF ChipReceives, Chip!Submit, hostVars
  <2>2. /\ Head(toChip) = toChip[1] /\ Len(Tail(toChip)) = Len(toChip) - 1
        /\ \A j \in 1..Len(Tail(toChip)) : Tail(toChip)[j] = toChip[j + 1]
    BY <2>1, TailFacts DEF TypeOK
  <2>3. ASSUME NEW i \in 1..Len(toChip), toChip[i] = c PROVE Underway(c)'
    <3>1. CASE i = 1
      <4>1. cmd' = c
        BY <1>8, <2>2, <2>3, <3>1 DEF ChipReceives, Chip!Submit
      <4> QED BY <4>1 DEF Underway
    <3>2. CASE i # 1
      <4>1. Len(toChip) \in Nat
        BY DEF TypeOK
      <4>2. i - 1 \in 1..Len(toChip') /\ i = (i - 1) + 1
        BY <2>1, <2>2, <3>2, <4>1
      <4>3. toChip'[i - 1] = c
        BY <2>1, <2>2, <2>3, <4>2
      <4> QED BY <4>2, <4>3 DEF Underway
    <3> QED BY <3>1, <3>2
  <2> QED BY <2>1, <2>3 DEF Underway
<1>9. CASE ChipResponds \/ ChipDelivers
  <2>1. /\ UNCHANGED <<txState, txCmd, toChip>> /\ toHost' = Append(toHost, out') /\ out' \in Frame
        /\ cmd' = cmd \/ out' = <<"resp", cmd>>
    BY <1>9 DEF ChipResponds, ChipDelivers, Chip!Respond, Chip!Deliver, Frame, TypeOK, hostVars
  <2>2. /\ Len(toHost') = Len(toHost) + 1 /\ toHost'[Len(toHost) + 1] = out'
        /\ \A i \in 1..Len(toHost) : toHost'[i] = toHost[i]
        /\ Len(toHost) \in Nat
    BY <2>1, AppendFacts DEF TypeOK
  <2>3. Len(toHost) + 1 \in 1..Len(toHost') /\ \A i \in 1..Len(toHost) : i \in 1..Len(toHost')
    BY <2>2
  <2>4. CASE \E i \in 1..Len(toHost) : toHost[i] = <<"resp", c>>
    BY <2>2, <2>3, <2>4 DEF Underway
  <2>5. CASE cmd = c
    BY <2>1, <2>2, <2>3, <2>5 DEF Underway
  <2> QED BY <2>1, <2>4, <2>5 DEF Underway
<1>10. CASE ChipSchedules \/ ChipRaises
  BY <1>0, <1>10 DEF ChipSchedules, ChipRaises, Chip!OpenGate, Chip!CloseGate, Chip!Take,
                     Chip!Raise, hostVars
<1> QED BY <1>1, <1>2, <1>3, <1>4, <1>5, <1>6, <1>7, <1>8, <1>9, <1>10
        DEF Next, UartStep

(* Whose the flag is.  The interrupt's call raises it only when it is down, or
   for a reset, after which it is down; whatever it does to the main loop's wait,
   it sets the latch when it ends. *)
WaitInv ==
  Alive =>
    /\ pc["irq"] \in {"handle", "alloc", "write", "send", "clear", "wait"} => handling # None
    /\ pc["main"] = "wait" /\ m_rsp_wait /\ pc["irq"] \in {"idle", "drain", "handle", "alloc"}
         => Underway(call["main"])
    /\ pc["irq"] = "wait" /\ m_rsp_wait => Underway(call["irq"])
    /\ \A c \in Context : Runs(c) /\ pc[c] \in {"send", "wait"} /\ ~m_rsp_wait => wake

(* The command of a call that waits is one that has a response. *)
LEMMA WaitsForCall ==
  ASSUME TypeOK, ContextInv, NEW c \in Context, pc[c] = "wait"
  PROVE  call[c] \in Cmd /\ Kind[call[c]] = "call"
  BY DEF TypeOK, ContextInv

(* A step of one context: where both are afterwards, and what it does to the flag
   and to the latch. *)
LEMMA CodeFacts ==
  ASSUME TypeOK, ContextInv, NEW c \in Context, CodeStep(c)
  PROVE  /\ \A d \in Context \ {c} : pc'[d] = pc[d] /\ call'[d] = call[d]
         /\ Runs(c) /\ Alive'
         /\ \/ /\ pc[c] = "alloc" /\ pc'[c] = "write" /\ handling' = handling
               /\ Kind[call[c]] = "reset" \/ ~m_rsp_wait
               /\ UNCHANGED <<call, m_rsp_wait, wake>>
            \/ /\ pc[c] = "alloc"
               /\ pc'[c] = IF c = EventContext /\ handling # None THEN "handle" ELSE "idle"
               /\ handling' = handling /\ UNCHANGED <<m_rsp_wait, wake>>
            \/ /\ pc[c] = "write" /\ pc'[c] = "send" /\ handling' = handling
               /\ m_rsp_wait' = TRUE /\ UNCHANGED <<call, wake>>
            \/ /\ pc[c] = "send" /\ pc'[c] \in {"wait", "clear"} /\ handling' = handling
               /\ Underway(call[c])' /\ UNCHANGED <<call, m_rsp_wait, wake>>
            \/ /\ pc[c] = "clear" /\ m_rsp_wait' = FALSE /\ handling' = handling
               /\ pc'[c] = IF c = EventContext /\ handling # None THEN "handle" ELSE "idle"
               /\ wake' = wake
            \/ /\ pc[c] = "wait" /\ wake /\ handling' = handling
               /\ \/ m_rsp_wait /\ m_rsp_wait' /\ UNCHANGED <<pc, call>>
                  \/ /\ ~m_rsp_wait /\ ~m_rsp_wait'
                     /\ pc'[c] = IF c = EventContext /\ handling # None THEN "handle" ELSE "idle"
            \/ /\ pc[c] = "drain" /\ pc'[c] = "handle" /\ handling' = mbox[r_idx] /\ len > 0
               /\ UNCHANGED <<call, m_rsp_wait, wake>>
            \/ /\ pc[c] = "drain" /\ pc'[c] = "idle" /\ handling' = handling
               /\ wake' = (wake \/ c = "irq") /\ UNCHANGED <<call, m_rsp_wait>>
            \/ /\ pc[c] = "handle" /\ pc'[c] = "alloc" /\ handling' = handling
               /\ UNCHANGED <<m_rsp_wait, wake>>
            \/ /\ pc[c] = "handle" /\ pc'[c] = "drain" /\ handling' = None
               /\ UNCHANGED <<call, m_rsp_wait, wake>>
<1> USE Tables DEF Runs, Alive
<1>1. CASE TxAlloc(c)
  BY <1>1 DEF TxAlloc, Goto, Return, rspVars, evtVars, TypeOK
<1>2. CASE CmdWrite(c)
  BY <1>2 DEF CmdWrite, Goto, evtVars, TypeOK
<1>3. CASE TxSend(c)
  <2>1. Underway(call[c])'
    BY <1>3 DEF TxSend, Underway
  <2> QED BY <1>3, <2>1 DEF TxSend, Goto, evtVars, TypeOK
<1>4. CASE ClearWait(c)
  BY <1>4 DEF ClearWait, Return, Goto, evtVars, TypeOK
<1>5. CASE RspWait(c)
  BY <1>5 DEF RspWait, Return, Goto, callVars, rspVars, evtVars, TypeOK
<1>6. CASE EvtGet(c)
  BY <1>6 DEF EvtGet, Goto, rspVars, TypeOK
<1>7. CASE EvtNone(c)
  BY <1>7 DEF EvtNone, Goto, rspVars, evtVars, TypeOK
<1>8. CASE EvtHandler(c)
  BY <1>8 DEF EvtHandler, Goto, rspVars, TypeOK
<1> QED BY <1>1, <1>2, <1>3, <1>4, <1>5, <1>6, <1>7, <1>8 DEF CodeStep

LEMMA StepWait == IInv /\ WaitInv /\ [Next]_vars => WaitInv'
<1> SUFFICES ASSUME IInv, WaitInv, [Next]_vars, Alive' PROVE WaitInv'
    BY DEF WaitInv
<1> USE HostAssumption DEF IInv, WaitInv
<1> TypeOK /\ ContextInv
    OBVIOUS
<1>1. Alive
  <2>1. ASSUME NEW c \in Context, CodeStep(c) PROVE Alive
    BY <2>1, CodeFacts DEF Runs
  <2>2. CASE SoftdeviceEvtGet \/ SoftdeviceEvtIrq \/ UartStep \/ PhyError \/ \E c \in Cmd : AppCalls(c)
    BY <2>2 DEF SoftdeviceEvtGet, SoftdeviceEvtIrq, UartStep, TxPktSentEvent, RxBufRequest,
                ResponseReceived, EventReceived, FrameReceived, PhyError, AppCalls, Runs
  <2>3. CASE ChipReceives \/ ChipResponds \/ ChipDelivers \/ ChipSchedules \/ ChipRaises
    BY <2>3 DEF ChipReceives, ChipResponds, ChipDelivers, ChipSchedules, ChipRaises, hostVars, Alive
  <2> QED BY <2>1, <2>2, <2>3 DEF Next, vars, Alive
(* As long as the flag stays up, what is waited for stays under way. *)
<1>2. ASSUME Next, m_rsp_wait', NEW c \in Context, pc[c] = "wait", Underway(call[c]),
             call'[c] = call[c]
      PROVE  Underway(call[c])'
  <2>1. PICK d \in Cmd : d = call[c]
    BY <1>2, WaitsForCall
  <2>2. ~ResponseReceived
    BY <1>2 DEF ResponseReceived, Alive
  <2>3. Kind[d] = "call" /\ Underway(d)
    BY <1>2, <2>1, WaitsForCall
  <2>4. Underway(d)'
    BY <1>2, <2>2, <2>3, UnderwayKept
  <2> QED BY <1>2, <2>1, <2>4
<1>3. ASSUME Next, UNCHANGED <<pc, call, handling>>,
             (m_rsp_wait' = m_rsp_wait /\ wake' = wake) \/ wake',
             m_rsp_wait' => m_rsp_wait
      PROVE  WaitInv'
  BY <1>1, <1>2, <1>3 DEF Runs, Context
<1>4. ASSUME NEW c \in Context, CodeStep(c) PROVE WaitInv'
  <2>1. Next
    BY <1>4 DEF Next
  <2>2. CASE c = "irq"
    <3>1. pc'["main"] = pc["main"] /\ call'["main"] = call["main"]
      BY <1>4, <2>2, CodeFacts DEF Context
    <3>2. IrqEvents
      BY <1>4, <2>2, CodeFacts DEF ContextInv, Context
    <3> DEFINE InCall == {"handle", "alloc", "write", "send", "clear", "wait"}
    <3>3. pc'["irq"] \in InCall => handling' # None
      <4>1. pc["irq"] \in InCall => handling # None
        BY <1>1
      <4>2. len > 0 => mbox[r_idx] # None
        BY HeadIsEvent
      <4>3. pc["irq"] = "handle" /\ pc'["irq"] = "alloc" => handling' = handling
        BY <1>4, <2>2, CodeFacts
      <4> QED BY <1>4, <2>2, <4>1, <4>2, CodeFacts
    <3>4. pc'["irq"] \in {"idle", "drain", "handle", "alloc"} /\ m_rsp_wait' =>
            m_rsp_wait /\ pc["irq"] \in {"idle", "drain", "handle", "alloc"}
      BY <1>4, <2>2, CodeFacts
    <3>5. ASSUME pc'["main"] = "wait", m_rsp_wait',
                 pc'["irq"] \in {"idle", "drain", "handle", "alloc"}
          PROVE  Underway(call["main"])'
      BY <1>1, <1>2, <2>1, <3>1, <3>4, <3>5 DEF Context
    <3>6. ASSUME pc'["irq"] = "wait", m_rsp_wait' PROVE Underway(call["irq"])'
      BY <1>1, <1>2, <1>4, <2>1, <2>2, <3>6, CodeFacts DEF Context
    <3>7. pc'["irq"] = "idle" => wake'
      BY <1>1, <1>4, <2>2, <3>2, CodeFacts DEF EventContext
    <3>8. pc'["irq"] \in {"send", "wait"} /\ ~m_rsp_wait' => wake'
      <4>1. pc["irq"] \in {"send", "wait"} /\ ~m_rsp_wait => wake
        BY <1>1 DEF Runs, Context
      <4>2. pc["irq"] = "wait" => handling # None
        BY <1>1
      <4>3. pc'["irq"] = "send" => m_rsp_wait'
        BY <1>4, <2>2, <4>2, CodeFacts DEF EventContext
      <4>4. pc'["irq"] = "wait" /\ pc["irq"] = "wait" => m_rsp_wait'
        BY <1>4, <2>2, <3>2, <4>2, CodeFacts DEF EventContext
      <4>5. pc'["irq"] = "wait" /\ pc["irq"] # "wait" =>
              pc["irq"] = "send" /\ m_rsp_wait' = m_rsp_wait /\ wake' = wake
        BY <1>4, <2>2, <3>2, <4>2, CodeFacts DEF EventContext
      <4> QED BY <4>1, <4>3, <4>4, <4>5
    <3> QED BY <1>1, <3>3, <3>5, <3>6, <3>7, <3>8 DEF Runs, Context
  <2>3. CASE c = "main"
    <3>1. pc'["irq"] = pc["irq"] /\ pc["irq"] = "idle"
      BY <1>4, <2>3, CodeFacts DEF Runs, Context
    <3>2. ASSUME pc'["main"] = "wait", m_rsp_wait' PROVE Underway(call["main"])'
      BY <1>1, <1>2, <1>4, <2>1, <2>3, <3>1, <3>2, CodeFacts DEF Context
    <3>3. pc'["main"] \in {"send", "wait"} /\ ~m_rsp_wait' => wake'
      <4>1. pc["main"] \in {"send", "wait"} /\ ~m_rsp_wait => wake
        BY <1>1, <3>1 DEF Runs, Context
      <4>2. pc'["main"] = "send" => m_rsp_wait'
        BY <1>4, <2>3, CodeFacts
      <4>3. pc'["main"] = "wait" /\ pc["main"] = "wait" => m_rsp_wait'
        BY <1>4, <2>3, CodeFacts
      <4>4. pc'["main"] = "wait" /\ pc["main"] # "wait" =>
              pc["main"] = "send" /\ m_rsp_wait' = m_rsp_wait /\ wake' = wake
        BY <1>4, <2>3, CodeFacts
      <4> QED BY <4>1, <4>2, <4>3, <4>4
    <3> QED BY <1>1, <3>1, <3>2, <3>3 DEF Runs, Context
  <2> QED BY <2>2, <2>3 DEF Context
<1>5. CASE SoftdeviceEvtGet
  <2>1. UNCHANGED <<call, handling, m_rsp_wait, wake>> /\ pc'["main"] = "drain" /\ pc'["irq"] = pc["irq"]
        /\ pc["irq"] = "idle"
    BY <1>5 DEF SoftdeviceEvtGet, Runs, Goto, rspVars, Context, TypeOK
  <2> QED BY <2>1, <1>1 DEF Runs, Context
<1>6. CASE SoftdeviceEvtIrq
  <2>1. UNCHANGED <<call, handling, m_rsp_wait>> /\ pc'["main"] = pc["main"] /\ pc["irq"] = "idle"
        /\ pc'["irq"] \in {"idle", "drain"} /\ wake'
    BY <1>6 DEF SoftdeviceEvtIrq, Goto, rspVars, Context, TypeOK
  <2>2. Next
    BY <1>6 DEF Next
  <2> QED BY <1>1, <1>2, <2>1, <2>2 DEF Runs, Context
<1>7. CASE ResponseReceived
  <2>1. m_rsp_wait' = FALSE /\ wake' /\ UNCHANGED <<pc, call, handling>>
    BY <1>7 DEF ResponseReceived, FrameReceived, callVars, evtVars, Alive
  <2> QED BY <1>1, <2>1
<1>8. CASE TxPktSentEvent \/ RxBufRequest \/ EventReceived \/ PhyError
  <2>1. UNCHANGED <<pc, call, handling>> /\ wake'
    BY <1>8 DEF TxPktSentEvent, RxBufRequest, EventReceived, FrameReceived, PhyError, callVars,
                evtVars
  <2>2. m_rsp_wait' => m_rsp_wait
    BY <1>8 DEF TxPktSentEvent, RxBufRequest, EventReceived, PhyError, rspVars
  <2> QED BY <1>3, <1>8, <2>1, <2>2 DEF Next, UartStep
<1>9. ASSUME NEW c \in Cmd, AppCalls(c) PROVE WaitInv'
  <2>1. UNCHANGED <<handling, m_rsp_wait, wake>> /\ pc'["main"] = "alloc" /\ pc'["irq"] = pc["irq"]
        /\ pc["irq"] = "idle"
    BY <1>9 DEF AppCalls, Runs, Goto, rspVars, evtVars, Context, TypeOK
  <2> QED BY <2>1, <1>1 DEF Runs, Context
<1>10. CASE ChipReceives \/ ChipResponds \/ ChipDelivers \/ ChipSchedules \/ ChipRaises
  <2>1. UNCHANGED <<pc, call, handling, m_rsp_wait, wake>>
    BY <1>10 DEF ChipReceives, ChipResponds, ChipDelivers, ChipSchedules, ChipRaises, hostVars,
                 rspVars, evtVars, callVars
  <2> QED BY <1>3, <1>10, <2>1 DEF Next
<1>11. CASE UNCHANGED vars
  BY <1>1, <1>11 DEF vars, txVars, rspVars, evtVars, callVars, chipVars, Underway, Runs, Alive
<1> QED BY <1>4, <1>5, <1>6, <1>7, <1>8, <1>9, <1>10, <1>11 DEF Next, UartStep

(* A context that waits for a response does not wait for nothing: for all calls
   and events, with errors, resets and calls in the interrupt. *)
THEOREM NoWaitForNothing == Spec => []WaitWillEnd
<1>1. Init => WaitInv
  BY DEF Init, WaitInv, Context
<1>2. ASSUME WaitInv PROVE WaitWillEnd
  BY <1>2 DEF WaitInv, WaitWillEnd, Runs, Context
<1> QED BY <1>1, <1>2, StepWait, Invariance, PTL DEF Spec
=============================================================================
