------------------------------ MODULE SerSdHost ------------------------------
(***************************************************************************)
(* The host at the other end of the wire: the calls of the SoftDevice that *)
(* become commands (ser_sd_transport.c), the events that come back through *)
(* a mailbox to the SoftDevice handler (ser_softdevice_handler.c,          *)
(* app_mailbox.c, softdevice_handler.c), over the same ser_hal_transport   *)
(* that the chip uses.  The chip is CommandLink, which SerConn implements, *)
(* with a pipe of frames in each direction, which SerPhyUart implements.   *)
(*                                                                         *)
(* Two contexts call the SoftDevice: the main loop and, when events are    *)
(* handled where they arrive, the SoftDevice event interrupt, which runs   *)
(* to its end before the main loop goes on.  The UART interrupt is above   *)
(* both, and each of its PHY events is one step.                           *)
(***************************************************************************)
EXTENDS SerHalTransport, Naturals, Sequences

CONSTANTS
  Cmd,          (* calls of the SoftDevice, each made at most once         *)
  Kind,         (* what each is: see below                                 *)
  Op,           (* its opcode, which its response repeats                  *)
  MaxEvents,    (* BLE events are numbered as the SoftDevice raises them   *)
  Reply,        (* the call the handler of an event makes, or None         *)
  MailboxSize,  (* SD_BLE_EVT_MAILBOX_QUEUE_SIZE                           *)
  IrqEvents,    (* events are handled in the interrupt, not scheduled      *)
  MaxErrors,    (* how many hardware errors the host's UART may report     *)
  None

(* "call": the response is waited for and decoded.  "reset": conn_systemreset;
   "off": sd_power_system_off.  These two have no response. *)
Kinds == {"call", "reset", "off"}

Event == 1..MaxEvents

ASSUME HostAssumption ==
  /\ Kind \in [Cmd -> Kinds]
  /\ Reply \in [Event -> Cmd \cup {None}]
  /\ MailboxSize \in Nat \ {0} /\ MaxErrors \in Nat /\ MaxEvents \in Nat
  /\ IrqEvents \in BOOLEAN
  /\ None \notin Cmd /\ None \notin Event

VARIABLES
  pc,              (* what each context is doing                           *)
  call,            (* the call it is making                                *)
  returned,        (* what each call has returned                          *)
  handling,        (* the event m_ble_evt_handler was called with          *)
  m_rsp_wait, m_rsp_dec_handler, m_return_value,
  txCmd,           (* the command in m_tx_buffer                           *)
  mbox, r_idx, w_idx, len,     (* sd_ble_evt_mailbox                       *)
  irqPending,      (* the SoftDevice event interrupt is pending            *)
  scheduled,       (* how many softdevice_evt_get the scheduler holds      *)
  wake,            (* the latch sd_app_evt_wait waits for                  *)
  stopped,         (* why the host stopped, or "no"                        *)
  errors,          (* hardware errors so far                               *)
  toChip, toHost,  (* frames on the wire                                   *)
  raised,          (* how many events the SoftDevice has raised            *)
  cmd, queue, gateOpen, sending, out   (* the chip, see CommandLink        *)

txVars   == <<txState, txCmd, toChip>>
rspVars  == <<m_rsp_wait, m_rsp_dec_handler, m_return_value>>
mboxVars == <<mbox, r_idx, w_idx, len>>
evtVars  == <<irqPending, scheduled, handling>>
chipVars == <<cmd, queue, gateOpen, sending, out, raised>>
callVars == <<pc, call, returned>>

vars == <<rxState, txVars, rspVars, mboxVars, evtVars, chipVars, callVars, toHost,
          wake, stopped, errors>>

Chip == INSTANCE CommandLink

Context == {"main", "irq"}
EventContext == IF IrqEvents THEN "irq" ELSE "main"
Pc == {"idle", "drain", "handle", "alloc", "write", "send", "clear", "wait"}
Stop == {"no", "NRF_ERROR_NO_MEM", "PHY_ERROR", "SYSTEM_OFF",
         "unexpected response", "wrong response", "no decoder"}
Frame == {<<"none">>} \cup {<<"resp", c>> : c \in Cmd} \cup {<<"evt", e>> : e \in Event}

TypeOK ==
  /\ rxState \in RxState /\ txState \in TxState
  /\ pc \in [Context -> Pc] /\ call \in [Context -> Cmd \cup {None}]
  /\ returned \in [Cmd -> Cmd \cup {"none", "refused", "error", "success"}]
  /\ handling \in Event \cup {None}
  /\ m_rsp_wait \in BOOLEAN /\ m_rsp_dec_handler \in Cmd \cup {None}
  /\ m_return_value \in Cmd \cup {"none", "error"}
  /\ txCmd \in Cmd \cup {None}
  /\ mbox \in [0..MailboxSize - 1 -> Event \cup {None}]
  /\ r_idx \in 0..MailboxSize - 1 /\ w_idx \in 0..MailboxSize - 1
  /\ len \in 0..MailboxSize
  /\ irqPending \in BOOLEAN /\ scheduled \in Nat /\ wake \in BOOLEAN
  /\ stopped \in Stop /\ errors \in 0..MaxErrors
  /\ toChip \in Seq(Cmd) /\ toHost \in Seq(Frame) /\ raised \in 0..MaxEvents
  /\ cmd \in Cmd \cup {None} /\ queue \in Seq(Event) /\ gateOpen \in BOOLEAN
  /\ sending \in {<<>>} \cup {<<e>> : e \in Event} /\ out \in Frame

Init ==
  /\ ser_hal_transport_opened
  /\ pc = [c \in Context |-> "idle"] /\ call = [c \in Context |-> None]
  /\ returned = [c \in Cmd |-> "none"] /\ handling = None
  /\ m_rsp_wait = FALSE /\ m_rsp_dec_handler = None /\ m_return_value = "none"
  /\ txCmd = None
  /\ mbox = [i \in 0..MailboxSize - 1 |-> None] /\ r_idx = 0 /\ w_idx = 0 /\ len = 0
  /\ irqPending = FALSE /\ scheduled = 0 /\ wake = FALSE
  /\ stopped = "no" /\ errors = 0
  /\ toChip = <<>> /\ toHost = <<>> /\ raised = 0
  /\ Chip!Init

Alive == stopped = "no"

(* Context c executes code; the main loop does not while the interrupt does. *)
Runs(c) == Alive /\ (c = "main" => pc["irq"] = "idle")

Goto(c, label) == pc' = [pc EXCEPT ![c] = label]

(* The wrapping of an index in dequeue and enqueue of app_mailbox.c. *)
Wrap(i) == IF i = MailboxSize THEN 0 ELSE i

(* The call that context c makes returns value, to the event handler that made
   it or to the application. *)
Return(c, value) ==
  /\ returned' = [returned EXCEPT ![call[c]] = value]
  /\ call' = [call EXCEPT ![c] = None]
  /\ Goto(c, IF c = EventContext /\ handling # None THEN "handle" ELSE "idle")
-----------------------------------------------------------------------------
(* The application, in its main loop, calls the SoftDevice.  The calls of event
   handlers are not its own. *)
AppCalls(c) ==
  /\ Runs("main") /\ pc["main"] = "idle"
  /\ returned[c] = "none" /\ \A e \in Event : Reply[e] # c
  /\ call' = [call EXCEPT !["main"] = c] /\ Goto("main", "alloc")
  /\ UNCHANGED <<rxState, txVars, rspVars, mboxVars, evtVars, chipVars, returned,
                 toHost, wake, stopped, errors>>

(* tx_buf_alloc of the middleware loops until ser_sd_transport_tx_alloc gives the
   buffer.  conn_systemreset asks the HAL transport, and once. *)
TxAlloc(c) ==
  /\ Runs(c) /\ pc[c] = "alloc"
  /\ Kind[call[c]] = "reset" \/ ~m_rsp_wait
  /\ \/ Step(tx_pkt_alloc, txState) /\ Goto(c, "write") /\ UNCHANGED <<call, returned>>
     \/ /\ Kind[call[c]] = "reset" /\ txState \notin DOMAIN tx_pkt_alloc
        /\ Return(c, "refused") /\ UNCHANGED txState
  /\ UNCHANGED <<rxState, txCmd, toChip, rspVars, mboxVars, evtVars, chipVars, toHost,
                 wake, stopped, errors>>

(* ser_sd_transport_cmd_write, in the order of its statements: the flag, the
   decoder and the transmission, and then the wait, or the flag again. *)
CmdWrite(c) ==
  /\ Runs(c) /\ pc[c] = "write"
  /\ m_rsp_wait' = TRUE
  /\ Goto(c, "send")
  /\ UNCHANGED <<rxState, txVars, m_rsp_dec_handler, m_return_value, mboxVars, evtVars,
                 chipVars, call, returned, toHost, wake, stopped, errors>>

TxSend(c) ==
  /\ Runs(c) /\ pc[c] = "send"
  /\ m_rsp_dec_handler' = IF Kind[call[c]] = "call" THEN call[c] ELSE None
  /\ Step(tx_pkt_send, txState)
  /\ txCmd' = call[c]
  /\ Goto(c, IF Kind[call[c]] = "call" THEN "wait" ELSE "clear")
  /\ UNCHANGED <<rxState, toChip, m_rsp_wait, m_return_value, mboxVars, evtVars,
                 chipVars, call, returned, toHost, wake, stopped, errors>>

(* Mutant: a command without a response leaves the flag set. *)
ClearWaitForgets(c) ==
  /\ Runs(c) /\ pc[c] = "clear"
  /\ Return(c, "success")
  /\ UNCHANGED <<rxState, txVars, rspVars, mboxVars, evtVars,
                 chipVars, toHost, wake, stopped, errors>>

ClearWait(c) ==
  /\ Runs(c) /\ pc[c] = "clear"
  /\ m_rsp_wait' = FALSE
  /\ Return(c, "success")
  /\ UNCHANGED <<rxState, txVars, m_rsp_dec_handler, m_return_value, mboxVars, evtVars,
                 chipVars, toHost, wake, stopped, errors>>

(* Mutant: the wait ends with the first event, whatever it is. *)
RspWaitOnce(c) ==
  /\ Runs(c) /\ pc[c] = "wait" /\ wake
  /\ wake' = FALSE
  /\ Return(c, m_return_value)
  /\ UNCHANGED <<rxState, txVars, rspVars, mboxVars, evtVars, chipVars, toHost, stopped,
                 errors>>

(* ser_sd_rsp_wait: sd_app_evt_wait, which returns when an interrupt was handled
   since it last did, until the flag is down. *)
RspWait(c) ==
  /\ Runs(c) /\ pc[c] = "wait" /\ wake
  /\ wake' = FALSE
  /\ IF m_rsp_wait THEN UNCHANGED callVars ELSE Return(c, m_return_value)
  /\ UNCHANGED <<rxState, txVars, rspVars, mboxVars, evtVars, chipVars, toHost, stopped,
                 errors>>
-----------------------------------------------------------------------------
(* Mutant: the interrupt is taken, and the events are left where they are. *)
SoftdeviceEvtIrqForgets ==
  /\ Alive /\ irqPending /\ pc["irq"] = "idle"
  /\ irqPending' = FALSE /\ wake' = TRUE
  /\ UNCHANGED <<pc, rxState, txVars, rspVars, mboxVars, handling, scheduled, chipVars, call,
                 returned, toHost, stopped, errors>>

(* SOFTDEVICE_EVT_IRQHandler: the events are pulled here, or by the scheduler. *)
SoftdeviceEvtIrq ==
  /\ Alive /\ irqPending /\ pc["irq"] = "idle"
  /\ irqPending' = FALSE /\ wake' = TRUE
  /\ IF IrqEvents THEN Goto("irq", "drain") /\ UNCHANGED scheduled
                  ELSE scheduled' = scheduled + 1 /\ UNCHANGED pc
  /\ UNCHANGED <<rxState, txVars, rspVars, mboxVars, handling, chipVars, call, returned,
                 toHost, stopped, errors>>

(* app_sched_execute calls softdevice_evt_get. *)
SoftdeviceEvtGet ==
  /\ Runs("main") /\ pc["main"] = "idle" /\ scheduled > 0
  /\ scheduled' = scheduled - 1 /\ Goto("main", "drain")
  /\ UNCHANGED <<rxState, txVars, rspVars, mboxVars, irqPending, handling, chipVars,
                 call, returned, toHost, wake, stopped, errors>>

(* intern_softdevice_events_execute: sd_ble_evt_get takes the next event from the
   mailbox and its handler is called, until there is none. *)
EvtGet(c) ==
  /\ Runs(c) /\ pc[c] = "drain" /\ len > 0
  /\ handling' = mbox[r_idx]
  /\ r_idx' = Wrap(r_idx + 1) /\ len' = len - 1
  /\ Goto(c, "handle")
  /\ UNCHANGED <<rxState, txVars, rspVars, mbox, w_idx, irqPending, scheduled, chipVars,
                 call, returned, toHost, wake, stopped, errors>>

EvtNone(c) ==
  /\ Runs(c) /\ pc[c] = "drain" /\ len = 0
  /\ Goto(c, "idle") /\ wake' = (wake \/ c = "irq")
  /\ UNCHANGED <<rxState, txVars, rspVars, mboxVars, evtVars, chipVars, call, returned,
                 toHost, stopped, errors>>

(* The application's handler: it may call the SoftDevice before it returns. *)
EvtHandler(c) ==
  /\ Runs(c) /\ pc[c] = "handle"
  /\ LET r == Reply[handling]
     IN  IF r # None /\ returned[r] = "none"
         THEN call' = [call EXCEPT ![c] = r] /\ Goto(c, "alloc") /\ UNCHANGED handling
         ELSE handling' = None /\ Goto(c, "drain") /\ UNCHANGED call
  /\ UNCHANGED <<rxState, txVars, rspVars, mboxVars, irqPending, scheduled, chipVars,
                 returned, toHost, wake, stopped, errors>>
-----------------------------------------------------------------------------
(* SER_PHY_EVT_TX_PKT_SENT: the chip has the command.  After sd_power_system_off
   the host switches itself off. *)
TxPktSentEvent ==
  /\ Alive /\ Step(TxPktSent, txState)
  /\ toChip' = Append(toChip, txCmd) /\ wake' = TRUE
  /\ stopped' = IF Kind[txCmd] = "off" THEN "SYSTEM_OFF" ELSE "no"
  /\ UNCHANGED <<rxState, txCmd, rspVars, mboxVars, evtVars, chipVars, callVars, toHost,
                 errors>>

(* SER_PHY_EVT_RX_BUF_REQUEST. *)
RxBufRequest ==
  /\ Alive /\ toHost # <<>> /\ Step(BufRequested(TRUE), rxState)
  /\ wake' = TRUE
  /\ UNCHANGED <<txVars, rspVars, mboxVars, evtVars, chipVars, callVars, toHost,
                 stopped, errors>>

(* SER_PHY_EVT_RX_PKT_RECEIVED: the handler frees the buffer before it returns. *)
FrameReceived(type) ==
  /\ Alive /\ toHost # <<>> /\ Head(toHost)[1] = type
  /\ rxState \in DOMAIN PktReceived
  /\ rxState' = rx_pkt_free[PktReceived[rxState]]
  /\ toHost' = Tail(toHost) /\ wake' = TRUE

(* Mutant: a response is decoded, but does not end the wait. *)
ResponseReceivedStillWaits ==
  /\ FrameReceived("resp")
  /\ LET c == Head(toHost)[2] d == m_rsp_dec_handler
     IN \/ /\ ~m_rsp_wait
           /\ stopped' = "unexpected response" /\ UNCHANGED rspVars
        \/ /\ m_rsp_wait /\ d = None
           /\ stopped' = "no decoder" /\ UNCHANGED rspVars
        \/ /\ m_rsp_wait /\ d # None /\ Op[d] # Op[c]
           /\ stopped' = "wrong response" /\ UNCHANGED rspVars
        \/ /\ m_rsp_wait /\ d # None /\ Op[d] = Op[c]
           /\ m_return_value' = c
           /\ UNCHANGED <<m_rsp_wait, m_rsp_dec_handler, stopped>>
  /\ UNCHANGED <<txVars, mboxVars, evtVars, chipVars, callVars, errors>>

(* A response, in ser_sd_transport_rx_packet_handler.  A response nobody waits for
   is an error, and so is one that the decoder refuses; the decoder knows a
   response by the opcode alone. *)
ResponseReceived ==
  /\ FrameReceived("resp")
  /\ LET c == Head(toHost)[2] d == m_rsp_dec_handler
     IN \/ /\ ~m_rsp_wait
           /\ stopped' = "unexpected response" /\ UNCHANGED rspVars
        \/ /\ m_rsp_wait /\ d = None
           /\ stopped' = "no decoder" /\ UNCHANGED rspVars
        \/ /\ m_rsp_wait /\ d # None /\ Op[d] # Op[c]
           /\ stopped' = "wrong response" /\ UNCHANGED rspVars
        \/ /\ m_rsp_wait /\ d # None /\ Op[d] = Op[c]
           /\ m_return_value' = c /\ m_rsp_wait' = FALSE
           /\ UNCHANGED <<m_rsp_dec_handler, stopped>>
  /\ UNCHANGED <<txVars, mboxVars, evtVars, chipVars, callVars, errors>>

(* Mutant: the mailbox overwrites when it is full. *)
EventReceivedOverwrites ==
  /\ FrameReceived("evt")
  /\ mbox' = [mbox EXCEPT ![w_idx] = Head(toHost)[2]]
  /\ w_idx' = Wrap(w_idx + 1)
  /\ len' = IF len < MailboxSize THEN len + 1 ELSE len
  /\ irqPending' = TRUE
  /\ UNCHANGED <<txVars, rspVars, r_idx, scheduled, handling, chipVars, callVars,
                 stopped, errors>>

(* An event, down to ser_softdevice_evt_handler: app_mailbox_put, whose error is
   fatal, and the SoftDevice event interrupt is set pending. *)
EventReceived ==
  /\ FrameReceived("evt")
  /\ \/ /\ len = MailboxSize
        /\ stopped' = "NRF_ERROR_NO_MEM"
        /\ UNCHANGED <<mboxVars, irqPending>>
     \/ /\ len < MailboxSize
        /\ mbox' = [mbox EXCEPT ![w_idx] = Head(toHost)[2]]
        /\ w_idx' = Wrap(w_idx + 1) /\ len' = len + 1
        /\ irqPending' = TRUE
        /\ UNCHANGED <<r_idx, stopped>>
  /\ UNCHANGED <<txVars, rspVars, scheduled, handling, chipVars, callVars, errors>>

(* SER_PHY_EVT_HW_ERROR, at the first byte of a frame, which arrives all the same
   and late.  It ends the wait; but during a transmission or a reception the HAL
   transport fails to free the buffer, which is fatal. *)
PhyError ==
  /\ Alive /\ errors < MaxErrors
  /\ errors' = errors + 1 /\ wake' = TRUE
  /\ IF txState = "TRANSMITTING" \/ rxState = "RECEIVING"
     THEN stopped' = "PHY_ERROR" /\ UNCHANGED rspVars
     ELSE /\ m_return_value' = IF m_rsp_wait THEN "error" ELSE m_return_value
          /\ m_rsp_wait' = FALSE
          /\ UNCHANGED <<m_rsp_dec_handler, stopped>>
  /\ UNCHANGED <<rxState, txVars, mboxVars, evtVars, chipVars, callVars, toHost>>
-----------------------------------------------------------------------------
hostVars == <<rxState, txState, txCmd, rspVars, mboxVars, evtVars, callVars, wake,
              stopped, errors>>

(* The chip: it takes a command when it has answered the one before, restarts
   for a reset, and puts responses and events on the wire.  Whoever resets it gives
   it the time to start again: conn_systemreset does not wait, and a command that
   comes meanwhile would be lost, and its call never return. *)
ChipReceives ==
  /\ toChip # <<>>
  /\ LET c == Head(toChip)
     IN  \/ Kind[c] = "call" /\ Chip!Submit(c)
         \/ Kind[c] = "reset" /\ cmd = None /\ Chip!Restart
  /\ toChip' = Tail(toChip)
  /\ UNCHANGED <<hostVars, toHost, raised>>

ChipResponds ==
  /\ Chip!Respond /\ toHost' = Append(toHost, out')
  /\ UNCHANGED <<hostVars, toChip, raised>>

ChipDelivers ==
  /\ Chip!Deliver /\ toHost' = Append(toHost, out')
  /\ UNCHANGED <<hostVars, toChip, raised>>

ChipRaises ==
  /\ raised < MaxEvents /\ Chip!Raise(raised + 1)
  /\ raised' = raised + 1
  /\ UNCHANGED <<hostVars, toChip, toHost>>

ChipSchedules ==
  /\ Chip!OpenGate \/ Chip!CloseGate \/ Chip!Take
  /\ UNCHANGED <<hostVars, toChip, toHost, raised>>
-----------------------------------------------------------------------------
(* A step of context c within a call or a handler. *)
CodeStep(c) ==
  \/ TxAlloc(c) \/ CmdWrite(c) \/ TxSend(c) \/ ClearWait(c) \/ RspWait(c)
  \/ EvtGet(c) \/ EvtNone(c) \/ EvtHandler(c)

UartStep == TxPktSentEvent \/ RxBufRequest \/ ResponseReceived \/ EventReceived

Next ==
  \/ \E c \in Context : CodeStep(c)
  \/ SoftdeviceEvtGet \/ SoftdeviceEvtIrq
  \/ UartStep
  \/ PhyError
  \/ \E c \in Cmd : AppCalls(c)
  \/ ChipReceives \/ ChipResponds \/ ChipDelivers \/ ChipSchedules \/ ChipRaises

Spec == Init /\ [][Next]_vars

(* Both contexts run, interrupts are served, and the chip, as SerConn's
   CommandAnswered says, answers what it has received. *)
FairSpec ==
  /\ Spec
  /\ \A c \in Context : WF_vars(CodeStep(c))
  /\ WF_vars(SoftdeviceEvtGet) /\ WF_vars(SoftdeviceEvtIrq)
  /\ WF_vars(TxPktSentEvent) /\ WF_vars(RxBufRequest)
  /\ WF_vars(ResponseReceived) /\ WF_vars(EventReceived)
  /\ WF_vars(ChipReceives) /\ WF_vars(ChipResponds) /\ WF_vars(ChipDelivers)
-----------------------------------------------------------------------------
(* Without a hardware error, a call returns what its own response said: no
   response comes that nobody waits for, and none is given to another call's
   decoder.  An error ends the wait, but the response still comes: it is then an
   error itself, or is taken for the response of a later call with its opcode.
   (m_rsp_wait, m_rsp_dec_handler and m_return_value, which
   ser_sd_transport_cmd_write shares with the UART interrupt without a critical
   section, and a protocol that does not number its commands.) *)
OwnAnswer ==
  errors = 0 =>
    /\ \A c \in Cmd : returned[c] \in {"none", "refused", "success", c}
    /\ stopped \notin {"PHY_ERROR", "unexpected response", "wrong response",
                       "no decoder"}

(* The mailbox hands the events to the SoftDevice handler one at a time, in the
   order they came, each once; when it is full the next one is refused, and that
   is the end.  (app_mailbox.c between the UART interrupt, which puts, and
   intern_softdevice_events_execute, which gets.) *)
Slot(i) == LET s == r_idx + i - 1 IN IF s < MailboxSize THEN s ELSE s - MailboxSize

Fifo == INSTANCE BoundedFifo WITH
  Oversized <- {}, Capacity <- MailboxSize,
  queue   <- [i \in 1..len |-> mbox[Slot(i)]],
  serving <- IF handling = None THEN <<>> ELSE <<handling>>,
  verdict <- IF stopped = "NRF_ERROR_NO_MEM" THEN stopped ELSE "NRF_SUCCESS"

MailboxIsFifo == Fifo!Spec

(* Command c, or its response, is still on its way. *)
Underway(c) ==
  \/ txState = "TRANSMITTING" /\ txCmd = c
  \/ \E i \in 1..Len(toChip) : toChip[i] = c
  \/ cmd = c
  \/ \E i \in 1..Len(toHost) : toHost[i] = <<"resp", c>>

(* A context does not sleep for nothing: when one waits for a response and is not
   about to look at the flag, the flag is up and the response is still to come,
   whatever errors, resets and calls of the other context came in between.
   (ser_sd_rsp_wait, whose sleep anything may end, and the one m_rsp_wait that
   both contexts and the UART interrupt write.) *)
WaitWillEnd ==
  \A c \in Context :
    Runs(c) /\ pc[c] = "wait" => wake \/ (m_rsp_wait /\ Underway(call[c]))

(* An event in the mailbox will be pulled: the interrupt is pending, the
   scheduler holds softdevice_evt_get, or a loop that has still to see the mailbox
   empty is under way.  (One pending bit and one scheduled call for any number of
   events, softdevice_handler.c:365, between the put and the loop's last get.) *)
EventsWillBePulled ==
  Alive /\ len > 0 =>
    irqPending \/ scheduled > 0 \/ pc[EventContext] = "drain" \/ handling # None

(* A call of the SoftDevice returns: the buffer comes free, the response or an
   error ends the wait, and the wait does not miss it (ser_sd_rsp_wait goes to
   sleep before it looks at the flag). *)
CallsReturn ==
  \A c \in Context : (call[c] # None) ~> (call[c] = None \/ ~Alive)
=============================================================================
