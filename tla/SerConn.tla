------------------------------- MODULE SerConn -------------------------------
(***************************************************************************)
(* The connectivity chip as a whole: the main loop of normal_mode.c with   *)
(* the event encoder and the command decoders it runs, the handlers of the *)
(* UART interrupt above it (ser_phy, ser_hal_transport and                 *)
(* ser_conn_hal_transport_event_handle, one atomic step for each PHY       *)
(* event), the SoftDevice event interrupt, and the host at the other end   *)
(* of the wire, which keeps at most one command outstanding.               *)
(*                                                                         *)
(* The scheduler's queue is the FIFO that AppScheduler implements.  An     *)
(* interrupt may come between any two steps of the main loop; a step of    *)
(* the main loop ends wherever the interrupts share state with it.         *)
(***************************************************************************)
EXTENDS SerHalTransport, Integers, Sequences

CONSTANTS
  Cmd,          (* commands the host may send                              *)
  Kind,         (* what each command is to the chip, see below             *)
  Event,        (* BLE events the SoftDevice may raise                     *)
  FitsSlot,     (* those not larger than SCHED_MAX_EVENT_DATA_SIZE         *)
  Encodable,    (* those ble_event_enc supports                            *)
  EncodeFails,  (* of these, those it refuses with another code            *)
  QueueSize,    (* SCHED_QUEUE_SIZE                                        *)
  PauseMax,     (* UINT32_MAX, where the pause counter saturates           *)
  SlowWire,     (* a frame takes longer to transmit than the main loop     *)
                (* takes for the statement that follows its sending        *)
  PacedEvents,  (* the SoftDevice raises no event while the queue is full  *)
  HwErrors,     (* parity and overrun errors may happen on the wire        *)
  None

(* "ok": a command with a codec, well formed.  "dtm", "reset": the commands of
   these packet types.  "unsupported": an opcode that is not in conn_mw_item.
   "malformed": one its codec refuses.  "unknown": a packet type that is none
   of the three.  "oversize": a packet larger than the reception buffer. *)
Kinds == {"ok", "dtm", "reset", "unsupported", "malformed", "unknown", "oversize"}

ASSUME ConnAssumption ==
  /\ Kind \in [Cmd -> Kinds]
  /\ FitsSlot \subseteq Event /\ Encodable \subseteq Event
  /\ EncodeFails \subseteq Encodable
  /\ QueueSize \in Nat \ {0} /\ PauseMax \in Nat /\ PauseMax >= 2
  /\ SlowWire \in BOOLEAN /\ PacedEvents \in BOOLEAN /\ HwErrors \in BOOLEAN
  /\ None \notin Cmd /\ None \notin Event

VARIABLES
  pc,          (* the next step of the main loop                           *)
  queue,       (* events in the application scheduler                      *)
  paused,      (* m_scheduler_paused_counter                               *)
  cur,         (* the event ser_conn_ble_event_encoder was called with     *)
  toProcess,   (* m_rx_pkt_to_process                                      *)
  dtmReady,    (* m_is_ready_to_enter_dtm                                  *)
  rxBuf,       (* the packet in m_rx_buffer                                *)
  txFrame,     (* the packet in m_tx_buffer                                *)
  wake,        (* the event latch sd_app_evt_wait waits for                *)
  fault,       (* the code app_error_fault_handler was called with         *)
  outstanding, (* host: the command that waits for its response            *)
  wire,        (* how far that command has come on the wire                *)
  out          (* host: the last frame it received                         *)

vars == <<rxState, txState, pc, queue, paused, cur, toProcess, dtmReady, rxBuf,
          txFrame, wake, fault, outstanding, wire, out>>

mainVars == <<pc, cur, dtmReady, txFrame>>
hostVars == <<outstanding, out>>

Pc == {"sched_check", "sched_get", "evt_alloc", "evt_send", "evt_pause",
       "rx_check", "cmd_alloc", "cmd_send", "rx_free", "idle", "reset", "dtm"}
Fault == {"none", "SER_WARNING_CODE", "NRF_ERROR_INTERNAL", "NRF_ERROR_NO_MEM",
          "NRF_ERROR_INVALID_LENGTH", "PHY_ERROR"}
Frame == {<<"none">>} \cup {<<"resp", c>> : c \in Cmd}
                      \cup {<<"evt", e>> : e \in Event}

TypeOK ==
  /\ rxState \in RxState /\ txState \in TxState
  /\ pc \in Pc /\ fault \in Fault
  /\ queue \in Seq(FitsSlot) /\ Len(queue) <= QueueSize
  /\ paused \in 0..PauseMax
  /\ cur \in Event \cup {None}
  /\ toProcess \in BOOLEAN /\ dtmReady \in BOOLEAN /\ wake \in BOOLEAN
  /\ rxBuf \in Cmd \cup {None} /\ outstanding \in Cmd \cup {None}
  /\ txFrame \in Frame /\ out \in Frame
  /\ wire \in {"none", "header", "payload", "short"}

(* The state after main and normal_mode have initialised everything. *)
Init ==
  /\ ser_hal_transport_opened
  /\ pc = "sched_check" /\ queue = <<>> /\ paused = 0 /\ cur = None
  /\ toProcess = FALSE /\ dtmReady = FALSE
  /\ rxBuf = None /\ txFrame = <<"none">> /\ wake = FALSE /\ fault = "none"
  /\ outstanding = None /\ wire = "none" /\ out = <<"none">>

(* The chip executes code: app_error_fault_handler masks the interrupts and
   loops, dtm_start never returns. *)
Alive == fault = "none" /\ pc # "dtm"

Fail(code) == fault' = code

app_sched_pause == paused' = IF paused < PauseMax THEN paused + 1 ELSE paused
app_sched_resume == paused' = IF paused > 0 THEN paused - 1 ELSE paused
-----------------------------------------------------------------------------
(* The host sends a command when no other one is outstanding. *)
HostSend(c) ==
  /\ Alive /\ outstanding = None
  /\ outstanding' = c /\ wire' = "header"
  /\ UNCHANGED <<rxState, txState, mainVars, queue, paused, toProcess, rxBuf, wake,
                 fault, out>>

(* Mutant: the reception of a packet does not pause the scheduler. *)
RxBufRequestNoPause ==
  /\ Alive /\ wire = "header"
  /\ Step(BufRequested(Kind[outstanding] # "oversize"), rxState)
  /\ wire' = "payload" /\ wake' = TRUE
  /\ UNCHANGED <<txState, mainVars, queue, paused, toProcess, rxBuf, fault, hostVars>>

(* SER_PHY_EVT_RX_BUF_REQUEST: the header of a command has arrived. *)
RxBufRequest ==
  /\ Alive /\ wire = "header"
  /\ Step(BufRequested(Kind[outstanding] # "oversize"), rxState)
  /\ app_sched_pause
  /\ wire' = "payload" /\ wake' = TRUE
  /\ UNCHANGED <<txState, mainVars, queue, toProcess, rxBuf, fault, hostVars>>

(* Mutant: the main loop is not woken for the packet. *)
RxPktReceivedAsleep ==
  /\ Alive /\ wire = "payload"
  /\ Step(PktReceived, rxState)
  /\ rxBuf' = outstanding /\ toProcess' = TRUE
  /\ wire' = "none"
  /\ UNCHANGED <<txState, mainVars, queue, paused, wake, fault, hostVars>>

(* Mutant: the flag that announces the packet to the main loop is not set. *)
RxPktReceivedUnseen ==
  /\ Alive /\ wire = "payload"
  /\ Step(PktReceived, rxState)
  /\ rxBuf' = outstanding
  /\ wire' = "none" /\ wake' = TRUE
  /\ UNCHANGED <<txState, mainVars, queue, paused, toProcess, fault, hostVars>>

(* The rest of the command has arrived: SER_PHY_EVT_RX_PKT_RECEIVED. *)
RxPktReceived ==
  /\ Alive /\ wire = "payload"
  /\ Step(PktReceived, rxState)
  /\ rxBuf' = outstanding /\ toProcess' = TRUE
  /\ wire' = "none" /\ wake' = TRUE
  /\ UNCHANGED <<txState, mainVars, queue, paused, fault, hostVars>>

(* SER_PHY_EVT_RX_PKT_DROPPED is reported as a warning, and the fault handler
   does not return to the state change that would follow. *)
RxPktDropped ==
  /\ Alive /\ wire = "payload" /\ rxState \in DOMAIN PktDropped
  /\ Fail("SER_WARNING_CODE")
  /\ UNCHANGED <<rxState, txState, mainVars, queue, paused, toProcess, rxBuf, wake,
                 hostVars, wire>>

(* While a buffer request is pending the PHY has nowhere to put a byte and
   discards it: app_uart_fifo.c re-enables the reception interrupt that
   ser_phy_uart_rx has masked.  The packet stays short of that byte, so its
   reception never ends. *)
RxByteLost ==
  /\ Alive /\ wire = "payload" /\ rxState = "RECEIVED_PENDING_BUF_REQ"
  /\ wire' = "short"
  /\ UNCHANGED <<rxState, txState, mainVars, queue, paused, toProcess, rxBuf, wake,
                 fault, hostVars>>

(* SER_PHY_EVT_HW_ERROR.  Whether freeing a buffer through the stale pointer of
   the event fails first or not, the end is a fatal error. *)
PhyError ==
  /\ Alive /\ HwErrors
  /\ Fail("PHY_ERROR")
  /\ UNCHANGED <<rxState, txState, mainVars, queue, paused, toProcess, rxBuf, wake,
                 hostVars, wire>>

(* Mutant: the end of a transmission does not resume the scheduler. *)
TxPktSentEventNoResume ==
  /\ Alive
  /\ SlowWire => pc \notin {"evt_pause", "rx_free"}
  /\ txState \in DOMAIN TxPktSent
  /\ out' = txFrame /\ wake' = TRUE
  /\ outstanding' = IF txFrame[1] = "resp" THEN None ELSE outstanding
  /\ IF dtmReady THEN ser_hal_transport_close /\ pc' = "dtm"
                 ELSE Step(TxPktSent, txState) /\ UNCHANGED <<rxState, pc>>
  /\ UNCHANGED <<cur, dtmReady, txFrame, queue, paused, toProcess, rxBuf, fault, wire>>

(* SER_PHY_EVT_TX_PKT_SENT: the last byte has left; the host has the frame. *)
TxPktSentEvent ==
  /\ Alive
  /\ SlowWire => pc \notin {"evt_pause", "rx_free"}
  /\ txState \in DOMAIN TxPktSent
  /\ app_sched_resume
  /\ out' = txFrame /\ wake' = TRUE
  /\ outstanding' = IF txFrame[1] = "resp" THEN None ELSE outstanding
  /\ IF dtmReady THEN ser_hal_transport_close /\ pc' = "dtm"
                 ELSE Step(TxPktSent, txState) /\ UNCHANGED <<rxState, pc>>
  /\ UNCHANGED <<cur, dtmReady, txFrame, queue, toProcess, rxBuf, fault, wire>>

(* ser_conn_ble_event_handle, in the SoftDevice event interrupt. *)
BleEvent(e) ==
  /\ Alive
  /\ PacedEvents => Len(queue) < QueueSize
  /\ \/ /\ e \notin FitsSlot
        /\ Fail("NRF_ERROR_INVALID_LENGTH")
        /\ UNCHANGED <<queue, wake>>
     \/ /\ e \in FitsSlot /\ Len(queue) = QueueSize
        /\ Fail("NRF_ERROR_NO_MEM")
        /\ UNCHANGED <<queue, wake>>
     \/ /\ e \in FitsSlot /\ Len(queue) < QueueSize
        /\ queue' = Append(queue, e) /\ wake' = TRUE
        /\ UNCHANGED fault
  /\ UNCHANGED <<rxState, txState, mainVars, paused, toProcess, rxBuf, hostVars, wire>>
-----------------------------------------------------------------------------
(* app_sched_execute: the scheduler is paused, or the queue is looked at. *)
SchedCheck ==
  /\ Alive /\ pc = "sched_check"
  /\ pc' = IF paused = 0 THEN "sched_get" ELSE "rx_check"
  /\ UNCHANGED <<rxState, txState, queue, paused, cur, toProcess, dtmReady, rxBuf,
                 txFrame, wake, fault, hostVars, wire>>

SchedGet ==
  /\ Alive /\ pc = "sched_get"
  /\ \/ /\ queue = <<>>
        /\ pc' = "rx_check" /\ UNCHANGED <<queue, cur>>
     \/ /\ queue # <<>>
        /\ cur' = Head(queue) /\ queue' = Tail(queue)
        /\ pc' = "evt_alloc"
  /\ UNCHANGED <<rxState, txState, paused, toProcess, dtmReady, rxBuf, txFrame, wake,
                 fault, hostVars, wire>>

(* ser_conn_ble_event_encoder: loop until the buffer is available, then encode
   the event.  An event that has no encoder gives the buffer back, and is then
   reported as a warning. *)
EvtAlloc ==
  /\ Alive /\ pc = "evt_alloc"
  /\ \/ /\ cur \in Encodable
        /\ Step(tx_pkt_alloc, txState)
        /\ pc' = "evt_send" /\ UNCHANGED fault
     \/ /\ cur \notin Encodable
        /\ txState \in DOMAIN tx_pkt_alloc
        /\ txState' = tx_pkt_free[tx_pkt_alloc[txState]]
        /\ Fail("SER_WARNING_CODE") /\ UNCHANGED pc
  /\ UNCHANGED <<rxState, queue, paused, cur, toProcess, dtmReady, rxBuf, txFrame,
                 wake, hostVars, wire>>

(* Any other code of ble_event_enc is fatal. *)
EvtSend ==
  /\ Alive /\ pc = "evt_send"
  /\ \/ /\ cur \in EncodeFails
        /\ Fail("NRF_ERROR_INVALID_LENGTH")
        /\ UNCHANGED <<txState, txFrame, pc>>
     \/ /\ cur \notin EncodeFails
        /\ Step(tx_pkt_send, txState)
        /\ txFrame' = <<"evt", cur>>
        /\ pc' = "evt_pause" /\ UNCHANGED fault
  /\ UNCHANGED <<rxState, queue, paused, cur, toProcess, dtmReady, rxBuf, wake, hostVars,
                 wire>>

(* Mutant: the encoder does not pause the scheduler. *)
EvtPauseNever ==
  /\ Alive /\ pc = "evt_pause"
  /\ pc' = "sched_check"
  /\ UNCHANGED <<rxState, txState, queue, paused, cur, toProcess, dtmReady, rxBuf,
                 txFrame, wake, fault, hostVars, wire>>

EvtPause ==
  /\ Alive /\ pc = "evt_pause"
  /\ app_sched_pause
  /\ pc' = "sched_check"
  /\ UNCHANGED <<rxState, txState, queue, cur, toProcess, dtmReady, rxBuf, txFrame,
                 wake, fault, hostVars, wire>>
-----------------------------------------------------------------------------
(* ser_conn_rx_process, and the packet type in ser_conn_received_pkt_process. *)
RxCheck ==
  /\ Alive /\ pc = "rx_check"
  /\ toProcess' = FALSE
  /\ \/ /\ ~toProcess
        /\ pc' = "idle" /\ UNCHANGED fault
     \/ /\ toProcess /\ Kind[rxBuf] = "unknown"
        /\ Fail("SER_WARNING_CODE") /\ UNCHANGED pc
     \/ /\ toProcess /\ Kind[rxBuf] = "reset"
        /\ pc' = "reset" /\ UNCHANGED fault
     \/ /\ toProcess /\ Kind[rxBuf] \notin {"unknown", "reset"}
        /\ pc' = "cmd_alloc" /\ UNCHANGED fault
  /\ UNCHANGED <<rxState, txState, queue, paused, cur, dtmReady, rxBuf, txFrame, wake,
                 hostVars, wire>>

(* Mutant: the received packet is freed before it is decoded. *)
CmdAllocFrees ==
  /\ Alive /\ pc = "cmd_alloc"
  /\ Step(tx_pkt_alloc, txState) /\ Step(rx_pkt_free, rxState)
  /\ pc' = "cmd_send"
  /\ UNCHANGED <<queue, paused, cur, toProcess, dtmReady, rxBuf, txFrame, wake,
                 fault, hostVars, wire>>

(* ser_conn_command_process, ser_conn_dtm_command_process: loop until the buffer
   is available. *)
CmdAlloc ==
  /\ Alive /\ pc = "cmd_alloc"
  /\ Step(tx_pkt_alloc, txState)
  /\ pc' = "cmd_send"
  /\ UNCHANGED <<rxState, queue, paused, cur, toProcess, dtmReady, rxBuf, txFrame,
                 wake, fault, hostVars, wire>>

(* The command is decoded and executed.  Its response is sent, unless it has no
   codec, or the codec fails, which leaves the buffer allocated. *)
CmdSend ==
  /\ Alive /\ pc = "cmd_send"
  /\ \/ /\ Kind[rxBuf] = "unsupported"
        /\ Fail("SER_WARNING_CODE")
        /\ UNCHANGED <<txState, mainVars>>
     \/ /\ Kind[rxBuf] = "malformed"
        /\ Fail("NRF_ERROR_INTERNAL")
        /\ UNCHANGED <<txState, mainVars>>
     \/ /\ Kind[rxBuf] \in {"ok", "dtm"}
        /\ Step(tx_pkt_send, txState)
        /\ txFrame' = <<"resp", rxBuf>>
        /\ dtmReady' = (dtmReady \/ Kind[rxBuf] = "dtm")
        /\ pc' = "rx_free" /\ UNCHANGED <<cur, fault>>
  /\ UNCHANGED <<rxState, queue, paused, toProcess, rxBuf, wake, hostVars, wire>>

(* Mutant: the packet of a command that was answered is not freed. *)
RxFreeNever ==
  /\ Alive /\ pc = "rx_free"
  /\ pc' = "idle"
  /\ UNCHANGED <<rxState, txState, queue, paused, cur, toProcess, dtmReady, rxBuf,
                 txFrame, wake, fault, hostVars, wire>>

(* Back in ser_conn_received_pkt_process, ser_hal_transport_rx_pkt_free. *)
RxFree ==
  /\ Alive /\ pc = "rx_free"
  /\ Step(rx_pkt_free, rxState)
  /\ pc' = "idle"
  /\ UNCHANGED <<txState, queue, paused, cur, toProcess, dtmReady, rxBuf, txFrame,
                 wake, fault, hostVars, wire>>

(* on_idle: sd_app_evt_wait returns when an interrupt was handled since it last
   returned. *)
Idle ==
  /\ Alive /\ pc = "idle" /\ wake
  /\ wake' = FALSE
  /\ pc' = "sched_check"
  /\ UNCHANGED <<rxState, txState, queue, paused, cur, toProcess, dtmReady, rxBuf,
                 txFrame, fault, hostVars, wire>>

(* ser_conn_reset_command_process.  The host sends nothing before the chip has
   started again. *)
SystemReset ==
  /\ Alive /\ pc = "reset"
  /\ rxState' = "IDLE" /\ txState' = "IDLE"
  /\ pc' = "sched_check" /\ queue' = <<>> /\ paused' = 0 /\ cur' = None
  /\ toProcess' = FALSE /\ dtmReady' = FALSE
  /\ rxBuf' = None /\ txFrame' = <<"none">> /\ wake' = FALSE
  /\ outstanding' = None /\ wire' = "none"
  /\ UNCHANGED <<fault, out>>
-----------------------------------------------------------------------------
MainStep ==
  \/ SchedCheck \/ SchedGet \/ EvtAlloc \/ EvtSend \/ EvtPause
  \/ RxCheck \/ CmdAlloc \/ CmdSend \/ RxFree \/ Idle \/ SystemReset

WireStep == RxBufRequest \/ RxPktReceived \/ RxPktDropped \/ TxPktSentEvent

Next ==
  \/ MainStep
  \/ WireStep
  \/ RxByteLost
  \/ PhyError
  \/ \E c \in Cmd : HostSend(c)
  \/ \E e \in Event : BleEvent(e)

Spec == Init /\ [][Next]_vars

(* The main loop is not starved by interrupts, and bytes that were sent arrive.
   Nothing obliges the host to send a command or the SoftDevice to raise an
   event. *)
FairSpec ==
  /\ Spec
  /\ WF_vars(MainStep)
  /\ WF_vars(RxBufRequest) /\ WF_vars(RxPktReceived) /\ WF_vars(TxPktSentEvent)
-----------------------------------------------------------------------------
(* The chip has begun to receive a command it has not answered. *)
CommandInChip == outstanding # None /\ wire # "header"

(* An event is transmitted, and the encoder has paused the scheduler for it. *)
EventOnWire == txState = "TRANSMITTING" /\ txFrame[1] = "evt" /\ pc # "evt_pause"

(* ser_conn_command_process and its callers use the reception buffer. *)
Processing == toProcess \/ pc \in {"cmd_alloc", "cmd_send", "rx_free"}

(* Every pause of the scheduler is matched by one resume: it is paused once for
   a command that waits for its response and once for an event on the wire,
   and not at all when there is neither, so that it can never stay paused.
   (app_sched_pause and app_sched_resume in ser_conn_handlers.c and
   ser_conn_event_encoder.c, called in three different contexts.) *)
PauseBalance ==
  Alive => paused = (IF CommandInChip THEN 1 ELSE 0) + (IF EventOnWire THEN 1 ELSE 0)

(* From the reception of a command to the end of its processing the reception
   buffer belongs to it: nothing can be received over it, and it is the command
   the host waits for until the response is sent.  (m_rx_pkt_to_process and
   m_rx_pkt_received_params are used without a critical section.) *)
CommandOwnsBuffer ==
  /\ Processing => rxState \in DOMAIN rx_pkt_free
  /\ toProcess \/ pc \in {"cmd_alloc", "cmd_send"} => rxBuf = outstanding
  /\ ~(toProcess /\ pc \in {"cmd_alloc", "cmd_send", "rx_free"})

(* The host's next command finds the reception buffer free: its first bytes never
   have to wait for memory, which the PHY cannot make them do (see SerPhyUart).
   The response goes out before the packet is freed, so it takes a wire that is
   slower than the main loop.  (ser_conn_received_pkt_process.) *)
BufferReady == Alive /\ wire = "header" => rxState = "IDLE"

(* None of the calls and PHY events comes in a state that refuses it: none of
   the "should not ... in current state" branches of ser_hal_transport.c is
   reached, whatever order packets, events and interrupts come in. *)
CallsLegal ==
  Alive =>
    /\ wire = "header" => rxState \in {"IDLE", "RECEIVED"}
    /\ wire = "payload" => rxState \notin {"CLOSED", "IDLE", "RECEIVED"}
    /\ pc \in {"evt_send", "cmd_send"} => txState = "TX_ALLOCATED"
    /\ pc = "rx_free" => rxState \in DOMAIN rx_pkt_free

(* The command the host waits for is always in exactly one place: on its way, in
   the reception buffer, with the main loop, or in its response on the wire.  So
   it cannot get lost between the interrupt and the loop, nor be answered twice.
   (ser_conn_handlers.c:80 and ser_conn_pkt_decoder.c:30 share it.) *)
CommandAt(place) ==
  \/ place = "wire" /\ wire # "none"
  \/ place = "buffer" /\ toProcess
  \/ place = "loop" /\ pc \in {"cmd_alloc", "cmd_send", "reset"}
  \/ place = "answer" /\ txState = "TRANSMITTING" /\ txFrame = <<"resp", outstanding>>

Place == {"wire", "buffer", "loop", "answer"}

CommandInWork ==
  Alive =>
    /\ outstanding # None <=> \E place \in Place : CommandAt(place)
    /\ \A p, q \in Place : CommandAt(p) /\ CommandAt(q) => p = q

(* The main loop never sleeps over work: when it is about to wait and nothing
   has come since it last woke, no packet waits for it and, unless the scheduler
   is paused, no event does; what comes next wakes it.  (normal_mode.c:88-113
   looks at both before on_idle, and interrupts come between the looks.) *)
WakeIsNotLost ==
  Alive /\ pc = "idle" /\ ~wake => ~toProcess /\ (paused = 0 => queue = <<>>)

(* The promises to the host, see CommandLink: a command belongs to the chip from
   its header on; an event leaves the queue when the scheduler takes it. *)
Link == INSTANCE CommandLink WITH
  cmd      <- IF wire = "header" THEN None ELSE outstanding,
  gateOpen <- pc = "sched_get",
  sending  <- IF pc \in {"evt_alloc", "evt_send"} THEN <<cur>>
              ELSE IF txState = "TRANSMITTING" /\ txFrame[1] = "evt"
                   THEN <<txFrame[2]>> ELSE <<>>

ImplementsLink == Link!Spec

(* Every command is answered, however many events the SoftDevice raises. *)
CommandAnswered ==
  \A c \in Cmd : (outstanding = c) ~> (outstanding # c)

(* While the host is quiet the events flow: the main loop wakes up for each of
   them, and the transmission of one lets the next one through. *)
EventsFlow ==
  <>[](outstanding = None) => []<>(queue = <<>> \/ pc = "evt_send")

(* ser_conn_handlers.c: a frame "was sent, so unblock the application scheduler
   to process a next event".  With nothing left to send or to answer and the
   main loop idle, the scheduler is not paused. *)
SchedulerReleased ==
  Alive /\ pc = "idle" /\ txState = "IDLE" /\ ~CommandInChip => paused = 0
=============================================================================
