---------------------------- MODULE SerConnProofs ----------------------------
(***************************************************************************)
(* Proofs about SerConn, for every set of commands and events, every queue *)
(* size and every timing of the wire.                                      *)
(***************************************************************************)
EXTENDS SerConn, TLAPS

(* A frame of this kind is in the transmission buffer and on the wire. *)
OnWire(kind) == txState = "TRANSMITTING" /\ txFrame[1] = kind

B(p) == IF p THEN 1 ELSE 0

(* The transmission buffer: allocated exactly between the allocation and the
   sending of a frame; free whenever the event encoder starts; and a response
   on the wire is the one the host waits for. *)
TxInv ==
  /\ txState = "TX_ALLOCATED" <=> pc \in {"evt_send", "cmd_send"}
  /\ txState = "CLOSED" <=> pc = "dtm"
  /\ pc \in {"sched_get", "evt_alloc"} => txState = "IDLE"
  /\ pc \in {"evt_alloc", "evt_send"} => cur \in Event
  /\ txState = "TRANSMITTING" => txFrame # <<"none">>
  /\ OnWire("resp") => txFrame = <<"resp", outstanding>> /\ wire = "none"

(* The reception buffer and the command that is received or processed. *)
RxInv ==
  /\ wire # "none" => outstanding \in Cmd
  /\ pc # "dtm" =>
       /\ wire \in {"none", "header"} => rxState \in {"IDLE", "RECEIVED"}
       /\ wire = "payload" => rxState \notin {"CLOSED", "IDLE", "RECEIVED"}
  /\ toProcess \/ pc \in {"cmd_alloc", "cmd_send", "reset"} =>
       /\ rxState = "RECEIVED" /\ wire = "none"
       /\ rxBuf = outstanding /\ outstanding \in Cmd
       /\ ~OnWire("resp")
  /\ pc = "rx_free" => rxState \in DOMAIN rx_pkt_free
  /\ pc \in {"cmd_alloc", "cmd_send", "rx_free", "reset", "dtm"} => ~toProcess
  /\ dtmReady => OnWire("resp") \/ pc = "dtm"

(* The pause counter is never too small: between the end of an event's
   transmission and the encoder's pause for it, it is at most one behind. *)
PauseInv ==
  pc # "dtm" => paused + B(pc = "evt_pause" /\ ~OnWire("evt"))
                  >= B(CommandInChip) + B(EventOnWire)

(* If the wire is slow it is never behind, and never too large. *)
SlowInv ==
  SlowWire => /\ pc = "evt_pause" => OnWire("evt")
              /\ PauseBalance

(* If the wire is slow, a packet is in the buffer only while its command is
   processed, and the host waits for the response. *)
ReadyInv ==
  SlowWire /\ Alive /\ rxState = "RECEIVED" =>
    /\ toProcess \/ pc \in {"cmd_alloc", "cmd_send", "rx_free", "reset"}
    /\ outstanding \in Cmd /\ wire = "none"

(* While the chip executes code, the command the host waits for is somewhere. *)
WorkInv ==
  Alive /\ outstanding # None =>
    \/ wire # "none" \/ toProcess
    \/ pc \in {"cmd_alloc", "cmd_send", "reset"}
    \/ OnWire("resp")

(* As long as nothing has come, what the main loop has found is still true: the
   look at the queue from the end of the scheduler on, the look at the packet
   from the end of ser_conn_rx_process on. *)
AsleepInv ==
  ~wake =>
    /\ pc \in {"rx_check", "cmd_alloc", "cmd_send", "rx_free", "idle"} =>
         (paused = 0 => queue = <<>>)
    /\ pc \in {"cmd_alloc", "cmd_send", "rx_free", "idle"} => ~toProcess

IInv == TypeOK /\ TxInv /\ RxInv /\ PauseInv /\ SlowInv /\ ReadyInv /\ WorkInv /\ AsleepInv
-----------------------------------------------------------------------------
(* The transition tables of ser_hal_transport.c, as facts about states. *)
LEMMA Tables ==
  /\ DOMAIN rx_pkt_free = {"RECEIVED", "RECEIVED_DROPPING", "RECEIVED_PENDING_BUF_REQ"}
  /\ DOMAIN PktDropped = {"DROPPING", "RECEIVED_DROPPING"}
  /\ DOMAIN TxPktSent = {"TRANSMITTING"} /\ DOMAIN tx_pkt_alloc = {"IDLE"}
  /\ tx_pkt_free[tx_pkt_alloc["IDLE"]] = "IDLE"
  /\ Step(PktReceived, rxState) <=> rxState = "RECEIVING" /\ rxState' = "RECEIVED"
  /\ Step(tx_pkt_alloc, txState) <=> txState = "IDLE" /\ txState' = "TX_ALLOCATED"
  /\ Step(tx_pkt_send, txState) <=> txState = "TX_ALLOCATED" /\ txState' = "TRANSMITTING"
  /\ Step(TxPktSent, txState) <=> txState = "TRANSMITTING" /\ txState' = "IDLE"
  BY DEF Step, rx_pkt_free, PktDropped, TxPktSent, tx_pkt_alloc, tx_pkt_free,
         PktReceived, tx_pkt_send

LEMMA RequestTable ==
  ASSUME NEW fits \in BOOLEAN, Step(BufRequested(fits), rxState)
  PROVE  /\ rxState \in {"IDLE", "RECEIVED"}
         /\ rxState' \in RxState \ {"CLOSED", "IDLE", "RECEIVED"}
         /\ rxState = "RECEIVED" => rxState' \in DOMAIN rx_pkt_free
  BY DEF Step, BufRequested, RxState, rx_pkt_free

LEMMA FreeTable ==
  ASSUME Step(rx_pkt_free, rxState)
  PROVE  /\ rxState \in DOMAIN rx_pkt_free
         /\ rxState' \in {"IDLE", "DROPPING", "RECEIVING"}
         /\ rxState = "RECEIVED" <=> rxState' = "IDLE"
  BY DEF Step, rx_pkt_free

(* A frame is one of three kinds, told apart by its first field. *)
LEMMA FrameKinds ==
  ASSUME NEW f \in Frame
  PROVE  /\ f[1] \in {"none", "resp", "evt"}
         /\ f[1] = "none" => f = <<"none">>
         /\ f[1] = "resp" => f[2] \in Cmd /\ f = <<"resp", f[2]>>
         /\ f[1] = "evt" => f[2] \in Event /\ f = <<"evt", f[2]>>
  BY DEF Frame
-----------------------------------------------------------------------------
LEMMA InitIInv == Init => IInv
<1> SUFFICES ASSUME Init PROVE IInv
    OBVIOUS
<1> USE DEF Init, ser_hal_transport_opened
<1>1. TypeOK
  <2>1. <<"none">> \in Frame
    BY DEF Frame
  <2>2. <<>> \in Seq(FitsSlot) /\ Len(<<>>) = 0
    OBVIOUS
  <2>3. QueueSize >= 0 /\ 0 \in 0..PauseMax
    BY ConnAssumption
  <2>4. rxState \in RxState /\ txState \in TxState /\ pc \in Pc /\ fault \in Fault
    BY DEF RxState, TxState, Pc, Fault
  <2>5. toProcess \in BOOLEAN /\ dtmReady \in BOOLEAN /\ wake \in BOOLEAN
    OBVIOUS
  <2>6. queue \in Seq(FitsSlot) /\ Len(queue) <= QueueSize
    BY <2>2, <2>3
  <2> QED BY <2>1, <2>3, <2>4, <2>5, <2>6 DEF TypeOK
<1>2. TxInv
  BY DEF TxInv, OnWire
<1>3. RxInv
  BY DEF RxInv, OnWire
<1>4. PauseInv /\ SlowInv
  BY DEF PauseInv, SlowInv, PauseBalance, CommandInChip, EventOnWire, OnWire, B
<1>5. ReadyInv
  BY DEF ReadyInv
<1>6. WorkInv /\ AsleepInv
  BY DEF WorkInv, AsleepInv
<1> QED BY <1>1, <1>2, <1>3, <1>4, <1>5, <1>6 DEF IInv

(* An unpaused scheduler means that no command waits for its response and that
   the transmission buffer is free, so that the event encoder never has to wait
   for the buffer while a command needs it. *)
LEMMA NothingUnderway ==
  ASSUME IInv, pc = "sched_check", paused = 0
  PROVE  ~CommandInChip /\ txState = "IDLE"
<1> USE DEF IInv
<1>1. txState \in {"IDLE", "TRANSMITTING"}
  BY DEF TypeOK, TxState, TxInv
<1>2. ~CommandInChip /\ ~EventOnWire
  BY DEF PauseInv, B
<1>3. ~OnWire("evt")
  BY <1>2 DEF EventOnWire, OnWire
<1>4. ~OnWire("resp")
  BY <1>2, FrameKinds, ConnAssumption DEF CommandInChip, OnWire, TxInv, TypeOK
<1>5. txState = "IDLE"
  BY <1>1, <1>3, <1>4, FrameKinds DEF OnWire, TxInv, TypeOK
<1> QED BY <1>2, <1>5

LEMMA StepTx == IInv /\ Next => TxInv'
<1> SUFFICES ASSUME IInv, Next PROVE TxInv'
    OBVIOUS
<1> USE Tables, ConnAssumption DEF IInv, TxInv, OnWire, Alive, Fail, mainVars, hostVars
<1>1. CASE SchedCheck
  <2>1. CASE paused = 0
    BY <1>1, <2>1, NothingUnderway DEF SchedCheck
  <2>2. CASE paused # 0
    BY <1>1, <2>2 DEF SchedCheck
  <2> QED BY <2>1, <2>2
<1>2. CASE SchedGet
  <2>1. queue # <<>> => Head(queue) \in FitsSlot
    BY DEF TypeOK
  <2> QED BY <1>2, <2>1 DEF SchedGet
<1>3. CASE EvtAlloc
  BY <1>3 DEF EvtAlloc
<1>4. CASE EvtSend
  BY <1>4 DEF EvtSend
<1>5. CASE EvtPause
  BY <1>5 DEF EvtPause
<1>6. CASE RxCheck
  BY <1>6 DEF RxCheck
<1>7. CASE CmdAlloc
  BY <1>7 DEF CmdAlloc
<1>8. CASE CmdSend
  BY <1>8 DEF CmdSend, RxInv
<1>9. CASE RxFree
  BY <1>9 DEF RxFree
<1>10. CASE Idle
  BY <1>10 DEF Idle
<1>11. CASE SystemReset
  BY <1>11 DEF SystemReset
<1>12. CASE RxBufRequest
  BY <1>12 DEF RxBufRequest
<1>13. CASE RxPktReceived
  BY <1>13 DEF RxPktReceived
<1>14. CASE RxPktDropped \/ RxByteLost \/ PhyError
  BY <1>14 DEF RxPktDropped, RxByteLost, PhyError
<1>15. CASE TxPktSentEvent
  BY <1>15 DEF TxPktSentEvent, ser_hal_transport_close
<1>16. ASSUME NEW c \in Cmd, HostSend(c) PROVE TxInv'
  BY <1>16, FrameKinds DEF HostSend, TypeOK
<1>17. ASSUME NEW e \in Event, BleEvent(e) PROVE TxInv'
  BY <1>17 DEF BleEvent
<1> QED BY <1>1, <1>2, <1>3, <1>4, <1>5, <1>6, <1>7, <1>8, <1>9, <1>10, <1>11, <1>12,
           <1>13, <1>14, <1>15, <1>16, <1>17 DEF Next, MainStep, WireStep

LEMMA StepRx == IInv /\ Next => RxInv'
<1> SUFFICES ASSUME IInv, Next PROVE RxInv'
    OBVIOUS
<1> USE Tables, ConnAssumption DEF IInv, RxInv, OnWire, Alive, Fail, mainVars, hostVars
<1>1. CASE SchedCheck
  BY <1>1 DEF SchedCheck
<1>2. CASE SchedGet
  BY <1>2 DEF SchedGet
<1>3. CASE EvtAlloc
  BY <1>3 DEF EvtAlloc, TxInv
<1>4. CASE EvtSend
  BY <1>4 DEF EvtSend, TxInv
<1>5. CASE EvtPause
  BY <1>5 DEF EvtPause
<1>6. CASE RxCheck
  BY <1>6 DEF RxCheck
<1>7. CASE CmdAlloc
  BY <1>7 DEF CmdAlloc
<1>8. CASE CmdSend
  BY <1>8 DEF CmdSend, TxInv
<1>9. CASE RxFree
  BY <1>9, FreeTable DEF RxFree, TypeOK
<1>10. CASE Idle
  BY <1>10 DEF Idle
<1>11. CASE SystemReset
  BY <1>11 DEF SystemReset
<1>12. CASE RxBufRequest
  <2> DEFINE fits == Kind[outstanding] # "oversize"
  <2>1. fits \in BOOLEAN
    OBVIOUS
  <2>2. Step(BufRequested(fits), rxState)
    BY <1>12 DEF RxBufRequest
  <2> HIDE DEF fits
  <2> QED BY <1>12, <2>1, <2>2, RequestTable DEF RxBufRequest
<1>13. CASE RxPktReceived
  BY <1>13 DEF RxPktReceived, TxInv
<1>14. CASE RxPktDropped \/ RxByteLost \/ PhyError
  BY <1>14 DEF RxPktDropped, RxByteLost, PhyError
<1>15. CASE TxPktSentEvent
  BY <1>15 DEF TxPktSentEvent, ser_hal_transport_close, TxInv
<1>16. ASSUME NEW c \in Cmd, HostSend(c) PROVE RxInv'
  BY <1>16, FrameKinds DEF HostSend, TxInv, TypeOK
<1>17. ASSUME NEW e \in Event, BleEvent(e) PROVE RxInv'
  BY <1>17 DEF BleEvent
<1> QED BY <1>1, <1>2, <1>3, <1>4, <1>5, <1>6, <1>7, <1>8, <1>9, <1>10, <1>11, <1>12,
           <1>13, <1>14, <1>15, <1>16, <1>17 DEF Next, MainStep, WireStep

LEMMA StepPause == IInv /\ Next => PauseInv' /\ SlowInv'
<1> SUFFICES ASSUME IInv, Next PROVE PauseInv' /\ SlowInv'
    OBVIOUS
<1> USE Tables, ConnAssumption
    DEF IInv, PauseInv, SlowInv, PauseBalance, CommandInChip, EventOnWire, OnWire, B,
        Alive, Fail, mainVars, hostVars
<1>0. paused \in 0..PauseMax /\ TypeOK
  BY DEF TypeOK
<1>1. CASE SchedCheck
  BY <1>0, <1>1 DEF SchedCheck
<1>2. CASE SchedGet
  BY <1>0, <1>2 DEF SchedGet
<1>3. CASE EvtAlloc
  BY <1>0, <1>3 DEF EvtAlloc, TxInv
<1>4. CASE EvtSend
  BY <1>0, <1>4 DEF EvtSend, TxInv
<1>5. CASE EvtPause
  BY <1>0, <1>5 DEF EvtPause, app_sched_pause
<1>6. CASE RxCheck
  BY <1>0, <1>6 DEF RxCheck
<1>7. CASE CmdAlloc
  BY <1>0, <1>7 DEF CmdAlloc
<1>8. CASE CmdSend
  BY <1>0, <1>8 DEF CmdSend
<1>9. CASE RxFree
  BY <1>0, <1>9 DEF RxFree
<1>10. CASE Idle
  BY <1>0, <1>10 DEF Idle
<1>11. CASE SystemReset
  BY <1>11 DEF SystemReset
<1>12. CASE RxBufRequest
  BY <1>0, <1>12 DEF RxBufRequest, app_sched_pause, RxInv
<1>13. CASE RxPktReceived
  BY <1>0, <1>13 DEF RxPktReceived
<1>14. CASE RxPktDropped \/ RxByteLost \/ PhyError
  BY <1>0, <1>14 DEF RxPktDropped, RxByteLost, PhyError
<1>15. CASE TxPktSentEvent
  <2>1. CASE dtmReady
    BY <1>0, <1>15, <2>1 DEF TxPktSentEvent
  <2>2. CASE ~dtmReady /\ txFrame[1] = "resp"
    BY <1>0, <1>15, <2>2, FrameKinds
       DEF TxPktSentEvent, app_sched_resume, TxInv, TypeOK
  <2>3. CASE ~dtmReady /\ txFrame[1] = "evt"
    BY <1>0, <1>15, <2>3 DEF TxPktSentEvent, app_sched_resume, TxInv
  <2> QED BY <1>0, <1>15, <2>1, <2>2, <2>3, FrameKinds
             DEF TxPktSentEvent, TxInv, TypeOK
<1>16. ASSUME NEW c \in Cmd, HostSend(c) PROVE PauseInv' /\ SlowInv'
  BY <1>0, <1>16 DEF HostSend
<1>17. ASSUME NEW e \in Event, BleEvent(e) PROVE PauseInv' /\ SlowInv'
  BY <1>0, <1>17 DEF BleEvent
<1> QED BY <1>1, <1>2, <1>3, <1>4, <1>5, <1>6, <1>7, <1>8, <1>9, <1>10, <1>11, <1>12,
           <1>13, <1>14, <1>15, <1>16, <1>17 DEF Next, MainStep, WireStep

LEMMA StepReady == IInv /\ Next => ReadyInv'
<1> SUFFICES ASSUME IInv, Next PROVE ReadyInv'
    OBVIOUS
<1> USE DEF IInv, ReadyInv, Alive, Fail, mainVars, hostVars
<1>1. CASE SchedCheck
  BY <1>1 DEF SchedCheck
<1>2. CASE SchedGet
  BY <1>2 DEF SchedGet
<1>3. CASE EvtAlloc
  BY <1>3 DEF EvtAlloc
<1>4. CASE EvtSend
  BY <1>4 DEF EvtSend
<1>5. CASE EvtPause
  BY <1>5 DEF EvtPause
<1>6. CASE RxCheck
  BY <1>6 DEF RxCheck
<1>7. CASE CmdAlloc
  BY <1>7 DEF CmdAlloc
<1>8. CASE CmdSend
  BY <1>8 DEF CmdSend
<1>9. CASE RxFree
  BY <1>9, FreeTable DEF RxFree
<1>10. CASE Idle \/ SystemReset
  BY <1>10 DEF Idle, SystemReset
<1>11. CASE RxBufRequest
  <2> DEFINE fits == Kind[outstanding] # "oversize"
  <2>1. fits \in BOOLEAN /\ Step(BufRequested(fits), rxState)
    BY <1>11 DEF RxBufRequest
  <2> HIDE DEF fits
  <2>2. rxState' # "RECEIVED"
    BY <2>1, RequestTable
  <2> QED BY <2>2
<1>12. CASE RxPktReceived
  BY <1>12, ConnAssumption DEF RxPktReceived, RxInv
<1>13. CASE RxPktDropped \/ RxByteLost \/ PhyError
  BY <1>13 DEF RxPktDropped, RxByteLost, PhyError
<1>14. CASE TxPktSentEvent
  <2>1. CASE dtmReady
    BY <1>14, <2>1 DEF TxPktSentEvent
  <2>2. CASE ~dtmReady
    BY <1>14, <2>2, Tables DEF TxPktSentEvent, RxInv, OnWire
  <2> QED BY <2>1, <2>2
<1>15. ASSUME NEW c \in Cmd, HostSend(c) PROVE ReadyInv'
  BY <1>15, ConnAssumption DEF HostSend
<1>16. ASSUME NEW e \in Event, BleEvent(e) PROVE ReadyInv'
  BY <1>16 DEF BleEvent
<1> QED BY <1>1, <1>2, <1>3, <1>4, <1>5, <1>6, <1>7, <1>8, <1>9, <1>10, <1>11, <1>12,
           <1>13, <1>14, <1>15, <1>16 DEF Next, MainStep, WireStep

(* A command leaves one place only for the next one. *)
LEMMA StepWork == IInv /\ Next => WorkInv'
<1> SUFFICES ASSUME IInv, Next PROVE WorkInv'
    OBVIOUS
<1> USE ConnAssumption DEF IInv, WorkInv, OnWire, Alive, Fail, mainVars, hostVars
<1>1. CASE SchedCheck
  BY <1>1 DEF SchedCheck
<1>2. CASE SchedGet
  BY <1>2 DEF SchedGet
<1>3. CASE EvtAlloc
  BY <1>3, Tables DEF EvtAlloc
<1>4. CASE EvtSend
  BY <1>4, Tables DEF EvtSend
<1>5. CASE EvtPause
  BY <1>5 DEF EvtPause
<1>6. CASE RxCheck
  BY <1>6 DEF RxCheck
<1>7. CASE CmdAlloc
  BY <1>7, Tables DEF CmdAlloc
<1>8. CASE CmdSend
  BY <1>8, Tables DEF CmdSend
<1>9. CASE RxFree
  BY <1>9 DEF RxFree
<1>10. CASE Idle
  BY <1>10 DEF Idle
<1>11. CASE SystemReset
  BY <1>11 DEF SystemReset
<1>12. CASE RxBufRequest
  BY <1>12 DEF RxBufRequest
<1>13. CASE RxPktReceived
  BY <1>13 DEF RxPktReceived
<1>14. CASE RxPktDropped \/ RxByteLost \/ PhyError
  BY <1>14 DEF RxPktDropped, RxByteLost, PhyError
<1>15. CASE TxPktSentEvent
  BY <1>15 DEF TxPktSentEvent
<1>16. ASSUME NEW c \in Cmd, HostSend(c) PROVE WorkInv'
  BY <1>16 DEF HostSend
<1>17. ASSUME NEW e \in Event, BleEvent(e) PROVE WorkInv'
  BY <1>17 DEF BleEvent
<1> QED BY <1>1, <1>2, <1>3, <1>4, <1>5, <1>6, <1>7, <1>8, <1>9, <1>10, <1>11, <1>12,
           <1>13, <1>14, <1>15, <1>16, <1>17 DEF Next, MainStep, WireStep

(* Whatever changes the queue, the packet flag or the pause counter without the
   main loop sets the latch. *)
LEMMA StepAsleep == IInv /\ Next => AsleepInv'
<1> SUFFICES ASSUME IInv, Next PROVE AsleepInv'
    OBVIOUS
<1> USE DEF IInv, AsleepInv, Fail, mainVars, hostVars
<1>1. CASE SchedCheck
  BY <1>1 DEF SchedCheck
<1>2. CASE SchedGet
  BY <1>2 DEF SchedGet
<1>3. CASE EvtAlloc
  BY <1>3 DEF EvtAlloc
<1>4. CASE EvtSend \/ EvtPause
  BY <1>4 DEF EvtSend, EvtPause
<1>5. CASE RxCheck
  BY <1>5 DEF RxCheck
<1>6. CASE CmdAlloc \/ RxFree
  BY <1>6 DEF CmdAlloc, RxFree
<1>7. CASE CmdSend
  BY <1>7 DEF CmdSend
<1>8. CASE Idle \/ SystemReset
  BY <1>8 DEF Idle, SystemReset
<1>9. CASE RxBufRequest \/ RxPktReceived \/ TxPktSentEvent
  BY <1>9 DEF RxBufRequest, RxPktReceived, TxPktSentEvent
<1>10. CASE RxPktDropped \/ RxByteLost \/ PhyError
  BY <1>10 DEF RxPktDropped, RxByteLost, PhyError
<1>11. ASSUME NEW c \in Cmd, HostSend(c) PROVE AsleepInv'
  BY <1>11 DEF HostSend
<1>12. ASSUME NEW e \in Event, BleEvent(e) PROVE AsleepInv'
  BY <1>12 DEF BleEvent
<1> QED BY <1>1, <1>2, <1>3, <1>4, <1>5, <1>6, <1>7, <1>8, <1>9, <1>10, <1>11, <1>12
           DEF Next, MainStep, WireStep

LEMMA StepType == IInv /\ Next => TypeOK'
<1> SUFFICES ASSUME IInv, Next PROVE TypeOK'
    OBVIOUS
<1> USE Tables, ConnAssumption DEF IInv, TypeOK, Alive, Fail, mainVars, hostVars
<1>1. CASE SchedCheck
  BY <1>1 DEF SchedCheck, Pc
<1>2. CASE SchedGet
  BY SMTT(30), <1>2 DEF SchedGet, Pc
<1>3. CASE EvtAlloc
  BY <1>3 DEF EvtAlloc, Pc, TxState, Fault
<1>4. CASE EvtSend
  BY <1>4 DEF EvtSend, Pc, TxState, Frame, TxInv, Fault
<1>5. CASE EvtPause
  BY <1>5 DEF EvtPause, Pc, app_sched_pause
<1>6. CASE RxCheck
  BY <1>6 DEF RxCheck, Pc, Fault
<1>7. CASE CmdAlloc
  BY <1>7 DEF CmdAlloc, Pc, TxState
<1>8. CASE CmdSend
  BY <1>8 DEF CmdSend, Pc, TxState, Frame, Fault, RxInv
<1>9. CASE RxFree
  BY <1>9, FreeTable DEF RxFree, Pc, RxState
<1>10. CASE Idle
  BY <1>10 DEF Idle, Pc
<1>11. CASE SystemReset
  <2>1. <<"none">> \in Frame
    BY DEF Frame
  <2>2. <<>> \in Seq(FitsSlot) /\ Len(<<>>) = 0 /\ QueueSize >= 0 /\ 0 \in 0..PauseMax
    OBVIOUS
  <2>3. rxState' \in RxState /\ txState' \in TxState /\ pc' \in Pc
    BY <1>11 DEF SystemReset, RxState, TxState, Pc
  <2>4. toProcess' \in BOOLEAN /\ dtmReady' \in BOOLEAN /\ wake' \in BOOLEAN
    BY <1>11 DEF SystemReset
  <2>5. queue' \in Seq(FitsSlot) /\ Len(queue') <= QueueSize
    BY <1>11, <2>2 DEF SystemReset
  <2> QED BY <1>11, <2>1, <2>2, <2>3, <2>4, <2>5 DEF SystemReset
<1>12. CASE RxBufRequest
  <2> DEFINE fits == Kind[outstanding] # "oversize"
  <2>1. fits \in BOOLEAN
    OBVIOUS
  <2>2. Step(BufRequested(fits), rxState)
    BY <1>12 DEF RxBufRequest
  <2> HIDE DEF fits
  <2> QED BY <1>12, <2>1, <2>2, RequestTable DEF RxBufRequest, app_sched_pause
<1>13. CASE RxPktReceived
  BY <1>13 DEF RxPktReceived, RxState
<1>14. CASE RxPktDropped \/ RxByteLost \/ PhyError
  BY <1>14 DEF RxPktDropped, RxByteLost, PhyError, Fault
<1>15. CASE TxPktSentEvent
  BY <1>15 DEF TxPktSentEvent, ser_hal_transport_close, app_sched_resume, RxState,
     TxState, Pc
<1>16. ASSUME NEW c \in Cmd, HostSend(c) PROVE TypeOK'
  BY <1>16 DEF HostSend
<1>17. ASSUME NEW e \in Event, BleEvent(e) PROVE TypeOK'
  <2>1. CASE UNCHANGED <<queue, wake>>
             /\ fault' \in {"NRF_ERROR_INVALID_LENGTH", "NRF_ERROR_NO_MEM"}
    BY <1>17, <2>1 DEF BleEvent, Fault
  <2>2. CASE /\ e \in FitsSlot /\ Len(queue) < QueueSize
             /\ queue' = Append(queue, e) /\ wake' = TRUE /\ fault' = fault
    <3>1. queue' \in Seq(FitsSlot) /\ Len(queue') <= QueueSize
      BY <2>2
    <3> QED BY <1>17, <2>2, <3>1 DEF BleEvent
  <2> QED BY <1>17, <2>1, <2>2 DEF BleEvent
<1> QED BY <1>1, <1>2, <1>3, <1>4, <1>5, <1>6, <1>7, <1>8, <1>9, <1>10, <1>11, <1>12,
           <1>13, <1>14, <1>15, <1>16, <1>17 DEF Next, MainStep, WireStep

LEMMA StepIInv == IInv /\ [Next]_vars => IInv'
<1>1. IInv /\ UNCHANGED vars => IInv'
  BY DEF vars, IInv, TypeOK, TxInv, RxInv, PauseInv, SlowInv, PauseBalance,
         ReadyInv, WorkInv, AsleepInv, CommandInChip, EventOnWire, OnWire, B, Alive
<1> QED BY <1>1, StepType, StepTx, StepRx, StepPause, StepReady, StepWork, StepAsleep
        DEF IInv

LEMMA ConnInvariant == Spec => []IInv
  BY InitIInv, StepIInv, PTL DEF Spec
-----------------------------------------------------------------------------
THEOREM TypeCorrect == Spec => []TypeOK
<1>1. IInv => TypeOK
  BY DEF IInv
<1> QED BY <1>1, ConnInvariant, PTL

(* If a frame is longer on the wire than the statement after its sending takes,
   every app_sched_pause is undone by exactly one app_sched_resume. *)
THEOREM PausesAreBalanced == Spec => [](SlowWire => PauseBalance)
<1>1. IInv => (SlowWire => PauseBalance)
  BY DEF IInv, SlowInv
<1> QED BY <1>1, ConnInvariant, PTL

(* The reception buffer is not reused while a command in it is processed,
   however fast the wire and whatever interrupts come. *)
THEOREM BufferIsOwned == Spec => []CommandOwnsBuffer
<1>1. IInv => CommandOwnsBuffer
  BY Tables DEF IInv, RxInv, CommandOwnsBuffer, Processing
<1> QED BY <1>1, ConnInvariant, PTL

(* If the wire is slow, the reception buffer is free when a header arrives. *)
THEOREM BufferIsReady == Spec => [](SlowWire => BufferReady)
<1>1. IInv => (SlowWire => BufferReady)
  BY DEF IInv, ReadyInv, RxInv, BufferReady, Alive
<1> QED BY <1>1, ConnInvariant, PTL

(* No call or PHY event is refused by ser_hal_transport.c. *)
THEOREM NoIllegalCall == Spec => []CallsLegal
<1>1. IInv => CallsLegal
  BY DEF IInv, TxInv, RxInv, CallsLegal, Alive
<1> QED BY <1>1, ConnInvariant, PTL

(* The command the host waits for is in exactly one place, whatever it is and
   however the interrupts fall: it is neither lost nor answered twice. *)
THEOREM CommandIsInWork == Spec => []CommandInWork
<1>1. ASSUME IInv PROVE CommandInWork
  <2> SUFFICES ASSUME Alive PROVE CommandInWork
    BY DEF CommandInWork
  <2> USE <1>1, ConnAssumption DEF IInv, OnWire, Alive
  <2>1. OnWire("resp") <=> CommandAt("answer") /\ outstanding \in Cmd
    BY FrameKinds DEF TxInv, TypeOK, CommandAt
  <2>2. CommandAt("answer") => OnWire("resp")
    BY DEF CommandAt
  <2>3. outstanding # None => \E place \in Place : CommandAt(place)
    BY <2>1 DEF WorkInv, CommandAt, Place
  <2>4. ASSUME NEW place \in Place, CommandAt(place) PROVE outstanding # None
    BY <2>1, <2>2, <2>4 DEF RxInv, CommandAt, Place
  <2>5. ASSUME NEW p \in Place, NEW q \in Place, CommandAt(p), CommandAt(q)
        PROVE  p = q
    BY <2>2, <2>5 DEF RxInv, TxInv, CommandAt, Place
  <2> QED BY <2>3, <2>4, <2>5 DEF CommandInWork
<1> QED BY <1>1, ConnInvariant, PTL

(* The main loop does not sleep while there is something for it to do. *)
THEOREM NoLostWakeup == Spec => []WakeIsNotLost
<1>1. IInv => WakeIsNotLost
  BY DEF IInv, AsleepInv, WakeIsNotLost
<1> QED BY <1>1, ConnInvariant, PTL
==============================================================================
