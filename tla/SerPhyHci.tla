----------------------------- MODULE SerPhyHci -----------------------------
(***************************************************************************)
(* The serial link with the HCI three-wire PHY: ser_phy_hci.c, which       *)
(* numbers, acknowledges and retransmits packets, over ser_phy_hci_slip.c, *)
(* which frames them.  Two ends run the same files, and what a line        *)
(* carries may be lost.                                                    *)
(*                                                                         *)
(* Each action is one event of a state machine, with all that it calls.    *)
(* The event of a frame that was received is handled within the call that  *)
(* reports it, or waits in its queue while the upper layer has the events  *)
(* disabled or a context that was interrupted is in the state machine; the *)
(* frame keeps its buffer until then.  Any other event that has to wait    *)
(* comes later.  HCI_LINK_CONTROL is not defined.                          *)
(*                                                                         *)
(* A packet is the number of its transmission request, from 1; 0 is none.  *)
(* A frame is a data packet with its sequence number or an acknowledgement *)
(* with its number; a corrupted one fails its checks and counts as lost.   *)
(***************************************************************************)
EXTENDS Integers

CONSTANTS
  Node,             (* the two ends                                     *)
  Peer,             (* the other end                                    *)
  MaxPackets,       (* bound: what the upper layer of each end sends    *)
  After,            (* bound: how many it takes before it sends any     *)
  TooLarge,         (* packets that fit no buffer of the upper layer    *)
  MAX_RETRY_COUNT

ASSUME HciAssumption ==
  /\ Peer \in [Node -> Node] /\ \A n \in Node : Peer[n] # n /\ Peer[Peer[n]] = n
  /\ MaxPackets \in [Node -> Nat]
  /\ After \in [Node -> Nat]
  /\ TooLarge \in SUBSET (Nat \ {0})
  /\ MAX_RETRY_COUNT \in Nat \ {0}

NULL == 0

NoFrame == [type |-> "none", num |-> 0, pkt |-> NULL]
Data(seq, p) == [type |-> "data", num |-> seq, pkt |-> p]
Ack(num) == [type |-> "ack", num |-> num, pkt |-> NULL]
Frame == [type : {"none", "data", "ack"}, num : 0..7, pkt : Nat]

VARIABLES
  m_hci_tx_fsm_state,
  m_packet_seq_number,
  m_p_tx_payload,        (* the packet of the request, NULL when there is none *)
  m_tx_retry_count,
  timer,                 (* the retransmission timer: "off", "set" until the
                            next tick loads its counter, then "running"      *)
  m_hci_rx_fsm_state,
  m_packet_ack_number,
  m_p_rx_packet,         (* the packet in the big buffer that waits for memory *)
  m_p_rx_buffer,         (* the upper layer's buffer once it is written        *)
  m_small_buffer,        (* the acknowledgement that it holds for the tx queue *)
  m_big_buffer,          (* the frame that it holds for either queue           *)
  bigFirst,              (* the ends where that one is ahead in the tx queue   *)
  mp_big_buffer,         (* the ends whose big buffer SLIP may receive into    *)
  big_buff_in_use,       (* "receiving" a frame that began while the small one
                            was not free, "reporting" it, or "no"              *)
  frame,                 (* the frame being sent: m_header, m_payload, m_crc   *)
  pending,               (* the frame to be sent after it                      *)
  frameEnd,              (* ack_end or packet_end is set: all of it is out     *)
  line,                  (* a frame that the other end has not yet read whole  *)
  handed,                (* history: requests accepted from the upper layer    *)
  sent,                  (* history: SER_PHY_EVT_TX_PKT_SENT                   *)
  accepted,              (* history: packets the upper layer gave an answer to *)
  reported,              (* history: RX_PKT_RECEIVED and RX_PKT_DROPPED        *)
  received,              (* the packet last handed to the upper layer          *)
  failed,                (* the ends whose error_callback was called           *)
  refused,               (* history: NRF_ERROR_INVALID_STATE not looked at     *)
  asserted               (* the ends where a ser_phy_hci_assert failed         *)

txVars == <<m_hci_tx_fsm_state, m_packet_seq_number, m_p_tx_payload, m_tx_retry_count,
            timer, handed, sent, failed>>
rxVars == <<m_hci_rx_fsm_state, m_packet_ack_number, m_p_rx_packet, m_p_rx_buffer,
            accepted, reported, received>>
slipVars == <<frame, pending, frameEnd>>
bufVars == <<m_small_buffer, m_big_buffer, bigFirst, mp_big_buffer, big_buff_in_use,
             refused, asserted>>
vars == <<txVars, rxVars, slipVars, bufVars, line>>

TxState == {"SEND", "WAIT_FOR_FIRST_TX_END", "WAIT_FOR_ACK_OR_TX_END",
            "WAIT_FOR_ACK", "WAIT_FOR_TX_END"}
RxState == {"RECEIVE", "WAIT_FOR_MEM", "WAIT_FOR_SLIP_ACK_END", "WAIT_FOR_SLIP_NACK_END"}

TypeOK ==
  /\ m_hci_tx_fsm_state \in [Node -> TxState] /\ m_hci_rx_fsm_state \in [Node -> RxState]
  /\ m_packet_seq_number \in [Node -> 0..7] /\ m_packet_ack_number \in [Node -> 0..7]
  /\ m_p_tx_payload \in [Node -> Nat] /\ m_p_rx_packet \in [Node -> Nat]
  /\ m_p_rx_buffer \in [Node -> Nat] /\ received \in [Node -> Nat]
  /\ m_tx_retry_count \in [Node -> 0..MAX_RETRY_COUNT]
  /\ timer \in [Node -> {"off", "set", "running"}]
  /\ mp_big_buffer \in SUBSET Node /\ frameEnd \in SUBSET Node /\ failed \in SUBSET Node
  /\ bigFirst \in SUBSET Node /\ refused \in SUBSET Node /\ asserted \in SUBSET Node
  /\ m_small_buffer \in [Node -> Frame] /\ m_big_buffer \in [Node -> Frame]
  /\ big_buff_in_use \in [Node -> {"no", "receiving", "reporting"}]
  /\ frame \in [Node -> Frame] /\ pending \in [Node -> Frame] /\ line \in [Node -> Frame]
  /\ handed \in [Node -> Nat] /\ sent \in [Node -> Nat]
  /\ accepted \in [Node -> Nat] /\ reported \in [Node -> Nat]

(* Both ends have opened the PHY. *)
Init ==
  /\ m_hci_tx_fsm_state = [n \in Node |-> "SEND"]
  /\ m_hci_rx_fsm_state = [n \in Node |-> "RECEIVE"]
  /\ m_packet_seq_number = [n \in Node |-> 0] /\ m_packet_ack_number = [n \in Node |-> 0]
  /\ m_p_tx_payload = [n \in Node |-> NULL] /\ m_tx_retry_count = [n \in Node |-> 0]
  /\ timer = [n \in Node |-> "off"]
  /\ m_p_rx_packet = [n \in Node |-> NULL] /\ m_p_rx_buffer = [n \in Node |-> NULL]
  /\ m_small_buffer = [n \in Node |-> NoFrame] /\ m_big_buffer = [n \in Node |-> NoFrame]
  /\ mp_big_buffer = Node /\ big_buff_in_use = [n \in Node |-> "no"]
  /\ bigFirst = {} /\ refused = {} /\ asserted = {}
  /\ frame = [n \in Node |-> NoFrame] /\ pending = [n \in Node |-> NoFrame]
  /\ frameEnd = {} /\ line = [n \in Node |-> NoFrame]
  /\ handed = [n \in Node |-> 0] /\ sent = [n \in Node |-> 0] /\ failed = {}
  /\ accepted = [n \in Node |-> 0] /\ reported = [n \in Node |-> 0]
  /\ received = [n \in Node |-> NULL]
-----------------------------------------------------------------------------
(* ser_phy_hci_slip_tx_pkt_send: one frame is sent, one more may wait. *)
SlipSend(n, f) ==
  /\ frame' = [frame EXCEPT ![n] = IF @ = NoFrame THEN f ELSE @]
  /\ pending' = [pending EXCEPT ![n] = IF frame[n] = NoFrame THEN @ ELSE f]
  /\ UNCHANGED frameEnd

(* The last END byte is put, and with it the frame is on the line. *)
FrameOut(n) ==
  /\ frame[n] # NoFrame /\ n \notin frameEnd /\ line[n] = NoFrame
  /\ frameEnd' = frameEnd \cup {n}
  /\ line' = [line EXCEPT ![n] = frame[n]]
  /\ UNCHANGED <<frame, pending, txVars, rxVars, bufVars>>

(* APP_UART_TX_EMPTY after it: check_pending_tx, then the report of the end. *)
FrameIsOut(n, type) ==
  /\ n \in frameEnd /\ frame[n].type = type
  /\ frame' = [frame EXCEPT ![n] = pending[n]]
  /\ pending' = [pending EXCEPT ![n] = NoFrame]
  /\ frameEnd' = frameEnd \ {n}
  /\ UNCHANGED <<line, bufVars>>
-----------------------------------------------------------------------------
(* SLIP's buffers. *)

(* The frame on the line is lost, or comes broken.  A broken one is freed when
   it ends, and hci_slip_event_handler asserts that it could be, which it cannot
   in the big buffer that is in use; one too long for it just stops. *)
Lose(n) ==
  /\ line[n] # NoFrame
  /\ line' = [line EXCEPT ![n] = NoFrame]
  /\ \/ UNCHANGED asserted
     \/ big_buff_in_use[Peer[n]] = "receiving" /\ asserted' = asserted \cup {Peer[n]}
  /\ UNCHANGED <<txVars, rxVars, slipVars, m_small_buffer, m_big_buffer, bigFirst,
                 mp_big_buffer, big_buff_in_use, refused>>

(* n's SLIP has read a frame to its end. *)
Read(n) ==
  /\ line[Peer[n]] # NoFrame
  /\ line' = [line EXCEPT ![Peer[n]] = NoFrame]

(* Where a frame begins: it moves on to the big buffer if it is a data frame. *)
SmallPath(n) == m_small_buffer[n] = NoFrame /\ big_buff_in_use[n] = "no"

ReadAck(n) ==
  /\ Read(n) /\ SmallPath(n) /\ line[Peer[n]].type = "ack"
  /\ m_small_buffer' = [m_small_buffer EXCEPT ![n] = line[Peer[n]]]
  /\ bigFirst' = IF m_big_buffer[n].type = "ack" THEN bigFirst \cup {n} ELSE bigFirst
  /\ UNCHANGED <<m_big_buffer, mp_big_buffer, big_buff_in_use, refused, asserted,
                 txVars, rxVars, slipVars>>

ReadData(n) ==
  /\ Read(n) /\ SmallPath(n) /\ line[Peer[n]].type = "data" /\ n \in mp_big_buffer
  /\ m_big_buffer' = [m_big_buffer EXCEPT ![n] = line[Peer[n]]]
  /\ mp_big_buffer' = mp_big_buffer \ {n}
  /\ UNCHANGED <<m_small_buffer, bigFirst, big_buff_in_use, refused, asserted,
                 txVars, rxVars, slipVars>>

(* While the small buffer is not free a frame of either kind goes to the big one
   from its first byte ... *)
ReadBegins(n) ==
  /\ line[Peer[n]] # NoFrame /\ ~SmallPath(n) /\ n \in mp_big_buffer
  /\ big_buff_in_use[n] = "no"
  /\ big_buff_in_use' = [big_buff_in_use EXCEPT ![n] = "receiving"]
  /\ UNCHANGED <<m_small_buffer, m_big_buffer, bigFirst, mp_big_buffer, refused, asserted,
                 txVars, rxVars, slipVars, line>>

(* ... to its last, and is reported ... *)
ReadBig(n) ==
  /\ Read(n) /\ big_buff_in_use[n] = "receiving" /\ n \in mp_big_buffer
  /\ m_big_buffer' = [m_big_buffer EXCEPT ![n] = line[Peer[n]]]
  /\ big_buff_in_use' = [big_buff_in_use EXCEPT ![n] = "reporting"]
  /\ UNCHANGED <<m_small_buffer, bigFirst, mp_big_buffer, refused, asserted,
                 txVars, rxVars, slipVars>>

(* ... before the buffer is locked. *)
HandlerReturns(n) ==
  /\ big_buff_in_use[n] = "reporting"
  /\ big_buff_in_use' = [big_buff_in_use EXCEPT ![n] = "no"]
  /\ mp_big_buffer' = mp_big_buffer \ {n}
  /\ UNCHANGED <<m_small_buffer, m_big_buffer, bigFirst, refused, asserted,
                 txVars, rxVars, slipVars, line>>

(* There is no buffer for it. *)
ReadNot(n) ==
  /\ Read(n) /\ n \notin mp_big_buffer
  /\ SmallPath(n) => line[Peer[n]].type = "data"
  /\ UNCHANGED <<txVars, rxVars, slipVars, bufVars>>

(* ser_phy_hci_slip_rx_buf_free of the big buffer, by one who ignores the result:
   NRF_ERROR_INVALID_STATE if it is not locked. *)
rx_buf_free(n) ==
  /\ mp_big_buffer' = mp_big_buffer \cup {n}
  /\ refused' = IF n \in mp_big_buffer THEN refused \cup {n} ELSE refused
-----------------------------------------------------------------------------
(* Transmission. *)

TxGo(n, from, to) ==
  m_hci_tx_fsm_state[n] \in from /\ m_hci_tx_fsm_state' = [m_hci_tx_fsm_state EXCEPT ![n] = to]

hci_timeout_setup(n, to) == timer' = [timer EXCEPT ![n] = to]

hci_pkt_send(n, p) == SlipSend(n, Data(m_packet_seq_number[n], p))

(* Mutant: the acknowledgement number of the packet itself will do. *)
rx_ack_pkt_validOwn(n, num) ==
  num \in {m_packet_seq_number[n], (m_packet_seq_number[n] + 1) % 8}

rx_ack_pkt_valid(n, num) ==
  num \in {(m_packet_seq_number[n] + 1) % 8, (m_packet_seq_number[n] + 2) % 8}

hci_pkt_sent_upcall(n) ==
  /\ m_packet_seq_number' = [m_packet_seq_number EXCEPT ![n] = (@ + 1) % 8]
  /\ m_p_tx_payload' = [m_p_tx_payload EXCEPT ![n] = NULL]
  /\ sent' = [sent EXCEPT ![n] = @ + 1]

(* ser_phy_tx_pkt_send: refused (NRF_ERROR_BUSY) while there is a payload. *)
TxRequest(n) ==
  /\ m_p_tx_payload[n] = NULL /\ handed[n] < MaxPackets[n] /\ reported[n] >= After[n]
  /\ TxGo(n, {"SEND"}, "WAIT_FOR_FIRST_TX_END")
  /\ handed' = [handed EXCEPT ![n] = @ + 1]
  /\ m_p_tx_payload' = [m_p_tx_payload EXCEPT ![n] = handed[n] + 1]
  /\ hci_pkt_send(n, handed[n] + 1)
  /\ hci_timeout_setup(n, "off")
  /\ m_tx_retry_count' = [m_tx_retry_count EXCEPT ![n] = MAX_RETRY_COUNT]
  /\ UNCHANGED <<m_packet_seq_number, sent, failed, rxVars, bufVars, line>>

(* Mutant: the end of a retransmission does not start the timer. *)
PktSentOnce(n) ==
  /\ FrameIsOut(n, "data")
  /\ TxGo(n, {"WAIT_FOR_FIRST_TX_END", "WAIT_FOR_ACK_OR_TX_END"}, "WAIT_FOR_ACK")
  /\ IF m_hci_tx_fsm_state[n] = "WAIT_FOR_FIRST_TX_END"
       THEN hci_timeout_setup(n, "set") ELSE UNCHANGED timer
  /\ UNCHANGED <<m_packet_seq_number, m_p_tx_payload, m_tx_retry_count, handed, sent,
                 failed, rxVars>>

(* PKT_SENT: from now on the acknowledgement is waited for, ... *)
PktSent(n) ==
  /\ FrameIsOut(n, "data")
  /\ TxGo(n, {"WAIT_FOR_FIRST_TX_END", "WAIT_FOR_ACK_OR_TX_END"}, "WAIT_FOR_ACK")
  /\ hci_timeout_setup(n, "set")
  /\ UNCHANGED <<m_packet_seq_number, m_p_tx_payload, m_tx_retry_count, handed, sent,
                 failed, rxVars>>

(* ... or it came while the retransmission was going out. *)
PktSentAfterAck(n) ==
  /\ FrameIsOut(n, "data")
  /\ TxGo(n, {"WAIT_FOR_TX_END"}, "SEND")
  /\ hci_pkt_sent_upcall(n)
  /\ UNCHANGED <<m_tx_retry_count, timer, handed, failed, rxVars>>

(* The acknowledgement at the head of the tx queue, and the buffer it is in.
   One that is handled within its report found the queue empty. *)
HeadInBig(n) ==
  m_big_buffer[n].type = "ack" /\ (m_small_buffer[n] = NoFrame \/ n \in bigFirst)
AckHead(n) == IF HeadInBig(n) THEN m_big_buffer[n] ELSE m_small_buffer[n]
AckEvent(n) ==
  /\ AckHead(n).type = "ack"
  /\ big_buff_in_use[n] = "reporting" => HeadInBig(n)

(* The free is asserted to succeed, and does not while SLIP reports the frame. *)
hci_release_ack_buffer(n) ==
  /\ IF HeadInBig(n)
       THEN /\ m_big_buffer' = [m_big_buffer EXCEPT ![n] = NoFrame]
            /\ bigFirst' = bigFirst \ {n}
            /\ mp_big_buffer' = mp_big_buffer \cup {n}
            /\ asserted' = IF n \in mp_big_buffer THEN asserted \cup {n} ELSE asserted
            /\ UNCHANGED m_small_buffer
       ELSE /\ m_small_buffer' = [m_small_buffer EXCEPT ![n] = NoFrame]
            /\ UNCHANGED <<m_big_buffer, bigFirst, mp_big_buffer, asserted>>
  /\ UNCHANGED <<big_buff_in_use, refused>>

ReceiveAck(n) ==
  /\ AckEvent(n) /\ rx_ack_pkt_valid(n, AckHead(n).num)
  /\ TxGo(n, {"WAIT_FOR_ACK"}, "SEND")
  /\ hci_timeout_setup(n, "off")
  /\ hci_pkt_sent_upcall(n)
  /\ hci_release_ack_buffer(n)
  /\ UNCHANGED <<m_tx_retry_count, handed, failed, rxVars, slipVars, line>>

ReceiveAckEarly(n) ==
  /\ AckEvent(n) /\ rx_ack_pkt_valid(n, AckHead(n).num)
  /\ TxGo(n, {"WAIT_FOR_ACK_OR_TX_END"}, "WAIT_FOR_TX_END")
  /\ hci_timeout_setup(n, "off")
  /\ hci_release_ack_buffer(n)
  /\ UNCHANGED <<m_packet_seq_number, m_p_tx_payload, m_tx_retry_count, handed, sent,
                 failed, rxVars, slipVars, line>>

(* hci_process_orphaned_ack, or a number that is not waited for. *)
IgnoreAck(n) ==
  /\ AckEvent(n)
  /\ m_hci_tx_fsm_state[n] \in {"WAIT_FOR_ACK", "WAIT_FOR_ACK_OR_TX_END"}
       => ~rx_ack_pkt_valid(n, AckHead(n).num)
  /\ hci_release_ack_buffer(n)
  /\ UNCHANGED <<txVars, rxVars, slipVars, line>>

(* hci_timeout_handler: the first tick loads the counter, the next is the timeout. *)
TimerLoads(n) ==
  /\ timer[n] = "set" /\ hci_timeout_setup(n, "running")
  /\ UNCHANGED <<m_hci_tx_fsm_state, m_packet_seq_number, m_p_tx_payload,
                 m_tx_retry_count, handed, sent, failed, rxVars, slipVars, bufVars, line>>

Timeout(n) ==
  /\ timer[n] = "running" /\ hci_timeout_setup(n, "off")
  /\ m_tx_retry_count' = [m_tx_retry_count EXCEPT ![n] = @ - 1]
  /\ UNCHANGED <<m_packet_seq_number, m_p_tx_payload, handed, sent, rxVars, bufVars, line>>

Retransmit(n) ==
  /\ Timeout(n) /\ m_tx_retry_count[n] # 1
  /\ TxGo(n, {"WAIT_FOR_ACK"}, "WAIT_FOR_ACK_OR_TX_END")
  /\ hci_pkt_send(n, m_p_tx_payload[n])
  /\ UNCHANGED failed

(* error_callback: the payload is not cleared, so that every request that
   follows is refused. *)
GiveUp(n) ==
  /\ Timeout(n) /\ m_tx_retry_count[n] = 1
  /\ TxGo(n, {"WAIT_FOR_ACK"}, "SEND")
  /\ failed' = failed \cup {n}
  /\ UNCHANGED slipVars
-----------------------------------------------------------------------------
(* Reception. *)

RxGo(n, from, to) ==
  m_hci_rx_fsm_state[n] \in from /\ m_hci_rx_fsm_state' = [m_hci_rx_fsm_state EXCEPT ![n] = to]

ack_transmit(n, num) == SlipSend(n, Ack(num))

(* The data frame of the event that is handled. *)
DataEvent(n) ==
  /\ m_big_buffer[n].type = "data"
  /\ m_big_buffer' = [m_big_buffer EXCEPT ![n] = NoFrame]
  /\ UNCHANGED <<m_small_buffer, bigFirst, big_buff_in_use, asserted>>

(* One that comes while an acknowledgement goes out is freed. *)
IgnoreData(n) ==
  /\ DataEvent(n)
  /\ m_hci_rx_fsm_state[n] \in {"WAIT_FOR_SLIP_ACK_END", "WAIT_FOR_SLIP_NACK_END"}
  /\ rx_buf_free(n)
  /\ UNCHANGED <<txVars, rxVars, slipVars, line>>

(* hci_mem_request: the packet that is expected. *)
ReceiveData(n) ==
  /\ DataEvent(n) /\ m_big_buffer[n].num = m_packet_ack_number[n]
  /\ RxGo(n, {"RECEIVE"}, "WAIT_FOR_MEM")
  /\ m_p_rx_packet' = [m_p_rx_packet EXCEPT ![n] = m_big_buffer[n].pkt]
  /\ UNCHANGED <<mp_big_buffer, refused, m_packet_ack_number, m_p_rx_buffer, accepted,
                 reported, received, txVars, slipVars, line>>

(* Mutant: the packet is dropped, its buffer is not freed. *)
ReceiveDuplicateKeeps(n) ==
  /\ DataEvent(n) /\ m_big_buffer[n].num # m_packet_ack_number[n]
  /\ RxGo(n, {"RECEIVE"}, "WAIT_FOR_SLIP_NACK_END")
  /\ ack_transmit(n, m_packet_ack_number[n])
  /\ UNCHANGED <<mp_big_buffer, refused, m_packet_ack_number, m_p_rx_packet, m_p_rx_buffer,
                 accepted, reported, received, txVars, line>>

(* Another one: what is freed is the buffer of the packet received before, and
   the acknowledgement is repeated. *)
ReceiveDuplicate(n) ==
  /\ DataEvent(n) /\ m_big_buffer[n].num # m_packet_ack_number[n]
  /\ RxGo(n, {"RECEIVE"}, "WAIT_FOR_SLIP_NACK_END")
  /\ IF m_p_rx_packet[n] = NULL THEN UNCHANGED <<mp_big_buffer, refused>> ELSE rx_buf_free(n)
  /\ ack_transmit(n, m_packet_ack_number[n])
  /\ UNCHANGED <<m_packet_ack_number, m_p_rx_packet, m_p_rx_buffer, accepted,
                 reported, received, txVars, line>>

(* Mutant: the number of the acknowledgement is not incremented. *)
hci_inc_ackNot(n) == UNCHANGED m_packet_ack_number

hci_inc_ack(n) ==
  m_packet_ack_number' = [m_packet_ack_number EXCEPT ![n] = (@ + 1) % 8]

(* ser_phy_rx_buf_set: a buffer, or NULL when the packet is too large, and then
   the big buffer is not freed. *)
BufGranted(n) ==
  /\ RxGo(n, {"WAIT_FOR_MEM"}, "WAIT_FOR_SLIP_ACK_END")
  /\ IF m_p_rx_packet[n] \in TooLarge
       THEN /\ m_p_rx_buffer' = [m_p_rx_buffer EXCEPT ![n] = NULL]
            /\ UNCHANGED <<mp_big_buffer, refused>>
       ELSE /\ m_p_rx_buffer' = [m_p_rx_buffer EXCEPT ![n] = m_p_rx_packet[n]]
            /\ rx_buf_free(n)
  /\ hci_inc_ack(n)
  /\ ack_transmit(n, m_packet_ack_number'[n])
  /\ accepted' = [accepted EXCEPT ![n] = @ + 1]
  /\ UNCHANGED <<m_p_rx_packet, reported, received, m_small_buffer, m_big_buffer, bigFirst,
                 big_buff_in_use, asserted, txVars, line>>

(* ACK_SENT: packet_received_callback, or packet_dropped_callback. *)
AckSent(n) ==
  /\ FrameIsOut(n, "ack")
  /\ RxGo(n, {"WAIT_FOR_SLIP_ACK_END"}, "RECEIVE")
  /\ reported' = [reported EXCEPT ![n] = @ + 1]
  /\ received' = [received EXCEPT ![n] = IF m_p_rx_buffer[n] = NULL THEN @ ELSE m_p_rx_buffer[n]]
  /\ UNCHANGED <<m_packet_ack_number, m_p_rx_packet, m_p_rx_buffer, accepted,
                 txVars>>

NackSent(n) ==
  /\ FrameIsOut(n, "ack")
  /\ RxGo(n, {"WAIT_FOR_SLIP_NACK_END"}, "RECEIVE")
  /\ UNCHANGED <<m_packet_ack_number, m_p_rx_packet, m_p_rx_buffer, accepted,
                 reported, received, txVars>>
-----------------------------------------------------------------------------
FrameEnds(n) == PktSent(n) \/ PktSentAfterAck(n) \/ AckSent(n) \/ NackSent(n)
Timer(n) == TimerLoads(n) \/ Retransmit(n) \/ GiveUp(n)
Reading(n) == ReadAck(n) \/ ReadData(n) \/ ReadBegins(n) \/ ReadBig(n) \/ ReadNot(n)
TxEvent(n) == ReceiveAck(n) \/ ReceiveAckEarly(n) \/ IgnoreAck(n)
RxEvent(n) == IgnoreData(n) \/ ReceiveData(n) \/ ReceiveDuplicate(n)

(* A failed assertion is fatal, and ends the link. *)
Running(n) == n \notin asserted /\ Peer[n] \notin asserted

(* Nothing but what it calls comes while SLIP reports a frame. *)
Returned(n) == Running(n) /\ big_buff_in_use[n] # "reporting"

(* The link goes on as long as one of its ends can: the interrupts of its UART and
   its timer come, what they queue is handled, and the upper layer answers each
   request for memory. *)
Goes(n) ==
  \/ Running(n) /\ (TxEvent(n) \/ RxEvent(n) \/ BufGranted(n) \/ HandlerReturns(n))
  \/ Returned(n) /\ (FrameOut(n) \/ FrameEnds(n) \/ Timer(n) \/ Reading(n))

Next ==
  \E n \in Node :
    Goes(n) \/ (Returned(n) /\ TxRequest(n)) \/ (Running(n) /\ Lose(n))

Spec == Init /\ [][Next]_vars

Fairness == WF_vars(\E n \in Node : Goes(n))

FairSpec == Spec /\ Fairness
-----------------------------------------------------------------------------
(* A packet that is reported as sent has been taken by the other end, which never
   takes one that was not handed over: an acknowledgement that is lost, repeated
   or answers a retransmission is never taken for the next packet's. *)
SentIsAccepted ==
  \A n \in Node : /\ sent[n] <= accepted[Peer[n]] /\ accepted[Peer[n]] <= sent[n] + 1
                  /\ accepted[Peer[n]] <= handed[n]

(* The big buffer is SLIP's but while its frame waits for the state machine or
   its packet for memory, in any interleaving of frames, events and answers.  It is
   lost for good in two ways only: the upper layer has no memory for a packet, or
   the buffer of a frame that began while the small one was not free is freed before
   SLIP has locked it. *)
BigBufferFreed ==
  \A n \in Node :
    n \notin refused /\ (\A p \in TooLarge : p > accepted[n]) =>
      (n \in mp_big_buffer <=>
         \/ big_buff_in_use[n] = "reporting"
         \/ m_big_buffer[n] = NoFrame /\ m_hci_rx_fsm_state[n] # "WAIT_FOR_MEM")

(* What the source asserts of the buffers: whoever frees the buffer of an
   acknowledgement or of a broken frame, it was locked. *)
AssertionsHold == asserted = {}

(* What is owed is in work: a packet that was accepted for transmission and neither
   reported as sent nor failed is in SLIP's hands or has its timer running, and a
   packet that the upper layer has answered and has no report of has its
   acknowledgement in SLIP's hands (the timer is set only by the end of a
   transmission, and the receiver waits for the end of its acknowledgement without
   one: a lost event would stop an end for good). *)
RequestInWork ==
  \A n \in Node :
    /\ handed[n] > sent[n] =>
         n \in failed \/ timer[n] # "off" \/ "data" \in {frame[n].type, pending[n].type}
    /\ accepted[n] > reported[n] => "ack" \in {frame[n].type, pending[n].type}

(* The packets under way from n; none can be after more reports than requests,
   and no step of a pipe leads to this answer. *)
UnderWay(n) ==
  IF reported[Peer[n]] <= handed[n]
    THEN [i \in 1..(handed[n] - reported[Peer[n]]) |-> reported[Peer[n]] + i]
    ELSE <<NULL>>

(* In each direction the link is a pipe: packets handed over by one end and not
   yet reported at the other arrive once and in order, whatever is lost. *)
PipeFrom(n) == INSTANCE PacketPipe WITH
  Packet <- 1..MaxPackets[n], Fitting <- (1..MaxPackets[n]) \ TooLarge, None <- NULL,
  pipe <- UnderWay(n), got <- received[Peer[n]]
ImplementsPipes ==
  (\A n \in Node : PipeFrom(n)!Init) /\ [][\A n \in Node : PipeFrom(n)!Step]_vars

(* The sender always gets its answer: each packet is reported as sent, or an
   error is, whatever the line loses, unless an assertion ends the link. *)
EveryRequestAnswered ==
  \A n \in Node : (handed[n] > sent[n]) ~> (handed[n] = sent[n] \/ n \in failed \/ ~Running(n))
=============================================================================
