-------------------------- MODULE SerPhyHciProofs --------------------------
(***************************************************************************)
(* Proofs about SerPhyHci, for any number of pairs of ends, any number of  *)
(* packets and any limit of retransmissions.                               *)
(***************************************************************************)
EXTENDS SerPhyHci, SequenceTheorems, TLAPS

Sending == {"WAIT_FOR_FIRST_TX_END", "WAIT_FOR_ACK_OR_TX_END", "WAIT_FOR_TX_END"}
Acking == {"WAIT_FOR_SLIP_ACK_END", "WAIT_FOR_SLIP_NACK_END"}

(* The sender's counters: at most one packet is under way. *)
SenderInv(n) ==
  /\ m_packet_seq_number[n] = sent[n] % 8
  /\ handed[n] \in {sent[n], sent[n] + 1} /\ handed[n] <= MaxPackets[n]
  /\ m_p_tx_payload[n] = IF handed[n] = sent[n] THEN NULL ELSE sent[n] + 1
  /\ m_hci_tx_fsm_state[n] # "SEND" => handed[n] = sent[n] + 1 /\ m_tx_retry_count[n] >= 1
  /\ timer[n] # "off" => m_hci_tx_fsm_state[n] = "WAIT_FOR_ACK"

(* SLIP holds a data frame exactly while the sender waits for its end, and an
   acknowledgement exactly while the receiver does. *)
SlipInv(n) ==
  /\ frame[n].type = "none" => frame[n] = NoFrame
  /\ pending[n].type = "none" => pending[n] = NoFrame
  /\ line[n].type = "none" => line[n] = NoFrame
  /\ frame[n].type = "none" => pending[n].type = "none" /\ n \notin frameEnd
  /\ frame[n].type = pending[n].type => frame[n].type = "none"
  /\ m_hci_tx_fsm_state[n] \in Sending <=> "data" \in {frame[n].type, pending[n].type}
  /\ m_hci_rx_fsm_state[n] \in Acking <=> "ack" \in {frame[n].type, pending[n].type}

(* What SLIP receives into is empty, and a packet that waits for memory keeps the
   big buffer from the return of the handler. *)
BufInv(n) ==
  /\ m_small_buffer[n].type # "data"
  /\ m_small_buffer[n].type = "none" => m_small_buffer[n] = NoFrame
  /\ m_big_buffer[n].type = "none" => m_big_buffer[n] = NoFrame
  /\ n \in mp_big_buffer => big_buff_in_use[n] = "reporting" \/ m_big_buffer[n] = NoFrame
  /\ big_buff_in_use[n] # "no" => n \in mp_big_buffer
  /\ n \in bigFirst => m_big_buffer[n].type = "ack"
  /\ m_hci_rx_fsm_state[n] = "WAIT_FOR_MEM" =>
       m_big_buffer[n] = NoFrame /\ (n \in mp_big_buffer => big_buff_in_use[n] = "reporting")

(* A data frame from n that has not been handled is the packet under way, or
   repeats the one before and is behind the receiver's number. *)
DataTo(n, f) ==
  f.type = "data" =>
    \/ f.num = sent[n] % 8 /\ f.pkt = sent[n] + 1 /\ handed[n] = sent[n] + 1
    \/ /\ f.num = (sent[n] + 7) % 8 /\ f.pkt = sent[n] /\ sent[n] >= 1
       /\ accepted[Peer[n]] = sent[n]
       /\ m_hci_rx_fsm_state[Peer[n]] # "WAIT_FOR_MEM"

(* The packet from n is taken once. *)
DataInv(n) ==
  /\ accepted[Peer[n]] \in {sent[n], sent[n] + 1} /\ accepted[Peer[n]] <= handed[n]
  /\ m_packet_ack_number[Peer[n]] = accepted[Peer[n]] % 8
  /\ \A f \in {frame[n], pending[n]} :
       f.type = "data" => f.num = sent[n] % 8 /\ f.pkt = sent[n] + 1
  /\ DataTo(n, line[n]) /\ DataTo(n, m_big_buffer[Peer[n]])
  /\ m_big_buffer[Peer[n]].type = "data" /\ line[n].type = "data" =>
       line[n].num = sent[n] % 8 \/ m_big_buffer[Peer[n]].num # sent[n] % 8
  /\ m_hci_rx_fsm_state[Peer[n]] = "WAIT_FOR_MEM" =>
       /\ m_p_rx_packet[Peer[n]] = sent[n] + 1 /\ handed[n] = sent[n] + 1
       /\ accepted[Peer[n]] = sent[n]

(* An acknowledgement to n has the receiver's number, or one that n no longer waits for. *)
AckTo(n, f) ==
  f.type = "ack" =>
    \/ f.num = sent[n] % 8
    \/ f.num = (sent[n] + 1) % 8 /\ accepted[Peer[n]] = sent[n] + 1

(* One that comes after the answer that n waits for answers the same. *)
InOrder(n, f, g) ==
  f.type = "ack" /\ g.type = "ack" /\ f.num = (sent[n] + 1) % 8 => g.num = (sent[n] + 1) % 8

AckInv(n) ==
  /\ \A f \in {frame[Peer[n]], pending[Peer[n]]} :
       f.type = "ack" => f.num = accepted[Peer[n]] % 8
  /\ AckTo(n, line[Peer[n]]) /\ AckTo(n, m_small_buffer[n]) /\ AckTo(n, m_big_buffer[n])
  /\ InOrder(n, m_small_buffer[n], line[Peer[n]]) /\ InOrder(n, m_big_buffer[n], line[Peer[n]])
  /\ IF n \in bigFirst THEN InOrder(n, m_big_buffer[n], m_small_buffer[n])
                       ELSE InOrder(n, m_small_buffer[n], m_big_buffer[n])
  /\ m_hci_tx_fsm_state[n] = "WAIT_FOR_TX_END" =>
       /\ accepted[Peer[n]] = sent[n] + 1
       /\ \A f \in {line[Peer[n]], m_small_buffer[n], m_big_buffer[n]} :
            f.type = "ack" => f.num = (sent[n] + 1) % 8

(* What the receiver n holds between the answer of its upper layer and the
   report to it. *)
ReportInv(n) ==
  /\ m_hci_rx_fsm_state[n] = "WAIT_FOR_SLIP_ACK_END" =>
       /\ accepted[n] = reported[n] + 1
       /\ m_p_rx_buffer[n] = IF accepted[n] \in TooLarge THEN NULL ELSE accepted[n]
  /\ m_hci_rx_fsm_state[n] # "WAIT_FOR_SLIP_ACK_END" => accepted[n] = reported[n]
  /\ m_p_rx_packet[n] = NULL => accepted[n] = 0

(* Nothing has cost n the big buffer so far. *)
Kept(n) == n \notin refused /\ \A p \in TooLarge : p > accepted[n]

(* A frame that is handled within its report waits for memory, or has cost it. *)
BigInv(n) ==
  Kept(n) =>
    /\ n \notin asserted /\ big_buff_in_use[n] = "reporting" =>
         m_big_buffer[n] # NoFrame \/ m_hci_rx_fsm_state[n] = "WAIT_FOR_MEM"
    /\ n \in mp_big_buffer <=>
         \/ big_buff_in_use[n] = "reporting"
         \/ m_big_buffer[n] = NoFrame /\ m_hci_rx_fsm_state[n] # "WAIT_FOR_MEM"

NodeInv(n) ==
  /\ SenderInv(n) /\ SlipInv(n) /\ BufInv(n) /\ DataInv(n) /\ AckInv(n)
  /\ ReportInv(n) /\ BigInv(n)

IInv == TypeOK /\ \A n \in Node : NodeInv(n)
-----------------------------------------------------------------------------

(* The operators that the actions are written with are expanded throughout. *)
USE DEF SlipSend, FrameIsOut, Read, TxGo, RxGo, hci_timeout_setup, hci_pkt_send,
        ack_transmit, rx_ack_pkt_valid, hci_pkt_sent_upcall, hci_inc_ack, Timeout,
        DataEvent, rx_buf_free, SmallPath, txVars, rxVars, slipVars, bufVars

(* What frames are made of. *)
LEMMA FrameType ==
  /\ NoFrame \in Frame
  /\ \A q \in 0..7, p \in Nat : Data(q, p) \in Frame /\ Ack(q) \in Frame
  /\ \A f \in Frame : f.num \in 0..7 /\ f.pkt \in Nat /\ f.type \in {"none", "data", "ack"}
BY DEF NoFrame, Data, Ack, Frame, NULL

(* Counting in sequence numbers. *)
SeqFacts(k) ==
  /\ ((k % 8) + 1) % 8 = (k + 1) % 8 /\ ((k % 8) + 2) % 8 = (k + 2) % 8
  /\ ((k + 1) + 7) % 8 = k % 8 /\ (k + 7) % 8 # k % 8
  /\ (k + 1) % 8 # k % 8 /\ (k + 2) % 8 # k % 8 /\ (k + 2) % 8 # (k + 1) % 8

LEMMA SeqNumbers == \A k \in Nat : SeqFacts(k)
BY DEF SeqFacts

(* The ends come in pairs. *)
LEMMA Pairs ==
  \A n \in Node : Peer[n] \in Node /\ Peer[n] # n /\ Peer[Peer[n]] = n
BY HciAssumption

(* What an end may count on: its own invariants and its peer's, and how
   sequence numbers follow each other. *)
Facts(n) ==
  /\ Peer[n] \in Node /\ Peer[n] # n /\ Peer[Peer[n]] = n
  /\ SenderInv(n) /\ SlipInv(n) /\ BufInv(n) /\ DataInv(n) /\ AckInv(n) /\ ReportInv(n) /\ BigInv(n)
  /\ SlipInv(Peer[n]) /\ BufInv(Peer[n]) /\ DataInv(Peer[n])
  /\ sent[n] \in Nat /\ accepted[Peer[n]] \in Nat /\ accepted[n] \in Nat
  /\ MAX_RETRY_COUNT \in Nat \ {0} /\ MaxPackets[n] \in Nat /\ TooLarge \subseteq Nat

LEMMA FactsHold == IInv => \A n \in Node : Facts(n)
BY Pairs, HciAssumption DEF IInv, NodeInv, TypeOK, Facts

(* A request: nothing was under way. *)
LEMMA TxRequestInv ==
  ASSUME IInv, NEW m \in Node, TxRequest(m)
  PROVE  IInv'
<1>0. TypeOK /\ Facts(m)
  BY FactsHold DEF IInv
<1>1. m_packet_seq_number[m] \in 0..7 /\ handed[m] + 1 \in Nat
  BY <1>0 DEF TypeOK
<1>2. Data(m_packet_seq_number[m], handed[m] + 1) \in Frame
  BY <1>1, FrameType
<1>3. TypeOK'
  <2>1. m_hci_tx_fsm_state' \in [Node -> TxState]
    BY <1>0, <1>1, <1>2, FrameType, Pairs, HciAssumption DEF TypeOK, TxState, RxState,
       NULL, TxRequest
  <2>2. handed' \in [Node -> Nat]
    BY <1>0, <1>1, <1>2, FrameType, Pairs, HciAssumption DEF TypeOK, TxState, RxState,
       NULL, TxRequest
  <2>3. m_p_tx_payload' \in [Node -> Nat]
    BY <1>0, <1>1, <1>2, FrameType, Pairs, HciAssumption DEF TypeOK, TxState, RxState,
       NULL, TxRequest
  <2>4. frame' \in [Node -> Frame]
    BY <1>0, <1>1, <1>2, FrameType, Pairs, HciAssumption DEF TypeOK, TxState, RxState,
       NULL, TxRequest
  <2>5. pending' \in [Node -> Frame]
    BY <1>0, <1>1, <1>2, FrameType, Pairs, HciAssumption DEF TypeOK, TxState, RxState,
       NULL, TxRequest
  <2>6. timer' \in [Node -> {"off", "set", "running"}]
    BY <1>0, <1>1, <1>2, FrameType, Pairs, HciAssumption DEF TypeOK, TxState, RxState,
       NULL, TxRequest
  <2>7. m_tx_retry_count' \in [Node -> 0..MAX_RETRY_COUNT]
    BY <1>0, <1>1, <1>2, FrameType, Pairs, HciAssumption DEF TypeOK, TxState, RxState,
       NULL, TxRequest
  <2>. QED BY <1>0, <2>1, <2>2, <2>3, <2>4, <2>5, <2>6, <2>7 DEF TypeOK, TxRequest
<1>4. /\ m_hci_tx_fsm_state'[m] = "WAIT_FOR_FIRST_TX_END"
      /\ handed[m] = sent[m] /\ handed'[m] = sent[m] + 1
      /\ frame'[m] \in {frame[m], Data(sent[m] % 8, sent[m] + 1)}
      /\ pending'[m] \in {pending[m], Data(sent[m] % 8, sent[m] + 1)}
  BY <1>0, <1>1, <1>2 DEF Facts, TypeOK, SenderInv, SlipInv, NULL, NoFrame, Sending,
     TxRequest
<1>5. \A n \in Node : n # m =>
        /\ handed'[n] = handed[n] /\ frame'[n] = frame[n] /\ pending'[n] = pending[n]
        /\ m_hci_tx_fsm_state'[n] = m_hci_tx_fsm_state[n]
  BY <1>0, Pairs DEF TypeOK, TxRequest
<1>6. UNCHANGED <<accepted, sent, m_packet_ack_number, line, m_big_buffer,
                m_hci_rx_fsm_state, m_p_rx_packet, m_small_buffer, bigFirst>>
  BY DEF TxRequest
<1>7. ASSUME NEW n \in Node PROVE NodeInv(n)'
  <2>0. Facts(n) /\ Facts(m)
    BY FactsHold
  <2>1. SeqFacts(sent[n])
    BY <2>0, SeqNumbers DEF Facts
  <2>2. SenderInv(n)'
    BY SMTT(30), <1>0, <1>3, <1>1, <1>2, <2>0, <2>1 DEF Facts, TypeOK, NoFrame, Data,
       Ack, NULL, Sending, Acking, SeqFacts, SenderInv, SlipInv, TxRequest
  <2>3. SlipInv(n)'
    BY SMTT(30), <1>0, <1>3, <1>1, <1>2, <2>0, <2>1 DEF Facts, TypeOK, NoFrame, Data,
       Ack, NULL, Sending, Acking, Frame, SlipInv, SenderInv, TxRequest
  <2>4. BufInv(n)'
    BY <2>0, <1>3 DEF Facts, BufInv, TxRequest
  <2>5. DataInv(n)'
    <3>1. CASE n = m
      BY SMTT(30), <3>1, <2>0, <2>1, <1>4, <1>5, <1>6 DEF Facts, SeqFacts, DataInv,
         DataTo, NoFrame, Data, Ack
    <3>2. CASE Peer[n] = m
      BY SMTT(30), <3>2, <2>0, <2>1, <1>4, <1>5, <1>6 DEF Facts, SeqFacts, DataInv,
         DataTo, NoFrame, Data, Ack
    <3>3. CASE n # m /\ Peer[n] # m
      BY SMTT(30), <3>3, <2>0, <2>1, <1>4, <1>5, <1>6 DEF Facts, DataInv, DataTo
    <3>. QED BY <3>1, <3>2, <3>3
  <2>6. AckInv(n)'
    <3>1. CASE n = m
      BY SMTT(30), <3>1, <2>0, <2>1, <1>4, <1>5, <1>6 DEF Facts, SeqFacts, AckInv,
         AckTo, InOrder, NoFrame, Data, Ack
    <3>2. CASE Peer[n] = m
      BY SMTT(30), <3>2, <2>0, <2>1, <1>4, <1>5, <1>6 DEF Facts, SeqFacts, AckInv,
         AckTo, InOrder, NoFrame, Data, Ack
    <3>3. CASE n # m /\ Peer[n] # m
      BY SMTT(30), <3>3, <2>0, <2>1, <1>4, <1>5, <1>6 DEF Facts, AckInv, AckTo, InOrder
    <3>. QED BY <3>1, <3>2, <3>3
  <2>7. ReportInv(n)'
    BY <2>0, <1>3 DEF Facts, ReportInv, TxRequest
  <2>8. BigInv(n)'
    BY <2>0, <1>3 DEF Facts, BigInv, Kept, TxRequest
  <2>. QED BY <2>2, <2>3, <2>4, <2>5, <2>6, <2>7, <2>8 DEF NodeInv
<1>. QED BY <1>3, <1>7 DEF IInv

(* The end of the data frame. *)
LEMMA PktSentInv ==
  ASSUME IInv, NEW m \in Node, PktSent(m)
  PROVE  IInv'
<1>0. TypeOK /\ Facts(m)
  BY FactsHold DEF IInv
<1>1. TypeOK'
  <2>1. frame' \in [Node -> Frame]
    BY <1>0, FrameType, Pairs, HciAssumption DEF TypeOK, TxState, RxState, NULL, PktSent
  <2>2. pending' \in [Node -> Frame]
    BY <1>0, FrameType, Pairs, HciAssumption DEF TypeOK, TxState, RxState, NULL, PktSent
  <2>3. frameEnd' \in SUBSET Node
    BY <1>0, FrameType, Pairs, HciAssumption DEF TypeOK, TxState, RxState, NULL, PktSent
  <2>4. m_hci_tx_fsm_state' \in [Node -> TxState]
    BY <1>0, FrameType, Pairs, HciAssumption DEF TypeOK, TxState, RxState, NULL, PktSent
  <2>5. timer' \in [Node -> {"off", "set", "running"}]
    BY <1>0, FrameType, Pairs, HciAssumption DEF TypeOK, TxState, RxState, NULL, PktSent
  <2>. QED BY <1>0, <2>1, <2>2, <2>3, <2>4, <2>5 DEF TypeOK, PktSent
<1>2. /\ frame'[m] = pending[m] /\ pending'[m] = NoFrame
      /\ m_hci_tx_fsm_state'[m] = "WAIT_FOR_ACK"
  BY <1>0 DEF TypeOK, PktSent
<1>3. \A n \in Node : n # m =>
        /\ frame'[n] = frame[n] /\ pending'[n] = pending[n]
        /\ m_hci_tx_fsm_state'[n] = m_hci_tx_fsm_state[n]
  BY <1>0, Pairs DEF TypeOK, PktSent
<1>4. UNCHANGED <<accepted, sent, handed, m_packet_ack_number, line, m_big_buffer,
                m_hci_rx_fsm_state, m_p_rx_packet, m_small_buffer, bigFirst>>
  BY DEF PktSent
<1>5. ASSUME NEW n \in Node PROVE NodeInv(n)'
  <2>0. Facts(n) /\ Facts(m)
    BY FactsHold
  <2>1. SeqFacts(sent[n])
    BY <2>0, SeqNumbers DEF Facts
  <2>2. SenderInv(n)'
    BY SMTT(30), <1>0, <1>1, <2>0, <2>1 DEF Facts, TypeOK, NoFrame, Data, Ack, NULL,
       Sending, Acking, SeqFacts, SenderInv, SlipInv, PktSent
  <2>3. SlipInv(n)'
    BY SMTT(30), <1>0, <1>1, <2>0, <2>1 DEF Facts, TypeOK, NoFrame, Data, Ack, NULL,
       Sending, Acking, Frame, SlipInv, SenderInv, PktSent
  <2>4. BufInv(n)'
    BY <2>0, <1>1 DEF Facts, BufInv, PktSent
  <2>5. DataInv(n)'
    <3>1. CASE n = m
      BY SMTT(30), <3>1, <2>0, <2>1, <1>2, <1>3, <1>4 DEF Facts, SeqFacts, DataInv,
         DataTo, NoFrame, Data, Ack
    <3>2. CASE Peer[n] = m
      BY SMTT(30), <3>2, <2>0, <2>1, <1>2, <1>3, <1>4 DEF Facts, SeqFacts, DataInv,
         DataTo, NoFrame, Data, Ack
    <3>3. CASE n # m /\ Peer[n] # m
      BY SMTT(30), <3>3, <2>0, <2>1, <1>2, <1>3, <1>4 DEF Facts, DataInv, DataTo
    <3>. QED BY <3>1, <3>2, <3>3
  <2>6. AckInv(n)'
    <3>1. CASE n = m
      BY SMTT(30), <3>1, <2>0, <2>1, <1>2, <1>3, <1>4 DEF Facts, SeqFacts, AckInv,
         AckTo, InOrder, NoFrame, Data, Ack
    <3>2. CASE Peer[n] = m
      BY SMTT(30), <3>2, <2>0, <2>1, <1>2, <1>3, <1>4 DEF Facts, SeqFacts, AckInv,
         AckTo, InOrder, NoFrame, Data, Ack
    <3>3. CASE n # m /\ Peer[n] # m
      BY SMTT(30), <3>3, <2>0, <2>1, <1>2, <1>3, <1>4 DEF Facts, AckInv, AckTo, InOrder
    <3>. QED BY <3>1, <3>2, <3>3
  <2>7. ReportInv(n)'
    BY <2>0, <1>1 DEF Facts, ReportInv, PktSent
  <2>8. BigInv(n)'
    BY <2>0, <1>1 DEF Facts, BigInv, Kept, PktSent
  <2>. QED BY <2>2, <2>3, <2>4, <2>5, <2>6, <2>7, <2>8 DEF NodeInv
<1>. QED BY <1>1, <1>5 DEF IInv

(* The end of a retransmission that was already acknowledged: the packet counts as sent. *)
LEMMA PktSentAfterAckInv ==
  ASSUME IInv, NEW m \in Node, PktSentAfterAck(m)
  PROVE  IInv'
<1>0. TypeOK /\ Facts(m)
  BY FactsHold DEF IInv
<1>1. (m_packet_seq_number[m] + 1) % 8 \in 0..7 /\ pending[m] \in Frame
  BY <1>0 DEF TypeOK
<1>2. TypeOK'
  <2>1. frame' \in [Node -> Frame]
    BY <1>0, <1>1, FrameType, Pairs, HciAssumption DEF TypeOK, TxState, RxState, NULL,
       PktSentAfterAck
  <2>2. pending' \in [Node -> Frame]
    BY <1>0, <1>1, FrameType, Pairs, HciAssumption DEF TypeOK, TxState, RxState, NULL,
       PktSentAfterAck
  <2>3. frameEnd' \in SUBSET Node
    BY <1>0, <1>1, FrameType, Pairs, HciAssumption DEF TypeOK, TxState, RxState, NULL,
       PktSentAfterAck
  <2>4. m_hci_tx_fsm_state' \in [Node -> TxState]
    BY <1>0, <1>1, FrameType, Pairs, HciAssumption DEF TypeOK, TxState, RxState, NULL,
       PktSentAfterAck
  <2>5. m_packet_seq_number' \in [Node -> 0..7]
    BY <1>0, <1>1, FrameType, Pairs, HciAssumption DEF TypeOK, TxState, RxState, NULL,
       PktSentAfterAck
  <2>6. m_p_tx_payload' \in [Node -> Nat]
    BY <1>0, <1>1, FrameType, Pairs, HciAssumption DEF TypeOK, TxState, RxState, NULL,
       PktSentAfterAck
  <2>7. sent' \in [Node -> Nat]
    BY <1>0, <1>1, FrameType, Pairs, HciAssumption DEF TypeOK, TxState, RxState, NULL,
       PktSentAfterAck
  <2>. QED BY <1>0, <2>1, <2>2, <2>3, <2>4, <2>5, <2>6, <2>7 DEF TypeOK, PktSentAfterAck
<1>3. /\ frame'[m] = pending[m] /\ pending'[m] = NoFrame
      /\ frame[m].type = "data" /\ sent'[m] = sent[m] + 1
      /\ m_hci_tx_fsm_state[m] = "WAIT_FOR_TX_END" /\ m_hci_tx_fsm_state'[m] = "SEND"
  BY <1>0, <1>1 DEF TypeOK, PktSentAfterAck
<1>4. \A n \in Node : n # m =>
        /\ sent'[n] = sent[n] /\ frame'[n] = frame[n] /\ pending'[n] = pending[n]
        /\ m_hci_tx_fsm_state'[n] = m_hci_tx_fsm_state[n]
  BY <1>0, Pairs DEF TypeOK, PktSentAfterAck
<1>5. UNCHANGED <<accepted, handed, m_packet_ack_number, line, m_big_buffer,
                m_hci_rx_fsm_state, m_p_rx_packet, m_small_buffer, bigFirst>>
  BY DEF PktSentAfterAck
<1>6. ASSUME NEW n \in Node PROVE NodeInv(n)'
  <2>0. Facts(n) /\ Facts(m)
    BY FactsHold
  <2>1. SeqFacts(sent[n])
    BY <2>0, SeqNumbers DEF Facts
  <2>2. SenderInv(n)'
    BY SMTT(30), <1>0, <1>2, <1>1, <2>0, <2>1 DEF Facts, TypeOK, NoFrame, Data, Ack,
       NULL, Sending, Acking, SeqFacts, SenderInv, SlipInv, PktSentAfterAck
  <2>3. SlipInv(n)'
    BY SMTT(30), <1>0, <1>2, <1>1, <2>0, <2>1 DEF Facts, TypeOK, NoFrame, Data, Ack,
       NULL, Sending, Acking, Frame, SlipInv, SenderInv, PktSentAfterAck
  <2>4. BufInv(n)'
    BY <2>0, <1>2 DEF Facts, BufInv, PktSentAfterAck
  <2>5. DataInv(n)'
    <3>1. CASE n = m
      <4>1. accepted[Peer[n]] = sent[n] + 1
        BY SMTT(30), <3>1, <2>0, <2>1, <1>3 DEF Facts, SeqFacts, DataInv, AckInv, AckTo
      <4>2. /\ m_hci_rx_fsm_state[Peer[n]] # "WAIT_FOR_MEM"
            /\ \A f \in {line[n], m_big_buffer[Peer[n]]} :
                 f.type = "data" => f.num = sent[n] % 8 /\ f.pkt = sent[n] + 1
        BY <4>1, <2>0 DEF Facts, DataInv, DataTo
      <4>3. frame'[n].type # "data" /\ pending'[n].type # "data"
        BY <3>1, <2>0, <1>3, <1>5 DEF Facts, SlipInv, NoFrame, Sending
      <4>4. /\ sent'[n] = sent[n] + 1 /\ sent'[n] >= 1
            /\ (sent'[n] + 7) % 8 = sent[n] % 8 /\ sent[n] % 8 # sent'[n] % 8
        BY <3>1, <2>0, <2>1, <1>3 DEF Facts, SeqFacts
      <4>5. m_big_buffer'[Peer[n]] = m_big_buffer[Peer[n]]
        BY <3>1, <2>0, <1>4, <1>5 DEF Facts
      <4>. QED BY <4>1, <4>2, <4>3, <4>4, <4>5, <2>0, <1>5 DEF Facts, DataInv, DataTo
    <3>2. CASE Peer[n] = m
      BY SMTT(30), <3>2, <2>0, <2>1, <1>3, <1>4, <1>5 DEF Facts, SeqFacts, DataInv,
         DataTo, NoFrame, Data, Ack
    <3>3. CASE n # m /\ Peer[n] # m
      BY SMTT(30), <3>3, <2>0, <2>1, <1>3, <1>4, <1>5 DEF Facts, DataInv, DataTo
    <3>. QED BY <3>1, <3>2, <3>3
  <2>6. AckInv(n)'
    <3>1. CASE n = m
      BY SMTT(30), <3>1, <2>0, <2>1, <1>3, <1>4, <1>5 DEF Facts, SeqFacts, AckInv,
         AckTo, InOrder, NoFrame, Data, Ack, DataInv, BufInv
    <3>2. CASE Peer[n] = m
      BY SMTT(30), <3>2, <2>0, <2>1, <1>3, <1>4, <1>5 DEF Facts, SeqFacts, AckInv,
         AckTo, InOrder, NoFrame, Data, Ack, DataInv, BufInv
    <3>3. CASE n # m /\ Peer[n] # m
      BY SMTT(30), <3>3, <2>0, <2>1, <1>3, <1>4, <1>5 DEF Facts, AckInv, AckTo, InOrder
    <3>. QED BY <3>1, <3>2, <3>3
  <2>7. ReportInv(n)'
    BY <2>0, <1>2 DEF Facts, ReportInv, PktSentAfterAck
  <2>8. BigInv(n)'
    BY <2>0, <1>2 DEF Facts, BigInv, Kept, PktSentAfterAck
  <2>. QED BY <2>2, <2>3, <2>4, <2>5, <2>6, <2>7, <2>8 DEF NodeInv
<1>. QED BY <1>2, <1>6 DEF IInv

(* A valid acknowledgement is the receiver's answer to this very packet. *)
LEMMA ReceiveAckInv ==
  ASSUME IInv, NEW m \in Node, ReceiveAck(m)
  PROVE  IInv'
<1>0. TypeOK /\ Facts(m)
  BY FactsHold DEF IInv
<1>1. (m_packet_seq_number[m] + 1) % 8 \in 0..7
  BY <1>0 DEF TypeOK
<1>2. TypeOK'
  <2>1. m_hci_tx_fsm_state' \in [Node -> TxState]
    BY <1>0, <1>1, FrameType, Pairs, HciAssumption DEF TypeOK, TxState, RxState, NULL,
       ReceiveAck, HeadInBig, AckHead, AckEvent, hci_release_ack_buffer
  <2>2. timer' \in [Node -> {"off", "set", "running"}]
    BY <1>0, <1>1, FrameType, Pairs, HciAssumption DEF TypeOK, TxState, RxState, NULL,
       ReceiveAck, HeadInBig, AckHead, AckEvent, hci_release_ack_buffer
  <2>3. m_packet_seq_number' \in [Node -> 0..7]
    BY <1>0, <1>1, FrameType, Pairs, HciAssumption DEF TypeOK, TxState, RxState, NULL,
       ReceiveAck, HeadInBig, AckHead, AckEvent, hci_release_ack_buffer
  <2>4. m_p_tx_payload' \in [Node -> Nat]
    BY <1>0, <1>1, FrameType, Pairs, HciAssumption DEF TypeOK, TxState, RxState, NULL,
       ReceiveAck, HeadInBig, AckHead, AckEvent, hci_release_ack_buffer
  <2>5. sent' \in [Node -> Nat]
    BY <1>0, <1>1, FrameType, Pairs, HciAssumption DEF TypeOK, TxState, RxState, NULL,
       ReceiveAck, HeadInBig, AckHead, AckEvent, hci_release_ack_buffer
  <2>6. m_small_buffer' \in [Node -> Frame]
    <3>1. CASE HeadInBig(m)
      BY <1>0, <3>1 DEF TypeOK, ReceiveAck, HeadInBig, AckHead, AckEvent, hci_release_ack_buffer
    <3>2. CASE ~HeadInBig(m)
      BY <1>0, <3>2, FrameType
         DEF TypeOK, ReceiveAck, HeadInBig, AckHead, AckEvent, hci_release_ack_buffer
    <3>. QED BY <3>1, <3>2
  <2>7. m_big_buffer' \in [Node -> Frame]
    <3>1. CASE HeadInBig(m)
      BY <1>0, <3>1, FrameType
         DEF TypeOK, ReceiveAck, HeadInBig, AckHead, AckEvent, hci_release_ack_buffer
    <3>2. CASE ~HeadInBig(m)
      BY <1>0, <3>2 DEF TypeOK, ReceiveAck, HeadInBig, AckHead, AckEvent, hci_release_ack_buffer
    <3>. QED BY <3>1, <3>2
  <2>8. bigFirst' \in SUBSET Node
    BY <1>0, <1>1, FrameType, Pairs, HciAssumption DEF TypeOK, TxState, RxState, NULL,
       ReceiveAck, HeadInBig, AckHead, AckEvent, hci_release_ack_buffer
  <2>9. mp_big_buffer' \in SUBSET Node
    BY <1>0, <1>1, FrameType, Pairs, HciAssumption DEF TypeOK, TxState, RxState, NULL,
       ReceiveAck, HeadInBig, AckHead, AckEvent, hci_release_ack_buffer
  <2>10. asserted' \in SUBSET Node
    BY <1>0, <1>1, FrameType, Pairs, HciAssumption DEF TypeOK, TxState, RxState, NULL,
       ReceiveAck, HeadInBig, AckHead, AckEvent, hci_release_ack_buffer
  <2>. QED BY <1>0, <2>1, <2>2, <2>3, <2>4, <2>5, <2>6, <2>7, <2>8, <2>9, <2>10 DEF
     TypeOK, ReceiveAck, HeadInBig, AckHead, AckEvent, hci_release_ack_buffer
<1>3. /\ m_hci_tx_fsm_state[m] = "WAIT_FOR_ACK" /\ m_hci_tx_fsm_state'[m] = "SEND"
      /\ sent'[m] = sent[m] + 1
      /\ \/ /\ m_big_buffer[m].type = "ack" /\ (m_small_buffer[m] = NoFrame \/ m \in bigFirst)
            /\ m_big_buffer'[m] = NoFrame /\ m_small_buffer'[m] = m_small_buffer[m]
            /\ m \notin bigFirst' /\ m_big_buffer[m].num \in {(sent[m] + 1) % 8, (sent[m] + 2) % 8}
         \/ /\ m_small_buffer[m].type = "ack" /\ m \notin bigFirst
            /\ m_small_buffer'[m] = NoFrame /\ m_big_buffer'[m] = m_big_buffer[m]
            /\ m \notin bigFirst'
            /\ m_small_buffer[m].num \in {(sent[m] + 1) % 8, (sent[m] + 2) % 8}
  BY <1>0, <1>1 DEF Facts, TypeOK, SenderInv, BufInv, SeqFacts, NoFrame, ReceiveAck,
     HeadInBig, AckHead, AckEvent, hci_release_ack_buffer
<1>4. \A n \in Node : n # m =>
        /\ sent'[n] = sent[n] /\ m_big_buffer'[n] = m_big_buffer[n]
        /\ m_small_buffer'[n] = m_small_buffer[n]
        /\ m_hci_tx_fsm_state'[n] = m_hci_tx_fsm_state[n]
        /\ (n \in bigFirst' <=> n \in bigFirst)
  BY <1>0, Pairs DEF TypeOK, ReceiveAck, HeadInBig, AckHead, AckEvent,
     hci_release_ack_buffer
<1>5. UNCHANGED <<accepted, handed, m_packet_ack_number, frame, pending, line,
                m_hci_rx_fsm_state, m_p_rx_packet>>
  BY DEF ReceiveAck, HeadInBig, AckHead, AckEvent, hci_release_ack_buffer
<1>6. ASSUME NEW n \in Node PROVE NodeInv(n)'
  <2>0. Facts(n) /\ Facts(m)
    BY FactsHold
  <2>1. SeqFacts(sent[n])
    BY <2>0, SeqNumbers DEF Facts
  <2>2. SenderInv(n)'
    BY SMTT(30), <1>0, <1>2, <1>1, <2>0, <2>1 DEF Facts, TypeOK, NoFrame, Data, Ack,
       NULL, Sending, Acking, SeqFacts, SenderInv, SlipInv, ReceiveAck, HeadInBig,
       AckHead, AckEvent, hci_release_ack_buffer
  <2>3. SlipInv(n)'
    BY SMTT(30), <1>0, <1>2, <1>1, <2>0, <2>1 DEF Facts, TypeOK, NoFrame, Data, Ack,
       NULL, Sending, Acking, Frame, SlipInv, SenderInv, ReceiveAck, HeadInBig, AckHead,
       AckEvent, hci_release_ack_buffer
  <2>4. BufInv(n)'
    BY SMTT(30), <1>0, <1>2, <1>1, <2>0, <2>1 DEF Facts, TypeOK, NoFrame, Data, Ack,
       NULL, Sending, Acking, Frame, BufInv, SlipInv, ReceiveAck, HeadInBig, AckHead,
       AckEvent, hci_release_ack_buffer
  <2>5. DataInv(n)'
    <3>1. CASE n = m
      <4>1. accepted[Peer[n]] = sent[n] + 1
        BY SMTT(30), <3>1, <2>0, <2>1, <1>3 DEF Facts, SeqFacts, DataInv, AckInv, AckTo
      <4>2. /\ m_hci_rx_fsm_state[Peer[n]] # "WAIT_FOR_MEM"
            /\ \A f \in {line[n], m_big_buffer[Peer[n]]} :
                 f.type = "data" => f.num = sent[n] % 8 /\ f.pkt = sent[n] + 1
        BY <4>1, <2>0 DEF Facts, DataInv, DataTo
      <4>3. frame'[n].type # "data" /\ pending'[n].type # "data"
        BY <3>1, <2>0, <1>3, <1>5 DEF Facts, SlipInv, NoFrame, Sending
      <4>4. /\ sent'[n] = sent[n] + 1 /\ sent'[n] >= 1
            /\ (sent'[n] + 7) % 8 = sent[n] % 8 /\ sent[n] % 8 # sent'[n] % 8
        BY <3>1, <2>0, <2>1, <1>3 DEF Facts, SeqFacts
      <4>5. m_big_buffer'[Peer[n]] = m_big_buffer[Peer[n]]
        BY <3>1, <2>0, <1>4, <1>5 DEF Facts
      <4>. QED BY <4>1, <4>2, <4>3, <4>4, <4>5, <2>0, <1>5 DEF Facts, DataInv, DataTo
    <3>2. CASE Peer[n] = m
      <4>1. m_big_buffer'[Peer[n]] \in {m_big_buffer[Peer[n]], NoFrame}
        BY <3>2, <1>3
      <4>. QED BY SMTT(30), <3>2, <4>1, <2>0, <1>4, <1>5 DEF Facts, DataInv, DataTo, NoFrame
    <3>3. CASE n # m /\ Peer[n] # m
      BY SMTT(30), <3>3, <2>0, <2>1, <1>3, <1>4, <1>5 DEF Facts, DataInv, DataTo
    <3>. QED BY <3>1, <3>2, <3>3
  <2>6. AckInv(n)'
    <3>1. CASE n = m
      BY SMTT(30), <3>1, <2>0, <2>1, <1>3, <1>4, <1>5 DEF Facts, SeqFacts, AckInv,
         AckTo, InOrder, NoFrame, Data, Ack, BufInv
    <3>2. CASE Peer[n] = m
      BY SMTT(30), <3>2, <2>0, <2>1, <1>3, <1>4, <1>5 DEF Facts, SeqFacts, AckInv,
         AckTo, InOrder, NoFrame, Data, Ack, BufInv
    <3>3. CASE n # m /\ Peer[n] # m
      BY SMTT(30), <3>3, <2>0, <2>1, <1>3, <1>4, <1>5 DEF Facts, AckInv, AckTo, InOrder
    <3>. QED BY <3>1, <3>2, <3>3
  <2>7. ReportInv(n)'
    BY <2>0, <1>2 DEF Facts, ReportInv, ReceiveAck, HeadInBig, AckHead, AckEvent,
       hci_release_ack_buffer
  <2>8. BigInv(n)'
    BY SMTT(30), <1>0, <1>2, <1>1, <2>0, <2>1 DEF Facts, TypeOK, NoFrame, Data, Ack,
       NULL, Sending, Acking, BigInv, Kept, BufInv, DataInv, DataTo, ReportInv,
       ReceiveAck, HeadInBig, AckHead, AckEvent, hci_release_ack_buffer
  <2>. QED BY <2>2, <2>3, <2>4, <2>5, <2>6, <2>7, <2>8 DEF NodeInv
<1>. QED BY <1>2, <1>6 DEF IInv

(* The same, while a retransmission goes out. *)
LEMMA ReceiveAckEarlyInv ==
  ASSUME IInv, NEW m \in Node, ReceiveAckEarly(m)
  PROVE  IInv'
<1>0. TypeOK /\ Facts(m)
  BY FactsHold DEF IInv
<1>1. TypeOK'
  <2>1. m_hci_tx_fsm_state' \in [Node -> TxState]
    BY <1>0, FrameType, Pairs, HciAssumption DEF TypeOK, TxState, RxState, NULL,
       ReceiveAckEarly, HeadInBig, AckHead, AckEvent, hci_release_ack_buffer
  <2>2. timer' \in [Node -> {"off", "set", "running"}]
    BY <1>0, FrameType, Pairs, HciAssumption DEF TypeOK, TxState, RxState, NULL,
       ReceiveAckEarly, HeadInBig, AckHead, AckEvent, hci_release_ack_buffer
  <2>3. m_small_buffer' \in [Node -> Frame]
    <3>1. CASE HeadInBig(m)
      BY <1>0, <3>1
         DEF TypeOK, ReceiveAckEarly, HeadInBig, AckHead, AckEvent, hci_release_ack_buffer
    <3>2. CASE ~HeadInBig(m)
      BY <1>0, <3>2, FrameType
         DEF TypeOK, ReceiveAckEarly, HeadInBig, AckHead, AckEvent, hci_release_ack_buffer
    <3>. QED BY <3>1, <3>2
  <2>4. m_big_buffer' \in [Node -> Frame]
    <3>1. CASE HeadInBig(m)
      BY <1>0, <3>1, FrameType
         DEF TypeOK, ReceiveAckEarly, HeadInBig, AckHead, AckEvent, hci_release_ack_buffer
    <3>2. CASE ~HeadInBig(m)
      BY <1>0, <3>2
         DEF TypeOK, ReceiveAckEarly, HeadInBig, AckHead, AckEvent, hci_release_ack_buffer
    <3>. QED BY <3>1, <3>2
  <2>5. bigFirst' \in SUBSET Node
    BY <1>0, FrameType, Pairs, HciAssumption DEF TypeOK, TxState, RxState, NULL,
       ReceiveAckEarly, HeadInBig, AckHead, AckEvent, hci_release_ack_buffer
  <2>6. mp_big_buffer' \in SUBSET Node
    BY <1>0, FrameType, Pairs, HciAssumption DEF TypeOK, TxState, RxState, NULL,
       ReceiveAckEarly, HeadInBig, AckHead, AckEvent, hci_release_ack_buffer
  <2>7. asserted' \in SUBSET Node
    BY <1>0, FrameType, Pairs, HciAssumption DEF TypeOK, TxState, RxState, NULL,
       ReceiveAckEarly, HeadInBig, AckHead, AckEvent, hci_release_ack_buffer
  <2>. QED BY <1>0, <2>1, <2>2, <2>3, <2>4, <2>5, <2>6, <2>7 DEF TypeOK,
     ReceiveAckEarly, HeadInBig, AckHead, AckEvent, hci_release_ack_buffer
<1>2. /\ m_hci_tx_fsm_state'[m] = "WAIT_FOR_TX_END"
      /\ \/ /\ m_big_buffer[m].type = "ack" /\ (m_small_buffer[m] = NoFrame \/ m \in bigFirst)
            /\ m_big_buffer'[m] = NoFrame /\ m_small_buffer'[m] = m_small_buffer[m]
            /\ m \notin bigFirst' /\ m_big_buffer[m].num \in {(sent[m] + 1) % 8, (sent[m] + 2) % 8}
         \/ /\ m_small_buffer[m].type = "ack" /\ m \notin bigFirst
            /\ m_small_buffer'[m] = NoFrame /\ m_big_buffer'[m] = m_big_buffer[m]
            /\ m \notin bigFirst'
            /\ m_small_buffer[m].num \in {(sent[m] + 1) % 8, (sent[m] + 2) % 8}
  BY <1>0 DEF Facts, TypeOK, SenderInv, BufInv, SeqFacts, NoFrame, ReceiveAckEarly,
     HeadInBig, AckHead, AckEvent, hci_release_ack_buffer
<1>3. \A n \in Node : n # m =>
        /\ m_big_buffer'[n] = m_big_buffer[n] /\ m_small_buffer'[n] = m_small_buffer[n]
        /\ m_hci_tx_fsm_state'[n] = m_hci_tx_fsm_state[n]
        /\ (n \in bigFirst' <=> n \in bigFirst)
  BY <1>0, Pairs DEF TypeOK, ReceiveAckEarly, HeadInBig, AckHead, AckEvent,
     hci_release_ack_buffer
<1>4. UNCHANGED <<accepted, sent, handed, m_packet_ack_number, frame, pending, line,
                m_hci_rx_fsm_state, m_p_rx_packet>>
  BY DEF ReceiveAckEarly, HeadInBig, AckHead, AckEvent, hci_release_ack_buffer
<1>5. ASSUME NEW n \in Node PROVE NodeInv(n)'
  <2>0. Facts(n) /\ Facts(m)
    BY FactsHold
  <2>1. SeqFacts(sent[n])
    BY <2>0, SeqNumbers DEF Facts
  <2>2. SenderInv(n)'
    BY SMTT(30), <1>0, <1>1, <2>0, <2>1 DEF Facts, TypeOK, NoFrame, Data, Ack, NULL,
       Sending, Acking, SeqFacts, SenderInv, SlipInv, ReceiveAckEarly, HeadInBig,
       AckHead, AckEvent, hci_release_ack_buffer
  <2>3. SlipInv(n)'
    BY SMTT(30), <1>0, <1>1, <2>0, <2>1 DEF Facts, TypeOK, NoFrame, Data, Ack, NULL,
       Sending, Acking, Frame, SlipInv, SenderInv, ReceiveAckEarly, HeadInBig, AckHead,
       AckEvent, hci_release_ack_buffer
  <2>4. BufInv(n)'
    BY SMTT(30), <1>0, <1>1, <2>0, <2>1 DEF Facts, TypeOK, NoFrame, Data, Ack, NULL,
       Sending, Acking, Frame, BufInv, SlipInv, ReceiveAckEarly, HeadInBig, AckHead,
       AckEvent, hci_release_ack_buffer
  <2>5. DataInv(n)'
    <3>1. CASE n = m
      BY SMTT(30), <3>1, <2>0, <2>1, <1>2, <1>3, <1>4 DEF Facts, SeqFacts, DataInv,
         DataTo, NoFrame, Data, Ack
    <3>2. CASE Peer[n] = m
      <4>1. m_big_buffer'[Peer[n]] \in {m_big_buffer[Peer[n]], NoFrame}
        BY <3>2, <1>2
      <4>. QED BY SMTT(30), <3>2, <4>1, <2>0, <1>3, <1>4 DEF Facts, DataInv, DataTo, NoFrame
    <3>3. CASE n # m /\ Peer[n] # m
      BY SMTT(30), <3>3, <2>0, <2>1, <1>2, <1>3, <1>4 DEF Facts, DataInv, DataTo
    <3>. QED BY <3>1, <3>2, <3>3
  <2>6. AckInv(n)'
    <3>1. CASE n = m
      BY SMTT(30), <3>1, <2>0, <2>1, <1>2, <1>3, <1>4 DEF Facts, SeqFacts, AckInv,
         AckTo, InOrder, NoFrame, Data, Ack, BufInv
    <3>2. CASE Peer[n] = m
      BY SMTT(30), <3>2, <2>0, <2>1, <1>2, <1>3, <1>4 DEF Facts, SeqFacts, AckInv,
         AckTo, InOrder, NoFrame, Data, Ack, BufInv
    <3>3. CASE n # m /\ Peer[n] # m
      BY SMTT(30), <3>3, <2>0, <2>1, <1>2, <1>3, <1>4 DEF Facts, AckInv, AckTo, InOrder
    <3>. QED BY <3>1, <3>2, <3>3
  <2>7. ReportInv(n)'
    BY <2>0, <1>1 DEF Facts, ReportInv, ReceiveAckEarly, HeadInBig, AckHead, AckEvent,
       hci_release_ack_buffer
  <2>8. BigInv(n)'
    BY SMTT(30), <1>0, <1>1, <2>0, <2>1 DEF Facts, TypeOK, NoFrame, Data, Ack, NULL,
       Sending, Acking, BigInv, Kept, BufInv, DataInv, DataTo, ReportInv,
       ReceiveAckEarly, HeadInBig, AckHead, AckEvent, hci_release_ack_buffer
  <2>. QED BY <2>2, <2>3, <2>4, <2>5, <2>6, <2>7, <2>8 DEF NodeInv
<1>. QED BY <1>1, <1>5 DEF IInv

(* An acknowledgement leaves its buffer. *)
LEMMA IgnoreAckInv ==
  ASSUME IInv, NEW m \in Node, IgnoreAck(m)
  PROVE  IInv'
<1>0. TypeOK /\ Facts(m)
  BY FactsHold DEF IInv
<1>1. TypeOK'
  <2>1. m_small_buffer' \in [Node -> Frame]
    <3>1. CASE HeadInBig(m)
      BY <1>0, <3>1 DEF TypeOK, IgnoreAck, HeadInBig, AckHead, AckEvent, hci_release_ack_buffer
    <3>2. CASE ~HeadInBig(m)
      BY <1>0, <3>2, FrameType
         DEF TypeOK, IgnoreAck, HeadInBig, AckHead, AckEvent, hci_release_ack_buffer
    <3>. QED BY <3>1, <3>2
  <2>2. m_big_buffer' \in [Node -> Frame]
    <3>1. CASE HeadInBig(m)
      BY <1>0, <3>1, FrameType
         DEF TypeOK, IgnoreAck, HeadInBig, AckHead, AckEvent, hci_release_ack_buffer
    <3>2. CASE ~HeadInBig(m)
      BY <1>0, <3>2 DEF TypeOK, IgnoreAck, HeadInBig, AckHead, AckEvent, hci_release_ack_buffer
    <3>. QED BY <3>1, <3>2
  <2>3. bigFirst' \in SUBSET Node
    BY <1>0, FrameType, Pairs, HciAssumption DEF TypeOK, TxState, RxState, NULL,
       IgnoreAck, HeadInBig, AckHead, AckEvent, hci_release_ack_buffer
  <2>4. mp_big_buffer' \in SUBSET Node
    BY <1>0, FrameType, Pairs, HciAssumption DEF TypeOK, TxState, RxState, NULL,
       IgnoreAck, HeadInBig, AckHead, AckEvent, hci_release_ack_buffer
  <2>5. asserted' \in SUBSET Node
    BY <1>0, FrameType, Pairs, HciAssumption DEF TypeOK, TxState, RxState, NULL,
       IgnoreAck, HeadInBig, AckHead, AckEvent, hci_release_ack_buffer
  <2>. QED BY <1>0, <2>1, <2>2, <2>3, <2>4, <2>5 DEF TypeOK, IgnoreAck, HeadInBig,
     AckHead, AckEvent, hci_release_ack_buffer
<1>2. /\ \/ /\ m_big_buffer[m].type = "ack" /\ (m_small_buffer[m] = NoFrame \/ m \in bigFirst)
            /\ m_big_buffer'[m] = NoFrame /\ m_small_buffer'[m] = m_small_buffer[m]
            /\ m \notin bigFirst'
         \/ /\ m_small_buffer[m].type = "ack" /\ m \notin bigFirst
            /\ m_small_buffer'[m] = NoFrame /\ m_big_buffer'[m] = m_big_buffer[m]
            /\ m \notin bigFirst'
  BY <1>0 DEF Facts, TypeOK, SenderInv, BufInv, NoFrame, IgnoreAck, HeadInBig, AckHead,
     AckEvent, hci_release_ack_buffer
<1>3. \A n \in Node : n # m =>
        /\ m_big_buffer'[n] = m_big_buffer[n] /\ m_small_buffer'[n] = m_small_buffer[n]
        /\ (n \in bigFirst' <=> n \in bigFirst)
  BY <1>0, Pairs DEF TypeOK, IgnoreAck, HeadInBig, AckHead, AckEvent,
     hci_release_ack_buffer
<1>4. UNCHANGED <<accepted, sent, handed, m_packet_ack_number, frame, pending, line,
                m_hci_rx_fsm_state, m_p_rx_packet, m_hci_tx_fsm_state>>
  BY DEF IgnoreAck, HeadInBig, AckHead, AckEvent, hci_release_ack_buffer
<1>5. ASSUME NEW n \in Node PROVE NodeInv(n)'
  <2>0. Facts(n) /\ Facts(m)
    BY FactsHold
  <2>1. SeqFacts(sent[n])
    BY <2>0, SeqNumbers DEF Facts
  <2>2. SenderInv(n)'
    BY <2>0, <1>1 DEF Facts, SenderInv, IgnoreAck, HeadInBig, AckHead, AckEvent,
       hci_release_ack_buffer
  <2>3. SlipInv(n)'
    BY <2>0, <1>1 DEF Facts, SlipInv, IgnoreAck, HeadInBig, AckHead, AckEvent,
       hci_release_ack_buffer
  <2>4. BufInv(n)'
    BY SMTT(30), <1>0, <1>1, <2>0, <2>1 DEF Facts, TypeOK, NoFrame, Data, Ack, NULL,
       Sending, Acking, Frame, BufInv, SlipInv, IgnoreAck, HeadInBig, AckHead, AckEvent,
       hci_release_ack_buffer
  <2>5. DataInv(n)'
    <3>1. CASE n = m
      BY SMTT(30), <3>1, <2>0, <2>1, <1>2, <1>3, <1>4 DEF Facts, SeqFacts, DataInv,
         DataTo, NoFrame, Data, Ack
    <3>2. CASE Peer[n] = m
      <4>1. m_big_buffer'[Peer[n]] \in {m_big_buffer[Peer[n]], NoFrame}
        BY <3>2, <1>2
      <4>. QED BY SMTT(30), <3>2, <4>1, <2>0, <1>3, <1>4 DEF Facts, DataInv, DataTo, NoFrame
    <3>3. CASE n # m /\ Peer[n] # m
      BY SMTT(30), <3>3, <2>0, <2>1, <1>2, <1>3, <1>4 DEF Facts, DataInv, DataTo
    <3>. QED BY <3>1, <3>2, <3>3
  <2>6. AckInv(n)'
    <3>1. CASE n = m
      BY SMTT(30), <3>1, <2>0, <2>1, <1>2, <1>3, <1>4 DEF Facts, SeqFacts, AckInv,
         AckTo, InOrder, NoFrame, Data, Ack
    <3>2. CASE Peer[n] = m
      BY SMTT(30), <3>2, <2>0, <2>1, <1>2, <1>3, <1>4 DEF Facts, SeqFacts, AckInv,
         AckTo, InOrder, NoFrame, Data, Ack
    <3>3. CASE n # m /\ Peer[n] # m
      BY SMTT(30), <3>3, <2>0, <2>1, <1>2, <1>3, <1>4 DEF Facts, AckInv, AckTo, InOrder
    <3>. QED BY <3>1, <3>2, <3>3
  <2>7. ReportInv(n)'
    BY <2>0, <1>1 DEF Facts, ReportInv, IgnoreAck, HeadInBig, AckHead, AckEvent,
       hci_release_ack_buffer
  <2>8. BigInv(n)'
    BY SMTT(30), <1>0, <1>1, <2>0, <2>1 DEF Facts, TypeOK, NoFrame, Data, Ack, NULL,
       Sending, Acking, BigInv, Kept, BufInv, DataInv, DataTo, ReportInv, IgnoreAck,
       HeadInBig, AckHead, AckEvent, hci_release_ack_buffer
  <2>. QED BY <2>2, <2>3, <2>4, <2>5, <2>6, <2>7, <2>8 DEF NodeInv
<1>. QED BY <1>1, <1>5 DEF IInv

(* A tick. *)
LEMMA TimerLoadsInv ==
  ASSUME IInv, NEW m \in Node, TimerLoads(m)
  PROVE  IInv'
<1>0. TypeOK /\ Facts(m)
  BY FactsHold DEF IInv
<1>1. TypeOK'
  BY <1>0, FrameType, Pairs, HciAssumption DEF TypeOK, TxState, RxState, NULL,
     TimerLoads
<1>2. ASSUME NEW n \in Node PROVE NodeInv(n)'
  <2>0. Facts(n) /\ Facts(m)
    BY FactsHold
  <2>1. SeqFacts(sent[n])
    BY <2>0, SeqNumbers DEF Facts
  <2>2. SenderInv(n)'
    BY SMTT(30), <1>0, <1>1, <2>0, <2>1 DEF Facts, TypeOK, NoFrame, Data, Ack, NULL,
       Sending, Acking, SeqFacts, SenderInv, SlipInv, TimerLoads
  <2>3. SlipInv(n)'
    BY <2>0, <1>1 DEF Facts, SlipInv, TimerLoads
  <2>4. BufInv(n)'
    BY <2>0, <1>1 DEF Facts, BufInv, TimerLoads
  <2>5. DataInv(n)'
    BY <2>0, <1>1 DEF Facts, DataInv, DataTo, TimerLoads
  <2>6. AckInv(n)'
    BY <2>0, <1>1 DEF Facts, AckInv, AckTo, InOrder, TimerLoads
  <2>7. ReportInv(n)'
    BY <2>0, <1>1 DEF Facts, ReportInv, TimerLoads
  <2>8. BigInv(n)'
    BY <2>0, <1>1 DEF Facts, BigInv, Kept, TimerLoads
  <2>. QED BY <2>2, <2>3, <2>4, <2>5, <2>6, <2>7, <2>8 DEF NodeInv
<1>. QED BY <1>1, <1>2 DEF IInv

(* The same packet with the same number. *)
LEMMA RetransmitInv ==
  ASSUME IInv, NEW m \in Node, Retransmit(m)
  PROVE  IInv'
<1>0. TypeOK /\ Facts(m)
  BY FactsHold DEF IInv
<1>1. /\ m_packet_seq_number[m] \in 0..7 /\ m_p_tx_payload[m] \in Nat
      /\ m_tx_retry_count[m] - 1 \in 0..MAX_RETRY_COUNT
  BY <1>0, HciAssumption DEF TypeOK, SenderInv, Facts, Retransmit
<1>2. Data(m_packet_seq_number[m], m_p_tx_payload[m]) \in Frame
  BY <1>1, FrameType
<1>3. TypeOK'
  <2>1. m_hci_tx_fsm_state' \in [Node -> TxState]
    BY <1>0, <1>1, <1>2, FrameType, Pairs, HciAssumption DEF TypeOK, TxState, RxState,
       NULL, Retransmit
  <2>2. timer' \in [Node -> {"off", "set", "running"}]
    BY <1>0, <1>1, <1>2, FrameType, Pairs, HciAssumption DEF TypeOK, TxState, RxState,
       NULL, Retransmit
  <2>3. m_tx_retry_count' \in [Node -> 0..MAX_RETRY_COUNT]
    BY <1>0, <1>1, <1>2, FrameType, Pairs, HciAssumption DEF TypeOK, TxState, RxState,
       NULL, Retransmit
  <2>4. frame' \in [Node -> Frame]
    BY <1>0, <1>1, <1>2, FrameType, Pairs, HciAssumption DEF TypeOK, TxState, RxState,
       NULL, Retransmit
  <2>5. pending' \in [Node -> Frame]
    BY <1>0, <1>1, <1>2, FrameType, Pairs, HciAssumption DEF TypeOK, TxState, RxState,
       NULL, Retransmit
  <2>. QED BY <1>0, <2>1, <2>2, <2>3, <2>4, <2>5 DEF TypeOK, Retransmit
<1>4. /\ m_hci_tx_fsm_state'[m] = "WAIT_FOR_ACK_OR_TX_END"
      /\ frame'[m] \in {frame[m], Data(sent[m] % 8, sent[m] + 1)}
      /\ pending'[m] \in {pending[m], Data(sent[m] % 8, sent[m] + 1)}
  BY <1>0, <1>1, <1>2 DEF Facts, TypeOK, SenderInv, SlipInv, NULL, NoFrame, Sending,
     Retransmit
<1>5. \A n \in Node : n # m =>
        /\ frame'[n] = frame[n] /\ pending'[n] = pending[n]
        /\ m_hci_tx_fsm_state'[n] = m_hci_tx_fsm_state[n]
  BY <1>0, Pairs DEF TypeOK, Retransmit
<1>6. UNCHANGED <<accepted, sent, handed, m_packet_ack_number, line, m_big_buffer,
                m_hci_rx_fsm_state, m_p_rx_packet, m_small_buffer, bigFirst>>
  BY DEF Retransmit
<1>7. ASSUME NEW n \in Node PROVE NodeInv(n)'
  <2>0. Facts(n) /\ Facts(m)
    BY FactsHold
  <2>1. SeqFacts(sent[n])
    BY <2>0, SeqNumbers DEF Facts
  <2>2. SenderInv(n)'
    BY SMTT(30), <1>0, <1>3, <1>1, <1>2, <2>0, <2>1 DEF Facts, TypeOK, NoFrame, Data,
       Ack, NULL, Sending, Acking, SeqFacts, SenderInv, SlipInv, Retransmit
  <2>3. SlipInv(n)'
    BY SMTT(30), <1>0, <1>3, <1>1, <1>2, <2>0, <2>1 DEF Facts, TypeOK, NoFrame, Data,
       Ack, NULL, Sending, Acking, Frame, SlipInv, SenderInv, Retransmit
  <2>4. BufInv(n)'
    BY <2>0, <1>3 DEF Facts, BufInv, Retransmit
  <2>5. DataInv(n)'
    <3>1. CASE n = m
      BY SMTT(30), <3>1, <2>0, <2>1, <1>4, <1>5, <1>6 DEF Facts, SeqFacts, DataInv,
         DataTo, NoFrame, Data, Ack
    <3>2. CASE Peer[n] = m
      BY SMTT(30), <3>2, <2>0, <2>1, <1>4, <1>5, <1>6 DEF Facts, SeqFacts, DataInv,
         DataTo, NoFrame, Data, Ack
    <3>3. CASE n # m /\ Peer[n] # m
      BY SMTT(30), <3>3, <2>0, <2>1, <1>4, <1>5, <1>6 DEF Facts, DataInv, DataTo
    <3>. QED BY <3>1, <3>2, <3>3
  <2>6. AckInv(n)'
    <3>1. CASE n = m
      BY SMTT(30), <3>1, <2>0, <2>1, <1>4, <1>5, <1>6 DEF Facts, SeqFacts, AckInv,
         AckTo, InOrder, NoFrame, Data, Ack
    <3>2. CASE Peer[n] = m
      BY SMTT(30), <3>2, <2>0, <2>1, <1>4, <1>5, <1>6 DEF Facts, SeqFacts, AckInv,
         AckTo, InOrder, NoFrame, Data, Ack
    <3>3. CASE n # m /\ Peer[n] # m
      BY SMTT(30), <3>3, <2>0, <2>1, <1>4, <1>5, <1>6 DEF Facts, AckInv, AckTo, InOrder
    <3>. QED BY <3>1, <3>2, <3>3
  <2>7. ReportInv(n)'
    BY <2>0, <1>3 DEF Facts, ReportInv, Retransmit
  <2>8. BigInv(n)'
    BY <2>0, <1>3 DEF Facts, BigInv, Kept, Retransmit
  <2>. QED BY <2>2, <2>3, <2>4, <2>5, <2>6, <2>7, <2>8 DEF NodeInv
<1>. QED BY <1>3, <1>7 DEF IInv

(* An error is reported; the packet stays under way. *)
LEMMA GiveUpInv ==
  ASSUME IInv, NEW m \in Node, GiveUp(m)
  PROVE  IInv'
<1>0. TypeOK /\ Facts(m)
  BY FactsHold DEF IInv
<1>1. m_tx_retry_count[m] - 1 \in 0..MAX_RETRY_COUNT
  BY <1>0, HciAssumption DEF TypeOK, SenderInv, Facts, GiveUp
<1>2. TypeOK'
  <2>1. m_hci_tx_fsm_state' \in [Node -> TxState]
    BY <1>0, <1>1, FrameType, Pairs, HciAssumption DEF TypeOK, TxState, RxState, NULL,
       GiveUp
  <2>2. timer' \in [Node -> {"off", "set", "running"}]
    BY <1>0, <1>1, FrameType, Pairs, HciAssumption DEF TypeOK, TxState, RxState, NULL,
       GiveUp
  <2>3. m_tx_retry_count' \in [Node -> 0..MAX_RETRY_COUNT]
    BY <1>0, <1>1, FrameType, Pairs, HciAssumption DEF TypeOK, TxState, RxState, NULL,
       GiveUp
  <2>4. failed' \in SUBSET Node
    BY <1>0, <1>1, FrameType, Pairs, HciAssumption DEF TypeOK, TxState, RxState, NULL,
       GiveUp
  <2>. QED BY <1>0, <2>1, <2>2, <2>3, <2>4 DEF TypeOK, GiveUp
<1>3. /\ m_hci_tx_fsm_state'[m] = "SEND"
  BY <1>0, <1>1 DEF TypeOK, GiveUp
<1>4. \A n \in Node : n # m => m_hci_tx_fsm_state'[n] = m_hci_tx_fsm_state[n]
  BY <1>0, Pairs DEF TypeOK, GiveUp
<1>5. UNCHANGED <<accepted, sent, handed, m_packet_ack_number, frame, pending, line,
                m_big_buffer, m_hci_rx_fsm_state, m_p_rx_packet, m_small_buffer, bigFirst>>
  BY DEF GiveUp
<1>6. ASSUME NEW n \in Node PROVE NodeInv(n)'
  <2>0. Facts(n) /\ Facts(m)
    BY FactsHold
  <2>1. SeqFacts(sent[n])
    BY <2>0, SeqNumbers DEF Facts
  <2>2. SenderInv(n)'
    BY SMTT(30), <1>0, <1>2, <1>1, <2>0, <2>1 DEF Facts, TypeOK, NoFrame, Data, Ack,
       NULL, Sending, Acking, SeqFacts, SenderInv, SlipInv, GiveUp
  <2>3. SlipInv(n)'
    BY SMTT(30), <1>0, <1>2, <1>1, <2>0, <2>1 DEF Facts, TypeOK, NoFrame, Data, Ack,
       NULL, Sending, Acking, Frame, SlipInv, SenderInv, GiveUp
  <2>4. BufInv(n)'
    BY <2>0, <1>2 DEF Facts, BufInv, GiveUp
  <2>5. DataInv(n)'
    BY <2>0, <1>2 DEF Facts, DataInv, DataTo, GiveUp
  <2>6. AckInv(n)'
    <3>1. CASE n = m
      BY SMTT(30), <3>1, <2>0, <2>1, <1>3, <1>4, <1>5 DEF Facts, SeqFacts, AckInv,
         AckTo, InOrder, NoFrame, Data, Ack
    <3>2. CASE Peer[n] = m
      BY SMTT(30), <3>2, <2>0, <2>1, <1>3, <1>4, <1>5 DEF Facts, SeqFacts, AckInv,
         AckTo, InOrder, NoFrame, Data, Ack
    <3>3. CASE n # m /\ Peer[n] # m
      BY SMTT(30), <3>3, <2>0, <2>1, <1>3, <1>4, <1>5 DEF Facts, AckInv, AckTo, InOrder
    <3>. QED BY <3>1, <3>2, <3>3
  <2>7. ReportInv(n)'
    BY <2>0, <1>2 DEF Facts, ReportInv, GiveUp
  <2>8. BigInv(n)'
    BY <2>0, <1>2 DEF Facts, BigInv, Kept, GiveUp
  <2>. QED BY <2>2, <2>3, <2>4, <2>5, <2>6, <2>7, <2>8 DEF NodeInv
<1>. QED BY <1>2, <1>6 DEF IInv

(* A data frame leaves its buffer. *)
LEMMA IgnoreDataInv ==
  ASSUME IInv, NEW m \in Node, IgnoreData(m)
  PROVE  IInv'
<1>0. TypeOK /\ Facts(m)
  BY FactsHold DEF IInv
<1>1. TypeOK'
  <2>1. m_big_buffer' \in [Node -> Frame]
    BY <1>0, FrameType, Pairs, HciAssumption DEF TypeOK, TxState, RxState, NULL,
       IgnoreData
  <2>2. mp_big_buffer' \in SUBSET Node
    BY <1>0, FrameType, Pairs, HciAssumption DEF TypeOK, TxState, RxState, NULL,
       IgnoreData
  <2>3. refused' \in SUBSET Node
    BY <1>0, FrameType, Pairs, HciAssumption DEF TypeOK, TxState, RxState, NULL,
       IgnoreData
  <2>. QED BY <1>0, <2>1, <2>2, <2>3 DEF TypeOK, IgnoreData
<1>2. /\ m_big_buffer[m].type = "data" /\ m_big_buffer'[m] = NoFrame
  BY <1>0 DEF TypeOK, IgnoreData
<1>3. \A n \in Node : n # m => m_big_buffer'[n] = m_big_buffer[n]
  BY <1>0, Pairs DEF TypeOK, IgnoreData
<1>4. UNCHANGED <<accepted, sent, handed, m_packet_ack_number, frame, pending, line,
                m_hci_rx_fsm_state, m_p_rx_packet, m_small_buffer, m_hci_tx_fsm_state, bigFirst>>
  BY DEF IgnoreData
<1>5. ASSUME NEW n \in Node PROVE NodeInv(n)'
  <2>0. Facts(n) /\ Facts(m)
    BY FactsHold
  <2>1. SeqFacts(sent[n])
    BY <2>0, SeqNumbers DEF Facts
  <2>2. SenderInv(n)'
    BY <2>0, <1>1 DEF Facts, SenderInv, IgnoreData
  <2>3. SlipInv(n)'
    BY <2>0, <1>1 DEF Facts, SlipInv, IgnoreData
  <2>4. BufInv(n)'
    BY SMTT(30), <1>0, <1>1, <2>0, <2>1 DEF Facts, TypeOK, NoFrame, Data, Ack, NULL,
       Sending, Acking, Frame, BufInv, SlipInv, IgnoreData
  <2>5. DataInv(n)'
    <3>1. CASE n = m
      BY SMTT(30), <3>1, <2>0, <1>3, <1>4 DEF Facts, DataInv, DataTo
    <3>2. CASE Peer[n] = m
      BY SMTT(30), <3>2, <2>0, <2>1, <1>2, <1>3, <1>4 DEF Facts, SeqFacts, DataInv,
         DataTo, NoFrame, Data, Ack
    <3>3. CASE n # m /\ Peer[n] # m
      BY SMTT(30), <3>3, <2>0, <2>1, <1>2, <1>3, <1>4 DEF Facts, DataInv, DataTo
    <3>. QED BY <3>1, <3>2, <3>3
  <2>6. AckInv(n)'
    <3>1. CASE n = m
      BY SMTT(30), <3>1, <2>0, <2>1, <1>2, <1>3, <1>4 DEF Facts, SeqFacts, AckInv,
         AckTo, InOrder, NoFrame, Data, Ack, BufInv
    <3>2. CASE Peer[n] = m
      BY SMTT(30), <3>2, <2>0, <2>1, <1>2, <1>3, <1>4 DEF Facts, SeqFacts, AckInv,
         AckTo, InOrder, NoFrame, Data, Ack, BufInv
    <3>3. CASE n # m /\ Peer[n] # m
      BY SMTT(30), <3>3, <2>0, <2>1, <1>2, <1>3, <1>4 DEF Facts, AckInv, AckTo, InOrder
    <3>. QED BY <3>1, <3>2, <3>3
  <2>7. ReportInv(n)'
    BY <2>0, <1>1 DEF Facts, ReportInv, IgnoreData
  <2>8. BigInv(n)'
    BY SMTT(30), <1>0, <1>1, <2>0, <2>1 DEF Facts, TypeOK, NoFrame, Data, Ack, NULL,
       Sending, Acking, BigInv, Kept, BufInv, DataInv, DataTo, ReportInv, IgnoreData
  <2>. QED BY <2>2, <2>3, <2>4, <2>5, <2>6, <2>7, <2>8 DEF NodeInv
<1>. QED BY <1>1, <1>5 DEF IInv

(* Only the packet that is waited for has the expected number. *)
LEMMA ReceiveDataInv ==
  ASSUME IInv, NEW m \in Node, ReceiveData(m)
  PROVE  IInv'
<1>0. TypeOK /\ Facts(m)
  BY FactsHold DEF IInv
<1>1. TypeOK'
  <2>1. m_hci_rx_fsm_state' \in [Node -> RxState]
    BY <1>0, FrameType, Pairs, HciAssumption DEF TypeOK, TxState, RxState, NULL,
       ReceiveData
  <2>2. m_big_buffer' \in [Node -> Frame]
    BY <1>0, FrameType, Pairs, HciAssumption DEF TypeOK, TxState, RxState, NULL,
       ReceiveData
  <2>3. m_p_rx_packet' \in [Node -> Nat]
    BY <1>0, FrameType, Pairs, HciAssumption DEF TypeOK, TxState, RxState, NULL,
       ReceiveData
  <2>. QED BY <1>0, <2>1, <2>2, <2>3 DEF TypeOK, ReceiveData
<1>2. /\ m_big_buffer[m].type = "data" /\ m_big_buffer'[m] = NoFrame
      /\ m_big_buffer[m].num = m_packet_ack_number[m]
      /\ m_p_rx_packet'[m] = m_big_buffer[m].pkt
      /\ m_hci_rx_fsm_state'[m] = "WAIT_FOR_MEM"
  BY <1>0 DEF TypeOK, ReceiveData
<1>3. \A n \in Node : n # m =>
        /\ m_big_buffer'[n] = m_big_buffer[n] /\ m_hci_rx_fsm_state'[n] = m_hci_rx_fsm_state[n]
        /\ m_p_rx_packet'[n] = m_p_rx_packet[n]
  BY <1>0, Pairs DEF TypeOK, ReceiveData
<1>4. UNCHANGED <<accepted, sent, handed, m_packet_ack_number, frame, pending, line,
                m_small_buffer, m_hci_tx_fsm_state, bigFirst>>
  BY DEF ReceiveData
<1>5. ASSUME NEW n \in Node PROVE NodeInv(n)'
  <2>0. Facts(n) /\ Facts(m)
    BY FactsHold
  <2>1. SeqFacts(sent[n])
    BY <2>0, SeqNumbers DEF Facts
  <2>2. SenderInv(n)'
    BY <2>0, <1>1 DEF Facts, SenderInv, ReceiveData
  <2>3. SlipInv(n)'
    BY SMTT(30), <1>0, <1>1, <2>0, <2>1 DEF Facts, TypeOK, NoFrame, Data, Ack, NULL,
       Sending, Acking, Frame, SlipInv, SenderInv, ReceiveData
  <2>4. BufInv(n)'
    BY SMTT(30), <1>0, <1>1, <2>0, <2>1 DEF Facts, TypeOK, NoFrame, Data, Ack, NULL,
       Sending, Acking, Frame, BufInv, SlipInv, ReceiveData
  <2>5. DataInv(n)'
    <3>1. CASE n = m
      BY SMTT(30), <3>1, <2>0, <1>3, <1>4 DEF Facts, DataInv, DataTo
    <3>2. CASE Peer[n] = m
      BY SMTT(30), <3>2, <2>0, <2>1, <1>2, <1>3, <1>4 DEF Facts, SeqFacts, DataInv,
         DataTo, NoFrame, Data, Ack
    <3>3. CASE n # m /\ Peer[n] # m
      BY SMTT(30), <3>3, <2>0, <2>1, <1>2, <1>3, <1>4 DEF Facts, DataInv, DataTo
    <3>. QED BY <3>1, <3>2, <3>3
  <2>6. AckInv(n)'
    <3>1. CASE n = m
      BY SMTT(30), <3>1, <2>0, <2>1, <1>2, <1>3, <1>4 DEF Facts, SeqFacts, AckInv,
         AckTo, InOrder, NoFrame, Data, Ack, BufInv
    <3>2. CASE Peer[n] = m
      BY SMTT(30), <3>2, <2>0, <2>1, <1>2, <1>3, <1>4 DEF Facts, SeqFacts, AckInv,
         AckTo, InOrder, NoFrame, Data, Ack, BufInv
    <3>3. CASE n # m /\ Peer[n] # m
      BY SMTT(30), <3>3, <2>0, <2>1, <1>2, <1>3, <1>4 DEF Facts, AckInv, AckTo, InOrder
    <3>. QED BY <3>1, <3>2, <3>3
  <2>7. ReportInv(n)'
    <3>1. CASE n = m
      <4>1. sent[Peer[n]] \in Nat /\ m_big_buffer[n].type = "data" => m_big_buffer[n].pkt # NULL
        BY <2>0 DEF Facts, DataInv, DataTo, NULL
      <4>. QED BY <3>1, <4>1, <1>0, <2>0 DEF Facts, TypeOK, ReportInv, ReceiveData
    <3>2. CASE n # m
      BY SMTT(30), <3>2, <1>0, <2>0 DEF Facts, TypeOK, ReportInv, ReceiveData
    <3>. QED BY <3>1, <3>2
  <2>8. BigInv(n)'
    <3>1. CASE n = m
      BY SMTT(30), <3>1, <1>0, <2>0 DEF Facts, TypeOK, BigInv, Kept, BufInv, NoFrame,
         ReceiveData
    <3>2. CASE n # m
      BY SMTT(30), <3>2, <1>0, <2>0 DEF Facts, TypeOK, BigInv, Kept, ReceiveData
    <3>. QED BY <3>1, <3>2
  <2>. QED BY <2>2, <2>3, <2>4, <2>5, <2>6, <2>7, <2>8 DEF NodeInv
<1>. QED BY <1>1, <1>5 DEF IInv

(* A repetition costs no buffer: one was received before it. *)
LEMMA ReceiveDuplicateInv ==
  ASSUME IInv, NEW m \in Node, ReceiveDuplicate(m)
  PROVE  IInv'
<1>0. TypeOK /\ Facts(m)
  BY FactsHold DEF IInv
<1>1. Ack(m_packet_ack_number[m]) \in Frame
  BY <1>0, FrameType DEF TypeOK
<1>2. TypeOK'
  <2>1. m_hci_rx_fsm_state' \in [Node -> RxState]
    BY <1>0, <1>1, FrameType, Pairs, HciAssumption DEF TypeOK, TxState, RxState, NULL,
       ReceiveDuplicate
  <2>2. m_big_buffer' \in [Node -> Frame]
    BY <1>0, <1>1, FrameType, Pairs, HciAssumption DEF TypeOK, TxState, RxState, NULL,
       ReceiveDuplicate
  <2>3. mp_big_buffer' \in SUBSET Node
    BY <1>0, <1>1, FrameType, Pairs, HciAssumption DEF TypeOK, TxState, RxState, NULL,
       ReceiveDuplicate
  <2>4. refused' \in SUBSET Node
    BY <1>0, <1>1, FrameType, Pairs, HciAssumption DEF TypeOK, TxState, RxState, NULL,
       ReceiveDuplicate
  <2>5. frame' \in [Node -> Frame]
    BY <1>0, <1>1, FrameType, Pairs, HciAssumption DEF TypeOK, TxState, RxState, NULL,
       ReceiveDuplicate
  <2>6. pending' \in [Node -> Frame]
    BY <1>0, <1>1, FrameType, Pairs, HciAssumption DEF TypeOK, TxState, RxState, NULL,
       ReceiveDuplicate
  <2>. QED BY <1>0, <2>1, <2>2, <2>3, <2>4, <2>5, <2>6 DEF TypeOK, ReceiveDuplicate
<1>3. /\ m_big_buffer[m].type = "data" /\ m_big_buffer'[m] = NoFrame
      /\ m_hci_rx_fsm_state'[m] = "WAIT_FOR_SLIP_NACK_END"
      /\ frame'[m] \in {frame[m], Ack(m_packet_ack_number[m])}
      /\ pending'[m] \in {pending[m], Ack(m_packet_ack_number[m])}
  BY <1>0, <1>1 DEF TypeOK, ReceiveDuplicate
<1>4. \A n \in Node : n # m =>
        /\ frame'[n] = frame[n] /\ pending'[n] = pending[n]
        /\ m_big_buffer'[n] = m_big_buffer[n] /\ m_hci_rx_fsm_state'[n] = m_hci_rx_fsm_state[n]
  BY <1>0, Pairs DEF TypeOK, ReceiveDuplicate
<1>5. UNCHANGED <<accepted, sent, handed, m_packet_ack_number, line, m_p_rx_packet,
                m_small_buffer, m_hci_tx_fsm_state, bigFirst>>
  BY DEF ReceiveDuplicate
<1>6. ASSUME NEW n \in Node PROVE NodeInv(n)'
  <2>0. Facts(n) /\ Facts(m)
    BY FactsHold
  <2>1. SeqFacts(sent[n])
    BY <2>0, SeqNumbers DEF Facts
  <2>2. SenderInv(n)'
    BY <2>0, <1>2 DEF Facts, SenderInv, ReceiveDuplicate
  <2>3. SlipInv(n)'
    BY SMTT(30), <1>0, <1>2, <1>1, <2>0, <2>1 DEF Facts, TypeOK, NoFrame, Data, Ack,
       NULL, Sending, Acking, Frame, SlipInv, SenderInv, ReceiveDuplicate
  <2>4. BufInv(n)'
    BY SMTT(30), <1>0, <1>2, <1>1, <2>0, <2>1 DEF Facts, TypeOK, NoFrame, Data, Ack,
       NULL, Sending, Acking, Frame, BufInv, SlipInv, ReceiveDuplicate
  <2>5. DataInv(n)'
    <3>1. CASE n = m
      BY SMTT(30), <3>1, <2>0, <2>1, <1>3, <1>4, <1>5 DEF Facts, SeqFacts, DataInv,
         DataTo, NoFrame, Data, Ack
    <3>2. CASE Peer[n] = m
      BY SMTT(30), <3>2, <2>0, <2>1, <1>3, <1>4, <1>5 DEF Facts, SeqFacts, DataInv,
         DataTo, NoFrame, Data, Ack
    <3>3. CASE n # m /\ Peer[n] # m
      BY SMTT(30), <3>3, <2>0, <2>1, <1>3, <1>4, <1>5 DEF Facts, DataInv, DataTo
    <3>. QED BY <3>1, <3>2, <3>3
  <2>6. AckInv(n)'
    <3>1. CASE n = m
      BY SMTT(30), <3>1, <2>0, <2>1, <1>3, <1>4, <1>5 DEF Facts, SeqFacts, AckInv,
         AckTo, InOrder, NoFrame, Data, Ack, BufInv, DataInv
    <3>2. CASE Peer[n] = m
      BY SMTT(30), <3>2, <2>0, <2>1, <1>3, <1>4, <1>5 DEF Facts, SeqFacts, AckInv,
         AckTo, InOrder, NoFrame, Data, Ack, BufInv, DataInv
    <3>3. CASE n # m /\ Peer[n] # m
      BY SMTT(30), <3>3, <2>0, <2>1, <1>3, <1>4, <1>5 DEF Facts, AckInv, AckTo, InOrder
    <3>. QED BY <3>1, <3>2, <3>3
  <2>7. ReportInv(n)'
    <3>1. CASE n = m
      BY SMTT(30), <3>1, <1>0, <2>0 DEF Facts, TypeOK, ReportInv, ReceiveDuplicate
    <3>2. CASE n # m
      BY SMTT(30), <3>2, <1>0, <2>0 DEF Facts, TypeOK, ReportInv, ReceiveDuplicate
    <3>. QED BY <3>1, <3>2
  <2>8. BigInv(n)'
    <3>1. CASE n = m
      <4>1. m_big_buffer[n].type = "data" /\ m_big_buffer[n].num # m_packet_ack_number[n]
        BY <3>1 DEF ReceiveDuplicate
      <4>2. accepted[n] # 0
        BY <4>1, <2>0, <1>0 DEF Facts, TypeOK, DataInv, DataTo
      <4>3. m_p_rx_packet[n] # NULL
        BY <4>2, <2>0 DEF Facts, ReportInv
      <4>. QED BY SMTT(30), <3>1, <4>3, <1>0, <2>0
         DEF Facts, TypeOK, BigInv, Kept, BufInv, NoFrame,
               ReceiveDuplicate
    <3>2. CASE n # m
      BY SMTT(30), <3>2, <1>0, <2>0 DEF Facts, TypeOK, BigInv, Kept, ReceiveDuplicate
    <3>. QED BY <3>1, <3>2
  <2>. QED BY <2>2, <2>3, <2>4, <2>5, <2>6, <2>7, <2>8 DEF NodeInv
<1>. QED BY <1>2, <1>6 DEF IInv

(* The receiver's number goes one beyond the packet. *)
LEMMA BufGrantedInv ==
  ASSUME IInv, NEW m \in Node, BufGranted(m)
  PROVE  IInv'
<1>0. TypeOK /\ Facts(m)
  BY FactsHold DEF IInv
<1>1. /\ m_packet_ack_number'[m] = (m_packet_ack_number[m] + 1) % 8
      /\ m_packet_ack_number[m] \in Nat
  BY <1>0 DEF TypeOK, BufGranted
<1>2. m_packet_ack_number'[m] \in 0..7
  BY <1>1
<1>3. Ack(m_packet_ack_number'[m]) \in Frame
  BY <1>2, FrameType, 0 \in Nat
<1>4. TypeOK'
  <2>1. m_hci_rx_fsm_state' \in [Node -> RxState]
    BY <1>0, <1>1, <1>2, <1>3, FrameType, Pairs, HciAssumption DEF TypeOK, TxState,
       RxState, NULL, BufGranted
  <2>2. m_p_rx_buffer' \in [Node -> Nat]
    <3>1. m_p_rx_buffer' = [m_p_rx_buffer EXCEPT ![m] = NULL]
             \/ m_p_rx_buffer' = [m_p_rx_buffer EXCEPT ![m] = m_p_rx_packet[m]]
      BY DEF BufGranted
    <3>. QED BY <3>1, <1>0 DEF TypeOK, NULL
  <2>3. mp_big_buffer' \in SUBSET Node
    BY <1>0, <1>1, <1>2, <1>3, FrameType, Pairs, HciAssumption DEF TypeOK, TxState,
       RxState, NULL, BufGranted
  <2>4. refused' \in SUBSET Node
    BY <1>0, <1>1, <1>2, <1>3, FrameType, Pairs, HciAssumption DEF TypeOK, TxState,
       RxState, NULL, BufGranted
  <2>5. m_packet_ack_number' \in [Node -> 0..7]
    BY <1>0, <1>1, <1>2, <1>3, FrameType, Pairs, HciAssumption DEF TypeOK, TxState,
       RxState, NULL, BufGranted
  <2>6. frame' \in [Node -> Frame]
    BY <1>0, <1>1, <1>2, <1>3, FrameType, Pairs, HciAssumption DEF TypeOK, TxState,
       RxState, NULL, BufGranted
  <2>7. pending' \in [Node -> Frame]
    BY <1>0, <1>1, <1>2, <1>3, FrameType, Pairs, HciAssumption DEF TypeOK, TxState,
       RxState, NULL, BufGranted
  <2>8. accepted' \in [Node -> Nat]
    BY <1>0, <1>1, <1>2, <1>3, FrameType, Pairs, HciAssumption DEF TypeOK, TxState,
       RxState, NULL, BufGranted
  <2>. QED BY <1>0, <2>1, <2>2, <2>3, <2>4, <2>5, <2>6, <2>7, <2>8 DEF TypeOK,
     BufGranted
<1>5. /\ m_hci_rx_fsm_state[m] = "WAIT_FOR_MEM"
      /\ m_hci_rx_fsm_state'[m] = "WAIT_FOR_SLIP_ACK_END"
      /\ accepted'[m] = accepted[m] + 1
      /\ m_packet_ack_number'[m] = (m_packet_ack_number[m] + 1) % 8
      /\ frame'[m] \in {frame[m], Ack(m_packet_ack_number'[m])}
      /\ pending'[m] \in {pending[m], Ack(m_packet_ack_number'[m])}
  BY <1>0, <1>1, <1>2, <1>3 DEF TypeOK, BufGranted
<1>6. \A n \in Node : n # m =>
        /\ accepted'[n] = accepted[n] /\ m_packet_ack_number'[n] = m_packet_ack_number[n]
        /\ frame'[n] = frame[n] /\ pending'[n] = pending[n]
        /\ m_hci_rx_fsm_state'[n] = m_hci_rx_fsm_state[n]
  BY <1>0, Pairs DEF TypeOK, BufGranted
<1>7. UNCHANGED <<sent, handed, line, m_big_buffer, m_p_rx_packet, m_small_buffer,
                m_hci_tx_fsm_state, bigFirst>>
  BY DEF BufGranted
<1>8. ASSUME NEW n \in Node PROVE NodeInv(n)'
  <2>0. Facts(n) /\ Facts(m)
    BY FactsHold
  <2>1. SeqFacts(sent[n])
    BY <2>0, SeqNumbers DEF Facts
  <2>2. SenderInv(n)'
    BY <2>0, <1>4 DEF Facts, SenderInv, BufGranted
  <2>3. SlipInv(n)'
    BY SMTT(30), <1>0, <1>4, <1>1, <1>2, <1>3, <2>0, <2>1 DEF Facts, TypeOK, NoFrame,
       Data, Ack, NULL, Sending, Acking, Frame, SlipInv, SenderInv, BufGranted
  <2>4. BufInv(n)'
    BY SMTT(30), <1>0, <1>4, <1>1, <1>2, <1>3, <2>0, <2>1 DEF Facts, TypeOK, NoFrame,
       Data, Ack, NULL, Sending, Acking, Frame, BufInv, SlipInv, BufGranted
  <2>5. DataInv(n)'
    <3>1. CASE n = m
      BY SMTT(30), <3>1, <2>0, <2>1, <1>5, <1>6, <1>7 DEF Facts, SeqFacts, DataInv,
         DataTo, NoFrame, Data, Ack, SlipInv
    <3>2. CASE Peer[n] = m
      BY SMTT(30), <3>2, <2>0, <2>1, <1>5, <1>6, <1>7 DEF Facts, SeqFacts, DataInv,
         DataTo, NoFrame, Data, Ack, SlipInv
    <3>3. CASE n # m /\ Peer[n] # m
      BY SMTT(30), <3>3, <2>0, <2>1, <1>5, <1>6, <1>7 DEF Facts, DataInv, DataTo
    <3>. QED BY <3>1, <3>2, <3>3
  <2>6. AckInv(n)'
    <3>1. CASE n = m
      BY SMTT(30), <3>1, <2>0, <2>1, <1>5, <1>6, <1>7 DEF Facts, SeqFacts, AckInv,
         AckTo, InOrder, NoFrame, Data, Ack, DataInv, SlipInv, Acking
    <3>2. CASE Peer[n] = m
      BY SMTT(30), <3>2, <2>0, <2>1, <1>5, <1>6, <1>7 DEF Facts, SeqFacts, AckInv,
         AckTo, InOrder, NoFrame, Data, Ack, DataInv, SlipInv, Acking
    <3>3. CASE n # m /\ Peer[n] # m
      BY SMTT(30), <3>3, <2>0, <2>1, <1>5, <1>6, <1>7 DEF Facts, AckInv, AckTo, InOrder
    <3>. QED BY <3>1, <3>2, <3>3
  <2>7. ReportInv(n)'
    <3>1. CASE n = m
      <4>1. m_p_rx_packet[n] = accepted[n] + 1 /\ accepted[n] = reported[n]
        BY <3>1, <2>0 DEF Facts, DataInv, ReportInv, BufGranted
      <4>2. /\ accepted'[n] = accepted[n] + 1 /\ reported'[n] = reported[n]
            /\ m_p_rx_packet'[n] = m_p_rx_packet[n]
            /\ m_hci_rx_fsm_state'[n] = "WAIT_FOR_SLIP_ACK_END"
            /\ m_p_rx_buffer'[n] = IF m_p_rx_packet[n] \in TooLarge THEN NULL ELSE m_p_rx_packet[n]
        BY <3>1, <1>0 DEF TypeOK, BufGranted
      <4>3. accepted[n] \in Nat
        BY <1>0 DEF TypeOK
      <4>. QED BY <4>1, <4>2, <4>3 DEF ReportInv, NULL
    <3>2. CASE n # m
      BY SMTT(30), <3>2, <1>0, <2>0 DEF Facts, TypeOK, ReportInv, BufGranted
    <3>. QED BY <3>1, <3>2
  <2>8. BigInv(n)'
    <3>1. CASE n = m
      <4>1. /\ m_p_rx_packet[n] = accepted[n] + 1 /\ accepted[n] \in Nat /\ TooLarge \subseteq Nat
            /\ accepted'[n] = accepted[n] + 1
        BY <3>1, <1>0, <2>0 DEF Facts, TypeOK, DataInv, BufGranted
      <4>2. Kept(n)' => m_p_rx_packet[n] \notin TooLarge /\ n \notin mp_big_buffer
        BY <3>1, <4>1 DEF Kept, BufGranted
      <4>3. m_big_buffer[n] = NoFrame
        BY <3>1, <2>0 DEF Facts, BufInv, BufGranted
      <4>. QED BY SMTT(30), <3>1, <4>2, <4>3, <1>0, <2>0
         DEF Facts, TypeOK, BigInv, BufInv, BufGranted
    <3>2. CASE n # m
      BY SMTT(30), <3>2, <1>0, <2>0 DEF Facts, TypeOK, BigInv, Kept, BufGranted
    <3>. QED BY <3>1, <3>2
  <2>. QED BY <2>2, <2>3, <2>4, <2>5, <2>6, <2>7, <2>8 DEF NodeInv
<1>. QED BY <1>4, <1>8 DEF IInv

(* The report. *)
LEMMA AckSentInv ==
  ASSUME IInv, NEW m \in Node, AckSent(m)
  PROVE  IInv'
<1>0. TypeOK /\ Facts(m)
  BY FactsHold DEF IInv
<1>1. /\ pending[m] \in Frame
      /\ (IF m_p_rx_buffer[m] = NULL THEN received[m] ELSE m_p_rx_buffer[m]) \in Nat
  BY <1>0 DEF TypeOK
<1>2. TypeOK'
  <2>1. frame' \in [Node -> Frame]
    BY <1>0, <1>1, FrameType, Pairs, HciAssumption DEF TypeOK, TxState, RxState, NULL,
       AckSent
  <2>2. pending' \in [Node -> Frame]
    BY <1>0, <1>1, FrameType, Pairs, HciAssumption DEF TypeOK, TxState, RxState, NULL,
       AckSent
  <2>3. frameEnd' \in SUBSET Node
    BY <1>0, <1>1, FrameType, Pairs, HciAssumption DEF TypeOK, TxState, RxState, NULL,
       AckSent
  <2>4. m_hci_rx_fsm_state' \in [Node -> RxState]
    BY <1>0, <1>1, FrameType, Pairs, HciAssumption DEF TypeOK, TxState, RxState, NULL,
       AckSent
  <2>5. reported' \in [Node -> Nat]
    BY <1>0, <1>1, FrameType, Pairs, HciAssumption DEF TypeOK, TxState, RxState, NULL,
       AckSent
  <2>6. received' \in [Node -> Nat]
    BY <1>0, <1>1, FrameType, Pairs, HciAssumption DEF TypeOK, TxState, RxState, NULL,
       AckSent
  <2>. QED BY <1>0, <2>1, <2>2, <2>3, <2>4, <2>5, <2>6 DEF TypeOK, AckSent
<1>3. /\ frame'[m] = pending[m] /\ pending'[m] = NoFrame
      /\ m_hci_rx_fsm_state'[m] = "RECEIVE"
  BY <1>0, <1>1 DEF TypeOK, AckSent
<1>4. \A n \in Node : n # m =>
        /\ frame'[n] = frame[n] /\ pending'[n] = pending[n]
        /\ m_hci_rx_fsm_state'[n] = m_hci_rx_fsm_state[n]
  BY <1>0, Pairs DEF TypeOK, AckSent
<1>5. UNCHANGED <<accepted, sent, handed, m_packet_ack_number, line, m_big_buffer,
                m_p_rx_packet, m_small_buffer, m_hci_tx_fsm_state, bigFirst>>
  BY DEF AckSent
<1>6. ASSUME NEW n \in Node PROVE NodeInv(n)'
  <2>0. Facts(n) /\ Facts(m)
    BY FactsHold
  <2>1. SeqFacts(sent[n])
    BY <2>0, SeqNumbers DEF Facts
  <2>2. SenderInv(n)'
    BY <2>0, <1>2 DEF Facts, SenderInv, AckSent
  <2>3. SlipInv(n)'
    BY SMTT(30), <1>0, <1>2, <1>1, <2>0, <2>1 DEF Facts, TypeOK, NoFrame, Data, Ack,
       NULL, Sending, Acking, Frame, SlipInv, SenderInv, AckSent
  <2>4. BufInv(n)'
    BY SMTT(30), <1>0, <1>2, <1>1, <2>0, <2>1 DEF Facts, TypeOK, NoFrame, Data, Ack,
       NULL, Sending, Acking, Frame, BufInv, SlipInv, AckSent
  <2>5. DataInv(n)'
    <3>1. CASE n = m
      BY SMTT(30), <3>1, <2>0, <2>1, <1>3, <1>4, <1>5 DEF Facts, SeqFacts, DataInv,
         DataTo, NoFrame, Data, Ack
    <3>2. CASE Peer[n] = m
      BY SMTT(30), <3>2, <2>0, <2>1, <1>3, <1>4, <1>5 DEF Facts, SeqFacts, DataInv,
         DataTo, NoFrame, Data, Ack
    <3>3. CASE n # m /\ Peer[n] # m
      BY SMTT(30), <3>3, <2>0, <2>1, <1>3, <1>4, <1>5 DEF Facts, DataInv, DataTo
    <3>. QED BY <3>1, <3>2, <3>3
  <2>6. AckInv(n)'
    <3>1. CASE n = m
      BY SMTT(30), <3>1, <2>0, <2>1, <1>3, <1>4, <1>5 DEF Facts, SeqFacts, AckInv,
         AckTo, InOrder, NoFrame, Data, Ack
    <3>2. CASE Peer[n] = m
      BY SMTT(30), <3>2, <2>0, <2>1, <1>3, <1>4, <1>5 DEF Facts, SeqFacts, AckInv,
         AckTo, InOrder, NoFrame, Data, Ack
    <3>3. CASE n # m /\ Peer[n] # m
      BY SMTT(30), <3>3, <2>0, <2>1, <1>3, <1>4, <1>5 DEF Facts, AckInv, AckTo, InOrder
    <3>. QED BY <3>1, <3>2, <3>3
  <2>7. ReportInv(n)'
    <3>1. CASE n = m
      <4>1. /\ m_hci_rx_fsm_state[n] = "WAIT_FOR_SLIP_ACK_END" /\ m_hci_rx_fsm_state'[n] = "RECEIVE"
            /\ reported'[n] = reported[n] + 1
            /\ UNCHANGED <<accepted, m_p_rx_packet>>
        BY <3>1, <1>0 DEF TypeOK, AckSent
      <4>. QED BY <4>1, <2>0 DEF Facts, ReportInv
    <3>2. CASE n # m
      BY SMTT(30), <3>2, <1>0, <2>0 DEF Facts, TypeOK, ReportInv, AckSent
    <3>. QED BY <3>1, <3>2
  <2>8. BigInv(n)'
    BY SMTT(30), <1>0, <1>2, <1>1, <2>0, <2>1 DEF Facts, TypeOK, NoFrame, Data, Ack,
       NULL, Sending, Acking, BigInv, Kept, BufInv, DataInv, DataTo, ReportInv, AckSent
  <2>. QED BY <2>2, <2>3, <2>4, <2>5, <2>6, <2>7, <2>8 DEF NodeInv
<1>. QED BY <1>2, <1>6 DEF IInv

(* The end of a repeated acknowledgement. *)
LEMMA NackSentInv ==
  ASSUME IInv, NEW m \in Node, NackSent(m)
  PROVE  IInv'
<1>0. TypeOK /\ Facts(m)
  BY FactsHold DEF IInv
<1>1. TypeOK'
  <2>1. frame' \in [Node -> Frame]
    BY <1>0, FrameType, Pairs, HciAssumption DEF TypeOK, TxState, RxState, NULL,
       NackSent
  <2>2. pending' \in [Node -> Frame]
    BY <1>0, FrameType, Pairs, HciAssumption DEF TypeOK, TxState, RxState, NULL,
       NackSent
  <2>3. frameEnd' \in SUBSET Node
    BY <1>0, FrameType, Pairs, HciAssumption DEF TypeOK, TxState, RxState, NULL,
       NackSent
  <2>4. m_hci_rx_fsm_state' \in [Node -> RxState]
    BY <1>0, FrameType, Pairs, HciAssumption DEF TypeOK, TxState, RxState, NULL,
       NackSent
  <2>. QED BY <1>0, <2>1, <2>2, <2>3, <2>4 DEF TypeOK, NackSent
<1>2. /\ frame'[m] = pending[m] /\ pending'[m] = NoFrame
      /\ m_hci_rx_fsm_state'[m] = "RECEIVE"
  BY <1>0 DEF TypeOK, NackSent
<1>3. \A n \in Node : n # m =>
        /\ frame'[n] = frame[n] /\ pending'[n] = pending[n]
        /\ m_hci_rx_fsm_state'[n] = m_hci_rx_fsm_state[n]
  BY <1>0, Pairs DEF TypeOK, NackSent
<1>4. UNCHANGED <<accepted, sent, handed, m_packet_ack_number, line, m_big_buffer,
                m_p_rx_packet, m_small_buffer, m_hci_tx_fsm_state, bigFirst>>
  BY DEF NackSent
<1>5. ASSUME NEW n \in Node PROVE NodeInv(n)'
  <2>0. Facts(n) /\ Facts(m)
    BY FactsHold
  <2>1. SeqFacts(sent[n])
    BY <2>0, SeqNumbers DEF Facts
  <2>2. SenderInv(n)'
    BY <2>0, <1>1 DEF Facts, SenderInv, NackSent
  <2>3. SlipInv(n)'
    BY SMTT(30), <1>0, <1>1, <2>0, <2>1 DEF Facts, TypeOK, NoFrame, Data, Ack, NULL,
       Sending, Acking, Frame, SlipInv, SenderInv, NackSent
  <2>4. BufInv(n)'
    BY SMTT(30), <1>0, <1>1, <2>0, <2>1 DEF Facts, TypeOK, NoFrame, Data, Ack, NULL,
       Sending, Acking, Frame, BufInv, SlipInv, NackSent
  <2>5. DataInv(n)'
    <3>1. CASE n = m
      BY SMTT(30), <3>1, <2>0, <2>1, <1>2, <1>3, <1>4 DEF Facts, SeqFacts, DataInv,
         DataTo, NoFrame, Data, Ack
    <3>2. CASE Peer[n] = m
      BY SMTT(30), <3>2, <2>0, <2>1, <1>2, <1>3, <1>4 DEF Facts, SeqFacts, DataInv,
         DataTo, NoFrame, Data, Ack
    <3>3. CASE n # m /\ Peer[n] # m
      BY SMTT(30), <3>3, <2>0, <2>1, <1>2, <1>3, <1>4 DEF Facts, DataInv, DataTo
    <3>. QED BY <3>1, <3>2, <3>3
  <2>6. AckInv(n)'
    <3>1. CASE n = m
      BY SMTT(30), <3>1, <2>0, <2>1, <1>2, <1>3, <1>4 DEF Facts, SeqFacts, AckInv,
         AckTo, InOrder, NoFrame, Data, Ack
    <3>2. CASE Peer[n] = m
      BY SMTT(30), <3>2, <2>0, <2>1, <1>2, <1>3, <1>4 DEF Facts, SeqFacts, AckInv,
         AckTo, InOrder, NoFrame, Data, Ack
    <3>3. CASE n # m /\ Peer[n] # m
      BY SMTT(30), <3>3, <2>0, <2>1, <1>2, <1>3, <1>4 DEF Facts, AckInv, AckTo, InOrder
    <3>. QED BY <3>1, <3>2, <3>3
  <2>7. ReportInv(n)'
    <3>1. CASE n = m
      BY SMTT(30), <3>1, <1>0, <2>0 DEF Facts, TypeOK, ReportInv, NackSent
    <3>2. CASE n # m
      BY SMTT(30), <3>2, <1>0, <2>0 DEF Facts, TypeOK, ReportInv, NackSent
    <3>. QED BY <3>1, <3>2
  <2>8. BigInv(n)'
    <3>1. CASE n = m
      BY SMTT(30), <3>1, <1>0, <2>0 DEF Facts, TypeOK, BigInv, Kept, NackSent
    <3>2. CASE n # m
      BY SMTT(30), <3>2, <1>0, <2>0 DEF Facts, TypeOK, BigInv, Kept, NackSent
    <3>. QED BY <3>1, <3>2
  <2>. QED BY <2>2, <2>3, <2>4, <2>5, <2>6, <2>7, <2>8 DEF NodeInv
<1>. QED BY <1>1, <1>5 DEF IInv

(* A frame gets on the line. *)
LEMMA FrameOutInv ==
  ASSUME IInv, NEW m \in Node, FrameOut(m)
  PROVE  IInv'
<1>0. TypeOK /\ Facts(m)
  BY FactsHold DEF IInv
<1>1. TypeOK'
  <2>1. frameEnd' \in SUBSET Node
    BY <1>0, FrameType, Pairs, HciAssumption DEF TypeOK, TxState, RxState, NULL,
       FrameOut
  <2>2. line' \in [Node -> Frame]
    BY <1>0, FrameType, Pairs, HciAssumption DEF TypeOK, TxState, RxState, NULL,
       FrameOut
  <2>. QED BY <1>0, <2>1, <2>2 DEF TypeOK, FrameOut
<1>2. /\ line[m] = NoFrame /\ line'[m] = frame[m]
  BY <1>0 DEF TypeOK, FrameOut
<1>3. \A n \in Node : n # m => line'[n] = line[n]
  BY <1>0, Pairs DEF TypeOK, FrameOut
<1>4. UNCHANGED <<accepted, sent, handed, m_packet_ack_number, frame, pending,
                m_big_buffer, m_hci_rx_fsm_state, m_p_rx_packet, m_small_buffer, m_hci_tx_fsm_state,
                bigFirst>>
  BY DEF FrameOut
<1>5. ASSUME NEW n \in Node PROVE NodeInv(n)'
  <2>0. Facts(n) /\ Facts(m)
    BY FactsHold
  <2>1. SeqFacts(sent[n])
    BY <2>0, SeqNumbers DEF Facts
  <2>2. SenderInv(n)'
    BY <2>0, <1>1 DEF Facts, SenderInv, FrameOut
  <2>3. SlipInv(n)'
    BY SMTT(30), <1>0, <1>1, <2>0, <2>1 DEF Facts, TypeOK, NoFrame, Data, Ack, NULL,
       Sending, Acking, Frame, SlipInv, SenderInv, FrameOut
  <2>4. BufInv(n)'
    BY <2>0, <1>1 DEF Facts, BufInv, FrameOut
  <2>5. DataInv(n)'
    <3>1. CASE n = m
      BY SMTT(30), <3>1, <2>0, <2>1, <1>2, <1>3, <1>4 DEF Facts, SeqFacts, DataInv,
         DataTo, NoFrame, Data, Ack, SlipInv, SenderInv, Sending
    <3>2. CASE Peer[n] = m
      BY SMTT(30), <3>2, <2>0, <2>1, <1>2, <1>3, <1>4 DEF Facts, SeqFacts, DataInv,
         DataTo, NoFrame, Data, Ack, SlipInv, SenderInv, Sending
    <3>3. CASE n # m /\ Peer[n] # m
      BY SMTT(30), <3>3, <2>0, <2>1, <1>2, <1>3, <1>4 DEF Facts, DataInv, DataTo
    <3>. QED BY <3>1, <3>2, <3>3
  <2>6. AckInv(n)'
    <3>1. CASE n = m
      BY SMTT(30), <3>1, <2>0, <2>1, <1>2, <1>3, <1>4 DEF Facts, SeqFacts, AckInv,
         AckTo, InOrder, NoFrame, Data, Ack, DataInv, SlipInv
    <3>2. CASE Peer[n] = m
      BY SMTT(30), <3>2, <2>0, <2>1, <1>2, <1>3, <1>4 DEF Facts, SeqFacts, AckInv,
         AckTo, InOrder, NoFrame, Data, Ack, DataInv, SlipInv
    <3>3. CASE n # m /\ Peer[n] # m
      BY SMTT(30), <3>3, <2>0, <2>1, <1>2, <1>3, <1>4 DEF Facts, AckInv, AckTo, InOrder
    <3>. QED BY <3>1, <3>2, <3>3
  <2>7. ReportInv(n)'
    BY <2>0, <1>1 DEF Facts, ReportInv, FrameOut
  <2>8. BigInv(n)'
    BY <2>0, <1>1 DEF Facts, BigInv, Kept, FrameOut
  <2>. QED BY <2>2, <2>3, <2>4, <2>5, <2>6, <2>7, <2>8 DEF NodeInv
<1>. QED BY <1>1, <1>5 DEF IInv

(* A frame is lost. *)
LEMMA LoseInv ==
  ASSUME IInv, NEW m \in Node, Lose(m)
  PROVE  IInv'
<1>0. TypeOK /\ Facts(m)
  BY FactsHold DEF IInv
<1>1. TypeOK'
  <2>1. line' \in [Node -> Frame]
    BY <1>0, FrameType, Pairs, HciAssumption DEF TypeOK, TxState, RxState, NULL, Lose
  <2>2. asserted' \in SUBSET Node
    BY <1>0, FrameType, Pairs, HciAssumption DEF TypeOK, TxState, RxState, NULL, Lose
  <2>. QED BY <1>0, <2>1, <2>2 DEF TypeOK, Lose
<1>2. /\ line'[m] = NoFrame
  BY <1>0 DEF TypeOK, Lose
<1>3. \A n \in Node : n # m => line'[n] = line[n]
  BY <1>0, Pairs DEF TypeOK, Lose
<1>4. UNCHANGED <<accepted, sent, handed, m_packet_ack_number, frame, pending,
                m_big_buffer, m_hci_rx_fsm_state, m_p_rx_packet, m_small_buffer, m_hci_tx_fsm_state,
                bigFirst>>
  BY DEF Lose
<1>5. ASSUME NEW n \in Node PROVE NodeInv(n)'
  <2>0. Facts(n) /\ Facts(m)
    BY FactsHold
  <2>1. SeqFacts(sent[n])
    BY <2>0, SeqNumbers DEF Facts
  <2>2. SenderInv(n)'
    BY <2>0, <1>1 DEF Facts, SenderInv, Lose
  <2>3. SlipInv(n)'
    BY SMTT(30), <1>0, <1>1, <2>0, <2>1 DEF Facts, TypeOK, NoFrame, Data, Ack, NULL,
       Sending, Acking, Frame, SlipInv, SenderInv, Lose
  <2>4. BufInv(n)'
    BY <2>0, <1>1 DEF Facts, BufInv, Lose
  <2>5. DataInv(n)'
    <3>1. CASE n = m
      BY SMTT(30), <3>1, <2>0, <2>1, <1>2, <1>3, <1>4 DEF Facts, SeqFacts, DataInv,
         DataTo, NoFrame, Data, Ack
    <3>2. CASE Peer[n] = m
      BY SMTT(30), <3>2, <2>0, <2>1, <1>2, <1>3, <1>4 DEF Facts, SeqFacts, DataInv,
         DataTo, NoFrame, Data, Ack
    <3>3. CASE n # m /\ Peer[n] # m
      BY SMTT(30), <3>3, <2>0, <2>1, <1>2, <1>3, <1>4 DEF Facts, DataInv, DataTo
    <3>. QED BY <3>1, <3>2, <3>3
  <2>6. AckInv(n)'
    <3>1. CASE n = m
      BY SMTT(30), <3>1, <2>0, <2>1, <1>2, <1>3, <1>4 DEF Facts, SeqFacts, AckInv,
         AckTo, InOrder, NoFrame, Data, Ack
    <3>2. CASE Peer[n] = m
      BY SMTT(30), <3>2, <2>0, <2>1, <1>2, <1>3, <1>4 DEF Facts, SeqFacts, AckInv,
         AckTo, InOrder, NoFrame, Data, Ack
    <3>3. CASE n # m /\ Peer[n] # m
      BY SMTT(30), <3>3, <2>0, <2>1, <1>2, <1>3, <1>4 DEF Facts, AckInv, AckTo, InOrder
    <3>. QED BY <3>1, <3>2, <3>3
  <2>7. ReportInv(n)'
    BY <2>0, <1>1 DEF Facts, ReportInv, Lose
  <2>8. BigInv(n)'
    BY SMTT(30), <1>0, <1>1, <2>0, <2>1 DEF Facts, TypeOK, NoFrame, Data, Ack, NULL,
       Sending, Acking, BigInv, Kept, BufInv, DataInv, DataTo, ReportInv, Lose
  <2>. QED BY <2>2, <2>3, <2>4, <2>5, <2>6, <2>7, <2>8 DEF NodeInv
<1>. QED BY <1>1, <1>5 DEF IInv

(* An acknowledgement gets into the small buffer, ... *)
LEMMA ReadAckInv ==
  ASSUME IInv, NEW m \in Node, ReadAck(m)
  PROVE  IInv'
<1>0. TypeOK /\ Facts(m)
  BY FactsHold DEF IInv
<1>1. TypeOK'
  <2>1. line' \in [Node -> Frame]
    BY <1>0, FrameType, Pairs, HciAssumption DEF TypeOK, TxState, RxState, NULL, ReadAck
  <2>2. m_small_buffer' \in [Node -> Frame]
    BY <1>0, FrameType, Pairs, HciAssumption DEF TypeOK, TxState, RxState, NULL, ReadAck
  <2>3. bigFirst' \in SUBSET Node
    BY <1>0, FrameType, Pairs, HciAssumption DEF TypeOK, TxState, RxState, NULL, ReadAck
  <2>. QED BY <1>0, <2>1, <2>2, <2>3 DEF TypeOK, ReadAck
<1>2. /\ line[Peer[m]].type = "ack" /\ line'[Peer[m]] = NoFrame
      /\ m_small_buffer[m] = NoFrame /\ m_small_buffer'[m] = line[Peer[m]]
      /\ m \in bigFirst' <=> m_big_buffer[m].type = "ack"
  BY <1>0 DEF Facts, BufInv, TypeOK, ReadAck
<1>3. \A n \in Node :
        /\ n # m => /\ m_small_buffer'[n] = m_small_buffer[n]
                    /\ (n \in bigFirst' <=> n \in bigFirst)
        /\ n # Peer[m] => line'[n] = line[n]
  BY <1>0, Pairs DEF TypeOK, ReadAck
<1>4. UNCHANGED <<accepted, sent, handed, m_packet_ack_number, frame, pending,
                m_big_buffer, m_hci_rx_fsm_state, m_p_rx_packet, m_hci_tx_fsm_state>>
  BY DEF ReadAck
<1>5. ASSUME NEW n \in Node PROVE NodeInv(n)'
  <2>0. Facts(n) /\ Facts(m)
    BY FactsHold
  <2>1. SeqFacts(sent[n])
    BY <2>0, SeqNumbers DEF Facts
  <2>2. SenderInv(n)'
    BY <2>0, <1>1 DEF Facts, SenderInv, ReadAck
  <2>3. SlipInv(n)'
    BY SMTT(30), <1>0, <1>1, <2>0, <2>1 DEF Facts, TypeOK, NoFrame, Data, Ack, NULL,
       Sending, Acking, Frame, SlipInv, SenderInv, ReadAck
  <2>4. BufInv(n)'
    BY SMTT(30), <1>0, <1>1, <2>0, <2>1 DEF Facts, TypeOK, NoFrame, Data, Ack, NULL,
       Sending, Acking, Frame, BufInv, SlipInv, ReadAck
  <2>5. DataInv(n)'
    <3>1. CASE n = m
      BY SMTT(30), <3>1, <2>0, <1>3, <1>4 DEF Facts, DataInv, DataTo
    <3>2. CASE Peer[n] = m
      BY SMTT(30), <3>2, <2>0, <2>1, <1>2, <1>3, <1>4 DEF Facts, SeqFacts, DataInv,
         DataTo, NoFrame, Data, Ack
    <3>3. CASE n # m /\ Peer[n] # m
      BY SMTT(30), <3>3, <2>0, <2>1, <1>2, <1>3, <1>4 DEF Facts, DataInv, DataTo
    <3>. QED BY <3>1, <3>2, <3>3
  <2>6. AckInv(n)'
    <3>1. CASE n = m
      BY SMTT(30), <3>1, <2>0, <2>1, <1>2, <1>3, <1>4 DEF Facts, SeqFacts, AckInv,
         AckTo, InOrder, NoFrame, Data, Ack
    <3>2. CASE Peer[n] = m
      BY SMTT(30), <3>2, <2>0, <2>1, <1>2, <1>3, <1>4 DEF Facts, SeqFacts, AckInv,
         AckTo, InOrder, NoFrame, Data, Ack
    <3>3. CASE n # m /\ Peer[n] # m
      BY SMTT(30), <3>3, <2>0, <2>1, <1>2, <1>3, <1>4 DEF Facts, AckInv, AckTo, InOrder
    <3>. QED BY <3>1, <3>2, <3>3
  <2>7. ReportInv(n)'
    BY <2>0, <1>1 DEF Facts, ReportInv, ReadAck
  <2>8. BigInv(n)'
    BY <2>0, <1>1 DEF Facts, BigInv, Kept, ReadAck
  <2>. QED BY <2>2, <2>3, <2>4, <2>5, <2>6, <2>7, <2>8 DEF NodeInv
<1>. QED BY <1>1, <1>5 DEF IInv

(* ... a data frame into the big one, ... *)
LEMMA ReadDataInv ==
  ASSUME IInv, NEW m \in Node, ReadData(m)
  PROVE  IInv'
<1>0. TypeOK /\ Facts(m)
  BY FactsHold DEF IInv
<1>1. TypeOK'
  <2>1. line' \in [Node -> Frame]
    BY <1>0, FrameType, Pairs, HciAssumption DEF TypeOK, TxState, RxState, NULL,
       ReadData
  <2>2. m_big_buffer' \in [Node -> Frame]
    BY <1>0, FrameType, Pairs, HciAssumption DEF TypeOK, TxState, RxState, NULL,
       ReadData
  <2>3. mp_big_buffer' \in SUBSET Node
    BY <1>0, FrameType, Pairs, HciAssumption DEF TypeOK, TxState, RxState, NULL,
       ReadData
  <2>. QED BY <1>0, <2>1, <2>2, <2>3 DEF TypeOK, ReadData
<1>2. /\ line[Peer[m]].type = "data" /\ line'[Peer[m]] = NoFrame
      /\ m_big_buffer[m] = NoFrame /\ m_big_buffer'[m] = line[Peer[m]]
  BY <1>0 DEF Facts, BufInv, TypeOK, ReadData
<1>3. \A n \in Node :
         /\ n # m => m_big_buffer'[n] = m_big_buffer[n]
         /\ n # Peer[m] => line'[n] = line[n]
  BY <1>0, Pairs DEF TypeOK, ReadData
<1>4. UNCHANGED <<accepted, sent, handed, m_packet_ack_number, frame, pending,
                m_hci_rx_fsm_state, m_p_rx_packet, m_small_buffer, m_hci_tx_fsm_state, bigFirst>>
  BY DEF ReadData
<1>5. ASSUME NEW n \in Node PROVE NodeInv(n)'
  <2>0. Facts(n) /\ Facts(m)
    BY FactsHold
  <2>1. SeqFacts(sent[n])
    BY <2>0, SeqNumbers DEF Facts
  <2>2. SenderInv(n)'
    BY <2>0, <1>1 DEF Facts, SenderInv, ReadData
  <2>3. SlipInv(n)'
    BY SMTT(30), <1>0, <1>1, <2>0, <2>1 DEF Facts, TypeOK, NoFrame, Data, Ack, NULL,
       Sending, Acking, Frame, SlipInv, SenderInv, ReadData
  <2>4. BufInv(n)'
    BY SMTT(30), <1>0, <1>1, <2>0, <2>1 DEF Facts, TypeOK, NoFrame, Data, Ack, NULL,
       Sending, Acking, Frame, BufInv, SlipInv, ReadData
  <2>5. DataInv(n)'
    <3>1. CASE n = m
      BY SMTT(30), <3>1, <2>0, <1>3, <1>4 DEF Facts, DataInv, DataTo
    <3>2. CASE Peer[n] = m
      BY SMTT(30), <3>2, <2>0, <2>1, <1>2, <1>3, <1>4 DEF Facts, SeqFacts, DataInv,
         DataTo, NoFrame, Data, Ack
    <3>3. CASE n # m /\ Peer[n] # m
      BY SMTT(30), <3>3, <2>0, <2>1, <1>2, <1>3, <1>4 DEF Facts, DataInv, DataTo
    <3>. QED BY <3>1, <3>2, <3>3
  <2>6. AckInv(n)'
    <3>1. CASE n = m
      BY SMTT(30), <3>1, <2>0, <2>1, <1>2, <1>3, <1>4 DEF Facts, SeqFacts, AckInv,
         AckTo, InOrder, NoFrame, Data, Ack
    <3>2. CASE Peer[n] = m
      BY SMTT(30), <3>2, <2>0, <2>1, <1>2, <1>3, <1>4 DEF Facts, SeqFacts, AckInv,
         AckTo, InOrder, NoFrame, Data, Ack
    <3>3. CASE n # m /\ Peer[n] # m
      BY SMTT(30), <3>3, <2>0, <2>1, <1>2, <1>3, <1>4 DEF Facts, AckInv, AckTo, InOrder
    <3>. QED BY <3>1, <3>2, <3>3
  <2>7. ReportInv(n)'
    BY <2>0, <1>1 DEF Facts, ReportInv, ReadData
  <2>8. BigInv(n)'
    BY SMTT(30), <1>0, <1>1, <2>0, <2>1 DEF Facts, TypeOK, NoFrame, Data, Ack, NULL,
       Sending, Acking, BigInv, Kept, BufInv, DataInv, DataTo, ReportInv, ReadData
  <2>. QED BY <2>2, <2>3, <2>4, <2>5, <2>6, <2>7, <2>8 DEF NodeInv
<1>. QED BY <1>1, <1>5 DEF IInv

(* ... and either into the big one while the small one is taken. *)
LEMMA ReadBeginsInv ==
  ASSUME IInv, NEW m \in Node, ReadBegins(m)
  PROVE  IInv'
<1>0. TypeOK /\ Facts(m)
  BY FactsHold DEF IInv
<1>1. TypeOK'
  BY <1>0, FrameType, Pairs, HciAssumption DEF TypeOK, TxState, RxState, NULL,
     ReadBegins
<1>2. ASSUME NEW n \in Node PROVE NodeInv(n)'
  <2>0. Facts(n) /\ Facts(m)
    BY FactsHold
  <2>1. SeqFacts(sent[n])
    BY <2>0, SeqNumbers DEF Facts
  <2>2. SenderInv(n)'
    BY <2>0, <1>1 DEF Facts, SenderInv, ReadBegins
  <2>3. SlipInv(n)'
    BY <2>0, <1>1 DEF Facts, SlipInv, ReadBegins
  <2>4. BufInv(n)'
    BY SMTT(30), <1>0, <1>1, <2>0, <2>1 DEF Facts, TypeOK, NoFrame, Data, Ack, NULL,
       Sending, Acking, Frame, BufInv, SlipInv, ReadBegins
  <2>5. DataInv(n)'
    BY <2>0, <1>1 DEF Facts, DataInv, DataTo, ReadBegins
  <2>6. AckInv(n)'
    BY <2>0, <1>1 DEF Facts, AckInv, AckTo, InOrder, ReadBegins
  <2>7. ReportInv(n)'
    BY <2>0, <1>1 DEF Facts, ReportInv, ReadBegins
  <2>8. BigInv(n)'
    BY SMTT(30), <1>0, <1>1, <2>0, <2>1 DEF Facts, TypeOK, NoFrame, Data, Ack, NULL,
       Sending, Acking, BigInv, Kept, BufInv, DataInv, DataTo, ReportInv, ReadBegins
  <2>. QED BY <2>2, <2>3, <2>4, <2>5, <2>6, <2>7, <2>8 DEF NodeInv
<1>. QED BY <1>1, <1>2 DEF IInv

(* The frame is reported while SLIP may still receive into its buffer. *)
LEMMA ReadBigInv ==
  ASSUME IInv, NEW m \in Node, ReadBig(m)
  PROVE  IInv'
<1>0. TypeOK /\ Facts(m)
  BY FactsHold DEF IInv
<1>1. TypeOK'
  <2>1. line' \in [Node -> Frame]
    BY <1>0, FrameType, Pairs, HciAssumption DEF TypeOK, TxState, RxState, NULL, ReadBig
  <2>2. m_big_buffer' \in [Node -> Frame]
    BY <1>0, FrameType, Pairs, HciAssumption DEF TypeOK, TxState, RxState, NULL, ReadBig
  <2>3. big_buff_in_use' \in [Node -> {"no", "receiving", "reporting"}]
    BY <1>0, FrameType, Pairs, HciAssumption DEF TypeOK, TxState, RxState, NULL, ReadBig
  <2>. QED BY <1>0, <2>1, <2>2, <2>3 DEF TypeOK, ReadBig
<1>2. /\ line'[Peer[m]] = NoFrame
      /\ m_big_buffer[m] = NoFrame /\ m_big_buffer'[m] = line[Peer[m]]
      /\ m \notin bigFirst
  BY <1>0 DEF Facts, BufInv, TypeOK, NoFrame, ReadBig
<1>3. \A n \in Node :
         /\ n # m => m_big_buffer'[n] = m_big_buffer[n]
         /\ n # Peer[m] => line'[n] = line[n]
  BY <1>0, Pairs DEF TypeOK, ReadBig
<1>4. UNCHANGED <<accepted, sent, handed, m_packet_ack_number, frame, pending,
                m_hci_rx_fsm_state, m_p_rx_packet, m_small_buffer, m_hci_tx_fsm_state, bigFirst>>
  BY DEF ReadBig
<1>5. ASSUME NEW n \in Node PROVE NodeInv(n)'
  <2>0. Facts(n) /\ Facts(m)
    BY FactsHold
  <2>1. SeqFacts(sent[n])
    BY <2>0, SeqNumbers DEF Facts
  <2>2. SenderInv(n)'
    BY <2>0, <1>1 DEF Facts, SenderInv, ReadBig
  <2>3. SlipInv(n)'
    BY SMTT(30), <1>0, <1>1, <2>0, <2>1 DEF Facts, TypeOK, NoFrame, Data, Ack, NULL,
       Sending, Acking, Frame, SlipInv, SenderInv, ReadBig
  <2>4. BufInv(n)'
    BY SMTT(30), <1>0, <1>1, <2>0, <2>1 DEF Facts, TypeOK, NoFrame, Data, Ack, NULL,
       Sending, Acking, Frame, BufInv, SlipInv, ReadBig
  <2>5. DataInv(n)'
    <3>1. CASE n = m
      BY SMTT(30), <3>1, <2>0, <1>3, <1>4 DEF Facts, DataInv, DataTo
    <3>2. CASE Peer[n] = m
      BY SMTT(30), <3>2, <2>0, <2>1, <1>2, <1>3, <1>4 DEF Facts, SeqFacts, DataInv,
         DataTo, NoFrame, Data, Ack
    <3>3. CASE n # m /\ Peer[n] # m
      BY SMTT(30), <3>3, <2>0, <2>1, <1>2, <1>3, <1>4 DEF Facts, DataInv, DataTo
    <3>. QED BY <3>1, <3>2, <3>3
  <2>6. AckInv(n)'
    <3>1. CASE n = m
      BY SMTT(30), <3>1, <2>0, <2>1, <1>2, <1>3, <1>4 DEF Facts, SeqFacts, AckInv,
         AckTo, InOrder, NoFrame, Data, Ack
    <3>2. CASE Peer[n] = m
      BY SMTT(30), <3>2, <2>0, <2>1, <1>2, <1>3, <1>4 DEF Facts, SeqFacts, AckInv,
         AckTo, InOrder, NoFrame, Data, Ack
    <3>3. CASE n # m /\ Peer[n] # m
      BY SMTT(30), <3>3, <2>0, <2>1, <1>2, <1>3, <1>4 DEF Facts, AckInv, AckTo, InOrder
    <3>. QED BY <3>1, <3>2, <3>3
  <2>7. ReportInv(n)'
    BY <2>0, <1>1 DEF Facts, ReportInv, ReadBig
  <2>8. BigInv(n)'
    BY SMTT(30), <1>0, <1>1, <2>0, <2>1 DEF Facts, TypeOK, NoFrame, Data, Ack, NULL,
       Sending, Acking, BigInv, Kept, BufInv, DataInv, DataTo, ReportInv, ReadBig
  <2>. QED BY <2>2, <2>3, <2>4, <2>5, <2>6, <2>7, <2>8 DEF NodeInv
<1>. QED BY <1>1, <1>5 DEF IInv

(* The buffer is locked whatever has become of the frame. *)
LEMMA HandlerReturnsInv ==
  ASSUME IInv, NEW m \in Node, HandlerReturns(m), Running(m)
  PROVE  IInv'
<1>0. TypeOK /\ Facts(m)
  BY FactsHold DEF IInv
<1>1. TypeOK'
  <2>1. mp_big_buffer' \in SUBSET Node
    BY <1>0, FrameType, Pairs, HciAssumption DEF TypeOK, TxState, RxState, NULL,
       HandlerReturns
  <2>2. big_buff_in_use' \in [Node -> {"no", "receiving", "reporting"}]
    BY <1>0, FrameType, Pairs, HciAssumption DEF TypeOK, TxState, RxState, NULL,
       HandlerReturns
  <2>. QED BY <1>0, <2>1, <2>2 DEF TypeOK, HandlerReturns
<1>2. ASSUME NEW n \in Node PROVE NodeInv(n)'
  <2>0. Facts(n) /\ Facts(m)
    BY FactsHold
  <2>1. SeqFacts(sent[n])
    BY <2>0, SeqNumbers DEF Facts
  <2>2. SenderInv(n)'
    BY <2>0, <1>1 DEF Facts, SenderInv, HandlerReturns
  <2>3. SlipInv(n)'
    BY <2>0, <1>1 DEF Facts, SlipInv, HandlerReturns
  <2>4. BufInv(n)'
    BY SMTT(30), <1>0, <1>1, <2>0, <2>1 DEF Facts, TypeOK, NoFrame, Data, Ack, NULL,
       Sending, Acking, Frame, BufInv, SlipInv, HandlerReturns
  <2>5. DataInv(n)'
    BY <2>0, <1>1 DEF Facts, DataInv, DataTo, HandlerReturns
  <2>6. AckInv(n)'
    BY <2>0, <1>1 DEF Facts, AckInv, AckTo, InOrder, HandlerReturns
  <2>7. ReportInv(n)'
    BY <2>0, <1>1 DEF Facts, ReportInv, HandlerReturns
  <2>8. BigInv(n)'
    <3>1. CASE n = m
      BY SMTT(30), <3>1, <1>0, <2>0 DEF Facts, TypeOK, BigInv, Kept, Running, BufInv,
         HandlerReturns
    <3>2. CASE n # m
      BY SMTT(30), <3>2, <1>0, <2>0 DEF Facts, TypeOK, BigInv, Kept, HandlerReturns
    <3>. QED BY <3>1, <3>2
  <2>. QED BY <2>2, <2>3, <2>4, <2>5, <2>6, <2>7, <2>8 DEF NodeInv
<1>. QED BY <1>1, <1>2 DEF IInv

(* A frame for which there is no buffer leaves the line. *)
LEMMA ReadNotInv ==
  ASSUME IInv, NEW m \in Node, ReadNot(m)
  PROVE  IInv'
<1>0. TypeOK /\ Facts(m)
  BY FactsHold DEF IInv
<1>1. TypeOK'
  BY <1>0, FrameType, Pairs, HciAssumption DEF TypeOK, TxState, RxState, NULL, ReadNot
<1>2. /\ line'[Peer[m]] = NoFrame
  BY <1>0 DEF Facts, TypeOK, ReadNot
<1>3. \A n \in Node : n # Peer[m] => line'[n] = line[n]
  BY <1>0, Pairs DEF TypeOK, ReadNot
<1>4. UNCHANGED <<accepted, sent, handed, m_packet_ack_number, frame, pending,
                m_big_buffer, m_hci_rx_fsm_state, m_p_rx_packet, m_small_buffer, m_hci_tx_fsm_state,
                bigFirst>>
  BY DEF ReadNot
<1>5. ASSUME NEW n \in Node PROVE NodeInv(n)'
  <2>0. Facts(n) /\ Facts(m)
    BY FactsHold
  <2>1. SeqFacts(sent[n])
    BY <2>0, SeqNumbers DEF Facts
  <2>2. SenderInv(n)'
    BY <2>0, <1>1 DEF Facts, SenderInv, ReadNot
  <2>3. SlipInv(n)'
    BY SMTT(30), <1>0, <1>1, <2>0, <2>1 DEF Facts, TypeOK, NoFrame, Data, Ack, NULL,
       Sending, Acking, Frame, SlipInv, SenderInv, ReadNot
  <2>4. BufInv(n)'
    BY <2>0, <1>1 DEF Facts, BufInv, ReadNot
  <2>5. DataInv(n)'
    <3>1. CASE n = m
      BY SMTT(30), <3>1, <2>0, <1>3, <1>4 DEF Facts, DataInv, DataTo
    <3>2. CASE Peer[n] = m
      BY SMTT(30), <3>2, <2>0, <2>1, <1>2, <1>3, <1>4 DEF Facts, SeqFacts, DataInv,
         DataTo, NoFrame, Data, Ack
    <3>3. CASE n # m /\ Peer[n] # m
      BY SMTT(30), <3>3, <2>0, <2>1, <1>2, <1>3, <1>4 DEF Facts, DataInv, DataTo
    <3>. QED BY <3>1, <3>2, <3>3
  <2>6. AckInv(n)'
    <3>1. CASE n = m
      BY SMTT(30), <3>1, <2>0, <2>1, <1>2, <1>3, <1>4 DEF Facts, SeqFacts, AckInv,
         AckTo, InOrder, NoFrame, Data, Ack
    <3>2. CASE Peer[n] = m
      BY SMTT(30), <3>2, <2>0, <2>1, <1>2, <1>3, <1>4 DEF Facts, SeqFacts, AckInv,
         AckTo, InOrder, NoFrame, Data, Ack
    <3>3. CASE n # m /\ Peer[n] # m
      BY SMTT(30), <3>3, <2>0, <2>1, <1>2, <1>3, <1>4 DEF Facts, AckInv, AckTo, InOrder
    <3>. QED BY <3>1, <3>2, <3>3
  <2>7. ReportInv(n)'
    BY <2>0, <1>1 DEF Facts, ReportInv, ReadNot
  <2>8. BigInv(n)'
    BY <2>0, <1>1 DEF Facts, BigInv, Kept, ReadNot
  <2>. QED BY <2>2, <2>3, <2>4, <2>5, <2>6, <2>7, <2>8 DEF NodeInv
<1>. QED BY <1>1, <1>5 DEF IInv

-----------------------------------------------------------------------------
(* The strengthening holds at the start, ... *)
LEMMA InitInv == Init => IInv
<1>. SUFFICES ASSUME Init PROVE IInv
  OBVIOUS
<1>1. TypeOK
  BY FrameType, HciAssumption DEF Init, TypeOK, TxState, RxState, NULL
<1>2. ASSUME NEW n \in Node PROVE NodeInv(n)
  <2>0. Peer[n] \in Node
    BY Pairs
  <2>1. SenderInv(n)
    BY HciAssumption DEF Init, SenderInv, NULL
  <2>2. SlipInv(n) /\ BufInv(n) /\ BigInv(n)
    BY DEF Init, SlipInv, BufInv, BigInv, NoFrame, Sending, Acking
  <2>3. DataInv(n)
    BY <2>0 DEF Init, DataInv, DataTo, NoFrame
  <2>4. AckInv(n) /\ ReportInv(n)
    BY <2>0 DEF Init, AckInv, AckTo, InOrder, ReportInv, NoFrame, NULL
  <2>. QED BY <2>1, <2>2, <2>3, <2>4 DEF NodeInv
<1>. QED BY <1>1, <1>2 DEF IInv

(* ... when nothing happens, ... *)
LEMMA StutterInv == IInv /\ UNCHANGED vars => IInv'
BY DEF vars, IInv, TypeOK, NodeInv, SenderInv, SlipInv, BufInv, DataInv, DataTo, AckInv,
       AckTo, InOrder, ReportInv, BigInv, Kept

(* ... and after every step. *)
LEMMA NextInv == IInv /\ [Next]_vars => IInv'
<1>. SUFFICES ASSUME IInv, [Next]_vars PROVE IInv'
  OBVIOUS
<1>1. CASE UNCHANGED vars
  BY <1>1, StutterInv
<1>2. ASSUME NEW m \in Node, TxRequest(m) \/ Lose(m) \/ FrameOut(m) \/ FrameEnds(m) \/ Timer(m)
      PROVE  IInv'
  BY <1>2, TxRequestInv, LoseInv, FrameOutInv, PktSentInv, PktSentAfterAckInv, AckSentInv,
     NackSentInv, TimerLoadsInv, RetransmitInv, GiveUpInv DEF FrameEnds, Timer
<1>3. ASSUME NEW m \in Node, TxEvent(m) \/ RxEvent(m) \/ BufGranted(m) PROVE IInv'
  BY <1>3, ReceiveAckInv, ReceiveAckEarlyInv, IgnoreAckInv, IgnoreDataInv, ReceiveDataInv,
     ReceiveDuplicateInv, BufGrantedInv DEF TxEvent, RxEvent
<1>4. ASSUME NEW m \in Node, Reading(m) \/ (Running(m) /\ HandlerReturns(m)) PROVE IInv'
  BY <1>4, ReadAckInv, ReadDataInv, ReadBeginsInv, ReadBigInv, ReadNotInv, HandlerReturnsInv
     DEF Reading
<1>. QED BY <1>1, <1>2, <1>3, <1>4 DEF Next, Goes

(* The strengthening is an invariant. *)
THEOREM Invariance == Spec => []IInv
<1>. QED BY InitInv, NextInv, PTL DEF Spec

(* Type correctness. *)
THEOREM TypeCorrect == Spec => []TypeOK
<1>1. IInv => TypeOK
  BY DEF IInv
<1>. QED BY <1>1, Invariance, PTL

(* What is reported as sent was taken by the other end, for any losses, any
   number of packets and any limit of retransmissions. *)
THEOREM Acknowledged == Spec => []SentIsAccepted
<1>1. ASSUME IInv, NEW n \in Node
      PROVE  /\ sent[n] <= accepted[Peer[n]] /\ accepted[Peer[n]] <= sent[n] + 1
             /\ accepted[Peer[n]] <= handed[n]
  <2>1. DataInv(n) /\ sent[n] \in Nat
    BY <1>1 DEF IInv, NodeInv, TypeOK
  <2>. QED BY <2>1 DEF DataInv
<1>2. IInv => SentIsAccepted
  BY <1>1 DEF SentIsAccepted
<1>. QED BY <1>2, Invariance, PTL

(* However frames, events and answers interleave, the big buffer is SLIP's again when
   nothing that it holds waits, unless there was no memory for a packet or SLIP freed
   the buffer before it had locked it. *)
THEOREM BufferComesBack == Spec => []BigBufferFreed
<1>1. IInv => BigBufferFreed
  BY DEF IInv, NodeInv, BigInv, Kept, BigBufferFreed
<1>. QED BY <1>1, Invariance, PTL
-----------------------------------------------------------------------------
(* A sender that waits for an acknowledgement has its timer on, and one that waits
   for nothing owes no answer but for a request that failed. *)
WorkInv ==
  \A n \in Node :
    /\ m_hci_tx_fsm_state[n] = "WAIT_FOR_ACK" => timer[n] # "off"
    /\ m_hci_tx_fsm_state[n] = "SEND" => handed[n] = sent[n] \/ n \in failed

LEMMA WorkInit == Init => WorkInv
  BY DEF Init, WorkInv

LEMMA WorkStep == IInv /\ WorkInv /\ [Next]_vars => WorkInv'
<1>. SUFFICES ASSUME IInv, WorkInv, [Next]_vars, NEW n \in Node
              PROVE  /\ m_hci_tx_fsm_state'[n] = "WAIT_FOR_ACK" => timer'[n] # "off"
                     /\ m_hci_tx_fsm_state'[n] = "SEND" => handed'[n] = sent'[n] \/ n \in failed'
  BY DEF WorkInv
<1>1. /\ m_hci_tx_fsm_state[n] = "WAIT_FOR_ACK" => timer[n] # "off"
      /\ m_hci_tx_fsm_state[n] = "SEND" => handed[n] = sent[n] \/ n \in failed
      /\ m_hci_tx_fsm_state[n] # "SEND" => handed[n] = sent[n] + 1
      /\ TypeOK
  BY DEF WorkInv, IInv, NodeInv, SenderInv
<1>2. CASE UNCHANGED <<m_hci_tx_fsm_state, timer, handed, sent, failed>>
  BY <1>1, <1>2
<1>3. ASSUME NEW m \in Node, \/ RxEvent(m) \/ BufGranted(m) \/ AckSent(m) \/ NackSent(m) \/ Reading(m)
                              \/ HandlerReturns(m) \/ FrameOut(m) \/ Lose(m) \/ IgnoreAck(m)
      PROVE  UNCHANGED <<m_hci_tx_fsm_state, timer, handed, sent, failed>>
  <2>1. CASE RxEvent(m) \/ BufGranted(m) \/ AckSent(m) \/ NackSent(m)
    BY <2>1 DEF RxEvent, IgnoreData, ReceiveData, ReceiveDuplicate, BufGranted, AckSent, NackSent
  <2>2. CASE Reading(m) \/ HandlerReturns(m)
    BY <2>2 DEF Reading, ReadAck, ReadData, ReadBegins, ReadBig, ReadNot, HandlerReturns
  <2>3. CASE FrameOut(m) \/ Lose(m) \/ IgnoreAck(m)
    BY <2>3 DEF FrameOut, Lose, IgnoreAck
  <2>. QED BY <1>3, <2>1, <2>2, <2>3
<1>4. ASSUME NEW m \in Node, TxRequest(m)
      PROVE  /\ m_hci_tx_fsm_state'[n] = "WAIT_FOR_ACK" => timer'[n] # "off"
             /\ m_hci_tx_fsm_state'[n] = "SEND" => handed'[n] = sent'[n] \/ n \in failed'
  BY <1>1, <1>4 DEF TxRequest, TypeOK
<1>5. ASSUME NEW m \in Node, PktSent(m) \/ TimerLoads(m)
      PROVE  /\ m_hci_tx_fsm_state'[n] = "WAIT_FOR_ACK" => timer'[n] # "off"
             /\ m_hci_tx_fsm_state'[n] = "SEND" => handed'[n] = sent'[n] \/ n \in failed'
  <2>1. CASE PktSent(m)
    BY <1>1, <2>1 DEF PktSent, TypeOK
  <2>2. CASE TimerLoads(m)
    BY <1>1, <2>2 DEF TimerLoads, TypeOK
  <2>. QED BY <1>5, <2>1, <2>2
<1>6. ASSUME NEW m \in Node, PktSentAfterAck(m) \/ ReceiveAck(m)
      PROVE  /\ m_hci_tx_fsm_state'[n] = "WAIT_FOR_ACK" => timer'[n] # "off"
             /\ m_hci_tx_fsm_state'[n] = "SEND" => handed'[n] = sent'[n] \/ n \in failed'
  <2>1. CASE PktSentAfterAck(m)
    BY <1>1, <2>1 DEF PktSentAfterAck, TypeOK
  <2>2. CASE ReceiveAck(m)
    BY <1>1, <2>2 DEF ReceiveAck, TypeOK
  <2>. QED BY <1>6, <2>1, <2>2
<1>7. ASSUME NEW m \in Node, ReceiveAckEarly(m) \/ Retransmit(m) \/ GiveUp(m)
      PROVE  /\ m_hci_tx_fsm_state'[n] = "WAIT_FOR_ACK" => timer'[n] # "off"
             /\ m_hci_tx_fsm_state'[n] = "SEND" => handed'[n] = sent'[n] \/ n \in failed'
  <2>1. CASE ReceiveAckEarly(m)
    BY <1>1, <2>1 DEF ReceiveAckEarly, TypeOK
  <2>2. CASE Retransmit(m)
    BY <1>1, <2>2 DEF Retransmit, TypeOK
  <2>3. CASE GiveUp(m)
    BY <1>1, <2>3 DEF GiveUp, TypeOK
  <2>. QED BY <1>7, <2>1, <2>2, <2>3
<1>8. CASE UNCHANGED vars
  BY <1>2, <1>8 DEF vars
<1>. QED
  BY <1>2, <1>3, <1>4, <1>5, <1>6, <1>7, <1>8 DEF Next, Goes, TxEvent, FrameEnds, Timer

(* What keeps EveryRequestAnswered from waiting for nothing: a request without an
   answer has a frame or a timer that goes on with it, and an answered packet an
   acknowledgement that ends in its report. *)
THEOREM RequestsAreInWork == Spec => []RequestInWork
<1>1. IInv /\ WorkInv => RequestInWork
  <2>. SUFFICES ASSUME IInv, WorkInv, NEW n \in Node
                PROVE  /\ handed[n] > sent[n] =>
                            \/ n \in failed \/ timer[n] # "off"
                            \/ "data" \in {frame[n].type, pending[n].type}
                       /\ accepted[n] > reported[n] =>
                            "ack" \in {frame[n].type, pending[n].type}
    BY DEF RequestInWork
  <2>1. SenderInv(n) /\ SlipInv(n) /\ ReportInv(n) /\ TypeOK
    BY DEF IInv, NodeInv
  <2>2. ASSUME handed[n] > sent[n], n \notin failed, timer[n] = "off"
        PROVE  "data" \in {frame[n].type, pending[n].type}
    <3>1. m_hci_tx_fsm_state[n] \notin {"SEND", "WAIT_FOR_ACK"}
      BY <2>1, <2>2 DEF WorkInv, TypeOK
    <3>2. m_hci_tx_fsm_state[n] \in Sending
      BY <2>1, <3>1 DEF TypeOK, TxState, Sending
    <3>. QED BY <2>1, <3>2 DEF SlipInv
  <2>3. ASSUME accepted[n] > reported[n]
        PROVE  "ack" \in {frame[n].type, pending[n].type}
    <3>1. m_hci_rx_fsm_state[n] \in Acking
      BY <2>1, <2>3 DEF ReportInv, Acking, TypeOK
    <3>. QED BY <2>1, <3>1 DEF SlipInv
  <2>. QED BY <2>2, <2>3
<1>2. Init => IInv /\ WorkInv
  BY InitInv, WorkInit
<1>3. IInv /\ WorkInv /\ [Next]_vars => IInv' /\ WorkInv'
  BY NextInv, WorkStep
<1>. QED BY <1>1, <1>2, <1>3, PTL DEF Spec
-----------------------------------------------------------------------------
(* A pipe of consecutive packets, when one is sent. *)
LEMMA PipeAppend ==
  ASSUME NEW r \in Nat, NEW h \in Nat, r <= h
  PROVE  Append([i \in 1..(h - r) |-> r + i], h + 1) = [i \in 1..((h + 1) - r) |-> r + i]
OBVIOUS

(* The pipe when a packet is taken. *)
LEMMA PipeTake ==
  ASSUME NEW r \in Nat, NEW h \in Nat, r < h
  PROVE  /\ [i \in 1..(h - r) |-> r + i] # <<>>
         /\ Head([i \in 1..(h - r) |-> r + i]) = r + 1
         /\ Tail([i \in 1..(h - r) |-> r + i]) = [i \in 1..(h - (r + 1)) |-> (r + 1) + i]
<1> DEFINE s == [i \in 1..(h - r) |-> r + i]
           t == [i \in 1..(h - (r + 1)) |-> (r + 1) + i]
<1>1. s \in Seq(Nat) /\ Len(s) = h - r /\ s # <<>> /\ s[1] = r + 1
  OBVIOUS
<1>2. t \in Seq(Nat) /\ Len(t) = h - (r + 1)
  OBVIOUS
<1>3. Head(s) = r + 1
  BY <1>1
<1> HIDE DEF s
<1>4. Tail(s) \in Seq(Nat) /\ Len(Tail(s)) = h - (r + 1)
     /\ \A i \in 1..Len(Tail(s)) : Tail(s)[i] = s[i + 1]
  BY <1>1, HeadTailProperties
<1>5. \A i \in 1..Len(t) : s[i + 1] = t[i]
  BY <1>2 DEF s
<1> HIDE DEF t
<1>6. Tail(s) = t
  BY <1>2, <1>4, <1>5, SeqEqual
<1>. QED BY <1>1, <1>3, <1>6 DEF s, t

(* A request is what the pipe calls sending, ... *)
LEMMA RequestSends ==
  ASSUME IInv, NEW m \in Node, TxRequest(m), NEW n \in Node
  PROVE  PipeFrom(n)!Step
<1> DEFINE r == reported[Peer[n]]
<1>1. CASE n = m
  <2>0. /\ DataInv(n) /\ ReportInv(Peer[n]) /\ MaxPackets[n] \in Nat
        /\ r \in Nat /\ handed[n] \in Nat /\ accepted[Peer[n]] \in Nat
    BY Pairs, HciAssumption DEF IInv, TypeOK, NodeInv
  <2>1. r <= handed[n] /\ handed[n] + 1 \in 1..MaxPackets[n]
    BY <1>1, <2>0 DEF DataInv, ReportInv, TxRequest
  <2>2. reported' = reported /\ received' = received /\ handed'[n] = handed[n] + 1
    BY <1>1 DEF TxRequest, rxVars, IInv, TypeOK
  <2>3. UnderWay(n) = [i \in 1..(handed[n] - r) |-> r + i]
    BY <2>0, <2>1 DEF UnderWay
  <2>4. UnderWay(n)' = [i \in 1..((handed[n] + 1) - r) |-> r + i]
    BY <2>0, <2>1, <2>2 DEF UnderWay
  <2>5. UnderWay(n)' = Append(UnderWay(n), handed[n] + 1)
    <3> HIDE DEF r
    <3>1. Append([i \in 1..(handed[n] - r) |-> r + i], handed[n] + 1)
            = [i \in 1..((handed[n] + 1) - r) |-> r + i]
      BY <2>0, <2>1, PipeAppend
    <3>. QED BY <2>3, <2>4, <3>1
  <2>6. PipeFrom(n)!Send(handed[n] + 1)
    BY <2>2, <2>5 DEF PipeFrom!Send
  <2>. QED BY <2>1, <2>6 DEF PipeFrom!Step, PipeFrom!Next
<1>2. CASE n # m
  <2>1. reported' = reported /\ received' = received /\ handed'[n] = handed[n]
    BY <1>2 DEF TxRequest, rxVars, IInv, TypeOK
  <2>. QED BY <2>1 DEF UnderWay, PipeFrom!Step
<1>. QED BY <1>1, <1>2

(* ... a report is the delivery of the packet, or its being discarded when it
   fits no buffer, ... *)
LEMMA ReportDelivers ==
  ASSUME IInv, NEW m \in Node, AckSent(m), NEW n \in Node
  PROVE  PipeFrom(n)!Step
<1> DEFINE r == reported[Peer[n]]
<1>1. CASE m = Peer[n]
  <2>0. /\ DataInv(n) /\ ReportInv(m) /\ MaxPackets[n] \in Nat /\ m \in Node
        /\ r \in Nat /\ handed[n] \in Nat /\ accepted[m] \in Nat
        /\ handed[n] <= MaxPackets[n]
    BY <1>1, Pairs, HciAssumption DEF IInv, TypeOK, NodeInv, SenderInv
  <2>1. r < handed[n] /\ r + 1 \in 1..MaxPackets[n] /\ accepted[m] = r + 1
    BY <1>1, <2>0 DEF DataInv, ReportInv, AckSent, RxGo
  <2>2. handed' = handed /\ reported'[m] = r + 1
    BY <1>1 DEF AckSent, txVars, IInv, TypeOK
  <2>3. UnderWay(n) = [i \in 1..(handed[n] - r) |-> r + i]
    BY <2>0, <2>1 DEF UnderWay
  <2>4. UnderWay(n)' = [i \in 1..(handed[n] - (r + 1)) |-> (r + 1) + i]
    BY <1>1, <2>0, <2>1, <2>2 DEF UnderWay
  <2>5. UnderWay(n) # <<>> /\ Head(UnderWay(n)) = r + 1 /\ UnderWay(n)' = Tail(UnderWay(n))
    BY <2>0, <2>1, <2>3, <2>4, PipeTake
  <2>6. CASE r + 1 \in TooLarge
    <3>1. received'[m] = received[m]
      BY <2>0, <2>1, <2>6 DEF AckSent, RxGo, ReportInv, IInv, TypeOK
    <3>. QED BY <1>1, <2>5, <2>6, <3>1 DEF PipeFrom!Step, PipeFrom!Next, PipeFrom!Discard
  <2>7. CASE r + 1 \notin TooLarge
    <3>1. received'[m] = r + 1
      BY <2>0, <2>1, <2>7 DEF AckSent, RxGo, ReportInv, IInv, TypeOK, NULL
    <3>. QED BY <1>1, <2>1, <2>5, <2>7, <3>1 DEF PipeFrom!Step, PipeFrom!Next,
    PipeFrom!Deliver
  <2>. QED BY <2>6, <2>7
<1>2. CASE m # Peer[n]
  <2>1. handed' = handed /\ reported'[Peer[n]] = r /\ received'[Peer[n]] = received[Peer[n]]
    BY <1>2, Pairs DEF AckSent, txVars, IInv, TypeOK
  <2>. QED BY <2>1 DEF UnderWay, PipeFrom!Step
<1>. QED BY <1>1, <1>2

(* ... and no other step of either end is one of the pipe. *)
LEMMA PipeStep == IInv /\ [Next]_vars => \A n \in Node : PipeFrom(n)!Step
<1>. SUFFICES ASSUME IInv, [Next]_vars, NEW n \in Node PROVE PipeFrom(n)!Step
  OBVIOUS
<1>1. CASE UNCHANGED <<handed, reported, received>>
  BY <1>1 DEF UnderWay, PipeFrom!Step
<1>2. ASSUME NEW m \in Node, TxRequest(m) PROVE PipeFrom(n)!Step
  BY <1>2, RequestSends
<1>3. ASSUME NEW m \in Node, AckSent(m) PROVE PipeFrom(n)!Step
  BY <1>3, ReportDelivers
<1>4. ASSUME NEW m \in Node, TxEvent(m) \/ PktSent(m) \/ PktSentAfterAck(m) \/ Timer(m)
      PROVE  UNCHANGED <<handed, reported, received>>
  BY <1>4 DEF TxEvent, PktSent, PktSentAfterAck, ReceiveAck, ReceiveAckEarly, IgnoreAck,
     Timer, TimerLoads, Retransmit, GiveUp
<1>5. ASSUME NEW m \in Node, RxEvent(m) \/ BufGranted(m) \/ NackSent(m)
      PROVE  UNCHANGED <<handed, reported, received>>
  BY <1>5 DEF RxEvent, IgnoreData, ReceiveData, ReceiveDuplicate, BufGranted, NackSent
<1>6. ASSUME NEW m \in Node, Reading(m) \/ HandlerReturns(m) \/ FrameOut(m) \/ Lose(m)
      PROVE  UNCHANGED <<handed, reported, received>>
  BY <1>6 DEF Reading, ReadAck, ReadData, ReadBegins, ReadBig, ReadNot, HandlerReturns,
     FrameOut, Lose
<1>7. CASE UNCHANGED vars
  BY <1>1, <1>7 DEF vars
<1>. QED
  BY <1>1, <1>2, <1>3, <1>4, <1>5, <1>6, <1>7 DEF Next, Goes, FrameEnds

(* In each direction packets arrive once and in order, whatever is lost. *)
THEOREM LinkIsPipe == Spec => ImplementsPipes
<1>1. ASSUME Init, NEW n \in Node PROVE PipeFrom(n)!Init
  <2>1. handed[n] = 0 /\ reported[Peer[n]] = 0 /\ received[Peer[n]] = NULL
    BY <1>1, Pairs DEF Init
  <2>2. UnderWay(n) = <<>>
    BY <2>1 DEF UnderWay
  <2>. QED BY <2>1, <2>2 DEF PipeFrom!Init
<1>2. IInv /\ [Next]_vars => [\A n \in Node : PipeFrom(n)!Step]_vars
  BY PipeStep
<1>3. Init => \A n \in Node : PipeFrom(n)!Init
  BY <1>1
<1>. QED BY <1>2, <1>3, Invariance, PTL DEF Spec, ImplementsPipes
=============================================================================
