-------------------------- MODULE SerPhyUartProofs --------------------------
(***************************************************************************)
(* Proofs about SerPhyUart, for every set of packets, every buffer size,   *)
(* every speed of the receiver and whatever a garbled header announces;    *)
(* and, if packets are freed in time, that it implements PacketPipe.       *)
(***************************************************************************)
EXTENDS SerPhyUart, TLAPS

(* The sending half: a byte in the transmitter belongs to a packet, and the
   index is that of the byte after it. *)
TxInv ==
  txd # None => /\ mp_tx_stream \in Packet
                /\ m_tx_stream_index \in 1..FrameLength(mp_tx_stream)

(* The receiving half: the header buffer holds what the index says, and the
   buffer what has been written of a packet it is large enough for. *)
RxInv ==
  /\ mp_rx_stream = "NULL" => m_rx_stream_index \in 0..2
  /\ m_rx_stream_index = 1 => Len(m_rx_length_buf) = 1
  /\ mp_rx_stream # "NULL" => m_rx_stream_index >= 2
  /\ mp_rx_stream = "m_rx_buffer" =>
       /\ Len(m_rx_buffer) = m_rx_stream_index - 2
       /\ m_rx_stream_length <= BufferSize + 2
       /\ m_rx_stream_index < m_rx_stream_length
  /\ rxState = "RECEIVED_PENDING_BUF_REQ" /\ ~fault =>
       2 < m_rx_stream_length /\ m_rx_stream_length <= BufferSize + 2

IInv == TypeOK /\ TxInv /\ RxInv /\ StreamAgrees /\ PacketUntouched
-----------------------------------------------------------------------------
LEMMA Tables ==
  /\ DOMAIN rx_pkt_free = {"RECEIVED", "RECEIVED_DROPPING", "RECEIVED_PENDING_BUF_REQ"}
  /\ DOMAIN PktDropped = {"DROPPING", "RECEIVED_DROPPING"}
  /\ Step(PktReceived, rxState) <=> rxState = "RECEIVING" /\ rxState' = "RECEIVED"
  /\ Step(PktDropped, rxState) <=>
       \/ rxState = "DROPPING" /\ rxState' = "IDLE"
       \/ rxState = "RECEIVED_DROPPING" /\ rxState' = "RECEIVED"
  /\ Step(rx_pkt_free, rxState) <=>
       \/ rxState = "RECEIVED" /\ rxState' = "IDLE"
       \/ rxState = "RECEIVED_DROPPING" /\ rxState' = "DROPPING"
       \/ rxState = "RECEIVED_PENDING_BUF_REQ" /\ rxState' = "RECEIVING"
  /\ Step(BufRequested(TRUE), rxState) <=>
       \/ rxState = "IDLE" /\ rxState' = "RECEIVING"
       \/ rxState = "RECEIVED" /\ rxState' = "RECEIVED_PENDING_BUF_REQ"
  /\ Step(BufRequested(FALSE), rxState) <=>
       \/ rxState = "IDLE" /\ rxState' = "DROPPING"
       \/ rxState = "RECEIVED" /\ rxState' = "RECEIVED_DROPPING"
  /\ BufRequested(TRUE)["RECEIVED"] = "RECEIVED_PENDING_BUF_REQ"
  /\ PktReceived[BufRequested(TRUE)["IDLE"]] = "RECEIVED"
  BY DEF Step, rx_pkt_free, PktDropped, PktReceived, BufRequested

LEMMA TxTables ==
  /\ Step(tx_pkt_alloc, txState) <=> txState = "IDLE" /\ txState' = "TX_ALLOCATED"
  /\ Step(tx_pkt_send, txState) <=> txState = "TX_ALLOCATED" /\ txState' = "TRANSMITTING"
  /\ Step(TxPktSent, txState) <=> txState = "TRANSMITTING" /\ txState' = "IDLE"
  BY DEF Step, tx_pkt_alloc, tx_pkt_send, TxPktSent

(* The length of a frame counts its header, and its bytes are Bytes. *)
LEMMA FrameBytes ==
  ASSUME NEW p \in Packet
  PROVE  /\ FrameLength(p) \in Nat /\ FrameLength(p) >= 3
         /\ \A i \in 0..FrameLength(p) - 1 : <<p, i>> \in Byte
<1>1. Size[p] \in 1..UINT16_MAX - 2
  BY PhyAssumption DEF SER_PHY_HEADER_SIZE
<1>2. FrameLength(p) \in Nat /\ FrameLength(p) >= 3
  BY <1>1 DEF FrameLength, SER_PHY_HEADER_SIZE
<1>3. ASSUME NEW i \in 0..FrameLength(p) - 1 PROVE <<p, i>> \in Byte
  BY <1>3 DEF Byte
<1> QED BY <1>2, <1>3

(* A decoded header is a uint16_t, whether it was one or not. *)
LEMMA DecodedIsUint16 ==
  ASSUME NEW b0 \in Byte, NEW b1, NEW n \in DecodedLengths(b0, b1)
  PROVE  n \in 0..UINT16_MAX
<1>1. b0[1] \in Packet
  BY DEF Byte
<1> QED BY <1>1, PhyAssumption DEF DecodedLengths, SER_PHY_HEADER_SIZE

(* The packets on the line, whatever happens to them. *)
LEMMA UnderwayType ==
  ASSUME TypeOK, UNCHANGED underway \/ Ends \/ \E p \in Packet : Begins(p)
  PROVE  underway' \in Seq(Packet)
<1>1. underway \in Seq(Packet)
  BY DEF TypeOK
<1>2. SubSeq(underway, 2, Len(underway)) \in Seq(Packet)
  BY <1>1
<1>3. \A p \in Packet : Append(underway, p) \in Seq(Packet)
  BY <1>1
<1> QED BY <1>1, <1>2, <1>3 DEF Ends, Begins
-----------------------------------------------------------------------------
LEMMA InitIInv == Init => IInv
<1> SUFFICES ASSUME Init PROVE IInv
    OBVIOUS
<1> USE DEF Init, ser_hal_transport_opened
<1>1. TypeOK
  <2>1. <<>> \in Seq(Byte) /\ Len(<<>>) = 0
    OBVIOUS
  <2>2. 0 <= RxdDepth /\ 0 <= BufferSize
    BY PhyAssumption DEF SER_PHY_HEADER_SIZE
  <2>3. <<>> \in Seq(Packet)
    OBVIOUS
  <2> QED BY <2>1, <2>2, <2>3 DEF TypeOK, RxState, TxState
<1>2. TxInv /\ RxInv
  BY DEF TxInv, RxInv
<1>3. StreamAgrees /\ PacketUntouched
  BY Tables DEF StreamAgrees, PacketUntouched, SER_PHY_HEADER_SIZE
<1> QED BY <1>1, <1>2, <1>3 DEF IInv

(* The sending half goes through its frame one byte at a time. *)
LEMMA StepTx == IInv /\ Next => TxInv' /\ (txd \in Byte \cup {None})'
<1> SUFFICES ASSUME IInv, Next PROVE TxInv' /\ (txd \in Byte \cup {None})'
    OBVIOUS
<1> USE TxTables DEF IInv, TypeOK, TxInv
<1>1. ASSUME NEW p \in Packet, TxSend(p) PROVE TxInv' /\ txd' \in Byte
  BY <1>1, FrameBytes DEF TxSend
<1>2. CASE TxNext
  <2>1. /\ mp_tx_stream \in Packet
        /\ m_tx_stream_index \in 1..FrameLength(mp_tx_stream) - 1
    BY <1>2, FrameBytes DEF TxNext, TxdReady
  <2>2. txd' \in Byte
    BY <1>2, <2>1, FrameBytes DEF TxNext
  <2> QED BY <1>2, <2>1, <2>2, FrameBytes DEF TxNext
<1>3. CASE TxPacketSent
  BY <1>3 DEF TxPacketSent
<1>4. CASE TxAlloc \/ RxPktFree \/ RxStep
  <2>1. UNCHANGED <<mp_tx_stream, m_tx_stream_index, txd>>
    BY <1>4 DEF TxAlloc, RxPktFree, RxStep, HeaderByte, BufRequest, EmptyPacket,
                ByteDiscarded, PayloadByte, PacketReceived, PacketDropped, txVars
  <2> QED BY <2>1
<1> QED BY <1>1, <1>2, <1>3, <1>4 DEF Next, TxStep

(* What a reception step finds, and leaves of the bytes in the receiver. *)
LEMMA ReceiveType ==
  ASSUME TypeOK, Receive
  PROVE  Head(rxd) \in Byte /\ rxd' \in Seq(Byte) /\ Len(rxd') <= RxdDepth
<1>1. rxd \in Seq(Byte) /\ rxd # <<>> /\ rxd' = Tail(rxd) /\ Len(rxd) <= RxdDepth
  BY DEF TypeOK, Receive
<1>2. RxdDepth \in Nat
  BY PhyAssumption
<1> QED BY <1>1, <1>2

(* The lengths a request announces, and when the buffer is granted for them. *)
LEMMA RequestFacts ==
  ASSUME IInv, HeaderComplete,
         NEW n \in DecodedLengths(m_rx_length_buf[1], Head(rxd))
  PROVE  /\ n \in 0..UINT16_MAX
         /\ (n + 2) % (UINT16_MAX + 1) \in Nat
         /\ n <= BufferSize => (n + 2) % (UINT16_MAX + 1) = n + 2
<1>1. m_rx_length_buf[1] \in Byte
  BY DEF IInv, TypeOK, RxInv, HeaderComplete
<1>2. n \in 0..UINT16_MAX
  BY <1>1, DecodedIsUint16
<1>3. (n + 2) % (UINT16_MAX + 1) \in Nat
  BY <1>2, PhyAssumption
<1>4. ASSUME n <= BufferSize PROVE (n + 2) % (UINT16_MAX + 1) = n + 2
  <2>1. n + 2 \in 0..UINT16_MAX
    BY <1>2, <1>4, PhyAssumption DEF SER_PHY_HEADER_SIZE
  <2> QED BY <2>1, PhyAssumption
<1> QED BY <1>2, <1>3, <1>4
-----------------------------------------------------------------------------
(* The receiving half as a whole: the conjuncts a reception step can disturb. *)
RxGood ==
  /\ TypeOK /\ RxInv /\ StreamAgrees /\ PacketUntouched

(* The sending half touches nothing of it but the bytes on their way. *)
LEMMA SendKeepsRx ==
  ASSUME IInv, TxStep \/ TxAlloc \/ \E p \in Packet : TxSend(p)
  PROVE  RxGood'
<1> USE TxTables DEF IInv
<1>1. UNCHANGED <<rxState, rxInt, mp_rx_stream, m_rx_stream_index, m_rx_stream_length,
                  m_rx_length_buf, rxEvent, m_rx_buffer, received, fault>>
  BY DEF TxStep, TxNext, TxPacketSent, TxAlloc, TxSend, rxVars, rxStream
<1>2. rxd' \in Seq(Byte) /\ Len(rxd') <= RxdDepth
  <2>1. CASE TxStep
    <3>1. txd \in Byte /\ Len(rxd) < RxdDepth /\ rxd' = Append(rxd, txd)
      BY <2>1 DEF TxStep, TxNext, TxPacketSent, TxdReady, TypeOK
    <3> QED BY <3>1, PhyAssumption DEF TypeOK
  <2>2. CASE ~TxStep
    BY <2>2 DEF TxAlloc, TxSend, rxVars, TypeOK
  <2> QED BY <2>1, <2>2
<1>3. txState' \in TxState \ {"CLOSED"} /\ mp_tx_stream' \in Packet \cup {None}
      /\ m_tx_stream_index' \in Nat
  BY DEF TxStep, TxNext, TxPacketSent, TxAlloc, TxSend, TypeOK, TxState
<1>4. TypeOK'
  <2>1. (txd \in Byte \cup {None})'
    BY StepTx DEF Next
  <2>2. underway' \in Seq(Packet)
    BY UnderwayType DEF TxStep, TxNext, TxPacketSent, TxAlloc, TxSend
  <2> QED BY <1>1, <1>2, <1>3, <2>1, <2>2 DEF TypeOK
<1>5. RxInv' /\ StreamAgrees' /\ PacketUntouched'
  BY <1>1 DEF RxInv, StreamAgrees, PacketUntouched
<1> QED BY <1>4, <1>5 DEF RxGood

(* A header byte, and a byte that is discarded, only move the index. *)
LEMMA HeaderKeepsRx == IInv /\ (HeaderByte \/ ByteDiscarded) => RxGood'
<1> SUFFICES ASSUME IInv, HeaderByte \/ ByteDiscarded PROVE RxGood'
    OBVIOUS
<1> USE Tables DEF IInv, SER_PHY_HEADER_SIZE
<1>1. TypeOK
  OBVIOUS
<1>2. Head(rxd) \in Byte /\ rxd' \in Seq(Byte) /\ Len(rxd') <= RxdDepth
  BY <1>1, ReceiveType DEF HeaderByte, ByteDiscarded
<1>3. CASE HeaderByte
  <2> USE <1>3 DEF HeaderByte, txVars, nrf_drv_uart_rx
  <2>1. m_rx_length_buf' \in Seq(Byte) /\ Len(m_rx_length_buf') = 1
    BY <1>2
  <2>2. TypeOK'
    BY <1>1, <1>2, <2>1 DEF TypeOK
  <2>3. RxInv' /\ StreamAgrees' /\ PacketUntouched'
    BY <2>1 DEF RxInv, StreamAgrees, PacketUntouched, Receive
  <2> QED BY <2>2, <2>3 DEF RxGood
<1>4. CASE ByteDiscarded
  <2> USE <1>4 DEF ByteDiscarded, txVars, nrf_drv_uart_rx, rxStream
  <2>1. TypeOK'
    BY <1>1, <1>2 DEF TypeOK
  <2>2. RxInv' /\ StreamAgrees' /\ PacketUntouched'
    BY DEF RxInv, StreamAgrees, PacketUntouched, Receive
  <2> QED BY <2>1, <2>2 DEF RxGood
<1> QED BY <1>3, <1>4

(* A complete header: the transport's state says what the PHY was granted. *)
LEMMA RequestKeepsRx == IInv /\ BufRequest => RxGood'
<1> SUFFICES ASSUME IInv, BufRequest PROVE RxGood'
    OBVIOUS
<1> USE Tables DEF IInv, SER_PHY_HEADER_SIZE
<1>1. PICK n \in DecodedLengths(m_rx_length_buf[1], Head(rxd)) \ {0} :
        /\ Step(BufRequested(Fits(n)), rxState)
        /\ mp_rx_stream' = StreamFor(n)
        /\ m_rx_stream_length' = (n + 2) % (UINT16_MAX + 1)
  BY DEF BufRequest
<1>2. HeaderComplete
  BY DEF BufRequest
<1>3. /\ n \in 1..UINT16_MAX /\ m_rx_stream_length' \in Nat
      /\ n <= BufferSize => m_rx_stream_length' = n + 2
  BY <1>1, <1>2, RequestFacts
<1>4. Head(rxd) \in Byte /\ rxd' \in Seq(Byte) /\ Len(rxd') <= RxdDepth
  BY <1>2, ReceiveType DEF HeaderComplete
<1>5. m_rx_length_buf' \in Seq(Byte)
  BY <1>2, <1>4 DEF HeaderComplete, TypeOK
<1>6. /\ m_rx_stream_index' = 2 /\ rxEvent' = "RX_BUF_REQUEST" /\ rxInt' = TRUE
      /\ m_rx_buffer' = IF mp_rx_stream' = "m_rx_buffer" THEN <<>> ELSE m_rx_buffer
      /\ UNCHANGED <<txState, mp_tx_stream, m_tx_stream_index, txd, received, fault>>
      /\ ~fault
  BY <1>2 DEF BufRequest, nrf_drv_uart_rx, txVars, HeaderComplete, Receive
<1>7. Fits(n) <=> n <= BufferSize
  BY DEF Fits
<1>8. \/ n <= BufferSize /\ rxState = "IDLE" /\ rxState' = "RECEIVING"
         /\ mp_rx_stream' = "m_rx_buffer" /\ m_rx_buffer' = <<>>
      \/ n <= BufferSize /\ rxState = "RECEIVED"
         /\ rxState' = "RECEIVED_PENDING_BUF_REQ" /\ mp_rx_stream' = "NULL"
         /\ m_rx_buffer' = m_rx_buffer
      \/ n > BufferSize /\ rxState = "IDLE" /\ rxState' = "DROPPING"
         /\ mp_rx_stream' = "m_rx_drop_buf" /\ m_rx_buffer' = m_rx_buffer
      \/ n > BufferSize /\ rxState = "RECEIVED" /\ rxState' = "RECEIVED_DROPPING"
         /\ mp_rx_stream' = "m_rx_drop_buf" /\ m_rx_buffer' = m_rx_buffer
  <2>1. CASE n <= BufferSize
    <3>1. Fits(n) = TRUE
      BY <2>1 DEF Fits
    <3> QED BY <1>1, <1>6, <2>1, <3>1 DEF StreamFor
  <2>2. CASE n > BufferSize
    <3>1. Fits(n) = FALSE
      BY <1>3, <2>2, PhyAssumption DEF Fits
    <3> QED BY <1>1, <1>6, <2>2, <3>1 DEF StreamFor
  <2> QED BY <1>3, <2>1, <2>2, PhyAssumption
<1>9. TypeOK'
  <2>1. m_rx_buffer' \in Seq(Byte) /\ Len(m_rx_buffer') <= BufferSize
    <3>1. <<>> \in Seq(Byte) /\ Len(<<>>) = 0 /\ 0 <= BufferSize
      BY PhyAssumption
    <3> QED BY <1>6, <3>1 DEF TypeOK
  <2>2. rxState' \in RxState \ {"CLOSED"}
        /\ mp_rx_stream' \in {"NULL", "m_rx_buffer", "m_rx_drop_buf"}
    BY <1>8 DEF RxState
  <2>3. underway' \in Seq(Packet)
    BY UnderwayType DEF BufRequest
  <2> QED BY <1>3, <1>4, <1>5, <1>6, <2>1, <2>2, <2>3 DEF TypeOK
<1>10. RxInv'
  <2>1. m_rx_stream_index' = 2 /\ BufferSize \in Nat
    BY <1>6, PhyAssumption
  <2>2. Len(<<>>) = 0
    OBVIOUS
  <2> QED BY <1>3, <1>8, <2>1, <2>2 DEF RxInv
<1>11. StreamAgrees'
  <2>1. n <= BufferSize => m_rx_stream_length' = n + 2 /\ 2 \in 2..m_rx_stream_length' - 1
    BY <1>3
  <2>2. m_rx_stream_index' = 2 /\ rxEvent' = "RX_BUF_REQUEST"
    BY <1>6
  <2> QED BY <1>8, <2>1, <2>2 DEF StreamAgrees
<1>12. PacketUntouched'
  BY <1>6, <1>8 DEF PacketUntouched
<1> QED BY <1>9, <1>10, <1>11, <1>12 DEF RxGood

(* A packet without payload either is handed up at once or is fatal. *)
LEMMA EmptyKeepsRx == IInv /\ EmptyPacket => RxGood'
<1> SUFFICES ASSUME IInv, EmptyPacket PROVE RxGood'
    OBVIOUS
<1> USE Tables DEF IInv, SER_PHY_HEADER_SIZE, EmptyPacket, StreamCleared, txVars
<1>1. HeaderComplete /\ ~fault
  BY DEF HeaderComplete, Receive
<1>2. Head(rxd) \in Byte /\ rxd' \in Seq(Byte) /\ Len(rxd') <= RxdDepth
  BY <1>1, ReceiveType DEF HeaderComplete
<1>3. m_rx_length_buf' \in Seq(Byte)
  BY <1>1, <1>2 DEF HeaderComplete, TypeOK
<1>4. \/ rxState' = "RECEIVED" /\ m_rx_buffer' = <<>> /\ received' = <<>> /\ fault' = fault
      \/ rxState' = "RECEIVED_PENDING_BUF_REQ" /\ fault' = TRUE
         /\ UNCHANGED <<m_rx_buffer, received>>
  OBVIOUS
<1>5. TypeOK'
  <2>1. <<>> \in Seq(Byte) /\ Len(<<>>) = 0 /\ 0 <= BufferSize
    BY PhyAssumption
  <2>2. m_rx_buffer' \in Seq(Byte) /\ Len(m_rx_buffer') <= BufferSize
        /\ received' \in Seq(Byte) /\ fault' \in BOOLEAN
    BY <1>4, <2>1 DEF TypeOK
  <2>3. rxState' \in RxState \ {"CLOSED"}
    BY <1>4 DEF RxState
  <2> QED BY <1>2, <1>3, <2>2, <2>3 DEF TypeOK, nrf_drv_uart_rx
<1>6. RxInv' /\ StreamAgrees' /\ PacketUntouched'
  BY <1>4 DEF RxInv, StreamAgrees, PacketUntouched
<1> QED BY <1>5, <1>6 DEF RxGood

(* A byte of the payload: the buffer has room for it, for the length of the
   frame was compared with its size before it was granted. *)
LEMMA WriteFits ==
  ASSUME IInv, Write
  PROVE  /\ Head(rxd) \in Byte /\ rxd' \in Seq(Byte) /\ Len(rxd') <= RxdDepth
         /\ m_rx_buffer' \in Seq(Byte) /\ Len(m_rx_buffer') <= BufferSize
         /\ mp_rx_stream = "m_rx_buffer" => Len(m_rx_buffer') = m_rx_stream_index - 1
         /\ mp_rx_stream # "m_rx_buffer" => m_rx_buffer' = m_rx_buffer
         /\ rxInt' = TRUE
<1> USE DEF IInv, Write
<1>1. Head(rxd) \in Byte /\ rxd' \in Seq(Byte) /\ Len(rxd') <= RxdDepth
  BY ReceiveType
<1>2. BufferSize \in Nat
  BY PhyAssumption DEF SER_PHY_HEADER_SIZE
<1>3. CASE mp_rx_stream = "m_rx_buffer"
  <2>1. /\ m_rx_buffer \in Seq(Byte) /\ m_rx_buffer' = Append(m_rx_buffer, Head(rxd))
        /\ Len(m_rx_buffer) = m_rx_stream_index - 2
        /\ m_rx_stream_index < m_rx_stream_length /\ m_rx_stream_length <= BufferSize + 2
        /\ m_rx_stream_index \in Nat /\ m_rx_stream_length \in Nat
    BY <1>3 DEF TypeOK, RxInv
  <2>2. m_rx_buffer' \in Seq(Byte) /\ Len(m_rx_buffer') = Len(m_rx_buffer) + 1
    BY <1>1, <2>1
  <2> QED BY <1>1, <1>2, <1>3, <2>1, <2>2 DEF nrf_drv_uart_rx
<1>4. CASE mp_rx_stream # "m_rx_buffer"
  BY <1>1, <1>4 DEF TypeOK, nrf_drv_uart_rx
<1> QED BY <1>3, <1>4

LEMMA PayloadKeepsRx == IInv /\ PayloadByte => RxGood'
<1> SUFFICES ASSUME IInv, PayloadByte PROVE RxGood'
    OBVIOUS
<1> USE Tables DEF IInv, SER_PHY_HEADER_SIZE, PayloadByte, txVars
<1>1. /\ Head(rxd) \in Byte /\ rxd' \in Seq(Byte) /\ Len(rxd') <= RxdDepth
      /\ m_rx_buffer' \in Seq(Byte) /\ Len(m_rx_buffer') <= BufferSize
      /\ mp_rx_stream = "m_rx_buffer" => Len(m_rx_buffer') = m_rx_stream_index - 1
      /\ mp_rx_stream # "m_rx_buffer" => m_rx_buffer' = m_rx_buffer
      /\ rxInt' = TRUE /\ mp_rx_stream # "NULL" /\ ~fault
  BY WriteFits DEF Write, Receive
<1>2. m_rx_stream_index \in Nat /\ m_rx_stream_index' = m_rx_stream_index + 1
      /\ m_rx_stream_index >= 2 /\ m_rx_stream_index' < m_rx_stream_length
  BY <1>1 DEF TypeOK, RxInv
<1>3. TypeOK' /\ RxInv'
  <2>1. TypeOK'
    BY <1>1, <1>2 DEF TypeOK
  <2>2. RxInv'
    BY <1>1, <1>2 DEF RxInv, TypeOK, StreamAgrees
  <2> QED BY <2>1, <2>2
<1>4. StreamAgrees'
  BY <1>1, <1>2 DEF StreamAgrees, RxInv, TypeOK
<1>5. PacketUntouched'
  BY <1>1 DEF StreamAgrees, PacketUntouched
<1> QED BY <1>3, <1>4, <1>5 DEF RxGood

LEMMA LastByteKeepsRx == IInv /\ (PacketReceived \/ PacketDropped) => RxGood'
<1> SUFFICES ASSUME IInv, PacketReceived \/ PacketDropped PROVE RxGood'
    OBVIOUS
<1> USE Tables DEF IInv, SER_PHY_HEADER_SIZE, StreamCleared, txVars
<1>1. /\ Head(rxd) \in Byte /\ rxd' \in Seq(Byte) /\ Len(rxd') <= RxdDepth
      /\ m_rx_buffer' \in Seq(Byte) /\ Len(m_rx_buffer') <= BufferSize
      /\ mp_rx_stream # "m_rx_buffer" => m_rx_buffer' = m_rx_buffer
      /\ rxInt' = TRUE /\ ~fault
  BY WriteFits DEF PacketReceived, PacketDropped, Write, Receive
<1> underway' \in Seq(Packet)
    BY UnderwayType DEF PacketReceived, PacketDropped
<1>2. CASE PacketReceived
  <2> USE <1>2 DEF PacketReceived
  <2>1. rxState' = "RECEIVED" /\ received' = m_rx_buffer'
    OBVIOUS
  <2>2. TypeOK'
    BY <1>1, <2>1 DEF TypeOK, RxState
  <2>3. RxInv' /\ StreamAgrees' /\ PacketUntouched'
    BY <2>1 DEF RxInv, StreamAgrees, PacketUntouched
  <2> QED BY <2>2, <2>3 DEF RxGood
<1>3. CASE PacketDropped
  <2> USE <1>3 DEF PacketDropped
  <2>1. rxState' \in RxState \ {"CLOSED"} /\ fault' \in BOOLEAN
    BY DEF RxState, TypeOK
  <2>2. TypeOK'
    BY <1>1, <2>1 DEF TypeOK
  <2>3. fault' \/ (rxState = "DROPPING" /\ rxState' = "IDLE")
               \/ (rxState = "RECEIVED_DROPPING" /\ rxState' = "RECEIVED")
    OBVIOUS
  <2>4. rxState' # "RECEIVED_PENDING_BUF_REQ"
    BY <1>1, <2>3 DEF StreamAgrees
  <2>5. RxInv' /\ StreamAgrees' /\ PacketUntouched'
    BY <1>1, <2>3, <2>4 DEF RxInv, StreamAgrees, PacketUntouched
  <2> QED BY <2>2, <2>5 DEF RxGood
<1> QED BY <1>2, <1>3

(* The buffer is freed, or handed on to the request that waits for it. *)
LEMMA FreeKeepsRx == IInv /\ RxPktFree => RxGood'
<1> SUFFICES ASSUME IInv, RxPktFree PROVE RxGood'
    OBVIOUS
<1> USE Tables DEF IInv, SER_PHY_HEADER_SIZE, RxPktFree, txVars
<1>1. CASE rxState = "RECEIVED_PENDING_BUF_REQ"
  <2> USE <1>1
  <2>1. <<>> \in Seq(Byte) /\ Len(<<>>) = 0 /\ 0 <= BufferSize
    BY PhyAssumption
  <2>2. TypeOK'
    BY <2>1 DEF TypeOK, RxState
  <2>3. /\ mp_rx_stream = "NULL" /\ m_rx_stream_index = 2
        /\ 2 < m_rx_stream_length /\ m_rx_stream_length <= BufferSize + 2
        /\ m_rx_stream_length \in Nat
    BY DEF StreamAgrees, RxInv, TypeOK
  <2>4. RxInv' /\ StreamAgrees' /\ PacketUntouched'
    BY <2>1, <2>3 DEF RxInv, StreamAgrees, PacketUntouched
  <2> QED BY <2>2, <2>4 DEF RxGood
<1>2. CASE rxState # "RECEIVED_PENDING_BUF_REQ"
  <2> USE <1>2
  <2>1. TypeOK'
    BY DEF TypeOK, RxState
  <2>2. RxInv' /\ StreamAgrees' /\ PacketUntouched'
    BY DEF RxInv, StreamAgrees, PacketUntouched
  <2> QED BY <2>1, <2>2 DEF RxGood
<1> QED BY <1>1, <1>2
-----------------------------------------------------------------------------
LEMMA StepIInv == IInv /\ [Next]_vars => IInv'
<1> SUFFICES ASSUME IInv, [Next]_vars PROVE IInv'
    OBVIOUS
<1>1. CASE UNCHANGED vars
  BY <1>1 DEF IInv, TypeOK, TxInv, RxInv, StreamAgrees, PacketUntouched, vars, txVars,
              rxVars, rxStream
<1>2. CASE Next
  <2>1. TxInv'
    BY <1>2, StepTx
  <2>2. RxGood'
    BY <1>2, SendKeepsRx, HeaderKeepsRx, RequestKeepsRx, EmptyKeepsRx, PayloadKeepsRx,
       LastByteKeepsRx, FreeKeepsRx DEF Next, RxStep
  <2> QED BY <2>1, <2>2 DEF IInv, RxGood
<1> QED BY <1>1, <1>2

LEMMA Invariance == Spec => []IInv
  BY InitIInv, StepIInv, PTL DEF Spec

(* The variables keep their types: no packet is written beyond the end of the
   reception buffer, whatever length its header announces. *)
THEOREM TypeCorrect == Spec => []TypeOK
<1>1. IInv => TypeOK
  BY DEF IInv
<1> QED BY <1>1, Invariance, PTL

(* The state machines of ser_phy_nrf51_uart.c and ser_hal_transport.c stay in
   step, whatever bytes arrive and however late the upper layer is. *)
THEOREM LayersAgree == Spec => []StreamAgrees
<1>1. IInv => StreamAgrees
  BY DEF IInv
<1> QED BY <1>1, Invariance, PTL

(* Nothing is written over a packet the upper layer has not freed. *)
THEOREM PacketsAreUntouched == Spec => []PacketUntouched
<1>1. IInv => PacketUntouched
  BY DEF IInv
<1> QED BY <1>1, Invariance, PTL
-----------------------------------------------------------------------------
(* Bytes w on the line are those of the packets u, in order: the i-th byte belongs
   to the packet at[i], the bytes of a packet follow each other, and the last byte
   of one is followed by the first of the next. *)
Placed(w, at, u) ==
  /\ at \in Seq(Nat) /\ Len(at) = Len(w)
  /\ \A i \in 1..Len(w) : at[i] \in 1..Len(u) /\ w[i][1] = u[at[i]]
  /\ \A i, j \in 1..Len(w) : i <= j => at[i] <= at[j]
  /\ \A i \in 1..Len(w) - 1 :
       IF w[i][2] + 1 < FrameLength(w[i][1])
       THEN w[i + 1][2] = w[i][2] + 1 /\ at[i + 1] = at[i]
       ELSE w[i + 1][2] = 0 /\ at[i + 1] = at[i] + 1
  /\ w # <<>> => at[1] = 1 /\ at[Len(w)] = Len(u)
  /\ w = <<>> => u = <<>>

LEMMA ByteParts ==
  ASSUME NEW b \in Byte
  PROVE  /\ b[1] \in Packet /\ b[2] \in Nat /\ b[2] < FrameLength(b[1])
         /\ b = <<b[1], b[2]>> /\ FrameLength(b[1]) \in Nat /\ FrameLength(b[1]) >= 3
<1>1. PICK p \in Packet : b \in {p} \X (0..FrameLength(p) - 1)
  BY DEF Byte
<1>2. FrameLength(p) \in Nat /\ FrameLength(p) >= 3
  BY FrameBytes
<1> QED BY <1>1, <1>2

LEMMA AppendFacts ==
  ASSUME NEW S, NEW s \in Seq(S), NEW x \in S
  PROVE  /\ Append(s, x) \in Seq(S) /\ Len(Append(s, x)) = Len(s) + 1 /\ Append(s, x) # <<>>
         /\ Append(s, x)[Len(s) + 1] = x /\ \A i \in 1..Len(s) : Append(s, x)[i] = s[i]
  OBVIOUS

LEMMA TailFacts ==
  ASSUME NEW S, NEW s \in Seq(S), s # <<>>
  PROVE  /\ Tail(s) \in Seq(S) /\ Len(Tail(s)) = Len(s) - 1 /\ Len(s) \in Nat /\ Len(s) >= 1
         /\ Head(s) = s[1] /\ \A i \in 1..Len(s) - 1 : Tail(s)[i] = s[i + 1]
         /\ (Tail(s) = <<>>) <=> (Len(s) = 1)
<1>1. /\ Tail(s) \in Seq(S) /\ Len(Tail(s)) = Len(s) - 1 /\ Len(s) \in Nat /\ Len(s) >= 1
      /\ Head(s) = s[1] /\ \A i \in 1..Len(s) - 1 : Tail(s)[i] = s[i + 1]
  OBVIOUS
<1> DEFINE t == Tail(s)
<1>2. t \in Seq(S) /\ Len(t) = Len(s) - 1
  BY <1>1
<1> HIDE DEF t
<1>3. (t = <<>>) <=> (Len(s) = 1)
  BY <1>1, <1>2
<1> QED BY <1>1, <1>3 DEF t

(* A packet is begun when the one before it is complete. *)
LEMMA PlacedBegin ==
  ASSUME NEW w \in Seq(Byte), NEW at, NEW u \in Seq(Packet), NEW p \in Packet,
         Placed(w, at, u),
         w # <<>> => w[Len(w)][2] + 1 = FrameLength(w[Len(w)][1])
  PROVE  Placed(Append(w, <<p, 0>>), Append(at, Len(u) + 1), Append(u, p))
<1> DEFINE v == Append(w, <<p, 0>>)
           to == Append(at, Len(u) + 1)
           z == Append(u, p)
<1>1. <<p, 0>> \in Byte
  BY FrameBytes
<1>2. /\ at \in Seq(Nat) /\ Len(at) = Len(w) /\ Len(w) \in Nat /\ Len(u) \in Nat
      /\ Len(u) + 1 \in Nat
  BY DEF Placed
<1>3. /\ v \in Seq(Byte) /\ Len(v) = Len(w) + 1 /\ v[Len(w) + 1] = <<p, 0>> /\ v # <<>>
      /\ \A i \in 1..Len(w) : v[i] = w[i]
  BY <1>1, AppendFacts
<1>4. /\ to \in Seq(Nat) /\ Len(to) = Len(w) + 1 /\ to[Len(w) + 1] = Len(u) + 1
      /\ \A i \in 1..Len(w) : to[i] = at[i]
  BY <1>2, AppendFacts
<1>5. /\ Len(z) = Len(u) + 1 /\ z[Len(u) + 1] = p /\ \A i \in 1..Len(u) : z[i] = u[i]
  BY AppendFacts
<1> HIDE DEF v, to, z
<1>6. ASSUME NEW i \in 1..Len(v) PROVE to[i] \in 1..Len(z) /\ v[i][1] = z[to[i]]
  <2>1. CASE i \in 1..Len(w)
    <3>1. at[i] \in 1..Len(u) /\ w[i][1] = u[at[i]]
      BY <2>1 DEF Placed
    <3>2. z[at[i]] = u[at[i]] /\ at[i] \in 1..Len(u) + 1
      BY <1>2, <1>5, <3>1
    <3> QED BY <1>3, <1>4, <1>5, <2>1, <3>1, <3>2
  <2>2. CASE i = Len(w) + 1
    BY <1>2, <1>3, <1>4, <1>5, <2>2
  <2> QED BY <1>2, <1>3, <2>1, <2>2
<1>7. ASSUME NEW i \in 1..Len(v), NEW j \in 1..Len(v), i <= j PROVE to[i] <= to[j]
  <2>1. CASE j \in 1..Len(w)
    <3>1. i \in 1..Len(w)
      BY <1>2, <1>3, <1>7, <2>1
    <3> QED BY <1>4, <1>7, <2>1, <3>1 DEF Placed
  <2>2. CASE j = Len(w) + 1
    <3>1. to[i] \in 1..Len(u) + 1
      BY <1>5, <1>6
    <3> QED BY <1>2, <1>4, <2>2, <3>1
  <2> QED BY <1>2, <1>3, <2>1, <2>2
<1>8. ASSUME NEW i \in 1..Len(v) - 1
      PROVE  IF v[i][2] + 1 < FrameLength(v[i][1])
             THEN v[i + 1][2] = v[i][2] + 1 /\ to[i + 1] = to[i]
             ELSE v[i + 1][2] = 0 /\ to[i + 1] = to[i] + 1
  <2>1. i \in 1..Len(w) /\ v[i] = w[i] /\ to[i] = at[i]
    BY <1>2, <1>3, <1>4
  <2>2. CASE i \in 1..Len(w) - 1
    <3>1. i + 1 \in 1..Len(w)
      BY <1>2, <2>2
    <3> QED BY <1>3, <1>4, <2>1, <2>2, <3>1 DEF Placed
  <2>3. CASE i = Len(w)
    <3>1. w # <<>>
      BY <1>2, <2>1, <2>3
    <3>2. w[i][2] + 1 = FrameLength(w[i][1]) /\ at[i] = Len(u)
      BY <2>3, <3>1 DEF Placed
    <3>3. FrameLength(w[i][1]) \in Nat
      BY <2>1, ByteParts
    <3>4. v[i + 1] = <<p, 0>> /\ to[i + 1] = Len(u) + 1
      BY <1>3, <1>4, <2>3
    <3> QED BY <2>1, <3>2, <3>3, <3>4
  <2> QED BY <1>2, <2>1, <2>2, <2>3
<1>9. to[1] = 1 /\ to[Len(v)] = Len(z)
  <2>1. CASE w = <<>>
    <3>1. Len(w) = 0 /\ Len(u) = 0
      BY <2>1 DEF Placed
    <3> QED BY <1>3, <1>4, <1>5, <3>1
  <2>2. CASE w # <<>>
    <3>1. 1 \in 1..Len(w) /\ at[1] = 1
      BY <2>2 DEF Placed
    <3> QED BY <1>3, <1>4, <1>5, <3>1
  <2> QED BY <2>1, <2>2
<1>10. Placed(v, to, z)
  BY <1>3, <1>4, <1>6, <1>7, <1>8, <1>9 DEF Placed
<1> QED BY <1>10 DEF v, to, z

(* The next byte of the packet whose transmission goes on. *)
LEMMA PlacedNext ==
  ASSUME NEW w \in Seq(Byte), NEW at, NEW u \in Seq(Packet), Placed(w, at, u), w # <<>>,
         NEW p \in Packet, NEW k \in Nat, w[Len(w)] = <<p, k>>, k + 1 < FrameLength(p)
  PROVE  Placed(Append(w, <<p, k + 1>>), Append(at, Len(u)), u)
<1> DEFINE v == Append(w, <<p, k + 1>>)
           to == Append(at, Len(u))
<1>1. <<p, k + 1>> \in Byte
  BY FrameBytes
<1>2. /\ at \in Seq(Nat) /\ Len(at) = Len(w) /\ Len(w) \in Nat /\ Len(u) \in Nat
      /\ Len(w) >= 1 /\ at[Len(w)] = Len(u) /\ at[1] = 1
  BY DEF Placed
<1>3. /\ v \in Seq(Byte) /\ Len(v) = Len(w) + 1 /\ v[Len(w) + 1] = <<p, k + 1>> /\ v # <<>>
      /\ \A i \in 1..Len(w) : v[i] = w[i]
  BY SMTT(30), <1>1, AppendFacts
<1>4. /\ to \in Seq(Nat) /\ Len(to) = Len(w) + 1 /\ to[Len(w) + 1] = Len(u)
      /\ \A i \in 1..Len(w) : to[i] = at[i]
  BY <1>2, AppendFacts
<1> HIDE DEF v, to
<1>5. Len(w) \in 1..Len(w) /\ 1 \in 1..Len(w)
  BY <1>2
<1>6. ASSUME NEW i \in 1..Len(v) PROVE to[i] \in 1..Len(u) /\ v[i][1] = u[to[i]]
  <2>1. CASE i \in 1..Len(w)
    BY <1>3, <1>4, <2>1 DEF Placed
  <2>2. CASE i = Len(w) + 1
    <3>1. at[Len(w)] \in 1..Len(u) /\ p = u[Len(u)]
      BY <1>2, <1>5 DEF Placed
    <3> QED BY <1>2, <1>3, <1>4, <2>2, <3>1
  <2> QED BY <1>2, <1>3, <2>1, <2>2
<1>7. ASSUME NEW i \in 1..Len(v), NEW j \in 1..Len(v), i <= j PROVE to[i] <= to[j]
  <2>1. CASE j \in 1..Len(w)
    <3>1. i \in 1..Len(w)
      BY <1>2, <1>3, <1>7, <2>1
    <3> QED BY <1>4, <1>7, <2>1, <3>1 DEF Placed
  <2>2. CASE j = Len(w) + 1
    BY <1>2, <1>4, <1>6, <2>2
  <2> QED BY <1>2, <1>3, <2>1, <2>2
<1>8. ASSUME NEW i \in 1..Len(v) - 1
      PROVE  IF v[i][2] + 1 < FrameLength(v[i][1])
             THEN v[i + 1][2] = v[i][2] + 1 /\ to[i + 1] = to[i]
             ELSE v[i + 1][2] = 0 /\ to[i + 1] = to[i] + 1
  <2>1. i \in 1..Len(w) /\ v[i] = w[i] /\ to[i] = at[i]
    BY <1>2, <1>3, <1>4
  <2>2. CASE i \in 1..Len(w) - 1
    <3>1. i + 1 \in 1..Len(w)
      BY <1>2, <2>2
    <3> QED BY <1>3, <1>4, <2>1, <2>2, <3>1 DEF Placed
  <2>3. CASE i = Len(w)
    <3>1. v[i + 1] = <<p, k + 1>> /\ to[i + 1] = Len(u)
      BY <1>3, <1>4, <2>3
    <3> QED BY <1>2, <2>1, <2>3, <3>1
  <2> QED BY <1>2, <2>1, <2>2, <2>3
<1>9. to[1] = 1 /\ to[Len(v)] = Len(u)
  BY <1>2, <1>3, <1>4, <1>5
<1>10. Placed(v, to, u)
  BY <1>3, <1>4, <1>6, <1>7, <1>8, <1>9 DEF Placed
<1> QED BY <1>10 DEF v, to

(* A byte is read that is not the last of its packet: the next one is there. *)
LEMMA PlacedRead ==
  ASSUME NEW w \in Seq(Byte), NEW at, NEW u \in Seq(Packet), Placed(w, at, u), Len(w) >= 2,
         w[1][2] + 1 < FrameLength(w[1][1])
  PROVE  Placed(Tail(w), Tail(at), u) /\ Tail(w)[1][2] = w[1][2] + 1 /\ Tail(w) # <<>>
<1> DEFINE v == Tail(w)
           to == Tail(at)
           n == Len(w) - 1
<1>1. at \in Seq(Nat) /\ Len(at) = Len(w) /\ w # <<>> /\ at # <<>>
  BY DEF Placed
<1>2. n \in Nat /\ n >= 1 /\ Len(w) = n + 1
  OBVIOUS
<1>3. v \in Seq(Byte) /\ Len(v) = n /\ v # <<>> /\ \A i \in 1..n : v[i] = w[i + 1]
  <2>1. /\ Tail(w) \in Seq(Byte) /\ Len(Tail(w)) = Len(w) - 1
        /\ \A i \in 1..Len(w) - 1 : Tail(w)[i] = w[i + 1]
        /\ (Tail(w) = <<>>) <=> (Len(w) = 1)
    BY <1>1, TailFacts
  <2> QED BY <1>2, <2>1
<1>4. to \in Seq(Nat) /\ Len(to) = n /\ \A i \in 1..n : to[i] = at[i + 1]
  BY <1>1, <1>2, TailFacts
<1> HIDE DEF v, to, n
<1>5. \A i \in 1..n : i + 1 \in 1..Len(w) /\ i \in 1..Len(w) - 1
  BY <1>2
<1>6. at[1] = 1 /\ at[Len(w)] = Len(u)
  BY <1>1 DEF Placed
<1>7. w[2][2] = w[1][2] + 1 /\ at[2] = at[1]
  BY <1>2 DEF Placed
<1>8. to[1] = 1 /\ to[Len(v)] = Len(u) /\ v[1][2] = w[1][2] + 1
  BY <1>2, <1>3, <1>4, <1>6, <1>7
<1>9. ASSUME NEW i \in 1..Len(v) PROVE to[i] \in 1..Len(u) /\ v[i][1] = u[to[i]]
  <2>1. i \in 1..n /\ i + 1 \in 1..Len(w)
    BY <1>3, <1>5
  <2>2. at[i + 1] \in 1..Len(u) /\ w[i + 1][1] = u[at[i + 1]]
    BY <2>1 DEF Placed
  <2> QED BY <1>3, <1>4, <2>1, <2>2
<1>10. ASSUME NEW i \in 1..Len(v), NEW j \in 1..Len(v), i <= j PROVE to[i] <= to[j]
  <2>1. /\ i + 1 <= j + 1 /\ i + 1 \in 1..Len(w) /\ j + 1 \in 1..Len(w)
        /\ i \in 1..n /\ j \in 1..n
    BY <1>2, <1>3, <1>5, <1>10
  <2>2. at[i + 1] <= at[j + 1]
    BY <2>1 DEF Placed
  <2> QED BY <1>4, <2>1, <2>2
<1>11. ASSUME NEW i \in 1..Len(v) - 1
       PROVE  IF v[i][2] + 1 < FrameLength(v[i][1])
              THEN v[i + 1][2] = v[i][2] + 1 /\ to[i + 1] = to[i]
              ELSE v[i + 1][2] = 0 /\ to[i + 1] = to[i] + 1
  <2>1. i \in 1..n /\ i + 1 \in 1..n /\ i + 1 \in 1..Len(w) - 1
    BY <1>2, <1>3
  <2>2. IF w[i + 1][2] + 1 < FrameLength(w[i + 1][1])
        THEN w[(i + 1) + 1][2] = w[i + 1][2] + 1 /\ at[(i + 1) + 1] = at[i + 1]
        ELSE w[(i + 1) + 1][2] = 0 /\ at[(i + 1) + 1] = at[i + 1] + 1
    BY <2>1 DEF Placed
  <2>3. /\ v[i] = w[i + 1] /\ v[i + 1] = w[(i + 1) + 1]
        /\ to[i] = at[i + 1] /\ to[i + 1] = at[(i + 1) + 1]
    BY <1>3, <1>4, <2>1
  <2> QED BY <2>2, <2>3
<1>12. Placed(v, to, u)
  BY <1>3, <1>4, <1>8, <1>9, <1>10, <1>11 DEF Placed
<1> QED BY <1>3, <1>8, <1>12 DEF v, to

(* The last byte of the first packet is read, and the packet leaves the line. *)
LEMMA PlacedEnd ==
  ASSUME NEW w \in Seq(Byte), NEW at, NEW u \in Seq(Packet), Placed(w, at, u), w # <<>>,
         w[1][2] + 1 = FrameLength(w[1][1])
  PROVE  /\ u # <<>> /\ \E to : Placed(Tail(w), to, Tail(u))
         /\ Tail(w) # <<>> => Tail(w)[1][2] = 0
<1> DEFINE v == Tail(w)
           z == Tail(u)
           n == Len(w) - 1
           to == [i \in 1..n |-> at[i + 1] - 1]
<1>1. at \in Seq(Nat) /\ Len(at) = Len(w) /\ at[1] = 1 /\ at[Len(w)] = Len(u) /\ Len(u) \in Nat
  BY DEF Placed
<1>2. n \in Nat /\ Len(w) = n + 1 /\ 1 \in 1..Len(w)
  OBVIOUS
<1>3. u # <<>> /\ Len(u) >= 1
  BY <1>1, <1>2 DEF Placed
<1>4. /\ v \in Seq(Byte) /\ Len(v) = n /\ \A i \in 1..n : v[i] = w[i + 1]
      /\ (v = <<>>) <=> (n = 0)
  <2>1. w # <<>>
    BY <1>2
  <2>2. /\ Tail(w) \in Seq(Byte) /\ Len(Tail(w)) = Len(w) - 1
        /\ \A i \in 1..Len(w) - 1 : Tail(w)[i] = w[i + 1]
        /\ (Tail(w) = <<>>) <=> (Len(w) = 1)
    BY <2>1, TailFacts
  <2> QED BY <1>2, <2>2
<1>5. /\ z \in Seq(Packet) /\ Len(z) = Len(u) - 1 /\ \A i \in 1..Len(u) - 1 : z[i] = u[i + 1]
      /\ (z = <<>>) <=> (Len(u) = 1)
  BY <1>3, TailFacts
<1>6. FrameLength(w[1][1]) \in Nat
  BY <1>2, ByteParts
<1> HIDE DEF v, z, n
<1>7. n >= 1 => w[2][2] = 0 /\ at[2] = 2
  <2> SUFFICES ASSUME n >= 1 PROVE w[2][2] = 0 /\ at[2] = 2
      OBVIOUS
  <2>1. 1 \in 1..Len(w) - 1 /\ ~(w[1][2] + 1 < FrameLength(w[1][1]))
    BY <1>2, <1>6
  <2>2. w[1 + 1][2] = 0 /\ at[1 + 1] = at[1] + 1
    BY <2>1 DEF Placed
  <2> QED BY <1>1, <2>2
<1>8. ASSUME NEW i \in 1..n PROVE /\ i + 1 \in 1..Len(w) /\ at[i + 1] \in 2..Len(u)
                                  /\ v[i][1] = u[at[i + 1]]
  <2>1. i + 1 \in 1..Len(w) /\ 2 \in 1..Len(w) /\ 2 <= i + 1 /\ n >= 1
    BY <1>2
  <2>2. at[2] <= at[i + 1] /\ at[i + 1] \in 1..Len(u) /\ w[i + 1][1] = u[at[i + 1]]
    BY <2>1 DEF Placed
  <2> QED BY SMTT(30), <1>1, <1>4, <1>7, <2>1, <2>2
<1>9. to \in Seq(Nat) /\ Len(to) = n /\ \A i \in 1..n : to[i] = at[i + 1] - 1
  <2>1. \A i \in 1..n : at[i + 1] - 1 \in Nat
    BY SMTT(30), <1>1, <1>8
  <2> QED BY <1>2, <2>1
<1> HIDE DEF to
<1>10. ASSUME NEW i \in 1..Len(v) PROVE to[i] \in 1..Len(z) /\ v[i][1] = z[to[i]]
  <2>1. i \in 1..n /\ to[i] = at[i + 1] - 1 /\ at[i + 1] \in 2..Len(u)
    BY <1>4, <1>8, <1>9
  <2>2. to[i] \in 1..Len(u) - 1 /\ at[i + 1] = to[i] + 1
    <3> DEFINE a == at[i + 1]
    <3>1. a \in 2..Len(u) /\ to[i] = a - 1 /\ Len(u) \in Nat
      BY <1>1, <2>1
    <3> HIDE DEF a
    <3>2. to[i] \in 1..Len(u) - 1 /\ a = to[i] + 1
      BY <3>1
    <3> QED BY <3>2 DEF a
  <2> QED BY <1>5, <1>8, <2>1, <2>2
<1>11. ASSUME NEW i \in 1..Len(v), NEW j \in 1..Len(v), i <= j PROVE to[i] <= to[j]
  <2>1. i \in 1..n /\ j \in 1..n /\ i + 1 <= j + 1
    BY <1>2, <1>4, <1>11
  <2>2. /\ i + 1 \in 1..Len(w) /\ j + 1 \in 1..Len(w)
        /\ at[i + 1] \in Nat /\ at[j + 1] \in Nat
    <3>1. \A k \in 1..n : k + 1 \in 1..Len(w) /\ at[k + 1] \in 2..Len(u)
      BY <1>8
    <3>2. \A k \in 2..Len(u) : k \in Nat
      BY <1>1
    <3> QED BY <2>1, <3>1, <3>2
  <2>3. at[i + 1] <= at[j + 1]
    BY <2>1, <2>2 DEF Placed
  <2>4. to[i] = at[i + 1] - 1 /\ to[j] = at[j + 1] - 1
    BY <1>9, <2>1
  <2> DEFINE a == at[i + 1]
             b == at[j + 1]
  <2>5. a \in Nat /\ b \in Nat /\ a <= b
    BY <2>2, <2>3
  <2>6. to[i] = a - 1 /\ to[j] = b - 1
    BY <2>4
  <2> HIDE DEF a, b
  <2> QED BY <2>5, <2>6
<1>12. ASSUME NEW i \in 1..Len(v) - 1
       PROVE  IF v[i][2] + 1 < FrameLength(v[i][1])
              THEN v[i + 1][2] = v[i][2] + 1 /\ to[i + 1] = to[i]
              ELSE v[i + 1][2] = 0 /\ to[i + 1] = to[i] + 1
  <2>1. i \in 1..n /\ i + 1 \in 1..n /\ i + 1 \in 1..Len(w) - 1
    BY <1>2, <1>4
  <2>2. at[i + 1] \in Nat /\ at[(i + 1) + 1] \in Nat
    <3>1. \A j \in 1..n : at[j + 1] \in Nat
      BY <1>1, <1>8
    <3> QED BY <2>1, <3>1
  <2>3. IF w[i + 1][2] + 1 < FrameLength(w[i + 1][1])
        THEN w[(i + 1) + 1][2] = w[i + 1][2] + 1 /\ at[(i + 1) + 1] = at[i + 1]
        ELSE w[(i + 1) + 1][2] = 0 /\ at[(i + 1) + 1] = at[i + 1] + 1
    BY <2>1 DEF Placed
  <2>4. v[i] = w[i + 1] /\ v[i + 1] = w[(i + 1) + 1]
        /\ to[i] = at[i + 1] - 1 /\ to[i + 1] = at[(i + 1) + 1] - 1
    BY <1>4, <1>9, <2>1
  <2> QED BY SMTT(30), <2>2, <2>3, <2>4
<1>13. v # <<>> => to[1] = 1 /\ to[Len(v)] = Len(z) /\ v[1][2] = 0
  <2> SUFFICES ASSUME v # <<>> PROVE to[1] = 1 /\ to[Len(v)] = Len(z) /\ v[1][2] = 0
      OBVIOUS
  <2>1. 1 \in 1..n /\ n \in 1..n /\ n >= 1 /\ n + 1 = Len(w) /\ 1 + 1 = 2
    BY <1>2, <1>4
  <2>2. to[1] = at[2] - 1 /\ to[n] = at[Len(w)] - 1 /\ v[1] = w[2]
    BY <1>4, <1>9, <2>1
  <2> QED BY <1>1, <1>4, <1>5, <1>7, <2>1, <2>2
<1>14. v = <<>> => z = <<>>
  <2>1. v = <<>> => Len(u) = 1
    BY <1>1, <1>2, <1>4
  <2> QED BY <1>5, <2>1
<1>15. Placed(v, to, z)
  BY <1>4, <1>9, <1>10, <1>11, <1>12, <1>13, <1>14 DEF Placed
<1> QED BY <1>3, <1>13, <1>15 DEF v, z
-----------------------------------------------------------------------------
(* The bytes between the two ends: those in the receiver, then that in the
   transmitter. *)
OnLine == rxd \o (IF mp_tx_stream = None THEN <<>> ELSE <<txd>>)

(* What the bytes on the line and the two indexes have to do with the packets
   underway: the first byte is the one the receiver waits for, and the last one the
   one before the next the sender will put. *)
LineInv ==
  /\ \E at : Placed(OnLine, at, underway)
  /\ OnLine # <<>> => OnLine[1][2] = m_rx_stream_index
  /\ OnLine = <<>> => m_rx_stream_index = 0
  /\ mp_tx_stream # None => /\ mp_tx_stream \in Packet
                            /\ m_tx_stream_index \in 1..FrameLength(mp_tx_stream)
                            /\ txd = <<mp_tx_stream, m_tx_stream_index - 1>>
  /\ mp_tx_stream = None /\ OnLine # <<>> =>
       LET last == OnLine[Len(OnLine)] IN last[2] + 1 = FrameLength(last[1])

(* What has been received of the first packet underway. *)
HeadInv ==
  /\ ~fault => rxState \in {"IDLE", "RECEIVING", "RECEIVED", "DROPPING"}
  /\ mp_rx_stream = "NULL" => m_rx_stream_index \in 0..1
  /\ m_rx_stream_index = 1 => m_rx_length_buf[1] = <<underway[1], 0>>
  /\ mp_rx_stream # "NULL" => m_rx_stream_length = FrameLength(underway[1])
  /\ mp_rx_stream = "m_rx_buffer" =>
       /\ Size[underway[1]] <= BufferSize
       /\ \A i \in 1..Len(m_rx_buffer) : m_rx_buffer[i] = <<underway[1], i + 1>>
  /\ mp_rx_stream = "m_rx_drop_buf" => Size[underway[1]] > BufferSize

PipeInv == IInv /\ LineInv /\ HeadInv

(* The first byte on the line belongs to the first packet underway. *)
LEMMA FirstByte ==
  ASSUME IInv, LineInv
  PROVE  /\ OnLine \in Seq(Byte) /\ rxd \in Seq(Byte) /\ underway \in Seq(Packet)
         /\ OnLine # <<>> => /\ underway # <<>> /\ Len(underway) >= 1
                             /\ underway[1] \in Packet
                             /\ OnLine[1] = <<underway[1], m_rx_stream_index>>
                             /\ m_rx_stream_index < FrameLength(underway[1])
         /\ OnLine = <<>> => underway = <<>>
<1>1. rxd \in Seq(Byte) /\ underway \in Seq(Packet)
  BY DEF IInv, TypeOK
<1>2. OnLine \in Seq(Byte)
  <2>1. CASE mp_tx_stream = None
    BY <1>1, <2>1 DEF OnLine
  <2>2. CASE mp_tx_stream # None
    <3>1. /\ mp_tx_stream \in Packet /\ m_tx_stream_index - 1 \in 0..FrameLength(mp_tx_stream) - 1
          /\ txd = <<mp_tx_stream, m_tx_stream_index - 1>>
      BY <2>2, FrameBytes DEF LineInv
    <3>2. txd \in Byte
      BY <3>1, FrameBytes
    <3> QED BY <1>1, <2>2, <3>2 DEF OnLine
  <2> QED BY <2>1, <2>2
<1> HIDE DEF OnLine
<1>3. PICK at : Placed(OnLine, at, underway)
  BY DEF LineInv
<1>4. OnLine = <<>> => underway = <<>>
  BY <1>3 DEF Placed
<1>5. ASSUME OnLine # <<>>
      PROVE  /\ underway # <<>> /\ Len(underway) >= 1 /\ underway[1] \in Packet
             /\ OnLine[1] = <<underway[1], m_rx_stream_index>>
             /\ m_rx_stream_index < FrameLength(underway[1])
  <2>1. Len(OnLine) >= 1 /\ 1 \in 1..Len(OnLine) /\ OnLine[1] \in Byte
    BY <1>2, <1>5
  <2>2. at[1] = 1 /\ at[1] \in 1..Len(underway) /\ OnLine[1][1] = underway[at[1]]
    BY <1>3, <1>5, <2>1 DEF Placed
  <2>3. underway # <<>> /\ Len(underway) >= 1 /\ underway[1] \in Packet
    BY <1>1, <2>2
  <2>4. OnLine[1][1] = underway[1] /\ OnLine[1][2] = m_rx_stream_index
    BY <1>5, <2>2 DEF LineInv
  <2> QED BY <2>1, <2>3, <2>4, ByteParts
<1> QED BY <1>1, <1>2, <1>4, <1>5

LEMMA InitPipe == Init => PipeInv
<1> SUFFICES ASSUME Init PROVE PipeInv
    OBVIOUS
<1>1. OnLine = <<>>
  BY DEF Init, OnLine
<1>2. Placed(<<>>, <<>>, <<>>)
  BY DEF Placed
<1>3. LineInv /\ HeadInv
  BY <1>1, <1>2 DEF Init, LineInv, HeadInv, ser_hal_transport_opened
<1> QED BY <1>3, InitIInv DEF PipeInv
-----------------------------------------------------------------------------
(* The sender puts the first byte of a packet on the line. *)
LEMMA SendKeepsLine ==
  ASSUME PipeInv, FreedInTime, NEW p \in Packet, TxSend(p)
  PROVE  LineInv' /\ HeadInv'
<1> USE DEF PipeInv
<1>1. /\ mp_tx_stream = None /\ mp_tx_stream' = p /\ p # None
      /\ txd' = <<p, 0>> /\ m_tx_stream_index' = 1 /\ rxd' = rxd
      /\ underway' = Append(underway, p)
      /\ UNCHANGED <<rxState, rxStream, m_rx_length_buf, m_rx_buffer, fault>>
  BY PhyAssumption DEF TxSend, rxVars, Begins
<1>2. OnLine \in Seq(Byte) /\ rxd \in Seq(Byte) /\ underway \in Seq(Packet)
  BY FirstByte
<1>3. OnLine = rxd /\ OnLine' = Append(rxd, <<p, 0>>)
  BY <1>1, <1>2 DEF OnLine
<1>4. PICK at : Placed(OnLine, at, underway)
  BY DEF LineInv
<1>5. Placed(Append(OnLine, <<p, 0>>), Append(at, Len(underway) + 1), Append(underway, p))
  BY <1>1, <1>2, <1>4, PlacedBegin DEF LineInv
<1>6. Placed(OnLine', Append(at, Len(underway) + 1), underway')
  BY <1>1, <1>3, <1>5
<1>7. OnLine' # <<>> /\ OnLine'[1][2] = m_rx_stream_index
  <2>1. <<p, 0>> \in Byte
    BY FrameBytes
  <2>2. CASE rxd = <<>>
    BY <1>2, <1>3, <2>1, <2>2 DEF LineInv
  <2>3. CASE rxd # <<>>
    <3>1. OnLine'[1] = OnLine[1] /\ OnLine' # <<>>
      BY <1>2, <1>3, <2>1, <2>3
    <3> QED BY <1>3, <2>3, <3>1 DEF LineInv
  <2> QED BY <2>2, <2>3
<1>8. LineInv'
  <2>1. 1 \in 1..FrameLength(p)
    BY FrameBytes
  <2>2. m_rx_stream_index' = m_rx_stream_index
    BY <1>1 DEF rxStream
  <2> HIDE DEF OnLine
  <2> QED BY <1>1, <1>6, <1>7, <2>1, <2>2 DEF LineInv
<1>9. HeadInv'
  <2>1. CASE OnLine = <<>>
    <3>1. m_rx_stream_index = 0 /\ mp_rx_stream = "NULL"
      BY <2>1 DEF LineInv, IInv, RxInv
    <3> QED BY <1>1, <3>1 DEF HeadInv, rxStream
  <2>2. CASE OnLine # <<>>
    <3>1. underway'[1] = underway[1]
      BY <1>1, <1>2, <2>2, FirstByte
    <3> QED BY <1>1, <3>1 DEF HeadInv, rxStream
  <2> QED BY <2>1, <2>2
<1> QED BY <1>8, <1>9

(* A byte goes from the transmitter into the receiver, and is followed by the next
   one of its packet, if any. *)
LEMMA TxKeepsLine ==
  ASSUME PipeInv, TxStep
  PROVE  LineInv' /\ HeadInv'
<1> USE DEF PipeInv
<1>1. /\ UNCHANGED <<rxState, rxStream, m_rx_length_buf, m_rx_buffer, fault, underway>>
      /\ rxd' = Append(rxd, txd) /\ txd # None
  BY DEF TxStep, TxNext, TxPacketSent, TxdReady
<1>2. OnLine \in Seq(Byte) /\ rxd \in Seq(Byte) /\ underway \in Seq(Packet)
  BY FirstByte
<1>3. mp_tx_stream \in Packet /\ mp_tx_stream # None
  BY <1>1, PhyAssumption DEF IInv, TxInv
<1> DEFINE k == m_tx_stream_index - 1
           p == mp_tx_stream
<1>4. txd = <<p, k>> /\ k \in Nat /\ m_tx_stream_index = k + 1 /\ txd \in Byte
  <2>1. txd = <<p, k>> /\ m_tx_stream_index \in 1..FrameLength(p)
    BY <1>3 DEF LineInv
  <2>2. FrameLength(p) \in Nat
    BY <1>3, FrameBytes
  <2>3. k \in 0..FrameLength(p) - 1
    BY <2>1, <2>2
  <2> QED BY <1>3, <2>1, <2>2, <2>3, FrameBytes
<1>5. /\ OnLine = Append(rxd, txd) /\ OnLine # <<>> /\ OnLine[Len(OnLine)] = txd
      /\ rxd' = OnLine
  <2>1. OnLine = Append(rxd, txd)
    BY <1>2, <1>3, <1>4 DEF OnLine
  <2>2. Append(rxd, txd) # <<>> /\ Append(rxd, txd)[Len(Append(rxd, txd))] = txd
    <3>1. /\ Append(rxd, txd) # <<>> /\ Len(Append(rxd, txd)) = Len(rxd) + 1
          /\ Append(rxd, txd)[Len(rxd) + 1] = txd
      <4>1. rxd \in Seq(Byte) /\ txd \in Byte
        BY <1>2, <1>4
      <4> QED BY <4>1, AppendFacts
    <3> QED BY <3>1
  <2> QED BY <1>1, <2>1, <2>2
<1>6. PICK at : Placed(OnLine, at, underway)
  BY DEF LineInv
<1>7. CASE TxNext
  <2>1. /\ k + 1 < FrameLength(p) /\ txd' = <<p, k + 1>> /\ mp_tx_stream' = mp_tx_stream
        /\ m_tx_stream_index' = k + 2
    BY <1>4, <1>7 DEF TxNext
  <2>2. Placed(Append(OnLine, <<p, k + 1>>), Append(at, Len(underway)), underway)
    <3> HIDE DEF p, k, OnLine
    <3>1. p \in Packet
      BY <1>3 DEF p
    <3> QED BY <1>2, <1>4, <1>5, <1>6, <2>1, <3>1, PlacedNext
  <2>3. txd' \in Byte
    <3>1. k + 1 \in 0..FrameLength(p) - 1 /\ p \in Packet
      BY <1>3, <1>4, <2>1, FrameBytes
    <3> QED BY <2>1, <3>1, FrameBytes
  <2>4. OnLine' = Append(OnLine, <<p, k + 1>>)
    <3>1. OnLine' = rxd' \o <<txd'>>
      BY <1>3, <2>1 DEF OnLine
    <3> QED BY <1>2, <1>5, <2>1, <2>3, <3>1
  <2>5. OnLine' # <<>> /\ OnLine'[1] = OnLine[1]
    BY <1>2, <1>5, <2>1, <2>3, <2>4
  <2>6. m_tx_stream_index' \in 1..FrameLength(p) /\ k + 1 = m_tx_stream_index' - 1
    BY <1>3, <1>4, <2>1, FrameBytes
  <2>7. LineInv'
    <3>1. Placed(OnLine', Append(at, Len(underway)), underway')
      BY <1>1, <2>2, <2>4
    <3> HIDE DEF OnLine
    <3> QED BY <1>1, <1>3, <1>5, <2>1, <2>5, <2>6, <3>1 DEF LineInv, rxStream
  <2> QED BY <1>1, <2>7 DEF HeadInv, rxStream
<1>8. CASE TxPacketSent
  <2>1. mp_tx_stream' = None /\ m_tx_stream_index = FrameLength(p)
    BY <1>8 DEF TxPacketSent
  <2>2. OnLine' = OnLine
    BY <1>2, <1>5, <2>1 DEF OnLine
  <2>3. OnLine[Len(OnLine)][2] + 1 = FrameLength(OnLine[Len(OnLine)][1])
    <3>1. txd[2] + 1 = FrameLength(txd[1])
      BY <1>4, <2>1
    <3> QED BY <1>5, <3>1
  <2>4. LineInv'
    <3> HIDE DEF OnLine
    <3> QED BY <1>1, <1>5, <1>6, <2>1, <2>2, <2>3 DEF LineInv, rxStream
  <2> QED BY <1>1, <2>4 DEF HeadInv, rxStream
<1> QED BY <1>7, <1>8 DEF TxStep
-----------------------------------------------------------------------------
(* A byte is read: the first one leaves the line, and unless it is the last of its
   packet there is another behind it. *)
LEMMA ReadFacts ==
  ASSUME PipeInv, Receive, UNCHANGED txVars
  PROVE  /\ OnLine # <<>> /\ OnLine' = Tail(OnLine) /\ Head(rxd) = OnLine[1]
         /\ m_rx_stream_index + 1 < FrameLength(underway[1]) => Len(OnLine) >= 2
         /\ mp_tx_stream = None /\ OnLine' # <<>> =>
              LET last == OnLine'[Len(OnLine')] IN last[2] + 1 = FrameLength(last[1])
<1> USE DEF PipeInv
<1>1. /\ OnLine \in Seq(Byte) /\ rxd \in Seq(Byte) /\ rxd # <<>> /\ rxd' = Tail(rxd)
      /\ UNCHANGED <<mp_tx_stream, txd>>
  BY FirstByte DEF Receive, txVars
<1>2. CASE mp_tx_stream = None
  <2>1. OnLine = rxd /\ OnLine' = Tail(rxd)
    BY <1>1, <1>2 DEF OnLine
  <2>2. OnLine # <<>> /\ Head(rxd) = OnLine[1]
    BY <1>1, <2>1
  <2>3. LET last == OnLine[Len(OnLine)] IN last[2] + 1 = FrameLength(last[1])
    BY <1>2, <2>2 DEF LineInv
  <2>4. ASSUME m_rx_stream_index + 1 < FrameLength(underway[1]) PROVE Len(OnLine) >= 2
    <3>1. OnLine[1] = <<underway[1], m_rx_stream_index>> /\ underway[1] \in Packet
      BY <2>2, FirstByte
    <3>2. Len(OnLine) # 1
      BY <2>3, <2>4, <3>1, FrameBytes
    <3> DEFINE n == Len(OnLine)
    <3>3. n \in Nat /\ n # 0 /\ n # 1
      BY FirstByte, <2>2, <3>2
    <3> HIDE DEF n
    <3>4. n >= 2
      BY <3>3
    <3> QED BY <3>4 DEF n
  <2>5. ASSUME OnLine' # <<>> PROVE OnLine'[Len(OnLine')] = OnLine[Len(OnLine)]
    <3>1. Tail(rxd) # <<>>
      BY <2>1, <2>5
    <3>2. /\ Len(Tail(rxd)) = Len(rxd) - 1 /\ Len(rxd) \in Nat /\ Len(Tail(rxd)) >= 1
          /\ \A i \in 1..Len(rxd) - 1 : Tail(rxd)[i] = rxd[i + 1]
      BY <1>1, <3>1
    <3>3. Tail(rxd)[Len(Tail(rxd))] = rxd[Len(rxd)]
      BY <3>2
    <3> QED BY <2>1, <3>3
  <2> QED BY <2>1, <2>2, <2>3, <2>4, <2>5
<1>3. CASE mp_tx_stream # None
  <2>1. OnLine = rxd \o <<txd>> /\ OnLine' = Tail(rxd) \o <<txd>>
    BY <1>1, <1>3 DEF OnLine
  <2>2. txd \in Byte
    <3>1. /\ mp_tx_stream \in Packet /\ m_tx_stream_index \in 1..FrameLength(mp_tx_stream)
          /\ txd = <<mp_tx_stream, m_tx_stream_index - 1>>
      BY <1>3 DEF LineInv
    <3>2. m_tx_stream_index - 1 \in 0..FrameLength(mp_tx_stream) - 1
      BY <3>1, FrameBytes
    <3> QED BY <3>1, <3>2, FrameBytes
  <2>3. Tail(rxd \o <<txd>>) = Tail(rxd) \o <<txd>> /\ Len(rxd \o <<txd>>) >= 2
        /\ Head(rxd) = (rxd \o <<txd>>)[1] /\ rxd \o <<txd>> # <<>>
    BY <1>1, <2>2
  <2> QED BY <1>3, <2>1, <2>3
<1> QED BY <1>2, <1>3

LEMMA ReadOn ==
  ASSUME PipeInv, Receive, UNCHANGED <<txVars, underway>>,
         m_rx_stream_index + 1 < FrameLength(underway[1]),
         m_rx_stream_index' = m_rx_stream_index + 1
  PROVE  LineInv' /\ Head(rxd) = <<underway[1], m_rx_stream_index>>
<1> USE DEF PipeInv
<1>1. /\ OnLine # <<>> /\ OnLine' = Tail(OnLine) /\ Head(rxd) = OnLine[1] /\ Len(OnLine) >= 2
      /\ mp_tx_stream = None /\ OnLine' # <<>> =>
           LET last == OnLine'[Len(OnLine')] IN last[2] + 1 = FrameLength(last[1])
  BY ReadFacts
<1>2. OnLine \in Seq(Byte) /\ OnLine[1] = <<underway[1], m_rx_stream_index>>
      /\ underway \in Seq(Packet)
  BY <1>1, FirstByte
<1>3. PICK at : Placed(OnLine, at, underway)
  BY DEF LineInv
<1>4. /\ Placed(Tail(OnLine), Tail(at), underway) /\ Tail(OnLine) # <<>>
      /\ Tail(OnLine)[1][2] = m_rx_stream_index + 1
  <2> HIDE DEF OnLine
  <2>1. OnLine[1][2] + 1 < FrameLength(OnLine[1][1])
    BY <1>2
  <2> QED BY <1>1, <1>2, <1>3, <2>1, PlacedRead
<1>5. LineInv'
  <2>1. Placed(OnLine', Tail(at), underway') /\ OnLine' # <<>>
        /\ OnLine'[1][2] = m_rx_stream_index'
    BY <1>1, <1>4
  <2>2. UNCHANGED <<mp_tx_stream, m_tx_stream_index, txd>>
    BY DEF txVars
  <2> HIDE DEF OnLine
  <2> QED BY <1>1, <2>1, <2>2 DEF LineInv
<1> QED BY <1>1, <1>2, <1>5

(* SubSeq from the second element is the tail. *)
LEMMA DropFirst ==
  ASSUME NEW S, NEW s \in Seq(S), s # <<>>
  PROVE  SubSeq(s, 2, Len(s)) = Tail(s)
<1> DEFINE t == SubSeq(s, 2, Len(s))
           r == Tail(s)
<1>1. /\ t \in Seq(S) /\ Len(t) = Len(s) - 1 /\ \A i \in 1..Len(s) - 1 : t[i] = s[i + 1]
  BY SMTT(30)
<1>2. /\ r \in Seq(S) /\ Len(r) = Len(s) - 1 /\ \A i \in 1..Len(s) - 1 : r[i] = s[i + 1]
  BY TailFacts
<1> HIDE DEF t, r
<1>3. Len(t) = Len(r) /\ \A i \in 1..Len(t) : t[i] = r[i]
  BY <1>1, <1>2
<1>4. t = r
  BY <1>1, <1>2, <1>3
<1> QED BY <1>4 DEF t, r

LEMMA ReadEnd ==
  ASSUME PipeInv, FreedInTime, Receive, UNCHANGED txVars, Ends,
         m_rx_stream_index + 1 = FrameLength(underway[1]),
         m_rx_stream_index' = 0
  PROVE  /\ LineInv' /\ Head(rxd) = <<underway[1], m_rx_stream_index>>
         /\ underway # <<>> /\ underway' = Tail(underway)
<1> USE DEF PipeInv
<1>1. /\ OnLine # <<>> /\ OnLine' = Tail(OnLine) /\ Head(rxd) = OnLine[1]
      /\ mp_tx_stream = None /\ OnLine' # <<>> =>
           LET last == OnLine'[Len(OnLine')] IN last[2] + 1 = FrameLength(last[1])
  BY ReadFacts
<1>2. OnLine \in Seq(Byte) /\ OnLine[1] = <<underway[1], m_rx_stream_index>>
      /\ underway \in Seq(Packet) /\ underway # <<>>
  BY <1>1, FirstByte
<1>3. PICK at : Placed(OnLine, at, underway)
  BY DEF LineInv
<1>4. underway' = Tail(underway)
  BY <1>2, DropFirst DEF Ends
<1>5. /\ \E to : Placed(Tail(OnLine), to, Tail(underway))
      /\ Tail(OnLine) # <<>> => Tail(OnLine)[1][2] = 0
  <2> HIDE DEF OnLine
  <2>1. OnLine[1][2] + 1 = FrameLength(OnLine[1][1])
    BY <1>2
  <2> QED BY <1>1, <1>2, <1>3, <2>1, PlacedEnd
<1>6. LineInv'
  <2>1. (\E to : Placed(OnLine', to, underway')) /\ (OnLine' # <<>> => OnLine'[1][2] = 0)
    BY <1>1, <1>4, <1>5
  <2>2. UNCHANGED <<mp_tx_stream, m_tx_stream_index, txd>>
    BY DEF txVars
  <2> HIDE DEF OnLine
  <2> QED BY <1>1, <2>1, <2>2 DEF LineInv
<1> QED BY <1>1, <1>2, <1>4, <1>6
-----------------------------------------------------------------------------
(* The reading of a header. *)
LEMMA HeaderKeepsLine ==
  ASSUME PipeInv, HeaderByte
  PROVE  LineInv' /\ HeadInv'
<1> USE DEF PipeInv
<1>1. /\ Receive /\ UNCHANGED <<txVars, underway, rxState, mp_rx_stream, fault>>
      /\ mp_rx_stream = "NULL" /\ m_rx_stream_index = 0 /\ m_rx_stream_index' = 1
      /\ m_rx_length_buf' = <<Head(rxd)>>
  BY DEF HeaderByte
<1>2. OnLine # <<>>
  BY <1>1, ReadFacts
<1>3. underway[1] \in Packet
  BY <1>2, FirstByte
<1>4. m_rx_stream_index + 1 < FrameLength(underway[1])
  BY <1>1, <1>3, FrameBytes
<1>5. LineInv' /\ Head(rxd) = <<underway[1], 0>>
  BY <1>1, <1>4, ReadOn
<1> QED BY <1>1, <1>5 DEF HeadInv

(* What a complete header announces is the length of its packet. *)
LEMMA HeaderDecoded ==
  ASSUME PipeInv, HeaderComplete, UNCHANGED <<txVars, underway>>,
         NEW n \in DecodedLengths(m_rx_length_buf[1], Head(rxd))
  PROVE  n = Size[underway[1]] /\ n # 0 /\ underway[1] \in Packet
<1> USE DEF PipeInv
<1>1. Receive /\ m_rx_stream_index = 1
  BY DEF HeaderComplete
<1>2. OnLine # <<>> /\ Head(rxd) = OnLine[1]
  BY <1>1, ReadFacts
<1>3. underway[1] \in Packet /\ Head(rxd) = <<underway[1], 1>>
  BY <1>1, <1>2, FirstByte
<1>4. m_rx_length_buf[1] = <<underway[1], 0>>
  BY <1>1 DEF HeadInv
<1>5. DecodedLengths(m_rx_length_buf[1], Head(rxd)) = {Size[underway[1]]}
  BY <1>3, <1>4 DEF DecodedLengths
<1>6. Size[underway[1]] \in 1..UINT16_MAX - 2
  BY <1>3, PhyAssumption DEF SER_PHY_HEADER_SIZE
<1> QED BY <1>3, <1>5, <1>6

LEMMA RequestKeepsLine ==
  ASSUME PipeInv, FreedInTime, BufRequest
  PROVE  LineInv' /\ HeadInv'
<1> USE DEF PipeInv
<1>1. /\ HeaderComplete /\ Receive /\ UNCHANGED <<txVars, underway, fault>>
      /\ m_rx_stream_index = 1 /\ m_rx_stream_index' = 2 /\ rxState # "RECEIVED" /\ ~fault
      /\ m_rx_buffer' = IF mp_rx_stream' = "m_rx_buffer" THEN <<>> ELSE m_rx_buffer
  BY DEF BufRequest, HeaderComplete, Receive, SER_PHY_HEADER_SIZE
<1>2. PICK n \in DecodedLengths(m_rx_length_buf[1], Head(rxd)) \ {0} :
        /\ Step(BufRequested(Fits(n)), rxState)
        /\ mp_rx_stream' = StreamFor(n)
        /\ m_rx_stream_length' = (n + 2) % (UINT16_MAX + 1)
  BY DEF BufRequest, SER_PHY_HEADER_SIZE
<1>3. n = Size[underway[1]] /\ underway[1] \in Packet
  BY <1>1, <1>2, HeaderDecoded
<1>4. n \in 1..UINT16_MAX - 2 /\ UINT16_MAX \in Nat /\ BufferSize \in Nat
  BY <1>3, PhyAssumption DEF SER_PHY_HEADER_SIZE
<1>5. m_rx_stream_length' = FrameLength(underway[1])
  <2>1. (n + 2) % (UINT16_MAX + 1) = n + 2
    BY <1>4
  <2> QED BY <1>2, <1>3, <2>1 DEF FrameLength, SER_PHY_HEADER_SIZE
<1>6. LineInv'
  <2>1. m_rx_stream_index + 1 < FrameLength(underway[1])
    BY <1>1, <1>3, FrameBytes
  <2> QED BY <1>1, <2>1, ReadOn
<1>7. rxState = "IDLE"
  <2>1. Fits(n) = TRUE \/ Fits(n) = FALSE
    BY <1>4 DEF Fits
  <2> QED BY <1>1, <1>2, <2>1, Tables
<1>8. \/ Size[underway[1]] <= BufferSize /\ rxState' = "RECEIVING"
         /\ mp_rx_stream' = "m_rx_buffer" /\ m_rx_buffer' = <<>>
      \/ Size[underway[1]] > BufferSize /\ rxState' = "DROPPING"
         /\ mp_rx_stream' = "m_rx_drop_buf"
  <2>1. CASE n <= BufferSize
    <3>1. Fits(n) = TRUE
      BY <2>1 DEF Fits
    <3> QED BY <1>1, <1>2, <1>3, <1>7, <2>1, <3>1, Tables DEF StreamFor
  <2>2. CASE n > BufferSize
    <3>1. Fits(n) = FALSE
      BY <1>4, <2>2 DEF Fits
    <3> QED BY <1>2, <1>3, <1>7, <2>2, <3>1, Tables DEF StreamFor
  <2> QED BY <1>4, <2>1, <2>2
<1>9. HeadInv'
  <2>1. Len(<<>>) = 0
    OBVIOUS
  <2> QED BY <1>1, <1>5, <1>8, <2>1 DEF HeadInv
<1> QED BY <1>6, <1>9

(* On a line without errors no header announces an empty packet, and no byte
   finds the receiver without a stream. *)
LEMMA NoEmptyPacket == PipeInv => ~EmptyPacket
<1> SUFFICES ASSUME PipeInv, EmptyPacket PROVE FALSE
    OBVIOUS
<1>1. /\ HeaderComplete /\ UNCHANGED <<txVars, underway>>
      /\ 0 \in DecodedLengths(m_rx_length_buf[1], Head(rxd))
  BY DEF EmptyPacket
<1> QED BY <1>1, HeaderDecoded

LEMMA NoByteDiscarded == PipeInv => ~ByteDiscarded
<1> SUFFICES ASSUME PipeInv, ByteDiscarded PROVE FALSE
    OBVIOUS
<1> USE DEF PipeInv
<1>1. /\ Receive /\ UNCHANGED txVars /\ m_rx_stream_index = 2
      /\ mp_rx_stream = "NULL" \/ m_rx_stream_index >= m_rx_stream_length
  BY DEF ByteDiscarded, SER_PHY_HEADER_SIZE
<1>2. OnLine # <<>>
  BY <1>1, ReadFacts
<1>3. m_rx_stream_index < FrameLength(underway[1]) /\ FrameLength(underway[1]) \in Nat
  BY <1>2, FirstByte, FrameBytes
<1> QED BY <1>1, <1>3 DEF HeadInv
-----------------------------------------------------------------------------
(* What a byte of the payload finds: it is the one that belongs there. *)
LEMMA WriteFacts ==
  ASSUME PipeInv, Write, UNCHANGED txVars
  PROVE  /\ underway[1] \in Packet /\ underway # <<>> /\ underway \in Seq(Packet)
         /\ m_rx_stream_length = FrameLength(underway[1]) /\ ~fault
         /\ mp_rx_stream = "m_rx_buffer" =>
              /\ Len(m_rx_buffer') = m_rx_stream_index - 1 /\ m_rx_buffer' \in Seq(Byte)
              /\ \A i \in 1..Len(m_rx_buffer') : m_rx_buffer'[i] = <<underway[1], i + 1>>
<1> USE DEF PipeInv
<1>1. Receive /\ mp_rx_stream # "NULL" /\ ~fault
  BY DEF Write, Receive
<1>2. OnLine # <<>> /\ Head(rxd) = OnLine[1]
  BY <1>1, ReadFacts
<1>3. /\ underway[1] \in Packet /\ underway # <<>> /\ underway \in Seq(Packet)
      /\ Head(rxd) = <<underway[1], m_rx_stream_index>>
  BY <1>2, FirstByte
<1>4. ASSUME mp_rx_stream = "m_rx_buffer"
      PROVE  /\ Len(m_rx_buffer') = m_rx_stream_index - 1 /\ m_rx_buffer' \in Seq(Byte)
             /\ \A i \in 1..Len(m_rx_buffer') : m_rx_buffer'[i] = <<underway[1], i + 1>>
  <2>1. /\ m_rx_buffer' = Append(m_rx_buffer, Head(rxd)) /\ m_rx_buffer \in Seq(Byte)
        /\ Len(m_rx_buffer) = m_rx_stream_index - 2 /\ m_rx_stream_index \in Nat
        /\ m_rx_stream_index >= 2 /\ Head(rxd) \in Byte
    BY <1>1, <1>4, ReceiveType DEF Write, IInv, TypeOK, RxInv
  <2>2. /\ m_rx_buffer' \in Seq(Byte) /\ Len(m_rx_buffer') = Len(m_rx_buffer) + 1
        /\ m_rx_buffer'[Len(m_rx_buffer) + 1] = Head(rxd)
        /\ \A i \in 1..Len(m_rx_buffer) : m_rx_buffer'[i] = m_rx_buffer[i]
    BY <2>1, AppendFacts
  <2>3. ASSUME NEW i \in 1..Len(m_rx_buffer') PROVE m_rx_buffer'[i] = <<underway[1], i + 1>>
    <3>1. CASE i \in 1..Len(m_rx_buffer)
      BY <1>4, <2>2, <3>1 DEF HeadInv
    <3>2. CASE i = Len(m_rx_buffer) + 1
      <4>1. i + 1 = m_rx_stream_index
        BY <2>1, <3>2
      <4> QED BY <1>3, <2>2, <3>2, <4>1
    <3> QED BY <2>1, <2>2, <3>1, <3>2
  <2> QED BY <2>1, <2>2, <2>3
<1> QED BY <1>1, <1>3, <1>4 DEF HeadInv

LEMMA PayloadKeepsLine ==
  ASSUME PipeInv, PayloadByte
  PROVE  LineInv' /\ HeadInv'
<1> USE DEF PipeInv
<1>1. /\ Write /\ Receive /\ UNCHANGED <<txVars, underway, rxState, mp_rx_stream>>
      /\ UNCHANGED <<m_rx_stream_length, m_rx_length_buf, fault>>
      /\ m_rx_stream_index + 1 < m_rx_stream_length
      /\ m_rx_stream_index' = m_rx_stream_index + 1 /\ mp_rx_stream # "NULL"
      /\ m_rx_stream_index >= 2 /\ m_rx_stream_index \in Nat
  BY DEF PayloadByte, Write, IInv, RxInv, TypeOK
<1>2. /\ m_rx_stream_length = FrameLength(underway[1])
      /\ mp_rx_stream = "m_rx_buffer" =>
           \A i \in 1..Len(m_rx_buffer') : m_rx_buffer'[i] = <<underway[1], i + 1>>
  BY <1>1, WriteFacts
<1>3. LineInv'
  BY <1>1, <1>2, ReadOn
<1> QED BY <1>1, <1>2, <1>3 DEF HeadInv

(* The last byte completes the payload of the first packet underway. *)
LEMMA ReceivedIsPayload ==
  ASSUME PipeInv, PacketReceived
  PROVE  received' = Payload(underway[1]) /\ Identity(received') = underway[1]
<1> USE DEF PipeInv
<1> DEFINE h == underway[1]
           pay == Payload(h)
<1>1. /\ Write /\ UNCHANGED txVars /\ received' = m_rx_buffer'
      /\ mp_rx_stream = "m_rx_buffer" /\ m_rx_stream_index + 1 = m_rx_stream_length
      /\ m_rx_stream_index \in Nat
  BY DEF PacketReceived, IInv, TypeOK
<1>2. /\ h \in Packet /\ m_rx_stream_length = FrameLength(h)
      /\ Len(received') = m_rx_stream_index - 1 /\ received' \in Seq(Byte)
      /\ \A i \in 1..Len(received') : received'[i] = <<h, i + 1>>
  BY <1>1, WriteFacts
<1>3. Size[h] \in Nat /\ Size[h] >= 1 /\ FrameLength(h) = Size[h] + 2
  <2>1. Size[h] \in 1..UINT16_MAX - 2
    BY <1>2, PhyAssumption DEF SER_PHY_HEADER_SIZE
  <2> QED BY <2>1, PhyAssumption DEF FrameLength, SER_PHY_HEADER_SIZE
<1>4. Len(received') = Size[h]
  BY <1>1, <1>2, <1>3
<1>5. pay \in Seq(Byte) /\ Len(pay) = Size[h] /\ \A i \in 1..Size[h] : pay[i] = <<h, i + 1>>
  <2>1. ASSUME NEW i \in 1..Size[h] PROVE i + 2 - 1 = i + 1 /\ <<h, i + 1>> \in Byte
    BY <1>2, <1>3, FrameBytes
  <2>2. pay = [i \in 1..Size[h] |-> <<h, i + 2 - 1>>]
    BY DEF Payload, SER_PHY_HEADER_SIZE
  <2> HIDE DEF pay, h
  <2>3. \A i \in 1..Size[h] : <<h, i + 2 - 1>> \in Byte
    BY <2>1
  <2>4. pay \in Seq(Byte) /\ Len(pay) = Size[h]
    BY <1>3, <2>2, <2>3
  <2>5. \A i \in 1..Size[h] : pay[i] = <<h, i + 1>>
    BY <2>1, <2>2
  <2> QED BY <2>4, <2>5
<1> HIDE DEF pay
<1>6. received' = pay
  <2> DEFINE r == received'
  <2>1. /\ r \in Seq(Byte) /\ Len(r) = Size[h]
        /\ \A i \in 1..Size[h] : r[i] = <<h, i + 1>>
    BY <1>2, <1>4
  <2> HIDE DEF r, h
  <2>2. \A i \in 1..Len(r) : r[i] = pay[i]
    BY <1>5, <2>1
  <2>3. r = pay
    BY <1>5, <2>1, <2>2
  <2> QED BY <2>3 DEF r
<1>7. pay # <<>> /\ pay[1][1] = h
  BY <1>3, <1>5
<1> QED BY <1>6, <1>7 DEF Identity, pay

LEMMA LastByteKeepsLine ==
  ASSUME PipeInv, FreedInTime, PacketReceived \/ PacketDropped
  PROVE  LineInv' /\ HeadInv' /\ underway # <<>> /\ underway' = Tail(underway)
<1> USE DEF PipeInv
<1>1. /\ Write /\ Receive /\ UNCHANGED txVars /\ Ends /\ ~fault
      /\ m_rx_stream_index + 1 = m_rx_stream_length
      /\ mp_rx_stream' = "NULL" /\ m_rx_stream_index' = 0
  BY DEF PacketReceived, PacketDropped, Write, Receive, StreamCleared
<1>2. m_rx_stream_length = FrameLength(underway[1])
  BY <1>1, WriteFacts
<1>3. LineInv' /\ underway # <<>> /\ underway' = Tail(underway)
  BY <1>1, <1>2, ReadEnd
<1>4. ~fault' => rxState' \in {"IDLE", "RECEIVED"}
  BY <1>1, Tables DEF PacketReceived, PacketDropped, HeadInv
<1> QED BY <1>1, <1>3, <1>4 DEF HeadInv

(* A call of the upper layer moves nothing on the line. *)
LEMMA CallKeepsLine ==
  ASSUME PipeInv, RxPktFree \/ TxAlloc \/ UNCHANGED vars
  PROVE  LineInv' /\ HeadInv' /\ UNCHANGED <<underway, received>>
<1> USE DEF PipeInv
<1>1. UNCHANGED <<rxd, mp_tx_stream, m_tx_stream_index, txd, m_rx_stream_index, underway,
                  m_rx_stream_length, m_rx_length_buf, received, fault>>
  BY DEF RxPktFree, TxAlloc, vars, txVars, rxVars, rxStream
<1>2. OnLine' = OnLine
  BY <1>1 DEF OnLine
<1>3. LineInv'
  BY <1>1, <1>2 DEF LineInv
<1>4. /\ UNCHANGED <<mp_rx_stream, m_rx_buffer>>
      /\ ~fault => rxState' \in {"IDLE", "RECEIVING", "RECEIVED", "DROPPING"}
  <2>1. CASE RxPktFree
    BY <2>1, Tables DEF RxPktFree, HeadInv
  <2>2. CASE TxAlloc \/ UNCHANGED vars
    BY <2>2 DEF TxAlloc, vars, rxVars, rxStream, HeadInv
  <2> QED BY <2>1, <2>2
<1>5. HeadInv'
  BY <1>1, <1>4 DEF HeadInv
<1> QED BY <1>1, <1>3, <1>5
-----------------------------------------------------------------------------
(* Every step keeps the invariant, and is one of the pipe or leaves it alone. *)
LEMMA StepPipe ==
  ASSUME FreedInTime, PipeInv, [Next]_vars
  PROVE  PipeInv' /\ Pipe!Step
<1> USE DEF PipeInv
<1>1. IInv'
  BY StepIInv
<1>2. ASSUME NEW p \in Packet, TxSend(p) PROVE LineInv' /\ HeadInv' /\ Pipe!Step
  <2>1. underway' = Append(underway, p) /\ received' = received
    BY <1>2 DEF TxSend, Begins, rxVars
  <2> QED BY <1>2, <2>1, SendKeepsLine DEF Pipe!Step, Pipe!Next, Pipe!Send, Identity
<1>3. CASE TxStep
  <2>1. UNCHANGED <<underway, received>>
    BY <1>3 DEF TxStep, TxNext, TxPacketSent
  <2> QED BY <1>1, <1>3, <2>1, TxKeepsLine DEF Pipe!Step, Identity
<1>4. CASE HeaderByte \/ BufRequest \/ PayloadByte
  <2>1. UNCHANGED <<underway, received>>
    BY <1>4 DEF HeaderByte, BufRequest, PayloadByte
  <2> QED BY <1>1, <1>4, <2>1, HeaderKeepsLine, RequestKeepsLine, PayloadKeepsLine
          DEF Pipe!Step, Identity
<1>5. CASE PacketReceived
  <2>1. LineInv' /\ HeadInv' /\ underway # <<>> /\ underway' = Tail(underway)
    BY <1>5, LastByteKeepsLine
  <2>2. /\ underway[1] \in Packet /\ underway \in Seq(Packet)
        /\ Size[underway[1]] <= BufferSize
    BY <1>5, WriteFacts DEF PacketReceived, HeadInv
  <2>3. Head(underway) = underway[1]
    BY <2>1, <2>2
  <2>4. Identity(received)' = Head(underway)
    BY <1>5, <2>3, ReceivedIsPayload DEF Identity
  <2>5. Head(underway) \in {p \in Packet : Size[p] <= BufferSize}
    BY <2>2, <2>3
  <2>6. Pipe!Deliver
    BY <2>1, <2>4, <2>5 DEF Pipe!Deliver
  <2> QED BY <1>1, <2>1, <2>6 DEF Pipe!Step, Pipe!Next
<1>6. CASE PacketDropped
  <2>1. LineInv' /\ HeadInv' /\ underway # <<>> /\ underway' = Tail(underway)
    BY <1>6, LastByteKeepsLine
  <2>2. /\ underway[1] \in Packet /\ underway \in Seq(Packet)
        /\ Size[underway[1]] > BufferSize /\ received' = received
    BY <1>6, WriteFacts DEF PacketDropped, HeadInv
  <2>3. Head(underway) \notin {p \in Packet : Size[p] <= BufferSize}
    <3>1. Head(underway) = underway[1]
      BY <2>1, <2>2
    <3>2. Size[underway[1]] \in Int /\ BufferSize \in Int
      BY <2>2, PhyAssumption DEF SER_PHY_HEADER_SIZE
    <3> QED BY <2>2, <3>1, <3>2
  <2>4. Identity(received)' = Identity(received)
    BY <2>2 DEF Identity
  <2>5. Pipe!Discard
    BY <2>1, <2>3, <2>4 DEF Pipe!Discard
  <2> QED BY <1>1, <2>1, <2>5 DEF Pipe!Step, Pipe!Next
<1>7. CASE RxPktFree \/ TxAlloc \/ UNCHANGED vars
  BY <1>1, <1>7, CallKeepsLine DEF Pipe!Step, Identity
<1> QED BY <1>1, <1>2, <1>3, <1>4, <1>5, <1>6, <1>7, NoEmptyPacket, NoByteDiscarded
        DEF Next, RxStep

(* Packets that are freed in time arrive whole, once, and in the order they were
   sent, whatever their number and their lengths and however fast the receiver
   reads: the two ends implement the pipe. *)
THEOREM PipeImplemented == ASSUME FreedInTime PROVE Spec => ImplementsPipe
<1>1. Init => Pipe!Init
  BY DEF Init, Pipe!Init, Identity
<1>2. PipeInv /\ [Next]_vars => PipeInv' /\ [Pipe!Next]_<<underway, Identity(received)>>
  BY StepPipe DEF Pipe!Step
<1> QED BY InitPipe, <1>1, <1>2, PTL DEF Spec, ImplementsPipe, Pipe!Spec

(* The two ends keep step, and no packet is left unfinished when nothing is on the
   way: what keeps EveryPacketArrives from waiting for nothing. *)
THEOREM EndsKeepStep == Spec => []FramesInStep
<1>1. CASE FreedInTime
  <2>1. ASSUME PipeInv PROVE FramesInStep
    <3>1. IInv /\ LineInv
      BY <2>1 DEF PipeInv
    <3>3. Between = OnLine
      BY DEF Between, OnLine
    <3>4. OnLine = <<>> => underway = <<>> /\ m_rx_stream_index = 0
      BY <3>1, FirstByte DEF LineInv
    <3>5. OnLine # <<>> => underway # <<>> /\ OnLine[1] = <<underway[1], m_rx_stream_index>>
      BY <3>1, FirstByte
    <3> HIDE DEF Between, OnLine
    <3> QED BY <3>3, <3>4, <3>5 DEF FramesInStep
  <2>2. PipeInv /\ [Next]_vars => PipeInv'
    BY <1>1, StepPipe
  <2>3. PipeInv => FramesInStep
    BY <2>1
  <2> QED BY InitPipe, <2>2, <2>3, PTL DEF Spec
<1>2. CASE ~FreedInTime
  <2>1. FramesInStep
    BY <1>2 DEF FramesInStep
  <2> QED BY <2>1, PTL
<1> QED BY <1>1, <1>2
=============================================================================
