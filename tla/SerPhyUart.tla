----------------------------- MODULE SerPhyUart -----------------------------
(***************************************************************************)
(* One direction of the serial link, byte by byte: the sending half of     *)
(* ser_phy_nrf51_uart.c and ser_hal_transport.c at one end, the receiving  *)
(* half of both at the other, and the UART drivers between.  Both ends run *)
(* the same files, so this is a command on its way to the chip as well as  *)
(* an event or a response on its way to the host.                          *)
(*                                                                         *)
(* Each action is one UART interrupt, with all that its handlers do, or a  *)
(* call of the upper layer, which runs with the UART interrupt disabled.   *)
(* The FIFOs of app_uart_fifo.c are empty between any two of them: the     *)
(* receiving interrupt empties its own, and a byte is put into the sending *)
(* one only when the transmitter is idle, and leaves it at once.           *)
(*                                                                         *)
(* A byte is known by the packet it was sent for and its place in the      *)
(* frame, two bytes of length and the payload; the code looks at nothing   *)
(* of it but the length.                                                   *)
(***************************************************************************)
EXTENDS SerHalTransport, Integers, Sequences

CONSTANTS
  Packet,       (* packets the sending end may send                        *)
  Size,         (* their lengths                                           *)
  UINT16_MAX,   (* the largest length a header or an index can hold        *)
  BufferSize,   (* sizeof (m_rx_buffer)                                    *)
  RxdDepth,     (* bytes the UART holds until the interrupt reads them     *)
  Announced,    (* what two bytes that are not a header may be decoded to  *)
  FreedInTime,  (* the receiver frees a packet before the next one's       *)
                (* header is complete                                      *)
  DropsFatal,   (* the handler of a dropped packet does not return, as on  *)
                (* the connectivity chip                                   *)
  None

SER_PHY_HEADER_SIZE == 2

ASSUME PhyAssumption ==
  /\ UINT16_MAX \in Nat /\ UINT16_MAX >= 3
  /\ BufferSize \in 1..UINT16_MAX - SER_PHY_HEADER_SIZE
  /\ Size \in [Packet -> 1..UINT16_MAX - SER_PHY_HEADER_SIZE]
  /\ RxdDepth \in Nat \ {0}
  /\ Announced \subseteq 0..UINT16_MAX
  /\ FreedInTime \in BOOLEAN /\ DropsFatal \in BOOLEAN
  /\ None \notin Packet

(* Mutant: the length of a frame leaves out one byte of the header. *)
FrameLengthShort(p) == Size[p] + SER_PHY_HEADER_SIZE - 1

FrameLength(p) == Size[p] + SER_PHY_HEADER_SIZE
Byte == UNION {{p} \X (0..FrameLength(p) - 1) : p \in Packet}
Payload(p) == [i \in 1..Size[p] |-> <<p, i + SER_PHY_HEADER_SIZE - 1>>]

VARIABLES
  mp_tx_stream,       (* the packet being sent                             *)
  m_tx_stream_index,
  txd,                (* the byte in the transmitter                       *)
  rxd,                (* the bytes in the receiver                         *)
  rxInt,              (* the RXDRDY interrupt is enabled                   *)
  mp_rx_stream,       (* where payload is written: the buffer, m_rx_drop_buf, or NULL *)
  m_rx_stream_index,
  m_rx_stream_length,
  m_rx_length_buf,
  rxEvent,            (* evt_type of m_ser_phy_rx_event                    *)
  m_rx_buffer,
  received,           (* the packet last handed to the upper layer         *)
  fault,              (* app_error_fault_handler was called                *)
  underway            (* the packets whose transmission has begun and whose
                         reception has not ended, in order; followed only if
                         packets are freed in time, so that none is lost   *)

txVars == <<txState, mp_tx_stream, m_tx_stream_index, txd>>
rxStream == <<mp_rx_stream, m_rx_stream_index, m_rx_stream_length>>
rxVars == <<rxState, rxd, rxInt, rxStream, m_rx_length_buf, rxEvent, m_rx_buffer,
            received, fault>>
vars == <<txVars, rxVars, underway>>

TypeOK ==
  /\ rxState \in RxState \ {"CLOSED"} /\ txState \in TxState \ {"CLOSED"}
  /\ mp_tx_stream \in Packet \cup {None} /\ m_tx_stream_index \in Nat
  /\ txd \in Byte \cup {None} /\ rxd \in Seq(Byte) /\ Len(rxd) <= RxdDepth
  /\ rxInt \in BOOLEAN /\ fault \in BOOLEAN
  /\ mp_rx_stream \in {"NULL", "m_rx_buffer", "m_rx_drop_buf"}
  /\ m_rx_stream_index \in Nat /\ m_rx_stream_length \in Nat
  /\ m_rx_length_buf \in Seq(Byte)
  /\ rxEvent \in {"none", "RX_BUF_REQUEST", "RX_PKT_RECEIVED", "RX_PKT_DROPPED"}
  /\ m_rx_buffer \in Seq(Byte) /\ Len(m_rx_buffer) <= BufferSize
  /\ received \in Seq(Byte) /\ underway \in Seq(Packet)

(* Both ends have opened their transport, and have received nothing yet. *)
Init ==
  /\ ser_hal_transport_opened
  /\ mp_tx_stream = None /\ m_tx_stream_index = 0 /\ txd = None
  /\ rxd = <<>> /\ rxInt = TRUE
  /\ mp_rx_stream = "NULL" /\ m_rx_stream_index = 0 /\ m_rx_stream_length = 0
  /\ m_rx_length_buf = <<>> /\ rxEvent = "none"
  /\ m_rx_buffer = <<>> /\ received = <<>> /\ fault = FALSE
  /\ underway = <<>>
-----------------------------------------------------------------------------
(* A packet enters the line, and leaves it. *)
Begins(p) == underway' = IF FreedInTime THEN Append(underway, p) ELSE underway
Ends == underway' = IF FreedInTime THEN SubSeq(underway, 2, Len(underway)) ELSE underway

TxAlloc ==
  /\ Step(tx_pkt_alloc, txState)
  /\ UNCHANGED <<mp_tx_stream, m_tx_stream_index, txd, rxVars, underway>>

(* ser_hal_transport_tx_pkt_send and ser_phy_tx_pkt_send, whose first call of
   ser_phy_uart_tx starts the transmitter with the first byte of the header. *)
TxSend(p) ==
  /\ Step(tx_pkt_send, txState)
  /\ mp_tx_stream = None /\ m_tx_stream_index = 0
  /\ mp_tx_stream' = p
  /\ txd' = <<p, 0>> /\ m_tx_stream_index' = 1
  /\ Begins(p)
  /\ UNCHANGED rxVars

(* A byte has left the transmitter and is in the receiver, which the overrun of
   its RXD register aside, an error of its own, has room for it. *)
TxdReady == txd # None /\ Len(rxd) < RxdDepth /\ rxd' = Append(rxd, txd)

(* APP_UART_TX_EMPTY: ser_phy_uart_tx puts the next byte. *)
TxNext ==
  /\ TxdReady /\ m_tx_stream_index < FrameLength(mp_tx_stream)
  /\ txd' = <<mp_tx_stream, m_tx_stream_index>>
  /\ m_tx_stream_index' = m_tx_stream_index + 1
  /\ UNCHANGED <<txState, mp_tx_stream, rxState, rxInt, rxStream, m_rx_length_buf,
                 rxEvent, m_rx_buffer, received, fault, underway>>

(* The same after the last byte: callback_packet_sent. *)
TxPacketSent ==
  /\ TxdReady /\ m_tx_stream_index = FrameLength(mp_tx_stream)
  /\ txd' = None /\ mp_tx_stream' = None /\ m_tx_stream_index' = 0
  /\ Step(TxPktSent, txState)
  /\ UNCHANGED <<rxState, rxInt, rxStream, m_rx_length_buf, rxEvent, m_rx_buffer,
                 received, fault, underway>>
-----------------------------------------------------------------------------
(* nrf_drv_uart_rx, which uart_event_handler of app_uart_fifo.c calls at the end
   of each reception to be given the next byte: it enables the interrupt. *)
nrf_drv_uart_rx(int) == TRUE

(* A byte is read by the interrupt and given to ser_phy_uart_rx. *)
Receive == ~fault /\ rxInt /\ rxd # <<>> /\ rxd' = Tail(rxd)

(* ser_phy_rx_buf_set(stream): no memory has been granted when it is NULL. *)
Granted(stream) == stream # "NULL"

HeaderByte ==
  /\ Receive /\ mp_rx_stream = "NULL" /\ m_rx_stream_index = 0
  /\ m_rx_length_buf' = <<Head(rxd)>> /\ m_rx_stream_index' = 1
  /\ rxInt' = nrf_drv_uart_rx(rxInt)
  /\ UNCHANGED <<txVars, rxState, mp_rx_stream, m_rx_stream_length, rxEvent,
                 m_rx_buffer, received, fault, underway>>

(* uint16_decode of the header: the length of its packet, or, of two bytes that
   were not sent as a header, whatever they happen to mean. *)
DecodedLengths(b0, b1) ==
  IF b0[2] = 0 /\ b1 = <<b0[1], 1>> THEN {Size[b0[1]]} ELSE Announced

(* Mutant: a packet one byte larger than the buffer passes for one that fits. *)
FitsOneMore(n) == n <= BufferSize + 1

Fits(n) == n <= BufferSize

(* Mutant: the buffer is granted whatever it holds. *)
StreamForAny(n) == IF Fits(n) THEN "m_rx_buffer" ELSE "m_rx_drop_buf"

(* Where phy_events_handler has the packet written: into the buffer if that is
   free and large enough, into m_rx_drop_buf if it is too large, and nowhere
   yet if the buffer holds a packet. *)
StreamFor(n) ==
  IF ~Fits(n) THEN "m_rx_drop_buf"
  ELSE IF rxState = "IDLE" THEN "m_rx_buffer" ELSE "NULL"

HeaderComplete ==
  /\ Receive /\ mp_rx_stream = "NULL" /\ m_rx_stream_index = 1
  /\ FreedInTime => rxState # "RECEIVED"
  /\ m_rx_length_buf' = Append(m_rx_length_buf, Head(rxd))

(* The header is complete: ser_phy_uart_rx disables the interrupt,
   phy_events_handler enables it if it grants memory, and the driver enables it
   in any case.  m_rx_buffer is what was written since it was granted. *)
BufRequest ==
  /\ HeaderComplete
  /\ \E n \in DecodedLengths(m_rx_length_buf[1], Head(rxd)) \ {0} :
       /\ Step(BufRequested(Fits(n)), rxState)
       /\ mp_rx_stream' = StreamFor(n)
       /\ m_rx_stream_length' = (n + SER_PHY_HEADER_SIZE) % (UINT16_MAX + 1)
  /\ m_rx_stream_index' = SER_PHY_HEADER_SIZE
  /\ rxEvent' = "RX_BUF_REQUEST"
  /\ rxInt' = nrf_drv_uart_rx(Granted(mp_rx_stream'))
  /\ m_rx_buffer' = IF mp_rx_stream' = "m_rx_buffer" THEN <<>> ELSE m_rx_buffer
  /\ UNCHANGED <<txVars, received, fault, underway>>

(* callback_packet_received: the state of the reception is cleared before the
   upper layer is told. *)
StreamCleared ==
  mp_rx_stream' = "NULL" /\ m_rx_stream_index' = 0 /\ m_rx_stream_length' = 0

(* A header that announces no payload completes its packet within the request
   for memory: the packet is empty if the buffer was granted, and an event the
   transport does not expect if the request waits for it. *)
EmptyPacket ==
  /\ HeaderComplete /\ 0 \in DecodedLengths(m_rx_length_buf[1], Head(rxd))
  /\ StreamCleared
  /\ rxEvent' = "RX_PKT_RECEIVED"
  /\ rxInt' = nrf_drv_uart_rx(Granted(StreamFor(0)))
  /\ \/ /\ rxState = "IDLE"
        /\ rxState' = PktReceived[BufRequested(TRUE)[rxState]]
        /\ m_rx_buffer' = <<>> /\ received' = <<>> /\ UNCHANGED fault
     \/ /\ rxState = "RECEIVED"
        /\ rxState' = BufRequested(TRUE)[rxState] /\ fault' = TRUE
        /\ UNCHANGED <<m_rx_buffer, received>>
  /\ UNCHANGED <<txVars, underway>>

(* No memory has been granted, or the length of the frame did not fit its
   uint16_t: ser_phy_uart_rx does nothing with the byte. *)
ByteDiscarded ==
  /\ Receive /\ m_rx_stream_index = SER_PHY_HEADER_SIZE
  /\ mp_rx_stream = "NULL" \/ m_rx_stream_index >= m_rx_stream_length
  /\ rxInt' = nrf_drv_uart_rx(rxInt)
  /\ UNCHANGED <<txVars, rxState, rxStream, m_rx_length_buf, rxEvent, m_rx_buffer,
                 received, fault, underway>>

(* The byte is written to the stream; m_rx_drop_buf keeps only the last one. *)
Write ==
  /\ Receive /\ mp_rx_stream # "NULL"
  /\ m_rx_buffer' = IF mp_rx_stream = "m_rx_buffer" THEN Append(m_rx_buffer, Head(rxd))
                                                   ELSE m_rx_buffer
  /\ rxInt' = nrf_drv_uart_rx(rxInt)

PayloadByte ==
  /\ Write /\ m_rx_stream_index + 1 < m_rx_stream_length
  /\ m_rx_stream_index' = m_rx_stream_index + 1
  /\ UNCHANGED <<txVars, rxState, mp_rx_stream, m_rx_stream_length, m_rx_length_buf,
                 rxEvent, received, fault, underway>>

(* Mutant: the end of a reception leaves the index behind. *)
PacketReceivedKeepsIndex ==
  /\ Write /\ m_rx_stream_index + 1 = m_rx_stream_length
  /\ mp_rx_stream = "m_rx_buffer" /\ Step(PktReceived, rxState)
  /\ mp_rx_stream' = "NULL" /\ m_rx_stream_length' = 0
  /\ m_rx_stream_index' = m_rx_stream_index + 1
  /\ rxEvent' = "RX_PKT_RECEIVED" /\ received' = m_rx_buffer'
  /\ Ends
  /\ UNCHANGED <<txVars, m_rx_length_buf, fault>>

PacketReceived ==
  /\ Write /\ m_rx_stream_index + 1 = m_rx_stream_length
  /\ mp_rx_stream = "m_rx_buffer" /\ Step(PktReceived, rxState)
  /\ StreamCleared
  /\ rxEvent' = "RX_PKT_RECEIVED" /\ received' = m_rx_buffer'
  /\ Ends
  /\ UNCHANGED <<txVars, m_rx_length_buf, fault>>

PacketDropped ==
  /\ Write /\ m_rx_stream_index + 1 = m_rx_stream_length
  /\ mp_rx_stream = "m_rx_drop_buf"
  /\ IF DropsFatal THEN fault' = TRUE /\ UNCHANGED rxState
                   ELSE Step(PktDropped, rxState) /\ UNCHANGED fault
  /\ StreamCleared
  /\ rxEvent' = "RX_PKT_DROPPED"
  /\ Ends
  /\ UNCHANGED <<txVars, m_rx_length_buf, received>>

(* The upper layer is done with the packet: ser_hal_transport_rx_pkt_free, which
   grants the buffer to the request that waits for it. *)
RxPktFree ==
  /\ ~fault /\ Step(rx_pkt_free, rxState)
  /\ IF rxState = "RECEIVED_PENDING_BUF_REQ"
     THEN /\ rxEvent = "RX_BUF_REQUEST"
          /\ mp_rx_stream' = "m_rx_buffer" /\ m_rx_buffer' = <<>> /\ rxInt' = TRUE
     ELSE UNCHANGED <<mp_rx_stream, m_rx_buffer, rxInt>>
  /\ UNCHANGED <<txVars, rxd, m_rx_stream_index, m_rx_stream_length, m_rx_length_buf,
                 rxEvent, received, fault, underway>>
-----------------------------------------------------------------------------
TxStep == TxNext \/ TxPacketSent
RxStep == \/ HeaderByte \/ BufRequest \/ EmptyPacket \/ ByteDiscarded
          \/ PayloadByte \/ PacketReceived \/ PacketDropped

Next == TxStep \/ RxStep \/ RxPktFree \/ TxAlloc \/ \E p \in Packet : TxSend(p)

Spec == Init /\ [][Next]_vars

(* Both UARTs keep going, and the receiver's upper layer is done with each packet
   some time.  Nothing obliges anyone to send. *)
FairSpec == Spec /\ WF_vars(TxStep) /\ WF_vars(RxStep) /\ WF_vars(RxPktFree)
-----------------------------------------------------------------------------
(* The PHY and the transport above it agree on the reception, whatever bytes
   arrive: memory is granted exactly in the states that say so, the buffer always
   has a byte to come, and a request that waits can still be granted, for it is
   the last thing the PHY has said.  (Two state machines in two files, which
   ser_phy_rx_buf_set and the events of the PHY keep in step.) *)
StreamAgrees ==
  ~fault =>
    /\ (mp_rx_stream = "m_rx_buffer") <=> (rxState = "RECEIVING")
    /\ (mp_rx_stream = "m_rx_drop_buf") <=> (rxState \in DOMAIN PktDropped)
    /\ (mp_rx_stream = "NULL" /\ m_rx_stream_index = SER_PHY_HEADER_SIZE)
         <=> (rxState = "RECEIVED_PENDING_BUF_REQ")
    /\ mp_rx_stream = "m_rx_buffer" =>
         m_rx_stream_index \in SER_PHY_HEADER_SIZE..m_rx_stream_length - 1
    /\ rxState = "RECEIVED_PENDING_BUF_REQ" => rxEvent = "RX_BUF_REQUEST"

(* Nothing is written over a packet before the upper layer has freed it, whatever
   arrives in the meantime: m_rx_buffer is the only one there is. *)
PacketUntouched ==
  ~fault /\ rxState \in DOMAIN rx_pkt_free => m_rx_buffer = received

(* The bytes between the two ends, the next to be read first. *)
Between == rxd \o (IF mp_tx_stream = None THEN <<>> ELSE <<txd>>)

(* The ends keep step, if packets are freed in time: the next byte to be read is the
   one of the first unfinished packet that the receiver's index says, and with no
   byte on the way no packet is left unfinished and the receiver is between two
   frames, so that it never waits within a frame for bytes that do not come.  (Two
   indexes, one at each end, that nothing but the bytes themselves keeps in step:
   there is no delimiter, no number and no timer in this PHY.) *)
FramesInStep ==
  FreedInTime =>
    IF Between = <<>> THEN underway = <<>> /\ m_rx_stream_index = 0
    ELSE underway # <<>> /\ Between[1] = <<underway[1], m_rx_stream_index>>

(* The packet some bytes are the payload of. *)
Identity(bytes) ==
  IF bytes = <<>> THEN None
  ELSE IF bytes = Payload(bytes[1][1]) THEN bytes[1][1] ELSE bytes

(* What was sent arrives, see PacketPipe: a packet is on its way from the moment
   its transmission starts until its last byte is received. *)
Pipe == INSTANCE PacketPipe WITH
  Fitting <- {p \in Packet : Size[p] <= BufferSize},
  got     <- Identity(received),
  pipe    <- underway

ImplementsPipe == Pipe!Spec

(* The reception of a packet whose transmission has started comes to its last
   byte: no byte is lost on the way, and the receiver is always given the next. *)
EveryPacketArrives ==
  \A p \in Packet :
    txd = <<p, 0>> ~>
      /\ m_rx_stream_index = FrameLength(p) - 1
      /\ m_rx_length_buf = <<<<p, 0>>, <<p, 1>>>>
=============================================================================
