--------------------------- MODULE SerHalTransport ---------------------------
(***************************************************************************)
(* ser_hal_transport.c: one reception buffer and one transmission buffer,  *)
(* and who owns each of them.                                              *)
(*                                                                         *)
(* Every state change is a transition table: a function whose domain is    *)
(* the set of states in which the call or the PHY event is legal.  Outside *)
(* its domain an API call returns NRF_ERROR_INVALID_STATE (NRF_ERROR_NO_MEM*)
(* for an allocation) and changes nothing, and a PHY event is a fatal      *)
(* error ("Lower layer should not generate this event in current state").  *)
(***************************************************************************)
VARIABLES
  rxState,   (* m_rx_state, without its HAL_TRANSP_RX_STATE_ prefix         *)
  txState    (* m_tx_state, without its HAL_TRANSP_TX_STATE_ prefix         *)

RxState == {"CLOSED", "IDLE", "RECEIVING", "DROPPING", "RECEIVED",
            "RECEIVED_DROPPING", "RECEIVED_PENDING_BUF_REQ"}
TxState == {"CLOSED", "IDLE", "TX_ALLOCATED", "TRANSMITTING"}

Step(table, state) == state \in DOMAIN table /\ state' = table[state]

(* ser_hal_transport_open on success; ser_hal_transport_close. *)
ser_hal_transport_opened == rxState = "IDLE" /\ txState = "IDLE"
ser_hal_transport_close == rxState' = "CLOSED" /\ txState' = "CLOSED"
-----------------------------------------------------------------------------
(* SER_PHY_EVT_RX_BUF_REQUEST: the header of a packet has arrived; fits tells
   whether the length it announces is within the buffer. *)
BufRequested(fits) ==
  IF fits THEN [IDLE |-> "RECEIVING", RECEIVED |-> "RECEIVED_PENDING_BUF_REQ"]
          ELSE [IDLE |-> "DROPPING", RECEIVED |-> "RECEIVED_DROPPING"]

(* SER_PHY_EVT_RX_PKT_RECEIVED and SER_PHY_EVT_RX_PKT_DROPPED. *)
PktReceived == [RECEIVING |-> "RECEIVED"]
PktDropped  == [DROPPING |-> "IDLE", RECEIVED_DROPPING |-> "RECEIVED"]

(* Mutant: a request for a buffer that waits for this one is forgotten. *)
rx_pkt_freeForgets ==
  [RECEIVED |-> "IDLE", RECEIVED_DROPPING |-> "DROPPING",
   RECEIVED_PENDING_BUF_REQ |-> "IDLE"]

(* ser_hal_transport_rx_pkt_free; the pending request is granted the buffer. *)
rx_pkt_free ==
  [RECEIVED |-> "IDLE", RECEIVED_DROPPING |-> "DROPPING",
   RECEIVED_PENDING_BUF_REQ |-> "RECEIVING"]
-----------------------------------------------------------------------------
(* ser_hal_transport_tx_pkt_alloc, _tx_pkt_send and _tx_pkt_free. *)
tx_pkt_alloc == [IDLE |-> "TX_ALLOCATED"]
tx_pkt_send  == [TX_ALLOCATED |-> "TRANSMITTING"]
tx_pkt_free  == [TX_ALLOCATED |-> "IDLE"]

(* SER_PHY_EVT_TX_PKT_SENT: TRANSMITTED lasts only until the handler frees the
   buffer, which it does before it tells the upper layer. *)
TxPktSent == [TRANSMITTING |-> "IDLE"]
=============================================================================
