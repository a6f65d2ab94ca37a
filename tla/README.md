# Verification of the sss_swc11ac connectivity firmware

The repository holds the firmware of a communication chip: an nRF51822 with the
S130 SoftDevice for BLE and an SX1276 for LoRa, which an STM32 host commands over
a UART with Nordic's serialization protocol.  This directory holds TLA+ models of
its concurrent core, of the library's other ends and variants (the host's side of
the protocol, the HCI physical layer, the BLE stream service), TLC configurations that
check them on small instances, and TLAPS proofs for every value of their constants.

Paths below are relative to the repository root; `SDK` stands for
`sdk/nRF5_SDK_11.0.0_89a8197/components`, `SER` for `src/serialization_lib`.

## 1. Inventory

### Contexts

| context | what runs there |
|---|---|
| main loop | `normal_mode`: `app_sched_execute`, `ser_conn_rx_process`, `on_idle`, and whatever handlers these call |
| SoftDevice event interrupt | `ser_conn_ble_event_handle`, which puts each BLE event into the scheduler |
| UART interrupt (highest application priority) | `app_uart_fifo`, `ser_phy_uart`, `phy_events_handler`, `ser_conn_hal_transport_event_handle`, down to `app_sched_pause`/`resume` and, for DTM, `dtm_start` |
| GPIOTE interrupt | the SX1276's DIO0 and DIO1 handlers, which access the radio over SPI |
| on a host that uses the library: main loop, SoftDevice event interrupt, UART interrupt | calls of the SoftDevice, handlers of events, and the PHY events with everything they run |

`main.c` has `is_factory_mode = false`, so the factory, alpha, BLE and base tests
and the shell are never entered.  `APP_ERROR_CHECK` of anything but `NRF_SUCCESS`
ends in `app_error_fault_handler`, which in the default (debug) build masks the
interrupts and loops.

### Components

| component | state | operations | what makes it correct |
|---|---|---|---|
| application scheduler (`app_scheduler_serconn.c`) | ring of event entries, start and end index, pause counter | put (any level), execute, pause, resume | a bounded FIFO; the entry a handler works on is not overwritten |
| UART FIFO driver (`app_uart_fifo.c`, `app_fifo.c`, `nrf_drv_uart.c`) | two byte rings, one byte in each direction in the driver | put, get, the three driver events | no byte lost, duplicated or reordered; the reception is re-armed |
| PHY (`ser_phy_nrf51_uart.c`) | stream pointer, length and index in each direction, last RX event | byte received, byte sent, `tx_pkt_send`, `rx_buf_set` | frames delivered are frames sent |
| HAL transport (`ser_hal_transport.c`) | `m_rx_state`, `m_tx_state`, two buffers | open, close, alloc, send, free, the seven PHY events | each buffer has one owner |
| connectivity application (`ser_conn_*.c`, `conn_mw.c`, codecs) | packet to process, DTM flag | received packet, command, event, DTM and reset handling | one response for each command, responses before events, no pause without a resume |
| main loop (`normal_mode.c`) | position in the loop | execute, process, idle | no work is left while it sleeps |
| LoRa radio (`sx1276.c`, `sx1276_board.c`, `alpha_radio_handler.c`) | `Settings.State`, operating mode, FIFO | Send, Rx, Sleep, CAD, the two DIO handlers | state and chip agree; every reception and transmission is reported |
| HCI PHY (`ser_phy_hci.c`, `ser_phy_hci_slip.c`) | two state machines at each end with a queue of events each, sequence and acknowledgement numbers, a retransmission timer, SLIP's frame in progress and queue of one, its small and its big reception buffer | `tx_pkt_send`, `rx_buf_set`, SLIP's events, the timer | each packet taken once and in order over a line that loses frames; each request answered |
| host peer (`SER/application/transport/ser_sd_transport.c`) | `m_rsp_wait`, the decoder, the return value | command write, the PHY's events, receive | each call returns its own response |
| mailbox (`app_mailbox.c`) | ring, two indexes, length | put (UART interrupt), get | a bounded FIFO |
| SoftDevice handler (`ser_softdevice_handler.c`, `softdevice_handler.c`) | pending interrupt, scheduled `softdevice_evt_get` | pull events until there is none, wake a wait | no event is left in the mailbox |
| stream service (`ble_strm_handler.c`, `ble_strm.c`) | reception buffer, length and state; transmission buffer, offset and flag; lock | write, read, confirmation, disconnection, handling in the main loop, `data_send` | whole messages, whole answers, no transfer left hanging |
| DTM (`dtm_uart.c`, `ble_dtm`) | test-mode state | entered from the TX-sent event, never left | entered only after its response |
| timers, storage, shell, tests, tracing | | | not used by the normal mode, or pure I/O |

Components call downwards and are called back upwards: a byte received in the UART
interrupt may run through PHY, transport and connectivity handlers in one call
chain.  The main loop and the interrupts share `m_tx_state`, `m_rx_state`,
`m_rx_pkt_to_process`, the scheduler's ring and its pause counter.

On the host the call chain is the mirror image: a call of the SoftDevice allocates,
writes and sends a command and then waits, in its own context, for a flag that the UART
interrupt clears when the response has come; events go from the UART interrupt into the
mailbox, raise the SoftDevice event interrupt, and are pulled from there or from the
scheduler, by handlers which may call the SoftDevice themselves.

### What is hard

`PROJECT.json` lists the hazards, each at its line.  In short: puts that nest;
a handler that works on a pointer into the ring; a pause that is taken after the
transmission whose end releases it; a loop that waits for a buffer in the very
context that would release it; state shared with the UART interrupt without a
critical section; a header that arrives while the previous packet is still being
processed; a sleep that must not miss an interrupt; warnings that are fatal; a radio
interrupt between any two register accesses of a call that is changing what it means;
an acknowledgement that is lost, late or for the packet before; a response that belongs
to another call of the same opcode; an event that arrives while the mailbox is being
emptied; a connection that is lost, and another one made, in the middle of a message.

## 2. Modules

| module | models |
|---|---|
| `BoundedFifo` | abstract: what the scheduler promises |
| `AppScheduler` | `SDK/libraries/scheduler/app_scheduler_serconn.c` |
| `AppSchedulerProofs` | TLAPS proofs about it |
| `SerHalTransport` | the state tables of `SER/common/transport/ser_hal_transport.c` |
| `CommandLink` | abstract: what the chip promises the host |
| `SerConn` | the composition: main loop, `SER/connectivity`, transport, wire, host, SoftDevice |
| `SerConnProofs`, `SerConnRefinement` | TLAPS proofs about it |
| `PacketPipe` | abstract: what one direction of the serial link promises |
| `SerPhyUart` | one direction of the link byte by byte: `ser_phy_nrf51_uart.c` between `ser_hal_transport.c` and the UART drivers |
| `SerPhyUartProofs` | TLAPS proofs about it |
| `Sx1276Radio` | the LoRa half of `sx1276.c` with its DIO handlers, and the chip as they expect it |
| `Sx1276RadioProofs` | TLAPS proofs about it |
| `SerPhyHci` | both ends of the HCI physical layer: `ser_phy_hci.c` over `ser_phy_hci_slip.c`, on a line that loses frames |
| `SerPhyHciProofs` | TLAPS proofs about it |
| `SerSdHost` | the host: `ser_sd_transport.c`, mailbox and SoftDevice handler, composed with `CommandLink` as the chip |
| `SerSdHostProofs` | TLAPS proofs about it |
| `BleStrm` | `sdk/libraries/nrf51/ble/ble_strm/ble_strm_handler.c` and `ble_strm.c`, with the phone and the SoftDevice as they expect them |
| `BleStrmProofs` | TLAPS proofs about it |
| `MCAppScheduler`, `MCSerConn`, `MCSerPhyUart`, `MCSx1276Radio`, `MCSerPhyHci`, `MCSerSdHost`, `MCBleStrm` | values of the constants for TLC |

How they fit together: `SerConn` uses the queue that `AppScheduler` is shown to
implement (`BoundedFifo`), the tables of `SerHalTransport` and frames as
`SerPhyUart` delivers them (`PacketPipe`); it implements `CommandLink`, which is all
that `SerSdHost` knows of the chip.  `SerPhyHci` implements a `PacketPipe` in each
direction.  The mailbox of `SerSdHost` implements `BoundedFifo`.

**AppScheduler.**  Interrupts are levels; code of a level runs only while no higher
level does.  A put is two steps, the critical region that reserves an entry
(`Reserve`) and the writing of the entry (`Write`), so puts nest in every way the
levels allow.  `app_sched_execute` is four steps: pause test, taking the entry's
index, reading the entry, return of the handler.  The pause counter may be raised
and lowered by anyone at any time.

**SerHalTransport.**  Each call and PHY event is a table from the states it is legal
in to the state it leads to.  Outside the table the code returns an error or
fails an assertion.  `SerConn` uses the tables in its actions, and `CallsLegal`
states that nothing is ever called outside them.

**SerConn.**  `pc` is the main loop's position, with a step wherever it shares state with
the interrupts: the pause test and the queue access of `app_sched_execute`; allocation,
sending and pausing in `ser_conn_ble_event_encoder`; the packet test, allocation, sending
and freeing in the command path; the idle wait.  A PHY event is one step together with
everything its handlers do.  The scheduler's queue is the sequence that `AppScheduler`
implements.  A command is known by its kind: one with a codec, malformed, without codec, of
an unknown packet type, too large, DTM, reset.  An event is known by whether it fits a
scheduler entry, whether it has an encoder, and whether its encoder refuses it
(`EncodeFails`), which is fatal.  The host (modelled from the application side of the
serialization library) keeps one command outstanding and waits for its response; the model
also has it wait for a reset to be over, since nothing tells it when that is.  `fault` is
the code the fault handler was called with; a chip with a fault takes no step. Where a byte
is discarded while a buffer request is pending (`RxByteLost`), the packet stays short and
the host waits for ever.

**SerPhyUart.**  Each action is one UART interrupt with all the handlers it runs, or one
call of the upper layer, which runs with the interrupt disabled.  The sender's variables are
`ser_phy`'s stream and index and the byte in the transmitter; the receiver's are the bytes
in the UART, the interrupt mask, stream, index, length, the last PHY event and the
transport's `m_rx_state`.  A byte is known by the packet it was sent for and its place in
the frame, so a lost byte makes the receiver take payload for a header, which is decoded to
any of the lengths in `Announced`.  The FIFOs of `app_uart_fifo.c` are empty between any two
actions: a received byte is taken out by the interrupt that put it in, a byte to send is put
only when the transmitter is idle.  `underway` is a history variable: the packets whose
transmission has begun and whose reception has not ended.  The code has no such variable; it
is what `PacketPipe` calls `pipe`, and no action's guard looks at it.  `SerConn` uses the
frame-level view of the same code; the bridge between the two is `BufferReady`, which gives
`FreedInTime`.

**Sx1276Radio.**  `todo` holds the accesses that the driver's call in progress has
still to make, and each main-loop step is one of them: a register written, the
FIFO, the operating mode, or `Settings.State`.  A DIO handler is one step and comes
between any two of them; unless `SpiAtomic`, also within one.  GPIOTE calls the
handler on a change of the pin (`seenHigh`), so a flag that is never cleared silences
its pin.  `State` decides what the handler of DIO0 takes the interrupt for, and that
is what most properties are about.  Three history variables, which no guard looks at, say
when nothing can be said.  `repeated`: a Send was made in `RF_TX_RUNNING` or an Rx in
`RF_RX_RUNNING`, after which `State` may be wrong (section 4).  The others tell where
driver and chip cannot agree on the one FIFO: `overtaken`, a packet was received during
the call in progress; `parted`, the chip writes the next packet elsewhere than where the
driver reads next, after one that was not read or a call that set the pointer over a
running reception, until a reception starts from rest.  No handler of a command looks at
`State`; `HostWhenIdle` of `MCSx1276Radio` restricts a run to a host that
does (`radio_spi`), and is no property of the code.  The chip is modelled from what the driver
expects: a masked flag is not set, a pin is high while its flag is, a single reception
ends in standby, FIFO pointers advance and wrap, sleeping clears the FIFO.

**SerPhyHci.**  Two nodes run the same actions.  A transmission goes through the five
states of `hci_tx_fsm`, a reception through the four of `hci_rx_fsm`; SLIP has one frame
in progress and one that waits, and either may be a packet or an acknowledgement.  The
timer's first tick only loads its counter (`TimerLoads`), the second one retransmits or,
after `MAX_RETRY_COUNT`, gives up.  A frame that has left one end may be lost, or broken,
before the other has read it (`Lose`).
`handed`, `sent`, `accepted` and `reported` count what the properties compare.  This PHY
is not in the firmware's build list; the library offers it in place of the UART PHY.

SLIP receives along one of two paths.  A frame that begins while the small buffer is free
goes there, and moves to the big one if it is a packet; the buffer is locked and then
the frame reported (`ReadAck`, `ReadData`).  While an acknowledgement holds the small
buffer, waiting in the queue of the transmission's state machine, a frame of either kind
goes to the big buffer from its first byte (`ReadBegins`), and is reported *before* that
buffer is locked (`ReadBig`, `HandlerReturns`).  Between the two nothing happens but what the
report calls.  A free made there is refused: `refused` records the refusals nobody looks
at, `asserted` those that fail an assertion, which stops the link.

Simplified: a received frame that waits in its queue keeps its place among the received
ones, and any other event that would have to wait behind it comes later instead; a broken
frame in the small buffer, or in the big one once it is locked, is freed and so the same
as a lost one.

**SerSdHost.**  `pc` has a place for the main loop and one for the event interrupt, and
the main loop rests while the interrupt runs.  A call is allocation, writing the command
(which sets `m_rsp_wait` and the decoder), sending, and the wait.  `tx_buf_alloc` spins
until the buffer is free.  PHY events are steps of their own: the response clears
`m_rsp_wait` and is decoded, an event goes into the mailbox and makes the event
interrupt pending.  `IrqEvents` chooses where events are handled, as
`SOFTDEVICE_HANDLER_INIT` does.  The chip's variables are those of `CommandLink`.  A reset
of the chip loses nothing: `conn_systemreset` does not wait for the chip to be back, and
the model assumes that whoever calls it does; a command sent meanwhile would be lost,
and its call would never return.

**BleStrm.**  `write_handler`, `read_handler`, `hvc_handler`, connection and disconnection
are one step each, being handlers of one SoftDevice event; `rx_sched_evt` is a step for each
place where such a handler can come between: the call of the application, its `data_send`
with its first indication, and the three assignments at the end.  A byte is known by its
message and its place; a message on the air begins with its length; a first write is put
behind what `m_rx_buffer_len` says is there, in a buffer of zeros (`Blank`), as in the code.
The phone writes a message to its end, waits for the answer if there is one, and may leave
at any time.

## 3. Runs

| run | bounds | shows |
|---|---|---|
| `scheduler` | ring of 3, levels 0 to 2, two events and an oversized one, counter up to 2 | the ring is a bounded FIFO (`ImplementsFifo`); the entry in service is never given away (`HandlerSeesItsEvent`); unless the scheduler stays paused the head of the queue is served (`HeadIsServed`) |
| `link_good` | two commands and a reset, two events, queue of 3, slow wire | `PauseBalance`, `BufferReady`, `CommandAnswered`, `EventsFlow`, no deadlock |
| `link_any` | one command of each of the seven kinds, five events, one of them too large, one without encoder and one that its encoder refuses, hardware errors, any wire speed, queue of 2 | `CommandOwnsBuffer`, `CommandInWork`, `WakeIsNotLost`, `CallsLegal`, `ImplementsLink` up to the fault, if any |
| `pause_leak` | as `link_good` with a wire of any speed | **violation** of `SchedulerReleased` |
| `phy_link` | packets of 1, 2 and 3 bytes, buffer of 2, packets freed in time | `FramesInStep`, `ImplementsPipe`, `EveryPacketArrives` |
| `phy_late` | the same, freed at any time, garbled headers of length 0, 2, 3 and 65535 | `StreamAgrees`, `PacketUntouched` |
| `hci_link` | 9 packets one way, the last too large, 1 the other way once 8 have come (`After`), two retries, any frame lost or broken, acknowledgements and packets handled at once or later | `SentIsAccepted`, `BigBufferFreed`, `RequestInWork`, `ImplementsPipes`, `EveryRequestAnswered` |
| `host_sd` | two calls of one opcode, one of them made by an event's handler, a reset, a power off, 3 events, mailbox of 2, one hardware error, scheduled events | `OwnAnswer`, `MailboxIsFifo`, `EventsWillBePulled`, `WaitWillEnd`, `CallsReturn` |
| `hci_assert` | the same | **violation** of `AssertionsHold` |
| `radio_status` | two packets, FIFO of 3, every call in every `State`, wrong checksums | `StatusCurrent`, `InterruptsTold`, `FlagsAreTold`, `TransmissionEnds`, `SentAsAsked`, `ReportedAsReceived`, `AsleepIsIdle` |
| `radio_spi` | an interrupt may come within a transfer | **violation** of `StatusCurrent` |
| `ble_strm` | messages of 4, 0 and 1 units, an answer of 4, a read of 2, fragments of 2, two connections lost at any time, a password | `MessagesWhole`, `AnswersWhole`, `NothingStuck`, `TransfersEnd` |

`phy_late` also checks the module's type invariant, which says there that nothing is
written beyond the buffer; those of the other modules are theorems only.  The largest
runs are `radio_status` (1,107,467 states), `link_any` (491,183) and `hci_link` (351,192).

Why the bounds are enough.  A ring of three with one spare entry wraps within four
puts, and three levels let two puts nest within a third.  The link has one
command outstanding by construction, so two of the same kind show every order of a
command after a command; a queue of two or three lets events be waiting, prepared
and on the wire at once.  The counter of pauses is bounded by its own limit
(`PauseMax`); no run of `SerConn` gets beyond 3 of the 4 it allows.

The buffer of `SerPhyUart` holds two bytes, so that of three packets one is smaller,
one fills it and one is too large; the UART holds six bytes as the hardware does
(three where the number of states asks for it, which is more than a frame's header).
65535 is the header's real limit, where the frame's length wraps.  The radio's FIFO
of three packets makes the address pointers of a continuous reception wrap, and two
packets tell one from the other.

Nine packets wrap the 3-bit sequence numbers of `SerPhyHci`; one packet the other way makes
data and acknowledgements compete for SLIP's queue of one.  It is sent after the eighth
(`After`), which keeps the states of the two directions from multiplying.  Two calls of one
opcode are what it takes to confuse responses, a mailbox of two with three events wraps, and
the error may come at any point.  The messages of `ble_strm` are one of three fragments with
its header, one of none and one of one byte; two connections show what one leaves to the
next.

`link_any`, `phy_late`, `hci_link`, `host_sd`, `ble_strm`, the radio's runs and the
violation runs have the deadlock check off because the system really stops: at a fault,
in DTM, after a dropped packet, with a receiver that waits for a lost byte, with a driver
that nobody calls in the `State` it is in, after the power off, or with upper layers and
phones that have nothing more to send.

`SlowWire` is the assumption that a frame takes longer on the wire than the one
statement of the main loop that follows its sending.  A frame has at least 5 bytes,
5 ms at 9600 baud; the statement takes microseconds unless other interrupts hold
the main loop up that long.  The runs and theorems that need it say so.

**Fairness.**  `scheduler`: interrupt handlers end, and the main loop's steps, which
interrupts and pauses can disable again and again, are taken if they are possible again and
again (strong fairness: interrupts do not take the whole processor). `link_good`: weak
fairness of the main loop as a whole and of each arrival on the wire: bytes that were sent
arrive.  Nothing obliges the host to send or the SoftDevice to raise an event.  `EventsFlow`
assumes that the host ends up quiet: commands have priority, and a host that always has one
on the way can hold events back for ever. `phy_link`: bytes move, interrupts are served and
the receiver frees its packets. `radio_status`: the main loop and the handlers run, and a
transmission comes to its end; nothing obliges anyone to send to this chip, so a reception
may last for ever. `hci_link`: weak fairness of the link as a whole, the interrupts of both
UARTs and timers, the handling of what they queue, and the answers of the upper layer to
requests for memory (`Goes`): as long as one of these is possible, one is taken.  Requests
and losses are not obliged, nor restricted, which is why a request may also end in an error,
or at an assertion that stops an end (`Running`).  `host_sd`: the contexts run, interrupts
are served, and the chip answers what it has received, which is `CommandAnswered` of
`SerConn`.  `ble_strm`: the main loop runs, the phone writes what it has begun and the
password, and indications are delivered and their confirmations reported.

## 4. Findings

* **A pause that is never undone** (`pause_leak`).  `ser_conn_event_encoder.c:57`
  starts the transmission, line 65 pauses the scheduler.  When the main loop is held
  up between the two for the length of the frame, the resume comes first and does
  nothing, and the pause stays: no event is ever sent again.
* **SPI is shared without a lock** (`radio_spi`).  A DIO handler within a transfer of
  the main loop ends it: the write that puts the radio to sleep is lost, and `State`
  says idle while the chip receives.
* **A buffer is freed before it is locked** (`hci_assert`).  While an acknowledgement holds
  the small buffer (the events are disabled, or the UART interrupt came upon a context
  that is in the state machine), `ser_phy_hci_slip.c:504` reports the next frame before
  line 507 locks the big buffer; the other path locks first.  A free within the report is refused.
  The assertion at `ser_phy_hci.c:800` fails for a broken frame (the trace), that at `:921`
  for an acknowledgement.  For a packet that is granted memory, or repeats one, within
  the report the refusal is ignored (`:1112`, `:1096`), line 507 takes the
  buffer away, and nothing gives it back.

The rest is plain from the code, or was met by changing a constant of a run, and has no
run of its own.

* BLE events larger than a scheduler entry are refused, which is fatal; so is a full
  queue.  A bandwidth above 2 hangs the main loop (`sx1276.c:482`).
* `ser_config.h:28` says of `SER_WARNING_CODE` that it is "not critical so system should
  NOT be reseted"; the `APP_ERROR_CHECK` at `ser_conn_cmd_decoder.c:56` does not tell it
  from an error.  `conn_mw_alpha_open_tx` drops the result of its decoder.
* `ser_phy_nrf51_uart.c:266` disables RXDRDY until memory is provided; the driver, in whose
  handler that runs, re-arms the reception afterwards and enables it.  Payload that comes
  before memory is discarded.  The normal mode is saved by `BufferReady`.
* `SX1276Send` during a transmission: if the end of the first one is handled between `State
  = RF_TX_RUNNING` and `SX1276SetOpMode`, `State` says idle under a running transmission,
  and `StatusCurrent` says nothing from then on.  Send or Rx during a reception is not
  refused (`ser_conn_alpha_event_encoder.c:98`, `:137` look at no `State`): a packet
  received meanwhile may be sent in place of the one asked for, and the driver then reads
  elsewhere than the chip writes until the next reception from rest.  A packet with a wrong
  checksum is not read and leaves a continuous reception one behind.  `overtaken` and
  `parted` name these cases.
* HCI: a grant of no memory leaves the big buffer taken (`ser_phy_hci.c:1108`), so that
  nothing more is received; this and the free before the lock, above, are the only ways to lose it
  (`BigBufferFreed`).
  After the last retry `m_p_tx_payload` stays set and each further request is refused as
  busy (`ser_phy_hci.c:1015`).
* Host: with `IrqEvents = TRUE` `CallsReturn` does not hold.  A handler in the interrupt
  that calls the SoftDevice while a call of the main loop is under way spins in
  `tx_buf_alloc` for a buffer, or a response, that the main loop it has preempted would
  have to take.  After a hardware error that ended a wait, the response that still comes
  is fatal, or is taken for that of a later call with the same opcode (`OwnAnswer` has
  `errors = 0`).  An error during a transfer is fatal at once: `hw_error.p_buffer`, by
  which `ser_hal_transport.c:238` frees the buffer, is never set.
* Stream service: with `IrqEvents = TRUE` `MessagesWhole` does not hold.  `rx_sched_evt`
  sets `m_strm_state` to idle before it clears the lengths (`ble_strm_handler.c:70`), and a
  write in between is collected behind the old length or loses its own; the comment at
  line 151 has it refused.  With `EarlyReconnect = TRUE` it fails too: the
  event of a lost connection hands over or resets the next phone's message.  `data_send`
  during another transfer overwrites its buffer, so the phone is assumed to wait; the result
  of `app_sched_event_put` is ignored (line 207), which would leave the state at PROC for
  ever; the reception timer is never started (line 177).

## 5. Proofs

The only assumptions are those on the constants (`SchedAssumption`, `ConnAssumption`,
`PhyAssumption`, `RadioAssumption`, `HciAssumption`, `HostAssumption`, `StrmAssumption`)
and those a theorem states: sizes are positive, sets are included in one another, the
counter can count to two.

**AppSchedulerProofs.**  `HandlerDataSafe`: for every ring size, number of levels
and set of events, no put holds the entry a handler works on, and the entry holds
the event the handler was called for.  The inductive invariant adds to the type:
a reserved entry counts as waiting and no two puts share one; a waiting entry is
written or still reserved; the entry in service is the one just before the start of
the queue.  That last part is the reason for the ring's spare entry: the entry
before the start never waits (`SpareDoesNotWait`).  `FifoImplemented`: the scheduler
implements `BoundedFifo`.  The mapping orders events by their reservation: an entry
that a put has reserved counts as the event that will be written there (`Settled`).

**SerConnProofs.**  The invariant `IInv` says, of the transmission buffer, that it is
allocated exactly between allocation and sending, and that a response on the wire is the one
the host waits for; of the reception buffer, in which states a header or a payload can
arrive and that a command in processing holds it; of the pause counter, that it is at least
the number of reasons to pause, short of one only between an early end of a transmission and
the encoder's own pause (`PauseInv`), and exactly that number if the wire is slow
(`SlowInv`).  The key lemma is `NothingUnderway`: an unpaused scheduler means that no
command waits and the transmission buffer is free.  Hence `PausesAreBalanced`,
`BufferIsOwned`, `NoIllegalCall`, for all commands, events and queue sizes.
`BufferIsReady`: with a slow wire the buffer is free whenever a header is complete, because
the host sends only after a response, and the response takes longer than the freeing that
follows it. `CommandIsInWork`, for a wire of any speed: `WorkInv` says that a command the
host waits for is somewhere, the parts of `IInv` about the two buffers that it is not in two
places; what is left of a transmission may be an event, so `TxInv` is needed to tell whose
end is reported.  `NoLostWakeup`: from each of the loop's two looks, at the queue and at the
packet flag, to its wait, what it has seen is still so unless `wake` is set (`AsleepInv`).

**SerConnRefinement.**  `LinkImplemented`: `SerConn` implements `CommandLink`, for
every timing of the wire.  The gate of `CommandLink` opens only while no command is
in the chip and no event is on its way, which is `NothingUnderway` again.

**SerPhyUartProofs.**  `TypeCorrect` (nothing is written beyond the buffer),
`LayersAgree` and `PacketsAreUntouched`, whatever bytes arrive, for all sizes and for
a receiver that frees when it likes.  The invariant ties the transport's state to the
PHY's stream, length and index, and bounds the length by the buffer's size whenever
the stream is the buffer.  `PipeImplemented`: if packets are freed in time
(`FreedInTime`), the two ends implement `PacketPipe`, for all packets and lengths and a
receiver of any speed.  Its invariant looks at the bytes on the line, `OnLine`, in the
receiver and in the transmitter: they are those of the packets underway, each where it
belongs (`Placed`), the first one being the byte that the receiver's index waits for
(`LineInv`); and the header, the stream and the buffer are what has been read of the
first packet underway (`HeadInv`).  So no header is garbled, no byte is discarded, and
the last byte completes the payload that was sent.  `EndsKeepStep` is `LineInv` read at
its head: the sender's and the receiver's index never drift apart, and a line that has
fallen silent leaves no frame unfinished.

**Sx1276RadioProofs.**  `TypeCorrect` without assumptions, and `SleepIsIdle` too: whatever
is repeated and whatever access is lost, no pin of a chip that sleeps moves, so no interrupt
can take the access that wakes it before it transmits, nor the one that starts a reception
(`AsleepInv`).  `StatusIsCurrent`, `InterruptsAreTold` and `EveryFlagIsTold`, for all calls,
until one repeats what runs (`repeated`), and if no interrupt comes within a transfer
(`SpiAtomic`); `radio_spi` shows that this cannot be dropped.  The invariant divides each
call at its write of the mask.  Before it, `Agreement`: `State` says what is on, or its end
is signalled and not yet handled. After it, what is still on ends in silence, and nothing is
signalled until the new operating mode is written.  `QuietMeansClear` gives the rest: a flag
is never set without its pin telling, which is `FlagsAreTold`.  `PacketsAreSent` and
`PacketsAreReported` assume nothing but `SpiAtomic`: for all calls, repeated ones and those
over a running reception too, wrong checksums and packets that come while one is prepared.
What they except is in the properties: a packet received during the very call (`overtaken`),
and the reports from where driver and chip have parted until a reception starts from rest
(`parted`).  After a repeated Send `State` may say idle under a transmission, and the flag
of its end may stay, so these proofs have an invariant of their own.  `SendInv`: until a
packet comes, nothing but the call to send moves the pointer or writes.  `PlaceInv`: while
they have not parted, the driver's pointer is where the chip's is, or one packet behind it
while the end of a reception is signalled.  `MapInv`: while `State` waits for a reception
DIO0 tells its end; `FlagInv`: a wrong checksum is told with its packet.

**SerPhyHciProofs.**  `Acknowledged`, `BufferComesBack` and `LinkIsPipe`, for any number of
packets and whatever is lost.  The invariant ties the 3-bit numbers to the counters that
have no bound: the sender's number is that of its request modulo 8, an acknowledgement on
the way or waiting is for the current request or the one before, and a data frame likewise.
That difference is at most one, which is why 3 bits are enough.  Its parts are the sender's
counters (`SenderInv`), what SLIP sends (`SlipInv`), what its buffers hold (`BufInv`), the
packets and the acknowledgements on their way, in the buffers and in the order of their
queue (`DataInv`, `AckInv`), what the receiver owes (`ReportInv`), and the big buffer
(`BigInv`).  `BufferComesBack` says of it that it is SLIP's whenever its frame does not wait
for an event nor its packet for memory, unless a packet was too large or a free came before
the lock; `hci_assert` shows that the latter happens.  `RequestsAreInWork`: a sender that
waits for an acknowledgement has its timer on, and one that waits for nothing owes no answer
but for a request that failed (`WorkInv`); in the other states `IInv` has the frame with
SLIP.

**SerSdHostProofs.**  `MailboxImplementsFifo`: the ring with its indexes and its length
implements `BoundedFifo`, for every size.  `AnswersAreOwn`: if events are handled in the
main loop, no call gets another's response, for all calls and events.  The
invariant says where the call that is waited for may be: in the host's buffer, on its
way to the chip, in the chip, or on its way back as a response, in one place only, and
nowhere when nobody waits (`PlaceInv`).  With events in the interrupt TLC finds
`OwnAnswer` violated, so the theorem keeps that hypothesis.  `NoEventForgotten` and
`NoWaitForNothing` have none: they hold wherever events are handled, whatever the handlers
call and whichever errors come.  Which context works on the mailbox is part of the first
proof; the second needs that the flag `m_rsp_wait` and the one command under way belong to the
same call when it is its caller that runs (`WaitInv`).

**BleStrmProofs.**  `MessagesAreWhole` and `AnswersAreWhole`, for all messages, answers and
fragments, if events are scheduled and a pending message is handled before the next phone
connects.  `MessagesWhole` speaks only of the moment in which a message is handled; the
invariant says what holds before.  The buffer belongs to the phone until the message is
complete and to the message from then on, and what the phone has still to write continues
what is in the buffer (`RxInv`).  In the other direction, what the phone has, followed by
what is on the air, is a prefix of the stream that ends where `m_tx_offset` says (`TxInv`).
`NothingIsStuck` needs only scheduled events: the PROC state is held by an event in the
scheduler or its handler (`BusyHeld`), the transmission flag by an indication on the air
(`FlagHeld`), and an answer due by one of these or by being complete (`DueHeld`).

Every invariant and every action property the runs check is stated by a theorem, and so is
every refinement.  Only model-checked: liveness, which needs fairness and ENABLED.  The
invariants proved above are the safe half of it, that what has to move is always in the
hands of something that can move it:

| model-checked only | rests on the theorem |
|---|---|
| `HeadIsServed` | `FifoImplemented`, `HandlerDataSafe` |
| `CommandAnswered` | `CommandIsInWork`, `NoLostWakeup` |
| `EventsFlow` | `NoLostWakeup`, `PausesAreBalanced` |
| `EveryPacketArrives` | `EndsKeepStep`, `PipeImplemented` |
| `TransmissionEnds` | `EveryFlagIsTold`, `StatusIsCurrent` |
| `EveryRequestAnswered` | `RequestsAreInWork` |
| `CallsReturn` | `NoWaitForNothing` |
| `TransfersEnd` | `NothingIsStuck` |

## 6. Plan

1. (done) `BoundedFifo`, `AppScheduler`, their runs and proofs.
2. (done) `SerHalTransport`, `CommandLink`, `SerConn`, their runs and proofs, the
   refinement proof.
3. (done) `PacketPipe`, `SerPhyUart`: the PHY byte by byte, its runs and proofs.
4. (done) `Sx1276Radio`: the calls against the DIO interrupts, its runs and proofs.
5. (done) `SerSdHost`: the host, its mailbox and event handling, composed with
   `CommandLink`; `SerPhyHci`: the other physical layer; `BleStrm`: the stream service;
   their runs and proofs.
6. (done) Proofs of all refinements, of the packets that the radio sends and reports, and of
   the safety on which each liveness property rests.
7. What could follow: CAD and frequency hopping of `Sx1276Radio`; the rings of
   `app_uart_fifo.c` for users that fill them (the normal mode does not); `SerConn`
   composed with both directions of `SerPhyUart` byte by byte; link control of the HCI
   PHY, should `HCI_LINK_CONTROL` ever be defined.

## 7. Not modelled

The models cover a small share of the repository's lines because most of them are no
part of this firmware: the nRF5 SDK with register definitions and CMSIS headers, drivers
of sensors and displays, two LoRaMAC stacks (one of them compiled in) and a DSP library,
none of which the normal mode calls.  Of what it does call, these are left out:

* codecs of single commands and events: pure data conversion; the models keep whether
  they succeed;
* the SoftDevice's own protocol, a binary;
* the radio's FSK modem, CAD, hopping, continuous wave, calibration and configuration
  registers;
* `dtm_uart.c` beyond its entry: a polling loop that only a reset leaves;
* opening and closing of the physical layers; hardware errors of the HCI PHY; its link
  control, which is compiled out;
* of the host: opening and closing, the mailbox of SoC events, the one-time wait handler,
  events larger than the mailbox's entries, frames garbled by an error, the limit of
  its scheduler's queue;
* of the stream service: its test characteristic, wrong passwords, writes shorter than
  the header, messages longer than the buffer of 512 bytes.  The service is compiled
  into the firmware (`cmake/sdk/project_sdk.cmake:25`), but the normal mode does not
  start it; it is modelled as an application that uses it would run it;
* timers, flash storage, shell, factory and board tests (never entered in this build),
  tracing.
