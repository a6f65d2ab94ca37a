---------------------------- MODULE Sx1276Radio -----------------------------
(***************************************************************************)
(* The LoRa half of the SX1276 driver and the chip behind it: the calls    *)
(* that the main loop makes for the host's commands (open_tx, open_rx and  *)
(* sleep, see alpha_radio_handler.c), one register access after the other, *)
(* and the handlers of DIO0 and DIO1, which interrupt them.                *)
(*                                                                         *)
(* The main loop goes on only when no interrupt is pending, and a handler  *)
(* runs to its end, so a handler is one step, and can come between any two *)
(* accesses of a call.  Unless SpiAtomic, it can also come within one: it  *)
(* ends with the chip select high, and what the call had still to transfer *)
(* does not reach the chip.                                                *)
(*                                                                         *)
(* A packet on the air takes longer than an interrupt takes to be served,  *)
(* so the chip does nothing while one is pending.                          *)
(*                                                                         *)
(* Packets are all of the same length, a cell of the chip's FIFO.  The     *)
(* chip itself is modelled from what the driver expects of it.             *)
(***************************************************************************)
EXTENDS Naturals, Sequences

CONSTANTS
  Packet,
  FifoSize,     (* cells in the chip's FIFO                                  *)
  Calls,        (* the calls that are made, each with the State it is made in *)
  RxModes,      (* the receptions asked for: continuous or not               *)
  BadCrc,       (* packets may be received with a wrong checksum             *)
  SpiAtomic,    (* no interrupt comes within a transfer                      *)
  None

RadioState == {"RF_IDLE", "RF_RX_RUNNING", "RF_TX_RUNNING"}
OpMode == {"SLEEP", "STANDBY", "TRANSMITTER", "RECEIVER", "RECEIVER_SINGLE"}
Receiving == {"RECEIVER", "RECEIVER_SINGLE"}
IrqFlag == {"RXTIMEOUT", "RXDONE", "PAYLOADCRCERROR", "TXDONE"}
Call == {"Send", "SetRx", "SetSleep", "SetStby"}

(* Calls for what State says is on already. *)
Repeats == {<<"Send", "RF_TX_RUNNING">>, <<"SetRx", "RF_RX_RUNNING">>}

ASSUME RadioAssumption ==
  /\ FifoSize \in Nat \ {0}
  /\ Calls \subseteq Call \X RadioState /\ RxModes \subseteq BOOLEAN
  /\ BadCrc \in BOOLEAN /\ SpiAtomic \in BOOLEAN
  /\ None \notin Packet

(* What each call does to the chip and to State, in order. *)

(* Mutant: the end of a transmission may come before State says it runs. *)
SX1276SendOpModeFirst == <<"FifoAddrPtr", "WakeUp", "WriteFifo", "MaskForTx", "MapTxDone",
                           "OpModeTx", "StateTx">>

(* Mutant: the FIFO is written from where the last access left its pointer. *)
SX1276SendNoPointer == <<"WakeUp", "WriteFifo", "MaskForTx", "MapTxDone", "StateTx",
                         "OpModeTx">>

SX1276Send == <<"FifoAddrPtr", "WakeUp", "WriteFifo", "MaskForTx", "MapTxDone", "StateTx",
                "OpModeTx">>

(* Mutant: the FIFO is read from where the last access left its pointer. *)
SX1276SetRxNoPointer == <<"MaskForRx", "MapRxDone", "StateRx", "OpModeRx">>

SX1276SetRx == <<"MaskForRx", "MapRxDone", "FifoAddrPtr", "StateRx", "OpModeRx">>

(* Mutant: the State of what was running is left behind. *)
SX1276SetSleepBusy == <<"OpModeSleep">>

SX1276SetSleep == <<"OpModeSleep", "StateIdle">>
SX1276SetStby == <<"OpModeStandby", "StateIdle">>

Steps == [Send |-> SX1276Send, SetRx |-> SX1276SetRx,
          SetSleep |-> SX1276SetSleep, SetStby |-> SX1276SetStby]

VARIABLES
  todo,           (* what the call in progress has still to do               *)
  buffer,         (* the packet to send                                      *)
  State,          (* SX1276.Settings.State                                   *)
  RxContinuous,   (* SX1276.Settings.LoRa.RxContinuous                       *)
  report,         (* the callback just made                                  *)
  seenHigh,       (* the pins that GPIOTE has last seen high                 *)
  opMode, irqFlags, irqFlagsMask, dio0Mapping,   (* registers of the chip    *)
  fifo, fifoAddrPtr,
  rxAddr,         (* where the chip writes the next packet it receives       *)
  received,       (* the packet last received                                *)
  overtaken,      (* history: a packet came during the call in progress      *)
  parted,         (* history: the packet that comes next is not written where
                     the driver reads next                                   *)
  repeated        (* history: a call was made for what State said was on     *)

driver == <<State, RxContinuous>>
registers == <<irqFlags, irqFlagsMask, dio0Mapping>>
chip == <<opMode, registers, fifo, fifoAddrPtr, rxAddr, received>>
history == <<overtaken, parted, repeated>>
vars == <<todo, buffer, driver, report, seenHigh, chip, history>>

IsSuffix(s, t) == \E i \in 1..Len(t) + 1 : s = SubSeq(t, i, Len(t))

TypeOK ==
  /\ \E call \in Call : IsSuffix(todo, Steps[call])
  /\ buffer \in Packet \cup {None}
  /\ State \in RadioState /\ RxContinuous \in BOOLEAN
  /\ report \in ({"RxDone"} \X (Packet \cup {None}))
                \cup {<<r>> : r \in {"none", "TxDone", "RxError", "RxTimeout"}}
  /\ seenHigh \subseteq {"DIO0", "DIO1"}
  /\ opMode \in OpMode /\ irqFlags \subseteq IrqFlag /\ irqFlagsMask \subseteq IrqFlag
  /\ dio0Mapping \in {"RXDONE", "TXDONE"}
  /\ fifo \in [0..FifoSize - 1 -> Packet \cup {None}]
  /\ fifoAddrPtr \in 0..FifoSize - 1 /\ rxAddr \in 0..FifoSize - 1
  /\ received \in Packet \cup {None}
  /\ overtaken \in BOOLEAN /\ parted \in BOOLEAN /\ repeated \in BOOLEAN

(* alpha_radio_init is done: the LoRa modem is on, and the chip asleep. *)
Init ==
  /\ todo = <<>> /\ buffer = None
  /\ State = "RF_IDLE" /\ RxContinuous = FALSE
  /\ report = <<"none">> /\ seenHigh = {}
  /\ opMode = "SLEEP" /\ irqFlags = {} /\ irqFlagsMask = {} /\ dio0Mapping = "RXDONE"
  /\ fifo = [c \in 0..FifoSize - 1 |-> None] /\ fifoAddrPtr = 0 /\ rxAddr = 0
  /\ received = None /\ overtaken = FALSE /\ parted = FALSE
  /\ repeated = FALSE
-----------------------------------------------------------------------------
(* The chip: a pin is high while the flag it is mapped to is set. *)
High(flags) == {pin \in {"DIO0", "DIO1"} :
                  (IF pin = "DIO0" THEN dio0Mapping ELSE "RXTIMEOUT") \in flags}
Quiet == High(irqFlags) = seenHigh

NextCell(c) == (c + 1) % FifoSize

(* A masked flag is not set. *)
Raise(flags) == irqFlags' = irqFlags \cup (flags \ irqFlagsMask)

ReceiveEnds == opMode' = IF opMode = "RECEIVER_SINGLE" THEN "STANDBY" ELSE opMode

ChipRxDone(p, bad) ==
  /\ Quiet /\ opMode \in Receiving /\ "RXDONE" \notin irqFlagsMask
  /\ fifo' = [fifo EXCEPT ![rxAddr] = p] /\ rxAddr' = NextCell(rxAddr)
  /\ Raise(IF bad THEN {"RXDONE", "PAYLOADCRCERROR"} ELSE {"RXDONE"})
  /\ ReceiveEnds /\ received' = p /\ report' = <<"none">>
  /\ overtaken' = (todo # <<>>) /\ parted' = (parted \/ bad)
  /\ UNCHANGED <<todo, buffer, driver, seenHigh, irqFlagsMask, dio0Mapping, fifoAddrPtr,
                 repeated>>

(* The same while the flag is masked, because a transmission is being prepared. *)
ChipRxMasked(p) ==
  /\ Quiet /\ opMode \in Receiving /\ "RXDONE" \in irqFlagsMask
  /\ fifo' = [fifo EXCEPT ![rxAddr] = p] /\ rxAddr' = NextCell(rxAddr)
  /\ ReceiveEnds /\ report' = <<"none">>
  /\ overtaken' = (todo # <<>>) /\ parted' = TRUE
  /\ UNCHANGED <<todo, buffer, driver, seenHigh, registers, fifoAddrPtr, received, repeated>>

ChipRxTimeout ==
  /\ Quiet /\ opMode = "RECEIVER_SINGLE"
  /\ Raise({"RXTIMEOUT"}) /\ opMode' = "STANDBY" /\ report' = <<"none">>
  /\ UNCHANGED <<todo, buffer, driver, seenHigh, irqFlagsMask, dio0Mapping, fifo,
                 fifoAddrPtr, rxAddr, received, history>>

ChipTxDone ==
  /\ Quiet /\ opMode = "TRANSMITTER"
  /\ Raise({"TXDONE"}) /\ opMode' = "STANDBY" /\ report' = <<"none">>
  /\ UNCHANGED <<todo, buffer, driver, seenHigh, irqFlagsMask, dio0Mapping, fifo,
                 fifoAddrPtr, rxAddr, received, history>>

(* A reception that starts writes from FIFORXBASEADDR; whether one that is on
   starts again is left open.  Sleeping clears the FIFO, and perhaps the flags. *)
SX1276SetOpMode(mode) ==
  /\ opMode' = mode
  /\ rxAddr' \in IF mode \notin Receiving THEN {rxAddr}
                 ELSE {0} \cup (IF opMode \in Receiving THEN {rxAddr} ELSE {})
  /\ IF mode = "SLEEP"
     THEN fifo' = [c \in DOMAIN fifo |-> None] /\ irqFlags' \in {irqFlags, {}}
     ELSE UNCHANGED <<fifo, irqFlags>>
-----------------------------------------------------------------------------
(* Radio.Send, Radio.Rx, Radio.Sleep and Radio.Standby, with the configuration that
   goes before them.  The host's commands use all but Standby, and continuous
   reception only. *)
Start(call) ==
  /\ Quiet /\ todo = <<>> /\ <<call, State>> \in Calls
  /\ todo' = Steps[call] /\ report' = <<"none">>
  /\ IF call = "Send" THEN buffer' \in Packet ELSE UNCHANGED buffer
  /\ IF call = "SetRx" THEN RxContinuous' \in RxModes ELSE UNCHANGED RxContinuous
  /\ overtaken' = FALSE /\ repeated' = (repeated \/ <<call, State>> \in Repeats)
  /\ UNCHANGED <<State, seenHigh, chip, parted>>

At(step) ==
  /\ Quiet /\ todo # <<>> /\ Head(todo) = step
  /\ todo' = Tail(todo) /\ report' = <<"none">>
  /\ parted' = IF step = "FifoAddrPtr" THEN opMode \in Receiving ELSE parted
  /\ UNCHANGED <<buffer, RxContinuous, seenHigh, received, overtaken, repeated>>

FifoAddrPtr ==
  /\ At("FifoAddrPtr") /\ fifoAddrPtr' = 0
  /\ UNCHANGED <<State, opMode, registers, fifo, rxAddr>>

(* SX1276SetStby if the chip is asleep. *)
WakeUp ==
  /\ At("WakeUp")
  /\ IF opMode = "SLEEP" THEN SX1276SetOpMode("STANDBY") /\ State' = "RF_IDLE"
     ELSE UNCHANGED <<State, opMode, irqFlags, fifo, rxAddr>>
  /\ UNCHANGED <<irqFlagsMask, dio0Mapping, fifoAddrPtr>>

WriteFifo ==
  /\ At("WriteFifo")
  /\ fifo' = [fifo EXCEPT ![fifoAddrPtr] = buffer] /\ fifoAddrPtr' = NextCell(fifoAddrPtr)
  /\ UNCHANGED <<State, opMode, registers, rxAddr>>

(* Mutant: the end of a reception is not masked. *)
MaskForTxForgets ==
  /\ At("MaskForTx") /\ irqFlagsMask' = {"RXTIMEOUT", "PAYLOADCRCERROR"}
  /\ UNCHANGED <<State, opMode, irqFlags, dio0Mapping, fifo, fifoAddrPtr, rxAddr>>

MaskForTx ==
  /\ At("MaskForTx") /\ irqFlagsMask' = IrqFlag \ {"TXDONE"}
  /\ UNCHANGED <<State, opMode, irqFlags, dio0Mapping, fifo, fifoAddrPtr, rxAddr>>

MaskForRx ==
  /\ At("MaskForRx") /\ irqFlagsMask' = {"TXDONE"}
  /\ UNCHANGED <<State, opMode, irqFlags, dio0Mapping, fifo, fifoAddrPtr, rxAddr>>

MapDio0(step, flag) ==
  /\ At(step) /\ dio0Mapping' = flag
  /\ UNCHANGED <<State, opMode, irqFlags, irqFlagsMask, fifo, fifoAddrPtr, rxAddr>>

SetState(step, state) ==
  /\ At(step) /\ State' = state
  /\ UNCHANGED <<opMode, registers, fifo, fifoAddrPtr, rxAddr>>

SetMode(step, mode) ==
  /\ At(step) /\ SX1276SetOpMode(mode)
  /\ UNCHANGED <<State, irqFlagsMask, dio0Mapping, fifoAddrPtr>>

MainStep ==
  \/ FifoAddrPtr \/ WakeUp \/ WriteFifo \/ MaskForTx \/ MaskForRx
  \/ MapDio0("MapTxDone", "TXDONE") \/ MapDio0("MapRxDone", "RXDONE")
  \/ SetState("StateTx", "RF_TX_RUNNING") \/ SetState("StateRx", "RF_RX_RUNNING")
  \/ SetState("StateIdle", "RF_IDLE")
  \/ SetMode("OpModeTx", "TRANSMITTER")
  \/ SetMode("OpModeRx", IF RxContinuous THEN "RECEIVER" ELSE "RECEIVER_SINGLE")
  \/ SetMode("OpModeSleep", "SLEEP") \/ SetMode("OpModeStandby", "STANDBY")
-----------------------------------------------------------------------------
InTransfer == todo # <<>> /\ Head(todo) \notin {"StateTx", "StateRx", "StateIdle"}

(* GPIOTE sees a pin that was low go high, and the driver's handler for it clears
   some flags.  The call it interrupts goes on where it was, or has lost an access. *)
Gpiote(pin, cleared) ==
  /\ pin \in High(irqFlags) \ seenHigh
  /\ irqFlags' = irqFlags \ cleared
  /\ seenHigh' = seenHigh \cup ({pin} \cap High(irqFlags \ cleared))
  /\ todo' \in {todo} \cup (IF SpiAtomic \/ ~InTransfer THEN {} ELSE {Tail(todo)})
  /\ UNCHANGED <<buffer, RxContinuous, opMode, irqFlagsMask, dio0Mapping, fifo,
                 rxAddr, received, overtaken, repeated>>

(* The handler returns at once, without an access of its own, if its pin is low. *)
FallingEdge ==
  /\ seenHigh \ High(irqFlags) # {} /\ seenHigh' = seenHigh \cap High(irqFlags)
  /\ UNCHANGED <<todo, driver, report, buffer, chip, history>>

(* SX1276OnDio0Irq, one action for each State it finds and for the result of the
   reception. *)
Dio0RxDone ==
  /\ Gpiote("DIO0", {"RXDONE"}) /\ State = "RF_RX_RUNNING"
  /\ "PAYLOADCRCERROR" \notin irqFlags
  /\ report' = <<"RxDone", fifo[fifoAddrPtr]>> /\ fifoAddrPtr' = NextCell(fifoAddrPtr)
  /\ parted' = (parted \/ dio0Mapping # "RXDONE")
  /\ State' = IF RxContinuous THEN State ELSE "RF_IDLE"

Dio0RxError ==
  /\ Gpiote("DIO0", {"RXDONE", "PAYLOADCRCERROR"}) /\ State = "RF_RX_RUNNING"
  /\ "PAYLOADCRCERROR" \in irqFlags
  /\ report' = <<"RxError">> /\ UNCHANGED <<fifoAddrPtr, parted>>
  /\ State' = IF RxContinuous THEN State ELSE "RF_IDLE"

(* Mutant: the driver forgets to leave RF_TX_RUNNING. *)
Dio0TxDoneStays ==
  /\ Gpiote("DIO0", {"TXDONE"}) /\ State = "RF_TX_RUNNING"
  /\ report' = <<"TxDone">> /\ UNCHANGED <<State, fifoAddrPtr, parted>>

Dio0TxDone ==
  /\ Gpiote("DIO0", {"TXDONE"}) /\ State = "RF_TX_RUNNING"
  /\ report' = <<"TxDone">> /\ State' = "RF_IDLE" /\ UNCHANGED <<fifoAddrPtr, parted>>

(* SX1276OnDio1Irq *)
Dio1RxTimeout ==
  /\ Gpiote("DIO1", {"RXTIMEOUT"}) /\ State = "RF_RX_RUNNING"
  /\ report' = <<"RxTimeout">> /\ State' = "RF_IDLE" /\ UNCHANGED <<fifoAddrPtr, parted>>

(* Either handler does nothing in a State it does not expect its pin in. *)
DioIgnored ==
  /\ \E pin \in {"DIO0", "DIO1"} :
       /\ Gpiote(pin, {})
       /\ State = "RF_IDLE" \/ (pin = "DIO1" /\ State = "RF_TX_RUNNING")
  /\ UNCHANGED <<State, report, fifoAddrPtr, parted>>

Interrupt == FallingEdge \/ Dio0RxDone \/ Dio0RxError \/ Dio0TxDone \/ Dio1RxTimeout
             \/ DioIgnored

Next ==
  \/ \E call \in Call : Start(call)
  \/ MainStep \/ Interrupt
  \/ ChipTxDone \/ ChipRxTimeout
  \/ \E p \in Packet : ChipRxMasked(p) \/ ChipRxDone(p, FALSE)
  \/ BadCrc /\ \E p \in Packet : ChipRxDone(p, TRUE)

Spec == Init /\ [][Next]_vars

(* The main loop and the interrupts run, and a transmission comes to its end.
   Nothing obliges anyone to send to this chip. *)
FairSpec == Spec /\ WF_vars(MainStep) /\ WF_vars(Interrupt) /\ WF_vars(ChipTxDone)
-----------------------------------------------------------------------------
(* radio.h of GetStatus: "Return current radio status".  When no call is in
   progress and no interrupt is pending, State is what the chip does, as long as no
   call has repeated what was on. *)
StatusCurrent ==
  ~repeated /\ todo = <<>> /\ Quiet =>
    /\ (State = "RF_TX_RUNNING") <=> (opMode = "TRANSMITTER")
    /\ (State = "RF_RX_RUNNING") <=> (opMode \in Receiving)

(* radio.h of Send: "Sends the buffer of size".  When the transmission is started
   the FIFO holds the packet that was asked for, whatever ran when it was asked for.
   Nothing stops a reception while its own packet is prepared, and only one that ends
   just then may be sent in its place, or move the pointer. *)
SentAsAsked == todo = <<"OpModeTx">> /\ ~overtaken => fifo[0] = buffer

(* Each packet that RxDone reports is the one that was received.  The driver reads on
   from where it read last, and is wrong about the place only after a packet that it
   did not read (a wrong checksum, a masked flag) or a call that set the pointer while
   a reception ran, and then until the next reception is started from rest. *)
ReportedAsReceived == report[1] = "RxDone" /\ ~parted => report[2] = received

(* A call to sleep leaves the driver idle, whatever was on and whatever came before. *)
AsleepIsIdle == todo = <<>> /\ opMode = "SLEEP" => State = "RF_IDLE"

(* One pin stands for the end of a reception and for that of a transmission, and
   State alone tells the handler which: it is never wrong about it unless a call has
   repeated what was on. *)
InterruptsTold ==
  [][report # report' /\ ~repeated =>
       /\ report' = <<"TxDone">> => "TXDONE" \in irqFlags
       /\ report'[1] \in {"RxDone", "RxError"} => "RXDONE" \in irqFlags]_vars

(* A flag that is set is one that a handler has been, or will be, told of: while no
   pin waits to be served no flag is set, whatever was masked, mapped or cleared
   between.  (The edge that GPIOTE sees is all that ever calls a handler: a flag that
   stays keeps its pin high, and none of its later interrupts would be seen.) *)
FlagsAreTold == ~repeated /\ Quiet => irqFlags = {}

(* A transmission that runs comes to its end, or is given up by another call, unless
   it is asked for again. *)
TransmissionEnds ==
  (State = "RF_TX_RUNNING") ~> (State # "RF_TX_RUNNING" \/ repeated)
=============================================================================
