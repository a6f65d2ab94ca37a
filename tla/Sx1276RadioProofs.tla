------------------------- MODULE Sx1276RadioProofs --------------------------
(***************************************************************************)
(* Proofs about Sx1276Radio: with no interrupt within a transfer, State    *)
(* and chip agree, and State tells the handler of DIO0 which interrupt it  *)
(* has, until a call repeats what already runs; whatever is called when,   *)
(* packets are sent and reported as they are, but for what the history     *)
(* variables of the module name; and a chip that sleeps has an idle        *)
(* driver, also when interrupts take accesses from the calls.              *)
(***************************************************************************)
EXTENDS Sx1276Radio, TLAPS

(* Where a call is, by what it has still to do: before or after it wrote the mask
   and, for Sleep and Standby, the operating mode. *)
SendBegun == {SX1276Send,
              <<"WakeUp", "WriteFifo", "MaskForTx", "MapTxDone", "StateTx", "OpModeTx">>,
              <<"WriteFifo", "MaskForTx", "MapTxDone", "StateTx", "OpModeTx">>,
              <<"MaskForTx", "MapTxDone", "StateTx", "OpModeTx">>}
SendMasked == {<<"MapTxDone", "StateTx", "OpModeTx">>, <<"StateTx", "OpModeTx">>,
               <<"OpModeTx">>}
RxMasked == {<<"MapRxDone", "FifoAddrPtr", "StateRx", "OpModeRx">>,
             <<"FifoAddrPtr", "StateRx", "OpModeRx">>, <<"StateRx", "OpModeRx">>,
             <<"OpModeRx">>}
Untouched == SendBegun \cup {<<>>, SX1276SetRx, SX1276SetSleep, SX1276SetStby}

Todo == Untouched \cup SendMasked \cup RxMasked \cup {<<"StateIdle">>}

(* Nothing is on and nothing is signalled. *)
Off == opMode \in {"SLEEP", "STANDBY"} /\ irqFlags = {}

(* A transmission is on, or its end is signalled and not yet handled. *)
Transmitting ==
  /\ dio0Mapping = "TXDONE" /\ irqFlagsMask = IrqFlag \ {"TXDONE"}
  /\ \/ opMode = "TRANSMITTER" /\ irqFlags = {}
     \/ opMode = "STANDBY" /\ irqFlags = {"TXDONE"}

Listening == IF RxContinuous THEN "RECEIVER" ELSE "RECEIVER_SINGLE"

(* The same of a reception, which goes on after its first packet if it is continuous. *)
ReceptionOn ==
  /\ dio0Mapping = "RXDONE" /\ irqFlagsMask = {"TXDONE"}
  /\ \/ opMode = Listening /\ irqFlags = {}
     \/ /\ irqFlags \in {{"RXDONE"}, {"RXDONE", "PAYLOADCRCERROR"}}
        /\ opMode = IF RxContinuous THEN "RECEIVER" ELSE "STANDBY"
     \/ irqFlags = {"RXTIMEOUT"} /\ opMode = "STANDBY"

Agreement ==
  /\ State = "RF_TX_RUNNING" => Transmitting
  /\ State = "RF_RX_RUNNING" => ReceptionOn
  /\ State = "RF_IDLE" => Off

(* A call in progress, before it changes anything an interrupt depends on. *)
UntouchedInv ==
  todo \in Untouched =>
    /\ Agreement
    /\ todo \in SendBegun => State # "RF_TX_RUNNING"
    /\ todo = SX1276SetRx => State # "RF_RX_RUNNING"

(* Once the mask is written for what comes, what is still on ends in silence. *)
SendMaskedInv ==
  todo \in SendMasked =>
    /\ irqFlagsMask = IrqFlag \ {"TXDONE"} /\ irqFlags = {} /\ opMode # "TRANSMITTER"
    /\ todo # <<"MapTxDone", "StateTx", "OpModeTx">> => dio0Mapping = "TXDONE"
    /\ todo = <<"OpModeTx">> => State = "RF_TX_RUNNING"

RxMaskedInv ==
  todo \in RxMasked =>
    /\ irqFlagsMask = {"TXDONE"} /\ irqFlags = {} /\ opMode \notin Receiving
    /\ todo # <<"MapRxDone", "FifoAddrPtr", "StateRx", "OpModeRx">> => dio0Mapping = "RXDONE"
    /\ todo = <<"OpModeRx">> => State = "RF_RX_RUNNING"

IInv ==
  /\ todo \in Todo /\ State \in RadioState /\ RxContinuous \in BOOLEAN /\ opMode \in OpMode
  /\ seenHigh = {}
  /\ dio0Mapping \in {"RXDONE", "TXDONE"}
  /\ UntouchedInv /\ SendMaskedInv /\ RxMaskedInv
  /\ todo = <<"StateIdle">> => Off
-----------------------------------------------------------------------------
(* What the next access leaves to do. *)
LEMMA NextAccess ==
  ASSUME todo \in Todo, todo # <<>>, todo' = Tail(todo)
  PROVE  /\ Head(todo) = "FifoAddrPtr" =>
              \/ todo = SX1276Send /\ todo' \in SendBegun
              \/ todo \in RxMasked /\ todo' = <<"StateRx", "OpModeRx">>
         /\ Head(todo) \in {"WakeUp", "WriteFifo"} => todo \in SendBegun /\ todo' \in SendBegun
         /\ Head(todo) = "MaskForTx" =>
              todo \in SendBegun /\ todo' = <<"MapTxDone", "StateTx", "OpModeTx">>
         /\ Head(todo) = "MapTxDone" => todo \in SendMasked /\ todo' = <<"StateTx", "OpModeTx">>
         /\ Head(todo) = "StateTx" => todo \in SendMasked /\ todo' = <<"OpModeTx">>
         /\ Head(todo) = "OpModeTx" => todo = <<"OpModeTx">> /\ todo' = <<>>
         /\ Head(todo) = "MaskForRx" =>
              todo = SX1276SetRx /\ todo' = <<"MapRxDone", "FifoAddrPtr", "StateRx", "OpModeRx">>
         /\ Head(todo) = "MapRxDone" =>
              todo \in RxMasked /\ todo' = <<"FifoAddrPtr", "StateRx", "OpModeRx">>
         /\ Head(todo) = "StateRx" => todo \in RxMasked /\ todo' = <<"OpModeRx">>
         /\ Head(todo) = "OpModeRx" => todo = <<"OpModeRx">> /\ todo' = <<>>
         /\ Head(todo) = "OpModeSleep" => todo = SX1276SetSleep /\ todo' = <<"StateIdle">>
         /\ Head(todo) = "OpModeStandby" => todo = SX1276SetStby /\ todo' = <<"StateIdle">>
         /\ Head(todo) = "StateIdle" => todo = <<"StateIdle">> /\ todo' = <<>>
<1>1. CASE todo \in SendBegun
  <2>1. CASE todo = <<"FifoAddrPtr", "WakeUp", "WriteFifo", "MaskForTx", "MapTxDone", "StateTx", "OpModeTx">>
    <3>1. /\ Head(todo) = "FifoAddrPtr"
          /\ todo' = <<"WakeUp", "WriteFifo", "MaskForTx", "MapTxDone", "StateTx", "OpModeTx">>
      BY <2>1
    <3>2. QED
      BY <2>1, <3>1, <1>1 DEF SendBegun, SX1276Send
  <2>2. CASE todo = <<"WakeUp", "WriteFifo", "MaskForTx", "MapTxDone", "StateTx", "OpModeTx">>
    <3>1. /\ Head(todo) = "WakeUp"
          /\ todo' = <<"WriteFifo", "MaskForTx", "MapTxDone", "StateTx", "OpModeTx">>
      BY <2>2
    <3>2. QED
      BY <2>2, <3>1, <1>1 DEF SendBegun, SX1276Send
  <2>3. CASE todo = <<"WriteFifo", "MaskForTx", "MapTxDone", "StateTx", "OpModeTx">>
    <3>1. /\ Head(todo) = "WriteFifo"
          /\ todo' = <<"MaskForTx", "MapTxDone", "StateTx", "OpModeTx">>
      BY <2>3
    <3>2. QED
      BY <2>3, <3>1, <1>1 DEF SendBegun, SX1276Send
  <2>4. CASE todo = <<"MaskForTx", "MapTxDone", "StateTx", "OpModeTx">>
    <3>1. /\ Head(todo) = "MaskForTx"
          /\ todo' = <<"MapTxDone", "StateTx", "OpModeTx">>
      BY <2>4
    <3>2. QED
      BY <2>4, <3>1, <1>1 DEF SendBegun, SX1276Send
  <2>5. QED
    BY <1>1, <2>1, <2>2, <2>3, <2>4 DEF SendBegun, SX1276Send
<1>2. CASE todo \in SendMasked
  <2>1. CASE todo = <<"MapTxDone", "StateTx", "OpModeTx">>
    <3>1. /\ Head(todo) = "MapTxDone"
          /\ todo' = <<"StateTx", "OpModeTx">>
      BY <2>1
    <3>2. QED
      BY <2>1, <3>1, <1>2 DEF SendMasked
  <2>2. CASE todo = <<"StateTx", "OpModeTx">>
    <3>1. /\ Head(todo) = "StateTx"
          /\ todo' = <<"OpModeTx">>
      BY <2>2
    <3>2. QED
      BY <2>2, <3>1, <1>2 DEF SendMasked
  <2>3. CASE todo = <<"OpModeTx">>
    <3>1. /\ Head(todo) = "OpModeTx"
          /\ todo' = <<>>
      BY <2>3
    <3>2. QED
      BY <2>3, <3>1, <1>2 DEF SendMasked
  <2>4. QED
    BY <1>2, <2>1, <2>2, <2>3 DEF SendMasked
<1>3. CASE todo \in RxMasked
  <2>1. CASE todo = <<"MapRxDone", "FifoAddrPtr", "StateRx", "OpModeRx">>
    <3>1. /\ Head(todo) = "MapRxDone"
          /\ todo' = <<"FifoAddrPtr", "StateRx", "OpModeRx">>
      BY <2>1
    <3>2. QED
      BY <2>1, <3>1, <1>3 DEF RxMasked
  <2>2. CASE todo = <<"FifoAddrPtr", "StateRx", "OpModeRx">>
    <3>1. /\ Head(todo) = "FifoAddrPtr"
          /\ todo' = <<"StateRx", "OpModeRx">>
      BY <2>2
    <3>2. QED
      BY <2>2, <3>1, <1>3 DEF RxMasked
  <2>3. CASE todo = <<"StateRx", "OpModeRx">>
    <3>1. /\ Head(todo) = "StateRx"
          /\ todo' = <<"OpModeRx">>
      BY <2>3
    <3>2. QED
      BY <2>3, <3>1, <1>3 DEF RxMasked
  <2>4. CASE todo = <<"OpModeRx">>
    <3>1. /\ Head(todo) = "OpModeRx"
          /\ todo' = <<>>
      BY <2>4
    <3>2. QED
      BY <2>4, <3>1, <1>3 DEF RxMasked
  <2>5. QED
    BY <1>3, <2>1, <2>2, <2>3, <2>4 DEF RxMasked
<1>4. CASE todo \in {SX1276SetRx, SX1276SetSleep, SX1276SetStby, <<"StateIdle">>}
  <2>1. CASE todo = <<"MaskForRx", "MapRxDone", "FifoAddrPtr", "StateRx", "OpModeRx">>
    <3>1. /\ Head(todo) = "MaskForRx"
          /\ todo' = <<"MapRxDone", "FifoAddrPtr", "StateRx", "OpModeRx">>
      BY <2>1
    <3>2. QED
      BY <2>1, <3>1, <1>4 DEF SX1276SetRx, SX1276SetSleep, SX1276SetStby
  <2>2. CASE todo = <<"OpModeSleep", "StateIdle">>
    <3>1. /\ Head(todo) = "OpModeSleep"
          /\ todo' = <<"StateIdle">>
      BY <2>2
    <3>2. QED
      BY <2>2, <3>1, <1>4 DEF SX1276SetRx, SX1276SetSleep, SX1276SetStby
  <2>3. CASE todo = <<"OpModeStandby", "StateIdle">>
    <3>1. /\ Head(todo) = "OpModeStandby"
          /\ todo' = <<"StateIdle">>
      BY <2>3
    <3>2. QED
      BY <2>3, <3>1, <1>4 DEF SX1276SetRx, SX1276SetSleep, SX1276SetStby
  <2>4. CASE todo = <<"StateIdle">>
    <3>1. /\ Head(todo) = "StateIdle"
          /\ todo' = <<>>
      BY <2>4
    <3>2. QED
      BY <2>4, <3>1, <1>4 DEF SX1276SetRx, SX1276SetSleep, SX1276SetStby
  <2>5. QED
    BY <1>4, <2>1, <2>2, <2>3, <2>4 DEF SX1276SetRx, SX1276SetSleep, SX1276SetStby
<1>5. QED
  BY <1>1, <1>2, <1>3, <1>4 DEF Todo, Untouched

(* The parts of a call are disjoint. *)
LEMMA PartsDiffer ==
  /\ Untouched \cap SendMasked = {} /\ Untouched \cap RxMasked = {}
  /\ SendMasked \cap RxMasked = {}
  /\ <<"StateIdle">> \notin Untouched \cup SendMasked \cup RxMasked
  /\ \A t \in {<<>>, SX1276SetRx, SX1276SetSleep, SX1276SetStby} : t \notin SendBegun
  /\ SX1276SetRx \notin {<<>>, SX1276SetSleep, SX1276SetStby}
  /\ <<>> \in Untouched
  BY DEF Untouched, SendMasked, RxMasked, SendBegun, SX1276Send, SX1276SetRx, SX1276SetSleep,
         SX1276SetStby
-----------------------------------------------------------------------------
(* No flag is set without its pin telling. *)
LEMMA QuietMeansClear ==
  ASSUME IInv, Quiet
  PROVE  irqFlags = {}
<1>1. dio0Mapping \notin irqFlags /\ "RXTIMEOUT" \notin irqFlags
  BY DEF IInv, Quiet, High
<1>2. CASE todo \in Untouched
  <2>1. Agreement /\ State \in RadioState
    BY <1>2 DEF IInv, UntouchedInv
  <2>2. QED
    BY <1>1, <2>1 DEF Agreement, Transmitting, ReceptionOn, Off, RadioState
<1>3. CASE todo \notin Untouched
  BY <1>3 DEF IInv, Todo, SendMaskedInv, RxMaskedInv, Off
<1>4. QED
  BY <1>2, <1>3

(* A flag that rises tells the end of what was on. *)
LEMMA ChipKeepsInv ==
  ASSUME IInv,
         \/ \E p \in Packet : ChipRxMasked(p) \/ \E bad \in BOOLEAN : ChipRxDone(p, bad)
         \/ ChipRxTimeout
         \/ ChipTxDone
  PROVE  IInv'
<1>1. irqFlags = {} /\ Quiet
  BY QuietMeansClear DEF ChipRxMasked, ChipRxDone, ChipRxTimeout, ChipTxDone
<1>2. UNCHANGED <<todo, State, RxContinuous, seenHigh, irqFlagsMask, dio0Mapping>>
  BY DEF ChipRxMasked, ChipRxDone, ChipRxTimeout, ChipTxDone, driver, registers
<1>3. /\ opMode \in {"TRANSMITTER", "RECEIVER", "RECEIVER_SINGLE"}
      /\ opMode' \in {"STANDBY", "RECEIVER"} /\ opMode' \in OpMode
      /\ opMode' \in Receiving => opMode' = opMode
  BY DEF ChipRxMasked, ChipRxDone, ChipRxTimeout, ChipTxDone, ReceiveEnds, Receiving, OpMode
<1>4. CASE todo \in Untouched
  <2>1. Agreement'
    <3>1. CASE State = "RF_TX_RUNNING"
      <4>1. Transmitting /\ opMode = "TRANSMITTER"
        BY <1>1, <1>4, <3>1 DEF IInv, UntouchedInv, Agreement, Transmitting
      <4>2. ChipTxDone
        BY <4>1 DEF ChipRxMasked, ChipRxDone, ChipRxTimeout, Receiving
      <4>3. irqFlags' = {"TXDONE"} /\ opMode' = "STANDBY"
        BY <1>1, <4>1, <4>2 DEF ChipTxDone, Raise, Transmitting, IrqFlag
      <4>4. QED
        BY <1>2, <3>1, <4>1, <4>3 DEF Agreement, Transmitting
    <3>2. CASE State = "RF_RX_RUNNING"
      <4>1. ReceptionOn /\ opMode = Listening
        BY <1>1, <1>4, <3>2 DEF IInv, UntouchedInv, Agreement, ReceptionOn
      <4>2. ~ChipTxDone /\ \A p \in Packet : ~ChipRxMasked(p)
        BY <4>1 DEF ChipTxDone, ChipRxMasked, ReceptionOn, Listening
      <4>3. CASE ChipRxTimeout
        <5>1. irqFlags' = {"RXTIMEOUT"} /\ opMode' = "STANDBY"
          BY <1>1, <4>1, <4>3 DEF ChipRxTimeout, Raise, ReceptionOn
        <5>2. QED
          BY <1>2, <3>2, <4>1, <5>1 DEF Agreement, ReceptionOn
      <4>4. CASE \E p \in Packet, bad \in BOOLEAN : ChipRxDone(p, bad)
        <5>1. /\ irqFlags' \in {{"RXDONE"}, {"RXDONE", "PAYLOADCRCERROR"}}
              /\ opMode' = IF opMode = "RECEIVER_SINGLE" THEN "STANDBY" ELSE opMode
          BY <1>1, <4>1, <4>4 DEF ChipRxDone, Raise, ReceptionOn, ReceiveEnds
        <5>2. QED
          BY <1>2, <3>2, <4>1, <5>1 DEF Agreement, ReceptionOn, Listening
      <4>5. QED
        BY <4>2, <4>3, <4>4
    <3>3. CASE State = "RF_IDLE"
      BY <1>3, <1>4, <3>3 DEF IInv, UntouchedInv, Agreement, Off
    <3>4. QED
      BY <3>1, <3>2, <3>3 DEF IInv, RadioState
  <2>2. QED
    BY <1>2, <1>3, <1>4, <2>1, PartsDiffer DEF IInv, UntouchedInv, SendMaskedInv, RxMaskedInv
<1>5. CASE todo \in SendMasked
  <2>1. opMode # "TRANSMITTER" /\ irqFlagsMask = IrqFlag \ {"TXDONE"}
    BY <1>5 DEF IInv, SendMaskedInv
  <2>2. ChipRxTimeout \/ \E p \in Packet : ChipRxMasked(p)
    BY <2>1 DEF ChipTxDone, ChipRxDone, IrqFlag
  <2>3. irqFlags' = {} /\ opMode' # "TRANSMITTER"
    BY <1>1, <1>3, <2>1, <2>2 DEF ChipRxTimeout, ChipRxMasked, Raise, IrqFlag, registers
  <2>4. QED
    BY <1>2, <1>3, <1>5, <2>3, PartsDiffer DEF IInv, UntouchedInv, SendMaskedInv, RxMaskedInv
<1>6. CASE todo \in RxMasked
  <2>1. opMode \notin Receiving /\ irqFlagsMask = {"TXDONE"}
    BY <1>6 DEF IInv, RxMaskedInv
  <2>2. ChipTxDone
    BY <2>1 DEF ChipRxMasked, ChipRxDone, ChipRxTimeout, Receiving
  <2>3. irqFlags' = {} /\ opMode' \notin Receiving
    BY <1>1, <2>1, <2>2 DEF ChipTxDone, Raise, Receiving
  <2>4. QED
    BY <1>2, <1>3, <1>6, <2>3, PartsDiffer DEF IInv, UntouchedInv, SendMaskedInv, RxMaskedInv
<1>7. CASE todo = <<"StateIdle">>
  BY <1>3, <1>7 DEF IInv, Off
<1>8. QED
  BY <1>4, <1>5, <1>6, <1>7 DEF IInv, Todo

(* A pin is high only for what State expects of it. *)
LEMMA InterruptMeans ==
  ASSUME IInv, irqFlags # {}
  PROVE  /\ todo \in Untouched
         /\ \/ State = "RF_TX_RUNNING" /\ Transmitting /\ irqFlags = {"TXDONE"}
            \/ State = "RF_RX_RUNNING" /\ ReceptionOn
<1>1. todo \in Untouched
  BY DEF IInv, Todo, SendMaskedInv, RxMaskedInv, Off
<1>2. Agreement
  BY <1>1 DEF IInv, UntouchedInv
<1>3. QED
  BY <1>1, <1>2 DEF IInv, RadioState, Agreement, Transmitting, ReceptionOn, Off

LEMMA HandlerKeepsInv ==
  ASSUME IInv, SpiAtomic, Interrupt
  PROVE  IInv'
<1>1. irqFlags # {}
  BY DEF Interrupt, FallingEdge, Dio0RxDone, Dio0RxError, Dio0TxDone, Dio1RxTimeout,
         DioIgnored, Gpiote, High, IInv
<1>2. todo \in Untouched
  BY <1>1, InterruptMeans
<1>3. UNCHANGED <<todo, RxContinuous, opMode, irqFlagsMask, dio0Mapping>>
  BY SpiAtomic DEF Interrupt, FallingEdge, Dio0RxDone, Dio0RxError, Dio0TxDone, Dio1RxTimeout,
         DioIgnored, Gpiote, driver, chip, registers
<1>4. ~FallingEdge
  BY DEF FallingEdge, IInv
<1>5. CASE State = "RF_TX_RUNNING"
  <2>1. Transmitting /\ irqFlags = {"TXDONE"}
    BY <1>1, <1>5, InterruptMeans
  <2>2. Dio0TxDone
    BY <1>4, <1>5, <2>1 DEF Interrupt, Dio0RxDone, Dio0RxError, Dio1RxTimeout, DioIgnored, Gpiote,
       High
  <2>3. State' = "RF_IDLE" /\ irqFlags' = {} /\ seenHigh' = {}
    BY <2>1, <2>2 DEF Dio0TxDone, Gpiote, High, IInv, Transmitting
  <2>4. opMode = "STANDBY"
    BY <2>1 DEF Transmitting
  <2>5. QED
    BY <1>2, <1>3, <2>3, <2>4, PartsDiffer
       DEF IInv, UntouchedInv, SendMaskedInv, RxMaskedInv, Agreement, Off, RadioState
<1>6. CASE State = "RF_RX_RUNNING"
  <2>1. ReceptionOn
    BY <1>1, <1>6, InterruptMeans
  <2>2. Dio0RxDone \/ Dio0RxError \/ Dio1RxTimeout
    BY <1>4, <1>6 DEF Interrupt, Dio0TxDone, DioIgnored
  <2>3. irqFlags' = {} /\ seenHigh' = {}
    BY <1>1, <2>1, <2>2 DEF Dio0RxDone, Dio0RxError, Dio1RxTimeout, Gpiote, High, IInv, ReceptionOn
  <2>4. CASE opMode = "RECEIVER"
    <3>1. RxContinuous /\ State' = State
      BY <1>1, <2>1, <2>2, <2>4
         DEF Dio0RxDone, Dio0RxError, Dio1RxTimeout, Gpiote, High, ReceptionOn, Listening
    <3>2. QED
      BY <1>2, <1>3, <1>6, <2>1, <2>3, <2>4, <3>1, PartsDiffer
         DEF IInv, UntouchedInv, SendMaskedInv, RxMaskedInv, Agreement, ReceptionOn, Listening,
             RadioState
  <2>5. CASE opMode # "RECEIVER"
    <3>1. opMode = "STANDBY" /\ State' = "RF_IDLE"
      BY <1>1, <2>1, <2>2, <2>5
         DEF Dio0RxDone, Dio0RxError, Dio1RxTimeout, Gpiote, High, ReceptionOn, Listening
    <3>2. QED
      BY <1>2, <1>3, <2>3, <3>1, PartsDiffer
         DEF IInv, UntouchedInv, SendMaskedInv, RxMaskedInv, Agreement, Off, RadioState
  <2>6. QED
    BY <2>4, <2>5
<1>7. QED
  BY <1>1, <1>5, <1>6, InterruptMeans

LEMMA StartKeepsInv ==
  ASSUME IInv, ~repeated', NEW call \in Call, Start(call)
  PROVE  IInv'
<1>1. todo = <<>> /\ Quiet /\ <<call, State>> \notin Repeats
  BY DEF Start
<1>2. irqFlags = {} /\ Agreement
  BY <1>1, QuietMeansClear, PartsDiffer DEF IInv, UntouchedInv
<1>3. UNCHANGED <<State, seenHigh, opMode, irqFlags, irqFlagsMask, dio0Mapping>>
  BY DEF Start, chip, registers
<1>4. todo' \in Untouched /\ RxContinuous' \in BOOLEAN
  BY RadioAssumption DEF Start, Steps, Call, Untouched, SendBegun, IInv
<1>5. Agreement'
  <2>1. CASE call = "SetRx"
    BY <1>1, <1>2, <1>3, <2>1 DEF Repeats, Agreement, Transmitting, Off
  <2>2. CASE call # "SetRx"
    BY <1>2, <1>3, <2>2 DEF Start, Agreement, Transmitting, ReceptionOn, Listening, Off
  <2>3. QED
    BY <2>1, <2>2
<1>6. todo' = Steps[call]
  BY DEF Start
<1>7. todo' \in SendBegun => call = "Send"
  BY <1>6, PartsDiffer DEF Steps, Call
<1>8. todo' = SX1276SetRx => call = "SetRx"
  BY <1>6, PartsDiffer DEF Steps, Call, SendBegun
<1>9. QED
  BY <1>1, <1>3, <1>4, <1>5, <1>7, <1>8, PartsDiffer
     DEF IInv, UntouchedInv, SendMaskedInv, RxMaskedInv, Repeats, Todo

LEMMA MainStepKeepsInv ==
  ASSUME IInv, MainStep
  PROVE  IInv'
<1>1. /\ todo # <<>> /\ todo' = Tail(todo) /\ Quiet
      /\ UNCHANGED <<RxContinuous, seenHigh>>
  BY DEF MainStep, FifoAddrPtr, WakeUp, WriteFifo, MaskForTx, MaskForRx, MapDio0, SetState,
         SetMode, At
<1>2. irqFlags = {} /\ (todo \in Untouched => Agreement)
  BY <1>1, QuietMeansClear DEF IInv, UntouchedInv
<1>3. irqFlags' = {}
  BY <1>2 DEF MainStep, FifoAddrPtr, WakeUp, WriteFifo, MaskForTx, MaskForRx, MapDio0, SetState,
         SetMode, SX1276SetOpMode, registers
<1>4. todo \in Todo
  BY DEF IInv
<1>5. CASE FifoAddrPtr
  <2>1. UNCHANGED <<State, opMode, irqFlagsMask, dio0Mapping>> /\ Head(todo) = "FifoAddrPtr"
    BY <1>5 DEF FifoAddrPtr, At, registers
  <2>2. CASE todo = SX1276Send /\ todo' \in SendBegun
    <3>1. todo \in SendBegun
      BY <2>2 DEF SendBegun
    <3>2. QED
      BY <1>1, <1>2, <1>3, <2>1, <2>2, <3>1, PartsDiffer
         DEF IInv, UntouchedInv, SendMaskedInv, RxMaskedInv, Todo, Untouched, Agreement,
             Transmitting, ReceptionOn, Listening, Off
  <2>3. CASE todo \in RxMasked /\ todo' = <<"StateRx", "OpModeRx">>
    <3>1. todo' \in RxMasked /\ todo' # <<"OpModeRx">>
      BY <2>3 DEF RxMasked
    <3>2. todo # <<"MapRxDone", "FifoAddrPtr", "StateRx", "OpModeRx">>
      BY <2>1
    <3>3. QED
      BY <1>1, <1>3, <2>1, <2>3, <3>1, <3>2, PartsDiffer
         DEF IInv, UntouchedInv, SendMaskedInv, RxMaskedInv, Todo
  <2>4. QED
    BY <1>1, <1>4, <2>1, <2>2, <2>3, NextAccess
<1>6. CASE WakeUp \/ WriteFifo
  <2>1. todo \in SendBegun /\ todo' \in SendBegun
    BY <1>1, <1>4, <1>6, NextAccess DEF WakeUp, WriteFifo, At
  <2>2. Agreement /\ State # "RF_TX_RUNNING"
    BY <1>2, <2>1 DEF IInv, UntouchedInv, Untouched
  <2>3. UNCHANGED <<irqFlagsMask, dio0Mapping>>
    BY <1>6 DEF WakeUp, WriteFifo, registers
  <2>4. \/ UNCHANGED <<State, opMode>>
        \/ State' = "RF_IDLE" /\ opMode' = "STANDBY"
    BY <1>6 DEF WakeUp, WriteFifo, SX1276SetOpMode
  <2>5. Agreement' /\ State' # "RF_TX_RUNNING"
    BY <1>1, <1>2, <1>3, <2>2, <2>3, <2>4
       DEF Agreement, Transmitting, ReceptionOn, Listening, Off
  <2>6. QED
    BY <1>1, <1>3, <2>1, <2>3, <2>4, <2>5, PartsDiffer
       DEF IInv, UntouchedInv, SendMaskedInv, RxMaskedInv, Todo, Untouched, OpMode, RadioState
<1>7. CASE MaskForTx
  <2>1. todo \in SendBegun /\ todo' = <<"MapTxDone", "StateTx", "OpModeTx">>
    BY <1>1, <1>4, <1>7, NextAccess DEF MaskForTx, At
  <2>2. opMode # "TRANSMITTER"
    BY <1>2, <2>1 DEF IInv, UntouchedInv, Untouched, Agreement, ReceptionOn, Listening, Off,
       RadioState
  <2>3. UNCHANGED <<State, opMode, dio0Mapping>> /\ irqFlagsMask' = IrqFlag \ {"TXDONE"}
    BY <1>7 DEF MaskForTx
  <2>4. todo' \in SendMasked /\ todo' # <<"OpModeTx">>
    BY <2>1 DEF SendMasked
  <2>5. QED
    BY <1>1, <1>3, <2>1, <2>2, <2>3, <2>4, PartsDiffer
       DEF IInv, UntouchedInv, SendMaskedInv, RxMaskedInv, Todo
<1>8. CASE MaskForRx
  <2>1. todo = SX1276SetRx /\ todo' = <<"MapRxDone", "FifoAddrPtr", "StateRx", "OpModeRx">>
    BY <1>1, <1>4, <1>8, NextAccess DEF MaskForRx, At
  <2>2. opMode \notin Receiving
    BY <1>2, <2>1 DEF IInv, UntouchedInv, Untouched, Agreement, Transmitting, Off, RadioState,
       Receiving
  <2>3. UNCHANGED <<State, opMode, dio0Mapping>> /\ irqFlagsMask' = {"TXDONE"}
    BY <1>8 DEF MaskForRx
  <2>4. todo' \in RxMasked /\ todo' # <<"OpModeRx">>
    BY <2>1 DEF RxMasked
  <2>5. QED
    BY <1>1, <1>3, <2>1, <2>2, <2>3, <2>4, PartsDiffer
       DEF IInv, UntouchedInv, SendMaskedInv, RxMaskedInv, Todo
<1>9. CASE MapDio0("MapTxDone", "TXDONE") \/ SetState("StateTx", "RF_TX_RUNNING")
  <2>1. /\ todo \in SendMasked /\ todo' \in {<<"StateTx", "OpModeTx">>, <<"OpModeTx">>}
        /\ Head(todo) \in {"MapTxDone", "StateTx"}
    BY <1>1, <1>4, <1>9, NextAccess DEF MapDio0, SetState, At
  <2>2. UNCHANGED <<opMode, irqFlagsMask>>
    BY <1>9 DEF MapDio0, SetState, registers
  <2>3. dio0Mapping' = "TXDONE"
    <3>1. CASE MapDio0("MapTxDone", "TXDONE")
      BY <3>1 DEF MapDio0
    <3>2. CASE SetState("StateTx", "RF_TX_RUNNING")
      <4>1. todo # <<"MapTxDone", "StateTx", "OpModeTx">>
        BY <3>2 DEF SetState, At
      <4>2. QED
        BY <2>1, <3>2, <4>1 DEF IInv, SendMaskedInv, SetState, registers
    <3>3. QED
      BY <1>9, <3>1, <3>2
  <2>4. todo' = <<"OpModeTx">> => State' = "RF_TX_RUNNING"
    <3>1. CASE MapDio0("MapTxDone", "TXDONE")
      <4>1. Head(todo) = "MapTxDone"
        BY <3>1 DEF MapDio0, At
      <4>2. todo' = <<"StateTx", "OpModeTx">>
        BY <1>1, <1>4, <4>1, NextAccess
      <4>3. QED
        BY <4>2
    <3>2. CASE SetState("StateTx", "RF_TX_RUNNING")
      BY <3>2 DEF SetState
    <3>3. QED
      BY <1>9, <3>1, <3>2
  <2>5. State' \in RadioState
    BY <1>9 DEF MapDio0, SetState, RadioState, IInv
  <2>6. todo' \in SendMasked
    BY <2>1 DEF SendMasked
  <2>7. QED
    BY <1>1, <1>3, <2>1, <2>2, <2>3, <2>4, <2>5, <2>6, PartsDiffer
       DEF IInv, UntouchedInv, SendMaskedInv, RxMaskedInv, Todo
<1>10. CASE MapDio0("MapRxDone", "RXDONE") \/ SetState("StateRx", "RF_RX_RUNNING")
  <2>1. /\ todo \in RxMasked
        /\ todo' \in {<<"FifoAddrPtr", "StateRx", "OpModeRx">>, <<"OpModeRx">>}
        /\ Head(todo) \in {"MapRxDone", "StateRx"}
    BY <1>1, <1>4, <1>10, NextAccess DEF MapDio0, SetState, At
  <2>2. UNCHANGED <<opMode, irqFlagsMask>>
    BY <1>10 DEF MapDio0, SetState, registers
  <2>3. dio0Mapping' = "RXDONE"
    <3>1. CASE MapDio0("MapRxDone", "RXDONE")
      BY <3>1 DEF MapDio0
    <3>2. CASE SetState("StateRx", "RF_RX_RUNNING")
      <4>1. todo # <<"MapRxDone", "FifoAddrPtr", "StateRx", "OpModeRx">>
        BY <3>2 DEF SetState, At
      <4>2. QED
        BY <2>1, <3>2, <4>1 DEF IInv, RxMaskedInv, SetState, registers
    <3>3. QED
      BY <1>10, <3>1, <3>2
  <2>4. todo' = <<"OpModeRx">> => State' = "RF_RX_RUNNING"
    <3>1. CASE MapDio0("MapRxDone", "RXDONE")
      <4>1. Head(todo) = "MapRxDone"
        BY <3>1 DEF MapDio0, At
      <4>2. todo' = <<"FifoAddrPtr", "StateRx", "OpModeRx">>
        BY <1>1, <1>4, <4>1, NextAccess
      <4>3. QED
        BY <4>2
    <3>2. CASE SetState("StateRx", "RF_RX_RUNNING")
      BY <3>2 DEF SetState
    <3>3. QED
      BY <1>10, <3>1, <3>2
  <2>5. State' \in RadioState
    BY <1>10 DEF MapDio0, SetState, RadioState, IInv
  <2>6. todo' \in RxMasked
    BY <2>1 DEF RxMasked
  <2>7. QED
    BY <1>1, <1>3, <2>1, <2>2, <2>3, <2>4, <2>5, <2>6, PartsDiffer
       DEF IInv, UntouchedInv, SendMaskedInv, RxMaskedInv, Todo
<1>11. CASE SetMode("OpModeTx", "TRANSMITTER")
  <2>1. todo = <<"OpModeTx">> /\ todo' = <<>>
    BY <1>1, <1>4, <1>11, NextAccess DEF SetMode, At
  <2>2. /\ irqFlagsMask = IrqFlag \ {"TXDONE"} /\ dio0Mapping = "TXDONE"
        /\ State = "RF_TX_RUNNING"
    BY <2>1 DEF IInv, SendMaskedInv, SendMasked
  <2>3. opMode' = "TRANSMITTER" /\ UNCHANGED <<State, irqFlagsMask, dio0Mapping>>
    BY <1>11 DEF SetMode, SX1276SetOpMode
  <2>4. Agreement'
    BY <1>3, <2>2, <2>3 DEF Agreement, Transmitting
  <2>5. QED
    BY <1>1, <2>1, <2>2, <2>3, <2>4, PartsDiffer
       DEF IInv, UntouchedInv, SendMaskedInv, RxMaskedInv, Todo, OpMode
<1>12. CASE SetMode("OpModeRx", IF RxContinuous THEN "RECEIVER" ELSE "RECEIVER_SINGLE")
  <2>1. todo = <<"OpModeRx">> /\ todo' = <<>>
    BY <1>1, <1>4, <1>12, NextAccess DEF SetMode, At
  <2>2. irqFlagsMask = {"TXDONE"} /\ dio0Mapping = "RXDONE" /\ State = "RF_RX_RUNNING"
    BY <2>1 DEF IInv, RxMaskedInv, RxMasked
  <2>3. opMode' = Listening /\ UNCHANGED <<State, irqFlagsMask, dio0Mapping>>
    BY <1>12 DEF SetMode, SX1276SetOpMode, Listening
  <2>4. Agreement'
    BY <1>1, <1>3, <2>2, <2>3 DEF Agreement, ReceptionOn, Listening
  <2>5. QED
    BY <1>1, <2>1, <2>2, <2>3, <2>4, PartsDiffer
       DEF IInv, UntouchedInv, SendMaskedInv, RxMaskedInv, Todo, OpMode, Listening
<1>13. CASE SetMode("OpModeSleep", "SLEEP") \/ SetMode("OpModeStandby", "STANDBY")
  <2>1. todo' = <<"StateIdle">>
    BY <1>1, <1>4, <1>13, NextAccess DEF SetMode, At
  <2>2. opMode' \in {"SLEEP", "STANDBY"} /\ UNCHANGED <<State, dio0Mapping>>
    BY <1>13 DEF SetMode, SX1276SetOpMode
  <2>3. QED
    BY <1>1, <1>3, <2>1, <2>2, PartsDiffer
       DEF IInv, UntouchedInv, SendMaskedInv, RxMaskedInv, Todo, OpMode, Off
<1>14. CASE SetState("StateIdle", "RF_IDLE")
  <2>1. todo = <<"StateIdle">> /\ todo' = <<>>
    BY <1>1, <1>4, <1>14, NextAccess DEF SetState, At
  <2>2. State' = "RF_IDLE" /\ UNCHANGED <<opMode, dio0Mapping>>
    BY <1>14 DEF SetState, registers
  <2>3. Agreement'
    BY <1>3, <2>1, <2>2 DEF IInv, Agreement, Off
  <2>4. QED
    BY <1>1, <2>1, <2>2, <2>3, PartsDiffer
       DEF IInv, UntouchedInv, SendMaskedInv, RxMaskedInv, Todo, RadioState
<1>15. QED
  BY <1>5, <1>6, <1>7, <1>8, <1>9, <1>10, <1>11, <1>12, <1>13, <1>14 DEF MainStep

LEMMA InitInv == Init => IInv
  BY PartsDiffer DEF Init, IInv, UntouchedInv, SendMaskedInv, RxMaskedInv, Todo, Agreement, Off,
     RadioState, OpMode, Untouched

LEMMA StepKeepsInv ==
  ASSUME IInv, ~repeated', SpiAtomic, [Next]_vars
  PROVE  IInv'
<1>1. CASE UNCHANGED vars
  BY <1>1 DEF vars, driver, chip, registers, IInv, UntouchedInv, SendMaskedInv, RxMaskedInv,
     Agreement, Transmitting, ReceptionOn, Listening, Off
<1>2. CASE \E call \in Call : Start(call)
  BY <1>2, StartKeepsInv
<1>3. CASE MainStep
  BY <1>3, MainStepKeepsInv
<1>4. CASE Interrupt
  BY <1>4, HandlerKeepsInv
<1>5. CASE \/ ChipTxDone \/ ChipRxTimeout
           \/ \E p \in Packet : ChipRxMasked(p) \/ ChipRxDone(p, FALSE)
           \/ BadCrc /\ \E p \in Packet : ChipRxDone(p, TRUE)
  BY <1>5, ChipKeepsInv
<1>6. QED
  BY <1>1, <1>2, <1>3, <1>4, <1>5 DEF Next
-----------------------------------------------------------------------------
(* Once a call has repeated what was on nothing takes that back. *)
LEMMA RepeatedStays ==
  ASSUME repeated, [Next]_vars
  PROVE  repeated'
<1>1. CASE UNCHANGED vars
  BY <1>1 DEF vars, history
<1>2. CASE \E call \in Call : Start(call)
  BY <1>2 DEF Start
<1>3. CASE MainStep
  BY <1>3 DEF MainStep, FifoAddrPtr, WakeUp, WriteFifo, MaskForTx, MaskForRx, MapDio0,
     SetState, SetMode, At
<1>4. CASE Interrupt
  BY <1>4 DEF Interrupt, FallingEdge, Dio0RxDone, Dio0RxError, Dio0TxDone, Dio1RxTimeout,
     DioIgnored, Gpiote, history
<1>5. CASE \/ ChipTxDone \/ ChipRxTimeout
           \/ \E p \in Packet : ChipRxMasked(p) \/ ChipRxDone(p, FALSE)
           \/ BadCrc /\ \E p \in Packet : ChipRxDone(p, TRUE)
  BY <1>5 DEF ChipTxDone, ChipRxTimeout, ChipRxMasked, ChipRxDone, history
<1>6. QED
  BY <1>1, <1>2, <1>3, <1>4, <1>5 DEF Next

LEMMA Invariance ==
  ASSUME SpiAtomic
  PROVE  Spec => [](~repeated => IInv)
<1>1. Init => (~repeated => IInv)
  BY InitInv
<1>2. (~repeated => IInv) /\ [Next]_vars => (~repeated => IInv)'
  BY SpiAtomic, StepKeepsInv, RepeatedStays
<1>3. QED
  BY <1>1, <1>2, PTL DEF Spec

(* When no call is in progress and no interrupt is pending, State is what the chip
   does (SX1276GetStatus), whatever was interrupted where. *)
THEOREM StatusIsCurrent ==
  ASSUME SpiAtomic
  PROVE  Spec => []StatusCurrent
<1>1. (~repeated => IInv) => StatusCurrent
  <2>1. SUFFICES ASSUME IInv, todo = <<>>, Quiet
                 PROVE  /\ (State = "RF_TX_RUNNING") <=> (opMode = "TRANSMITTER")
                        /\ (State = "RF_RX_RUNNING") <=> (opMode \in Receiving)
    BY DEF StatusCurrent
  <2>2. irqFlags = {} /\ Agreement /\ State \in RadioState
    BY <2>1, QuietMeansClear, PartsDiffer DEF IInv, UntouchedInv
  <2>3. QED
    BY <2>2 DEF Agreement, Transmitting, ReceptionOn, Listening, Off, Receiving, RadioState
<1>2. QED
  BY <1>1, SpiAtomic, Invariance, PTL

(* No flag is set that no handler is told of: each one has its pin tell. *)
THEOREM EveryFlagIsTold ==
  ASSUME SpiAtomic
  PROVE  Spec => []FlagsAreTold
<1>1. (~repeated => IInv) => FlagsAreTold
  BY QuietMeansClear DEF FlagsAreTold
<1>2. QED
  BY <1>1, SpiAtomic, Invariance, PTL

(* SX1276OnDio0Irq reports the end of a transmission only if that is what happened,
   and the end of a reception likewise. *)
THEOREM InterruptsAreTold ==
  ASSUME SpiAtomic
  PROVE  Spec => InterruptsTold
<1>1. ASSUME IInv, Next, report # report'
      PROVE  /\ report' = <<"TxDone">> => "TXDONE" \in irqFlags
             /\ report'[1] \in {"RxDone", "RxError"} => "RXDONE" \in irqFlags
  <2>1. CASE Interrupt
    <3>1. irqFlags # {}
      BY <2>1, <1>1 DEF Interrupt, FallingEdge, Dio0RxDone, Dio0RxError, Dio0TxDone,
         Dio1RxTimeout, DioIgnored, Gpiote, High, IInv
    <3>2. CASE Dio0TxDone
      BY <1>1, <3>1, <3>2, InterruptMeans DEF Dio0TxDone, ReceptionOn
    <3>3. CASE Dio0RxDone \/ Dio0RxError
      <4>1. ReceptionOn /\ dio0Mapping \in irqFlags
        BY <1>1, <3>1, <3>3, InterruptMeans DEF Dio0RxDone, Dio0RxError, Gpiote, High
      <4>2. report' # <<"TxDone">>
        BY <3>3 DEF Dio0RxDone, Dio0RxError
      <4>3. QED
        BY <4>1, <4>2 DEF ReceptionOn
    <3>4. CASE Dio1RxTimeout
      BY <3>4 DEF Dio1RxTimeout
    <3>5. QED
      BY <1>1, <2>1, <3>2, <3>3, <3>4 DEF Interrupt, FallingEdge, DioIgnored
  <2>2. CASE ~Interrupt
    <3>1. report' = <<"none">>
      BY <1>1, <2>2 DEF Next, Start, MainStep, FifoAddrPtr, WakeUp, WriteFifo, MaskForTx,
         MaskForRx, MapDio0, SetState, SetMode, At, ChipTxDone, ChipRxTimeout, ChipRxMasked,
         ChipRxDone
    <3>2. QED
      BY <3>1
  <2>3. QED
    BY <2>1, <2>2
<1>2. (~repeated => IInv) /\ [Next]_vars =>
        [report # report' /\ ~repeated =>
           /\ report' = <<"TxDone">> => "TXDONE" \in irqFlags
           /\ report'[1] \in {"RxDone", "RxError"} => "RXDONE" \in irqFlags]_vars
  BY <1>1
<1>3. QED
  BY <1>2, SpiAtomic, Invariance, PTL DEF Spec, InterruptsTold
-----------------------------------------------------------------------------
Access == {"FifoAddrPtr", "WakeUp", "WriteFifo", "MaskForTx", "MapTxDone", "StateTx", "OpModeTx",
           "MaskForRx", "MapRxDone", "StateRx", "OpModeRx", "OpModeSleep", "OpModeStandby",
           "StateIdle"}

LEMMA SeqEqual ==
  ASSUME NEW S, NEW s \in Seq(S), NEW t \in Seq(S), Len(s) = Len(t),
         \A i \in 1..Len(s) : s[i] = t[i]
  PROVE  s = t
  OBVIOUS

(* What is left to do of a call is the end of that call. *)
LEMMA TailIsSuffix ==
  ASSUME NEW S, NEW t \in Seq(S), NEW s, IsSuffix(s, t), s # <<>>
  PROVE  IsSuffix(Tail(s), t)
<1>1. PICK i \in 1..Len(t) + 1 : s = SubSeq(t, i, Len(t))
  BY DEF IsSuffix
<1>2. i \in 1..Len(t)
  BY <1>1
<1>3. Tail(s) = SubSeq(t, i + 1, Len(t))
  <2>1. s \in Seq(S) /\ Len(s) = Len(t) - i + 1
    BY <1>1, <1>2
  <2>2. Tail(s) \in Seq(S) /\ Len(Tail(s)) = Len(t) - i
    BY <2>1
  <2>3. ASSUME NEW k \in 1..Len(t) - i
        PROVE  Tail(s)[k] = SubSeq(t, i + 1, Len(t))[k]
    BY <1>1, <1>2, <2>1
  <2>4. /\ SubSeq(t, i + 1, Len(t)) \in Seq(S) /\ Len(t) - i \in Nat
        /\ Len(SubSeq(t, i + 1, Len(t))) = Len(t) - i
    BY <1>2
  <2>5. QED
    BY <2>2, <2>3, <2>4, SeqEqual
<1>4. i + 1 \in 1..Len(t) + 1
  BY <1>2
<1>5. QED
  BY <1>3, <1>4 DEF IsSuffix

LEMMA StepsAreAccesses == \A call \in Call : Steps[call] \in Seq(Access)
<1>1. SX1276Send \in Seq(Access)
  BY DEF SX1276Send, Access
<1>2. SX1276SetRx \in Seq(Access)
  BY DEF SX1276SetRx, Access
<1>3. SX1276SetSleep \in Seq(Access) /\ SX1276SetStby \in Seq(Access)
  BY DEF SX1276SetSleep, SX1276SetStby, Access
<1>4. QED
  BY <1>1, <1>2, <1>3 DEF Steps, Call

LEMMA NextCellType ==
  ASSUME NEW c \in 0..FifoSize - 1
  PROVE  NextCell(c) \in 0..FifoSize - 1
  BY RadioAssumption DEF NextCell

LEMMA StepKeepsTypes ==
  ASSUME TypeOK, [Next]_vars
  PROVE  TypeOK'
<1>1. (\E call \in Call : IsSuffix(todo, Steps[call]))'
  <2>1. CASE \E call \in Call : Start(call)
    <3>1. PICK call \in Call : todo' = Steps[call]
      BY <2>1 DEF Start
    <3>2. Steps[call] \in Seq(Access)
      BY StepsAreAccesses
    <3>3. todo' = SubSeq(Steps[call], 1, Len(Steps[call]))
      BY <3>1, <3>2
    <3>4. QED
      BY <3>2, <3>3 DEF IsSuffix
  <2>2. CASE todo' = Tail(todo) /\ todo # <<>>
    <3>1. PICK call \in Call : IsSuffix(todo, Steps[call])
      BY DEF TypeOK
    <3>2. Steps[call] \in Seq(Access)
      BY StepsAreAccesses
    <3>3. QED
      BY <2>2, <3>1, <3>2, TailIsSuffix
  <2>3. CASE todo' = todo
    BY <2>3 DEF TypeOK
  <2>4. (\E call \in Call : Start(call)) \/ (todo' = Tail(todo) /\ todo # <<>>) \/ todo' = todo
    BY DEF Next, vars, MainStep, FifoAddrPtr, WakeUp, WriteFifo, MaskForTx, MaskForRx, MapDio0,
       SetState, SetMode, At, Interrupt, FallingEdge, Dio0RxDone, Dio0RxError, Dio0TxDone,
       Dio1RxTimeout, DioIgnored, Gpiote, InTransfer, ChipTxDone, ChipRxTimeout, ChipRxMasked,
       ChipRxDone
  <2>5. QED
    BY <2>1, <2>2, <2>3, <2>4
<1>0. overtaken' \in BOOLEAN /\ parted' \in BOOLEAN /\ repeated' \in BOOLEAN
  <2>1. ASSUME NEW step, At(step)
        PROVE  overtaken' \in BOOLEAN /\ parted' \in BOOLEAN /\ repeated' \in BOOLEAN
    <3>1. (opMode \in Receiving) \in BOOLEAN
      OBVIOUS
    <3>2. QED
      BY <2>1, <3>1, ZenonT(30) DEF At, TypeOK
  <2>2. CASE MainStep
    BY <2>1, <2>2 DEF MainStep, FifoAddrPtr, WakeUp, WriteFifo, MaskForTx, MaskForRx, MapDio0,
       SetState, SetMode
  <2>3. CASE Interrupt
    BY <2>3 DEF Interrupt, FallingEdge, Dio0RxDone, Dio0RxError, Dio0TxDone, Dio1RxTimeout,
       DioIgnored, Gpiote, history, TypeOK
  <2>4. ASSUME NEW p, NEW bad \in BOOLEAN, ChipRxMasked(p) \/ ChipRxDone(p, bad)
        PROVE  overtaken' \in BOOLEAN /\ parted' \in BOOLEAN /\ repeated' \in BOOLEAN
    BY <2>4 DEF ChipRxMasked, ChipRxDone, TypeOK
  <2>5. CASE ChipTxDone \/ ChipRxTimeout \/ UNCHANGED vars
    BY <2>5 DEF ChipTxDone, ChipRxTimeout, history, vars, TypeOK
  <2>6. CASE \E call \in Call : Start(call)
    BY <2>6 DEF Start, TypeOK
  <2>7. QED
    BY <2>2, <2>3, <2>4, <2>5, <2>6 DEF Next
<1>2. CASE \E call \in Call : Start(call)
  BY <1>0, <1>1, <1>2, RadioAssumption DEF Start, TypeOK, chip, registers
<1>3. CASE MainStep
  <2>1. ASSUME NEW mode \in OpMode, SX1276SetOpMode(mode)
        PROVE  /\ opMode' \in OpMode /\ rxAddr' \in 0..FifoSize - 1 /\ irqFlags' \subseteq IrqFlag
               /\ fifo' \in [0..FifoSize - 1 -> Packet \cup {None}]
    BY <2>1, RadioAssumption DEF SX1276SetOpMode, TypeOK
  <2>2. CASE FifoAddrPtr
    BY <1>0, <1>1, <2>2, RadioAssumption DEF FifoAddrPtr, At, TypeOK, registers
  <2>3. CASE WakeUp
    BY <1>0, <1>1, <2>1, <2>3 DEF WakeUp, At, TypeOK, RadioState, OpMode
  <2>4. CASE WriteFifo
    BY <1>0, <1>1, <2>4, NextCellType DEF WriteFifo, At, TypeOK, registers
  <2>5. CASE MaskForTx \/ MaskForRx
    BY <1>0, <1>1, <2>5 DEF MaskForTx, MaskForRx, At, TypeOK, IrqFlag
  <2>6. CASE MapDio0("MapTxDone", "TXDONE") \/ MapDio0("MapRxDone", "RXDONE")
    BY <1>0, <1>1, <2>6 DEF MapDio0, At, TypeOK
  <2>7. ASSUME NEW step, NEW state \in RadioState, SetState(step, state)
        PROVE  TypeOK'
    BY <1>0, <1>1, <2>7 DEF SetState, At, TypeOK, registers
  <2>8. ASSUME NEW step, NEW mode \in OpMode, SetMode(step, mode)
        PROVE  TypeOK'
    BY <1>0, <1>1, <2>1, <2>8 DEF SetMode, At, TypeOK
  <2>9. QED
    BY <1>3, <2>2, <2>3, <2>4, <2>5, <2>6, <2>7, <2>8 DEF MainStep, RadioState, OpMode
<1>4. CASE Interrupt
  <2>1. /\ irqFlags' \subseteq IrqFlag /\ seenHigh' \subseteq {"DIO0", "DIO1"}
        /\ UNCHANGED <<buffer, RxContinuous, opMode, irqFlagsMask, dio0Mapping, fifo, rxAddr,
                       received>>
    BY <1>4 DEF Interrupt, FallingEdge, Dio0RxDone, Dio0RxError, Dio0TxDone, Dio1RxTimeout,
       DioIgnored, Gpiote, High, TypeOK, driver, chip, registers
  <2>2. State' \in RadioState
    BY <1>4 DEF Interrupt, FallingEdge, Dio0RxDone, Dio0RxError, Dio0TxDone, Dio1RxTimeout,
       DioIgnored, TypeOK, driver, RadioState
  <2>3. fifoAddrPtr' \in 0..FifoSize - 1
    BY <1>4, NextCellType DEF Interrupt, FallingEdge, Dio0RxDone, Dio0RxError, Dio0TxDone,
       Dio1RxTimeout, DioIgnored, TypeOK, chip
  <2>4. report' \in ({"RxDone"} \X (Packet \cup {None}))
                   \cup {<<r>> : r \in {"none", "TxDone", "RxError", "RxTimeout"}}
    BY <1>4 DEF Interrupt, FallingEdge, Dio0RxDone, Dio0RxError, Dio0TxDone, Dio1RxTimeout,
       DioIgnored, TypeOK
  <2>5. QED
    BY <1>0, <1>1, <2>1, <2>2, <2>3, <2>4 DEF TypeOK
<1>5. CASE ChipTxDone \/ ChipRxTimeout
  BY <1>0, <1>1, <1>5 DEF ChipTxDone, ChipRxTimeout, Raise, TypeOK, IrqFlag, OpMode, driver
<1>6. ASSUME NEW p \in Packet,
             ChipRxMasked(p) \/ \E bad \in BOOLEAN : ChipRxDone(p, bad)
      PROVE  TypeOK'
  <2>1. /\ fifo' \in [0..FifoSize - 1 -> Packet \cup {None}]
        /\ rxAddr' \in 0..FifoSize - 1 /\ opMode' \in OpMode
        /\ irqFlags' \subseteq IrqFlag /\ received' \in Packet \cup {None}
    <3>1. rxAddr' \in 0..FifoSize - 1 /\ fifo' \in [0..FifoSize - 1 -> Packet \cup {None}]
      BY <1>6, NextCellType DEF ChipRxMasked, ChipRxDone, TypeOK
    <3>2. opMode' \in OpMode /\ received' \in Packet \cup {None}
      BY <1>6 DEF ChipRxMasked, ChipRxDone, ReceiveEnds, TypeOK, OpMode
    <3>3. irqFlags' \subseteq IrqFlag
      <4>1. CASE ChipRxMasked(p)
        BY <4>1 DEF ChipRxMasked, registers, TypeOK
      <4>2. CASE \E bad \in BOOLEAN : ChipRxDone(p, bad)
        BY <4>2 DEF ChipRxDone, Raise, TypeOK, IrqFlag
      <4>3. QED
        BY <1>6, <4>1, <4>2
    <3>4. QED
      BY <3>1, <3>2, <3>3
  <2>2. QED
    BY <1>0, <1>1, <1>6, <2>1 DEF ChipRxMasked, ChipRxDone, TypeOK, driver, registers
<1>7. CASE UNCHANGED vars
  BY <1>0, <1>1, <1>7 DEF vars, driver, chip, registers, TypeOK
<1>8. QED
  BY <1>2, <1>3, <1>4, <1>5, <1>6, <1>7 DEF Next

(* The driver and the registers it works with stay in their ranges, whatever is called
   when, and whatever an interrupt loses of a transfer; above all the two pointers into
   the chip's FIFO (sx1276.c). *)
THEOREM TypeCorrect == Spec => []TypeOK
<1>1. Init => TypeOK
  <2>1. SUFFICES ASSUME Init PROVE TypeOK
    OBVIOUS
  <2>2. IsSuffix(todo, Steps["SetStby"])
    <3>1. Steps["SetStby"] = <<"OpModeStandby", "StateIdle">>
      BY DEF Steps, SX1276SetStby
    <3>2. todo = SubSeq(<<"OpModeStandby", "StateIdle">>, 3, 2)
      BY <2>1 DEF Init
    <3>3. QED
      BY <3>1, <3>2 DEF IsSuffix
  <2>3. \E call \in Call : IsSuffix(todo, Steps[call])
    BY <2>2 DEF Call
  <2>4. /\ fifo \in [0..FifoSize - 1 -> Packet \cup {None}]
        /\ fifoAddrPtr \in 0..FifoSize - 1 /\ rxAddr \in 0..FifoSize - 1
    BY <2>1, RadioAssumption DEF Init
  <2>5. QED
    BY <2>1, <2>3, <2>4 DEF Init, TypeOK, RadioState, OpMode
<1>2. TypeOK /\ [Next]_vars => TypeOK'
  BY StepKeepsTypes
<1>3. QED
  BY <1>1, <1>2, PTL DEF Spec
-----------------------------------------------------------------------------
AtWakeUp == <<"WakeUp", "WriteFifo", "MaskForTx", "MapTxDone", "StateTx", "OpModeTx">>
AtWriteFifo == <<"WriteFifo", "MaskForTx", "MapTxDone", "StateTx", "OpModeTx">>
AtMaskForTx == <<"MaskForTx", "MapTxDone", "StateTx", "OpModeTx">>
AtStateTx == <<"StateTx", "OpModeTx">>

AtMapRxDone == <<"MapRxDone", "FifoAddrPtr", "StateRx", "OpModeRx">>
AtRxPointer == <<"FifoAddrPtr", "StateRx", "OpModeRx">>
AtStateRx == <<"StateRx", "OpModeRx">>
AtOpModeRx == <<"OpModeRx">>

(* A call to send that has set the FIFO's pointer, and one that has filled the FIFO. *)
SendPointed == {AtWakeUp, AtWriteFifo}
SendFilled == {AtMaskForTx} \cup SendMasked

(* A call to receive that has mapped DIO0, and one that has set the pointer. *)
RxMapped == {AtRxPointer, AtStateRx, AtOpModeRx}
RxPointed == {AtStateRx, AtOpModeRx}

(* The edge of DIO0 is still to be seen. *)
Pending == "DIO0" \in High(irqFlags) \ seenHigh

(* While State waits for a reception DIO0 tells its end. *)
MapInv ==
  /\ State = "RF_RX_RUNNING" => dio0Mapping = "RXDONE" \/ todo = AtStateTx
  /\ todo \in RxMapped => dio0Mapping = "RXDONE"

(* A wrong checksum is told with the packet. *)
FlagInv ==
  /\ irqFlagsMask \in {{}, {"TXDONE"}, IrqFlag \ {"TXDONE"}}
  /\ "PAYLOADCRCERROR" \in irqFlags => "RXDONE" \in irqFlags

(* Until a packet comes, nothing but the call to send moves the pointer or writes. *)
SendInv ==
  ~overtaken =>
    /\ todo \in SendPointed => fifoAddrPtr = 0 /\ (State = "RF_RX_RUNNING" => ~Pending)
    /\ todo \in SendFilled => fifo[0] = buffer

(* The driver's pointer is where the chip's is, or a packet behind it while one is
   signalled; a call sets it while no reception is on. *)
PlaceInv ==
  ~parted =>
    /\ todo \in SendPointed \cup SendFilled \cup RxPointed => opMode \notin Receiving
    /\ todo \in RxPointed => fifoAddrPtr = 0 /\ ~Pending
    /\ opMode \in Receiving /\ "RXDONE" \notin irqFlags => fifoAddrPtr = rxAddr
    /\ State = "RF_RX_RUNNING" /\ dio0Mapping = "RXDONE" /\ Pending =>
         /\ "PAYLOADCRCERROR" \notin irqFlags /\ fifo[fifoAddrPtr] = received
         /\ opMode \in Receiving => rxAddr = NextCell(fifoAddrPtr)

DataInv ==
  todo \in Todo /\ MapInv /\ FlagInv /\ SendInv /\ PlaceInv /\ ReportedAsReceived

LEMMA SendParts ==
  /\ SendBegun = {SX1276Send, AtWakeUp, AtWriteFifo, AtMaskForTx}
  /\ SX1276Send \notin {AtWakeUp, AtWriteFifo, AtMaskForTx}
  /\ AtMaskForTx \notin {AtWakeUp, AtWriteFifo} /\ AtWakeUp # AtWriteFifo
  BY DEF SendBegun, SX1276Send, AtWakeUp, AtWriteFifo, AtMaskForTx

LEMMA SendAccess ==
  ASSUME todo \in SendBegun, todo' = Tail(todo)
  PROVE  /\ Head(todo) = "FifoAddrPtr" => todo' = AtWakeUp
         /\ Head(todo) = "WakeUp" => todo = AtWakeUp /\ todo' = AtWriteFifo
         /\ Head(todo) = "WriteFifo" => todo = AtWriteFifo /\ todo' = AtMaskForTx
         /\ Head(todo) = "MaskForTx" => todo = AtMaskForTx
<1>1. CASE todo = SX1276Send
  <2>1. Head(todo) = "FifoAddrPtr" /\ todo' = AtWakeUp
    BY <1>1 DEF SX1276Send, AtWakeUp
  <2>2. QED
    BY <2>1
<1>2. CASE todo = AtWakeUp
  <2>1. Head(todo) = "WakeUp" /\ todo' = AtWriteFifo
    BY <1>2 DEF AtWakeUp, AtWriteFifo
  <2>2. QED
    BY <1>2, <2>1
<1>3. CASE todo = AtWriteFifo
  <2>1. Head(todo) = "WriteFifo" /\ todo' = AtMaskForTx
    BY <1>3 DEF AtWriteFifo, AtMaskForTx
  <2>2. QED
    BY <1>3, <2>1
<1>4. CASE todo = AtMaskForTx
  <2>1. Head(todo) = "MaskForTx"
    BY <1>4 DEF AtMaskForTx
  <2>2. QED
    BY <1>4, <2>1
<1>5. QED
  BY <1>1, <1>2, <1>3, <1>4, SendParts

(* What is left of a call when an access is done or lost. *)
LEMMA TailOfCall ==
  ASSUME todo \in Todo, todo # <<>>
  PROVE  /\ Tail(todo) \in Todo
         /\ todo \notin SendBegun \cup SendMasked =>
              Tail(todo) \in RxMasked \cup {<<"StateIdle">>, <<>>}
<1>1. CASE todo \in SendBegun
  <2>1. Tail(SX1276Send) = AtWakeUp /\ Tail(AtWakeUp) = AtWriteFifo
    BY DEF SX1276Send, AtWakeUp, AtWriteFifo
  <2>2. Tail(AtWriteFifo) = AtMaskForTx
    BY DEF AtWriteFifo, AtMaskForTx
  <2>3. Tail(AtMaskForTx) \in SendMasked
    BY DEF AtMaskForTx, SendMasked
  <2>4. QED
    BY <1>1, <2>1, <2>2, <2>3, SendParts DEF Todo, Untouched
<1>2. CASE todo \in SendMasked
  <2>1. Tail(<<"MapTxDone", "StateTx", "OpModeTx">>) = <<"StateTx", "OpModeTx">>
    OBVIOUS
  <2>2. Tail(<<"StateTx", "OpModeTx">>) = <<"OpModeTx">> /\ Tail(<<"OpModeTx">>) = <<>>
    OBVIOUS
  <2>3. QED
    BY <1>2, <2>1, <2>2 DEF Todo, Untouched, SendMasked
<1>3. CASE todo \in RxMasked
  <2>1. Tail(<<"MapRxDone", "FifoAddrPtr", "StateRx", "OpModeRx">>)
          = <<"FifoAddrPtr", "StateRx", "OpModeRx">>
    OBVIOUS
  <2>2. Tail(<<"FifoAddrPtr", "StateRx", "OpModeRx">>) = <<"StateRx", "OpModeRx">>
    OBVIOUS
  <2>3. Tail(<<"StateRx", "OpModeRx">>) = <<"OpModeRx">> /\ Tail(<<"OpModeRx">>) = <<>>
    OBVIOUS
  <2>4. Tail(todo) \in RxMasked \cup {<<>>}
    BY <1>3, <2>1, <2>2, <2>3 DEF RxMasked
  <2>5. QED
    BY <2>4 DEF Todo, Untouched
<1>4. CASE todo \in {SX1276SetRx, SX1276SetSleep, SX1276SetStby, <<"StateIdle">>}
  <2>1. Tail(SX1276SetRx) = <<"MapRxDone", "FifoAddrPtr", "StateRx", "OpModeRx">>
    BY DEF SX1276SetRx
  <2>2. Tail(SX1276SetSleep) = <<"StateIdle">> /\ Tail(SX1276SetStby) = <<"StateIdle">>
    BY DEF SX1276SetSleep, SX1276SetStby
  <2>3. Tail(<<"StateIdle">>) = <<>>
    OBVIOUS
  <2>4. Tail(todo) \in RxMasked \cup {<<"StateIdle">>, <<>>}
    BY <1>4, <2>1, <2>2, <2>3 DEF RxMasked
  <2>5. QED
    BY <2>4 DEF Todo, Untouched
<1>5. QED
  BY <1>1, <1>2, <1>3, <1>4 DEF Todo, Untouched

LEMMA TodoStep ==
  ASSUME todo \in Todo, [Next]_vars
  PROVE  todo' \in Todo
<1>1. CASE \E call \in Call : Start(call)
  BY <1>1 DEF Start, Steps, Call, Todo, Untouched, SendBegun
<1>2. CASE MainStep
  <2>1. todo # <<>> /\ todo' = Tail(todo)
    BY <1>2 DEF MainStep, FifoAddrPtr, WakeUp, WriteFifo, MaskForTx, MaskForRx, MapDio0, SetState,
       SetMode, At
  <2>2. QED
    BY <2>1, TailOfCall
<1>3. CASE Interrupt
  <2>1. todo' = todo \/ (todo # <<>> /\ todo' = Tail(todo))
    BY <1>3 DEF Interrupt, FallingEdge, Dio0RxDone, Dio0RxError, Dio0TxDone, Dio1RxTimeout,
       DioIgnored, Gpiote, InTransfer
  <2>2. QED
    BY <2>1, TailOfCall
<1>4. CASE UNCHANGED todo
  BY <1>4
<1>5. CASE ChipTxDone \/ ChipRxTimeout \/ UNCHANGED vars
  BY <1>4, <1>5 DEF ChipTxDone, ChipRxTimeout, vars
<1>6. CASE \E p \in Packet : ChipRxMasked(p) \/ \E bad \in BOOLEAN : ChipRxDone(p, bad)
  BY <1>4, <1>6 DEF ChipRxMasked, ChipRxDone
<1>7. QED
  BY <1>1, <1>2, <1>3, <1>5, <1>6 DEF Next

(* The parts of a call to receive. *)
LEMMA RxParts ==
  /\ RxMasked = {AtMapRxDone, AtRxPointer, AtStateRx, AtOpModeRx}
  /\ AtMapRxDone \notin {AtRxPointer, AtStateRx, AtOpModeRx}
  /\ AtRxPointer \notin {AtStateRx, AtOpModeRx} /\ AtStateRx # AtOpModeRx
  BY DEF RxMasked, AtMapRxDone, AtRxPointer, AtStateRx, AtOpModeRx

LEMMA RxAccess ==
  ASSUME todo \in RxMasked
  PROVE  /\ Head(todo) = "MapRxDone" => todo = AtMapRxDone
         /\ Head(todo) = "FifoAddrPtr" => todo = AtRxPointer
         /\ Head(todo) = "StateRx" => todo = AtStateRx
<1>1. Head(AtMapRxDone) = "MapRxDone" /\ Head(AtRxPointer) = "FifoAddrPtr"
  BY DEF AtMapRxDone, AtRxPointer
<1>2. Head(AtStateRx) = "StateRx" /\ Head(AtOpModeRx) = "OpModeRx"
  BY DEF AtStateRx, AtOpModeRx
<1>3. QED
  BY <1>1, <1>2, RxParts

(* The places that matter to what the FIFO holds, and the others. *)
LEMMA Places ==
  /\ SendPointed \cap SendFilled = {} /\ (SendPointed \cup SendFilled) \cap RxMapped = {}
  /\ RxPointed \subseteq RxMapped /\ AtRxPointer \notin RxPointed /\ AtMapRxDone \notin RxMapped
  /\ AtStateTx \in SendFilled /\ SendPointed \cup {AtMaskForTx} \subseteq SendBegun
  /\ RxMasked = RxMapped \cup {AtMapRxDone}
  /\ \A t \in {<<>>, SX1276Send, SX1276SetRx, SX1276SetSleep, SX1276SetStby, <<"StateIdle">>,
               AtMapRxDone} :
       t \notin SendPointed \cup SendFilled \cup RxMapped
<1>1. /\ RxMasked = RxMapped \cup {AtMapRxDone} /\ RxPointed \subseteq RxMapped
      /\ AtMapRxDone \notin RxMapped /\ AtRxPointer \notin RxPointed
  BY RxParts DEF RxMapped, RxPointed
<1>2. /\ SendPointed \cup {AtMaskForTx} \subseteq SendBegun /\ AtMaskForTx \notin SendPointed
      /\ SX1276Send \in SendBegun /\ SX1276Send \notin SendPointed \cup {AtMaskForTx}
  BY SendParts DEF SendPointed
<1>3. AtStateTx \in SendMasked
  BY DEF AtStateTx, SendMasked
<1>4. SendBegun \cap SendMasked = {} /\ (SendBegun \cup SendMasked) \cap RxMasked = {}
  BY PartsDiffer DEF Untouched
<1>5. \A t \in {<<>>, SX1276SetRx, SX1276SetSleep, SX1276SetStby, <<"StateIdle">>} :
        t \notin SendBegun \cup SendMasked \cup RxMasked
  BY PartsDiffer DEF Untouched
<1>6. QED
  BY <1>1, <1>2, <1>3, <1>4, <1>5 DEF SendFilled

(* Where the next access of a call leads, and where it was made. *)
LEMMA NextPlace ==
  ASSUME todo \in Todo, todo # <<>>, todo' = Tail(todo)
  PROVE  /\ Head(todo) = "FifoAddrPtr" =>
              \/ todo' = AtWakeUp
              \/ todo = AtRxPointer /\ todo' = AtStateRx
         /\ Head(todo) = "WakeUp" => todo = AtWakeUp /\ todo' = AtWriteFifo
         /\ Head(todo) = "WriteFifo" => todo = AtWriteFifo /\ todo' = AtMaskForTx
         /\ Head(todo) \in {"MaskForTx", "MapTxDone", "StateTx"} =>
              todo \in SendFilled /\ todo' \in SendFilled
         /\ Head(todo) = "MapTxDone" => todo' = AtStateTx
         /\ Head(todo) \in {"MaskForRx", "OpModeTx", "OpModeSleep", "OpModeStandby", "StateIdle"} =>
              todo' \in {<<>>, <<"StateIdle">>, AtMapRxDone}
         /\ Head(todo) = "MapRxDone" => todo = AtMapRxDone /\ todo' = AtRxPointer
         /\ Head(todo) = "StateRx" => todo = AtStateRx /\ todo' = AtOpModeRx
         /\ Head(todo) = "OpModeRx" => todo = AtOpModeRx /\ todo' = <<>>
<1>1. Head(todo) = "FifoAddrPtr" =>
        \/ todo' = AtWakeUp
        \/ todo = AtRxPointer /\ todo' = AtStateRx
  <2>1. CASE todo = SX1276Send /\ Head(todo) = "FifoAddrPtr"
    BY <2>1, SendAccess, SendParts
  <2>2. CASE todo \in RxMasked /\ todo' = AtStateRx /\ Head(todo) = "FifoAddrPtr"
    BY <2>2, RxAccess
  <2>3. QED
    BY <2>1, <2>2, NextAccess DEF AtStateRx
<1>2. /\ Head(todo) = "WakeUp" => todo = AtWakeUp /\ todo' = AtWriteFifo
      /\ Head(todo) = "WriteFifo" => todo = AtWriteFifo /\ todo' = AtMaskForTx
  BY NextAccess, SendAccess
<1>3. Head(todo) = "MaskForTx" => todo \in SendFilled /\ todo' \in SendFilled
  BY NextAccess, SendAccess DEF SendFilled, SendMasked
<1>4. /\ Head(todo) = "MapTxDone" => todo \in SendFilled /\ todo' = AtStateTx
      /\ Head(todo) = "StateTx" => todo \in SendFilled /\ todo' \in SendFilled
  BY NextAccess, Places DEF SendFilled, SendMasked, AtStateTx
<1>5. Head(todo) \in {"MaskForRx", "OpModeTx", "OpModeSleep", "OpModeStandby", "StateIdle"} =>
        todo' \in {<<>>, <<"StateIdle">>, AtMapRxDone}
  BY NextAccess DEF AtMapRxDone
<1>6. /\ Head(todo) = "MapRxDone" => todo = AtMapRxDone /\ todo' = AtRxPointer
      /\ Head(todo) = "StateRx" => todo = AtStateRx /\ todo' = AtOpModeRx
  BY NextAccess, RxAccess DEF AtRxPointer, AtOpModeRx
<1>7. Head(todo) = "OpModeRx" => todo = AtOpModeRx /\ todo' = <<>>
  BY NextAccess DEF AtOpModeRx
<1>8. QED
  BY <1>1, <1>2, <1>3, <1>4, <1>5, <1>6, <1>7, Places

(* What the chip does while no interrupt is pending.  A packet that comes while nothing
   has parted the pointers is written where the driver will read. *)
LEMMA ChipKeepsData ==
  ASSUME TypeOK, DataInv,
         \/ \E p \in Packet : ChipRxMasked(p) \/ \E bad \in BOOLEAN : ChipRxDone(p, bad)
         \/ ChipRxTimeout
         \/ ChipTxDone
  PROVE  DataInv'
<1>1. Quiet /\ ~Pending
  BY DEF ChipRxMasked, ChipRxDone, ChipRxTimeout, ChipTxDone, Quiet, Pending
<1>2. /\ UNCHANGED <<todo, State, buffer, fifoAddrPtr, seenHigh, dio0Mapping, irqFlagsMask>>
      /\ report' = <<"none">>
  BY DEF ChipRxMasked, ChipRxDone, ChipRxTimeout, ChipTxDone, driver, registers
<1>3. todo' \in Todo /\ MapInv' /\ ReportedAsReceived'
  BY <1>2 DEF DataInv, MapInv, ReportedAsReceived
<1>4. CASE ChipTxDone \/ ChipRxTimeout
  <2>1. /\ irqFlags \subseteq irqFlags' /\ irqFlags' \subseteq irqFlags \cup {"TXDONE", "RXTIMEOUT"}
        /\ opMode' = "STANDBY" /\ UNCHANGED <<fifo, rxAddr, received, overtaken, parted>>
    BY <1>4 DEF ChipTxDone, ChipRxTimeout, Raise, history
  <2>2. dio0Mapping = "RXDONE" => ~Pending'
    BY <1>1, <1>2, <2>1 DEF Pending, High
  <2>3. FlagInv'
    BY <1>2, <2>1 DEF DataInv, FlagInv
  <2>4. SendInv'
    BY <1>2, <2>1, <2>2, Places DEF DataInv, SendInv, MapInv
  <2>5. PlaceInv'
    BY <1>2, <2>1, <2>2, Places DEF DataInv, PlaceInv, MapInv, Receiving
  <2>6. QED
    BY <1>3, <2>3, <2>4, <2>5 DEF DataInv
<1>5. ASSUME NEW p \in Packet, ChipRxMasked(p) \/ \E bad \in BOOLEAN : ChipRxDone(p, bad)
      PROVE  SendInv'
  BY <1>2, <1>5, Places DEF ChipRxMasked, ChipRxDone, SendInv
<1>6. ASSUME NEW p \in Packet, ChipRxMasked(p)
      PROVE  DataInv'
  <2>1. FlagInv' /\ PlaceInv'
    BY <1>6 DEF ChipRxMasked, DataInv, FlagInv, PlaceInv, registers
  <2>2. QED
    BY <1>3, <1>5, <1>6, <2>1 DEF DataInv
<1>7. ASSUME NEW p \in Packet, NEW bad \in BOOLEAN, ChipRxDone(p, bad)
      PROVE  DataInv'
  <2>1. "RXDONE" \in irqFlags' /\ opMode \in Receiving
    BY <1>7 DEF ChipRxDone, Raise
  <2>2. FlagInv'
    BY <1>2, <2>1 DEF DataInv, FlagInv
  <2>3. ASSUME ~parted'
        PROVE  /\ ~parted /\ todo \notin SendPointed \cup SendFilled \cup RxPointed
               /\ irqFlags' \subseteq irqFlags \cup {"RXDONE"}
    BY <1>7, <2>1, <2>3 DEF ChipRxDone, DataInv, PlaceInv, Raise
  <2>4. ASSUME ~parted', dio0Mapping = "RXDONE", Pending'
        PROVE  /\ "PAYLOADCRCERROR" \notin irqFlags' /\ fifo'[fifoAddrPtr] = received'
               /\ rxAddr' = NextCell(fifoAddrPtr)
    <3>1. "RXDONE" \notin irqFlags
      BY <1>1, <1>2, <2>1, <2>4 DEF Pending, High
    <3>2. fifoAddrPtr = rxAddr /\ "PAYLOADCRCERROR" \notin irqFlags
      BY <2>1, <2>3, <2>4, <3>1 DEF DataInv, PlaceInv, FlagInv
    <3>3. fifo' = [fifo EXCEPT ![rxAddr] = p] /\ received' = p /\ rxAddr' = NextCell(rxAddr)
      BY <1>7 DEF ChipRxDone
    <3>4. rxAddr \in DOMAIN fifo
      BY DEF TypeOK
    <3>5. QED
      BY <2>3, <2>4, <3>2, <3>3, <3>4
  <2>5. PlaceInv'
    <3>1. ASSUME ~parted'
          PROVE  todo' \notin SendPointed \cup SendFilled \cup RxPointed /\ "RXDONE" \in irqFlags'
      BY <1>2, <2>1, <2>3, <3>1
    <3>2. ASSUME ~parted', (State = "RF_RX_RUNNING" /\ dio0Mapping = "RXDONE" /\ Pending)'
          PROVE  ("PAYLOADCRCERROR" \notin irqFlags /\ fifo[fifoAddrPtr] = received
                  /\ rxAddr = NextCell(fifoAddrPtr))'
      BY <1>2, <2>4, <3>2 DEF NextCell
    <3>3. QED
      BY <3>1, <3>2 DEF PlaceInv
  <2>6. QED
    BY <1>3, <1>5, <1>7, <2>2, <2>5 DEF DataInv
<1>8. QED
  BY <1>4, <1>6, <1>7

(* A handler that reads does so where the packet is, or what it reads counts as parted. *)
LEMMA HandlerKeepsData ==
  ASSUME SpiAtomic, TypeOK, DataInv, Interrupt
  PROVE  DataInv'
<1>1. /\ UNCHANGED <<todo, opMode, irqFlagsMask, dio0Mapping, fifo, buffer, rxAddr, received,
                    overtaken>>
      /\ parted => parted'
      /\ State' \in {State, "RF_IDLE"} /\ irqFlags' \subseteq irqFlags
  <2>1. CASE FallingEdge
    BY <2>1 DEF FallingEdge, driver, chip, registers, history
  <2>2. ASSUME NEW pin, NEW cleared, Gpiote(pin, cleared)
        PROVE  /\ UNCHANGED <<todo, opMode, irqFlagsMask, dio0Mapping, fifo, buffer, rxAddr,
                              received, overtaken>>
               /\ irqFlags' \subseteq irqFlags
    BY <2>2, SpiAtomic DEF Gpiote
  <2>3. CASE Dio0RxDone
    BY <2>2, <2>3 DEF Dio0RxDone
  <2>4. CASE Dio0RxError \/ Dio0TxDone \/ Dio1RxTimeout \/ DioIgnored
    BY <2>2, <2>4 DEF Dio0RxError, Dio0TxDone, Dio1RxTimeout, DioIgnored
  <2>5. QED
    BY <2>1, <2>3, <2>4 DEF Interrupt
<1>2. ASSUME Pending'
      PROVE  Pending /\ (State' = "RF_RX_RUNNING" => UNCHANGED <<irqFlags, fifoAddrPtr>>)
  <2>1. CASE FallingEdge \/ DioIgnored
    BY <1>1, <1>2, <2>1 DEF FallingEdge, DioIgnored, Gpiote, Pending, High, chip, registers
  <2>2. CASE Dio0RxDone \/ Dio0RxError \/ Dio0TxDone
    <3>1. PICK cleared \in SUBSET IrqFlag : Gpiote("DIO0", cleared)
      BY <2>2 DEF Dio0RxDone, Dio0RxError, Dio0TxDone, IrqFlag
    <3>2. High(irqFlags)' = High(irqFlags')
      BY <1>1 DEF High
    <3>3. High(irqFlags \ cleared) = High(irqFlags')
      BY <3>1 DEF Gpiote
    <3>4. QED
      BY <1>1, <1>2, <3>1, <3>2, <3>3 DEF Gpiote, Pending, High
  <2>3. CASE Dio1RxTimeout
    BY <1>1, <1>2, <2>3 DEF Dio1RxTimeout, Gpiote, Pending, High
  <2>4. QED
    BY <2>1, <2>2, <2>3 DEF Interrupt
<1>3. Dio0RxDone \/ Dio0RxError => Pending /\ State = "RF_RX_RUNNING"
  BY DEF Dio0RxDone, Dio0RxError, Gpiote, Pending
<1>4. ~Dio0RxDone => UNCHANGED <<fifoAddrPtr, parted>>
  BY DEF Interrupt, FallingEdge, Dio0RxError, Dio0TxDone, Dio1RxTimeout, DioIgnored, chip, history
<1>5. todo' \in Todo /\ MapInv'
  BY <1>1 DEF DataInv, MapInv
<1>6. FlagInv'
  <2>1. "PAYLOADCRCERROR" \in irqFlags' => "RXDONE" \in irqFlags'
    BY DEF DataInv, FlagInv, Interrupt, FallingEdge, Dio0RxDone, Dio0RxError, Dio0TxDone,
       Dio1RxTimeout, DioIgnored, Gpiote, chip, registers
  <2>2. QED
    BY <1>1, <2>1 DEF DataInv, FlagInv
<1>7. SendInv'
  BY <1>1, <1>2, <1>3, <1>4 DEF DataInv, SendInv
<1>8. ASSUME ~parted', Dio0RxDone
      PROVE  /\ fifo[fifoAddrPtr] = received /\ report' = <<"RxDone", fifo[fifoAddrPtr]>>
             /\ opMode \in Receiving => fifoAddrPtr' = rxAddr
  BY <1>1, <1>3, <1>8 DEF Dio0RxDone, DataInv, PlaceInv
<1>9. ReportedAsReceived'
  <2>1. CASE Dio0RxDone
    BY <1>1, <1>8, <2>1 DEF ReportedAsReceived
  <2>2. CASE ~Dio0RxDone
    <3>1. report' = report \/ report'[1] # "RxDone"
      BY <2>2 DEF Interrupt, FallingEdge, Dio0RxError, Dio0TxDone, Dio1RxTimeout, DioIgnored
    <3>2. QED
      BY <1>1, <1>4, <2>2, <3>1 DEF DataInv, ReportedAsReceived
  <2>3. QED
    BY <2>1, <2>2
<1>10. ASSUME ~parted', opMode \in Receiving, "RXDONE" \notin irqFlags'
       PROVE  fifoAddrPtr' = rxAddr
  <2>1. CASE Dio0RxDone
    BY <1>8, <1>10, <2>1
  <2>2. CASE Dio0RxError
    <3>1. ~parted /\ Pending /\ State = "RF_RX_RUNNING" /\ "PAYLOADCRCERROR" \in irqFlags
      BY <1>1, <1>3, <1>10, <2>2 DEF Dio0RxError
    <3>2. todo # AtStateTx
      BY <1>10, <3>1, Places DEF DataInv, PlaceInv
    <3>3. QED
      BY <3>1, <3>2 DEF DataInv, MapInv, PlaceInv
  <2>3. CASE ~(Dio0RxDone \/ Dio0RxError)
    <3>1. "RXDONE" \notin irqFlags
      BY <1>10, <2>3 DEF Interrupt, FallingEdge, Dio0TxDone, Dio1RxTimeout, DioIgnored, Gpiote,
         chip, registers
    <3>2. QED
      BY <1>1, <1>4, <1>10, <2>3, <3>1 DEF DataInv, PlaceInv
  <2>4. QED
    BY <2>1, <2>2, <2>3
<1>11. PlaceInv'
  <2>1. ASSUME ~parted' PROVE PlaceInv /\ ~parted
    BY <1>1, <2>1 DEF DataInv
  <2>2. ASSUME ~parted', todo \in RxPointed PROVE fifoAddrPtr' = 0 /\ ~Pending'
    BY <1>2, <1>3, <1>4, <2>1, <2>2 DEF PlaceInv
  <2>3. ASSUME ~parted', (State = "RF_RX_RUNNING" /\ dio0Mapping = "RXDONE" /\ Pending)'
        PROVE  /\ "PAYLOADCRCERROR" \notin irqFlags' /\ fifo'[fifoAddrPtr'] = received'
               /\ opMode' \in Receiving => rxAddr' = NextCell(fifoAddrPtr')
    BY <1>1, <1>2, <2>1, <2>3 DEF PlaceInv
  <2>4. QED
    BY <1>1, <1>10, <2>1, <2>2, <2>3 DEF PlaceInv, NextCell
<1>12. QED
  BY <1>5, <1>6, <1>7, <1>9, <1>11 DEF DataInv

(* A call that starts has touched nothing yet. *)
LEMMA StartKeepsData ==
  ASSUME DataInv, NEW call \in Call, Start(call)
  PROVE  DataInv'
<1>1. /\ todo = <<>> /\ report' = <<"none">>
      /\ todo' \in {SX1276Send, SX1276SetRx, SX1276SetSleep, SX1276SetStby}
      /\ UNCHANGED <<State, opMode, irqFlags, irqFlagsMask, dio0Mapping, fifo, fifoAddrPtr, rxAddr,
                    received, seenHigh, parted>>
  BY DEF Start, Steps, Call, chip, registers
<1>2. todo' \in Todo /\ ReportedAsReceived' /\ FlagInv'
  BY <1>1 DEF DataInv, FlagInv, ReportedAsReceived, Todo, Untouched, SendBegun
<1>3. todo' \notin SendPointed \cup SendFilled \cup RxMapped /\ todo # AtStateTx
  BY <1>1, Places
<1>4. MapInv' /\ SendInv'
  BY <1>1, <1>3 DEF DataInv, MapInv, SendInv
<1>5. Pending' = Pending /\ (NextCell(fifoAddrPtr))' = NextCell(fifoAddrPtr)
  BY <1>1 DEF Pending, High, NextCell
<1>6. PlaceInv'
  BY <1>1, <1>3, <1>5, Places DEF DataInv, PlaceInv
<1>7. QED
  BY <1>2, <1>4, <1>6 DEF DataInv

(* The accesses of the calls, each made while no interrupt is pending. *)
LEMMA MainStepKeepsData ==
  ASSUME TypeOK, DataInv, MainStep
  PROVE  DataInv'
<1>1. /\ todo \in Todo /\ todo # <<>> /\ todo' = Tail(todo) /\ Quiet
      /\ UNCHANGED <<buffer, received, seenHigh, overtaken>> /\ report' = <<"none">>
      /\ irqFlags' \subseteq irqFlags
      /\ parted' = IF Head(todo) = "FifoAddrPtr" THEN opMode \in Receiving ELSE parted
  BY DEF MainStep, FifoAddrPtr, WakeUp, WriteFifo, MaskForTx, MaskForRx, MapDio0, SetState,
         SetMode, SX1276SetOpMode, At, DataInv, registers
<1>2. todo' \in Todo /\ ReportedAsReceived'
  BY <1>1, TailOfCall DEF ReportedAsReceived
<1>3. FlagInv'
  <2>1. irqFlags' \in {irqFlags, {}}
    BY DEF MainStep, FifoAddrPtr, WakeUp, WriteFifo, MaskForTx, MaskForRx, MapDio0, SetState,
         SetMode, SX1276SetOpMode, registers
  <2>2. irqFlagsMask' \in {irqFlagsMask, {"TXDONE"}, IrqFlag \ {"TXDONE"}}
    BY DEF MainStep, FifoAddrPtr, WakeUp, WriteFifo, MaskForTx, MaskForRx, MapDio0, SetState,
         SetMode, registers
  <2>3. QED
    BY <2>1, <2>2 DEF DataInv, FlagInv
<1>4. UNCHANGED dio0Mapping => ~Pending'
  BY <1>1 DEF Pending, High, Quiet
<1>5. MapInv /\ SendInv /\ PlaceInv
  BY DEF DataInv
(* Whoever maps DIO0 anew does not find State waiting on. *)
<1>6. State' = "RF_RX_RUNNING" /\ dio0Mapping' = "RXDONE" => ~Pending'
  <2>1. CASE MapDio0("MapTxDone", "TXDONE")
    BY <2>1 DEF MapDio0
  <2>2. CASE MapDio0("MapRxDone", "RXDONE")
    <3>1. todo # AtStateTx /\ UNCHANGED State /\ dio0Mapping' = "RXDONE"
      BY <1>1, <2>2, NextPlace, Places DEF MapDio0, At
    <3>2. QED
      BY <1>4, <1>5, <3>1 DEF MapInv
  <2>3. CASE UNCHANGED dio0Mapping
    BY <1>4, <2>3
  <2>4. QED
    BY <2>1, <2>2, <2>3 DEF MainStep, FifoAddrPtr, WakeUp, WriteFifo, MaskForTx, MaskForRx, SetState,
       SetMode, registers
(* Whatever is left alone keeps its part of the invariant. *)
<1>7. ASSUME todo' \notin SendPointed \cup SendFilled \cup RxMapped,
             opMode' \in Receiving => UNCHANGED <<opMode, fifoAddrPtr, rxAddr, irqFlags, parted>>,
             State' = "RF_RX_RUNNING" => UNCHANGED <<State, dio0Mapping>> /\ todo # AtStateTx
      PROVE  DataInv'
  <2>1. MapInv' /\ SendInv'
    BY <1>5, <1>7 DEF MapInv, SendInv
  <2>2. PlaceInv'
    BY <1>5, <1>6, <1>7, Places DEF PlaceInv
  <2>3. QED
    BY <1>2, <1>3, <2>1, <2>2 DEF DataInv
<1>8. ASSUME todo' \in SendPointed \cup SendFilled, SendInv', todo' = AtStateTx \/ UNCHANGED dio0Mapping,
             State' = "RF_RX_RUNNING" => UNCHANGED State /\ todo # AtStateTx,
             ~parted' => opMode' \notin Receiving
      PROVE  DataInv'
  <2>1. MapInv'
    BY <1>5, <1>8, Places DEF MapInv
  <2>2. PlaceInv'
    BY <1>6, <1>8, Places DEF PlaceInv
  <2>3. QED
    BY <1>2, <1>3, <1>8, <2>1, <2>2 DEF DataInv
<1>9. ASSUME todo' \in RxMapped, dio0Mapping' = "RXDONE", PlaceInv'
      PROVE  DataInv'
  <2>1. MapInv' /\ SendInv'
    BY <1>9, Places DEF MapInv, SendInv
  <2>2. QED
    BY <1>2, <1>3, <1>9, <2>1 DEF DataInv
<1>10. CASE FifoAddrPtr
  <2>1. /\ UNCHANGED <<State, opMode, dio0Mapping>> /\ Head(todo) = "FifoAddrPtr"
        /\ fifoAddrPtr' = 0 /\ (~parted' => opMode' \notin Receiving)
    BY <1>1, <1>10 DEF FifoAddrPtr, At, registers
  <2>2. todo # AtStateTx
    <3>1. Head(AtStateTx) = "StateTx"
      BY DEF AtStateTx
    <3>2. QED
      BY <2>1, <3>1
  <2>3. CASE todo' = AtWakeUp
    <3>1. todo' \in SendPointed /\ SendInv'
      BY <1>4, <2>1, <2>3, Places DEF SendPointed, SendInv
    <3>2. QED
      BY <1>8, <2>1, <2>2, <3>1
  <2>4. CASE todo = AtRxPointer /\ todo' = AtStateRx
    <3>1. todo' \in RxMapped /\ dio0Mapping' = "RXDONE"
      BY <1>5, <2>1, <2>4 DEF RxMapped, MapInv
    <3>2. PlaceInv'
      BY <1>4, <2>1 DEF PlaceInv
    <3>3. QED
      BY <1>9, <3>1, <3>2
  <2>5. QED
    BY <1>1, <2>1, <2>3, <2>4, NextPlace
<1>11. CASE WakeUp
  <2>1. todo = AtWakeUp /\ todo' = AtWriteFifo
    BY <1>1, <1>11, NextPlace DEF WakeUp, At
  <2>2. /\ State' \in {State, "RF_IDLE"} /\ opMode' \in {opMode, "STANDBY"}
        /\ UNCHANGED <<dio0Mapping, fifoAddrPtr, parted>>
    BY <1>1, <1>11 DEF WakeUp, SX1276SetOpMode, At
  <2>3. todo \in SendPointed /\ todo' \in SendPointed
    BY <2>1 DEF SendPointed
  <2>4. SendInv'
    BY <1>1, <1>4, <1>5, <2>2, <2>3, Places DEF SendInv
  <2>5. QED
    BY <1>5, <1>8, <2>2, <2>3, <2>4, Places DEF PlaceInv, Receiving
<1>12. CASE WriteFifo
  <2>1. todo = AtWriteFifo /\ todo' = AtMaskForTx
    BY <1>1, <1>12, NextPlace DEF WriteFifo, At
  <2>2. UNCHANGED <<State, opMode, dio0Mapping, parted>>
    BY <1>1, <1>12 DEF WriteFifo, At, registers
  <2>3. todo \in SendPointed /\ todo' \in SendFilled
    BY <2>1 DEF SendPointed, SendFilled
  <2>4. ~overtaken => fifo'[0] = buffer
    <3>1. 0 \in DOMAIN fifo /\ fifo' = [fifo EXCEPT ![fifoAddrPtr] = buffer]
      BY <1>12, RadioAssumption DEF WriteFifo, TypeOK
    <3>2. ~overtaken => fifoAddrPtr = 0
      BY <1>5, <2>3 DEF SendInv
    <3>3. QED
      BY <3>1, <3>2
  <2>5. SendInv'
    BY <1>1, <2>3, <2>4, Places DEF SendInv
  <2>6. QED
    BY <1>5, <1>8, <2>2, <2>3, <2>5, Places DEF PlaceInv
<1>13. CASE MaskForTx \/ MapDio0("MapTxDone", "TXDONE") \/ SetState("StateTx", "RF_TX_RUNNING")
  <2>1. todo \in SendFilled /\ todo' \in SendFilled /\ Head(todo) # "FifoAddrPtr"
    BY <1>1, <1>13, NextPlace DEF MaskForTx, MapDio0, SetState, At
  <2>2. UNCHANGED <<opMode, fifo, parted>> /\ State' \in {State, "RF_TX_RUNNING"}
    BY <1>1, <1>13, <2>1 DEF MaskForTx, MapDio0, SetState
  <2>3. todo' = AtStateTx \/ UNCHANGED dio0Mapping
    BY <1>1, <1>13, NextPlace DEF MaskForTx, MapDio0, SetState, At, registers
  <2>4. State' = "RF_RX_RUNNING" => todo # AtStateTx
    <3>1. Head(AtStateTx) = "StateTx"
      BY DEF AtStateTx
    <3>2. QED
      BY <1>13, <3>1 DEF MaskForTx, MapDio0, SetState, At
  <2>5. SendInv'
    BY <1>1, <1>5, <2>1, <2>2, Places DEF SendInv
  <2>6. QED
    BY <1>5, <1>8, <2>1, <2>2, <2>3, <2>4, <2>5 DEF PlaceInv
<1>14. ASSUME todo' \in {<<>>, <<"StateIdle">>, AtMapRxDone}, todo # AtStateTx,
              State' \in {State, "RF_IDLE"}, UNCHANGED dio0Mapping,
              opMode' \in Receiving => UNCHANGED <<opMode, fifoAddrPtr, rxAddr, irqFlags, parted>>
       PROVE  DataInv'
  BY <1>7, <1>14, Places
<1>15. CASE MaskForRx \/ SetState("StateIdle", "RF_IDLE")
  <2>1. Head(todo) \in {"MaskForRx", "StateIdle"}
    BY <1>15 DEF MaskForRx, SetState, At
  <2>2. /\ State' \in {State, "RF_IDLE"}
        /\ UNCHANGED <<opMode, dio0Mapping, fifoAddrPtr, rxAddr, irqFlags, parted>>
    BY <1>1, <1>15, <2>1 DEF MaskForRx, SetState, registers
  <2>3. Head(AtStateTx) = "StateTx"
    BY DEF AtStateTx
  <2>4. QED
    BY <1>1, <1>14, <2>1, <2>2, <2>3, NextPlace
<1>16. ASSUME NEW step \in {"OpModeTx", "OpModeSleep", "OpModeStandby"},
              NEW mode \in OpMode \ Receiving, SetMode(step, mode)
       PROVE  DataInv'
  <2>1. Head(todo) = step /\ opMode' \notin Receiving /\ UNCHANGED <<State, dio0Mapping>>
    BY <1>16 DEF SetMode, SX1276SetOpMode, At
  <2>2. Head(AtStateTx) = "StateTx"
    BY DEF AtStateTx
  <2>3. QED
    BY <1>1, <1>14, <2>1, <2>2, NextPlace
<1>17. CASE MapDio0("MapRxDone", "RXDONE")
  <2>1. todo = AtMapRxDone /\ todo' = AtRxPointer
    BY <1>1, <1>17, NextPlace DEF MapDio0, At
  <2>2. /\ UNCHANGED <<State, opMode, fifoAddrPtr, rxAddr, irqFlags, fifo, parted>>
        /\ dio0Mapping' = "RXDONE"
    BY <1>1, <1>17 DEF MapDio0, At
  <2>3. PlaceInv'
    BY <1>5, <1>6, <2>1, <2>2, Places DEF PlaceInv, RxMapped
  <2>4. QED
    BY <1>9, <2>1, <2>2, <2>3 DEF RxMapped
<1>18. CASE SetState("StateRx", "RF_RX_RUNNING")
  <2>1. todo = AtStateRx /\ todo' = AtOpModeRx
    BY <1>1, <1>18, NextPlace DEF SetState, At
  <2>2. UNCHANGED <<opMode, dio0Mapping, fifoAddrPtr, rxAddr, irqFlags, fifo, parted>>
    BY <1>1, <1>18 DEF SetState, At, registers
  <2>3. todo \in RxPointed /\ todo' \in RxPointed
    BY <2>1 DEF RxPointed
  <2>4. dio0Mapping' = "RXDONE"
    BY <1>5, <2>2, <2>3, Places DEF MapInv
  <2>5. PlaceInv'
    BY <1>4, <1>5, <2>2, <2>3, Places DEF PlaceInv
  <2>6. QED
    BY <1>9, <2>3, <2>4, <2>5, Places
<1>19. CASE SetMode("OpModeRx", IF RxContinuous THEN "RECEIVER" ELSE "RECEIVER_SINGLE")
  <2>1. todo = AtOpModeRx /\ todo' = <<>>
    BY <1>1, <1>19, NextPlace DEF SetMode, At
  <2>2. todo \in RxPointed /\ todo # AtStateTx
    BY <2>1, Places DEF RxPointed
  <2>3. /\ UNCHANGED <<State, dio0Mapping, fifoAddrPtr, parted>>
        /\ opMode \notin Receiving => rxAddr' = 0
    BY <1>1, <1>19 DEF SetMode, SX1276SetOpMode, At, Receiving
  <2>4. ~parted' => fifoAddrPtr' = rxAddr'
    BY <1>5, <2>2, <2>3 DEF PlaceInv
  <2>5. todo' \notin SendPointed \cup SendFilled \cup RxMapped
    BY <2>1, Places
  <2>6. MapInv' /\ SendInv'
    BY <1>5, <2>2, <2>3, <2>5 DEF MapInv, SendInv
  <2>7. PlaceInv'
    BY <1>6, <2>4, <2>5, Places DEF PlaceInv
  <2>8. QED
    BY <1>2, <1>3, <2>6, <2>7 DEF DataInv
<1>20. QED
  BY <1>10, <1>11, <1>12, <1>13, <1>15, <1>16, <1>17, <1>18, <1>19
     DEF MainStep, OpMode, Receiving

LEMMA DataInvariance ==
  ASSUME SpiAtomic
  PROVE  Spec => []DataInv
<1>1. Init => DataInv
  <2>1. SUFFICES ASSUME Init PROVE DataInv
    OBVIOUS
  <2>2. /\ todo = <<>> /\ State = "RF_IDLE" /\ report = <<"none">> /\ irqFlags = {}
        /\ irqFlagsMask = {} /\ opMode = "SLEEP"
    BY <2>1 DEF Init
  <2>3. todo \in Todo /\ MapInv /\ FlagInv /\ SendInv
    BY <2>2, Places, PartsDiffer DEF Todo, MapInv, FlagInv, SendInv
  <2>4. PlaceInv /\ ReportedAsReceived
    BY <2>2, Places DEF PlaceInv, ReportedAsReceived, Receiving
  <2>5. QED
    BY <2>3, <2>4 DEF DataInv
<1>2. ASSUME TypeOK, DataInv, [Next]_vars
      PROVE  DataInv'
  <2>1. CASE UNCHANGED vars
    BY <1>2, <2>1 DEF vars, driver, chip, registers, history, DataInv, MapInv, FlagInv, SendInv,
       PlaceInv, Pending, High, NextCell, ReportedAsReceived
  <2>2. CASE \E call \in Call : Start(call)
    BY <1>2, <2>2, StartKeepsData
  <2>3. CASE MainStep
    BY <1>2, <2>3, MainStepKeepsData
  <2>4. CASE Interrupt
    BY <1>2, <2>4, SpiAtomic, HandlerKeepsData
  <2>5. CASE \/ ChipTxDone \/ ChipRxTimeout
             \/ \E p \in Packet : ChipRxMasked(p) \/ \E bad \in BOOLEAN : ChipRxDone(p, bad)
    BY <1>2, <2>5, ChipKeepsData
  <2>6. QED
    BY <1>2, <2>1, <2>2, <2>3, <2>4, <2>5 DEF Next
<1>3. TypeOK /\ DataInv /\ [Next]_vars => DataInv'
  BY <1>2
<1>4. QED
  BY <1>1, <1>3, TypeCorrect, PTL DEF Spec

(* SX1276Send transmits what was asked for, whatever calls are made when, also over a
   transmission or a reception that runs: nothing but a packet that comes in while it is
   prepared can take its place in the FIFO. *)
THEOREM PacketsAreSent ==
  ASSUME SpiAtomic
  PROVE  Spec => []SentAsAsked
<1>1. DataInv => SentAsAsked
  <2>1. todo = <<"OpModeTx">> => todo \in SendFilled
    BY DEF SendFilled, SendMasked
  <2>2. QED
    BY <2>1 DEF DataInv, SendInv, SentAsAsked
<1>2. QED
  BY <1>1, SpiAtomic, DataInvariance, PTL

(* RxDone hands over the packet that was received, also the later ones of a continuous
   reception, whose place the driver never asks the chip for (sx1276.c), whatever calls
   are made when, unless the pointers have parted. *)
THEOREM PacketsAreReported ==
  ASSUME SpiAtomic
  PROVE  Spec => []ReportedAsReceived
<1>1. DataInv => ReportedAsReceived
  BY DEF DataInv
<1>2. QED
  BY <1>1, SpiAtomic, DataInvariance, PTL
-----------------------------------------------------------------------------
(***************************************************************************)
(* What holds whatever calls are made and whatever an interrupt takes from *)
(* them: a chip that sleeps has an idle driver.                            *)
(***************************************************************************)

(* While the chip sleeps no pin of it moves, so that no interrupt takes the access
   that wakes it up, nor the last one of a call to receive. *)
AsleepInv ==
  opMode = "SLEEP" =>
    /\ \/ State = "RF_IDLE"
       \/ todo = <<"StateIdle">>
       \/ todo = <<"OpModeRx">> /\ Quiet
    /\ todo \in {SX1276Send, AtWakeUp} => Quiet
    /\ todo \notin {AtWriteFifo, AtMaskForTx} \cup SendMasked

(* The next access of a call, when the chip sleeps. *)
LEMMA AccessKeepsAsleep ==
  ASSUME todo \in Todo, AsleepInv, MainStep
  PROVE  AsleepInv'
<1>1. todo # <<>> /\ todo' = Tail(todo) /\ Quiet
  BY DEF MainStep, FifoAddrPtr, WakeUp, WriteFifo, MaskForTx, MaskForRx, MapDio0, SetState,
     SetMode, At
<1>2. SUFFICES ASSUME opMode' = "SLEEP"
               PROVE  AsleepInv'
  BY DEF AsleepInv
<1>3. ASSUME todo' \in RxMasked, State' = "RF_IDLE"
      PROVE  AsleepInv'
  BY <1>3, PartsDiffer, SendParts DEF AsleepInv, Untouched
<1>4. CASE FifoAddrPtr
  <2>1. /\ Head(todo) = "FifoAddrPtr" /\ seenHigh' = seenHigh
        /\ UNCHANGED <<State, opMode, irqFlags, dio0Mapping>>
    BY <1>4 DEF FifoAddrPtr, At, registers
  <2>2. Quiet'
    BY <1>1, <2>1 DEF Quiet, High
  <2>3. todo \notin {<<"StateIdle">>, <<"OpModeRx">>}
    BY <2>1
  <2>4. State = "RF_IDLE"
    BY <1>2, <2>1, <2>3 DEF AsleepInv
  <2>5. CASE todo = SX1276Send
    <3>1. todo' = AtWakeUp
      BY <1>1, <2>1, <2>5, SendAccess, SendParts
    <3>2. AtWakeUp \notin SendMasked
      BY SendParts, PartsDiffer DEF Untouched
    <3>3. QED
      BY <2>1, <2>2, <2>4, <3>1, <3>2, SendParts DEF AsleepInv
  <2>6. CASE todo' = <<"StateRx", "OpModeRx">>
    BY <1>3, <2>1, <2>4, <2>6 DEF RxMasked
  <2>7. QED
    BY <1>1, <2>1, <2>5, <2>6, NextAccess
<1>5. CASE WakeUp
  BY <1>2, <1>5 DEF WakeUp, SX1276SetOpMode
<1>6. CASE WriteFifo \/ MaskForTx
  <2>1. Head(todo) \in {"WriteFifo", "MaskForTx"} /\ opMode = "SLEEP"
    BY <1>2, <1>6 DEF WriteFifo, MaskForTx, At
  <2>2. todo \in {AtWriteFifo, AtMaskForTx}
    <3>1. todo \in SendBegun
      BY <1>1, <2>1, NextAccess
    <3>2. QED
      BY <1>1, <2>1, <3>1, SendAccess
  <2>3. QED
    BY <2>1, <2>2 DEF AsleepInv
<1>7. CASE MapDio0("MapTxDone", "TXDONE") \/ SetState("StateTx", "RF_TX_RUNNING")
  <2>1. Head(todo) \in {"MapTxDone", "StateTx"} /\ opMode = "SLEEP"
    BY <1>2, <1>7 DEF MapDio0, SetState, At
  <2>2. todo \in SendMasked
    BY <1>1, <2>1, NextAccess
  <2>3. QED
    BY <2>1, <2>2 DEF AsleepInv
<1>8. CASE MaskForRx \/ MapDio0("MapRxDone", "RXDONE")
  <2>1. Head(todo) \in {"MaskForRx", "MapRxDone"} /\ opMode = "SLEEP" /\ State' = State
    BY <1>2, <1>8 DEF MaskForRx, MapDio0, At
  <2>2. todo' \in RxMasked
    BY <1>1, <2>1, NextAccess DEF RxMasked
  <2>3. todo \notin {<<"StateIdle">>, <<"OpModeRx">>}
    BY <2>1
  <2>4. State' = "RF_IDLE"
    BY <2>1, <2>3 DEF AsleepInv
  <2>5. QED
    BY <1>3, <2>2, <2>4
<1>9. CASE SetState("StateRx", "RF_RX_RUNNING")
  <2>1. /\ Head(todo) = "StateRx" /\ seenHigh' = seenHigh
        /\ UNCHANGED <<opMode, irqFlags, dio0Mapping>>
    BY <1>9 DEF SetState, At, registers
  <2>2. Quiet' /\ todo' = <<"OpModeRx">>
    BY <1>1, <2>1, NextAccess DEF Quiet, High
  <2>3. todo' \in RxMasked
    BY <2>2 DEF RxMasked
  <2>4. todo' \notin {AtWriteFifo, AtMaskForTx, SX1276Send, AtWakeUp} \cup SendMasked
    BY <2>3, PartsDiffer, SendParts DEF Untouched
  <2>5. QED
    BY <2>2, <2>4 DEF AsleepInv
<1>10. CASE SetMode("OpModeTx", "TRANSMITTER") \/ SetMode("OpModeStandby", "STANDBY")
  BY <1>2, <1>10 DEF SetMode, SX1276SetOpMode
<1>11. CASE SetMode("OpModeRx", IF RxContinuous THEN "RECEIVER" ELSE "RECEIVER_SINGLE")
  BY <1>2, <1>11 DEF SetMode, SX1276SetOpMode
<1>12. CASE SetMode("OpModeSleep", "SLEEP")
  <2>1. todo' = <<"StateIdle">>
    BY <1>1, <1>12, NextAccess DEF SetMode, At
  <2>2. QED
    BY <2>1, PartsDiffer, SendParts DEF AsleepInv, Untouched
<1>13. CASE SetState("StateIdle", "RF_IDLE")
  <2>1. todo' = <<>> /\ State' = "RF_IDLE"
    BY <1>1, <1>13, NextAccess DEF SetState, At
  <2>2. QED
    BY <2>1, PartsDiffer, SendParts DEF AsleepInv, Untouched
<1>14. QED
  BY <1>4, <1>5, <1>6, <1>7, <1>8, <1>9, <1>10, <1>11, <1>12, <1>13 DEF MainStep

(* A handler, which may take an access with it. *)
LEMMA HandlerKeepsAsleep ==
  ASSUME todo \in Todo, AsleepInv, Interrupt
  PROVE  AsleepInv'
<1>1. ~Quiet
  BY DEF Interrupt, FallingEdge, Dio0RxDone, Dio0RxError, Dio0TxDone, Dio1RxTimeout, DioIgnored,
     Gpiote, Quiet
<1>2. /\ opMode' = opMode
      /\ todo' = todo \/ (InTransfer /\ todo' = Tail(todo))
  BY DEF Interrupt, FallingEdge, Dio0RxDone, Dio0RxError, Dio0TxDone, Dio1RxTimeout, DioIgnored,
     Gpiote, chip
<1>3. State' \in {State, "RF_IDLE"}
  BY DEF Interrupt, FallingEdge, Dio0RxDone, Dio0RxError, Dio0TxDone, Dio1RxTimeout, DioIgnored,
     driver
<1>4. SUFFICES ASSUME opMode = "SLEEP"
               PROVE  AsleepInv'
  BY <1>2 DEF AsleepInv
<1>5. /\ State = "RF_IDLE" \/ todo = <<"StateIdle">>
      /\ todo \notin SendBegun \cup SendMasked
  BY <1>1, <1>4, SendParts DEF AsleepInv
<1>6. CASE todo' = todo
  BY <1>3, <1>5, <1>6, SendParts DEF AsleepInv
<1>7. CASE InTransfer /\ todo' = Tail(todo)
  <2>1. todo # <<>> /\ todo # <<"StateIdle">>
    BY <1>7 DEF InTransfer
  <2>2. State' = "RF_IDLE"
    BY <1>3, <1>5, <2>1
  <2>3. todo' \in RxMasked \cup {<<"StateIdle">>, <<>>}
    BY <1>5, <1>7, <2>1, TailOfCall
  <2>4. todo' \notin SendBegun \cup SendMasked
    BY <2>3, PartsDiffer DEF Untouched
  <2>5. QED
    BY <2>2, <2>4, SendParts DEF AsleepInv
<1>8. QED
  BY <1>2, <1>6, <1>7

LEMMA AsleepStep ==
  ASSUME todo \in Todo, AsleepInv, [Next]_vars
  PROVE  AsleepInv'
<1>1. CASE \E call \in Call : Start(call)
  <2>1. PICK call \in Call : Start(call)
    BY <1>1
  <2>2. /\ Quiet /\ todo = <<>> /\ todo' \in {SX1276Send, SX1276SetRx, SX1276SetSleep, SX1276SetStby}
        /\ UNCHANGED <<State, seenHigh, opMode, irqFlags, dio0Mapping>>
    BY <2>1 DEF Start, Steps, Call, chip, registers
  <2>3. Quiet' /\ (opMode = "SLEEP" => State = "RF_IDLE")
    BY <2>2 DEF Quiet, High, AsleepInv
  <2>4. todo' \notin {AtWriteFifo, AtMaskForTx} \cup SendMasked
    BY <2>2, PartsDiffer, SendParts DEF Untouched
  <2>5. QED
    BY <2>2, <2>3, <2>4 DEF AsleepInv
<1>2. CASE ChipTxDone \/ ChipRxTimeout
  BY <1>2 DEF ChipTxDone, ChipRxTimeout, AsleepInv
<1>3. CASE \E p \in Packet : ChipRxMasked(p) \/ \E bad \in BOOLEAN : ChipRxDone(p, bad)
  BY <1>3 DEF ChipRxMasked, ChipRxDone, ReceiveEnds, Receiving, AsleepInv
<1>4. CASE UNCHANGED vars
  BY <1>4 DEF vars, driver, chip, registers, AsleepInv, Quiet, High
<1>5. QED
  BY <1>1, <1>2, <1>3, <1>4, AccessKeepsAsleep, HandlerKeepsAsleep DEF Next

(* The driver is idle when the chip sleeps and no call is in progress, also when calls
   repeat what runs and when interrupts take accesses from them. *)
THEOREM SleepIsIdle == Spec => []AsleepIsIdle
<1>1. Init => todo \in Todo /\ AsleepInv
  <2>1. <<>> \notin {SX1276Send, AtWakeUp, AtWriteFifo, AtMaskForTx} \cup SendMasked
    BY PartsDiffer, SendParts DEF Untouched
  <2>2. QED
    BY <2>1, PartsDiffer DEF Init, AsleepInv, Todo
<1>2. todo \in Todo /\ AsleepInv /\ [Next]_vars => (todo \in Todo /\ AsleepInv)'
  BY TodoStep, AsleepStep
<1>3. AsleepInv => AsleepIsIdle
  BY DEF AsleepInv, AsleepIsIdle
<1>4. QED
  BY <1>1, <1>2, <1>3, PTL DEF Spec
=============================================================================
