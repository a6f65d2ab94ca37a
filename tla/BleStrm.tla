------------------------------- MODULE BleStrm -------------------------------
(***************************************************************************)
(* The stream service (ble_strm_handler.c, ble_strm.c): messages longer    *)
(* than one packet between a phone and the device.  The phone writes a     *)
(* message in fragments, of which the first begins with the length; the    *)
(* device collects them and has them handled in the main loop, which may   *)
(* send an answer.  An answer, and what the phone reads, goes the other    *)
(* way in the same form: the fragments are indications, of which the       *)
(* SoftDevice sends one at a time, and the phone confirms each.            *)
(*                                                                         *)
(* A message is handled in the main loop, in steps.  The events of the     *)
(* SoftDevice are handled one at a time, in its interrupt or, when they    *)
(* are scheduled, in the main loop, between messages.                      *)
(***************************************************************************)
EXTENDS Naturals, Sequences

CONSTANTS
  Message,         (* what the phone writes, each at most once             *)
  Reply,           (* what the application sends                           *)
  Length,          (* the length of each, without its header               *)
  Answer,          (* the answer to each message, or None                  *)
  ReadData,        (* those replies that m_on_read_handler gives           *)
  Fragment,        (* how much a write or an indication holds (20 bytes)   *)
  IrqEvents,       (* the SoftDevice's events are handled in its interrupt *)
  PasswdSet,       (* ble_srv_strm_set_passwd was called: m_is_passwd_set  *)
  EarlyReconnect,  (* a phone may connect before what the last one wrote
                      has been handled                                     *)
  MaxConnections,
  None

ASSUME StrmAssumption ==
  /\ Length \in [Message \cup Reply -> Nat]
  /\ Answer \in [Message -> Reply \cup {None}]
  /\ ReadData \subseteq Reply
  /\ Fragment \in Nat \ {0} /\ MaxConnections \in Nat
  /\ \A m \in Message : Length[m] = 0 => Answer[m] = None
  /\ IrqEvents \in BOOLEAN /\ PasswdSet \in BOOLEAN /\ EarlyReconnect \in BOOLEAN
  /\ None \notin Reply

VARIABLES
  connected,       (* m_strm.conn_handle is valid                          *)
  cccd,            (* the phone has enabled indications                    *)
  m_is_locked,
  m_strm_state, m_rx_exp_len, m_rx_buffer, m_rx_buffer_len,
  scheduled,       (* how many rx_sched_evt the scheduler holds            *)
  appPc,           (* where rx_sched_evt is                                *)
  givenLen,        (* the length m_on_write_handler was called with        *)
  m_tx_buff, m_tx_offset, m_is_tx_processing,
  m_on_sent_handler,  (* it is not NULL                                    *)
  onAir,           (* <<f>> while indication f is not confirmed            *)
  heard,           (* the phone has f                                      *)
  left,            (* what the phone still has to write of its message     *)
  due,             (* the answer, or the data, that the phone waits for    *)
  got,             (* what it has of it                                    *)
  fresh,           (* messages it has not begun and data it has not read   *)
  connections,
  accepted,        (* the messages written to their end and not yet dealt
                      with by the device                                   *)
  cut              (* the connection was lost before the first of these
                      was handled                                          *)

linkVars  == <<connected, cccd, connections>>
rxVars    == <<m_strm_state, m_rx_exp_len, m_rx_buffer, m_rx_buffer_len>>
appVars   == <<scheduled, appPc, givenLen>>
txVars    == <<m_tx_buff, m_tx_offset, m_is_tx_processing, m_on_sent_handler>>
airVars   == <<onAir, heard>>
phoneVars == <<left, due, got, fresh>>
ghostVars == <<accepted, cut>>

vars == <<linkVars, m_is_locked, rxVars, appVars, txVars, airVars, phoneVars, ghostVars>>

Data == Message \cup Reply
Unit == Data \X Nat

(* What memset leaves in the reception buffer. *)
Blank == <<None, 0>>

(* On the air a message is its length, <<d, 0>>, and then its units. *)
Body(d) == [i \in 1..Length[d] |-> <<d, i>>]
Stream(d) == [i \in 1..Length[d] + 1 |-> <<d, i - 1>>]

(* uint16_decode of a header. *)
Announced(unit) == Length[unit[1]]

First(s) == IF Len(s) > Fragment THEN SubSeq(s, 1, Fragment) ELSE s

TypeOK ==
  /\ connected \in BOOLEAN /\ cccd \in BOOLEAN /\ m_is_locked \in BOOLEAN
  /\ m_strm_state \in {"IDLE", "RECV", "PROC"}
  /\ m_rx_exp_len \in Nat /\ m_rx_buffer \in Seq(Unit \cup {Blank})
  /\ m_rx_buffer_len \in 0..Len(m_rx_buffer)
  /\ scheduled \in Nat /\ appPc \in {"idle", "handler", "send", "end", "endExp", "endLen"}
  /\ givenLen \in Nat
  /\ m_tx_buff \in Seq(Unit) /\ m_tx_offset \in 0..Len(m_tx_buff)
  /\ m_is_tx_processing \in BOOLEAN /\ m_on_sent_handler \in BOOLEAN
  /\ onAir \in Seq(Seq(Unit)) /\ heard \in BOOLEAN
  /\ left \in Seq(Unit) /\ due \in Reply \cup {None} /\ got \in Seq(Unit)
  /\ fresh \subseteq Data /\ connections \in 0..MaxConnections
  /\ accepted \in Seq(Message) /\ cut \in BOOLEAN

Init ==
  /\ connected = FALSE /\ cccd = FALSE /\ connections = 0
  /\ m_is_locked = PasswdSet
  /\ m_strm_state = "IDLE" /\ m_rx_exp_len = 0 /\ m_rx_buffer = <<>>
  /\ m_rx_buffer_len = 0
  /\ scheduled = 0 /\ appPc = "idle" /\ givenLen = 0
  /\ m_tx_buff = <<>> /\ m_tx_offset = 0 /\ m_is_tx_processing = FALSE
  /\ m_on_sent_handler = FALSE
  /\ onAir = <<>> /\ heard = FALSE
  /\ left = <<>> /\ due = None /\ got = <<>> /\ fresh = Message \cup ReadData
  /\ accepted = <<>> /\ cut = FALSE
-----------------------------------------------------------------------------
(* ble_srv_strm_indicate and what its caller does with the result: m_is_tx_processing
   was p, and air is what the SoftDevice still sends.  After the last fragment the
   sent handler is called, once.  What sd_ble_gatts_hvx returns is ignored, so a
   fragment is lost when another one is on the air; without a connection or without
   indications the transfer ends. *)
Indicate(buffer, offset, p, air) ==
  LET rest == SubSeq(buffer, offset + 1, Len(buffer))
      sent == rest # <<>> /\ connected /\ cccd
  IN  /\ m_tx_offset' = offset + Len(First(rest))
      /\ onAir' = IF sent /\ air = <<>> THEN <<First(rest)>> ELSE air
      /\ heard' = (heard /\ air # <<>>)
      /\ m_is_tx_processing' = (p /\ sent)
      /\ m_on_sent_handler' = (m_on_sent_handler /\ rest # <<>>)
-----------------------------------------------------------------------------
(* An event of the SoftDevice can be handled now. *)
EventNow == IrqEvents \/ appPc = "idle"

(* BLE_GAP_EVT_CONNECTED. *)
Connect ==
  /\ EventNow /\ ~connected /\ connections < MaxConnections
  /\ EarlyReconnect \/ (scheduled = 0 /\ appPc = "idle")
  /\ connected' = TRUE /\ connections' = connections + 1
  /\ UNCHANGED <<cccd, m_is_locked, rxVars, appVars, txVars, airVars, phoneVars, ghostVars>>

(* BLE_GAP_EVT_DISCONNECTED: all but the event in the scheduler and the sent
   handler is forgotten. *)
Disconnect ==
  /\ EventNow /\ connected
  /\ connected' = FALSE /\ cccd' = FALSE
  /\ m_rx_exp_len' = 0 /\ m_rx_buffer_len' = 0 /\ m_strm_state' = "IDLE"
  /\ m_tx_buff' = <<>> /\ m_tx_offset' = 0 /\ m_is_tx_processing' = FALSE
  /\ m_is_locked' = (m_is_locked \/ PasswdSet)
  /\ onAir' = <<>> /\ heard' = FALSE
  /\ left' = <<>> /\ due' = None /\ got' = <<>>
  /\ cut' = (cut \/ scheduled > 0)
  /\ UNCHANGED <<connections, m_rx_buffer, appVars, m_on_sent_handler, fresh, accepted>>

(* The phone writes the CCCD, which the SoftDevice keeps. *)
EnableIndications ==
  /\ connected /\ ~cccd /\ due = None
  /\ cccd' = TRUE
  /\ UNCHANGED <<connected, connections, m_is_locked, rxVars, appVars, txVars, airVars,
                 phoneVars, ghostVars>>

(* BLE_STRM_EVT_PASSWORD_WRITE with the right password. *)
PasswordWrite ==
  /\ EventNow /\ connected /\ m_is_locked
  /\ m_is_locked' = FALSE
  /\ UNCHANGED <<linkVars, rxVars, appVars, txVars, airVars, phoneVars, ghostVars>>

(* The phone begins a message.  It begins nothing else while it waits for an answer:
   fragments do not tell of which transfer they are. *)
Begin(m) ==
  /\ connected /\ left = <<>> /\ m \in fresh \cap Message /\ due = None
  /\ left' = Stream(m) /\ fresh' = fresh \ {m}
  /\ UNCHANGED <<linkVars, m_is_locked, rxVars, appVars, txVars, airVars, due, got, ghostVars>>

(* What answers a write of data with WRITE_NOT_PERMITTED. *)
Refused == m_is_locked \/ m_strm_state = "PROC"

(* Mutant: the header is kept with the data. *)
CollectedHeader(f) ==
  IF m_strm_state = "IDLE" THEN [i \in 1..m_rx_buffer_len |-> Blank] \o f
  ELSE LET room == m_rx_exp_len - m_rx_buffer_len
       IN SubSeq(m_rx_buffer, 1, m_rx_buffer_len) \o
            SubSeq(f, 1, IF Len(f) <= room THEN Len(f) ELSE room)

(* The data with fragment f, which goes after what m_rx_buffer_len counts: the buffer
   is cleared for the first one, which follows the header, and the others are clipped
   to the length announced. *)
Collected(f) ==
  IF m_strm_state = "IDLE" THEN [i \in 1..m_rx_buffer_len |-> Blank] \o Tail(f)
  ELSE LET room == m_rx_exp_len - m_rx_buffer_len
       IN SubSeq(m_rx_buffer, 1, m_rx_buffer_len) \o
            SubSeq(f, 1, IF Len(f) <= room THEN Len(f) ELSE room)

(* BLE_STRM_EVT_DATA_WRITE: collect the fragment; a message that is complete is
   left to the main loop, by app_sched_event_put.  A fragment that is refused
   changes nothing, and the phone repeats it. *)
Write ==
  /\ EventNow /\ connected /\ left # <<>> /\ due = None /\ ~Refused
  /\ LET f == First(left)
         m == left[1][1]
         length == IF m_strm_state = "IDLE" THEN Announced(f[1]) ELSE m_rx_exp_len
         data == Collected(f)
         empty == m_strm_state = "IDLE" /\ length = 0
         complete == empty \/ Len(data) >= length
     IN  /\ m_rx_exp_len' = length
         /\ IF empty THEN UNCHANGED <<m_rx_buffer, m_rx_buffer_len>>
                     ELSE m_rx_buffer' = data /\ m_rx_buffer_len' = Len(data)
         /\ m_strm_state' = IF complete THEN "PROC" ELSE "RECV"
         /\ scheduled' = IF complete THEN scheduled + 1 ELSE scheduled
         /\ left' = SubSeq(left, Len(f) + 1, Len(left))
         /\ IF left' = <<>> THEN /\ due' = IF Answer[m] # None THEN Answer[m] ELSE due
                                 /\ accepted' = Append(accepted, m)
                            ELSE UNCHANGED <<due, accepted>>
  /\ UNCHANGED <<linkVars, m_is_locked, appPc, givenLen, txVars, airVars, got, fresh, cut>>

(* BLE_STRM_EVT_DATA_READ: the beginning goes with the reply, the rest follows
   in indications.  A read that is refused changes nothing. *)
Read(r) ==
  /\ EventNow /\ connected /\ left = <<>> /\ r \in fresh \cap ReadData /\ due = None
  /\ ~m_is_locked /\ ~m_is_tx_processing
  /\ fresh' = fresh \ {r} /\ due' = r /\ got' = First(Stream(r))
  /\ m_tx_buff' = Stream(r)
  /\ IF Len(Stream(r)) <= Fragment
     THEN /\ m_tx_offset' = 0
          /\ UNCHANGED <<m_is_tx_processing, m_on_sent_handler, airVars>>
     ELSE Indicate(Stream(r), Fragment, TRUE, onAir)
  /\ UNCHANGED <<linkVars, m_is_locked, rxVars, appVars, left, ghostVars>>

(* BLE_GATTS_EVT_HVC, hvc_handler: the next fragment. *)
Confirm ==
  /\ EventNow /\ onAir # <<>> /\ heard
  /\ Indicate(m_tx_buff, m_tx_offset, m_is_tx_processing, <<>>)
  /\ UNCHANGED <<linkVars, m_is_locked, rxVars, appVars, m_tx_buff, phoneVars, ghostVars>>
-----------------------------------------------------------------------------
(* rx_sched_evt: the application's handler is called with the message. *)
HandlerStart ==
  /\ appPc = "idle" /\ scheduled > 0
  /\ scheduled' = scheduled - 1 /\ appPc' = "handler" /\ givenLen' = m_rx_buffer_len
  /\ UNCHANGED <<linkVars, m_is_locked, rxVars, txVars, airVars, phoneVars, ghostVars>>

(* What the application answers to what it was given. *)
Response ==
  IF givenLen = 0 \/ m_rx_buffer[1] = Blank THEN None ELSE Answer[m_rx_buffer[1][1]]

(* Mutant: the offset of the last transfer is kept. *)
HandlerSendStale ==
  /\ appPc = "handler"
  /\ IF Response # None /\ connected
     THEN /\ appPc' = "send"
          /\ m_on_sent_handler' = TRUE /\ m_tx_buff' = Stream(Response)
          /\ m_tx_offset' = IF m_tx_offset > Len(m_tx_buff') THEN 0 ELSE m_tx_offset
     ELSE /\ appPc' = "end"
          /\ UNCHANGED <<m_on_sent_handler, m_tx_buff, m_tx_offset>>
  /\ UNCHANGED <<linkVars, m_is_locked, rxVars, scheduled, givenLen, m_is_tx_processing,
                 airVars, phoneVars, ghostVars>>

(* ble_srv_strm_data_send: the answer goes to the buffer ... *)
HandlerSend ==
  /\ appPc = "handler"
  /\ IF Response # None /\ connected
     THEN /\ appPc' = "send"
          /\ m_on_sent_handler' = TRUE /\ m_tx_buff' = Stream(Response)
          /\ m_tx_offset' = 0
     ELSE /\ appPc' = "end"
          /\ UNCHANGED <<m_on_sent_handler, m_tx_buff, m_tx_offset>>
  /\ UNCHANGED <<linkVars, m_is_locked, rxVars, scheduled, givenLen, m_is_tx_processing,
                 airVars, phoneVars, ghostVars>>

(* ... and its first fragment on the air. *)
HandlerIndicate ==
  /\ appPc = "send" /\ appPc' = "end"
  /\ Indicate(m_tx_buff, m_tx_offset, TRUE, onAir)
  /\ UNCHANGED <<linkVars, m_is_locked, rxVars, scheduled, givenLen, m_tx_buff, phoneVars,
                 ghostVars>>

(* Mutant: the state is not given back. *)
HandlerEndKeeps ==
  /\ \/ /\ appPc = "end" /\ appPc' = "endExp"
        /\ UNCHANGED <<m_strm_state, m_rx_exp_len, m_rx_buffer_len, ghostVars>>
     \/ /\ appPc = "endExp" /\ appPc' = "endLen"
        /\ m_rx_exp_len' = 0
        /\ UNCHANGED <<m_strm_state, m_rx_buffer_len, ghostVars>>
     \/ /\ appPc = "endLen" /\ appPc' = "idle"
        /\ m_rx_buffer_len' = 0 /\ accepted' = Tail(accepted) /\ cut' = FALSE
        /\ UNCHANGED <<m_strm_state, m_rx_exp_len>>
  /\ UNCHANGED <<linkVars, m_is_locked, m_rx_buffer, scheduled, givenLen, txVars, airVars,
                 phoneVars>>

(* The end of rx_sched_evt; its three assignments are not protected. *)
HandlerEnd ==
  /\ \/ /\ appPc = "end" /\ appPc' = "endExp"
        /\ m_strm_state' = "IDLE"
        /\ UNCHANGED <<m_rx_exp_len, m_rx_buffer_len, ghostVars>>
     \/ /\ appPc = "endExp" /\ appPc' = "endLen"
        /\ m_rx_exp_len' = 0
        /\ UNCHANGED <<m_strm_state, m_rx_buffer_len, ghostVars>>
     \/ /\ appPc = "endLen" /\ appPc' = "idle"
        /\ m_rx_buffer_len' = 0 /\ accepted' = Tail(accepted) /\ cut' = FALSE
        /\ UNCHANGED <<m_strm_state, m_rx_exp_len>>
  /\ UNCHANGED <<linkVars, m_is_locked, m_rx_buffer, scheduled, givenLen, txVars, airVars,
                 phoneVars>>
-----------------------------------------------------------------------------
(* The phone's stack has the indication, and will confirm it. *)
Receive ==
  /\ onAir # <<>> /\ ~heard
  /\ got' = got \o onAir[1] /\ heard' = TRUE
  /\ UNCHANGED <<linkVars, m_is_locked, rxVars, appVars, txVars, onAir, left, due, fresh,
                 ghostVars>>

(* The phone has what it waited for. *)
Take ==
  /\ got # <<>> /\ Len(got) = Announced(got[1]) + 1 /\ onAir = <<>>
  /\ got' = <<>> /\ due' = None
  /\ UNCHANGED <<linkVars, m_is_locked, rxVars, appVars, txVars, airVars, left, fresh,
                 ghostVars>>

(* A phone without indications stops waiting when the device is done. *)
GiveUp ==
  /\ due # None /\ ~cccd /\ scheduled = 0 /\ appPc = "idle"
  /\ got' = <<>> /\ due' = None
  /\ UNCHANGED <<linkVars, m_is_locked, rxVars, appVars, txVars, airVars, left, fresh,
                 ghostVars>>

Next ==
  \/ Connect \/ Disconnect \/ EnableIndications \/ PasswordWrite
  \/ \E m \in Message : Begin(m)
  \/ \E r \in ReadData : Read(r)
  \/ Write \/ Confirm
  \/ HandlerStart \/ HandlerSend \/ HandlerIndicate \/ HandlerEnd
  \/ Receive \/ Take \/ GiveUp

(* The main loop runs, the phone unlocks the device and goes on with what it has
   begun, indications reach it, and the SoftDevice reports what it confirms. *)
Fairness ==
  /\ WF_vars(PasswordWrite) /\ WF_vars(Write) /\ WF_vars(Confirm)
  /\ WF_vars(HandlerStart) /\ WF_vars(HandlerSend) /\ WF_vars(HandlerIndicate)
  /\ WF_vars(HandlerEnd)
  /\ WF_vars(Receive) /\ WF_vars(Take) /\ WF_vars(GiveUp)

Spec == Init /\ [][Next]_vars /\ Fairness
-----------------------------------------------------------------------------
Running == IF appPc = "idle" THEN 0 ELSE 1

(* The application is given each message that was written to its end, once, in
   order, whole and nothing else, whatever the fragments and the disconnections;
   of a message whose connection was lost before that it is given nothing
   (m_rx_buffer, m_rx_buffer_len and m_strm_state between write_handler, rx_sched_evt
   and the disconnection). *)
MessagesWhole ==
  /\ Len(accepted) = scheduled + Running
  /\ appPc # "idle" =>
       SubSeq(m_rx_buffer, 1, givenLen) = IF cut THEN <<>> ELSE Body(accepted[1])

(* What a phone receives is the beginning of the answer it waits for: no fragment
   is lost, repeated or out of place, and none is of another transfer or meant for
   another phone (the one buffer, offset and flag of answers and reads). *)
AnswersWhole ==
  got # <<>> => /\ due # None
                /\ Len(got) <= Length[due] + 1
                /\ got = SubSeq(Stream(due), 1, Len(got))

(* What the device waits for is on its way: a message that refuses writes is in the
   scheduler or in its handler, the flag that refuses reads belongs to an indication
   on the air, and an answer or data that a phone with indications waits for is in
   work, on the air or complete.  Nothing else gives the state and the flag back: no
   timer does, and rx_sched_evt, hvc_handler and the disconnection each may be the
   last to come by. *)
NothingStuck ==
  /\ m_strm_state = "PROC" => scheduled > 0 \/ appPc \in {"handler", "send", "end"}
  /\ m_is_tx_processing => onAir # <<>>
  /\ due # None /\ cccd =>
       \/ scheduled > 0 \/ appPc \in {"handler", "send"}
       \/ onAir # <<>>
       \/ Len(got) = Length[due] + 1

(* A phone that stays connected can write what it has begun to its end, and comes
   to the end of every answer and every read (the states and the flag that refuse
   a write or a read are given back on every path). *)
TransfersEnd ==
  /\ left # <<>> ~> left = <<>>
  /\ due # None ~> due = None
=============================================================================
