---------------------------- MODULE BleStrmProofs ----------------------------
(***************************************************************************)
(* Proofs about BleStrm: with scheduled events, and a message handled      *)
(* before the next phone connects, the application is given whole messages *)
(* and the phone whole answers to what it asked.                           *)
(***************************************************************************)
EXTENDS BleStrm, TLAPS

Scheduled == ~IrqEvents /\ ~EarlyReconnect

(* The first n units in the reception buffer are the data of m. *)
Holds(m, n) ==
  /\ n = Length[m] /\ n <= Len(m_rx_buffer)
  /\ \A i \in 1..n : m_rx_buffer[i] = <<m, i>>

(* How much of its message the phone has written. *)
Written == IF m_strm_state = "RECV" THEN m_rx_buffer_len + 1 ELSE 0

(* What the phone has still to write follows what is in the buffer. *)
LeftFollows(m) ==
  /\ Len(left) = Length[m] + 1 - Written
  /\ \A i \in 1..Len(left) : left[i] = <<m, Written + i - 1>>
  /\ m_strm_state = "RECV" =>
       /\ m_rx_exp_len = Length[m]
       /\ \A i \in 1..m_rx_buffer_len : m_rx_buffer[i] = <<m, i>>

(* The buffer belongs to the phone until its message is complete, then to the
   message, which a disconnection only empties. *)
RxInv ==
  /\ m_rx_buffer \in Seq(Message \X Nat) /\ left \in Seq(Message \X Nat)
  /\ Len(accepted) = scheduled + Running /\ scheduled + Running <= 1
  /\ ~connected => left = <<>>
  /\ m_strm_state = "RECV" => scheduled = 0 /\ appPc = "idle" /\ left # <<>>
  /\ left # <<>> => \E m \in Message : LeftFollows(m)
  /\ m_strm_state = "IDLE" /\ appPc = "idle" => m_rx_buffer_len = 0
  /\ scheduled = 1 =>
       IF cut THEN ~connected /\ m_rx_buffer_len = 0
       ELSE connected /\ m_strm_state = "PROC" /\ Holds(accepted[1], m_rx_buffer_len)
  /\ appPc # "idle" =>
       IF cut THEN ~connected /\ givenLen = 0 ELSE connected /\ Holds(accepted[1], givenLen)
  /\ cut => scheduled + Running = 1

(* A message whose answer is not yet in the transmission buffer. *)
AnswerOwed(m) ==
  /\ connected /\ appPc \in {"idle", "handler"} /\ scheduled + Running = 1
  /\ m = accepted[1] /\ Answer[m] # None

(* What the phone has and what is on the air are the beginning of the stream. *)
TxInv ==
  /\ onAir = <<>> \/ Len(onAir) = 1
  /\ onAir = <<>> => ~heard
  /\ ~connected => due = None
  /\ due = None => got = <<>> /\ onAir = <<>>
  /\ due # None => /\ Len(got) <= Length[due] + 1
                   /\ \A i \in 1..Len(got) : got[i] = <<due, i - 1>>
  /\ onAir # <<>> =>
       /\ cccd /\ m_tx_buff = Stream(due)
       /\ IF heard THEN Len(got) = m_tx_offset
          ELSE /\ Len(got) + Len(onAir[1]) = m_tx_offset
               /\ \A i \in 1..Len(onAir[1]) : onAir[1][i] = <<due, Len(got) + i - 1>>
  /\ \A m \in Message : AnswerOwed(m) => due = Answer[m] /\ got = <<>> /\ onAir = <<>>
  /\ appPc = "send" => /\ connected /\ due # None /\ got = <<>> /\ onAir = <<>>
                       /\ m_tx_buff = Stream(due) /\ m_tx_offset = 0

IInv == TypeOK /\ RxInv /\ TxInv
-----------------------------------------------------------------------------
LEMMA SeqEqual ==
  ASSUME NEW S, NEW s \in Seq(S), NEW t \in Seq(S), Len(s) = Len(t),
         \A i \in 1..Len(s) : s[i] = t[i]
  PROVE  s = t
  OBVIOUS

LEMMA ElementOf ==
  ASSUME NEW S, NEW s \in Seq(S), NEW i \in 1..Len(s)
  PROVE  s[i] \in S
  OBVIOUS

LEMMA StreamFacts ==
  ASSUME NEW D, NEW d \in D, D \subseteq Data
  PROVE  /\ Stream(d) \in Seq(D \X Nat) /\ Len(Stream(d)) = Length[d] + 1
         /\ Length[d] \in Nat
         /\ \A i \in 1..Length[d] + 1 : Stream(d)[i] = <<d, i - 1>>
<1>1. Length[d] \in Nat
  BY StrmAssumption DEF Data
<1>2. \A i \in 1..Length[d] + 1 : <<d, i - 1>> \in D \X Nat
  BY <1>1
<1>3. QED
  BY <1>1, <1>2 DEF Stream

LEMMA FirstFacts ==
  ASSUME NEW S, NEW s \in Seq(S)
  PROVE  /\ First(s) \in Seq(S)
         /\ Len(First(s)) = IF Len(s) > Fragment THEN Fragment ELSE Len(s)
         /\ \A i \in 1..Len(First(s)) : First(s)[i] = s[i]
         /\ s # <<>> => Len(First(s)) > 0
  BY StrmAssumption DEF First

LEMMA RestFacts ==
  ASSUME NEW S, NEW s \in Seq(S), NEW o \in 0..Len(s)
  PROVE  LET rest == SubSeq(s, o + 1, Len(s))
         IN  /\ rest \in Seq(S) /\ Len(rest) = Len(s) - o
             /\ \A i \in 1..Len(s) - o : rest[i] = s[o + i]
             /\ First(rest) \in Seq(S) /\ Len(First(rest)) <= Len(s) - o
             /\ Len(First(rest)) \in Nat
             /\ \A i \in 1..Len(First(rest)) : First(rest)[i] = s[o + i]
             /\ rest = <<>> <=> o = Len(s)
             /\ rest = <<>> => First(rest) = <<>>
<1> DEFINE rest == SubSeq(s, o + 1, Len(s))
<1>1. rest \in Seq(S) /\ Len(rest) = Len(s) - o
  OBVIOUS
<1>2. \A i \in 1..Len(s) - o : rest[i] = s[o + i]
  OBVIOUS
<1>3. /\ First(rest) \in Seq(S) /\ Len(First(rest)) <= Len(s) - o /\ Len(First(rest)) \in Nat
      /\ \A i \in 1..Len(First(rest)) : First(rest)[i] = rest[i]
  <2> HIDE DEF rest
  <2>1. QED
    BY <1>1, FirstFacts, StrmAssumption
<1>4. rest = <<>> <=> o = Len(s)
  <2> HIDE DEF rest
  <2>1. rest = <<>> <=> Len(rest) = 0
    BY <1>1
  <2>2. QED
    BY <1>1, <2>1
<1>5. rest = <<>> => First(rest) = <<>>
  BY StrmAssumption DEF First
<1>6. \A i \in 1..Len(First(rest)) : First(rest)[i] = s[o + i]
  <2> HIDE DEF rest
  <2>1. QED
    BY <1>1, <1>2, <1>3
<1>7. QED
  BY <1>1, <1>2, <1>3, <1>4, <1>5, <1>6
-----------------------------------------------------------------------------
LEMMA IndicateType ==
  ASSUME TypeOK, NEW b \in Seq(Unit), NEW o \in 0..Len(b), NEW p \in BOOLEAN,
         NEW air \in Seq(Seq(Unit)), Indicate(b, o, p, air)
  PROVE  /\ m_tx_offset' \in 0..Len(b) /\ onAir' \in Seq(Seq(Unit)) /\ heard' \in BOOLEAN
         /\ m_is_tx_processing' \in BOOLEAN /\ m_on_sent_handler' \in BOOLEAN
<1> DEFINE rest == SubSeq(b, o + 1, Len(b))
<1>1. First(rest) \in Seq(Unit) /\ Len(First(rest)) \in Nat /\ Len(First(rest)) <= Len(b) - o
  BY RestFacts
<1>2. <<First(rest)>> \in Seq(Seq(Unit))
  BY <1>1
<1>3. /\ m_tx_offset' = o + Len(First(rest))
      /\ onAir' = <<First(rest)>> \/ onAir' = air
      /\ heard' = (heard /\ air # <<>>)
      /\ m_is_tx_processing' = (p /\ rest # <<>> /\ connected /\ cccd)
      /\ m_on_sent_handler' = (m_on_sent_handler /\ rest # <<>>)
  BY DEF Indicate
<1> HIDE DEF rest
<1>4. m_tx_offset' \in 0..Len(b)
  BY <1>1, <1>3
<1>5. QED
  BY <1>2, <1>3, <1>4

(* What follows the first o units of the stream d goes on the air. *)
LEMMA IndicateFollows ==
  ASSUME NEW d \in Reply, NEW o \in 0..Length[d] + 1, NEW p, Indicate(Stream(d), o, p, <<>>)
  PROVE  /\ heard' = FALSE
         /\ \/ onAir' = <<>>
            \/ /\ cccd /\ Len(onAir') = 1 /\ o + Len(onAir'[1]) = m_tx_offset'
               /\ m_tx_offset' <= Length[d] + 1
               /\ \A i \in 1..Len(onAir'[1]) : onAir'[1][i] = <<d, o + i - 1>>
<1>1. /\ Stream(d) \in Seq(Reply \X Nat) /\ Len(Stream(d)) = Length[d] + 1 /\ Length[d] \in Nat
      /\ \A i \in 1..Length[d] + 1 : Stream(d)[i] = <<d, i - 1>>
  BY StreamFacts DEF Data
<1> DEFINE first == First(SubSeq(Stream(d), o + 1, Len(Stream(d))))
<1>2. /\ Len(first) \in Nat /\ Len(first) <= Length[d] + 1 - o
      /\ \A i \in 1..Len(first) : first[i] = Stream(d)[o + i]
  <2>1. o \in 0..Len(Stream(d)) /\ Len(Stream(d)) - o = Length[d] + 1 - o
    BY <1>1
  <2>2. /\ Len(first) \in Nat /\ Len(first) <= Len(Stream(d)) - o
        /\ \A i \in 1..Len(first) : first[i] = Stream(d)[o + i]
    BY <1>1, <2>1, RestFacts
  <2>3. QED
    BY <2>1, <2>2
<1>3. /\ m_tx_offset' = o + Len(first)
      /\ onAir' = <<>> \/ (onAir' = <<first>> /\ cccd)
      /\ heard' = FALSE
  BY DEF Indicate
<1> HIDE DEF first
<1>4. ASSUME NEW i \in 1..Len(first)
      PROVE  first[i] = <<d, o + i - 1>>
  <2>1. o + i \in 1..Length[d] + 1 /\ first[i] = Stream(d)[o + i]
    BY <1>1, <1>2
  <2>2. Stream(d)[o + i] = <<d, (o + i) - 1>>
    BY <1>1, <2>1
  <2>3. QED
    BY <2>1, <2>2
<1>5. CASE onAir' = <<first>>
  <2>1. Len(onAir') = 1 /\ onAir'[1] = first
    BY <1>5
  <2>2. o + Len(onAir'[1]) = m_tx_offset' /\ m_tx_offset' <= Length[d] + 1
    BY <1>1, <1>2, <1>3, <2>1
  <2>3. \A i \in 1..Len(onAir'[1]) : onAir'[1][i] = <<d, o + i - 1>>
    BY <1>4, <2>1
  <2>4. QED
    BY <1>3, <2>1, <2>2, <2>3
<1>6. QED
  BY <1>3, <1>5
-----------------------------------------------------------------------------
(* The steps that do not touch a message on its way in. *)
LEMMA RxAlone ==
  ASSUME RxInv, UNCHANGED <<connected, rxVars, appVars, left, ghostVars>>
  PROVE  RxInv'
<1>1. Running' = Running /\ Written' = Written
  BY DEF Running, Written, appVars, rxVars
<1>2. ASSUME NEW m \in Message, LeftFollows(m)
      PROVE  LeftFollows(m)'
  BY <1>1, <1>2 DEF LeftFollows, rxVars
<1>4. UNCHANGED <<connected, m_strm_state, m_rx_exp_len, m_rx_buffer, m_rx_buffer_len,
                  scheduled, appPc, givenLen, left, accepted, cut>>
  BY DEF rxVars, appVars, ghostVars
<1>5. scheduled = 1 /\ ~cut => Holds(accepted[1], m_rx_buffer_len)'
  BY <1>4 DEF RxInv, Holds
<1>6. appPc # "idle" /\ ~cut => Holds(accepted[1], givenLen)'
  BY <1>4 DEF RxInv, Holds
<1>7. left # <<>> => \E m \in Message : LeftFollows(m)'
  BY <1>2 DEF RxInv
<1>8. QED
  BY <1>1, <1>4, <1>5, <1>6, <1>7 DEF RxInv

LEMMA TxAlone ==
  ASSUME TxInv, cccd => cccd', UNCHANGED <<connected, appVars, m_tx_buff, m_tx_offset, airVars, due, got, accepted>>
  PROVE  TxInv'
<1>1. Running' = Running
  BY DEF Running, appVars
<1>2. ASSUME NEW m \in Message, AnswerOwed(m)'
      PROVE  AnswerOwed(m)
  BY <1>1, <1>2 DEF AnswerOwed, appVars
<1>3. QED
  BY <1>2 DEF TxInv, appVars, airVars

LEMMA RunningType == TypeOK => Running \in {0, 1} /\ (Running = 0 <=> appPc = "idle")
  BY DEF Running

LEMMA ConnectKeeps ==
  ASSUME IInv, Scheduled, Connect
  PROVE  IInv'
<1>1. ~connected /\ scheduled = 0 /\ appPc = "idle"
  BY DEF Connect, Scheduled, EventNow
<1>2. /\ UNCHANGED <<cccd, m_is_locked, rxVars, appVars, txVars, airVars, phoneVars, ghostVars>>
      /\ connected' = TRUE /\ connections' = connections + 1
  BY DEF Connect
<1>3. TypeOK'
  BY <1>2, StrmAssumption DEF IInv, TypeOK, Connect, rxVars, appVars, txVars, airVars, phoneVars,
     ghostVars
<1>4. Running = 0 /\ Running' = 0 /\ scheduled' = 0 /\ appPc' = "idle"
  BY <1>1, <1>2 DEF Running, appVars
<1>5. left = <<>> /\ left' = <<>> /\ ~cut /\ m_strm_state # "RECV"
  BY <1>1, <1>2, <1>4 DEF IInv, RxInv, phoneVars
<1>6. RxInv'
  BY <1>2, <1>4, <1>5 DEF IInv, RxInv, rxVars, appVars, ghostVars
<1>7. due = None /\ UNCHANGED <<due, got, onAir, heard>>
  BY <1>1, <1>2 DEF IInv, TxInv, phoneVars, airVars
<1>8. \A m : ~AnswerOwed(m)'
  BY <1>4 DEF AnswerOwed
<1>9. TxInv'
  BY <1>4, <1>7, <1>8 DEF IInv, TxInv
<1>10. QED
  BY <1>3, <1>6, <1>9 DEF IInv

LEMMA DisconnectKeeps ==
  ASSUME IInv, Scheduled, Disconnect
  PROVE  IInv'
<1>1. connected /\ appPc = "idle"
  BY DEF Disconnect, Scheduled, EventNow
<1>2. TypeOK'
  <2>1. /\ m_strm_state' = "IDLE" /\ m_rx_exp_len' = 0 /\ m_rx_buffer_len' = 0
        /\ m_tx_buff' = <<>> /\ m_tx_offset' = 0 /\ m_is_tx_processing' = FALSE
        /\ onAir' = <<>> /\ heard' = FALSE /\ left' = <<>> /\ due' = None /\ got' = <<>>
        /\ connected' = FALSE /\ cccd' = FALSE
        /\ m_is_locked' = (m_is_locked \/ PasswdSet) /\ cut' = (cut \/ scheduled > 0)
        /\ UNCHANGED <<connections, m_rx_buffer, scheduled, appPc, givenLen, m_on_sent_handler,
                       fresh, accepted>>
    BY DEF Disconnect, appVars
  <2>2. /\ m_rx_buffer_len' \in 0..Len(m_rx_buffer') /\ m_tx_buff' \in Seq(Unit)
        /\ m_tx_offset' \in 0..Len(m_tx_buff') /\ onAir' \in Seq(Seq(Unit))
        /\ left' \in Seq(Unit) /\ got' \in Seq(Unit) /\ m_rx_exp_len' \in Nat
    BY <2>1 DEF IInv, TypeOK
  <2>3. m_is_locked' \in BOOLEAN /\ cut' \in BOOLEAN /\ m_is_tx_processing' \in BOOLEAN
        /\ heard' \in BOOLEAN /\ connected' \in BOOLEAN /\ cccd' \in BOOLEAN
    BY <2>1
  <2>4. QED
    BY <2>1, <2>2, <2>3 DEF IInv, TypeOK
<1>3. Running = 0 /\ Running' = 0
  BY <1>1 DEF Running, Disconnect, appVars
<1>4. RxInv'
  <2>1. scheduled \in {0, 1} /\ scheduled' = scheduled /\ appPc' = "idle"
    BY <1>1, <1>3 DEF IInv, TypeOK, RxInv, Disconnect, appVars
  <2>2. scheduled' = 1 => cut'
    <3>1. scheduled = 1 => scheduled > 0
      OBVIOUS
    <3>2. QED
      BY <2>1, <3>1 DEF Disconnect
  <2>3. cut' => scheduled' + Running' = 1
    <3>1. cut \/ scheduled > 0 => scheduled = 1
      BY <1>3, <2>1 DEF IInv, RxInv
    <3>2. cut' => scheduled = 1
      BY <3>1 DEF Disconnect
    <3>3. QED
      BY <1>3, <2>1, <3>2
  <2>4. /\ m_strm_state' = "IDLE" /\ m_rx_buffer_len' = 0 /\ left' = <<>> /\ ~connected'
        /\ UNCHANGED <<m_rx_buffer, accepted>>
    BY DEF Disconnect
  <2>5. left' \in Seq(Message \X Nat)
    BY <2>4
  <2>6. QED
    BY <1>3, <2>1, <2>2, <2>3, <2>4, <2>5 DEF IInv, RxInv
<1>5. TxInv'
  <2>1. /\ onAir' = <<>> /\ heard' = FALSE /\ due' = None /\ got' = <<>> /\ ~connected'
        /\ appPc' = "idle"
    BY <1>1 DEF Disconnect, appVars
  <2>2. \A m : ~AnswerOwed(m)'
    BY <2>1 DEF AnswerOwed
  <2>3. QED
    BY <2>1, <2>2 DEF TxInv
<1>6. QED
  BY <1>2, <1>4, <1>5 DEF IInv

LEMMA SetupKeeps ==
  ASSUME IInv, EnableIndications \/ PasswordWrite
  PROVE  IInv'
<1>1. UNCHANGED <<connected, connections, rxVars, appVars, txVars, airVars, phoneVars, ghostVars>>
  BY DEF EnableIndications, PasswordWrite, linkVars
<1>2. m_is_locked' \in BOOLEAN /\ cccd' \in BOOLEAN
  BY DEF EnableIndications, PasswordWrite, linkVars, IInv, TypeOK
<1>3. TypeOK'
  BY <1>1, <1>2 DEF IInv, TypeOK, rxVars, appVars, txVars, airVars, phoneVars, ghostVars
<1>4. cccd => cccd'
  BY DEF EnableIndications, PasswordWrite, linkVars
<1>5. QED
  BY <1>1, <1>3, <1>4, RxAlone, TxAlone DEF IInv, txVars, phoneVars, ghostVars

LEMMA BeginKeeps ==
  ASSUME IInv, NEW m \in Message, Begin(m)
  PROVE  IInv'
<1>1. /\ connected /\ left = <<>> /\ left' = Stream(m) /\ fresh' = fresh \ {m}
      /\ UNCHANGED <<linkVars, m_is_locked, rxVars, appVars, txVars, airVars, due, got, ghostVars>>
  BY DEF Begin
<1>2. /\ Stream(m) \in Seq(Message \X Nat) /\ Len(Stream(m)) = Length[m] + 1
      /\ Length[m] \in Nat
      /\ \A i \in 1..Length[m] + 1 : Stream(m)[i] = <<m, i - 1>>
  BY StreamFacts DEF Data
<1>3. left' \in Seq(Unit)
  BY <1>1, StreamFacts DEF Data, Unit
<1>4. TypeOK'
  BY <1>1, <1>3 DEF IInv, TypeOK, linkVars, rxVars, appVars, txVars, airVars, ghostVars
<1>5. TxInv'
  BY <1>1, TxAlone DEF IInv, linkVars, txVars, ghostVars
<1>6. Running' = Running /\ m_strm_state # "RECV"
  BY <1>1 DEF Running, appVars, IInv, RxInv
<1>7. LeftFollows(m)'
  <2>1. Written' = 0
    BY <1>1, <1>6 DEF Written, rxVars
  <2>2. QED
    BY <1>1, <1>2, <1>6, <2>1 DEF LeftFollows, rxVars
<1>9. /\ UNCHANGED <<connected, cccd, m_strm_state, m_rx_buffer, m_rx_buffer_len, scheduled, appPc,
                     givenLen, accepted, cut>>
      /\ left' \in Seq(Message \X Nat)
  BY <1>1, <1>2 DEF linkVars, rxVars, appVars, ghostVars
<1>10. (scheduled = 1 /\ ~cut => Holds(accepted[1], m_rx_buffer_len)')
       /\ (appPc # "idle" /\ ~cut => Holds(accepted[1], givenLen)')
  BY <1>9 DEF IInv, RxInv, Holds
<1>11. RxInv'
  BY <1>1, <1>6, <1>7, <1>9, <1>10 DEF IInv, RxInv
<1>12. QED
  BY <1>4, <1>5, <1>11 DEF IInv
-----------------------------------------------------------------------------
LEMMA HandlerStartKeeps ==
  ASSUME IInv, HandlerStart
  PROVE  IInv'
<1>1. /\ appPc = "idle" /\ scheduled > 0 /\ scheduled' = scheduled - 1 /\ appPc' = "handler"
      /\ givenLen' = m_rx_buffer_len
      /\ UNCHANGED <<linkVars, m_is_locked, rxVars, txVars, airVars, phoneVars, ghostVars>>
  BY DEF HandlerStart
<1>2. scheduled = 1 /\ scheduled' = 0 /\ Running = 0 /\ Running' = 1
  BY <1>1 DEF IInv, TypeOK, RxInv, Running
<1>3. TypeOK'
  BY <1>1, <1>2 DEF IInv, TypeOK, linkVars, rxVars, txVars, airVars, phoneVars, ghostVars
<1>4. UNCHANGED <<connected, cccd, m_strm_state, m_rx_exp_len, m_rx_buffer, m_rx_buffer_len, left,
                  accepted, cut, onAir, heard, due, got, m_tx_buff, m_tx_offset>>
  BY <1>1 DEF linkVars, rxVars, txVars, airVars, phoneVars, ghostVars
<1>5. RxInv'
  <2>1. m_strm_state # "RECV"
    BY <1>2 DEF IInv, RxInv
  <2>2. left # <<>> => \E m \in Message : LeftFollows(m)'
    BY <1>4 DEF IInv, RxInv, LeftFollows, Written
  <2>3. IF cut THEN ~connected /\ givenLen' = 0 ELSE connected /\ Holds(accepted[1], givenLen)'
    BY <1>1, <1>2, <1>4 DEF IInv, RxInv, Holds
  <2>4. QED
    BY <1>1, <1>2, <1>4, <2>1, <2>2, <2>3 DEF IInv, RxInv
<1>6. TxInv'
  <2>1. ASSUME NEW m \in Message, AnswerOwed(m)'
        PROVE  AnswerOwed(m)
    BY <1>1, <1>2, <1>4, <2>1 DEF AnswerOwed
  <2>2. QED
    BY <1>1, <1>4, <2>1 DEF IInv, TxInv
<1>7. QED
  BY <1>3, <1>5, <1>6 DEF IInv

(* The handler answers what was written. *)
LEMMA ResponseIsAnswer ==
  ASSUME IInv, appPc = "handler"
  PROVE  /\ Running = 1 /\ scheduled = 0 /\ accepted[1] \in Message
         /\ Response # None => ~cut /\ connected /\ Response = Answer[accepted[1]]
         /\ Response \in Reply \cup {None}
<1>1. Running = 1 /\ scheduled = 0
  <2>1. Running = 1
    BY DEF Running
  <2>2. QED
    BY <2>1 DEF IInv, TypeOK, RxInv
<1>2. accepted[1] \in Message
  <2>1. Len(accepted) = 1
    BY <1>1 DEF IInv, RxInv
  <2>2. accepted \in Seq(Message)
    BY DEF IInv, TypeOK
  <2>3. QED
    BY <2>1, <2>2
<1>3. CASE cut
  BY <1>1, <1>2, <1>3 DEF IInv, RxInv, Response
<1>4. CASE ~cut
  <2>1. connected /\ Holds(accepted[1], givenLen)
    BY <1>4 DEF IInv, RxInv
  <2>2. givenLen # 0 => m_rx_buffer[1] = <<accepted[1], 1>>
    <3>1. givenLen \in Nat
      BY DEF IInv, TypeOK
    <3>2. QED
      BY <2>1, <3>1 DEF Holds
  <2>3. Response # None => Response = Answer[accepted[1]]
    BY <2>2 DEF Response
  <2>4. Response \in Reply \cup {None}
    BY <1>2, <2>3, StrmAssumption
  <2>5. QED
    BY <1>1, <1>2, <1>4, <2>1, <2>3, <2>4
<1>5. QED
  BY <1>3, <1>4

LEMMA HandlerSendKeeps ==
  ASSUME IInv, HandlerSend
  PROVE  IInv'
<1>1. /\ appPc = "handler" /\ appPc' \in {"send", "end"}
      /\ appPc' = "send" =>
           /\ Response # None /\ connected
           /\ m_on_sent_handler' = TRUE /\ m_tx_buff' = Stream(Response) /\ m_tx_offset' = 0
      /\ appPc' = "end" => UNCHANGED <<m_on_sent_handler, m_tx_buff, m_tx_offset>>
      /\ UNCHANGED <<linkVars, m_is_locked, rxVars, scheduled, givenLen, m_is_tx_processing,
                     airVars, phoneVars, ghostVars>>
  BY DEF HandlerSend
<1>2. /\ Running = 1 /\ scheduled = 0 /\ accepted[1] \in Message
      /\ Response # None => ~cut /\ connected /\ Response = Answer[accepted[1]]
      /\ Response \in Reply \cup {None}
  BY <1>1, ResponseIsAnswer
<1>3. Running' = 1
  BY <1>1 DEF Running
<1>4. UNCHANGED <<connected, cccd, m_strm_state, m_rx_exp_len, m_rx_buffer, m_rx_buffer_len, left,
                  accepted, cut, onAir, heard, due, got, scheduled, givenLen>>
  BY <1>1 DEF linkVars, rxVars, airVars, phoneVars, ghostVars
<1>5. TypeOK'
  <2>1. m_tx_buff' \in Seq(Unit) /\ m_tx_offset' \in 0..Len(m_tx_buff')
    <3>1. CASE appPc' = "send"
      <4>1. Response \in Reply
        BY <1>1, <1>2, <3>1
      <4>2. Response \in Data /\ Data \subseteq Data
        BY <4>1 DEF Data
      <4>3. Stream(Response) \in Seq(Unit)
        BY <4>2, StreamFacts DEF Unit
      <4>4. QED
        BY <1>1, <3>1, <4>3
    <3>2. CASE appPc' = "end"
      BY <1>1, <3>2 DEF IInv, TypeOK
    <3>3. QED
      BY <1>1, <3>1, <3>2
  <2>2. m_on_sent_handler' \in BOOLEAN
    BY <1>1 DEF IInv, TypeOK
  <2>3. QED
    BY <1>1, <2>1, <2>2 DEF IInv, TypeOK, linkVars, rxVars, airVars, phoneVars, ghostVars
<1>6. RxInv'
  <2>1. left # <<>> => \E m \in Message : LeftFollows(m)'
    BY <1>4 DEF IInv, RxInv, LeftFollows, Written
  <2>2. IF cut THEN ~connected /\ givenLen = 0 ELSE connected /\ Holds(accepted[1], givenLen)'
    BY <1>1, <1>4 DEF IInv, RxInv, Holds
  <2>3. QED
    BY <1>1, <1>2, <1>3, <1>4, <2>1, <2>2 DEF IInv, RxInv
<1>7. TxInv'
  <2>1. \A m : ~AnswerOwed(m)'
    BY <1>1 DEF AnswerOwed
  <2>2. CASE appPc' = "send"
    <3>1. AnswerOwed(accepted[1])
      BY <1>1, <1>2, <2>2 DEF AnswerOwed
    <3>2. due = Response /\ got = <<>> /\ onAir = <<>>
      BY <1>1, <1>2, <2>2, <3>1 DEF IInv, TxInv
    <3>3. QED
      BY <1>1, <1>4, <2>1, <2>2, <3>2 DEF IInv, TxInv
  <2>3. CASE appPc' = "end"
    BY <1>1, <1>4, <2>1, <2>3 DEF IInv, TxInv
  <2>4. QED
    BY <1>1, <2>2, <2>3
<1>8. QED
  BY <1>5, <1>6, <1>7 DEF IInv

LEMMA HandlerIndicateKeeps ==
  ASSUME IInv, HandlerIndicate
  PROVE  IInv'
<1>1. /\ appPc = "send" /\ appPc' = "end"
      /\ Indicate(m_tx_buff, m_tx_offset, TRUE, onAir)
      /\ UNCHANGED <<linkVars, m_is_locked, rxVars, scheduled, givenLen, m_tx_buff, phoneVars,
                     ghostVars>>
  BY DEF HandlerIndicate
<1>2. UNCHANGED <<connected, cccd, m_strm_state, m_rx_exp_len, m_rx_buffer, m_rx_buffer_len, left,
                  accepted, cut, due, got, scheduled, givenLen>>
  BY <1>1 DEF linkVars, rxVars, phoneVars, ghostVars
<1>3. TypeOK'
  <2>1. /\ m_tx_offset' \in 0..Len(m_tx_buff) /\ onAir' \in Seq(Seq(Unit)) /\ heard' \in BOOLEAN
        /\ m_is_tx_processing' \in BOOLEAN /\ m_on_sent_handler' \in BOOLEAN
    <3>1. m_tx_buff \in Seq(Unit) /\ m_tx_offset \in 0..Len(m_tx_buff) /\ TRUE \in BOOLEAN
          /\ onAir \in Seq(Seq(Unit)) /\ TypeOK
      BY DEF IInv, TypeOK
    <3>2. QED
      BY <1>1, <3>1, IndicateType
  <2>2. QED
    BY <1>1, <2>1 DEF IInv, TypeOK, linkVars, rxVars, phoneVars, ghostVars
<1>4. Running = 1 /\ Running' = 1
  BY <1>1 DEF Running
<1>5. RxInv'
  <2>1. left # <<>> => \E m \in Message : LeftFollows(m)'
    BY <1>2 DEF IInv, RxInv, LeftFollows, Written
  <2>2. IF cut THEN ~connected /\ givenLen = 0 ELSE connected /\ Holds(accepted[1], givenLen)'
    BY <1>1, <1>2 DEF IInv, RxInv, Holds
  <2>3. scheduled = 0
    BY <1>4 DEF IInv, TypeOK, RxInv
  <2>4. QED
    BY <1>1, <1>2, <1>4, <2>1, <2>2, <2>3 DEF IInv, RxInv
<1>6. TxInv'
  <2>1. /\ connected /\ due \in Reply /\ due # None /\ got = <<>> /\ onAir = <<>>
        /\ m_tx_buff = Stream(due) /\ m_tx_offset = 0 /\ Length[due] \in Nat
    BY <1>1, StrmAssumption DEF IInv, TxInv, TypeOK
  <2>2. Indicate(Stream(due), 0, TRUE, <<>>) /\ 0 \in 0..Length[due] + 1
    BY <1>1, <2>1 DEF Indicate
  <2>3. /\ heard' = FALSE
        /\ \/ onAir' = <<>>
           \/ /\ cccd /\ Len(onAir') = 1 /\ 0 + Len(onAir'[1]) = m_tx_offset'
              /\ m_tx_offset' <= Length[due] + 1
              /\ \A i \in 1..Len(onAir'[1]) : onAir'[1][i] = <<due, 0 + i - 1>>
    BY <2>1, <2>2, IndicateFollows
  <2>4. \A m : ~AnswerOwed(m)'
    BY <1>1 DEF AnswerOwed
  <2>5. got' = <<>> /\ Len(got') = 0 /\ due' = due /\ m_tx_buff' = Stream(due')
    BY <1>1, <1>2, <2>1
  <2>6. QED
    BY <1>1, <1>2, <2>1, <2>3, <2>4, <2>5 DEF TxInv
<1>7. QED
  BY <1>3, <1>5, <1>6 DEF IInv

LEMMA HandlerEndKeepsInv ==
  ASSUME IInv, HandlerEnd
  PROVE  IInv'
<1>1. /\ UNCHANGED <<linkVars, m_is_locked, m_rx_buffer, scheduled, givenLen, txVars, airVars,
                     phoneVars>>
      /\ appPc \in {"end", "endExp", "endLen"} /\ appPc' \in {"endExp", "endLen", "idle"}
  BY DEF HandlerEnd
<1>2. UNCHANGED <<connected, cccd, m_rx_buffer, left, due, got, onAir, heard, m_tx_buff, m_tx_offset,
                  scheduled, givenLen>>
  BY <1>1 DEF linkVars, txVars, airVars, phoneVars
<1>3. Running = 1 /\ scheduled = 0 /\ Len(accepted) = 1
  BY <1>1 DEF Running, IInv, TypeOK, RxInv
<1>4. /\ m_strm_state' \in {"IDLE", m_strm_state} /\ m_rx_exp_len' \in Nat
      /\ m_rx_buffer_len' \in {0, m_rx_buffer_len} /\ accepted' \in Seq(Message) /\ cut' \in BOOLEAN
  <2>1. m_strm_state' = "IDLE" \/ UNCHANGED m_strm_state
    BY DEF HandlerEnd
  <2>2. m_rx_exp_len' = 0 \/ UNCHANGED m_rx_exp_len
    BY DEF HandlerEnd
  <2>3. m_rx_buffer_len' = 0 \/ UNCHANGED m_rx_buffer_len
    BY DEF HandlerEnd
  <2>4. accepted' \in {accepted, Tail(accepted)} /\ cut' \in {cut, FALSE}
    BY DEF HandlerEnd, ghostVars
  <2>5. accepted' \in Seq(Message)
    <3>1. accepted \in Seq(Message) /\ accepted # <<>>
      <4>1. accepted \in Seq(Message)
        BY DEF IInv, TypeOK
      <4>2. QED
        BY <1>3, <4>1
    <3>2. QED
      BY <2>4, <3>1
  <2>6. m_rx_exp_len' \in Nat
    BY <2>2 DEF IInv, TypeOK
  <2>7. cut' \in BOOLEAN
    BY <2>4 DEF IInv, TypeOK
  <2>8. QED
    BY <2>1, <2>3, <2>5, <2>6, <2>7
<1>5. TypeOK'
  BY <1>1, <1>4 DEF IInv, TypeOK, linkVars, txVars, airVars, phoneVars
<1>6. m_strm_state # "RECV" /\ m_strm_state' # "RECV" /\ Written = 0 /\ Written' = 0
  BY <1>1, <1>4 DEF IInv, RxInv, Written
<1>7. left # <<>> => \E m \in Message : LeftFollows(m)'
  BY <1>2, <1>6 DEF IInv, RxInv, LeftFollows
<1>8. CASE appPc' # "idle"
  <2>1. UNCHANGED ghostVars /\ Running' = 1
    BY <1>8 DEF HandlerEnd, Running
  <2>2. IF cut THEN ~connected /\ givenLen = 0 ELSE connected /\ Holds(accepted[1], givenLen)'
    BY <1>1, <1>2, <2>1 DEF IInv, RxInv, Holds, ghostVars
  <2>3. RxInv'
    BY <1>2, <1>3, <1>6, <1>7, <1>8, <2>1, <2>2 DEF IInv, RxInv, ghostVars
  <2>4. \A m : ~AnswerOwed(m)'
    BY <1>1, <1>8 DEF AnswerOwed
  <2>5. TxInv'
    BY <1>1, <1>2, <2>4 DEF IInv, TxInv
  <2>6. QED
    BY <1>5, <2>3, <2>5 DEF IInv
<1>9. CASE appPc' = "idle"
  <2>1. m_rx_buffer_len' = 0 /\ accepted' = Tail(accepted) /\ cut' = FALSE /\ Running' = 0
    BY <1>9 DEF HandlerEnd, Running
  <2>2. Len(accepted') = 0
    BY <1>3, <2>1 DEF IInv, TypeOK
  <2>3. RxInv'
    BY <1>2, <1>3, <1>6, <1>7, <1>9, <2>1, <2>2 DEF IInv, RxInv
  <2>4. \A m : ~AnswerOwed(m)'
    BY <1>2, <1>3, <2>1 DEF AnswerOwed
  <2>5. TxInv'
    BY <1>2, <1>9, <2>4 DEF IInv, TxInv
  <2>6. QED
    BY <1>5, <2>3, <2>5 DEF IInv
<1>10. QED
  BY <1>8, <1>9
-----------------------------------------------------------------------------
LEMMA ReceiveKeeps ==
  ASSUME IInv, Receive
  PROVE  IInv'
<1>1. /\ onAir # <<>> /\ ~heard /\ got' = got \o onAir[1] /\ heard' = TRUE
      /\ UNCHANGED <<linkVars, m_is_locked, rxVars, appVars, txVars, onAir, left, due, fresh,
                     ghostVars>>
  BY DEF Receive
<1>2. /\ Len(onAir) = 1 /\ onAir \in Seq(Seq(Unit)) /\ got \in Seq(Unit)
      /\ due # None /\ due \in Reply /\ Length[due] \in Nat
  BY <1>1, StrmAssumption DEF IInv, TypeOK, TxInv
<1>3. onAir[1] \in Seq(Unit)
  <2>1. 1 \in 1..Len(onAir)
    BY <1>2
  <2>2. QED
    BY <1>2, <2>1, ElementOf
<1>4. got' \in Seq(Unit) /\ Len(got') = Len(got) + Len(onAir[1])
  BY <1>1, <1>2, <1>3
<1>5. TypeOK'
  BY <1>1, <1>4 DEF IInv, TypeOK, linkVars, rxVars, appVars, txVars, ghostVars
<1>6. RxInv'
  BY <1>1, RxAlone DEF IInv, linkVars
<1>7. UNCHANGED <<connected, cccd, scheduled, appPc, accepted, onAir, due, m_tx_buff, m_tx_offset>>
  BY <1>1 DEF linkVars, appVars, txVars, ghostVars
<1>8. TxInv'
  <2>1. /\ m_tx_buff = Stream(due) /\ m_tx_offset \in 0..Len(m_tx_buff)
        /\ Len(got) + Len(onAir[1]) = m_tx_offset
        /\ \A i \in 1..Len(onAir[1]) : onAir[1][i] = <<due, Len(got) + i - 1>>
        /\ \A i \in 1..Len(got) : got[i] = <<due, i - 1>>
    BY <1>1, <1>2 DEF IInv, TypeOK, TxInv
  <2>2. m_tx_offset <= Length[due] + 1
    <3>1. due \in Data /\ Data \subseteq Data
      BY <1>2 DEF Data
    <3>2. Len(Stream(due)) = Length[due] + 1
      BY <3>1, StreamFacts
    <3>3. QED
      BY <1>2, <2>1, <3>2
  <2>3. ASSUME NEW i \in 1..Len(got')
        PROVE  got'[i] = <<due, i - 1>>
    <3>1. CASE i <= Len(got)
      <4>1. i \in 1..Len(got) /\ got'[i] = got[i]
        BY <1>1, <1>2, <1>3, <1>4, <3>1
      <4>2. QED
        BY <2>1, <4>1
    <3>2. CASE i > Len(got)
      <4>1. PICK k \in 1..Len(onAir[1]) : i = Len(got) + k
        <5>1. Len(got) \in Nat /\ Len(onAir[1]) \in Nat /\ i \in Nat
          BY <1>2, <1>3, <1>4
        <5>2. i - Len(got) \in 1..Len(onAir[1]) /\ i = Len(got) + (i - Len(got))
          BY <1>4, <3>2, <5>1
        <5>3. QED
          BY <5>2
      <4>2. got'[i] = onAir[1][k]
        BY <1>1, <1>2, <1>3, <3>2, <4>1
      <4>3. onAir[1][k] = <<due, Len(got) + k - 1>>
        BY <2>1
      <4>4. QED
        BY <4>1, <4>2, <4>3
    <3>3. QED
      BY <1>2, <1>4, <3>1, <3>2
  <2>4. \A m \in Message : ~AnswerOwed(m)'
    <3>1. ASSUME NEW m \in Message, AnswerOwed(m)'
          PROVE  AnswerOwed(m)
      BY <1>7, <3>1 DEF AnswerOwed, Running
    <3>2. QED
      BY <1>1, <3>1 DEF IInv, TxInv
  <2>5. appPc' # "send"
    BY <1>1, <1>7 DEF IInv, TxInv
  <2>6. Len(got') = m_tx_offset /\ Len(got') <= Length[due] + 1
    BY <1>4, <2>1, <2>2
  <2>7. QED
    BY <1>1, <1>2, <1>7, <2>1, <2>3, <2>4, <2>5, <2>6 DEF IInv, TxInv
<1>9. QED
  BY <1>5, <1>6, <1>8 DEF IInv

LEMMA ConfirmKeeps ==
  ASSUME IInv, Confirm
  PROVE  IInv'
<1>1. /\ onAir # <<>> /\ heard
      /\ Indicate(m_tx_buff, m_tx_offset, m_is_tx_processing, <<>>)
      /\ UNCHANGED <<linkVars, m_is_locked, rxVars, appVars, m_tx_buff, phoneVars, ghostVars>>
  BY DEF Confirm
<1>2. TypeOK'
  <2>1. /\ m_tx_buff \in Seq(Unit) /\ m_tx_offset \in 0..Len(m_tx_buff)
        /\ m_is_tx_processing \in BOOLEAN /\ TypeOK /\ <<>> \in Seq(Seq(Unit))
    BY DEF IInv, TypeOK
  <2>2. /\ m_tx_offset' \in 0..Len(m_tx_buff) /\ onAir' \in Seq(Seq(Unit)) /\ heard' \in BOOLEAN
        /\ m_is_tx_processing' \in BOOLEAN /\ m_on_sent_handler' \in BOOLEAN
    BY <1>1, <2>1, IndicateType
  <2>3. QED
    BY <1>1, <2>2 DEF IInv, TypeOK, linkVars, rxVars, appVars, phoneVars, ghostVars
<1>3. RxInv'
  BY <1>1, RxAlone DEF IInv, linkVars, phoneVars
<1>4. UNCHANGED <<connected, cccd, scheduled, appPc, accepted, due, got, m_tx_buff>>
  BY <1>1 DEF linkVars, appVars, phoneVars, ghostVars
<1>5. TxInv'
  <2>1. /\ due # None /\ due \in Reply /\ Length[due] \in Nat /\ m_tx_buff = Stream(due)
        /\ Len(got) = m_tx_offset /\ m_tx_offset \in Nat /\ m_tx_offset <= Length[due] + 1
    BY <1>1, StrmAssumption DEF IInv, TypeOK, TxInv
  <2>2. Indicate(Stream(due), m_tx_offset, m_is_tx_processing, <<>>)
    BY <1>1, <2>1 DEF Indicate
  <2>3. m_tx_offset \in 0..Length[due] + 1
    BY <2>1
  <2>4. /\ heard' = FALSE
        /\ \/ onAir' = <<>>
           \/ /\ cccd /\ Len(onAir') = 1 /\ m_tx_offset + Len(onAir'[1]) = m_tx_offset'
              /\ m_tx_offset' <= Length[due] + 1
              /\ \A i \in 1..Len(onAir'[1]) : onAir'[1][i] = <<due, m_tx_offset + i - 1>>
    BY <2>1, <2>2, <2>3, IndicateFollows
  <2>5. \A m \in Message : ~AnswerOwed(m)'
    <3>1. ASSUME NEW m \in Message, AnswerOwed(m)'
          PROVE  AnswerOwed(m)
      BY <1>4, <3>1 DEF AnswerOwed, Running
    <3>2. QED
      BY <1>1, <3>1 DEF IInv, TxInv
  <2>6. appPc' # "send"
    BY <1>1, <1>4 DEF IInv, TxInv
  <2>7. connected
    BY <2>1 DEF IInv, TxInv
  <2>8. QED
    BY <1>4, <2>1, <2>4, <2>5, <2>6, <2>7 DEF IInv, TxInv
<1>6. QED
  BY <1>2, <1>3, <1>5 DEF IInv

LEMMA PhoneEndKeeps ==
  ASSUME IInv, Take \/ GiveUp
  PROVE  IInv'
<1>1. /\ got' = <<>> /\ due' = None
      /\ UNCHANGED <<linkVars, m_is_locked, rxVars, appVars, txVars, airVars, left, fresh,
                     ghostVars>>
  BY DEF Take, GiveUp
<1>2. TypeOK'
  <2>1. got' \in Seq(Unit) /\ due' \in Reply \cup {None}
    BY <1>1
  <2>2. QED
    BY <1>1, <2>1 DEF IInv, TypeOK, linkVars, rxVars, appVars, txVars, airVars, ghostVars
<1>3. RxInv'
  BY <1>1, RxAlone DEF IInv, linkVars
<1>4. onAir = <<>> /\ appPc # "send" /\ \A m \in Message : ~AnswerOwed(m)
  <2>1. CASE Take
    BY <2>1 DEF Take, IInv, TxInv
  <2>2. CASE GiveUp
    <3>1. scheduled + Running = 0 /\ appPc = "idle" /\ ~cccd
      BY <2>2 DEF GiveUp, Running
    <3>2. QED
      BY <3>1 DEF AnswerOwed, IInv, TxInv
  <2>3. QED
    BY <2>1, <2>2
<1>5. UNCHANGED <<connected, cccd, scheduled, appPc, accepted, onAir, heard, m_tx_buff, m_tx_offset>>
  BY <1>1 DEF linkVars, appVars, txVars, airVars, ghostVars
<1>6. ASSUME NEW m \in Message, AnswerOwed(m)'
      PROVE  AnswerOwed(m)
  BY <1>5, <1>6 DEF AnswerOwed, Running
<1>7. TxInv'
  BY <1>1, <1>4, <1>5, <1>6 DEF IInv, TxInv
<1>8. QED
  BY <1>2, <1>3, <1>7 DEF IInv
-----------------------------------------------------------------------------
LEMMA ReadKeeps ==
  ASSUME IInv, NEW r \in ReadData, Read(r)
  PROVE  IInv'
<1>1. /\ connected /\ due = None /\ due' = r /\ got' = First(Stream(r))
      /\ m_tx_buff' = Stream(r) /\ fresh' = fresh \ {r}
      /\ UNCHANGED <<linkVars, m_is_locked, rxVars, appVars, left, ghostVars>>
      /\ IF Len(Stream(r)) <= Fragment
         THEN /\ m_tx_offset' = 0
              /\ UNCHANGED <<m_is_tx_processing, m_on_sent_handler, airVars>>
         ELSE Indicate(Stream(r), Fragment, TRUE, onAir)
  BY DEF Read
<1>2. r \in Reply /\ r # None /\ r \in Data /\ Data \subseteq Data
  BY StrmAssumption DEF Data
<1>3. /\ Stream(r) \in Seq(Unit) /\ Len(Stream(r)) = Length[r] + 1 /\ Length[r] \in Nat
      /\ \A i \in 1..Length[r] + 1 : Stream(r)[i] = <<r, i - 1>>
  BY <1>2, StreamFacts DEF Unit
<1>4. /\ got' \in Seq(Unit)
      /\ Len(got') = IF Len(Stream(r)) > Fragment THEN Fragment ELSE Len(Stream(r))
      /\ \A i \in 1..Len(got') : got'[i] = Stream(r)[i]
  BY <1>1, <1>3, FirstFacts
<1>5. Len(got') <= Length[r] + 1 /\ \A i \in 1..Len(got') : got'[i] = <<r, i - 1>>
  <2>1. Len(got') <= Length[r] + 1
    BY <1>3, <1>4
  <2>2. ASSUME NEW i \in 1..Len(got')
        PROVE  got'[i] = <<r, i - 1>>
    <3>1. Len(got') \in Nat
      BY <1>4
    <3>2. i \in 1..Length[r] + 1
      BY <1>3, <2>1, <3>1
    <3>3. QED
      BY <1>3, <1>4, <3>2
  <2>3. QED
    BY <2>1, <2>2
<1>6. onAir = <<>> /\ ~heard /\ appPc # "send" /\ \A m \in Message : ~AnswerOwed(m)
  BY <1>1 DEF IInv, TxInv, AnswerOwed
<1>7. TypeOK'
  <2>1. /\ m_tx_offset' \in 0..Len(m_tx_buff') /\ onAir' \in Seq(Seq(Unit)) /\ heard' \in BOOLEAN
        /\ m_is_tx_processing' \in BOOLEAN /\ m_on_sent_handler' \in BOOLEAN
    <3>1. CASE Len(Stream(r)) <= Fragment
      BY <1>1, <1>3, <3>1 DEF IInv, TypeOK, airVars
    <3>2. CASE ~(Len(Stream(r)) <= Fragment)
      <4>1. Fragment \in 0..Len(Stream(r))
        BY <1>3, <3>2, StrmAssumption
      <4>2. TypeOK /\ onAir \in Seq(Seq(Unit)) /\ TRUE \in BOOLEAN
        BY DEF IInv, TypeOK
      <4>3. Indicate(Stream(r), Fragment, TRUE, onAir)
        BY <1>1, <3>2
      <4>4. QED
        BY <1>1, <1>3, <4>1, <4>2, <4>3, IndicateType
    <3>3. QED
      BY <3>1, <3>2
  <2>2. fresh' \subseteq Data /\ due' \in Reply \cup {None}
    BY <1>1, <1>2 DEF IInv, TypeOK
  <2>3. QED
    BY <1>1, <1>3, <1>4, <2>1, <2>2 DEF IInv, TypeOK, linkVars, rxVars, appVars, ghostVars
<1>8. RxInv'
  BY <1>1, RxAlone DEF IInv, linkVars
<1>9. UNCHANGED <<connected, cccd, scheduled, appPc, accepted>>
  BY <1>1 DEF linkVars, appVars, ghostVars
<1>10. ASSUME NEW m \in Message, AnswerOwed(m)'
       PROVE  AnswerOwed(m)
  BY <1>9, <1>10 DEF AnswerOwed, Running
<1>11. /\ heard' = FALSE
       /\ \/ onAir' = <<>>
          \/ /\ cccd /\ Len(onAir') = 1 /\ Len(got') + Len(onAir'[1]) = m_tx_offset'
             /\ \A i \in 1..Len(onAir'[1]) : onAir'[1][i] = <<r, Len(got') + i - 1>>
  <2>1. CASE Len(Stream(r)) <= Fragment
    BY <1>1, <1>6, <2>1 DEF airVars, IInv, TypeOK
  <2>2. CASE ~(Len(Stream(r)) <= Fragment)
    <3>1. Fragment \in 0..Length[r] + 1 /\ Len(got') = Fragment
      BY <1>3, <1>4, <2>2, StrmAssumption
    <3>2. Indicate(Stream(r), Fragment, TRUE, <<>>)
      BY <1>1, <1>6, <2>2 DEF Indicate
    <3>3. /\ heard' = FALSE
          /\ \/ onAir' = <<>>
             \/ /\ cccd /\ Len(onAir') = 1 /\ Fragment + Len(onAir'[1]) = m_tx_offset'
                /\ \A i \in 1..Len(onAir'[1]) : onAir'[1][i] = <<r, Fragment + i - 1>>
      BY <1>2, <3>1, <3>2, IndicateFollows
    <3>4. QED
      BY <3>1, <3>3
  <2>3. QED
    BY <2>1, <2>2
<1>12. TxInv'
  BY <1>1, <1>2, <1>5, <1>6, <1>9, <1>10, <1>11 DEF TxInv
<1>13. QED
  BY <1>7, <1>8, <1>12 DEF IInv
-----------------------------------------------------------------------------
LEMMA ConcatFacts ==
  ASSUME NEW S, NEW s \in Seq(S), NEW t \in Seq(S)
  PROVE  /\ s \o t \in Seq(S) /\ Len(s \o t) = Len(s) + Len(t)
         /\ \A i \in 1..Len(s) : (s \o t)[i] = s[i]
         /\ \A k \in 1..Len(t) : (s \o t)[Len(s) + k] = t[k]
  OBVIOUS

LEMMA SeqMono ==
  ASSUME NEW S, NEW T, S \subseteq T, NEW s \in Seq(S)
  PROVE  s \in Seq(T)
  OBVIOUS

(* What write_handler collects of a fragment of message m follows what it has. *)
LEMMA CollectedFollows ==
  ASSUME IInv, NEW m \in Message, LeftFollows(m), left # <<>>, m_strm_state # "PROC",
         m_strm_state = "IDLE" => m_rx_buffer_len = 0
  PROVE  LET f == First(left) IN
         /\ Len(f) \in 1..Len(left) /\ Length[m] \in Nat /\ Written \in Nat
         /\ f[1] = <<m, Written>>
         /\ Collected(f) \in Seq(Message \X Nat)
         /\ Len(Collected(f)) = Written + Len(f) - 1
         /\ \A i \in 1..Len(Collected(f)) : Collected(f)[i] = <<m, i>>
<1> DEFINE f == First(left)
           L == Length[m]
<1>1. left \in Seq(Message \X Nat) /\ Len(left) \in Nat /\ Len(left) > 0
  BY DEF IInv, RxInv
<1>2. /\ L \in Nat /\ m_rx_buffer_len \in Nat /\ m_rx_buffer_len <= Len(m_rx_buffer)
      /\ m_rx_buffer \in Seq(Message \X Nat)
  BY StrmAssumption DEF IInv, TypeOK, RxInv
<1>3. Written \in Nat /\ Len(left) = L + 1 - Written
      /\ \A i \in 1..Len(left) : left[i] = <<m, Written + i - 1>>
  BY <1>2 DEF LeftFollows, Written
<1>4. f \in Seq(Message \X Nat) /\ Len(f) \in 1..Len(left) /\ \A i \in 1..Len(f) : f[i] = left[i]
  <2>1. /\ f \in Seq(Message \X Nat) /\ Len(f) = IF Len(left) > Fragment THEN Fragment ELSE Len(left)
        /\ \A i \in 1..Len(f) : f[i] = left[i]
    BY <1>1, FirstFacts
  <2>2. QED
    BY <1>1, <2>1, StrmAssumption
<1> HIDE DEF f, L
<1>5. f[1] = <<m, Written>>
  <2>1. 1 \in 1..Len(f) /\ 1 \in 1..Len(left) /\ Written + 1 - 1 = Written
    BY <1>1, <1>3, <1>4
  <2>2. f[1] = left[1] /\ left[1] = <<m, Written + 1 - 1>>
    BY <1>3, <1>4, <2>1
  <2>3. QED
    BY <2>1, <2>2
<1>6. CASE m_strm_state = "IDLE"
  <2>1. Collected(f) = Tail(f) /\ Written = 0
    BY <1>6 DEF Collected, Written
  <2>2. f # <<>> /\ Tail(f) \in Seq(Message \X Nat) /\ Len(Tail(f)) = Len(f) - 1
    BY <1>4
  <2>3. ASSUME NEW i \in 1..Len(Tail(f))
        PROVE  Tail(f)[i] = <<m, i>>
    <3>1. Tail(f)[i] = f[i + 1] /\ i + 1 \in 1..Len(f)
      BY <1>4, <2>2
    <3>2. f[i + 1] = left[i + 1] /\ i + 1 \in 1..Len(left)
      BY <1>4, <3>1
    <3>3. left[i + 1] = <<m, Written + (i + 1) - 1>>
      BY <1>3, <3>2
    <3>4. Written + (i + 1) - 1 = i
      BY <2>1, <3>1
    <3>5. QED
      BY <3>1, <3>2, <3>3, <3>4
  <2>4. QED
    BY SMTT(30), <1>2, <1>3, <1>4, <1>5, <2>1, <2>2, <2>3 DEF f, L
<1>7. CASE m_strm_state = "RECV"
  <2>1. /\ m_rx_exp_len = L /\ Written = m_rx_buffer_len + 1
        /\ \A i \in 1..m_rx_buffer_len : m_rx_buffer[i] = <<m, i>>
    BY <1>7 DEF LeftFollows, Written, L
  <2> DEFINE a == SubSeq(m_rx_buffer, 1, m_rx_buffer_len)
  <2>2. a \in Seq(Message \X Nat) /\ Len(a) = m_rx_buffer_len
        /\ \A i \in 1..m_rx_buffer_len : a[i] = m_rx_buffer[i]
    BY <1>2
  <2>3. Len(f) <= m_rx_exp_len - m_rx_buffer_len
    BY <1>2, <1>3, <1>4, <2>1
  <2>4. SubSeq(f, 1, Len(f)) = f
    BY <1>4
  <2>5. Collected(f) = a \o f
    BY <1>7, <2>3, <2>4 DEF Collected
  <2> HIDE DEF a
  <2>6. /\ a \o f \in Seq(Message \X Nat) /\ Len(a \o f) = m_rx_buffer_len + Len(f)
        /\ \A i \in 1..m_rx_buffer_len : (a \o f)[i] = a[i]
        /\ \A k \in 1..Len(f) : (a \o f)[m_rx_buffer_len + k] = f[k]
    <3>1. /\ a \o f \in Seq(Message \X Nat) /\ Len(a \o f) = Len(a) + Len(f)
          /\ \A i \in 1..Len(a) : (a \o f)[i] = a[i]
          /\ \A k \in 1..Len(f) : (a \o f)[Len(a) + k] = f[k]
      <4> DEFINE U == Message \X Nat
      <4>1. a \in Seq(U) /\ f \in Seq(U)
        BY <1>4, <2>2
      <4> HIDE DEF U
      <4>2. /\ a \o f \in Seq(U) /\ Len(a \o f) = Len(a) + Len(f)
            /\ \A i \in 1..Len(a) : (a \o f)[i] = a[i]
            /\ \A k \in 1..Len(f) : (a \o f)[Len(a) + k] = f[k]
        BY <4>1, ConcatFacts
      <4>3. QED
        BY <4>2 DEF U
    <3>2. QED
      BY <2>2, <3>1
  <2>7. ASSUME NEW i \in 1..Len(a \o f)
        PROVE  (a \o f)[i] = <<m, i>>
    <3>1. CASE i <= m_rx_buffer_len
      <4>1. (a \o f)[i] = a[i] /\ i \in 1..m_rx_buffer_len
        BY <1>2, <2>6, <3>1
      <4>2. QED
        BY <2>1, <2>2, <4>1
    <3>2. CASE i > m_rx_buffer_len
      <4>1. i - m_rx_buffer_len \in 1..Len(f)
        BY <1>2, <1>4, <2>6, <3>2
      <4>2. PICK k \in 1..Len(f) : k = i - m_rx_buffer_len
        BY <4>1
      <4>3. (a \o f)[i] = f[k]
        <5>1. i = m_rx_buffer_len + k
          BY <1>2, <4>2
        <5>2. QED
          BY <2>6, <5>1
      <4>4. f[k] = <<m, Written + k - 1>>
        BY SMTT(30), <1>3, <1>4
      <4>5. Written + k - 1 = i
        BY <1>2, <2>1, <4>2
      <4>6. QED
        BY <4>3, <4>4, <4>5
    <3>3. QED
      BY SMTT(30), <1>2, <2>6, <3>1, <3>2
  <2>8. Len(Collected(f)) = Written + Len(f) - 1
    <3>1. Len(f) \in Nat
      BY <1>4
    <3>2. QED
      BY <1>2, <2>1, <2>5, <2>6, <3>1
  <2>9. QED
    BY <1>2, <1>3, <1>4, <1>5, <2>5, <2>6, <2>7, <2>8 DEF f, L
<1>8. QED
  BY <1>6, <1>7 DEF IInv, TypeOK

(* The phone is done with its message when the device has it, and not before. *)
LEMMA WriteFollows ==
  ASSUME IInv, Scheduled, Write
  PROVE  /\ Running = 0 /\ scheduled = 0 /\ ~cut /\ accepted = <<>> /\ m_rx_exp_len' \in Nat
         /\ m_rx_buffer' \in Seq(Message \X Nat) /\ left' \in Seq(Message \X Nat)
         /\ m_rx_buffer_len' \in 0..Len(m_rx_buffer')
         /\ \E m \in Message :
              IF left' = <<>>
              THEN /\ m_strm_state' = "PROC" /\ scheduled' = 1 /\ accepted' = <<m>>
                   /\ due' = Answer[m]
                   /\ Holds(m, m_rx_buffer_len)'
              ELSE /\ m_strm_state' = "RECV" /\ scheduled' = 0 /\ accepted' = <<>>
                   /\ due' = None /\ LeftFollows(m)'
<1> DEFINE f == First(left)
           data == Collected(f)
           length == IF m_strm_state = "IDLE" THEN Announced(f[1]) ELSE m_rx_exp_len
           empty == m_strm_state = "IDLE" /\ length = 0
           complete == empty \/ Len(data) >= length
<1>1. /\ appPc = "idle" /\ connected /\ left # <<>> /\ due = None /\ m_strm_state # "PROC"
      /\ m_rx_exp_len' = length
      /\ IF empty THEN UNCHANGED <<m_rx_buffer, m_rx_buffer_len>>
                  ELSE m_rx_buffer' = data /\ m_rx_buffer_len' = Len(data)
      /\ m_strm_state' = IF complete THEN "PROC" ELSE "RECV"
      /\ scheduled' = IF complete THEN scheduled + 1 ELSE scheduled
      /\ left' = SubSeq(left, Len(f) + 1, Len(left))
      /\ left' = <<>> => /\ due' = IF Answer[left[1][1]] # None THEN Answer[left[1][1]] ELSE due
                         /\ accepted' = Append(accepted, left[1][1])
      /\ left' # <<>> => UNCHANGED <<due, accepted>>
  BY DEF Write, Scheduled, EventNow, Refused
<1>2. Running = 0 /\ scheduled = 0 /\ ~cut /\ accepted = <<>>
  <2>1. Running = 0 /\ scheduled \in {0, 1} /\ scheduled # 1
    BY <1>1 DEF Running, IInv, TypeOK, RxInv
  <2>2. Len(accepted) = 0 /\ ~cut
    BY <2>1 DEF IInv, RxInv
  <2>3. accepted \in Seq(Message)
    BY DEF IInv, TypeOK
  <2>4. QED
    BY <2>1, <2>2, <2>3
<1>3. PICK m \in Message : LeftFollows(m)
  BY <1>1 DEF IInv, RxInv
<1>4. m_strm_state = "IDLE" => m_rx_buffer_len = 0
  BY <1>1 DEF IInv, RxInv
<1> DEFINE L == Length[m]
<1>5. /\ Len(f) \in 1..Len(left) /\ L \in Nat /\ Written \in Nat
      /\ f[1] = <<m, Written>>
      /\ data \in Seq(Message \X Nat)
      /\ Len(data) = Written + Len(f) - 1
      /\ \A i \in 1..Len(data) : data[i] = <<m, i>>
  <2> HIDE DEF f, data, L
  <2>1. LET g == First(left) IN
         /\ Len(g) \in 1..Len(left) /\ Length[m] \in Nat /\ Written \in Nat
         /\ g[1] = <<m, Written>>
         /\ Collected(g) \in Seq(Message \X Nat)
         /\ Len(Collected(g)) = Written + Len(g) - 1
         /\ \A i \in 1..Len(Collected(g)) : Collected(g)[i] = <<m, i>>
    BY <1>1, <1>3, <1>4, CollectedFollows
  <2>2. QED
    BY <2>1 DEF f, data, L
<1>6. /\ left \in Seq(Message \X Nat) /\ Len(left) = L + 1 - Written
      /\ \A i \in 1..Len(left) : left[i] = <<m, Written + i - 1>>
      /\ m_strm_state = "RECV" => m_rx_exp_len = L
  BY <1>3 DEF LeftFollows, IInv, RxInv
<1> HIDE DEF f, data
<1>7. length = L
  <2>1. CASE m_strm_state = "IDLE"
    BY <1>5, <2>1 DEF Announced
  <2>2. CASE m_strm_state = "RECV"
    BY <1>6, <2>2
  <2>3. QED
    BY <1>1, <2>1, <2>2 DEF IInv, TypeOK
<1>8. left[1][1] = m
  <2>1. 1 \in 1..Len(left)
    BY <1>5, <1>6
  <2>2. QED
    BY <1>6, <2>1
<1> HIDE DEF length, L
<1>9. /\ left' \in Seq(Message \X Nat) /\ Len(left') = Len(left) - Len(f)
      /\ \A i \in 1..Len(left) - Len(f) : left'[i] = left[Len(f) + i]
  <2>1. Len(f) \in 0..Len(left)
    BY <1>5
  <2>2. QED
    <3> DEFINE U == Message \X Nat
               n == Len(f)
    <3>1. left \in Seq(U) /\ n \in 0..Len(left) /\ left' = SubSeq(left, n + 1, Len(left))
      BY <1>1, <1>6, <2>1
    <3> HIDE DEF U, n
    <3>2. /\ SubSeq(left, n + 1, Len(left)) \in Seq(U)
          /\ Len(SubSeq(left, n + 1, Len(left))) = Len(left) - n
          /\ \A i \in 1..Len(left) - n : SubSeq(left, n + 1, Len(left))[i] = left[n + i]
      BY <3>1
    <3>3. QED
      BY <3>1, <3>2 DEF U, n
<1>10. left' = <<>> <=> Len(data) >= L
  <2>1. Len(left') = L - Len(data) /\ Len(data) \in Nat /\ Len(left') \in Nat
    BY <1>5, <1>6, <1>9
  <2>2. left' = <<>> <=> Len(left') = 0
    BY <1>9
  <2>3. QED
    BY <1>5, <2>1, <2>2
<1>11. m_strm_state = "IDLE" /\ L = 0 => Len(data) = 0 /\ m_rx_buffer_len = 0
  <2>1. m_strm_state = "IDLE" => Written = 0
    BY DEF Written
  <2>2. QED
    BY <1>4, <1>5, <1>6, <2>1
<1>12. complete <=> left' = <<>>
  <2>1. empty => Len(data) >= L
    BY <1>5, <1>7, <1>11
  <2>2. QED
    BY <1>7, <1>10, <2>1
<1>13. /\ m_rx_buffer' \in Seq(Message \X Nat) /\ m_rx_buffer_len' \in 0..Len(m_rx_buffer')
       /\ m_rx_buffer_len' = Len(data)
       /\ \A i \in 1..m_rx_buffer_len' : m_rx_buffer'[i] = <<m, i>>
  <2>1. CASE empty
    <3>1. UNCHANGED <<m_rx_buffer, m_rx_buffer_len>> /\ m_rx_buffer_len = 0 /\ Len(data) = 0
      BY <1>1, <1>7, <1>11, <2>1
    <3>2. m_rx_buffer \in Seq(Message \X Nat) /\ Len(m_rx_buffer) \in Nat
      BY DEF IInv, RxInv
    <3>3. QED
      BY <3>1, <3>2
  <2>2. CASE ~empty
    <3>1. m_rx_buffer' = data /\ m_rx_buffer_len' = Len(data)
      BY <1>1, <2>2
    <3>2. Len(data) \in Nat
      BY <1>5
    <3>3. QED
      BY <1>5, <3>1, <3>2
  <2>3. QED
    BY <2>1, <2>2
<1>14. m_rx_exp_len' = L
  BY <1>1, <1>7
<1> HIDE DEF complete, empty
<1>15. CASE left' = <<>>
  <2>1. m_strm_state' = "PROC" /\ scheduled' = 1 /\ due' = Answer[m] /\ accepted' = <<m>>
    BY <1>1, <1>2, <1>8, <1>12, <1>15
  <2>2. Holds(m, m_rx_buffer_len)'
    <3>1. Len(data) = L
      <4>1. Len(left') = L - Len(data) /\ Len(left') = 0
        BY <1>5, <1>6, <1>9, <1>15
      <4>2. QED
        BY <1>5, <4>1
    <3>2. m_rx_buffer_len' = Length[m] /\ m_rx_buffer_len' <= Len(m_rx_buffer')
      BY <1>13, <3>1 DEF L
    <3>3. QED
      BY <1>13, <3>2 DEF Holds
  <2>3. QED
    BY <1>2, <1>5, <1>9, <1>13, <1>14, <1>15, <2>1, <2>2
<1>16. CASE left' # <<>>
  <2>1. m_strm_state' = "RECV" /\ scheduled' = 0 /\ due' = None /\ accepted' = <<>>
    BY <1>1, <1>2, <1>12, <1>16
  <2>2. Written' = Written + Len(f)
    <3>1. Written' = m_rx_buffer_len' + 1
      BY <2>1 DEF Written
    <3>2. QED
      BY <1>5, <1>13, <3>1
  <2>3. LeftFollows(m)'
    <3>1. Len(left') = L + 1 - Written'
      BY <1>5, <1>6, <1>9, <2>2
    <3>2. ASSUME NEW i \in 1..Len(left')
          PROVE  left'[i] = <<m, Written' + i - 1>>
      <4>1. left'[i] = left[Len(f) + i] /\ Len(f) + i \in 1..Len(left)
        BY <1>5, <1>9
      <4>2. left[Len(f) + i] = <<m, Written + (Len(f) + i) - 1>>
        BY <1>6, <4>1
      <4>3. Written + (Len(f) + i) - 1 = Written' + i - 1
        BY <1>5, <1>9, <2>2
      <4>4. QED
        BY <4>1, <4>2, <4>3
    <3>3. QED
      BY <1>13, <1>14, <3>1, <3>2 DEF LeftFollows, L
  <2>4. QED
    BY <1>2, <1>5, <1>9, <1>13, <1>14, <1>16, <2>1, <2>3
<1>17. QED
  BY <1>15, <1>16

LEMMA WriteKeeps ==
  ASSUME IInv, Scheduled, Write
  PROVE  IInv'
<1>1. /\ Running = 0 /\ scheduled = 0 /\ ~cut /\ accepted = <<>> /\ m_rx_exp_len' \in Nat
      /\ m_rx_buffer' \in Seq(Message \X Nat) /\ left' \in Seq(Message \X Nat)
      /\ m_rx_buffer_len' \in 0..Len(m_rx_buffer')
  BY WriteFollows
<1>2. PICK m \in Message :
        IF left' = <<>>
        THEN /\ m_strm_state' = "PROC" /\ scheduled' = 1 /\ accepted' = <<m>>
             /\ due' = Answer[m]
             /\ Holds(m, m_rx_buffer_len)'
        ELSE /\ m_strm_state' = "RECV" /\ scheduled' = 0 /\ accepted' = <<>>
             /\ due' = None /\ LeftFollows(m)'
  BY WriteFollows
<1>3. /\ UNCHANGED <<linkVars, m_is_locked, appPc, givenLen, txVars, airVars, got, fresh, cut>>
      /\ connected /\ due = None /\ appPc = "idle"
  BY DEF Write, Scheduled, EventNow
<1>4. Answer[m] \in Reply \cup {None} /\ Message \X Nat \subseteq Unit
  BY StrmAssumption DEF Unit, Data
<1>5. TypeOK'
  <2>1. m_rx_buffer' \in Seq(Unit) /\ left' \in Seq(Unit)
    BY <1>1, <1>4, SeqMono
  <2>2. /\ m_strm_state' \in {"IDLE", "RECV", "PROC"} /\ scheduled' \in Nat
        /\ due' \in Reply \cup {None} /\ accepted' \in Seq(Message)
    <3>1. CASE left' = <<>>
      BY <1>2, <1>4, <3>1
    <3>2. CASE left' # <<>>
      BY <1>2, <3>2
    <3>3. QED
      BY <3>1, <3>2
  <2>3. QED
    BY <1>1, <1>3, <2>1, <2>2 DEF IInv, TypeOK, linkVars, txVars, airVars
<1>6. Running' = 0 /\ connected' /\ ~cut' /\ appPc' = "idle"
  BY <1>1, <1>3 DEF Running, linkVars
<1>7. RxInv'
  <2>1. CASE left' = <<>>
    <3>1. Len(accepted') = 1 /\ accepted'[1] = m
      BY <1>2, <2>1
    <3>2. Holds(accepted[1], m_rx_buffer_len)'
      BY <1>2, <2>1, <3>1 DEF Holds
    <3>3. QED
      BY <1>1, <1>2, <1>6, <2>1, <3>1, <3>2 DEF RxInv
  <2>2. CASE left' # <<>>
    BY <1>1, <1>2, <1>6, <2>2 DEF RxInv
  <2>3. QED
    BY <2>1, <2>2
<1>8. TxInv'
  <2>1. got = <<>> /\ onAir = <<>> /\ ~heard /\ UNCHANGED <<got, onAir, heard>>
    BY <1>3 DEF IInv, TxInv, airVars
  <2>2. ASSUME NEW n \in Message, AnswerOwed(n)'
        PROVE  due' = Answer[n]
    <3>1. scheduled' = 1 /\ n = accepted'[1]
      BY <1>6, <2>2, <1>2 DEF AnswerOwed
    <3>2. QED
      BY <1>2, <3>1
  <2>3. due' # None => Length[due'] \in Nat
    BY <1>2, <1>4, StrmAssumption
  <2>4. QED
    BY <1>6, <2>1, <2>2, <2>3 DEF TxInv
<1>9. QED
  BY <1>5, <1>7, <1>8 DEF IInv
-----------------------------------------------------------------------------
LEMMA InitInv == Init => IInv
<1> SUFFICES ASSUME Init
             PROVE  IInv
  OBVIOUS
<1>1. TypeOK
  <2>1. Message \cup ReadData \subseteq Data
    BY StrmAssumption DEF Data
  <2>2. PasswdSet \in BOOLEAN /\ MaxConnections \in Nat
    BY StrmAssumption
  <2>3. /\ m_rx_buffer \in Seq(Unit) /\ m_tx_buff \in Seq(Unit) /\ onAir \in Seq(Seq(Unit))
        /\ left \in Seq(Unit) /\ got \in Seq(Unit) /\ accepted \in Seq(Message)
        /\ m_rx_buffer_len \in 0..Len(m_rx_buffer) /\ m_tx_offset \in 0..Len(m_tx_buff)
    BY DEF Init
  <2>4. /\ connected \in BOOLEAN /\ cccd \in BOOLEAN /\ m_is_locked \in BOOLEAN
        /\ m_is_tx_processing \in BOOLEAN /\ m_on_sent_handler \in BOOLEAN
        /\ heard \in BOOLEAN /\ cut \in BOOLEAN
    BY <2>2 DEF Init
  <2>5. /\ m_strm_state \in {"IDLE", "RECV", "PROC"} /\ m_rx_exp_len \in Nat /\ scheduled \in Nat
        /\ appPc \in {"idle", "handler", "send", "end", "endExp", "endLen"} /\ givenLen \in Nat
        /\ due \in Reply \cup {None} /\ fresh \subseteq Data /\ connections \in 0..MaxConnections
    BY <2>1, <2>2 DEF Init
  <2>6. QED
    BY <2>3, <2>4, <2>5 DEF TypeOK
<1>2. Running = 0
  BY DEF Init, Running
<1>3. RxInv
  BY <1>2 DEF Init, RxInv
<1>4. TxInv
  BY DEF Init, TxInv, AnswerOwed
<1>5. QED
  BY <1>1, <1>3, <1>4 DEF IInv

LEMMA StepKeeps ==
  ASSUME IInv, Scheduled, [Next]_vars
  PROVE  IInv'
<1>1. CASE Next
  BY <1>1, ConnectKeeps, DisconnectKeeps, SetupKeeps, BeginKeeps, ReadKeeps, WriteKeeps,
     ConfirmKeeps, HandlerStartKeeps, HandlerSendKeeps, HandlerIndicateKeeps,
     HandlerEndKeepsInv, ReceiveKeeps, PhoneEndKeeps DEF Next
<1>2. CASE UNCHANGED vars
  <2>1. UNCHANGED <<linkVars, m_is_locked, rxVars, appVars, txVars, airVars, phoneVars, ghostVars>>
    BY <1>2 DEF vars
  <2>2. TypeOK'
    BY <2>1 DEF IInv, TypeOK, linkVars, rxVars, appVars, txVars, airVars, phoneVars, ghostVars
  <2>3. QED
    BY <2>1, <2>2, RxAlone, TxAlone DEF IInv, linkVars, txVars, phoneVars, ghostVars
<1>3. QED
  BY <1>1, <1>2

LEMMA Invariance ==
  ASSUME Scheduled
  PROVE  Spec => []IInv
<1>1. Init => IInv
  BY InitInv
<1>2. IInv /\ [Next]_vars => IInv'
  BY StepKeeps
<1>3. QED
  BY <1>1, <1>2, PTL DEF Spec

(* Lengths, offsets and buffers stay in their ranges: nothing is read behind the
   end of what was collected or is to be sent. *)
THEOREM TypeCorrect ==
  ASSUME Scheduled
  PROVE  Spec => []TypeOK
<1>1. IInv => TypeOK
  BY DEF IInv
<1>2. QED
  BY <1>1, Invariance, PTL

(* With scheduled events, and each message handled before the next phone connects,
   write_handler and rx_sched_evt give the application each message whole. *)
THEOREM MessagesAreWhole ==
  ASSUME Scheduled
  PROVE  Spec => []MessagesWhole
<1>1. ASSUME IInv
      PROVE  MessagesWhole
  <2>1. Len(accepted) = scheduled + Running
    BY <1>1 DEF IInv, RxInv
  <2>2. ASSUME appPc # "idle"
        PROVE  SubSeq(m_rx_buffer, 1, givenLen) = IF cut THEN <<>> ELSE Body(accepted[1])
    <3>1. m_rx_buffer \in Seq(Message \X Nat) /\ givenLen \in Nat
      BY <1>1 DEF IInv, TypeOK, RxInv
    <3>2. CASE cut
      <4>1. givenLen = 0
        BY <1>1, <2>2, <3>2 DEF IInv, RxInv
      <4>2. QED
        BY <3>1, <3>2, <4>1
    <3>3. CASE ~cut
      <4>1. /\ givenLen = Length[accepted[1]] /\ givenLen <= Len(m_rx_buffer)
            /\ \A i \in 1..givenLen : m_rx_buffer[i] = <<accepted[1], i>>
        BY <1>1, <2>2, <3>3 DEF IInv, RxInv, Holds
      <4> DEFINE s == SubSeq(m_rx_buffer, 1, givenLen)
                 t == Body(accepted[1])
      <4>2. s \in Seq(Message \X Nat) /\ Len(s) = givenLen
            /\ \A i \in 1..givenLen : s[i] = m_rx_buffer[i]
        BY <3>1, <4>1
      <4>3. \A i \in 1..givenLen : <<accepted[1], i>> \in Message \X Nat
        <5>1. ASSUME NEW i \in 1..givenLen
              PROVE  m_rx_buffer[i] \in Message \X Nat
          <6>1. i \in 1..Len(m_rx_buffer)
            BY <3>1, <4>1
          <6>2. QED
            BY <3>1, <6>1, ElementOf
        <5>2. QED
          BY <4>1, <5>1
      <4>4. t \in Seq(Message \X Nat) /\ Len(t) = givenLen
            /\ \A i \in 1..givenLen : t[i] = <<accepted[1], i>>
        <5> DEFINE d == accepted[1]
        <5>1. Length[d] = givenLen
          BY <4>1
        <5>2. t = [i \in 1..givenLen |-> <<d, i>>]
          BY <5>1 DEF Body
        <5>3. \A i \in 1..givenLen : <<d, i>> \in Message \X Nat
          BY <4>3
        <5> HIDE DEF d, t
        <5>4. QED
          BY <3>1, <5>2, <5>3 DEF d
      <4> HIDE DEF s, t
      <4>5. s = t
        <5> DEFINE U == Message \X Nat
        <5>1. s \in Seq(U) /\ t \in Seq(U) /\ Len(s) = Len(t)
          BY <4>2, <4>4
        <5>2. \A i \in 1..Len(s) : s[i] = t[i]
          BY <4>1, <4>2, <4>4
        <5> HIDE DEF U
        <5>3. QED
          BY <5>1, <5>2, SeqEqual
      <4>6. QED
        BY <3>3, <4>5 DEF s, t
    <3>4. QED
      BY <3>2, <3>3
  <2>3. QED
    BY <2>1, <2>2 DEF MessagesWhole
<1>2. IInv => MessagesWhole
  BY <1>1
<1>3. QED
  BY <1>2, Invariance, PTL

(* And a phone receives the answer to what it wrote or read, without a gap, a
   repetition or a fragment of another transfer. *)
THEOREM AnswersAreWhole ==
  ASSUME Scheduled
  PROVE  Spec => []AnswersWhole
<1>1. ASSUME IInv
      PROVE  AnswersWhole
  <2>1. SUFFICES ASSUME got # <<>>
                 PROVE  /\ due # None /\ Len(got) <= Length[due] + 1
                        /\ got = SubSeq(Stream(due), 1, Len(got))
    BY DEF AnswersWhole
  <2>2. /\ due # None /\ due \in Reply /\ got \in Seq(Unit) /\ Len(got) <= Length[due] + 1
        /\ \A i \in 1..Len(got) : got[i] = <<due, i - 1>>
    BY <1>1, <2>1 DEF IInv, TypeOK, TxInv
  <2>3. due \in Data /\ Data \subseteq Data
    BY <2>2 DEF Data
  <2>4. /\ Stream(due) \in Seq(Unit) /\ Len(Stream(due)) = Length[due] + 1 /\ Length[due] \in Nat
        /\ \A i \in 1..Length[due] + 1 : Stream(due)[i] = <<due, i - 1>>
    BY <2>3, StreamFacts DEF Unit
  <2> DEFINE t == SubSeq(Stream(due), 1, Len(got))
  <2>5. t \in Seq(Unit) /\ Len(t) = Len(got) /\ \A i \in 1..Len(got) : t[i] = Stream(due)[i]
    BY <2>2, <2>4
  <2> HIDE DEF t
  <2>6. ASSUME NEW i \in 1..Len(got)
        PROVE  got[i] = t[i]
    <3>1. i \in 1..Length[due] + 1
      BY <2>2, <2>4
    <3>2. QED
      BY <2>2, <2>4, <2>5, <3>1
  <2>7. got = t
    BY <2>2, <2>5, <2>6, SeqEqual
  <2>8. QED
    BY <2>2, <2>7 DEF t
<1>2. IInv => AnswersWhole
  BY <1>1
<1>3. QED
  BY <1>2, Invariance, PTL
-----------------------------------------------------------------------------
(***************************************************************************)
(* NothingStuck, one lemma for each of its parts; the last needs to name   *)
(* the message whose answer is owed.                                       *)
(***************************************************************************)
BusyHeld == m_strm_state = "PROC" => scheduled > 0 \/ appPc \in {"handler", "send", "end"}

FlagHeld == m_is_tx_processing => onAir # <<>>

DueHeld ==
  due # None /\ cccd =>
    \/ \E m \in Message : AnswerOwed(m)
    \/ appPc = "send"
    \/ onAir # <<>>
    \/ Len(got) = Length[due] + 1

LEMMA StepBusy ==
  ASSUME IInv, BusyHeld, Scheduled, [Next]_vars
  PROVE  BusyHeld'
<1>1. CASE Disconnect
  BY <1>1 DEF Disconnect, BusyHeld
<1>2. CASE Write
  <2>1. PICK m \in Message :
          IF left' = <<>>
          THEN /\ m_strm_state' = "PROC" /\ scheduled' = 1 /\ accepted' = <<m>>
               /\ due' = Answer[m] /\ Holds(m, m_rx_buffer_len)'
          ELSE /\ m_strm_state' = "RECV" /\ scheduled' = 0 /\ accepted' = <<>>
               /\ due' = None /\ LeftFollows(m)'
    BY <1>2, WriteFollows
  <2>2. m_strm_state' = "PROC" => scheduled' = 1
    BY <2>1
  <2>3. QED
    BY <2>2 DEF BusyHeld
<1>3. CASE HandlerStart
  BY <1>3 DEF HandlerStart, BusyHeld
<1>4. CASE HandlerSend \/ HandlerIndicate
  BY <1>4 DEF HandlerSend, HandlerIndicate, BusyHeld, rxVars
<1>5. CASE HandlerEnd
  <2>1. scheduled' = scheduled /\ (m_strm_state' = "IDLE" \/ UNCHANGED m_strm_state)
    BY <1>5 DEF HandlerEnd
  <2>2. CASE appPc = "end"
    BY <1>5, <2>2 DEF HandlerEnd, BusyHeld
  <2>3. CASE appPc # "end"
    <3>1. appPc \in {"endExp", "endLen"}
      BY <1>5, <2>3 DEF HandlerEnd
    <3>2. QED
      BY <2>1, <3>1 DEF BusyHeld
  <2>4. QED
    BY <2>2, <2>3
<1>6. ASSUME UNCHANGED <<m_strm_state, scheduled, appPc>>
      PROVE  BusyHeld'
  BY <1>6 DEF BusyHeld
<1>7. CASE \/ Connect \/ EnableIndications \/ PasswordWrite \/ Confirm \/ Receive \/ Take \/ GiveUp
           \/ UNCHANGED vars
  BY <1>6, <1>7 DEF Connect, EnableIndications, PasswordWrite, Confirm, Receive, Take, GiveUp, vars,
     rxVars, appVars
<1>8. CASE (\E m \in Message : Begin(m)) \/ (\E r \in ReadData : Read(r))
  BY <1>6, <1>8 DEF Begin, Read, rxVars, appVars
<1>9. QED
  BY <1>1, <1>2, <1>3, <1>4, <1>5, <1>7, <1>8 DEF Next

(* An indication sets the flag only when it is on the air. *)
LEMMA IndicateFlag ==
  ASSUME NEW b, NEW o, NEW p, NEW air, Indicate(b, o, p, air)
  PROVE  m_is_tx_processing' => onAir' # <<>>
  BY DEF Indicate

LEMMA StepFlag ==
  ASSUME IInv, FlagHeld, Scheduled, [Next]_vars
  PROVE  FlagHeld'
<1>1. CASE Disconnect
  BY <1>1 DEF Disconnect, FlagHeld
<1>2. CASE Confirm \/ HandlerIndicate
  BY <1>2, IndicateFlag DEF Confirm, HandlerIndicate, FlagHeld
<1>3. ASSUME UNCHANGED <<m_is_tx_processing, onAir>>
      PROVE  FlagHeld'
  BY <1>3 DEF FlagHeld
<1>4. CASE \E r \in ReadData : Read(r)
  <2>1. PICK r \in ReadData : Read(r)
    BY <1>4
  <2>2. CASE Len(Stream(r)) <= Fragment
    BY <1>3, <2>1, <2>2 DEF Read, airVars
  <2>3. CASE ~(Len(Stream(r)) <= Fragment)
    BY <2>1, <2>3, IndicateFlag DEF Read, FlagHeld
  <2>4. QED
    BY <2>2, <2>3
<1>5. CASE \/ Connect \/ EnableIndications \/ PasswordWrite \/ Write \/ Take \/ GiveUp
           \/ UNCHANGED vars
  BY <1>3, <1>5 DEF Connect, EnableIndications, PasswordWrite, Write, Take, GiveUp, vars, txVars,
     airVars
<1>6. CASE Receive \/ HandlerStart \/ HandlerEnd \/ HandlerSend
  BY <1>3, <1>6 DEF Receive, HandlerStart, HandlerEnd, HandlerSend, txVars, airVars
<1>7. CASE \E m \in Message : Begin(m)
  BY <1>3, <1>7 DEF Begin, txVars, airVars
<1>8. QED
  BY <1>1, <1>2, <1>4, <1>5, <1>6, <1>7 DEF Next

(* To a phone with indications, what remains of an answer goes on the air. *)
LEMMA IndicateGoesOn ==
  ASSUME NEW d \in Reply, NEW o \in 0..Length[d] + 1, NEW p, Indicate(Stream(d), o, p, <<>>),
         connected, cccd, o # Length[d] + 1
  PROVE  onAir' # <<>>
<1>1. Stream(d) \in Seq(Reply \X Nat) /\ Len(Stream(d)) = Length[d] + 1
  BY StreamFacts DEF Data
<1>2. SubSeq(Stream(d), o + 1, Len(Stream(d))) # <<>>
  <2> DEFINE s == Stream(d)
             U == Reply \X Nat
  <2>1. s \in Seq(U) /\ o \in 0..Len(s) /\ o # Len(s)
    BY <1>1
  <2> HIDE DEF s, U
  <2>2. SubSeq(s, o + 1, Len(s)) # <<>>
    BY <2>1, RestFacts
  <2>3. QED
    BY <2>2 DEF s
<1>3. QED
  BY <1>2 DEF Indicate

LEMMA StepDue ==
  ASSUME IInv, DueHeld, Scheduled, [Next]_vars
  PROVE  DueHeld'
<1>1. CASE Disconnect \/ Take \/ GiveUp
  BY <1>1 DEF Disconnect, Take, GiveUp, DueHeld
<1>2. CASE Connect
  <2>1. ~connected /\ due' = due
    BY <1>2 DEF Connect, phoneVars
  <2>2. due = None
    BY <2>1 DEF IInv, TxInv
  <2>3. QED
    BY <2>1, <2>2 DEF DueHeld
<1>3. CASE EnableIndications
  BY <1>3 DEF EnableIndications, DueHeld, phoneVars
<1>4. ASSUME UNCHANGED <<connected, cccd, scheduled, appPc, accepted, due, got, onAir>>
      PROVE  DueHeld'
  <2>1. ASSUME NEW m \in Message, AnswerOwed(m)
        PROVE  AnswerOwed(m)'
    BY <1>4, <2>1 DEF AnswerOwed, Running
  <2>2. QED
    BY <1>4, <2>1 DEF DueHeld
<1>5. CASE PasswordWrite \/ (\E m \in Message : Begin(m)) \/ UNCHANGED vars
  BY <1>4, <1>5 DEF PasswordWrite, Begin, vars, linkVars, appVars, airVars, phoneVars, ghostVars
<1>6. CASE \E r \in ReadData : Read(r)
  <2>1. PICK r \in ReadData : Read(r)
    BY <1>6
  <2>2. /\ connected /\ due' = r /\ got' = First(Stream(r)) /\ r \in Reply /\ cccd' = cccd
        /\ due = None
    BY <2>1, StrmAssumption DEF Read, linkVars
  <2>3. Stream(r) \in Seq(Reply \X Nat) /\ Len(Stream(r)) = Length[r] + 1 /\ Length[r] \in Nat
    BY <2>2, StreamFacts DEF Data
  <2>4. CASE Len(Stream(r)) <= Fragment
    <3>1. Len(got') = Length[r] + 1
      BY <2>2, <2>3, <2>4, FirstFacts, StrmAssumption
    <3>2. QED
      BY <2>2, <3>1 DEF DueHeld
  <2>5. CASE ~(Len(Stream(r)) <= Fragment)
    <3>1. Fragment \in 0..Length[r] + 1 /\ Fragment # Length[r] + 1
      BY <2>3, <2>5, StrmAssumption
    <3>2. onAir = <<>>
      BY <2>2 DEF IInv, TxInv
    <3>3. Indicate(Stream(r), Fragment, TRUE, <<>>)
      BY <2>1, <2>5, <3>2 DEF Read
    <3>4. cccd => onAir' # <<>>
      BY <2>2, <3>1, <3>3, IndicateGoesOn
    <3>5. QED
      BY <2>2, <3>4 DEF DueHeld
  <2>6. QED
    BY <2>4, <2>5
<1>7. CASE Write
  <2>1. PICK m \in Message :
          IF left' = <<>>
          THEN /\ m_strm_state' = "PROC" /\ scheduled' = 1 /\ accepted' = <<m>>
               /\ due' = Answer[m] /\ Holds(m, m_rx_buffer_len)'
          ELSE /\ m_strm_state' = "RECV" /\ scheduled' = 0 /\ accepted' = <<>>
               /\ due' = None /\ LeftFollows(m)'
    BY <1>7, WriteFollows
  <2>2. connected' /\ appPc' = "idle"
    BY <1>7 DEF Write, Scheduled, EventNow, linkVars
  <2>3. CASE due' # None
    <3>1. /\ scheduled' = 1 /\ accepted' = <<m>> /\ Answer[m] # None
      BY <2>1, <2>3
    <3>2. Running' = 0
      BY <2>2 DEF Running
    <3>3. AnswerOwed(m)'
      BY <2>2, <3>1, <3>2 DEF AnswerOwed
    <3>4. QED
      BY <3>3 DEF DueHeld
  <2>4. QED
    BY <2>3 DEF DueHeld
<1>8. CASE HandlerStart
  <2>1. UNCHANGED <<connected, cccd, accepted, due, got, onAir>> /\ appPc = "idle"
        /\ scheduled > 0 /\ scheduled' = scheduled - 1 /\ appPc' = "handler"
    BY <1>8 DEF HandlerStart, linkVars, airVars, phoneVars, ghostVars
  <2>2. scheduled + Running = scheduled' + Running'
    BY <2>1 DEF Running, IInv, TypeOK
  <2>3. ASSUME NEW m \in Message, AnswerOwed(m)
        PROVE  AnswerOwed(m)'
    BY <2>1, <2>2, <2>3 DEF AnswerOwed
  <2>4. QED
    BY <2>1, <2>3 DEF DueHeld
<1>9. CASE HandlerSend
  <2>1. UNCHANGED <<connected, cccd, due, got, onAir>> /\ appPc = "handler"
    BY <1>9 DEF HandlerSend, linkVars, airVars, phoneVars
  <2>2. ASSUME NEW m \in Message, AnswerOwed(m)
        PROVE  appPc' = "send"
    <3>1. connected /\ m = accepted[1] /\ Answer[m] # None
      BY <2>2 DEF AnswerOwed
    <3>2. ~cut /\ Holds(m, givenLen)
      BY <2>1, <3>1 DEF IInv, RxInv
    <3>3. givenLen # 0
      BY <3>1, <3>2, StrmAssumption DEF Holds
    <3>4. m_rx_buffer[1] = <<m, 1>>
      BY <3>2, <3>3 DEF Holds, IInv, TypeOK
    <3>5. Response # None
      BY <3>1, <3>3, <3>4 DEF Response, Blank
    <3>6. QED
      BY <1>9, <3>1, <3>5 DEF HandlerSend
  <2>3. QED
    BY <2>1, <2>2 DEF DueHeld
<1>10. CASE HandlerIndicate
  <2>1. /\ UNCHANGED <<connected, cccd, due, got>> /\ appPc = "send"
        /\ Indicate(m_tx_buff, m_tx_offset, TRUE, onAir)
    BY <1>10 DEF HandlerIndicate, linkVars, phoneVars
  <2>2. /\ connected /\ due \in Reply /\ onAir = <<>> /\ m_tx_buff = Stream(due)
        /\ m_tx_offset = 0 /\ Length[due] \in Nat
    BY <2>1, StrmAssumption DEF IInv, TypeOK, TxInv
  <2>3. Indicate(Stream(due), 0, TRUE, <<>>)
    BY <2>1, <2>2
  <2>4. 0 \in 0..Length[due] + 1 /\ 0 # Length[due] + 1
    BY <2>2
  <2>5. cccd => onAir' # <<>>
    BY <2>2, <2>3, <2>4, IndicateGoesOn
  <2>6. QED
    BY <2>1, <2>5 DEF DueHeld
<1>11. CASE Confirm
  <2>1. /\ UNCHANGED <<connected, cccd, due, got>> /\ onAir # <<>> /\ heard
        /\ Indicate(m_tx_buff, m_tx_offset, m_is_tx_processing, <<>>)
    BY <1>11 DEF Confirm, linkVars, phoneVars
  <2>2. /\ connected /\ due \in Reply /\ m_tx_buff = Stream(due) /\ Len(got) = m_tx_offset
        /\ Length[due] \in Nat /\ m_tx_offset \in 0..Length[due] + 1
    <3>1. due # None /\ due \in Reply /\ m_tx_buff = Stream(due) /\ Len(got) = m_tx_offset
      BY <2>1 DEF IInv, TypeOK, TxInv
    <3>2. m_tx_offset \in Nat /\ Len(got) <= Length[due] + 1 /\ connected /\ Length[due] \in Nat
      BY <3>1, StrmAssumption DEF IInv, TypeOK, TxInv
    <3>3. QED
      BY <3>1, <3>2
  <2>3. Indicate(Stream(due), m_tx_offset, m_is_tx_processing, <<>>)
    BY <2>1, <2>2
  <2>4. cccd /\ m_tx_offset # Length[due] + 1 => onAir' # <<>>
    BY <2>2, <2>3, IndicateGoesOn
  <2>5. QED
    BY <2>1, <2>2, <2>4 DEF DueHeld
<1>12. CASE HandlerEnd
  <2>1. UNCHANGED <<connected, cccd, due, got, onAir>> /\ appPc \in {"end", "endExp", "endLen"}
    BY <1>12 DEF HandlerEnd, linkVars, airVars, phoneVars
  <2>2. \A m \in Message : ~AnswerOwed(m)
    BY <2>1 DEF AnswerOwed
  <2>3. QED
    BY <2>1, <2>2 DEF DueHeld
<1>13. CASE Receive
  <2>1. UNCHANGED onAir /\ onAir # <<>>
    BY <1>13 DEF Receive
  <2>2. QED
    BY <2>1 DEF DueHeld
<1>14. QED
  BY <1>1, <1>2, <1>3, <1>5, <1>6, <1>7, <1>8, <1>9, <1>10, <1>11, <1>12, <1>13 DEF Next

(* The safety half of TransfersEnd: with scheduled events, and each message handled
   before the next phone connects, whatever refuses a write or a read, and whatever
   a phone waits for, has a step to come that ends it. *)
THEOREM NothingIsStuck ==
  ASSUME Scheduled
  PROVE  Spec => []NothingStuck
<1> DEFINE Held == BusyHeld /\ FlagHeld /\ DueHeld
<1>1. Init => IInv /\ Held
  BY InitInv DEF Init, BusyHeld, FlagHeld, DueHeld
<1>2. IInv /\ Held /\ [Next]_vars => (IInv /\ Held)'
  BY StepKeeps, StepBusy, StepFlag, StepDue
<1>3. IInv /\ Held => NothingStuck
  <2>1. ASSUME IInv, NEW m \in Message, AnswerOwed(m)
        PROVE  scheduled > 0 \/ appPc = "handler"
    BY <2>1 DEF AnswerOwed, Running, IInv, TypeOK
  <2>2. QED
    BY <2>1 DEF NothingStuck, BusyHeld, FlagHeld, DueHeld
<1>4. QED
  BY <1>1, <1>2, <1>3, PTL DEF Spec
=============================================================================
