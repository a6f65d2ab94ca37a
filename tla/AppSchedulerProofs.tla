-------------------------- MODULE AppSchedulerProofs --------------------------
(***************************************************************************)
(* Proofs about AppScheduler, for every queue size, number of interrupt    *)
(* levels and set of events.                                               *)
(***************************************************************************)
EXTENDS AppScheduler, TLAPS

(* An entry reserved by a put counts as waiting; no two puts share one. *)
ReservedInv ==
  /\ \A l \in Level : Putting(l) => Waiting(putIndex[l]) /\ putEvent[l] \in Event
  /\ \A k, l \in Level : Putting(k) /\ putIndex[k] = putIndex[l] => k = l

(* An entry that waits was written, or its put has not come to that yet. *)
WrittenInv ==
  \A i \in Index : Waiting(i) =>
    entries[i] \in Event \/ \E l \in Level : putIndex[l] = i

(* The entry in service is the one just before the start of the queue: the
   spare entry of the ring, which is never among those that wait. *)
ServiceInv ==
  /\ pc \in {"read", "run"} => start = next_index(cur)
  /\ pc = "read" => entries[cur] \in Event
  /\ pc = "run" => entries[cur] = given /\ given \in Event

IInv == TypeOK /\ ReservedInv /\ WrittenInv /\ ServiceInv
-----------------------------------------------------------------------------
(* The index arithmetic stays in the ring (next_index never leaves Index). *)
LEMMA NextIndexType ==
  ASSUME NEW i \in Index
  PROVE  next_index(i) \in Index /\ next_index(i) # i
  BY SchedAssumption DEF next_index, Index

(* NoIndex is not an index: event_index = 0xFFFF can mean "none". *)
LEMMA NoIndexOutside == NoIndex \notin Index
  BY SchedAssumption DEF NoIndex, Index

(* The entry before the start of the queue does not wait. *)
LEMMA SpareDoesNotWait ==
  ASSUME NEW i \in Index, start \in Index, end \in Index, start = next_index(i)
  PROVE  ~Waiting(i)
  BY SchedAssumption DEF Waiting, next_index, Index

(* Reserving appends exactly the entry at the end to those that wait. *)
LEMMA ReserveWaiting ==
  ASSUME NEW i \in Index, start \in Index, end \in Index, ~QueueFull,
         start' = start, end' = next_index(end)
  PROVE  /\ ~Waiting(end)
         /\ Waiting(i)' <=> Waiting(i) \/ i = end
  BY SchedAssumption DEF Waiting, next_index, Index, QueueFull

(* Getting an event removes exactly the entry at the start. *)
LEMMA GetWaiting ==
  ASSUME NEW i \in Index, start \in Index, end \in Index, ~QueueEmpty,
         start' = next_index(start), end' = end
  PROVE  /\ Waiting(start)
         /\ Waiting(i)' <=> Waiting(i) /\ i # start
  BY SchedAssumption DEF Waiting, next_index, Index, QueueEmpty
-----------------------------------------------------------------------------
LEMMA InitIInv == Init => IInv
  BY SchedAssumption, NoIndexOutside
     DEF Init, IInv, TypeOK, ReservedInv, WrittenInv, ServiceInv, Putting,
         Waiting, Index, Level

LEMMA StepIInv == IInv /\ [Next]_vars => IInv'
<1> SUFFICES ASSUME IInv, [Next]_vars PROVE IInv'
    OBVIOUS
<1> USE DEF IInv
<1>1. ASSUME NEW l \in Level, NEW e \in Event, Reserve(l, e) PROVE IInv'
  <2>1. CASE UNCHANGED <<end, putIndex, putEvent>>
        /\ err' \in {"NRF_ERROR_NO_MEM", "NRF_ERROR_INVALID_LENGTH"}
    BY <1>1, <2>1 DEF Reserve, mainVars, TypeOK, ReservedInv, WrittenInv,
         ServiceInv, Putting, Waiting, next_index
  <2>2. CASE /\ ~QueueFull
             /\ putIndex' = [putIndex EXCEPT ![l] = end]
             /\ putEvent' = [putEvent EXCEPT ![l] = e]
             /\ end' = next_index(end)
             /\ err' = "NRF_SUCCESS"
    <3>1. TypeOK'
      BY <1>1, <2>2, NextIndexType DEF Reserve, mainVars, TypeOK
    <3>2. \A i \in Index : ~Waiting(end) /\ (Waiting(i)' <=> Waiting(i) \/ i = end)
      BY <1>1, <2>2, ReserveWaiting DEF Reserve, TypeOK
    <3>3. ReservedInv'
      BY <1>1, <2>2, <3>2, NoIndexOutside DEF TypeOK, ReservedInv, Putting
    <3>4. WrittenInv'
      BY <1>1, <2>2, <3>2, NoIndexOutside DEF Reserve, TypeOK, WrittenInv, Putting
    <3>5. ServiceInv'
      BY <1>1, <2>2 DEF Reserve, mainVars, ServiceInv, next_index
    <3> QED BY <3>1, <3>3, <3>4, <3>5
  <2> QED BY <1>1, <2>1, <2>2 DEF Reserve
<1>2. ASSUME NEW l \in Level, Write(l) PROVE IInv'
  <2>1. putIndex[l] \in Index /\ putEvent[l] \in Event /\ Waiting(putIndex[l])
    BY <1>2 DEF Write, ReservedInv, Putting, TypeOK
  <2>2. TypeOK'
    BY <1>2, <2>1 DEF Write, mainVars, TypeOK
  <2>3. ReservedInv'
    BY <1>2, <2>1 DEF Write, TypeOK, ReservedInv, Putting, Waiting
  <2>4. WrittenInv'
    BY <1>2, <2>1 DEF Write, TypeOK, WrittenInv, Waiting
  <2>5. pc \in {"read", "run"} => putIndex[l] # cur
    BY <2>1, SpareDoesNotWait DEF TypeOK, ServiceInv
  <2>6. ServiceInv'
    BY <1>2, <2>1, <2>5 DEF Write, mainVars, TypeOK, ServiceInv, next_index
  <2> QED BY <2>2, <2>3, <2>4, <2>6
<1>3. CASE Pause \/ Resume
  BY <1>3, SchedAssumption DEF Pause, Resume, putVars, mainVars, TypeOK, ReservedInv,
     WrittenInv, ServiceInv, Putting, Waiting, next_index
<1>4. CASE Check \/ GetNothing \/ Return
  BY <1>4 DEF Check, GetNothing, Return, putVars, TypeOK, ReservedInv,
     WrittenInv, ServiceInv, Putting, Waiting, next_index
<1>5. CASE Get
  <2>1. \A i \in Index : Waiting(start) /\ (Waiting(i)' <=> Waiting(i) /\ i # start)
    BY <1>5, GetWaiting DEF Get, TypeOK
  <2>2. TypeOK'
    BY <1>5, NextIndexType DEF Get, putVars, TypeOK
  <2>3. \A l \in Level : putIndex[l] = NoIndex /\ putIndex'[l] = NoIndex
    BY <1>5 DEF Get, putVars, MainRunning, Putting
  <2>4. ReservedInv'
    BY <2>3, NoIndexOutside DEF ReservedInv, Putting, Level, TypeOK
  <2>5. WrittenInv'
    BY <1>5, <2>1, <2>3, NoIndexOutside DEF Get, putVars, WrittenInv
  <2>6. ServiceInv'
    BY <1>5, <2>1, <2>3, NoIndexOutside
       DEF Get, TypeOK, WrittenInv, ServiceInv, next_index
  <2> QED BY <2>2, <2>4, <2>5, <2>6
<1>6. CASE Read
  BY <1>6 DEF Read, putVars, TypeOK, ReservedInv, WrittenInv, ServiceInv, Putting,
     Waiting, next_index
<1>7. CASE UNCHANGED vars
  BY <1>7 DEF vars, TypeOK, ReservedInv, WrittenInv, ServiceInv, Putting, Waiting,
     next_index
<1> QED BY <1>1, <1>2, <1>3, <1>4, <1>5, <1>6, <1>7 DEF Next, MainStep

LEMMA SchedInvariant == Spec => []IInv
  BY InitIInv, StepIInv, PTL DEF Spec

(* The indices stay inside the ring and the counter below its limit. *)
THEOREM TypeCorrect == Spec => []TypeOK
<1>1. IInv => TypeOK
  BY DEF IInv
<1> QED BY <1>1, SchedInvariant, PTL

(* While a handler runs, no put of any interrupt level is given the entry its
   data pointer refers to, and the entry holds the event it was called for. *)
THEOREM HandlerDataSafe == Spec => []HandlerSeesItsEvent
<1>1. IInv => HandlerSeesItsEvent
  <2> SUFFICES ASSUME IInv PROVE HandlerSeesItsEvent
      OBVIOUS
  <2>1. ASSUME NEW l \in Level, Putting(l), InService(putIndex[l]) PROVE FALSE
    BY <2>1, SpareDoesNotWait
       DEF IInv, TypeOK, ReservedInv, ServiceInv, InService
  <2> QED BY <2>1 DEF IInv, ServiceInv, HandlerSeesItsEvent
<1> QED BY <1>1, SchedInvariant, PTL
-----------------------------------------------------------------------------
(* The k-th waiting entry is entry number k from the start; the one after the last
   is the end. *)
LEMMA NthFacts ==
  ASSUME TypeOK
  PROVE  /\ Count \in 0..QueueSize /\ NthIndex(Count) = end
         /\ \A k \in 0..Count : NthIndex(k) \in Index
         /\ \A k \in 0..Count - 1 : NthIndex(k) # end
         /\ NthIndex(0) = start
         /\ Count = 0 <=> QueueEmpty
         /\ Count = QueueSize <=> QueueFull
  BY SchedAssumption DEF TypeOK, Count, NthIndex, Index, QueueEmpty, QueueFull, next_index

(* An entry that a put has reserved will hold the event of that put ... *)
LEMMA SettledReserved ==
  ASSUME TypeOK, ReservedInv, NEW l \in Level, Putting(l)
  PROVE  Settled[putIndex[l]] = putEvent[l]
<1> putIndex[l] \in Index
    BY DEF TypeOK, Putting
<1>1. \A k \in Level : putIndex[k] = putIndex[l] => k = l
  BY DEF ReservedInv, Putting
<1>2. (CHOOSE k \in Level : putIndex[k] = putIndex[l]) = l
  BY <1>1
<1> QED BY <1>2 DEF Settled

(* ... and any other keeps what it holds. *)
LEMMA SettledFree ==
  ASSUME NEW i \in Index, \A l \in Level : putIndex[l] # i
  PROVE  Settled[i] = entries[i]
  BY DEF Settled

(* A put that is not refused appends its event. *)
LEMMA ReserveAccepts ==
  ASSUME IInv, NEW l \in Level, NEW e \in Event, Reserve(l, e), e \notin Oversized,
         ~QueueFull, putIndex' = [putIndex EXCEPT ![l] = end],
         putEvent' = [putEvent EXCEPT ![l] = e], end' = next_index(end),
         err' = "NRF_SUCCESS"
  PROVE  Fifo!Accept(e)
<1>1. /\ TypeOK /\ TypeOK' /\ ReservedInv /\ ReservedInv' /\ ServiceInv
      /\ ~Putting(l) /\ UNCHANGED <<entries, start, pc, cur, given>>
  BY StepIInv DEF IInv, Next, Reserve, mainVars
<1>2. Count' = Count + 1 /\ Count < QueueSize /\ Count \in Nat
  BY <1>1, SchedAssumption DEF Count, TypeOK, QueueFull, next_index, Index
<1>3. /\ NthIndex(Count) = end /\ \A k \in 0..Count - 1 : NthIndex(k) # end
      /\ \A k \in 0..Count - 1 : NthIndex(k) \in Index
  BY <1>1, <1>2, NthFacts
<1>4. \A k : NthIndex(k)' = NthIndex(k)
  BY <1>1 DEF NthIndex
<1>5. Settled'[end] = e
  <2>1. putIndex'[l] = end /\ putEvent'[l] = e /\ end \in Index /\ end # NoIndex
    BY <1>1, NoIndexOutside DEF TypeOK
  <2>2. \A k \in Level : putIndex'[k] = end => k = l
    BY <1>1, <2>1 DEF ReservedInv, Putting
  <2>3. (CHOOSE k \in Level : putIndex'[k] = end) = l
    BY <2>1, <2>2
  <2> QED BY <2>1, <2>3 DEF Settled
<1>6. ASSUME NEW i \in Index, i # end
      PROVE  Settled'[i] = Settled[i]
  <2>1. \A k \in Level : putIndex'[k] = i <=> putIndex[k] = i
    BY <1>1, <1>6, NoIndexOutside DEF TypeOK, Putting
  <2>2. \A k \in Level : putIndex[k] = i => putEvent'[k] = putEvent[k]
    BY <1>1, <1>6, NoIndexOutside DEF TypeOK, Putting
  <2>3. CASE \E k \in Level : putIndex[k] = i
    <3>1. PICK k \in Level : putIndex[k] = i
      BY <2>3
    <3>2. Putting(k) /\ putIndex'[k] = i
      BY <2>1, <3>1, NoIndexOutside DEF Putting
    <3>3. Settled[i] = putEvent[k]
      BY <1>1, <3>1, <3>2, SettledReserved
    <3>4. (CHOOSE j \in Level : putIndex'[j] = i) = k
      <4>1. \A j \in Level : putIndex'[j] = i => j = k
        BY <1>1, <2>1, <3>1, <3>2 DEF ReservedInv
      <4> QED BY <3>2, <4>1
    <3>5. Settled'[i] = putEvent'[k]
      BY <3>2, <3>4 DEF Settled
    <3> QED BY <2>2, <3>1, <3>3, <3>5
  <2>4. CASE ~\E k \in Level : putIndex[k] = i
    BY <1>1, <2>1, <2>4 DEF Settled
  <2> QED BY <2>3, <2>4
<1>7. Queued' = Append(Queued, e)
  <2>1. /\ Queued = [k \in 1..Count |-> Settled[NthIndex(k - 1)]]
        /\ Queued' = [k \in 1..Count + 1 |-> Settled'[NthIndex(k - 1)']]
    BY <1>2 DEF Queued
  <2>2. \A k \in 1..Count : Settled'[NthIndex(k - 1)'] = Settled[NthIndex(k - 1)]
    <3>1. ASSUME NEW k \in 1..Count
          PROVE  Settled'[NthIndex(k - 1)'] = Settled[NthIndex(k - 1)]
      <4>1. k - 1 \in 0..Count - 1
        BY <1>2
      <4>2. NthIndex(k - 1) \in Index /\ NthIndex(k - 1) # end
        BY <1>3, <4>1
      <4>3. NthIndex(k - 1)' = NthIndex(k - 1)
        BY <1>4
      <4> QED BY <1>6, <4>2, <4>3 DEF Settled
    <3> QED BY <3>1
  <2>3. ASSUME NEW k \in 1..Count + 1, k = Count + 1
        PROVE  Settled'[NthIndex(k - 1)'] = e
    <3>1. k - 1 = Count /\ NthIndex(k - 1)' = NthIndex(k - 1)
      BY <1>2, <1>4, <2>3
    <3> QED BY <1>3, <1>5, <3>1
  <2>4. /\ \A k \in 1..Count : Queued'[k] = Queued[k]
        /\ Queued'[Count + 1] = e
    BY <1>2, <2>1, <2>2, <2>3
  <2>5. Append(Queued, e) = [k \in 1..Count + 1 |-> IF k \in 1..Count THEN Queued[k] ELSE e]
    BY <1>2, <2>1
  <2>6. \A k \in 1..Count + 1 : Queued'[k] = IF k \in 1..Count THEN Queued[k] ELSE e
    BY <1>2, <2>4
  <2>7. Queued' = [k \in 1..Count + 1 |-> Queued'[k]]
    BY <2>1
  <2> HIDE DEF Queued
  <2> QED BY <2>5, <2>6, <2>7
<1>8. UNCHANGED InHand
  <2>1. pc = "read" => Settled'[cur] = Settled[cur]
    BY <1>1, <1>6 DEF TypeOK, ServiceInv, QueueFull
  <2> QED BY <1>1, <2>1 DEF InHand, Settled
<1>9. Len(Queued) < QueueSize
  BY <1>2 DEF Queued
<1> QED BY <1>7, <1>8, <1>9 DEF Fifo!Accept

(* Writing an entry changes nothing for the queue's clients. *)
LEMMA WriteStutters ==
  ASSUME IInv, NEW l \in Level, Write(l)
  PROVE  UNCHANGED <<Queued, InHand, err>>
<1>1. /\ TypeOK /\ ReservedInv /\ Putting(l)
      /\ entries' = [entries EXCEPT ![putIndex[l]] = putEvent[l]]
      /\ putIndex' = [putIndex EXCEPT ![l] = NoIndex]
      /\ putEvent' = [putEvent EXCEPT ![l] = NoEvent]
      /\ UNCHANGED <<start, end, err, pc, cur, given>>
  BY DEF IInv, Write, mainVars
<1>2. ASSUME NEW i \in Index
      PROVE  Settled'[i] = Settled[i]
  <2>1. CASE i = putIndex[l]
    <3>1. Settled[i] = putEvent[l]
      BY <1>1, <2>1, SettledReserved
    <3>2. \A k \in Level : putIndex'[k] # i
      BY <1>1, <2>1, NoIndexOutside DEF TypeOK, ReservedInv
    <3>3. Settled'[i] = entries'[i]
      BY <3>2 DEF Settled
    <3> QED BY <1>1, <2>1, <3>1, <3>3 DEF TypeOK
  <2>2. CASE i # putIndex[l]
    <3>1. \A k \in Level : /\ putIndex'[k] = i <=> putIndex[k] = i
                           /\ putIndex[k] = i => putEvent'[k] = putEvent[k]
      BY <1>1, <2>2, NoIndexOutside DEF TypeOK
    <3>2. entries'[i] = entries[i]
      BY <1>1, <2>2 DEF TypeOK
    <3>3. CASE \E k \in Level : putIndex[k] = i
      <4>1. PICK k \in Level : putIndex[k] = i
        BY <3>3
      <4>2. Putting(k)
        BY <4>1, NoIndexOutside DEF Putting
      <4>3. Settled[i] = putEvent[k]
        BY <1>1, <4>1, <4>2, SettledReserved
      <4>4. \A j \in Level : putIndex'[j] = i => j = k
        BY <1>1, <3>1, <4>1, <4>2 DEF ReservedInv
      <4>5. (CHOOSE j \in Level : putIndex'[j] = i) = k
        BY <3>1, <4>1, <4>4
      <4>6. Settled'[i] = putEvent'[k]
        BY <3>1, <4>1, <4>5 DEF Settled
      <4> QED BY <3>1, <4>1, <4>3, <4>6
    <3>4. CASE ~\E k \in Level : putIndex[k] = i
      BY <3>1, <3>2, <3>4 DEF Settled
    <3> QED BY <3>3, <3>4
  <2> QED BY <2>1, <2>2
<1>3. Count' = Count /\ \A k : NthIndex(k)' = NthIndex(k)
  BY <1>1 DEF Count, NthIndex
<1>4. UNCHANGED Queued
  <2>1. ASSUME NEW k \in 1..Count
        PROVE  Settled'[NthIndex(k - 1)'] = Settled[NthIndex(k - 1)]
    <3>1. NthIndex(k - 1) \in Index
      BY <1>1, NthFacts
    <3> QED BY <1>2, <1>3, <3>1 DEF Settled
  <2> QED BY <1>3, <2>1 DEF Queued
<1>5. UNCHANGED InHand
  <2>1. Settled'[cur] = Settled[cur]
    BY <1>1, <1>2 DEF TypeOK, Settled
  <2> QED BY <1>1, <2>1 DEF InHand
<1> QED BY <1>1, <1>4, <1>5

(* Getting an event takes the first one. *)
LEMMA GetServes ==
  ASSUME IInv, Get
  PROVE  Fifo!Serve
<1>1. /\ TypeOK /\ pc = "get" /\ ~QueueEmpty /\ cur' = start /\ start' = next_index(start)
      /\ pc' = "read" /\ UNCHANGED <<entries, end, putIndex, putEvent, err>>
      /\ \A l \in Level : ~Putting(l)
  BY DEF IInv, Get, MainRunning, putVars
<1>2. Count' = Count - 1 /\ Count > 0 /\ Count \in Nat
  BY <1>1, SchedAssumption DEF Count, TypeOK, QueueEmpty, next_index, Index
<1>3. \A k \in 0..Count - 2 : NthIndex(k)' = NthIndex(k + 1)
  BY <1>1, <1>2, SchedAssumption DEF Count, NthIndex, TypeOK, next_index, Index
<1>4. Settled' = Settled
  BY <1>1 DEF Settled
<1>5. Queued # <<>> /\ Head(Queued) = Settled[start]
  <2>1. Len(Queued) = Count /\ Queued[1] = Settled[NthIndex(0)]
    BY <1>2 DEF Queued
  <2> QED BY <1>1, <1>2, <2>1, NthFacts
<1>6. Queued' = Tail(Queued)
  <2>1. /\ Queued = [k \in 1..Count |-> Settled[NthIndex(k - 1)]]
        /\ Queued' = [k \in 1..Count - 1 |-> Settled'[NthIndex(k - 1)']]
    BY <1>2 DEF Queued
  <2>2. Tail(Queued) = [k \in 1..Count - 1 |-> Queued[k + 1]]
    BY <1>2, <2>1
  <2>3. ASSUME NEW k \in 1..Count - 1
        PROVE  Settled'[NthIndex(k - 1)'] = Queued[k + 1]
    <3>1. k - 1 \in 0..Count - 2 /\ (k - 1) + 1 = (k + 1) - 1
      BY <1>2
    <3>2. NthIndex(k - 1)' = NthIndex((k + 1) - 1)
      BY <1>3, <3>1
    <3>3. Queued[k + 1] = Settled[NthIndex((k + 1) - 1)]
      BY <1>2, <2>1
    <3> QED BY <1>4, <3>2, <3>3 DEF Settled
  <2> QED BY <2>1, <2>2, <2>3
<1>7. InHand = <<>> /\ InHand' = <<Settled[start]>>
  BY <1>1, <1>4 DEF InHand, Settled
<1> QED BY <1>1, <1>5, <1>6, <1>7 DEF Fifo!Serve

(* The ring with its nested puts implements a bounded FIFO: each event that was
   accepted is handed to the main loop once, in the order of the reservations, and
   one is refused only when it is too large or the queue is full. *)
THEOREM FifoImplemented == Spec => ImplementsFifo
<1>1. Init => Fifo!Init
  <2> SUFFICES ASSUME Init PROVE Fifo!Init
      OBVIOUS
  <2>1. Count = 0 /\ InHand = <<>> /\ err = "NRF_SUCCESS"
    BY DEF Init, Count, InHand
  <2> QED BY <2>1 DEF Fifo!Init, Queued
<1>2. IInv /\ [Next]_vars => [Fifo!Next]_Fifo!vars
  <2> SUFFICES ASSUME IInv, [Next]_vars PROVE [Fifo!Next]_Fifo!vars
      OBVIOUS
  <2> TypeOK
      BY DEF IInv
  <2>1. ASSUME UNCHANGED <<entries, start, end, putIndex, putEvent>>
        PROVE  Queued' = Queued /\ Settled' = Settled
    BY <2>1 DEF Queued, Count, NthIndex, Settled
  <2>2. ASSUME NEW l \in Level, NEW e \in Event, Reserve(l, e) PROVE Fifo!Next
    <3>1. CASE e \in Oversized
      <4>1. UNCHANGED <<entries, start, end, putIndex, putEvent, pc, cur, given>>
            /\ err' = "NRF_ERROR_INVALID_LENGTH"
        BY <2>2, <3>1 DEF Reserve, mainVars
      <4>2. UNCHANGED <<Queued, InHand>>
        BY <2>1, <4>1 DEF InHand
      <4> QED BY <3>1, <4>1, <4>2 DEF Fifo!Next, Fifo!RefuseOversized
    <3>2. CASE e \notin Oversized /\ QueueFull
      <4>1. UNCHANGED <<entries, start, end, putIndex, putEvent, pc, cur, given>>
            /\ err' = "NRF_ERROR_NO_MEM"
        BY <2>2, <3>2 DEF Reserve, mainVars
      <4>2. UNCHANGED <<Queued, InHand>>
        BY <2>1, <4>1 DEF InHand
      <4>3. Len(Queued) = QueueSize
        BY <3>2, NthFacts, SchedAssumption DEF Queued
      <4> QED BY <4>1, <4>2, <4>3 DEF Fifo!Next, Fifo!RefuseFull
    <3>3. CASE e \notin Oversized /\ ~QueueFull
      BY <2>2, <3>3, ReserveAccepts DEF Reserve, Fifo!Next
    <3> QED BY <3>1, <3>2, <3>3
  <2>3. ASSUME NEW l \in Level, Write(l) PROVE UNCHANGED Fifo!vars
    BY <2>3, WriteStutters DEF Fifo!vars
  <2>4. CASE Pause \/ Resume \/ Check \/ GetNothing \/ UNCHANGED vars
    <3>1. /\ UNCHANGED <<entries, start, end, putIndex, putEvent, err, cur, given>>
          /\ UNCHANGED pc \/ (pc \in {"check", "get"} /\ pc' \in {"check", "get"})
      BY <2>4 DEF Pause, Resume, Check, GetNothing, vars, putVars, mainVars
    <3>2. UNCHANGED InHand
      BY <2>1, <3>1 DEF InHand
    <3> QED BY <2>1, <3>1, <3>2 DEF Fifo!vars
  <2>5. CASE Get
    BY <2>5, GetServes DEF Fifo!Next
  <2>6. CASE Read
    <3>1. /\ UNCHANGED <<entries, start, end, putIndex, putEvent, err, cur>>
          /\ pc = "read" /\ pc' = "run" /\ given' = entries[cur]
          /\ \A l \in Level : ~Putting(l)
      BY <2>6 DEF Read, putVars, MainRunning
    <3>2. Settled[cur] = entries[cur]
      BY <3>1, SettledFree, NoIndexOutside DEF TypeOK, Putting
    <3>3. UNCHANGED InHand
      BY <3>1, <3>2 DEF InHand
    <3> QED BY <2>1, <3>1, <3>3 DEF Fifo!vars
  <2>7. CASE Return
    <3>1. /\ UNCHANGED <<entries, start, end, putIndex, putEvent, err>>
          /\ pc = "run" /\ pc' = "check"
      BY <2>7 DEF Return, putVars
    <3>2. InHand # <<>> /\ InHand' = <<>>
      BY <3>1 DEF InHand
    <3> QED BY <2>1, <3>1, <3>2 DEF Fifo!Next, Fifo!Finish
  <2> QED BY <2>2, <2>3, <2>4, <2>5, <2>6, <2>7 DEF Next, MainStep
<1> QED BY <1>1, <1>2, SchedInvariant, PTL DEF Spec, ImplementsFifo, Fifo!Spec
=============================================================================
