---------------------------- MODULE AppScheduler ----------------------------
(***************************************************************************)
(* app_scheduler_serconn.c: the event queue between interrupt handlers and *)
(* the main loop, with the pause counter the serialization code uses to    *)
(* hold SoftDevice events back.                                            *)
(*                                                                         *)
(* Contexts are interrupt priority levels.  Level 0 is the main loop; code *)
(* of a higher level preempts code of a lower one and runs to completion   *)
(* before the lower one goes on.  app_sched_event_put may be called at any *)
(* level.  It reserves an entry in a critical region, and writes the entry *)
(* after leaving it, so that a put can be preempted between the two.  Only *)
(* the main loop takes events out; it advances m_queue_start_index before  *)
(* it reads the entry, and the handler is given a pointer INTO the entry,  *)
(* which therefore stays in use until the handler returns.                 *)
(***************************************************************************)
EXTENDS Integers, Sequences

CONSTANTS
  QueueSize,   (* m_queue_size: the number of events that can wait         *)
  MaxLevel,    (* the highest interrupt priority level that puts events    *)
  Event,       (* events: a handler with its data                          *)
  Oversized,   (* the events whose data exceeds m_queue_event_size         *)
  PauseMax,    (* the value the pause counter saturates at (UINT32_MAX)    *)
  NoEvent      (* contents of an entry that was never written              *)

(* m_queue_start_index and m_queue_end_index are uint8_t: up to 255 entries
   can be indexed without wrapping (SCHED_QUEUE_SIZE is 20). *)
ASSUME SchedAssumption ==
  /\ QueueSize \in 1..255
  /\ MaxLevel \in Nat
  /\ Oversized \subseteq Event
  /\ PauseMax \in Nat \ {0}
  /\ NoEvent \notin Event

Level == 0..MaxLevel
Index == 0..QueueSize       \* one entry more than QueueSize
NoIndex == 65535            \* event_index = 0xFFFF: nothing reserved

VARIABLES
  entries,    (* m_queue_event_headers and m_queue_event_data              *)
  start,      (* m_queue_start_index                                       *)
  end,        (* m_queue_end_index                                         *)
  paused,     (* m_scheduler_paused_counter                                *)
  putIndex,   (* event_index of the put running at each level              *)
  putEvent,   (* the event that put was called with                        *)
  err,        (* err_code of the last put that was decided                 *)
  pc,         (* where the main loop is in app_sched_execute               *)
  cur,        (* event_index of app_sched_event_get                        *)
  given       (* the event app_sched_execute calls the handler for         *)

vars == <<entries, start, end, paused, putIndex, putEvent, err, pc, cur, given>>
putVars == <<putIndex, putEvent, err>>
mainVars == <<pc, cur, given>>

TypeOK ==
  /\ entries \in [Index -> Event \cup {NoEvent}]
  /\ start \in Index /\ end \in Index
  /\ paused \in 0..PauseMax
  /\ putIndex \in [Level -> Index \cup {NoIndex}]
  /\ putEvent \in [Level -> Event \cup {NoEvent}]
  /\ err \in {"NRF_SUCCESS", "NRF_ERROR_NO_MEM", "NRF_ERROR_INVALID_LENGTH"}
  /\ pc \in {"check", "get", "read", "run"}
  /\ cur \in Index
  /\ given \in Event \cup {NoEvent}

Init ==
  /\ entries = [i \in Index |-> NoEvent]
  /\ start = 0 /\ end = 0
  /\ paused = 0
  /\ putIndex = [l \in Level |-> NoIndex]
  /\ putEvent = [l \in Level |-> NoEvent]
  /\ err = "NRF_SUCCESS"
  /\ pc = "check" /\ cur = 0 /\ given = NoEvent

(* Mutants: the wrap-around is one entry late; the full test is left out; the
   test for the empty queue overlooks the last event. *)
next_indexLate(i) == IF i <= QueueSize THEN i + 1 ELSE 0
QueueFullNever == FALSE

next_index(i) == IF i < QueueSize THEN i + 1 ELSE 0
QueueFull == next_index(end) = start

QueueEmptyEarly == end \in {start, next_index(start)}
QueueEmpty == end = start

(* A put is running at level l, preempted or not. *)
Putting(l) == putIndex[l] # NoIndex

(* No code of a level above l is running, so level l executes. *)
Running(l) == \A k \in Level : k > l => ~Putting(k)

MainRunning == \A l \in Level : ~Putting(l)
-----------------------------------------------------------------------------
(* app_sched_event_put up to the end of its critical region.  The main loop
   calls it between two calls of app_sched_execute or from a handler. *)
Reserve(l, e) ==
  /\ Running(l) /\ ~Putting(l)
  /\ l = 0 => pc \in {"check", "run"}
  /\ \/ /\ e \in Oversized
        /\ err' = "NRF_ERROR_INVALID_LENGTH"
        /\ UNCHANGED <<end, putIndex, putEvent>>
     \/ /\ e \notin Oversized /\ QueueFull
        /\ err' = "NRF_ERROR_NO_MEM"
        /\ UNCHANGED <<end, putIndex, putEvent>>
     \/ /\ e \notin Oversized /\ ~QueueFull
        /\ putIndex' = [putIndex EXCEPT ![l] = end]
        /\ putEvent' = [putEvent EXCEPT ![l] = e]
        /\ end' = next_index(end)
        /\ err' = "NRF_SUCCESS"
  /\ UNCHANGED <<entries, start, paused, mainVars>>

(* The rest of app_sched_event_put: the reserved entry is written. *)
Write(l) ==
  /\ Running(l) /\ Putting(l)
  /\ entries' = [entries EXCEPT ![putIndex[l]] = putEvent[l]]
  /\ putIndex' = [putIndex EXCEPT ![l] = NoIndex]
  /\ putEvent' = [putEvent EXCEPT ![l] = NoEvent]
  /\ UNCHANGED <<start, end, paused, err, mainVars>>

(* app_sched_pause and app_sched_resume, called at any level. *)
Pause ==
  /\ paused' = IF paused < PauseMax THEN paused + 1 ELSE paused
  /\ UNCHANGED <<entries, start, end, putVars, mainVars>>

Resume ==
  /\ paused' = IF paused > 0 THEN paused - 1 ELSE paused
  /\ UNCHANGED <<entries, start, end, putVars, mainVars>>

(* The loop condition of app_sched_execute, its first half. *)
Check ==
  /\ MainRunning /\ pc = "check" /\ paused = 0
  /\ pc' = "get"
  /\ UNCHANGED <<entries, start, end, paused, putVars, cur, given>>

(* app_sched_event_get finds the queue empty and app_sched_execute returns
   to the main loop, which calls it again. *)
GetNothing ==
  /\ MainRunning /\ pc = "get" /\ QueueEmpty
  /\ pc' = "check"
  /\ UNCHANGED <<entries, start, end, paused, putVars, cur, given>>

(* app_sched_event_get takes the entry out of the queue ... *)
Get ==
  /\ MainRunning /\ pc = "get" /\ ~QueueEmpty
  /\ cur' = start
  /\ start' = next_index(start)
  /\ pc' = "read"
  /\ UNCHANGED <<entries, end, paused, putVars, given>>

(* Mutant: the index is advanced on reading the entry's header, so the last
   entry is looked up after the increment. *)
ReadNext ==
  /\ MainRunning /\ pc = "read"
  /\ given' = entries[next_index(cur)]
  /\ pc' = "run"
  /\ UNCHANGED <<entries, start, end, paused, putVars, cur>>

(* ... and then reads it; the handler is called. *)
Read ==
  /\ MainRunning /\ pc = "read"
  /\ given' = entries[cur]
  /\ pc' = "run"
  /\ UNCHANGED <<entries, start, end, paused, putVars, cur>>

(* The handler returns. *)
Return ==
  /\ MainRunning /\ pc = "run"
  /\ pc' = "check"
  /\ UNCHANGED <<entries, start, end, paused, putVars, cur, given>>

MainStep == Check \/ GetNothing \/ Get \/ Read \/ Return

Next ==
  \/ \E l \in Level, e \in Event : Reserve(l, e)
  \/ \E l \in Level : Write(l)
  \/ Pause
  \/ Resume
  \/ MainStep

(* Interrupt handlers terminate, the main loop is not starved by interrupts,
   and the handlers it calls return. *)
Fairness ==
  /\ \A l \in Level : WF_vars(Write(l))
  /\ SF_vars(Check) /\ SF_vars(Get) /\ SF_vars(Read) /\ SF_vars(Return)

Spec == Init /\ [][Next]_vars
FairSpec == Spec /\ Fairness
-----------------------------------------------------------------------------
(* Entry i is waiting in the queue, written or only reserved. *)
Waiting(i) == IF start <= end THEN start <= i /\ i < end
                              ELSE start <= i \/ i < end

(* The entry the main loop took out of the queue and still uses. *)
InService(i) == pc \in {"read", "run"} /\ i = cur

(* A handler works on a pointer into the queue.  While it does, the entry
   holds the event the handler was called for: no put, however nested, may
   be given that entry, although the queue counts it as free already.
   (app_sched_event_get advances m_queue_start_index first; the ring has
   one entry more than it has capacity.) *)
HandlerSeesItsEvent ==
  /\ pc = "run" => entries[cur] = given /\ given \in Event
  /\ \A l \in Level : Putting(l) => ~InService(putIndex[l])

(* The number of events that wait, reserved entries included. *)
Count == IF start <= end THEN end - start ELSE end - start + QueueSize + 1

(* The k-th entry from the start of the queue, k = 0 the first. *)
NthIndex(k) == IF start + k <= QueueSize THEN start + k
                                         ELSE start + k - (QueueSize + 1)

(* What each entry will hold once the put that reserved it has written it. *)
Settled == [i \in Index |->
  IF \E l \in Level : putIndex[l] = i
  THEN putEvent[CHOOSE l \in Level : putIndex[l] = i]
  ELSE entries[i]]

Queued == [k \in 1..Count |-> Settled[NthIndex(k - 1)]]
InHand == IF pc = "read" THEN <<Settled[cur]>>
          ELSE IF pc = "run" THEN <<given>> ELSE <<>>

(* The scheduler is a bounded FIFO: events are ordered by their reservation,
   whatever the order in which nested puts write the entries. *)
Fifo == INSTANCE BoundedFifo WITH
  Capacity <- QueueSize, queue <- Queued, serving <- InHand, verdict <- err

ImplementsFifo == Fifo!Spec

(* Unless the scheduler stays paused, or is paused again and again, the
   event at the head of the queue is taken by the main loop. *)
HeadIsServed ==
  <>[](paused = 0) =>
    \A i \in Index : (start = i /\ start # end) ~> (start # i)
=============================================================================
