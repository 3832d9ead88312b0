------------------------------ MODULE Scheduler ------------------------------
(***************************************************************************)
(* The scheduler of src/src/scheduler.cpp: a thread that hands each event  *)
(* to the dispatcher when its time has come, unless stopEvent() was called *)
(* before.                                                                 *)
(*                                                                         *)
(* A critical section on m_eventLock is one action; the notify_one() and   *)
(* the return of addEvent(), which follow it without the lock, are another.*)
(* The dispatcher is seen from here as a queue and the thread that serves  *)
(* it: it runs and frees the events it is given, and its tasks are the     *)
(* callers of stopEvent(), stop() and shutdown() and the most frequent     *)
(* ones of addEvent().                                                     *)
(***************************************************************************)
EXTENDS Naturals, Sequences, FiniteSets

CONSTANTS Events,      \* SchedulerTask objects, each given to addEvent() once
          Callers,     \* threads that call addEvent()
          Dispatcher,  \* the one of them that runs the events
          Delays,      \* what is left of an event's delay when it is added
          MaxTime,     \* bound: the clock stops here, and no event is due later
          MaxId,       \* 0xFFFFFFFF in the code
          NoEvent      \* the NULL pointer

ASSUME SchedulerAssumption ==
  /\ NoEvent \notin Events
  /\ Dispatcher \in Callers
  /\ Delays \subseteq Nat
  /\ MaxTime \in Nat
  /\ MaxId \in Nat \ {0}

VARIABLES now,          \* the clock
          eventList,    \* m_eventList
          eventIds,     \* m_eventIds
          lastEvent,    \* m_lastEvent
          threadState,  \* m_threadState
          cycle,        \* getCycle() of each event
          id,           \* m_eventId of each event
          pc,           \* where the scheduler thread is
          until,        \* what its timed_wait() waits for
          timed,        \* did it last wait with a timeout
          ret,          \* its local variable ret
          task,         \* its local variable task
          run,          \* its local variable run
          adding,       \* the event each caller is adding, in addEvent()
          signal,       \* the local variable signal of addEvent(), per caller
          accepts,      \* does the dispatcher take tasks
          handed,       \* events in the dispatcher's list
          fate          \* what became of each event

sched == <<pc, until, timed, ret, task, run>>
calls == <<adding, signal>>
vars == <<now, eventList, eventIds, lastEvent, threadState, cycle, id, sched,
          calls, accepts, handed, fate>>

States == {"RUNNING", "CLOSING", "TERMINATED"}
PCs    == {"check", "lock", "waiting", "awake", "add", "crashed", "exited"}
Fates  == {"new", "pending", "stopped", "taken", "handed",
           "executed", "deleted", "purged", "refused", "leaked"}
Freed  == {"executed", "deleted"}

TypeOK ==
  /\ now \in 0 .. MaxTime
  /\ eventList \subseteq Events
  /\ eventIds \subseteq 1 .. MaxId
  /\ lastEvent \in 0 .. MaxId
  /\ threadState \in States
  /\ cycle \in [Events -> 0 .. MaxTime]
  /\ id \in [Events -> 0 .. MaxId]
  /\ pc \in PCs
  /\ until \in 0 .. MaxTime
  /\ timed \in BOOLEAN /\ ret \in BOOLEAN /\ run \in BOOLEAN
  /\ task \in Events \cup {NoEvent}
  /\ adding \in [Callers -> Events \cup {NoEvent}]
  /\ signal \in [Callers -> BOOLEAN]
  /\ accepts \in BOOLEAN
  /\ handed \in Seq(Events)
  /\ fate \in [Events -> Fates]

Init ==
  /\ now = 0
  /\ eventList = {}
  /\ eventIds = {}
  /\ lastEvent = 0
  /\ threadState = "RUNNING"
  /\ cycle = [e \in Events |-> 0]
  /\ id = [e \in Events |-> 0]
  /\ pc = "check" /\ until = 0 /\ timed = FALSE /\ ret = FALSE
  /\ task = NoEvent /\ run = FALSE
  /\ adding = [c \in Callers |-> NoEvent]
  /\ signal = [c \in Callers |-> FALSE]
  /\ accepts = TRUE
  /\ handed = <<>>
  /\ fate = [e \in Events |-> "new"]

Tick ==
  /\ now < MaxTime
  /\ now' = now + 1
  /\ UNCHANGED <<eventList, eventIds, lastEvent, threadState, cycle, id, sched,
                 calls, accepts, handed, fate>>

-----------------------------------------------------------------------------
(* addEvent()                                                              *)

\* After 0xFFFFFFFF comes 1; 0 is never an id.
NextId == IF lastEvent >= MaxId THEN 1 ELSE lastEvent + 1

\* Variant: only the first event of a list is notified.
BecomesOnly(c) == eventList = {}

\* The priority queue moves a new event to the top only past events that are
\* due strictly later.
BecomesTop(c) == \A f \in eventList : c < cycle[f]

\* The dispatcher thread calls from the body of a task, and between stopping the
\* scheduler and stopping the dispatcher calls nothing.
MayCall(c) ==
  /\ adding[c] = NoEvent
  /\ c = Dispatcher => accepts = (threadState = "RUNNING")

\* The critical section.  The last conjunct bounds the instance: the counter has
\* not come round to an id that is still in use.
AddEvent(c, e, d) ==
  /\ MayCall(c)
  /\ fate[e] = "new"
  /\ now + d <= MaxTime
  /\ adding' = [adding EXCEPT ![c] = e]
  /\ cycle' = [cycle EXCEPT ![e] = now + d]
  /\ IF threadState = "RUNNING"
     THEN /\ lastEvent' = NextId
          /\ id' = [id EXCEPT ![e] = NextId]
          /\ eventIds' = eventIds \cup {NextId}
          /\ eventList' = eventList \cup {e}
          /\ signal' = [signal EXCEPT ![c] = BecomesTop(now + d)]
          /\ fate' = [fate EXCEPT ![e] = "pending"]
     ELSE /\ fate' = [fate EXCEPT ![e] = "refused"]
          /\ UNCHANGED <<lastEvent, id, eventIds, eventList, signal>>
  /\ UNCHANGED <<now, threadState, sched, accepts, handed>>
  /\ \A f \in eventList \cup ({task} \ {NoEvent}) : id[f] # NextId

\* Variant: notify_one() forgotten.
ReturnSilently(c) ==
  /\ adding[c] # NoEvent
  /\ adding' = [adding EXCEPT ![c] = NoEvent]
  /\ signal' = [signal EXCEPT ![c] = FALSE]
  /\ UNCHANGED <<now, eventList, eventIds, lastEvent, threadState, cycle, id,
                 sched, accepts, handed, fate>>

\* notify_one() and return task->getEventId(), without the lock.
Return(c) ==
  /\ adding[c] # NoEvent
  /\ adding' = [adding EXCEPT ![c] = NoEvent]
  /\ signal' = [signal EXCEPT ![c] = FALSE]
  /\ IF signal[c] /\ pc = "waiting"
     THEN pc' = "awake" /\ ret' = timed
     ELSE UNCHANGED <<pc, ret>>
  /\ UNCHANGED <<now, eventList, eventIds, lastEvent, threadState, cycle, id,
                 until, timed, task, run, accepts, handed, fate>>

-----------------------------------------------------------------------------
(* The calls made by tasks                                                 *)

\* stopEvent() of any id, kept or out of date; no change when it is not active.
StopEvent(i) ==
  /\ MayCall(Dispatcher)
  /\ i \in eventIds
  /\ eventIds' = eventIds \ {i}
  /\ fate' = [e \in Events |-> IF fate[e] = "pending" /\ id[e] = i
                              THEN "stopped" ELSE fate[e]]
  /\ UNCHANGED <<now, eventList, lastEvent, threadState, cycle, id, sched,
                 calls, accepts, handed>>

\* setGameState(GAME_STATE_SHUTDOWN) stops the scheduler ...
Stop ==
  /\ MayCall(Dispatcher)
  /\ threadState = "RUNNING"
  /\ threadState' = "CLOSING"
  /\ UNCHANGED <<now, eventList, eventIds, lastEvent, cycle, id, sched, calls,
                 accepts, handed, fate>>

\* ... and Game::shutdown shuts it down, which notifies nobody and frees nothing.
Shutdown ==
  /\ MayCall(Dispatcher)
  /\ threadState # "TERMINATED"
  /\ threadState' = "TERMINATED"
  /\ eventList' = {}
  /\ eventIds' = {}
  /\ fate' = [e \in Events |-> IF e \in eventList THEN "purged" ELSE fate[e]]
  /\ UNCHANGED <<now, lastEvent, cycle, id, sched, calls, accepts, handed>>

\* Either goes on to the same call of the dispatcher.
StopDispatcher ==
  /\ accepts
  /\ threadState # "RUNNING"
  /\ accepts' = FALSE
  /\ UNCHANGED <<now, eventList, eventIds, lastEvent, threadState, cycle, id,
                 sched, calls, handed, fate>>

\* The dispatcher runs the event and deletes it, in no caller's addEvent().
RunHanded ==
  /\ MayCall(Dispatcher)
  /\ handed # <<>>
  /\ handed' = Tail(handed)
  /\ fate' = [fate EXCEPT ![Head(handed)] = "executed"]
  /\ UNCHANGED <<now, eventList, eventIds, lastEvent, threadState, cycle, id,
                 sched, calls, accepts>>

-----------------------------------------------------------------------------
(* schedulerThread()                                                       *)

\* Each turn of the loop has fresh local variables.
Check ==
  /\ pc = "check"
  /\ pc' = IF threadState = "TERMINATED" THEN "exited" ELSE "lock"
  /\ task' = NoEvent /\ run' = FALSE /\ ret' = FALSE
  /\ timed' = FALSE /\ until' = 0
  /\ UNCHANGED <<now, eventList, eventIds, lastEvent, threadState, cycle, id,
                 calls, accepts, handed, fate>>

\* An empty list: wait() until notified, and ret stays false.
WaitForSignal ==
  /\ pc = "lock"
  /\ eventList = {}
  /\ pc' = "waiting"
  /\ UNCHANGED <<now, eventList, eventIds, lastEvent, threadState, cycle, id,
                 until, timed, ret, task, run, calls, accepts, handed, fate>>

\* Variant: lessTask the other way round.
IsBottom(e) == e \in eventList /\ \A f \in eventList : cycle[e] >= cycle[f]

IsTop(e) == e \in eventList /\ \A f \in eventList : cycle[e] <= cycle[f]

\* Else timed_wait() until the first event is due.
WaitForTimeout(e) ==
  /\ pc = "lock"
  /\ IsTop(e)
  /\ pc' = "waiting"
  /\ timed' = TRUE
  /\ until' = cycle[e]
  /\ UNCHANGED <<now, eventList, eventIds, lastEvent, threadState, cycle, id,
                 ret, task, run, calls, accepts, handed, fate>>

Timeout ==
  /\ pc = "waiting"
  /\ timed
  /\ now >= until
  /\ pc' = "awake"
  /\ ret' = FALSE
  /\ UNCHANGED <<now, eventList, eventIds, lastEvent, threadState, cycle, id,
                 until, timed, task, run, calls, accepts, handed, fate>>

\* Either wait may return with nobody having notified; one that returns past its
\* deadline has timed out.
SpuriousWakeup ==
  /\ pc = "waiting"
  /\ timed => now < until
  /\ pc' = "awake"
  /\ ret' = timed
  /\ UNCHANGED <<now, eventList, eventIds, lastEvent, threadState, cycle, id,
                 until, timed, task, run, calls, accepts, handed, fate>>

\* Notified from a timed wait, or told to end: the loop begins again.
Retry ==
  /\ pc = "awake"
  /\ ret \/ threadState = "TERMINATED"
  /\ pc' = "check"
  /\ UNCHANGED <<now, eventList, eventIds, lastEvent, threadState, cycle, id,
                 until, timed, ret, task, run, calls, accepts, handed, fate>>

\* Variant: m_eventIds not consulted.
TakeAnyway(e) ==
  /\ pc = "awake"
  /\ ~ret /\ threadState # "TERMINATED"
  /\ IsTop(e)
  /\ task' = e
  /\ eventList' = eventList \ {e}
  /\ run' = TRUE
  /\ eventIds' = eventIds \ {id[e]}
  /\ fate' = [fate EXCEPT ![e] = "taken"]
  /\ pc' = "add"
  /\ UNCHANGED <<now, lastEvent, threadState, cycle, id, until, timed, ret,
                 calls, accepts, handed>>

\* Otherwise the first event is taken.  Among events due at the same time the
\* heap decides.
Take(e) ==
  /\ pc = "awake"
  /\ ~ret /\ threadState # "TERMINATED"
  /\ IsTop(e)
  /\ task' = e
  /\ eventList' = eventList \ {e}
  /\ run' = (id[e] \in eventIds)
  /\ eventIds' = eventIds \ {id[e]}
  /\ fate' = [fate EXCEPT ![e] = IF run' THEN "taken" ELSE "stopped"]
  /\ pc' = "add"
  /\ UNCHANGED <<now, lastEvent, threadState, cycle, id, until, timed, ret,
                 calls, accepts, handed>>

\* top() and pop() of an empty priority_queue: undefined.
TakeNothing ==
  /\ pc = "awake"
  /\ ~ret /\ threadState # "TERMINATED"
  /\ eventList = {}
  /\ pc' = "crashed"
  /\ UNCHANGED <<now, eventList, eventIds, lastEvent, threadState, cycle, id,
                 until, timed, ret, task, run, calls, accepts, handed, fate>>

\* Without the lock: hand the event to the dispatcher, or delete a stopped one.
Add ==
  /\ pc = "add"
  /\ IF run /\ accepts
     THEN /\ handed' = Append(handed, task)
          /\ fate' = [fate EXCEPT ![task] = "handed"]
     ELSE /\ fate' = [fate EXCEPT ![task] = IF run THEN "leaked" ELSE "deleted"]
          /\ UNCHANGED handed
  /\ task' = NoEvent
  /\ pc' = "check"
  /\ UNCHANGED <<now, eventList, eventIds, lastEvent, threadState, cycle, id,
                 until, timed, ret, run, calls, accepts>>

SchedulerThread ==
  \/ Check \/ WaitForSignal \/ Timeout \/ Retry \/ TakeNothing \/ Add
  \/ \E e \in Events : WaitForTimeout(e) \/ Take(e)

\* What happens by itself when no wait ends without a reason.
NextNotified ==
  \/ Tick
  \/ \E c \in Callers, e \in Events, d \in Delays : AddEvent(c, e, d)
  \/ \E c \in Callers : Return(c)
  \/ \E i \in 1 .. MaxId : StopEvent(i)
  \/ Stop \/ Shutdown \/ StopDispatcher \/ RunHanded
  \/ SchedulerThread

Next == NextNotified \/ SpuriousWakeup

\* Time passes, and every thread that can run does.
Fairness ==
  /\ WF_vars(Tick)
  /\ WF_vars(SchedulerThread)
  /\ \A c \in Callers : WF_vars(Return(c))
  /\ WF_vars(StopDispatcher)
  /\ WF_vars(RunHanded)

Spec == Init /\ [][Next]_vars /\ Fairness

-----------------------------------------------------------------------------
(* What makes the scheduler correct                                        *)

\* The thread never sleeps past an event: if it waits with no timeout, or until
\* after the first event is due, then a caller of addEvent() is about to notify
\* it.  addEvent() only notifies for an event that becomes the first.
NoOversleep ==
  pc = "waiting" =>
    \A e \in eventList : (timed /\ until <= cycle[e]) \/ \E c \in Callers : signal[c]

\* m_eventIds says which events of the list were not stopped, and stopEvent()
\* can only mean one event: the ids of pending events are distinct.
Pending == {e \in Events : fate[e] = "pending"}
IdsAgree ==
  /\ Pending \subseteq eventList
  /\ eventList \subseteq {e \in Events : fate[e] \in {"pending", "stopped"}}
  /\ eventIds = {id[e] : e \in Pending}
  /\ \A e, f \in eventList : id[e] = id[f] => e = f

\* An event leaves the list for one owner: the scheduler thread, which knows
\* whether it was stopped, then the dispatcher's list, which holds it once.
Owned ==
  /\ pc = "add" => /\ task \in Events \ eventList
                   /\ fate[task] = IF run THEN "taken" ELSE "stopped"
  /\ \A i \in 1 .. Len(handed) : fate[handed[i]] = "handed"
  /\ \A i, j \in 1 .. Len(handed) : handed[i] = handed[j] => i = j

\* The scheduler keeps its types, sleeps no longer than it may, and its ids and
\* its events agree.
SchedulerSound == TypeOK /\ NoOversleep /\ IdsAgree /\ Owned

\* An event that stopEvent() reported stopped is never run: it is deleted by the
\* scheduler thread, or swept away at shutdown.
StopHolds ==
  [][\A e \in Events :
       fate[e] = "stopped" => fate'[e] \in {"stopped", "deleted", "purged"}]_vars

\* After a timeout the event taken is due, although another may have come to the
\* front, or been stopped, since the wait began.
TimeoutMeansDue ==
  pc = "add" /\ timed => cycle[task] <= now

\* The dispatcher thread may read the id of the event it adds after it has left
\* the lock: only that thread frees events that ran.
IdStillThere ==
  adding[Dispatcher] # NoEvent => fate[adding[Dispatcher]] \notin Freed

\* What is taken is taken in time, and read while it is there.
TakesInTime == TimeoutMeansDue /\ IdStillThere

\* Every event accepted is run, stopped or lost to the shutdown, unless the
\* scheduler has taken an event off an empty list.
Handled ==
  \A e \in Events :
    fate[e] = "pending" ~>
      fate[e] \in {"executed", "stopped", "deleted", "purged", "leaked"} \/ pc = "crashed"

=============================================================================
