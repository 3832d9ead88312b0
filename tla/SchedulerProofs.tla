--------------------------- MODULE SchedulerProofs ---------------------------
(***************************************************************************)
(* What the scheduler guarantees for any number of events, callers, delays *)
(* and ids.                                                                *)
(***************************************************************************)
EXTENDS Scheduler, TLAPS

\* A caller that owes a notification is inside addEvent().
CallsAgree == \A c \in Callers : signal[c] => adding[c] # NoEvent

\* The strengthening: an event is where its fate says it is, and the ids of the
\* events in the list are distinct.
IInv == TypeOK /\ IdsAgree /\ Owned /\ CallsAgree

\* Events wait in the dispatcher's list as events.
LEMMA HandedAreEvents ==
  ASSUME TypeOK
  PROVE  /\ Len(handed) \in Nat
         /\ \A i \in 1 .. Len(handed) : handed[i] \in Events
BY DEF TypeOK

LEMMA InitIInv == Init => IInv
<1> SUFFICES ASSUME Init PROVE IInv
  OBVIOUS
<1>1. TypeOK
  <2>1. 0 \in 0 .. MaxTime /\ 0 \in 0 .. MaxId
    BY SchedulerAssumption
  <2>2. /\ cycle \in [Events -> 0 .. MaxTime] /\ id \in [Events -> 0 .. MaxId]
        /\ adding \in [Callers -> Events \cup {NoEvent}]
        /\ signal \in [Callers -> BOOLEAN]
        /\ fate \in [Events -> Fates]
    BY <2>1 DEF Init, Fates
  <2>3. handed \in Seq(Events)
    BY DEF Init
  <2>4. /\ now \in 0 .. MaxTime /\ lastEvent \in 0 .. MaxId /\ until \in 0 .. MaxTime
        /\ eventList \subseteq Events /\ eventIds \subseteq 1 .. MaxId
        /\ threadState \in States /\ pc \in PCs /\ task \in Events \cup {NoEvent}
    BY <2>1 DEF Init, States, PCs
  <2>5. timed \in BOOLEAN /\ ret \in BOOLEAN /\ run \in BOOLEAN /\ accepts \in BOOLEAN
    BY DEF Init
  <2>6. QED
    BY <2>2, <2>3, <2>4, <2>5 DEF TypeOK
<1>2. Pending = {}
  BY DEF Init, Pending
<1>3. IdsAgree
  BY <1>2 DEF Init, IdsAgree
<1>4. Owned /\ CallsAgree
  BY DEF Init, Owned, CallsAgree
<1>5. QED
  BY <1>1, <1>3, <1>4 DEF IInv

-----------------------------------------------------------------------------
(* Actions that leave the events where they are                            *)

\* The thread moves between its own program points.
LEMMA ThreadMoves ==
  ASSUME IInv,
         Check \/ WaitForSignal \/ (\E e \in Events : WaitForTimeout(e)) \/ Timeout
         \/ SpuriousWakeup \/ Retry \/ TakeNothing
  PROVE  IInv'
<1>1. pc' # "add"
  BY DEF Check, WaitForSignal, WaitForTimeout, Timeout, SpuriousWakeup, Retry,
     TakeNothing
<1>2. UNCHANGED <<now, eventList, eventIds, lastEvent, threadState, cycle, id,
                  adding, signal, accepts, handed, fate>>
  BY DEF Check, WaitForSignal, WaitForTimeout, Timeout, SpuriousWakeup, Retry,
     TakeNothing, calls
<1>3. TypeOK'
  <2> USE SchedulerAssumption DEF IInv, TypeOK, PCs
  <2>1. CASE Check
    <3>1. 0 \in 0 .. MaxTime
      OBVIOUS
    <3>2. /\ task' = NoEvent /\ run' = FALSE /\ ret' = FALSE
          /\ timed' = FALSE /\ until' = 0 /\ pc' \in PCs
      BY <2>1 DEF Check
    <3>3. QED
      BY <1>2, <3>1, <3>2
  <2>2. CASE WaitForSignal
    BY <2>2, <1>2 DEF WaitForSignal
  <2>3. CASE \E e \in Events : WaitForTimeout(e)
    BY <2>3, <1>2 DEF WaitForTimeout
  <2>4. CASE Timeout
    BY <2>4, <1>2 DEF Timeout
  <2>5. CASE SpuriousWakeup
    BY <2>5, <1>2 DEF SpuriousWakeup
  <2>6. CASE Retry
    BY <2>6, <1>2 DEF Retry
  <2>7. CASE TakeNothing
    BY <2>7, <1>2 DEF TakeNothing
  <2>8. QED
    BY <2>1, <2>2, <2>3, <2>4, <2>5, <2>6, <2>7
<1>4. QED
  BY <1>1, <1>2, <1>3 DEF IInv, IdsAgree, Owned, CallsAgree, Pending

\* Time and the two stops touch no event.
LEMMA NothingMoves ==
  ASSUME IInv, Tick \/ Stop \/ StopDispatcher
  PROVE  IInv'
<1>1. UNCHANGED <<eventList, eventIds, lastEvent, cycle, id, pc, until, timed,
                  ret, task, run, adding, signal, handed, fate>>
  BY DEF Tick, Stop, StopDispatcher, sched, calls
<1>2. now' \in 0 .. MaxTime
  BY SchedulerAssumption DEF IInv, TypeOK, Tick, Stop, StopDispatcher
<1>3. threadState' \in States
  BY DEF IInv, TypeOK, Tick, Stop, StopDispatcher, States
<1>4. accepts' \in BOOLEAN
  BY DEF IInv, TypeOK, Tick, Stop, StopDispatcher
<1>5. TypeOK'
  BY <1>1, <1>2, <1>3, <1>4 DEF IInv, TypeOK
<1>6. QED
  BY <1>1, <1>5 DEF IInv, IdsAgree, Owned, CallsAgree, Pending

\* The end of addEvent() concerns the caller and the sleeping thread.
LEMMA ReturnKeeps ==
  ASSUME IInv, NEW c \in Callers, Return(c)
  PROVE  IInv'
<1>1. UNCHANGED <<now, eventList, eventIds, lastEvent, threadState, cycle, id,
                  until, timed, task, run, accepts, handed, fate>>
  BY DEF Return
<1>2. /\ pc' \in PCs /\ ret' \in BOOLEAN
      /\ pc' = "add" => pc = "add"
  BY DEF IInv, TypeOK, Return, PCs
<1>3. /\ adding' \in [Callers -> Events \cup {NoEvent}]
      /\ signal' \in [Callers -> BOOLEAN]
      /\ \A b \in Callers : b # c => adding'[b] = adding[b] /\ signal'[b] = signal[b]
      /\ signal'[c] = FALSE
  BY DEF IInv, TypeOK, Return
<1>4. TypeOK'
  BY <1>1, <1>2, <1>3 DEF IInv, TypeOK
<1>5. CallsAgree'
  BY <1>3 DEF IInv, CallsAgree
<1>6. QED
  BY <1>1, <1>2, <1>4, <1>5 DEF IInv, IdsAgree, Owned, Pending

-----------------------------------------------------------------------------
(* Actions that move an event                                              *)

\* addEvent() gives a new event an id nobody has.
LEMMA AddEventKeeps ==
  ASSUME IInv, NEW c \in Callers, NEW e \in Events, NEW d \in Delays,
         AddEvent(c, e, d)
  PROVE  IInv'
<1> USE SchedulerAssumption
<1>1. /\ now + d \in 0 .. MaxTime
      /\ NextId \in 1 .. MaxId
  BY DEF IInv, TypeOK, AddEvent, NextId
<1>2. e \notin eventList /\ fate[e] = "new"
  BY DEF IInv, IdsAgree, AddEvent
<1>3. /\ UNCHANGED <<now, threadState, pc, until, timed, ret, task, run, accepts,
                     handed>>
      /\ cycle' \in [Events -> 0 .. MaxTime]
      /\ adding' = [adding EXCEPT ![c] = e]
  BY <1>1 DEF IInv, TypeOK, AddEvent, sched
<1>4. /\ signal' \in [Callers -> BOOLEAN]
      /\ \A b \in Callers \ {c} : signal'[b] = signal[b]
  <2>1. PICK v \in BOOLEAN : signal' = [signal EXCEPT ![c] = v] \/ signal' = signal
    <3>1. BecomesTop(now + d) \in BOOLEAN
      BY DEF BecomesTop
    <3>2. CASE threadState = "RUNNING"
      BY <3>1, <3>2, Zenon DEF AddEvent
    <3>3. CASE threadState # "RUNNING"
      BY <3>3, Zenon DEF AddEvent
    <3>4. QED
      BY <3>2, <3>3
  <2>2. QED
    BY <2>1 DEF IInv, TypeOK
<1>5. CallsAgree'
  BY <1>3, <1>4 DEF IInv, TypeOK, CallsAgree
<1>6. CASE threadState = "RUNNING"
  <2>1. /\ lastEvent' = NextId
        /\ id' = [id EXCEPT ![e] = NextId]
        /\ eventIds' = eventIds \cup {NextId}
        /\ eventList' = eventList \cup {e}
        /\ fate' = [fate EXCEPT ![e] = "pending"]
        /\ \A f \in eventList : id[f] # NextId
    BY <1>6 DEF AddEvent
  <2>2. TypeOK'
    <3>1. /\ lastEvent' \in 0 .. MaxId /\ id' \in [Events -> 0 .. MaxId]
          /\ eventIds' \subseteq 1 .. MaxId /\ eventList' \subseteq Events
      BY <1>1, <2>1 DEF IInv, TypeOK
    <3>2. fate' \in [Events -> Fates]
      BY <2>1 DEF IInv, TypeOK, Fates
    <3>3. adding' \in [Callers -> Events \cup {NoEvent}]
      BY <1>3 DEF IInv, TypeOK
    <3>4. QED
      BY <1>3, <1>4, <3>1, <3>2, <3>3 DEF IInv, TypeOK
  <2>3. Pending' = Pending \cup {e}
    BY <2>1 DEF IInv, TypeOK, Pending
  <2>4. \A f \in Events \ {e} : id'[f] = id[f] /\ fate'[f] = fate[f]
    BY <2>1 DEF IInv, TypeOK
  <2>5. id'[e] = NextId /\ fate'[e] = "pending"
    BY <2>1 DEF IInv, TypeOK
  <2>6. IdsAgree'
    <3>1. eventIds' = {id'[f] : f \in Pending'}
      BY <1>2, <2>1, <2>3, <2>4, <2>5 DEF IInv, IdsAgree, Pending
    <3>2. \A f, g \in eventList' : id'[f] = id'[g] => f = g
      BY <1>2, <2>1, <2>4, <2>5 DEF IInv, IdsAgree, TypeOK
    <3>3. QED
      BY <2>1, <2>3, <2>4, <2>5, <3>1, <3>2 DEF IInv, IdsAgree, TypeOK
  <2>7. Owned'
    <3>1. \A i \in 1 .. Len(handed) : handed[i] # e
      BY <1>2 DEF IInv, Owned
    <3>2. pc = "add" => task \in Events \ {e}
      BY <1>2 DEF IInv, Owned
    <3>3. QED
      BY <1>3, <2>1, <2>4, <3>1, <3>2, HandedAreEvents DEF IInv, Owned
  <2>8. QED
    BY <1>5, <2>2, <2>6, <2>7 DEF IInv
<1>7. CASE threadState # "RUNNING"
  <2>1. /\ fate' = [fate EXCEPT ![e] = "refused"]
        /\ UNCHANGED <<lastEvent, id, eventIds, eventList>>
    BY <1>7 DEF AddEvent
  <2>2. TypeOK'
    BY <1>3, <1>4, <2>1 DEF IInv, TypeOK, Fates
  <2>3. \A f \in Events \ {e} : fate'[f] = fate[f]
    BY <2>1 DEF IInv, TypeOK
  <2>4. Pending' = Pending
    BY <1>2, <2>1 DEF IInv, TypeOK, Pending
  <2>5. IdsAgree'
    BY <1>2, <2>1, <2>3, <2>4 DEF IInv, IdsAgree, TypeOK
  <2>6. Owned'
    <3>1. \A i \in 1 .. Len(handed) : handed[i] # e
      BY <1>2 DEF IInv, Owned
    <3>2. pc = "add" => task \in Events \ {e}
      BY <1>2 DEF IInv, Owned
    <3>3. QED
      BY <1>3, <2>1, <2>3, <3>1, <3>2, HandedAreEvents DEF IInv, Owned
  <2>7. QED
    BY <1>5, <2>2, <2>5, <2>6 DEF IInv
<1>8. QED
  BY <1>6, <1>7

\* stopEvent() takes the id of one pending event out of the active ones.
LEMMA StopEventKeeps ==
  ASSUME IInv, NEW i \in 1 .. MaxId, StopEvent(i)
  PROVE  IInv'
<1>1. /\ UNCHANGED <<now, eventList, lastEvent, threadState, cycle, id, pc, until,
                     timed, ret, task, run, adding, signal, accepts, handed>>
      /\ eventIds' = eventIds \ {i}
      /\ fate' \in [Events -> Fates]
      /\ \A f \in Events : fate'[f] = IF fate[f] = "pending" /\ id[f] = i
                                      THEN "stopped" ELSE fate[f]
  BY DEF IInv, TypeOK, StopEvent, sched, calls, Fates
<1>2. TypeOK'
  BY <1>1 DEF IInv, TypeOK
<1>3. Pending' = {f \in Pending : id[f] # i}
  BY <1>1 DEF Pending
<1>4. IdsAgree'
  BY <1>1, <1>3 DEF IInv, IdsAgree, TypeOK, Pending
<1>5. Owned' /\ CallsAgree'
  BY <1>1 DEF IInv, Owned, CallsAgree, TypeOK
<1>6. QED
  BY <1>2, <1>4, <1>5 DEF IInv

\* shutdown() empties the list and the set of active ids together.
LEMMA ShutdownKeeps ==
  ASSUME IInv, Shutdown
  PROVE  IInv'
<1>1. /\ UNCHANGED <<now, lastEvent, cycle, id, pc, until, timed, ret, task, run,
                     adding, signal, accepts, handed>>
      /\ threadState' = "TERMINATED" /\ eventList' = {} /\ eventIds' = {}
      /\ fate' \in [Events -> Fates]
      /\ \A f \in Events : fate'[f] = IF f \in eventList THEN "purged" ELSE fate[f]
  BY DEF IInv, TypeOK, Shutdown, sched, calls, Fates
<1>2. TypeOK'
  BY <1>1 DEF IInv, TypeOK, States
<1>3. Pending' = {}
  BY <1>1 DEF IInv, IdsAgree, Pending
<1>4. IdsAgree'
  BY <1>1, <1>3 DEF IdsAgree
<1>5. Owned'
  <2>1. \A i \in 1 .. Len(handed) : handed[i] \notin eventList
    BY DEF IInv, IdsAgree, Owned
  <2>2. pc = "add" => task \in Events \ eventList
    BY DEF IInv, Owned
  <2>3. QED
    BY <1>1, <2>1, <2>2, HandedAreEvents DEF IInv, Owned
<1>6. QED
  BY <1>1, <1>2, <1>4, <1>5 DEF IInv, CallsAgree

\* The scheduler thread takes an event, knowing whether it was stopped.
LEMMA TakeKeeps ==
  ASSUME IInv, NEW e \in Events, Take(e)
  PROVE  IInv'
<1>1. /\ UNCHANGED <<now, lastEvent, threadState, cycle, id, until, timed, ret,
                     adding, signal, accepts, handed>>
      /\ e \in eventList
      /\ task' = e
      /\ eventList' = eventList \ {e}
      /\ eventIds' = eventIds \ {id[e]}
      /\ pc' = "add"
  BY DEF Take, IsTop, calls
<1>2. run' <=> id[e] \in eventIds
  BY DEF Take
<1>3. run' \in BOOLEAN
  BY DEF Take
<1>4. run' <=> e \in Pending
  BY <1>1, <1>2 DEF IInv, IdsAgree, Pending
<1>5. /\ fate' \in [Events -> Fates]
      /\ fate'[e] = IF run' THEN "taken" ELSE "stopped"
      /\ \A f \in Events \ {e} : fate'[f] = fate[f]
  BY <1>3 DEF IInv, TypeOK, Take, Fates
<1>6. TypeOK'
  BY <1>1, <1>3, <1>5 DEF IInv, TypeOK, PCs
<1>7. Pending' = Pending \ {e}
  BY <1>5 DEF Pending
<1>8. IdsAgree'
  <2>1. eventIds' = {id[f] : f \in Pending \ {e}}
    BY <1>1 DEF IInv, IdsAgree, Pending
  <2>2. QED
    BY <1>1, <1>5, <1>7, <2>1 DEF IInv, IdsAgree, TypeOK
<1>9. Owned'
  <2>1. \A i \in 1 .. Len(handed) : handed[i] # e
    BY <1>1 DEF IInv, IdsAgree, Owned
  <2>2. QED
    BY <1>1, <1>5, <2>1, HandedAreEvents DEF IInv, Owned
<1>10. CallsAgree'
  BY <1>1 DEF IInv, CallsAgree
<1>11. QED
  BY <1>6, <1>8, <1>9, <1>10 DEF IInv

\* It hands the event over, once, or deletes it.
LEMMA AddKeeps ==
  ASSUME IInv, Add
  PROVE  IInv'
<1>1. /\ UNCHANGED <<now, eventList, eventIds, lastEvent, threadState, cycle, id,
                     until, timed, ret, run, adding, signal, accepts>>
      /\ pc' = "check" /\ task' = NoEvent
      /\ pc = "add"
  BY DEF Add, calls
<1>2. task \in Events \ eventList /\ fate[task] \in {"taken", "stopped"}
  BY <1>1 DEF IInv, Owned
<1>3. CASE run /\ accepts
  <2>1. /\ handed' = Append(handed, task)
        /\ fate' = [fate EXCEPT ![task] = "handed"]
        /\ fate[task] = "taken"
    BY <1>1, <1>3 DEF Add, IInv, Owned
  <2>2. /\ fate' \in [Events -> Fates]
        /\ fate'[task] = "handed"
        /\ \A f \in Events \ {task} : fate'[f] = fate[f]
    BY <1>2, <2>1 DEF IInv, TypeOK, Fates
  <2>3. /\ handed' \in Seq(Events)
        /\ Len(handed') = Len(handed) + 1
        /\ handed'[Len(handed) + 1] = task
        /\ \A i \in 1 .. Len(handed) : handed'[i] = handed[i] /\ handed[i] \in Events
    BY <1>2, <2>1 DEF IInv, TypeOK
  <2>4. \A i \in 1 .. Len(handed) : handed[i] # task
    BY <2>1 DEF IInv, Owned
  <2>5. TypeOK'
    BY <1>1, <2>2, <2>3 DEF IInv, TypeOK, PCs
  <2>6. Pending' = Pending
    BY <1>2, <2>1, <2>2 DEF Pending
  <2>7. IdsAgree'
    BY <1>1, <1>2, <2>2, <2>6 DEF IInv, IdsAgree
  <2>8. Owned'
    <3>1. \A i \in 1 .. Len(handed') : fate'[handed'[i]] = "handed"
      <4> SUFFICES ASSUME NEW i \in 1 .. Len(handed')
                   PROVE  fate'[handed'[i]] = "handed"
        OBVIOUS
      <4>1. CASE i = Len(handed) + 1
        BY <2>2, <2>3, <4>1
      <4>2. CASE i \in 1 .. Len(handed)
        BY <2>2, <2>3, <2>4, <4>2 DEF IInv, Owned
      <4>3. QED
        BY <2>3, <4>1, <4>2, HandedAreEvents DEF IInv
    <3>2. \A i, j \in 1 .. Len(handed') : handed'[i] = handed'[j] => i = j
      <4> SUFFICES ASSUME NEW i \in 1 .. Len(handed'), NEW j \in 1 .. Len(handed'),
                          handed'[i] = handed'[j]
                   PROVE  i = j
        OBVIOUS
      <4>1. CASE i \in 1 .. Len(handed) /\ j \in 1 .. Len(handed)
        BY <2>3, <4>1 DEF IInv, Owned
      <4>2. CASE i = Len(handed) + 1 \/ j = Len(handed) + 1
        BY <2>3, <2>4, <4>2, HandedAreEvents DEF IInv
      <4>3. QED
        BY <2>3, <4>1, <4>2, HandedAreEvents DEF IInv
    <3>3. QED
      BY <1>1, <3>1, <3>2 DEF Owned
  <2>9. QED
    BY <1>1, <2>5, <2>7, <2>8 DEF IInv, CallsAgree
<1>4. CASE ~(run /\ accepts)
  <2>1. /\ handed' = handed
        /\ fate' = [fate EXCEPT ![task] = IF run THEN "leaked" ELSE "deleted"]
    BY <1>4 DEF Add
  <2>2. /\ fate' \in [Events -> Fates]
        /\ fate'[task] \in {"leaked", "deleted"}
        /\ \A f \in Events \ {task} : fate'[f] = fate[f]
    BY <1>2, <2>1 DEF IInv, TypeOK, Fates
  <2>3. TypeOK'
    BY <1>1, <2>1, <2>2 DEF IInv, TypeOK, PCs
  <2>4. Pending' = Pending
    BY <1>2, <2>2 DEF Pending
  <2>5. IdsAgree'
    BY <1>1, <1>2, <2>2, <2>4 DEF IInv, IdsAgree
  <2>6. Owned'
    BY <1>1, <1>2, <2>1, <2>2 DEF IInv, Owned, TypeOK
  <2>7. QED
    BY <1>1, <2>3, <2>5, <2>6 DEF IInv, CallsAgree
<1>5. QED
  BY <1>3, <1>4

\* The dispatcher takes the oldest event it was handed.
LEMMA RunHandedKeeps ==
  ASSUME IInv, RunHanded
  PROVE  IInv'
<1>1. /\ UNCHANGED <<now, eventList, eventIds, lastEvent, threadState, cycle, id,
                     pc, until, timed, ret, task, run, adding, signal, accepts>>
      /\ handed # <<>>
      /\ handed' = Tail(handed)
      /\ fate' = [fate EXCEPT ![Head(handed)] = "executed"]
  BY DEF RunHanded, sched, calls
<1>2. /\ Len(handed) \in Nat \ {0}
      /\ Head(handed) = handed[1] /\ handed[1] \in Events
      /\ handed' \in Seq(Events)
      /\ Len(handed') = Len(handed) - 1
      /\ \A i \in 1 .. Len(handed') : handed'[i] = handed[i + 1]
  BY <1>1 DEF IInv, TypeOK
<1>3. /\ fate[handed[1]] = "handed"
      /\ fate' \in [Events -> Fates]
      /\ fate'[handed[1]] = "executed"
      /\ \A f \in Events \ {handed[1]} : fate'[f] = fate[f]
  BY <1>1, <1>2 DEF IInv, Owned, TypeOK, Fates
<1>4. TypeOK'
  BY <1>1, <1>2, <1>3 DEF IInv, TypeOK
<1>5. Pending' = Pending
  BY <1>3 DEF Pending
<1>6. IdsAgree'
  BY <1>1, <1>2, <1>3, <1>5 DEF IInv, IdsAgree, TypeOK
<1>7. Owned'
  <2>1. \A i \in 1 .. Len(handed') : fate'[handed'[i]] = "handed"
    <3> SUFFICES ASSUME NEW i \in 1 .. Len(handed')
                 PROVE  fate'[handed'[i]] = "handed"
      OBVIOUS
    <3>1. i + 1 \in 1 .. Len(handed) /\ i + 1 # 1
      BY <1>2
    <3>2. handed[i + 1] \in Events \ {handed[1]} /\ fate[handed[i + 1]] = "handed"
      BY <1>2, <3>1, HandedAreEvents DEF IInv, Owned
    <3>3. QED
      BY <1>2, <1>3, <3>2
  <2>2. \A i, j \in 1 .. Len(handed') : handed'[i] = handed'[j] => i = j
    BY <1>2 DEF IInv, Owned
  <2>3. pc' = "add" => /\ task' \in Events \ eventList'
                       /\ fate'[task'] = IF run' THEN "taken" ELSE "stopped"
    BY <1>1, <1>2, <1>3 DEF IInv, Owned
  <2>4. QED
    BY <2>1, <2>2, <2>3 DEF Owned
<1>8. QED
  BY <1>1, <1>4, <1>6, <1>7 DEF IInv, CallsAgree

-----------------------------------------------------------------------------
(* The theorems                                                            *)

LEMMA NextIInv == IInv /\ [Next]_vars => IInv'
<1> SUFFICES ASSUME IInv, [Next]_vars
             PROVE  IInv'
  OBVIOUS
<1>1. CASE UNCHANGED vars
  BY <1>1 DEF IInv, TypeOK, IdsAgree, Owned, CallsAgree, Pending, vars, sched, calls
<1>2. CASE Next
  BY <1>2, ThreadMoves, NothingMoves, ReturnKeeps, AddEventKeeps, StopEventKeeps,
     ShutdownKeeps, TakeKeeps, AddKeeps, RunHandedKeeps
     DEF Next, NextNotified, SchedulerThread
<1>3. QED
  BY <1>1, <1>2

\* The inductive invariant holds in every behaviour.
THEOREM Invariance == Spec => []IInv
BY InitIInv, NextIInv, PTL DEF Spec

\* The variables of the scheduler keep their types.
THEOREM TypeCorrect == Spec => []TypeOK
<1>1. IInv => TypeOK
  BY DEF IInv
<1>2. QED
  BY <1>1, Invariance, PTL

\* m_eventIds and m_eventList agree, and no two events of the list share an id.
THEOREM IdsCorrect == Spec => []IdsAgree
<1>1. IInv => IdsAgree
  BY DEF IInv
<1>2. QED
  BY <1>1, Invariance, PTL

\* An event has one owner, and the scheduler thread knows which were stopped.
THEOREM OwnersCorrect == Spec => []Owned
<1>1. IInv => Owned
  BY DEF IInv
<1>2. QED
  BY <1>1, Invariance, PTL

\* An event that stopEvent() reported stopped is never handed to the dispatcher.
THEOREM StoppedStays == Spec => StopHolds
<1>1. ASSUME IInv, [Next]_vars, NEW e \in Events, fate[e] = "stopped"
      PROVE  fate'[e] \in {"stopped", "deleted", "purged"}
  <2> USE <1>1 DEF IInv
  <2>1. ASSUME NEW c \in Callers, NEW f \in Events, NEW d \in Delays, AddEvent(c, f, d)
        PROVE  fate'[e] = "stopped"
    <3>1. f # e
      BY <2>1 DEF AddEvent
    <3>2. QED
      BY <2>1, <3>1 DEF AddEvent, TypeOK
  <2>2. ASSUME NEW i \in 1 .. MaxId, StopEvent(i) PROVE fate'[e] = "stopped"
    BY <2>2 DEF StopEvent, TypeOK
  <2>3. CASE Shutdown
    BY <2>3 DEF Shutdown
  <2>4. CASE RunHanded
    \* What the dispatcher runs was handed to it.
    <3>1. Head(handed) = handed[1] /\ 1 \in 1 .. Len(handed)
      BY <2>4 DEF RunHanded, TypeOK
    <3>2. Head(handed) # e
      BY <3>1 DEF Owned
    <3>3. QED
      BY <2>4, <3>2 DEF RunHanded, TypeOK
  <2>5. ASSUME NEW f \in Events, Take(f) PROVE fate'[e] = "stopped"
    \* Its id is not active, and no other event of the list has that id.
    <3>1. CASE f = e
      <4>1. id[e] \notin eventIds
        BY <2>5, <3>1 DEF Take, IsTop, IdsAgree, Pending
      <4>2. QED
        BY <2>5, <3>1, <4>1 DEF Take, TypeOK
    <3>2. CASE f # e
      BY <2>5, <3>2 DEF Take, TypeOK
    <3>3. QED
      BY <3>1, <3>2
  <2>6. CASE Add
    <3>1. CASE task = e
      BY <2>6, <3>1 DEF Add, Owned, TypeOK
    <3>2. CASE task # e
      BY <2>6, <3>2 DEF Add, TypeOK
    <3>3. QED
      BY <3>1, <3>2
  <2>7. CASE fate' = fate
    BY <2>7
  <2>8. ASSUME Tick \/ (\E c \in Callers : Return(c)) \/ Stop \/ StopDispatcher
               \/ SpuriousWakeup \/ Check \/ WaitForSignal \/ Timeout \/ Retry
               \/ TakeNothing \/ (\E f \in Events : WaitForTimeout(f)) \/ UNCHANGED vars
        PROVE  fate' = fate
    BY <2>8 DEF Tick, Return, Stop, StopDispatcher, SpuriousWakeup, Check,
       WaitForSignal, Timeout, Retry, TakeNothing, WaitForTimeout, vars
  <2>9. QED
    BY <2>1, <2>2, <2>3, <2>4, <2>5, <2>6, <2>7, <2>8
       DEF Next, NextNotified, SchedulerThread
<1>2. IInv /\ [Next]_vars =>
        [\A e \in Events :
           fate[e] = "stopped" => fate'[e] \in {"stopped", "deleted", "purged"}]_vars
  BY <1>1
<1>3. QED
  BY <1>2, Invariance, PTL DEF Spec, StopHolds

\* The scheduler thread never sleeps past an event.
THEOREM SleepBounded == Spec => []NoOversleep
<1>1. Init => NoOversleep
  BY DEF Init, NoOversleep
<1>2. IInv /\ NoOversleep /\ [Next]_vars => NoOversleep'
  <2> SUFFICES ASSUME IInv, NoOversleep, [Next]_vars, pc' = "waiting",
                      NEW e \in eventList'
               PROVE  (timed' /\ until' <= cycle'[e]) \/ \E c \in Callers : signal'[c]
    BY DEF NoOversleep
  <2> DEFINE Safe == (timed' /\ until' <= cycle'[e]) \/ \E c \in Callers : signal'[c]
  <2>1. ASSUME NEW c \in Callers, NEW f \in Events, NEW d \in Delays, AddEvent(c, f, d)
        PROVE  Safe
    <3>1. /\ pc = "waiting" /\ timed' = timed /\ until' = until
          /\ signal[c] = FALSE
      BY <2>1, SchedulerAssumption
         DEF AddEvent, MayCall, sched, IInv, TypeOK, CallsAgree
    <3>2. \A b \in Callers : signal[b] => signal'[b]
      <4>1. \A b \in Callers \ {c} : signal'[b] = signal[b]
        <5>1. PICK v : signal' = [signal EXCEPT ![c] = v] \/ signal' = signal
          BY <2>1, Zenon DEF AddEvent
        <5>2. QED
          BY <5>1 DEF IInv, TypeOK
      <4>2. QED
        BY <3>1, <4>1
    <3>3. /\ now + d \in 0 .. MaxTime
          /\ cycle'[f] = now + d
          /\ \A g \in Events \ {f} : cycle'[g] = cycle[g] /\ cycle[g] \in 0 .. MaxTime
          /\ until \in 0 .. MaxTime
          /\ eventList \subseteq Events
      BY <2>1, SchedulerAssumption DEF AddEvent, IInv, TypeOK
    <3>4. f \notin eventList
      BY <2>1 DEF AddEvent, IInv, IdsAgree
    <3>5. CASE e \in eventList
      BY <3>1, <3>2, <3>3, <3>4, <3>5 DEF NoOversleep
    <3>6. CASE e \notin eventList
      <4>1. e = f /\ threadState = "RUNNING"
        BY <2>1, <3>6 DEF AddEvent
      <4>2. CASE BecomesTop(now + d)
        <5>1. signal' = [signal EXCEPT ![c] = TRUE]
          BY <2>1, <4>1, <4>2 DEF AddEvent
        <5>2. QED
          BY <5>1 DEF IInv, TypeOK
      <4>3. CASE ~BecomesTop(now + d)
        <5>1. PICK g \in eventList : ~(now + d < cycle[g])
          BY <4>3 DEF BecomesTop
        <5>2. (timed /\ until <= cycle[g]) \/ \E b \in Callers : signal[b]
          BY <3>1 DEF NoOversleep
        <5>3. g \in Events \ {f}
          BY <3>3, <3>4
        <5>4. QED
          BY <3>1, <3>2, <3>3, <4>1, <5>1, <5>2, <5>3, SchedulerAssumption
      <4>4. QED
        BY <4>2, <4>3
    <3>7. QED
      BY <3>5, <3>6
  <2>2. ASSUME NEW c \in Callers, Return(c) PROVE Safe
    <3>1. pc = "waiting" /\ ~signal[c]
      BY <2>2 DEF Return
    <3>2. \A b \in Callers : signal[b] => signal'[b]
      BY <2>2, <3>1 DEF Return, IInv, TypeOK
    <3>3. QED
      BY <2>2, <3>1, <3>2 DEF Return, NoOversleep
  <2>3. CASE WaitForSignal
    BY <2>3 DEF WaitForSignal
  <2>4. ASSUME NEW f \in Events, WaitForTimeout(f) PROVE Safe
    BY <2>4 DEF WaitForTimeout, IsTop
  <2>5. CASE Tick \/ Stop \/ StopDispatcher \/ Shutdown \/ RunHanded
             \/ (\E i \in 1 .. MaxId : StopEvent(i)) \/ UNCHANGED vars
    <3>1. /\ pc = "waiting" /\ e \in eventList
          /\ timed' = timed /\ until' = until /\ cycle' = cycle /\ signal' = signal
      BY <2>5 DEF Tick, Stop, StopDispatcher, Shutdown, RunHanded, StopEvent, vars,
         sched, calls
    <3>2. QED
      BY <3>1 DEF NoOversleep
  <2>6. CASE SpuriousWakeup \/ Check \/ Timeout \/ Retry \/ TakeNothing \/ Add
             \/ (\E f \in Events : Take(f))
    \* None of these leaves the thread waiting.
    BY <2>6 DEF SpuriousWakeup, Check, Timeout, Retry, TakeNothing, Add, Take
  <2>7. QED
    BY <2>1, <2>2, <2>3, <2>4, <2>5, <2>6 DEF Next, NextNotified, SchedulerThread
<1>3. QED
  BY <1>1, <1>2, Invariance, PTL DEF Spec

\* All of them at once, which is what the runs check of the scheduler.
THEOREM SchedulerCorrect == Spec => []SchedulerSound
  BY TypeCorrect, IdsCorrect, OwnersCorrect, SleepBounded, PTL DEF SchedulerSound
-----------------------------------------------------------------------------
(* What is taken is taken in time, and read while it is there              *)

\* Each turn of the loop begins without a timeout.  A timed wait outlasts no event of
\* the list: the one it was set for is still there, or shutdown() has swept the list and
\* ended the thread's work.  A thread that has timed out is past the time it waited for,
\* and what it takes is due.
Deadline ==
  /\ pc = "lock" => ~timed
  /\ pc \in {"waiting", "awake"} /\ timed =>
       threadState = "TERMINATED" \/ \E f \in eventList : cycle[f] <= until
  /\ pc = "awake" /\ timed /\ ~ret => until <= now
  /\ pc = "add" /\ timed => cycle[task] <= now

\* While it adds an event, the dispatcher thread stops none and frees none.
StillAdding ==
  adding[Dispatcher] # NoEvent =>
    fate[adding[Dispatcher]] \notin Freed \cup {"stopped"}

\* The clock and the times of the events are numbers.
LEMMA TimesAreNumbers ==
  ASSUME TypeOK
  PROVE  /\ now \in Nat /\ until \in Nat
         /\ \A e \in Events : cycle[e] \in Nat
BY SchedulerAssumption DEF TypeOK

LEMMA NextDeadline ==
  ASSUME IInv, Deadline, [Next]_vars
  PROVE  Deadline'
<1>0. /\ now \in Nat /\ until \in Nat /\ \A e \in Events : cycle[e] \in Nat
      /\ eventList \subseteq Events /\ now \in 0 .. MaxTime /\ MaxTime \in Nat
  BY TimesAreNumbers, SchedulerAssumption DEF IInv, TypeOK
<1>1. ASSUME NEW c \in Callers, NEW e \in Events, NEW d \in Delays, AddEvent(c, e, d)
      PROVE  Deadline'
  <2>1. /\ UNCHANGED <<now, threadState, pc, until, timed, ret, task, run>>
        /\ eventList \subseteq eventList' /\ fate[e] = "new"
        /\ cycle' = [cycle EXCEPT ![e] = now + d]
    BY <1>1 DEF AddEvent, sched
  <2>2. \A f \in Events \ {e} : cycle'[f] = cycle[f]
    BY <2>1 DEF IInv, TypeOK
  <2>3. e \notin eventList
    BY <2>1 DEF IInv, IdsAgree
  <2>4. pc = "add" => task \in Events \ {e}
    BY <2>1 DEF IInv, Owned
  <2>5. QED
    BY <1>0, <2>1, <2>2, <2>3, <2>4 DEF Deadline
<1>2. ASSUME NEW c \in Callers, Return(c) PROVE Deadline'
  BY <1>2 DEF Return, Deadline
<1>3. CASE Tick
  <2>1. /\ now' = now + 1
        /\ UNCHANGED <<threadState, eventList, cycle, pc, until, timed, ret, task>>
    BY <1>3 DEF Tick, sched
  <2>2. pc = "add" => task \in Events
    BY DEF IInv, Owned
  <2>3. QED
    BY <1>0, <2>1, <2>2 DEF Deadline
<1>4. CASE Stop \/ StopDispatcher \/ RunHanded \/ (\E i \in 1 .. MaxId : StopEvent(i))
           \/ UNCHANGED vars
  <2>1. UNCHANGED <<now, eventList, cycle, pc, until, timed, ret, task>>
    BY <1>4 DEF Stop, StopDispatcher, RunHanded, StopEvent, vars, sched
  <2>2. threadState = "TERMINATED" => threadState' = "TERMINATED"
    BY <1>4 DEF Stop, StopDispatcher, RunHanded, StopEvent, vars
  <2>3. QED
    BY <2>1, <2>2 DEF Deadline
<1>5. CASE Shutdown
  <2>1. threadState' = "TERMINATED" /\ UNCHANGED <<now, cycle, pc, until, timed, ret, task>>
    BY <1>5 DEF Shutdown, sched
  <2>2. QED
    BY <2>1 DEF Deadline
<1>6. ASSUME NEW e \in Events, WaitForTimeout(e) PROVE Deadline'
  <2>1. /\ e \in eventList /\ until' = cycle[e] /\ cycle' = cycle /\ eventList' = eventList
        /\ pc' = "waiting"
    BY <1>6 DEF WaitForTimeout, IsTop
  <2>2. QED
    BY <1>0, <2>1 DEF Deadline
<1>7. CASE WaitForSignal
  BY <1>7 DEF WaitForSignal, Deadline
<1>8. CASE Timeout \/ SpuriousWakeup
  <2>1. /\ UNCHANGED <<now, eventList, threadState, cycle, until, timed, task>>
        /\ pc = "waiting" /\ pc' = "awake"
        /\ timed' /\ ~ret' => until <= now
    BY <1>8 DEF Timeout, SpuriousWakeup
  <2>2. QED
    BY <2>1 DEF Deadline
<1>9. CASE Check \/ Retry \/ TakeNothing \/ Add
  BY <1>9 DEF Check, Retry, TakeNothing, Add, Deadline
<1>10. ASSUME NEW e \in Events, Take(e) PROVE Deadline'
  <2>1. /\ UNCHANGED <<now, cycle, until, timed, ret>> /\ pc = "awake" /\ pc' = "add"
        /\ ~ret /\ threadState # "TERMINATED" /\ task' = e
        /\ \A f \in eventList : cycle[e] <= cycle[f]
    BY <1>10 DEF Take, IsTop
  <2>2. CASE timed
    <3>1. PICK f \in eventList : cycle[f] <= until
      BY <2>1, <2>2 DEF Deadline
    <3>2. cycle[e] <= cycle[f] /\ until <= now
      BY <2>1, <2>2, <3>1 DEF Deadline
    <3>3. cycle[e] <= now
      BY <1>0, <3>1, <3>2
    <3>4. QED
      BY <2>1, <3>3 DEF Deadline
  <2>3. CASE ~timed
    BY <2>1, <2>3 DEF Deadline
  <2>4. QED
    BY <2>2, <2>3
<1>11. QED
  BY <1>1, <1>2, <1>3, <1>4, <1>5, <1>6, <1>7, <1>8, <1>9, <1>10
     DEF Next, NextNotified, SchedulerThread

LEMMA NextStillAdding ==
  ASSUME IInv, StillAdding, [Next]_vars
  PROVE  StillAdding'
<1>0. /\ adding \in [Callers -> Events \cup {NoEvent}] /\ fate \in [Events -> Fates]
      /\ Dispatcher \in Callers /\ NoEvent \notin Events
  BY SchedulerAssumption DEF IInv, TypeOK
<1>1. ASSUME NEW c \in Callers, NEW e \in Events, NEW d \in Delays, AddEvent(c, e, d)
      PROVE  StillAdding'
  <2>1. /\ adding' = [adding EXCEPT ![c] = e]
        /\ \E v \in {"pending", "refused"} : fate' = [fate EXCEPT ![e] = v]
    BY <1>1 DEF AddEvent
  <2>2. fate'[e] \in {"pending", "refused"} /\ \A f \in Events \ {e} : fate'[f] = fate[f]
    BY <1>0, <2>1
  <2>3. adding'[Dispatcher] = e \/ adding'[Dispatcher] = adding[Dispatcher]
    BY <1>0, <2>1
  <2>4. QED
    BY <1>0, <2>2, <2>3 DEF StillAdding, Freed
<1>2. ASSUME NEW c \in Callers, Return(c) PROVE StillAdding'
  <2>1. adding' = [adding EXCEPT ![c] = NoEvent] /\ fate' = fate
    BY <1>2 DEF Return
  <2>2. QED
    BY <1>0, <2>1 DEF StillAdding
\* The calls that free or stop an event are made by tasks, in no addEvent().
<1>3. CASE RunHanded \/ (\E i \in 1 .. MaxId : StopEvent(i)) \/ Shutdown
  BY <1>3 DEF RunHanded, StopEvent, Shutdown, MayCall, StillAdding, calls
<1>4. ASSUME NEW e \in Events, Take(e) PROVE StillAdding'
  <2>1. adding' = adding /\ e \in eventList /\ (run' <=> id[e] \in eventIds)
    BY <1>4 DEF Take, IsTop, calls
  <2>2. fate' = [fate EXCEPT ![e] = IF run' THEN "taken" ELSE "stopped"]
    BY <1>4 DEF Take
  <2>3. CASE adding[Dispatcher] = e
    <3>1. fate[e] = "pending"
      BY <1>0, <2>1, <2>3 DEF StillAdding, IInv, IdsAgree
    <3>2. run'
      BY <2>1, <3>1 DEF IInv, IdsAgree, Pending
    <3>3. fate'[e] = "taken"
      BY <1>0, <2>2, <3>2
    <3>4. QED
      BY <2>1, <2>3, <3>3 DEF StillAdding, Freed
  <2>4. CASE adding[Dispatcher] # e
    BY <1>0, <2>1, <2>2, <2>4 DEF StillAdding
  <2>5. QED
    BY <2>3, <2>4
<1>5. CASE Add
  <2>1. /\ adding' = adding /\ task \in Events
        /\ fate[task] = IF run THEN "taken" ELSE "stopped"
    BY <1>5 DEF Add, calls, IInv, Owned
  <2>2. PICK v \in {"handed", "leaked", "deleted"} :
          fate' = [fate EXCEPT ![task] = v] /\ (run => v # "deleted")
    BY <1>5 DEF Add
  <2>3. CASE adding[Dispatcher] = task
    BY <1>0, <2>1, <2>2, <2>3 DEF StillAdding, Freed
  <2>4. CASE adding[Dispatcher] # task
    BY <1>0, <2>1, <2>2, <2>4 DEF StillAdding
  <2>5. QED
    BY <2>3, <2>4
<1>6. CASE Tick \/ Stop \/ StopDispatcher \/ SpuriousWakeup \/ Check \/ WaitForSignal
           \/ Timeout \/ Retry \/ TakeNothing \/ (\E f \in Events : WaitForTimeout(f))
           \/ UNCHANGED vars
  BY <1>6 DEF Tick, Stop, StopDispatcher, SpuriousWakeup, Check, WaitForSignal, Timeout,
     Retry, TakeNothing, WaitForTimeout, StillAdding, vars, calls
<1>7. QED
  BY <1>1, <1>2, <1>3, <1>4, <1>5, <1>6 DEF Next, NextNotified, SchedulerThread

\* After a timeout the event taken is due, whatever was added or stopped meanwhile, and
\* the dispatcher thread reads the id of an event that is still there.
THEOREM TakenInTime == Spec => []TakesInTime
<1>1. Init => Deadline /\ StillAdding
  BY SchedulerAssumption DEF Init, Deadline, StillAdding
<1>2. IInv /\ Deadline /\ StillAdding /\ [Next]_vars => Deadline' /\ StillAdding'
  BY NextDeadline, NextStillAdding
<1>3. Deadline /\ StillAdding => TakesInTime
  BY DEF Deadline, StillAdding, TakesInTime, TimeoutMeansDue, IdStillThere
<1>4. QED
  BY <1>1, <1>2, <1>3, Invariance, PTL DEF Spec

=============================================================================
