----------------------------- MODULE Dispatcher -----------------------------
(***************************************************************************)
(* The dispatcher of src/src/tasks.cpp: one thread that runs every change  *)
(* to the game world, fed by the list m_taskList that the network threads, *)
(* the scheduler thread, the signal handlers and the running tasks fill.   *)
(*                                                                         *)
(* A critical section on m_taskLock is one action, enabled while the lock  *)
(* is free: nothing inside it blocks.  The exception is shutdown(), which  *)
(* keeps the lock while flush() runs the tasks that are left, so the       *)
(* variable lock says whether the dispatcher thread is inside it.          *)
(* addTask() calls notify_one() after it has released the lock: that call  *)
(* is an action of its own.                                                *)
(***************************************************************************)
EXTENDS Naturals, Sequences, FiniteSets

CONSTANTS Tasks,       \* Task objects, each allocated for one addTask()
          FrontTasks,  \* tasks posted with front = true
          Expiring,    \* tasks created with an expiration
          Closers,     \* tasks whose body is setGameState(GAME_STATE_SHUTDOWN)
          Shutters,    \* tasks whose body is Game::shutdown
          Posted,      \* the one of them that setGameState() allocates
          Threads,     \* the other threads that call addTask()
          NoTask       \* the NULL Task pointer

ASSUME TasksAssumption ==
  /\ NoTask \notin Tasks
  /\ FrontTasks \subseteq Tasks /\ Expiring \subseteq Tasks
  /\ Closers \subseteq Tasks /\ Shutters \subseteq Tasks
  /\ Closers \cap Shutters = {}
  /\ Posted \in Shutters

VARIABLES taskList,     \* m_taskList
          threadState,  \* m_threadState
          lock,         \* who keeps m_taskLock across actions
          pc,           \* where the dispatcher thread is
          cur,          \* the local variable task of dispatcherThread()
          inner,        \* the local variable task of flush()
          phase,        \* how far the body of cur has come
          gameState,    \* has Game::gameState become GAME_STATE_SHUTDOWN
          signal,       \* local signal of addTask(), per thread
          stale,        \* tasks whose m_expiration lies in the past
          fate          \* what became of each Task object

vars == <<taskList, threadState, lock, pc, cur, inner, phase, gameState,
          signal, stale, fate>>

States == {"RUNNING", "CLOSING", "TERMINATED"}
Fates  == {"new", "queued", "taken", "running", "executed", "expired", "leaked"}
Phases == {"begin", "posted", "done"}
PCs    == {"check", "lock", "waiting", "awake", "exec", "body",
           "flush", "flushBody", "stuck", "exited"}

TypeOK ==
  /\ taskList \in Seq(Tasks)
  /\ threadState \in States
  /\ lock \in {"free", "dispatcher"}
  /\ pc \in PCs
  /\ cur \in Tasks \cup {NoTask}
  /\ inner \in Tasks \cup {NoTask}
  /\ phase \in Phases
  /\ gameState \in {"up", "shutdown"}
  /\ signal \in [Threads -> BOOLEAN]
  /\ stale \subseteq Expiring
  /\ fate \in [Tasks -> Fates]

Init ==
  /\ taskList = <<>>
  /\ threadState = "RUNNING"
  /\ lock = "free"
  /\ pc = "check"
  /\ cur = NoTask
  /\ inner = NoTask
  /\ phase = "begin"
  /\ gameState = "up"
  /\ signal = [p \in Threads |-> FALSE]
  /\ stale = {}
  /\ fate = [t \in Tasks |-> "new"]

-----------------------------------------------------------------------------
(* addTask()                                                               *)

\* Variant: the front flag ignored.
PushBack(t) == Append(taskList, t)

Push(t) == IF t \in FrontTasks THEN <<t>> \o taskList ELSE Append(taskList, t)

\* The critical section: a task offered to a dispatcher that no longer runs
\* is neither queued nor deleted.
Enqueue(t) ==
  /\ lock = "free"
  /\ fate[t] = "new"
  /\ IF threadState = "RUNNING"
     THEN /\ taskList' = Push(t)
          /\ fate' = [fate EXCEPT ![t] = "queued"]
     ELSE /\ fate' = [fate EXCEPT ![t] = "leaked"]
          /\ UNCHANGED taskList

\* Variant: the list asked for emptiness after the push.
AddTaskLate(p, t) ==
  /\ ~signal[p]
  /\ t # Posted
  /\ Enqueue(t)
  /\ signal' = [signal EXCEPT ![p] = taskList' = <<>>]
  /\ UNCHANGED <<threadState, lock, pc, cur, inner, phase, gameState, stale>>

AddTask(p, t) ==
  /\ ~signal[p]
  /\ t # Posted
  /\ Enqueue(t)
  /\ signal' = [signal EXCEPT ![p] = threadState = "RUNNING" /\ taskList = <<>>]
  /\ UNCHANGED <<threadState, lock, pc, cur, inner, phase, gameState, stale>>

\* m_taskSignal.notify_one(), outside the lock: it wakes the dispatcher thread
\* if that thread waits, and is lost if it does not.
Notify(p) ==
  /\ signal[p]
  /\ signal' = [signal EXCEPT ![p] = FALSE]
  /\ pc' = IF pc = "waiting" THEN "awake" ELSE pc
  /\ UNCHANGED <<taskList, threadState, lock, cur, inner, phase, gameState,
                 stale, fate>>

-----------------------------------------------------------------------------
(* dispatcherThread()                                                      *)

\* while(m_threadState != STATE_TERMINATED), read without the lock.
Check ==
  /\ pc = "check"
  /\ pc' = IF threadState = "TERMINATED" THEN "exited" ELSE "lock"
  /\ UNCHANGED <<taskList, threadState, lock, cur, inner, phase, gameState,
                 signal, stale, fate>>

\* An empty list: wait() releases the lock and blocks.
Wait ==
  /\ pc = "lock"
  /\ lock = "free"
  /\ taskList = <<>>
  /\ pc' = "waiting"
  /\ UNCHANGED <<taskList, threadState, lock, cur, inner, phase, gameState,
                 signal, stale, fate>>

\* wait() may return without a notification.
SpuriousWakeup ==
  /\ pc = "waiting"
  /\ pc' = "awake"
  /\ UNCHANGED <<taskList, threadState, lock, cur, inner, phase, gameState,
                 signal, stale, fate>>

\* Variant: pop_front() forgotten.
TakeNoPop ==
  /\ \/ pc = "lock" /\ taskList # <<>>
     \/ pc = "awake"
  /\ lock = "free"
  /\ IF taskList # <<>> /\ threadState # "TERMINATED"
     THEN /\ cur' = Head(taskList)
          /\ fate' = [fate EXCEPT ![Head(taskList)] = "taken"]
          /\ pc' = "exec"
     ELSE /\ pc' = "check"
          /\ UNCHANGED <<cur, fate>>
  /\ UNCHANGED <<taskList, threadState, lock, inner, phase, gameState, signal,
                 stale>>

\* The lock is held (again): take the first task, if there is one.
Take ==
  /\ \/ pc = "lock" /\ taskList # <<>>
     \/ pc = "awake"
  /\ lock = "free"
  /\ IF taskList # <<>> /\ threadState # "TERMINATED"
     THEN /\ cur' = Head(taskList)
          /\ taskList' = Tail(taskList)
          /\ fate' = [fate EXCEPT ![Head(taskList)] = "taken"]
          /\ pc' = "exec"
     ELSE /\ pc' = "check"
          /\ UNCHANGED <<cur, taskList, fate>>
  /\ UNCHANGED <<threadState, lock, inner, phase, gameState, signal, stale>>

\* Time passes m_expiration.
Expire(t) ==
  /\ fate[t] \in {"new", "queued", "taken"}
  /\ t \notin stale
  /\ stale' = stale \cup {t}
  /\ UNCHANGED <<taskList, threadState, lock, pc, cur, inner, phase, gameState,
                 signal, fate>>

\* hasExpired(): the task is deleted and never runs.
Drop ==
  /\ pc = "exec"
  /\ cur \in stale
  /\ fate' = [fate EXCEPT ![cur] = "expired"]
  /\ cur' = NoTask
  /\ pc' = "check"
  /\ UNCHANGED <<taskList, threadState, lock, inner, phase, gameState, signal,
                 stale>>

Execute ==
  /\ pc = "exec"
  /\ cur \notin stale
  /\ fate' = [fate EXCEPT ![cur] = "running"]
  /\ phase' = "begin"
  /\ pc' = "body"
  /\ UNCHANGED <<taskList, threadState, lock, cur, inner, gameState, signal,
                 stale>>

\* The body of a task, or sendAll() after it, posts a task.  notify_one() is
\* void: the only thread that waits on m_taskSignal is this one.  Game::shutdown
\* posts nothing before it calls shutdown(), and is posted by no other body than
\* setGameState().
BodyPost(t) ==
  /\ pc = "body"
  /\ t \notin Shutters
  /\ cur \in Shutters => phase = "done"
  /\ Enqueue(t)
  /\ UNCHANGED <<threadState, lock, pc, cur, inner, phase, gameState, signal,
                 stale>>

\* setGameState(GAME_STATE_SHUTDOWN) a second time: "this cannot be stopped".
CloserReturns ==
  /\ pc = "body"
  /\ cur \in Closers
  /\ phase = "begin"
  /\ gameState = "shutdown"
  /\ phase' = "done"
  /\ UNCHANGED <<taskList, threadState, lock, pc, cur, inner, gameState, signal,
                 stale, fate>>

\* setGameState(GAME_STATE_SHUTDOWN) posts Game::shutdown ...
CloserPosts ==
  /\ pc = "body"
  /\ cur \in Closers
  /\ phase = "begin"
  /\ gameState = "up"
  /\ Enqueue(Posted)
  /\ gameState' = "shutdown"
  /\ phase' = "posted"
  /\ UNCHANGED <<threadState, lock, pc, cur, inner, signal, stale>>

\* ... and only then calls stop().
Stop ==
  /\ pc = "body"
  /\ cur \in Closers
  /\ phase = "posted"
  /\ lock = "free"
  /\ threadState' = "CLOSING"
  /\ phase' = "done"
  /\ UNCHANGED <<taskList, lock, pc, cur, inner, gameState, signal, stale, fate>>

\* Variant: shutdown() without its flush().
ShutdownNoFlush ==
  /\ pc = "body"
  /\ cur \in Shutters
  /\ phase = "begin"
  /\ lock = "free"
  /\ threadState' = "TERMINATED"
  /\ phase' = "done"
  /\ UNCHANGED <<taskList, lock, pc, cur, inner, gameState, signal, stale, fate>>

\* Game::shutdown calls shutdown(), which takes the lock and keeps it.
Shutdown ==
  /\ pc = "body"
  /\ cur \in Shutters
  /\ phase = "begin"
  /\ lock = "free"
  /\ threadState' = "TERMINATED"
  /\ lock' = "dispatcher"
  /\ pc' = "flush"
  /\ UNCHANGED <<taskList, cur, inner, phase, gameState, signal, stale, fate>>

\* The body returns; the task is deleted.
Finish ==
  /\ pc = "body"
  /\ cur \in Closers \cup Shutters => phase = "done"
  /\ fate' = [fate EXCEPT ![cur] = "executed"]
  /\ cur' = NoTask
  /\ pc' = "check"
  /\ UNCHANGED <<taskList, threadState, lock, inner, phase, gameState, signal,
                 stale>>

-----------------------------------------------------------------------------
(* flush(), inside shutdown(), with m_taskLock held                        *)

\* flush() asks no task whether it has expired.
FlushTake ==
  /\ pc = "flush"
  /\ taskList # <<>>
  /\ inner' = Head(taskList)
  /\ taskList' = Tail(taskList)
  /\ fate' = [fate EXCEPT ![Head(taskList)] = "running"]
  /\ pc' = "flushBody"
  /\ UNCHANGED <<threadState, lock, cur, phase, gameState, signal, stale>>

\* A body (or sendAll(), releasing a message) that needs m_taskLock: the mutex
\* is not recursive and this thread holds it.
FlushBlocks ==
  /\ pc = "flushBody"
  /\ pc' = "stuck"
  /\ UNCHANGED <<taskList, threadState, lock, cur, inner, phase, gameState,
                 signal, stale, fate>>

\* A flushed body that asks for no lock returns.  Game::shutdown always asks,
\* and setGameState() does unless the game is already shut down.
FlushFinish ==
  /\ pc = "flushBody"
  /\ inner \notin Shutters
  /\ inner \in Closers => gameState = "shutdown"
  /\ fate' = [fate EXCEPT ![inner] = "executed"]
  /\ inner' = NoTask
  /\ pc' = "flush"
  /\ UNCHANGED <<taskList, threadState, lock, cur, phase, gameState, signal,
                 stale>>

FlushEnd ==
  /\ pc = "flush"
  /\ taskList = <<>>
  /\ lock' = "free"
  /\ phase' = "done"
  /\ pc' = "body"
  /\ UNCHANGED <<taskList, threadState, cur, inner, gameState, signal, stale,
                 fate>>

-----------------------------------------------------------------------------
DispatcherThread ==
  \/ Check \/ Wait \/ Take \/ Drop \/ Execute
  \/ CloserReturns \/ CloserPosts \/ Stop \/ Shutdown
  \/ Finish \/ FlushTake \/ FlushBlocks \/ FlushFinish \/ FlushEnd

Next ==
  \/ \E p \in Threads : Notify(p)
  \/ \E p \in Threads, t \in Tasks : AddTask(p, t)
  \/ \E t \in Tasks : BodyPost(t)
  \/ \E t \in Expiring : Expire(t)
  \/ SpuriousWakeup
  \/ DispatcherThread

\* The operating system runs every thread that can run, and task bodies end.
Fairness ==
  /\ WF_vars(DispatcherThread)
  /\ \A p \in Threads : WF_vars(Notify(p))

Spec == Init /\ [][Next]_vars /\ Fairness
-----------------------------------------------------------------------------
(* What makes the dispatcher correct                                       *)

Elems(q) == {q[i] : i \in 1 .. Len(q)}

\* No wake-up is lost, although addTask() notifies after it has released the
\* lock and only when the list was empty: while the dispatcher thread sleeps
\* over a list that is not empty, some thread still owes it a notification.
NoLostWakeup ==
  pc = "waiting" /\ taskList # <<>> => \E p \in Threads : signal[p]

\* The dispatcher keeps its types and its wake-ups.
DispatcherSound == TypeOK /\ NoLostWakeup

\* Each Task has one owner: the list holds exactly the queued tasks, each once,
\* urgent ones first, and the thread's two local pointers hold the others that
\* are neither new nor disposed of.  Hence no task runs twice and none is freed
\* while something still points to it.
OneOwner ==
  /\ Elems(taskList) = {t \in Tasks : fate[t] = "queued"}
  /\ \A i, j \in 1 .. Len(taskList) : taskList[i] = taskList[j] => i = j
  /\ \A i, j \in 1 .. Len(taskList) :
       i < j /\ taskList[j] \in FrontTasks => taskList[i] \in FrontTasks
  /\ {t \in Tasks : fate[t] \in {"taken", "running"}} = {cur, inner} \ {NoTask}
  /\ cur # NoTask => cur # inner

\* A task that was accepted is executed or found expired, unless the server has
\* blocked itself in flush().
Served ==
  \A t \in Tasks :
    fate[t] = "queued" ~> fate[t] \in {"executed", "expired"} \/ pc = "stuck"

\* The signal handlers promise "save & shutdown" and "shutdown": once the
\* dispatcher is told to terminate, its thread leaves its loop.
ShutdownCompletes == threadState = "TERMINATED" ~> pc = "exited"

-----------------------------------------------------------------------------
(* The dispatcher implements the two-class queue of TaskQueue.  A task is  *)
(* served from the moment it is taken off the list; one that has expired   *)
(* is served by deleting it.                                               *)

\* The urgent tasks stand before the others.
Urgents == Cardinality({i \in 1 .. Len(taskList) : taskList[i] \in FrontTasks})
Urgent == SubSeq(taskList, 1, Urgents)
Normal == SubSeq(taskList, Urgents + 1, Len(taskList))

\* A flushed task is served inside the one that shuts down.
Serving ==
  IF inner # NoTask THEN <<cur, inner>>
  ELSE IF cur # NoTask THEN <<cur>>
  ELSE <<>>

StageOf(f) ==
  CASE f = "new" -> "new"
    [] f = "queued" -> "waiting"
    [] f \in {"taken", "running"} -> "started"
    [] f \in {"executed", "expired"} -> "ended"
    [] f = "leaked" -> "refused"
Stage == [t \in Tasks |-> StageOf(fate[t])]

Gate ==
  IF lock = "dispatcher" THEN "draining"
  ELSE IF threadState = "TERMINATED" THEN "shut"
  ELSE IF threadState = "CLOSING" THEN "closed"
  ELSE "open"

Queue == INSTANCE TaskQueue WITH
  urgent <- Urgent, normal <- Normal, active <- Serving, stage <- Stage, gate <- Gate

\* Whatever the threads do, callers see the two-class queue: urgent tasks before
\* ordinary ones, ordinary ones in the order they were accepted, one at a time,
\* none accepted after stop(), none left behind by shutdown().
ImplementsQueue == Queue!QSpec
=============================================================================
