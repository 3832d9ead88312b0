-------------------------- MODULE DispatcherProofs --------------------------
(***************************************************************************)
(* What the dispatcher guarantees for any set of tasks and of threads.     *)
(***************************************************************************)
EXTENDS Dispatcher, FiniteSetTheorems, SequenceTheorems, TLAPS

\* What addTask() does to the list and the fates keeps them well typed.
LEMMA EnqueueType ==
  ASSUME TypeOK, NEW t \in Tasks, Enqueue(t)
  PROVE  /\ taskList' \in Seq(Tasks)
         /\ fate' \in [Tasks -> Fates]
<1>1. Push(t) \in Seq(Tasks)
  BY DEF TypeOK, Push
<1>2. QED
  BY <1>1 DEF TypeOK, Enqueue, Fates

\* The variables of the dispatcher keep their types.
THEOREM TypeCorrect == Spec => []TypeOK
<1>1. Init => TypeOK
  BY TasksAssumption DEF Init, TypeOK, States, PCs, Phases, Fates
<1>2. TypeOK /\ [Next]_vars => TypeOK'
  <2> SUFFICES ASSUME TypeOK, [Next]_vars
               PROVE  TypeOK'
    OBVIOUS
  <2> USE DEF TypeOK, States, PCs, Phases, Fates
  <2>1. ASSUME NEW p \in Threads, NEW t \in Tasks, AddTask(p, t) PROVE TypeOK'
    <3>1. /\ taskList' \in Seq(Tasks)
          /\ fate' \in [Tasks -> Fates]
      BY <2>1, EnqueueType DEF AddTask
    <3>2. signal' \in [Threads -> BOOLEAN]
      BY <2>1, Zenon DEF AddTask
    <3>3. QED
      BY <2>1, <3>1, <3>2 DEF AddTask
  <2>2. ASSUME NEW p \in Threads, Notify(p) PROVE TypeOK'
    BY <2>2 DEF Notify
  <2>3. ASSUME NEW t \in Tasks, BodyPost(t) PROVE TypeOK'
    BY <2>3, EnqueueType DEF BodyPost
  <2>4. ASSUME NEW t \in Expiring, Expire(t) PROVE TypeOK'
    BY <2>4 DEF Expire
  <2>5. CASE SpuriousWakeup
    BY <2>5 DEF SpuriousWakeup
  <2>6. CASE Check
    BY <2>6 DEF Check
  <2>7. CASE Wait
    BY <2>7 DEF Wait
  <2>8. CASE Take
    BY <2>8 DEF Take
  <2>9. CASE Drop
    BY <2>9 DEF Drop
  <2>10. CASE Execute
    BY <2>10 DEF Execute
  <2>11. CASE CloserReturns
    BY <2>11 DEF CloserReturns
  <2>12. CASE CloserPosts
    <3>1. Posted \in Tasks
      BY TasksAssumption
    <3>2. QED
      BY <2>12, <3>1, EnqueueType DEF CloserPosts
  <2>13. CASE Stop
    BY <2>13 DEF Stop
  <2>14. CASE Shutdown
    BY <2>14 DEF Shutdown
  <2>15. CASE Finish
    BY <2>15 DEF Finish
  <2>16. CASE FlushTake
    BY <2>16 DEF FlushTake
  <2>17. CASE FlushBlocks
    BY <2>17 DEF FlushBlocks
  <2>18. CASE FlushFinish
    BY <2>18 DEF FlushFinish
  <2>19. CASE FlushEnd
    BY <2>19 DEF FlushEnd
  <2>20. CASE UNCHANGED vars
    BY <2>20 DEF vars
  <2>21. QED
    BY <2>1, <2>2, <2>3, <2>4, <2>5, <2>6, <2>7, <2>8, <2>9, <2>10, <2>11,
       <2>12, <2>13, <2>14, <2>15, <2>16, <2>17, <2>18, <2>19, <2>20
       DEF Next, DispatcherThread
<1>3. QED
  BY <1>1, <1>2, PTL DEF Spec

\* No wake-up is lost: when the dispatcher thread sleeps over a list that is not
\* empty, a thread that posted has yet to notify it.
THEOREM WakeupKept == Spec => []NoLostWakeup
<1>1. Init => NoLostWakeup
  BY DEF Init, NoLostWakeup
<1>2. TypeOK /\ NoLostWakeup /\ [Next]_vars => NoLostWakeup'
  <2> SUFFICES ASSUME TypeOK, NoLostWakeup, [Next]_vars,
                      pc' = "waiting", taskList' # <<>>
               PROVE  \E p \in Threads : signal'[p]
    BY DEF NoLostWakeup
  <2>1. ASSUME NEW p \in Threads, NEW t \in Tasks, AddTask(p, t)
        PROVE  \E q \in Threads : signal'[q]
    <3>1. pc = "waiting"
      BY <2>1 DEF AddTask
    <3>2. CASE taskList = <<>>
      \* The list was empty and has changed: this thread will notify.
      <4>1. threadState = "RUNNING"
        BY <2>1, <3>2 DEF AddTask, Enqueue
      <4>2. signal'[p]
        BY <2>1, <3>2, <4>1, Zenon DEF AddTask, TypeOK
      <4>3. QED
        BY <4>2
    <3>3. CASE taskList # <<>>
      \* Some other thread owed a notification, and still does.
      <4>1. PICK q \in Threads : signal[q]
        BY <3>1, <3>3 DEF NoLostWakeup
      <4>2. q # p
        BY <2>1, <4>1 DEF AddTask
      <4>3. signal'[q] = signal[q]
        BY <2>1, <4>2, Zenon DEF AddTask, TypeOK
      <4>4. QED
        BY <4>1, <4>3
    <3>4. QED
      BY <3>2, <3>3
  <2>2. CASE Wait
    \* The thread only begins to wait on an empty list.
    BY <2>2 DEF Wait
  <2>3. CASE UNCHANGED <<pc, taskList, signal>>
    BY <2>3 DEF NoLostWakeup
  <2>4. ASSUME NEW p \in Threads, Notify(p) PROVE FALSE
    BY <2>4 DEF Notify
  <2>5. ASSUME NEW t \in Tasks, BodyPost(t) PROVE FALSE
    BY <2>5 DEF BodyPost
  <2>6. CASE \E t \in Expiring : Expire(t)
    BY <2>3, <2>6 DEF Expire
  <2>7. CASE \/ SpuriousWakeup \/ Check \/ Take \/ Drop \/ Execute
             \/ CloserReturns \/ CloserPosts \/ Stop \/ Shutdown \/ Finish
             \/ FlushTake \/ FlushBlocks \/ FlushFinish \/ FlushEnd
    \* None of these leaves the thread waiting.
    BY <2>7 DEF SpuriousWakeup, Check, Take, Drop, Execute, CloserReturns,
       CloserPosts, Stop, Shutdown, Finish, FlushTake, FlushBlocks, FlushFinish,
       FlushEnd
  <2>8. CASE UNCHANGED vars
    BY <2>3, <2>8 DEF vars
  <2>9. QED
    BY <2>1, <2>2, <2>4, <2>5, <2>6, <2>7, <2>8 DEF Next, DispatcherThread
<1>3. QED
  BY <1>1, <1>2, TypeCorrect, PTL DEF Spec

\* Both at once, which is what the runs check of the dispatcher.
THEOREM DispatcherCorrect == Spec => []DispatcherSound
  BY TypeCorrect, WakeupKept, PTL DEF DispatcherSound

-----------------------------------------------------------------------------
(* One owner for each task                                                 *)

\* The list holds the queued tasks, each once.
ListHolds ==
  /\ \A i \in 1 .. Len(taskList) : fate[taskList[i]] = "queued"
  /\ \A t \in Tasks : fate[t] = "queued" => \E i \in 1 .. Len(taskList) : taskList[i] = t
  /\ \A i, j \in 1 .. Len(taskList) : taskList[i] = taskList[j] => i = j

\* The urgent tasks are the first n.
FrontFirst ==
  \E n \in 0 .. Len(taskList) :
    \A i \in 1 .. Len(taskList) : taskList[i] \in FrontTasks <=> i <= n

\* The two local variables hold the tasks that are being served, and no others are.
LocalsHold ==
  /\ cur # NoTask <=> pc \in {"exec", "body", "flush", "flushBody", "stuck"}
  /\ inner # NoTask <=> pc \in {"flushBody", "stuck"}
  /\ cur # NoTask => fate[cur] = IF pc = "exec" THEN "taken" ELSE "running"
  /\ inner # NoTask => fate[inner] = "running"
  /\ cur # NoTask => cur # inner
  /\ \A t \in Tasks : fate[t] \in {"taken", "running"} => t \in {cur, inner}

\* The lock is kept from shutdown() to the end of its flush(), and a dispatcher that
\* is terminated serves nothing but that.
LockHeld ==
  /\ lock = "dispatcher" <=> pc \in {"flush", "flushBody", "stuck"}
  /\ lock = "dispatcher" => threadState = "TERMINATED" /\ cur \in Shutters
  /\ threadState = "TERMINATED" => pc \notin {"lock", "waiting", "awake", "exec"}
  /\ threadState = "TERMINATED" /\ pc = "body" => phase = "done" /\ cur \in Shutters

\* The strengthening of OneOwner, and what the refinement needs besides.
IInv == TypeOK /\ ListHolds /\ FrontFirst /\ LocalsHold /\ LockHeld

\* What Append, a task in front and Tail do to a list.
LEMMA ListShapes ==
  ASSUME NEW q \in Seq(Tasks), NEW t \in Tasks
  PROVE  /\ Len(q) \in Nat
         /\ \A i \in 1 .. Len(q) : q[i] \in Tasks
         /\ Len(Append(q, t)) = Len(q) + 1
         /\ Append(q, t)[Len(q) + 1] = t
         /\ \A i \in 1 .. Len(q) : Append(q, t)[i] = q[i]
         /\ Len(<<t>> \o q) = Len(q) + 1
         /\ (<<t>> \o q)[1] = t
         /\ \A i \in 2 .. Len(q) + 1 : (<<t>> \o q)[i] = q[i - 1]
         /\ q # <<>> => /\ Len(q) \in Nat \ {0}
                        /\ Head(q) = q[1]
                        /\ Tail(q) \in Seq(Tasks)
                        /\ Len(Tail(q)) = Len(q) - 1
                        /\ \A i \in 1 .. Len(q) - 1 : Tail(q)[i] = q[i + 1]
OBVIOUS

\* addTask(): an accepted task joins the list, at the end or in front.
LEMMA EnqueueKeepsList ==
  ASSUME IInv, NEW t \in Tasks, Enqueue(t)
  PROVE  /\ ListHolds' /\ FrontFirst'
         /\ fate[t] = "new" /\ fate'[t] \in {"queued", "leaked"}
         /\ \A u \in Tasks \ {t} : fate'[u] = fate[u]
<1> DEFINE L == Len(taskList)
<1>1. /\ taskList \in Seq(Tasks) /\ L \in Nat /\ \A i \in 1 .. L : taskList[i] \in Tasks
      /\ fate \in [Tasks -> Fates]
  BY ListShapes DEF IInv, TypeOK
<1>2. fate[t] = "new"
  BY DEF Enqueue
<1>3. \A i \in 1 .. L : taskList[i] # t
  BY <1>2 DEF IInv, ListHolds
<1>4. CASE threadState # "RUNNING"
  <2>1. taskList' = taskList /\ fate' = [fate EXCEPT ![t] = "leaked"]
    BY <1>4 DEF Enqueue
  <2>2. fate'[t] = "leaked" /\ \A u \in Tasks \ {t} : fate'[u] = fate[u]
    BY <1>1, <2>1
  <2>3. QED
    BY <1>1, <1>2, <1>3, <2>1, <2>2 DEF IInv, ListHolds, FrontFirst
<1>5. CASE threadState = "RUNNING"
  <2>1. taskList' = Push(t) /\ fate' = [fate EXCEPT ![t] = "queued"]
    BY <1>5 DEF Enqueue
  <2>2. fate'[t] = "queued" /\ \A u \in Tasks \ {t} : fate'[u] = fate[u]
    BY <1>1, <2>1
  <2>3. PICK n \in 0 .. L : \A i \in 1 .. L : taskList[i] \in FrontTasks <=> i <= n
    BY DEF IInv, FrontFirst
  <2>4. CASE t \in FrontTasks
    <3>1. /\ Len(taskList') = L + 1 /\ taskList'[1] = t
          /\ \A i \in 2 .. L + 1 : taskList'[i] = taskList[i - 1]
      BY <1>1, <2>1, <2>4, ListShapes DEF Push
    <3>2. \A i \in 1 .. L : taskList'[i + 1] = taskList[i]
      BY <1>1, <3>1
    <3>3. \A i \in 2 .. L + 1 : i - 1 \in 1 .. L
      BY <1>1
    <3>4. ListHolds'
      <4>1. \A i \in 1 .. L + 1 : fate'[taskList'[i]] = "queued"
        BY <1>1, <1>3, <2>2, <3>1, <3>3 DEF IInv, ListHolds
      <4>2. ASSUME NEW u \in Tasks, fate'[u] = "queued"
            PROVE  \E i \in 1 .. L + 1 : taskList'[i] = u
        <5>1. CASE u = t
          BY <1>1, <3>1, <5>1
        <5>2. CASE u # t
          <6>1. PICK i \in 1 .. L : taskList[i] = u
            BY <2>2, <4>2, <5>2 DEF IInv, ListHolds
          <6>2. i + 1 \in 1 .. L + 1 /\ taskList'[i + 1] = u
            BY <1>1, <3>2, <6>1
          <6>3. QED
            BY <6>2
        <5>3. QED
          BY <5>1, <5>2
      <4>3. \A i, j \in 1 .. L + 1 : taskList'[i] = taskList'[j] => i = j
        <5> SUFFICES ASSUME NEW i \in 1 .. L + 1, NEW j \in 1 .. L + 1,
                            taskList'[i] = taskList'[j]
                     PROVE  i = j
          OBVIOUS
        <5>1. CASE i = 1 \/ j = 1
          BY <1>1, <1>3, <3>1, <3>3, <5>1
        <5>2. CASE i # 1 /\ j # 1
          <6>1. /\ i - 1 \in 1 .. L /\ j - 1 \in 1 .. L
                /\ taskList[i - 1] = taskList[j - 1]
            BY <1>1, <3>1, <3>3, <5>2
          <6>2. i - 1 = j - 1
            BY <6>1 DEF IInv, ListHolds
          <6>3. QED
            BY <6>1, <6>2, <1>1
        <5>3. QED
          BY <5>1, <5>2
      <4>4. QED
        BY <3>1, <4>1, <4>2, <4>3 DEF ListHolds
    <3>5. FrontFirst'
      <4>1. \A i \in 1 .. L + 1 : taskList'[i] \in FrontTasks <=> i <= n + 1
        BY <1>1, <2>3, <2>4, <3>1, <3>3
      <4>2. n + 1 \in 0 .. L + 1
        BY <1>1, <2>3
      <4>3. QED
        BY <3>1, <4>1, <4>2 DEF FrontFirst
    <3>6. QED
      BY <1>2, <2>2, <3>4, <3>5
  <2>5. CASE t \notin FrontTasks
    <3>1. /\ Len(taskList') = L + 1 /\ taskList'[L + 1] = t
          /\ \A i \in 1 .. L : taskList'[i] = taskList[i]
      BY <1>1, <2>1, <2>5, ListShapes DEF Push
    <3>2. \A i \in 1 .. L + 1 : i = L + 1 \/ i \in 1 .. L
      BY <1>1
    <3>3. ListHolds'
      <4>1. \A i \in 1 .. L + 1 : fate'[taskList'[i]] = "queued"
        BY <1>1, <1>3, <2>2, <3>1, <3>2 DEF IInv, ListHolds
      <4>2. \A u \in Tasks : fate'[u] = "queued" => \E i \in 1 .. L + 1 : taskList'[i] = u
        BY <1>1, <2>2, <3>1 DEF IInv, ListHolds
      <4>3. \A i, j \in 1 .. L + 1 : taskList'[i] = taskList'[j] => i = j
        BY <1>1, <1>3, <3>1, <3>2 DEF IInv, ListHolds
      <4>4. QED
        BY <3>1, <4>1, <4>2, <4>3 DEF ListHolds
    <3>4. FrontFirst'
      <4>1. \A i \in 1 .. L + 1 : taskList'[i] \in FrontTasks <=> i <= n
        BY <1>1, <2>3, <2>5, <3>1, <3>2
      <4>2. n \in 0 .. L + 1
        BY <1>1, <2>3
      <4>3. QED
        BY <3>1, <4>1, <4>2 DEF FrontFirst
    <3>5. QED
      BY <1>2, <2>2, <3>3, <3>4
  <2>6. QED
    BY <2>4, <2>5
<1>6. QED
  BY <1>4, <1>5

\* The first task leaves the list.
LEMMA PopKeepsList ==
  ASSUME IInv, taskList # <<>>, taskList' = Tail(taskList), NEW v, v # "queued",
         fate' = [fate EXCEPT ![Head(taskList)] = v]
  PROVE  /\ ListHolds' /\ FrontFirst'
         /\ Head(taskList) \in Tasks /\ fate[Head(taskList)] = "queued"
         /\ fate'[Head(taskList)] = v
         /\ \A u \in Tasks \ {Head(taskList)} : fate'[u] = fate[u]
<1> DEFINE L == Len(taskList)
<1> DEFINE t == Head(taskList)
<1>1. /\ L \in Nat \ {0} /\ t = taskList[1] /\ \A i \in 1 .. L : taskList[i] \in Tasks
      /\ Len(taskList') = L - 1
      /\ \A i \in 1 .. L - 1 : taskList'[i] = taskList[i + 1]
      /\ fate \in [Tasks -> Fates]
  <2>1. PICK u \in Tasks : TRUE
    BY TasksAssumption
  <2>2. QED
    BY <2>1, ListShapes DEF IInv, TypeOK
<1>2. t \in Tasks /\ fate[t] = "queued"
  BY <1>1 DEF IInv, ListHolds
<1>3. fate'[t] = v /\ \A u \in Tasks \ {t} : fate'[u] = fate[u]
  BY <1>1, <1>2
<1>4. \A i \in 1 .. L - 1 : i + 1 \in 1 .. L /\ taskList[i + 1] # t
  <2>1. \A i \in 1 .. L - 1 : i + 1 \in 1 .. L /\ 1 \in 1 .. L /\ i + 1 # 1
    BY <1>1
  <2>2. QED
    BY <1>1, <2>1 DEF IInv, ListHolds
<1>5. ListHolds'
  <2>1. \A i \in 1 .. L - 1 : fate'[taskList'[i]] = "queued"
    BY <1>1, <1>3, <1>4 DEF IInv, ListHolds
  <2>2. ASSUME NEW u \in Tasks, fate'[u] = "queued"
        PROVE  \E i \in 1 .. L - 1 : taskList'[i] = u
    <3>1. u # t
      BY <1>3, <2>2
    <3>2. PICK i \in 1 .. L : taskList[i] = u
      BY <1>3, <2>2, <3>1 DEF IInv, ListHolds
    <3>3. i - 1 \in 1 .. L - 1 /\ (i - 1) + 1 = i
      BY <1>1, <3>1, <3>2
    <3>4. taskList'[i - 1] = u
      BY <1>1, <3>2, <3>3
    <3>5. QED
      BY <3>3, <3>4
  <2>3. \A i, j \in 1 .. L - 1 : taskList'[i] = taskList'[j] => i = j
    <3> SUFFICES ASSUME NEW i \in 1 .. L - 1, NEW j \in 1 .. L - 1,
                        taskList'[i] = taskList'[j]
                 PROVE  i = j
      OBVIOUS
    <3>1. i + 1 = j + 1
      BY <1>1, <1>4 DEF IInv, ListHolds
    <3>2. QED
      BY <1>1, <3>1
  <2>4. QED
    BY <1>1, <2>1, <2>2, <2>3 DEF ListHolds
<1>6. FrontFirst'
  <2>1. PICK n \in 0 .. L : \A i \in 1 .. L : taskList[i] \in FrontTasks <=> i <= n
    BY DEF IInv, FrontFirst
  <2>2. DEFINE m == IF n = 0 THEN 0 ELSE n - 1
  <2>3. m \in 0 .. L - 1
    BY <1>1, <2>1
  <2>4. \A i \in 1 .. L - 1 : taskList'[i] \in FrontTasks <=> i <= m
    BY <1>1, <1>4, <2>1
  <2>5. QED
    BY <1>1, <2>3, <2>4 DEF FrontFirst
<1>7. QED
  BY <1>2, <1>3, <1>5, <1>6

\* No task joins or leaves the list.
LEMMA StayKeepsList ==
  ASSUME IInv, taskList' = taskList,
         \A t \in Tasks : fate'[t] = "queued" <=> fate[t] = "queued"
  PROVE  ListHolds' /\ FrontFirst'
<1>1. \A i \in 1 .. Len(taskList) : taskList[i] \in Tasks
  BY DEF IInv, TypeOK
<1>2. QED
  BY <1>1 DEF IInv, ListHolds, FrontFirst

\* The inductive step, with the action of the code that disturbs each part.
LEMMA NextIInv ==
  ASSUME IInv, TypeOK', [Next]_vars
  PROVE  IInv'
<1> USE DEF LocalsHold, LockHeld
<1>0. /\ TypeOK /\ LocalsHold /\ LockHeld
      /\ NoTask \notin Tasks /\ Closers \cap Shutters = {}
      /\ fate \in [Tasks -> Fates] /\ cur \in Tasks \cup {NoTask}
      /\ inner \in Tasks \cup {NoTask}
  BY TasksAssumption DEF IInv, TypeOK
\* Whoever posts a task does not serve it: it was new.
<1>1. ASSUME NEW t \in Tasks, Enqueue(t), UNCHANGED <<threadState, lock, pc, cur, inner>>,
             phase' = phase \/ (pc = "body" /\ cur \in Closers)
      PROVE  IInv'
  <2>1. /\ ListHolds' /\ FrontFirst' /\ fate[t] = "new" /\ fate'[t] \in {"queued", "leaked"}
        /\ \A u \in Tasks \ {t} : fate'[u] = fate[u]
    BY <1>1, EnqueueKeepsList
  <2>2. LocalsHold'
    BY <1>0, <1>1, <2>1
  <2>3. LockHeld'
    BY <1>0, <1>1
  <2>4. QED
    BY <2>1, <2>2, <2>3 DEF IInv
<1>2. ASSUME NEW p \in Threads, NEW t \in Tasks, AddTask(p, t) PROVE IInv'
  BY <1>1, <1>2 DEF AddTask
<1>3. ASSUME NEW t \in Tasks, BodyPost(t) PROVE IInv'
  BY <1>1, <1>3 DEF BodyPost
<1>4. CASE CloserPosts
  <2>1. Posted \in Tasks
    BY TasksAssumption
  <2>2. QED
    BY <1>1, <1>4, <2>1 DEF CloserPosts
\* The steps that move no task.
<1>5. ASSUME UNCHANGED <<taskList, fate>>, LocalsHold', LockHeld' PROVE IInv'
  BY <1>5, StayKeepsList DEF IInv
<1>6. ASSUME NEW p \in Threads, Notify(p) PROVE IInv'
  BY <1>0, <1>5, <1>6 DEF Notify
<1>7. ASSUME NEW t \in Expiring, Expire(t) PROVE IInv'
  BY <1>0, <1>5, <1>7 DEF Expire
<1>8. CASE SpuriousWakeup
  BY <1>0, <1>5, <1>8 DEF SpuriousWakeup
<1>9. CASE Check
  BY <1>0, <1>5, <1>9 DEF Check
<1>10. CASE Wait
  BY <1>0, <1>5, <1>10 DEF Wait
<1>11. CASE CloserReturns
  BY <1>0, <1>5, <1>11 DEF CloserReturns
<1>12. CASE Stop
  BY <1>0, <1>5, <1>12 DEF Stop
<1>13. CASE Shutdown
  BY <1>0, <1>5, <1>13 DEF Shutdown
<1>14. CASE FlushBlocks
  BY <1>0, <1>5, <1>14 DEF FlushBlocks
<1>15. CASE FlushEnd
  BY <1>0, <1>5, <1>15 DEF FlushEnd
\* The steps that take a task off the list.
<1>16. CASE Take
  <2>1. CASE taskList # <<>> /\ threadState # "TERMINATED"
    <3>1. /\ taskList' = Tail(taskList) /\ cur' = Head(taskList) /\ pc' = "exec"
          /\ fate' = [fate EXCEPT ![Head(taskList)] = "taken"]
          /\ pc \in {"lock", "awake"}
          /\ UNCHANGED <<threadState, lock, inner, phase>>
      BY <1>16, <2>1 DEF Take
    <3>2. /\ ListHolds' /\ FrontFirst'
          /\ cur' \in Tasks /\ fate[cur'] = "queued" /\ fate'[cur'] = "taken"
          /\ \A u \in Tasks \ {cur'} : fate'[u] = fate[u]
      BY <2>1, <3>1, PopKeepsList
    <3>3. LocalsHold' /\ LockHeld'
      BY <1>0, <2>1, <3>1, <3>2
    <3>4. QED
      BY <3>2, <3>3 DEF IInv
  <2>2. CASE ~(taskList # <<>> /\ threadState # "TERMINATED")
    BY <1>0, <1>5, <1>16, <2>2 DEF Take
  <2>3. QED
    BY <2>1, <2>2
<1>17. CASE FlushTake
  <2>1. /\ taskList # <<>> /\ taskList' = Tail(taskList)
        /\ inner' = Head(taskList) /\ pc = "flush" /\ pc' = "flushBody"
        /\ fate' = [fate EXCEPT ![Head(taskList)] = "running"]
        /\ UNCHANGED <<threadState, lock, cur, phase>>
    BY <1>17 DEF FlushTake
  <2>2. /\ ListHolds' /\ FrontFirst'
        /\ inner' \in Tasks /\ fate[inner'] = "queued" /\ fate'[inner'] = "running"
        /\ \A u \in Tasks \ {inner'} : fate'[u] = fate[u]
    BY <2>1, PopKeepsList
  <2>3. LocalsHold' /\ LockHeld'
    BY <1>0, <2>1, <2>2
  <2>4. QED
    BY <2>2, <2>3 DEF IInv
\* The steps that move a task which is being served.
<1>18. ASSUME NEW t \in {cur, inner} \ {NoTask}, NEW v \in Fates, v # "queued",
              fate' = [fate EXCEPT ![t] = v], taskList' = taskList
       PROVE  /\ ListHolds' /\ FrontFirst' /\ fate'[t] = v
              /\ \A u \in Tasks \ {t} : fate'[u] = fate[u]
  <2>1. fate[t] # "queued" /\ t \in Tasks
    BY <1>0
  <2>2. fate'[t] = v /\ \A u \in Tasks \ {t} : fate'[u] = fate[u]
    BY <1>0, <1>18, <2>1
  <2>3. QED
    BY <1>18, <2>1, <2>2, StayKeepsList
<1>19. CASE Drop
  <2>1. cur \in {cur, inner} \ {NoTask} /\ "expired" \in Fates
    BY <1>0, <1>19 DEF Drop, Fates
  <2>2. /\ ListHolds' /\ FrontFirst' /\ fate'[cur] = "expired"
        /\ \A u \in Tasks \ {cur} : fate'[u] = fate[u]
    BY <1>18, <1>19, <2>1 DEF Drop
  <2>3. LocalsHold' /\ LockHeld'
    BY <1>0, <1>19, <2>2 DEF Drop
  <2>4. QED
    BY <2>2, <2>3 DEF IInv
<1>20. CASE Execute
  <2>1. cur \in {cur, inner} \ {NoTask} /\ "running" \in Fates
    BY <1>0, <1>20 DEF Execute, Fates
  <2>2. /\ ListHolds' /\ FrontFirst' /\ fate'[cur] = "running"
        /\ \A u \in Tasks \ {cur} : fate'[u] = fate[u]
    BY <1>18, <1>20, <2>1 DEF Execute
  <2>3. LocalsHold' /\ LockHeld'
    BY <1>0, <1>20, <2>2 DEF Execute
  <2>4. QED
    BY <2>2, <2>3 DEF IInv
<1>21. CASE Finish
  <2>1. cur \in {cur, inner} \ {NoTask} /\ "executed" \in Fates
    BY <1>0, <1>21 DEF Finish, Fates
  <2>2. /\ ListHolds' /\ FrontFirst' /\ fate'[cur] = "executed"
        /\ \A u \in Tasks \ {cur} : fate'[u] = fate[u]
    BY <1>18, <1>21, <2>1 DEF Finish
  <2>3. LocalsHold' /\ LockHeld'
    BY <1>0, <1>21, <2>2 DEF Finish
  <2>4. QED
    BY <2>2, <2>3 DEF IInv
<1>22. CASE FlushFinish
  <2>1. inner \in {cur, inner} \ {NoTask} /\ "executed" \in Fates
    BY <1>0, <1>22 DEF FlushFinish, Fates
  <2>2. /\ ListHolds' /\ FrontFirst' /\ fate'[inner] = "executed"
        /\ \A u \in Tasks \ {inner} : fate'[u] = fate[u]
    BY <1>18, <1>22, <2>1 DEF FlushFinish
  <2>3. LocalsHold' /\ LockHeld'
    BY <1>0, <1>22, <2>2 DEF FlushFinish
  <2>4. QED
    BY <2>2, <2>3 DEF IInv
<1>23. CASE UNCHANGED vars
  BY <1>0, <1>5, <1>23 DEF vars
<1>24. QED
  BY <1>2, <1>3, <1>4, <1>6, <1>7, <1>8, <1>9, <1>10, <1>11, <1>12, <1>13, <1>14, <1>15,
     <1>16, <1>17, <1>19, <1>20, <1>21, <1>22, <1>23 DEF Next, DispatcherThread

\* The inductive invariant holds in every behaviour.
THEOREM Invariance == Spec => []IInv
<1>1. Init => TypeOK /\ IInv
  <2> SUFFICES ASSUME Init PROVE IInv
    BY DEF IInv
  <2>1. TypeOK
    BY TasksAssumption DEF Init, TypeOK, States, PCs, Phases, Fates
  <2>2. ListHolds /\ LocalsHold /\ LockHeld
    BY DEF Init, ListHolds, LocalsHold, LockHeld
  <2>3. FrontFirst
    <3>1. Len(taskList) = 0
      BY DEF Init
    <3>2. QED
      BY <3>1 DEF FrontFirst
  <2>4. QED
    BY <2>1, <2>2, <2>3 DEF IInv
<1>2. IInv /\ TypeOK' /\ [Next]_vars => IInv'
  BY NextIInv
<1>3. QED
  BY <1>1, <1>2, TypeCorrect, PTL DEF Spec

\* No task is in two places: the list holds the queued ones, each once and the urgent
\* ones first, and the thread's two local pointers hold those that are being served.
THEOREM OwnersCorrect == Spec => []OneOwner
<1>1. IInv => OneOwner
  <2> SUFFICES ASSUME IInv PROVE OneOwner
    OBVIOUS
  <2>1. /\ \A i \in 1 .. Len(taskList) : taskList[i] \in Tasks
        /\ Len(taskList) \in Nat /\ cur \in Tasks \cup {NoTask}
        /\ inner \in Tasks \cup {NoTask} /\ NoTask \notin Tasks
    BY TasksAssumption DEF IInv, TypeOK
  <2>2. Elems(taskList) = {t \in Tasks : fate[t] = "queued"}
    BY <2>1 DEF IInv, ListHolds, Elems
  <2>3. \A i, j \in 1 .. Len(taskList) : taskList[i] = taskList[j] => i = j
    BY DEF IInv, ListHolds
  <2>4. \A i, j \in 1 .. Len(taskList) :
          i < j /\ taskList[j] \in FrontTasks => taskList[i] \in FrontTasks
    BY <2>1 DEF IInv, FrontFirst
  <2>5. {t \in Tasks : fate[t] \in {"taken", "running"}} = {cur, inner} \ {NoTask}
    BY <2>1 DEF IInv, LocalsHold
  <2>6. cur # NoTask => cur # inner
    BY DEF IInv, LocalsHold
  <2>7. QED
    BY <2>2, <2>3, <2>4, <2>5, <2>6 DEF OneOwner
<1>2. QED
  BY <1>1, Invariance, PTL

-----------------------------------------------------------------------------
(* The refinement of the two-class queue                                   *)

\* A slice of a list of tasks, by its first position and its length.
LEMMA Slice ==
  ASSUME NEW q \in Seq(Tasks), NEW m \in 0 .. Len(q), NEW k \in m .. Len(q)
  PROVE  /\ SubSeq(q, m + 1, k) \in Seq(Tasks)
         /\ Len(SubSeq(q, m + 1, k)) = k - m
         /\ \A i \in 1 .. k - m : SubSeq(q, m + 1, k)[i] = q[m + i]
<1>1. m + 1 \in Int /\ k \in Int /\ \A i \in m + 1 .. k : q[i] \in Tasks
  OBVIOUS
<1> DEFINE B == SubSeq(q, m + 1, k)
<1>2. /\ B \in Seq(Tasks)
      /\ Len(B) = IF m + 1 <= k THEN k - (m + 1) + 1 ELSE 0
      /\ \A i \in 1 .. k - (m + 1) + 1 : B[i] = q[(m + 1) + i - 1]
  BY <1>1, SubSeqProperties
<1> HIDE DEF B
<1>3. Len(B) = k - m
  BY <1>2
<1>4. ASSUME NEW i \in 1 .. k - m PROVE B[i] = q[m + i]
  <2>1. i \in 1 .. k - (m + 1) + 1 /\ (m + 1) + i - 1 = m + i
    OBVIOUS
  <2>2. QED
    BY <1>2, <2>1
<1>5. QED
  BY <1>2, <1>3, <1>4 DEF B

\* How the two halves of a list change when a task is put before it or behind it ...
LEMMA SplitPush ==
  ASSUME NEW q \in Seq(Tasks), NEW n \in 0 .. Len(q), NEW t \in Tasks
  PROVE  /\ SubSeq(<<t>> \o q, 1, n + 1) = <<t>> \o SubSeq(q, 1, n)
         /\ SubSeq(<<t>> \o q, (n + 1) + 1, Len(q) + 1) = SubSeq(q, n + 1, Len(q))
         /\ SubSeq(Append(q, t), 1, n) = SubSeq(q, 1, n)
         /\ SubSeq(Append(q, t), n + 1, Len(q) + 1) = Append(SubSeq(q, n + 1, Len(q)), t)
<1> DEFINE L == Len(q)
<1> DEFINE F == SubSeq(q, 0 + 1, n)
<1> DEFINE B == SubSeq(q, n + 1, L)
<1> DEFINE p == <<t>> \o q
<1> DEFINE a == Append(q, t)
<1>0. L \in Nat /\ n \in 0 .. L /\ 0 + 1 = 1
  OBVIOUS
<1>1. /\ L \in Nat /\ n \in Nat /\ 0 \in 0 .. L /\ n \in 0 .. L /\ 0 + 1 = 1
      /\ a \in Seq(Tasks) /\ Len(a) = L + 1 /\ a[L + 1] = t
      /\ \A i \in 1 .. L : a[i] = q[i]
      /\ p \in Seq(Tasks) /\ Len(p) = L + 1 /\ p[1] = t
      /\ \A i \in 2 .. L + 1 : p[i] = q[i - 1]
  BY ListShapes
<1>2. /\ F \in Seq(Tasks) /\ Len(F) = n /\ \A i \in 1 .. n : F[i] = q[0 + i]
  BY <1>0, Slice
<1>3. /\ B \in Seq(Tasks) /\ Len(B) = L - n /\ \A i \in 1 .. L - n : B[i] = q[n + i]
  <2>1. L \in n .. Len(q)
    BY <1>0
  <2>2. QED
    BY <1>0, <2>1, Slice
<1>4. SubSeq(p, 0 + 1, n + 1) = <<t>> \o F
  <2> DEFINE s == SubSeq(p, 0 + 1, n + 1)
  <2>1. s \in Seq(Tasks) /\ Len(s) = n + 1 /\ \A i \in 1 .. n + 1 : s[i] = p[0 + i]
    BY <1>1, Slice
  <2>2. /\ <<t>> \o F \in Seq(Tasks) /\ Len(<<t>> \o F) = n + 1
        /\ (<<t>> \o F)[1] = t /\ \A i \in 2 .. n + 1 : (<<t>> \o F)[i] = F[i - 1]
    BY <1>2, ListShapes
  <2> HIDE DEF s, F, p
  <2>3. ASSUME NEW i \in 1 .. n + 1 PROVE s[i] = (<<t>> \o F)[i]
    <3>1. s[i] = p[i] /\ i \in 1 .. L + 1
      BY <1>0, <2>1
    <3>2. CASE i = 1
      BY <1>1, <2>2, <3>1, <3>2
    <3>3. CASE i # 1
      <4>1. i \in 2 .. n + 1 /\ i \in 2 .. L + 1 /\ i - 1 \in 1 .. n /\ 0 + (i - 1) = i - 1
        BY <1>0, <3>3
      <4>2. QED
        BY <1>1, <1>2, <2>2, <3>1, <4>1
    <3>4. QED
      BY <3>2, <3>3
  <2>4. QED
    BY <2>1, <2>2, <2>3, SeqEqual DEF s
<1>5. SubSeq(p, (n + 1) + 1, L + 1) = B
  <2> DEFINE s == SubSeq(p, (n + 1) + 1, L + 1)
  <2>1. /\ s \in Seq(Tasks) /\ Len(s) = L - n
        /\ \A i \in 1 .. L - n : s[i] = p[(n + 1) + i]
    <3> DEFINE m == n + 1
               k == L + 1
    <3>1. m \in 0 .. Len(p) /\ k \in m .. Len(p) /\ k - m = L - n /\ p \in Seq(Tasks)
      BY <1>1
    <3> HIDE DEF p, m, k
    <3>2. /\ SubSeq(p, m + 1, k) \in Seq(Tasks) /\ Len(SubSeq(p, m + 1, k)) = k - m
          /\ \A i \in 1 .. k - m : SubSeq(p, m + 1, k)[i] = p[m + i]
      BY <3>1, Slice
    <3> HIDE DEF L
    <3>3. QED
      BY <3>1, <3>2 DEF m, k
  <2> HIDE DEF s, B, p
  <2>2. ASSUME NEW i \in 1 .. L - n PROVE s[i] = B[i]
    <3>1. (n + 1) + i \in 2 .. L + 1 /\ ((n + 1) + i) - 1 = n + i
      BY <1>1
    <3>2. QED
      BY <1>1, <1>3, <2>1, <3>1
  <2>3. QED
    BY <1>3, <2>1, <2>2, SeqEqual DEF s
<1>6. SubSeq(a, 0 + 1, n) = F
  <2> DEFINE s == SubSeq(a, 0 + 1, n)
  <2>1. s \in Seq(Tasks) /\ Len(s) = n /\ \A i \in 1 .. n : s[i] = a[0 + i]
    BY <1>1, Slice
  <2> HIDE DEF s, F, a
  <2>2. ASSUME NEW i \in 1 .. n PROVE s[i] = F[i]
    <3>1. 0 + i = i /\ i \in 1 .. L
      BY <1>0
    <3>2. QED
      BY <1>1, <1>2, <2>1, <3>1
  <2>3. QED
    BY <1>2, <2>1, <2>2, SeqEqual DEF s
<1>7. SubSeq(a, n + 1, L + 1) = Append(B, t)
  <2> DEFINE s == SubSeq(a, n + 1, L + 1)
  <2>1. /\ s \in Seq(Tasks) /\ Len(s) = (L - n) + 1
        /\ \A i \in 1 .. (L - n) + 1 : s[i] = a[n + i]
    <3> DEFINE k == L + 1
    <3>1. n \in 0 .. Len(a) /\ k \in n .. Len(a) /\ k - n = (L - n) + 1 /\ a \in Seq(Tasks)
      BY <1>1
    <3> HIDE DEF a, k
    <3>2. /\ SubSeq(a, n + 1, k) \in Seq(Tasks) /\ Len(SubSeq(a, n + 1, k)) = k - n
          /\ \A i \in 1 .. k - n : SubSeq(a, n + 1, k)[i] = a[n + i]
      BY <3>1, Slice
    <3> HIDE DEF L
    <3>3. QED
      BY <3>1, <3>2 DEF k
  <2>2. /\ Append(B, t) \in Seq(Tasks) /\ Len(Append(B, t)) = (L - n) + 1
        /\ Append(B, t)[(L - n) + 1] = t /\ \A i \in 1 .. L - n : Append(B, t)[i] = B[i]
    BY <1>3, AppendProperties
  <2> HIDE DEF s, B, a
  <2>3. ASSUME NEW i \in 1 .. (L - n) + 1 PROVE s[i] = Append(B, t)[i]
    <3>1. CASE i = (L - n) + 1
      <4>1. n + i = L + 1
        BY <1>1, <3>1
      <4>2. QED
        BY <1>1, <2>1, <2>2, <3>1, <4>1
    <3>2. CASE i # (L - n) + 1
      <4>1. i \in 1 .. L - n /\ n + i \in 1 .. L
        BY <1>0, <3>2
      <4>2. QED
        BY <1>1, <1>3, <2>1, <2>2, <4>1
    <3>3. QED
      BY <3>1, <3>2
  <2>4. QED
    BY <2>1, <2>2, <2>3, SeqEqual DEF s
<1>8. QED
  BY <1>1, <1>4, <1>5, <1>6, <1>7

\* ... and when its first task is taken away.
LEMMA SplitPop ==
  ASSUME NEW q \in Seq(Tasks), NEW n \in 0 .. Len(q), q # <<>>
  PROVE  /\ n = 0 => /\ SubSeq(q, 1, n) = <<>> /\ SubSeq(q, n + 1, Len(q)) = q
                     /\ SubSeq(Tail(q), 1, n) = <<>>
                     /\ SubSeq(Tail(q), n + 1, Len(q) - 1) = Tail(q)
         /\ n > 0 => /\ SubSeq(q, 1, n) # <<>> /\ Head(SubSeq(q, 1, n)) = Head(q)
                     /\ SubSeq(Tail(q), 1, n - 1) = Tail(SubSeq(q, 1, n))
                     /\ SubSeq(Tail(q), (n - 1) + 1, Len(q) - 1) = SubSeq(q, n + 1, Len(q))
<1> DEFINE L == Len(q)
<1> DEFINE F == SubSeq(q, 0 + 1, n)
<1> DEFINE B == SubSeq(q, n + 1, L)
<1> DEFINE r == Tail(q)
<1>0. L \in Nat /\ n \in 0 .. L /\ 0 + 1 = 1
  OBVIOUS
<1>1. /\ L \in Nat \ {0} /\ n \in Nat /\ 0 \in 0 .. L /\ n \in 0 .. L /\ 0 + 1 = 1
      /\ Head(q) = q[1] /\ r \in Seq(Tasks) /\ Len(r) = L - 1
      /\ \A i \in 1 .. L - 1 : r[i] = q[i + 1]
  BY HeadTailProperties
<1>2. /\ F \in Seq(Tasks) /\ Len(F) = n /\ \A i \in 1 .. n : F[i] = q[0 + i]
  BY <1>0, Slice
<1>3. /\ B \in Seq(Tasks) /\ Len(B) = L - n /\ \A i \in 1 .. L - n : B[i] = q[n + i]
  <2>1. L \in n .. Len(q)
    BY <1>0
  <2>2. QED
    BY <1>0, <2>1, Slice
<1>4. CASE n = 0
  <2>1. SubSeq(q, 1, n) = <<>> /\ SubSeq(r, 1, n) = <<>>
    BY <1>4, SubSeqEmpty
  <2>2. B = q
    <3> HIDE DEF B
    <3>1. Len(B) = Len(q) /\ \A i \in 1 .. Len(q) : B[i] = q[i]
      BY <1>1, <1>3, <1>4
    <3>2. QED
      BY <1>3, <3>1, SeqEqual
  <2>3. SubSeq(r, n + 1, L - 1) = r
    <3> DEFINE s == SubSeq(r, n + 1, L - 1)
    <3>1. n \in 0 .. Len(r) /\ L - 1 \in n .. Len(r)
      BY <1>1, <1>4
    <3> HIDE DEF r
    <3>2. /\ s \in Seq(Tasks) /\ Len(s) = (L - 1) - n
          /\ \A i \in 1 .. (L - 1) - n : s[i] = r[n + i]
      BY <1>1, <3>1, Slice
    <3> HIDE DEF s
    <3>3. Len(s) = Len(r) /\ \A i \in 1 .. Len(r) : s[i] = r[i]
      BY <1>1, <1>4, <3>2
    <3>4. QED
      BY <1>1, <3>2, <3>3, SeqEqual DEF s
  <2>4. QED
    BY <1>4, <2>1, <2>2, <2>3
<1>5. CASE n > 0
  <2>1. F # <<>>
    BY <1>1, <1>2, <1>5
  <2>2. /\ Tail(F) \in Seq(Tasks) /\ Len(Tail(F)) = n - 1 /\ Head(F) = F[1]
        /\ \A i \in 1 .. n - 1 : Tail(F)[i] = F[i + 1]
    BY <1>2, <2>1, HeadTailProperties
  <2>3. Head(F) = Head(q)
    BY <1>1, <1>2, <1>5, <2>2
  <2>4. SubSeq(r, 0 + 1, n - 1) = Tail(F)
    <3> DEFINE s == SubSeq(r, 0 + 1, n - 1)
    <3>1. 0 \in 0 .. Len(r) /\ n - 1 \in 0 .. Len(r)
      BY <1>1, <1>5
    <3> HIDE DEF r, F
    <3>2. s \in Seq(Tasks) /\ Len(s) = n - 1 /\ \A i \in 1 .. n - 1 : s[i] = r[0 + i]
      BY <1>1, <3>1, Slice
    <3> HIDE DEF s
    <3>3. \A i \in 1 .. n - 1 : s[i] = Tail(F)[i]
      BY <1>1, <1>2, <2>2, <3>2
    <3>4. QED
      BY <2>2, <3>2, <3>3, SeqEqual DEF s
  <2>5. SubSeq(r, (n - 1) + 1, L - 1) = B
    <3> DEFINE s == SubSeq(r, (n - 1) + 1, L - 1)
    <3>1. /\ n - 1 \in 0 .. Len(r) /\ L - 1 \in n - 1 .. Len(r)
          /\ (L - 1) - (n - 1) = L - n
      BY <1>1, <1>5
    <3> HIDE DEF r
    <3>2. /\ s \in Seq(Tasks) /\ Len(s) = L - n
          /\ \A i \in 1 .. L - n : s[i] = r[(n - 1) + i]
      BY <1>1, <3>1, Slice
    <3> HIDE DEF s, B
    <3>3. ASSUME NEW i \in 1 .. L - n PROVE s[i] = B[i]
      <4>1. (n - 1) + i \in 1 .. L - 1 /\ ((n - 1) + i) + 1 = n + i
        BY <1>1, <1>5
      <4>2. QED
        BY <1>1, <1>3, <3>2, <4>1
    <3>4. QED
      BY <1>3, <3>2, <3>3, SeqEqual DEF s
  <2>6. QED
    BY <1>0, <1>5, <2>1, <2>3, <2>4, <2>5
<1>6. QED
  BY <1>1, <1>4, <1>5

\* The urgent positions of a list that has its first n tasks urgent are n.
LEMMA CountUrgent ==
  ASSUME NEW q \in Seq(Tasks), NEW n \in 0 .. Len(q),
         \A i \in 1 .. Len(q) : q[i] \in FrontTasks <=> i <= n
  PROVE  Cardinality({i \in 1 .. Len(q) : q[i] \in FrontTasks}) = n
<1>1. n \in Nat /\ Len(q) \in Nat
  OBVIOUS
<1>2. {i \in 1 .. Len(q) : q[i] \in FrontTasks} = 1 .. n
  BY <1>1
<1>3. Cardinality(1 .. n) = n
  BY <1>1, FS_Interval
<1>4. QED
  BY <1>2, <1>3

\* Where the urgent half of the list ends.
LEMMA UrgentsCounted ==
  ASSUME IInv, NEW n \in 0 .. Len(taskList),
         \A i \in 1 .. Len(taskList) : taskList[i] \in FrontTasks <=> i <= n
  PROVE  Urgents = n
BY CountUrgent DEF IInv, TypeOK, Urgents

\* An accepted task joins one of the two halves.
LEMMA HalvesEnqueue ==
  ASSUME IInv, NEW t \in Tasks, taskList' = Push(t)
  PROVE  IF t \in FrontTasks
         THEN Urgent' = <<t>> \o Urgent /\ Normal' = Normal
         ELSE Normal' = Append(Normal, t) /\ Urgent' = Urgent
<1> DEFINE L == Len(taskList)
<1>1. /\ taskList \in Seq(Tasks) /\ L \in Nat /\ taskList' \in Seq(Tasks)
      /\ \A i \in 1 .. L : taskList[i] \in Tasks
  BY ListShapes DEF IInv, TypeOK, Push
<1>2. PICK n \in 0 .. L : \A i \in 1 .. L : taskList[i] \in FrontTasks <=> i <= n
  BY DEF IInv, FrontFirst
<1>3. Urgents = n
  BY <1>2, UrgentsCounted
<1>4. CASE t \in FrontTasks
  <2>1. /\ taskList' = <<t>> \o taskList /\ Len(taskList') = L + 1 /\ taskList'[1] = t
        /\ \A i \in 2 .. L + 1 : taskList'[i] = taskList[i - 1] /\ i - 1 \in 1 .. L
    BY <1>1, <1>4, ListShapes DEF Push
  <2>2. n + 1 \in 0 .. L + 1
    BY <1>1
  <2>3. \A i \in 1 .. L + 1 : taskList'[i] \in FrontTasks <=> i <= n + 1
    BY <1>1, <1>2, <1>4, <2>1
  <2>4. Cardinality({i \in 1 .. Len(taskList') : taskList'[i] \in FrontTasks}) = n + 1
    BY <1>1, <2>1, <2>2, <2>3, CountUrgent
  <2>5. Urgents' = n + 1
    BY <2>4 DEF Urgents
  <2>6. /\ SubSeq(taskList', 1, n + 1) = <<t>> \o SubSeq(taskList, 1, n)
        /\ SubSeq(taskList', (n + 1) + 1, L + 1) = SubSeq(taskList, n + 1, L)
    BY <1>1, <2>1, SplitPush
  <2>7. QED
    BY <1>3, <1>4, <2>1, <2>5, <2>6 DEF Urgent, Normal
<1>5. CASE t \notin FrontTasks
  <2>1. /\ taskList' = Append(taskList, t) /\ Len(taskList') = L + 1
        /\ taskList'[L + 1] = t
        /\ \A i \in 1 .. L : taskList'[i] = taskList[i]
    BY <1>1, <1>5, ListShapes DEF Push
  <2>2. \A i \in 1 .. L + 1 : i = L + 1 \/ i \in 1 .. L
    BY <1>1
  <2>3. \A i \in 1 .. L + 1 : taskList'[i] \in FrontTasks <=> i <= n
    BY <1>1, <1>2, <1>5, <2>1, <2>2
  <2>4. n \in 0 .. Len(taskList')
    BY <1>1, <2>1
  <2>5. Cardinality({i \in 1 .. Len(taskList') : taskList'[i] \in FrontTasks}) = n
    BY <1>1, <2>1, <2>3, <2>4, CountUrgent
  <2>6. Urgents' = n
    BY <2>5 DEF Urgents
  <2>7. /\ SubSeq(taskList', 1, n) = SubSeq(taskList, 1, n)
        /\ SubSeq(taskList', n + 1, L + 1) = Append(SubSeq(taskList, n + 1, L), t)
    <3>1. /\ SubSeq(Append(taskList, t), 1, n) = SubSeq(taskList, 1, n)
          /\ SubSeq(Append(taskList, t), n + 1, L + 1) = Append(SubSeq(taskList, n + 1, L), t)
      BY <1>1, SplitPush
    <3>2. QED
      BY <2>1, <3>1
  <2>8. QED
    BY <1>3, <1>5, <2>1, <2>6, <2>7 DEF Urgent, Normal
<1>6. QED
  BY <1>4, <1>5

\* The first task of the list is the newest urgent one, else the oldest of the others.
LEMMA HalvesPop ==
  ASSUME IInv, taskList # <<>>, taskList' = Tail(taskList)
  PROVE  \/ /\ Urgent # <<>> /\ Head(Urgent) = Head(taskList)
            /\ Urgent' = Tail(Urgent) /\ Normal' = Normal
         \/ /\ Urgent = <<>> /\ Normal # <<>> /\ Head(Normal) = Head(taskList)
            /\ Normal' = Tail(Normal) /\ Urgent' = Urgent
<1> DEFINE L == Len(taskList)
<1>1. /\ taskList \in Seq(Tasks) /\ L \in Nat \ {0} /\ taskList' \in Seq(Tasks)
      /\ Len(taskList') = L - 1
      /\ \A i \in 1 .. L - 1 : taskList'[i] = taskList[i + 1] /\ i + 1 \in 1 .. L
  <2>1. PICK u \in Tasks : TRUE
    BY TasksAssumption
  <2>2. QED
    BY <2>1, ListShapes DEF IInv, TypeOK
<1>2. PICK n \in 0 .. L : \A i \in 1 .. L : taskList[i] \in FrontTasks <=> i <= n
  BY DEF IInv, FrontFirst
<1>3. Urgents = n
  BY <1>2, UrgentsCounted
<1> DEFINE m == IF n = 0 THEN 0 ELSE n - 1
<1>4. m \in 0 .. L - 1
  BY <1>1
<1>5. \A i \in 1 .. L - 1 : taskList'[i] \in FrontTasks <=> i <= m
  BY <1>1, <1>2
<1>6. Cardinality({i \in 1 .. Len(taskList') : taskList'[i] \in FrontTasks}) = m
  <2> HIDE DEF m
  <2>1. QED
    BY <1>1, <1>4, <1>5, CountUrgent
<1>7. Urgents' = m
  BY <1>6 DEF Urgents
<1>8. CASE n = 0
  <2>1. /\ SubSeq(taskList, 1, n) = <<>> /\ SubSeq(taskList, n + 1, L) = taskList
        /\ SubSeq(taskList', 1, n) = <<>> /\ SubSeq(taskList', n + 1, L - 1) = taskList'
    BY <1>1, <1>8, SplitPop
  <2>2. QED
    BY <1>1, <1>3, <1>7, <1>8, <2>1 DEF Urgent, Normal
<1>9. CASE n > 0
  <2>1. /\ SubSeq(taskList, 1, n) # <<>>
        /\ Head(SubSeq(taskList, 1, n)) = Head(taskList)
        /\ SubSeq(taskList', 1, n - 1) = Tail(SubSeq(taskList, 1, n))
        /\ SubSeq(taskList', (n - 1) + 1, L - 1) = SubSeq(taskList, n + 1, L)
    BY <1>1, <1>9, SplitPop
  <2>2. Urgents' = n - 1 /\ Len(taskList') = L - 1
    BY <1>1, <1>7, <1>9
  <2>3. QED
    BY <1>3, <2>1, <2>2 DEF Urgent, Normal
<1>10. QED
  BY <1>1, <1>8, <1>9

\* An empty list has two empty halves.
LEMMA HalvesEmpty ==
  ASSUME IInv, taskList = <<>>
  PROVE  Urgent = <<>> /\ Normal = <<>>
<1>1. Len(taskList) = 0
  OBVIOUS
<1>2. Urgents = 0
  BY <1>1, UrgentsCounted
<1>3. SubSeq(taskList, 1, 0) = <<>> /\ SubSeq(taskList, 0 + 1, 0) = <<>>
  BY SubSeqEmpty
<1>4. QED
  BY <1>1, <1>2, <1>3 DEF Urgent, Normal

\* Nobody touches the list.
LEMMA HalvesStay ==
  ASSUME taskList' = taskList
  PROVE  Urgent' = Urgent /\ Normal' = Normal
BY DEF Urgent, Normal, Urgents

\* The abstract stage follows the fate of the one task that a step moves ...
LEMMA StageMoves ==
  ASSUME fate \in [Tasks -> Fates], NEW t \in Tasks, NEW v \in Fates,
         fate' = [fate EXCEPT ![t] = v]
  PROVE  Stage' = [Stage EXCEPT ![t] = StageOf(v)]
BY DEF Stage

\* ... and stays when no task is moved.
LEMMA StageStays ==
  ASSUME fate' = fate
  PROVE  Stage' = Stage
BY DEF Stage

\* Every step of the dispatcher is one of the queue, or a stutter.
LEMMA StepImplements ==
  ASSUME IInv, IInv', [Next]_vars
  PROVE  [Queue!QNext]_Queue!qvars
<1> DEFINE Stutters == UNCHANGED <<Urgent, Normal, Serving, Stage, Gate>>
<1>0. /\ fate \in [Tasks -> Fates] /\ threadState \in States
      /\ lock \in {"free", "dispatcher"}
      /\ NoTask \notin Tasks /\ Closers \cap Shutters = {}
      /\ cur \in Tasks \cup {NoTask} /\ inner \in Tasks \cup {NoTask}
      /\ LocalsHold /\ LockHeld
  BY TasksAssumption DEF IInv, TypeOK
<1>1. Stutters => [Queue!QNext]_Queue!qvars
  BY DEF Queue!qvars
<1>2. \A t \in Tasks : Stage[t] = StageOf(fate[t])
  BY DEF Stage
\* addTask(): accepted while the dispatcher runs, else refused.
<1>3. ASSUME NEW t \in Tasks, Enqueue(t), UNCHANGED <<threadState, lock, cur, inner>>
      PROVE  Queue!QNext
  <2>1. UNCHANGED <<Serving, Gate>>
    BY <1>3 DEF Serving, Gate
  <2>2. lock = "free" /\ Stage[t] = "new"
    BY <1>2, <1>3 DEF Enqueue, StageOf
  <2>3. CASE threadState = "RUNNING"
    <3>1. taskList' = Push(t) /\ fate' = [fate EXCEPT ![t] = "queued"]
      BY <1>3, <2>3 DEF Enqueue
    <3>2. Stage' = [Stage EXCEPT ![t] = "waiting"]
      BY <1>0, <3>1, StageMoves DEF Fates, StageOf
    <3>3. IF t \in FrontTasks
          THEN Urgent' = <<t>> \o Urgent /\ Normal' = Normal
          ELSE Normal' = Append(Normal, t) /\ Urgent' = Urgent
      BY <3>1, HalvesEnqueue
    <3>4. Gate = "open"
      BY <2>2, <2>3 DEF Gate
    <3>5. Queue!Accept(t)
      BY <2>1, <2>2, <3>2, <3>3, <3>4 DEF Queue!Accept
    <3>6. QED
      BY <3>5 DEF Queue!QNext
  <2>4. CASE threadState # "RUNNING"
    <3>1. taskList' = taskList /\ fate' = [fate EXCEPT ![t] = "leaked"]
      BY <1>3, <2>4 DEF Enqueue
    <3>2. Stage' = [Stage EXCEPT ![t] = "refused"]
      BY <1>0, <3>1, StageMoves DEF Fates, StageOf
    <3>3. Gate # "open"
      BY <1>0, <2>2, <2>4 DEF Gate, States
    <3>4. Queue!Refuse(t)
      BY <2>1, <2>2, <3>1, <3>2, <3>3, HalvesStay DEF Queue!Refuse
    <3>5. QED
      BY <3>4 DEF Queue!QNext
  <2>5. QED
    BY <2>3, <2>4
<1>4. ASSUME NEW p \in Threads, NEW t \in Tasks, AddTask(p, t) PROVE Queue!QNext
  BY <1>3, <1>4 DEF AddTask
<1>5. ASSUME NEW t \in Tasks, BodyPost(t) PROVE Queue!QNext
  BY <1>3, <1>5 DEF BodyPost
<1>6. CASE CloserPosts
  <2>1. Posted \in Tasks
    BY TasksAssumption
  <2>2. QED
    BY <1>3, <1>6, <2>1 DEF CloserPosts
\* The steps that callers cannot see.
<1>7. ASSUME UNCHANGED <<taskList, fate, threadState, lock, cur, inner>> PROVE Stutters
  BY <1>7, HalvesStay, StageStays DEF Serving, Gate
<1>8. ASSUME NEW p \in Threads, Notify(p) PROVE Stutters
  BY <1>7, <1>8 DEF Notify
<1>9. ASSUME NEW t \in Expiring, Expire(t) PROVE Stutters
  BY <1>7, <1>9 DEF Expire
<1>10. CASE SpuriousWakeup \/ Check \/ Wait \/ CloserReturns \/ FlushBlocks \/ UNCHANGED vars
  BY <1>1, <1>7, <1>10 DEF SpuriousWakeup, Check, Wait, CloserReturns, FlushBlocks, vars
<1>11. CASE Execute
  <2>1. /\ cur \in Tasks /\ fate[cur] = "taken" /\ fate' = [fate EXCEPT ![cur] = "running"]
        /\ UNCHANGED <<taskList, threadState, lock, cur, inner>>
    BY <1>0, <1>11 DEF Execute, LocalsHold
  <2>2. Stage' = Stage
    <3>1. Stage' = [Stage EXCEPT ![cur] = "started"]
      BY <1>0, <2>1, StageMoves DEF Fates, StageOf
    <3>2. Stage[cur] = "started"
      BY <1>2, <2>1 DEF StageOf
    <3>3. QED
      BY <3>1, <3>2 DEF Stage
  <2>3. QED
    BY <1>1, <2>1, <2>2, HalvesStay DEF Serving, Gate
\* The first task of the list is started.
<1>12. ASSUME taskList # <<>>, taskList' = Tail(taskList),
              NEW v \in {"taken", "running"}, fate' = [fate EXCEPT ![Head(taskList)] = v],
              Gate # "shut", Gate' = Gate, Serving' = Append(Serving, Head(taskList)),
              Len(Serving) = IF Gate = "draining" THEN 1 ELSE 0
       PROVE  Queue!QNext
  <2>1. Head(taskList) \in Tasks
    BY <1>12 DEF IInv, TypeOK
  <2>2. Stage' = [Stage EXCEPT ![Head(taskList)] = "started"]
    <3>1. v \in Fates /\ StageOf(v) = "started"
      BY DEF Fates, StageOf
    <3>2. QED
      BY <1>0, <1>12, <2>1, <3>1, StageMoves
  <2>3. \/ /\ Urgent # <<>> /\ Head(Urgent) = Head(taskList)
           /\ Urgent' = Tail(Urgent) /\ Normal' = Normal
        \/ /\ Urgent = <<>> /\ Normal # <<>> /\ Head(Normal) = Head(taskList)
           /\ Normal' = Tail(Normal) /\ Urgent' = Urgent
    BY <1>12, HalvesPop
  <2>4. Queue!Start
    BY <1>12, <2>2, <2>3 DEF Queue!Start
  <2>5. QED
    BY <2>4 DEF Queue!QNext
<1>13. CASE Take
  <2>1. CASE taskList # <<>> /\ threadState # "TERMINATED"
    <3>1. /\ pc \in {"lock", "awake"} /\ lock = "free" /\ cur' = Head(taskList)
          /\ taskList' = Tail(taskList)
          /\ fate' = [fate EXCEPT ![Head(taskList)] = "taken"]
          /\ UNCHANGED <<threadState, lock, inner>>
      BY <1>13, <2>1 DEF Take
    <3>2. cur = NoTask /\ inner = NoTask /\ Head(taskList) # NoTask
      <4>1. Head(taskList) \in Tasks
        BY <2>1 DEF IInv, TypeOK
      <4>2. QED
        BY <1>0, <3>1, <4>1 DEF LocalsHold
    <3>3. Serving = <<>> /\ Serving' = Append(Serving, Head(taskList))
      BY <3>1, <3>2 DEF Serving
    <3>4. Gate \notin {"draining", "shut"} /\ Gate' = Gate
      BY <2>1, <3>1 DEF Gate
    <3>5. Len(Serving) = 0
      BY <3>3
    <3>6. QED
      BY <1>12, <2>1, <3>1, <3>3, <3>4, <3>5
  <2>2. CASE ~(taskList # <<>> /\ threadState # "TERMINATED")
    BY <1>7, <1>13, <2>2, <1>1 DEF Take
  <2>3. QED
    BY <2>1, <2>2
<1>14. CASE FlushTake
  <2>1. /\ pc = "flush" /\ taskList # <<>> /\ inner' = Head(taskList)
        /\ taskList' = Tail(taskList)
        /\ fate' = [fate EXCEPT ![Head(taskList)] = "running"]
        /\ UNCHANGED <<threadState, lock, cur>>
    BY <1>14 DEF FlushTake
  <2>2. cur # NoTask /\ inner = NoTask /\ lock = "dispatcher" /\ Head(taskList) # NoTask
    <3>1. Head(taskList) \in Tasks
      BY <2>1 DEF IInv, TypeOK
    <3>2. QED
      BY <1>0, <2>1, <3>1 DEF LocalsHold, LockHeld
  <2>3. Serving = <<cur>> /\ Serving' = Append(Serving, Head(taskList))
    BY <2>1, <2>2 DEF Serving
  <2>4. Gate = "draining" /\ Gate' = Gate
    BY <2>1, <2>2 DEF Gate
  <2>5. Len(Serving) = 1
    BY <2>3
  <2>6. QED
    BY <1>12, <2>1, <2>3, <2>4, <2>5
\* The task served last ends.
<1>15. ASSUME NEW t \in Tasks, NEW v \in {"executed", "expired"},
              fate' = [fate EXCEPT ![t] = v], taskList' = taskList, Gate' = Gate,
              Serving # <<>>, Serving[Len(Serving)] = t,
              Serving' = SubSeq(Serving, 1, Len(Serving) - 1),
              Gate = "draining" => Len(Serving) = 2
       PROVE  Queue!QNext
  <2>1. Stage' = [Stage EXCEPT ![t] = "ended"]
    <3>1. v \in Fates /\ StageOf(v) = "ended"
      BY DEF Fates, StageOf
    <3>2. Stage' = [Stage EXCEPT ![t] = StageOf(v)]
      BY <1>0, <1>15, <3>1, StageMoves
    <3>3. QED
      BY <3>1, <3>2
  <2>2. Urgent' = Urgent /\ Normal' = Normal
    BY <1>15, HalvesStay
  <2>3. Stage' = [Stage EXCEPT ![Serving[Len(Serving)]] = "ended"]
    BY <1>15, <2>1
  <2>4. Queue!End
    BY <1>15, <2>2, <2>3, Zenon DEF Queue!End
  <2>5. QED
    BY <2>4 DEF Queue!QNext
<1>16. CASE Drop \/ Finish
  <2>1. /\ pc \in {"exec", "body"} /\ taskList' = taskList /\ cur' = NoTask
        /\ \E v \in {"executed", "expired"} : fate' = [fate EXCEPT ![cur] = v]
        /\ UNCHANGED <<threadState, lock, inner>>
    BY <1>16 DEF Drop, Finish
  <2>2. cur \in Tasks /\ cur # NoTask /\ inner = NoTask /\ lock = "free"
    BY <1>0, <2>1 DEF LocalsHold, LockHeld
  <2>3. Serving = <<cur>> /\ Serving' = <<>>
    BY <2>1, <2>2 DEF Serving
  <2>4. Gate # "draining" /\ Gate' = Gate
    BY <2>1, <2>2 DEF Gate
  <2>5. /\ Serving # <<>> /\ Serving[Len(Serving)] = cur
        /\ Serving' = SubSeq(Serving, 1, Len(Serving) - 1)
    BY <2>3
  <2>6. QED
    BY <1>15, <2>1, <2>2, <2>4, <2>5
<1>17. CASE FlushFinish
  <2>1. /\ pc = "flushBody" /\ taskList' = taskList /\ inner' = NoTask
        /\ fate' = [fate EXCEPT ![inner] = "executed"]
        /\ UNCHANGED <<threadState, lock, cur>>
    BY <1>17 DEF FlushFinish
  <2>2. inner \in Tasks /\ inner # NoTask /\ cur # NoTask
    BY <1>0, <2>1 DEF LocalsHold
  <2>3. Serving = <<cur, inner>> /\ Serving' = <<cur>>
    BY <2>1, <2>2 DEF Serving
  <2>4. Gate' = Gate
    BY <2>1 DEF Gate
  <2>5. /\ Serving # <<>> /\ Serving[Len(Serving)] = inner /\ Len(Serving) = 2
        /\ Serving' = SubSeq(Serving, 1, Len(Serving) - 1)
    BY <2>3
  <2>6. QED
    BY <1>15, <2>1, <2>2, <2>4, <2>5
\* The gate moves.
<1>18. ASSUME pc \in {"body", "flush"}, UNCHANGED <<cur, inner, taskList, fate>>
       PROVE  Len(Serving) = 1 /\ UNCHANGED <<Urgent, Normal, Serving, Stage>>
  <2>1. cur # NoTask /\ inner = NoTask
    BY <1>0, <1>18 DEF LocalsHold
  <2>2. Serving = <<cur>> /\ Serving' = Serving
    BY <1>18, <2>1 DEF Serving
  <2>3. QED
    BY <1>18, <2>2, HalvesStay, StageStays
<1>19. CASE Stop
  <2>1. /\ Len(Serving) = 1 /\ UNCHANGED <<Urgent, Normal, Serving, Stage>>
        /\ threadState' = "CLOSING" /\ lock = "free" /\ lock' = "free"
        /\ threadState # "TERMINATED"
    BY <1>0, <1>18, <1>19 DEF Stop, LockHeld
  <2>2. CASE threadState = "RUNNING"
    <3>1. Gate = "open" /\ Gate' = "closed"
      BY <2>1, <2>2 DEF Gate
    <3>2. Queue!Close
      BY <2>1, <3>1 DEF Queue!Close
    <3>3. QED
      BY <3>2 DEF Queue!QNext
  <2>3. CASE threadState = "CLOSING"
    BY <1>1, <2>1, <2>3 DEF Gate
  <2>4. QED
    BY <1>0, <2>1, <2>2, <2>3 DEF States
<1>20. CASE Shutdown
  <2>1. /\ Len(Serving) = 1 /\ UNCHANGED <<Urgent, Normal, Serving, Stage>>
        /\ lock = "free" /\ lock' = "dispatcher" /\ threadState # "TERMINATED"
    BY <1>0, <1>18, <1>20 DEF Shutdown, LockHeld
  <2>2. Gate \in {"open", "closed"} /\ Gate' = "draining"
    BY <2>1 DEF Gate
  <2>3. Queue!Drain
    BY <2>1, <2>2 DEF Queue!Drain
  <2>4. QED
    BY <2>3 DEF Queue!QNext
<1>21. CASE FlushEnd
  <2>1. /\ Len(Serving) = 1 /\ UNCHANGED <<Urgent, Normal, Serving, Stage>>
        /\ taskList = <<>> /\ lock = "dispatcher" /\ lock' = "free"
        /\ threadState = "TERMINATED" /\ threadState' = threadState
    BY <1>0, <1>18, <1>21 DEF FlushEnd, LockHeld
  <2>2. Gate = "draining" /\ Gate' = "shut"
    BY <2>1 DEF Gate
  <2>3. Queue!Shut
    BY <2>1, <2>2, HalvesEmpty DEF Queue!Shut
  <2>4. QED
    BY <2>3 DEF Queue!QNext
<1>22. QED
  BY <1>1, <1>4, <1>5, <1>6, <1>8, <1>9, <1>10, <1>11, <1>13, <1>14, <1>16, <1>17, <1>19,
     <1>20, <1>21 DEF Next, DispatcherThread

\* The dispatcher implements the two-class queue: whatever the threads do, urgent tasks
\* are served before ordinary ones, those in the order they were accepted, one at a time,
\* none accepted after stop() and none left behind by shutdown().
THEOREM Implementation == Spec => ImplementsQueue
<1>1. Init => Queue!QInit
  <2> SUFFICES ASSUME Init PROVE Queue!QInit
    OBVIOUS
  <2>1. Urgent = <<>> /\ Normal = <<>>
    <3>1. Len(taskList) = 0
      BY DEF Init
    <3>2. Urgents = 0
      <4>1. {i \in 1 .. Len(taskList) : taskList[i] \in FrontTasks} = {}
        BY <3>1
      <4>2. QED
        BY <4>1, FS_EmptySet DEF Urgents
    <3>3. QED
      BY <3>1, <3>2, SubSeqEmpty DEF Urgent, Normal
  <2>2. Serving = <<>> /\ Gate = "open"
    BY DEF Init, Serving, Gate
  <2>3. Stage = [t \in Tasks |-> "new"]
    BY DEF Init, Stage, StageOf
  <2>4. QED
    BY <2>1, <2>2, <2>3 DEF Queue!QInit
<1>2. IInv /\ IInv' /\ [Next]_vars => [Queue!QNext]_Queue!qvars
  BY StepImplements
<1>3. QED
  BY <1>1, <1>2, Invariance, PTL DEF Spec, ImplementsQueue, Queue!QSpec

=============================================================================
