----------------------------- MODULE SendLocks ------------------------------
(***************************************************************************)
(* The locks a message passes on its way to one connection: the pool's     *)
(* (m_outputPoolLock), the connection's (m_connectionLock) and that of the *)
(* dispatcher's list (m_taskLock).                                         *)
(*                                                                         *)
(* The dispatcher's thread runs a task, which takes a message for          *)
(* m_outputBuffer if there is none, and then OutputMessagePool::sendAll,   *)
(* which keeps the lock of the pool while it takes that of the connection. *)
(* The io_service's thread keeps the lock of the connection while it       *)
(* handles a packet or the end of a write, and meanwhile posts tasks and,  *)
(* for an account manager, answers: it takes a message of its own.  An      *)
(* account manager's two threads may so wait for each other, if both look  *)
(* for the buffer, which nothing guards, before either has stored one.     *)
(*                                                                         *)
(* A lock that a thread takes and gives back without waiting for another   *)
(* in between is a condition of one step.  What remains is the connection  *)
(* kept by the io_service's thread, the pool kept by sendAll and the list  *)
(* kept by flush, which the threads' program counters tell.                *)
(***************************************************************************)
EXTENDS Naturals, Sequences, FiniteSets, SequencesExt

CONSTANTS
  Msgs,      \* the messages there are at once (bound)
  None,      \* no message
  Manager,   \* the connection is an account manager's
  Shutdown   \* the server may shut down

SendLocksAssumption ==
  None \notin Msgs /\ Manager \in BOOLEAN /\ Shutdown \in BOOLEAN

VARIABLES
  disp,      \* where the dispatcher's thread is
  io,        \* where the io_service's thread is
  taken,     \* the message each thread took and has not stored yet
  buffer,    \* m_outputBuffer
  autoSend,  \* m_autoSend
  addQueue,  \* m_addQueue
  at,        \* sendAll's place in m_autoSend
  writing,   \* the messages of outstanding writes, m_pendingWrite of them
  open,      \* the connection is open
  flushing   \* Dispatcher::flush has begun
vars == <<disp, io, taken, buffer, autoSend, addQueue, at, writing, open, flushing>>

Queued == ToSet(autoSend) \union ToSet(addQueue)
Free == Msgs \ (Queued \union writing \union {taken["disp"], taken["io"]})

\* The threads hold these locks while they wait for others.
PoolHeld == disp \in {"next", "send"}
ConnHeld == io \in {"take", "store", "post"}
ListHeld == flushing

Init ==
  /\ disp = "idle" /\ io = "idle"
  /\ taken = [t \in {"disp", "io"} |-> None]
  /\ buffer = None /\ autoSend = <<>> /\ addQueue = <<>> /\ at = 1
  /\ writing = {} /\ open = TRUE /\ flushing = FALSE

-----------------------------------------------------------------------------
(* The pool                                                                *)

\* OutputMessagePool::getOutputMessage: the message is queued at once.
Take(t, m) ==
  /\ ~PoolHeld
  /\ m \in Free
  /\ taken' = [taken EXCEPT ![t] = m]
  /\ autoSend' = Append(autoSend, m)

\* Protocol::onSendMessage
Unbuffered(m) == IF buffer = m THEN None ELSE buffer

-----------------------------------------------------------------------------
(* The dispatcher's thread                                                 *)

\* A task begins; the list is locked for a moment, or by flush for good.
TaskBegins ==
  /\ disp = "idle"
  /\ disp' = "task"
  /\ UNCHANGED <<io, taken, buffer, autoSend, addQueue, at, writing, open, flushing>>

\* Game::shutdown calls Dispatcher::shutdown, which flushes under the lock.
Flush ==
  /\ Shutdown /\ ~flushing /\ disp = "idle"
  /\ flushing' = TRUE
  /\ UNCHANGED <<disp, io, taken, buffer, autoSend, addQueue, at, writing, open>>

\* The task ends without a word, or looks for the buffer; a message is left
\* for either thread (bound).
TaskSilent ==
  /\ disp = "task"
  /\ disp' = "ended"
  /\ UNCHANGED <<io, taken, buffer, autoSend, addQueue, at, writing, open, flushing>>

TaskAnswers ==
  /\ disp = "task"
  /\ Cardinality(Free) >= 2
  /\ disp' = IF buffer # None THEN "ended" ELSE "take"
  /\ UNCHANGED <<io, taken, buffer, autoSend, addQueue, at, writing, open, flushing>>

TaskTakes ==
  /\ disp = "take"
  /\ \E m \in Msgs : Take("disp", m)
  /\ disp' = "store"
  /\ UNCHANGED <<io, buffer, addQueue, at, writing, open, flushing>>

TaskStores ==
  /\ disp = "store"
  /\ buffer' = taken["disp"]
  /\ taken' = [taken EXCEPT !["disp"] = None]
  /\ disp' = "ended"
  /\ UNCHANGED <<io, autoSend, addQueue, at, writing, open, flushing>>

\* What is left of a queue without these messages.
Without(q, old) ==
  LET left[i \in 0 .. Len(q)] ==
        IF i = 0 THEN <<>>
        ELSE IF q[i] \in old THEN left[i - 1] ELSE Append(left[i - 1], q[i])
  IN  left[Len(q)]

\* Variant: the messages put back are forgotten.
SendAllBeginsOnly(old) == autoSend' = autoSend /\ UNCHANGED <<addQueue, buffer>>
\* sendAll drops what has waited ten seconds for a write, old, and takes the
\* rest of m_addQueue over.
SendAllTakesOver(old) ==
  /\ old # {} => writing # {}
  /\ autoSend' = autoSend \o Without(addQueue, old)
  /\ addQueue' = <<>>
  /\ buffer' = IF buffer \in old THEN None ELSE buffer

SendAllBegins ==
  /\ disp = "ended"
  /\ disp' = "next" /\ at' = 1
  /\ \E old \in SUBSET ToSet(addQueue) : SendAllTakesOver(old)
  /\ UNCHANGED <<io, taken, writing, open, flushing>>

\* A small message that is not ten milliseconds old waits.
SendWaits ==
  /\ disp = "next" /\ at <= Len(autoSend)
  /\ at' = at + 1
  /\ UNCHANGED <<disp, io, taken, buffer, autoSend, addQueue, writing, open, flushing>>

SendNext ==
  /\ disp = "next" /\ at <= Len(autoSend)
  /\ disp' = "send"
  /\ UNCHANGED <<io, taken, buffer, autoSend, addQueue, at, writing, open, flushing>>

\* Connection::send: a closed connection refuses the message, one that writes
\* puts it back, and else it is written.
Send(m) ==
  IF open /\ writing # {}
    THEN addQueue' = Append(addQueue, m) /\ UNCHANGED <<buffer, writing>>
    ELSE /\ buffer' = Unbuffered(m)
         /\ writing' = IF open THEN {m} ELSE writing
         /\ UNCHANGED addQueue

SendLocked ==
  /\ disp = "send"
  /\ ~ConnHeld
  /\ Send(autoSend[at])
  /\ autoSend' = RemoveAt(autoSend, at)
  /\ disp' = "next"
  /\ UNCHANGED <<io, taken, at, open, flushing>>

SendAllEnds ==
  /\ disp = "next" /\ at > Len(autoSend)
  /\ disp' = "idle"
  /\ UNCHANGED <<io, taken, buffer, autoSend, addQueue, at, writing, open, flushing>>

-----------------------------------------------------------------------------
(* The io_service's thread                                                 *)

\* ProtocolGame::parsePacket posts what a player wants; an account manager's
\* sendCancelWalk() looks for the buffer at once.
PacketHandled == IF Manager THEN (IF buffer = None THEN "take" ELSE "idle") ELSE "post"

Packet ==
  /\ io = "idle" /\ open
  /\ Manager => Cardinality(Free) >= 2
  /\ io' = PacketHandled
  /\ UNCHANGED <<disp, taken, buffer, autoSend, addQueue, at, writing, open, flushing>>

PacketTakes ==
  /\ io = "take"
  /\ \E m \in Msgs : Take("io", m)
  /\ io' = "store"
  /\ UNCHANGED <<disp, buffer, addQueue, at, writing, open, flushing>>

PacketStores ==
  /\ io = "store"
  /\ buffer' = taken["io"]
  /\ taken' = [taken EXCEPT !["io"] = None]
  /\ io' = "idle"
  /\ UNCHANGED <<disp, autoSend, addQueue, at, writing, open, flushing>>

\* Connection::onWrite: the message goes back to the pool by a task; an error
\* closes the connection.
OnWrite ==
  /\ io = "idle" /\ writing # {}
  /\ writing' = {}
  /\ open' \in {open, FALSE}
  /\ io' = "post"
  /\ UNCHANGED <<disp, taken, buffer, autoSend, addQueue, at, flushing>>

\* An error of a read, or a timeout, closes the connection, by a task.
ReadError ==
  /\ io = "idle" /\ open
  /\ open' = FALSE
  /\ io' = "post"
  /\ UNCHANGED <<disp, taken, buffer, autoSend, addQueue, at, writing, flushing>>

\* Dispatcher::addTask
Post ==
  /\ io = "post"
  /\ ~ListHeld
  /\ io' = "idle"
  /\ UNCHANGED <<disp, taken, buffer, autoSend, addQueue, at, writing, open, flushing>>

-----------------------------------------------------------------------------
Dispatch ==
  \/ TaskBegins \/ TaskSilent \/ TaskAnswers \/ TaskTakes \/ TaskStores
  \/ SendAllBegins \/ SendNext \/ SendLocked \/ SendAllEnds
Service == PacketTakes \/ PacketStores \/ OnWrite \/ Post

Next == Dispatch \/ SendWaits \/ Flush \/ Service \/ Packet \/ ReadError

Spec == Init /\ [][Next]_vars

\* Tasks keep coming, the scheduler posts Game::checkCreatures for ever; both
\* threads run, a write ends, a message gets old enough to be sent, and the
\* client's packets leave the connection's lock to others now and then.
FairSpec ==
  /\ Spec
  /\ WF_vars(Dispatch) /\ SF_vars(SendNext) /\ SF_vars(SendLocked)
  /\ WF_vars(Service) /\ SF_vars(OnWrite)

-----------------------------------------------------------------------------
(* Properties                                                              *)

TypeOK ==
  /\ disp \in {"idle", "task", "take", "store", "ended", "next", "send"}
  /\ io \in {"idle", "take", "store", "post"}
  /\ taken \in [{"disp", "io"} -> Msgs \union {None}]
  /\ buffer \in Msgs \union {None}
  /\ autoSend \in Seq(Msgs) /\ addQueue \in Seq(Msgs)
  /\ at \in Nat
  /\ writing \subseteq Msgs
  /\ open \in BOOLEAN /\ flushing \in BOOLEAN

\* Each thread waits for what the other one holds: the pool against the
\* connection, or the list against the connection.
WaitForEachOther ==
  /\ disp = "send"
  /\ io = "take" \/ (io = "post" /\ flushing)

\* The threads wait for each other only when flush runs the last tasks under
\* the lock of their list, or for an account manager.
NoCircularWait == WaitForEachOther => flushing \/ Manager

\* Whatever the threads do at once, the message a protocol fills is one that
\* sendAll will visit: nothing is written into a message that was sent.
BufferQueued == buffer # None => buffer \in Queued

\* A message that is queued is the buffer or about to be, and there is no other:
\* sendAll and getOutputBuffer agree on one message unless the io_service's
\* thread answers by itself.
OneQueued ==
  ~Manager =>
    /\ Len(autoSend) + Len(addQueue) <= 1
    /\ Queued \subseteq {buffer, taken["disp"]}

\* What the locks protect is sound whatever the two threads do at once.
LocksHold == TypeOK /\ NoCircularWait /\ BufferQueued /\ OneQueued

\* A queued message leaves the lists, written or given up.
Leaves == \A m \in Msgs : m \in Queued ~> m \notin Queued
=============================================================================
