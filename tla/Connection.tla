----------------------------- MODULE Connection -----------------------------
(***************************************************************************)
(* The life of one connection (src/src/connection.cpp), of the protocol    *)
(* object that belongs to it (protocol.cpp) and of the output messages the *)
(* pool lends it (outputmessage.cpp).                                      *)
(*                                                                         *)
(* Two threads work on it.  The service thread runs the completion         *)
(* handlers of the socket and of the two timers; the dispatcher thread     *)
(* runs closeConnection(), the releases, and the game, which allocates     *)
(* messages and sends them.  Each takes m_connectionLock for a whole       *)
(* handler, which is one action here.  Tasks posted to the dispatcher are  *)
(* a number or a flag until they run, in any order.  A write is one        *)
(* operation: that async_write() continues a partial one by itself is left *)
(* out with the rest of the library.                                       *)
(*                                                                         *)
(* The objects are freed by three mechanisms that must agree: the counters *)
(* m_refCount of connection and protocol, the shared pointers to the       *)
(* connection, and raw pointers in tasks.                                  *)
(***************************************************************************)
EXTENDS Naturals, FiniteSets

CONSTANTS Messages,   \* the OutputMessage objects of the pool
          NoMessage,  \* the NULL OutputMessage_ptr
          SlowLimit,  \* 100: pending writes a slow connection is closed at
          RefWrap     \* 2^32: where an unsigned m_refCount wraps

ASSUME ConnectionAssumption ==
  /\ NoMessage \notin Messages
  /\ IsFiniteSet(Messages)
  /\ SlowLimit \in Nat \ {0}
  /\ RefWrap \in Nat /\ RefWrap > Cardinality(Messages) + 1

VARIABLES state,        \* m_connectionState
          socket,       \* m_socket: open, closed, or deleted and NULL
          reading,      \* the outstanding async_read
          writing,      \* the message of the outstanding async_write
          pendingRead,  \* m_pendingRead
          pendingWrite, \* m_pendingWrite
          readError,    \* m_readError
          writeError,   \* m_writeError
          first,        \* m_receivedFirst
          readTimer,    \* m_readTimer: armed, and expired handlers on their way
          writeTimer,   \* m_writeTimer
          protocol,     \* the Protocol object; "live" while m_protocol points to it
          buffer,       \* its m_outputBuffer
          place,        \* where the pool's messages are
          connRefs,     \* m_refCount of the connection
          protRefs,     \* m_refCount of the protocol
          torn,         \* did two threads collide on a counter
          closeTasks,   \* posted closeConnection() tasks
          releaseEvent, \* a scheduled releaseConnection()
          stopPosted,   \* a posted onStop()
          managed       \* is the connection in m_connections

io    == <<reading, writing, pendingRead, pendingWrite, readError, writeError, first>>
times == <<readTimer, writeTimer>>
refs  == <<connRefs, protRefs, torn>>
ends  == <<releaseEvent, stopPosted, managed>>
vars  == <<state, socket, io, times, protocol, buffer, place, refs,
           closeTasks, ends>>

States    == {"OPEN", "REQUEST_CLOSE", "CLOSING", "CLOSED"}
Sockets   == {"open", "closed", "deleted", "dereferenced"}
Timers    == SUBSET {"armed", "expired"}
Protocols == {"none", "live", "releasing", "deleted"}
Places    == {"pool", "auto", "added", "writing", "held", "releasing"}
Results   == {"ok", "failed", "aborted"}

TypeOK ==
  /\ state \in States
  /\ socket \in Sockets
  /\ reading \in {"none", "header", "packet"}
  /\ writing \in Messages \cup {NoMessage}
  /\ pendingRead \in Nat /\ pendingWrite \in Nat
  /\ readError \in BOOLEAN /\ writeError \in BOOLEAN /\ first \in BOOLEAN
  /\ readTimer \in Timers /\ writeTimer \in Timers
  /\ protocol \in Protocols
  /\ buffer \in Messages \cup {NoMessage}
  /\ place \in [Messages -> Places]
  /\ connRefs \in 0..(RefWrap - 1) /\ protRefs \in 0..(RefWrap - 1)
  /\ torn \in BOOLEAN
  /\ closeTasks \in Nat
  /\ releaseEvent \in BOOLEAN /\ stopPosted \in BOOLEAN /\ managed \in BOOLEAN

\* accept() has asked for the first header.  A service with a single protocol has
\* made it already, and it has sent the client a challenge.
Init ==
  /\ state = "OPEN" /\ socket = "open"
  /\ reading = "header" /\ pendingRead = 1 /\ readTimer = {"armed"}
  /\ readError = FALSE /\ writeError = FALSE /\ first = FALSE
  /\ \/ /\ protocol = "none"
        /\ writing = NoMessage /\ pendingWrite = 0 /\ writeTimer = {}
        /\ place = [m \in Messages |-> "pool"]
        /\ connRefs = 0 /\ protRefs = 0
     \/ /\ protocol = "live"
        /\ writing \in Messages /\ pendingWrite = 1 /\ writeTimer = {"armed"}
        /\ place = [m \in Messages |-> IF m = writing THEN "writing" ELSE "pool"]
        /\ connRefs = 1 /\ protRefs = 1
  /\ buffer = NoMessage
  /\ torn = FALSE
  /\ closeTasks = 0
  /\ releaseEvent = FALSE /\ stopPosted = FALSE /\ managed = TRUE

-----------------------------------------------------------------------------
(* Calls made inside the handlers                                          *)

\* close(), by any thread.
Close ==
  IF state \in {"CLOSED", "REQUEST_CLOSE"}
  THEN UNCHANGED <<state, closeTasks>>
  ELSE /\ state' = "REQUEST_CLOSE"
       /\ closeTasks' = closeTasks + 1

\* closeSocket(): outstanding operations will complete as aborted.
CloseSocket ==
  IF socket = "open"
  THEN /\ socket' = "closed"
       /\ pendingRead' = 0
       /\ pendingWrite' = 0
  ELSE /\ socket' = IF socket = "closed" THEN "closed" ELSE "dereferenced"
       /\ UNCHANGED <<pendingRead, pendingWrite>>

\* What an operation may end with.  A success may have been queued before the
\* socket was closed.
Outcomes == IF socket = "open" THEN Results \ {"aborted"} ELSE Results

\* addRef() and unRef()
Plus(n)  == (n + 1) % RefWrap
Minus(n) == (n + RefWrap - 1) % RefWrap

\* getOutputMessage(), for a message that goes to place p.
Lend(x, p) ==
  /\ place[x] = "pool"
  /\ place' = [place EXCEPT ![x] = p]
  /\ connRefs' = Plus(connRefs)
  /\ protRefs' = Plus(protRefs)
  /\ UNCHANGED torn

\* internalSend()
StartWrite(x) ==
  /\ writing' = x
  /\ pendingWrite' = pendingWrite + 1
  /\ writeTimer' = writeTimer \cup {"armed"}

\* Where send() leaves message x: refused, written, dropped as one too many, or
\* handed to autoSend().
Refused == state # "OPEN" \/ writeError
SentTo(x) ==
  IF Refused THEN "releasing"
  ELSE IF pendingWrite = 0 THEN "writing"
  ELSE IF pendingWrite <= SlowLimit THEN "added"
  ELSE IF buffer = x THEN "held" ELSE "releasing"

\* What send() does besides.
Transmit(x) ==
  IF SentTo(x) = "writing"
  THEN StartWrite(x)
  ELSE UNCHANGED <<writing, pendingWrite, writeTimer>>

-----------------------------------------------------------------------------
(* Service thread: reading                                                 *)

\* What parseHeader() and parsePacket() do when the connection is done with.
StopReading(r) ==
  /\ readError' = (readError \/ r # "ok")
  /\ reading' = "none"
  /\ readTimer' = readTimer \ {"armed"}
  /\ Close
  /\ UNCHANGED <<socket, writing, pendingRead, pendingWrite, writeError, first,
                 writeTimer, protocol, buffer, place, refs, ends>>

\* parseHeader(): on to the body.
ParseHeader(r) ==
  /\ reading = "header"
  /\ r \in Outcomes
  /\ IF r # "ok" \/ state # "OPEN" \/ readError
     THEN StopReading(r)
     ELSE /\ reading' = "packet"
          /\ readTimer' = readTimer \cup {"armed"}
          /\ UNCHANGED <<state, socket, writing, pendingRead, pendingWrite,
                         readError, writeError, first, writeTimer, protocol,
                         buffer, place, refs, closeTasks, ends>>

\* parsePacket() of a connection that is done with.
ParseLast(r) ==
  /\ reading = "packet"
  /\ r \in Outcomes
  /\ r # "ok" \/ state # "OPEN" \/ readError
  /\ StopReading(r)

\* parsePacket() of a first packet nobody understands: no protocol, no next read.
ParseUnknown ==
  /\ reading = "packet"
  /\ state = "OPEN" /\ ~readError
  /\ ~first /\ protocol = "none"
  /\ first' = TRUE
  /\ pendingRead' = pendingRead - 1
  /\ reading' = "none"
  /\ readTimer' = readTimer \ {"armed"}
  /\ Close
  /\ UNCHANGED <<socket, writing, pendingWrite, readError, writeError, writeTimer,
                 protocol, buffer, place, refs, ends>>

\* The rest of parsePacket(): make the protocol, let it handle the packet, ask
\* for the next header.
NextPacket ==
  /\ reading = "packet"
  /\ state = "OPEN" /\ ~readError
  /\ first' = TRUE
  /\ protocol' = IF protocol = "none" THEN "live" ELSE protocol
  /\ reading' = "header"
  /\ readTimer' = readTimer \cup {"armed"}

\* The protocol handled the packet without an answer of its own.
ParsePacket ==
  /\ NextPacket
  /\ UNCHANGED <<state, socket, writing, pendingRead, pendingWrite, readError,
                 writeError, writeTimer, buffer, place, refs,
                 closeTasks, ends>>

\* disconnectClient(): a message of its own, sent at once, and close().
Disconnect(x) ==
  /\ Lend(x, SentTo(x))
  /\ Transmit(x)
  /\ Close

\* Or the protocol answered in this thread and closed.
ParseAndDisconnect(x) ==
  /\ NextPacket
  /\ Disconnect(x)
  /\ UNCHANGED <<socket, pendingRead, readError, writeError, buffer, ends>>

\* m_refCount is a plain integer.  When the dispatcher thread releases another
\* message at that moment, both changes count or either is lost.
ParseDuringRelease(x, y) ==
  /\ NextPacket
  /\ place[x] = "pool" /\ place[y] = "releasing"
  /\ place' = [place EXCEPT ![x] = SentTo(x), ![y] = "pool"]
  /\ connRefs' \in {connRefs, Plus(connRefs), Minus(connRefs)}
  /\ protRefs' \in {protRefs, Plus(protRefs), Minus(protRefs)}
  /\ torn' = (torn \/ connRefs' # connRefs \/ protRefs' # protRefs)
  /\ Transmit(x)
  /\ Close
  /\ UNCHANGED <<socket, pendingRead, readError, writeError, buffer, ends>>

-----------------------------------------------------------------------------
(* Service thread: writing, timers, the end                                *)

\* Variant: closes the socket of a closing connection and stops there.
WrittenNoClose ==
  /\ UNCHANGED <<state, closeTasks>>
  /\ IF state # "OPEN" \/ writeError'
     THEN CloseSocket
     ELSE pendingWrite' = pendingWrite - 1 /\ UNCHANGED <<socket, pendingRead>>

\* Variant: does not take the write off the count.
WrittenNoCount ==
  IF state # "OPEN" \/ writeError'
  THEN CloseSocket /\ Close
  ELSE UNCHANGED <<state, socket, pendingRead, pendingWrite, closeTasks>>

\* What a finished write means for the connection.
Written ==
  IF state # "OPEN" \/ writeError'
  THEN CloseSocket /\ Close
  ELSE /\ pendingWrite' = pendingWrite - 1
       /\ UNCHANGED <<state, socket, pendingRead, closeTasks>>

\* onWrite().  The handler's reference to the message is its last.
OnWrite(r) ==
  /\ writing # NoMessage
  /\ r \in Outcomes
  /\ writing' = NoMessage
  /\ place' = [place EXCEPT ![writing] = "releasing"]
  /\ writeTimer' = writeTimer \ {"armed"}
  /\ writeError' = (writeError \/ r # "ok")
  /\ Written
  /\ UNCHANGED <<reading, readError, first, readTimer, protocol, buffer, refs, ends>>

ExpireRead ==
  /\ "armed" \in readTimer
  /\ readTimer' = {"expired"}
  /\ UNCHANGED <<state, socket, io, writeTimer, protocol, buffer, place, refs, closeTasks, ends>>

ExpireWrite ==
  /\ "armed" \in writeTimer
  /\ writeTimer' = {"expired"}
  /\ UNCHANGED <<state, socket, io, readTimer, protocol, buffer, place, refs, closeTasks, ends>>

\* Shared pointers to the connection: the manager's, the handlers', the protocol's
\* and the messages'.  The timers hold weak ones.
Alive ==
  \/ managed
  \/ reading # "none"
  \/ writing # NoMessage
  \/ protocol = "live"
  \/ \E x \in Messages : place[x] # "pool"

\* handleReadTimeout(): cancelling the timer came too late for this handler.
ReadTimeout ==
  /\ "expired" \in readTimer
  /\ readTimer' = readTimer \ {"expired"}
  /\ IF Alive /\ (pendingRead > 0 \/ readError)
     THEN CloseSocket /\ Close
     ELSE UNCHANGED <<state, socket, pendingRead, pendingWrite, closeTasks>>
  /\ UNCHANGED <<reading, writing, readError, writeError, first, writeTimer,
                 protocol, buffer, place, refs, ends>>

\* Variant: overlooks a write that is still pending.
WriteTimeoutOnError ==
  /\ "expired" \in writeTimer
  /\ writeTimer' = writeTimer \ {"expired"}
  /\ IF Alive /\ writeError
     THEN CloseSocket /\ Close
     ELSE UNCHANGED <<state, socket, pendingRead, pendingWrite, closeTasks>>
  /\ UNCHANGED <<reading, writing, readError, writeError, first, readTimer,
                 protocol, buffer, place, refs, ends>>

WriteTimeout ==
  /\ "expired" \in writeTimer
  /\ writeTimer' = writeTimer \ {"expired"}
  /\ IF Alive /\ (pendingWrite > 0 \/ writeError)
     THEN CloseSocket /\ Close
     ELSE UNCHANGED <<state, socket, pendingRead, pendingWrite, closeTasks>>
  /\ UNCHANGED <<reading, writing, readError, writeError, first, readTimer,
                 protocol, buffer, place, refs, ends>>

\* onStop(): the socket is deleted and the manager forgets the connection.  The
\* service thread's queue is first in, first out, and closeSocket() put the handlers
\* of the aborted operations into it before deleteConnection() posted this one.
OnStop ==
  /\ stopPosted
  /\ reading = "none" /\ writing = NoMessage
  /\ stopPosted' = FALSE
  /\ readTimer' = readTimer \ {"armed"}
  /\ writeTimer' = writeTimer \ {"armed"}
  /\ socket' = "deleted"
  /\ managed' = FALSE
  /\ UNCHANGED <<state, io, protocol, buffer, place, refs,
                 closeTasks, releaseEvent>>

-----------------------------------------------------------------------------
(* Dispatcher thread: closing                                              *)

\* releaseConnection(), called for the first time.
ReleaseConnection ==
  /\ releaseEvent' = (connRefs > 0)
  /\ stopPosted' = (connRefs = 0)

\* Variant: deletes the protocol whatever refers to it.
ProtocolDeleted == "deleted"

\* releaseProtocol() of a live protocol, called for the first time.
ProtocolReleased == IF protRefs > 0 THEN "releasing" ELSE "deleted"

\* closeConnection()
CloseConnection ==
  /\ closeTasks > 0
  /\ closeTasks' = closeTasks - 1
  /\ IF state # "REQUEST_CLOSE"
     THEN UNCHANGED <<state, socket, pendingRead, pendingWrite, protocol,
                      releaseEvent, stopPosted>>
     ELSE /\ protocol' = IF protocol = "live" THEN ProtocolReleased ELSE protocol
          /\ IF pendingWrite = 0 \/ writeError
             THEN CloseSocket /\ ReleaseConnection /\ state' = "CLOSED"
             ELSE /\ state' = "CLOSING"
                  /\ UNCHANGED <<socket, pendingRead, pendingWrite, releaseEvent,
                                 stopPosted>>
  /\ UNCHANGED <<reading, writing, readError, writeError, first, times, buffer,
                 place, refs, managed>>

\* The rescheduled releaseConnection() that finds no reference left.
ReleaseConnectionAgain ==
  /\ releaseEvent
  /\ connRefs = 0
  /\ releaseEvent' = FALSE
  /\ stopPosted' = TRUE
  /\ UNCHANGED <<state, socket, io, times, protocol, buffer, place, refs,
                 closeTasks, managed>>

\* The rescheduled releaseProtocol() that finds no reference left.
ReleaseProtocolAgain ==
  /\ protocol = "releasing"
  /\ protRefs = 0
  /\ protocol' = "deleted"
  /\ UNCHANGED <<state, socket, io, times, buffer, place, refs,
                 closeTasks, ends>>

-----------------------------------------------------------------------------
(* Dispatcher thread: messages                                             *)

\* getOutputBuffer() of a protocol that is not filling a message.
GetOutputBuffer(x) ==
  /\ protocol = "live"
  /\ buffer = NoMessage
  /\ Lend(x, "auto")
  /\ buffer' = x
  /\ UNCHANGED <<state, socket, io, times, protocol, closeTasks, ends>>

\* The protocol's part in sending: it stops filling the message.
Sent(x) == buffer' = IF buffer = x THEN NoMessage ELSE buffer

\* sendAll() comes to x in m_autoSend and calls send().
Send(x) ==
  /\ place[x] = "auto"
  /\ place' = [place EXCEPT ![x] = SentTo(x)]
  /\ Transmit(x)
  /\ IF Refused \/ pendingWrite = 0 THEN Sent(x) ELSE buffer' = buffer
  /\ IF ~Refused /\ pendingWrite > SlowLimit
     THEN Close
     ELSE UNCHANGED <<state, closeTasks>>
  /\ UNCHANGED <<socket, reading, pendingRead, readError, writeError, first,
                 readTimer, protocol, refs, ends>>

\* sendAll() begins with m_addQueue: a message goes back to m_autoSend ...
Requeue(x) ==
  /\ place[x] = "added"
  /\ place' = [place EXCEPT ![x] = "auto"]
  /\ UNCHANGED <<state, socket, io, times, protocol, buffer, refs,
                 closeTasks, ends>>

\* ... or is dropped when it is older than 10 seconds.
DropOld(x) ==
  /\ place[x] = "added"
  /\ Sent(x)
  /\ place' = [place EXCEPT ![x] = "releasing"]
  /\ UNCHANGED <<state, socket, io, times, protocol, refs,
                 closeTasks, ends>>

\* internalReleaseMessage()
InternalReleaseMessage(x) ==
  /\ place[x] = "releasing"
  /\ place' = [place EXCEPT ![x] = "pool"]
  /\ connRefs' = Minus(connRefs)
  /\ protRefs' = Minus(protRefs)
  /\ UNCHANGED torn
  /\ UNCHANGED <<state, socket, io, times, protocol, buffer, closeTasks, ends>>

\* The game tells the client why, and closes ...
KickWithMessage(x) ==
  /\ protocol = "live"
  /\ Disconnect(x)
  /\ UNCHANGED <<socket, reading, pendingRead, readError, writeError, first,
                 readTimer, protocol, buffer, ends>>

\* ... or just closes.
Kick ==
  /\ protocol = "live"
  /\ Close
  /\ UNCHANGED <<socket, io, times, protocol, buffer, place, refs,
                 ends>>

-----------------------------------------------------------------------------
Reads ==
  \/ \E r \in Results : ParseHeader(r) \/ ParseLast(r)
  \/ ParseUnknown \/ ParsePacket
  \/ \E x \in Messages : ParseAndDisconnect(x)
  \/ \E x, y \in Messages : ParseDuringRelease(x, y)

Next ==
  \/ Reads
  \/ \E r \in Results : OnWrite(r)
  \/ ExpireRead \/ ExpireWrite \/ ReadTimeout \/ WriteTimeout \/ OnStop
  \/ CloseConnection \/ ReleaseConnectionAgain \/ ReleaseProtocolAgain \/ Kick
  \/ \E x \in Messages :
       \/ GetOutputBuffer(x) \/ Send(x) \/ Requeue(x) \/ DropOld(x)
       \/ InternalReleaseMessage(x) \/ KickWithMessage(x)

\* The two threads serve their queues and the write timer runs.  An operation on
\* a closed socket completes; one on an open socket need not.  A message that is
\* queued again and again is older than 10 seconds at last.
Fairness ==
  /\ WF_vars(socket # "open" /\ \E r \in Results : ParseHeader(r) \/ ParseLast(r))
  /\ WF_vars(socket # "open" /\ \E r \in Results : OnWrite(r))
  /\ WF_vars(ExpireWrite) /\ WF_vars(WriteTimeout) /\ WF_vars(OnStop)
  /\ WF_vars(CloseConnection)
  /\ WF_vars(ReleaseConnectionAgain) /\ WF_vars(ReleaseProtocolAgain)
  /\ \A x \in Messages :
       /\ WF_vars(Send(x))
       /\ WF_vars(Requeue(x) \/ DropOld(x)) /\ SF_vars(DropOld(x))
       /\ WF_vars(InternalReleaseMessage(x))

Spec == Init /\ [][Next]_vars /\ Fairness

-----------------------------------------------------------------------------
(* What makes it correct                                                   *)

Lent == {x \in Messages : place[x] # "pool"}

\* Both counters count the messages that are out of the pool, wherever they are,
\* until two threads collide on one of them.
RefsAgree ==
  ~torn =>
  /\ connRefs = Cardinality(Lent)
  /\ protRefs = Cardinality(Lent)

\* The raw Protocol pointer of a message never points to a deleted protocol, as
\* long as the counters are right.
ProtocolOutlives == Lent # {} /\ ~torn => protocol \in {"live", "releasing"}

\* REQUEST_CLOSE stands for exactly one posted closeConnection(): close() may be
\* called any number of times, and again while CLOSING, from both threads.
OneCloseTask == closeTasks = IF state = "REQUEST_CLOSE" THEN 1 ELSE 0

\* The connection is released once, after CLOSED, and then forgotten; no task
\* keeps its raw pointer for longer.
OneRelease ==
  /\ state = "CLOSED" => \/ releaseEvent /\ ~stopPosted /\ managed
                         \/ ~releaseEvent /\ stopPosted /\ managed
                         \/ ~releaseEvent /\ ~stopPosted /\ ~managed
  /\ state # "CLOSED" => ~releaseEvent /\ ~stopPosted /\ managed

\* onStop() deletes the socket when no handler is left that would use it, as long
\* as the counters are right: a message lent keeps the connection alive for an
\* expired timer's handler.
NoNullSocket == socket = "dereferenced" => torn

\* m_pendingWrite of an open connection is its one outstanding write, so the limit
\* for slow connections is out of reach; and a connection that waits in CLOSING has
\* a write left, whose completion or timeout will close it.
OneWrite ==
  /\ state = "OPEN" =>
       pendingWrite = IF writing = NoMessage THEN 0 ELSE 1
  /\ state = "CLOSING" => writing # NoMessage
  /\ pendingWrite <= 1

\* The message a protocol is filling is always in a list that sendAll() visits.
BufferQueued == buffer # NoMessage => place[buffer] \in {"auto", "added"}

\* The objects live as long as something points to them, and end once.
LifetimesSound ==
  TypeOK /\ RefsAgree /\ ProtocolOutlives /\ OneCloseTask /\ OneRelease /\ NoNullSocket

\* There is one write at a time, and what is filled will be sent.
WritesSound == OneWrite /\ BufferQueued

\* A connection that begins to close is destroyed, and its protocol with it, unless
\* a lost change to a counter keeps it.
CloseCompletes ==
  state # "OPEN" ~> torn \/ (~Alive /\ protocol \in {"none", "deleted"})

\* Every message lent comes back to the pool.
MessagesReturn ==
  \A x \in Messages : place[x] # "pool" ~> place[x] = "pool"
=============================================================================
