-------------------------- MODULE ConnectionProofs --------------------------
(* Proofs about Connection, for any number of messages, and about the      *)
(* process and its ports, for any services and failures.                   *)
EXTENDS Connection, Sequences, FiniteSetTheorems, TLAPS

\* The socket is open as long as the connection is, and deleted when the manager
\* forgets it.
SocketShape ==
  /\ state = "OPEN" => socket = "open" /\ ~readError /\ ~writeError
  /\ socket \in {"deleted", "dereferenced"} <=> ~managed
  /\ managed \/ (reading = "none" /\ writing = NoMessage)

\* The counters of pending operations are 0 or 1.
CountShape ==
  /\ pendingWrite = IF writing # NoMessage /\ socket = "open" THEN 1 ELSE 0
  /\ reading # "none" /\ socket = "open" => pendingRead = 1

\* The protocol is let go between REQUEST_CLOSE and CLOSED.
ProtocolShape ==
  /\ state = "OPEN" => protocol \in {"none", "live"}
  /\ state \in {"CLOSING", "CLOSED"} => protocol # "live"
  /\ state = "CLOSING" => writing # NoMessage

\* The message of the outstanding write knows it.
WriteShape == writing # NoMessage => place[writing] = "writing"

\* The first part of the invariant.
Shape == /\ TypeOK /\ OneCloseTask /\ OneRelease /\ SocketShape /\ CountShape
         /\ ProtocolShape /\ WriteShape /\ BufferQueued


\* A connection that is stopped, or about to be, is not referred to by a message.
Idle == (stopPosted \/ ~managed) /\ ~torn => connRefs = 0

\* The second part of the invariant.
Kept == RefsAgree /\ ProtocolOutlives /\ NoNullSocket /\ Idle

\* The counters have room for more than every message.
LEMMA RefWrapLarge ==
  /\ Cardinality(Messages) \in Nat
  /\ RefWrap \in Nat
  /\ RefWrap > Cardinality(Messages) + 1
  BY ConnectionAssumption, FS_CardinalityType

\* addRef() and unRef() stay in range.
LEMMA RefType ==
  ASSUME NEW n \in 0..(RefWrap - 1)
  PROVE  Plus(n) \in 0..(RefWrap - 1) /\ Minus(n) \in 0..(RefWrap - 1)
  BY RefWrapLarge DEF Plus, Minus

\* Where send() may leave a message.
LEMMA SentToType ==
  ASSUME TypeOK, NEW x \in Messages
  PROVE  SentTo(x) \in Places \ {"pool", "auto"}
  BY ConnectionAssumption DEF SentTo, TypeOK, Places

\* What the flags, the queues and the posted tasks say of each other holds always:
\* one closing task, one release, at most one write.
THEOREM ShapeCorrect == Spec => []Shape
<1>1. Init => Shape
  <2> SUFFICES ASSUME Init PROVE Shape
    OBVIOUS
  <2> USE ConnectionAssumption DEF Init, States, Sockets, Timers, Protocols, Places
  <2>1. TypeOK
    <3>1. place \in [Messages -> Places]
      OBVIOUS
    <3>2. /\ connRefs \in 0..(RefWrap - 1)
          /\ protRefs \in 0..(RefWrap - 1)
      BY RefWrapLarge
    <3>3. /\ readTimer \in Timers
          /\ writeTimer \in Timers
      OBVIOUS
    <3>4. /\ pendingRead \in Nat /\ pendingWrite \in Nat /\ closeTasks \in Nat
          /\ writing \in Messages \cup {NoMessage}
          /\ buffer \in Messages \cup {NoMessage}
          /\ state \in States /\ socket \in Sockets /\ protocol \in Protocols
          /\ reading \in {"none", "header", "packet"}
      OBVIOUS
    <3>5. /\ readError \in BOOLEAN /\ writeError \in BOOLEAN /\ first \in BOOLEAN
          /\ releaseEvent \in BOOLEAN /\ stopPosted \in BOOLEAN /\ managed \in BOOLEAN
          /\ torn \in BOOLEAN
      OBVIOUS
    <3> QED BY <3>1, <3>2, <3>3, <3>4, <3>5 DEF TypeOK
  <2>2. OneCloseTask
    BY DEF OneCloseTask
  <2>3. OneRelease
    BY DEF OneRelease
  <2>4. SocketShape
    BY DEF SocketShape
  <2>5. CountShape
    BY DEF CountShape
  <2>6. ProtocolShape
    BY DEF ProtocolShape
  <2>7. WriteShape
    BY DEF WriteShape
  <2>8. BufferQueued
    BY DEF BufferQueued
  <2> QED BY <2>1, <2>2, <2>3, <2>4, <2>5, <2>6, <2>7, <2>8 DEF Shape
<1>2. Shape /\ [Next]_vars => Shape'
  <2> SUFFICES ASSUME Shape, [Next]_vars PROVE Shape'
    OBVIOUS
  <2> USE ConnectionAssumption DEF Shape, TypeOK, OneCloseTask, OneRelease,
      SocketShape, CountShape, ProtocolShape, WriteShape, BufferQueued, vars,
      io, times, refs, ends, States, Sockets, Timers, Protocols, Places,
      Results, Close, CloseSocket, Outcomes, Lend, StartWrite, Refused,
      SentTo, Transmit, StopReading, NextPacket, Disconnect, Written, Alive,
      ReleaseConnection, ProtocolReleased, Sent
  <2>1. ASSUME NEW r \in Results, ParseHeader(r) PROVE Shape'
    <3>0. CASE StopReading(r)
      BY <3>0
    <3>1. CASE /\ reading' = "packet"
               /\ readTimer' = readTimer \cup {"armed"}
               /\ UNCHANGED <<state, socket, writing, pendingRead, pendingWrite,
                         readError, writeError, first, writeTimer, protocol,
                         buffer, place, refs, closeTasks, ends>>
      <4>1. readTimer' \in Timers
        BY <3>1
      <4>2. TypeOK'
        BY <3>1, <4>1
      <4> QED BY <3>1, <4>2, <2>1 DEF ParseHeader
    <3> QED BY <2>1, <3>0, <3>1 DEF ParseHeader
  <2>2. ASSUME NEW r \in Results, ParseLast(r) PROVE Shape'
    BY <2>2 DEF ParseLast
  <2>3. CASE ParseUnknown
    BY <2>3 DEF ParseUnknown
  <2>4. CASE ParsePacket
    BY <2>4 DEF ParsePacket
  <2>5. ASSUME NEW x \in Messages, ParseAndDisconnect(x) PROVE Shape'
    <3>1. TypeOK'
      <4>1. place' \in [Messages -> Places]
        BY <2>5, SentToType DEF ParseAndDisconnect
      <4>2. /\ connRefs' \in 0..(RefWrap - 1)
            /\ protRefs' \in 0..(RefWrap - 1)
            /\ torn' \in BOOLEAN
        BY <2>5, RefType DEF ParseAndDisconnect
      <4>3. state' \in States /\ closeTasks' \in Nat
        BY <2>5 DEF ParseAndDisconnect
      <4>4. /\ socket' \in Sockets
            /\ reading' \in {"none", "header", "packet"}
            /\ protocol' \in Protocols
        BY <2>5 DEF ParseAndDisconnect
      <4>5. /\ writing' \in Messages \cup {NoMessage}
            /\ buffer' \in Messages \cup {NoMessage}
        BY <2>5 DEF ParseAndDisconnect
      <4>6. pendingRead' \in Nat /\ pendingWrite' \in Nat
        BY <2>5 DEF ParseAndDisconnect
      <4>7. readError' \in BOOLEAN /\ writeError' \in BOOLEAN /\ first' \in BOOLEAN
        BY <2>5 DEF ParseAndDisconnect
      <4>8. readTimer' \in Timers /\ writeTimer' \in Timers
        BY <2>5 DEF ParseAndDisconnect
      <4>9. /\ releaseEvent' \in BOOLEAN
            /\ stopPosted' \in BOOLEAN
            /\ managed' \in BOOLEAN
        BY <2>5 DEF ParseAndDisconnect
      <4> QED BY <4>1, <4>2, <4>3, <4>4, <4>5, <4>6, <4>7, <4>8, <4>9
    <3>2. OneCloseTask'
      BY <2>5 DEF ParseAndDisconnect
    <3>3. OneRelease'
      BY <2>5 DEF ParseAndDisconnect
    <3>4. SocketShape'
      BY <2>5 DEF ParseAndDisconnect
    <3>5. CountShape'
      BY <2>5 DEF ParseAndDisconnect
    <3>6. ProtocolShape'
      BY <2>5 DEF ParseAndDisconnect
    <3>7. WriteShape'
      BY <2>5 DEF ParseAndDisconnect
    <3>8. BufferQueued'
      BY <2>5 DEF ParseAndDisconnect
    <3> QED BY <3>1, <3>2, <3>3, <3>4, <3>5, <3>6, <3>7, <3>8
  <2>6. ASSUME NEW x \in Messages, NEW y \in Messages, ParseDuringRelease(x, y) PROVE Shape'
    <3>1. TypeOK'
      <4>1. place' \in [Messages -> Places]
        BY <2>6, SentToType DEF ParseDuringRelease
      <4>2. /\ connRefs' \in 0..(RefWrap - 1)
            /\ protRefs' \in 0..(RefWrap - 1)
            /\ torn' \in BOOLEAN
        BY <2>6, RefType DEF ParseDuringRelease
      <4>3. state' \in States /\ closeTasks' \in Nat
        BY <2>6 DEF ParseDuringRelease
      <4>4. /\ socket' \in Sockets
            /\ reading' \in {"none", "header", "packet"}
            /\ protocol' \in Protocols
        BY <2>6 DEF ParseDuringRelease
      <4>5. /\ writing' \in Messages \cup {NoMessage}
            /\ buffer' \in Messages \cup {NoMessage}
        BY <2>6 DEF ParseDuringRelease
      <4>6. pendingRead' \in Nat /\ pendingWrite' \in Nat
        BY <2>6 DEF ParseDuringRelease
      <4>7. readError' \in BOOLEAN /\ writeError' \in BOOLEAN /\ first' \in BOOLEAN
        BY <2>6 DEF ParseDuringRelease
      <4>8. readTimer' \in Timers /\ writeTimer' \in Timers
        BY <2>6 DEF ParseDuringRelease
      <4>9. /\ releaseEvent' \in BOOLEAN
            /\ stopPosted' \in BOOLEAN
            /\ managed' \in BOOLEAN
        BY <2>6 DEF ParseDuringRelease
      <4> QED BY <4>1, <4>2, <4>3, <4>4, <4>5, <4>6, <4>7, <4>8, <4>9
    <3>2. OneCloseTask'
      BY <2>6 DEF ParseDuringRelease
    <3>3. OneRelease'
      BY <2>6 DEF ParseDuringRelease
    <3>4. SocketShape'
      BY <2>6 DEF ParseDuringRelease
    <3>5. CountShape'
      BY <2>6 DEF ParseDuringRelease
    <3>6. ProtocolShape'
      BY <2>6 DEF ParseDuringRelease
    <3>7. WriteShape'
      BY <2>6 DEF ParseDuringRelease
    <3>8. BufferQueued'
      BY <2>6 DEF ParseDuringRelease
    <3> QED BY <3>1, <3>2, <3>3, <3>4, <3>5, <3>6, <3>7, <3>8
  <2>7. ASSUME NEW r \in Results, OnWrite(r) PROVE Shape'
    BY <2>7 DEF OnWrite
  <2>8. CASE ExpireRead
    BY <2>8 DEF ExpireRead
  <2>9. CASE ExpireWrite
    BY <2>9 DEF ExpireWrite
  <2>10. CASE ReadTimeout
    BY <2>10 DEF ReadTimeout
  <2>11. CASE WriteTimeout
    BY <2>11 DEF WriteTimeout
  <2>12. CASE OnStop
    BY <2>12 DEF OnStop
  <2>13. CASE CloseConnection
    BY <2>13 DEF CloseConnection
  <2>14. CASE ReleaseConnectionAgain
    <3>1. TypeOK'
      BY <2>14, ZenonT(60) DEF ReleaseConnectionAgain
    <3>2. OneCloseTask'
      BY <2>14 DEF ReleaseConnectionAgain
    <3>3. OneRelease'
      BY <2>14 DEF ReleaseConnectionAgain
    <3>4. SocketShape'
      BY <2>14 DEF ReleaseConnectionAgain
    <3>5. CountShape'
      BY <2>14 DEF ReleaseConnectionAgain
    <3>6. ProtocolShape'
      BY <2>14 DEF ReleaseConnectionAgain
    <3>7. WriteShape'
      BY <2>14 DEF ReleaseConnectionAgain
    <3>8. BufferQueued'
      BY <2>14 DEF ReleaseConnectionAgain
    <3> QED BY <3>1, <3>2, <3>3, <3>4, <3>5, <3>6, <3>7, <3>8
  <2>15. CASE ReleaseProtocolAgain
    BY <2>15 DEF ReleaseProtocolAgain
  <2>16. CASE Kick
    BY <2>16 DEF Kick
  <2>17. ASSUME NEW x \in Messages, GetOutputBuffer(x) PROVE Shape'
    <3>1. Plus(connRefs) \in 0..(RefWrap - 1) /\ Plus(protRefs) \in 0..(RefWrap - 1)
      BY RefType
    <3> QED BY <2>17, <3>1 DEF GetOutputBuffer
  <2>18. ASSUME NEW x \in Messages, Send(x) PROVE Shape'
    <3>1. TypeOK'
      <4>1. place' \in [Messages -> Places]
        BY <2>18, SentToType DEF Send
      <4>2. /\ connRefs' \in 0..(RefWrap - 1)
            /\ protRefs' \in 0..(RefWrap - 1)
            /\ torn' \in BOOLEAN
        BY <2>18, RefType DEF Send
      <4>3. state' \in States /\ closeTasks' \in Nat
        BY <2>18 DEF Send
      <4>4. /\ socket' \in Sockets
            /\ reading' \in {"none", "header", "packet"}
            /\ protocol' \in Protocols
        BY <2>18 DEF Send
      <4>5. /\ writing' \in Messages \cup {NoMessage}
            /\ buffer' \in Messages \cup {NoMessage}
        BY <2>18 DEF Send
      <4>6. pendingRead' \in Nat /\ pendingWrite' \in Nat
        BY <2>18 DEF Send
      <4>7. readError' \in BOOLEAN /\ writeError' \in BOOLEAN /\ first' \in BOOLEAN
        BY <2>18 DEF Send
      <4>8. readTimer' \in Timers /\ writeTimer' \in Timers
        BY <2>18 DEF Send
      <4>9. /\ releaseEvent' \in BOOLEAN
            /\ stopPosted' \in BOOLEAN
            /\ managed' \in BOOLEAN
        BY <2>18 DEF Send
      <4> QED BY <4>1, <4>2, <4>3, <4>4, <4>5, <4>6, <4>7, <4>8, <4>9
    <3>2. OneCloseTask'
      BY <2>18 DEF Send
    <3>3. OneRelease'
      BY <2>18 DEF Send
    <3>4. SocketShape'
      BY <2>18 DEF Send
    <3>5. CountShape'
      BY <2>18 DEF Send
    <3>6. ProtocolShape'
      BY <2>18 DEF Send
    <3>7. WriteShape'
      BY <2>18 DEF Send
    <3>8. BufferQueued'
      BY <2>18 DEF Send
    <3> QED BY <3>1, <3>2, <3>3, <3>4, <3>5, <3>6, <3>7, <3>8
  <2>19. ASSUME NEW x \in Messages, Requeue(x) PROVE Shape'
    BY <2>19 DEF Requeue
  <2>20. ASSUME NEW x \in Messages, DropOld(x) PROVE Shape'
    BY <2>20 DEF DropOld
  <2>21. ASSUME NEW x \in Messages, InternalReleaseMessage(x) PROVE Shape'
    <3>1. Minus(connRefs) \in 0..(RefWrap - 1) /\ Minus(protRefs) \in 0..(RefWrap - 1)
      BY RefType
    <3> QED BY <2>21, <3>1 DEF InternalReleaseMessage
  <2>22. ASSUME NEW x \in Messages, KickWithMessage(x) PROVE Shape'
    <3>1. TypeOK'
      <4>1. place' \in [Messages -> Places]
        BY <2>22, SentToType DEF KickWithMessage
      <4>2. /\ connRefs' \in 0..(RefWrap - 1)
            /\ protRefs' \in 0..(RefWrap - 1)
            /\ torn' \in BOOLEAN
        BY <2>22, RefType DEF KickWithMessage
      <4>3. state' \in States /\ closeTasks' \in Nat
        BY <2>22 DEF KickWithMessage
      <4>4. /\ socket' \in Sockets
            /\ reading' \in {"none", "header", "packet"}
            /\ protocol' \in Protocols
        BY <2>22 DEF KickWithMessage
      <4>5. /\ writing' \in Messages \cup {NoMessage}
            /\ buffer' \in Messages \cup {NoMessage}
        BY <2>22 DEF KickWithMessage
      <4>6. pendingRead' \in Nat /\ pendingWrite' \in Nat
        BY <2>22 DEF KickWithMessage
      <4>7. readError' \in BOOLEAN /\ writeError' \in BOOLEAN /\ first' \in BOOLEAN
        BY <2>22 DEF KickWithMessage
      <4>8. readTimer' \in Timers /\ writeTimer' \in Timers
        BY <2>22 DEF KickWithMessage
      <4>9. /\ releaseEvent' \in BOOLEAN
            /\ stopPosted' \in BOOLEAN
            /\ managed' \in BOOLEAN
        BY <2>22 DEF KickWithMessage
      <4> QED BY <4>1, <4>2, <4>3, <4>4, <4>5, <4>6, <4>7, <4>8, <4>9
    <3>2. OneCloseTask'
      BY <2>22 DEF KickWithMessage
    <3>3. OneRelease'
      BY <2>22 DEF KickWithMessage
    <3>4. SocketShape'
      BY <2>22 DEF KickWithMessage
    <3>5. CountShape'
      BY <2>22 DEF KickWithMessage
    <3>6. ProtocolShape'
      BY <2>22 DEF KickWithMessage
    <3>7. WriteShape'
      BY <2>22 DEF KickWithMessage
    <3>8. BufferQueued'
      BY <2>22 DEF KickWithMessage
    <3> QED BY <3>1, <3>2, <3>3, <3>4, <3>5, <3>6, <3>7, <3>8
  <2>23. CASE UNCHANGED vars
    BY <2>23
  <2> QED BY <2>1, <2>2, <2>3, <2>4, <2>5, <2>6, <2>7, <2>8, <2>9, <2>10,
      <2>11, <2>12, <2>13, <2>14, <2>15, <2>16, <2>17, <2>18, <2>19, <2>20,
      <2>21, <2>22, <2>23 DEF Next, Reads
<1> QED BY <1>1, <1>2, PTL DEF Spec
-----------------------------------------------------------------------------
\* The messages that are out of the pool are finitely many.
LEMMA LentFinite ==
  /\ IsFiniteSet(Lent)
  /\ Cardinality(Lent) \in Nat
  /\ Cardinality(Lent) <= Cardinality(Messages)
  BY ConnectionAssumption, FS_Subset, FS_CardinalityType DEF Lent

\* A step that neither lends nor takes back a message keeps the counters right.
LEMMA SameCount ==
  ASSUME RefsAgree, UNCHANGED refs,
         \A x \in Messages : place'[x] = "pool" <=> place[x] = "pool"
  PROVE  Lent' = Lent /\ RefsAgree'
<1>1. Lent' = Lent
  BY DEF Lent
<1> QED BY <1>1 DEF RefsAgree, refs

\* Lending a message counts it.
LEMMA LendCounts ==
  ASSUME TypeOK, RefsAgree, NEW x \in Messages, NEW p \in Places, p # "pool",
         Lend(x, p)
  PROVE  RefsAgree' /\ torn' = torn
<1>1. Lent' = Lent \cup {x} /\ x \notin Lent
  BY DEF Lent, Lend, TypeOK
<1>2. Cardinality(Lent') = Cardinality(Lent) + 1
  BY <1>1, LentFinite, FS_AddElement
<1>3. CASE ~torn
  <2>1. connRefs = Cardinality(Lent) /\ protRefs = Cardinality(Lent)
    BY <1>3 DEF RefsAgree
  <2>2. Plus(Cardinality(Lent)) = Cardinality(Lent) + 1
    BY LentFinite, RefWrapLarge DEF Plus
  <2> QED BY <1>2, <2>1, <2>2 DEF RefsAgree, Lend
<1> QED BY <1>3 DEF Lend, RefsAgree

\* Taking a message back uncounts it.
LEMMA ReleaseCounts ==
  ASSUME TypeOK, RefsAgree, NEW x \in Messages, InternalReleaseMessage(x)
  PROVE  RefsAgree' /\ torn' = torn /\ Lent' = Lent \ {x}
<1>1. Lent' = Lent \ {x} /\ x \in Lent
  BY DEF Lent, InternalReleaseMessage, TypeOK
<1>2. Cardinality(Lent') = Cardinality(Lent) - 1
  BY <1>1, LentFinite, FS_RemoveElement
<1>3. Cardinality(Lent) > 0
  BY <1>1, LentFinite, FS_EmptySet
<1>4. CASE ~torn
  <2>1. connRefs = Cardinality(Lent) /\ protRefs = Cardinality(Lent)
    BY <1>4 DEF RefsAgree
  <2>2. Minus(Cardinality(Lent)) = Cardinality(Lent) - 1
    BY <1>3, LentFinite, RefWrapLarge DEF Minus
  <2> QED BY <1>1, <1>2, <2>1, <2>2 DEF RefsAgree, InternalReleaseMessage
<1> QED BY <1>1, <1>4 DEF InternalReleaseMessage, RefsAgree

\* Lending one and taking back another at once: right unless the counters show it.
LEMMA SwapCounts ==
  ASSUME TypeOK, RefsAgree, NEW x \in Messages, NEW y \in Messages,
         ParseDuringRelease(x, y)
  PROVE  RefsAgree'
<1>1. CASE ~torn'
  <2>1. ~torn /\ connRefs' = connRefs /\ protRefs' = protRefs
    BY <1>1 DEF ParseDuringRelease, TypeOK
  <2>2. Lent' = (Lent \cup {x}) \ {y} /\ x \notin Lent /\ y \in Lent
    BY SentToType DEF ParseDuringRelease, Lent, TypeOK
  <2>3. Cardinality(Lent \cup {x}) = Cardinality(Lent) + 1 /\ IsFiniteSet(Lent \cup {x})
    BY <2>2, LentFinite, FS_AddElement
  <2>4. Cardinality(Lent') = Cardinality(Lent \cup {x}) - 1
    BY <2>2, <2>3, FS_RemoveElement
  <2>5. Cardinality(Lent') = Cardinality(Lent)
    BY <2>3, <2>4, LentFinite
  <2> QED BY <2>1, <2>5 DEF RefsAgree
<1> QED BY <1>1 DEF RefsAgree

\* What is counted zero times is not lent.
LEMMA NoneLent ==
  ASSUME RefsAgree, ~torn, connRefs = 0 \/ protRefs = 0
  PROVE  Lent = {}
  BY LentFinite, FS_EmptySet DEF RefsAgree

\* The counters are right, and so nothing is deleted that is still referred to.
THEOREM KeptCorrect == Spec => []Kept
<1>1. Init => Kept
  <2> SUFFICES ASSUME Init PROVE Kept
    OBVIOUS
  <2>1. CASE protocol = "none"
    <3>1. Lent = {}
      BY <2>1 DEF Init, Lent
    <3> QED BY <2>1, <3>1, FS_EmptySet DEF Init, Kept, RefsAgree,
        ProtocolOutlives, NoNullSocket, Idle
  <2>2. CASE protocol = "live"
    <3>1. writing \in Messages /\ Lent = {writing}
      BY <2>2 DEF Init, Lent
    <3>2. Cardinality(Lent) = 1
      BY <3>1, FS_Singleton
    <3> QED BY <2>2, <3>2 DEF Init, Kept, RefsAgree, ProtocolOutlives,
        NoNullSocket, Idle
  <2> QED BY <2>1, <2>2 DEF Init
<1>2. Shape /\ Shape' /\ Kept /\ [Next]_vars => Kept'
  <2> SUFFICES ASSUME Shape, Shape', Kept, [Next]_vars PROVE Kept'
    OBVIOUS
  <2> USE ConnectionAssumption DEF Shape, TypeOK, OneRelease, SocketShape,
      ProtocolShape, WriteShape, Kept, ProtocolOutlives, NoNullSocket, Idle,
      vars, io, times, refs, ends, States, Sockets, Timers, Protocols, Places,
      Results, Close, CloseSocket, Outcomes, StartWrite, Refused, Transmit,
      StopReading, NextPacket, Disconnect, Written, Alive, ReleaseConnection,
      ProtocolReleased, Sent
  <2>0. ~torn /\ (connRefs = 0 \/ protRefs = 0) => \A m \in Messages : place[m] = "pool"
    BY NoneLent DEF Lent
  <2>1. ASSUME NEW r \in Results, ParseHeader(r) PROVE Kept'
    <3>1. Lent' = Lent /\ RefsAgree'
      <4>1. UNCHANGED refs /\ \A m \in Messages : place'[m] = "pool" <=> place[m] = "pool"
        BY <2>1 DEF ParseHeader
      <4> QED BY <4>1, SameCount
    <3> QED BY <2>0, <2>1, <3>1 DEF ParseHeader, Lent
  <2>2. ASSUME NEW r \in Results, ParseLast(r) PROVE Kept'
    <3>1. Lent' = Lent /\ RefsAgree'
      <4>1. UNCHANGED refs /\ \A m \in Messages : place'[m] = "pool" <=> place[m] = "pool"
        BY <2>2 DEF ParseLast
      <4> QED BY <4>1, SameCount
    <3> QED BY <2>0, <2>2, <3>1 DEF ParseLast, Lent
  <2>3. CASE ParseUnknown
    <3>1. Lent' = Lent /\ RefsAgree'
      <4>1. UNCHANGED refs /\ \A m \in Messages : place'[m] = "pool" <=> place[m] = "pool"
        BY <2>3 DEF ParseUnknown
      <4> QED BY <4>1, SameCount
    <3> QED BY <2>0, <2>3, <3>1 DEF ParseUnknown, Lent
  <2>4. CASE ParsePacket
    <3>1. Lent' = Lent /\ RefsAgree'
      <4>1. UNCHANGED refs /\ \A m \in Messages : place'[m] = "pool" <=> place[m] = "pool"
        BY <2>4 DEF ParsePacket
      <4> QED BY <4>1, SameCount
    <3> QED BY <2>0, <2>4, <3>1 DEF ParsePacket, Lent
  <2>5. ASSUME NEW r \in Results, OnWrite(r) PROVE Kept'
    <3>1. Lent' = Lent /\ RefsAgree'
      <4>1. UNCHANGED refs /\ \A m \in Messages : place'[m] = "pool" <=> place[m] = "pool"
        BY <2>5 DEF OnWrite
      <4> QED BY <4>1, SameCount
    <3> QED BY <2>0, <2>5, <3>1 DEF OnWrite, Lent
  <2>6. CASE ExpireRead
    <3>1. Lent' = Lent /\ RefsAgree'
      <4>1. UNCHANGED refs /\ \A m \in Messages : place'[m] = "pool" <=> place[m] = "pool"
        BY <2>6 DEF ExpireRead
      <4> QED BY <4>1, SameCount
    <3> QED BY <2>0, <2>6, <3>1 DEF ExpireRead, Lent
  <2>7. CASE ExpireWrite
    <3>1. Lent' = Lent /\ RefsAgree'
      <4>1. UNCHANGED refs /\ \A m \in Messages : place'[m] = "pool" <=> place[m] = "pool"
        BY <2>7 DEF ExpireWrite
      <4> QED BY <4>1, SameCount
    <3> QED BY <2>0, <2>7, <3>1 DEF ExpireWrite, Lent
  <2>8. CASE ReadTimeout
    <3>1. Lent' = Lent /\ RefsAgree'
      <4>1. UNCHANGED refs /\ \A m \in Messages : place'[m] = "pool" <=> place[m] = "pool"
        BY <2>8 DEF ReadTimeout
      <4> QED BY <4>1, SameCount
    <3> QED BY <2>0, <2>8, <3>1 DEF ReadTimeout, Lent
  <2>9. CASE WriteTimeout
    <3>1. Lent' = Lent /\ RefsAgree'
      <4>1. UNCHANGED refs /\ \A m \in Messages : place'[m] = "pool" <=> place[m] = "pool"
        BY <2>9 DEF WriteTimeout
      <4> QED BY <4>1, SameCount
    <3> QED BY <2>0, <2>9, <3>1 DEF WriteTimeout, Lent
  <2>10. CASE OnStop
    <3>1. Lent' = Lent /\ RefsAgree'
      <4>1. UNCHANGED refs /\ \A m \in Messages : place'[m] = "pool" <=> place[m] = "pool"
        BY <2>10 DEF OnStop
      <4> QED BY <4>1, SameCount
    <3> QED BY <2>0, <2>10, <3>1 DEF OnStop, Lent
  <2>11. CASE CloseConnection
    <3>1. Lent' = Lent /\ RefsAgree'
      <4>1. UNCHANGED refs /\ \A m \in Messages : place'[m] = "pool" <=> place[m] = "pool"
        BY <2>11 DEF CloseConnection
      <4> QED BY <4>1, SameCount
    <3> QED BY <2>0, <2>11, <3>1 DEF CloseConnection, Lent
  <2>12. CASE ReleaseConnectionAgain
    <3>1. Lent' = Lent /\ RefsAgree'
      <4>1. UNCHANGED refs /\ \A m \in Messages : place'[m] = "pool" <=> place[m] = "pool"
        BY <2>12 DEF ReleaseConnectionAgain
      <4> QED BY <4>1, SameCount
    <3> QED BY <2>0, <2>12, <3>1 DEF ReleaseConnectionAgain, Lent
  <2>13. CASE ReleaseProtocolAgain
    <3>1. Lent' = Lent /\ RefsAgree'
      <4>1. UNCHANGED refs /\ \A m \in Messages : place'[m] = "pool" <=> place[m] = "pool"
        BY <2>13 DEF ReleaseProtocolAgain
      <4> QED BY <4>1, SameCount
    <3> QED BY <2>0, <2>13, <3>1 DEF ReleaseProtocolAgain, Lent
  <2>14. CASE Kick
    <3>1. Lent' = Lent /\ RefsAgree'
      <4>1. UNCHANGED refs /\ \A m \in Messages : place'[m] = "pool" <=> place[m] = "pool"
        BY <2>14 DEF Kick
      <4> QED BY <4>1, SameCount
    <3> QED BY <2>0, <2>14, <3>1 DEF Kick, Lent
  <2>15. ASSUME NEW x \in Messages, Send(x) PROVE Kept'
    <3>1. Lent' = Lent /\ RefsAgree'
      <4>1. UNCHANGED refs /\ \A m \in Messages : place'[m] = "pool" <=> place[m] = "pool"
        BY <2>15, SentToType DEF Send
      <4> QED BY <4>1, SameCount
    <3> QED BY <2>0, <2>15, <3>1 DEF Send, Lent
  <2>16. ASSUME NEW x \in Messages, Requeue(x) PROVE Kept'
    <3>1. Lent' = Lent /\ RefsAgree'
      <4>1. UNCHANGED refs /\ \A m \in Messages : place'[m] = "pool" <=> place[m] = "pool"
        BY <2>16 DEF Requeue
      <4> QED BY <4>1, SameCount
    <3> QED BY <2>0, <2>16, <3>1 DEF Requeue, Lent
  <2>17. ASSUME NEW x \in Messages, DropOld(x) PROVE Kept'
    <3>1. Lent' = Lent /\ RefsAgree'
      <4>1. UNCHANGED refs /\ \A m \in Messages : place'[m] = "pool" <=> place[m] = "pool"
        BY <2>17 DEF DropOld
      <4> QED BY <4>1, SameCount
    <3> QED BY <2>0, <2>17, <3>1 DEF DropOld, Lent
  <2>18. ASSUME NEW x \in Messages, ParseAndDisconnect(x) PROVE Kept'
    <3>1. Lend(x, SentTo(x)) /\ SentTo(x) \in Places /\ SentTo(x) # "pool"
      BY <2>18, SentToType DEF ParseAndDisconnect
    <3>2. RefsAgree' /\ torn' = torn
      BY <3>1, LendCounts
    <3> QED BY <2>18, <3>2 DEF ParseAndDisconnect
  <2>19. ASSUME NEW x \in Messages, GetOutputBuffer(x) PROVE Kept'
    <3>1. Lend(x, "auto") /\ "auto" \in Places /\ "auto" # "pool"
      BY <2>19, SentToType DEF GetOutputBuffer
    <3>2. RefsAgree' /\ torn' = torn
      BY <3>1, LendCounts
    <3> QED BY <2>19, <3>2 DEF GetOutputBuffer
  <2>20. ASSUME NEW x \in Messages, KickWithMessage(x) PROVE Kept'
    <3>1. Lend(x, SentTo(x)) /\ SentTo(x) \in Places /\ SentTo(x) # "pool"
      BY <2>20, SentToType DEF KickWithMessage
    <3>2. RefsAgree' /\ torn' = torn
      BY <3>1, LendCounts
    <3> QED BY <2>20, <3>2 DEF KickWithMessage
  <2>21. ASSUME NEW x \in Messages, NEW y \in Messages, ParseDuringRelease(x, y) PROVE Kept'
    <3> QED BY <2>21, SwapCounts DEF ParseDuringRelease
  <2>22. ASSUME NEW x \in Messages, InternalReleaseMessage(x) PROVE Kept'
    <3>1. RefsAgree' /\ torn' = torn /\ Lent' = Lent \ {x}
      BY <2>22, ReleaseCounts
    <3> QED BY <2>0, <2>22, <3>1 DEF InternalReleaseMessage
  <2>23. CASE UNCHANGED vars
    <3>1. Lent' = Lent /\ RefsAgree'
      BY <2>23, SameCount
    <3> QED BY <2>23, <3>1
  <2> QED BY <2>1, <2>2, <2>3, <2>4, <2>5, <2>6, <2>7, <2>8, <2>9, <2>10,
      <2>11, <2>12, <2>13, <2>14, <2>15, <2>16, <2>17, <2>18, <2>19, <2>20,
      <2>21, <2>22, <2>23 DEF Next, Reads
<1> QED BY <1>1, <1>2, ShapeCorrect, PTL DEF Spec

-----------------------------------------------------------------------------
(* The properties the runs check, one by one                               *)

\* The variables keep their types.
THEOREM TypeCorrect == Spec => []TypeOK
<1>1. Shape => TypeOK
  BY DEF Shape
<1> QED BY <1>1, ShapeCorrect, PTL

\* Both counters count the messages that are lent, unless two threads collided.
THEOREM RefsCorrect == Spec => []RefsAgree
<1>1. Kept => RefsAgree
  BY DEF Kept
<1> QED BY <1>1, KeptCorrect, PTL

\* No message that is lent points to a deleted protocol.
THEOREM ProtocolKept == Spec => []ProtocolOutlives
<1>1. Kept => ProtocolOutlives
  BY DEF Kept
<1> QED BY <1>1, KeptCorrect, PTL

\* No handler calls the socket after onStop() deleted it.
THEOREM SocketKept == Spec => []NoNullSocket
<1>1. Kept => NoNullSocket
  BY DEF Kept
<1> QED BY <1>1, KeptCorrect, PTL

\* A connection in REQUEST_CLOSE has one posted closeConnection(), others have none.
THEOREM ClosedOnce == Spec => []OneCloseTask
<1>1. Shape => OneCloseTask
  BY DEF Shape
<1> QED BY <1>1, ShapeCorrect, PTL

\* A closed connection is released once.
THEOREM ReleasedOnce == Spec => []OneRelease
<1>1. Shape => OneRelease
  BY DEF Shape
<1> QED BY <1>1, ShapeCorrect, PTL

\* There is one outstanding write at most, and CLOSING waits for one.
THEOREM WritesOnce == Spec => []OneWrite
<1>1. Shape => OneWrite
  BY DEF Shape, OneWrite, SocketShape, CountShape, ProtocolShape
<1> QED BY <1>1, ShapeCorrect, PTL

\* The message a protocol fills is one that sendAll() will come to.
THEOREM BufferKept == Spec => []BufferQueued
<1>1. Shape => BufferQueued
  BY DEF Shape
<1> QED BY <1>1, ShapeCorrect, PTL

\* The objects of a connection live as long as they are used, and are closed and
\* released once: for any number of messages.
THEOREM LifetimesCorrect == Spec => []LifetimesSound
  BY TypeCorrect, RefsCorrect, ProtocolKept, ClosedOnce, ReleasedOnce, SocketKept, PTL
     DEF LifetimesSound

\* One write at a time, and what is filled will be sent: for any number of messages.
THEOREM WritesCorrect == Spec => []WritesSound
  BY WritesOnce, BufferKept, PTL DEF WritesSound

-----------------------------------------------------------------------------
(* The process and its ports: an instance beside the connection            *)

CONSTANTS Ports, Adds, MaxFailures, MaxSpurious, SlowLoad

VARIABLES main, notified, loader, acceptors, acceptor, accepting, services, pending,
          events, running, stopping, game, failures, spurious

Se == INSTANCE Services

\* The loader has registered the ports of the services that it is done with.
Registered ==
  /\ \A i \in 1 .. Len(Adds) :
       i < loader[1] \/ (i = loader[1] /\ loader[2] # "register") => Adds[i] \in acceptors
  /\ loader[2] \in {"register", "add"} => loader[1] > 0
  /\ loader[2] = "register" => Adds[loader[1]] \notin acceptors
  /\ loader[2] = "done" => loader[1] = Len(Adds)

\* Nothing has happened at a port that is neither registered nor just opened.
Untouched ==
  \A q \in Ports :
    q \notin acceptors /\ (loader[2] = "register" => Adds[loader[1]] # q) =>
      events[q] = 0 /\ ~acceptor[q]

\* Only the loader wakes main() up if nothing else does.
Told == MaxSpurious = 0 => (notified \/ main \in {"woken", "running"} => loader[2] = "done")

\* The io_service is stopped by the shutdown only.
StopsDown == game = "up" => ~stopping

Served == Se!TypeOK /\ Se!OpenedOnce /\ Registered /\ Untouched /\ StopsDown
Woken == Told /\ (MaxSpurious = 0 => Se!EndsIdle)

LEMMA AddsPorts ==
  ASSUME Se!ServicesAssumption
  PROVE  Len(Adds) \in Nat /\ Len(Adds) > 0 /\ \A i \in 1 .. Len(Adds) : Adds[i] \in Ports
BY DEF Se!ServicesAssumption

LEMMA ServicesInit == ASSUME Se!ServicesAssumption, Se!Init PROVE Served /\ Woken
<1> USE AddsPorts DEF Se!Init
<1>1. Se!TypeOK
  <2>1. /\ notified \in BOOLEAN /\ running \in BOOLEAN /\ stopping \in BOOLEAN
        /\ acceptor \in [Ports -> BOOLEAN] /\ accepting \in [Ports -> BOOLEAN]
        /\ pending \in [Ports -> BOOLEAN]
    OBVIOUS
  <2>2. failures \in 0 .. MaxFailures /\ spurious \in 0 .. MaxSpurious
    BY DEF Se!ServicesAssumption
  <2>3. loader \in (0 .. Len(Adds)) \X {"open", "register", "add", "done"}
    OBVIOUS
  <2>4. QED
    BY <2>1, <2>2, <2>3 DEF Se!TypeOK
<1>2. Se!OpenedOnce /\ Untouched
  BY DEF Se!OpenedOnce, Untouched
<1>3. Registered
  BY DEF Registered
<1>4. QED
  BY <1>1, <1>2, <1>3 DEF Served, Woken, Told, StopsDown, Se!EndsIdle

\* main() and the loader between two ports leave these alone.
LEMMA ServicesNext ==
  ASSUME Se!ServicesAssumption, Served, [Se!Next]_(Se!vars) PROVE Served'
<1> USE AddsPorts DEF Served, Se!TypeOK, Se!portVars, Se!loadVars, Se!stopVars
<1>1. CASE \/ Se!AddTask \/ Se!Wait \/ Se!Wake \/ Se!Run \/ Se!Shutdown \/ Se!RunReturns
           \/ UNCHANGED Se!vars
  <2>1. UNCHANGED <<Se!loadVars, Se!portVars>>
    BY <1>1 DEF Se!AddTask, Se!Wait, Se!Wake, Se!Run, Se!Shutdown, Se!RunReturns, Se!vars
  <2>2. Se!OpenedOnce' /\ Registered' /\ Untouched'
    BY <2>1 DEF Se!OpenedOnce, Registered, Untouched
  <2>3. /\ main' \in {"start", "posted", "waiting", "woken", "running", "ended"}
        /\ game' \in {"up", "down"}
        /\ failures' = failures /\ notified' = notified
    BY <1>1 DEF Se!AddTask, Se!Wait, Se!Wake, Se!Run, Se!Shutdown, Se!RunReturns, Se!vars
  <2>4. spurious' \in 0 .. MaxSpurious
    BY <1>1 DEF Se!AddTask, Se!Wait, Se!Wake, Se!Run, Se!Shutdown, Se!RunReturns,
       Se!vars, Se!ServicesAssumption
  <2>5. running' \in BOOLEAN /\ stopping' \in BOOLEAN
    BY <1>1 DEF Se!AddTask, Se!Wait, Se!Wake, Se!Run, Se!Shutdown, Se!RunReturns,
       Se!vars, Se!Stop
  <2>6. StopsDown'
    BY <1>1 DEF Se!AddTask, Se!Wait, Se!Wake, Se!Run, Se!Shutdown, Se!RunReturns,
       Se!vars, StopsDown
  <2>7. QED
    BY <2>1, <2>2, <2>3, <2>4, <2>5, <2>6
<1>2. CASE Se!LoadOpen
  <2> DEFINE n == loader[1] + 1
             q == Adds[n]
  <2>1. /\ loader[2] = "open" /\ n \in 1 .. Len(Adds) /\ q \in Ports
        /\ loader = <<loader[1], "open">>
        /\ UNCHANGED <<main, notified, acceptors, services, Se!stopVars, spurious>>
    BY <1>2 DEF Se!LoadOpen
  <2>2. CASE q \in acceptors
    <3>1. loader' = <<n, "add">> /\ UNCHANGED <<Se!portVars, failures>>
      BY <1>2, <2>2 DEF Se!LoadOpen
    <3> HIDE DEF q
    <3>2. Registered' /\ Untouched'
      BY <2>1, <2>2, <3>1 DEF Registered, Untouched, q
    <3>3. QED
      BY <2>1, <3>1, <3>2 DEF Se!OpenedOnce, StopsDown
  <2>3. CASE q \notin acceptors
    <3>1. /\ loader' = <<n, "register">>
          /\ (Se!Opened(q) /\ UNCHANGED events) \/ Se!OpenFailed(q)
      BY <1>2, <2>3 DEF Se!LoadOpen
    <3>2. events[q] = 0 /\ ~acceptor[q] /\ ~accepting[q]
      BY <2>1, <2>3 DEF Untouched, Se!OpenedOnce
    <3>3. Registered'
      BY <2>1, <2>3, <3>1 DEF Registered
    <3> HIDE DEF q
    <3>4. /\ acceptor' \in [Ports -> BOOLEAN] /\ accepting' \in [Ports -> BOOLEAN]
          /\ pending' \in [Ports -> BOOLEAN] /\ events' \in [Ports -> 0 .. 1]
          /\ failures' \in 0 .. MaxFailures
      <4>1. acceptor' \in [Ports -> BOOLEAN] /\ accepting' \in [Ports -> BOOLEAN]
        BY <3>1 DEF Se!Opened, Se!OpenFailed
      <4>2. pending' \in [Ports -> BOOLEAN]
        BY <3>1 DEF Se!Opened, Se!OpenFailed
      <4>3. events' \in [Ports -> 0 .. 1]
        BY <3>1, <3>2 DEF Se!Opened, Se!OpenFailed
      <4>4. failures' \in 0 .. MaxFailures
        BY <3>1 DEF Se!Opened, Se!OpenFailed, Se!ServicesAssumption
      <4>5. QED
        BY <4>1, <4>2, <4>3, <4>4
    <3>5. \A p \in Ports : p # q => /\ acceptor'[p] = acceptor[p] /\ accepting'[p] = accepting[p]
                                    /\ pending'[p] = pending[p] /\ events'[p] = events[p]
      BY <3>1 DEF Se!Opened, Se!OpenFailed
    <3>6. /\ events'[q] > 0 => ~acceptor'[q] /\ pending'[q]
          /\ accepting'[q] => acceptor'[q]
      BY <2>1, <3>1, <3>2 DEF Se!Opened, Se!OpenFailed
    <3>7. Se!OpenedOnce'
      BY <3>5, <3>6 DEF Se!OpenedOnce
    <3>8. Untouched'
      BY <2>1, <3>1, <3>5 DEF Untouched, q
    <3>9. QED
      BY <2>1, <3>1, <3>3, <3>4, <3>7, <3>8 DEF StopsDown
  <2>4. QED
    BY <2>2, <2>3
<1>3. CASE Se!LoadRegister \/ Se!LoadAdd \/ Se!LoadDone
  <2>1. UNCHANGED <<Se!portVars, Se!stopVars, failures, spurious, main>>
    BY <1>3 DEF Se!LoadRegister, Se!LoadAdd, Se!LoadDone
  <2>2. loader[1] \in 0 .. Len(Adds) /\ loader = <<loader[1], loader[2]>>
    OBVIOUS
  <2>3. CASE Se!LoadRegister
    <3>1. loader' = <<loader[1], "add">> /\ acceptors' = acceptors \union {Adds[loader[1]]}
          /\ loader[1] > 0 /\ loader[2] = "register" /\ UNCHANGED <<services, notified>>
      BY <2>3 DEF Se!LoadRegister, Registered
    <3>2. Adds[loader[1]] \in Ports
      BY <2>2, <3>1
    <3>3. Registered' /\ Untouched'
      BY <2>1, <2>2, <3>1 DEF Registered, Untouched
    <3>4. QED
      BY <2>1, <2>2, <3>1, <3>2, <3>3 DEF Se!OpenedOnce, StopsDown
  <2>4. CASE Se!LoadAdd
    <3>1. loader' = <<loader[1], "open">> /\ UNCHANGED <<acceptors, notified>>
          /\ loader[1] > 0 /\ loader[2] = "add"
          /\ services' = [services EXCEPT ![Adds[loader[1]]] = @ + 1]
      BY <2>4 DEF Se!LoadAdd, Registered
    <3>2. Registered' /\ Untouched'
      BY <2>1, <2>2, <3>1 DEF Registered, Untouched
    <3>3. services' \in [Ports -> Nat]
      BY <3>1
    <3>4. QED
      BY <2>1, <2>2, <3>1, <3>2, <3>3 DEF Se!OpenedOnce, StopsDown
  <2>5. CASE Se!LoadDone
    <3>1. /\ loader' = <<Len(Adds), "done">> /\ loader = <<Len(Adds), "open">>
          /\ notified' \in BOOLEAN
          /\ UNCHANGED <<acceptors, services>>
      BY <2>5 DEF Se!LoadDone, Se!NotifyAll
    <3>2. Registered' /\ Untouched'
      BY <2>1, <3>1 DEF Registered, Untouched
    <3>3. QED
      BY <2>1, <3>1, <3>2 DEF Se!OpenedOnce, StopsDown
  <2>6. QED
    BY <1>3, <2>3, <2>4, <2>5
<1>4. CASE \E q \in Ports : Se!Accepted(q) \/ Se!AcceptFailed(q) \/ Se!OnOpen(q)
  <2>1. PICK q \in Ports : Se!Accepted(q) \/ Se!AcceptFailed(q) \/ Se!OnOpen(q)
    BY <1>4
  <2>2. UNCHANGED <<main, notified, Se!loadVars, Se!stopVars, spurious>>
    BY <2>1 DEF Se!Accepted, Se!AcceptFailed, Se!OnOpen
  <2>3. /\ acceptor' \in [Ports -> BOOLEAN] /\ accepting' \in [Ports -> BOOLEAN]
        /\ pending' \in [Ports -> BOOLEAN] /\ failures' \in 0 .. MaxFailures
    <3>1. failures' \in 0 .. MaxFailures
      BY <2>1 DEF Se!Accepted, Se!AcceptFailed, Se!OnOpen, Se!Opened, Se!ServicesAssumption
    <3>2. acceptor' \in [Ports -> BOOLEAN]
      BY <2>1 DEF Se!Accepted, Se!AcceptFailed, Se!OnOpen, Se!Opened, Se!Close
    <3>3. accepting' \in [Ports -> BOOLEAN]
      <4>1. CASE Se!Accepted(q)
        <5> DEFINE some == services[q] > 0
        <5>1. some \in BOOLEAN
          OBVIOUS
        <5>2. accepting' = [accepting EXCEPT ![q] = some]
          BY <4>1 DEF Se!Accepted, Se!Handle
        <5> HIDE DEF some
        <5>3. QED
          BY <5>1, <5>2
      <4>2. CASE Se!AcceptFailed(q) \/ Se!OnOpen(q)
        BY <4>2 DEF Se!AcceptFailed, Se!OnOpen, Se!Opened, Se!Close
      <4>3. QED
        BY <2>1, <4>1, <4>2
    <3>4. pending' \in [Ports -> BOOLEAN]
      BY <2>1 DEF Se!Accepted, Se!AcceptFailed, Se!OnOpen, Se!Opened, Se!Reopen
    <3>5. QED
      BY <3>1, <3>2, <3>3, <3>4
  <2>4. \A p \in Ports : p # q => /\ acceptor'[p] = acceptor[p] /\ accepting'[p] = accepting[p]
                                  /\ pending'[p] = pending[p] /\ events'[p] = events[p]
    BY <2>1 DEF Se!Accepted, Se!AcceptFailed, Se!OnOpen, Se!Opened, Se!Close, Se!Reopen,
       Se!Handle
  <2>5. acceptor[q] \/ events[q] > 0
    BY <2>1 DEF Se!Accepted, Se!AcceptFailed, Se!OnOpen, Se!OpenedOnce
  <2>6. /\ events' \in [Ports -> 0 .. 1]
        /\ events'[q] > 0 => ~acceptor'[q] /\ pending'[q]
        /\ accepting'[q] => acceptor'[q]
    <3>1. CASE Se!Accepted(q)
      BY <3>1 DEF Se!Accepted, Se!Handle, Se!OpenedOnce
    <3>2. CASE Se!AcceptFailed(q)
      <4>1. events[q] = 0
        BY <3>2 DEF Se!AcceptFailed, Se!OpenedOnce
      <4>2. QED
        BY <3>2, <4>1 DEF Se!AcceptFailed, Se!Close, Se!Reopen
    <3>3. CASE Se!OnOpen(q)
      <4>1. events[q] = 1
        BY <3>3 DEF Se!OnOpen
      <4>2. QED
        <5>1. CASE Se!Opened(q) /\ events' = [events EXCEPT ![q] = @ - 1]
          <6>1. events' \in [Ports -> 0 .. 1] /\ events'[q] = 0
            BY <4>1, <5>1
          <6>2. acceptor'[q]
            BY <5>1 DEF Se!Opened
          <6>3. QED
            BY <6>1, <6>2
        <5>2. CASE /\ pending' = [pending EXCEPT ![q] = TRUE]
                   /\ UNCHANGED <<acceptor, accepting, events>>
          BY <4>1, <5>2 DEF Se!OpenedOnce
        <5>3. QED
          BY <3>3, <5>1, <5>2 DEF Se!OnOpen
    <3>4. QED
      BY <2>1, <3>1, <3>2, <3>3
  <2>7. Se!OpenedOnce'
    BY <2>4, <2>6 DEF Se!OpenedOnce
  <2>8. Untouched'
    BY <2>2, <2>4, <2>5 DEF Untouched
  <2>9. Registered' /\ StopsDown'
    BY <2>2 DEF Registered, StopsDown
  <2>10. QED
    BY <2>2, <2>3, <2>6, <2>7, <2>8, <2>9
<1>5. QED
  BY <1>1, <1>2, <1>3, <1>4 DEF Se!Next

\* Without a wake-up that nobody asked for, main() never ends under a port that accepts.
LEMMA WokenNext ==
  ASSUME Se!ServicesAssumption, Served, Woken, [Se!Next]_(Se!vars) PROVE Woken'
<1> SUFFICES ASSUME MaxSpurious = 0 PROVE Told' /\ Se!EndsIdle'
  BY DEF Woken, Told
<1> USE DEF Woken, Told, Se!EndsIdle, Se!portVars, Se!loadVars, Se!stopVars
<1>1. CASE Se!Run
  <2>1. loader[2] = "done" /\ loader[1] = Len(Adds)
    BY <1>1 DEF Se!Run, Served, Registered
  <2>2. Adds[Len(Adds)] \in acceptors
    BY <2>1, AddsPorts DEF Served, Registered
  <2>3. main' = "running" /\ UNCHANGED <<loader, notified>>
    BY <1>1, <2>2 DEF Se!Run
  <2>4. QED
    BY <2>1, <2>3
<1>2. CASE Se!Wake
  <2>1. notified
    BY <1>2 DEF Se!Wake, Served, Se!TypeOK
  <2>2. QED
    BY <1>2, <2>1 DEF Se!Wake
<1>3. CASE Se!RunReturns
  BY <1>3 DEF Se!RunReturns, Served, StopsDown
<1>4. CASE Se!AddTask \/ Se!Wait \/ Se!Shutdown \/ UNCHANGED Se!vars
  BY <1>4 DEF Se!AddTask, Se!Wait, Se!Shutdown, Se!vars
<1>5. CASE Se!LoadOpen \/ Se!LoadRegister \/ Se!LoadAdd \/ Se!LoadDone
  <2>1. main # "ended" /\ main' = main /\ loader[2] # "done"
        /\ (notified' => notified \/ loader'[2] = "done")
    BY <1>5 DEF Se!LoadOpen, Se!LoadRegister, Se!LoadAdd, Se!LoadDone, Se!Loading
  <2>2. main \notin {"woken", "running"} /\ ~notified
    BY <2>1
  <2>3. QED
    BY <2>1, <2>2
<1>6. CASE \E q \in Ports : Se!Accepted(q) \/ Se!AcceptFailed(q) \/ Se!OnOpen(q)
  BY <1>6 DEF Se!Accepted, Se!AcceptFailed, Se!OnOpen, Se!IoRuns
<1>7. QED
  BY <1>1, <1>2, <1>3, <1>4, <1>5, <1>6 DEF Se!Next

\* Whatever fails to open or to accept, a port is opened by one of its threads at a time
\* (OpenedOnce of Services, which PortsSound of MCNetwork checks).
THEOREM PortsCorrect ==
  ASSUME Se!ServicesAssumption PROVE Se!Spec => [](Se!TypeOK /\ Se!OpenedOnce)
<1>1. Se!Init => Served
  BY ServicesInit
<1>2. Served /\ [Se!Next]_(Se!vars) => Served'
  BY ServicesNext
<1>3. Served => Se!TypeOK /\ Se!OpenedOnce
  BY DEF Served
<1>4. QED
  BY <1>1, <1>2, <1>3, PTL DEF Se!Spec

\* If main() wakes up only when the loader tells it to, it never leaves a port that accepts
\* (EndsIdle of Services, which PortsSound of MCNetwork checks of the same instances).
THEOREM EndsCorrect ==
  ASSUME Se!ServicesAssumption, MaxSpurious = 0 PROVE Se!Spec => []Se!EndsIdle
<1>1. Se!Init => Served /\ Woken
  BY ServicesInit
<1>2. Served /\ Woken /\ [Se!Next]_(Se!vars) => (Served /\ Woken)'
  BY ServicesNext, WokenNext
<1>3. Served /\ Woken => Se!EndsIdle
  BY DEF Woken
<1>4. QED
  BY <1>1, <1>2, <1>3, PTL DEF Se!Spec
=============================================================================
