------------------------------ MODULE MCNetwork ------------------------------
(***************************************************************************)
(* The network on small instances: a connection with its protocol and its  *)
(* messages, the locks of sendAll() and parsePacket(), main() with the     *)
(* loader and the ports.  They share no state, so a behaviour is one of a  *)
(* single one of them; turn says which.                                    *)
(***************************************************************************)
EXTENDS Connection

CONSTANTS
  Msgs, None,                       \* of SendLocks
  Ports, MaxFailures, MaxSpurious   \* of Services

VARIABLES
  turn,
  disp, ioThread, taken, filled, autoSend, addQueue, at, written, open, flushing,
  main, notified, loader, acceptors, acceptor, accepting, services, pending,
  events, running, stopping, game, failures, spurious

locks == <<disp, ioThread, taken, filled, autoSend, addQueue, at, written, open, flushing>>
ports == <<main, notified, loader, acceptors, acceptor, accepting, services, pending,
           events, running, stopping, game, failures, spurious>>
all == <<turn, vars, locks, ports>>

\* The server's shutdown with the locks held, a server that stays up, and the
\* connection of an account manager.
Closing == INSTANCE SendLocks WITH Manager <- FALSE, Shutdown <- TRUE,
             io <- ioThread, buffer <- filled, writing <- written
Lasting == INSTANCE SendLocks WITH Manager <- FALSE, Shutdown <- FALSE,
             io <- ioThread, buffer <- filled, writing <- written
Managed == INSTANCE SendLocks WITH Manager <- TRUE, Shutdown <- FALSE,
             io <- ioThread, buffer <- filled, writing <- written

\* The login services share a port, the game has its own, as in otserv.cpp.
Adds == <<7171, 7171, 7172, 7171>>
Fast == INSTANCE Services WITH SlowLoad <- FALSE
Slow == INSTANCE Services WITH SlowLoad <- TRUE, MaxSpurious <- 0

ASSUME LocksAssumption ==
  Closing!SendLocksAssumption /\ Lasting!SendLocksAssumption /\ Managed!SendLocksAssumption
ASSUME PortsAssumption == Fast!ServicesAssumption /\ Slow!ServicesAssumption

AllInit ==
  /\ turn \in {"connection", "closing", "lasting", "managed", "fast", "slow"}
  /\ Init /\ (turn # "connection" => protocol = "none")
  /\ Closing!Init /\ Fast!Init

AllNext ==
  \/ turn = "connection" /\ Next /\ UNCHANGED <<turn, locks, ports>>
  \/ turn = "closing" /\ Closing!Next /\ UNCHANGED <<turn, vars, ports>>
  \/ turn = "lasting" /\ Lasting!Next /\ UNCHANGED <<turn, vars, ports>>
  \/ turn = "managed" /\ Managed!Next /\ UNCHANGED <<turn, vars, ports>>
  \/ turn = "fast" /\ Fast!Next /\ UNCHANGED <<turn, vars, locks>>
  \/ turn = "slow" /\ Slow!Next /\ UNCHANGED <<turn, vars, locks>>

\* The fairness of each module, for the behaviours that are its own.
LocksFairness ==
  /\ WF_locks(turn = "lasting" /\ Lasting!Dispatch)
  /\ SF_locks(turn = "lasting" /\ Lasting!SendNext)
  /\ SF_locks(turn = "lasting" /\ Lasting!SendLocked)
  /\ WF_locks(turn = "lasting" /\ Lasting!Service)
  /\ SF_locks(turn = "lasting" /\ Lasting!OnWrite)

PortsFairness ==
  /\ WF_ports(turn = "slow" /\ Slow!AddTask)
  /\ WF_ports(turn = "slow" /\ Slow!Wait)
  /\ WF_ports(turn = "slow" /\ Slow!Wake)
  /\ WF_ports(turn = "slow" /\ Slow!Run)
  /\ WF_ports(turn = "slow" /\ Slow!LoadOpen)
  /\ WF_ports(turn = "slow" /\ Slow!LoadRegister)
  /\ WF_ports(turn = "slow" /\ Slow!LoadAdd)
  /\ WF_ports(turn = "slow" /\ Slow!LoadDone)
  /\ \A q \in Ports : WF_ports(turn = "slow" /\ Slow!OnOpen(q))
  /\ WF_ports(turn = "slow" /\ stopping /\ Slow!RunReturns)

Turn(A) == turn = "connection" /\ A
ConnectionFairness ==
  /\ WF_vars(Turn(socket # "open" /\ \E r \in Results : ParseHeader(r) \/ ParseLast(r)))
  /\ WF_vars(Turn(socket # "open" /\ \E r \in Results : OnWrite(r)))
  /\ WF_vars(Turn(ExpireWrite)) /\ WF_vars(Turn(WriteTimeout)) /\ WF_vars(Turn(OnStop))
  /\ WF_vars(Turn(CloseConnection))
  /\ WF_vars(Turn(ReleaseConnectionAgain)) /\ WF_vars(Turn(ReleaseProtocolAgain))
  /\ \A x \in Messages :
       /\ WF_vars(Turn(Send(x)))
       /\ WF_vars(Turn(Requeue(x) \/ DropOld(x))) /\ SF_vars(Turn(DropOld(x)))
       /\ WF_vars(Turn(InternalReleaseMessage(x)))

AllSpec ==
  /\ AllInit /\ [][AllNext]_all
  /\ ConnectionFairness /\ LocksFairness /\ PortsFairness

-----------------------------------------------------------------------------
(* Properties                                                              *)

\* The dispatcher's and the io_service's thread wait for each other only when
\* flush() runs the last tasks or for an account manager, the message a protocol
\* fills is always one that sendAll() will visit, and there is one such message;
\* while the server is up every message leaves the lists.
LocksSound ==
  /\ [](turn = "closing" => Closing!LocksHold)
  /\ [](turn = "lasting" => Lasting!LocksHold)
  /\ [](turn = "managed" => Managed!LocksHold)
  /\ turn = "lasting" => Lasting!Leaves

\* A port is opened by one of its threads at a time, main() runs the io_service
\* once the loader is done, and in the end each port accepts whatever failed to
\* open or to accept before.
PortsSound ==
  /\ [](turn = "fast" => Fast!TypeOK /\ Fast!OpenedOnce)
  /\ [](turn = "slow" => Slow!TypeOK /\ Slow!OpenedOnce /\ Slow!EndsIdle)
  /\ turn = "slow" => Slow!Starts /\ Slow!Listens
=============================================================================
