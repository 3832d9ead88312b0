------------------------------ MODULE Services ------------------------------
(***************************************************************************)
(* The life of the process (otserv.cpp, server.cpp): main() starts the     *)
(* loader as a task of the dispatcher and waits for it; the loader opens   *)
(* the ports and adds the services; main() then runs the io_service, which *)
(* accepts connections, until Game::shutdown stops the services.           *)
(*                                                                         *)
(* Three threads touch a ServicePort: the dispatcher opens it, first in    *)
(* the loader and again by an event after a failure; the io_service, run   *)
(* by main(), accepts and closes on an error; the dispatcher stops it.     *)
(*                                                                         *)
(* What becomes of a connection is Connection's; an accept is one step.    *)
(* The environment: opening a port and accepting fail a bounded number of  *)
(* times (MaxFailures), a wait wakes up without a notice at most           *)
(* MaxSpurious times.                                                      *)
(***************************************************************************)
EXTENDS Naturals, Sequences, FiniteSets

CONSTANTS
  Ports,         \* port numbers
  Adds,          \* the ports of the services, in the order they are added
  MaxFailures,   \* bound on failures to open a port or to accept
  MaxSpurious,   \* bound on wake-ups without a notice
  SlowLoad       \* the loader takes longer than main() needs to wait for it

ServicesAssumption ==
  /\ Adds \in Seq(Ports) /\ Adds # <<>>
  /\ MaxFailures \in Nat /\ MaxSpurious \in Nat /\ SlowLoad \in BOOLEAN

VARIABLES
  main,       \* where main() is
  notified,   \* g_loaderSignal woke main() up
  loader,     \* the step of the loader: <<how many added, what is next>>
  acceptors,  \* ServiceManager::m_acceptors, the ports in it
  acceptor,   \* ServicePort::m_acceptor of each port: there or not
  accepting,  \* an async_accept is outstanding
  services,   \* ServicePort::m_services, how many
  pending,    \* ServicePort::m_pendingStart
  events,     \* scheduled calls of onOpen, how many
  running,    \* ServiceManager::running
  stopping,   \* ServiceManager::stop did its work
  game,       \* "up", or "down" once Game::shutdown has run
  failures, spurious

portVars == <<acceptor, accepting, pending, events>>
loadVars == <<loader, acceptors, services>>
stopVars == <<running, stopping, game>>
vars == <<main, notified, loadVars, portVars, stopVars, failures, spurious>>

TypeOK ==
  /\ main \in {"start", "posted", "waiting", "woken", "running", "ended"}
  /\ notified \in BOOLEAN
  /\ loader \in (0 .. Len(Adds)) \X {"open", "register", "add", "done"}
  /\ acceptors \subseteq Ports
  /\ acceptor \in [Ports -> BOOLEAN] /\ accepting \in [Ports -> BOOLEAN]
  /\ services \in [Ports -> Nat] /\ pending \in [Ports -> BOOLEAN]
  /\ events \in [Ports -> 0 .. 1]
  /\ running \in BOOLEAN /\ stopping \in BOOLEAN
  /\ game \in {"up", "down"}
  /\ failures \in 0 .. MaxFailures /\ spurious \in 0 .. MaxSpurious

Init ==
  /\ main = "start" /\ notified = FALSE /\ loader = <<0, "open">>
  /\ acceptors = {}
  /\ acceptor = [q \in Ports |-> FALSE] /\ accepting = [q \in Ports |-> FALSE]
  /\ services = [q \in Ports |-> 0] /\ pending = [q \in Ports |-> FALSE]
  /\ events = [q \in Ports |-> 0]
  /\ running = FALSE /\ stopping = FALSE
  /\ game = "up" /\ failures = 0 /\ spurious = 0

-----------------------------------------------------------------------------
(* A port                                                                  *)

\* ServicePort::open: a new acceptor that accepts ...
Opened(q) ==
  /\ acceptor' = [acceptor EXCEPT ![q] = TRUE]
  /\ accepting' = [accepting EXCEPT ![q] = TRUE]
  /\ pending' = [pending EXCEPT ![q] = FALSE]
  /\ UNCHANGED failures

\* ... or an exception, and another try in five seconds.
OpenFailed(q) ==
  /\ failures < MaxFailures /\ failures' = failures + 1
  /\ pending' = [pending EXCEPT ![q] = TRUE]
  /\ events' = [events EXCEPT ![q] = @ + 1]
  /\ UNCHANGED <<acceptor, accepting>>

\* ServicePort::close
Close(q) ==
  /\ acceptor' = [acceptor EXCEPT ![q] = FALSE]
  /\ accepting' = [accepting EXCEPT ![q] = FALSE]

-----------------------------------------------------------------------------
(* main() and the loader                                                   *)

\* The loader is queued; then main() waits, unless the loader was faster.
AddTask ==
  /\ main = "start" /\ main' = "posted"
  /\ UNCHANGED <<notified, loadVars, portVars, stopVars, failures, spurious>>

Wait ==
  /\ main = "posted" /\ main' = "waiting"
  /\ UNCHANGED <<notified, loadVars, portVars, stopVars, failures, spurious>>

Wake ==
  /\ main = "waiting"
  /\ \/ notified /\ UNCHANGED spurious
     \/ spurious < MaxSpurious /\ spurious' = spurious + 1
  /\ main' = "woken"
  /\ UNCHANGED <<notified, loadVars, portVars, stopVars, failures>>

\* isRunning(): with a port main() runs the io_service, without one it ends.
Run ==
  /\ main = "woken"
  /\ main' = IF acceptors # {} THEN "running" ELSE "ended"
  /\ UNCHANGED <<notified, loadVars, portVars, stopVars, failures, spurious>>

Loading == main # "start" /\ main # "ended" /\ (SlowLoad => main # "posted") /\ game = "up"

\* ServiceManager::add: a port that is new is opened, then registered; then
\* the service is added to its port.
LoadOpen ==
  LET n == loader[1] + 1
      q == Adds[n] IN
  /\ Loading /\ loader[2] = "open" /\ n <= Len(Adds)
  /\ IF q \in acceptors
       THEN loader' = <<n, "add">> /\ UNCHANGED <<portVars, failures>>
       ELSE /\ loader' = <<n, "register">>
            /\ \/ Opened(q) /\ UNCHANGED events
               \/ OpenFailed(q)
  /\ UNCHANGED <<main, notified, acceptors, services, stopVars, spurious>>

LoadRegister ==
  /\ Loading /\ loader[2] = "register"
  /\ acceptors' = acceptors \union {Adds[loader[1]]}
  /\ loader' = <<loader[1], "add">>
  /\ UNCHANGED <<main, notified, services, portVars, stopVars, failures, spurious>>

LoadAdd ==
  /\ Loading /\ loader[2] = "add"
  /\ services' = [services EXCEPT ![Adds[loader[1]]] = @ + 1]
  /\ loader' = <<loader[1], "open">>
  /\ UNCHANGED <<main, notified, acceptors, portVars, stopVars, failures, spurious>>

\* notify_all() wakes up main() only if it waits.
NotifyAll == notified' = (main = "waiting")

LoadDone ==
  /\ Loading /\ loader = <<Len(Adds), "open">>
  /\ loader' = <<Len(Adds), "done">>
  /\ NotifyAll
  /\ UNCHANGED <<main, acceptors, services, portVars, stopVars, failures, spurious>>

-----------------------------------------------------------------------------
(* The io_service, run by main(), and the event that opens a port again    *)

IoRuns == main = "running"

\* ServicePort::handle without an error: it accepts again, unless the port
\* has no service (yet).
Handle(q) == accepting' = [accepting EXCEPT ![q] = services[q] > 0]

Accepted(q) ==
  /\ IoRuns /\ accepting[q] /\ ~stopping
  /\ Handle(q)
  /\ UNCHANGED <<main, notified, loadVars, acceptor, pending, events, stopVars, failures, spurious>>

\* Variant: the mark is set but nothing is scheduled.
ReopenNever(q) ==
  /\ pending' = [pending EXCEPT ![q] = TRUE]
  /\ events' = events
\* handle(): one try to open the port again is scheduled.
Reopen(q) ==
  /\ pending' = [pending EXCEPT ![q] = TRUE]
  /\ events' = IF pending[q] THEN events ELSE [events EXCEPT ![q] = @ + 1]

\* handle() with an error that is not the abort by close().
AcceptFailed(q) ==
  /\ IoRuns /\ accepting[q]
  /\ failures < MaxFailures /\ failures' = failures + 1
  /\ Close(q)
  /\ Reopen(q)
  /\ UNCHANGED <<main, notified, loadVars, stopVars, spurious>>

\* ServicePort::onOpen, a task of the dispatcher.
OnOpen(q) ==
  /\ events[q] > 0 /\ game = "up" /\ main # "ended"
  /\ \/ Opened(q) /\ events' = [events EXCEPT ![q] = @ - 1]
     \/ /\ failures < MaxFailures /\ failures' = failures + 1
        /\ pending' = [pending EXCEPT ![q] = TRUE]
        /\ UNCHANGED <<acceptor, accepting, events>>
  /\ UNCHANGED <<main, notified, loadVars, stopVars, spurious>>

-----------------------------------------------------------------------------
(* The end                                                                 *)

\* ServiceManager::stop closes the ports and, three seconds later, stops the
\* io_service; but only if running, which the end of run() sets.
Stop == stopping' = running

\* Game::shutdown, the last task of the dispatcher.
Shutdown ==
  /\ game = "up" /\ loader[2] = "done" /\ main # "ended"
  /\ game' = "down"
  /\ Stop
  /\ UNCHANGED <<main, notified, loadVars, portVars, running, failures, spurious>>

\* io_service::run returns when it is stopped or has nothing left to wait for:
\* no accept (and no connection, which are not in this module).
RunReturns ==
  /\ main = "running"
  /\ stopping \/ \A q \in Ports : ~accepting[q]
  /\ running' = TRUE
  /\ main' = "ended"
  /\ UNCHANGED <<notified, loadVars, portVars, stopping, game, failures, spurious>>

Next ==
  \/ AddTask \/ Wait \/ Wake \/ Run
  \/ LoadOpen \/ LoadRegister \/ LoadAdd \/ LoadDone
  \/ \E q \in Ports : Accepted(q) \/ AcceptFailed(q) \/ OnOpen(q)
  \/ Shutdown \/ RunReturns

\* The threads go on, events become due and a stopped io_service returns.
Fairness ==
  /\ WF_vars(AddTask) /\ WF_vars(Wait) /\ WF_vars(Wake) /\ WF_vars(Run)
  /\ WF_vars(LoadOpen) /\ WF_vars(LoadRegister) /\ WF_vars(LoadAdd) /\ WF_vars(LoadDone)
  /\ \A q \in Ports : WF_vars(OnOpen(q))
  /\ WF_vars(stopping /\ RunReturns)

Spec == Init /\ [][Next]_vars /\ Fairness

-----------------------------------------------------------------------------
(* Properties                                                              *)

\* A port is opened by one of its threads at a time: while an event to open
\* it is scheduled there is no acceptor it could overwrite.
OpenedOnce ==
  \A q \in Ports : /\ events[q] > 0 => ~acceptor[q] /\ pending[q]
                   /\ accepting[q] => acceptor[q]

\* Once the loader runs main() gets to run the io_service or to end.
Starts == (main = "waiting") ~> main \in {"running", "ended"}

\* A port of a service accepts in the end, after every failure, for as long as
\* the process is up; or all ports failed at once, run() returned and the
\* process ended before the next try.
Listens ==
  \A q \in Ports : (services[q] > 0) ~> (accepting[q] \/ main = "ended" \/ game = "down")

\* main() ends before the shutdown only when no port accepts.
EndsIdle == main = "ended" /\ game = "up" => \A q \in Ports : ~accepting[q]
=============================================================================
