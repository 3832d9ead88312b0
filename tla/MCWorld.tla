------------------------------- MODULE MCWorld -------------------------------
(***************************************************************************)
(* What must go on, on small instances: raids end, spawns are filled again, *)
(* paths are walked, players who nobody controls leave, those who wait come *)
(* in, and jobs at the database end, whether it only saves players (the     *)
(* constants of Database are those of the configuration) or does all it     *)
(* does.  The components share no state here, so a behaviour is one of a    *)
(* single one of them; turn says which.                                     *)
(***************************************************************************)
EXTENDS Database

CONSTANT None

VARIABLES
  turn,
  running, eventCount, nextEvent, refCount, raidOf,                       \* Raids'
  started, spawned, living, inZone, spawnOf, counts, toRelease, event, due,
  watched,                                                                \* Spawn's
  w, tasks, commands,                                                     \* WalkEvents'
  gameState, queue, sched, conn, life, held, accepts, refs, name, where, client,
  connecting, uses, frees, overtaken,                                     \* Sessions'
  waitList, online, premium, skipWait, refused,                           \* WaitList's
  rows2, session2, reachable2, connected2, gaveUp2, lock2, inside2, job2, jobs2, net2,
  writes2, faults2                                     \* those of Database with every job

raids == <<running, eventCount, nextEvent, refCount, raidOf>>
spawns == <<started, spawned, living, inZone, spawnOf, counts, toRelease, event, due, watched>>
walks == <<w, tasks, commands>>
sessions == <<gameState, queue, sched, conn, life, held, accepts, refs, name, where,
              client, connecting, uses, frees, overtaken>>
waits == <<waitList, online, premium, skipWait, refused>>
saves == <<rows2, session2, reachable2, connected2, gaveUp2, lock2, inside2, job2, jobs2,
           net2, writes2, faults2>>
all == <<turn, vars, raids, spawns, walks, sessions, waits, saves>>

\* A raid of each type, of three events.
Names == {"plain", "single", "block"}
Raiding == INSTANCE Raids WITH
             RaidNames <- Names, Length <- [r \in Names |-> 3], Things <- {"x", "y", "z"},
             RefType <- [r \in Names |-> IF r = "plain" THEN "none" ELSE r]

\* Two spots, whose monsters may leave, be convinced and come back; or may not.
Luring == INSTANCE Spawn WITH
            Spots <- {1, 2}, Monsters <- {11, 12, 13}, Rate <- 1, CanLeave <- TRUE,
            life <- living, refs <- counts
Filling == INSTANCE Spawn WITH
             Spots <- {1, 2}, Monsters <- {11, 12, 13}, Rate <- 1, CanLeave <- FALSE,
             life <- living, refs <- counts

Walking == INSTANCE WalkEvents WITH
             MaxPath <- 2, MaxCommands <- 5, MaxQueue <- 3, queue <- tasks

\* Two connections and two Player objects of one character.
Single == INSTANCE Sessions WITH
            Protocols <- {"p1", "p2"}, Players <- {"o1", "o2"},
            Names <- {"Ann"}, AlwaysLogin <- {}, States <- {"NORMAL", "CLOSED"},
            AllowClones <- 0, ReplaceKick <- TRUE

\* Three clients for one place, two of them patient.
Clients == {"a", "b", "c"}
Waiting == INSTANCE WaitList WITH
             Clients <- Clients, AlwaysLogin <- {}, Patient <- {"b", "c"}, Buyers <- {},
             MaxPlayers <- 1, SkipWaits <- {FALSE}

\* Every job, an error, and a session that is lost.
Saves == INSTANCE Database WITH
           Jobs <- {"player", "houses", "ping"}, MaxJobs <- 2, MaxWrites <- 2,
           MaxErrors <- 1, MaxLosses <- 1,
           rows <- rows2, session <- session2, reachable <- reachable2,
           connected <- connected2, gaveUp <- gaveUp2, lock <- lock2, inside <- inside2,
           job <- job2, jobs <- jobs2, net <- net2, writes <- writes2, faults <- faults2

ASSUME RaidsAssumption == Raiding!RaidsAssumption
ASSUME SpawnAssumption == Luring!SpawnAssumption /\ Filling!SpawnAssumption
ASSUME WalkEventsAssumption == Walking!WalkEventsAssumption
ASSUME WaitListAssumption == Waiting!WaitListAssumption

AllInit ==
  /\ turn \in {"players", "raids", "luring", "filling", "walking", "sessions", "waiting", "saves"}
  /\ Init /\ Raiding!Init /\ (IF turn = "filling" THEN Filling!Init ELSE Luring!Init)
  /\ Walking!Init /\ Single!Init /\ Waiting!Init /\ Saves!Init

AllNext ==
  \/ turn = "players" /\ Next
     /\ UNCHANGED <<turn, raids, spawns, walks, sessions, waits, saves>>
  \/ turn = "raids" /\ Raiding!Next
     /\ UNCHANGED <<turn, vars, spawns, walks, sessions, waits, saves>>
  \/ turn = "luring" /\ Luring!Next
     /\ UNCHANGED <<turn, vars, raids, walks, sessions, waits, saves>>
  \/ turn = "filling" /\ Filling!Next
     /\ UNCHANGED <<turn, vars, raids, walks, sessions, waits, saves>>
  \/ turn = "walking" /\ Walking!Next
     /\ UNCHANGED <<turn, vars, raids, spawns, sessions, waits, saves>>
  \/ turn = "sessions" /\ Single!Next
     /\ UNCHANGED <<turn, vars, raids, spawns, walks, waits, saves>>
  \/ turn = "waiting" /\ Waiting!Next
     /\ UNCHANGED <<turn, vars, raids, spawns, walks, sessions, saves>>
  \/ turn = "saves" /\ Saves!Next
     /\ UNCHANGED <<turn, vars, raids, spawns, walks, sessions, waits>>

\* The fairness of each module, for the behaviours that are its own.
RaidsFairness ==
  /\ \A r \in Names : WF_raids(turn = "raids" /\ Raiding!ExecuteRaidEvent(r))
  /\ \A t \in {"x", "y", "z"} : WF_raids(turn = "raids" /\ Raiding!Unref(t))

SpawnFairness ==
  /\ WF_spawns(turn = "filling" /\ Filling!Startup)
  /\ WF_spawns(turn = "filling" /\ Filling!CheckSpawn)
  /\ \A s \in {1, 2} : WF_spawns(turn = "filling" /\ Filling!Elapse(s))
  /\ \A m \in 11 .. 13 : WF_spawns(turn = "filling" /\ Filling!Release(m))

WalkFairness ==
  /\ WF_walks(turn = "walking" /\ Walking!Dispatch)
  /\ WF_walks(turn = "walking" /\ Walking!DueOwn)
  /\ WF_walks(turn = "walking" /\ Walking!DueStray)
  /\ WF_walks(turn = "walking" /\ Walking!DueAct)

SessionsFairness ==
  /\ WF_sessions(turn = "sessions" /\ Single!RunTask)
  /\ \A p \in {"p1", "p2"}, o \in {"o1", "o2"} :
       /\ WF_sessions(turn = "sessions" /\ Single!Due(Single!Task("connect", p, o)))
       /\ WF_sessions(turn = "sessions" /\ Single!Due(Single!Task("release", p, None)))
  /\ \A o \in {"o1", "o2"} : WF_sessions(turn = "sessions" /\ client[o] = None /\ Single!Idle(o))

WaitsFairness ==
  /\ WF_waits(turn = "waiting" /\ Waiting!Tick)
  /\ \A c \in Clients : WF_waits(turn = "waiting" /\ Waiting!Leave(c))
  /\ \A c \in {"b", "c"} : /\ WF_waits(turn = "waiting" /\ Waiting!LetIn(c))
                           /\ WF_waits(turn = "waiting" /\ c \in refused /\ Waiting!Refuse(c))

SavesFairness ==
  /\ SF_saves(turn = "saves" /\ Saves!Send)
  /\ WF_saves(turn = "saves" /\ (Saves!Done \/ Saves!Failed))
  /\ WF_saves(turn = "saves" /\ Saves!NetWrites)

AllSpec ==
  /\ AllInit /\ [][AllNext]_all
  /\ RaidsFairness /\ SpawnFairness /\ WalkFairness
  /\ SessionsFairness /\ WaitsFairness /\ SavesFairness

-----------------------------------------------------------------------------
(* Properties                                                              *)

\* One raid runs at a time, begins with its first event, and stays or waits for
\* its things as its type says; and every raid ends.
RaidsSound ==
  /\ [](turn = "raids" => Raiding!RaidsSound)
  /\ [][turn = "raids" => Raiding!SingleWaits]_all
RaidsEnd == turn = "raids" => Raiding!RaidsEnd

\* A spot has one monster, which the spawn can look at until it has forgotten
\* it; and no spot stays empty that players keep away from.
SpawnSound == turn = "luring" => Luring!SpawnSound
Refills == turn = "filling" => Filling!Refills

\* A walk is one chain of events; and a path is walked to its end or given up.
WalksOn ==
  /\ [](turn = "walking" => Walking!WalkSound)
  /\ turn = "walking" => Walking!Arrives

\* Who is controlled by nobody leaves or is taken over, and closed connections
\* are forgotten; who waits and goes on asking comes in.
ComesAndGoes ==
  /\ turn = "sessions" => Single!Leaves /\ Single!Released
  /\ turn = "waiting" => Waiting!Served

\* Every job at the database ends, and leaves no lock or transaction behind; players
\* are saved whole until a session is lost, whatever else is saved.
JobsEnd ==
  /\ [](turn = "saves" => Saves!DatabaseSound)
  /\ turn = "saves" => Saves!Ends
=============================================================================
