------------------------------ MODULE MCLogins ------------------------------
(***************************************************************************)
(* A player's way in, on small instances: the sessions of an account, with *)
(* clones and without; the waiting list; and, once he is in, his reports   *)
(* to the gamemasters, and the creatures and tiles his client shows.  They *)
(* share no state here, so a behaviour is one of a single one of them;     *)
(* turn says which.                                                        *)
(***************************************************************************)
EXTENDS Sessions, TLC

CONSTANTS Ann, Bob, Gus, Hal           \* clients, gamemasters and creatures

VARIABLES
  turn,
  gameState2, queue2, sched2, conn2, life2, held2, accepts2, refs2, name2, where2,
  client2, connecting2, uses2, frees2, overtaken2,                        \* the clones'
  waitList, waiting, premium, skipWait, refused,                          \* WaitList's
  online, reports, gamemaster, open, channel, list,                       \* Reports'
  seen, shown, known, table, crowded, confused,                           \* KnownCreatures'
  tile, freed                                                             \* TileStack's

copies == <<gameState2, queue2, sched2, conn2, life2, held2, accepts2, refs2, name2, where2,
            client2, connecting2, uses2, frees2, overtaken2>>
waits == <<waitList, waiting, premium, skipWait, refused>>
tells == <<online, reports, gamemaster, open, channel, list>>
sees == <<seen, shown, known, table, crowded, confused>>
stacks == <<tile, freed>>
all == <<turn, vars, copies, waits, tells, sees, stacks>>

\* A character that may be there twice, on a server that may shut down.
Clones == INSTANCE Sessions WITH
            Names <- {Ann}, AlwaysLogin <- {},
            States <- {"NORMAL", "MAINTAIN", "SHUTDOWN"}, AllowClones <- 2, ReplaceKick <- FALSE,
            gameState <- gameState2, queue <- queue2, sched <- sched2, conn <- conn2,
            life <- life2, held <- held2, accepts <- accepts2, refs <- refs2, name <- name2,
            where <- where2, client <- client2, connecting <- connecting2, uses <- uses2,
            frees <- frees2, overtaken <- overtaken2

\* Four clients for two places: one is patient, one may become premium.
Waits == INSTANCE WaitList WITH
           Clients <- {Ann, Bob, Gus, Hal}, AlwaysLogin <- {Hal}, Patient <- {Ann},
           Buyers <- {Bob}, MaxPlayers <- 2, SkipWaits <- {FALSE, TRUE},
           online <- waiting

Tells == INSTANCE Reports WITH
           Players <- {Ann, Bob, Gus, Hal}, Gamemasters <- {Gus, Hal}

\* Four creatures around a client that keeps two.
Sees == INSTANCE KnownCreatures WITH
          Creatures <- {Ann, Bob, Gus, Hal}, Room <- 2, client <- table

\* Creatures that come and go, seen and unseen, on a tile with a few items, and items
\* that replace others, with a client that shows fewer than there can be.
Crowds == INSTANCE TileStack WITH
            Floors <- {"ground"}, Tops <- {}, Splashes <- {}, Loose <- {"stack"},
            Chests <- {"box"}, Fields <- {}, Creatures <- {Ann, Bob}, Watchers <- {Gus, Hal},
            Seers <- {Gus}, Limit <- 4, s <- tile
Stacks == INSTANCE TileStack WITH
            Floors <- {"ground", "lawn"}, Tops <- {"border"}, Splashes <- {"blood", "slime"},
            Loose <- {"stack"}, Chests <- {}, Fields <- {"flame", "spark"}, Creatures <- {},
            Watchers <- {Hal}, Seers <- {}, Limit <- 4, s <- tile

ASSUME WaitListAssumption == Waits!WaitListAssumption
ASSUME ReportsAssumption == Tells!ReportsAssumption
ASSUME KnownAssumption == Sees!KnownAssumption
ASSUME TileStackAssumption == Crowds!TileStackAssumption /\ Stacks!TileStackAssumption

AllInit ==
  /\ turn \in {"single", "clones", "waits", "tells", "sees", "crowds", "stacks"}
  /\ Init /\ Clones!Init
  /\ Waits!Init /\ (turn # "waits" => ~skipWait)
  /\ Tells!Init /\ Sees!Init
  /\ IF turn = "stacks" THEN Stacks!Init ELSE Crowds!Init

AllNext ==
  \/ turn = "single" /\ Next /\ UNCHANGED <<turn, copies, waits, tells, sees, stacks>>
  \/ turn = "clones" /\ Clones!Next /\ UNCHANGED <<turn, vars, waits, tells, sees, stacks>>
  \/ turn = "waits" /\ Waits!Next /\ UNCHANGED <<turn, vars, copies, tells, sees, stacks>>
  \/ turn = "tells" /\ Tells!Next /\ UNCHANGED <<turn, vars, copies, waits, sees, stacks>>
  \/ turn = "sees" /\ Sees!Next /\ UNCHANGED <<turn, vars, copies, waits, tells, stacks>>
  \/ turn = "crowds" /\ Crowds!Next /\ UNCHANGED <<turn, vars, copies, waits, tells, sees>>
  \/ turn = "stacks" /\ Stacks!Next /\ UNCHANGED <<turn, vars, copies, waits, tells, sees>>

AllSpec == AllInit /\ [][AllNext]_all

\* Connections are interchangeable, and so are the Player objects.
Symmetry == Permutations(Protocols) \union Permutations(Players)

-----------------------------------------------------------------------------
(* Properties                                                              *)

\* A character that may be there twice is there twice at most; each of the two is
\* controlled by one open connection, and nothing is counted wrongly or used after its
\* end, also when the server shuts down.
ClonesSound ==
  Clones!TypeOK /\ Clones!OneInWorld /\ Clones!OneController /\ Clones!NoStaleTask
  /\ Clones!Balanced

\* Who waits has one place, premium players before the others, and keeps it; and
\* nobody takes the room of one who waits before him.
WaitsInTurn ==
  /\ [](turn = "waits" => Waits!ListSound)
  /\ [][turn = "waits" => Waits!KeepsPlace /\ Waits!TakesNoRoom]_all

\* Reports are between players who are there, gamemasters see those that are
\* open, and one that is taken is not taken by another.
ReportsAgree ==
  /\ [](turn = "tells" => Tells!ReportsSound)
  /\ [][turn = "tells" => Tells!TakenOnce]_all

\* What the server believes a client shows is what it shows.  It knows the creatures it
\* is told of, unless more are in sight at once than it keeps; and it shows the first
\* things of a tile that its player can see, in their order and as they are, unless the
\* code misled it since it last got the whole tile, while the tile counts its things and
\* keeps no item that was deleted.
ClientShows ==
  /\ turn = "sees" => Sees!ClientKnows
  /\ turn = "crowds" => Crowds!TilesSound
  /\ turn = "stacks" => Stacks!TilesSound
=============================================================================
