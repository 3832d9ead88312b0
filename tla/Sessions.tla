------------------------------ MODULE Sessions ------------------------------
(***************************************************************************)
(* Logging in and out: ProtocolGame::login, connect, logout and            *)
(* releaseProtocol, the Player objects they make and share, and            *)
(* Game::setGameState, which throws players out.                           *)
(*                                                                         *)
(* A connection of a client has a ProtocolGame.  Its first packet queues a *)
(* login task; everything else here runs as tasks of the dispatcher, one   *)
(* at a time.  login() makes a Player from the database and places it in   *)
(* the world, or, when the character is there already, takes it over: at   *)
(* once if no connection controls it, else it closes the other connection  *)
(* and schedules connect() a second later.  In that second anything may    *)
(* happen: the old connection closes, the player dies, is thrown out or    *)
(* logs out, a third connection logs in, the new one closes.               *)
(*                                                                         *)
(* Protocols and players are counted objects.  A ProtocolGame is deleted   *)
(* when its connection is closed and no scheduled connect() uses it; a     *)
(* Player when the world and the protocols that hold it have given it back *)
(* (Game::freeThing) and Game::cleanup has run.                            *)
(*                                                                         *)
(* Left out: what is loaded and saved, bans, name locks and the account    *)
(* manager (a refusal of any kind is one outcome), the waiting list (see   *)
(* WaitList), the references that messages hold on a protocol (see         *)
(* Connection), and time: an event is due at any moment.                   *)
(***************************************************************************)
EXTENDS Naturals, Sequences, FiniteSets, SequencesExt, FiniteSetsExt

CONSTANTS
  Protocols,      \* ProtocolGame objects, one per connection
  Players,        \* Player objects
  Names,          \* the characters of one account
  AlwaysLogin,    \* those with PlayerFlag_CanAlwaysLogin
  States,         \* the states the server is put into (bound)
  AllowClones,    \* allowClones of config.lua
  ReplaceKick,    \* replaceKickOnLogin
  None            \* a null pointer

ASSUME SessionsAssumption ==
  /\ IsFiniteSet(Protocols) /\ IsFiniteSet(Players)
  /\ AllowClones \in Nat
  /\ ReplaceKick \in BOOLEAN
  /\ AlwaysLogin \subseteq Names
  /\ States \subseteq {"NORMAL", "MAINTAIN", "CLOSED", "CLOSING", "SHUTDOWN"}
  /\ None \notin Protocols \union Players \union Names

VARIABLES
  gameState,   \* Game::gameState
  queue,       \* the tasks of the dispatcher, oldest first
  sched,       \* the tasks the scheduler holds
  conn,        \* Connection: not there, open, asked to close, closed
  life,        \* ProtocolGame: not there, there, deleted
  held,        \* ProtocolGame::player
  accepts,     \* m_acceptPackets
  refs,        \* Protocol::m_refCount
  name,        \* Player::name
  where,       \* Player: not there, loaded, in the world, removed from it
  client,      \* Player::client
  connecting,  \* Player::isConnecting
  uses,        \* Thing::refCount of a player
  frees,       \* how often a player is in Game::releaseThings
  overtaken    \* players whose connect() ran before the close it waits for

protoVars  == <<conn, life, held, accepts, refs>>
playerVars == <<name, where, client, connecting, uses, frees, overtaken>>
vars == <<gameState, queue, sched, protoVars, playerVars>>

\* login() is bound to the name of a character, connect() to a player.
Task(op, p, a) == [op |-> op, proto |-> p, arg |-> a]
Tasks == [op : {"login", "connect", "close", "release", "logout"},
          proto : Protocols, arg : Names \union Players \union {None}]
Pending == ToSet(queue) \union sched

InWorld == {o \in Players : where[o] = "world"}
Named(n) == {o \in InWorld : name[o] = n}

TypeOK ==
  /\ gameState \in States \union {"NORMAL"}
  /\ queue \in Seq(Tasks) /\ sched \subseteq Tasks
  /\ conn \in [Protocols -> {"none", "open", "requested", "closed"}]
  /\ life \in [Protocols -> {"none", "live", "deleted"}]
  /\ held \in [Protocols -> Players \union {None}]
  /\ accepts \in [Protocols -> BOOLEAN]
  /\ refs \in [Protocols -> 0 .. 1]
  /\ name \in [Players -> Names \union {None}]
  /\ where \in [Players -> {"none", "loaded", "world", "removed"}]
  /\ client \in [Players -> Protocols \union {None}]
  /\ connecting \in [Players -> BOOLEAN]
  /\ uses \in [Players -> Nat] /\ frees \in [Players -> Nat]
  /\ overtaken \subseteq Players

Init ==
  /\ gameState = "NORMAL" /\ queue = <<>> /\ sched = {}
  /\ conn = [p \in Protocols |-> "none"] /\ life = [p \in Protocols |-> "none"]
  /\ held = [p \in Protocols |-> None]
  /\ accepts = [p \in Protocols |-> FALSE] /\ refs = [p \in Protocols |-> 0]
  /\ name = [o \in Players |-> None] /\ where = [o \in Players |-> "none"]
  /\ client = [o \in Players |-> None]
  /\ connecting = [o \in Players |-> FALSE]
  /\ uses = [o \in Players |-> 0] /\ frees = [o \in Players |-> 0]
  /\ overtaken = {}

-----------------------------------------------------------------------------
(* Helpers: posting, closing, removing                                     *)

\* Dispatcher::addTask and Scheduler::addEvent refuse once they are stopped.
Running == gameState # "SHUTDOWN"

\* Connection::close() of the connections P: asks once, and only for one that
\* is open.  rest is what stays in the queue.
CloseAll(P, rest) ==
  LET open == {p \in P : conn[p] = "open"} IN
  /\ conn' = [p \in Protocols |-> IF p \in open THEN "requested" ELSE conn[p]]
  /\ \E order \in SetToSeqs(open) :
       queue' = IF Running
                  THEN rest \o [i \in DOMAIN order |-> Task("close", order[i], None)]
                  ELSE rest

\* Game::removeCreature of the players O: each is given back by the world.
RemoveCreatures(O) ==
  /\ where' = [o \in Players |-> IF o \in O THEN "removed" ELSE where[o]]
  /\ frees' = [o \in Players |-> IF o \in O THEN frees[o] + 1 ELSE frees[o]]

\* The dispatcher takes the first task.
Runs(op, p) ==
  /\ queue # <<>>
  /\ Head(queue).op = op /\ Head(queue).proto = p

-----------------------------------------------------------------------------
(* Network threads                                                         *)

\* ProtocolGame::parseFirstPacket queues login() unless the state forbids it.
FirstPacket(p, n) ==
  /\ life[p] = "none"
  /\ gameState \in {"NORMAL", "CLOSED", "CLOSING"}
  /\ conn' = [conn EXCEPT ![p] = "open"]
  /\ life' = [life EXCEPT ![p] = "live"]
  /\ queue' = Append(queue, Task("login", p, n))
  /\ UNCHANGED <<gameState, sched, held, accepts, refs, playerVars>>

\* The client goes away, or a timer or an error closes the connection.
Drop(p) ==
  /\ conn[p] = "open" /\ Running
  /\ CloseAll({p}, queue)
  /\ UNCHANGED <<gameState, sched, life, held, accepts, refs, playerVars>>

\* ProtocolGame::parsePacket: a logout, also of a player that is dead.
ParseLogout(p) ==
  /\ conn[p] = "open" /\ accepts[p] /\ held[p] # None /\ Running
  /\ Task("logout", p, None) \notin ToSet(queue)    \* bound
  /\ queue' = Append(queue, Task("logout", p, None))
  /\ UNCHANGED <<gameState, sched, protoVars, playerVars>>

\* Scheduler: an event is due and its task goes to the dispatcher.
Due(t) ==
  /\ t \in sched /\ Running
  /\ sched' = sched \ {t}
  /\ queue' = Append(queue, t)
  /\ UNCHANGED <<gameState, protoVars, playerVars>>

-----------------------------------------------------------------------------
(* Closing a connection, releasing and deleting its protocol               *)

\* ProtocolGame::releaseProtocol and deleteProtocolTask.
ReleaseProtocol(p) ==
  /\ client' = [o \in Players |-> IF o = held[p] /\ client[o] = p THEN None ELSE client[o]]
  /\ IF refs[p] > 0
       THEN /\ sched' = IF Running THEN sched \union {Task("release", p, None)} ELSE sched
            /\ UNCHANGED <<life, held, frees>>
       ELSE /\ life' = [life EXCEPT ![p] = "deleted"]
            /\ held' = [held EXCEPT ![p] = None]
            /\ frees' = [o \in Players |-> IF o = held[p] THEN frees[o] + 1 ELSE frees[o]]
            /\ UNCHANGED sched

\* Connection::closeConnection, run by the dispatcher.
RunClose(p) ==
  /\ Runs("close", p)
  /\ queue' = Tail(queue)
  /\ conn' = [conn EXCEPT ![p] = "closed"]
  /\ ReleaseProtocol(p)
  /\ UNCHANGED <<gameState, accepts, refs, name, where, connecting, uses, overtaken>>

\* Protocol::releaseProtocol again, of a protocol that was in use.
RunRelease(p) ==
  /\ Runs("release", p)
  /\ queue' = Tail(queue)
  /\ ReleaseProtocol(p)
  /\ UNCHANGED <<gameState, conn, accepts, refs, name, where, connecting, uses, overtaken>>

-----------------------------------------------------------------------------
(* Logging in                                                              *)

\* Variant: the limit on clones is off by one.
MayLoadOneMore(n) == Named(n) = {} \/ AllowClones >= Cardinality(Named(n))
\* ProtocolGame::login: make a new Player unless the character is there and
\* no further clone of it is allowed.
MayLoad(n) == Named(n) = {} \/ AllowClones > Cardinality(Named(n))

\* The state of the server, and one character of an account at a time.
MayEnter(n) ==
  /\ n \in AlwaysLogin \/ gameState \notin {"CLOSING", "CLOSED"}
  /\ InWorld # {} => Named(n) # {}

\* A Player that no event, task or protocol refers to can be made again.
FreshPlayer(o) == where[o] = "none" /\ \A t \in Pending : t.arg # o

\* login() makes a player and places it in the world.
LoginNew(p, o) ==
  /\ Runs("login", p) /\ MayLoad(Head(queue).arg) /\ FreshPlayer(o)
  /\ MayEnter(Head(queue).arg)
  /\ queue' = Tail(queue)
  /\ name' = [name EXCEPT ![o] = Head(queue).arg]
  /\ client' = [client EXCEPT ![o] = p]
  /\ where' = [where EXCEPT ![o] = "world"]
  /\ uses' = [uses EXCEPT ![o] = 2]
  /\ held' = [held EXCEPT ![p] = o]
  /\ accepts' = [accepts EXCEPT ![p] = TRUE]
  /\ UNCHANGED <<gameState, sched, conn, life, refs, connecting, frees, overtaken>>

\* login() makes a player and refuses it: ban, name lock, state of the
\* server, account, waiting list, no place in the world.
LoginRefused(p, o) ==
  /\ Runs("login", p) /\ MayLoad(Head(queue).arg) /\ FreshPlayer(o)
  /\ CloseAll({p}, Tail(queue))
  /\ name' = [name EXCEPT ![o] = Head(queue).arg]
  /\ client' = [client EXCEPT ![o] = p]
  /\ where' = [where EXCEPT ![o] = "loaded"]
  /\ uses' = [uses EXCEPT ![o] = 1]
  /\ held' = [held EXCEPT ![p] = o]
  /\ UNCHANGED <<gameState, sched, life, accepts, refs, connecting, frees, overtaken>>

\* The character is controlled by another connection and is not replaced.
LoginAlready(p, o) ==
  /\ Runs("login", p) /\ ~MayLoad(Head(queue).arg)
  /\ o \in Named(Head(queue).arg) /\ client[o] # None /\ ~ReplaceKick
  /\ CloseAll({p}, Tail(queue))
  /\ UNCHANGED <<gameState, sched, life, held, accepts, refs, playerVars>>

\* Variant: the protocol is not counted while its connect() is scheduled.
TakeRefNot(p) == refs' = refs
\* Protocol::addRef
TakeRef(p) == refs' = [refs EXCEPT ![p] = 1]

\* The other connection is closed and connect() follows in a second.
LoginReplace(p, o) ==
  /\ Runs("login", p) /\ ~MayLoad(Head(queue).arg)
  /\ o \in Named(Head(queue).arg) /\ client[o] # None /\ ReplaceKick
  /\ CloseAll({client[o]}, Tail(queue))
  /\ connecting' = [connecting EXCEPT ![o] = TRUE]
  /\ TakeRef(p)
  /\ sched' = IF Running THEN sched \union {Task("connect", p, o)} ELSE sched
  /\ UNCHANGED <<gameState, life, held, accepts, name, where, client, uses, frees, overtaken>>

\* ProtocolGame::connect: the player is there and nobody controls it.
MayConnect(o) == where[o] = "world" /\ client[o] = None

Connected(o) == connecting' = [connecting EXCEPT ![o] = FALSE]

\* connect() takes the player over.
Connect(p, o) ==
  /\ MayConnect(o)
  /\ queue' = Tail(queue)
  /\ held' = [held EXCEPT ![p] = o]
  /\ uses' = [uses EXCEPT ![o] = uses[o] + 1]
  /\ Connected(o)
  /\ client' = [client EXCEPT ![o] = p]
  /\ accepts' = [accepts EXCEPT ![p] = TRUE]
  /\ overtaken' = overtaken \ {o}
  /\ UNCHANGED <<gameState, sched, conn, life, name, where, frees>>

\* login() of a character that is there and that nobody controls.
LoginAttach(p, o) ==
  /\ Runs("login", p) /\ ~MayLoad(Head(queue).arg)
  /\ o \in Named(Head(queue).arg) /\ client[o] = None
  /\ refs' = refs
  /\ Connect(p, o)

\* Variant: a refused connect() does not give the protocol back.
DropRefNot(p) == refs' = refs
\* Protocol::unRef
DropRef(p) == refs' = [refs EXCEPT ![p] = 0]

\* The scheduled connect().
RunConnect(p, o) ==
  /\ Runs("connect", p) /\ Head(queue).arg = o
  /\ refs' = [refs EXCEPT ![p] = 0]
  /\ Connect(p, o)

\* The player has gone, or is controlled: the connection is refused.  The
\* player stays marked as connecting.
RunConnectRefused(p, o) ==
  /\ Runs("connect", p) /\ Head(queue).arg = o
  /\ ~MayConnect(o)
  /\ DropRef(p)
  /\ CloseAll({p}, Tail(queue))
  /\ overtaken' = IF where[o] = "world" THEN overtaken \union {o} ELSE overtaken
  /\ UNCHANGED <<gameState, sched, life, held, accepts,
                 name, where, client, connecting, uses, frees>>

-----------------------------------------------------------------------------
(* Leaving the world                                                       *)

\* ProtocolGame::logout: the connection is closed and the player, if it is
\* still in the world, removed.
RunLogout(p) ==
  /\ Runs("logout", p)
  /\ CloseAll({p}, Tail(queue))
  /\ RemoveCreatures({held[p]} \intersect InWorld)
  /\ UNCHANGED <<gameState, sched, life, held, accepts, refs,
                 name, client, connecting, uses, overtaken>>

\* The place, a fight or a script does not let the player log out.
RunLogoutRefused(p) ==
  /\ Runs("logout", p)
  /\ held[p] \in InWorld \union {None}
  /\ queue' = Tail(queue)
  /\ UNCHANGED <<gameState, sched, protoVars, playerVars>>

\* Player::canLogout (fights and places that hold a player end).
CanLogout(o) == ~connecting[o]

\* Player::onThink: a minute without an answer to the pings.
Idle(o) ==
  /\ o \in InWorld /\ Running
  /\ CanLogout(o)
  /\ CloseAll({client[o]} \ {None}, queue)
  /\ RemoveCreatures({o})
  /\ UNCHANGED <<gameState, sched, life, held, accepts, refs,
                 name, client, connecting, uses, overtaken>>

\* The player dies: the connection stays, for the client to log out.
Die(o) ==
  /\ o \in InWorld /\ Running
  /\ RemoveCreatures({o})
  /\ UNCHANGED <<gameState, queue, sched, protoVars, name, client, connecting, uses, overtaken>>

\* The players that the new state throws out.
Kicked(s) ==
  CASE s = "SHUTDOWN" -> InWorld
    [] s = "CLOSED" -> {o \in InWorld : name[o] \notin AlwaysLogin}
    [] OTHER -> {}

\* Game::setGameState, by a talk action or the global save.  A script cannot
\* refuse this logout (CreatureEvents::playerLogout with forceLogout).
SetGameState(s) ==
  /\ Running /\ s # gameState
  /\ gameState' = s
  /\ CloseAll({client[o] : o \in Kicked(s)} \ {None}, queue)
  /\ RemoveCreatures(Kicked(s))
  /\ sched' = IF s = "SHUTDOWN" THEN {} ELSE sched
  /\ UNCHANGED <<life, held, accepts, refs, name, client, connecting, uses, overtaken>>

\* Game::cleanup: what was given back is counted down, and deleted at zero.
Cleanup ==
  LET left == [o \in Players |-> uses[o] - frees[o]]
      gone == {o \in Players : frees[o] > 0 /\ left[o] = 0} IN
  /\ \E o \in Players : frees[o] > 0
  /\ uses' = left
  /\ frees' = [o \in Players |-> 0]
  /\ where' = [o \in Players |-> IF o \in gone THEN "none" ELSE where[o]]
  /\ name' = [o \in Players |-> IF o \in gone THEN None ELSE name[o]]
  /\ client' = [o \in Players |-> IF o \in gone THEN None ELSE client[o]]
  /\ connecting' = [o \in Players |-> o \notin gone /\ connecting[o]]
  /\ overtaken' = overtaken \ gone
  /\ UNCHANGED <<gameState, queue, sched, protoVars>>

-----------------------------------------------------------------------------
RunTask ==
  \/ \E p \in Protocols : \/ RunClose(p) \/ RunRelease(p)
                          \/ RunLogout(p) \/ RunLogoutRefused(p)
  \/ \E p \in Protocols, o \in Players :
       \/ LoginNew(p, o) \/ LoginRefused(p, o) \/ LoginAlready(p, o)
       \/ LoginReplace(p, o) \/ LoginAttach(p, o)
       \/ RunConnect(p, o) \/ RunConnectRefused(p, o)

Next ==
  \/ RunTask
  \/ \E p \in Protocols : Drop(p) \/ ParseLogout(p)
  \/ \E p \in Protocols, n \in Names : FirstPacket(p, n)
  \/ \E t \in sched : Due(t)
  \/ \E o \in Players : Idle(o) \/ Die(o)
  \/ \E s \in States : SetGameState(s)
  \/ Cleanup

\* The dispatcher goes on, events become due, and a player that nobody
\* controls runs out of time: its fight ends and it gets no answers.
Fairness ==
  /\ WF_vars(RunTask)
  /\ \A p \in Protocols, o \in Players :
       WF_vars(Due(Task("connect", p, o))) /\ WF_vars(Due(Task("release", p, None)))
  /\ \A o \in Players : WF_vars(client[o] = None /\ Idle(o))

Spec == Init /\ [][Next]_vars /\ Fairness

-----------------------------------------------------------------------------
(* Properties                                                              *)

\* getPlayersByName and allowClones: a character is in the world once, or as
\* often as clones are allowed.
OneInWorld ==
  \A n \in Names : Cardinality(Named(n)) <= (IF AllowClones = 0 THEN 1 ELSE AllowClones)

\* onePlayerOnlinePerAccount (config.lua:100, taken as set): the players in
\* the world, all of one account here, are one character.
OneOnAccount == \A o1, o2 \in InWorld : name[o1] = name[o2]

\* Player::client is a protocol that exists and that holds this player; and a
\* player is never controlled by two open connections.
OneController ==
  /\ \A o \in Players : client[o] # None =>
       life[client[o]] = "live" /\ held[client[o]] = o
  /\ \A p \in Protocols : conn[p] = "open" /\ accepts[p] /\ held[p] # None =>
       client[held[p]] = p

\* A task keeps a bare pointer to its protocol: none outlives it.
NoStaleTask == \A t \in Pending : life[t.proto] = "live"

\* A player is counted by the world and by each protocol that holds it, until
\* cleanup() has taken back what was freed: it neither leaks nor dies early.
Balanced ==
  \A o \in Players :
    uses[o] = (IF o \in InWorld THEN 1 ELSE 0)
              + Cardinality({p \in Protocols : held[p] = o}) + frees[o]

\* A player marked as connecting, which can neither log out for inactivity,
\* has a connect() on its way, but for one case: connect() ran before the
\* connection it replaces was closed and was refused.
ConnectOnItsWay ==
  Running => \A o \in InWorld : connecting[o] =>
    (\E t \in Pending : t.op = "connect" /\ t.arg = o) \/ o \in overtaken

\* While the server is closed only those who may always log in are there.
ClosedEmpty == gameState = "CLOSED" => \A o \in InWorld : name[o] \in AlwaysLogin

\* Characters are in the world as often as they may be, each controlled by one
\* connection at most, and nothing is counted wrongly or used after its end.
SessionsSound ==
  /\ TypeOK /\ OneInWorld /\ OneOnAccount /\ OneController /\ NoStaleTask
  /\ Balanced /\ ConnectOnItsWay /\ ClosedEmpty

\* protocolgame.cpp:268 "A task has already been scheduled just bail out
\* (should not be overriden)": one connect() at most waits for a player.
OneReplacement ==
  \A t1, t2 \in Pending : t1.op = "connect" /\ t2.op = "connect" /\ t1.arg = t2.arg
                          => t1 = t2

\* A player that nobody controls leaves the world or is taken over, unless
\* its connect() was overtaken (it then stays until a login succeeds).
Leaves ==
  \A o \in Players :
    (o \in InWorld /\ client[o] = None) ~>
      (o \notin InWorld \/ client[o] # None \/ o \in overtaken \/ ~Running)

\* The protocol of a connection that was asked to close is deleted.
Released ==
  \A p \in Protocols : (conn[p] = "requested") ~> (life[p] = "deleted" \/ ~Running)
=============================================================================
