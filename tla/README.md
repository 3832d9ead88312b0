# A verification of the game server's core

TLA+ modules about The Forgotten Server in `src/src` (C++), the server of the game whose content
is under `src/data`: what is modelled, what TLC checks on small instances, and what TLAPS proves
for every value of the constants.

The server is one process. A *service thread* runs `boost::asio` handlers for all connections; a
*scheduler thread* waits for the next timed event; a *dispatcher thread* runs everything that
touches the game world, one task at a time. Nearly all of the game is therefore sequential, and
the hard behaviour is of three kinds: where the threads meet (dispatcher, scheduler,
connections, ports, the database); where long sequences of legal commands move raw pointers and
references between objects (parties, trades, creatures, sessions, spawns); and where one fact is
kept in several places that must agree (weights, tiles and clients, houses and the database,
channels and windows).

## 1. Inventory

| Component | State it keeps | Operations | Interacts by | Hard about it | What makes it correct |
|---|---|---|---|---|---|
| **Dispatcher** `tasks.cpp` | `m_taskList`, `m_threadState`, a mutex, a condition variable | `addTask` (any thread), `dispatcherThread`, `stop`, `shutdown`, `flush` | tasks: closures posted by all threads; after each task it lets the pool send | lost wake-ups, ownership of tasks, order of urgent tasks, shutdown from inside a task | no lost wake-up, one owner per task, the order callers see, every accepted task served |
| **Scheduler** `scheduler.cpp` | priority queue of events, set of active ids, last id | `addEvent`, `stopEvent`, `schedulerThread`, `stop`, `shutdown` | hands due events to the dispatcher | a new first event while the thread sleeps, stop racing expiry, ids that wrap, late notifications | never oversleeps, ids and list agree, a stopped event never runs |
| **Connection, Protocol, OutputMessagePool** `connection.cpp` `protocol.cpp` `outputmessage.cpp` | connection state, socket, outstanding operations and timers, two reference counters, messages lent by the pool, two locks | read and write handlers, timeouts, `close`, `closeConnection`, `releaseConnection`, `releaseProtocol`, `send`, `sendAll` | two threads under a connection lock, tasks, scheduler events, shared pointers | three ways of freeing objects that must agree; late timer handlers; unsynchronised counters; two locks taken in both orders | counters count the messages lent, nothing is used after it is freed, closing completes, messages come back |
| **ServiceManager, ServicePort, start-up** `server.cpp` `otserv.cpp` | acceptors, `running`, the loader's notification | open, accept, close, reopen, stop; main's wait for the loader | three threads, an event per failed port | a notification before the wait; reopen while open | one open per port, every port accepts in the end |
| **ProtocolGame: sessions** `protocolgame.cpp` `game.cpp` | player ↔ client, the id of a scheduled `connect`, references | login, replacement, `connect`, logout, release, `setGameState` | scheduler, connection, world | a second later the player or the client is gone | one controller per player, references balance, nobody stays for ever |
| **ProtocolGame: what a client shows** `protocolgame.cpp` `tile.cpp` | creatures the client knows; the index of a thing on a tile | `checkCreatureAsKnown`, tile messages | indices and numbers that server and client must count alike | a thing that one of them does not see; more than ten things on a tile | the client shows what is there |
| **WaitingList** `waitlist.cpp` | queue with timeouts | `login`, `getSlot`, `cleanup` | login of `protocolgame.cpp` | slots that move between two requests | the order is kept, and who goes on asking comes in |
| **Party** `party.cpp` | leader, members, invited players, sharing; in each player his party and his invitations | invite, join, revoke, pass the lead, leave, share, logout; experience | raw pointers both ways, commands of `game.cpp`, logout in `player.cpp` | two-sided lists, an object that deletes itself, a cached permission to share | the two sides agree, no address of a deleted party is kept, sharing makes no experience |
| **Trade** `game.cpp` | per player: state, partner, item; the table of traded items and their references | request, accept, close, closing by item moves, house documents | two players' objects | accept in an unexpected state, partial failure of the exchange | symmetric partners, references balance, both or neither |
| **Items and moves** `game.cpp` `container.cpp` `player.cpp` | bags in bags, slots, weights cached twice | move, add, remove, transform, pay | queries that promise and changes that may still fail | exchanges, partial stacks, caches at every depth | things are neither made nor lost, caches are right, legal hands |
| **Decay** `game.cpp` | buckets of decaying items, references, two lists to release | `startDecay`, `checkDecay`, `cleanup` | items that are transformed or freed while in a bucket | an item charged in one piece for time in which it changed | lasts its time, one entry, references balance |
| **Creatures** `game.cpp` `creature.cpp` `monster.cpp` | lists and pointers from creatures to creatures | place, think, attack, summon, convince, die, remove, `cleanup` | raw pointers in all directions | removal from within the loop that visits | no pointer to a deleted creature, references balance |
| **Walking** `creature.cpp` `player.cpp` | ids of scheduled events, a path | `addEventWalk`, `stopEventWalk`, walk actions | scheduler, dispatcher | an event stopped after it was handed over | one chain of walk events, a path is ended or given up |
| **Houses** `house.cpp` `iomapserialize.cpp` | owner, paid until, warnings, things; each also in the database | buy, sell, leave, `payHouses`, eviction, save | copies of offline players, the save, crashes | what is done to a copy that is not saved; process and database apart after a crash | the owner is saved, debtors have their time, nothing is lost |
| **Database** `database.h` `databasemysql.cpp` | one session, its lock, transactions | queries, transactions, keep-alive, reconnect | two threads | a statement of one thread in the transaction of the other; a session lost half way | all or nothing, no lock or transaction left behind |
| **Chat** `chat.cpp` | users of channels, invitations; the client's windows | open, close, join by guild or party, private channels, logout | messages only | a channel that outlives its reason; a client that comes back | only who may be is in a channel, windows work |
| **Spawns** `spawn.cpp` | list of spawned monsters, an event | startup, `checkSpawn`, deaths | looks at monsters later | monsters that leave or change sides | one monster per spot, spots fill again |
| **Raids** `raids.cpp` | the running raid, its next event, references of its things | start, events, end | scheduler events, deaths | two places that may end a raid | one at a time, every raid ends |
| **Rule violations** `game.cpp` | reports, who took them | report, take, close, logout | messages to gamemasters | leaving in the middle | lists agree, no dead pointers |
| **The rest** | combat, spells, scripts, map tables, content, configuration, interface | | calls in the dispatcher thread | formulas and data, little state | not modelled, see section 8 |

`PROJECT.json` lists every component with its files, and every hazard with its line.

## 2. Modules

| Module | Models |
|---|---|
| `TaskQueue` | abstract specification: what the dispatcher promises, a two-class queue without threads |
| `Dispatcher` | `tasks.cpp`; implements `TaskQueue` |
| `Scheduler` | `scheduler.cpp` |
| `Connection` | `connection.cpp`, the life of `protocol.cpp` objects, `outputmessage.cpp` |
| `SendLocks` | the locks between `OutputMessagePool::sendAll`, `Connection::parsePacket` and the dispatcher's list |
| `Services` | `main()`, the loader, `ServiceManager` and `ServicePort` |
| `Sessions` | `ProtocolGame::login`, `connect`, `logout`, release; `Game::setGameState` |
| `WaitList` | `waitlist.cpp` |
| `KnownCreatures` | `checkCreatureAsKnown` and what a client has on its map |
| `TileStack` | a tile of `tile.cpp` and the messages that keep its picture in each client |
| `Party` | `party.cpp`, the party commands of `game.cpp`, the party's part of `player.cpp` |
| `PartyExperience` | who may share experience, and what a kill pays to whom |
| `Trade` | trades of `game.cpp`, of things and of houses |
| `Inventory` | moves, gifts, removals, transformations and payments between slots, bags and floor |
| `Decay` | `startDecay`, `checkDecay`, `cleanup` of `game.cpp` |
| `Creatures` | the life of creatures: `game.cpp`, `creature.cpp`, `monster.cpp` |
| `WalkEvents` | `eventWalk`, the path and the action after it |
| `HouseRent` | `house.cpp`: owners, rent, warnings, eviction, furniture; database and crashes |
| `Database` | the lock, the transactions and the reconnects of `database.h`, `databasemysql.cpp` |
| `Chat` | `chat.cpp` |
| `Spawn` | `spawn.cpp` |
| `Raids` | `raids.cpp` |
| `Reports` | rule violations of `game.cpp` |
| `MCNetwork`, `MCPlayers`, `MCCounted`, `MCTown`, `MCLogins`, `MCWorld` | instances of the modules above for TLC |
| `DispatcherProofs`, `SchedulerProofs`, `ConnectionProofs`, `PartyProofs`, `TradeProofs`, `SessionsProofs`, `TownProofs`, `WorldProofs` | the theorems |

Each definition is mapped to its lines of code in `PROJECT.json`. Definitions whose comment
begins with *Variant* are plausible mistakes: each property is violated when the definition
after the variant is replaced by it, so none of them holds for want of cases.

An MC module puts several components side by side. The variable `turn` is chosen at the start
and never changes, and every step is one of the component whose turn it is, which changes that
component's variables only. So each behaviour is one of a single component (or of one of its
instances, which share variables), and a property `turn = "x" => X!P` is `P` of that component.
An MC module extends one of its components rather than instantiating it, so that the invariant
of the run is the very definition a theorem is about; a second instance of it then has variables
of its own (the clones of `MCLogins`, the jobs of every kind of `MCWorld`). `PartyProofs`, `TownProofs`,
`WorldProofs`, `ConnectionProofs`, `SessionsProofs` and `TradeProofs` are made the same way: they extend the
component whose theorems come first, and declare the parameters of the others, which they
instantiate as a whole (`Ch` for `Chat`, `Sp` for `Spawn`, `Ra` for `Raids`, `Se` for `Services`,
`Lo` for `SendLocks`, `Ag` for `Decay`, `Wa` for `WaitList`, `Sees` for `KnownCreatures`,
`Te` for `Reports`, `We` for `WalkEvents`, `Lv` for `Creatures`,
`Px` for `PartyExperience`), so that their theorems too are about every value of their constants.
What one component needs of another is in the component itself, as a small environment (the
scheduler in `WalkEvents`, the dispatcher in `Scheduler`, the locks of three classes in
`SendLocks`). Where the players or monsters of the instance are interchangeable in every
component of the module, the MC module adds a symmetry set; the two modules with liveness have
none.

Where the code goes on after its state has become wrong (a pointer to something deleted, a
reference too few), the model has a history variable that says so and usually ends the behaviour
there; a property then states exactly in which cases it can happen.

### Dispatcher

State: `taskList`, `threadState`, the lock, the program counter and the two local `task`
variables (`cur` of the thread, `inner` of `flush`), each caller's local `signal`, which tasks
have expired, and the `fate` of each `Task` object. A critical section is one action because
nothing in it blocks; `notify_one()`, which `addTask()` calls after it has let go of the lock,
is another. The exception is `shutdown()`, which keeps the lock while `flush()` runs tasks, so
`lock` is a variable. A task's body is what it does to the dispatcher: post other tasks, call
`setGameState(GAME_STATE_SHUTDOWN)` (`Closers`: post `Game::shutdown`, then `stop()`), or call
`shutdown()` (`Shutters`). `wait()` may return by itself (`SpuriousWakeup`).

To the abstract queue the list is two sequences (`Urgent`, `Normal`: as many as there are urgent
tasks, and the rest), the tasks in `cur` and `inner` are the ones being served, `fate` gives the
stage of each task, and `threadState` with `lock` the gate. Program counters, notifications and
spurious wake-ups are not seen: their steps stutter.

### Scheduler

The list is a set ordered by `cycle`, events with the same time come out in any order, as from a
heap. Time is a counter that stops at `MaxTime`. The thread's `timed_wait` ends by
`notify_one()`, by its time, or spuriously. `addEvent()` is two actions, with the window between
the unlock and the notification in which the event may be taken, run and freed. `MaxId` stands
for 0xFFFFFFFF. The dispatcher is seen as a queue and a thread that runs and frees what it is
handed, and is itself one of the callers. `TakesInTime` is what the code does keep of its
comments: after a *timed* wait the event taken is due, and the dispatcher thread, which alone
frees events that ran, never reads the id of one that is gone. An untimed wait keeps less
(section 4); a list that is empty then ends the thread as `crashed`.

### Connection

The two threads' handlers are the actions. `place` says where each message of the pool is, and
the two counters are variables of their own, changed where the code changes them, so that their
agreement with `place` is a property. Both are unsynchronised: `ParseDuringRelease` is the step
in which both threads change them at once, and either change may be lost; `torn` remembers it.
Completed operations, expired timers and posted tasks are pending until their handler runs, so a
timer can expire, be cancelled too late, and still call. A use of the deleted socket makes
`socket` "dereferenced". Shared pointers are the predicate `Alive`.

### Party

A party is a record at an address, and an address may be used again, as the allocator would.
Players keep an address and a set of addresses. Lists are sets, so the member who inherits the
lead is any of them (the code takes the first): a larger set of behaviours. All commands run in
the dispatcher thread, so each is one action, which does what the whole call tree does: a logout
is `clearPartyInvitations()` with every `disband()` it causes, then `leave()`. Whether members
are near, active and of like level is a free choice each time `updateSharedExperience()` looks.

The code lets a player invite himself. When he then leaves, `leave()` drops the invitation from
the party only, and the address of the party stays in his list when the party is deleted; his
logout calls a method of it. `undefined` records that; as the effect is not defined, behaviours
end there. `selfInvited` names the players this can happen to, and the invariants are exact
about them: the lists of all others are right.

### SendLocks and Services

`SendLocks`: program counters of the dispatcher's and the service thread tell which of the three
locks each holds; a lock that is taken and given back without another wait is a condition of one
step. The connection is ordinary, or that of an account manager, whose packets are answered by
the service thread itself: only there, and under `flush()`, may the two threads wait for each
other, which `NoCircularWait` states.

`Services`: `main()` waits for the loader's notification; the loader opens ports and registers
services; failed ports are opened again by an event; `run()` returns when no port has an
operation outstanding. Failures and spurious wake-ups are bounded by `MaxFailures`,
`MaxSpurious`.

### Sessions, WaitList, KnownCreatures, TileStack, Reports

`Sessions`: connections, their `ProtocolGame` objects and `Player` objects, all counted as in
the code. The tasks that the dispatcher or the scheduler holds carry a bare pointer to a
protocol. `overtaken` names players whose `connect()` ran before the close it waits for, the one
way in which a player stays marked as connecting.

`WaitList`: an entry has its place, its type and the seconds it has left; a tick takes five.
Nothing happens between questions, as in the code. `premiumPlayerSkipWaitList` may be loaded
again.

`KnownCreatures`: the server's list in order of use and the client's table; `crowded` is the
case in which every creature of the list is in sight, which the code takes in its stride with a
comment about debug errors.

`TileStack`: a tile and the picture that each client has of it, by the messages' indices.
`stale` names clients that the code misleads and `freed` the items that it deletes while the
tile has them (section 4). A splash or a field replaces one, and a client is sent the whole tile
when more things may be there than it shows.

`Reports`: the map of reports, their gamemasters, and the list in each gamemaster's client.

### PartyExperience, Trade, Inventory

`PartyExperience`: positions are numbers, `Radius` the distance, levels follow from experience
by the code's formula. `enabled` is the cached answer; every handler that refreshes it does so
in its action.

`Trade`: an item knows who carries it and which bag it is in, its references and how often it
waits to be freed. Houses are sold by a transfer document, whose removal ends the trade or moves
the owner. A player may accept before he has offered: `early` remembers him, and a behaviour in
which the missing item is used ends as `undefined`. `Game::internalCloseTrade` as called by
logouts, deaths and the removal of an offered thing are actions.

`Inventory`: a world is a record (contents of bags and floor, slots, the caches of weight) and
an operation an operator that returns a new world and a result, as the code's functions do, so
that a property may ask of every reachable state what a move *would* do. `Capacity`, `Room`,
`Stack` and `Slots` are small; three things are enough for an exchange with a stack on its way.
The three turns differ in what there is: bags and a sword, coins, or two-handed weapons and
shields. `AskOn` is recursive, so the module has no theorems.

### Decay, Creatures, WalkEvents

`Decay`: the buckets are visited in turn, `Interval` ticks apart; item and lists are one record.
What the properties need of the past (`spent`, `stops`, `again`, `early`) is in it too. Durations
are whole seconds, as `decayTime` gives them; `(dur + 500) / 1000` finds the bucket for these.

`Creatures`: a removal goes through every list that holds a creature, so the state is one record
and each function of the code an operator. Who is near whom is chosen freely, and changes by
moves that tell the monsters, as `onCreatureMove` does.

`WalkEvents`: the event that `eventWalk` names is in the scheduler, in the dispatcher's list, or
running; an event that it no longer names is *stray*. `late` is the case in which `stopEvent()`
came after the scheduler had handed the event over; `OneChain` says that it is the only one,
with a step that starts a walk, that makes two chains.

### HouseRent and Database

`HouseRent`: `world` is what the process has, `saved` what the database has. Each handler writes
the parts that the code writes, and an offline player is a copy that is saved or forgotten.
`Crash` makes `world` what `saved` is. `since` is the day on which the owner became one.

`Database`: a statement goes in and comes out in two steps, so that two threads may be inside
the client library at once; which of them holds the lock is what `DBQuery` does. The server may
fail a statement, drop the session with what was not committed, and be away.

### Chat, Spawn, Raids

`Chat`: users of a channel on one side, windows of a client on the other; `Slots` are the
private channels there may be. Two instances: one with a guild and a party, one in which clients
are lost and channels reloaded.

`Spawn`: the list of spawned monsters by spot, the pointer from a monster to its spawn, and
references, which must agree when a monster is lured away, convinced, killed or removed.

`Raids`: a raid has a number of events to hand out and of things that refer to it; types `none`,
`single` and `block` as in `raids.xml`.

## 3. Runs

| Run | Instance | Shows |
|---|---|---|
| `dispatcher` | 7 tasks (2 urgent, 1 with expiration, 2 that close, 2 that shut down), 2 callers; 251 584 states | `DispatcherSound` (types, no lost wake-up), `OneOwner`, `Served`, and the refinement `ImplementsQueue` |
| `scheduler` | 2 events, 2 callers, delays 0–2, clock to 3, ids to 3; 449 094 states | `SchedulerSound` (no oversleeping, ids agree with the list, one owner), `TakesInTime`, `StopHolds`, `Handled` |
| `network` | a connection with 2 messages; locks with 3 messages, at shutdown, in service, and for an account manager; 2 ports with 3 failures and 1 spurious wake-up; 36 944 states | `LifetimesSound`, `WritesSound`, `CloseCompletes`, `MessagesReturn`, `LocksSound`, `PortsSound` |
| `players` | 3 players, 2 addresses of parties; a party that shares; bags, money and weapons in three slots, two bags and on the floor; a ring, 4 buckets of 2 ticks, three durations; 859 409 states | `PartySound`, `PartyNeeded`, `SharesItsWorth`, `BelongingsSound`, `PaysWhatIsAsked`, `DecaySound` |
| `counted` | 3 players who trade a bag, a bag sewn into it and a coin, or a house with two documents; a player and two monsters; 513 737 states | `TradeSound`, `TradesBothWays`, `CreaturesSound` |
| `town` | two players and a house: rent weekly, 5 days, with crashes, and rent daily, with furniture and premium time; chat with two players, two private channels, guild and party, and with lost clients and reloads; 943 974 states | `HouseSound`, `DebtorHasTime`, `HouseholdSound`, `ChannelsSound` |
| `logins` | 3 connections and 3 player objects of an account with two characters; the same of a character with clones; 4 clients for 2 places; 4 players of whom 2 gamemasters; 4 creatures for a table of 2; tiles with more things than a client shows; 318 971 states | `SessionsSound`, `ClonesSound` (`SessionsSound` of the clones), `WaitsInTurn`, `ReportsAgree`, `ClientShows` (of creatures and of tiles) |
| `world` | a raid of each type with 3 events and 3 things; 2 spots and 3 monsters; a path of 2 and 5 commands; 2 connections of one character; 3 clients for one place; 2 saves of players with 2 writes of the network thread, 2 errors and a lost session; 2 jobs of every kind with an error and a lost session; 113 971 states | `RaidsSound`, `RaidsEnd`, `SpawnSound`, `Refills`, `WalksOn`, `ComesAndGoes`, `DatabaseSound` (of the saves), `JobsEnd` (with `DatabaseSound` of all jobs) |
| `dispatcher_shutdown` | 3 tasks, 1 caller | **violated**: `ShutdownCompletes` |
| `house_rent_taken` | 2 players, one house | **violated**: `RentIsTaken` |
| `sessions_replace` | 3 connections, one character | **violated**: `OneReplacement` |
| `database_commit` | one save, one lost session | **violated**: `CommitSaves` |

Why the bounds are enough to be interesting. *Dispatcher*: one task of each kind, and two where
two of a kind interact (two urgent ones to see last in first out, two that close to see the
second refused). *Scheduler*: two events are a first one and one that comes before it. Their ids
do not wrap; three events with ids that wrap at 2 were run for the safety properties (1.46
million states), with the same result, and the theorems hold of every limit. *Connection*: one
message is written while another is filled; three make no difference in kind and were run as
well (47 761 states). *SendLocks*: three messages let each thread have one while a third is on
its way. *Services*: the login services share a port, the game has its own; three failures are
an open that fails twice and an accept. *Party*: three players are a leader, a member and an
outsider; two addresses allow a player to be in one party and invited to another and an address
to be reused. Four players were run as well (258 000 states), with the same result.
*PartyExperience*: a kill is worth enough to rise a level, a loss enough to fall. *Trade*: a bag
with a bag sewn in is the smallest thing whose depth the code counts; two documents for a house
are the fewest that disagree. *Inventory*: a stack of two and a bag with room for two are full
at once, so that every move meets a full one. *Decay*: durations below a round, of a round and
of more than three, which an item that is taken off needs in order to lose a check besides a round
(the proof asked for it; durations up to a round and a half had not shown it). *Creatures*: a master, a summon and an attacker; two monsters may be friends and
targets of each other. *HouseRent*: a weekly rent has three warnings, for which five days are
enough; rent that was paid falls due again where it is daily; and the safety of the deed is
proved for any number of days. *Sessions*: three connections are an old one, one that replaces
it and one that comes between. *WaitList*: two places and four clients give a list of two with
somebody behind. *KnownCreatures*: a table for two is crowded by three. *TileStack*: a client
that shows four things, and five. *Raids*: three events have one between the first and the last.
Deadlock is not checked, because each system may really stop: threads exit, the connection is
destroyed, bounded clocks and failures are used up, and a behaviour ends with its undefined
step.

## 4. Findings

Violated statements of the code's own texts, each with a run:

- `dispatcher_shutdown`: the comments `//save & shutdown` and `//shutdown` (`otserv.cpp:294`)
  promise that signals end the process; `shutdown()` calls `flush()` with the mutex held, and a
  flushed task that posts another locks it again, in the same thread, for ever
  (`tasks.cpp:142`).
- `house_rent_taken`: "remember to leave money at bank or depot of this town for rent"
  (`talkaction.cpp:472`); the rent of a tenant who is offline is taken from a copy of him that
  is not saved (`house.cpp:918`), and his house stays paid for.
- `sessions_replace`: "A task has already been scheduled just bail out"
  (`protocolgame.cpp:268`); the id it looks at is the new connection's own, always 0, so a
  second `connect()` is scheduled (`:266`).
- `database_commit`: a session lost within a transaction is replaced, the failed statement
  repeated, and the commit of what is left of the transaction reported as a success
  (`databasemysql.cpp:128`, against `database.h:114`).

Other places where the code and a text disagree, or two parts of the code do; the properties
state them exactly where they matter to a model:

- *Scheduler*: "ok we had a timeout" and "so there has to be an event" (`scheduler.cpp:57`): an
  event that is added to an empty list is taken before its time, since `ret` is false then too;
  and when an event is served before its caller's `notify_one()`, the thread takes the top of an
  empty list. "this list should already be empty" (`:161`) is false when a shutdown comes while
  events are not due.
- *Connection*: changes of the two counters that are lost (`torn`); the limit for slow
  connections, which is never reached (`OneWrite`).
- *Services*: `stop()` does nothing unless `running`, which is set once `run()` has returned
  (`server.cpp:219`, `:230`): a shutdown does not stop the io_service, though `otserv.cpp:295`
  says `//shutdown`.
- *Sessions*: a login that was queued before `Game::shutdown` is served after everybody was
  thrown out (`game.cpp:193` "kick all players that are still online"), because `login()`
  refuses a server that is closing or closed, not one that shuts down (`protocolgame.cpp:176`).
- *Party*: a player may invite himself (`selfInvited`).
- *PartyExperience*: the bonus is `EXTRA_PARTY_PERCENT / 100`, 0 below 100 (`party.cpp:331`;
  `src/config.lua:252` sets 20); the level difference is the constant 16 (`:357`;
  `src/src/config.lua:287` describes another); who never fought shares all the same, because
  both branches return before the test (`:362`; `src/config.lua:253`).
- *Trade*: the number of houses a player may have (`src/config.lua:139`) is looked at when a
  house is offered, not when the trade is accepted (`house.cpp:434`).
- *Inventory*: a new item that goes wholly onto a stack notifies nobody, so the weight that the
  player's capacity is compared with is too small until the next change (`game.cpp:1646`);
  `doPlayerAddItem` hands the slot over as its `canDropOnMap` (`luascript.cpp:4212`, against
  `:4149`); without a trade an empty slot is never found, since its item and the trade item are
  both NULL (`player.cpp:2747`).
- *Houses*: warnings are not taken back by paying (`house.cpp:941`), so a tenant may lose his
  house without a letter that `house.cpp:969` promises.
- *Database*: `saveHouses()` begins and commits its transaction outside any `DBQuery`
  (`iomapserialize.cpp:192`), though `database.h:247` has a thread lock the database by one.
  Trace: the network thread is inside a statement, the dispatcher calls `begin()` on the same
  handle; or the network's statement comes between `begin()` and a rollback, and is undone with
  it. `OneAtATime` therefore speaks of the case in which only players are saved, and
  `AccountStays` of every one in which houses are not.
- *Chat*: `Party::leave()` forgets the party before it asks for its channel to be closed
  (`party.cpp:100`), so who left stays among the users and hears the party; `disband()` has the
  order that works.
- *TileStack*: `Tile::__replaceThing` replaces the item before `onUpdateTileItem` asks for the
  old one's index (`tile.cpp:393`, `player.h:506`), so nothing is sent of a transformation to
  another type (`game.cpp:2095`); without ground it counts from another number than
  `__getIndexOfThing` and may free an item that stays; `moveCreature` takes indices by a counter
  that skips who cannot see (`tile.cpp:500`); a creature that turns invisible on an overfull
  tile leaves a gap. `stale` and `freed` are these cases, and `ViewsAgree` holds of everybody
  else.

## 5. Fairness

Every fairness condition is weak unless said otherwise, and of a single action of the code, in
the behaviours of its own component (`WF_vars(turn = "x" /\ X!A)`).

`Dispatcher`: the dispatcher thread and each caller's `notify_one()`, as a running thread takes
its next step; none for time, for bodies that post, or for the callers' wish to post. A body
that never returns is excluded for the same reason. `Scheduler`: the thread, returns from
`addEvent()`, the clock, the dispatcher that runs and frees what it is handed. `Connection`: the
two threads serve their queues; an operation on a *closed* socket completes, one on an open
socket need not (the peer may be silent); the write timer of the code is what bounds it. Strong
fairness is used for `DropOld`: a message that is put back again and again at every `sendAll()`
is older than ten seconds at last, so its being dropped is enabled over and over, not
continuously. `SendLocks`: the two threads run; strong fairness of their waits for a mutex,
which a platform gives in the end, and of the end of a write. `Services`: the threads of main
and loader, and the events that open a port again. `Raids`: the scheduler's events, and that
monsters die some day, without which a raid of type `block` rightly never ends. `Spawn`: events,
the passing of time, the cleanup; none for players, who may watch a spot for ever, and none for
deaths. `WalkEvents`: dispatcher and scheduler. `Sessions`: dispatcher, scheduler, and the check
for idle players, who are without a client; no client need do anything. `WaitList`: time passes,
players leave, and a *patient* client asks again in time; no other. `Database`: a statement ends
in one way or another; strong fairness of its start, since the lock it needs is given up again
and again by the other thread. The remaining components have no liveness: nothing makes a player
act.

## 6. Proofs

All theorems are about the specifications of the component modules, for any constants that
satisfy the module's assumption; every leaf is checked.

| Module | Theorems | Argument |
|---|---|---|
| `DispatcherProofs` | `DispatcherCorrect`, from `TypeCorrect`, `WakeupKept`; `OwnersCorrect`; `Implementation` | *No lost wake-up*: each step of the thread and of a caller; the list can only become non-empty by an `addTask()` that then owes a notification, and `wait()` is only entered with an empty list. *One owner*: `IInv` says what the list holds (`ListHolds`), that its urgent tasks are the first ones (`FrontFirst`, as a number, so that a push at either end and a pop keep it), what the two local variables hold (`LocalsHold`), and that the lock is only kept from `shutdown()` to the end of its `flush()` (`LockHeld`); `OneOwner` alone does not say that `flush()` is the only second one to serve. *Refinement*: from `IInv`, one lemma for each action that the queue sees, and one that the rest stutter. |
| `SchedulerProofs` | `SchedulerCorrect`, from `TypeCorrect`, `IdsCorrect`, `OwnersCorrect`, `SleepBounded`; `StoppedStays`; `TakenInTime` | `IInv` adds to `TypeOK`, `IdsAgree` and `Owned` that a caller that owes a notification is still inside `addEvent()`. Ids wrap, so their distinctness needs the guard under which the model lets them wrap (below). `StopHolds` and `NoOversleep` follow from `IInv`. `TakesInTime` needs two invariants more: `Deadline`, that a timed wait outlasts no event of the list, so that a thread that has timed out finds one that is due; and `StillAdding`, that the dispatcher thread neither stops nor frees events while it adds one. |
| `ConnectionProofs` | `LifetimesCorrect`, `WritesCorrect`, from one theorem for each conjunct | First `Shape` (which values of state, socket, writing and the releases occur together), proved inductive by itself; then, from it, `Kept`: the counters are the number of messages lent until `torn`, so an object with counter zero has no message that refers to it. Lemmas say how `Cardinality(Lent)` changes when a message is lent, returned, or both at once. |
| `ConnectionProofs`, on `Services` | `PortsCorrect`, `EndsCorrect` | `OpenedOnce` needs that nothing has happened at a port that is neither registered nor just opened (`Untouched`), so that the loader, which opens before it registers, finds no event there; and `Registered`, what the loader is done with. `EndsIdle` holds if main() is only woken by the loader (`Told`), since then every port is registered when it looks. |
| `PartyProofs` | `PartyCorrect`, `PartiesNeeded`, from one theorem for each conjunct | `Consistent` is stated of any parties, pointers and lists, not only of the variables, because `leave()` at a logout starts from the state that `clearPartyInvitations()` has just produced. `DeclineKeeps` shows that intermediate state consistent, `LeaveKeeps` goes on from any consistent one, `DropKeeps` joins them. The strengthening over the properties is `Exact`: lists hold nothing but live invitations, and nobody is invited to his own party, except for players that invited themselves; without the second half, a leader's departure could leave an entry behind. |
| `PartyProofs`, on `Decay` | `DecayCorrect`, from `AllAgeInit` and `AllAgeStep` | `Ages` adds to `DecaySound`, of each item, how the time that it was worn and the time that it has left go together wherever it is: without an entry (`Rests`), with one that is not in a bucket yet (`Waits`), with one in a bucket (`Stands`, by the time until that bucket is visited, `Wait`). Their sum stays between `Least` and `Most`; an item that is taken off while it has an entry keeps a margin of a round and two checks, which is what it may still be charged. `Wait` goes on by the clock (`WaitBounds`), from check to check (`WaitNext`), and is what was meant when an item is given a bucket (`WaitFirst`, `WaitNew`). The loops of `checkDecay()` over the entries of a bucket, and the sum of the entries, are recursive functions: `LoopExists` and `LoopStays` say that a loop is defined, and stays where each of its steps stays; both rest on `Induction`, which follows from the pigeonhole principle of the library, for sets in place of operators. |
| `PartyProofs`, on `SendLocks` | `LocksCorrect`, from `LocksInit` and `LocksNext` | `Locked` adds to `LocksHold` that what a thread took is queued until it has stored it, that only an account manager's thread of the network takes messages, that sendAll's place is one of the list, and that without an account manager no buffer appears while a task takes one (`Places`). `BufferQueued` is kept by what is removed being another message than the buffer, or put back; what sendAll takes over is a filter of a queue, a recursive function, about which `WithoutMembers` says which messages it has (by `LoopExists` and `LoopStays`, which is why it stands here). |
| `PartyProofs`, on `WaitList` | `ListCorrect`, `ListIsFair`, from `WaitInit`, `WaitStep`, `RoomLeft` | `InLine` is `ListSound` with the seconds as multiples of five and finitely many online; it is inductive as it stands. What is hard is what the operators do to a list. `cleanup()` is a recursive function, and `CleanupClaims` says of it which entries it keeps and that it keeps their order (`Claimed`); removal and insertion are described by the places of the entries (`RemovedAt`, `InsertedAt`). A list that has entries of another in their order (`Follows`) is in line if the other is (`FollowsLine`) and keeps two clients in order (`FollowsOrder`). `PlaceShape` says that the place of a new entry has only premium entries before it, if it is premium, and none after it otherwise. `RoomLeft` maps those who wait before a client into the places before his. |
| `TownProofs` | `HouseCorrect`, from `Invariance` and `HouseholdInvariance`; `DebtorsHaveTime` | `IInv` is `TypeOK`, `OwnerIsSaved`, and `Fair` of the process's *and* of the database's deed: an owner was warned at most once for each day since he got the house, and a free house is clean. A crash makes one the other, so both must have it, and it is `OwnerIsSaved` that makes the database's deed one of the same owner. `PayHouseType`, `BothType` and `CollectStep` carry it through `payHouse()`, by its four outcomes. `DebtorHasTime` follows from `Fair` in the state before the eviction. `HInv`, inductive together with `IInv`, is about the household: an offline player is in both copies the same, and no letter is newer in the database than in the process (`Settled`); warnings came as letters, in both copies (`Lettered`); and without a crash every thing is in the house or with exactly one player (`Kept`). `WarningsAreLetters` alone is not inductive: the copy that `payHouse()` loads must have the letters that the process has seen, and a crash makes the database's letters the process's. `Treats` is what a handler may do to a household (things stay and the house has an owner, all things go to him who leaves, or nothing happens); `SetOwnerExTreats` and `PayHouseTreats` show it of a sale and of the rent collector, `TreatedStep` that it keeps `HInv`. |
| `TownProofs`, on `Chat` | `ChatCorrect`, `GuildIsPrivate`, `EveryWindowWorks`, from `ChatInit` and `ChatNext` | `Rooms` adds to the properties that a private channel that is gone has no owner (`Owners`: or the next owner of its id would find himself the second), that users are invited in *every* private channel, also in one that the undefined loop of a logout has missed (`Guests`), and that whoever has a window is in the channel (`Screens`, without lost clients and reloads). `WindowsWork` alone is not inductive: that `getChannel()` still finds the channel follows from `Guests` and `GuildHears`. Handlers are of three sorts, each with a lemma: those that leave channels alone (`ChannelsStay`), those that delete a channel or take players out (`ChannelsShrink`), those that let players in (`ChannelsGrow`). |
| `TradeProofs` | `TradeCorrect`, `TradePasses` | `IInv` adds to `TradeSound` that what lies in a bag is where the bag is (`Contained`), without which an exchange would not be seen to carry the content along, and that whoever has accepted without an offer did so too early (`AcceptsOwn`). The references of a thing are changed by an exchange, a failure and a closing in different orders; `Balanced` is carried through each by lemmas on one closing, on both sides' closing and on a move. `TradePasses` looks at the one step that moves things between players, from `Mutual` and `OfferedOnce`. |
| `TradeProofs`, on `Creatures` | `CreaturesCounted`, from `TidyInit`, `TidyNext`, `FullSound` and `LeaksOnly` | `Tidy` is `Full` and that nothing is left that `unRef()` deletes. `Full` adds to the properties that a creature that is not there holds nothing (`Bare`), that lists of summons and masters are the same relation (`Mastered`), that only those in the game are near each other, are in a vector to be looked at, and wait for no release (`Present`), that players and whoever has no health left are looked at (`Alert`), and that whoever attacks or follows someone is near him (`Aims`): the last is why the spectators that a removal tells are all that point to who is removed. What holds within a removal is `Fair`, all of it but that a master is in the game (`Owned`), which the removal's loop over the summons restores; that each turn of it takes one out of the game bounds it (`Gaming`), as the number of those that exist bounds the loop of deletions (`Existing`). Two parts are only there for `LeaksOnlyTheDying`: a monster that was removed alive lists nobody, since its removal put it to sleep (`Hollow`), and masters are no ring (`Rooted`): of any monsters one has a master that is none of them. What is removed, not deleted and not reached has a reference, so another such keeps it, by a list of summons if no monster was removed without health; those monsters would have their masters among themselves. `HeldClosed` shows that `Held`, which goes as many rounds as there are creatures, has found everything: a round that finds nobody is the last, and one that finds somebody makes a larger set. Most operations change no life, master or place, and keep the counts (`Still`), or give references back as well (`Eased`); those that cut bonds (`Cuts`) and those that create (`Unborn`) are apart. Loops over spectators, summons, removals and releases are recursive functions, and stay where each of their turns stays (`Induction`, `LoopExists`, `LoopStays`). |
| `SessionsProofs` | `SessionsCorrect`, from `Invariance` | `IInv` adds to `SessionsSound` the order of the tasks that wait in queue and scheduler (`Orderly`: of each call but a logout at most one for each protocol, in queue and scheduler together, and no login or logout behind the close of its protocol), at which stage the protocol of a waiting task is (`AllFit`), and that protocols and players that do not exist hold nothing (`Lives`, `Clean`). A release, which deletes the protocol, finds no other task of it because of both: `AllFit` gives the others another stage, and `Orderly` says that there is no second release; that is what makes `NoStaleTask` inductive. The references of a player include one for each protocol that holds him; `OneMoreHolder` and `OneHolderLess` say how that cardinality changes. Lemmas on `Orderly` alone cover a task posted, taken, handed over by the scheduler, and the closing of every connection at once. |
| `SessionsProofs`, on `KnownCreatures` | `ClientKnowsAlways`, from `KnowsStep` | `ClientKnows` is inductive as it stands: that nothing on the client's map is given up needs the belief to be true, and the belief stays true because the creature that the loop ends with is the one the list loses. `TurnsStop` says where the loop stops, `MovesToEnd` and `LosesTheFront` what becomes of a list whose member is used and of one that was turned round, both from `Part` and `Joined`, on pieces of lists in which nobody is twice. |
| `SessionsProofs`, on `Reports` | `ReportsCorrect`, `ReportsTakenOnce` | `Agreed` adds to `ReportsSound` that whoever uses the channel is online, and that neither a player without a report nor an open report has a gamemaster. A cancel, a close and a logout erase reports and tell a set of users: `ErasedKeeps` covers the three, if those who are told are all who could list one of them. |
| `SessionsProofs`, on `PartyExperience` | `SharingCorrect`, from `SharesInit` and `SharesNext` | `SharingSound` is inductive with finitely many members. Every step that may change what the flag depends on either looks again (`UpdateKeeps`), changes it for nobody of the party, or loses a level, which `downgraded` records. The two loops over levels are recursive functions on all numbers: `LevelUpEnds` shows that the first is defined at all, because the points that a level takes have no bound (`LevelsCost`, from the polynomial's difference, `NextLevel`), and where it stops; `LevelDownEnds` the same of the second. |
| `WorldProofs` | `DatabaseCorrect`, from `Invariance` | `IInv` says who may be in the library and by which lock (`NetLocks`, `JobLocks`), that a transaction is open on a live session only, for the job that began it, with rows of that job and, if the job locks as a whole, without the account (`Transaction`), and until a session is lost that both rows of a player are in it to the same point (`Together`). `AccountStays` is not inductive without `Transaction`: a rollback would take back a write that was reported. `Shape` lists what statement a job can have come to; `Served` says what the server does with any of them. |
| `WorldProofs`, on `Spawn` | `SpawnCorrect`, from `SpawnInit` and `SpawnNext` | `Herd` says whom a monster is known to: its references are as many as the list of the spawn and the game hold of it, what waits for its release was removed, and a living monster points to the spawn exactly while it is listed (`Known`); no two are listed for one spot (`Apart`), and none is listed before the start. `SpawnMonstersKeeps` shows that what `spawnMonster` makes of any list that is being purged is such a list, for any spots and choice of monsters; a step that is about one monster leaves the others as they are (`OneChanges`). |
| `WorldProofs`, on `Raids` | `RaidsCorrect`, `RaidsWait` | `RaidsSound` is inductive as it stands: the two places that end a raid hand over to each other because the raid that runs is the only one with an event (`OneAtATime`), and because a raid's references are its things (`RefsAreThings`), whose number the lemmas `LeftMore` and `LeftFewer` follow. |
| `WorldProofs`, on `WalkEvents` | `WalkCorrect`, from `KeepsInit` and `KeepsNext` | `Keeps` adds to `WalkSound` that the list has an event of the player's own exactly if `own` says so, once (`Line`), and a count: what is left behind, every task in the list that may leave an event behind, and a death, which does so when it is denied, have each cost a command. That count is why an event left behind stays within `MaxCommands`. The player's functions are described by one lemma each (`StopEventWalkShape`, `OnWalkShape`), the list by what becomes of it when a task is added, taken or orphaned (`LineAppend`, `LineTail`, `LineRest`); `Executed` and `Happened` join the two for any handler. |

Only model-checked: all liveness properties, because fairness and ENABLED are outside the
prover's reach; and the safety properties of the modules without a proof module. Of these,
`Inventory` uses a recursive operator, whose module the prover cannot work with, and
`TileStack` has none yet. `PaysOutItsWorth` of `PartyExperience` stays with TLC: it adds up a
function by a fold, which is a recursion over sets. `HouseholdSound` is
`HouseSound` of the second house, whose server does not crash; `HouseCorrect` covers both.

The assumptions of the theorems are those of the component modules (`ASSUME`s on the constants,
and `ChatAssumption`, `SpawnAssumption`, `RaidsAssumption`, `WalkEventsAssumption`,
`ServicesAssumption`, `SendLocksAssumption`, `WaitListAssumption`, `KnownAssumption`,
`ReportsAssumption`, `PartyExperienceAssumption`, `DecayAssumption` and `CreaturesAssumption`, which the MC modules
assume of their instances; TLC evaluates all of them in the runs): that sets that the code
keeps apart are disjoint, that bounds are numbers, that the connections and players of
`Sessions` are finitely many. Each inductive invariant was checked by TLC on the instances of
the runs before it was proved; those of `Database` for players, for players and keep-alive, and
for every job, `Rooms` with and without lost clients, reloads and a party.

## 7. Assumptions of the models

- A critical section is atomic: every access to the state it protects is under the same lock.
  The exceptions are modelled where they matter (`threadState` read without the lock, the
  notifications, the reference counters, the database's handle).
- A task of the dispatcher is one action; only its tasks touch the game world.
- Allocation succeeds, and threads are created.
- `Scheduler`: an id is only issued again when no pending event has it. In the code this takes
  four thousand million events during the life of one; a small `MaxId` would bring it within
  reach.
- `Connection`: one write is one operation; `async_write()` continuing a partial write on its
  own after the socket was closed is the library's affair and left out. Posted handlers of the
  service thread run in the order in which they were posted.
- `Party`: a lookup by id finds exactly the players that are logged in.
- `TileStack` and `KnownCreatures`: the client does what the protocol says; it is external.
- `Creatures`: who was removed is near nobody, so a list that still holds him lets him go at its
  next update; the code keeps him there while his last position is in sight
  (`monster.cpp:261`).
- `WalkEvents`: delays are left out, and so are the refusal of a player who may not move
  (`creature.cpp:307`, `game.cpp:1051`, `game.cpp:2139`) and the gamemaster who is teleported
  instead of walking (`game.cpp:2386`).
- `HouseRent`: a saved transaction is saved; what may go wrong with it is `Database`'s.
- Configuration is that of `src/src/config.lua` where a module's comment does not say otherwise.

What each bound stands for: `MaxTime`, `MaxDay`, `MaxCommands`, `MaxJobs`, `MaxWrites`,
`MaxErrors`, `MaxLosses`, `MaxFailures`, `MaxSpurious`, `MaxStops`, `MaxEntries`, `MaxUses`,
`MaxExp`, `MaxThings`, `MaxAsked` bound how much happens in a behaviour or how much a model
asks; `Limit`, `Room`, `Stack`, `Capacity`, `Buckets`, `MaxId`, `RefWrap`, `SlowLimit`,
`MaxPlayers` are numbers of the code or the configuration made small.

## 8. Not modelled

- *Combat, conditions, spells, weapons*: formulas over tables. Their lists have hazards of the
  kind modelled elsewhere (a condition whose end removes the creature that is looking through
  its conditions, `creature.cpp:1460`, `condition.cpp:1569`; bonuses in percent that are taken
  back as another number than was added, `movement.cpp:1043`, `outfit.cpp:768`), and are the
  first candidates for an extension.
- *Scripting* (`luascript.cpp` and the event modules): bindings of an interpreter; what a script
  may do to the core is an action of the component it acts on, where that is modelled.
- *Content* under `src/data`, maps, and the graphical interface.
- *Packets*: composing and parsing, most of `protocolgame.cpp`, is data without state of its
  own. Encryption and checksums are pure functions.
- *Map*: sectors, path finding, teleports, mailboxes and trash holders.
- *Beds, guild tables, container windows, shops, mail, NPCs, skills, quests*: state that is read
  and written in one place.
- *ConnectionManager's* limit on attempts per address, and bans.

The map of definitions to code covers about an eighth of the implementation's lines. What is
left are, by size, script bindings, packets, tables and formulas; their state machines are those
of the components above.

## 9. What could follow

1. Proofs about what is only model-checked, first of all what a client shows of a tile (`TileStack`).
2. A module of the condition list with callbacks that remove the creature, and one of beds.
