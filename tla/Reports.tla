------------------------------ MODULE Reports ------------------------------
(***************************************************************************)
(* Rule violation reports (game.cpp): a player reports, a gamemaster takes *)
(* the report, and the two talk until one of them, or anybody, ends it.    *)
(*                                                                         *)
(* The map of the reports points to both players.  Gamemasters who have    *)
(* opened the channel of the reports see a list of those that are open,    *)
(* which is kept by messages alone.  What is said is left out, and so are  *)
(* link losses: clients and their players come and go together.            *)
(***************************************************************************)
EXTENDS Naturals

CONSTANTS
  Players,
  Gamemasters,  \* those who may answer reports
  None          \* no gamemaster

ReportsAssumption == Gamemasters \subseteq Players /\ None \notin Players

VARIABLES
  online,      \* the players in the world
  reports,     \* the keys of ruleViolations: the players who reported
  gamemaster,  \* RuleViolation::gamemaster of each report
  open,        \* the reports with isOpen
  channel,     \* the users of the channel of the reports
  list         \* the reports that the client of each gamemaster lists
vars == <<online, reports, gamemaster, open, channel, list>>

TypeOK ==
  /\ online \subseteq Players /\ reports \subseteq Players /\ channel \subseteq Gamemasters
  /\ gamemaster \in [Players -> Gamemasters \union {None}]
  /\ open \subseteq reports
  /\ list \in [Gamemasters -> SUBSET Players]

Init ==
  /\ online = {} /\ reports = {} /\ open = {} /\ channel = {}
  /\ gamemaster = [p \in Players |-> None]
  /\ list = [g \in Gamemasters |-> {}]

-----------------------------------------------------------------------------
(* Reports *)

\* sendRemoveReport(p) to the users of the channel
Removed(users, ps) == [g \in Gamemasters |-> IF g \in users THEN list[g] \ ps ELSE list[g]]

\* ruleViolations.erase
Erased(ps) ==
  /\ reports' = reports \ ps /\ open' = open \ ps
  /\ gamemaster' = [p \in Players |-> IF p \in ps THEN None ELSE gamemaster[p]]

\* Those who are told that this report is cancelled or closed: if a gamemaster
\* has taken it, the others have been told before.
Told(p) == IF p \in reports \ open THEN {} ELSE channel

\* Game::playerReportRuleViolation: an earlier report of his is cancelled.
Report(p) ==
  /\ p \in online
  /\ reports' = reports \union {p} /\ open' = open \union {p}
  /\ gamemaster' = [gamemaster EXCEPT ![p] = None]
  /\ list' = [g \in Gamemasters |-> IF g \in channel THEN list[g] \union {p} ELSE list[g]]
  /\ UNCHANGED <<online, channel>>

\* Game::cancelRuleViolation
Cancel(p) ==
  /\ p \in online /\ p \in reports
  /\ list' = Removed(Told(p), {p})
  /\ Erased({p})
  /\ UNCHANGED <<online, channel>>

MayTake(p) == p \in open

Taken(g, p) == Removed(channel, {p})

AnsweredBy(g) == g

\* Game::playerProcessRuleViolation
Process(g, p) ==
  /\ g \in online /\ p \in online /\ MayTake(p)
  /\ open' = open \ {p}
  /\ gamemaster' = [gamemaster EXCEPT ![p] = AnsweredBy(g)]
  /\ list' = Taken(g, p)
  /\ UNCHANGED <<online, reports, channel>>

\* Game::playerCloseRuleViolation: whoever asks for it
Close(p) ==
  /\ online # {} /\ p \in online /\ p \in reports
  /\ list' = Removed(channel, {p})
  /\ Erased({p})
  /\ UNCHANGED <<online, channel>>

\* Game::playerOpenChannel and sendRuleViolationsChannel
OpenChannel(g) ==
  /\ g \in online /\ g \notin channel
  /\ channel' = channel \union {g}
  /\ list' = [list EXCEPT ![g] = open]
  /\ UNCHANGED <<online, reports, gamemaster, open>>

CloseChannel(g) ==
  /\ g \in channel
  /\ channel' = channel \ {g}
  /\ list' = [list EXCEPT ![g] = {}]
  /\ UNCHANGED <<online, reports, gamemaster, open>>

-----------------------------------------------------------------------------
(* Players *)

Login(p) ==
  /\ p \notin online
  /\ online' = online \union {p}
  /\ UNCHANGED <<reports, gamemaster, open, channel, list>>

\* Variant: what he has taken stays.
EndsOwn(p) == reports \intersect {p}
\* His own report, and those that he has taken.
EndsOf(p) == (reports \intersect {p}) \union {q \in reports : gamemaster[q] = p}

\* Player::onCreatureDisappear
Logout(p) ==
  LET told == IF EndsOf(p) \ {p} = {} THEN Told(p) ELSE channel IN
  /\ p \in online
  /\ Erased(EndsOf(p))
  /\ list' = [g \in Gamemasters |-> IF g = p THEN {} ELSE Removed(told, EndsOf(p))[g]]
  /\ channel' = channel \ {p}
  /\ online' = online \ {p}

Next ==
  \/ \E p \in Players : Report(p) \/ Cancel(p) \/ Close(p) \/ Login(p) \/ Logout(p)
  \/ \E g \in Gamemasters : OpenChannel(g) \/ CloseChannel(g) \/ \E p \in Players : Process(g, p)

Spec == Init /\ [][Next]_vars

-----------------------------------------------------------------------------
(* Properties *)

\* A report points to players who are there, its own and the one who took it.
PartiesOnline == \A p \in reports : p \in online /\ (gamemaster[p] # None => gamemaster[p] \in online)

\* A report that is not open has a gamemaster: it does not vanish from the lists
\* with nobody to answer it.
ClosedIsTaken == \A p \in reports \ open : gamemaster[p] # None

\* Whoever looks sees the open reports, all of them and no other.
ListsAgree == \A g \in channel : list[g] = open

\* A report that a gamemaster has taken is not taken by another.
TakenOnce ==
  \A p \in reports : gamemaster[p] # None => gamemaster'[p] \in {gamemaster[p], None}

\* Reports and lists agree.
ReportsSound == TypeOK /\ PartiesOnline /\ ClosedIsTaken /\ ListsAgree

=============================================================================
