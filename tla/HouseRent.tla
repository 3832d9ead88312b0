----------------------------- MODULE HouseRent -----------------------------
(***************************************************************************)
(* The rent of a house (house.cpp): who owns it, until when it is paid,    *)
(* how often its owner was warned, and what happens to his things when he  *)
(* loses it.                                                               *)
(*                                                                         *)
(* Every fact lives twice, in the process and in the database.  A player   *)
(* who is offline has no object: payHouse() and transferToDepot() each     *)
(* load a copy of him, and what is done to a copy is lost unless that copy *)
(* is saved.  The house is saved whenever its owner changes, and with the  *)
(* map; the process may crash and start again from the database.           *)
(*                                                                         *)
(* One house, a day per step of the clock, and rent that costs one coin.   *)
(* Left out: guild halls, houses that cost no rent, players who are exempt *)
(* from it, houseCleanOld (0 in config.lua), the price of the house, the   *)
(* access lists, and updateAuctions().                                     *)
(***************************************************************************)
EXTENDS Naturals, FiniteSets

CONSTANTS
  Players,     \* the players
  None,        \* guid 0, no owner
  Things,      \* what may be put into the house
  RentPeriod,  \* houseRentPeriod of config.lua
  MaxCoins,    \* bound: the coins a player keeps
  MaxDay,      \* bound: the days
  CanCrash,    \* the process may crash
  NeedPremium  \* houseNeedPremium of config.lua

ASSUME HouseRentAssumption ==
  /\ None \notin Players
  /\ RentPeriod \in {"daily", "weekly", "monthly", "yearly"}
  /\ MaxCoins \in Nat /\ MaxDay \in Nat \ {0}
  /\ CanCrash \in BOOLEAN /\ NeedPremium \in BOOLEAN

\* A state of the world: the house, the things in it and the players, each
\* with bank and depot, as the process has them and as the database has them.
\* A player who is offline is in the process as he is in the database.
VARIABLES
  today,    \* time(NULL), in days
  online,   \* the players with an object in the world
  lapsed,   \* the players whose premium time is over
  world,    \* what the process has
  saved,    \* what the database has
  since     \* the day the present owner became one (0: no owner)
vars == <<today, online, lapsed, world, saved, since>>

Days == 0 .. MaxDay + 365
Accounts == [bank : 0 .. MaxCoins, depot : 0 .. MaxCoins,
             things : SUBSET Things, letter : Days]  \* day of the last warning
Deeds == [owner : Players \union {None}, paidUntil : Days,
          warnings : 0 .. 14, lastWarning : Days]
Worlds == [house : Deeds, inHouse : SUBSET Things, player : [Players -> Accounts]]

TypeOK ==
  /\ today \in 1 .. MaxDay /\ since \in 0 .. MaxDay
  /\ online \subseteq Players /\ lapsed \subseteq Players
  /\ world \in Worlds /\ saved \in Worlds

NoDeed == [owner |-> None, paidUntil |-> 0, warnings |-> 0, lastWarning |-> 0]

Init ==
  /\ today = 1 /\ online = {} /\ lapsed = {} /\ since = 0
  /\ \E holds \in [Things -> Players] :
       world = [house |-> NoDeed, inHouse |-> {},
                player |-> [p \in Players |->
                  [bank |-> 0, depot |-> 0, letter |-> 0,
                   things |-> {t \in Things : holds[t] = p}]]]
  /\ saved = world

-----------------------------------------------------------------------------
(* Owners *)

\* Both copies of the state at once: what a handler works on.
Both == [now |-> world, db |-> saved]

WithAccount(v, p, a) == [v EXCEPT !.player[p] = a]
WithHouse(v, h) == [v EXCEPT !.house = h]
Emptied(v) == [v EXCEPT !.inHouse = {}]

\* IOLoginData::savePlayer and IOMapSerialize::saveHouse
SavePlayer(w, p) == [w EXCEPT !.db = WithAccount(w.db, p, w.now.player[p])]
SaveHouse(w) == [w EXCEPT !.db = WithHouse(w.db, w.now.house)]

\* Variant: the things of an owner who is offline stay.
ToDepotOnline(w) ==
  LET owner == w.now.house.owner
      richer == [w.now.player[owner] EXCEPT !.things = @ \union w.now.inHouse] IN
  IF owner \in online
    THEN [w EXCEPT !.now = Emptied(WithAccount(w.now, owner, richer))] ELSE w
\* House::transferToDepot: the things go to the depot of the owner; if he is
\* offline, to that of a copy of him, which is saved.
ToDepot(w) ==
  LET owner == w.now.house.owner
      richer == [w.now.player[owner] EXCEPT !.things = @ \union w.now.inHouse]
      moved == [w EXCEPT !.now = Emptied(WithAccount(w.now, owner, richer))] IN
  IF owner \in online THEN moved ELSE SavePlayer(moved, owner)

\* Variant: the new owner inherits the warnings.
DeedKeepsWarnings(h, p) ==
  [owner |-> p, paidUntil |-> IF h.owner = None THEN h.paidUntil ELSE 0,
   warnings |-> h.warnings, lastWarning |-> IF p = None THEN 0 ELSE today]
\* What House::setOwnerEx makes of the deed.
Deed(h, p) ==
  [owner |-> p,
   paidUntil |-> IF h.owner = None THEN h.paidUntil ELSE 0,
   warnings |-> IF h.owner = None THEN h.warnings ELSE 0,
   lastWarning |-> IF p = None THEN 0 ELSE today]

\* Variant: the house waits for the next save of the map.
SetOwnerExUnsaved(w, p) ==
  LET left == IF w.now.house.owner = None THEN w ELSE ToDepot(w) IN
  [left EXCEPT !.now = WithHouse(left.now, Deed(left.now.house, p))]
\* House::setOwnerEx, with transfer and another owner than before.
SetOwnerEx(w, p) ==
  LET left == IF w.now.house.owner = None THEN w ELSE ToDepot(w) IN
  SaveHouse([left EXCEPT !.now = WithHouse(left.now, Deed(left.now.house, p))])

-----------------------------------------------------------------------------
(* Rent *)

PeriodDays == IF RentPeriod = "daily" THEN 1 ELSE IF RentPeriod = "weekly" THEN 7
              ELSE IF RentPeriod = "monthly" THEN 30 ELSE 365
WarningsLimit == IF RentPeriod = "daily" THEN 1 ELSE IF RentPeriod = "weekly" THEN 3
                 ELSE IF RentPeriod = "monthly" THEN 7 ELSE 14

\* Houses::payRent: from the bank, or else from the depot of the town.
CanPay(a) == a.bank >= 1 \/ a.depot >= 1
Charged(a) == IF a.bank >= 1 THEN [a EXCEPT !.bank = @ - 1]
              ELSE [a EXCEPT !.depot = @ - 1]
Paid(h) == [h EXCEPT !.paidUntil = today + PeriodDays]

\* The rent is due: neither payRent nor payHouse returns early.
Due(h, time) == h.owner # None /\ h.paidUntil <= time

\* There are warnings left.
Warns(h) == h.warnings < WarningsLimit
\* A warning is sent, or the house taken, only a day after the last warning.
ADayLater(h) == today >= h.lastWarning + 1

\* What one visit of the rent collector does to the deed and to the owner.
Warned(h) == [h EXCEPT !.warnings = @ + 1, !.lastWarning = today]

\* The owner loses the house without being asked for rent.
LosesAtOnce(w) == NeedPremium /\ w.now.house.owner \in lapsed

\* End of Houses::payHouse: an offline owner's copy is deleted, and saved
\* only if a letter was added to it.
Forget(w, owner, copy, letter) ==
  IF owner \in online THEN w
  ELSE IF letter
    THEN SavePlayer([w EXCEPT !.now = WithAccount(w.now, owner, copy)], owner)
  ELSE [w EXCEPT !.now = WithAccount(w.now, owner, w.db.player[owner])]

\* payHouse finds the rent paid: from the object, or the copy, of the owner.
Pays(w) ==
  LET owner == w.now.house.owner
      copy == Charged(w.now.player[owner]) IN
  Forget([w EXCEPT !.now = WithHouse(WithAccount(w.now, owner, copy), Paid(w.now.house))],
         owner, copy, FALSE)

\* payHouse puts a letter into the depot of the owner.
Warn(w) ==
  LET owner == w.now.house.owner
      copy == [w.now.player[owner] EXCEPT !.letter = today] IN
  Forget([w EXCEPT !.now = WithHouse(WithAccount(w.now, owner, copy), Warned(w.now.house))],
         owner, copy, TRUE)

\* payHouse takes the house from the owner; his copy is not the one that
\* transferToDepot loaded.
Evict(w) ==
  LET owner == w.now.house.owner IN
  Forget(SetOwnerEx(w, None), owner, w.now.player[owner], FALSE)

\* Houses::payHouse
PayHouse(w) ==
  LET h == w.now.house IN
  IF ~Due(h, today) THEN w
  ELSE IF LosesAtOnce(w) THEN Evict(w)
  ELSE IF CanPay(w.now.player[h.owner]) THEN Pays(w)
  ELSE IF ~ADayLater(h) THEN w
  ELSE IF Warns(h) THEN Warn(w)
  ELSE Evict(w)

-----------------------------------------------------------------------------
(* Steps *)

Becomes(w) == world' = w.now /\ saved' = w.db

\* Who owns the house since today, if the owner changed.
Since == since' = IF world'.house.owner = world.house.owner THEN since
                  ELSE IF world'.house.owner = None THEN 0 ELSE today

Login(p) ==
  /\ p \notin online
  /\ online' = online \union {p}
  /\ UNCHANGED <<today, lapsed, world, saved, since>>

\* Logout, or kicked: the player is saved.
Logout(p) ==
  /\ p \in online
  /\ online' = online \ {p}
  /\ Becomes(SavePlayer(Both, p))
  /\ UNCHANGED <<today, lapsed, since>>

Coins(a) == a.bank + a.depot

\* A coin for the bank or the depot.
Earn(p) ==
  /\ p \in online /\ Coins(world.player[p]) < MaxCoins
  /\ \/ world' = [world EXCEPT !.player[p].bank = @ + 1]
     \/ world' = [world EXCEPT !.player[p].depot = @ + 1]
  /\ UNCHANGED <<today, online, lapsed, saved, since>>

\* Somebody brings a thing into the house, or carries one out.
Furnish(p, t) ==
  /\ p \in online /\ world.house.owner # None
  /\ \/ /\ t \in world.player[p].things
        /\ world' = [world EXCEPT !.player[p].things = @ \ {t},
                                  !.inHouse = @ \union {t}]
     \/ /\ t \in world.inHouse
        /\ world' = [world EXCEPT !.player[p].things = @ \union {t},
                                  !.inHouse = @ \ {t}]
  /\ UNCHANGED <<today, online, lapsed, saved, since>>

\* TalkAction::houseBuy
Buy(p) ==
  /\ p \in online /\ world.house.owner = None
  /\ NeedPremium => p \notin lapsed
  /\ Becomes(SetOwnerEx(Both, p))
  /\ Since
  /\ UNCHANGED <<today, online, lapsed>>

\* TalkAction::houseSell: rent that was never paid is asked for first.
StartSale(p) ==
  /\ p \in online /\ world.house.owner = p
  /\ Due(world.house, 0) /\ CanPay(world.player[p])
  /\ world' = [world EXCEPT !.house = Paid(@), !.player[p] = Charged(@)]
  /\ UNCHANGED <<today, online, lapsed, saved, since>>

\* HouseTransferItem::onTradeEvent: the trade is done.
Sell(p, q) ==
  /\ {p, q} \subseteq online /\ p # q /\ world.house.owner = p
  /\ ~Due(world.house, 0)
  /\ Becomes(SetOwnerEx(Both, q))
  /\ Since
  /\ UNCHANGED <<today, online, lapsed>>

\* Houses::payHouses, at the global save or for an administrator.
PayHouses ==
  /\ Becomes(PayHouse(Both))
  /\ Since
  /\ UNCHANGED <<today, online, lapsed>>

\* Game::saveGameState: the players, the houses, the map.
SaveGameState == saved' = world

Save ==
  /\ SaveGameState
  /\ UNCHANGED <<today, online, lapsed, world, since>>

\* setGameState(GAME_STATE_SHUTDOWN), once everybody is kicked, and the next
\* start of the server.
Shutdown ==
  /\ online = {}
  /\ world' = PayHouse(Both).now /\ saved' = world'
  /\ Since
  /\ UNCHANGED <<today, online, lapsed>>

Crash ==
  /\ CanCrash
  /\ world' = saved /\ online' = {}
  /\ UNCHANGED <<today, lapsed, saved, since>>

Lapse(p) ==
  /\ NeedPremium /\ p \notin lapsed
  /\ lapsed' = lapsed \union {p}
  /\ UNCHANGED <<today, online, world, saved, since>>

NextDay ==
  /\ today < MaxDay
  /\ today' = today + 1
  /\ UNCHANGED <<online, lapsed, world, saved, since>>

Next ==
  \/ \E p \in Players : Login(p) \/ Logout(p) \/ Earn(p) \/ Buy(p) \/ StartSale(p)
                        \/ Lapse(p)
  \/ \E p \in Players, t \in Things : Furnish(p, t)
  \/ \E p, q \in Players : Sell(p, q)
  \/ PayHouses \/ Save \/ Shutdown \/ Crash \/ NextDay

Spec == Init /\ [][Next]_vars

-----------------------------------------------------------------------------
(* Properties *)

\* The owner of the house changes in the database when it changes in the
\* process: a crash neither gives a house back nor takes one.
OwnerIsSaved == saved.house.owner = world.house.owner

\* The debts of an owner are not those of the next: a house that is free has
\* no warnings and no time that is paid for, also after a crash.
FreeIsClean == world.house.owner = None => world.house = NoDeed

\* Without a crash, a house that is free holds no furniture.
FreeIsEmpty == world.house.owner = None => world.inHouse = {}

\* Every warning that is counted against the owner is a letter that he has,
\* also when he was offline and only a copy of him got it.
WarningsAreLetters ==
  world.house.warnings > 0 =>
    world.player[world.house.owner].letter >= world.house.lastWarning

\* The owner loses the house although he may own one.
EvictsDebtor ==
  /\ world.house.owner # None /\ world'.house.owner = None
  /\ ~LosesAtOnce(Both)

\* Nobody loses a house for his debts before as many days have gone since he
\* got it as there are warnings, however often payHouses is called and
\* whatever is lost in a crash.
DebtorHasTime == [][EvictsDebtor => today >= since + WarningsLimit]_vars

\* Without a crash, every thing is in one place: with a player or in the
\* house, whoever owned it and wherever he was when he lost it.
Places(t) == {p \in Players : t \in world.player[p].things}
             \union (IF t \in world.inHouse THEN {None} ELSE {})
ThingsAreSomewhere == \A t \in Things : Cardinality(Places(t)) = 1

\* The owner is in the database what he is in the process, and the deed passes on clean;
\* warnings are letters that came, also when the process crashed in between; and if it
\* does not crash, what the household has is kept, whoever owns the house.
HouseSound ==
  /\ TypeOK /\ OwnerIsSaved /\ FreeIsClean /\ WarningsAreLetters
  /\ ~CanCrash => FreeIsEmpty /\ ThingsAreSomewhere

\* houseBuy: "remember to leave money at bank or depot of this town for
\* rent": time that is paid for was paid by the owner.
RentIsTaken ==
  [][\A p \in Players :
       /\ world.house.owner = p /\ world'.house.owner = p
       /\ world'.house.paidUntil > world.house.paidUntil
       => Coins(world'.player[p]) < Coins(world.player[p])]_vars
=============================================================================
