----------------------------- MODULE Inventory -----------------------------
(***************************************************************************)
(* What a player carries: his equipment slots, the bags inside them and    *)
(* the floor he stands on, and the code that carries a thing from one of   *)
(* these "cylinders" to another: Game::internalMoveItem, internalAddItem,  *)
(* internalRemoveItem, transformItem, removeMoney and addMoney of          *)
(* game.cpp, with the queries and the changes of Player, Container and     *)
(* Tile that they call.                                                    *)
(*                                                                         *)
(* A thing is a record of its kind and its count.  Only bags need an       *)
(* identity, so every bag is a kind of its own; any other reference of the *)
(* code to an item is the place it lies at.  Weights are kept twice by the *)
(* program: a bag caches the weight of its contents (totalWeight), the     *)
(* player that of all he wears (inventoryWeight).                          *)
(*                                                                         *)
(* The floor takes every thing; scripts of moveevents.xml, trash holders,  *)
(* mailboxes, stairs and map limits are left out.                          *)
(***************************************************************************)
EXTENDS Integers, SequencesExt

CONSTANTS
    Bags,           \* the bags, each with an identity
    Weapons,        \* kinds of one-handed weapons
    TwoHanded,      \* kinds of weapons that need both hands
    Shields,        \* kinds of shields
    Coins,          \* kinds of stackable things, all of them money
    Worth,          \* what one coin of a kind is worth
    Weight,         \* the weight of one thing of a kind, an empty bag's too
    Decays,         \* the kind a kind is transformed into (itself: never)
    Slots,          \* the equipment slots in use
    Stack,          \* the size of a full stack (100 in the program)
    Room,           \* the number of things a bag holds
    Capacity,       \* the weight the player can carry
    MaxThings,      \* bound: things in the world
    MaxAsked        \* bound: the money that is asked for

\* The numbers of the slots (slots_t of creature.h).
Backpack == 3
Right == 5
Left == 6
Ammo == 10

Kinds == Bags \cup Weapons \cup TwoHanded \cup Shields \cup Coins
Me == "player"
Floor == "floor"
Cylinders == Bags \cup {Floor}

InventoryAssumption ==
    /\ Slots \subseteq {Backpack, Right, Left, Ammo}
    /\ {Stack, Room} \subseteq Nat \ {0}
    /\ {Capacity, MaxThings, MaxAsked} \subseteq Nat
    /\ Worth \in [Coins -> Nat \ {0}] /\ Weight \in [Kinds -> Nat]
    /\ Decays \in [Kinds -> Kinds]
    /\ \A k \in Bags \cup Coins : Decays[k] = k

VARIABLES
    contents,       \* the things in each bag and on the floor, front first
    inventory,      \* the thing in each slot, or NoThing
    weight,         \* totalWeight of each bag
    carried,        \* inventoryWeight of the player
    trading         \* has the player offered a thing lying on the floor?

vars == <<contents, inventory, weight, carried, trading>>

Thing(k, n) == [kind |-> k, count |-> n]
NoThing == [kind |-> "none", count |-> 0]
Stackable(t) == t.kind \in Coins

TypeOK ==
    /\ contents \in [Cylinders -> Seq([kind : Kinds, count : 1 .. Stack])]
    /\ inventory \in [Slots -> [kind : Kinds, count : 1 .. Stack] \cup {NoThing}]
    /\ weight \in [Bags -> Int]
    /\ carried \in Int
    /\ trading \in BOOLEAN

----------------------------------------------------------------------------
(* Places.  The operators take the state as a record, for a single call of *)
(* the program changes it several times and looks at it in between.        *)

World == [contents |-> contents, inventory |-> inventory,
          weight |-> weight, carried |-> carried]

Become(w) ==
    /\ contents' = w.contents /\ inventory' = w.inventory
    /\ weight' = w.weight /\ carried' = w.carried

Place(c, i) == [in |-> c, at |-> i]
\* Where a thing is that has just been made.
NoPlace == Place("none", 0)

Everywhere(w) ==
    {Place(Me, s) : s \in {s \in Slots : w.inventory[s] # NoThing}}
    \cup UNION {{Place(c, i) : i \in 1 .. Len(w.contents[c])} : c \in Cylinders}

At(w, p) == IF p.in = Me THEN w.inventory[p.at] ELSE w.contents[p.in][p.at]

InSlot(w, s) == IF s \in Slots THEN w.inventory[s] ELSE NoThing

\* The cylinder the bag b lies in: its parent.
Parent(w, b) ==
    IF \E s \in Slots : w.inventory[s].kind = b THEN Me
    ELSE LET around == {c \in Cylinders : \E i \in DOMAIN w.contents[c] :
                                              w.contents[c][i].kind = b}
         IN IF around = {} THEN "none" ELSE CHOOSE c \in around : TRUE

\* The bags around the cylinder c, from the inside to the outside.
Around(w, c) ==
    LET out[n \in 0 .. Cardinality(Bags), b \in Cylinders \cup {Me, "none"}] ==
            IF n = 0 \/ b \notin Bags THEN {}
            ELSE LET up == Parent(w, b)
                 IN (Bags \cap {up}) \cup out[n - 1, up]
    IN out[Cardinality(Bags), c]

\* Does the player hold what is in the cylinder c?  (getTopParent() == this)
Holds(w, c) ==
    c = Me \/ (c \in Bags /\ \E b \in {c} \cup Around(w, c) : Parent(w, b) = Me)

WeightOf(w, t) ==
    Weight[t.kind] * t.count + (IF t.kind \in Bags THEN w.weight[t.kind] ELSE 0)

\* What the player wears weighs now.
WornWeight(w) ==
    FoldSet(LAMBDA s, sum : sum + (IF w.inventory[s] = NoThing THEN 0
                                   ELSE WeightOf(w, w.inventory[s])), 0, Slots)

\* A cylinder tells the player around it that a thing came or went: he adds
\* up his weight again.
Notify(w, c) == IF Holds(w, c) THEN [w EXCEPT !.carried = WornWeight(w)] ELSE w

\* The bags whose totalWeight counts what lies in the cylinder c.
Weighing(w, c) == (Bags \cap {c}) \cup Around(w, c)

Weigh(w, c, diff) ==
    [w EXCEPT !.weight = [b \in Bags |->
        IF b \in Weighing(w, c) THEN w.weight[b] + diff ELSE w.weight[b]]]

----------------------------------------------------------------------------
(* Changes of a cylinder: __addThing(), __updateThing(), __removeThing().   *)

\* A thing is put into a slot; a player takes nothing without a slot.
PlayerAddThing(w, i, t) == IF i \in Slots THEN [w EXCEPT !.inventory[i] = t] ELSE w

\* A thing is put in front of all others in a bag, or on top of the floor.
BagAddThing(w, b, t) ==
    Weigh([w EXCEPT !.contents[b] = <<t>> \o @], b, WeightOf(w, t))
FloorAddThing(w, t) == [w EXCEPT !.contents[Floor] = <<t>> \o @]

AddThing(w, c, i, t) ==
    CASE c = Me -> PlayerAddThing(w, i, t)
      [] c \in Bags -> BagAddThing(w, c, t)
      [] c = Floor -> FloorAddThing(w, t)

\* The thing at p becomes t (another kind or another count).
PlayerUpdateThing(w, p, t) == [w EXCEPT !.inventory[p.at] = t]
BagUpdateThing(w, p, t) ==
    Weigh([w EXCEPT !.contents[p.in][p.at] = t], p.in, WeightOf(w, t) - WeightOf(w, At(w, p)))
FloorUpdateThing(w, p, t) == [w EXCEPT !.contents[Floor][p.at] = t]

UpdateThing(w, p, t) ==
    CASE p.in = Me -> PlayerUpdateThing(w, p, t)
      [] p.in \in Bags -> BagUpdateThing(w, p, t)
      [] p.in = Floor -> FloorUpdateThing(w, p, t)

\* Is it all of the thing that goes, when n of it are removed?
IsAll(t, n) == ~Stackable(t) \/ n = t.count

\* n of the thing at p are taken away.
Fewer(t, n) == Thing(t.kind, t.count - n)
PlayerRemoveThing(w, p, n) ==
    IF IsAll(At(w, p), n) THEN [w EXCEPT !.inventory[p.at] = NoThing]
    ELSE PlayerUpdateThing(w, p, Fewer(At(w, p), n))
BagRemoveThing(w, p, n) ==
    IF IsAll(At(w, p), n)
    THEN Weigh([w EXCEPT !.contents[p.in] = RemoveAt(@, p.at)], p.in, - WeightOf(w, At(w, p)))
    ELSE BagUpdateThing(w, p, Fewer(At(w, p), n))
FloorRemoveThing(w, p, n) ==
    IF IsAll(At(w, p), n) THEN [w EXCEPT !.contents[Floor] = RemoveAt(@, p.at)]
    ELSE FloorUpdateThing(w, p, Fewer(At(w, p), n))

RemoveThing(w, p, n) ==
    CASE p.in = Me -> PlayerRemoveThing(w, p, n)
      [] p.in \in Bags -> BagRemoveThing(w, p, n)
      [] p.in = Floor -> FloorRemoveThing(w, p, n)

\* May n of the thing be removed?  (__queryRemove())
QueryRemove(t, n) == n > 0 /\ (Stackable(t) => n <= t.count)

----------------------------------------------------------------------------
(* Queries.                                                                *)

Wherever == -1
Up == 254
AnyPlace == 255

\* Can the player carry n of the thing t that is at p?
HasCapacity(w, t, p, n) ==
    \/ Holds(w, p.in)
    \/ (IF Stackable(t) THEN Weight[t.kind] * n ELSE WeightOf(w, t))
            < Capacity - w.carried

\* May the thing at p be held in the hand s, given what the other one holds?
HandTakes(w, t, p, n, s) ==
    LET o == Right + Left - s
        other == InSlot(w, o)
        same == p = Place(Me, o)
    IN \/ other = NoThing
       \/ /\ t.kind \in TwoHanded
          /\ same
       \/ /\ t.kind \notin TwoHanded
          /\ other.kind \notin TwoHanded
          /\ \/ same /\ n = t.count
             \/ ~ {t.kind, other.kind} \subseteq Shields
                /\ ~ {t.kind, other.kind} \subseteq Weapons

\* May the thing be worn in the slot i?
Fits(w, t, p, n, i) ==
    CASE i = Backpack -> t.kind \in Bags
      [] i \in {Right, Left} -> HandTakes(w, t, p, n, i)
      [] i = Ammo -> TRUE
      [] OTHER -> FALSE

PlayerQueryAdd(w, i, t, p, n) ==
    LET there == InSlot(w, i)
    IN IF ~ (i \in Slots /\ Fits(w, t, p, n, i)) THEN "refused"
       ELSE IF there # NoThing /\ ~ (Stackable(there) /\ there.kind = t.kind)
       THEN "exchange"
       ELSE IF HasCapacity(w, t, p, n) THEN "ok" ELSE "refused"

BagQueryAdd(w, b, i, t, p, n) ==
    IF \/ t.kind \in {b} \cup Around(w, b)
       \/ i = Wherever /\ Len(w.contents[b]) >= Room
       \/ Holds(w, b) /\ ~HasCapacity(w, t, p, n)
    THEN "refused" ELSE "ok"

QueryAdd(w, c, i, t, p, n) ==
    CASE c = Me -> PlayerQueryAdd(w, i, t, p, n)
      [] c \in Bags -> BagQueryAdd(w, c, i, t, p, n)
      [] c = Floor -> "ok"

\* Variant: a slot takes a full stack whatever lies there.
PlayerMaxCountOfEmpty(w, i, t) == IF Stackable(t) THEN Stack ELSE 1

\* The most of the thing t that fits at the index i of the cylinder c
\* (__queryMaxCount()).
PlayerMaxCount(w, i, t) ==
    LET there == InSlot(w, i)
    IN IF there = NoThing THEN (IF Stackable(t) THEN Stack ELSE 1)
       ELSE IF Stackable(there) /\ there.kind = t.kind THEN Stack - there.count
       ELSE 0

BagMaxCount(w, b, i, t) ==
    LET free == Max({Room - Len(w.contents[b]), 0})
        there == IF i \in 0 .. Len(w.contents[b]) - 1 THEN w.contents[b][i + 1] ELSE NoThing
    IN IF ~Stackable(t) THEN free
       ELSE free * Stack + (IF there.kind = t.kind THEN Stack - there.count ELSE 0)

FloorMaxCount(n) == Max({1, n})

MaxCount(w, c, i, t, n) ==
    CASE c = Me -> PlayerMaxCount(w, i, t)
      [] c \in Bags -> BagMaxCount(w, c, i, t)
      [] c = Floor -> FloorMaxCount(n)

\* Is that enough for n of them?  An empty slot says yes without counting.
Enough(w, c, i, t, n) ==
    \/ c = Floor
    \/ c = Me /\ InSlot(w, i) = NoThing
    \/ IF c \in Bags /\ ~Stackable(t) THEN MaxCount(w, c, i, t, n) > 0
       ELSE MaxCount(w, c, i, t, n) >= n

----------------------------------------------------------------------------
(* Where a thing goes: the cylinder, the index in it and the place of the  *)
(* thing that is already there (__queryDestination).                       *)

Goal(c, i, p) == [cyl |-> c, index |-> i, on |-> p]

\* The places of the stacks of the bag b that the thing can be added to.
OpenStacks(w, b, t) ==
    {i \in 1 .. Len(w.contents[b]) : /\ w.contents[b][i].kind = t.kind
                                     /\ w.contents[b][i].count < Stack}

BagDestination(w, b, i, t, p) ==
    LET j == IF i \in {Up, AnyPlace} \/ i >= Room THEN Wherever ELSE i
        there == IF j \in 0 .. Len(w.contents[b]) - 1 THEN w.contents[b][j + 1] ELSE NoThing
        parent == Parent(w, b)
    IN IF i = Up THEN Goal(IF parent \in Bags THEN parent ELSE b, Wherever, NoPlace)
       ELSE IF Stackable(t) /\ p.in # b /\ OpenStacks(w, b, t) # {}
       THEN LET k == Min(OpenStacks(w, b, t)) IN Goal(b, k - 1, Place(b, k))
       ELSE IF there = NoThing THEN Goal(b, j, NoPlace)
       ELSE IF there.kind \in Bags THEN Goal(there.kind, Wherever, NoPlace)
       ELSE Goal(b, j, Place(b, j + 1))

\* The bag b takes the whole thing when the player looks for a place.
BagTakes(w, b, t, p) ==
    LET g == BagDestination(w, b, Wherever, t, p)
    IN BagQueryAdd(w, b, g.index, t, p, t.count) = "ok"

\* The slot s ends the player's search.  Unless he trades, an empty slot is
\* taken for his (missing) trade item and passed over.
SlotTakes(w, s, t, p, trades) ==
    LET there == w.inventory[s]
    IN IF there = NoThing THEN trades /\ PlayerQueryAdd(w, s, t, p, t.count) = "ok"
       ELSE \/ /\ Stackable(t) /\ p # Place(Me, s)
               /\ there.kind = t.kind /\ there.count < Stack
            \/ there.kind \in Bags /\ BagTakes(w, there.kind, t, p)

\* The slot s, or the bag in it, is the place that was found.
Found(w, s, there, t, p) ==
    IF there.kind \in Bags THEN BagDestination(w, there.kind, Wherever, t, p)
    ELSE Goal(Me, s, IF there = NoThing THEN NoPlace ELSE Place(Me, s))

FirstOf(w, slots, t, p) == Found(w, Min(slots), w.inventory[Min(slots)], t, p)

\* The bags inside the ones that are worn that take the thing.
DeeperBags(w, t, p) ==
    {b \in Bags : Holds(w, b) /\ Parent(w, b) # Me /\ BagTakes(w, b, t, p)}

\* The player finds a place for the thing: in the first slot or worn bag
\* that takes it, else in a bag inside one of those.
Search(w, i, t, p, trades) ==
    IF \E s \in Slots : SlotTakes(w, s, t, p, trades)
    THEN FirstOf(w, {s \in Slots : SlotTakes(w, s, t, p, trades)}, t, p)
    ELSE IF DeeperBags(w, t, p) # {}
    THEN BagDestination(w, CHOOSE b \in DeeperBags(w, t, p) : TRUE, Wherever, t, p)
    ELSE Goal(Me, i, NoPlace)

PlayerDestination(w, i, t, p, trades) ==
    LET there == InSlot(w, i)
    IN IF i \in {0, Wherever} THEN Search(w, i, t, p, trades)
       ELSE IF there.kind \in Bags THEN Goal(there.kind, Wherever, NoPlace)
       ELSE Goal(Me, i, IF there = NoThing THEN NoPlace ELSE Place(Me, i))

FloorDestination(w, i) ==
    Goal(Floor, i, IF w.contents[Floor] = <<>> THEN NoPlace ELSE Place(Floor, 1))

Destination(w, c, i, t, p, trades) ==
    CASE c = Me -> PlayerDestination(w, i, t, p, trades)
      [] c \in Bags -> BagDestination(w, c, i, t, p)
      [] c = Floor -> FloorDestination(w, i)

\* The cylinder c answered g; a bag it names is asked too, and answers for itself.
AskOn(w, c, g, t, p) ==
    IF g.cyl \in Bags \ {c} THEN BagDestination(w, g.cyl, g.index, t, p) ELSE g

\* internalMoveItem() asks until the cylinder answers for itself.
FinalDestination(w, c, i, t, p, trades) ==
    AskOn(w, c, Destination(w, c, i, t, p, trades), t, p)

----------------------------------------------------------------------------
(* Game's operations.  Each gives the state after it and whether it was    *)
(* refused.                                                                *)

Done(w) == [world |-> w, ok |-> TRUE]
Refused(w) == [world |-> w, ok |-> FALSE]

\* m of the thing t, which is at p or new (and then p is NoPlace), go to g:
\* first onto the stack that is there, the rest in front of it.  What comes
\* from p leaves p first, and the stack may move up by that.
Put(w, g, t, p, m) ==
    LET left == IF p = NoPlace THEN w ELSE RemoveThing(w, p, m)
        on == IF p # NoPlace /\ p.in = g.on.in /\ p.at < g.on.at /\ p.in # Me /\ IsAll(t, m)
              THEN Place(g.on.in, g.on.at - 1) ELSE g.on
        merges == g.on # NoPlace /\ Stackable(t) /\ At(w, g.on).kind = t.kind
        onto == IF merges THEN Min({Stack - At(w, g.on).count, m}) ELSE 0
        merged == IF merges THEN UpdateThing(left, on, Thing(t.kind, At(left, on).count + onto))
                  ELSE left
        rest == Thing(t.kind, IF Stackable(t) THEN m - onto ELSE 1)
    IN [world |-> IF rest.count > 0 THEN AddThing(merged, g.cyl, g.index, rest) ELSE merged,
        silent |-> rest.count = 0]

\* How many of the thing are moved when n are asked for.
Moved(w, g, t, n) ==
    IF Stackable(t) THEN Min({n, MaxCount(w, g.cyl, g.index, t, n)}) ELSE 1

\* The thing in the slot changes places with the thing t at p, that is: it
\* is put where t is, and t stays there for the moment.
CanExchange(w, s, p) ==
    LET there == w.inventory[s]
        i == IF p.in = Me THEN p.at ELSE p.at - 1
    IN /\ QueryAdd(w, p.in, i, there, Place(Me, s), there.count) = "ok"
       /\ MaxCount(w, p.in, Wherever, there, there.count) > 0

Exchanged(w, s, p) ==
    LET there == w.inventory[s]
    IN Notify(AddThing(RemoveThing(w, Place(Me, s), there.count), p.in, 0, there), Me)

\* n of the thing t at p go to g, as far as they fit.
Transfer(w, p, g, t, n) ==
    IF \/ QueryAdd(w, g.cyl, g.index, t, p, n) # "ok"
       \/ MaxCount(w, g.cyl, g.index, t, n) = 0
       \/ ~QueryRemove(t, Moved(w, g, t, n))
    THEN Refused(w)
    ELSE Done(Notify(Notify(Put(w, g, t, p, Moved(w, g, t, n)).world, p.in), g.cyl))

\* What lies at g may have to change places with the thing first; where that came
\* from, it now lies one further back.
MoveTo(w, p, g, t, n) ==
    IF g.on = p THEN Done(w)
    ELSE IF QueryAdd(w, g.cyl, g.index, t, p, n) = "exchange" /\ CanExchange(w, g.index, p)
    THEN Transfer(Exchanged(w, g.index, p), IF p.in = Me THEN p ELSE Place(p.in, p.at + 1),
                  [g EXCEPT !.on = NoPlace], t, n)
    ELSE Transfer(w, p, g, t, n)

\* internalMoveItem(): n of the thing at p go to the index i of the cylinder c.
MoveItem(w, p, c, i, n, trades) ==
    MoveTo(w, p, FinalDestination(w, c, i, At(w, p), p, trades), At(w, p), n)

\* A new thing goes to g.  When all of it goes onto a stack, nobody is notified.
AddTo(w, g, t) ==
    LET put == Put(w, g, t, NoPlace, Moved(w, g, t, t.count))
    IN IF QueryAdd(w, g.cyl, g.index, t, NoPlace, t.count) # "ok"
          \/ ~Enough(w, g.cyl, g.index, t, t.count)
       THEN Refused(w)
       ELSE Done(IF put.silent THEN put.world ELSE Notify(put.world, g.cyl))

\* internalAddItem(): a new thing goes into the cylinder c.
InternalAddItem(w, c, t, trades) ==
    AddTo(w, Destination(w, c, Wherever, t, NoPlace, trades), t)

OrDrop(r, w, t, drop) == IF ~r.ok /\ drop THEN AddTo(w, FloorDestination(w, Wherever), t) ELSE r

\* internalPlayerAddItem() and addMoney(): to the player, else to the floor.
AddOrDrop(w, t, drop, trades) ==
    OrDrop(InternalAddItem(w, Me, t, trades), w, t, drop)

\* doPlayerAddItem() of the scripts.  It hands the number of the slot on as the
\* flag that allows the floor; the slot itself and canDropOnMap are not used.
PlayerAddItem(w, t, canDropOnMap, slot, trades) == AddOrDrop(w, t, slot # 0, trades)

\* internalRemoveItem()
InternalRemoveItem(w, p, n) == Notify(RemoveThing(w, p, n), p.in)

\* transformItem(): the thing at p becomes one of another kind or count.
TransformItem(w, p, t) ==
    IF t.count = 0 THEN InternalRemoveItem(w, p, At(w, p).count)
    ELSE Notify(UpdateThing(Notify(w, p.in), p, t), p.in)

----------------------------------------------------------------------------
(* Money.                                                                  *)

WorthOf(t) == IF Stackable(t) THEN Worth[t.kind] * t.count ELSE 0

\* The places of the player's money.
Money(w) == {p \in Everywhere(w) : Stackable(At(w, p)) /\ Holds(w, p.in)}

GetMoney(w) == FoldSet(LAMBDA p, sum : sum + WorthOf(At(w, p)), 0, Money(w))

\* The stacks in which money is given out: as many as possible of the best
\* coin, in full stacks and a last one, then of the next.
RECURSIVE Change(_, _)
Change(money, kinds) ==
    IF kinds = {} THEN <<>>
    ELSE LET k == CHOOSE k \in kinds : \A o \in kinds : Worth[k] >= Worth[o]
             n == money \div Worth[k]
             stacks == (n + Stack - 1) \div Stack
         IN [j \in 1 .. stacks |-> Thing(k, Min({Stack, n - (j - 1) * Stack}))]
            \o Change(money % Worth[k], kinds \ {k})

AddMoney(w, money, trades) ==
    FoldLeft(LAMBDA v, t : AddOrDrop(v, t, TRUE, trades).world, w, Change(money, Coins))

\* Variant: the change is what was asked for.
RECURSIVE PayWrongChange(_, _, _)
PayWrongChange(w, money, trades) ==
    LET p == CHOOSE p \in Money(w) : \A q \in Money(w) : WorthOf(At(w, p)) <= WorthOf(At(w, q))
        worth == WorthOf(At(w, p))
        less == InternalRemoveItem(w, p, At(w, p).count)
    IN IF money = 0 THEN w
       ELSE IF worth > money THEN AddMoney(less, money, trades)
       ELSE PayWrongChange(less, money - worth, trades)

\* removeMoney(): whole stacks go, the ones of least worth first; what the
\* last one is worth too much is given back.
RECURSIVE Pay(_, _, _)
Pay(w, money, trades) ==
    LET p == CHOOSE p \in Money(w) : \A q \in Money(w) : WorthOf(At(w, p)) <= WorthOf(At(w, q))
        worth == WorthOf(At(w, p))
        less == InternalRemoveItem(w, p, At(w, p).count)
    IN IF money = 0 THEN w
       ELSE IF worth > money THEN AddMoney(less, worth - money, trades)
       ELSE Pay(less, money - worth, trades)

RemoveMoney(w, money, trades) ==
    IF GetMoney(w) < money THEN Refused(w) ELSE Done(Pay(w, money, trades))

----------------------------------------------------------------------------
(* What the players and the scripts do.                                    *)

Init ==
    /\ contents = [c \in Cylinders |-> <<>>]
    /\ inventory = [s \in Slots |-> NoThing]
    /\ weight = [b \in Bags |-> 0]
    /\ carried = 0
    /\ trading = FALSE

InWorld(b) == Parent(World, b) # "none"

\* A player drags n of a thing to a slot, to a place in a bag, or to the floor.
Move(p, c, i, n) ==
    /\ p \in Everywhere(World)
    /\ c \in Bags => InWorld(c)
    /\ Become(MoveItem(World, p, c, i, n, trading).world)
    /\ UNCHANGED trading

\* A script gives the player a thing.
Give(t, canDropOnMap, slot) ==
    /\ Cardinality(Everywhere(World)) < MaxThings
    /\ t.kind \in Bags => ~InWorld(t.kind)
    /\ Become(PlayerAddItem(World, t, canDropOnMap, slot, trading).world)
    /\ UNCHANGED trading

\* A script takes n of a thing (of bags only the empty ones, a bound).
TakeItem(p, n) ==
    /\ p \in Everywhere(World)
    /\ n \in 1 .. At(World, p).count
    /\ At(World, p).kind \in Bags => contents[At(World, p).kind] = <<>>
    /\ Become(InternalRemoveItem(World, p, n))
    /\ UNCHANGED trading

\* A thing is used up by one, or it decays.
Transform(p) ==
    /\ p \in Everywhere(World)
    /\ LET t == At(World, p)
       IN /\ Stackable(t) \/ Decays[t.kind] # t.kind
          /\ Become(TransformItem(World, p,
                IF Stackable(t) THEN Thing(t.kind, t.count - 1) ELSE Thing(Decays[t.kind], 1)))
    /\ UNCHANGED trading

\* The player pays for something.
PayFor(money) ==
    /\ Become(RemoveMoney(World, money, trading).world)
    /\ UNCHANGED trading

\* The player offers a thing lying on the floor for a trade, or the trade ends.
Trade ==
    /\ trading' = ~trading
    /\ UNCHANGED <<contents, inventory, weight, carried>>

Indices(c) == IF c = Me THEN Slots \cup {0}
              ELSE IF c \in Bags THEN (0 .. Room - 1) \cup {Up, AnyPlace} ELSE {0}

Gifts == [kind : Coins, count : 1 .. Stack] \cup [kind : Kinds \ Coins, count : {1}]

Counts(t) == IF Stackable(t) THEN 0 .. Stack ELSE {1}

Next ==
    \/ \E p \in Everywhere(World), c \in Cylinders \cup {Me} :
          \E i \in Indices(c), n \in Counts(At(World, p)) : Move(p, c, i, n)
    \/ \E t \in Gifts, canDropOnMap \in BOOLEAN, slot \in {0, Right} :
          Give(t, canDropOnMap, slot)
    \/ \E p \in Everywhere(World), n \in 1 .. Stack : TakeItem(p, n)
    \/ \E p \in Everywhere(World) : Transform(p)
    \/ \E money \in 1 .. MaxAsked : PayFor(money)
    \/ Trade

Spec == Init /\ [][Next]_vars

----------------------------------------------------------------------------
(* Properties.                                                             *)

\* Bags lie inside one another as a tree: each is at one place at most, and
\* none is inside itself, whatever is dragged into what.
BagsAreNested ==
    \A b \in Bags : /\ Cardinality({p \in Everywhere(World) : At(World, p).kind = b}) <= 1
                    /\ b \notin Around(World, b)

\* What a bag believes to weigh is what its contents weigh, through every
\* change at any depth.
BagsWeighTheirContents ==
    \A b \in Bags : weight[b] =
        FoldSeq(LAMBDA t, sum : sum + WeightOf(World, t), 0, contents[b])

\* No bag is ever overfilled, by an exchange or by what is left of a stack.
BagsHoldTheirRoom == \A b \in Bags : Len(contents[b]) <= Room

\* Whatever is dragged, given, taken or transformed, the bags are a tree, hold what
\* fits and know what it weighs.
BagsSound == TypeOK /\ BagsAreNested /\ BagsWeighTheirContents /\ BagsHoldTheirRoom

\* A weapon for two hands leaves the other hand empty, and the hands never
\* hold two weapons or two shields, however the things came there.
HandsAreLegal ==
    {Right, Left} \subseteq Slots =>
        LET r == inventory[Right]
            l == inventory[Left]
        IN r # NoThing /\ l # NoThing =>
              /\ {r.kind, l.kind} \cap TwoHanded = {}
              /\ ~ {r.kind, l.kind} \subseteq Weapons
              /\ ~ {r.kind, l.kind} \subseteq Shields

\* How many things of the kind there are in the world w.
Number(w, k) ==
    FoldSet(LAMBDA p, sum : sum + (IF At(w, p).kind = k THEN At(w, p).count ELSE 0),
            0, Everywhere(w))

\* Moving things neither makes nor loses any, whether the move is done, done
\* in part, an exchange, or refused after half an exchange.
Conserves(w, after) == \A k \in Kinds : Number(after, k) = Number(w, k)

\* When a player has moved something to or from what he wears, the weight his
\* capacity is compared with is right.
Weighs(w, after) == WornWeight(after) # WornWeight(w) => after.carried = WornWeight(after)

\* Every move that a player can ask for here conserves things and leaves the right weight.
MovesConserve ==
    \A p \in Everywhere(World), c \in {c \in Cylinders \cup {Me} : c \in Bags => InWorld(c)} :
        \A i \in Indices(c), n \in Counts(At(World, p)) :
            LET after == MoveItem(World, p, c, i, n, trading).world
            IN Conserves(World, after) /\ Weighs(World, after)

ArrivesWhole(t, drop, r) ==
    IF r.ok THEN Number(r.world, t.kind) = Number(World, t.kind) + t.count
    ELSE ~drop /\ r.world = World

\* What a script gives arrives as a whole or not at all, and it always
\* arrives when it may be dropped.
GiftsArriveWhole ==
    \A t \in Gifts, drop \in BOOLEAN :
        ArrivesWhole(t, drop, AddOrDrop(World, t, drop, trading))

\* A player who has the money pays what was asked, to the last coin: what he
\* and the floor have afterwards is less by just that.
TotalWorth(w) == FoldSet(LAMBDA p, sum : sum + WorthOf(At(w, p)), 0, Everywhere(w))
PaysWhatIsAsked ==
    \A money \in 1 .. MaxAsked :
        LET r == RemoveMoney(World, money, trading)
        IN /\ r.ok <=> GetMoney(World) >= money
           /\ TotalWorth(r.world) = TotalWorth(World) - (IF r.ok THEN money ELSE 0)
=============================================================================
