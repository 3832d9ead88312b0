----------------------------- MODULE TileStack ------------------------------
(***************************************************************************)
(* The things on one tile of the map (tile.cpp) and what the clients that  *)
(* look at it show (protocolgame.cpp, player.cpp).                         *)
(*                                                                         *)
(* A tile has a ground, items that are always on top, in their order,      *)
(* creatures and other items.  A client shows the first ten of those that  *)
(* its player can see.  It gets the whole tile when it comes into sight    *)
(* and from then on changes by index: this was added, changed or removed   *)
(* at that place.  An index of ten and more is not sent.                   *)
(*                                                                         *)
(* The client is external: it does what it is told, drops what is more     *)
(* than it shows, and puts a creature that walks in where the server has   *)
(* it.  What happens on a tile with a teleport, a mailbox or a script is   *)
(* left out, and so is the loading of the map.                             *)
(***************************************************************************)
EXTENDS Naturals, Sequences, FiniteSets, SequencesExt

CONSTANTS
  Floors, Tops, Splashes,  \* the items there may be: ground, always on top, a pool
  Loose, Chests, Fields,   \* and those never on top: stacks, containers, fire
  Creatures,   \* who comes and goes; some become invisible
  Watchers,    \* the players who may look at the tile
  Seers,       \* those of them who see invisible creatures
  None,        \* no ground
  Limit        \* how many things of a tile a client shows, 10 in the code

Items == UNION {Floors, Tops, Splashes, Loose, Chests, Fields}

\* What an item may be.  A splash replaces a splash, and a field one that is not a
\* ward, which is not replaceable.
Kinds(i) ==
  IF i \in Floors THEN {"floor", "grass"} ELSE IF i \in Tops THEN {"edge", "wall"}
  ELSE IF i \in Splashes THEN {"splash"} ELSE IF i \in Loose THEN {"one", "pile"}
  ELSE IF i \in Chests THEN {"chest"} ELSE {"fire", "ward"}
AllKinds == UNION {Kinds(i) : i \in Items}

Ground == {"floor", "grass"}
OnTop == {"edge", "splash", "wall"}
TopOrder == [k \in OnTop |-> IF k = "edge" THEN 1 ELSE IF k = "splash" THEN 2 ELSE 3]
Field == {"fire", "ward"}
Solid == {"wall", "chest"}
Type(k) == IF k \in Field THEN "field" ELSE IF k = "chest" THEN "container" ELSE "none"

TileStackAssumption ==
  /\ \A i \in Items : Cardinality({S \in {Floors, Tops, Splashes, Loose, Chests, Fields} : i \in S}) = 1
  /\ Seers \subseteq Watchers /\ Items \intersect Creatures = {} /\ None \notin Items
  /\ Limit \in Nat \ {0, 1}

\* The state is one record, since a change of the tile sends messages in between:
\* the operations are operators from a state to a state.
VARIABLES
  s,       \* the tile and the clients (see Pictures)
  freed    \* history: items that were deleted while the tile kept them

Pictures ==
  [ground : Items \union {None},      \* Tile::ground
   top : Seq(Items),                  \* TileItemVector from getBeginTopItem()
   down : Seq(Items),                 \* and from getBeginDownItem()
   creatures : Seq(Creatures),        \* CreatureVector, the last to come first
   kind : [Items -> AllKinds \union {None}],
   hidden : SUBSET Creatures,         \* invisible
   count : Nat,                       \* thingCount
   solid : BOOLEAN, field : BOOLEAN,  \* TILESTATE_BLOCKSOLID, TILESTATE_MAGICFIELD
   watching : SUBSET Watchers, \* the tile is on the client's screen
   view : [Watchers -> Seq([thing : Items \union Creatures, as : AllKinds \union {None}])],
   stale : SUBSET Watchers]    \* history: shown something else since

Init ==
  /\ s = [ground |-> None, top |-> <<>>, down |-> <<>>, creatures |-> <<>>,
          kind |-> [i \in Items |-> None], hidden |-> {}, count |-> 0,
          solid |-> FALSE, field |-> FALSE, watching |-> Watchers,
          view |-> [p \in Watchers |-> <<>>], stale |-> {}]
  /\ freed = {}

-----------------------------------------------------------------------------
(* What is where                                                           *)

OnGround(t) == IF t.ground = None THEN <<>> ELSE <<t.ground>>
\* The order of the things, as a client counts them.
Stack(t) == OnGround(t) \o t.top \o Reverse(t.creatures) \o t.down
CanSee(t, p, x) == x \notin t.hidden \/ p \in Seers
Visible(t, p) == SelectSeq(Stack(t), LAMBDA x : CanSee(t, p, x))
Position(q, x) == CHOOSE n \in DOMAIN q : q[n] = x

\* As the server shows a thing: an item by its kind.
As(t, x) == [thing |-> x, as |-> IF x \in Items THEN t.kind[x] ELSE None]

\* What a client should show.
Shown(t, p) ==
  LET v == Visible(t, p)
  IN [n \in 1 .. (IF Len(v) < Limit THEN Len(v) ELSE Limit) |-> As(t, v[n])]

\* getClientIndexOfThing(): how many things the player sees before this one; or
\* more than is sent if it is not there.
ClientIndex(t, p, x) ==
  IF x \in Items /\ t.kind[x] \in Ground THEN 0
  ELSE IF x \notin ToSet(Stack(t)) THEN Limit
  ELSE Len(SelectSeq(SubSeq(Stack(t), 1, Position(Stack(t), x) - 1),
                     LAMBDA y : CanSee(t, p, y)))

-----------------------------------------------------------------------------
(* What is sent                                                            *)

\* The client's side of the three messages.
Cut(v) == IF Len(v) > Limit THEN SubSeq(v, 1, Limit) ELSE v
Place(v, n, x) == Cut(InsertAt(v, (IF n < Len(v) THEN n ELSE Len(v)) + 1, x))
Erase(v, n) == IF n < Len(v) THEN RemoveAt(v, n + 1) ELSE v
Change(v, n, x) == IF n < Len(v) THEN [v EXCEPT ![n + 1] = x] ELSE v

\* Every watcher in who gets his own message: at is its index, new what it makes of
\* his view.
Send(t, who, at, new) ==
  [t EXCEPT !.view = [p \in DOMAIN t.view |->
     IF p \in who \intersect t.watching /\ at[p] < Limit THEN new[p] ELSE t.view[p]]]

Indices(t, x) == [p \in Watchers |-> ClientIndex(t, p, x)]
SendAdd(t, x) ==
  Send(t, {p \in t.watching : CanSee(t, p, x)}, Indices(t, x),
       [p \in Watchers |-> Place(t.view[p], ClientIndex(t, p, x), As(t, x))])
SendUpdate(t, old, new) ==
  Send(t, t.watching, Indices(t, old),
       [p \in Watchers |-> Change(t.view[p], ClientIndex(t, p, old), As(t, new))])
SendRemove(t, who, at) == Send(t, who, at, [p \in Watchers |-> Erase(t.view[p], at[p])])

\* onUpdateTile(): the whole tile to everybody who watches.
Describe(t, who) ==
  [t EXCEPT !.view = [p \in DOMAIN t.view |-> IF p \in who THEN Shown(t, p) ELSE t.view[p]],
            !.stale = @ \ who]

\* Variant: it is not known that a thing has just gone.
AfterRemovalLate(t) == IF t.count > Limit THEN Describe(t, t.watching) ELSE t

\* postRemoveNotification() has it sent while there may be more than is shown.
AfterRemoval(t) == IF t.count > Limit - 2 THEN Describe(t, t.watching) ELSE t

-----------------------------------------------------------------------------
(* Items: Tile::__addThing, __updateThing, __replaceThing, __removeThing   *)

HasOther(t, x, K) == \E y \in ToSet(Stack(t)) \intersect Items : y # x /\ t.kind[y] \in K

\* updateTileFlags() of an item that comes, and of one that goes.
FlagsWith(t, i) ==
  [t EXCEPT !.solid = @ \/ t.kind[i] \in Solid, !.field = @ \/ t.kind[i] \in Field]
FlagsWithout(t, i) ==
  [t EXCEPT !.solid = @ /\ (t.kind[i] \in Solid => HasOther(t, i, Solid)),
            !.field = @ /\ t.kind[i] \notin Field]

Without(t, x) ==
  [t EXCEPT !.ground = IF @ = x THEN None ELSE @, !.top = SelectSeq(@, LAMBDA y : y # x),
            !.down = SelectSeq(@, LAMBDA y : y # x),
            !.creatures = SelectSeq(@, LAMBDA y : y # x), !.count = @ - 1]

\* The indices are those from before the removal.
RemoveThing(t, i) ==
  LET r == FlagsWithout(Without(t, i), i)
      told == SendRemove(r, r.watching, Indices(t, i))
  IN [told EXCEPT !.kind[i] = None]

\* A new item of a kind that is never on top comes to lie before the others.
AddDown(t, i) ==
  LET r == [t EXCEPT !.down = <<i>> \o @, !.count = @ + 1] IN SendAdd(FlagsWith(r, i), i)

\* One on top comes before those of the same order.
AddTop(t, i) ==
  LET below == SelectSeq(t.top, LAMBDA y : TopOrder[t.kind[y]] < TopOrder[t.kind[i]])
      r == [t EXCEPT !.top = InsertAt(@, Len(below) + 1, i), !.count = @ + 1]
  IN SendAdd(FlagsWith(r, i), i)

\* An old splash or field goes first, and a client hears of both.
OldOnes(t, i) ==
  IF t.kind[i] = "splash" THEN {y \in ToSet(t.top) : t.kind[y] = "splash"}
  ELSE IF t.kind[i] \in Field THEN {y \in ToSet(t.down) : t.kind[y] \in Field}
  ELSE {}
Replaced(t, i) ==
  IF OldOnes(t, i) = {} THEN t
  ELSE AfterRemoval(RemoveThing(t, CHOOSE y \in OldOnes(t, i) : TRUE))

AddGround(t, i) ==
  IF t.ground = None THEN SendAdd(FlagsWith([t EXCEPT !.ground = i, !.count = @ + 1], i), i)
  ELSE LET r == FlagsWith(FlagsWithout([t EXCEPT !.ground = i], t.ground), i)
           told == SendUpdate(r, t.ground, i)
       IN AfterRemoval([told EXCEPT !.kind[t.ground] = None])

AddThing(t, i, k) ==
  LET r == [t EXCEPT !.kind[i] = k]
  IN IF k \in Ground THEN AddGround(r, i)
     ELSE IF k \in OnTop THEN AddTop(Replaced(r, i), i)
     ELSE IF \E y \in OldOnes(r, i) : t.kind[y] = "ward" THEN t  \* the new one is freed
     ELSE AddDown(Replaced(r, i), i)

\* Only the kind of an item changes.
UpdateThing(t, i, k) ==
  LET r == FlagsWith([FlagsWithout(t, i) EXCEPT !.kind[i] = k], i) IN SendUpdate(r, i, i)

\* __getIndexOfThing() counts from one if there is no ground, __replaceThing() from
\* nought; so who is replaced is then the next one, if it is an item.
ReplacedBy(t, i) ==
  LET before == t.top \o t.creatures \o t.down
      n == Position(before, i) + (IF t.ground = None THEN 1 ELSE 0)
  IN IF n <= Len(before) /\ before[n] \in Items THEN before[n] ELSE None

\* The old item is already gone when its index is asked for.
ReplaceThing(t, i, j, k) ==
  LET made == [t EXCEPT !.kind[j] = k]
      put(q) == [n \in DOMAIN q |-> IF q[n] = i THEN j ELSE q[n]]
      r == FlagsWith(FlagsWithout([made EXCEPT !.top = put(@), !.down = put(@)], i), j)
  IN [SendUpdate(r, i, j) EXCEPT !.kind[i] = None]

-----------------------------------------------------------------------------
(* Operations of the game                                                  *)

AddItem(i, k) ==
  /\ s.kind[i] = None /\ i \notin freed /\ k \in Kinds(i)
  /\ s' = AddThing(s, i, k)
  /\ UNCHANGED freed

\* internalRemoveItem(), of a whole item.
RemoveItem(i) ==
  /\ i \in ToSet(Stack(s))
  /\ s' = AfterRemoval(RemoveThing(s, i))
  /\ UNCHANGED freed

\* A part of a stack goes.
RemoveSome(i) ==
  /\ i \in ToSet(Stack(s)) /\ s.kind[i] = "pile" /\ "one" \in Kinds(i)
  /\ s' = AfterRemoval(UpdateThing(s, i, "one"))
  /\ UNCHANGED freed

\* transformItem() to a kind of the same type: the item stays, its kind changes.
TransformSame(i, k) ==
  /\ i \in ToSet(Stack(s)) /\ k \in Kinds(i) \ {s.kind[i]}
  /\ (k \in OnTop) = (s.kind[i] \in OnTop) /\ Type(k) = Type(s.kind[i])
  /\ s' = UpdateThing(AfterRemoval(s), i, k)
  /\ UNCHANGED freed

\* From a kind on top to one that is not, or back: a new item is added.
TransformOver(i, j, k) ==
  /\ i \in ToSet(Stack(s)) /\ s.kind[j] = None /\ j \notin freed /\ k \in Kinds(j)
  /\ (k \in OnTop) # (s.kind[i] \in OnTop) /\ {k, s.kind[i]} \intersect Ground = {}
  /\ s' = AddThing(AfterRemoval(RemoveThing(s, i)), j, k)
  /\ UNCHANGED freed

\* To another type: a new item takes the place of the old one, which is freed.
\* Nothing is transformed into a field.
TransformType(i, j, k) ==
  /\ i \in ToSet(Stack(s)) \ {s.ground} /\ s.kind[j] = None /\ j \notin freed /\ k \in Kinds(j)
  /\ (k \in OnTop) = (s.kind[i] \in OnTop) /\ k \notin Ground /\ Type(k) # Type(s.kind[i])
  /\ k \notin Field
  /\ LET old == ReplacedBy(s, i)
         r == IF old = None THEN s ELSE ReplaceThing(s, old, j, k)
     IN /\ s' = AfterRemoval([r EXCEPT !.stale = @ \union s.watching])
        /\ freed' = IF old = i THEN freed ELSE freed \union {i}

\* internalPlaceCreature(), or a step onto the tile.
Comes(c) ==
  /\ c \notin ToSet(s.creatures)
  /\ s' = SendAdd([s EXCEPT !.creatures = <<c>> \o @, !.count = @ + 1], c)
  /\ UNCHANGED freed

\* Game::removeCreature().
Removed(c) ==
  /\ c \in ToSet(s.creatures)
  /\ LET who == {p \in s.watching : CanSee(s, p, c)}
     IN s' = AfterRemoval(SendRemove(Without(s, c), who, Indices(s, c)))
  /\ UNCHANGED freed

\* Tile::moveCreature() to another tile.  The indices of all who watch are put in
\* a vector, but only those who see the creature take one, each the next.
Told(t, list, c, p) ==
  LET takers == SelectSeq(list, LAMBDA q : CanSee(t, q, c))
  IN ClientIndex(t, list[Position(takers, p)], c)
Leaves(c, list) ==
  /\ c \in ToSet(s.creatures)
  /\ LET who == {p \in s.watching : CanSee(s, p, c)}
         crossed == {p \in who : Told(s, list, c, p) # ClientIndex(s, p, c)}
         r == [Without(s, c) EXCEPT !.stale = @ \union crossed]
     IN s' = AfterRemoval(SendRemove(r, who, [p \in Watchers |-> Told(s, list, c, p)]))
  /\ UNCHANGED freed

\* internalCreatureChangeVisible(): who cannot see it any more has it removed.  No
\* tile is sent, so what lay under the last thing shown stays away.
Hides(c) ==
  /\ c \in ToSet(s.creatures) \ s.hidden
  /\ LET who == s.watching \ Seers
         r == [s EXCEPT !.hidden = @ \union {c},
                        !.stale = @ \union {p \in who : /\ Len(Visible(s, p)) > Limit
                                                   /\ ClientIndex(s, p, c) < Limit}]
     IN s' = SendRemove(r, who, Indices(s, c))
  /\ UNCHANGED freed

Appears(c) ==
  /\ c \in ToSet(s.creatures) \intersect s.hidden
  /\ LET r == [s EXCEPT !.hidden = @ \ {c}]
         who == s.watching \ Seers
     IN s' = Send(r, who, Indices(r, c),
                 [p \in Watchers |-> Place(s.view[p], ClientIndex(r, p, c), As(r, c))])
  /\ UNCHANGED freed

\* A player walks away, and gets the tile again when he is back.
LooksAway(p) ==
  /\ p \in s.watching
  /\ s' = [s EXCEPT !.watching = @ \ {p}, !.view[p] = <<>>, !.stale = @ \ {p}]
  /\ UNCHANGED freed
LooksAgain(p) ==
  /\ p \in Watchers \ s.watching
  /\ s' = Describe([s EXCEPT !.watching = @ \union {p}], {p})
  /\ UNCHANGED freed

Next ==
  /\ freed = {}
  /\ \/ \E i \in Items : \E k \in Kinds(i) : AddItem(i, k) \/ TransformSame(i, k)
     \/ \E i \in Items : RemoveItem(i) \/ RemoveSome(i)
     \/ \E i, j \in Items : \E k \in Kinds(j) : TransformOver(i, j, k) \/ TransformType(i, j, k)
     \/ \E c \in Creatures : Comes(c) \/ Removed(c) \/ Hides(c) \/ Appears(c)
     \/ \E c \in Creatures : \E list \in SetToSeqs(s.watching) : Leaves(c, list)
     \/ \E p \in Watchers : LooksAway(p) \/ LooksAgain(p)

tileVars == <<s, freed>>
Spec == Init /\ [][Next]_tileVars

-----------------------------------------------------------------------------
(* Properties                                                              *)

TypeOK == s \in Pictures /\ freed \subseteq Items

\* A client shows the first things that its player can see, in their order and
\* as they are, unless it was misled since it last got the whole tile.
ViewsAgree == \A p \in s.watching \ s.stale : s.view[p] = Shown(s, p)

\* The tile counts its things and knows what it has: its flags are those of its
\* items, and one splash or field replaces another.
TileAgrees ==
  /\ s.count = Len(Stack(s))
  /\ s.solid <=> \E i \in ToSet(Stack(s)) \intersect Items : s.kind[i] \in Solid
  /\ s.field <=> \E i \in ToSet(Stack(s)) \intersect Items : s.kind[i] \in Field
  /\ \A i, j \in {x \in Items : s.kind[x] \in Field \union {"splash"}} :
       (s.kind[i] \in Field <=> s.kind[j] \in Field) => i = j

\* Only where there is no ground is an item deleted that the tile still has.
FreedOnlyInTheVoid == freed # {} => s.ground = None

TilesSound == TypeOK /\ ViewsAgree /\ TileAgrees /\ FreedOnlyInTheVoid
=============================================================================
