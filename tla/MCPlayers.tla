------------------------------ MODULE MCPlayers ------------------------------
(***************************************************************************)
(* What players do together and what they carry, on small instances: their *)
(* parties, the experience a party shares, and what a player wears, holds  *)
(* and pays with, and how it decays.  They share no state here, so a       *)
(* behaviour is one of a single one of them; turn says which.              *)
(***************************************************************************)
EXTENDS Party, Naturals, Sequences, FiniteSets, TLC

CONSTANTS
  Places, Radius, Gap, Levels, Worths, Losses, MaxExp, Limit, Percent,  \* of PartyExperience
  Ring                                                               \* of Decay

VARIABLES
  turn,
  leader, members, active, enabled, exp, level, pos, fought, downgraded,
  contents, inventory, weight, carried, trading,
  item, last, phase

sharing == <<leader, members, active, enabled, exp, level, pos, fought, downgraded>>
worn == <<contents, inventory, weight, carried, trading>>
aging == <<item, last, phase>>
all == <<turn, vars, sharing, worn, aging>>

Sharing == INSTANCE PartyExperience

\* Two bags, two kinds of coins, one of the second worth a full stack of the first,
\* weapons and a shield, and a sword that decays into a knife.
Coins == {"gold", "platinum"}
Belongings == {"bag", "box", "sword", "knife", "bow", "shield"} \cup Coins
Carried == INSTANCE Inventory WITH
             Bags <- {"bag", "box"}, Weapons <- {"sword", "knife"}, TwoHanded <- {"bow"},
             Shields <- {"shield"}, Coins <- Coins,
             Worth <- [k \in Coins |-> IF k = "gold" THEN 1 ELSE 2],
             Weight <- [k \in Belongings |->
                          IF k \in Coins THEN 1 ELSE IF k = "knife" THEN 2 ELSE 3],
             Decays <- [k \in Belongings |-> IF k = "sword" THEN "knife" ELSE k],
             Slots <- {3, 5, 6}, Stack <- 2, Room <- 2, Capacity <- 9,
             MaxThings <- 3, MaxAsked <- 5

Aging == INSTANCE Decay WITH
           Items <- {Ring}, Interval <- 2, Buckets <- 4, Durations <- {2, 8, 26},
           DecayTo <- {"gone", "worn"}, MaxEntries <- 2, MaxStops <- 1

\* What there is at one time, and how much of it: bags and gold, a bag and money, or
\* a bag and arms (bounds).
Belong == IF turn = "packs" THEN {"bag", "box", "gold"}
          ELSE IF turn = "purse" THEN {"bag"} \cup Coins
          ELSE Belongings \ ({"box"} \cup Coins)
Bounded ==
  LET things == Carried!Everywhere(Carried!World)
  IN /\ Cardinality(things) <= 3
     /\ \A p \in things : Carried!At(Carried!World, p).kind \in Belong

ASSUME SharingAssumption == Sharing!PartyExperienceAssumption
ASSUME DecayAssumption == Aging!DecayAssumption
ASSUME InventoryAssumption == Carried!InventoryAssumption

\* Everybody at one place, for the turns of the others.
SharingRests == \E x \in Places : pos = [q \in Players |-> x] /\ \A y \in Places : x <= y

AllInit ==
  /\ turn \in {"party", "sharing", "packs", "purse", "hands", "aging"}
  /\ Init
  /\ Sharing!Init /\ (turn # "sharing" => SharingRests)
  /\ Carried!Init
  /\ Aging!Init

AllNext ==
  \/ turn = "party" /\ Next /\ UNCHANGED <<turn, sharing, worn, aging>>
  \/ turn = "sharing" /\ Sharing!Next /\ UNCHANGED <<turn, vars, worn, aging>>
  \/ /\ turn \in {"packs", "purse", "hands"} /\ Carried!Next
     /\ UNCHANGED <<turn, vars, sharing, aging>> /\ Bounded'
  \/ turn = "aging" /\ Aging!Next /\ UNCHANGED <<turn, vars, sharing, worn>>

AllSpec == AllInit /\ [][AllNext]_all

\* Players are interchangeable, and so are addresses of parties.
Symmetry == Permutations(Players) \cup Permutations(Parties)

-----------------------------------------------------------------------------
(* Properties                                                              *)

\* While a party shares, the flag it acts on is what it would find if it looked,
\* a player's level is the one of his experience, and a kill pays out what it is
\* worth at most, however many it is shared by.
SharesItsWorth ==
  /\ [](turn = "sharing" => Sharing!SharingSound)
  /\ Sharing!PaysOutItsWorth

\* Bags form a tree, hold what fits and know what their contents weigh, at any
\* depth; the hands never hold what they may not, however it came there; a move
\* makes and loses nothing, done, done in part, exchanged or refused, and leaves the
\* right weight; and what a script gives arrives whole or not at all.
BelongingsSound ==
  /\ turn \in {"packs", "hands"} =>
       Carried!BagsSound /\ Carried!HandsAreLegal /\ Carried!MovesConserve
  /\ turn = "packs" => Carried!GiftsArriveWhole

\* Who has the money pays what is asked, to the last coin, in whatever coins.
PaysWhatIsAsked == turn = "purse" => Carried!PaysWhatIsAsked

\* An item that decays is charged once, is never deleted while a list holds it,
\* and lasts as long as its type says, to a check.
DecaySound == turn = "aging" => Aging!DecaySound
=============================================================================
