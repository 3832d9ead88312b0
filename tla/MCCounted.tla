------------------------------ MODULE MCCounted -----------------------------
(***************************************************************************)
(* What the game keeps counted, on small instances: items and documents    *)
(* that are traded, and who points to which creature.  They share no state *)
(* here, so a behaviour is one of either; turn says which.                 *)
(***************************************************************************)
EXTENDS Trade, TLC

CONSTANTS
  P, M1, M2  \* of Creatures

VARIABLES
  turn,
  g      \* Creatures'

all == <<turn, vars, g>>

\* A player and two monsters, looked at in one order and in the other.
Living == INSTANCE Creatures WITH
            Players <- {P}, Monsters <- {M1, M2}, MaxSummons <- 1, Order <- <<M1, P, M2>>

ASSUME CreaturesAssumption == Living!CreaturesAssumption

AllInit ==
  /\ turn \in {"goods", "deeds", "living"}
  /\ Init /\ Living!Init

\* Things change hands and nobody has a house; or somebody may, and two documents for it,
\* while the bags lie where they are (bounds).
NoHouse == \A h \in Houses : owner[h] = None
BagsLie == /\ \A i \in Bags : holder[i] = Ground /\ uses[i] = 1
           /\ \A i \in Things : uses[i] <= 2

AllNext ==
  \/ turn = "goods" /\ Next /\ NoHouse' /\ UNCHANGED <<turn, g>>
  \/ turn = "deeds" /\ Next /\ BagsLie' /\ UNCHANGED <<turn, g>>
  \/ turn = "living" /\ Living!Next /\ UNCHANGED <<turn, vars>>

AllSpec == AllInit /\ [][AllNext]_all

\* The monsters are interchangeable, and so are the documents.
Symmetry == Permutations({M1, M2}) \cup Permutations(Papers)

-----------------------------------------------------------------------------
(* Properties                                                              *)

\* No creature is deleted while something points to it, pointers that are not
\* counted are good, a creature without health is looked at again and dies, and
\* only a monster that was dying when it was removed may never be deleted.
CreaturesSound == turn = "living" => Living!CreaturesSound
=============================================================================
