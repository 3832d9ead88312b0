------------------------------- MODULE MCTown -------------------------------
(***************************************************************************)
(* The town on small instances: a house whose rent is weekly in a process  *)
(* that may crash, one with furniture whose rent is daily, and the chat    *)
(* with a guild and a party, and with clients that are lost.  They share   *)
(* no state here, so a behaviour is one of a single one of them; turn says *)
(* which.                                                                  *)
(***************************************************************************)
EXTENDS HouseRent, TLC

CONSTANTS
  Thing,         \* what a player puts into his house
  Address, Slots \* of a party, and of private channels

VARIABLES
  turn,
  date, atHome, overdue, village, written, owned,                         \* HouseRent's
  talkers, client, guild, party, exists, users, owner, invites, windows   \* Chat's

home == <<date, atHome, overdue, village, written, owned>>
chat == <<talkers, client, guild, party, exists, users, owner, invites, windows>>
all == <<turn, vars, home, chat>>

Home == INSTANCE HouseRent WITH
          Things <- {Thing}, RentPeriod <- "daily", MaxDay <- 2, CanCrash <- FALSE,
          NeedPremium <- TRUE, today <- date, online <- atHome, lapsed <- overdue,
          world <- village, saved <- written, since <- owned

Guild == INSTANCE Chat WITH
           Parties <- {Address}, CanLoseClient <- FALSE, CanReload <- FALSE, online <- talkers
Links == INSTANCE Chat WITH
           Parties <- {}, CanLoseClient <- TRUE, CanReload <- TRUE, online <- talkers

ASSUME ChatAssumption == Guild!ChatAssumption /\ Links!ChatAssumption

AllInit ==
  /\ turn \in {"house", "home", "guild", "links"}
  /\ Init
  /\ Home!Init
  /\ IF turn = "links" THEN Links!Init ELSE Guild!Init

AllNext ==
  \/ turn = "house" /\ Next /\ UNCHANGED <<turn, home, chat>>
  \/ turn = "home" /\ Home!Next /\ UNCHANGED <<turn, vars, chat>>
  \/ turn = "guild" /\ Guild!Next /\ UNCHANGED <<turn, vars, home>>
  \/ turn = "links" /\ Links!Next /\ UNCHANGED <<turn, vars, home>>

AllSpec == AllInit /\ [][AllNext]_all

\* Players are interchangeable, and so are the ids of private channels.
Symmetry == Permutations(Players) \union Permutations(Slots)

-----------------------------------------------------------------------------
(* Properties                                                              *)

\* The deed is sound where there is furniture, and premium time that ends; as nothing
\* crashes there, a free house is empty and every thing is with a player or in a house.
HouseholdSound == Home!HouseSound

\* Nobody owns two private channels, who is in one may be, and no channel points to
\* a player who is gone; without lost links a window that is open works, and only
\* members hear the guild.
ChannelsSound ==
  /\ turn = "guild" => /\ Guild!TypeOK /\ Guild!ChannelsSound
                       /\ Guild!WindowsWork /\ Guild!GuildHears
  /\ turn = "links" => Links!ChannelsSound
=============================================================================
