-------------------------- MODULE PartyExperience ---------------------------
(***************************************************************************)
(* The experience that the players of one party share: who may, which      *)
(* Party keeps as sharedExpEnabled and refreshes when it is told, and what *)
(* a kill is worth to whom.                                                *)
(*                                                                         *)
(* Membership as such is the subject of Party; here a party has a leader   *)
(* and members, and may be down to its leader, who has invited somebody.   *)
(* Rates, stamina and the flags of privileged players are left out: one    *)
(* point of the monster's is one point of the player's.                    *)
(***************************************************************************)
EXTENDS Integers, FiniteSets, FiniteSetsExt, Functions

CONSTANTS
  Players,     \* the players there are
  Places,      \* where they are, on a line
  Radius,      \* experienceShareRadiusX, Y and Z
  Gap,         \* the level difference that excludes, 16 in the code
  Levels,      \* what level a player begins with
  Worths,      \* what a monster is worth
  Losses,      \* what is lost at once
  MaxExp,      \* the most experience a player gets to (bound)
  Limit,       \* extraPartyExperienceLimit
  Percent      \* extraPartyExperiencePercent

PartyExperienceAssumption ==
  /\ Places \subseteq Int /\ Radius \in Nat /\ Gap \in Nat \ {0}
  /\ Levels \subseteq Nat \ {0} /\ Worths \subseteq Nat /\ Losses \subseteq Nat
  /\ MaxExp \in Nat /\ Limit \in Nat /\ Percent \in Nat

VARIABLES
  leader, members,  \* the party
  active,           \* sharedExpActive: the leader wants to share
  enabled,          \* sharedExpEnabled: everybody could, when last looked at
  exp, level,       \* a player's experience and level
  pos,              \* where he is
  fought,           \* he has points that are not older than the configured time
  downgraded        \* history: a level was lost since enabled was last set
vars == <<leader, members, active, enabled, exp, level, pos, fought, downgraded>>

Party == members \union {leader}

\* Player::getExpForLevel
ExpForLevel(l) ==
  LET k == l - 1 IN (50 * k * k * k - 150 * k * k + 400 * k) \div 3

Init ==
  /\ leader \in Players /\ members = {}
  /\ active = FALSE /\ enabled = FALSE
  /\ level \in [Players -> Levels]
  /\ exp = [p \in Players |-> ExpForLevel(level[p])]
  /\ pos \in [Players -> Places]
  /\ fought = {}
  /\ downgraded = FALSE

-----------------------------------------------------------------------------
(* Who shares                                                              *)

InRange(x, y) == x - y <= Radius /\ y - x <= Radius

\* canEnableSharedExperience and canUseSharedExperience of each, for a party
\* ps led by l whose levels are lv and places at: nobody is Gap levels below
\* the highest or too far from the leader.  The activity is not reached.
CanEnable(l, ps, lv, at) ==
  /\ ps # {l}
  /\ \A p \in ps : InRange(at[l], at[p]) /\ \A q \in ps : lv[q] - lv[p] < Gap

\* updateSharedExperience, for the party as the step leaves it.
Update ==
  /\ enabled' = IF active THEN CanEnable(leader', members' \union {leader'}, level', pos')
                          ELSE enabled
  /\ downgraded' = (downgraded /\ ~active)

Unmoved == UNCHANGED <<enabled, downgraded>>

-----------------------------------------------------------------------------
(* The party                                                               *)

\* Party::join
Join(p) ==
  /\ p \notin Party
  /\ members' = members \union {p}
  /\ UNCHANGED <<leader, active, exp, level, pos, fought>>
  /\ Update

\* Party::leave; a leader hands over first, and without a member he disbands
\* the party, which ends here.  The points of who leaves are cleared.
Leave(p) ==
  /\ p \in members
  /\ members' = members \ {p}
  /\ fought' = fought \ {p}
  /\ UNCHANGED <<leader, active, exp, level, pos>>
  /\ Update

LeaderLeaves(p) ==
  /\ p \in members
  /\ leader' = p /\ members' = members \ {p}
  /\ fought' = fought \ {leader}
  /\ UNCHANGED <<active, exp, level, pos>>
  /\ Update

\* Party::passLeadership
PassLeadership(p) ==
  /\ p \in members
  /\ leader' = p /\ members' = (members \ {p}) \union {leader}
  /\ UNCHANGED <<active, exp, level, pos, fought>>
  /\ Update

\* Party::setSharedExperience; what was enabled stays while nobody shares.
SetSharedExperience(on) ==
  /\ active # on
  /\ active' = on
  /\ enabled' = IF on THEN CanEnable(leader, Party, level, pos) ELSE enabled
  /\ downgraded' = (downgraded /\ ~on)
  /\ UNCHANGED <<leader, members, exp, level, pos, fought>>

-----------------------------------------------------------------------------
(* The players                                                             *)

\* Player::onCreatureMove
OnCreatureMove(p) == IF p \in Party THEN Update ELSE Unmoved

Move(p) ==
  /\ \E x \in Places \ {pos[p]} : pos' = [pos EXCEPT ![p] = x]
  /\ UNCHANGED <<leader, members, active, exp, level, fought>>
  /\ OnCreatureMove(p)

\* onAttackedCreatureDrain and onTargetCreatureGainHealth give points.
Fight(p) ==
  /\ p \in Party
  /\ fought' = fought \union {p}
  /\ UNCHANGED <<leader, members, active, exp, level, pos>>
  /\ Update

\* The time of a player's points runs out: nobody looks.
Rest(p) ==
  /\ p \in fought
  /\ fought' = fought \ {p}
  /\ UNCHANGED <<leader, members, active, enabled, exp, level, pos, downgraded>>
 

-----------------------------------------------------------------------------
(* Experience                                                              *)

\* The loop of addExperience, from level l with experience e.
LevelUp(l, e) ==
  LET up[k \in Nat] == IF e >= ExpForLevel(k + 1) THEN up[k + 1] ELSE k IN up[l]

\* The loop of removeExperience.
LevelDown(l, e) ==
  LET down[k \in Nat] == IF k > 1 /\ e < ExpForLevel(k) THEN down[k - 1] ELSE k IN down[l]

\* shareExperience, for a party of n players: the bonus is computed with
\* integers, and a share loses its fraction when it is added.
Bonus(e) == IF e > Limit THEN e * (Percent \div 100) ELSE 0
\* Variant: the whole is paid to each.
ShareWhole(e, n) == e + Bonus(e)
Share(e, n) == e \div n + Bonus(e)

\* Those who get something get so much; who gets a level tells his party.
Gain(to, points) ==
  /\ exp' = [p \in Players |-> IF p \in to THEN exp[p] + points ELSE exp[p]]
  /\ \A p \in Players : exp'[p] <= MaxExp
  /\ level' = [p \in Players |-> IF p \in to THEN LevelUp(level[p], exp'[p]) ELSE level[p]]
  /\ UNCHANGED <<leader, members, active, pos, fought>>
  /\ IF \E p \in Party : level'[p] # level[p] THEN Update ELSE Unmoved

\* Player::onGainExperience, when a monster dies that p has hurt.
OnGainExperience(p, e) ==
  /\ IF p \in Party /\ enabled /\ active THEN Gain(Party, Share(e, Cardinality(Party)))
                                         ELSE Gain({p}, e)

\* What removeExperience leaves of x.
Left(x, e) == x - Min({x, e})

\* Player::removeExperience, by a death or a script: the party is not told.
RemoveExperience(p, e) ==
  LET left == Left(exp[p], e) IN
  /\ exp' = [exp EXCEPT ![p] = left]
  /\ level' = [level EXCEPT ![p] = LevelDown(@, left)]
  /\ downgraded' = (downgraded \/ (p \in Party /\ level' # level))
  /\ UNCHANGED <<leader, members, active, enabled, pos, fought>>
 

-----------------------------------------------------------------------------
Next ==
  \/ \E p \in Players : \/ Join(p) \/ Leave(p) \/ LeaderLeaves(p) \/ PassLeadership(p)
                        \/ Move(p) \/ Fight(p) \/ Rest(p)
  \/ \E on \in BOOLEAN : SetSharedExperience(on)
  \/ \E p \in Players, e \in Worths : OnGainExperience(p, e)
  \/ \E p \in Players, e \in Losses : RemoveExperience(p, e)

Spec == Init /\ [][Next]_vars

-----------------------------------------------------------------------------
(* Properties                                                              *)

TypeOK ==
  /\ leader \in Players /\ members \subseteq Players \ {leader}
  /\ active \in BOOLEAN /\ enabled \in BOOLEAN /\ downgraded \in BOOLEAN
  /\ exp \in [Players -> Nat] /\ level \in [Players -> Nat \ {0}]
  /\ pos \in [Players -> Places]
  /\ fought \subseteq Players

\* While a party shares, the flag it acts on is what it would find if it looked
\* now: whatever moves, joins, leaves or rises tells it.  A level lost does not.
EnabledIsCurrent ==
  active /\ ~downgraded => (enabled <=> CanEnable(leader, Party, level, pos))

\* A player's level is the one of his experience, after any gain or loss.
LevelMatches ==
  \A p \in Players :
    ExpForLevel(level[p]) <= exp[p] /\ exp[p] < ExpForLevel(level[p] + 1)

\* What is shared, and the levels it leads to, are what the code last looked at.
SharingSound == TypeOK /\ EnabledIsCurrent /\ LevelMatches

\* Sharing makes no experience: a kill, however many it is shared by, pays out
\* what it is worth at most (the configured bonus is below 100).
Total == SumFunction(exp)
PaysOutItsWorth ==
  [][Total' > Total => \E p \in Players, e \in Worths :
       OnGainExperience(p, e) /\ Total' - Total <= e]_vars
=============================================================================
