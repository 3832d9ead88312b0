------------------------------ MODULE Creatures ------------------------------
(***************************************************************************)
(* The life of creatures (src/src/game.cpp, creature.cpp, monster.cpp):    *)
(* placed, summoned, convinced, hit, dead, removed and at last deleted,    *)
(* with everything that refers to them: the list of the creatures in the   *)
(* game, the vectors that checkCreatures() goes through, the summons of    *)
(* masters, the target and friend lists of monsters, what is to be         *)
(* released at the next cleanup(), and the plain pointers to a master, an  *)
(* attacked and a followed creature.                                       *)
(*                                                                         *)
(* The whole state is one record, since a removal runs through all of it:  *)
(* every operation of the code is an operator from a state to a state.     *)
(* Positions are reduced to who is near whom.  teleportAllSummons and      *)
(* teleportPlayerSummons are off, as in src/src/config.lua:310; no monster *)
(* has a condition; each vector of checkCreatures() holds one creature.    *)
(***************************************************************************)
EXTENDS Integers, FiniteSets, SequencesExt

CONSTANTS Players, Monsters, None,
          MaxSummons, \* maxPlayerSummons, and maxSummons of a monster's type
          Order       \* one order of the spectators

CreaturesAssumption ==
  /\ Players \cap Monsters = {} /\ None \notin Players \cup Monsters
  /\ MaxSummons \in Nat
  /\ Order \in Seq(Players \cup Monsters) /\ ToSet(Order) = Players \cup Monsters

Creature == Players \cup Monsters

VARIABLE g
vars == <<g>>

(* life: "absent" (not yet made, or deleted), "in" (in autoList) or "out" (removed).  *)
(* dead: no health left.  refs: refCount.  free: entries in releaseThings.  slotted:  *)
(* checkVector is not -1.  inRange: isMasterInRange.                                  *)
State ==
  [life : [Creature -> {"absent", "in", "out"}], dead : SUBSET Creature,
   refs : [Creature -> Int], free : [Creature -> 0 .. 3],
   master : [Creature -> Creature \cup {None}], summons : [Creature -> SUBSET Creature],
   targets : [Monsters -> SUBSET Creature], friends : [Monsters -> SUBSET Creature],
   attacked : [Creature -> Creature \cup {None}],
   followed : [Monsters -> Creature \cup {None}],
   checked : SUBSET Creature, slotted : SUBSET Creature,
   idle : SUBSET Monsters, inRange : SUBSET Monsters,
   near : SUBSET SUBSET Creature]

TypeOK == g \in State

Init ==
  g = [life |-> [c \in Creature |-> "absent"], dead |-> {},
       refs |-> [c \in Creature |-> 0], free |-> [c \in Creature |-> 0],
       master |-> [c \in Creature |-> None], summons |-> [c \in Creature |-> {}],
       targets |-> [m \in Monsters |-> {}], friends |-> [m \in Monsters |-> {}],
       attacked |-> [c \in Creature |-> None],
       followed |-> [m \in Monsters |-> None],
       checked |-> {}, slotted |-> {}, idle |-> {}, inRange |-> {}, near |-> {}]

Near(s, c, x) == {c, x} \in s.near
Here(s) == {c \in Creature : s.life[c] = "in"}
Around(s, c) == {x \in Here(s) : Near(s, c, x)}

\* Each operation of monsters in turn, in the order ord of the spectators.
InTurn(s, ord, M, Op(_, _)) ==
  LET T[n \in 0 .. Len(ord)] ==
        IF n = 0 THEN s ELSE IF ord[n] \in M THEN Op(T[n - 1], ord[n]) ELSE T[n - 1]
  IN  T[Len(ord)]

-----------------------------------------------------------------------------
(* References                                                              *)

Ref(s, c) == [s EXCEPT !.refs[c] = @ + 1]
UnRef(s, c) == [s EXCEPT !.refs[c] = @ - 1]
UnRefAll(s, C) == [s EXCEPT !.refs = [c \in Creature |-> IF c \in C THEN @[c] - 1 ELSE @[c]]]
Free(s, c) == [s EXCEPT !.free[c] = @ + 1]

\* Creature::~Creature() and Monster::~Monster()
Deleted(s, c) ==
  LET t == IF c \in Monsters THEN UnRefAll(UnRefAll(s, s.targets[c]), s.friends[c]) ELSE s
      u == UnRefAll(t, s.summons[c])
  IN  [u EXCEPT !.life[c] = "absent", !.dead = @ \ {c}, !.master =
                  [x \in Creature |-> IF x = c \/ x \in s.summons[c] THEN None ELSE @[x]],
                !.summons[c] = {},
                !.targets = [m \in Monsters |-> IF m = c THEN {} ELSE @[m]],
                !.friends = [m \in Monsters |-> IF m = c THEN {} ELSE @[m]],
                !.attacked =
                  [x \in Creature |-> IF x = c \/ x \in s.summons[c] THEN None ELSE @[x]],
                !.followed = [m \in Monsters |-> IF m = c THEN None ELSE @[m]],
                !.idle = @ \ {c}, !.inRange = @ \ {c},
                !.checked = @ \ {c}]

\* unRef() deletes what nothing refers to; deleting it may bring others to zero.
Swept(s) ==
  LET garbage(t) == {c \in Creature : t.life[c] # "absent" /\ t.refs[c] <= 0}
      D[n \in 0 .. Cardinality(Creature)] ==
        IF n = 0 \/ garbage(s) = {} THEN s
        ELSE IF garbage(D[n - 1]) = {} THEN D[n - 1]
        ELSE Deleted(D[n - 1], CHOOSE c \in garbage(D[n - 1]) : TRUE)
  IN  D[Cardinality(Creature)]

-----------------------------------------------------------------------------
(* The vectors of creatures to check, and idle monsters                    *)

\* Game::addCreatureCheck()
AddCheck(s, c) ==
  IF s.life[c] = "out" THEN s
  ELSE IF c \in s.slotted THEN [s EXCEPT !.checked = @ \cup {c}]
  ELSE Ref([s EXCEPT !.checked = @ \cup {c}, !.slotted = @ \cup {c}], c)

\* Game::removeCreatureCheck()
RemoveCheck(s, c) == IF c \in s.slotted THEN [s EXCEPT !.checked = @ \ {c}] ELSE s

\* Monster::clearTargetList(), clearFriendList()
ClearLists(s, m) ==
  [UnRefAll(UnRefAll(s, s.targets[m]), s.friends[m])
     EXCEPT !.targets[m] = {}, !.friends[m] = {}]

\* Monster::setIdle()
SetIdle(s, m, idle) ==
  IF s.life[m] = "out" \/ m \in s.dead THEN s
  ELSE IF idle THEN RemoveCheck(ClearLists([s EXCEPT !.idle = @ \cup {m}], m), m)
  ELSE AddCheck([s EXCEPT !.idle = @ \ {m}], m)

\* Monster::updateIdleStatus()
UpdateIdle(s, m) ==
  LET owner == s.master[m]
  IN  SetIdle(s, m, IF owner # None THEN m \notin s.inRange \/ owner \in s.idle
                    ELSE s.targets[m] = {})

-----------------------------------------------------------------------------
(* Targets and friends                                                     *)

PlayersSummon(s, c) == s.master[c] \in Players

\* Monster::isFriend()
IsFriend(s, m, c) ==
  IF PlayersSummon(s, m) THEN c = s.master[m] \/ s.master[c] = s.master[m]
  ELSE c \in Monsters /\ s.master[c] = None

\* Monster::isOpponent()
IsOpponent(s, m, c) ==
  (PlayersSummon(s, m) /\ c # s.master[m]) \/ c \in Players \/ PlayersSummon(s, c)

\* Monster::onCreatureFound()
Found(s, m, c) ==
  LET t == IF IsFriend(s, m, c) /\ c \notin s.friends[m]
           THEN Ref([s EXCEPT !.friends[m] = @ \cup {c}], c) ELSE s
      u == IF IsOpponent(s, m, c) /\ c \notin s.targets[m]
           THEN Ref([t EXCEPT !.targets[m] = @ \cup {c}], c) ELSE t
  IN  UpdateIdle(u, m)

\* Monster::updateTargetList()
UpdateTargets(s, m, ord) ==
  LET lost == {c \in Creature : c \in s.dead \/ s.life[c] # "in" \/ ~Near(s, m, c)}
      t == [UnRefAll(UnRefAll(s, s.friends[m] \cap lost), s.targets[m] \cap lost)
              EXCEPT !.friends[m] = @ \ lost, !.targets[m] = @ \ lost]
  IN  InTurn(t, ord, Around(t, m) \ {m}, LAMBDA u, c : Found(u, m, c))

\* Monster::onCreatureEnter()
Enter(s, m, c) ==
  Found(IF s.master[m] = c THEN UpdateIdle([s EXCEPT !.inRange = @ \cup {m}], m) ELSE s, m, c)

\* Monster::onCreatureLeave()
Leave(s, m, c) ==
  LET t == IF s.master[m] = c THEN UpdateIdle([s EXCEPT !.inRange = @ \ {m}], m) ELSE s
      u == IF IsFriend(t, m, c) /\ c \in t.friends[m]
           THEN UnRef([t EXCEPT !.friends[m] = @ \ {c}], c) ELSE t
  IN  IF IsOpponent(u, m, c) /\ c \in u.targets[m]
      THEN LET v == UnRef([u EXCEPT !.targets[m] = @ \ {c}], c)
           IN  IF v.targets[m] = {} THEN UpdateIdle(v, m) ELSE v
      ELSE u

\* Creature::setAttackedCreature(): a master passes the order on to his summons, each of
\* which looks for itself.
SetAttacked(s, c, x) ==
  LET sees(d) == x = None \/ Near(s, d, x)
      O[n \in 0 .. Cardinality(Creature)] ==
        IF n = 0 THEN {c} ELSE O[n - 1] \cup UNION {s.summons[d] : d \in {e \in O[n - 1] : sees(e)}}
      ordered == O[Cardinality(Creature)]
  IN  [s EXCEPT !.attacked = [d \in Creature |-> IF d \notin ordered THEN @[d]
                                                 ELSE IF sees(d) THEN x ELSE None]]

\* Creature::setFollowCreature(), of monsters.
SetFollow(s, m, x) ==
  IF s.followed[m] = x THEN s
  ELSE IF x = None THEN [s EXCEPT !.followed[m] = None]
  ELSE IF ~Near(s, m, x) THEN [s EXCEPT !.followed[m] = None]
  ELSE [s EXCEPT !.followed[m] = x]

\* Monster::selectTarget(), of a creature that can be a target.
SelectTarget(s, m, x) ==
  IF s.life[x] # "in" \/ x \notin s.targets[m] THEN s
  ELSE SetFollow(SetAttacked(s, m, x), m, x)

\* Creature::internalCreatureDisappear()
Disappear(s, c, x) ==
  LET t == IF s.attacked[c] = x THEN SetAttacked(s, c, None) ELSE s
  IN  IF c \in Monsters /\ t.followed[c] = x THEN SetFollow(t, c, None) ELSE t

-----------------------------------------------------------------------------
(* Summons and removals                                                    *)

\* Creature::addSummon()
AddSummon(s, c, m) == Ref([s EXCEPT !.master[m] = c, !.summons[c] = @ \cup {m}], m)

\* Creature::removeSummon()
RemoveSummon(s, c, m) ==
  IF m \notin s.summons[c] THEN s
  ELSE UnRef([s EXCEPT !.master[m] = None, !.summons[c] = @ \ {m}], m)

\* Monster::changeHealth(): it wakes up before it loses the health.
Hurt(s, c, lethal) ==
  LET t == IF c \in Monsters THEN SetIdle(s, c, FALSE) ELSE s
  IN  IF lethal THEN [t EXCEPT !.dead = @ \cup {c}] ELSE t

\* Creature::destroySummons()
DestroySummons(s, c) ==
  LET Destroyed(t, m) == RemoveSummon(Hurt(SetAttacked(t, m, None), m, TRUE), c, m)
      D[n \in 0 .. Cardinality(Creature)] ==
        IF n = 0 THEN s
        ELSE LET t == D[n - 1]
             IN  IF t.summons[c] = {} THEN t
                 ELSE Destroyed(t, CHOOSE m \in t.summons[c] : TRUE)
  IN  D[Cardinality(Creature)]

\* Creature::onCreatureDisappear(), Monster::onCreatureDisappear(), for the spectator d.
OnDisappear(s, d, c) ==
  LET t == Disappear(s, d, c)
  IN  IF d \notin Monsters THEN t ELSE IF d = c THEN SetIdle(t, d, TRUE) ELSE Leave(t, d, c)

\* Game::removeCreature() up to the summons, and Creature::onRemovedCreature().
RemoveOne(s, c, ord) ==
  LET t == InTurn(s, ord, Around(s, c) \cup {c}, LAMBDA u, d : OnDisappear(u, d, c))
      out == [t EXCEPT !.life[c] = "out", !.near = {p \in @ : c \notin p}]
      owner == s.master[c]
  IN  RemoveCheck(Free(IF owner # None /\ t.life[owner] # "out"
                       THEN RemoveSummon(out, owner, c) ELSE out, c), c)

\* Game::removeCreature(): the summons of what was removed follow.
RemoveCreature(s, c, ord) ==
  LET left(t) == {m \in Monsters : /\ t.life[m] = "in"
                                   /\ t.master[m] # None /\ t.life[t.master[m]] = "out"}
      R[n \in 0 .. Cardinality(Creature)] ==
        IF n = 0 THEN RemoveOne(s, c, ord)
        ELSE LET t == R[n - 1]
             IN  IF left(t) = {} THEN t ELSE RemoveOne(t, CHOOSE m \in left(t) : TRUE, ord)
  IN  R[Cardinality(Creature)]

\* Creature::onDeath() and Monster::onDeath(); Player::onDeath(), of one who is removed.
Death(s, c, ord) ==
  LET t == IF s.master[c] # None THEN RemoveSummon(s, s.master[c], c) ELSE s
      u == IF c \in Monsters THEN SetAttacked(ClearLists(DestroySummons(t, c), c), c, None) ELSE t
  IN  RemoveCreature(u, c, ord)

\* Monster::onCreatureAppear(), for the spectator d.
OnAppear(s, d, c, ord) ==
  IF d # c THEN Enter(s, d, c)
  ELSE LET t == IF s.master[c] # None /\ Near(s, c, s.master[c])
                THEN [s EXCEPT !.inRange = @ \cup {c}] ELSE s
       IN  UpdateIdle(UpdateTargets(t, c, ord), c)

\* Game::placeCreature() near the creatures S.
PlaceCreature(s, c, S, ord) ==
  LET t == Ref([s EXCEPT !.life[c] = "in", !.near = @ \cup {{c, x} : x \in S}], c)
      u == InTurn(t, ord, Monsters \cap (S \cup {c}), LAMBDA v, d : OnAppear(v, d, c, ord))
  IN  AddCheck(u, c)

\* Creature::onCreatureMove(), for the spectator d of c.
Pursue(s, d, c) ==
  LET gone(x) == x # None /\ c \in {d, x} /\ ~Near(s, d, x)
      t == IF d \in Monsters /\ gone(s.followed[d]) THEN Disappear(s, d, s.followed[d]) ELSE s
  IN  IF gone(t.attacked[d]) THEN Disappear(t, d, t.attacked[d]) ELSE t

\* Monster::onCreatureMove(), for the spectator d of c, who was near the creatures old.
OnMove(s, d, c, old, ord) ==
  LET a == Pursue(s, d, c)
      now == Near(s, d, c)
      seen == IF now /\ d \notin old THEN Enter(a, d, c)
              ELSE IF ~now /\ d \in old THEN Leave(a, d, c) ELSE a
      back == UpdateIdle(IF now /\ seen.master[d] = c
                         THEN [seen EXCEPT !.inRange = @ \cup {d}] ELSE seen, d)
      own == IF a.master[c] = None THEN a
             ELSE [a EXCEPT !.inRange = IF Near(a, c, a.master[c]) THEN @ \cup {c} ELSE @ \ {c}]
  IN  IF d \notin Monsters THEN a
      ELSE IF d = c THEN UpdateIdle(UpdateTargets(own, c, ord), c)
      ELSE IF back.followed[d] = None /\ back.master[d] = None /\ IsOpponent(back, d, c)
      THEN SelectTarget(back, d, c)
      ELSE back

-----------------------------------------------------------------------------
(* The steps                                                               *)

\* Spectators in one order and in its reverse: of two, each comes first once.
Orders == {Order, Reverse(Order)}

\* A player logs in, or a spawn places a monster.
Appear(c, S, ord) ==
  /\ g.life[c] = "absent"
  /\ g' = Swept(PlaceCreature(g, c, S, ord))

\* Game::placeSummon(), and the summons of a monster's spells; roomless: there is no room.
Summon(c, m, S, roomless, ord) ==
  /\ g.life[c] = "in" /\ g.life[m] = "absent" /\ c \in S
  /\ Cardinality(g.summons[c]) < MaxSummons
  /\ LET t == AddSummon(g, c, m)
     IN  g' = Swept(IF roomless THEN RemoveSummon(t, c, m) ELSE PlaceCreature(t, m, S, ord))

\* Monster::convinceCreature(), by a player.
Convince(p, m, ord) ==
  LET t == IF g.master[m] # None THEN RemoveSummon(g, g.master[m], m) ELSE g
      own == AddSummon(DestroySummons(SetAttacked(SetFollow(t, m, None), m, None), m), p, m)
      u == UpdateIdle(UpdateTargets(own, m, ord), m)
      Told(s, d) == IF IsFriend(s, d, m) \/ IsOpponent(s, d, m)
                    THEN UpdateIdle(UpdateTargets(s, d, ord), d) ELSE s
  IN  /\ m \in Around(g, p) /\ g.master[m] \notin Players
      /\ Cardinality(g.summons[p]) < MaxSummons
      /\ g' = Swept(InTurn([u EXCEPT !.inRange = @ \cup {m}], ord,
                           Monsters \cap (Around(u, m) \cup Around(u, p) \cup {m}), Told))

\* Game::internalMoveCreature(), after which the creatures S are near.
Move(c, S, ord) ==
  LET old == Around(g, c)
      t == [g EXCEPT !.near = {p \in @ : c \notin p} \cup {{c, x} : x \in S}]
  IN  /\ g.life[c] = "in" /\ S # old
      /\ g' = Swept(InTurn(t, ord, old \cup S \cup {c}, LAMBDA s, d : OnMove(s, d, c, old, ord)))

\* Player::setAttackedCreature()
Attack(p, x) ==
  /\ g.life[p] = "in" /\ x \in Around(g, p) \cup {None} /\ x # g.attacked[p]
  /\ g' = SetAttacked(g, p, x)

\* Creature::changeHealth(), from a field, a spell or another's attack.
Hit(c, lethal) ==
  /\ g.life[c] = "in" /\ c \notin g.dead
  /\ g' = Hurt(g, c, lethal)

\* The black skull, Player::addUnjustifiedKill().
Skull(p) ==
  /\ g.life[p] = "in" /\ g.summons[p] # {}
  /\ g' = Swept(DestroySummons(SetAttacked(g, p, None), p))

\* A player logs out or is kicked; a monster is removed by a script or a raid.
TakeAway(c, ord) ==
  /\ g.life[c] = "in"
  /\ g' = Swept(RemoveCreature(g, c, ord))

\* Variant: a target that is not put back is not released.
FollowCompleteForgets(s, m, found) ==
  LET x == s.followed[m]
  IN  IF x # None /\ ~found /\ s.master[m] # None /\ x \in s.targets[m]
      THEN [s EXCEPT !.targets[m] = @ \ {x}] ELSE s

\* Monster::onFollowCreatureComplete(), of a path that was found or not.
FollowComplete(s, m, found) ==
  LET x == s.followed[m]
  IN  IF x # None /\ ~found /\ s.master[m] # None /\ x \in s.targets[m]
      THEN UnRef([s EXCEPT !.targets[m] = @ \ {x}], x) ELSE s

\* What a monster turns to after its status was updated in onThink().
Chosen(s, m, x) ==
  LET owner == s.master[m]
  IN  IF m \in s.idle THEN s
      ELSE IF owner = None THEN IF x \in s.targets[m] THEN SelectTarget(s, m, x) ELSE s
      ELSE IF s.attacked[m] = None
           THEN IF s.attacked[owner] # None THEN SelectTarget(s, m, s.attacked[owner])
                ELSE SetFollow(s, m, owner)
      ELSE IF s.attacked[m] = m THEN SetFollow(s, m, None)
      ELSE SetFollow(s, m, s.attacked[m])

\* Monster::onThink(); x is the target a wild monster picks, if it picks one.
Think(s, m, found, x) ==
  LET t == FollowComplete(s, m, found)
      y == IF t.attacked[m] \in Players /\ t.summons[t.attacked[m]] # {}
           THEN SelectTarget(t, m, CHOOSE d \in t.summons[t.attacked[m]] : TRUE) ELSE t
  IN  Chosen(UpdateIdle(y, m), m, x)

\* Game::cleanup()
Cleaned(s) ==
  Swept([s EXCEPT !.refs = [c \in Creature |-> @[c] - s.free[c]],
                  !.free = [c \in Creature |-> 0]])

\* One turn of the loop of Game::checkCreatures(), in which no death is denied, and
\* cleanup() at its end.
Unslot(c) ==
  /\ c \in g.slotted \ g.checked
  /\ g' = Cleaned(Free([g EXCEPT !.slotted = @ \ {c}], c))

Die(c, ord) ==
  /\ c \in g.slotted \cap g.checked \cap g.dead
  /\ g' = Cleaned(Death(g, c, ord))

OnThink(c) ==
  /\ c \in (g.slotted \cap g.checked) \ g.dead
  /\ IF c \in Players THEN g' = Cleaned(g)
     ELSE \E found \in BOOLEAN, x \in g.targets[c] \cup {None} :
            g' = Cleaned(Think(g, c, found, x))

Next ==
  \E c \in Creature :
    \/ Unslot(c) \/ OnThink(c)
    \/ \E lethal \in BOOLEAN : Hit(c, lethal)
    \/ c \in Players /\ (Skull(c) \/ \E x \in Creature \cup {None} : Attack(c, x))
    \/ \E ord \in Orders :
         \/ Die(c, ord) \/ TakeAway(c, ord)
         \/ \E S \in SUBSET (Here(g) \ {c}) :
              \/ Appear(c, S, ord) \/ Move(c, S, ord)
              \/ \E d \in S, roomless \in BOOLEAN : c \in Monsters /\ Summon(d, c, S, roomless, ord)
         \/ \E p \in Players : c \in Monsters /\ Convince(p, c, ord)

Spec == Init /\ [][Next]_vars

-----------------------------------------------------------------------------
(* What makes it correct                                                   *)

Count(b) == IF b THEN 1 ELSE 0

\* Everything that keeps a creature's address holds one reference: the game, the vector it
\* is checked from, the releases, its master, the monsters that list it. None is left in
\* any of them when it is deleted.
Balanced ==
  \A c \in Creature :
    g.refs[c] = Count(g.life[c] = "in") + Count(c \in g.slotted) + g.free[c]
                + Cardinality({d \in Creature : c \in g.summons[d]})
                + Cardinality({m \in Monsters : c \in g.targets[m]})
                + Cardinality({m \in Monsters : c \in g.friends[m]})

\* The pointers that hold no reference are good: a master is one that has the summon in his
\* list, and who is attacked or followed by a creature in the game is in the game himself.
PointersGood ==
  \A c \in Creature :
    /\ g.master[c] # None => c \in g.summons[g.master[c]]
    /\ g.life[c] = "in" =>
         /\ g.master[c] # None => g.life[g.master[c]] = "in"
         /\ g.attacked[c] # None => g.life[g.attacked[c]] = "in"
         /\ c \in Monsters /\ g.followed[c] # None => g.life[g.followed[c]] = "in"

\* A creature without health is in a vector and will be looked at there, whether it fell
\* asleep before the blow or its master took it along; so it dies.
DeathNoticed == \A c \in Creature : g.life[c] = "in" /\ c \in g.dead => c \in g.checked \cap g.slotted

\* What the game still reaches, directly or through the lists of what it reaches.
Held(s) ==
  LET keeps(d) == s.summons[d] \cup (IF d \in Monsters THEN s.targets[d] \cup s.friends[d] ELSE {})
      H[n \in 0 .. Cardinality(Creature)] ==
        IF n = 0 THEN Here(s) \cup s.slotted \cup {c \in Creature : s.free[c] > 0}
        ELSE H[n - 1] \cup UNION {keeps(d) : d \in H[n - 1]}
  IN  H[Cardinality(Creature)]

\* The lists of removed monsters are never looked at again, and a ring of them would never
\* be deleted; it takes a monster without health that was removed before its death was
\* noticed, since only such a one keeps its lists.
LeaksOnlyTheDying ==
  (\E c \in Creature : g.life[c] = "out" /\ c \notin Held(g)) =>
     \E m \in Monsters : g.life[m] = "out" /\ m \in g.dead

\* Creatures are counted, their pointers are good, and those without health die.
CreaturesSound == TypeOK /\ Balanced /\ PointersGood /\ DeathNoticed /\ LeaksOnlyTheDying
=============================================================================
