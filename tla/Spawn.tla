------------------------------- MODULE Spawn -------------------------------
(***************************************************************************)
(* A spawn (spawn.cpp): a few spots, each with a kind of monster, and the  *)
(* event that fills the spots that are empty.                              *)
(*                                                                         *)
(* The spawn learns of a death only by looking: a monster that disappears  *)
(* starts the event, if none is pending, and the event takes the monsters  *)
(* that are gone out of the list, gives the spots of those that left the   *)
(* zone away, and fills what is empty and due, at most Rate spots at a     *)
(* time and never in front of a player.  It is scheduled again while the   *)
(* list is shorter than the spots are many.                                *)
(*                                                                         *)
(* Time is left out but for this: the interval of a spot has passed since  *)
(* its lastSpawn, or not.  A monster is always placed, since its tile      *)
(* exists and it is forced.                                                *)
(***************************************************************************)
EXTENDS Naturals, FiniteSets

CONSTANTS
  Spots,     \* spawnMap: the ids, from 1
  Monsters,  \* the monsters that may exist at a time
  None,      \* not in the list
  Rate,      \* rateSpawn: spots that one event may fill
  CanLeave   \* monsters may leave the zone or be convinced

Lured == 0

SpawnAssumption ==
  /\ Spots \subseteq Nat \ {0} /\ IsFiniteSet(Spots)
  /\ Rate \in Nat \ {0}
  /\ None \notin Spots \union {Lured}
  /\ CanLeave \in BOOLEAN

VARIABLES
  started,    \* Spawns::started
  spawned,    \* spawnedMap: the spot a monster is listed for, 0 once it was lured
  life,       \* a monster does not exist, is alive or was removed
  inZone,     \* the monsters in the zone
  spawnOf,    \* the monsters whose pointer to the spawn is set
  refs,       \* the references to each monster
  toRelease,  \* Game::ToReleaseThings: a reference the game still has
  event,      \* checkSpawnEvent is pending
  due,        \* the spots whose interval has passed since lastSpawn
  watched     \* the spots a player can see
vars == <<started, spawned, life, inZone, spawnOf, refs, toRelease, event, due, watched>>

TypeOK ==
  /\ {started, event} \subseteq BOOLEAN
  /\ spawned \in [Monsters -> Spots \union {Lured, None}]
  /\ life \in [Monsters -> {"none", "alive", "removed"}]
  /\ inZone \subseteq Monsters /\ spawnOf \subseteq Monsters /\ toRelease \subseteq Monsters
  /\ refs \in [Monsters -> 0..2]
  /\ due \subseteq Spots /\ watched \subseteq Spots

Init ==
  /\ started = FALSE /\ event = FALSE
  /\ spawned = [m \in Monsters |-> None]
  /\ life = [m \in Monsters |-> "none"]
  /\ inZone = {} /\ spawnOf = {} /\ toRelease = {}
  /\ refs = [m \in Monsters |-> 0]
  /\ due = Spots /\ watched = {}

Alive == {m \in Monsters : life[m] = "alive"}
Listed == {m \in Monsters : spawned[m] # None}

-----------------------------------------------------------------------------
(* The spawn *)

\* Once for the game, once for the list.
ReferencesToNew == 2

\* What becomes of the monsters after the references in rs are left.
Left(rs, living) ==
  [m \in Monsters |-> IF living[m] = "removed" /\ rs[m] = 0 THEN "none" ELSE living[m]]

\* Spawn::spawnMonster at each of these spots, after the list and the references
\* have become these.
SpawnMonsters(spots, list, rs) ==
  \E f \in [spots -> Monsters \ (Alive \union {m \in Monsters : life[m] = "removed"})] :
    LET born == {f[s] : s \in spots} IN
    /\ Cardinality(born) = Cardinality(spots)
    /\ spawned' = [m \in Monsters |->
         IF m \in born THEN CHOOSE s \in spots : f[s] = m ELSE list[m]]
    /\ refs' = [m \in Monsters |-> IF m \in born THEN ReferencesToNew ELSE rs[m]]
    /\ life' = [m \in Monsters |-> IF m \in born THEN "alive" ELSE Left(rs, life)[m]]
    /\ inZone' = inZone \union born
    /\ spawnOf' = spawnOf \union born

\* Spawn::startup
Startup ==
  /\ ~started
  /\ started' = TRUE
  /\ SpawnMonsters(Spots, spawned, refs)
  /\ due' = {}
  /\ UNCHANGED <<toRelease, event, watched>>

\* The list without the monsters that are gone; those out of the zone have no
\* spot any more.
Purged == [m \in Monsters |->
  IF m \in Listed /\ life[m] = "removed" THEN None
  ELSE IF m \in Listed \ inZone THEN Lured
  ELSE spawned[m]]

\* unRef() of those that are taken off the list
Unrefed == {m \in Listed : Purged[m] = None}

\* Variant: every spot, whether or not its monster lives.
EmptySpotsAll == Spots
EmptySpots == {s \in Spots : \A m \in Monsters : Purged[m] # s}

\* The spots in the order of the map: s is one before Rate were tried.
Reached(tried, s) == Cardinality({t \in tried : t < s}) < Rate

\* Variant: only while no monster is left.
GoesOnIfNone(list) == \A m \in Monsters : list[m] = None
\* The list is shorter than the spots are many.
GoesOn(list) == Cardinality({m \in Monsters : list[m] # None}) < Cardinality(Spots)

\* Spawn::checkSpawn
CheckSpawn ==
  LET dead == {spawned[m] : m \in Unrefed}
      open == (due \ dead) \intersect EmptySpots
      tried == {s \in open \ watched : Reached(open \ watched, s)}
      seen == {s \in open \intersect watched : Reached(open \ watched, s)} IN
  /\ started /\ event
  /\ SpawnMonsters(tried, Purged,
       [m \in Monsters |-> IF m \in Unrefed THEN refs[m] - 1 ELSE refs[m]])
  /\ due' = due \ (dead \union tried \union seen)
  /\ event' = GoesOn(spawned')
  /\ UNCHANGED <<started, toRelease, watched>>

-----------------------------------------------------------------------------
(* Its monsters *)

\* Monster::onCreatureDisappear, Spawn::startEvent
StartsEvent(m) == event \/ m \in spawnOf

\* A monster dies, despawns or is removed by a script.
Remove(m) ==
  /\ m \in Alive
  /\ life' = [life EXCEPT ![m] = "removed"]
  /\ toRelease' = toRelease \union {m}
  /\ event' = StartsEvent(m)
  /\ inZone' = inZone \ {m}
  /\ UNCHANGED <<started, spawned, spawnOf, refs, due, watched>>

Leave(m) ==
  /\ CanLeave /\ m \in inZone
  /\ inZone' = inZone \ {m}
  /\ UNCHANGED <<started, spawned, life, spawnOf, refs, toRelease, event, due, watched>>

Return(m) ==
  /\ m \in Alive \ inZone
  /\ inZone' = inZone \union {m}
  /\ UNCHANGED <<started, spawned, life, spawnOf, refs, toRelease, event, due, watched>>

\* Spawn::removeMonster
Forgets(m) ==
  /\ spawned' = [spawned EXCEPT ![m] = None]
  /\ refs' = [refs EXCEPT ![m] = @ - 1]

\* Monster::convinceCreature: it belongs to somebody else now; no event is
\* started.
Convince(m) ==
  /\ CanLeave /\ m \in Alive /\ m \in spawnOf
  /\ Forgets(m)
  /\ spawnOf' = spawnOf \ {m}
  /\ UNCHANGED <<started, life, inZone, toRelease, event, due, watched>>

\* The game leaves its reference to a monster that was removed.
Release(m) ==
  LET left == [refs EXCEPT ![m] = @ - 1] IN
  /\ m \in toRelease
  /\ toRelease' = toRelease \ {m}
  /\ refs' = left /\ life' = Left(left, life)
  /\ spawnOf' = spawnOf \ {m}
  /\ UNCHANGED <<started, spawned, inZone, event, due, watched>>

-----------------------------------------------------------------------------
(* The world *)

\* The interval of a spot has passed.
Elapse(s) ==
  /\ due' = due \union {s} /\ due' # due
  /\ UNCHANGED <<started, spawned, life, inZone, spawnOf, refs, toRelease, event, watched>>

PlayersMove ==
  /\ watched' \in SUBSET Spots /\ watched' # watched
  /\ UNCHANGED <<started, spawned, life, inZone, spawnOf, refs, toRelease, event, due>>

Next ==
  \/ Startup \/ CheckSpawn \/ PlayersMove
  \/ \E m \in Monsters : Remove(m) \/ Leave(m) \/ Return(m) \/ Convince(m) \/ Release(m)
  \/ \E s \in Spots : Elapse(s)

Spec == Init /\ [][Next]_vars

\* The scheduler runs the event, and the game releases its things.
FairSpec ==
  /\ Spec /\ WF_vars(Startup) /\ WF_vars(CheckSpawn)
  /\ \A s \in Spots : WF_vars(Elapse(s))
  /\ \A m \in Monsters : WF_vars(Release(m))

-----------------------------------------------------------------------------
(* Properties *)

\* A spot has one monster at a time, however many of its monsters were lured
\* away before.
OneEach == \A s \in Spots : Cardinality({m \in Monsters : spawned[m] = s}) <= 1

\* The list has pointers to its monsters, and the event reads what they point
\* to: none of them was deleted.
ListedExist == \A m \in Listed : life[m] # "none"

\* A living monster points to the spawn exactly while it is on the list: its
\* death will be noticed, and nobody notices that of a monster convinced.
PointersAgree == \A m \in Alive : m \in spawnOf <=> m \in Listed

\* Nothing that was removed stays in memory once the game and the spawn have
\* both forgotten it.
Reclaimed == \A m \in Monsters : life[m] = "removed" => m \in Listed \union toRelease

\* One monster to a spot; the list, the pointers and the references agree.
SpawnSound == TypeOK /\ OneEach /\ ListedExist /\ PointersAgree /\ Reclaimed

\* While no monster leaves, no spot stays empty that players keep away from.
Refills == \A s \in Spots :
  []<>(s \in watched) \/ []<>(\E m \in Alive : spawned[m] = s)

=============================================================================
