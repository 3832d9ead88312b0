------------------------------- MODULE Raids -------------------------------
(***************************************************************************)
(* Raids (raids.cpp): one at a time, each a list of events.                *)
(*                                                                         *)
(* What the events create, monsters and items, may count: a raid of type   *)
(* "single" is not started again before all of it is gone, one of type     *)
(* "block" goes on until then.  A raid ends in one of two places, after    *)
(* its last event or with the last thing of it, and the two hand over to   *)
(* each other.  Whoever fails to end it keeps every other raid out.        *)
(*                                                                         *)
(* Left out: the lottery and the margins of checkRaids (any raid may be    *)
(* drawn), what the events do but for the things they create, and the      *)
(* reload, which deletes the raids under their things.                     *)
(***************************************************************************)
EXTENDS Naturals, FiniteSets

CONSTANTS
  RaidNames,  \* the raids that are loaded and enabled
  None,       \* no raid
  RefType,    \* of each raid: "none", "single" or "block"
  Length,     \* how many events each raid has
  Things      \* what the events may create

RaidsAssumption ==
  /\ None \notin RaidNames
  /\ RefType \in [RaidNames -> {"none", "single", "block"}]
  /\ Length \in [RaidNames -> Nat]
  /\ IsFiniteSet(Things)

VARIABLES
  running,     \* Raids::running
  eventCount,  \* of each raid: how many events it has handed out
  nextEvent,   \* the raids that have an event scheduled
  refCount,    \* of each raid
  raidOf       \* the raid that each thing refers to
vars == <<running, eventCount, nextEvent, refCount, raidOf>>

TypeOK ==
  /\ running \in RaidNames \union {None}
  /\ eventCount \in [RaidNames -> Nat] /\ \A r \in RaidNames : eventCount[r] <= Length[r]
  /\ nextEvent \subseteq RaidNames
  /\ refCount \in [RaidNames -> 0..Cardinality(Things)]
  /\ raidOf \in [Things -> RaidNames \union {None}]

Init ==
  /\ running = None /\ nextEvent = {}
  /\ eventCount = [r \in RaidNames |-> 0]
  /\ refCount = [r \in RaidNames |-> 0]
  /\ raidOf = [t \in Things |-> None]

-----------------------------------------------------------------------------
(* A raid *)

\* The end of Raid::resetRaid is reached.
Ends(r, refs) == ~(RefType[r] = "block" /\ refs > 0)

Rewinds(r, refs) == RefType[r] # "single" \/ refs = 0

\* Raid::resetRaid from stopEvents on, for a raid with so many references.
ResetRaid(r, refs) ==
  /\ nextEvent' = nextEvent \ {r}
  /\ eventCount' = IF Ends(r, refs) /\ Rewinds(r, refs) THEN [eventCount EXCEPT ![r] = 0]
                   ELSE eventCount
  /\ running' = IF Ends(r, refs) /\ running = r THEN None ELSE running

\* Variant: its things may still be there.
FreshAlways(r) == TRUE
\* A raid that is referred to counts as started, and nothing is done.
Fresh(r) == refCount[r] = 0

\* Raid::startRaid, when it starts
StartRaid(r) ==
  /\ Fresh(r) /\ eventCount[r] < Length[r]
  /\ eventCount' = [eventCount EXCEPT ![r] = @ + 1]
  /\ nextEvent' = nextEvent \union {r}
  /\ running' = r
  /\ UNCHANGED <<refCount, raidOf>>

NoneRunning == running = None

\* Raids::checkRaids, or a script with doExecuteRaid
Start(r) == NoneRunning /\ StartRaid(r)

\* While a raid is running they return at once, and ask again later.
Busy == ~NoneRunning /\ UNCHANGED vars

\* The executeEvent of an event that creates these things and refers them to
\* the raid: none of them if the raid or the event has no "ref".
Creates(r, new) ==
  /\ \A t \in new : raidOf[t] = None
  /\ RefType[r] = "none" => new = {}
  /\ raidOf' = [t \in Things |-> IF t \in new THEN r ELSE raidOf[t]]

\* addRef() for each thing
Counted(r, new) == refCount[r] + Cardinality(new)

\* Raid::executeRaidEvent: an event that fails ends the raid, as the last does.
ExecuteRaidEvent(r) ==
  /\ r \in nextEvent
  /\ \E new \in SUBSET Things, done \in BOOLEAN :
       /\ Creates(r, new)
       /\ refCount' = [refCount EXCEPT ![r] = Counted(r, new)]
       /\ IF done /\ eventCount[r] < Length[r]
            THEN eventCount' = [eventCount EXCEPT ![r] = @ + 1] /\ UNCHANGED <<nextEvent, running>>
            ELSE ResetRaid(r, refCount'[r])

\* Variant: only an event ends a raid.
LastOneNever(r) == FALSE
\* resetRaid(true) does nothing while an event is scheduled.
LastOne(r) == refCount[r] = 1 /\ r \notin nextEvent

\* Raid::unRef: a monster dies, is convinced or deleted, or an item is removed.
Unref(t) ==
  LET r == raidOf[t] IN
  /\ r # None
  /\ raidOf' = [raidOf EXCEPT ![t] = None]
  /\ refCount' = [refCount EXCEPT ![r] = @ - 1]
  /\ IF LastOne(r) THEN ResetRaid(r, 0) ELSE UNCHANGED <<running, eventCount, nextEvent>>

Next ==
  \/ \E r \in RaidNames : Start(r) \/ ExecuteRaidEvent(r)
  \/ \E t \in Things : Unref(t)
  \/ Busy

Spec == Init /\ [][Next]_vars

\* The scheduler runs the events; sooner or later everything is killed or taken.
FairSpec ==
  /\ Spec
  /\ \A r \in RaidNames : WF_vars(ExecuteRaidEvent(r))
  /\ \A t \in Things : WF_vars(Unref(t))

-----------------------------------------------------------------------------
(* Properties *)

\* A raid that is running has an event to come or a thing that is left: somebody
\* will end it, and let the others start.
RunningHasWork == running # None => running \in nextEvent \/ refCount[running] > 0

\* No two raids have events to come, whoever starts them.
OneAtATime == nextEvent \subseteq {running}

\* The references are those of the things that exist.
RefsAreThings ==
  \A r \in RaidNames : refCount[r] = Cardinality({t \in Things : raidOf[t] = r})

\* A raid that may be started will begin with its first event.
BeginsAtTheStart ==
  \A r \in RaidNames : running # r /\ refCount[r] = 0 => eventCount[r] = 0

\* raids.xml: "will stay as 'running' until Cave Rat gets killed"
BlockStays ==
  \A r \in RaidNames : RefType[r] = "block" /\ refCount[r] > 0 => running = r

\* raids.xml: "won't be executed again till Cave Rat gets killed"
SingleWaits ==
  \A r \in RaidNames : running # r /\ running' = r => \A t \in Things : raidOf[t] # r

\* One raid at a time, which somebody will end.
RaidsSound ==
  TypeOK /\ RunningHasWork /\ OneAtATime /\ RefsAreThings /\ BeginsAtTheStart /\ BlockStays

\* Every raid ends.
RaidsEnd == []<>(running = None)

=============================================================================
