--------------------------- MODULE KnownCreatures ---------------------------
(***************************************************************************)
(* The creatures a client knows (ProtocolGame::checkCreatureAsKnown).  The *)
(* server describes a creature in full when it believes that the client    *)
(* does not know it, and then tells it a creature to forget, for the       *)
(* client keeps 250; a creature it believes known is sent as a number.     *)
(* The server's belief is a list in the order of use, the client's table   *)
(* is external and is here what it was told.                               *)
(***************************************************************************)
EXTENDS Naturals, Sequences, FiniteSets, SequencesExt

CONSTANTS
  Creatures,  \* the identifiers there are
  None,       \* 0, nothing to forget
  Room        \* how many a client keeps, 250 in the code

KnownAssumption == None \notin Creatures /\ Room \in Nat \ {0}

VARIABLES
  seen,      \* the creatures canSee() holds for
  shown,     \* those on the client's map, which shows ten things of a tile
  known,     \* knownCreatureList
  client,    \* the creatures in the client's table
  crowded,   \* history: was every creature of the list in sight once
  confused   \* history: was a creature sent as a number that the client lacks
vars == <<seen, shown, known, client, crowded, confused>>

Init ==
  /\ seen = {} /\ shown = {} /\ known = <<>> /\ client = {}
  /\ crowded = FALSE /\ confused = FALSE

-----------------------------------------------------------------------------
(* checkCreatureAsKnown.  A state is a record of the last four variables.  *)

\* How often the loop turns the list l round: once for each creature in sight
\* before the first that is not, and at most Room times.
Turns(l, sight) ==
  LET out == {n \in 1 .. Room : l[n] \notin sight} IN
  IF out = {} THEN Room ELSE (CHOOSE n \in out : \A k \in out : n <= k) - 1

Turned(l, n) == SubSeq(l, n + 1, Len(l)) \o SubSeq(l, 1, n)

\* The creature the client is told to forget: the one the loop looked at last.
\* Variant: the creature at the front, wherever the loop stopped.
RemovedFirst(l, turns) == l[1]
Removed(l, turns) == l[IF turns = Room THEN Room ELSE turns + 1]

\* A known creature moves to the end of the list and is sent as a number.
Used(s, id) ==
  [s EXCEPT !.known = Append(RemoveAt(@, CHOOSE n \in DOMAIN @ : @[n] = id), id),
            !.confused = @ \/ id \notin s.client]

\* An unknown one is described; when the list is full, the front leaves it after
\* the loop, and the client forgets the creature the loop ended with.
Described(s, id, sight) ==
  LET l == Append(s.known, id)
      turns == Turns(l, sight)
      gone == IF Len(l) > Room THEN Removed(l, turns) ELSE None IN
  [s EXCEPT !.known = IF Len(l) > Room THEN Tail(Turned(l, turns)) ELSE l,
            !.client = (@ \ {gone}) \union {id},
            !.crowded = @ \/ (Len(l) > Room /\ turns = Room)]

Check(s, id, sight) ==
  IF id \in ToSet(s.known) THEN Used(s, id) ELSE Described(s, id, sight)

Tell(id, sight) ==
  LET s == Check([known |-> known, client |-> client, crowded |-> crowded, confused |-> confused],
                 id, sight)
  IN /\ known' = s.known /\ client' = s.client
     /\ crowded' = s.crowded /\ confused' = s.confused

-----------------------------------------------------------------------------
\* A creature comes into sight: sendAddCreature or sendMoveCreature describe it,
\* unless ten things are above it (AddTileCreature).
Appears(c) ==
  /\ c \notin seen
  /\ seen' = seen \union {c}
  /\ shown' = shown \union {c}
  /\ Tell(c, seen')

AppearsBelow(c) ==
  /\ c \notin seen
  /\ seen' = seen \union {c}
  /\ UNCHANGED <<shown, known, client, crowded, confused>>

\* A creature in sight is described, again or at last: the player came, or its
\* tile is updated.
Again(c) ==
  /\ c \in seen
  /\ shown' = shown \union {c}
  /\ Tell(c, seen) /\ UNCHANGED seen

\* A creature leaves the sight or the game: nothing tells of its number.
Disappears(c) ==
  /\ c \in seen
  /\ seen' = seen \ {c} /\ shown' = shown \ {c}
  /\ UNCHANGED <<known, client, crowded, confused>>

\* The player is teleported or walks: all that he sees now is in sight before the
\* first of it is described, by GetTileDescription in the map's order (Again).
Moves(sight) ==
  /\ seen' = sight /\ shown' \in {{}, shown \intersect sight}
  /\ UNCHANGED <<known, client, crowded, confused>>

Next ==
  \/ \E c \in Creatures : Appears(c) \/ AppearsBelow(c) \/ Again(c) \/ Disappears(c)
  \/ \E sight \in SUBSET Creatures : Moves(sight)

Spec == Init /\ [][Next]_vars

-----------------------------------------------------------------------------
(* Properties                                                              *)

TypeOK ==
  /\ shown \subseteq seen /\ seen \subseteq Creatures
  /\ known \in Seq(Creatures) /\ Len(known) <= Room /\ IsInjective(known)
  /\ client \subseteq Creatures
  /\ crowded \in BOOLEAN /\ confused \in BOOLEAN

\* What the server believes is what the client knows, until more than Room
\* creatures were in sight at once.
BeliefIsTrue == ~crowded => ToSet(known) = client

\* What is on the client's map is in its table: the loop never gives up one that
\* is still seen while there is another.
ShownAreKnown == ~crowded => shown \subseteq client

\* No client is sent a number it lacks, unless it was crowded ("lets kick some
\* players with debug errors" is the comment on that case).
NobodyConfused == confused => crowded

\* A client can show what it is sent.
ClientKnows == TypeOK /\ BeliefIsTrue /\ ShownAreKnown /\ NobodyConfused
=============================================================================
