-------------------------------- MODULE Decay --------------------------------
(***************************************************************************)
(* Items that last for a time (src/src/game.cpp): startDecay(), the        *)
(* buckets that checkDecay() visits in turn, and cleanup(), which lets new *)
(* items into the buckets and releases those that were freed.              *)
(*                                                                         *)
(* A bucket is visited once per round of Buckets checks, so an item is     *)
(* charged for its time in one piece when its bucket comes round, and      *)
(* whatever happens to it in between - it is taken off, transformed,       *)
(* destroyed - finds it still in the bucket.                               *)
(*                                                                         *)
(* Time is in ticks, Interval of which lie between two checks (the code's  *)
(* unit is the millisecond).  Items do not depend on each other, so each   *)
(* is a record.  A worn item is one of a type that decays; kept is the     *)
(* same item taken off, of a type that stops its time.                     *)
(***************************************************************************)
EXTENDS Integers, FiniteSets

CONSTANTS Items,
          Interval,   \* EVENT_DECAYINTERVAL, in ticks
          Buckets,    \* EVENT_DECAYBUCKETS
          Durations,  \* what a type may give an item, in ticks
          DecayTo,    \* what becomes of an item: "gone", or "worn", one that decays too
          MaxEntries, \* bound on the entries of one item
          MaxStops    \* bound on how often an item is taken off

DecayAssumption ==
  /\ Interval \in Nat \ {0}
  /\ Buckets \in Nat \ {0}
  /\ Durations \subseteq Nat \ {0}
  /\ \A d \in Durations : d % Interval = 0  \* whole seconds, of which Interval is one
  /\ DecayTo \subseteq {"gone", "worn"}
  /\ MaxEntries \in Nat \ {0} /\ MaxStops \in Nat

Bucket == 0 .. Buckets - 1
Round == Interval * Buckets
Kinds == {"gone", "worn", "kept"}

VARIABLES item,  \* the items, as records (see Item)
          last,  \* lastBucket
          phase  \* ticks since the last check

vars == <<item, last, phase>>

(* kind, dur (the duration attribute), decaying; the entries in toDecayItems and in  *)
(* each bucket; useCount and the entries in releaseThings.  For the properties: full *)
(* is what its type gave the item, spent the time it was worn since, stops how often *)
(* it was taken off, again whether it was transformed while it stood in a list, and  *)
(* early by how much it last decayed too soon, beyond what its stops may cost.       *)
Item == [kind : Kinds, dur : Int, decaying : BOOLEAN,
         fresh : 0 .. MaxEntries, entries : [Bucket -> 0 .. MaxEntries],
         uses : Nat, toFree : Nat,
         full : Durations \cup {0}, spent : Nat, stops : 0 .. MaxStops,
         again : BOOLEAN, early : Int]

TypeOK ==
  /\ item \in [Items -> Item]
  /\ last \in Bucket
  /\ phase \in 0 .. Interval

Nothing == [kind |-> "gone", dur |-> 0, decaying |-> FALSE,
            fresh |-> 0, entries |-> [b \in Bucket |-> 0], uses |-> 0, toFree |-> 0,
            full |-> 0, spent |-> 0, stops |-> 0, again |-> FALSE, early |-> 0]

Init ==
  /\ item = [i \in Items |-> Nothing]
  /\ last = 0
  /\ phase = 0

Sum(f) == LET S[n \in 0 .. Buckets] == IF n = 0 THEN 0 ELSE S[n - 1] + f[n - 1]
          IN  S[Buckets]

Entries(r) == r.fresh + Sum(r.entries)

-----------------------------------------------------------------------------
(* What the game makes of one item                                         *)

\* Game::freeThing()
Free(r) == [r EXCEPT !.toFree = @ + 1]

\* Game::internalRemoveItem()
Removed(r) == Free([r EXCEPT !.kind = "gone"])

\* Item::setID() with a type that decays, from one that does not stop its time.
Renewed(r, d) ==
  [r EXCEPT !.kind = "worn", !.dur = d, !.decaying = FALSE,
            !.full = d, !.spent = 0, !.stops = 0, !.again = Entries(r) > 0]

\* startDecay() of an item that has time left.
Enter(r) == [r EXCEPT !.uses = @ + 1, !.decaying = TRUE, !.fresh = @ + 1]

\* internalDecayItem(), of an item that becomes to.
Decayed(r, to) ==
  LET s == [r EXCEPT !.early = IF r.again THEN 0
                                  ELSE r.full - r.spent - (Round + Interval) * r.stops]
  IN  IF to = "worn" THEN Enter(Renewed(s, s.full))
      ELSE Removed(s)

\* startDecay()
Started(r, to) ==
  IF r.kind # "worn" \/ r.decaying THEN r
  ELSE IF r.dur > 0 THEN Enter(r)
  ELSE Decayed(r, to)

Out(r, b) == [r EXCEPT !.entries[b] = @ - 1]

\* Where an item goes that has less than a round left, at a visit of bucket b.
NewBucket(b, dur) == (b + (dur + Interval \div 2) \div Interval) % Buckets

\* Variant: an item that cannot decay any more is dropped, its reference is not.
VisitForgets(r, b, to) ==
  LET s == [r EXCEPT !.dur = IF @ < Round THEN 0 ELSE @ - Round]
  IN  IF s.kind # "worn" THEN [Out(s, b) EXCEPT !.decaying = FALSE]
      ELSE IF s.dur <= 0 THEN Free(Decayed(Out(s, b), to))
      ELSE IF s.dur < Round
           THEN IF NewBucket(b, s.dur) = b THEN Free(Decayed(Out(s, b), to))
                ELSE [Out(s, b) EXCEPT !.entries[NewBucket(b, s.dur)] = @ + 1]
      ELSE s

\* One turn of the loop of checkDecay(): one entry of the item in bucket b.
Visit(r, b, to) ==
  LET s == [r EXCEPT !.dur = IF @ < Round THEN 0 ELSE @ - Round]
  IN  IF s.kind # "worn" THEN Free([Out(s, b) EXCEPT !.decaying = FALSE])
      ELSE IF s.dur <= 0 THEN Free(Decayed(Out(s, b), to))
      ELSE IF s.dur < Round
           THEN IF NewBucket(b, s.dur) = b THEN Free(Decayed(Out(s, b), to))
                ELSE [Out(s, b) EXCEPT !.entries[NewBucket(b, s.dur)] = @ + 1]
      ELSE s

\* All entries of the item in bucket b, one after the other.
Visited(r, b, to) ==
  LET V[n \in 0 .. r.entries[b]] == IF n = 0 THEN r ELSE Visit(V[n - 1], b, to)
  IN  V[r.entries[b]]

\* The bucket cleanup() puts a new item in, when l was visited last.
FirstBucket(dur, l) ==
  IF dur >= Round THEN l ELSE (l + 1 + dur \div Interval) % Buckets

\* Game::cleanup()
Cleaned(r, l) ==
  [r EXCEPT !.uses = @ - r.toFree, !.toFree = 0, !.fresh = 0,
            !.entries[FirstBucket(r.dur, l)] = @ + r.fresh]

-----------------------------------------------------------------------------
(* The steps                                                               *)

\* An item of a type that decays comes into the game: a corpse, a fire, a torch lit.
Create(i, d, to) ==
  /\ item[i].kind = "gone" /\ item[i].uses = 0
  /\ item' = [item EXCEPT ![i] = Started(Renewed([Nothing EXCEPT !.uses = 1], d), to)]
  /\ UNCHANGED <<last, phase>>

\* Game::transformItem() into another type that decays, and startDecay().
Transform(i, d, to) ==
  /\ item[i].kind = "worn"
  /\ Entries(item[i]) < MaxEntries
  /\ item' = [item EXCEPT ![i] = Started(Renewed(@, d), to)]
  /\ UNCHANGED <<last, phase>>

\* MoveEvent::DeEquipItem()
TakeOff(i) ==
  /\ item[i].kind = "worn" /\ item[i].stops < MaxStops
  /\ item' = [item EXCEPT ![i].kind = "kept", ![i].stops = @ + 1]
  /\ UNCHANGED <<last, phase>>

\* MoveEvent::EquipItem(): the time left is kept, and startDecay() called.
PutOn(i, to) ==
  /\ item[i].kind = "kept"
  /\ item' = [item EXCEPT ![i] = Started([@ EXCEPT !.kind = "worn"], to)]
  /\ UNCHANGED <<last, phase>>

\* The item is destroyed.
Remove(i) ==
  /\ item[i].kind # "gone"
  /\ item' = [item EXCEPT ![i] = Removed(@)]
  /\ UNCHANGED <<last, phase>>

\* Game::cleanup(), at the end of each Game::checkCreatures().
Cleanup ==
  /\ \E i \in Items : item[i].fresh + item[i].toFree > 0
  /\ item' = [i \in Items |-> Cleaned(item[i], last)]
  /\ UNCHANGED <<last, phase>>

\* Game::checkDecay()
CheckDecay ==
  LET b == (last + 1) % Buckets
  IN  /\ phase = Interval
      /\ phase' = 0
      /\ last' = b
      /\ \E to \in [Items -> DecayTo] :
           item' = [i \in Items |-> Cleaned(Visited(item[i], b, to[i]), b)]

\* Time passes; checkCreatures() runs many times within a tick.
Tick ==
  /\ phase < Interval
  /\ \A i \in Items : item[i].fresh = 0 /\ item[i].toFree = 0
  /\ phase' = phase + 1
  /\ item' = [i \in Items |-> IF item[i].kind = "worn"
                              THEN [item[i] EXCEPT !.spent = @ + 1] ELSE item[i]]
  /\ UNCHANGED last

Next ==
  \/ Tick \/ CheckDecay \/ Cleanup
  \/ \E i \in Items :
       \/ TakeOff(i) \/ Remove(i)
       \/ \E to \in DecayTo : \/ PutOn(i, to)
                              \/ \E d \in Durations : Create(i, d, to) \/ Transform(i, d, to)

Spec == Init /\ [][Next]_vars

-----------------------------------------------------------------------------
(* What makes it correct                                                   *)

\* References are balanced: one for the item's place, one for each entry in a list, one
\* for each time it waits to be released; so an entry never outlives its item.
Balanced ==
  \A i \in Items :
    item[i].uses = Entries(item[i]) + item[i].toFree + (IF item[i].kind = "gone" THEN 0 ELSE 1)

\* Unless it was transformed while it stood in a list, an item has at most one entry, and
\* it has one exactly if it is marked as decaying: it is neither charged twice nor
\* forgotten for ever.
OneEntry ==
  \A i \in Items : item[i].kind # "gone" /\ ~item[i].again =>
                     Entries(item[i]) = (IF item[i].decaying THEN 1 ELSE 0)

\* An item that is worn without a break lasts as long as its type says, to within one
\* check either way; each time it is taken off may cost up to a round and a check.
LastsItsTime ==
  \A i \in Items :
    LET r == item[i]
    IN  /\ r.early <= Interval
        /\ r.kind = "worn" /\ ~r.again => r.spent <= r.full + Interval * (1 + r.stops)

\* Items are counted, charged once, and last as long as their types say.
DecaySound == TypeOK /\ Balanced /\ OneEntry /\ LastsItsTime
=============================================================================
