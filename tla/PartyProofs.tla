----------------------------- MODULE PartyProofs -----------------------------
(* Proofs about Party, for any players and any number of parties, about    *)
(* Decay, for any items, buckets and durations, about the locks of the     *)
(* messages, for any number of these, and about the waiting list, for any  *)
(* clients and places: what needs loops stands together here.              *)
EXTENDS Party, Sequences, FiniteSetTheorems, TLAPS

\* The invariant, of given parties ps, pointers of and lists ls: within a command
\* they are between two states.
Typed(ps, of, ls) ==
  /\ ps \in [Parties -> Records \cup {NoParty}]
  /\ of \in [Players -> Parties \cup {NoParty}]
  /\ ls \in [Players -> SUBSET Parties]

Sides(ps, of) ==
  /\ \A p \in Players, q \in Parties :
       of[p] = q <=> ps[q] # NoParty /\ p \in ps[q].members \cup {ps[q].leader}
  /\ \A q \in Parties : ps[q] # NoParty => ps[q].leader \notin ps[q].members

Online(ps, on) ==
  \A q \in Parties : ps[q] # NoParty =>
    ps[q].members \cup ps[q].invites \cup {ps[q].leader} \subseteq on

Known(ps, ls) ==
  \A q \in Parties : ps[q] # NoParty => \A p \in ps[q].invites : q \in ls[p]

\* Lists are exact, and nobody is invited to his own party, but for the players in si.
Exact(ps, ls, si) ==
  /\ \A p \in Players \ si : \A q \in ls[p] : ps[q] # NoParty /\ p \in ps[q].invites
  /\ \A q \in Parties : ps[q] # NoParty =>
       \A p \in ps[q].invites \cap (ps[q].members \cup {ps[q].leader}) : p \in si

Lonely(r) == CanDisband(r)
Sharing(ps) ==
  \A q \in Parties : ps[q] # NoParty /\ ps[q].active /\ ps[q].enabled => ps[q].members # {}

Crowded(ps) == \A q \in Parties : ps[q] # NoParty => ~Lonely(ps[q])

Consistent(ps, of, ls, on, si) ==
  /\ Typed(ps, of, ls) /\ Sides(ps, of) /\ Online(ps, on) /\ Known(ps, ls)
  /\ Exact(ps, ls, si) /\ Sharing(ps) /\ Crowded(ps)

Inv ==
  /\ online \in SUBSET Players /\ selfInvited \in SUBSET Players /\ undefined \in BOOLEAN
  /\ Consistent(party, partyOf, invitations, online, selfInvited)
  /\ undefined => selfInvited # {}

\* A record is not the NULL of an empty address.
LEMMA RecordsNotNull ==
  ASSUME NEW r \in Records
  PROVE  r # NoParty
  BY PartyAssumption DEF Records

\* updateSharedExperience() touches only the flag, and clears it for an empty party.
LEMMA SharedUpdatedFacts ==
  ASSUME NEW r \in Records, NEW s \in SharedUpdated(r)
  PROVE  /\ s \in Records
         /\ s.leader = r.leader /\ s.members = r.members /\ s.invites = r.invites
         /\ s.active = r.active
         /\ s.active /\ s.enabled => s.members # {}
<1>1. CASE ~r.active
  BY <1>1 DEF SharedUpdated, Records
<1>2. CASE r.active
  <2>1. PICK b \in IF r.members = {} THEN {FALSE} ELSE BOOLEAN : s = [r EXCEPT !.enabled = b]
    BY <1>2 DEF SharedUpdated
  <2> QED BY <1>2, <2>1 DEF Records
<1> QED BY <1>1, <1>2

\* passLeadership() keeps the players of the party and puts the new leader out of the
\* member list.
LEMMA PassedFacts ==
  ASSUME NEW r \in Records, NEW p \in r.members, p \in online, p # r.leader,
         r.leader \notin r.members, NEW s \in Passed(r, p)
  PROVE  /\ s \in Records /\ s.leader = p
         /\ s.members = (r.members \ {p}) \cup {r.leader}
         /\ s.invites = r.invites
<1>1. [r EXCEPT !.leader = p, !.members = (@ \ {p}) \cup {r.leader}] \in Records
  BY DEF Records
<1> QED BY <1>1, SharedUpdatedFacts DEF Passed, Records

\* leave() takes the player out of both lists and leaves the others where they are.
LEMMA LeftFacts ==
  ASSUME NEW r \in Records, NEW p \in Players, r.leader \notin r.members,
         p \in r.members \cup {r.leader},
         r.members \subseteq online, NEW s \in Left(r, p)
  PROVE  /\ s \in Records
         /\ s.invites = r.invites \ {p}
         /\ s.members \cup {s.leader} \subseteq r.members \cup {r.leader}
         /\ s.leader \notin s.members
         /\ p \notin s.members
         /\ ~MissingLeader(r, p) =>
              /\ p # s.leader
              /\ s.members \cup {s.leader} = (r.members \cup {r.leader}) \ {p}
         /\ MissingLeader(r, p) => s.members = r.members /\ s.leader = r.leader
         /\ s.active /\ s.enabled => s.members # {}
<1>1. PICK t \in IF p = r.leader /\ ~MissingLeader(r, p)
                 THEN UNION {Passed(r, m) : m \in r.members} ELSE {r} :
        s \in SharedUpdated([t EXCEPT !.members = @ \ {p}, !.invites = @ \ {p}])
  BY DEF Left
<1> DEFINE u == [t EXCEPT !.members = @ \ {p}, !.invites = @ \ {p}]
<1>2. CASE p = r.leader /\ ~MissingLeader(r, p)
  <2>1. PICK m \in r.members : t \in Passed(r, m)
    BY <1>1, <1>2
  <2>2. /\ t \in Records /\ t.leader = m /\ t.invites = r.invites
        /\ t.members = (r.members \ {m}) \cup {r.leader}
    BY <2>1, PassedFacts
  <2>3. /\ u \in Records /\ u.leader = m /\ u.invites = r.invites \ {p}
        /\ u.members = t.members \ {p}
    BY <2>2 DEF Records
  <2>4. /\ s \in Records /\ s.leader = u.leader /\ s.members = u.members
        /\ s.invites = u.invites
        /\ s.active /\ s.enabled => s.members # {}
    <3>1. s \in SharedUpdated(u)
      BY <1>1
    <3> HIDE DEF u
    <3>2. QED
      BY <2>3, <3>1, SharedUpdatedFacts
  <2> HIDE DEF u
  <2> DEFINE A == r.members
             B == s.members
  <2>5. /\ B = ((A \ {m}) \cup {p}) \ {p} /\ s.leader = m /\ m \in A /\ p \notin A
        /\ r.leader = p
    BY <1>2, <2>1, <2>2, <2>3, <2>4
  <2> HIDE DEF A, B
  <2>6. m # p /\ m \notin B /\ p \notin B /\ B \cup {m} = (A \cup {p}) \ {p}
    BY <2>5
  <2>7. m # p /\ m \notin s.members /\ p \notin s.members
    BY <2>6 DEF B
  <2>8. s.members \cup {s.leader} = (r.members \cup {r.leader}) \ {p}
    BY <2>5, <2>6 DEF A, B
  <2> QED BY <1>2, <2>3, <2>4, <2>7, <2>8
<1>3. CASE ~(p = r.leader /\ ~MissingLeader(r, p))
  <2>1. t = r
    BY <1>1, <1>3
  <2>2. /\ u \in Records /\ u.leader = r.leader /\ u.invites = r.invites \ {p}
        /\ u.members = r.members \ {p}
    BY <2>1 DEF Records
  <2>3. /\ s \in Records /\ s.leader = u.leader /\ s.members = u.members
        /\ s.invites = u.invites
        /\ s.active /\ s.enabled => s.members # {}
    BY <1>1, <2>2, SharedUpdatedFacts
  <2> HIDE DEF u
  <2>4. CASE MissingLeader(r, p)
    <3>1. p = r.leader
      BY <2>4 DEF MissingLeader
    <3>2. s.members = r.members
      BY <2>2, <2>3, <3>1
    <3> QED BY <2>2, <2>3, <2>4, <3>1, <3>2
  <2>5. CASE ~MissingLeader(r, p)
    <3>1. p # r.leader
      BY <1>3, <2>5
    <3>2. s.members \cup {s.leader} = (r.members \cup {r.leader}) \ {p}
      BY <2>2, <2>3, <3>1
    <3> QED BY <2>2, <2>3, <2>5, <3>1, <3>2
  <2> QED BY <2>4, <2>5
<1> QED BY <1>2, <1>3

\* leave() and the disband() it may end with keep the invariant.
LEMMA LeaveKeeps ==
  ASSUME NEW p \in Players, NEW ps, NEW of, NEW ls, NEW si,
         online \subseteq Players,
         Consistent(ps, of, ls, online, si), of[p] # NoParty,
         Leave(p, ps, of, ls)
  PROVE  /\ Consistent(party', partyOf', invitations', online, si)
         /\ \A q \in Parties : party'[q] # NoParty => p \notin party'[q].members \cup {party'[q].leader}
         /\ \A q \in Parties : party'[q] # NoParty /\ p \in party'[q].invites =>
                ps[q] # NoParty /\ p \in ps[q].invites
<1> DEFINE q == of[p]
           r == ps[q]
<1> USE DEF Consistent
<1>1. /\ q \in Parties /\ r # NoParty /\ p \in r.members \cup {r.leader}
      /\ r \in Records /\ r.leader \notin r.members /\ r.members \subseteq online
  <2>1. q \in Parties
    BY DEF Typed
  <2>2. r # NoParty /\ p \in r.members \cup {r.leader} /\ r.leader \notin r.members
    BY <2>1 DEF Sides
  <2> QED BY <2>1, <2>2 DEF Typed, Online
<1> DEFINE Gone(s) == MissingLeader(r, p) \/ CanDisband(s)
<1>2. PICK s \in Left(r, p) :
        /\ party' = [ps EXCEPT ![q] = IF Gone(s) THEN NoParty ELSE s]
        /\ partyOf' = [o \in Players |->
              IF o = p \/ (Gone(s) /\ o \in s.members \cup {s.leader})
              THEN NoParty ELSE of[o]]
        /\ invitations' = [o \in Players |->
              IF Gone(s) /\ o \in s.invites THEN ls[o] \ {q} ELSE ls[o]]
  BY <1>1 DEF Leave
<1>3. /\ s \in Records
      /\ s.invites = r.invites \ {p}
      /\ s.leader \notin s.members
      /\ p \notin s.members
      /\ ~MissingLeader(r, p) =>
           /\ p # s.leader
           /\ s.members \cup {s.leader} = (r.members \cup {r.leader}) \ {p}
      /\ MissingLeader(r, p) => s.members = r.members /\ s.leader = r.leader
      /\ s.active /\ s.enabled => s.members # {}
  BY <1>1, LeftFacts
<1>4. s # NoParty
  BY <1>3, RecordsNotNull
<1>5. \A o \in Players : of[o] = q <=> o \in r.members \cup {r.leader}
  BY <1>1 DEF Sides
<1>6. \A t \in Parties : t # q => party'[t] = ps[t]
  BY <1>1, <1>2 DEF Typed
<1>7. Typed(party', partyOf', invitations')
  BY <1>1, <1>2, <1>3 DEF Typed
<1> HIDE DEF q, r
<1>8. CASE Gone(s)
  <2>1. party'[q] = NoParty
    BY <1>1, <1>2, <1>8 DEF Typed
  <2>2. \A o \in Players :
          partyOf'[o] = IF o \in r.members \cup {r.leader} THEN NoParty ELSE of[o]
    <3> TAKE o \in Players
    <3>1. o \in r.members \cup {r.leader} <=> o = p \/ o \in s.members \cup {s.leader}
      BY <1>1, <1>3
    <3> QED BY <1>2, <1>8, <3>1
  <2>3. Sides(party', partyOf')
    BY <1>5, <1>6, <2>1, <2>2, PartyAssumption DEF Sides, Typed
  <2>4. Online(party', online) /\ Sharing(party') /\ Crowded(party')
    BY <1>6, <2>1 DEF Online, Sharing, Crowded
  <2>5. \A o \in Players, t \in Parties : t # q => (t \in invitations'[o] <=> t \in ls[o])
    BY <1>2
  <2>6. Known(party', invitations')
    BY <1>6, <2>1, <2>5 DEF Known, Typed, Records
  <2>7. \A o \in Players \ si : q \notin invitations'[o]
    <3> SUFFICES ASSUME NEW o \in Players \ si, q \in ls[o] PROVE o \in s.invites
      BY <1>2, <1>8 DEF Typed
    <3>1. o \in r.invites
      BY DEF Exact, r
    <3>2. o # p
      BY <1>1, <3>1 DEF Exact, r
    <3> QED BY <1>3, <3>1, <3>2
  <2>8. Exact(party', invitations', si)
    BY <1>6, <1>7, <2>1, <2>5, <2>7 DEF Exact, Typed
  <2>9. \A t \in Parties : t # q /\ ps[t] # NoParty => p \notin ps[t].members \cup {ps[t].leader}
    BY DEF Sides, q
  <2> QED BY <1>6, <1>7, <2>1, <2>3, <2>4, <2>6, <2>8, <2>9
<1>9. CASE ~Gone(s)
  <2>1. party'[q] = s /\ ~CanDisband(s) /\ ~MissingLeader(r, p)
    BY <1>1, <1>2, <1>9 DEF Typed
  <2>2. \A o \in Players : partyOf'[o] = IF o = p THEN NoParty ELSE of[o]
    BY <1>2, <1>9
  <2>3. invitations' = ls
    BY <1>2, <1>9 DEF Typed
  <2>4. Sides(party', partyOf')
    <3>1. \A o \in Players : partyOf'[o] = q <=> o \in s.members \cup {s.leader}
      BY <1>1, <1>3, <1>5, <2>1, <2>2, PartyAssumption
    <3>2. \A o \in Players, t \in Parties : t # q => (partyOf'[o] = t <=> of[o] = t)
      BY <2>2, PartyAssumption DEF q
    <3> QED BY <1>3, <1>4, <1>6, <2>1, <3>1, <3>2 DEF Sides
  <2>5. Online(party', online)
    BY <1>1, <1>3, <1>6, <2>1 DEF Online, r
  <2>6. Sharing(party') /\ Crowded(party')
    BY <1>3, <1>6, <2>1 DEF Sharing, Crowded, Lonely
  <2>7. Known(party', invitations')
    BY <1>1, <1>3, <1>6, <2>1, <2>3 DEF Known, r
  <2>8. Exact(party', invitations', si)
    <3>1. ASSUME NEW o \in Players \ si, NEW t \in ls[o]
          PROVE  party'[t] # NoParty /\ o \in party'[t].invites
      <4>1. t \in Parties /\ ps[t] # NoParty /\ o \in ps[t].invites
        BY DEF Exact, Typed
      <4>2. t = q => o # p
        BY <1>1, <4>1 DEF Exact, r
      <4> QED BY <1>3, <1>4, <1>6, <2>1, <4>1, <4>2 DEF r
    <3>2. \A t \in Parties : party'[t] # NoParty =>
            \A o \in party'[t].invites \cap (party'[t].members \cup {party'[t].leader}) : o \in si
      BY <1>1, <1>3, <1>6, <2>1 DEF Exact, r
    <3> QED BY <2>3, <3>1, <3>2 DEF Exact
  <2>9. \A t \in Parties : t # q /\ ps[t] # NoParty => p \notin ps[t].members \cup {ps[t].leader}
    BY DEF Sides, q
  <2> QED BY <1>3, <1>6, <1>7, <2>1, <2>4, <2>5, <2>6, <2>7, <2>8, <2>9
<1> QED BY <1>8, <1>9

\* removeInvite() of every party that invites p: p is invited nowhere any more, and what
\* is left is consistent, whatever p had invited himself to.
LEMMA DeclineKeeps ==
  ASSUME NEW p \in Players, Inv
  PROVE  /\ Consistent(Declining(p), PointersAfter(p), ListsAfter(p), online, selfInvited \ {p})
         /\ \A q \in Parties : Declining(p)[q] # NoParty => p \notin Declining(p)[q].invites
<1> DEFINE ps == Declining(p)
           of == PointersAfter(p)
           ls == ListsAfter(p)
<1> USE DEF Consistent
<1>1. /\ party \in [Parties -> Records \cup {NoParty}]
      /\ partyOf \in [Players -> Parties \cup {NoParty}]
      /\ invitations \in [Players -> SUBSET Parties]
  BY DEF Inv, Typed
<1>2. \A q \in Parties : party[q] # NoParty /\ p \in party[q].invites => q \in Declined(p)
  BY <1>1 DEF Inv, Known, Declined, Alive
<1>3. \A q \in Parties : q \in Abandoned(p) <=>
        /\ party[q] # NoParty /\ party[q].members = {} /\ party[q].invites = {p}
  BY <1>2 DEF Abandoned, Declined, Alive
<1>4. \A q \in Parties : party[q] # NoParty => party[q] \in Records
  BY <1>1
<1>5. \A q \in Parties : ps[q] = NoParty <=> party[q] = NoParty \/ q \in Abandoned(p)
  <2> TAKE q \in Parties
  <2>1. q \in Declined(p) => [party[q] EXCEPT !.invites = @ \ {p}] # NoParty
    <3>1. q \in Declined(p) => [party[q] EXCEPT !.invites = @ \ {p}] \in Records
      BY <1>4 DEF Declined, Alive, Records
    <3> QED BY <3>1, RecordsNotNull
  <2>2. q \in Declined(p) => party[q] # NoParty
    BY DEF Declined, Alive
  <2> QED BY <2>1, <2>2 DEF Declining
<1>6. \A q \in Parties : ps[q] # NoParty =>
        /\ ps[q] \in Records
        /\ ps[q].leader = party[q].leader /\ ps[q].members = party[q].members
        /\ ps[q].invites = party[q].invites \ {p}
        /\ ps[q].active = party[q].active /\ ps[q].enabled = party[q].enabled
  <2> SUFFICES ASSUME NEW q \in Parties, ps[q] # NoParty
               PROVE  /\ ps[q] \in Records
                      /\ ps[q].leader = party[q].leader /\ ps[q].members = party[q].members
                      /\ ps[q].invites = party[q].invites \ {p}
                      /\ ps[q].active = party[q].active /\ ps[q].enabled = party[q].enabled
    OBVIOUS
  <2>1. party[q] \in Records /\ q \notin Abandoned(p)
    BY <1>4, <1>5
  <2>2. CASE q \in Declined(p)
    <3>1. ps[q] = [party[q] EXCEPT !.invites = @ \ {p}]
      BY <2>1, <2>2 DEF Declining
    <3> HIDE DEF ps
    <3> QED BY <2>1, <3>1 DEF Records
  <2>3. CASE q \notin Declined(p)
    <3>1. ps[q] = party[q] /\ p \notin party[q].invites
      BY <1>2, <1>5, <2>1, <2>3 DEF Declining
    <3> HIDE DEF ps
    <3> QED BY <2>1, <3>1 DEF Records
  <2> QED BY <2>2, <2>3
<1>7. \A o \in Players : of[o] = IF \E q \in Abandoned(p) : party[q].leader = o
                                 THEN NoParty ELSE partyOf[o]
  BY DEF PointersAfter
<1>8. ls \in [Players -> SUBSET Parties] /\ ls[p] = {}
      /\ \A o \in Players : o # p => ls[o] = invitations[o]
  BY <1>1 DEF ListsAfter
<1>9. Typed(ps, of, ls)
  <2>1. ps \in [Parties -> Records \cup {NoParty}]
    <3>1. ps = [q \in Parties |-> ps[q]]
      BY DEF Declining
    <3> QED BY <1>6, <3>1
  <2>2. of \in [Players -> Parties \cup {NoParty}]
    BY <1>1 DEF PointersAfter
  <2> QED BY <1>8, <2>1, <2>2 DEF Typed
<1> HIDE DEF ps, of, ls
<1>10. Sides(ps, of)
  <2>1. ASSUME NEW o \in Players, NEW q \in Parties
        PROVE  of[o] = q <=> ps[q] # NoParty /\ o \in ps[q].members \cup {ps[q].leader}
    <3>1. partyOf[o] = q <=> party[q] # NoParty /\ o \in party[q].members \cup {party[q].leader}
      BY DEF Inv, Sides
    <3>2. \A t \in Abandoned(p) : t \in Parties /\ (party[t].leader = o => partyOf[o] = t)
      BY <1>3 DEF Inv, Sides, Abandoned, Declined, Alive
    <3>3. CASE q \in Abandoned(p)
      <4>1. partyOf[o] = q <=> o = party[q].leader
        BY <1>3, <3>1, <3>3
      <4> QED BY <1>5, <1>7, <3>3, <4>1, PartyAssumption
    <3>4. CASE q \notin Abandoned(p)
      <4>1. of[o] = q <=> partyOf[o] = q
        BY <1>7, <3>2, <3>4, PartyAssumption
      <4> QED BY <1>5, <1>6, <3>1, <3>4, <4>1
    <3> QED BY <3>3, <3>4
  <2>2. \A q \in Parties : ps[q] # NoParty => ps[q].leader \notin ps[q].members
    BY <1>5, <1>6 DEF Inv, Sides
  <2> QED BY <2>1, <2>2 DEF Sides
<1>11. Online(ps, online) /\ Sharing(ps)
  BY <1>5, <1>6 DEF Inv, Online, Sharing
<1>12. Crowded(ps)
  BY <1>3, <1>5, <1>6 DEF Inv, Crowded, Lonely, CanDisband
<1>13. Known(ps, ls)
  BY <1>5, <1>6, <1>8 DEF Inv, Known, Records
<1>14. Exact(ps, ls, selfInvited \ {p})
  <2>1. ASSUME NEW o \in Players \ (selfInvited \ {p}), NEW q \in ls[o]
        PROVE  ps[q] # NoParty /\ o \in ps[q].invites
    <3>1. o # p /\ o \notin selfInvited /\ q \in invitations[o] /\ q \in Parties
      BY <1>1, <1>8, <2>1
    <3>2. party[q] # NoParty /\ o \in party[q].invites
      BY <3>1 DEF Inv, Exact
    <3> QED BY <1>3, <1>5, <1>6, <3>1, <3>2
  <2>2. \A q \in Parties : ps[q] # NoParty =>
          \A o \in ps[q].invites \cap (ps[q].members \cup {ps[q].leader}) : o \in selfInvited \ {p}
    BY <1>5, <1>6 DEF Inv, Exact
  <2> QED BY <2>1, <2>2 DEF Exact
<1> QED BY <1>6, <1>9, <1>10, <1>11, <1>12, <1>13, <1>14 DEF ps, of, ls

\* Fewer exceptions make a stronger invariant.
LEMMA ExactWeakens ==
  ASSUME NEW ps, NEW ls, NEW si, NEW more, si \subseteq more, Exact(ps, ls, si)
  PROVE  Exact(ps, ls, more)
  BY DEF Exact

\* A logout leaves nothing of the player behind.
LEMMA DropKeeps ==
  ASSUME NEW p \in Players, Inv, Drop(p)
  PROVE  /\ selfInvited' \in SUBSET Players /\ undefined' \in BOOLEAN
         /\ Consistent(party', partyOf', invitations', online \ {p}, selfInvited')
         /\ undefined' => selfInvited' # {}
<1> DEFINE ps == Declining(p)
           of == PointersAfter(p)
           ls == ListsAfter(p)
           si == selfInvited \ {p}
<1>1. /\ Consistent(ps, of, ls, online, si)
      /\ \A q \in Parties : ps[q] # NoParty => p \notin ps[q].invites
  BY DeclineKeeps
<1>2. /\ undefined' = (invitations[p] \ Alive # {})
      /\ selfInvited' = IF undefined' THEN selfInvited ELSE si
      /\ IF of[p] = NoParty
         THEN party' = ps /\ partyOf' = of /\ invitations' = ls
         ELSE Leave(p, ps, of, ls)
  BY DEF Drop
<1>3. selfInvited' \in SUBSET Players /\ undefined' \in BOOLEAN /\ si \subseteq selfInvited'
  BY <1>2 DEF Inv
<1>4. undefined' => selfInvited' # {}
  <2>1. undefined' => p \in selfInvited
    BY <1>2 DEF Inv, Consistent, Exact, Typed, Alive
  <2> QED BY <1>2, <2>1
<1> HIDE DEF ps, of, ls, si
<1>5. /\ Consistent(party', partyOf', invitations', online, si)
      /\ \A q \in Parties : party'[q] # NoParty =>
           p \notin party'[q].members \cup party'[q].invites \cup {party'[q].leader}
  <2>1. CASE of[p] = NoParty
    <3>1. party' = ps /\ partyOf' = of /\ invitations' = ls
      BY <1>2, <2>1
    <3>2. \A q \in Parties : ps[q] # NoParty => p \notin ps[q].members \cup {ps[q].leader}
      BY <1>1, <2>1, PartyAssumption DEF Consistent, Sides
    <3> QED BY <1>1, <3>1, <3>2
  <2>2. CASE of[p] # NoParty
    <3>1. Leave(p, ps, of, ls) /\ online \subseteq Players
      BY <1>2, <2>2 DEF Inv
    <3> QED BY <1>1, <2>2, <3>1, LeaveKeeps
  <2> QED BY <2>1, <2>2
<1>6. Online(party', online \ {p})
  BY <1>5 DEF Consistent, Online
<1>7. Exact(party', invitations', selfInvited')
  BY <1>3, <1>5, ExactWeakens DEF Consistent
<1> QED BY <1>3, <1>4, <1>5, <1>6, <1>7 DEF Consistent

\* A command that changes one party, but neither who is in it nor who is invited.
LEMMA RecordChanges ==
  ASSUME NEW q \in Parties, Inv, party[q] # NoParty, NEW s \in Records,
         s.members \cup {s.leader} = party[q].members \cup {party[q].leader},
         s.leader \notin s.members, s.invites = party[q].invites,
         party[q].members # {} => s.members # {},
         s.active /\ s.enabled => s.members # {},
         party' = [party EXCEPT ![q] = s],
         UNCHANGED <<online, partyOf, invitations, selfInvited, undefined>>
  PROVE  Inv'
<1> USE DEF Inv, Consistent
<1>1. party'[q] = s /\ \A t \in Parties : t # q => party'[t] = party[t]
  BY DEF Typed
<1>2. Typed(party, partyOf, invitations)'
  BY DEF Typed
<1>3. s # NoParty
  BY RecordsNotNull
<1>4. Sides(party, partyOf)'
  BY <1>1, <1>3 DEF Sides
<1>5. Online(party, online)'
  BY <1>1, <1>3 DEF Online
<1>6. Known(party, invitations)'
  BY <1>1, <1>3 DEF Known
<1>7. Exact(party, invitations, selfInvited)'
  <2>1. ASSUME NEW o \in Players \ selfInvited, NEW t \in invitations[o]
        PROVE  party'[t] # NoParty /\ o \in party'[t].invites
    <3>1. t \in Parties /\ party[t] # NoParty /\ o \in party[t].invites
      BY DEF Exact, Typed
    <3> QED BY <1>1, <1>3, <3>1
  <2>2. \A t \in Parties : party'[t] # NoParty =>
          \A o \in party'[t].invites \cap (party'[t].members \cup {party'[t].leader}) :
            o \in selfInvited
    BY <1>1, <1>3 DEF Exact
  <2> QED BY <2>1, <2>2 DEF Exact
<1>8. Sharing(party)' /\ Crowded(party)'
  BY <1>1, <1>3 DEF Sharing, Crowded, Lonely, CanDisband
<1> QED BY <1>2, <1>4, <1>5, <1>6, <1>7, <1>8

\* The record of the player's party, once he leads one.
LEMMA LeaderFacts ==
  ASSUME Inv, NEW p \in Players, partyOf[p] # NoParty
  PROVE  /\ partyOf[p] \in Parties
         /\ party[partyOf[p]] # NoParty /\ party[partyOf[p]] \in Records
         /\ p \in party[partyOf[p]].members \cup {party[partyOf[p]].leader}
         /\ party[partyOf[p]].leader \notin party[partyOf[p]].members
         /\ party[partyOf[p]].active /\ party[partyOf[p]].enabled
              => party[partyOf[p]].members # {}
         /\ party[partyOf[p]].members \subseteq online
<1>1. partyOf[p] \in Parties
  BY DEF Inv, Consistent, Typed
<1>2. party[partyOf[p]] # NoParty /\ party[partyOf[p]] \in Records
  BY <1>1 DEF Inv, Consistent, Typed, Sides
<1> QED BY <1>1, <1>2 DEF Inv, Consistent, Sides, Sharing, Online

\* A first invitation founds a party.
LEMMA InviteToNewKeeps ==
  ASSUME Inv, NEW p \in Players, NEW i \in Players, InviteToNew(p, i)
  PROVE  Inv'
<1> USE DEF Inv, Consistent
<1> DEFINE r == [leader |-> p, members |-> {}, invites |-> {i},
                 active |-> FALSE, enabled |-> FALSE]
<1>1. PICK q \in Parties \ Alive :
        /\ party' = [party EXCEPT ![q] = r]
        /\ partyOf' = [partyOf EXCEPT ![p] = q]
        /\ invitations' = [invitations EXCEPT ![i] = @ \cup {q}]
  BY DEF InviteToNew
<1>2. /\ p \in online /\ i \in online /\ partyOf[p] = NoParty /\ partyOf[i] = NoParty
      /\ selfInvited' = IF p = i THEN selfInvited \cup {p} ELSE selfInvited
      /\ online' = online /\ undefined' = undefined
  BY DEF InviteToNew, MayInvite
<1>3. r \in Records /\ r.leader = p /\ r.members = {} /\ r.invites = {i}
      /\ r.active = FALSE
  BY DEF Records
<1>4. r # NoParty
  BY <1>3, RecordsNotNull
<1> HIDE DEF r
<1>5. q \in Parties /\ party[q] = NoParty
  BY DEF Alive
<1>6. party'[q] = r /\ \A t \in Parties : t # q => party'[t] = party[t]
  BY <1>1, <1>5 DEF Typed
<1>7. Typed(party, partyOf, invitations)'
  BY <1>1, <1>3, <1>5 DEF Typed
<1>8. Sides(party, partyOf)'
  <2>1. ASSUME NEW o \in Players, NEW t \in Parties
        PROVE  partyOf'[o] = t <=> party'[t] # NoParty /\ o \in party'[t].members \cup {party'[t].leader}
    <3>1. partyOf[o] = t <=> party[t] # NoParty /\ o \in party[t].members \cup {party[t].leader}
      BY DEF Sides
    <3>2. partyOf'[o] = IF o = p THEN q ELSE partyOf[o]
      BY <1>1 DEF Typed
    <3> QED BY <1>2, <1>3, <1>4, <1>5, <1>6, <3>1, <3>2, PartyAssumption
  <2> QED BY <1>3, <1>6, <2>1 DEF Sides
<1>9. Online(party, online)'
  BY <1>2, <1>3, <1>6 DEF Online
<1>10. \A o \in Players : invitations'[o] = IF o = i THEN invitations[o] \cup {q}
                                            ELSE invitations[o]
  BY <1>1 DEF Typed
<1>11. Known(party, invitations)'
  BY <1>3, <1>6, <1>10 DEF Known, Typed, Records
<1>12. Exact(party, invitations, selfInvited)'
  <2>1. ASSUME NEW o \in Players \ selfInvited', NEW t \in invitations'[o]
        PROVE  party'[t] # NoParty /\ o \in party'[t].invites
    <3>1. CASE t = q /\ o = i
      BY <1>3, <1>4, <1>6, <3>1
    <3>2. CASE ~(t = q /\ o = i)
      <4>1. o \notin selfInvited /\ t \in invitations[o]
        BY <1>2, <1>10, <2>1, <3>2
      <4>2. t \in Parties /\ party[t] # NoParty /\ o \in party[t].invites
        BY <4>1 DEF Exact, Typed
      <4> QED BY <1>5, <1>6, <4>2
    <3> QED BY <3>1, <3>2
  <2>2. ASSUME NEW t \in Parties, party'[t] # NoParty,
               NEW o \in party'[t].invites \cap (party'[t].members \cup {party'[t].leader})
        PROVE  o \in selfInvited'
    <3>1. CASE t = q
      BY <1>2, <1>3, <1>6, <3>1
    <3>2. CASE t # q
      BY <1>2, <1>6, <2>2, <3>2 DEF Exact
    <3> QED BY <3>1, <3>2
  <2> QED BY <2>1, <2>2 DEF Exact
<1>13. Sharing(party)' /\ Crowded(party)'
  BY <1>3, <1>6 DEF Sharing, Crowded, Lonely, CanDisband
<1> QED BY <1>2, <1>7, <1>8, <1>9, <1>11, <1>12, <1>13

\* A leader invites a player without a party.
LEMMA InviteKeeps ==
  ASSUME Inv, NEW p \in Players, NEW i \in Players, Invite(p, i)
  PROVE  Inv'
<1> DEFINE q == partyOf[p]
           r == party[q]
           s == [r EXCEPT !.invites = @ \cup {i}]
<1>1. /\ p \in online /\ i \in online /\ partyOf[i] = NoParty /\ q # NoParty
      /\ party' = [party EXCEPT ![q].invites = @ \cup {i}]
      /\ invitations' = [invitations EXCEPT ![i] = @ \cup {q}]
      /\ online' = online /\ partyOf' = partyOf /\ selfInvited' = selfInvited
      /\ undefined' = undefined
  BY DEF Invite, MayInvite, Leads
<1>2. q \in Parties /\ r # NoParty /\ r \in Records
  BY <1>1, LeaderFacts
<1>3. /\ s \in Records /\ s.leader = r.leader /\ s.members = r.members
      /\ s.invites = r.invites \cup {i} /\ s.active = r.active /\ s.enabled = r.enabled
  BY <1>2 DEF Records
<1>4. s # NoParty
  BY <1>3, RecordsNotNull
<1>5. party' = [party EXCEPT ![q] = s]
  BY <1>1
<1> USE DEF Inv, Consistent
<1> HIDE DEF q, r, s
<1>6. party'[q] = s /\ party[q] = r /\ \A t \in Parties : t # q => party'[t] = party[t]
  BY <1>2, <1>5 DEF Typed, r
<1>7. Typed(party, partyOf, invitations)'
  <2>1. party' \in [Parties -> Records \cup {NoParty}]
    BY <1>2, <1>3, <1>5 DEF Typed
  <2>2. invitations' \in [Players -> SUBSET Parties]
    BY <1>1, <1>2 DEF Typed
  <2>3. partyOf' \in [Players -> Parties \cup {NoParty}]
    BY <1>1 DEF Typed
  <2> QED BY <2>1, <2>2, <2>3 DEF Typed
<1>8. Sides(party, partyOf)'
  <2>1. ASSUME NEW o \in Players, NEW t \in Parties
        PROVE  partyOf'[o] = t <=> party'[t] # NoParty /\ o \in party'[t].members \cup {party'[t].leader}
    <3>1. partyOf[o] = t <=> party[t] # NoParty /\ o \in party[t].members \cup {party[t].leader}
      BY DEF Sides
    <3>2. partyOf'[o] = partyOf[o]
      BY <1>1
    <3> QED BY <1>2, <1>3, <1>4, <1>6, <3>1, <3>2
  <2>2. \A t \in Parties : party'[t] # NoParty => party'[t].leader \notin party'[t].members
    BY <1>2, <1>3, <1>6 DEF Sides
  <2> QED BY <2>1, <2>2 DEF Sides
<1>9. Online(party, online)'
  BY <1>1, <1>2, <1>3, <1>6 DEF Online
<1>10. \A o \in Players : invitations'[o] = IF o = i THEN invitations[o] \cup {q}
                                            ELSE invitations[o]
  BY <1>1 DEF Typed
<1>11. Known(party, invitations)'
  <2> SUFFICES ASSUME NEW t \in Parties, party'[t] # NoParty, NEW o \in party'[t].invites
               PROVE  t \in invitations'[o]
    BY DEF Known
  <2>1. o \in Players
    BY <1>7 DEF Typed, Records
  <2>2. CASE t = q /\ o = i
    BY <1>10, <2>2
  <2>3. CASE ~(t = q /\ o = i)
    <3>1. party[t] # NoParty /\ o \in party[t].invites
      BY <1>2, <1>3, <1>6, <2>3
    <3> QED BY <1>10, <2>1, <3>1 DEF Known
  <2> QED BY <2>2, <2>3
<1>12. Exact(party, invitations, selfInvited)'
  <2>1. ASSUME NEW o \in Players \ selfInvited, NEW t \in invitations'[o]
        PROVE  party'[t] # NoParty /\ o \in party'[t].invites
    <3>1. CASE t = q /\ o = i
      BY <1>3, <1>4, <1>6, <3>1
    <3>2. CASE ~(t = q /\ o = i)
      <4>1. t \in invitations[o]
        BY <1>10, <2>1, <3>2
      <4>2. t \in Parties /\ party[t] # NoParty /\ o \in party[t].invites
        BY <4>1 DEF Exact, Typed
      <4> QED BY <1>3, <1>4, <1>6, <4>2
    <3> QED BY <3>1, <3>2
  <2>2. i \notin r.members \cup {r.leader}
    BY <1>1, <1>2, <1>6, PartyAssumption DEF Sides
  <2>3. \A t \in Parties : party'[t] # NoParty =>
          \A o \in party'[t].invites \cap (party'[t].members \cup {party'[t].leader}) :
            o \in selfInvited
    BY <1>2, <1>3, <1>6, <2>2 DEF Exact
  <2> QED BY <1>1, <2>1, <2>3 DEF Exact
<1>13. Sharing(party)' /\ Crowded(party)'
  BY <1>2, <1>3, <1>6 DEF Sharing, Crowded, Lonely, CanDisband
<1> QED BY <1>1, <1>7, <1>8, <1>9, <1>11, <1>12, <1>13

\* An invited player without a party joins.
LEMMA JoinKeeps ==
  ASSUME Inv, NEW p \in Players, NEW l \in Players, Join(p, l)
  PROVE  Inv'
<1> DEFINE q == partyOf[l]
           r == party[q]
           u == [r EXCEPT !.members = @ \cup {p}, !.invites = @ \ {p}]
<1>1. /\ p \in online /\ q # NoParty /\ p \in r.invites /\ partyOf[p] = NoParty
      /\ partyOf' = [partyOf EXCEPT ![p] = q]
      /\ invitations' = [invitations EXCEPT ![p] = @ \ {q}]
      /\ online' = online /\ selfInvited' = selfInvited /\ undefined' = undefined
  BY DEF Join, Inviting
<1>2. PICK s \in SharedUpdated(u) : party' = [party EXCEPT ![q] = s]
  BY DEF Join
<1>3. q \in Parties /\ r # NoParty /\ r \in Records /\ r.leader \notin r.members
  BY <1>1, LeaderFacts
<1>4. p # r.leader /\ p \notin r.members
  BY <1>1, <1>3, PartyAssumption DEF Inv, Consistent, Sides
<1>5. /\ u \in Records /\ u.leader = r.leader /\ u.members = r.members \cup {p}
      /\ u.invites = r.invites \ {p}
  BY <1>3 DEF Records
<1>6. /\ s \in Records /\ s.leader = r.leader /\ s.members = r.members \cup {p}
      /\ s.invites = r.invites \ {p}
  BY <1>2, <1>5, SharedUpdatedFacts
<1>7. s # NoParty
  BY <1>6, RecordsNotNull
<1> USE DEF Inv, Consistent
<1> HIDE DEF q, r, u
<1>8. party'[q] = s /\ party[q] = r /\ \A t \in Parties : t # q => party'[t] = party[t]
  BY <1>2, <1>3 DEF Typed, r
<1>9. /\ \A o \in Players : partyOf'[o] = IF o = p THEN q ELSE partyOf[o]
      /\ \A o \in Players : invitations'[o] = IF o = p THEN invitations[o] \ {q}
                                              ELSE invitations[o]
  BY <1>1 DEF Typed
<1>10. Typed(party, partyOf, invitations)'
  <2>1. party' \in [Parties -> Records \cup {NoParty}]
    BY <1>2, <1>3, <1>6 DEF Typed
  <2>2. invitations' \in [Players -> SUBSET Parties]
    BY <1>1 DEF Typed
  <2>3. partyOf' \in [Players -> Parties \cup {NoParty}]
    BY <1>1, <1>3 DEF Typed
  <2> QED BY <2>1, <2>2, <2>3 DEF Typed
<1>11. Sides(party, partyOf)'
  <2>1. ASSUME NEW o \in Players, NEW t \in Parties
        PROVE  partyOf'[o] = t <=> party'[t] # NoParty /\ o \in party'[t].members \cup {party'[t].leader}
    <3>1. partyOf[o] = t <=> party[t] # NoParty /\ o \in party[t].members \cup {party[t].leader}
      BY DEF Sides
    <3> QED BY <1>1, <1>3, <1>6, <1>7, <1>8, <1>9, <3>1, PartyAssumption
  <2>2. \A t \in Parties : party'[t] # NoParty => party'[t].leader \notin party'[t].members
    BY <1>3, <1>4, <1>6, <1>8 DEF Sides
  <2> QED BY <2>1, <2>2 DEF Sides
<1>12. Online(party, online)'
  BY <1>1, <1>3, <1>6, <1>8 DEF Online
<1>13. Known(party, invitations)'
  <2> SUFFICES ASSUME NEW t \in Parties, party'[t] # NoParty, NEW o \in party'[t].invites
               PROVE  t \in invitations'[o]
    BY DEF Known
  <2>1. o \in Players
    BY <1>10 DEF Typed, Records
  <2>2. party[t] # NoParty /\ o \in party[t].invites /\ ~(t = q /\ o = p)
    BY <1>3, <1>6, <1>8
  <2> QED BY <1>9, <2>1, <2>2 DEF Known
<1>14. Exact(party, invitations, selfInvited)'
  <2>1. ASSUME NEW o \in Players \ selfInvited, NEW t \in invitations'[o]
        PROVE  party'[t] # NoParty /\ o \in party'[t].invites
    <3>1. t \in invitations[o] /\ ~(t = q /\ o = p)
      BY <1>9, <2>1
    <3>2. t \in Parties /\ party[t] # NoParty /\ o \in party[t].invites
      BY <3>1 DEF Exact, Typed
    <3> QED BY <1>6, <1>7, <1>8, <3>1, <3>2
  <2>2. \A t \in Parties : party'[t] # NoParty =>
          \A o \in party'[t].invites \cap (party'[t].members \cup {party'[t].leader}) :
            o \in selfInvited
    BY <1>3, <1>6, <1>8 DEF Exact
  <2> QED BY <1>1, <2>1, <2>2 DEF Exact
<1>15. Sharing(party)' /\ Crowded(party)'
  BY <1>3, <1>6, <1>8 DEF Sharing, Crowded, Lonely, CanDisband
<1> QED BY <1>1, <1>10, <1>11, <1>12, <1>13, <1>14, <1>15

\* A leader takes an invitation back, and the party may end with that.
LEMMA RevokeKeeps ==
  ASSUME Inv, NEW p \in Players, NEW i \in Players, RevokeInvitation(p, i)
  PROVE  Inv'
<1> DEFINE q == partyOf[p]
           r == party[q]
           u == [r EXCEPT !.invites = @ \ {i}]
<1>1. /\ q # NoParty /\ r.leader = p /\ i \in r.invites
      /\ invitations' = [invitations EXCEPT ![i] = @ \ {q}]
      /\ online' = online /\ selfInvited' = selfInvited /\ undefined' = undefined
  BY DEF RevokeInvitation, Inviting, Leads
<1>2. IF CanDisband(u)
      THEN party' = [party EXCEPT ![q] = NoParty] /\ partyOf' = [partyOf EXCEPT ![p] = NoParty]
      ELSE party' = [party EXCEPT ![q] = u] /\ partyOf' = partyOf
  BY DEF RevokeInvitation
<1>3. q \in Parties /\ r # NoParty /\ r \in Records
  BY <1>1, LeaderFacts
<1>4. /\ u \in Records /\ u.leader = r.leader /\ u.members = r.members
      /\ u.invites = r.invites \ {i} /\ u.active = r.active /\ u.enabled = r.enabled
  BY <1>3 DEF Records
<1>5. u # NoParty
  BY <1>4, RecordsNotNull
<1> USE DEF Inv, Consistent
<1> HIDE DEF q, r, u
<1>6. party[q] = r /\ \A t \in Parties : t # q => party'[t] = party[t]
  BY <1>2, <1>3 DEF Typed, r
<1>7. party'[q] = IF CanDisband(u) THEN NoParty ELSE u
  BY <1>2, <1>3 DEF Typed
<1>8. \A o \in Players : invitations'[o] = IF o = i THEN invitations[o] \ {q}
                                           ELSE invitations[o]
  BY <1>1 DEF Typed
<1>9. Typed(party, partyOf, invitations)'
  <2>1. party' \in [Parties -> Records \cup {NoParty}]
    BY <1>2, <1>3, <1>4 DEF Typed
  <2>2. invitations' \in [Players -> SUBSET Parties]
    BY <1>1 DEF Typed
  <2>3. partyOf' \in [Players -> Parties \cup {NoParty}]
    BY <1>2 DEF Typed
  <2> QED BY <2>1, <2>2, <2>3 DEF Typed
<1>10. \A o \in Players : partyOf'[o] = IF CanDisband(u) /\ o = p THEN NoParty ELSE partyOf[o]
  BY <1>2 DEF Typed
<1>11. Sides(party, partyOf)'
  <2>1. ASSUME NEW o \in Players, NEW t \in Parties
        PROVE  partyOf'[o] = t <=> party'[t] # NoParty /\ o \in party'[t].members \cup {party'[t].leader}
    <3>1. partyOf[o] = t <=> party[t] # NoParty /\ o \in party[t].members \cup {party[t].leader}
      BY DEF Sides
    <3>2. CASE CanDisband(u)
      <4>1. partyOf[o] = q <=> o = p
        <5>1. partyOf[o] = q <=> o \in r.members \cup {r.leader}
          BY <1>3, <1>6 DEF Sides
        <5>2. r.members = {}
          BY <1>4, <3>2 DEF CanDisband
        <5> QED BY <1>1, <5>1, <5>2
      <4> QED BY <1>6, <1>7, <1>10, <3>1, <3>2, <4>1, PartyAssumption
    <3>3. CASE ~CanDisband(u)
      BY <1>3, <1>4, <1>5, <1>6, <1>7, <1>10, <3>1, <3>3
    <3> QED BY <3>2, <3>3
  <2>2. \A t \in Parties : party'[t] # NoParty => party'[t].leader \notin party'[t].members
    BY <1>3, <1>4, <1>6, <1>7 DEF Sides
  <2> QED BY <2>1, <2>2 DEF Sides
<1>12. Online(party, online)'
  BY <1>1, <1>3, <1>4, <1>6, <1>7 DEF Online
<1>13. Known(party, invitations)'
  <2> SUFFICES ASSUME NEW t \in Parties, party'[t] # NoParty, NEW o \in party'[t].invites
               PROVE  t \in invitations'[o]
    BY DEF Known
  <2>1. o \in Players
    BY <1>9 DEF Typed, Records
  <2>2. party[t] # NoParty /\ o \in party[t].invites /\ ~(t = q /\ o = i)
    BY <1>3, <1>4, <1>6, <1>7
  <2> QED BY <1>8, <2>1, <2>2 DEF Known
<1>14. Exact(party, invitations, selfInvited)'
  <2>1. ASSUME NEW o \in Players \ selfInvited, NEW t \in invitations'[o]
        PROVE  party'[t] # NoParty /\ o \in party'[t].invites
    <3>1. t \in invitations[o] /\ ~(t = q /\ o = i)
      BY <1>8, <2>1
    <3>2. t \in Parties /\ party[t] # NoParty /\ o \in party[t].invites
      BY <3>1 DEF Exact, Typed
    <3>3. CASE t = q
      <4>1. o \in u.invites
        BY <1>4, <1>6, <3>1, <3>2, <3>3
      <4> QED BY <1>5, <1>7, <3>3, <4>1 DEF CanDisband
    <3>4. CASE t # q
      BY <1>6, <3>2, <3>4
    <3> QED BY <3>3, <3>4
  <2>2. \A t \in Parties : party'[t] # NoParty =>
          \A o \in party'[t].invites \cap (party'[t].members \cup {party'[t].leader}) :
            o \in selfInvited
    BY <1>3, <1>4, <1>6, <1>7 DEF Exact
  <2> QED BY <1>1, <2>1, <2>2 DEF Exact
<1>15. Sharing(party)'
  BY <1>3, <1>4, <1>6, <1>7 DEF Sharing
<1>16. Crowded(party)'
  BY <1>6, <1>7 DEF Crowded, Lonely
<1> QED BY <1>1, <1>9, <1>11, <1>12, <1>13, <1>14, <1>15, <1>16

\* The commands that change only the lead or the sharing of a party.
LEMMA SameMembersKeeps ==
  ASSUME Inv, NEW p \in Players, NEW o \in Players,
         PassLeadership(p, o) \/ UpdateShared(p) \/ \E b \in BOOLEAN : ShareExperience(p, b)
  PROVE  Inv'
<1> DEFINE q == partyOf[p]
           r == party[q]
<1>1. CASE PassLeadership(p, o)
  <2>1. /\ q # NoParty /\ o \in online
        /\ UNCHANGED <<online, partyOf, invitations, selfInvited, undefined>>
    BY <1>1 DEF PassLeadership, Leads
  <2>2. PICK s \in Passed(r, o) : party' = [party EXCEPT ![q] = s]
    BY <1>1 DEF PassLeadership
  <2>3. /\ q \in Parties /\ r # NoParty /\ r \in Records /\ r.leader \notin r.members
        /\ r.active /\ r.enabled => r.members # {}
    BY <2>1, LeaderFacts
  <2>4. CASE o \in r.members /\ o \in online /\ o # r.leader
    <3>1. /\ s \in Records /\ s.leader = o /\ s.invites = r.invites
          /\ s.members = (r.members \ {o}) \cup {r.leader}
      BY <2>2, <2>3, <2>4, PassedFacts
    <3> HIDE DEF q, r
    <3>2. /\ s.members \cup {s.leader} = r.members \cup {r.leader}
          /\ s.leader \notin s.members /\ s.members # {}
      BY <2>4, <3>1
    <3> USE DEF r
    <3> QED BY <2>1, <2>2, <2>3, <3>1, <3>2, RecordChanges
  <2>5. CASE ~(o \in r.members /\ o \in online /\ o # r.leader)
    <3>1. s = r
      BY <2>2, <2>5 DEF Passed
    <3> QED BY <2>1, <2>2, <2>3, <3>1, RecordChanges
  <2> QED BY <2>4, <2>5
<1>2. CASE UpdateShared(p)
  <2>1. q # NoParty /\ UNCHANGED <<online, partyOf, invitations, selfInvited, undefined>>
    BY <1>2 DEF UpdateShared
  <2>2. PICK s \in SharedUpdated(r) : party' = [party EXCEPT ![q] = s]
    BY <1>2 DEF UpdateShared
  <2>3. q \in Parties /\ r # NoParty /\ r \in Records /\ r.leader \notin r.members
    BY <2>1, LeaderFacts
  <2>4. /\ s \in Records /\ s.leader = r.leader /\ s.members = r.members
        /\ s.invites = r.invites
        /\ s.active /\ s.enabled => s.members # {}
    BY <2>2, <2>3, SharedUpdatedFacts
  <2>5. s.members \cup {s.leader} = r.members \cup {r.leader} /\ s.leader \notin s.members
    BY <2>3, <2>4
  <2> QED BY <2>1, <2>2, <2>3, <2>4, <2>5, RecordChanges
<1>3. CASE \E b \in BOOLEAN : ShareExperience(p, b)
  <2>1. q # NoParty /\ UNCHANGED <<online, partyOf, invitations, selfInvited, undefined>>
    BY <1>3 DEF ShareExperience, Leads
  <2>2. PICK b \in BOOLEAN :
          \E s \in SharedUpdated([r EXCEPT !.active = b]) : party' = [party EXCEPT ![q] = s]
    BY <1>3 DEF ShareExperience
  <2> DEFINE u == [r EXCEPT !.active = b]
  <2>3. PICK s \in SharedUpdated(u) : party' = [party EXCEPT ![q] = s]
    BY <2>2
  <2>4. q \in Parties /\ r # NoParty /\ r \in Records /\ r.leader \notin r.members
    BY <2>1, LeaderFacts
  <2>5. /\ u \in Records /\ u.leader = r.leader /\ u.members = r.members
        /\ u.invites = r.invites
    BY <2>4 DEF Records
  <2>6. /\ s \in Records /\ s.leader = r.leader /\ s.members = r.members
        /\ s.invites = r.invites
        /\ s.active /\ s.enabled => s.members # {}
    BY <2>3, <2>5, SharedUpdatedFacts
  <2>7. s.members \cup {s.leader} = r.members \cup {r.leader} /\ s.leader \notin s.members
    BY <2>4, <2>6
  <2> QED BY <2>1, <2>3, <2>4, <2>6, <2>7, RecordChanges
<1> QED BY <1>1, <1>2, <1>3

\* The invariant holds, whatever the players do.
THEOREM Invariance == Spec => []Inv
<1>1. Init => Inv
  BY PartyAssumption DEF Init, Inv, Consistent, Typed, Sides, Online, Known, Exact, Sharing, Crowded
<1>2. Inv /\ [Next]_vars => Inv'
  <2> SUFFICES ASSUME Inv, [Next]_vars PROVE Inv'
    OBVIOUS
  <2>1. CASE UNCHANGED vars
    BY <2>1 DEF vars, Inv
  <2>2. ASSUME NEW p \in Players, Login(p) PROVE Inv'
    <3>1. /\ online' = online \cup {p}
          /\ UNCHANGED <<party, partyOf, invitations, selfInvited, undefined>>
      BY <2>2 DEF Login
    <3>2. Consistent(party, partyOf, invitations, online', selfInvited)
      BY <3>1 DEF Inv, Consistent, Online
    <3>3. online' \in SUBSET Players
      BY <3>1 DEF Inv
    <3> QED BY <3>1, <3>2, <3>3 DEF Inv
  <2>3. ASSUME NEW p \in Players, Logout(p) PROVE Inv'
    <3>1. Drop(p) /\ online' = online \ {p}
      BY <2>3 DEF Logout
    <3>2. /\ selfInvited' \in SUBSET Players /\ undefined' \in BOOLEAN
          /\ Consistent(party', partyOf', invitations', online \ {p}, selfInvited')
          /\ undefined' => selfInvited' # {}
      BY <3>1, DropKeeps
    <3>3. online' \in SUBSET Players
      BY <3>1 DEF Inv
    <3> QED BY <3>1, <3>2, <3>3 DEF Inv
  <2>4. ASSUME NEW p \in Players, Ghost(p) PROVE Inv'
    <3>1. Drop(p) /\ online' = online
      BY <2>4 DEF Ghost
    <3>2. /\ selfInvited' \in SUBSET Players /\ undefined' \in BOOLEAN
          /\ Consistent(party', partyOf', invitations', online \ {p}, selfInvited')
          /\ undefined' => selfInvited' # {}
      BY <3>1, DropKeeps
    <3>3. Consistent(party', partyOf', invitations', online', selfInvited')
      BY <3>1, <3>2 DEF Consistent, Online
    <3> QED BY <3>1, <3>2, <3>3 DEF Inv
  <2>5. ASSUME NEW p \in Players, LeaveParty(p) PROVE Inv'
    <3>1. /\ partyOf[p] # NoParty /\ Leave(p, party, partyOf, invitations)
          /\ UNCHANGED <<online, selfInvited, undefined>>
      BY <2>5 DEF LeaveParty
    <3>2. /\ Consistent(party, partyOf, invitations, online, selfInvited)
          /\ online \subseteq Players
      BY DEF Inv
    <3>3. Consistent(party', partyOf', invitations', online, selfInvited)
      BY <3>1, <3>2, LeaveKeeps
    <3> QED BY <3>1, <3>3 DEF Inv
  <2>6. ASSUME NEW p \in Players, NEW o \in Players,
               InviteToNew(p, o) \/ Invite(p, o) \/ Join(p, o) \/ RevokeInvitation(p, o)
        PROVE  Inv'
    BY <2>6, InviteToNewKeeps, InviteKeeps, JoinKeeps, RevokeKeeps
  <2>7. ASSUME NEW p \in Players, NEW o \in Players,
               PassLeadership(p, o) \/ UpdateShared(p) \/ \E b \in BOOLEAN : ShareExperience(p, b)
        PROVE  Inv'
    BY <2>7, SameMembersKeeps
  <2> QED BY <2>1, <2>2, <2>3, <2>4, <2>5, <2>6, <2>7 DEF Next
<1> QED BY <1>1, <1>2, PTL DEF Spec

\* The variables keep their types.
THEOREM TypeCorrect == Spec => []TypeOK
<1>1. Inv => TypeOK
  BY DEF Inv, Consistent, Typed, TypeOK
<1> QED BY <1>1, Invariance, PTL

\* A player points to the one party that lists him, as its leader or as a member.
THEOREM SidesStayAgreed == Spec => []SidesAgree
<1>1. Inv => SidesAgree
  BY DEF Inv, Consistent, Sides, SidesAgree, Alive
<1> QED BY <1>1, Invariance, PTL

\* A logout takes the player out of every party, wherever he was listed.
THEOREM OnlyOnline == Spec => []OnlineOnly
<1>1. Inv => OnlineOnly
  BY DEF Inv, Consistent, Online, OnlineOnly, Alive
<1> QED BY <1>1, Invariance, PTL

\* Every invitation can be found from the player invited.
THEOREM InvitesStayKnown == Spec => []InvitesKnown
<1>1. Inv => InvitesKnown
  BY DEF Inv, Consistent, Known, InvitesKnown, Alive
<1> QED BY <1>1, Invariance, PTL

\* Only a player who invited himself can hold the address of a party that is gone.
THEOREM DanglingNeedsSelfInvite == Spec => []NoDangling
<1>1. Inv => NoDangling
  BY DEF Inv, Consistent, Typed, Exact, NoDangling, Alive
<1> QED BY <1>1, Invariance, PTL

\* A party disbands with the last player its leader could talk to.
THEOREM NeverLonely == Spec => []NoLonelyLeader
<1>1. Inv => NoLonelyLeader
  BY DEF Inv, Consistent, Crowded, Lonely, NoLonelyLeader, Alive
<1> QED BY <1>1, Invariance, PTL

\* An empty party shares no experience.
THEOREM SharingNeedsMembers == Spec => []SharedHasMembers
<1>1. Inv => SharedHasMembers
  BY DEF Inv, Consistent, Sharing, SharedHasMembers, Alive
<1> QED BY <1>1, Invariance, PTL

\* Parties and players agree: for any number of both.
THEOREM PartyCorrect == Spec => []PartySound
  BY TypeCorrect, SidesStayAgreed, OnlyOnline, InvitesStayKnown, DanglingNeedsSelfInvite, PTL
     DEF PartySound

\* A party has somebody in it who matters: for any number of players and parties.
THEOREM PartiesNeeded == Spec => []PartyNeeded
  BY NeverLonely, SharingNeedsMembers, PTL DEF PartyNeeded

-----------------------------------------------------------------------------
(* Loops                                                                   *)

\* Induction, which the library states of operators, is stated here of sets; it follows
\* from the pigeonhole principle: otherwise n |-> n + 1 would take the members of S up to
\* some number to one fewer of them.
LEMMA Induction ==
  ASSUME NEW S, 0 \in S, \A n \in Nat : n \in S => n + 1 \in S
  PROVE  Nat \subseteq S
<1> SUFFICES ASSUME NEW n \in Nat, n \notin S PROVE FALSE
  OBVIOUS
<1> DEFINE A == {i \in 0 .. n : i \in S}
           f == [i \in A |-> i + 1]
<1>1. IsFiniteSet(A) /\ IsFiniteSet(A \ {0}) /\ Cardinality(A \ {0}) < Cardinality(A)
  <2>1. IsFiniteSet(0 .. n)
    BY FS_Interval
  <2>2. A \in SUBSET (0 .. n) /\ 0 \in A
    OBVIOUS
  <2>3. IsFiniteSet(A)
    BY <2>1, <2>2, FS_Subset
  <2>4. Cardinality(A) \in Nat
    BY <2>3, FS_CardinalityType
  <2>5. IsFiniteSet(A \ {0}) /\ Cardinality(A \ {0}) = Cardinality(A) - 1
    BY <2>2, <2>3, FS_RemoveElement
  <2>6. QED
    BY <2>3, <2>4, <2>5
<1>2. f \in [A -> A \ {0}]
  OBVIOUS
<1>3. PICK x, y \in A : x # y /\ f[x] = f[y]
  <2> HIDE DEF A, f
  <2>1. QED
    BY <1>1, <1>2, FS_PigeonHole
<1>4. QED
  BY <1>3

\* The n-th step of a loop, H, leads from Good[n - 1] to Good[n].
Steps(H, N, Good) == \A n \in 1 .. N : \A t \in Good[n - 1] : H[<<t, n>>] \in Good[n]

\* A loop stays where each of its steps stays.
Stays(U, N, Good) ==
  U[0] \in Good[0] /\ \A n \in 1 .. N : U[n - 1] \in Good[n - 1] => U[n] \in Good[n]

LEMMA LoopStays ==
  ASSUME NEW N \in Nat, NEW Good, NEW U, Stays(U, N, Good)
  PROVE  \A n \in 0 .. N : U[n] \in Good[n]
<1> DEFINE S == {n \in Nat : n <= N => U[n] \in Good[n]}
<1>1. 0 \in S
  BY DEF Stays
<1>2. ASSUME NEW n \in Nat, n \in S PROVE n + 1 \in S
  <2>1. CASE n + 1 <= N
    <3>1. n + 1 \in 1 .. N /\ (n + 1) - 1 = n /\ n <= N
      BY <2>1
    <3>2. QED
      BY <1>2, <3>1 DEF Stays
  <2>2. QED
    BY <2>1
<1> HIDE DEF S
<1>3. Nat \subseteq S
  BY <1>1, <1>2, Induction
<1>4. QED
  BY <1>3 DEF S

\* T holds what the loop has after each of its steps, if it starts from s.
Turns(T, H, N, Good, s) ==
  /\ T = [n \in 0 .. N |-> IF n = 0 THEN s ELSE H[<<T[n - 1], n>>]]
  /\ \A n \in 0 .. N : T[n] \in Good[n]

\* Such a loop is defined.
LEMMA LoopExists ==
  ASSUME NEW N \in Nat, NEW Good, NEW s \in Good[0], NEW H, Steps(H, N, Good)
  PROVE  \E T : Turns(T, H, N, Good, s)
<1> DEFINE Is(T, k) == T = [n \in 0 .. k |-> IF n = 0 THEN s ELSE H[<<T[n - 1], n>>]]
           S == {k \in Nat : k <= N =>
                   \E T : Is(T, k) /\ \A n \in 0 .. k : T[n] \in Good[n]}
<1>1. 0 \in S
  <2> DEFINE T == [n \in 0 .. 0 |-> s]
  <2>1. \A n \in 0 .. 0 : n = 0
    OBVIOUS
  <2>2. Is(T, 0) /\ \A n \in 0 .. 0 : T[n] \in Good[n]
    BY <2>1
  <2>3. QED
    BY <2>2
<1>2. ASSUME NEW k \in Nat, k \in S PROVE k + 1 \in S
  <2> SUFFICES ASSUME k + 1 <= N
      PROVE  \E T : Is(T, k + 1) /\ \A n \in 0 .. (k + 1) : T[n] \in Good[n]
    OBVIOUS
  <2>1. PICK T : Is(T, k) /\ \A n \in 0 .. k : T[n] \in Good[n]
    BY <1>2
  <2> DEFINE U == [n \in 0 .. (k + 1) |-> IF n = k + 1 THEN H[<<T[k], n>>] ELSE T[n]]
  <2>2. \A n \in 0 .. (k + 1) : n = k + 1 \/ n \in 0 .. k
    OBVIOUS
  <2>3. \A n \in 0 .. k : U[n] = T[n] /\ n # k + 1 /\ n \in 0 .. (k + 1)
    OBVIOUS
  <2>4. U[k + 1] = H[<<U[k], k + 1>>] /\ (k + 1) - 1 = k /\ k + 1 # 0
    OBVIOUS
  <2>5. \A n \in 0 .. k : U[n] = IF n = 0 THEN s ELSE H[<<U[n - 1], n>>]
    <3> SUFFICES ASSUME NEW n \in 0 .. k
        PROVE  U[n] = IF n = 0 THEN s ELSE H[<<U[n - 1], n>>]
      OBVIOUS
    <3>1. T[n] = IF n = 0 THEN s ELSE H[<<T[n - 1], n>>]
      BY <2>1
    <3>2. n # 0 => n - 1 \in 0 .. k
      OBVIOUS
    <3>3. QED
      BY <2>3, <3>1, <3>2
  <2>6. U[k + 1] \in Good[k + 1]
    <3>1. k + 1 \in 1 .. N /\ T[k] \in Good[(k + 1) - 1]
      BY <2>1
    <3>2. QED
      BY <2>4, <3>1 DEF Steps
  <2>7. Is(U, k + 1)
    <3>1. \A n \in 0 .. (k + 1) : U[n] = IF n = 0 THEN s ELSE H[<<U[n - 1], n>>]
      BY <2>2, <2>4, <2>5
    <3>2. U = [n \in 0 .. (k + 1) |-> U[n]]
      OBVIOUS
    <3> HIDE DEF U
    <3>3. QED
      BY <3>1, <3>2
  <2>8. \A n \in 0 .. (k + 1) : U[n] \in Good[n]
    BY <2>1, <2>2, <2>3, <2>6
  <2> HIDE DEF U, Is
  <2>9. QED
    BY <2>7, <2>8
<1> HIDE DEF S
<1>3. Nat \subseteq S
  BY <1>1, <1>2, Induction
<1>4. N \in S /\ N <= N
  BY <1>3
<1>5. \E T : Is(T, N) /\ \A n \in 0 .. N : T[n] \in Good[n]
  BY <1>4 DEF S
<1>6. QED
  BY <1>5 DEF Turns

-----------------------------------------------------------------------------
(* Items that last for a time: an instance beside the goods                *)

CONSTANTS Items, Interval, Buckets, Durations, DecayTo, MaxEntries, MaxStops
VARIABLES item, last, phase

Ag == INSTANCE Decay

LEMMA Modulo ==
  ASSUME NEW B \in Nat \ {0}, NEW x \in 0 .. 2 * B - 1
  PROVE  x % B = IF x < B THEN x ELSE x - B
OBVIOUS

LEMMA Whole ==
  ASSUME NEW I \in Nat \ {0}, NEW m \in Nat
  PROVE  /\ I * m \in Nat
         /\ (I * m) \div I = m
         /\ (I * m + (I \div 2)) \div I = m
OBVIOUS

LEMMA Parts ==
  ASSUME NEW I \in Nat \ {0}, NEW d \in Nat, d % I = 0
  PROVE  d = I * (d \div I) /\ d \div I \in Nat
OBVIOUS

LEMMA Products ==
  ASSUME NEW I \in Nat \ {0}, NEW m \in Nat, NEW n \in Nat
  PROVE  /\ I * (m + n) = I * m + I * n
         /\ m <= n => I * m <= I * n
         /\ I * m < I * n => m < n
OBVIOUS

Round == Ag!Round
Bucket == Ag!Bucket

LEMMA Sizes ==
  ASSUME Ag!DecayAssumption
  PROVE  /\ Interval \in Nat \ {0} /\ Buckets \in Nat \ {0} /\ Round \in Nat \ {0}
         /\ Round = Interval * Buckets /\ Interval <= Round
         /\ Bucket = 0 .. Buckets - 1
         /\ \A x \in 0 .. 2 * Buckets - 1 : x % Buckets = IF x < Buckets THEN x ELSE x - Buckets
<1>1. Interval \in Nat \ {0} /\ Buckets \in Nat \ {0}
  BY DEF Ag!DecayAssumption
<1>2. Interval * 1 = Interval /\ Interval * 1 <= Interval * Buckets /\ Interval * Buckets \in Nat
  BY <1>1, Products
<1>3. \A x \in 0 .. 2 * Buckets - 1 : x % Buckets = IF x < Buckets THEN x ELSE x - Buckets
  BY <1>1, Modulo
<1>4. QED
  BY <1>1, <1>2, <1>3 DEF Round, Bucket, Ag!Round, Ag!Bucket

\* How many checks lie between the bucket l, visited last, and b, and the time until then.
Between(b, l) == IF b > l THEN b - l - 1 ELSE b - l - 1 + Buckets
Wait(b, l, p) == Interval * Between(b, l) + Interval - p

\* The time that is left to an item when its entry is visited.
Beyond(dur) == IF dur >= Round THEN dur - Round ELSE 0

\* Times are in whole seconds.
Seconds == {Interval * n : n \in Nat}

LEMMA WaitBounds ==
  ASSUME Ag!DecayAssumption, NEW b \in Bucket, NEW l \in Bucket, NEW p \in 0 .. Interval
  PROVE  /\ Wait(b, l, p) \in 0 .. Round
         /\ p < Interval => Wait(b, l, p + 1) = Wait(b, l, p) - 1
<1>1. Between(b, l) \in Nat /\ Between(b, l) + 1 <= Buckets
  BY Sizes DEF Between
<1> DEFINE k == Between(b, l)
           x == Interval * k
<1>2. x \in Nat /\ x + Interval <= Round
  <2>1. k \in Nat /\ k + 1 \in Nat /\ k + 1 <= Buckets
    BY <1>1
  <2> HIDE DEF k
  <2>2. x \in Nat /\ Interval * (k + 1) = x + Interval * 1
    <3>1. Interval \in Nat \ {0} /\ k \in Nat /\ 1 \in Nat
      BY <2>1, Sizes
    <3> HIDE DEF x
    <3>2. Interval * (k + 1) = Interval * k + Interval * 1 /\ Interval * k \in Nat
      BY <3>1, Products
    <3>3. QED
      BY <3>2 DEF x
  <2>3. Interval * (k + 1) <= Interval * Buckets
    BY <2>1, Sizes, Products
  <2>4. QED
    BY <2>2, <2>3, Sizes
<1>3. \A q : Wait(b, l, q) = x + Interval - q
  BY DEF Wait
<1>4. Interval \in Nat /\ Round \in Nat
  BY Sizes
<1> HIDE DEF x
<1>5. QED
  BY <1>2, <1>3, <1>4

\* A check later every bucket is as far away as before it, but for the one that it visited.
LEMMA WaitNext ==
  ASSUME Ag!DecayAssumption, NEW b \in Bucket, NEW l \in Bucket
  PROVE  LET h == (l + 1) % Buckets
         IN  /\ h \in Bucket
             /\ b # h => Wait(b, h, 0) = Wait(b, l, Interval)
             /\ Wait(h, l, Interval) = 0 /\ Wait(h, h, 0) = Round
<1> DEFINE h == (l + 1) % Buckets
<1>1. h = IF l + 1 < Buckets THEN l + 1 ELSE 0
  <2>1. l \in 0 .. Buckets - 1 /\ l + 1 \in 0 .. 2 * Buckets - 1
    BY Sizes
  <2>2. h = IF l + 1 < Buckets THEN l + 1 ELSE l + 1 - Buckets
    BY <2>1, Sizes
  <2>3. QED
    BY <2>1, <2>2, Sizes
<1> HIDE DEF h
<1>2. h \in Bucket
  BY <1>1, Sizes
<1>3. Between(h, l) = 0 /\ Between(h, h) = Buckets - 1
  BY <1>1, Sizes DEF Between
<1>4. Wait(h, l, Interval) = 0 /\ Wait(h, h, 0) = Round
  <2>1. Interval * Buckets = Interval * (Buckets - 1) + Interval * 1
    BY Sizes
  <2>2. QED
    BY <1>3, <2>1, Sizes DEF Wait
<1>5. ASSUME b # h PROVE Wait(b, h, 0) = Wait(b, l, Interval)
  <2>1. Between(b, h) \in Nat /\ Between(b, l) = Between(b, h) + 1
    <3>1. b \in 0 .. Buckets - 1 /\ l \in 0 .. Buckets - 1 /\ Buckets \in Nat
      BY Sizes
    <3>2. QED
      BY <1>1, <1>5, <3>1 DEF Between
  <2>2. Interval * Between(b, l) = Interval * Between(b, h) + Interval * 1
    BY <2>1, Sizes, Products
  <2>3. QED
    BY <2>1, <2>2, Sizes DEF Wait
<1>6. QED
  BY <1>2, <1>4, <1>5 DEF h

\* The bucket an item goes to that has less than a round left comes when its time has passed.
LEMMA WaitNew ==
  ASSUME Ag!DecayAssumption, NEW b \in Bucket, NEW dur \in Seconds, 0 < dur, dur < Round
  PROVE  LET h == Ag!NewBucket(b, dur)
         IN  h \in Bucket /\ h # b /\ Wait(h, b, 0) = dur
<1>1. PICK m \in Nat : dur = Interval * m
  BY DEF Seconds
<1>2. 0 < m /\ m < Buckets
  BY <1>1, Sizes, Products
<1> DEFINE h == Ag!NewBucket(b, dur)
<1>3. h = IF b + m < Buckets THEN b + m ELSE b + m - Buckets
  <2>1. (dur + Interval \div 2) \div Interval = m
    BY <1>1, Sizes, Whole
  <2>2. (b + m) % Buckets = IF b + m < Buckets THEN b + m ELSE b + m - Buckets
    <3>1. b + m \in 0 .. 2 * Buckets - 1
      BY <1>2, Sizes
    <3>2. QED
      BY <3>1, Sizes, SMTT(60)
  <2>3. QED
    BY <2>1, <2>2 DEF Ag!NewBucket
<1> HIDE DEF h
<1>4. h \in Bucket /\ h # b /\ Between(h, b) = m - 1
  BY <1>2, <1>3, Sizes DEF Between
<1>5. Interval * m = Interval * (m - 1) + Interval * 1
  BY <1>2, Sizes
<1>6. QED
  BY <1>1, <1>4, <1>5, Sizes DEF Wait, h

\* The bucket that a new item is put in comes after its time or its first round, up to a
\* check earlier or later.
LEMMA WaitFirst ==
  ASSUME Ag!DecayAssumption, NEW l \in Bucket, NEW p \in 0 .. Interval, NEW dur \in Seconds
  PROVE  LET b == Ag!FirstBucket(dur, l)
         IN  /\ b \in Bucket
             /\ Wait(b, l, p) + Beyond(dur) \in dur - Interval .. dur + Interval
<1>1. PICK m \in Nat : dur = Interval * m
  BY DEF Seconds
<1> DEFINE b == Ag!FirstBucket(dur, l)
<1>2. CASE dur >= Round
  <2>1. b = l
    BY <1>2 DEF Ag!FirstBucket, Round
  <2>2. Between(l, l) = Buckets - 1
    BY Sizes DEF Between
  <2>3. Interval * Buckets = Interval * (Buckets - 1) + Interval * 1
    BY Sizes
  <2>4. Interval * m \in Nat
    BY Sizes, Products
  <2> HIDE DEF b
  <2>5. Wait(b, l, p) = Round - p /\ Beyond(dur) = dur - Round
    BY <1>2, <2>1, <2>2, <2>3, Sizes DEF Wait, Beyond
  <2>6. dur \in Nat
    BY <1>1, <2>4
  <2> HIDE DEF Seconds
  <2>7. QED
    BY <2>1, <2>5, <2>6, Sizes, SMTT(60) DEF b
<1>3. CASE dur < Round
  <2>1. m < Buckets
    BY <1>1, <1>3, Sizes, Products
  <2>2. b = (l + 1 + m) % Buckets
    <3>1. dur \div Interval = m
      BY <1>1, Sizes, Whole
    <3>2. ~(dur >= Round)
      <4>1. dur \in Nat
        BY <1>1, Sizes, Products
      <4>2. QED
        BY <1>3, <4>1, Sizes
    <3>3. QED
      BY <3>1, <3>2 DEF Ag!FirstBucket, Round
  <2>3. b = IF l + 1 + m < Buckets THEN l + 1 + m ELSE l + 1 + m - Buckets
    <3> DEFINE x == l + 1 + m
    <3>1. x \in 0 .. 2 * Buckets - 1
      <4>1. l \in 0 .. Buckets - 1 /\ Buckets \in Nat
        BY Sizes
      <4>2. m \in Nat /\ l + 1 + m = x
        OBVIOUS
      <4> HIDE DEF x
      <4>3. QED
        BY <2>1, <4>1, <4>2
    <3>2. b = x % Buckets
      BY <2>2
    <3> HIDE DEF x, b
    <3>3. b = IF x < Buckets THEN x ELSE x - Buckets
      BY <3>1, <3>2, Sizes
    <3>4. QED
      BY <3>1, <3>3, Sizes DEF x
  <2> HIDE DEF b
  <2>4. b \in Bucket /\ Between(b, l) = m
    <3>1. l \in 0 .. Buckets - 1 /\ Buckets \in Nat
      BY Sizes
    <3>2. b \in 0 .. Buckets - 1 /\ Between(b, l) = m
      BY <2>1, <2>3, <3>1 DEF Between
    <3>3. QED
      BY <3>2, Sizes
  <2>5. Interval * m \in Nat
    BY Sizes, Products
  <2>6. QED
    BY <1>1, <1>3, <2>4, <2>5, Sizes, SMTT(60) DEF Wait, Beyond, b
<1>4. QED
  <2>1. dur \in Nat
    BY <1>1, Sizes, Products
  <2>2. QED
    BY <1>2, <1>3, <2>1, Sizes

-----------------------------------------------------------------------------
(* Sums                                                                    *)

LEMMA SumIs ==
  ASSUME Ag!DecayAssumption, NEW f \in [Bucket -> Nat]
  PROVE  \E S : /\ Ag!Sum(f) = S[Buckets] /\ S[0] = 0
                /\ \A n \in 0 .. Buckets : S[n] \in Nat
                /\ \A n \in 1 .. Buckets : S[n] = S[n - 1] + f[n - 1]
<1> DEFINE N == Buckets
           H == [p \in Nat \X (1 .. N) |-> p[1] + f[p[2] - 1]]
           Good == [n \in 0 .. N |-> Nat]
           Is(T) == T = [n \in 0 .. N |-> IF n = 0 THEN 0 ELSE T[n - 1] + f[n - 1]]
           U == CHOOSE T : Is(T)
<1>1. N \in Nat /\ \A n \in 1 .. N : n \in 0 .. N /\ n - 1 \in 0 .. N /\ n # 0 /\ f[n - 1] \in Nat
  <2>1. N \in Nat /\ \A n \in 1 .. N : n \in 0 .. N /\ n - 1 \in 0 .. N /\ n # 0
    BY Sizes
  <2>2. \A n \in 1 .. N : n - 1 \in Bucket
    BY Sizes
  <2>3. QED
    BY <2>1, <2>2
<1>2. /\ \A t \in Nat : \A n \in 1 .. N : H[<<t, n>>] = t + f[n - 1]
      /\ \A n \in 0 .. N : Good[n] = Nat
  OBVIOUS
<1> HIDE DEF H, N, Good
<1>3. Steps(H, N, Good) /\ 0 \in Good[0]
  BY <1>1, <1>2 DEF Steps
<1>4. \E T : Is(T) /\ \A n \in 0 .. N : T[n] \in Nat
  <2>1. PICK T : /\ T = [n \in 0 .. N |-> IF n = 0 THEN 0 ELSE H[<<T[n - 1], n>>]]
                 /\ \A n \in 0 .. N : T[n] \in Good[n]
    <3> HIDE DEF Is, U
    <3>1. N \in Nat
      BY <1>1
    <3>2. \E T : Turns(T, H, N, Good, 0)
      BY <1>3, <3>1, LoopExists
    <3>3. QED
      BY <3>2 DEF Turns
  <2>2. \A n \in 0 .. N : T[n] \in Nat
    BY <1>2, <2>1
  <2>3. \A n \in 0 .. N : n # 0 => H[<<T[n - 1], n>>] = T[n - 1] + f[n - 1]
    <3> SUFFICES ASSUME NEW n \in 0 .. N, n # 0 PROVE H[<<T[n - 1], n>>] = T[n - 1] + f[n - 1]
      OBVIOUS
    <3>1. n \in 1 .. N /\ n - 1 \in 0 .. N
      BY <1>1
    <3>2. T[n - 1] \in Nat
      BY <2>2, <3>1
    <3>3. QED
      BY <1>2, <3>1, <3>2
  <2>4. \A n \in 0 .. N : (IF n = 0 THEN 0 ELSE H[<<T[n - 1], n>>])
                            = (IF n = 0 THEN 0 ELSE T[n - 1] + f[n - 1])
    BY <2>3
  <2>5. [n \in 0 .. N |-> IF n = 0 THEN 0 ELSE H[<<T[n - 1], n>>]]
          = [n \in 0 .. N |-> IF n = 0 THEN 0 ELSE T[n - 1] + f[n - 1]]
    BY <2>4
  <2>6. Is(T)
    BY <2>1, <2>5
  <2>7. QED
    BY <2>2, <2>6
<1>5. Is(U)
  BY <1>4
<1>6. \A n \in 0 .. N : U[n] = IF n = 0 THEN 0 ELSE U[n - 1] + f[n - 1]
  <2> HIDE DEF U
  <2>1. QED
    BY <1>5
<1>7. Ag!Sum(f) = U[N]
  BY DEF Ag!Sum, N
<1> HIDE DEF Is, U
<1>8. U[0] = 0 /\ \A n \in 1 .. N : U[n] = U[n - 1] + f[n - 1]
  BY <1>1, <1>6
<1>9. \A n \in 0 .. N : U[n] \in Nat
  <2>1. Stays(U, N, Good)
    BY <1>1, <1>2, <1>8 DEF Stays
  <2>2. QED
    BY <1>1, <1>2, <2>1, LoopStays
<1>10. QED
  BY <1>7, <1>8, <1>9 DEF N

\* One bucket has others entries than before.
LEMMA SumAt ==
  ASSUME Ag!DecayAssumption, NEW f \in [Bucket -> Nat], NEW b \in Bucket, NEW v \in Nat
  PROVE  /\ Ag!Sum(f) \in Nat /\ f[b] <= Ag!Sum(f)
         /\ Ag!Sum([f EXCEPT ![b] = v]) = Ag!Sum(f) - f[b] + v
<1>1. ASSUME NEW w \in Nat PROVE Ag!Sum([f EXCEPT ![b] = w]) = Ag!Sum(f) - f[b] + w
  <2> DEFINE g == [f EXCEPT ![b] = w]
  <2>1. g \in [Bucket -> Nat] /\ g[b] = w /\ \A a \in Bucket : a # b => g[a] = f[a]
    OBVIOUS
  <2> HIDE DEF g
  <2>2. PICK S : /\ Ag!Sum(f) = S[Buckets] /\ S[0] = 0 /\ \A n \in 0 .. Buckets : S[n] \in Nat
                 /\ \A n \in 1 .. Buckets : S[n] = S[n - 1] + f[n - 1]
    BY SumIs
  <2>3. PICK T : /\ Ag!Sum(g) = T[Buckets] /\ T[0] = 0 /\ \A n \in 0 .. Buckets : T[n] \in Nat
                 /\ \A n \in 1 .. Buckets : T[n] = T[n - 1] + g[n - 1]
    BY <2>1, SumIs
  <2> DEFINE Same == {n \in Nat : n <= Buckets => T[n] = S[n] + (IF n > b THEN w - f[b] ELSE 0)}
  <2>4. 0 \in Same
    BY <2>2, <2>3, Sizes
  <2>5. ASSUME NEW n \in Nat, n \in Same PROVE n + 1 \in Same
    <3> SUFFICES ASSUME n + 1 <= Buckets
        PROVE  T[n + 1] = S[n + 1] + (IF n + 1 > b THEN w - f[b] ELSE 0)
      OBVIOUS
    <3>1. n + 1 \in 1 .. Buckets /\ (n + 1) - 1 = n /\ n \in Bucket /\ b \in Nat /\ n \in 0 .. Buckets
      BY Sizes
    <3>2. S[n + 1] = S[n] + f[n] /\ T[n + 1] = T[n] + g[n]
      BY <2>2, <2>3, <3>1
    <3>3. S[n] \in Nat /\ T[n] = S[n] + (IF n > b THEN w - f[b] ELSE 0)
      BY <2>2, <2>5, <3>1
    <3>4. f[n] \in Nat /\ f[b] \in Nat /\ g[n] = (IF n = b THEN w ELSE f[n])
      BY <2>1, <3>1
    <3>5. QED
      BY <3>1, <3>2, <3>3, <3>4
  <2> HIDE DEF Same
  <2>6. Nat \subseteq Same
    BY <2>4, <2>5, Induction
  <2>7. T[Buckets] = S[Buckets] + (w - f[b])
    <3>1. Buckets \in Nat /\ Buckets <= Buckets /\ Buckets > b
      BY Sizes
    <3>2. QED
      BY <2>6, <3>1 DEF Same
  <2>8. S[Buckets] \in Nat /\ f[b] \in Nat
    BY <2>2, Sizes
  <2>9. QED
    BY <2>2, <2>3, <2>7, <2>8 DEF g
<1>2. Ag!Sum(f) \in Nat /\ Ag!Sum([f EXCEPT ![b] = 0]) \in Nat
  <2>1. ASSUME NEW h \in [Bucket -> Nat] PROVE Ag!Sum(h) \in Nat
    BY SumIs, Sizes
  <2>2. [f EXCEPT ![b] = 0] \in [Bucket -> Nat]
    OBVIOUS
  <2>3. QED
    BY <2>1, <2>2
<1>3. f[b] \in Nat
  OBVIOUS
<1>4. f[b] <= Ag!Sum(f)
  <2>1. Ag!Sum([f EXCEPT ![b] = 0]) = Ag!Sum(f) - f[b] + 0
    BY <1>1
  <2>2. QED
    BY <1>2, <1>3, <2>1
<1>5. QED
  BY <1>1, <1>2, <1>4

LEMMA SumNone ==
  ASSUME Ag!DecayAssumption, NEW f \in [Bucket -> Nat], \A b \in Bucket : f[b] = 0
  PROVE  Ag!Sum(f) = 0
<1>1. PICK S : /\ Ag!Sum(f) = S[Buckets] /\ S[0] = 0 /\ \A n \in 0 .. Buckets : S[n] \in Nat
               /\ \A n \in 1 .. Buckets : S[n] = S[n - 1] + f[n - 1]
  BY SumIs
<1> DEFINE Zero == {n \in Nat : n <= Buckets => S[n] = 0}
<1>2. 0 \in Zero
  BY <1>1
<1>3. ASSUME NEW n \in Nat, n \in Zero PROVE n + 1 \in Zero
  <2> SUFFICES ASSUME n + 1 <= Buckets PROVE S[n + 1] = 0
    OBVIOUS
  <2>1. n + 1 \in 1 .. Buckets /\ (n + 1) - 1 = n /\ n \in Bucket
    BY Sizes
  <2>2. S[n] = 0 /\ f[n] = 0
    BY <1>3, <2>1, Sizes
  <2>3. QED
    BY <1>1, <2>1, <2>2
<1> HIDE DEF Zero
<1>4. Nat \subseteq Zero
  BY <1>2, <1>3, Induction
<1>5. QED
  BY <1>1, <1>4, Sizes DEF Zero

-----------------------------------------------------------------------------
(* Items                                                                   *)

LEMMA SecondsAre ==
  ASSUME Ag!DecayAssumption
  PROVE  /\ Seconds \subseteq Nat /\ 0 \in Seconds
         /\ Durations \subseteq Seconds /\ \A d \in Durations : d > 0
         /\ \A d \in Seconds : d >= Round => d - Round \in Seconds
<1>1. Seconds \subseteq Nat
  BY Sizes, Products DEF Seconds
<1>2. 0 \in Seconds
  BY Sizes DEF Seconds
<1>3. ASSUME NEW d \in Durations PROVE d \in Seconds /\ d > 0
  <2>1. d \in Nat /\ d > 0 /\ d % Interval = 0 /\ Interval \in Nat \ {0}
    BY DEF Ag!DecayAssumption
  <2>2. d = Interval * (d \div Interval) /\ d \div Interval \in Nat
    BY <2>1, Parts
  <2>3. QED
    BY <2>1, <2>2 DEF Seconds
<1>4. ASSUME NEW d \in Seconds, d >= Round PROVE d - Round \in Seconds
  <2>1. PICK n \in Nat : d = Interval * n
    BY DEF Seconds
  <2>2. Interval * Buckets <= Interval * n
    BY <1>4, <2>1, Sizes
  <2>3. Buckets <= n
    <3>1. Interval * n < Interval * Buckets => n < Buckets
      BY Sizes, Products
    <3>2. Interval * n < Interval * (n + 1) /\ n + 1 \in Nat
      BY Sizes
    <3>3. n < Buckets => Interval * (n + 1) <= Interval * Buckets
      BY <3>2, Sizes, Products
    <3>4. Interval * n \in Nat /\ Interval * (n + 1) \in Nat /\ Interval * Buckets \in Nat
      BY <3>2, Sizes, Products
    <3>5. QED
      BY <2>2, <3>2, <3>3, <3>4, Sizes
  <2>4. n - Buckets \in Nat /\ Interval * (Buckets + (n - Buckets)) = Interval * Buckets + Interval * (n - Buckets)
    <3>1. n - Buckets \in Nat
      BY <2>3, Sizes
    <3>2. QED
      BY <3>1, Sizes, Products
  <2>5. Buckets + (n - Buckets) = n
    BY Sizes
  <2>6. Interval * (n - Buckets) \in Nat
    BY <2>4, Sizes, Products
  <2>7. d - Round = Interval * (n - Buckets)
    BY <2>1, <2>4, <2>5, <2>6, Sizes
  <2>8. QED
    BY <2>4, <2>7 DEF Seconds
<1>5. QED
  BY <1>1, <1>2, <1>3, <1>4

Rec ==
  [kind : {"gone", "worn", "kept"}, dur : Seconds, decaying : BOOLEAN,
   fresh : Nat, entries : [Bucket -> Nat], uses : Int, toFree : Nat,
   full : Durations \cup {0}, spent : Nat, stops : 0 .. MaxStops,
   again : BOOLEAN, early : Int]

Entries(r) == Ag!Entries(r)

LEMMA EntriesOf ==
  ASSUME Ag!DecayAssumption, NEW r \in Rec
  PROVE  /\ Entries(r) \in Nat /\ r.fresh <= Entries(r) /\ Entries(r) = r.fresh + Ag!Sum(r.entries)
         /\ \A b \in Bucket : r.entries[b] \in Nat /\ r.fresh + r.entries[b] <= Entries(r)
<1>1. r.fresh \in Nat /\ r.entries \in [Bucket -> Nat]
  BY DEF Rec
<1>2. /\ Ag!Sum(r.entries) \in Nat
      /\ \A b \in Bucket : r.entries[b] \in Nat /\ r.entries[b] <= Ag!Sum(r.entries)
  <2>1. 0 \in Bucket
    BY Sizes
  <2>2. QED
    BY <1>1, <2>1, SumAt
<1>3. QED
  BY <1>1, <1>2 DEF Entries, Ag!Entries

\* Whoever has one entry has it in one place.
LEMMA OnePlace ==
  ASSUME Ag!DecayAssumption, NEW r \in Rec, Entries(r) <= 1
  PROVE  /\ \A b \in Bucket : r.entries[b] >= 1 => 
              r.fresh = 0 /\ r.entries[b] = 1 /\ \A a \in Bucket : a # b => r.entries[a] = 0
         /\ r.fresh = 0 /\ Entries(r) = 1 => \E b \in Bucket : r.entries[b] >= 1
<1>1. ASSUME NEW b \in Bucket, r.entries[b] >= 1
      PROVE  r.fresh = 0 /\ r.entries[b] = 1 /\ \A a \in Bucket : a # b => r.entries[a] = 0
  <2>1. /\ r.fresh \in Nat /\ r.entries[b] \in Nat /\ r.fresh + r.entries[b] <= Entries(r)
        /\ Entries(r) = r.fresh + Ag!Sum(r.entries) /\ Ag!Sum(r.entries) \in Nat
    <3>1. r.fresh \in Nat /\ r.entries \in [Bucket -> Nat]
      BY DEF Rec
    <3>2. QED
      BY <3>1, EntriesOf, SumAt
  <2>2. r.fresh = 0 /\ r.entries[b] = 1
    BY <1>1, <2>1, EntriesOf
  <2>3. ASSUME NEW a \in Bucket, a # b PROVE r.entries[a] = 0
    <3> DEFINE g == [r.entries EXCEPT ![b] = 0]
    <3>1. g \in [Bucket -> Nat] /\ g[a] = r.entries[a] /\ r.entries \in [Bucket -> Nat]
      BY <2>3 DEF Rec
    <3>2. Ag!Sum(g) = Ag!Sum(r.entries) - r.entries[b] + 0
      BY <3>1, SumAt
    <3> HIDE DEF g
    <3>3. g[a] <= Ag!Sum(g) /\ g[a] \in Nat /\ Ag!Sum(g) \in Nat
      BY <3>1, SumAt
    <3>4. QED
      BY <2>1, <2>2, <3>1, <3>2, <3>3
  <2>4. QED
    BY <2>2, <2>3
<1>2. ASSUME r.fresh = 0, Entries(r) = 1, \A b \in Bucket : ~(r.entries[b] >= 1) PROVE FALSE
  <2>1. r.entries \in [Bucket -> Nat] /\ \A b \in Bucket : r.entries[b] = 0
    BY <1>2, EntriesOf DEF Rec
  <2>2. Ag!Sum(r.entries) = 0
    BY <2>1, SumNone
  <2>3. QED
    BY <1>2, <2>2, EntriesOf
<1>3. QED
  BY <1>1, <1>2

\* What an item owes: k references more than places know of it.
Owes(r, k) ==
  r.uses = Entries(r) + r.toFree + k + (IF r.kind = "gone" THEN 0 ELSE 1)

Fine(r) == r.kind # "gone" /\ ~r.again

Sure(r) ==
  /\ r \in Rec /\ r.early <= Interval /\ Entries(r) <= MaxEntries
  /\ r.kind = "worn" => r.decaying
  /\ r.kind = "kept" /\ ~r.decaying => Entries(r) < MaxEntries
  /\ r.kind # "gone" => r.full \in Durations
  /\ Fine(r) => Entries(r) = IF r.decaying THEN 1 ELSE 0

\* The least and the most that an item is worn.
Least(r) == r.full - Interval - (Round + Interval) * r.stops
Most(r) == r.full + Interval * (1 + r.stops)

\* The time that an item was worn and that it has left lie between them, whatever happens
\* to it: without an entry, with a new one, with one in a bucket.
Rests(r) == Least(r) + Interval <= r.spent + r.dur /\ r.spent + r.dur <= Most(r) - Interval
Waits(r) ==
  IF r.kind = "worn" THEN Rests(r)
  ELSE /\ Least(r) + Round + 2 * Interval <= r.spent + r.dur
       /\ r.spent + r.dur <= Most(r) - 2 * Interval
Stands(r, w) ==
  IF r.kind = "worn"
  THEN Least(r) <= r.spent + w + Beyond(r.dur) /\ r.spent + w + Beyond(r.dur) <= Most(r)
  ELSE /\ Least(r) + Interval <= r.spent + Beyond(r.dur)
       /\ r.spent + w + Beyond(r.dur) <= Most(r) - Interval
InTime(r, l, p) ==
  /\ ~r.decaying => Rests(r)
  /\ r.fresh > 0 => Waits(r)
  /\ \A b \in Bucket : r.entries[b] > 0 => Stands(r, Wait(b, l, p))

Ages(r, l, p) == Sure(r) /\ Owes(r, 0) /\ (Fine(r) => InTime(r, l, p))

-----------------------------------------------------------------------------
(* What the game makes of one item                                         *)

LEMMA RenewedIs ==
  ASSUME Ag!DecayAssumption, NEW r \in Rec, NEW d \in Durations
  PROVE  LET s == Ag!Renewed(r, d)
         IN  /\ s \in Rec /\ s.kind = "worn" /\ s.dur = d /\ ~s.decaying
             /\ s.fresh = r.fresh /\ s.entries = r.entries /\ s.uses = r.uses /\ s.toFree = r.toFree
             /\ s.full = d /\ s.spent = 0 /\ s.stops = 0 /\ s.early = r.early
             /\ (s.again <=> Entries(r) > 0) /\ Entries(s) = Entries(r) /\ d > 0
<1> DEFINE s == Ag!Renewed(r, d)
<1>1. s.again = (Entries(r) > 0)
  BY Zenon DEF Ag!Renewed, Entries, Rec
<1>2. (Entries(r) > 0) \in BOOLEAN
  OBVIOUS
<1>3. d \in Seconds /\ d > 0 /\ 0 \in 0 .. MaxStops
  BY SecondsAre DEF Ag!DecayAssumption
<1>4. /\ s.kind = "worn" /\ s.dur = d /\ s.decaying = FALSE
      /\ s.fresh = r.fresh /\ s.entries = r.entries /\ s.uses = r.uses /\ s.toFree = r.toFree
      /\ s.full = d /\ s.spent = 0 /\ s.stops = 0 /\ s.early = r.early
  BY DEF Ag!Renewed, Rec
<1>5. s \in Rec
  <2> DEFINE a == Entries(r) > 0
  <2>1. a \in BOOLEAN
    OBVIOUS
  <2>2. s = [r EXCEPT !.kind = "worn", !.dur = d, !.decaying = FALSE,
                      !.full = d, !.spent = 0, !.stops = 0, !.again = a]
    BY DEF Ag!Renewed, Entries
  <2> HIDE DEF s, a
  <2>3. QED
    BY <1>3, <2>1, <2>2 DEF Rec
<1>6. Entries(s) = Entries(r)
  BY <1>4 DEF Entries, Ag!Entries
<1>7. QED
  BY <1>1, <1>2, <1>3, <1>4, <1>5, <1>6

LEMMA EnterIs ==
  ASSUME Ag!DecayAssumption, NEW r \in Rec
  PROVE  LET s == Ag!Enter(r)
         IN  /\ s \in Rec /\ s.kind = r.kind /\ s.dur = r.dur /\ s.decaying
             /\ s.fresh = r.fresh + 1 /\ s.entries = r.entries /\ s.uses = r.uses + 1
             /\ s.toFree = r.toFree /\ s.full = r.full /\ s.spent = r.spent /\ s.stops = r.stops
             /\ s.early = r.early /\ (s.again <=> r.again) /\ Entries(s) = Entries(r) + 1
<1> DEFINE s == Ag!Enter(r)
<1>1. s \in Rec
  <2>1. r.uses + 1 \in Int /\ r.fresh + 1 \in Nat
    BY DEF Rec
  <2>2. QED
    BY <2>1 DEF Ag!Enter, Rec
<1>2. /\ s.kind = r.kind /\ s.dur = r.dur /\ s.decaying = TRUE
      /\ s.fresh = r.fresh + 1 /\ s.entries = r.entries /\ s.uses = r.uses + 1
      /\ s.toFree = r.toFree /\ s.full = r.full /\ s.spent = r.spent /\ s.stops = r.stops
      /\ s.early = r.early /\ s.again = r.again
  BY DEF Ag!Enter, Rec
<1>3. Entries(s) = Entries(r) + 1
  <2>1. Entries(r) = r.fresh + Ag!Sum(r.entries) /\ Ag!Sum(r.entries) \in Int /\ r.fresh \in Nat
    <3>1. r.entries \in [Bucket -> Nat] /\ 0 \in Bucket /\ r.fresh \in Nat
      BY Sizes DEF Rec
    <3>2. QED
      BY <3>1, SumAt DEF Entries, Ag!Entries
  <2>2. Entries(s) = s.fresh + Ag!Sum(s.entries)
    BY DEF Entries, Ag!Entries
  <2> HIDE DEF s
  <2>3. QED
    BY <1>2, <2>1, <2>2
<1>4. QED
  BY <1>1, <1>2, <1>3
LEMMA FreedIs ==
  ASSUME Ag!DecayAssumption, NEW r \in Rec
  PROVE  LET s == Ag!Free(r)
         IN  /\ s \in Rec /\ s.kind = r.kind /\ s.dur = r.dur /\ (s.decaying <=> r.decaying)
             /\ s.fresh = r.fresh /\ s.entries = r.entries /\ s.uses = r.uses
             /\ s.toFree = r.toFree + 1 /\ s.full = r.full /\ s.spent = r.spent
             /\ s.stops = r.stops /\ s.early = r.early /\ (s.again <=> r.again)
             /\ Entries(s) = Entries(r)
<1> DEFINE s == Ag!Free(r)
<1>1. s \in Rec
  <2>1. r.toFree + 1 \in Nat
    BY DEF Rec
  <2>2. QED
    BY <2>1 DEF Ag!Free, Rec
<1>2. /\ s.kind = r.kind /\ s.dur = r.dur /\ s.decaying = r.decaying
      /\ s.fresh = r.fresh /\ s.entries = r.entries /\ s.uses = r.uses
      /\ s.toFree = r.toFree + 1 /\ s.full = r.full /\ s.spent = r.spent
      /\ s.stops = r.stops /\ s.early = r.early /\ s.again = r.again
  BY DEF Ag!Free, Rec
<1>3. Entries(s) = Entries(r)
  BY <1>2 DEF Entries, Ag!Entries
<1>4. QED
  BY <1>1, <1>2, <1>3

LEMMA RemovedIs ==
  ASSUME Ag!DecayAssumption, NEW r \in Rec
  PROVE  LET s == Ag!Removed(r)
         IN  /\ s \in Rec /\ s.kind = "gone" /\ (s.decaying <=> r.decaying)
             /\ s.entries = r.entries /\ s.uses = r.uses
             /\ s.toFree = r.toFree + 1 /\ s.early = r.early
             /\ Entries(s) = Entries(r)
<1> DEFINE g == [r EXCEPT !.kind = "gone"]
<1>1. /\ g \in Rec /\ g.kind = "gone" /\ g.decaying = r.decaying /\ g.fresh = r.fresh
      /\ g.entries = r.entries /\ g.uses = r.uses /\ g.toFree = r.toFree /\ g.early = r.early
  BY DEF Rec
<1>2. Entries(g) = Entries(r)
  BY <1>1 DEF Entries, Ag!Entries
<1>3. Ag!Removed(r) = Ag!Free(g)
  BY DEF Ag!Removed
<1> HIDE DEF g
<1>4. QED
  BY <1>1, <1>2, <1>3, FreedIs

\* One entry less in bucket b.
LEMMA OutIs ==
  ASSUME Ag!DecayAssumption, NEW r \in Rec, NEW b \in Bucket, r.entries[b] >= 1, NEW d \in Seconds
  PROVE  LET s == Ag!Out([r EXCEPT !.dur = d], b)
         IN  /\ s \in Rec /\ s.kind = r.kind /\ s.dur = d /\ (s.decaying <=> r.decaying)
             /\ s.fresh = r.fresh /\ s.uses = r.uses
             /\ s.entries[b] = r.entries[b] - 1
             /\ \A a \in Bucket : a # b => s.entries[a] = r.entries[a]
             /\ s.toFree = r.toFree /\ s.full = r.full /\ s.spent = r.spent
             /\ s.stops = r.stops /\ s.early = r.early /\ (s.again <=> r.again)
             /\ Entries(s) = Entries(r) - 1
<1> DEFINE q == [r EXCEPT !.dur = d]
           s == Ag!Out(q, b)
           e == [r.entries EXCEPT ![b] = @ - 1]
<1>1. r.entries \in [Bucket -> Nat] /\ r.entries[b] - 1 \in Nat
  BY DEF Rec
<1>2. e \in [Bucket -> Nat] /\ e[b] = r.entries[b] - 1 /\ \A a \in Bucket : a # b => e[a] = r.entries[a]
  BY <1>1
<1>3. Ag!Sum(e) = Ag!Sum(r.entries) - r.entries[b] + (r.entries[b] - 1)
  BY <1>1, SumAt
<1> HIDE DEF e
<1>4. /\ q \in Rec /\ q.kind = r.kind /\ q.dur = d /\ q.decaying = r.decaying
      /\ q.fresh = r.fresh /\ q.uses = r.uses /\ q.entries = r.entries
      /\ q.toFree = r.toFree /\ q.full = r.full /\ q.spent = r.spent
      /\ q.stops = r.stops /\ q.early = r.early /\ q.again = r.again
  BY DEF Rec
<1> HIDE DEF q
<1>5. s = [q EXCEPT !.entries = e]
  BY <1>4 DEF Ag!Out, e, Rec
<1> HIDE DEF s
<1>6. /\ s \in Rec /\ s.kind = r.kind /\ s.dur = d /\ s.decaying = r.decaying
      /\ s.fresh = r.fresh /\ s.uses = r.uses /\ s.entries = e
      /\ s.toFree = r.toFree /\ s.full = r.full /\ s.spent = r.spent
      /\ s.stops = r.stops /\ s.early = r.early /\ s.again = r.again
  BY <1>2, <1>4, <1>5 DEF Rec
<1>7. Entries(s) = Entries(r) - 1
  <2>1. Entries(r) = r.fresh + Ag!Sum(r.entries) /\ r.fresh \in Nat
    BY EntriesOf DEF Rec
  <2>2. Entries(s) = r.fresh + Ag!Sum(e)
    BY <1>6 DEF Entries, Ag!Entries
  <2>3. Ag!Sum(r.entries) \in Int /\ r.entries[b] \in Int
    BY <1>1, SumAt
  <2>4. QED
    BY <1>3, <2>1, <2>2, <2>3
<1>8. QED
  BY <1>2, <1>6, <1>7 DEF s, q

LEMMA Times ==
  ASSUME Ag!DecayAssumption, NEW r \in Rec
  PROVE  /\ r.dur \in Nat /\ r.dur \in Seconds /\ r.spent \in Nat /\ r.full \in Nat /\ r.stops \in Nat
         /\ Least(r) \in Int /\ Most(r) \in Int
         /\ r.stops = 0 => Least(r) = r.full - Interval /\ Most(r) = r.full + Interval
         /\ Beyond(r.dur) \in Seconds /\ Beyond(r.dur) \in Nat /\ r.dur - Round <= Beyond(r.dur)
<1>1. r.dur \in Seconds /\ r.spent \in Nat /\ r.stops \in Nat /\ r.full \in Durations \cup {0}
  BY DEF Rec, Ag!DecayAssumption
<1>2. r.dur \in Nat /\ r.full \in Nat
  BY <1>1, SecondsAre DEF Ag!DecayAssumption
<1> DEFINE n == r.stops
           x == (Round + Interval) * n
           y == Interval * (1 + n)
<1>3. x \in Nat /\ y \in Nat /\ (n = 0 => x = 0 /\ y = Interval)
  <2>1. Round + Interval \in Nat \ {0} /\ Interval \in Nat \ {0} /\ n \in Nat /\ 1 + n \in Nat
    BY <1>1, Sizes
  <2> HIDE DEF n
  <2>2. x \in Nat /\ y \in Nat
    BY <2>1, Whole
  <2>3. n = 0 => x = 0 /\ y = Interval
    BY <2>1
  <2>4. QED
    BY <2>2, <2>3
<1>4. Least(r) = r.full - Interval - x /\ Most(r) = r.full + y
  BY DEF Least, Most
<1> HIDE DEF x, y
<1>5. Beyond(r.dur) \in Seconds /\ Beyond(r.dur) \in Nat /\ r.dur - Round <= Beyond(r.dur)
  BY <1>1, <1>2, SecondsAre, Sizes DEF Beyond
<1>6. Interval \in Nat
  BY Sizes
<1> DEFINE f == r.full
           least == Least(r)
           most == Most(r)
<1> HIDE DEF f, least, most, n
<1>7. /\ least \in Int /\ most \in Int
      /\ n = 0 => least = f - Interval /\ most = f + Interval
  BY <1>2, <1>3, <1>4, <1>6 DEF f, least, most
<1>8. QED
  BY <1>1, <1>2, <1>5, <1>7 DEF f, least, most, n

\* What was just made starts in time.
LEMMA FreshInTime ==
  ASSUME Ag!DecayAssumption, NEW s \in Rec, Entries(s) = 1, s.fresh = 1, s.kind = "worn",
         s.decaying, Rests(s), NEW l, NEW p
  PROVE  InTime(s, l, p)
<1>1. ASSUME NEW b \in Bucket PROVE ~(s.entries[b] > 0)
  BY OnePlace, EntriesOf
<1>2. QED
  BY <1>1 DEF InTime, Waits

\* An item that decays has lasted its time, and what it becomes starts anew.
LEMMA DecayedIs ==
  ASSUME Ag!DecayAssumption, NEW r \in Rec, NEW k \in Nat, NEW to \in DecayTo,
         r.kind = "worn", r.full \in Durations, Entries(r) < MaxEntries, Owes(r, k),
         ~r.again => Entries(r) = 0 /\ Least(r) <= r.spent
  PROVE  LET s == Ag!Decayed(r, to)
         IN  /\ Sure(s) /\ Owes(s, k) /\ s.entries = r.entries
             /\ Fine(s) => Entries(r) = 0 /\ \A l, p : InTime(s, l, p)
<1> DEFINE e == IF r.again THEN 0 ELSE r.full - r.spent - (Round + Interval) * r.stops
           q == [r EXCEPT !.early = e]
           s == Ag!Decayed(r, to)
<1>1. e \in Int /\ e <= Interval
  <2>1. CASE r.again
    BY <2>1, Sizes
  <2>2. CASE ~r.again
    <3>1. e = Least(r) + Interval - r.spent /\ Least(r) <= r.spent
      <4> DEFINE x == (Round + Interval) * r.stops
      <4>1. x \in Nat
        <5>1. Round + Interval \in Nat \ {0} /\ r.stops \in Nat
          BY Sizes, Times
        <5>2. QED
          BY <5>1, Whole
      <4>2. e = r.full - r.spent - x /\ Least(r) = r.full - Interval - x
        BY <2>2 DEF Least
      <4> HIDE DEF x, e
      <4>3. Least(r) <= r.spent
        BY <2>2
      <4>4. r.full \in Nat /\ r.spent \in Nat /\ Interval \in Nat
        BY Times, Sizes
      <4> DEFINE f == r.full
                 n == r.spent
      <4> HIDE DEF f, n
      <4>5. f - n - x = (f - Interval - x) + Interval - n
        BY <4>1, <4>4 DEF f, n
      <4>6. e = Least(r) + Interval - r.spent
        BY <4>2, <4>5 DEF f, n
      <4>7. QED
        BY <4>3, <4>6 DEF e
    <3>2. Least(r) \in Int /\ r.spent \in Nat /\ Interval \in Nat
      BY Times, Sizes
    <3> HIDE DEF e
    <3>3. QED
      BY <3>1, <3>2
  <2>3. QED
    BY <2>1, <2>2 DEF Rec
<1> HIDE DEF e
<1>2. /\ q \in Rec /\ q.kind = "worn" /\ q.uses = r.uses /\ q.toFree = r.toFree
      /\ q.fresh = r.fresh /\ q.entries = r.entries /\ q.early = e /\ q.full = r.full
  BY <1>1 DEF Rec
<1>3. Entries(q) = Entries(r) /\ Entries(r) \in Nat
  BY <1>2, EntriesOf DEF Entries, Ag!Entries
<1>4. s = IF to = "worn" THEN Ag!Enter(Ag!Renewed(q, q.full)) ELSE Ag!Removed(q)
  BY DEF Ag!Decayed, e, Round
<1> HIDE DEF q, s
<1>5. CASE to = "worn"
  <2> DEFINE a == Ag!Renewed(q, q.full)
  <2>1. /\ a \in Rec /\ a.kind = "worn" /\ a.dur = r.full /\ ~a.decaying
        /\ a.fresh = r.fresh /\ a.entries = r.entries /\ a.uses = r.uses /\ a.toFree = r.toFree
        /\ a.full = r.full /\ a.spent = 0 /\ a.stops = 0 /\ a.early = e
        /\ (a.again <=> Entries(r) > 0) /\ Entries(a) = Entries(r)
    BY <1>2, <1>3, RenewedIs
  <2> HIDE DEF a
  <2>2. s = Ag!Enter(a)
    BY <1>4, <1>5 DEF a
  <2>3. /\ s \in Rec /\ s.kind = "worn" /\ s.dur = r.full /\ s.decaying
        /\ s.fresh = r.fresh + 1 /\ s.entries = r.entries /\ s.uses = r.uses + 1
        /\ s.toFree = r.toFree /\ s.full = r.full /\ s.spent = 0 /\ s.stops = 0
        /\ s.early = e /\ (s.again <=> Entries(r) > 0) /\ Entries(s) = Entries(r) + 1
    BY <2>1, <2>2, EnterIs
  <2>4. Fine(s) => Entries(r) = 0
    BY <1>3, <2>3 DEF Fine
  <2>5. Sure(s)
    <3>1. MaxEntries \in Nat
      BY DEF Ag!DecayAssumption
    <3>2. QED
      BY <1>1, <1>3, <2>3, <2>4, <3>1 DEF Sure
  <2>6. Owes(s, k)
    <3>1. r.uses \in Int /\ r.toFree \in Int
      BY DEF Rec
    <3>2. QED
      BY <1>3, <2>3, <3>1 DEF Owes
  <2>7. ASSUME Fine(s) PROVE \A l, p : InTime(s, l, p)
    <3>1. r.fresh = 0 /\ Entries(r) = 0
      BY <2>4, <2>7, EntriesOf DEF Rec
    <3>2. Rests(s)
      <4>1. s.full \in Nat /\ Least(s) = s.full - Interval /\ Most(s) = s.full + Interval
        BY <2>3, Times
      <4>2. QED
        BY <2>3, <4>1, Sizes DEF Rests
    <3>3. s.fresh = 1 /\ Entries(s) = 1
      BY <2>3, <3>1
    <3>4. QED
      BY <2>3, <3>2, <3>3, FreshInTime
  <2>8. QED
    BY <2>3, <2>4, <2>5, <2>6, <2>7 DEF s
<1>6. CASE to # "worn"
  <2>1. /\ s \in Rec /\ s.kind = "gone" /\ s.entries = r.entries /\ s.uses = r.uses
        /\ s.toFree = r.toFree + 1 /\ s.early = e /\ Entries(s) = Entries(r)
    BY <1>2, <1>3, <1>4, <1>6, RemovedIs
  <2>2. Sure(s) /\ ~Fine(s)
    <3>1. MaxEntries \in Nat
      BY DEF Ag!DecayAssumption
    <3>2. QED
      BY <1>1, <1>3, <2>1, <3>1 DEF Sure, Fine
  <2>3. Owes(s, k)
    <3>1. r.uses \in Int /\ r.toFree \in Int
      BY DEF Rec
    <3>2. QED
      BY <1>3, <2>1, <3>1 DEF Owes
  <2>4. QED
    BY <2>1, <2>2, <2>3 DEF s
<1>7. QED
  BY <1>5, <1>6

\* startDecay() of an item that does not decay yet.
LEMMA StartedIs ==
  ASSUME Ag!DecayAssumption, NEW r \in Rec, NEW to \in DecayTo,
         r.kind = "worn", ~r.decaying, r.full \in Durations, Entries(r) < MaxEntries, Owes(r, 0),
         r.early <= Interval, ~r.again => Entries(r) = 0 /\ Rests(r),
         NEW l, NEW p
  PROVE  Ages(Ag!Started(r, to), l, p)
<1> DEFINE s == Ag!Started(r, to)
<1>1. CASE r.dur > 0
  <2>1. s = Ag!Enter(r)
    BY <1>1 DEF Ag!Started
  <2>2. /\ s \in Rec /\ s.kind = "worn" /\ s.dur = r.dur /\ s.decaying
        /\ s.fresh = r.fresh + 1 /\ s.entries = r.entries /\ s.uses = r.uses + 1
        /\ s.toFree = r.toFree /\ s.full = r.full /\ s.spent = r.spent /\ s.stops = r.stops
        /\ s.early = r.early /\ (s.again <=> r.again) /\ Entries(s) = Entries(r) + 1
    BY <2>1, EnterIs
  <2>3. Fine(s) => Entries(r) = 0 /\ r.fresh = 0 /\ Rests(r)
    BY <2>2, EntriesOf DEF Fine, Rec
  <2> HIDE DEF s
  <2>4. Entries(r) \in Nat
    BY EntriesOf
  <2>5. Sure(s)
    <3>1. MaxEntries \in Nat
      BY DEF Ag!DecayAssumption
    <3>2. QED
      BY <2>2, <2>3, <2>4, <3>1 DEF Sure
  <2>6. Owes(s, 0)
    <3>1. r.uses \in Int /\ r.toFree \in Int
      BY DEF Rec
    <3>2. QED
      BY <2>2, <2>4, <3>1 DEF Owes
  <2>7. ASSUME Fine(s) PROVE InTime(s, l, p)
    <3>1. Rests(s)
      BY <2>2, <2>3, <2>7 DEF Rests, Least, Most
    <3>2. QED
      BY <2>2, <2>3, <2>7, <3>1, FreshInTime
  <2>8. QED
    BY <2>5, <2>6, <2>7 DEF Ages, s
<1>2. CASE ~(r.dur > 0)
  <2>1. s = Ag!Decayed(r, to)
    BY <1>2 DEF Ag!Started
  <2>2. ~r.again => Entries(r) = 0 /\ Least(r) <= r.spent
    BY <1>2, Times, Sizes DEF Rests
  <2>3. Sure(s) /\ Owes(s, 0) /\ (Fine(s) => InTime(s, l, p))
    BY <2>1, <2>2, DecayedIs
  <2>4. QED
    BY <2>3 DEF Ages
<1>3. QED
  BY <1>1, <1>2

\* One entry of an item in the bucket that is visited.
LEMMA VisitIs ==
  ASSUME Ag!DecayAssumption, NEW u, Sure(u), Owes(u, 0), NEW to \in DecayTo,
         NEW l \in Bucket, NEW b \in Bucket, b = (l + 1) % Buckets, u.entries[b] >= 1,
         Fine(u) => InTime(u, l, Interval)
  PROVE  LET v == Ag!Visit(u, b, to)
         IN  /\ Sure(v) /\ Owes(v, 0) /\ v.entries[b] \in Nat /\ v.entries[b] >= u.entries[b] - 1
             /\ Fine(v) => InTime(v, b, 0) /\ u.entries[b] = 1
<1> DEFINE v == Ag!Visit(u, b, to)
           d == Beyond(u.dur)
           s == [u EXCEPT !.dur = d]
           o == Ag!Out(s, b)
<1>1. /\ u \in Rec /\ u.entries[b] \in Nat /\ Entries(u) \in Nat /\ u.entries[b] <= Entries(u)
      /\ u.fresh \in Nat /\ u.uses \in Int /\ u.toFree \in Nat
      /\ u.kind \in {"gone", "worn", "kept"} /\ u.decaying \in BOOLEAN
      /\ \A a \in Bucket : u.entries[a] \in Nat
      /\ MaxEntries \in Nat
  <2>1. u \in Rec
    BY DEF Sure
  <2>2. u.fresh \in Nat /\ u.uses \in Int /\ u.toFree \in Nat /\ u.kind \in {"gone", "worn", "kept"}
        /\ u.decaying \in BOOLEAN
    BY <2>1 DEF Rec
  <2>3. \A a \in Bucket : u.entries[a] \in Nat
    BY <2>1, EntriesOf
  <2>4. Entries(u) \in Nat /\ u.fresh + u.entries[b] <= Entries(u)
    BY <2>1, EntriesOf
  <2>5. MaxEntries \in Nat
    BY DEF Ag!DecayAssumption
  <2>6. QED
    BY <2>1, <2>2, <2>3, <2>4, <2>5
<1>2. /\ d \in Seconds /\ d \in Nat /\ u.dur \in Nat /\ u.spent \in Nat
      /\ Least(u) \in Int /\ Most(u) \in Int
  BY <1>1, Times
<1>3. d = IF u.dur < Round THEN 0 ELSE u.dur - Round
  BY <1>2, Sizes DEF Beyond
<1>4. v = IF s.kind # "worn" THEN Ag!Free([o EXCEPT !.decaying = FALSE])
          ELSE IF s.dur <= 0 THEN Ag!Free(Ag!Decayed(o, to))
          ELSE IF s.dur < Round
               THEN IF Ag!NewBucket(b, s.dur) = b THEN Ag!Free(Ag!Decayed(o, to))
                    ELSE [o EXCEPT !.entries[Ag!NewBucket(b, s.dur)] = @ + 1]
          ELSE s
  <2>1. s = [u EXCEPT !.dur = IF @ < Round THEN 0 ELSE @ - Round]
    BY <1>3
  <2> HIDE DEF s
  <2>2. QED
    BY <2>1 DEF Ag!Visit, Round
<1> HIDE DEF d, v
<1>5. /\ o \in Rec /\ o.kind = u.kind /\ o.dur = d /\ (o.decaying <=> u.decaying)
      /\ o.fresh = u.fresh /\ o.uses = u.uses
      /\ o.entries[b] = u.entries[b] - 1
      /\ \A a \in Bucket : a # b => o.entries[a] = u.entries[a]
      /\ o.toFree = u.toFree /\ o.full = u.full /\ o.spent = u.spent
      /\ o.stops = u.stops /\ o.early = u.early /\ (o.again <=> u.again)
      /\ Entries(o) = Entries(u) - 1
  BY <1>1, <1>2, OutIs
<1>6. /\ s \in Rec /\ s.kind = u.kind /\ s.dur = d /\ (s.decaying <=> u.decaying)
      /\ s.fresh = u.fresh /\ s.uses = u.uses /\ s.entries = u.entries
      /\ s.toFree = u.toFree /\ s.full = u.full /\ s.spent = u.spent
      /\ s.stops = u.stops /\ s.early = u.early /\ (s.again <=> u.again)
      /\ Entries(s) = Entries(u)
  <2>1. /\ s \in Rec /\ s.kind = u.kind /\ s.dur = d /\ s.decaying = u.decaying
        /\ s.fresh = u.fresh /\ s.uses = u.uses /\ s.entries = u.entries
        /\ s.toFree = u.toFree /\ s.full = u.full /\ s.spent = u.spent
        /\ s.stops = u.stops /\ s.early = u.early /\ s.again = u.again
    BY <1>1, <1>2 DEF Rec
  <2>2. Entries(s) = Entries(u)
    BY <2>1 DEF Entries, Ag!Entries
  <2>3. QED
    BY <2>1, <2>2
<1> HIDE DEF o, s
<1>7. ASSUME Fine(u)
      PROVE  /\ u.decaying /\ Entries(u) = 1 /\ u.entries[b] = 1 /\ u.fresh = 0
             /\ \A a \in Bucket : a # b => u.entries[a] = 0
             /\ u.kind = "worn" => Least(u) <= u.spent + d /\ u.spent + d <= Most(u)
             /\ u.kind = "kept" => Least(u) + Interval <= u.spent + d /\ u.spent + d <= Most(u) - Interval
  <2>1. u.decaying /\ Entries(u) = 1
    BY <1>1, <1>7 DEF Sure
  <2>2. u.entries[b] = 1 /\ u.fresh = 0 /\ \A a \in Bucket : a # b => u.entries[a] = 0
    BY <1>1, <2>1, OnePlace
  <2>3. Wait(b, l, Interval) = 0
    BY WaitNext
  <2>4. Stands(u, 0)
    BY <1>1, <1>7, <2>3 DEF InTime
  <2>5. u.spent + 0 + d = u.spent + d
    BY <1>2
  <2>6. QED
    BY <2>1, <2>2, <2>4, <2>5 DEF Stands, d
<1>8. CASE u.kind # "worn"
  <2> DEFINE q == [o EXCEPT !.decaying = FALSE]
  <2>1. /\ q \in Rec /\ q.kind = o.kind /\ q.dur = o.dur /\ q.decaying = FALSE
        /\ q.fresh = o.fresh /\ q.uses = o.uses /\ q.entries = o.entries
        /\ q.toFree = o.toFree /\ q.full = o.full /\ q.spent = o.spent
        /\ q.stops = o.stops /\ q.early = o.early /\ q.again = o.again
    BY <1>5 DEF Rec
  <2>2. Entries(q) = Entries(o)
    BY <2>1 DEF Entries, Ag!Entries
  <2>3. v = Ag!Free(q)
    BY <1>4, <1>6, <1>8
  <2> HIDE DEF q
  <2>4. /\ v \in Rec /\ v.kind = u.kind /\ v.dur = d /\ ~v.decaying
        /\ v.fresh = u.fresh /\ v.uses = u.uses /\ v.entries = o.entries
        /\ v.toFree = u.toFree + 1 /\ v.full = u.full /\ v.spent = u.spent
        /\ v.stops = u.stops /\ v.early = u.early /\ (v.again <=> u.again)
        /\ Entries(v) = Entries(u) - 1
    BY <1>5, <2>1, <2>2, <2>3, FreedIs
  <2>5. Sure(v)
    BY <1>1, <1>7, <1>8, <2>4 DEF Sure, Fine
  <2>6. Owes(v, 0)
    BY <1>1, <2>4 DEF Owes
  <2>7. ASSUME Fine(v) PROVE InTime(v, b, 0) /\ u.entries[b] = 1
    <3>1. Fine(u) /\ u.kind = "kept"
      BY <1>1, <1>8, <2>4, <2>7 DEF Fine
    <3>2. Least(v) = Least(u) /\ Most(v) = Most(u)
      BY <2>4 DEF Least, Most
    <3>3. Rests(v)
      BY <1>7, <2>4, <3>1, <3>2 DEF Rests
    <3>4. v.fresh = 0 /\ \A a \in Bucket : v.entries[a] = 0
      BY <1>5, <1>7, <2>4, <3>1
    <3>5. QED
      BY <1>7, <3>1, <3>3, <3>4 DEF InTime
  <2>8. v.entries[b] = u.entries[b] - 1
    BY <1>5, <2>4
  <2>9. QED
    BY <1>1, <2>5, <2>6, <2>7, <2>8 DEF v
<1>9. CASE u.kind = "worn" /\ d <= 0
  <2> DEFINE q == Ag!Decayed(o, to)
  <2>1. v = Ag!Free(q)
    BY <1>4, <1>6, <1>9
  <2>2. u.full \in Durations /\ Least(o) = Least(u)
    BY <1>5, <1>9 DEF Sure, Least
  <2>3. ~o.again => Entries(o) = 0 /\ Least(o) <= o.spent
    <3> SUFFICES ASSUME ~o.again PROVE Entries(o) = 0 /\ Least(o) <= o.spent
      OBVIOUS
    <3>1. Fine(u)
      BY <1>5, <1>9 DEF Fine
    <3>2. QED
      BY <1>2, <1>5, <1>7, <1>9, <2>2, <3>1
  <2>4. Entries(o) < MaxEntries
    BY <1>1, <1>5 DEF Sure
  <2>5. Owes(o, 1)
    BY <1>1, <1>5 DEF Owes
  <2>6. /\ Sure(q) /\ Owes(q, 1) /\ q.entries = o.entries
        /\ Fine(q) => Entries(o) = 0 /\ \A m, p : InTime(q, m, p)
    BY <1>5, <1>9, <2>2, <2>3, <2>4, <2>5, DecayedIs
  <2> HIDE DEF q
  <2>7. q \in Rec
    BY <2>6 DEF Sure
  <2>8. /\ v \in Rec /\ v.kind = q.kind /\ v.dur = q.dur /\ (v.decaying <=> q.decaying)
        /\ v.fresh = q.fresh /\ v.uses = q.uses /\ v.entries = q.entries
        /\ v.toFree = q.toFree + 1 /\ v.full = q.full /\ v.spent = q.spent
        /\ v.stops = q.stops /\ v.early = q.early /\ (v.again <=> q.again)
        /\ Entries(v) = Entries(q)
    BY <2>1, <2>7, FreedIs
  <2>9. Sure(v)
    <3>1. Fine(v) <=> Fine(q)
      BY <2>8 DEF Fine
    <3>2. QED
      BY <2>6, <2>8, <3>1 DEF Sure
  <2>10. Owes(v, 0)
    <3>1. q.uses \in Int /\ q.toFree \in Nat /\ Entries(q) \in Nat
      BY <2>7, EntriesOf DEF Rec
    <3>2. QED
      BY <2>6, <2>8, <3>1 DEF Owes
  <2>11. ASSUME Fine(v) PROVE InTime(v, b, 0) /\ u.entries[b] = 1
    <3>1. Fine(q)
      BY <2>8, <2>11 DEF Fine
    <3>2. InTime(q, b, 0) /\ Entries(o) = 0
      BY <2>6, <3>1
    <3>3. InTime(v, b, 0)
      BY <2>8, <3>2 DEF InTime, Rests, Waits, Stands, Least, Most
    <3>4. QED
      BY <1>1, <1>5, <3>2, <3>3
  <2>12. v.entries[b] = u.entries[b] - 1
    BY <1>5, <2>6, <2>8
  <2>13. QED
    BY <1>1, <2>9, <2>10, <2>11, <2>12 DEF v
<1>10. CASE u.kind = "worn" /\ ~(d <= 0) /\ d < Round
  <2> DEFINE h == Ag!NewBucket(b, d)
             e == [o.entries EXCEPT ![h] = @ + 1]
  <2>1. h \in Bucket /\ h # b /\ Wait(h, b, 0) = d
    BY <1>2, <1>10, WaitNew
  <2> HIDE DEF h
  <2>2. o.entries \in [Bucket -> Nat] /\ o.entries[h] + 1 \in Nat
    BY <1>5, <2>1 DEF Rec
  <2>3. /\ e \in [Bucket -> Nat] /\ e[h] = o.entries[h] + 1
        /\ \A a \in Bucket : a # h => e[a] = o.entries[a]
    BY <2>1, <2>2
  <2>4. Ag!Sum(e) = Ag!Sum(o.entries) - o.entries[h] + (o.entries[h] + 1)
    BY <2>1, <2>2, SumAt
  <2>5. v = [o EXCEPT !.entries = e]
    <3>1. v = [o EXCEPT !.entries[h] = @ + 1]
      BY <1>4, <1>6, <1>10, <2>1 DEF h
    <3>2. QED
      BY <1>5, <3>1 DEF e, Rec
  <2> HIDE DEF e
  <2>6. /\ v \in Rec /\ v.kind = o.kind /\ v.dur = o.dur /\ v.decaying = o.decaying
        /\ v.fresh = o.fresh /\ v.uses = o.uses /\ v.entries = e
        /\ v.toFree = o.toFree /\ v.full = o.full /\ v.spent = o.spent
        /\ v.stops = o.stops /\ v.early = o.early /\ v.again = o.again
    BY <1>5, <2>3, <2>5 DEF Rec
  <2>7. Entries(v) = Entries(u)
    <3>1. Entries(o) = o.fresh + Ag!Sum(o.entries) /\ o.fresh \in Nat
      BY <1>5, EntriesOf DEF Rec
    <3>2. Entries(v) = o.fresh + Ag!Sum(e)
      BY <2>6 DEF Entries, Ag!Entries
    <3>3. Ag!Sum(o.entries) \in Nat /\ o.entries[h] \in Nat
      BY <2>1, <2>2, SumAt
    <3>4. QED
      BY <1>1, <1>5, <2>4, <3>1, <3>2, <3>3
  <2>8. Sure(v)
    BY <1>1, <1>5, <1>10, <2>6, <2>7 DEF Sure, Fine
  <2>9. Owes(v, 0)
    BY <1>1, <1>5, <2>6, <2>7 DEF Owes
  <2>10. ASSUME Fine(v) PROVE InTime(v, b, 0) /\ u.entries[b] = 1
    <3>1. Fine(u)
      BY <1>5, <2>6, <2>10 DEF Fine
    <3>2. v.fresh = 0 /\ v.decaying /\ \A a \in Bucket : a # h => v.entries[a] = 0
      BY <1>1, <1>5, <1>7, <2>3, <2>6, <3>1
    <3>3. Stands(v, d)
      <4>1. Least(v) = Least(u) /\ Most(v) = Most(u) /\ v.dur = d /\ v.kind = "worn" /\ v.spent = u.spent
        BY <1>5, <1>10, <2>6 DEF Least, Most
      <4>2. Beyond(d) = 0
        BY <1>2, <1>10, Sizes DEF Beyond
      <4>3. u.spent + d + 0 = u.spent + d
        BY <1>2
      <4>4. QED
        BY <1>7, <1>10, <3>1, <4>1, <4>2, <4>3 DEF Stands
    <3>4. QED
      BY <1>7, <2>1, <3>1, <3>2, <3>3 DEF InTime
  <2>11. v.entries[b] = u.entries[b] - 1
    BY <1>5, <2>1, <2>3, <2>6
  <2>12. QED
    BY <1>1, <2>8, <2>9, <2>10, <2>11 DEF v
<1>11. CASE u.kind = "worn" /\ ~(d <= 0) /\ ~(d < Round)
  <2>1. v = s
    BY <1>4, <1>6, <1>11
  <2>2. Sure(v)
    BY <1>6, <1>11, <2>1 DEF Sure, Fine
  <2>3. Owes(v, 0)
    BY <1>6, <2>1 DEF Owes
  <2>4. ASSUME Fine(v) PROVE InTime(v, b, 0) /\ u.entries[b] = 1
    <3>1. Fine(u)
      BY <1>6, <2>1, <2>4 DEF Fine
    <3>2. v.fresh = 0 /\ v.decaying /\ \A a \in Bucket : a # b => v.entries[a] = 0
      BY <1>6, <1>7, <2>1, <3>1
    <3>3. Stands(v, Round)
      <4>1. Least(v) = Least(u) /\ Most(v) = Most(u) /\ v.dur = d /\ v.kind = "worn" /\ v.spent = u.spent
        BY <1>6, <1>11, <2>1 DEF Least, Most
      <4>2. Beyond(d) = d - Round
        BY <1>2, <1>11, Sizes DEF Beyond
      <4>3. u.spent + Round + (d - Round) = u.spent + d
        BY <1>2, Sizes
      <4>4. QED
        BY <1>7, <1>11, <3>1, <4>1, <4>2, <4>3 DEF Stands
    <3>4. Wait(b, b, 0) = Round
      BY WaitNext
    <3>5. QED
      BY <1>7, <3>1, <3>2, <3>3, <3>4 DEF InTime
  <2>5. v.entries[b] = u.entries[b]
    BY <1>6, <2>1
  <2>6. QED
    BY <1>1, <2>2, <2>3, <2>4, <2>5 DEF v
<1>12. QED
  BY <1>8, <1>9, <1>10, <1>11

\* All entries of an item in the bucket that is visited.
LEMMA VisitedIs ==
  ASSUME Ag!DecayAssumption, NEW u, Sure(u), Owes(u, 0), NEW to \in DecayTo,
         NEW l \in Bucket, NEW b \in Bucket, b = (l + 1) % Buckets,
         Fine(u) => InTime(u, l, Interval)
  PROVE  Ages(Ag!Visited(u, b, to), b, 0)
<1> DEFINE N == u.entries[b]
           H == [x \in Rec \X (1 .. N) |-> Ag!Visit(x[1], b, to)]
           Timely(x, n) == IF n = 0 THEN InTime(x, l, Interval) ELSE InTime(x, b, 0) /\ n >= N
           Good == [n \in 0 .. N |-> {x \in Rec : /\ Sure(x) /\ Owes(x, 0)
                                                  /\ N - n <= x.entries[b]
                                                  /\ Fine(x) => Timely(x, n)}]
           Is(T) == T = [n \in 0 .. N |-> IF n = 0 THEN u ELSE Ag!Visit(T[n - 1], b, to)]
           U == CHOOSE T : Is(T)
<1>1. u \in Rec /\ N \in Nat
  BY EntriesOf DEF Sure
<1>2. \A x \in Rec : \A n \in 1 .. N : H[<<x, n>>] = Ag!Visit(x, b, to)
  OBVIOUS
<1> HIDE DEF H
<1>3. \A n \in 0 .. N : \A x : x \in Good[n] <=> /\ x \in Rec /\ Sure(x) /\ Owes(x, 0)
                                                 /\ N - n <= x.entries[b]
                                                 /\ Fine(x) => Timely(x, n)
  OBVIOUS
<1> HIDE DEF Good
<1>4. u \in Good[0]
  <2>1. 0 \in 0 .. N /\ N - 0 <= u.entries[b]
    BY <1>1
  <2>2. Fine(u) => Timely(u, 0)
    OBVIOUS
  <2> HIDE DEF N, Timely
  <2>3. QED
    BY <1>1, <1>3, <2>1, <2>2
<1>5. ASSUME NEW n \in 1 .. N, NEW x \in Good[n - 1] PROVE Ag!Visit(x, b, to) \in Good[n]
  <2> DEFINE v == Ag!Visit(x, b, to)
  <2>1. n - 1 \in 0 .. N /\ n \in 0 .. N /\ n \in Nat /\ n >= 1 /\ n <= N
    BY <1>1
  <2>2. /\ x \in Rec /\ Sure(x) /\ Owes(x, 0) /\ N - (n - 1) <= x.entries[b]
        /\ Fine(x) => Timely(x, n - 1)
    BY <1>3, <1>5, <2>1
  <2>3. x.entries[b] \in Nat
    BY <2>2, EntriesOf
  <2>4. x.entries[b] >= 1
    BY <1>1, <2>1, <2>2, <2>3
  <2>5. Fine(x) => InTime(x, l, Interval)
    BY <1>1, <2>1, <2>2
  <2> HIDE DEF Timely, v, N
  <2>6. /\ Sure(v) /\ Owes(v, 0) /\ v.entries[b] \in Nat /\ v.entries[b] >= x.entries[b] - 1
        /\ Fine(v) => InTime(v, b, 0) /\ x.entries[b] = 1
    BY <2>2, <2>4, <2>5, VisitIs DEF v
  <2>7. v \in Rec
    BY <2>6 DEF Sure
  <2>8. N - n <= v.entries[b]
    BY <1>1, <2>1, <2>2, <2>3, <2>6
  <2>9. Fine(v) => Timely(v, n)
    BY <1>1, <2>1, <2>2, <2>6 DEF Timely
  <2>10. QED
    BY <1>3, <2>1, <2>6, <2>7, <2>8, <2>9 DEF v
<1>6. Steps(H, N, Good)
  <2> SUFFICES ASSUME NEW n \in 1 .. N, NEW t \in Good[n - 1] PROVE H[<<t, n>>] \in Good[n]
    BY DEF Steps
  <2>1. n - 1 \in 0 .. N
    BY <1>1
  <2> HIDE DEF N
  <2>2. t \in Rec
    BY <1>3, <2>1
  <2>3. H[<<t, n>>] = Ag!Visit(t, b, to)
    BY <1>2, <2>2
  <2>4. QED
    BY <1>5, <2>3
<1> HIDE DEF N, Timely
<1>7. PICK T : /\ T = [n \in 0 .. N |-> IF n = 0 THEN u ELSE H[<<T[n - 1], n>>]]
               /\ \A n \in 0 .. N : T[n] \in Good[n]
  <2>1. \E T : Turns(T, H, N, Good, u)
    BY <1>1, <1>4, <1>6, LoopExists
  <2>2. QED
    BY <2>1 DEF Turns
<1>8. \A n \in 0 .. N : n # 0 => H[<<T[n - 1], n>>] = Ag!Visit(T[n - 1], b, to)
  <2> SUFFICES ASSUME NEW n \in 0 .. N, n # 0
      PROVE  H[<<T[n - 1], n>>] = Ag!Visit(T[n - 1], b, to)
    OBVIOUS
  <2>1. n - 1 \in 0 .. N /\ n \in 1 .. N
    BY <1>1
  <2>2. T[n - 1] \in Rec
    BY <1>3, <1>7, <2>1
  <2>3. QED
    BY <1>2, <2>1, <2>2
<1>9. Is(T)
  <2>1. \A n \in 0 .. N : (IF n = 0 THEN u ELSE H[<<T[n - 1], n>>])
                            = (IF n = 0 THEN u ELSE Ag!Visit(T[n - 1], b, to))
    BY <1>8
  <2>2. [n \in 0 .. N |-> IF n = 0 THEN u ELSE H[<<T[n - 1], n>>]]
          = [n \in 0 .. N |-> IF n = 0 THEN u ELSE Ag!Visit(T[n - 1], b, to)]
    BY <2>1
  <2>3. QED
    BY <1>7, <2>2
<1>10. Is(U)
  BY <1>9
<1>11. Ag!Visited(u, b, to) = U[N]
  BY DEF Ag!Visited, N
<1>12. U[0] = u /\ \A n \in 1 .. N : U[n] = Ag!Visit(U[n - 1], b, to)
  <2> HIDE DEF U
  <2>1. \A n \in 0 .. N : U[n] = IF n = 0 THEN u ELSE Ag!Visit(U[n - 1], b, to)
    BY <1>10
  <2> HIDE DEF Is
  <2>2. \A n \in 1 .. N : n \in 0 .. N /\ n # 0
    BY <1>1
  <2>3. 0 \in 0 .. N
    BY <1>1
  <2>4. QED
    BY <2>1, <2>2, <2>3
<1> HIDE DEF Is, U
<1>13. U[N] \in Good[N]
  <2>1. Stays(U, N, Good)
    BY <1>4, <1>5, <1>12 DEF Stays
  <2>2. N \in 0 .. N
    BY <1>1
  <2>3. QED
    BY <1>1, <2>1, <2>2, LoopStays
<1> DEFINE v == U[N]
<1>14. N \in 0 .. N
  BY <1>1
<1>15. v \in Rec /\ Sure(v) /\ Owes(v, 0) /\ (Fine(v) => Timely(v, N))
  BY <1>3, <1>13, <1>14
<1>16. ASSUME Fine(v) PROVE InTime(v, b, 0)
  <2>1. CASE N = 0
    <3>1. v = u
      BY <1>12, <2>1
    <3>2. InTime(u, l, Interval)
      BY <1>15, <1>16, <2>1, <3>1 DEF Timely
    <3>3. \A a \in Bucket : u.entries[a] > 0 => Wait(a, b, 0) = Wait(a, l, Interval)
      <4>1. ~(u.entries[b] > 0)
        BY <2>1 DEF N
      <4>2. \A a \in Bucket : a # b => Wait(a, b, 0) = Wait(a, l, Interval)
        BY WaitNext
      <4>3. QED
        BY <4>1, <4>2
    <3>4. InTime(u, b, 0)
      BY <3>2, <3>3 DEF InTime
    <3>5. QED
      BY <3>1, <3>4
  <2>2. CASE N # 0
    BY <1>15, <1>16, <2>2 DEF Timely
  <2>3. QED
    BY <2>1, <2>2
<1>17. QED
  BY <1>11, <1>15, <1>16 DEF Ages

\* Game::cleanup() of one item.
LEMMA CleanedIs ==
  ASSUME Ag!DecayAssumption, NEW u, NEW l \in Bucket, NEW p \in 0 .. Interval, Ages(u, l, p)
  PROVE  Ages(Ag!Cleaned(u, l), l, p)
<1> DEFINE v == Ag!Cleaned(u, l)
           b == Ag!FirstBucket(u.dur, l)
           e == [u.entries EXCEPT ![b] = @ + u.fresh]
<1>1. /\ u \in Rec /\ Sure(u) /\ Owes(u, 0) /\ Entries(u) \in Nat /\ u.dur \in Seconds
      /\ u.fresh \in Nat /\ u.uses \in Int /\ u.toFree \in Nat /\ u.entries \in [Bucket -> Nat]
  <2>1. u \in Rec /\ Sure(u) /\ Owes(u, 0)
    BY DEF Ages, Sure
  <2>2. QED
    BY <2>1, EntriesOf DEF Rec
<1>2. b \in Bucket /\ Wait(b, l, p) + Beyond(u.dur) \in u.dur - Interval .. u.dur + Interval
  BY <1>1, WaitFirst
<1> HIDE DEF b
<1>3. u.entries[b] \in Nat /\ u.entries[b] + u.fresh \in Nat
  BY <1>1, <1>2
<1>4. e \in [Bucket -> Nat] /\ e[b] = u.entries[b] + u.fresh /\ \A a \in Bucket : a # b => e[a] = u.entries[a]
  BY <1>1, <1>2, <1>3
<1>5. Ag!Sum(e) = Ag!Sum(u.entries) - u.entries[b] + (u.entries[b] + u.fresh)
  BY <1>1, <1>2, <1>3, SumAt
<1>6. v = [u EXCEPT !.uses = u.uses - u.toFree, !.toFree = 0, !.fresh = 0, !.entries = e]
  BY <1>1 DEF Ag!Cleaned, b, e, Rec
<1> HIDE DEF v, e
<1>7. /\ v \in Rec /\ v.kind = u.kind /\ v.dur = u.dur /\ v.decaying = u.decaying
      /\ v.fresh = 0 /\ v.uses = u.uses - u.toFree /\ v.entries = e
      /\ v.toFree = 0 /\ v.full = u.full /\ v.spent = u.spent
      /\ v.stops = u.stops /\ v.early = u.early /\ v.again = u.again
  <2>1. u.uses - u.toFree \in Int
    BY <1>1
  <2>2. QED
    BY <1>1, <1>4, <1>6, <2>1 DEF Rec
<1>8. Entries(v) = Entries(u)
  <2>1. Entries(u) = u.fresh + Ag!Sum(u.entries) /\ Ag!Sum(u.entries) \in Nat
    BY <1>1, <1>2, SumAt DEF Entries, Ag!Entries
  <2>2. Entries(v) = 0 + Ag!Sum(e)
    BY <1>7 DEF Entries, Ag!Entries
  <2>3. QED
    BY <1>1, <1>3, <1>5, <2>1, <2>2
<1>9. Sure(v)
  BY <1>1, <1>7, <1>8 DEF Sure, Fine
<1>10. Owes(v, 0)
  BY <1>1, <1>7, <1>8 DEF Owes
<1>11. ASSUME Fine(v) PROVE InTime(v, l, p)
  <2>1. Fine(u) /\ InTime(u, l, p)
    BY <1>7, <1>11 DEF Fine, Ages
  <2>2. Least(v) = Least(u) /\ Most(v) = Most(u)
    BY <1>7 DEF Least, Most
  <2>3. ~v.decaying => Rests(v)
    BY <1>7, <2>1, <2>2 DEF InTime, Rests
  <2>4. ASSUME NEW a \in Bucket, v.entries[a] > 0 PROVE Stands(v, Wait(a, l, p))
    <3>1. CASE u.entries[a] > 0
      <4>1. Stands(u, Wait(a, l, p))
        BY <2>1, <3>1 DEF InTime
      <4>2. QED
        BY <1>7, <2>2, <4>1 DEF Stands
    <3>2. CASE ~(u.entries[a] > 0)
      <4>1. a = b /\ u.fresh > 0
        <5>1. u.entries[a] \in Nat
          BY <1>1
        <5>2. QED
          BY <1>1, <1>4, <1>7, <2>4, <3>2, <5>1
      <4>2. Waits(u)
        BY <2>1, <4>1 DEF InTime
      <4> DEFINE w == Wait(a, l, p)
      <4>3. /\ u.dur \in Nat /\ u.spent \in Nat /\ Least(u) \in Int /\ Most(u) \in Int
            /\ Beyond(u.dur) \in Nat /\ u.dur - Round <= Beyond(u.dur)
            /\ Interval \in Nat /\ Round \in Nat
        BY <1>1, Times, Sizes
      <4>4. w \in Nat /\ u.dur - Interval <= w + Beyond(u.dur) /\ w + Beyond(u.dur) <= u.dur + Interval
        <5>1. w \in 0 .. Round
          BY WaitBounds
        <5>2. w + Beyond(u.dur) \in u.dur - Interval .. u.dur + Interval
          BY <1>2, <4>1
        <5>3. QED
          BY <4>3, <5>1, <5>2, Sizes
      <4> HIDE DEF w
      <4>5. CASE u.kind = "worn"
        <5>1. Least(u) + Interval <= u.spent + u.dur /\ u.spent + u.dur <= Most(u) - Interval
          BY <4>2, <4>5 DEF Waits, Rests
        <5>2. /\ Least(u) <= u.spent + w + Beyond(u.dur)
              /\ u.spent + w + Beyond(u.dur) <= Most(u)
          BY <4>3, <4>4, <5>1
        <5>3. QED
          BY <1>7, <2>2, <4>5, <5>2 DEF Stands, w
      <4>6. CASE u.kind # "worn"
        <5>1. /\ Least(u) + Round + 2 * Interval <= u.spent + u.dur
              /\ u.spent + u.dur <= Most(u) - 2 * Interval
          BY <4>2, <4>6 DEF Waits
        <5>2. /\ Least(u) + Interval <= u.spent + Beyond(u.dur)
              /\ u.spent + w + Beyond(u.dur) <= Most(u) - Interval
          BY <4>3, <4>4, <5>1
        <5>3. QED
          BY <1>7, <2>2, <4>6, <5>2 DEF Stands, w
      <4>7. QED
        BY <4>5, <4>6
    <3>3. QED
      BY <3>1, <3>2
  <2>5. QED
    BY <1>7, <2>3, <2>4 DEF InTime
<1>12. QED
  BY <1>9, <1>10, <1>11 DEF Ages, v

-----------------------------------------------------------------------------
(* The steps                                                               *)

\* MoveEvent::DeEquipItem()
LEMMA TakenOff ==
  ASSUME Ag!DecayAssumption, NEW u, NEW l \in Bucket, NEW p \in 0 .. Interval, Ages(u, l, p),
         u.kind = "worn", u.stops < MaxStops
  PROVE  Ages([u EXCEPT !.kind = "kept", !.stops = @ + 1], l, p)
<1> DEFINE v == [u EXCEPT !.kind = "kept", !.stops = @ + 1]
<1>1. /\ u \in Rec /\ Sure(u) /\ Owes(u, 0) /\ u.decaying /\ u.full \in Durations
      /\ u.stops \in Nat /\ u.stops + 1 \in 0 .. MaxStops /\ Entries(u) \in Nat
  <2>1. u \in Rec /\ Sure(u) /\ Owes(u, 0) /\ u.decaying /\ u.full \in Durations
    BY DEF Ages, Sure
  <2>2. u.stops \in 0 .. MaxStops /\ MaxStops \in Nat
    BY <2>1 DEF Rec, Ag!DecayAssumption
  <2>3. QED
    BY <2>1, <2>2, EntriesOf
<1>2. /\ v \in Rec /\ v.kind = "kept" /\ v.dur = u.dur /\ v.decaying = u.decaying
      /\ v.fresh = u.fresh /\ v.uses = u.uses /\ v.entries = u.entries
      /\ v.toFree = u.toFree /\ v.full = u.full /\ v.spent = u.spent
      /\ v.stops = u.stops + 1 /\ v.early = u.early /\ v.again = u.again
  BY <1>1 DEF Rec
<1> HIDE DEF v
<1>3. Entries(v) = Entries(u)
  BY <1>2 DEF Entries, Ag!Entries
<1>4. Sure(v) /\ Owes(v, 0)
  BY <1>1, <1>2, <1>3 DEF Sure, Owes, Fine
<1>5. ASSUME Fine(v) PROVE InTime(v, l, p)
  <2>1. Fine(u) /\ InTime(u, l, p)
    BY <1>2, <1>5 DEF Fine, Ages
  <2>2. Least(v) = Least(u) - Round - Interval /\ Most(v) = Most(u) + Interval
    <3> DEFINE n == u.stops
               x == (Round + Interval) * n
               y == Interval * (1 + n)
    <3>1. /\ (Round + Interval) * (n + 1) = x + (Round + Interval) * 1 /\ x \in Nat
          /\ Interval * ((1 + n) + 1) = y + Interval * 1 /\ y \in Nat
      <4>1. Round + Interval \in Nat \ {0} /\ Interval \in Nat \ {0} /\ n \in Nat /\ 1 + n \in Nat /\ 1 \in Nat
        BY <1>1, Sizes, SMTT(60)
      <4> HIDE DEF n
      <4>2. x \in Nat /\ y \in Nat
        BY <4>1, Whole
      <4>3. (Round + Interval) * (n + 1) = (Round + Interval) * n + (Round + Interval) * 1
        BY <4>1, Products
      <4>4. Interval * ((1 + n) + 1) = Interval * (1 + n) + Interval * 1
        BY <4>1, Products
      <4>5. QED
        BY <4>2, <4>3, <4>4
    <3>2. Least(u) = u.full - Interval - x /\ Most(u) = u.full + y
      BY DEF Least, Most
    <3>3. /\ Least(v) = u.full - Interval - (Round + Interval) * (n + 1)
          /\ Most(v) = u.full + Interval * (1 + (n + 1))
      BY <1>2 DEF Least, Most
    <3>4. 1 + (n + 1) = (1 + n) + 1
      BY <1>1
    <3>5. Interval \in Nat /\ Round \in Nat /\ u.full \in Nat /\ (Round + Interval) * 1 = Round + Interval
          /\ Interval * 1 = Interval
      BY <1>1, Times, Sizes
    <3> HIDE DEF x, y, n
    <3>6. QED
      BY <3>1, <3>2, <3>3, <3>4, <3>5
  <2>3. /\ u.dur \in Nat /\ u.spent \in Nat /\ Least(u) \in Int /\ Most(u) \in Int
        /\ Beyond(u.dur) \in Nat /\ Interval \in Nat /\ Round \in Nat
    BY <1>1, Times, Sizes
  <2>4. ASSUME v.fresh > 0 PROVE Waits(v)
    <3>1. Rests(u)
      BY <1>2, <2>1, <2>4 DEF InTime, Waits
    <3>2. /\ Least(v) + Round + 2 * Interval <= u.spent + u.dur
          /\ u.spent + u.dur <= Most(v) - 2 * Interval
      BY <2>2, <2>3, <3>1 DEF Rests
    <3>3. QED
      BY <1>2, <3>2 DEF Waits
  <2>5. ASSUME NEW a \in Bucket, v.entries[a] > 0 PROVE Stands(v, Wait(a, l, p))
    <3> DEFINE w == Wait(a, l, p)
    <3>1. w \in 0 .. Round
      BY WaitBounds
    <3>2. Least(u) <= u.spent + w + Beyond(u.dur) /\ u.spent + w + Beyond(u.dur) <= Most(u)
      BY <1>2, <2>1, <2>5 DEF InTime, Stands
    <3> HIDE DEF w
    <3>3. /\ Least(v) + Interval <= u.spent + Beyond(u.dur)
          /\ u.spent + w + Beyond(u.dur) <= Most(v) - Interval
      BY <2>2, <2>3, <3>1, <3>2
    <3>4. QED
      BY <1>2, <3>3 DEF Stands, w
  <2>6. QED
    BY <1>1, <1>2, <2>4, <2>5 DEF InTime
<1>6. QED
  BY <1>4, <1>5 DEF Ages, v

\* MoveEvent::EquipItem()
LEMMA PutAgain ==
  ASSUME Ag!DecayAssumption, NEW u, NEW l \in Bucket, NEW p \in 0 .. Interval, Ages(u, l, p),
         u.kind = "kept", NEW to \in DecayTo
  PROVE  Ages(Ag!Started([u EXCEPT !.kind = "worn"], to), l, p)
<1> DEFINE v == [u EXCEPT !.kind = "worn"]
<1>1. u \in Rec /\ Sure(u) /\ Owes(u, 0) /\ u.full \in Durations /\ Entries(u) \in Nat
      /\ u.decaying \in BOOLEAN
  <2>1. u \in Rec /\ Sure(u) /\ Owes(u, 0) /\ u.full \in Durations
    BY DEF Ages, Sure
  <2>2. QED
    BY <2>1, EntriesOf DEF Rec
<1>2. /\ v \in Rec /\ v.kind = "worn" /\ v.dur = u.dur /\ v.decaying = u.decaying
      /\ v.fresh = u.fresh /\ v.uses = u.uses /\ v.entries = u.entries
      /\ v.toFree = u.toFree /\ v.full = u.full /\ v.spent = u.spent
      /\ v.stops = u.stops /\ v.early = u.early /\ v.again = u.again
  BY <1>1 DEF Rec
<1> HIDE DEF v
<1>3. Entries(v) = Entries(u)
  BY <1>2 DEF Entries, Ag!Entries
<1>4. Least(v) = Least(u) /\ Most(v) = Most(u)
  BY <1>2 DEF Least, Most
<1>5. Owes(v, 0)
  BY <1>1, <1>2, <1>3 DEF Owes
<1>6. CASE u.decaying
  <2>1. Ag!Started(v, to) = v
    BY <1>2, <1>6 DEF Ag!Started
  <2>2. Sure(v)
    BY <1>1, <1>2, <1>3, <1>6 DEF Sure, Fine
  <2>3. ASSUME Fine(v) PROVE InTime(v, l, p)
    <3>1. Fine(u) /\ InTime(u, l, p)
      BY <1>2, <2>3 DEF Fine, Ages
    <3>2. /\ u.dur \in Nat /\ u.spent \in Nat /\ Least(u) \in Int /\ Most(u) \in Int
          /\ Beyond(u.dur) \in Nat /\ Interval \in Nat /\ Round \in Nat
      BY <1>1, Times, Sizes
    <3>3. ASSUME v.fresh > 0 PROVE Waits(v)
      <4>1. /\ Least(u) + Round + 2 * Interval <= u.spent + u.dur
            /\ u.spent + u.dur <= Most(u) - 2 * Interval
        BY <1>2, <3>1, <3>3 DEF InTime, Waits
      <4>2. Least(u) + Interval <= u.spent + u.dur /\ u.spent + u.dur <= Most(u) - Interval
        BY <3>2, <4>1
      <4>3. QED
        BY <1>2, <1>4, <4>2 DEF Waits, Rests
    <3>4. ASSUME NEW a \in Bucket, v.entries[a] > 0 PROVE Stands(v, Wait(a, l, p))
      <4> DEFINE w == Wait(a, l, p)
      <4>1. w \in 0 .. Round
        BY WaitBounds
      <4>2. /\ Least(u) + Interval <= u.spent + Beyond(u.dur)
            /\ u.spent + w + Beyond(u.dur) <= Most(u) - Interval
        BY <1>2, <3>1, <3>4 DEF InTime, Stands
      <4> HIDE DEF w
      <4>3. Least(u) <= u.spent + w + Beyond(u.dur) /\ u.spent + w + Beyond(u.dur) <= Most(u)
        BY <3>2, <4>1, <4>2
      <4>4. QED
        BY <1>2, <1>4, <4>3 DEF Stands, w
    <3>5. QED
      BY <1>2, <1>6, <3>3, <3>4 DEF InTime
  <2>4. QED
    BY <1>5, <2>1, <2>2, <2>3 DEF Ages, v
<1>7. CASE ~u.decaying
  <2>1. Entries(v) < MaxEntries /\ v.early <= Interval
    BY <1>1, <1>2, <1>3, <1>7 DEF Sure
  <2>2. ~v.again => Entries(v) = 0 /\ Rests(v)
    <3> SUFFICES ASSUME ~v.again PROVE Entries(v) = 0 /\ Rests(v)
      OBVIOUS
    <3>1. Fine(u)
      BY <1>2 DEF Fine
    <3>2. Entries(u) = 0
      BY <1>1, <1>7, <3>1 DEF Sure
    <3>3. Rests(u)
      BY <1>7, <3>1 DEF Ages, InTime
    <3>4. QED
      BY <1>2, <1>3, <1>4, <3>2, <3>3 DEF Rests
  <2>3. ~v.decaying /\ v.full \in Durations
    BY <1>1, <1>2, <1>7
  <2>4. QED
    BY <1>2, <1>5, <2>1, <2>2, <2>3, StartedIs DEF v
<1>8. QED
  BY <1>1, <1>6, <1>7

\* An item is made into one of a type that decays.
LEMMA MadeAnew ==
  ASSUME Ag!DecayAssumption, NEW u \in Rec, NEW d \in Durations, NEW to \in DecayTo,
         Entries(u) < MaxEntries, u.early <= Interval, Owes(Ag!Renewed(u, d), 0), NEW l, NEW p
  PROVE  Ages(Ag!Started(Ag!Renewed(u, d), to), l, p)
<1> DEFINE v == Ag!Renewed(u, d)
<1>1. /\ v \in Rec /\ v.kind = "worn" /\ v.dur = d /\ ~v.decaying
      /\ v.full = d /\ v.spent = 0 /\ v.stops = 0 /\ v.early = u.early
      /\ (v.again <=> Entries(u) > 0) /\ Entries(v) = Entries(u)
  BY RenewedIs
<1> HIDE DEF v
<1>2. Entries(u) \in Nat
  BY EntriesOf
<1>3. Rests(v)
  <2>1. v.full \in Nat /\ Least(v) = v.full - Interval /\ Most(v) = v.full + Interval /\ Interval \in Nat
    BY <1>1, Times, Sizes
  <2>2. QED
    BY <1>1, <2>1 DEF Rests
<1>4. ~v.again => Entries(v) = 0
  BY <1>1, <1>2
<1>5. Owes(v, 0)
  BY DEF v
<1>6. Entries(v) < MaxEntries /\ v.early <= Interval /\ v.full \in Durations
  BY <1>1
<1>7. Ages(Ag!Started(v, to), l, p)
  BY <1>1, <1>3, <1>4, <1>5, <1>6, StartedIs
<1>8. QED
  BY <1>7 DEF v

\* It is destroyed.
LEMMA Destroyed ==
  ASSUME Ag!DecayAssumption, NEW u, NEW l, NEW p, Ages(u, l, p), u.kind # "gone"
  PROVE  Ages(Ag!Removed(u), l, p)
<1> DEFINE v == Ag!Removed(u)
<1>1. u \in Rec /\ Sure(u) /\ Owes(u, 0) /\ Entries(u) \in Nat /\ u.uses \in Int /\ u.toFree \in Nat
  <2>1. u \in Rec /\ Sure(u) /\ Owes(u, 0)
    BY DEF Ages, Sure
  <2>2. QED
    BY <2>1, EntriesOf DEF Rec
<1>2. /\ v \in Rec /\ v.kind = "gone" /\ v.uses = u.uses /\ v.toFree = u.toFree + 1
      /\ v.early = u.early /\ Entries(v) = Entries(u)
  BY <1>1, RemovedIs
<1> HIDE DEF v
<1>3. Sure(v) /\ Owes(v, 0) /\ ~Fine(v)
  BY <1>1, <1>2 DEF Sure, Owes, Fine
<1>4. QED
  BY <1>3 DEF Ages, v

\* Time passes.
LEMMA Ticked ==
  ASSUME Ag!DecayAssumption, NEW u, NEW l \in Bucket, NEW p \in 0 .. Interval, p < Interval,
         Ages(u, l, p), u.fresh = 0
  PROVE  Ages(IF u.kind = "worn" THEN [u EXCEPT !.spent = @ + 1] ELSE u, l, p + 1)
<1> DEFINE v == IF u.kind = "worn" THEN [u EXCEPT !.spent = @ + 1] ELSE u
<1>1. u \in Rec /\ Sure(u) /\ Owes(u, 0) /\ u.spent + 1 \in Nat
  <2>1. u \in Rec /\ Sure(u) /\ Owes(u, 0)
    BY DEF Ages, Sure
  <2>2. QED
    BY <2>1 DEF Rec
<1>2. /\ v \in Rec /\ v.kind = u.kind /\ v.dur = u.dur /\ v.decaying = u.decaying
      /\ v.fresh = u.fresh /\ v.uses = u.uses /\ v.entries = u.entries
      /\ v.toFree = u.toFree /\ v.full = u.full
      /\ v.spent = IF u.kind = "worn" THEN u.spent + 1 ELSE u.spent
      /\ v.stops = u.stops /\ v.early = u.early /\ v.again = u.again
  BY <1>1 DEF Rec
<1> HIDE DEF v
<1>3. Entries(v) = Entries(u)
  BY <1>2 DEF Entries, Ag!Entries
<1>4. Sure(v) /\ Owes(v, 0)
  BY <1>1, <1>2, <1>3 DEF Sure, Owes, Fine
<1>5. ASSUME Fine(v) PROVE InTime(v, l, p + 1)
  <2>1. Fine(u) /\ InTime(u, l, p)
    BY <1>2, <1>5 DEF Fine, Ages
  <2>2. Least(v) = Least(u) /\ Most(v) = Most(u)
    BY <1>2 DEF Least, Most
  <2>3. /\ u.dur \in Nat /\ u.spent \in Nat /\ Least(u) \in Int /\ Most(u) \in Int
        /\ Beyond(u.dur) \in Nat /\ Interval \in Nat /\ Round \in Nat
    BY <1>1, Times, Sizes
  <2>4. ~v.decaying => Rests(v)
    <3> SUFFICES ASSUME ~v.decaying PROVE Rests(v)
      OBVIOUS
    <3>1. u.kind # "worn" /\ Rests(u)
      BY <1>1, <1>2, <2>1 DEF Sure, InTime
    <3>2. QED
      BY <1>2, <2>2, <3>1 DEF Rests
  <2>5. ~(v.fresh > 0)
    BY <1>2
  <2>6. ASSUME NEW a \in Bucket, v.entries[a] > 0 PROVE Stands(v, Wait(a, l, p + 1))
    <3> DEFINE w == Wait(a, l, p)
               x == Wait(a, l, p + 1)
    <3>1. w \in 0 .. Round /\ x = w - 1
      BY WaitBounds
    <3>2. Stands(u, w)
      BY <1>2, <2>1, <2>6 DEF InTime
    <3> HIDE DEF w, x
    <3>3. CASE u.kind = "worn"
      <4>1. Least(u) <= u.spent + w + Beyond(u.dur) /\ u.spent + w + Beyond(u.dur) <= Most(u)
        BY <3>2, <3>3 DEF Stands
      <4>2. (u.spent + 1) + x + Beyond(u.dur) = u.spent + w + Beyond(u.dur)
        BY <2>3, <3>1
      <4>3. QED
        BY <1>2, <2>2, <3>3, <4>1, <4>2 DEF Stands, x
    <3>4. CASE u.kind # "worn"
      <4>1. /\ Least(u) + Interval <= u.spent + Beyond(u.dur)
            /\ u.spent + w + Beyond(u.dur) <= Most(u) - Interval
        BY <3>2, <3>4 DEF Stands
      <4>2. u.spent + x + Beyond(u.dur) <= Most(u) - Interval
        BY <2>3, <3>1, <4>1
      <4>3. QED
        BY <1>2, <2>2, <3>4, <4>1, <4>2 DEF Stands, x
    <3>5. QED
      BY <3>3, <3>4
  <2>7. QED
    BY <2>4, <2>5, <2>6 DEF InTime
<1>6. QED
  BY <1>4, <1>5 DEF Ages, v

-----------------------------------------------------------------------------
(* All items                                                               *)

AllAge ==
  /\ last \in Bucket /\ phase \in 0 .. Interval
  /\ item \in [Items -> Rec]
  /\ \A i \in Items : Ages(item[i], last, phase)

LEMMA NothingIs ==
  ASSUME Ag!DecayAssumption
  PROVE  LET u == Ag!Nothing
         IN  /\ u \in Rec /\ u.fresh = 0 /\ u.early = 0 /\ u.toFree = 0 /\ u.uses = 0 /\ u.kind = "gone"
             /\ \A b \in Bucket : u.entries[b] = 0
<1>1. [b \in Bucket |-> 0] \in [Bucket -> Nat] /\ 0 \in Seconds /\ 0 \in 0 .. MaxStops
  BY SecondsAre DEF Ag!DecayAssumption
<1>2. QED
  BY <1>1 DEF Ag!Nothing, Bucket, Rec

LEMMA AllAgeStep ==
  ASSUME Ag!DecayAssumption, AllAge, [Ag!Next]_(Ag!vars)
  PROVE  AllAge'
<1> USE DEF AllAge
<1>1. \A u : \A l, p : Ages(u, l, p) => u \in Rec /\ u.early <= Interval /\ Owes(u, 0) /\ Entries(u) <= MaxEntries
  BY DEF Ages, Sure
\* A step that changes one item.
<1>2. ASSUME NEW i \in Items, NEW v, Ages(v, last, phase), item' = [item EXCEPT ![i] = v],
             UNCHANGED <<last, phase>>
      PROVE  AllAge'
  <2>1. \A k \in Items : item'[k] = IF k = i THEN v ELSE item[k]
    BY <1>2
  <2>2. item' \in [Items -> Rec] /\ last' = last /\ phase' = phase
    BY <1>1, <1>2
  <2>3. \A k \in Items : Ages(item'[k], last', phase')
    BY <1>2, <2>1, <2>2
  <2>4. QED
    BY <2>2, <2>3
\* A step that changes all.
<1>3. ASSUME NEW f, f = [i \in Items |-> f[i]], item' = f, last' \in Bucket, phase' \in 0 .. Interval,
             \A i \in Items : Ages(f[i], last', phase')
      PROVE  AllAge'
  <2>1. f \in [Items -> Rec]
    BY <1>1, <1>3
  <2>2. QED
    BY <1>3, <2>1
<1>4. CASE Ag!Tick
  <2>1. phase' = phase + 1 /\ phase < Interval /\ last' = last /\ phase' \in 0 .. Interval
    BY <1>4, Sizes DEF Ag!Tick
  <2> DEFINE f == [i \in Items |-> IF item[i].kind = "worn"
                                   THEN [item[i] EXCEPT !.spent = @ + 1] ELSE item[i]]
  <2>2. item' = f
    BY <1>4 DEF Ag!Tick
  <2>3. \A i \in Items : Ages(f[i], last', phase')
    BY <1>4, <2>1, Ticked DEF Ag!Tick
  <2>4. f = [i \in Items |-> f[i]]
    OBVIOUS
  <2> HIDE DEF f
  <2>5. QED
    BY <1>3, <2>1, <2>2, <2>3, <2>4
<1>5. CASE Ag!CheckDecay
  <2> DEFINE b == (last + 1) % Buckets
  <2>1. phase = Interval /\ phase' = 0 /\ last' = b /\ b \in Bucket /\ phase' \in 0 .. Interval
    BY <1>5, WaitNext, Sizes DEF Ag!CheckDecay
  <2>2. PICK to \in [Items -> DecayTo] :
          item' = [i \in Items |-> Ag!Cleaned(Ag!Visited(item[i], b, to[i]), b)]
    BY <1>5 DEF Ag!CheckDecay
  <2> DEFINE f == [i \in Items |-> Ag!Cleaned(Ag!Visited(item[i], b, to[i]), b)]
  <2>3. ASSUME NEW i \in Items PROVE Ages(f[i], last', phase')
    <3>1. /\ to[i] \in DecayTo /\ Sure(item[i]) /\ Owes(item[i], 0)
          /\ Fine(item[i]) => InTime(item[i], last, Interval)
      BY <2>1 DEF Ages
    <3> HIDE DEF b
    <3>2. b = (last + 1) % Buckets
      BY DEF b
    <3>3. Ages(Ag!Visited(item[i], b, to[i]), b, 0)
      BY <2>1, <3>1, <3>2, VisitedIs
    <3>4. 0 \in 0 .. Interval
      BY Sizes
    <3>5. Ages(Ag!Cleaned(Ag!Visited(item[i], b, to[i]), b), b, 0)
      BY <2>1, <3>3, <3>4, CleanedIs
    <3>6. QED
      BY <2>1, <3>5
  <2>4. item' = f /\ f = [i \in Items |-> f[i]]
    BY <2>2
  <2> HIDE DEF f, b
  <2>5. QED
    BY <1>3, <2>1, <2>3, <2>4
<1>6. CASE Ag!Cleanup
  <2> DEFINE f == [i \in Items |-> Ag!Cleaned(item[i], last)]
  <2>1. item' = f /\ f = [i \in Items |-> f[i]] /\ last' = last /\ phase' = phase
    BY <1>6 DEF Ag!Cleanup
  <2>2. \A i \in Items : Ages(f[i], last', phase')
    BY <2>1, CleanedIs
  <2> HIDE DEF f
  <2>3. QED
    BY <1>3, <2>1, <2>2
<1>7. ASSUME NEW i \in Items, Ag!TakeOff(i) PROVE AllAge'
  <2> DEFINE v == [item[i] EXCEPT !.kind = "kept", !.stops = @ + 1]
  <2>1. Ages(v, last, phase)
    BY <1>7, TakenOff DEF Ag!TakeOff
  <2>2. item' = [item EXCEPT ![i] = v] /\ UNCHANGED <<last, phase>>
    BY <1>7 DEF Ag!TakeOff
  <2> HIDE DEF v
  <2>3. QED
    BY <1>2, <2>1, <2>2
<1>8. ASSUME NEW i \in Items, Ag!Remove(i) PROVE AllAge'
  <2> DEFINE v == Ag!Removed(item[i])
  <2>1. Ages(v, last, phase)
    BY <1>8, Destroyed DEF Ag!Remove
  <2>2. item' = [item EXCEPT ![i] = v] /\ UNCHANGED <<last, phase>>
    BY <1>8 DEF Ag!Remove
  <2> HIDE DEF v
  <2>3. QED
    BY <1>2, <2>1, <2>2
<1>9. ASSUME NEW i \in Items, NEW to \in DecayTo, Ag!PutOn(i, to) PROVE AllAge'
  <2> DEFINE v == Ag!Started([item[i] EXCEPT !.kind = "worn"], to)
  <2>1. Ages(v, last, phase)
    BY <1>9, PutAgain DEF Ag!PutOn
  <2>2. item' = [item EXCEPT ![i] = v] /\ UNCHANGED <<last, phase>>
    BY <1>9 DEF Ag!PutOn
  <2> HIDE DEF v
  <2>3. QED
    BY <1>2, <2>1, <2>2
<1>10. ASSUME NEW i \in Items, NEW to \in DecayTo, NEW d \in Durations, Ag!Create(i, d, to) PROVE AllAge'
  <2> DEFINE u == [Ag!Nothing EXCEPT !.uses = 1]
             v == Ag!Started(Ag!Renewed(u, d), to)
  <2>1. u \in Rec /\ u.early = 0 /\ u.toFree = 0 /\ u.uses = 1 /\ Entries(u) = 0
    <3> DEFINE n == Ag!Nothing
    <3>1. n \in Rec /\ n.fresh = 0 /\ n.early = 0 /\ n.toFree = 0 /\ \A b \in Bucket : n.entries[b] = 0
      BY NothingIs
    <3> HIDE DEF n
    <3>2. /\ u \in Rec /\ u.fresh = 0 /\ u.early = 0 /\ u.toFree = 0 /\ u.uses = 1
          /\ u.entries \in [Bucket -> Nat] /\ \A b \in Bucket : u.entries[b] = 0
      BY <3>1 DEF n, Rec
    <3>3. Ag!Sum(u.entries) = 0
      BY <3>2, SumNone
    <3> HIDE DEF u
    <3>4. Entries(u) = 0
      BY <3>2, <3>3 DEF Entries, Ag!Entries
    <3>5. QED
      BY <3>2, <3>4
  <2> HIDE DEF u
  <2>2. Owes(Ag!Renewed(u, d), 0)
    BY <2>1, RenewedIs DEF Owes
  <2>3. Entries(u) < MaxEntries /\ u.early <= Interval
    <3>1. MaxEntries > 0
      BY DEF Ag!DecayAssumption
    <3>2. QED
      BY <2>1, <3>1, Sizes
  <2>4. Ages(v, last, phase)
    BY <2>1, <2>2, <2>3, MadeAnew
  <2>5. item' = [item EXCEPT ![i] = v] /\ UNCHANGED <<last, phase>>
    BY <1>10 DEF Ag!Create, u
  <2> HIDE DEF v
  <2>6. QED
    BY <1>2, <2>4, <2>5
<1>11. ASSUME NEW i \in Items, NEW to \in DecayTo, NEW d \in Durations, Ag!Transform(i, d, to) PROVE AllAge'
  <2> DEFINE u == item[i]
             v == Ag!Started(Ag!Renewed(u, d), to)
  <2>1. u \in Rec /\ u.early <= Interval /\ Owes(u, 0) /\ u.kind = "worn" /\ Entries(u) < MaxEntries
    BY <1>1, <1>11 DEF Ag!Transform, Entries
  <2>2. item' = [item EXCEPT ![i] = v] /\ UNCHANGED <<last, phase>>
    BY <1>11 DEF Ag!Transform
  <2> HIDE DEF u
  <2>3. Owes(Ag!Renewed(u, d), 0)
    BY <2>1, RenewedIs DEF Owes
  <2>4. Ages(v, last, phase)
    BY <2>1, <2>3, MadeAnew
  <2> HIDE DEF v
  <2>5. QED
    BY <1>2, <2>2, <2>4
<1>12. CASE UNCHANGED Ag!vars
  <2>1. item' = item /\ last' = last /\ phase' = phase
    BY <1>12 DEF Ag!vars
  <2>2. QED
    BY <2>1
<1>13. QED
  BY <1>4, <1>5, <1>6, <1>7, <1>8, <1>9, <1>10, <1>11, <1>12 DEF Ag!Next

LEMMA AllAgeInit ==
  ASSUME Ag!DecayAssumption, Ag!Init
  PROVE  AllAge
<1> DEFINE u == Ag!Nothing
<1>1. /\ u \in Rec /\ u.fresh = 0 /\ u.early = 0 /\ u.toFree = 0 /\ u.uses = 0 /\ u.kind = "gone"
      /\ u.entries \in [Bucket -> Nat] /\ \A b \in Bucket : u.entries[b] = 0
  BY NothingIs DEF Rec
<1> HIDE DEF u
<1>2. Entries(u) = 0
  <2>1. Ag!Sum(u.entries) = 0
    BY <1>1, SumNone
  <2>2. QED
    BY <1>1, <2>1 DEF Entries, Ag!Entries
<1>3. Ages(u, last, phase)
  <2>1. MaxEntries \in Nat
    BY DEF Ag!DecayAssumption
  <2>2. QED
    BY <1>1, <1>2, <2>1, Sizes DEF Ages, Sure, Owes, Fine
<1>4. item = [i \in Items |-> u] /\ last \in Bucket /\ phase \in 0 .. Interval
  BY Sizes DEF Ag!Init, u
<1>5. QED
  BY <1>1, <1>3, <1>4 DEF AllAge

LEMMA AllAgeMeans ==
  ASSUME Ag!DecayAssumption, AllAge
  PROVE  Ag!DecaySound
<1>1. ASSUME NEW i \in Items
      PROVE  /\ item[i] \in Ag!Item
             /\ item[i].uses = Entries(item[i]) + item[i].toFree + (IF item[i].kind = "gone" THEN 0 ELSE 1)
             /\ item[i].kind # "gone" /\ ~item[i].again =>
                  Entries(item[i]) = (IF item[i].decaying THEN 1 ELSE 0)
             /\ item[i].early <= Interval
             /\ item[i].kind = "worn" /\ ~item[i].again => item[i].spent <= Most(item[i])
  <2> DEFINE u == item[i]
  <2>1. u \in Rec /\ Sure(u) /\ Owes(u, 0) /\ (Fine(u) => InTime(u, last, phase))
        /\ last \in Bucket /\ phase \in 0 .. Interval
    BY DEF AllAge, Ages
  <2> HIDE DEF u
  <2>2. /\ Entries(u) \in Nat /\ u.fresh <= Entries(u) /\ u.fresh \in Nat /\ u.toFree \in Nat
        /\ \A b \in Bucket : u.entries[b] \in Nat /\ u.fresh + u.entries[b] <= Entries(u)
    BY <2>1, EntriesOf DEF Rec
  <2>3. u \in Ag!Item
    <3>1. Entries(u) <= MaxEntries /\ MaxEntries \in Nat
      BY <2>1 DEF Sure, Ag!DecayAssumption
    <3>2. u.fresh \in 0 .. MaxEntries
      BY <2>2, <3>1
    <3>3. u.entries \in [Bucket -> 0 .. MaxEntries]
      <4>1. \A b \in Bucket : u.entries[b] \in 0 .. MaxEntries
        BY <2>2, <3>1
      <4>2. u.entries \in [Bucket -> Nat]
        BY <2>1 DEF Rec
      <4>3. QED
        BY <4>1, <4>2
    <3>4. u.uses \in Nat
      BY <2>1, <2>2 DEF Owes
    <3>5. u.dur \in Int
      BY <2>1, Times
    <3>6. QED
      BY <2>1, <3>2, <3>3, <3>4, <3>5 DEF Rec, Ag!Item, Ag!Kinds, Bucket
  <2>4. u.kind = "worn" /\ ~u.again => u.spent <= Most(u)
    <3> SUFFICES ASSUME u.kind = "worn", ~u.again PROVE u.spent <= Most(u)
      OBVIOUS
    <3>1. Fine(u) /\ u.decaying /\ Entries(u) = 1
      BY <2>1 DEF Fine, Sure
    <3>2. /\ u.dur \in Nat /\ u.spent \in Nat /\ Most(u) \in Int
          /\ Beyond(u.dur) \in Nat /\ Interval \in Nat
      BY <2>1, Times, Sizes
    <3>3. CASE u.fresh > 0
      <4>1. u.spent + u.dur <= Most(u) - Interval
        BY <2>1, <3>1, <3>3 DEF InTime, Waits, Rests
      <4>2. QED
        BY <3>2, <4>1
    <3>4. CASE ~(u.fresh > 0)
      <4>1. u.fresh = 0
        BY <2>2, <3>4
      <4>2. PICK b \in Bucket : u.entries[b] >= 1
        BY <2>1, <3>1, <4>1, OnePlace
      <4> DEFINE w == Wait(b, last, phase)
      <4>3. u.spent + w + Beyond(u.dur) <= Most(u)
        BY <2>1, <2>2, <3>1, <4>2 DEF InTime, Stands
      <4>4. w \in 0 .. Round
        BY <2>1, WaitBounds
      <4> HIDE DEF w
      <4>5. QED
        BY <3>2, <4>3, <4>4, Sizes
    <3>5. QED
      BY <3>3, <3>4
  <2>5. u.uses = Entries(u) + u.toFree + (IF u.kind = "gone" THEN 0 ELSE 1)
    BY <2>1, <2>2 DEF Owes
  <2>6. /\ u.kind # "gone" /\ ~u.again => Entries(u) = (IF u.decaying THEN 1 ELSE 0)
        /\ u.early <= Interval
    BY <2>1 DEF Sure, Fine
  <2>7. QED
    BY <2>3, <2>4, <2>5, <2>6 DEF u
<1>2. item \in [Items -> Ag!Item] /\ last \in Ag!Bucket /\ phase \in 0 .. Interval
  BY <1>1 DEF AllAge, Bucket
<1>3. QED
  BY <1>1, <1>2 DEF Ag!DecaySound, Ag!TypeOK, Ag!Balanced, Ag!OneEntry, Ag!LastsItsTime, Entries, Most

\* Items are counted by the references to them and by their entries in the lists, charged
\* once for each piece of time, and last as long as their types say, whatever the number and
\* the length of the buckets, the durations, and how often an item is taken off, transformed
\* or destroyed while it is in a list: startDecay(), checkDecay() and cleanup() of game.cpp.
THEOREM DecayCorrect ==
  ASSUME Ag!DecayAssumption
  PROVE  Ag!Spec => []Ag!DecaySound
<1>1. Ag!Init => AllAge
  BY AllAgeInit
<1>2. AllAge /\ [Ag!Next]_(Ag!vars) => AllAge'
  BY AllAgeStep
<1>3. AllAge => Ag!DecaySound
  BY AllAgeMeans
<1>4. QED
  BY <1>1, <1>2, <1>3, PTL DEF Ag!Spec

-----------------------------------------------------------------------------
(* The locks of the messages: an instance beside the goods                 *)

CONSTANTS Msgs, None, Manager, Shutdown

VARIABLES disp, io, taken, buffer, autoSend, addQueue, at, writing, open, flushing

Lo == INSTANCE SendLocks

\* What the operators on sequences do to the members.
LEMMA MembersOf ==
  ASSUME NEW s \in Seq(Msgs)
  PROVE  Lo!ToSet(s) = {s[i] : i \in 1 .. Len(s)} /\ Lo!ToSet(s) \subseteq Msgs
  BY DEF Lo!ToSet

LEMMA FewMembers ==
  ASSUME NEW s \in Seq(Msgs)
  PROVE  /\ Len(s) \in Nat
         /\ Len(s) = 0 <=> Lo!ToSet(s) = {}
         /\ Len(s) = 1 => Lo!ToSet(s) = {s[1]}
<1>1. Len(s) \in Nat /\ Lo!ToSet(s) = {s[i] : i \in 1 .. Len(s)}
  BY MembersOf
<1>2. Len(s) = 0 => 1 .. Len(s) = {}
  BY <1>1
<1>3. Len(s) # 0 => 1 \in 1 .. Len(s)
  BY <1>1
<1>4. Len(s) = 1 => 1 .. Len(s) = {1}
  BY <1>1
<1>5. QED
  BY <1>1, <1>2, <1>3, <1>4

LEMMA AtMostOne ==
  ASSUME NEW i \in Nat, NEW j \in Nat, i + j <= 1, i # 0
  PROVE  i = 1 /\ j = 0
  OBVIOUS

LEMMA AppendMembers ==
  ASSUME NEW s \in Seq(Msgs), NEW m \in Msgs
  PROVE  /\ Append(s, m) \in Seq(Msgs) /\ Len(Append(s, m)) = Len(s) + 1
         /\ Lo!ToSet(Append(s, m)) = Lo!ToSet(s) \union {m}
<1>1. /\ Append(s, m) \in Seq(Msgs) /\ Len(Append(s, m)) = Len(s) + 1
      /\ Len(s) \in Nat
      /\ \A i \in 1 .. Len(s) : Append(s, m)[i] = s[i]
      /\ Append(s, m)[Len(s) + 1] = m
  OBVIOUS
<1> DEFINE t == Append(s, m)
<1> HIDE DEF t
<1>2. Lo!ToSet(t) = {t[i] : i \in 1 .. Len(s) + 1}
  BY <1>1, MembersOf DEF t
<1>3. \A i \in 1 .. Len(s) + 1 : i \in 1 .. Len(s) \/ i = Len(s) + 1
  BY <1>1
<1>4. 1 .. Len(s) \subseteq 1 .. Len(s) + 1 /\ Len(s) + 1 \in 1 .. Len(s) + 1
  BY <1>1
<1>5. Lo!ToSet(t) = {t[i] : i \in 1 .. Len(s)} \union {t[Len(s) + 1]}
  BY <1>2, <1>3, <1>4
<1>6. {t[i] : i \in 1 .. Len(s)} = Lo!ToSet(s) /\ t[Len(s) + 1] = m
  BY <1>1, MembersOf DEF t
<1>7. QED
  BY <1>1, <1>5, <1>6 DEF t

LEMMA ConcatMembers ==
  ASSUME NEW s \in Seq(Msgs), NEW t \in Seq(Msgs)
  PROVE  /\ s \o t \in Seq(Msgs) /\ Len(s \o t) = Len(s) + Len(t)
         /\ Lo!ToSet(s \o t) = Lo!ToSet(s) \union Lo!ToSet(t)
<1>1. /\ s \o t \in Seq(Msgs) /\ Len(s \o t) = Len(s) + Len(t)
      /\ Len(s) \in Nat /\ Len(t) \in Nat
      /\ \A i \in 1 .. Len(s) : (s \o t)[i] = s[i]
      /\ \A i \in 1 .. Len(t) : (s \o t)[Len(s) + i] = t[i]
  OBVIOUS
<1> DEFINE u == s \o t
<1> HIDE DEF u
<1>2. Lo!ToSet(u) = {u[i] : i \in 1 .. Len(s) + Len(t)}
  BY <1>1, MembersOf DEF u
<1>3. Lo!ToSet(s) = {u[i] : i \in 1 .. Len(s)} /\ Lo!ToSet(t) = {u[Len(s) + i] : i \in 1 .. Len(t)}
  BY <1>1, MembersOf DEF u
<1>4. \A i \in 1 .. Len(s) + Len(t) :
        i \in 1 .. Len(s) \/ (i - Len(s) \in 1 .. Len(t) /\ i = Len(s) + (i - Len(s)))
  BY <1>1
<1>5. /\ \A i \in 1 .. Len(s) : i \in 1 .. Len(s) + Len(t)
      /\ \A i \in 1 .. Len(t) : Len(s) + i \in 1 .. Len(s) + Len(t)
  BY <1>1
<1>6. Lo!ToSet(u) \subseteq Lo!ToSet(s) \union Lo!ToSet(t)
  <2>1. ASSUME NEW i \in 1 .. Len(s) + Len(t) PROVE u[i] \in Lo!ToSet(s) \union Lo!ToSet(t)
    <3>1. CASE i \in 1 .. Len(s)
      BY <1>3, <3>1
    <3>2. CASE i - Len(s) \in 1 .. Len(t) /\ i = Len(s) + (i - Len(s))
      BY <1>3, <3>2
    <3>3. QED
      BY <1>4, <3>1, <3>2
  <2>2. QED
    BY <1>2, <2>1
<1>7. Lo!ToSet(s) \union Lo!ToSet(t) \subseteq Lo!ToSet(u)
  BY <1>2, <1>3, <1>5
<1>8. QED
  BY <1>1, <1>6, <1>7 DEF u

LEMMA ConcatAt ==
  ASSUME NEW s \in Seq(Msgs), NEW t \in Seq(Msgs)
  PROVE  /\ \A i \in 1 .. Len(s) : (s \o t)[i] = s[i]
         /\ \A i \in 1 .. Len(t) : (s \o t)[Len(s) + i] = t[i]
  OBVIOUS

LEMMA RemoveMembers ==
  ASSUME NEW s \in Seq(Msgs), NEW k \in 1 .. Len(s)
  PROVE  LET r == Lo!RemoveAt(s, k)
         IN  /\ r \in Seq(Msgs) /\ Len(r) = Len(s) - 1
             /\ Lo!ToSet(r) \subseteq Lo!ToSet(s)
             /\ \A m \in Lo!ToSet(s) : m # s[k] => m \in Lo!ToSet(r)
<1> DEFINE r == Lo!RemoveAt(s, k)
           n == Len(s)
<1>0. n \in Nat /\ k \in 1 .. n
  OBVIOUS
<1>1. /\ r \in Seq(Msgs) /\ Len(r) = n - 1
      /\ \A i \in 1 .. n - 1 : r[i] = IF i < k THEN s[i] ELSE s[i + 1]
  <2> DEFINE a == SubSeq(s, 1, k - 1)
             b == SubSeq(s, k + 1, n)
  <2>1. a \in Seq(Msgs) /\ Len(a) = k - 1 /\ \A i \in 1 .. k - 1 : a[i] = s[i]
    OBVIOUS
  <2>2. b \in Seq(Msgs) /\ Len(b) = n - k /\ \A i \in 1 .. n - k : b[i] = s[k + i]
    OBVIOUS
  <2>3. r = a \o b
    BY DEF Lo!RemoveAt
  <2> HIDE DEF a, b, r, n
  <2>4. r \in Seq(Msgs) /\ Len(r) = n - 1
    <3>1. r \in Seq(Msgs)
      BY <2>1, <2>2, <2>3
    <3>2. Len(r) = Len(a) + Len(b)
      BY <2>1, <2>2, <2>3, ConcatMembers
    <3>3. (k - 1) + (n - k) = n - 1
      BY <1>0
    <3>4. QED
      BY <2>1, <2>2, <3>1, <3>2, <3>3
  <2>5. ASSUME NEW i \in 1 .. n - 1 PROVE r[i] = IF i < k THEN s[i] ELSE s[i + 1]
    <3>1. CASE i < k
      <4>1. i \in 1 .. k - 1
        BY <1>0, <3>1
      <4>2. \A j \in 1 .. Len(a) : (a \o b)[j] = a[j]
        BY <2>1, <2>2, ConcatAt
      <4>3. QED
        BY <2>1, <2>3, <3>1, <4>1, <4>2
    <3>2. CASE ~(i < k)
      <4>1. i - (k - 1) \in 1 .. n - k /\ k + (i - (k - 1)) = i + 1
        BY <1>0, <3>2
      <4>2. r[i] = b[i - (k - 1)]
        <5>1. \A j \in 1 .. Len(b) : (a \o b)[Len(a) + j] = b[j]
          BY <2>1, <2>2, ConcatAt
        <5>2. (k - 1) + (i - (k - 1)) = i
          BY <1>0
        <5>3. QED
          BY <2>1, <2>2, <2>3, <4>1, <5>1, <5>2
      <4>3. QED
        BY <2>2, <3>2, <4>1, <4>2
    <3>3. QED
      BY <3>1, <3>2
  <2>6. QED
    BY <2>4, <2>5
<1>2. Lo!ToSet(r) = {r[i] : i \in 1 .. n - 1} /\ Lo!ToSet(s) = {s[i] : i \in 1 .. n}
  BY <1>1, MembersOf
<1> HIDE DEF r, n
<1>3. Lo!ToSet(r) \subseteq Lo!ToSet(s)
  <2>1. \A i \in 1 .. n - 1 : i \in 1 .. n /\ i + 1 \in 1 .. n
    BY <1>0
  <2>2. QED
    BY <1>1, <1>2, <2>1
<1>4. ASSUME NEW m \in Lo!ToSet(s), m # s[k] PROVE m \in Lo!ToSet(r)
  <2>1. PICK i \in 1 .. n : s[i] = m /\ i # k
    BY <1>2, <1>4
  <2>2. CASE i < k
    <3>1. i \in 1 .. n - 1 /\ r[i] = m
      BY <1>0, <1>1, <2>1, <2>2
    <3>2. QED
      BY <1>2, <3>1
  <2>3. CASE i > k
    <3>1. i - 1 \in 1 .. n - 1 /\ ~(i - 1 < k) /\ (i - 1) + 1 = i
      BY <1>0, <2>1, <2>3
    <3>2. r[i - 1] = m
      BY <1>1, <2>1, <3>1
    <3>3. QED
      BY <1>2, <3>1, <3>2
  <2>4. QED
    BY <1>0, <2>1, <2>2, <2>3
<1>5. QED
  BY <1>1, <1>3, <1>4 DEF r, n

\* The messages that sendAll takes over are those that it does not drop.
LEMMA WithoutMembers ==
  ASSUME NEW q \in Seq(Msgs), NEW old
  PROVE  LET r == Lo!Without(q, old)
         IN  /\ r \in Seq(Msgs) /\ Len(r) <= Len(q) /\ Len(r) \in Nat
             /\ Lo!ToSet(r) = Lo!ToSet(q) \ old
<1> DEFINE N == Len(q)
           Upto(n) == {q[i] : i \in 1 .. n} \ old
           Good == [n \in 0 .. N |-> {s \in Seq(Msgs) : Len(s) <= n /\ Lo!ToSet(s) = Upto(n)}]
           H == [p \in Seq(Msgs) \X (1 .. N) |->
                   IF q[p[2]] \in old THEN p[1] ELSE Append(p[1], q[p[2]])]
           Is(T) == T = [n \in 0 .. N |-> IF n = 0 THEN <<>>
                                          ELSE IF q[n] \in old THEN T[n - 1]
                                          ELSE Append(T[n - 1], q[n])]
           U == CHOOSE T : Is(T)
<1>1. N \in Nat /\ \A n \in 1 .. N : n \in 0 .. N /\ n - 1 \in 0 .. N /\ n # 0 /\ q[n] \in Msgs
  OBVIOUS
<1>2. \A t \in Seq(Msgs) : \A n \in 1 .. N :
        H[<<t, n>>] = IF q[n] \in old THEN t ELSE Append(t, q[n])
  OBVIOUS
<1>3. \A n \in 0 .. N : \A s : s \in Good[n] <=>
        s \in Seq(Msgs) /\ Len(s) <= n /\ Lo!ToSet(s) = Upto(n)
  OBVIOUS
<1>4. \A n \in 1 .. N : Upto(n) = IF q[n] \in old THEN Upto(n - 1) ELSE Upto(n - 1) \union {q[n]}
  <2> SUFFICES ASSUME NEW n \in 1 .. N
      PROVE  Upto(n) = IF q[n] \in old THEN Upto(n - 1) ELSE Upto(n - 1) \union {q[n]}
    OBVIOUS
  <2>1. \A i : i \in 1 .. n <=> i \in 1 .. n - 1 \/ i = n
    BY <1>1
  <2>2. {q[i] : i \in 1 .. n} = {q[i] : i \in 1 .. n - 1} \union {q[n]}
    BY <2>1
  <2>3. QED
    BY <2>2
<1>5. Upto(0) = {} /\ Lo!ToSet(<<>>) = {} /\ <<>> \in Seq(Msgs) /\ Len(<<>>) = 0
  BY DEF Lo!ToSet
<1> HIDE DEF H, N, Good, Upto
<1>6. <<>> \in Good[0]
  <2>1. 0 \in 0 .. N /\ Len(<<>>) <= 0
    BY <1>1, <1>5
  <2> DEFINE e == <<>>
  <2>2. e \in Seq(Msgs) /\ Len(e) <= 0 /\ Lo!ToSet(e) = Upto(0)
    BY <1>5, <2>1
  <2> HIDE DEF e
  <2>3. e \in Good[0]
    BY <1>3, <2>1, <2>2
  <2>4. QED
    BY <2>3 DEF e
<1>7. Steps(H, N, Good)
  <2> SUFFICES ASSUME NEW n \in 1 .. N, NEW t \in Good[n - 1] PROVE H[<<t, n>>] \in Good[n]
    BY DEF Steps
  <2>1. n \in 0 .. N /\ n - 1 \in 0 .. N /\ q[n] \in Msgs
    BY <1>1
  <2>2. t \in Seq(Msgs) /\ Len(t) <= n - 1 /\ Lo!ToSet(t) = Upto(n - 1) /\ Len(t) \in Nat
    BY <1>3, <2>1
  <2>3. CASE q[n] \in old
    <3>1. H[<<t, n>>] = t /\ Upto(n) = Upto(n - 1) /\ Len(t) <= n
      BY <1>1, <1>2, <1>4, <2>2, <2>3
    <3>2. QED
      BY <1>3, <2>1, <2>2, <3>1
  <2>4. CASE q[n] \notin old
    <3>1. H[<<t, n>>] = Append(t, q[n]) /\ Upto(n) = Upto(n - 1) \union {q[n]}
      BY <1>2, <1>4, <2>2, <2>4
    <3>2. /\ Append(t, q[n]) \in Seq(Msgs) /\ Len(Append(t, q[n])) = Len(t) + 1
          /\ Lo!ToSet(Append(t, q[n])) = Lo!ToSet(t) \union {q[n]}
      BY <2>1, <2>2, AppendMembers
    <3>3. Len(t) + 1 <= n
      BY <1>1, <2>2
    <3> DEFINE u == Append(t, q[n])
    <3> HIDE DEF u
    <3>4. u \in Seq(Msgs) /\ Len(u) <= n /\ Lo!ToSet(u) = Upto(n)
      BY <2>2, <3>1, <3>2, <3>3 DEF u
    <3>5. QED
      BY <1>3, <2>1, <3>1, <3>4 DEF u
  <2>5. QED
    BY <2>3, <2>4
<1>8. PICK T : /\ T = [n \in 0 .. N |-> IF n = 0 THEN <<>> ELSE H[<<T[n - 1], n>>]]
               /\ \A n \in 0 .. N : T[n] \in Good[n]
  <2> HIDE DEF Is, U
  <2>1. N \in Nat
    BY <1>1
  <2>2. \E T : Turns(T, H, N, Good, <<>>)
    BY <1>6, <1>7, <2>1, LoopExists
  <2>3. QED
    BY <2>2 DEF Turns
<1>9. Is(T)
  <2>1. \A n \in 0 .. N : n # 0 =>
          H[<<T[n - 1], n>>] = IF q[n] \in old THEN T[n - 1] ELSE Append(T[n - 1], q[n])
    <3> SUFFICES ASSUME NEW n \in 0 .. N, n # 0
        PROVE  H[<<T[n - 1], n>>] = IF q[n] \in old THEN T[n - 1] ELSE Append(T[n - 1], q[n])
      OBVIOUS
    <3>1. n \in 1 .. N /\ n - 1 \in 0 .. N
      BY <1>1
    <3>2. T[n - 1] \in Seq(Msgs)
      BY <1>3, <1>8, <3>1
    <3>3. QED
      BY <1>2, <3>1, <3>2
  <2>2. \A n \in 0 .. N : (IF n = 0 THEN <<>> ELSE H[<<T[n - 1], n>>])
          = (IF n = 0 THEN <<>> ELSE IF q[n] \in old THEN T[n - 1] ELSE Append(T[n - 1], q[n]))
    BY <2>1
  <2>3. [n \in 0 .. N |-> IF n = 0 THEN <<>> ELSE H[<<T[n - 1], n>>]]
          = [n \in 0 .. N |-> IF n = 0 THEN <<>>
                              ELSE IF q[n] \in old THEN T[n - 1] ELSE Append(T[n - 1], q[n])]
    BY <2>2
  <2>4. QED
    BY <1>8, <2>3
<1>10. Is(U)
  BY <1>9
<1>11. Lo!Without(q, old) = U[N]
  BY DEF Lo!Without, N
<1>12. \A n \in 0 .. N : U[n] = IF n = 0 THEN <<>>
                               ELSE IF q[n] \in old THEN U[n - 1] ELSE Append(U[n - 1], q[n])
  <2> HIDE DEF U
  <2>1. QED
    BY <1>10
<1> HIDE DEF Is, U
<1>13. Stays(U, N, Good)
  <2>1. U[0] \in Good[0]
    BY <1>1, <1>6, <1>12
  <2>2. \A n \in 1 .. N : U[n - 1] \in Good[n - 1] => U[n] \in Good[n]
    <3> SUFFICES ASSUME NEW n \in 1 .. N, U[n - 1] \in Good[n - 1] PROVE U[n] \in Good[n]
      OBVIOUS
    <3>1. U[n - 1] \in Seq(Msgs)
      BY <1>1, <1>3
    <3>2. U[n] = H[<<U[n - 1], n>>]
      BY <1>1, <1>2, <1>12, <3>1
    <3>3. QED
      BY <1>7, <3>2 DEF Steps
  <2>3. QED
    BY <2>1, <2>2 DEF Stays
<1>14. U[N] \in Good[N]
  <2>1. N \in Nat /\ N \in 0 .. N
    BY <1>1
  <2>2. QED
    BY <1>13, <2>1, LoopStays
<1>15. Upto(N) = Lo!ToSet(q) \ old
  BY MembersOf DEF Upto, N
<1>16. U[N] \in Seq(Msgs) /\ Len(U[N]) <= N /\ Lo!ToSet(U[N]) = Lo!ToSet(q) \ old
  BY <1>1, <1>3, <1>14, <1>15
<1>17. QED
  BY <1>11, <1>16 DEF N

\* Only an account manager's thread of the network takes messages; what a thread took is
\* queued until it has stored it, and sendAll's place is one of the list.
Places ==
  /\ io \in {"take", "store"} => Manager
  /\ \A t \in {"disp", "io"} : taken[t] # None => taken[t] \in Lo!ToSet(autoSend)
  /\ taken["disp"] # None <=> disp = "store"
  /\ taken["io"] # None <=> io = "store"
  /\ at > 0 /\ (disp = "send" => at <= Len(autoSend))
  /\ ~Manager /\ disp = "take" => buffer = None

Locked == Lo!TypeOK /\ Places /\ Lo!BufferQueued /\ Lo!OneQueued

LEMMA LocksInit == ASSUME Lo!SendLocksAssumption, Lo!Init PROVE Locked
<1>1. Lo!TypeOK
  <2>1. open \in BOOLEAN /\ flushing \in BOOLEAN
    BY DEF Lo!Init
  <2>2. QED
    BY <2>1 DEF Lo!Init, Lo!TypeOK
<1>2. Lo!ToSet(autoSend) = {} /\ Lo!ToSet(addQueue) = {}
  BY DEF Lo!Init, Lo!ToSet
<1>3. Len(autoSend) = 0 /\ Len(addQueue) = 0
  BY DEF Lo!Init
<1>4. QED
  BY <1>1, <1>2, <1>3 DEF Lo!Init, Locked, Places, Lo!BufferQueued, Lo!OneQueued, Lo!Queued

\* Most steps leave the messages where they are.
LEMMA ThreadSteps ==
  ASSUME Lo!SendLocksAssumption, Locked,
         \/ Lo!TaskBegins \/ Lo!TaskSilent \/ Lo!TaskAnswers \/ Lo!SendNext \/ Lo!SendAllEnds
         \/ Lo!SendWaits \/ Lo!Flush
         \/ Lo!Packet \/ Lo!ReadError \/ Lo!OnWrite \/ Lo!Post \/ UNCHANGED Lo!vars
  PROVE  Locked'
<1> USE DEF Lo!TaskBegins, Lo!TaskSilent, Lo!TaskAnswers, Lo!SendNext, Lo!SendAllEnds,
            Lo!SendWaits, Lo!Flush, Lo!Packet, Lo!PacketHandled, Lo!ReadError, Lo!OnWrite,
            Lo!Post, Lo!vars
<1>1. UNCHANGED <<taken, buffer, autoSend, addQueue>>
  OBVIOUS
<1>2. Lo!BufferQueued' /\ Lo!OneQueued'
  BY <1>1 DEF Locked, Lo!BufferQueued, Lo!OneQueued, Lo!Queued
<1>3. Lo!TypeOK'
  <2>1. disp' \in {"idle", "task", "take", "store", "ended", "next", "send"}
    BY DEF Locked, Lo!TypeOK
  <2>2. io' \in {"idle", "take", "store", "post"}
    BY DEF Locked, Lo!TypeOK
  <2>3. at' \in Nat /\ writing' \subseteq Msgs
    <3>1. at' = at \/ at' = at + 1
      OBVIOUS
    <3>2. writing' = writing \/ writing' = {}
      OBVIOUS
    <3>3. QED
      BY <3>1, <3>2 DEF Locked, Lo!TypeOK
  <2>4. open' \in BOOLEAN /\ flushing' \in BOOLEAN
    BY DEF Locked, Lo!TypeOK
  <2>5. QED
    BY <1>1, <2>1, <2>2, <2>3, <2>4 DEF Locked, Lo!TypeOK
<1>4. Places'
  <2>1. io' \in {"take", "store"} => Manager
    BY DEF Locked, Places, Lo!TypeOK
  <2>2. disp' = "store" <=> disp = "store"
    OBVIOUS
  <2>3. io' = "store" <=> io = "store"
    OBVIOUS
  <2>4. at' > 0 /\ (disp' = "send" => at' <= Len(autoSend))
    <3>1. at' = at \/ (at' = at + 1 /\ disp' = "next")
      OBVIOUS
    <3>2. disp' = "send" => disp = "send" \/ at <= Len(autoSend)
      OBVIOUS
    <3>3. at \in Nat /\ at > 0 /\ (disp = "send" => at <= Len(autoSend))
      BY DEF Locked, Places, Lo!TypeOK
    <3>4. QED
      BY <3>1, <3>2, <3>3
  <2>5. disp' = "take" => disp = "take" \/ buffer = None
    OBVIOUS
  <2>6. QED
    BY <1>1, <2>1, <2>2, <2>3, <2>4, <2>5 DEF Locked, Places
<1>5. QED
  BY <1>2, <1>3, <1>4 DEF Locked

LEMMA TakeSteps ==
  ASSUME Lo!SendLocksAssumption, Locked, Lo!TaskTakes \/ Lo!PacketTakes PROVE Locked'
<1> USE DEF Locked, Lo!TypeOK
<1>1. PICK t \in {"disp", "io"}, m \in Msgs :
        /\ taken' = [taken EXCEPT ![t] = m] /\ autoSend' = Append(autoSend, m)
        /\ UNCHANGED <<buffer, addQueue, at, writing, open, flushing>>
        /\ disp # "send"
        /\ \/ t = "disp" /\ disp = "take" /\ disp' = "store" /\ UNCHANGED io
           \/ t = "io" /\ io = "take" /\ io' = "store" /\ UNCHANGED disp
  BY DEF Lo!TaskTakes, Lo!PacketTakes, Lo!Take, Lo!PoolHeld
<1>2. /\ autoSend' \in Seq(Msgs) /\ Len(autoSend') = Len(autoSend) + 1
      /\ Lo!ToSet(autoSend)' = Lo!ToSet(autoSend) \union {m}
  BY <1>1, AppendMembers, SMTT(60) DEF Lo!ToSet
<1>3. /\ taken' \in [{"disp", "io"} -> Msgs \union {None}]
      /\ taken'[t] = m /\ \A s \in {"disp", "io"} : s # t => taken'[s] = taken[s]
      /\ m # None
  BY <1>1 DEF Lo!SendLocksAssumption
<1>4. Lo!TypeOK'
  BY <1>1, <1>2, <1>3
<1>5. Places'
  <2>1. \A s \in {"disp", "io"} : taken'[s] # None => taken'[s] \in Lo!ToSet(autoSend)'
    BY <1>2, <1>3 DEF Places
  <2>2. /\ taken'["disp"] # None <=> disp' = "store"
        /\ taken'["io"] # None <=> io' = "store"
    BY <1>1, <1>3 DEF Places
  <2>3. QED
    BY <1>1, <2>1, <2>2 DEF Places
<1>6. Lo!BufferQueued'
  BY <1>1, <1>2 DEF Lo!BufferQueued, Lo!Queued, Lo!ToSet
<1>7. Lo!OneQueued'
  <2> SUFFICES ASSUME ~Manager
      PROVE  /\ Len(autoSend') + Len(addQueue') <= 1
             /\ Lo!Queued' \subseteq {buffer', taken'["disp"]}
    BY DEF Lo!OneQueued
  <2>1. t = "disp" /\ buffer = None /\ taken["disp"] = None
    BY <1>1 DEF Places
  <2>2. Lo!Queued = {}
    BY <2>1, MembersOf DEF Lo!OneQueued, Lo!Queued, Lo!SendLocksAssumption
  <2>3. Lo!ToSet(autoSend) = {} /\ Lo!ToSet(addQueue) = {}
    BY <2>2 DEF Lo!Queued
  <2>4. Len(autoSend) = 0 /\ Len(addQueue) = 0
    BY <2>3, FewMembers
  <2>5. Lo!Queued' = {m}
    BY <1>1, <1>2, <2>3 DEF Lo!Queued, Lo!ToSet
  <2>6. QED
    BY <1>1, <1>2, <1>3, <2>1, <2>4, <2>5
<1>8. QED
  BY <1>4, <1>5, <1>6, <1>7

LEMMA StoreSteps ==
  ASSUME Lo!SendLocksAssumption, Locked, Lo!TaskStores \/ Lo!PacketStores PROVE Locked'
<1> USE DEF Locked, Lo!TypeOK
<1>1. PICK t \in {"disp", "io"} :
        /\ taken' = [taken EXCEPT ![t] = None] /\ buffer' = taken[t]
        /\ UNCHANGED <<autoSend, addQueue, at, writing, open, flushing>>
        /\ \/ t = "disp" /\ disp = "store" /\ disp' = "ended" /\ UNCHANGED io
           \/ t = "io" /\ io = "store" /\ io' = "idle" /\ UNCHANGED disp
  BY DEF Lo!TaskStores, Lo!PacketStores
<1>2. /\ taken' \in [{"disp", "io"} -> Msgs \union {None}]
      /\ taken'[t] = None /\ \A s \in {"disp", "io"} : s # t => taken'[s] = taken[s]
  BY <1>1
<1>3. Lo!TypeOK'
  BY <1>1, <1>2
<1>4. Lo!ToSet(autoSend)' = Lo!ToSet(autoSend) /\ Lo!Queued' = Lo!Queued
  BY <1>1 DEF Lo!ToSet, Lo!Queued
<1>5. taken[t] \in Lo!ToSet(autoSend)
  BY <1>1 DEF Places
<1>6. Places'
  BY <1>1, <1>2, <1>4 DEF Places
<1>7. Lo!BufferQueued'
  BY <1>1, <1>4, <1>5 DEF Lo!BufferQueued, Lo!Queued
<1>8. Lo!OneQueued'
  <2> SUFFICES ASSUME ~Manager
      PROVE  /\ Len(autoSend') + Len(addQueue') <= 1
             /\ Lo!Queued' \subseteq {buffer', taken'["disp"]}
    BY DEF Lo!OneQueued
  <2>1. t = "disp"
    BY <1>1 DEF Places
  <2>2. Len(autoSend) + Len(addQueue) <= 1 /\ Lo!Queued \subseteq {buffer, taken["disp"]}
    BY DEF Lo!OneQueued
  <2>3. Lo!Queued = {taken["disp"]}
    <3>1. Len(autoSend) # 0 /\ Len(autoSend) \in Nat /\ Len(addQueue) \in Nat
      BY <1>5, FewMembers
    <3>2. Len(autoSend) = 1 /\ Len(addQueue) = 0
      BY <2>2, <3>1, AtMostOne, Zenon
    <3>3. Lo!ToSet(addQueue) = {} /\ Lo!ToSet(autoSend) = {autoSend[1]}
      BY <3>2, FewMembers
    <3>4. QED
      BY <1>5, <2>1, <3>3 DEF Lo!Queued
  <2>4. QED
    BY <1>1, <1>4, <2>1, <2>2, <2>3
<1>9. QED
  BY <1>3, <1>6, <1>7, <1>8

LEMMA SendAllBeginsStep ==
  ASSUME Lo!SendLocksAssumption, Locked, Lo!SendAllBegins PROVE Locked'
<1> USE DEF Locked, Lo!TypeOK
<1>1. PICK old \in SUBSET Lo!ToSet(addQueue) : Lo!SendAllTakesOver(old)
  BY DEF Lo!SendAllBegins
<1> DEFINE r == Lo!Without(addQueue, old)
<1>2. /\ disp = "ended" /\ disp' = "next" /\ at' = 1 /\ addQueue' = <<>>
      /\ autoSend' = autoSend \o r
      /\ buffer' = IF buffer \in old THEN None ELSE buffer
      /\ UNCHANGED <<io, taken, writing, open, flushing>>
  BY <1>1 DEF Lo!SendAllBegins, Lo!SendAllTakesOver
<1>3. /\ r \in Seq(Msgs) /\ Len(r) <= Len(addQueue) /\ Len(r) \in Nat
      /\ Lo!ToSet(r) = Lo!ToSet(addQueue) \ old
  BY WithoutMembers
<1> HIDE DEF r
<1>4. /\ autoSend' \in Seq(Msgs) /\ Len(autoSend') = Len(autoSend) + Len(r)
      /\ Lo!ToSet(autoSend') = Lo!ToSet(autoSend) \union Lo!ToSet(r)
  BY <1>2, <1>3, ConcatMembers
<1>5. Lo!ToSet(addQueue') = {} /\ Len(addQueue') = 0 /\ addQueue' \in Seq(Msgs)
  BY <1>2 DEF Lo!ToSet
<1>6. Lo!Queued' = Lo!ToSet(autoSend) \union (Lo!ToSet(addQueue) \ old)
  BY <1>3, <1>4, <1>5 DEF Lo!Queued, Lo!ToSet
<1>7. Lo!TypeOK'
  BY <1>2, <1>4, <1>5
<1>8. Places'
  <2>1. \A s \in {"disp", "io"} : taken'[s] # None => taken'[s] \in Lo!ToSet(autoSend)'
    BY <1>2, <1>4 DEF Places, Lo!ToSet
  <2>2. QED
    BY <1>2, <2>1 DEF Places
<1>9. Lo!BufferQueued'
  BY <1>2, <1>6 DEF Lo!BufferQueued, Lo!Queued
<1>10. Lo!OneQueued'
  <2> SUFFICES ASSUME ~Manager
      PROVE  /\ Len(autoSend') + Len(addQueue') <= 1
             /\ Lo!Queued' \subseteq {buffer', taken'["disp"]}
    BY DEF Lo!OneQueued
  <2>1. /\ Len(autoSend) + Len(addQueue) <= 1 /\ Lo!Queued \subseteq {buffer, taken["disp"]}
        /\ Len(autoSend) \in Nat /\ Len(addQueue) \in Nat
    BY DEF Lo!OneQueued
  <2>2. Len(autoSend') + Len(addQueue') <= 1
    BY <1>3, <1>4, <1>5, <2>1
  <2>3. taken["disp"] = None /\ taken' = taken
    BY <1>2 DEF Places
  <2>4. Lo!ToSet(autoSend) \subseteq Msgs /\ Lo!ToSet(addQueue) \subseteq Msgs
    BY MembersOf
  <2>5. Lo!Queued \subseteq {buffer}
    BY <2>1, <2>3, <2>4 DEF Lo!Queued, Lo!SendLocksAssumption
  <2>6. CASE buffer \in old
    <3>1. Len(addQueue) # 0
      BY <1>1, <2>6, FewMembers
    <3>2. Len(autoSend) = 0
      BY <2>1, <3>1
    <3>3. Lo!ToSet(autoSend) = {}
      BY <3>2, FewMembers
    <3>4. Lo!Queued' = {}
      BY <1>6, <2>5, <2>6, <3>3 DEF Lo!Queued
    <3>5. QED
      BY <2>2, <3>4
  <2>7. CASE buffer \notin old
    BY <1>2, <1>6, <2>2, <2>5, <2>7 DEF Lo!Queued
  <2>8. QED
    BY <2>6, <2>7
<1>11. QED
  BY <1>7, <1>8, <1>9, <1>10

LEMMA SendLockedStep ==
  ASSUME Lo!SendLocksAssumption, Locked, Lo!SendLocked PROVE Locked'
<1> USE DEF Locked, Lo!TypeOK
<1> DEFINE m == autoSend[at]
<1>1. /\ disp = "send" /\ disp' = "next" /\ io \notin {"take", "store"}
      /\ autoSend' = Lo!RemoveAt(autoSend, at)
      /\ \/ addQueue' = Append(addQueue, m) /\ buffer' = buffer /\ writing' = writing
         \/ /\ addQueue' = addQueue /\ buffer' = IF buffer = m THEN None ELSE buffer
            /\ writing' \in {writing, {m}}
      /\ UNCHANGED <<io, taken, at, open, flushing>>
  BY DEF Lo!SendLocked, Lo!Send, Lo!Unbuffered, Lo!ConnHeld
<1>2. at \in 1 .. Len(autoSend) /\ m \in Msgs
  BY <1>1 DEF Places
<1>3. /\ autoSend' \in Seq(Msgs) /\ Len(autoSend') = Len(autoSend) - 1
      /\ Lo!ToSet(autoSend') \subseteq Lo!ToSet(autoSend)
      /\ \A x \in Lo!ToSet(autoSend) : x # m => x \in Lo!ToSet(autoSend')
  BY <1>1, <1>2, RemoveMembers
<1>4. m \in Lo!ToSet(autoSend)
  BY <1>2, MembersOf
<1> HIDE DEF m
<1>5. /\ addQueue' \in Seq(Msgs)
      /\ \/ /\ Len(addQueue') = Len(addQueue) + 1 /\ buffer' = buffer
            /\ Lo!ToSet(addQueue') = Lo!ToSet(addQueue) \union {m}
         \/ addQueue' = addQueue /\ buffer' = IF buffer = m THEN None ELSE buffer
  <2>1. /\ Append(addQueue, m) \in Seq(Msgs) /\ Len(Append(addQueue, m)) = Len(addQueue) + 1
        /\ Lo!ToSet(Append(addQueue, m)) = Lo!ToSet(addQueue) \union {m}
    BY <1>2, AppendMembers
  <2>2. CASE addQueue' = Append(addQueue, m) /\ buffer' = buffer
    BY <2>1, <2>2
  <2>3. CASE addQueue' = addQueue /\ buffer' = IF buffer = m THEN None ELSE buffer
    BY <2>3
  <2>4. QED
    BY <1>1, <2>2, <2>3
<1>6. taken["disp"] = None /\ taken["io"] = None
  BY <1>1 DEF Places
<1>7. Lo!TypeOK'
  <2>1. writing' \subseteq Msgs
    BY <1>1, <1>2
  <2>2. QED
    BY <1>1, <1>3, <1>5, <2>1
<1>8. Places'
  BY <1>1, <1>6 DEF Places
<1>9. Lo!Queued' = Lo!ToSet(autoSend') \union Lo!ToSet(addQueue')
  BY DEF Lo!Queued, Lo!ToSet
<1>10. Lo!BufferQueued'
  <2> SUFFICES ASSUME buffer' # None PROVE buffer' \in Lo!ToSet(autoSend') \union Lo!ToSet(addQueue')
    BY <1>9 DEF Lo!BufferQueued
  <2>1. buffer' = buffer /\ buffer \in Lo!ToSet(autoSend) \union Lo!ToSet(addQueue)
    BY <1>1 DEF Lo!BufferQueued, Lo!Queued
  <2>2. QED
    BY <1>3, <1>5, <2>1
<1>11. Lo!OneQueued'
  <2> SUFFICES ASSUME ~Manager
      PROVE  /\ Len(autoSend') + Len(addQueue') <= 1
             /\ Lo!Queued' \subseteq {buffer', taken'["disp"]}
    BY DEF Lo!OneQueued
  <2>1. /\ Len(autoSend) + Len(addQueue) <= 1 /\ Lo!Queued \subseteq {buffer, taken["disp"]}
        /\ Len(autoSend) \in Nat /\ Len(addQueue) \in Nat
    BY DEF Lo!OneQueued
  <2>2. Len(autoSend) = 1 /\ Len(addQueue) = 0
    <3>1. Len(autoSend) # 0
      BY <1>4, FewMembers
    <3>2. QED
      BY <2>1, <3>1, AtMostOne, Zenon
  <2>3. Len(autoSend') = 0 /\ Len(addQueue') <= 1 /\ Len(addQueue') \in Nat
    <3>1. Len(autoSend') = 1 - 1
      BY <1>3, <2>2, Zenon
    <3>2. Len(addQueue') = 0 + 1 \/ Len(addQueue') = 0
      BY <1>5, <2>2, Zenon
    <3>3. 1 - 1 = 0 /\ 0 + 1 = 1 /\ 0 <= 1 /\ 1 <= 1 /\ 0 \in Nat /\ 1 \in Nat
      OBVIOUS
    <3>4. QED
      BY <3>1, <3>2, <3>3, Zenon
  <2>4. m = buffer
    BY <1>2, <1>4, <1>6, <2>1 DEF Lo!Queued, Lo!SendLocksAssumption
  <2>5. Lo!ToSet(autoSend') = {} /\ Lo!ToSet(addQueue) = {}
    BY <1>3, <2>2, <2>3, FewMembers
  <2>6. Lo!Queued' \subseteq {buffer'}
    BY <1>5, <1>9, <2>4, <2>5
  <2>7. QED
    BY <2>3, <2>6
<1>12. QED
  BY <1>7, <1>8, <1>10, <1>11

LEMMA LocksNext ==
  ASSUME Lo!SendLocksAssumption, Locked, [Lo!Next]_(Lo!vars) PROVE Locked'
  BY ThreadSteps, TakeSteps, StoreSteps, SendAllBeginsStep, SendLockedStep
     DEF Lo!Next, Lo!Dispatch, Lo!Service

\* Whatever the two threads do at once: they wait for each other only when flush runs the
\* last tasks or for an account manager, the message a protocol fills is one that sendAll
\* visits, and there is one (LocksHold of SendLocks, which LocksSound of MCNetwork checks).
THEOREM LocksCorrect ==
  ASSUME Lo!SendLocksAssumption PROVE Lo!Spec => []Lo!LocksHold
<1>1. Lo!Init => Locked
  BY LocksInit
<1>2. Locked /\ [Lo!Next]_(Lo!vars) => Locked'
  BY LocksNext
<1>3. Locked => Lo!LocksHold
  BY DEF Locked, Places, Lo!LocksHold, Lo!NoCircularWait, Lo!WaitForEachOther
<1>4. QED
  BY <1>1, <1>2, <1>3, PTL DEF Lo!Spec

-----------------------------------------------------------------------------
(* The waiting list: an instance beside the goods                          *)

CONSTANTS Clients, Welcome, Patient, Buyers, MaxPlayers, SkipWaits
VARIABLES waitList, waiting, premium, skipWait, refused

Wa == INSTANCE WaitList WITH AlwaysLogin <- Welcome, online <- waiting

\* An entry: time passes in steps of five seconds.
Lefts == {l \in -5 .. 135 : \E k \in -1 .. 27 : l = 5 * k}
LineEntries == [who : Clients, premium : BOOLEAN, left : Lefts]

\* A list in which nobody is twice, and premium ones come before the others.
OnceEach(l) == \A i, j \in 1 .. Len(l) : l[i].who = l[j].who => i = j
PremiumsFirst(l) == \A i, j \in 1 .. Len(l) : i < j /\ l[j].premium => l[i].premium
Lines == {l \in Seq(LineEntries) : OnceEach(l) /\ PremiumsFirst(l)}

\* The inductive invariant of the waiting list.
InLine ==
  /\ waitList \in Lines
  /\ waiting \subseteq Clients /\ IsFiniteSet(waiting)
  /\ premium \subseteq Buyers /\ refused \subseteq Clients /\ skipWait \in SkipWaits

LEMMA LineShape ==
  ASSUME NEW l \in Lines
  PROVE  /\ l \in Seq(LineEntries) /\ Len(l) \in Nat /\ DOMAIN l = 1 .. Len(l)
         /\ \A i \in 1 .. Len(l) : l[i] \in LineEntries /\ l[i].who \in Clients
         /\ \A i, j \in 1 .. Len(l) : l[i].who = l[j].who => i = j
         /\ \A i, j \in 1 .. Len(l) : i < j /\ l[j].premium => l[i].premium
<1>1. l \in Seq(LineEntries) /\ OnceEach(l) /\ PremiumsFirst(l)
  BY DEF Lines
<1>2. \A w \in LineEntries : w.who \in Clients
  BY DEF LineEntries
<1>3. Len(l) \in Nat /\ DOMAIN l = 1 .. Len(l) /\ \A i \in 1 .. Len(l) : l[i] \in LineEntries
  BY <1>1
<1>4. QED
  BY <1>1, <1>2, <1>3 DEF OnceEach, PremiumsFirst

\* find() finds the only entry of a client.
LEMMA FindFinds ==
  ASSUME NEW l \in Lines, NEW c
  PROVE  /\ \A i \in 1 .. Len(l) : l[i].who = c => Wa!Find(l, c) = i
         /\ (\A i \in 1 .. Len(l) : l[i].who # c) => Wa!Find(l, c) = 0
<1> DEFINE I == {i \in 1 .. Len(l) : l[i].who = c}
<1>1. Wa!Find(l, c) = IF I # {} THEN CHOOSE x \in I : \A y \in I : x <= y ELSE 0
  BY DEF Wa!Find, Wa!SelectInSeq, Wa!Min
<1>2. ASSUME NEW i \in I PROVE (CHOOSE x \in I : \A y \in I : x <= y) = i
  <2>1. \A y \in I : y = i
    BY LineShape
  <2>2. i \in I /\ \A y \in I : i <= y
    BY <2>1, LineShape
  <2> HIDE DEF I
  <2>3. QED
    BY <2>1, <2>2
<1>3. QED
  BY <1>1, <1>2

LEMMA FindShape ==
  ASSUME NEW l \in Lines, NEW c
  PROVE  /\ Wa!Find(l, c) \in 0 .. Len(l)
         /\ Wa!Find(l, c) # 0 =>
              Wa!Find(l, c) \in 1 .. Len(l) /\ l[Wa!Find(l, c)].who = c
         /\ Wa!Find(l, c) = 0 => \A i \in 1 .. Len(l) : l[i].who # c
<1>1. CASE \E i \in 1 .. Len(l) : l[i].who = c
  <2>1. PICK i \in 1 .. Len(l) : l[i].who = c
    BY <1>1
  <2>2. Wa!Find(l, c) = i /\ i \in 0 .. Len(l) /\ i # 0
    BY <2>1, FindFinds, LineShape
  <2>3. QED
    BY <2>1, <2>2
<1>2. CASE \A i \in 1 .. Len(l) : l[i].who # c
  <2>1. Wa!Find(l, c) = 0 /\ 0 \in 0 .. Len(l)
    BY <1>2, FindFinds, LineShape
  <2>2. QED
    BY <1>2, <2>1
<1>3. QED
  BY <1>1, <1>2

\* The first of two clients is found before the second.
LEMMA BeforeIs ==
  ASSUME NEW l \in Lines, NEW c, NEW d
  PROVE  Wa!Before(l, c, d) <=>
           \E i, j \in 1 .. Len(l) : i < j /\ l[i].who = c /\ l[j].who = d
<1>1. ASSUME Wa!Before(l, c, d)
      PROVE  \E i, j \in 1 .. Len(l) : i < j /\ l[i].who = c /\ l[j].who = d
  <2> DEFINE i == Wa!Find(l, c)
             j == Wa!Find(l, d)
  <2>1. i # 0 /\ i < j /\ i \in 0 .. Len(l) /\ j \in 0 .. Len(l)
    BY <1>1, FindShape DEF Wa!Before
  <2>2. j # 0
    BY <2>1, LineShape
  <2>3. i \in 1 .. Len(l) /\ l[i].who = c /\ j \in 1 .. Len(l) /\ l[j].who = d
    BY <2>1, <2>2, FindShape
  <2> HIDE DEF i, j
  <2>4. QED
    BY <2>1, <2>3
<1>2. ASSUME NEW i \in 1 .. Len(l), NEW j \in 1 .. Len(l), i < j, l[i].who = c, l[j].who = d
      PROVE  Wa!Before(l, c, d)
  <2>1. Wa!Find(l, c) = i /\ Wa!Find(l, d) = j /\ i # 0
    BY <1>2, FindFinds, LineShape
  <2>2. QED
    BY <1>2, <2>1 DEF Wa!Before
<1>3. QED
  BY <1>1, <1>2

\* n has entries of l, those at the places m, in their order.
Follows(n, l, m) ==
  /\ m \in [1 .. Len(n) -> 1 .. Len(l)]
  /\ \A i, j \in 1 .. Len(n) : i < j => m[i] < m[j]
  /\ \A i \in 1 .. Len(n) : n[i].who = l[m[i]].who /\ (n[i].premium <=> l[m[i]].premium)

LEMMA FollowsLine ==
  ASSUME NEW l \in Lines, NEW n \in Seq(LineEntries), NEW m, Follows(n, l, m)
  PROVE  n \in Lines
<1>0. Len(n) \in Nat /\ Len(l) \in Nat
  BY LineShape
<1>1. OnceEach(n)
  <2> SUFFICES ASSUME NEW i \in 1 .. Len(n), NEW j \in 1 .. Len(n), n[i].who = n[j].who
      PROVE  i = j
    BY DEF OnceEach
  <2>1. m[i] \in 1 .. Len(l) /\ m[j] \in 1 .. Len(l) /\ l[m[i]].who = l[m[j]].who
    BY DEF Follows
  <2>2. m[i] = m[j]
    BY <2>1, LineShape
  <2>3. ~(i < j) /\ ~(j < i)
    BY <1>0, <2>1, <2>2 DEF Follows
  <2>4. QED
    BY <1>0, <2>3
<1>2. PremiumsFirst(n)
  <2> SUFFICES ASSUME NEW i \in 1 .. Len(n), NEW j \in 1 .. Len(n), i < j, n[j].premium
      PROVE  n[i].premium
    BY DEF PremiumsFirst
  <2>1. m[i] \in 1 .. Len(l) /\ m[j] \in 1 .. Len(l) /\ m[i] < m[j] /\ l[m[j]].premium
    BY DEF Follows
  <2>2. l[m[i]].premium
    BY <2>1, LineShape
  <2>3. QED
    BY <2>2 DEF Follows
<1>3. QED
  BY <1>1, <1>2 DEF Lines

\* Two clients whose entries are both kept keep their order.
LEMMA FollowsOrder ==
  ASSUME NEW l \in Lines, NEW n \in Lines, NEW m, Follows(n, l, m),
         NEW c, NEW d, Wa!Before(l, c, d),
         \E i \in 1 .. Len(n) : m[i] = Wa!Find(l, c),
         \E i \in 1 .. Len(n) : m[i] = Wa!Find(l, d)
  PROVE  Wa!Before(n, c, d)
<1>1. PICK i \in 1 .. Len(n) : m[i] = Wa!Find(l, c)
  OBVIOUS
<1>2. PICK j \in 1 .. Len(n) : m[j] = Wa!Find(l, d)
  OBVIOUS
<1>3. /\ Wa!Find(l, c) < Wa!Find(l, d) /\ Wa!Find(l, c) # 0
      /\ Wa!Find(l, c) \in 0 .. Len(l) /\ Wa!Find(l, d) \in 0 .. Len(l)
  BY FindShape DEF Wa!Before
<1>4. Wa!Find(l, d) # 0 /\ Len(l) \in Nat /\ Len(n) \in Nat
  BY <1>3, LineShape
<1>5. n[i].who = c /\ n[j].who = d
  BY <1>1, <1>2, <1>3, <1>4, FindShape DEF Follows
<1>6. i < j
  <2>1. i # j /\ ~(j < i)
    BY <1>1, <1>2, <1>3 DEF Follows
  <2>2. QED
    BY <1>4, <2>1
<1>7. QED
  BY <1>5, <1>6, BeforeIs

\* Two lists, one after the other.
LEMMA JoinedAt ==
  ASSUME NEW S, NEW s \in Seq(S), NEW t \in Seq(S)
  PROVE  /\ s \o t \in Seq(S) /\ Len(s \o t) = Len(s) + Len(t)
         /\ \A i \in 1 .. Len(s) : (s \o t)[i] = s[i]
         /\ \A i \in 1 .. Len(t) : (s \o t)[Len(s) + i] = t[i]
  OBVIOUS

\* Where the entries are after one is taken out, or put in.
LEMMA RemovedAt ==
  ASSUME NEW S, NEW s \in Seq(S), NEW k \in 1 .. Len(s)
  PROVE  LET r == Wa!RemoveAt(s, k)
         IN  /\ r \in Seq(S) /\ Len(r) = Len(s) - 1
             /\ \A i \in 1 .. Len(s) - 1 : r[i] = IF i < k THEN s[i] ELSE s[i + 1]
<1> DEFINE r == Wa!RemoveAt(s, k)
           n == Len(s)
           a == SubSeq(s, 1, k - 1)
           b == SubSeq(s, k + 1, n)
<1>0. n \in Nat /\ k \in 1 .. n
  OBVIOUS
<1>1. a \in Seq(S) /\ Len(a) = k - 1 /\ \A i \in 1 .. k - 1 : a[i] = s[i]
  OBVIOUS
<1>2. b \in Seq(S) /\ Len(b) = n - k /\ \A i \in 1 .. n - k : b[i] = s[k + i]
  OBVIOUS
<1>3. r = a \o b
  BY DEF Wa!RemoveAt
<1> HIDE DEF a, b, r, n
<1>4. /\ a \o b \in Seq(S) /\ Len(a \o b) = Len(a) + Len(b)
      /\ \A i \in 1 .. Len(a) : (a \o b)[i] = a[i]
      /\ \A i \in 1 .. Len(b) : (a \o b)[Len(a) + i] = b[i]
  <2>1. a \in Seq(S) /\ b \in Seq(S)
    BY <1>1, <1>2
  <2>2. QED
    BY <2>1
<1>5. (k - 1) + (n - k) = n - 1
  BY <1>0
<1>6. ASSUME NEW i \in 1 .. n - 1 PROVE r[i] = IF i < k THEN s[i] ELSE s[i + 1]
  <2>1. CASE i < k
    <3>1. i \in 1 .. k - 1
      BY <1>0, <2>1
    <3>2. QED
      BY <1>1, <1>3, <1>4, <2>1, <3>1
  <2>2. CASE ~(i < k)
    <3>1. i - (k - 1) \in 1 .. n - k /\ k + (i - (k - 1)) = i + 1 /\ (k - 1) + (i - (k - 1)) = i
      BY <1>0, <2>2
    <3>2. r[i] = b[i - (k - 1)]
      BY <1>1, <1>2, <1>3, <1>4, <3>1
    <3>3. QED
      BY <1>2, <2>2, <3>1, <3>2
  <2>3. QED
    BY <2>1, <2>2
<1>7. r \in Seq(S) /\ Len(r) = n - 1
  BY <1>1, <1>2, <1>3, <1>4, <1>5
<1>8. QED
  BY <1>6, <1>7 DEF r, n

LEMMA InsertedAt ==
  ASSUME NEW S, NEW s \in Seq(S), NEW e \in S, NEW k \in 1 .. Len(s) + 1
  PROVE  LET r == Wa!InsertAt(s, k, e)
         IN  /\ r \in Seq(S) /\ Len(r) = Len(s) + 1
             /\ \A i \in 1 .. Len(s) : i < k => r[i] = s[i]
             /\ r[k] = e
             /\ \A i \in 1 .. Len(s) : k <= i => r[i + 1] = s[i]
<1> DEFINE r == Wa!InsertAt(s, k, e)
           n == Len(s)
           a == SubSeq(s, 1, k - 1)
           b == SubSeq(s, k, n)
           c == a \o <<e>>
<1>0. n \in Nat /\ k \in 1 .. n + 1
  OBVIOUS
<1>1. a \in Seq(S) /\ Len(a) = k - 1 /\ \A i \in 1 .. k - 1 : a[i] = s[i]
  OBVIOUS
<1>2. b \in Seq(S) /\ Len(b) = n - k + 1 /\ \A i \in 1 .. n - k + 1 : b[i] = s[k + i - 1]
  OBVIOUS
<1>3. r = c \o b
  BY DEF Wa!InsertAt
<1> HIDE DEF a, b, r, n
<1>4. c \in Seq(S) /\ Len(c) = k /\ c[k] = e /\ \A i \in 1 .. k - 1 : c[i] = a[i]
  <2>1. <<e>> \in Seq(S) /\ Len(<<e>>) = 1 /\ <<e>>[1] = e
    OBVIOUS
  <2> DEFINE o == <<e>>
  <2> HIDE DEF o
  <2>2. /\ a \o o \in Seq(S) /\ Len(a \o o) = Len(a) + Len(o)
        /\ \A i \in 1 .. Len(a) : (a \o o)[i] = a[i]
        /\ \A i \in 1 .. Len(o) : (a \o o)[Len(a) + i] = o[i]
    BY <1>1, <2>1, JoinedAt DEF o
  <2>3. (k - 1) + 1 = k /\ 1 \in 1 .. 1
    BY <1>0
  <2>4. QED
    BY <1>1, <2>1, <2>2, <2>3 DEF o
<1> HIDE DEF c
<1>5. /\ c \o b \in Seq(S) /\ Len(c \o b) = Len(c) + Len(b)
      /\ \A i \in 1 .. Len(c) : (c \o b)[i] = c[i]
      /\ \A i \in 1 .. Len(b) : (c \o b)[Len(c) + i] = b[i]
  <2>1. c \in Seq(S) /\ b \in Seq(S)
    BY <1>2, <1>4
  <2>2. QED
    BY <2>1
<1>6. ASSUME NEW i \in 1 .. n, i < k PROVE r[i] = s[i]
  <2>1. i \in 1 .. k - 1 /\ i \in 1 .. k
    BY <1>0, <1>6
  <2>2. QED
    BY <1>1, <1>3, <1>4, <1>5, <2>1
<1>7. r[k] = e
  <2>1. k \in 1 .. k
    BY <1>0
  <2>2. QED
    BY <1>3, <1>4, <1>5, <2>1
<1>8. ASSUME NEW i \in 1 .. n, k <= i PROVE r[i + 1] = s[i]
  <2>1. i - k + 1 \in 1 .. n - k + 1 /\ k + (i - k + 1) = i + 1 /\ k + (i - k + 1) - 1 = i
    BY <1>0, <1>8
  <2>2. r[i + 1] = b[i - k + 1]
    BY <1>2, <1>3, <1>4, <1>5, <2>1
  <2>3. QED
    BY <1>2, <2>1, <2>2
<1>9. r \in Seq(S) /\ Len(r) = n + 1
  <2>1. k + (n - k + 1) = n + 1
    BY <1>0
  <2>2. QED
    BY <1>2, <1>3, <1>4, <1>5, <2>1
<1>10. QED
  BY <1>6, <1>7, <1>8, <1>9 DEF r, n

\* s has those of the first n entries of l that somebody claimed in time, which are at the
\* places m of l.
Claimed(l, n, s, m) ==
  /\ s \in Seq(LineEntries) /\ m \in [1 .. Len(s) -> 1 .. n]
  /\ \A i \in 1 .. Len(s) : s[i] = l[m[i]] /\ l[m[i]].left > 0
  /\ \A i, j \in 1 .. Len(s) : i < j => m[i] < m[j]
  /\ \A k \in 1 .. n : l[k].left > 0 => \E i \in 1 .. Len(s) : m[i] = k

LEMMA ClaimedMore ==
  ASSUME NEW l \in Seq(LineEntries), NEW n \in 1 .. Len(l), NEW s, NEW m, Claimed(l, n - 1, s, m)
  PROVE  \E t : Claimed(l, n, IF l[n].left > 0 THEN Append(s, l[n]) ELSE s, t)
<1>0. /\ n \in Nat \ {0} /\ l[n] \in LineEntries
      /\ s \in Seq(LineEntries) /\ Len(s) \in Nat
      /\ m \in [1 .. Len(s) -> 1 .. n - 1]
      /\ \A k \in 1 .. n : k \in 1 .. n - 1 \/ k = n
      /\ \A k \in 1 .. n - 1 : k \in 1 .. n /\ k < n
  BY DEF Claimed
<1>1. CASE ~(l[n].left > 0)
  <2>1. m \in [1 .. Len(s) -> 1 .. n]
    BY <1>0
  <2>2. \A k \in 1 .. n : l[k].left > 0 => k \in 1 .. n - 1
    BY <1>0, <1>1
  <2>3. Claimed(l, n, s, m)
    BY <1>0, <2>1, <2>2 DEF Claimed
  <2>4. QED
    BY <1>1, <2>3
<1>2. CASE l[n].left > 0
  <2> DEFINE z == Len(s) + 1
             r == Append(s, l[n])
             t == [i \in 1 .. z |-> IF i = z THEN n ELSE m[i]]
  <2>1. /\ r \in Seq(LineEntries) /\ Len(r) = z /\ r[z] = l[n]
        /\ \A i \in 1 .. Len(s) : r[i] = s[i]
    BY <1>0
  <2>2. /\ \A i \in 1 .. z : i \in 1 .. Len(s) \/ i = z
        /\ \A i \in 1 .. Len(s) : i \in 1 .. z /\ i # z /\ i < z
        /\ z \in 1 .. z
    BY <1>0
  <2>3. t[z] = n /\ \A i \in 1 .. Len(s) : t[i] = m[i]
    BY <2>2
  <2>4. t \in [1 .. z -> 1 .. n]
    BY <1>0, <2>2
  <2> HIDE DEF r, t, z
  <2>5. \A i \in 1 .. z : r[i] = l[t[i]] /\ l[t[i]].left > 0
    BY <1>2, <2>1, <2>2, <2>3 DEF Claimed
  <2>6. \A i, j \in 1 .. z : i < j => t[i] < t[j]
    <3> SUFFICES ASSUME NEW i \in 1 .. z, NEW j \in 1 .. z, i < j PROVE t[i] < t[j]
      OBVIOUS
    <3>1. i \in 1 .. Len(s)
      BY <1>0, <2>2 DEF z
    <3>2. CASE j = z
      <4>1. m[i] \in 1 .. n - 1 /\ m[i] < n
        BY <1>0, <3>1
      <4>2. QED
        BY <2>3, <3>1, <3>2, <4>1
    <3>3. CASE j \in 1 .. Len(s)
      BY <2>3, <3>1, <3>3 DEF Claimed
    <3>4. QED
      BY <2>2, <3>2, <3>3
  <2>7. \A k \in 1 .. n : l[k].left > 0 => \E i \in 1 .. z : t[i] = k
    <3> SUFFICES ASSUME NEW k \in 1 .. n, l[k].left > 0 PROVE \E i \in 1 .. z : t[i] = k
      OBVIOUS
    <3>1. CASE k = n
      BY <2>2, <2>3, <3>1
    <3>2. CASE k \in 1 .. n - 1
      <4>1. PICK i \in 1 .. Len(s) : m[i] = k
        BY <3>2 DEF Claimed
      <4>2. QED
        BY <2>2, <2>3, <4>1
    <3>3. QED
      BY <1>0, <3>1, <3>2
  <2>8. Claimed(l, n, r, t)
    BY <2>1, <2>4, <2>5, <2>6, <2>7 DEF Claimed
  <2>9. QED
    BY <1>2, <2>8 DEF r
<1>3. QED
  BY <1>1, <1>2

LEMMA CleanupClaims ==
  ASSUME NEW l \in Seq(LineEntries)
  PROVE  \E m : Claimed(l, Len(l), Wa!Cleanup(l), m)
<1> DEFINE N == Len(l)
           Good == [n \in 0 .. N |-> {s \in Seq(LineEntries) : \E m : Claimed(l, n, s, m)}]
           H == [p \in Seq(LineEntries) \X (1 .. N) |->
                   IF l[p[2]].left > 0 THEN Append(p[1], l[p[2]]) ELSE p[1]]
           Is(T) == T = [n \in 0 .. N |-> IF n = 0 THEN <<>>
                                          ELSE IF l[n].left > 0 THEN Append(T[n - 1], l[n])
                                          ELSE T[n - 1]]
           U == CHOOSE T : Is(T)
<1>1. N \in Nat /\ \A n \in 1 .. N : n \in 0 .. N /\ n - 1 \in 0 .. N /\ n # 0
  OBVIOUS
<1>2. \A t \in Seq(LineEntries) : \A n \in 1 .. N :
        H[<<t, n>>] = IF l[n].left > 0 THEN Append(t, l[n]) ELSE t
  OBVIOUS
<1>3. \A n \in 0 .. N : \A s : s \in Good[n] <=> s \in Seq(LineEntries) /\ \E m : Claimed(l, n, s, m)
  OBVIOUS
<1> HIDE DEF H, Good
<1>4. <<>> \in Good[0]
  <2>1. <<>> \in Seq(LineEntries) /\ Len(<<>>) = 0 /\ 0 \in 0 .. N
    BY <1>1
  <2> DEFINE e == <<>>
             m == [i \in 1 .. Len(e) |-> 1]
  <2>2. 1 .. Len(e) = {} /\ 1 .. 0 = {}
    BY <2>1
  <2>3. Claimed(l, 0, e, m)
    BY <2>1, <2>2 DEF Claimed
  <2> HIDE DEF e, m
  <2>4. e \in Good[0]
    BY <1>3, <2>1, <2>3 DEF Claimed
  <2>5. QED
    BY <2>4 DEF e
<1>5. Steps(H, N, Good)
  <2> SUFFICES ASSUME NEW n \in 1 .. N, NEW t \in Good[n - 1] PROVE H[<<t, n>>] \in Good[n]
    BY DEF Steps
  <2>1. n \in 0 .. N /\ n - 1 \in 0 .. N
    BY <1>1
  <2>2. t \in Seq(LineEntries)
    BY <1>3, <2>1
  <2>3. PICK m : Claimed(l, n - 1, t, m)
    BY <1>3, <2>1
  <2> DEFINE u == IF l[n].left > 0 THEN Append(t, l[n]) ELSE t
  <2>4. PICK k : Claimed(l, n, u, k)
    BY <2>3, ClaimedMore
  <2>5. H[<<t, n>>] = u
    BY <1>2, <2>2
  <2> HIDE DEF u
  <2>6. u \in Seq(LineEntries)
    BY <2>4 DEF Claimed
  <2>7. QED
    BY <1>3, <2>1, <2>4, <2>5, <2>6
<1>6. PICK T : /\ T = [n \in 0 .. N |-> IF n = 0 THEN <<>> ELSE H[<<T[n - 1], n>>]]
               /\ \A n \in 0 .. N : T[n] \in Good[n]
  <2> HIDE DEF Is, U, N
  <2>1. N \in Nat
    BY <1>1
  <2>2. \E T : Turns(T, H, N, Good, <<>>)
    BY <1>4, <1>5, <2>1, LoopExists
  <2>3. QED
    BY <2>2 DEF Turns
<1>7. Is(T)
  <2>1. \A n \in 0 .. N : n # 0 =>
          H[<<T[n - 1], n>>] = IF l[n].left > 0 THEN Append(T[n - 1], l[n]) ELSE T[n - 1]
    <3> SUFFICES ASSUME NEW n \in 0 .. N, n # 0
        PROVE  H[<<T[n - 1], n>>] = IF l[n].left > 0 THEN Append(T[n - 1], l[n]) ELSE T[n - 1]
      OBVIOUS
    <3>1. n \in 1 .. N /\ n - 1 \in 0 .. N
      BY <1>1
    <3>2. T[n - 1] \in Seq(LineEntries)
      BY <1>3, <1>6, <3>1
    <3>3. QED
      BY <1>2, <3>1, <3>2
  <2>2. \A n \in 0 .. N : (IF n = 0 THEN <<>> ELSE H[<<T[n - 1], n>>])
          = (IF n = 0 THEN <<>> ELSE IF l[n].left > 0 THEN Append(T[n - 1], l[n]) ELSE T[n - 1])
    BY <2>1
  <2>3. [n \in 0 .. N |-> IF n = 0 THEN <<>> ELSE H[<<T[n - 1], n>>]]
          = [n \in 0 .. N |-> IF n = 0 THEN <<>>
                              ELSE IF l[n].left > 0 THEN Append(T[n - 1], l[n]) ELSE T[n - 1]]
    BY <2>2
  <2>4. QED
    BY <1>6, <2>3
<1>8. Is(U)
  BY <1>7
<1>9. Wa!Cleanup(l) = U[N]
  BY DEF Wa!Cleanup, N
<1>10. \A n \in 0 .. N : U[n] = IF n = 0 THEN <<>>
                               ELSE IF l[n].left > 0 THEN Append(U[n - 1], l[n]) ELSE U[n - 1]
  <2> HIDE DEF U
  <2>1. QED
    BY <1>8
<1> HIDE DEF Is, U
<1>11. Stays(U, N, Good)
  <2>1. U[0] \in Good[0]
    BY <1>1, <1>4, <1>10
  <2>2. ASSUME NEW n \in 1 .. N, U[n - 1] \in Good[n - 1] PROVE U[n] \in Good[n]
    <3>1. n \in 0 .. N /\ n - 1 \in 0 .. N /\ n # 0
      BY <1>1
    <3>2. U[n - 1] \in Seq(LineEntries)
      BY <1>3, <2>2, <3>1
    <3>3. U[n] = H[<<U[n - 1], n>>]
      BY <1>2, <1>10, <3>1, <3>2
    <3>4. QED
      BY <1>5, <2>2, <3>3 DEF Steps
  <2>3. QED
    BY <2>1, <2>2 DEF Stays
<1>12. U[N] \in Good[N]
  <2>1. \A n \in 0 .. N : U[n] \in Good[n]
    <3> HIDE DEF N
    <3>1. QED
      BY <1>1, <1>11, LoopStays
  <2>2. QED
    BY <1>1, <2>1
<1>13. QED
  <2>1. N \in 0 .. N
    BY <1>1
  <2>2. QED
    BY <1>3, <1>9, <1>12, <2>1 DEF N

\* cleanup() keeps the order, and those who asked in time.
LEMMA CleanShape ==
  ASSUME NEW l \in Lines
  PROVE  LET x == Wa!Cleanup(l)
         IN  /\ x \in Lines
             /\ \A c, d : /\ Wa!Before(l, c, d)
                          /\ l[Wa!Find(l, c)].left > 0 /\ l[Wa!Find(l, d)].left > 0
                          => Wa!Before(x, c, d)
             /\ \A c : Wa!Find(x, c) # 0 =>
                  l[Wa!Find(l, c)].left > 0 /\ Wa!Find(l, c) \in 1 .. Len(l)
<1> DEFINE x == Wa!Cleanup(l)
<1>1. PICK m : Claimed(l, Len(l), x, m)
  BY LineShape, CleanupClaims
<1> HIDE DEF x
<1>2. x \in Seq(LineEntries) /\ Follows(x, l, m)
  <2>1. \A i \in 1 .. Len(x) : x[i] = l[m[i]]
    BY <1>1 DEF Claimed
  <2>2. \A i \in 1 .. Len(x) : x[i].who = l[m[i]].who /\ (x[i].premium <=> l[m[i]].premium)
    BY <2>1
  <2>3. QED
    BY <1>1, <2>2 DEF Claimed, Follows
<1>3. x \in Lines
  BY <1>2, FollowsLine
<1>4. ASSUME NEW c, NEW d, Wa!Before(l, c, d), l[Wa!Find(l, c)].left > 0,
             l[Wa!Find(l, d)].left > 0
      PROVE  Wa!Before(x, c, d)
  <2>1. Wa!Find(l, c) \in 0 .. Len(l) /\ Wa!Find(l, d) \in 0 .. Len(l) /\ Wa!Find(l, c) # 0
        /\ Wa!Find(l, c) < Wa!Find(l, d) /\ Len(l) \in Nat
    BY <1>4, FindShape, LineShape DEF Wa!Before
  <2>2. Wa!Find(l, c) \in 1 .. Len(l) /\ Wa!Find(l, d) \in 1 .. Len(l)
    BY <2>1
  <2>3. /\ \E i \in 1 .. Len(x) : m[i] = Wa!Find(l, c)
        /\ \E i \in 1 .. Len(x) : m[i] = Wa!Find(l, d)
    BY <1>1, <1>4, <2>2 DEF Claimed
  <2>4. QED
    BY <1>2, <1>3, <1>4, <2>3, FollowsOrder
<1>5. ASSUME NEW c, Wa!Find(x, c) # 0
      PROVE  l[Wa!Find(l, c)].left > 0 /\ Wa!Find(l, c) \in 1 .. Len(l)
  <2> DEFINE i == Wa!Find(x, c)
  <2>1. i \in 1 .. Len(x) /\ x[i].who = c
    BY <1>3, <1>5, FindShape
  <2> HIDE DEF i
  <2>2. m[i] \in 1 .. Len(l) /\ l[m[i]].who = c /\ l[m[i]].left > 0
    BY <1>1, <1>2, <2>1 DEF Claimed, Follows
  <2>3. Wa!Find(l, c) = m[i]
    BY <2>2, FindFinds
  <2>4. QED
    BY <2>2, <2>3
<1>6. QED
  BY <1>3, <1>4, <1>5 DEF x

\* The others keep their order when one comes in.
LEMMA TakenOutShape ==
  ASSUME NEW l \in Lines, NEW k \in 1 .. Len(l)
  PROVE  LET r == Wa!RemoveAt(l, k)
         IN  /\ r \in Lines
             /\ \A c, d : Wa!Before(l, c, d) /\ l[k].who \notin {c, d} => Wa!Before(r, c, d)
<1> DEFINE r == Wa!RemoveAt(l, k)
           n == Len(l)
           m == [i \in 1 .. n - 1 |-> IF i < k THEN i ELSE i + 1]
<1>0. l \in Seq(LineEntries) /\ n \in Nat /\ k \in 1 .. n
  BY LineShape
<1>1. /\ r \in Seq(LineEntries) /\ Len(r) = n - 1
      /\ \A i \in 1 .. n - 1 : r[i] = IF i < k THEN l[i] ELSE l[i + 1]
  BY <1>0, RemovedAt
<1>2. \A i \in 1 .. n - 1 : i \in 1 .. n /\ i + 1 \in 1 .. n
  BY <1>0
<1>3. m \in [1 .. n - 1 -> 1 .. n] /\ \A i \in 1 .. n - 1 : m[i] = IF i < k THEN i ELSE i + 1
  BY <1>2
<1> HIDE DEF r, m
<1>4. \A i \in 1 .. n - 1 : r[i] = l[m[i]]
  BY <1>1, <1>3
<1>5. \A i, j \in 1 .. n - 1 : i < j => m[i] < m[j]
  BY <1>0, <1>3
<1>6. Follows(r, l, m)
  <2>1. \A i \in 1 .. Len(r) : r[i].who = l[m[i]].who /\ (r[i].premium <=> l[m[i]].premium)
    BY <1>1, <1>4
  <2> HIDE DEF n
  <2>2. QED
    BY <1>1, <1>3, <1>5, <2>1 DEF Follows, n
<1>7. r \in Lines
  BY <1>1, <1>6, FollowsLine
<1>8. \A p \in 1 .. n : p # k => \E i \in 1 .. Len(r) : m[i] = p
  <2> SUFFICES ASSUME NEW p \in 1 .. n, p # k PROVE \E i \in 1 .. n - 1 : m[i] = p
    BY <1>1
  <2>1. CASE p < k
    <3>1. p \in 1 .. n - 1 /\ m[p] = p
      BY <1>0, <1>3, <2>1
    <3>2. QED
      BY <3>1
  <2>2. CASE p > k
    <3>1. p - 1 \in 1 .. n - 1 /\ ~(p - 1 < k) /\ (p - 1) + 1 = p
      BY <1>0, <2>2
    <3>2. m[p - 1] = p
      BY <1>3, <3>1
    <3>3. QED
      BY <3>1, <3>2
  <2>3. QED
    BY <1>0, <2>1, <2>2
<1>9. ASSUME NEW c, NEW d, Wa!Before(l, c, d), l[k].who \notin {c, d}
      PROVE  Wa!Before(r, c, d)
  <2>1. Wa!Find(l, c) \in 0 .. n /\ Wa!Find(l, d) \in 0 .. n /\ Wa!Find(l, c) # 0
        /\ Wa!Find(l, c) < Wa!Find(l, d)
    BY <1>9, FindShape DEF Wa!Before
  <2>2. Wa!Find(l, c) \in 1 .. n /\ Wa!Find(l, d) \in 1 .. n /\ Wa!Find(l, d) # 0
    BY <1>0, <2>1
  <2>3. Wa!Find(l, c) # k /\ Wa!Find(l, d) # k
    BY <1>9, <2>1, <2>2, FindShape
  <2>4. QED
    BY <1>6, <1>7, <1>8, <1>9, <2>2, <2>3, FollowsOrder
<1>10. QED
  BY <1>7, <1>9 DEF r

\* A list that has the same clients at the same places.
LEMMA SameShape ==
  ASSUME NEW l \in Lines, NEW r \in Seq(LineEntries), Len(r) = Len(l),
         \A i \in 1 .. Len(l) : r[i].who = l[i].who /\ (r[i].premium <=> l[i].premium)
  PROVE  r \in Lines /\ \A c, d : Wa!Before(l, c, d) => Wa!Before(r, c, d)
<1> DEFINE m == [i \in 1 .. Len(l) |-> i]
<1>1. m \in [1 .. Len(r) -> 1 .. Len(l)] /\ \A i \in 1 .. Len(r) : m[i] = i
  OBVIOUS
<1> HIDE DEF m
<1>2. Follows(r, l, m)
  BY <1>1 DEF Follows
<1>3. r \in Lines
  BY <1>2, FollowsLine
<1>4. ASSUME NEW c, NEW d, Wa!Before(l, c, d) PROVE Wa!Before(r, c, d)
  <2>1. PICK i \in 1 .. Len(l), j \in 1 .. Len(l) : i < j /\ l[i].who = c /\ l[j].who = d
    BY <1>4, BeforeIs
  <2>2. i \in 1 .. Len(r) /\ j \in 1 .. Len(r) /\ r[i].who = c /\ r[j].who = d
    BY <2>1
  <2>3. QED
    BY <1>3, <2>1, <2>2, BeforeIs
<1>5. QED
  BY <1>3, <1>4

LEMMA Smallest ==
  ASSUME NEW S \in SUBSET Nat, NEW n \in S
  PROVE  \E m \in S : \A k \in S : m <= k
<1> SUFFICES ASSUME \A m \in S : \E k \in S : k < m PROVE FALSE
  OBVIOUS
<1> DEFINE Below == {i \in Nat : \A k \in S : i <= k}
<1>1. 0 \in Below /\ \A i \in Nat : i \in Below => i + 1 \in Below
  OBVIOUS
<1> HIDE DEF Below
<1>2. Nat \subseteq Below
  BY <1>1, Induction
<1>3. QED
  BY <1>2 DEF Below

\* A new entry has a place in the list: all before it are premium if it is, and none after
\* it is otherwise.
LEMMA PlaceShape ==
  ASSUME NEW l \in Lines, NEW c
  PROVE  /\ Wa!Place(l, c) \in 1 .. Len(l) + 1
         /\ c \in premium => \A i \in 1 .. Len(l) : i < Wa!Place(l, c) => l[i].premium
         /\ \A i \in 1 .. Len(l) : Wa!Place(l, c) <= i => c \in premium /\ ~l[i].premium
<1> DEFINE regular == {i \in DOMAIN l : ~l[i].premium}
           p == CHOOSE i \in regular : \A j \in regular : i <= j
<1>0. Len(l) \in Nat /\ DOMAIN l = 1 .. Len(l)
  BY LineShape
<1>1. CASE c \in premium /\ regular # {}
  <2>1. regular \in SUBSET Nat
    BY <1>0
  <2>2. \E i \in regular : \A j \in regular : i <= j
    <3>1. PICK n : n \in regular
      BY <1>1
    <3> HIDE DEF regular
    <3>2. QED
      BY <2>1, <3>1, Smallest
  <2>3. p \in regular /\ \A j \in regular : p <= j
    <3> HIDE DEF regular
    <3>1. QED
      BY <2>2
  <2>4. Wa!Place(l, c) = p
    BY <1>1 DEF Wa!Place
  <2> HIDE DEF p
  <2>5. p \in 1 .. Len(l) /\ ~l[p].premium
    BY <1>0, <2>3
  <2>6. \A i \in 1 .. Len(l) : i < p => l[i].premium
    BY <1>0, <2>3, <2>5
  <2>7. \A i \in 1 .. Len(l) : p <= i => ~l[i].premium
    <3> SUFFICES ASSUME NEW i \in 1 .. Len(l), p <= i, l[i].premium PROVE FALSE
      OBVIOUS
    <3>1. p = i \/ p < i
      BY <2>5
    <3>2. QED
      BY <2>5, <3>1, LineShape
  <2>8. p \in 1 .. Len(l) + 1
    BY <1>0, <2>5
  <2>9. QED
    BY <1>1, <2>4, <2>6, <2>7, <2>8
<1>2. CASE ~(c \in premium /\ regular # {})
  <2>1. Wa!Place(l, c) = Len(l) + 1
    BY <1>2 DEF Wa!Place
  <2>2. c \in premium => \A i \in 1 .. Len(l) : l[i].premium
    BY <1>0, <1>2
  <2>3. Len(l) + 1 \in 1 .. Len(l) + 1 /\ \A i \in 1 .. Len(l) : ~(Len(l) + 1 <= i)
    BY <1>0
  <2>4. QED
    BY <2>1, <2>2, <2>3
<1>3. QED
  BY <1>1, <1>2

LEMMA Timeouts ==
  ASSUME NEW slot \in Nat
  PROVE  Wa!GetTimeout(slot) \in Lefts /\ Wa!GetTimeout(slot) > 0
<1>1. Wa!GetTimeout(slot) \in {20, 25, 35, 75, 135}
  BY DEF Wa!GetTimeout, Wa!GetTime
<1>2. 20 = 5 * 4 /\ 25 = 5 * 5 /\ 35 = 5 * 7 /\ 75 = 5 * 15 /\ 135 = 5 * 27
  OBVIOUS
<1>3. {20, 25, 35, 75, 135} \subseteq Lefts
  BY <1>2 DEF Lefts
<1>4. QED
  BY <1>1, <1>3

LEMMA LaterEntry ==
  ASSUME NEW w \in LineEntries, NEW t \in Lefts
  PROVE  /\ [w EXCEPT !.left = t] \in LineEntries
         /\ [w EXCEPT !.left = t].who = w.who
         /\ [w EXCEPT !.left = t].premium = w.premium
  BY DEF LineEntries

\* The client is told to wait a bit longer, at the same place.
LEMMA LongerShape ==
  ASSUME NEW l \in Lines, NEW k \in 1 .. Len(l)
  PROVE  LET r == Wa!WaitLonger(l, k)
         IN  r \in Lines /\ \A c, d : Wa!Before(l, c, d) => Wa!Before(r, c, d)
<1> DEFINE e == [l[k] EXCEPT !.left = Wa!GetTimeout(k)]
           r == [l EXCEPT ![k] = e]
<1>0. l \in Seq(LineEntries) /\ l[k] \in LineEntries /\ k \in Nat /\ Len(l) \in Nat
  BY LineShape
<1>1. Wa!WaitLonger(l, k) = r
  BY DEF Wa!WaitLonger
<1>2. e \in LineEntries /\ e.who = l[k].who /\ e.premium = l[k].premium
  BY <1>0, Timeouts, LaterEntry
<1> HIDE DEF e
<1>3. /\ r \in Seq(LineEntries) /\ Len(r) = Len(l)
      /\ \A i \in 1 .. Len(l) : r[i] = IF i = k THEN e ELSE l[i]
  BY <1>0, <1>2
<1> HIDE DEF r
<1>4. \A i \in 1 .. Len(l) : r[i].who = l[i].who /\ (r[i].premium <=> l[i].premium)
  BY <1>2, <1>3
<1>5. r \in Lines /\ \A c, d : Wa!Before(l, c, d) => Wa!Before(r, c, d)
  BY <1>3, <1>4, SameShape
<1>6. QED
  BY <1>1, <1>5

\* A client that is not in the list gets its place in it.
LEMMA AddedShape ==
  ASSUME NEW l \in Lines, NEW c \in Clients, Wa!Find(l, c) = 0
  PROVE  LET r == Wa!InsertAt(l, Wa!Place(l, c), Wa!Entry(c, Wa!Place(l, c)))
         IN  r \in Lines /\ \A x, y : Wa!Before(l, x, y) => Wa!Before(r, x, y)
<1> DEFINE p == Wa!Place(l, c)
           e == Wa!Entry(c, p)
           r == Wa!InsertAt(l, p, e)
           n == Len(l)
<1>0. l \in Seq(LineEntries) /\ n \in Nat /\ \A i \in 1 .. n : l[i].who # c
  BY LineShape, FindShape
<1>1. /\ p \in 1 .. n + 1
      /\ c \in premium => \A i \in 1 .. n : i < p => l[i].premium
      /\ \A i \in 1 .. n : p <= i => c \in premium /\ ~l[i].premium
  BY PlaceShape
<1> HIDE DEF p
<1>2. e \in LineEntries /\ e.who = c /\ (e.premium <=> c \in premium)
  <2>1. p \in Nat /\ (c \in premium) \in BOOLEAN
    BY <1>0, <1>1
  <2>2. Wa!GetTimeout(p) \in Lefts
    BY <2>1, Timeouts
  <2> DEFINE b == c \in premium
             t == Wa!GetTimeout(p)
  <2>3. b \in BOOLEAN /\ t \in Lefts
    BY <2>1, <2>2
  <2>4. e = [who |-> c, premium |-> b, left |-> t]
    BY DEF Wa!Entry
  <2> HIDE DEF b, t, e
  <2>5. e \in LineEntries
    BY <2>3, <2>4 DEF LineEntries
  <2>6. e.who = c /\ e.premium = b
    BY <2>4
  <2>7. QED
    BY <2>5, <2>6 DEF b
<1> HIDE DEF e
<1>3. /\ r \in Seq(LineEntries) /\ Len(r) = n + 1
      /\ \A i \in 1 .. n : i < p => r[i] = l[i]
      /\ r[p] = e
      /\ \A i \in 1 .. n : p <= i => r[i + 1] = l[i]
  <2>1. l \in Seq(LineEntries) /\ e \in LineEntries /\ p \in 1 .. Len(l) + 1
    BY <1>0, <1>1, <1>2
  <2>2. QED
    BY <2>1, InsertedAt
<1> HIDE DEF r
<1>4. ASSUME NEW i \in 1 .. n + 1
      PROVE  \/ i < p /\ i \in 1 .. n /\ r[i] = l[i]
             \/ i = p /\ r[i] = e
             \/ p < i /\ i - 1 \in 1 .. n /\ r[i] = l[i - 1] /\ p <= i - 1
  <2>1. CASE i < p
    <3>1. i \in 1 .. n
      BY <1>0, <1>1, <2>1
    <3>2. QED
      BY <1>3, <2>1, <3>1
  <2>2. CASE p < i
    <3>1. i - 1 \in 1 .. n /\ p <= i - 1 /\ (i - 1) + 1 = i
      BY <1>0, <1>1, <2>2
    <3>2. QED
      BY <1>3, <2>2, <3>1
  <2>3. QED
    BY <1>1, <1>3, <2>1, <2>2
<1>5. OnceEach(r)
  <2> SUFFICES ASSUME NEW i \in 1 .. n + 1, NEW j \in 1 .. n + 1, r[i].who = r[j].who
      PROVE  i = j
    BY <1>3 DEF OnceEach
  <2>1. CASE i = p
    BY <1>0, <1>2, <1>4, <2>1
  <2>2. CASE j = p
    BY <1>0, <1>2, <1>4, <2>2
  <2>3. CASE i # p /\ j # p
    <3> DEFINE u == IF i < p THEN i ELSE i - 1
               v == IF j < p THEN j ELSE j - 1
    <3>1. u \in 1 .. n /\ r[i] = l[u]
      BY <1>1, <1>4, <2>3
    <3>2. v \in 1 .. n /\ r[j] = l[v]
      BY <1>1, <1>4, <2>3
    <3>3. u = v
      BY <3>1, <3>2, LineShape
    <3>4. QED
      BY <1>0, <1>1, <2>3, <3>3
  <2>4. QED
    BY <2>1, <2>2, <2>3
<1>6. PremiumsFirst(r)
  <2> SUFFICES ASSUME NEW i \in 1 .. n + 1, NEW j \in 1 .. n + 1, i < j, r[j].premium
      PROVE  r[i].premium
    BY <1>3 DEF PremiumsFirst
  <2>1. CASE i = p
    <3>1. j - 1 \in 1 .. n /\ p <= j - 1 /\ r[j] = l[j - 1]
      BY <1>1, <1>4, <2>1
    <3>2. QED
      BY <1>1, <3>1
  <2>2. CASE i < p
    <3>1. i \in 1 .. n /\ r[i] = l[i]
      BY <1>1, <1>4, <2>2
    <3>2. CASE j < p
      <4>1. j \in 1 .. n /\ r[j] = l[j]
        BY <1>1, <1>4, <3>2
      <4>2. QED
        BY <3>1, <4>1, LineShape
    <3>3. CASE j = p
      BY <1>1, <1>2, <1>3, <2>2, <3>1, <3>3
    <3>4. CASE p < j
      <4>1. j - 1 \in 1 .. n /\ r[j] = l[j - 1] /\ p <= j - 1
        BY <1>1, <1>4, <3>4
      <4>2. i < j - 1
        BY <1>1, <2>2, <4>1
      <4>3. QED
        BY <3>1, <4>1, <4>2, LineShape
    <3>5. QED
      BY <1>1, <3>2, <3>3, <3>4
  <2>3. CASE p < i
    <3>1. i - 1 \in 1 .. n /\ r[i] = l[i - 1]
      BY <1>1, <1>4, <2>3
    <3>2. j - 1 \in 1 .. n /\ r[j] = l[j - 1] /\ i - 1 < j - 1
      BY <1>1, <1>4, <2>3
    <3>3. QED
      BY <3>1, <3>2, LineShape
  <2>4. QED
    BY <1>1, <2>1, <2>2, <2>3
<1>7. r \in Lines
  BY <1>3, <1>5, <1>6 DEF Lines
<1>8. ASSUME NEW x, NEW y, Wa!Before(l, x, y) PROVE Wa!Before(r, x, y)
  <2>1. PICK i \in 1 .. n, j \in 1 .. n : i < j /\ l[i].who = x /\ l[j].who = y
    BY <1>8, BeforeIs
  <2> DEFINE u == IF i < p THEN i ELSE i + 1
             v == IF j < p THEN j ELSE j + 1
  <2>2. u \in 1 .. n + 1 /\ v \in 1 .. n + 1 /\ u < v
    BY <1>0, <1>1, <2>1
  <2>3. r[u] = l[i]
    BY <1>1, <1>3
  <2>4. r[v] = l[j]
    BY <1>1, <1>3
  <2> HIDE DEF u, v
  <2>5. u \in 1 .. Len(r) /\ v \in 1 .. Len(r) /\ r[u].who = x /\ r[v].who = y
    BY <1>3, <2>1, <2>2, <2>3, <2>4
  <2>6. QED
    BY <1>7, <2>2, <2>5, BeforeIs
<1>9. QED
  BY <1>7, <1>8 DEF r, e, p

-----------------------------------------------------------------------------
(* The steps of the waiting list                                           *)

\* What a step does to the list: it stays in line, and two clients keep their order unless
\* one of them comes in or did not ask in time.
ListStep ==
  /\ waitList' \in Lines
  /\ \A c, d : Wa!Before(waitList, c, d) =>
       Wa!Before(waitList', c, d) \/ {c, d} \intersect waiting' # {} \/ Wa!Late(c) \/ Wa!Late(d)

LEMMA NotLate ==
  ASSUME InLine, NEW c, NEW d, Wa!Before(waitList, c, d), ~Wa!Late(c), ~Wa!Late(d)
  PROVE  Wa!Before(Wa!Cleanup(waitList), c, d)
<1> DEFINE i == Wa!Find(waitList, c)
           j == Wa!Find(waitList, d)
<1>0. waitList \in Lines
  BY DEF InLine
<1>1. i \in 1 .. Len(waitList) /\ j \in 1 .. Len(waitList)
  BY <1>0, FindShape, LineShape DEF Wa!Before
<1>2. \A e \in LineEntries : e.left \in Int
  BY DEF LineEntries, Lefts
<1>3. waitList[i].left > 0 /\ waitList[j].left > 0
  <2>1. waitList[i].left \in Int /\ waitList[j].left \in Int
    BY <1>0, <1>1, <1>2, LineShape
  <2>2. QED
    BY <2>1 DEF Wa!Late
<1>4. QED
  BY <1>0, <1>3, CleanShape

LEMMA LetInStep ==
  ASSUME InLine, NEW c \in Clients, Wa!LetIn(c)
  PROVE  ListStep
<1>0. waitList \in Lines
  BY DEF InLine
<1>1. CASE UNCHANGED waitList
  BY <1>0, <1>1 DEF ListStep
<1>2. CASE waitList' # waitList
  <2> DEFINE l == Wa!Cleanup(waitList)
             k == Wa!Find(l, c)
  <2>1. k > 0 /\ waitList' = Wa!RemoveAt(l, k) /\ waiting' = waiting \cup {c}
    BY <1>2 DEF Wa!LetIn
  <2>2. l \in Lines
    BY <1>0, CleanShape
  <2> HIDE DEF l
  <2>3. k \in 1 .. Len(l) /\ l[k].who = c
    BY <2>1, <2>2, FindShape
  <2> HIDE DEF k
  <2>4. /\ waitList' \in Lines
        /\ \A x, y : Wa!Before(l, x, y) /\ c \notin {x, y} => Wa!Before(waitList', x, y)
    BY <2>1, <2>2, <2>3, TakenOutShape
  <2>5. ASSUME NEW x, NEW y, Wa!Before(waitList, x, y), ~Wa!Late(x), ~Wa!Late(y),
               {x, y} \intersect waiting' = {}
        PROVE  Wa!Before(waitList', x, y)
    BY <2>1, <2>4, <2>5, NotLate DEF l
  <2>6. QED
    BY <2>4, <2>5 DEF ListStep
<1>3. QED
  BY <1>1, <1>2

LEMMA RefuseStep ==
  ASSUME InLine, NEW c \in Clients, Wa!Refuse(c)
  PROVE  ListStep
<1> DEFINE l == Wa!Cleanup(waitList)
           k == Wa!Find(l, c)
<1>1. waitList \in Lines /\ l \in Lines
  BY CleanShape DEF InLine
<1>2. waitList' \in Lines /\ \A x, y : Wa!Before(l, x, y) => Wa!Before(waitList', x, y)
  <2>1. CASE k > 0 /\ waitList' = Wa!WaitLonger(l, k)
    <3> HIDE DEF l
    <3>1. k \in 1 .. Len(l)
      BY <1>1, <2>1, FindShape
    <3> HIDE DEF k
    <3>2. QED
      BY <1>1, <2>1, <3>1, LongerShape
  <2>2. CASE /\ k = 0
             /\ waitList' = Wa!InsertAt(l, Wa!Place(l, c), Wa!Entry(c, Wa!Place(l, c)))
    <3> HIDE DEF l
    <3>1. QED
      BY <1>1, <2>2, AddedShape
  <2>3. QED
    BY <2>1, <2>2 DEF Wa!Refuse
<1>3. ASSUME NEW x, NEW y, Wa!Before(waitList, x, y), ~Wa!Late(x), ~Wa!Late(y)
      PROVE  Wa!Before(waitList', x, y)
  BY <1>2, <1>3, NotLate
<1>4. QED
  BY <1>2, <1>3 DEF ListStep

LEMMA TickStep ==
  ASSUME InLine, Wa!Tick
  PROVE  ListStep
<1> DEFINE l == waitList
           T(w) == IF w.left > -5 THEN w.left - 5 ELSE w.left
<1>0. l \in Lines /\ l \in Seq(LineEntries) /\ Len(l) \in Nat /\ DOMAIN l = 1 .. Len(l)
      /\ \A i \in 1 .. Len(l) : l[i] \in LineEntries
  BY LineShape DEF InLine
<1>1. waitList' = [i \in 1 .. Len(l) |-> [l[i] EXCEPT !.left = T(l[i])]]
  BY <1>0 DEF Wa!Tick, Wa!Step
<1>2. \A w \in LineEntries : T(w) \in Lefts
  <2>1. ASSUME NEW t \in Lefts PROVE (IF t > -5 THEN t - 5 ELSE t) \in Lefts
    <3>1. PICK k \in -1 .. 27 : t = 5 * k
      BY DEF Lefts
    <3>2. CASE t > -5
      <4>1. k - 1 \in -1 .. 27 /\ t - 5 = 5 * (k - 1) /\ t - 5 \in -5 .. 135
        BY <3>1, <3>2 DEF Lefts
      <4>2. QED
        BY <3>2, <4>1 DEF Lefts
    <3>3. QED
      BY <3>2
  <2>2. \A w \in LineEntries : w.left \in Lefts
    BY DEF LineEntries
  <2>3. QED
    BY <2>1, <2>2
<1> HIDE DEF T, l
<1>3. ASSUME NEW i \in 1 .. Len(l)
      PROVE  /\ [l[i] EXCEPT !.left = T(l[i])] \in LineEntries
             /\ [l[i] EXCEPT !.left = T(l[i])].who = l[i].who
             /\ [l[i] EXCEPT !.left = T(l[i])].premium = l[i].premium
  BY <1>0, <1>2, LaterEntry
<1> DEFINE E(i) == [l[i] EXCEPT !.left = T(l[i])]
           r == [i \in 1 .. Len(l) |-> E(i)]
<1>4. \A i \in 1 .. Len(l) : E(i) \in LineEntries /\ E(i).who = l[i].who /\ E(i).premium = l[i].premium
  BY <1>3
<1>5. waitList' = r
  BY <1>1
<1> HIDE DEF E
<1>6. r \in Seq(LineEntries) /\ Len(r) = Len(l) /\ \A i \in 1 .. Len(l) : r[i] = E(i)
  BY <1>0, <1>4
<1> HIDE DEF r
<1>7. \A i \in 1 .. Len(l) : r[i].who = l[i].who /\ (r[i].premium <=> l[i].premium)
  BY <1>4, <1>6
<1>8. r \in Lines /\ \A c, d : Wa!Before(l, c, d) => Wa!Before(r, c, d)
  BY <1>0, <1>6, <1>7, SameShape
<1>9. QED
  BY <1>5, <1>8 DEF ListStep, l

\* Every step leads from an invariant state to one.
LEMMA WaitStep ==
  ASSUME Wa!WaitListAssumption, InLine, [Wa!Next]_(Wa!vars)
  PROVE  InLine' /\ ListStep
<1>1. ASSUME waiting' = waiting, premium' = premium, refused' \subseteq Clients,
             skipWait' \in SkipWaits, ListStep
      PROVE  InLine' /\ ListStep
  BY <1>1 DEF InLine, ListStep
<1>2. ASSUME NEW c \in Clients, Wa!LetIn(c) PROVE InLine' /\ ListStep
  <2>1. ListStep
    BY <1>2, LetInStep
  <2>2. waiting' = waiting \cup {c} /\ refused' = refused \ {c} /\ UNCHANGED <<premium, skipWait>>
    BY <1>2 DEF Wa!LetIn
  <2>3. IsFiniteSet(waiting')
    BY <2>2, FS_AddElement DEF InLine
  <2>4. QED
    BY <2>1, <2>2, <2>3 DEF InLine, ListStep
<1>3. ASSUME NEW c \in Clients, Wa!Refuse(c) PROVE InLine' /\ ListStep
  <2>1. ListStep
    BY <1>3, RefuseStep
  <2>2. waiting' = waiting /\ refused' = refused \cup {c} /\ premium' = premium
        /\ skipWait' = skipWait
    BY <1>3 DEF Wa!Refuse
  <2>3. QED
    BY <1>1, <2>1, <2>2 DEF InLine
<1>4. ASSUME waitList' = waitList PROVE ListStep
  BY <1>4 DEF InLine, ListStep
<1>5. ASSUME NEW c \in Clients, Wa!Leave(c) PROVE InLine' /\ ListStep
  <2>1. waiting' = waiting \ {c} /\ UNCHANGED <<waitList, premium, skipWait, refused>>
    BY <1>5 DEF Wa!Leave
  <2>2. IsFiniteSet(waiting')
    BY <2>1, FS_RemoveElement DEF InLine
  <2>3. QED
    BY <1>4, <2>1, <2>2 DEF InLine
<1>6. ASSUME NEW c \in Clients, Wa!BuyPremium(c) PROVE InLine' /\ ListStep
  BY <1>4, <1>6 DEF InLine, Wa!BuyPremium
<1>7. CASE Wa!Tick
  <2>1. ListStep
    BY <1>7, TickStep
  <2>2. QED
    BY <1>1, <1>7, <2>1 DEF InLine, Wa!Tick
<1>8. CASE Wa!Reload
  BY <1>1, <1>4, <1>8 DEF InLine, Wa!Reload
<1>9. CASE UNCHANGED Wa!vars
  BY <1>1, <1>4, <1>9 DEF InLine, Wa!vars
<1>10. QED
  BY <1>2, <1>3, <1>5, <1>6, <1>7, <1>8, <1>9 DEF Wa!Next

LEMMA WaitInit ==
  ASSUME Wa!Init
  PROVE  InLine
<1>1. <<>> \in Seq(LineEntries) /\ Len(<<>>) = 0 /\ 1 .. 0 = {}
  OBVIOUS
<1>2. <<>> \in Lines
  BY <1>1 DEF Lines, OnceEach, PremiumsFirst
<1>3. QED
  BY <1>2, FS_EmptySet DEF InLine, Wa!Init

LEMMA SameNumber == \A S : Wa!Cardinality(S) = Cardinality(S)
BY DEF Wa!Cardinality, Cardinality

\* Who comes in from the list leaves room for all before him who asked in time.
LEMMA RoomLeft ==
  ASSUME Wa!WaitListAssumption, InLine, [Wa!Next]_(Wa!vars)
  PROVE  Wa!TakesNoRoom
<1> SUFFICES ASSUME NEW c \in waiting' \ waiting, ~Wa!SkipsWait(c)
    PROVE  Cardinality(waiting') +
             Cardinality({d \in Clients : Wa!Before(waitList, d, c) /\ ~Wa!Late(d)}) <= MaxPlayers
  BY SameNumber DEF Wa!TakesNoRoom
<1>1. Wa!LetIn(c) /\ c \in Clients
  BY DEF Wa!Next, Wa!vars, Wa!LetIn, Wa!Refuse, Wa!Leave, Wa!BuyPremium, Wa!Tick, Wa!Reload
<1> DEFINE l == Wa!Cleanup(waitList)
           k == Wa!Find(l, c)
           X == {d \in Clients : Wa!Before(waitList, d, c) /\ ~Wa!Late(d)}
           f == [d \in X |-> Wa!Find(l, d)]
<1>2. k > 0 /\ Cardinality(waiting) + k <= MaxPlayers /\ waiting' = waiting \cup {c}
  BY <1>1, SameNumber DEF Wa!LetIn, Wa!HasRoom
<1>3. waitList \in Lines /\ l \in Lines /\ IsFiniteSet(waiting)
  BY CleanShape DEF InLine
<1>4. k \in 1 .. Len(l) /\ k \in Nat
  <2> HIDE DEF l
  <2>1. QED
    BY <1>2, <1>3, FindShape, LineShape
<1>5. ~Wa!Late(c)
  <2>1. waitList[Wa!Find(waitList, c)].left > 0
        /\ Wa!Find(waitList, c) \in 1 .. Len(waitList)
    BY <1>2, <1>3, CleanShape
  <2>2. waitList[Wa!Find(waitList, c)] \in LineEntries
    BY <1>3, <2>1, LineShape
  <2>3. waitList[Wa!Find(waitList, c)].left \in Int
    BY <2>2 DEF LineEntries, Lefts
  <2> HIDE DEF k, l, X
  <2>4. QED
    BY <2>1, <2>3 DEF Wa!Late
<1>6. \A d \in X : Wa!Before(l, d, c)
  <2> HIDE DEF l
  <2>1. QED
    BY <1>5, NotLate DEF l
<1>7. \A d \in X : f[d] = Wa!Find(l, d) /\ f[d] \in 1 .. k - 1 /\ l[f[d]].who = d
  <2> SUFFICES ASSUME NEW d \in X
      PROVE  f[d] = Wa!Find(l, d) /\ f[d] \in 1 .. k - 1 /\ l[f[d]].who = d
    OBVIOUS
  <2>1. f[d] = Wa!Find(l, d)
    OBVIOUS
  <2> HIDE DEF f
  <2>2. f[d] # 0 /\ f[d] < k /\ f[d] \in 0 .. Len(l) /\ l[f[d]].who = d
    <3>1. Wa!Before(l, d, c)
      BY <1>6
    <3> HIDE DEF l, X
    <3>2. Wa!Find(l, d) # 0 /\ Wa!Find(l, d) < k
      BY <3>1 DEF Wa!Before
    <3> HIDE DEF k
    <3>3. QED
      BY <1>3, <2>1, <3>2, FindShape
  <2>3. f[d] \in 1 .. k - 1
    <3> HIDE DEF k, l
    <3>1. QED
      BY <1>4, <2>2
  <2>4. QED
    BY <2>1, <2>2, <2>3
<1> HIDE DEF l, k, f
<1>8. f \in Injection(X, 1 .. k - 1)
  <2>1. f = [d \in X |-> f[d]]
    BY DEF f
  <2>2. f \in [X -> 1 .. k - 1]
    BY <1>7, <2>1
  <2>3. \A d, e \in X : f[d] = f[e] => d = e
    BY <1>7
  <2>4. QED
    BY <2>2, <2>3 DEF Injection, IsInjective
<1> HIDE DEF X
<1>9. IsFiniteSet(1 .. k - 1) /\ Cardinality(1 .. k - 1) = k - 1
  <2>1. 1 \in Int /\ k - 1 \in Int /\ (1 > k - 1 => k - 1 = 0)
    BY <1>2, <1>4
  <2>2. Cardinality(1 .. k - 1) = IF 1 > k - 1 THEN 0 ELSE (k - 1) - 1 + 1
    BY <2>1, FS_Interval
  <2>3. QED
    BY <1>4, <2>1, <2>2, FS_Interval
<1>10. IsFiniteSet(X) /\ Cardinality(X) <= k - 1 /\ Cardinality(X) \in Nat
  BY <1>8, <1>9, FS_Injection, FS_CardinalityType
<1>11. Cardinality(waiting') = Cardinality(waiting) + 1 /\ Cardinality(waiting) \in Nat
  BY <1>2, <1>3, FS_AddElement, FS_CardinalityType
<1>12. Cardinality(waiting') + Cardinality(X) <= MaxPlayers
  BY <1>2, <1>4, <1>10, <1>11 DEF Wa!WaitListAssumption
<1>13. QED
  BY <1>12 DEF X

LEMMA LineIsSound ==
  ASSUME InLine
  PROVE  Wa!ListSound
<1> DEFINE W == [who : Clients, premium : BOOLEAN, left : -Wa!Step .. Wa!GetTimeout(50)]
<1>1. Lefts \subseteq -Wa!Step .. Wa!GetTimeout(50)
  BY DEF Lefts, Wa!Step, Wa!GetTimeout, Wa!GetTime
<1>2. LineEntries \subseteq W
  <2> DEFINE L == -Wa!Step .. Wa!GetTimeout(50)
  <2> HIDE DEF L
  <2>1. Lefts \subseteq L
    BY <1>1 DEF L
  <2>2. [who : Clients, premium : BOOLEAN, left : Lefts]
          \subseteq [who : Clients, premium : BOOLEAN, left : L]
    BY <2>1
  <2>3. QED
    BY <2>2 DEF LineEntries, L
<1>3. waitList \in Seq(LineEntries) /\ OnceEach(waitList) /\ PremiumsFirst(waitList)
      /\ DOMAIN waitList = 1 .. Len(waitList)
  BY LineShape DEF InLine, Lines
<1> HIDE DEF W
<1>4. waitList \in Seq(W)
  BY <1>2, <1>3
<1>5. Wa!TypeOK
  BY <1>4 DEF InLine, W, Wa!TypeOK
<1>6. QED
  BY <1>3, <1>5 DEF Wa!ListSound, Wa!OneEntry, Wa!PremiumFirst, OnceEach, PremiumsFirst

\* Whoever comes, waits, leaves or buys premium: nobody is twice in the waiting list, and
\* premium players come before the others (ListSound of WaitList).
THEOREM ListCorrect ==
  ASSUME Wa!WaitListAssumption
  PROVE  Wa!Spec => []Wa!ListSound
<1>1. InLine /\ [Wa!Next]_(Wa!vars) => InLine'
  BY WaitStep
<1>2. QED
  BY <1>1, WaitInit, LineIsSound, PTL DEF Wa!Spec

\* Of two clients that wait, the first stays before the second until one of them comes in
\* or did not ask in time; and nobody takes the room of one who waits before him (KeepsPlace
\* and TakesNoRoom of WaitList, which WaitsInTurn of MCLogins checks).
THEOREM ListIsFair ==
  ASSUME Wa!WaitListAssumption
  PROVE  Wa!Spec => [][Wa!KeepsPlace /\ Wa!TakesNoRoom]_(Wa!vars)
<1>1. InLine /\ [Wa!Next]_(Wa!vars) => InLine'
  BY WaitStep
<1>2. InLine /\ [Wa!Next]_(Wa!vars) => Wa!KeepsPlace /\ Wa!TakesNoRoom
  BY WaitStep, RoomLeft DEF ListStep, Wa!KeepsPlace
<1>3. QED
  BY <1>1, <1>2, WaitInit, PTL DEF Wa!Spec
=============================================================================
