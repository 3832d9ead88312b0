-------------------------------- MODULE Party --------------------------------
(***************************************************************************)
(* Parties of players (src/src/party.cpp), with the commands of the client *)
(* that act on them (game.cpp) and what a logout does to them (player.cpp).*)
(* All of it runs in the dispatcher thread, so a command is one action.    *)
(*                                                                         *)
(* Membership is kept twice: a party lists its leader, members and invited *)
(* players, and each player points to his party and lists the parties that *)
(* invited him.  All are raw pointers, and a party deletes itself when it  *)
(* disbands, so the two sides must agree.                                  *)
(*                                                                         *)
(* A party is named by its address, which a later one may reuse.  Lists of *)
(* players are sets: the first member, who inherits the lead, is any.      *)
(***************************************************************************)
EXTENDS FiniteSets

CONSTANTS Players,
          Parties,  \* addresses of Party objects
          NoParty   \* NULL; also the content of an address without an object

ASSUME PartyAssumption ==
  /\ NoParty \notin Parties
  /\ NoParty \notin [leader : Players, members : SUBSET Players,
                     invites : SUBSET Players, active : BOOLEAN, enabled : BOOLEAN]

VARIABLES online,      \* players that are logged in
          party,       \* the object at each address
          partyOf,     \* Player::party
          invitations, \* Player::invitePartyList
          selfInvited, \* players that invited themselves since their list was empty
          undefined    \* has a party been used after its end; all ends with that

vars == <<online, party, partyOf, invitations, selfInvited, undefined>>

Records == [leader : Players, members : SUBSET Players, invites : SUBSET Players,
            active : BOOLEAN, enabled : BOOLEAN]

TypeOK ==
  /\ online \in SUBSET Players
  /\ party \in [Parties -> Records \cup {NoParty}]
  /\ partyOf \in [Players -> Parties \cup {NoParty}]
  /\ invitations \in [Players -> SUBSET Parties]
  /\ selfInvited \in SUBSET Players
  /\ undefined \in BOOLEAN

Init ==
  /\ online = {}
  /\ party = [q \in Parties |-> NoParty]
  /\ partyOf = [p \in Players |-> NoParty]
  /\ invitations = [p \in Players |-> {}]
  /\ selfInvited = {}
  /\ undefined = FALSE

Alive == {q \in Parties : party[q] # NoParty}

-----------------------------------------------------------------------------
(* What the methods of a party make of its record                          *)

\* updateSharedExperience(): levels, places and activity of the members are not
\* modelled, an empty member list is.
SharedUpdated(r) ==
  IF ~r.active THEN {r}
  ELSE {[r EXCEPT !.enabled = b] : b \in IF r.members = {} THEN {FALSE} ELSE BOOLEAN}

\* passLeadership()
Passed(r, p) ==
  IF p \notin r.members \/ p \notin online \/ p = r.leader
  THEN {r}
  ELSE SharedUpdated([r EXCEPT !.leader = p,
                               !.members = (@ \ {p}) \cup {r.leader}])

\* leave(): is there nobody to inherit the lead?
MissingLeader(r, p) ==
  /\ p = r.leader
  /\ r.members = {} \/ (Cardinality(r.members) = 1 /\ r.invites = {})

\* Variant: shared experience is not looked at again.
LeftNoUpdate(r, p) ==
  {[s EXCEPT !.members = @ \ {p}, !.invites = @ \ {p}] :
     s \in IF p = r.leader /\ ~MissingLeader(r, p)
           THEN UNION {Passed(r, m) : m \in r.members}
           ELSE {r}}

\* leave(): the record once p is out.
Left(r, p) ==
  UNION {SharedUpdated([s EXCEPT !.members = @ \ {p}, !.invites = @ \ {p}]) :
           s \in IF p = r.leader /\ ~MissingLeader(r, p)
                 THEN UNION {Passed(r, m) : m \in r.members}
                 ELSE {r}}

\* canDisband()
CanDisband(r) == r.members = {} /\ r.invites = {}

-----------------------------------------------------------------------------
(* Calls shared by several commands                                        *)

Inviting(p, i) ==
  /\ partyOf[p] # NoParty
  /\ party[partyOf[p]].leader = p
  /\ i \in online
  /\ i \in party[partyOf[p]].invites

Leads(p) == partyOf[p] # NoParty /\ party[partyOf[p]].leader = p

\* Variant: disband() does not take back its invitations.
LeaveKeepsLists(p, parties, pointers, lists) ==
  LET q == pointers[p]
  IN  /\ invitations' = lists
      /\ IF p \notin parties[q].members \cup {parties[q].leader}
         THEN party' = parties /\ partyOf' = pointers
         ELSE \E r \in Left(parties[q], p) :
                LET gone == MissingLeader(parties[q], p) \/ CanDisband(r)
                IN  /\ party' = [parties EXCEPT ![q] = IF gone THEN NoParty ELSE r]
                    /\ partyOf' = [o \in Players |->
                         IF o = p \/ (gone /\ o \in r.members \cup {r.leader})
                         THEN NoParty ELSE pointers[o]]

\* p leaves, when parties and pointers are as given: leave(), and disband() if it
\* comes to that.
Leave(p, parties, pointers, lists) ==
  LET q == pointers[p]
  IN  IF p \notin parties[q].members \cup {parties[q].leader}
      THEN party' = parties /\ partyOf' = pointers /\ invitations' = lists
      ELSE \E r \in Left(parties[q], p) :
             LET gone == MissingLeader(parties[q], p) \/ CanDisband(r)
             IN  /\ party' = [parties EXCEPT ![q] = IF gone THEN NoParty ELSE r]
                 /\ partyOf' = [o \in Players |->
                      IF o = p \/ (gone /\ o \in r.members \cup {r.leader})
                      THEN NoParty ELSE pointers[o]]
                 /\ invitations' = [o \in Players |->
                      IF gone /\ o \in r.invites THEN lists[o] \ {q} ELSE lists[o]]

\* The parties that p's removeInvite() finds him in, and those of them it disbands.
Declined(p) == {q \in invitations[p] \cap Alive : p \in party[q].invites}

Abandoned(p) == {q \in Declined(p) : party[q].members = {} /\ party[q].invites = {p}}

Declining(p) ==
  [q \in Parties |-> IF q \in Abandoned(p) THEN NoParty
                     ELSE IF q \in Declined(p) THEN [party[q] EXCEPT !.invites = @ \ {p}]
                     ELSE party[q]]

PointersAfter(p) ==
  [o \in Players |-> IF \E q \in Abandoned(p) : party[q].leader = o
                     THEN NoParty ELSE partyOf[o]]

ListsAfter(p) == [invitations EXCEPT ![p] = {}]

\* clearPartyInvitations(), then leave() if p still has a party.  An address in the
\* list without an object is a use after the end.
Drop(p) ==
  /\ undefined' = (invitations[p] \ Alive # {})
  /\ selfInvited' = IF undefined' THEN selfInvited ELSE selfInvited \ {p}
  /\ IF PointersAfter(p)[p] = NoParty
     THEN /\ party' = Declining(p)
          /\ partyOf' = PointersAfter(p)
          /\ invitations' = ListsAfter(p)
     ELSE Leave(p, Declining(p), PointersAfter(p), ListsAfter(p))

-----------------------------------------------------------------------------
(* The commands                                                            *)

Login(p) ==
  /\ p \notin online
  /\ online' = online \cup {p}
  /\ UNCHANGED <<party, partyOf, invitations, selfInvited, undefined>>

Logout(p) ==
  /\ p \in online
  /\ Drop(p)
  /\ online' = online \ {p}

\* The talk action that makes a game master invisible.
Ghost(p) ==
  /\ p \in online
  /\ Drop(p)
  /\ UNCHANGED online

\* Who may be invited by p.
MayInvite(p, i) ==
  /\ p \in online /\ i \in online
  /\ ~Inviting(i, p)
  /\ partyOf[i] = NoParty

\* playerInviteToParty() of a player without a party: he gets one.
InviteToNew(p, i) ==
  /\ MayInvite(p, i)
  /\ partyOf[p] = NoParty
  /\ \E q \in Parties \ Alive :
       /\ party' = [party EXCEPT ![q] = [leader |-> p, members |-> {}, invites |-> {i},
                                        active |-> FALSE, enabled |-> FALSE]]
       /\ partyOf' = [partyOf EXCEPT ![p] = q]
       /\ invitations' = [invitations EXCEPT ![i] = @ \cup {q}]
  /\ selfInvited' = IF p = i THEN selfInvited \cup {p} ELSE selfInvited
  /\ UNCHANGED <<online, undefined>>

\* playerInviteToParty() of a leader.
Invite(p, i) ==
  /\ MayInvite(p, i)
  /\ Leads(p)
  /\ i \notin party[partyOf[p]].invites
  /\ party' = [party EXCEPT ![partyOf[p]].invites = @ \cup {i}]
  /\ invitations' = [invitations EXCEPT ![i] = @ \cup {partyOf[p]}]
  /\ UNCHANGED <<online, partyOf, selfInvited, undefined>>

\* playerJoinParty()
Join(p, l) ==
  /\ p \in online /\ l \in online
  /\ Inviting(l, p)
  /\ partyOf[p] = NoParty
  /\ LET q == partyOf[l]
         r == [party[q] EXCEPT !.members = @ \cup {p}, !.invites = @ \ {p}]
     IN  /\ p \notin party[q].members
         /\ \E s \in SharedUpdated(r) : party' = [party EXCEPT ![q] = s]
         /\ partyOf' = [partyOf EXCEPT ![p] = q]
         /\ invitations' = [invitations EXCEPT ![p] = @ \ {q}]
  /\ UNCHANGED <<online, selfInvited, undefined>>

\* playerRevokePartyInvitation()
RevokeInvitation(p, i) ==
  /\ p \in online /\ i \in online
  /\ Leads(p)
  /\ Inviting(p, i)
  /\ LET q == partyOf[p]
         r == [party[q] EXCEPT !.invites = @ \ {i}]
     IN  /\ invitations' = [invitations EXCEPT ![i] = @ \ {q}]
         /\ IF CanDisband(r)
            THEN /\ party' = [party EXCEPT ![q] = NoParty]
                 /\ partyOf' = [partyOf EXCEPT ![p] = NoParty]
            ELSE /\ party' = [party EXCEPT ![q] = r]
                 /\ UNCHANGED partyOf
  /\ UNCHANGED <<online, selfInvited, undefined>>

\* playerPassPartyLeadership()
PassLeadership(p, n) ==
  /\ p \in online /\ n \in online
  /\ Leads(p)
  /\ partyOf[n] = partyOf[p]
  /\ \E r \in Passed(party[partyOf[p]], n) : party' = [party EXCEPT ![partyOf[p]] = r]
  /\ UNCHANGED <<online, partyOf, invitations, selfInvited, undefined>>

\* playerLeaveParty()
LeaveParty(p) ==
  /\ p \in online
  /\ partyOf[p] # NoParty
  /\ Leave(p, party, partyOf, invitations)
  /\ UNCHANGED <<online, selfInvited, undefined>>

\* playerSharePartyExperience()
ShareExperience(p, activate) ==
  /\ p \in online
  /\ Leads(p)
  /\ party[partyOf[p]].active # activate
  /\ \E r \in SharedUpdated([party[partyOf[p]] EXCEPT !.active = activate]) :
       party' = [party EXCEPT ![partyOf[p]] = r]
  /\ UNCHANGED <<online, partyOf, invitations, selfInvited, undefined>>

\* updateSharedExperience() when a member fights, is healed or gains a level.
UpdateShared(p) ==
  /\ partyOf[p] # NoParty
  /\ \E r \in SharedUpdated(party[partyOf[p]]) :
       party' = [party EXCEPT ![partyOf[p]] = r]
  /\ UNCHANGED <<online, partyOf, invitations, selfInvited, undefined>>

Next ==
  /\ ~undefined
  /\ \E p \in Players :
       \/ Login(p) \/ Logout(p) \/ Ghost(p) \/ LeaveParty(p) \/ UpdateShared(p)
       \/ \E b \in BOOLEAN : ShareExperience(p, b)
       \/ \E o \in Players : \/ InviteToNew(p, o) \/ Invite(p, o) \/ Join(p, o)
                             \/ RevokeInvitation(p, o) \/ PassLeadership(p, o)

Spec == Init /\ [][Next]_vars

-----------------------------------------------------------------------------
(* What makes it correct                                                   *)

\* The two sides agree: a player points to a party exactly if it lists him as its
\* leader or as a member, never both; so nobody is in two parties.
SidesAgree ==
  /\ \A p \in Players, q \in Parties :
       partyOf[p] = q <=> q \in Alive /\ p \in party[q].members \cup {party[q].leader}
  /\ \A q \in Alive : party[q].leader \notin party[q].members

\* Only players that are logged in are in a party, or invited to one.
OnlineOnly ==
  \A q \in Alive : party[q].members \cup party[q].invites \cup {party[q].leader} \subseteq online

\* A party that invites a player is in his list, so that his logout will find it.
InvitesKnown ==
  \A q \in Alive : \A p \in party[q].invites : q \in invitations[p]

\* A party in a player's list exists and invites him, unless he invited himself.
NoDangling ==
  /\ \A p \in Players \ selfInvited :
       \A q \in invitations[p] : q \in Alive /\ p \in party[q].invites
  /\ undefined => selfInvited # {}

\* No party outlives the last player that could talk to its leader.
NoLonelyLeader == \A q \in Alive : ~CanDisband(party[q])

\* Shared experience is only on while there is someone to share it with.
SharedHasMembers ==
  \A q \in Alive : party[q].active /\ party[q].enabled => party[q].members # {}

\* Players, parties and invitations agree, and nobody points to what is gone.
PartySound == TypeOK /\ SidesAgree /\ OnlineOnly /\ InvitesKnown /\ NoDangling

\* A party has somebody in it who matters.
PartyNeeded == NoLonelyLeader /\ SharedHasMembers
=============================================================================
