-------------------------------- MODULE Chat --------------------------------
(***************************************************************************)
(* Channels (chat.cpp): who is in which, and what the clients show.        *)
(*                                                                         *)
(* A normal channel exists from the start, the channel of the guild from   *)
(* the first time somebody asks for the list of channels, that of a party  *)
(* likewise; the latter is found by the address of the party and stays     *)
(* when the party is deleted, so a new party may find an old channel.  A   *)
(* private channel lives as long as its owner is in it.                    *)
(*                                                                         *)
(* The server keeps the users of a channel, the client a window for it;    *)
(* they agree only through the messages each handler sends.  A player may  *)
(* lose his client and stay in the world, and get a new one, whose windows *)
(* are all closed.  Scripts that deny a player a channel are left out, and *)
(* so are vocations, levels, mutes and the guild commands.                 *)
(***************************************************************************)
EXTENDS Naturals, FiniteSets

CONSTANTS
  Players,        \* all of them premium
  None,           \* no party, no owner
  Parties,        \* addresses of parties
  Slots,          \* ids of private channels
  CanLoseClient,  \* clients may go while their players stay
  CanReload       \* an administrator may reload the channels

ChatAssumption ==
  /\ None \notin Players \union Parties \union Slots \union {"trade", "guild"}
  /\ Parties \intersect Slots = {}
  /\ {"trade", "guild", "party"} \intersect (Parties \union Slots) = {}
  /\ {CanLoseClient, CanReload} \subseteq BOOLEAN
  /\ Cardinality(Slots) >= Cardinality(Players)

VARIABLES
  online,   \* the players in the world
  client,   \* those with a client
  guild,    \* the members of the guild
  party,    \* the party of each player
  exists,   \* the channels that exist
  users,    \* m_users of each channel
  owner,    \* m_owner of each private channel
  invites,  \* m_invites of each private channel
  windows   \* the windows of each client
vars == <<online, client, guild, party, exists, users, owner, invites, windows>>
private == <<owner, invites>>

Channels == {"trade", "guild"} \union Parties \union Slots
Kinds == {"trade", "guild", "party"} \union Slots

TypeOK ==
  /\ client \subseteq online /\ online \subseteq Players /\ guild \subseteq Players
  /\ party \in [Players -> Parties \union {None}]
  /\ exists \subseteq Channels
  /\ users \in [Channels -> SUBSET Players]
  /\ \A c \in Channels \ exists : users[c] = {}
  /\ owner \in [Slots -> Players \union {None}]
  /\ invites \in [Slots -> SUBSET Players]
  /\ windows \in [Players -> SUBSET Kinds]
  /\ \A p \in Players \ client : windows[p] = {}

Init ==
  /\ online = {} /\ client = {} /\ guild = {}
  /\ party = [p \in Players |-> None]
  /\ exists = {"trade"}
  /\ users = [c \in Channels |-> {}]
  /\ owner = [s \in Slots |-> None] /\ invites = [s \in Slots |-> {}]
  /\ windows = [p \in Players |-> {}]

-----------------------------------------------------------------------------
(* Channels *)

\* PrivateChatChannel::isInvited
IsInvited(p, s) == owner[s] = p \/ p \in invites[s]

\* Chat::getChannel: the channel of this kind that this player may use.
GetChannel(p, kind) ==
  IF kind = "trade" THEN "trade"
  ELSE IF kind = "guild" THEN IF p \in guild /\ "guild" \in exists THEN "guild" ELSE None
  ELSE IF kind = "party" THEN IF party[p] \in exists THEN party[p] ELSE None
  ELSE IF kind \in exists /\ IsInvited(p, kind) THEN kind ELSE None

Owned(p) == {s \in Slots \intersect exists : owner[s] = p}

\* Chat::deleteChannel and PrivateChatChannel::closeChannel: the windows of
\* its users are closed, and the channel is gone.
Deletes(gone) ==
  /\ exists' = exists \ gone
  /\ users' = [c \in Channels |-> IF c \in gone THEN {} ELSE users[c]]
  /\ owner' = [s \in Slots |-> IF s \in gone THEN None ELSE owner[s]]
  /\ invites' = [s \in Slots |-> IF s \in gone THEN {} ELSE invites[s]]
  /\ windows' = [p \in Players |->
       windows[p] \ {s \in gone \intersect Slots : p \in users[s] /\ p \in client}]

-----------------------------------------------------------------------------
(* What a player asks for *)

\* Chat::getChannelList: the channels of his party and of his guild exist from
\* now on.
RequestChannels(p) ==
  /\ p \in client
  /\ exists' = exists \union (IF party[p] = None THEN {} ELSE {party[p]})
                      \union (IF p \in guild THEN {"guild"} ELSE {})
  /\ UNCHANGED <<online, client, guild, party, users, private, windows>>

\* Game::playerOpenChannel, ChatChannel::addUser
OpenChannel(p, kind) ==
  LET c == GetChannel(p, kind) IN
  /\ p \in client /\ c # None /\ p \notin users[c]
  /\ users' = [users EXCEPT ![c] = @ \union {p}]
  /\ windows' = [windows EXCEPT ![p] = @ \union {kind}]
  /\ UNCHANGED <<online, client, guild, party, exists, private>>

\* "only 1 private channel for each premium player"
MayOwn(p) == Owned(p) = {}

\* Game::playerCreatePrivateChannel
CreatePrivateChannel(p) ==
  /\ p \in client /\ MayOwn(p)
  /\ \E s \in Slots \ exists :
       /\ exists' = exists \union {s}
       /\ users' = [users EXCEPT ![s] = {p}]
       /\ owner' = [owner EXCEPT ![s] = p]
       /\ windows' = [windows EXCEPT ![p] = @ \union {s}]
  /\ UNCHANGED <<online, client, guild, party, invites>>

\* Game::playerChannelInvite
ChannelInvite(p, q) ==
  /\ p \in client /\ q \in online
  /\ \E s \in Owned(p) :
       /\ invites' = [invites EXCEPT ![s] = @ \union {q}]
       /\ users' = [users EXCEPT ![s] = @ \union {q}]
       /\ windows' = IF q \in client THEN [windows EXCEPT ![q] = @ \union {s}]
                     ELSE windows
  /\ UNCHANGED <<online, client, guild, party, exists, owner>>

\* PrivateChatChannel::excludePlayer ends with removeUser.
Excluded(s, q) == [users EXCEPT ![s] = @ \ {q}]

\* Game::playerChannelExclude: of himself, the owner deletes the channel.
ChannelExclude(p, q) ==
  /\ p \in client /\ q \in online
  /\ \E s \in Owned(p) :
       \/ p = q /\ Deletes({s})
       \/ /\ p # q /\ q \in invites[s]
          /\ invites' = [invites EXCEPT ![s] = @ \ {q}]
          /\ users' = Excluded(s, q)
          /\ windows' = [windows EXCEPT ![q] = @ \ {s}]
          /\ UNCHANGED <<exists, owner>>
  /\ UNCHANGED <<online, client, guild, party>>

\* Chat::removeUserFromChannel, in the state that is given by the channel
\* getChannel finds: the owner takes the channel with him.
RemovedFrom(p, c) ==
  IF c = None \/ p \notin users[c] THEN UNCHANGED <<exists, users, private>>
  ELSE IF c \in Owned(p)
    THEN /\ exists' = exists \ {c}
         /\ users' = [users EXCEPT ![c] = {}]
         /\ owner' = [owner EXCEPT ![c] = None]
         /\ invites' = [invites EXCEPT ![c] = {}]
    ELSE users' = [users EXCEPT ![c] = @ \ {p}] /\ UNCHANGED <<exists, private>>

\* Game::playerCloseChannel, after the client has closed the window.
CloseChannel(p, kind) ==
  LET c == GetChannel(p, kind) IN
  /\ p \in client /\ kind \in windows[p]
  /\ RemovedFrom(p, c)
  /\ windows' = [q \in Players |->
       IF q = p \/ (c \in Owned(p) /\ p \in users[c] /\ q \in users[c])
         THEN windows[q] \ {kind} ELSE windows[q]]
  /\ UNCHANGED <<online, client, guild, party>>

-----------------------------------------------------------------------------
(* Guild and party *)

JoinGuild(p) ==
  /\ p \in online /\ p \notin guild
  /\ guild' = guild \union {p}
  /\ UNCHANGED <<online, client, party, exists, users, private, windows>>

\* Variant: he leaves first, and his channel is no longer found.
LeavesChannelAfter(p) == RemovedFrom(p, None)
\* ProtocolGame::sendClosePrivate, if there is a client and before he leaves.
LeavesChannel(p) == RemovedFrom(p, IF p \in client THEN GetChannel(p, "guild") ELSE None)

\* Player::leaveGuild
LeaveGuild(p) ==
  /\ p \in online /\ p \in guild
  /\ LeavesChannel(p)
  /\ guild' = guild \ {p}
  /\ windows' = [windows EXCEPT ![p] = @ \ {"guild"}]
  /\ UNCHANGED <<online, client, party>>

Members(a) == {p \in Players : party[p] = a}

\* Two players found a party, at an address that is free; or one joins.
JoinParty(p, q, a) ==
  /\ {p, q} \subseteq online /\ p # q /\ party[p] = None
  /\ \/ Members(a) = {} /\ party[q] = None
        /\ party' = [party EXCEPT ![p] = a, ![q] = a]
     \/ party[q] = a /\ party' = [party EXCEPT ![p] = a]
  /\ UNCHANGED <<online, client, guild, exists, users, private, windows>>

\* Invitations to a party, and a leader who is alone with them, are in Party.
\* Party::leave: the party of the player is set to NULL, then sendClosePrivate
\* looks for the channel of his party.  The rest goes on.
LeaveParty(p) ==
  /\ p \in online /\ party[p] # None /\ Cardinality(Members(party[p])) > 2
  /\ party' = [party EXCEPT ![p] = None]
  /\ windows' = [windows EXCEPT ![p] = @ \ {"party"}]
  /\ UNCHANGED <<online, client, guild, exists, users, private>>

\* Party::leave and Party::disband: of two, one leaves as above, the other is
\* told to close the channel while he still has a party.
Disband(p) ==
  LET a == party[p]
      rest == Members(a) \ {p} IN
  /\ p \in online /\ a # None /\ Cardinality(rest) = 1
  /\ party' = [q \in Players |-> IF party[q] = a THEN None ELSE party[q]]
  /\ users' = IF a \in exists THEN [users EXCEPT ![a] = @ \ (rest \intersect client)]
              ELSE users
  /\ windows' = [q \in Players |-> IF q \in Members(a) THEN windows[q] \ {"party"}
                                   ELSE windows[q]]
  /\ UNCHANGED <<online, client, guild, exists, private>>

-----------------------------------------------------------------------------
(* Coming and going *)

\* The channels that removeUserFromAllChannels takes the player out of.  The
\* owner of a private channel deletes it in the middle of the loop over them;
\* what the iterator does then is undefined: the loop may miss the others.
Left(p) == Channels \ Owned(p)
Missed(p) == IF Owned(p) = {} THEN {{}} ELSE SUBSET (Slots \intersect exists)

\* Chat::removeUserFromAllChannels; the client of the player gets no message.
RemoveFromAll(p) ==
  \E missed \in Missed(p) :
    LET gone == Owned(p)
        left == Left(p) \ missed IN
    /\ exists' = exists \ gone
    /\ users' = [c \in Channels |-> IF c \in gone THEN {}
                                    ELSE IF c \in left THEN users[c] \ {p} ELSE users[c]]
    /\ owner' = [s \in Slots |-> IF s \in gone THEN None ELSE owner[s]]
    /\ invites' = [s \in Slots |-> IF s \in gone THEN {} ELSE invites[s]]
    /\ windows' = [q \in Players |->
         IF q = p THEN {} ELSE windows[q] \ {s \in gone : q \in users[s]}]

Login(p) ==
  /\ p \notin online
  /\ online' = online \union {p} /\ client' = client \union {p}
  /\ UNCHANGED <<guild, party, exists, users, private, windows>>

\* Player::onCreatureDisappear; the party was left before.
Logout(p) ==
  /\ p \in online /\ party[p] = None
  /\ RemoveFromAll(p)
  /\ online' = online \ {p} /\ client' = client \ {p}
  /\ UNCHANGED <<guild, party>>

\* A new client takes the place of the old one.
Replace(p) ==
  /\ CanLoseClient /\ p \in client
  /\ RemoveFromAll(p)
  /\ UNCHANGED <<online, client, guild, party>>

LoseClient(p) ==
  /\ CanLoseClient /\ p \in client
  /\ client' = client \ {p}
  /\ windows' = [windows EXCEPT ![p] = {}]
  /\ UNCHANGED <<online, guild, party, exists, users, private>>

\* ProtocolGame::connect
Reconnect(p) ==
  /\ p \in online \ client
  /\ client' = client \union {p}
  /\ UNCHANGED <<online, guild, party, exists, users, private, windows>>

\* Chat::reload: all channels but those of guilds are deleted, without a word
\* to the clients, and the normal ones are loaded again.
Reload ==
  LET gone == Channels \ {"guild"} IN
  /\ CanReload
  /\ exists' = (exists \ gone) \union {"trade"}
  /\ users' = [c \in Channels |-> IF c \in gone THEN {} ELSE users[c]]
  /\ owner' = [s \in Slots |-> None] /\ invites' = [s \in Slots |-> {}]
  /\ UNCHANGED <<online, client, guild, party, windows>>

Next ==
  \/ \E p \in Players :
       \/ RequestChannels(p) \/ CreatePrivateChannel(p)
       \/ JoinGuild(p) \/ LeaveGuild(p) \/ LeaveParty(p) \/ Disband(p)
       \/ Login(p) \/ Logout(p) \/ Replace(p) \/ LoseClient(p) \/ Reconnect(p)
  \/ \E p \in Players, kind \in Kinds : OpenChannel(p, kind) \/ CloseChannel(p, kind)
  \/ \E p, q \in Players : ChannelInvite(p, q) \/ ChannelExclude(p, q)
  \/ \E p, q \in Players, a \in Parties : JoinParty(p, q, a)
  \/ Reload

Spec == Init /\ [][Next]_vars

-----------------------------------------------------------------------------
(* Properties *)

\* Nobody owns two private channels.
OnePrivate == \A p \in Players : Cardinality(Owned(p)) <= 1

\* Only its owner and those he invited, and did not exclude since, are in a
\* private channel, whoever comes, goes and comes back.
InvitedOnly == \A s \in Slots \intersect exists : \A p \in users[s] : IsInvited(p, s)

\* A channel holds a pointer to each of its users: in a normal channel, or
\* that of a guild or party, none is left of a player who is gone.
UsersAreOnline == \A c \in Channels \ Slots : users[c] \subseteq online

\* Without link losses and reloads, a window that is open is one of a channel
\* that the player is in, and he can talk there.
WindowsWork ==
  \A p \in client : \A kind \in windows[p] \ {"party"} :
    GetChannel(p, kind) # None /\ p \in users[GetChannel(p, kind)]

\* Without link losses, only members hear what is said in the guild.
GuildHears == users["guild"] \subseteq guild

\* Whoever is in a private channel may be, and no channel is left with a pointer
\* to a player who is gone.
ChannelsSound == OnePrivate /\ InvitedOnly /\ UsersAreOnline
=============================================================================
