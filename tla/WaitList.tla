------------------------------ MODULE WaitList ------------------------------
(***************************************************************************)
(* WaitingList (waitlist.cpp): who may come in when the server is full.    *)
(*                                                                         *)
(* A client asks, is let in or told its place and when to ask again; it    *)
(* keeps its place if it asks again within that time and 15 seconds.       *)
(* Nothing runs between the questions: places that nobody claimed are      *)
(* dropped when the next client asks, and a place is compared with the     *)
(* number of players online only when its own client asks.                 *)
(*                                                                         *)
(* Clients, a name with an address, come and go; one becomes premium.      *)
(* Time passes in steps of five seconds, the shortest wait, and is kept as *)
(* the seconds an entry still has.  A client in Patient asks in time.      *)
(* A client that is let in stays in: a login that fails later is left out. *)
(***************************************************************************)
EXTENDS Integers, Sequences, FiniteSets, SequencesExt

CONSTANTS
  Clients,      \* players, each with its address
  AlwaysLogin,  \* those with PlayerFlag_CanAlwaysLogin, and account managers
  Patient,      \* those that ask again in time
  Buyers,       \* those that may become premium
  MaxPlayers,   \* maxPlayers of config.lua
  SkipWaits     \* the values premiumPlayerSkipWaitList takes

WaitListAssumption ==
  /\ AlwaysLogin \subseteq Clients /\ Patient \subseteq Clients
  /\ Buyers \subseteq Clients
  /\ MaxPlayers \in Nat \ {0} /\ SkipWaits \subseteq BOOLEAN /\ SkipWaits # {}

VARIABLES
  waitList,   \* the entries, first to come in first
  online,     \* the clients in the world
  premium,    \* the clients that are premium
  skipWait,   \* premiumPlayerSkipWaitList of config.lua, as last loaded
  refused     \* clients that were refused since they last were online
vars == <<waitList, online, premium, skipWait, refused>>

Step == 5   \* seconds of a tick

\* WaitingList::getTime and getTimeout, in seconds.
GetTime(slot) == IF slot < 5 THEN 5 ELSE IF slot < 10 THEN 10
                 ELSE IF slot < 20 THEN 20 ELSE IF slot < 50 THEN 60 ELSE 120
GetTimeout(slot) == GetTime(slot) + 15

TypeOK ==
  /\ waitList \in Seq([who : Clients, premium : BOOLEAN, left : -Step .. GetTimeout(50)])
  /\ online \subseteq Clients /\ premium \subseteq Buyers /\ refused \subseteq Clients
  /\ skipWait \in SkipWaits

Init ==
  /\ waitList = <<>> /\ online = {} /\ premium = {} /\ refused = {}
  /\ skipWait \in SkipWaits

\* WaitingList::cleanup
Cleanup(list) ==
  LET kept[n \in 0 .. Len(list)] ==
        IF n = 0 THEN <<>>
        ELSE IF list[n].left > 0 THEN Append(kept[n - 1], list[n]) ELSE kept[n - 1]
  IN  kept[Len(list)]

\* WaitingList::find: the place of a client, 0 if it has none.
Find(list, c) == SelectInSeq(list, LAMBDA w : w.who = c)

\* Who comes in without waiting.
SkipsWait(c) ==
  \/ c \in AlwaysLogin
  \/ waitList = <<>> /\ Cardinality(online) < MaxPlayers
  \/ skipWait /\ c \in premium

\* The place of a new entry: premium ones go before the first that is not.
Place(list, c) ==
  LET regular == {i \in DOMAIN list : ~list[i].premium} IN
  IF c \in premium /\ regular # {}
    THEN CHOOSE i \in regular : \A j \in regular : i <= j
    ELSE Len(list) + 1

Entry(c, slot) == [who |-> c, premium |-> c \in premium, left |-> GetTimeout(slot)]

\* Variant: only the number of players counts, not the place.
HasRoomAnyPlace(slot) == Cardinality(online) < MaxPlayers
\* There is room for this place and all before it.
HasRoom(slot) == Cardinality(online) + slot <= MaxPlayers

\* WaitingList::login says yes.
LetIn(c) ==
  /\ c \notin online
  /\ \/ SkipsWait(c) /\ UNCHANGED waitList
     \/ LET list == Cleanup(waitList)
            slot == Find(list, c) IN
        /\ ~SkipsWait(c) /\ slot > 0 /\ HasRoom(slot)
        /\ waitList' = RemoveAt(list, slot)
  /\ online' = online \union {c}
  /\ refused' = refused \ {c}
  /\ UNCHANGED <<premium, skipWait>>

\* "let them wait a bit longer"
WaitLonger(list, slot) == [list EXCEPT ![slot].left = GetTimeout(slot)]

\* WaitingList::login says no: the client keeps its place or gets one.
Refuse(c) ==
  LET list == Cleanup(waitList)
      slot == Find(list, c) IN
  /\ c \notin online /\ ~SkipsWait(c)
  /\ \/ /\ slot > 0 /\ ~HasRoom(slot)
        /\ waitList' = WaitLonger(list, slot)
     \/ /\ slot = 0
        /\ waitList' = InsertAt(list, Place(list, c), Entry(c, Place(list, c)))
  /\ refused' = refused \union {c}
  /\ UNCHANGED <<online, premium, skipWait>>

Leave(c) ==
  /\ c \in online
  /\ online' = online \ {c}
  /\ UNCHANGED <<waitList, premium, skipWait, refused>>

BuyPremium(c) ==
  /\ c \in Buyers \ premium
  /\ premium' = premium \union {c}
  /\ UNCHANGED <<waitList, online, skipWait, refused>>

\* The configuration is loaded again.
Reload ==
  /\ skipWait' \in SkipWaits \ {skipWait}
  /\ UNCHANGED <<waitList, online, premium, refused>>

\* Five seconds pass, but not past the time of a patient client's entry.
Tick ==
  /\ waitList # <<>>
  /\ \A i \in DOMAIN waitList : waitList[i].who \in Patient /\ waitList[i].who \notin online
                                => waitList[i].left > Step
  /\ waitList' = [i \in DOMAIN waitList |->
                    [waitList[i] EXCEPT !.left = IF @ > -Step THEN @ - Step ELSE @]]
  /\ UNCHANGED <<online, premium, skipWait, refused>>

Next ==
  \/ \E c \in Clients : LetIn(c) \/ Refuse(c) \/ Leave(c) \/ BuyPremium(c)
  \/ Tick \/ Reload

\* Time passes, players leave in the end, a patient client goes on asking.
Fairness ==
  /\ WF_vars(Tick)
  /\ \A c \in Clients : WF_vars(Leave(c))
  /\ \A c \in Patient : WF_vars(LetIn(c)) /\ WF_vars(c \in refused /\ Refuse(c))

Spec == Init /\ [][Next]_vars /\ Fairness

-----------------------------------------------------------------------------
(* Properties                                                              *)

\* find() takes the first entry of a client: there is no second one.
OneEntry ==
  \A i, j \in DOMAIN waitList : waitList[i].who = waitList[j].who => i = j

\* Premium players wait before the others.
PremiumFirst ==
  \A i, j \in DOMAIN waitList : i < j /\ waitList[j].premium => waitList[i].premium

\* The list is in order.
ListSound == TypeOK /\ OneEntry /\ PremiumFirst

\* Of two clients that wait the first stays first, until one of them comes in
\* or did not ask in time.
Before(list, c, d) == Find(list, c) # 0 /\ Find(list, c) < Find(list, d)
Late(c) == waitList[Find(waitList, c)].left <= 0
KeepsPlace ==
  \A c, d \in Clients : Before(waitList, c, d) =>
    Before(waitList', c, d) \/ {c, d} \intersect online' # {} \/ Late(c) \/ Late(d)

\* A client that neither skips the list nor comes when it is empty takes no
\* room from a client that waits before it and asks in time.
TakesNoRoom ==
  \A c \in online' \ online : ~SkipsWait(c) =>
    Cardinality(online') +
      Cardinality({d \in Clients : Before(waitList, d, c) /\ ~Late(d)}) <= MaxPlayers

\* A client that is refused and goes on asking in time comes in.
Served == \A c \in Patient : (c \in refused) ~> (c \in online)
=============================================================================
