-------------------------------- MODULE Trade --------------------------------
(***************************************************************************)
(* Trades between two players (src/src/game.cpp), with what ends them from *)
(* outside (player.cpp) and the sale of a house, which is a trade whose    *)
(* goods are a transfer document (talkaction.cpp, house.cpp).  All of it   *)
(* runs in the dispatcher thread, so a command is one action; what makes   *)
(* it hard is everything that happens between two commands of a trade.     *)
(*                                                                         *)
(* An item is counted: whoever keeps a pointer to it adds a reference, and *)
(* freeThing() puts it on a list whose references Game::cleanup() takes    *)
(* back later.  An item without references is deleted.                     *)
(*                                                                         *)
(* Left out: distances and line of sight (a request is accepted or not),   *)
(* stacks (a thing passes whole) and guild halls.                          *)
(***************************************************************************)
EXTENDS Naturals, FiniteSets

CONSTANTS Players,
          Things,   \* items that lie on the ground or are carried
          Papers,   \* addresses of transfer documents
          Houses,
          Bags,     \* the containers among them
          Deep,     \* bags with a bag of their own sewn in
          None, Ground, Nowhere,
          MaxUses   \* bound on the references to an item

Items == Things \cup Papers

ASSUME TradeAssumption ==
  /\ Things \cap Papers = {}
  /\ Deep \subseteq Bags /\ Bags \subseteq Things
  /\ None \notin Players \cup Items \cup Houses
  /\ Ground # Nowhere /\ {Ground, Nowhere} \cap Players = {}
  /\ MaxUses \in Nat

VARIABLES online,
          state, partner, item, \* Player::tradeState, tradePartner, tradeItem
          traded,   \* the items in Game::tradeItems
          uses,     \* Thing::useCount
          toFree,   \* how often an item stands in Game::releaseThings
          holder,   \* the player who carries an item, Ground or Nowhere
          inside,   \* the bag a thing is in, or None
          deed,     \* TransferItem::house
          owner,    \* House::owner
          early,    \* players that once accepted a trade without an offer of theirs
          undefined \* has a NULL item been used; all ends with that

trade == <<state, partner, item, traded>>
vars == <<online, trade, uses, toFree, holder, inside, deed, owner, early, undefined>>

States == {"none", "initiated", "acknowledge", "accept"}

TypeOK ==
  /\ online \in SUBSET Players
  /\ state \in [Players -> States]
  /\ partner \in [Players -> Players \cup {None}]
  /\ item \in [Players -> Items \cup {None}]
  /\ traded \in SUBSET Items
  /\ uses \in [Items -> Nat]
  /\ toFree \in [Items -> Nat]
  /\ holder \in [Items -> Players \cup {Ground, Nowhere}]
  /\ inside \in [Things -> Bags \cup {None}]
  /\ deed \in [Papers -> Houses \cup {None}]
  /\ owner \in [Houses -> Players \cup {None}]
  /\ early \in SUBSET Players
  /\ undefined \in BOOLEAN

Init ==
  /\ online = {}
  /\ state = [p \in Players |-> "none"]
  /\ partner = [p \in Players |-> None]
  /\ item = [p \in Players |-> None]
  /\ traded = {}
  /\ uses = [i \in Items |-> IF i \in Things THEN 1 ELSE 0]
  /\ toFree = [i \in Items |-> 0]
  /\ holder = [i \in Items |-> IF i \in Things THEN Ground ELSE Nowhere]
  /\ inside = [i \in Things |-> None]
  /\ deed = [i \in Papers |-> None]
  /\ owner = [h \in Houses |-> None]
  /\ early = {}
  /\ undefined = FALSE

-----------------------------------------------------------------------------
(* Calls shared by several commands                                        *)

\* Is one of the two inside the other, or are they the same?
Related(i, j) ==
  \/ i = j
  \/ i \in Things /\ inside[i] = j
  \/ j \in Things /\ inside[j] = i

\* Thing i with what it holds.
Goods(i) == {i} \cup {k \in Things : inside[k] = i}

AlreadyTraded(i) == \E j \in traded : Related(i, j)

MayStart(p, q) ==
  /\ state[p] # "none" => state[p] = "acknowledge" /\ partner[p] = q
  /\ state[q] # "none" => partner[q] = p

\* internalStartTrade(), past its tests.
Start(p, q, i) ==
  /\ partner' = [partner EXCEPT ![p] = q, ![q] = p]
  /\ item' = [item EXCEPT ![p] = i]
  /\ state' = [state EXCEPT ![p] = "initiated",
                            ![q] = IF @ = "none" THEN "acknowledge" ELSE @]
  /\ traded' = traded \cup {i}

Sides(p) == {p} \cup ({partner[p]} \ {None})

Offers(S) == {item[p] : p \in S} \ {None}

\* Variant: the item offered stays in tradeItems.
EndKeeps(S) ==
  /\ state' = [p \in Players |-> IF p \in S THEN "none" ELSE state[p]]
  /\ partner' = [p \in Players |-> IF p \in S THEN None ELSE partner[p]]
  /\ item' = [p \in Players |-> IF p \in S THEN None ELSE item[p]]
  /\ UNCHANGED traded

\* What a closed or finished trade leaves with both players.
End(S) ==
  /\ state' = [p \in Players |-> IF p \in S THEN "none" ELSE state[p]]
  /\ partner' = [p \in Players |-> IF p \in S THEN None ELSE partner[p]]
  /\ item' = [p \in Players |-> IF p \in S THEN None ELSE item[p]]
  /\ traded' = traded \ Offers(S)

Papered(S) == Offers(S) \cap Papers

\* How often internalCloseTrade() frees item i: once for the trade, and a document
\* once more in its onTradeEvent().
Freed(S, i) == (IF i \in Offers(S) THEN 1 ELSE 0) + (IF i \in Papered(S) THEN 1 ELSE 0)

\* The trades of the players in S end without an exchange.
Cancel(S) ==
  /\ End(S)
  /\ toFree' = [i \in Items |-> toFree[i] + Freed(S, i)]
  /\ holder' = [i \in Items |-> IF i \in Papered(S) THEN Nowhere ELSE holder[i]]
  /\ UNCHANGED <<uses, inside, owner>>

-----------------------------------------------------------------------------
(* The exchange                                                            *)

\* The houses once the documents i, offered to q, and j, offered to p, have had their
\* events, in this order.
Conveyed(i, q, j, p) ==
  [h \in Houses |-> IF j \in Papers /\ deed[j] = h THEN p
                    ELSE IF i \in Papers /\ deed[i] = h THEN q
                    ELSE owner[h]]

\* The bags of q that __queryDestination() may choose for a thing while q offers j:
\* not j, but the bag within it if there is one.
Room(q, j) == {b \in Bags : holder[b] = q /\ (b # j \/ b \in Deep)}

\* Variant: the second move fails for want of room after the first was made.
MovedHalf(i, q, j, p) ==
  /\ inside' = [k \in Things |-> IF k = i THEN None ELSE inside[k]]
  /\ holder' = [k \in Items |-> IF k \in {i, j} \cap Papers THEN Nowhere
                                ELSE IF k \in Goods(i) THEN q ELSE holder[k]]

\* p's i goes to q, then q's j to p: the holders and places after both moves.  A bag is
\* not put into another.
Moved(i, q, j, p) ==
  \E b \in {None} \cup (IF i \in Things \ Bags THEN Room(q, j) ELSE {}),
     c \in {None} \cup (IF j \in Things \ Bags
                       THEN {d \in Bags : holder[d] = p /\ d # i} ELSE {}) :
    /\ inside' = [k \in Things |-> IF k = i THEN b ELSE IF k = j THEN c ELSE inside[k]]
    /\ holder' = [k \in Items |->
         IF k \in {i, j} \cap Papers THEN Nowhere
         ELSE IF k \in Goods(j) \/ (k = i /\ b = j) THEN p
         ELSE IF k \in Goods(i) THEN q
         ELSE holder[k]]

\* Both accepted; p last.
Exchange(p, q) ==
  LET i == item[p]
      j == item[q]
  IN  IF i = None \/ j = None
      THEN /\ undefined' = TRUE
           /\ UNCHANGED <<partner, item, traded, uses, toFree, holder, inside, owner>>
           /\ state' = [state EXCEPT ![p] = "accept"]
      ELSE /\ End({p, q})
           /\ toFree' = [k \in Items |-> toFree[k] + Freed({p, q}, k)]
           /\ UNCHANGED <<uses, undefined>>
           /\ \/ /\ Moved(i, q, j, p)
                 /\ owner' = Conveyed(i, q, j, p)
              \* no room, no capacity or not removable: nothing was moved
              \/ /\ holder' = [k \in Items |-> IF k \in {i, j} \cap Papers THEN Nowhere
                                               ELSE holder[k]]
                 /\ UNCHANGED <<inside, owner>>

-----------------------------------------------------------------------------
(* The commands                                                            *)

\* playerRequestTrade(): of a thing carried or on the ground near him.
RequestTrade(p, q, i) ==
  /\ p \in online /\ q \in online /\ p # q
  /\ i \in Things /\ holder[i] \in {p, Ground}
  /\ ~AlreadyTraded(i)
  /\ MayStart(p, q)
  /\ uses[i] < MaxUses
  /\ Start(p, q, i)
  /\ uses' = [uses EXCEPT ![i] = @ + 1]
  /\ UNCHANGED <<online, toFree, holder, inside, deed, owner, early, undefined>>

Rents(p) == \E h \in Houses : owner[h] = p

\* TalkAction::houseSell(): the document exists before the trade may be refused.
SellHouse(p, q, i) ==
  /\ p \in online /\ q \in online /\ p # q
  /\ ~Rents(q)
  /\ i \in Papers /\ uses[i] = 0
  /\ \E h \in Houses : owner[h] = p /\ deed' = [deed EXCEPT ![i] = h]
  /\ IF MayStart(p, q)
     THEN /\ Start(p, q, i)
          /\ holder' = [holder EXCEPT ![i] = p]
          /\ uses' = [uses EXCEPT ![i] = 2]
          /\ UNCHANGED toFree
     ELSE /\ uses' = [uses EXCEPT ![i] = 1]
          /\ toFree' = [toFree EXCEPT ![i] = @ + 1]
          /\ UNCHANGED <<trade, holder>>
  /\ UNCHANGED <<online, inside, owner, early, undefined>>

\* playerAcceptTrade()
Accept(p) ==
  /\ p \in online
  /\ state[p] \in {"acknowledge", "initiated"}
  /\ early' = IF state[p] = "acknowledge" THEN early \cup {p} ELSE early
  /\ UNCHANGED <<online, deed>>
  /\ LET q == partner[p]
     IN  IF state[q] # "accept"
         THEN /\ state' = [state EXCEPT ![p] = "accept"]
              /\ UNCHANGED <<partner, item, traded, uses, toFree, holder, inside, owner, undefined>>
         ELSE \* a script may refuse
              \/ Cancel({p, q}) /\ UNCHANGED undefined
              \/ Exchange(p, q)

\* playerCloseTrade(), a step too far from the partner or the item, or any change to
\* what is inside the item.
CloseTrade(p) ==
  /\ p \in online
  /\ Cancel(Sides(p))
  /\ UNCHANGED <<online, deed, early, undefined>>

\* Those whose offer is touched when thing i moves out of its place and into bag to.
Touched(i, to) ==
  {p \in Players : item[p] # None /\ (Related(i, item[p]) \/ item[p] = to)}

\* Thing i is dropped, picked up, put into a bag, or used up.
MoveThing(i, to, b) ==
  LET S == UNION {Sides(p) : p \in Touched(i, b)}
  IN  /\ i \in Things
      /\ \/ holder[i] \in online /\ to \in {holder[i], Ground, Nowhere}
         \/ holder[i] = Ground /\ to \in online \cup {Ground, Nowhere}
      /\ b # None => i \notin Bags /\ b \in Bags /\ holder[b] = to /\ to # Nowhere
      /\ End(S)
      /\ toFree' = [k \in Items |-> toFree[k] + Freed(S, k)
                                    + IF to = Nowhere /\ k \in Goods(i) THEN 1 ELSE 0]
      /\ holder' = [k \in Items |-> IF k \in Papered(S) THEN Nowhere
                                    ELSE IF k \in Goods(i) THEN to ELSE holder[k]]
      /\ inside' = [k \in Things |-> IF k = i THEN b
                                     ELSE IF to = Nowhere /\ k \in Goods(i) THEN None
                                     ELSE inside[k]]
      /\ UNCHANGED <<online, uses, deed, owner, early, undefined>>

Login(p) ==
  /\ p \notin online
  /\ online' = online \cup {p}
  /\ UNCHANGED <<trade, uses, toFree, holder, inside, deed, owner, early, undefined>>

\* onCreatureDisappear(): the trade is closed; what he carries goes with him.
Logout(p) ==
  LET S == IF partner[p] = None THEN {} ELSE Sides(p)
      his == {i \in Things : holder[i] = p}
  IN  /\ p \in online
      /\ online' = online \ {p}
      /\ End(S)
      /\ toFree' = [k \in Items |-> toFree[k] + Freed(S, k) + IF k \in his THEN 1 ELSE 0]
      /\ holder' = [k \in Items |-> IF k \in Papered(S) \cup his THEN Nowhere ELSE holder[k]]
      /\ inside' = [k \in Things |-> IF k \in his THEN None ELSE inside[k]]
      /\ UNCHANGED <<uses, deed, owner, early, undefined>>

\* TalkAction::houseBuy()
BuyHouse(p, h) ==
  /\ p \in online
  /\ ~Rents(p)
  /\ owner[h] = None
  /\ owner' = [owner EXCEPT ![h] = p]
  /\ UNCHANGED <<online, trade, uses, toFree, holder, inside, deed, early, undefined>>

\* The rent was not paid: Houses::payHouse().
LoseHouse(h) ==
  /\ owner[h] # None
  /\ owner' = [owner EXCEPT ![h] = None]
  /\ UNCHANGED <<online, trade, uses, toFree, holder, inside, deed, early, undefined>>

\* Game::cleanup()
Cleanup ==
  /\ \E i \in Items : toFree[i] > 0
  /\ uses' = [i \in Items |-> uses[i] - toFree[i]]
  /\ toFree' = [i \in Items |-> 0]
  /\ UNCHANGED <<online, trade, holder, inside, deed, owner, early, undefined>>

Next ==
  /\ ~undefined
  /\ \/ \E p \in Players : \/ Login(p) \/ Logout(p) \/ Accept(p) \/ CloseTrade(p)
                           \/ \E h \in Houses : BuyHouse(p, h)
                           \/ \E q \in Players : \/ \E i \in Things : RequestTrade(p, q, i)
                                                 \/ \E i \in Papers : SellHouse(p, q, i)
     \/ \E i \in Things : \E to \in Players \cup {Ground, Nowhere} :
          \E b \in Bags \cup {None} : MoveThing(i, to, b)
     \/ \E h \in Houses : LoseHouse(h)
     \/ Cleanup

Spec == Init /\ [][Next]_vars

-----------------------------------------------------------------------------
(* What makes it correct                                                   *)

\* A trade has two sides that point to each other, both of them online; whoever has no
\* part in one has no state and no item left from the last, and in every trade at least
\* one side has offered something.
Mutual ==
  \A p \in Players :
    /\ (partner[p] = None) = (state[p] = "none")
    /\ partner[p] = None => item[p] = None
    /\ state[p] = "initiated" => item[p] # None
    /\ state[p] = "acknowledge" => item[p] = None
    /\ partner[p] # None =>
         /\ partner[p] # p /\ partner[partner[p]] = p
         /\ {p, partner[p]} \subseteq online
         /\ item[p] # None \/ item[partner[p]] # None

\* No item is offered twice, nor along with one that holds it; what is offered lies
\* where its owner can give it; and the table of traded items lists just these.
OfferedOnce ==
  /\ traded = Offers(Players)
  /\ \A p, q \in Players : p # q /\ item[p] # None /\ item[q] # None =>
                             ~Related(item[p], item[q])
  /\ \A p \in Players : item[p] # None => holder[item[p]] \in {p, Ground}

\* References are balanced: an item has one as long as it is somewhere, one while it is
\* offered, and one for each time it still stands in the list to be freed.  So the
\* cleanup never deletes an item that a trade points to.
Balanced ==
  \A i \in Items :
    uses[i] = toFree[i] + (IF holder[i] # Nowhere THEN 1 ELSE 0)
                        + (IF i \in traded THEN 1 ELSE 0)

\* A NULL item is only used in a trade that someone accepted before he had offered.
UndefinedNeedsEarly == undefined => early # {}

\* A trade has two sides, what they offer is there and is kept until it ends.
TradeSound == TypeOK /\ Mutual /\ OfferedOnce /\ Balanced /\ UndefinedNeedsEarly

\* A thing passes from one player to another only by their trade, and then what the
\* other offered passes the other way; unless that one holds containers within a
\* container, where the first may come to lie and be carried back.
PassesBothWays ==
  \A p, q \in Players, i \in Things :
    p # q /\ holder[i] = p /\ holder'[i] = q =>
      /\ partner[p] = q /\ item[q] # None
      /\ item[p] \in Things /\ i \in Goods(item[p])
      /\ item[q] \in Things =>
           \/ holder'[item[q]] = p
           \/ item[p] \in Deep /\ inside'[item[q]] = item[p]

\* A house passes from one tenant to another only by a document for it that lies on the
\* table of a trade, and to the one it was offered to.
PassesByDeed ==
  \A h \in Houses, p, q \in Players :
       p # q /\ owner[h] = p /\ owner'[h] = q =>
         \E s \in Players : /\ partner[s] = q /\ item[s] \in Papers /\ deed[item[s]] = h
                             /\ "accept" \in {state[s], state[q]}

\* Things pass between players only by a trade, both ways, and houses only by a
\* document on its table.
TradesBothWays == [][PassesBothWays /\ PassesByDeed]_vars
=============================================================================
