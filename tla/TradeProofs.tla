----------------------------- MODULE TradeProofs -----------------------------
(***************************************************************************)
(* What trades guarantee for any players, items, documents and houses: the *)
(* invariant TradeSound and the action property TradesBothWays, for every  *)
(* order of offers, answers, moves, departures and cleanups.               *)
(* And what the lives of creatures guarantee for any players, monsters and *)
(* summons: the references to a creature are counted, whatever appears, is *)
(* convinced, attacked, removed or deleted (CreaturesCounted).             *)
(***************************************************************************)
EXTENDS Trade, Sequences, Integers, FiniteSetTheorems, TLAPS

\* What lies in a bag is no bag, and is where the bag is.
Contained ==
  \A k \in Things : inside[k] # None => k \notin Bags /\ holder[k] = holder[inside[k]]

\* Who has accepted with no offer of his own did so before he had made one.
AcceptsOwn == \A p \in Players : state[p] = "accept" /\ item[p] = None => p \in early

\* The strengthening of TradeSound.
IInv == TypeOK /\ Mutual /\ OfferedOnce /\ Balanced /\ Contained /\ AcceptsOwn

\* What the constants and the types say, in the words the proofs use.
LEMMA Typed ==
  ASSUME TypeOK
  PROVE  /\ None \notin Players /\ None \notin Items /\ Ground # Nowhere
         /\ Ground \notin Players /\ Nowhere \notin Players
         /\ Things \cap Papers = {} /\ Bags \subseteq Things /\ Deep \subseteq Bags
         /\ Items = Things \cup Papers
         /\ None \notin Houses /\ None \notin Bags
         /\ state \in [Players -> States]
         /\ partner \in [Players -> Players \cup {None}]
         /\ item \in [Players -> Items \cup {None}]
         /\ uses \in [Items -> Nat] /\ toFree \in [Items -> Nat]
         /\ holder \in [Items -> Players \cup {Ground, Nowhere}]
         /\ inside \in [Things -> Bags \cup {None}]
         /\ traded \subseteq Items
BY TradeAssumption DEF TypeOK, Items

-----------------------------------------------------------------------------
(* The end of trades                                                       *)

\* Nobody is left in the trade of one whose trade has ended.
Whole(S) == S \subseteq Players /\ \A p \in S : partner[p] # None => partner[p] \in S

\* What End leaves with each player and on the table.
LEMMA EndShape ==
  ASSUME TypeOK, Mutual, OfferedOnce, NEW S \in SUBSET Players, End(S)
  PROVE  /\ state' \in [Players -> States]
         /\ partner' \in [Players -> Players \cup {None}]
         /\ item' \in [Players -> Items \cup {None}]
         /\ \A p \in S : state'[p] = "none" /\ partner'[p] = None /\ item'[p] = None
         /\ \A p \in Players \ S :
              state'[p] = state[p] /\ partner'[p] = partner[p] /\ item'[p] = item[p]
         /\ traded' \subseteq Items
         /\ traded' = {item'[p] : p \in Players} \ {None}
         /\ \A k \in Items : k \in traded' <=> k \in traded /\ k \notin Offers(S)
<1>1. /\ state' = [p \in Players |-> IF p \in S THEN "none" ELSE state[p]]
      /\ partner' = [p \in Players |-> IF p \in S THEN None ELSE partner[p]]
      /\ item' = [p \in Players |-> IF p \in S THEN None ELSE item[p]]
      /\ traded' = traded \ Offers(S)
  BY DEF End
<1>2. /\ state' \in [Players -> States]
      /\ partner' \in [Players -> Players \cup {None}]
      /\ item' \in [Players -> Items \cup {None}]
      /\ \A p \in S : state'[p] = "none" /\ partner'[p] = None /\ item'[p] = None
      /\ \A p \in Players \ S :
           state'[p] = state[p] /\ partner'[p] = partner[p] /\ item'[p] = item[p]
  BY <1>1, Typed DEF States
<1>3. traded = {item[p] : p \in Players} \ {None}
  BY DEF OfferedOnce, Offers
<1>4. \A p, q \in Players : p # q /\ item[p] # None => item[p] # item[q]
  BY DEF OfferedOnce, Related
<1>5. traded' = {item'[p] : p \in Players} \ {None}
  BY <1>1, <1>2, <1>3, <1>4 DEF Offers
<1>6. QED
  BY <1>1, <1>2, <1>5, Typed

LEMMA EndKeepsMutual ==
  ASSUME TypeOK, Mutual, OfferedOnce, NEW S, Whole(S), End(S),
         \A p \in Players \ S : partner[p] # None => p \in online'
  PROVE  Mutual'
<1>1. /\ S \subseteq Players /\ None \notin Players
      /\ partner \in [Players -> Players \cup {None}]
      /\ \A p \in S : state'[p] = "none" /\ partner'[p] = None /\ item'[p] = None
      /\ \A p \in Players \ S :
           state'[p] = state[p] /\ partner'[p] = partner[p] /\ item'[p] = item[p]
  BY EndShape, Typed DEF Whole
<1>2. \A p \in Players \ S : partner[p] # None => partner[p] \in Players \ S
  BY <1>1 DEF Whole, Mutual
<1>3. QED
  BY <1>1, <1>2 DEF Mutual

\* The offers that go on are still good if what is offered was not touched.
LEMMA EndKeepsOffers ==
  ASSUME TypeOK, Mutual, OfferedOnce, NEW S \in SUBSET Players, End(S),
         \A p \in Players \ S : item[p] # None =>
           /\ holder'[item[p]] = holder[item[p]]
           /\ item[p] \in Things => inside'[item[p]] = inside[item[p]]
  PROVE  OfferedOnce'
<1>1. /\ traded' = {item'[p] : p \in Players} \ {None}
      /\ \A p \in S : item'[p] = None
      /\ \A p \in Players \ S : item'[p] = item[p]
  BY EndShape
<1>2. ASSUME NEW p \in Players, NEW q \in Players, p # q, item'[p] # None, item'[q] # None
      PROVE  ~Related(item[p], item[q])' /\ item'[p] = item[p] /\ item'[q] = item[q]
  <2>1. p \in Players \ S /\ q \in Players \ S
    BY <1>1, <1>2
  <2>2. ~Related(item[p], item[q])
    BY <1>1, <1>2, <2>1 DEF OfferedOnce
  <2>3. item'[p] = item[p] /\ item'[q] = item[q]
    BY <1>1, <2>1
  <2>4. QED
    BY <1>2, <2>1, <2>2, <2>3 DEF Related
<1>3. ASSUME NEW p \in Players, item'[p] # None
      PROVE  holder'[item'[p]] \in {p, Ground}
  BY <1>1, <1>3 DEF OfferedOnce
<1>4. QED
  BY <1>1, <1>2, <1>3 DEF OfferedOnce, Offers, Related

\* The references add up if exactly the documents offered, and the items in D, vanish,
\* and each of these is freed once more.
LEMMA EndKeepsBalance ==
  ASSUME TypeOK, Mutual, OfferedOnce, Balanced, NEW S \in SUBSET Players, End(S),
         NEW D \in SUBSET Items,
         \A k \in D : holder[k] # Nowhere /\ k \notin Papered(S),
         \A k \in Items : holder'[k] = Nowhere <=>
           holder[k] = Nowhere \/ k \in Papered(S) \/ k \in D,
         uses' = uses,
         toFree' = [k \in Items |-> toFree[k] + Freed(S, k) + IF k \in D THEN 1 ELSE 0]
  PROVE  Balanced' /\ uses' \in [Items -> Nat] /\ toFree' \in [Items -> Nat]
<1>1. /\ uses \in [Items -> Nat] /\ toFree \in [Items -> Nat]
      /\ \A k \in Items : k \in traded' <=> k \in traded /\ k \notin Offers(S)
      /\ \A k \in Items : Freed(S, k) \in Nat
  BY EndShape, Typed DEF Freed
<1>2. \A k \in Offers(S) : k \in traded /\ holder[k] # Nowhere
  BY Typed DEF OfferedOnce, Offers
<1>3. toFree' \in [Items -> Nat]
  BY <1>1
<1>4. ASSUME NEW k \in Items
      PROVE  uses'[k] = toFree'[k] + (IF holder'[k] # Nowhere THEN 1 ELSE 0)
                                   + (IF k \in traded' THEN 1 ELSE 0)
  <2>1. uses[k] = toFree[k] + (IF holder[k] # Nowhere THEN 1 ELSE 0)
                            + (IF k \in traded THEN 1 ELSE 0)
    BY DEF Balanced
  <2>2. uses'[k] = uses[k]
        /\ toFree'[k] = toFree[k] + Freed(S, k) + IF k \in D THEN 1 ELSE 0
    BY <1>1
  <2>3. Freed(S, k) = (IF k \in Offers(S) THEN 1 ELSE 0)
                      + (IF k \in Papered(S) THEN 1 ELSE 0)
    BY DEF Freed
  <2>4. k \in Papered(S) => k \in Offers(S)
    BY DEF Papered
  <2>5. toFree[k] \in Nat
    BY <1>1
  <2>6. CASE k \in Offers(S)
    BY <1>1, <1>2, <2>1, <2>2, <2>3, <2>5, <2>6
  <2>7. CASE k \notin Offers(S)
    BY <1>1, <2>1, <2>2, <2>3, <2>4, <2>5, <2>7
  <2>8. QED
    BY <2>6, <2>7
<1>5. QED
  BY <1>1, <1>3, <1>4 DEF Balanced

LEMMA EndKeepsAccepts ==
  ASSUME TypeOK, Mutual, OfferedOnce, AcceptsOwn, NEW S \in SUBSET Players, End(S),
         early \subseteq early'
  PROVE  AcceptsOwn'
BY EndShape DEF AcceptsOwn

\* A trade has two sides.
LEMMA SidesWhole ==
  ASSUME TypeOK, Mutual, NEW p \in Players
  PROVE  Whole(Sides(p))
BY Typed DEF Mutual, Whole, Sides

\* What two trades offer is not the same.
LEMMA OthersOffer ==
  ASSUME TypeOK, OfferedOnce, NEW S \in SUBSET Players, NEW p \in Players \ S, item[p] # None
  PROVE  item[p] \in Items /\ item[p] \notin Offers(S)
<1>1. \A q \in S : item[q] # None => item[q] # item[p]
  BY DEF OfferedOnce, Related
<1>2. QED
  BY <1>1, Typed DEF Offers

\* A trade that ends without an exchange leaves everything sound.
LEMMA CancelStep ==
  ASSUME IInv, NEW S, Whole(S), Cancel(S),
         online' = online, deed' = deed, undefined' = undefined,
         early' \in SUBSET Players, early \subseteq early'
  PROVE  IInv'
<1>. USE DEF IInv
<1>1. /\ S \in SUBSET Players /\ End(S)
      /\ holder' = [k \in Items |-> IF k \in Papered(S) THEN Nowhere ELSE holder[k]]
      /\ toFree' = [k \in Items |-> toFree[k] + Freed(S, k)]
      /\ uses' = uses /\ inside' = inside /\ owner' = owner
  BY DEF Cancel, Whole
<1>2. \A p \in Players : partner[p] # None => p \in online'
  BY DEF Mutual
<1>3. Mutual'
  BY <1>1, <1>2, EndKeepsMutual
<1>4. OfferedOnce'
  <2>1. \A p \in Players \ S : item[p] # None =>
          /\ holder'[item[p]] = holder[item[p]]
          /\ item[p] \in Things => inside'[item[p]] = inside[item[p]]
    BY <1>1, OthersOffer DEF Papered
  <2>2. QED
    BY <1>1, <2>1, EndKeepsOffers
<1>5. Balanced' /\ uses' \in [Items -> Nat] /\ toFree' \in [Items -> Nat]
  <2>. DEFINE D == {}
  <2>1. holder \in [Items -> Players \cup {Ground, Nowhere}] /\ toFree \in [Items -> Nat]
    BY Typed
  <2>2. \A k \in Items : holder'[k] = Nowhere <=>
          holder[k] = Nowhere \/ k \in Papered(S) \/ k \in D
    BY <1>1, <2>1
  <2>3. \A k \in Items : Freed(S, k) \in Nat
    BY DEF Freed
  <2>4. toFree' = [k \in Items |-> toFree[k] + Freed(S, k) + IF k \in D THEN 1 ELSE 0]
    BY <1>1, <2>1, <2>3
  <2>5. D \in SUBSET Items /\ \A k \in D : holder[k] # Nowhere /\ k \notin Papered(S)
    OBVIOUS
  <2>. HIDE DEF D
  <2>6. QED
    BY <1>1, <2>2, <2>4, <2>5, EndKeepsBalance
<1>6. AcceptsOwn'
  BY <1>1, EndKeepsAccepts
<1>7. TypeOK'
  <2>1. /\ state' \in [Players -> States]
        /\ partner' \in [Players -> Players \cup {None}]
        /\ item' \in [Players -> Items \cup {None}]
        /\ traded' \in SUBSET Items
    BY <1>1, EndShape
  <2>2. holder' \in [Items -> Players \cup {Ground, Nowhere}]
    BY <1>1, Typed
  <2>3. QED
    BY <1>1, <1>5, <2>1, <2>2 DEF TypeOK
<1>8. Contained'
  <2>1. \A k \in Things : holder'[k] = holder[k]
    BY <1>1, Typed DEF Papered
  <2>2. QED
    BY <1>1, <2>1, Typed DEF Contained
<1>9. QED
  BY <1>3, <1>4, <1>5, <1>6, <1>7, <1>8

-----------------------------------------------------------------------------
(* The start of a trade                                                    *)

\* Two who may start one have no trade or one with each other, and p has offered nothing.
LEMMA MayStartMeans ==
  ASSUME TypeOK, Mutual, NEW p \in Players, NEW q \in Players, p # q, MayStart(p, q)
  PROVE  /\ item[p] = None
         /\ partner[p] \in {None, q} /\ partner[q] \in {None, p}
         /\ (partner[p] = None) = (partner[q] = None)
         /\ \A r \in Players \ {p, q} : partner[r] \notin {p, q}
<1>1. None \notin Players
  BY Typed
<1>2. item[p] = None /\ partner[p] \in {None, q} /\ partner[q] \in {None, p}
  BY DEF MayStart, Mutual
<1>3. (partner[p] = None) = (partner[q] = None)
  BY <1>1, <1>2 DEF Mutual
<1>4. \A r \in Players \ {p, q} : partner[r] \notin {p, q}
  BY <1>1, <1>2 DEF Mutual
<1>5. QED
  BY <1>2, <1>3, <1>4

\* A new offer joins two players in one trade, and its item is nobody else's.
LEMMA StartStep ==
  ASSUME IInv, NEW p \in Players, NEW q \in Players, NEW i \in Items, p # q,
         {p, q} \subseteq online, MayStart(p, q), Start(p, q, i),
         \A r \in Players : item[r] # None => ~Related(i, item[r]),
         online' = online, inside' = inside, early' = early,
         \A r \in Players : item[r] # None => holder'[item[r]] = holder[item[r]],
         holder'[i] \in {p, Ground}
  PROVE  /\ Mutual' /\ OfferedOnce' /\ AcceptsOwn'
         /\ state' \in [Players -> States]
         /\ partner' \in [Players -> Players \cup {None}]
         /\ item' \in [Players -> Items \cup {None}]
         /\ traded' \in SUBSET Items /\ i \notin traded
<1>. USE DEF IInv
<1>1. /\ state \in [Players -> States]
      /\ partner \in [Players -> Players \cup {None}]
      /\ item \in [Players -> Items \cup {None}]
      /\ None \notin Players /\ None \notin Items /\ traded \subseteq Items
  BY Typed
<1>2. /\ partner' = [partner EXCEPT ![p] = q, ![q] = p]
      /\ item' = [item EXCEPT ![p] = i]
      /\ state' = [state EXCEPT ![p] = "initiated",
                                ![q] = IF @ = "none" THEN "acknowledge" ELSE @]
      /\ traded' = traded \cup {i}
  BY DEF Start
<1>3. /\ partner'[p] = q /\ partner'[q] = p
      /\ item'[p] = i /\ item'[q] = item[q]
      /\ state'[p] = "initiated"
      /\ state'[q] = IF state[q] = "none" THEN "acknowledge" ELSE state[q]
      /\ \A r \in Players \ {p, q} :
           partner'[r] = partner[r] /\ item'[r] = item[r] /\ state'[r] = state[r]
  BY <1>1, <1>2
<1>4. /\ item[p] = None
      /\ partner[p] \in {None, q} /\ partner[q] \in {None, p}
      /\ (partner[p] = None) = (partner[q] = None)
      /\ \A r \in Players \ {p, q} : partner[r] \notin {p, q}
  BY MayStartMeans
<1>5. /\ state' \in [Players -> States]
      /\ partner' \in [Players -> Players \cup {None}]
      /\ item' \in [Players -> Items \cup {None}]
      /\ traded' \in SUBSET Items
  BY <1>1, <1>2 DEF States
<1>6. Mutual'
  <2>1. ASSUME NEW r \in Players \ {p, q}
        PROVE  /\ (partner'[r] = None) = (state'[r] = "none")
               /\ partner'[r] = None => item'[r] = None
               /\ state'[r] = "initiated" => item'[r] # None
               /\ state'[r] = "acknowledge" => item'[r] = None
               /\ partner'[r] # None =>
                    /\ partner'[r] # r /\ partner'[partner'[r]] = r
                    /\ {r, partner'[r]} \subseteq online'
                    /\ item'[r] # None \/ item'[partner'[r]] # None
    BY <1>1, <1>3, <1>4 DEF Mutual
  <2>2. /\ (partner'[q] = None) = (state'[q] = "none")
        /\ state'[q] = "initiated" => item'[q] # None
        /\ state'[q] = "acknowledge" => item'[q] = None
    BY <1>1, <1>3, <1>4 DEF Mutual
  <2>3. QED
    BY <1>1, <1>3, <2>1, <2>2 DEF Mutual
<1>7. \A r \in Players : r # p => item'[r] = item[r]
  BY <1>3
<1>8. traded = {item[r] : r \in Players} \ {None} /\ i \notin traded
  BY DEF OfferedOnce, Offers, Related
<1>9. OfferedOnce'
  <2>1. traded' = {item'[r] : r \in Players} \ {None}
    BY <1>1, <1>2, <1>3, <1>4, <1>7, <1>8
  <2>2. ASSUME NEW r \in Players, NEW s \in Players, r # s, item'[r] # None, item'[s] # None
        PROVE  ~Related(item[r], item[s])'
    BY <1>3, <1>7, <2>2 DEF OfferedOnce, Related
  <2>3. ASSUME NEW r \in Players, item'[r] # None PROVE holder'[item'[r]] \in {r, Ground}
    BY <1>3, <1>7, <2>3 DEF OfferedOnce
  <2>4. QED
    BY <2>1, <2>2, <2>3 DEF OfferedOnce, Offers, Related
<1>10. AcceptsOwn'
  BY <1>1, <1>3, <1>4 DEF AcceptsOwn
<1>11. QED
  BY <1>5, <1>6, <1>8, <1>9, <1>10

LEMMA RequestTradeStep ==
  ASSUME IInv, NEW p \in Players, NEW q \in Players, NEW i \in Things, RequestTrade(p, q, i)
  PROVE  IInv'
<1>. USE DEF IInv
<1>1. /\ p # q /\ {p, q} \subseteq online /\ MayStart(p, q) /\ Start(p, q, i)
      /\ i \in Items /\ holder[i] \in {p, Ground} /\ ~AlreadyTraded(i)
      /\ uses' = [uses EXCEPT ![i] = @ + 1]
      /\ traded' = traded \cup {i}
      /\ online' = online /\ toFree' = toFree /\ holder' = holder /\ inside' = inside
      /\ deed' = deed /\ owner' = owner /\ early' = early /\ undefined' = undefined
  BY Typed DEF RequestTrade, Start
<1>2. \A r \in Players : item[r] # None => ~Related(i, item[r])
  BY <1>1 DEF AlreadyTraded, OfferedOnce, Offers
<1>3. /\ Mutual' /\ OfferedOnce' /\ AcceptsOwn'
      /\ state' \in [Players -> States]
      /\ partner' \in [Players -> Players \cup {None}]
      /\ item' \in [Players -> Items \cup {None}]
      /\ traded' \in SUBSET Items /\ i \notin traded
  BY <1>1, <1>2, StartStep
<1>4. uses \in [Items -> Nat] /\ toFree \in [Items -> Nat]
  BY Typed
<1>5. Balanced'
  BY <1>1, <1>3, <1>4 DEF Balanced
<1>6. TypeOK'
  BY <1>1, <1>3, <1>4 DEF TypeOK
<1>7. Contained'
  BY <1>1 DEF Contained
<1>8. QED
  BY <1>3, <1>5, <1>6, <1>7

\* The document of a sale is a new item: nothing refers to it and nothing is in it.
LEMMA SellHouseStep ==
  ASSUME IInv, NEW p \in Players, NEW q \in Players, NEW i \in Papers, SellHouse(p, q, i)
  PROVE  IInv'
<1>. USE DEF IInv
<1>1. /\ p # q /\ {p, q} \subseteq online /\ i \in Items /\ uses[i] = 0
      /\ online' = online /\ inside' = inside /\ owner' = owner
      /\ early' = early /\ undefined' = undefined
  BY Typed DEF SellHouse
<1>2. /\ uses \in [Items -> Nat] /\ toFree \in [Items -> Nat]
      /\ holder \in [Items -> Players \cup {Ground, Nowhere}]
      /\ Nowhere \notin Players
  BY Typed
<1>3. toFree[i] = 0 /\ holder[i] = Nowhere /\ i \notin traded
  <2>1. uses[i] = toFree[i] + (IF holder[i] # Nowhere THEN 1 ELSE 0)
                            + (IF i \in traded THEN 1 ELSE 0)
    BY <1>1 DEF Balanced
  <2>2. QED
    BY <1>1, <1>2, <2>1
<1>4. \A r \in Players : item[r] # None => ~Related(i, item[r])
  BY <1>3, Typed DEF OfferedOnce, Offers, Related
<1>5. deed' \in [Papers -> Houses \cup {None}]
  BY DEF SellHouse, TypeOK
<1>6. CASE MayStart(p, q)
  <2>1. /\ Start(p, q, i) /\ traded' = traded \cup {i}
        /\ holder' = [holder EXCEPT ![i] = p]
        /\ uses' = [uses EXCEPT ![i] = 2]
        /\ toFree' = toFree
    BY <1>6 DEF SellHouse, Start
  <2>2. holder'[i] = p /\ \A k \in Items \ {i} : holder'[k] = holder[k]
    BY <1>1, <1>2, <2>1
  <2>3. \A r \in Players : item[r] # None => item[r] \in Items \ {i}
    BY <1>4, Typed DEF Related
  <2>4. /\ Mutual' /\ OfferedOnce' /\ AcceptsOwn'
        /\ state' \in [Players -> States]
        /\ partner' \in [Players -> Players \cup {None}]
        /\ item' \in [Players -> Items \cup {None}]
        /\ traded' \in SUBSET Items
    BY <1>1, <1>4, <1>6, <2>1, <2>2, <2>3, StartStep
  <2>5. ASSUME NEW k \in Items
        PROVE  uses'[k] = toFree'[k] + (IF holder'[k] # Nowhere THEN 1 ELSE 0)
                                     + (IF k \in traded' THEN 1 ELSE 0)
    <3>1. CASE k = i
      BY <1>1, <1>2, <1>3, <2>1, <2>2, <3>1
    <3>2. CASE k # i
      BY <1>1, <1>2, <2>1, <2>2, <3>2 DEF Balanced
    <3>3. QED
      BY <3>1, <3>2
  <2>6. Balanced'
    BY <2>5 DEF Balanced
  <2>7. TypeOK'
    BY <1>1, <1>2, <1>5, <2>1, <2>4 DEF TypeOK
  <2>8. Contained'
    BY <1>1, <2>2, Typed DEF Contained
  <2>9. QED
    BY <2>4, <2>6, <2>7, <2>8
<1>7. CASE ~MayStart(p, q)
  <2>1. /\ uses' = [uses EXCEPT ![i] = 1]
        /\ toFree' = [toFree EXCEPT ![i] = @ + 1]
        /\ state' = state /\ partner' = partner /\ item' = item /\ traded' = traded
        /\ holder' = holder
    BY <1>7 DEF SellHouse, trade
  <2>2. Mutual' /\ OfferedOnce' /\ AcceptsOwn' /\ Contained'
    BY <1>1, <2>1
       DEF Mutual, OfferedOnce, Offers, Related, AcceptsOwn, Contained
  <2>3. ASSUME NEW k \in Items
        PROVE  uses'[k] = toFree'[k] + (IF holder'[k] # Nowhere THEN 1 ELSE 0)
                                     + (IF k \in traded' THEN 1 ELSE 0)
    <3>1. CASE k = i
      BY <1>1, <1>2, <1>3, <2>1, <3>1
    <3>2. CASE k # i
      BY <1>1, <1>2, <2>1, <3>2 DEF Balanced
    <3>3. QED
      BY <3>1, <3>2
  <2>4. Balanced'
    BY <2>3 DEF Balanced
  <2>5. TypeOK'
    BY <1>1, <1>2, <1>5, <2>1 DEF TypeOK
  <2>6. QED
    BY <2>2, <2>4, <2>5
<1>8. QED
  BY <1>6, <1>7

-----------------------------------------------------------------------------
(* Steps that leave the trades alone                                       *)

\* Logins, the purchase and the loss of a house, and a step of something else.
LEMMA AsideStep ==
  ASSUME IInv, UNCHANGED <<trade, uses, toFree, holder, inside, deed, early>>,
         online \subseteq online', online' \in SUBSET Players,
         owner' \in [Houses -> Players \cup {None}], undefined' \in BOOLEAN
  PROVE  IInv'
BY DEF IInv, trade, TypeOK, Mutual, OfferedOnce, Offers, Related, Balanced, Contained,
       AcceptsOwn

LEMMA CleanupStep ==
  ASSUME IInv, Cleanup
  PROVE  IInv'
<1>. USE DEF IInv
<1>1. /\ uses \in [Items -> Nat] /\ toFree \in [Items -> Nat]
      /\ uses' = [i \in Items |-> uses[i] - toFree[i]]
      /\ toFree' = [i \in Items |-> 0]
      /\ state' = state /\ partner' = partner /\ item' = item /\ traded' = traded
      /\ online' = online /\ holder' = holder /\ inside' = inside /\ deed' = deed
      /\ owner' = owner /\ early' = early /\ undefined' = undefined
  BY Typed DEF Cleanup, trade
<1>2. ASSUME NEW i \in Items
      PROVE  /\ uses'[i] = toFree'[i] + (IF holder'[i] # Nowhere THEN 1 ELSE 0)
                                      + (IF i \in traded' THEN 1 ELSE 0)
             /\ uses'[i] \in Nat
  <2>1. uses[i] = toFree[i] + (IF holder[i] # Nowhere THEN 1 ELSE 0)
                            + (IF i \in traded THEN 1 ELSE 0)
    BY DEF Balanced
  <2>2. toFree[i] \in Nat /\ uses[i] \in Nat
    BY <1>1
  <2>3. QED
    BY <1>1, <2>1, <2>2
<1>3. Balanced'
  BY <1>2 DEF Balanced
<1>4. TypeOK'
  <2>1. uses' \in [Items -> Nat] /\ toFree' \in [Items -> Nat]
    BY <1>1, <1>2
  <2>2. QED
    BY <1>1, <2>1 DEF TypeOK
<1>5. Mutual' /\ OfferedOnce' /\ AcceptsOwn' /\ Contained'
  BY <1>1 DEF Mutual, OfferedOnce, Offers, Related, AcceptsOwn, Contained
<1>6. QED
  BY <1>3, <1>4, <1>5

-----------------------------------------------------------------------------
(* What ends a trade from outside                                          *)

\* What is in a bag is not offered, and not a bag, if the bag is not touched.
LEMMA GoodsAreThings ==
  ASSUME TypeOK, Contained, NEW i \in Things
  PROVE  /\ Goods(i) \subseteq Things /\ i \in Goods(i)
         /\ \A k \in Goods(i) : holder[k] = holder[i]
         /\ i \notin Bags => Goods(i) = {i}
         /\ \A k \in Things : inside[k] \in Goods(i) => inside[k] = i
         /\ \A k \in Goods(i) : Related(i, k)
BY Typed DEF Goods, Contained, Related

LEMMA MoveThingStep ==
  ASSUME IInv, NEW i \in Things, NEW to \in Players \cup {Ground, Nowhere},
         NEW b \in Bags \cup {None}, MoveThing(i, to, b)
  PROVE  IInv'
<1>. USE DEF IInv
<1>. DEFINE S == UNION {Sides(p) : p \in Touched(i, b)}
            D == IF to = Nowhere THEN Goods(i) ELSE {}
<1>1. /\ End(S)
      /\ holder[i] # Nowhere
      /\ b # None => i \notin Bags /\ b \in Bags /\ holder[b] = to /\ to # Nowhere
      /\ toFree' = [k \in Items |-> toFree[k] + Freed(S, k)
                                    + IF to = Nowhere /\ k \in Goods(i) THEN 1 ELSE 0]
      /\ holder' = [k \in Items |-> IF k \in Papered(S) THEN Nowhere
                                    ELSE IF k \in Goods(i) THEN to ELSE holder[k]]
      /\ inside' = [k \in Things |-> IF k = i THEN b
                                     ELSE IF to = Nowhere /\ k \in Goods(i) THEN None
                                     ELSE inside[k]]
      /\ online' = online /\ uses' = uses /\ deed' = deed /\ owner' = owner
      /\ early' = early /\ undefined' = undefined
  <2>1. online \subseteq Players
    BY DEF TypeOK
  <2>2. QED
    BY <2>1, Typed DEF MoveThing
<1>2. Whole(S)
  <2>1. \A p \in Touched(i, b) : p \in Players /\ Whole(Sides(p))
    BY SidesWhole DEF Touched
  <2>2. QED
    BY <2>1 DEF Whole
<1>3. S \in SUBSET Players /\ Touched(i, b) \subseteq S
  BY <1>2 DEF Whole, Sides
<1>4. \A p \in Players \ S : item[p] # None => ~Related(i, item[p]) /\ item[p] # b
  BY <1>3 DEF Touched
<1>. HIDE DEF S
<1>5. /\ Goods(i) \subseteq Things /\ i \in Goods(i)
      /\ \A k \in Goods(i) : holder[k] = holder[i]
      /\ i \notin Bags => Goods(i) = {i}
      /\ \A k \in Things : inside[k] \in Goods(i) => inside[k] = i
      /\ \A k \in Goods(i) : Related(i, k)
  BY GoodsAreThings
<1>6. Papered(S) \subseteq Papers /\ Papered(S) \cap Things = {}
  BY Typed DEF Papered
<1>7. Mutual'
  BY <1>1, <1>2, EndKeepsMutual DEF Mutual
<1>8. OfferedOnce'
  <2>1. ASSUME NEW p \in Players \ S, item[p] # None
        PROVE  /\ holder'[item[p]] = holder[item[p]]
               /\ item[p] \in Things => inside'[item[p]] = inside[item[p]]
    <3>1. item[p] \in Items /\ item[p] \notin Papered(S)
      BY <1>3, <2>1, OthersOffer DEF Papered
    <3>2. item[p] \notin Goods(i) /\ item[p] # i
      BY <1>4, <1>5, <2>1
    <3>3. QED
      BY <1>1, <3>1, <3>2
  <2>2. QED
    BY <1>1, <1>3, <2>1, EndKeepsOffers
<1>9. Balanced' /\ uses' \in [Items -> Nat] /\ toFree' \in [Items -> Nat]
  <2>1. D \in SUBSET Items /\ \A k \in D : holder[k] # Nowhere /\ k \notin Papered(S)
    BY <1>1, <1>5, <1>6, Typed
  <2>2. \A k \in Items : k \in D <=> to = Nowhere /\ k \in Goods(i)
    OBVIOUS
  <2>. HIDE DEF D
  <2>3. ASSUME NEW k \in Items
        PROVE  holder'[k] = Nowhere <=> holder[k] = Nowhere \/ k \in Papered(S) \/ k \in D
    BY <1>1, <1>5, <2>2
  <2>4. toFree' = [k \in Items |-> toFree[k] + Freed(S, k) + IF k \in D THEN 1 ELSE 0]
    BY <1>1, <2>2
  <2>5. QED
    BY <1>1, <1>3, <2>1, <2>3, <2>4, EndKeepsBalance
<1>10. AcceptsOwn'
  BY <1>1, <1>3, EndKeepsAccepts
<1>11. TypeOK'
  <2>1. /\ state' \in [Players -> States]
        /\ partner' \in [Players -> Players \cup {None}]
        /\ item' \in [Players -> Items \cup {None}]
        /\ traded' \in SUBSET Items
    BY <1>1, <1>3, EndShape
  <2>2. holder' \in [Items -> Players \cup {Ground, Nowhere}]
    BY <1>1, Typed
  <2>3. inside' \in [Things -> Bags \cup {None}]
    BY <1>1, Typed
  <2>4. QED
    BY <1>1, <1>9, <2>1, <2>2, <2>3 DEF TypeOK
<1>12. ASSUME NEW k \in Things, inside'[k] # None
       PROVE  k \notin Bags /\ holder'[k] = holder'[inside'[k]]
  <2>1. inside \in [Things -> Bags \cup {None}] /\ Bags \subseteq Things
        /\ Things \subseteq Items /\ None \notin Bags
    BY Typed
  <2>2. \A c \in Things : holder'[c] = IF c \in Goods(i) THEN to ELSE holder[c]
    BY <1>1, <1>6, <2>1
  <2>3. CASE k = i
    <3>1. b # None /\ inside'[k] = b /\ i \notin Bags /\ b \in Bags /\ holder[b] = to
      BY <1>1, <1>12, <2>3
    <3>2. b \notin Goods(i)
      BY <1>5, <3>1
    <3>3. QED
      BY <1>5, <2>1, <2>2, <2>3, <3>1, <3>2
  <2>4. CASE k # i
    <3>1. inside'[k] = inside[k] /\ inside[k] \in Bags
          /\ ~(to = Nowhere /\ k \in Goods(i))
      BY <1>1, <1>12, <2>1, <2>4
    <3>2. k \notin Bags /\ holder[k] = holder[inside[k]]
      BY <1>12, <3>1 DEF Contained
    <3>3. k \in Goods(i) <=> inside[k] \in Goods(i)
      BY <1>5, <2>1, <2>4, <3>1 DEF Goods
    <3>4. QED
      BY <2>1, <2>2, <3>1, <3>2, <3>3
  <2>5. QED
    BY <2>3, <2>4
<1>13. Contained'
  BY <1>12 DEF Contained
<1>14. QED
  BY <1>7, <1>8, <1>9, <1>10, <1>11, <1>13

LEMMA LogoutStep ==
  ASSUME IInv, NEW p \in Players, Logout(p)
  PROVE  IInv'
<1>. USE DEF IInv
<1>. DEFINE S == IF partner[p] = None THEN {} ELSE Sides(p)
            his == {i \in Things : holder[i] = p}
<1>1. /\ End(S)
      /\ toFree' = [k \in Items |-> toFree[k] + Freed(S, k) + IF k \in his THEN 1 ELSE 0]
      /\ holder' = [k \in Items |-> IF k \in Papered(S) \cup his THEN Nowhere ELSE holder[k]]
      /\ inside' = [k \in Things |-> IF k \in his THEN None ELSE inside[k]]
      /\ online' = online \ {p} /\ uses' = uses /\ deed' = deed /\ owner' = owner
      /\ early' = early /\ undefined' = undefined
  BY DEF Logout
<1>2. Whole(S)
  BY SidesWhole DEF Whole
<1>3. S \in SUBSET Players /\ (partner[p] # None => p \in S)
  BY <1>2 DEF Whole, Sides
<1>. HIDE DEF S
<1>4. Papered(S) \cap Things = {} /\ Bags \subseteq Things /\ Things \subseteq Items
      /\ None \notin Bags /\ inside \in [Things -> Bags \cup {None}]
  BY Typed DEF Papered
<1>5. Mutual'
  <2>1. \A q \in Players \ S : partner[q] # None => q \in online'
    BY <1>1, <1>3 DEF Mutual
  <2>2. QED
    BY <1>1, <1>2, <2>1, EndKeepsMutual
<1>6. OfferedOnce'
  <2>1. ASSUME NEW q \in Players \ S, item[q] # None
        PROVE  /\ holder'[item[q]] = holder[item[q]]
               /\ item[q] \in Things => inside'[item[q]] = inside[item[q]]
    <3>1. item[q] \in Items /\ item[q] \notin Papered(S)
      BY <1>3, <2>1, OthersOffer DEF Papered
    <3>2. q # p
      BY <1>3, <2>1 DEF Mutual
    <3>3. holder[item[q]] # p
      BY <2>1, <3>2, Typed DEF OfferedOnce
    <3>4. QED
      BY <1>1, <3>1, <3>3
  <2>2. QED
    BY <1>1, <1>3, <2>1, EndKeepsOffers
<1>7. Balanced' /\ uses' \in [Items -> Nat] /\ toFree' \in [Items -> Nat]
  <2>1. his \in SUBSET Items /\ \A k \in his : holder[k] # Nowhere /\ k \notin Papered(S)
    BY <1>4, Typed
  <2>2. ASSUME NEW k \in Items
        PROVE  holder'[k] = Nowhere <=> holder[k] = Nowhere \/ k \in Papered(S) \/ k \in his
    BY <1>1
  <2>. HIDE DEF his
  <2>3. QED
    BY <1>1, <1>3, <2>1, <2>2, EndKeepsBalance
<1>8. AcceptsOwn'
  BY <1>1, <1>3, EndKeepsAccepts
<1>9. TypeOK'
  <2>1. /\ state' \in [Players -> States]
        /\ partner' \in [Players -> Players \cup {None}]
        /\ item' \in [Players -> Items \cup {None}]
        /\ traded' \in SUBSET Items
    BY <1>1, <1>3, EndShape
  <2>2. holder' \in [Items -> Players \cup {Ground, Nowhere}]
    BY <1>1, Typed
  <2>3. inside' \in [Things -> Bags \cup {None}]
    BY <1>1, <1>4
  <2>4. QED
    BY <1>1, <1>7, <2>1, <2>2, <2>3 DEF TypeOK
<1>10. ASSUME NEW k \in Things, inside'[k] # None
       PROVE  k \notin Bags /\ holder'[k] = holder'[inside'[k]]
  <2>1. k \notin his /\ inside'[k] = inside[k] /\ inside[k] \in Bags
    BY <1>1, <1>4, <1>10
  <2>2. k \notin Bags /\ holder[k] = holder[inside[k]]
    BY <1>10, <2>1 DEF Contained
  <2>3. inside[k] \in Things /\ inside[k] \notin his
    BY <1>4, <2>1, <2>2
  <2>4. QED
    BY <1>1, <1>4, <2>1, <2>2, <2>3
<1>11. Contained'
  BY <1>10 DEF Contained
<1>12. QED
  BY <1>5, <1>6, <1>7, <1>8, <1>9, <1>11

-----------------------------------------------------------------------------
(* The exchange                                                            *)

\* The two sides of a trade in which both have offered.
LEMMA TwoSides ==
  ASSUME IInv, NEW p \in Players, NEW q \in Players, q = partner[p]
  PROVE  /\ p # q /\ partner[q] = p /\ Whole({p, q}) /\ {p, q} \subseteq online
         /\ Sides(p) = {p, q}
BY Typed DEF IInv, Mutual, Whole, Sides

\* What the two moves of an exchange do to a thing, by where it lies.
LEMMA MovedShape ==
  ASSUME IInv, NEW p \in Players, NEW q \in Players, q = partner[p],
         NEW i \in Items, NEW j \in Items, i = item[p], j = item[q],
         NEW b \in {None} \cup (IF i \in Things \ Bags THEN Room(q, j) ELSE {}),
         NEW c \in {None} \cup (IF j \in Things \ Bags
                                THEN {d \in Bags : holder[d] = p /\ d # i} ELSE {}),
         holder' = [k \in Items |->
           IF k \in {i, j} \cap Papers THEN Nowhere
           ELSE IF k \in Goods(j) \/ (k = i /\ b = j) THEN p
           ELSE IF k \in Goods(i) THEN q
           ELSE holder[k]]
  PROVE  /\ i # j /\ ~Related(i, j)
         /\ holder[i] \in {p, Ground} /\ holder[j] \in {q, Ground}
         /\ j \in Things => holder'[j] = p
         /\ i \in Things => holder'[i] = IF b = j THEN p ELSE q
         /\ \A k \in Things \ {i, j} :
              /\ inside[k] = j => holder'[k] = p
              /\ inside[k] = i => holder'[k] = q
              /\ inside[k] \notin {i, j} => holder'[k] = holder[k]
         /\ \A k \in Papers : holder'[k] = IF k \in {i, j} THEN Nowhere ELSE holder[k]
<1>. USE DEF IInv
<1>1. /\ None \notin Items /\ Things \cap Papers = {} /\ Items = Things \cup Papers
      /\ Bags \subseteq Things /\ inside \in [Things -> Bags \cup {None}] /\ p # q
  BY Typed, TwoSides
<1>2. ~Related(i, j) /\ holder[i] \in {p, Ground} /\ holder[j] \in {q, Ground}
  BY <1>1 DEF OfferedOnce
<1>3. i # j /\ i \notin Goods(j) /\ j \notin Goods(i)
  BY <1>2 DEF Related, Goods
<1>4. \A k \in Things : (k \in Goods(i) <=> k = i \/ inside[k] = i)
                        /\ (k \in Goods(j) <=> k = j \/ inside[k] = j)
  BY DEF Goods
<1>5. \A k \in Papers : (k \in Goods(i) <=> k = i) /\ (k \in Goods(j) <=> k = j)
  BY <1>1 DEF Goods
<1>6. j \in Things => holder'[j] = p
  BY <1>1, <1>4
<1>7. i \in Things => holder'[i] = IF b = j THEN p ELSE q
  BY <1>1, <1>3, <1>4
<1>8. ASSUME NEW k \in Things \ {i, j}
      PROVE  /\ inside[k] = j => holder'[k] = p
             /\ inside[k] = i => holder'[k] = q
             /\ inside[k] \notin {i, j} => holder'[k] = holder[k]
  BY <1>1, <1>3, <1>4
<1>9. ASSUME NEW k \in Papers
      PROVE  holder'[k] = IF k \in {i, j} THEN Nowhere ELSE holder[k]
  BY <1>1, <1>5
<1>10. QED
  BY <1>2, <1>3, <1>6, <1>7, <1>8, <1>9

\* An exchange keeps things with the bags they are in, and moves nothing else.
LEMMA MovedKeeps ==
  ASSUME IInv, NEW p \in Players, NEW q \in Players, q = partner[p],
         NEW i \in Items, NEW j \in Items, i = item[p], j = item[q], Moved(i, q, j, p)
  PROVE  /\ Contained'
         /\ holder' \in [Items -> Players \cup {Ground, Nowhere}]
         /\ inside' \in [Things -> Bags \cup {None}]
         /\ \A k \in Items : holder'[k] = Nowhere <=>
              holder[k] = Nowhere \/ k \in {i, j} \cap Papers
         /\ \A r \in Players \ {p, q} : item[r] # None =>
              /\ holder'[item[r]] = holder[item[r]]
              /\ item[r] \in Things => inside'[item[r]] = inside[item[r]]
<1>. USE DEF IInv
<1>1. PICK b \in {None} \cup (IF i \in Things \ Bags THEN Room(q, j) ELSE {}),
           c \in {None} \cup (IF j \in Things \ Bags
                              THEN {d \in Bags : holder[d] = p /\ d # i} ELSE {}) :
        /\ inside' = [k \in Things |-> IF k = i THEN b ELSE IF k = j THEN c ELSE inside[k]]
        /\ holder' = [k \in Items |->
             IF k \in {i, j} \cap Papers THEN Nowhere
             ELSE IF k \in Goods(j) \/ (k = i /\ b = j) THEN p
             ELSE IF k \in Goods(i) THEN q
             ELSE holder[k]]
  BY DEF Moved
<1>2. /\ None \notin Items /\ Things \cap Papers = {} /\ Items = Things \cup Papers
      /\ Bags \subseteq Things /\ inside \in [Things -> Bags \cup {None}]
      /\ holder \in [Items -> Players \cup {Ground, Nowhere}]
      /\ Nowhere \notin Players /\ Ground # Nowhere /\ None \notin Bags
  BY Typed
<1>3. /\ i # j /\ ~Related(i, j)
      /\ holder[i] \in {p, Ground} /\ holder[j] \in {q, Ground}
      /\ j \in Things => holder'[j] = p
      /\ i \in Things => holder'[i] = IF b = j THEN p ELSE q
      /\ \A k \in Things \ {i, j} :
           /\ inside[k] = j => holder'[k] = p
           /\ inside[k] = i => holder'[k] = q
           /\ inside[k] \notin {i, j} => holder'[k] = holder[k]
      /\ \A k \in Papers : holder'[k] = IF k \in {i, j} THEN Nowhere ELSE holder[k]
  BY <1>1, MovedShape
<1>4. /\ b # None => i \in Things \ Bags /\ b \in Bags /\ holder[b] = q
      /\ c # None => j \in Things \ Bags /\ c \in Bags /\ holder[c] = p /\ c # i
  BY <1>2 DEF Room
<1>5. /\ i \in Things => inside'[i] = b
      /\ j \in Things => inside'[j] = c
      /\ \A k \in Things \ {i, j} : inside'[k] = inside[k]
  BY <1>1, <1>3
<1>6. \A k \in Bags : inside[k] = None
  BY <1>2 DEF Contained
<1>7. \A k \in Bags \ {i, j} : holder'[k] = holder[k]
  BY <1>2, <1>3, <1>6
<1>8. ASSUME NEW k \in Things, inside'[k] # None
      PROVE  k \notin Bags /\ holder'[k] = holder'[inside'[k]]
  <2>1. CASE k = i
    BY <1>2, <1>3, <1>4, <1>5, <1>7, <1>8, <2>1
  <2>2. CASE k = j
    BY <1>2, <1>3, <1>4, <1>5, <1>7, <1>8, <2>2
  <2>3. CASE k \notin {i, j}
    <3>1. inside'[k] = inside[k] /\ inside[k] \in Bags /\ k \notin Bags
          /\ holder[k] = holder[inside[k]]
      BY <1>2, <1>5, <1>8, <2>3 DEF Contained
    <3>2. CASE inside[k] = j
      BY <1>2, <1>3, <2>3, <3>1, <3>2
    <3>3. CASE inside[k] = i
      BY <1>2, <1>3, <1>4, <2>3, <3>1, <3>3
    <3>4. CASE inside[k] \notin {i, j}
      BY <1>3, <1>7, <2>3, <3>1, <3>4
    <3>5. QED
      BY <3>2, <3>3, <3>4
  <2>4. QED
    BY <2>1, <2>2, <2>3
<1>9. Contained'
  BY <1>8 DEF Contained
<1>10. inside' \in [Things -> Bags \cup {None}]
  BY <1>1, <1>2, <1>4
<1>11. holder' \in [Items -> Players \cup {Ground, Nowhere}]
  BY <1>1, <1>2
<1>12. ASSUME NEW k \in Items
       PROVE  holder'[k] = Nowhere <=> holder[k] = Nowhere \/ k \in {i, j} \cap Papers
  <2>1. CASE k \in Papers
    BY <1>2, <1>3, <2>1
  <2>2. CASE k \in {i, j} \cap Things
    BY <1>2, <1>3, <2>2
  <2>3. CASE k \in Things \ {i, j}
    <3>1. inside[k] \in {i, j} => holder[k] # Nowhere
      BY <1>2, <1>3, <2>3 DEF Contained
    <3>2. QED
      BY <1>2, <1>3, <2>3, <3>1
  <2>4. QED
    BY <1>2, <2>1, <2>2, <2>3
<1>13. ASSUME NEW r \in Players \ {p, q}, item[r] # None
       PROVE  /\ holder'[item[r]] = holder[item[r]]
              /\ item[r] \in Things => inside'[item[r]] = inside[item[r]]
  <2>1. item[r] \in Items /\ ~Related(i, item[r]) /\ ~Related(j, item[r])
    BY <1>2, <1>13, Typed DEF OfferedOnce
  <2>2. item[r] \notin {i, j}
        /\ (item[r] \in Things => inside[item[r]] \notin {i, j})
    BY <2>1 DEF Related
  <2>3. QED
    BY <1>2, <1>3, <1>5, <2>1, <2>2
<1>14. QED
  BY <1>9, <1>10, <1>11, <1>12, <1>13

\* A trade carried out leaves everything sound.
LEMMA ExchangeStep ==
  ASSUME IInv, NEW p \in Players, NEW q \in Players, q = partner[p],
         item[p] # None, item[q] # None, Exchange(p, q),
         online' = online, deed' = deed,
         early' \in SUBSET Players, early \subseteq early'
  PROVE  IInv' /\ undefined' = undefined
<1>. USE DEF IInv
<1>. DEFINE i == item[p]
            j == item[q]
            S == {p, q}
            D == {}
<1>1. /\ End(S)
      /\ toFree' = [k \in Items |-> toFree[k] + Freed(S, k)]
      /\ uses' = uses /\ undefined' = undefined
      /\ \/ Moved(i, q, j, p) /\ owner' = Conveyed(i, q, j, p)
         \/ /\ holder' = [k \in Items |-> IF k \in {i, j} \cap Papers THEN Nowhere
                                          ELSE holder[k]]
            /\ inside' = inside /\ owner' = owner
  BY DEF Exchange
<1>2. S \in SUBSET Players /\ Whole(S) /\ i \in Items /\ j \in Items
  BY TwoSides, Typed
<1>3. Papered(S) = {i, j} \cap Papers
  BY <1>2, Typed DEF Papered, Offers
<1>4. /\ Contained'
      /\ holder' \in [Items -> Players \cup {Ground, Nowhere}]
      /\ inside' \in [Things -> Bags \cup {None}]
      /\ owner' \in [Houses -> Players \cup {None}]
      /\ \A k \in Items : holder'[k] = Nowhere <=>
           holder[k] = Nowhere \/ k \in {i, j} \cap Papers
      /\ \A r \in Players \ S : item[r] # None =>
           /\ holder'[item[r]] = holder[item[r]]
           /\ item[r] \in Things => inside'[item[r]] = inside[item[r]]
  <2>1. CASE Moved(i, q, j, p) /\ owner' = Conveyed(i, q, j, p)
    <3>1. owner' \in [Houses -> Players \cup {None}]
      BY <2>1 DEF Conveyed, TypeOK
    <3>2. /\ Contained'
          /\ holder' \in [Items -> Players \cup {Ground, Nowhere}]
          /\ inside' \in [Things -> Bags \cup {None}]
          /\ \A k \in Items : holder'[k] = Nowhere <=>
               holder[k] = Nowhere \/ k \in {i, j} \cap Papers
          /\ \A r \in Players \ {p, q} : item[r] # None =>
               /\ holder'[item[r]] = holder[item[r]]
               /\ item[r] \in Things => inside'[item[r]] = inside[item[r]]
      <4>. HIDE DEF i, j
      <4>1. i = item[p] /\ j = item[q]
        BY DEF i, j
      <4>2. QED
        BY <1>2, <2>1, <4>1, MovedKeeps
    <3>3. QED
      BY <3>1, <3>2
  <2>2. CASE /\ holder' = [k \in Items |-> IF k \in {i, j} \cap Papers THEN Nowhere
                                           ELSE holder[k]]
             /\ inside' = inside /\ owner' = owner
    <3>. HIDE DEF i, j
    <3>1. \A k \in Items : holder'[k] = IF k \in {i, j} \cap Papers THEN Nowhere
                                        ELSE holder[k]
      BY <2>2
    <3>2. Contained'
      BY <2>2, <3>1, Typed DEF Contained
    <3>3. \A r \in Players \ S : item[r] # None => item[r] \in Items /\ item[r] \notin {i, j}
      <4>1. \A r \in Players : item[r] # None => item[r] \in Items
        BY Typed
      <4>2. \A r \in Players \ S : item[r] # None => item[r] # item[p] /\ item[r] # item[q]
        BY DEF OfferedOnce, Related
      <4>3. QED
        BY <4>1, <4>2 DEF i, j
    <3>4. holder' \in [Items -> Players \cup {Ground, Nowhere}]
      BY <2>2, Typed
    <3>5. \A k \in Items : holder'[k] = Nowhere <=>
            holder[k] = Nowhere \/ k \in {i, j} \cap Papers
      BY <3>1
    <3>6. ASSUME NEW r \in Players \ S, item[r] # None
          PROVE  /\ holder'[item[r]] = holder[item[r]]
                 /\ item[r] \in Things => inside'[item[r]] = inside[item[r]]
      <4>1. item[r] \in Items /\ item[r] \notin {i, j}
        BY <3>3, <3>6
      <4>2. QED
        BY <2>2, <3>1, <4>1
    <3>7. inside' \in [Things -> Bags \cup {None}]
          /\ owner' \in [Houses -> Players \cup {None}]
      BY <2>2 DEF TypeOK
    <3>8. QED
      BY <3>2, <3>4, <3>5, <3>6, <3>7
  <2>3. QED
    BY <1>1, <2>1, <2>2
<1>. HIDE DEF i, j
<1>5. Mutual'
  BY <1>1, <1>2, EndKeepsMutual DEF Mutual
<1>6. OfferedOnce'
  BY <1>1, <1>2, <1>4, EndKeepsOffers
<1>7. Balanced' /\ uses' \in [Items -> Nat] /\ toFree' \in [Items -> Nat]
  <2>. HIDE DEF S
  <2>1. D \in SUBSET Items /\ \A k \in D : holder[k] # Nowhere /\ k \notin Papered(S)
    OBVIOUS
  <2>2. \A k \in Items : holder'[k] = Nowhere <=>
          holder[k] = Nowhere \/ k \in Papered(S) \/ k \in D
    BY <1>3, <1>4
  <2>3. \A k \in Items : Freed(S, k) \in Nat /\ toFree[k] \in Nat
    BY Typed DEF Freed
  <2>4. toFree' = [k \in Items |-> toFree[k] + Freed(S, k) + IF k \in D THEN 1 ELSE 0]
    BY <1>1, <2>3
  <2>. HIDE DEF D
  <2>5. QED
    BY <1>1, <1>2, <2>1, <2>2, <2>4, EndKeepsBalance
<1>8. AcceptsOwn'
  BY <1>1, <1>2, EndKeepsAccepts
<1>9. TypeOK'
  <2>1. /\ state' \in [Players -> States]
        /\ partner' \in [Players -> Players \cup {None}]
        /\ item' \in [Players -> Items \cup {None}]
        /\ traded' \in SUBSET Items
    BY <1>1, <1>2, EndShape
  <2>2. QED
    BY <1>1, <1>4, <1>7, <2>1 DEF TypeOK
<1>10. QED
  BY <1>1, <1>4, <1>5, <1>6, <1>7, <1>8, <1>9

LEMMA AcceptStep ==
  ASSUME IInv, NEW p \in Players, ~undefined, Accept(p)
  PROVE  IInv' /\ UndefinedNeedsEarly'
<1>. USE DEF IInv
<1>. DEFINE q == partner[p]
<1>1. /\ state[p] \in {"acknowledge", "initiated"}
      /\ early' = IF state[p] = "acknowledge" THEN early \cup {p} ELSE early
      /\ online' = online /\ deed' = deed
  BY DEF Accept
<1>2. early' \in SUBSET Players /\ early \subseteq early' /\ undefined = FALSE
  BY <1>1 DEF TypeOK
<1>3. /\ q \in Players /\ p # q /\ partner[q] = p /\ Whole({p, q})
      /\ state[p] = "initiated" => item[p] # None
  <2>1. partner[p] # None /\ (state[p] = "initiated" => item[p] # None)
    BY <1>1 DEF Mutual
  <2>2. q \in Players
    BY <2>1, Typed
  <2>3. QED
    BY <2>1, <2>2, TwoSides
<1>4. ASSUME /\ state' = [state EXCEPT ![p] = "accept"]
             /\ UNCHANGED <<partner, item, traded, uses, toFree, holder, inside, owner>>,
             undefined' \in BOOLEAN
      PROVE  IInv'
  <2>1. state' \in [Players -> States] /\ state'[p] = "accept"
        /\ \A r \in Players \ {p} : state'[r] = state[r]
    BY <1>4, Typed DEF States
  <2>2. TypeOK'
    BY <1>1, <1>2, <1>4, <2>1 DEF TypeOK
  <2>3. Mutual'
    BY <1>1, <1>4, <2>1 DEF Mutual
  <2>4. AcceptsOwn'
    BY <1>1, <1>2, <1>3, <1>4, <2>1 DEF AcceptsOwn
  <2>5. OfferedOnce' /\ Balanced' /\ Contained'
    BY <1>4 DEF OfferedOnce, Offers, Related, Balanced, Contained
  <2>6. QED
    BY <2>2, <2>3, <2>4, <2>5
<1>5. CASE state[q] # "accept"
  <2>1. /\ state' = [state EXCEPT ![p] = "accept"]
        /\ UNCHANGED <<partner, item, traded, uses, toFree, holder, inside, owner>>
        /\ undefined' = undefined
    BY <1>5 DEF Accept
  <2>2. QED
    BY <1>2, <1>4, <2>1 DEF UndefinedNeedsEarly
<1>6. CASE state[q] = "accept" /\ Cancel({p, q}) /\ undefined' = undefined
  BY <1>1, <1>2, <1>3, <1>6, CancelStep DEF UndefinedNeedsEarly
<1>7. CASE state[q] = "accept" /\ Exchange(p, q)
  <2>1. CASE item[p] = None \/ item[q] = None
    <3>1. /\ state' = [state EXCEPT ![p] = "accept"]
          /\ UNCHANGED <<partner, item, traded, uses, toFree, holder, inside, owner>>
          /\ undefined' = TRUE
      BY <1>7, <2>1 DEF Exchange
    <3>2. early' # {}
      BY <1>1, <1>2, <1>3, <1>7, <2>1 DEF AcceptsOwn
    <3>3. QED
      BY <1>4, <3>1, <3>2 DEF UndefinedNeedsEarly
  <2>2. CASE item[p] # None /\ item[q] # None
    BY <1>1, <1>2, <1>3, <1>7, <2>2, ExchangeStep DEF UndefinedNeedsEarly
  <2>3. QED
    BY <2>1, <2>2
<1>8. QED
  BY <1>5, <1>6, <1>7 DEF Accept

-----------------------------------------------------------------------------
(* The theorems                                                            *)

LEMMA InitIInv == Init => IInv /\ UndefinedNeedsEarly
<1>. SUFFICES ASSUME Init PROVE IInv /\ UndefinedNeedsEarly
  OBVIOUS
<1>1. TypeOK
  BY TradeAssumption DEF Init, TypeOK, States, Items
<1>2. Mutual /\ OfferedOnce /\ AcceptsOwn /\ UndefinedNeedsEarly
  BY DEF Init, Mutual, OfferedOnce, Offers, AcceptsOwn, UndefinedNeedsEarly
<1>3. Balanced
  BY TradeAssumption DEF Init, Balanced, Items
<1>4. Contained
  BY DEF Init, Contained
<1>5. QED
  BY <1>1, <1>2, <1>3, <1>4 DEF IInv

LEMMA NextIInv ==
  ASSUME IInv, UndefinedNeedsEarly, [Next]_vars
  PROVE  IInv' /\ UndefinedNeedsEarly'
<1>1. online \in SUBSET Players /\ owner \in [Houses -> Players \cup {None}]
      /\ undefined \in BOOLEAN /\ early \in SUBSET Players
  BY DEF IInv, TypeOK
<1>2. ASSUME undefined' = undefined, early' = early
      PROVE  UndefinedNeedsEarly'
  BY <1>2 DEF UndefinedNeedsEarly
<1>3. ASSUME NEW p \in Players, Login(p)
      PROVE  IInv' /\ UndefinedNeedsEarly'
  BY <1>1, <1>2, <1>3, AsideStep DEF Login
<1>4. ASSUME NEW p \in Players, Logout(p)
      PROVE  IInv' /\ UndefinedNeedsEarly'
  BY <1>2, <1>4, LogoutStep DEF Logout
<1>5. ASSUME NEW p \in Players, ~undefined, Accept(p)
      PROVE  IInv' /\ UndefinedNeedsEarly'
  BY <1>5, AcceptStep
<1>6. ASSUME NEW p \in Players, CloseTrade(p)
      PROVE  IInv' /\ UndefinedNeedsEarly'
  <2>1. Whole(Sides(p))
    BY SidesWhole DEF IInv
  <2>2. QED
    BY <1>1, <1>2, <1>6, <2>1, CancelStep DEF CloseTrade
<1>7. ASSUME NEW p \in Players, NEW h \in Houses, BuyHouse(p, h)
      PROVE  IInv' /\ UndefinedNeedsEarly'
  BY <1>1, <1>2, <1>7, AsideStep DEF BuyHouse
<1>8. ASSUME NEW p \in Players, NEW q \in Players, NEW i \in Things, RequestTrade(p, q, i)
      PROVE  IInv' /\ UndefinedNeedsEarly'
  BY <1>2, <1>8, RequestTradeStep DEF RequestTrade
<1>9. ASSUME NEW p \in Players, NEW q \in Players, NEW i \in Papers, SellHouse(p, q, i)
      PROVE  IInv' /\ UndefinedNeedsEarly'
  BY <1>2, <1>9, SellHouseStep DEF SellHouse
<1>10. ASSUME NEW i \in Things, NEW to \in Players \cup {Ground, Nowhere},
              NEW b \in Bags \cup {None}, MoveThing(i, to, b)
       PROVE  IInv' /\ UndefinedNeedsEarly'
  BY <1>2, <1>10, MoveThingStep DEF MoveThing
<1>11. ASSUME NEW h \in Houses, LoseHouse(h)
       PROVE  IInv' /\ UndefinedNeedsEarly'
  BY <1>1, <1>2, <1>11, AsideStep DEF LoseHouse
<1>12. ASSUME Cleanup
       PROVE  IInv' /\ UndefinedNeedsEarly'
  BY <1>2, <1>12, CleanupStep DEF Cleanup
<1>13. ASSUME UNCHANGED vars
       PROVE  IInv' /\ UndefinedNeedsEarly'
  BY <1>1, <1>2, <1>13, AsideStep DEF vars
<1>14. QED
  BY <1>3, <1>4, <1>5, <1>6, <1>7, <1>8, <1>9, <1>10, <1>11, <1>12, <1>13 DEF Next

THEOREM Invariance == Spec => [](IInv /\ UndefinedNeedsEarly)
BY InitIInv, NextIInv, PTL DEF Spec

\* In every history the two sides of a trade point to each other and are online, what is
\* offered is offered once and is there, the references to every item add up, and a NULL
\* item is used only after somebody accepted before he offered.
THEOREM TradeCorrect == Spec => []TradeSound
<1>1. IInv /\ UndefinedNeedsEarly => TradeSound
  BY DEF IInv, TradeSound
<1>2. QED
  BY <1>1, Invariance, PTL

\* An exchange passes what each side offered, or what is in it, to the other.
LEMMA ExchangePasses ==
  ASSUME IInv, NEW a \in Players, NEW o \in Players, o = partner[a],
         item[a] # None, item[o] # None, Moved(item[a], o, item[o], a)
  PROVE  PassesBothWays
<1>. USE DEF IInv
<1>. DEFINE i == item[a]
            j == item[o]
<1>1. PICK b \in {None} \cup (IF i \in Things \ Bags THEN Room(o, j) ELSE {}),
           c \in {None} \cup (IF j \in Things \ Bags
                              THEN {d \in Bags : holder[d] = a /\ d # i} ELSE {}) :
        /\ inside' = [k \in Things |-> IF k = i THEN b ELSE IF k = j THEN c ELSE inside[k]]
        /\ holder' = [k \in Items |->
             IF k \in {i, j} \cap Papers THEN Nowhere
             ELSE IF k \in Goods(j) \/ (k = i /\ b = j) THEN a
             ELSE IF k \in Goods(i) THEN o
             ELSE holder[k]]
  BY DEF Moved
<1>2. i \in Items /\ j \in Items /\ i = item[a] /\ j = item[o]
  BY Typed
<1>. HIDE DEF i, j
<1>3. /\ i # j /\ ~Related(i, j)
      /\ holder[i] \in {a, Ground} /\ holder[j] \in {o, Ground}
      /\ j \in Things => holder'[j] = a
      /\ i \in Things => holder'[i] = IF b = j THEN a ELSE o
      /\ \A k \in Things \ {i, j} :
           /\ inside[k] = j => holder'[k] = a
           /\ inside[k] = i => holder'[k] = o
           /\ inside[k] \notin {i, j} => holder'[k] = holder[k]
      /\ \A k \in Papers : holder'[k] = IF k \in {i, j} THEN Nowhere ELSE holder[k]
  BY <1>1, <1>2, MovedShape
<1>4. /\ None \notin Items /\ Ground \notin Players /\ Bags \subseteq Things
      /\ Things \subseteq Items /\ inside \in [Things -> Bags \cup {None}]
  BY Typed
<1>5. a # o /\ partner[o] = a
  BY TwoSides
<1>6. b = j => j \in Deep /\ (i \in Things => inside'[i] = j)
  BY <1>1, <1>2, <1>4 DEF Room
<1>7. ASSUME NEW p \in Players, NEW q \in Players, NEW k \in Things,
             p # q, holder[k] = p, holder'[k] = q
      PROVE  /\ partner[p] = q /\ item[q] # None
             /\ item[p] \in Things /\ k \in Goods(item[p])
             /\ item[q] \in Things =>
                  \/ holder'[item[q]] = p
                  \/ item[p] \in Deep /\ inside'[item[q]] = item[p]
  <2>1. inside[k] # None => inside[k] \in Things /\ holder[k] = holder[inside[k]]
    BY <1>4 DEF Contained
  <2>2. CASE k = j \/ inside[k] = j
    <3>1. j \in Things /\ holder[j] = holder[k] /\ k \in Goods(j)
      BY <1>2, <1>4, <2>1, <2>2 DEF Goods
    <3>2. k # i
      BY <1>3, <2>2, <1>7 DEF Related
    <3>3. p = o /\ q = a
      BY <1>3, <1>4, <1>7, <2>2, <3>1, <3>2
    <3>4. i \in Things => holder'[i] = o \/ (j \in Deep /\ inside'[i] = j)
      BY <1>3, <1>6
    <3>5. QED
      BY <1>2, <1>4, <1>5, <3>1, <3>3, <3>4
  <2>3. CASE k = i \/ inside[k] = i
    <3>1. i \in Things /\ holder[i] = holder[k] /\ k \in Goods(i)
      BY <1>2, <1>4, <2>1, <2>3 DEF Goods
    <3>2. k # j
      BY <1>3, <2>3, <1>7 DEF Related
    <3>3. p = a /\ q = o
      BY <1>3, <1>4, <1>7, <2>3, <3>1, <3>2
    <3>4. QED
      BY <1>2, <1>3, <1>4, <1>5, <3>1, <3>3
  <2>4. CASE k \notin {i, j} /\ inside[k] \notin {i, j}
    BY <1>3, <1>7, <2>4
  <2>5. QED
    BY <2>2, <2>3, <2>4
<1>8. QED
  BY <1>7 DEF PassesBothWays

LEMMA ExchangeConveys ==
  ASSUME IInv, NEW a \in Players, NEW o \in Players, o = partner[a], state[o] = "accept",
         owner' = Conveyed(item[a], o, item[o], a)
  PROVE  PassesByDeed
<1>1. partner[o] = a
  BY TwoSides
<1>2. ASSUME NEW h \in Houses, NEW p \in Players, NEW q \in Players,
             p # q, owner[h] = p, owner'[h] = q
      PROVE  \E s \in Players : /\ partner[s] = q /\ item[s] \in Papers /\ deed[item[s]] = h
                                /\ "accept" \in {state[s], state[q]}
  <2>1. owner'[h] = IF item[o] \in Papers /\ deed[item[o]] = h THEN a
                    ELSE IF item[a] \in Papers /\ deed[item[a]] = h THEN o
                    ELSE owner[h]
    BY DEF Conveyed
  <2>2. CASE item[o] \in Papers /\ deed[item[o]] = h
    BY <1>1, <1>2, <2>1, <2>2
  <2>3. CASE ~(item[o] \in Papers /\ deed[item[o]] = h)
    BY <1>2, <2>1, <2>3
  <2>4. QED
    BY <2>2, <2>3
<1>3. QED
  BY <1>2 DEF PassesByDeed

\* A step that takes things off players, or leaves them, passes none.
LEMMA NothingPasses ==
  ASSUME TypeOK, \A k \in Things : holder'[k] \in {holder[k], Ground, Nowhere}
  PROVE  PassesBothWays
BY Typed DEF PassesBothWays

LEMMA NoHousePasses ==
  ASSUME TypeOK, \A h \in Houses : owner'[h] \in {owner[h], None} \/ owner[h] = None
  PROVE  PassesByDeed
BY Typed DEF PassesByDeed

LEMMA StepPasses ==
  ASSUME IInv, Next
  PROVE  PassesBothWays /\ PassesByDeed
<1>. USE DEF IInv
<1>1. ASSUME NEW p \in Players, Accept(p)
      PROVE  PassesBothWays /\ PassesByDeed
  <2>. DEFINE q == partner[p]
  <2>1. q \in Players /\ p # q
    <3>1. partner[p] # None
      BY <1>1 DEF Accept, Mutual
    <3>2. QED
      BY <3>1, Typed, TwoSides
  <2>2. CASE holder' = holder /\ owner' = owner
    BY <2>2, NothingPasses, NoHousePasses
  <2>3. CASE Cancel({p, q})
    <3>1. owner' = owner
          /\ holder' = [k \in Items |-> IF k \in Papered({p, q}) THEN Nowhere ELSE holder[k]]
      BY <2>3 DEF Cancel
    <3>2. \A k \in Things : holder'[k] = holder[k] \/ holder'[k] = Nowhere
      BY <3>1, Typed
    <3>3. QED
      BY <3>1, <3>2, NothingPasses, NoHousePasses
  <2>4. CASE state[q] = "accept" /\ Exchange(p, q) /\ item[p] # None /\ item[q] # None
    <3>1. CASE /\ Moved(item[p], q, item[q], p)
               /\ owner' = Conveyed(item[p], q, item[q], p)
      BY <2>1, <2>4, <3>1, ExchangePasses, ExchangeConveys
    <3>2. CASE /\ holder' = [k \in Items |->
                     IF k \in {item[p], item[q]} \cap Papers THEN Nowhere ELSE holder[k]]
               /\ owner' = owner
      <4>1. \A k \in Things : holder'[k] = holder[k] \/ holder'[k] = Nowhere
        BY <3>2, Typed
      <4>2. QED
        BY <3>2, <4>1, NothingPasses, NoHousePasses
    <3>3. QED
      BY <2>4, <3>1, <3>2 DEF Exchange
  <2>5. CASE Exchange(p, q) /\ (item[p] = None \/ item[q] = None)
    BY <2>2, <2>5 DEF Exchange
  <2>6. QED
    BY <1>1, <2>2, <2>3, <2>4, <2>5 DEF Accept
<1>2. ASSUME NEW p \in Players, Logout(p) \/ CloseTrade(p)
      PROVE  PassesBothWays /\ PassesByDeed
  <2>1. owner' = owner
    BY <1>2 DEF Logout, CloseTrade, Cancel
  <2>2. \A k \in Things : holder'[k] = holder[k] \/ holder'[k] = Nowhere
    BY <1>2, Typed DEF Logout, CloseTrade, Cancel
  <2>3. QED
    BY <2>1, <2>2, NothingPasses, NoHousePasses
<1>3. ASSUME NEW p \in Players, NEW q \in Players, NEW i \in Papers, SellHouse(p, q, i)
      PROVE  PassesBothWays /\ PassesByDeed
  <2>1. owner' = owner /\ (holder' = holder \/ holder' = [holder EXCEPT ![i] = p])
    BY <1>3 DEF SellHouse
  <2>2. \A k \in Things : holder'[k] = holder[k]
    BY <2>1, Typed
  <2>3. QED
    BY <2>1, <2>2, NothingPasses, NoHousePasses
<1>4. ASSUME NEW i \in Things, NEW to \in Players \cup {Ground, Nowhere},
             NEW b \in Bags \cup {None}, MoveThing(i, to, b)
      PROVE  PassesBothWays /\ PassesByDeed
  <2>. DEFINE S == UNION {Sides(p) : p \in Touched(i, b)}
  <2>1. /\ owner' = owner
        /\ holder' = [k \in Items |-> IF k \in Papered(S) THEN Nowhere
                                      ELSE IF k \in Goods(i) THEN to ELSE holder[k]]
        /\ to \in {holder[i], Ground, Nowhere} \/ holder[i] = Ground
    BY <1>4 DEF MoveThing
  <2>2. \A k \in Goods(i) : holder[k] = holder[i]
    BY GoodsAreThings
  <2>. HIDE DEF S
  <2>3. ASSUME NEW k \in Things
        PROVE  holder'[k] \in {holder[k], Ground, Nowhere} \/ holder[k] = Ground
    BY <2>1, <2>2, Typed
  <2>4. PassesBothWays
    BY <2>3, Typed DEF PassesBothWays
  <2>5. QED
    BY <2>1, <2>4, NoHousePasses
<1>5. ASSUME NEW h \in Houses, LoseHouse(h) \/ \E p \in Players : BuyHouse(p, h)
      PROVE  PassesBothWays /\ PassesByDeed
  <2>1. holder' = holder /\ owner \in [Houses -> Players \cup {None}]
    BY <1>5 DEF LoseHouse, BuyHouse, TypeOK
  <2>2. \A g \in Houses : owner'[g] \in {owner[g], None} \/ owner[g] = None
    BY <1>5, <2>1 DEF LoseHouse, BuyHouse
  <2>3. QED
    BY <2>1, <2>2, NothingPasses, NoHousePasses
<1>6. ASSUME holder' = holder, owner' = owner
      PROVE  PassesBothWays /\ PassesByDeed
  BY <1>6, NothingPasses, NoHousePasses
<1>7. QED
  BY <1>1, <1>2, <1>3, <1>4, <1>5, <1>6 DEF Next, Login, RequestTrade, Cleanup

\* In every step of every history things pass between players by a trade, both ways, and
\* houses by a document on its table.
THEOREM TradePasses == Spec => TradesBothWays
<1>1. IInv /\ [Next]_vars => [PassesBothWays /\ PassesByDeed]_vars
  BY StepPasses
<1>2. QED
  BY <1>1, Invariance, PTL DEF Spec, TradesBothWays

-----------------------------------------------------------------------------
(* Loops                                                                   *)

\* Induction, which the library states of operators, is stated here of sets; it follows
\* from the pigeonhole principle: otherwise n |-> n + 1 would take the members of S up to
\* some number to one fewer of them.
LEMMA Induction ==
  ASSUME NEW S, 0 \in S, \A n \in Nat : n \in S => n + 1 \in S
  PROVE  Nat \subseteq S
<1> SUFFICES ASSUME NEW n \in Nat, n \notin S PROVE FALSE
  OBVIOUS
<1> DEFINE A == {i \in 0 .. n : i \in S}
           f == [i \in A |-> i + 1]
<1>1. IsFiniteSet(A) /\ IsFiniteSet(A \ {0}) /\ Cardinality(A \ {0}) < Cardinality(A)
  <2>1. IsFiniteSet(0 .. n)
    BY FS_Interval
  <2>2. A \in SUBSET (0 .. n) /\ 0 \in A
    OBVIOUS
  <2>3. IsFiniteSet(A)
    BY <2>1, <2>2, FS_Subset
  <2>4. Cardinality(A) \in Nat
    BY <2>3, FS_CardinalityType
  <2>5. IsFiniteSet(A \ {0}) /\ Cardinality(A \ {0}) = Cardinality(A) - 1
    BY <2>2, <2>3, FS_RemoveElement
  <2>6. QED
    BY <2>3, <2>4, <2>5
<1>2. f \in [A -> A \ {0}]
  OBVIOUS
<1>3. PICK x, y \in A : x # y /\ f[x] = f[y]
  <2> HIDE DEF A, f
  <2>1. QED
    BY <1>1, <1>2, FS_PigeonHole
<1>4. QED
  BY <1>3

\* The n-th step of a loop, H, leads from Good[n - 1] to Good[n].
Steps(H, N, Good) == \A n \in 1 .. N : \A t \in Good[n - 1] : H[<<t, n>>] \in Good[n]

\* A loop stays where each of its steps stays.
Stays(U, N, Good) ==
  U[0] \in Good[0] /\ \A n \in 1 .. N : U[n - 1] \in Good[n - 1] => U[n] \in Good[n]

LEMMA LoopStays ==
  ASSUME NEW N \in Nat, NEW Good, NEW U, Stays(U, N, Good)
  PROVE  \A n \in 0 .. N : U[n] \in Good[n]
<1> DEFINE S == {n \in Nat : n <= N => U[n] \in Good[n]}
<1>1. 0 \in S
  BY DEF Stays
<1>2. ASSUME NEW n \in Nat, n \in S PROVE n + 1 \in S
  <2>1. CASE n + 1 <= N
    <3>1. n + 1 \in 1 .. N /\ (n + 1) - 1 = n /\ n <= N
      BY <2>1
    <3>2. QED
      BY <1>2, <3>1 DEF Stays
  <2>2. QED
    BY <2>1
<1> HIDE DEF S
<1>3. Nat \subseteq S
  BY <1>1, <1>2, Induction
<1>4. QED
  BY <1>3 DEF S

\* T holds what the loop has after each of its steps, if it starts from s.
Turns(T, H, N, Good, s) ==
  /\ T = [n \in 0 .. N |-> IF n = 0 THEN s ELSE H[<<T[n - 1], n>>]]
  /\ \A n \in 0 .. N : T[n] \in Good[n]

\* Such a loop is defined.
LEMMA LoopExists ==
  ASSUME NEW N \in Nat, NEW Good, NEW s \in Good[0], NEW H, Steps(H, N, Good)
  PROVE  \E T : Turns(T, H, N, Good, s)
<1> DEFINE Is(T, k) == T = [n \in 0 .. k |-> IF n = 0 THEN s ELSE H[<<T[n - 1], n>>]]
           S == {k \in Nat : k <= N =>
                   \E T : Is(T, k) /\ \A n \in 0 .. k : T[n] \in Good[n]}
<1>1. 0 \in S
  <2> DEFINE T == [n \in 0 .. 0 |-> s]
  <2>1. \A n \in 0 .. 0 : n = 0
    OBVIOUS
  <2>2. Is(T, 0) /\ \A n \in 0 .. 0 : T[n] \in Good[n]
    BY <2>1
  <2>3. QED
    BY <2>2
<1>2. ASSUME NEW k \in Nat, k \in S PROVE k + 1 \in S
  <2> SUFFICES ASSUME k + 1 <= N
      PROVE  \E T : Is(T, k + 1) /\ \A n \in 0 .. (k + 1) : T[n] \in Good[n]
    OBVIOUS
  <2>1. PICK T : Is(T, k) /\ \A n \in 0 .. k : T[n] \in Good[n]
    BY <1>2
  <2> DEFINE U == [n \in 0 .. (k + 1) |-> IF n = k + 1 THEN H[<<T[k], n>>] ELSE T[n]]
  <2>2. \A n \in 0 .. (k + 1) : n = k + 1 \/ n \in 0 .. k
    OBVIOUS
  <2>3. \A n \in 0 .. k : U[n] = T[n] /\ n # k + 1 /\ n \in 0 .. (k + 1)
    OBVIOUS
  <2>4. U[k + 1] = H[<<U[k], k + 1>>] /\ (k + 1) - 1 = k /\ k + 1 # 0
    OBVIOUS
  <2>5. \A n \in 0 .. k : U[n] = IF n = 0 THEN s ELSE H[<<U[n - 1], n>>]
    <3> SUFFICES ASSUME NEW n \in 0 .. k
        PROVE  U[n] = IF n = 0 THEN s ELSE H[<<U[n - 1], n>>]
      OBVIOUS
    <3>1. T[n] = IF n = 0 THEN s ELSE H[<<T[n - 1], n>>]
      BY <2>1
    <3>2. n # 0 => n - 1 \in 0 .. k
      OBVIOUS
    <3>3. QED
      BY <2>3, <3>1, <3>2
  <2>6. U[k + 1] \in Good[k + 1]
    <3>1. k + 1 \in 1 .. N /\ T[k] \in Good[(k + 1) - 1]
      BY <2>1
    <3>2. QED
      BY <2>4, <3>1 DEF Steps
  <2>7. Is(U, k + 1)
    <3>1. \A n \in 0 .. (k + 1) : U[n] = IF n = 0 THEN s ELSE H[<<U[n - 1], n>>]
      BY <2>2, <2>4, <2>5
    <3>2. U = [n \in 0 .. (k + 1) |-> U[n]]
      OBVIOUS
    <3> HIDE DEF U
    <3>3. QED
      BY <3>1, <3>2
  <2>8. \A n \in 0 .. (k + 1) : U[n] \in Good[n]
    BY <2>1, <2>2, <2>3, <2>6
  <2> HIDE DEF U, Is
  <2>9. QED
    BY <2>7, <2>8
<1> HIDE DEF S
<1>3. Nat \subseteq S
  BY <1>1, <1>2, Induction
<1>4. N \in S /\ N <= N
  BY <1>3
<1>5. \E T : Is(T, N) /\ \A n \in 0 .. N : T[n] \in Good[n]
  BY <1>4 DEF S
<1>6. QED
  BY <1>5 DEF Turns

-----------------------------------------------------------------------------
(* The life of creatures                                                   *)

CONSTANTS Monsters, MaxSummons, Order

VARIABLE g

Lv == INSTANCE Creatures

\* What the constants say, in the words the proofs use.
Cast ==
  /\ Players \subseteq Lv!Creature /\ Monsters \subseteq Lv!Creature
  /\ Lv!Creature \subseteq Players \cup Monsters /\ Players \cap Monsters = {}
  /\ None \notin Lv!Creature /\ IsFiniteSet(Lv!Creature)

LEMMA CastHolds == ASSUME Lv!CreaturesAssumption PROVE Cast
<1> USE DEF Lv!CreaturesAssumption
<1>1. Lv!Creature = Players \cup Monsters
  BY DEF Lv!Creature
<1>2. IsFiniteSet(Lv!Creature)
  <2> DEFINE D == 1 .. Len(Order)
             f == [n \in D |-> Order[n]]
  <2>1. Order \in Seq(Lv!Creature) /\ Lv!Creature = {Order[n] : n \in 1 .. Len(Order)}
    BY <1>1 DEF Lv!ToSet
  <2>2. Len(Order) \in Nat /\ f \in [D -> Lv!Creature]
    BY <2>1
  <2>3. f \in Surjection(D, Lv!Creature)
    BY <2>1, <2>2 DEF Surjection
  <2>4. IsFiniteSet(D)
    BY <2>2, FS_Interval
  <2> HIDE DEF D, f
  <2>5. QED
    BY <2>3, <2>4, FS_Surjection
<1>3. QED
  BY <1>1, <1>2 DEF Cast

LEMMA SameCard == \A S : Lv!Cardinality(S) = Cardinality(S)
BY DEF Lv!Cardinality, Cardinality

\* The loops over all creatures take that many turns.
Turned == Lv!Cardinality(Lv!Creature)

LEMMA TurnedNat == ASSUME Cast PROVE Turned \in Nat /\ Turned = Cardinality(Lv!Creature)
BY SameCard, FS_CardinalityType DEF Cast, Turned

\* Those of D that list c.
Listing(f, D, c) == {d \in D : c \in f[d]}

Mark(c, A) == IF c \in A THEN 1 ELSE 0

\* When one list changes, so does the number of the lists of who comes in or goes.
LEMMA Relisted ==
  ASSUME NEW D, IsFiniteSet(D), NEW m \in D, NEW A, NEW f, NEW h,
         h[m] = A, \A d \in D \ {m} : h[d] = f[d], NEW c
  PROVE  /\ Cardinality(Listing(h, D, c)) \in Nat /\ Cardinality(Listing(f, D, c)) \in Nat
         /\ Cardinality(Listing(h, D, c)) =
              Cardinality(Listing(f, D, c)) + Mark(c, A) - Mark(c, f[m])
<1> DEFINE F == Listing(f, D, c)
           H == Listing(h, D, c)
<1>1. F \in SUBSET D /\ H \in SUBSET D
  BY DEF Listing
<1>2. IsFiniteSet(F) /\ IsFiniteSet(H)
  BY <1>1, FS_Subset
<1>3. Cardinality(F) \in Nat /\ Cardinality(H) \in Nat
  BY <1>2, FS_CardinalityType
<1>4. (m \in F <=> c \in f[m]) /\ (m \in H <=> c \in A)
  BY DEF Listing
<1>5. F \ {m} = H \ {m}
  BY DEF Listing
<1>6. /\ Cardinality(F \ {m}) = IF m \in F THEN Cardinality(F) - 1 ELSE Cardinality(F)
      /\ Cardinality(H \ {m}) = IF m \in H THEN Cardinality(H) - 1 ELSE Cardinality(H)
  BY <1>2, FS_RemoveElement
<1>7. Cardinality(H) = Cardinality(F) + Mark(c, A) - Mark(c, f[m])
  <2> DEFINE B == f[m]
             K == Cardinality(F \ {m})
  <2>1. /\ Mark(c, A) = IF m \in H THEN 1 ELSE 0
        /\ Mark(c, B) = IF m \in F THEN 1 ELSE 0
    BY <1>4 DEF Mark
  <2>2. /\ K = IF m \in F THEN Cardinality(F) - 1 ELSE Cardinality(F)
        /\ K = IF m \in H THEN Cardinality(H) - 1 ELSE Cardinality(H)
    BY <1>5, <1>6
  <2> HIDE DEF F, H, B, K
  <2>3. Cardinality(H) = Cardinality(F) + Mark(c, A) - Mark(c, B)
    BY <1>3, <2>1, <2>2
  <2>4. QED
    BY <2>3 DEF B
<1>8. QED
  BY <1>3, <1>7

LEMMA ListingCounts ==
  ASSUME NEW D, IsFiniteSet(D), NEW f, NEW c
  PROVE  /\ Cardinality(Listing(f, D, c)) \in Nat
         /\ Cardinality(Listing(f, D, c)) = 0 <=> \A d \in D : c \notin f[d]
<1> DEFINE F == Listing(f, D, c)
<1>1. F \in SUBSET D
  BY DEF Listing
<1>2. IsFiniteSet(F)
  BY <1>1, FS_Subset
<1>3. Cardinality(F) \in Nat /\ (Cardinality(F) = 0 <=> F = {})
  BY <1>2, FS_CardinalityType, FS_EmptySet
<1>4. F = {} <=> \A d \in D : c \notin f[d]
  BY DEF Listing
<1>5. QED
  BY <1>3, <1>4

\* The lists that c is in: of summons, of targets and of friends.
Lists(s, c) ==
  Cardinality(Listing(s.summons, Lv!Creature, c))
    + Cardinality(Listing(s.targets, Monsters, c)) + Cardinality(Listing(s.friends, Monsters, c))

\* References are counted.
Refers(s, c) ==
  (IF s.life[c] = "in" THEN 1 ELSE 0) + Mark(c, s.slotted) + s.free[c] + Lists(s, c)

Counted(s) == \A c \in Lv!Creature : s.refs[c] = Refers(s, c)

\* Nothing is left of who is not there.
Bare(s) ==
  /\ \A c \in Lv!Creature : s.life[c] = "absent" =>
       s.refs[c] = 0 /\ c \notin s.dead /\ s.summons[c] = {} /\ s.attacked[c] = None
  /\ \A m \in Monsters : s.life[m] = "absent" =>
       s.targets[m] = {} /\ s.friends[m] = {} /\ s.followed[m] = None

\* A master has his summons in his list, and nobody else has.
Mastered(s) ==
  /\ \A c \in Lv!Creature : s.summons[c] \subseteq Monsters
  /\ \A c, d \in Lv!Creature : d \in s.summons[c] <=> s.master[d] = c

\* Only those in the game are near each other, are looked at, and wait for no release.
Present(s) ==
  /\ \A c, x \in Lv!Creature : Lv!Near(s, c, x) => s.life[c] = "in" /\ s.life[x] = "in"
  /\ s.checked \subseteq s.slotted /\ \A c \in s.checked : s.life[c] = "in"
  /\ \A c \in Lv!Creature : s.free[c] \in 0 .. 1 /\ (s.life[c] = "in" => s.free[c] = 0)

Core(s) == s \in Lv!State /\ Counted(s) /\ Bare(s) /\ Mastered(s) /\ Present(s)

\* What is hit while it is alive, and players always, are looked at.
Alert(s) ==
  \A c \in Lv!Creature : s.life[c] = "in" /\ c \in Players \cup s.dead => c \in s.checked

\* Who attacks or follows someone is near him.
Aims(s, d) ==
  s.life[d] = "in" =>
    /\ s.attacked[d] = None \/ Lv!Near(s, d, s.attacked[d])
    /\ d \in Monsters => s.followed[d] = None \/ Lv!Near(s, d, s.followed[d])

Owned(s) ==
  \A c \in Lv!Creature :
    s.life[c] = "in" => s.master[c] = None \/ s.life[s.master[c]] = "in"

\* A monster without health, or without lists.
Emptied(s, m) == m \in s.dead \/ (s.targets[m] = {} /\ s.friends[m] = {})

\* Who was removed alive lists nobody, and of some monsters one has a master elsewhere.
Hollow(s) == \A m \in Monsters : s.life[m] = "out" => Emptied(s, m)
Rooted(s) == \A S \in SUBSET Monsters : S # {} => \E m \in S : s.master[m] \notin S
Settled(s) == Hollow(s) /\ Rooted(s)

\* What holds within a removal, and what holds between the steps.
Fair(s) == Core(s) /\ Alert(s) /\ Settled(s) /\ \A d \in Lv!Creature : Aims(s, d)

Full(s) == Fair(s) /\ Owned(s)

\* Most operations change no life, no master and no place, leave who is dying in his
\* vector, and take aim at nobody, or at who is near.
Frame(s, t) ==
  /\ t.life = s.life /\ t.dead = s.dead /\ t.free = s.free
  /\ t.master = s.master /\ t.summons = s.summons /\ t.near = s.near

Watched(s, t) == \A c \in Players \cup s.dead : c \in s.checked => c \in t.checked

\* The lists of all monsters of M stay or lose someone; those of whom is not in the game do.
Shrinks(s, t, M) ==
  \A m \in M : t.targets[m] \subseteq s.targets[m] /\ t.friends[m] \subseteq s.friends[m]

Gone(s) == {m \in Monsters : s.life[m] # "in"}

Quiet(s, t) ==
  /\ Frame(s, t) /\ Watched(s, t) /\ Shrinks(s, t, Gone(s))
  /\ \A d \in Lv!Creature : t.attacked[d] \in {s.attacked[d], None}
  /\ \A d \in Monsters : t.followed[d] \in {s.followed[d], None}

Calm(s, t) ==
  /\ Frame(s, t) /\ Watched(s, t) /\ Shrinks(s, t, Gone(s))
  /\ \A d \in Lv!Creature :
       t.attacked[d] \in {s.attacked[d], None} \/ Lv!Near(s, d, t.attacked[d])
  /\ \A d \in Monsters :
       t.followed[d] \in {s.followed[d], None} \/ Lv!Near(s, d, t.followed[d])

Still(s, t) == Core(t) /\ Quiet(s, t)
Eased(s, t) == Core(t) /\ Calm(s, t)

LEMMA Stays1 == ASSUME NEW s, Core(s) PROVE Still(s, s)
BY DEF Still, Quiet, Frame, Watched, Shrinks

LEMMA StillStill ==
  ASSUME NEW s, NEW t, NEW u, Still(s, t), Still(t, u) PROVE Still(s, u)
<1>1. Frame(s, u) /\ Watched(s, u)
  BY DEF Still, Quiet, Frame, Watched
<1>2. /\ \A d \in Lv!Creature : u.attacked[d] \in {s.attacked[d], None}
      /\ \A d \in Monsters : u.followed[d] \in {s.followed[d], None}
  BY DEF Still, Quiet
<1>3. Shrinks(s, u, Gone(s))
  BY DEF Still, Quiet, Frame, Shrinks, Gone
<1>4. QED
  BY <1>1, <1>2, <1>3 DEF Still, Quiet

LEMMA StillEased ==
  ASSUME NEW s, NEW t, Still(s, t) PROVE Eased(s, t)
BY DEF Still, Eased, Quiet, Calm

LEMMA EasedEased ==
  ASSUME NEW s, NEW t, NEW u, Eased(s, t), Eased(t, u) PROVE Eased(s, u)
<1>1. Frame(s, u) /\ Watched(s, u) /\ t.near = s.near
  BY DEF Eased, Calm, Frame, Watched
<1>2. \A d, x : Lv!Near(t, d, x) <=> Lv!Near(s, d, x)
  BY <1>1 DEF Lv!Near
<1>3. /\ \A d \in Lv!Creature :
           u.attacked[d] \in {s.attacked[d], None} \/ Lv!Near(s, d, u.attacked[d])
      /\ \A d \in Monsters :
           u.followed[d] \in {s.followed[d], None} \/ Lv!Near(s, d, u.followed[d])
  BY <1>2 DEF Eased, Calm
<1>4. Shrinks(s, u, Gone(s))
  BY DEF Eased, Calm, Frame, Shrinks, Gone
<1>5. QED
  BY <1>1, <1>3, <1>4 DEF Eased, Calm

LEMMA RootedSame ==
  ASSUME NEW s, Rooted(s), NEW t,
         \A m \in Monsters : t.master[m] \in Monsters => t.master[m] = s.master[m]
  PROVE  Rooted(t)
<1> SUFFICES ASSUME NEW S \in SUBSET Monsters, S # {} PROVE \E m \in S : t.master[m] \notin S
  BY DEF Rooted
<1>1. PICK m \in S : s.master[m] \notin S
  BY DEF Rooted
<1>2. t.master[m] \notin S
  BY <1>1
<1>3. QED
  BY <1>2

LEMMA SettledSame ==
  ASSUME NEW s, Settled(s), NEW t, t.life = s.life, s.dead \subseteq t.dead,
         Shrinks(s, t, Gone(s)),
         \A m \in Monsters : t.master[m] \in Monsters => t.master[m] = s.master[m]
  PROVE  Settled(t)
<1>1. ASSUME NEW m \in Monsters, t.life[m] = "out" PROVE Emptied(t, m)
  <2>1. Emptied(s, m) /\ m \in Gone(s)
    BY <1>1 DEF Settled, Hollow, Gone
  <2>2. t.targets[m] \subseteq s.targets[m] /\ t.friends[m] \subseteq s.friends[m]
    BY <2>1 DEF Shrinks
  <2>3. QED
    BY <2>1, <2>2 DEF Emptied
<1>2. Rooted(t)
  BY RootedSame DEF Settled
<1>3. QED
  BY <1>1, <1>2 DEF Settled, Hollow

LEMMA SettledEased ==
  ASSUME NEW s, NEW t, Settled(s), Eased(s, t) PROVE Settled(t)
<1>1. Frame(s, t) /\ Shrinks(s, t, Gone(s))
  BY DEF Eased, Calm
<1>2. QED
  BY <1>1, SettledSame DEF Frame

LEMMA FairEased ==
  ASSUME NEW s, NEW t, Fair(s), Eased(s, t) PROVE Fair(t)
<1>1. Frame(s, t) /\ Watched(s, t) /\ Core(t)
  BY DEF Eased, Calm
<1>2. Alert(t)
  BY <1>1 DEF Fair, Alert, Frame, Watched
<1>3. \A d, x : Lv!Near(t, d, x) <=> Lv!Near(s, d, x)
  BY <1>1 DEF Lv!Near, Frame
<1>4. ASSUME NEW d \in Lv!Creature PROVE Aims(t, d)
  <2>1. Aims(s, d) /\ t.life = s.life
    BY <1>1 DEF Fair, Frame
  <2>2. QED
    BY <1>3, <2>1 DEF Aims, Eased, Calm
<1>5. Settled(t)
  BY SettledEased DEF Fair
<1>6. QED
  BY <1>1, <1>2, <1>4, <1>5 DEF Fair

LEMMA FullEased ==
  ASSUME NEW s, NEW t, Full(s), Eased(s, t) PROVE Full(t)
<1>1. Owned(t)
  BY DEF Full, Owned, Eased, Calm, Frame
<1>2. QED
  BY <1>1, FairEased DEF Full

\* Who is not referred to is nowhere.
LEMMA Unreferred ==
  ASSUME Cast, NEW s \in Lv!State, Counted(s), NEW c \in Lv!Creature, s.refs[c] <= 0
  PROVE  /\ s.life[c] # "in" /\ c \notin s.slotted /\ s.free[c] = 0 /\ s.refs[c] = 0
         /\ \A d \in Lv!Creature : c \notin s.summons[d]
         /\ \A m \in Monsters : c \notin s.targets[m] /\ c \notin s.friends[m]
<1> DEFINE i == Cardinality(Listing(s.summons, Lv!Creature, c))
           j == Cardinality(Listing(s.targets, Monsters, c))
           k == Cardinality(Listing(s.friends, Monsters, c))
<1>1. IsFiniteSet(Lv!Creature) /\ IsFiniteSet(Monsters)
  BY FS_Subset DEF Cast
<1>2. i \in Nat /\ (i = 0 <=> \A d \in Lv!Creature : c \notin s.summons[d])
  BY <1>1, ListingCounts
<1>3. j \in Nat /\ (j = 0 <=> \A m \in Monsters : c \notin s.targets[m])
  BY <1>1, ListingCounts
<1>4. k \in Nat /\ (k = 0 <=> \A m \in Monsters : c \notin s.friends[m])
  BY <1>1, ListingCounts
<1> DEFINE r == s.refs[c]
           f == s.free[c]
           n == IF s.life[c] = "in" THEN 1 ELSE 0
           v == Mark(c, s.slotted)
<1>5. /\ f \in Nat /\ r \in Int /\ r <= 0
      /\ n \in Nat /\ v \in Nat
  BY DEF Lv!State, Mark
<1>6. r = n + v + f + (i + j + k)
  BY DEF Counted, Refers, Lists
<1> HIDE DEF i, j, k, r, f, n, v
<1>7. n = 0 /\ v = 0 /\ f = 0 /\ r = 0 /\ i = 0 /\ j = 0 /\ k = 0
  BY <1>2, <1>3, <1>4, <1>5, <1>6
<1>8. s.life[c] # "in" /\ c \notin s.slotted
  BY <1>7 DEF n, v, Mark
<1>9. QED
  BY <1>2, <1>3, <1>4, <1>7, <1>8 DEF r, f

LEMMA AbsentIsNowhere ==
  ASSUME Cast, NEW s, Core(s), NEW c \in Lv!Creature, s.life[c] = "absent"
  PROVE  /\ c \notin s.slotted /\ c \notin s.checked /\ s.free[c] = 0 /\ s.refs[c] = 0
         /\ s.master[c] = None
         /\ \A d \in Lv!Creature : c \notin s.summons[d]
         /\ \A m \in Monsters : c \notin s.targets[m] /\ c \notin s.friends[m]
<1>1. s.refs[c] = 0 /\ s.refs[c] <= 0
  BY DEF Core, Bare
<1>2. s \in Lv!State /\ Counted(s)
  BY DEF Core
<1>3. /\ c \notin s.slotted /\ s.free[c] = 0
      /\ \A d \in Lv!Creature : c \notin s.summons[d]
      /\ \A m \in Monsters : c \notin s.targets[m] /\ c \notin s.friends[m]
  BY <1>1, <1>2, Unreferred
<1>4. c \notin s.checked
  BY <1>3 DEF Core, Present
<1>5. s.master[c] = None
  BY <1>2, <1>3 DEF Core, Mastered, Lv!State
<1>6. QED
  BY <1>1, <1>3, <1>4, <1>5

-----------------------------------------------------------------------------
(* Lists and vectors                                                       *)

\* t is s but for the lists of m, what they refer to, and whether m is idle and in range.
Relists(s, t, m, A, B) ==
  /\ t \in Lv!State /\ Frame(s, t)
  /\ t.attacked = s.attacked /\ t.followed = s.followed
  /\ t.checked = s.checked /\ t.slotted = s.slotted
  /\ t.targets = [s.targets EXCEPT ![m] = A] /\ t.friends = [s.friends EXCEPT ![m] = B]
  /\ \A c \in Lv!Creature :
       t.refs[c] = s.refs[c] + Mark(c, A) - Mark(c, s.targets[m])
                             + Mark(c, B) - Mark(c, s.friends[m])

LEMMA RelistsCounted ==
  ASSUME Cast, NEW s, Core(s), NEW m \in Monsters, NEW A, NEW B, NEW t, Relists(s, t, m, A, B)
  PROVE  Counted(t)
<1> SUFFICES ASSUME NEW c \in Lv!Creature PROVE t.refs[c] = Refers(t, c)
  BY DEF Counted
<1> DEFINE i == Cardinality(Listing(s.summons, Lv!Creature, c))
           j == Cardinality(Listing(s.targets, Monsters, c))
           k == Cardinality(Listing(s.friends, Monsters, c))
           u == Cardinality(Listing(t.targets, Monsters, c))
           v == Cardinality(Listing(t.friends, Monsters, c))
           n == (IF s.life[c] = "in" THEN 1 ELSE 0) + Mark(c, s.slotted) + s.free[c]
           a == Mark(c, A)
           b == Mark(c, B)
           x == Mark(c, s.targets[m])
           y == Mark(c, s.friends[m])
<1>1. IsFiniteSet(Lv!Creature) /\ IsFiniteSet(Monsters)
  BY FS_Subset DEF Cast
<1>2. s.targets \in [Monsters -> SUBSET Lv!Creature] /\ s.friends \in [Monsters -> SUBSET Lv!Creature]
  BY DEF Core, Lv!State
<1>3. t.targets = [s.targets EXCEPT ![m] = A] /\ t.friends = [s.friends EXCEPT ![m] = B]
  BY DEF Relists
<1>4. j \in Nat /\ u \in Nat /\ u = j + a - x
  <2> DEFINE F == s.targets
             H == t.targets
  <2>1. H[m] = A /\ \A d \in Monsters \ {m} : H[d] = F[d]
    BY <1>2, <1>3
  <2> HIDE DEF F, H
  <2>2. /\ Cardinality(Listing(H, Monsters, c)) \in Nat
        /\ Cardinality(Listing(F, Monsters, c)) \in Nat
        /\ Cardinality(Listing(H, Monsters, c)) =
             Cardinality(Listing(F, Monsters, c)) + Mark(c, A) - Mark(c, F[m])
    BY <1>1, <2>1, Relisted
  <2>3. QED
    BY <2>2 DEF F, H
<1>5. k \in Nat /\ v \in Nat /\ v = k + b - y
  <2> DEFINE F == s.friends
             H == t.friends
  <2>1. H[m] = B /\ \A d \in Monsters \ {m} : H[d] = F[d]
    BY <1>2, <1>3
  <2> HIDE DEF F, H
  <2>2. /\ Cardinality(Listing(H, Monsters, c)) \in Nat
        /\ Cardinality(Listing(F, Monsters, c)) \in Nat
        /\ Cardinality(Listing(H, Monsters, c)) =
             Cardinality(Listing(F, Monsters, c)) + Mark(c, B) - Mark(c, F[m])
    BY <1>1, <2>1, Relisted
  <2>3. QED
    BY <2>2 DEF F, H
<1>6. a \in Nat /\ b \in Nat /\ x \in Nat /\ y \in Nat
  BY DEF Mark
<1>7. n \in Nat
  <2>1. s.free[c] \in Nat
    BY DEF Core, Lv!State
  <2>2. QED
    BY <2>1 DEF Mark
<1>8. i \in Nat
  BY <1>1, ListingCounts
<1>9. s.refs[c] = n + (i + j + k)
  BY DEF Core, Counted, Refers, Lists
<1>10. t.refs[c] = s.refs[c] + a - x + b - y
  BY DEF Relists
<1>11. Refers(t, c) = n + (i + u + v)
  BY DEF Refers, Lists, Relists, Frame
<1> HIDE DEF i, j, k, u, v, n, a, b, x, y
<1>12. QED
  BY <1>4, <1>5, <1>6, <1>7, <1>8, <1>9, <1>10, <1>11

\* Nobody who is not there comes into a list, and nobody into one of who is not in the game.
Fits(s, m, A, B) ==
  /\ \A c \in (A \ s.targets[m]) \cup (B \ s.friends[m]) : s.life[c] # "absent"
  /\ s.life[m] # "in" => A \subseteq s.targets[m] /\ B \subseteq s.friends[m]

LEMMA RelistsStill ==
  ASSUME Cast, NEW s, Core(s), NEW m \in Monsters, s.life[m] # "absent",
         NEW A, NEW B, NEW t, Relists(s, t, m, A, B), Fits(s, m, A, B)
  PROVE  Still(s, t)
<1>1. Counted(t)
  BY RelistsCounted
<1>2. Bare(t)
  <2>1. t.life = s.life /\ t.dead = s.dead /\ t.summons = s.summons
    BY DEF Relists, Frame
  <2>2. t.attacked = s.attacked /\ t.followed = s.followed
    BY DEF Relists
  <2>3. ASSUME NEW c \in Lv!Creature, s.life[c] = "absent" PROVE t.refs[c] = 0
    <3>1. s.refs[c] = 0 /\ c \notin s.targets[m] /\ c \notin s.friends[m]
      BY <2>3, AbsentIsNowhere
    <3>2. c \notin A /\ c \notin B
      BY <2>3, <3>1 DEF Fits
    <3>3. Mark(c, A) = 0 /\ Mark(c, s.targets[m]) = 0 /\ Mark(c, B) = 0 /\ Mark(c, s.friends[m]) = 0
      BY <3>1, <3>2 DEF Mark
    <3>4. t.refs[c] = s.refs[c] + Mark(c, A) - Mark(c, s.targets[m])
                                + Mark(c, B) - Mark(c, s.friends[m])
      BY DEF Relists
    <3>5. QED
      BY <3>1, <3>3, <3>4
  <2>4. ASSUME NEW x \in Monsters, s.life[x] = "absent"
        PROVE  t.targets[x] = {} /\ t.friends[x] = {} /\ t.followed[x] = None
    <3>1. x # m
      BY <2>4
    <3>2. t.targets[x] = s.targets[x] /\ t.friends[x] = s.friends[x]
      BY <3>1 DEF Relists, Core, Lv!State
    <3>3. QED
      BY <2>2, <2>4, <3>2 DEF Core, Bare
  <2>5. QED
    BY <2>1, <2>2, <2>3, <2>4 DEF Core, Bare
<1>3. Mastered(t)
  BY DEF Core, Mastered, Relists, Frame
<1>4. Present(t)
  BY DEF Core, Present, Relists, Frame, Lv!Near
<1>5. Quiet(s, t)
  <2>1. Shrinks(s, t, Gone(s))
    BY DEF Shrinks, Fits, Gone, Relists, Core, Lv!State
  <2>2. QED
    BY <2>1 DEF Quiet, Relists, Watched
<1>6. QED
  BY <1>1, <1>2, <1>3, <1>4, <1>5 DEF Core, Still, Relists

\* t is s but for its references.
Recount(s, t) ==
  /\ t \in Lv!State /\ Frame(s, t)
  /\ t.attacked = s.attacked /\ t.followed = s.followed
  /\ t.checked = s.checked /\ t.slotted = s.slotted
  /\ t.targets = s.targets /\ t.friends = s.friends
  /\ t.idle = s.idle /\ t.inRange = s.inRange

LEMMA UnRefAllShape ==
  ASSUME NEW s \in Lv!State, NEW C, NEW t, t = Lv!UnRefAll(s, C)
  PROVE  /\ Recount(s, t)
         /\ \A c \in Lv!Creature : t.refs[c] = s.refs[c] - Mark(c, C)
<1>1. t.refs = [c \in Lv!Creature |-> IF c \in C THEN s.refs[c] - 1 ELSE s.refs[c]]
  BY DEF Lv!UnRefAll, Lv!State
<1>2. t.refs \in [Lv!Creature -> Int]
  BY <1>1 DEF Lv!State
<1>3. t = [s EXCEPT !.refs = t.refs]
  BY <1>1 DEF Lv!UnRefAll
<1>4. Recount(s, t)
  BY <1>2, <1>3 DEF Lv!State, Recount, Frame
<1>5. ASSUME NEW c \in Lv!Creature PROVE t.refs[c] = s.refs[c] - Mark(c, C)
  BY <1>1 DEF Mark, Lv!State
<1>6. QED
  BY <1>4, <1>5

LEMMA RefShape ==
  ASSUME NEW s \in Lv!State, NEW c \in Lv!Creature, NEW t, t = Lv!Ref(s, c)
  PROVE  /\ Recount(s, t) /\ t.refs[c] = s.refs[c] + 1
         /\ \A x \in Lv!Creature \ {c} : t.refs[x] = s.refs[x]
<1> DEFINE r == [s.refs EXCEPT ![c] = @ + 1]
<1>1. s.refs \in [Lv!Creature -> Int]
  BY DEF Lv!State
<1>2. r \in [Lv!Creature -> Int] /\ r[c] = s.refs[c] + 1
      /\ \A x \in Lv!Creature \ {c} : r[x] = s.refs[x]
  BY <1>1
<1>3. t = [s EXCEPT !.refs = r]
  BY DEF Lv!Ref
<1> HIDE DEF r
<1>4. Recount(s, t) /\ t.refs = r
  BY <1>2, <1>3, ZenonT(60) DEF Lv!State, Recount, Frame
<1>5. QED
  BY <1>2, <1>4

LEMMA UnRefShape ==
  ASSUME NEW s \in Lv!State, NEW c \in Lv!Creature, NEW t, t = Lv!UnRef(s, c)
  PROVE  /\ Recount(s, t) /\ t.refs[c] = s.refs[c] - 1
         /\ \A x \in Lv!Creature \ {c} : t.refs[x] = s.refs[x]
<1> DEFINE r == [s.refs EXCEPT ![c] = @ - 1]
<1>1. s.refs \in [Lv!Creature -> Int]
  BY DEF Lv!State
<1>2. r \in [Lv!Creature -> Int] /\ r[c] = s.refs[c] - 1
      /\ \A x \in Lv!Creature \ {c} : r[x] = s.refs[x]
  BY <1>1
<1>3. t = [s EXCEPT !.refs = r]
  BY DEF Lv!UnRef
<1> HIDE DEF r
<1>4. Recount(s, t) /\ t.refs = r
  BY <1>2, <1>3, ZenonT(60) DEF Lv!State, Recount, Frame
<1>5. QED
  BY <1>2, <1>4

LEMMA Recounts ==
  ASSUME NEW s, NEW t, NEW u, Recount(s, t), Recount(t, u) PROVE Recount(s, u)
BY DEF Recount, Frame

\* Monster::clearTargetList() and clearFriendList() give back what they list.
LEMMA ClearListsStill ==
  ASSUME Cast, NEW s, Core(s), NEW m \in Monsters, s.life[m] # "absent"
  PROVE  Still(s, Lv!ClearLists(s, m))
<1> DEFINE t == Lv!ClearLists(s, m)
           u == Lv!UnRefAll(s, s.targets[m])
           v == Lv!UnRefAll(u, s.friends[m])
<1>1. s \in Lv!State
  BY DEF Core
<1>2. /\ Recount(s, u)
      /\ \A c \in Lv!Creature : u.refs[c] = s.refs[c] - Mark(c, s.targets[m])
  BY <1>1, UnRefAllShape
<1>3. /\ Recount(u, v)
      /\ \A c \in Lv!Creature : v.refs[c] = u.refs[c] - Mark(c, s.friends[m])
  BY <1>2, UnRefAllShape DEF Recount
<1>4. t = [v EXCEPT !.targets[m] = {}, !.friends[m] = {}]
  BY DEF Lv!ClearLists
<1> HIDE DEF t, u, v
<1>5. Recount(s, v)
  BY <1>2, <1>3, Recounts
<1>6. v \in Lv!State
  BY <1>5 DEF Recount
<1>7. /\ t \in Lv!State /\ Frame(v, t) /\ t.refs = v.refs
      /\ t.attacked = v.attacked /\ t.followed = v.followed
      /\ t.checked = v.checked /\ t.slotted = v.slotted
      /\ t.targets = [v.targets EXCEPT ![m] = {}] /\ t.friends = [v.friends EXCEPT ![m] = {}]
  BY <1>4, <1>6 DEF Lv!State, Frame
<1>8. ASSUME NEW c \in Lv!Creature
      PROVE  t.refs[c] = s.refs[c] + Mark(c, {}) - Mark(c, s.targets[m])
                                   + Mark(c, {}) - Mark(c, s.friends[m])
  <2>1. t.refs[c] = v.refs[c] /\ s.refs[c] \in Int
    BY <1>1, <1>7 DEF Lv!State
  <2>2. Mark(c, {}) = 0 /\ Mark(c, s.targets[m]) \in Int /\ Mark(c, s.friends[m]) \in Int
    BY DEF Mark
  <2>3. QED
    BY <1>2, <1>3, <2>1, <2>2
<1>9. Relists(s, t, m, {}, {})
  BY <1>5, <1>7, <1>8 DEF Relists, Recount, Frame
<1>10. Still(s, t)
  <2>1. Fits(s, m, {}, {})
    BY DEF Fits
  <2>2. QED
    BY <1>9, <2>1, RelistsStill
<1>11. QED
  BY <1>10 DEF t

\* t is s but for who is idle and who is in range.
Marks(s, t) ==
  /\ t \in Lv!State /\ Frame(s, t)
  /\ t.attacked = s.attacked /\ t.followed = s.followed
  /\ t.checked = s.checked /\ t.slotted = s.slotted
  /\ t.targets = s.targets /\ t.friends = s.friends /\ t.refs = s.refs

LEMMA MarksStill ==
  ASSUME NEW s, Core(s), NEW t, Marks(s, t) PROVE Still(s, t)
<1>1. \A c : Refers(t, c) = Refers(s, c)
  BY DEF Refers, Lists, Marks, Frame
<1>2. Counted(t)
  BY <1>1 DEF Core, Counted, Marks
<1>3. Bare(t)
  BY DEF Core, Bare, Marks, Frame
<1>4. Mastered(t)
  BY DEF Core, Mastered, Marks, Frame
<1>5. Present(t)
  BY DEF Core, Present, Marks, Frame, Lv!Near
<1>6. Quiet(s, t)
  BY DEF Quiet, Shrinks, Marks, Watched
<1>7. QED
  BY <1>2, <1>3, <1>4, <1>5, <1>6 DEF Core, Still, Marks

\* Game::addCreatureCheck() of a creature in the game: the vector refers to it once.
LEMMA AddCheckStill ==
  ASSUME Cast, NEW s, Core(s), NEW c \in Lv!Creature, s.life[c] = "in"
  PROVE  Still(s, Lv!AddCheck(s, c)) /\ c \in Lv!AddCheck(s, c).checked
<1> DEFINE t == Lv!AddCheck(s, c)
           n == IF c \in s.slotted THEN 0 ELSE 1
<1>1. s \in Lv!State
  BY DEF Core
<1>2. /\ t \in Lv!State /\ Frame(s, t)
      /\ t.attacked = s.attacked /\ t.followed = s.followed
      /\ t.targets = s.targets /\ t.friends = s.friends
      /\ t.checked = s.checked \cup {c} /\ t.slotted = s.slotted \cup {c}
      /\ t.refs[c] = s.refs[c] + n
      /\ \A x \in Lv!Creature \ {c} : t.refs[x] = s.refs[x]
  <2>1. CASE c \in s.slotted
    <3>1. t = [s EXCEPT !.checked = @ \cup {c}] /\ s.slotted = s.slotted \cup {c}
      BY <2>1 DEF Lv!AddCheck
    <3>2. s.refs[c] + n = s.refs[c]
      BY <1>1, <2>1 DEF Lv!State
    <3> HIDE DEF t, n
    <3>3. /\ t \in Lv!State /\ Frame(s, t)
          /\ t.attacked = s.attacked /\ t.followed = s.followed
          /\ t.targets = s.targets /\ t.friends = s.friends
          /\ t.checked = s.checked \cup {c} /\ t.slotted = s.slotted /\ t.refs = s.refs
      BY <1>1, <3>1 DEF Lv!State, Frame
    <3>4. QED
      BY <3>1, <3>2, <3>3
  <2>2. CASE c \notin s.slotted
    <3> DEFINE u == [s EXCEPT !.checked = @ \cup {c}, !.slotted = @ \cup {c}]
    <3>1. t = Lv!Ref(u, c)
      BY <2>2 DEF Lv!AddCheck
    <3>2. n = 1
      BY <2>2
    <3>3. /\ u \in Lv!State /\ Frame(s, u)
          /\ u.attacked = s.attacked /\ u.followed = s.followed
          /\ u.targets = s.targets /\ u.friends = s.friends /\ u.refs = s.refs
          /\ u.checked = s.checked \cup {c} /\ u.slotted = s.slotted \cup {c}
      BY <1>1 DEF Lv!State, Frame
    <3> HIDE DEF t, n, u
    <3>4. /\ Recount(u, t) /\ t.refs[c] = u.refs[c] + 1
          /\ \A x \in Lv!Creature \ {c} : t.refs[x] = u.refs[x]
      BY <3>1, <3>3, RefShape
    <3>5. QED
      BY <3>2, <3>3, <3>4 DEF Recount, Frame
  <2>3. QED
    BY <2>1, <2>2
<1> HIDE DEF t
<1>3. Counted(t)
  <2> SUFFICES ASSUME NEW x \in Lv!Creature PROVE t.refs[x] = Refers(t, x)
    BY DEF Counted
  <2>1. s.refs[x] = Refers(s, x) /\ s.refs[x] \in Int
    BY <1>1 DEF Core, Counted, Lv!State
  <2>2. Lists(t, x) = Lists(s, x) /\ t.free[x] = s.free[x] /\ t.life[x] = s.life[x]
    BY <1>2 DEF Lists, Frame
  <2> DEFINE l == Lists(s, x)
             f == s.free[x]
             i == IF s.life[x] = "in" THEN 1 ELSE 0
             k == Mark(x, s.slotted)
             m == Mark(x, t.slotted)
  <2>3. Refers(s, x) = i + k + f + l /\ Refers(t, x) = i + m + f + l
    BY <2>2 DEF Refers
  <2>4. m = k + (IF x = c THEN n ELSE 0) /\ k \in Int /\ i \in Int /\ n \in Int
    BY <1>2 DEF Mark
  <2>5. f \in Int
    BY <1>1 DEF Lv!State
  <2>6. l \in Int
    <3>1. IsFiniteSet(Lv!Creature) /\ IsFiniteSet(Monsters)
      BY FS_Subset DEF Cast
    <3>2. QED
      BY <3>1, ListingCounts DEF Lists
  <2>7. t.refs[x] = s.refs[x] + (IF x = c THEN n ELSE 0)
    BY <1>2, <2>1
  <2> HIDE DEF l, f, i, k, m, n
  <2>8. QED
    BY <2>1, <2>3, <2>4, <2>5, <2>6, <2>7
<1>4. Bare(t)
  <2>1. \A x \in Lv!Creature : s.life[x] = "absent" => t.refs[x] = s.refs[x]
    BY <1>2
  <2>2. QED
    BY <1>2, <2>1 DEF Core, Bare, Frame
<1>5. Mastered(t)
  BY <1>2 DEF Core, Mastered, Frame
<1>6. Present(t)
  BY <1>2 DEF Core, Present, Frame, Lv!Near
<1>7. Quiet(s, t)
  BY <1>2 DEF Quiet, Shrinks, Watched
<1>8. Still(s, t) /\ c \in t.checked
  BY <1>2, <1>3, <1>4, <1>5, <1>6, <1>7 DEF Core, Still
<1>9. QED
  BY <1>8 DEF t

\* Game::removeCreatureCheck() of a living monster.
LEMMA RemoveCheckStill ==
  ASSUME Cast, NEW s, Core(s), NEW m \in Monsters, m \notin s.dead
  PROVE  Still(s, Lv!RemoveCheck(s, m))
<1> DEFINE t == Lv!RemoveCheck(s, m)
<1>1. s \in Lv!State
  BY DEF Core
<1>2. /\ t \in Lv!State /\ Frame(s, t)
      /\ t.attacked = s.attacked /\ t.followed = s.followed
      /\ t.targets = s.targets /\ t.friends = s.friends
      /\ t.checked = s.checked \ {m} /\ t.slotted = s.slotted /\ t.refs = s.refs
  <2>1. t = [s EXCEPT !.checked = @ \ {m}]
    <3>1. m \notin s.slotted => s.checked \ {m} = s.checked
      BY DEF Core, Present
    <3>2. s = [s EXCEPT !.checked = s.checked]
      BY <1>1 DEF Lv!State
    <3>3. QED
      BY <3>1, <3>2 DEF Lv!RemoveCheck
  <2> HIDE DEF t
  <2>2. QED
    BY <1>1, <2>1 DEF Lv!State, Frame
<1> HIDE DEF t
<1>3. \A c : Refers(t, c) = Refers(s, c)
  BY <1>2 DEF Refers, Lists, Frame
<1>4. Counted(t)
  BY <1>2, <1>3 DEF Core, Counted
<1>5. Bare(t)
  BY <1>2 DEF Core, Bare, Frame
<1>6. Mastered(t)
  BY <1>2 DEF Core, Mastered, Frame
<1>7. Present(t)
  BY <1>2 DEF Core, Present, Frame, Lv!Near
<1>8. Quiet(s, t)
  <2>1. m \notin Players
    BY DEF Cast
  <2>2. QED
    BY <1>2, <2>1 DEF Quiet, Shrinks, Watched
<1>9. Still(s, t)
  BY <1>2, <1>4, <1>5, <1>6, <1>7, <1>8 DEF Core, Still
<1>10. QED
  BY <1>9 DEF t

\* Monster::setIdle()
LEMMA SetIdleStill ==
  ASSUME Cast, NEW s, Core(s), NEW m \in Monsters, s.life[m] # "absent", NEW b
  PROVE  Still(s, Lv!SetIdle(s, m, b))
<1> DEFINE a == [s EXCEPT !.idle = @ \cup {m}]
           w == [s EXCEPT !.idle = @ \ {m}]
           e == Lv!ClearLists(a, m)
           t == Lv!SetIdle(s, m, b)
<1>1. s \in Lv!State /\ m \in Lv!Creature
  BY DEF Core, Cast
<1>2. CASE s.life[m] = "out" \/ m \in s.dead
  <2>1. t = s
    BY <1>2 DEF Lv!SetIdle
  <2>2. QED
    BY <2>1, Stays1
<1>3. CASE ~(s.life[m] = "out" \/ m \in s.dead)
  <2>1. s.life[m] = "in" /\ m \notin s.dead
    BY <1>1, <1>3 DEF Lv!State
  <2>2. CASE b
    <3>1. t = Lv!RemoveCheck(e, m)
      BY <1>3, <2>2 DEF Lv!SetIdle
    <3>2. Marks(s, a)
      BY <1>1 DEF Marks, Frame, Lv!State
    <3> HIDE DEF a
    <3>3. Still(s, a)
      BY <3>2, MarksStill
    <3>4. Core(a) /\ a.life[m] # "absent"
      BY <3>2, <3>3 DEF Still, Marks, Frame
    <3>5. Still(a, e)
      BY <3>4, ClearListsStill
    <3> HIDE DEF e
    <3>6. Still(s, e)
      BY <3>3, <3>5, StillStill
    <3>7. Core(e) /\ m \notin e.dead
      BY <2>1, <3>6 DEF Still, Quiet, Frame
    <3>8. Still(e, Lv!RemoveCheck(e, m))
      BY <3>7, RemoveCheckStill
    <3> HIDE DEF t
    <3>9. Still(s, t)
      BY <3>1, <3>6, <3>8, StillStill
    <3>10. QED
      BY <3>9 DEF t
  <2>3. CASE ~b
    <3>1. t = Lv!AddCheck(w, m)
      BY <1>3, <2>3 DEF Lv!SetIdle
    <3>2. Marks(s, w)
      BY <1>1 DEF Marks, Frame, Lv!State
    <3> HIDE DEF w
    <3>3. Still(s, w)
      BY <3>2, MarksStill
    <3>4. Core(w) /\ w.life[m] = "in"
      BY <2>1, <3>2, <3>3 DEF Still, Marks, Frame
    <3>5. Still(w, Lv!AddCheck(w, m))
      BY <1>1, <3>4, AddCheckStill
    <3> HIDE DEF t
    <3>6. Still(s, t)
      BY <3>1, <3>3, <3>5, StillStill
    <3>7. QED
      BY <3>6 DEF t
  <2>4. QED
    BY <2>2, <2>3
<1>4. QED
  BY <1>2, <1>3

\* Waking up, a living monster comes into a vector.
LEMMA WakesUp ==
  ASSUME Cast, NEW s, Core(s), NEW m \in Monsters, s.life[m] = "in", m \notin s.dead
  PROVE  m \in Lv!SetIdle(s, m, FALSE).checked
<1> DEFINE w == [s EXCEPT !.idle = @ \ {m}]
<1>1. s \in Lv!State /\ m \in Lv!Creature
  BY DEF Core, Cast
<1>2. Lv!SetIdle(s, m, FALSE) = Lv!AddCheck(w, m)
  BY DEF Lv!SetIdle
<1>3. Marks(s, w)
  BY <1>1 DEF Marks, Frame, Lv!State
<1> HIDE DEF w
<1>4. Core(w) /\ w.life[m] = "in"
  BY <1>3, MarksStill DEF Still, Marks, Frame
<1>5. m \in Lv!AddCheck(w, m).checked
  BY <1>1, <1>4, AddCheckStill
<1>6. QED
  BY <1>2, <1>5

LEMMA UpdateIdleStill ==
  ASSUME Cast, NEW s, Core(s), NEW m \in Monsters, s.life[m] # "absent"
  PROVE  Still(s, Lv!UpdateIdle(s, m))
<1> DEFINE leader == s.master[m]
           b == IF leader # None THEN m \notin s.inRange \/ leader \in s.idle
                ELSE s.targets[m] = {}
<1>1. Lv!UpdateIdle(s, m) = Lv!SetIdle(s, m, b)
  BY DEF Lv!UpdateIdle
<1> HIDE DEF b
<1>2. QED
  BY <1>1, SetIdleStill

-----------------------------------------------------------------------------
(* Targets and friends                                                     *)

LEMMA BefriendStill ==
  ASSUME Cast, NEW s, Core(s), NEW m \in Monsters, s.life[m] = "in",
         NEW c \in Lv!Creature, s.life[c] # "absent", c \notin s.friends[m]
  PROVE  Still(s, Lv!Ref([s EXCEPT !.friends[m] = @ \cup {c}], c))
<1> DEFINE A == s.friends[m] \cup {c}
           L == s.friends[m]
           u == [s EXCEPT !.friends[m] = @ \cup {c}]
           t == Lv!Ref(u, c)
<1>1. s \in Lv!State /\ A \in SUBSET Lv!Creature
  BY DEF Core, Lv!State
<1>2. u = [s EXCEPT !.friends = [s.friends EXCEPT ![m] = A]]
  BY <1>1 DEF Lv!State
<1>3. \A x : Mark(x, A) = Mark(x, L) + (IF x = c THEN 1 ELSE 0)
  BY DEF Mark
<1> HIDE DEF A, u
<1>4. /\ u \in Lv!State /\ Frame(s, u) /\ u.refs = s.refs
      /\ u.attacked = s.attacked /\ u.followed = s.followed
      /\ u.checked = s.checked /\ u.slotted = s.slotted
      /\ u.friends = [s.friends EXCEPT ![m] = A] /\ u.targets = s.targets
      /\ s.targets = [s.targets EXCEPT ![m] = s.targets[m]]
  BY <1>1, <1>2 DEF Lv!State, Frame
<1>5. /\ Recount(u, t) /\ t.refs[c] = u.refs[c] + 1
      /\ \A x \in Lv!Creature \ {c} : t.refs[x] = u.refs[x]
  BY <1>4, RefShape
<1> HIDE DEF t
<1>6. ASSUME NEW x \in Lv!Creature
      PROVE  t.refs[x] = s.refs[x] + Mark(x, s.targets[m]) - Mark(x, s.targets[m])
                                   + Mark(x, A) - Mark(x, s.friends[m])
  <2> DEFINE r == s.refs[x]
             a == Mark(x, A)
             l == Mark(x, L)
             o == Mark(x, s.targets[m])
  <2>1. r \in Int /\ a \in Int /\ l \in Int /\ o \in Int
    BY <1>1 DEF Lv!State, Mark
  <2>2. t.refs[x] = r + (IF x = c THEN 1 ELSE 0) /\ a = l + (IF x = c THEN 1 ELSE 0)
    BY <1>3, <1>4, <1>5, <2>1
  <2> HIDE DEF r, a, l, o
  <2>3. t.refs[x] = r + o - o + a - l
    BY <2>1, <2>2
  <2>4. QED
    BY <2>3 DEF r, a, l, o, L
<1>7. Relists(s, t, m, s.targets[m], A)
  BY <1>4, <1>5, <1>6 DEF Relists, Recount, Frame
<1>8. s.life[m] # "absent" /\ Fits(s, m, s.targets[m], A)
  BY DEF A, Fits
<1>9. Still(s, t)
  BY <1>7, <1>8, RelistsStill
<1>10. QED
  BY <1>9 DEF t, u

LEMMA TargetStill ==
  ASSUME Cast, NEW s, Core(s), NEW m \in Monsters, s.life[m] = "in",
         NEW c \in Lv!Creature, s.life[c] # "absent", c \notin s.targets[m]
  PROVE  Still(s, Lv!Ref([s EXCEPT !.targets[m] = @ \cup {c}], c))
<1> DEFINE A == s.targets[m] \cup {c}
           L == s.targets[m]
           u == [s EXCEPT !.targets[m] = @ \cup {c}]
           t == Lv!Ref(u, c)
<1>1. s \in Lv!State /\ A \in SUBSET Lv!Creature
  BY DEF Core, Lv!State
<1>2. u = [s EXCEPT !.targets = [s.targets EXCEPT ![m] = A]]
  BY <1>1 DEF Lv!State
<1>3. \A x : Mark(x, A) = Mark(x, L) + (IF x = c THEN 1 ELSE 0)
  BY DEF Mark
<1> HIDE DEF A, u
<1>4. /\ u \in Lv!State /\ Frame(s, u) /\ u.refs = s.refs
      /\ u.attacked = s.attacked /\ u.followed = s.followed
      /\ u.checked = s.checked /\ u.slotted = s.slotted
      /\ u.targets = [s.targets EXCEPT ![m] = A] /\ u.friends = s.friends
      /\ s.friends = [s.friends EXCEPT ![m] = s.friends[m]]
  BY <1>1, <1>2 DEF Lv!State, Frame
<1>5. /\ Recount(u, t) /\ t.refs[c] = u.refs[c] + 1
      /\ \A x \in Lv!Creature \ {c} : t.refs[x] = u.refs[x]
  BY <1>4, RefShape
<1> HIDE DEF t
<1>6. ASSUME NEW x \in Lv!Creature
      PROVE  t.refs[x] = s.refs[x] + Mark(x, A) - Mark(x, s.targets[m])
                                   + Mark(x, s.friends[m]) - Mark(x, s.friends[m])
  <2> DEFINE r == s.refs[x]
             a == Mark(x, A)
             l == Mark(x, L)
             o == Mark(x, s.friends[m])
  <2>1. r \in Int /\ a \in Int /\ l \in Int /\ o \in Int
    BY <1>1 DEF Lv!State, Mark
  <2>2. t.refs[x] = r + (IF x = c THEN 1 ELSE 0) /\ a = l + (IF x = c THEN 1 ELSE 0)
    BY <1>3, <1>4, <1>5, <2>1
  <2> HIDE DEF r, a, l, o
  <2>3. t.refs[x] = r + a - l + o - o
    BY <2>1, <2>2
  <2>4. QED
    BY <2>3 DEF r, a, l, o, L
<1>7. Relists(s, t, m, A, s.friends[m])
  BY <1>4, <1>5, <1>6 DEF Relists, Recount, Frame
<1>8. s.life[m] # "absent" /\ Fits(s, m, A, s.friends[m])
  BY DEF A, Fits
<1>9. Still(s, t)
  BY <1>7, <1>8, RelistsStill
<1>10. QED
  BY <1>9 DEF t, u

LEMMA UnfriendStill ==
  ASSUME Cast, NEW s, Core(s), NEW m \in Monsters, s.life[m] # "absent",
         NEW c \in Lv!Creature, c \in s.friends[m]
  PROVE  Still(s, Lv!UnRef([s EXCEPT !.friends[m] = @ \ {c}], c))
<1> DEFINE A == s.friends[m] \ {c}
           L == s.friends[m]
           u == [s EXCEPT !.friends[m] = @ \ {c}]
           t == Lv!UnRef(u, c)
<1>1. s \in Lv!State /\ A \in SUBSET Lv!Creature
  BY DEF Core, Lv!State
<1>2. u = [s EXCEPT !.friends = [s.friends EXCEPT ![m] = A]]
  BY <1>1 DEF Lv!State
<1>3. \A x : Mark(x, A) = Mark(x, L) - (IF x = c THEN 1 ELSE 0)
  BY DEF Mark
<1> HIDE DEF A, u
<1>4. /\ u \in Lv!State /\ Frame(s, u) /\ u.refs = s.refs
      /\ u.attacked = s.attacked /\ u.followed = s.followed
      /\ u.checked = s.checked /\ u.slotted = s.slotted
      /\ u.friends = [s.friends EXCEPT ![m] = A] /\ u.targets = s.targets
      /\ s.targets = [s.targets EXCEPT ![m] = s.targets[m]]
  BY <1>1, <1>2 DEF Lv!State, Frame
<1>5. /\ Recount(u, t) /\ t.refs[c] = u.refs[c] - 1
      /\ \A x \in Lv!Creature \ {c} : t.refs[x] = u.refs[x]
  BY <1>4, UnRefShape
<1> HIDE DEF t
<1>6. ASSUME NEW x \in Lv!Creature
      PROVE  t.refs[x] = s.refs[x] + Mark(x, s.targets[m]) - Mark(x, s.targets[m])
                                   + Mark(x, A) - Mark(x, s.friends[m])
  <2> DEFINE r == s.refs[x]
             a == Mark(x, A)
             l == Mark(x, L)
             o == Mark(x, s.targets[m])
  <2>1. r \in Int /\ a \in Int /\ l \in Int /\ o \in Int
    BY <1>1 DEF Lv!State, Mark
  <2>2. t.refs[x] = r - (IF x = c THEN 1 ELSE 0) /\ a = l - (IF x = c THEN 1 ELSE 0)
    BY <1>3, <1>4, <1>5, <2>1
  <2> HIDE DEF r, a, l, o
  <2>3. t.refs[x] = r + o - o + a - l
    BY <2>1, <2>2
  <2>4. QED
    BY <2>3 DEF r, a, l, o, L
<1>7. Relists(s, t, m, s.targets[m], A)
  BY <1>4, <1>5, <1>6 DEF Relists, Recount, Frame
<1>8. Fits(s, m, s.targets[m], A)
  BY DEF A, Fits
<1>9. Still(s, t)
  BY <1>7, <1>8, RelistsStill
<1>10. QED
  BY <1>9 DEF t, u

LEMMA UntargetStill ==
  ASSUME Cast, NEW s, Core(s), NEW m \in Monsters, s.life[m] # "absent",
         NEW c \in Lv!Creature, c \in s.targets[m]
  PROVE  Still(s, Lv!UnRef([s EXCEPT !.targets[m] = @ \ {c}], c))
<1> DEFINE A == s.targets[m] \ {c}
           L == s.targets[m]
           u == [s EXCEPT !.targets[m] = @ \ {c}]
           t == Lv!UnRef(u, c)
<1>1. s \in Lv!State /\ A \in SUBSET Lv!Creature
  BY DEF Core, Lv!State
<1>2. u = [s EXCEPT !.targets = [s.targets EXCEPT ![m] = A]]
  BY <1>1 DEF Lv!State
<1>3. \A x : Mark(x, A) = Mark(x, L) - (IF x = c THEN 1 ELSE 0)
  BY DEF Mark
<1> HIDE DEF A, u
<1>4. /\ u \in Lv!State /\ Frame(s, u) /\ u.refs = s.refs
      /\ u.attacked = s.attacked /\ u.followed = s.followed
      /\ u.checked = s.checked /\ u.slotted = s.slotted
      /\ u.targets = [s.targets EXCEPT ![m] = A] /\ u.friends = s.friends
      /\ s.friends = [s.friends EXCEPT ![m] = s.friends[m]]
  BY <1>1, <1>2 DEF Lv!State, Frame
<1>5. /\ Recount(u, t) /\ t.refs[c] = u.refs[c] - 1
      /\ \A x \in Lv!Creature \ {c} : t.refs[x] = u.refs[x]
  BY <1>4, UnRefShape
<1> HIDE DEF t
<1>6. ASSUME NEW x \in Lv!Creature
      PROVE  t.refs[x] = s.refs[x] + Mark(x, A) - Mark(x, s.targets[m])
                                   + Mark(x, s.friends[m]) - Mark(x, s.friends[m])
  <2> DEFINE r == s.refs[x]
             a == Mark(x, A)
             l == Mark(x, L)
             o == Mark(x, s.friends[m])
  <2>1. r \in Int /\ a \in Int /\ l \in Int /\ o \in Int
    BY <1>1 DEF Lv!State, Mark
  <2>2. t.refs[x] = r - (IF x = c THEN 1 ELSE 0) /\ a = l - (IF x = c THEN 1 ELSE 0)
    BY <1>3, <1>4, <1>5, <2>1
  <2> HIDE DEF r, a, l, o
  <2>3. t.refs[x] = r + a - l + o - o
    BY <2>1, <2>2
  <2>4. QED
    BY <2>3 DEF r, a, l, o, L
<1>7. Relists(s, t, m, A, s.friends[m])
  BY <1>4, <1>5, <1>6 DEF Relists, Recount, Frame
<1>8. Fits(s, m, A, s.friends[m])
  BY DEF A, Fits
<1>9. Still(s, t)
  BY <1>7, <1>8, RelistsStill
<1>10. QED
  BY <1>9 DEF t, u

\* Monster::onCreatureFound(), of someone in the game.
LEMMA FoundStill ==
  ASSUME Cast, NEW s, Core(s), NEW m \in Monsters, s.life[m] = "in",
         NEW c \in Lv!Creature, s.life[c] = "in"
  PROVE  Still(s, Lv!Found(s, m, c))
<1> DEFINE t == IF Lv!IsFriend(s, m, c) /\ c \notin s.friends[m]
                THEN Lv!Ref([s EXCEPT !.friends[m] = @ \cup {c}], c) ELSE s
           u == IF Lv!IsOpponent(s, m, c) /\ c \notin s.targets[m]
                THEN Lv!Ref([t EXCEPT !.targets[m] = @ \cup {c}], c) ELSE t
<1>1. Lv!Found(s, m, c) = Lv!UpdateIdle(u, m)
  BY DEF Lv!Found
<1>2. Still(s, t) /\ (t.targets[m] = s.targets[m] \/ c \notin t.targets[m])
  <2>1. CASE Lv!IsFriend(s, m, c) /\ c \notin s.friends[m]
    <3> DEFINE v == [s EXCEPT !.friends[m] = @ \cup {c}]
    <3>1. t = Lv!Ref(v, c)
      BY <2>1
    <3>2. Still(s, Lv!Ref(v, c))
      BY <2>1, BefriendStill
    <3>3. v \in Lv!State /\ v.targets = s.targets
      BY ZenonT(60) DEF Core, Lv!State
    <3> HIDE DEF v, t
    <3>4. t.targets = s.targets
      BY <3>1, <3>3, RefShape DEF Recount
    <3>5. QED
      BY <3>1, <3>2, <3>4
  <2>2. CASE ~(Lv!IsFriend(s, m, c) /\ c \notin s.friends[m])
    <3>1. t = s
      BY <2>2
    <3>2. QED
      BY <3>1, Stays1
  <2>3. QED
    BY <2>1, <2>2
<1> HIDE DEF t
<1>3. Core(t) /\ t.life = s.life
  BY <1>2 DEF Still, Quiet, Frame
<1>4. Still(t, u)
  <2>1. CASE Lv!IsOpponent(s, m, c) /\ c \notin s.targets[m]
    <3>1. c \notin t.targets[m] /\ t.life[m] = "in" /\ t.life[c] # "absent"
      BY <1>2, <1>3, <2>1
    <3>2. Still(t, Lv!Ref([t EXCEPT !.targets[m] = @ \cup {c}], c))
      BY <1>3, <3>1, TargetStill
    <3>3. QED
      BY <2>1, <3>2
  <2>2. CASE ~(Lv!IsOpponent(s, m, c) /\ c \notin s.targets[m])
    <3>1. u = t
      BY <2>2
    <3>2. QED
      BY <1>3, <3>1, Stays1
  <2>3. QED
    BY <2>1, <2>2
<1> HIDE DEF u
<1>5. Still(s, u)
  BY <1>2, <1>4, StillStill
<1>6. Core(u) /\ u.life[m] = "in"
  BY <1>5 DEF Still, Quiet, Frame
<1>7. Still(u, Lv!UpdateIdle(u, m))
  BY <1>6, UpdateIdleStill
<1>8. QED
  BY <1>1, <1>5, <1>7, StillStill

\* Monster::updateTargetList(): who is lost is given back, who is around is found.
LEMMA ForgetStill ==
  ASSUME Cast, NEW s, Core(s), NEW m \in Monsters, s.life[m] # "absent", NEW lost
  PROVE  Still(s, [Lv!UnRefAll(Lv!UnRefAll(s, s.friends[m] \cap lost), s.targets[m] \cap lost)
                     EXCEPT !.friends[m] = @ \ lost, !.targets[m] = @ \ lost])
<1> DEFINE F == s.friends[m]
           T == s.targets[m]
           u == Lv!UnRefAll(s, F \cap lost)
           v == Lv!UnRefAll(u, T \cap lost)
           t == [v EXCEPT !.friends[m] = @ \ lost, !.targets[m] = @ \ lost]
           A == T \ lost
           B == F \ lost
<1>1. s \in Lv!State
  BY DEF Core
<1>2. /\ Recount(s, u)
      /\ \A c \in Lv!Creature : u.refs[c] = s.refs[c] - Mark(c, F \cap lost)
  BY <1>1, UnRefAllShape
<1> HIDE DEF u
<1>3. /\ Recount(u, v)
      /\ \A c \in Lv!Creature : v.refs[c] = u.refs[c] - Mark(c, T \cap lost)
  <2>1. u \in Lv!State
    BY <1>2 DEF Recount
  <2>2. QED
    BY <2>1, UnRefAllShape
<1> HIDE DEF v
<1>4. Recount(s, v)
  BY <1>2, <1>3, Recounts
<1>5. v \in Lv!State /\ v.targets[m] = T /\ v.friends[m] = F
  BY <1>4 DEF Recount
<1>6. A \in SUBSET Lv!Creature /\ B \in SUBSET Lv!Creature
  BY <1>1 DEF Lv!State
<1>7. t = [v EXCEPT !.friends[m] = B, !.targets[m] = A]
  BY <1>5
<1>8. \A c : /\ Mark(c, A) = Mark(c, T) - Mark(c, T \cap lost)
             /\ Mark(c, B) = Mark(c, F) - Mark(c, F \cap lost)
             /\ Mark(c, T) \in Int /\ Mark(c, F) \in Int
             /\ Mark(c, T \cap lost) \in Int /\ Mark(c, F \cap lost) \in Int
  BY DEF Mark
<1>9. Fits(s, m, A, B)
  BY DEF Fits
<1> HIDE DEF t, A, B
<1>10. /\ t \in Lv!State /\ Frame(v, t) /\ t.refs = v.refs
       /\ t.attacked = v.attacked /\ t.followed = v.followed
       /\ t.checked = v.checked /\ t.slotted = v.slotted
       /\ t.targets = [v.targets EXCEPT ![m] = A] /\ t.friends = [v.friends EXCEPT ![m] = B]
  BY <1>5, <1>6, <1>7 DEF Lv!State, Frame
<1>11. ASSUME NEW c \in Lv!Creature
       PROVE  t.refs[c] = s.refs[c] + Mark(c, A) - Mark(c, T) + Mark(c, B) - Mark(c, F)
  <2>1. t.refs[c] = v.refs[c] /\ s.refs[c] \in Int
    BY <1>1, <1>10 DEF Lv!State
  <2> DEFINE r == s.refs[c]
             i == Mark(c, T)
             j == Mark(c, F)
             k == Mark(c, T \cap lost)
             l == Mark(c, F \cap lost)
  <2>2. /\ t.refs[c] = r - l - k /\ Mark(c, A) = i - k /\ Mark(c, B) = j - l
        /\ r \in Int /\ i \in Int /\ j \in Int /\ k \in Int /\ l \in Int
    BY <1>2, <1>3, <1>8, <2>1
  <2> HIDE DEF r, i, j, k, l
  <2>3. t.refs[c] = r + Mark(c, A) - i + Mark(c, B) - j
    BY <2>2
  <2>4. QED
    BY <2>3 DEF r, i, j
<1>12. Relists(s, t, m, A, B)
  BY <1>4, <1>10, <1>11 DEF Relists, Recount, Frame
<1>13. Still(s, t)
  BY <1>9, <1>12, RelistsStill
<1>14. QED
  BY <1>13 DEF t, u, v, F, T

LEMMA UpdateTargetsStill ==
  ASSUME Cast, NEW s, Core(s), NEW m \in Monsters, s.life[m] = "in",
         NEW ord \in Seq(Lv!Creature)
  PROVE  Still(s, Lv!UpdateTargets(s, m, ord))
<1> DEFINE lost == {c \in Lv!Creature : c \in s.dead \/ s.life[c] # "in" \/ ~Lv!Near(s, m, c)}
           t == [Lv!UnRefAll(Lv!UnRefAll(s, s.friends[m] \cap lost), s.targets[m] \cap lost)
                   EXCEPT !.friends[m] = @ \ lost, !.targets[m] = @ \ lost]
           M == Lv!Around(t, m) \ {m}
           N == Len(ord)
           S == {u \in Lv!State : Still(s, u)}
           Good == [n \in 0 .. N |-> S]
           Op(u, n) == IF ord[n] \in M THEN Lv!Found(u, m, ord[n]) ELSE u
           H == [p \in S \X (1 .. N) |-> Op(p[1], p[2])]
           Is(T) == T = [n \in 0 .. N |-> IF n = 0 THEN t ELSE
                           IF ord[n] \in M THEN Lv!Found(T[n - 1], m, ord[n]) ELSE T[n - 1]]
           U == CHOOSE T : Is(T)
<1>1. Lv!UpdateTargets(s, m, ord) = U[N]
  BY DEF Lv!UpdateTargets, Lv!InTurn
<1>2. \A u : u \in S <=> Still(s, u)
  BY DEF Still, Core
<1>3. t \in S
  <2> HIDE DEF lost, S
  <2>1. QED
    BY <1>2, ForgetStill
<1>4. N \in Nat /\ \A n \in 1 .. N : n \in 0 .. N /\ n - 1 \in 0 .. N /\ n # 0 /\ ord[n] \in Lv!Creature
  OBVIOUS
<1>5. \A c \in M : s.life[c] = "in"
  <2>1. \A c \in M : t.life[c] = "in"
    BY DEF Lv!Around, Lv!Here
  <2> HIDE DEF t, M
  <2>2. t.life = s.life
    BY <1>2, <1>3 DEF Still, Quiet, Frame
  <2>3. QED
    BY <2>1, <2>2
<1>6. ASSUME NEW n \in 1 .. N, NEW u \in S PROVE Op(u, n) \in S
  <2>1. CASE ord[n] \in M
    <3>1. Core(u) /\ u.life = s.life /\ Still(s, u)
      BY <1>2 DEF Still, Quiet, Frame
    <3> DEFINE c == ord[n]
    <3>2. c \in Lv!Creature /\ u.life[c] = "in" /\ u.life[m] = "in"
      BY <1>4, <1>5, <2>1, <3>1
    <3> HIDE DEF c
    <3>3. Still(u, Lv!Found(u, m, c))
      BY <3>1, <3>2, FoundStill
    <3>4. Still(s, Lv!Found(u, m, c))
      BY <3>1, <3>3, StillStill
    <3>5. QED
      BY <1>2, <2>1, <3>4 DEF c
  <2>2. CASE ord[n] \notin M
    BY <2>2
  <2>3. QED
    BY <2>1, <2>2
<1>7. \A u \in S, n \in 1 .. N : H[<<u, n>>] = Op(u, n)
  OBVIOUS
<1>8. \A n \in 0 .. N : Good[n] = S
  OBVIOUS
<1> HIDE DEF S, H, N, Good, t, M
<1>9. Steps(H, N, Good) /\ t \in Good[0]
  <2>1. 0 \in 0 .. N
    BY <1>4
  <2>2. QED
    BY <1>3, <1>4, <1>6, <1>7, <1>8, <2>1 DEF Steps
<1> HIDE DEF Op
<1>10. PICK T : Turns(T, H, N, Good, t)
  BY <1>4, <1>9, LoopExists
<1>11. /\ T = [n \in 0 .. N |-> IF n = 0 THEN t ELSE H[<<T[n - 1], n>>]]
       /\ \A n \in 0 .. N : T[n] \in S
  BY <1>8, <1>10 DEF Turns
<1>12. Is(T)
  <2>1. \A n \in 0 .. N : n # 0 => H[<<T[n - 1], n>>] = Op(T[n - 1], n)
    <3> SUFFICES ASSUME NEW n \in 0 .. N, n # 0 PROVE H[<<T[n - 1], n>>] = Op(T[n - 1], n)
      OBVIOUS
    <3>1. n \in 1 .. N /\ n - 1 \in 0 .. N
      BY <1>4
    <3>2. QED
      BY <1>7, <1>11, <3>1
  <2>2. \A n \in 0 .. N : (IF n = 0 THEN t ELSE H[<<T[n - 1], n>>])
                            = (IF n = 0 THEN t ELSE Op(T[n - 1], n))
    BY <2>1
  <2>3. [n \in 0 .. N |-> IF n = 0 THEN t ELSE H[<<T[n - 1], n>>]]
          = [n \in 0 .. N |-> IF n = 0 THEN t ELSE Op(T[n - 1], n)]
    BY <2>2
  <2>4. QED
    BY <1>11, <2>3 DEF Op
<1>13. Is(U)
  BY <1>12
<1>14. \A n \in 0 .. N : U[n] = IF n = 0 THEN t ELSE Op(U[n - 1], n)
  <2> HIDE DEF U
  <2>1. QED
    BY <1>13 DEF Op
<1> HIDE DEF Is, U
<1>15. Stays(U, N, Good)
  <2>1. U[0] \in Good[0] /\ 0 \in 0 .. N
    <3>1. 0 \in 0 .. N
      BY <1>4
    <3>2. U[0] = t
      BY <3>1, <1>14
    <3>3. QED
      BY <3>1, <3>2, <1>9
  <2>2. \A n \in 1 .. N : U[n - 1] \in Good[n - 1] => U[n] \in Good[n]
    BY <1>4, <1>6, <1>8, <1>14
  <2>3. QED
    BY <2>1, <2>2 DEF Stays
<1>16. N \in 0 .. N
  BY <1>4
<1>17. U[N] \in Good[N]
  BY <1>4, <1>15, <1>16, LoopStays
<1>18. QED
  BY <1>1, <1>2, <1>8, <1>16, <1>17

LEMMA InRangeStill ==
  ASSUME NEW s, Core(s), NEW R \in SUBSET Monsters
  PROVE  Still(s, [s EXCEPT !.inRange = R])
<1> DEFINE t == [s EXCEPT !.inRange = R]
<1>1. Marks(s, t)
  BY DEF Core, Marks, Frame, Lv!State
<1> HIDE DEF t
<1>2. Still(s, t)
  BY <1>1, MarksStill
<1>3. QED
  BY <1>2 DEF t

\* Monster::onCreatureEnter()
LEMMA EnterStill ==
  ASSUME Cast, NEW s, Core(s), NEW m \in Monsters, s.life[m] = "in",
         NEW c \in Lv!Creature, s.life[c] = "in"
  PROVE  Still(s, Lv!Enter(s, m, c))
<1> DEFINE R == s.inRange \cup {m}
           a == [s EXCEPT !.inRange = @ \cup {m}]
           t == IF s.master[m] = c THEN Lv!UpdateIdle(a, m) ELSE s
<1>1. Lv!Enter(s, m, c) = Lv!Found(t, m, c)
  BY DEF Lv!Enter
<1>2. Still(s, a)
  <2>1. R \in SUBSET Monsters
    BY DEF Core, Lv!State
  <2> HIDE DEF R
  <2>2. Still(s, [s EXCEPT !.inRange = R])
    BY <2>1, InRangeStill
  <2>3. QED
    BY <2>2 DEF R
<1> HIDE DEF a
<1>3. Still(s, Lv!UpdateIdle(a, m))
  <2>1. Core(a) /\ a.life[m] = "in"
    BY <1>2 DEF Still, Quiet, Frame
  <2>2. Still(a, Lv!UpdateIdle(a, m))
    BY <2>1, UpdateIdleStill
  <2>3. QED
    BY <1>2, <2>2, StillStill
<1>4. Still(s, t)
  BY <1>3, Stays1
<1> HIDE DEF t
<1>5. Core(t) /\ t.life[m] = "in" /\ t.life[c] = "in"
  BY <1>4 DEF Still, Quiet, Frame
<1>6. Still(t, Lv!Found(t, m, c))
  BY <1>5, FoundStill
<1>7. QED
  BY <1>1, <1>4, <1>6, StillStill

\* Monster::onCreatureLeave()
LEMMA LeaveStill ==
  ASSUME Cast, NEW s, Core(s), NEW m \in Monsters, s.life[m] # "absent",
         NEW c \in Lv!Creature
  PROVE  Still(s, Lv!Leave(s, m, c))
<1> DEFINE R == s.inRange \ {m}
           a == [s EXCEPT !.inRange = @ \ {m}]
           t == IF s.master[m] = c THEN Lv!UpdateIdle(a, m) ELSE s
           u == IF Lv!IsFriend(t, m, c) /\ c \in t.friends[m]
                THEN Lv!UnRef([t EXCEPT !.friends[m] = @ \ {c}], c) ELSE t
           v == Lv!UnRef([u EXCEPT !.targets[m] = @ \ {c}], c)
           P == Lv!IsOpponent(u, m, c) /\ c \in u.targets[m]
           w == IF P THEN IF v.targets[m] = {} THEN Lv!UpdateIdle(v, m) ELSE v ELSE u
<1>1. Lv!Leave(s, m, c) = w
  BY DEF Lv!Leave
<1>2. Still(s, a)
  <2>1. R \in SUBSET Monsters
    BY DEF Core, Lv!State
  <2> HIDE DEF R
  <2>2. Still(s, [s EXCEPT !.inRange = R])
    BY <2>1, InRangeStill
  <2>3. QED
    BY <2>2 DEF R
<1> HIDE DEF a
<1>3. Still(s, Lv!UpdateIdle(a, m))
  <2>1. Core(a) /\ a.life[m] # "absent"
    BY <1>2 DEF Still, Quiet, Frame
  <2>2. Still(a, Lv!UpdateIdle(a, m))
    BY <2>1, UpdateIdleStill
  <2>3. QED
    BY <1>2, <2>2, StillStill
<1>4. Still(s, t)
  BY <1>3, Stays1
<1> HIDE DEF t
<1>5. Core(t) /\ t.life[m] # "absent"
  BY <1>4 DEF Still, Quiet, Frame
<1>6. Still(t, u)
  <2>1. CASE Lv!IsFriend(t, m, c) /\ c \in t.friends[m]
    <3>1. Still(t, Lv!UnRef([t EXCEPT !.friends[m] = @ \ {c}], c))
      BY <1>5, <2>1, UnfriendStill
    <3>2. QED
      BY <2>1, <3>1
  <2>2. CASE ~(Lv!IsFriend(t, m, c) /\ c \in t.friends[m])
    <3>1. u = t
      BY <2>2
    <3>2. QED
      BY <1>5, <3>1, Stays1
  <2>3. QED
    BY <2>1, <2>2
<1> HIDE DEF u
<1>7. Still(s, u)
  BY <1>4, <1>6, StillStill
<1>8. Core(u) /\ u.life[m] # "absent"
  BY <1>7 DEF Still, Quiet, Frame
<1>9. ASSUME P PROVE Still(s, v) /\ Still(s, Lv!UpdateIdle(v, m))
  <2>1. Still(u, v)
    BY <1>8, <1>9, UntargetStill
  <2> HIDE DEF v
  <2>2. Still(s, v)
    BY <1>7, <2>1, StillStill
  <2>3. Core(v) /\ v.life[m] # "absent"
    BY <2>2 DEF Still, Quiet, Frame
  <2>4. Still(v, Lv!UpdateIdle(v, m))
    BY <2>3, UpdateIdleStill
  <2>5. QED
    BY <2>2, <2>4, StillStill
<1> HIDE DEF v, P
<1>10. Still(s, w)
  BY <1>7, <1>9
<1>11. QED
  BY <1>1, <1>10

-----------------------------------------------------------------------------
(* Who is attacked and followed                                            *)

\* t is s but for who is attacked and followed.
Aimed(s, t) ==
  /\ t \in Lv!State /\ Frame(s, t)
  /\ t.checked = s.checked /\ t.slotted = s.slotted
  /\ t.targets = s.targets /\ t.friends = s.friends /\ t.refs = s.refs
  /\ \A d \in Lv!Creature :
       t.attacked[d] \in {s.attacked[d], None} \/ Lv!Near(s, d, t.attacked[d])
  /\ \A d \in Monsters :
       t.followed[d] \in {s.followed[d], None} \/ Lv!Near(s, d, t.followed[d])

LEMMA AimedEased ==
  ASSUME Cast, NEW s, Core(s), NEW t, Aimed(s, t) PROVE Eased(s, t)
<1>1. \A c : Refers(t, c) = Refers(s, c)
  BY DEF Refers, Lists, Aimed, Frame
<1>2. Counted(t)
  BY <1>1 DEF Core, Counted, Aimed
<1>3. Bare(t)
  <2>1. ASSUME NEW c \in Lv!Creature, s.life[c] = "absent" PROVE t.attacked[c] = None
    <3>1. \A x \in Lv!Creature : ~Lv!Near(s, c, x)
      BY <2>1 DEF Core, Present
    <3>2. s.attacked[c] = None /\ t.attacked[c] \in Lv!Creature \cup {None}
      BY <2>1 DEF Core, Bare, Aimed, Lv!State
    <3>3. QED
      BY <3>1, <3>2 DEF Aimed
  <2>2. ASSUME NEW c \in Monsters, s.life[c] = "absent" PROVE t.followed[c] = None
    <3>1. \A x \in Lv!Creature : ~Lv!Near(s, c, x)
      BY <2>2 DEF Core, Present, Cast
    <3>2. s.followed[c] = None /\ t.followed[c] \in Lv!Creature \cup {None}
      BY <2>2 DEF Core, Bare, Aimed, Lv!State
    <3>3. QED
      BY <3>1, <3>2 DEF Aimed
  <2>3. QED
    BY <2>1, <2>2 DEF Core, Bare, Aimed, Frame
<1>4. Mastered(t)
  BY DEF Core, Mastered, Aimed, Frame
<1>5. Present(t)
  BY DEF Core, Present, Aimed, Frame, Lv!Near
<1>6. Calm(s, t)
  BY DEF Calm, Shrinks, Aimed, Watched
<1>7. QED
  BY <1>2, <1>3, <1>4, <1>5, <1>6 DEF Core, Eased, Aimed

\* Creature::setAttackedCreature(): only who is near is attacked in the end; who attacks
\* nobody, with his summons, attacks nobody.
LEMMA SetAttackedShape ==
  ASSUME Cast, NEW s \in Lv!State, NEW c \in Lv!Creature, NEW x \in Lv!Creature \cup {None}
  PROVE  LET t == Lv!SetAttacked(s, c, x)
         IN  /\ t = [s EXCEPT !.attacked = t.attacked]
             /\ t.attacked \in [Lv!Creature -> Lv!Creature \cup {None}]
             /\ \A d \in Lv!Creature : \/ t.attacked[d] \in {s.attacked[d], None}
                                       \/ t.attacked[d] = x /\ Lv!Near(s, d, x)
             /\ t.attacked[c] \in {x, None}
<1> DEFINE sees(d) == x = None \/ Lv!Near(s, d, x)
           N == Turned
           W(X) == X \cup UNION {s.summons[d] : d \in {e \in X : sees(e)}}
           S == {X \in SUBSET Lv!Creature : c \in X}
           Good == [n \in 0 .. N |-> S]
           H == [p \in S \X (1 .. N) |-> W(p[1])]
           Is(O) == O = [n \in 0 .. N |-> IF n = 0 THEN {c}
                           ELSE O[n - 1] \cup UNION {s.summons[d] : d \in {e \in O[n - 1] : sees(e)}}]
           U == CHOOSE O : Is(O)
           t == Lv!SetAttacked(s, c, x)
           F(Z) == [d \in Lv!Creature |-> IF d \notin Z THEN s.attacked[d]
                                          ELSE IF sees(d) THEN x ELSE None]
<1>1. t = [s EXCEPT !.attacked = F(U[N])]
  BY DEF Lv!SetAttacked, Turned
<1>2. N \in Nat /\ \A n \in 1 .. N : n \in 0 .. N /\ n - 1 \in 0 .. N /\ n # 0
  BY TurnedNat
<1>3. {c} \in S
  OBVIOUS
<1>4. \A X \in S : W(X) \in S
  BY DEF Lv!State
<1>5. \A X \in S, n \in 1 .. N : H[<<X, n>>] = W(X)
  OBVIOUS
<1>6. \A n \in 0 .. N : Good[n] = S
  OBVIOUS
<1> HIDE DEF S, H, N, Good, sees
<1>7. Steps(H, N, Good) /\ {c} \in Good[0]
  <2>1. 0 \in 0 .. N
    BY <1>2
  <2> HIDE DEF W
  <2>2. QED
    BY <1>2, <1>3, <1>4, <1>5, <1>6, <2>1 DEF Steps
<1> HIDE DEF W
<1>8. PICK O : Turns(O, H, N, Good, {c})
  BY <1>2, <1>7, LoopExists
<1>9. /\ O = [n \in 0 .. N |-> IF n = 0 THEN {c} ELSE H[<<O[n - 1], n>>]]
      /\ \A n \in 0 .. N : O[n] \in S
  BY <1>6, <1>8 DEF Turns
<1>10. Is(O)
  <2>1. \A n \in 0 .. N : n # 0 => H[<<O[n - 1], n>>] = W(O[n - 1])
    <3> SUFFICES ASSUME NEW n \in 0 .. N, n # 0 PROVE H[<<O[n - 1], n>>] = W(O[n - 1])
      OBVIOUS
    <3>1. n \in 1 .. N /\ n - 1 \in 0 .. N
      BY <1>2
    <3>2. QED
      BY <1>5, <1>9, <3>1
  <2>2. \A n \in 0 .. N : (IF n = 0 THEN {c} ELSE H[<<O[n - 1], n>>])
                            = (IF n = 0 THEN {c} ELSE W(O[n - 1]))
    BY <2>1
  <2>3. [n \in 0 .. N |-> IF n = 0 THEN {c} ELSE H[<<O[n - 1], n>>]]
          = [n \in 0 .. N |-> IF n = 0 THEN {c} ELSE W(O[n - 1])]
    BY <2>2
  <2>4. QED
    BY <1>9, <2>3 DEF W
<1>11. Is(U)
  BY <1>10
<1>12. \A n \in 0 .. N : U[n] = IF n = 0 THEN {c} ELSE W(U[n - 1])
  <2> HIDE DEF U
  <2>1. QED
    BY <1>11 DEF W
<1> HIDE DEF Is, U
<1>13. Stays(U, N, Good)
  <2>1. U[0] \in Good[0] /\ 0 \in 0 .. N
    <3>1. 0 \in 0 .. N
      BY <1>2
    <3>2. U[0] = {c}
      BY <3>1, <1>12
    <3>3. QED
      BY <3>1, <3>2, <1>7
  <2>2. \A n \in 1 .. N : U[n - 1] \in Good[n - 1] => U[n] \in Good[n]
    BY <1>2, <1>4, <1>6, <1>12
  <2>3. QED
    BY <2>1, <2>2 DEF Stays
<1>14. N \in 0 .. N
  BY <1>2
<1>15. U[N] \in Good[N]
  BY <1>2, <1>13, <1>14, LoopStays
<1> DEFINE Z == U[N]
<1>16. Z \in SUBSET Lv!Creature /\ c \in Z
  BY <1>6, <1>14, <1>15 DEF S
<1>17. t = [s EXCEPT !.attacked = F(Z)]
  BY <1>1
<1> HIDE DEF Z, t
<1>18. t.attacked = F(Z) /\ t = [s EXCEPT !.attacked = t.attacked]
  BY <1>17 DEF Lv!State
<1>19. t.attacked \in [Lv!Creature -> Lv!Creature \cup {None}]
  BY <1>18 DEF Lv!State
<1>20. \A d \in Lv!Creature :
         t.attacked[d] = IF d \notin Z THEN s.attacked[d] ELSE IF sees(d) THEN x ELSE None
  BY <1>18
<1>21. \A d \in Lv!Creature : \/ t.attacked[d] \in {s.attacked[d], None}
                              \/ t.attacked[d] = x /\ Lv!Near(s, d, x)
  BY <1>20 DEF sees
<1>22. t.attacked[c] \in {x, None}
  BY <1>16, <1>20
<1>23. QED
  BY <1>18, <1>19, <1>21, <1>22 DEF t

LEMMA SetAttackedAims ==
  ASSUME Cast, NEW s, Core(s), NEW c \in Lv!Creature, NEW x \in Lv!Creature \cup {None}
  PROVE  LET t == Lv!SetAttacked(s, c, x)
         IN  /\ Aimed(s, t) /\ t.followed = s.followed
             /\ \A d \in Lv!Creature : \/ t.attacked[d] \in {s.attacked[d], None}
                                       \/ t.attacked[d] = x /\ Lv!Near(s, d, x)
             /\ t.attacked[c] \in {x, None}
<1> DEFINE t == Lv!SetAttacked(s, c, x)
<1>1. s \in Lv!State
  BY DEF Core
<1>2. /\ t = [s EXCEPT !.attacked = t.attacked]
      /\ t.attacked \in [Lv!Creature -> Lv!Creature \cup {None}]
      /\ \A d \in Lv!Creature : \/ t.attacked[d] \in {s.attacked[d], None}
                                \/ t.attacked[d] = x /\ Lv!Near(s, d, x)
      /\ t.attacked[c] \in {x, None}
  BY <1>1, SetAttackedShape
<1> HIDE DEF t
<1>3. /\ t \in Lv!State /\ Frame(s, t) /\ t.followed = s.followed
      /\ t.checked = s.checked /\ t.slotted = s.slotted
      /\ t.targets = s.targets /\ t.friends = s.friends /\ t.refs = s.refs
  BY <1>1, <1>2 DEF Lv!State, Frame
<1>4. \A d \in Lv!Creature :
        t.attacked[d] \in {s.attacked[d], None} \/ Lv!Near(s, d, t.attacked[d])
  BY <1>2
<1>5. Aimed(s, t)
  BY <1>3, <1>4 DEF Aimed
<1>6. QED
  BY <1>2, <1>3, <1>5 DEF t

LEMMA SetAttackedEased ==
  ASSUME Cast, NEW s, Core(s), NEW c \in Lv!Creature, NEW x \in Lv!Creature \cup {None}
  PROVE  Eased(s, Lv!SetAttacked(s, c, x))
<1> DEFINE t == Lv!SetAttacked(s, c, x)
<1>1. Aimed(s, t)
  BY SetAttackedAims
<1> HIDE DEF t
<1>2. Eased(s, t)
  BY <1>1, AimedEased
<1>3. QED
  BY <1>2 DEF t

\* Nobody is attacked who was not, when an attack ends.
LEMMA StopsAttack ==
  ASSUME Cast, NEW s, Core(s), NEW c \in Lv!Creature
  PROVE  /\ Still(s, Lv!SetAttacked(s, c, None))
         /\ Lv!SetAttacked(s, c, None).attacked[c] = None
         /\ Lv!SetAttacked(s, c, None).followed = s.followed
<1> DEFINE x == None
           t == Lv!SetAttacked(s, c, x)
<1>1. x \in Lv!Creature \cup {None}
  OBVIOUS
<1> HIDE DEF x
<1>2. /\ Aimed(s, t) /\ t.followed = s.followed
      /\ \A d \in Lv!Creature : t.attacked[d] \in {s.attacked[d], None} \/ t.attacked[d] = x
      /\ t.attacked[c] \in {x, None}
  BY <1>1, SetAttackedAims
<1> HIDE DEF t
<1>3. Eased(s, t)
  BY <1>2, AimedEased
<1>4. x = None
  BY DEF x
<1>5. \A d \in Lv!Creature : t.attacked[d] \in {s.attacked[d], None}
  BY <1>2, <1>4
<1>6. Still(s, t) /\ t.attacked[c] = None
  BY <1>2, <1>3, <1>4, <1>5 DEF Still, Eased, Quiet, Calm
<1>7. QED
  BY <1>2, <1>4, <1>6 DEF t

\* Creature::setFollowCreature()
LEMMA SetFollowShape ==
  ASSUME Cast, NEW s, Core(s), NEW m \in Monsters, NEW x \in Lv!Creature \cup {None}
  PROVE  LET t == Lv!SetFollow(s, m, x)
         IN  /\ Aimed(s, t) /\ t.attacked = s.attacked
             /\ t.followed[m] \in {x, None}
             /\ t.followed[m] = None \/ x = s.followed[m] \/ Lv!Near(s, m, x)
             /\ \A d \in Monsters \ {m} : t.followed[d] = s.followed[d]
<1> DEFINE t == Lv!SetFollow(s, m, x)
           y == IF s.followed[m] = x \/ (Lv!Near(s, m, x) /\ x # None) THEN x ELSE None
<1>1. s \in Lv!State
  BY DEF Core
<1>2. t = [s EXCEPT !.followed[m] = y]
  <2>1. s = [s EXCEPT !.followed[m] = s.followed[m]]
    BY <1>1 DEF Lv!State
  <2>2. QED
    BY <2>1 DEF Lv!SetFollow
<1>3. y \in Lv!Creature \cup {None} /\ y \in {x, None} /\ (y = None \/ x = s.followed[m] \/ Lv!Near(s, m, x))
  OBVIOUS
<1> HIDE DEF t, y
<1>4. /\ t \in Lv!State /\ Frame(s, t) /\ t.attacked = s.attacked
      /\ t.checked = s.checked /\ t.slotted = s.slotted
      /\ t.targets = s.targets /\ t.friends = s.friends /\ t.refs = s.refs
      /\ t.followed = [s.followed EXCEPT ![m] = y]
  BY <1>1, <1>2, <1>3 DEF Lv!State, Frame
<1>5. t.followed[m] = y /\ \A d \in Monsters \ {m} : t.followed[d] = s.followed[d]
  BY <1>1, <1>4 DEF Lv!State
<1>6. \A d \in Monsters : t.followed[d] \in {s.followed[d], None} \/ Lv!Near(s, d, t.followed[d])
  BY <1>3, <1>5
<1>7. Aimed(s, t)
  BY <1>4, <1>6 DEF Aimed
<1>8. QED
  BY <1>3, <1>4, <1>5, <1>7 DEF t

LEMMA SetFollowEased ==
  ASSUME Cast, NEW s, Core(s), NEW m \in Monsters, NEW x \in Lv!Creature \cup {None}
  PROVE  Eased(s, Lv!SetFollow(s, m, x))
<1> DEFINE t == Lv!SetFollow(s, m, x)
<1>1. Aimed(s, t)
  BY SetFollowShape
<1> HIDE DEF t
<1>2. Eased(s, t)
  BY <1>1, AimedEased
<1>3. QED
  BY <1>2 DEF t

LEMMA StopsFollowing ==
  ASSUME Cast, NEW s, Core(s), NEW m \in Monsters
  PROVE  /\ Still(s, Lv!SetFollow(s, m, None))
         /\ Lv!SetFollow(s, m, None).followed[m] = None
         /\ Lv!SetFollow(s, m, None).attacked = s.attacked
<1> DEFINE x == None
           t == Lv!SetFollow(s, m, x)
<1>1. x \in Lv!Creature \cup {None}
  OBVIOUS
<1> HIDE DEF x
<1>2. /\ Aimed(s, t) /\ t.attacked = s.attacked /\ t.followed[m] \in {x, None}
      /\ \A d \in Monsters \ {m} : t.followed[d] = s.followed[d]
  BY <1>1, SetFollowShape
<1> HIDE DEF t
<1>3. Eased(s, t)
  BY <1>2, AimedEased
<1>4. x = None
  BY DEF x
<1>5. \A d \in Monsters : t.followed[d] \in {s.followed[d], None}
  BY <1>2, <1>4
<1>6. Still(s, t) /\ t.followed[m] = None
  BY <1>2, <1>3, <1>4, <1>5 DEF Still, Eased, Quiet, Calm
<1>7. QED
  BY <1>2, <1>4, <1>6 DEF t

\* Monster::selectTarget()
LEMMA SelectTargetEased ==
  ASSUME Cast, NEW s, Core(s), NEW m \in Monsters, NEW x \in Lv!Creature
  PROVE  Eased(s, Lv!SelectTarget(s, m, x))
<1> DEFINE u == Lv!SetAttacked(s, m, x)
           t == Lv!SelectTarget(s, m, x)
<1>1. Eased(s, s)
  BY Stays1, StillEased
<1>2. Eased(s, u)
  BY SetAttackedEased DEF Cast
<1>3. t = s \/ t = Lv!SetFollow(u, m, x)
  BY DEF Lv!SelectTarget
<1> HIDE DEF u
<1>4. Eased(u, Lv!SetFollow(u, m, x))
  BY <1>2, SetFollowEased DEF Eased
<1> HIDE DEF t
<1>5. Eased(s, t)
  BY <1>1, <1>2, <1>3, <1>4, EasedEased
<1>6. QED
  BY <1>5 DEF t

\* Creature::internalCreatureDisappear(): x is neither attacked nor followed then.
LEMMA DisappearStill ==
  ASSUME Cast, NEW s, Core(s), NEW c \in Lv!Creature, NEW x \in Lv!Creature
  PROVE  LET t == Lv!Disappear(s, c, x)
         IN  Still(s, t) /\ t.attacked[c] # x /\ (c \in Monsters => t.followed[c] # x)
<1> DEFINE t == IF s.attacked[c] = x THEN Lv!SetAttacked(s, c, None) ELSE s
           u == Lv!Disappear(s, c, x)
<1>1. u = IF c \in Monsters /\ t.followed[c] = x THEN Lv!SetFollow(t, c, None) ELSE t
  BY DEF Lv!Disappear
<1>2. None # x
  BY DEF Cast
<1>3. Still(s, t) /\ t.attacked[c] # x
  <2>1. CASE s.attacked[c] = x
    BY <1>2, <2>1, StopsAttack
  <2>2. CASE s.attacked[c] # x
    BY <2>2, Stays1
  <2>3. QED
    BY <2>1, <2>2
<1> HIDE DEF t, u
<1>4. Core(t)
  BY <1>3 DEF Still
<1>5. CASE c \in Monsters /\ t.followed[c] = x
  <2> DEFINE v == Lv!SetFollow(t, c, None)
  <2>1. Still(t, v) /\ v.followed[c] = None /\ v.attacked = t.attacked
    BY <1>4, <1>5, StopsFollowing
  <2> HIDE DEF v
  <2>2. u = v
    BY <1>1, <1>5 DEF v
  <2>3. Still(s, v)
    BY <1>3, <2>1, StillStill
  <2>4. QED
    BY <1>2, <1>3, <2>1, <2>2, <2>3 DEF u
<1>6. CASE ~(c \in Monsters /\ t.followed[c] = x)
  <2>1. u = t
    BY <1>1, <1>6
  <2>2. QED
    BY <1>3, <1>6, <2>1 DEF u
<1>7. QED
  BY <1>5, <1>6

\* Creature::onCreatureMove(): who is attacked or followed is near then, if c moved.
LEMMA PursueStill ==
  ASSUME Cast, NEW s, Core(s), NEW d \in Lv!Creature, NEW c \in Lv!Creature
  PROVE  LET t == Lv!Pursue(s, d, c)
         IN  /\ Still(s, t)
             /\ t.attacked[d] # None /\ c \in {d, t.attacked[d]} => Lv!Near(s, d, t.attacked[d])
             /\ d \in Monsters /\ t.followed[d] # None /\ c \in {d, t.followed[d]}
                  => Lv!Near(s, d, t.followed[d])
<1> DEFINE gone(x) == x # None /\ c \in {d, x} /\ ~Lv!Near(s, d, x)
           F == d \in Monsters /\ gone(s.followed[d])
           t == IF F THEN Lv!Disappear(s, d, s.followed[d]) ELSE s
           G == gone(t.attacked[d])
           u == IF G THEN Lv!Disappear(t, d, t.attacked[d]) ELSE t
<1>1. Lv!Pursue(s, d, c) = u
  BY DEF Lv!Pursue
<1>2. s \in Lv!State
  BY DEF Core
<1>3. Still(s, t) /\ (d \in Monsters => ~gone(t.followed[d]))
  <2>1. CASE F
    <3> DEFINE x == s.followed[d]
    <3>1. x \in Lv!Creature
      BY <1>2, <2>1 DEF Lv!State
    <3>2. t = Lv!Disappear(s, d, x)
      BY <2>1
    <3> HIDE DEF t, F
    <3>3. Still(s, t) /\ t.followed[d] # x
      <4> HIDE DEF x
      <4>1. d \in Monsters
        BY <2>1 DEF F
      <4>2. QED
        BY <3>1, <3>2, <4>1, DisappearStill
    <3>4. t.followed[d] \in {x, None}
      BY <2>1, <3>3 DEF Still, Quiet, F
    <3>5. QED
      BY <3>3, <3>4
  <2>2. CASE ~F
    BY <2>2, Stays1
  <2>3. QED
    BY <2>1, <2>2
<1> HIDE DEF F, t
<1>4. Core(t) /\ t \in Lv!State
  BY <1>3 DEF Still, Core
<1>5. /\ Still(s, u) /\ ~gone(u.attacked[d])
      /\ d \in Monsters => u.followed[d] \in {t.followed[d], None}
  <2>1. CASE G
    <3> DEFINE x == t.attacked[d]
    <3>1. x \in Lv!Creature
      BY <1>4, <2>1 DEF Lv!State
    <3>2. u = Lv!Disappear(t, d, x)
      BY <2>1
    <3> HIDE DEF u, G
    <3>3. Still(t, u) /\ u.attacked[d] # x
      <4> HIDE DEF x
      <4>1. QED
        BY <1>4, <3>1, <3>2, DisappearStill
    <3>4. u.attacked[d] \in {x, None} /\ (d \in Monsters => u.followed[d] \in {t.followed[d], None})
      BY <3>3 DEF Still, Quiet
    <3>5. Still(s, u)
      BY <1>3, <3>3, StillStill
    <3>6. QED
      BY <3>3, <3>4, <3>5
  <2>2. CASE ~G
    BY <1>3, <2>2
  <2>3. QED
    BY <2>1, <2>2
<1> HIDE DEF u
<1>6. d \in Monsters => ~gone(u.followed[d])
  BY <1>3, <1>5
<1>7. QED
  BY <1>1, <1>5, <1>6

-----------------------------------------------------------------------------
(* What one creature does                                                  *)

LEMMA AimsEased ==
  ASSUME NEW s, NEW t, Eased(s, t), NEW d \in Lv!Creature, Aims(s, d)
  PROVE  Aims(t, d)
<1>1. t.life = s.life /\ t.near = s.near
  BY DEF Eased, Calm, Frame
<1>2. \A x : Lv!Near(t, d, x) <=> Lv!Near(s, d, x)
  BY <1>1 DEF Lv!Near
<1>3. QED
  BY <1>1, <1>2 DEF Aims, Eased, Calm

\* Monster::onFollowCreatureComplete()
LEMMA FollowCompleteStill ==
  ASSUME Cast, NEW s, Core(s), NEW m \in Monsters, s.life[m] # "absent", NEW found
  PROVE  Still(s, Lv!FollowComplete(s, m, found))
<1> DEFINE x == s.followed[m]
           P == x # None /\ ~found /\ s.master[m] # None /\ x \in s.targets[m]
           u == Lv!UnRef([s EXCEPT !.targets[m] = @ \ {x}], x)
<1>1. Lv!FollowComplete(s, m, found) = IF P THEN u ELSE s
  BY DEF Lv!FollowComplete
<1>2. CASE P
  <2>1. x \in Lv!Creature
    BY <1>2 DEF Core, Lv!State
  <2>2. x \in s.targets[m]
    BY <1>2
  <2> DEFINE y == x
  <2> HIDE DEF P, x
  <2>3. Still(s, u)
    BY <2>1, <2>2, UntargetStill
  <2>4. QED
    BY <1>1, <1>2, <2>3
<1>3. CASE ~P
  BY <1>1, <1>3, Stays1
<1>4. QED
  BY <1>2, <1>3

\* What a monster turns to.
LEMMA ChosenEased ==
  ASSUME Cast, NEW s, Core(s), NEW m \in Monsters, NEW x
  PROVE  Eased(s, Lv!Chosen(s, m, x))
<1> DEFINE leader == s.master[m]
           a == s.attacked[m]
           b == s.attacked[leader]
           t == Lv!Chosen(s, m, x)
<1>1. s \in Lv!State /\ m \in Lv!Creature
  BY DEF Core, Cast
<1>2. leader \in Lv!Creature \cup {None} /\ a \in Lv!Creature \cup {None}
  BY <1>1 DEF Lv!State
<1>3. leader # None => b \in Lv!Creature \cup {None}
  BY <1>1, <1>2 DEF Lv!State
<1>4. x \in s.targets[m] => x \in Lv!Creature
  BY <1>1 DEF Lv!State
<1>5. \/ t = s
      \/ x \in s.targets[m] /\ t = Lv!SelectTarget(s, m, x)
      \/ leader # None /\ b # None /\ t = Lv!SelectTarget(s, m, b)
      \/ t = Lv!SetFollow(s, m, leader)
      \/ t = Lv!SetFollow(s, m, None)
      \/ t = Lv!SetFollow(s, m, a)
  BY DEF Lv!Chosen
<1> HIDE DEF leader, a, b, t
<1>6. Eased(s, s)
  BY Stays1, StillEased
<1>7. ASSUME NEW y \in Lv!Creature PROVE Eased(s, Lv!SelectTarget(s, m, y))
  BY SelectTargetEased
<1>8. ASSUME NEW y \in Lv!Creature \cup {None} PROVE Eased(s, Lv!SetFollow(s, m, y))
  BY SetFollowEased
<1>9. Eased(s, t)
  BY <1>2, <1>3, <1>4, <1>5, <1>6, <1>7, <1>8
<1>10. QED
  BY <1>9 DEF t

\* Monster::onThink()
LEMMA ThinkEased ==
  ASSUME Cast, NEW s, Core(s), NEW m \in Monsters, s.life[m] # "absent", NEW found, NEW x
  PROVE  Eased(s, Lv!Think(s, m, found, x))
<1> DEFINE t == Lv!FollowComplete(s, m, found)
           p == t.attacked[m]
           P == p \in Players /\ t.summons[p] # {}
           d == CHOOSE d \in t.summons[p] : TRUE
           y == IF P THEN Lv!SelectTarget(t, m, d) ELSE t
           z == Lv!UpdateIdle(y, m)
<1>1. Lv!Think(s, m, found, x) = Lv!Chosen(z, m, x)
  BY DEF Lv!Think
<1>2. Still(s, t)
  BY FollowCompleteStill
<1> HIDE DEF t
<1>3. Core(t) /\ t \in Lv!State
  BY <1>2 DEF Still, Core
<1>4. Eased(t, y)
  <2>1. CASE P
    <3>1. d \in t.summons[p]
      BY <2>1
    <3>2. d \in Lv!Creature
      BY <1>3, <2>1, <3>1 DEF Lv!State, Cast
    <3> HIDE DEF d
    <3>3. Eased(t, Lv!SelectTarget(t, m, d))
      BY <1>3, <3>2, SelectTargetEased
    <3>4. QED
      BY <2>1, <3>3
  <2>2. CASE ~P
    <3>1. y = t
      BY <2>2
    <3>2. QED
      BY <1>3, <3>1, Stays1, StillEased
  <2>3. QED
    BY <2>1, <2>2
<1> HIDE DEF y
<1>5. Eased(s, y)
  BY <1>2, <1>4, StillEased, EasedEased
<1>6. Core(y) /\ y.life[m] # "absent"
  BY <1>5 DEF Eased, Calm, Frame
<1>7. Still(y, z)
  BY <1>6, UpdateIdleStill
<1> HIDE DEF z
<1>8. Eased(s, z) /\ Core(z)
  BY <1>5, <1>7, StillEased, EasedEased DEF Still
<1>9. Eased(z, Lv!Chosen(z, m, x))
  BY <1>8, ChosenEased
<1>10. QED
  BY <1>1, <1>8, <1>9, EasedEased

\* Monster::onCreatureAppear(), of c for the monster d.
LEMMA OnAppearStill ==
  ASSUME Cast, NEW s, Core(s), NEW d \in Monsters, s.life[d] = "in",
         NEW c \in Lv!Creature, s.life[c] = "in", NEW ord \in Seq(Lv!Creature)
  PROVE  Still(s, Lv!OnAppear(s, d, c, ord))
<1>1. CASE d # c
  <2>1. Lv!OnAppear(s, d, c, ord) = Lv!Enter(s, d, c)
    BY <1>1 DEF Lv!OnAppear
  <2>2. QED
    BY <2>1, EnterStill
<1>2. CASE d = c
  <2> DEFINE R == s.inRange \cup {c}
             a == [s EXCEPT !.inRange = @ \cup {c}]
             t == IF s.master[c] # None /\ Lv!Near(s, c, s.master[c]) THEN a ELSE s
             u == Lv!UpdateTargets(t, c, ord)
  <2>1. Lv!OnAppear(s, d, c, ord) = Lv!UpdateIdle(u, c)
    BY <1>2 DEF Lv!OnAppear
  <2>2. Still(s, a)
    <3>1. R \in SUBSET Monsters
      BY <1>2 DEF Core, Lv!State
    <3> HIDE DEF R
    <3>2. Still(s, [s EXCEPT !.inRange = R])
      BY <3>1, InRangeStill
    <3>3. QED
      BY <3>2 DEF R
  <2> HIDE DEF a
  <2>3. Still(s, t)
    BY <2>2, Stays1
  <2> HIDE DEF t
  <2>4. Core(t) /\ t.life[c] = "in" /\ c \in Monsters
    BY <1>2, <2>3 DEF Still, Quiet, Frame
  <2>5. Still(t, u)
    BY <2>4, UpdateTargetsStill
  <2> HIDE DEF u
  <2>6. Still(s, u)
    BY <2>3, <2>5, StillStill
  <2>7. Core(u) /\ u.life[c] = "in"
    BY <2>6 DEF Still, Quiet, Frame
  <2>8. Still(u, Lv!UpdateIdle(u, c))
    BY <2>4, <2>7, UpdateIdleStill
  <2>9. QED
    BY <2>1, <2>6, <2>8, StillStill
<1>3. QED
  BY <1>1, <1>2

\* Creature::onCreatureDisappear(), Monster::onCreatureDisappear(), of c for d.
LEMMA OnDisappearStill ==
  ASSUME Cast, NEW s, Core(s), NEW d \in Lv!Creature, s.life[d] # "absent",
         NEW c \in Lv!Creature
  PROVE  LET t == Lv!OnDisappear(s, d, c)
         IN  Still(s, t) /\ t.attacked[d] # c /\ (d \in Monsters => t.followed[d] # c)
<1> DEFINE t == Lv!Disappear(s, d, c)
           v == Lv!OnDisappear(s, d, c)
<1>1. Still(s, t) /\ t.attacked[d] # c /\ (d \in Monsters => t.followed[d] # c)
  BY DisappearStill
<1>2. \/ v = t
      \/ d \in Monsters /\ v = Lv!SetIdle(t, d, TRUE)
      \/ d \in Monsters /\ v = Lv!Leave(t, d, c)
  BY DEF Lv!OnDisappear
<1> HIDE DEF t, v
<1>3. Core(t) /\ t.life[d] # "absent"
  BY <1>1 DEF Still, Quiet, Frame
<1>4. d \in Monsters => Still(t, Lv!SetIdle(t, d, TRUE))
  <2> DEFINE b == TRUE
  <2> HIDE DEF b
  <2>1. d \in Monsters => Still(t, Lv!SetIdle(t, d, b))
    BY <1>3, SetIdleStill
  <2>2. QED
    BY <2>1 DEF b
<1>5. d \in Monsters => Still(t, Lv!Leave(t, d, c))
  BY <1>3, LeaveStill
<1>6. Still(t, v)
  BY <1>2, <1>3, <1>4, <1>5, Stays1
<1>7. Still(s, v)
  BY <1>1, <1>6, StillStill
<1>8. None # c
  BY DEF Cast
<1>9. v.attacked[d] # c /\ (d \in Monsters => v.followed[d] # c)
  BY <1>1, <1>6, <1>8 DEF Still, Quiet
<1>10. QED
  BY <1>7, <1>9 DEF v

\* None but a living monster that goes idle or is told of a departure loses what it lists.
LEMMA ShrinksShrinks ==
  ASSUME NEW s, NEW t, NEW u, NEW M, Shrinks(s, t, M), Shrinks(t, u, M) PROVE Shrinks(s, u, M)
BY DEF Shrinks

LEMMA ClearListsShrinks ==
  ASSUME NEW s \in Lv!State, NEW m \in Monsters
  PROVE  LET t == Lv!ClearLists(s, m)
         IN  /\ t \in Lv!State /\ Shrinks(s, t, Monsters)
             /\ t.targets[m] = {} /\ t.friends[m] = {}
<1> DEFINE u == Lv!UnRefAll(s, s.targets[m])
           v == Lv!UnRefAll(u, s.friends[m])
           t == Lv!ClearLists(s, m)
<1>1. Recount(s, u)
  BY UnRefAllShape
<1>2. Recount(u, v)
  BY <1>1, UnRefAllShape DEF Recount
<1>3. t = [v EXCEPT !.targets[m] = {}, !.friends[m] = {}]
  BY DEF Lv!ClearLists
<1> HIDE DEF t, u, v
<1>4. v \in Lv!State /\ v.targets = s.targets /\ v.friends = s.friends
  BY <1>1, <1>2 DEF Recount
<1>5. /\ t \in Lv!State
      /\ t.targets = [s.targets EXCEPT ![m] = {}] /\ t.friends = [s.friends EXCEPT ![m] = {}]
  BY <1>3, <1>4 DEF Lv!State
<1>6. t.targets[m] = {} /\ t.friends[m] = {} /\ Shrinks(s, t, Monsters)
  BY <1>5 DEF Shrinks, Lv!State
<1>7. QED
  BY <1>5, <1>6 DEF t

LEMMA SetIdleShrinks ==
  ASSUME NEW s \in Lv!State, NEW m \in Monsters, Monsters \subseteq Lv!Creature, NEW b
  PROVE  LET t == Lv!SetIdle(s, m, b)
         IN  /\ Shrinks(s, t, Monsters)
             /\ b /\ s.life[m] # "out" => Emptied(t, m)
<1> DEFINE a == [s EXCEPT !.idle = @ \cup {m}]
           w == [s EXCEPT !.idle = @ \ {m}]
           e == Lv!ClearLists(a, m)
           t == Lv!SetIdle(s, m, b)
<1>1. CASE s.life[m] = "out" \/ m \in s.dead
  <2>1. t = s
    BY <1>1 DEF Lv!SetIdle
  <2> HIDE DEF t
  <2>2. Shrinks(s, t, Monsters) /\ (b /\ s.life[m] # "out" => Emptied(t, m))
    BY <1>1, <2>1 DEF Shrinks, Emptied
  <2>3. QED
    BY <2>2 DEF t
<1>2. CASE ~(s.life[m] = "out" \/ m \in s.dead) /\ b
  <2>1. t = Lv!RemoveCheck(e, m)
    BY <1>2 DEF Lv!SetIdle
  <2>2. a \in Lv!State /\ a.targets = s.targets /\ a.friends = s.friends
    BY DEF Lv!State
  <2> HIDE DEF a
  <2>3. e \in Lv!State /\ Shrinks(a, e, Monsters) /\ e.targets[m] = {} /\ e.friends[m] = {}
    BY <2>2, ClearListsShrinks
  <2> HIDE DEF e, t
  <2>4. t.targets = e.targets /\ t.friends = e.friends
    BY <2>1, <2>3 DEF Lv!RemoveCheck, Lv!State
  <2>5. Shrinks(s, t, Monsters) /\ Emptied(t, m)
    BY <2>2, <2>3, <2>4 DEF Shrinks, Emptied
  <2>6. QED
    BY <2>5 DEF t
<1>3. CASE ~(s.life[m] = "out" \/ m \in s.dead) /\ ~b
  <2>1. t = Lv!AddCheck(w, m)
    BY <1>3 DEF Lv!SetIdle
  <2>2. w \in Lv!State /\ w.targets = s.targets /\ w.friends = s.friends
    BY DEF Lv!State
  <2> DEFINE x == [w EXCEPT !.checked = @ \cup {m}, !.slotted = @ \cup {m}]
             y == [w EXCEPT !.checked = @ \cup {m}]
             z == Lv!Ref(x, m)
  <2> HIDE DEF w, t
  <2>3. t = IF w.life[m] = "out" THEN w ELSE IF m \in w.slotted THEN y ELSE z
    BY <2>1 DEF Lv!AddCheck
  <2>4. /\ x \in Lv!State /\ x.targets = w.targets /\ x.friends = w.friends
        /\ y.targets = w.targets /\ y.friends = w.friends
    <3> DEFINE P == w.checked \cup {m}
               Q == w.slotted \cup {m}
    <3>1. P \in SUBSET Lv!Creature /\ Q \in SUBSET Lv!Creature
      BY <2>2 DEF Lv!State
    <3> HIDE DEF P, Q
    <3>2. [w EXCEPT !.checked = P, !.slotted = Q] \in Lv!State
      BY <2>2, <3>1 DEF Lv!State
    <3>3. /\ [w EXCEPT !.checked = P, !.slotted = Q].targets = w.targets
          /\ [w EXCEPT !.checked = P, !.slotted = Q].friends = w.friends
          /\ [w EXCEPT !.checked = P].targets = w.targets
          /\ [w EXCEPT !.checked = P].friends = w.friends
      BY <2>2 DEF Lv!State
    <3>4. QED
      BY <3>2, <3>3 DEF P, Q
  <2> HIDE DEF x, y
  <2>5. t.targets = w.targets /\ t.friends = w.friends
    <3>1. z.targets = x.targets /\ z.friends = x.friends
      BY <2>4, RefShape DEF Recount
    <3> HIDE DEF z
    <3>2. t = w \/ t = y \/ t = z
      BY <2>3
    <3>3. QED
      BY <2>4, <3>1, <3>2
  <2>6. Shrinks(s, t, Monsters)
    BY <2>2, <2>5 DEF Shrinks
  <2>7. QED
    BY <1>3, <2>6 DEF t
<1>4. QED
  BY <1>1, <1>2, <1>3

LEMMA UpdateIdleShrinks ==
  ASSUME NEW s \in Lv!State, NEW m \in Monsters, Monsters \subseteq Lv!Creature
  PROVE  Shrinks(s, Lv!UpdateIdle(s, m), Monsters)
<1> DEFINE leader == s.master[m]
           b == IF leader # None THEN m \notin s.inRange \/ leader \in s.idle
                ELSE s.targets[m] = {}
<1>1. Lv!UpdateIdle(s, m) = Lv!SetIdle(s, m, b)
  BY DEF Lv!UpdateIdle
<1> HIDE DEF b
<1>2. QED
  BY <1>1, SetIdleShrinks

LEMMA LeaveShrinks ==
  ASSUME Cast, NEW s, Core(s), NEW m \in Monsters, s.life[m] # "absent",
         NEW c \in Lv!Creature
  PROVE  Shrinks(s, Lv!Leave(s, m, c), Monsters)
<1> DEFINE a == [s EXCEPT !.inRange = @ \ {m}]
           t == IF s.master[m] = c THEN Lv!UpdateIdle(a, m) ELSE s
           x == [t EXCEPT !.friends[m] = @ \ {c}]
           u == IF Lv!IsFriend(t, m, c) /\ c \in t.friends[m] THEN Lv!UnRef(x, c) ELSE t
           y == [u EXCEPT !.targets[m] = @ \ {c}]
           v == Lv!UnRef(y, c)
           P == Lv!IsOpponent(u, m, c) /\ c \in u.targets[m]
           w == IF P THEN IF v.targets[m] = {} THEN Lv!UpdateIdle(v, m) ELSE v ELSE u
<1>1. Lv!Leave(s, m, c) = w
  BY DEF Lv!Leave
<1>2. Monsters \subseteq Lv!Creature /\ s \in Lv!State
  BY DEF Cast, Core
<1>3. Still(s, a) /\ a.targets = s.targets /\ a.friends = s.friends
  <2>1. Marks(s, a)
    BY <1>2 DEF Marks, Frame, Lv!State
  <2>2. QED
    BY <2>1, MarksStill DEF Marks
<1> HIDE DEF a
<1>4. t \in Lv!State /\ Shrinks(s, t, Monsters)
  <2>1. Shrinks(s, a, Monsters) /\ a \in Lv!State /\ Core(a) /\ a.life[m] # "absent"
    BY <1>3 DEF Shrinks, Still, Core, Quiet, Frame
  <2>2. Shrinks(a, Lv!UpdateIdle(a, m), Monsters)
    BY <1>2, <2>1, UpdateIdleShrinks
  <2>3. Shrinks(s, Lv!UpdateIdle(a, m), Monsters)
    BY <2>1, <2>2, ShrinksShrinks
  <2>4. Lv!UpdateIdle(a, m) \in Lv!State
    BY <2>1, UpdateIdleStill DEF Still, Core
  <2>5. Shrinks(s, s, Monsters)
    BY DEF Shrinks
  <2>6. QED
    BY <1>2, <2>3, <2>4, <2>5
<1> HIDE DEF t
<1>5. x \in Lv!State /\ Shrinks(t, x, Monsters)
  <2>1. /\ x \in Lv!State /\ x.targets = t.targets
        /\ x.friends = [t.friends EXCEPT ![m] = @ \ {c}]
    BY <1>4 DEF Lv!State
  <2> HIDE DEF x
  <2>2. QED
    BY <1>4, <2>1 DEF Shrinks, Lv!State
<1> HIDE DEF x
<1>6. u \in Lv!State /\ Shrinks(s, u, Monsters)
  <2>1. Recount(x, Lv!UnRef(x, c))
    BY <1>5, UnRefShape
  <2>2. Lv!UnRef(x, c) \in Lv!State /\ Shrinks(t, Lv!UnRef(x, c), Monsters)
    BY <1>5, <2>1 DEF Recount, Shrinks
  <2>3. Shrinks(s, Lv!UnRef(x, c), Monsters)
    BY <1>4, <2>2, ShrinksShrinks
  <2>4. QED
    BY <1>4, <2>2, <2>3
<1> HIDE DEF u
<1>7. y \in Lv!State /\ Shrinks(u, y, Monsters)
  <2>1. /\ y \in Lv!State /\ y.friends = u.friends
        /\ y.targets = [u.targets EXCEPT ![m] = @ \ {c}]
    BY <1>6 DEF Lv!State
  <2> HIDE DEF y
  <2>2. QED
    BY <1>6, <2>1 DEF Shrinks, Lv!State
<1> HIDE DEF y
<1>8. v \in Lv!State /\ Shrinks(s, v, Monsters)
  <2>1. Recount(y, v)
    BY <1>7, UnRefShape
  <2> HIDE DEF v
  <2>2. v \in Lv!State /\ Shrinks(u, v, Monsters)
    BY <1>7, <2>1 DEF Recount, Shrinks
  <2>3. QED
    BY <1>6, <2>2, ShrinksShrinks
<1> HIDE DEF v, P
<1>9. Shrinks(s, Lv!UpdateIdle(v, m), Monsters)
  <2>1. Shrinks(v, Lv!UpdateIdle(v, m), Monsters)
    BY <1>2, <1>8, UpdateIdleShrinks
  <2>2. QED
    BY <1>8, <2>1, ShrinksShrinks
<1>10. Shrinks(s, w, Monsters)
  BY <1>6, <1>8, <1>9
<1>11. QED
  BY <1>1, <1>10

LEMMA DisappearShrinks ==
  ASSUME Cast, NEW s \in Lv!State, NEW c \in Lv!Creature, NEW x \in Lv!Creature
  PROVE  LET t == Lv!Disappear(s, c, x)
         IN  t.targets = s.targets /\ t.friends = s.friends
<1> DEFINE v == Lv!SetAttacked(s, c, None)
           t == IF s.attacked[c] = x THEN v ELSE s
           u == Lv!Disappear(s, c, x)
<1>1. u = IF c \in Monsters /\ t.followed[c] = x THEN Lv!SetFollow(t, c, None) ELSE t
  BY DEF Lv!Disappear
<1>2. /\ v = [s EXCEPT !.attacked = v.attacked]
      /\ v.attacked \in [Lv!Creature -> Lv!Creature \cup {None}]
  BY SetAttackedShape
<1> HIDE DEF v
<1>3. v \in Lv!State /\ v.targets = s.targets /\ v.friends = s.friends
  <2> DEFINE A == v.attacked
  <2>1. v = [s EXCEPT !.attacked = A] /\ A \in [Lv!Creature -> Lv!Creature \cup {None}]
    BY <1>2
  <2> HIDE DEF A
  <2>2. QED
    BY <2>1 DEF Lv!State
<1>4. t \in Lv!State /\ t.targets = s.targets /\ t.friends = s.friends
  BY <1>3
<1> HIDE DEF t, u
<1>5. u = t \/ u = [t EXCEPT !.followed[c] = None]
  BY <1>1 DEF Lv!SetFollow
<1>6. u.targets = s.targets /\ u.friends = s.friends
  BY <1>4, <1>5 DEF Lv!State
<1>7. QED
  BY <1>6 DEF u

\* Monster::onCreatureDisappear(): it lists nobody more, and nobody when it goes itself.
LEMMA OnDisappearShrinks ==
  ASSUME Cast, NEW s, Core(s), NEW d \in Lv!Creature, s.life[d] # "absent",
         NEW c \in Lv!Creature
  PROVE  LET t == Lv!OnDisappear(s, d, c)
         IN  /\ Shrinks(s, t, Monsters)
             /\ d = c /\ d \in Monsters /\ s.life[d] = "in" => Emptied(t, d)
<1> DEFINE t == Lv!Disappear(s, d, c)
           v == Lv!OnDisappear(s, d, c)
<1>1. Core(t) /\ t \in Lv!State /\ t.life = s.life
  BY DisappearStill DEF Still, Quiet, Frame, Core
<1>2. Shrinks(s, t, Monsters)
  <2>1. t.targets = s.targets /\ t.friends = s.friends
    BY DisappearShrinks DEF Core
  <2> HIDE DEF t
  <2>2. QED
    BY <2>1 DEF Shrinks
<1>3. /\ d \notin Monsters => v = t
      /\ d \in Monsters /\ d = c => v = Lv!SetIdle(t, d, TRUE)
      /\ d \in Monsters /\ d # c => v = Lv!Leave(t, d, c)
  BY DEF Lv!OnDisappear
<1> HIDE DEF t, v
<1>4. CASE d \notin Monsters
  BY <1>2, <1>3, <1>4 DEF v
<1>5. CASE d \in Monsters /\ d = c
  <2> DEFINE b == TRUE
  <2>1. b
    OBVIOUS
  <2>2. v = Lv!SetIdle(t, d, b)
    BY <1>3, <1>5
  <2> HIDE DEF b
  <2>3. Shrinks(t, v, Monsters) /\ (t.life[d] # "out" => Emptied(v, d))
    BY <1>1, <1>5, <2>1, <2>2, SetIdleShrinks DEF Cast
  <2>4. Shrinks(s, v, Monsters)
    BY <1>2, <2>3, ShrinksShrinks
  <2>5. QED
    BY <1>1, <2>3, <2>4 DEF v
<1>6. CASE d \in Monsters /\ d # c
  <2>1. Shrinks(t, v, Monsters)
    BY <1>1, <1>3, <1>6, LeaveShrinks
  <2>2. Shrinks(s, v, Monsters)
    BY <1>2, <2>1, ShrinksShrinks
  <2>3. QED
    BY <1>6, <2>2 DEF v
<1>7. QED
  BY <1>4, <1>5, <1>6

\* Monster::onCreatureMove(), of c for d: who was attacked or followed by d is near
\* afterwards, if he was near before, unless c is one of the two.
Nearly(s, d, c) ==
  s.life[d] = "in" =>
    /\ s.attacked[d] = None \/ Lv!Near(s, d, s.attacked[d]) \/ c \in {d, s.attacked[d]}
    /\ d \in Monsters => \/ s.followed[d] = None \/ Lv!Near(s, d, s.followed[d])
                         \/ c \in {d, s.followed[d]}

LEMMA NearlyEased ==
  ASSUME NEW s, NEW t, Eased(s, t), NEW d \in Lv!Creature, NEW c, Nearly(s, d, c)
  PROVE  Nearly(t, d, c)
<1>1. t.life = s.life /\ t.near = s.near
  BY DEF Eased, Calm, Frame
<1>2. \A x : Lv!Near(t, d, x) <=> Lv!Near(s, d, x)
  BY <1>1 DEF Lv!Near
<1>3. QED
  BY <1>1, <1>2 DEF Nearly, Eased, Calm

LEMMA PursueAims ==
  ASSUME Cast, NEW s, Core(s), NEW d \in Lv!Creature, NEW c \in Lv!Creature, Nearly(s, d, c)
  PROVE  Aims(Lv!Pursue(s, d, c), d)
<1> DEFINE t == Lv!Pursue(s, d, c)
<1>1. /\ Still(s, t)
      /\ t.attacked[d] # None /\ c \in {d, t.attacked[d]} => Lv!Near(s, d, t.attacked[d])
      /\ d \in Monsters /\ t.followed[d] # None /\ c \in {d, t.followed[d]}
           => Lv!Near(s, d, t.followed[d])
  BY PursueStill
<1> HIDE DEF t
<1>2. t.life = s.life /\ t.near = s.near
  BY <1>1 DEF Still, Quiet, Frame
<1>3. \A x : Lv!Near(t, d, x) <=> Lv!Near(s, d, x)
  BY <1>2 DEF Lv!Near
<1>4. /\ t.attacked[d] \in {s.attacked[d], None}
      /\ d \in Monsters => t.followed[d] \in {s.followed[d], None}
  BY <1>1 DEF Still, Quiet
<1>5. Aims(t, d)
  BY <1>1, <1>2, <1>3, <1>4 DEF Aims, Nearly
<1>6. QED
  BY <1>5 DEF t

\* What Monster::onCreatureMove() does after Creature::onCreatureMove(), a its outcome.
LEMMA OnMoveEased ==
  ASSUME Cast, NEW s, Core(s), NEW d \in Lv!Creature, s.life[d] = "in",
         NEW c \in Lv!Creature, s.life[c] = "in", NEW old, NEW ord \in Seq(Lv!Creature)
  PROVE  LET t == Lv!OnMove(s, d, c, old, ord)
         IN  Eased(s, t) /\ (Nearly(s, d, c) => Aims(t, d))
<1> DEFINE a == Lv!Pursue(s, d, c)
           now == Lv!Near(s, d, c)
           seen == IF now /\ d \notin old THEN Lv!Enter(a, d, c)
                   ELSE IF ~now /\ d \in old THEN Lv!Leave(a, d, c) ELSE a
           kept == IF now /\ seen.master[d] = c
                   THEN [seen EXCEPT !.inRange = @ \cup {d}] ELSE seen
           back == Lv!UpdateIdle(kept, d)
           own == IF a.master[c] = None THEN a
                  ELSE [a EXCEPT !.inRange = IF Lv!Near(a, c, a.master[c]) THEN @ \cup {c}
                                             ELSE @ \ {c}]
           list == Lv!UpdateTargets(own, c, ord)
           t == Lv!OnMove(s, d, c, old, ord)
<1>1. \/ t = a
      \/ d \in Monsters /\ d = c /\ t = Lv!UpdateIdle(list, c)
      \/ d \in Monsters /\ t = Lv!SelectTarget(back, d, c)
      \/ d \in Monsters /\ t = back
  BY DEF Lv!OnMove
<1>2. Still(s, a)
  BY PursueStill
<1>3. Nearly(s, d, c) => Aims(a, d)
  BY PursueAims
<1> HIDE DEF a, t
<1>4. Core(a) /\ a.life[d] = "in" /\ a.life[c] = "in"
  BY <1>2 DEF Still, Quiet, Frame
<1>5. ASSUME d \in Monsters PROVE Still(a, back)
  <2>1. Still(a, seen)
    BY <1>4, <1>5, EnterStill, LeaveStill, Stays1
  <2> HIDE DEF seen
  <2>2. Still(seen, kept)
    <3> DEFINE R == seen.inRange \cup {d}
    <3>1. Core(seen) /\ R \in SUBSET Monsters
      BY <1>5, <2>1 DEF Still, Core, Lv!State
    <3> HIDE DEF R
    <3>2. Still(seen, [seen EXCEPT !.inRange = R])
      BY <3>1, InRangeStill
    <3>3. Still(seen, seen)
      BY <3>1, Stays1
    <3>4. QED
      BY <3>2, <3>3 DEF R
  <2> HIDE DEF kept
  <2>3. Still(a, kept)
    BY <2>1, <2>2, StillStill
  <2>4. Core(kept) /\ kept.life[d] = "in"
    BY <1>4, <2>3 DEF Still, Quiet, Frame
  <2>5. Still(kept, back)
    BY <1>5, <2>4, UpdateIdleStill
  <2> HIDE DEF back
  <2>6. QED
    BY <2>3, <2>5, StillStill
<1>6. ASSUME d \in Monsters, d = c PROVE Still(a, Lv!UpdateIdle(list, c))
  <2>1. Still(a, own)
    <3> DEFINE R == IF Lv!Near(a, c, a.master[c]) THEN a.inRange \cup {c} ELSE a.inRange \ {c}
    <3>1. R \in SUBSET Monsters
      BY <1>4, <1>6 DEF Core, Lv!State
    <3>2. own = a \/ own = [a EXCEPT !.inRange = R]
      OBVIOUS
    <3> HIDE DEF R, own
    <3>3. Still(a, [a EXCEPT !.inRange = R])
      BY <1>4, <3>1, InRangeStill
    <3>4. QED
      BY <1>4, <3>2, <3>3, Stays1
  <2> HIDE DEF own
  <2>2. Core(own) /\ own.life[c] = "in" /\ c \in Monsters
    BY <1>4, <1>6, <2>1 DEF Still, Quiet, Frame
  <2>3. Still(own, list)
    BY <2>2, UpdateTargetsStill
  <2> HIDE DEF list
  <2>4. Still(a, list)
    BY <2>1, <2>3, StillStill
  <2>5. Core(list) /\ list.life[c] = "in"
    BY <1>4, <2>4 DEF Still, Quiet, Frame
  <2>6. Still(list, Lv!UpdateIdle(list, c))
    BY <2>2, <2>5, UpdateIdleStill
  <2>7. QED
    BY <2>4, <2>6, StillStill
<1> HIDE DEF list, back
<1>7. d \in Monsters => Eased(a, Lv!SelectTarget(back, d, c))
  <2> SUFFICES ASSUME d \in Monsters PROVE Eased(a, Lv!SelectTarget(back, d, c))
    OBVIOUS
  <2>1. Core(back) /\ Eased(a, back)
    BY <1>5, StillEased DEF Still
  <2>2. Eased(back, Lv!SelectTarget(back, d, c))
    BY <2>1, SelectTargetEased
  <2>3. QED
    BY <2>1, <2>2, EasedEased
<1>8. Eased(a, t)
  BY <1>1, <1>4, <1>5, <1>6, <1>7, StillEased, Stays1
<1>9. Eased(s, t)
  BY <1>2, <1>8, StillEased, EasedEased
<1>10. Nearly(s, d, c) => Aims(t, d)
  BY <1>3, <1>8, AimsEased
<1>11. QED
  BY <1>9, <1>10 DEF t

-----------------------------------------------------------------------------
(* What all spectators do, one after the other                             *)

AllAppear(s, ord, M, c) ==
  Lv!InTurn(s, ord, M, LAMBDA u, d : Lv!OnAppear(u, d, c, ord))
AllDisappear(s, ord, M, c) ==
  Lv!InTurn(s, ord, M, LAMBDA u, d : Lv!OnDisappear(u, d, c))
AllMove(s, ord, M, c, old) ==
  Lv!InTurn(s, ord, M, LAMBDA u, d : Lv!OnMove(u, d, c, old, ord))

\* Game::placeCreature() tells the monsters M.
LEMMA AllAppearStill ==
  ASSUME Cast, NEW s, Core(s), NEW c \in Lv!Creature, s.life[c] = "in",
         NEW ord \in Seq(Lv!Creature), NEW M \in SUBSET Monsters,
         \A d \in M : s.life[d] = "in"
  PROVE  Still(s, AllAppear(s, ord, M, c))
<1> DEFINE N == Len(ord)
           Holds(u, n) == Still(s, u)
           Good == [n \in 0 .. N |-> {u \in Lv!State : Holds(u, n)}]
           Op(u, n) == IF ord[n] \in M THEN Lv!OnAppear(u, ord[n], c, ord) ELSE u
           H == [p \in Lv!State \X (1 .. N) |-> Op(p[1], p[2])]
           Is(T) == T = [n \in 0 .. N |->
                         IF n = 0 THEN s
                         ELSE IF ord[n] \in M THEN Lv!OnAppear(T[n - 1], ord[n], c, ord)
                         ELSE T[n - 1]]
           U == CHOOSE T : Is(T)
<1>1. AllAppear(s, ord, M, c) = U[N]
  BY DEF AllAppear, Lv!InTurn
<1>2. s \in Lv!State /\ Holds(s, 0)
  BY Stays1 DEF Core
<1>3. ASSUME NEW n \in 1 .. N, NEW u \in Lv!State, Holds(u, n - 1)
       PROVE  Op(u, n) \in Lv!State /\ Holds(Op(u, n), n)
  <2>1. CASE ord[n] \in M
    <3> DEFINE d == ord[n]
    <3>1. d \in Monsters /\ s.life[d] = "in"
      BY <2>1
    <3> HIDE DEF d
    <3>2. Core(u) /\ u.life[d] = "in" /\ u.life[c] = "in"
      BY <1>3, <3>1 DEF Still, Quiet, Frame
    <3>3. Still(u, Lv!OnAppear(u, d, c, ord))
      BY <3>1, <3>2, OnAppearStill
    <3>4. Still(s, Lv!OnAppear(u, d, c, ord))
      BY <1>3, <3>3, StillStill
    <3>5. QED
      BY <2>1, <3>4 DEF d, Still, Core
  <2>2. CASE ord[n] \notin M
    BY <1>3, <2>2
  <2>3. QED
    BY <2>1, <2>2
<1>4. N \in Nat /\ \A n \in 1 .. N : n \in 0 .. N /\ n - 1 \in 0 .. N /\ n # 0
  OBVIOUS
<1>5. \A u \in Lv!State, n \in 1 .. N : H[<<u, n>>] = Op(u, n)
  <2> HIDE DEF Op
  <2>1. QED
    OBVIOUS
<1>6. \A n \in 0 .. N : \A u : u \in Good[n] <=> u \in Lv!State /\ Holds(u, n)
  <2> HIDE DEF Holds
  <2>1. QED
    OBVIOUS
<1> HIDE DEF H, N, Good, Holds, Op
<1>7. Steps(H, N, Good) /\ s \in Good[0]
  <2>1. 0 \in 0 .. N
    BY <1>4
  <2>2. s \in Good[0]
    BY <1>2, <1>6, <2>1
  <2>3. ASSUME NEW n \in 1 .. N, NEW u \in Good[n - 1] PROVE H[<<u, n>>] \in Good[n]
    <3>1. u \in Lv!State /\ Holds(u, n - 1) /\ n \in 0 .. N
      BY <1>4, <1>6
    <3>2. Op(u, n) \in Lv!State /\ Holds(Op(u, n), n)
      BY <1>3, <3>1
    <3>3. QED
      BY <1>5, <1>6, <3>1, <3>2
  <2>4. QED
    BY <2>2, <2>3 DEF Steps
<1>8. PICK T : Turns(T, H, N, Good, s)
  BY <1>4, <1>7, LoopExists
<1>9. /\ T = [n \in 0 .. N |-> IF n = 0 THEN s ELSE H[<<T[n - 1], n>>]]
      /\ \A n \in 0 .. N : T[n] \in Lv!State
  BY <1>6, <1>8 DEF Turns
<1>10. Is(T)
  <2>1. \A n \in 0 .. N : n # 0 => H[<<T[n - 1], n>>] = Op(T[n - 1], n)
    <3> SUFFICES ASSUME NEW n \in 0 .. N, n # 0 PROVE H[<<T[n - 1], n>>] = Op(T[n - 1], n)
      OBVIOUS
    <3>1. n \in 1 .. N /\ n - 1 \in 0 .. N
      BY <1>4
    <3>2. QED
      BY <1>5, <1>9, <3>1
  <2>2. \A n \in 0 .. N : (IF n = 0 THEN s ELSE H[<<T[n - 1], n>>])
                            = (IF n = 0 THEN s ELSE Op(T[n - 1], n))
    BY <2>1
  <2>3. [n \in 0 .. N |-> IF n = 0 THEN s ELSE H[<<T[n - 1], n>>]]
          = [n \in 0 .. N |-> IF n = 0 THEN s ELSE Op(T[n - 1], n)]
    BY <2>2
  <2>4. QED
    BY <1>9, <2>3 DEF Op
<1>11. Is(U)
  BY <1>10
<1>12. \A n \in 0 .. N : U[n] = IF n = 0 THEN s ELSE Op(U[n - 1], n)
  <2> HIDE DEF U
  <2>1. QED
    BY <1>11 DEF Op
<1> HIDE DEF Is, U
<1>13. Stays(U, N, Good)
  <2>1. U[0] \in Good[0] /\ 0 \in 0 .. N
    <3>1. 0 \in 0 .. N
      BY <1>4
    <3>2. U[0] = s
      BY <3>1, <1>12
    <3>3. QED
      BY <3>1, <3>2, <1>7
  <2>2. ASSUME NEW n \in 1 .. N, U[n - 1] \in Good[n - 1] PROVE U[n] \in Good[n]
    <3>1. U[n - 1] \in Lv!State /\ Holds(U[n - 1], n - 1) /\ U[n] = Op(U[n - 1], n)
      BY <1>4, <1>6, <1>12, <2>2
    <3> DEFINE u == U[n - 1]
    <3> HIDE DEF u
    <3>2. Op(u, n) \in Lv!State /\ Holds(Op(u, n), n)
      BY <1>3, <3>1 DEF u
    <3>3. QED
      BY <1>4, <1>6, <3>1, <3>2 DEF u
  <2>3. QED
    BY <2>1, <2>2 DEF Stays
<1>14. N \in 0 .. N
  BY <1>4
<1>15. Holds(U[N], N)
  BY <1>4, <1>6, <1>13, <1>14, LoopStays
<1>16. QED
  BY <1>1, <1>15 DEF Holds

\* Game::removeCreature() tells those in M, none of whom attacks or follows c then.
LEMMA AllDisappearStill ==
  ASSUME Cast, NEW s, Core(s), NEW c \in Lv!Creature,
         NEW ord \in Seq(Lv!Creature), NEW M \in SUBSET Lv!Creature,
         \A d \in M : s.life[d] # "absent", M \subseteq Lv!ToSet(ord)
  PROVE  LET t == AllDisappear(s, ord, M, c)
         IN  /\ Still(s, t)
             /\ \A d \in M : t.attacked[d] # c /\ (d \in Monsters => t.followed[d] # c)
             /\ c \in M \cap Monsters /\ s.life[c] = "in" => Emptied(t, c)
<1> DEFINE Spared(u, d) == /\ u.attacked[d] # c /\ (d \in Monsters => u.followed[d] # c)
                           /\ d = c /\ d \in Monsters /\ u.life[d] = "in" => Emptied(u, d)
           N == Len(ord)
           Holds(u, n) == Still(s, u) /\ \A k \in 1 .. n : ord[k] \in M => Spared(u, ord[k])
           Good == [n \in 0 .. N |-> {u \in Lv!State : Holds(u, n)}]
           Op(u, n) == IF ord[n] \in M THEN Lv!OnDisappear(u, ord[n], c) ELSE u
           H == [p \in Lv!State \X (1 .. N) |-> Op(p[1], p[2])]
           Is(T) == T = [n \in 0 .. N |->
                         IF n = 0 THEN s
                         ELSE IF ord[n] \in M THEN Lv!OnDisappear(T[n - 1], ord[n], c)
                         ELSE T[n - 1]]
           U == CHOOSE T : Is(T)
<1>1. AllDisappear(s, ord, M, c) = U[N]
  BY DEF AllDisappear, Lv!InTurn
<1>2. s \in Lv!State /\ Holds(s, 0)
  BY Stays1 DEF Core
<1>3. ASSUME NEW n \in 1 .. N, NEW u \in Lv!State, Holds(u, n - 1)
       PROVE  Op(u, n) \in Lv!State /\ Holds(Op(u, n), n)
  <2>1. \A k \in 1 .. n : k = n \/ k \in 1 .. n - 1
    OBVIOUS
  <2>2. CASE ord[n] \in M
    <3> DEFINE d == ord[n]
               v == Lv!OnDisappear(u, d, c)
    <3>1. d \in Lv!Creature /\ s.life[d] # "absent"
      BY <2>2
    <3> HIDE DEF d
    <3>2. Core(u) /\ u.life[d] # "absent"
      BY <1>3, <3>1 DEF Still, Quiet, Frame
    <3>3. Still(u, v) /\ v.attacked[d] # c /\ (d \in Monsters => v.followed[d] # c)
      BY <3>1, <3>2, OnDisappearStill
    <3>4. /\ Shrinks(u, v, Monsters)
          /\ d = c /\ d \in Monsters /\ u.life[d] = "in" => Emptied(v, d)
      BY <3>1, <3>2, OnDisappearShrinks
    <3> HIDE DEF v
    <3>5. v.life = u.life /\ v.dead = u.dead
      BY <3>3 DEF Still, Quiet, Frame
    <3>6. Spared(v, d)
      BY <3>3, <3>4, <3>5
    <3>7. Still(s, v)
      BY <1>3, <3>3, StillStill
    <3>8. \A k \in 1 .. n : ord[k] \in M => Spared(v, ord[k])
      <4> SUFFICES ASSUME NEW k \in 1 .. n, ord[k] \in M PROVE Spared(v, ord[k])
        OBVIOUS
      <4>1. CASE k = n
        BY <3>6, <4>1 DEF d
      <4>2. CASE k \in 1 .. n - 1
        <5> DEFINE e == ord[k]
        <5>1. Spared(u, e) /\ e \in Lv!Creature /\ None # c
          BY <1>3, <4>2 DEF Cast
        <5> HIDE DEF e
        <5>2. v.attacked[e] # c /\ (e \in Monsters => v.followed[e] # c)
          BY <3>3, <5>1 DEF Still, Quiet
        <5>3. e \in Monsters /\ Emptied(u, e) => Emptied(v, e)
          BY <3>4, <3>5 DEF Emptied, Shrinks
        <5>4. Spared(v, e)
          BY <3>5, <5>1, <5>2, <5>3
        <5>5. QED
          BY <5>4 DEF e
      <4>3. QED
        BY <2>1, <4>1, <4>2
    <3>9. Op(u, n) = v
      BY <2>2 DEF v, d
    <3>10. QED
      BY <3>7, <3>8, <3>9 DEF Still, Core
  <2>3. CASE ord[n] \notin M
    BY <1>3, <2>1, <2>3
  <2>4. QED
    BY <2>2, <2>3
<1> HIDE DEF Spared
<1>4. N \in Nat /\ \A n \in 1 .. N : n \in 0 .. N /\ n - 1 \in 0 .. N /\ n # 0
  OBVIOUS
<1>5. \A u \in Lv!State, n \in 1 .. N : H[<<u, n>>] = Op(u, n)
  <2> HIDE DEF Op
  <2>1. QED
    OBVIOUS
<1>6. \A n \in 0 .. N : \A u : u \in Good[n] <=> u \in Lv!State /\ Holds(u, n)
  <2> HIDE DEF Holds
  <2>1. QED
    OBVIOUS
<1> HIDE DEF H, N, Good, Holds, Op
<1>7. Steps(H, N, Good) /\ s \in Good[0]
  <2>1. 0 \in 0 .. N
    BY <1>4
  <2>2. s \in Good[0]
    BY <1>2, <1>6, <2>1
  <2>3. ASSUME NEW n \in 1 .. N, NEW u \in Good[n - 1] PROVE H[<<u, n>>] \in Good[n]
    <3>1. u \in Lv!State /\ Holds(u, n - 1) /\ n \in 0 .. N
      BY <1>4, <1>6
    <3>2. Op(u, n) \in Lv!State /\ Holds(Op(u, n), n)
      BY <1>3, <3>1
    <3>3. QED
      BY <1>5, <1>6, <3>1, <3>2
  <2>4. QED
    BY <2>2, <2>3 DEF Steps
<1>8. PICK T : Turns(T, H, N, Good, s)
  BY <1>4, <1>7, LoopExists
<1>9. /\ T = [n \in 0 .. N |-> IF n = 0 THEN s ELSE H[<<T[n - 1], n>>]]
      /\ \A n \in 0 .. N : T[n] \in Lv!State
  BY <1>6, <1>8 DEF Turns
<1>10. Is(T)
  <2>1. \A n \in 0 .. N : n # 0 => H[<<T[n - 1], n>>] = Op(T[n - 1], n)
    <3> SUFFICES ASSUME NEW n \in 0 .. N, n # 0 PROVE H[<<T[n - 1], n>>] = Op(T[n - 1], n)
      OBVIOUS
    <3>1. n \in 1 .. N /\ n - 1 \in 0 .. N
      BY <1>4
    <3>2. QED
      BY <1>5, <1>9, <3>1
  <2>2. \A n \in 0 .. N : (IF n = 0 THEN s ELSE H[<<T[n - 1], n>>])
                            = (IF n = 0 THEN s ELSE Op(T[n - 1], n))
    BY <2>1
  <2>3. [n \in 0 .. N |-> IF n = 0 THEN s ELSE H[<<T[n - 1], n>>]]
          = [n \in 0 .. N |-> IF n = 0 THEN s ELSE Op(T[n - 1], n)]
    BY <2>2
  <2>4. QED
    BY <1>9, <2>3 DEF Op
<1>11. Is(U)
  BY <1>10
<1>12. \A n \in 0 .. N : U[n] = IF n = 0 THEN s ELSE Op(U[n - 1], n)
  <2> HIDE DEF U
  <2>1. QED
    BY <1>11 DEF Op
<1> HIDE DEF Is, U
<1>13. Stays(U, N, Good)
  <2>1. U[0] \in Good[0] /\ 0 \in 0 .. N
    <3>1. 0 \in 0 .. N
      BY <1>4
    <3>2. U[0] = s
      BY <3>1, <1>12
    <3>3. QED
      BY <3>1, <3>2, <1>7
  <2>2. ASSUME NEW n \in 1 .. N, U[n - 1] \in Good[n - 1] PROVE U[n] \in Good[n]
    <3>1. U[n - 1] \in Lv!State /\ Holds(U[n - 1], n - 1) /\ U[n] = Op(U[n - 1], n)
      BY <1>4, <1>6, <1>12, <2>2
    <3> DEFINE u == U[n - 1]
    <3> HIDE DEF u
    <3>2. Op(u, n) \in Lv!State /\ Holds(Op(u, n), n)
      BY <1>3, <3>1 DEF u
    <3>3. QED
      BY <1>4, <1>6, <3>1, <3>2 DEF u
  <2>3. QED
    BY <2>1, <2>2 DEF Stays
<1>14. N \in 0 .. N
  BY <1>4
<1>15. Holds(U[N], N)
  BY <1>4, <1>6, <1>13, <1>14, LoopStays
<1>16. Still(s, U[N]) /\ \A k \in 1 .. N : ord[k] \in M => Spared(U[N], ord[k])
  BY <1>15 DEF Holds
<1>17. ASSUME NEW d \in M PROVE Spared(U[N], d)
  <2>1. PICK k \in 1 .. N : ord[k] = d
    BY DEF Lv!ToSet, N
  <2>2. QED
    BY <1>16, <2>1
<1>18. U[N].life = s.life
  BY <1>16 DEF Still, Quiet, Frame
<1>19. QED
  BY <1>1, <1>16, <1>17, <1>18 DEF Spared

\* Game::internalMoveCreature() tells those in M, whose aims are good then.
LEMMA AllMoveEased ==
  ASSUME Cast, NEW s, Core(s), NEW c \in Lv!Creature, s.life[c] = "in",
         NEW ord \in Seq(Lv!Creature), NEW M \in SUBSET Lv!Creature, NEW old,
         \A d \in M : s.life[d] = "in" /\ Nearly(s, d, c), M \subseteq Lv!ToSet(ord)
  PROVE  LET t == AllMove(s, ord, M, c, old) IN Eased(s, t) /\ \A d \in M : Aims(t, d)
<1> DEFINE N == Len(ord)
           Holds(u, n) == Eased(s, u) /\ \A k \in 1 .. n : ord[k] \in M => Aims(u, ord[k])
           Good == [n \in 0 .. N |-> {u \in Lv!State : Holds(u, n)}]
           Op(u, n) == IF ord[n] \in M THEN Lv!OnMove(u, ord[n], c, old, ord) ELSE u
           H == [p \in Lv!State \X (1 .. N) |-> Op(p[1], p[2])]
           Is(T) == T = [n \in 0 .. N |->
                         IF n = 0 THEN s
                         ELSE IF ord[n] \in M THEN Lv!OnMove(T[n - 1], ord[n], c, old, ord)
                         ELSE T[n - 1]]
           U == CHOOSE T : Is(T)
<1>1. AllMove(s, ord, M, c, old) = U[N]
  BY DEF AllMove, Lv!InTurn
<1>2. s \in Lv!State /\ Holds(s, 0)
  BY Stays1, StillEased DEF Core
<1>3. ASSUME NEW n \in 1 .. N, NEW u \in Lv!State, Holds(u, n - 1)
       PROVE  Op(u, n) \in Lv!State /\ Holds(Op(u, n), n)
  <2>1. \A k \in 1 .. n : k = n \/ k \in 1 .. n - 1
    OBVIOUS
  <2>2. CASE ord[n] \in M
    <3> DEFINE d == ord[n]
               v == Lv!OnMove(u, d, c, old, ord)
    <3>1. d \in Lv!Creature /\ s.life[d] = "in" /\ Nearly(s, d, c) /\ Eased(s, u)
      BY <1>3, <2>2
    <3> HIDE DEF d
    <3>2. Core(u) /\ u.life[d] = "in" /\ u.life[c] = "in"
      BY <3>1 DEF Eased, Calm, Frame
    <3>3. Nearly(u, d, c)
      BY <3>1, NearlyEased
    <3>4. Eased(u, v) /\ Aims(v, d)
      BY <3>1, <3>2, <3>3, OnMoveEased
    <3> HIDE DEF v
    <3>5. Eased(s, v)
      BY <3>1, <3>4, EasedEased
    <3>6. \A k \in 1 .. n : ord[k] \in M => Aims(v, ord[k])
      <4> SUFFICES ASSUME NEW k \in 1 .. n, ord[k] \in M PROVE Aims(v, ord[k])
        OBVIOUS
      <4>1. CASE k = n
        BY <3>4, <4>1 DEF d
      <4>2. CASE k \in 1 .. n - 1
        <5>1. Aims(u, ord[k]) /\ ord[k] \in Lv!Creature
          BY <1>3, <4>2
        <5> DEFINE e == ord[k]
        <5> HIDE DEF e
        <5>2. Aims(v, e)
          BY <3>4, <5>1, AimsEased DEF e
        <5>3. QED
          BY <5>2 DEF e
      <4>3. QED
        BY <2>1, <4>1, <4>2
    <3>7. Op(u, n) = v
      BY <2>2 DEF v, d
    <3>8. QED
      BY <3>5, <3>6, <3>7 DEF Eased, Core
  <2>3. CASE ord[n] \notin M
    BY <1>3, <2>1, <2>3
  <2>4. QED
    BY <2>2, <2>3
<1>4. N \in Nat /\ \A n \in 1 .. N : n \in 0 .. N /\ n - 1 \in 0 .. N /\ n # 0
  OBVIOUS
<1>5. \A u \in Lv!State, n \in 1 .. N : H[<<u, n>>] = Op(u, n)
  <2> HIDE DEF Op
  <2>1. QED
    OBVIOUS
<1>6. \A n \in 0 .. N : \A u : u \in Good[n] <=> u \in Lv!State /\ Holds(u, n)
  <2> HIDE DEF Holds
  <2>1. QED
    OBVIOUS
<1> HIDE DEF H, N, Good, Holds, Op
<1>7. Steps(H, N, Good) /\ s \in Good[0]
  <2>1. 0 \in 0 .. N
    BY <1>4
  <2>2. s \in Good[0]
    BY <1>2, <1>6, <2>1
  <2>3. ASSUME NEW n \in 1 .. N, NEW u \in Good[n - 1] PROVE H[<<u, n>>] \in Good[n]
    <3>1. u \in Lv!State /\ Holds(u, n - 1) /\ n \in 0 .. N
      BY <1>4, <1>6
    <3>2. Op(u, n) \in Lv!State /\ Holds(Op(u, n), n)
      BY <1>3, <3>1
    <3>3. QED
      BY <1>5, <1>6, <3>1, <3>2
  <2>4. QED
    BY <2>2, <2>3 DEF Steps
<1>8. PICK T : Turns(T, H, N, Good, s)
  BY <1>4, <1>7, LoopExists
<1>9. /\ T = [n \in 0 .. N |-> IF n = 0 THEN s ELSE H[<<T[n - 1], n>>]]
      /\ \A n \in 0 .. N : T[n] \in Lv!State
  BY <1>6, <1>8 DEF Turns
<1>10. Is(T)
  <2>1. \A n \in 0 .. N : n # 0 => H[<<T[n - 1], n>>] = Op(T[n - 1], n)
    <3> SUFFICES ASSUME NEW n \in 0 .. N, n # 0 PROVE H[<<T[n - 1], n>>] = Op(T[n - 1], n)
      OBVIOUS
    <3>1. n \in 1 .. N /\ n - 1 \in 0 .. N
      BY <1>4
    <3>2. QED
      BY <1>5, <1>9, <3>1
  <2>2. \A n \in 0 .. N : (IF n = 0 THEN s ELSE H[<<T[n - 1], n>>])
                            = (IF n = 0 THEN s ELSE Op(T[n - 1], n))
    BY <2>1
  <2>3. [n \in 0 .. N |-> IF n = 0 THEN s ELSE H[<<T[n - 1], n>>]]
          = [n \in 0 .. N |-> IF n = 0 THEN s ELSE Op(T[n - 1], n)]
    BY <2>2
  <2>4. QED
    BY <1>9, <2>3 DEF Op
<1>11. Is(U)
  BY <1>10
<1>12. \A n \in 0 .. N : U[n] = IF n = 0 THEN s ELSE Op(U[n - 1], n)
  <2> HIDE DEF U
  <2>1. QED
    BY <1>11 DEF Op
<1> HIDE DEF Is, U
<1>13. Stays(U, N, Good)
  <2>1. U[0] \in Good[0] /\ 0 \in 0 .. N
    <3>1. 0 \in 0 .. N
      BY <1>4
    <3>2. U[0] = s
      BY <3>1, <1>12
    <3>3. QED
      BY <3>1, <3>2, <1>7
  <2>2. ASSUME NEW n \in 1 .. N, U[n - 1] \in Good[n - 1] PROVE U[n] \in Good[n]
    <3>1. U[n - 1] \in Lv!State /\ Holds(U[n - 1], n - 1) /\ U[n] = Op(U[n - 1], n)
      BY <1>4, <1>6, <1>12, <2>2
    <3> DEFINE u == U[n - 1]
    <3> HIDE DEF u
    <3>2. Op(u, n) \in Lv!State /\ Holds(Op(u, n), n)
      BY <1>3, <3>1 DEF u
    <3>3. QED
      BY <1>4, <1>6, <3>1, <3>2 DEF u
  <2>3. QED
    BY <2>1, <2>2 DEF Stays
<1>14. N \in 0 .. N
  BY <1>4
<1>15. Holds(U[N], N)
  BY <1>4, <1>6, <1>13, <1>14, LoopStays
<1>16. Eased(s, U[N]) /\ \A k \in 1 .. N : ord[k] \in M => Aims(U[N], ord[k])
  BY <1>15 DEF Holds
<1>17. ASSUME NEW d \in M PROVE Aims(U[N], d)
  <2>1. PICK k \in 1 .. N : ord[k] = d
    BY DEF Lv!ToSet, N
  <2>2. QED
    BY <1>16, <2>1
<1>18. QED
  BY <1>1, <1>16, <1>17

\* Monster::convinceCreature() tells the monsters M about m.
AllTold(s, ord, M, m) ==
  Lv!InTurn(s, ord, M, LAMBDA u, d : IF Lv!IsFriend(u, d, m) \/ Lv!IsOpponent(u, d, m)
                                     THEN Lv!UpdateIdle(Lv!UpdateTargets(u, d, ord), d) ELSE u)

LEMMA ToldStill ==
  ASSUME Cast, NEW s, Core(s), NEW d \in Monsters, s.life[d] = "in",
         NEW ord \in Seq(Lv!Creature)
  PROVE  Still(s, Lv!UpdateIdle(Lv!UpdateTargets(s, d, ord), d))
<1> DEFINE t == Lv!UpdateTargets(s, d, ord)
<1>1. Still(s, t)
  BY UpdateTargetsStill
<1> HIDE DEF t
<1>2. Core(t) /\ t.life[d] = "in"
  BY <1>1 DEF Still, Quiet, Frame
<1>3. Still(t, Lv!UpdateIdle(t, d))
  BY <1>2, UpdateIdleStill
<1>4. Still(s, Lv!UpdateIdle(t, d))
  BY <1>1, <1>3, StillStill
<1>5. QED
  BY <1>4 DEF t

LEMMA AllToldStill ==
  ASSUME Cast, NEW s, Core(s), NEW m \in Lv!Creature,
         NEW ord \in Seq(Lv!Creature), NEW M \in SUBSET Monsters,
         \A d \in M : s.life[d] = "in"
  PROVE  Still(s, AllTold(s, ord, M, m))
<1> DEFINE N == Len(ord)
           Holds(u, n) == Still(s, u)
           Good == [n \in 0 .. N |-> {u \in Lv!State : Holds(u, n)}]
           Op(u, n) == IF ord[n] \in M
               THEN IF Lv!IsFriend(u, ord[n], m) \/ Lv!IsOpponent(u, ord[n], m)
                    THEN Lv!UpdateIdle(Lv!UpdateTargets(u, ord[n], ord), ord[n])
                    ELSE u
               ELSE u
           H == [p \in Lv!State \X (1 .. N) |-> Op(p[1], p[2])]
           Is(T) == T = [n \in 0 .. N |-> IF n = 0 THEN s ELSE IF ord[n] \in M
               THEN IF Lv!IsFriend(T[n - 1], ord[n], m) \/ Lv!IsOpponent(T[n - 1], ord[n], m)
                    THEN Lv!UpdateIdle(Lv!UpdateTargets(T[n - 1], ord[n], ord), ord[n])
                    ELSE T[n - 1]
               ELSE T[n - 1]]
           U == CHOOSE T : Is(T)
<1>1. AllTold(s, ord, M, m) = U[N]
  BY DEF AllTold, Lv!InTurn
<1>2. s \in Lv!State /\ Holds(s, 0)
  BY Stays1 DEF Core
<1>3. ASSUME NEW n \in 1 .. N, NEW u \in Lv!State, Holds(u, n - 1)
       PROVE  Op(u, n) \in Lv!State /\ Holds(Op(u, n), n)
  <2> DEFINE d == ord[n]
             v == Lv!UpdateIdle(Lv!UpdateTargets(u, d, ord), d)
  <2>1. CASE d \in M
    <3>1. d \in Monsters /\ s.life[d] = "in"
      BY <2>1
    <3>2. Core(u) /\ u.life[d] = "in" /\ Still(s, u)
      BY <1>3, <3>1 DEF Still, Quiet, Frame
    <3>3. Op(u, n) = v \/ Op(u, n) = u
      BY <2>1
    <3> HIDE DEF d
    <3>4. Still(u, v)
      BY <3>1, <3>2, ToldStill
    <3> HIDE DEF v, Op
    <3>5. Still(s, v)
      BY <3>2, <3>4, StillStill
    <3>6. Still(s, Op(u, n))
      BY <3>2, <3>3, <3>5
    <3>7. QED
      BY <3>6 DEF Still, Core
  <2>2. CASE d \notin M
    BY <1>3, <2>2
  <2>3. QED
    BY <2>1, <2>2
<1>4. N \in Nat /\ \A n \in 1 .. N : n \in 0 .. N /\ n - 1 \in 0 .. N /\ n # 0
  OBVIOUS
<1>5. \A u \in Lv!State, n \in 1 .. N : H[<<u, n>>] = Op(u, n)
  <2> HIDE DEF Op
  <2>1. QED
    OBVIOUS
<1>6. \A n \in 0 .. N : \A u : u \in Good[n] <=> u \in Lv!State /\ Holds(u, n)
  <2> HIDE DEF Holds
  <2>1. QED
    OBVIOUS
<1> HIDE DEF H, N, Good, Holds, Op
<1>7. Steps(H, N, Good) /\ s \in Good[0]
  <2>1. 0 \in 0 .. N
    BY <1>4
  <2>2. s \in Good[0]
    BY <1>2, <1>6, <2>1
  <2>3. ASSUME NEW n \in 1 .. N, NEW u \in Good[n - 1] PROVE H[<<u, n>>] \in Good[n]
    <3>1. u \in Lv!State /\ Holds(u, n - 1) /\ n \in 0 .. N
      BY <1>4, <1>6
    <3>2. Op(u, n) \in Lv!State /\ Holds(Op(u, n), n)
      BY <1>3, <3>1
    <3>3. QED
      BY <1>5, <1>6, <3>1, <3>2
  <2>4. QED
    BY <2>2, <2>3 DEF Steps
<1>8. PICK T : Turns(T, H, N, Good, s)
  BY <1>4, <1>7, LoopExists
<1>9. /\ T = [n \in 0 .. N |-> IF n = 0 THEN s ELSE H[<<T[n - 1], n>>]]
      /\ \A n \in 0 .. N : T[n] \in Lv!State
  BY <1>6, <1>8 DEF Turns
<1>10. Is(T)
  <2>1. \A n \in 0 .. N : n # 0 => H[<<T[n - 1], n>>] = Op(T[n - 1], n)
    <3> SUFFICES ASSUME NEW n \in 0 .. N, n # 0 PROVE H[<<T[n - 1], n>>] = Op(T[n - 1], n)
      OBVIOUS
    <3>1. n \in 1 .. N /\ n - 1 \in 0 .. N
      BY <1>4
    <3>2. QED
      BY <1>5, <1>9, <3>1
  <2>2. \A n \in 0 .. N : (IF n = 0 THEN s ELSE H[<<T[n - 1], n>>])
                            = (IF n = 0 THEN s ELSE Op(T[n - 1], n))
    BY <2>1
  <2>3. [n \in 0 .. N |-> IF n = 0 THEN s ELSE H[<<T[n - 1], n>>]]
          = [n \in 0 .. N |-> IF n = 0 THEN s ELSE Op(T[n - 1], n)]
    BY <2>2
  <2>4. QED
    BY <1>9, <2>3 DEF Op
<1>11. Is(U)
  BY <1>10
<1>12. \A n \in 0 .. N : U[n] = IF n = 0 THEN s ELSE Op(U[n - 1], n)
  <2> HIDE DEF U
  <2>1. QED
    BY <1>11 DEF Op
<1> HIDE DEF Is, U
<1>13. Stays(U, N, Good)
  <2>1. U[0] \in Good[0] /\ 0 \in 0 .. N
    <3>1. 0 \in 0 .. N
      BY <1>4
    <3>2. U[0] = s
      BY <3>1, <1>12
    <3>3. QED
      BY <3>1, <3>2, <1>7
  <2>2. ASSUME NEW n \in 1 .. N, U[n - 1] \in Good[n - 1] PROVE U[n] \in Good[n]
    <3>1. U[n - 1] \in Lv!State /\ Holds(U[n - 1], n - 1) /\ U[n] = Op(U[n - 1], n)
      BY <1>4, <1>6, <1>12, <2>2
    <3> DEFINE u == U[n - 1]
    <3> HIDE DEF u
    <3>2. Op(u, n) \in Lv!State /\ Holds(Op(u, n), n)
      BY <1>3, <3>1 DEF u
    <3>3. QED
      BY <1>4, <1>6, <3>1, <3>2 DEF u
  <2>3. QED
    BY <2>1, <2>2 DEF Stays
<1>14. N \in 0 .. N
  BY <1>4
<1>15. Holds(U[N], N)
  BY <1>4, <1>6, <1>13, <1>14, LoopStays
<1>16. QED
  BY <1>1, <1>15 DEF Holds

-----------------------------------------------------------------------------
(* Masters and summons                                                     *)

\* What a creature loses its bonds in, or its life, leaves the rest of the game fair.
Cuts(s, t) ==
  /\ Fair(t)
  /\ t.life = s.life /\ t.near = s.near /\ s.dead \subseteq t.dead
  /\ \A d \in Lv!Creature : t.master[d] \in {s.master[d], None}
  /\ Shrinks(s, t, Gone(s))

LEMMA CutsCuts ==
  ASSUME NEW s, NEW t, NEW u, Cuts(s, t), Cuts(t, u) PROVE Cuts(s, u)
<1>1. Gone(t) = Gone(s)
  BY DEF Cuts, Gone
<1>2. Shrinks(s, u, Gone(s))
  BY <1>1, ShrinksShrinks DEF Cuts
<1>3. QED
  BY <1>2 DEF Cuts

LEMMA CutsNothing == ASSUME NEW s, Fair(s) PROVE Cuts(s, s)
BY DEF Cuts, Shrinks

LEMMA EasedCuts ==
  ASSUME NEW s, Fair(s), NEW t, Eased(s, t) PROVE Cuts(s, t)
<1>1. Fair(t)
  BY FairEased
<1>2. QED
  BY <1>1 DEF Cuts, Eased, Calm, Frame

LEMMA StillCuts ==
  ASSUME NEW s, Fair(s), NEW t, Still(s, t) PROVE Cuts(s, t)
BY StillEased, EasedCuts

LEMMA FullCuts ==
  ASSUME NEW s, Full(s), NEW t, Cuts(s, t) PROVE Full(t)
<1>1. Owned(t)
  BY DEF Full, Owned, Cuts
<1>2. QED
  BY <1>1 DEF Full, Cuts

\* When the summons of c change, so do the references to them.
Resummons(s, t, c, A) ==
  /\ t \in Lv!State /\ t.life = s.life /\ t.slotted = s.slotted /\ t.free = s.free
  /\ t.targets = s.targets /\ t.friends = s.friends
  /\ t.summons[c] = A /\ \A d \in Lv!Creature \ {c} : t.summons[d] = s.summons[d]
  /\ \A x \in Lv!Creature : t.refs[x] = s.refs[x] + Mark(x, A) - Mark(x, s.summons[c])

LEMMA ResummonsCounted ==
  ASSUME Cast, NEW s \in Lv!State, Counted(s), NEW c \in Lv!Creature, NEW A, NEW t,
         Resummons(s, t, c, A)
  PROVE  Counted(t)
<1> SUFFICES ASSUME NEW x \in Lv!Creature PROVE t.refs[x] = Refers(t, x)
  BY DEF Counted
<1> DEFINE F == s.summons
           H == t.summons
           i == Cardinality(Listing(F, Lv!Creature, x))
           u == Cardinality(Listing(H, Lv!Creature, x))
           j == Cardinality(Listing(s.targets, Monsters, x))
           k == Cardinality(Listing(s.friends, Monsters, x))
           n == (IF s.life[x] = "in" THEN 1 ELSE 0) + Mark(x, s.slotted) + s.free[x]
           a == Mark(x, A)
           b == Mark(x, F[c])
<1>1. IsFiniteSet(Lv!Creature) /\ IsFiniteSet(Monsters)
  BY FS_Subset DEF Cast
<1>2. i \in Nat /\ u \in Nat /\ u = i + a - b
  <2>1. H[c] = A /\ \A d \in Lv!Creature \ {c} : H[d] = F[d]
    BY DEF Resummons
  <2> HIDE DEF F, H
  <2>2. QED
    BY <1>1, <2>1, Relisted
<1>3. j \in Nat /\ k \in Nat /\ a \in Nat /\ b \in Nat
  BY <1>1, ListingCounts DEF Mark
<1>4. n \in Nat
  <2>1. s.free[x] \in Nat
    BY DEF Lv!State
  <2>2. QED
    BY <2>1 DEF Mark
<1>5. s.refs[x] = n + (i + j + k)
  BY DEF Counted, Refers, Lists
<1>6. t.refs[x] = s.refs[x] + a - b
  BY DEF Resummons
<1>7. Refers(t, x) = n + (u + j + k)
  BY DEF Refers, Lists, Resummons
<1> HIDE DEF F, H, i, u, j, k, n, a, b
<1>8. QED
  BY <1>2, <1>3, <1>4, <1>5, <1>6, <1>7

\* Creature::removeSummon()
LEMMA RemoveSummonShape ==
  ASSUME Cast, NEW s, Core(s), NEW c \in Lv!Creature, NEW m \in Lv!Creature,
         m \in s.summons[c]
  PROVE  LET t == Lv!RemoveSummon(s, c, m)
         IN  /\ Core(t) /\ t.life = s.life /\ t.dead = s.dead /\ t.near = s.near
             /\ t.free = s.free /\ t.checked = s.checked /\ t.slotted = s.slotted
             /\ t.attacked = s.attacked /\ t.followed = s.followed
             /\ t.targets = s.targets /\ t.friends = s.friends
             /\ t.master[m] = None /\ \A d \in Lv!Creature \ {m} : t.master[d] = s.master[d]
<1> DEFINE A == s.summons[c] \ {m}
           u == [s EXCEPT !.master[m] = None, !.summons[c] = @ \ {m}]
           t == Lv!RemoveSummon(s, c, m)
<1>1. s \in Lv!State /\ A \in SUBSET Lv!Creature
  BY DEF Core, Lv!State
<1>2. t = Lv!UnRef(u, m)
  BY DEF Lv!RemoveSummon
<1>3. u = [s EXCEPT !.master = [s.master EXCEPT ![m] = None],
                    !.summons = [s.summons EXCEPT ![c] = A]]
  BY <1>1 DEF Lv!State
<1>4. \A x : Mark(x, A) = Mark(x, s.summons[c]) - (IF x = m THEN 1 ELSE 0)
  BY DEF Mark
<1> HIDE DEF A, u, t
<1>5. /\ u \in Lv!State /\ u.life = s.life /\ u.dead = s.dead /\ u.free = s.free
      /\ u.near = s.near /\ u.attacked = s.attacked /\ u.followed = s.followed
      /\ u.checked = s.checked /\ u.slotted = s.slotted
      /\ u.targets = s.targets /\ u.friends = s.friends /\ u.refs = s.refs
      /\ u.master = [s.master EXCEPT ![m] = None]
      /\ u.summons = [s.summons EXCEPT ![c] = A]
  BY <1>1, <1>3 DEF Lv!State
<1>6. /\ Recount(u, t) /\ t.refs[m] = u.refs[m] - 1
      /\ \A x \in Lv!Creature \ {m} : t.refs[x] = u.refs[x]
  BY <1>2, <1>5, UnRefShape
<1>7. /\ t \in Lv!State /\ t.life = s.life /\ t.dead = s.dead /\ t.free = s.free
      /\ t.near = s.near /\ t.attacked = s.attacked /\ t.followed = s.followed
      /\ t.checked = s.checked /\ t.slotted = s.slotted
      /\ t.targets = s.targets /\ t.friends = s.friends
  BY <1>5, <1>6 DEF Recount, Frame
<1>8. t.master = [s.master EXCEPT ![m] = None] /\ t.summons = [s.summons EXCEPT ![c] = A]
  BY <1>5, <1>6 DEF Recount, Frame
<1>9. /\ t.master[m] = None /\ \A d \in Lv!Creature \ {m} : t.master[d] = s.master[d]
      /\ t.summons[c] = A /\ \A d \in Lv!Creature \ {c} : t.summons[d] = s.summons[d]
  BY <1>1, <1>8 DEF Lv!State
<1>10. Counted(t)
  <2>1. ASSUME NEW x \in Lv!Creature
        PROVE  t.refs[x] = s.refs[x] + Mark(x, A) - Mark(x, s.summons[c])
    <3>1. s.refs[x] \in Int /\ Mark(x, s.summons[c]) \in Int
      BY <1>1 DEF Lv!State, Mark
    <3>2. t.refs[x] = s.refs[x] - (IF x = m THEN 1 ELSE 0)
      BY <1>5, <1>6, <3>1
    <3>3. QED
      BY <1>4, <3>1, <3>2
  <2>2. Resummons(s, t, c, A)
    BY <1>7, <1>9, <2>1 DEF Resummons
  <2>3. Counted(s)
    BY DEF Core
  <2>4. QED
    BY <1>1, <2>2, <2>3, ResummonsCounted
<1>11. s.life[m] # "absent" /\ s.life[c] # "absent"
  <2>1. s.life[m] # "absent"
    BY AbsentIsNowhere
  <2>2. s.life[c] # "absent"
    BY DEF Core, Bare
  <2>3. QED
    BY <2>1, <2>2
<1>12. Bare(t)
  <2>1. ASSUME NEW x \in Lv!Creature, s.life[x] = "absent"
        PROVE  t.refs[x] = 0 /\ x \notin t.dead /\ t.summons[x] = {} /\ t.attacked[x] = None
    <3>1. x # m /\ x # c
      BY <1>11, <2>1
    <3>2. QED
      BY <1>5, <1>6, <1>7, <1>9, <2>1, <3>1 DEF Core, Bare
  <2>2. QED
    BY <1>7, <2>1 DEF Core, Bare
<1>13. Mastered(t)
  <2>1. \A x \in Lv!Creature : t.summons[x] \subseteq Monsters
    <3>1. \A x \in Lv!Creature : s.summons[x] \subseteq Monsters
      BY DEF Core, Mastered
    <3>2. QED
      BY <1>9, <3>1 DEF A
  <2>2. ASSUME NEW x \in Lv!Creature, NEW d \in Lv!Creature
        PROVE  d \in t.summons[x] <=> t.master[d] = x
    <3>1. d \in s.summons[x] <=> s.master[d] = x
      BY DEF Core, Mastered
    <3>2. s.master[m] = c /\ x # None
      BY DEF Core, Mastered, Cast
    <3>3. d \in t.summons[x] <=> d \in s.summons[x] /\ d # m
      <4>1. CASE x = c
        BY <1>9, <4>1 DEF A
      <4>2. CASE x # c
        BY <1>9, <3>1, <3>2, <4>2
      <4>3. QED
        BY <4>1, <4>2
    <3>4. QED
      BY <1>9, <3>1, <3>2, <3>3
  <2>3. QED
    BY <2>1, <2>2 DEF Mastered
<1>14. Present(t)
  BY <1>7 DEF Core, Present, Lv!Near
<1>15. Core(t)
  BY <1>7, <1>10, <1>12, <1>13, <1>14 DEF Core
<1>16. QED
  BY <1>7, <1>9, <1>15 DEF t

\* Aims, vigilance and life do not depend on the rest of the state.
LEMMA FairSame ==
  ASSUME NEW s, Fair(s), NEW t, Core(t), Settled(t),
         t.life = s.life, t.near = s.near, t.dead = s.dead, t.checked = s.checked,
         t.attacked = s.attacked, t.followed = s.followed
  PROVE  Fair(t)
<1>1. Alert(t)
  BY DEF Fair, Alert
<1>2. \A d, x : Lv!Near(t, d, x) <=> Lv!Near(s, d, x)
  BY DEF Lv!Near
<1>3. \A d \in Lv!Creature : Aims(t, d)
  BY <1>2 DEF Fair, Aims
<1>4. QED
  BY <1>1, <1>3 DEF Fair

LEMMA RemoveSummonCuts ==
  ASSUME Cast, NEW s, Fair(s), NEW c \in Lv!Creature, NEW m \in Lv!Creature
  PROVE  LET t == Lv!RemoveSummon(s, c, m)
         IN  Cuts(s, t) /\ (m \in s.summons[c] => t.master[m] = None)
<1> DEFINE t == Lv!RemoveSummon(s, c, m)
<1>1. Core(s)
  BY DEF Fair
<1>2. CASE m \in s.summons[c]
  <2>1. /\ Core(t) /\ t.life = s.life /\ t.dead = s.dead /\ t.near = s.near
        /\ t.checked = s.checked
        /\ t.attacked = s.attacked /\ t.followed = s.followed
        /\ t.targets = s.targets /\ t.friends = s.friends
        /\ t.master[m] = None /\ \A d \in Lv!Creature \ {m} : t.master[d] = s.master[d]
    BY <1>1, <1>2, RemoveSummonShape
  <2> HIDE DEF t
  <2>2. Shrinks(s, t, Gone(s)) /\ Settled(s)
    BY <2>1 DEF Shrinks, Fair
  <2>3. \A d \in Lv!Creature : t.master[d] \in {s.master[d], None}
    BY <2>1
  <2>4. Settled(t)
    BY <2>1, <2>2, <2>3, SettledSame DEF Cast
  <2>5. Fair(t)
    BY <2>1, <2>4, FairSame
  <2>6. Cuts(s, t) /\ t.master[m] = None
    BY <2>1, <2>2, <2>3, <2>5 DEF Cuts
  <2>7. QED
    BY <2>6 DEF t
<1>3. CASE m \notin s.summons[c]
  <2>1. t = s
    BY <1>3 DEF Lv!RemoveSummon
  <2>2. QED
    BY <1>3, <2>1, CutsNothing
<1>4. QED
  BY <1>2, <1>3

\* Creature::changeHealth(): a monster wakes up before it dies, and a player is awake.
LEMMA HurtCuts ==
  ASSUME Cast, NEW s, Fair(s), NEW c \in Lv!Creature, s.life[c] # "absent", NEW lethal
  PROVE  Cuts(s, Lv!Hurt(s, c, lethal))
<1> DEFINE t == IF c \in Monsters THEN Lv!SetIdle(s, c, FALSE) ELSE s
           u == [t EXCEPT !.dead = @ \cup {c}]
           v == Lv!Hurt(s, c, lethal)
<1>1. v = IF lethal THEN u ELSE t
  BY DEF Lv!Hurt
<1>2. Core(s)
  BY DEF Fair
<1>3. Still(s, t)
  <2> DEFINE b == FALSE
  <2> HIDE DEF b
  <2>1. c \in Monsters => Still(s, Lv!SetIdle(s, c, b))
    BY <1>2, SetIdleStill
  <2>2. QED
    BY <1>2, <2>1, Stays1 DEF b
<1>4. s.life[c] = "in" => c \in t.checked
  <2> SUFFICES ASSUME s.life[c] = "in" PROVE c \in t.checked
    OBVIOUS
  <2>1. CASE c \in Players \cup s.dead
    <3>1. c \in s.checked
      BY <2>1 DEF Fair, Alert
    <3> HIDE DEF t
    <3>2. QED
      BY <1>3, <2>1, <3>1 DEF Still, Quiet, Watched
  <2>2. CASE c \notin Players \cup s.dead
    <3>1. c \in Monsters /\ c \notin s.dead
      BY <2>2 DEF Cast
    <3>2. QED
      BY <1>2, <3>1, WakesUp
  <2>3. QED
    BY <2>1, <2>2
<1> HIDE DEF t, v
<1>5. Fair(t) /\ Cuts(s, t)
  BY <1>3, StillCuts DEF Cuts
<1>6. Core(t) /\ t \in Lv!State /\ t.life = s.life /\ t.dead = s.dead
  BY <1>3 DEF Still, Quiet, Frame, Core
<1>7. /\ u \in Lv!State /\ u.life = t.life /\ u.refs = t.refs /\ u.free = t.free
      /\ u.near = t.near /\ u.attacked = t.attacked /\ u.followed = t.followed
      /\ u.checked = t.checked /\ u.slotted = t.slotted
      /\ u.targets = t.targets /\ u.friends = t.friends
      /\ u.master = t.master /\ u.summons = t.summons /\ u.dead = t.dead \cup {c}
  BY <1>6 DEF Lv!State
<1> HIDE DEF u
<1>8. Core(u)
  <2>1. \A x : Refers(u, x) = Refers(t, x)
    BY <1>7 DEF Refers, Lists
  <2>2. Counted(u)
    BY <1>6, <1>7, <2>1 DEF Core, Counted
  <2>3. Bare(u)
    <3>1. \A x \in Lv!Creature : t.life[x] = "absent" => x # c
      BY <1>6
    <3>2. QED
      BY <1>6, <1>7, <3>1 DEF Core, Bare
  <2>4. Mastered(u)
    BY <1>6, <1>7 DEF Core, Mastered
  <2>5. Present(u)
    BY <1>6, <1>7 DEF Core, Present, Lv!Near
  <2>6. QED
    BY <1>7, <2>2, <2>3, <2>4, <2>5 DEF Core
<1>9. Fair(u)
  <2>1. Alert(u)
    <3>1. Alert(t)
      BY <1>5 DEF Fair
    <3>2. QED
      BY <1>4, <1>6, <1>7, <3>1 DEF Alert
  <2>2. \A d, x : Lv!Near(u, d, x) <=> Lv!Near(t, d, x)
    BY <1>7 DEF Lv!Near
  <2>3. \A d \in Lv!Creature : Aims(u, d)
    BY <1>5, <1>7, <2>2 DEF Fair, Aims
  <2>4. Settled(u)
    <3>1. Settled(t) /\ Shrinks(t, u, Gone(t))
      BY <1>5, <1>7 DEF Fair, Shrinks
    <3>2. QED
      BY <1>7, <3>1, SettledSame
  <2>5. QED
    BY <1>8, <2>1, <2>3, <2>4 DEF Fair
<1>10. Cuts(t, u)
  <2>1. Shrinks(t, u, Gone(t))
    BY <1>7 DEF Shrinks
  <2>2. QED
    BY <1>7, <1>9, <2>1 DEF Cuts
<1>11. Cuts(s, u)
  BY <1>5, <1>10, CutsCuts
<1>12. QED
  BY <1>1, <1>5, <1>11 DEF v

\* Creature::destroySummons()
LEMMA DestroyedCuts ==
  ASSUME Cast, NEW s, Fair(s), NEW c \in Lv!Creature, NEW m \in s.summons[c]
  PROVE  Cuts(s, Lv!RemoveSummon(Lv!Hurt(Lv!SetAttacked(s, m, None), m, TRUE), c, m))
<1> DEFINE a == Lv!SetAttacked(s, m, None)
           b == TRUE
           h == Lv!Hurt(a, m, b)
<1>1. Core(s)
  BY DEF Fair
<1>2. m \in Lv!Creature /\ s.life[m] # "absent"
  BY <1>1, AbsentIsNowhere DEF Core, Lv!State
<1>3. Still(s, a)
  BY <1>1, <1>2, StopsAttack
<1> HIDE DEF a, b
<1>4. Cuts(s, a)
  BY <1>3, StillCuts
<1>5. Fair(a) /\ a.life[m] # "absent"
  BY <1>2, <1>4 DEF Cuts
<1>6. Cuts(a, h)
  BY <1>2, <1>5, HurtCuts
<1> HIDE DEF h
<1>7. Fair(h)
  BY <1>6 DEF Cuts
<1>8. Cuts(h, Lv!RemoveSummon(h, c, m))
  BY <1>2, <1>7, RemoveSummonCuts
<1>9. Cuts(s, Lv!RemoveSummon(h, c, m))
  BY <1>4, <1>6, <1>8, CutsCuts
<1>10. QED
  BY <1>9 DEF h, a, b

LEMMA DestroySummonsCuts ==
  ASSUME Cast, NEW s, Fair(s), NEW c \in Lv!Creature
  PROVE  Cuts(s, Lv!DestroySummons(s, c))
<1> DEFINE N == Turned
           Holds(u, n) == Cuts(s, u)
           Good == [n \in 0 .. N |-> {u \in Lv!State : Holds(u, n)}]
           Op(u, n) == IF u.summons[c] = {} THEN u
               ELSE Lv!RemoveSummon(
                      Lv!Hurt(Lv!SetAttacked(u, CHOOSE m \in u.summons[c] : TRUE, None),
                              CHOOSE m \in u.summons[c] : TRUE, TRUE),
                      c, CHOOSE m \in u.summons[c] : TRUE)
           H == [p \in Lv!State \X (1 .. N) |-> Op(p[1], p[2])]
           Is(T) == T = [n \in 0 .. N |-> IF n = 0 THEN s ELSE IF T[n - 1].summons[c] = {} THEN T[n - 1]
               ELSE Lv!RemoveSummon(
                      Lv!Hurt(Lv!SetAttacked(T[n - 1], CHOOSE m \in T[n - 1].summons[c] : TRUE, None),
                              CHOOSE m \in T[n - 1].summons[c] : TRUE, TRUE),
                      c, CHOOSE m \in T[n - 1].summons[c] : TRUE)]
           U == CHOOSE T : Is(T)
<1>1. Lv!DestroySummons(s, c) = U[N]
  BY DEF Lv!DestroySummons, Turned
<1>2. s \in Lv!State /\ Holds(s, 0)
  BY CutsNothing DEF Fair, Core
<1>3. ASSUME NEW n \in 1 .. N, NEW u \in Lv!State, Holds(u, n - 1)
       PROVE  Op(u, n) \in Lv!State /\ Holds(Op(u, n), n)
  <2>1. Cuts(s, u) /\ Fair(u)
    BY <1>3 DEF Cuts
  <2>2. CASE u.summons[c] = {}
    BY <1>3, <2>2
  <2>3. CASE u.summons[c] # {}
    <3> DEFINE m == CHOOSE m \in u.summons[c] : TRUE
               v == Lv!RemoveSummon(Lv!Hurt(Lv!SetAttacked(u, m, None), m, TRUE), c, m)
    <3>1. m \in u.summons[c]
      BY <2>3
    <3>2. Op(u, n) = v
      BY <2>3
    <3> HIDE DEF m
    <3>3. Cuts(u, v)
      BY <2>1, <3>1, DestroyedCuts
    <3> HIDE DEF v
    <3>4. Cuts(s, v) /\ v \in Lv!State
      BY <2>1, <3>3, CutsCuts DEF Cuts, Fair, Core
    <3> HIDE DEF Op
    <3>5. QED
      BY <3>2, <3>4
  <2>4. QED
    BY <2>2, <2>3
<1>4. N \in Nat /\ \A n \in 1 .. N : n \in 0 .. N /\ n - 1 \in 0 .. N /\ n # 0
  BY TurnedNat
<1>5. \A u \in Lv!State, n \in 1 .. N : H[<<u, n>>] = Op(u, n)
  <2> HIDE DEF Op
  <2>1. QED
    OBVIOUS
<1>6. \A n \in 0 .. N : \A u : u \in Good[n] <=> u \in Lv!State /\ Holds(u, n)
  <2> HIDE DEF Holds
  <2>1. QED
    OBVIOUS
<1> HIDE DEF H, N, Good, Holds, Op
<1>7. Steps(H, N, Good) /\ s \in Good[0]
  <2>1. 0 \in 0 .. N
    BY <1>4
  <2>2. s \in Good[0]
    BY <1>2, <1>6, <2>1
  <2>3. ASSUME NEW n \in 1 .. N, NEW u \in Good[n - 1] PROVE H[<<u, n>>] \in Good[n]
    <3>1. u \in Lv!State /\ Holds(u, n - 1) /\ n \in 0 .. N
      BY <1>4, <1>6
    <3>2. Op(u, n) \in Lv!State /\ Holds(Op(u, n), n)
      BY <1>3, <3>1
    <3>3. QED
      BY <1>5, <1>6, <3>1, <3>2
  <2>4. QED
    BY <2>2, <2>3 DEF Steps
<1>8. PICK T : Turns(T, H, N, Good, s)
  BY <1>4, <1>7, LoopExists
<1>9. /\ T = [n \in 0 .. N |-> IF n = 0 THEN s ELSE H[<<T[n - 1], n>>]]
      /\ \A n \in 0 .. N : T[n] \in Lv!State
  BY <1>6, <1>8 DEF Turns
<1>10. Is(T)
  <2>1. \A n \in 0 .. N : n # 0 => H[<<T[n - 1], n>>] = Op(T[n - 1], n)
    <3> SUFFICES ASSUME NEW n \in 0 .. N, n # 0 PROVE H[<<T[n - 1], n>>] = Op(T[n - 1], n)
      OBVIOUS
    <3>1. n \in 1 .. N /\ n - 1 \in 0 .. N
      BY <1>4
    <3>2. QED
      BY <1>5, <1>9, <3>1
  <2>2. \A n \in 0 .. N : (IF n = 0 THEN s ELSE H[<<T[n - 1], n>>])
                            = (IF n = 0 THEN s ELSE Op(T[n - 1], n))
    BY <2>1
  <2>3. [n \in 0 .. N |-> IF n = 0 THEN s ELSE H[<<T[n - 1], n>>]]
          = [n \in 0 .. N |-> IF n = 0 THEN s ELSE Op(T[n - 1], n)]
    BY <2>2
  <2>4. QED
    BY <1>9, <2>3 DEF Op
<1>11. Is(U)
  BY <1>10
<1>12. \A n \in 0 .. N : U[n] = IF n = 0 THEN s ELSE Op(U[n - 1], n)
  <2> HIDE DEF U
  <2>1. QED
    BY <1>11 DEF Op
<1> HIDE DEF Is, U
<1>13. Stays(U, N, Good)
  <2>1. U[0] \in Good[0] /\ 0 \in 0 .. N
    <3>1. 0 \in 0 .. N
      BY <1>4
    <3>2. U[0] = s
      BY <3>1, <1>12
    <3>3. QED
      BY <3>1, <3>2, <1>7
  <2>2. ASSUME NEW n \in 1 .. N, U[n - 1] \in Good[n - 1] PROVE U[n] \in Good[n]
    <3>1. U[n - 1] \in Lv!State /\ Holds(U[n - 1], n - 1) /\ U[n] = Op(U[n - 1], n)
      BY <1>4, <1>6, <1>12, <2>2
    <3> DEFINE u == U[n - 1]
    <3> HIDE DEF u
    <3>2. Op(u, n) \in Lv!State /\ Holds(Op(u, n), n)
      BY <1>3, <3>1 DEF u
    <3>3. QED
      BY <1>4, <1>6, <3>1, <3>2 DEF u
  <2>3. QED
    BY <2>1, <2>2 DEF Stays
<1>14. N \in 0 .. N
  BY <1>4
<1>15. Holds(U[N], N)
  BY <1>4, <1>6, <1>13, <1>14, LoopStays
<1>16. QED
  BY <1>1, <1>15 DEF Holds

-----------------------------------------------------------------------------
(* Births                                                                  *)

\* Who is about to be placed is bare but for a master.
Unborn(s, c) ==
  /\ s \in Lv!State /\ Counted(s) /\ Mastered(s) /\ Present(s) /\ Alert(s) /\ Owned(s)
  /\ Settled(s) /\ \A d \in Lv!Creature : Aims(s, d)
  /\ s.life[c] = "absent" /\ c \notin s.dead /\ s.attacked[c] = None
  /\ c \notin s.slotted /\ s.free[c] = 0
  /\ s.master[c] = None \/ s.life[s.master[c]] = "in"
  /\ c \in Monsters => s.followed[c] = None
  /\ \A x \in Lv!Creature \ {c} : s.life[x] = "absent" =>
       s.refs[x] = 0 /\ x \notin s.dead /\ s.summons[x] = {} /\ s.attacked[x] = None
  /\ \A m \in Monsters \ {c} : s.life[m] = "absent" =>
       s.targets[m] = {} /\ s.friends[m] = {} /\ s.followed[m] = None

LEMMA FullUnborn ==
  ASSUME Cast, NEW s, Full(s), NEW c \in Lv!Creature, s.life[c] = "absent"
  PROVE  Unborn(s, c)
<1>1. Core(s)
  BY DEF Full, Fair
<1>2. c \notin s.slotted /\ s.free[c] = 0 /\ s.master[c] = None
  BY <1>1, AbsentIsNowhere
<1>3. QED
  BY <1>1, <1>2 DEF Full, Fair, Core, Bare, Unborn

\* Creature::addSummon(): of m, who has no master.
LEMMA AddSummonShape ==
  ASSUME Cast, NEW s \in Lv!State, Counted(s), Mastered(s),
         NEW c \in Lv!Creature, NEW m \in Monsters, s.master[m] = None
  PROVE  LET t == Lv!AddSummon(s, c, m)
         IN  /\ t \in Lv!State /\ Counted(t) /\ Mastered(t)
             /\ t.life = s.life /\ t.dead = s.dead /\ t.near = s.near
             /\ t.free = s.free /\ t.checked = s.checked /\ t.slotted = s.slotted
             /\ t.attacked = s.attacked /\ t.followed = s.followed
             /\ t.targets = s.targets /\ t.friends = s.friends
             /\ t.idle = s.idle /\ t.inRange = s.inRange
             /\ t.master = [s.master EXCEPT ![m] = c]
             /\ t.summons = [s.summons EXCEPT ![c] = s.summons[c] \cup {m}]
             /\ t.refs[m] = s.refs[m] + 1
             /\ \A d \in Lv!Creature \ {m} : t.refs[d] = s.refs[d]
<1> DEFINE A == s.summons[c] \cup {m}
           u == [s EXCEPT !.master[m] = c, !.summons[c] = @ \cup {m}]
           t == Lv!AddSummon(s, c, m)
<1>1. A \in SUBSET Lv!Creature /\ m \in Lv!Creature
  BY DEF Lv!State, Cast
<1>2. t = Lv!Ref(u, m)
  BY DEF Lv!AddSummon
<1>3. u = [s EXCEPT !.master = [s.master EXCEPT ![m] = c],
                    !.summons = [s.summons EXCEPT ![c] = A]]
  BY DEF Lv!State
<1>4. \A d \in Lv!Creature : m \notin s.summons[d]
  BY <1>1 DEF Mastered, Cast
<1>5. \A x : Mark(x, A) = Mark(x, s.summons[c]) + (IF x = m THEN 1 ELSE 0)
  BY <1>4 DEF Mark
<1> HIDE DEF A, u, t
<1>6. /\ u \in Lv!State /\ u.life = s.life /\ u.dead = s.dead /\ u.free = s.free
      /\ u.near = s.near /\ u.attacked = s.attacked /\ u.followed = s.followed
      /\ u.checked = s.checked /\ u.slotted = s.slotted
      /\ u.targets = s.targets /\ u.friends = s.friends /\ u.refs = s.refs
      /\ u.idle = s.idle /\ u.inRange = s.inRange
      /\ u.master = [s.master EXCEPT ![m] = c]
      /\ u.summons = [s.summons EXCEPT ![c] = A]
  BY <1>1, <1>3 DEF Lv!State
<1>7. /\ Recount(u, t) /\ t.refs[m] = u.refs[m] + 1
      /\ \A x \in Lv!Creature \ {m} : t.refs[x] = u.refs[x]
  BY <1>1, <1>2, <1>6, RefShape
<1>8. /\ t \in Lv!State /\ t.life = s.life /\ t.dead = s.dead /\ t.free = s.free
      /\ t.near = s.near /\ t.attacked = s.attacked /\ t.followed = s.followed
      /\ t.checked = s.checked /\ t.slotted = s.slotted
      /\ t.targets = s.targets /\ t.friends = s.friends
      /\ t.idle = s.idle /\ t.inRange = s.inRange
      /\ t.master = [s.master EXCEPT ![m] = c] /\ t.summons = [s.summons EXCEPT ![c] = A]
      /\ t.refs[m] = s.refs[m] + 1 /\ \A x \in Lv!Creature \ {m} : t.refs[x] = s.refs[x]
  BY <1>6, <1>7 DEF Recount, Frame
<1>9. /\ t.master[m] = c /\ \A d \in Lv!Creature \ {m} : t.master[d] = s.master[d]
      /\ t.summons[c] = A /\ \A d \in Lv!Creature \ {c} : t.summons[d] = s.summons[d]
  BY <1>1, <1>8 DEF Lv!State
<1>10. Counted(t)
  <2>1. ASSUME NEW x \in Lv!Creature
        PROVE  t.refs[x] = s.refs[x] + Mark(x, A) - Mark(x, s.summons[c])
    <3>1. s.refs[x] \in Int /\ Mark(x, s.summons[c]) \in Int
      BY DEF Lv!State, Mark
    <3>2. t.refs[x] = s.refs[x] + (IF x = m THEN 1 ELSE 0)
      BY <1>8, <3>1
    <3>3. QED
      BY <1>5, <3>1, <3>2
  <2>2. Resummons(s, t, c, A)
    BY <1>8, <1>9, <2>1 DEF Resummons
  <2>3. QED
    BY <2>2, ResummonsCounted
<1>11. Mastered(t)
  <2>1. \A x \in Lv!Creature : t.summons[x] \subseteq Monsters
    <3>1. \A x \in Lv!Creature : s.summons[x] \subseteq Monsters
      BY DEF Mastered
    <3>2. QED
      BY <1>9, <3>1 DEF A
  <2>2. ASSUME NEW x \in Lv!Creature, NEW d \in Lv!Creature
        PROVE  d \in t.summons[x] <=> t.master[d] = x
    <3>1. d \in s.summons[x] <=> s.master[d] = x
      BY DEF Mastered
    <3>2. x # None /\ m \notin s.summons[x]
      BY <1>4 DEF Cast
    <3>3. CASE d = m
      BY <1>9, <3>2, <3>3 DEF A
    <3>4. CASE d # m
      BY <1>9, <3>1, <3>4 DEF A
    <3>5. QED
      BY <3>3, <3>4
  <2>3. QED
    BY <2>1, <2>2 DEF Mastered
<1>12. QED
  BY <1>8, <1>10, <1>11 DEF t, A

LEMMA RootedGrows ==
  ASSUME NEW s, Rooted(s), NEW t, NEW m \in Monsters, NEW c, t.master[m] = c, c # m,
         \A d \in Monsters \ {m} : t.master[d] = s.master[d],
         c \notin Monsters \/ \A d \in Monsters : s.master[d] # m
  PROVE  Rooted(t)
<1> SUFFICES ASSUME NEW S \in SUBSET Monsters, S # {} PROVE \E d \in S : t.master[d] \notin S
  BY DEF Rooted
<1>1. CASE m \notin S
  <2>1. PICK d \in S : s.master[d] \notin S
    BY DEF Rooted
  <2>2. QED
    BY <1>1, <2>1
<1>2. CASE m \in S /\ c \notin S
  BY <1>2
<1>3. CASE m \in S /\ c \in S
  <2> DEFINE R == S \ {m}
  <2>1. R \in SUBSET Monsters /\ R # {} /\ \A d \in Monsters : s.master[d] # m
    BY <1>3
  <2>2. PICK d \in R : s.master[d] \notin R
    BY <2>1 DEF Rooted
  <2>3. d \in S /\ t.master[d] \notin S
    BY <2>1, <2>2
  <2>4. QED
    BY <2>3
<1>4. QED
  BY <1>1, <1>2, <1>3

LEMMA AddSummonUnborn ==
  ASSUME Cast, NEW s, Full(s), NEW c \in Lv!Creature, s.life[c] = "in",
         NEW m \in Monsters, s.life[m] = "absent"
  PROVE  Unborn(Lv!AddSummon(s, c, m), m)
<1> DEFINE t == Lv!AddSummon(s, c, m)
<1>1. Core(s) /\ s \in Lv!State /\ Counted(s) /\ Mastered(s) /\ m \in Lv!Creature
  BY DEF Full, Fair, Core, Cast
<1>2. m \notin s.slotted /\ s.free[m] = 0 /\ s.master[m] = None
  BY <1>1, AbsentIsNowhere
<1>3. /\ t \in Lv!State /\ Counted(t) /\ Mastered(t)
      /\ t.life = s.life /\ t.dead = s.dead /\ t.near = s.near
      /\ t.free = s.free /\ t.checked = s.checked /\ t.slotted = s.slotted
      /\ t.attacked = s.attacked /\ t.followed = s.followed
      /\ t.targets = s.targets /\ t.friends = s.friends
      /\ t.master = [s.master EXCEPT ![m] = c]
      /\ t.summons = [s.summons EXCEPT ![c] = s.summons[c] \cup {m}]
      /\ \A d \in Lv!Creature \ {m} : t.refs[d] = s.refs[d]
  BY <1>1, <1>2, AddSummonShape
<1> HIDE DEF t
<1>4. /\ t.master[m] = c /\ \A d \in Lv!Creature \ {m} : t.master[d] = s.master[d]
      /\ \A d \in Lv!Creature \ {c} : t.summons[d] = s.summons[d]
  BY <1>1, <1>3 DEF Lv!State
<1>5. Present(t)
  BY <1>1, <1>3 DEF Core, Present, Lv!Near
<1>6. Alert(t)
  BY <1>3 DEF Full, Fair, Alert
<1>7. Owned(t)
  BY <1>3, <1>4 DEF Full, Owned
<1>8. \A d \in Lv!Creature : Aims(t, d)
  <2>1. \A d, x : Lv!Near(t, d, x) <=> Lv!Near(s, d, x)
    BY <1>3 DEF Lv!Near
  <2>2. QED
    BY <1>3, <2>1 DEF Full, Fair, Aims
<1>9. /\ m \notin t.dead /\ t.attacked[m] = None /\ t.followed[m] = None
      /\ m \notin t.slotted /\ t.free[m] = 0 /\ t.life[t.master[m]] = "in"
  BY <1>1, <1>2, <1>3, <1>4 DEF Core, Bare
<1>10. /\ \A x \in Lv!Creature \ {m} : t.life[x] = "absent" =>
            t.refs[x] = 0 /\ x \notin t.dead /\ t.summons[x] = {} /\ t.attacked[x] = None
       /\ \A x \in Monsters \ {m} : t.life[x] = "absent" =>
            t.targets[x] = {} /\ t.friends[x] = {} /\ t.followed[x] = None
  BY <1>1, <1>3, <1>4 DEF Core, Bare
<1>11. Settled(t)
  <2>1. Hollow(s) /\ Rooted(s)
    BY DEF Full, Fair, Settled
  <2>2. Hollow(t)
    BY <1>3, <2>1 DEF Hollow, Emptied
  <2>3. \A d \in Monsters : s.master[d] # m
    BY <1>1 DEF Core, Bare, Mastered, Cast
  <2>4. c # m /\ \A d \in Monsters \ {m} : t.master[d] = s.master[d]
    BY <1>4 DEF Cast
  <2>5. Rooted(t)
    BY <1>4, <2>1, <2>3, <2>4, RootedGrows
  <2>6. QED
    BY <2>2, <2>5 DEF Settled
<1>12. Unborn(t, m)
  BY <1>3, <1>5, <1>6, <1>7, <1>8, <1>9, <1>10, <1>11 DEF Unborn
<1>13. QED
  BY <1>12 DEF t

\* A monster in the game that had no master finds one there, who is a player.
LEMMA AddSummonFull ==
  ASSUME Cast, NEW s, Full(s), NEW c \in Players, s.life[c] = "in",
         NEW m \in Monsters, s.life[m] = "in", s.master[m] = None
  PROVE  LET t == Lv!AddSummon(s, c, m)
         IN  Full(t) /\ t.life = s.life /\ t.near = s.near
<1> DEFINE t == Lv!AddSummon(s, c, m)
<1>1. Core(s) /\ s \in Lv!State /\ Counted(s) /\ Mastered(s)
      /\ m \in Lv!Creature /\ c \in Lv!Creature
  BY DEF Full, Fair, Core, Cast
<1>2. /\ t \in Lv!State /\ Counted(t) /\ Mastered(t)
      /\ t.life = s.life /\ t.dead = s.dead /\ t.near = s.near
      /\ t.free = s.free /\ t.checked = s.checked /\ t.slotted = s.slotted
      /\ t.attacked = s.attacked /\ t.followed = s.followed
      /\ t.targets = s.targets /\ t.friends = s.friends
      /\ t.master = [s.master EXCEPT ![m] = c]
      /\ t.summons = [s.summons EXCEPT ![c] = s.summons[c] \cup {m}]
      /\ \A d \in Lv!Creature \ {m} : t.refs[d] = s.refs[d]
  BY <1>1, AddSummonShape
<1> HIDE DEF t
<1>3. /\ t.master[m] = c /\ \A d \in Lv!Creature \ {m} : t.master[d] = s.master[d]
      /\ \A d \in Lv!Creature \ {c} : t.summons[d] = s.summons[d]
  BY <1>1, <1>2 DEF Lv!State
<1>4. Present(t)
  BY <1>1, <1>2 DEF Core, Present, Lv!Near
<1>5. Bare(t)
  <2>1. ASSUME NEW x \in Lv!Creature, t.life[x] = "absent"
        PROVE  t.refs[x] = 0 /\ x \notin t.dead /\ t.summons[x] = {} /\ t.attacked[x] = None
    <3>1. x # m /\ x # c /\ s.life[x] = "absent"
      BY <1>2, <2>1
    <3>2. QED
      BY <1>1, <1>2, <1>3, <3>1 DEF Core, Bare
  <2>2. QED
    BY <1>1, <1>2, <2>1 DEF Core, Bare
<1>6. Core(t)
  BY <1>2, <1>4, <1>5 DEF Core
<1>7. Settled(t)
  <2>1. Hollow(s) /\ Rooted(s)
    BY DEF Full, Fair, Settled
  <2>2. Hollow(t)
    BY <1>2, <2>1 DEF Hollow, Emptied
  <2>3. c \notin Monsters /\ c # m /\ \A d \in Monsters \ {m} : t.master[d] = s.master[d]
    BY <1>3 DEF Cast
  <2>4. Rooted(t)
    BY <1>3, <2>1, <2>3, RootedGrows
  <2>5. QED
    BY <2>2, <2>4 DEF Settled
<1>8. Fair(t)
  BY <1>2, <1>6, <1>7, FairSame DEF Full
<1>9. Owned(t)
  BY <1>2, <1>3 DEF Full, Owned
<1>10. QED
  BY <1>2, <1>8, <1>9 DEF Full, t

\* Game::placeCreature(): who is placed is referred to once more, near others, and looked
\* at from now on.
Placed(s, c, S) ==
  Lv!Ref([s EXCEPT !.life[c] = "in", !.near = @ \cup {{c, x} : x \in S}], c)

LEMMA PlacedShape ==
  ASSUME Cast, NEW s \in Lv!State, NEW c \in Lv!Creature, NEW S \in SUBSET Lv!Creature
  PROVE  LET t == Placed(s, c, S)
         IN  /\ t \in Lv!State /\ t.dead = s.dead /\ t.free = s.free
             /\ t.master = s.master /\ t.summons = s.summons
             /\ t.targets = s.targets /\ t.friends = s.friends
             /\ t.attacked = s.attacked /\ t.followed = s.followed
             /\ t.checked = s.checked /\ t.slotted = s.slotted
             /\ t.life[c] = "in" /\ \A x \in Lv!Creature \ {c} : t.life[x] = s.life[x]
             /\ t.near = s.near \cup {{c, x} : x \in S}
             /\ t.refs[c] = s.refs[c] + 1 /\ \A x \in Lv!Creature \ {c} : t.refs[x] = s.refs[x]
<1> DEFINE N == s.near \cup {{c, x} : x \in S}
           i == "in"
           u == [s EXCEPT !.life[c] = i, !.near = N]
           t == Placed(s, c, S)
<1>1. N \in SUBSET SUBSET Lv!Creature /\ i \in {"absent", "in", "out"}
  BY DEF Lv!State
<1>2. t = Lv!Ref(u, c)
  BY DEF Placed
<1> HIDE DEF N, i
<1>3. /\ u \in Lv!State /\ u.dead = s.dead /\ u.free = s.free
      /\ u.master = s.master /\ u.summons = s.summons
      /\ u.targets = s.targets /\ u.friends = s.friends
      /\ u.attacked = s.attacked /\ u.followed = s.followed
      /\ u.checked = s.checked /\ u.slotted = s.slotted /\ u.refs = s.refs
      /\ u.life = [s.life EXCEPT ![c] = i] /\ u.near = N
  BY <1>1 DEF Lv!State
<1> HIDE DEF u, t
<1>4. u.life[c] = i /\ \A x \in Lv!Creature \ {c} : u.life[x] = s.life[x]
  BY <1>3 DEF Lv!State
<1>5. /\ Recount(u, t) /\ t.refs[c] = u.refs[c] + 1
      /\ \A x \in Lv!Creature \ {c} : t.refs[x] = u.refs[x]
  BY <1>2, <1>3, RefShape
<1>6. /\ t \in Lv!State /\ t.dead = s.dead /\ t.free = s.free
      /\ t.master = s.master /\ t.summons = s.summons
      /\ t.targets = s.targets /\ t.friends = s.friends
      /\ t.attacked = s.attacked /\ t.followed = s.followed
      /\ t.checked = s.checked /\ t.slotted = s.slotted
      /\ t.life = u.life /\ t.near = N
      /\ t.refs[c] = s.refs[c] + 1 /\ \A x \in Lv!Creature \ {c} : t.refs[x] = s.refs[x]
  BY <1>3, <1>5 DEF Recount, Frame
<1>7. QED
  BY <1>4, <1>6 DEF t, N, i

LEMMA PlacedCore ==
  ASSUME Cast, NEW s, NEW c \in Lv!Creature, Unborn(s, c),
         NEW S \in SUBSET (Lv!Here(s) \ {c})
  PROVE  LET t == Placed(s, c, S)
         IN  /\ Core(t) /\ Owned(t) /\ Settled(t) /\ \A d \in Lv!Creature : Aims(t, d)
             /\ \A d \in Lv!Creature \ {c} :
                  t.life[d] = "in" /\ d \in Players \cup t.dead => d \in t.checked
             /\ t.life[c] = "in" /\ \A x \in S : t.life[x] = "in"
<1> DEFINE t == Placed(s, c, S)
<1>1. s \in Lv!State /\ s.life[c] = "absent"
  BY DEF Unborn
<1>2. S \in SUBSET Lv!Creature /\ \A x \in S : x # c /\ s.life[x] = "in"
  BY DEF Lv!Here
<1>3. /\ t \in Lv!State /\ t.dead = s.dead /\ t.free = s.free
      /\ t.master = s.master /\ t.summons = s.summons
      /\ t.targets = s.targets /\ t.friends = s.friends
      /\ t.attacked = s.attacked /\ t.followed = s.followed
      /\ t.checked = s.checked /\ t.slotted = s.slotted
      /\ t.life[c] = "in" /\ \A x \in Lv!Creature \ {c} : t.life[x] = s.life[x]
      /\ t.near = s.near \cup {{c, x} : x \in S}
      /\ t.refs[c] = s.refs[c] + 1 /\ \A x \in Lv!Creature \ {c} : t.refs[x] = s.refs[x]
  BY <1>1, <1>2, PlacedShape
<1> HIDE DEF t
<1>4. \A d \in Lv!Creature : t.life[d] = "in" <=> s.life[d] = "in" \/ d = c
  BY <1>1, <1>3
<1>5. Counted(t)
  <2> SUFFICES ASSUME NEW x \in Lv!Creature PROVE t.refs[x] = Refers(t, x)
    BY DEF Counted
  <2> DEFINE l == Lists(s, x)
             k == Mark(x, s.slotted)
             f == s.free[x]
             r == s.refs[x]
  <2>1. Lists(t, x) = l /\ Mark(x, t.slotted) = k /\ t.free[x] = f
    BY <1>3 DEF Lists
  <2>2. r \in Int /\ f \in Int /\ k \in Int
    BY <1>1 DEF Lv!State, Mark
  <2>3. l \in Int
    <3>1. IsFiniteSet(Lv!Creature) /\ IsFiniteSet(Monsters)
      BY FS_Subset DEF Cast
    <3>2. QED
      BY <3>1, ListingCounts DEF Lists
  <2>4. r = (IF s.life[x] = "in" THEN 1 ELSE 0) + k + f + l
    BY DEF Unborn, Counted, Refers
  <2>5. Refers(t, x) = (IF t.life[x] = "in" THEN 1 ELSE 0) + k + f + l
    BY <2>1 DEF Refers
  <2>6. t.refs[x] = IF x = c THEN r + 1 ELSE r
    BY <1>3
  <2> HIDE DEF l, k, f, r
  <2>7. QED
    BY <1>1, <1>3, <2>2, <2>3, <2>4, <2>5, <2>6
<1>6. Bare(t)
  <2>1. \A x \in Lv!Creature : t.life[x] = "absent" => x # c /\ s.life[x] = "absent"
    BY <1>3
  <2>2. Monsters \subseteq Lv!Creature
    BY DEF Cast
  <2>3. ASSUME NEW x \in Lv!Creature, t.life[x] = "absent"
        PROVE  t.refs[x] = 0 /\ x \notin t.dead /\ t.summons[x] = {} /\ t.attacked[x] = None
    BY <1>3, <2>1, <2>3 DEF Unborn
  <2>4. ASSUME NEW x \in Monsters, t.life[x] = "absent"
        PROVE  t.targets[x] = {} /\ t.friends[x] = {} /\ t.followed[x] = None
    BY <1>3, <2>1, <2>2, <2>4 DEF Unborn
  <2>5. QED
    BY <2>3, <2>4 DEF Bare
<1>7. Mastered(t)
  BY <1>3 DEF Unborn, Mastered
<1>8. Present(t)
  <2>1. ASSUME NEW a \in Lv!Creature, NEW x \in Lv!Creature, Lv!Near(t, a, x)
        PROVE  t.life[a] = "in" /\ t.life[x] = "in"
    <3>1. {a, x} \in s.near \/ \E y \in S : {a, x} = {c, y}
      BY <1>3, <2>1 DEF Lv!Near
    <3>2. CASE {a, x} \in s.near
      <4>1. s.life[a] = "in" /\ s.life[x] = "in"
        BY <3>2 DEF Unborn, Present, Lv!Near
      <4>2. QED
        BY <1>4, <4>1
    <3>3. CASE \E y \in S : {a, x} = {c, y}
      <4>1. PICK y \in S : {a, x} = {c, y}
        BY <3>3
      <4>2. a \in {c, y} /\ x \in {c, y} /\ s.life[y] = "in"
        BY <1>2, <4>1
      <4>3. QED
        BY <1>4, <4>2
    <3>4. QED
      BY <3>1, <3>2, <3>3
  <2>2. t.checked \subseteq t.slotted /\ \A x \in t.checked : t.life[x] = "in"
    <3>1. s.checked \subseteq s.slotted /\ s.checked \subseteq Lv!Creature
          /\ \A x \in s.checked : s.life[x] = "in"
      BY <1>1 DEF Unborn, Present, Lv!State
    <3>2. QED
      BY <1>3, <1>4, <3>1
  <2>3. ASSUME NEW x \in Lv!Creature
        PROVE  t.free[x] \in 0 .. 1 /\ (t.life[x] = "in" => t.free[x] = 0)
    BY <1>3, <1>4 DEF Unborn, Present
  <2>4. QED
    BY <2>1, <2>2, <2>3 DEF Present
<1>9. Core(t)
  BY <1>3, <1>5, <1>6, <1>7, <1>8 DEF Core
<1>10. Owned(t)
  <2>1. \A d \in Lv!Creature : s.life[d] = "in" \/ d = c =>
          s.master[d] = None \/ s.life[s.master[d]] = "in"
    BY DEF Unborn, Owned
  <2>2. \A d \in Lv!Creature : s.master[d] \in Lv!Creature \cup {None}
    BY <1>1 DEF Lv!State
  <2>3. QED
    BY <1>3, <1>4, <2>1, <2>2 DEF Owned
<1>11. ASSUME NEW d \in Lv!Creature PROVE Aims(t, d)
  <2>1. \A x : Lv!Near(s, d, x) => Lv!Near(t, d, x)
    BY <1>3 DEF Lv!Near
  <2>2. CASE d = c
    BY <1>3, <2>2 DEF Unborn, Aims
  <2>3. CASE d # c
    <3>1. Aims(s, d) /\ t.life[d] = s.life[d]
      BY <1>3, <2>3 DEF Unborn
    <3>2. QED
      BY <1>3, <2>1, <3>1 DEF Aims
  <2>4. QED
    BY <2>2, <2>3
<1>12. \A d \in Lv!Creature \ {c} :
         t.life[d] = "in" /\ d \in Players \cup t.dead => d \in t.checked
  BY <1>3 DEF Unborn, Alert
<1>13. \A x \in S : t.life[x] = "in"
  BY <1>2, <1>3
<1>14. Settled(t)
  <2>1. Settled(s) /\ Monsters \subseteq Lv!Creature
    BY DEF Unborn, Cast
  <2>2. \A m \in Monsters : t.life[m] = "out" => s.life[m] = "out"
    BY <1>3, <2>1
  <2>3. Hollow(t)
    BY <1>3, <2>1, <2>2 DEF Settled, Hollow, Emptied
  <2>4. Rooted(t)
    BY <1>3, <2>1 DEF Settled, Rooted
  <2>5. QED
    BY <2>3, <2>4 DEF Settled
<1>15. QED
  BY <1>3, <1>9, <1>10, <1>11, <1>12, <1>13, <1>14 DEF t

LEMMA PlaceCreatureFull ==
  ASSUME Cast, NEW s, NEW c \in Lv!Creature, Unborn(s, c),
         NEW S \in SUBSET (Lv!Here(s) \ {c}), NEW ord \in Seq(Lv!Creature)
  PROVE  Full(Lv!PlaceCreature(s, c, S, ord))
<1> DEFINE t == Placed(s, c, S)
           M == Monsters \cap (S \cup {c})
           u == AllAppear(t, ord, M, c)
           v == Lv!AddCheck(u, c)
<1>1. Lv!PlaceCreature(s, c, S, ord) = v
  BY DEF Lv!PlaceCreature, Placed, AllAppear, Lv!InTurn
<1>2. /\ Core(t) /\ Owned(t) /\ Settled(t) /\ \A d \in Lv!Creature : Aims(t, d)
      /\ \A d \in Lv!Creature \ {c} :
           t.life[d] = "in" /\ d \in Players \cup t.dead => d \in t.checked
      /\ t.life[c] = "in" /\ \A x \in S : t.life[x] = "in"
  BY PlacedCore
<1> HIDE DEF t
<1>3. M \in SUBSET Monsters /\ \A d \in M : t.life[d] = "in"
  BY <1>2
<1> HIDE DEF M
<1>4. Still(t, u)
  BY <1>2, <1>3, AllAppearStill
<1> HIDE DEF u
<1>5. Core(u) /\ u.life[c] = "in"
  BY <1>2, <1>4 DEF Still, Quiet, Frame
<1>6. Still(u, v) /\ c \in v.checked
  BY <1>5, AddCheckStill
<1> HIDE DEF v
<1>7. Still(t, v)
  BY <1>4, <1>6, StillStill
<1>8. Core(v) /\ Frame(t, v) /\ Watched(t, v)
  BY <1>7 DEF Still, Quiet
<1>9. Alert(v)
  BY <1>2, <1>6, <1>8 DEF Alert, Frame, Watched
<1>10. \A d \in Lv!Creature : Aims(v, d)
  BY <1>2, <1>7, StillEased, AimsEased
<1>11. Owned(v)
  BY <1>2, <1>8 DEF Owned, Frame
<1>12. Settled(v)
  BY <1>2, <1>7, StillEased, SettledEased
<1>13. QED
  BY <1>1, <1>8, <1>9, <1>10, <1>11, <1>12 DEF Full, Fair

\* Where there is no room, the summon is let go again.
LEMMA RoomlessSame ==
  ASSUME Cast, NEW s, Core(s), NEW c \in Lv!Creature, NEW m \in Monsters,
         s.life[m] = "absent"
  PROVE  Lv!RemoveSummon(Lv!AddSummon(s, c, m), c, m) = s
<1> DEFINE t == Lv!AddSummon(s, c, m)
           u == [t EXCEPT !.master[m] = None, !.summons[c] = @ \ {m}]
           v == Lv!UnRef(u, m)
<1>1. s \in Lv!State /\ Counted(s) /\ Mastered(s) /\ m \in Lv!Creature
  BY DEF Core, Cast
<1>2. s.master[m] = None /\ m \notin s.summons[c]
  BY <1>1, AbsentIsNowhere
<1>3. /\ t \in Lv!State
      /\ t.life = s.life /\ t.dead = s.dead /\ t.near = s.near
      /\ t.free = s.free /\ t.checked = s.checked /\ t.slotted = s.slotted
      /\ t.attacked = s.attacked /\ t.followed = s.followed
      /\ t.targets = s.targets /\ t.friends = s.friends
      /\ t.idle = s.idle /\ t.inRange = s.inRange
      /\ t.master = [s.master EXCEPT ![m] = c]
      /\ t.summons = [s.summons EXCEPT ![c] = s.summons[c] \cup {m}]
      /\ t.refs[m] = s.refs[m] + 1
      /\ \A d \in Lv!Creature \ {m} : t.refs[d] = s.refs[d]
  BY <1>1, <1>2, AddSummonShape, SMTT(60)
<1> HIDE DEF t
<1>4. m \in t.summons[c]
  BY <1>1, <1>3 DEF Lv!State
<1>5. Lv!RemoveSummon(t, c, m) = v
  BY <1>4 DEF Lv!RemoveSummon
<1>6. /\ u \in Lv!State
      /\ u.life = s.life /\ u.dead = s.dead /\ u.near = s.near
      /\ u.free = s.free /\ u.checked = s.checked /\ u.slotted = s.slotted
      /\ u.attacked = s.attacked /\ u.followed = s.followed
      /\ u.targets = s.targets /\ u.friends = s.friends
      /\ u.idle = s.idle /\ u.inRange = s.inRange /\ u.refs = t.refs
      /\ u.master = [t.master EXCEPT ![m] = None]
      /\ u.summons = [t.summons EXCEPT ![c] = t.summons[c] \ {m}]
  <2> DEFINE A == t.summons[c] \ {m}
  <2>1. A \in SUBSET Lv!Creature
    BY <1>3 DEF Lv!State
  <2>2. u = [t EXCEPT !.master = [t.master EXCEPT ![m] = None],
                      !.summons = [t.summons EXCEPT ![c] = A]]
    BY <1>3 DEF Lv!State
  <2> HIDE DEF A, u
  <2>3. QED
    BY <1>1, <1>3, <2>1, <2>2 DEF Lv!State, A
<1>7. u.master = s.master
  <2> DEFINE F == s.master
  <2>1. F \in [Lv!Creature -> Lv!Creature \cup {None}] /\ F[m] = None
    BY <1>1, <1>2 DEF Lv!State
  <2>2. u.master = [[F EXCEPT ![m] = c] EXCEPT ![m] = None]
    BY <1>3, <1>6
  <2> HIDE DEF F
  <2>3. QED
    BY <2>1, <2>2 DEF F
<1>8. u.summons = s.summons
  <2> DEFINE F == u.summons
             G == s.summons
  <2>1. F \in [Lv!Creature -> SUBSET Lv!Creature] /\ G \in [Lv!Creature -> SUBSET Lv!Creature]
    BY <1>1, <1>6 DEF Lv!State
  <2>2. \A d \in Lv!Creature : F[d] = G[d]
    <3>1. t.summons = [G EXCEPT ![c] = G[c] \cup {m}] /\ F = [t.summons EXCEPT ![c] = t.summons[c] \ {m}]
      BY <1>3, <1>6
    <3>2. m \notin G[c]
      BY <1>2
    <3> HIDE DEF F, G
    <3>3. QED
      BY <2>1, <3>1, <3>2
  <2> HIDE DEF F, G
  <2>3. F = G
    BY <2>1, <2>2
  <2>4. QED
    BY <2>3 DEF F, G
<1> HIDE DEF u
<1>9. /\ Recount(u, v) /\ v.refs[m] = u.refs[m] - 1
      /\ \A x \in Lv!Creature \ {m} : v.refs[x] = u.refs[x]
  BY <1>1, <1>6, UnRefShape
<1> HIDE DEF v
<1>10. v.refs = s.refs
  <2>1. v.refs \in [Lv!Creature -> Int] /\ s.refs \in [Lv!Creature -> Int]
    BY <1>1, <1>9 DEF Recount, Lv!State
  <2>2. \A x \in Lv!Creature : v.refs[x] = s.refs[x]
    BY <1>3, <1>6, <1>9, <2>1
  <2>3. QED
    BY <2>1, <2>2
<1>11. /\ v \in Lv!State
       /\ v.life = s.life /\ v.dead = s.dead /\ v.near = s.near
       /\ v.free = s.free /\ v.checked = s.checked /\ v.slotted = s.slotted
       /\ v.attacked = s.attacked /\ v.followed = s.followed
       /\ v.targets = s.targets /\ v.friends = s.friends
       /\ v.idle = s.idle /\ v.inRange = s.inRange
       /\ v.master = s.master /\ v.summons = s.summons
  BY <1>6, <1>7, <1>8, <1>9 DEF Recount, Frame
<1>12. v = s
  BY <1>1, <1>10, <1>11 DEF Lv!State
<1>13. QED
  BY <1>5, <1>12 DEF t

-----------------------------------------------------------------------------
(* Deletions                                                               *)

\* What c lists is given back when it is deleted.
Given(s, c, x) ==
  Mark(x, s.summons[c])
    + (IF c \in Monsters THEN Mark(x, s.targets[c]) + Mark(x, s.friends[c]) ELSE 0)

\* t is s without c, to whom nobody in it is bound any more.
Deletes(s, t, c) ==
  /\ t \in Lv!State /\ t.near = s.near /\ t.free = s.free /\ t.slotted = s.slotted
  /\ t.checked = s.checked \ {c} /\ t.dead = s.dead \ {c}
  /\ t.life = [s.life EXCEPT ![c] = "absent"]
  /\ t.summons = [s.summons EXCEPT ![c] = {}]
  /\ \A x \in Lv!Creature :
       /\ t.master[x] = IF x = c \/ x \in s.summons[c] THEN None ELSE s.master[x]
       /\ t.attacked[x] = IF x = c \/ x \in s.summons[c] THEN None ELSE s.attacked[x]
       /\ t.refs[x] = s.refs[x] - Given(s, c, x)
  /\ \A m \in Monsters :
       /\ t.targets[m] = IF m = c THEN {} ELSE s.targets[m]
       /\ t.friends[m] = IF m = c THEN {} ELSE s.friends[m]
       /\ t.followed[m] = IF m = c THEN None ELSE s.followed[m]

\* Creature::~Creature() and Monster::~Monster()
LEMMA DeletedShape ==
  ASSUME Cast, NEW s \in Lv!State, NEW c \in Lv!Creature
  PROVE  Deletes(s, Lv!Deleted(s, c), c)
<1> DEFINE o == Lv!UnRefAll(s, s.targets[c])
           p == Lv!UnRefAll(o, s.friends[c])
           q == IF c \in Monsters THEN p ELSE s
           r == Lv!UnRefAll(q, s.summons[c])
           t == Lv!Deleted(s, c)
           a == "absent"
           L == [r.life EXCEPT ![c] = a]
           M == [x \in Lv!Creature |-> IF x = c \/ x \in s.summons[c] THEN None ELSE r.master[x]]
           S == [r.summons EXCEPT ![c] = {}]
           T == [m \in Monsters |-> IF m = c THEN {} ELSE r.targets[m]]
           F == [m \in Monsters |-> IF m = c THEN {} ELSE r.friends[m]]
           A == [x \in Lv!Creature |-> IF x = c \/ x \in s.summons[c] THEN None ELSE r.attacked[x]]
           W == [m \in Monsters |-> IF m = c THEN None ELSE r.followed[m]]
<1>1. Recount(s, q) /\ \A x \in Lv!Creature : q.refs[x] = s.refs[x] -
        (IF c \in Monsters THEN Mark(x, s.targets[c]) + Mark(x, s.friends[c]) ELSE 0)
  <2>1. CASE c \in Monsters
    <3>1. Recount(s, o) /\ \A x \in Lv!Creature : o.refs[x] = s.refs[x] - Mark(x, s.targets[c])
      BY UnRefAllShape
    <3>2. o \in Lv!State
      BY <3>1 DEF Recount
    <3> HIDE DEF o
    <3>3. Recount(o, p) /\ \A x \in Lv!Creature : p.refs[x] = o.refs[x] - Mark(x, s.friends[c])
      BY <3>2, UnRefAllShape
    <3> HIDE DEF p
    <3>4. Recount(s, p)
      BY <3>1, <3>3, Recounts
    <3>5. \A x \in Lv!Creature : p.refs[x] = s.refs[x] - (Mark(x, s.targets[c]) + Mark(x, s.friends[c]))
      <4> SUFFICES ASSUME NEW x \in Lv!Creature
          PROVE  p.refs[x] = s.refs[x] - (Mark(x, s.targets[c]) + Mark(x, s.friends[c]))
        OBVIOUS
      <4> DEFINE i == Mark(x, s.targets[c])
                 j == Mark(x, s.friends[c])
                 n == s.refs[x]
      <4>1. i \in Int /\ j \in Int /\ n \in Int
        BY DEF Mark, Lv!State
      <4>2. p.refs[x] = (n - i) - j
        BY <3>1, <3>3
      <4> HIDE DEF i, j, n
      <4>3. p.refs[x] = n - (i + j)
        BY <4>1, <4>2
      <4>4. QED
        BY <4>3 DEF i, j, n
    <3>6. q = p
      BY <2>1
    <3>7. QED
      BY <2>1, <3>4, <3>5, <3>6
  <2>2. CASE c \notin Monsters
    <3>1. \A x \in Lv!Creature : s.refs[x] = s.refs[x] - 0
      BY DEF Lv!State
    <3>2. Recount(s, s)
      BY DEF Recount, Frame
    <3>3. QED
      BY <2>2, <3>1, <3>2
  <2>3. QED
    BY <2>1, <2>2
<1>2. t = [r EXCEPT !.life[c] = "absent", !.dead = @ \ {c}, !.master =
                      [x \in Lv!Creature |-> IF x = c \/ x \in s.summons[c] THEN None ELSE @[x]],
                    !.summons[c] = {},
                    !.targets = [m \in Monsters |-> IF m = c THEN {} ELSE @[m]],
                    !.friends = [m \in Monsters |-> IF m = c THEN {} ELSE @[m]],
                    !.attacked =
                      [x \in Lv!Creature |-> IF x = c \/ x \in s.summons[c] THEN None ELSE @[x]],
                    !.followed = [m \in Monsters |-> IF m = c THEN None ELSE @[m]],
                    !.idle = @ \ {c}, !.inRange = @ \ {c},
                    !.checked = @ \ {c}]
  BY DEF Lv!Deleted
<1>3. t = [r EXCEPT !.life = L, !.dead = r.dead \ {c}, !.master = M, !.summons = S,
                    !.targets = T, !.friends = F, !.attacked = A, !.followed = W,
                    !.idle = r.idle \ {c}, !.inRange = r.inRange \ {c},
                    !.checked = r.checked \ {c}]
  <2> HIDE DEF r
  <2>1. QED
    BY <1>2
<1> HIDE DEF q
<1>4. q \in Lv!State
  BY <1>1 DEF Recount
<1>5. Recount(q, r) /\ \A x \in Lv!Creature : r.refs[x] = q.refs[x] - Mark(x, s.summons[c])
  BY <1>4, UnRefAllShape
<1> HIDE DEF r, t, a
<1>6. Recount(s, r) /\ r \in Lv!State
  BY <1>1, <1>5, Recounts DEF Recount
<1>7. L \in [Lv!Creature -> {"absent", "in", "out"}]
  BY <1>6 DEF Lv!State, a
<1>8. /\ M \in [Lv!Creature -> Lv!Creature \cup {None}]
      /\ A \in [Lv!Creature -> Lv!Creature \cup {None}]
  BY <1>6 DEF Lv!State
<1>9. /\ S \in [Lv!Creature -> SUBSET Lv!Creature]
      /\ T \in [Monsters -> SUBSET Lv!Creature] /\ F \in [Monsters -> SUBSET Lv!Creature]
      /\ W \in [Monsters -> Lv!Creature \cup {None}]
  BY <1>6 DEF Lv!State
<1>10. /\ r.life = s.life /\ r.dead = s.dead /\ r.free = s.free /\ r.near = s.near
       /\ r.master = s.master /\ r.summons = s.summons
       /\ r.attacked = s.attacked /\ r.followed = s.followed
       /\ r.checked = s.checked /\ r.slotted = s.slotted
       /\ r.targets = s.targets /\ r.friends = s.friends
  BY <1>6 DEF Recount, Frame
<1>11. /\ L = [s.life EXCEPT ![c] = a] /\ S = [s.summons EXCEPT ![c] = {}]
       /\ \A x \in Lv!Creature :
            /\ M[x] = IF x = c \/ x \in s.summons[c] THEN None ELSE s.master[x]
            /\ A[x] = IF x = c \/ x \in s.summons[c] THEN None ELSE s.attacked[x]
       /\ \A m \in Monsters :
            /\ T[m] = IF m = c THEN {} ELSE s.targets[m]
            /\ F[m] = IF m = c THEN {} ELSE s.friends[m]
            /\ W[m] = IF m = c THEN None ELSE s.followed[m]
  BY <1>10
<1> HIDE DEF L, M, S, T, F, A, W
<1>12. /\ t \in Lv!State /\ t.near = r.near /\ t.free = r.free /\ t.slotted = r.slotted
       /\ t.checked = r.checked \ {c} /\ t.dead = r.dead \ {c} /\ t.refs = r.refs
       /\ t.life = L /\ t.summons = S /\ t.master = M /\ t.attacked = A
       /\ t.targets = T /\ t.friends = F /\ t.followed = W
  BY <1>3, <1>6, <1>7, <1>8, <1>9 DEF Lv!State
<1>13. \A x \in Lv!Creature : t.refs[x] = s.refs[x] - Given(s, c, x)
  <2> SUFFICES ASSUME NEW x \in Lv!Creature PROVE t.refs[x] = s.refs[x] - Given(s, c, x)
    OBVIOUS
  <2> DEFINE i == Mark(x, s.summons[c])
             j == IF c \in Monsters THEN Mark(x, s.targets[c]) + Mark(x, s.friends[c]) ELSE 0
             n == s.refs[x]
  <2>1. i \in Int /\ n \in Int /\ j \in Int
    BY DEF Mark, Lv!State
  <2>2. t.refs[x] = (n - j) - i
    BY <1>1, <1>5, <1>12
  <2>3. Given(s, c, x) = i + j
    BY DEF Given
  <2> HIDE DEF i, j, n
  <2>4. t.refs[x] = n - (i + j)
    BY <2>1, <2>2
  <2>5. QED
    BY <2>3, <2>4 DEF n
<1>14. /\ t \in Lv!State /\ t.near = s.near /\ t.free = s.free /\ t.slotted = s.slotted
       /\ t.checked = s.checked \ {c} /\ t.dead = s.dead \ {c}
       /\ t.life = [s.life EXCEPT ![c] = a] /\ t.summons = [s.summons EXCEPT ![c] = {}]
       /\ \A x \in Lv!Creature :
            /\ t.master[x] = IF x = c \/ x \in s.summons[c] THEN None ELSE s.master[x]
            /\ t.attacked[x] = IF x = c \/ x \in s.summons[c] THEN None ELSE s.attacked[x]
            /\ t.refs[x] = s.refs[x] - Given(s, c, x)
       /\ \A m \in Monsters :
            /\ t.targets[m] = IF m = c THEN {} ELSE s.targets[m]
            /\ t.friends[m] = IF m = c THEN {} ELSE s.friends[m]
            /\ t.followed[m] = IF m = c THEN None ELSE s.followed[m]
  BY <1>10, <1>11, <1>12, <1>13
<1>15. QED
  BY <1>14 DEF Deletes, t, a

LEMMA DeletedCounted ==
  ASSUME Cast, NEW s \in Lv!State, Counted(s), NEW c \in Lv!Creature, s.life[c] # "in"
  PROVE  Counted(Lv!Deleted(s, c))
<1> DEFINE t == Lv!Deleted(s, c)
           a == "absent"
<1>1. /\ t \in Lv!State /\ t.free = s.free /\ t.slotted = s.slotted
      /\ t.life = [s.life EXCEPT ![c] = a] /\ t.summons = [s.summons EXCEPT ![c] = {}]
      /\ \A x \in Lv!Creature : t.refs[x] = s.refs[x] - Given(s, c, x)
      /\ \A m \in Monsters : /\ t.targets[m] = IF m = c THEN {} ELSE s.targets[m]
                             /\ t.friends[m] = IF m = c THEN {} ELSE s.friends[m]
  <2>1. Deletes(s, t, c)
    BY DeletedShape
  <2> HIDE DEF t
  <2>2. QED
    BY <2>1 DEF Deletes
<1> HIDE DEF t
<1> SUFFICES ASSUME NEW x \in Lv!Creature PROVE t.refs[x] = Refers(t, x)
  BY DEF Counted, t
<1>2. IsFiniteSet(Lv!Creature) /\ IsFiniteSet(Monsters)
  BY FS_Subset DEF Cast
<1> DEFINE i == Cardinality(Listing(s.summons, Lv!Creature, x))
           j == Cardinality(Listing(s.targets, Monsters, x))
           k == Cardinality(Listing(s.friends, Monsters, x))
           u == Cardinality(Listing(t.summons, Lv!Creature, x))
           v == Cardinality(Listing(t.targets, Monsters, x))
           w == Cardinality(Listing(t.friends, Monsters, x))
           n == (IF s.life[x] = "in" THEN 1 ELSE 0) + Mark(x, s.slotted) + s.free[x]
           y == Mark(x, s.summons[c])
           p == IF c \in Monsters THEN Mark(x, s.targets[c]) ELSE 0
           q == IF c \in Monsters THEN Mark(x, s.friends[c]) ELSE 0
           r == s.refs[x]
           Z == {}
<1>3. Mark(x, Z) = 0
  BY DEF Mark
<1>4. i \in Nat /\ u \in Nat /\ u = i - y
  <2> DEFINE F == s.summons
             G == t.summons
  <2>1. G[c] = Z /\ \A d \in Lv!Creature \ {c} : G[d] = F[d]
    BY <1>1 DEF Lv!State
  <2> HIDE DEF F, G, Z
  <2>2. /\ Cardinality(Listing(G, Lv!Creature, x)) \in Nat
        /\ Cardinality(Listing(F, Lv!Creature, x)) \in Nat
        /\ Cardinality(Listing(G, Lv!Creature, x)) =
             Cardinality(Listing(F, Lv!Creature, x)) + Mark(x, Z) - Mark(x, F[c])
    BY <1>2, <2>1, Relisted
  <2> DEFINE b == Mark(x, F[c])
             d == Cardinality(Listing(F, Lv!Creature, x))
             e == Cardinality(Listing(G, Lv!Creature, x))
  <2>3. b \in Nat
    BY DEF Mark
  <2>4. d \in Nat /\ e \in Nat /\ e = d + 0 - b
    BY <1>3, <2>2
  <2> HIDE DEF b, d, e
  <2>5. d \in Nat /\ e \in Nat /\ e = d - b
    BY <2>3, <2>4
  <2>6. QED
    BY <2>5 DEF F, G, b, d, e
<1>5. j \in Nat /\ v \in Nat /\ v = j - p
  <2> DEFINE F == s.targets
             G == t.targets
             d == Cardinality(Listing(F, Monsters, x))
             e == Cardinality(Listing(G, Monsters, x))
  <2>1. CASE c \in Monsters
    <3> DEFINE b == Mark(x, F[c])
    <3>1. G[c] = Z /\ \A m \in Monsters \ {c} : G[m] = F[m]
      BY <1>1, <2>1
    <3> HIDE DEF F, G, Z
    <3>2. d \in Nat /\ e \in Nat /\ e = d + Mark(x, Z) - b
      BY <1>2, <2>1, <3>1, Relisted DEF d, e, b
    <3>3. b \in Nat
      BY DEF Mark
    <3>4. e = d + 0 - b
      BY <1>3, <3>2
    <3> HIDE DEF b, d, e
    <3>5. d \in Nat /\ e \in Nat /\ e = d - b
      BY <3>2, <3>3, <3>4
    <3>6. p = b
      BY <2>1 DEF F, b
    <3> HIDE DEF p
    <3>7. d \in Nat /\ e \in Nat /\ e = d - p
      BY <3>5, <3>6
    <3>8. QED
      BY <3>7 DEF F, G, d, e
  <2>2. CASE c \notin Monsters
    <3>1. \A m \in Monsters : G[m] = F[m]
      BY <1>1, <2>2
    <3>2. Listing(G, Monsters, x) = Listing(F, Monsters, x)
      BY <3>1 DEF Listing
    <3>3. d \in Nat
      <4> HIDE DEF F
      <4>1. QED
        BY <1>2, ListingCounts
    <3>4. e = d
      BY <3>2
    <3>5. p = 0
      BY <2>2
    <3> HIDE DEF p, d, e
    <3>6. d \in Nat /\ e \in Nat /\ e = d - p
      BY <3>3, <3>4, <3>5
    <3>7. QED
      BY <3>6 DEF F, G, d, e
  <2>3. QED
    BY <2>1, <2>2
<1>6. k \in Nat /\ w \in Nat /\ w = k - q
  <2> DEFINE F == s.friends
             G == t.friends
             d == Cardinality(Listing(F, Monsters, x))
             e == Cardinality(Listing(G, Monsters, x))
  <2>1. CASE c \in Monsters
    <3> DEFINE b == Mark(x, F[c])
    <3>1. G[c] = Z /\ \A m \in Monsters \ {c} : G[m] = F[m]
      BY <1>1, <2>1
    <3> HIDE DEF F, G, Z
    <3>2. d \in Nat /\ e \in Nat /\ e = d + Mark(x, Z) - b
      BY <1>2, <2>1, <3>1, Relisted DEF d, e, b
    <3>3. b \in Nat
      BY DEF Mark
    <3>4. e = d + 0 - b
      BY <1>3, <3>2
    <3> HIDE DEF b, d, e
    <3>5. d \in Nat /\ e \in Nat /\ e = d - b
      BY <3>2, <3>3, <3>4
    <3>6. q = b
      BY <2>1 DEF F, b
    <3> HIDE DEF q
    <3>7. d \in Nat /\ e \in Nat /\ e = d - q
      BY <3>5, <3>6
    <3>8. QED
      BY <3>7 DEF F, G, d, e
  <2>2. CASE c \notin Monsters
    <3>1. \A m \in Monsters : G[m] = F[m]
      BY <1>1, <2>2
    <3>2. Listing(G, Monsters, x) = Listing(F, Monsters, x)
      BY <3>1 DEF Listing
    <3>3. d \in Nat
      <4> HIDE DEF F
      <4>1. QED
        BY <1>2, ListingCounts
    <3>4. e = d
      BY <3>2
    <3>5. q = 0
      BY <2>2
    <3> HIDE DEF q, d, e
    <3>6. d \in Nat /\ e \in Nat /\ e = d - q
      BY <3>3, <3>4, <3>5
    <3>7. QED
      BY <3>6 DEF F, G, d, e
  <2>3. QED
    BY <2>1, <2>2
<1>7. y \in Nat /\ p \in Nat /\ q \in Nat /\ n \in Nat /\ r \in Int
  <2>1. s.free[x] \in Nat /\ r \in Int
    BY DEF Lv!State
  <2>2. QED
    BY <2>1 DEF Mark
<1>8. r = n + (i + j + k)
  BY DEF Counted, Refers, Lists
<1>9. Refers(t, x) = n + (u + v + w)
  <2>1. t.life[x] = "in" <=> s.life[x] = "in"
    BY <1>1 DEF Lv!State
  <2>2. QED
    BY <1>1, <2>1 DEF Refers, Lists
<1>10. t.refs[x] = r - (y + (p + q))
  <2>1. Given(s, c, x) = y + (IF c \in Monsters THEN Mark(x, s.targets[c]) + Mark(x, s.friends[c]) ELSE 0)
    BY DEF Given
  <2>2. (IF c \in Monsters THEN Mark(x, s.targets[c]) + Mark(x, s.friends[c]) ELSE 0) = p + q
    OBVIOUS
  <2>3. QED
    BY <1>1, <2>1, <2>2
<1> HIDE DEF i, j, k, u, v, w, n, y, p, q, r
<1>11. r - (y + (p + q)) = n + (u + v + w)
  BY <1>4, <1>5, <1>6, <1>7, <1>8
<1>12. QED
  BY <1>9, <1>10, <1>11

\* Deleting who is not referred to leaves everything else as it should be.
LEMMA DeletedFull ==
  ASSUME Cast, NEW s, Full(s), NEW c \in Lv!Creature, s.refs[c] <= 0
  PROVE  Full(Lv!Deleted(s, c))
<1> DEFINE t == Lv!Deleted(s, c)
           a == "absent"
<1>1. s \in Lv!State /\ Counted(s) /\ Bare(s) /\ Mastered(s) /\ Present(s) /\ Core(s)
  BY DEF Full, Fair, Core
<1>2. /\ s.life[c] # "in" /\ c \notin s.slotted /\ s.free[c] = 0 /\ s.refs[c] = 0
      /\ \A d \in Lv!Creature : c \notin s.summons[d]
      /\ \A m \in Monsters : c \notin s.targets[m] /\ c \notin s.friends[m]
  BY <1>1, Unreferred
<1>3. Counted(t)
  BY <1>1, <1>2, DeletedCounted
<1>4. /\ t \in Lv!State /\ t.near = s.near /\ t.free = s.free /\ t.slotted = s.slotted
      /\ t.checked = s.checked \ {c} /\ t.dead = s.dead \ {c}
      /\ t.life = [s.life EXCEPT ![c] = a] /\ t.summons = [s.summons EXCEPT ![c] = {}]
      /\ \A x \in Lv!Creature :
           /\ t.master[x] = IF x = c \/ x \in s.summons[c] THEN None ELSE s.master[x]
           /\ t.attacked[x] = IF x = c \/ x \in s.summons[c] THEN None ELSE s.attacked[x]
           /\ t.refs[x] = s.refs[x] - Given(s, c, x)
      /\ \A m \in Monsters :
           /\ t.targets[m] = IF m = c THEN {} ELSE s.targets[m]
           /\ t.friends[m] = IF m = c THEN {} ELSE s.friends[m]
           /\ t.followed[m] = IF m = c THEN None ELSE s.followed[m]
  <2>1. Deletes(s, t, c)
    BY <1>1, DeletedShape
  <2> HIDE DEF t
  <2>2. QED
    BY <2>1 DEF Deletes
<1> HIDE DEF t
<1>5. /\ t.life[c] = "absent" /\ \A x \in Lv!Creature \ {c} : t.life[x] = s.life[x]
      /\ t.summons[c] = {} /\ \A x \in Lv!Creature \ {c} : t.summons[x] = s.summons[x]
  BY <1>1, <1>4 DEF Lv!State
<1>6. ASSUME NEW x \in Lv!Creature, t.life[x] = "absent" PROVE t.refs[x] = 0
  <2>1. /\ s.refs[x] = 0 /\ x \notin s.summons[c]
        /\ c \in Monsters => x \notin s.targets[c] /\ x \notin s.friends[c]
    <3>1. CASE x = c
      BY <1>2, <3>1
    <3>2. CASE x # c
      <4>1. s.life[x] = "absent"
        BY <1>5, <1>6, <3>2
      <4>2. QED
        BY <1>1, <4>1, AbsentIsNowhere
    <3>3. QED
      BY <3>1, <3>2
  <2>2. Given(s, c, x) = 0
    BY <2>1 DEF Given, Mark
  <2>3. QED
    BY <1>4, <2>1, <2>2
<1>7. Bare(t)
  <2>1. \A x \in Lv!Creature : t.life[x] = "absent" =>
          x \notin t.dead /\ t.summons[x] = {} /\ t.attacked[x] = None
    BY <1>1, <1>4, <1>5 DEF Bare
  <2>2. \A m \in Monsters : t.life[m] = "absent" =>
          t.targets[m] = {} /\ t.friends[m] = {} /\ t.followed[m] = None
    <3> SUFFICES ASSUME NEW m \in Monsters, t.life[m] = "absent"
        PROVE  t.targets[m] = {} /\ t.friends[m] = {} /\ t.followed[m] = None
      OBVIOUS
    <3>1. m = c \/ s.life[m] = "absent"
      BY <1>5 DEF Cast
    <3>2. QED
      BY <1>1, <1>4, <3>1 DEF Bare
  <2>3. QED
    BY <1>6, <2>1, <2>2 DEF Bare
<1>8. Mastered(t)
  <2>1. \A x \in Lv!Creature : t.summons[x] \subseteq Monsters
    BY <1>1, <1>5 DEF Mastered
  <2>2. ASSUME NEW e \in Lv!Creature, NEW d \in Lv!Creature
        PROVE  d \in t.summons[e] <=> t.master[d] = e
    <3>1. None # e /\ (d \in s.summons[e] <=> s.master[d] = e)
          /\ (d \in s.summons[c] <=> s.master[d] = c) /\ c \notin s.summons[e]
      BY <1>1, <1>2 DEF Mastered, Cast
    <3>2. t.summons[e] = IF e = c THEN {} ELSE s.summons[e]
      BY <1>5
    <3>3. t.master[d] = IF d = c \/ d \in s.summons[c] THEN None ELSE s.master[d]
      BY <1>4
    <3>4. QED
      BY <3>1, <3>2, <3>3
  <2>3. QED
    BY <2>1, <2>2 DEF Mastered
<1>9. Present(t)
  <2>1. \A e, x \in Lv!Creature : Lv!Near(t, e, x) => t.life[e] = "in" /\ t.life[x] = "in"
    BY <1>1, <1>2, <1>4, <1>5 DEF Present, Lv!Near
  <2>2. t.checked \subseteq t.slotted /\ \A x \in t.checked : t.life[x] = "in"
    BY <1>1, <1>4, <1>5 DEF Present, Lv!State
  <2>3. \A x \in Lv!Creature : t.free[x] \in 0 .. 1 /\ (t.life[x] = "in" => t.free[x] = 0)
    BY <1>1, <1>4, <1>5 DEF Present
  <2>4. QED
    BY <2>1, <2>2, <2>3 DEF Present
<1>10. Alert(t)
  BY <1>4, <1>5 DEF Full, Fair, Alert
<1>11. ASSUME NEW d \in Lv!Creature PROVE Aims(t, d)
  <2> SUFFICES ASSUME t.life[d] = "in" PROVE Aims(t, d)
    BY DEF Aims
  <2>1. s.life[d] = "in" /\ d # c
    BY <1>5
  <2>2. Aims(s, d)
    BY DEF Full, Fair
  <2>3. t.attacked[d] \in {s.attacked[d], None} /\ (d \in Monsters => t.followed[d] = s.followed[d])
    BY <1>4, <2>1
  <2>4. QED
    BY <1>4, <2>1, <2>2, <2>3 DEF Aims, Lv!Near
<1>12. Owned(t)
  <2> SUFFICES ASSUME NEW d \in Lv!Creature, t.life[d] = "in", t.master[d] # None
      PROVE  t.life[t.master[d]] = "in"
    BY DEF Owned
  <2>1. s.life[d] = "in" /\ t.master[d] = s.master[d] /\ s.master[d] \in Lv!Creature
    BY <1>1, <1>4, <1>5 DEF Lv!State
  <2>2. s.life[s.master[d]] = "in"
    BY <2>1 DEF Full, Owned
  <2>3. QED
    BY <1>2, <1>5, <2>1, <2>2
<1>13. Settled(t)
  <2>1. Hollow(s) /\ Rooted(s) /\ None \notin Monsters
    BY DEF Full, Fair, Settled, Cast
  <2>2. ASSUME NEW m \in Monsters, t.life[m] = "out" PROVE Emptied(t, m)
    <3>1. m # c /\ s.life[m] = "out"
      BY <1>5, <2>2 DEF Cast
    <3>2. QED
      BY <1>4, <2>1, <3>1 DEF Hollow, Emptied
  <2>3. \A m \in Monsters : t.master[m] \in {s.master[m], None}
    BY <1>4 DEF Cast
  <2>4. Rooted(t)
    BY <2>1, <2>3, RootedSame
  <2>5. QED
    BY <2>2, <2>4 DEF Settled, Hollow
<1>14. QED
  BY <1>3, <1>4, <1>7, <1>8, <1>9, <1>10, <1>11, <1>12, <1>13 DEF Full, Fair, Core, t

\* What unRef() deletes; nothing of it is left between the steps, the invariant of which
\* is Tidy.
Garbage(s) == {c \in Lv!Creature : s.life[c] # "absent" /\ s.refs[c] <= 0}

Tidy(s) == Full(s) /\ Garbage(s) = {}

\* How many there are: one fewer with each deletion.
Existing(s) == Cardinality({d \in Lv!Creature : s.life[d] # "absent"})

LEMMA OneDeleted ==
  ASSUME Cast, NEW s \in Lv!State, NEW c \in Lv!Creature, s.life[c] # "absent",
         NEW t, Deletes(s, t, c)
  PROVE  Existing(s) \in 1 .. Cardinality(Lv!Creature) /\ Existing(t) = Existing(s) - 1
<1> DEFINE A == {d \in Lv!Creature : s.life[d] # "absent"}
           B == {d \in Lv!Creature : t.life[d] # "absent"}
           a == "absent"
<1>1. A \in SUBSET Lv!Creature /\ c \in A /\ IsFiniteSet(Lv!Creature)
  BY DEF Cast
<1>2. IsFiniteSet(A) /\ Cardinality(A) <= Cardinality(Lv!Creature)
  <2> HIDE DEF A
  <2>1. QED
    BY <1>1, FS_Subset
<1>3. B = A \ {c}
  <2>1. t.life = [s.life EXCEPT ![c] = a]
    BY DEF Deletes
  <2>2. t.life[c] = "absent" /\ \A d \in Lv!Creature \ {c} : t.life[d] = s.life[d]
    BY <2>1 DEF Lv!State
  <2>3. QED
    BY <2>2
<1> HIDE DEF A, B
<1>4. Cardinality(A) \in Nat /\ Cardinality(Lv!Creature) \in Nat
  BY <1>1, <1>2, FS_CardinalityType
<1>5. A # {}
  BY <1>1
<1>6. Cardinality(A) # 0
  BY <1>2, <1>5, FS_EmptySet
<1>7. Cardinality(B) = Cardinality(A) - 1
  BY <1>1, <1>2, <1>3, FS_RemoveElement
<1>8. Cardinality(A) \in 1 .. Cardinality(Lv!Creature)
  BY <1>2, <1>4, <1>6
<1>9. QED
  BY <1>7, <1>8 DEF A, B, Existing

\* unRef() deletes, one after the other, who is not referred to, until nobody is left who
\* is not.
LEMMA SweptTidy == ASSUME Cast, NEW s, Full(s) PROVE Tidy(Lv!Swept(s))
<1> DEFINE N == Turned
           Holds(u, n) == Full(u) /\ (Garbage(u) = {} \/ Existing(u) <= N - n)
           Good == [n \in 0 .. N |-> {u \in Lv!State : Holds(u, n)}]
           Op(u, n) == IF Garbage(s) = {} THEN s
                       ELSE IF Garbage(u) = {} THEN u
                       ELSE Lv!Deleted(u, CHOOSE c \in Garbage(u) : TRUE)
           H == [p \in Lv!State \X (1 .. N) |-> Op(p[1], p[2])]
           Is(T) == T = [n \in 0 .. N |->
                         IF n = 0 \/ Garbage(s) = {} THEN s
                         ELSE IF Garbage(T[n - 1]) = {} THEN T[n - 1]
                         ELSE Lv!Deleted(T[n - 1], CHOOSE c \in Garbage(T[n - 1]) : TRUE)]
           U == CHOOSE T : Is(T)
<1>1. Lv!Swept(s) = U[N]
  BY DEF Lv!Swept, Turned, Garbage
<1>2. s \in Lv!State /\ Holds(s, 0)
  <2>1. s \in Lv!State
    BY DEF Full, Fair, Core
  <2> DEFINE A == {d \in Lv!Creature : s.life[d] # "absent"}
             i == Cardinality(A)
  <2>2. A \in SUBSET Lv!Creature
    OBVIOUS
  <2> HIDE DEF A
  <2>3. i <= Cardinality(Lv!Creature) /\ i \in Nat
    BY <2>2, FS_Subset, FS_CardinalityType DEF Cast
  <2> HIDE DEF i
  <2>4. i <= N - 0
    BY <2>3, TurnedNat
  <2>5. QED
    BY <2>1, <2>4 DEF Existing, i, A
<1>3. ASSUME NEW n \in 1 .. N, NEW u \in Lv!State, Holds(u, n - 1)
       PROVE  Op(u, n) \in Lv!State /\ Holds(Op(u, n), n)
  <2>1. CASE Garbage(s) = {} \/ Garbage(u) = {}
    BY <1>2, <1>3, <2>1
  <2>2. CASE Garbage(s) # {} /\ Garbage(u) # {}
    <3> DEFINE c == CHOOSE c \in Garbage(u) : TRUE
               v == Lv!Deleted(u, c)
    <3>1. c \in Garbage(u)
      BY <2>2
    <3>2. Op(u, n) = v
      BY <2>2
    <3> HIDE DEF c
    <3>3. c \in Lv!Creature /\ u.life[c] # "absent" /\ u.refs[c] <= 0 /\ Full(u)
      BY <1>3, <3>1 DEF Garbage
    <3>4. Full(v)
      BY <3>3, DeletedFull
    <3>5. v \in Lv!State
      BY <3>4 DEF Full, Fair, Core
    <3>6. Deletes(u, v, c)
      BY <3>3, DeletedShape
    <3> HIDE DEF v
    <3>7. Existing(u) \in 1 .. N /\ Existing(v) = Existing(u) - 1
      BY <3>3, <3>6, OneDeleted, TurnedNat
    <3> DEFINE i == Existing(u)
               j == Existing(v)
    <3>8. i <= N - (n - 1)
      BY <1>3, <2>2
    <3> HIDE DEF i, j, N
    <3>9. j <= N - n
      BY <3>7, <3>8, TurnedNat DEF i, j, N
    <3> HIDE DEF Op
    <3>10. QED
      BY <3>2, <3>4, <3>5, <3>9 DEF j
  <2>3. QED
    BY <2>1, <2>2
<1>4. N \in Nat /\ \A n \in 1 .. N : n \in 0 .. N /\ n - 1 \in 0 .. N /\ n # 0
  BY TurnedNat
<1>5. \A u \in Lv!State, n \in 1 .. N : H[<<u, n>>] = Op(u, n)
  <2> HIDE DEF Op
  <2>1. QED
    OBVIOUS
<1>6. \A n \in 0 .. N : \A u : u \in Good[n] <=> u \in Lv!State /\ Holds(u, n)
  <2> HIDE DEF Holds
  <2>1. QED
    OBVIOUS
<1> HIDE DEF H, N, Good, Holds, Op
<1>7. Steps(H, N, Good) /\ s \in Good[0]
  <2>1. 0 \in 0 .. N
    BY <1>4
  <2>2. s \in Good[0]
    BY <1>2, <1>6, <2>1
  <2>3. ASSUME NEW n \in 1 .. N, NEW u \in Good[n - 1] PROVE H[<<u, n>>] \in Good[n]
    <3>1. u \in Lv!State /\ Holds(u, n - 1) /\ n \in 0 .. N
      BY <1>4, <1>6
    <3>2. Op(u, n) \in Lv!State /\ Holds(Op(u, n), n)
      BY <1>3, <3>1
    <3>3. QED
      BY <1>5, <1>6, <3>1, <3>2
  <2>4. QED
    BY <2>2, <2>3 DEF Steps
<1>8. PICK T : Turns(T, H, N, Good, s)
  BY <1>4, <1>7, LoopExists
<1>9. /\ T = [n \in 0 .. N |-> IF n = 0 THEN s ELSE H[<<T[n - 1], n>>]]
      /\ \A n \in 0 .. N : T[n] \in Lv!State
  BY <1>6, <1>8 DEF Turns
<1>10. Is(T)
  <2>1. \A n \in 0 .. N : n # 0 => H[<<T[n - 1], n>>] = Op(T[n - 1], n)
    <3> SUFFICES ASSUME NEW n \in 0 .. N, n # 0 PROVE H[<<T[n - 1], n>>] = Op(T[n - 1], n)
      OBVIOUS
    <3>1. n \in 1 .. N /\ n - 1 \in 0 .. N
      BY <1>4
    <3>2. QED
      BY <1>5, <1>9, <3>1
  <2>2. \A n \in 0 .. N : (IF n = 0 THEN s ELSE H[<<T[n - 1], n>>])
                            = (IF n = 0 \/ Garbage(s) = {} THEN s ELSE Op(T[n - 1], n))
    BY <2>1 DEF Op
  <2>3. [n \in 0 .. N |-> IF n = 0 THEN s ELSE H[<<T[n - 1], n>>]]
          = [n \in 0 .. N |-> IF n = 0 \/ Garbage(s) = {} THEN s ELSE Op(T[n - 1], n)]
    BY <2>2
  <2>4. QED
    BY <1>9, <2>3 DEF Op
<1>11. Is(U)
  BY <1>10
<1>12. \A n \in 0 .. N : U[n] = IF n = 0 THEN s ELSE Op(U[n - 1], n)
  <2> HIDE DEF U
  <2>1. QED
    BY <1>11 DEF Op
<1> HIDE DEF Is, U
<1>13. Stays(U, N, Good)
  <2>1. U[0] \in Good[0] /\ 0 \in 0 .. N
    <3>1. 0 \in 0 .. N
      BY <1>4
    <3>2. U[0] = s
      BY <3>1, <1>12
    <3>3. QED
      BY <3>1, <3>2, <1>7
  <2>2. ASSUME NEW n \in 1 .. N, U[n - 1] \in Good[n - 1] PROVE U[n] \in Good[n]
    <3>1. U[n - 1] \in Lv!State /\ Holds(U[n - 1], n - 1) /\ U[n] = Op(U[n - 1], n)
      BY <1>4, <1>6, <1>12, <2>2
    <3> DEFINE u == U[n - 1]
    <3> HIDE DEF u
    <3>2. Op(u, n) \in Lv!State /\ Holds(Op(u, n), n)
      BY <1>3, <3>1 DEF u
    <3>3. QED
      BY <1>4, <1>6, <3>1, <3>2 DEF u
  <2>3. QED
    BY <2>1, <2>2 DEF Stays
<1>14. N \in 0 .. N
  BY <1>4
<1>15. Holds(U[N], N)
  BY <1>4, <1>6, <1>13, <1>14, LoopStays
<1> DEFINE z == U[N]
<1>16. Full(z) /\ (Garbage(z) = {} \/ Existing(z) <= N - N)
  BY <1>15 DEF Holds
<1>17. Garbage(z) = {}
  <2> HIDE DEF z
  <2> SUFFICES ASSUME NEW c \in Garbage(z), Existing(z) <= N - N PROVE FALSE
    BY <1>16
  <2>1. c \in Lv!Creature /\ z.life[c] # "absent" /\ z \in Lv!State
    BY <1>16 DEF Garbage, Full, Fair, Core
  <2>2. Deletes(z, Lv!Deleted(z, c), c)
    BY <2>1, DeletedShape
  <2> DEFINE t == Lv!Deleted(z, c)
  <2> HIDE DEF t
  <2>3. Existing(z) \in 1 .. Cardinality(Lv!Creature)
    BY <2>1, <2>2, OneDeleted DEF t
  <2> DEFINE i == Existing(z)
             k == Cardinality(Lv!Creature)
  <2>4. N - N = 0
    BY <1>4
  <2>5. i \in 1 .. k /\ i <= 0 /\ k \in Nat
    BY <2>3, <2>4, TurnedNat
  <2> HIDE DEF i, k
  <2>6. QED
    BY <2>5
<1>18. QED
  BY <1>1, <1>16, <1>17 DEF Tidy

\* Game::cleanup() gives back what is to be released, once each.
LEMMA CleanedTidy == ASSUME Cast, NEW s, Full(s) PROVE Tidy(Lv!Cleaned(s))
<1> DEFINE R == [c \in Lv!Creature |-> s.refs[c] - s.free[c]]
           F == [c \in Lv!Creature |-> 0]
           t == [s EXCEPT !.refs = R, !.free = F]
<1>1. s \in Lv!State /\ Counted(s) /\ Bare(s) /\ Mastered(s) /\ Present(s) /\ Core(s)
  BY DEF Full, Fair, Core
<1>2. R \in [Lv!Creature -> Int] /\ F \in [Lv!Creature -> 0 .. 3]
  BY <1>1 DEF Lv!State
<1>3. Lv!Cleaned(s) = Lv!Swept(t)
  BY <1>1 DEF Lv!Cleaned, Lv!State
<1>4. \A c \in Lv!Creature : R[c] = s.refs[c] - s.free[c] /\ F[c] = 0
  OBVIOUS
<1> HIDE DEF R, F
<1>5. /\ t \in Lv!State /\ t.refs = R /\ t.free = F
      /\ t.life = s.life /\ t.dead = s.dead /\ t.master = s.master /\ t.summons = s.summons
      /\ t.targets = s.targets /\ t.friends = s.friends
      /\ t.attacked = s.attacked /\ t.followed = s.followed
      /\ t.checked = s.checked /\ t.slotted = s.slotted /\ t.near = s.near
  BY <1>1, <1>2 DEF Lv!State
<1> HIDE DEF t
<1>6. Counted(t)
  <2> SUFFICES ASSUME NEW c \in Lv!Creature PROVE t.refs[c] = Refers(t, c)
    BY DEF Counted
  <2> DEFINE n == (IF s.life[c] = "in" THEN 1 ELSE 0) + Mark(c, s.slotted)
             f == s.free[c]
             l == Lists(s, c)
             r == s.refs[c]
  <2>1. Lists(t, c) = l
    BY <1>5 DEF Lists
  <2>2. n \in Int /\ f \in Int /\ r \in Int
    BY <1>1 DEF Lv!State, Mark
  <2>3. r = n + f + l
    BY <1>1 DEF Counted, Refers
  <2>4. t.refs[c] = r - f
    BY <1>4, <1>5
  <2>5. Refers(t, c) = n + 0 + l
    BY <1>4, <1>5, <2>1 DEF Refers
  <2>6. l \in Int
    <3>1. IsFiniteSet(Lv!Creature) /\ IsFiniteSet(Monsters)
      BY FS_Subset DEF Cast
    <3>2. /\ Cardinality(Listing(s.summons, Lv!Creature, c)) \in Nat
          /\ Cardinality(Listing(s.targets, Monsters, c)) \in Nat
          /\ Cardinality(Listing(s.friends, Monsters, c)) \in Nat
      BY <3>1, ListingCounts
    <3>3. QED
      BY <3>2 DEF Lists
  <2> HIDE DEF n, f, l, r
  <2>7. r - f = n + 0 + l
    BY <2>2, <2>3, <2>6
  <2>8. QED
    BY <2>4, <2>5, <2>7
<1>7. Bare(t)
  <2>1. \A c \in Lv!Creature : t.life[c] = "absent" => t.refs[c] = 0
    <3> SUFFICES ASSUME NEW c \in Lv!Creature, s.life[c] = "absent" PROVE t.refs[c] = 0
      BY <1>5
    <3>1. s.refs[c] = 0 /\ s.free[c] = 0
      BY <1>1, AbsentIsNowhere
    <3>2. QED
      BY <1>4, <1>5, <3>1
  <2>2. QED
    BY <1>1, <1>5, <2>1 DEF Bare
<1>8. Mastered(t) /\ Present(t)
  BY <1>1, <1>4, <1>5 DEF Mastered, Present, Lv!Near
<1>9. Core(t)
  BY <1>5, <1>6, <1>7, <1>8 DEF Core
<1>10. Fair(t)
  <2>1. Fair(s)
    BY DEF Full
  <2>2. Settled(t)
    <3>1. Settled(s) /\ Shrinks(s, t, Gone(s))
      BY <1>5, <2>1 DEF Fair, Shrinks
    <3>2. QED
      BY <1>5, <3>1, SettledSame
  <2>3. QED
    BY <1>5, <1>9, <2>1, <2>2, FairSame
<1>11. Full(t)
  BY <1>5, <1>10 DEF Full, Owned
<1>12. QED
  BY <1>3, <1>11, SweptTidy


-----------------------------------------------------------------------------
(* Removals                                                                *)

\* t is s but for m, who is no summon of c any more, nor of anybody else.
Unsummons(s, t, c, m) ==
  /\ t \in Lv!State /\ t.life = s.life /\ t.dead = s.dead /\ t.near = s.near
  /\ t.free = s.free /\ t.checked = s.checked /\ t.slotted = s.slotted
  /\ t.attacked = s.attacked /\ t.followed = s.followed
  /\ t.targets = s.targets /\ t.friends = s.friends
  /\ t.master = [s.master EXCEPT ![m] = None]
  /\ t.summons = [s.summons EXCEPT ![c] = s.summons[c] \ {m}]
  /\ t.refs[m] = s.refs[m] - 1 /\ \A x \in Lv!Creature \ {m} : t.refs[x] = s.refs[x]

LEMMA RemoveSummonFields ==
  ASSUME Cast, NEW s \in Lv!State, NEW c \in Lv!Creature, NEW m \in Lv!Creature,
         m \in s.summons[c], NEW t, t = Lv!RemoveSummon(s, c, m)
  PROVE  Unsummons(s, t, c, m)
<1> DEFINE A == s.summons[c] \ {m}
           u == [s EXCEPT !.master[m] = None, !.summons[c] = @ \ {m}]
<1>1. A \in SUBSET Lv!Creature
  BY DEF Lv!State
<1>2. t = Lv!UnRef(u, m)
  BY DEF Lv!RemoveSummon
<1>3. u = [s EXCEPT !.master = [s.master EXCEPT ![m] = None],
                    !.summons = [s.summons EXCEPT ![c] = A]]
  BY DEF Lv!State
<1> HIDE DEF A, u
<1>4. /\ u \in Lv!State /\ u.life = s.life /\ u.dead = s.dead /\ u.free = s.free
      /\ u.near = s.near /\ u.attacked = s.attacked /\ u.followed = s.followed
      /\ u.checked = s.checked /\ u.slotted = s.slotted
      /\ u.targets = s.targets /\ u.friends = s.friends /\ u.refs = s.refs
      /\ u.master = [s.master EXCEPT ![m] = None]
      /\ u.summons = [s.summons EXCEPT ![c] = A]
  BY <1>1, <1>3 DEF Lv!State
<1>5. /\ Recount(u, t) /\ t.refs[m] = u.refs[m] - 1
      /\ \A x \in Lv!Creature \ {m} : t.refs[x] = u.refs[x]
  BY <1>2, <1>4, UnRefShape
<1>6. /\ t \in Lv!State /\ t.life = s.life /\ t.dead = s.dead /\ t.near = s.near
      /\ t.free = s.free /\ t.checked = s.checked /\ t.slotted = s.slotted
      /\ t.attacked = s.attacked /\ t.followed = s.followed
      /\ t.targets = s.targets /\ t.friends = s.friends
      /\ t.master = [s.master EXCEPT ![m] = None]
      /\ t.summons = [s.summons EXCEPT ![c] = A]
      /\ t.refs[m] = s.refs[m] - 1 /\ \A x \in Lv!Creature \ {m} : t.refs[x] = s.refs[x]
  BY <1>4, <1>5 DEF Recount, Frame
<1>7. QED
  BY <1>6 DEF Unsummons, A

\* r is s but for c, who left: it is near nobody, in no vector, and waits for its release.
Left(s, r, c) ==
  /\ r \in Lv!State /\ r.dead = s.dead /\ r.slotted = s.slotted
  /\ r.life = [s.life EXCEPT ![c] = "out"] /\ r.near = {p \in s.near : c \notin p}
  /\ r.free = [s.free EXCEPT ![c] = s.free[c] + 1] /\ r.checked = s.checked \ {c}
  /\ r.master = s.master /\ r.summons = s.summons
  /\ r.targets = s.targets /\ r.friends = s.friends
  /\ r.attacked = s.attacked /\ r.followed = s.followed
  /\ \A x \in Lv!Creature : r.refs[x] = s.refs[x]

\* Who leaves while nobody attacks or follows him leaves the rest of the game fair.
LEMMA LeftFair ==
  ASSUME Cast, NEW s, Fair(s), NEW c \in Lv!Creature, s.life[c] = "in", NEW r, Left(s, r, c),
         \A d \in Lv!Creature \ {c} : s.life[d] = "in" =>
           s.attacked[d] # c /\ (d \in Monsters => s.followed[d] # c),
         c \in Monsters => Emptied(s, c)
  PROVE  Fair(r)
<1> DEFINE o == "out"
<1>1. s \in Lv!State /\ Counted(s) /\ Bare(s) /\ Mastered(s) /\ Present(s) /\ Alert(s)
  BY DEF Fair, Core
<1>2. /\ r \in Lv!State /\ r.dead = s.dead /\ r.slotted = s.slotted
      /\ r.life = [s.life EXCEPT ![c] = o] /\ r.near = {p \in s.near : c \notin p}
      /\ r.free = [s.free EXCEPT ![c] = s.free[c] + 1] /\ r.checked = s.checked \ {c}
      /\ r.master = s.master /\ r.summons = s.summons
      /\ r.targets = s.targets /\ r.friends = s.friends
      /\ r.attacked = s.attacked /\ r.followed = s.followed
      /\ \A x \in Lv!Creature : r.refs[x] = s.refs[x]
  BY DEF Left
<1>3. o # "in" /\ o # "absent"
  OBVIOUS
<1> HIDE DEF o
<1>4. s.free[c] = 0
  BY <1>1 DEF Present
<1>5. /\ r.life[c] = o /\ \A x \in Lv!Creature \ {c} : r.life[x] = s.life[x]
      /\ r.free[c] = 1 /\ \A x \in Lv!Creature \ {c} : r.free[x] = s.free[x]
  <2>1. s.life \in [Lv!Creature -> {"absent", "in", "out"}] /\ s.free \in [Lv!Creature -> 0 .. 3]
    BY <1>1 DEF Lv!State
  <2>2. r.life[c] = o /\ \A x \in Lv!Creature \ {c} : r.life[x] = s.life[x]
    BY <1>2, <2>1
  <2>3. r.free[c] = s.free[c] + 1 /\ \A x \in Lv!Creature \ {c} : r.free[x] = s.free[x]
    BY <1>2, <2>1
  <2>4. QED
    BY <1>4, <2>2, <2>3
<1>6. Counted(r)
  <2> SUFFICES ASSUME NEW x \in Lv!Creature PROVE r.refs[x] = Refers(r, x)
    BY DEF Counted
  <2> DEFINE k == Mark(x, s.slotted)
             l == Lists(s, x)
             i == IF s.life[x] = "in" THEN 1 ELSE 0
             j == IF r.life[x] = "in" THEN 1 ELSE 0
             e == s.free[x]
             f == r.free[x]
  <2>1. s.refs[x] = i + k + e + l
    BY <1>1 DEF Counted, Refers
  <2>2. Refers(r, x) = j + k + f + l
    BY <1>2 DEF Refers, Lists
  <2>3. e \in Nat /\ f \in Nat /\ k \in Nat
    BY <1>1, <1>2 DEF Lv!State, Mark
  <2>4. i \in Nat /\ j \in Nat /\ i + e = j + f
    <3>1. CASE x = c
      BY <1>3, <1>4, <1>5, <3>1
    <3>2. CASE x # c
      BY <1>5, <2>3, <3>2
    <3>3. QED
      BY <3>1, <3>2
  <2>5. l \in Int
    <3>1. IsFiniteSet(Lv!Creature) /\ IsFiniteSet(Monsters)
      BY FS_Subset DEF Cast
    <3>2. /\ Cardinality(Listing(s.summons, Lv!Creature, x)) \in Nat
          /\ Cardinality(Listing(s.targets, Monsters, x)) \in Nat
          /\ Cardinality(Listing(s.friends, Monsters, x)) \in Nat
      BY <3>1, ListingCounts
    <3>3. QED
      BY <3>2 DEF Lists
  <2> HIDE DEF i, j, k, l, e, f
  <2>6. i + k + e + l = j + k + f + l
    BY <2>3, <2>4, <2>5
  <2>7. QED
    BY <1>2, <2>1, <2>2, <2>6
<1>7. Bare(r)
  <2>1. \A x \in Lv!Creature : r.life[x] = "absent" => s.life[x] = "absent"
    BY <1>3, <1>5
  <2>2. \A m \in Monsters : r.life[m] = "absent" => s.life[m] = "absent"
    BY <2>1 DEF Cast
  <2>3. \A x \in Lv!Creature : r.life[x] = "absent" =>
          r.refs[x] = 0 /\ x \notin r.dead /\ r.summons[x] = {} /\ r.attacked[x] = None
    BY <1>1, <1>2, <2>1 DEF Bare
  <2>4. QED
    BY <1>1, <1>2, <2>2, <2>3 DEF Bare
<1>8. Mastered(r)
  BY <1>1, <1>2 DEF Mastered
<1>9. Present(r)
  <2>1. \A d, x \in Lv!Creature : Lv!Near(r, d, x) => r.life[d] = "in" /\ r.life[x] = "in"
    <3> SUFFICES ASSUME NEW d \in Lv!Creature, NEW x \in Lv!Creature, Lv!Near(r, d, x)
        PROVE  r.life[d] = "in" /\ r.life[x] = "in"
      OBVIOUS
    <3>1. {d, x} \in s.near /\ c # d /\ c # x
      BY <1>2 DEF Lv!Near
    <3>2. s.life[d] = "in" /\ s.life[x] = "in"
      BY <1>1, <3>1 DEF Present, Lv!Near
    <3>3. QED
      BY <1>5, <3>1, <3>2
  <2>2. r.checked \subseteq r.slotted /\ \A x \in r.checked : r.life[x] = "in"
    <3>1. s.checked \subseteq Lv!Creature
      BY <1>1 DEF Lv!State
    <3>2. QED
      BY <1>1, <1>2, <1>5, <3>1 DEF Present
  <2>3. \A x \in Lv!Creature : r.free[x] \in 0 .. 1 /\ (r.life[x] = "in" => r.free[x] = 0)
    BY <1>1, <1>3, <1>5 DEF Present
  <2>4. QED
    BY <2>1, <2>2, <2>3 DEF Present
<1>10. Alert(r)
  BY <1>1, <1>2, <1>3, <1>5 DEF Alert
<1>11. ASSUME NEW d \in Lv!Creature PROVE Aims(r, d)
  <2> SUFFICES ASSUME r.life[d] = "in" PROVE Aims(r, d)
    BY DEF Aims
  <2>1. s.life[d] = "in" /\ d # c
    BY <1>3, <1>5
  <2>2. Aims(s, d)
    BY DEF Fair
  <2>3. s.attacked[d] # c /\ (d \in Monsters => s.followed[d] # c)
    BY <2>1
  <2>4. \A x : x # c /\ Lv!Near(s, d, x) => Lv!Near(r, d, x)
    BY <1>2, <2>1 DEF Lv!Near
  <2>5. QED
    BY <1>2, <2>1, <2>2, <2>3, <2>4 DEF Aims
<1>12. Settled(r)
  <2>1. Hollow(s) /\ Rooted(s)
    BY DEF Fair, Settled
  <2>2. ASSUME NEW m \in Monsters, r.life[m] = "out" PROVE Emptied(r, m)
    <3>1. m = c \/ s.life[m] = "out"
      BY <1>5, <2>2 DEF Cast
    <3>2. Emptied(s, m)
      BY <2>1, <3>1 DEF Hollow
    <3>3. QED
      BY <1>2, <3>2 DEF Emptied
  <2>3. Rooted(r)
    BY <1>2, <2>1, RootedSame
  <2>4. QED
    BY <2>2, <2>3 DEF Settled, Hollow
<1>13. QED
  BY <1>2, <1>6, <1>7, <1>8, <1>9, <1>10, <1>11, <1>12 DEF Fair, Core

\* Game::removeCreature(), of one creature.
LEMMA RemoveOneFair ==
  ASSUME Cast, NEW s, Fair(s), NEW c \in Lv!Creature, s.life[c] = "in",
         NEW ord \in Seq(Lv!Creature), Lv!ToSet(ord) = Lv!Creature
  PROVE  LET t == Lv!RemoveOne(s, c, ord)
         IN  Fair(t) /\ t.life = [s.life EXCEPT ![c] = "out"]
<1> DEFINE M == Lv!Around(s, c) \cup {c}
           t == AllDisappear(s, ord, M, c)
           o == "out"
           L == [t.life EXCEPT ![c] = o]
           G == {p \in t.near : c \notin p}
           u == [t EXCEPT !.life[c] = "out", !.near = {p \in @ : c \notin p}]
           m == s.master[c]
           b == m # None /\ t.life[m] # "out"
           v == IF b THEN Lv!RemoveSummon(t, m, c) ELSE t
           w == IF b THEN Lv!RemoveSummon(u, m, c) ELSE u
           x == Lv!Free(w, c)
           r == Lv!RemoveCheck(x, c)
<1>1. s \in Lv!State /\ Core(s) /\ Mastered(s) /\ Present(s)
  BY DEF Fair, Core
<1>2. M \in SUBSET Lv!Creature /\ \A d \in M : s.life[d] = "in"
  BY DEF Lv!Around, Lv!Here
<1>3. Lv!RemoveOne(s, c, ord) = r
  BY DEF Lv!RemoveOne, AllDisappear, Lv!InTurn
<1>4. c \in M /\ \A d \in Lv!Creature : s.life[d] = "in" /\ Lv!Near(s, d, c) => d \in M
  <2>1. \A d : {c, d} = {d, c}
    OBVIOUS
  <2>2. QED
    BY <2>1 DEF Lv!Around, Lv!Here, Lv!Near
<1> HIDE DEF M
<1>5. /\ Still(s, t) /\ (c \in Monsters => Emptied(t, c))
      /\ \A d \in M : t.attacked[d] # c /\ (d \in Monsters => t.followed[d] # c)
  <2>1. \A d \in M : s.life[d] # "absent"
    BY <1>2
  <2>2. M \subseteq Lv!ToSet(ord)
    BY <1>2
  <2>3. QED
    BY <1>1, <1>2, <1>4, <2>1, <2>2, AllDisappearStill
<1> HIDE DEF t
<1>6. Fair(t) /\ Core(t) /\ t \in Lv!State /\ Frame(s, t) /\ Mastered(t)
  BY <1>5, StillEased, FairEased DEF Still, Quiet, Core
<1>7. /\ t.life = s.life /\ t.dead = s.dead /\ t.free = s.free
      /\ t.master = s.master /\ t.summons = s.summons /\ t.near = s.near
  BY <1>6 DEF Frame
<1>8. \A d \in Lv!Creature \ {c} : t.life[d] = "in" =>
        t.attacked[d] # c /\ (d \in Monsters => t.followed[d] # c)
  <2> SUFFICES ASSUME NEW d \in Lv!Creature \ {c}, t.life[d] = "in",
                      t.attacked[d] = c \/ (d \in Monsters /\ t.followed[d] = c)
      PROVE  FALSE
    OBVIOUS
  <2>1. Aims(t, d) /\ c # None
    BY <1>6 DEF Fair, Cast
  <2>2. Lv!Near(t, d, c)
    BY <2>1 DEF Aims
  <2>3. s.life[d] = "in" /\ Lv!Near(s, d, c)
    BY <1>7, <2>2 DEF Lv!Near
  <2>4. d \in M
    BY <1>4, <2>3
  <2>5. QED
    BY <1>5, <2>4
<1>9. L \in [Lv!Creature -> {"absent", "in", "out"}] /\ G \in SUBSET SUBSET Lv!Creature
  BY <1>6 DEF Lv!State
<1>10. u = [t EXCEPT !.life = L, !.near = G]
  OBVIOUS
<1> HIDE DEF L, G, u
<1>11. /\ u \in Lv!State /\ u.life = L /\ u.near = G /\ u.dead = t.dead /\ u.free = t.free
       /\ u.master = t.master /\ u.summons = t.summons
       /\ u.targets = t.targets /\ u.friends = t.friends
       /\ u.attacked = t.attacked /\ u.followed = t.followed
       /\ u.checked = t.checked /\ u.slotted = t.slotted /\ u.refs = t.refs
  BY <1>6, <1>9, <1>10, ZenonT(60) DEF Lv!State
<1>12. /\ Fair(v) /\ v \in Lv!State /\ v.life = t.life /\ v.near = t.near /\ v.dead = t.dead
       /\ v.free = t.free /\ v.checked = t.checked /\ v.slotted = t.slotted
       /\ v.attacked = t.attacked /\ v.followed = t.followed
       /\ v.targets = t.targets /\ v.friends = t.friends
       /\ w \in Lv!State /\ w.life = L /\ w.near = G /\ w.dead = v.dead
       /\ w.free = v.free /\ w.checked = v.checked /\ w.slotted = v.slotted
       /\ w.attacked = v.attacked /\ w.followed = v.followed
       /\ w.targets = v.targets /\ w.friends = v.friends
       /\ w.master = v.master /\ w.summons = v.summons
       /\ \A d \in Lv!Creature : w.refs[d] = v.refs[d]
  <2>1. CASE b
    <3>1. m \in Lv!Creature
      BY <1>1, <2>1 DEF Lv!State
    <3> DEFINE y == Lv!RemoveSummon(t, m, c)
               z == Lv!RemoveSummon(u, m, c)
    <3>2. t.master[c] = m
      BY <1>7
    <3> HIDE DEF m
    <3>3. c \in t.summons[m] /\ c \in u.summons[m]
      BY <1>6, <1>11, <3>1, <3>2 DEF Mastered
    <3>4. Unsummons(t, y, m, c)
      <4>1. t \in Lv!State /\ c \in t.summons[m]
        BY <1>6, <3>3
      <4> HIDE DEF y
      <4>2. QED
        BY <3>1, <4>1, RemoveSummonFields DEF y
    <3>5. Unsummons(u, z, m, c)
      <4>1. u \in Lv!State /\ c \in u.summons[m]
        BY <1>11, <3>3
      <4> HIDE DEF z
      <4>2. QED
        BY <3>1, <4>1, RemoveSummonFields DEF z
    <3>6. Fair(y)
      BY <1>6, <3>1, RemoveSummonCuts DEF Cuts
    <3> HIDE DEF y, z
    <3>7. /\ z.master = y.master /\ z.summons = y.summons
          /\ \A d \in Lv!Creature : z.refs[d] = y.refs[d]
      BY <1>11, <3>4, <3>5 DEF Unsummons
    <3>8. v = y /\ w = z
      BY <2>1 DEF y, z
    <3> HIDE DEF v, w
    <3>9. QED
      BY <1>11, <3>4, <3>5, <3>6, <3>7, <3>8 DEF Unsummons
  <2>2. CASE ~b
    <3>1. v = t /\ w = u
      BY <2>2
    <3> HIDE DEF v, w
    <3>2. QED
      BY <1>6, <1>11, <3>1
  <2>3. QED
    BY <2>1, <2>2
<1> HIDE DEF v, w, b, m
<1>13. v.free[c] = 0 /\ v.life[c] = "in"
  BY <1>7, <1>12 DEF Fair, Core, Present
<1>14. /\ x \in Lv!State /\ x.life = L /\ x.near = G /\ x.dead = v.dead
       /\ x.free = [v.free EXCEPT ![c] = v.free[c] + 1]
       /\ x.checked = v.checked /\ x.slotted = v.slotted
       /\ x.attacked = v.attacked /\ x.followed = v.followed
       /\ x.targets = v.targets /\ x.friends = v.friends
       /\ x.master = v.master /\ x.summons = v.summons
       /\ \A d \in Lv!Creature : x.refs[d] = v.refs[d]
  <2> DEFINE F == [w.free EXCEPT ![c] = w.free[c] + 1]
  <2>1. x = [w EXCEPT !.free = F]
    BY <1>12 DEF Lv!Free, Lv!State
  <2>2. w.free[c] + 1 \in 0 .. 3
    BY <1>12, <1>13
  <2>3. F \in [Lv!Creature -> 0 .. 3]
    BY <1>12, <2>2 DEF Lv!State
  <2>4. F = [v.free EXCEPT ![c] = v.free[c] + 1]
    BY <1>12
  <2> HIDE DEF F, x
  <2>5. w \in Lv!State
    BY <1>12
  <2>6. /\ x \in Lv!State /\ x.life = w.life /\ x.near = w.near /\ x.dead = w.dead /\ x.free = F
        /\ x.checked = w.checked /\ x.slotted = w.slotted /\ x.refs = w.refs
        /\ x.attacked = w.attacked /\ x.followed = w.followed
        /\ x.targets = w.targets /\ x.friends = w.friends
        /\ x.master = w.master /\ x.summons = w.summons
    BY <2>1, <2>3, <2>5, ZenonT(60) DEF Lv!State
  <2>7. QED
    BY <1>12, <2>4, <2>6
<1> HIDE DEF x
<1>15. /\ r \in Lv!State /\ r.life = L /\ r.near = G /\ r.dead = x.dead
       /\ r.free = x.free /\ r.checked = x.checked \ {c} /\ r.slotted = x.slotted
       /\ r.attacked = x.attacked /\ r.followed = x.followed
       /\ r.targets = x.targets /\ r.friends = x.friends
       /\ r.master = x.master /\ r.summons = x.summons /\ r.refs = x.refs
  <2>1. CASE c \in x.slotted
    <3> DEFINE K == x.checked \ {c}
    <3>1. r = [x EXCEPT !.checked = K]
      BY <2>1 DEF Lv!RemoveCheck
    <3>2. K \in SUBSET Lv!Creature
      BY <1>14 DEF Lv!State
    <3> HIDE DEF K, r
    <3>3. r.checked = K
      BY <1>14, <3>1, <3>2 DEF Lv!State
    <3>4. QED
      BY <1>14, <3>1, <3>2, <3>3, ZenonT(60) DEF Lv!State, K
  <2>2. CASE c \notin x.slotted
    <3>1. r = x
      BY <2>2 DEF Lv!RemoveCheck
    <3>2. c \notin x.checked
      BY <1>12, <1>14, <2>2 DEF Fair, Core, Present
    <3> HIDE DEF r
    <3>3. QED
      BY <1>14, <3>1, <3>2
  <2>3. QED
    BY <2>1, <2>2
<1> HIDE DEF r
<1>16. Left(v, r, c)
  <2>1. L = [v.life EXCEPT ![c] = "out"] /\ G = {p \in v.near : c \notin p}
    BY <1>12 DEF L, G, o
  <2>2. QED
    BY <1>14, <1>15, <2>1 DEF Left
<1>17. Fair(r)
  <2>1. \A d \in Lv!Creature \ {c} : v.life[d] = "in" =>
          v.attacked[d] # c /\ (d \in Monsters => v.followed[d] # c)
    BY <1>8, <1>12
  <2>2. c \in Monsters => Emptied(v, c)
    BY <1>5, <1>12 DEF Emptied
  <2>3. QED
    BY <1>12, <1>13, <1>16, <2>1, <2>2, LeftFair
<1>18. r.life = [s.life EXCEPT ![c] = o]
  BY <1>7, <1>15 DEF L
<1>19. QED
  BY <1>3, <1>17, <1>18 DEF o

\* Whose master left without him.
Orphans(s) ==
  {m \in Monsters : /\ s.life[m] = "in"
                    /\ s.master[m] # None /\ s.life[s.master[m]] = "out"}

LEMMA NoOrphans ==
  ASSUME Cast, NEW s, Fair(s), Orphans(s) = {} PROVE Full(s)
<1>1. s \in Lv!State /\ Bare(s) /\ Mastered(s)
  BY DEF Fair, Core
<1> SUFFICES ASSUME NEW c \in Lv!Creature, s.life[c] = "in", s.master[c] # None
    PROVE  s.life[s.master[c]] = "in"
  BY DEF Full, Owned
<1> DEFINE d == s.master[c]
<1>2. d \in Lv!Creature /\ s.life[d] \in {"absent", "in", "out"}
  BY <1>1 DEF Lv!State
<1>3. c \in s.summons[d] /\ c \in Monsters
  BY <1>1, <1>2 DEF Mastered
<1>4. s.life[d] # "absent"
  BY <1>1, <1>2, <1>3 DEF Bare
<1>5. s.life[d] # "out"
  BY <1>3 DEF Orphans
<1>6. QED
  BY <1>2, <1>4, <1>5

\* How many are in the game: one fewer with each removal.
Gaming(s) == Cardinality({d \in Lv!Creature : s.life[d] = "in"})

LEMMA OneFewer ==
  ASSUME Cast, NEW s, NEW c \in Lv!Creature, s.life[c] = "in",
         NEW t, t.life[c] # "in", \A d \in Lv!Creature \ {c} : t.life[d] = s.life[d]
  PROVE  Gaming(s) \in 1 .. Cardinality(Lv!Creature) /\ Gaming(t) = Gaming(s) - 1
<1> DEFINE A == {d \in Lv!Creature : s.life[d] = "in"}
           B == {d \in Lv!Creature : t.life[d] = "in"}
<1>1. A \in SUBSET Lv!Creature /\ c \in A /\ IsFiniteSet(Lv!Creature)
  BY DEF Cast
<1>2. IsFiniteSet(A) /\ Cardinality(A) <= Cardinality(Lv!Creature)
  <2> HIDE DEF A
  <2>1. QED
    BY <1>1, FS_Subset
<1>3. B = A \ {c}
  OBVIOUS
<1> HIDE DEF A, B
<1>4. Cardinality(A) \in Nat /\ Cardinality(Lv!Creature) \in Nat
  BY <1>1, <1>2, FS_CardinalityType
<1>5. A # {}
  BY <1>1
<1>6. Cardinality(A) # 0
  BY <1>2, <1>5, FS_EmptySet
<1>7. Cardinality(B) = Cardinality(A) - 1
  BY <1>1, <1>2, <1>3, FS_RemoveElement
<1>8. Cardinality(A) \in 1 .. Cardinality(Lv!Creature)
  BY <1>2, <1>4, <1>6
<1>9. QED
  BY <1>7, <1>8 DEF A, B, Gaming

\* Game::removeCreature(): all summons of who left are gone in the end.
LEMMA RemoveCreatureFull ==
  ASSUME Cast, NEW s, Fair(s), NEW c \in Lv!Creature, s.life[c] = "in",
         NEW ord \in Seq(Lv!Creature), Lv!ToSet(ord) = Lv!Creature
  PROVE  Full(Lv!RemoveCreature(s, c, ord))
<1> DEFINE s0 == Lv!RemoveOne(s, c, ord)
<1> DEFINE N == Turned
           Holds(u, n) == Fair(u) /\ (Orphans(u) = {} \/ Gaming(u) <= N - n)
           Good == [n \in 0 .. N |-> {u \in Lv!State : Holds(u, n)}]
           Op(u, n) == IF Orphans(u) = {} THEN u ELSE Lv!RemoveOne(u, CHOOSE m \in Orphans(u) : TRUE, ord)
           H == [p \in Lv!State \X (1 .. N) |-> Op(p[1], p[2])]
           Is(T) == T = [n \in 0 .. N |->
                         IF n = 0 THEN s0
                         ELSE IF Orphans(T[n - 1]) = {} THEN T[n - 1]
                         ELSE Lv!RemoveOne(T[n - 1], CHOOSE m \in Orphans(T[n - 1]) : TRUE, ord)]
           U == CHOOSE T : Is(T)
<1>1. Lv!RemoveCreature(s, c, ord) = U[N]
  BY DEF Lv!RemoveCreature, Turned, Orphans
<1>2. N \in Nat /\ N = Cardinality(Lv!Creature)
  BY TurnedNat
<1>3. s \in Lv!State
  BY DEF Fair, Core
<1>4. s0 \in Lv!State /\ Holds(s0, 0)
  <2>1. Fair(s0) /\ s0.life = [s.life EXCEPT ![c] = "out"]
    BY RemoveOneFair
  <2> HIDE DEF s0
  <2> DEFINE o == "out"
  <2>2. s0.life = [s.life EXCEPT ![c] = o] /\ o # "in"
    BY <2>1
  <2> HIDE DEF o
  <2>3. s0.life[c] # "in" /\ \A d \in Lv!Creature \ {c} : s0.life[d] = s.life[d]
    BY <1>3, <2>2 DEF Lv!State
  <2>4. Gaming(s) \in 1 .. N /\ Gaming(s0) = Gaming(s) - 1
    BY <1>2, <2>3, OneFewer
  <2> DEFINE i == Gaming(s)
             j == Gaming(s0)
  <2> HIDE DEF i, j
  <2>5. j <= N - 0
    BY <1>2, <2>4 DEF i, j
  <2>6. QED
    BY <2>1, <2>5 DEF Fair, Core, j
<1>5. ASSUME NEW n \in 1 .. N, NEW u \in Lv!State, Holds(u, n - 1)
       PROVE  Op(u, n) \in Lv!State /\ Holds(Op(u, n), n)
  <2>1. CASE Orphans(u) = {}
    BY <1>5, <2>1
  <2>2. CASE Orphans(u) # {}
    <3> DEFINE m == CHOOSE m \in Orphans(u) : TRUE
               v == Lv!RemoveOne(u, m, ord)
    <3>1. m \in Orphans(u)
      BY <2>2
    <3>2. Op(u, n) = v
      BY <2>2
    <3> HIDE DEF m
    <3>3. m \in Lv!Creature /\ u.life[m] = "in" /\ Fair(u)
      BY <1>5, <3>1 DEF Orphans, Cast
    <3>4. Fair(v) /\ v.life = [u.life EXCEPT ![m] = "out"]
      BY <3>3, RemoveOneFair
    <3> HIDE DEF v
    <3>5. v \in Lv!State
      BY <3>4 DEF Fair, Core
    <3> DEFINE o == "out"
    <3>6. v.life = [u.life EXCEPT ![m] = o] /\ o # "in"
      BY <3>4
    <3> HIDE DEF o
    <3>7. v.life[m] # "in" /\ \A d \in Lv!Creature \ {m} : v.life[d] = u.life[d]
      BY <3>3, <3>6 DEF Fair, Core, Lv!State
    <3>8. Gaming(u) \in 1 .. N /\ Gaming(v) = Gaming(u) - 1
      BY <1>2, <3>3, <3>7, OneFewer
    <3> DEFINE i == Gaming(u)
               j == Gaming(v)
    <3>9. i <= N - (n - 1)
      BY <1>5, <2>2
    <3> HIDE DEF i, j, N
    <3>10. j <= N - n
      BY <1>2, <3>8, <3>9 DEF i, j
    <3> HIDE DEF Op
    <3>11. QED
      BY <3>2, <3>4, <3>5, <3>10 DEF j
  <2>3. QED
    BY <2>1, <2>2
<1> HIDE DEF s0
<1>6. N \in Nat /\ \A n \in 1 .. N : n \in 0 .. N /\ n - 1 \in 0 .. N /\ n # 0
  BY TurnedNat
<1>7. \A u \in Lv!State, n \in 1 .. N : H[<<u, n>>] = Op(u, n)
  <2> HIDE DEF Op
  <2>1. QED
    OBVIOUS
<1>8. \A n \in 0 .. N : \A u : u \in Good[n] <=> u \in Lv!State /\ Holds(u, n)
  <2> HIDE DEF Holds
  <2>1. QED
    OBVIOUS
<1> HIDE DEF H, N, Good, Holds, Op
<1>9. Steps(H, N, Good) /\ s0 \in Good[0]
  <2>1. 0 \in 0 .. N
    BY <1>6
  <2>2. s0 \in Good[0]
    BY <1>4, <1>8, <2>1
  <2>3. ASSUME NEW n \in 1 .. N, NEW u \in Good[n - 1] PROVE H[<<u, n>>] \in Good[n]
    <3>1. u \in Lv!State /\ Holds(u, n - 1) /\ n \in 0 .. N
      BY <1>6, <1>8
    <3>2. Op(u, n) \in Lv!State /\ Holds(Op(u, n), n)
      BY <1>5, <3>1
    <3>3. QED
      BY <1>7, <1>8, <3>1, <3>2
  <2>4. QED
    BY <2>2, <2>3 DEF Steps
<1>10. PICK T : Turns(T, H, N, Good, s0)
  BY <1>6, <1>9, LoopExists
<1>11. /\ T = [n \in 0 .. N |-> IF n = 0 THEN s0 ELSE H[<<T[n - 1], n>>]]
      /\ \A n \in 0 .. N : T[n] \in Lv!State
  BY <1>8, <1>10 DEF Turns
<1>12. Is(T)
  <2>1. \A n \in 0 .. N : n # 0 => H[<<T[n - 1], n>>] = Op(T[n - 1], n)
    <3> SUFFICES ASSUME NEW n \in 0 .. N, n # 0 PROVE H[<<T[n - 1], n>>] = Op(T[n - 1], n)
      OBVIOUS
    <3>1. n \in 1 .. N /\ n - 1 \in 0 .. N
      BY <1>6
    <3>2. QED
      BY <1>7, <1>11, <3>1
  <2>2. \A n \in 0 .. N : (IF n = 0 THEN s0 ELSE H[<<T[n - 1], n>>])
                            = (IF n = 0 THEN s0 ELSE Op(T[n - 1], n))
    BY <2>1
  <2>3. [n \in 0 .. N |-> IF n = 0 THEN s0 ELSE H[<<T[n - 1], n>>]]
          = [n \in 0 .. N |-> IF n = 0 THEN s0 ELSE Op(T[n - 1], n)]
    BY <2>2
  <2>4. QED
    BY <1>11, <2>3 DEF Op
<1>13. Is(U)
  BY <1>12
<1>14. \A n \in 0 .. N : U[n] = IF n = 0 THEN s0 ELSE Op(U[n - 1], n)
  <2> HIDE DEF U
  <2>1. QED
    BY <1>13 DEF Op
<1> HIDE DEF Is, U
<1>15. Stays(U, N, Good)
  <2>1. U[0] \in Good[0] /\ 0 \in 0 .. N
    <3>1. 0 \in 0 .. N
      BY <1>6
    <3>2. U[0] = s0
      BY <3>1, <1>14
    <3>3. QED
      BY <3>1, <3>2, <1>9
  <2>2. ASSUME NEW n \in 1 .. N, U[n - 1] \in Good[n - 1] PROVE U[n] \in Good[n]
    <3>1. U[n - 1] \in Lv!State /\ Holds(U[n - 1], n - 1) /\ U[n] = Op(U[n - 1], n)
      BY <1>6, <1>8, <1>14, <2>2
    <3> DEFINE u == U[n - 1]
    <3> HIDE DEF u
    <3>2. Op(u, n) \in Lv!State /\ Holds(Op(u, n), n)
      BY <1>5, <3>1 DEF u
    <3>3. QED
      BY <1>6, <1>8, <3>1, <3>2 DEF u
  <2>3. QED
    BY <2>1, <2>2 DEF Stays
<1>16. N \in 0 .. N
  BY <1>6
<1>17. Holds(U[N], N)
  BY <1>6, <1>8, <1>15, <1>16, LoopStays
<1> DEFINE z == U[N]
<1>18. Fair(z) /\ (Orphans(z) = {} \/ Gaming(z) <= N - N)
  BY <1>17 DEF Holds
<1>19. Orphans(z) = {}
  <2> HIDE DEF z
  <2> SUFFICES ASSUME NEW m \in Orphans(z), Gaming(z) <= N - N PROVE FALSE
    BY <1>18
  <2>1. m \in Lv!Creature /\ z.life[m] = "in" /\ z \in Lv!State
    BY <1>18 DEF Orphans, Cast, Fair, Core
  <2> DEFINE o == "out"
             t == [z EXCEPT !.life = [z.life EXCEPT ![m] = o]]
  <2>2. t.life = [z.life EXCEPT ![m] = o] /\ o # "in"
    BY <2>1 DEF Lv!State
  <2> HIDE DEF o, t
  <2>3. t.life[m] # "in" /\ \A d \in Lv!Creature \ {m} : t.life[d] = z.life[d]
    BY <2>1, <2>2 DEF Lv!State
  <2>4. Gaming(z) \in 1 .. Cardinality(Lv!Creature)
    BY <2>1, <2>3, OneFewer
  <2> DEFINE i == Gaming(z)
             k == Cardinality(Lv!Creature)
  <2>5. N - N = 0
    BY <1>6
  <2>6. i \in 1 .. k /\ i <= 0 /\ k \in Nat
    BY <2>4, <2>5, TurnedNat
  <2> HIDE DEF i, k
  <2>7. QED
    BY <2>6
<1>20. Full(z)
  <2> HIDE DEF z
  <2>1. QED
    BY <1>18, <1>19, NoOrphans
<1>21. QED
  BY <1>1, <1>20

\* Creature::onDeath()
LEMMA DeathFull ==
  ASSUME Cast, NEW s, Fair(s), NEW c \in Lv!Creature, s.life[c] = "in",
         NEW ord \in Seq(Lv!Creature), Lv!ToSet(ord) = Lv!Creature
  PROVE  Full(Lv!Death(s, c, ord))
<1> DEFINE m == s.master[c]
           t == IF m # None THEN Lv!RemoveSummon(s, m, c) ELSE s
           v == Lv!DestroySummons(t, c)
           w == Lv!ClearLists(v, c)
           x == Lv!SetAttacked(w, c, None)
           u == IF c \in Monsters THEN x ELSE t
<1>1. Lv!Death(s, c, ord) = Lv!RemoveCreature(u, c, ord)
  BY DEF Lv!Death
<1>2. Cuts(s, t)
  <2>1. CASE m # None
    <3>1. m \in Lv!Creature
      BY <2>1 DEF Fair, Core, Lv!State
    <3> HIDE DEF m
    <3>2. Cuts(s, Lv!RemoveSummon(s, m, c))
      BY <3>1, RemoveSummonCuts
    <3>3. QED
      BY <2>1, <3>2
  <2>2. CASE m = None
    BY <2>2, CutsNothing
  <2>3. QED
    BY <2>1, <2>2
<1> HIDE DEF t
<1>3. ASSUME c \in Monsters PROVE Cuts(s, x)
  <2>1. Cuts(t, v)
    BY <1>2, DestroySummonsCuts DEF Cuts
  <2> HIDE DEF v
  <2>2. Cuts(s, v)
    BY <1>2, <2>1, CutsCuts
  <2>3. Fair(v) /\ Core(v) /\ v.life[c] # "absent"
    BY <2>2 DEF Cuts, Fair
  <2>4. Cuts(v, w)
    BY <1>3, <2>3, ClearListsStill, StillCuts
  <2> HIDE DEF w
  <2>5. Cuts(s, w) /\ Fair(w) /\ Core(w)
    BY <2>2, <2>4, CutsCuts DEF Cuts, Fair
  <2>6. Cuts(w, x)
    BY <2>5, StopsAttack, StillCuts
  <2> HIDE DEF x
  <2>7. QED
    BY <2>5, <2>6, CutsCuts
<1>4. Cuts(s, u)
  BY <1>2, <1>3
<1> HIDE DEF u
<1>5. Fair(u) /\ u.life[c] = "in"
  BY <1>4 DEF Cuts
<1>6. QED
  BY <1>1, <1>5, RemoveCreatureFull


-----------------------------------------------------------------------------
(* The steps                                                               *)

\* Both orders name all creatures.
LEMMA OrdersName ==
  ASSUME Lv!CreaturesAssumption, NEW ord \in Lv!Orders
  PROVE  ord \in Seq(Lv!Creature) /\ Lv!ToSet(ord) = Lv!Creature
<1>1. Order \in Seq(Lv!Creature) /\ Lv!ToSet(Order) = Lv!Creature
  BY DEF Lv!CreaturesAssumption, Lv!Creature
<1>2. CASE ord = Order
  BY <1>1, <1>2
<1>3. CASE ord = Lv!Reverse(Order)
  <2> DEFINE N == Len(Order)
             D == 1 .. N
             R == [i \in D |-> Order[(N - i) + 1]]
  <2>1. N \in Nat /\ \A i \in D : Order[i] \in Lv!Creature /\ (N - i) + 1 \in D /\ (N - ((N - i) + 1)) + 1 = i
    BY <1>1
  <2>2. ord = R
    BY <1>3 DEF Lv!Reverse
  <2>3. R \in [D -> Lv!Creature]
    BY <2>1
  <2>4. ord \in Seq(Lv!Creature) /\ Len(ord) = N
    BY <2>1, <2>2, <2>3
  <2>5. {Order[i] : i \in D} = Lv!Creature
    BY <1>1 DEF Lv!ToSet
  <2>6. \A i \in D : R[i] = Order[(N - i) + 1]
    OBVIOUS
  <2> HIDE DEF R
  <2>7. {R[i] : i \in D} = {Order[i] : i \in D}
    <3> DEFINE A == {R[i] : i \in D}
               B == {Order[i] : i \in D}
    <3>1. \A x \in A : x \in B
      <4>1. \A i \in D : \E j \in D : R[i] = Order[j]
        BY <2>1, <2>6
      <4>2. QED
        BY <4>1
    <3>2. \A x \in B : x \in A
      <4>1. \A i \in D : \E j \in D : Order[i] = R[j]
        BY <2>1, <2>6
      <4>2. QED
        BY <4>1
    <3>3. QED
      BY <3>1, <3>2
  <2>8. Lv!ToSet(ord) = {R[i] : i \in D}
    BY <2>2, <2>4 DEF Lv!ToSet
  <2>9. QED
    BY <2>4, <2>5, <2>7, <2>8
<1>4. QED
  BY <1>2, <1>3 DEF Lv!Orders

LEMMA AppearTidy ==
  ASSUME Cast, Full(g), NEW c \in Lv!Creature, NEW S \in SUBSET (Lv!Here(g) \ {c}),
         NEW ord \in Seq(Lv!Creature), Lv!Appear(c, S, ord)
  PROVE  Tidy(g')
<1>1. Unborn(g, c) /\ g' = Lv!Swept(Lv!PlaceCreature(g, c, S, ord))
  BY FullUnborn DEF Lv!Appear
<1>2. Full(Lv!PlaceCreature(g, c, S, ord))
  BY <1>1, PlaceCreatureFull
<1>3. QED
  BY <1>1, <1>2, SweptTidy

LEMMA SummonTidy ==
  ASSUME Cast, Full(g), NEW c \in Lv!Creature, NEW m \in Monsters,
         NEW S \in SUBSET (Lv!Here(g) \ {m}), NEW roomless \in BOOLEAN,
         NEW ord \in Seq(Lv!Creature), Lv!Summon(c, m, S, roomless, ord)
  PROVE  Tidy(g')
<1> DEFINE t == Lv!AddSummon(g, c, m)
           u == Lv!PlaceCreature(t, m, S, ord)
           v == Lv!RemoveSummon(t, c, m)
<1>1. /\ g.life[c] = "in" /\ g.life[m] = "absent" /\ m \in Lv!Creature
      /\ g' = Lv!Swept(IF roomless THEN v ELSE u)
  BY DEF Lv!Summon, Cast
<1>2. Core(g) /\ g \in Lv!State /\ Counted(g) /\ Mastered(g)
  BY DEF Full, Fair, Core
<1>3. v = g
  BY <1>1, <1>2, RoomlessSame
<1>4. Full(u)
  <2>1. Unborn(t, m)
    BY <1>1, AddSummonUnborn
  <2>2. g.master[m] = None
    BY <1>1, <1>2, AbsentIsNowhere
  <2>3. t.life = g.life
    BY <1>2, <2>2, AddSummonShape, ZenonT(60)
  <2>4. S \in SUBSET (Lv!Here(t) \ {m})
    BY <2>3 DEF Lv!Here
  <2> HIDE DEF t
  <2>5. QED
    BY <1>1, <2>1, <2>4, PlaceCreatureFull
<1> HIDE DEF u, v
<1>5. Full(IF roomless THEN v ELSE u)
  BY <1>3, <1>4
<1>6. QED
  BY <1>1, <1>5, SweptTidy

LEMMA ConvinceTidy ==
  ASSUME Cast, Full(g), NEW p \in Players, NEW m \in Monsters,
         NEW ord \in Seq(Lv!Creature), Lv!Convince(p, m, ord)
  PROVE  Tidy(g')
<1> DEFINE o == g.master[m]
           t == IF o # None THEN Lv!RemoveSummon(g, o, m) ELSE g
           a == Lv!SetFollow(t, m, None)
           b == Lv!SetAttacked(a, m, None)
           d == Lv!DestroySummons(b, m)
           own == Lv!AddSummon(d, p, m)
           u == Lv!UpdateIdle(Lv!UpdateTargets(own, m, ord), m)
           R == u.inRange \cup {m}
           v == [u EXCEPT !.inRange = R]
           M == Monsters \cap (Lv!Around(u, m) \cup Lv!Around(u, p) \cup {m})
           w == AllTold(v, ord, M, m)
<1>1. m \in Lv!Around(g, p) /\ g' = Lv!Swept(w)
  BY DEF Lv!Convince, AllTold, Lv!InTurn
<1>2. p \in Lv!Creature /\ m \in Lv!Creature
  BY DEF Cast
<1>3. Fair(g) /\ Core(g) /\ g \in Lv!State /\ Mastered(g) /\ Present(g)
  BY DEF Full, Fair, Core
<1>4. g.life[p] = "in" /\ g.life[m] = "in"
  BY <1>1, <1>2, <1>3 DEF Lv!Around, Present
<1>5. Cuts(g, t) /\ t.master[m] = None
  <2>1. CASE o # None
    <3>1. o \in Lv!Creature /\ m \in g.summons[o]
      BY <1>2, <1>3, <2>1 DEF Lv!State, Mastered
    <3> HIDE DEF o
    <3>2. Cuts(g, Lv!RemoveSummon(g, o, m)) /\ Lv!RemoveSummon(g, o, m).master[m] = None
      BY <1>2, <1>3, <3>1, RemoveSummonCuts
    <3>3. QED
      BY <2>1, <3>2
  <2>2. CASE o = None
    BY <1>3, <2>2, CutsNothing
  <2>3. QED
    BY <2>1, <2>2
<1> HIDE DEF t
<1>6. Cuts(t, a)
  <2>1. Fair(t) /\ Core(t)
    BY <1>5 DEF Cuts, Fair
  <2>2. QED
    BY <2>1, StopsFollowing, StillCuts
<1> HIDE DEF a
<1>7. Cuts(a, b)
  <2>1. Fair(a) /\ Core(a)
    BY <1>6 DEF Cuts, Fair
  <2>2. QED
    BY <1>2, <2>1, StopsAttack, StillCuts
<1> HIDE DEF b
<1>8. Cuts(b, d)
  <2>1. Fair(b)
    BY <1>7 DEF Cuts
  <2>2. QED
    BY <1>2, <2>1, DestroySummonsCuts
<1> HIDE DEF d
<1>9. Cuts(t, d)
  BY <1>6, <1>7, <1>8, CutsCuts
<1>10. Cuts(g, d) /\ d.master[m] = None
  BY <1>2, <1>5, <1>9, CutsCuts DEF Cuts
<1>11. Full(d) /\ d.life = g.life
  BY <1>10, FullCuts DEF Cuts
<1>12. Full(own) /\ own.life = g.life
  BY <1>2, <1>4, <1>10, <1>11, AddSummonFull
<1> HIDE DEF own
<1>13. Still(own, u)
  <2>1. Core(own) /\ own.life[m] = "in"
    BY <1>4, <1>12 DEF Full, Fair
  <2>2. QED
    BY <2>1, ToldStill
<1> HIDE DEF u
<1>14. Full(u) /\ u.life = g.life /\ Core(u)
  BY <1>12, <1>13, StillEased, FullEased DEF Still, Quiet, Frame
<1>15. Still(u, v)
  <2>1. R \in SUBSET Monsters
    BY <1>14 DEF Core, Lv!State
  <2> HIDE DEF R
  <2>2. QED
    BY <1>14, <2>1, InRangeStill
<1> HIDE DEF v
<1>16. Full(v) /\ v.life = g.life /\ Core(v)
  BY <1>14, <1>15, StillEased, FullEased DEF Still, Quiet, Frame
<1>17. M \in SUBSET Monsters /\ \A x \in M : v.life[x] = "in"
  BY <1>4, <1>14, <1>16 DEF Lv!Around, Lv!Here
<1> HIDE DEF M
<1>18. Still(v, w)
  BY <1>2, <1>16, <1>17, AllToldStill
<1> HIDE DEF w
<1>19. Full(w)
  BY <1>16, <1>18, StillEased, FullEased
<1>20. QED
  BY <1>1, <1>19, SweptTidy

\* t is s but for c, who is near the creatures S now.
Moves(s, t, c, S) ==
  /\ t \in Lv!State /\ t.life = s.life /\ t.dead = s.dead
  /\ t.free = s.free /\ t.master = s.master /\ t.summons = s.summons
  /\ t.targets = s.targets /\ t.friends = s.friends /\ t.refs = s.refs
  /\ t.attacked = s.attacked /\ t.followed = s.followed
  /\ t.checked = s.checked /\ t.slotted = s.slotted
  /\ \A p \in s.near : c \notin p => p \in t.near
  /\ \A p \in t.near : p \in s.near \/ \E x \in S : p = {c, x}

LEMMA CreatureMoves ==
  ASSUME Cast, NEW s \in Lv!State, NEW c \in Lv!Creature, NEW S \in SUBSET Lv!Creature
  PROVE  Moves(s, [s EXCEPT !.near = {p \in @ : c \notin p} \cup {{c, x} : x \in S}], c, S)
<1> DEFINE N == {p \in s.near : c \notin p} \cup {{c, x} : x \in S}
           t == [s EXCEPT !.near = N]
<1>1. N \in SUBSET SUBSET Lv!Creature
  BY DEF Lv!State
<1>2. /\ \A p \in s.near : c \notin p => p \in N
      /\ \A p \in N : p \in s.near \/ \E x \in S : p = {c, x}
  OBVIOUS
<1> HIDE DEF N
<1>3. /\ t \in Lv!State /\ t.near = N /\ t.life = s.life /\ t.dead = s.dead
      /\ t.free = s.free /\ t.master = s.master /\ t.summons = s.summons
      /\ t.targets = s.targets /\ t.friends = s.friends /\ t.refs = s.refs
      /\ t.attacked = s.attacked /\ t.followed = s.followed
      /\ t.checked = s.checked /\ t.slotted = s.slotted
  BY <1>1 DEF Lv!State
<1> HIDE DEF t
<1>4. Moves(s, t, c, S)
  BY <1>2, <1>3 DEF Moves
<1>5. QED
  BY <1>4 DEF t, N

\* Where everybody stands then, before anybody is told.
LEMMA MovedCore ==
  ASSUME Cast, NEW s, Full(s), NEW c \in Lv!Creature, s.life[c] = "in",
         NEW S \in SUBSET Lv!Here(s), NEW t, Moves(s, t, c, S)
  PROVE  /\ Core(t) /\ Alert(t) /\ Owned(t) /\ Settled(t) /\ t.life = s.life
         /\ \A d \in Lv!Creature : Nearly(t, d, c)
         /\ \A d \in Lv!Creature : d # c /\ d \notin Lv!Around(s, c) => Aims(t, d)
<1>1. s \in Lv!State /\ Counted(s) /\ Bare(s) /\ Mastered(s) /\ Present(s)
  BY DEF Full, Fair, Core
<1>2. S \in SUBSET Lv!Creature /\ \A x \in S : s.life[x] = "in"
  BY DEF Lv!Here
<1>3. /\ t \in Lv!State /\ t.life = s.life /\ t.dead = s.dead
      /\ t.free = s.free /\ t.master = s.master /\ t.summons = s.summons
      /\ t.targets = s.targets /\ t.friends = s.friends /\ t.refs = s.refs
      /\ t.attacked = s.attacked /\ t.followed = s.followed
      /\ t.checked = s.checked /\ t.slotted = s.slotted
  BY DEF Moves
<1>4. /\ \A p \in s.near : c \notin p => p \in t.near
      /\ \A p \in t.near : p \in s.near \/ \E x \in S : p = {c, x}
  BY DEF Moves
<1>5. Counted(t)
  BY <1>1, <1>3 DEF Counted, Refers, Lists
<1>6. Bare(t) /\ Mastered(t)
  BY <1>1, <1>3 DEF Bare, Mastered
<1>7. Present(t)
  <2>1. \A d, x \in Lv!Creature : Lv!Near(t, d, x) => t.life[d] = "in" /\ t.life[x] = "in"
    <3> SUFFICES ASSUME NEW d \in Lv!Creature, NEW x \in Lv!Creature, {d, x} \in t.near
        PROVE  s.life[d] = "in" /\ s.life[x] = "in"
      BY <1>3 DEF Lv!Near
    <3>1. CASE {d, x} \in s.near
      BY <1>1, <3>1 DEF Present, Lv!Near
    <3>2. CASE {d, x} \notin s.near
      <4>1. PICK y \in S : {d, x} = {c, y}
        BY <1>4, <3>2
      <4>2. d \in {c, y} /\ x \in {c, y}
        BY <4>1
      <4>3. QED
        BY <1>2, <4>2
    <3>3. QED
      BY <3>1, <3>2
  <2>2. QED
    BY <1>1, <1>3, <2>1 DEF Present
<1>8. \A d, x : Lv!Near(s, d, x) /\ c \notin {d, x} => Lv!Near(t, d, x)
  BY <1>4 DEF Lv!Near
<1>9. ASSUME NEW d \in Lv!Creature PROVE Nearly(t, d, c)
  <2>1. Aims(s, d)
    BY DEF Full, Fair
  <2>2. QED
    BY <1>3, <1>8, <2>1 DEF Aims, Nearly
<1>10. ASSUME NEW d \in Lv!Creature, d # c, d \notin Lv!Around(s, c) PROVE Aims(t, d)
  <2> SUFFICES ASSUME s.life[d] = "in" PROVE Aims(t, d)
    BY <1>3 DEF Aims
  <2>1. Aims(s, d)
    BY DEF Full, Fair
  <2>2. ~Lv!Near(s, d, c)
    <3>1. {d, c} = {c, d}
      OBVIOUS
    <3>2. QED
      BY <1>10, <3>1 DEF Lv!Around, Lv!Here, Lv!Near
  <2>3. \A x : Lv!Near(s, d, x) => Lv!Near(t, d, x)
    BY <1>8, <1>10, <2>2
  <2>4. QED
    BY <1>3, <2>1, <2>3 DEF Aims
<1>11. Alert(t) /\ Owned(t)
  BY <1>3 DEF Full, Fair, Alert, Owned
<1>12. Settled(t)
  <2>1. Settled(s) /\ Shrinks(s, t, Gone(s))
    BY <1>3 DEF Full, Fair, Shrinks
  <2>2. QED
    BY <1>3, <2>1, SettledSame
<1>13. QED
  BY <1>3, <1>5, <1>6, <1>7, <1>9, <1>10, <1>11, <1>12 DEF Core

LEMMA MoveTidy ==
  ASSUME Cast, Full(g), NEW c \in Lv!Creature, NEW S \in SUBSET (Lv!Here(g) \ {c}),
         NEW ord \in Seq(Lv!Creature), Lv!ToSet(ord) = Lv!Creature, Lv!Move(c, S, ord)
  PROVE  Tidy(g')
<1> DEFINE old == Lv!Around(g, c)
           t == [g EXCEPT !.near = {p \in @ : c \notin p} \cup {{c, x} : x \in S}]
           M == old \cup S \cup {c}
           u == AllMove(t, ord, M, c, old)
<1>1. g.life[c] = "in" /\ g' = Lv!Swept(u)
  BY DEF Lv!Move, AllMove, Lv!InTurn
<1>2. /\ Core(t) /\ Alert(t) /\ Owned(t) /\ Settled(t) /\ t.life = g.life
      /\ \A d \in Lv!Creature : Nearly(t, d, c)
      /\ \A d \in Lv!Creature : d # c /\ d \notin old => Aims(t, d)
  <2>1. S \in SUBSET Lv!Here(g) /\ S \in SUBSET Lv!Creature /\ g \in Lv!State
    BY DEF Lv!Here, Full, Fair, Core
  <2>2. Moves(g, t, c, S)
    BY <2>1, CreatureMoves
  <2> HIDE DEF t
  <2>3. QED
    BY <1>1, <2>1, <2>2, MovedCore
<1> HIDE DEF t
<1>3. M \in SUBSET Lv!Creature /\ c \in M /\ \A d \in M : t.life[d] = "in" /\ Nearly(t, d, c)
  BY <1>1, <1>2 DEF Lv!Around, Lv!Here
<1>4. \A d \in Lv!Creature : d \notin M => Aims(t, d)
  BY <1>2
<1> HIDE DEF M, old
<1>5. Eased(t, u) /\ \A d \in M : Aims(u, d)
  <2>1. t.life[c] = "in" /\ M \subseteq Lv!ToSet(ord)
    BY <1>3
  <2>2. QED
    BY <1>2, <1>3, <2>1, AllMoveEased
<1> HIDE DEF u
<1>6. Core(u) /\ Alert(u) /\ Owned(u) /\ Settled(u)
  <2>1. Frame(t, u) /\ Watched(t, u) /\ Core(u)
    BY <1>5 DEF Eased, Calm
  <2>2. Settled(u)
    BY <1>2, <1>5, SettledEased
  <2>3. QED
    BY <1>2, <2>1, <2>2 DEF Frame, Watched, Alert, Owned
<1>7. \A d \in Lv!Creature : Aims(u, d)
  BY <1>4, <1>5, AimsEased
<1>8. Full(u)
  BY <1>6, <1>7 DEF Full, Fair
<1>9. QED
  BY <1>1, <1>8, SweptTidy

LEMMA AttackTidy ==
  ASSUME Cast, Tidy(g), NEW p \in Lv!Creature, NEW x \in Lv!Creature \cup {None},
         Lv!Attack(p, x)
  PROVE  Tidy(g')
<1>1. Full(g) /\ Core(g) /\ g \in Lv!State /\ g' = Lv!SetAttacked(g, p, x)
  BY DEF Tidy, Full, Fair, Core, Lv!Attack
<1> DEFINE t == Lv!SetAttacked(g, p, x)
<1>2. Full(t)
  BY <1>1, SetAttackedEased, FullEased
<1>3. t = [g EXCEPT !.attacked = t.attacked]
  BY <1>1, SetAttackedShape
<1> HIDE DEF t
<1>4. t.life = g.life /\ t.refs = g.refs
  BY <1>1, <1>3 DEF Lv!State
<1>5. Tidy(t)
  BY <1>2, <1>4 DEF Tidy, Garbage
<1>6. QED
  BY <1>1, <1>5 DEF t

\* A blow takes no reference to anybody else.
LEMMA HurtRefers ==
  ASSUME NEW s \in Lv!State, NEW c \in Lv!Creature, NEW lethal, NEW x \in Lv!Creature, x # c
  PROVE  Lv!Hurt(s, c, lethal).refs[x] = s.refs[x]
<1> DEFINE w == [s EXCEPT !.idle = @ \ {c}]
           P == w.checked \cup {c}
           Q == w.slotted \cup {c}
           y == [w EXCEPT !.checked = P]
           v == [w EXCEPT !.checked = P, !.slotted = Q]
           r == Lv!Ref(v, c)
           t == IF c \in Monsters THEN Lv!SetIdle(s, c, FALSE) ELSE s
           u == [t EXCEPT !.dead = @ \cup {c}]
<1>1. Lv!Hurt(s, c, lethal) = IF lethal THEN u ELSE t
  BY DEF Lv!Hurt
<1>2. t = s \/ t = w \/ t = y \/ t = r
  BY DEF Lv!SetIdle, Lv!AddCheck
<1>3. w \in Lv!State /\ w.refs = s.refs
  BY DEF Lv!State
<1> HIDE DEF w
<1>4. P \in SUBSET Lv!Creature /\ Q \in SUBSET Lv!Creature
  BY <1>3 DEF Lv!State
<1> HIDE DEF P, Q
<1>5. y \in Lv!State /\ y.refs = s.refs
  BY <1>3, <1>4 DEF Lv!State
<1>6. v \in Lv!State /\ v.refs = s.refs
  BY <1>3, <1>4 DEF Lv!State
<1> HIDE DEF y, v
<1>7. Recount(v, r) /\ \A d \in Lv!Creature \ {c} : r.refs[d] = v.refs[d]
  BY <1>6, RefShape
<1>8. r \in Lv!State /\ r.refs[x] = s.refs[x]
  BY <1>6, <1>7 DEF Recount
<1> HIDE DEF r, t
<1>9. t \in Lv!State /\ t.refs[x] = s.refs[x]
  BY <1>2, <1>3, <1>5, <1>8
<1>10. u.refs = t.refs
  BY <1>9 DEF Lv!State
<1> HIDE DEF u
<1>11. QED
  BY <1>1, <1>9, <1>10

LEMMA HitTidy ==
  ASSUME Cast, Tidy(g), NEW c \in Lv!Creature, NEW lethal \in BOOLEAN, Lv!Hit(c, lethal)
  PROVE  Tidy(g')
<1> DEFINE t == Lv!Hurt(g, c, lethal)
<1>1. /\ Full(g) /\ Fair(g) /\ g \in Lv!State /\ g.life[c] = "in" /\ g' = t
      /\ Garbage(g) = {}
  BY DEF Tidy, Full, Fair, Core, Lv!Hit
<1>2. Cuts(g, t)
  BY <1>1, HurtCuts
<1>3. \A x \in Lv!Creature \ {c} : t.refs[x] = g.refs[x]
  BY <1>1, HurtRefers
<1> HIDE DEF t
<1>4. Full(t) /\ t.life = g.life
  BY <1>1, <1>2, FullCuts DEF Cuts
<1>5. t \in Lv!State /\ Counted(t)
  BY <1>4 DEF Full, Fair, Core
<1>6. \A x \in Garbage(t) : x # c
  BY <1>1, <1>4, <1>5, Unreferred DEF Garbage
<1>7. Garbage(t) = {}
  BY <1>1, <1>3, <1>4, <1>6 DEF Garbage
<1>8. QED
  BY <1>1, <1>4, <1>7 DEF Tidy

LEMMA SkullTidy ==
  ASSUME Cast, Full(g), NEW p \in Lv!Creature, Lv!Skull(p)
  PROVE  Tidy(g')
<1> DEFINE t == Lv!SetAttacked(g, p, None)
           u == Lv!DestroySummons(t, p)
<1>1. Fair(g) /\ Core(g) /\ g' = Lv!Swept(u)
  BY DEF Full, Fair, Lv!Skull
<1>2. Cuts(g, t)
  BY <1>1, StopsAttack, StillCuts
<1> HIDE DEF t
<1>3. Cuts(t, u)
  BY <1>2, DestroySummonsCuts DEF Cuts
<1> HIDE DEF u
<1>4. Full(u)
  BY <1>2, <1>3, CutsCuts, FullCuts
<1>5. QED
  BY <1>1, <1>4, SweptTidy

LEMMA TakeAwayTidy ==
  ASSUME Cast, Full(g), NEW c \in Lv!Creature,
         NEW ord \in Seq(Lv!Creature), Lv!ToSet(ord) = Lv!Creature, Lv!TakeAway(c, ord)
  PROVE  Tidy(g')
<1>1. Fair(g) /\ g.life[c] = "in" /\ g' = Lv!Swept(Lv!RemoveCreature(g, c, ord))
  BY DEF Full, Lv!TakeAway
<1>2. Full(Lv!RemoveCreature(g, c, ord))
  BY <1>1, RemoveCreatureFull
<1>3. QED
  BY <1>1, <1>2, SweptTidy

LEMMA DieTidy ==
  ASSUME Cast, Full(g), NEW c \in Lv!Creature,
         NEW ord \in Seq(Lv!Creature), Lv!ToSet(ord) = Lv!Creature, Lv!Die(c, ord)
  PROVE  Tidy(g')
<1>1. Fair(g) /\ g.life[c] = "in" /\ g' = Lv!Cleaned(Lv!Death(g, c, ord))
  BY DEF Full, Fair, Core, Present, Lv!Die
<1>2. Full(Lv!Death(g, c, ord))
  BY <1>1, DeathFull
<1>3. QED
  BY <1>1, <1>2, CleanedTidy

LEMMA OnThinkTidy ==
  ASSUME Cast, Full(g), NEW c \in Lv!Creature, Lv!OnThink(c)
  PROVE  Tidy(g')
<1>1. Core(g) /\ g.life[c] # "absent"
  BY DEF Full, Fair, Core, Present, Lv!OnThink
<1>2. CASE c \in Players
  <2>1. g' = Lv!Cleaned(g)
    BY <1>2 DEF Lv!OnThink
  <2>2. QED
    BY <2>1, CleanedTidy
<1>3. CASE c \notin Players
  <2>1. PICK found \in BOOLEAN, x \in g.targets[c] \cup {None} : g' = Lv!Cleaned(Lv!Think(g, c, found, x))
    BY <1>3 DEF Lv!OnThink
  <2>2. c \in Monsters
    BY <1>3 DEF Cast
  <2>3. Eased(g, Lv!Think(g, c, found, x))
    BY <1>1, <2>2, ThinkEased
  <2>4. Full(Lv!Think(g, c, found, x))
    BY <2>3, FullEased
  <2>5. QED
    BY <2>1, <2>4, CleanedTidy
<1>4. QED
  BY <1>2, <1>3


\* s but for c, whose place in the vectors is given back, and all releases, done.
Unslots(s, t, c) ==
  /\ t \in Lv!State /\ t.life = s.life /\ t.dead = s.dead /\ t.near = s.near
  /\ t.master = s.master /\ t.summons = s.summons
  /\ t.targets = s.targets /\ t.friends = s.friends
  /\ t.attacked = s.attacked /\ t.followed = s.followed
  /\ t.checked = s.checked /\ t.slotted = s.slotted \ {c}
  /\ \A x \in Lv!Creature : t.free[x] = 0
  /\ t.refs[c] = s.refs[c] - (s.free[c] + 1)
  /\ \A x \in Lv!Creature \ {c} : t.refs[x] = s.refs[x] - s.free[x]

LEMMA UnslotsFull ==
  ASSUME Cast, NEW s, Full(s), NEW c \in Lv!Creature, c \in s.slotted, c \notin s.checked,
         NEW t, Unslots(s, t, c)
  PROVE  Full(t)
<1>1. s \in Lv!State /\ Counted(s) /\ Bare(s) /\ Mastered(s) /\ Present(s) /\ Core(s) /\ Fair(s)
  BY DEF Full, Fair, Core
<1>2. /\ t \in Lv!State /\ t.life = s.life /\ t.dead = s.dead /\ t.near = s.near
      /\ t.master = s.master /\ t.summons = s.summons
      /\ t.targets = s.targets /\ t.friends = s.friends
      /\ t.attacked = s.attacked /\ t.followed = s.followed
      /\ t.checked = s.checked /\ t.slotted = s.slotted \ {c}
      /\ \A x \in Lv!Creature : t.free[x] = 0
      /\ t.refs[c] = s.refs[c] - (s.free[c] + 1)
      /\ \A x \in Lv!Creature \ {c} : t.refs[x] = s.refs[x] - s.free[x]
  BY DEF Unslots
<1>3. Counted(t)
  <2> SUFFICES ASSUME NEW x \in Lv!Creature PROVE t.refs[x] = Refers(t, x)
    BY DEF Counted
  <2> DEFINE n == IF s.life[x] = "in" THEN 1 ELSE 0
             k == Mark(x, s.slotted)
             j == Mark(x, t.slotted)
             f == s.free[x]
             l == Lists(s, x)
             r == s.refs[x]
  <2>1. n \in Int /\ f \in Int /\ r \in Int /\ k \in Int /\ j \in Int
    BY <1>1 DEF Lv!State, Mark
  <2>2. l \in Int
    <3>1. IsFiniteSet(Lv!Creature) /\ IsFiniteSet(Monsters)
      BY FS_Subset DEF Cast
    <3>2. /\ Cardinality(Listing(s.summons, Lv!Creature, x)) \in Nat
          /\ Cardinality(Listing(s.targets, Monsters, x)) \in Nat
          /\ Cardinality(Listing(s.friends, Monsters, x)) \in Nat
      BY <3>1, ListingCounts
    <3>3. QED
      BY <3>2 DEF Lists
  <2>3. r = n + k + f + l
    BY <1>1 DEF Counted, Refers
  <2>4. Refers(t, x) = n + j + 0 + l
    BY <1>2 DEF Refers, Lists
  <2>5. IF x = c THEN k = 1 /\ j = 0 /\ t.refs[x] = r - (f + 1) ELSE k = j /\ t.refs[x] = r - f
    BY <1>2 DEF Mark
  <2> HIDE DEF n, k, j, f, l, r
  <2>6. t.refs[x] = n + j + 0 + l
    <3>1. CASE x = c
      BY <2>1, <2>2, <2>3, <2>5, <3>1
    <3>2. CASE x # c
      BY <2>1, <2>2, <2>3, <2>5, <3>2
    <3>3. QED
      BY <3>1, <3>2
  <2>7. QED
    BY <2>4, <2>6
<1>4. Bare(t)
  <2>1. \A x \in Lv!Creature : t.life[x] = "absent" => t.refs[x] = 0
    <3> SUFFICES ASSUME NEW x \in Lv!Creature, s.life[x] = "absent" PROVE t.refs[x] = 0
      BY <1>2
    <3>1. s.refs[x] = 0 /\ s.free[x] = 0 /\ x # c
      BY <1>1, AbsentIsNowhere
    <3>2. QED
      BY <1>2, <3>1
  <2>2. QED
    BY <1>1, <1>2, <2>1 DEF Bare
<1>5. Mastered(t)
  BY <1>1, <1>2 DEF Mastered
<1>6. Present(t)
  <2>1. t.checked \subseteq t.slotted /\ \A x \in t.checked : t.life[x] = "in"
    BY <1>1, <1>2 DEF Present
  <2>2. \A x \in Lv!Creature : t.free[x] \in 0 .. 1 /\ (t.life[x] = "in" => t.free[x] = 0)
    BY <1>2
  <2>3. \A d, x \in Lv!Creature : Lv!Near(t, d, x) => t.life[d] = "in" /\ t.life[x] = "in"
    BY <1>1, <1>2 DEF Present, Lv!Near
  <2>4. QED
    BY <2>1, <2>2, <2>3 DEF Present
<1>7. Core(t)
  BY <1>2, <1>3, <1>4, <1>5, <1>6 DEF Core
<1>8. Settled(t)
  <2>1. Settled(s) /\ Shrinks(s, t, Gone(s))
    BY <1>1, <1>2 DEF Fair, Shrinks
  <2>2. QED
    BY <1>2, <2>1, SettledSame
<1>9. Fair(t)
  BY <1>1, <1>2, <1>7, <1>8, FairSame
<1>10. QED
  BY <1>2, <1>9 DEF Full, Owned

LEMMA UnslotTidy ==
  ASSUME Cast, Full(g), NEW c \in Lv!Creature, Lv!Unslot(c)
  PROVE  Tidy(g')
<1> DEFINE A == g.slotted \ {c}
           F == [g.free EXCEPT ![c] = g.free[c] + 1]
           t == [g EXCEPT !.slotted = A]
           u == Lv!Free(t, c)
           R == [x \in Lv!Creature |-> u.refs[x] - u.free[x]]
           Z == [x \in Lv!Creature |-> 0]
           v == [u EXCEPT !.refs = R, !.free = Z]
<1>1. c \in g.slotted /\ c \notin g.checked /\ g' = Lv!Cleaned(u)
  BY DEF Lv!Unslot
<1>2. g \in Lv!State /\ Present(g)
  BY DEF Full, Fair, Core
<1>3. A \in SUBSET Lv!Creature /\ F \in [Lv!Creature -> 0 .. 3]
  BY <1>2 DEF Lv!State, Present
<1> HIDE DEF A
<1>4. /\ t \in Lv!State /\ t.slotted = A /\ t.free = g.free /\ t.refs = g.refs
      /\ t.life = g.life /\ t.dead = g.dead /\ t.near = g.near
      /\ t.master = g.master /\ t.summons = g.summons
      /\ t.targets = g.targets /\ t.friends = g.friends
      /\ t.attacked = g.attacked /\ t.followed = g.followed /\ t.checked = g.checked
  BY <1>2, <1>3 DEF Lv!State
<1> HIDE DEF t
<1>5. u = [t EXCEPT !.free = F]
  BY <1>4 DEF Lv!Free, Lv!State
<1>6. F[c] = g.free[c] + 1 /\ \A x \in Lv!Creature \ {c} : F[x] = g.free[x]
  BY <1>2 DEF Lv!State
<1> HIDE DEF F, u
<1>7. /\ u \in Lv!State /\ u.slotted = A /\ u.free = F /\ u.refs = g.refs
      /\ u.life = g.life /\ u.dead = g.dead /\ u.near = g.near
      /\ u.master = g.master /\ u.summons = g.summons
      /\ u.targets = g.targets /\ u.friends = g.friends
      /\ u.attacked = g.attacked /\ u.followed = g.followed /\ u.checked = g.checked
  BY <1>3, <1>4, <1>5 DEF Lv!State
<1>8. Lv!Cleaned(u) = Lv!Swept(v)
  BY <1>7 DEF Lv!Cleaned, Lv!State
<1>9. R \in [Lv!Creature -> Int] /\ Z \in [Lv!Creature -> 0 .. 3]
  BY <1>7 DEF Lv!State
<1>10. \A x \in Lv!Creature : R[x] = u.refs[x] - u.free[x] /\ Z[x] = 0
  OBVIOUS
<1> HIDE DEF R, Z
<1>11. /\ v \in Lv!State /\ v.slotted = A /\ v.free = Z /\ v.refs = R
       /\ v.life = g.life /\ v.dead = g.dead /\ v.near = g.near
       /\ v.master = g.master /\ v.summons = g.summons
       /\ v.targets = g.targets /\ v.friends = g.friends
       /\ v.attacked = g.attacked /\ v.followed = g.followed /\ v.checked = g.checked
  BY <1>7, <1>9 DEF Lv!State
<1> HIDE DEF v
<1>12. Unslots(g, v, c)
  <2>1. /\ v.refs[c] = g.refs[c] - (g.free[c] + 1)
        /\ \A x \in Lv!Creature \ {c} : v.refs[x] = g.refs[x] - g.free[x]
    BY <1>6, <1>7, <1>10, <1>11
  <2>2. QED
    BY <1>10, <1>11, <2>1 DEF Unslots, A
<1>13. Full(v)
  BY <1>1, <1>12, UnslotsFull
<1>14. QED
  BY <1>1, <1>8, <1>13, SweptTidy

-----------------------------------------------------------------------------
(* All creatures, at all times                                             *)

LEMMA TidyInit == ASSUME Cast, Lv!Init PROVE Tidy(g)
<1> DEFINE a == "absent"
<1>1. /\ g \in Lv!State
      /\ \A c \in Lv!Creature :
           /\ g.life[c] = a /\ g.refs[c] = 0 /\ g.free[c] = 0 /\ g.master[c] = None
           /\ g.summons[c] = {} /\ g.attacked[c] = None
      /\ \A m \in Monsters : g.targets[m] = {} /\ g.friends[m] = {} /\ g.followed[m] = None
      /\ g.dead = {} /\ g.checked = {} /\ g.slotted = {} /\ g.near = {}
  BY DEF Lv!Init, Lv!State
<1>2. a # "in" /\ a # "out"
  OBVIOUS
<1>3. Counted(g)
  <2> SUFFICES ASSUME NEW c \in Lv!Creature PROVE g.refs[c] = Refers(g, c)
    BY DEF Counted
  <2>1. IsFiniteSet(Lv!Creature) /\ IsFiniteSet(Monsters)
    BY FS_Subset DEF Cast
  <2>2. /\ \A d \in Lv!Creature : c \notin g.summons[d]
        /\ \A m \in Monsters : c \notin g.targets[m] /\ c \notin g.friends[m]
    BY <1>1
  <2>3. /\ Cardinality(Listing(g.summons, Lv!Creature, c)) = 0
        /\ Cardinality(Listing(g.targets, Monsters, c)) = 0
        /\ Cardinality(Listing(g.friends, Monsters, c)) = 0
    BY <2>1, <2>2, ListingCounts
  <2>4. Lists(g, c) = 0
    BY <2>3 DEF Lists
  <2>5. QED
    BY <1>1, <1>2, <2>4 DEF Refers, Mark
<1>4. Bare(g) /\ Mastered(g) /\ Present(g)
  <2>1. Bare(g)
    BY <1>1 DEF Bare
  <2>2. Mastered(g)
    BY <1>1 DEF Mastered, Cast
  <2>3. Present(g)
    BY <1>1 DEF Present, Lv!Near
  <2>4. QED
    BY <2>1, <2>2, <2>3
<1>5. Alert(g) /\ Owned(g) /\ \A d \in Lv!Creature : Aims(g, d)
  BY <1>1, <1>2 DEF Alert, Owned, Aims
<1>6. Settled(g)
  <2>1. Monsters \subseteq Lv!Creature /\ None \notin Monsters
    BY DEF Cast
  <2>2. Hollow(g)
    BY <1>1, <1>2, <2>1 DEF Hollow
  <2>3. Rooted(g)
    BY <1>1, <2>1 DEF Rooted
  <2>4. QED
    BY <2>2, <2>3 DEF Settled
<1>7. Garbage(g) = {}
  BY <1>1 DEF Garbage
<1>8. QED
  BY <1>1, <1>3, <1>4, <1>5, <1>6, <1>7 DEF Tidy, Full, Fair, Core

\* Each step of the game leads from such a state to such a state.
LEMMA TidyNext ==
  ASSUME Lv!CreaturesAssumption, Tidy(g), [Lv!Next]_(Lv!vars) PROVE Tidy(g')
<1>1. Cast /\ Full(g)
  BY CastHolds DEF Tidy
<1>2. CASE UNCHANGED Lv!vars
  BY <1>2 DEF Lv!vars
<1>3. ASSUME NEW c \in Lv!Creature, Lv!Unslot(c) PROVE Tidy(g')
  BY <1>1, <1>3, UnslotTidy
<1>4. ASSUME NEW c \in Lv!Creature, Lv!OnThink(c) PROVE Tidy(g')
  BY <1>1, <1>4, OnThinkTidy
<1>5. ASSUME NEW c \in Lv!Creature, NEW lethal \in BOOLEAN, Lv!Hit(c, lethal) PROVE Tidy(g')
  BY <1>1, <1>5, HitTidy
<1>6. ASSUME NEW c \in Lv!Creature, Lv!Skull(c) PROVE Tidy(g')
  BY <1>1, <1>6, SkullTidy
<1>7. ASSUME NEW c \in Lv!Creature, NEW x \in Lv!Creature \cup {None}, Lv!Attack(c, x)
      PROVE  Tidy(g')
  BY <1>1, <1>7, AttackTidy
<1>8. ASSUME NEW c \in Lv!Creature, NEW ord \in Lv!Orders, Lv!Die(c, ord) PROVE Tidy(g')
  BY <1>1, <1>8, OrdersName, DieTidy
<1>9. ASSUME NEW c \in Lv!Creature, NEW ord \in Lv!Orders, Lv!TakeAway(c, ord) PROVE Tidy(g')
  BY <1>1, <1>9, OrdersName, TakeAwayTidy
<1>10. ASSUME NEW c \in Lv!Creature, NEW ord \in Lv!Orders, NEW S \in SUBSET (Lv!Here(g) \ {c}),
              Lv!Appear(c, S, ord)
       PROVE  Tidy(g')
  BY <1>1, <1>10, OrdersName, AppearTidy
<1>11. ASSUME NEW c \in Lv!Creature, NEW ord \in Lv!Orders, NEW S \in SUBSET (Lv!Here(g) \ {c}),
              Lv!Move(c, S, ord)
       PROVE  Tidy(g')
  BY <1>1, <1>11, OrdersName, MoveTidy
<1>12. ASSUME NEW c \in Monsters, NEW ord \in Lv!Orders, NEW S \in SUBSET (Lv!Here(g) \ {c}),
              NEW d \in S, NEW roomless \in BOOLEAN, Lv!Summon(d, c, S, roomless, ord)
       PROVE  Tidy(g')
  <2>1. d \in Lv!Creature
    BY DEF Lv!Here
  <2>2. QED
    BY <1>1, <1>12, <2>1, OrdersName, SummonTidy
<1>13. ASSUME NEW c \in Monsters, NEW ord \in Lv!Orders, NEW p \in Players, Lv!Convince(p, c, ord)
       PROVE  Tidy(g')
  BY <1>1, <1>13, OrdersName, ConvinceTidy
<1>14. CASE Lv!Next
  <2>1. PICK c \in Lv!Creature :
          \/ Lv!Unslot(c) \/ Lv!OnThink(c)
          \/ \E lethal \in BOOLEAN : Lv!Hit(c, lethal)
          \/ c \in Players /\ (Lv!Skull(c) \/ \E x \in Lv!Creature \cup {None} : Lv!Attack(c, x))
          \/ \E ord \in Lv!Orders :
               \/ Lv!Die(c, ord) \/ Lv!TakeAway(c, ord)
               \/ \E S \in SUBSET (Lv!Here(g) \ {c}) :
                    \/ Lv!Appear(c, S, ord) \/ Lv!Move(c, S, ord)
                    \/ \E d \in S, roomless \in BOOLEAN :
                         c \in Monsters /\ Lv!Summon(d, c, S, roomless, ord)
               \/ \E p \in Players : c \in Monsters /\ Lv!Convince(p, c, ord)
    BY <1>14 DEF Lv!Next
  <2>2. CASE Lv!Unslot(c) \/ Lv!OnThink(c) \/ \E lethal \in BOOLEAN : Lv!Hit(c, lethal)
    BY <1>3, <1>4, <1>5, <2>2
  <2>3. CASE Lv!Skull(c) \/ \E x \in Lv!Creature \cup {None} : Lv!Attack(c, x)
    BY <1>6, <1>7, <2>3
  <2>4. ASSUME NEW ord \in Lv!Orders, Lv!Die(c, ord) \/ Lv!TakeAway(c, ord) PROVE Tidy(g')
    BY <1>8, <1>9, <2>4
  <2>5. ASSUME NEW ord \in Lv!Orders, NEW S \in SUBSET (Lv!Here(g) \ {c}),
               \/ Lv!Appear(c, S, ord) \/ Lv!Move(c, S, ord)
               \/ \E d \in S, roomless \in BOOLEAN :
                    c \in Monsters /\ Lv!Summon(d, c, S, roomless, ord)
        PROVE  Tidy(g')
    BY <1>10, <1>11, <1>12, <2>5
  <2>6. ASSUME NEW ord \in Lv!Orders, NEW p \in Players, c \in Monsters, Lv!Convince(p, c, ord)
        PROVE  Tidy(g')
    BY <1>13, <2>6
  <2>7. QED
    BY <2>1, <2>2, <2>3, <2>4, <2>5, <2>6
<1>15. QED
  BY <1>2, <1>14

-----------------------------------------------------------------------------
(* Who is removed and never deleted                                        *)

\* Whom d keeps in its lists, and the sets that everyone in them keeps.
Keeps(s, d) ==
  s.summons[d] \cup (IF d \in Monsters THEN s.targets[d] \cup s.friends[d] ELSE {})
Closed(s, X) == \A d \in X : Keeps(s, d) \subseteq X

\* Whom the game, the vectors and the releases keep.
Known(s) == Lv!Here(s) \cup s.slotted \cup {c \in Lv!Creature : s.free[c] > 0}

Spread(s, X) == X \cup UNION {Keeps(s, d) : d \in X}

\* Of a set that is not closed, the next one is larger.
LEMMA SpreadGrows ==
  ASSUME Cast, NEW s \in Lv!State, NEW X \in SUBSET Lv!Creature, NEW k \in Nat,
         Closed(s, X) \/ Cardinality(X) >= k
  PROVE  LET Y == Spread(s, X)
         IN  /\ Y \in SUBSET Lv!Creature /\ X \subseteq Y
             /\ Closed(s, Y) \/ Cardinality(Y) >= k + 1
<1> DEFINE Y == Spread(s, X)
<1>1. \A d \in Lv!Creature : Keeps(s, d) \subseteq Lv!Creature
  BY DEF Keeps, Lv!State
<1>2. Y \in SUBSET Lv!Creature /\ X \subseteq Y
  BY <1>1 DEF Spread
<1>3. CASE Closed(s, X)
  <2>1. Y = X
    BY <1>3 DEF Closed, Spread
  <2>2. QED
    BY <1>2, <1>3, <2>1
<1>4. CASE ~Closed(s, X)
  <2>1. Y # X
    BY <1>4 DEF Closed, Spread
  <2>2. IsFiniteSet(X) /\ IsFiniteSet(Y)
    <3> HIDE DEF Y
    <3>1. QED
      BY <1>2, FS_Subset DEF Cast
  <2> HIDE DEF Y
  <2>3. Cardinality(X) \in Nat /\ Cardinality(Y) \in Nat
    BY <2>2, FS_CardinalityType
  <2>4. Cardinality(X) <= Cardinality(Y) /\ Cardinality(X) # Cardinality(Y)
    BY <1>2, <2>1, <2>2, FS_Subset
  <2> DEFINE i == Cardinality(X)
             j == Cardinality(Y)
  <2>5. i \in Nat /\ j \in Nat /\ i <= j /\ i # j /\ i >= k
    BY <1>4, <2>3, <2>4
  <2> HIDE DEF i, j
  <2>6. j >= k + 1
    BY <2>5
  <2>7. QED
    BY <1>2, <2>6 DEF j, Y
<1>5. QED
  BY <1>3, <1>4

\* What Held() finds in as many rounds as there are creatures, it finds in any number.
LEMMA HeldClosed ==
  ASSUME Cast, NEW s \in Lv!State
  PROVE  /\ Lv!Held(s) \in SUBSET Lv!Creature /\ Known(s) \subseteq Lv!Held(s)
         /\ Closed(s, Lv!Held(s))
<1> DEFINE N == Turned
           B == Known(s)
           Holds(X, n) == B \subseteq X /\ (Closed(s, X) \/ Cardinality(X) >= n)
           Sub == SUBSET Lv!Creature
           Good == [n \in 0 .. N |-> {X \in Sub : Holds(X, n)}]
           H == [p \in Sub \X (1 .. N) |-> Spread(s, p[1])]
           Is(T) == T = [n \in 0 .. N |->
                         IF n = 0 THEN Lv!Here(s) \cup s.slotted \cup {c \in Lv!Creature : s.free[c] > 0}
                         ELSE T[n - 1] \cup UNION {Keeps(s, d) : d \in T[n - 1]}]
           U == CHOOSE T : Is(T)
<1>1. Lv!Held(s) = U[N]
  BY DEF Lv!Held, Turned, Keeps
<1>2. N \in Nat /\ N = Cardinality(Lv!Creature)
  BY TurnedNat
<1>3. B \in Sub /\ Holds(B, 0)
  <2>1. B \in Sub
    BY DEF Known, Lv!Here, Lv!State
  <2>2. Cardinality(B) \in Nat
    <3> HIDE DEF B
    <3>1. IsFiniteSet(B)
      BY <2>1, FS_Subset DEF Cast
    <3>2. QED
      BY <3>1, FS_CardinalityType
  <2> DEFINE i == Cardinality(B)
  <2> HIDE DEF i
  <2>3. i >= 0
    BY <2>2 DEF i
  <2>4. QED
    BY <2>1, <2>3 DEF i
<1>4. ASSUME NEW n \in 1 .. N, NEW X \in Sub, Holds(X, n - 1)
       PROVE  Spread(s, X) \in Sub /\ Holds(Spread(s, X), n)
  <2>1. n - 1 \in Nat /\ (n - 1) + 1 = n
    BY <1>2
  <2> DEFINE k == n - 1
  <2> HIDE DEF k, B
  <2>2. LET Y == Spread(s, X)
        IN  /\ Y \in SUBSET Lv!Creature /\ X \subseteq Y
            /\ Closed(s, Y) \/ Cardinality(Y) >= k + 1
    BY <1>4, <2>1, SpreadGrows DEF k
  <2>3. QED
    BY <1>4, <2>1, <2>2 DEF k
<1>5. \A n \in 1 .. N : n \in 0 .. N /\ n - 1 \in 0 .. N /\ n # 0
  BY <1>2
<1>6. \A X \in Sub, n \in 1 .. N : H[<<X, n>>] = Spread(s, X)
  OBVIOUS
<1>7. \A n \in 0 .. N : \A X : X \in Good[n] <=> X \in Sub /\ Holds(X, n)
  <2> HIDE DEF Holds
  <2>1. QED
    OBVIOUS
<1> HIDE DEF H, N, Good, Holds, Sub
<1>8. Steps(H, N, Good) /\ B \in Good[0]
  <2>1. 0 \in 0 .. N
    BY <1>2
  <2>2. B \in Good[0]
    BY <1>3, <1>7, <2>1
  <2>3. ASSUME NEW n \in 1 .. N, NEW X \in Good[n - 1] PROVE H[<<X, n>>] \in Good[n]
    <3>1. X \in Sub /\ Holds(X, n - 1) /\ n \in 0 .. N
      BY <1>5, <1>7
    <3>2. Spread(s, X) \in Sub /\ Holds(Spread(s, X), n)
      BY <1>4, <3>1
    <3>3. QED
      BY <1>6, <1>7, <3>1, <3>2
  <2>4. QED
    BY <2>2, <2>3 DEF Steps
<1>9. PICK T : Turns(T, H, N, Good, B)
  BY <1>2, <1>8, LoopExists
<1>10. /\ T = [n \in 0 .. N |-> IF n = 0 THEN B ELSE H[<<T[n - 1], n>>]]
       /\ \A n \in 0 .. N : T[n] \in Sub
  BY <1>7, <1>9 DEF Turns
<1>11. Is(T)
  <2>1. \A n \in 0 .. N : n # 0 => H[<<T[n - 1], n>>] = Spread(s, T[n - 1])
    <3> SUFFICES ASSUME NEW n \in 0 .. N, n # 0 PROVE H[<<T[n - 1], n>>] = Spread(s, T[n - 1])
      OBVIOUS
    <3>1. n \in 1 .. N /\ n - 1 \in 0 .. N
      BY <1>2, <1>5
    <3>2. QED
      BY <1>6, <1>10, <3>1
  <2>2. \A n \in 0 .. N : (IF n = 0 THEN B ELSE H[<<T[n - 1], n>>])
                            = (IF n = 0 THEN B ELSE Spread(s, T[n - 1]))
    BY <2>1
  <2>3. [n \in 0 .. N |-> IF n = 0 THEN B ELSE H[<<T[n - 1], n>>]]
          = [n \in 0 .. N |-> IF n = 0 THEN B ELSE Spread(s, T[n - 1])]
    BY <2>2
  <2>4. T = [n \in 0 .. N |-> IF n = 0 THEN B ELSE Spread(s, T[n - 1])]
    BY <1>10, <2>3
  <2>5. QED
    BY <2>4 DEF Spread, Known
<1>12. Is(U)
  BY <1>11
<1>13. \A n \in 0 .. N : U[n] = IF n = 0 THEN B ELSE Spread(s, U[n - 1])
  <2> HIDE DEF U
  <2>1. QED
    BY <1>12 DEF Spread, Known
<1> HIDE DEF Is, U, B
<1>14. Stays(U, N, Good)
  <2>1. 0 \in 0 .. N
    BY <1>2
  <2>2. U[0] \in Good[0]
    BY <1>8, <1>13, <2>1
  <2>3. ASSUME NEW n \in 1 .. N, U[n - 1] \in Good[n - 1] PROVE U[n] \in Good[n]
    <3> DEFINE X == U[n - 1]
    <3>1. X \in Sub /\ Holds(X, n - 1) /\ U[n] = Spread(s, X)
      BY <1>5, <1>7, <1>13, <2>3
    <3> HIDE DEF X
    <3>2. Spread(s, X) \in Sub /\ Holds(Spread(s, X), n)
      BY <1>4, <3>1
    <3>3. QED
      BY <1>5, <1>7, <3>1, <3>2
  <2>4. QED
    BY <2>2, <2>3 DEF Stays
<1> DEFINE Z == U[N]
<1>15. Z \in Sub /\ Holds(Z, N)
  <2>1. N \in 0 .. N
    BY <1>2
  <2>2. QED
    BY <1>2, <1>7, <1>14, <2>1, LoopStays
<1>16. Z \in SUBSET Lv!Creature /\ B \subseteq Z /\ (Closed(s, Z) \/ Cardinality(Z) >= N)
  BY <1>15 DEF Holds, Sub
<1> HIDE DEF Z
<1>17. Closed(s, Z)
  <2> SUFFICES ASSUME Cardinality(Z) >= N PROVE Closed(s, Z)
    BY <1>16
  <2>1. IsFiniteSet(Lv!Creature) /\ IsFiniteSet(Z)
    BY <1>16, FS_Subset DEF Cast
  <2>2. Cardinality(Z) <= Cardinality(Lv!Creature) /\ Cardinality(Z) \in Nat
    BY <1>16, <2>1, FS_Subset, FS_CardinalityType
  <2> DEFINE i == Cardinality(Z)
             j == Cardinality(Lv!Creature)
  <2>3. i \in Nat /\ j \in Nat /\ i <= j /\ i >= j
    BY <1>2, <2>2
  <2> HIDE DEF i, j
  <2>4. i = j
    BY <2>3
  <2>5. Z = Lv!Creature
    BY <1>16, <2>1, <2>4, FS_Subset DEF i, j
  <2>6. QED
    BY <2>5 DEF Closed, Keeps, Lv!State
<1>18. QED
  BY <1>1, <1>16, <1>17 DEF B, Z

\* What is out, held by nothing known and not deleted is kept by another such; and unless
\* one of them died, by its master. That would be a ring of masters.
LEMMA LeaksOnly == ASSUME Cast, Tidy(g) PROVE Lv!LeaksOnlyTheDying
<1>1. /\ g \in Lv!State /\ Counted(g) /\ Bare(g) /\ Mastered(g)
      /\ Hollow(g) /\ Rooted(g) /\ Garbage(g) = {}
  BY DEF Tidy, Full, Fair, Core, Settled
<1> DEFINE A == Lv!Held(g)
           L == {c \in Lv!Creature : g.life[c] = "out" /\ c \notin A}
<1>2. A \in SUBSET Lv!Creature /\ Known(g) \subseteq A /\ Closed(g, A)
  BY <1>1, HeldClosed
<1> HIDE DEF A
<1> SUFFICES ASSUME L # {}, \A m \in Monsters : g.life[m] = "out" => m \notin g.dead
    PROVE  FALSE
  BY DEF Lv!LeaksOnlyTheDying, A
<1>3. \A x \in L : x \in Monsters /\ g.master[x] \in L
  <2> SUFFICES ASSUME NEW x \in L PROVE x \in Monsters /\ g.master[x] \in L
    OBVIOUS
  <2>1. x \in Lv!Creature /\ g.life[x] = "out" /\ x \notin A
    OBVIOUS
  <2> HIDE DEF L
  <2>2. x \notin g.slotted /\ ~(g.free[x] > 0) /\ g.refs[x] \in Int /\ g.free[x] \in 0 .. 3
    BY <1>1, <1>2, <2>1 DEF Known, Lv!State
  <2>3. g.free[x] = 0
    BY <2>2
  <2>4. ~(g.refs[x] <= 0)
    BY <1>1, <2>1 DEF Garbage
  <2>5. g.refs[x] = 0 + 0 + 0 + Lists(g, x)
    BY <1>1, <2>1, <2>2, <2>3 DEF Counted, Refers, Mark
  <2>6. \/ \E d \in Lv!Creature : x \in g.summons[d]
        \/ \E d \in Monsters : x \in g.targets[d] \cup g.friends[d]
    <3> SUFFICES ASSUME \A d \in Lv!Creature : x \notin g.summons[d],
                        \A d \in Monsters : x \notin g.targets[d] \cup g.friends[d]
        PROVE  FALSE
      OBVIOUS
    <3>1. IsFiniteSet(Lv!Creature) /\ IsFiniteSet(Monsters)
      BY FS_Subset DEF Cast
    <3>2. \A d \in Monsters : x \notin g.targets[d] /\ x \notin g.friends[d]
      OBVIOUS
    <3>3. /\ Cardinality(Listing(g.summons, Lv!Creature, x)) = 0
          /\ Cardinality(Listing(g.targets, Monsters, x)) = 0
          /\ Cardinality(Listing(g.friends, Monsters, x)) = 0
      BY <3>1, <3>2, ListingCounts
    <3>4. Lists(g, x) = 0
      BY <3>3 DEF Lists
    <3>5. QED
      BY <2>4, <2>5, <3>4
  <2>7. PICK d \in Lv!Creature : x \in Keeps(g, d)
    BY <2>6 DEF Keeps, Cast
  <2>8. d \notin A
    BY <1>2, <2>1, <2>7 DEF Closed
  <2>9. g.life[d] # "in"
    BY <1>2, <2>8 DEF Known, Lv!Here
  <2>10. g.life[d] # "absent"
    BY <1>1, <2>7 DEF Bare, Keeps
  <2>11. g.life[d] = "out" /\ d \in L
    BY <1>1, <2>8, <2>9, <2>10 DEF Lv!State, L
  <2>12. d \in Monsters => g.targets[d] = {} /\ g.friends[d] = {}
    BY <1>1, <2>11 DEF Hollow, Emptied
  <2>13. x \in g.summons[d]
    BY <2>7, <2>12 DEF Keeps
  <2>14. QED
    BY <1>1, <2>1, <2>11, <2>13 DEF Mastered
<1>4. L \in SUBSET Monsters
  BY <1>3
<1> HIDE DEF L
<1>5. PICK m \in L : g.master[m] \notin L
  BY <1>1, <1>4 DEF Rooted
<1>6. QED
  BY <1>3, <1>5

\* What holds between the steps is what the runs check.
LEMMA FullSound ==
  ASSUME Cast, Full(g)
  PROVE  Lv!TypeOK /\ Lv!Balanced /\ Lv!PointersGood /\ Lv!DeathNoticed
<1>1. g \in Lv!State /\ Counted(g) /\ Bare(g) /\ Mastered(g) /\ Present(g) /\ Alert(g) /\ Owned(g)
  BY DEF Full, Fair, Core
<1>2. Lv!TypeOK
  BY <1>1 DEF Lv!TypeOK
<1>3. Lv!Balanced
  <2> SUFFICES ASSUME NEW c \in Lv!Creature
      PROVE  g.refs[c] = Lv!Count(g.life[c] = "in") + Lv!Count(c \in g.slotted) + g.free[c]
                           + Lv!Cardinality({d \in Lv!Creature : c \in g.summons[d]})
                           + Lv!Cardinality({m \in Monsters : c \in g.targets[m]})
                           + Lv!Cardinality({m \in Monsters : c \in g.friends[m]})
    BY DEF Lv!Balanced
  <2> DEFINE i == Cardinality(Listing(g.summons, Lv!Creature, c))
             j == Cardinality(Listing(g.targets, Monsters, c))
             k == Cardinality(Listing(g.friends, Monsters, c))
             e == IF g.life[c] = "in" THEN 1 ELSE 0
             h == Mark(c, g.slotted)
             f == g.free[c]
  <2>1. /\ Lv!Cardinality({d \in Lv!Creature : c \in g.summons[d]}) = i
        /\ Lv!Cardinality({m \in Monsters : c \in g.targets[m]}) = j
        /\ Lv!Cardinality({m \in Monsters : c \in g.friends[m]}) = k
    BY SameCard DEF Listing
  <2>2. Lv!Count(g.life[c] = "in") = e /\ Lv!Count(c \in g.slotted) = h
    BY DEF Lv!Count, Mark
  <2>3. g.refs[c] = e + h + f + (i + j + k)
    BY <1>1 DEF Counted, Refers, Lists
  <2>4. e \in Int /\ h \in Int /\ f \in Int /\ i \in Int /\ j \in Int /\ k \in Int
    <3>1. IsFiniteSet(Lv!Creature) /\ IsFiniteSet(Monsters)
      BY FS_Subset DEF Cast
    <3>2. i \in Nat /\ j \in Nat /\ k \in Nat
      BY <3>1, ListingCounts
    <3>3. e \in Int /\ h \in Int /\ f \in Int
      BY <1>1 DEF Mark, Lv!State
    <3>4. QED
      BY <3>2, <3>3
  <2> HIDE DEF i, j, k, e, h, f
  <2>5. e + h + f + (i + j + k) = e + h + f + i + j + k
    BY <2>4
  <2>6. QED
    BY <2>1, <2>2, <2>3, <2>5 DEF f
<1>4. Lv!PointersGood
  <2> SUFFICES ASSUME NEW c \in Lv!Creature
      PROVE  /\ g.master[c] # None => c \in g.summons[g.master[c]]
             /\ g.life[c] = "in" =>
                  /\ g.master[c] # None => g.life[g.master[c]] = "in"
                  /\ g.attacked[c] # None => g.life[g.attacked[c]] = "in"
                  /\ c \in Monsters /\ g.followed[c] # None => g.life[g.followed[c]] = "in"
    BY DEF Lv!PointersGood
  <2>1. g.master[c] # None => c \in g.summons[g.master[c]]
    <3>1. g.master[c] \in Lv!Creature \cup {None}
      BY <1>1 DEF Lv!State
    <3>2. QED
      BY <1>1, <3>1 DEF Mastered
  <2>2. g.life[c] = "in" /\ g.master[c] # None => g.life[g.master[c]] = "in"
    BY <1>1 DEF Owned
  <2>3. Aims(g, c)
    BY DEF Full, Fair
  <2>4. g.life[c] = "in" /\ g.attacked[c] # None => g.life[g.attacked[c]] = "in"
    <3>1. g.attacked[c] \in Lv!Creature \cup {None}
      BY <1>1 DEF Lv!State
    <3>2. QED
      BY <1>1, <2>3, <3>1 DEF Aims, Present
  <2>5. g.life[c] = "in" /\ c \in Monsters /\ g.followed[c] # None => g.life[g.followed[c]] = "in"
    <3>1. c \in Monsters => g.followed[c] \in Lv!Creature \cup {None}
      BY <1>1 DEF Lv!State
    <3>2. QED
      BY <1>1, <2>3, <3>1 DEF Aims, Present
  <2>6. QED
    BY <2>1, <2>2, <2>4, <2>5
<1>5. Lv!DeathNoticed
  BY <1>1 DEF Lv!DeathNoticed, Alert, Present
<1>6. QED
  BY <1>2, <1>3, <1>4, <1>5

\* References to creatures are counted exactly, whatever appears, is summoned, convinced,
\* moved, hit, removed or deleted, and in whatever order spectators are told: nothing that
\* the game, a vector, a master or a monster's list still holds is deleted. The pointers
\* that hold no reference are good: a master has his summon, and who is attacked or
\* followed is in the game. Who has no health left is looked at again, and so dies. And
\* what was removed is deleted in the end, unless a monster was removed without health
\* (Game::removeCreature(), Game::checkCreatures(), Creature::destroySummons()).
THEOREM CreaturesCounted ==
  ASSUME Lv!CreaturesAssumption
  PROVE  Lv!Spec => []Lv!CreaturesSound
<1>1. Cast
  BY CastHolds
<1>2. Lv!Init => Tidy(g)
  BY <1>1, TidyInit
<1>3. Tidy(g) /\ [Lv!Next]_(Lv!vars) => Tidy(g)'
  BY TidyNext
<1>4. Tidy(g) => Lv!CreaturesSound
  <2> SUFFICES ASSUME Tidy(g) PROVE Lv!CreaturesSound
    OBVIOUS
  <2>1. Full(g)
    BY DEF Tidy
  <2>2. Lv!TypeOK /\ Lv!Balanced /\ Lv!PointersGood /\ Lv!DeathNoticed
    BY <1>1, <2>1, FullSound
  <2>3. Lv!LeaksOnlyTheDying
    BY <1>1, LeaksOnly
  <2>4. QED
    BY <2>2, <2>3 DEF Lv!CreaturesSound
<1>5. QED
  BY <1>2, <1>3, <1>4, PTL DEF Lv!Spec
=============================================================================
