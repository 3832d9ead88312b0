----------------------------- MODULE TownProofs -----------------------------
(***************************************************************************)
(* Proofs about components that MCTown runs: the rent of a house, for      *)
(* every number of players, days and coins, every rent period, and with    *)
(* crashes, and the chat, for any players, parties and private channels.   *)
(***************************************************************************)
EXTENDS HouseRent, FiniteSetTheorems, TLAPS

Pairs == [now : Worlds, db : Worlds]

LEMMA PeriodType ==
  PeriodDays \in {1, 7, 30, 365} /\ WarningsLimit \in {1, 3, 7, 14}
BY DEF PeriodDays, WarningsLimit

LEMMA WithAccountType ==
  ASSUME NEW v \in Worlds, NEW p \in Players, NEW a \in Accounts
  PROVE  /\ WithAccount(v, p, a) \in Worlds
         /\ WithAccount(v, p, a).house = v.house
         /\ WithAccount(v, p, a).inHouse = v.inHouse
BY DEF WithAccount, Worlds

LEMMA WithHouseType ==
  ASSUME NEW v \in Worlds, NEW h \in Deeds
  PROVE  /\ WithHouse(v, h) \in Worlds
         /\ WithHouse(v, h).house = h
         /\ WithHouse(v, h).inHouse = v.inHouse
BY DEF WithHouse, Worlds

LEMMA EmptiedType ==
  ASSUME NEW v \in Worlds
  PROVE  Emptied(v) \in Worlds /\ Emptied(v).house = v.house /\ Emptied(v).inHouse = {}
BY DEF Emptied, Worlds

LEMMA PairType ==
  ASSUME NEW w \in Pairs, NEW v \in Worlds
  PROVE  /\ [w EXCEPT !.now = v] \in Pairs /\ [w EXCEPT !.now = v].now = v
         /\ [w EXCEPT !.now = v].db = w.db
         /\ [w EXCEPT !.db = v] \in Pairs /\ [w EXCEPT !.db = v].db = v
         /\ [w EXCEPT !.db = v].now = w.now
BY DEF Pairs

LEMMA SavePlayerType ==
  ASSUME NEW w \in Pairs, NEW p \in Players
  PROVE  /\ SavePlayer(w, p) \in Pairs
         /\ SavePlayer(w, p).now = w.now
         /\ SavePlayer(w, p).db.house = w.db.house
<1>1. w.now.player[p] \in Accounts /\ w.db \in Worlds
  BY DEF Pairs, Worlds
<1> DEFINE new == WithAccount(w.db, p, w.now.player[p])
<1>2. new \in Worlds /\ new.house = w.db.house
  BY <1>1, WithAccountType
<1>3. SavePlayer(w, p) = [w EXCEPT !.db = new]
  BY DEF SavePlayer
<1> HIDE DEF new
<1>4. /\ [w EXCEPT !.db = new] \in Pairs /\ [w EXCEPT !.db = new].db = new
      /\ [w EXCEPT !.db = new].now = w.now
  BY <1>2, PairType
<1>5. QED
  BY <1>2, <1>3, <1>4

LEMMA SaveHouseType ==
  ASSUME NEW w \in Pairs
  PROVE  /\ SaveHouse(w) \in Pairs
         /\ SaveHouse(w).now = w.now
         /\ SaveHouse(w).db.house = w.now.house
<1>1. w.now.house \in Deeds /\ w.db \in Worlds
  BY DEF Pairs, Worlds
<1> DEFINE new == WithHouse(w.db, w.now.house)
<1>2. new \in Worlds /\ new.house = w.now.house
  BY <1>1, WithHouseType
<1>3. SaveHouse(w) = [w EXCEPT !.db = new]
  BY DEF SaveHouse
<1> HIDE DEF new
<1>4. /\ [w EXCEPT !.db = new] \in Pairs /\ [w EXCEPT !.db = new].db = new
      /\ [w EXCEPT !.db = new].now = w.now
  BY <1>2, PairType
<1>5. QED
  BY <1>2, <1>3, <1>4

LEMMA ToDepotType ==
  ASSUME NEW w \in Pairs, w.now.house.owner \in Players
  PROVE  /\ ToDepot(w) \in Pairs
         /\ ToDepot(w).now.house = w.now.house
         /\ ToDepot(w).db.house = w.db.house
         /\ ToDepot(w).now.inHouse = {}
<1> DEFINE owner == w.now.house.owner
           richer == [w.now.player[owner] EXCEPT !.things = @ \union w.now.inHouse]
           full == WithAccount(w.now, owner, richer)
           new == Emptied(full)
           moved == [w EXCEPT !.now = new]
<1>1. w.now \in Worlds /\ richer \in Accounts
  <2>1. w.now \in Worlds /\ w.now.player[owner] \in Accounts /\ w.now.inHouse \in SUBSET Things
    BY DEF Pairs, Worlds
  <2> HIDE DEF owner
  <2>2. QED
    BY <2>1 DEF Accounts
<1>6. full \in Worlds /\ full.house = w.now.house
  <2> HIDE DEF richer
  <2>1. QED
    BY <1>1, WithAccountType
<1>2. new \in Worlds /\ new.house = w.now.house /\ new.inHouse = {}
  <2> HIDE DEF full
  <2>1. QED
    BY <1>6, EmptiedType
<1>4. ToDepot(w) = IF owner \in online THEN moved ELSE SavePlayer(moved, owner)
  BY DEF ToDepot
<1> HIDE DEF new
<1>3. moved \in Pairs /\ moved.now = new /\ moved.db = w.db
  BY <1>2, PairType
<1> HIDE DEF moved
<1>5. QED
  BY <1>2, <1>3, <1>4, SavePlayerType

\* What a change of owner leaves.
LEMMA SetOwnerExType ==
  ASSUME NEW w \in Pairs, NEW p \in Players \union {None}, today \in 1 .. MaxDay
  PROVE  /\ SetOwnerEx(w, p) \in Pairs
         /\ SetOwnerEx(w, p).now.house = Deed(w.now.house, p)
         /\ SetOwnerEx(w, p).db.house = Deed(w.now.house, p)
         /\ SetOwnerEx(w, p).now.inHouse =
              IF w.now.house.owner = None THEN w.now.inHouse ELSE {}
<1> DEFINE left == IF w.now.house.owner = None THEN w ELSE ToDepot(w)
           new == WithHouse(left.now, Deed(left.now.house, p))
<1>1. left \in Pairs /\ left.now.house = w.now.house
      /\ left.now.inHouse = IF w.now.house.owner = None THEN w.now.inHouse ELSE {}
  <2>1. w.now.house.owner \in Players \union {None}
    BY DEF Pairs, Worlds, Deeds
  <2>2. QED
    BY <2>1, ToDepotType
<1>2. Deed(w.now.house, p) \in Deeds
  BY HouseRentAssumption DEF Deed, Deeds, Days, Pairs, Worlds
<1>3. left.now \in Worlds
  BY <1>1 DEF Pairs
<1>4. new \in Worlds /\ new.house = Deed(w.now.house, p) /\ new.inHouse = left.now.inHouse
  BY <1>1, <1>2, <1>3, WithHouseType
<1>6. SetOwnerEx(w, p) = SaveHouse([left EXCEPT !.now = new])
  BY DEF SetOwnerEx
<1> HIDE DEF left, new
<1>5. [left EXCEPT !.now = new] \in Pairs /\ [left EXCEPT !.now = new].now = new
  BY <1>1, <1>4, PairType
<1>7. QED
  BY <1>1, <1>4, <1>5, <1>6, SaveHouseType

LEMMA ForgetType ==
  ASSUME NEW w \in Pairs, NEW p \in Players, NEW copy \in Accounts, NEW b \in BOOLEAN
  PROVE  /\ Forget(w, p, copy, b) \in Pairs
         /\ Forget(w, p, copy, b).now.house = w.now.house
         /\ Forget(w, p, copy, b).db.house = w.db.house
         /\ Forget(w, p, copy, b).now.inHouse = w.now.inHouse
<1> DEFINE keeps == WithAccount(w.now, p, copy)
           drops == WithAccount(w.now, p, w.db.player[p])
<1>1. w.now \in Worlds /\ w.db.player[p] \in Accounts
  BY DEF Pairs, Worlds
<1>2. /\ keeps \in Worlds /\ keeps.house = w.now.house /\ keeps.inHouse = w.now.inHouse
      /\ drops \in Worlds /\ drops.house = w.now.house /\ drops.inHouse = w.now.inHouse
  BY <1>1, WithAccountType
<1> DEFINE kept == [w EXCEPT !.now = keeps]
           dropped == [w EXCEPT !.now = drops]
<1>3. /\ kept \in Pairs /\ kept.now = keeps /\ kept.db = w.db
      /\ dropped \in Pairs /\ dropped.now = drops /\ dropped.db = w.db
  BY <1>2, PairType
<1>4. Forget(w, p, copy, b) = IF p \in online THEN w
                              ELSE IF b THEN SavePlayer(kept, p) ELSE dropped
  BY DEF Forget
<1> HIDE DEF kept, dropped, keeps, drops
<1>5. QED
  BY <1>2, <1>3, <1>4, SavePlayerType

-----------------------------------------------------------------------------
(* The rent collector *)

\* What payHouse may do: nothing, take the rent, warn, or take the house.
Idles(w, r) ==
  /\ r.now.house = w.now.house /\ r.db.house = w.db.house
Charges(w, r) ==
  /\ w.now.house.owner # None
  /\ r.now.house = Paid(w.now.house) /\ r.db.house = w.db.house
Writes(w, r) ==
  /\ w.now.house.owner # None /\ ADayLater(w.now.house) /\ Warns(w.now.house)
  /\ r.now.house = Warned(w.now.house) /\ r.db.house = w.db.house
Takes(w, r) ==
  /\ w.now.house.owner # None
  /\ LosesAtOnce(w) \/ (ADayLater(w.now.house) /\ ~Warns(w.now.house))
  /\ r.now.house = Deed(w.now.house, None) /\ r.db.house = Deed(w.now.house, None)

LEMMA AccountTypes ==
  ASSUME NEW a \in Accounts, today \in 1 .. MaxDay
  PROVE  /\ CanPay(a) => Charged(a) \in Accounts
         /\ [a EXCEPT !.letter = today] \in Accounts
BY HouseRentAssumption DEF CanPay, Charged, Accounts, Days

LEMMA DeedTypes ==
  ASSUME NEW h \in Deeds, today \in 1 .. MaxDay
  PROVE  /\ Paid(h) \in Deeds
         /\ Warns(h) => Warned(h) \in Deeds
<1>1. Paid(h) \in Deeds
  BY HouseRentAssumption, PeriodType DEF Paid, Deeds, Days
<1>2. Warns(h) => Warned(h) \in Deeds
  <2>1. Warns(h) => h.warnings + 1 \in 0 .. 14
    BY PeriodType DEF Warns, Deeds
  <2>2. today \in Days
    BY HouseRentAssumption DEF Days
  <2>3. QED
    BY <2>1, <2>2 DEF Warned, Deeds
<1>3. QED
  BY <1>1, <1>2

LEMMA SettleType ==
  ASSUME NEW w \in Pairs, NEW p \in Players, NEW a \in Accounts, NEW h \in Deeds,
         NEW b \in BOOLEAN
  PROVE  LET new == WithHouse(WithAccount(w.now, p, a), h)
             r == Forget([w EXCEPT !.now = new], p, a, b) IN
         r \in Pairs /\ r.now.house = h /\ r.db.house = w.db.house
<1> DEFINE half == WithAccount(w.now, p, a)
           new == WithHouse(half, h)
           next == [w EXCEPT !.now = new]
<1>1. half \in Worlds
  BY WithAccountType DEF Pairs
<1> HIDE DEF half
<1>2. new \in Worlds /\ new.house = h
  BY <1>1, WithHouseType
<1> HIDE DEF new
<1>3. next \in Pairs /\ next.now = new /\ next.db = w.db
  BY <1>2, PairType
<1> HIDE DEF next
<1>4. LET r == Forget(next, p, a, b) IN
      r \in Pairs /\ r.now.house = h /\ r.db.house = w.db.house
  BY <1>2, <1>3, ForgetType
<1>5. QED
  BY <1>4 DEF next, new, half

LEMMA EvictType ==
  ASSUME NEW w \in Pairs, today \in 1 .. MaxDay, w.now.house.owner \in Players
  PROVE  /\ Evict(w) \in Pairs
         /\ Evict(w).now.house = Deed(w.now.house, None)
         /\ Evict(w).db.house = Deed(w.now.house, None)
<1> DEFINE owner == w.now.house.owner
           copy == w.now.player[owner]
           free == SetOwnerEx(w, None)
<1>1. copy \in Accounts
  BY DEF Pairs, Worlds
<1>2. /\ free \in Pairs /\ free.now.house = Deed(w.now.house, None)
      /\ free.db.house = Deed(w.now.house, None)
  BY SetOwnerExType
<1>3. Evict(w) = Forget(free, owner, copy, FALSE)
  BY DEF Evict
<1> HIDE DEF free, copy
<1>4. LET r == Forget(free, owner, copy, FALSE) IN
      r \in Pairs /\ r.now.house = free.now.house /\ r.db.house = free.db.house
  BY <1>1, <1>2, ForgetType
<1>5. QED
  BY <1>2, <1>3, <1>4

LEMMA PayHouseType ==
  ASSUME NEW w \in Pairs, today \in 1 .. MaxDay
  PROVE  /\ PayHouse(w) \in Pairs
         /\ \/ Idles(w, PayHouse(w)) \/ Charges(w, PayHouse(w))
            \/ Writes(w, PayHouse(w)) \/ Takes(w, PayHouse(w))
<1> DEFINE h == w.now.house
           owner == h.owner
           account == w.now.player[owner]
<1>1. h \in Deeds /\ owner \in Players \union {None}
  BY DEF Pairs, Worlds, Deeds
<1>2. CASE ~Due(h, today)
  BY <1>2 DEF PayHouse, Idles
<1>3. CASE Due(h, today)
  <2>1. owner \in Players /\ owner # None /\ account \in Accounts
    BY <1>1, <1>3, HouseRentAssumption DEF Due, Pairs, Worlds
  <2>2. CASE LosesAtOnce(w)
    BY <1>3, <2>1, <2>2, EvictType DEF PayHouse, Takes
  <2>3. CASE ~LosesAtOnce(w) /\ CanPay(account)
    <3>1. PayHouse(w) = Pays(w)
      BY <1>3, <2>3 DEF PayHouse
    <3>2. Charged(account) \in Accounts /\ Paid(h) \in Deeds
      BY <1>1, <2>1, <2>3, AccountTypes, DeedTypes
    <3> DEFINE a == Charged(account)
               d == Paid(h)
               r == Forget([w EXCEPT !.now = WithHouse(WithAccount(w.now, owner, a), d)], owner, a, FALSE)
    <3>3. Pays(w) = r
      BY DEF Pays
    <3>4. r \in Pairs /\ r.now.house = d /\ r.db.house = w.db.house
      <4> HIDE DEF a, d, owner
      <4>1. a \in Accounts /\ d \in Deeds
        BY <3>2 DEF a, d
      <4>2. QED
        BY <2>1, <4>1, SettleType
    <3> HIDE DEF r
    <3>5. QED
      BY <2>1, <3>1, <3>3, <3>4 DEF Charges
  <2>4. CASE ~LosesAtOnce(w) /\ ~CanPay(account) /\ ~ADayLater(h)
    BY <1>3, <2>4 DEF PayHouse, Idles
  <2>5. CASE ~LosesAtOnce(w) /\ ~CanPay(account) /\ ADayLater(h) /\ Warns(h)
    <3>1. PayHouse(w) = Warn(w)
      BY <1>3, <2>5 DEF PayHouse
    <3>2. [account EXCEPT !.letter = today] \in Accounts /\ Warned(h) \in Deeds
      BY <1>1, <2>1, <2>5, AccountTypes, DeedTypes
    <3> DEFINE a == [account EXCEPT !.letter = today]
               d == Warned(h)
               r == Forget([w EXCEPT !.now = WithHouse(WithAccount(w.now, owner, a), d)], owner, a, TRUE)
    <3>3. Warn(w) = r
      BY DEF Warn
    <3>4. r \in Pairs /\ r.now.house = d /\ r.db.house = w.db.house
      <4> HIDE DEF a, d, owner
      <4>1. a \in Accounts /\ d \in Deeds
        BY <3>2 DEF a, d
      <4>2. QED
        BY <2>1, <4>1, SettleType
    <3> HIDE DEF r
    <3>5. QED
      BY <2>1, <2>5, <3>1, <3>3, <3>4 DEF Writes
  <2>6. CASE ~LosesAtOnce(w) /\ ~CanPay(account) /\ ADayLater(h) /\ ~Warns(h)
    BY <1>3, <2>1, <2>6, EvictType DEF PayHouse, Takes
  <2>7. QED
    BY <2>2, <2>3, <2>4, <2>5, <2>6
<1>4. QED
  BY <1>2, <1>3

-----------------------------------------------------------------------------
(* The invariant *)

\* As long as a house has an owner: he was warned at most once for each day
\* between the day he got it and the day of the last warning.
Patience(h) ==
  h.owner # None =>
    since <= h.lastWarning /\ h.lastWarning <= today /\ h.warnings <= h.lastWarning - since
Clean(h) == h.owner = None => h = NoDeed
Fair(h) == Patience(h) /\ Clean(h)

IInv ==
  /\ TypeOK
  /\ OwnerIsSaved
  /\ Fair(world.house) /\ Fair(saved.house)

LEMMA BothType ==
  ASSUME TypeOK
  PROVE  Both \in Pairs /\ Both.now = world /\ Both.db = saved
BY DEF Both, TypeOK, Pairs

\* A new owner has all his time, whoever was the owner before.
LEMMA DeedIsFair ==
  ASSUME NEW h \in Deeds, Clean(h), NEW p \in Players \union {None},
         today \in 1 .. MaxDay, h.owner # p
  PROVE  LET d == Deed(h, p) IN
         /\ d.owner = p
         /\ p # None => d.warnings = 0 /\ d.lastWarning = today
         /\ p = None => d = NoDeed
<1>1. CASE h.owner = None
  BY <1>1, HouseRentAssumption DEF Clean, Deed, NoDeed
<1>2. CASE h.owner # None
  BY <1>2, HouseRentAssumption DEF Deed, NoDeed
<1>3. QED
  BY <1>1, <1>2

\* The steps that change the owner.
LEMMA OwnerStep ==
  ASSUME IInv, NEW p \in Players \union {None}, world.house.owner # p,
         world' \in Worlds, saved' \in Worlds,
         world'.house = Deed(world.house, p), saved'.house = Deed(world.house, p),
         Since, UNCHANGED <<today, lapsed>>, online' \subseteq Players
  PROVE  IInv'
<1>1. world.house \in Deeds /\ today \in 1 .. MaxDay /\ Clean(world.house)
  BY DEF IInv, TypeOK, Worlds, Fair
<1> DEFINE d == Deed(world.house, p)
<1>2. /\ d.owner = p
      /\ p # None => d.warnings = 0 /\ d.lastWarning = today
      /\ p = None => d = NoDeed
  BY <1>1, DeedIsFair
<1> HIDE DEF d
<1>3. world'.house = d /\ saved'.house = d
  BY DEF d
<1>4. since' = IF p = None THEN 0 ELSE today
  BY <1>2, <1>3 DEF Since
<1>5. TypeOK'
  <2>1. since' \in 0 .. MaxDay
    BY <1>1, <1>4, HouseRentAssumption
  <2>2. QED
    BY <2>1 DEF IInv, TypeOK
<1>6. Fair(world.house)' /\ Fair(saved.house)'
  BY <1>1, <1>2, <1>3, <1>4, HouseRentAssumption DEF Fair, Patience, Clean
<1>7. QED
  BY <1>3, <1>5, <1>6 DEF IInv, OwnerIsSaved

\* The steps that leave owner and warnings as they are, in each copy.
LEMMA SameOwnerStep ==
  ASSUME IInv, world' \in Worlds, saved' \in Worlds,
         \/ world'.house = world.house
         \/ world'.house = Paid(world.house) /\ world.house.owner # None
         \/ world'.house = saved.house,
         \/ saved'.house = saved.house
         \/ saved'.house = world'.house,
         since' = since, today' \in {today, today + 1}, today' \in 1 .. MaxDay,
         lapsed' \subseteq Players, online' \subseteq Players
  PROVE  IInv'
<1>1. TypeOK'
  BY DEF IInv, TypeOK
<1>2. world.house \in Deeds /\ saved.house \in Deeds /\ today \in Nat /\ since \in Nat
  BY DEF IInv, TypeOK, Worlds
<1>3. Fair(world.house)' /\ world'.house.owner = world.house.owner
  <2>1. CASE world'.house = world.house
    BY <1>2, <2>1 DEF IInv, Fair, Patience, Clean, Deeds, Days
  <2>2. CASE world'.house = Paid(world.house) /\ world.house.owner # None
    BY <1>2, <2>2 DEF IInv, Fair, Patience, Clean, Paid, Deeds, Days
  <2>3. CASE world'.house = saved.house
    BY <1>2, <2>3 DEF IInv, Fair, Patience, Clean, Deeds, Days, OwnerIsSaved
  <2>4. QED
    BY <2>1, <2>2, <2>3
<1>4. Fair(saved.house)' /\ saved'.house.owner = saved.house.owner
  <2>1. CASE saved'.house = saved.house
    BY <1>2, <2>1 DEF IInv, Fair, Patience, Clean, Deeds, Days
  <2>2. CASE saved'.house = world'.house
    BY <1>3, <2>2 DEF IInv, Fair, Patience, Clean, OwnerIsSaved
  <2>3. QED
    BY <2>1, <2>2
<1>5. QED
  BY <1>1, <1>3, <1>4 DEF IInv, OwnerIsSaved

LEMMA InitIInv == ASSUME Init PROVE IInv
<1>1. PICK holds \in [Things -> Players] :
        world = [house |-> NoDeed, inHouse |-> {},
                 player |-> [p \in Players |->
                   [bank |-> 0, depot |-> 0, letter |-> 0,
                    things |-> {t \in Things : holds[t] = p}]]]
  BY DEF Init
<1>2. NoDeed \in Deeds
  BY HouseRentAssumption DEF NoDeed, Deeds, Days
<1>3. \A p \in Players : [bank |-> 0, depot |-> 0, letter |-> 0,
                          things |-> {t \in Things : holds[t] = p}] \in Accounts
  BY HouseRentAssumption DEF Accounts, Days
<1>4. world \in Worlds
  BY <1>1, <1>2, <1>3 DEF Worlds
<1>5. world.house = NoDeed /\ saved = world
  BY <1>1 DEF Init
<1>6. TypeOK
  BY <1>4, HouseRentAssumption DEF Init, TypeOK
<1>7. Fair(world.house) /\ Fair(saved.house)
  BY <1>5 DEF Fair, Patience, Clean, NoDeed
<1>8. QED
  BY <1>5, <1>6, <1>7 DEF IInv, OwnerIsSaved

\* What payHouse does to both copies, as a step.
LEMMA CollectStep ==
  ASSUME IInv, NEW r \in Pairs, r = PayHouse(Both),
         world' = r.now, saved' = r.db \/ saved' = world',
         Since, UNCHANGED <<today, lapsed, online>>
  PROVE  IInv'
<1>1. Both \in Pairs /\ Both.now = world /\ Both.db = saved /\ today \in 1 .. MaxDay
  BY BothType DEF IInv, TypeOK
<1>2. world' \in Worlds /\ saved' \in Worlds /\ online' \subseteq Players
      /\ lapsed' \subseteq Players
  BY DEF Pairs, IInv, TypeOK
<1>3. Idles(Both, r) \/ Charges(Both, r) \/ Writes(Both, r) \/ Takes(Both, r)
  BY <1>1, PayHouseType
<1>4. CASE Idles(Both, r) \/ Charges(Both, r)
  <2>1. /\ \/ world'.house = world.house
           \/ world'.house = Paid(world.house) /\ world.house.owner # None
        /\ saved'.house = saved.house \/ saved'.house = world'.house
    BY <1>1, <1>4 DEF Idles, Charges
  <2>2. since' = since
    BY <2>1 DEF Since, Paid, IInv, TypeOK, Worlds, Deeds
  <2>3. QED
    BY <1>1, <1>2, <2>1, <2>2, SameOwnerStep
<1>5. CASE Writes(Both, r)
  <2>1. /\ world'.house = Warned(world.house) /\ world.house.owner # None
        /\ ADayLater(world.house)
        /\ saved'.house = saved.house \/ saved'.house = world'.house
    BY <1>1, <1>5 DEF Writes
  <2>2. world.house \in Deeds /\ saved.house \in Deeds /\ since \in Nat /\ today \in Nat
    BY DEF IInv, TypeOK, Worlds
  <2>3. /\ world'.house.owner = world.house.owner
        /\ world'.house.warnings = world.house.warnings + 1
        /\ world'.house.lastWarning = today
    BY <2>1, <2>2 DEF Warned, Deeds
  <2>4. since' = since /\ TypeOK'
    BY <1>2, <2>3 DEF Since, IInv, TypeOK
  <2>5. Fair(world.house)'
    BY <2>1, <2>2, <2>3, <2>4 DEF IInv, Fair, Patience, Clean, ADayLater, Deeds, Days
  <2>6. Fair(saved.house)' /\ saved'.house.owner = world'.house.owner
    <3>1. CASE saved'.house = saved.house
      BY <2>2, <2>3, <2>4, <3>1 DEF IInv, Fair, Patience, Clean, OwnerIsSaved, Deeds, Days
    <3>2. CASE saved'.house = world'.house
      BY <2>5, <3>2 DEF Fair, Patience, Clean
    <3>3. QED
      BY <2>1, <3>1, <3>2
  <2>7. QED
    BY <2>4, <2>5, <2>6 DEF IInv, OwnerIsSaved
<1>6. CASE Takes(Both, r)
  <2>1. /\ world.house.owner # None
        /\ world'.house = Deed(world.house, None) /\ saved'.house = Deed(world.house, None)
    BY <1>1, <1>6 DEF Takes
  <2>2. QED
    BY <1>2, <2>1, OwnerStep
<1>7. QED
  BY <1>3, <1>4, <1>5, <1>6

LEMMA NextIInv == ASSUME IInv, [Next]_vars PROVE IInv'
<1>1. Both \in Pairs /\ Both.now = world /\ Both.db = saved /\ today \in 1 .. MaxDay
      /\ online \subseteq Players /\ lapsed \subseteq Players
      /\ world \in Worlds /\ saved \in Worlds /\ MaxDay \in Nat
  BY BothType, HouseRentAssumption DEF IInv, TypeOK
<1>2. ASSUME NEW p \in Players, Login(p) PROVE IInv'
  BY <1>1, <1>2, SameOwnerStep DEF Login
<1>3. ASSUME NEW p \in Players, Logout(p) PROVE IInv'
  <2>1. LET r == SavePlayer(Both, p) IN
        r \in Pairs /\ r.now = world /\ r.db.house = saved.house
    BY <1>1, SavePlayerType
  <2>2. world' = world /\ saved' \in Worlds /\ saved'.house = saved.house
    BY <1>3, <2>1 DEF Logout, Becomes, Pairs
  <2>3. online' \subseteq Players /\ today' = today /\ since' = since /\ lapsed' = lapsed
    BY <1>1, <1>3 DEF Logout
  <2>4. QED
    BY <1>1, <2>2, <2>3, SameOwnerStep
<1>4. ASSUME NEW p \in Players, Earn(p) PROVE IInv'
  <2>1. world' \in Worlds /\ world'.house = world.house
    <3>1. world.player[p] \in Accounts /\ world.player \in [Players -> Accounts]
      BY <1>1 DEF Worlds
    <3>2. Coins(world.player[p]) < MaxCoins =>
            /\ [world.player[p] EXCEPT !.bank = @ + 1] \in Accounts
            /\ [world.player[p] EXCEPT !.depot = @ + 1] \in Accounts
      BY <3>1, HouseRentAssumption DEF Coins, Accounts
    <3>3. PICK a \in Accounts : world' = [world EXCEPT !.player = [@ EXCEPT ![p] = a]]
      BY <1>1, <1>4, <3>1, <3>2 DEF Earn, Worlds
    <3>4. QED
      BY <1>1, <3>3 DEF Worlds
  <2>2. QED
    BY <1>1, <1>4, <2>1, SameOwnerStep DEF Earn
<1>5. ASSUME NEW p \in Players, Buy(p) PROVE IInv'
  <2>1. LET r == SetOwnerEx(Both, p) IN
        r \in Pairs /\ r.now.house = Deed(world.house, p)
        /\ r.db.house = Deed(world.house, p)
    BY <1>1, SetOwnerExType
  <2>2. /\ world' \in Worlds /\ world'.house = Deed(world.house, p)
        /\ saved' \in Worlds /\ saved'.house = Deed(world.house, p)
    BY <1>5, <2>1 DEF Buy, Becomes, Pairs
  <2>3. QED
    BY <1>1, <1>5, <2>2, OwnerStep, HouseRentAssumption DEF Buy
<1>6. ASSUME NEW p \in Players, StartSale(p) PROVE IInv'
  <2>1. world.player[p] \in Accounts /\ world.house \in Deeds
    BY <1>1 DEF Worlds
  <2>2. Charged(world.player[p]) \in Accounts /\ Paid(world.house) \in Deeds
    BY <1>1, <1>6, <2>1, AccountTypes, DeedTypes DEF StartSale
  <2>3. world' \in Worlds /\ world'.house = Paid(world.house)
    BY <1>1, <1>6, <2>2 DEF StartSale, Worlds
  <2>4. world.house.owner # None
    BY <1>6, HouseRentAssumption DEF StartSale
  <2>5. QED
    BY <1>1, <1>6, <2>3, <2>4, SameOwnerStep DEF StartSale
<1>7. ASSUME NEW p \in Players, Lapse(p) PROVE IInv'
  BY <1>1, <1>7, SameOwnerStep DEF Lapse
<1>8. ASSUME NEW p \in Players, NEW t \in Things, Furnish(p, t) PROVE IInv'
  <2>1. world' \in Worlds /\ world'.house = world.house
    <3>1. world.player[p] \in Accounts /\ world.player \in [Players -> Accounts]
      BY <1>1 DEF Worlds
    <3>2. /\ [world.player[p] EXCEPT !.things = @ \ {t}] \in Accounts
          /\ [world.player[p] EXCEPT !.things = @ \union {t}] \in Accounts
      BY <3>1 DEF Accounts
    <3>3. ASSUME NEW a \in Accounts, NEW s \in SUBSET Things,
                 world' = [world EXCEPT !.player[p] = a, !.inHouse = s]
          PROVE  world' \in Worlds /\ world'.house = world.house
      BY <1>1, <3>3 DEF Worlds
    <3>4. CASE world' = [world EXCEPT !.player[p].things = @ \ {t},
                                      !.inHouse = @ \union {t}]
      <4>1. /\ world.inHouse \union {t} \in SUBSET Things
            /\ world' = [world EXCEPT !.player[p] = [world.player[p] EXCEPT !.things = @ \ {t}],
                                      !.inHouse = world.inHouse \union {t}]
        BY <1>1, <3>1, <3>4 DEF Worlds
      <4>2. QED
        BY <3>2, <3>3, <4>1
    <3>5. CASE world' = [world EXCEPT !.player[p].things = @ \union {t},
                                      !.inHouse = @ \ {t}]
      <4>1. /\ world.inHouse \ {t} \in SUBSET Things
            /\ world' = [world EXCEPT !.player[p] = [world.player[p] EXCEPT !.things = @ \union {t}],
                                      !.inHouse = world.inHouse \ {t}]
        BY <1>1, <3>1, <3>5 DEF Worlds
      <4>2. QED
        BY <3>2, <3>3, <4>1
    <3>6. QED
      BY <1>8, <3>4, <3>5 DEF Furnish
  <2>2. QED
    BY <1>1, <1>8, <2>1, SameOwnerStep DEF Furnish
<1>9. ASSUME NEW p \in Players, NEW q \in Players, Sell(p, q) PROVE IInv'
  <2>1. LET r == SetOwnerEx(Both, q) IN
        r \in Pairs /\ r.now.house = Deed(world.house, q)
        /\ r.db.house = Deed(world.house, q)
    BY <1>1, SetOwnerExType
  <2>2. /\ world' \in Worlds /\ world'.house = Deed(world.house, q)
        /\ saved' \in Worlds /\ saved'.house = Deed(world.house, q)
    BY <1>9, <2>1 DEF Sell, Becomes, Pairs
  <2>3. QED
    BY <1>1, <1>9, <2>2, OwnerStep DEF Sell
<1>10. CASE PayHouses
  <2>1. PayHouse(Both) \in Pairs
    BY <1>1, PayHouseType
  <2>2. QED
    BY <1>10, <2>1, CollectStep DEF PayHouses, Becomes
<1>11. CASE Save
  BY <1>1, <1>11, SameOwnerStep DEF Save, SaveGameState
<1>12. CASE Shutdown
  <2>1. PayHouse(Both) \in Pairs
    BY <1>1, PayHouseType
  <2>2. QED
    BY <1>12, <2>1, CollectStep DEF Shutdown
<1>13. CASE Crash
  BY <1>1, <1>13, SameOwnerStep DEF Crash
<1>14. CASE NextDay
  BY <1>1, <1>14, SameOwnerStep DEF NextDay
<1>15. CASE UNCHANGED vars
  BY <1>1, <1>15, SameOwnerStep DEF vars
<1>16. QED
  BY <1>2, <1>3, <1>4, <1>5, <1>6, <1>7, <1>8, <1>9, <1>10, <1>11, <1>12, <1>13,
     <1>14, <1>15 DEF Next

THEOREM Invariance == Spec => []IInv
BY InitIInv, NextIInv, PTL DEF Spec

\* Every run's invariants about the deed, for every instance.
THEOREM TypeCorrect == Spec => []TypeOK
<1>1. IInv => TypeOK
  BY DEF IInv
<1>2. QED
  BY <1>1, Invariance, PTL

\* No crash gives a house back or takes one.
THEOREM OwnersAreSaved == Spec => []OwnerIsSaved
<1>1. IInv => OwnerIsSaved
  BY DEF IInv
<1>2. QED
  BY <1>1, Invariance, PTL

\* Nobody inherits warnings, or time that is paid for.
THEOREM FreeHousesAreClean == Spec => []FreeIsClean
<1>1. IInv => FreeIsClean
  BY DEF IInv, Fair, Clean, FreeIsClean
<1>2. QED
  BY <1>1, Invariance, PTL

\* A step that takes the house from a debtor comes from payHouse.
LEMMA EvictionIsTaking ==
  ASSUME IInv, IInv', [Next]_vars, EvictsDebtor
  PROVE  /\ world.house.owner # None /\ ADayLater(world.house) /\ ~Warns(world.house)
<1>1. Both \in Pairs /\ Both.now = world /\ Both.db = saved /\ today \in 1 .. MaxDay
      /\ world \in Worlds /\ saved \in Worlds
  BY BothType DEF IInv, TypeOK
<1>2. world.house.owner # None /\ world'.house.owner = None /\ ~LosesAtOnce(Both)
  BY DEF EvictsDebtor
<1>3. world.house # world'.house /\ world'.house # saved.house
  BY <1>2 DEF IInv, OwnerIsSaved
<1>4. ASSUME world' = PayHouse(Both).now
      PROVE  ADayLater(world.house) /\ ~Warns(world.house)
  <2>1. \/ Idles(Both, PayHouse(Both)) \/ Charges(Both, PayHouse(Both))
        \/ Writes(Both, PayHouse(Both)) \/ Takes(Both, PayHouse(Both))
    BY <1>1, PayHouseType
  <2>2. ~Idles(Both, PayHouse(Both))
    BY <1>1, <1>3, <1>4 DEF Idles
  <2>3. world.house \in Deeds
    BY <1>1 DEF Worlds
  <2>4. Paid(world.house).owner = world.house.owner
        /\ Warned(world.house).owner = world.house.owner
    BY <2>3 DEF Paid, Warned, Deeds
  <2>5. ~Charges(Both, PayHouse(Both)) /\ ~Writes(Both, PayHouse(Both))
    BY <1>1, <1>2, <1>4, <2>4 DEF Charges, Writes
  <2>6. QED
    BY <1>1, <1>2, <2>1, <2>2, <2>5 DEF Takes
<1>5. ASSUME NEW p \in Players, NEW q \in Players,
             Login(p) \/ Logout(p) \/ Earn(p) \/ StartSale(p) \/ Lapse(p) \/ Buy(p) \/ Sell(p, q)
      PROVE  FALSE
  <2>1. CASE Login(p) \/ Lapse(p)
    BY <1>3, <2>1 DEF Login, Lapse
  <2>2. CASE Logout(p)
    BY <1>1, <1>3, <2>2, SavePlayerType DEF Logout, Becomes
  <2>3. CASE Earn(p)
    BY <1>1, <1>3, <2>3 DEF Earn, Worlds
  <2>4. CASE StartSale(p)
    BY <1>1, <1>2, <2>4 DEF StartSale, Worlds, Paid, Deeds
  <2>5. CASE Buy(p)
    BY <1>2, <2>5 DEF Buy
  <2>6. CASE Sell(p, q)
    <3>1. SetOwnerEx(Both, q).now.house = Deed(world.house, q)
      BY <1>1, SetOwnerExType
    <3>2. world'.house.owner = q
      BY <2>6, <3>1 DEF Sell, Becomes, Deed
    <3>3. QED
      BY <1>2, <3>2, HouseRentAssumption
  <2>7. QED
    BY <1>5, <2>1, <2>2, <2>3, <2>4, <2>5, <2>6
<1>6. ASSUME NEW p \in Players, NEW t \in Things, Furnish(p, t) PROVE FALSE
  BY <1>1, <1>3, <1>6 DEF Furnish, Worlds
<1>7. ~Save /\ ~Crash /\ ~NextDay /\ ~UNCHANGED vars
  BY <1>3 DEF Save, Crash, NextDay, vars
<1>8. CASE PayHouses
  BY <1>2, <1>4, <1>8 DEF PayHouses, Becomes
<1>9. CASE Shutdown
  BY <1>2, <1>4, <1>9 DEF Shutdown
<1>10. QED
  BY <1>5, <1>6, <1>7, <1>8, <1>9 DEF Next

\* No debtor loses his house before as many days have gone as he may be
\* warned.
THEOREM DebtorsHaveTime == Spec => DebtorHasTime
<1>1. ASSUME IInv, IInv', [Next]_vars, EvictsDebtor
      PROVE  today >= since + WarningsLimit
  <2>1. world.house.owner # None /\ ADayLater(world.house) /\ ~Warns(world.house)
    BY <1>1, EvictionIsTaking
  <2>2. world.house \in Deeds /\ today \in Nat /\ since \in Nat /\ WarningsLimit \in Nat
    BY <1>1, PeriodType DEF IInv, TypeOK, Worlds
  <2>3. QED
    BY <1>1, <2>1, <2>2 DEF IInv, Fair, Patience, ADayLater, Warns, Deeds, Days
<1>2. IInv /\ IInv' /\ [Next]_vars => [EvictsDebtor => today >= since + WarningsLimit]_vars
  BY <1>1
<1>3. QED
  BY <1>2, Invariance, PTL DEF Spec, DebtorHasTime

-----------------------------------------------------------------------------
(* The household                                                           *)

\* An offline player is in the process as he is in the database, and letters only get
\* newer.
Settled(w) ==
  /\ \A p \in Players \ online : w.now.player[p] = w.db.player[p]
  /\ \A p \in Players :
       w.db.player[p].letter <= w.now.player[p].letter /\ w.now.player[p].letter <= today

\* The warnings that are counted came as letters.
Lettered(v) == v.house.warnings > 0 => v.player[v.house.owner].letter >= v.house.lastWarning

\* Every thing is in the house, or with one player.
Kept(v) ==
  \A t \in Things :
    \/ t \in v.inHouse /\ \A p \in Players : t \notin v.player[p].things
    \/ /\ t \notin v.inHouse
       /\ \E p \in Players : /\ t \in v.player[p].things
                             /\ \A q \in Players \ {p} : t \notin v.player[q].things

\* The database must have letters, and the offline players, as the process does: a crash
\* makes one the other, and payHouse works on copies.
HInv ==
  /\ Settled(Both) /\ Lettered(world) /\ Lettered(saved)
  /\ ~CanCrash => FreeIsEmpty /\ Kept(world)

\* Things stay where they are; or all that is in the house goes to its owner.
Alike(v, u) ==
  u.inHouse = v.inHouse /\ \A p \in Players : u.player[p].things = v.player[p].things
MovesOut(v, u) ==
  /\ v.house.owner \in Players /\ u.inHouse = {}
  /\ \A p \in Players : u.player[p].things = IF p = v.house.owner
                          THEN v.player[p].things \union v.inHouse ELSE v.player[p].things

LEMMA MovesKeep ==
  ASSUME NEW v \in Worlds, NEW u \in Worlds, Kept(v), Alike(v, u) \/ MovesOut(v, u)
  PROVE  Kept(u)
<1>1. CASE Alike(v, u)
  BY <1>1 DEF Alike, Kept
<1>2. CASE MovesOut(v, u)
  <2>1. SUFFICES ASSUME NEW t \in Things
                 PROVE  \E p \in Players : /\ t \in u.player[p].things
                                           /\ \A q \in Players \ {p} : t \notin u.player[q].things
    BY <1>2 DEF Kept, MovesOut
  <2>2. CASE t \in v.inHouse /\ \A p \in Players : t \notin v.player[p].things
    BY <1>2, <2>2 DEF MovesOut
  <2>3. CASE /\ t \notin v.inHouse
             /\ \E p \in Players : /\ t \in v.player[p].things
                                   /\ \A q \in Players \ {p} : t \notin v.player[q].things
    <3>1. PICK p \in Players : /\ t \in v.player[p].things
                              /\ \A q \in Players \ {p} : t \notin v.player[q].things
      BY <2>3
    <3>2. t \in u.player[p].things
      BY <1>2, <3>1 DEF MovesOut
    <3>3. \A q \in Players \ {p} : t \notin u.player[q].things
      BY <1>2, <2>3, <3>1 DEF MovesOut
    <3>4. QED
      BY <3>2, <3>3
  <2>4. QED
    BY <2>2, <2>3 DEF Kept
<1>3. QED
  BY <1>1, <1>2

LEMMA WithAccountPlayers ==
  ASSUME NEW v \in Worlds, NEW p \in Players, NEW a \in Accounts
  PROVE  /\ WithAccount(v, p, a).player[p] = a
         /\ \A q \in Players \ {p} : WithAccount(v, p, a).player[q] = v.player[q]
BY DEF WithAccount, Worlds

LEMMA SavePlayerPlayers ==
  ASSUME NEW w \in Pairs, NEW p \in Players
  PROVE  /\ SavePlayer(w, p).db.player[p] = w.now.player[p]
         /\ \A q \in Players \ {p} : SavePlayer(w, p).db.player[q] = w.db.player[q]
<1>1. w.now.player[p] \in Accounts /\ w.db \in Worlds
  BY DEF Pairs, Worlds
<1>2. SavePlayer(w, p).db = WithAccount(w.db, p, w.now.player[p])
  BY DEF SavePlayer, Pairs
<1>3. QED
  BY <1>1, <1>2, WithAccountPlayers

LEMMA SavePlayerSettles ==
  ASSUME NEW w \in Pairs, NEW p \in Players,
         \A q \in Players \ (online \union {p}) : w.now.player[q] = w.db.player[q],
         \A q \in Players :
           w.db.player[q].letter <= w.now.player[q].letter /\ w.now.player[q].letter <= today
  PROVE  Settled(SavePlayer(w, p))
<1>1. \A q \in Players : w.now.player[q].letter \in Nat
  BY DEF Pairs, Worlds, Accounts, Days
<1> DEFINE v == SavePlayer(w, p)
<1>2. /\ v.now = w.now /\ v.db.player[p] = w.now.player[p]
      /\ \A q \in Players \ {p} : v.db.player[q] = w.db.player[q]
  BY SavePlayerType, SavePlayerPlayers
<1> HIDE DEF v
<1>3. \A q \in Players \ online : v.now.player[q] = v.db.player[q]
  BY <1>2
<1>4. ASSUME NEW q \in Players
      PROVE  v.db.player[q].letter <= v.now.player[q].letter /\ v.now.player[q].letter <= today
  <2>1. CASE q = p
    <3> DEFINE n == w.now.player[p].letter
    <3>1. n \in Nat /\ n <= today
      BY <1>1
    <3> HIDE DEF n
    <3>2. n <= n
      BY <3>1
    <3>3. QED
      BY <1>2, <2>1, <3>1, <3>2 DEF n
  <2>2. CASE q # p
    BY <1>2, <2>2
  <2>3. QED
    BY <2>1, <2>2
<1>5. QED
  BY <1>3, <1>4 DEF Settled, v

\* Where the furniture goes when the owner changes.
LEMMA ToDepotMoves ==
  ASSUME NEW w \in Pairs, w.now.house.owner \in Players, Settled(w)
  PROVE  Settled(ToDepot(w)) /\ MovesOut(w.now, ToDepot(w).now)
<1> DEFINE owner == w.now.house.owner
           richer == [w.now.player[owner] EXCEPT !.things = @ \union w.now.inHouse]
           full == WithAccount(w.now, owner, richer)
           new == Emptied(full)
           moved == [w EXCEPT !.now = new]
<1>1. /\ w.now \in Worlds /\ richer \in Accounts
      /\ richer.things = w.now.player[owner].things \union w.now.inHouse
      /\ richer.letter = w.now.player[owner].letter
  <2>1. w.now \in Worlds /\ w.now.player[owner] \in Accounts /\ w.now.inHouse \in SUBSET Things
    BY DEF Pairs, Worlds
  <2> HIDE DEF owner
  <2>2. QED
    BY <2>1 DEF Accounts
<1>2. /\ full \in Worlds /\ full.player[owner] = richer
      /\ \A q \in Players \ {owner} : full.player[q] = w.now.player[q]
  <2> HIDE DEF richer
  <2>1. QED
    BY <1>1, WithAccountType, WithAccountPlayers
<1>3. new \in Worlds /\ new.inHouse = {} /\ new.player = full.player
  <2> HIDE DEF full
  <2>1. QED
    BY <1>2, EmptiedType DEF Emptied, Worlds
<1>4. ToDepot(w) = IF owner \in online THEN moved ELSE SavePlayer(moved, owner)
  BY DEF ToDepot
<1> HIDE DEF new, full
<1>5. moved \in Pairs /\ moved.now = new /\ moved.db = w.db
  BY <1>3, PairType
<1> HIDE DEF moved, richer
<1>6. MovesOut(w.now, moved.now)
  BY <1>1, <1>2, <1>3, <1>5 DEF MovesOut
<1>7. \A q \in Players : /\ moved.db.player[q].letter <= moved.now.player[q].letter
                         /\ moved.now.player[q].letter <= today
  BY <1>1, <1>2, <1>3, <1>5 DEF Settled
<1>8. \A q \in Players \ (online \union {owner}) : moved.now.player[q] = moved.db.player[q]
  BY <1>2, <1>3, <1>5 DEF Settled
<1>9. CASE owner \in online
  BY <1>4, <1>6, <1>7, <1>8, <1>9 DEF Settled
<1>10. CASE owner \notin online
  BY <1>4, <1>5, <1>6, <1>7, <1>8, <1>10, SavePlayerSettles, SavePlayerType
<1>11. QED
  BY <1>9, <1>10

LEMMA SetOwnerExMoves ==
  ASSUME NEW w \in Pairs, NEW p \in Players \union {None}, today \in 1 .. MaxDay,
         Settled(w), Clean(w.now.house), w.now.house.owner # p
  PROVE  LET r == SetOwnerEx(w, p) IN
         /\ Settled(r) /\ Lettered(r.now) /\ Lettered(r.db)
         /\ IF w.now.house.owner = None THEN Alike(w.now, r.now) ELSE MovesOut(w.now, r.now)
<1> DEFINE left == IF w.now.house.owner = None THEN w ELSE ToDepot(w)
           d == Deed(w.now.house, p)
           new == WithHouse(left.now, d)
           r == SetOwnerEx(w, p)
<1>1. w.now.house \in Deeds /\ w.now.house.owner \in Players \union {None}
  BY DEF Pairs, Worlds, Deeds
<1>2. /\ left \in Pairs /\ left.now.house = w.now.house /\ Settled(left)
      /\ IF w.now.house.owner = None THEN Alike(w.now, left.now)
         ELSE MovesOut(w.now, left.now)
  <2>1. CASE w.now.house.owner = None
    BY <2>1 DEF Alike
  <2>2. CASE w.now.house.owner # None
    BY <1>1, <2>2, ToDepotType, ToDepotMoves
  <2>3. QED
    BY <2>1, <2>2
<1>3. d \in Deeds /\ d.warnings = 0
  BY <1>1, HouseRentAssumption DEF Deed, Deeds, Days, Clean, NoDeed
<1>4. /\ r \in Pairs /\ r.now.house = d /\ r.db.house = d
  BY SetOwnerExType
<1>5. r = SaveHouse([left EXCEPT !.now = new])
  BY <1>2 DEF SetOwnerEx
<1>6. /\ r.now.player = left.now.player /\ r.now.inHouse = left.now.inHouse
      /\ r.db.player = left.db.player
  <2> HIDE DEF left, d
  <2>1. new \in Worlds /\ new.player = left.now.player /\ new.inHouse = left.now.inHouse
    BY <1>2, <1>3 DEF WithHouse, Worlds, Pairs
  <2>2. /\ [left EXCEPT !.now = new] \in Pairs /\ [left EXCEPT !.now = new].now = new
        /\ [left EXCEPT !.now = new].db = left.db
    <3> HIDE DEF new
    <3>1. QED
      BY <1>2, <2>1, PairType
  <2> DEFINE next == [left EXCEPT !.now = new]
  <2>3. SaveHouse(next).now = next.now /\ SaveHouse(next).db.player = next.db.player
    <3> HIDE DEF next
    <3>1. next \in Pairs
      BY <2>2 DEF next
    <3>2. SaveHouse(next).db = WithHouse(next.db, next.now.house)
      BY <3>1 DEF SaveHouse, Pairs
    <3>3. WithHouse(next.db, next.now.house).player = next.db.player
      BY <3>1 DEF WithHouse, Pairs, Worlds
    <3>4. QED
      BY <3>1, <3>2, <3>3, SaveHouseType
  <2>4. QED
    BY <1>5, <2>1, <2>2, <2>3
<1> HIDE DEF left, r, d
<1>7. Settled(r) /\ Lettered(r.now) /\ Lettered(r.db)
  BY <1>2, <1>3, <1>4, <1>6 DEF Settled, Lettered
<1>8. IF w.now.house.owner = None THEN Alike(w.now, r.now) ELSE MovesOut(w.now, r.now)
  BY <1>2, <1>6 DEF Alike, MovesOut
<1>9. QED
  BY <1>7, <1>8 DEF r

-----------------------------------------------------------------------------
(* The rent collector, and the household                                   *)

\* What he does to a household: things stay, or go to the owner who loses the house.
Treats(w, r) ==
  /\ Settled(r) /\ Lettered(r.now) /\ Lettered(r.db)
  /\ \/ Alike(w.now, r.now) /\ r.now.house.owner # None
     \/ MovesOut(w.now, r.now)
     \/ r = w

\* An account and a deed are changed, and the copy of an offline owner is kept or not.
Settles(w, p, a, h, letter, r) ==
  /\ r \in Pairs /\ r.now.house = h /\ r.db.house = w.db.house
  /\ r.now.inHouse = w.now.inHouse
  /\ \A q \in Players \ {p} : /\ r.now.player[q] = w.now.player[q]
                              /\ r.db.player[q] = w.db.player[q]
  /\ p \in online => r.now.player[p] = a /\ r.db.player[p] = w.db.player[p]
  /\ p \notin online /\ letter = TRUE => r.now.player[p] = a /\ r.db.player[p] = a
  /\ p \notin online /\ letter = FALSE =>
       r.now.player[p] = w.db.player[p] /\ r.db.player[p] = w.db.player[p]

LEMMA SettleMeans ==
  ASSUME NEW w \in Pairs, NEW p \in Players, NEW a \in Accounts, NEW h \in Deeds,
         NEW next \in Pairs, next.now = WithHouse(WithAccount(w.now, p, a), h),
         next.db = w.db, NEW b \in BOOLEAN
  PROVE  Settles(w, p, a, h, b, Forget(next, p, a, b))
<1> DEFINE half == WithAccount(w.now, p, a)
           new == WithHouse(half, h)
           r == Forget(next, p, a, b)
<1>1. /\ half \in Worlds /\ half.inHouse = w.now.inHouse /\ half.player[p] = a
      /\ \A q \in Players \ {p} : half.player[q] = w.now.player[q]
  BY WithAccountType, WithAccountPlayers DEF Pairs
<1> HIDE DEF half
<1>2. /\ new \in Worlds /\ new.player = half.player /\ new.inHouse = w.now.inHouse
      /\ new.house = h
  BY <1>1, WithHouseType DEF WithHouse, Worlds
<1>3. next.now = new /\ next.db = w.db
  BY DEF half
<1> HIDE DEF new
<1>4. r \in Pairs /\ r.now.inHouse = w.now.inHouse
  BY <1>2, <1>3, ForgetType
<1>5. r.now.house = h /\ r.db.house = w.db.house
  BY <1>2, <1>3, ForgetType
<1> DEFINE Others == \A q \in Players \ {p} : /\ r.now.player[q] = w.now.player[q]
                                               /\ r.db.player[q] = w.db.player[q]
<1>6. ASSUME p \in online
      PROVE  Others /\ r.now.player[p] = a /\ r.db.player[p] = w.db.player[p]
  <2>1. r = next
    BY <1>6 DEF Forget
  <2>2. QED
    BY <1>1, <1>2, <1>3, <2>1
<1>7. ASSUME p \notin online, b = TRUE
      PROVE  Others /\ r.now.player[p] = a /\ r.db.player[p] = a
  <2> DEFINE kept == [next EXCEPT !.now = WithAccount(next.now, p, a)]
  <2>1. r = SavePlayer(kept, p)
    BY <1>7 DEF Forget
  <2>2. /\ WithAccount(next.now, p, a) \in Worlds /\ WithAccount(next.now, p, a).player[p] = a
        /\ \A q \in Players \ {p} : WithAccount(next.now, p, a).player[q] = w.now.player[q]
    BY <1>1, <1>2, <1>3, WithAccountType, WithAccountPlayers
  <2>3. kept \in Pairs /\ kept.now = WithAccount(next.now, p, a) /\ kept.db = w.db
    BY <1>3, <2>2, PairType
  <2> HIDE DEF kept
  <2>4. r.now = kept.now
    BY <2>1, <2>3, SavePlayerType
  <2>5. /\ r.db.player[p] = kept.now.player[p]
        /\ \A q \in Players \ {p} : r.db.player[q] = kept.db.player[q]
    BY <2>1, <2>3, SavePlayerPlayers
  <2>6. QED
    BY <2>2, <2>3, <2>4, <2>5
<1>8. ASSUME p \notin online, b = FALSE
      PROVE  /\ Others
             /\ r.now.player[p] = w.db.player[p] /\ r.db.player[p] = w.db.player[p]
  <2>1. r = [next EXCEPT !.now = WithAccount(next.now, p, next.db.player[p])]
    BY <1>8 DEF Forget
  <2>2. next.db.player[p] \in Accounts /\ next.now \in Worlds
    BY <1>3 DEF Pairs, Worlds
  <2>3. WithAccount(next.now, p, next.db.player[p]) \in Worlds
    BY <2>2, WithAccountType
  <2>4. r.now = WithAccount(next.now, p, next.db.player[p]) /\ r.db = w.db
    BY <1>3, <2>1, <2>3, PairType
  <2>5. QED
    BY <1>1, <1>2, <1>3, <1>8, <2>2, <2>4, WithAccountPlayers
<1>9. QED
  BY <1>4, <1>5, <1>6, <1>7, <1>8 DEF Settles

LEMMA PaysTreats ==
  ASSUME NEW w \in Pairs, today \in 1 .. MaxDay, Settled(w), Lettered(w.now), Lettered(w.db),
         w.now.house.owner \in Players, w.db.house.owner = w.now.house.owner,
         CanPay(w.now.player[w.now.house.owner])
  PROVE  Treats(w, Pays(w))
<1> DEFINE h == w.now.house
           p == h.owner
           a == Charged(w.now.player[p])
           r == Pays(w)
<1>1. h \in Deeds /\ w.now.player[p] \in Accounts
  BY DEF Pairs, Worlds
<1>2. /\ Paid(h) \in Deeds /\ Paid(h).owner = p /\ Paid(h).warnings = h.warnings
      /\ Paid(h).lastWarning = h.lastWarning
  BY <1>1, DeedTypes DEF Paid, Deeds
<1>3. a \in Accounts /\ a.letter = w.now.player[p].letter /\ a.things = w.now.player[p].things
  BY <1>1, AccountTypes DEF Charged, Accounts
<1> HIDE DEF a
<1>4. /\ r.now.house = Paid(h) /\ r.db.house = w.db.house /\ r.now.inHouse = w.now.inHouse
      /\ \A q \in Players \ {p} : /\ r.now.player[q] = w.now.player[q]
                                  /\ r.db.player[q] = w.db.player[q]
      /\ p \in online => r.now.player[p] = a /\ r.db.player[p] = w.db.player[p]
      /\ p \notin online =>
           r.now.player[p] = w.db.player[p] /\ r.db.player[p] = w.db.player[p]
  <2> DEFINE b == FALSE
             d == Paid(h)
             next == [w EXCEPT !.now = WithHouse(WithAccount(w.now, p, a), d)]
  <2>1. r = Forget(next, p, a, b)
    BY DEF Pays, a
  <2>2. d \in Deeds /\ b \in BOOLEAN /\ b = FALSE
    BY <1>2
  <2> HIDE DEF b, d, r
  <2>3. WithHouse(WithAccount(w.now, p, a), d) \in Worlds
    <3>1. WithAccount(w.now, p, a) \in Worlds
      BY <1>3, WithAccountType DEF Pairs
    <3>2. QED
      BY <2>2, <3>1, WithHouseType
  <2>4. /\ next \in Pairs /\ next.now = WithHouse(WithAccount(w.now, p, a), d)
        /\ next.db = w.db
    BY <2>3, PairType
  <2> HIDE DEF next
  <2>5. Settles(w, p, a, d, b, Forget(next, p, a, b))
    BY <1>3, <2>2, <2>4, SettleMeans
  <2>6. QED
    BY <2>1, <2>2, <2>5 DEF Settles, d
<1> HIDE DEF r
<1>5. \A q \in Players : /\ r.now.player[q].letter = w.now.player[q].letter
                         /\ r.now.player[q].things = w.now.player[q].things
                         /\ r.db.player[q] = w.db.player[q]
  BY <1>3, <1>4 DEF Settled
<1>6. Settled(r)
  BY <1>4, <1>5 DEF Settled
<1>7. Lettered(r.now)
  <2>1. /\ r.now.house.warnings = h.warnings /\ r.now.house.lastWarning = h.lastWarning
        /\ r.now.house.owner = p /\ p \in Players
    BY <1>2, <1>4
  <2>2. r.now.player[p].letter = w.now.player[p].letter
    BY <1>5, <2>1
  <2>3. QED
    BY <2>1, <2>2, Zenon DEF Lettered
<1>8. Lettered(r.db)
  BY <1>4, <1>5 DEF Lettered
<1>9. Alike(w.now, r.now) /\ r.now.house.owner # None
  BY <1>2, <1>4, <1>5, HouseRentAssumption DEF Alike
<1>10. QED
  BY <1>6, <1>7, <1>8, <1>9 DEF Treats, r

LEMMA WarnTreats ==
  ASSUME NEW w \in Pairs, today \in 1 .. MaxDay, Settled(w), Lettered(w.now), Lettered(w.db),
         w.now.house.owner \in Players, w.db.house.owner = w.now.house.owner,
         Warns(w.now.house)
  PROVE  Treats(w, Warn(w))
<1> DEFINE h == w.now.house
           p == h.owner
           a == [w.now.player[p] EXCEPT !.letter = today]
           r == Warn(w)
<1>1. h \in Deeds /\ w.now.player[p] \in Accounts /\ today \in Nat
  BY HouseRentAssumption DEF Pairs, Worlds
<1>2. /\ Warned(h) \in Deeds /\ Warned(h).owner = p /\ Warned(h).lastWarning = today
  BY <1>1, DeedTypes DEF Warned, Deeds
<1>3. a \in Accounts /\ a.letter = today /\ a.things = w.now.player[p].things
  BY <1>1, AccountTypes DEF Accounts
<1> HIDE DEF a
<1>4. /\ r.now.house = Warned(h) /\ r.db.house = w.db.house /\ r.now.inHouse = w.now.inHouse
      /\ \A q \in Players \ {p} : /\ r.now.player[q] = w.now.player[q]
                                  /\ r.db.player[q] = w.db.player[q]
      /\ p \in online => r.now.player[p] = a /\ r.db.player[p] = w.db.player[p]
      /\ p \notin online => r.now.player[p] = a /\ r.db.player[p] = a
  <2> DEFINE b == TRUE
             d == Warned(h)
             next == [w EXCEPT !.now = WithHouse(WithAccount(w.now, p, a), d)]
  <2>1. r = Forget(next, p, a, b)
    BY DEF Warn, a
  <2>2. d \in Deeds /\ b \in BOOLEAN /\ b = TRUE
    BY <1>2
  <2> HIDE DEF b, d, r
  <2>3. WithHouse(WithAccount(w.now, p, a), d) \in Worlds
    <3>1. WithAccount(w.now, p, a) \in Worlds
      BY <1>3, WithAccountType DEF Pairs
    <3>2. QED
      BY <2>2, <3>1, WithHouseType
  <2>4. /\ next \in Pairs /\ next.now = WithHouse(WithAccount(w.now, p, a), d)
        /\ next.db = w.db
    BY <2>3, PairType
  <2> HIDE DEF next
  <2>5. Settles(w, p, a, d, b, Forget(next, p, a, b))
    BY <1>3, <2>2, <2>4, SettleMeans
  <2>6. QED
    BY <2>1, <2>2, <2>5 DEF Settles, d
<1> HIDE DEF r
<1>5. \A q \in Players : /\ w.now.player[q].letter \in Nat /\ w.db.player[q].letter \in Nat
  BY DEF Pairs, Worlds, Accounts, Days
<1>6. /\ p \in Players /\ p \in Players \union {None} /\ p # None /\ w.db.house.owner = p
      /\ r.now.house.owner = p /\ r.now.house.lastWarning = today
      /\ r.now.player[p] = a /\ r.db.player[p] \in {w.db.player[p], a}
  BY <1>2, <1>4, HouseRentAssumption
<1>7. today \in Nat
  BY <1>1
<1> HIDE DEF p, h
<1>8. \A q \in Players : /\ w.db.player[q].letter <= w.now.player[q].letter
                         /\ w.now.player[q].letter <= today
  BY DEF Settled
<1>9. /\ r.now.player[p].letter = today
      /\ r.db.player[p].letter \in {w.db.player[p].letter, today}
  BY <1>3, <1>6
<1>10. w.db.player[p].letter \in Nat /\ w.db.player[p].letter <= today
  BY <1>5, <1>6, <1>7, <1>8
<1> DEFINE o == w.db.player[p].letter
           y == r.db.player[p].letter
<1> HIDE DEF o, y
<1>11. y \in Nat /\ y <= today /\ o <= y /\ today <= today
  BY <1>7, <1>9, <1>10 DEF o, y
<1>12. Settled(r)
  <2>1. \A q \in Players \ online : r.now.player[q] = r.db.player[q]
    BY <1>4 DEF Settled
  <2>2. ASSUME NEW q \in Players
        PROVE  r.db.player[q].letter <= r.now.player[q].letter /\ r.now.player[q].letter <= today
    <3>1. CASE q # p
      BY <1>4, <1>8, <3>1
    <3>2. CASE q = p
      BY <1>9, <1>11, <3>2 DEF y
    <3>3. QED
      BY <3>1, <3>2
  <2>3. QED
    BY <2>1, <2>2 DEF Settled
<1>13. Lettered(r.now)
  <2>1. r.now.player[r.now.house.owner].letter >= r.now.house.lastWarning
    <3>1. today >= today
      BY <1>7
    <3>2. QED
      BY <1>6, <1>9, <3>1
  <2>2. QED
    BY <2>1, Zenon DEF Lettered
<1>14. Lettered(r.db)
  <2> SUFFICES ASSUME w.db.house.warnings > 0 PROVE y >= w.db.house.lastWarning
    BY <1>4, <1>6 DEF Lettered, y
  <2>1. o >= w.db.house.lastWarning /\ o \in Nat
    BY <1>6, <1>10 DEF Lettered, o
  <2>2. w.db.house.lastWarning \in Nat
    BY DEF Pairs, Worlds, Deeds, Days
  <2>3. QED
    BY <1>11, <2>1, <2>2
<1>15. Alike(w.now, r.now) /\ r.now.house.owner # None
  <2>1. ASSUME NEW q \in Players PROVE r.now.player[q].things = w.now.player[q].things
    BY <1>3, <1>4, <1>6
  <2>2. QED
    BY <1>4, <1>6, <2>1 DEF Alike
<1>16. QED
  BY <1>12, <1>13, <1>14, <1>15 DEF Treats, r

LEMMA EvictTreats ==
  ASSUME NEW w \in Pairs, today \in 1 .. MaxDay, Settled(w), Clean(w.now.house),
         w.now.house.owner \in Players
  PROVE  Treats(w, Evict(w))
<1> DEFINE p == w.now.house.owner
           a == w.now.player[p]
           free == SetOwnerEx(w, None)
           r == Evict(w)
<1>1. p # None /\ free \in Pairs
  BY SetOwnerExType, HouseRentAssumption
<1>2. /\ Settled(free) /\ Lettered(free.now) /\ Lettered(free.db)
      /\ MovesOut(w.now, free.now)
  BY <1>1, SetOwnerExMoves
<1>3. r = Forget(free, p, a, FALSE)
  BY DEF Evict
<1> HIDE DEF free, r
<1>4. CASE p \in online
  BY <1>2, <1>3, <1>4 DEF Forget, Treats, r
<1>5. CASE p \notin online
  <2>1. free.db.player[p] = free.now.player[p] /\ free.db.player[p] \in Accounts
        /\ free.now \in Worlds
    BY <1>1, <1>2, <1>5 DEF Settled, Pairs, Worlds
  <2> DEFINE u == WithAccount(free.now, p, free.db.player[p])
  <2>2. /\ u \in Worlds /\ u.house = free.now.house /\ u.inHouse = free.now.inHouse
        /\ \A q \in Players : u.player[q] = free.now.player[q]
    <3> DEFINE c == free.db.player[p]
               v == free.now
    <3>1. c \in Accounts /\ v \in Worlds /\ p \in Players /\ v.player[p] = c
      BY <2>1
    <3> HIDE DEF c, v, p
    <3>2. /\ WithAccount(v, p, c) \in Worlds /\ WithAccount(v, p, c).house = v.house
          /\ WithAccount(v, p, c).inHouse = v.inHouse
          /\ \A q \in Players : WithAccount(v, p, c).player[q] = IF q = p THEN c ELSE v.player[q]
      BY <3>1, WithAccountType, WithAccountPlayers
    <3>3. QED
      BY <3>1, <3>2 DEF c, v
  <2>3. r = [free EXCEPT !.now = u]
    BY <1>3, <1>5 DEF Forget
  <2> HIDE DEF u
  <2>4. r.now = u /\ r.db = free.db
    BY <1>1, <2>2, <2>3, PairType
  <2>5. Settled(r) /\ MovesOut(w.now, r.now)
    BY <1>2, <2>2, <2>4 DEF Settled, MovesOut
  <2>6. Lettered(r.now)
    <3>1. free.now.house = Deed(w.now.house, None)
      BY SetOwnerExType DEF free
    <3>2. u.house.warnings = 0
      BY <1>1, <2>2, <3>1 DEF Deed
    <3>3. QED
      BY <2>4, <3>2 DEF Lettered
  <2>7. QED
    BY <1>2, <2>4, <2>5, <2>6 DEF Treats, r
<1>6. QED
  BY <1>4, <1>5

\* Whatever the rent collector does, nothing is lost.
LEMMA PayHouseTreats ==
  ASSUME NEW w \in Pairs, today \in 1 .. MaxDay, Settled(w), Lettered(w.now), Lettered(w.db),
         Clean(w.now.house), w.db.house.owner = w.now.house.owner
  PROVE  Treats(w, PayHouse(w))
<1> DEFINE h == w.now.house
           owner == h.owner
<1>1. owner \in Players \union {None}
  BY DEF Pairs, Worlds, Deeds
<1>2. Treats(w, w)
  BY DEF Treats
<1>3. CASE ~Due(h, today)
  BY <1>2, <1>3 DEF PayHouse
<1>4. CASE Due(h, today)
  <2>1. owner \in Players
    BY <1>1, <1>4 DEF Due
  <2>2. CASE LosesAtOnce(w)
    BY <1>4, <2>1, <2>2, EvictTreats DEF PayHouse
  <2>3. CASE ~LosesAtOnce(w) /\ CanPay(w.now.player[owner])
    BY <1>4, <2>1, <2>3, PaysTreats DEF PayHouse
  <2>4. CASE ~LosesAtOnce(w) /\ ~CanPay(w.now.player[owner])
    <3>1. CASE ~ADayLater(h)
      BY <1>2, <1>4, <2>4, <3>1 DEF PayHouse
    <3>2. CASE ADayLater(h) /\ Warns(h)
      BY <1>4, <2>1, <2>4, <3>2, WarnTreats DEF PayHouse
    <3>3. CASE ADayLater(h) /\ ~Warns(h)
      BY <1>4, <2>1, <2>4, <3>3, EvictTreats DEF PayHouse
    <3>4. QED
      BY <3>1, <3>2, <3>3
  <2>5. QED
    BY <2>2, <2>3, <2>4
<1>5. QED
  BY <1>3, <1>4

\* A sale does the same, whoever owned the house.
LEMMA SetOwnerExTreats ==
  ASSUME NEW w \in Pairs, NEW p \in Players \union {None}, today \in 1 .. MaxDay,
         Settled(w), Clean(w.now.house), w.now.house.owner # p
  PROVE  Treats(w, SetOwnerEx(w, p))
<1> DEFINE r == SetOwnerEx(w, p)
<1>1. /\ Settled(r) /\ Lettered(r.now) /\ Lettered(r.db)
      /\ IF w.now.house.owner = None THEN Alike(w.now, r.now) ELSE MovesOut(w.now, r.now)
  BY SetOwnerExMoves
<1>2. r.now.house.owner = p
  <2>1. r.now.house = Deed(w.now.house, p)
    BY SetOwnerExType
  <2>2. QED
    BY <2>1 DEF Deed
<1> HIDE DEF r
<1>3. QED
  BY <1>1, <1>2 DEF Treats, r

-----------------------------------------------------------------------------
(* The household is kept                                                   *)

LEMMA SettledBoth ==
  Settled(Both) <=>
    /\ \A p \in Players \ online : world.player[p] = saved.player[p]
    /\ \A p \in Players : /\ saved.player[p].letter <= world.player[p].letter
                          /\ world.player[p].letter <= today
BY DEF Settled, Both

LEMMA SettledBothAfter ==
  Settled(Both)' <=>
    /\ \A p \in Players \ online' : world'.player[p] = saved'.player[p]
    /\ \A p \in Players : /\ saved'.player[p].letter <= world'.player[p].letter
                          /\ world'.player[p].letter <= today'
BY DEF Settled, Both

LEMMA LettersAreDays ==
  ASSUME NEW v \in Worlds, NEW p \in Players
  PROVE  v.player[p].letter \in Nat
BY DEF Worlds, Accounts, Days

\* A handler that treats the household well keeps it, and so does a save of the map.
LEMMA TreatedStep ==
  ASSUME IInv, HInv, IInv', NEW r \in Pairs, Treats(Both, r), world' = r.now,
         saved' = r.db \/ saved' = r.now, UNCHANGED <<today, online>>
  PROVE  HInv'
<1>1. /\ Both.now = world /\ world \in Worlds /\ world' \in Worlds /\ saved' \in Worlds
  BY BothType DEF IInv, TypeOK
<1>2. /\ \A p \in Players \ online : r.now.player[p] = r.db.player[p]
      /\ \A p \in Players : /\ r.db.player[p].letter <= r.now.player[p].letter
                            /\ r.now.player[p].letter <= today
  BY DEF Treats, Settled
<1>3. Settled(Both)'
  <2>1. \A p \in Players : world'.player[p].letter <= world'.player[p].letter
    BY <1>1, LettersAreDays
  <2>2. QED
    BY <1>2, <2>1, SettledBothAfter
<1>4. Lettered(world)' /\ Lettered(saved)'
  BY DEF Treats, Lettered
<1>5. ASSUME ~CanCrash PROVE FreeIsEmpty' /\ Kept(world)'
  <2>1. FreeIsEmpty /\ Kept(world)
    BY <1>5 DEF HInv
  <2>2. \/ Alike(world, world') /\ world'.house.owner # None
        \/ MovesOut(world, world')
        \/ world' = world
    BY <1>1 DEF Treats
  <2>3. FreeIsEmpty'
    BY <2>1, <2>2 DEF FreeIsEmpty, MovesOut
  <2>4. Kept(world')
    BY <1>1, <2>1, <2>2, MovesKeep
  <2>5. QED
    BY <2>3, <2>4 DEF Kept
<1>6. QED
  BY <1>3, <1>4, <1>5 DEF HInv

\* Steps that leave house, letters and things of every player as they are, in each copy.
Untouched(v, u) ==
  /\ u.house.owner = v.house.owner /\ u.house.warnings = v.house.warnings
  /\ u.house.lastWarning = v.house.lastWarning
  /\ \A p \in Players : u.player[p].letter = v.player[p].letter

LEMMA UntouchedIsLettered ==
  ASSUME NEW v \in Worlds, NEW u \in Worlds, Untouched(v, u), Lettered(v),
         v.house.warnings > 0 => v.house.owner \in Players
  PROVE  Lettered(u)
BY DEF Lettered, Untouched

LEMMA WarnedHasOwner ==
  ASSUME IInv
  PROVE  /\ world.house.warnings > 0 => world.house.owner \in Players
         /\ saved.house.warnings > 0 => saved.house.owner \in Players
BY DEF IInv, TypeOK, Worlds, Deeds, Fair, Clean, NoDeed

\* Steps that neither warn nor sell, and leave the things where they are.
LEMMA SteadyThings ==
  ASSUME IInv, IInv', HInv, Alike(world, world'), world'.house.owner = world.house.owner
  PROVE  ~CanCrash => FreeIsEmpty' /\ Kept(world)'
<1>1. world \in Worlds /\ world' \in Worlds
  BY DEF IInv, TypeOK
<1>2. ASSUME ~CanCrash PROVE FreeIsEmpty' /\ Kept(world')
  BY <1>1, <1>2, MovesKeep DEF HInv, FreeIsEmpty, Alike
<1>3. QED
  BY <1>2 DEF Kept

LEMMA SteadyStep ==
  ASSUME IInv, IInv', HInv, today' \in {today, today + 1},
         Untouched(world, world'), Untouched(saved, saved'),
         \A p \in Players \ online' : world'.player[p] = saved'.player[p],
         ~CanCrash => FreeIsEmpty' /\ Kept(world)'
  PROVE  HInv'
<1>1. /\ world \in Worlds /\ world' \in Worlds /\ saved \in Worlds /\ saved' \in Worlds
      /\ today \in Nat
  BY HouseRentAssumption DEF IInv, TypeOK
<1>2. Settled(Both)'
  <2>1. \A p \in Players : /\ saved.player[p].letter <= world.player[p].letter
                           /\ world.player[p].letter <= today
                           /\ world.player[p].letter \in Nat
    BY <1>1, SettledBoth, LettersAreDays DEF HInv
  <2>2. \A p \in Players : /\ saved'.player[p].letter <= world'.player[p].letter
                           /\ world'.player[p].letter <= today'
    BY <1>1, <2>1 DEF Untouched
  <2>3. QED
    BY <2>2, SettledBothAfter
<1>3. Lettered(world') /\ Lettered(saved')
  BY <1>1, UntouchedIsLettered, WarnedHasOwner DEF HInv
<1>4. QED
  BY <1>2, <1>3 DEF HInv, Lettered

\* A player who is saved: the database catches up with the process.
LEMMA LogoutKeeps ==
  ASSUME IInv, IInv', HInv, NEW p \in Players, Logout(p)
  PROVE  HInv'
<1>1. /\ Both \in Pairs /\ Both.now = world /\ Both.db = saved
      /\ world \in Worlds /\ saved \in Worlds
  BY BothType DEF IInv, TypeOK
<1>2. world' = world /\ saved'.house = saved.house
  BY <1>1, SavePlayerType DEF Logout, Becomes
<1>3. /\ saved'.player[p] = world.player[p]
      /\ \A q \in Players \ {p} : saved'.player[q] = saved.player[q]
  BY <1>1, SavePlayerPlayers DEF Logout, Becomes
<1>4. /\ \A q \in Players \ online : world.player[q] = saved.player[q]
      /\ \A q \in Players : /\ saved.player[q].letter <= world.player[q].letter
                            /\ world.player[q].letter <= today
                            /\ world.player[q].letter \in Nat
                            /\ saved.player[q].letter \in Nat
  BY <1>1, SettledBoth, LettersAreDays DEF HInv
<1>5. today' = today /\ online' = online \ {p}
  BY DEF Logout
<1>6. Settled(Both)'
  BY <1>2, <1>3, <1>4, <1>5, SettledBothAfter
<1>7. Lettered(saved)'
  <2>1. \A q \in Players : saved'.player[q].letter >= saved.player[q].letter
                           /\ saved'.player[q].letter \in Nat
    BY <1>3, <1>4
  <2>2. saved.house.lastWarning \in Nat
    BY <1>1 DEF Worlds, Deeds, Days
  <2>3. QED
    BY <1>2, <1>4, <2>1, <2>2, WarnedHasOwner DEF HInv, Lettered
<1>8. QED
  BY <1>2, <1>6, <1>7 DEF HInv, Lettered, FreeIsEmpty, Kept

\* A thing that is carried in or out is in one place again.
LEMMA FurnishKeeps ==
  ASSUME IInv, IInv', HInv, NEW p \in Players, NEW t \in Things, Furnish(p, t)
  PROVE  HInv'
<1> DEFINE things(q) == world.player[q].things
           after(q) == world'.player[q].things
<1>1. /\ world \in Worlds /\ world' \in Worlds /\ saved \in Worlds
  BY DEF IInv, TypeOK
<1>2. /\ world'.house = world.house /\ saved' = saved /\ online' = online /\ today' = today
      /\ \A q \in Players \ {p} : world'.player[q] = world.player[q]
      /\ world'.player[p].letter = world.player[p].letter
      /\ p \in online /\ world.house.owner # None
      /\ \/ /\ t \in things(p) /\ after(p) = things(p) \ {t}
            /\ world'.inHouse = world.inHouse \union {t}
         \/ /\ t \in world.inHouse /\ after(p) = things(p) \union {t}
            /\ world'.inHouse = world.inHouse \ {t}
  <2>1. /\ world.player \in [Players -> Accounts] /\ world.player[p] \in Accounts
        /\ DOMAIN world = {"house", "inHouse", "player"}
    BY <1>1 DEF Worlds
  <2>2. ASSUME NEW s, NEW i,
               world' = [world EXCEPT !.player[p].things = s, !.inHouse = i]
        PROVE  /\ world'.house = world.house /\ world'.inHouse = i /\ after(p) = s
               /\ \A q \in Players \ {p} : world'.player[q] = world.player[q]
               /\ world'.player[p].letter = world.player[p].letter
    <3> DEFINE a == [world.player[p] EXCEPT !.things = s]
               players == [world.player EXCEPT ![p] = a]
    <3>1. a.things = s /\ a.letter = world.player[p].letter
      BY <2>1 DEF Accounts
    <3>2. players[p] = a /\ \A q \in Players \ {p} : players[q] = world.player[q]
      BY <2>1
    <3>3. world'.house = world.house /\ world'.inHouse = i /\ world'.player = players
      BY <2>1, <2>2
    <3> HIDE DEF a, players
    <3>4. QED
      BY <3>1, <3>2, <3>3
  <2>3. CASE /\ t \in things(p)
             /\ world' = [world EXCEPT !.player[p].things = things(p) \ {t},
                                       !.inHouse = world.inHouse \union {t}]
    BY <2>2, <2>3 DEF Furnish
  <2>4. CASE /\ t \in world.inHouse
             /\ world' = [world EXCEPT !.player[p].things = things(p) \union {t},
                                       !.inHouse = world.inHouse \ {t}]
    BY <2>2, <2>4 DEF Furnish
  <2>5. QED
    BY <2>3, <2>4 DEF Furnish
<1>3. ASSUME Kept(world) PROVE Kept(world')
  <2>1. \A q \in Players \ {p} : after(q) = things(q)
    BY <1>2
  <2>2. \A u \in Things :
          \/ u \in world.inHouse /\ \A q \in Players : u \notin things(q)
          \/ /\ u \notin world.inHouse
             /\ \E q \in Players : u \in things(q) /\ \A o \in Players \ {q} : u \notin things(o)
    BY <1>3 DEF Kept
  <2>3. /\ p \in Players /\ t \in Things
        /\ \/ /\ t \in things(p) /\ after(p) = things(p) \ {t}
              /\ world'.inHouse = world.inHouse \union {t}
           \/ /\ t \in world.inHouse /\ after(p) = things(p) \union {t}
              /\ world'.inHouse = world.inHouse \ {t}
    BY <1>2
  <2> HIDE DEF things, after
  <2>4. ASSUME NEW u \in Things
        PROVE  \/ u \in world'.inHouse /\ \A q \in Players : u \notin after(q)
               \/ /\ u \notin world'.inHouse
                  /\ \E q \in Players : u \in after(q) /\ \A o \in Players \ {q} : u \notin after(o)
    <3>1. CASE u = t /\ t \in things(p)
      <4>1. t \notin world.inHouse /\ \A q \in Players \ {p} : t \notin things(q)
        BY <2>2, <3>1
      <4>2. after(p) = things(p) \ {t} /\ world'.inHouse = world.inHouse \union {t}
        BY <2>3, <4>1
      <4>3. QED
        BY <2>1, <3>1, <4>1, <4>2
    <3>2. CASE u = t /\ t \notin things(p)
      <4>1. /\ t \in world.inHouse /\ after(p) = things(p) \union {t}
            /\ world'.inHouse = world.inHouse \ {t}
        BY <2>3, <3>2
      <4>2. \A q \in Players : t \notin things(q)
        BY <2>2, <4>1
      <4>3. QED
        BY <2>1, <3>2, <4>1, <4>2
    <3>3. CASE u # t
      <4>1. u \in world'.inHouse <=> u \in world.inHouse
        BY <2>3, <3>3
      <4>2. \A q \in Players : u \in after(q) <=> u \in things(q)
        BY <2>1, <2>3, <3>3
      <4>3. QED
        BY <2>2, <4>1, <4>2
    <3>4. QED
      BY <3>1, <3>2, <3>3
  <2>5. QED
    BY <2>4 DEF Kept, after
<1>4. ~CanCrash => FreeIsEmpty' /\ Kept(world)'
  BY <1>2, <1>3 DEF HInv, FreeIsEmpty, Kept
<1>5. Untouched(world, world') /\ Untouched(saved, saved')
  BY <1>2 DEF Untouched
<1>6. \A q \in Players \ online' : world'.player[q] = saved'.player[q]
  BY <1>2, SettledBoth DEF HInv
<1>7. QED
  BY <1>2, <1>4, <1>5, <1>6, SteadyStep

LEMMA InitHInv == ASSUME Init PROVE HInv
<1>1. PICK holds \in [Things -> Players] :
        world = [house |-> NoDeed, inHouse |-> {},
                 player |-> [p \in Players |->
                   [bank |-> 0, depot |-> 0, letter |-> 0,
                    things |-> {t \in Things : holds[t] = p}]]]
  BY DEF Init
<1>2. /\ world.house.warnings = 0 /\ world.inHouse = {} /\ saved = world /\ today = 1
      /\ \A p \in Players : /\ world.player[p].letter = 0
                            /\ world.player[p].things = {t \in Things : holds[t] = p}
  BY <1>1 DEF Init, NoDeed
<1>3. Settled(Both)
  BY <1>2, SettledBoth
<1>4. Kept(world)
  <2>1. ASSUME NEW t \in Things
        PROVE  /\ holds[t] \in Players /\ t \in world.player[holds[t]].things
               /\ \A q \in Players \ {holds[t]} : t \notin world.player[q].things
    BY <1>2
  <2>2. QED
    BY <1>2, <2>1 DEF Kept
<1>5. QED
  BY <1>2, <1>3, <1>4 DEF HInv, Lettered, FreeIsEmpty

LEMMA NextHInv == ASSUME IInv, IInv', HInv, [Next]_vars PROVE HInv'
<1>1. /\ Both \in Pairs /\ Both.now = world /\ Both.db = saved /\ today \in 1 .. MaxDay
      /\ world \in Worlds /\ saved \in Worlds /\ world' \in Worlds /\ saved' \in Worlds
      /\ Clean(world.house) /\ saved.house.owner = world.house.owner
      /\ \A p \in Players \ online : world.player[p] = saved.player[p]
  BY BothType, SettledBoth DEF IInv, TypeOK, Fair, OwnerIsSaved, HInv
<1>2. Untouched(world, world) /\ Untouched(saved, saved) /\ Alike(world, world)
  BY DEF Untouched, Alike
<1>3. ASSUME NEW p \in Players, Login(p) PROVE HInv'
  <2>1. world' = world /\ saved' = saved /\ today' = today /\ online \subseteq online'
    BY <1>3 DEF Login
  <2>2. QED
    BY <1>1, <1>2, <2>1, SteadyThings, SteadyStep
<1>4. ASSUME NEW p \in Players, Logout(p) PROVE HInv'
  BY <1>4, LogoutKeeps
<1>5. ASSUME NEW p \in Players, NEW a \in Accounts, p \in online,
             a.letter = world.player[p].letter, a.things = world.player[p].things,
             world'.player = [world.player EXCEPT ![p] = a],
             world'.inHouse = world.inHouse, world'.house.owner = world.house.owner,
             world'.house.warnings = world.house.warnings,
             world'.house.lastWarning = world.house.lastWarning,
             UNCHANGED <<today, online, saved>>
      PROVE  HInv'
  <2>1. world'.player[p] = a /\ \A q \in Players \ {p} : world'.player[q] = world.player[q]
    BY <1>1, <1>5 DEF Worlds
  <2>2. Untouched(world, world') /\ Alike(world, world')
    BY <1>5, <2>1 DEF Untouched, Alike
  <2>3. \A q \in Players \ online' : world'.player[q] = saved'.player[q]
    BY <1>1, <1>5, <2>1
  <2>4. QED
    BY <1>2, <1>5, <2>2, <2>3, SteadyThings, SteadyStep
<1>6. ASSUME NEW p \in Players, Earn(p) PROVE HInv'
  <2> DEFINE a == world.player[p]
             rich == [a EXCEPT !.bank = @ + 1]
             stock == [a EXCEPT !.depot = @ + 1]
  <2>1. a \in Accounts /\ world.player \in [Players -> Accounts]
    BY <1>1 DEF Worlds
  <2>2. /\ rich \in Accounts /\ rich.letter = a.letter /\ rich.things = a.things
        /\ stock \in Accounts /\ stock.letter = a.letter /\ stock.things = a.things
    BY <1>6, <2>1, HouseRentAssumption DEF Earn, Coins, Accounts
  <2>3. ASSUME NEW b, world' = [world EXCEPT !.player = [world.player EXCEPT ![p] = b]]
        PROVE  /\ world'.player = [world.player EXCEPT ![p] = b]
               /\ world'.house = world.house /\ world'.inHouse = world.inHouse
    BY <1>1, <2>3 DEF Worlds
  <2>4. CASE world' = [world EXCEPT !.player = [world.player EXCEPT ![p] = rich]]
    BY <1>5, <1>6, <2>2, <2>3, <2>4 DEF Earn
  <2>5. CASE world' = [world EXCEPT !.player = [world.player EXCEPT ![p] = stock]]
    BY <1>5, <1>6, <2>2, <2>3, <2>5 DEF Earn
  <2>6. QED
    BY <1>6, <2>4, <2>5 DEF Earn
<1>7. ASSUME NEW p \in Players, StartSale(p) PROVE HInv'
  <2> DEFINE a == Charged(world.player[p])
             h == Paid(world.house)
  <2>1. world.player[p] \in Accounts /\ world.house \in Deeds
    BY <1>1 DEF Worlds
  <2>2. /\ a \in Accounts /\ a.letter = world.player[p].letter
        /\ a.things = world.player[p].things
    BY <1>1, <1>7, <2>1, AccountTypes, ZenonT(60) DEF StartSale, Charged, Accounts
  <2>3. /\ h.owner = world.house.owner /\ h.warnings = world.house.warnings
        /\ h.lastWarning = world.house.lastWarning
    BY <2>1 DEF Paid, Deeds
  <2>4. world' = [world EXCEPT !.house = h, !.player = [world.player EXCEPT ![p] = a]]
    BY <1>1, <1>7 DEF StartSale, Worlds
  <2> HIDE DEF a, h
  <2>5. /\ world'.player = [world.player EXCEPT ![p] = a]
        /\ world'.house = h /\ world'.inHouse = world.inHouse
    BY <1>1, <2>4 DEF Worlds
  <2>6. p \in online /\ UNCHANGED <<today, online, saved>>
    BY <1>7 DEF StartSale
  <2>7. QED
    BY <1>5, <2>2, <2>3, <2>5, <2>6
<1>8. ASSUME NEW p \in Players, Buy(p) PROVE HInv'
  <2>1. Treats(Both, SetOwnerEx(Both, p)) /\ SetOwnerEx(Both, p) \in Pairs
    BY <1>1, <1>8, SetOwnerExTreats, SetOwnerExType, HouseRentAssumption DEF Buy, HInv
  <2>2. QED
    BY <1>8, <2>1, TreatedStep DEF Buy, Becomes
<1>9. ASSUME NEW p \in Players, NEW q \in Players, Sell(p, q) PROVE HInv'
  <2>1. Treats(Both, SetOwnerEx(Both, q)) /\ SetOwnerEx(Both, q) \in Pairs
    BY <1>1, <1>9, SetOwnerExTreats, SetOwnerExType DEF Sell, HInv
  <2>2. QED
    BY <1>9, <2>1, TreatedStep DEF Sell, Becomes
<1>10. ASSUME NEW p \in Players, NEW t \in Things, Furnish(p, t) PROVE HInv'
  BY <1>10, FurnishKeeps
<1>11. Treats(Both, PayHouse(Both)) /\ PayHouse(Both) \in Pairs
  BY <1>1, PayHouseTreats, PayHouseType DEF HInv
<1>12. CASE PayHouses
  BY <1>11, <1>12, TreatedStep DEF PayHouses, Becomes
<1>13. CASE Shutdown
  BY <1>11, <1>13, TreatedStep DEF Shutdown
<1>14. CASE Save
  <2>1. world' = world /\ saved' = world /\ today' = today /\ online' = online
    BY <1>14 DEF Save, SaveGameState
  <2>2. Settled(Both)'
    BY <1>1, <2>1, SettledBoth, SettledBothAfter, LettersAreDays DEF HInv
  <2>3. QED
    BY <2>1, <2>2 DEF HInv, Lettered, FreeIsEmpty, Kept
<1>15. CASE Crash
  <2>1. world' = saved /\ saved' = saved /\ today' = today /\ CanCrash
    BY <1>15 DEF Crash
  <2>2. \A p \in Players : /\ saved.player[p].letter <= today
                           /\ saved.player[p].letter <= saved.player[p].letter
    <3>1. \A p \in Players : /\ saved.player[p].letter <= world.player[p].letter
                             /\ world.player[p].letter <= today
                             /\ world.player[p].letter \in Nat
                             /\ saved.player[p].letter \in Nat
      BY <1>1, SettledBoth, LettersAreDays DEF HInv
    <3>2. QED
      BY <1>1, <3>1
  <2>3. Settled(Both)'
    BY <2>1, <2>2, SettledBothAfter
  <2>4. QED
    BY <2>1, <2>3 DEF HInv, Lettered
<1>16. CASE (\E p \in Players : Lapse(p)) \/ NextDay \/ UNCHANGED vars
  <2>1. /\ world' = world /\ saved' = saved /\ online' = online
        /\ today' \in {today, today + 1}
    BY <1>16 DEF Lapse, NextDay, vars
  <2>2. QED
    BY <1>1, <1>2, <2>1, SteadyThings, SteadyStep
<1>17. QED
  BY <1>3, <1>4, <1>6, <1>7, <1>8, <1>9, <1>10, <1>12, <1>13, <1>14, <1>15, <1>16 DEF Next

\* Whoever owns the house, online or not: his warnings reached him, and nobody's things
\* are lost, unless the process crashes.
THEOREM HouseholdInvariance == Spec => []HInv
BY InitIInv, InitHInv, NextIInv, NextHInv, Invariance, PTL DEF Spec

\* A thing is in as many places as TLC counts.
LEMMA KeptIsSomewhere == ASSUME Kept(world) PROVE ThingsAreSomewhere
<1>1. ASSUME NEW t \in Things
      PROVE  \E x : Places(t) = {x}
  <2>1. CASE t \in world.inHouse /\ \A p \in Players : t \notin world.player[p].things
    <3>1. Places(t) = {None}
      BY <2>1 DEF Places
    <3>2. QED
      BY <3>1
  <2>2. CASE /\ t \notin world.inHouse
             /\ \E p \in Players : /\ t \in world.player[p].things
                                   /\ \A q \in Players \ {p} : t \notin world.player[q].things
    <3>1. PICK p \in Players : /\ t \in world.player[p].things
                               /\ \A q \in Players \ {p} : t \notin world.player[q].things
      BY <2>2
    <3>2. Places(t) = {p}
      BY <2>2, <3>1 DEF Places
    <3>3. QED
      BY <3>2
  <2>3. QED
    BY <2>1, <2>2 DEF Kept
<1>2. QED
  BY <1>1, FS_Singleton DEF ThingsAreSomewhere

\* What the runs check of the house at once: owner and deed, warnings and furniture.
THEOREM HouseCorrect == Spec => []HouseSound
<1>1. IInv /\ HInv => WarningsAreLetters
  BY DEF HInv, Lettered, WarningsAreLetters
<1>2. IInv /\ HInv => (~CanCrash => FreeIsEmpty /\ ThingsAreSomewhere)
  BY KeptIsSomewhere DEF HInv
<1>3. IInv => TypeOK /\ OwnerIsSaved /\ FreeIsClean
  BY DEF IInv, Fair, Clean, FreeIsClean
<1>4. IInv /\ HInv => HouseSound
  BY <1>1, <1>2, <1>3 DEF HouseSound
<1>5. QED
  BY <1>4, Invariance, HouseholdInvariance, PTL

-----------------------------------------------------------------------------
(* Channels: an instance beside the house                                  *)

CONSTANTS Parties, Slots, CanLoseClient, CanReload

VARIABLES talkers, client, guild, party, exists, users, owner, invites, windows

Ch == INSTANCE Chat WITH online <- talkers

\* The server's side: a private channel that is gone has no owner, no player owns two, and
\* who is in one may be.
Owners ==
  /\ "trade" \in exists
  /\ \A s \in Slots \ exists : owner[s] = None
  /\ \A s, t \in Slots : owner[s] \in Players /\ owner[t] = owner[s] => s = t
Guests == \A s \in Slots : \A p \in users[s] : Ch!IsInvited(p, s)

\* The client's side: whoever has a window is in the channel.
Screens == \A p \in Players : \A kind \in windows[p] \ {"party"} : p \in users[kind]

Rooms ==
  /\ Ch!TypeOK /\ Owners /\ Guests /\ Ch!UsersAreOnline
  /\ ~CanLoseClient => client = talkers /\ Ch!GuildHears
  /\ ~CanLoseClient /\ ~CanReload => Screens

\* What getChannel finds exists, is the channel that was asked for, and is one that the
\* player may use.
LEMMA FoundChannel ==
  ASSUME Ch!ChatAssumption, Rooms, NEW p \in Players, NEW kind \in Ch!Kinds,
         Ch!GetChannel(p, kind) # None
  PROVE  /\ Ch!GetChannel(p, kind) \in Ch!Channels
         /\ Ch!GetChannel(p, kind) \in exists
         /\ kind # "party" => Ch!GetChannel(p, kind) = kind
         /\ kind = "party" => Ch!GetChannel(p, kind) \in Parties
         /\ Ch!GetChannel(p, kind) \in Slots => Ch!IsInvited(p, Ch!GetChannel(p, kind))
         /\ Ch!GetChannel(p, kind) = "guild" => p \in guild
<1>1. /\ "trade" \in exists /\ exists \subseteq Ch!Channels
      /\ party[p] \in Parties \union {None}
  BY DEF Rooms, Owners, Ch!TypeOK
<1>2. None \notin exists
  BY <1>1 DEF Ch!ChatAssumption, Ch!Channels
<1>3. /\ "trade" \notin Slots /\ "guild" \notin Slots /\ "guild" \notin Parties
      /\ Parties \intersect Slots = {}
  BY DEF Ch!ChatAssumption
<1>4. CASE kind = "trade"
  BY <1>1, <1>3, <1>4 DEF Ch!GetChannel, Ch!Channels
<1>5. CASE kind = "guild"
  BY <1>1, <1>3, <1>5 DEF Ch!GetChannel, Ch!Channels
<1>6. CASE kind = "party"
  BY <1>1, <1>2, <1>3, <1>6 DEF Ch!GetChannel, Ch!Channels
<1>7. CASE kind \notin {"trade", "guild", "party"}
  BY <1>1, <1>3, <1>7 DEF Ch!GetChannel, Ch!Channels, Ch!Kinds
<1>8. QED
  BY <1>4, <1>5, <1>6, <1>7

LEMMA ChatInit == ASSUME Ch!ChatAssumption, Ch!Init PROVE Rooms
<1>1. /\ talkers = {} /\ client = {} /\ guild = {}
      /\ party = [p \in Players |-> None]
      /\ exists = {"trade"}
      /\ users = [c \in Ch!Channels |-> {}]
      /\ owner = [s \in Slots |-> None] /\ invites = [s \in Slots |-> {}]
      /\ windows = [p \in Players |-> {}]
  BY DEF Ch!Init
<1>2. Ch!TypeOK
  BY <1>1 DEF Ch!TypeOK, Ch!Channels
<1>3. Owners
  BY <1>1 DEF Owners, Ch!ChatAssumption
<1>4. Guests /\ Ch!UsersAreOnline /\ Ch!GuildHears /\ Screens
  BY <1>1 DEF Guests, Ch!UsersAreOnline, Ch!GuildHears, Screens, Ch!Channels
<1>5. QED
  BY <1>1, <1>2, <1>3, <1>4 DEF Rooms

\* A player comes, gets or loses a client, joins a guild or a party, or asks for the list
\* of channels: no channel changes, and windows are only closed.
LEMMA ChannelsStay ==
  ASSUME Ch!ChatAssumption, Rooms, Ch!TypeOK',
         UNCHANGED <<users, owner, invites>>, exists \subseteq exists',
         exists' \intersect Slots = exists \intersect Slots,
         talkers \subseteq talkers', guild \subseteq guild',
         ~CanLoseClient => client' = talkers',
         \A p \in Players : windows'[p] \subseteq windows[p]
  PROVE  Rooms'
<1>1. Owners' /\ Guests' /\ Ch!UsersAreOnline'
  BY DEF Rooms, Owners, Guests, Ch!IsInvited, Ch!UsersAreOnline
<1>2. ~CanLoseClient => Ch!GuildHears'
  BY DEF Rooms, Ch!GuildHears
<1>3. ~CanLoseClient /\ ~CanReload => Screens'
  BY DEF Rooms, Screens
<1>4. QED
  BY <1>1, <1>2, <1>3 DEF Rooms

LEMMA ChatTypes ==
  ASSUME Ch!ChatAssumption, Rooms
  PROVE  /\ client \subseteq talkers /\ talkers \subseteq Players /\ guild \subseteq Players
         /\ party \in [Players -> Parties \union {None}]
         /\ exists \subseteq Ch!Channels
         /\ users \in [Ch!Channels -> SUBSET Players]
         /\ \A c \in Ch!Channels \ exists : users[c] = {}
         /\ owner \in [Slots -> Players \union {None}]
         /\ invites \in [Slots -> SUBSET Players]
         /\ windows \in [Players -> SUBSET Ch!Kinds]
         /\ \A p \in Players \ client : windows[p] = {}
         /\ Slots \subseteq Ch!Channels /\ Slots \subseteq Ch!Kinds
         /\ "trade" \in Ch!Channels /\ "guild" \in Ch!Channels /\ Parties \subseteq Ch!Channels
         /\ "guild" \notin Slots /\ "trade" \notin Slots /\ "party" \notin Slots
         /\ Parties \intersect Slots = {} /\ None \notin Players /\ None \notin Ch!Channels
         /\ "guild" \notin Parties
BY DEF Rooms, Ch!TypeOK, Ch!Channels, Ch!Kinds, Ch!ChatAssumption

LEMMA QuietSteps ==
  ASSUME Ch!ChatAssumption, Rooms, NEW p \in Players,
         \/ Ch!RequestChannels(p) \/ Ch!JoinGuild(p) \/ Ch!Login(p)
         \/ Ch!LoseClient(p) \/ Ch!Reconnect(p)
         \/ \E q \in Players, a \in Parties : Ch!JoinParty(p, q, a)
         \/ Ch!LeaveParty(p)
  PROVE  Rooms'
<1> USE ChatTypes
<1>1. CASE Ch!RequestChannels(p)
  <2>1. Ch!TypeOK'
    BY <1>1 DEF Ch!TypeOK, Ch!RequestChannels, Ch!private
  <2>2. QED
    BY <1>1, <2>1, ChannelsStay DEF Ch!RequestChannels, Ch!private, Rooms
<1>2. CASE Ch!JoinGuild(p)
  <2>1. Ch!TypeOK'
    BY <1>2 DEF Ch!TypeOK, Ch!JoinGuild, Ch!private
  <2>2. QED
    BY <1>2, <2>1, ChannelsStay DEF Ch!JoinGuild, Ch!private, Rooms
<1>3. CASE Ch!Login(p)
  <2>1. Ch!TypeOK'
    BY <1>3 DEF Ch!TypeOK, Ch!Login, Ch!private
  <2>2. QED
    BY <1>3, <2>1, ChannelsStay DEF Ch!Login, Ch!private, Rooms
<1>4. CASE Ch!LoseClient(p)
  <2>1. Ch!TypeOK'
    BY <1>4 DEF Ch!TypeOK, Ch!LoseClient, Ch!private
  <2>2. QED
    BY <1>4, <2>1, ChannelsStay DEF Ch!LoseClient, Ch!private, Rooms
<1>5. CASE Ch!Reconnect(p)
  <2>1. Ch!TypeOK'
    BY <1>5 DEF Ch!TypeOK, Ch!Reconnect, Ch!private
  <2>2. QED
    BY <1>5, <2>1, ChannelsStay DEF Ch!Reconnect, Ch!private, Rooms
<1>6. ASSUME NEW q \in Players, NEW a \in Parties, Ch!JoinParty(p, q, a) PROVE Rooms'
  <2>1. Ch!TypeOK'
    BY <1>6 DEF Ch!TypeOK, Ch!JoinParty, Ch!private
  <2>2. QED
    BY <1>6, <2>1, ChannelsStay DEF Ch!JoinParty, Ch!private, Rooms
<1>7. CASE Ch!LeaveParty(p)
  <2>1. Ch!TypeOK'
    BY <1>7 DEF Ch!TypeOK, Ch!LeaveParty, Ch!private
  <2>2. QED
    BY <1>7, <2>1, ChannelsStay DEF Ch!LeaveParty, Ch!private, Rooms
<1>8. QED
  BY <1>1, <1>2, <1>3, <1>4, <1>5, <1>6, <1>7

\* Channels are deleted, or players leave them.  A private channel that goes has neither an
\* owner nor users, one that stays has only users who are invited; a window that stays open
\* is not one of a channel that its player has left.
LEMMA ChannelsShrink ==
  ASSUME Ch!ChatAssumption, Rooms, Ch!TypeOK',
         exists' \subseteq exists, "trade" \in exists',
         \A c \in Ch!Channels : users'[c] \subseteq users[c],
         \A s \in Slots :
           \/ s \notin exists' /\ owner'[s] = None
           \/ s \in exists' /\ owner'[s] = owner[s] /\ \A p \in users'[s] : Ch!IsInvited(p, s)',
         \A c \in Ch!Channels \ Slots : users'[c] \subseteq talkers',
         ~CanLoseClient => client' = talkers' /\ Ch!GuildHears',
         ~CanLoseClient /\ ~CanReload =>
           \A p \in Players : \A kind \in windows'[p] \ {"party"} :
             kind \in windows[p] /\ (p \in users[kind] => p \in users'[kind])
  PROVE  Rooms'
<1>1. Owners'
  BY ChatTypes DEF Rooms, Owners
<1>2. Guests'
  BY ChatTypes DEF Ch!TypeOK, Guests
<1>3. Ch!UsersAreOnline'
  BY DEF Ch!UsersAreOnline, Ch!Channels
<1>4. ~CanLoseClient /\ ~CanReload => Screens'
  BY DEF Rooms, Screens
<1>5. QED
  BY <1>1, <1>2, <1>3, <1>4 DEF Rooms

\* The channels a player owns, at most one, are private and exist.
LEMMA OwnedByOne ==
  ASSUME Ch!ChatAssumption, Rooms, NEW p \in Players, NEW s \in Ch!Owned(p)
  PROVE  s \in Slots /\ s \in exists /\ owner[s] = p /\ Ch!Owned(p) = {s}
BY DEF Rooms, Owners, Ch!Owned

LEMMA LeaveGuildKeeps ==
  ASSUME Ch!ChatAssumption, Rooms, NEW p \in Players, Ch!LeaveGuild(p) PROVE Rooms'
<1> USE ChatTypes
<1> DEFINE c == IF p \in client THEN Ch!GetChannel(p, "guild") ELSE None
<1>1. /\ p \in talkers /\ Ch!RemovedFrom(p, c) /\ guild' = guild \ {p}
      /\ windows' = [windows EXCEPT ![p] = @ \ {"guild"}]
      /\ UNCHANGED <<talkers, client, party>>
  BY DEF Ch!LeaveGuild, Ch!LeavesChannel
<1>2. c = None \/ (c = "guild" /\ "guild" \in exists)
  BY DEF Ch!GetChannel, Ch!ChatAssumption
<1>3. /\ UNCHANGED <<exists, owner, invites>>
      /\ users' = IF c = "guild" THEN [users EXCEPT !["guild"] = @ \ {p}] ELSE users
  <2>1. "guild" \notin Ch!Owned(p)
    BY DEF Ch!Owned
  <2>2. CASE c = None
    BY <1>1, <2>2 DEF Ch!RemovedFrom, Ch!private
  <2>3. CASE c = "guild" /\ p \in users["guild"]
    BY <1>1, <2>1, <2>3 DEF Ch!RemovedFrom, Ch!private
  <2>4. CASE c = "guild" /\ p \notin users["guild"]
    <3>1. [users EXCEPT !["guild"] = @ \ {p}] = users
      BY <2>4
    <3>2. QED
      BY <1>1, <2>4, <3>1 DEF Ch!RemovedFrom, Ch!private
  <2>5. QED
    BY <1>2, <2>2, <2>3, <2>4
<1>4. /\ users' \in [Ch!Channels -> SUBSET Players]
      /\ \A d \in Ch!Channels \ {"guild"} : users'[d] = users[d]
      /\ users'["guild"] \in {users["guild"], users["guild"] \ {p}}
      /\ windows' \in [Players -> SUBSET Ch!Kinds]
      /\ \A q \in Players : windows'[q] = IF q = p THEN windows[q] \ {"guild"} ELSE windows[q]
  BY <1>1, <1>3
<1>5. Ch!TypeOK'
  BY <1>1, <1>3, <1>4 DEF Ch!TypeOK
<1>6. ~CanLoseClient => Ch!GuildHears'
  <2>1. ASSUME ~CanLoseClient, p \in users["guild"] PROVE c = "guild"
    BY <1>1, <2>1 DEF Rooms, Ch!GuildHears, Ch!GetChannel
  <2>2. QED
    BY <1>1, <1>3, <2>1 DEF Rooms, Ch!GuildHears
<1> HIDE DEF c
<1>7. \A s \in Slots :
        \/ s \notin exists' /\ owner'[s] = None
        \/ s \in exists' /\ owner'[s] = owner[s] /\ \A q \in users'[s] : Ch!IsInvited(q, s)'
  BY <1>1, <1>3, <1>4 DEF Rooms, Owners, Guests, Ch!IsInvited
<1>8. QED
  <2>1. \A d \in Ch!Channels \ Slots : users'[d] \subseteq talkers'
    BY <1>1, <1>4 DEF Rooms, Ch!UsersAreOnline
  <2>2. "trade" \in exists' /\ exists' \subseteq exists
    BY <1>3 DEF Rooms, Owners
  <2>3. \A q \in Players : \A kind \in windows'[q] \ {"party"} :
          kind \in windows[q] /\ (q \in users[kind] => q \in users'[kind])
    BY <1>4 DEF Ch!Kinds, Ch!Channels
  <2>4. QED
    BY <1>1, <1>4, <1>5, <1>6, <1>7, <2>1, <2>2, <2>3, ChannelsShrink DEF Rooms

LEMMA DisbandKeeps ==
  ASSUME Ch!ChatAssumption, Rooms, NEW p \in Players, Ch!Disband(p) PROVE Rooms'
<1> USE ChatTypes
<1> DEFINE a == party[p]
           rest == Ch!Members(a) \ {p}
<1>1. /\ a \in Parties
      /\ party' = [q \in Players |-> IF party[q] = a THEN None ELSE party[q]]
      /\ users' = IF a \in exists THEN [users EXCEPT ![a] = @ \ (rest \intersect client)]
                  ELSE users
      /\ windows' = [q \in Players |-> IF q \in Ch!Members(a) THEN windows[q] \ {"party"}
                                       ELSE windows[q]]
      /\ UNCHANGED <<talkers, client, guild, exists, owner, invites>>
  BY DEF Ch!Disband, Ch!private
<1> HIDE DEF rest, a
<1>2. /\ users' \in [Ch!Channels -> SUBSET Players]
      /\ \A c \in Ch!Channels : users'[c] = users[c] \/ (c \in Parties /\ users'[c] \subseteq users[c])
      /\ windows' \in [Players -> SUBSET Ch!Kinds]
      /\ \A q \in Players : windows'[q] \subseteq windows[q]
  BY <1>1
<1>3. Ch!TypeOK'
  BY <1>1, <1>2 DEF Ch!TypeOK
<1>4. \A s \in Slots :
        \/ s \notin exists' /\ owner'[s] = None
        \/ s \in exists' /\ owner'[s] = owner[s] /\ \A q \in users'[s] : Ch!IsInvited(q, s)'
  BY <1>1, <1>2 DEF Rooms, Owners, Guests, Ch!IsInvited
<1>5. ~CanLoseClient => Ch!GuildHears'
  BY <1>1, <1>2 DEF Rooms, Ch!GuildHears
<1>6. \A d \in Ch!Channels \ Slots : users'[d] \subseteq talkers'
  BY <1>1, <1>2 DEF Rooms, Ch!UsersAreOnline
<1>7. "trade" \in exists' /\ exists' \subseteq exists
  BY <1>1 DEF Rooms, Owners
<1>8. \A q \in Players : \A kind \in windows'[q] \ {"party"} :
        kind \in windows[q] /\ kind \in Ch!Channels \ Parties
  <2>1. \A kind \in Ch!Kinds \ {"party"} : kind \in Ch!Channels \ Parties
    BY DEF Ch!Kinds, Ch!Channels, Ch!ChatAssumption
  <2>2. QED
    BY <1>2, <2>1
<1>9. QED
  BY <1>1, <1>2, <1>3, <1>4, <1>5, <1>6, <1>7, <1>8, ChannelsShrink DEF Rooms

LEMMA ExcludeKeeps ==
  ASSUME Ch!ChatAssumption, Rooms, NEW p \in Players, NEW q \in Players,
         Ch!ChannelExclude(p, q)
  PROVE  Rooms'
<1> USE ChatTypes
<1>1. PICK s \in Ch!Owned(p) :
        \/ p = q /\ Ch!Deletes({s})
        \/ /\ p # q /\ q \in invites[s]
           /\ invites' = [invites EXCEPT ![s] = @ \ {q}]
           /\ users' = Ch!Excluded(s, q)
           /\ windows' = [windows EXCEPT ![q] = @ \ {s}]
           /\ UNCHANGED <<exists, owner>>
  BY DEF Ch!ChannelExclude
<1>2. s \in Slots /\ s \in exists /\ owner[s] = p
  BY <1>1, OwnedByOne
<1>3. UNCHANGED <<talkers, client, guild, party>>
  BY DEF Ch!ChannelExclude
<1>4. /\ "trade" \in exists /\ \A c \in Ch!Channels \ Slots : users[c] \subseteq talkers
      /\ ~CanLoseClient => client = talkers /\ Ch!GuildHears
      /\ \A t \in Slots \ exists : owner[t] = None
      /\ \A t \in Slots : \A r \in users[t] : Ch!IsInvited(r, t)
  BY DEF Rooms, Owners, Guests, Ch!UsersAreOnline
<1>5. CASE p = q /\ Ch!Deletes({s})
  <2>1. /\ exists' = exists \ {s}
        /\ users' = [c \in Ch!Channels |-> IF c = s THEN {} ELSE users[c]]
        /\ owner' = [t \in Slots |-> IF t = s THEN None ELSE owner[t]]
        /\ invites' = [t \in Slots |-> IF t = s THEN {} ELSE invites[t]]
        /\ windows' = [r \in Players |->
             windows[r] \ {t \in {s} \intersect Slots : r \in users[t] /\ r \in client}]
    BY <1>5 DEF Ch!Deletes
  <2>2. Ch!TypeOK'
    BY <1>2, <1>3, <2>1 DEF Ch!TypeOK
  <2>3. \A t \in Slots :
          \/ t \notin exists' /\ owner'[t] = None
          \/ t \in exists' /\ owner'[t] = owner[t] /\ \A r \in users'[t] : Ch!IsInvited(r, t)'
    BY <1>4, <2>1 DEF Ch!IsInvited
  <2>4. ~CanLoseClient => Ch!GuildHears'
    BY <1>3, <1>4, <2>1 DEF Ch!GuildHears
  <2>5. ASSUME ~CanLoseClient, NEW r \in Players, NEW kind \in windows'[r] \ {"party"}
        PROVE  kind \in windows[r] /\ (r \in users[kind] => r \in users'[kind])
    BY <1>2, <1>4, <2>1, <2>5 DEF Ch!Kinds, Ch!Channels
  <2>6. \A c \in Ch!Channels \ Slots : users'[c] \subseteq talkers'
    BY <1>3, <1>4, <2>1
  <2>7. /\ exists' \subseteq exists /\ "trade" \in exists'
        /\ \A c \in Ch!Channels : users'[c] \subseteq users[c]
    BY <1>2, <1>4, <2>1
  <2>8. QED
    BY <1>3, <1>4, <2>2, <2>3, <2>4, <2>5, <2>6, <2>7, ChannelsShrink
<1>6. CASE /\ p # q /\ q \in invites[s]
           /\ invites' = [invites EXCEPT ![s] = @ \ {q}]
           /\ users' = Ch!Excluded(s, q)
           /\ windows' = [windows EXCEPT ![q] = @ \ {s}]
           /\ UNCHANGED <<exists, owner>>
  <2>1. /\ users' \in [Ch!Channels -> SUBSET Players]
        /\ \A c \in Ch!Channels : users'[c] = IF c = s THEN users[c] \ {q} ELSE users[c]
        /\ invites' \in [Slots -> SUBSET Players]
        /\ \A t \in Slots : invites'[t] = IF t = s THEN invites[t] \ {q} ELSE invites[t]
        /\ windows' \in [Players -> SUBSET Ch!Kinds]
        /\ \A r \in Players : windows'[r] = IF r = q THEN windows[r] \ {s} ELSE windows[r]
    BY <1>2, <1>6 DEF Ch!Excluded
  <2>2. Ch!TypeOK'
    BY <1>3, <1>6, <2>1 DEF Ch!TypeOK
  <2>3. \A t \in Slots :
          \/ t \notin exists' /\ owner'[t] = None
          \/ t \in exists' /\ owner'[t] = owner[t] /\ \A r \in users'[t] : Ch!IsInvited(r, t)'
    BY <1>2, <1>4, <1>6, <2>1 DEF Ch!IsInvited
  <2>4. ~CanLoseClient => Ch!GuildHears'
    BY <1>2, <1>3, <1>4, <2>1 DEF Ch!GuildHears
  <2>5. ASSUME NEW r \in Players, NEW kind \in windows'[r] \ {"party"}
        PROVE  kind \in windows[r] /\ (r \in users[kind] => r \in users'[kind])
    BY <1>2, <2>1, <2>5, ZenonT(60) DEF Ch!Kinds, Ch!Channels
  <2>6. \A c \in Ch!Channels \ Slots : users'[c] \subseteq talkers'
    BY <1>2, <1>3, <1>4, <2>1
  <2>7. /\ exists' \subseteq exists /\ "trade" \in exists'
        /\ \A c \in Ch!Channels : users'[c] \subseteq users[c]
    BY <1>4, <1>6, <2>1
  <2>8. QED
    BY <1>3, <1>4, <2>2, <2>3, <2>4, <2>5, <2>6, <2>7, ChannelsShrink
<1>7. QED
  BY <1>1, <1>5, <1>6

LEMMA ReloadKeeps == ASSUME Ch!ChatAssumption, Rooms, Ch!Reload PROVE Rooms'
<1> USE ChatTypes
<1>1. /\ CanReload
      /\ exists' = (exists \ (Ch!Channels \ {"guild"})) \union {"trade"}
      /\ users' = [c \in Ch!Channels |-> IF c \in Ch!Channels \ {"guild"} THEN {} ELSE users[c]]
      /\ owner' = [s \in Slots |-> None] /\ invites' = [s \in Slots |-> {}]
      /\ UNCHANGED <<talkers, client, guild, party, windows>>
  BY DEF Ch!Reload
<1>2. Ch!TypeOK'
  BY <1>1 DEF Ch!TypeOK
<1>3. exists' \subseteq exists /\ "trade" \in exists'
  BY <1>1 DEF Rooms, Owners
<1>4. \A s \in Slots : s \notin exists' /\ owner'[s] = None
  BY <1>1
<1>5. \A c \in Ch!Channels : users'[c] \subseteq users[c]
  BY <1>1
<1>6. \A c \in Ch!Channels \ Slots : users'[c] \subseteq talkers'
  BY <1>1 DEF Rooms, Ch!UsersAreOnline
<1>7. ~CanLoseClient => client' = talkers' /\ Ch!GuildHears'
  BY <1>1 DEF Rooms, Ch!GuildHears
<1>8. QED
  BY <1>1, <1>2, <1>3, <1>4, <1>5, <1>6, <1>7, ChannelsShrink

\* The loop of a player who owns a channel may miss private channels, and no others.
LEMMA RemoveFromAllLeaves ==
  ASSUME Ch!ChatAssumption, Rooms, NEW p \in Players, Ch!RemoveFromAll(p)
  PROVE  /\ exists' = exists \ Ch!Owned(p) /\ Ch!Owned(p) \subseteq Slots
         /\ users' \in [Ch!Channels -> SUBSET Players]
         /\ \A c \in Ch!Channels : users'[c] \in {{}, users[c], users[c] \ {p}}
         /\ \A c \in Ch!Owned(p) : users'[c] = {}
         /\ \A c \in Ch!Channels \ Ch!Owned(p) : users[c] \ {p} \subseteq users'[c]
         /\ \A c \in Ch!Channels \ Slots : users'[c] = users[c] \ {p}
         /\ owner' = [s \in Slots |-> IF s \in Ch!Owned(p) THEN None ELSE owner[s]]
         /\ invites' = [s \in Slots |-> IF s \in Ch!Owned(p) THEN {} ELSE invites[s]]
         /\ windows' = [q \in Players |->
              IF q = p THEN {} ELSE windows[q] \ {s \in Ch!Owned(p) : q \in users[s]}]
<1> USE ChatTypes
<1>1. PICK missed \in Ch!Missed(p) :
         /\ exists' = exists \ Ch!Owned(p)
         /\ users' = [c \in Ch!Channels |-> IF c \in Ch!Owned(p) THEN {}
                            ELSE IF c \in Ch!Left(p) \ missed THEN users[c] \ {p} ELSE users[c]]
         /\ owner' = [s \in Slots |-> IF s \in Ch!Owned(p) THEN None ELSE owner[s]]
         /\ invites' = [s \in Slots |-> IF s \in Ch!Owned(p) THEN {} ELSE invites[s]]
         /\ windows' = [q \in Players |->
              IF q = p THEN {} ELSE windows[q] \ {s \in Ch!Owned(p) : q \in users[s]}]
  BY DEF Ch!RemoveFromAll
<1>2. Ch!Owned(p) \subseteq Slots
  BY DEF Ch!Owned
<1>3. missed \subseteq Slots
  BY <1>1 DEF Ch!Missed
<1>4. Ch!Channels \ Slots \subseteq Ch!Left(p) \ missed
  BY <1>2, <1>3 DEF Ch!Left
<1>5. QED
  BY <1>1, <1>2, <1>4

LEMMA RemoveFromAllKeeps ==
  ASSUME Ch!ChatAssumption, Rooms, NEW p \in Players, Ch!RemoveFromAll(p),
         UNCHANGED <<guild, party>>,
         \/ talkers' = talkers /\ client' = client
         \/ talkers' = talkers \ {p} /\ client' = client \ {p}
  PROVE  Rooms'
<1> USE ChatTypes
<1>1. Ch!TypeOK'
  BY RemoveFromAllLeaves, SMTT(60) DEF Ch!TypeOK
<1>2. /\ "trade" \in exists /\ \A c \in Ch!Channels \ Slots : users[c] \subseteq talkers
      /\ ~CanLoseClient => client = talkers /\ Ch!GuildHears
      /\ \A t \in Slots \ exists : owner[t] = None
      /\ \A t \in Slots : \A r \in users[t] : Ch!IsInvited(r, t)
  BY DEF Rooms, Owners, Guests, Ch!UsersAreOnline
<1>3. \A s \in Slots :
        \/ s \notin exists' /\ owner'[s] = None
        \/ s \in exists' /\ owner'[s] = owner[s] /\ \A r \in users'[s] : Ch!IsInvited(r, s)'
  BY <1>2, RemoveFromAllLeaves DEF Ch!IsInvited
<1>4. ~CanLoseClient => client' = talkers' /\ Ch!GuildHears'
  <2>1. users'["guild"] = users["guild"] \ {p}
    BY RemoveFromAllLeaves
  <2>2. QED
    BY <1>2, <2>1 DEF Ch!GuildHears
<1>5. \A q \in Players : \A kind \in windows'[q] \ {"party"} :
        kind \in windows[q] /\ (q \in users[kind] => q \in users'[kind])
  <2>1. \A kind \in Ch!Kinds \ {"party"} : kind \in Ch!Channels
    BY DEF Ch!Kinds, Ch!Channels
  <2> SUFFICES ASSUME NEW q \in Players, NEW kind \in windows'[q] \ {"party"}
      PROVE  kind \in windows[q] /\ (q \in users[kind] => q \in users'[kind])
    OBVIOUS
  <2>2. q # p /\ kind \in windows[q] \ {s \in Ch!Owned(p) : q \in users[s]}
    BY RemoveFromAllLeaves
  <2>3. kind \in Ch!Channels
    BY <2>1, <2>2
  <2>4. kind \notin Ch!Owned(p) => users[kind] \ {p} \subseteq users'[kind]
    BY <2>3, RemoveFromAllLeaves
  <2>5. QED
    BY <2>2, <2>4
<1>6. \A c \in Ch!Channels \ Slots : users'[c] \subseteq talkers'
  <2>1. \A c \in Ch!Channels \ Slots : users'[c] = users[c] \ {p}
    BY RemoveFromAllLeaves
  <2>2. QED
    BY <1>2, <2>1
<1>7. /\ exists' \subseteq exists /\ "trade" \in exists'
      /\ \A c \in Ch!Channels : users'[c] \subseteq users[c]
  <2>1. /\ exists' = exists \ Ch!Owned(p) /\ Ch!Owned(p) \subseteq Slots
        /\ \A c \in Ch!Channels : users'[c] \in {{}, users[c], users[c] \ {p}}
    BY RemoveFromAllLeaves
  <2>2. QED
    BY <1>2, <2>1
<1>8. QED
  BY <1>1, <1>3, <1>4, <1>5, <1>6, <1>7, ChannelsShrink

LEMMA CloseKeeps ==
  ASSUME Ch!ChatAssumption, Rooms, NEW p \in Players, NEW kind \in Ch!Kinds,
         Ch!CloseChannel(p, kind)
  PROVE  Rooms'
<1> USE ChatTypes
<1> DEFINE c == Ch!GetChannel(p, kind)
<1>1. /\ p \in client /\ kind \in windows[p] /\ Ch!RemovedFrom(p, c)
      /\ windows' = [q \in Players |->
           IF q = p \/ (c \in Ch!Owned(p) /\ p \in users[c] /\ q \in users[c])
             THEN windows[q] \ {kind} ELSE windows[q]]
      /\ UNCHANGED <<talkers, client, guild, party>>
  BY DEF Ch!CloseChannel
<1>2. c # None => /\ c \in Ch!Channels
                  /\ kind # "party" => c = kind
                  /\ kind = "party" => c \in Parties
  BY FoundChannel
<1> HIDE DEF c
<1>3. c \in Ch!Owned(p) => c \in Slots /\ c \in exists /\ owner[c] = p
  BY DEF Ch!Owned
<1>4. /\ users' \in [Ch!Channels -> SUBSET Players]
      /\ \A d \in Ch!Channels \ {c} : users'[d] = users[d]
      /\ c # None /\ c \notin Ch!Owned(p) => users'[c] = users[c] \ {p}
      /\ c \in Ch!Owned(p) => users'[c] \in {{}, users[c]}
      /\ p \notin users[c] => users' = users
      /\ \/ UNCHANGED <<exists, owner, invites>>
         \/ /\ c \in Ch!Owned(p) /\ p \in users[c] /\ exists' = exists \ {c} /\ users'[c] = {}
            /\ owner' = [owner EXCEPT ![c] = None]
            /\ invites' = [invites EXCEPT ![c] = {}]
  <2>1. CASE c = None \/ p \notin users[c]
    BY <1>1, <1>2, <2>1 DEF Ch!RemovedFrom, Ch!private
  <2>2. CASE c # None /\ p \in users[c] /\ c \in Ch!Owned(p)
    BY <1>1, <1>2, <2>2 DEF Ch!RemovedFrom, Ch!private
  <2>3. CASE c # None /\ p \in users[c] /\ c \notin Ch!Owned(p)
    BY <1>1, <1>2, <2>3 DEF Ch!RemovedFrom, Ch!private
  <2>4. QED
    BY <2>1, <2>2, <2>3
<1>5. /\ owner' \in [Slots -> Players \union {None}] /\ invites' \in [Slots -> SUBSET Players]
      /\ \A s \in Slots : \/ /\ (s \in exists') = (s \in exists)
                             /\ owner'[s] = owner[s] /\ invites'[s] = invites[s]
                          \/ s = c /\ s \notin exists' /\ owner'[s] = None
  BY <1>3, <1>4
<1>6. /\ windows' \in [Players -> SUBSET Ch!Kinds]
      /\ \A q \in Players : windows'[q] \subseteq windows[q]
      /\ kind \notin windows'[p]
  BY <1>1
<1>7. exists' \subseteq exists /\ "trade" \in exists'
  BY <1>3, <1>4 DEF Rooms, Owners
<1>8. \A d \in Ch!Channels \ exists' : users'[d] = {}
  BY <1>2, <1>4
<1>9. Ch!TypeOK'
  BY <1>1, <1>4, <1>5, <1>6, <1>7, <1>8 DEF Ch!TypeOK
<1>10. \A d \in Ch!Channels : users'[d] \subseteq users[d]
  BY <1>2, <1>4
<1>11. \A s \in Slots :
         \/ s \notin exists' /\ owner'[s] = None
         \/ s \in exists' /\ owner'[s] = owner[s] /\ \A q \in users'[s] : Ch!IsInvited(q, s)'
  BY <1>5, <1>10 DEF Rooms, Owners, Guests, Ch!IsInvited
<1>12. ~CanLoseClient => client' = talkers' /\ Ch!GuildHears'
  BY <1>1, <1>10 DEF Rooms, Ch!GuildHears
<1>13. \A d \in Ch!Channels \ Slots : users'[d] \subseteq talkers'
  BY <1>1, <1>10 DEF Rooms, Ch!UsersAreOnline
<1>14. ASSUME NEW q \in Players, NEW k \in windows'[q] \ {"party"}
       PROVE  k \in windows[q] /\ (q \in users[k] => q \in users'[k])
  <2>1. k \in windows[q] /\ k \in Ch!Channels /\ k \notin Parties
    BY <1>6, <1>14 DEF Ch!Kinds, Ch!Channels, Ch!ChatAssumption
  <2>2. CASE k # c
    BY <1>4, <2>1, <2>2
  <2>3. CASE k = c
    <3>1. c # None /\ kind = c
      BY <1>2, <2>1, <2>3
    <3>2. q # p
      BY <1>6, <1>14, <2>3, <3>1
    <3>3. CASE c \in Ch!Owned(p) /\ p \in users[c]
      BY <1>1, <1>14, <2>1, <2>3, <3>1, <3>3
    <3>4. CASE ~(c \in Ch!Owned(p) /\ p \in users[c])
      BY <1>4, <2>1, <2>3, <3>1, <3>2, <3>4
    <3>5. QED
      BY <3>3, <3>4
  <2>4. QED
    BY <2>2, <2>3
<1>15. QED
  BY <1>7, <1>9, <1>10, <1>11, <1>12, <1>13, <1>14, ChannelsShrink

\* A player enters channels that he may be in.
LEMMA ChannelsGrow ==
  ASSUME Ch!ChatAssumption, Rooms, Ch!TypeOK', NEW c \in Ch!Channels,
         UNCHANGED <<talkers, client, guild>>, exists \subseteq exists',
         \A d \in Ch!Channels \ {c} : users'[d] = users[d],
         users[c] \subseteq users'[c],
         c \notin Slots => users'[c] \subseteq talkers,
         c = "guild" => users'[c] \subseteq users[c] \union guild,
         c \in Slots => \A p \in users'[c] : Ch!IsInvited(p, c)',
         \A s \in Slots \ {c} :
           owner'[s] = owner[s] /\ invites'[s] = invites[s] /\ (s \in exists' => s \in exists),
         c \in Slots => c \in exists' /\ (owner'[c] = owner[c] \/ Ch!Owned(owner'[c]) = {}),
         \A p \in Players : \A kind \in windows'[p] \ {"party"} :
           kind \in windows[p] \/ (kind = c /\ p \in users'[c])
  PROVE  Rooms'
<1> USE ChatTypes
<1>1. Owners'
  BY DEF Rooms, Owners, Ch!Owned
<1>2. Guests'
  BY DEF Rooms, Guests, Ch!IsInvited
<1>3. Ch!UsersAreOnline'
  BY DEF Rooms, Ch!UsersAreOnline
<1>4. ~CanLoseClient => client' = talkers' /\ Ch!GuildHears'
  BY DEF Rooms, Ch!GuildHears
<1>5. ~CanLoseClient /\ ~CanReload => Screens'
  <2>1. \A kind \in Ch!Kinds \ {"party"} : kind \in Ch!Channels
    BY DEF Ch!Kinds, Ch!Channels
  <2>2. QED
    BY <2>1 DEF Rooms, Screens
<1>6. QED
  BY <1>1, <1>2, <1>3, <1>4, <1>5 DEF Rooms

LEMMA OpenKeeps ==
  ASSUME Ch!ChatAssumption, Rooms, NEW p \in Players, NEW kind \in Ch!Kinds,
         Ch!OpenChannel(p, kind)
  PROVE  Rooms'
<1> USE ChatTypes
<1>1. PICK c \in Ch!Channels :
        /\ c = Ch!GetChannel(p, kind)
        /\ c \in exists
        /\ kind # "party" => c = kind
        /\ c \in Slots => Ch!IsInvited(p, c)
        /\ c = "guild" => p \in guild
  BY FoundChannel DEF Ch!OpenChannel
<1>2. /\ p \in client
      /\ users' = [users EXCEPT ![c] = @ \union {p}]
      /\ windows' = [windows EXCEPT ![p] = @ \union {kind}]
      /\ UNCHANGED <<talkers, client, guild, party, exists, owner, invites>>
  BY <1>1 DEF Ch!OpenChannel, Ch!private
<1>3. /\ users' \in [Ch!Channels -> SUBSET Players]
      /\ users'[c] = users[c] \union {p}
      /\ \A d \in Ch!Channels \ {c} : users'[d] = users[d]
      /\ windows' \in [Players -> SUBSET Ch!Kinds]
      /\ \A q \in Players :
           windows'[q] = IF q = p THEN windows[q] \union {kind} ELSE windows[q]
  BY <1>1, <1>2
<1>4. Ch!TypeOK'
  BY <1>1, <1>2, <1>3 DEF Ch!TypeOK
<1>5. /\ c \notin Slots => users'[c] \subseteq talkers
      /\ c \in Slots => \A q \in users'[c] : Ch!IsInvited(q, c)'
  <2>1. /\ c \notin Slots => users[c] \subseteq talkers
        /\ c \in Slots => \A q \in users[c] : Ch!IsInvited(q, c)
    BY <1>1 DEF Rooms, Guests, Ch!UsersAreOnline
  <2>2. \A q \in Players : Ch!IsInvited(q, c)' <=> Ch!IsInvited(q, c)
    BY <1>2 DEF Ch!IsInvited
  <2>3. QED
    BY <1>1, <1>2, <1>3, <2>1, <2>2
<1>6. \A q \in Players : \A k \in windows'[q] \ {"party"} :
        k \in windows[q] \/ (k = c /\ q \in users'[c])
  BY <1>1, <1>3
<1>7. /\ c = "guild" => users'[c] \subseteq users[c] \union guild
      /\ users[c] \subseteq users'[c] /\ c \in exists'
  BY <1>1, <1>2, <1>3
<1>8. \A s \in Slots \ {c} :
        owner'[s] = owner[s] /\ invites'[s] = invites[s] /\ (s \in exists' => s \in exists)
  BY <1>2
<1>9. owner' = owner /\ exists \subseteq exists' /\ UNCHANGED <<talkers, client, guild>>
  BY <1>2
<1>10. QED
  BY <1>3, <1>4, <1>5, <1>6, <1>7, <1>8, <1>9, ChannelsGrow

LEMMA CreateKeeps ==
  ASSUME Ch!ChatAssumption, Rooms, NEW p \in Players, Ch!CreatePrivateChannel(p)
  PROVE  Rooms'
<1> USE ChatTypes
<1>1. PICK s \in Slots \ exists :
        /\ exists' = exists \union {s}
        /\ users' = [users EXCEPT ![s] = {p}]
        /\ owner' = [owner EXCEPT ![s] = p]
        /\ windows' = [windows EXCEPT ![p] = @ \union {s}]
  BY DEF Ch!CreatePrivateChannel
<1>2. /\ p \in client /\ Ch!Owned(p) = {}
      /\ UNCHANGED <<talkers, client, guild, party, invites>>
  BY DEF Ch!CreatePrivateChannel, Ch!MayOwn
<1>3. /\ users' \in [Ch!Channels -> SUBSET Players]
      /\ users'[s] = {p} /\ users[s] = {}
      /\ \A d \in Ch!Channels \ {s} : users'[d] = users[d]
      /\ owner' \in [Slots -> Players \union {None}] /\ owner'[s] = p
      /\ \A t \in Slots \ {s} : owner'[t] = owner[t]
      /\ windows' \in [Players -> SUBSET Ch!Kinds]
      /\ \A q \in Players :
           windows'[q] = IF q = p THEN windows[q] \union {s} ELSE windows[q]
  BY <1>1
<1>4. Ch!TypeOK'
  BY <1>1, <1>2, <1>3 DEF Ch!TypeOK
<1>5. \A q \in users'[s] : Ch!IsInvited(q, s)'
  BY <1>3 DEF Ch!IsInvited
<1>6. QED
  BY <1>1, <1>2, <1>3, <1>4, <1>5, ChannelsGrow

LEMMA InviteKeeps ==
  ASSUME Ch!ChatAssumption, Rooms, NEW p \in Players, NEW q \in Players,
         Ch!ChannelInvite(p, q)
  PROVE  Rooms'
<1> USE ChatTypes
<1>1. PICK s \in Ch!Owned(p) :
        /\ invites' = [invites EXCEPT ![s] = @ \union {q}]
        /\ users' = [users EXCEPT ![s] = @ \union {q}]
        /\ windows' = IF q \in client THEN [windows EXCEPT ![q] = @ \union {s}]
                      ELSE windows
  BY DEF Ch!ChannelInvite
<1>2. /\ s \in Slots /\ s \in exists
      /\ UNCHANGED <<talkers, client, guild, party, exists, owner>>
  BY <1>1, OwnedByOne DEF Ch!ChannelInvite
<1>3. /\ users' \in [Ch!Channels -> SUBSET Players]
      /\ users'[s] = users[s] \union {q}
      /\ \A d \in Ch!Channels \ {s} : users'[d] = users[d]
      /\ invites' \in [Slots -> SUBSET Players] /\ invites'[s] = invites[s] \union {q}
      /\ \A t \in Slots \ {s} : invites'[t] = invites[t]
      /\ windows' \in [Players -> SUBSET Ch!Kinds]
      /\ \A r \in Players :
           windows'[r] = IF r = q /\ q \in client THEN windows[r] \union {s} ELSE windows[r]
  BY <1>1, <1>2
<1>4. Ch!TypeOK'
  BY <1>2, <1>3 DEF Ch!TypeOK
<1>5. \A r \in users'[s] : Ch!IsInvited(r, s)'
  BY <1>2, <1>3 DEF Rooms, Guests, Ch!IsInvited
<1>6. \A r \in Players : \A kind \in windows'[r] \ {"party"} :
        kind \in windows[r] \/ (kind = s /\ r \in users'[s])
  BY <1>3
<1>7. QED
  BY <1>2, <1>3, <1>4, <1>5, <1>6, ChannelsGrow

LEMMA ChatNext == ASSUME Ch!ChatAssumption, Rooms, [Ch!Next]_(Ch!vars) PROVE Rooms'
<1>1. CASE UNCHANGED Ch!vars
  BY <1>1 DEF Ch!vars, Rooms, Ch!TypeOK, Owners, Guests, Screens, Ch!IsInvited,
     Ch!UsersAreOnline, Ch!GuildHears
<1>2. ASSUME NEW p \in Players,
             \/ Ch!RequestChannels(p) \/ Ch!JoinGuild(p) \/ Ch!Login(p)
             \/ Ch!LoseClient(p) \/ Ch!Reconnect(p) \/ Ch!LeaveParty(p)
             \/ \E q \in Players, a \in Parties : Ch!JoinParty(p, q, a)
      PROVE  Rooms'
  BY <1>2, QuietSteps
<1>3. ASSUME NEW p \in Players, Ch!Logout(p) \/ Ch!Replace(p) PROVE Rooms'
  <2>1. /\ Ch!RemoveFromAll(p) /\ UNCHANGED <<guild, party>>
        /\ \/ talkers' = talkers /\ client' = client
           \/ talkers' = talkers \ {p} /\ client' = client \ {p}
    BY <1>3 DEF Ch!Logout, Ch!Replace
  <2>2. QED
    BY <2>1, RemoveFromAllKeeps
<1>4. ASSUME NEW p \in Players,
             Ch!CreatePrivateChannel(p) \/ Ch!LeaveGuild(p) \/ Ch!Disband(p)
      PROVE  Rooms'
  BY <1>4, CreateKeeps, LeaveGuildKeeps, DisbandKeeps
<1>5. ASSUME NEW p \in Players, NEW kind \in Ch!Kinds,
             Ch!OpenChannel(p, kind) \/ Ch!CloseChannel(p, kind)
      PROVE  Rooms'
  BY <1>5, OpenKeeps, CloseKeeps
<1>6. ASSUME NEW p \in Players, NEW q \in Players,
             Ch!ChannelInvite(p, q) \/ Ch!ChannelExclude(p, q)
      PROVE  Rooms'
  BY <1>6, InviteKeeps, ExcludeKeeps
<1>7. CASE Ch!Reload
  BY <1>7, ReloadKeeps
<1>8. QED
  BY <1>1, <1>2, <1>3, <1>4, <1>5, <1>6, <1>7 DEF Ch!Next

\* The set of the instance has the same cardinality as the set here.
LEMMA SameCount == \A S : Ch!Cardinality(S) = Cardinality(S)
BY DEF Ch!Cardinality, Cardinality

LEMMA RoomsAreSound ==
  ASSUME Ch!ChatAssumption, Rooms
  PROVE  /\ Ch!TypeOK /\ Ch!ChannelsSound
         /\ ~CanLoseClient => Ch!GuildHears
         /\ ~CanLoseClient /\ ~CanReload => Ch!WindowsWork
<1>1. Ch!OnePrivate
  <2> SUFFICES ASSUME NEW p \in Players PROVE Ch!Cardinality(Ch!Owned(p)) <= 1
    BY DEF Ch!OnePrivate
  <2>1. CASE Ch!Owned(p) = {}
    BY <2>1, FS_EmptySet, SameCount
  <2>2. CASE Ch!Owned(p) # {}
    <3>1. PICK s \in Ch!Owned(p) : TRUE
      BY <2>2
    <3>2. Ch!Owned(p) = {s}
      BY <3>1, OwnedByOne
    <3>3. Cardinality({s}) = 1
      BY FS_Singleton
    <3>4. QED
      BY <3>2, <3>3, SameCount
  <2>3. QED
    BY <2>1, <2>2
<1>2. Ch!InvitedOnly
  BY DEF Rooms, Guests, Ch!InvitedOnly
<1>3. ASSUME ~CanLoseClient, ~CanReload PROVE Ch!WindowsWork
  <2> SUFFICES ASSUME NEW p \in client, NEW kind \in windows[p] \ {"party"}
      PROVE  /\ Ch!GetChannel(p, kind) # None
             /\ p \in users[Ch!GetChannel(p, kind)]
    BY DEF Ch!WindowsWork
  <2>1. /\ p \in Players /\ kind \in Ch!Kinds \ {"party"} /\ kind \in Ch!Channels
        /\ kind \in {"trade", "guild"} \union Slots
    BY ChatTypes DEF Ch!Kinds, Ch!Channels
  <2>2. p \in users[kind]
    BY <1>3, <2>1 DEF Rooms, Screens
  <2>3. kind \in exists
    BY <2>1, <2>2, ChatTypes
  <2>4. kind = "guild" => p \in guild
    BY <1>3, <2>2 DEF Rooms, Ch!GuildHears
  <2>5. kind \in Slots => Ch!IsInvited(p, kind)
    BY <2>2 DEF Rooms, Guests
  <2>6. Ch!GetChannel(p, kind) = kind /\ kind # None
    BY <2>1, <2>3, <2>4, <2>5, ChatTypes DEF Ch!GetChannel
  <2>7. QED
    BY <2>2, <2>6
<1>4. QED
  BY <1>1, <1>2, <1>3 DEF Rooms, Ch!ChannelsSound

\* Whatever the players, parties and slots are, and whether or not clients may be lost and
\* channels reloaded: nobody owns two private channels, only those who are invited are in
\* one, and no other channel points to a player who is gone (Chat, chat.cpp).
THEOREM ChatCorrect ==
  ASSUME Ch!ChatAssumption PROVE Ch!Spec => [](Ch!TypeOK /\ Ch!ChannelsSound)
<1>1. Rooms => Ch!TypeOK /\ Ch!ChannelsSound
  BY RoomsAreSound
<1>2. QED
  BY <1>1, ChatInit, ChatNext, PTL DEF Ch!Spec

\* As long as players leave the world with their clients, only members of the guild hear
\* what is said in its channel.
THEOREM GuildIsPrivate ==
  ASSUME Ch!ChatAssumption, ~CanLoseClient PROVE Ch!Spec => []Ch!GuildHears
<1>1. Rooms => Ch!GuildHears
  BY RoomsAreSound
<1>2. QED
  BY <1>1, ChatInit, ChatNext, PTL DEF Ch!Spec

\* And if the channels are not reloaded either, every window that is open is one of a
\* channel that its player is in.
THEOREM EveryWindowWorks ==
  ASSUME Ch!ChatAssumption, ~CanLoseClient, ~CanReload PROVE Ch!Spec => []Ch!WindowsWork
<1>1. Rooms => Ch!WindowsWork
  BY RoomsAreSound
<1>2. QED
  BY <1>1, ChatInit, ChatNext, PTL DEF Ch!Spec
=============================================================================
