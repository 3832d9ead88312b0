---------------------------- MODULE SessionsProofs ----------------------------
(***************************************************************************)
(* What sessions guarantee for any number of connections, characters and   *)
(* clones: the invariant SessionsSound, in every order in which packets,   *)
(* timers, deaths, logouts and the states of the server may come.  And,    *)
(* for instances beside them, that a client knows the creatures it is told *)
(* of, whatever room it has for them, that rule violation reports and the  *)
(* lists of them agree, for any players and gamemasters, and that levels   *)
(* and shared experience are current, for any players and places.          *)
(***************************************************************************)
EXTENDS Sessions, FiniteSetTheorems, TLAPS

\* The same call for the same protocol.
Same(t, u) == t.op = u.op /\ t.proto = u.proto

\* The tasks q that wait to be run, and those in s that wait for their time: of every call
\* there is one for a protocol at most, but for logouts; only connects and releases wait
\* for a time; and a close comes after the login and the logouts of its protocol.
Orderly(q, s) ==
  /\ q \in Seq(Tasks) /\ s \subseteq Tasks
  /\ \A t \in s : t.op \in {"connect", "release"}
  /\ \A i, j \in DOMAIN q : i # j /\ Same(q[i], q[j]) => q[i].op = "logout"
  /\ \A i \in DOMAIN q, t \in s : ~Same(q[i], t)
  /\ \A t, u \in s : Same(t, u) => t = u
  /\ \A i, j \in DOMAIN q :
       q[i].op = "close" /\ q[j].op \in {"login", "logout"} /\ q[i].proto = q[j].proto => j < i

\* A task that waits finds its protocol, and the protocol is at the stage the task is for.
Fits(t) ==
  LET p == t.proto
  IN  /\ life[p] = "live"
      /\ t.op = "login" => /\ conn[p] \in {"open", "requested"} /\ t.arg \in Names
                           /\ refs[p] = 0 /\ held[p] = None
      /\ t.op = "logout" => conn[p] \in {"open", "requested"}
      /\ t.op = "close" => conn[p] = "requested"
      /\ t.op = "release" => conn[p] = "closed"
      /\ t.op = "connect" => t.arg \in Players /\ refs[p] = 1 /\ held[p] = None

AllFit == \A t \in Pending : Fits(t)

\* A protocol is there before its connection is closed, and has nothing before its first
\* packet.
Lives ==
  \A p \in Protocols :
    /\ conn[p] \in {"open", "requested"} => life[p] = "live"
    /\ life[p] = "none" => refs[p] = 0 /\ held[p] = None

\* A Player that was not made, or was deleted, is clean.
Clean ==
  \A o \in Players : where[o] = "none" => uses[o] = 0 /\ client[o] = None /\ ~connecting[o]

\* The strengthening of SessionsSound.
IInv == SessionsSound /\ Orderly(queue, sched) /\ AllFit /\ Lives /\ Clean

-----------------------------------------------------------------------------
(* The queue of the dispatcher and the list of the scheduler               *)

\* What appending and taking a task do to a queue.
LEMMA AppendShape ==
  ASSUME NEW q \in Seq(Tasks), NEW t \in Tasks
  PROVE  /\ Append(q, t) \in Seq(Tasks)
         /\ DOMAIN q = 1 .. Len(q) /\ Len(q) \in Nat
         /\ DOMAIN Append(q, t) = 1 .. Len(q) + 1
         /\ \A i \in 1 .. Len(q) : Append(q, t)[i] = q[i]
         /\ Append(q, t)[Len(q) + 1] = t
         /\ ToSet(Append(q, t)) = ToSet(q) \cup {t}
<1>1. /\ Append(q, t) \in Seq(Tasks)
      /\ DOMAIN q = 1 .. Len(q) /\ Len(q) \in Nat
      /\ DOMAIN Append(q, t) = 1 .. Len(q) + 1
      /\ \A i \in 1 .. Len(q) : Append(q, t)[i] = q[i]
      /\ Append(q, t)[Len(q) + 1] = t
  OBVIOUS
<1>2. \A i \in 1 .. Len(q) + 1 : i \in 1 .. Len(q) \/ i = Len(q) + 1
  BY <1>1
<1>3. ToSet(Append(q, t)) \subseteq ToSet(q) \cup {t}
  BY <1>1, <1>2 DEF ToSet
<1>4. ToSet(q) \subseteq ToSet(Append(q, t)) /\ t \in ToSet(Append(q, t))
  <2>1. Len(q) + 1 \in 1 .. Len(q) + 1 /\ 1 .. Len(q) \subseteq 1 .. Len(q) + 1
    BY <1>1
  <2>2. QED
    BY <1>1, <2>1 DEF ToSet
<1>5. QED
  BY <1>1, <1>3, <1>4

LEMMA TailShape ==
  ASSUME NEW q \in Seq(Tasks), q # <<>>
  PROVE  /\ Tail(q) \in Seq(Tasks) /\ Head(q) \in Tasks /\ Head(q) = q[1]
         /\ DOMAIN q = 1 .. Len(q) /\ Len(q) \in Nat \ {0} /\ 1 \in DOMAIN q
         /\ \A i \in DOMAIN Tail(q) : i + 1 \in DOMAIN q /\ Tail(q)[i] = q[i + 1]
                                      /\ i \in Nat \ {0}
         /\ ToSet(Tail(q)) \subseteq ToSet(q)
         /\ ToSet(q) = ToSet(Tail(q)) \cup {Head(q)}
<1>1. /\ Tail(q) \in Seq(Tasks) /\ Head(q) \in Tasks /\ Head(q) = q[1]
      /\ DOMAIN q = 1 .. Len(q) /\ Len(q) \in Nat \ {0}
      /\ DOMAIN Tail(q) = 1 .. Len(q) - 1
      /\ \A i \in 1 .. Len(q) - 1 : Tail(q)[i] = q[i + 1]
  OBVIOUS
<1>2. 1 \in DOMAIN q
      /\ \A i \in 1 .. Len(q) - 1 : i + 1 \in 1 .. Len(q) /\ i \in Nat \ {0}
  BY <1>1
<1>3. ToSet(Tail(q)) \subseteq ToSet(q)
  BY <1>1, <1>2 DEF ToSet
<1>4. ASSUME NEW i \in 1 .. Len(q)
      PROVE  q[i] = Head(q) \/ q[i] \in ToSet(Tail(q))
  <2>1. i = 1 \/ i - 1 \in 1 .. Len(q) - 1
    BY <1>1
  <2>2. ASSUME i - 1 \in 1 .. Len(q) - 1
        PROVE  q[i] \in ToSet(Tail(q))
    <3>1. Tail(q)[i - 1] = q[(i - 1) + 1] /\ (i - 1) + 1 = i
      BY <1>1, <2>2
    <3>2. QED
      BY <1>1, <2>2, <3>1 DEF ToSet
  <2>3. QED
    BY <1>1, <2>1, <2>2
<1>5. Head(q) \in ToSet(q)
  BY <1>1, <1>2 DEF ToSet
<1>6. QED
  BY <1>1, <1>2, <1>3, <1>4, <1>5 DEF ToSet

\* What the dispatcher takes was the only one of its kind; a close was preceded by the
\* other tasks of its protocol.
LEMMA OrderlyTail ==
  ASSUME NEW q, NEW s, Orderly(q, s), q # <<>>
  PROVE  /\ Orderly(Tail(q), s) /\ Head(q) \in Tasks
         /\ ToSet(q) = ToSet(Tail(q)) \cup {Head(q)}
         /\ Head(q).op # "logout" => \A t \in ToSet(Tail(q)) \cup s : ~Same(Head(q), t)
         /\ Head(q).op = "close" => \A t \in ToSet(Tail(q)) : t.proto = Head(q).proto =>
                                       t.op \notin {"login", "logout"}
<1>1. /\ q \in Seq(Tasks) /\ s \subseteq Tasks
      /\ \A t \in s : t.op \in {"connect", "release"}
      /\ \A i, j \in DOMAIN q : i # j /\ Same(q[i], q[j]) => q[i].op = "logout"
      /\ \A i \in DOMAIN q, t \in s : ~Same(q[i], t)
      /\ \A t, u \in s : Same(t, u) => t = u
      /\ \A i, j \in DOMAIN q :
           q[i].op = "close" /\ q[j].op \in {"login", "logout"} /\ q[i].proto = q[j].proto
             => j < i
  BY DEF Orderly
<1>2. /\ Tail(q) \in Seq(Tasks) /\ Head(q) \in Tasks /\ Head(q) = q[1]
      /\ DOMAIN q = 1 .. Len(q) /\ Len(q) \in Nat \ {0} /\ 1 \in DOMAIN q
      /\ \A i \in DOMAIN Tail(q) : i + 1 \in DOMAIN q /\ Tail(q)[i] = q[i + 1]
                                   /\ i \in Nat \ {0}
      /\ ToSet(q) = ToSet(Tail(q)) \cup {Head(q)}
  BY <1>1, TailShape
<1>3. \A t \in ToSet(Tail(q)) : \E j \in DOMAIN q : j # 1 /\ ~(j < 1) /\ t = q[j]
  <2>1. ASSUME NEW t \in ToSet(Tail(q))
        PROVE  \E j \in DOMAIN q : j # 1 /\ ~(j < 1) /\ t = q[j]
    <3>1. PICK i \in DOMAIN Tail(q) : t = Tail(q)[i]
      BY DEF ToSet
    <3>2. i + 1 \in DOMAIN q /\ t = q[i + 1] /\ i + 1 # 1 /\ ~(i + 1 < 1)
      BY <1>2, <3>1
    <3>3. QED
      BY <3>2
  <2>2. QED
    BY <2>1
<1>4. Head(q).op # "logout" => \A t \in ToSet(Tail(q)) \cup s : ~Same(Head(q), t)
  BY <1>1, <1>2, <1>3
<1>5. Head(q).op = "close" => \A t \in ToSet(Tail(q)) : t.proto = Head(q).proto =>
                                 t.op \notin {"login", "logout"}
  <2>1. ASSUME Head(q).op = "close", NEW t \in ToSet(Tail(q)), t.proto = Head(q).proto,
               t.op \in {"login", "logout"}
        PROVE  FALSE
    <3>1. PICK j \in DOMAIN q : j # 1 /\ ~(j < 1) /\ t = q[j]
      BY <1>3
    <3>2. j < 1
      BY <1>1, <1>2, <2>1, <3>1
    <3>3. QED
      BY <3>1, <3>2
  <2>2. QED
    BY <2>1
<1>6. ASSUME NEW i \in DOMAIN Tail(q), NEW j \in DOMAIN Tail(q),
             Tail(q)[i].op = "close", Tail(q)[j].op \in {"login", "logout"},
             Tail(q)[i].proto = Tail(q)[j].proto
      PROVE  j < i
  <2>1. /\ i + 1 \in DOMAIN q /\ Tail(q)[i] = q[i + 1] /\ i \in Nat
        /\ j + 1 \in DOMAIN q /\ Tail(q)[j] = q[j + 1] /\ j \in Nat
    BY <1>2
  <2>2. j + 1 < i + 1
    BY <1>1, <1>6, <2>1
  <2>3. QED
    BY <2>1, <2>2
<1>7. ASSUME NEW i \in DOMAIN Tail(q), NEW j \in DOMAIN Tail(q), i # j,
             Same(Tail(q)[i], Tail(q)[j])
      PROVE  Tail(q)[i].op = "logout"
  <2>1. /\ i + 1 \in DOMAIN q /\ Tail(q)[i] = q[i + 1]
        /\ j + 1 \in DOMAIN q /\ Tail(q)[j] = q[j + 1] /\ i + 1 # j + 1
    BY <1>2, <1>7
  <2>2. QED
    BY <1>1, <1>7, <2>1
<1>8. \A i \in DOMAIN Tail(q), t \in s : ~Same(Tail(q)[i], t)
  BY <1>1, <1>2
<1>9. QED
  BY <1>1, <1>2, <1>4, <1>5, <1>6, <1>7, <1>8 DEF Orderly

LEMMA OrderlyAppend ==
  ASSUME NEW q, NEW s, Orderly(q, s), NEW t \in Tasks,
         t.op # "logout" => \A u \in ToSet(q) \cup s : ~Same(t, u),
         t.op \in {"login", "logout"} =>
           \A u \in ToSet(q) : u.proto = t.proto => u.op # "close"
  PROVE  Orderly(Append(q, t), s) /\ ToSet(Append(q, t)) = ToSet(q) \cup {t}
<1>. DEFINE r == Append(q, t)
            n == Len(q) + 1
<1>1. /\ q \in Seq(Tasks) /\ s \subseteq Tasks
      /\ \A u \in s : u.op \in {"connect", "release"}
      /\ \A i, j \in DOMAIN q : i # j /\ Same(q[i], q[j]) => q[i].op = "logout"
      /\ \A i \in DOMAIN q, u \in s : ~Same(q[i], u)
      /\ \A u, v \in s : Same(u, v) => u = v
      /\ \A i, j \in DOMAIN q :
           q[i].op = "close" /\ q[j].op \in {"login", "logout"} /\ q[i].proto = q[j].proto
             => j < i
  BY DEF Orderly
<1>2. /\ r \in Seq(Tasks) /\ DOMAIN q = 1 .. Len(q) /\ Len(q) \in Nat
      /\ DOMAIN r = 1 .. n
      /\ \A i \in 1 .. Len(q) : r[i] = q[i]
      /\ r[n] = t
      /\ ToSet(r) = ToSet(q) \cup {t}
  BY <1>1, AppendShape
<1>3. \A i \in DOMAIN r : i = n \/ (i \in DOMAIN q /\ i < n)
  BY <1>2
<1>4. \A i \in DOMAIN q : q[i] \in ToSet(q)
  BY DEF ToSet
<1>5. \A u \in s : u.op # "logout"
  BY <1>1
<1>. HIDE DEF r, n
<1>6. ASSUME NEW i \in DOMAIN r, NEW j \in DOMAIN r, i # j, Same(r[i], r[j])
      PROVE  r[i].op = "logout"
  <2>1. CASE i # n /\ j # n
    BY <1>1, <1>2, <1>3, <1>6, <2>1
  <2>2. CASE i = n /\ j # n
    BY <1>2, <1>3, <1>4, <1>6, <2>2
  <2>3. CASE i # n /\ j = n
    BY <1>2, <1>3, <1>4, <1>6, <2>3 DEF Same
  <2>4. QED
    BY <1>6, <2>1, <2>2, <2>3
<1>7. ASSUME NEW i \in DOMAIN r, NEW u \in s
      PROVE  ~Same(r[i], u)
  BY <1>1, <1>2, <1>3, <1>5 DEF Same
<1>8. ASSUME NEW i \in DOMAIN r, NEW j \in DOMAIN r, r[i].op = "close",
             r[j].op \in {"login", "logout"}, r[i].proto = r[j].proto
      PROVE  j < i
  <2>1. CASE i # n /\ j # n
    BY <1>1, <1>2, <1>3, <1>8, <2>1
  <2>2. CASE i = n
    BY <1>2, <1>3, <1>8, <2>2
  <2>3. CASE i # n /\ j = n
    BY <1>2, <1>3, <1>4, <1>8, <2>3
  <2>4. QED
    BY <2>1, <2>2, <2>3
<1>9. QED
  BY <1>1, <1>2, <1>6, <1>7, <1>8 DEF Orderly, r

\* A task waits for its time, and one whose time has come waits to be run.
LEMMA OrderlySched ==
  ASSUME NEW q, NEW s, Orderly(q, s), NEW t \in Tasks, t.op \in {"connect", "release"},
         \A u \in ToSet(q) \cup s : ~Same(t, u)
  PROVE  Orderly(q, s \cup {t})
<1>1. \A i \in DOMAIN q : q[i] \in ToSet(q)
  BY DEF ToSet
<1>2. QED
  BY <1>1 DEF Orderly, Same

LEMMA OrderlyDue ==
  ASSUME NEW q, NEW s, Orderly(q, s), NEW t \in s
  PROVE  /\ Orderly(Append(q, t), s \ {t})
         /\ ToSet(Append(q, t)) \cup (s \ {t}) = ToSet(q) \cup s
<1>1. Orderly(q, s \ {t}) /\ t \in Tasks /\ t.op \in {"connect", "release"}
  BY DEF Orderly
<1>2. \A u \in ToSet(q) \cup (s \ {t}) : ~Same(t, u)
  BY DEF Orderly, ToSet, Same
<1>3. Orderly(Append(q, t), s \ {t}) /\ ToSet(Append(q, t)) = ToSet(q) \cup {t}
  BY <1>1, <1>2, OrderlyAppend
<1>4. QED
  BY <1>3

LEMMA OrderlyNone ==
  ASSUME NEW q, NEW s, Orderly(q, s)
  PROVE  Orderly(q, {})
BY DEF Orderly

\* A sequence of tasks put behind another.
LEMMA ConcatShape ==
  ASSUME NEW q \in Seq(Tasks), NEW c \in Seq(Tasks)
  PROVE  /\ q \o c \in Seq(Tasks)
         /\ DOMAIN q = 1 .. Len(q) /\ Len(q) \in Nat /\ DOMAIN c = 1 .. Len(c)
         /\ \A i \in DOMAIN (q \o c) :
              \/ i \in DOMAIN q /\ (q \o c)[i] = q[i] /\ i <= Len(q)
              \/ i - Len(q) \in DOMAIN c /\ (q \o c)[i] = c[i - Len(q)] /\ Len(q) < i
         /\ \A i \in DOMAIN (q \o c) : i \in Nat
         /\ ToSet(q) \subseteq ToSet(q \o c)
<1>1. /\ q \o c \in Seq(Tasks)
      /\ DOMAIN q = 1 .. Len(q) /\ Len(q) \in Nat
      /\ DOMAIN c = 1 .. Len(c) /\ Len(c) \in Nat
      /\ DOMAIN (q \o c) = 1 .. Len(q) + Len(c)
      /\ \A i \in 1 .. Len(q) + Len(c) :
           (q \o c)[i] = IF i <= Len(q) THEN q[i] ELSE c[i - Len(q)]
  OBVIOUS
<1>2. \A i \in 1 .. Len(q) + Len(c) :
        \/ i \in 1 .. Len(q) /\ i <= Len(q)
        \/ i - Len(q) \in 1 .. Len(c) /\ Len(q) < i /\ ~(i <= Len(q))
  BY <1>1
<1>3. \A i \in 1 .. Len(q) : i \in 1 .. Len(q) + Len(c) /\ i <= Len(q)
  BY <1>1
<1>4. ToSet(q) \subseteq ToSet(q \o c)
  BY <1>1, <1>3 DEF ToSet
<1>5. \A i \in DOMAIN (q \o c) :
        \/ i \in DOMAIN q /\ (q \o c)[i] = q[i] /\ i <= Len(q)
        \/ i - Len(q) \in DOMAIN c /\ (q \o c)[i] = c[i - Len(q)] /\ Len(q) < i
  BY <1>1, <1>2
<1>6. QED
  BY <1>1, <1>4, <1>5

\* What CloseAll posts: one close for each connection that was open.
LEMMA CloseAllShape ==
  ASSUME TypeOK, NEW P \in SUBSET Protocols, NEW rest, NEW s, Orderly(rest, s),
         CloseAll(P, rest),
         \A p \in P : conn[p] = "open" =>
           \A u \in ToSet(rest) : ~(u.op = "close" /\ u.proto = p)
  PROVE  /\ Orderly(queue', s)
         /\ ToSet(rest) \subseteq ToSet(queue')
         /\ \A t \in ToSet(queue') :
              \/ t \in ToSet(rest)
              \/ t.op = "close" /\ t.proto \in P /\ conn[t.proto] = "open"
         /\ conn' \in [Protocols -> {"none", "open", "requested", "closed"}]
         /\ \A p \in Protocols :
              conn'[p] = IF p \in P /\ conn[p] = "open" THEN "requested" ELSE conn[p]
<1>. DEFINE op == {p \in P : conn[p] = "open"}
<1>1. /\ conn' \in [Protocols -> {"none", "open", "requested", "closed"}]
      /\ \A p \in Protocols :
           conn'[p] = IF p \in P /\ conn[p] = "open" THEN "requested" ELSE conn[p]
  BY DEF CloseAll, TypeOK
<1>2. PICK order \in SetToSeqs(op) :
        queue' = IF Running
                   THEN rest \o [i \in DOMAIN order |-> Task("close", order[i], None)]
                   ELSE rest
  BY DEF CloseAll
<1>. DEFINE n == Cardinality(op)
            c == [i \in DOMAIN order |-> Task("close", order[i], None)]
<1>3. /\ order \in [1 .. n -> op]
      /\ \A i, j \in 1 .. n : i # j => order[i] # order[j]
      /\ DOMAIN order = 1 .. n
  BY <1>2 DEF SetToSeqs
<1>4. n \in Nat
  <2>1. IsFiniteSet(op)
    BY SessionsAssumption, FS_Subset
  <2>2. QED
    BY <2>1, FS_CardinalityType
<1>5. /\ c \in Seq(Tasks) /\ DOMAIN c = 1 .. n
      /\ \A i \in DOMAIN c : c[i].op = "close" /\ c[i].proto = order[i]
                             /\ order[i] \in op
  <2>1. \A i \in 1 .. n : /\ order[i] \in op
                          /\ Task("close", order[i], None) \in Tasks
                          /\ Task("close", order[i], None).op = "close"
                          /\ Task("close", order[i], None).proto = order[i]
    BY <1>3 DEF Task, Tasks
  <2>2. c = [i \in 1 .. n |-> Task("close", order[i], None)]
    BY <1>3
  <2>. HIDE DEF c, n, op
  <2>3. c \in [1 .. n -> Tasks]
    BY <2>1, <2>2
  <2>4. QED
    BY <1>4, <2>1, <2>2, <2>3
<1>6. CASE ~Running
  BY <1>1, <1>2, <1>6 DEF ToSet
<1>7. CASE Running
  <2>. DEFINE r == rest \o c
  <2>1. /\ rest \in Seq(Tasks) /\ s \subseteq Tasks
        /\ \A u \in s : u.op \in {"connect", "release"}
        /\ \A i, j \in DOMAIN rest : i # j /\ Same(rest[i], rest[j]) => rest[i].op = "logout"
        /\ \A i \in DOMAIN rest, u \in s : ~Same(rest[i], u)
        /\ \A u, v \in s : Same(u, v) => u = v
        /\ \A i, j \in DOMAIN rest :
             rest[i].op = "close" /\ rest[j].op \in {"login", "logout"}
             /\ rest[i].proto = rest[j].proto => j < i
    BY DEF Orderly
  <2>2. queue' = r
    BY <1>2, <1>7
  <2>. HIDE DEF c, n, op
  <2>3. /\ r \in Seq(Tasks)
        /\ DOMAIN rest = 1 .. Len(rest) /\ Len(rest) \in Nat
        /\ \A i \in DOMAIN r :
             \/ i \in DOMAIN rest /\ r[i] = rest[i] /\ i <= Len(rest)
             \/ i - Len(rest) \in DOMAIN c /\ r[i] = c[i - Len(rest)] /\ Len(rest) < i
        /\ \A i \in DOMAIN r : i \in Nat
        /\ ToSet(rest) \subseteq ToSet(r)
    BY <1>5, <2>1, ConcatShape
  <2>. HIDE DEF r
  <2>4. \A i \in DOMAIN rest : rest[i] \in ToSet(rest)
    BY DEF ToSet
  <2>5. \A i \in DOMAIN c : c[i].proto \in P /\ conn[c[i].proto] = "open"
    BY <1>5 DEF op
  <2>6. \A i \in DOMAIN c, j \in DOMAIN rest : ~Same(c[i], rest[j]) /\ ~Same(rest[j], c[i])
    BY <1>5, <2>4, <2>5 DEF Same
  <2>7. \A i, j \in DOMAIN c : i # j => ~Same(c[i], c[j])
    BY <1>3, <1>5 DEF Same
  <2>8. ASSUME NEW i \in DOMAIN r, NEW j \in DOMAIN r, i # j, Same(r[i], r[j])
        PROVE  r[i].op = "logout"
    <3>1. CASE i <= Len(rest) /\ j <= Len(rest)
      BY <2>1, <2>3, <2>8, <3>1
    <3>2. CASE Len(rest) < i /\ j <= Len(rest)
      BY <2>3, <2>6, <2>8, <3>2
    <3>3. CASE i <= Len(rest) /\ Len(rest) < j
      BY <2>3, <2>6, <2>8, <3>3
    <3>4. CASE Len(rest) < i /\ Len(rest) < j
      <4>1. i - Len(rest) # j - Len(rest)
        BY <2>3, <2>8
      <4>2. /\ i - Len(rest) \in DOMAIN c /\ r[i] = c[i - Len(rest)]
            /\ j - Len(rest) \in DOMAIN c /\ r[j] = c[j - Len(rest)]
        BY <2>3, <3>4
      <4>3. QED
        BY <2>7, <2>8, <4>1, <4>2
    <3>5. QED
      BY <2>3, <3>1, <3>2, <3>3, <3>4
  <2>9. ASSUME NEW i \in DOMAIN r, NEW u \in s
        PROVE  ~Same(r[i], u)
    <3>1. CASE i \in DOMAIN rest /\ r[i] = rest[i]
      BY <2>1, <3>1
    <3>2. CASE i - Len(rest) \in DOMAIN c /\ r[i] = c[i - Len(rest)]
      <4>1. r[i].op = "close" /\ u.op # "close"
        BY <1>5, <2>1, <3>2
      <4>2. QED
        BY <4>1 DEF Same
    <3>3. QED
      BY <2>3, <3>1, <3>2
  <2>10. ASSUME NEW i \in DOMAIN r, NEW j \in DOMAIN r, r[i].op = "close",
                r[j].op \in {"login", "logout"}, r[i].proto = r[j].proto
         PROVE  j < i
    <3>1. j \in DOMAIN rest /\ r[j] = rest[j] /\ j <= Len(rest)
      BY <1>5, <2>3, <2>10
    <3>2. CASE i <= Len(rest)
      <4>1. ~(Len(rest) < i)
        BY <2>3, <3>2
      <4>2. i \in DOMAIN rest /\ r[i] = rest[i]
        BY <2>3, <4>1
      <4>3. QED
        BY <2>1, <2>10, <3>1, <4>2
    <3>3. CASE Len(rest) < i
      BY <2>3, <3>1, <3>3
    <3>4. QED
      BY <2>3, <3>2, <3>3
  <2>11. Orderly(r, s)
    BY <2>1, <2>3, <2>8, <2>9, <2>10 DEF Orderly
  <2>12. ASSUME NEW t \in ToSet(r)
         PROVE  \/ t \in ToSet(rest)
                \/ t.op = "close" /\ t.proto \in P /\ conn[t.proto] = "open"
    <3>1. PICK i \in DOMAIN r : t = r[i]
      BY DEF ToSet
    <3>2. QED
      BY <1>5, <2>3, <2>4, <2>5, <3>1
  <2>13. QED
    BY <1>1, <2>2, <2>3, <2>11, <2>12
<1>8. QED
  BY <1>6, <1>7

-----------------------------------------------------------------------------
(* Counting                                                                *)

Holders(h, o) == {p \in Protocols : h[p] = o}

\* What the constants and the types say, in the words the proofs use.
LEMMA Typed ==
  ASSUME TypeOK
  PROVE  /\ None \notin Protocols /\ None \notin Players /\ None \notin Names
         /\ conn \in [Protocols -> {"none", "open", "requested", "closed"}]
         /\ life \in [Protocols -> {"none", "live", "deleted"}]
         /\ held \in [Protocols -> Players \cup {None}]
         /\ accepts \in [Protocols -> BOOLEAN]
         /\ refs \in [Protocols -> 0 .. 1]
         /\ name \in [Players -> Names \cup {None}]
         /\ where \in [Players -> {"none", "loaded", "world", "removed"}]
         /\ client \in [Players -> Protocols \cup {None}]
         /\ connecting \in [Players -> BOOLEAN]
         /\ uses \in [Players -> Nat] /\ frees \in [Players -> Nat]
         /\ overtaken \subseteq Players
BY SessionsAssumption DEF TypeOK

LEMMA HoldersFinite ==
  ASSUME NEW h, NEW o
  PROVE  /\ IsFiniteSet(Holders(h, o)) /\ Cardinality(Holders(h, o)) \in Nat
         /\ Cardinality(Holders(h, o)) = 0 => Holders(h, o) = {}
<1>1. Holders(h, o) \in SUBSET Protocols
  BY DEF Holders
<1>2. IsFiniteSet(Holders(h, o))
  BY <1>1, SessionsAssumption, FS_Subset
<1>3. QED
  BY <1>2, FS_CardinalityType, FS_EmptySet

\* A protocol that held nobody holds o.
LEMMA OneMoreHolder ==
  ASSUME TypeOK, NEW p \in Protocols, NEW o \in Players, held[p] = None,
         held' = [held EXCEPT ![p] = o]
  PROVE  /\ Cardinality(Holders(held', o)) = Cardinality(Holders(held, o)) + 1
         /\ \A q \in Players \ {o} : Holders(held', q) = Holders(held, q)
         /\ held' \in [Protocols -> Players \cup {None}]
         /\ held'[p] = o /\ \A c \in Protocols \ {p} : held'[c] = held[c]
<1>1. /\ held' \in [Protocols -> Players \cup {None}]
      /\ held'[p] = o /\ \A c \in Protocols \ {p} : held'[c] = held[c]
      /\ None \notin Players
  BY Typed
<1>2. Holders(held', o) = Holders(held, o) \cup {p} /\ p \notin Holders(held, o)
  BY <1>1 DEF Holders
<1>3. \A q \in Players \ {o} : Holders(held', q) = Holders(held, q)
  BY <1>1 DEF Holders
<1>4. Cardinality(Holders(held, o) \cup {p}) = Cardinality(Holders(held, o)) + 1
  BY <1>2, HoldersFinite, FS_AddElement
<1>5. QED
  BY <1>1, <1>2, <1>3, <1>4

\* A protocol gives back whom it held.
LEMMA OneHolderLess ==
  ASSUME TypeOK, NEW p \in Protocols, held' = [held EXCEPT ![p] = None]
  PROVE  /\ \A o \in Players :
              Cardinality(Holders(held', o))
                = Cardinality(Holders(held, o)) - (IF o = held[p] THEN 1 ELSE 0)
         /\ held' \in [Protocols -> Players \cup {None}]
         /\ held'[p] = None /\ \A c \in Protocols \ {p} : held'[c] = held[c]
<1>1. /\ held' \in [Protocols -> Players \cup {None}]
      /\ held'[p] = None /\ \A c \in Protocols \ {p} : held'[c] = held[c]
      /\ None \notin Players
  BY Typed
<1>2. ASSUME NEW o \in Players
      PROVE  Cardinality(Holders(held', o))
               = Cardinality(Holders(held, o)) - (IF o = held[p] THEN 1 ELSE 0)
  <2>1. CASE o = held[p]
    <3>1. Holders(held', o) = Holders(held, o) \ {p} /\ p \in Holders(held, o)
      BY <1>1, <2>1 DEF Holders
    <3>2. Cardinality(Holders(held, o) \ {p}) = Cardinality(Holders(held, o)) - 1
      BY <3>1, HoldersFinite, FS_RemoveElement
    <3>3. QED
      BY <2>1, <3>1, <3>2
  <2>2. CASE o # held[p]
    <3>1. Holders(held', o) = Holders(held, o)
      BY <1>1, <2>2 DEF Holders
    <3>2. QED
      BY <2>2, <3>1, HoldersFinite
  <2>3. QED
    BY <2>1, <2>2
<1>3. QED
  BY <1>1, <1>2

\* A Player that can be made again is held by nobody and given back by all.
LEMMA FreshIsClean ==
  ASSUME IInv, NEW o \in Players, where[o] = "none"
  PROVE  /\ uses[o] = 0 /\ frees[o] = 0 /\ client[o] = None /\ ~connecting[o]
         /\ Holders(held, o) = {} /\ Cardinality(Holders(held, o)) = 0
<1>1. uses[o] = 0 /\ client[o] = None /\ ~connecting[o]
  BY DEF IInv, Clean
<1>2. uses[o] = (IF o \in InWorld THEN 1 ELSE 0) + Cardinality(Holders(held, o)) + frees[o]
  BY DEF IInv, SessionsSound, Balanced, Holders
<1>3. o \notin InWorld /\ frees[o] \in Nat
  BY Typed DEF InWorld, IInv, SessionsSound
<1>4. Cardinality(Holders(held, o)) \in Nat
  BY HoldersFinite
<1>5. Cardinality(Holders(held, o)) = 0 /\ frees[o] = 0
  BY <1>1, <1>2, <1>3, <1>4
<1>6. QED
  BY <1>1, <1>5, HoldersFinite

-----------------------------------------------------------------------------
(* Who is in the world                                                     *)

\* As long as nobody comes in and no name changes there are no more of a character, and a
\* server that is closed stays empty.
LEMMA WorldShrinks ==
  ASSUME TypeOK, OneInWorld, OneOnAccount, ClosedEmpty,
         InWorld' \subseteq InWorld, \A o \in InWorld' : name'[o] = name[o],
         gameState' = "CLOSED" =>
           gameState = "CLOSED" \/ \A o \in InWorld' : name[o] \in AlwaysLogin
  PROVE  OneInWorld' /\ OneOnAccount' /\ ClosedEmpty'
<1>1. OneOnAccount' /\ ClosedEmpty'
  BY DEF OneOnAccount, ClosedEmpty
<1>2. ASSUME NEW n \in Names
      PROVE  Cardinality(Named(n)') <= (IF AllowClones = 0 THEN 1 ELSE AllowClones)
  <2>1. Named(n)' \in SUBSET Named(n) /\ Named(n) \in SUBSET Players
    BY DEF Named, InWorld
  <2>2. IsFiniteSet(Named(n))
    BY <2>1, SessionsAssumption, FS_Subset
  <2>3. /\ Cardinality(Named(n)') <= Cardinality(Named(n))
        /\ Cardinality(Named(n)) \in Nat /\ Cardinality(Named(n)') \in Nat
    BY <2>1, <2>2, FS_Subset, FS_CardinalityType
  <2>4. Cardinality(Named(n)) <= (IF AllowClones = 0 THEN 1 ELSE AllowClones)
    BY DEF OneInWorld
  <2>5. QED
    BY <2>3, <2>4, SessionsAssumption
<1>3. QED
  BY <1>1, <1>2 DEF OneInWorld

-----------------------------------------------------------------------------
(* Steps that only post, close and remove                                  *)

LEMMA PendingTasks ==
  ASSUME Orderly(queue, sched)
  PROVE  \A t \in Pending : t \in Tasks /\ t.proto \in Protocols
<1>1. \A t \in ToSet(queue) : t \in Tasks
  BY DEF Orderly, ToSet
<1>2. \A t \in Pending : t \in Tasks
  BY <1>1 DEF Orderly, Pending
<1>3. QED
  BY <1>2 DEF Tasks

\* The task that is run fits, and so do those that stay.
LEMMA Taken ==
  ASSUME IInv, NEW op, NEW p \in Protocols, Runs(op, p)
  PROVE  /\ Head(queue).op = op /\ Head(queue).proto = p
         /\ Orderly(Tail(queue), sched) /\ Fits(Head(queue))
         /\ ToSet(Tail(queue)) \subseteq Pending /\ sched \subseteq Pending
         /\ \A u \in ToSet(Tail(queue)) \cup sched : Fits(u) /\ u \in Tasks
         /\ \A u \in Pending : u \in ToSet(Tail(queue)) \cup sched \/ u = Head(queue)
         /\ op # "logout" => \A u \in ToSet(Tail(queue)) \cup sched :
                               ~(u.op = op /\ u.proto = p)
         /\ op = "close" => \A u \in ToSet(Tail(queue)) : u.proto = p =>
                              u.op \notin {"login", "logout"}
<1>1. queue # <<>> /\ Head(queue).op = op /\ Head(queue).proto = p
  BY DEF Runs
<1>2. Orderly(queue, sched) /\ \A t \in Pending : Fits(t)
  BY DEF IInv, AllFit
<1>3. /\ Orderly(Tail(queue), sched) /\ Head(queue) \in Tasks
      /\ ToSet(queue) = ToSet(Tail(queue)) \cup {Head(queue)}
      /\ Head(queue).op # "logout" =>
           \A t \in ToSet(Tail(queue)) \cup sched : ~Same(Head(queue), t)
      /\ Head(queue).op = "close" =>
           \A t \in ToSet(Tail(queue)) : t.proto = Head(queue).proto =>
             t.op \notin {"login", "logout"}
  BY <1>1, <1>2, OrderlyTail
<1>4. \A u \in ToSet(Tail(queue)) : u \in Tasks
  BY <1>3 DEF Orderly, ToSet
<1>5. sched \subseteq Tasks
  BY <1>2 DEF Orderly
<1>6. QED
  BY <1>1, <1>2, <1>3, <1>4, <1>5 DEF Pending, Same

\* What CloseAll does to the stages of the protocols and the tasks that wait.
LEMMA PostClose ==
  ASSUME IInv, NEW P \in SUBSET Protocols, NEW rest, NEW s, Orderly(rest, s),
         ToSet(rest) \subseteq Pending, CloseAll(P, rest), life' = life
  PROVE  /\ Orderly(queue', s)
         /\ ToSet(rest) \subseteq ToSet(queue')
         /\ \A t \in ToSet(queue') :
              \/ t \in ToSet(rest)
              \/ t.op = "close" /\ t.proto \in P /\ Fits(t)'
         /\ conn' \in [Protocols -> {"none", "open", "requested", "closed"}]
         /\ \A p \in Protocols :
              conn'[p] = conn[p] \/ (p \in P /\ conn[p] = "open" /\ conn'[p] = "requested")
         /\ \A p \in P : conn'[p] # "open"
<1>1. TypeOK
  BY DEF IInv, SessionsSound
<1>2. \A p \in P : conn[p] = "open" =>
        \A u \in ToSet(rest) : ~(u.op = "close" /\ u.proto = p)
  BY DEF IInv, AllFit, Fits
<1>3. /\ Orderly(queue', s)
      /\ ToSet(rest) \subseteq ToSet(queue')
      /\ \A t \in ToSet(queue') :
           \/ t \in ToSet(rest)
           \/ t.op = "close" /\ t.proto \in P /\ conn[t.proto] = "open"
      /\ conn' \in [Protocols -> {"none", "open", "requested", "closed"}]
      /\ \A p \in Protocols :
           conn'[p] = IF p \in P /\ conn[p] = "open" THEN "requested" ELSE conn[p]
  BY <1>1, <1>2, CloseAllShape
<1>4. ASSUME NEW t \in ToSet(queue'), t.op = "close", t.proto \in P, conn[t.proto] = "open"
      PROVE  Fits(t)'
  <2>1. life'[t.proto] = "live" /\ conn'[t.proto] = "requested"
    BY <1>3, <1>4 DEF IInv, Lives
  <2>2. QED
    BY <1>4, <2>1 DEF Fits
<1>5. QED
  BY <1>3, <1>4

\* A step that posts tasks that fit, asks connections to close and removes the players O;
\* it may count the protocol of a task and mark a player for whom a connect is posted.
LEMMA LeaveStep ==
  ASSUME IInv, NEW O, O \subseteq InWorld,
         UNCHANGED <<life, held, accepts, name, client, uses>>,
         refs' \in [Protocols -> 0 .. 1],
         \A p \in Protocols : life[p] = "none" => refs'[p] = refs[p],
         connecting' \in [Players -> BOOLEAN],
         \A o \in Players : where[o] = "none" => connecting'[o] = connecting[o],
         where' \in [Players -> {"none", "loaded", "world", "removed"}],
         frees' \in [Players -> Nat],
         \A o \in Players : /\ where'[o] = IF o \in O THEN "removed" ELSE where[o]
                            /\ frees'[o] = IF o \in O THEN frees[o] + 1 ELSE frees[o],
         Orderly(queue', sched'),
         \A t \in Pending' : (t \in Pending /\ refs'[t.proto] = refs[t.proto]) \/ Fits(t)',
         conn' \in [Protocols -> {"none", "open", "requested", "closed"}],
         \A p \in Protocols :
           conn'[p] = conn[p] \/ (conn[p] = "open" /\ conn'[p] = "requested"),
         gameState' \in States \cup {"NORMAL"},
         gameState' = "CLOSED" =>
           gameState = "CLOSED" \/ \A o \in InWorld' : name[o] \in AlwaysLogin,
         overtaken \subseteq overtaken', overtaken' \subseteq Players,
         Running' =>
           /\ Running
           /\ \A t \in Pending : t.op = "connect" /\ t.arg \in InWorld =>
                                   t \in Pending' \/ t.arg \in overtaken'
           /\ \A o \in InWorld : connecting'[o] /\ ~connecting[o] =>
                \E t \in Pending' : t.op = "connect" /\ t.arg = o
  PROVE  IInv'
<1>. USE DEF IInv, SessionsSound
<1>1. /\ life' = life /\ held' = held /\ accepts' = accepts
      /\ name' = name /\ client' = client /\ uses' = uses
  OBVIOUS
<1>2. TypeOK'
  BY <1>1 DEF TypeOK, Orderly
<1>3. InWorld' = InWorld \ O
  BY DEF InWorld
<1>4. OneInWorld' /\ OneOnAccount' /\ ClosedEmpty'
  BY <1>1, <1>3, WorldShrinks
<1>5. OneController'
  BY <1>1 DEF OneController
<1>6. ASSUME NEW t \in Pending'
      PROVE  Fits(t)'
  <2>1. CASE t \in Pending /\ refs'[t.proto] = refs[t.proto]
    <3>1. Fits(t) /\ t.proto \in Protocols
      BY <2>1, PendingTasks DEF AllFit
    <3>2. QED
      BY <1>1, <2>1, <3>1 DEF Fits
  <2>2. CASE Fits(t)'
    BY <2>2
  <2>3. QED
    BY <1>6, <2>1, <2>2
<1>7. AllFit' /\ NoStaleTask'
  BY <1>6 DEF AllFit, NoStaleTask, Fits
<1>8. ASSUME NEW o \in Players
      PROVE  uses'[o] = (IF o \in InWorld' THEN 1 ELSE 0)
                        + Cardinality(Holders(held', o)) + frees'[o]
  <2>1. uses[o] = (IF o \in InWorld THEN 1 ELSE 0) + Cardinality(Holders(held, o)) + frees[o]
    BY DEF Balanced, Holders
  <2>2. Cardinality(Holders(held, o)) \in Nat /\ frees[o] \in Nat
    BY HoldersFinite DEF TypeOK
  <2>3. CASE o \in O
    BY <1>1, <1>3, <2>1, <2>2, <2>3
  <2>4. CASE o \notin O
    BY <1>1, <1>3, <2>1, <2>2, <2>4
  <2>5. QED
    BY <2>3, <2>4
<1>9. Balanced'
  BY <1>8 DEF Balanced, Holders
<1>10. ConnectOnItsWay'
  BY <1>1, <1>3 DEF ConnectOnItsWay
<1>11. Lives'
  BY <1>1 DEF Lives
<1>12. Clean'
  BY <1>1 DEF Clean, InWorld
<1>13. QED
  BY <1>2, <1>4, <1>5, <1>7, <1>9, <1>10, <1>11, <1>12

\* The same with nothing posted but closes, and nobody marked or counted.
LEMMA CloseStep ==
  ASSUME IInv, NEW P \in SUBSET Protocols, NEW rest, NEW O, O \subseteq InWorld,
         Orderly(rest, sched'), ToSet(rest) \cup sched' \subseteq Pending,
         CloseAll(P, rest),
         UNCHANGED <<life, held, accepts, refs, name, client, connecting, uses, overtaken>>,
         RemoveCreatures(O) \/ (O = {} /\ UNCHANGED <<where, frees>>),
         gameState' \in States \cup {"NORMAL"},
         gameState' = "CLOSED" =>
           gameState = "CLOSED" \/ \A o \in InWorld' : name[o] \in AlwaysLogin,
         Running' =>
           /\ Running
           /\ \A t \in Pending : t.op = "connect" => t \in ToSet(rest) \cup sched'
  PROVE  IInv'
<1>1. TypeOK
  BY DEF IInv, SessionsSound
<1>2. life' = life
  OBVIOUS
<1>3. /\ Orderly(queue', sched')
      /\ ToSet(rest) \subseteq ToSet(queue')
      /\ \A t \in ToSet(queue') :
           \/ t \in ToSet(rest)
           \/ t.op = "close" /\ t.proto \in P /\ Fits(t)'
      /\ conn' \in [Protocols -> {"none", "open", "requested", "closed"}]
      /\ \A p \in Protocols :
           conn'[p] = conn[p] \/ (p \in P /\ conn[p] = "open" /\ conn'[p] = "requested")
  BY <1>2, PostClose
<1>4. /\ where' \in [Players -> {"none", "loaded", "world", "removed"}]
      /\ frees' \in [Players -> Nat]
      /\ \A o \in Players : /\ where'[o] = IF o \in O THEN "removed" ELSE where[o]
                            /\ frees'[o] = IF o \in O THEN frees[o] + 1 ELSE frees[o]
  <2>1. CASE RemoveCreatures(O)
    BY <1>1, <2>1, Typed DEF RemoveCreatures
  <2>2. CASE O = {} /\ UNCHANGED <<where, frees>>
    BY <1>1, <2>2, Typed
  <2>3. QED
    BY <2>1, <2>2
<1>5. \A t \in Pending' : (t \in Pending /\ refs'[t.proto] = refs[t.proto]) \/ Fits(t)'
  BY <1>3 DEF Pending
<1>6. Running' =>
        /\ Running
        /\ \A t \in Pending : t.op = "connect" /\ t.arg \in InWorld =>
                                t \in Pending' \/ t.arg \in overtaken'
        /\ \A o \in InWorld : connecting'[o] /\ ~connecting[o] =>
             \E t \in Pending' : t.op = "connect" /\ t.arg = o
  BY <1>3 DEF Pending
<1>7. /\ refs' \in [Protocols -> 0 .. 1] /\ connecting' \in [Players -> BOOLEAN]
      /\ overtaken' \subseteq Players
  BY <1>1, Typed
<1>8. QED
  BY <1>3, <1>4, <1>5, <1>6, <1>7, LeaveStep

LEMMA DropStep ==
  ASSUME IInv, NEW p \in Protocols, Drop(p)
  PROVE  IInv'
<1>. DEFINE O == {}
<1>1. /\ Orderly(queue, sched) /\ gameState \in States \cup {"NORMAL"}
      /\ ToSet(queue) \cup sched \subseteq Pending /\ O = {} /\ O \subseteq InWorld
      /\ Pending = ToSet(queue) \cup sched
  BY DEF IInv, SessionsSound, TypeOK, Pending
<1>2. /\ {p} \in SUBSET Protocols /\ CloseAll({p}, queue) /\ sched' = sched
      /\ gameState' = gameState /\ Running
      /\ UNCHANGED <<life, held, accepts, refs, name, client, connecting, uses, overtaken>>
      /\ UNCHANGED <<where, frees>>
  BY DEF Drop, playerVars
<1>. HIDE DEF O
<1>3. QED
  BY <1>1, <1>2, CloseStep DEF Running

LEMMA LoginAlreadyStep ==
  ASSUME IInv, NEW p \in Protocols, NEW o \in Players, LoginAlready(p, o)
  PROVE  IInv'
<1>. DEFINE O == {}
<1>1. Runs("login", p) /\ gameState \in States \cup {"NORMAL"} /\ O = {} /\ O \subseteq InWorld
  BY DEF LoginAlready, IInv, SessionsSound, TypeOK
<1>2. /\ Orderly(Tail(queue), sched) /\ ToSet(Tail(queue)) \cup sched \subseteq Pending
      /\ \A t \in Pending : t.op = "connect" => t \in ToSet(Tail(queue)) \cup sched
  BY <1>1, Taken
<1>3. /\ {p} \in SUBSET Protocols /\ CloseAll({p}, Tail(queue)) /\ sched' = sched
      /\ gameState' = gameState
      /\ UNCHANGED <<life, held, accepts, refs, name, client, connecting, uses, overtaken>>
      /\ UNCHANGED <<where, frees>>
  BY DEF LoginAlready, playerVars
<1>. HIDE DEF O
<1>4. QED
  BY <1>1, <1>2, <1>3, CloseStep DEF Running

LEMMA RunLogoutStep ==
  ASSUME IInv, NEW p \in Protocols, RunLogout(p)
  PROVE  IInv'
<1>1. /\ Runs("logout", p) /\ gameState \in States \cup {"NORMAL"}
      /\ {held[p]} \intersect InWorld \subseteq InWorld
  BY DEF RunLogout, IInv, SessionsSound, TypeOK
<1>2. /\ Orderly(Tail(queue), sched) /\ ToSet(Tail(queue)) \cup sched \subseteq Pending
      /\ \A t \in Pending : t.op = "connect" => t \in ToSet(Tail(queue)) \cup sched
  BY <1>1, Taken
<1>3. /\ {p} \in SUBSET Protocols /\ CloseAll({p}, Tail(queue)) /\ sched' = sched
      /\ gameState' = gameState /\ RemoveCreatures({held[p]} \intersect InWorld)
      /\ UNCHANGED <<life, held, accepts, refs, name, client, connecting, uses, overtaken>>
  BY DEF RunLogout
<1>4. QED
  BY <1>1, <1>2, <1>3, CloseStep DEF Running

LEMMA IdleStep ==
  ASSUME IInv, NEW o \in Players, Idle(o)
  PROVE  IInv'
<1>1. /\ Orderly(queue, sched) /\ gameState \in States \cup {"NORMAL"}
      /\ ToSet(queue) \cup sched \subseteq Pending
      /\ Pending = ToSet(queue) \cup sched
      /\ {client[o]} \ {None} \in SUBSET Protocols
  BY Typed DEF IInv, SessionsSound, TypeOK, Pending
<1>2. /\ CloseAll({client[o]} \ {None}, queue) /\ sched' = sched
      /\ gameState' = gameState /\ {o} \subseteq InWorld /\ RemoveCreatures({o})
      /\ UNCHANGED <<life, held, accepts, refs, name, client, connecting, uses, overtaken>>
  BY DEF Idle
<1>3. QED
  BY <1>1, <1>2, CloseStep DEF Running

LEMMA SetGameStateStep ==
  ASSUME IInv, NEW s \in States, SetGameState(s)
  PROVE  IInv'
<1>. DEFINE P == {client[o] : o \in Kicked(s)} \ {None}
<1>1. /\ Orderly(queue, sched') /\ Kicked(s) \subseteq InWorld
      /\ P \in SUBSET Protocols
      /\ ToSet(queue) \cup sched' \subseteq Pending
      /\ s # "SHUTDOWN" => ToSet(queue) \cup sched' = Pending
  <2>1. Orderly(queue, sched) /\ Orderly(queue, {})
    BY OrderlyNone DEF IInv
  <2>2. sched' = IF s = "SHUTDOWN" THEN {} ELSE sched
    BY DEF SetGameState
  <2>3. Kicked(s) \subseteq InWorld
    BY DEF Kicked
  <2>4. Kicked(s) \subseteq Players
    BY <2>3 DEF InWorld
  <2>5. client \in [Players -> Protocols \cup {None}]
    BY Typed DEF IInv, SessionsSound
  <2>6. P \in SUBSET Protocols
    BY <2>4, <2>5
  <2>7. QED
    BY <2>1, <2>2, <2>3, <2>6 DEF Pending
<1>2. /\ CloseAll(P, queue) /\ RemoveCreatures(Kicked(s)) /\ gameState' = s /\ Running
      /\ UNCHANGED <<life, held, accepts, refs, name, client, connecting, uses, overtaken>>
  BY DEF SetGameState
<1>3. gameState' = "CLOSED" => \A o \in InWorld' : name[o] \in AlwaysLogin
  BY <1>2 DEF RemoveCreatures, InWorld, Kicked
<1>. HIDE DEF P
<1>4. Running' =>
        /\ Running
        /\ \A t \in Pending : t.op = "connect" => t \in ToSet(queue) \cup sched'
  BY <1>1, <1>2 DEF Running
<1>5. QED
  BY <1>1, <1>2, <1>3, <1>4, CloseStep

\* A step that only posts or takes tasks.
LEMMA PostStep ==
  ASSUME IInv, UNCHANGED <<gameState, protoVars, playerVars>>, Orderly(queue', sched'),
         \A t \in Pending' : t \in Pending \/ Fits(t),
         \A t \in Pending : t.op = "connect" => t \in Pending'
  PROVE  IInv'
<1>. DEFINE O == {}
<1>1. /\ gameState' = gameState /\ conn' = conn /\ life' = life /\ held' = held
      /\ accepts' = accepts /\ refs' = refs
      /\ name' = name /\ where' = where /\ client' = client /\ connecting' = connecting
      /\ uses' = uses /\ frees' = frees /\ overtaken' = overtaken
  BY DEF protoVars, playerVars
<1>2. \A t \in Pending' : (t \in Pending /\ refs'[t.proto] = refs[t.proto]) \/ Fits(t)'
  BY <1>1 DEF Fits
<1>3. TypeOK
  BY DEF IInv, SessionsSound
<1>4. /\ refs' \in [Protocols -> 0 .. 1] /\ connecting' \in [Players -> BOOLEAN]
      /\ where' \in [Players -> {"none", "loaded", "world", "removed"}]
      /\ frees' \in [Players -> Nat] /\ overtaken' \subseteq Players
      /\ conn' \in [Protocols -> {"none", "open", "requested", "closed"}]
      /\ gameState' \in States \cup {"NORMAL"}
  BY <1>1, <1>3 DEF TypeOK
<1>5. /\ O \subseteq InWorld
      /\ \A o \in Players : /\ where'[o] = IF o \in O THEN "removed" ELSE where[o]
                            /\ frees'[o] = IF o \in O THEN frees[o] + 1 ELSE frees[o]
  BY <1>1
<1>. HIDE DEF O
<1>6. QED
  BY <1>1, <1>2, <1>4, <1>5, LeaveStep DEF Running

LEMMA ParseLogoutStep ==
  ASSUME IInv, NEW p \in Protocols, ParseLogout(p)
  PROVE  IInv'
<1>. DEFINE t == Task("logout", p, None)
<1>1. /\ conn[p] = "open" /\ queue' = Append(queue, t)
      /\ sched' = sched /\ UNCHANGED <<gameState, protoVars, playerVars>>
  BY DEF ParseLogout
<1>2. t \in Tasks /\ t.op = "logout" /\ t.proto = p
  BY DEF Task, Tasks
<1>3. Fits(t)
  BY <1>1, <1>2 DEF Fits, IInv, Lives
<1>4. Orderly(queue, sched) /\ \A u \in ToSet(queue) : Fits(u)
  BY DEF IInv, AllFit, Pending
<1>5. \A u \in ToSet(queue) : u.proto = t.proto => u.op # "close"
  BY <1>1, <1>2, <1>4 DEF Fits
<1>. HIDE DEF t
<1>6. Orderly(queue', sched') /\ ToSet(queue') = ToSet(queue) \cup {t}
  BY <1>1, <1>2, <1>4, <1>5, OrderlyAppend
<1>7. QED
  BY <1>1, <1>3, <1>6, PostStep DEF Pending

LEMMA DueStep ==
  ASSUME IInv, NEW t \in sched, Due(t)
  PROVE  IInv'
<1>1. /\ sched' = sched \ {t} /\ queue' = Append(queue, t)
      /\ UNCHANGED <<gameState, protoVars, playerVars>>
  BY DEF Due
<1>2. Orderly(queue', sched') /\ ToSet(queue') \cup sched' = ToSet(queue) \cup sched
  BY <1>1, OrderlyDue DEF IInv
<1>3. QED
  BY <1>1, <1>2, PostStep DEF Pending

LEMMA RunLogoutRefusedStep ==
  ASSUME IInv, NEW p \in Protocols, RunLogoutRefused(p)
  PROVE  IInv'
<1>1. /\ Runs("logout", p) /\ queue' = Tail(queue) /\ sched' = sched
      /\ UNCHANGED <<gameState, protoVars, playerVars>>
  BY DEF RunLogoutRefused
<1>2. /\ Orderly(Tail(queue), sched) /\ ToSet(Tail(queue)) \cup sched \subseteq Pending
      /\ \A t \in Pending : t.op = "connect" => t \in ToSet(Tail(queue)) \cup sched
  BY <1>1, Taken
<1>3. Orderly(queue', sched') /\ Pending' = ToSet(Tail(queue)) \cup sched
  BY <1>1, <1>2 DEF Pending
<1>4. QED
  BY <1>1, <1>2, <1>3, PostStep

LEMMA DieStep ==
  ASSUME IInv, NEW o \in Players, Die(o)
  PROVE  IInv'
<1>. DEFINE O == {o}
<1>1. /\ O \subseteq InWorld /\ RemoveCreatures(O)
      /\ gameState' = gameState /\ queue' = queue /\ sched' = sched /\ conn' = conn
      /\ life' = life /\ held' = held /\ accepts' = accepts /\ refs' = refs
      /\ name' = name /\ client' = client /\ connecting' = connecting
      /\ uses' = uses /\ overtaken' = overtaken
  BY DEF Die, protoVars
<1>2. TypeOK /\ Orderly(queue, sched)
  BY DEF IInv, SessionsSound
<1>3. /\ where' \in [Players -> {"none", "loaded", "world", "removed"}]
      /\ frees' \in [Players -> Nat]
      /\ \A q \in Players : /\ where'[q] = IF q \in O THEN "removed" ELSE where[q]
                            /\ frees'[q] = IF q \in O THEN frees[q] + 1 ELSE frees[q]
  BY <1>1, <1>2, Typed DEF RemoveCreatures
<1>4. /\ refs' \in [Protocols -> 0 .. 1] /\ connecting' \in [Players -> BOOLEAN]
      /\ overtaken' \subseteq Players
      /\ conn' \in [Protocols -> {"none", "open", "requested", "closed"}]
      /\ gameState' \in States \cup {"NORMAL"}
  BY <1>1, <1>2 DEF TypeOK
<1>5. Pending' = Pending /\ (Running' => Running)
  BY <1>1 DEF Pending, Running
<1>. HIDE DEF O
<1>6. QED
  BY <1>1, <1>2, <1>3, <1>4, <1>5, LeaveStep

\* A refused connect gives the protocol back and closes the connection.
LEMMA RunConnectRefusedStep ==
  ASSUME IInv, NEW p \in Protocols, NEW o \in Players, RunConnectRefused(p, o)
  PROVE  IInv'
<1>. DEFINE O == {}
            rest == Tail(queue)
<1>1. /\ Runs("connect", p) /\ Head(queue).arg = o /\ CloseAll({p}, Tail(queue))
      /\ refs' = [refs EXCEPT ![p] = 0]
      /\ overtaken' = IF where[o] = "world" THEN overtaken \union {o} ELSE overtaken
      /\ gameState' = gameState /\ sched' = sched /\ life' = life /\ held' = held
      /\ accepts' = accepts /\ name' = name /\ where' = where /\ client' = client
      /\ connecting' = connecting /\ uses' = uses /\ frees' = frees
  BY DEF RunConnectRefused, DropRef
<1>2. TypeOK /\ {p} \in SUBSET Protocols /\ Orderly(queue, sched)
  BY DEF IInv, SessionsSound
<1>3. /\ Fits(Head(queue)) /\ Head(queue).proto = p /\ Head(queue).op = "connect"
      /\ Orderly(rest, sched) /\ ToSet(rest) \subseteq Pending /\ sched \subseteq Pending
      /\ \A u \in ToSet(rest) \cup sched : Fits(u) /\ ~(u.op = "connect" /\ u.proto = p)
      /\ \A u \in Pending : u \in ToSet(rest) \cup sched \/ u = Head(queue)
  BY <1>1, Taken
<1>4. /\ Orderly(queue', sched')
      /\ ToSet(rest) \subseteq ToSet(queue')
      /\ \A t \in ToSet(queue') : t \in ToSet(rest) \/ Fits(t)'
      /\ conn' \in [Protocols -> {"none", "open", "requested", "closed"}]
      /\ \A c \in Protocols :
           conn'[c] = conn[c] \/ (c \in {p} /\ conn[c] = "open" /\ conn'[c] = "requested")
  <2>. HIDE DEF rest
  <2>1. CloseAll({p}, rest)
    BY <1>1 DEF rest
  <2>2. QED
    BY <1>1, <1>2, <1>3, <2>1, PostClose
<1>5. /\ refs' \in [Protocols -> 0 .. 1] /\ refs'[p] = 0
      /\ \A c \in Protocols \ {p} : refs'[c] = refs[c]
  BY <1>1, <1>2, Typed
<1>6. ASSUME NEW t \in Pending'
      PROVE  (t \in Pending /\ refs'[t.proto] = refs[t.proto]) \/ Fits(t)'
  <2>1. t \in ToSet(rest) \cup sched \/ Fits(t)'
    BY <1>1, <1>4, <1>6 DEF Pending
  <2>2. CASE t \in ToSet(rest) \cup sched /\ t.proto # p
    <3>1. t \in Pending /\ t.proto \in Protocols
      BY <1>2, <1>3, <2>2, PendingTasks
    <3>2. QED
      BY <1>5, <2>2, <3>1
  <2>3. CASE t \in ToSet(rest) \cup sched /\ t.proto = p
    <3>1. Fits(t) /\ t.op # "connect"
      BY <1>3, <2>3
    <3>2. conn'[p] = conn[p] \/ (conn[p] = "open" /\ conn'[p] = "requested")
      BY <1>4
    <3>3. Fits(t)'
      BY <1>1, <1>5, <2>3, <3>1, <3>2 DEF Fits
    <3>4. QED
      BY <3>3
  <2>4. QED
    BY <2>1, <2>2, <2>3
<1>7. Running' =>
        /\ Running
        /\ \A t \in Pending : t.op = "connect" /\ t.arg \in InWorld =>
                                t \in Pending' \/ t.arg \in overtaken'
        /\ \A q \in InWorld : connecting'[q] /\ ~connecting[q] =>
             \E t \in Pending' : t.op = "connect" /\ t.arg = q
  <2>1. ASSUME NEW t \in Pending, t.arg \in InWorld
        PROVE  t \in Pending' \/ t.arg \in overtaken'
    <3>1. t \in ToSet(rest) \cup sched \/ t = Head(queue)
      BY <1>3
    <3>2. CASE t \in ToSet(rest) \cup sched
      BY <1>1, <1>4, <3>2 DEF Pending
    <3>3. CASE t = Head(queue)
      BY <1>1, <2>1, <3>3 DEF InWorld
    <3>4. QED
      BY <3>1, <3>2, <3>3
  <2>2. QED
    BY <1>1, <2>1 DEF Running
<1>8. /\ connecting' \in [Players -> BOOLEAN] /\ overtaken' \subseteq Players
      /\ overtaken \subseteq overtaken'
      /\ where' \in [Players -> {"none", "loaded", "world", "removed"}]
      /\ frees' \in [Players -> Nat] /\ gameState' \in States \cup {"NORMAL"}
  BY <1>1, <1>2 DEF TypeOK
<1>9. /\ O \subseteq InWorld
      /\ \A q \in Players : /\ where'[q] = IF q \in O THEN "removed" ELSE where[q]
                            /\ frees'[q] = IF q \in O THEN frees[q] + 1 ELSE frees[q]
  BY <1>1
<1>10. \A c \in Protocols : life[c] = "none" => refs'[c] = refs[c]
  <2>1. life[p] = "live"
    BY <1>3 DEF Fits
  <2>2. QED
    BY <1>5, <2>1
<1>. HIDE DEF O
<1>11. QED
  BY <1>1, <1>4, <1>5, <1>6, <1>7, <1>8, <1>9, <1>10, LeaveStep

\* The login that replaces: a connect waits for its time, and counts its protocol.
LEMMA LoginReplaceStep ==
  ASSUME IInv, NEW p \in Protocols, NEW o \in Players, LoginReplace(p, o)
  PROVE  IInv'
<1>. DEFINE O == {}
            rest == Tail(queue)
            t0 == Task("connect", p, o)
<1>1. /\ Runs("login", p) /\ o \in InWorld /\ client[o] # None
      /\ CloseAll({client[o]}, Tail(queue))
      /\ connecting' = [connecting EXCEPT ![o] = TRUE]
      /\ refs' = [refs EXCEPT ![p] = 1]
      /\ sched' = IF Running THEN sched \union {t0} ELSE sched
      /\ gameState' = gameState /\ life' = life /\ held' = held
      /\ accepts' = accepts /\ name' = name /\ where' = where /\ client' = client
      /\ uses' = uses /\ frees' = frees /\ overtaken' = overtaken
  BY DEF LoginReplace, TakeRef, Named
<1>2. TypeOK /\ Orderly(queue, sched) /\ {client[o]} \in SUBSET Protocols
  BY <1>1, Typed DEF IInv, SessionsSound
<1>3. /\ Fits(Head(queue)) /\ Head(queue).proto = p /\ Head(queue).op = "login"
      /\ Orderly(rest, sched) /\ ToSet(rest) \subseteq Pending /\ sched \subseteq Pending
      /\ \A u \in ToSet(rest) \cup sched : Fits(u) /\ ~(u.op = "login" /\ u.proto = p)
      /\ \A u \in Pending : u \in ToSet(rest) \cup sched \/ u = Head(queue)
  BY <1>1, Taken
<1>4. life[p] = "live" /\ refs[p] = 0 /\ held[p] = None
  BY <1>3 DEF Fits
<1>5. t0 \in Tasks /\ t0.op = "connect" /\ t0.proto = p /\ t0.arg = o
  BY DEF Task, Tasks
<1>6. /\ refs' \in [Protocols -> 0 .. 1] /\ refs'[p] = 1
      /\ \A c \in Protocols \ {p} : refs'[c] = refs[c]
  BY <1>1, <1>2, Typed
<1>7. \A u \in ToSet(rest) \cup sched : ~(u.proto = p /\ u.op \in {"login", "connect"})
  BY <1>3, <1>4 DEF Fits
<1>. HIDE DEF t0
<1>8. Orderly(rest, sched') /\ sched \subseteq sched' /\ sched' \subseteq sched \cup {t0}
  <2>1. \A u \in ToSet(rest) \cup sched : ~Same(t0, u)
    BY <1>5, <1>7 DEF Same
  <2>. HIDE DEF rest
  <2>2. Orderly(rest, sched \cup {t0})
    BY <1>3, <1>5, <2>1, OrderlySched
  <2>3. QED
    BY <1>1, <1>3, <2>2
<1>9. /\ Orderly(queue', sched')
      /\ ToSet(rest) \subseteq ToSet(queue')
      /\ \A t \in ToSet(queue') : t \in ToSet(rest) \/ Fits(t)'
      /\ conn' \in [Protocols -> {"none", "open", "requested", "closed"}]
      /\ \A c \in Protocols :
           conn'[c] = conn[c] \/ (conn[c] = "open" /\ conn'[c] = "requested")
  <2>. HIDE DEF rest
  <2>1. CloseAll({client[o]}, rest)
    BY <1>1 DEF rest
  <2>2. QED
    BY <1>1, <1>2, <1>3, <1>8, <2>1, PostClose
<1>10. Fits(t0)'
  BY <1>1, <1>4, <1>5, <1>6 DEF Fits
<1>11. ASSUME NEW t \in Pending'
       PROVE  (t \in Pending /\ refs'[t.proto] = refs[t.proto]) \/ Fits(t)'
  <2>1. t \in ToSet(rest) \cup sched \/ Fits(t)'
    BY <1>8, <1>9, <1>10, <1>11 DEF Pending
  <2>2. CASE t \in ToSet(rest) \cup sched /\ t.proto # p
    <3>1. t \in Pending /\ t.proto \in Protocols
      BY <1>2, <1>3, <2>2, PendingTasks
    <3>2. QED
      BY <1>6, <2>2, <3>1
  <2>3. CASE t \in ToSet(rest) \cup sched /\ t.proto = p
    <3>1. Fits(t) /\ t.op \notin {"login", "connect"}
      BY <1>3, <1>7, <2>3
    <3>2. conn'[p] = conn[p] \/ (conn[p] = "open" /\ conn'[p] = "requested")
      BY <1>9
    <3>3. Fits(t)'
      BY <1>1, <1>6, <2>3, <3>1, <3>2 DEF Fits
    <3>4. QED
      BY <3>3
  <2>4. QED
    BY <2>1, <2>2, <2>3
<1>12. Running' =>
         /\ Running
         /\ \A t \in Pending : t.op = "connect" /\ t.arg \in InWorld =>
                                 t \in Pending' \/ t.arg \in overtaken'
         /\ \A q \in InWorld : connecting'[q] /\ ~connecting[q] =>
              \E t \in Pending' : t.op = "connect" /\ t.arg = q
  <2>1. Running' => Running
    BY <1>1 DEF Running
  <2>2. \A t \in Pending : t.op = "connect" => t \in Pending'
    BY <1>3, <1>8, <1>9 DEF Pending
  <2>3. ASSUME Running, NEW q \in InWorld, connecting'[q], ~connecting[q]
        PROVE  \E t \in Pending' : t.op = "connect" /\ t.arg = q
    <3>1. q = o
      BY <1>1, <1>2, <2>3, Typed DEF InWorld
    <3>2. t0 \in Pending'
      BY <1>1, <2>3 DEF Pending
    <3>3. QED
      BY <1>5, <3>1, <3>2
  <2>4. QED
    BY <2>1, <2>2, <2>3
<1>13. /\ connecting' \in [Players -> BOOLEAN] /\ overtaken' \subseteq Players
       /\ where' \in [Players -> {"none", "loaded", "world", "removed"}]
       /\ frees' \in [Players -> Nat] /\ gameState' \in States \cup {"NORMAL"}
       /\ \A q \in Players : where[q] = "none" => connecting'[q] = connecting[q]
  BY <1>1, <1>2 DEF TypeOK, InWorld
<1>14. /\ O \subseteq InWorld
       /\ \A q \in Players : /\ where'[q] = IF q \in O THEN "removed" ELSE where[q]
                             /\ frees'[q] = IF q \in O THEN frees[q] + 1 ELSE frees[q]
  BY <1>1
<1>15. \A c \in Protocols : life[c] = "none" => refs'[c] = refs[c]
  BY <1>4, <1>6
<1>. HIDE DEF O
<1>16. QED
  BY <1>1, <1>6, <1>9, <1>11, <1>12, <1>13, <1>14, <1>15, LeaveStep

-----------------------------------------------------------------------------
(* The first packet, and the release of a protocol                         *)

LEMMA FirstPacketStep ==
  ASSUME IInv, NEW p \in Protocols, NEW n \in Names, FirstPacket(p, n)
  PROVE  IInv'
<1>. USE DEF IInv, SessionsSound
<1>. DEFINE t == Task("login", p, n)
<1>1. /\ life[p] = "none"
      /\ conn' = [conn EXCEPT ![p] = "open"] /\ life' = [life EXCEPT ![p] = "live"]
      /\ queue' = Append(queue, t)
      /\ gameState' = gameState /\ sched' = sched /\ held' = held /\ accepts' = accepts
      /\ refs' = refs /\ name' = name /\ where' = where /\ client' = client
      /\ connecting' = connecting /\ uses' = uses /\ frees' = frees
      /\ overtaken' = overtaken
  BY DEF FirstPacket, playerVars
<1>2. t \in Tasks /\ t.op = "login" /\ t.proto = p /\ t.arg = n
  BY DEF Task, Tasks
<1>3. refs[p] = 0 /\ held[p] = None
  BY <1>1 DEF Lives
<1>4. /\ conn' \in [Protocols -> {"none", "open", "requested", "closed"}]
      /\ life' \in [Protocols -> {"none", "live", "deleted"}]
      /\ conn'[p] = "open" /\ life'[p] = "live"
      /\ \A c \in Protocols \ {p} : conn'[c] = conn[c] /\ life'[c] = life[c]
  BY <1>1, Typed
<1>5. \A u \in Pending : Fits(u) /\ u.proto \in Protocols \ {p}
  BY <1>1, PendingTasks DEF AllFit, Fits
<1>. HIDE DEF t
<1>6. Orderly(queue', sched') /\ ToSet(queue') = ToSet(queue) \cup {t}
  <2>1. \A u \in ToSet(queue) \cup sched : ~Same(t, u)
    BY <1>2, <1>5 DEF Same, Pending
  <2>2. \A u \in ToSet(queue) : u.proto # t.proto
    BY <1>2, <1>5 DEF Pending
  <2>3. QED
    BY <1>1, <1>2, <2>1, <2>2, OrderlyAppend
<1>7. Fits(t)'
  BY <1>1, <1>2, <1>3, <1>4 DEF Fits
<1>8. \A u \in Pending : Fits(u)'
  BY <1>1, <1>4, <1>5 DEF Fits
<1>9. Pending' = Pending \cup {t}
  BY <1>1, <1>6 DEF Pending
<1>10. AllFit' /\ NoStaleTask'
  BY <1>7, <1>8, <1>9 DEF AllFit, NoStaleTask, Fits
<1>11. TypeOK'
  BY <1>1, <1>4, <1>6 DEF TypeOK, Orderly
<1>12. OneInWorld' /\ OneOnAccount' /\ ClosedEmpty'
  BY <1>1, WorldShrinks DEF InWorld
<1>13. OneController'
  BY <1>1, <1>3, <1>4, Typed DEF OneController
<1>14. Balanced' /\ Clean'
  BY <1>1 DEF Balanced, Clean, InWorld
<1>15. ConnectOnItsWay'
  BY <1>1, <1>9 DEF ConnectOnItsWay, Running, InWorld
<1>16. Lives'
  BY <1>1, <1>4 DEF Lives
<1>17. QED
  BY <1>6, <1>10, <1>11, <1>12, <1>13, <1>14, <1>15, <1>16

\* A closed connection leaves its protocol: it is deleted unless a connect still counts it.
LEMMA ReleaseStep ==
  ASSUME IInv, NEW p \in Protocols, RunClose(p) \/ RunRelease(p)
  PROVE  IInv'
<1>. USE DEF IInv, SessionsSound
<1>. DEFINE rest == Tail(queue)
            t0 == Task("release", p, None)
<1>1. /\ Runs("close", p) \/ Runs("release", p)
      /\ queue' = rest /\ ReleaseProtocol(p)
      /\ gameState' = gameState /\ accepts' = accepts /\ refs' = refs /\ name' = name
      /\ where' = where /\ connecting' = connecting /\ uses' = uses
      /\ overtaken' = overtaken
  BY DEF RunClose, RunRelease
<1>2. /\ conn' \in [Protocols -> {"none", "open", "requested", "closed"}]
      /\ conn'[p] = "closed" /\ \A c \in Protocols \ {p} : conn'[c] = conn[c]
  <2>1. CASE RunClose(p)
    BY <2>1, Typed DEF RunClose
  <2>2. CASE RunRelease(p)
    <3>1. Runs("release", p) /\ conn' = conn
      BY <2>2 DEF RunRelease
    <3>2. conn[p] = "closed"
      BY <3>1, Taken DEF Fits
    <3>3. QED
      BY <3>1, <3>2, Typed
  <2>3. QED
    BY <2>1, <2>2
<1>3. /\ life[p] = "live" /\ Orderly(rest, sched)
      /\ ToSet(rest) \cup sched \subseteq Pending
      /\ \A u \in ToSet(rest) \cup sched : Fits(u) /\ u.proto \in Protocols
      /\ \A u \in ToSet(rest) \cup sched : u.proto = p => u.op = "connect"
      /\ \A u \in Pending : u.op = "connect" => u \in ToSet(rest) \cup sched
  <2>1. \A u \in Pending : u \in Tasks /\ u.proto \in Protocols
    BY PendingTasks
  <2>2. \A u \in sched : u.op \in {"connect", "release"}
    BY DEF Orderly
  <2>3. \A u \in Tasks : u.op \in {"login", "connect", "close", "release", "logout"}
    BY DEF Tasks
  <2>4. CASE Runs("close", p)
    <3>1. /\ Fits(Head(queue)) /\ Head(queue).proto = p /\ Head(queue).op = "close"
          /\ Orderly(rest, sched) /\ ToSet(rest) \cup sched \subseteq Pending
          /\ \A u \in ToSet(rest) \cup sched : Fits(u) /\ ~(u.op = "close" /\ u.proto = p)
          /\ \A u \in Pending : u \in ToSet(rest) \cup sched \/ u = Head(queue)
          /\ \A u \in ToSet(rest) : u.proto = p => u.op \notin {"login", "logout"}
      BY <2>4, Taken
    <3>2. life[p] = "live" /\ conn[p] = "requested"
      BY <3>1 DEF Fits
    <3>3. \A u \in ToSet(rest) \cup sched : u.proto = p => u.op # "release"
      BY <3>1, <3>2 DEF Fits
    <3>4. QED
      BY <2>1, <2>2, <2>3, <3>1, <3>2, <3>3
  <2>5. CASE Runs("release", p)
    <3>1. /\ Fits(Head(queue)) /\ Head(queue).proto = p /\ Head(queue).op = "release"
          /\ Orderly(rest, sched) /\ ToSet(rest) \cup sched \subseteq Pending
          /\ \A u \in ToSet(rest) \cup sched : Fits(u) /\ ~(u.op = "release" /\ u.proto = p)
          /\ \A u \in Pending : u \in ToSet(rest) \cup sched \/ u = Head(queue)
      BY <2>5, Taken
    <3>2. life[p] = "live" /\ conn[p] = "closed"
      BY <3>1 DEF Fits
    <3>3. \A u \in ToSet(rest) \cup sched : u.proto = p =>
            u.op \notin {"close", "login", "logout"}
      BY <3>1, <3>2 DEF Fits
    <3>4. QED
      BY <2>1, <2>3, <3>1, <3>2, <3>3
  <2>6. QED
    BY <1>1, <2>4, <2>5
<1>4. client' = [o \in Players |-> IF o = held[p] /\ client[o] = p THEN None ELSE client[o]]
  BY <1>1 DEF ReleaseProtocol
<1>5. client' \in [Players -> Protocols \cup {None}]
  BY <1>4, Typed
<1>6. OneInWorld' /\ OneOnAccount' /\ ClosedEmpty'
  BY <1>1, WorldShrinks DEF InWorld
<1>7. Clean'
  BY <1>1, <1>4 DEF Clean, ReleaseProtocol
<1>8. refs[p] \in {0, 1} /\ t0 \in Tasks /\ t0.op = "release" /\ t0.proto = p
  BY Typed DEF Task, Tasks
<1>9. CASE refs[p] = 1
  <2>1. /\ sched' = IF Running THEN sched \union {t0} ELSE sched
        /\ life' = life /\ held' = held /\ frees' = frees
    BY <1>1, <1>9 DEF ReleaseProtocol
  <2>. HIDE DEF t0
  <2>2. Orderly(queue', sched') /\ sched \subseteq sched' /\ sched' \subseteq sched \cup {t0}
    <3>1. \A u \in ToSet(rest) \cup sched : ~Same(t0, u)
      BY <1>3, <1>8 DEF Same
    <3>. HIDE DEF rest
    <3>2. Orderly(rest, sched \cup {t0})
      BY <1>3, <1>8, <3>1, OrderlySched
    <3>3. QED
      BY <1>1, <1>3, <2>1, <3>2
  <2>3. Fits(t0)'
    BY <1>2, <1>3, <1>8, <2>1 DEF Fits
  <2>4. ASSUME NEW u \in ToSet(rest) \cup sched
        PROVE  Fits(u)'
    <3>1. Fits(u) /\ u.proto \in Protocols /\ (u.proto = p => u.op = "connect")
      BY <1>3
    <3>2. QED
      BY <1>1, <1>2, <2>1, <3>1 DEF Fits
  <2>5. AllFit' /\ NoStaleTask'
    <3>1. \A u \in Pending' : Fits(u)'
      BY <1>1, <2>2, <2>3, <2>4 DEF Pending
    <3>2. QED
      BY <3>1 DEF AllFit, NoStaleTask, Fits
  <2>6. TypeOK'
    BY <1>1, <1>2, <1>5, <2>1, <2>2 DEF TypeOK, Orderly
  <2>7. OneController'
    BY <1>1, <1>2, <1>4, <2>1, Typed DEF OneController
  <2>8. Balanced'
    BY <1>1, <2>1 DEF Balanced, InWorld
  <2>9. ConnectOnItsWay'
    BY <1>1, <1>3, <2>2 DEF ConnectOnItsWay, Running, InWorld, Pending
  <2>10. Lives'
    BY <1>1, <1>2, <2>1 DEF Lives
  <2>11. QED
    BY <1>6, <1>7, <2>2, <2>5, <2>6, <2>7, <2>8, <2>9, <2>10
<1>10. CASE refs[p] = 0
  <2>1. /\ sched' = sched
        /\ life' = [life EXCEPT ![p] = "deleted"]
        /\ held' = [held EXCEPT ![p] = None]
        /\ frees' = [o \in Players |-> IF o = held[p] THEN frees[o] + 1 ELSE frees[o]]
    BY <1>1, <1>10 DEF ReleaseProtocol
  <2>2. \A u \in ToSet(rest) \cup sched : u.proto # p
    BY <1>3, <1>10 DEF Fits
  <2>3. /\ life' \in [Protocols -> {"none", "live", "deleted"}]
        /\ life'[p] = "deleted" /\ \A c \in Protocols \ {p} : life'[c] = life[c]
        /\ frees' \in [Players -> Nat]
    BY <2>1, Typed
  <2>4. /\ held' \in [Protocols -> Players \cup {None}]
        /\ held'[p] = None /\ \A c \in Protocols \ {p} : held'[c] = held[c]
        /\ \A o \in Players :
             Cardinality(Holders(held', o))
               = Cardinality(Holders(held, o)) - (IF o = held[p] THEN 1 ELSE 0)
    BY <2>1, OneHolderLess
  <2>5. ASSUME NEW u \in ToSet(rest) \cup sched
        PROVE  Fits(u)'
    <3>1. Fits(u) /\ u.proto \in Protocols \ {p}
      BY <1>3, <2>2
    <3>2. QED
      BY <1>1, <1>2, <2>3, <2>4, <3>1 DEF Fits
  <2>6. Orderly(queue', sched') /\ Pending' = ToSet(rest) \cup sched
    BY <1>1, <1>3, <2>1 DEF Pending
  <2>7. AllFit' /\ NoStaleTask'
    <3>1. \A u \in Pending' : Fits(u)'
      BY <2>5, <2>6
    <3>2. QED
      BY <3>1 DEF AllFit, NoStaleTask, Fits
  <2>8. TypeOK'
    BY <1>1, <1>2, <1>5, <2>3, <2>4, <2>6 DEF TypeOK, Orderly
  <2>9. OneController'
    <3>1. ASSUME NEW o \in Players, client'[o] # None
          PROVE  life'[client'[o]] = "live" /\ held'[client'[o]] = o
      <4>1. client'[o] = client[o] /\ client[o] \in Protocols
        BY <1>4, <3>1, Typed
      <4>2. life[client[o]] = "live" /\ held[client[o]] = o
        BY <3>1, <4>1 DEF OneController
      <4>3. client[o] # p
        BY <1>4, <3>1, <4>2
      <4>4. QED
        BY <2>3, <2>4, <4>1, <4>2, <4>3
    <3>2. ASSUME NEW c \in Protocols, conn'[c] = "open", accepts'[c], held'[c] # None
          PROVE  client'[held'[c]] = c
      <4>1. c # p /\ conn[c] = "open" /\ accepts[c] /\ held'[c] = held[c]
        BY <1>1, <1>2, <2>4, <3>2
      <4>2. client[held[c]] = c /\ held[c] \in Players
        BY <3>2, <4>1, Typed DEF OneController
      <4>3. QED
        BY <1>4, <4>1, <4>2
    <3>3. QED
      BY <3>1, <3>2 DEF OneController
  <2>10. ASSUME NEW o \in Players
         PROVE  uses'[o] = (IF o \in InWorld' THEN 1 ELSE 0)
                           + Cardinality(Holders(held', o)) + frees'[o]
    <3>1. uses[o] = (IF o \in InWorld THEN 1 ELSE 0)
                    + Cardinality(Holders(held, o)) + frees[o]
      BY DEF Balanced, Holders
    <3>2. Cardinality(Holders(held, o)) \in Nat /\ frees[o] \in Nat /\ InWorld' = InWorld
      BY <1>1, HoldersFinite, Typed DEF InWorld
    <3>3. Cardinality(Holders(held', o))
            = Cardinality(Holders(held, o)) - (IF o = held[p] THEN 1 ELSE 0)
      BY <2>4
    <3>4. frees'[o] = frees[o] + (IF o = held[p] THEN 1 ELSE 0)
      BY <2>1, <3>2
    <3>5. QED
      BY <1>1, <3>1, <3>2, <3>3, <3>4
  <2>11. Balanced'
    BY <2>10 DEF Balanced, Holders
  <2>12. ConnectOnItsWay'
    BY <1>1, <1>3, <2>6 DEF ConnectOnItsWay, Running, InWorld
  <2>13. Lives'
    BY <1>1, <1>2, <2>3, <2>4 DEF Lives
  <2>14. QED
    BY <1>6, <1>7, <2>6, <2>7, <2>8, <2>9, <2>11, <2>12, <2>13
<1>11. QED
  BY <1>8, <1>9, <1>10

-----------------------------------------------------------------------------
(* Taking a player over                                                    *)

\* The protocol of a login or a connect held nobody: it now holds o, whom nobody controls.
Holds(op, p, o) ==
  /\ Runs(op, p) /\ client[o] = None /\ sched' = sched /\ life' = life
  /\ Orderly(queue', sched) /\ ToSet(Tail(queue)) \subseteq ToSet(queue')
  /\ \A t \in ToSet(queue') : t \in ToSet(Tail(queue)) \/ Fits(t)'
  /\ conn' \in [Protocols -> {"none", "open", "requested", "closed"}]
  /\ \A c \in Protocols :
        conn'[c] = conn[c] \/ (conn[c] = "open" /\ conn'[c] = "requested")
  /\ accepts' \in [Protocols -> BOOLEAN]
  /\ \A c \in Protocols \ {p} : accepts'[c] = accepts[c]
  /\ held' = [held EXCEPT ![p] = o]
  /\ client' = [client EXCEPT ![o] = p] /\ refs' = [refs EXCEPT ![p] = 0]

HeldWell(p, o) ==
  /\ Orderly(queue', sched') /\ AllFit' /\ NoStaleTask' /\ OneController' /\ Lives'
  /\ \A u \in Pending : u \in Pending' \/ u = Head(queue)
  /\ held' \in [Protocols -> Players \cup {None}]
  /\ refs' \in [Protocols -> 0 .. 1]
  /\ client' \in [Players -> Protocols \cup {None}]
  /\ client'[o] = p /\ \A q \in Players \ {o} : client'[q] = client[q]
  /\ Cardinality(Holders(held', o)) = Cardinality(Holders(held, o)) + 1
  /\ \A q \in Players \ {o} : Holders(held', q) = Holders(held, q)

LEMMA HoldStep ==
  ASSUME IInv, NEW op \in {"login", "connect"}, NEW p \in Protocols, NEW o \in Players,
         Holds(op, p, o)
  PROVE  HeldWell(p, o)
<1>. USE DEF IInv, SessionsSound, Holds
<1>. DEFINE rest == Tail(queue)
<1>1. /\ sched' = sched /\ life' = life
  OBVIOUS
<1>2. /\ Fits(Head(queue)) /\ Head(queue).proto = p /\ Head(queue).op = op
      /\ \A u \in ToSet(rest) \cup sched : Fits(u) /\ u \in Tasks /\ ~(u.op = op /\ u.proto = p)
      /\ \A u \in Pending : u \in ToSet(rest) \cup sched \/ u = Head(queue)
  BY Taken
<1>3. /\ life[p] = "live" /\ held[p] = None
      /\ op = "login" => refs[p] = 0
      /\ op = "connect" => refs[p] = 1
  BY <1>2 DEF Fits
<1>4. /\ held' \in [Protocols -> Players \cup {None}]
      /\ held'[p] = o /\ \A c \in Protocols \ {p} : held'[c] = held[c]
      /\ Cardinality(Holders(held', o)) = Cardinality(Holders(held, o)) + 1
      /\ \A q \in Players \ {o} : Holders(held', q) = Holders(held, q)
  BY <1>3, OneMoreHolder
<1>5. /\ refs' \in [Protocols -> 0 .. 1]
      /\ client' \in [Players -> Protocols \cup {None}]
      /\ client'[o] = p /\ \A q \in Players \ {o} : client'[q] = client[q]
      /\ refs'[p] = 0 /\ \A c \in Protocols \ {p} : refs'[c] = refs[c]
  BY Typed
<1>6. ASSUME NEW u \in ToSet(rest) \cup sched
      PROVE  Fits(u)' /\ u \in Tasks
  <2>1. Fits(u) /\ u \in Tasks /\ u.proto \in Protocols
    BY <1>2 DEF Tasks
  <2>2. u.proto = p => u.op \notin {"login", "connect"}
    BY <1>2, <1>3, <2>1 DEF Fits
  <2>3. QED
    BY <1>1, <1>4, <1>5, <2>1, <2>2 DEF Fits
<1>7. /\ \A t \in Pending' : t \in ToSet(rest) \cup sched \/ Fits(t)'
      /\ ToSet(rest) \cup sched \subseteq Pending'
  BY <1>1 DEF Pending
<1>8. AllFit' /\ NoStaleTask'
  <2>1. \A t \in Pending' : Fits(t)'
    BY <1>6, <1>7
  <2>2. QED
    BY <2>1 DEF AllFit, NoStaleTask, Fits
<1>9. ASSUME NEW q \in Players, client'[q] # None
      PROVE  life'[client'[q]] = "live" /\ held'[client'[q]] = q
  <2>1. CASE q = o
    BY <1>1, <1>3, <1>4, <1>5, <2>1
  <2>2. CASE q # o
    <3>1. client'[q] = client[q] /\ client[q] \in Protocols
      BY <1>5, <1>9, <2>2, Typed
    <3>2. life[client[q]] = "live" /\ held[client[q]] = q
      BY <1>9, <3>1 DEF OneController
    <3>3. client[q] # p
      BY <1>3, <3>2, Typed
    <3>4. QED
      BY <1>1, <1>4, <3>1, <3>2, <3>3
  <2>3. QED
    BY <2>1, <2>2
<1>10. ASSUME NEW c \in Protocols, conn'[c] = "open", accepts'[c], held'[c] # None
       PROVE  client'[held'[c]] = c
  <2>1. CASE c = p
    BY <1>4, <1>5, <2>1
  <2>2. CASE c # p
    <3>1. conn[c] = "open" /\ accepts[c] /\ held'[c] = held[c]
      BY <1>4, <1>10, <2>2
    <3>2. client[held[c]] = c /\ held[c] \in Players
      BY <1>10, <3>1, Typed DEF OneController
    <3>3. held[c] # o
      BY <3>2, Typed
    <3>4. QED
      BY <1>5, <3>1, <3>2, <3>3
  <2>3. QED
    BY <2>1, <2>2
<1>11. OneController'
  BY <1>9, <1>10 DEF OneController
<1>12. Lives'
  BY <1>1, <1>3, <1>4, <1>5 DEF Lives
<1>13. QED
  BY <1>1, <1>2, <1>4, <1>5, <1>7, <1>8, <1>11, <1>12 DEF HeldWell

\* connect(), at once or when its time has come.
LEMMA ConnectStep ==
  ASSUME IInv, NEW p \in Protocols, NEW o \in Players, LoginAttach(p, o) \/ RunConnect(p, o)
  PROVE  IInv'
<1>. USE DEF IInv, SessionsSound
<1>1. PICK op \in {"login", "connect"} :
        /\ Runs(op, p) /\ Connect(p, o)
        /\ op = "login" => refs' = refs
        /\ op = "connect" => refs' = [refs EXCEPT ![p] = 0]
        /\ op = "connect" => Head(queue).arg = o
  BY DEF LoginAttach, RunConnect
<1>2. /\ where[o] = "world" /\ client[o] = None /\ queue' = Tail(queue)
      /\ held' = [held EXCEPT ![p] = o] /\ accepts' = [accepts EXCEPT ![p] = TRUE]
      /\ client' = [client EXCEPT ![o] = p]
      /\ connecting' = [connecting EXCEPT ![o] = FALSE]
      /\ uses' = [uses EXCEPT ![o] = uses[o] + 1] /\ overtaken' = overtaken \ {o}
      /\ gameState' = gameState /\ sched' = sched /\ conn' = conn /\ life' = life
      /\ name' = name /\ where' = where /\ frees' = frees
  BY <1>1 DEF Connect, MayConnect, Connected
<1>3. Fits(Head(queue)) /\ Head(queue).op = op /\ Head(queue).proto = p
  BY <1>1, Taken
<1>4. refs' = [refs EXCEPT ![p] = 0]
  <2>1. op = "login" => refs[p] = 0
    BY <1>3 DEF Fits
  <2>2. QED
    BY <1>1, <2>1, Typed
<1>5. /\ Orderly(queue', sched') /\ AllFit' /\ NoStaleTask' /\ OneController' /\ Lives'
      /\ \A u \in Pending : u \in Pending' \/ u = Head(queue)
      /\ held' \in [Protocols -> Players \cup {None}] /\ refs' \in [Protocols -> 0 .. 1]
      /\ client' \in [Players -> Protocols \cup {None}]
      /\ client'[o] = p /\ \A q \in Players \ {o} : client'[q] = client[q]
      /\ Cardinality(Holders(held', o)) = Cardinality(Holders(held, o)) + 1
      /\ \A q \in Players \ {o} : Holders(held', q) = Holders(held, q)
  <2>1. Orderly(queue', sched) /\ queue' = Tail(queue)
    BY <1>1, <1>2, Taken
  <2>2. /\ accepts' \in [Protocols -> BOOLEAN] /\ conn' = conn
        /\ conn \in [Protocols -> {"none", "open", "requested", "closed"}]
        /\ \A c \in Protocols \ {p} : accepts'[c] = accepts[c]
    BY <1>2, Typed
  <2>3. /\ UNCHANGED <<sched, life>> /\ ToSet(Tail(queue)) \subseteq ToSet(queue')
        /\ \A t \in ToSet(queue') : t \in ToSet(Tail(queue)) \/ Fits(t)'
    BY <1>2
  <2>4. /\ conn' \in [Protocols -> {"none", "open", "requested", "closed"}]
        /\ \A c \in Protocols :
             conn'[c] = conn[c] \/ (conn[c] = "open" /\ conn'[c] = "requested")
    BY <2>2
  <2>5. /\ Runs(op, p) /\ client[o] = None /\ held' = [held EXCEPT ![p] = o]
        /\ client' = [client EXCEPT ![o] = p]
    BY <1>1, <1>2
  <2>6. sched' = sched
    BY <1>2
  <2>7. Holds(op, p, o)
    BY <1>4, <2>1, <2>2, <2>3, <2>4, <2>5, <2>6 DEF Holds
  <2> HIDE DEF IInv, SessionsSound
  <2>8. HeldWell(p, o)
    BY <2>7, HoldStep
  <2>9. QED
    BY <2>8 DEF HeldWell
<1>6. /\ uses' \in [Players -> Nat] /\ uses'[o] = uses[o] + 1
      /\ accepts' \in [Protocols -> BOOLEAN]
      /\ connecting' \in [Players -> BOOLEAN] /\ ~connecting'[o]
      /\ \A q \in Players \ {o} : uses'[q] = uses[q] /\ connecting'[q] = connecting[q]
  BY <1>2, Typed
<1>7. TypeOK'
  BY <1>2, <1>5, <1>6 DEF TypeOK, Orderly
<1>8. InWorld' = InWorld
  BY <1>2 DEF InWorld
<1>9. OneInWorld' /\ OneOnAccount' /\ ClosedEmpty'
  BY <1>2, <1>8, WorldShrinks
<1>10. ASSUME NEW q \in Players
       PROVE  uses'[q] = (IF q \in InWorld' THEN 1 ELSE 0)
                         + Cardinality(Holders(held', q)) + frees'[q]
  <2>1. uses[q] = (IF q \in InWorld THEN 1 ELSE 0) + Cardinality(Holders(held, q)) + frees[q]
    BY DEF Balanced, Holders
  <2>2. Cardinality(Holders(held, q)) \in Nat /\ frees[q] \in Nat
    BY HoldersFinite, Typed
  <2>3. CASE q = o
    <3>1. /\ uses'[q] = uses[q] + 1 /\ frees'[q] = frees[q]
          /\ Cardinality(Holders(held', q)) = Cardinality(Holders(held, q)) + 1
      BY <1>2, <1>5, <1>6, <2>3
    <3>2. QED
      BY <1>8, <2>1, <2>2, <3>1
  <2>4. CASE q # o
    BY <1>2, <1>5, <1>6, <1>8, <2>1, <2>4
  <2>5. QED
    BY <2>3, <2>4
<1>11. Balanced'
  BY <1>10 DEF Balanced, Holders
<1>12. ASSUME Running', NEW q \in InWorld', connecting'[q]
       PROVE  (\E t \in Pending' : t.op = "connect" /\ t.arg = q) \/ q \in overtaken'
  <2>1. q # o /\ q \in InWorld /\ connecting[q] /\ Running
    BY <1>2, <1>6, <1>8, <1>12 DEF Running, InWorld
  <2>2. (\E t \in Pending : t.op = "connect" /\ t.arg = q) \/ q \in overtaken
    BY <2>1 DEF ConnectOnItsWay
  <2>3. ASSUME NEW t \in Pending, t.op = "connect", t.arg = q
        PROVE  t \in Pending'
    <3>1. t # Head(queue)
      BY <1>1, <1>3, <2>1, <2>3
    <3>2. QED
      BY <1>5, <3>1
  <2>4. QED
    BY <1>2, <2>1, <2>2, <2>3
<1>13. ConnectOnItsWay'
  BY <1>12 DEF ConnectOnItsWay
<1>14. Clean'
  BY <1>2, <1>5, <1>6 DEF Clean
<1>15. QED
  BY <1>5, <1>7, <1>9, <1>11, <1>13, <1>14

-----------------------------------------------------------------------------
(* Making a player                                                         *)

\* login() makes o for p: whether the player comes in (where'[o] is "world") or is refused,
\* what it is counted by is what uses says.
LEMMA MakeStep ==
  ASSUME IInv, NEW p \in Protocols, NEW o \in Players, NEW w \in {"world", "loaded"},
         Runs("login", p), where[o] = "none", Head(queue).arg \in Names,
         UNCHANGED <<gameState, sched, life, refs, connecting, frees, overtaken>>,
         Orderly(queue', sched), ToSet(Tail(queue)) \subseteq ToSet(queue'),
         \A t \in ToSet(queue') : t \in ToSet(Tail(queue)) \/ Fits(t)',
         conn' \in [Protocols -> {"none", "open", "requested", "closed"}],
         \A c \in Protocols :
           conn'[c] = conn[c] \/ (conn[c] = "open" /\ conn'[c] = "requested"),
         accepts' \in [Protocols -> BOOLEAN],
         \A c \in Protocols \ {p} : accepts'[c] = accepts[c],
         name' = [name EXCEPT ![o] = Head(queue).arg],
         client' = [client EXCEPT ![o] = p], where' = [where EXCEPT ![o] = w],
         uses' = [uses EXCEPT ![o] = IF w = "world" THEN 2 ELSE 1],
         held' = [held EXCEPT ![p] = o],
         OneInWorld' /\ OneOnAccount' /\ ClosedEmpty'
  PROVE  IInv'
<1>. USE DEF IInv, SessionsSound
<1>1. /\ gameState' = gameState /\ sched' = sched /\ life' = life /\ refs' = refs
      /\ connecting' = connecting /\ frees' = frees /\ overtaken' = overtaken
  OBVIOUS
<1>2. /\ uses[o] = 0 /\ frees[o] = 0 /\ client[o] = None /\ ~connecting[o]
      /\ Cardinality(Holders(held, o)) = 0
  BY FreshIsClean
<1>3. refs' = [refs EXCEPT ![p] = 0]
  <2>1. refs[p] = 0
    BY Taken DEF Fits
  <2>2. QED
    BY <1>1, <2>1, Typed
<1>4. /\ Orderly(queue', sched') /\ AllFit' /\ NoStaleTask' /\ OneController' /\ Lives'
      /\ \A u \in Pending : u \in Pending' \/ u = Head(queue)
      /\ held' \in [Protocols -> Players \cup {None}]
      /\ client' \in [Players -> Protocols \cup {None}]
      /\ client'[o] = p /\ \A q \in Players \ {o} : client'[q] = client[q]
      /\ Cardinality(Holders(held', o)) = Cardinality(Holders(held, o)) + 1
      /\ \A q \in Players \ {o} : Holders(held', q) = Holders(held, q)
  <2> DEFINE op == "login"
  <2>1. op \in {"login", "connect"} /\ Holds(op, p, o)
    BY <1>1, <1>2, <1>3 DEF Holds
  <2> HIDE DEF IInv, SessionsSound, op
  <2>2. HeldWell(p, o)
    BY <2>1, HoldStep
  <2>3. QED
    BY <2>2 DEF HeldWell
<1>5. /\ uses' \in [Players -> Nat] /\ uses'[o] = IF w = "world" THEN 2 ELSE 1
      /\ where' \in [Players -> {"none", "loaded", "world", "removed"}] /\ where'[o] = w
      /\ name' \in [Players -> Names \cup {None}]
      /\ \A q \in Players \ {o} : uses'[q] = uses[q] /\ where'[q] = where[q]
  BY Typed
<1>6. TypeOK'
  BY <1>1, <1>4, <1>5 DEF TypeOK, Orderly
<1>7. \A q \in Players \ {o} : q \in InWorld' <=> q \in InWorld
  BY <1>5 DEF InWorld
<1>8. ASSUME NEW q \in Players
      PROVE  uses'[q] = (IF q \in InWorld' THEN 1 ELSE 0)
                        + Cardinality(Holders(held', q)) + frees'[q]
  <2>1. CASE q = o
    <3>1. /\ Cardinality(Holders(held', q)) = 1 /\ frees'[q] = 0
          /\ uses'[q] = IF w = "world" THEN 2 ELSE 1
          /\ q \in InWorld' <=> w = "world"
      BY <1>1, <1>2, <1>4, <1>5, <2>1 DEF InWorld
    <3>2. QED
      BY <3>1
  <2>2. CASE q # o
    <3>1. uses[q] = (IF q \in InWorld THEN 1 ELSE 0)
                    + Cardinality(Holders(held, q)) + frees[q]
      BY DEF Balanced, Holders
    <3>2. /\ uses'[q] = uses[q] /\ frees'[q] = frees[q] /\ (q \in InWorld' <=> q \in InWorld)
          /\ Holders(held', q) = Holders(held, q)
      BY <1>1, <1>4, <1>5, <1>7, <2>2
    <3>3. QED
      BY <3>1, <3>2
  <2>3. QED
    BY <2>1, <2>2
<1>9. Balanced'
  BY <1>8 DEF Balanced, Holders
<1>10. ASSUME Running', NEW q \in InWorld', connecting'[q]
       PROVE  (\E t \in Pending' : t.op = "connect" /\ t.arg = q) \/ q \in overtaken'
  <2>1. q \in InWorld /\ connecting[q] /\ Running
    BY <1>1, <1>2, <1>7, <1>10 DEF Running, InWorld
  <2>2. (\E t \in Pending : t.op = "connect" /\ t.arg = q) \/ q \in overtaken
    BY <2>1 DEF ConnectOnItsWay
  <2>3. Head(queue).op = "login"
    BY DEF Runs
  <2>4. QED
    BY <1>1, <1>4, <2>2, <2>3
<1>11. ConnectOnItsWay'
  BY <1>10 DEF ConnectOnItsWay
<1>12. Clean'
  BY <1>1, <1>4, <1>5 DEF Clean
<1>13. QED
  BY <1>4, <1>6, <1>9, <1>11, <1>12

LEMMA LoginRefusedStep ==
  ASSUME IInv, NEW p \in Protocols, NEW o \in Players, LoginRefused(p, o)
  PROVE  IInv'
<1>. DEFINE rest == Tail(queue)
            w == "loaded"
<1>1. /\ Runs("login", p) /\ where[o] = "none" /\ CloseAll({p}, rest)
      /\ UNCHANGED <<gameState, sched, life, refs, connecting, frees, overtaken>>
      /\ accepts' = accepts /\ life' = life
      /\ name' = [name EXCEPT ![o] = Head(queue).arg]
      /\ client' = [client EXCEPT ![o] = p] /\ where' = [where EXCEPT ![o] = w]
      /\ uses' = [uses EXCEPT ![o] = 1] /\ held' = [held EXCEPT ![p] = o]
      /\ gameState' = gameState
  BY DEF LoginRefused, FreshPlayer
<1>2. /\ Fits(Head(queue)) /\ Head(queue).op = "login"
      /\ Orderly(rest, sched) /\ ToSet(rest) \subseteq Pending
  BY <1>1, Taken
<1>3. Head(queue).arg \in Names
  BY <1>2 DEF Fits
<1>4. TypeOK /\ OneInWorld /\ OneOnAccount /\ ClosedEmpty
  BY DEF IInv, SessionsSound
<1>. HIDE DEF rest
<1>5. /\ Orderly(queue', sched)
      /\ ToSet(rest) \subseteq ToSet(queue')
      /\ \A t \in ToSet(queue') : t \in ToSet(rest) \/ Fits(t)'
      /\ conn' \in [Protocols -> {"none", "open", "requested", "closed"}]
      /\ \A c \in Protocols :
           conn'[c] = conn[c] \/ (conn[c] = "open" /\ conn'[c] = "requested")
  BY <1>1, <1>2, PostClose
<1>6. InWorld' = InWorld /\ o \notin InWorld
  BY <1>1, <1>4, Typed DEF InWorld
<1>7. OneInWorld' /\ OneOnAccount' /\ ClosedEmpty'
  <2>1. \A q \in InWorld' : name'[q] = name[q]
    BY <1>1, <1>4, <1>6, Typed DEF InWorld
  <2>2. QED
    BY <1>1, <1>4, <1>6, <2>1, WorldShrinks
<1>8. /\ accepts' \in [Protocols -> BOOLEAN]
      /\ \A c \in Protocols \ {p} : accepts'[c] = accepts[c]
  BY <1>1, <1>4, Typed
<1>9. w \in {"world", "loaded"} /\ uses' = [uses EXCEPT ![o] = IF w = "world" THEN 2 ELSE 1]
  BY <1>1
<1>. HIDE DEF w
<1>10. QED
  BY <1>1, <1>3, <1>5, <1>7, <1>8, <1>9, MakeStep DEF rest

\* The player that login() makes comes in only if its character may be there once more.
LEMMA LoginNewStep ==
  ASSUME IInv, NEW p \in Protocols, NEW o \in Players, LoginNew(p, o)
  PROVE  IInv'
<1>. DEFINE n == Head(queue).arg
            w == "world"
<1>1. /\ Runs("login", p) /\ where[o] = "none" /\ MayLoad(n) /\ MayEnter(n)
      /\ UNCHANGED <<gameState, sched, life, refs, connecting, frees, overtaken>>
      /\ queue' = Tail(queue) /\ conn' = conn
      /\ accepts' = [accepts EXCEPT ![p] = TRUE]
      /\ name' = [name EXCEPT ![o] = n]
      /\ client' = [client EXCEPT ![o] = p] /\ where' = [where EXCEPT ![o] = w]
      /\ uses' = [uses EXCEPT ![o] = 2] /\ held' = [held EXCEPT ![p] = o]
      /\ gameState' = gameState
  BY DEF LoginNew, FreshPlayer
<1>2. Fits(Head(queue)) /\ Head(queue).op = "login" /\ Orderly(Tail(queue), sched)
  BY <1>1, Taken
<1>3. n \in Names
  BY <1>2 DEF Fits
<1>4. TypeOK /\ OneInWorld /\ OneOnAccount /\ ClosedEmpty
  BY DEF IInv, SessionsSound
<1>. HIDE DEF n
<1>5. /\ o \notin InWorld /\ InWorld' = InWorld \cup {o} /\ name'[o] = n
      /\ \A q \in InWorld : name'[q] = name[q]
  <2>1. where' \in [Players -> {"none", "loaded", "world", "removed"}]
        /\ where'[o] = "world" /\ \A q \in Players \ {o} : where'[q] = where[q]
    BY <1>1, <1>4, Typed
  <2>2. o \notin InWorld /\ InWorld' = InWorld \cup {o}
    BY <1>1, <2>1 DEF InWorld
  <2>3. name'[o] = n /\ \A q \in Players \ {o} : name'[q] = name[q]
    BY <1>1, <1>4, Typed
  <2>4. QED
    BY <2>2, <2>3 DEF InWorld
<1>6. ASSUME NEW m \in Names
      PROVE  Cardinality(Named(m)') <= (IF AllowClones = 0 THEN 1 ELSE AllowClones)
  <2>1. Named(m) \in SUBSET Players /\ o \notin Named(m)
    BY <1>5 DEF Named, InWorld
  <2>2. IsFiniteSet(Named(m)) /\ Cardinality(Named(m)) \in Nat
    BY <2>1, SessionsAssumption, FS_Subset, FS_CardinalityType
  <2>3. Cardinality(Named(m)) <= (IF AllowClones = 0 THEN 1 ELSE AllowClones)
    BY <1>4 DEF OneInWorld
  <2>4. CASE m = n
    <3>1. Named(m)' = Named(m) \cup {o}
      BY <1>5, <2>4 DEF Named
    <3>2. Cardinality(Named(m)') = Cardinality(Named(m)) + 1
      BY <2>1, <2>2, <3>1, FS_AddElement
    <3>3. Cardinality(Named(m)) = 0 \/ AllowClones > Cardinality(Named(m))
      BY <1>1, <2>4, FS_EmptySet DEF MayLoad
    <3>4. QED
      BY <2>2, <3>2, <3>3, SessionsAssumption
  <2>5. CASE m # n
    <3>1. Named(m)' = Named(m)
      BY <1>5, <2>5 DEF Named
    <3>2. QED
      BY <2>3, <3>1
  <2>6. QED
    BY <2>4, <2>5
<1>7. OneOnAccount'
  <2>1. ASSUME NEW q \in InWorld
        PROVE  name[q] = n
    <3>1. PICK r \in InWorld : name[r] = n
      BY <1>1, <2>1 DEF MayEnter, Named
    <3>2. QED
      BY <1>4, <3>1 DEF OneOnAccount
  <2>2. \A q \in InWorld' : name'[q] = n
    BY <1>5, <2>1
  <2>3. QED
    BY <2>2 DEF OneOnAccount
<1>8. ClosedEmpty'
  BY <1>1, <1>4, <1>5 DEF ClosedEmpty, MayEnter
<1>9. OneInWorld'
  BY <1>6 DEF OneInWorld
<1>10. /\ accepts' \in [Protocols -> BOOLEAN]
       /\ \A c \in Protocols \ {p} : accepts'[c] = accepts[c]
       /\ conn' \in [Protocols -> {"none", "open", "requested", "closed"}]
       /\ \A c \in Protocols :
            conn'[c] = conn[c] \/ (conn[c] = "open" /\ conn'[c] = "requested")
  BY <1>1, <1>4, Typed
<1>11. /\ Orderly(queue', sched) /\ ToSet(Tail(queue)) \subseteq ToSet(queue')
       /\ \A t \in ToSet(queue') : t \in ToSet(Tail(queue)) \/ Fits(t)'
  BY <1>1, <1>2
<1>12. w \in {"world", "loaded"} /\ uses' = [uses EXCEPT ![o] = IF w = "world" THEN 2 ELSE 1]
  BY <1>1
<1>13. n = Head(queue).arg
  BY DEF n
<1>. HIDE DEF w
<1>14. QED
  BY <1>1, <1>3, <1>7, <1>8, <1>9, <1>10, <1>11, <1>12, <1>13, MakeStep

-----------------------------------------------------------------------------
(* Game::cleanup                                                           *)

LEMMA CleanupStep ==
  ASSUME IInv, Cleanup
  PROVE  IInv'
<1>. USE DEF IInv, SessionsSound
<1>. DEFINE left == [o \in Players |-> uses[o] - frees[o]]
            gone == {o \in Players : frees[o] > 0 /\ left[o] = 0}
<1>1. /\ uses' = left /\ frees' = [o \in Players |-> 0]
      /\ where' = [o \in Players |-> IF o \in gone THEN "none" ELSE where[o]]
      /\ name' = [o \in Players |-> IF o \in gone THEN None ELSE name[o]]
      /\ client' = [o \in Players |-> IF o \in gone THEN None ELSE client[o]]
      /\ connecting' = [o \in Players |-> o \notin gone /\ connecting[o]]
      /\ overtaken' = overtaken \ gone
      /\ gameState' = gameState /\ queue' = queue /\ sched' = sched /\ conn' = conn
      /\ life' = life /\ held' = held /\ accepts' = accepts /\ refs' = refs
  BY DEF Cleanup, protoVars
<1>2. ASSUME NEW o \in Players
      PROVE  /\ left[o] = (IF o \in InWorld THEN 1 ELSE 0) + Cardinality(Holders(held, o))
             /\ left[o] \in Nat
             /\ o \in gone => o \notin InWorld /\ Holders(held, o) = {}
             /\ where[o] = "none" => left[o] = 0
  <2>1. uses[o] = (IF o \in InWorld THEN 1 ELSE 0) + Cardinality(Holders(held, o)) + frees[o]
    BY DEF Balanced, Holders
  <2>2. /\ Cardinality(Holders(held, o)) \in Nat /\ frees[o] \in Nat
        /\ Cardinality(Holders(held, o)) = 0 => Holders(held, o) = {}
    BY HoldersFinite, Typed
  <2>3. left[o] = (IF o \in InWorld THEN 1 ELSE 0) + Cardinality(Holders(held, o))
    BY <2>1, <2>2
  <2>4. left[o] = 0 => o \notin InWorld /\ Holders(held, o) = {}
    BY <2>2, <2>3
  <2>5. where[o] = "none" => left[o] = 0
    BY <2>3, FreshIsClean DEF InWorld
  <2>. HIDE DEF left
  <2>6. QED
    BY <2>2, <2>3, <2>4, <2>5
<1>. HIDE DEF left, gone
<1>3. gone \subseteq Players /\ left \in [Players -> Nat]
  BY <1>2 DEF gone, left
<1>4. TypeOK'
  BY <1>1, <1>3, Typed DEF TypeOK
<1>5. InWorld' = InWorld /\ \A o \in InWorld : name'[o] = name[o]
  BY <1>1, <1>2 DEF InWorld
<1>6. OneInWorld' /\ OneOnAccount' /\ ClosedEmpty'
  BY <1>1, <1>5, WorldShrinks
<1>7. \A c \in Protocols : held[c] # None => held[c] \in Players \ gone
  <2>1. ASSUME NEW c \in Protocols, held[c] # None
        PROVE  held[c] \in Players /\ c \in Holders(held, held[c])
    BY <2>1, Typed DEF Holders
  <2>2. QED
    BY <1>2, <2>1
<1>8. OneController'
  <2>1. ASSUME NEW o \in Players, client'[o] # None
        PROVE  life'[client'[o]] = "live" /\ held'[client'[o]] = o
    BY <1>1, <2>1 DEF OneController
  <2>2. ASSUME NEW c \in Protocols, conn'[c] = "open", accepts'[c], held'[c] # None
        PROVE  client'[held'[c]] = c
    BY <1>1, <1>7, <2>2 DEF OneController
  <2>3. QED
    BY <2>1, <2>2 DEF OneController
<1>9. Pending' = Pending /\ \A t \in Pending : Fits(t) => Fits(t)'
  BY <1>1 DEF Pending, Fits
<1>10. AllFit' /\ NoStaleTask' /\ Orderly(queue', sched')
  BY <1>1, <1>9 DEF AllFit, NoStaleTask
<1>11. Balanced'
  <2>1. ASSUME NEW o \in Players
        PROVE  uses'[o] = (IF o \in InWorld' THEN 1 ELSE 0)
                          + Cardinality(Holders(held', o)) + frees'[o]
    <3>1. Cardinality(Holders(held, o)) \in Nat
      BY HoldersFinite
    <3>2. QED
      BY <1>1, <1>2, <1>5, <3>1
  <2>2. QED
    BY <2>1 DEF Balanced, Holders
<1>12. ConnectOnItsWay'
  BY <1>1, <1>2, <1>5, <1>9 DEF ConnectOnItsWay, Running, InWorld
<1>13. Lives'
  BY <1>1 DEF Lives
<1>14. Clean'
  BY <1>1, <1>2, Typed DEF Clean, gone
<1>15. QED
  BY <1>4, <1>6, <1>8, <1>10, <1>11, <1>12, <1>13, <1>14

-----------------------------------------------------------------------------
LEMMA InitIInv ==
  ASSUME Init
  PROVE  IInv
<1>. USE DEF Init
<1>1. /\ ToSet(queue) = {} /\ Pending = {} /\ queue \in Seq(Tasks)
      /\ DOMAIN queue = {} /\ InWorld = {}
  BY DEF ToSet, Pending, InWorld
<1>2. TypeOK
  BY <1>1, SessionsAssumption DEF TypeOK
<1>3. Orderly(queue, sched) /\ AllFit /\ Lives /\ Clean
  BY <1>1 DEF Orderly, AllFit, Lives, Clean
<1>4. OneInWorld
  <2>1. ASSUME NEW n \in Names
        PROVE  Cardinality(Named(n)) <= (IF AllowClones = 0 THEN 1 ELSE AllowClones)
    <3>1. Named(n) = {}
      BY <1>1 DEF Named
    <3>2. Cardinality(Named(n)) = 0
      BY <3>1, FS_EmptySet
    <3>3. QED
      BY <3>2, SessionsAssumption
  <2>2. QED
    BY <2>1 DEF OneInWorld
<1>5. Balanced
  <2>1. ASSUME NEW o \in Players
        PROVE  uses[o] = (IF o \in InWorld THEN 1 ELSE 0)
                         + Cardinality(Holders(held, o)) + frees[o]
    <3>1. Holders(held, o) = {}
      BY <1>2, Typed DEF Holders
    <3>2. Cardinality(Holders(held, o)) = 0
      BY <3>1, FS_EmptySet
    <3>3. QED
      BY <1>1, <3>2
  <2>2. QED
    BY <2>1 DEF Balanced, Holders
<1>6. OneController /\ NoStaleTask /\ OneOnAccount /\ ConnectOnItsWay /\ ClosedEmpty
  BY <1>1 DEF OneController, NoStaleTask, OneOnAccount, ConnectOnItsWay, ClosedEmpty
<1>7. QED
  BY <1>2, <1>3, <1>4, <1>5, <1>6 DEF IInv, SessionsSound

LEMMA StutterIInv ==
  ASSUME IInv, UNCHANGED vars
  PROVE  IInv'
<1>1. /\ UNCHANGED <<gameState, protoVars, playerVars>> /\ queue' = queue /\ sched' = sched
  BY DEF vars
<1>2. Orderly(queue', sched') /\ Pending' = Pending
  BY <1>1 DEF IInv, Pending
<1>3. QED
  BY <1>1, <1>2, PostStep

LEMMA NextIInv ==
  ASSUME IInv, Next
  PROVE  IInv'
<1>1. ASSUME NEW p \in Protocols,
             RunClose(p) \/ RunRelease(p) \/ RunLogout(p) \/ RunLogoutRefused(p)
      PROVE  IInv'
  BY <1>1, ReleaseStep, RunLogoutStep, RunLogoutRefusedStep
<1>2. ASSUME NEW p \in Protocols, NEW o \in Players,
             \/ LoginNew(p, o) \/ LoginRefused(p, o) \/ LoginAlready(p, o)
             \/ LoginReplace(p, o)
      PROVE  IInv'
  BY <1>2, LoginNewStep, LoginRefusedStep, LoginAlreadyStep, LoginReplaceStep
<1>3. ASSUME NEW p \in Protocols, NEW o \in Players,
             LoginAttach(p, o) \/ RunConnect(p, o) \/ RunConnectRefused(p, o)
      PROVE  IInv'
  BY <1>3, ConnectStep, RunConnectRefusedStep
<1>4. ASSUME NEW p \in Protocols, Drop(p) \/ ParseLogout(p)
      PROVE  IInv'
  BY <1>4, DropStep, ParseLogoutStep
<1>5. ASSUME NEW p \in Protocols, NEW n \in Names, FirstPacket(p, n)
      PROVE  IInv'
  BY <1>5, FirstPacketStep
<1>6. ASSUME NEW t \in sched, Due(t)
      PROVE  IInv'
  BY <1>6, DueStep
<1>7. ASSUME NEW o \in Players, Idle(o) \/ Die(o)
      PROVE  IInv'
  BY <1>7, IdleStep, DieStep
<1>8. ASSUME NEW s \in States, SetGameState(s)
      PROVE  IInv'
  BY <1>8, SetGameStateStep
<1>9. QED
  BY <1>1, <1>2, <1>3, <1>4, <1>5, <1>6, <1>7, <1>8, CleanupStep DEF Next, RunTask

\* In every state: SessionsSound, the tasks in their order, each at the stage its protocol
\* is at.
THEOREM Invariance == Spec => []IInv
<1>1. Init => IInv
  BY InitIInv
<1>2. IInv /\ [Next]_vars => IInv'
  BY NextIInv, StutterIInv
<1>3. QED
  BY <1>1, <1>2, PTL DEF Spec

\* A character is in the world once or as often as clones are allowed, one character of an
\* account at a time; the connection that a player names as its own holds it, and no other
\* open one controls it; no task is left with a protocol that was deleted; players are
\* counted by whoever holds them; and a server that is closed holds nobody but staff.
THEOREM SessionsCorrect == Spec => []SessionsSound
<1>1. IInv => SessionsSound
  BY DEF IInv
<1>2. QED
  BY <1>1, Invariance, PTL

-----------------------------------------------------------------------------
(* The creatures a client knows: an instance beside the sessions           *)

CONSTANTS Creatures, Room
VARIABLES seen, shown, known, table, crowded, confused

Sees == INSTANCE KnownCreatures WITH client <- table

\* Lists in which nobody is twice, and those in them.
Lists == {l \in Seq(Creatures) : Sees!IsInjective(l)}
In(l) == Sees!ToSet(l)

LEMMA Members ==
  ASSUME NEW l \in Lists
  PROVE  /\ l \in Seq(Creatures) /\ Len(l) \in Nat /\ In(l) \subseteq Creatures
         /\ In(l) = {l[k] : k \in 1 .. Len(l)}
         /\ \A i, j \in 1 .. Len(l) : l[i] = l[j] => i = j
BY DEF Lists, In, Sees!ToSet, Sees!IsInjective

\* A list of some of them.
LEMMA Part ==
  ASSUME NEW l \in Lists, NEW i \in Nat \ {0}, NEW j \in Nat, i <= j + 1, j <= Len(l)
  PROVE  LET a == SubSeq(l, i, j)
         IN  a \in Lists /\ Len(a) = j - i + 1 /\ In(a) = {l[k] : k \in i .. j}
<1> DEFINE a == SubSeq(l, i, j)
<1>1. /\ a \in Seq(Creatures) /\ Len(a) = j - i + 1 /\ DOMAIN a = 1 .. j - i + 1
      /\ \A k \in 1 .. j - i + 1 : a[k] = l[i + k - 1]
  <2>1. l \in Seq(Creatures)
    BY DEF Lists
  <2>2. \A k \in i .. j : l[k] \in Creatures
    BY <2>1
  <2>3. QED
    BY <2>1, <2>2
<1> HIDE DEF a
<1>2. Sees!IsInjective(a)
  <2>1. SUFFICES ASSUME NEW x \in 1 .. j - i + 1, NEW y \in 1 .. j - i + 1, a[x] = a[y]
        PROVE  x = y
    BY <1>1 DEF Sees!IsInjective
  <2>2. {i + x - 1, i + y - 1} \subseteq 1 .. Len(l)
    BY Members
  <2>3. i + x - 1 = i + y - 1
    BY <1>1, <2>1, <2>2, Members
  <2>4. QED
    BY <2>3
<1>3. In(a) = {l[k] : k \in i .. j}
  <2>1. \A k \in i .. j : k - i + 1 \in 1 .. j - i + 1 /\ a[k - i + 1] = l[k]
    BY <1>1
  <2>2. \A k \in 1 .. j - i + 1 : i + k - 1 \in i .. j
    OBVIOUS
  <2>3. QED
    <3>1. In(a) = {a[k] : k \in 1 .. j - i + 1}
      BY <1>1 DEF In, Sees!ToSet
    <3>2. \A k \in 1 .. j - i + 1 : \E h \in i .. j : a[k] = l[h]
      BY <1>1, <2>2
    <3>3. ASSUME NEW h \in i .. j PROVE \E k \in 1 .. j - i + 1 : a[k] = l[h]
      <4> DEFINE k == h - i + 1
      <4>1. k \in 1 .. j - i + 1 /\ a[k] = l[h]
        BY <2>1
      <4> HIDE DEF k
      <4>2. QED
        BY <4>1
    <3>4. {a[k] : k \in 1 .. j - i + 1} = {l[h] : h \in i .. j}
      <4> DEFINE K == 1 .. j - i + 1
                 H == i .. j
      <4>1. (\A k \in K : \E h \in H : a[k] = l[h]) /\ \A h \in H : \E k \in K : a[k] = l[h]
        BY <3>2, <3>3
      <4> HIDE DEF K, H
      <4>2. {a[k] : k \in K} = {l[h] : h \in H}
        BY <4>1
      <4>3. QED
        BY <4>2 DEF K, H
    <3>5. QED
      BY <3>1, <3>4
<1>4. QED
  BY <1>1, <1>2, <1>3 DEF Lists, a

\* Two lists, one after the other.
LEMMA Joined ==
  ASSUME NEW p \in Lists, NEW q \in Lists, In(p) \cap In(q) = {}
  PROVE  p \o q \in Lists /\ Len(p \o q) = Len(p) + Len(q) /\ In(p \o q) = In(p) \cup In(q)
<1> DEFINE r == p \o q
<1>1. /\ r \in Seq(Creatures) /\ Len(r) = Len(p) + Len(q) /\ Len(p) \in Nat /\ Len(q) \in Nat
      /\ DOMAIN r = 1 .. Len(p) + Len(q)
      /\ \A k \in 1 .. Len(p) : r[k] = p[k]
      /\ \A k \in 1 .. Len(q) : r[Len(p) + k] = q[k]
  BY DEF Lists
<1> HIDE DEF r
<1>2. /\ \A k \in 1 .. Len(p) : r[k] \in In(p) /\ p[k] \in In(p)
      /\ \A k \in 1 .. Len(q) : q[k] \in In(q)
      /\ \A k \in (Len(p) + 1) .. Len(r) : k - Len(p) \in 1 .. Len(q) /\ r[k] = q[k - Len(p)]
  <2>1. /\ In(p) = {p[k] : k \in 1 .. Len(p)}
        /\ In(q) = {q[k] : k \in 1 .. Len(q)}
    BY Members
  <2>2. \A k \in (Len(p) + 1) .. Len(r) :
          /\ k - Len(p) \in 1 .. Len(q) /\ Len(p) + (k - Len(p)) = k
    BY <1>1
  <2>3. QED
    BY <1>1, <2>1, <2>2
<1>3. \A k \in (Len(p) + 1) .. Len(r) : r[k] \in In(q)
  BY <1>2, Members
<1>4. Sees!IsInjective(r)
  <2>1. SUFFICES ASSUME NEW i \in 1 .. Len(r), NEW j \in 1 .. Len(r), r[i] = r[j] PROVE i = j
    BY <1>1 DEF Sees!IsInjective
  <2>2. CASE i <= Len(p) /\ j <= Len(p)
    BY <1>1, <2>1, <2>2, Members
  <2>3. CASE i > Len(p) /\ j > Len(p)
    <3>1. q[i - Len(p)] = q[j - Len(p)] /\ {i - Len(p), j - Len(p)} \subseteq 1 .. Len(q)
      BY <1>1, <1>2, <2>1, <2>3
    <3>2. i - Len(p) = j - Len(p)
      BY <3>1, Members
    <3>3. QED
      BY <1>1, <3>2
  <2>4. QED
    BY <1>1, <1>2, <1>3, <2>1, <2>2, <2>3
<1>5. In(r) = In(p) \cup In(q)
  <2>1. In(r) \subseteq In(p) \cup In(q)
    <3>1. ASSUME NEW k \in 1 .. Len(r) PROVE r[k] \in In(p) \cup In(q)
      <4>1. CASE k <= Len(p)
        BY <1>1, <1>2, <4>1 DEF In, Sees!ToSet
      <4>2. CASE k > Len(p)
        <5>1. k - Len(p) \in 1 .. Len(q) /\ r[k] = q[k - Len(p)]
          BY <1>1, <1>2, <4>2
        <5>2. QED
          BY <5>1, <1>1 DEF In, Sees!ToSet
      <4>3. QED
        BY <1>1, <4>1, <4>2
    <3>2. In(r) = {r[k] : k \in 1 .. Len(r)}
      BY <1>1 DEF In, Sees!ToSet
    <3>3. QED
      BY <3>1, <3>2
  <2>2. In(p) \subseteq In(r) /\ In(q) \subseteq In(r)
    <3>1. /\ \A k \in 1 .. Len(p) : k \in DOMAIN r
          /\ \A k \in 1 .. Len(q) : Len(p) + k \in DOMAIN r
      BY <1>1
    <3>2. \A k \in DOMAIN r : r[k] \in In(r)
      BY DEF In, Sees!ToSet
    <3>3. QED
      <4>1. /\ In(p) = {p[k] : k \in 1 .. Len(p)}
            /\ In(q) = {q[k] : k \in 1 .. Len(q)}
        BY Members
      <4>2. /\ \A k \in 1 .. Len(p) : p[k] \in In(r)
            /\ \A k \in 1 .. Len(q) : q[k] \in In(r)
        BY <1>1, <3>1, <3>2
      <4>3. QED
        BY <4>1, <4>2
  <2>3. QED
    BY <2>1, <2>2
<1>6. QED
  BY <1>1, <1>4, <1>5 DEF Lists, r

\* One more at the end.
LEMMA Longer ==
  ASSUME NEW l \in Lists, NEW c \in Creatures \ In(l)
  PROVE  /\ Append(l, c) \in Lists /\ Len(Append(l, c)) = Len(l) + 1
         /\ In(Append(l, c)) = In(l) \cup {c} /\ Append(l, c)[Len(l) + 1] = c
<1>1. <<c>> \in Lists /\ Len(<<c>>) = 1 /\ In(<<c>>) = {c}
  BY DEF Lists, In, Sees!IsInjective, Sees!ToSet
<1>2. Append(l, c) = l \o <<c>> /\ Append(l, c)[Len(l) + 1] = c
  BY DEF Lists
<1>3. QED
  BY <1>1, <1>2, Joined

\* Whoever is used goes to the end.
LEMMA MovesToEnd ==
  ASSUME NEW l \in Lists, NEW n \in 1 .. Len(l)
  PROVE  LET m == Append(Sees!RemoveAt(l, n), l[n])
         IN  m \in Lists /\ Len(m) = Len(l) /\ In(m) = In(l)
<1> DEFINE a == SubSeq(l, 1, n - 1)
           b == SubSeq(l, n + 1, Len(l))
<1>1. Len(l) \in Nat /\ n \in Nat /\ n >= 1 /\ n <= Len(l)
  BY Members
<1>2. a \in Lists /\ Len(a) = n - 1 /\ In(a) = {l[k] : k \in 1 .. n - 1}
  <2>1. 1 \in Nat \ {0} /\ n - 1 \in Nat /\ 1 <= (n - 1) + 1 /\ n - 1 <= Len(l)
        /\ (n - 1) - 1 + 1 = n - 1
    BY <1>1
  <2>2. a \in Lists /\ Len(a) = (n - 1) - 1 + 1 /\ In(a) = {l[k] : k \in 1 .. n - 1}
    BY <2>1, Part
  <2>3. QED
    BY <2>1, <2>2
<1>3. b \in Lists /\ Len(b) = Len(l) - n /\ In(b) = {l[k] : k \in (n + 1) .. Len(l)}
  <2>1. n + 1 \in Nat \ {0} /\ n + 1 <= Len(l) + 1 /\ Len(l) <= Len(l) /\ Len(l) \in Nat
        /\ Len(l) - (n + 1) + 1 = Len(l) - n
    BY <1>1
  <2> DEFINE i == n + 1
             j == Len(l)
  <2> HIDE DEF i, j
  <2>2. i \in Nat \ {0} /\ j \in Nat /\ i <= j + 1 /\ j <= Len(l)
    BY <2>1 DEF i, j
  <2>3. /\ SubSeq(l, i, j) \in Lists /\ Len(SubSeq(l, i, j)) = j - i + 1
        /\ In(SubSeq(l, i, j)) = {l[k] : k \in i .. j}
    BY <2>2, Part
  <2>4. b \in Lists /\ Len(b) = Len(l) - (n + 1) + 1 /\ In(b) = {l[k] : k \in (n + 1) .. Len(l)}
    BY <2>3 DEF i, j
  <2>5. QED
    BY <2>1, <2>4
<1> HIDE DEF a, b
<1>4. In(a) \cap In(b) = {} /\ l[n] \notin In(a) \cup In(b) /\ l[n] \in Creatures
  <2>1. l \in Seq(Creatures) /\ \A i, j \in 1 .. Len(l) : l[i] = l[j] => i = j
    BY Members
  <2>2. /\ n \in 1 .. Len(l)
        /\ \A i \in 1 .. n - 1 : i \in 1 .. Len(l) /\ i < n
        /\ \A j \in (n + 1) .. Len(l) : j \in 1 .. Len(l) /\ n < j
    BY <1>1
  <2>3. ASSUME NEW i \in 1 .. n - 1, NEW j \in (n + 1) .. Len(l) PROVE l[i] # l[j]
    <3>1. i \in 1 .. Len(l) /\ j \in 1 .. Len(l) /\ i # j
      BY <2>2
    <3>2. QED
      BY <2>1, <3>1
  <2>4. ASSUME NEW i \in 1 .. n - 1 PROVE l[i] # l[n]
    BY <2>1, <2>2
  <2>5. ASSUME NEW j \in (n + 1) .. Len(l) PROVE l[j] # l[n]
    BY <2>1, <2>2
  <2>6. In(a) \cap In(b) = {}
    BY <1>2, <1>3, <2>3
  <2>7. l[n] \notin In(a) /\ l[n] \notin In(b)
    BY <1>2, <1>3, <2>4, <2>5
  <2>8. l[n] \in Creatures
    BY <2>1, <2>2
  <2>9. QED
    BY <2>6, <2>7, <2>8
<1>5. In(a) \cup In(b) \cup {l[n]} = In(l)
  <2>1. \A k \in 1 .. Len(l) : k = n \/ k \in 1 .. n - 1 \/ k \in (n + 1) .. Len(l)
    BY <1>1
  <2>2. /\ \A k \in 1 .. n - 1 : k \in 1 .. Len(l)
        /\ \A k \in (n + 1) .. Len(l) : k \in 1 .. Len(l)
    BY <1>1
  <2>3. QED
    BY <1>2, <1>3, <2>1, <2>2, Members
<1>6. a \o b \in Lists /\ Len(a \o b) = Len(l) - 1 /\ In(a \o b) = In(a) \cup In(b)
  <2>1. a \in Lists /\ b \in Lists /\ Len(a) + Len(b) = Len(l) - 1
    BY <1>1, <1>2, <1>3
  <2>2. /\ a \o b \in Lists /\ Len(a \o b) = Len(a) + Len(b)
        /\ In(a \o b) = In(a) \cup In(b)
    BY <1>4, <2>1, Joined
  <2>3. QED
    BY <2>1, <2>2
<1>7. Sees!RemoveAt(l, n) = a \o b
  BY DEF Sees!RemoveAt, a, b
<1>8. l[n] \in Creatures \ In(a \o b)
  BY <1>4, <1>6
<1>9. /\ Append(a \o b, l[n]) \in Lists /\ Len(Append(a \o b, l[n])) = Len(a \o b) + 1
      /\ In(Append(a \o b, l[n])) = In(a \o b) \cup {l[n]}
  BY <1>6, <1>8, Longer
<1>10. QED
  BY <1>1, <1>5, <1>6, <1>7, <1>9

\* A list that is turned round n times and loses its front loses its n-th and one.
LEMMA LosesTheFront ==
  ASSUME NEW l \in Lists, NEW n \in Nat, n < Len(l)
  PROVE  LET m == Tail(Sees!Turned(l, n))
         IN  m \in Lists /\ Len(m) = Len(l) - 1 /\ In(m) = In(l) \ {l[n + 1]}
<1> DEFINE a == SubSeq(l, n + 1, Len(l))
           b == SubSeq(l, 1, n)
           r == a \o b
<1>1. /\ l \in Seq(Creatures) /\ Len(l) \in Nat /\ n + 1 <= Len(l) /\ n + 1 <= Len(l) + 1
      /\ n + 1 \in Nat \ {0} /\ Len(l) <= Len(l) /\ Len(l) - (n + 1) + 1 = Len(l) - n
  BY Members
<1>2. /\ a \in Lists /\ Len(a) = Len(l) - n /\ In(a) = {l[k] : k \in (n + 1) .. Len(l)}
      /\ a[1] = l[n + 1]
  <2>1. a \in Lists /\ Len(a) = Len(l) - (n + 1) + 1 /\ In(a) = {l[k] : k \in (n + 1) .. Len(l)}
    BY <1>1, Part
  <2>2. a[1] = l[n + 1]
    BY <1>1
  <2>3. QED
    BY <1>1, <2>1, <2>2
<1>3. b \in Lists /\ Len(b) = n /\ In(b) = {l[k] : k \in 1 .. n}
  <2>1. 1 \in Nat \ {0} /\ 1 <= n + 1 /\ n <= Len(l) /\ n - 1 + 1 = n
    BY <1>1
  <2>2. b \in Lists /\ Len(b) = n - 1 + 1 /\ In(b) = {l[k] : k \in 1 .. n}
    BY <2>1, Part
  <2>3. QED
    BY <2>1, <2>2
<1>4. Sees!Turned(l, n) = r
  BY DEF Sees!Turned
<1> HIDE DEF a, b
<1>5. In(a) \cap In(b) = {}
  BY <1>1, <1>2, <1>3, Members
<1>6. In(a) \cup In(b) = In(l)
  <2>1. \A k \in 1 .. Len(l) : k \in 1 .. n \/ k \in (n + 1) .. Len(l)
    BY <1>1
  <2>2. /\ \A k \in 1 .. n : k \in 1 .. Len(l)
        /\ \A k \in (n + 1) .. Len(l) : k \in 1 .. Len(l)
    BY <1>1
  <2>3. QED
    BY <1>2, <1>3, <2>1, <2>2, Members
<1>7. r \in Lists /\ Len(r) = Len(l) /\ In(r) = In(l)
  <2>1. r \in Lists /\ Len(r) = Len(a) + Len(b) /\ In(r) = In(a) \cup In(b)
    BY <1>2, <1>3, <1>5, Joined
  <2>2. QED
    BY <1>1, <1>2, <1>3, <1>6, <2>1
<1>8. r[1] = l[n + 1]
  BY <1>1, <1>2, <1>3 DEF Lists
<1> HIDE DEF r
<1>9. Tail(r) = SubSeq(r, 2, Len(r))
  BY <1>1, <1>7 DEF Lists
<1>10. /\ Tail(r) \in Lists /\ Len(Tail(r)) = Len(l) - 1
       /\ In(Tail(r)) = {r[k] : k \in 2 .. Len(r)}
  <2> DEFINE i == 2
             j == Len(r)
  <2>1. /\ i \in Nat \ {0} /\ j \in Nat /\ i <= j + 1 /\ j <= Len(r)
        /\ r \in Lists /\ j - i + 1 = Len(l) - 1
    BY <1>1, <1>7
  <2> HIDE DEF i, j
  <2>2. /\ SubSeq(r, i, j) \in Lists /\ Len(SubSeq(r, i, j)) = j - i + 1
        /\ In(SubSeq(r, i, j)) = {r[k] : k \in i .. j}
    BY <2>1, Part
  <2>3. QED
    BY <1>9, <2>1, <2>2 DEF i, j
<1>11. In(Tail(r)) = In(r) \ {r[1]}
  <2>1. /\ \A k \in 1 .. Len(r) : k = 1 \/ k \in 2 .. Len(r)
        /\ \A k \in 2 .. Len(r) : k # 1 /\ k \in 1 .. Len(r)
        /\ 1 \in 1 .. Len(r)
    BY <1>1, <1>7
  <2>2. In(r) = {r[k] : k \in 1 .. Len(r)} /\ \A i, j \in 1 .. Len(r) : r[i] = r[j] => i = j
    BY <1>7, Members
  <2>3. QED
    BY <1>10, <2>1, <2>2
<1>12. QED
  BY <1>4, <1>7, <1>8, <1>10, <1>11

-----------------------------------------------------------------------------

\* What is told of a creature.
State == [known |-> known, client |-> table, crowded |-> crowded, confused |-> confused]

\* A server that believes what is true tells the truth: told of the creature id while it
\* sees sight, its client knows all of sight that it knew, and id.
Believes(s) ==
  /\ s.known \in Lists /\ Len(s.known) <= Room
  /\ s.client \subseteq Creatures /\ s.crowded \in BOOLEAN /\ s.confused \in BOOLEAN
  /\ ~s.crowded => In(s.known) = s.client /\ ~s.confused

LEMMA UsedBelieves ==
  ASSUME NEW k \in Lists, Len(k) <= Room, NEW t \in SUBSET Creatures, NEW b \in BOOLEAN,
         NEW f \in BOOLEAN, ~b => In(k) = t /\ ~f, NEW id \in In(k)
  PROVE  LET s == Sees!Used([known |-> k, client |-> t, crowded |-> b, confused |-> f], id)
         IN  Believes(s) /\ s.crowded = b /\ s.client = t
<1> DEFINE n == CHOOSE n \in DOMAIN k : k[n] = id
           m == Append(Sees!RemoveAt(k, n), id)
<1>1. n \in 1 .. Len(k) /\ k[n] = id
  <2>1. DOMAIN k = 1 .. Len(k) /\ \E i \in 1 .. Len(k) : k[i] = id
    BY DEF In, Sees!ToSet, Lists
  <2>2. QED
    BY <2>1
<1> HIDE DEF n
<1>2. m \in Lists /\ Len(m) = Len(k) /\ In(m) = In(k)
  BY <1>1, MovesToEnd
<1> DEFINE s == [known |-> k, client |-> t, crowded |-> b, confused |-> f]
           u == Sees!Used(s, id)
<1>3. u.known = m /\ u.client = t /\ u.crowded = b
  BY DEF Sees!Used, n
<1>4. u.confused = (f \/ id \notin t)
  BY Zenon DEF Sees!Used
<1> HIDE DEF m, u
<1>5. (f \/ id \notin t) \in BOOLEAN /\ (~b => ~(f \/ id \notin t))
  OBVIOUS
<1>6. Believes(u)
  BY <1>2, <1>3, <1>4, <1>5 DEF Believes
<1>7. QED
  BY <1>3, <1>6 DEF u

\* Induction, which the library states of operators, is stated here of sets; it follows
\* from the pigeonhole principle: otherwise n |-> n + 1 would take the members of S up to
\* some number to one fewer of them.
LEMMA Induction ==
  ASSUME NEW S, 0 \in S, \A n \in Nat : n \in S => n + 1 \in S
  PROVE  Nat \subseteq S
<1> SUFFICES ASSUME NEW n \in Nat, n \notin S PROVE FALSE
  OBVIOUS
<1> DEFINE A == {i \in 0 .. n : i \in S}
           f == [i \in A |-> i + 1]
<1>1. IsFiniteSet(A) /\ IsFiniteSet(A \ {0}) /\ Cardinality(A \ {0}) < Cardinality(A)
  <2>1. IsFiniteSet(0 .. n)
    BY FS_Interval
  <2>2. A \in SUBSET (0 .. n) /\ 0 \in A
    OBVIOUS
  <2>3. IsFiniteSet(A)
    BY <2>1, <2>2, FS_Subset
  <2>4. Cardinality(A) \in Nat
    BY <2>3, FS_CardinalityType
  <2>5. IsFiniteSet(A \ {0}) /\ Cardinality(A \ {0}) = Cardinality(A) - 1
    BY <2>2, <2>3, FS_RemoveElement
  <2>6. QED
    BY <2>3, <2>4, <2>5
<1>2. f \in [A -> A \ {0}]
  OBVIOUS
<1>3. PICK x, y \in A : x # y /\ f[x] = f[y]
  <2> HIDE DEF A, f
  <2>1. QED
    BY <1>1, <1>2, FS_PigeonHole
<1>4. QED
  BY <1>3

\* The smallest of some numbers.
LEMMA Smallest ==
  ASSUME NEW S \in SUBSET Nat, NEW n \in S
  PROVE  \E m \in S : \A k \in S : m <= k
<1> SUFFICES ASSUME \A m \in S : \E k \in S : k < m PROVE FALSE
  OBVIOUS
<1> DEFINE Below == {i \in Nat : \A k \in S : i <= k}
<1>1. 0 \in Below /\ \A i \in Nat : i \in Below => i + 1 \in Below
  OBVIOUS
<1> HIDE DEF Below
<1>2. Nat \subseteq Below
  BY <1>1, Induction
<1>3. QED
  BY <1>2 DEF Below

\* The loop stops at the first creature that is out of sight.
LEMMA TurnsStop ==
  ASSUME Room \in Nat, NEW l, NEW sight
  PROVE  LET n == Sees!Turns(l, sight)
         IN  n \in 0 .. Room /\ (n # Room => l[n + 1] \notin sight)
<1> DEFINE out == {n \in 1 .. Room : l[n] \notin sight}
           Least(n) == \A k \in out : n <= k
<1>1. CASE out = {}
  BY <1>1 DEF Sees!Turns
<1>2. CASE out # {}
  <2>1. \E n \in out : Least(n)
    <3>1. PICK n \in out : TRUE
      BY <1>2
    <3>2. out \in SUBSET Nat
      OBVIOUS
    <3> HIDE DEF out
    <3>3. QED
      BY <3>1, <3>2, Smallest
  <2> DEFINE f == CHOOSE n \in out : Least(n)
  <2>2. f \in out
    BY <2>1
  <2>3. Sees!Turns(l, sight) = f - 1
    BY <1>2 DEF Sees!Turns
  <2> HIDE DEF f
  <2>4. f - 1 \in 0 .. Room /\ (f - 1) + 1 = f /\ l[f] \notin sight
    BY <2>2
  <2>5. QED
    BY <2>3, <2>4
<1>3. QED
  BY <1>1, <1>2

LEMMA DescribedBelieves ==
  ASSUME Room \in Nat \ {0}, None \notin Creatures,
         NEW k \in Lists, Len(k) <= Room, NEW t \in SUBSET Creatures, NEW b \in BOOLEAN,
         NEW f \in BOOLEAN, ~b => In(k) = t /\ ~f, NEW id \in Creatures \ In(k), NEW sight
  PROVE  LET s == Sees!Described([known |-> k, client |-> t, crowded |-> b, confused |-> f], id, sight)
         IN  /\ Believes(s) /\ (b => s.crowded)
             /\ ~s.crowded => id \in s.client /\ t \cap sight \subseteq s.client
<1> DEFINE s == [known |-> k, client |-> t, crowded |-> b, confused |-> f]
           u == Sees!Described(s, id, sight)
           l == Append(k, id)
           n == Sees!Turns(l, sight)
           gone == IF Len(l) > Room THEN Sees!Removed(l, n) ELSE None
<1>1. /\ l \in Lists /\ Len(l) = Len(k) + 1 /\ In(l) = In(k) \cup {id} /\ l[Len(k) + 1] = id
      /\ Len(k) \in Nat /\ Len(l) \in Nat
  BY Longer, Members
<1>2. n \in 0 .. Room /\ (n # Room => l[n + 1] \notin sight)
  BY TurnsStop
<1>3. /\ u.known = (IF Len(l) > Room THEN Tail(Sees!Turned(l, n)) ELSE l)
      /\ u.client = (t \ {gone}) \cup {id}
      /\ u.confused = f
  BY DEF Sees!Described
<1>4. u.crowded = (b \/ (Len(l) > Room /\ n = Room))
  BY Zenon DEF Sees!Described
<1> HIDE DEF u, l, n, s, gone
<1>5. CASE Len(l) <= Room
  <2>1. u.known = l /\ gone = None
    BY <1>1, <1>3, <1>5 DEF gone
  <2>2. u.crowded = b
    BY <1>1, <1>4, <1>5
  <2>3. u.client = t \cup {id}
    BY <1>3, <2>1
  <2>4. QED
    BY <1>1, <1>3, <1>5, <2>1, <2>2, <2>3 DEF Believes, u, s
<1>6. CASE Len(l) > Room
  <2>1. Len(l) = Room + 1 /\ n < Len(l)
    BY <1>1, <1>2, <1>6
  <2> DEFINE m == Tail(Sees!Turned(l, n))
  <2>2. m \in Lists /\ Len(m) = Room /\ In(m) = In(l) \ {l[n + 1]}
    BY <1>1, <1>2, <2>1, LosesTheFront
  <2>3. u.known = m
    BY <1>3, <1>6
  <2> HIDE DEF m
  <2>4. CASE n = Room
    <3>1. u.crowded = TRUE
      BY <1>4, <1>6, <2>4
    <3>2. u.crowded \in BOOLEAN /\ u.confused \in BOOLEAN /\ ~(~u.crowded)
      BY <1>3, <3>1, Zenon
    <3>3. u.client \subseteq Creatures
      BY <1>3
    <3>4. u.known \in Lists /\ Len(u.known) <= Room
      BY <2>2, <2>3
    <3>5. Believes(u)
      BY <3>2, <3>3, <3>4 DEF Believes
    <3>6. QED
      BY <3>1, <3>5 DEF u, s
  <2>5. CASE n # Room
    <3>1. u.crowded = b
      BY <1>4, <2>5
    <3>2. gone = l[n + 1]
      BY <1>6, <2>5 DEF gone, Sees!Removed
    <3>3. gone # id /\ gone \notin sight
      <4>1. n + 1 \in 1 .. Len(l) /\ Len(k) + 1 \in 1 .. Len(l) /\ n + 1 # Len(k) + 1
        BY <1>1, <1>2, <2>1, <2>5
      <4>2. QED
        BY <1>1, <1>2, <2>5, <3>2, <4>1, Members
    <3>4. /\ u.client \subseteq Creatures /\ id \in u.client /\ t \cap sight \subseteq u.client
          /\ (~b => In(m) = u.client)
      BY <1>1, <1>3, <2>2, <3>2, <3>3
    <3>5. /\ u.crowded \in BOOLEAN /\ u.confused \in BOOLEAN
          /\ ~u.crowded => ~b /\ ~u.confused
      BY <1>3, <3>1, Zenon
    <3>6. Believes(u)
      <4>1. u.known \in Lists /\ Len(u.known) <= Room
        BY <2>2, <2>3
      <4>2. ~u.crowded => In(u.known) = u.client /\ ~u.confused
        BY <2>3, <3>4, <3>5
      <4>3. QED
        BY <3>4, <3>5, <4>1, <4>2 DEF Believes
    <3>7. QED
      BY <3>1, <3>4, <3>6 DEF u, s
  <2>6. QED
    BY <2>4, <2>5
<1>7. QED
  BY <1>1, <1>5, <1>6

-----------------------------------------------------------------------------
(* What a client knows                                                     *)

Knows ==
  /\ Believes(State) /\ shown \subseteq seen /\ seen \subseteq Creatures
  /\ ~crowded => shown \subseteq table

LEMMA StateParts ==
  /\ State.known = known /\ State.client = table
  /\ State.crowded = crowded /\ State.confused = confused
BY DEF State

\* A description: the server's belief stays true, and all on the map stays in the table.
LEMMA TellKnows ==
  ASSUME Sees!KnownAssumption, Knows, NEW id \in Creatures, NEW sight, shown \subseteq sight,
         Sees!Tell(id, sight)
  PROVE  /\ Believes(State)'
         /\ ~crowded' => shown \cup {id} \subseteq table'
<1> DEFINE u == Sees!Check(State, id, sight)
<1>1. known' = u.known /\ table' = u.client /\ crowded' = u.crowded /\ confused' = u.confused
  BY DEF Sees!Tell, State
<1>2. /\ Believes(u) /\ (crowded => u.crowded)
      /\ ~u.crowded => shown \cup {id} \subseteq u.client
  <2>1. /\ known \in Lists /\ Len(known) <= Room /\ table \in SUBSET Creatures
        /\ crowded \in BOOLEAN /\ confused \in BOOLEAN
        /\ ~crowded => In(known) = table /\ ~confused /\ shown \subseteq table
    BY DEF Knows, Believes, State
  <2>2. CASE id \in In(known)
    <3>1. u = Sees!Used(State, id)
      BY <2>2 DEF Sees!Check, State, In
    <3>2. Believes(u) /\ u.crowded = crowded /\ u.client = table
      BY <2>1, <2>2, <3>1, UsedBelieves DEF State
    <3>3. QED
      BY <2>1, <2>2, <3>2
  <2>3. CASE id \notin In(known)
    <3>1. u = Sees!Described(State, id, sight)
      BY <2>3 DEF Sees!Check, State, In
    <3>2. id \in Creatures \ In(known) /\ (~crowded => In(known) = table /\ ~confused)
      BY <2>1, <2>3
    <3>3. /\ Believes(u) /\ (crowded => u.crowded)
          /\ ~u.crowded => id \in u.client /\ table \cap sight \subseteq u.client
      <4>1. Room \in Nat \ {0} /\ None \notin Creatures
        BY DEF Sees!KnownAssumption
      <4> HIDE DEF u
      <4>2. QED
        BY <2>1, <3>1, <3>2, <4>1, DescribedBelieves DEF State
    <3>4. QED
      BY <2>1, <3>3
  <2>4. QED
    BY <2>2, <2>3
<1> HIDE DEF u
<1>3. QED
  BY <1>1, <1>2 DEF Believes, State

THEOREM KnowsStep ==
  ASSUME Sees!KnownAssumption, Knows, [Sees!Next]_Sees!vars
  PROVE  Knows'
<1>1. shown \subseteq seen /\ seen \subseteq Creatures /\ (~crowded => shown \subseteq table)
      /\ Believes(State)
  BY DEF Knows
<1>2. ASSUME UNCHANGED <<known, table, crowded, confused>>, shown' \subseteq shown,
             shown' \subseteq seen', seen' \subseteq Creatures
      PROVE  Knows'
  <2>1. Believes(State)' = Believes(State)
    BY <1>2 DEF Believes, State
  <2>2. QED
    BY <1>1, <1>2, <2>1 DEF Knows
<1>3. ASSUME NEW c \in Creatures, Sees!Appears(c) PROVE Knows'
  BY <1>1, <1>3, TellKnows DEF Knows, Sees!Appears
<1>4. ASSUME NEW c \in Creatures, Sees!AppearsBelow(c) PROVE Knows'
  BY <1>1, <1>2, <1>4 DEF Sees!AppearsBelow
<1>5. ASSUME NEW c \in Creatures, Sees!Again(c) PROVE Knows'
  BY <1>1, <1>5, TellKnows DEF Knows, Sees!Again
<1>6. ASSUME NEW c \in Creatures, Sees!Disappears(c) PROVE Knows'
  BY <1>1, <1>2, <1>6 DEF Sees!Disappears
<1>7. ASSUME NEW sight \in SUBSET Creatures, Sees!Moves(sight) PROVE Knows'
  BY <1>1, <1>2, <1>7 DEF Sees!Moves
<1>8. CASE UNCHANGED Sees!vars
  BY <1>1, <1>2, <1>8 DEF Sees!vars
<1>9. QED
  BY <1>3, <1>4, <1>5, <1>6, <1>7, <1>8 DEF Sees!Next

\* For every number of creatures and every room a client has for them.
THEOREM ClientKnowsAlways ==
  ASSUME Sees!KnownAssumption
  PROVE  Sees!Spec => []Sees!ClientKnows
<1>1. Sees!Init => Knows
  <2> SUFFICES ASSUME Sees!Init PROVE Knows
    OBVIOUS
  <2>1. <<>> \in Lists /\ Len(<<>>) = 0 /\ In(<<>>) = {}
    BY DEF Lists, In, Sees!IsInjective, Sees!ToSet
  <2>2. QED
    <3>1. State.known = <<>> /\ State.client = {} /\ State.crowded = FALSE /\ State.confused = FALSE
      BY StateParts DEF Sees!Init
    <3>2. Believes(State)
      <4>1. /\ State.crowded \in BOOLEAN /\ State.confused \in BOOLEAN
            /\ ~State.crowded => ~State.confused
        BY <3>1, Zenon
      <4>2. 0 <= Room
        BY DEF Sees!KnownAssumption
      <4>3. QED
        BY <2>1, <3>1, <4>1, <4>2 DEF Believes
    <3>3. QED
      BY <3>2 DEF Knows, Sees!Init
<1>2. Knows /\ [Sees!Next]_Sees!vars => Knows'
  BY KnowsStep
<1>3. Knows => Sees!ClientKnows
  BY StateParts DEF Knows, Believes, Lists, In, Sees!ClientKnows, Sees!TypeOK, Sees!BeliefIsTrue,
                    Sees!ShownAreKnown, Sees!NobodyConfused
<1>4. QED
  BY <1>1, <1>2, <1>3, PTL DEF Sees!Spec

-----------------------------------------------------------------------------
(* The reports of rule violations: an instance beside the sessions         *)

CONSTANT Gamemasters
VARIABLES online, reports, gamemaster, open, channel, list

Te == INSTANCE Reports

\* The inductive invariant: only open reports are nobody's, and who uses the channel is there.
Agreed ==
  /\ Te!ReportsSound
  /\ channel \subseteq online
  /\ \A p \in Players \ reports : gamemaster[p] = None
  /\ \A p \in open : gamemaster[p] = None

LEMMA AgreedInit ==
  ASSUME Te!Init PROVE Agreed
BY DEF Agreed, Te!Init, Te!ReportsSound, Te!TypeOK, Te!PartiesOnline, Te!ClosedIsTaken,
       Te!ListsAgree

LEMMA AgreedFacts ==
  ASSUME Agreed
  PROVE  /\ online \subseteq Players /\ reports \subseteq online /\ channel \subseteq Gamemasters
         /\ channel \subseteq online /\ open \subseteq reports
         /\ gamemaster \in [Players -> Gamemasters \union {None}]
         /\ list \in [Gamemasters -> SUBSET Players]
         /\ \A p \in Players \ reports : gamemaster[p] = None
         /\ \A p \in open : gamemaster[p] = None
         /\ \A p \in reports : gamemaster[p] # None => gamemaster[p] \in online
         /\ \A p \in reports \ open : gamemaster[p] # None
         /\ \A g \in channel : list[g] = open
BY DEF Agreed, Te!ReportsSound, Te!TypeOK, Te!PartiesOnline, Te!ClosedIsTaken, Te!ListsAgree

LEMMA AgreedFrom ==
  ASSUME online' \subseteq Players, reports' \subseteq online', channel' \subseteq Gamemasters,
         channel' \subseteq online', open' \subseteq reports',
         gamemaster' \in [Players -> Gamemasters \union {None}],
         list' \in [Gamemasters -> SUBSET Players],
         \A p \in Players \ reports' : gamemaster'[p] = None,
         \A p \in open' : gamemaster'[p] = None,
         \A p \in reports' : gamemaster'[p] # None => gamemaster'[p] \in online',
         \A p \in reports' \ open' : gamemaster'[p] # None,
         \A g \in channel' : list'[g] = open'
  PROVE  Agreed'
BY DEF Agreed, Te!ReportsSound, Te!TypeOK, Te!PartiesOnline, Te!ClosedIsTaken, Te!ListsAgree

\* What the end of the reports ps leaves, if those who are told, users, are all who list one.
LEMMA ErasedKeeps ==
  ASSUME Te!ReportsAssumption, Agreed, NEW ps \in SUBSET Players, Te!Erased(ps), NEW users,
         users = channel \/ (users = {} /\ ps \intersect open = {}), NEW gone,
         online' = online \ gone, channel' = channel \ gone,
         reports \intersect gone \subseteq ps, \A p \in reports : gamemaster[p] \in gone => p \in ps,
         list' = [g \in Gamemasters |-> IF g \in gone THEN {} ELSE Te!Removed(users, ps)[g]]
  PROVE  Agreed' /\ Te!TakenOnce
<1> USE DEF Te!Erased
<1>1. /\ reports' = reports \ ps /\ open' = open \ ps
      /\ gamemaster' \in [Players -> Gamemasters \union {None}]
      /\ \A p \in Players : gamemaster'[p] = IF p \in ps THEN None ELSE gamemaster[p]
  BY AgreedFacts
<1>2. \A g \in Gamemasters :
        list'[g] = IF g \in gone THEN {} ELSE IF g \in users THEN list[g] \ ps ELSE list[g]
  BY DEF Te!Removed
<1>3. list' \in [Gamemasters -> SUBSET Players]
  <2>1. list' = [g \in Gamemasters |-> list'[g]]
    OBVIOUS
  <2>2. \A g \in Gamemasters : list'[g] \in SUBSET Players
    BY <1>2, AgreedFacts
  <2>3. QED
    BY <2>1, <2>2
<1>4. \A g \in channel' : list'[g] = open'
  BY <1>1, <1>2, AgreedFacts
<1> HIDE DEF Te!Erased
<1>5. \A p \in Players \ reports' : gamemaster'[p] = None
  BY <1>1, AgreedFacts
<1>6. \A p \in reports' : p \in Players /\ p \in reports /\ gamemaster'[p] = gamemaster[p]
  BY <1>1, AgreedFacts
<1>7. /\ \A p \in open' : gamemaster'[p] = None
      /\ \A p \in reports' : gamemaster'[p] # None => gamemaster'[p] \in online'
      /\ \A p \in reports' \ open' : gamemaster'[p] # None
  BY <1>1, <1>6, AgreedFacts
<1>8. online' \subseteq Players /\ reports' \subseteq online' /\ channel' \subseteq Gamemasters
      /\ channel' \subseteq online' /\ open' \subseteq reports'
  BY <1>1, AgreedFacts
<1>9. Agreed'
  BY <1>1, <1>3, <1>4, <1>5, <1>7, <1>8, AgreedFrom
<1>10. Te!TakenOnce
  BY <1>1, AgreedFacts DEF Te!TakenOnce
<1>11. QED
  BY <1>9, <1>10

LEMMA AgreedNext ==
  ASSUME Te!ReportsAssumption, Agreed, [Te!Next]_(Te!vars)
  PROVE  Agreed' /\ (Te!TakenOnce \/ UNCHANGED Te!vars)
<1>1. ASSUME NEW p \in Players, Te!Report(p) PROVE Agreed' /\ Te!TakenOnce
  <2>1. /\ reports' = reports \union {p} /\ open' = open \union {p} /\ p \in online
        /\ gamemaster' \in [Players -> Gamemasters \union {None}]
        /\ \A q \in Players : gamemaster'[q] = IF q = p THEN None ELSE gamemaster[q]
        /\ UNCHANGED <<online, channel>>
    BY <1>1, AgreedFacts DEF Te!Report
  <2>2. /\ list' \in [Gamemasters -> SUBSET Players]
        /\ \A g \in channel : list'[g] = open'
    BY <1>1, AgreedFacts DEF Te!Report
  <2>3. Agreed'
    BY <2>1, <2>2, AgreedFacts, AgreedFrom
  <2>4. QED
    BY <2>1, <2>3, AgreedFacts DEF Te!TakenOnce
<1>2. ASSUME NEW p \in Players, Te!Cancel(p) PROVE Agreed' /\ Te!TakenOnce
  <2> DEFINE told == Te!Told(p)
             gone == {}
             ps == {p}
  <2>1. told = channel \/ (told = {} /\ ps \intersect open = {})
    BY DEF Te!Told
  <2>2. list' = [g \in Gamemasters |-> IF g \in gone THEN {} ELSE Te!Removed(told, ps)[g]]
    BY <1>2 DEF Te!Cancel, Te!Removed
  <2>3. /\ Te!Erased(ps) /\ online' = online \ gone /\ channel' = channel \ gone
        /\ ps \in SUBSET Players /\ reports \intersect gone \subseteq ps
        /\ \A q \in reports : gamemaster[q] \in gone => q \in ps
    BY <1>2 DEF Te!Cancel
  <2> HIDE DEF told, gone, ps
  <2>4. QED
    BY <2>1, <2>2, <2>3, ErasedKeeps
<1>3. ASSUME NEW p \in Players, Te!Close(p) PROVE Agreed' /\ Te!TakenOnce
  <2> DEFINE told == channel
             gone == {}
             ps == {p}
  <2>1. told = channel \/ (told = {} /\ ps \intersect open = {})
    OBVIOUS
  <2>2. list' = [g \in Gamemasters |-> IF g \in gone THEN {} ELSE Te!Removed(told, ps)[g]]
    BY <1>3 DEF Te!Close, Te!Removed
  <2>3. /\ Te!Erased(ps) /\ online' = online \ gone /\ channel' = channel \ gone
        /\ ps \in SUBSET Players /\ reports \intersect gone \subseteq ps
        /\ \A q \in reports : gamemaster[q] \in gone => q \in ps
    BY <1>3 DEF Te!Close
  <2> HIDE DEF told, gone, ps
  <2>4. QED
    BY <2>1, <2>2, <2>3, ErasedKeeps
<1>4. ASSUME NEW p \in Players, Te!Logout(p) PROVE Agreed' /\ Te!TakenOnce
  <2> DEFINE ends == Te!EndsOf(p)
             told == IF ends \ {p} = {} THEN Te!Told(p) ELSE channel
  <2>1. ends \in SUBSET Players /\ reports \intersect {p} \subseteq ends
        /\ \A q \in reports : gamemaster[q] \in {p} => q \in ends
    BY AgreedFacts DEF Te!EndsOf
  <2>2. told = channel \/ (told = {} /\ ends \intersect open = {})
    BY DEF Te!Told
  <2>3. Te!Erased(ends) /\ online' = online \ {p} /\ channel' = channel \ {p}
        /\ list' = [g \in Gamemasters |-> IF g \in {p} THEN {} ELSE Te!Removed(told, ends)[g]]
    BY <1>4 DEF Te!Logout
  <2> HIDE DEF ends, told
  <2>4. QED
    BY <2>1, <2>2, <2>3, ErasedKeeps
<1>5. ASSUME NEW p \in Players, Te!Login(p) PROVE Agreed' /\ Te!TakenOnce
  <2>1. online' = online \union {p} /\ UNCHANGED <<reports, gamemaster, open, channel, list>>
    BY <1>5 DEF Te!Login
  <2>2. Agreed'
    BY <2>1, AgreedFacts, AgreedFrom
  <2>3. QED
    BY <2>1, <2>2 DEF Te!TakenOnce
<1>6. ASSUME NEW g \in Gamemasters, NEW p \in Players, Te!Process(g, p)
      PROVE  Agreed' /\ Te!TakenOnce
  <2>1. /\ p \in open /\ g \in online /\ open' = open \ {p}
        /\ gamemaster' \in [Players -> Gamemasters \union {None}]
        /\ \A q \in Players : gamemaster'[q] = IF q = p THEN g ELSE gamemaster[q]
        /\ UNCHANGED <<online, reports, channel>>
    BY <1>6, AgreedFacts DEF Te!Process, Te!MayTake, Te!AnsweredBy
  <2>2. /\ list' \in [Gamemasters -> SUBSET Players]
        /\ \A h \in channel : list'[h] = open'
    BY <1>6, AgreedFacts DEF Te!Process, Te!Taken, Te!Removed
  <2>3. g # None
    BY AgreedFacts DEF Te!ReportsAssumption
  <2>4. Agreed'
    BY <2>1, <2>2, <2>3, AgreedFacts, AgreedFrom
  <2>5. QED
    BY <2>1, <2>4, AgreedFacts DEF Te!TakenOnce
<1>7. ASSUME NEW g \in Gamemasters, Te!OpenChannel(g) PROVE Agreed' /\ Te!TakenOnce
  <2>1. /\ channel' = channel \union {g} /\ g \in online
        /\ list' \in [Gamemasters -> SUBSET Players]
        /\ \A h \in Gamemasters : list'[h] = IF h = g THEN open ELSE list[h]
        /\ UNCHANGED <<online, reports, gamemaster, open>>
    BY <1>7, AgreedFacts DEF Te!OpenChannel
  <2>2. Agreed'
    BY <2>1, AgreedFacts, AgreedFrom
  <2>3. QED
    BY <2>1, <2>2 DEF Te!TakenOnce
<1>8. ASSUME NEW g \in Gamemasters, Te!CloseChannel(g) PROVE Agreed' /\ Te!TakenOnce
  <2>1. /\ channel' = channel \ {g}
        /\ list' \in [Gamemasters -> SUBSET Players]
        /\ \A h \in Gamemasters : h # g => list'[h] = list[h]
        /\ UNCHANGED <<online, reports, gamemaster, open>>
    BY <1>8, AgreedFacts DEF Te!CloseChannel
  <2>2. Agreed'
    BY <2>1, AgreedFacts, AgreedFrom
  <2>3. QED
    BY <2>1, <2>2 DEF Te!TakenOnce
<1>9. CASE UNCHANGED Te!vars
  <2>1. UNCHANGED <<online, reports, gamemaster, open, channel, list>>
    BY <1>9 DEF Te!vars
  <2>2. Agreed'
    BY <2>1, AgreedFacts, AgreedFrom
  <2>3. QED
    BY <1>9, <2>2
<1>10. QED
  BY <1>1, <1>2, <1>3, <1>4, <1>5, <1>6, <1>7, <1>8, <1>9 DEF Te!Next

\* For any players and gamemasters: a report points to players who are there, one that is
\* not open has a gamemaster, and whoever looks at the channel sees the open reports
\* (ReportsSound of Reports).
THEOREM ReportsCorrect ==
  ASSUME Te!ReportsAssumption
  PROVE  Te!Spec => []Te!ReportsSound
<1>1. Agreed /\ [Te!Next]_(Te!vars) => Agreed'
  BY AgreedNext
<1>2. Agreed => Te!ReportsSound
  BY DEF Agreed
<1>3. QED
  BY <1>1, <1>2, AgreedInit, PTL DEF Te!Spec

\* A report that a gamemaster has taken is not taken by another (TakenOnce of Reports,
\* which ReportsAgree of MCLogins checks).
THEOREM ReportsTakenOnce ==
  ASSUME Te!ReportsAssumption
  PROVE  Te!Spec => [][Te!TakenOnce]_(Te!vars)
<1>1. Agreed /\ [Te!Next]_(Te!vars) => Agreed'
  BY AgreedNext
<1>2. Agreed /\ [Te!Next]_(Te!vars) => [Te!TakenOnce]_(Te!vars)
  BY AgreedNext
<1>3. QED
  BY <1>1, <1>2, AgreedInit, PTL DEF Te!Spec

-----------------------------------------------------------------------------
(* The experience a party shares: an instance beside the sessions          *)

CONSTANTS Places, Radius, Gap, Levels, Worths, Losses, MaxExp, Limit, Percent
VARIABLES leader, members, active, enabled, exp, level, pos, fought, downgraded

Px == INSTANCE PartyExperience

LEMMA Thirds ==
  ASSUME NEW a \in Int, NEW b \in Int PROVE (a + 150 * b) \div 3 = a \div 3 + 50 * b
OBVIOUS

\* What a level takes more than the one before it.
LEMMA NextLevel ==
  ASSUME NEW l \in Nat \ {0}
  PROVE  LET k == l - 1
         IN  Px!ExpForLevel(l + 1) = Px!ExpForLevel(l) + 50 * (k * k - k + 2)
<1> DEFINE k == l - 1
           a == 50 * k * k * k - 150 * k * k + 400 * k
           b == k * k - k + 2
<1>1. k \in Int /\ a \in Int /\ b \in Int /\ (l + 1) - 1 = k + 1
  OBVIOUS
<1>2. 50 * (k + 1) * (k + 1) * (k + 1) - 150 * (k + 1) * (k + 1) + 400 * (k + 1) = a + 150 * b
  OBVIOUS
<1>3. Px!ExpForLevel(l) = a \div 3
  BY DEF Px!ExpForLevel
<1>4. Px!ExpForLevel(l + 1) = (a + 150 * b) \div 3
  BY <1>1, <1>2 DEF Px!ExpForLevel
<1> HIDE DEF a, b, k
<1>5. Px!ExpForLevel(l + 1) = Px!ExpForLevel(l) + 50 * b
  BY <1>1, <1>3, <1>4, Thirds
<1>6. QED
  BY <1>5 DEF b, k

LEMMA LevelsRise ==
  ASSUME NEW l \in Nat \ {0}
  PROVE  Px!ExpForLevel(l) \in Int /\ Px!ExpForLevel(l + 1) >= Px!ExpForLevel(l) + 1
<1> DEFINE k == l - 1
           b == k * k - k + 2
           a == 50 * k * k * k - 150 * k * k + 400 * k
<1>1. b \in Int /\ b > 0
  OBVIOUS
<1>2. Px!ExpForLevel(l) = a \div 3 /\ a \in Int
  BY DEF Px!ExpForLevel
<1>3. a \div 3 \in Int
  BY <1>2
<1>4. Px!ExpForLevel(l + 1) = Px!ExpForLevel(l) + 50 * b
  BY NextLevel
<1> HIDE DEF a, b, k
<1>5. QED
  BY <1>1, <1>2, <1>3, <1>4

\* A level takes something, and more than any number of points is taken by some level.
LEMMA LevelsCost ==
  /\ Px!ExpForLevel(1) = 0
  /\ \A n \in Nat : Px!ExpForLevel(n + 1) \in Nat /\ Px!ExpForLevel(n + 1) >= n
<1> DEFINE S == {n \in Nat : Px!ExpForLevel(n + 1) \in Nat /\ Px!ExpForLevel(n + 1) >= n}
<1>1. Px!ExpForLevel(1) = 0
  BY DEF Px!ExpForLevel
<1>2. 0 \in S
  BY <1>1
<1>3. ASSUME NEW n \in Nat, n \in S PROVE n + 1 \in S
  <2>1. n + 1 \in Nat \ {0} /\ Px!ExpForLevel(n + 1) \in Nat /\ Px!ExpForLevel(n + 1) >= n
    BY <1>3
  <2>2. Px!ExpForLevel((n + 1) + 1) \in Int
    <3>1. (n + 1) + 1 \in Nat \ {0}
      OBVIOUS
    <3>2. QED
      BY <3>1, LevelsRise
  <2>3. Px!ExpForLevel((n + 1) + 1) >= Px!ExpForLevel(n + 1) + 1
    BY <2>1, LevelsRise
  <2> HIDE DEF S
  <2>4. Px!ExpForLevel((n + 1) + 1) \in Nat /\ Px!ExpForLevel((n + 1) + 1) >= n + 1
    BY <2>1, <2>2, <2>3
  <2>5. QED
    BY <2>4 DEF S
<1> HIDE DEF S
<1>4. Nat \subseteq S
  BY <1>2, <1>3, Induction
<1>5. QED
  BY <1>1, <1>4 DEF S

\* The loop of addExperience ends at a level that the points are not enough to leave.
LEMMA LevelUpEnds ==
  ASSUME NEW l \in Nat, NEW e \in Nat
  PROVE  LET m == Px!LevelUp(l, e)
         IN  /\ m \in Nat /\ m >= l /\ e < Px!ExpForLevel(m + 1)
             /\ m = l \/ e >= Px!ExpForLevel(m)
<1> DEFINE More(k) == e >= Px!ExpForLevel(k + 1)
           Is(T) == T = [k \in Nat |-> IF More(k) THEN T[k + 1] ELSE k]
           U == CHOOSE T : Is(T)
           Enough(k) == {m \in Nat : m >= k /\ ~More(m)}
           Least(k) == CHOOSE m \in Enough(k) : \A j \in Enough(k) : m <= j
           F == [k \in Nat |-> Least(k)]
<1>1. \A n \in Nat : Px!ExpForLevel(n + 1) \in Nat /\ Px!ExpForLevel(n + 1) >= n
  BY LevelsCost
<1>2. \A n \in Nat : n > e => ~More(n)
  <2> SUFFICES ASSUME NEW n \in Nat, n > e PROVE ~More(n)
    OBVIOUS
  <2>1. PICK x \in Nat : x = Px!ExpForLevel(n + 1) /\ x >= n
    BY <1>1
  <2>2. e < x
    BY <2>1
  <2>3. QED
    BY <2>1, <2>2
<1>3. Is(F)
  <2> HIDE DEF More
  <2>1. ASSUME NEW k \in Nat, More(k) PROVE Least(k) = F[k + 1]
    <3>1. \A m \in Nat : m >= k /\ ~More(m) <=> m >= k + 1 /\ ~More(m)
      <4> TAKE m \in Nat
      <4>1. m = k => More(m)
        BY <2>1
      <4>2. QED
        BY <4>1
    <3>2. Enough(k) = Enough(k + 1)
      BY <3>1
    <3> HIDE DEF Enough
    <3>3. Least(k) = Least(k + 1)
      BY <3>2
    <3>4. F[k + 1] = Least(k + 1)
      OBVIOUS
    <3>5. QED
      BY <3>3, <3>4
  <2>2. ASSUME NEW k \in Nat, ~More(k) PROVE Least(k) = k
    <3>1. k \in Enough(k) /\ \A j \in Enough(k) : k <= j /\ j \in Nat
      BY <2>2
    <3> HIDE DEF Enough
    <3>2. \A m \in Enough(k) : (\A j \in Enough(k) : m <= j) => m = k
      BY <3>1
    <3>3. QED
      BY <3>1, <3>2
  <2> HIDE DEF Least
  <2>3. \A k \in Nat : F[k] = IF More(k) THEN F[k + 1] ELSE k
    BY <2>1, <2>2
  <2>4. F = [k \in Nat |-> F[k]]
    OBVIOUS
  <2> HIDE DEF F
  <2>5. QED
    BY <2>3, <2>4
<1>4. Is(U)
  <2> HIDE DEF F, Is
  <2>1. QED
    BY <1>3
<1>5. Px!LevelUp(l, e) = U[l]
  BY DEF Px!LevelUp
<1> HIDE DEF U, F, Least, Enough
<1>6. \A k \in Nat : U[k] = IF More(k) THEN U[k + 1] ELSE k
  BY <1>4
<1> DEFINE Ends(k) == /\ U[k] \in Nat /\ U[k] >= k /\ ~More(U[k])
                      /\ U[k] = k \/ e >= Px!ExpForLevel(U[k])
           S == {d \in Nat : \A k \in Nat : k + d > e => Ends(k)}
<1> HIDE DEF Is
<1>7. 0 \in S
  <2> SUFFICES ASSUME NEW k \in Nat, k + 0 > e PROVE Ends(k)
    OBVIOUS
  <2>1. ~More(k)
    BY <1>2
  <2> HIDE DEF More
  <2>2. U[k] = k
    BY <1>6, <2>1
  <2>3. QED
    BY <2>1, <2>2
<1>8. ASSUME NEW d \in Nat, d \in S PROVE d + 1 \in S
  <2> SUFFICES ASSUME NEW k \in Nat, k + (d + 1) > e PROVE Ends(k)
    OBVIOUS
  <2>1. CASE More(k)
    <3>1. k + 1 \in Nat /\ (k + 1) + d > e
      OBVIOUS
    <3>2. Ends(k + 1)
      BY <1>8, <3>1
    <3>3. U[k] = U[k + 1]
      BY <1>6, <2>1
    <3>4. e >= Px!ExpForLevel(k + 1)
      BY <2>1
    <3> HIDE DEF More
    <3>5. QED
      BY <3>2, <3>3, <3>4
  <2>2. CASE ~More(k)
    <3> HIDE DEF More
    <3>1. U[k] = k
      BY <1>6, <2>2
    <3>2. QED
      BY <2>2, <3>1
  <2>3. QED
    BY <2>1, <2>2
<1>9. Nat \subseteq S
  <2> HIDE DEF S
  <2>1. QED
    BY <1>7, <1>8, Induction
<1>10. e + 1 \in S /\ l + (e + 1) > e
  <2>1. e + 1 \in Nat /\ l + (e + 1) > e
    OBVIOUS
  <2> HIDE DEF S
  <2>2. QED
    BY <1>9, <2>1
<1>11. Ends(l)
  <2> HIDE DEF Ends
  <2>1. QED
    BY <1>10
<1>12. U[l] \in Nat /\ e < Px!ExpForLevel(U[l] + 1)
  BY <1>1, <1>11
<1>13. QED
  BY <1>5, <1>11, <1>12

\* The loop of removeExperience ends at a level that the points are enough for, or at one.
LEMMA LevelDownEnds ==
  ASSUME NEW l \in Nat \ {0}, NEW e \in Nat
  PROVE  LET m == Px!LevelDown(l, e)
         IN  /\ m \in Nat \ {0}
             /\ m = l \/ e < Px!ExpForLevel(m + 1)
             /\ m = 1 \/ e >= Px!ExpForLevel(m)
<1> DEFINE Less(k) == k > 1 /\ e < Px!ExpForLevel(k)
           Is(T) == T = [k \in Nat |-> IF Less(k) THEN T[k - 1] ELSE k]
           U == CHOOSE T : Is(T)
           Halts(k) == {m \in Nat : m <= k /\ ~Less(m)}
           Most(k) == CHOOSE m \in Halts(k) : \A j \in Halts(k) : j <= m
           F == [k \in Nat |-> Most(k)]
<1>1. \A n \in Nat : Px!ExpForLevel(n + 1) \in Nat
  BY LevelsCost
<1>2. Is(F)
  <2>1. ASSUME NEW k \in Nat, Less(k) PROVE Most(k) = F[k - 1]
    <3>1. k - 1 \in Nat
      BY <2>1
    <3> HIDE DEF Less
    <3>2. \A m \in Nat : m <= k /\ ~Less(m) <=> m <= k - 1 /\ ~Less(m)
      <4> TAKE m \in Nat
      <4>1. m = k => Less(m)
        BY <2>1
      <4>2. QED
        BY <4>1
    <3>3. Halts(k) = Halts(k - 1)
      BY <3>2
    <3> HIDE DEF Halts
    <3>4. Most(k) = Most(k - 1)
      BY <3>3
    <3>5. F[k - 1] = Most(k - 1)
      BY <3>1
    <3>6. QED
      BY <3>4, <3>5
  <2> HIDE DEF Less
  <2>2. ASSUME NEW k \in Nat, ~Less(k) PROVE Most(k) = k
    <3>1. k \in Halts(k) /\ \A j \in Halts(k) : j <= k /\ j \in Nat
      BY <2>2
    <3> HIDE DEF Halts
    <3>2. \A m \in Halts(k) : (\A j \in Halts(k) : j <= m) => m = k
      BY <3>1
    <3>3. QED
      BY <3>1, <3>2
  <2> HIDE DEF Most
  <2>3. \A k \in Nat : F[k] = IF Less(k) THEN F[k - 1] ELSE k
    BY <2>1, <2>2
  <2>4. F = [k \in Nat |-> F[k]]
    OBVIOUS
  <2> HIDE DEF F
  <2>5. QED
    BY <2>3, <2>4
<1>3. Is(U)
  <2> HIDE DEF F, Is
  <2>1. QED
    BY <1>2
<1>4. Px!LevelDown(l, e) = U[l]
  BY DEF Px!LevelDown
<1> HIDE DEF U, F, Most, Halts
<1>5. \A k \in Nat : U[k] = IF Less(k) THEN U[k - 1] ELSE k
  BY <1>3
<1> DEFINE Ends(k) == /\ U[k] \in Nat /\ (k > 0 => U[k] > 0)
                      /\ U[k] = k \/ e < Px!ExpForLevel(U[k] + 1)
                      /\ U[k] <= 1 \/ e >= Px!ExpForLevel(U[k])
           S == {k \in Nat : Ends(k)}
<1> HIDE DEF Is
<1>6. 0 \in S
  <2>1. ~Less(0)
    OBVIOUS
  <2> HIDE DEF Less
  <2>2. U[0] = 0
    BY <1>5, <2>1
  <2>3. QED
    BY <2>2
<1>7. ASSUME NEW k \in Nat, k \in S PROVE k + 1 \in S
  <2>1. k + 1 \in Nat /\ (k + 1) - 1 = k /\ Ends(k)
    BY <1>7
  <2>2. Px!ExpForLevel(k + 1) \in Nat
    BY <1>1
  <2>3. CASE Less(k + 1)
    <3>1. k > 0 /\ e < Px!ExpForLevel(k + 1)
      BY <2>3
    <3> HIDE DEF Less
    <3>2. U[k + 1] = U[k]
      BY <1>5, <2>1, <2>3
    <3>3. QED
      BY <2>1, <3>1, <3>2
  <2>4. CASE ~Less(k + 1)
    <3>1. k + 1 <= 1 \/ e >= Px!ExpForLevel(k + 1)
      BY <2>2, <2>4
    <3> HIDE DEF Less
    <3>2. U[k + 1] = k + 1
      BY <1>5, <2>1, <2>4
    <3>3. QED
      BY <2>1, <3>1, <3>2
  <2>5. QED
    BY <2>3, <2>4
<1>8. l \in S
  <2> HIDE DEF S
  <2>1. QED
    BY <1>6, <1>7, Induction
<1>9. Ends(l)
  BY <1>8
<1>10. QED
  BY <1>4, <1>9

\* The inductive invariant.
Shares == Px!SharingSound /\ IsFiniteSet(members)

LEMMA SharesFacts ==
  ASSUME Px!PartyExperienceAssumption, Shares
  PROVE  /\ leader \in Players /\ members \subseteq Players \ {leader} /\ IsFiniteSet(members)
         /\ active \in BOOLEAN /\ enabled \in BOOLEAN /\ downgraded \in BOOLEAN
         /\ exp \in [Players -> Nat] /\ level \in [Players -> Nat \ {0}]
         /\ pos \in [Players -> Places] /\ fought \subseteq Players
         /\ active /\ ~downgraded => (enabled <=> Px!CanEnable(leader, Px!Party, level, pos))
         /\ Px!LevelMatches
BY DEF Shares, Px!SharingSound, Px!TypeOK, Px!EnabledIsCurrent

\* The parts of the invariant after a step.
LEMMA SharesFrom ==
  ASSUME leader' \in Players, members' \subseteq Players \ {leader'}, IsFiniteSet(members'),
         active' \in BOOLEAN, enabled' \in BOOLEAN, downgraded' \in BOOLEAN,
         exp' \in [Players -> Nat], level' \in [Players -> Nat \ {0}],
         pos' \in [Players -> Places], fought' \subseteq Players,
         active' /\ ~downgraded' =>
           (enabled' <=> Px!CanEnable(leader', members' \union {leader'}, level', pos')),
         Px!LevelMatches'
  PROVE  Shares'
BY DEF Shares, Px!SharingSound, Px!TypeOK, Px!EnabledIsCurrent, Px!Party

\* A step that looks again.
LEMMA UpdateKeeps ==
  ASSUME Px!PartyExperienceAssumption, Shares, Px!Update, active' = active,
         leader' \in Players, members' \subseteq Players \ {leader'}, IsFiniteSet(members'),
         exp' \in [Players -> Nat], level' \in [Players -> Nat \ {0}],
         pos' \in [Players -> Places], fought' \subseteq Players, Px!LevelMatches'
  PROVE  Shares'
<1>1. /\ enabled' = IF active THEN Px!CanEnable(leader', members' \union {leader'}, level', pos')
                    ELSE enabled
      /\ downgraded' = (downgraded /\ ~active)
  BY DEF Px!Update
<1>2. Px!CanEnable(leader', members' \union {leader'}, level', pos') \in BOOLEAN
  BY DEF Px!CanEnable
<1> DEFINE b == Px!CanEnable(leader', members' \union {leader'}, level', pos')
<1>3. enabled' \in BOOLEAN /\ downgraded' \in BOOLEAN /\ active' \in BOOLEAN
  BY <1>1, <1>2, SharesFacts
<1>4. active' => (enabled' <=> b)
  BY <1>1, <1>2
<1> HIDE DEF b
<1>5. active' /\ ~downgraded' => (enabled' <=> b)
  BY <1>4
<1>6. QED
  BY <1>3, <1>5, SharesFrom DEF b

\* What the levels are after a step that changes neither them nor the points.
LEMMA MatchesSame ==
  ASSUME Px!LevelMatches, exp' = exp, level' = level PROVE Px!LevelMatches'
BY DEF Px!LevelMatches

LEMMA SharesInit ==
  ASSUME Px!PartyExperienceAssumption, Px!Init PROVE Shares
<1>1. level \in [Players -> Levels] /\ exp = [p \in Players |-> Px!ExpForLevel(level[p])]
      /\ pos \in [Players -> Places] /\ leader \in Players /\ members = {} /\ active = FALSE
      /\ enabled = FALSE /\ downgraded = FALSE /\ fought = {}
  BY DEF Px!Init
<1>2. level \in [Players -> Nat \ {0}]
  BY <1>1 DEF Px!PartyExperienceAssumption
<1>3. \A l \in Nat \ {0} : Px!ExpForLevel(l) \in Nat /\ Px!ExpForLevel(l) < Px!ExpForLevel(l + 1)
  <2> TAKE l \in Nat \ {0}
  <2>1. l - 1 \in Nat /\ (l - 1) + 1 = l
    OBVIOUS
  <2>2. Px!ExpForLevel(l) \in Nat
    BY <2>1, LevelsCost
  <2>3. Px!ExpForLevel(l + 1) \in Nat
    BY LevelsCost
  <2>4. QED
    BY <2>2, <2>3, LevelsRise
<1>4. \A p \in Players : exp[p] = Px!ExpForLevel(level[p]) /\ level[p] \in Nat \ {0}
  BY <1>1, <1>2
<1>5. exp \in [Players -> Nat]
  BY <1>1, <1>3, <1>4
<1>6. Px!LevelMatches
  <2> SUFFICES ASSUME NEW p \in Players
               PROVE  Px!ExpForLevel(level[p]) <= exp[p] /\ exp[p] < Px!ExpForLevel(level[p] + 1)
    BY DEF Px!LevelMatches
  <2>1. PICK x \in Nat : x = Px!ExpForLevel(level[p])
    BY <1>3, <1>4
  <2>2. exp[p] = x /\ x < Px!ExpForLevel(level[p] + 1) /\ x <= x
    BY <1>3, <1>4, <2>1
  <2>3. QED
    BY <2>1, <2>2
<1>7. Px!TypeOK
  BY <1>1, <1>2, <1>5 DEF Px!TypeOK
<1>8. Px!EnabledIsCurrent
  BY <1>1 DEF Px!EnabledIsCurrent
<1>9. IsFiniteSet(members)
  BY <1>1, FS_EmptySet
<1>10. QED
  BY <1>6, <1>7, <1>8, <1>9 DEF Shares, Px!SharingSound

\* Points that are gained: the level is the one of the points, and the party hears of a level.
LEMMA GainKeeps ==
  ASSUME Px!PartyExperienceAssumption, Shares, NEW to \in SUBSET Players, NEW points \in Nat,
         Px!Gain(to, points)
  PROVE  Shares'
<1>1. /\ exp' = [p \in Players |-> IF p \in to THEN exp[p] + points ELSE exp[p]]
      /\ level' = [p \in Players |-> IF p \in to THEN Px!LevelUp(level[p], exp'[p]) ELSE level[p]]
      /\ UNCHANGED <<leader, members, active, pos, fought>>
  BY DEF Px!Gain
<1>2. \A p \in Players : exp[p] \in Nat /\ level[p] \in Nat /\ level[p] # 0
  BY SharesFacts
<1>3. exp' \in [Players -> Nat] /\ \A p \in Players : exp'[p] \in Nat /\ exp'[p] >= exp[p]
  BY <1>1, <1>2
<1>4. ASSUME NEW p \in Players
      PROVE  /\ level'[p] \in Nat \ {0}
             /\ Px!ExpForLevel(level'[p]) <= exp'[p] /\ exp'[p] < Px!ExpForLevel(level'[p] + 1)
  <2>1. Px!ExpForLevel(level[p]) <= exp[p] /\ exp[p] < Px!ExpForLevel(level[p] + 1)
    BY SharesFacts DEF Px!LevelMatches
  <2>2. CASE p \notin to
    BY <1>1, <1>2, <2>1, <2>2
  <2>3. CASE p \in to
    <3> DEFINE m == Px!LevelUp(level[p], exp'[p])
    <3>1. level'[p] = m
      BY <1>1, <2>3
    <3>2. /\ m \in Nat /\ m >= level[p] /\ exp'[p] < Px!ExpForLevel(m + 1)
          /\ m = level[p] \/ exp'[p] >= Px!ExpForLevel(m)
      BY <1>2, <1>3, LevelUpEnds
    <3> HIDE DEF m
    <3>3. level[p] - 1 \in Nat /\ (level[p] - 1) + 1 = level[p]
      BY <1>2
    <3>4. PICK x \in Nat, y \in Nat, z \in Nat :
            x = Px!ExpForLevel(level[p]) /\ y = exp[p] /\ z = exp'[p]
      <4>1. Px!ExpForLevel((level[p] - 1) + 1) \in Nat
        BY <3>3, LevelsCost
      <4>2. QED
        BY <1>2, <1>3, <3>3, <4>1
    <3>5. x <= y /\ y <= z
      BY <1>3, <2>1, <3>4
    <3>6. x <= z
      BY <3>5
    <3>7. m = level[p] => Px!ExpForLevel(m) <= exp'[p]
      BY <3>4, <3>6
    <3>8. m # level[p] => Px!ExpForLevel(m) <= exp'[p]
      <4>1. SUFFICES ASSUME m # level[p] PROVE Px!ExpForLevel(m) <= exp'[p]
        OBVIOUS
      <4>2. m - 1 \in Nat /\ (m - 1) + 1 = m
        BY <1>2, <3>2
      <4>3. Px!ExpForLevel((m - 1) + 1) \in Nat
        BY <4>2, LevelsCost
      <4>4. PICK u \in Nat : u = Px!ExpForLevel(m)
        BY <4>2, <4>3
      <4>5. z >= u
        BY <3>2, <3>4, <4>1, <4>4
      <4>6. QED
        BY <3>4, <4>4, <4>5
    <3>9. m # 0
      BY <1>2, <3>2
    <3>10. QED
      BY <3>1, <3>2, <3>7, <3>8, <3>9
  <2>4. QED
    BY <2>2, <2>3
<1>5. level' \in [Players -> Nat \ {0}]
  <2>1. level' = [p \in Players |-> level'[p]]
    BY <1>1
  <2>2. QED
    BY <1>4, <2>1
<1>6. Px!LevelMatches'
  BY <1>4 DEF Px!LevelMatches
<1>7. CASE \E p \in Px!Party : level'[p] # level[p]
  <2>1. Px!Update
    BY <1>7 DEF Px!Gain
  <2>2. QED
    BY <1>1, <1>3, <1>5, <1>6, <2>1, SharesFacts, UpdateKeeps
<1>8. CASE \A p \in Px!Party : level'[p] = level[p]
  <2>1. enabled' = enabled /\ downgraded' = downgraded
    BY <1>8 DEF Px!Gain, Px!Unmoved
  <2>2. Px!CanEnable(leader', members' \union {leader'}, level', pos') <=>
          Px!CanEnable(leader, Px!Party, level, pos)
    BY <1>1, <1>8 DEF Px!CanEnable, Px!Party
  <2>3. active' /\ ~downgraded' =>
          (enabled' <=> Px!CanEnable(leader', members' \union {leader'}, level', pos'))
    BY <1>1, <2>1, <2>2, SharesFacts
  <2>4. QED
    BY <1>1, <1>3, <1>5, <1>6, <2>1, <2>3, SharesFacts, SharesFrom
<1>9. QED
  BY <1>7, <1>8

LEMMA Product == ASSUME NEW k \in Nat, NEW l \in Nat PROVE k * l \in Nat
OBVIOUS

LEMMA Quotient == ASSUME NEW k \in Nat, NEW l \in Nat \ {0} PROVE k \div l \in Nat
OBVIOUS

LEMMA OnGainExperienceKeeps ==
  ASSUME Px!PartyExperienceAssumption, Shares, NEW p \in Players, NEW e \in Worths,
         Px!OnGainExperience(p, e)
  PROVE  Shares'
<1>1. e \in Nat
  BY DEF Px!PartyExperienceAssumption
<1>2. CASE p \in Px!Party /\ enabled /\ active
  <2> DEFINE n == Cardinality(Px!Party)
  <2>1. Px!Gain(Px!Party, Px!Share(e, n))
    <3>1. Px!Cardinality(Px!Party) = n
      BY DEF Px!Cardinality, Cardinality
    <3>2. QED
      BY <1>2, <3>1 DEF Px!OnGainExperience
  <2>2. Px!Party \in SUBSET Players /\ n \in Nat \ {0}
    <3>1. Px!Party = members \union {leader} /\ leader \notin members /\ leader \in Players
          /\ members \subseteq Players
      BY SharesFacts DEF Px!Party
    <3>2. Cardinality(members) \in Nat /\ n = Cardinality(members) + 1
      BY <3>1, SharesFacts, FS_AddElement, FS_CardinalityType
    <3>3. QED
      BY <3>1, <3>2
  <2> HIDE DEF n
  <2>3. Px!Share(e, n) \in Nat
    <3>1. e \div n \in Nat
      BY <1>1, <2>2, Quotient
    <3>2. Percent \div 100 \in Nat /\ 0 \in Nat
      <4>1. Percent \in Nat /\ 100 \in Nat \ {0}
        BY DEF Px!PartyExperienceAssumption
      <4>2. QED
        BY <4>1, Quotient
    <3>3. Px!Bonus(e) \in Nat
      BY <1>1, <3>2, Product DEF Px!Bonus
    <3>4. QED
      BY <3>1, <3>3 DEF Px!Share
  <2>4. QED
    BY <2>1, <2>2, <2>3, GainKeeps
<1>3. CASE ~(p \in Px!Party /\ enabled /\ active)
  BY <1>1, <1>3, GainKeeps DEF Px!OnGainExperience
<1>4. QED
  BY <1>2, <1>3

LEMMA RemoveExperienceKeeps ==
  ASSUME Px!PartyExperienceAssumption, Shares, NEW p \in Players, NEW e \in Losses,
         Px!RemoveExperience(p, e)
  PROVE  Shares'
<1> DEFINE left == Px!Left(exp[p], e)
<1>1. /\ exp' = [exp EXCEPT ![p] = left]
      /\ level' = [level EXCEPT ![p] = Px!LevelDown(@, left)]
      /\ downgraded' = (downgraded \/ (p \in Px!Party /\ level' # level))
      /\ UNCHANGED <<leader, members, active, enabled, pos, fought>>
  BY DEF Px!RemoveExperience
<1>2. e \in Nat /\ exp[p] \in Nat /\ level[p] \in Nat \ {0}
  BY SharesFacts DEF Px!PartyExperienceAssumption
<1>3. left \in Nat /\ left <= exp[p]
  <2> DEFINE x == exp[p]
             m == Px!Min({x, e})
  <2>1. x \in Nat
    BY <1>2
  <2> HIDE DEF x
  <2>2. m \in {x, e} /\ m <= x /\ m <= e
    <3>1. \E y \in {x, e} : \A z \in {x, e} : y <= z
      BY <1>2, <2>1
    <3>2. m = CHOOSE y \in {x, e} : \A z \in {x, e} : y <= z
      BY DEF Px!Min
    <3> HIDE DEF m
    <3>3. m \in {x, e} /\ \A z \in {x, e} : m <= z
      BY <3>1, <3>2
    <3>4. QED
      BY <3>3
  <2>3. left = x - m
    BY DEF Px!Left, x
  <2> HIDE DEF m, left
  <2>4. left \in Nat /\ left <= x
    BY <1>2, <2>1, <2>2, <2>3
  <2>5. QED
    BY <2>4 DEF x
<1> HIDE DEF left
<1> DEFINE m == Px!LevelDown(level[p], left)
<1>4. /\ m \in Nat \ {0}
      /\ m = level[p] \/ left < Px!ExpForLevel(m + 1)
      /\ m = 1 \/ left >= Px!ExpForLevel(m)
  BY <1>2, <1>3, LevelDownEnds
<1>5. level' = [level EXCEPT ![p] = m]
  BY <1>1, SharesFacts
<1> HIDE DEF m
<1>6. exp' \in [Players -> Nat] /\ level' \in [Players -> Nat \ {0}]
  BY <1>1, <1>3, <1>4, <1>5, SharesFacts
<1>7. ASSUME NEW q \in Players
      PROVE  Px!ExpForLevel(level'[q]) <= exp'[q] /\ exp'[q] < Px!ExpForLevel(level'[q] + 1)
  <2>1. /\ Px!ExpForLevel(level[q]) <= exp[q] /\ exp[q] < Px!ExpForLevel(level[q] + 1)
    BY SharesFacts DEF Px!LevelMatches
  <2>2. CASE q # p
    BY <1>1, <1>5, <2>1, <2>2, SharesFacts
  <2>3. CASE q = p
    <3>1. exp'[q] = left /\ level'[q] = m
      BY <1>1, <1>5, <2>3, SharesFacts
    <3>2. Px!ExpForLevel(m) <= left
      <4>1. m - 1 \in Nat /\ (m - 1) + 1 = m
        BY <1>4
      <4>2. Px!ExpForLevel((m - 1) + 1) \in Nat /\ Px!ExpForLevel(1) = 0
        BY <4>1, LevelsCost
      <4>3. PICK u \in Nat : u = Px!ExpForLevel(m)
        BY <4>1, <4>2
      <4>4. m = 1 => u = 0
        BY <4>2, <4>3
      <4>5. m # 1 => left >= u
        BY <1>4, <4>3
      <4>6. u <= left
        BY <1>3, <4>4, <4>5
      <4>7. QED
        BY <4>3, <4>6
    <3>3. left < Px!ExpForLevel(m + 1)
      <4>1. Px!ExpForLevel(m + 1) \in Nat
        BY <1>4, LevelsCost
      <4>2. PICK u \in Nat : u = Px!ExpForLevel(m + 1)
        BY <4>1
      <4>3. m = level[p] => exp[p] < u
        BY <2>1, <2>3, <4>2
      <4>4. m = level[p] => left < u
        BY <1>2, <1>3, <4>3
      <4>5. QED
        BY <1>4, <4>2, <4>4
    <3>4. QED
      BY <3>1, <3>2, <3>3
  <2>4. QED
    BY <2>2, <2>3
<1>8. Px!LevelMatches'
  BY <1>7 DEF Px!LevelMatches
<1>9. downgraded' \in BOOLEAN
  BY <1>1, SharesFacts
<1>10. ASSUME active', ~downgraded'
       PROVE  enabled' <=> Px!CanEnable(leader', members' \union {leader'}, level', pos')
  <2>1. active /\ ~downgraded /\ (p \notin Px!Party \/ level' = level)
    BY <1>1, <1>10
  <2>2. \A q \in Px!Party : level'[q] = level[q]
    BY <1>5, <2>1, SharesFacts DEF Px!Party
  <2>3. Px!CanEnable(leader', members' \union {leader'}, level', pos') <=>
          Px!CanEnable(leader, Px!Party, level, pos)
    BY <1>1, <2>2 DEF Px!CanEnable, Px!Party
  <2>4. QED
    BY <1>1, <2>1, <2>3, SharesFacts
<1>11. QED
  BY <1>1, <1>6, <1>8, <1>9, <1>10, SharesFacts, SharesFrom

LEMMA SharesNext ==
  ASSUME Px!PartyExperienceAssumption, Shares, [Px!Next]_(Px!vars) PROVE Shares'
<1>1. ASSUME NEW p \in Players, Px!Join(p) PROVE Shares'
  <2>1. p \notin members /\ p # leader /\ members' = members \union {p}
        /\ UNCHANGED <<leader, active, exp, level, pos, fought>> /\ Px!Update
    BY <1>1 DEF Px!Join, Px!Party
  <2>2. IsFiniteSet(members') /\ members' \subseteq Players \ {leader'}
    BY <2>1, SharesFacts, FS_AddElement
  <2>3. Px!LevelMatches'
    BY <2>1, SharesFacts, MatchesSame
  <2>4. QED
    BY <2>1, <2>2, <2>3, SharesFacts, UpdateKeeps
<1>2. ASSUME NEW p \in Players, Px!Leave(p) \/ Px!LeaderLeaves(p) \/ Px!PassLeadership(p)
      PROVE  Shares'
  <2>1. /\ p \in members /\ leader' \in {leader, p}
        /\ members' = members \ {p} \/ members' = (members \ {p}) \union {leader}
        /\ leader' \notin members' /\ fought' \subseteq fought
        /\ UNCHANGED <<active, exp, level, pos>> /\ Px!Update
    BY <1>2, SharesFacts DEF Px!Leave, Px!LeaderLeaves, Px!PassLeadership
  <2>2. IsFiniteSet(members \ {p}) /\ IsFiniteSet((members \ {p}) \union {leader})
    BY SharesFacts, FS_RemoveElement, FS_AddElement
  <2>3. IsFiniteSet(members') /\ leader' \in Players /\ members' \subseteq Players \ {leader'}
    BY <2>1, <2>2, SharesFacts
  <2>4. Px!LevelMatches'
    BY <2>1, SharesFacts, MatchesSame
  <2>5. QED
    BY <2>1, <2>3, <2>4, SharesFacts, UpdateKeeps
<1>3. ASSUME NEW p \in Players, Px!Move(p) PROVE Shares'
  <2>1. PICK x \in Places : pos' = [pos EXCEPT ![p] = x]
    BY <1>3 DEF Px!Move
  <2>2. UNCHANGED <<leader, members, active, exp, level, fought>> /\ Px!OnCreatureMove(p)
    BY <1>3 DEF Px!Move
  <2>3. pos' \in [Players -> Places] /\ \A q \in Players : q # p => pos'[q] = pos[q]
    BY <2>1, SharesFacts
  <2>4. Px!LevelMatches'
    BY <2>2, SharesFacts, MatchesSame
  <2>5. CASE p \in Px!Party
    BY <2>2, <2>3, <2>4, <2>5, SharesFacts, UpdateKeeps DEF Px!OnCreatureMove
  <2>6. CASE p \notin Px!Party
    <3>1. enabled' = enabled /\ downgraded' = downgraded
      BY <2>2, <2>6 DEF Px!OnCreatureMove, Px!Unmoved
    <3>2. \A q \in Px!Party : pos'[q] = pos[q]
      BY <2>3, <2>6, SharesFacts DEF Px!Party
    <3>3. pos'[leader] = pos[leader]
      BY <3>2 DEF Px!Party
    <3>4. Px!CanEnable(leader', members' \union {leader'}, level', pos') <=>
            Px!CanEnable(leader, Px!Party, level, pos)
      BY <2>2, <3>2, <3>3 DEF Px!CanEnable, Px!Party
    <3>5. active' /\ ~downgraded' =>
            (enabled' <=> Px!CanEnable(leader', members' \union {leader'}, level', pos'))
      BY <2>2, <3>1, <3>4, SharesFacts
    <3>6. QED
      BY <2>2, <2>3, <2>4, <3>1, <3>5, SharesFacts, SharesFrom
  <2>7. QED
    BY <2>5, <2>6
<1>4. ASSUME NEW p \in Players, Px!Fight(p) PROVE Shares'
  <2>1. fought' = fought \union {p} /\ UNCHANGED <<leader, members, active, exp, level, pos>>
        /\ Px!Update
    BY <1>4 DEF Px!Fight
  <2>2. Px!LevelMatches'
    BY <2>1, SharesFacts, MatchesSame
  <2>3. QED
    BY <2>1, <2>2, SharesFacts, UpdateKeeps
<1>5. ASSUME NEW p \in Players, Px!Rest(p) PROVE Shares'
  <2>1. fought' \subseteq fought
        /\ UNCHANGED <<leader, members, active, enabled, exp, level, pos, downgraded>>
    BY <1>5 DEF Px!Rest
  <2>2. Px!LevelMatches'
    BY <2>1, SharesFacts, MatchesSame
  <2>3. QED
    BY <2>1, <2>2, SharesFacts, SharesFrom DEF Px!Party
<1>6. ASSUME NEW on \in BOOLEAN, Px!SetSharedExperience(on) PROVE Shares'
  <2>1. /\ active' = on /\ UNCHANGED <<leader, members, exp, level, pos, fought>>
        /\ enabled' = IF on THEN Px!CanEnable(leader, Px!Party, level, pos) ELSE enabled
        /\ downgraded' = (downgraded /\ ~on)
    BY <1>6 DEF Px!SetSharedExperience
  <2>2. Px!LevelMatches'
    BY <2>1, SharesFacts, MatchesSame
  <2>3. enabled' \in BOOLEAN
    BY <2>1, SharesFacts DEF Px!CanEnable
  <2>4. active' => (enabled' <=> Px!CanEnable(leader', members' \union {leader'}, level', pos'))
    BY <2>1 DEF Px!Party
  <2>5. downgraded' \in BOOLEAN
    BY <2>1, SharesFacts
  <2>6. QED
    BY <2>1, <2>2, <2>3, <2>4, <2>5, SharesFacts, SharesFrom
<1>7. CASE UNCHANGED Px!vars
  BY <1>7 DEF Px!vars, Shares, Px!SharingSound, Px!TypeOK, Px!EnabledIsCurrent, Px!LevelMatches,
              Px!Party
<1>8. QED
  BY <1>1, <1>2, <1>3, <1>4, <1>5, <1>6, <1>7, OnGainExperienceKeeps, RemoveExperienceKeeps
     DEF Px!Next

\* For any players, places, levels and worths: while a party shares, what it acts on is what it
\* would find if it looked, unless a level was lost; and every player has the level of his
\* points (SharingSound of PartyExperience).
THEOREM SharingCorrect ==
  ASSUME Px!PartyExperienceAssumption
  PROVE  Px!Spec => []Px!SharingSound
<1>1. Shares /\ [Px!Next]_(Px!vars) => Shares'
  BY SharesNext
<1>2. Shares => Px!SharingSound
  BY DEF Shares
<1>3. QED
  BY <1>1, <1>2, SharesInit, PTL DEF Px!Spec
=============================================================================
