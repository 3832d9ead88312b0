---------------------------- MODULE WorldProofs ----------------------------
(***************************************************************************)
(* Proofs about components that MCWorld runs: the connection to the        *)
(* database, for any number of jobs, writes, errors and lost sessions, a   *)
(* spawn, for any spots, monsters and rates, raids, for any of them, and   *)
(* the walk of a player, for any path and any commands.                    *)
(***************************************************************************)
EXTENDS Database, FiniteSetTheorems, TLAPS

\* The thread of the network is in the library exactly while it has the lock.
NetLocks ==
  /\ net = "locked" <=> lock = "net"
  /\ net = "locked" <=> "net" \in inside

\* The dispatcher is in the library only for a statement of a job; a job that locks as a
\* whole has the lock from its start, any other only while it is inside for a statement
\* that needs it.
JobLocks ==
  /\ job.kind = "idle" => job = Idle /\ "dispatcher" \notin inside /\ lock # "dispatcher"
  /\ job.kind # "idle" => job.at \in 1 .. Len(Statements(job.kind)) /\ jobs > 0
  /\ LocksWhole(job.kind) => lock = "dispatcher"
  /\ lock = "dispatcher" => LocksWhole(job.kind) \/ (Locks /\ "dispatcher" \in inside)
  /\ "dispatcher" \in inside /\ Locks => lock = "dispatcher"

\* A transaction is open on a live session only, for a job that saves and has begun it; it
\* holds rows of that job, and the account only if the job does not lock as a whole.
Transaction ==
  /\ ~connected => ~session.up
  /\ ~session.up => ~session.tx
  /\ ~session.tx => session.pending = Nothing
  /\ session.tx => job.kind \in {"player", "houses"} /\ job.at > 1
  /\ job.kind = "player" => session.pending["account"] = 0
  /\ job.kind = "houses" => session.pending["p1"] = 0 /\ session.pending["p2"] = 0

\* Until a session is lost, savePlayer writes both its rows in one transaction.
Together ==
  faults.losses = 0 =>
    /\ connected /\ session.up
    /\ rows["p1"] = rows["p2"]
    /\ job.kind = "player" =>
         /\ session.tx <=> job.at > 1
         /\ session.pending["p1"] = IF job.at > 2 THEN jobs ELSE 0
         /\ session.pending["p2"] = IF job.at > 3 THEN jobs ELSE 0

\* An inductive invariant from which DatabaseSound follows.
IInv ==
  /\ TypeOK /\ AccountStays /\ NetLocks /\ JobLocks /\ Transaction /\ Together
  /\ writes.done <= writes.made

-----------------------------------------------------------------------------
(* Statements and the server                                               *)

Numbers == 0 .. MaxJobs + MaxWrites
SessionType == [up : BOOLEAN, tx : BOOLEAN, pending : [Rows -> Numbers]]

LEMMA Bounds ==
  /\ MaxJobs \in Nat /\ MaxWrites \in Nat /\ MaxErrors \in Nat /\ MaxLosses \in Nat
  /\ Jobs \subseteq {"player", "houses", "ping"} /\ "idle" \notin Jobs
  /\ 0 \in Numbers /\ 0 .. MaxJobs \subseteq Numbers /\ 0 .. MaxWrites \subseteq Numbers
  /\ Nothing \in [Rows -> Numbers] /\ NewSession \in SessionType
  /\ \A r \in Rows : Nothing[r] = 0
<1>1. /\ MaxJobs \in Nat /\ MaxWrites \in Nat /\ MaxErrors \in Nat /\ MaxLosses \in Nat
      /\ Jobs \subseteq {"player", "houses", "ping"} /\ "idle" \notin Jobs
  BY DatabaseAssumption
<1>2. 0 \in Numbers /\ 0 .. MaxJobs \subseteq Numbers /\ 0 .. MaxWrites \subseteq Numbers
  BY <1>1 DEF Numbers
<1>3. Nothing \in [Rows -> Numbers] /\ \A r \in Rows : Nothing[r] = 0
  BY <1>2 DEF Nothing
<1>4. QED
  BY <1>1, <1>2, <1>3 DEF NewSession, SessionType

\* The statement a job has come to, and whether it is its last.
LEMMA Shape ==
  ASSUME IInv, job.kind # "idle"
  PROVE  /\ \/ job.kind = "player" /\ job.at = 1 /\ Statement = "begin"
            \/ job.kind = "player" /\ job.at = 2 /\ Statement = "p1"
            \/ job.kind = "player" /\ job.at = 3 /\ Statement = "p2"
            \/ job.kind = "player" /\ job.at = 4 /\ Statement = "commit"
            \/ job.kind = "houses" /\ job.at = 1 /\ Statement = "begin"
            \/ job.kind = "houses" /\ job.at = 2 /\ Statement = "h1"
            \/ job.kind = "houses" /\ job.at = 3 /\ Statement = "h2"
            \/ job.kind = "houses" /\ job.at = 4 /\ Statement = "commit"
            \/ job.kind = "ping" /\ job.at = 1 /\ Statement = "ping"
         /\ Last <=> Statement \in {"commit", "ping"}
         /\ ~Last => job.at + 1 \in 1 .. Len(Statements(job.kind)) /\ job.at + 1 \in 0 .. 4
<1>1. job.kind \in {"player", "houses", "ping"} /\ job.at \in 1 .. Len(Statements(job.kind))
  BY Bounds DEF IInv, TypeOK, JobLocks
<1>2. CASE job.kind = "player"
  <2>1. Statements(job.kind) = <<"begin", "p1", "p2", "commit">>
    BY <1>2 DEF Statements
  <2>2. Len(Statements(job.kind)) = 4
    BY <2>1
  <2>3. job.at \in {1, 2, 3, 4}
    BY <1>1, <2>2
  <2>4. /\ job.at = 1 => Statement = "begin"
        /\ job.at = 2 => Statement = "p1"
        /\ job.at = 3 => Statement = "p2"
        /\ job.at = 4 => Statement = "commit"
    BY <2>1 DEF Statement
  <2>5. Last <=> job.at = 4
    BY <2>2 DEF Last
  <2>6. /\ Last <=> Statement \in {"commit", "ping"}
        /\ ~Last => job.at + 1 \in 1 .. 4 /\ job.at + 1 \in 0 .. 4
    BY <2>3, <2>4, <2>5
  <2>7. QED
    BY <1>2, <2>2, <2>3, <2>4, <2>6
<1>3. CASE job.kind = "houses"
  <2>1. Statements(job.kind) = <<"begin", "h1", "h2", "commit">>
    BY <1>3 DEF Statements
  <2>2. Len(Statements(job.kind)) = 4
    BY <2>1
  <2>3. job.at \in {1, 2, 3, 4}
    BY <1>1, <2>2
  <2>4. /\ job.at = 1 => Statement = "begin"
        /\ job.at = 2 => Statement = "h1"
        /\ job.at = 3 => Statement = "h2"
        /\ job.at = 4 => Statement = "commit"
    BY <2>1 DEF Statement
  <2>5. Last <=> job.at = 4
    BY <2>2 DEF Last
  <2>6. /\ Last <=> Statement \in {"commit", "ping"}
        /\ ~Last => job.at + 1 \in 1 .. 4 /\ job.at + 1 \in 0 .. 4
    BY <2>3, <2>4, <2>5
  <2>7. QED
    BY <1>3, <2>2, <2>3, <2>4, <2>6
<1>4. CASE job.kind = "ping"
  <2>1. Statements(job.kind) = <<"ping">>
    BY <1>4 DEF Statements
  <2>2. Len(Statements(job.kind)) = 1
    BY <2>1
  <2>3. job.at = 1
    BY <1>1, <2>2
  <2>4. QED
    BY <1>4, <2>1, <2>2, <2>3 DEF Statement, Last
<1>5. QED
  BY <1>1, <1>2, <1>3, <1>4

\* What the server does for a statement, in a session s.
LEMMA Served ==
  ASSUME NEW s \in SessionType, rows \in [Rows -> Numbers], NEW n \in Numbers,
         NEW st \in Rows \cup {"begin", "commit", "ping"}, Serve(s, st, n)
  PROVE  /\ session' \in SessionType /\ rows' \in [Rows -> Numbers] /\ session'.up = s.up
         /\ st \in {"begin", "commit"} =>
              /\ session'.tx <=> st = "begin"
              /\ session'.pending = Nothing
              /\ \A r \in Rows : rows'[r] = IF s.pending[r] > 0 THEN s.pending[r] ELSE rows[r]
         /\ st = "ping" => session' = s /\ rows' = rows
         /\ st \in Rows /\ s.tx =>
              /\ session'.tx /\ rows' = rows /\ session'.pending[st] = n
              /\ \A r \in Rows \ {st} : session'.pending[r] = s.pending[r]
         /\ st \in Rows /\ ~s.tx =>
              /\ session' = s /\ rows'[st] = n
              /\ \A r \in Rows \ {st} : rows'[r] = rows[r]
<1>1. s.up \in BOOLEAN /\ s.tx \in BOOLEAN /\ s.pending \in [Rows -> Numbers]
  BY DEF SessionType
<1>2. CASE st \in {"begin", "commit"}
  <2>1. rows' = Merged(s) /\ session' = [s EXCEPT !.tx = (st = "begin"), !.pending = Nothing]
    BY <1>2 DEF Serve, Begin, Commit
  <2>2. /\ rows' \in [Rows -> Numbers]
        /\ \A r \in Rows : rows'[r] = IF s.pending[r] > 0 THEN s.pending[r] ELSE rows[r]
    BY <1>1, <2>1 DEF Merged
  <2>3. /\ session' \in SessionType /\ session'.up = s.up
        /\ session'.tx <=> st = "begin"
        /\ session'.pending = Nothing
    BY <1>1, <2>1, Bounds DEF SessionType
  <2>4. QED
    BY <1>2, <2>2, <2>3 DEF Rows
<1>3. CASE st = "ping"
  BY <1>3 DEF Serve, Rows
<1>4. CASE st \in Rows
  <2>1. Write(s, st, n)
    BY <1>4 DEF Serve, Rows
  <2>2. CASE s.tx
    <3>1. session' = [s EXCEPT !.pending[st] = n] /\ rows' = rows
      BY <2>1, <2>2 DEF Write
    <3>2. /\ session' \in SessionType /\ session'.up = s.up /\ session'.tx
          /\ session'.pending = [s.pending EXCEPT ![st] = n]
      BY <1>1, <1>4, <2>2, <3>1 DEF SessionType
    <3>3. session'.pending[st] = n /\ \A r \in Rows \ {st} : session'.pending[r] = s.pending[r]
      BY <1>1, <1>4, <3>2
    <3>4. QED
      BY <1>4, <2>2, <3>1, <3>2, <3>3 DEF Rows
  <2>3. CASE ~s.tx
    <3>1. session' = s /\ rows' = [rows EXCEPT ![st] = n]
      BY <2>1, <2>3 DEF Write
    <3>2. QED
      BY <1>4, <2>3, <3>1 DEF Rows
  <2>4. QED
    BY <2>2, <2>3
<1>5. QED
  BY <1>2, <1>3, <1>4

-----------------------------------------------------------------------------
(* The dispatcher                                                          *)

\* Out of the library, to the next statement or the end of the job.
LEMMA LeavesStep ==
  ASSUME IInv, NEW ends \in BOOLEAN, "dispatcher" \in inside, Leaves(ends), ~ends => ~Last
  PROVE  /\ NetLocks' /\ JobLocks'
         /\ job' \in [kind : {"idle"} \cup Jobs, at : 0 .. 4]
         /\ lock' \in {"free", "dispatcher", "net"} /\ inside' \subseteq {"dispatcher", "net"}
         /\ reachable' = reachable /\ jobs' = jobs /\ net' = net /\ writes' = writes
         /\ ends => job' = Idle /\ job'.kind = "idle"
         /\ ~ends => job'.kind = job.kind /\ job'.at = job.at + 1
<1>1. /\ job \in [kind : {"idle"} \cup Jobs, at : 0 .. 4]
      /\ lock \in {"free", "dispatcher", "net"} /\ inside \subseteq {"dispatcher", "net"}
      /\ jobs \in Nat /\ NetLocks /\ JobLocks /\ job.kind # "idle"
  BY Bounds DEF IInv, TypeOK, JobLocks
<1>2. /\ inside' = inside \ {"dispatcher"}
      /\ job' = IF ends THEN Idle ELSE [job EXCEPT !.at = @ + 1]
      /\ lock' = IF lock = "dispatcher" /\ (ends \/ ~LocksWhole(job.kind))
                   THEN "free" ELSE lock
      /\ reachable' = reachable /\ jobs' = jobs /\ net' = net /\ writes' = writes
  BY DEF Leaves
<1>3. CASE ends
  <2>1. job' = Idle /\ Idle.kind = "idle" /\ Idle \in [kind : {"idle"} \cup Jobs, at : 0 .. 4]
    BY <1>2, <1>3 DEF Idle
  <2>2. NetLocks' /\ lock' # "dispatcher" /\ "dispatcher" \notin inside'
    BY <1>1, <1>2, <1>3 DEF NetLocks
  <2>3. ~LocksWhole(job'.kind)
    BY <2>1 DEF LocksWhole
  <2>4. JobLocks'
    BY <2>1, <2>2, <2>3 DEF JobLocks
  <2>5. QED
    BY <1>1, <1>2, <1>3, <2>1, <2>2, <2>4
<1>4. CASE ~ends
  <2>1. /\ job.at + 1 \in 1 .. Len(Statements(job.kind)) /\ job.at + 1 \in 0 .. 4
    BY <1>1, <1>4, Shape
  <2>2. /\ job'.kind = job.kind /\ job'.at = job.at + 1
        /\ job' \in [kind : {"idle"} \cup Jobs, at : 0 .. 4]
    BY <1>1, <1>2, <1>4, <2>1
  <2>3. NetLocks' /\ "dispatcher" \notin inside'
    BY <1>1, <1>2, <1>4 DEF NetLocks
  <2>4. lock' = "dispatcher" <=> LocksWhole(job.kind)
    BY <1>1, <1>2, <1>4 DEF JobLocks
  <2>5. JobLocks'
    BY <1>1, <1>2, <2>1, <2>2, <2>3, <2>4 DEF JobLocks
  <2>6. QED
    BY <1>1, <1>2, <1>4, <2>2, <2>3, <2>5
<1>5. QED
  BY <1>3, <1>4

\* A statement of the dispatcher is done, on the session there is or on a new one.
LEMMA DoneStep ==
  ASSUME IInv, Done
  PROVE  IInv'
<1>1. /\ "dispatcher" \in inside /\ job.kind # "idle" /\ session \in SessionType
      /\ rows \in [Rows -> Numbers] /\ jobs \in Numbers /\ jobs \in Nat /\ jobs > 0
      /\ job.kind \in {"player", "houses", "ping"} /\ job.kind \in Jobs
      /\ job.at \in Nat
  <2>1. /\ "dispatcher" \in inside /\ job.kind # "idle" /\ jobs \in 0 .. MaxJobs /\ jobs > 0
        /\ job.kind \in Jobs /\ job.at \in 0 .. 4
    BY DEF Done, IInv, TypeOK, JobLocks
  <2>2. session \in SessionType /\ rows \in [Rows -> Numbers]
    BY DEF IInv, TypeOK, Numbers, SessionType
  <2>3. jobs \in Nat /\ job.at \in Nat /\ MaxJobs \in Nat
    BY <2>1, Bounds
  <2>4. jobs \in Numbers /\ job.kind \in {"player", "houses", "ping"}
    BY <2>1, Bounds
  <2>5. QED
    BY <2>1, <2>2, <2>3, <2>4
<1>2. PICK s \in SessionType :
        /\ Serve(s, Statement, jobs) /\ connected /\ s.up
        /\ s = session \/ (s = NewSession /\ ~session.up)
  <2>1. CASE Succeeds(Statement, jobs)
    BY <1>1, <2>1 DEF Succeeds, Usable
  <2>2. CASE Reconnects(Statement, jobs)
    BY <2>2, Bounds DEF Reconnects, NewSession
  <2>3. QED
    BY <2>1, <2>2 DEF Done
<1>3. connected' = connected /\ gaveUp' = gaveUp /\ faults' = faults /\ Leaves(Last)
  BY DEF Done, Succeeds, Reconnects
<1>4. /\ \/ job.kind = "player" /\ job.at = 1 /\ Statement = "begin"
         \/ job.kind = "player" /\ job.at = 2 /\ Statement = "p1"
         \/ job.kind = "player" /\ job.at = 3 /\ Statement = "p2"
         \/ job.kind = "player" /\ job.at = 4 /\ Statement = "commit"
         \/ job.kind = "houses" /\ job.at = 1 /\ Statement = "begin"
         \/ job.kind = "houses" /\ job.at = 2 /\ Statement = "h1"
         \/ job.kind = "houses" /\ job.at = 3 /\ Statement = "h2"
         \/ job.kind = "houses" /\ job.at = 4 /\ Statement = "commit"
         \/ job.kind = "ping" /\ job.at = 1 /\ Statement = "ping"
      /\ Last <=> Statement \in {"commit", "ping"}
  BY <1>1, Shape
<1>5. Statement \in Rows \cup {"begin", "commit", "ping"} /\ Last \in BOOLEAN
  BY <1>4 DEF Rows, Last
<1>6. /\ NetLocks' /\ JobLocks'
      /\ job' \in [kind : {"idle"} \cup Jobs, at : 0 .. 4]
      /\ lock' \in {"free", "dispatcher", "net"} /\ inside' \subseteq {"dispatcher", "net"}
      /\ reachable' = reachable /\ jobs' = jobs /\ net' = net /\ writes' = writes
      /\ Last => job' = Idle /\ job'.kind = "idle"
      /\ ~Last => job'.kind = job.kind /\ job'.at = job.at + 1
  BY <1>1, <1>3, <1>5, LeavesStep
<1>7. /\ session' \in SessionType /\ rows' \in [Rows -> Numbers] /\ session'.up = s.up
      /\ Statement \in {"begin", "commit"} =>
           /\ session'.tx <=> Statement = "begin"
           /\ session'.pending = Nothing
           /\ \A r \in Rows : rows'[r] = IF s.pending[r] > 0 THEN s.pending[r] ELSE rows[r]
      /\ Statement = "ping" => session' = s /\ rows' = rows
      /\ Statement \in Rows /\ s.tx =>
           /\ session'.tx /\ rows' = rows /\ session'.pending[Statement] = jobs
           /\ \A r \in Rows \ {Statement} : session'.pending[r] = s.pending[r]
      /\ Statement \in Rows /\ ~s.tx =>
           /\ session' = s /\ rows'[Statement] = jobs
           /\ \A r \in Rows \ {Statement} : rows'[r] = rows[r]
  BY <1>1, <1>2, <1>5, Served
<1>8. TypeOK'
  BY <1>3, <1>6, <1>7 DEF IInv, TypeOK, SessionType, Numbers
<1>9. /\ ~s.tx => s.pending = Nothing
      /\ s.tx => job.kind \in {"player", "houses"} /\ job.at > 1
      /\ job.kind = "player" => s.pending["account"] = 0
      /\ job.kind = "houses" => s.pending["p1"] = 0 /\ s.pending["p2"] = 0
  BY <1>2, Bounds DEF IInv, Transaction, NewSession, Rows
<1>10. \A r \in Rows : Nothing[r] = 0
  BY Bounds
<1>11. /\ "p1" \in Rows /\ "p2" \in Rows /\ "h1" \in Rows /\ "h2" \in Rows /\ "account" \in Rows
       /\ Statement \in Rows <=> Statement \in {"p1", "p2", "h1", "h2"}
       /\ Statement # "account"
  BY <1>4 DEF Rows
<1>12. Transaction'
  <2>1. (~connected => ~session.up)' /\ (~session.up => ~session.tx)'
    BY <1>2, <1>3, <1>7
  <2>2. ~session'.tx => session'.pending = Nothing
    BY <1>4, <1>7, <1>9, <1>11
  <2>3. session'.tx => job'.kind \in {"player", "houses"} /\ job'.at > 1
    BY <1>1, <1>4, <1>6, <1>7, <1>9, <1>11
  <2>4. job'.kind = "player" => session'.pending["account"] = 0
    BY <1>4, <1>6, <1>7, <1>9, <1>10, <1>11
  <2>5. job'.kind = "houses" => session'.pending["p1"] = 0 /\ session'.pending["p2"] = 0
    BY <1>4, <1>6, <1>7, <1>9, <1>10, <1>11
  <2>6. QED
    BY <2>1, <2>2, <2>3, <2>4, <2>5 DEF Transaction
<1>13. Together'
  <2>1. ASSUME faults.losses = 0
        PROVE  /\ s = session /\ rows["p1"] = rows["p2"]
               /\ job.kind = "player" =>
                    /\ s.tx <=> job.at > 1
                    /\ s.pending["p1"] = IF job.at > 2 THEN jobs ELSE 0
                    /\ s.pending["p2"] = IF job.at > 3 THEN jobs ELSE 0
    BY <1>2, <2>1 DEF IInv, Together
  <2>2. ASSUME faults.losses = 0
        PROVE  rows'["p1"] = rows'["p2"]
    <3>1. CASE job.kind = "player"
      BY <1>1, <1>4, <1>7, <1>11, <2>1, <2>2, <3>1
    <3>2. CASE job.kind = "houses"
      BY <1>4, <1>7, <1>9, <1>11, <2>1, <2>2, <3>2
    <3>3. CASE job.kind = "ping"
      BY <1>4, <1>7, <2>1, <2>2, <3>3
    <3>4. QED
      BY <1>1, <3>1, <3>2, <3>3
  <2>3. ASSUME faults.losses = 0, job'.kind = "player"
        PROVE  /\ session'.tx <=> job'.at > 1
               /\ session'.pending["p1"] = IF job'.at > 2 THEN jobs' ELSE 0
               /\ session'.pending["p2"] = IF job'.at > 3 THEN jobs' ELSE 0
    <3>1. job.kind = "player" /\ ~Last /\ job'.at = job.at + 1 /\ jobs' = jobs
      BY <1>6, <2>3
    <3>2. CASE job.at = 1
      BY <1>4, <1>7, <1>10, <1>11, <3>1, <3>2
    <3>3. CASE job.at = 2
      BY <1>4, <1>7, <1>11, <2>1, <2>3, <3>1, <3>3
    <3>4. CASE job.at = 3
      BY <1>4, <1>7, <1>11, <2>1, <2>3, <3>1, <3>4
    <3>5. QED
      BY <1>4, <3>1, <3>2, <3>3, <3>4
  <2>4. QED
    BY <1>2, <1>3, <1>7, <2>2, <2>3 DEF Together
<1>14. AccountStays' /\ writes'.done <= writes'.made
  <2>1. ASSUME "houses" \notin Jobs
        PROVE  rows'["account"] = rows["account"]
    <3>1. job.kind = "player" \/ job.kind = "ping"
      BY <1>1, <2>1
    <3>2. QED
      BY <1>4, <1>7, <1>9, <1>11, <3>1
  <2>2. QED
    BY <1>6, <2>1 DEF IInv, AccountStays
<1>15. QED
  BY <1>6, <1>8, <1>12, <1>13, <1>14 DEF IInv

\* A statement of the dispatcher fails: only saveHouses goes on.
LEMMA FailedStep ==
  ASSUME IInv, Failed
  PROVE  IInv'
<1>1. /\ "dispatcher" \in inside /\ job.kind # "idle" /\ session \in SessionType
      /\ job.kind \in {"player", "houses", "ping"} /\ job.at \in Nat
  <2>1. "dispatcher" \in inside /\ job.kind # "idle" /\ job.kind \in Jobs /\ job.at \in 0 .. 4
    BY DEF Failed, IInv, TypeOK, JobLocks
  <2>2. session \in SessionType
    BY DEF IInv, TypeOK, Numbers, SessionType
  <2>3. job.at \in Nat
    BY <2>1
  <2>4. job.kind \in {"player", "houses", "ping"}
    BY <2>1, Bounds
  <2>5. QED
    BY <2>1, <2>2, <2>3, <2>4
<1>2. /\ Fails(Statement) /\ rows' = rows /\ Leaves(~PassesOver)
      /\ IF PassesOver \/ Statement \in {"ping", "commit"} \/ ~connected'
           THEN session' = session ELSE Rollback
  BY DEF Failed
<1>3. /\ \/ job.kind = "player" /\ job.at = 1 /\ Statement = "begin"
         \/ job.kind = "player" /\ job.at = 2 /\ Statement = "p1"
         \/ job.kind = "player" /\ job.at = 3 /\ Statement = "p2"
         \/ job.kind = "player" /\ job.at = 4 /\ Statement = "commit"
         \/ job.kind = "houses" /\ job.at = 1 /\ Statement = "begin"
         \/ job.kind = "houses" /\ job.at = 2 /\ Statement = "h1"
         \/ job.kind = "houses" /\ job.at = 3 /\ Statement = "h2"
         \/ job.kind = "houses" /\ job.at = 4 /\ Statement = "commit"
         \/ job.kind = "ping" /\ job.at = 1 /\ Statement = "ping"
      /\ Last <=> Statement \in {"commit", "ping"}
  BY <1>1, Shape
<1>4. /\ PassesOver <=> job.kind = "houses" /\ job.at \in {2, 3}
      /\ PassesOver => ~Last /\ Statement \in Rows
      /\ (~PassesOver) \in BOOLEAN
  BY <1>3 DEF PassesOver, Rows
<1>5. /\ NetLocks' /\ JobLocks'
      /\ job' \in [kind : {"idle"} \cup Jobs, at : 0 .. 4]
      /\ lock' \in {"free", "dispatcher", "net"} /\ inside' \subseteq {"dispatcher", "net"}
      /\ reachable' = reachable /\ jobs' = jobs /\ net' = net /\ writes' = writes
      /\ ~PassesOver => job' = Idle /\ job'.kind = "idle"
      /\ PassesOver => job'.kind = job.kind /\ job'.at = job.at + 1
  BY <1>1, <1>2, <1>4, LeavesStep
<1>6. /\ connected \in BOOLEAN /\ gaveUp \in BOOLEAN
      /\ faults \in [errors : 0 .. MaxErrors, losses : 0 .. MaxLosses]
      /\ ~connected => ~session.up
      /\ ~session.up => ~session.tx
      /\ ~session.tx => session.pending = Nothing
      /\ session.tx => job.kind \in {"player", "houses"} /\ job.at > 1
      /\ job.kind = "houses" => session.pending["p1"] = 0 /\ session.pending["p2"] = 0
      /\ faults.losses = 0 => connected /\ session.up /\ rows["p1"] = rows["p2"]
  BY DEF IInv, TypeOK, Transaction, Together
<1>7. /\ connected' \in BOOLEAN /\ gaveUp' \in BOOLEAN
      /\ faults' \in [errors : 0 .. MaxErrors, losses : 0 .. MaxLosses]
      /\ faults'.losses = faults.losses
      /\ ~connected' => ~session.up
      /\ session.up => connected' = connected
      /\ Statement = "commit" => ~session.up
  <2>1. CASE UNCHANGED <<connected, gaveUp, faults>> /\ (~connected \/ (~session.up))
    BY <1>6, <2>1
  <2>2. CASE /\ Usable /\ Statement \in Rows /\ faults.errors < MaxErrors
             /\ faults' = [faults EXCEPT !.errors = @ + 1]
             /\ UNCHANGED <<connected, gaveUp>>
    <3>1. /\ faults'.losses = faults.losses
          /\ faults' \in [errors : 0 .. MaxErrors, losses : 0 .. MaxLosses]
      BY <1>6, <2>2, Bounds
    <3>2. Statement # "commit"
      BY <2>2 DEF Rows
    <3>3. QED
      BY <1>6, <2>2, <3>1, <3>2
  <2>3. CASE connected /\ ~session.up /\ connected' = FALSE /\ gaveUp' = TRUE /\ UNCHANGED faults
    BY <1>6, <2>3
  <2>4. QED
    BY <1>2, <2>1, <2>2, <2>3 DEF Fails
<1>8. /\ session' \in SessionType /\ session'.up = session.up
      /\ session' = session \/ (~session'.tx /\ session'.pending = Nothing)
      /\ ~PassesOver => ~session'.tx /\ session'.pending = Nothing
      /\ PassesOver => session' = session
  <2>1. CASE PassesOver \/ Statement \in {"ping", "commit"} \/ ~connected'
    <3>1. session' = session
      BY <1>2, <2>1
    <3>2. ~PassesOver => ~session.tx
      BY <1>3, <1>6, <1>7, <2>1
    <3>3. QED
      BY <1>1, <1>6, <3>1, <3>2
  <2>2. CASE ~(PassesOver \/ Statement \in {"ping", "commit"} \/ ~connected')
    <3>1. session' = [session EXCEPT !.tx = FALSE, !.pending = Nothing]
      BY <1>2, <2>2 DEF Rollback
    <3>2. QED
      BY <1>1, <2>2, <3>1, Bounds DEF SessionType
  <2>3. QED
    BY <2>1, <2>2
<1>9. TypeOK'
  BY <1>2, <1>5, <1>7, <1>8 DEF IInv, TypeOK, SessionType, Numbers
<1>10. Transaction'
  <2>1. CASE PassesOver
    <3>1. job'.kind = "houses" /\ job'.at = job.at + 1 /\ session' = session
      BY <1>4, <1>5, <1>8, <2>1
    <3>2. job.kind = "houses"
      BY <1>4, <2>1
    <3>3. session.tx => job'.at > 1
      BY <1>1, <1>6, <3>1
    <3>4. QED
      BY <1>6, <1>7, <3>1, <3>2, <3>3 DEF Transaction
  <2>2. CASE ~PassesOver
    BY <1>5, <1>6, <1>7, <1>8, <2>2 DEF Transaction
  <2>3. QED
    BY <2>1, <2>2
<1>11. Together'
  <2>1. job'.kind # "player"
    BY <1>4, <1>5
  <2>2. QED
    BY <1>2, <1>6, <1>7, <1>8, <2>1 DEF Together
<1>12. AccountStays' /\ writes'.done <= writes'.made
  BY <1>2, <1>5 DEF IInv, AccountStays
<1>13. QED
  BY <1>5, <1>9, <1>10, <1>11, <1>12 DEF IInv

LEMMA StartStep ==
  ASSUME IInv, NEW kind \in Jobs, Start(kind)
  PROVE  IInv'
<1>1. /\ job = Idle /\ jobs < MaxJobs
      /\ LocksWhole(kind) => lock = "free"
      /\ lock' = IF LocksWhole(kind) THEN "dispatcher" ELSE lock
      /\ job' = [kind |-> kind, at |-> 1] /\ jobs' = jobs + 1
      /\ rows' = rows /\ session' = session /\ reachable' = reachable
      /\ connected' = connected /\ gaveUp' = gaveUp /\ inside' = inside /\ net' = net
      /\ writes' = writes /\ faults' = faults
  BY DEF Start
<1>2. job.kind = "idle" /\ "dispatcher" \notin inside /\ lock # "dispatcher"
  BY <1>1 DEF Idle, IInv, JobLocks
<1>3. jobs \in Nat /\ jobs' \in 0 .. MaxJobs /\ jobs' > 0 /\ kind # "idle"
  BY <1>1, Bounds DEF IInv, TypeOK
<1>4. job'.kind = kind /\ job'.at = 1 /\ job' \in [kind : {"idle"} \cup Jobs, at : 0 .. 4]
  BY <1>1
<1>5. TypeOK'
  BY <1>1, <1>3, <1>4 DEF IInv, TypeOK
<1>6. NetLocks'
  BY <1>1, <1>2 DEF IInv, NetLocks
<1>7. 1 \in 1 .. Len(Statements(kind))
  <2>1. Len(<<"begin", "p1", "p2", "commit">>) = 4 /\ Len(<<"begin", "h1", "h2", "commit">>) = 4
        /\ Len(<<"ping">>) = 1
    OBVIOUS
  <2>2. Len(Statements(kind)) = 4 \/ Len(Statements(kind)) = 1
    BY <2>1 DEF Statements
  <2>3. QED
    BY <2>2
<1>8. JobLocks'
  BY <1>1, <1>2, <1>3, <1>4, <1>7 DEF JobLocks
<1>9. ~session.tx /\ session.pending = Nothing
  BY <1>2 DEF IInv, Transaction
<1>10. Transaction'
  BY <1>1, <1>4, <1>9, Bounds DEF IInv, Transaction, Rows
<1>11. Together'
  BY <1>1, <1>4, <1>9, Bounds DEF IInv, Together, Rows
<1>12. QED
  BY <1>1, <1>5, <1>6, <1>8, <1>10, <1>11 DEF IInv, AccountStays

LEMMA SendStep ==
  ASSUME IInv, Send
  PROVE  IInv'
<1>1. /\ job # Idle /\ "dispatcher" \notin inside
      /\ IF Locks /\ lock # "dispatcher"
           THEN lock = "free" /\ lock' = "dispatcher" ELSE lock' = lock
      /\ inside' = inside \union {"dispatcher"}
      /\ rows' = rows /\ session' = session /\ reachable' = reachable
      /\ connected' = connected /\ gaveUp' = gaveUp /\ job' = job /\ jobs' = jobs
      /\ net' = net /\ writes' = writes /\ faults' = faults
  BY DEF Send
<1>2. job.kind # "idle"
  BY <1>1 DEF IInv, JobLocks
<1>3. TypeOK'
  BY <1>1 DEF IInv, TypeOK
<1>4. NetLocks'
  BY <1>1 DEF IInv, NetLocks
<1>5. Locks' = Locks /\ LocksWhole(job'.kind) = LocksWhole(job.kind)
  BY <1>1 DEF Locks, Statement
<1>6. JobLocks'
  BY <1>1, <1>2, <1>5 DEF IInv, JobLocks
<1>7. Transaction' /\ Together' /\ AccountStays'
  BY <1>1 DEF IInv, Transaction, Together, AccountStays
<1>8. QED
  BY <1>1, <1>3, <1>4, <1>6, <1>7 DEF IInv

-----------------------------------------------------------------------------
(* The server, and the thread of the network                               *)

LEMMA LoseSessionStep ==
  ASSUME IInv, LoseSession
  PROVE  IInv'
<1>1. /\ session' = [NewSession EXCEPT !.up = FALSE] /\ reachable' \in BOOLEAN
      /\ faults' = [faults EXCEPT !.losses = @ + 1] /\ faults.losses < MaxLosses
      /\ rows' = rows /\ connected' = connected /\ gaveUp' = gaveUp /\ lock' = lock
      /\ inside' = inside /\ job' = job /\ jobs' = jobs /\ net' = net /\ writes' = writes
  BY DEF LoseSession
<1>2. /\ session' \in SessionType /\ ~session'.up /\ ~session'.tx
      /\ session'.pending = Nothing
  BY <1>1, Bounds DEF NewSession, SessionType
<1>3. /\ faults' \in [errors : 0 .. MaxErrors, losses : 0 .. MaxLosses]
      /\ faults'.losses # 0
  BY <1>1, Bounds DEF IInv, TypeOK
<1>4. TypeOK'
  BY <1>1, <1>2, <1>3 DEF IInv, TypeOK, SessionType, Numbers
<1>5. NetLocks' /\ JobLocks' /\ AccountStays'
  BY <1>1 DEF IInv, NetLocks, JobLocks, Locks, Statement, AccountStays
<1>6. Transaction'
  BY <1>1, <1>2, Bounds DEF Transaction, Rows
<1>7. Together'
  BY <1>3 DEF Together
<1>8. QED
  BY <1>1, <1>4, <1>5, <1>6, <1>7 DEF IInv

LEMMA NetLockStep ==
  ASSUME IInv, NetLock
  PROVE  IInv'
<1>1. /\ net = "idle" /\ lock = "free" /\ writes.made < MaxWrites
      /\ net' = "locked" /\ lock' = "net" /\ inside' = inside \union {"net"}
      /\ writes' = [writes EXCEPT !.made = @ + 1]
      /\ rows' = rows /\ session' = session /\ reachable' = reachable
      /\ connected' = connected /\ gaveUp' = gaveUp /\ job' = job /\ jobs' = jobs
      /\ faults' = faults
  BY DEF NetLock
<1>2. /\ writes' \in [made : 0 .. MaxWrites, done : 0 .. MaxWrites]
      /\ writes'.done = writes.done /\ writes'.done <= writes'.made
  BY <1>1, Bounds DEF IInv, TypeOK
<1>3. TypeOK'
  BY <1>1, <1>2 DEF IInv, TypeOK
<1>4. NetLocks'
  BY <1>1 DEF NetLocks
<1>5. JobLocks'
  BY <1>1 DEF IInv, JobLocks, Locks, Statement
<1>6. Transaction' /\ Together' /\ AccountStays'
  BY <1>1, <1>2 DEF IInv, Transaction, Together, AccountStays
<1>7. QED
  BY <1>2, <1>3, <1>4, <1>5, <1>6 DEF IInv

LEMMA ServerBackStep ==
  ASSUME IInv, ServerBack
  PROVE  IInv'
<1>1. /\ reachable' = TRUE
      /\ rows' = rows /\ session' = session /\ connected' = connected /\ gaveUp' = gaveUp
      /\ lock' = lock /\ inside' = inside /\ job' = job /\ jobs' = jobs /\ net' = net
      /\ writes' = writes /\ faults' = faults
  BY DEF ServerBack
<1>2. TypeOK'
  BY <1>1 DEF IInv, TypeOK
<1>3. NetLocks' /\ JobLocks' /\ AccountStays'
  BY <1>1 DEF IInv, NetLocks, JobLocks, Locks, Statement, AccountStays
<1>4. Transaction' /\ Together'
  BY <1>1 DEF IInv, Transaction, Together
<1>5. QED
  BY <1>1, <1>2, <1>3, <1>4 DEF IInv

\* While the thread of the network is in the library no savePlayer is under way: what it
\* writes is committed at once, or goes to a transaction of saveHouses.
LEMMA NetWritesStep ==
  ASSUME IInv, NetWrites
  PROVE  IInv'
<1>1. /\ net = "locked" /\ lock = "net" /\ session \in SessionType
      /\ rows \in [Rows -> Numbers] /\ writes.made \in Numbers
      /\ writes \in [made : 0 .. MaxWrites, done : 0 .. MaxWrites]
      /\ job \in [kind : {"idle"} \cup Jobs, at : 0 .. 4]
      /\ inside \subseteq {"dispatcher", "net"}
      /\ "account" \in Rows /\ "p1" \in Rows /\ "p2" \in Rows
  <2>1. net = "locked" /\ lock = "net" /\ inside \subseteq {"dispatcher", "net"}
    BY DEF NetWrites, IInv, NetLocks, TypeOK
  <2>2. session \in SessionType /\ rows \in [Rows -> Numbers]
    BY DEF IInv, TypeOK, Numbers, SessionType
  <2>3. /\ writes \in [made : 0 .. MaxWrites, done : 0 .. MaxWrites]
        /\ job \in [kind : {"idle"} \cup Jobs, at : 0 .. 4]
    BY DEF IInv, TypeOK
  <2>4. writes.made \in Numbers
    BY <2>3, Bounds
  <2>5. QED
    BY <2>1, <2>2, <2>3, <2>4 DEF Rows
<1>2. job.kind # "player"
  BY <1>1 DEF IInv, JobLocks, LocksWhole
<1>3. PICK done \in BOOLEAN :
        /\ net' = "idle" /\ lock' = "free" /\ inside' = inside \ {"net"}
        /\ writes' = IF done THEN [writes EXCEPT !.done = writes.made] ELSE writes
        /\ reachable' = reachable /\ job' = job /\ jobs' = jobs
        /\ done => Succeeds("account", writes.made) \/ Reconnects("account", writes.made)
        /\ ~done => Fails("account") /\ rows' = rows /\ session' = session
  BY DEF NetWrites, NetLeaves
<1>4. NetLocks'
  BY <1>3 DEF NetLocks
<1>5. JobLocks'
  BY <1>1, <1>3 DEF IInv, JobLocks, Locks, Statement
<1>6. CASE done
  <2>1. PICK s \in SessionType :
          /\ Serve(s, "account", writes.made) /\ connected /\ s.up
          /\ s = session \/ (s = NewSession /\ ~session.up)
    <3>1. CASE Succeeds("account", writes.made)
      BY <1>1, <3>1 DEF Succeeds, Usable
    <3>2. CASE Reconnects("account", writes.made)
      BY <3>2, Bounds DEF Reconnects, NewSession
    <3>3. QED
      BY <1>3, <1>6, <3>1, <3>2
  <2>2. connected' = connected /\ gaveUp' = gaveUp /\ faults' = faults
    BY <1>3, <1>6 DEF Succeeds, Reconnects
  <2>3. /\ session' \in SessionType /\ rows' \in [Rows -> Numbers] /\ session'.up = s.up
        /\ s.tx =>
             /\ session'.tx /\ rows' = rows
             /\ \A r \in Rows \ {"account"} : session'.pending[r] = s.pending[r]
        /\ ~s.tx =>
             /\ session' = s /\ rows'["account"] = writes.made
             /\ \A r \in Rows \ {"account"} : rows'[r] = rows[r]
    <3>1. "account" \in Rows \cup {"begin", "commit", "ping"}
      BY <1>1
    <3> DEFINE st == "account"
               n == writes.made
    <3>2. n \in Numbers /\ Serve(s, st, n) /\ st \in Rows \cup {"begin", "commit", "ping"}
      BY <1>1, <2>1, <3>1
    <3> HIDE DEF st, n
    <3>3. /\ session' \in SessionType /\ rows' \in [Rows -> Numbers] /\ session'.up = s.up
          /\ st \in Rows /\ s.tx =>
               /\ session'.tx /\ rows' = rows
               /\ \A r \in Rows \ {st} : session'.pending[r] = s.pending[r]
          /\ st \in Rows /\ ~s.tx =>
               /\ session' = s /\ rows'[st] = n
               /\ \A r \in Rows \ {st} : rows'[r] = rows[r]
      BY <1>1, <3>2, Served
    <3>4. QED
      BY <1>1, <3>3 DEF st, n
  <2>4. /\ ~s.tx => s.pending = Nothing
        /\ s.tx => s = session /\ job.kind = "houses" /\ job.at > 1
        /\ job.kind = "houses" => s.pending["p1"] = 0 /\ s.pending["p2"] = 0
    BY <1>1, <1>2, <2>1, Bounds DEF IInv, Transaction, NewSession
  <2>5. /\ writes'.made = writes.made /\ writes'.done = writes.made
        /\ writes' \in [made : 0 .. MaxWrites, done : 0 .. MaxWrites]
    BY <1>1, <1>3, <1>6
  <2>6. TypeOK'
    <3>1. /\ net' \in {"idle", "locked"} /\ lock' \in {"free", "dispatcher", "net"}
          /\ inside' \subseteq {"dispatcher", "net"}
      BY <1>1, <1>3
    <3>2. QED
      BY <1>3, <2>2, <2>3, <2>5, <3>1 DEF IInv, TypeOK, SessionType, Numbers
  <2>7. Transaction'
    <3>1. (~connected => ~session.up)' /\ (~session.up => ~session.tx)'
      BY <2>1, <2>2, <2>3
    <3>2. ~session'.tx => session'.pending = Nothing
      BY <2>3, <2>4
    <3>3. session'.tx => job'.kind \in {"player", "houses"} /\ job'.at > 1
      BY <1>3, <2>3, <2>4
    <3>4. job'.kind # "player"
      BY <1>2, <1>3
    <3>5. job'.kind = "houses" => session'.pending["p1"] = 0 /\ session'.pending["p2"] = 0
      BY <1>1, <1>3, <2>3, <2>4
    <3>6. QED
      BY <3>1, <3>2, <3>3, <3>4, <3>5 DEF Transaction
  <2>8. Together'
    <3>1. faults.losses = 0 => s = session /\ rows["p1"] = rows["p2"]
      BY <2>1 DEF IInv, Together
    <3>2. rows'["p1"] = rows["p1"] /\ rows'["p2"] = rows["p2"]
      BY <1>1, <2>3
    <3>3. job'.kind # "player"
      BY <1>2, <1>3
    <3>4. QED
      BY <2>1, <2>2, <2>3, <3>1, <3>2, <3>3 DEF Together
  <2>9. AccountStays' /\ writes'.done <= writes'.made
    <3>1. writes.made \in Nat
      BY <1>1, Bounds
    <3>2. "houses" \notin Jobs => ~s.tx
      BY <1>1, <2>4
    <3>3. QED
      BY <2>3, <2>5, <3>1, <3>2 DEF AccountStays
  <2>10. QED
    BY <1>4, <1>5, <2>6, <2>7, <2>8, <2>9 DEF IInv
<1>7. CASE ~done
  <2>1. /\ Fails("account") /\ rows' = rows /\ session' = session /\ writes' = writes
    BY <1>3, <1>7
  <2>2. /\ connected \in BOOLEAN /\ gaveUp \in BOOLEAN
        /\ faults \in [errors : 0 .. MaxErrors, losses : 0 .. MaxLosses]
        /\ ~connected => ~session.up
        /\ faults.losses = 0 => connected /\ session.up
    BY DEF IInv, TypeOK, Transaction, Together
  <2>3. /\ connected' \in BOOLEAN /\ gaveUp' \in BOOLEAN
        /\ faults' \in [errors : 0 .. MaxErrors, losses : 0 .. MaxLosses]
        /\ faults'.losses = faults.losses
        /\ ~connected' => ~session.up
        /\ session.up => connected' = connected
    <3>1. CASE UNCHANGED <<connected, gaveUp, faults>>
      BY <2>2, <3>1
    <3>2. CASE /\ faults.errors < MaxErrors
               /\ faults' = [faults EXCEPT !.errors = @ + 1]
               /\ UNCHANGED <<connected, gaveUp>>
      <4>1. /\ faults'.losses = faults.losses
            /\ faults' \in [errors : 0 .. MaxErrors, losses : 0 .. MaxLosses]
        BY <2>2, <3>2, Bounds
      <4>2. QED
        BY <2>2, <3>2, <4>1
    <3>3. CASE ~session.up /\ connected' = FALSE /\ gaveUp' = TRUE /\ UNCHANGED faults
      BY <2>2, <3>3
    <3>4. QED
      BY <2>1, <3>1, <3>2, <3>3 DEF Fails
  <2>4. TypeOK'
    <3>1. /\ net' \in {"idle", "locked"} /\ lock' \in {"free", "dispatcher", "net"}
          /\ inside' \subseteq {"dispatcher", "net"}
      BY <1>1, <1>3
    <3>2. QED
      BY <1>3, <2>1, <2>3, <3>1 DEF IInv, TypeOK
  <2>5. Transaction'
    BY <1>3, <2>1, <2>3 DEF IInv, Transaction
  <2>6. Together'
    BY <1>2, <1>3, <2>1, <2>2, <2>3 DEF IInv, Together
  <2>7. AccountStays' /\ writes'.done <= writes'.made
    BY <2>1 DEF IInv, AccountStays
  <2>8. QED
    BY <1>4, <1>5, <2>4, <2>5, <2>6, <2>7 DEF IInv
<1>8. QED
  BY <1>3, <1>6, <1>7

-----------------------------------------------------------------------------
(* The invariant                                                           *)

LEMMA InitIInv == Init => IInv
<1> SUFFICES ASSUME Init PROVE IInv
  OBVIOUS
<1>1. /\ rows = Nothing /\ session = NewSession /\ reachable = TRUE /\ connected = TRUE
      /\ gaveUp = FALSE /\ lock = "free" /\ inside = {} /\ net = "idle" /\ job = Idle
      /\ jobs = 0 /\ writes = [made |-> 0, done |-> 0]
      /\ faults = [errors |-> 0, losses |-> 0]
  BY DEF Init
<1>2. /\ 0 \in 0 .. MaxJobs /\ 0 \in 0 .. MaxWrites /\ 0 \in 0 .. MaxErrors
      /\ 0 \in 0 .. MaxLosses
  BY Bounds
<1>3. job.kind = "idle" /\ job \in [kind : {"idle"} \cup Jobs, at : 0 .. 4]
  BY <1>1 DEF Idle
<1>4. TypeOK
  BY <1>1, <1>2, <1>3, Bounds DEF TypeOK, SessionType, Numbers
<1>5. NetLocks /\ JobLocks
  BY <1>1, <1>3 DEF NetLocks, JobLocks, LocksWhole
<1>6. session.up /\ ~session.tx /\ session.pending = Nothing
  BY <1>1 DEF NewSession
<1>7. Transaction
  BY <1>1, <1>3, <1>6, Bounds DEF Transaction
<1>8. Together
  BY <1>1, <1>3, <1>6, Bounds DEF Together, Rows
<1>9. AccountStays /\ writes.done <= writes.made
  BY <1>1, Bounds DEF AccountStays, Rows
<1>10. QED
  BY <1>4, <1>5, <1>7, <1>8, <1>9 DEF IInv

LEMMA StutterIInv ==
  ASSUME IInv, UNCHANGED vars
  PROVE  IInv'
<1>1. /\ rows' = rows /\ session' = session /\ reachable' = reachable
      /\ connected' = connected /\ gaveUp' = gaveUp /\ lock' = lock /\ inside' = inside
      /\ job' = job /\ jobs' = jobs /\ net' = net /\ writes' = writes /\ faults' = faults
  BY DEF vars
<1>2. TypeOK' /\ Transaction' /\ Together' /\ AccountStays'
  BY <1>1 DEF IInv, TypeOK, Transaction, Together, AccountStays
<1>3. NetLocks' /\ JobLocks'
  BY <1>1 DEF IInv, NetLocks, JobLocks, Locks, Statement
<1>4. QED
  BY <1>1, <1>2, <1>3 DEF IInv

LEMMA NextIInv ==
  ASSUME IInv, Next
  PROVE  IInv'
<1>1. CASE LoseSession \/ ServerBack
  BY <1>1, LoseSessionStep, ServerBackStep
<1>2. CASE \E kind \in Jobs : Start(kind)
  BY <1>2, StartStep
<1>3. CASE Send \/ Done \/ Failed
  BY <1>3, SendStep, DoneStep, FailedStep
<1>4. CASE NetLock \/ NetWrites
  BY <1>4, NetLockStep, NetWritesStep
<1>5. QED
  BY <1>1, <1>2, <1>3, <1>4 DEF Next

\* In every state: whoever is in the library is there by the lock or by a statement that
\* does without, and a transaction is open for the job that began it and no other.
THEOREM Invariance == Spec => []IInv
<1>1. Init => IInv
  BY InitIInv
<1>2. IInv /\ [Next]_vars => IInv'
  BY NextIInv, StutterIInv
<1>3. QED
  BY <1>1, <1>2, PTL DEF Spec

\* If no job but savePlayer runs, the library never has both threads.
LEMMA Alone ==
  ASSUME IInv, Jobs \subseteq {"player"}
  PROVE  Cardinality(inside) <= 1
<1>1. inside \subseteq {"dispatcher", "net"} /\ job.kind \in {"idle", "player"}
  BY DEF IInv, TypeOK
<1>2. "dispatcher" \in inside => lock = "dispatcher"
  BY <1>1 DEF IInv, JobLocks, LocksWhole
<1>3. "net" \in inside => lock = "net"
  BY DEF IInv, NetLocks
<1>4. inside = {} \/ inside = {"dispatcher"} \/ inside = {"net"}
  BY <1>1, <1>2, <1>3
<1>5. Cardinality(inside) \in {0, 1}
  BY <1>4, FS_EmptySet, FS_Singleton
<1>6. QED
  BY <1>5

\* For any number of jobs, writes, errors and lost sessions: what the network thread was
\* told is written stays written unless houses are saved, a player is saved whole or not
\* at all until a session is lost, no job leaves the lock or a transaction behind, and
\* where only players are saved one thread at a time is in the client library.
THEOREM DatabaseCorrect == Spec => []DatabaseSound
<1>1. ASSUME IInv PROVE DatabaseSound
  <2>1. AllOrNothing
    BY <1>1 DEF IInv, Together, AllOrNothing
  <2>2. LeavesNothing
    <3>1. SUFFICES ASSUME job = Idle, net = "idle"
                   PROVE  lock = "free" /\ inside = {} /\ ~session.tx
      BY DEF LeavesNothing
    <3>2. job.kind = "idle"
      BY <3>1 DEF Idle
    <3>3. /\ lock # "dispatcher" /\ "dispatcher" \notin inside
          /\ lock # "net" /\ "net" \notin inside
      BY <1>1, <3>1, <3>2 DEF IInv, JobLocks, NetLocks
    <3>4. lock = "free" /\ inside = {}
      BY <1>1, <3>3 DEF IInv, TypeOK
    <3>5. ~session.tx
      BY <1>1, <3>2 DEF IInv, Transaction
    <3>6. QED
      BY <3>4, <3>5
  <2>3. OneAtATime
    BY <1>1, Alone DEF OneAtATime
  <2>4. QED
    BY <1>1, <2>1, <2>2, <2>3 DEF IInv, DatabaseSound
<1>2. QED
  BY <1>1, Invariance, PTL

-----------------------------------------------------------------------------
(* Spawns: an instance beside the database                                 *)

CONSTANTS Spots, Monsters, None, Rate, CanLeave

VARIABLES started, spawned, life, inZone, spawnOf, refs, toRelease, event, due, watched

Sp == INSTANCE Spawn

\* Whom a monster is known to: the list of the spawn, and the game.
InList(m) == IF spawned[m] # None THEN 1 ELSE 0
InGame(m) == IF life[m] = "alive" \/ m \in toRelease THEN 1 ELSE 0

\* No two monsters are listed for a spot.
Apart == \A m, n \in Monsters : spawned[m] \in Spots /\ spawned[n] = spawned[m] => m = n

\* The references are those of the list and of the game; what does not exist is not listed,
\* what waits for its release was removed, what was removed is known to somebody, and a
\* living monster points to the spawn while it is listed.
Known(m) ==
  /\ refs[m] = InList(m) + InGame(m)
  /\ life[m] = "none" => spawned[m] = None
  /\ m \in toRelease => life[m] = "removed"
  /\ life[m] = "alive" => (m \in spawnOf <=> spawned[m] # None)
  /\ life[m] = "removed" => spawned[m] # None \/ m \in toRelease

Herd ==
  /\ Sp!TypeOK /\ Apart
  /\ \A m \in Monsters : Known(m)
  /\ ~started => \A m \in Monsters : spawned[m] = None

\* A list and references that may become those of the spawn: monsters that were removed are
\* off the list, others have lost their spot.
Purging(list, rs) ==
  \A m \in Monsters :
    \/ list[m] = spawned[m] /\ rs[m] = refs[m]
    \/ list[m] = 0 /\ spawned[m] # None /\ rs[m] = refs[m]
    \/ /\ list[m] = None /\ spawned[m] # None /\ life[m] = "removed"
       /\ rs[m] = refs[m] - 1

\* The instance has a definition of its own of what a cardinality is.
LEMMA SameCardinality == \A S : Sp!Cardinality(S) = Cardinality(S)
BY DEF Sp!Cardinality, Cardinality

\* What spawnMonster leaves of such a list.
LEMMA SpawnMonstersKeeps ==
  ASSUME Sp!SpawnAssumption, Herd, NEW spots \in SUBSET Spots, NEW list, NEW rs,
         Sp!SpawnMonsters(spots, list, rs), toRelease' = toRelease,
         \A m \in Monsters : list[m] \notin spots,
         Purging(list, rs)
  PROVE  /\ spawned' \in [Monsters -> Spots \union {0, None}]
         /\ life' \in [Monsters -> {"none", "alive", "removed"}]
         /\ inZone' \subseteq Monsters /\ spawnOf' \subseteq Monsters
         /\ refs' \in [Monsters -> 0..2]
         /\ Apart' /\ \A m \in Monsters : Known(m)'
<1>1. /\ spawned \in [Monsters -> Spots \union {0, None}]
      /\ life \in [Monsters -> {"none", "alive", "removed"}]
      /\ inZone \subseteq Monsters /\ spawnOf \subseteq Monsters
      /\ refs \in [Monsters -> 0..2]
  BY DEF Herd, Sp!TypeOK, Sp!Lured
<1>2. 0 \notin Spots /\ None \notin Spots \union {0}
  BY DEF Sp!SpawnAssumption, Sp!Lured
<1> DEFINE removed == {m \in Monsters : life[m] = "removed"}
           free == Monsters \ (Sp!Alive \union removed)
<1>3. PICK f \in [spots -> free] :
        LET born == {f[s] : s \in spots} IN
        /\ spawned' = [m \in Monsters |->
             IF m \in born THEN CHOOSE s \in spots : f[s] = m ELSE list[m]]
        /\ refs' = [m \in Monsters |-> IF m \in born THEN Sp!ReferencesToNew ELSE rs[m]]
        /\ life' = [m \in Monsters |-> IF m \in born THEN "alive" ELSE Sp!Left(rs, life)[m]]
        /\ inZone' = inZone \union born
        /\ spawnOf' = spawnOf \union born
  BY DEF Sp!SpawnMonsters
<1> DEFINE born == {f[s] : s \in spots}
<1>4. \A m \in born : m \in Monsters /\ life[m] = "none"
  BY <1>1, <1>3 DEF Sp!Alive
<1>5. \A m \in Monsters \ born :
        /\ spawned'[m] = list[m] /\ refs'[m] = rs[m]
        /\ life'[m] = IF life[m] = "removed" /\ rs[m] = 0 THEN "none" ELSE life[m]
        /\ m \in spawnOf' <=> m \in spawnOf
  BY <1>3 DEF Sp!Left
<1>6. \A m \in born :
        /\ spawned'[m] \in spots /\ f[spawned'[m]] = m /\ refs'[m] = 2
        /\ life'[m] = "alive" /\ m \in spawnOf'
  <2>1. ASSUME NEW m \in born
        PROVE  /\ spawned'[m] = CHOOSE s \in spots : f[s] = m
               /\ refs'[m] = 2 /\ life'[m] = "alive" /\ m \in spawnOf'
               /\ \E s \in spots : f[s] = m
    BY <1>3, <1>4 DEF Sp!ReferencesToNew
  <2>2. QED
    BY <2>1
<1>7. /\ DOMAIN spawned' = Monsters /\ DOMAIN life' = Monsters /\ DOMAIN refs' = Monsters
      /\ spawned' = [m \in Monsters |-> spawned'[m]]
      /\ life' = [m \in Monsters |-> life'[m]]
      /\ refs' = [m \in Monsters |-> refs'[m]]
      /\ inZone' = inZone \union born /\ spawnOf' = spawnOf \union born
  BY <1>3
<1> HIDE DEF born
<1>8. ASSUME NEW m \in Monsters
      PROVE  /\ Known(m)' /\ spawned'[m] \in Spots \union {0, None}
             /\ life'[m] \in {"none", "alive", "removed"} /\ refs'[m] \in 0 .. 2
  <2>1. /\ spawned[m] \in Spots \union {0, None} /\ refs[m] \in 0 .. 2
        /\ life[m] \in {"none", "alive", "removed"} /\ Known(m)
    BY <1>1 DEF Herd
  <2>2. CASE m \in born
    <3>1. spawned'[m] \in Spots /\ spawned'[m] # None
      BY <1>2, <1>6, <2>2
    <3>2. m \notin toRelease'
      BY <1>4, <2>1, <2>2 DEF Known
    <3>3. QED
      BY <1>6, <2>2, <3>1, <3>2 DEF Known, InList, InGame
  <2>3. CASE m \notin born
    <3>1. /\ spawned'[m] = list[m] /\ refs'[m] = rs[m]
          /\ life'[m] = IF life[m] = "removed" /\ rs[m] = 0 THEN "none" ELSE life[m]
          /\ m \in spawnOf' <=> m \in spawnOf
      BY <1>5, <2>3
    <3>2. \/ list[m] = spawned[m] /\ rs[m] = refs[m]
          \/ list[m] = 0 /\ spawned[m] # None /\ rs[m] = refs[m]
          \/ /\ list[m] = None /\ spawned[m] # None /\ life[m] = "removed"
             /\ rs[m] = refs[m] - 1
      BY DEF Purging
    <3>3. QED
      BY <1>2, <2>1, <3>1, <3>2 DEF Known, InList, InGame
  <2>4. QED
    BY <2>2, <2>3
<1>9. Apart'
  <2>1. SUFFICES ASSUME NEW m \in Monsters, NEW n \in Monsters, spawned'[m] \in Spots,
                        spawned'[n] = spawned'[m]
                 PROVE  m = n
    BY DEF Apart
  <2>2. CASE m \in born /\ n \in born
    BY <1>6, <2>1, <2>2
  <2>3. CASE m \in born /\ n \notin born
    BY <1>5, <1>6, <2>1, <2>3
  <2>4. CASE m \notin born /\ n \in born
    BY <1>5, <1>6, <2>1, <2>4
  <2>5. CASE m \notin born /\ n \notin born
    <3>1. list[m] \in Spots /\ list[n] = list[m]
      BY <1>5, <2>1, <2>5
    <3>2. list[m] = spawned[m] /\ list[n] = spawned[n]
      BY <1>2, <3>1 DEF Purging
    <3>3. QED
      BY <3>1, <3>2 DEF Herd, Apart
  <2>6. QED
    BY <2>2, <2>3, <2>4, <2>5
<1>10. QED
  <2>1. born \subseteq Monsters
    BY <1>4
  <2>2. /\ spawned' \in [Monsters -> Spots \union {0, None}]
        /\ life' \in [Monsters -> {"none", "alive", "removed"}]
        /\ refs' \in [Monsters -> 0..2]
    BY <1>7, <1>8
  <2>3. QED
    BY <1>1, <1>7, <1>8, <1>9, <2>1, <2>2

LEMMA SpawnInit == ASSUME Sp!SpawnAssumption, Sp!Init PROVE Herd
<1>1. /\ spawned = [m \in Monsters |-> None] /\ life = [m \in Monsters |-> "none"]
      /\ inZone = {} /\ spawnOf = {} /\ toRelease = {} /\ refs = [m \in Monsters |-> 0]
      /\ started = FALSE /\ event = FALSE /\ due = Spots /\ watched = {}
  BY DEF Sp!Init
<1>2. Sp!TypeOK
  <2>1. /\ spawned \in [Monsters -> Spots \union {Sp!Lured, None}]
        /\ life \in [Monsters -> {"none", "alive", "removed"}]
        /\ refs \in [Monsters -> 0..2]
    BY <1>1
  <2>2. QED
    BY <1>1, <2>1 DEF Sp!TypeOK
<1>3. Apart
  BY <1>1 DEF Apart, Sp!SpawnAssumption
<1>4. \A m \in Monsters : Known(m) /\ spawned[m] = None
  BY <1>1 DEF Known, InList, InGame
<1>5. QED
  BY <1>2, <1>3, <1>4 DEF Herd

\* An event of one monster does not concern the others.
LEMMA OneChanges ==
  ASSUME Herd, NEW m \in Monsters, Sp!TypeOK', started' = started,
         \A n \in Monsters \ {m} :
           /\ spawned'[n] = spawned[n] /\ life'[n] = life[n] /\ refs'[n] = refs[n]
           /\ n \in spawnOf' <=> n \in spawnOf
           /\ n \in toRelease' <=> n \in toRelease,
         spawned'[m] \in {spawned[m], None}, Known(m)',
         None \notin Spots
  PROVE  Herd'
<1>1. Apart'
  BY DEF Herd, Apart
<1>2. \A n \in Monsters : Known(n)'
  BY DEF Herd, Known, InList, InGame
<1>3. QED
  BY <1>1, <1>2 DEF Herd

LEMMA SpawnNext == ASSUME Sp!SpawnAssumption, Herd, [Sp!Next]_(Sp!vars) PROVE Herd'
<1>1. /\ spawned \in [Monsters -> Spots \union {0, None}]
      /\ life \in [Monsters -> {"none", "alive", "removed"}]
      /\ inZone \subseteq Monsters /\ spawnOf \subseteq Monsters /\ toRelease \subseteq Monsters
      /\ refs \in [Monsters -> 0..2] /\ started \in BOOLEAN /\ event \in BOOLEAN
      /\ due \subseteq Spots /\ watched \subseteq Spots
  BY DEF Herd, Sp!TypeOK, Sp!Lured
<1>2. 0 \notin Spots /\ None \notin Spots \union {0}
  BY DEF Sp!SpawnAssumption, Sp!Lured
<1>3. \A m \in Monsters : Known(m)
  BY DEF Herd
<1>4. CASE Sp!Startup
  <2>1. /\ Sp!SpawnMonsters(Spots, spawned, refs) /\ ~started /\ started' = TRUE /\ due' = {}
        /\ toRelease' = toRelease /\ event' = event /\ watched' = watched
    BY <1>4 DEF Sp!Startup
  <2>2. \A m \in Monsters : spawned[m] \notin Spots
    BY <1>2, <2>1 DEF Herd
  <2>3. Purging(spawned, refs)
    BY DEF Purging
  <2>4. /\ spawned' \in [Monsters -> Spots \union {0, None}]
        /\ life' \in [Monsters -> {"none", "alive", "removed"}]
        /\ inZone' \subseteq Monsters /\ spawnOf' \subseteq Monsters
        /\ refs' \in [Monsters -> 0..2]
        /\ Apart' /\ \A m \in Monsters : Known(m)'
    BY <2>1, <2>2, <2>3, SpawnMonstersKeeps
  <2>5. QED
    BY <1>1, <2>1, <2>4 DEF Herd, Sp!TypeOK, Sp!Lured
<1>5. CASE Sp!CheckSpawn
  <2> DEFINE rs == [m \in Monsters |-> IF m \in Sp!Unrefed THEN refs[m] - 1 ELSE refs[m]]
             dead == {spawned[m] : m \in Sp!Unrefed}
             open == (due \ dead) \intersect Sp!EmptySpots
             tried == {s \in open \ watched : Sp!Reached(open \ watched, s)}
             seen == {s \in open \intersect watched : Sp!Reached(open \ watched, s)}
  <2>1. /\ Sp!SpawnMonsters(tried, Sp!Purged, rs) /\ started /\ started' = started
        /\ toRelease' = toRelease /\ watched' = watched
        /\ due' = due \ (dead \union tried \union seen)
        /\ event' = Sp!GoesOn(spawned')
    BY <1>5 DEF Sp!CheckSpawn
  <2>2. tried \in SUBSET Spots /\ \A m \in Monsters : Sp!Purged[m] \notin tried
    BY DEF Sp!EmptySpots
  <2>3. due' \subseteq Spots /\ event' \in BOOLEAN
    BY <1>1, <2>1 DEF Sp!GoesOn
  <2>4. ASSUME NEW m \in Monsters
        PROVE  \/ Sp!Purged[m] = spawned[m] /\ rs[m] = refs[m]
               \/ Sp!Purged[m] = 0 /\ spawned[m] # None /\ rs[m] = refs[m]
               \/ /\ Sp!Purged[m] = None /\ spawned[m] # None /\ life[m] = "removed"
                  /\ rs[m] = refs[m] - 1
    <3>1. Sp!Purged[m] = IF spawned[m] # None /\ life[m] = "removed" THEN None
                         ELSE IF spawned[m] # None /\ m \notin inZone THEN 0
                         ELSE spawned[m]
      BY DEF Sp!Purged, Sp!Listed, Sp!Lured
    <3>2. m \in Sp!Unrefed <=> spawned[m] # None /\ Sp!Purged[m] = None
      BY DEF Sp!Unrefed, Sp!Listed
    <3>3. QED
      BY <1>2, <3>1, <3>2
  <2>5. Purging(Sp!Purged, rs)
    BY <2>4 DEF Purging
  <2> HIDE DEF rs, tried, seen, dead
  <2>6. /\ spawned' \in [Monsters -> Spots \union {0, None}]
        /\ life' \in [Monsters -> {"none", "alive", "removed"}]
        /\ inZone' \subseteq Monsters /\ spawnOf' \subseteq Monsters
        /\ refs' \in [Monsters -> 0..2]
        /\ Apart' /\ \A m \in Monsters : Known(m)'
    BY <2>1, <2>2, <2>5, SpawnMonstersKeeps
  <2>7. QED
    BY <1>1, <2>1, <2>3, <2>6 DEF Herd, Sp!TypeOK, Sp!Lured
<1>6. ASSUME NEW m \in Monsters, Sp!Remove(m) PROVE Herd'
  <2>1. /\ life[m] = "alive" /\ life' = [life EXCEPT ![m] = "removed"]
        /\ toRelease' = toRelease \union {m} /\ event' \in BOOLEAN
        /\ inZone' = inZone \ {m}
        /\ UNCHANGED <<started, spawned, spawnOf, refs, due, watched>>
    BY <1>1, <1>6 DEF Sp!Remove, Sp!Alive, Sp!StartsEvent
  <2>2. Sp!TypeOK'
    BY <1>1, <2>1 DEF Sp!TypeOK, Sp!Lured
  <2>3. Known(m)'
    BY <1>1, <1>3, <2>1 DEF Known, InList, InGame
  <2>4. QED
    BY <1>1, <1>2, <2>1, <2>2, <2>3, OneChanges
<1>7. ASSUME NEW m \in Monsters, Sp!Leave(m) \/ Sp!Return(m) PROVE Herd'
  <2>1. /\ inZone' \subseteq Monsters
        /\ UNCHANGED <<started, spawned, life, spawnOf, refs, toRelease, event, due, watched>>
    BY <1>1, <1>7 DEF Sp!Leave, Sp!Return
  <2>2. QED
    BY <2>1 DEF Herd, Sp!TypeOK, Apart, Known, InList, InGame
<1>8. ASSUME NEW m \in Monsters, Sp!Convince(m) PROVE Herd'
  <2>1. /\ life[m] = "alive" /\ m \in spawnOf
        /\ spawned' = [spawned EXCEPT ![m] = None] /\ refs' = [refs EXCEPT ![m] = @ - 1]
        /\ spawnOf' = spawnOf \ {m}
        /\ UNCHANGED <<started, life, inZone, toRelease, event, due, watched>>
    BY <1>8 DEF Sp!Convince, Sp!Forgets, Sp!Alive
  <2>2. refs[m] = 2
    BY <1>3, <2>1 DEF Known, InList, InGame
  <2>3. Sp!TypeOK'
    BY <1>1, <2>1, <2>2 DEF Sp!TypeOK, Sp!Lured
  <2>4. Known(m)'
    BY <1>1, <1>3, <2>1, <2>2 DEF Known, InList, InGame
  <2>5. QED
    BY <1>1, <1>2, <2>1, <2>3, <2>4, OneChanges
<1>9. ASSUME NEW m \in Monsters, Sp!Release(m) PROVE Herd'
  <2> DEFINE left == [refs EXCEPT ![m] = @ - 1]
  <2>1. /\ m \in toRelease /\ toRelease' = toRelease \ {m}
        /\ refs' = left /\ life' = Sp!Left(left, life) /\ spawnOf' = spawnOf \ {m}
        /\ UNCHANGED <<started, spawned, inZone, event, due, watched>>
    BY <1>9 DEF Sp!Release
  <2>2. /\ life[m] = "removed" /\ refs[m] = InList(m) + 1 /\ refs[m] \in 1 .. 2
    BY <1>1, <1>3, <2>1 DEF Known, InList, InGame
  <2>3. /\ refs' \in [Monsters -> 0 .. 2] /\ refs'[m] = InList(m)
        /\ \A n \in Monsters \ {m} : refs'[n] = refs[n]
    BY <1>1, <2>1, <2>2 DEF InList
  <2>4. \A n \in Monsters :
          life'[n] = IF life[n] = "removed" /\ refs'[n] = 0 THEN "none" ELSE life[n]
    BY <2>1 DEF Sp!Left
  <2>5. life' \in [Monsters -> {"none", "alive", "removed"}]
    BY <1>1, <2>1 DEF Sp!Left
  <2>6. Sp!TypeOK'
    BY <1>1, <2>1, <2>3, <2>5 DEF Sp!TypeOK, Sp!Lured
  <2>7. \A n \in Monsters \ {m} : life'[n] = life[n]
    BY <1>1, <1>3, <2>3, <2>4 DEF Known, InList, InGame
  <2>8. Known(m)'
    <3>1. spawned' = spawned /\ m \notin toRelease'
      BY <2>1
    <3>2. refs'[m] = IF spawned[m] # None THEN 1 ELSE 0
      BY <2>3 DEF InList
    <3>3. life'[m] = IF spawned[m] # None THEN "removed" ELSE "none"
      BY <2>2, <2>4, <3>2
    <3>4. QED
      BY <3>1, <3>2, <3>3 DEF Known, InList, InGame
  <2>9. QED
    BY <1>1, <1>2, <2>1, <2>3, <2>6, <2>7, <2>8, OneChanges
<1>10. CASE Sp!PlayersMove \/ (\E s \in Spots : Sp!Elapse(s)) \/ UNCHANGED Sp!vars
  <2>1. /\ due' \subseteq Spots /\ watched' \subseteq Spots
        /\ UNCHANGED <<started, spawned, life, inZone, spawnOf, refs, toRelease, event>>
    BY <1>1, <1>10 DEF Sp!PlayersMove, Sp!Elapse, Sp!vars
  <2>2. QED
    BY <2>1 DEF Herd, Sp!TypeOK, Apart, Known, InList, InGame
<1>11. QED
  BY <1>4, <1>5, <1>6, <1>7, <1>8, <1>9, <1>10 DEF Sp!Next

\* The library's facts are about the same cardinality.
LEMMA SpawnIsSound == ASSUME Sp!SpawnAssumption, Herd PROVE Sp!SpawnSound
<1>1. Sp!OneEach
  <2>1. SUFFICES ASSUME NEW s \in Spots
                 PROVE  Cardinality({m \in Monsters : spawned[m] = s}) <= 1
    BY SameCardinality DEF Sp!OneEach
  <2> DEFINE there == {m \in Monsters : spawned[m] = s}
  <2>2. CASE there = {}
    BY <2>2, FS_EmptySet
  <2>3. CASE \E m : m \in there
    <3>1. PICK m : m \in there
      BY <2>3
    <3>2. there = {m}
      BY <3>1 DEF Herd, Apart
    <3>3. QED
      BY <3>2, FS_Singleton
  <2>4. QED
    BY <2>2, <2>3
<1>2. /\ \A m \in Monsters : Known(m)
      /\ life \in [Monsters -> {"none", "alive", "removed"}]
  BY DEF Herd, Sp!TypeOK
<1>3. Sp!ListedExist /\ Sp!PointersAgree /\ Sp!Reclaimed
  BY <1>2 DEF Known, Sp!ListedExist, Sp!PointersAgree, Sp!Reclaimed, Sp!Listed, Sp!Alive
<1>4. QED
  BY <1>1, <1>3 DEF Sp!SpawnSound, Herd

\* For any spots, monsters and rates, whether monsters leave, are convinced, die or are
\* removed, and in whatever order checkSpawn() and the game let go of them: a spot has one
\* monster, the list points to monsters that exist, a living monster on the list will report
\* its death, and nothing that was removed stays in memory for ever.
THEOREM SpawnCorrect == ASSUME Sp!SpawnAssumption PROVE Sp!Spec => []Sp!SpawnSound
<1>1. Sp!Init => Herd
  BY SpawnInit
<1>2. Herd /\ [Sp!Next]_(Sp!vars) => Herd'
  BY SpawnNext
<1>3. Herd => Sp!SpawnSound
  BY SpawnIsSound
<1>4. QED
  BY <1>1, <1>2, <1>3, PTL DEF Sp!Spec

-----------------------------------------------------------------------------
(* Raids: an instance beside the database                                  *)

CONSTANTS RaidNames, RefType, Length, Things

VARIABLES running, eventCount, nextEvent, refCount, raidOf

Ra == INSTANCE Raids

\* The things that refer to a raid.
Left(of, r) == {t \in Things : of[t] = r}

LEMMA SameSize == \A S : Ra!Cardinality(S) = Cardinality(S)
  BY DEF Ra!Cardinality, Cardinality

\* There are finitely many of them; n more or one fewer count as that.
LEMMA LeftCounted ==
  ASSUME Ra!RaidsAssumption, NEW of, NEW r
  PROVE  /\ IsFiniteSet(Left(of, r))
         /\ Cardinality(Left(of, r)) \in 0 .. Ra!Cardinality(Things)
<1>1. IsFiniteSet(Things)
  BY DEF Ra!RaidsAssumption, Ra!IsFiniteSet, IsFiniteSet
<1>2. Left(of, r) \subseteq Things
  BY DEF Left
<1>3. IsFiniteSet(Left(of, r)) /\ Cardinality(Left(of, r)) <= Cardinality(Things)
  BY <1>1, <1>2, FS_Subset
<1>4. Cardinality(Left(of, r)) \in Nat /\ Cardinality(Things) \in Nat
  BY <1>1, <1>3, FS_CardinalityType
<1> DEFINE i == Cardinality(Left(of, r))
           j == Cardinality(Things)
<1> HIDE DEF i, j
<1>5. i \in 0 .. j
  BY <1>3, <1>4 DEF i, j
<1>6. Ra!Cardinality(Things) = j
  BY SameSize DEF j
<1>7. QED
  BY <1>3, <1>5, <1>6 DEF i

LEMMA LeftMore ==
  ASSUME Ra!RaidsAssumption, NEW of, NEW r \in RaidNames,
         NEW new \in SUBSET Things, \A t \in new : of[t] = None
  PROVE  LET now == [t \in Things |-> IF t \in new THEN r ELSE of[t]]
         IN  /\ Cardinality(Left(now, r)) = Cardinality(Left(of, r)) + Cardinality(new)
             /\ \A s \in RaidNames : s # r => Left(now, s) = Left(of, s)
             /\ Cardinality(new) \in Nat
<1> DEFINE now == [t \in Things |-> IF t \in new THEN r ELSE of[t]]
<1>1. Left(now, r) = Left(of, r) \union new
  BY DEF Left
<1>2. Left(of, r) \cap new = {}
  BY DEF Left, Ra!RaidsAssumption
<1>3. IsFiniteSet(new)
  BY FS_Subset DEF Ra!RaidsAssumption, Ra!IsFiniteSet, IsFiniteSet
<1>4. IsFiniteSet(Left(of, r)) /\ Cardinality(Left(of, r)) \in Nat
  BY LeftCounted, FS_CardinalityType
<1>5. Cardinality(Left(of, r) \union new)
        = Cardinality(Left(of, r)) + Cardinality(new) - Cardinality(Left(of, r) \cap new)
  BY <1>3, <1>4, FS_Union
<1>6. Cardinality(Left(of, r) \cap new) = 0
  BY <1>2, FS_EmptySet
<1>7. Cardinality(new) \in Nat
  BY <1>3, FS_CardinalityType
<1>8. \A s \in RaidNames : s # r => Left(now, s) = Left(of, s)
  BY DEF Left, Ra!RaidsAssumption
<1>9. Cardinality(Left(now, r)) = Cardinality(Left(of, r)) + Cardinality(new)
  <2> HIDE DEF now
  <2>1. QED
    BY <1>1, <1>4, <1>5, <1>6, <1>7
<1>10. QED
  BY <1>7, <1>8, <1>9

LEMMA LeftFewer ==
  ASSUME Ra!RaidsAssumption, NEW of \in [Things -> RaidNames \union {None}], NEW t \in Things,
         of[t] # None
  PROVE  LET now == [of EXCEPT ![t] = None]
         IN  /\ Cardinality(Left(now, of[t])) = Cardinality(Left(of, of[t])) - 1
             /\ Cardinality(Left(of, of[t])) > 0
             /\ \A s \in RaidNames : s # of[t] => Left(now, s) = Left(of, s)
<1> DEFINE now == [of EXCEPT ![t] = None]
           r == of[t]
<1>1. Left(now, r) = Left(of, r) \ {t} /\ t \in Left(of, r)
  BY DEF Left
<1>2. \A s \in RaidNames : s # r => Left(now, s) = Left(of, s)
  BY DEF Left, Ra!RaidsAssumption
<1>3. IsFiniteSet(Left(of, r))
  BY LeftCounted
<1>4. /\ Cardinality(Left(of, r) \ {t}) = Cardinality(Left(of, r)) - 1
      /\ Cardinality(Left(of, r)) \in Nat /\ Cardinality(Left(of, r) \ {t}) \in Nat
  <2>1. IsFiniteSet(Left(of, r) \ {t})
    BY <1>3, FS_Difference
  <2>2. QED
    BY <1>1, <1>3, <2>1, FS_RemoveElement, FS_CardinalityType
<1>5. /\ Cardinality(Left(now, r)) = Cardinality(Left(of, r)) - 1
      /\ Cardinality(Left(of, r)) > 0
  <2> HIDE DEF now, r
  <2>1. QED
    BY <1>1, <1>4
<1>6. QED
  BY <1>2, <1>5

\* The references a raid counts are the things there are, so their number has its type.
LEMMA RaidsCount ==
  ASSUME Ra!RaidsAssumption, NEW counts, NEW of,
         counts \in [RaidNames -> Nat],
         \A r \in RaidNames : counts[r] = Cardinality(Left(of, r))
  PROVE  counts \in [RaidNames -> 0 .. Ra!Cardinality(Things)]
<1>1. \A r \in RaidNames : counts[r] \in 0 .. Ra!Cardinality(Things)
  BY LeftCounted
<1>2. QED
  BY <1>1

\* A thing's raid counts it.
Referred == \A r \in RaidNames : refCount[r] = Cardinality(Left(raidOf, r))

\* RaidsSound is inductive.
LEMMA RaidsInit == ASSUME Ra!RaidsAssumption, Ra!Init PROVE Ra!RaidsSound
<1>1. \A r \in RaidNames : Left(raidOf, r) = {}
  BY DEF Left, Ra!Init, Ra!RaidsAssumption
<1>2. Cardinality({}) = 0
  BY FS_EmptySet
<1>3. refCount \in [RaidNames -> Nat] /\ Referred
  BY <1>1, <1>2 DEF Ra!Init, Referred
<1>4. refCount \in [RaidNames -> 0 .. Ra!Cardinality(Things)]
  BY <1>3, RaidsCount DEF Referred
<1>5. Ra!RefsAreThings
  BY <1>3, SameSize DEF Referred, Left, Ra!RefsAreThings
<1>6. Ra!TypeOK
  BY <1>4 DEF Ra!Init, Ra!TypeOK, Ra!RaidsAssumption
<1>7. QED
  BY <1>5, <1>6 DEF Ra!Init, Ra!RaidsSound, Ra!RunningHasWork, Ra!OneAtATime,
     Ra!BeginsAtTheStart, Ra!BlockStays, Ra!RaidsAssumption

\* What the counts and the things do in a step keeps them in step with each other.
LEMMA RaidsStep ==
  ASSUME Ra!RaidsAssumption, Ra!RaidsSound, [Ra!Next]_(Ra!vars)
  PROVE  /\ refCount' \in [RaidNames -> Nat] /\ Referred'
         /\ raidOf' \in [Things -> RaidNames \union {None}]
<1> USE DEF Ra!RaidsSound, Ra!TypeOK
<1>1. Referred /\ refCount \in [RaidNames -> Nat]
  BY SameSize DEF Ra!RefsAreThings, Referred, Left
<1>2. CASE UNCHANGED <<refCount, raidOf>>
  BY <1>1, <1>2 DEF Referred
<1>3. CASE \E r \in RaidNames : Ra!ExecuteRaidEvent(r)
  <2>1. PICK r \in RaidNames, new \in SUBSET Things :
          Ra!Creates(r, new) /\ refCount' = [refCount EXCEPT ![r] = Ra!Counted(r, new)]
    BY <1>3 DEF Ra!ExecuteRaidEvent
  <2>2. \A t \in new : raidOf[t] = None
    BY <2>1 DEF Ra!Creates
  <2>3. /\ Cardinality(Left(raidOf', r)) = Cardinality(Left(raidOf, r)) + Cardinality(new)
        /\ \A s \in RaidNames : s # r => Left(raidOf', s) = Left(raidOf, s)
        /\ Cardinality(new) \in Nat
    BY <2>1, <2>2, LeftMore DEF Ra!Creates
  <2>4. refCount' = [refCount EXCEPT ![r] = refCount[r] + Cardinality(new)]
    BY <2>1, SameSize DEF Ra!Counted
  <2>5. refCount' \in [RaidNames -> Nat]
    BY <1>1, <2>3, <2>4
  <2>6. Referred'
    BY <1>1, <2>3, <2>4 DEF Referred
  <2>7. QED
    BY <2>1, <2>5, <2>6 DEF Ra!Creates
<1>4. CASE \E t \in Things : Ra!Unref(t)
  <2>1. PICK t \in Things : Ra!Unref(t)
    BY <1>4
  <2> DEFINE r == raidOf[t]
  <2>2. /\ r \in RaidNames /\ raidOf' = [raidOf EXCEPT ![t] = None]
        /\ refCount' = [refCount EXCEPT ![r] = refCount[r] - 1]
    BY <2>1 DEF Ra!Unref
  <2>3. /\ Cardinality(Left(raidOf', r)) = Cardinality(Left(raidOf, r)) - 1
        /\ Cardinality(Left(raidOf, r)) > 0
        /\ \A s \in RaidNames : s # r => Left(raidOf', s) = Left(raidOf, s)
    BY <2>2, LeftFewer DEF Ra!RaidsAssumption
  <2> HIDE DEF r
  <2>4. refCount' \in [RaidNames -> Nat]
    BY <1>1, <2>2, <2>3 DEF Referred
  <2>5. Referred'
    BY <1>1, <2>2, <2>3 DEF Referred
  <2>6. QED
    BY <2>2, <2>4, <2>5
<1>5. QED
  BY <1>2, <1>3, <1>4 DEF Ra!Next, Ra!Start, Ra!StartRaid, Ra!Busy, Ra!vars

LEMMA RaidsNext ==
  ASSUME Ra!RaidsAssumption, Ra!RaidsSound, [Ra!Next]_(Ra!vars) PROVE Ra!RaidsSound'
<1> DEFINE Course == /\ running \in RaidNames \union {None}
                     /\ eventCount \in [RaidNames -> Nat]
                     /\ \A r \in RaidNames : eventCount[r] <= Length[r]
                     /\ nextEvent \subseteq RaidNames
                     /\ Ra!RunningHasWork /\ Ra!OneAtATime /\ Ra!BeginsAtTheStart /\ Ra!BlockStays
<1>1. refCount' \in [RaidNames -> Nat] /\ Referred' /\ raidOf' \in [Things -> RaidNames \union {None}]
  BY RaidsStep
<1>2. Ra!RefsAreThings'
  BY <1>1, SameSize DEF Ra!RefsAreThings, Referred, Left
<1>3. refCount' \in [RaidNames -> 0 .. Ra!Cardinality(Things)]
  BY <1>1, RaidsCount DEF Referred
<1>4. Course'
  <2> USE <1>1 DEF Ra!RunningHasWork, Ra!OneAtATime, Ra!BeginsAtTheStart, Ra!BlockStays
  <2>1. Course /\ refCount \in [RaidNames -> Nat]
    BY DEF Ra!RaidsSound, Ra!TypeOK
  <2>2. CASE \E r \in RaidNames : Ra!Start(r)
    BY <2>1, <2>2 DEF Ra!Start, Ra!StartRaid, Ra!NoneRunning, Ra!Fresh, Ra!RaidsAssumption
  <2>3. CASE \E r \in RaidNames : Ra!ExecuteRaidEvent(r)
    <3>1. PICK r \in RaidNames, done \in BOOLEAN :
            /\ r \in nextEvent
            /\ \A s \in RaidNames : s # r => refCount'[s] = refCount[s]
            /\ IF done /\ eventCount[r] < Length[r]
                 THEN /\ eventCount' = [eventCount EXCEPT ![r] = @ + 1]
                      /\ UNCHANGED <<nextEvent, running>>
                 ELSE Ra!ResetRaid(r, refCount'[r])
      BY <2>1, <2>3 DEF Ra!ExecuteRaidEvent
    <3>2. running = r /\ nextEvent = {r}
      BY <2>1, <3>1
    <3>3. CASE /\ eventCount[r] < Length[r]
               /\ eventCount' = [eventCount EXCEPT ![r] = @ + 1]
               /\ UNCHANGED <<nextEvent, running>>
      BY <2>1, <3>1, <3>2, <3>3 DEF Ra!RaidsAssumption
    <3>4. CASE Ra!ResetRaid(r, refCount'[r])
      BY <2>1, <3>1, <3>2, <3>4 DEF Ra!ResetRaid, Ra!Ends, Ra!Rewinds, Ra!RaidsAssumption
    <3>5. QED
      BY <3>1, <3>3, <3>4
  <2>4. CASE \E t \in Things : Ra!Unref(t)
    <3>1. PICK t \in Things : Ra!Unref(t)
      BY <2>4
    <3> DEFINE r == raidOf[t]
    <3>2. /\ r \in RaidNames
          /\ refCount' = [refCount EXCEPT ![r] = @ - 1]
          /\ IF Ra!LastOne(r) THEN Ra!ResetRaid(r, 0)
                              ELSE UNCHANGED <<running, eventCount, nextEvent>>
      BY <3>1 DEF Ra!Unref, Ra!RaidsSound, Ra!TypeOK
    <3> HIDE DEF r
    <3>3. CASE Ra!LastOne(r) /\ Ra!ResetRaid(r, 0)
      BY <2>1, <3>2, <3>3 DEF Ra!LastOne, Ra!ResetRaid, Ra!Ends, Ra!Rewinds, Ra!RaidsAssumption
    <3>4. CASE ~Ra!LastOne(r) /\ UNCHANGED <<running, eventCount, nextEvent>>
      BY <2>1, <3>2, <3>4 DEF Ra!LastOne, Ra!RaidsAssumption
    <3>5. QED
      BY <3>2, <3>3, <3>4
  <2>5. CASE UNCHANGED Ra!vars
    BY <2>1, <2>5 DEF Ra!vars
  <2>6. QED
    BY <2>2, <2>3, <2>4, <2>5 DEF Ra!Next, Ra!Busy
<1>5. QED
  BY <1>1, <1>2, <1>3, <1>4 DEF Ra!RaidsSound, Ra!TypeOK

\* The raids of any number and length: one at a time, which somebody ends, and each begins
\* with its first event (RaidsSound of Raids, which RaidsGoOn of MCWorld checks).
THEOREM RaidsCorrect == ASSUME Ra!RaidsAssumption PROVE Ra!Spec => []Ra!RaidsSound
<1>1. Ra!Init => Ra!RaidsSound
  BY RaidsInit
<1>2. Ra!RaidsSound /\ [Ra!Next]_(Ra!vars) => Ra!RaidsSound'
  BY RaidsNext
<1>3. QED
  BY <1>1, <1>2, PTL DEF Ra!Spec

\* A raid starts only when no thing of it is left (SingleWaits of Raids).
THEOREM RaidsWait ==
  ASSUME Ra!RaidsAssumption PROVE Ra!Spec => [][Ra!SingleWaits]_(Ra!vars)
<1>1. ASSUME Ra!RaidsSound, [Ra!Next]_(Ra!vars) PROVE Ra!SingleWaits
  <2> SUFFICES ASSUME NEW r \in RaidNames, running # r, running' = r, NEW t \in Things, raidOf[t] = r
      PROVE  FALSE
    BY DEF Ra!SingleWaits
  <2>1. Ra!StartRaid(r)
    BY <1>1 DEF Ra!Next, Ra!Start, Ra!StartRaid, Ra!ExecuteRaidEvent, Ra!Unref, Ra!ResetRaid,
       Ra!Busy, Ra!vars, Ra!RaidsAssumption
  <2>2. Cardinality(Left(raidOf, r)) = 0
    BY <1>1, <2>1, SameSize DEF Ra!StartRaid, Ra!Fresh, Ra!RaidsSound, Ra!RefsAreThings, Left
  <2>3. Left(raidOf, r) = {}
    BY <2>2, LeftCounted, FS_EmptySet
  <2>4. QED
    BY <2>3 DEF Left
<1>2. Ra!RaidsSound /\ [Ra!Next]_(Ra!vars) => [Ra!SingleWaits]_(Ra!vars)
  BY <1>1
<1>3. QED
  BY <1>2, RaidsCorrect, PTL DEF Ra!Spec

-----------------------------------------------------------------------------
(* The events of a walk: an instance beside the database                   *)

CONSTANTS MaxPath, MaxCommands, MaxQueue
VARIABLES w, queue, commands

We == INSTANCE WalkEvents

\* A player between two tasks or, with "run", within one; stray has no bound here.
Person == [path : 0 .. MaxPath, own : {"no", "sched", "queue", "run", "lost"},
           stray : Nat, task : BOOLEAN, act : 0 .. 1,
           alive : BOOLEAN, fast : BOOLEAN, late : BOOLEAN]

\* There is one action at most.
Single(r) == r.task => r.act = 0

\* He goes on, unless he is at it.
Walks(r) ==
  /\ r.path > 0 /\ r.fast /\ r.own \notin {"lost", "run"} => r.own \in {"sched", "queue"}
  /\ ~r.fast => r.own \notin {"sched", "queue"}

\* What an assignment to fields of a player leaves as it is.
LEMMA SetPath ==
  ASSUME NEW r \in Person, NEW x0 \in 0 .. MaxPath
  PROVE  LET t == [r EXCEPT !.path = x0]
         IN  /\ t \in Person
             /\ t.path = x0
             /\ t.own = r.own /\ t.stray = r.stray /\ (t.task <=> r.task) /\ t.act = r.act
             /\ (t.alive <=> r.alive) /\ (t.fast <=> r.fast) /\ (t.late <=> r.late)
BY DEF Person

LEMMA SetOwn ==
  ASSUME NEW r \in Person, NEW x0 \in {"no", "sched", "queue", "run", "lost"}
  PROVE  LET t == [r EXCEPT !.own = x0]
         IN  /\ t \in Person
             /\ t.own = x0
             /\ t.path = r.path /\ t.stray = r.stray /\ (t.task <=> r.task) /\ t.act = r.act
             /\ (t.alive <=> r.alive) /\ (t.fast <=> r.fast) /\ (t.late <=> r.late)
BY DEF Person

LEMMA SetOwnLate ==
  ASSUME NEW r \in Person, NEW x0 \in {"no", "sched", "queue", "run", "lost"}, NEW x1 \in BOOLEAN
  PROVE  LET t == [r EXCEPT !.own = x0, !.late = x1]
         IN  /\ t \in Person
             /\ t.own = x0 /\ (t.late <=> x1)
             /\ t.path = r.path /\ t.stray = r.stray /\ (t.task <=> r.task) /\ t.act = r.act
             /\ (t.alive <=> r.alive) /\ (t.fast <=> r.fast)
BY DEF Person

LEMMA SetStray ==
  ASSUME NEW r \in Person, NEW x0 \in Nat
  PROVE  LET t == [r EXCEPT !.stray = x0]
         IN  /\ t \in Person
             /\ t.stray = x0
             /\ t.path = r.path /\ t.own = r.own /\ (t.task <=> r.task) /\ t.act = r.act
             /\ (t.alive <=> r.alive) /\ (t.fast <=> r.fast) /\ (t.late <=> r.late)
BY DEF Person

LEMMA SetAct ==
  ASSUME NEW r \in Person, NEW x0 \in 0 .. 1
  PROVE  LET t == [r EXCEPT !.act = x0]
         IN  /\ t \in Person
             /\ t.act = x0
             /\ t.path = r.path /\ t.own = r.own /\ t.stray = r.stray /\ (t.task <=> r.task)
             /\ (t.alive <=> r.alive) /\ (t.fast <=> r.fast) /\ (t.late <=> r.late)
BY DEF Person

LEMMA SetTask ==
  ASSUME NEW r \in Person, NEW x0 \in BOOLEAN, NEW x1 \in 0 .. 1
  PROVE  LET t == [r EXCEPT !.task = x0, !.act = x1]
         IN  /\ t \in Person
             /\ (t.task <=> x0) /\ t.act = x1
             /\ t.path = r.path /\ t.own = r.own /\ t.stray = r.stray /\ (t.alive <=> r.alive)
             /\ (t.fast <=> r.fast) /\ (t.late <=> r.late)
BY DEF Person

LEMMA Tasked ==
  ASSUME NEW r \in Person
  PROVE  LET t == [r EXCEPT !.task = TRUE, !.act = 0]
         IN  /\ t \in Person
             /\ t.task /\ t.act = 0
             /\ t.path = r.path /\ t.own = r.own /\ t.stray = r.stray
             /\ (t.alive <=> r.alive) /\ (t.fast <=> r.fast) /\ (t.late <=> r.late)
<1> DEFINE a == TRUE
           n == 0
           t == [r EXCEPT !.task = a, !.act = n]
<1>1. a \in BOOLEAN /\ n \in 0 .. 1
  OBVIOUS
<1> HIDE DEF a, n
<1>2. /\ t \in Person /\ (t.task <=> a) /\ t.act = n
      /\ t.path = r.path /\ t.own = r.own /\ t.stray = r.stray
      /\ (t.alive <=> r.alive) /\ (t.fast <=> r.fast) /\ (t.late <=> r.late)
  BY <1>1 DEF Person
<1> DEFINE u == [r EXCEPT !.task = TRUE, !.act = 0]
<1>3. t = u /\ (a <=> TRUE) /\ n = 0
  BY DEF a, n
<1> HIDE DEF t, u
<1>4. /\ u \in Person
      /\ u.task /\ u.act = 0
      /\ u.path = r.path /\ u.own = r.own /\ u.stray = r.stray
      /\ (u.alive <=> r.alive) /\ (u.fast <=> r.fast) /\ (u.late <=> r.late)
  BY <1>2, <1>3, Zenon
<1>5. QED
  BY <1>4, Zenon DEF u

LEMMA Forgets ==
  ASSUME NEW r \in Person
  PROVE  LET t == [r EXCEPT !.task = FALSE, !.act = 0]
         IN  /\ t \in Person
             /\ ~t.task /\ t.act = 0
             /\ t.path = r.path /\ t.own = r.own /\ t.stray = r.stray
             /\ (t.alive <=> r.alive) /\ (t.fast <=> r.fast) /\ (t.late <=> r.late)
<1> DEFINE a == FALSE
           n == 0
           t == [r EXCEPT !.task = a, !.act = n]
<1>1. a \in BOOLEAN /\ n \in 0 .. 1
  OBVIOUS
<1> HIDE DEF a, n
<1>2. /\ t \in Person /\ (t.task <=> a) /\ t.act = n
      /\ t.path = r.path /\ t.own = r.own /\ t.stray = r.stray
      /\ (t.alive <=> r.alive) /\ (t.fast <=> r.fast) /\ (t.late <=> r.late)
  BY <1>1 DEF Person
<1> DEFINE u == [r EXCEPT !.task = FALSE, !.act = 0]
<1>3. t = u /\ (a <=> FALSE) /\ n = 0
  BY Zenon DEF a, n
<1> HIDE DEF t, u
<1>4. /\ u \in Person
      /\ ~u.task /\ u.act = 0
      /\ u.path = r.path /\ u.own = r.own /\ u.stray = r.stray
      /\ (u.alive <=> r.alive) /\ (u.fast <=> r.fast) /\ (u.late <=> r.late)
  BY <1>2, <1>3, Zenon
<1>5. QED
  BY <1>4, Zenon DEF u

LEMMA SetLate ==
  ASSUME NEW r \in Person, NEW x0 \in BOOLEAN
  PROVE  LET t == [r EXCEPT !.late = x0]
         IN  /\ t \in Person
             /\ (t.late <=> x0)
             /\ t.path = r.path /\ t.own = r.own /\ t.stray = r.stray /\ (t.task <=> r.task)
             /\ t.act = r.act /\ (t.alive <=> r.alive) /\ (t.fast <=> r.fast)
BY DEF Person

LEMMA SetAlive ==
  ASSUME NEW r \in Person, NEW x0 \in BOOLEAN
  PROVE  LET t == [r EXCEPT !.alive = x0]
         IN  /\ t \in Person
             /\ (t.alive <=> x0)
             /\ t.path = r.path /\ t.own = r.own /\ t.stray = r.stray /\ (t.task <=> r.task)
             /\ t.act = r.act /\ (t.fast <=> r.fast) /\ (t.late <=> r.late)
BY DEF Person

LEMMA SetFast ==
  ASSUME NEW r \in Person, NEW x0 \in BOOLEAN
  PROVE  LET t == [r EXCEPT !.fast = x0]
         IN  /\ t \in Person
             /\ (t.fast <=> x0)
             /\ t.path = r.path /\ t.own = r.own /\ t.stray = r.stray /\ (t.task <=> r.task)
             /\ t.act = r.act /\ (t.alive <=> r.alive) /\ (t.late <=> r.late)
BY DEF Person

LEMMA AddEventWalkShape ==
  ASSUME NEW r \in Person, Single(r), ~r.fast => r.own \notin {"sched", "queue"}
  PROVE  LET t == We!AddEventWalk(r)
         IN  /\ t \in Person /\ Single(t)
             /\ t.own = IF r.own = "no" /\ r.fast THEN "sched" ELSE r.own
             /\ ~t.fast => t.own \notin {"sched", "queue"}
             /\ t.path = r.path /\ t.stray = r.stray
             /\ (t.fast <=> r.fast) /\ (t.late <=> r.late) /\ (t.alive <=> r.alive)
BY DEF We!AddEventWalk, Person, Single

LEMMA StopEventWalkShape ==
  ASSUME MaxPath \in Nat, NEW r \in Person, Single(r)
  PROVE  LET t == We!StopEventWalk(r)
         IN  /\ t \in Person /\ Single(t)
             /\ t.own = "no"
             /\ t.path = IF r.own = "no" THEN r.path ELSE 0
             /\ t.stray = r.stray
             /\ (t.fast <=> r.fast) /\ (t.late <=> r.late \/ r.own = "queue")
             /\ (t.alive <=> r.alive)
<1> DEFINE t == We!StopEventWalk(r)
           b == r.late \/ r.own = "queue"
           s == [r EXCEPT !.own = "no", !.late = b]
           u == [s EXCEPT !.path = 0]
           v == [u EXCEPT !.task = FALSE, !.act = 0]
<1>1. t = IF r.own = "no" THEN r ELSE IF r.path = 0 THEN s ELSE v
  BY DEF We!StopEventWalk, We!SetNextWalkAction
<1>2. b \in BOOLEAN /\ (b <=> r.late \/ r.own = "queue")
  BY DEF Person
<1> HIDE DEF b, t
<1>3. /\ s \in Person /\ s.own = "no" /\ s.path = r.path /\ s.stray = r.stray /\ s.act = r.act
      /\ (s.late <=> b) /\ (s.fast <=> r.fast) /\ (s.alive <=> r.alive) /\ (s.task <=> r.task)
  BY <1>2 DEF Person
<1> HIDE DEF s
<1>4. /\ u \in Person /\ u.own = "no" /\ u.path = 0 /\ u.stray = r.stray
      /\ (u.late <=> b) /\ (u.fast <=> r.fast) /\ (u.alive <=> r.alive)
  <2>1. 0 \in 0 .. MaxPath
    OBVIOUS
  <2>2. QED
    BY <1>3, <2>1, SetPath
<1> HIDE DEF u
<1>5. /\ v \in Person /\ v.own = "no" /\ v.path = 0 /\ v.stray = r.stray /\ v.act = 0
      /\ (v.late <=> b) /\ (v.fast <=> r.fast) /\ (v.alive <=> r.alive)
  <2>2. /\ v \in Person /\ v.own = u.own /\ v.path = u.path /\ v.stray = u.stray /\ v.act = 0
        /\ (v.late <=> u.late) /\ (v.fast <=> u.fast) /\ (v.alive <=> u.alive)
    BY <1>4, Forgets
  <2>3. QED
    BY <1>4, <2>2
<1> HIDE DEF v
<1> DEFINE Good == /\ t \in Person /\ Single(t) /\ t.own = "no"
                   /\ t.path = IF r.own = "no" THEN r.path ELSE 0
                   /\ t.stray = r.stray
                   /\ (t.fast <=> r.fast) /\ (t.late <=> r.late \/ r.own = "queue")
                   /\ (t.alive <=> r.alive)
<1>6. ASSUME r.own = "no" PROVE Good
  <2>1. t = r
    BY <1>1, <1>6
  <2>2. QED
    BY <1>6, <2>1
<1>7. ASSUME r.own # "no", r.path = 0 PROVE Good
  <2>1. t = s
    BY <1>1, <1>7
  <2>2. Single(s)
    BY <1>3 DEF Single
  <2>3. QED
    BY <1>2, <1>3, <1>7, <2>1, <2>2
<1>8. ASSUME r.own # "no", r.path # 0 PROVE Good
  <2>1. t = v
    BY <1>1, <1>8
  <2>2. Single(v)
    BY <1>5 DEF Single
  <2>3. QED
    BY <1>2, <1>5, <1>8, <2>1, <2>2
<1>9. Good
  BY <1>6, <1>7, <1>8
<1>10. QED
  BY <1>9 DEF t

LEMMA OnWalkCompleteShape ==
  ASSUME NEW r \in Person, Single(r)
  PROVE  LET t == We!OnWalkComplete(r)
         IN  /\ t \in Person /\ Single(t)
             /\ t.path = r.path /\ t.own = r.own /\ t.stray = r.stray
             /\ (t.fast <=> r.fast) /\ (t.late <=> r.late) /\ (t.alive <=> r.alive)
<1>1. CASE r.task
  <2>1. r.act = 0
    BY <1>1 DEF Single
  <2> DEFINE t == [r EXCEPT !.task = FALSE, !.act = 1]
  <2>2. We!OnWalkComplete(r) = t
    BY <1>1, <2>1 DEF We!OnWalkComplete
  <2>3. /\ t \in Person /\ (t.task <=> FALSE)
        /\ t.path = r.path /\ t.own = r.own /\ t.stray = r.stray
        /\ (t.fast <=> r.fast) /\ (t.late <=> r.late) /\ (t.alive <=> r.alive)
    <3>1. FALSE \in BOOLEAN /\ 1 \in 0 .. 1
      OBVIOUS
    <3>2. QED
      BY <3>1, SetTask, ZenonT(60)
  <2> HIDE DEF t
  <2>4. Single(t)
    BY <2>3 DEF Single
  <2>5. QED
    BY <2>2, <2>3, <2>4
<1>2. CASE ~r.task
  BY <1>2 DEF We!OnWalkComplete
<1>3. QED
  BY <1>1, <1>2

\* A walk that starts: how far, and by which event.
LEMMA StartAutoWalkShape ==
  ASSUME MaxPath \in Nat, NEW r \in Person, Single(r), ~r.fast => r.own \notin {"sched", "queue"}
  PROVE  LET t == We!StartAutoWalk(r, MaxPath)
         IN  /\ t \in Person /\ Single(t)
             /\ t.own = IF r.own = "no" /\ r.fast THEN "sched" ELSE r.own
             /\ ~t.fast => t.own \notin {"sched", "queue"}
             /\ t.path = MaxPath /\ t.stray = r.stray
             /\ (t.fast <=> r.fast) /\ (t.late <=> r.late) /\ (t.alive <=> r.alive)
<1> DEFINE s == [r EXCEPT !.path = MaxPath]
<1>1. /\ s \in Person /\ s.path = MaxPath /\ s.own = r.own /\ s.stray = r.stray /\ s.act = r.act
      /\ (s.fast <=> r.fast) /\ (s.late <=> r.late) /\ (s.alive <=> r.alive) /\ (s.task <=> r.task)
  BY DEF Person
<1>2. We!StartAutoWalk(r, MaxPath) = We!AddEventWalk(s)
  BY DEF We!StartAutoWalk
<1> HIDE DEF s
<1>3. Single(s) /\ (~s.fast => s.own \notin {"sched", "queue"})
  BY <1>1 DEF Single
<1>4. QED
  BY <1>1, <1>2, <1>3, AddEventWalkShape

\* Player::stopWalk()
LEMMA StopWalkShape ==
  ASSUME MaxPath \in Nat, NEW r \in Person, Single(r)
  PROVE  LET t == We!StopWalk(r)
         IN  /\ t \in Person /\ Single(t)
             /\ IF r.path = 0 THEN t = r ELSE t.own = "no"
             /\ r.path # 0 => t.path = IF r.own = "no" THEN r.path ELSE 0
             /\ t.stray = r.stray
             /\ (t.fast <=> r.fast) /\ (t.alive <=> r.alive)
             /\ (r.late => t.late)
             /\ r.path # 0 /\ r.own = "queue" => t.late
<1>1. CASE r.path = 0
  BY <1>1 DEF We!StopWalk
<1>2. CASE r.path # 0
  BY <1>2, StopEventWalkShape DEF We!StopWalk
<1>3. QED
  BY <1>1, <1>2

\* A player whose step is made, before his event is added again.
Stepped(r, m, step) ==
  /\ m \in Person /\ Single(m)
  /\ ~m.fast => m.own \notin {"sched", "queue"}
  /\ m.own = "no" /\ m.path > 0 => ~m.fast
  /\ m.own = "sched" => r.own = "sched" \/ (step = "script" /\ m.late)
  /\ m.stray = r.stray /\ (r.late => m.late) /\ (m.alive <=> r.alive)

LEMMA StepShape ==
  ASSUME MaxPath \in Nat, NEW r \in Person, Single(r), Walks(r), r.path # 0,
         NEW step \in {"plain", "teleport", "script"}
  PROVE  LET s == [r EXCEPT !.path = @ - 1]
         IN  /\ step = "plain" => Stepped(r, s, step)
             /\ step = "teleport" => Stepped(r, We!StopEventWalk(s), step)
             /\ step = "script" =>
                  Stepped(r, [We!StartAutoWalk(We!StopEventWalk(s), MaxPath) EXCEPT !.late = TRUE],
                          step)
<1> DEFINE s == [r EXCEPT !.path = @ - 1]
           a == We!StopEventWalk(s)
           b == We!StartAutoWalk(a, MaxPath)
           c == [b EXCEPT !.late = TRUE]
<1>1. /\ s \in Person /\ s.path = r.path - 1 /\ s.own = r.own /\ s.stray = r.stray
      /\ s.act = r.act /\ (s.task <=> r.task)
      /\ (s.fast <=> r.fast) /\ (s.late <=> r.late) /\ (s.alive <=> r.alive)
  <2>1. r.path - 1 \in 0 .. MaxPath /\ s = [r EXCEPT !.path = r.path - 1]
    BY DEF Person
  <2>2. QED
    BY <2>1, SetPath
<1> HIDE DEF s
<1>2. Single(s) /\ s.path \in Nat /\ r.path \in Nat
  BY <1>1 DEF Single, Person
<1>3. /\ ~r.fast => r.own \notin {"sched", "queue"}
      /\ r.own = "no" => ~r.fast
  BY <1>2 DEF Walks
<1>4. Stepped(r, s, step)
  BY <1>1, <1>2, <1>3 DEF Stepped
<1>5. /\ a \in Person /\ Single(a) /\ a.own = "no"
      /\ a.path = (IF r.own = "no" THEN s.path ELSE 0)
      /\ a.stray = r.stray /\ (a.fast <=> r.fast) /\ (r.late => a.late) /\ (a.alive <=> r.alive)
  BY <1>1, <1>2, StopEventWalkShape
<1> HIDE DEF a
<1>6. Stepped(r, a, step)
  BY <1>3, <1>5 DEF Stepped
<1>7. /\ b \in Person /\ Single(b) /\ b.own = (IF r.fast THEN "sched" ELSE "no")
      /\ b.stray = r.stray /\ (b.fast <=> r.fast) /\ (b.alive <=> r.alive)
  BY <1>5, StartAutoWalkShape
<1> HIDE DEF b
<1>8. /\ c \in Person /\ c.own = b.own /\ c.stray = b.stray /\ c.act = b.act
      /\ (c.task <=> b.task) /\ (c.fast <=> b.fast) /\ c.late /\ (c.alive <=> b.alive)
  <2>1. TRUE \in BOOLEAN
    OBVIOUS
  <2>2. QED
    BY <1>7, <2>1, SetLate, Zenon
<1> HIDE DEF c
<1>9. ASSUME step = "script" PROVE Stepped(r, c, step)
  <2>1. Single(c)
    BY <1>7, <1>8 DEF Single
  <2>2. QED
    BY <1>7, <1>8, <1>9, <2>1 DEF Stepped
<1>10. QED
  BY <1>4, <1>6, <1>9 DEF s, a, b, c

\* A walk event: afterwards eventWalk names the next one, or none.
LEMMA OnWalkShape ==
  ASSUME MaxPath \in Nat, NEW r \in Person, Single(r), Walks(r),
         NEW step \in {"plain", "teleport", "script"}
  PROVE  LET t == We!OnWalk(r, step)
         IN  /\ t \in Person /\ Single(t) /\ Walks(t)
             /\ t.own \in {"no", "sched"}
             /\ \/ t.stray = r.stray
                \/ t.stray = r.stray + 1 /\ (r.own = "sched" \/ (step = "script" /\ t.late))
             /\ (r.late => t.late) /\ (t.alive <=> r.alive)
<1> DEFINE s == [r EXCEPT !.path = @ - 1]
           moved == IF r.path = 0 THEN r
                    ELSE CASE step = "plain" -> s
                           [] step = "teleport" -> We!StopEventWalk(s)
                           [] step = "script" ->
                                [We!StartAutoWalk(We!StopEventWalk(s), MaxPath) EXCEPT !.late = TRUE]
           done == IF moved.path = 0 THEN We!OnWalkComplete(moved) ELSE moved
           z == [done EXCEPT !.own = "no"]
           again == We!AddEventWalk(z)
           y == [again EXCEPT !.stray = @ + 1]
           t == We!OnWalk(r, step)
<1>1. t = IF done.own = "no" THEN done ELSE IF done.own = "sched" THEN y ELSE again
  BY DEF We!OnWalk
<1>2. Stepped(r, moved, step)
  <2>1. CASE r.path = 0
    <3>1. Stepped(r, r, step)
      BY <2>1 DEF Stepped, Walks
    <3>2. QED
      BY <2>1, <3>1
  <2>2. CASE r.path # 0
    <3>1. CASE step = "plain"
      BY <2>2, <3>1, StepShape
    <3>2. CASE step = "teleport"
      BY <2>2, <3>2, StepShape
    <3>3. CASE step = "script"
      BY <2>2, <3>3, StepShape
    <3>4. QED
      BY <3>1, <3>2, <3>3
  <2>3. QED
    BY <2>1, <2>2
<1> HIDE DEF moved, t, s
<1>3. Stepped(r, done, step)
  <2>1. moved \in Person /\ Single(moved)
    BY <1>2 DEF Stepped
  <2>2. LET d == We!OnWalkComplete(moved)
        IN  /\ d \in Person /\ Single(d)
            /\ d.path = moved.path /\ d.own = moved.own /\ d.stray = moved.stray
            /\ (d.fast <=> moved.fast) /\ (d.late <=> moved.late) /\ (d.alive <=> moved.alive)
    BY <2>1, OnWalkCompleteShape
  <2> HIDE DEF done
  <2>3. Stepped(r, We!OnWalkComplete(moved), step)
    BY <1>2, <2>2 DEF Stepped
  <2>4. done = We!OnWalkComplete(moved) \/ done = moved
    BY DEF done
  <2>5. QED
    BY <1>2, <2>3, <2>4
<1> HIDE DEF done
<1>4. /\ z \in Person /\ z.own = "no" /\ z.path = done.path /\ z.stray = done.stray
      /\ z.act = done.act /\ (z.task <=> done.task)
      /\ (z.fast <=> done.fast) /\ (z.late <=> done.late) /\ (z.alive <=> done.alive)
  BY <1>3, SetOwn DEF Stepped
<1> HIDE DEF z
<1>5. Single(z)
  BY <1>3, <1>4 DEF Single, Stepped
<1>6. /\ again \in Person /\ Single(again)
      /\ again.own = (IF done.fast THEN "sched" ELSE "no")
      /\ again.path = done.path /\ again.stray = done.stray
      /\ (again.fast <=> done.fast) /\ (again.late <=> done.late) /\ (again.alive <=> done.alive)
  BY <1>4, <1>5, AddEventWalkShape
<1> HIDE DEF again
<1>7. Walks(again)
  BY <1>6 DEF Walks
<1>8. /\ y \in Person /\ y.stray = again.stray + 1 /\ y.own = again.own /\ y.path = again.path
      /\ y.act = again.act /\ (y.task <=> again.task)
      /\ (y.fast <=> again.fast) /\ (y.late <=> again.late) /\ (y.alive <=> again.alive)
  <2>1. again.stray + 1 \in Nat /\ y = [again EXCEPT !.stray = again.stray + 1]
    BY <1>6 DEF Person
  <2>2. QED
    BY <1>6, <2>1, SetStray
<1> HIDE DEF y
<1>9. Single(y) /\ Walks(y)
  BY <1>6, <1>7, <1>8 DEF Single, Walks
<1> DEFINE Good == /\ t \in Person /\ Single(t) /\ Walks(t)
                   /\ t.own \in {"no", "sched"}
                   /\ \/ t.stray = r.stray
                      \/ t.stray = r.stray + 1 /\ (r.own = "sched" \/ (step = "script" /\ t.late))
                   /\ (r.late => t.late) /\ (t.alive <=> r.alive)
<1>10. ASSUME done.own = "no" PROVE Good
  <2>1. t = done /\ Walks(done)
    BY <1>1, <1>3, <1>10 DEF Stepped, Walks
  <2>2. QED
    BY <1>3, <1>10, <2>1 DEF Stepped
<1>11. ASSUME done.own = "sched" PROVE Good
  <2>1. t = y
    BY <1>1, <1>11
  <2>2. QED
    BY <1>3, <1>6, <1>8, <1>9, <1>11, <2>1 DEF Stepped
<1>12. ASSUME done.own \notin {"no", "sched"} PROVE Good
  <2>1. t = again
    BY <1>1, <1>12
  <2>2. QED
    BY <1>3, <1>6, <1>7, <2>1 DEF Stepped
<1>13. Good
  BY <1>10, <1>11, <1>12
<1>14. QED
  BY <1>13 DEF t

-----------------------------------------------------------------------------
(* The list of the dispatcher                                              *)

\* The places of what may leave an event behind.
Bad(q) == {i \in DOMAIN q : q[i] \in {"stray", "stop", "move"}}

HasStray(q) == \E i \in DOMAIN q : q[i] = "stray"

\* The event of the player is in the list once, or not at all.
Line(q, has) ==
  /\ q \in Seq(We!Token)
  /\ has <=> \E i \in DOMAIN q : q[i] = "own"
  /\ \A i, j \in DOMAIN q : q[i] = "own" /\ q[j] = "own" => i = j

LEMMA BadFinite ==
  ASSUME NEW q \in Seq(We!Token)
  PROVE  IsFiniteSet(Bad(q)) /\ Cardinality(Bad(q)) \in Nat
<1>1. Bad(q) \subseteq 1 .. Len(q)
  BY DEF Bad
<1>2. IsFiniteSet(1 .. Len(q))
  BY FS_Interval
<1>3. QED
  BY <1>1, <1>2, FS_Subset, FS_CardinalityType

LEMMA BadAppend ==
  ASSUME NEW q \in Seq(We!Token), NEW t \in We!Token
  PROVE  Cardinality(Bad(Append(q, t))) =
           Cardinality(Bad(q)) + (IF t \in {"stray", "stop", "move"} THEN 1 ELSE 0)
<1> DEFINE p == Append(q, t)
           k == Len(q) + 1
<1>1. /\ Len(q) \in Nat /\ DOMAIN q = 1 .. Len(q) /\ DOMAIN p = 1 .. k /\ p[k] = t
      /\ \A i \in 1 .. Len(q) : p[i] = q[i]
  OBVIOUS
<1> HIDE DEF p
<1>2. Bad(p) = IF t \in {"stray", "stop", "move"} THEN Bad(q) \cup {k} ELSE Bad(q)
  BY <1>1 DEF Bad
<1>3. k \notin Bad(q)
  BY <1>1 DEF Bad
<1>4. IsFiniteSet(Bad(q)) /\ Cardinality(Bad(q)) \in Nat
  BY BadFinite
<1>5. Cardinality(Bad(q) \cup {k}) = Cardinality(Bad(q)) + 1
  BY <1>3, <1>4, FS_AddElement
<1>6. QED
  BY <1>2, <1>4, <1>5 DEF p

LEMMA LineAppend ==
  ASSUME NEW q, NEW has, Line(q, has), NEW t \in We!Token, t = "own" => ~has
  PROVE  /\ Line(Append(q, t), has \/ t = "own")
         /\ Len(Append(q, t)) = Len(q) + 1
         /\ HasStray(Append(q, t)) => HasStray(q) \/ t = "stray"
<1> DEFINE p == Append(q, t)
           k == Len(q) + 1
<1>1. q \in Seq(We!Token)
  BY DEF Line
<1>2. /\ Len(q) \in Nat /\ DOMAIN q = 1 .. Len(q) /\ DOMAIN p = 1 .. k /\ p[k] = t
      /\ \A i \in 1 .. Len(q) : p[i] = q[i]
      /\ p \in Seq(We!Token) /\ Len(p) = k
  BY <1>1
<1> HIDE DEF p
<1>3. Line(p, has \/ t = "own")
  BY <1>2 DEF Line
<1>4. HasStray(p) => HasStray(q) \/ t = "stray"
  BY <1>2 DEF HasStray
<1>5. QED
  BY <1>2, <1>3, <1>4 DEF p

LEMMA TailPlaces ==
  ASSUME NEW q \in Seq(We!Token), q # <<>>
  PROVE  /\ Len(q) \in Nat /\ Len(q) >= 1 /\ Head(q) = q[1] /\ Head(q) \in We!Token
         /\ DOMAIN q = 1 .. Len(q) /\ DOMAIN Tail(q) = 1 .. Len(q) - 1
         /\ Tail(q) \in Seq(We!Token) /\ Len(Tail(q)) = Len(q) - 1
         /\ \A i \in 1 .. Len(q) - 1 : Tail(q)[i] = q[i + 1]
OBVIOUS

LEMMA BadTail ==
  ASSUME NEW q \in Seq(We!Token), q # <<>>
  PROVE  Cardinality(Bad(q)) =
           Cardinality(Bad(Tail(q))) + (IF Head(q) \in {"stray", "stop", "move"} THEN 1 ELSE 0)
<1> DEFINE p == Tail(q)
           B == Bad(q) \ {1}
           f == [i \in Bad(p) |-> i + 1]
<1>1. /\ Len(q) \in Nat /\ Len(q) >= 1 /\ Head(q) = q[1]
      /\ DOMAIN q = 1 .. Len(q) /\ DOMAIN p = 1 .. Len(q) - 1 /\ p \in Seq(We!Token)
      /\ \A i \in 1 .. Len(q) - 1 : p[i] = q[i + 1]
  BY TailPlaces
<1> HIDE DEF p
<1>2. IsFiniteSet(Bad(p)) /\ Cardinality(Bad(p)) \in Nat
  BY <1>1, BadFinite
<1>3. \A i \in Bad(p) : i \in Nat /\ i >= 1 /\ i + 1 \in B
  BY <1>1 DEF Bad
<1>4. \A j \in B : j - 1 \in Bad(p) /\ j \in Nat
  BY <1>1 DEF Bad
<1>5. f \in Bijection(Bad(p), B)
  <2>1. f \in [Bad(p) -> B]
    BY <1>3
  <2>2. \A i, j \in Bad(p) : f[i] = f[j] => i = j
    BY <1>3
  <2>3. \A j \in B : \E i \in Bad(p) : f[i] = j
    <3>1. TAKE j \in B
    <3>2. j - 1 \in Bad(p) /\ f[j - 1] = j
      BY <1>4
    <3>3. QED
      BY <3>2
  <2> HIDE DEF f, B
  <2>4. QED
    BY <2>1, <2>2, <2>3 DEF Bijection, Injection, Surjection, IsInjective
<1>6. Cardinality(B) = Cardinality(Bad(p)) /\ IsFiniteSet(B)
  BY <1>2, <1>5, FS_Bijection DEF ExistsBijection
<1>7. Bad(q) = IF Head(q) \in {"stray", "stop", "move"} THEN B \cup {1} ELSE B
  BY <1>1 DEF Bad
<1>8. 1 \notin B
  OBVIOUS
<1> HIDE DEF B
<1>9. Cardinality(B \cup {1}) = Cardinality(B) + 1
  BY <1>6, <1>8, FS_AddElement
<1>10. QED
  BY <1>2, <1>6, <1>7, <1>9 DEF p

LEMMA LineTail ==
  ASSUME NEW q, NEW has, Line(q, has), q # <<>>
  PROVE  /\ Line(Tail(q), has /\ Head(q) # "own")
         /\ Len(Tail(q)) = Len(q) - 1 /\ Len(q) \in Nat
         /\ HasStray(Tail(q)) => HasStray(q)
<1> DEFINE p == Tail(q)
<1>1. q \in Seq(We!Token)
  BY DEF Line
<1>2. /\ Len(q) \in Nat /\ Len(q) >= 1 /\ Head(q) = q[1]
      /\ DOMAIN q = 1 .. Len(q) /\ DOMAIN p = 1 .. Len(q) - 1 /\ p \in Seq(We!Token)
      /\ \A i \in 1 .. Len(q) - 1 : p[i] = q[i + 1]
      /\ Len(p) = Len(q) - 1
  BY <1>1, TailPlaces
<1> HIDE DEF p
<1>3. \A i \in 1 .. Len(q) - 1 : i \in Nat /\ i + 1 \in DOMAIN q /\ i + 1 # 1
  BY <1>2
<1>4. \A j \in DOMAIN q : j # 1 => j - 1 \in DOMAIN p /\ p[j - 1] = q[j]
  BY <1>2
<1>5. \A i, j \in DOMAIN p : p[i] = "own" /\ p[j] = "own" => i = j
  BY <1>2, <1>3, SMTT(60) DEF Line
<1>6. ASSUME has, Head(q) # "own" PROVE \E i \in DOMAIN p : p[i] = "own"
  BY <1>2, <1>4, <1>6 DEF Line
<1>7. ASSUME NEW i \in DOMAIN p, p[i] = "own" PROVE has /\ Head(q) # "own"
  <2>1. i + 1 \in DOMAIN q /\ q[i + 1] = "own" /\ i + 1 # 1 /\ 1 \in DOMAIN q
    BY <1>2, <1>3, <1>7
  <2>2. QED
    BY <1>2, <2>1 DEF Line
<1>8. Line(p, has /\ Head(q) # "own")
  BY <1>2, <1>5, <1>6, <1>7 DEF Line
<1>9. HasStray(p) => HasStray(q)
  BY <1>2, <1>3 DEF HasStray
<1>10. QED
  BY <1>2, <1>8, <1>9 DEF p

\* The list after what was done to the player made s of r.
LEMMA LineRest ==
  ASSUME NEW q, NEW has, Line(q, has), NEW r, NEW s, has => r.own = "queue",
         s.own = "queue" => has
  PROVE  LET p == We!Rest(q, r, s)
             gone == has /\ s.own # "queue"
         IN  /\ Line(p, s.own = "queue") /\ Len(p) = Len(q)
             /\ HasStray(p) => HasStray(q) \/ gone
             /\ Cardinality(Bad(p)) = Cardinality(Bad(q)) + (IF gone THEN 1 ELSE 0)
<1>1. q \in Seq(We!Token)
  BY DEF Line
<1> DEFINE Good(p) == /\ Line(p, s.own = "queue") /\ Len(p) = Len(q)
                      /\ HasStray(p) => HasStray(q) \/ (has /\ s.own # "queue")
                      /\ Cardinality(Bad(p)) =
                           Cardinality(Bad(q)) + (IF has /\ s.own # "queue" THEN 1 ELSE 0)
<1>2. Cardinality(Bad(q)) \in Nat /\ IsFiniteSet(Bad(q))
  BY <1>1, BadFinite
<1>3. ASSUME ~(r.own = "queue" /\ s.own # "queue") PROVE Good(We!Rest(q, r, s))
  <2>1. We!Rest(q, r, s) = q
    BY <1>3 DEF We!Rest
  <2>2. s.own = "queue" <=> has
    BY <1>3
  <2>3. ~(has /\ s.own # "queue")
    BY <2>2
  <2>4. Line(q, s.own = "queue")
    BY <2>2 DEF Line
  <2>5. QED
    BY <1>2, <2>1, <2>3, <2>4
<1>4. ASSUME r.own = "queue", s.own # "queue" PROVE Good(We!Rest(q, r, s))
  <2> DEFINE p == We!Orphaned(q)
  <2>1. We!Rest(q, r, s) = p
    BY <1>4 DEF We!Rest
  <2>2. /\ DOMAIN q = 1 .. Len(q) /\ Len(q) \in Nat /\ p \in Seq(We!Token) /\ Len(p) = Len(q)
        /\ \A i \in DOMAIN q : p[i] = IF q[i] = "own" THEN "stray" ELSE q[i]
        /\ DOMAIN p = DOMAIN q
    BY <1>1 DEF We!Orphaned, We!Token
  <2> HIDE DEF p
  <2>3. Line(p, s.own = "queue")
    BY <1>4, <2>2 DEF Line
  <2>4. HasStray(p) => HasStray(q) \/ (has /\ s.own # "queue")
    BY <1>4, <2>2 DEF Line, HasStray
  <2>5. ASSUME has PROVE Cardinality(Bad(p)) = Cardinality(Bad(q)) + 1
    <3>1. PICK k \in DOMAIN q : q[k] = "own"
      BY <2>5 DEF Line
    <3>2. \A i \in DOMAIN q : q[i] = "own" => i = k
      BY <3>1 DEF Line
    <3>3. Bad(p) = Bad(q) \cup {k} /\ k \notin Bad(q)
      BY <2>2, <3>1, <3>2 DEF Bad
    <3>4. QED
      BY <1>2, <3>3, FS_AddElement
  <2>6. ASSUME ~has PROVE Bad(p) = Bad(q)
    BY <2>2, <2>6 DEF Bad, Line
  <2>7. QED
    BY <1>2, <1>4, <2>1, <2>2, <2>3, <2>4, <2>5, <2>6
<1>5. QED
  BY <1>3, <1>4

-----------------------------------------------------------------------------
(* The invariant                                                           *)

Dead(r) == IF r.alive THEN 0 ELSE 1

\* The inductive invariant: every event left behind, and every task that may leave one, has
\* cost a command, and so has a death, which ends the walk when it is denied.
Keeps(r, q, c) ==
  /\ r \in Person /\ Single(r) /\ Walks(r) /\ r.own # "run"
  /\ Line(q, r.own = "queue") /\ Len(q) <= MaxQueue
  /\ c \in 0 .. MaxCommands
  /\ r.stray > 0 \/ HasStray(q) => r.late
  /\ r.stray + Cardinality(Bad(q)) + Dead(r) <= c

LEMMA KeepsSound ==
  ASSUME We!WalkEventsAssumption, Keeps(w, queue, commands)
  PROVE  We!WalkSound
<1>1. Cardinality(Bad(queue)) \in Nat /\ queue \in Seq(We!Token)
  BY BadFinite DEF Keeps, Line
<1>2. w.stray \in 0 .. MaxCommands
  BY <1>1 DEF Keeps, Person, Dead, We!WalkEventsAssumption
<1>3. w \in We!Walker
  BY <1>2 DEF Keeps, Person, We!Walker
<1>4. We!TypeOK
  BY <1>1, <1>3 DEF Keeps, We!TypeOK
<1>5. We!GoesOn /\ We!SlowStands
  BY DEF Keeps, Walks, We!GoesOn, We!SlowStands
<1>6. We!OneChain
  BY DEF Keeps, HasStray, We!OneChain
<1>7. We!OneAction
  BY DEF Keeps, Person, Single, We!OneAction
<1>8. QED
  BY <1>4, <1>5, <1>6, <1>7 DEF We!WalkSound

\* A new player, and what it costs to have come to him.
Becomes(r, s, d) ==
  /\ s \in Person /\ Single(s) /\ Walks(s) /\ s.own # "run"
  /\ r.late => s.late
  /\ s.stray > 0 => s.late
  /\ s.stray + Dead(s) <= r.stray + Dead(r) + d

\* A task that waits in the list is added.
LEMMA Posted ==
  ASSUME NEW r, NEW q, NEW c, Keeps(r, q, c), Len(q) < MaxQueue, MaxQueue \in Nat,
         NEW t \in We!Token, NEW s, NEW d \in Int, NEW e \in {c, c + 1}, e \in 0 .. MaxCommands,
         Becomes(r, s, d), s.own = "queue" <=> r.own = "queue" \/ t = "own",
         t = "own" => r.own # "queue", t = "stray" => s.late,
         d + (IF t \in {"stray", "stop", "move"} THEN 1 ELSE 0) <= e - c
  PROVE  Keeps(s, Append(q, t), e)
<1>1. q \in Seq(We!Token) /\ c \in Int /\ e \in Int /\ r.stray \in Nat /\ s.stray \in Nat
  BY DEF Keeps, Line, Person, Becomes
<1>2. Cardinality(Bad(q)) \in Nat
  BY <1>1, BadFinite
<1>3. Dead(r) \in Nat /\ Dead(s) \in Nat
  BY DEF Dead
<1> DEFINE p == Append(q, t)
           has == r.own = "queue"
           now == s.own = "queue"
<1>4. Line(q, has)
  BY DEF Keeps
<1>5. /\ Line(p, has \/ t = "own") /\ Len(p) = Len(q) + 1
      /\ HasStray(p) => HasStray(q) \/ t = "stray"
  BY <1>4, LineAppend
<1>6. Cardinality(Bad(p)) =
        Cardinality(Bad(q)) + (IF t \in {"stray", "stop", "move"} THEN 1 ELSE 0)
  BY <1>1, BadAppend
<1>7. Len(q) \in Nat
  BY <1>1
<1> HIDE DEF p
<1>8. Line(p, now)
  BY <1>5 DEF Line
<1>9. s.stray > 0 \/ HasStray(p) => s.late
  BY <1>5 DEF Keeps, Becomes
<1>10. s.stray + Cardinality(Bad(p)) + Dead(s) <= e
  <2>1. s.stray + Dead(s) <= r.stray + Dead(r) + d
    BY DEF Becomes
  <2>2. r.stray + Cardinality(Bad(q)) + Dead(r) <= c
    BY DEF Keeps
  <2>3. PICK a \in Nat : a = Cardinality(Bad(q))
    BY <1>2
  <2>4. PICK old \in Nat : old = r.stray + Dead(r)
    BY <1>1, <1>3
  <2>5. PICK new \in Nat : new = s.stray + Dead(s)
    BY <1>1, <1>3
  <2>6. PICK x \in Nat : x = IF t \in {"stray", "stop", "move"} THEN 1 ELSE 0
    OBVIOUS
  <2>7. PICK n \in Int, m \in Int : n = c /\ m = e
    BY <1>1
  <2>8. new <= old + d /\ a + old <= n /\ d + x <= m - n
    <3>1. new <= old + d
      BY <2>1, <2>4, <2>5
    <3>2. a + old <= n
      <4> DEFINE i == r.stray
                 j == Dead(r)
      <4>1. i \in Nat /\ j \in Nat /\ i + a + j <= n /\ old = i + j
        BY <1>1, <1>3, <2>2, <2>3, <2>4, <2>7
      <4> HIDE DEF i, j
      <4>2. QED
        BY <4>1
    <3>3. d + x <= m - n
      BY <2>6, <2>7
    <3>4. QED
      BY <3>1, <3>2, <3>3
  <2>9. a + x + new <= m
    BY <2>8
  <2>10. QED
    BY <1>1, <1>2, <1>3, <1>6, <2>3, <2>5, <2>6, <2>7, <2>9
<1>11. QED
  BY <1>5, <1>7, <1>8, <1>9, <1>10 DEF Keeps, Becomes, p

\* Something is done to the player while the list is q, of which has says whether his event
\* is in it.
LEMMA Changed ==
  ASSUME NEW r, NEW q, NEW c \in Int, NEW has \in BOOLEAN, Line(q, has), Len(q) <= MaxQueue,
         has => r.own = "queue", r.stray \in Nat, HasStray(q) => r.late,
         NEW n \in Int, r.stray + Cardinality(Bad(q)) + Dead(r) <= n,
         NEW s, NEW d \in Int, Becomes(r, s, d), s.own = "queue" => has,
         has /\ s.own # "queue" => s.late, c \in 0 .. MaxCommands,
         n + d + (IF has /\ s.own # "queue" THEN 1 ELSE 0) <= c
  PROVE  Keeps(s, We!Rest(q, r, s), c)
<1> DEFINE p == We!Rest(q, r, s)
           gone == has /\ s.own # "queue"
           now == s.own = "queue"
<1>1. /\ Line(p, now) /\ Len(p) = Len(q)
      /\ HasStray(p) => HasStray(q) \/ gone
      /\ Cardinality(Bad(p)) = Cardinality(Bad(q)) + (IF gone THEN 1 ELSE 0)
  BY LineRest
<1>2. q \in Seq(We!Token)
  BY DEF Line
<1>3. Cardinality(Bad(q)) \in Nat /\ Dead(r) \in Nat /\ Dead(s) \in Nat /\ s.stray \in Nat
  BY <1>2, BadFinite DEF Dead, Becomes, Person
<1> HIDE DEF p
<1>4. s.stray > 0 \/ HasStray(p) => s.late
  BY <1>1 DEF Becomes
<1>5. s.stray + Cardinality(Bad(p)) + Dead(s) <= c
  <2>1. s.stray + Dead(s) <= r.stray + Dead(r) + d
    BY DEF Becomes
  <2>2. PICK a \in Nat : a = Cardinality(Bad(q))
    BY <1>3
  <2>3. PICK old \in Nat : old = r.stray + Dead(r)
    BY <1>3
  <2>4. PICK new \in Nat : new = s.stray + Dead(s)
    BY <1>3
  <2>5. PICK x \in Nat : x = IF gone THEN 1 ELSE 0
    OBVIOUS
  <2>6. new <= old + d /\ a + old <= n /\ n + d + x <= c
    <3>1. new <= old + d
      BY <2>1, <2>3, <2>4
    <3>2. a + old <= n
      <4> DEFINE i == r.stray
                 j == Dead(r)
      <4>1. i \in Nat /\ j \in Nat /\ i + a + j <= n /\ old = i + j
        BY <1>3, <2>2, <2>3
      <4> HIDE DEF i, j
      <4>2. QED
        BY <4>1
    <3>3. n + d + x <= c
      BY <2>5
    <3>4. QED
      BY <3>1, <3>2, <3>3
  <2>7. a + x + new <= c
    BY <2>6
  <2>8. QED
    BY <1>1, <1>3, <2>2, <2>4, <2>5, <2>7
<1>6. QED
  BY <1>1, <1>4, <1>5 DEF Keeps, Becomes, p

\* A task is taken from the list and executed.
LEMMA Executed ==
  ASSUME NEW r, NEW q, NEW c, Keeps(r, q, c), q # <<>>, NEW s, NEW d \in Int, Becomes(r, s, d),
         NEW e \in {c, c + 1}, e \in 0 .. MaxCommands, MaxQueue \in Nat,
         s.own = "queue" => r.own = "queue" /\ Head(q) # "own",
         r.own = "queue" /\ Head(q) # "own" /\ s.own # "queue" => s.late,
         d + (IF r.own = "queue" /\ Head(q) # "own" /\ s.own # "queue" THEN 1 ELSE 0)
           <= e - c + (IF Head(q) \in {"stray", "stop", "move"} THEN 1 ELSE 0)
  PROVE  Keeps(s, We!Rest(Tail(q), r, s), e)
<1>1. PICK has \in BOOLEAN : has <=> r.own = "queue" /\ Head(q) # "own"
  OBVIOUS
<1>2. Line(q, r.own = "queue") /\ Len(q) <= MaxQueue /\ c \in Int /\ e \in Int /\ r.stray \in Nat
  BY DEF Keeps, Person
<1>3. PICK was \in BOOLEAN : was <=> r.own = "queue"
  OBVIOUS
<1>4. Line(q, was)
  BY <1>2, <1>3 DEF Line
<1>5. /\ Line(Tail(q), was /\ Head(q) # "own")
      /\ Len(Tail(q)) = Len(q) - 1 /\ Len(q) \in Nat
      /\ HasStray(Tail(q)) => HasStray(q)
  BY <1>4, LineTail
<1>6. Line(Tail(q), has)
  BY <1>1, <1>3, <1>5 DEF Line
<1>7. Len(Tail(q)) <= MaxQueue
  BY <1>2, <1>5
<1>8. PICK x \in 0 .. 1 : x = IF Head(q) \in {"stray", "stop", "move"} THEN 1 ELSE 0
  OBVIOUS
<1>9. q \in Seq(We!Token) /\ Tail(q) \in Seq(We!Token)
  BY <1>2, <1>6 DEF Line
<1>10. Cardinality(Bad(q)) = Cardinality(Bad(Tail(q))) + x /\ Cardinality(Bad(Tail(q))) \in Nat
  BY <1>8, <1>9, BadTail, BadFinite
<1>11. r.stray + Cardinality(Bad(Tail(q))) + Dead(r) <= c - x
  <2>1. r.stray + Cardinality(Bad(q)) + Dead(r) <= c /\ Dead(r) \in Nat
    BY DEF Keeps, Dead
  <2> DEFINE a == Cardinality(Bad(q))
             b == Cardinality(Bad(Tail(q)))
             old == r.stray + Dead(r)
  <2>2. old \in Nat /\ b \in Nat /\ a = b + x /\ a + old <= c
    <3> DEFINE i == r.stray
               j == Dead(r)
    <3>1. i \in Nat /\ j \in Nat /\ b \in Nat /\ a = b + x /\ i + a + j <= c
      BY <1>2, <1>10, <2>1
    <3>2. old = i + j
      OBVIOUS
    <3> HIDE DEF i, j, a, b, old
    <3>3. QED
      BY <1>2, <3>1, <3>2
  <2> HIDE DEF a, b, old
  <2>3. b + old <= c - x
    BY <1>2, <2>2
  <2>4. QED
    BY <1>2, <1>10, <2>1, <2>3 DEF b, old
<1>12. HasStray(Tail(q)) => r.late
  BY <1>5 DEF Keeps
<1>13. (c - x) + d + (IF has /\ s.own # "queue" THEN 1 ELSE 0) <= e
  <2> DEFINE y == IF has /\ s.own # "queue" THEN 1 ELSE 0
  <2>1. d + y <= e - c + x /\ y \in Nat
    BY <1>1, <1>8
  <2> HIDE DEF y
  <2>2. (c - x) + d + y <= e
    BY <1>2, <2>1
  <2>3. QED
    BY <2>2 DEF y
<1>14. has => r.own = "queue"
  BY <1>1
<1>15. s.own = "queue" => has
  BY <1>1
<1>16. has /\ s.own # "queue" => s.late
  BY <1>1
<1>17. c - x \in Int
  BY <1>2
<1>18. QED
  BY <1>2, <1>6, <1>7, <1>11, <1>12, <1>13, <1>14, <1>15, <1>16, <1>17, Changed

\* Something happens to the player that is no task of the list.
LEMMA Happened ==
  ASSUME NEW r, NEW q, NEW c, Keeps(r, q, c), NEW s, NEW d \in Int, Becomes(r, s, d),
         NEW e \in {c, c + 1}, e \in 0 .. MaxCommands,
         s.own = "queue" => r.own = "queue",
         r.own = "queue" /\ s.own # "queue" => s.late,
         d + (IF r.own = "queue" /\ s.own # "queue" THEN 1 ELSE 0) <= e - c
  PROVE  Keeps(s, We!Rest(q, r, s), e)
<1>1. PICK has \in BOOLEAN : has <=> r.own = "queue"
  OBVIOUS
<1>2. Line(q, r.own = "queue") /\ Len(q) <= MaxQueue /\ c \in Int /\ e \in Int /\ r.stray \in Nat
  BY DEF Keeps, Person
<1>3. Line(q, has)
  BY <1>1, <1>2 DEF Line
<1>4. HasStray(q) => r.late
  BY DEF Keeps
<1>5. r.stray + Cardinality(Bad(q)) + Dead(r) <= c
  BY DEF Keeps
<1>6. c + d + (IF has /\ s.own # "queue" THEN 1 ELSE 0) <= e
  <2> DEFINE y == IF has /\ s.own # "queue" THEN 1 ELSE 0
  <2>1. d + y <= e - c /\ y \in Nat
    BY <1>1
  <2> HIDE DEF y
  <2>2. c + d + y <= e
    BY <1>2, <2>1
  <2>3. QED
    BY <2>2 DEF y
<1>7. /\ has => r.own = "queue"
      /\ s.own = "queue" => has
      /\ has /\ s.own # "queue" => s.late
  BY <1>1
<1>8. QED
  BY <1>2, <1>3, <1>4, <1>5, <1>6, <1>7, Changed

LEMMA KeepsInit ==
  ASSUME We!WalkEventsAssumption, We!Init PROVE Keeps(w, queue, commands)
<1>1. /\ w.path = 0 /\ w.own = "no" /\ w.stray = 0 /\ ~w.task /\ w.act = 0
      /\ w.alive /\ w.fast /\ ~w.late /\ queue = <<>> /\ commands = 0
  BY DEF We!Init
<1>2. w \in Person
  BY DEF We!Init, Person, We!WalkEventsAssumption
<1>3. Bad(queue) = {} /\ ~HasStray(queue) /\ Line(queue, FALSE) /\ Len(queue) = 0
  BY <1>1 DEF Bad, HasStray, Line
<1>4. Cardinality(Bad(queue)) = 0
  BY <1>3, FS_EmptySet
<1>5. Line(queue, w.own = "queue")
  BY <1>1, <1>3 DEF Line
<1>6. Single(w) /\ Walks(w) /\ Dead(w) = 0
  BY <1>1 DEF Single, Walks, Dead
<1>7. QED
  BY <1>1, <1>2, <1>3, <1>4, <1>5, <1>6 DEF Keeps, We!WalkEventsAssumption

\* A list without the event of the player stays as it is.
LEMMA RestSame ==
  ASSUME NEW q, NEW r, NEW s, Line(q, FALSE) \/ ~(r.own = "queue" /\ s.own # "queue")
  PROVE  We!Rest(q, r, s) = q
<1>1. CASE ~(r.own = "queue" /\ s.own # "queue")
  BY <1>1 DEF We!Rest
<1>2. CASE Line(q, FALSE)
  <2>1. \A i \in DOMAIN q : q[i] # "own"
    BY <1>2 DEF Line
  <2>2. q = [i \in DOMAIN q |-> q[i]]
    BY <1>2 DEF Line
  <2>3. We!Orphaned(q) = [i \in DOMAIN q |-> q[i]]
    BY <2>1 DEF We!Orphaned
  <2>4. QED
    BY <2>2, <2>3 DEF We!Rest
<1>3. QED
  BY <1>1, <1>2

\* A walk event is executed.
LEMMA WalkKeeps ==
  ASSUME We!WalkEventsAssumption, Keeps(w, queue, commands), queue # <<>>, NEW own \in BOOLEAN,
         Head(queue) = (IF own THEN "own" ELSE "stray"), We!CheckCreatureWalk(own)
  PROVE  Keeps(w', queue', commands')
<1>1. /\ w \in Person /\ Single(w) /\ Walks(w) /\ w.own # "run" /\ commands \in 0 .. MaxCommands
      /\ queue \in Seq(We!Token) /\ Line(queue, w.own = "queue") /\ w.stray \in Nat
      /\ w.stray > 0 \/ HasStray(queue) => w.late
      /\ MaxPath \in Nat /\ MaxQueue \in Nat /\ MaxCommands \in Nat
  BY DEF Keeps, Person, Line, We!WalkEventsAssumption
<1>2. /\ 1 \in DOMAIN queue /\ queue[1] = Head(queue)
  BY <1>1, TailPlaces
<1>3. own => w.own = "queue"
  BY <1>1, <1>2 DEF Line
<1>4. ~own => w.late
  BY <1>1, <1>2 DEF HasStray
<1> DEFINE r == IF own THEN [w EXCEPT !.own = "run"] ELSE w
<1>5. /\ r \in Person /\ Single(r) /\ Walks(r) /\ r.own = (IF own THEN "run" ELSE w.own)
      /\ r.stray = w.stray /\ (r.late <=> w.late) /\ (r.alive <=> w.alive)
  <2>1. CASE own
    <3> DEFINE s == [w EXCEPT !.own = "run"]
    <3>1. /\ s \in Person /\ s.own = "run" /\ s.stray = w.stray /\ s.act = w.act
          /\ (s.task <=> w.task) /\ (s.late <=> w.late) /\ (s.alive <=> w.alive)
      BY <1>1, SetOwn
    <3> HIDE DEF s
    <3>2. Single(s) /\ Walks(s)
      BY <1>1, <3>1 DEF Single, Walks
    <3>3. QED
      BY <2>1, <3>1, <3>2 DEF s
  <2>2. CASE ~own
    BY <1>1, <2>2
  <2>3. QED
    BY <2>1, <2>2
<1>6. CASE ~w.alive
  <2> DEFINE s == IF own THEN [w EXCEPT !.own = "lost"] ELSE w
  <2>1. w' = s /\ queue' = Tail(queue) /\ commands' = commands
    BY <1>6 DEF We!CheckCreatureWalk
  <2>2. /\ s \in Person /\ s.own = (IF own THEN "lost" ELSE w.own) /\ s.stray = w.stray
        /\ s.act = w.act /\ (s.task <=> w.task) /\ s.path = w.path /\ (s.fast <=> w.fast)
        /\ (s.late <=> w.late) /\ (s.alive <=> w.alive)
    <3>1. CASE own
      <4>1. s = [w EXCEPT !.own = "lost"]
        BY <3>1
      <4>2. LET t == [w EXCEPT !.own = "lost"]
            IN  /\ t \in Person /\ t.own = "lost" /\ t.stray = w.stray
                /\ t.act = w.act /\ (t.task <=> w.task) /\ t.path = w.path /\ (t.fast <=> w.fast)
                /\ (t.late <=> w.late) /\ (t.alive <=> w.alive)
        BY <1>1, SetOwn
      <4> HIDE DEF s
      <4>3. QED
        BY <3>1, <4>1, <4>2
    <3>2. CASE ~own
      <4>1. s = w
        BY <3>2
      <4>2. QED
        BY <1>1, <3>2, <4>1
    <3>3. QED
      BY <3>1, <3>2
  <2> HIDE DEF s
  <2>3. Single(s) /\ Walks(s)
    BY <1>1, <2>2 DEF Single, Walks
  <2>4. Dead(s) = Dead(w) /\ Dead(w) \in Nat
    BY <2>2 DEF Dead
  <2>5. Becomes(w, s, 0)
    BY <1>1, <2>2, <2>3, <2>4 DEF Becomes
  <2>6. CASE own
    <3>1. Line(Tail(queue), FALSE)
      BY <1>1, <2>6, LineTail DEF Line
    <3>2. We!Rest(Tail(queue), w, s) = Tail(queue)
      BY <3>1, RestSame
    <3>3. Keeps(s, We!Rest(Tail(queue), w, s), commands)
      BY <1>1, <2>2, <2>5, <2>6, Executed
    <3>4. QED
      BY <2>1, <3>2, <3>3
  <2>7. CASE ~own
    <3>1. We!Rest(Tail(queue), w, s) = Tail(queue)
      BY <2>2, <2>7, RestSame
    <3>2. Keeps(s, We!Rest(Tail(queue), w, s), commands)
      BY <1>1, <1>4, <2>2, <2>5, <2>7, Executed
    <3>3. QED
      BY <2>1, <3>1, <3>2
  <2>8. QED
    BY <2>6, <2>7
<1>7. CASE w.alive
  <2>1. PICK step \in {"plain", "teleport", "script"} :
          /\ IF step = "script" THEN We!Bounded ELSE UNCHANGED commands
          /\ w' = We!OnWalk(r, step)
          /\ queue' = We!Rest(Tail(queue), w, w')
    BY <1>7 DEF We!CheckCreatureWalk
  <2> HIDE DEF r
  <2> DEFINE s == We!OnWalk(r, step)
  <2>2. /\ s \in Person /\ Single(s) /\ Walks(s) /\ s.own \in {"no", "sched"}
        /\ \/ s.stray = r.stray
           \/ s.stray = r.stray + 1 /\ (r.own = "sched" \/ (step = "script" /\ s.late))
        /\ (r.late => s.late) /\ (s.alive <=> r.alive)
    BY <1>1, <1>5, OnWalkShape
  <2>3. w' = s /\ queue' = We!Rest(Tail(queue), w, s)
    BY <2>1
  <2> HIDE DEF s
  <2>4. /\ commands' = commands + (IF step = "script" THEN 1 ELSE 0)
        /\ commands' \in {commands, commands + 1} /\ commands' \in 0 .. MaxCommands
    BY <1>1, <2>1 DEF We!Bounded
  <2>5. PICK d \in 0 .. 1 :
          d = IF step = "script" \/ (w.own = "sched" /\ ~own) THEN 1 ELSE 0
    OBVIOUS
  <2>6. s.stray > 0 => s.late
    <3>1. CASE own
      BY <1>1, <1>5, <2>2, <3>1
    <3>2. CASE ~own
      BY <1>4, <1>5, <2>2, <3>2
    <3>3. QED
      BY <3>1, <3>2
  <2>7. s.stray <= w.stray + d
    BY <1>1, <1>5, <2>2, <2>5
  <2>8. Dead(s) = Dead(w) /\ Dead(w) \in Nat
    BY <1>5, <2>2 DEF Dead
  <2>9. Becomes(w, s, d)
    <3>1. w.late => s.late
      BY <1>5, <2>2
    <3>2. s.stray + Dead(s) <= w.stray + Dead(w) + d
      <4> DEFINE x == Dead(w)
      <4>1. s.stray \in Nat /\ x \in Nat
        BY <2>2, <2>8 DEF Person
      <4> HIDE DEF x
      <4>2. s.stray + x <= w.stray + x + d
        BY <1>1, <2>7, <4>1
      <4>3. QED
        BY <2>8, <4>2 DEF x
    <3>3. QED
      BY <2>2, <2>6, <3>1, <3>2 DEF Becomes
  <2>10. CASE own
    <3>1. d = IF step = "script" THEN 1 ELSE 0
      BY <2>5, <2>10
    <3>2. QED
      BY <1>1, <2>2, <2>3, <2>4, <2>9, <2>10, <3>1, Executed
  <2>11. CASE ~own
    <3>1. d + (IF w.own = "queue" THEN 1 ELSE 0) <= (IF step = "script" THEN 1 ELSE 0) + 1
      BY <2>5
    <3>2. s.late
      BY <1>4, <1>5, <2>2, <2>11
    <3>3. Head(queue) = "stray"
      BY <2>11
    <3>4. d + (IF w.own = "queue" /\ Head(queue) # "own" /\ s.own # "queue" THEN 1 ELSE 0)
            <= commands' - commands + (IF Head(queue) \in {"stray", "stop", "move"} THEN 1 ELSE 0)
      <4> DEFINE x == IF step = "script" THEN 1 ELSE 0
      <4>1. commands' = commands + x /\ x \in Nat /\ commands \in Nat
        BY <1>1, <2>4
      <4>2. d + (IF w.own = "queue" THEN 1 ELSE 0) <= x + 1
        BY <3>1
      <4> HIDE DEF x
      <4>3. commands' - commands = x
        BY <4>1
      <4>4. QED
        BY <2>2, <3>3, <4>1, <4>2, <4>3
    <3>5. s.own # "queue"
      BY <2>2
    <3>6. Keeps(s, We!Rest(Tail(queue), w, s), commands')
      BY <1>1, <2>4, <2>9, <3>2, <3>4, <3>5, Executed
    <3>7. QED
      BY <2>3, <3>6
  <2>12. QED
    BY <2>10, <2>11
<1>8. QED
  BY <1>6, <1>7

\* The invariant's facts by themselves.
LEMMA KeepsFacts ==
  ASSUME We!WalkEventsAssumption, Keeps(w, queue, commands)
  PROVE  /\ w \in Person /\ Single(w) /\ Walks(w) /\ w.own # "run" /\ commands \in 0 .. MaxCommands
         /\ queue \in Seq(We!Token) /\ Line(queue, w.own = "queue") /\ Len(queue) <= MaxQueue
         /\ w.stray \in Nat /\ w.path \in Nat /\ w.path \in 0 .. MaxPath
         /\ w.stray > 0 \/ HasStray(queue) => w.late
         /\ MaxPath \in Nat /\ MaxPath > 0 /\ MaxQueue \in Nat /\ MaxCommands \in Nat
         /\ Dead(w) \in Nat
BY DEF Keeps, Person, Line, Dead, We!WalkEventsAssumption

\* A player who has only lost his event and his path, or neither.
LEMMA Ended ==
  ASSUME We!WalkEventsAssumption, NEW r \in Person, Walks(r), r.stray > 0 => r.late,
         NEW s \in Person, Single(s), s.own \in {r.own, "no"},
         s.own = r.own => s.path = r.path,
         s.own # r.own => s.path = 0, r.own # "run",
         s.stray = r.stray, s.fast <=> r.fast, r.late => s.late, s.alive <=> r.alive
  PROVE  Becomes(r, s, 0)
<1>1. s.stray \in Nat /\ Dead(s) = Dead(r) /\ Dead(r) \in Nat /\ s.path \in Nat
  BY DEF Person, Dead
<1>2. Walks(s)
  BY <1>1 DEF Walks
<1>3. QED
  BY <1>1, <1>2 DEF Becomes

LEMMA AutoWalkKeeps ==
  ASSUME We!WalkEventsAssumption, Keeps(w, queue, commands), queue # <<>>,
         Head(queue) = "walk", We!PlayerAutoWalk
  PROVE  Keeps(w', queue', commands)
<1> DEFINE s == We!StartAutoWalk(w, MaxPath)
<1>1. w' = s /\ queue' = Tail(queue)
  BY DEF We!PlayerAutoWalk
<1>2. ~w.fast => w.own \notin {"sched", "queue"}
  BY KeepsFacts DEF Walks
<1>3. /\ s \in Person /\ Single(s)
      /\ s.own = IF w.own = "no" /\ w.fast THEN "sched" ELSE w.own
      /\ s.path = MaxPath /\ s.stray = w.stray
      /\ (s.fast <=> w.fast) /\ (s.late <=> w.late) /\ (s.alive <=> w.alive)
  BY <1>2, KeepsFacts, StartAutoWalkShape
<1> HIDE DEF s
<1>4. Walks(s)
  BY <1>2, <1>3, KeepsFacts DEF Walks, Person
<1>5. Dead(s) = Dead(w)
  BY <1>3 DEF Dead
<1>6. Becomes(w, s, 0)
  BY <1>3, <1>4, <1>5, KeepsFacts DEF Becomes
<1>7. Keeps(s, We!Rest(Tail(queue), w, s), commands)
  BY <1>3, <1>6, KeepsFacts, Executed
<1>8. We!Rest(Tail(queue), w, s) = Tail(queue)
  BY <1>3, RestSame
<1>9. QED
  BY <1>1, <1>7, <1>8

LEMMA StopKeeps ==
  ASSUME We!WalkEventsAssumption, Keeps(w, queue, commands), queue # <<>>,
         Head(queue) = "stop", We!PlayerStopAutoWalk
  PROVE  Keeps(w', queue', commands)
<1> DEFINE s == We!StopWalk(w)
<1>1. w' = s /\ queue' = We!Rest(Tail(queue), w, s)
  BY DEF We!PlayerStopAutoWalk
<1>2. /\ s \in Person /\ Single(s)
      /\ IF w.path = 0 THEN s = w ELSE s.own = "no"
      /\ w.path # 0 => s.path = IF w.own = "no" THEN w.path ELSE 0
      /\ s.stray = w.stray
      /\ (s.fast <=> w.fast) /\ (s.alive <=> w.alive)
      /\ (w.late => s.late)
      /\ w.path # 0 /\ w.own = "queue" => s.late
  BY KeepsFacts, StopWalkShape
<1> HIDE DEF s
<1>3. /\ s.own \in {w.own, "no"} /\ (s.own = w.own => s.path = w.path)
      /\ s.own # w.own => s.path = 0
  BY <1>2
<1>4. Becomes(w, s, 0)
  BY <1>2, <1>3, KeepsFacts, Ended
<1>5. w.own = "queue" /\ s.own # "queue" => s.late
  BY <1>2
<1>6. Keeps(s, We!Rest(Tail(queue), w, s), commands)
  BY <1>3, <1>4, <1>5, KeepsFacts, Executed
<1>7. QED
  BY <1>1, <1>6

LEMMA MoveKeeps ==
  ASSUME We!WalkEventsAssumption, Keeps(w, queue, commands), queue # <<>>,
         Head(queue) = "move", We!PlayerMove
  PROVE  Keeps(w', queue', commands)
<1> DEFINE m == We!StopWalk(w)
           s == We!StopEventWalk(m)
<1>1. w' = s /\ queue' = We!Rest(Tail(queue), w, s)
  BY DEF We!PlayerMove
<1>2. /\ m \in Person /\ Single(m)
      /\ IF w.path = 0 THEN m = w ELSE m.own = "no"
      /\ w.path # 0 => m.path = IF w.own = "no" THEN w.path ELSE 0
      /\ m.stray = w.stray
      /\ (m.fast <=> w.fast) /\ (m.alive <=> w.alive)
      /\ (w.late => m.late)
      /\ w.path # 0 /\ w.own = "queue" => m.late
  BY KeepsFacts, StopWalkShape
<1> HIDE DEF m
<1>3. /\ s \in Person /\ Single(s) /\ s.own = "no"
      /\ s.path = IF m.own = "no" THEN m.path ELSE 0
      /\ s.stray = m.stray
      /\ (s.fast <=> m.fast) /\ (s.late <=> m.late \/ m.own = "queue")
      /\ (s.alive <=> m.alive)
  BY <1>2, KeepsFacts, StopEventWalkShape
<1> HIDE DEF s
<1>4. /\ s.own \in {w.own, "no"} /\ (s.own = w.own => s.path = w.path)
      /\ s.own # w.own => s.path = 0
  BY <1>2, <1>3
<1>5. s.stray = w.stray /\ (s.fast <=> w.fast) /\ (s.alive <=> w.alive) /\ (w.late => s.late)
  BY <1>2, <1>3
<1>6. Becomes(w, s, 0)
  BY <1>3, <1>4, <1>5, KeepsFacts, Ended
<1>7. w.own = "queue" /\ s.own # "queue" => s.late
  BY <1>2, <1>3
<1>8. Keeps(s, We!Rest(Tail(queue), w, s), commands)
  BY <1>3, <1>6, <1>7, KeepsFacts, Executed
<1>9. QED
  BY <1>1, <1>8

LEMMA UseKeeps ==
  ASSUME We!WalkEventsAssumption, Keeps(w, queue, commands), queue # <<>>,
         Head(queue) \in {"use", "act"}, We!PlayerUseItem
  PROVE  Keeps(w', queue', commands)
<1>1. We!Rest(Tail(queue), w, w) = Tail(queue)
  BY RestSame
<1>2. Becomes(w, w, 0)
  BY KeepsFacts DEF Becomes
<1>3. Keeps(w, Tail(queue), commands)
  <2>1. Keeps(w, We!Rest(Tail(queue), w, w), commands)
    BY <1>2, KeepsFacts, Executed
  <2>2. QED
    BY <1>1, <2>1
<1>4. CASE UNCHANGED w /\ queue' = Tail(queue)
  BY <1>3, <1>4
<1>5. CASE w' = We!SetNextWalkAction(w, TRUE) /\ queue' = Append(Tail(queue), "walk")
  <2> DEFINE s == [w EXCEPT !.task = TRUE, !.act = 0]
  <2>1. w' = s
    BY <1>5 DEF We!SetNextWalkAction
  <2>2. /\ s \in Person /\ s.act = 0 /\ s.path = w.path /\ s.own = w.own /\ s.stray = w.stray
        /\ (s.alive <=> w.alive) /\ (s.fast <=> w.fast) /\ (s.late <=> w.late)
    <3>1. w \in Person
      BY KeepsFacts
    <3>2. QED
      BY <3>1, Tasked, Zenon
  <2> HIDE DEF s
  <2>3. Single(s) /\ Walks(s)
    BY <2>2, KeepsFacts DEF Single, Walks
  <2>4. Dead(s) = Dead(w)
    BY <2>2 DEF Dead
  <2>5. Becomes(w, s, 0)
    BY <2>2, <2>3, <2>4, KeepsFacts DEF Becomes
  <2>6. Len(Tail(queue)) < MaxQueue
    BY KeepsFacts, TailPlaces
  <2>7. "walk" \in We!Token
    BY DEF We!Token, We!Command
  <2>8. Keeps(s, Append(Tail(queue), "walk"), commands)
    <3> DEFINE q == Tail(queue)
    <3>1. PICK t \in We!Token : t = "walk"
      BY <2>7
    <3>2. 0 + (IF t \in {"stray", "stop", "move"} THEN 1 ELSE 0) <= commands - commands
      BY <3>1, KeepsFacts
    <3>3. /\ s.own = "queue" <=> w.own = "queue" \/ t = "own"
          /\ t = "own" => w.own # "queue"
          /\ t = "stray" => s.late
      BY <2>2, <3>1
    <3>4. commands \in {commands, commands + 1} /\ commands \in 0 .. MaxCommands /\ MaxQueue \in Nat
          /\ Keeps(w, q, commands) /\ Len(q) < MaxQueue
      BY <1>3, <2>6, KeepsFacts
    <3> HIDE DEF q
    <3>5. Keeps(s, Append(q, t), commands)
      BY <2>5, <3>2, <3>3, <3>4, Posted
    <3>6. QED
      BY <3>1, <3>5 DEF q
  <2>9. QED
    BY <1>5, <2>1, <2>8
<1>6. QED
  BY <1>4, <1>5 DEF We!PlayerUseItem

\* An event that is due.
LEMMA DueOwnKeeps ==
  ASSUME We!WalkEventsAssumption, Keeps(w, queue, commands), We!DueOwn
  PROVE  Keeps(w', queue', commands')
<1> DEFINE s == [w EXCEPT !.own = "queue"]
<1>1. /\ w' = s /\ queue' = Append(queue, "own") /\ commands' = commands
      /\ w.own = "sched" /\ Len(queue) < MaxQueue
  BY DEF We!DueOwn, We!Post
<1>2. /\ s \in Person /\ s.act = w.act /\ s.path = w.path /\ s.own = "queue" /\ s.stray = w.stray
      /\ (s.task <=> w.task)
      /\ (s.alive <=> w.alive) /\ (s.fast <=> w.fast) /\ (s.late <=> w.late)
  BY KeepsFacts, SetOwn
<1> HIDE DEF s
<1>3. Single(s) /\ Walks(s)
  BY <1>1, <1>2, KeepsFacts DEF Single, Walks
<1>4. Dead(s) = Dead(w)
  BY <1>2 DEF Dead
<1>5. Becomes(w, s, 0)
  BY <1>2, <1>3, <1>4, KeepsFacts DEF Becomes
<1>6. PICK t \in We!Token : t = "own"
  BY DEF We!Token
<1>7. 0 + (IF t \in {"stray", "stop", "move"} THEN 1 ELSE 0) <= commands - commands
  BY <1>6, KeepsFacts
<1>8. /\ s.own = "queue" <=> w.own = "queue" \/ t = "own"
      /\ t = "own" => w.own # "queue"
      /\ t = "stray" => s.late
  BY <1>1, <1>2, <1>6
<1>9. Keeps(s, Append(queue, t), commands)
  BY <1>1, <1>5, <1>7, <1>8, KeepsFacts, Posted
<1>10. QED
  BY <1>1, <1>6, <1>9

LEMMA DueStrayKeeps ==
  ASSUME We!WalkEventsAssumption, Keeps(w, queue, commands), We!DueStray
  PROVE  Keeps(w', queue', commands')
<1> DEFINE s == [w EXCEPT !.stray = @ - 1]
<1>1. /\ w' = s /\ queue' = Append(queue, "stray") /\ commands' = commands
      /\ w.stray > 0 /\ Len(queue) < MaxQueue
  BY DEF We!DueStray, We!Post
<1>2. /\ s \in Person /\ s.act = w.act /\ s.path = w.path /\ s.own = w.own
      /\ s.stray = w.stray - 1 /\ (s.task <=> w.task)
      /\ (s.alive <=> w.alive) /\ (s.fast <=> w.fast) /\ (s.late <=> w.late)
  <2>1. w.stray - 1 \in Nat /\ s = [w EXCEPT !.stray = w.stray - 1] /\ w \in Person
    BY <1>1, KeepsFacts
  <2>2. QED
    BY <2>1, SetStray
<1> HIDE DEF s
<1>3. Single(s) /\ Walks(s)
  BY <1>1, <1>2, KeepsFacts DEF Single, Walks
<1>4. Dead(s) = Dead(w)
  BY <1>2 DEF Dead
<1>5. -1 \in Int /\ s.stray + Dead(s) <= w.stray + Dead(w) + (-1)
  BY <1>2, <1>4, KeepsFacts
<1>6. w.late
  BY <1>1, KeepsFacts
<1>7. Becomes(w, s, -1)
  BY <1>2, <1>3, <1>5, <1>6, KeepsFacts DEF Becomes
<1>8. PICK t \in We!Token : t = "stray"
  BY DEF We!Token
<1>9. (-1) + (IF t \in {"stray", "stop", "move"} THEN 1 ELSE 0) <= commands - commands
  BY <1>8, KeepsFacts
<1>10. /\ s.own = "queue" <=> w.own = "queue" \/ t = "own"
       /\ t = "own" => w.own # "queue"
       /\ t = "stray" => s.late
  BY <1>2, <1>6, <1>8
<1>11. Keeps(s, Append(queue, t), commands)
  BY <1>1, <1>5, <1>7, <1>9, <1>10, KeepsFacts, Posted
<1>12. QED
  BY <1>1, <1>8, <1>11

LEMMA DueActKeeps ==
  ASSUME We!WalkEventsAssumption, Keeps(w, queue, commands), We!DueAct
  PROVE  Keeps(w', queue', commands')
<1> DEFINE s == [w EXCEPT !.act = @ - 1]
<1>1. /\ w' = s /\ queue' = Append(queue, "act") /\ commands' = commands
      /\ w.act > 0 /\ Len(queue) < MaxQueue
  BY DEF We!DueAct, We!Post
<1>2. /\ s \in Person /\ s.act = w.act - 1 /\ s.path = w.path /\ s.own = w.own
      /\ s.stray = w.stray /\ (s.task <=> w.task)
      /\ (s.alive <=> w.alive) /\ (s.fast <=> w.fast) /\ (s.late <=> w.late)
  <2>1. w.act - 1 \in 0 .. 1 /\ s = [w EXCEPT !.act = w.act - 1] /\ w \in Person
    BY <1>1, KeepsFacts DEF Person
  <2>2. QED
    BY <2>1, SetAct
<1> HIDE DEF s
<1>3. Single(s) /\ Walks(s)
  BY <1>1, <1>2, KeepsFacts DEF Single, Walks
<1>4. Dead(s) = Dead(w)
  BY <1>2 DEF Dead
<1>5. Becomes(w, s, 0)
  BY <1>2, <1>3, <1>4, KeepsFacts DEF Becomes
<1>6. PICK t \in We!Token : t = "act"
  BY DEF We!Token
<1>7. 0 + (IF t \in {"stray", "stop", "move"} THEN 1 ELSE 0) <= commands - commands
  BY <1>6, KeepsFacts
<1>8. /\ s.own = "queue" <=> w.own = "queue" \/ t = "own"
      /\ t = "own" => w.own # "queue"
      /\ t = "stray" => s.late
  BY <1>2, <1>6
<1>9. Keeps(s, Append(queue, t), commands)
  BY <1>1, <1>5, <1>7, <1>8, KeepsFacts, Posted
<1>10. QED
  BY <1>1, <1>6, <1>9

LEMMA AskKeeps ==
  ASSUME We!WalkEventsAssumption, Keeps(w, queue, commands), NEW t \in We!Command, We!Ask(t)
  PROVE  Keeps(w', queue', commands')
<1>1. /\ w' = w /\ queue' = Append(queue, t) /\ Len(queue) < MaxQueue
      /\ commands' = commands + 1 /\ commands < MaxCommands
  BY DEF We!Ask, We!Bounded, We!Post
<1>2. Becomes(w, w, 0)
  BY KeepsFacts DEF Becomes
<1>3. t \in We!Token /\ t \notin {"own", "stray"}
  BY DEF We!Token, We!Command
<1>4. PICK e \in {commands, commands + 1} : e = commands + 1
  OBVIOUS
<1>5. e \in 0 .. MaxCommands /\ e - commands = 1
  BY <1>1, <1>4, KeepsFacts
<1>6. 0 + (IF t \in {"stray", "stop", "move"} THEN 1 ELSE 0) <= e - commands
  BY <1>5
<1>7. Keeps(w, Append(queue, t), e)
  <2>1. MaxQueue \in Nat /\ e \in {commands, commands + 1} /\ e \in 0 .. MaxCommands
    BY <1>4, <1>5, KeepsFacts
  <2>2. /\ w.own = "queue" <=> w.own = "queue" \/ t = "own"
        /\ t = "own" => w.own # "queue"
        /\ t = "stray" => w.late
    BY <1>3
  <2>3. Len(queue) < MaxQueue
    BY <1>1
  <2> DEFINE d == 0
  <2>4. d \in Int /\ Becomes(w, w, d) /\ d + (IF t \in {"stray", "stop", "move"} THEN 1 ELSE 0) <= e - commands
    BY <1>2, <1>6
  <2> HIDE DEF d
  <2>5. QED
    BY <1>3, <2>1, <2>2, <2>3, <2>4, Posted
<1>8. QED
  BY <1>1, <1>4, <1>7

LEMMA SetSpeedKeeps ==
  ASSUME We!WalkEventsAssumption, Keeps(w, queue, commands), NEW b \in BOOLEAN, We!SetSpeed(b)
  PROVE  Keeps(w', queue', commands')
<1> DEFINE f == [w EXCEPT !.fast = b]
           s == IF b THEN IF w.path = 0 THEN f ELSE We!AddEventWalk(f) ELSE We!StopEventWalk(f)
<1>1. /\ w' = s /\ queue' = We!Rest(queue, w, s)
      /\ commands' = commands + 1 /\ commands < MaxCommands /\ (w.fast <=> ~b)
  <2>1. CASE b
    <3>1. b = TRUE
      BY <2>1
    <3>2. QED
      BY <2>1, <3>1, KeepsFacts DEF We!SetSpeed, We!Bounded, Person
  <2>2. CASE ~b
    <3>1. b = FALSE
      BY <2>2
    <3>2. QED
      BY <2>2, <3>1, KeepsFacts DEF We!SetSpeed, We!Bounded, Person
  <2>3. QED
    BY <2>1, <2>2
<1>2. /\ f \in Person /\ f.act = w.act /\ f.path = w.path /\ f.own = w.own
      /\ f.stray = w.stray /\ (f.task <=> w.task)
      /\ (f.alive <=> w.alive) /\ (f.fast <=> b) /\ (f.late <=> w.late)
  BY KeepsFacts, SetFast
<1> HIDE DEF f
<1>3. Single(f)
  BY <1>2, KeepsFacts DEF Single
<1>4. b => w.own \notin {"sched", "queue"}
  BY <1>1, KeepsFacts DEF Walks
<1> DEFINE Good == /\ s \in Person /\ Single(s) /\ Walks(s) /\ s.stray = w.stray /\ s.own # "run"
                   /\ (s.alive <=> w.alive) /\ (w.late => s.late)
                   /\ (s.own = "queue" => w.own = "queue")
                   /\ (w.own = "queue" /\ s.own # "queue" => s.late)
<1>5. ASSUME b, w.path = 0 PROVE Good
  <2>1. s = f
    BY <1>5
  <2> HIDE DEF s
  <2>2. Walks(f)
    BY <1>2, <1>4, <1>5 DEF Walks
  <2>3. QED
    BY <1>2, <1>3, <1>4, <1>5, <2>1, <2>2, KeepsFacts
<1>6. ASSUME b, w.path # 0 PROVE Good
  <2>1. s = We!AddEventWalk(f)
    BY <1>6
  <2> HIDE DEF s
  <2>2. /\ s \in Person /\ Single(s)
        /\ s.own = IF f.own = "no" /\ f.fast THEN "sched" ELSE f.own
        /\ s.path = f.path /\ s.stray = f.stray
        /\ (s.fast <=> f.fast) /\ (s.late <=> f.late) /\ (s.alive <=> f.alive)
    BY <1>2, <1>3, <1>4, <1>6, <2>1, AddEventWalkShape
  <2>3. Walks(s) /\ s.own # "run"
    BY <1>2, <1>4, <1>6, <2>2, KeepsFacts DEF Walks, Person
  <2>4. QED
    BY <1>2, <1>4, <1>6, <2>2, <2>3
<1>7. ASSUME ~b PROVE Good
  <2>1. s = We!StopEventWalk(f)
    BY <1>7
  <2> HIDE DEF s
  <2>2. /\ s \in Person /\ Single(s) /\ s.own = "no"
        /\ s.stray = f.stray
        /\ (s.fast <=> f.fast) /\ (s.late <=> f.late \/ f.own = "queue")
        /\ (s.alive <=> f.alive)
    BY <1>2, <1>3, <2>1, KeepsFacts, StopEventWalkShape
  <2>3. Walks(s)
    BY <1>2, <1>7, <2>2 DEF Walks
  <2>4. QED
    BY <1>2, <2>2, <2>3
<1>8. Good
  BY <1>5, <1>6, <1>7
<1> HIDE DEF s
<1>9. Dead(s) = Dead(w)
  BY <1>8 DEF Dead
<1>10. Becomes(w, s, 0)
  BY <1>8, <1>9, KeepsFacts DEF Becomes
<1>11. PICK e \in {commands, commands + 1} : e = commands + 1
  OBVIOUS
<1>12. e \in 0 .. MaxCommands /\ e - commands = 1
  BY <1>1, <1>11, KeepsFacts
<1>13. 0 + (IF w.own = "queue" /\ s.own # "queue" THEN 1 ELSE 0) <= e - commands
  BY <1>12
<1>14. Keeps(s, We!Rest(queue, w, s), e)
  BY <1>8, <1>10, <1>12, <1>13, Happened
<1>15. QED
  BY <1>1, <1>11, <1>14

LEMMA LoseHealthKeeps ==
  ASSUME We!WalkEventsAssumption, Keeps(w, queue, commands), We!LoseHealth
  PROVE  Keeps(w', queue', commands')
<1> DEFINE s == [w EXCEPT !.alive = FALSE]
<1>1. /\ w' = s /\ queue' = queue /\ commands' = commands + 1 /\ commands < MaxCommands /\ w.alive
  BY DEF We!LoseHealth, We!Bounded
<1>2. /\ s \in Person /\ s.act = w.act /\ s.path = w.path /\ s.own = w.own
      /\ s.stray = w.stray /\ (s.task <=> w.task)
      /\ ~s.alive /\ (s.fast <=> w.fast) /\ (s.late <=> w.late)
  <2>1. FALSE \in BOOLEAN /\ w \in Person
    BY KeepsFacts
  <2>2. QED
    BY <2>1, SetAlive, Zenon
<1> HIDE DEF s
<1>3. Single(s) /\ Walks(s)
  BY <1>2, KeepsFacts DEF Single, Walks
<1>4. Dead(s) = 1 /\ Dead(w) = 0
  BY <1>1, <1>2 DEF Dead
<1>5. Becomes(w, s, 1)
  BY <1>2, <1>3, <1>4, KeepsFacts DEF Becomes
<1>6. PICK e \in {commands, commands + 1} : e = commands + 1
  OBVIOUS
<1>7. e \in 0 .. MaxCommands /\ e - commands = 1
  BY <1>1, <1>6, KeepsFacts
<1>8. 1 + (IF w.own = "queue" /\ s.own # "queue" THEN 1 ELSE 0) <= e - commands
  BY <1>2, <1>7
<1>9. Keeps(s, We!Rest(queue, w, s), e)
  BY <1>2, <1>5, <1>7, <1>8, Happened
<1>10. We!Rest(queue, w, s) = queue
  BY <1>2, RestSame
<1>11. QED
  BY <1>1, <1>6, <1>9, <1>10

LEMMA ReviveKeeps ==
  ASSUME We!WalkEventsAssumption, Keeps(w, queue, commands), NEW b \in BOOLEAN, We!Revive(b)
  PROVE  Keeps(w', queue', commands')
<1> DEFINE f == [w EXCEPT !.alive = TRUE]
           s == IF b THEN We!StopEventWalk(f) ELSE f
<1>1. w' = s /\ queue' = We!Rest(queue, w, s) /\ commands' = commands /\ ~w.alive
  BY DEF We!Revive
<1>2. /\ f \in Person /\ f.act = w.act /\ f.path = w.path /\ f.own = w.own
      /\ f.stray = w.stray /\ (f.task <=> w.task)
      /\ f.alive /\ (f.fast <=> w.fast) /\ (f.late <=> w.late)
  <2>1. TRUE \in BOOLEAN /\ w \in Person
    BY KeepsFacts
  <2>2. QED
    BY <2>1, SetAlive, Zenon
<1> HIDE DEF f
<1>3. Single(f) /\ Walks(f)
  BY <1>2, KeepsFacts DEF Single, Walks
<1>4. LET t == We!StopEventWalk(f)
      IN  /\ t \in Person /\ Single(t) /\ t.own = "no"
          /\ t.path = IF f.own = "no" THEN f.path ELSE 0
          /\ t.stray = f.stray
          /\ (t.fast <=> f.fast) /\ (t.late <=> f.late \/ f.own = "queue")
          /\ (t.alive <=> f.alive)
  BY <1>2, <1>3, KeepsFacts, StopEventWalkShape
<1> DEFINE Good == /\ s \in Person /\ Single(s) /\ Walks(s) /\ s.stray = w.stray /\ s.own # "run"
                   /\ s.alive /\ (w.late => s.late)
                   /\ (s.own = "queue" => w.own = "queue")
                   /\ (w.own = "queue" /\ s.own # "queue" => s.late)
<1>5. ASSUME b PROVE Good
  <2>1. s = We!StopEventWalk(f)
    BY <1>5
  <2> HIDE DEF s
  <2>2. Walks(s)
    BY <1>3, <1>4, <2>1 DEF Walks
  <2>3. QED
    BY <1>2, <1>4, <2>1, <2>2
<1>6. ASSUME ~b PROVE Good
  <2>1. s = f
    BY <1>6
  <2> HIDE DEF s
  <2>2. QED
    BY <1>2, <1>3, <2>1, KeepsFacts
<1>7. Good
  BY <1>5, <1>6
<1> HIDE DEF s
<1>8. Dead(s) = 0 /\ Dead(w) = 1
  BY <1>1, <1>7 DEF Dead
<1>9. -1 \in Int /\ s.stray + Dead(s) <= w.stray + Dead(w) + (-1)
  BY <1>7, <1>8, KeepsFacts
<1>10. Becomes(w, s, -1)
  BY <1>7, <1>9, KeepsFacts DEF Becomes
<1>11. (-1) + (IF w.own = "queue" /\ s.own # "queue" THEN 1 ELSE 0) <= commands - commands
  BY KeepsFacts
<1>12. Keeps(s, We!Rest(queue, w, s), commands)
  BY <1>7, <1>9, <1>10, <1>11, KeepsFacts, Happened
<1>13. QED
  BY <1>1, <1>12

LEMMA KeepsNext ==
  ASSUME We!WalkEventsAssumption, Keeps(w, queue, commands), We!Next
  PROVE  Keeps(w', queue', commands')
<1>1. ASSUME We!Dispatch PROVE Keeps(w', queue', commands')
  <2>1. queue # <<>>
    BY <1>1 DEF We!Dispatch
  <2>2. CASE Head(queue) = "own" /\ We!CheckCreatureWalk(TRUE)
    <3>1. Head(queue) = (IF TRUE THEN "own" ELSE "stray") /\ TRUE \in BOOLEAN
      BY <2>2
    <3>2. QED
      BY <2>1, <2>2, <3>1, WalkKeeps
  <2>3. CASE Head(queue) = "stray" /\ We!CheckCreatureWalk(FALSE)
    <3>1. Head(queue) = (IF FALSE THEN "own" ELSE "stray") /\ FALSE \in BOOLEAN
      BY <2>3
    <3>2. QED
      BY <2>1, <2>3, <3>1, WalkKeeps
  <2>4. CASE UNCHANGED commands /\ Head(queue) = "stop" /\ We!PlayerStopAutoWalk
    BY <2>1, <2>4, StopKeeps
  <2>5. CASE UNCHANGED commands /\ Head(queue) = "move" /\ We!PlayerMove
    BY <2>1, <2>5, MoveKeeps
  <2>6. CASE UNCHANGED commands /\ Head(queue) \in {"use", "act"} /\ We!PlayerUseItem
    BY <2>1, <2>6, UseKeeps
  <2>7. CASE UNCHANGED commands /\ Head(queue) = "walk" /\ We!PlayerAutoWalk
    BY <2>1, <2>7, AutoWalkKeeps
  <2>8. QED
    BY <1>1, <2>2, <2>3, <2>4, <2>5, <2>6, <2>7 DEF We!Dispatch
<1>2. ASSUME NEW t \in We!Command, We!Ask(t) PROVE Keeps(w', queue', commands')
  BY <1>2, AskKeeps
<1>3. ASSUME NEW b \in BOOLEAN, We!SetSpeed(b) \/ We!Revive(b) PROVE Keeps(w', queue', commands')
  BY <1>3, SetSpeedKeeps, ReviveKeeps
<1>4. QED
  BY <1>1, <1>2, <1>3, DueOwnKeeps, DueStrayKeeps, DueActKeeps, LoseHealthKeeps DEF We!Next

\* For any length of the path and of the list, and any number of commands: a player who may
\* walk goes on, there is one chain of events unless a stop came too late or a step started
\* a walk, one action waits, and who is paralysed has no event (WalkSound of WalkEvents).
THEOREM WalkCorrect ==
  ASSUME We!WalkEventsAssumption
  PROVE  We!Spec => []We!WalkSound
<1> DEFINE Kept == Keeps(w, queue, commands)
<1>1. We!Init => Kept
  BY KeepsInit
<1>2. Kept /\ [We!Next]_(We!vars) => Kept'
  <2>1. SUFFICES ASSUME Kept, [We!Next]_(We!vars) PROVE Kept'
    OBVIOUS
  <2>2. CASE We!Next
    BY <2>1, <2>2, KeepsNext
  <2>3. CASE UNCHANGED We!vars
    <3>1. w' = w /\ queue' = queue /\ commands' = commands
      BY <2>3 DEF We!vars
    <3>2. Keeps(w', queue', commands')
      BY <2>1, <3>1
    <3>3. QED
      BY <3>2
  <2>4. QED
    BY <2>1, <2>2, <2>3
<1>3. Kept => We!WalkSound
  BY KeepsSound
<1> HIDE DEF Kept
<1>4. QED
  BY <1>1, <1>2, <1>3, PTL DEF We!Spec
=============================================================================
