------------------------------ MODULE Database ------------------------------
(***************************************************************************)
(* Transactions over the one connection to the database (database.h, with  *)
(* the driver of databasemysql.cpp).                                       *)
(*                                                                         *)
(* Two threads use the connection: the dispatcher, which saves players and *)
(* houses, and the thread of the network, which answers a login and writes *)
(* the account.  A DBQuery locks the database from its construction to its *)
(* destruction; a DBTransaction and the keep-alive do not.  savePlayer()   *)
(* has a DBQuery around its transaction, saveHouses() one for each house   *)
(* inside it.                                                              *)
(*                                                                         *)
(* A statement takes two steps, in and out of the client library.  It may  *)
(* fail; the server may drop the session, and with it what was not         *)
(* committed, and be away for a while.                                     *)
(***************************************************************************)
EXTENDS Naturals, Sequences, FiniteSets

CONSTANTS
  Jobs,       \* what the dispatcher does: among "player", "houses", "ping"
  MaxJobs,    \* bound: the jobs of the dispatcher
  MaxWrites,  \* bound: the writes of the network thread
  MaxErrors,  \* bound: the statements that fail
  MaxLosses   \* bound: the sessions that are lost

ASSUME DatabaseAssumption ==
  /\ Jobs \subseteq {"player", "houses", "ping"}
  /\ {MaxJobs, MaxWrites, MaxErrors, MaxLosses} \subseteq Nat

VARIABLES
  rows,       \* what is committed: for each row the number of its last write
  session,    \* the server's side of the connection
  reachable,  \* the server accepts connections
  connected,  \* m_connected
  gaveUp,     \* m_attempts is above MAX_RECONNECT_ATTEMPTS
  lock,       \* who holds databaseLock
  inside,     \* the threads that are inside the client library
  job,        \* what the dispatcher does, and the statement it has come to
  jobs,       \* the jobs so far
  net,        \* what the network thread does
  writes,     \* its writes so far, and the last one that it was told is done
  faults      \* errors and losses so far
vars == <<rows, session, reachable, connected, gaveUp, lock, inside, job, jobs,
          net, writes, faults>>

Rows == {"p1", "p2", "h1", "h2", "account"}
Idle == [kind |-> "idle", at |-> 0]

\* The statements of a job; savePlayer writes two of its tables, saveHouses two
\* of the houses.
Statements(kind) ==
  IF kind = "player" THEN <<"begin", "p1", "p2", "commit">>
  ELSE IF kind = "houses" THEN <<"begin", "h1", "h2", "commit">> ELSE <<"ping">>
Statement == Statements(job.kind)[job.at]

\* Variant: savePlayer locks the database for each statement only.
LocksWholeNever(kind) == FALSE
\* The job holds the lock from its first statement to its last.
LocksWhole(kind) == kind = "player"
\* The statement is inside a DBQuery.
Locks == LocksWhole(job.kind) \/ Statement \in Rows

TypeOK ==
  /\ rows \in [Rows -> 0 .. MaxJobs + MaxWrites]
  /\ session \in [up : BOOLEAN, tx : BOOLEAN, pending : [Rows -> 0 .. MaxJobs + MaxWrites]]
  /\ reachable \in BOOLEAN /\ connected \in BOOLEAN /\ gaveUp \in BOOLEAN
  /\ lock \in {"free", "dispatcher", "net"}
  /\ inside \subseteq {"dispatcher", "net"}
  /\ job \in [kind : {"idle"} \union Jobs, at : 0 .. 4] /\ jobs \in 0 .. MaxJobs
  /\ net \in {"idle", "locked"}
  /\ writes \in [made : 0 .. MaxWrites, done : 0 .. MaxWrites]
  /\ faults \in [errors : 0 .. MaxErrors, losses : 0 .. MaxLosses]

Nothing == [r \in Rows |-> 0]
NewSession == [up |-> TRUE, tx |-> FALSE, pending |-> Nothing]

Init ==
  /\ rows = Nothing /\ session = NewSession
  /\ reachable = TRUE /\ connected = TRUE /\ gaveUp = FALSE
  /\ lock = "free" /\ inside = {} /\ net = "idle" /\ job = Idle /\ jobs = 0
  /\ writes = [made |-> 0, done |-> 0]
  /\ faults = [errors |-> 0, losses |-> 0]

-----------------------------------------------------------------------------
(* The server *)

Merged(s) == [r \in Rows |-> IF s.pending[r] > 0 THEN s.pending[r] ELSE rows[r]]

\* COMMIT, and BEGIN, end the transaction that is open.
Commit(s) == rows' = Merged(s) /\ session' = [s EXCEPT !.tx = FALSE, !.pending = Nothing]
Begin(s) == rows' = Merged(s) /\ session' = [s EXCEPT !.tx = TRUE, !.pending = Nothing]
\* A write goes to the open transaction, or is committed at once.
Write(s, r, n) ==
  IF s.tx THEN session' = [s EXCEPT !.pending[r] = n] /\ UNCHANGED rows
  ELSE session' = s /\ rows' = [rows EXCEPT ![r] = n]
\* DatabaseMySQL::rollback
Rollback == session' = [session EXCEPT !.tx = FALSE, !.pending = Nothing]

\* What the server does for a statement.
Serve(s, statement, n) ==
  IF statement = "begin" THEN Begin(s)
  ELSE IF statement = "commit" THEN Commit(s)
  ELSE IF statement = "ping" THEN session' = s /\ UNCHANGED rows
  ELSE Write(s, statement, n)

-----------------------------------------------------------------------------
(* The client library *)

Usable == connected /\ session.up

\* executeQuery on a live session.
Succeeds(statement, n) ==
  /\ Usable
  /\ Serve(session, statement, n)
  /\ UNCHANGED <<connected, gaveUp, faults>>

\* The session was lost: reconnect, and the statement once more.  A commit is
\* not repeated.
Reconnects(statement, n) ==
  /\ connected /\ ~session.up /\ reachable /\ ~gaveUp /\ statement # "commit"
  /\ Serve(NewSession, statement, n)
  /\ UNCHANGED <<connected, gaveUp, faults>>

\* The statement fails, or no connection is left to try it on; after a series
\* of failed attempts there is never another.
Fails(statement) ==
  /\ \/ /\ ~connected
        /\ UNCHANGED <<connected, gaveUp, faults>>
     \/ /\ Usable /\ statement \in Rows /\ faults.errors < MaxErrors
        /\ faults' = [faults EXCEPT !.errors = @ + 1]
        /\ UNCHANGED <<connected, gaveUp>>
     \/ /\ connected /\ ~session.up /\ statement = "commit"
        /\ UNCHANGED <<connected, gaveUp, faults>>
     \/ /\ connected /\ ~session.up /\ statement # "commit" /\ ~reachable
        /\ connected' = FALSE /\ gaveUp' = TRUE /\ UNCHANGED faults

LoseSession ==
  /\ session.up /\ faults.losses < MaxLosses
  /\ session' = [NewSession EXCEPT !.up = FALSE]
  /\ reachable' \in BOOLEAN
  /\ faults' = [faults EXCEPT !.losses = @ + 1]
  /\ UNCHANGED <<rows, connected, gaveUp, lock, inside, job, jobs, net, writes>>

ServerBack ==
  /\ ~reachable /\ reachable' = TRUE
  /\ UNCHANGED <<rows, session, connected, gaveUp, lock, inside, job, jobs, net,
                 writes, faults>>

-----------------------------------------------------------------------------
(* The dispatcher *)

Start(kind) ==
  /\ job = Idle /\ jobs < MaxJobs
  /\ LocksWhole(kind) => lock = "free"
  /\ lock' = IF LocksWhole(kind) THEN "dispatcher" ELSE lock
  /\ job' = [kind |-> kind, at |-> 1] /\ jobs' = jobs + 1
  /\ UNCHANGED <<rows, session, reachable, connected, gaveUp, inside, net, writes,
                 faults>>

\* Into the library, with the lock if the statement needs it.
Send ==
  /\ job # Idle /\ "dispatcher" \notin inside
  /\ IF Locks /\ lock # "dispatcher"
       THEN lock = "free" /\ lock' = "dispatcher" ELSE UNCHANGED lock
  /\ inside' = inside \union {"dispatcher"}
  /\ UNCHANGED <<rows, session, reachable, connected, gaveUp, job, jobs, net, writes,
                 faults>>

\* Out of the library; the lock of a single statement, or of the whole job if
\* it ends, is released.
Leaves(ends) ==
  /\ inside' = inside \ {"dispatcher"}
  /\ job' = IF ends THEN Idle ELSE [job EXCEPT !.at = @ + 1]
  /\ lock' = IF lock = "dispatcher" /\ (ends \/ ~LocksWhole(job.kind))
               THEN "free" ELSE lock
  /\ UNCHANGED <<reachable, jobs, net, writes>>

Last == job.at = Len(Statements(job.kind))

\* The statement is done.
Done ==
  /\ "dispatcher" \in inside
  /\ Succeeds(Statement, jobs) \/ Reconnects(Statement, jobs)
  /\ Leaves(Last)

\* saveHouses ignores what saveHouse returns.
PassesOver == job.kind = "houses" /\ Statement \in Rows

\* The statement failed: the job returns, and the destructor of its
\* transaction rolls back, unless it was about to commit.
Failed ==
  /\ "dispatcher" \in inside
  /\ Fails(Statement)
  /\ IF PassesOver \/ Statement \in {"ping", "commit"} \/ ~connected'
       THEN UNCHANGED session ELSE Rollback
  /\ UNCHANGED rows
  /\ Leaves(~PassesOver)

-----------------------------------------------------------------------------
(* The thread of the network: ProtocolLogin saves the account *)

NetLock ==
  /\ net = "idle" /\ lock = "free" /\ writes.made < MaxWrites
  /\ net' = "locked" /\ lock' = "net" /\ inside' = inside \union {"net"}
  /\ writes' = [writes EXCEPT !.made = @ + 1]
  /\ UNCHANGED <<rows, session, reachable, connected, gaveUp, job, jobs, faults>>

\* Variant: a write that failed does not unlock.
NetLeavesLocked(done) ==
  /\ net' = "idle" /\ lock' = (IF done THEN "free" ELSE lock)
  /\ inside' = inside \ {"net"}
  /\ writes' = IF done THEN [writes EXCEPT !.done = writes.made] ELSE writes
  /\ UNCHANGED <<reachable, job, jobs>>
NetLeaves(done) ==
  /\ net' = "idle" /\ lock' = "free" /\ inside' = inside \ {"net"}
  /\ writes' = IF done THEN [writes EXCEPT !.done = writes.made] ELSE writes
  /\ UNCHANGED <<reachable, job, jobs>>

NetWrites ==
  /\ net = "locked"
  /\ \/ /\ Succeeds("account", writes.made) \/ Reconnects("account", writes.made)
        /\ NetLeaves(TRUE)
     \/ /\ Fails("account")
        /\ UNCHANGED <<rows, session>>
        /\ NetLeaves(FALSE)

Next ==
  \/ LoseSession \/ ServerBack
  \/ \E kind \in Jobs : Start(kind)
  \/ Send \/ Done \/ Failed
  \/ NetLock \/ NetWrites

Spec == Init /\ [][Next]_vars

\* A thread that is in a job or in the library goes on; the lock is fair.
FairSpec == Spec /\ SF_vars(Send) /\ WF_vars(Done \/ Failed) /\ WF_vars(NetWrites)

-----------------------------------------------------------------------------
(* Properties *)

\* What the network thread was told is written stays written: no transaction
\* of savePlayer takes it in, and back.  One of saveHouses may.
AccountStays == "houses" \notin Jobs => rows["account"] >= writes.done

\* Until a session is lost, a player is saved whole or not at all.
AllOrNothing == faults.losses = 0 => rows["p1"] = rows["p2"]

\* The lock is never left behind, and a transaction of a job neither.
LeavesNothing ==
  job = Idle /\ net = "idle" => lock = "free" /\ inside = {} /\ ~session.tx

\* "Thread locking hack. By using this class for your queries you lock and
\* unlock database for threads": one thread at a time is in the library, but
\* for saveHouses and the keep-alive, which do without a DBQuery.
OneAtATime == Jobs \subseteq {"player"} => Cardinality(inside) <= 1

\* Writes stay written and whole, and nothing is left behind.
DatabaseSound == TypeOK /\ AccountStays /\ AllOrNothing /\ LeavesNothing /\ OneAtATime

\* Every job ends, whatever the server does.
Ends == (job # Idle) ~> (job = Idle)

\* "Each of the returns boolean value. [...] true on success": a commit that
\* returned true has saved all the statements of the job.
CommitSaves ==
  [][job.kind = "player" /\ Statement = "commit" /\ job' = Idle /\ Usable
     => rows'["p1"] = jobs /\ rows'["p2"] = jobs]_vars

=============================================================================
