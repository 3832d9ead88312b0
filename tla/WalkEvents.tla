----------------------------- MODULE WalkEvents -----------------------------
(***************************************************************************)
(* How a player walks (src/src/creature.cpp, player.cpp, game.cpp): a path *)
(* is walked by an event that adds itself again after each step, eventWalk *)
(* names that event, and an action that waits for the end of the path is   *)
(* handed to the scheduler by onWalkComplete().                            *)
(*                                                                         *)
(* An event is in the scheduler until it is due, then in the list of the   *)
(* dispatcher, where stopEvent() does not find it any more.  Commands of   *)
(* the client come through the same list.  An event that eventWalk no      *)
(* longer names is called stray here; the program has no word for it.      *)
(* Delays are left out: an event may be due at any time, and a step is     *)
(* always allowed when it is (getWalkDelay() is 0).                        *)
(***************************************************************************)
EXTENDS Integers, Sequences

CONSTANTS MaxPath,      \* bound: the length of a path
          MaxCommands,  \* bound on what the client and the game do to the player
          MaxQueue      \* bound on the dispatcher's list

WalkEventsAssumption ==
  MaxPath \in Nat \ {0} /\ MaxCommands \in Nat /\ MaxQueue \in Nat

VARIABLES w,         \* the player (see Walker)
          queue,     \* the dispatcher's list
          commands   \* how many commands there were

vars == <<w, queue, commands>>

(* path: the steps left in listWalkDir.  own: where the event is that eventWalk names; *)
(* "no" if it names none, "run" while it is executed, "lost" if it was executed while  *)
(* the player had no health.  stray: other walk events in the scheduler.  task:        *)
(* walkTask is set.  act: the event of the task is in the scheduler, as walkTaskEvent. *)
(* late: a stop came when the event had left the scheduler, or a step started a walk.  *)
Walker == [path : 0 .. MaxPath, own : {"no", "sched", "queue", "run", "lost"},
           stray : 0 .. MaxCommands, task : BOOLEAN, act : 0 .. 1,
           alive : BOOLEAN, fast : BOOLEAN, late : BOOLEAN]

Command == {"stop", "move", "use", "walk"}
Token == Command \cup {"own", "stray", "act"}

TypeOK ==
  /\ w \in Walker
  /\ queue \in Seq(Token) /\ Len(queue) <= MaxQueue
  /\ commands \in 0 .. MaxCommands

Init ==
  /\ w = [path |-> 0, own |-> "no", stray |-> 0, task |-> FALSE, act |-> 0,
          alive |-> TRUE, fast |-> TRUE, late |-> FALSE]
  /\ queue = <<>>
  /\ commands = 0

-----------------------------------------------------------------------------
(* The functions of the player                                             *)

\* Creature::addEventWalk(); without speed a step takes no time and none is added.
AddEventWalk(r) ==
  IF r.own # "no" \/ ~r.fast THEN r ELSE [r EXCEPT !.own = "sched"]

\* Player::setNextWalkActionTask()
SetNextWalkAction(r, task) == [r EXCEPT !.task = task, !.act = 0]

\* Creature::stopEventWalk() and Player::onWalkAborted()
StopEventWalk(r) ==
  IF r.own = "no" THEN r
  ELSE LET s == [r EXCEPT !.own = "no", !.late = @ \/ r.own = "queue"]
       IN  IF r.path = 0 THEN s ELSE SetNextWalkAction([s EXCEPT !.path = 0], FALSE)

\* Player::stopWalk()
StopWalk(r) == IF r.path = 0 THEN r ELSE StopEventWalk(r)

\* Creature::startAutoWalk()
StartAutoWalk(r, n) == AddEventWalk([r EXCEPT !.path = n])

\* Player::onWalkComplete()
OnWalkComplete(r) == IF r.task THEN [r EXCEPT !.task = FALSE, !.act = @ + 1] ELSE r

\* What is in the list when the event in it is not the player's any more.
Orphaned(q) == [i \in DOMAIN q |-> IF q[i] = "own" THEN "stray" ELSE q[i]]

\* The list after what was done to the player turned r into s.
Rest(q, r, s) == IF r.own = "queue" /\ s.own # "queue" THEN Orphaned(q) ELSE q

-----------------------------------------------------------------------------
(* The tasks the dispatcher executes                                       *)

\* Creature::onWalk(). A step may lead into a teleport, which stops the walk, or onto a
\* script that starts another one: step says which.
OnWalk(r, step) ==
  LET moved == IF r.path = 0 THEN r
               ELSE LET s == [r EXCEPT !.path = @ - 1]
                    IN  CASE step = "plain" -> s
                          [] step = "teleport" -> StopEventWalk(s)
                          [] step = "script" ->
                               [StartAutoWalk(StopEventWalk(s), MaxPath) EXCEPT !.late = TRUE]
      done == IF moved.path = 0 THEN OnWalkComplete(moved) ELSE moved
      again == AddEventWalk([done EXCEPT !.own = "no"])
  IN  IF done.own = "no" THEN done
      ELSE IF done.own = "sched" THEN [again EXCEPT !.stray = @ + 1]
      ELSE again

Bounded == commands < MaxCommands /\ commands' = commands + 1

\* Game::checkCreatureWalk(), of the event that eventWalk names or of a stray one.
CheckCreatureWalk(own) ==
  LET r == IF own THEN [w EXCEPT !.own = "run"] ELSE w
  IN  IF ~w.alive THEN /\ w' = IF own THEN [w EXCEPT !.own = "lost"] ELSE w
                       /\ queue' = Tail(queue) /\ UNCHANGED commands
      ELSE \E step \in {"plain", "teleport", "script"} :
             /\ IF step = "script" THEN Bounded ELSE UNCHANGED commands
             /\ w' = OnWalk(r, step)
             /\ queue' = Rest(Tail(queue), w, w')

\* Game::playerAutoWalk()
PlayerAutoWalk ==
  /\ w' = StartAutoWalk(w, MaxPath)
  /\ queue' = Tail(queue)

\* Game::playerStopAutoWalk()
PlayerStopAutoWalk ==
  /\ w' = StopWalk(w)
  /\ queue' = Rest(Tail(queue), w, w')

\* Game::playerMove(): setFollowCreature(NULL) stops the walk as well.
PlayerMove ==
  /\ w' = StopEventWalk(StopWalk(w))
  /\ queue' = Rest(Tail(queue), w, w')

\* Game::playerUseItem() and its like: near enough, out of reach, or after a walk.
PlayerUseItem ==
  \/ /\ UNCHANGED w
     /\ queue' = Tail(queue)
  \/ /\ w' = SetNextWalkAction(w, TRUE)
     /\ queue' = Append(Tail(queue), "walk")

\* The dispatcher executes the first task of its list.
Dispatch ==
  /\ queue # <<>>
  /\ \/ Head(queue) = "own" /\ CheckCreatureWalk(TRUE)
     \/ Head(queue) = "stray" /\ CheckCreatureWalk(FALSE)
     \/ /\ UNCHANGED commands
        /\ \/ Head(queue) = "stop" /\ PlayerStopAutoWalk
           \/ Head(queue) = "move" /\ PlayerMove
           \/ Head(queue) \in {"use", "act"} /\ PlayerUseItem
           \/ Head(queue) = "walk" /\ PlayerAutoWalk

-----------------------------------------------------------------------------
(* The scheduler, the client and the game                                  *)

Post(token) == Len(queue) < MaxQueue /\ queue' = Append(queue, token)

\* Scheduler::schedulerThread() hands an event that is due to the dispatcher.
DueOwn == w.own = "sched" /\ Post("own") /\ w' = [w EXCEPT !.own = "queue"] /\ UNCHANGED commands
DueStray == w.stray > 0 /\ Post("stray") /\ w' = [w EXCEPT !.stray = @ - 1] /\ UNCHANGED commands
DueAct == w.act > 0 /\ Post("act") /\ w' = [w EXCEPT !.act = @ - 1] /\ UNCHANGED commands

\* A packet of the client.
Ask(c) == Bounded /\ Post(c) /\ UNCHANGED w

\* Variant: the walk is not taken up again.
SetSpeedForgets(fast) ==
  /\ Bounded /\ fast # w.fast
  /\ w' = IF fast THEN [w EXCEPT !.fast = TRUE] ELSE StopEventWalk([w EXCEPT !.fast = FALSE])
  /\ queue' = Rest(queue, w, w')

\* Creature::setSpeed(), to nothing (a paralysis) or from it.
SetSpeed(fast) ==
  /\ Bounded /\ fast # w.fast
  /\ w' = IF fast THEN IF w.path = 0 THEN [w EXCEPT !.fast = TRUE]
                       ELSE AddEventWalk([w EXCEPT !.fast = TRUE])
          ELSE StopEventWalk([w EXCEPT !.fast = FALSE])
  /\ queue' = Rest(queue, w, w')

LoseHealth == Bounded /\ w.alive /\ w' = [w EXCEPT !.alive = FALSE] /\ UNCHANGED queue

\* Creature::onDeath() denied by a script that heals him; or Player::dropCorpse() in an
\* arena, which heals and teleports him.
Revive(teleport) ==
  /\ ~w.alive
  /\ w' = IF teleport THEN StopEventWalk([w EXCEPT !.alive = TRUE]) ELSE [w EXCEPT !.alive = TRUE]
  /\ queue' = Rest(queue, w, w')
  /\ UNCHANGED commands

Next ==
  \/ Dispatch \/ DueOwn \/ DueStray \/ DueAct \/ LoseHealth
  \/ \E c \in Command : Ask(c)
  \/ \E b \in BOOLEAN : SetSpeed(b) \/ Revive(b)

\* The two threads go on; a script may always deny a death but never has to.
Fairness == WF_vars(Dispatch) /\ WF_vars(DueOwn) /\ WF_vars(DueStray) /\ WF_vars(DueAct)

Spec == Init /\ [][Next]_vars /\ Fairness

-----------------------------------------------------------------------------
(* What makes it correct                                                   *)

\* A player who may walk and has a path has an event that will make his next step, unless
\* one came while he had no health: then the chain is broken and eventWalk names nothing.
GoesOn == w.path > 0 /\ w.fast /\ w.own # "lost" => w.own \in {"sched", "queue"}

\* There is one chain of events, unless a stop came when the event had left the scheduler
\* or a step started a walk; no other order of commands makes two.
OneChain == w.stray > 0 \/ (\E i \in DOMAIN queue : queue[i] = "stray") => w.late

\* The action after a walk waits in one place: a new one replaces the old one, whether its
\* walk is over or not.
OneAction == w.act + (IF w.task THEN 1 ELSE 0) <= 1

\* Who is paralysed has no event of his own left.
SlowStands == ~w.fast => w.own \notin {"sched", "queue"}

\* The events of a walk.
WalkSound == TypeOK /\ GoesOn /\ OneChain /\ OneAction /\ SlowStands

\* A path is walked to its end or given up, if the player keeps his health and his speed.
Arrives == w.path > 0 ~> w.path = 0 \/ ~w.alive \/ ~w.fast \/ w.own = "lost"
=============================================================================
