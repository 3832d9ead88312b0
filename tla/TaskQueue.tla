----------------------------- MODULE TaskQueue -----------------------------
(***************************************************************************)
(* What the dispatcher promises to the code that posts work to it, with no *)
(* thread, lock or condition variable: a two-class queue.  Urgent work     *)
(* (the pool's message releases, posted with front = true) is served last  *)
(* in first out and before everything else; ordinary work is served in     *)
(* the order in which it was accepted.  One piece of work is served at a   *)
(* time, except that the work which closes the queue for good serves what  *)
(* is left from inside itself.  Dispatcher.tla implements this module.     *)
(***************************************************************************)
EXTENDS Naturals, Sequences

CONSTANTS Tasks,        \* the units of work, each submitted at most once
          FrontTasks    \* the urgent ones

VARIABLES urgent,       \* accepted urgent work, most recent first
          normal,       \* accepted ordinary work, oldest first
          active,       \* call stack of the work being served
          stage,        \* what became of each task
          gate          \* does the queue take new work, drain, or is it shut

qvars == <<urgent, normal, active, stage, gate>>

Stages == {"new", "waiting", "started", "ended", "refused"}
Gates  == {"open", "closed", "draining", "shut"}

QInit ==
  /\ urgent = <<>>
  /\ normal = <<>>
  /\ active = <<>>
  /\ stage = [t \in Tasks |-> "new"]
  /\ gate = "open"

Accept(t) ==
  /\ stage[t] = "new"
  /\ gate = "open"
  /\ stage' = [stage EXCEPT ![t] = "waiting"]
  /\ IF t \in FrontTasks
     THEN urgent' = <<t>> \o urgent /\ UNCHANGED normal
     ELSE normal' = Append(normal, t) /\ UNCHANGED urgent
  /\ UNCHANGED <<active, gate>>

Refuse(t) ==
  /\ stage[t] = "new"
  /\ gate # "open"
  /\ stage' = [stage EXCEPT ![t] = "refused"]
  /\ UNCHANGED <<urgent, normal, active, gate>>

\* Serving starts with the newest urgent task, else with the oldest one.
Start ==
  /\ Len(active) = IF gate = "draining" THEN 1 ELSE 0
  /\ gate # "shut"
  /\ \/ /\ urgent # <<>>
        /\ active' = Append(active, Head(urgent))
        /\ stage' = [stage EXCEPT ![Head(urgent)] = "started"]
        /\ urgent' = Tail(urgent)
        /\ UNCHANGED normal
     \/ /\ urgent = <<>>
        /\ normal # <<>>
        /\ active' = Append(active, Head(normal))
        /\ stage' = [stage EXCEPT ![Head(normal)] = "started"]
        /\ normal' = Tail(normal)
        /\ UNCHANGED urgent
  /\ UNCHANGED gate

End ==
  /\ active # <<>>
  /\ gate = "draining" => Len(active) = 2
  /\ stage' = [stage EXCEPT ![active[Len(active)]] = "ended"]
  /\ active' = SubSeq(active, 1, Len(active) - 1)
  /\ UNCHANGED <<urgent, normal, gate>>

\* The gate is moved by the task being served, and never back.
Close ==
  /\ Len(active) = 1
  /\ gate = "open"
  /\ gate' = "closed"
  /\ UNCHANGED <<urgent, normal, active, stage>>

Drain ==
  /\ Len(active) = 1
  /\ gate \in {"open", "closed"}
  /\ gate' = "draining"
  /\ UNCHANGED <<urgent, normal, active, stage>>

Shut ==
  /\ gate = "draining"
  /\ Len(active) = 1
  /\ urgent = <<>> /\ normal = <<>>
  /\ gate' = "shut"
  /\ UNCHANGED <<urgent, normal, active, stage>>

QNext ==
  \/ \E t \in Tasks : Accept(t) \/ Refuse(t)
  \/ Start \/ End \/ Close \/ Drain \/ Shut

QSpec == QInit /\ [][QNext]_qvars
=============================================================================
