----------------------------- MODULE TaskBoard -----------------------------
(***************************************************************************)
(* What orthos2's task manager promises about single tasks, with no        *)
(* database row, queue, poll loop or process in sight.  A requested task   *)
(* waits, is executed by at most one worker, its result is retired, and a  *)
(* crash of the task manager sends everything that was started and not yet *)
(* retired back to waiting: execution is at least once, and a request is   *)
(* never forgotten before it was executed.  TaskExecuter implements this.  *)
(***************************************************************************)
EXTENDS Naturals, FiniteSets

CONSTANTS Requests,     \* the requests (name, module, arguments) that can be made
          Unresolvable, \* those whose task class cannot be imported
          Workers       \* how many executions may be unretired at once

VARIABLE phase

Phases == {"none", "waiting", "executing", "done"}

BoardTypeOK == phase \in [Requests -> Phases]

Occupied == {t \in Requests : phase[t] \in {"executing", "done"}}

BoardInit == phase = [t \in Requests |-> "none"]

Move(t, from, to) == /\ phase[t] = from
                     /\ phase' = [phase EXCEPT ![t] = to]

BoardRequest(t) == Move(t, "none", "waiting")

BoardStart(t) == /\ Cardinality(Occupied) < Workers
                 /\ Move(t, "waiting", "executing")

BoardFinish(t) == Move(t, "executing", "done")

BoardRetire(t) == Move(t, "done", "none")

BoardDiscard(t) == /\ t \in Unresolvable
                   /\ Move(t, "waiting", "none")

BoardCrash ==
    phase' = [t \in Requests |-> IF t \in Occupied THEN "waiting" ELSE phase[t]]

BoardNext ==
    \/ BoardCrash
    \/ \E t \in Requests :
          \/ BoardRequest(t)
          \/ BoardStart(t)
          \/ BoardFinish(t)
          \/ BoardRetire(t)
          \/ BoardDiscard(t)

BoardSpec == BoardInit /\ [][BoardNext]_phase
=============================================================================
