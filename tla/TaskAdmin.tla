------------------------------ MODULE TaskAdmin -----------------------------
(***************************************************************************)
(* The task pages of the web frontend, and their twins in the API, next to *)
(* the running TaskExecuter.  Each request reads one row, changes the copy *)
(* and saves all of it, so whatever happened to the row in between is      *)
(* overwritten, and a row that was deleted in between is inserted again.   *)
(***************************************************************************)
EXTENDS TaskExecuter, Integers

CONSTANTS Admins,    \* the superusers with a request in progress
          MaxSaves   \* bound of the model: requests

ASSUME AdminAssumption == MaxSaves \in Nat

VARIABLES
    hand,        \* per superuser: the changed copy not yet saved, as a set
    gone,        \* daily tasks without a row (for the task manager as if disabled)
    saves,       \* how many requests were begun
    adminRuns,   \* history: saves of each daily task by a superuser
    credit       \* history: per single task, times its row became idle less starts

admin == <<hand, gone, saves>>
adminHistory == <<adminRuns, credit>>
allVars == <<vars, admin, adminHistory>>

AdminInit ==
    /\ Init
    /\ hand = [w \in Admins |-> {}]
    /\ gone = {}
    /\ saves = 0
    /\ adminRuns = [d \in DailyTasks |-> 0]
    /\ credit = [t \in SingleTasks |-> 0]

-----------------------------------------------------------------------------
Request(w) ==
    /\ hand[w] = {}
    /\ saves < MaxSaves
    /\ saves' = saves + 1

(* get_object_or_404, then the change to the instance.                     *)
Open(w, t, row) ==
    /\ Request(w)
    /\ t \notin gone
    /\ hand' = [hand EXCEPT ![w] =
                  {[task |-> t, becomes |-> t, row |-> row, deleted |-> FALSE]}]
    /\ UNCHANGED <<vars, gone, adminHistory>>

(* dailytask_execute: backdated by a day, whatever the time of day.        *)
Backdated(row) == [row EXCEPT !.executed = day - 1]

Execute(w, d) ==
    /\ dailyRow[d].enabled
    /\ ~dailyRow[d].running
    /\ Open(w, d, Backdated(dailyRow[d]))

(* dailytask_switch                                                        *)
Enable(w, d) ==
    Open(w, d, [dailyRow[d] EXCEPT !.enabled = TRUE, !.executed = day])

Disable(w, d) ==
    Open(w, d, [dailyRow[d] EXCEPT !.enabled = FALSE, !.running = FALSE])

(* dailytask_toggle_running and singletask_toggle_running                  *)
ToggleDaily(w, d) ==
    Open(w, d, [dailyRow[d] EXCEPT !.running = ~@])

ToggleSingle(w, t) ==
    /\ singleRow[t] # "absent"
    /\ Open(w, t, [running |-> singleRow[t] = "idle"])

(* The forms, which offer only classes that can be imported.  A daily task *)
(* keeps its row when it is edited; a single task with other arguments is  *)
(* another task, with the running flag of the first.                       *)
Schedulable == {t \in Tasks : Defect[t] # "import"}

EditDaily(w, d) ==
    \E enabled \in BOOLEAN :
        Open(w, d, [dailyRow[d] EXCEPT !.enabled = enabled])

EditSingle(w, t) ==
    \E other \in SingleTasks :
        /\ singleRow[t] # "absent"
        /\ other \in Schedulable
        /\ Request(w)
        /\ hand' = [hand EXCEPT ![w] =
                      {[task |-> t, becomes |-> other, row |-> [running |-> singleRow[t] = "running"],
                        deleted |-> FALSE]}]
        /\ UNCHANGED <<vars, gone, adminHistory>>

(* How a step of anybody moves the account of a single task.               *)
BecameIdle(t) == singleRow[t] # "idle" /\ singleRow'[t] = "idle"

Account ==
    credit' = [t \in SingleTasks |->
                 credit[t] + (IF BecameIdle(t) THEN 1 ELSE 0)
                           - (IF live'[t] > live[t] THEN 1 ELSE 0)]

(* Whoever holds a copy of a row that is deleted now.                      *)
Deletes(t) == t \in SingleTasks /\ singleRow[t] # "absent" /\ singleRow'[t] = "absent"

Seen(hands) ==
    [w \in Admins |-> {[h EXCEPT !.deleted = @ \/ Deletes(h.task)] : h \in hands[w]}]

SaveDaily(w, d) ==
    \E h \in hand[w] :
        /\ h.task = d
        /\ dailyRow' = [dailyRow EXCEPT ![d] = h.row]
        /\ hand' = [hand EXCEPT ![w] = {}]
        /\ gone' = gone \ {d}
        /\ adminRuns' = [adminRuns EXCEPT ![d] = @ + 1]
        /\ UNCHANGED <<singleRow, pc, loop, live, stopping, conn, clock, faults,
                       history, saves, credit>>

(* save(): UPDATE, or INSERT if the row is gone; and no change, but an     *)
(* IntegrityError on the unique hash, if there is another row of the task. *)
SaveSingle(w, t) ==
    \E h \in hand[w] :
        /\ h.task = t
        /\ LET there == IF h.deleted THEN singleRow ELSE [singleRow EXCEPT ![t] = "absent"]
           IN  singleRow' = IF there[h.becomes] = "absent"
                            THEN [there EXCEPT ![h.becomes] = IF h.row.running THEN "running" ELSE "idle"]
                            ELSE singleRow
        /\ hand' = Seen([hand EXCEPT ![w] = {}])
        /\ UNCHANGED <<dailyRow, pc, loop, live, stopping, conn, clock, faults,
                       history, gone, saves, adminRuns>>
        /\ Account

(* Rows that come and go.  A new daily task is not due before tomorrow.    *)
AddDailyTask(w, d) ==
    /\ Request(w)
    /\ d \in gone \intersect Schedulable
    /\ \E enabled \in BOOLEAN :
          dailyRow' = [dailyRow EXCEPT ![d] =
                         [enabled |-> enabled, running |-> FALSE, executed |-> day]]
    /\ gone' = gone \ {d}
    /\ adminRuns' = [adminRuns EXCEPT ![d] = @ + 1]
    /\ UNCHANGED <<singleRow, pc, loop, live, stopping, conn, clock, faults,
                   history, hand, credit>>

DeleteDailyTask(w, d) ==
    /\ Request(w)
    /\ d \notin gone
    /\ dailyRow' = [dailyRow EXCEPT ![d].enabled = FALSE, ![d].running = FALSE]
    /\ gone' = gone \union {d}
    /\ UNCHANGED <<singleRow, pc, loop, live, stopping, conn, clock, faults,
                   history, hand, adminRuns, credit>>

AddSingleTask(w, t) ==
    /\ Request(w)
    /\ t \in Schedulable
    /\ singleRow[t] = "absent"
    /\ singleRow' = [singleRow EXCEPT ![t] = "idle"]
    /\ requested' = requested \union {t}
    /\ UNCHANGED <<dailyRow, pc, loop, live, stopping, conn, clock, faults, runs,
                   queuedOn, hand, gone, adminRuns>>
    /\ Account

DeleteSingleTask(w, t) ==
    /\ Request(w)
    /\ singleRow[t] # "absent"
    /\ singleRow' = [singleRow EXCEPT ![t] = "absent"]
    /\ hand' = Seen(hand)
    /\ UNCHANGED <<dailyRow, pc, loop, live, stopping, conn, clock, faults,
                   history, gone, adminRuns>>
    /\ Account

(* A step of the task manager or its surroundings, seen from the pages.    *)
Surroundings ==
    /\ Next
    /\ hand' = Seen(hand)
    /\ gone' = {d \in gone : dailyRow'[d] = dailyRow[d]}   \* a stale copy is inserted
    /\ Account
    /\ UNCHANGED <<saves, adminRuns>>

AdminStep ==
    \E w \in Admins :
        \/ \E d \in DailyTasks : \/ Execute(w, d) \/ Enable(w, d) \/ Disable(w, d)
                                 \/ ToggleDaily(w, d) \/ EditDaily(w, d) \/ SaveDaily(w, d)
                                 \/ AddDailyTask(w, d) \/ DeleteDailyTask(w, d)
        \/ \E t \in SingleTasks : \/ ToggleSingle(w, t) \/ EditSingle(w, t) \/ SaveSingle(w, t)
                                  \/ AddSingleTask(w, t) \/ DeleteSingleTask(w, t)

AdminNext == Surroundings \/ AdminStep

AdminSpec == AdminInit /\ [][AdminNext]_allVars
-----------------------------------------------------------------------------
(* Properties.  OneThreadPerTask and ConcurrencyRespected are to hold here *)
(* too, whatever the superusers force upon the rows.                       *)

(* Every execution of a single task is paid for by a request, a restart or *)
(* a superuser's toggle: stale copies and re-inserted rows never make the  *)
(* loop execute a task more often than its row became idle.                *)
NoFreeRun == \A t \in SingleTasks : credit[t] >= 0

(* Since the beginning a daily task was not started more often than there  *)
(* were days, and once more for each time a superuser saved its row: a     *)
(* stale copy may bring back yesterday's executed_at, but not more than    *)
(* that.  (The account is of all days together, not of each.)              *)
DailyRunsAccounted == \A d \in DailyTasks : runs[d] <= day + adminRuns[d]
=============================================================================
