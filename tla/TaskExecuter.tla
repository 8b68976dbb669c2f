---------------------------- MODULE TaskExecuter ----------------------------
(***************************************************************************)
(* The task manager process of orthos2: the poll loop of TaskExecuter.run, *)
(* the threads it starts, the SingleTask and DailyTask rows it shares with *)
(* every web and API worker through the database, and the process and the  *)
(* database connection failing around it.                                  *)
(*                                                                         *)
(* One action is one database access of the loop, or one step on memory    *)
(* only this thread uses.  A single task's row holds nothing that changes  *)
(* but its running flag, so its value is "absent", "idle" or "running".    *)
(***************************************************************************)
EXTENDS Naturals, Sequences, FiniteSets

CONSTANTS SingleTasks, \* the (name, module, arguments) TaskManager.add is called with
          DailyTasks,  \* the configured daily tasks
          High,        \* the tasks of priority HIGH; the others are NORMAL
          Defect,      \* per task: why it cannot be started, or "none"
          Concurrency, \* server configuration tasks.concurrency.max
          MaxDays, MaxRestarts, MaxDrops \* bounds of the model

Tasks == SingleTasks \union DailyTasks

Priorities == {"HIGH", "NORMAL"}

ASSUME TasksAssumption ==
    /\ SingleTasks \intersect DailyTasks = {}
    /\ High \subseteq Tasks
    /\ Defect \in [Tasks -> {"none", "import", "arguments", "constructor"}]

ASSUME BoundsAssumption ==
    /\ Concurrency \in Nat \ {0}
    /\ MaxDays \in Nat \ {0}
    /\ MaxRestarts \in Nat
    /\ MaxDrops \in Nat

Priority(t) == IF t \in High THEN "HIGH" ELSE "NORMAL"

VARIABLES
    singleRow,      \* the SingleTask table
    dailyRow,       \* the DailyTask table; executed is the day of executed_at
    pc,             \* where the executer thread is
    queue,          \* TaskExecuter.queue
    runningThreads, \* the keys of running_threads
    live,           \* how many OS threads execute each task
    singles,        \* get_single_tasks: rows read and not yet enqueued
    fetched,        \* DailyTask instances read and not yet saved
    basetask,       \* the task taken from the queue, as a set
    checking,       \* _check_threads: entries not yet looked at
    stopping,       \* _stop_execution
    conn,           \* the executer's database connection
    day, late,      \* the date; whether the daily execution time has passed
    restarts, drops,
    requested,      \* history: requests made since the task was last started
    runs,           \* history: how often each daily task was started
    queuedOn        \* history: the days on which it was stamped and queued

table == <<singleRow, dailyRow>>
loop  == <<queue, runningThreads, singles, fetched, basetask, checking>>
clock == <<day, late>>
faults == <<restarts, drops>>
history == <<requested, runs, queuedOn>>
vars == <<table, pc, loop, live, stopping, conn, clock, faults, history>>

NoThreads == [t \in Tasks |-> 0]
NoRows == [d \in {} |-> d]

DailyRows == [enabled : BOOLEAN, running : BOOLEAN, executed : Nat]

(***************************************************************************)
(* The loop is at one of these points while the process is up and its      *)
(* executer thread is alive.                                               *)
(***************************************************************************)
Polling == {"loop", "fetchSingles", "singles", "fetchDailies", "dailies",
            "take", "dispatch", "check", "reset"}

Up == pc # "down"

Init ==
    /\ singleRow = [t \in SingleTasks |-> "absent"]
    /\ dailyRow \in [DailyTasks -> [enabled : BOOLEAN, running : {FALSE}, executed : {0}]]
    /\ pc = "down"
    /\ queue = [p \in Priorities |-> << >>]
    /\ runningThreads = {}
    /\ live = NoThreads
    /\ singles = {}
    /\ fetched = NoRows
    /\ basetask = {}
    /\ checking = {}
    /\ stopping = FALSE
    /\ conn = "open"
    /\ day = 1
    /\ late = FALSE
    /\ restarts = 0
    /\ drops = 0
    /\ requested = {}
    /\ runs = [d \in DailyTasks |-> 0]
    /\ queuedOn = [d \in DailyTasks |-> {}]

-----------------------------------------------------------------------------
(* The web and API workers, the clock and the worker threads.              *)

(* TaskManager.add: get_or_create, so a row that is there absorbs the request. *)
Add(t) ==
    /\ singleRow' = IF singleRow[t] = "absent" THEN [singleRow EXCEPT ![t] = "idle"]
                                               ELSE singleRow
    /\ requested' = requested \union {t}
    /\ UNCHANGED <<dailyRow, pc, loop, live, stopping, conn, clock, faults, runs, queuedOn>>

(* Task.execute returns, whether or not the task raised.                   *)
ThreadFinish(t) ==
    /\ live[t] > 0
    /\ live' = [live EXCEPT ![t] = @ - 1]
    /\ UNCHANGED <<table, pc, loop, stopping, conn, clock, faults, history>>

ReachExecutionTime ==
    /\ ~late
    /\ late' = TRUE
    /\ UNCHANGED <<table, pc, loop, live, stopping, conn, day, faults, history>>

Midnight ==
    /\ day < MaxDays
    /\ day' = day + 1
    /\ late' = FALSE
    /\ UNCHANGED <<table, pc, loop, live, stopping, conn, faults, history>>

-----------------------------------------------------------------------------
(* The process: started by systemd, stopped by SIGTERM or SIGUSR1, killed. *)

Start ==
    /\ pc = "down"
    /\ pc' = "boot"
    /\ stopping' = FALSE
    /\ conn' = "open"
    /\ UNCHANGED <<table, loop, live, clock, faults, history>>

Forget ==
    /\ pc' = "down"
    /\ queue' = [p \in Priorities |-> << >>]
    /\ runningThreads' = {}
    /\ live' = NoThreads
    /\ singles' = {}
    /\ fetched' = NoRows
    /\ basetask' = {}
    /\ checking' = {}

Crash ==
    /\ Up
    /\ restarts < MaxRestarts
    /\ restarts' = restarts + 1
    /\ Forget
    /\ UNCHANGED <<table, stopping, conn, clock, drops, history>>

(* handler() and finish(): the loop condition is tested at the next turn.  *)
Finish ==
    /\ Up
    /\ ~stopping
    /\ restarts < MaxRestarts
    /\ restarts' = restarts + 1
    /\ stopping' = TRUE
    /\ UNCHANGED <<table, pc, loop, live, conn, clock, drops, history>>

(* join() returned; the interpreter still waits for the non-daemon threads. *)
Exit ==
    /\ \/ pc = "exited"
       \/ pc = "dead" /\ stopping
    /\ \A t \in Tasks : live[t] = 0
    /\ Forget
    /\ UNCHANGED <<table, stopping, conn, clock, faults, history>>

ConnectionDrop ==
    /\ Up
    /\ conn = "open"
    /\ drops < MaxDrops
    /\ drops' = drops + 1
    /\ conn' = "lost"
    /\ UNCHANGED <<table, pc, loop, live, stopping, clock, restarts, history>>

-----------------------------------------------------------------------------
(* TaskExecuter.run                                                        *)

Goto(label) == pc' = label

(* The finally clause, and the full-house branch: _check_threads begins.   *)
BeginCheck ==
    /\ Goto("check")
    /\ checking' = runningThreads

ResetNothing(row) == row
ResetSingle(row) == IF row = "running" THEN "idle" ELSE row

ResetStaleRunningTasks ==
    /\ pc = "boot"
    /\ conn = "open"
    /\ dailyRow' = [d \in DailyTasks |-> [dailyRow[d] EXCEPT !.running = FALSE]]
    /\ singleRow' = [t \in SingleTasks |-> ResetSingle(singleRow[t])]
    /\ Goto("loop")
    /\ UNCHANGED <<loop, live, stopping, conn, clock, faults, history>>

FullOffByOne == Cardinality(runningThreads) > Concurrency
Full == Cardinality(runningThreads) >= Concurrency

LoopHead ==
    /\ pc = "loop"
    /\ \/ /\ stopping
          /\ Goto("exited")
          /\ UNCHANGED checking
       \/ /\ ~stopping
          /\ Full
          /\ BeginCheck
       \/ /\ ~stopping
          /\ ~Full
          /\ Goto("fetchSingles")
          /\ UNCHANGED checking
    /\ UNCHANGED <<table, queue, runningThreads, singles, fetched, basetask, live,
                   stopping, conn, clock, faults, history>>

(* get_single_tasks: the query, then one save and put per row.             *)
WaitingOrRunning(t) == singleRow[t] # "absent"
Waiting(t) == singleRow[t] = "idle"

FetchSingles ==
    /\ pc = "fetchSingles"
    /\ conn = "open"
    /\ singles' = {t \in SingleTasks : Waiting(t)}
    /\ Goto("singles")
    /\ UNCHANGED <<table, queue, runningThreads, fetched, basetask, checking, live,
                   stopping, conn, clock, faults, history>>

Put(t) == queue' = [queue EXCEPT ![Priority(t)] = Append(@, t)]

First(batch, t) == t \in High \/ batch \intersect High = {}

ClaimUnsaved(t) == UNCHANGED singleRow
Claim(t) == singleRow' = [singleRow EXCEPT ![t] = "running"]

EnqueueSingle(t) ==
    /\ pc = "singles"
    /\ conn = "open"
    /\ t \in singles
    /\ First(singles, t)
    /\ Claim(t)
    /\ Put(t)
    /\ singles' = singles \ {t}
    /\ UNCHANGED <<dailyRow, pc, runningThreads, fetched, basetask, checking, live,
                   stopping, conn, clock, faults, history>>

EnqueuedSingles ==
    /\ pc = "singles"
    /\ singles = {}
    /\ Goto("fetchDailies")
    /\ UNCHANGED <<table, loop, live, stopping, conn, clock, faults, history>>

(* get_daily_tasks: what is due is decided by the rows and the time read here. *)
DueAgain(d) == dailyRow[d].enabled /\ dailyRow[d].executed <= day /\ late
Due(d) == dailyRow[d].enabled /\ dailyRow[d].executed < day /\ late

SelectedIdle(d) == Due(d) /\ ~dailyRow[d].running
Selected(d) == Due(d)

FetchDailies ==
    /\ pc = "fetchDailies"
    /\ conn = "open"
    /\ fetched' = [d \in {e \in DailyTasks : Selected(e)} |-> dailyRow[d]]
    /\ Goto("dailies")
    /\ UNCHANGED <<table, queue, runningThreads, singles, basetask, checking, live,
                   stopping, conn, clock, faults, history>>

Without(f, d) == [e \in DOMAIN f \ {d} |-> f[e]]

Stamped(row) == [row EXCEPT !.executed = day, !.running = TRUE]

(* save() writes back every column of the instance read earlier.           *)
EnqueueDaily(d) ==
    /\ pc = "dailies"
    /\ conn = "open"
    /\ d \in DOMAIN fetched
    /\ First(DOMAIN fetched, d)
    /\ dailyRow' = [dailyRow EXCEPT ![d] = Stamped(fetched[d])]
    /\ Put(d)
    /\ fetched' = Without(fetched, d)
    /\ queuedOn' = [queuedOn EXCEPT ![d] = @ \union {day}]
    /\ UNCHANGED <<singleRow, pc, runningThreads, singles, basetask, checking, live,
                   stopping, conn, clock, faults, requested, runs>>

EnqueuedDailies ==
    /\ pc = "dailies"
    /\ DOMAIN fetched = {}
    /\ Goto("take")
    /\ UNCHANGED <<table, loop, live, stopping, conn, clock, faults, history>>

(* get(timeout=1) on HIGH, then on NORMAL.                                 *)
HighOnly(p) == p = "HIGH"
Preferred(p) == p = "NORMAL" => queue["HIGH"] = << >>

Take(p) ==
    /\ pc = "take"
    /\ queue[p] # << >>
    /\ Preferred(p)
    /\ basetask' = {Head(queue[p])}
    /\ queue' = [queue EXCEPT ![p] = Tail(@)]
    /\ Goto("dispatch")
    /\ UNCHANGED <<table, runningThreads, singles, fetched, checking, live,
                   stopping, conn, clock, faults, history>>

TakeNothing ==
    /\ pc = "take"
    /\ \A p \in Priorities : queue[p] = << >>
    /\ BeginCheck
    /\ UNCHANGED <<table, queue, runningThreads, singles, fetched, basetask, live,
                   stopping, conn, clock, faults, history>>

(* remove_single_task deletes by hash; a daily task has no such row.       *)
RemoveSingleTask(t) ==
    singleRow' = IF t \in SingleTasks THEN [singleRow EXCEPT ![t] = "absent"]
                                      ELSE singleRow

NeverTracked(t) == FALSE
Tracked(t) == t \in runningThreads

Dispatch(t) ==
    /\ pc = "dispatch"
    /\ t \in basetask
    /\ basetask' = {}
    /\ UNCHANGED <<dailyRow, queue, singles, fetched, stopping, conn, clock, faults>>

(* ImportError or AttributeError.                                          *)
DispatchUnknown(t) ==
    /\ Dispatch(t)
    /\ Defect[t] = "import"
    /\ conn = "open"
    /\ RemoveSingleTask(t)
    /\ BeginCheck
    /\ UNCHANGED <<runningThreads, live, history>>

(* Invalid JSON, a constructor that raises, or an entry still tracked: the *)
(* task is dropped and its row stays as it is.                             *)
DispatchNothing(t) ==
    /\ Dispatch(t)
    /\ \/ Defect[t] \in {"arguments", "constructor"}
       \/ Defect[t] = "none" /\ Tracked(t)
    /\ BeginCheck
    /\ UNCHANGED <<singleRow, runningThreads, live, history>>

DispatchThread(t) ==
    /\ Dispatch(t)
    /\ Defect[t] = "none"
    /\ ~Tracked(t)
    /\ live' = [live EXCEPT ![t] = @ + 1]
    /\ runningThreads' = runningThreads \union {t}
    /\ Goto("check")
    /\ checking' = runningThreads \union {t}
    /\ requested' = requested \ {t}
    /\ runs' = [d \in DailyTasks |-> IF d = t THEN runs[d] + 1 ELSE runs[d]]
    /\ UNCHANGED <<singleRow, queuedOn>>

(* _check_threads                                                          *)
FinishedAnyway(t) == TRUE
Finished(t) == live[t] = 0

CheckAlive(t) ==
    /\ pc = "check"
    /\ t \in checking
    /\ live[t] > 0
    /\ checking' = checking \ {t}
    /\ UNCHANGED <<table, pc, queue, runningThreads, singles, fetched, basetask, live,
                   stopping, conn, clock, faults, history>>

CheckSingle(t) ==
    /\ pc = "check"
    /\ conn = "open"
    /\ t \in checking \intersect SingleTasks
    /\ Finished(t)
    /\ RemoveSingleTask(t)
    /\ checking' = checking \ {t}
    /\ runningThreads' = runningThreads \ {t}
    /\ UNCHANGED <<dailyRow, pc, queue, singles, fetched, basetask, live,
                   stopping, conn, clock, faults, history>>

(* reset_daily_task: get the row, then save it with running cleared.       *)
CheckDaily(d) ==
    /\ pc = "check"
    /\ conn = "open"
    /\ d \in checking \intersect DailyTasks
    /\ Finished(d)
    /\ fetched' = [e \in {d} |-> dailyRow[e]]
    /\ Goto("reset")
    /\ UNCHANGED <<table, queue, runningThreads, singles, basetask, checking, live,
                   stopping, conn, clock, faults, history>>

Unreleased(row) == row
Released(row) == [row EXCEPT !.running = FALSE]

ResetDaily(d) ==
    /\ pc = "reset"
    /\ conn = "open"
    /\ d \in DOMAIN fetched
    /\ dailyRow' = [dailyRow EXCEPT ![d] = Released(fetched[d])]
    /\ fetched' = NoRows
    /\ checking' = checking \ {d}
    /\ runningThreads' = runningThreads \ {d}
    /\ Goto("check")
    /\ UNCHANGED <<singleRow, queue, singles, basetask, live,
                   stopping, conn, clock, faults, history>>

CheckDone ==
    /\ pc = "check"
    /\ checking = {}
    /\ Goto("loop")
    /\ UNCHANGED <<table, loop, live, stopping, conn, clock, faults, history>>

(* A database access inside the try: InterfaceError, connection closed and *)
(* opened anew, the rest of the batch dropped.                             *)
InterfaceErrorCaught ==
    /\ conn = "lost"
    /\ \/ pc \in {"fetchSingles", "fetchDailies"}
       \/ pc = "singles" /\ singles # {}
       \/ pc = "dailies" /\ DOMAIN fetched # {}
       \/ pc = "dispatch" /\ \E t \in basetask : Defect[t] = "import"
    /\ conn' = "open"
    /\ singles' = {}
    /\ fetched' = NoRows
    /\ basetask' = {}
    /\ BeginCheck
    /\ UNCHANGED <<table, queue, runningThreads, live, stopping, clock, faults, history>>

(* A database access outside it: the exception leaves run() and the thread *)
(* ends, while the process stays in signal.pause().                        *)
InterfaceErrorEscapes ==
    /\ conn = "lost"
    /\ \/ pc \in {"boot", "reset"}
       \/ pc = "check" /\ \E t \in checking : live[t] = 0
    /\ Goto("dead")
    /\ singles' = {}
    /\ fetched' = NoRows
    /\ basetask' = {}
    /\ checking' = {}
    /\ UNCHANGED <<table, queue, runningThreads, live, stopping, conn, clock, faults, history>>

-----------------------------------------------------------------------------
LoopStep ==
    \/ ResetStaleRunningTasks \/ LoopHead
    \/ FetchSingles \/ EnqueuedSingles \/ FetchDailies \/ EnqueuedDailies
    \/ TakeNothing \/ CheckDone
    \/ InterfaceErrorCaught \/ InterfaceErrorEscapes
    \/ \E p \in Priorities : Take(p)
    \/ \E t \in SingleTasks : EnqueueSingle(t) \/ CheckSingle(t)
    \/ \E d \in DailyTasks : EnqueueDaily(d) \/ CheckDaily(d) \/ ResetDaily(d)
    \/ \E t \in Tasks : DispatchUnknown(t) \/ DispatchNothing(t)
                        \/ DispatchThread(t) \/ CheckAlive(t)

ProcessStep == Start \/ Crash \/ Finish \/ Exit \/ ConnectionDrop

Environment ==
    \/ \E t \in SingleTasks : Add(t)
    \/ \E t \in Tasks : ThreadFinish(t)
    \/ ReachExecutionTime \/ Midnight

Next == LoopStep \/ ProcessStep \/ Environment

Spec == Init /\ [][Next]_vars

(***************************************************************************)
(* The loop never blocks for ever (its waits have timeouts), tasks return, *)
(* and systemd or an administrator starts a stopped task manager again.    *)
(* Nothing obliges anybody to request, to crash, or to let a day pass.     *)
(***************************************************************************)
FairSpec ==
    /\ Spec
    /\ WF_vars(LoopStep)
    /\ WF_vars(Start)
    /\ WF_vars(Exit)
    /\ \A t \in Tasks : WF_vars(ThreadFinish(t))
-----------------------------------------------------------------------------
(* Properties                                                              *)

RowStates == {"absent", "idle", "running"}

TypeOK ==
    /\ singleRow \in [SingleTasks -> RowStates]
    /\ dailyRow \in [DailyTasks -> DailyRows]
    /\ pc \in Polling \union {"down", "boot", "exited", "dead"}
    /\ queue \in [Priorities -> Seq(Tasks)]
    /\ runningThreads \in SUBSET Tasks
    /\ live \in [Tasks -> Nat]
    /\ singles \in SUBSET SingleTasks
    /\ DOMAIN fetched \in SUBSET DailyTasks
    /\ \A d \in DOMAIN fetched : fetched[d] \in DailyRows
    /\ basetask \in SUBSET Tasks
    /\ checking \in SUBSET runningThreads
    /\ stopping \in BOOLEAN
    /\ conn \in {"open", "lost"}
    /\ day \in Nat
    /\ late \in BOOLEAN
    /\ restarts \in Nat
    /\ drops \in Nat
    /\ requested \in SUBSET SingleTasks
    /\ runs \in [DailyTasks -> Nat]
    /\ queuedOn \in [DailyTasks -> SUBSET Nat]

Queued(t) == \E p \in Priorities : \E i \in DOMAIN queue[p] : queue[p][i] = t

(* A task is never executed by two threads at once, although a daily task  *)
(* is queued again while yesterday's run still lasts: run() consults       *)
(* running_threads before it starts a thread.                              *)
OneThreadPerTask == \A t \in Tasks : live[t] <= 1

(* No more than tasks.concurrency.max threads execute, whatever is queued, *)
(* finished but not yet noticed, or left behind by a restart.              *)
ConcurrencyRespected == Cardinality({t \in Tasks : live[t] > 0}) <= Concurrency

(* While the loop runs, a single task whose row is marked running is in    *)
(* the loop's hands exactly once: queued, taken, or tracked as a thread.   *)
(* Nothing else ever clears the mark before the next restart.              *)
RunningIsInHand ==
    pc \in Polling =>
        \A t \in SingleTasks :
            Defect[t] = "none" /\ singleRow[t] = "running" =>
                Queued(t) \/ t \in basetask \union runningThreads

(* The loop holds a single task at most once, and only under a row that is *)
(* marked running: a row is never claimed twice.                           *)
Claimed(t) == t \in SingleTasks => singleRow[t] = "running"

ClaimedOnce ==
    /\ \A p \in Priorities : \A i \in DOMAIN queue[p] :
          /\ Claimed(queue[p][i])
          /\ queue[p][i] \in SingleTasks =>
                /\ queue[p][i] \notin basetask \union runningThreads
                /\ \A j \in DOMAIN queue[p] : queue[p][i] = queue[p][j] => i = j
    /\ \A t \in basetask : Claimed(t) /\ (t \in SingleTasks => t \notin runningThreads)
    /\ \A t \in runningThreads : Claimed(t)

(* What makes the above inductive: which of the loop's variables are in    *)
(* use where, and how its hold on a row shows in the row.                  *)
HasRoom == {"fetchSingles", "singles", "fetchDailies", "dailies", "take", "dispatch"}

LocalsInScope ==
    /\ pc \in {"down", "boot"} =>
          /\ \A p \in Priorities : queue[p] = << >>
          /\ runningThreads = {}
    /\ singles # {} => pc = "singles"
    /\ DOMAIN fetched # {} => pc \in {"dailies", "reset"}
    /\ basetask # {} => pc = "dispatch"
    /\ \A t, u \in basetask : t = u

HoldsWhatItRead ==
    /\ \A t \in singles : singleRow[t] = "idle"
    /\ \A p \in Priorities : \A i \in DOMAIN queue[p] : Priority(queue[p][i]) = p

ThreadsTracked ==
    /\ \A t \in Tasks : live[t] > 0 => t \in runningThreads
    /\ pc = "reset" => \A d \in DOMAIN fetched : live[d] = 0

RoomForOneMore ==
    /\ IsFiniteSet(runningThreads)
    /\ Cardinality(runningThreads) <= Concurrency
    /\ pc \in HasRoom => Cardinality(runningThreads) < Concurrency

IInv ==
    /\ TypeOK
    /\ LocalsInScope
    /\ HoldsWhatItRead
    /\ ClaimedOnce
    /\ OneThreadPerTask
    /\ ThreadsTracked
    /\ RoomForOneMore

(* executed_at is stamped before the task is queued, so a crash loses a    *)
(* day's run, and crashes, midnights and overlong runs never make a daily  *)
(* task start more often than there are days on which it was queued.       *)
(* (Two of these starts may fall on one day: what was queued before        *)
(* midnight may be started after it, and today's run still follows.)       *)
OneStartPerQueuedDay == \A d \in DailyTasks : runs[d] <= Cardinality(queuedOn[d])

(* The task manager implements the board of single tasks.                  *)
BoardPhase(t) ==
    CASE live[t] > 0                                -> "executing"
      [] live[t] = 0 /\ t \in runningThreads       -> "done"
      [] live[t] = 0 /\ t \notin runningThreads /\ singleRow[t] = "absent" -> "none"
      [] OTHER                                      -> "waiting"

Board == INSTANCE TaskBoard
            WITH Requests <- SingleTasks,
                 Unresolvable <- {t \in SingleTasks : Defect[t] = "import"},
                 Workers <- Concurrency,
                 phase <- [t \in SingleTasks |-> BoardPhase(t)]

BoardImplemented == Board!BoardSpec

(* The loop is gone, and with it the rest of the day's work: only a stop   *)
(* of the process gives it a successor.                                    *)
Dead == pc = "dead"

(* Every request of HIGH priority that got a row is executed, through      *)
(* restarts, full houses, lower-priority backlog and connections that are  *)
(* lost inside the try, unless one lost outside of it ends the loop.       *)
HighServed ==
    \A t \in SingleTasks \intersect High :
        Defect[t] = "none" => (singleRow[t] = "idle" ~> live[t] > 0 \/ Dead)

(* A NORMAL request is executed unless HIGH tasks keep being queued (or    *)
(* the loop ends).                                                         *)
NormalServed ==
    \A t \in SingleTasks \ High :
        Defect[t] = "none" /\ <>[](queue["HIGH"] = << >>) =>
            (singleRow[t] = "idle" ~> live[t] > 0 \/ Dead)

(* The running flag of a daily task that can be started never stays set    *)
(* (unless the loop ends).                                                 *)
DailyFlagReleased ==
    \A d \in DailyTasks :
        Defect[d] = "none" /\ <>[](queue["HIGH"] = << >>) =>
            (dailyRow[d].running ~> ~dailyRow[d].running \/ Dead)

(* A daily task that is due is picked up, unless the day or the loop ends  *)
(* first.                                                                  *)
DuePickedUp == \A d \in DailyTasks : Due(d) ~> ~Due(d) \/ Dead

(* TaskManager.add, "Add tasks to database for execution": a request that  *)
(* has not been followed by an execution still has its row.                *)
RequestKept ==
    \A t \in requested : Defect[t] # "import" => singleRow[t] # "absent"
=============================================================================
