--------------------------- MODULE TaskAdminProofs --------------------------
(***************************************************************************)
(* Proofs about TaskAdmin, for every set of superusers and every number of *)
(* requests.  The pages write rows and nothing else, so the loop's own     *)
(* variables keep their invariants; what the rows no longer guarantee is   *)
(* replaced by two accounts, of idle rows and of days.                     *)
(***************************************************************************)
EXTENDS TaskAdmin, TaskExecuterProofs

USE TasksAssumption, BoundsAssumption

DailyCopies == [task : DailyTasks, becomes : DailyTasks, row : DailyRows, deleted : BOOLEAN]
SingleCopies == [task : SingleTasks, becomes : SingleTasks, row : [running : BOOLEAN],
                 deleted : BOOLEAN]

(* The variables' types; the first day has passed before any backdating.   *)
AdminTypeOK ==
    /\ TypeOK
    /\ day >= 1
    /\ hand \in [Admins -> SUBSET (DailyCopies \union SingleCopies)]
    /\ adminRuns \in [DailyTasks -> Nat]
    /\ credit \in [SingleTasks -> Int]

(* A single task that is queued or taken, or whose row is idle or was read *)
(* as idle, has been paid for and not yet started.                         *)
Owed(t) == IF t \in singles \/ singleRow[t] = "idle" THEN 1 ELSE 0
IdlePaid == \A t \in SingleTasks : Pending(t) + Owed(t) <= credit[t]

(* A daily task may be stamped once more if its row, or the copy the loop  *)
(* holds of it, is from an earlier day.                                    *)
Backlog(d) ==
    IF \/ dailyRow[d].executed < day
       \/ d \in DOMAIN fetched /\ fetched[d].executed < day
    THEN 1 ELSE 0

DaysPaid ==
    /\ \A d \in DailyTasks : runs[d] + Pending(d) + Backlog(d) <= day + adminRuns[d]
    /\ pc = "dailies" => \A d \in DOMAIN fetched : fetched[d].executed < day

AdminInv ==
    /\ AdminTypeOK
    /\ LocalsInScope
    /\ OneThreadPerTask
    /\ ThreadsTracked
    /\ RoomForOneMore
    /\ IdlePaid
    /\ DaysPaid

LEMMA InitAdmin == AdminInit => AdminInv
<1> SUFFICES ASSUME AdminInit PROVE AdminInv
  OBVIOUS
<1>1. IInv
  BY InitIInv DEF AdminInit
<1>2. AdminTypeOK
  BY <1>1 DEF AdminInit, AdminTypeOK, IInv, Init
<1>3. \A t : Pending(t) = 0
  BY CountOfNothing DEF AdminInit, Init, Pending, Priorities
<1>4. IdlePaid
  BY <1>3 DEF AdminInit, Init, IdlePaid, Owed
<1>5. DaysPaid
  BY <1>3 DEF AdminInit, Init, DaysPaid, Backlog, NoRows
<1> QED
  BY <1>1, <1>2, <1>4, <1>5 DEF AdminInv, IInv

(* What no page touches.                                                   *)
Inner == <<pc, queue, runningThreads, singles, fetched, basetask, checking,
           live, stopping, conn, day, late, restarts, drops, runs, queuedOn>>

LEMMA PagesTouchRows == AdminStep => UNCHANGED Inner
<1> SUFFICES ASSUME NEW w \in Admins,
                    \/ \E d \in DailyTasks : \/ Execute(w, d) \/ Enable(w, d) \/ Disable(w, d)
                                             \/ ToggleDaily(w, d) \/ EditDaily(w, d) \/ SaveDaily(w, d)
                                             \/ AddDailyTask(w, d) \/ DeleteDailyTask(w, d)
                    \/ \E t \in SingleTasks : \/ ToggleSingle(w, t) \/ EditSingle(w, t) \/ SaveSingle(w, t)
                                              \/ AddSingleTask(w, t) \/ DeleteSingleTask(w, t)
             PROVE  UNCHANGED Inner
  BY DEF AdminStep
<1> USE DEF Inner, vars, table, loop, clock, faults, history
<1>2. ASSUME NEW d \in DailyTasks,
             \/ Execute(w, d) \/ Enable(w, d) \/ Disable(w, d) \/ ToggleDaily(w, d) \/ EditDaily(w, d)
      PROVE  UNCHANGED Inner
  BY <1>2 DEF Execute, Enable, Disable, ToggleDaily, EditDaily, Open
<1>3. ASSUME NEW d \in DailyTasks, SaveDaily(w, d) PROVE UNCHANGED Inner
  BY <1>3 DEF SaveDaily
<1>4. ASSUME NEW d \in DailyTasks, AddDailyTask(w, d) PROVE UNCHANGED Inner
  BY <1>4 DEF AddDailyTask
<1>5. ASSUME NEW d \in DailyTasks, DeleteDailyTask(w, d) PROVE UNCHANGED Inner
  BY <1>5 DEF DeleteDailyTask
<1>6. ASSUME NEW t \in SingleTasks, ToggleSingle(w, t) \/ EditSingle(w, t) PROVE UNCHANGED Inner
  BY <1>6 DEF ToggleSingle, EditSingle, Open
<1>7. ASSUME NEW t \in SingleTasks, SaveSingle(w, t) PROVE UNCHANGED Inner
  BY <1>7 DEF SaveSingle
<1>8. ASSUME NEW t \in SingleTasks, AddSingleTask(w, t) PROVE UNCHANGED Inner
  BY <1>8 DEF AddSingleTask
<1>9. ASSUME NEW t \in SingleTasks, DeleteSingleTask(w, t) PROVE UNCHANGED Inner
  BY <1>9 DEF DeleteSingleTask
<1> QED
  BY <1>2, <1>3, <1>4, <1>5, <1>6, <1>7, <1>8, <1>9

(* How far the clock moves at a step.                                      *)
LEMMA DayMoves == TypeOK /\ [Next]_vars => day' = day \/ day' = day + 1
<1> SUFFICES ASSUME TypeOK, [Next]_vars PROVE day' = day \/ day' = day + 1
  OBVIOUS
<1> USE DEF vars, clock
<1>1. CASE Environment \/ ProcessStep \/ UNCHANGED vars
  BY <1>1 DEF Environment, ProcessStep, Add, ThreadFinish, ReachExecutionTime, Midnight,
              Start, Crash, Finish, Exit, ConnectionDrop
<1>2. ASSUME NEW t \in Tasks,
             DispatchUnknown(t) \/ DispatchNothing(t) \/ DispatchThread(t) \/ CheckAlive(t)
      PROVE  day' = day
  BY <1>2 DEF DispatchUnknown, DispatchNothing, DispatchThread, CheckAlive, Dispatch
<1>3. ASSUME NEW t \in SingleTasks, EnqueueSingle(t) \/ CheckSingle(t) PROVE day' = day
  BY <1>3 DEF EnqueueSingle, CheckSingle
<1>4. ASSUME NEW d \in DailyTasks, EnqueueDaily(d) \/ CheckDaily(d) \/ ResetDaily(d)
      PROVE  day' = day
  BY <1>4 DEF EnqueueDaily, CheckDaily, ResetDaily
<1>5. ASSUME NEW p \in Priorities, Take(p) PROVE day' = day
  BY <1>5 DEF Take
<1>6. CASE \/ ResetStaleRunningTasks \/ LoopHead \/ FetchSingles \/ EnqueuedSingles
           \/ FetchDailies \/ EnqueuedDailies \/ TakeNothing \/ CheckDone
           \/ InterfaceErrorCaught \/ InterfaceErrorEscapes
  BY <1>6 DEF ResetStaleRunningTasks, LoopHead, FetchSingles, EnqueuedSingles, FetchDailies,
              EnqueuedDailies, TakeNothing, CheckDone, InterfaceErrorCaught, InterfaceErrorEscapes
<1> QED
  BY <1>1, <1>2, <1>3, <1>4, <1>5, <1>6 DEF Next, LoopStep

(* Noticing that a row was deleted keeps a copy a copy.                    *)
LEMMA SeenTyped ==
    ASSUME NEW hands \in [Admins -> SUBSET (DailyCopies \union SingleCopies)]
    PROVE  Seen(hands) \in [Admins -> SUBSET (DailyCopies \union SingleCopies)]
<1>1. ASSUME NEW h \in DailyCopies \union SingleCopies, NEW b \in BOOLEAN
      PROVE  [h EXCEPT !.deleted = b] \in DailyCopies \union SingleCopies
  BY <1>1 DEF DailyCopies, SingleCopies
<1>2. \A h : (h.deleted \/ Deletes(h.task)) \in BOOLEAN
  BY Zenon
<1>3. ASSUME NEW w \in Admins, NEW h \in hands[w]
      PROVE  [h EXCEPT !.deleted = @ \/ Deletes(h.task)] \in DailyCopies \union SingleCopies
  <2>1. h \in DailyCopies \union SingleCopies
    BY <1>3
  <2> QED
    BY <1>1, <1>2, <2>1
<1> QED
  BY <1>3 DEF Seen

(* The account of a single task moves by what happens to it.               *)
LEMMA AccountTyped ==
    ASSUME TypeOK, credit \in [SingleTasks -> Int], Account
    PROVE  /\ credit' \in [SingleTasks -> Int]
           /\ \A t \in SingleTasks :
                 credit'[t] = credit[t] + (IF BecameIdle(t) THEN 1 ELSE 0)
                                        - (IF live'[t] > live[t] THEN 1 ELSE 0)
BY DEF Account

(* What a page does to the row and the account of a single task.           *)
LEMMA PageSingle ==
    ASSUME AdminTypeOK, AdminStep
    PROVE  /\ singleRow' \in [SingleTasks -> RowStates]
           /\ requested' \in SUBSET SingleTasks
           /\ \/ UNCHANGED <<singleRow, credit>>
              \/ Account
<1> SUFFICES ASSUME NEW w \in Admins,
                    \/ \E d \in DailyTasks : \/ Execute(w, d) \/ Enable(w, d) \/ Disable(w, d)
                                             \/ ToggleDaily(w, d) \/ EditDaily(w, d) \/ SaveDaily(w, d)
                                             \/ AddDailyTask(w, d) \/ DeleteDailyTask(w, d)
                    \/ \E t \in SingleTasks : \/ ToggleSingle(w, t) \/ EditSingle(w, t) \/ SaveSingle(w, t)
                                              \/ AddSingleTask(w, t) \/ DeleteSingleTask(w, t)
             PROVE  /\ singleRow' \in [SingleTasks -> RowStates]
                    /\ requested' \in SUBSET SingleTasks
                    /\ UNCHANGED <<singleRow, credit>> \/ Account
  BY DEF AdminStep
<1>0. singleRow \in [SingleTasks -> RowStates] /\ requested \in SUBSET SingleTasks
  BY DEF AdminTypeOK, TypeOK
<1> DEFINE Quiet == UNCHANGED <<singleRow, credit, requested>>
<1>1. ASSUME NEW d \in DailyTasks,
             \/ Execute(w, d) \/ Enable(w, d) \/ Disable(w, d) \/ ToggleDaily(w, d) \/ EditDaily(w, d)
      PROVE  Quiet
  BY <1>1 DEF Execute, Enable, Disable, ToggleDaily, EditDaily, Open, vars, table, history, adminHistory
<1>2. ASSUME NEW d \in DailyTasks, SaveDaily(w, d) \/ AddDailyTask(w, d) \/ DeleteDailyTask(w, d)
      PROVE  Quiet
  BY <1>2 DEF SaveDaily, AddDailyTask, DeleteDailyTask, history
<1>3. ASSUME NEW t \in SingleTasks, ToggleSingle(w, t) \/ EditSingle(w, t) PROVE Quiet
  BY <1>3 DEF ToggleSingle, EditSingle, Open, vars, table, history, adminHistory
<1>4. ASSUME NEW t \in SingleTasks, SaveSingle(w, t)
      PROVE  singleRow' \in [SingleTasks -> RowStates] /\ requested' = requested /\ Account
  BY <1>0, <1>4 DEF SaveSingle, history, RowStates
<1>5. ASSUME NEW t \in SingleTasks, AddSingleTask(w, t) \/ DeleteSingleTask(w, t)
      PROVE  singleRow' \in [SingleTasks -> RowStates] /\ requested' \in SUBSET SingleTasks /\ Account
  BY <1>0, <1>5 DEF AddSingleTask, DeleteSingleTask, history, RowStates
<1> QED
  BY <1>0, <1>1, <1>2, <1>3, <1>4, <1>5

(* What a page does to the row of a daily task.                            *)
LEMMA PageDaily ==
    ASSUME AdminTypeOK, AdminStep
    PROVE  /\ dailyRow' \in [DailyTasks -> DailyRows]
           /\ adminRuns' \in [DailyTasks -> Nat]
           /\ \A d \in DailyTasks :
                 \/ adminRuns'[d] = adminRuns[d] + 1
                 \/ /\ adminRuns'[d] = adminRuns[d]
                    /\ dailyRow'[d].executed = dailyRow[d].executed
<1> DEFINE Goal == /\ dailyRow' \in [DailyTasks -> DailyRows]
                   /\ adminRuns' \in [DailyTasks -> Nat]
                   /\ \A d \in DailyTasks :
                         \/ adminRuns'[d] = adminRuns[d] + 1
                         \/ /\ adminRuns'[d] = adminRuns[d]
                            /\ dailyRow'[d].executed = dailyRow[d].executed
<1> SUFFICES ASSUME NEW w \in Admins,
                    \/ \E d \in DailyTasks : \/ Execute(w, d) \/ Enable(w, d) \/ Disable(w, d)
                                             \/ ToggleDaily(w, d) \/ EditDaily(w, d) \/ SaveDaily(w, d)
                                             \/ AddDailyTask(w, d) \/ DeleteDailyTask(w, d)
                    \/ \E t \in SingleTasks : \/ ToggleSingle(w, t) \/ EditSingle(w, t) \/ SaveSingle(w, t)
                                              \/ AddSingleTask(w, t) \/ DeleteSingleTask(w, t)
             PROVE  Goal
  BY DEF AdminStep
<1>0. /\ dailyRow \in [DailyTasks -> DailyRows] /\ adminRuns \in [DailyTasks -> Nat] /\ day \in Nat
      /\ hand \in [Admins -> SUBSET (DailyCopies \union SingleCopies)]
  BY DEF AdminTypeOK, TypeOK
<1>1. ASSUME UNCHANGED <<dailyRow, adminRuns>> PROVE Goal
  BY <1>0, <1>1
<1>2. ASSUME NEW d \in DailyTasks,
             \/ Execute(w, d) \/ Enable(w, d) \/ Disable(w, d) \/ ToggleDaily(w, d) \/ EditDaily(w, d)
      PROVE  UNCHANGED <<dailyRow, adminRuns>>
  BY <1>2 DEF Execute, Enable, Disable, ToggleDaily, EditDaily, Open, vars, table, adminHistory
<1>3. ASSUME NEW d \in DailyTasks, SaveDaily(w, d) PROVE Goal
  <2>1. PICK h \in hand[w] : /\ h.task = d
                             /\ dailyRow' = [dailyRow EXCEPT ![d] = h.row]
                             /\ adminRuns' = [adminRuns EXCEPT ![d] = @ + 1]
    BY <1>3 DEF SaveDaily
  <2>2. h.row \in DailyRows
    BY <1>0, <2>1, TasksAssumption DEF DailyCopies, SingleCopies
  <2> QED
    BY <1>0, <2>1, <2>2
<1>4. ASSUME NEW d \in DailyTasks, AddDailyTask(w, d) PROVE Goal
  <2>1. PICK enabled \in BOOLEAN : dailyRow' = [dailyRow EXCEPT ![d] =
                         [enabled |-> enabled, running |-> FALSE, executed |-> day]]
    BY <1>4 DEF AddDailyTask
  <2>2. [enabled |-> enabled, running |-> FALSE, executed |-> day] \in DailyRows
    BY <1>0 DEF DailyRows
  <2>3. adminRuns' = [adminRuns EXCEPT ![d] = @ + 1]
    BY <1>4 DEF AddDailyTask
  <2> QED
    BY <1>0, <2>1, <2>2, <2>3
<1>5. ASSUME NEW d \in DailyTasks, DeleteDailyTask(w, d) PROVE Goal
  <2>1. dailyRow' = [dailyRow EXCEPT ![d].enabled = FALSE, ![d].running = FALSE] /\ adminRuns' = adminRuns
    BY <1>5 DEF DeleteDailyTask
  <2>2. ASSUME NEW row \in DailyRows
        PROVE  /\ [row EXCEPT !.enabled = FALSE, !.running = FALSE] \in DailyRows
               /\ [row EXCEPT !.enabled = FALSE, !.running = FALSE].executed = row.executed
    <3>1. DOMAIN row = {"enabled", "running", "executed"}
      BY DEF DailyRows
    <3> QED
      BY <3>1 DEF DailyRows
  <2>3. dailyRow' = [dailyRow EXCEPT ![d] = [dailyRow[d] EXCEPT !.enabled = FALSE, !.running = FALSE]]
    BY <1>0, <2>1
  <2>4. PICK cleared \in DailyRows : /\ cleared.executed = dailyRow[d].executed
                                     /\ dailyRow' = [dailyRow EXCEPT ![d] = cleared]
    BY <1>0, <2>2, <2>3
  <2> QED
    BY <1>0, <2>1, <2>4
<1>6. ASSUME NEW t \in SingleTasks,
             \/ ToggleSingle(w, t) \/ EditSingle(w, t) \/ SaveSingle(w, t)
             \/ AddSingleTask(w, t) \/ DeleteSingleTask(w, t)
      PROVE  UNCHANGED <<dailyRow, adminRuns>>
  BY <1>6 DEF ToggleSingle, EditSingle, SaveSingle, AddSingleTask, DeleteSingleTask, Open,
              vars, table, adminHistory
<1> HIDE DEF Goal
<1> QED
  BY <1>1, <1>2, <1>3, <1>4, <1>5, <1>6

(* What a page leaves of the copies in the superusers' hands.              *)
LEMMA PageHands ==
    ASSUME AdminTypeOK, AdminStep
    PROVE  hand' \in [Admins -> SUBSET (DailyCopies \union SingleCopies)]
<1> DEFINE Copies == DailyCopies \union SingleCopies
           Goal == hand' \in [Admins -> SUBSET Copies]
<1> SUFFICES ASSUME NEW w \in Admins,
                    \/ \E d \in DailyTasks : \/ Execute(w, d) \/ Enable(w, d) \/ Disable(w, d)
                                             \/ ToggleDaily(w, d) \/ EditDaily(w, d) \/ SaveDaily(w, d)
                                             \/ AddDailyTask(w, d) \/ DeleteDailyTask(w, d)
                    \/ \E t \in SingleTasks : \/ ToggleSingle(w, t) \/ EditSingle(w, t) \/ SaveSingle(w, t)
                                              \/ AddSingleTask(w, t) \/ DeleteSingleTask(w, t)
             PROVE  Goal
  BY DEF AdminStep
<1>0. /\ dailyRow \in [DailyTasks -> DailyRows] /\ day \in Nat /\ day >= 1
      /\ hand \in [Admins -> SUBSET Copies]
  BY DEF AdminTypeOK, TypeOK
<1>1. ASSUME NEW h \in Copies, hand' = [hand EXCEPT ![w] = {h}] PROVE Goal
  BY <1>0, <1>1
<1>2. ASSUME NEW d \in DailyTasks, NEW row \in DailyRows, Open(w, d, row) PROVE Goal
  <2>1. [task |-> d, becomes |-> d, row |-> row, deleted |-> FALSE] \in Copies
    BY DEF DailyCopies
  <2> QED
    BY <1>1, <1>2, <2>1 DEF Open
<1>3. ASSUME NEW d \in DailyTasks,
             \/ Execute(w, d) \/ Enable(w, d) \/ Disable(w, d) \/ ToggleDaily(w, d) \/ EditDaily(w, d)
      PROVE  \E row \in DailyRows : Open(w, d, row)
  <2>1. ASSUME NEW row \in DailyRows
        PROVE  /\ Backdated(row) \in DailyRows
               /\ [row EXCEPT !.enabled = TRUE, !.executed = day] \in DailyRows
               /\ [row EXCEPT !.enabled = FALSE, !.running = FALSE] \in DailyRows
    <3>1. row \in [enabled : BOOLEAN, running : BOOLEAN, executed : Nat]
      BY DEF DailyRows
    <3>2. TRUE \in BOOLEAN /\ FALSE \in BOOLEAN /\ day - 1 \in Nat /\ day \in Nat
      BY <1>0
    <3>3. Backdated(row) \in DailyRows
      BY <3>1, <3>2, Zenon DEF Backdated, DailyRows
    <3>4. [row EXCEPT !.enabled = TRUE, !.executed = day] \in DailyRows
      BY <3>1, <3>2, Zenon DEF DailyRows
    <3>5. [row EXCEPT !.enabled = FALSE, !.running = FALSE] \in DailyRows
      BY <3>1, <3>2, Zenon DEF DailyRows
    <3> QED
      BY <3>3, <3>4, <3>5
  <2>2. ASSUME NEW row \in DailyRows, NEW b \in BOOLEAN
        PROVE  [row EXCEPT !.running = b] \in DailyRows /\ [row EXCEPT !.enabled = b] \in DailyRows
    BY DEF DailyRows
  <2>3. dailyRow[d] \in DailyRows /\ (~dailyRow[d].running) \in BOOLEAN
    BY <1>0, Zenon
  <2>4. CASE Execute(w, d) \/ Enable(w, d) \/ Disable(w, d)
    BY <2>1, <2>3, <2>4 DEF Execute, Enable, Disable
  <2>5. CASE ToggleDaily(w, d) \/ EditDaily(w, d)
    BY <2>2, <2>3, <2>5 DEF ToggleDaily, EditDaily
  <2> QED
    BY <1>3, <2>4, <2>5
<1>4. ASSUME NEW d \in DailyTasks, SaveDaily(w, d) \/ AddDailyTask(w, d) \/ DeleteDailyTask(w, d)
      PROVE  Goal
  BY <1>0, <1>4 DEF SaveDaily, AddDailyTask, DeleteDailyTask
<1>5. ASSUME NEW t \in SingleTasks, NEW u \in SingleTasks, NEW b \in BOOLEAN
      PROVE  [task |-> t, becomes |-> u, row |-> [running |-> b], deleted |-> FALSE] \in Copies
  BY DEF SingleCopies
<1>6. ASSUME NEW t \in SingleTasks, ToggleSingle(w, t) PROVE Goal
  <2>1. (singleRow[t] = "idle") \in BOOLEAN
    BY Zenon
  <2> QED
    BY <1>1, <1>5, <1>6, <2>1 DEF ToggleSingle, Open
<1>7. ASSUME NEW t \in SingleTasks, EditSingle(w, t) PROVE Goal
  <2>1. (singleRow[t] = "running") \in BOOLEAN
    BY Zenon
  <2> QED
    BY <1>1, <1>5, <1>7, <2>1 DEF EditSingle
<1>8. ASSUME NEW t \in SingleTasks, SaveSingle(w, t) PROVE Goal
  <2>1. [hand EXCEPT ![w] = {}] \in [Admins -> SUBSET Copies]
    BY <1>0
  <2> QED
    BY <1>8, <2>1, SeenTyped DEF SaveSingle
<1>9. ASSUME NEW t \in SingleTasks, AddSingleTask(w, t) \/ DeleteSingleTask(w, t) PROVE Goal
  BY <1>0, <1>9, SeenTyped DEF AddSingleTask, DeleteSingleTask
<1> HIDE DEF Goal, Copies
<1> QED
  BY <1>2, <1>3, <1>4, <1>6, <1>7, <1>8, <1>9

LEMMA NextAdminTypes ==
    AdminTypeOK /\ [AdminNext]_allVars => AdminTypeOK'
<1> SUFFICES ASSUME AdminTypeOK, [AdminNext]_allVars PROVE AdminTypeOK'
  OBVIOUS
<1>1. CASE UNCHANGED allVars
  BY <1>1 DEF allVars, vars, table, loop, clock, faults, history, admin, adminHistory,
              AdminTypeOK, TypeOK
<1>2. CASE Surroundings
  <2>1. TypeOK /\ Next /\ day \in Nat /\ day >= 1
    BY <1>2 DEF Surroundings, AdminTypeOK, TypeOK
  <2>2. TypeOK' /\ day' >= 1
    BY <2>1, NextTypeOK, DayMoves
  <2>3. hand' \in [Admins -> SUBSET (DailyCopies \union SingleCopies)]
    BY <1>2, SeenTyped DEF Surroundings, AdminTypeOK
  <2>4. credit' \in [SingleTasks -> Int]
    BY <1>2, AccountTyped DEF Surroundings, AdminTypeOK
  <2>5. adminRuns' = adminRuns
    BY <1>2 DEF Surroundings
  <2> QED
    BY <2>2, <2>3, <2>4, <2>5 DEF AdminTypeOK
<1>3. CASE AdminStep
  <2>1. UNCHANGED Inner
    BY <1>3, PagesTouchRows
  <2>2. /\ singleRow' \in [SingleTasks -> RowStates] /\ dailyRow' \in [DailyTasks -> DailyRows]
        /\ requested' \in SUBSET SingleTasks /\ adminRuns' \in [DailyTasks -> Nat]
    BY <1>3, PageSingle, PageDaily
  <2>3. stopping' \in BOOLEAN /\ conn' \in {"open", "lost"} /\ late' \in BOOLEAN
    BY <2>1 DEF Inner, AdminTypeOK, TypeOK
  <2>4. TypeOK' /\ day' >= 1
    BY <2>1, <2>2, <2>3 DEF Inner, AdminTypeOK, TypeOK
  <2>5. credit' \in [SingleTasks -> Int]
    BY <1>3, PageSingle, AccountTyped DEF AdminTypeOK
  <2> QED
    BY <1>3, <2>2, <2>4, <2>5, PageHands DEF AdminTypeOK
<1> QED
  BY <1>1, <1>2, <1>3 DEF AdminNext

LEMMA PendingTypeNext == TypeOK' => \A t : Pending(t)' \in Nat
<1> SUFFICES ASSUME TypeOK', NEW t PROVE Pending(t)' \in Nat
  OBVIOUS
<1>1. queue'["HIGH"] \in Seq(Tasks) /\ queue'["NORMAL"] \in Seq(Tasks)
  BY DEF TypeOK, Priorities
<1> QED
  BY <1>1, CountIsNatural DEF Pending

(* The loop keeps to its variables, and starts no thread too many.         *)
LEMMA NextAdminLoop ==
    /\ AdminTypeOK /\ LocalsInScope /\ OneThreadPerTask /\ ThreadsTracked /\ RoomForOneMore
    /\ [AdminNext]_allVars
    => LocalsInScope' /\ OneThreadPerTask' /\ ThreadsTracked' /\ RoomForOneMore'
<1> SUFFICES ASSUME AdminTypeOK, LocalsInScope, OneThreadPerTask, ThreadsTracked, RoomForOneMore,
                    [AdminNext]_allVars
             PROVE  LocalsInScope' /\ OneThreadPerTask' /\ ThreadsTracked' /\ RoomForOneMore'
  OBVIOUS
<1>1. CASE Next \/ UNCHANGED vars
  BY <1>1, NextLocals, NextThreads, NextRoom DEF AdminTypeOK
<1>2. CASE UNCHANGED Inner
  BY <1>2 DEF Inner, LocalsInScope, OneThreadPerTask, ThreadsTracked, RoomForOneMore
<1> QED
  BY <1>1, <1>2, PagesTouchRows DEF AdminNext, Surroundings, allVars

(* What the query of get_single_tasks finds, and what is left of it.       *)
LEMMA NextSingles ==
    ASSUME TypeOK, [Next]_vars, NEW t \in SingleTasks
    PROVE  /\ t \in singles' => \/ t \in singles
                                \/ singleRow[t] = "idle" /\ singleRow' = singleRow
           /\ EnqueueSingle(t) => t \in singles /\ t \notin singles' /\ singleRow'[t] = "running"
           /\ DispatchThread(t) => singles' = singles /\ singleRow' = singleRow
<1>0. singleRow \in [SingleTasks -> RowStates]
  BY DEF TypeOK
<1>1. EnqueueSingle(t) => t \in singles /\ t \notin singles' /\ singleRow'[t] = "running"
  BY <1>0 DEF EnqueueSingle, Claim
<1>2. DispatchThread(t) => singles' = singles /\ singleRow' = singleRow
  BY DEF DispatchThread, Dispatch
<1>3. t \in singles' => t \in singles \/ (singleRow[t] = "idle" /\ singleRow' = singleRow)
  <2> USE DEF vars, loop, table
  <2>1. CASE Environment \/ ProcessStep \/ UNCHANGED vars
    BY <2>1 DEF Environment, ProcessStep, Add, ThreadFinish, ReachExecutionTime, Midnight,
                Start, Crash, Finish, Exit, ConnectionDrop, Forget
  <2>2. ASSUME NEW u \in Tasks,
               DispatchUnknown(u) \/ DispatchNothing(u) \/ DispatchThread(u) \/ CheckAlive(u)
        PROVE  singles' = singles
    BY <2>2 DEF DispatchUnknown, DispatchNothing, DispatchThread, CheckAlive, Dispatch
  <2>3. ASSUME NEW u \in SingleTasks, EnqueueSingle(u) \/ CheckSingle(u)
        PROVE  singles' \subseteq singles
    BY <2>3 DEF EnqueueSingle, CheckSingle
  <2>4. ASSUME NEW d \in DailyTasks, EnqueueDaily(d) \/ CheckDaily(d) \/ ResetDaily(d)
        PROVE  singles' = singles
    BY <2>4 DEF EnqueueDaily, CheckDaily, ResetDaily
  <2>5. ASSUME NEW p \in Priorities, Take(p) PROVE singles' = singles
    BY <2>5 DEF Take
  <2>6. CASE \/ ResetStaleRunningTasks \/ LoopHead \/ EnqueuedSingles
             \/ FetchDailies \/ EnqueuedDailies \/ TakeNothing \/ CheckDone
             \/ InterfaceErrorCaught \/ InterfaceErrorEscapes
    BY <2>6 DEF ResetStaleRunningTasks, LoopHead, EnqueuedSingles, FetchDailies,
                EnqueuedDailies, TakeNothing, CheckDone, InterfaceErrorCaught, InterfaceErrorEscapes
  <2>7. CASE FetchSingles
    BY <2>7 DEF FetchSingles, Waiting
  <2> QED
    BY <2>1, <2>2, <2>3, <2>4, <2>5, <2>6, <2>7 DEF Next, LoopStep
<1> QED
  BY <1>1, <1>2, <1>3

(* Whatever is owed to a single task has been paid for.                    *)
LEMMA NextIdlePaid ==
    AdminTypeOK /\ AdminTypeOK' /\ LocalsInScope /\ IdlePaid /\ [AdminNext]_allVars => IdlePaid'
<1> SUFFICES ASSUME AdminTypeOK, AdminTypeOK', LocalsInScope, IdlePaid, [AdminNext]_allVars,
                    NEW t \in SingleTasks
             PROVE  Pending(t)' + Owed(t)' <= credit'[t]
  BY DEF IdlePaid
<1>0. /\ Pending(t) \in Nat /\ Pending(t)' \in Nat /\ Owed(t) \in {0, 1} /\ Owed(t)' \in {0, 1}
      /\ credit[t] \in Int /\ credit'[t] \in Int
      /\ Pending(t) + Owed(t) <= credit[t]
  BY PendingType, PendingTypeNext DEF AdminTypeOK, IdlePaid, Owed
<1>1. t \in Tasks /\ t \notin DailyTasks /\ live[t] \in Nat /\ live'[t] \in Nat
  BY TasksAssumption DEF Tasks, AdminTypeOK, TypeOK
<1>2. CASE UNCHANGED allVars
  BY <1>2, <1>0 DEF allVars, vars, table, loop, adminHistory, Pending, Owed
<1>3. CASE Surroundings
  <2>0. TypeOK /\ Next /\ Account
    BY <1>3 DEF Surroundings, AdminTypeOK
  <2>1. credit'[t] = credit[t] + (IF BecameIdle(t) THEN 1 ELSE 0)
                               - (IF live'[t] > live[t] THEN 1 ELSE 0)
    BY <2>0, AccountTyped DEF AdminTypeOK
  <2>2. Owed(t)' <= Owed(t) + (IF BecameIdle(t) THEN 1 ELSE 0)
    BY <2>0, NextSingles DEF Owed, BecameIdle
  <2>3. CASE Settles(t)
    <3>1. ~(live'[t] > live[t]) /\ Pending(t)' <= Pending(t)
      BY <1>1, <2>3 DEF Settles
    <3>2. credit'[t] = credit[t] + (IF BecameIdle(t) THEN 1 ELSE 0)
      BY <1>0, <2>1, <3>1
    <3> HIDE DEF BecameIdle
    <3> QED
      BY <1>0, <2>2, <3>1, <3>2
  <2>4. CASE EnqueueSingle(t) /\ live' = live /\ Pending(t)' = Pending(t) + 1
    <3>1. Owed(t) = 1 /\ Owed(t)' = 0
      BY <2>0, <2>4, NextSingles DEF Owed
    <3>2. credit'[t] >= credit[t]
      BY <1>0, <1>1, <2>1, <2>4
    <3> QED
      BY <1>0, <2>4, <3>1, <3>2
  <2>5. CASE DispatchThread(t) /\ Pending(t)' + 1 <= Pending(t)
    <3>1. singles' = singles /\ singleRow' = singleRow
      BY <2>0, <2>5, NextSingles
    <3>2. Owed(t)' = Owed(t)
      BY <3>1 DEF Owed
    <3>3. credit'[t] >= credit[t] - 1
      BY <1>0, <2>1
    <3> QED
      BY <1>0, <2>5, <3>2, <3>3
  <2> QED
    BY <1>1, <2>0, <2>3, <2>4, <2>5, NextPending
<1>4. CASE AdminStep
  <2>1. UNCHANGED Inner
    BY <1>4, PagesTouchRows
  <2>2. Pending(t)' = Pending(t) /\ singles' = singles /\ live' = live
    BY <2>1 DEF Inner, Pending
  <2>3. CASE UNCHANGED <<singleRow, credit>>
    BY <1>0, <2>2, <2>3 DEF Owed
  <2>4. CASE Account
    <3>1. credit'[t] = credit[t] + (IF BecameIdle(t) THEN 1 ELSE 0)
      BY <1>0, <1>1, <2>2, <2>4, AccountTyped DEF AdminTypeOK
    <3>2. Owed(t)' <= Owed(t) + (IF BecameIdle(t) THEN 1 ELSE 0)
      BY <2>2 DEF Owed, BecameIdle
    <3> QED
      BY <1>0, <2>2, <3>1, <3>2
  <2> QED
    BY <1>4, <2>3, <2>4, PageSingle
<1> QED
  BY <1>2, <1>3, <1>4 DEF AdminNext

(* What a step of the loop adds to the backlog of a daily task.            *)
LEMMA NextBacklog ==
    ASSUME AdminTypeOK, AdminTypeOK', LocalsInScope, DaysPaid, [Next]_vars, NEW d \in DailyTasks
    PROVE  /\ Backlog(d)' <= Backlog(d) + (day' - day)
           /\ EnqueueDaily(d) => Backlog(d) = 1 /\ Backlog(d)' = 0 /\ day' = day
<1>0. /\ dailyRow \in [DailyTasks -> DailyRows] /\ dailyRow' \in [DailyTasks -> DailyRows]
      /\ day \in Nat /\ day' \in Nat
      /\ \A e \in DOMAIN fetched : fetched[e] \in DailyRows
      /\ \A e \in DOMAIN fetched' : fetched'[e] \in DailyRows
  BY DEF AdminTypeOK, TypeOK
<1>1. /\ dailyRow[d].executed \in Nat /\ dailyRow'[d].executed \in Nat
      /\ d \in DOMAIN fetched => fetched[d].executed \in Nat
      /\ d \in DOMAIN fetched' => fetched'[d].executed \in Nat
  BY <1>0 DEF DailyRows
<1>2. day' = day \/ day' = day + 1
  BY DayMoves DEF AdminTypeOK
<1>3. ASSUME EnqueueDaily(d) PROVE Backlog(d) = 1 /\ Backlog(d)' = 0 /\ day' = day
  <2>1. d \in DOMAIN fetched /\ fetched[d].executed < day
    BY <1>3 DEF EnqueueDaily, DaysPaid
  <2>2. d \notin DOMAIN fetched' /\ day' = day
    BY <1>3 DEF EnqueueDaily, Without, clock
  <2>3. dailyRow'[d].executed = day
    BY <1>0, <1>3, <2>1, SavedRow DEF EnqueueDaily
  <2> QED
    BY <1>1, <2>1, <2>2, <2>3 DEF Backlog
<1>4. ASSUME ~EnqueueDaily(d), Backlog(d) = 0, day' = day PROVE Backlog(d)' = 0
  <2>1. dailyRow[d].executed >= day /\ (d \in DOMAIN fetched => fetched[d].executed >= day)
    BY <1>0, <1>1, <1>4 DEF Backlog
  <2>2. dailyRow'[d].executed >= day
    BY <1>1, <1>4, <2>1, NextStamps DEF AdminTypeOK, ResetDaily
  <2>3. d \in DOMAIN fetched' => fetched'[d].executed >= day
    <3> SUFFICES ASSUME d \in DOMAIN fetched' PROVE fetched'[d].executed >= day
      OBVIOUS
    <3>1. CASE d \in DOMAIN fetched /\ fetched'[d] = fetched[d]
      BY <2>1, <3>1
    <3>2. CASE fetched'[d] = dailyRow[d]
      BY <2>1, <3>2
    <3> QED
      BY <3>1, <3>2, NextFetched DEF AdminTypeOK
  <2> QED
    BY <1>0, <1>1, <1>4, <2>2, <2>3 DEF Backlog
<1>5. Backlog(d) \in {0, 1} /\ Backlog(d)' \in {0, 1}
  BY DEF Backlog
<1> HIDE DEF Backlog
<1> QED
  BY <1>0, <1>2, <1>3, <1>4, <1>5

(* No daily task runs on a day that is not accounted for.                  *)
LEMMA NextDaysPaid ==
    AdminTypeOK /\ AdminTypeOK' /\ LocalsInScope /\ DaysPaid /\ [AdminNext]_allVars => DaysPaid'
<1> SUFFICES ASSUME AdminTypeOK, AdminTypeOK', LocalsInScope, DaysPaid, [AdminNext]_allVars
             PROVE  DaysPaid'
  OBVIOUS
<1>1. ASSUME NEW d \in DOMAIN fetched', pc' = "dailies" PROVE fetched'[d].executed < day'
  <2>1. day \in Nat /\ day' \in Nat /\ fetched'[d] \in DailyRows
    BY DEF AdminTypeOK, TypeOK
  <2>2. fetched'[d].executed \in Nat
    BY <2>1 DEF DailyRows
  <2>3. CASE [Next]_vars
    BY <1>1, <2>1, <2>2, <2>3, NextFetched DEF AdminTypeOK, DaysPaid
  <2>4. CASE AdminStep
    BY <1>1, <2>4, PagesTouchRows DEF Inner, DaysPaid
  <2> QED
    BY <2>3, <2>4 DEF AdminNext, Surroundings, allVars
<1>2. ASSUME NEW d \in DailyTasks
      PROVE  runs'[d] + Pending(d)' + Backlog(d)' <= day' + adminRuns'[d]
  <2>0. /\ d \in Tasks /\ d \notin SingleTasks
        /\ runs[d] \in Nat /\ runs'[d] \in Nat /\ day \in Nat /\ day' \in Nat
        /\ adminRuns[d] \in Nat /\ adminRuns'[d] \in Nat
        /\ Pending(d) \in Nat /\ Pending(d)' \in Nat
    BY TasksAssumption, PendingType, PendingTypeNext DEF Tasks, AdminTypeOK, TypeOK
  <2>1. Backlog(d) \in {0, 1} /\ Backlog(d)' \in {0, 1}
    BY DEF Backlog
  <2>2. runs[d] + Pending(d) + Backlog(d) <= day + adminRuns[d]
    BY DEF DaysPaid
  <2>3. CASE [Next]_vars /\ adminRuns' = adminRuns
    <3>1. /\ Backlog(d)' <= Backlog(d) + (day' - day)
          /\ EnqueueDaily(d) => Backlog(d) = 1 /\ Backlog(d)' = 0 /\ day' = day
      BY <2>3, NextBacklog
    <3>2. CASE Settles(d)
      BY <2>0, <2>1, <2>2, <2>3, <3>1, <3>2 DEF Settles
    <3>3. CASE EnqueueDaily(d) /\ runs' = runs /\ Pending(d)' = Pending(d) + 1
      BY <2>0, <2>1, <2>2, <2>3, <3>1, <3>3
    <3>4. CASE DispatchThread(d) /\ Pending(d)' + 1 <= Pending(d)
      <4>1. runs'[d] = runs[d] + 1
        BY <3>4 DEF DispatchThread
      <4> QED
        BY <2>0, <2>1, <2>2, <2>3, <3>1, <3>4, <4>1
    <3> QED
      BY <2>0, <2>3, <3>2, <3>3, <3>4, NextPending DEF AdminTypeOK
  <2>4. CASE AdminStep
    <3>1. Pending(d)' = Pending(d) /\ runs' = runs /\ day' = day /\ fetched' = fetched
      BY <2>4, PagesTouchRows DEF Inner, Pending
    <3>2. CASE adminRuns'[d] = adminRuns[d] + 1
      BY <2>0, <2>1, <2>2, <3>1, <3>2
    <3>3. CASE adminRuns'[d] = adminRuns[d] /\ dailyRow'[d].executed = dailyRow[d].executed
      <4>1. Backlog(d)' = Backlog(d)
        BY <3>1, <3>3 DEF Backlog
      <4> QED
        BY <2>0, <2>2, <3>1, <3>3, <4>1
    <3> QED
      BY <2>4, <3>2, <3>3, PageDaily
  <2> QED
    BY <2>3, <2>4 DEF AdminNext, Surroundings, allVars, adminHistory
<1> QED
  BY <1>1, <1>2 DEF DaysPaid

(* The loop's invariants survive whatever the task pages force upon rows.  *)
THEOREM AdminInvariance == AdminSpec => []AdminInv
<1>1. AdminInv /\ [AdminNext]_allVars => AdminInv'
  <2> SUFFICES ASSUME AdminInv, [AdminNext]_allVars PROVE AdminInv'
    OBVIOUS
  <2>1. AdminTypeOK'
    BY NextAdminTypes DEF AdminInv
  <2>2. LocalsInScope' /\ OneThreadPerTask' /\ ThreadsTracked' /\ RoomForOneMore'
    BY NextAdminLoop DEF AdminInv
  <2>3. IdlePaid' /\ DaysPaid'
    BY <2>1, NextIdlePaid, NextDaysPaid DEF AdminInv
  <2> QED
    BY <2>1, <2>2, <2>3 DEF AdminInv
<1> QED
  BY InitAdmin, <1>1, PTL DEF AdminSpec

(* Rows forced to idle, deleted and inserted again under a running task    *)
(* never make the loop start a second thread of it.                        *)
THEOREM AdminNeverTwoThreads == AdminSpec => []OneThreadPerTask
<1>1. AdminInv => OneThreadPerTask
  BY DEF AdminInv
<1> QED
  BY AdminInvariance, <1>1, PTL

(* Nor do they make it exceed tasks.concurrency.max.                       *)
THEOREM AdminConcurrency == AdminSpec => []ConcurrencyRespected
<1>1. AdminInv => ConcurrencyRespected
  BY ThreadsBounded DEF AdminInv
<1> QED
  BY AdminInvariance, <1>1, PTL

(* Every start of a single task is paid for by its row becoming idle once: *)
(* by a request, a restart, or a superuser's save.                         *)
THEOREM EveryRunPaid == AdminSpec => []NoFreeRun
<1>1. ASSUME AdminInv, NEW t \in SingleTasks PROVE credit[t] >= 0
  <2>1. Pending(t) \in Nat /\ Owed(t) \in Nat /\ credit[t] \in Int
    BY <1>1, PendingType DEF AdminInv, AdminTypeOK, Owed
  <2> QED
    BY <1>1, <2>1 DEF AdminInv, IdlePaid
<1>2. AdminInv => NoFreeRun
  BY <1>1 DEF NoFreeRun
<1> QED
  BY AdminInvariance, <1>2, PTL

(* In all, a daily task is started once per day, and once more per save.   *)
THEOREM EveryDayPaid == AdminSpec => []DailyRunsAccounted
<1>1. ASSUME AdminInv, NEW d \in DailyTasks PROVE runs[d] <= day + adminRuns[d]
  <2>1. /\ Pending(d) \in Nat /\ Backlog(d) \in Nat
        /\ runs[d] \in Nat /\ day \in Nat /\ adminRuns[d] \in Nat
    BY <1>1, PendingType DEF AdminInv, AdminTypeOK, TypeOK, Backlog
  <2> QED
    BY <1>1, <2>1 DEF AdminInv, DaysPaid
<1>2. AdminInv => DailyRunsAccounted
  BY <1>1 DEF DailyRunsAccounted
<1> QED
  BY AdminInvariance, <1>2, PTL
=============================================================================
