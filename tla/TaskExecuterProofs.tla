------------------------- MODULE TaskExecuterProofs -------------------------
(***************************************************************************)
(* Proofs about TaskExecuter, for every set of tasks, every priority and   *)
(* defect of them, and every concurrency.  IInv is inductive; the safety   *)
(* properties of the poll loop and the refinement of TaskBoard follow.     *)
(***************************************************************************)
EXTENDS TaskExecuter, TLAPS, FiniteSetTheorems, Functions

USE TasksAssumption, BoundsAssumption

(* One-line guards and row updates of the loop, expanded wherever they occur. *)
USE DEF ResetSingle, Full, Waiting, Claim, Stamped, Preferred, Tracked, Finished, Released

(* The initial states satisfy the inductive invariant.                     *)
LEMMA InitIInv == Init => IInv
<1> SUFFICES ASSUME Init PROVE IInv
  OBVIOUS
<1>1. TypeOK
  <2>1. dailyRow \in [DailyTasks -> DailyRows]
    <3>1. {FALSE} \subseteq BOOLEAN /\ {0} \subseteq Nat
      OBVIOUS
    <3> QED
      BY <3>1, Zenon DEF Init, DailyRows
  <2>2. queue \in [Priorities -> Seq(Tasks)]
    BY DEF Init
  <2> QED
    BY <2>1, <2>2 DEF Init, TypeOK, RowStates, Tasks, NoThreads, NoRows
<1>2. LocalsInScope /\ HoldsWhatItRead /\ ClaimedOnce /\ OneThreadPerTask /\ ThreadsTracked
  BY DEF Init, LocalsInScope, HoldsWhatItRead, ClaimedOnce, OneThreadPerTask,
         ThreadsTracked, NoThreads, NoRows, Priorities, Tasks
<1>3. RoomForOneMore
  BY FS_EmptySet DEF Init, RoomForOneMore, HasRoom
<1> QED
  BY <1>1, <1>2, <1>3 DEF IInv

(* Every step keeps the variables in their types.                          *)
LEMMA NextTypeOK == TypeOK /\ [Next]_vars => TypeOK'
<1> SUFFICES ASSUME TypeOK, [Next]_vars PROVE TypeOK'
  OBVIOUS
<1> USE DEF TypeOK, vars, table, loop, clock, faults, history
<1>1. CASE UNCHANGED vars
  BY <1>1
<1>2. ASSUME NEW t \in SingleTasks, Add(t) PROVE TypeOK'
  BY <1>2 DEF Add, RowStates
<1>3. ASSUME NEW t \in Tasks, ThreadFinish(t) PROVE TypeOK'
  BY <1>3 DEF ThreadFinish
<1>4. CASE ReachExecutionTime \/ Midnight
  <2>1. late' \in BOOLEAN
    BY <1>4, Zenon DEF ReachExecutionTime, Midnight
  <2> QED
    BY <1>4, <2>1 DEF ReachExecutionTime, Midnight
<1>5. CASE Start
  BY <1>5 DEF Start
<1>6. CASE Crash \/ Exit
  <2>1. queue' \in [Priorities -> Seq(Tasks)]
    <3>1. << >> \in Seq(Tasks)
      OBVIOUS
    <3>2. queue' = [p \in Priorities |-> << >>]
      BY <1>6 DEF Crash, Exit, Forget
    <3> QED
      BY <3>1, <3>2
  <2>2. live' \in [Tasks -> Nat]
    BY <1>6 DEF Crash, Exit, Forget, NoThreads
  <2>3. stopping' \in BOOLEAN
    BY <1>6, Zenon DEF Crash, Exit
  <2>4. restarts' \in Nat
    BY <1>6 DEF Crash, Exit
  <2> QED
    BY <1>6, <2>1, <2>2, <2>3, <2>4 DEF Crash, Exit, Forget, NoRows
<1>7. CASE Finish \/ ConnectionDrop
  <2>1. stopping' \in BOOLEAN
    <3>1. TRUE \in BOOLEAN
      OBVIOUS
    <3> QED
      BY <1>7, <3>1, Zenon DEF Finish, ConnectionDrop
  <2> QED
    BY <1>7, <2>1 DEF Finish, ConnectionDrop
<1>8. CASE ResetStaleRunningTasks
  BY <1>8 DEF ResetStaleRunningTasks, RowStates, DailyRows, Goto, Polling
<1>9. CASE LoopHead
  BY <1>9 DEF LoopHead, BeginCheck, Goto, Polling
<1>10. CASE FetchSingles
  BY <1>10 DEF FetchSingles, Goto, Polling
<1>11. CASE EnqueuedSingles \/ EnqueuedDailies \/ TakeNothing \/ CheckDone
  BY <1>11 DEF EnqueuedSingles, EnqueuedDailies, TakeNothing, CheckDone,
               BeginCheck, Goto, Polling
<1>12. CASE FetchDailies
  BY <1>12 DEF FetchDailies, Goto, Polling, DailyRows
<1>13. CASE InterfaceErrorCaught \/ InterfaceErrorEscapes
  BY <1>13 DEF InterfaceErrorCaught, InterfaceErrorEscapes, BeginCheck, Goto, Polling, NoRows
<1>14. ASSUME NEW p \in Priorities, Take(p) PROVE TypeOK'
  BY <1>14 DEF Take, Goto, Polling
<1>15. ASSUME NEW t \in SingleTasks, EnqueueSingle(t) PROVE TypeOK'
  BY <1>15 DEF EnqueueSingle, Put, Priority, Priorities, RowStates, Tasks
<1>16. ASSUME NEW t \in SingleTasks, CheckSingle(t) PROVE TypeOK'
  BY <1>16 DEF CheckSingle, RemoveSingleTask, RowStates
<1>17. ASSUME NEW d \in DailyTasks, EnqueueDaily(d) PROVE TypeOK'
  <2>1. [fetched[d] EXCEPT !.executed = day, !.running = TRUE] \in DailyRows
    <3>1. fetched[d] \in [enabled : BOOLEAN, running : BOOLEAN, executed : Nat]
      BY <1>17 DEF EnqueueDaily, DailyRows
    <3>2. TRUE \in BOOLEAN /\ day \in Nat
      OBVIOUS
    <3> QED
      BY <3>1, <3>2, Zenon DEF DailyRows
  <2>2. queue' \in [Priorities -> Seq(Tasks)]
    BY <1>17 DEF EnqueueDaily, Put, Priority, Priorities, Tasks
  <2>3. DOMAIN fetched' \subseteq DailyTasks /\ \A e \in DOMAIN fetched' : fetched'[e] \in DailyRows
    BY <1>17 DEF EnqueueDaily, Without
  <2> QED
    BY <1>17, <2>1, <2>2, <2>3 DEF EnqueueDaily
<1>18. ASSUME NEW d \in DailyTasks, CheckDaily(d) PROVE TypeOK'
  BY <1>18 DEF CheckDaily, Goto, Polling
<1>19. ASSUME NEW d \in DailyTasks, ResetDaily(d) PROVE TypeOK'
  BY <1>19 DEF ResetDaily, Goto, Polling, DailyRows, NoRows
<1>20. ASSUME NEW t \in Tasks, DispatchUnknown(t) PROVE TypeOK'
  BY <1>20 DEF DispatchUnknown, Dispatch, RemoveSingleTask, BeginCheck, Goto, Polling, RowStates
<1>21. ASSUME NEW t \in Tasks, DispatchNothing(t) PROVE TypeOK'
  BY <1>21 DEF DispatchNothing, Dispatch, BeginCheck, Goto, Polling
<1>22. ASSUME NEW t \in Tasks, DispatchThread(t) PROVE TypeOK'
  BY <1>22 DEF DispatchThread, Dispatch, Goto, Polling
<1>23. ASSUME NEW t \in Tasks, CheckAlive(t) PROVE TypeOK'
  BY <1>23 DEF CheckAlive
<1> QED
  BY <1>1, <1>2, <1>3, <1>4, <1>5, <1>6, <1>7, <1>8, <1>9, <1>10, <1>11, <1>12, <1>13,
     <1>14, <1>15, <1>16, <1>17, <1>18, <1>19, <1>20, <1>21, <1>22, <1>23
     DEF Next, LoopStep, ProcessStep, Environment

(* The loop's variables are in use only where the loop uses them.          *)
LEMMA NextLocals == TypeOK /\ LocalsInScope /\ [Next]_vars => LocalsInScope'
<1> SUFFICES ASSUME TypeOK, LocalsInScope, [Next]_vars PROVE LocalsInScope'
  OBVIOUS
<1> USE DEF LocalsInScope, vars, table, loop, clock, faults, history, Goto, BeginCheck
<1>1. CASE UNCHANGED vars
  BY <1>1
<1>2. CASE Environment
  BY <1>2 DEF Environment, Add, ThreadFinish, ReachExecutionTime, Midnight
<1>3. CASE ProcessStep
  BY <1>3 DEF ProcessStep, Start, Crash, Finish, Exit, ConnectionDrop, Forget, NoRows
<1>4. CASE \/ ResetStaleRunningTasks \/ LoopHead \/ FetchSingles \/ EnqueuedSingles
           \/ FetchDailies \/ EnqueuedDailies \/ TakeNothing \/ CheckDone
  BY <1>4 DEF ResetStaleRunningTasks, LoopHead, FetchSingles, EnqueuedSingles,
              FetchDailies, EnqueuedDailies, TakeNothing, CheckDone
<1>5. CASE InterfaceErrorCaught \/ InterfaceErrorEscapes
  BY <1>5 DEF InterfaceErrorCaught, InterfaceErrorEscapes, NoRows
<1>6. ASSUME NEW p \in Priorities, Take(p) PROVE LocalsInScope'
  BY <1>6 DEF Take
<1>7. ASSUME NEW t \in SingleTasks, EnqueueSingle(t) \/ CheckSingle(t) PROVE LocalsInScope'
  BY <1>7 DEF EnqueueSingle, CheckSingle, RemoveSingleTask, Put
<1>8. ASSUME NEW d \in DailyTasks, EnqueueDaily(d) \/ CheckDaily(d) \/ ResetDaily(d)
      PROVE  LocalsInScope'
  BY <1>8 DEF EnqueueDaily, CheckDaily, ResetDaily, Put, Without, NoRows
<1>9. ASSUME NEW t \in Tasks,
             DispatchUnknown(t) \/ DispatchNothing(t) \/ DispatchThread(t) \/ CheckAlive(t)
      PROVE  LocalsInScope'
  BY <1>9 DEF DispatchUnknown, DispatchNothing, DispatchThread, CheckAlive, Dispatch
<1> QED
  BY <1>1, <1>2, <1>3, <1>4, <1>5, <1>6, <1>7, <1>8, <1>9 DEF Next, LoopStep

(* A task that is alive is tracked, so run() starts no second thread.      *)
LEMMA NextThreads ==
    TypeOK /\ LocalsInScope /\ OneThreadPerTask /\ ThreadsTracked /\ [Next]_vars
        => OneThreadPerTask' /\ ThreadsTracked'
<1> SUFFICES ASSUME TypeOK, LocalsInScope, OneThreadPerTask, ThreadsTracked, [Next]_vars
             PROVE  OneThreadPerTask' /\ ThreadsTracked'
  OBVIOUS
<1> DEFINE Quiet == /\ UNCHANGED <<live, runningThreads>>
                    /\ pc' = "reset" => UNCHANGED <<pc, fetched>>
<1>0. live \in [Tasks -> Nat] /\ SingleTasks \subseteq Tasks /\ DailyTasks \subseteq Tasks
  BY DEF TypeOK, Tasks
<1>1. ASSUME Quiet PROVE OneThreadPerTask' /\ ThreadsTracked'
  BY <1>1 DEF OneThreadPerTask, ThreadsTracked
<1> USE DEF vars, loop, Goto, BeginCheck
<1>2. ASSUME NEW t \in Tasks, ThreadFinish(t) PROVE OneThreadPerTask' /\ ThreadsTracked'
  BY <1>0, <1>2 DEF ThreadFinish, OneThreadPerTask, ThreadsTracked
<1>3. CASE Crash \/ Exit
  BY <1>3 DEF Crash, Exit, Forget, NoThreads, OneThreadPerTask, ThreadsTracked
<1>4. ASSUME NEW t \in SingleTasks, CheckSingle(t) PROVE OneThreadPerTask' /\ ThreadsTracked'
  BY <1>0, <1>4 DEF LocalsInScope, CheckSingle, OneThreadPerTask, ThreadsTracked
<1>5. ASSUME NEW d \in DailyTasks, ResetDaily(d) PROVE OneThreadPerTask' /\ ThreadsTracked'
  BY <1>0, <1>5 DEF ResetDaily, NoRows, OneThreadPerTask, ThreadsTracked
<1>6. ASSUME NEW t \in Tasks, DispatchThread(t) PROVE OneThreadPerTask' /\ ThreadsTracked'
  BY <1>0, <1>6 DEF DispatchThread, Dispatch, OneThreadPerTask, ThreadsTracked
<1>7. CASE Environment
  BY <1>1, <1>2, <1>7 DEF Environment, Add, ReachExecutionTime, Midnight
<1>8. CASE ProcessStep
  BY <1>1, <1>3, <1>8 DEF ProcessStep, Start, Finish, ConnectionDrop
<1>9. CASE LoopStep
  <2>1. ASSUME NEW t \in Tasks, DispatchUnknown(t) \/ DispatchNothing(t) \/ CheckAlive(t)
        PROVE  Quiet
    BY <2>1 DEF DispatchUnknown, DispatchNothing, CheckAlive, Dispatch
  <2>2. ASSUME NEW d \in DailyTasks, EnqueueDaily(d) PROVE Quiet
    BY <2>2 DEF EnqueueDaily
  <2>6. ASSUME NEW d \in DailyTasks, CheckDaily(d) PROVE OneThreadPerTask' /\ ThreadsTracked'
    BY <2>6 DEF CheckDaily, OneThreadPerTask, ThreadsTracked
  <2>3. ASSUME NEW t \in SingleTasks, EnqueueSingle(t) PROVE Quiet
    BY <2>3 DEF EnqueueSingle
  <2>4. ASSUME NEW p \in Priorities, Take(p) PROVE Quiet
    BY <2>4 DEF Take
  <2>5. CASE \/ ResetStaleRunningTasks \/ LoopHead \/ FetchSingles \/ EnqueuedSingles
             \/ FetchDailies \/ EnqueuedDailies \/ TakeNothing \/ CheckDone
             \/ InterfaceErrorCaught \/ InterfaceErrorEscapes
    <3> Quiet
      BY <2>5 DEF ResetStaleRunningTasks, LoopHead, FetchSingles, EnqueuedSingles,
               FetchDailies, EnqueuedDailies, TakeNothing, CheckDone,
               InterfaceErrorCaught, InterfaceErrorEscapes
    <3> QED
      BY <1>1
  <2> QED
    BY <1>1, <1>4, <1>5, <1>6, <1>9, <2>1, <2>2, <2>3, <2>4, <2>5, <2>6 DEF LoopStep
<1> QED
  BY <1>1, <1>7, <1>8, <1>9 DEF Next

(* There is room for one more thread wherever run() may start one.         *)
LEMMA NextRoom ==
    TypeOK /\ LocalsInScope /\ RoomForOneMore /\ [Next]_vars => RoomForOneMore'
<1> SUFFICES ASSUME TypeOK, LocalsInScope, RoomForOneMore, [Next]_vars
             PROVE  RoomForOneMore'
  OBVIOUS
<1> DEFINE Quiet == /\ UNCHANGED runningThreads
                    /\ pc' \in HasRoom => pc \in HasRoom
<1>1. ASSUME Quiet PROVE RoomForOneMore'
  BY <1>1 DEF RoomForOneMore
<1>2. ASSUME NEW t \in Tasks, runningThreads' = runningThreads \ {t}, pc' \notin HasRoom
      PROVE  RoomForOneMore'
  <2>1. IsFiniteSet(runningThreads) /\ Cardinality(runningThreads) <= Concurrency
    BY DEF RoomForOneMore
  <2>2. /\ IsFiniteSet(runningThreads \ {t})
        /\ Cardinality(runningThreads \ {t}) <= Cardinality(runningThreads)
    <3>1. runningThreads \ {t} \subseteq runningThreads
      OBVIOUS
    <3> QED
      BY <2>1, <3>1, FS_Subset
  <2>3. Cardinality(runningThreads) \in Nat /\ Cardinality(runningThreads \ {t}) \in Nat
    BY <2>1, <2>2, FS_CardinalityType
  <2> QED
    BY <1>2, <2>1, <2>2, <2>3 DEF RoomForOneMore
<1>3. CASE LoopHead
  BY <1>3, FS_CardinalityType DEF LoopHead, RoomForOneMore, HasRoom, Goto, BeginCheck
<1>4. ASSUME NEW t \in Tasks, DispatchThread(t) PROVE RoomForOneMore'
  <2>1. /\ t \notin runningThreads
        /\ runningThreads' = runningThreads \union {t}
        /\ pc = "dispatch" /\ pc' = "check"
    BY <1>4 DEF DispatchThread, Dispatch, Goto
  <2>2. IsFiniteSet(runningThreads) /\ Cardinality(runningThreads) < Concurrency
    BY <2>1 DEF RoomForOneMore, HasRoom
  <2>3. /\ IsFiniteSet(runningThreads')
        /\ Cardinality(runningThreads') = Cardinality(runningThreads) + 1
    BY <2>1, <2>2, FS_AddElement
  <2> QED
    BY <2>1, <2>2, <2>3, FS_CardinalityType DEF RoomForOneMore, HasRoom
<1>5. CASE Crash \/ Exit
  <2>1. runningThreads' = {} /\ pc' = "down"
    BY <1>5 DEF Crash, Exit, Forget
  <2> QED
    BY <2>1, FS_EmptySet DEF RoomForOneMore, HasRoom
<1> USE DEF vars, loop, Goto, BeginCheck, HasRoom
<1>6. CASE Environment
  <2> Quiet
    BY <1>6 DEF Environment, Add, ThreadFinish, ReachExecutionTime, Midnight
  <2> QED
    BY <1>1
<1>7. CASE Start \/ Finish \/ ConnectionDrop
  <2> Quiet
    BY <1>7 DEF Start, Finish, ConnectionDrop
  <2> QED
    BY <1>1
<1>8. CASE \/ ResetStaleRunningTasks \/ FetchSingles \/ EnqueuedSingles
           \/ FetchDailies \/ EnqueuedDailies \/ TakeNothing \/ CheckDone
           \/ InterfaceErrorCaught \/ InterfaceErrorEscapes
  <2> Quiet
    BY <1>8 DEF ResetStaleRunningTasks, FetchSingles, EnqueuedSingles,
             FetchDailies, EnqueuedDailies, TakeNothing, CheckDone,
             InterfaceErrorCaught, InterfaceErrorEscapes
  <2> QED
    BY <1>1
<1>9. ASSUME NEW p \in Priorities, Take(p) PROVE Quiet
  BY <1>9 DEF Take
<1>10. ASSUME NEW t \in SingleTasks, EnqueueSingle(t) PROVE Quiet
  BY <1>10 DEF EnqueueSingle
<1>11. ASSUME NEW d \in DailyTasks, EnqueueDaily(d) \/ CheckDaily(d) PROVE Quiet
  BY <1>11 DEF EnqueueDaily, CheckDaily
<1>12. ASSUME NEW t \in Tasks, DispatchUnknown(t) \/ DispatchNothing(t) \/ CheckAlive(t)
       PROVE  Quiet
  BY <1>12 DEF DispatchUnknown, DispatchNothing, CheckAlive, Dispatch
<1>13. ASSUME NEW t \in SingleTasks, CheckSingle(t) PROVE RoomForOneMore'
  BY <1>2, <1>13 DEF CheckSingle, Tasks
<1>14. ASSUME NEW d \in DailyTasks, ResetDaily(d) PROVE RoomForOneMore'
  BY <1>2, <1>14 DEF ResetDaily, Tasks
<1>15. CASE UNCHANGED vars
  BY <1>1, <1>15
<1>16. CASE LoopStep
  BY <1>1, <1>3, <1>4, <1>8, <1>9, <1>10, <1>11, <1>12, <1>13, <1>14, <1>16 DEF LoopStep
<1> QED
  BY <1>5, <1>6, <1>7, <1>15, <1>16 DEF Next, ProcessStep

(* A single task is in the loop's hands once, under a row marked running.  *)
LEMMA NextClaims ==
    TypeOK /\ LocalsInScope /\ HoldsWhatItRead /\ ClaimedOnce /\ [Next]_vars
        => HoldsWhatItRead' /\ ClaimedOnce'
<1> SUFFICES ASSUME TypeOK, LocalsInScope, HoldsWhatItRead, ClaimedOnce, [Next]_vars
             PROVE  HoldsWhatItRead' /\ ClaimedOnce'
  OBVIOUS
<1>0. /\ SingleTasks \subseteq Tasks /\ DailyTasks \subseteq Tasks
      /\ SingleTasks \intersect DailyTasks = {}
      /\ queue \in [Priorities -> Seq(Tasks)]
      /\ singles \subseteq SingleTasks
      /\ singleRow \in [SingleTasks -> RowStates]
  BY DEF TypeOK, Tasks
<1> DEFINE Quiet == /\ UNCHANGED <<singleRow, queue>>
                    /\ singles' \subseteq singles
                    /\ basetask' \subseteq basetask
                    /\ runningThreads' \subseteq runningThreads
<1>1. ASSUME Quiet PROVE HoldsWhatItRead' /\ ClaimedOnce'
  BY <1>1 DEF HoldsWhatItRead, ClaimedOnce, Claimed
<1> USE DEF vars, loop, table, Goto, BeginCheck
<1>2. ASSUME NEW t \in SingleTasks, Add(t) PROVE HoldsWhatItRead' /\ ClaimedOnce'
  BY <1>0, <1>2 DEF Add, HoldsWhatItRead, ClaimedOnce, Claimed
<1>3. CASE Crash \/ Exit
  BY <1>3 DEF Crash, Exit, Forget, HoldsWhatItRead, ClaimedOnce
<1>4. CASE ResetStaleRunningTasks
  BY <1>0, <1>4 DEF ResetStaleRunningTasks, LocalsInScope, HoldsWhatItRead, ClaimedOnce
<1>5. CASE FetchSingles
  BY <1>5 DEF FetchSingles, HoldsWhatItRead, ClaimedOnce, Claimed
<1>6. ASSUME NEW t \in SingleTasks, EnqueueSingle(t) PROVE HoldsWhatItRead' /\ ClaimedOnce'
  <2>1. /\ t \in singles /\ singleRow[t] = "idle"
        /\ singleRow' = [singleRow EXCEPT ![t] = "running"]
        /\ queue' = [queue EXCEPT ![Priority(t)] = Append(@, t)]
        /\ singles' = singles \ {t}
        /\ UNCHANGED <<basetask, runningThreads>>
    BY <1>6 DEF EnqueueSingle, Put, HoldsWhatItRead
  <2>2. HoldsWhatItRead'
    BY <1>0, <2>1 DEF HoldsWhatItRead, Priority, Priorities
  <2>3. /\ t \notin basetask /\ t \notin runningThreads
        /\ \A p \in Priorities : \A i \in DOMAIN queue[p] : queue[p][i] # t
    BY <2>1 DEF ClaimedOnce, Claimed
  <2>4. \A u \in Tasks : Claimed(u) => Claimed(u)'
    BY <1>0, <2>1 DEF Claimed
  <2>5. Claimed(t)'
    BY <1>0, <2>1 DEF Claimed
  <2>6. ClaimedOnce'
    BY <1>0, <2>1, <2>3, <2>4, <2>5 DEF ClaimedOnce, Priority, Priorities, Claimed
  <2> QED
    BY <2>2, <2>6
<1>7. ASSUME NEW d \in DailyTasks, EnqueueDaily(d) PROVE HoldsWhatItRead' /\ ClaimedOnce'
  <2>1. /\ queue' = [queue EXCEPT ![Priority(d)] = Append(@, d)]
        /\ UNCHANGED <<singleRow, singles, basetask, runningThreads>>
    BY <1>7 DEF EnqueueDaily, Put
  <2>2. HoldsWhatItRead'
    BY <1>0, <2>1 DEF HoldsWhatItRead, Priority, Priorities
  <2>3. d \notin SingleTasks
    BY <1>0
  <2>4. ClaimedOnce'
    BY <1>0, <2>1, <2>3 DEF ClaimedOnce, Priority, Priorities, Claimed
  <2> QED
    BY <2>2, <2>4
<1>8. ASSUME NEW p \in Priorities, Take(p) PROVE HoldsWhatItRead' /\ ClaimedOnce'
  <2>1. /\ queue[p] # << >> /\ basetask = {}
        /\ basetask' = {Head(queue[p])}
        /\ queue' = [queue EXCEPT ![p] = Tail(@)]
        /\ UNCHANGED <<singleRow, singles, runningThreads>>
    BY <1>8 DEF Take, LocalsInScope
  <2>2. /\ queue[p] \in Seq(Tasks) /\ 1 \in DOMAIN queue[p] /\ Head(queue[p]) = queue[p][1]
        /\ \A i \in DOMAIN Tail(queue[p]) :
              i + 1 \in DOMAIN queue[p] /\ Tail(queue[p])[i] = queue[p][i + 1]
    BY <1>0, <2>1
  <2>3. HoldsWhatItRead'
    BY <1>0, <2>1, <2>2 DEF HoldsWhatItRead
  <2>4. \A i \in DOMAIN queue[p]' : queue'[p][i] \in SingleTasks => queue'[p][i] # queue[p][1]
    BY <1>0, <2>1, <2>2 DEF ClaimedOnce
  <2>5. \A q \in Priorities \ {p} : \A i \in DOMAIN queue[q] : queue[q][i] # queue[p][1]
    BY <2>2 DEF HoldsWhatItRead
  <2>6. ClaimedOnce'
    <3>1. ASSUME NEW q \in Priorities, NEW i \in DOMAIN queue'[q]
          PROVE  /\ Claimed(queue'[q][i])
                 /\ queue'[q][i] \in SingleTasks =>
                      /\ queue'[q][i] \notin basetask' \union runningThreads
                      /\ \A j \in DOMAIN queue'[q] : queue'[q][i] = queue'[q][j] => i = j
      <4>1. CASE q = p
        BY <1>0, <2>1, <2>2, <2>4, <4>1 DEF ClaimedOnce
      <4>2. CASE q # p
        BY <1>0, <2>1, <2>2, <2>5, <4>2 DEF ClaimedOnce
      <4> QED
        BY <4>1, <4>2
    <3>2. \A t \in basetask' : Claimed(t) /\ (t \in SingleTasks => t \notin runningThreads)
      BY <2>1, <2>2 DEF ClaimedOnce
    <3> QED
      BY <2>1, <3>1, <3>2 DEF ClaimedOnce, Claimed
  <2> QED
    BY <2>3, <2>6
<1>9. ASSUME NEW t \in Tasks, DispatchUnknown(t) PROVE HoldsWhatItRead' /\ ClaimedOnce'
  BY <1>0, <1>9 DEF DispatchUnknown, Dispatch, RemoveSingleTask, LocalsInScope,
                    HoldsWhatItRead, ClaimedOnce, Claimed
<1>10. ASSUME NEW t \in Tasks, DispatchThread(t) PROVE HoldsWhatItRead' /\ ClaimedOnce'
  BY <1>0, <1>10 DEF DispatchThread, Dispatch, LocalsInScope,
                     HoldsWhatItRead, ClaimedOnce, Claimed
<1>11. ASSUME NEW t \in SingleTasks, CheckSingle(t) PROVE HoldsWhatItRead' /\ ClaimedOnce'
  BY <1>0, <1>11 DEF CheckSingle, RemoveSingleTask, TypeOK, LocalsInScope,
                     HoldsWhatItRead, ClaimedOnce, Claimed
<1>12. ASSUME NEW t \in Tasks, DispatchNothing(t) \/ CheckAlive(t) PROVE Quiet
  BY <1>12 DEF DispatchNothing, Dispatch, CheckAlive
<1>13. ASSUME NEW d \in DailyTasks, CheckDaily(d) \/ ResetDaily(d) PROVE Quiet
  BY <1>13 DEF CheckDaily, ResetDaily
<1>14. CASE \/ LoopHead \/ EnqueuedSingles \/ FetchDailies \/ EnqueuedDailies \/ TakeNothing
            \/ CheckDone \/ InterfaceErrorCaught \/ InterfaceErrorEscapes
  <2> Quiet
    BY <1>14 DEF LoopHead, EnqueuedSingles, FetchDailies, EnqueuedDailies, TakeNothing,
                 CheckDone, InterfaceErrorCaught, InterfaceErrorEscapes
  <2> QED
    BY <1>1
<1>15. CASE LoopStep
  BY <1>1, <1>4, <1>5, <1>6, <1>7, <1>8, <1>9, <1>10, <1>11, <1>12, <1>13, <1>14, <1>15
     DEF LoopStep
<1>16. CASE Environment
  <2>1. ASSUME NEW t \in Tasks, ThreadFinish(t) PROVE Quiet
    BY <2>1 DEF ThreadFinish
  <2>2. CASE ReachExecutionTime \/ Midnight
    <3> Quiet
      BY <2>2 DEF ReachExecutionTime, Midnight
    <3> QED
      BY <1>1
  <2> QED
    BY <1>1, <1>2, <1>16, <2>1, <2>2 DEF Environment
<1>17. CASE Start \/ Finish \/ ConnectionDrop \/ UNCHANGED vars
  <2> Quiet
    BY <1>17 DEF Start, Finish, ConnectionDrop
  <2> QED
    BY <1>1
<1> QED
  BY <1>3, <1>15, <1>16, <1>17 DEF Next, ProcessStep

(* The inductive step, and with it the invariant of every behaviour.       *)
LEMMA NextIInv == IInv /\ [Next]_vars => IInv'
BY NextTypeOK, NextLocals, NextThreads, NextRoom, NextClaims DEF IInv

THEOREM Invariance == Spec => []IInv
BY InitIInv, NextIInv, PTL DEF Spec

(* Every variable keeps its type.                                          *)
THEOREM TypeCorrect == Spec => []TypeOK
<1>1. IInv => TypeOK
  BY DEF IInv
<1> QED
  BY Invariance, <1>1, PTL

(* run() never executes a task in two threads at once.                     *)
THEOREM NeverTwoThreads == Spec => []OneThreadPerTask
<1>1. IInv => OneThreadPerTask
  BY DEF IInv
<1> QED
  BY Invariance, <1>1, PTL

(* No row of a single task is claimed twice by the loop.                   *)
THEOREM NeverClaimedTwice == Spec => []ClaimedOnce
<1>1. IInv => ClaimedOnce
  BY DEF IInv
<1> QED
  BY Invariance, <1>1, PTL

LEMMA ThreadsBounded == ThreadsTracked /\ RoomForOneMore => ConcurrencyRespected
<1> SUFFICES ASSUME ThreadsTracked, RoomForOneMore PROVE ConcurrencyRespected
  OBVIOUS
<1> DEFINE Executing == {t \in Tasks : live[t] > 0}
<1>1. Executing \subseteq runningThreads
  BY DEF ThreadsTracked
<1>2. /\ IsFiniteSet(runningThreads)
      /\ Cardinality(runningThreads) <= Concurrency
  BY DEF RoomForOneMore
<1>3. IsFiniteSet(Executing) /\ Cardinality(Executing) <= Cardinality(runningThreads)
  BY <1>1, <1>2, FS_Subset
<1>4. Cardinality(Executing) \in Nat /\ Cardinality(runningThreads) \in Nat
  BY <1>2, <1>3, FS_CardinalityType
<1>5. Cardinality(Executing) <= Concurrency
  BY <1>2, <1>3, <1>4
<1> QED
  BY <1>5 DEF ConcurrencyRespected

(* tasks.concurrency.max bounds the threads that execute: each of them is  *)
(* tracked, and the loop starts one only while there is room.              *)
THEOREM ConcurrencyBounded == Spec => []ConcurrencyRespected
<1>1. IInv => ConcurrencyRespected
  BY ThreadsBounded DEF IInv
<1> QED
  BY Invariance, <1>1, PTL

(* The loop loses no row it marked: what it takes from the queue it either *)
(* starts, finds tracked already, or cannot start because of a defect.     *)
LEMMA NextInHand == IInv /\ IInv' /\ RunningIsInHand /\ [Next]_vars => RunningIsInHand'
<1> SUFFICES ASSUME IInv, IInv', RunningIsInHand, [Next]_vars,
                    NEW t \in SingleTasks, pc' \in Polling,
                    Defect[t] = "none", singleRow'[t] = "running"
             PROVE  Queued(t)' \/ t \in basetask' \union runningThreads'
  BY DEF RunningIsInHand
<1> DEFINE InHand == Queued(t) \/ t \in basetask \union runningThreads
<1> SUFFICES InHand'
  OBVIOUS
<1>0. /\ SingleTasks \subseteq Tasks /\ DailyTasks \subseteq Tasks
      /\ queue \in [Priorities -> Seq(Tasks)]
      /\ singleRow \in [SingleTasks -> RowStates]
  BY DEF IInv, TypeOK, Tasks
<1>a. pc \in Polling /\ singleRow[t] = "running" => InHand
  BY DEF RunningIsInHand
<1> DEFINE Quiet == /\ pc \in Polling /\ singleRow[t] = "running"
                    /\ UNCHANGED <<queue, basetask, runningThreads>>
<1>1. ASSUME Quiet PROVE InHand'
  BY <1>1, <1>a DEF Queued
<1> USE DEF vars, loop, table, Goto, BeginCheck, Polling
<1>2. CASE Environment
  <2>1. ASSUME NEW u \in SingleTasks, Add(u) PROVE Quiet
    BY <1>0, <2>1 DEF Add
  <2>2. ASSUME NEW u \in Tasks, ThreadFinish(u) PROVE Quiet
    BY <2>2 DEF ThreadFinish
  <2>3. CASE ReachExecutionTime \/ Midnight
    <3> Quiet
      BY <2>3 DEF ReachExecutionTime, Midnight
    <3> QED
      BY <1>1
  <2> QED
    BY <1>1, <1>2, <2>1, <2>2, <2>3 DEF Environment
<1>3. CASE ProcessStep \/ UNCHANGED vars
  <2> Quiet
    BY <1>3 DEF ProcessStep, Start, Crash, Finish, Exit, ConnectionDrop, Forget
  <2> QED
    BY <1>1
<1>4. CASE \/ LoopHead \/ FetchSingles \/ EnqueuedSingles \/ FetchDailies \/ EnqueuedDailies
           \/ TakeNothing \/ CheckDone \/ InterfaceErrorEscapes
  <2> Quiet
    BY <1>4 DEF LoopHead, FetchSingles, EnqueuedSingles, FetchDailies, EnqueuedDailies,
                TakeNothing, CheckDone, InterfaceErrorEscapes, IInv, LocalsInScope
  <2> QED
    BY <1>1
<1>5. CASE ResetStaleRunningTasks
  BY <1>0, <1>5 DEF ResetStaleRunningTasks
<1>6. CASE InterfaceErrorCaught
  <2>1. pc \in Polling /\ UNCHANGED <<singleRow, queue, runningThreads>>
    BY <1>6 DEF InterfaceErrorCaught
  <2>2. t \notin basetask
    BY <1>6 DEF InterfaceErrorCaught, IInv, LocalsInScope
  <2> QED
    BY <1>a, <2>1, <2>2 DEF Queued
<1>7. ASSUME NEW p \in Priorities, Take(p) PROVE InHand'
  <2>1. /\ pc \in Polling /\ UNCHANGED <<singleRow, runningThreads>>
        /\ queue[p] # << >> /\ basetask = {}
        /\ basetask' = {Head(queue[p])}
        /\ queue' = [queue EXCEPT ![p] = Tail(@)]
    BY <1>7 DEF Take, IInv, LocalsInScope
  <2>2. CASE t \in runningThreads
    BY <2>1, <2>2
  <2>3. CASE \E q \in Priorities : \E i \in DOMAIN queue[q] : queue[q][i] = t
    <3>1. PICK q \in Priorities : \E i \in DOMAIN queue[q] : queue[q][i] = t
      BY <2>3
    <3>2. PICK i \in DOMAIN queue[q] : queue[q][i] = t
      BY <3>1
    <3>3. CASE q # p
      <4>1. queue'[q] = queue[q]
        BY <1>0, <2>1, <3>3
      <4> QED
        BY <3>2, <4>1 DEF Queued
    <3>4. CASE q = p /\ i = 1
      <4>1. Head(queue[p]) = t
        BY <1>0, <2>1, <3>2, <3>4
      <4> QED
        BY <2>1, <4>1
    <3>5. CASE q = p /\ i # 1
      <4>1. queue'[p] = Tail(queue[p]) /\ queue[p] \in Seq(Tasks)
        BY <1>0, <2>1
      <4>2. i - 1 \in DOMAIN Tail(queue[p]) /\ Tail(queue[p])[i - 1] = queue[p][i]
        BY <2>1, <3>2, <3>5, <4>1
      <4> QED
        BY <3>2, <3>5, <4>1, <4>2 DEF Queued
    <3> QED
      BY <3>3, <3>4, <3>5
  <2> QED
    BY <1>a, <2>1, <2>2, <2>3 DEF Queued
<1>8. ASSUME NEW u \in Tasks, Put(u), UNCHANGED <<basetask, runningThreads>>,
             u = t \/ Quiet \/ InHand
      PROVE  InHand'
  <2>1. /\ queue' = [queue EXCEPT ![Priority(u)] = Append(@, u)]
        /\ Priority(u) \in Priorities
    BY <1>8 DEF Put, Priority, Priorities
  <2>2. queue'[Priority(u)] = Append(queue[Priority(u)], u)
    BY <1>0, <2>1
  <2>3. CASE u = t
    <3>1. Len(queue[Priority(t)]) + 1 \in DOMAIN queue'[Priority(t)]
          /\ queue'[Priority(t)][Len(queue[Priority(t)]) + 1] = t
      BY <1>0, <2>1, <2>2, <2>3
    <3> QED
      BY <2>1, <2>3, <3>1 DEF Queued
  <2>4. CASE InHand
    <3>1. \A q \in Priorities : \A i \in DOMAIN queue[q] :
             i \in DOMAIN queue'[q] /\ queue'[q][i] = queue[q][i]
      BY <1>0, <2>1
    <3> QED
      BY <1>8, <2>4, <3>1 DEF Queued
  <2> QED
    BY <1>8, <1>a, <2>3, <2>4
<1>9. ASSUME NEW u \in SingleTasks, EnqueueSingle(u) PROVE InHand'
  <2>1. Put(u) /\ UNCHANGED <<basetask, runningThreads>>
    BY <1>9 DEF EnqueueSingle
  <2>2. u = t \/ InHand
    BY <1>0, <1>9, <1>a DEF EnqueueSingle
  <2> QED
    BY <1>0, <1>8, <2>1, <2>2
<1>10. ASSUME NEW d \in DailyTasks, EnqueueDaily(d) PROVE InHand'
  <2>1. Put(d) /\ UNCHANGED <<basetask, runningThreads>>
    BY <1>10 DEF EnqueueDaily
  <2>2. InHand
    BY <1>0, <1>10, <1>a DEF EnqueueDaily
  <2> QED
    BY <1>0, <1>8, <2>1, <2>2
<1>11. ASSUME NEW u \in SingleTasks, CheckSingle(u) PROVE InHand'
  <2>1. u # t /\ singleRow[t] = "running" /\ pc \in Polling
    BY <1>0, <1>11 DEF CheckSingle, RemoveSingleTask
  <2> QED
    BY <1>11, <1>a, <2>1 DEF CheckSingle, Queued
<1>12. ASSUME NEW d \in DailyTasks, CheckDaily(d) PROVE InHand'
  BY <1>1, <1>12 DEF CheckDaily
<1>13. ASSUME NEW d \in DailyTasks, ResetDaily(d) PROVE InHand'
  <2>1. d # t
    BY TasksAssumption
  <2> QED
    BY <1>13, <1>a, <2>1 DEF ResetDaily, Queued
<1>14. ASSUME NEW u \in Tasks, DispatchUnknown(u) PROVE InHand'
  <2>1. u # t /\ pc \in Polling /\ singleRow[t] = "running" /\ t \notin basetask
    BY <1>0, <1>14 DEF DispatchUnknown, Dispatch, RemoveSingleTask, IInv, LocalsInScope
  <2> QED
    BY <1>14, <1>a, <2>1 DEF DispatchUnknown, Dispatch, Queued
<1>15. ASSUME NEW u \in Tasks, DispatchNothing(u) PROVE InHand'
  <2>1. pc \in Polling /\ singleRow[t] = "running" /\ (t \in basetask => t \in runningThreads)
    BY <1>15 DEF DispatchNothing, Dispatch, IInv, LocalsInScope
  <2> QED
    BY <1>15, <1>a, <2>1 DEF DispatchNothing, Dispatch, Queued
<1>16. ASSUME NEW u \in Tasks, DispatchThread(u) PROVE InHand'
  <2>1. /\ pc \in Polling /\ singleRow[t] = "running" /\ (t \in basetask => t = u)
        /\ runningThreads' = runningThreads \union {u} /\ queue' = queue
    BY <1>16 DEF DispatchThread, Dispatch, IInv, LocalsInScope
  <2> QED
    BY <1>a, <2>1 DEF Queued
<1>17. ASSUME NEW u \in Tasks, CheckAlive(u) PROVE InHand'
  BY <1>1, <1>17 DEF CheckAlive
<1>18. CASE LoopStep
  BY <1>4, <1>5, <1>6, <1>7, <1>9, <1>10, <1>11, <1>12, <1>13, <1>14, <1>15, <1>16, <1>17, <1>18
     DEF LoopStep
<1> QED
  BY <1>2, <1>3, <1>18 DEF Next

(* A row marked running is in the loop's hands for as long as it runs.     *)
THEOREM NeverOrphaned == Spec => []RunningIsInHand
<1>1. Init => RunningIsInHand
  BY DEF Init, RunningIsInHand, Polling
<1> QED
  BY Invariance, NextInHand, <1>1, PTL DEF Spec

-----------------------------------------------------------------------------
(* How often a task is in a queue, and in the loop's hands before its      *)
(* thread starts.                                                          *)
Places(s, t) == {i \in DOMAIN s : s[i] = t}
Count(s, t) == Cardinality(Places(s, t))
Pending(t) == Count(queue["HIGH"], t) + Count(queue["NORMAL"], t)
                 + (IF t \in basetask THEN 1 ELSE 0)

LEMMA CountIsNatural ==
    ASSUME NEW S, NEW s \in Seq(S), NEW t
    PROVE  IsFiniteSet(Places(s, t)) /\ Count(s, t) \in Nat
<1>1. Places(s, t) \subseteq 1..Len(s)
  BY DEF Places
<1>2. IsFiniteSet(1..Len(s))
  BY FS_Interval
<1> QED
  BY <1>1, <1>2, FS_Subset, FS_CardinalityType DEF Count

LEMMA CountOfNothing == \A t : Count(<< >>, t) = 0
BY FS_EmptySet DEF Count, Places

LEMMA CountAppended ==
    ASSUME NEW S, NEW s \in Seq(S), NEW u \in S, NEW t
    PROVE  Count(Append(s, u), t) = Count(s, t) + (IF t = u THEN 1 ELSE 0)
<1>1. /\ DOMAIN Append(s, u) = 1..(Len(s) + 1)
      /\ DOMAIN s = 1..Len(s) /\ Len(s) \in Nat
      /\ \A i \in 1..Len(s) : Append(s, u)[i] = s[i]
      /\ Append(s, u)[Len(s) + 1] = u
  OBVIOUS
<1>2. CASE t = u
  <2>1. Places(Append(s, u), t) = Places(s, t) \union {Len(s) + 1}
    BY <1>1, <1>2 DEF Places
  <2>2. Len(s) + 1 \notin Places(s, t)
    BY <1>1 DEF Places
  <2> QED
    BY <1>2, <2>1, <2>2, CountIsNatural, FS_AddElement DEF Count
<1>3. CASE t # u
  <2>1. Places(Append(s, u), t) = Places(s, t)
    BY <1>1, <1>3 DEF Places
  <2> QED
    BY <1>3, <2>1, CountIsNatural DEF Count
<1> QED
  BY <1>2, <1>3

LEMMA CountOfTail ==
    ASSUME NEW S, NEW s \in Seq(S), s # << >>, NEW t
    PROVE  Count(Tail(s), t) + (IF t = Head(s) THEN 1 ELSE 0) <= Count(s, t)
<1>1. /\ DOMAIN s = 1..Len(s) /\ Len(s) \in Nat \ {0} /\ Head(s) = s[1]
      /\ DOMAIN Tail(s) = 1..(Len(s) - 1) /\ Tail(s) \in Seq(S)
      /\ \A i \in 1..(Len(s) - 1) : Tail(s)[i] = s[i + 1]
  OBVIOUS
<1> DEFINE A == Places(Tail(s), t)
           B == Places(s, t) \ {1}
           f == [i \in A |-> i + 1]
<1>2. f \in Injection(A, B)
  <2>1. \A i \in A : i \in 1..(Len(s) - 1) /\ Tail(s)[i] = t
    BY <1>1 DEF Places
  <2>2. \A i \in A : i \in Nat /\ i + 1 \in B
    BY <1>1, <2>1 DEF Places
  <2> HIDE DEF A, B
  <2>3. f \in [A -> B] /\ \A i, k \in A : f[i] = f[k] => i = k
    BY <2>2
  <2> QED
    BY <2>3 DEF Injection, IsInjective
<1>3. IsFiniteSet(Places(s, t)) /\ Count(s, t) \in Nat
  BY CountIsNatural
<1>4. IsFiniteSet(B) /\ Cardinality(B) <= Count(s, t)
  <2>1. B \subseteq Places(s, t)
    OBVIOUS
  <2> QED
    BY <1>3, <2>1, FS_Subset DEF Count
<1>5. Cardinality(A) <= Cardinality(B)
  BY <1>2, <1>4, FS_Injection
<1>6. Cardinality(B) + (IF t = Head(s) THEN 1 ELSE 0) <= Count(s, t)
  <2>1. CASE t = Head(s)
    <3>1. 1 \in Places(s, t)
      BY <1>1, <2>1 DEF Places
    <3>2. Cardinality(B) = Cardinality(Places(s, t)) - 1
      BY <1>3, <3>1, FS_RemoveElement
    <3> QED
      BY <1>3, <2>1, <3>2 DEF Count
  <2>2. CASE t # Head(s)
    BY <1>3, <1>4, <2>2, FS_CardinalityType
  <2> QED
    BY <2>1, <2>2
<1>7. Cardinality(A) \in Nat /\ Cardinality(B) \in Nat
  BY <1>1, <1>4, CountIsNatural, FS_CardinalityType DEF Count
<1> QED
  BY <1>5, <1>6, <1>7, <1>3 DEF Count

(* What a step does to what is pending: it is less or the same, and t does *)
(* not start; or t is enqueued; or t starts, and one of them is used up.   *)
Settles(t) ==
    /\ Pending(t)' <= Pending(t)
    /\ live'[t] <= live[t]
    /\ t \in DailyTasks => runs'[t] = runs[t]

LEMMA PendingType == TypeOK => \A t : Pending(t) \in Nat
<1> SUFFICES ASSUME TypeOK, NEW t PROVE Pending(t) \in Nat
  OBVIOUS
<1>1. queue["HIGH"] \in Seq(Tasks) /\ queue["NORMAL"] \in Seq(Tasks)
  BY DEF TypeOK, Priorities
<1> QED
  BY <1>1, CountIsNatural DEF Pending

LEMMA PendingPut ==
    ASSUME TypeOK, NEW u \in Tasks, Put(u), UNCHANGED basetask, NEW t
    PROVE  Pending(t)' = Pending(t) + (IF t = u THEN 1 ELSE 0)
<1>1. /\ queue["HIGH"] \in Seq(Tasks) /\ queue["NORMAL"] \in Seq(Tasks)
      /\ queue \in [Priorities -> Seq(Tasks)]
  BY DEF TypeOK, Priorities
<1>2. /\ Count(queue["HIGH"], t) \in Nat /\ Count(queue["NORMAL"], t) \in Nat
      /\ Count(Append(queue["HIGH"], u), t) = Count(queue["HIGH"], t) + (IF t = u THEN 1 ELSE 0)
      /\ Count(Append(queue["NORMAL"], u), t) = Count(queue["NORMAL"], t) + (IF t = u THEN 1 ELSE 0)
  BY <1>1, CountIsNatural, CountAppended
<1>3. \/ /\ queue'["HIGH"] = Append(queue["HIGH"], u) /\ queue'["NORMAL"] = queue["NORMAL"]
      \/ /\ queue'["NORMAL"] = Append(queue["NORMAL"], u) /\ queue'["HIGH"] = queue["HIGH"]
  BY <1>1 DEF Put, Priority, Priorities
<1>4. basetask' = basetask
  OBVIOUS
<1>5. CASE queue'["HIGH"] = Append(queue["HIGH"], u) /\ queue'["NORMAL"] = queue["NORMAL"]
  <2>1. /\ Count(queue'["HIGH"], t) = Count(queue["HIGH"], t) + (IF t = u THEN 1 ELSE 0)
        /\ Count(queue'["NORMAL"], t) = Count(queue["NORMAL"], t)
    BY <1>2, <1>5
  <2> QED
    BY <1>2, <1>4, <2>1 DEF Pending
<1>6. CASE queue'["NORMAL"] = Append(queue["NORMAL"], u) /\ queue'["HIGH"] = queue["HIGH"]
  <2>1. /\ Count(queue'["NORMAL"], t) = Count(queue["NORMAL"], t) + (IF t = u THEN 1 ELSE 0)
        /\ Count(queue'["HIGH"], t) = Count(queue["HIGH"], t)
    BY <1>2, <1>6
  <2> QED
    BY <1>2, <1>4, <2>1 DEF Pending
<1> QED
  BY <1>3, <1>5, <1>6

LEMMA PendingTake ==
    ASSUME TypeOK, LocalsInScope, NEW p \in Priorities, Take(p), NEW t
    PROVE  Pending(t)' <= Pending(t)
<1>1. /\ queue["HIGH"] \in Seq(Tasks) /\ queue["NORMAL"] \in Seq(Tasks)
      /\ queue[p] \in Seq(Tasks) /\ queue \in [Priorities -> Seq(Tasks)]
  BY DEF TypeOK, Priorities
<1>2. basetask = {} /\ basetask' = {Head(queue[p])} /\ queue[p] # << >>
  BY DEF Take, LocalsInScope
<1>3. \A q \in Priorities : queue'[q] = IF q = p THEN Tail(queue[q]) ELSE queue[q]
  BY <1>1 DEF Take
<1>4. Count(Tail(queue[p]), t) + (IF t = Head(queue[p]) THEN 1 ELSE 0) <= Count(queue[p], t)
  BY <1>1, <1>2, CountOfTail
<1>5. Tail(queue[p]) \in Seq(Tasks)
  BY <1>1, <1>2
<1>6. /\ Count(queue["HIGH"], t) \in Nat /\ Count(queue["NORMAL"], t) \in Nat
      /\ Count(Tail(queue[p]), t) \in Nat
  BY <1>1, <1>5, CountIsNatural
<1>7. t \in basetask' <=> t = Head(queue[p])
  BY <1>2
<1>8. p \in {"HIGH", "NORMAL"} /\ "HIGH" \in Priorities /\ "NORMAL" \in Priorities
  BY DEF Priorities
<1> QED
  BY <1>2, <1>3, <1>4, <1>6, <1>7, <1>8 DEF Pending

LEMMA NextPending ==
    ASSUME TypeOK, LocalsInScope, [Next]_vars, NEW t \in Tasks
    PROVE  \/ Settles(t)
           \/ /\ t \in SingleTasks /\ EnqueueSingle(t) /\ live' = live
              /\ Pending(t)' = Pending(t) + 1
           \/ /\ t \in DailyTasks /\ EnqueueDaily(t) /\ runs' = runs /\ live' = live
              /\ Pending(t)' = Pending(t) + 1
           \/ DispatchThread(t) /\ Pending(t)' + 1 <= Pending(t)
<1> DEFINE Goal == \/ Settles(t)
                   \/ /\ t \in SingleTasks /\ EnqueueSingle(t) /\ live' = live
                      /\ Pending(t)' = Pending(t) + 1
                   \/ /\ t \in DailyTasks /\ EnqueueDaily(t) /\ runs' = runs /\ live' = live
                      /\ Pending(t)' = Pending(t) + 1
                   \/ DispatchThread(t) /\ Pending(t)' + 1 <= Pending(t)
<1> SUFFICES Goal
  OBVIOUS
<1>0. /\ Pending(t) \in Nat /\ live \in [Tasks -> Nat] /\ live[t] \in Nat
      /\ runs \in [DailyTasks -> Nat]
      /\ SingleTasks \subseteq Tasks /\ DailyTasks \subseteq Tasks
  <2>1. Pending(t) \in Nat
    BY PendingType
  <2>2. live \in [Tasks -> Nat] /\ runs \in [DailyTasks -> Nat]
    BY DEF TypeOK
  <2>3. SingleTasks \subseteq Tasks /\ DailyTasks \subseteq Tasks
    BY DEF Tasks
  <2>4. live[t] \in Nat
    BY <2>2
  <2> QED
    BY <2>1, <2>2, <2>3, <2>4, Zenon
<1>1. ASSUME UNCHANGED <<live, runs>>, Pending(t)' <= Pending(t) PROVE Settles(t)
  BY <1>0, <1>1 DEF Settles
<1> DEFINE Quiet == UNCHANGED <<queue, basetask, live, runs>>
<1>2. ASSUME Quiet PROVE Settles(t)
  BY <1>0, <1>1, <1>2 DEF Pending
<1>3. ASSUME UNCHANGED queue, t \notin basetask', UNCHANGED runs, UNCHANGED live
      PROVE  Settles(t)
  <2>1. Pending(t)' <= Pending(t)
    <3>1. Count(queue["HIGH"], t) \in Nat /\ Count(queue["NORMAL"], t) \in Nat
      BY CountIsNatural DEF TypeOK, Priorities
    <3> QED
      BY <1>3, <3>1 DEF Pending
  <2> QED
    BY <1>1, <1>3, <2>1
<1> HIDE DEF Goal
<1> USE DEF vars, loop, table, history
<1>4. CASE UNCHANGED vars
  BY <1>2, <1>4 DEF Goal
<1>5. CASE Environment
  <2>1. ASSUME NEW u \in Tasks, ThreadFinish(u) PROVE Goal
    <3>1. live'[t] <= live[t]
      BY <1>0, <2>1 DEF ThreadFinish
    <3> QED
      BY <1>0, <2>1, <3>1 DEF ThreadFinish, Goal, Settles, Pending
  <2>2. CASE ReachExecutionTime \/ Midnight
    BY <1>2, <2>2 DEF Goal, ReachExecutionTime, Midnight
  <2>3. ASSUME NEW u \in SingleTasks, Add(u) PROVE Goal
    BY <1>2, <2>3 DEF Goal, Add
  <2> QED
    BY <1>5, <2>1, <2>2, <2>3 DEF Environment
<1>6. CASE ProcessStep
  <2>1. CASE Start \/ Finish \/ ConnectionDrop
    BY <1>2, <2>1 DEF Goal, Start, Finish, ConnectionDrop
  <2>2. CASE Crash \/ Exit
    <3>1. /\ queue' = [p \in Priorities |-> << >>] /\ basetask' = {} /\ runs' = runs
          /\ live' = [u \in Tasks |-> 0]
      BY <2>2 DEF Crash, Exit, Forget, NoThreads
    <3>2. queue'["HIGH"] = << >> /\ queue'["NORMAL"] = << >>
      BY <3>1 DEF Priorities
    <3>3. Pending(t)' = 0
      BY <3>1, <3>2, CountOfNothing DEF Pending
    <3> QED
      BY <1>0, <3>1, <3>3 DEF Goal, Settles
  <2> QED
    BY <1>6, <2>1, <2>2 DEF ProcessStep
<1>7. ASSUME NEW u \in SingleTasks, EnqueueSingle(u) PROVE Goal
  <2>1. Pending(t)' = Pending(t) + (IF t = u THEN 1 ELSE 0) /\ UNCHANGED <<live, runs>>
    BY <1>0, <1>7, PendingPut DEF EnqueueSingle
  <2> QED
    BY <1>0, <1>1, <1>7, <2>1 DEF Goal
<1>8. ASSUME NEW d \in DailyTasks, EnqueueDaily(d) PROVE Goal
  <2>1. Pending(t)' = Pending(t) + (IF t = d THEN 1 ELSE 0) /\ UNCHANGED <<live, runs>>
    BY <1>0, <1>8, PendingPut DEF EnqueueDaily
  <2> QED
    BY <1>0, <1>1, <1>8, <2>1 DEF Goal
<1>9. ASSUME NEW p \in Priorities, Take(p) PROVE Goal
  BY <1>1, <1>9, PendingTake DEF Goal, Take
<1>10. ASSUME NEW u \in Tasks, DispatchThread(u) PROVE Goal
  <2>1. u \in basetask /\ basetask' = {} /\ queue' = queue /\ Count(queue["HIGH"], t) \in Nat
        /\ Count(queue["NORMAL"], t) \in Nat
    BY <1>10, CountIsNatural DEF DispatchThread, Dispatch, TypeOK, Priorities
  <2>2. CASE t = u
    <3>1. Pending(t)' + 1 <= Pending(t)
      BY <2>1, <2>2 DEF Pending
    <3> QED
      BY <1>10, <2>2, <3>1 DEF Goal
  <2>3. CASE t # u
    <3>1. live'[t] = live[t] /\ (t \in DailyTasks => runs'[t] = runs[t])
      BY <1>0, <1>10, <2>3 DEF DispatchThread
    <3>2. Pending(t)' <= Pending(t)
      BY <2>1 DEF Pending
    <3> QED
      BY <1>0, <3>1, <3>2 DEF Goal, Settles
  <2> QED
    BY <2>2, <2>3
<1>11. ASSUME NEW u \in Tasks, DispatchUnknown(u) \/ DispatchNothing(u) PROVE Goal
  BY <1>3, <1>11 DEF Goal, DispatchUnknown, DispatchNothing, Dispatch
<1>12. ASSUME NEW u \in Tasks, CheckAlive(u) PROVE Goal
  BY <1>2, <1>12 DEF Goal, CheckAlive
<1>13. ASSUME NEW u \in SingleTasks, CheckSingle(u) PROVE Goal
  BY <1>2, <1>13 DEF Goal, CheckSingle
<1>14. ASSUME NEW d \in DailyTasks, CheckDaily(d) \/ ResetDaily(d) PROVE Goal
  BY <1>2, <1>14 DEF Goal, CheckDaily, ResetDaily
<1>15. CASE InterfaceErrorCaught \/ InterfaceErrorEscapes
  BY <1>3, <1>15 DEF Goal, InterfaceErrorCaught, InterfaceErrorEscapes, BeginCheck
<1>16. CASE \/ ResetStaleRunningTasks \/ LoopHead \/ FetchSingles \/ EnqueuedSingles
            \/ FetchDailies \/ EnqueuedDailies \/ TakeNothing \/ CheckDone
  BY <1>2, <1>16 DEF Goal, ResetStaleRunningTasks, LoopHead, FetchSingles, EnqueuedSingles,
                     FetchDailies, EnqueuedDailies, TakeNothing, CheckDone, BeginCheck
<1>17. CASE LoopStep
  BY <1>7, <1>8, <1>9, <1>10, <1>11, <1>12, <1>13, <1>14, <1>15, <1>16, <1>17 DEF LoopStep
<1> QED
  BY <1>4, <1>5, <1>6, <1>17 DEF Next, Goal

(* What makes OneStartPerQueuedDay inductive: every start that is pending  *)
(* is paid for by a day, these days are not after the row's stamp, and     *)
(* what was read is what is still stored.                                  *)
DailyInv ==
    /\ \A d \in DailyTasks : runs[d] + Pending(d) <= Cardinality(queuedOn[d])
    /\ \A d \in DailyTasks :
          IsFiniteSet(queuedOn[d]) /\ \A x \in queuedOn[d] : x <= dailyRow[d].executed
    /\ \A d \in DOMAIN fetched : fetched[d].executed = dailyRow[d].executed
    /\ pc = "dailies" => \A d \in DOMAIN fetched : fetched[d].executed < day

LEMMA InitDaily == Init => DailyInv
<1> SUFFICES ASSUME Init PROVE DailyInv
  OBVIOUS
<1>1. \A d \in DailyTasks : runs[d] = 0 /\ queuedOn[d] = {} /\ DOMAIN fetched = {}
  BY DEF Init, NoRows
<1>2. \A d \in DailyTasks : Pending(d) = 0
  BY CountOfNothing DEF Init, Pending, Priorities
<1> QED
  BY <1>1, <1>2, FS_EmptySet DEF DailyInv, Init, NoRows

(* The days a daily task was queued on, step by step.                      *)
LEMMA NextQueuedOn ==
    ASSUME TypeOK, [Next]_vars, NEW d \in DailyTasks
    PROVE  \/ queuedOn'[d] = queuedOn[d]
           \/ EnqueueDaily(d) /\ queuedOn'[d] = queuedOn[d] \union {day}
<1> USE DEF vars, history
<1> DEFINE Keeps == queuedOn'[d] = queuedOn[d]
           Grows == EnqueueDaily(d) /\ queuedOn'[d] = queuedOn[d] \union {day}
<1> SUFFICES Keeps \/ Grows
  OBVIOUS
<1>0. queuedOn \in [DailyTasks -> SUBSET Nat]
  BY DEF TypeOK
<1>1. CASE Environment \/ ProcessStep \/ UNCHANGED vars
  BY <1>1 DEF Environment, ProcessStep, Add, ThreadFinish, ReachExecutionTime, Midnight,
              Start, Crash, Finish, Exit, ConnectionDrop
<1>2. ASSUME NEW e \in DailyTasks, EnqueueDaily(e) PROVE Keeps \/ Grows
  BY <1>0, <1>2 DEF EnqueueDaily
<1>3. ASSUME NEW e \in DailyTasks, CheckDaily(e) \/ ResetDaily(e) PROVE Keeps
  BY <1>3 DEF CheckDaily, ResetDaily
<1>4. ASSUME NEW p \in Priorities, Take(p) PROVE Keeps
  BY <1>4 DEF Take
<1>5. ASSUME NEW t \in Tasks,
             DispatchUnknown(t) \/ DispatchNothing(t) \/ DispatchThread(t) \/ CheckAlive(t)
      PROVE  Keeps
  BY <1>5 DEF DispatchUnknown, DispatchNothing, DispatchThread, CheckAlive, Dispatch
<1>6. ASSUME NEW t \in SingleTasks, EnqueueSingle(t) \/ CheckSingle(t) PROVE Keeps
  BY <1>6 DEF EnqueueSingle, CheckSingle
<1>7. CASE \/ ResetStaleRunningTasks \/ LoopHead \/ FetchSingles \/ EnqueuedSingles
           \/ FetchDailies \/ EnqueuedDailies \/ TakeNothing \/ CheckDone
           \/ InterfaceErrorCaught \/ InterfaceErrorEscapes
  BY <1>7 DEF ResetStaleRunningTasks, LoopHead, FetchSingles, EnqueuedSingles, FetchDailies,
              EnqueuedDailies, TakeNothing, CheckDone, InterfaceErrorCaught, InterfaceErrorEscapes
<1> HIDE DEF Keeps, Grows
<1>8. ASSUME NEW e \in DailyTasks, EnqueueDaily(e) \/ CheckDaily(e) \/ ResetDaily(e)
      PROVE  Keeps \/ Grows
  BY <1>2, <1>3, <1>8, Zenon
<1>9. CASE LoopStep
  BY <1>4, <1>5, <1>6, <1>7, <1>8, <1>9 DEF LoopStep
<1> QED
  BY <1>1, <1>9 DEF Next

(* What save() writes of an instance it stamps or releases.                *)
LEMMA SavedRow ==
    ASSUME NEW row \in DailyRows
    PROVE  Released(row).executed = row.executed /\ Stamped(row).executed = day
<1>1. DOMAIN row = {"enabled", "running", "executed"}
  BY DEF DailyRows
<1> QED
  BY <1>1

(* The stamps and the fetched instances, step by step.                     *)
LEMMA NextStamps ==
    ASSUME TypeOK, [Next]_vars, NEW d \in DailyTasks
    PROVE  \/ dailyRow'[d].executed = dailyRow[d].executed
           \/ EnqueueDaily(d) /\ dailyRow'[d].executed = day
           \/ ResetDaily(d) /\ dailyRow'[d].executed = fetched[d].executed
<1>0. dailyRow \in [DailyTasks -> DailyRows] /\ day \in Nat /\ DOMAIN fetched \subseteq DailyTasks
      /\ \A e \in DOMAIN fetched : fetched[e] \in DailyRows
  BY DEF TypeOK
<1> DEFINE Keeps == dailyRow'[d].executed = dailyRow[d].executed
<1>1. CASE Environment \/ ProcessStep \/ UNCHANGED vars
  BY <1>1 DEF Environment, ProcessStep, Add, ThreadFinish, ReachExecutionTime, Midnight,
              Start, Crash, Finish, Exit, ConnectionDrop, vars, table
<1>2. CASE ResetStaleRunningTasks
  BY <1>0, <1>2 DEF ResetStaleRunningTasks, DailyRows
<1>3. ASSUME NEW e \in DailyTasks, ResetDaily(e), d # e PROVE Keeps
  BY <1>0, <1>3 DEF ResetDaily
<1>4. ASSUME ResetDaily(d) PROVE dailyRow'[d].executed = fetched[d].executed
  BY <1>0, <1>4, SavedRow DEF ResetDaily
<1>5. ASSUME NEW e \in DailyTasks, EnqueueDaily(e), d # e PROVE Keeps
  BY <1>0, <1>5 DEF EnqueueDaily
<1>6. ASSUME EnqueueDaily(d) PROVE dailyRow'[d].executed = day
  BY <1>0, <1>6, SavedRow DEF EnqueueDaily
<1>7. ASSUME NEW p \in Priorities, Take(p) PROVE Keeps
  BY <1>7 DEF Take, table
<1>8. ASSUME NEW t \in Tasks,
             DispatchUnknown(t) \/ DispatchNothing(t) \/ DispatchThread(t) \/ CheckAlive(t)
      PROVE  Keeps
  BY <1>8 DEF DispatchUnknown, DispatchNothing, DispatchThread, CheckAlive, Dispatch, table
<1>9. ASSUME NEW t \in SingleTasks, EnqueueSingle(t) \/ CheckSingle(t) PROVE Keeps
  BY <1>9 DEF EnqueueSingle, CheckSingle
<1>10. CASE \/ LoopHead \/ FetchSingles \/ EnqueuedSingles \/ FetchDailies \/ EnqueuedDailies
            \/ TakeNothing \/ CheckDone \/ InterfaceErrorCaught \/ InterfaceErrorEscapes
  BY <1>10 DEF LoopHead, FetchSingles, EnqueuedSingles, FetchDailies, EnqueuedDailies,
               TakeNothing, CheckDone, InterfaceErrorCaught, InterfaceErrorEscapes, table
<1>11. ASSUME NEW e \in DailyTasks, CheckDaily(e) PROVE Keeps
  BY <1>11 DEF CheckDaily, table
<1> HIDE DEF Keeps
<1>12. ASSUME NEW e \in DailyTasks, EnqueueDaily(e) \/ CheckDaily(e) \/ ResetDaily(e)
       PROVE  \/ Keeps
              \/ EnqueueDaily(d) /\ dailyRow'[d].executed = day
              \/ ResetDaily(d) /\ dailyRow'[d].executed = fetched[d].executed
  BY <1>3, <1>4, <1>5, <1>6, <1>11, <1>12, Zenon
<1> QED
  BY <1>1, <1>2, <1>7, <1>8, <1>9, <1>10, <1>12 DEF Next, LoopStep, Keeps

LEMMA NextFetched ==
    ASSUME TypeOK, LocalsInScope, [Next]_vars, NEW d \in DOMAIN fetched'
    PROVE  \/ /\ d \in DOMAIN fetched /\ fetched'[d] = fetched[d]
              /\ dailyRow'[d] = dailyRow[d] /\ pc' = pc /\ day <= day'
           \/ fetched'[d] = dailyRow[d] /\ UNCHANGED <<dailyRow, day>>
              /\ (pc' = "dailies" => dailyRow[d].executed < day)
<1> USE DEF vars, loop, table, clock, Goto, BeginCheck
<1> DEFINE Same == /\ d \in DOMAIN fetched /\ fetched'[d] = fetched[d]
                   /\ dailyRow'[d] = dailyRow[d] /\ pc' = pc /\ day <= day'
           Read == /\ fetched'[d] = dailyRow[d] /\ UNCHANGED <<dailyRow, day>>
                   /\ pc' = "dailies" => dailyRow[d].executed < day
<1>0. day \in Nat /\ dailyRow \in [DailyTasks -> DailyRows]
      /\ (DOMAIN fetched # {} => pc \in {"dailies", "reset"})
  BY DEF TypeOK, LocalsInScope
<1>1. CASE Environment \/ UNCHANGED vars
  BY <1>0, <1>1 DEF Environment, Add, ThreadFinish, ReachExecutionTime, Midnight
<1>2. CASE ProcessStep
  BY <1>0, <1>2 DEF ProcessStep, Start, Crash, Finish, Exit, ConnectionDrop, Forget, NoRows
<1>3. CASE FetchDailies
  BY <1>0, <1>3 DEF FetchDailies, Selected, Due
<1>4. ASSUME NEW e \in DailyTasks, EnqueueDaily(e) PROVE Same
  <2>1. fetched' = Without(fetched, e) /\ dailyRow' = [dailyRow EXCEPT ![e] = Stamped(fetched[e])]
        /\ pc' = pc /\ day' = day
    BY <1>4 DEF EnqueueDaily
  <2>2. d \in DOMAIN fetched /\ d # e /\ fetched'[d] = fetched[d]
    BY <2>1 DEF Without
  <2> QED
    BY <1>0, <2>1, <2>2
<1>5. ASSUME NEW e \in DailyTasks, ResetDaily(e) PROVE FALSE
  BY <1>5 DEF ResetDaily, NoRows
<1>6. ASSUME NEW e \in DailyTasks, CheckDaily(e) PROVE Read
  BY <1>6 DEF CheckDaily
<1>7. ASSUME NEW p \in Priorities, Take(p) PROVE FALSE
  BY <1>0, <1>7 DEF Take
<1>8. ASSUME NEW t \in Tasks,
             DispatchUnknown(t) \/ DispatchNothing(t) \/ DispatchThread(t) \/ CheckAlive(t)
      PROVE  FALSE
  BY <1>0, <1>8 DEF DispatchUnknown, DispatchNothing, DispatchThread, CheckAlive, Dispatch
<1>9. ASSUME NEW t \in SingleTasks, EnqueueSingle(t) \/ CheckSingle(t) PROVE FALSE
  BY <1>0, <1>9 DEF EnqueueSingle, CheckSingle
<1>10. CASE \/ LoopHead \/ FetchSingles \/ EnqueuedSingles \/ ResetStaleRunningTasks
            \/ TakeNothing \/ CheckDone \/ InterfaceErrorCaught \/ InterfaceErrorEscapes
  BY <1>0, <1>10 DEF LoopHead, FetchSingles, EnqueuedSingles, ResetStaleRunningTasks,
               TakeNothing, CheckDone, InterfaceErrorCaught, InterfaceErrorEscapes, NoRows
<1>11. CASE EnqueuedDailies
  BY <1>0, <1>11 DEF EnqueuedDailies
<1> QED
  BY <1>1, <1>2, <1>3, <1>4, <1>5, <1>6, <1>7, <1>8, <1>9, <1>10, <1>11 DEF Next, LoopStep

LEMMA NextDaily == TypeOK /\ TypeOK' /\ LocalsInScope /\ DailyInv /\ [Next]_vars => DailyInv'
<1> SUFFICES ASSUME TypeOK, TypeOK', LocalsInScope, DailyInv, [Next]_vars PROVE DailyInv'
  OBVIOUS
<1> DEFINE Days(d) == IsFiniteSet(queuedOn[d]) /\ \A x \in queuedOn[d] : x <= dailyRow[d].executed
<1>1. ASSUME NEW d \in DailyTasks
      PROVE  runs'[d] + Pending(d)' <= Cardinality(queuedOn'[d]) /\ Days(d)'
  <2>0. d \in Tasks /\ d \notin SingleTasks
    BY DEF Tasks
  <2>1. runs[d] + Pending(d) <= Cardinality(queuedOn[d]) /\ Days(d)
    BY DEF DailyInv
  <2>2. /\ runs[d] \in Nat /\ runs'[d] \in Nat /\ day \in Nat
        /\ dailyRow[d].executed \in Nat /\ dailyRow'[d].executed \in Nat
        /\ queuedOn[d] \subseteq Nat
    BY DEF TypeOK, DailyRows
  <2>3. Pending(d) \in Nat
    BY PendingType
  <2>4. Pending(d)' \in Nat
    <3>1. queue'["HIGH"] \in Seq(Tasks) /\ queue'["NORMAL"] \in Seq(Tasks)
      BY DEF TypeOK, Priorities
    <3> QED
      BY <3>1, CountIsNatural DEF Pending
  <2>5. dailyRow[d].executed <= dailyRow'[d].executed
    <3>1. CASE EnqueueDaily(d) /\ dailyRow'[d].executed = day
      BY <2>2, <3>1 DEF EnqueueDaily, DailyInv
    <3>2. CASE ResetDaily(d) /\ dailyRow'[d].executed = fetched[d].executed
      BY <2>2, <3>2 DEF ResetDaily, DailyInv
    <3> QED
      BY <2>2, <3>1, <3>2, NextStamps
  <2>6. CASE queuedOn'[d] = queuedOn[d] /\ ~EnqueueDaily(d)
    <3>1. Days(d)'
      BY <2>1, <2>2, <2>5, <2>6
    <3>2. Cardinality(queuedOn'[d]) = Cardinality(queuedOn[d]) /\ Cardinality(queuedOn[d]) \in Nat
      BY <2>1, <2>6, FS_CardinalityType
    <3>3. CASE Settles(d)
      BY <2>1, <2>2, <2>3, <2>4, <3>1, <3>2, <3>3 DEF Settles
    <3>4. CASE DispatchThread(d) /\ Pending(d)' + 1 <= Pending(d)
      <4>1. runs'[d] = runs[d] + 1
        BY <3>4 DEF DispatchThread
      <4> QED
        BY <2>1, <2>2, <2>3, <2>4, <3>1, <3>2, <3>4, <4>1
    <3> QED
      BY <2>0, <2>6, <3>3, <3>4, NextPending
  <2>7. CASE EnqueueDaily(d)
    <3>1. dailyRow'[d].executed = day
      BY <2>2, <2>7, SavedRow DEF EnqueueDaily, TypeOK, DailyRows
    <3>2. dailyRow[d].executed < day /\ runs' = runs
      BY <2>7 DEF EnqueueDaily, DailyInv
    <3>3. queuedOn'[d] = queuedOn[d] \union {day} /\ day \notin queuedOn[d]
      BY <2>1, <2>2, <2>7, <3>2 DEF EnqueueDaily, TypeOK
    <3>4. /\ IsFiniteSet(queuedOn'[d]) /\ Cardinality(queuedOn[d]) \in Nat
          /\ Cardinality(queuedOn'[d]) = Cardinality(queuedOn[d]) + 1
      <4>1. IsFiniteSet(queuedOn[d])
        BY <2>1
      <4>2. /\ IsFiniteSet(queuedOn[d] \union {day})
            /\ Cardinality(queuedOn[d] \union {day}) = Cardinality(queuedOn[d]) + 1
        BY <3>3, <4>1, FS_AddElement
      <4> QED
        BY <3>3, <4>1, <4>2, FS_CardinalityType
    <3>5. Days(d)'
      BY <2>1, <2>2, <3>1, <3>2, <3>3, <3>4
    <3>6. Pending(d)' <= Pending(d) + 1
      <4>1. CASE Settles(d)
        BY <2>2, <2>3, <2>4, <3>2, <4>1 DEF Settles
      <4> QED
        BY <2>0, <2>3, <2>4, <4>1, NextPending
    <3> QED
      BY <2>1, <2>2, <2>3, <2>4, <3>2, <3>4, <3>5, <3>6
  <2> QED
    BY <2>6, <2>7, NextQueuedOn
<1>2. /\ DOMAIN fetched' \subseteq DailyTasks /\ day \in Nat /\ day' \in Nat
      /\ \A d \in DOMAIN fetched' : fetched'[d].executed \in Nat
  BY DEF TypeOK, DailyRows
<1>3. ASSUME NEW d \in DOMAIN fetched'
      PROVE  /\ fetched'[d].executed = dailyRow'[d].executed
             /\ pc' = "dailies" => fetched'[d].executed < day'
  BY <1>2, NextFetched DEF DailyInv
<1> QED
  BY <1>1, <1>3 DEF DailyInv

(* No sequence of crashes, midnights and overlong runs makes a daily task  *)
(* start more often than there are days on which it was queued.            *)
THEOREM StartsQueued == Spec => []OneStartPerQueuedDay
<1>1. DailyInv /\ TypeOK => OneStartPerQueuedDay
  <2> SUFFICES ASSUME DailyInv, TypeOK, NEW d \in DailyTasks
               PROVE  runs[d] <= Cardinality(queuedOn[d])
    BY DEF OneStartPerQueuedDay
  <2>1. Pending(d) \in Nat /\ runs[d] \in Nat /\ Cardinality(queuedOn[d]) \in Nat
    BY PendingType, FS_CardinalityType DEF TypeOK, DailyInv
  <2> QED
    BY <2>1 DEF DailyInv
<1>2. IInv => TypeOK /\ LocalsInScope
  BY DEF IInv
<1>3. IInv /\ IInv' /\ DailyInv /\ [Next]_vars => DailyInv'
  BY <1>2, NextDaily DEF IInv
<1> QED
  BY Invariance, InitDaily, <1>1, <1>2, <1>3, PTL DEF Spec

-----------------------------------------------------------------------------
(* The refinement.  BoardView is the board as TaskExecuter implements it.  *)

BoardView == [t \in SingleTasks |-> BoardPhase(t)]

LEMMA PhaseOfTask ==
    ASSUME IInv, NEW t \in SingleTasks
    PROVE  /\ BoardPhase(t) = "executing" <=> live[t] > 0
           /\ BoardPhase(t) = "done" <=> live[t] = 0 /\ t \in runningThreads
           /\ BoardPhase(t) = "none" <=> singleRow[t] = "absent"
           /\ BoardPhase(t) = "waiting" <=> t \notin runningThreads /\ singleRow[t] # "absent"
           /\ BoardPhase(t) \in {"none", "waiting", "executing", "done"}
<1>1. live[t] \in Nat /\ t \in Tasks
  BY DEF IInv, TypeOK, Tasks
<1>2. live[t] > 0 => t \in runningThreads
  BY <1>1 DEF IInv, ThreadsTracked
<1>3. t \in runningThreads => singleRow[t] = "running"
  BY DEF IInv, ClaimedOnce, Claimed
<1> QED
  BY <1>1, <1>2, <1>3 DEF BoardPhase

(* A step that leaves live, the tracked single tasks and the existence of  *)
(* rows alone is a stuttering step of the board.                           *)
LEMMA BoardStutters ==
    ASSUME IInv, IInv',
           live' = live,
           \A t \in SingleTasks :
              /\ t \in runningThreads' <=> t \in runningThreads
              /\ singleRow'[t] = "absent" <=> singleRow[t] = "absent"
    PROVE  BoardView' = BoardView
BY DEF BoardView, BoardPhase

(* One task moves on the board, the others keep their places.              *)
LEMMA BoardMoves ==
    ASSUME IInv, IInv', NEW t \in SingleTasks, NEW from, NEW to,
           BoardPhase(t) = from, BoardPhase(t)' = to,
           \A u \in SingleTasks \ {t} :
              /\ live'[u] = live[u]
              /\ u \in runningThreads' <=> u \in runningThreads
              /\ singleRow'[u] = singleRow[u]
    PROVE  Board!Move(t, from, to)
<1>1. ASSUME NEW u \in SingleTasks \ {t} PROVE BoardPhase(u)' = BoardPhase(u)
  <2>1. /\ live'[u] = live[u]
        /\ u \in runningThreads' <=> u \in runningThreads
        /\ singleRow'[u] = singleRow[u]
    OBVIOUS
  <2> QED
    BY ONLY <2>1 DEF BoardPhase
<1>2. BoardView' = [BoardView EXCEPT ![t] = to]
  BY <1>1 DEF BoardView
<1> QED
  BY <1>2 DEF Board!Move, BoardView

LEMMA InitBoard == Init => Board!BoardInit
BY DEF Init, Board!BoardInit, BoardPhase, NoThreads, Tasks

(* Every step of the task manager is a step of the board, or none.         *)
LEMMA NextBoard ==
    ASSUME IInv, IInv', [Next]_vars
    PROVE  [Board!BoardNext]_BoardView
<1> DEFINE Stutters == BoardView' = BoardView
           Still == /\ live' = live
                    /\ \A t \in SingleTasks :
                          /\ t \in runningThreads' <=> t \in runningThreads
                          /\ singleRow'[t] = "absent" <=> singleRow[t] = "absent"
<1> SUFFICES Board!BoardNext \/ Stutters
  BY DEF BoardView
<1>0. /\ SingleTasks \subseteq Tasks /\ DailyTasks \subseteq Tasks
      /\ SingleTasks \intersect DailyTasks = {}
      /\ live \in [Tasks -> Nat]
      /\ singleRow \in [SingleTasks -> RowStates]
  BY DEF IInv, TypeOK, Tasks
<1>s. Still => Stutters
  BY BoardStutters
<1> HIDE DEF Still, Stutters
<1>1. ASSUME NEW t \in SingleTasks, Add(t) PROVE Board!BoardNext \/ Stutters
  <2>1. CASE singleRow[t] = "absent"
    <3>1. BoardPhase(t) = "none"
      BY <2>1, PhaseOfTask
    <3>2. t \notin runningThreads' /\ singleRow'[t] # "absent"
      BY <1>0, <1>1, <2>1 DEF Add, loop, IInv, ClaimedOnce, Claimed
    <3>3. BoardPhase(t)' = "waiting"
      BY <1>0, <1>1, <3>1, <3>2, PhaseOfTask DEF Add, loop, BoardPhase
    <3>4. Board!Move(t, "none", "waiting")
      BY <1>0, <1>1, <3>1, <3>3, BoardMoves DEF Add, loop
    <3> QED
      BY <3>4 DEF Board!BoardNext, Board!BoardRequest
  <2>2. CASE singleRow[t] # "absent"
    BY <1>1, <1>s, <2>2 DEF Add, loop, Still
  <2> QED
    BY <2>1, <2>2
<1>2. ASSUME NEW t \in Tasks, ThreadFinish(t) PROVE Board!BoardNext \/ Stutters
  <2>1. CASE t \in SingleTasks
    <3>1. BoardPhase(t) = "executing"
      BY <1>2, <2>1, PhaseOfTask DEF ThreadFinish
    <3>2. BoardPhase(t)' = "done"
      BY <1>0, <1>2, <2>1 DEF ThreadFinish, loop, BoardPhase, IInv, OneThreadPerTask, ThreadsTracked
    <3>3. Board!Move(t, "executing", "done")
      BY <1>0, <1>2, <2>1, <3>1, <3>2, BoardMoves DEF ThreadFinish, loop, table
    <3> QED
      BY <2>1, <3>3 DEF Board!BoardNext, Board!BoardFinish
  <2>2. CASE t \notin SingleTasks
    <3>1. \A u \in SingleTasks : BoardPhase(u)' = BoardPhase(u)
      BY <1>0, <1>2, <2>2 DEF ThreadFinish, loop, table, BoardPhase
    <3> QED
      BY <3>1 DEF BoardView, Stutters
  <2> QED
    BY <2>1, <2>2
<1>3. CASE Crash \/ Exit
  <2>1. /\ \A t \in Tasks : live'[t] = 0
        /\ runningThreads' = {}
        /\ singleRow' = singleRow
    BY <1>3 DEF Crash, Exit, Forget, NoThreads, table
  <2>2. ASSUME NEW t \in SingleTasks
        PROVE  BoardPhase(t)' = IF t \in Board!Occupied THEN "waiting" ELSE BoardPhase(t)
    <3>1. t \in Board!Occupied <=> t \in runningThreads
      BY <1>0, PhaseOfTask DEF Board!Occupied, IInv, ThreadsTracked
    <3>2. t \in runningThreads => singleRow[t] # "absent"
      BY DEF IInv, ClaimedOnce, Claimed
    <3>3. BoardPhase(t)' = IF singleRow[t] = "absent" THEN "none" ELSE "waiting"
      BY <1>0, <2>1 DEF BoardPhase
    <3> QED
      BY <3>1, <3>2, <3>3, PhaseOfTask
  <2>3. Board!BoardCrash
    BY <2>2 DEF Board!BoardCrash
  <2> QED
    BY <2>3 DEF Board!BoardNext
<1>4. ASSUME NEW t \in Tasks, DispatchUnknown(t) PROVE Board!BoardNext \/ Stutters
  <2>1. CASE t \in SingleTasks
    <3>1. t \notin runningThreads /\ singleRow[t] # "absent"
      BY <1>4, <2>1 DEF DispatchUnknown, Dispatch, IInv, ClaimedOnce, Claimed
    <3>2. BoardPhase(t) = "waiting"
      BY <2>1, <3>1, PhaseOfTask
    <3>3. BoardPhase(t)' = "none"
      BY <1>0, <1>4, <2>1, <3>1 DEF DispatchUnknown, Dispatch, RemoveSingleTask, BoardPhase,
                                   IInv, ThreadsTracked
    <3>4. Board!Move(t, "waiting", "none")
      BY <1>0, <1>4, <2>1, <3>2, <3>3, BoardMoves DEF DispatchUnknown, RemoveSingleTask
    <3> QED
      BY <1>4, <2>1, <3>4 DEF Board!BoardNext, Board!BoardDiscard, DispatchUnknown
  <2>2. CASE t \notin SingleTasks
    BY <1>4, <1>s, <2>2 DEF DispatchUnknown, RemoveSingleTask, Still
  <2> QED
    BY <2>1, <2>2
<1>5. ASSUME NEW t \in Tasks, DispatchThread(t) PROVE Board!BoardNext \/ Stutters
  <2>1. CASE t \in SingleTasks
    <3>1. t \notin runningThreads /\ singleRow[t] # "absent" /\ live[t] = 0
      BY <1>0, <1>5, <2>1 DEF DispatchThread, Dispatch, IInv, ClaimedOnce, Claimed, ThreadsTracked
    <3>2. BoardPhase(t) = "waiting"
      BY <2>1, <3>1, PhaseOfTask
    <3>3. BoardPhase(t)' = "executing"
      BY <1>0, <1>5, <2>1, <3>1 DEF DispatchThread, BoardPhase
    <3>4. Board!Move(t, "waiting", "executing")
      BY <1>0, <1>5, <2>1, <3>2, <3>3, BoardMoves DEF DispatchThread
    <3>5. Cardinality(Board!Occupied) < Concurrency
      <4>1. Board!Occupied \subseteq runningThreads
        BY <1>0, PhaseOfTask DEF Board!Occupied, IInv, ThreadsTracked
      <4>2. /\ IsFiniteSet(runningThreads)
            /\ Cardinality(runningThreads) < Concurrency
        BY <1>5 DEF DispatchThread, Dispatch, IInv, RoomForOneMore, HasRoom
      <4>3. /\ IsFiniteSet(Board!Occupied)
            /\ Cardinality(Board!Occupied) <= Cardinality(runningThreads)
        BY <4>1, <4>2, FS_Subset
      <4>4. Cardinality(Board!Occupied) \in Nat /\ Cardinality(runningThreads) \in Nat
        BY <4>2, <4>3, FS_CardinalityType
      <4> QED
        BY <4>2, <4>3, <4>4
    <3>6. Board!BoardStart(t)
      BY <3>4, <3>5, Zenon DEF Board!BoardStart, Cardinality, Board!Cardinality
    <3> QED
      BY <2>1, <3>6 DEF Board!BoardNext
  <2>2. CASE t \notin SingleTasks
    <3>1. \A u \in SingleTasks : BoardPhase(u)' = BoardPhase(u)
      BY <1>0, <1>5, <2>2 DEF DispatchThread, BoardPhase
    <3> QED
      BY <3>1 DEF BoardView, Stutters
  <2> QED
    BY <2>1, <2>2
<1>6. ASSUME NEW t \in SingleTasks, CheckSingle(t) PROVE Board!BoardNext \/ Stutters
  <2>1. t \in runningThreads /\ live[t] = 0
    BY <1>6 DEF CheckSingle, IInv, TypeOK
  <2>2. BoardPhase(t) = "done"
    BY <2>1, PhaseOfTask
  <2>3. BoardPhase(t)' = "none"
    BY <1>0, <1>6, <2>1 DEF CheckSingle, RemoveSingleTask, BoardPhase
  <2>4. Board!Move(t, "done", "none")
    BY <1>0, <1>6, <2>2, <2>3, BoardMoves DEF CheckSingle, RemoveSingleTask
  <2> QED
    BY <2>4 DEF Board!BoardNext, Board!BoardRetire
<1> USE DEF Still, vars, table, loop
<1>7. CASE ResetStaleRunningTasks
  BY <1>0, <1>7, <1>s DEF ResetStaleRunningTasks
<1>8. ASSUME NEW t \in SingleTasks, EnqueueSingle(t) PROVE Still
  BY <1>0, <1>8 DEF EnqueueSingle, IInv, HoldsWhatItRead
<1>9. ASSUME NEW d \in DailyTasks, EnqueueDaily(d) \/ CheckDaily(d) \/ ResetDaily(d) PROVE Still
  BY <1>0, <1>9 DEF EnqueueDaily, CheckDaily, ResetDaily
<1>10. ASSUME NEW p \in Priorities, Take(p) PROVE Still
  BY <1>10 DEF Take
<1>11. ASSUME NEW t \in Tasks, DispatchNothing(t) \/ CheckAlive(t) PROVE Still
  BY <1>11 DEF DispatchNothing, Dispatch, CheckAlive
<1>12. CASE \/ LoopHead \/ FetchSingles \/ EnqueuedSingles \/ FetchDailies \/ EnqueuedDailies
            \/ TakeNothing \/ CheckDone \/ InterfaceErrorCaught \/ InterfaceErrorEscapes
  <2> Still
    BY <1>12 DEF LoopHead, FetchSingles, EnqueuedSingles, FetchDailies, EnqueuedDailies,
                 TakeNothing, CheckDone, InterfaceErrorCaught, InterfaceErrorEscapes
  <2> QED
    BY <1>s
<1>13. CASE \/ Start \/ Finish \/ ConnectionDrop \/ ReachExecutionTime \/ Midnight
            \/ UNCHANGED vars
  <2> Still
    BY <1>13 DEF Start, Finish, ConnectionDrop, ReachExecutionTime, Midnight
  <2> QED
    BY <1>s
<1> HIDE DEF Still
<1>14. CASE LoopStep
  BY <1>s, <1>4, <1>5, <1>6, <1>7, <1>8, <1>9, <1>10, <1>11, <1>12, <1>14 DEF LoopStep
<1> QED
  BY <1>1, <1>2, <1>3, <1>13, <1>14 DEF Next, Environment, ProcessStep

(* The task manager implements the board of single tasks.                  *)
THEOREM Refinement == Spec => BoardImplemented
<1>1. IInv /\ IInv' /\ [Next]_vars => [Board!BoardNext]_BoardView
  BY NextBoard
<1>2. Spec => Board!BoardInit /\ [][Board!BoardNext]_BoardView
  BY InitBoard, Invariance, <1>1, PTL DEF Spec
<1> QED
  BY <1>2, PTL DEF BoardImplemented, Board!BoardSpec, BoardView
=============================================================================
