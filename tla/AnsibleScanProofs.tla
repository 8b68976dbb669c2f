-------------------------- MODULE AnsibleScanProofs --------------------------
(***************************************************************************)
(* Proofs about AnsibleScan, for any machines and tasks and any number of  *)
(* results, requests and faults.                                           *)
(***************************************************************************)
EXTENDS AnsibleScan, TLAPS, FiniteSetTheorems

(* What threads do, one after the other.                                   *)
ThreadStep(s) ==
    \/ Spawn(s) \/ ReadInventory(s) \/ Return(s) \/ Judge(s)

(* Everything that leaves the threads and their environment alone.         *)
Elsewhere ==
    \/ \E s \in Scans : Rescan(s)
    \/ RescanAll \/ DailyBegin \/ DailyScanAll \/ DailyFails
    \/ \E w \in Writers : Validate(w) \/ Save(w)
    \/ PageApply \/ PageEdit \/ DeleteResults
    \/ \E m \in Machines : AddBMC(m) \/ DeleteMachine(m)
    \/ \E s \in Scans : StoreResult(s)

LEMMA NextByThread ==
    ASSUME Next
    PROVE  \/ Elsewhere \/ Restart
           \/ \E s \in Scans :
                \/ ThreadStep(s) \/ Start(s) \/ Skip(s) \/ Callback(s)
                \/ Tidy(s) \/ DeleteEnvironment(s) \/ Remove(s)
BY DEF Next, ThreadStep, Elsewhere
-----------------------------------------------------------------------------
(* The environment.  A thread that ends either found the variable unset or *)
(* has just unset it, whoever set it.                                      *)
EnvInv ==
    /\ pc = [s \in Scans |-> pc[s]]
    /\ EnvironmentCurrent

LEMMA InitEnvInv == Init => EnvInv
BY DEF Init, EnvInv, EnvironmentCurrent, Active

(* A thread that goes on, and stays one of those that are in progress.     *)
LEMMA GoesOn ==
    ASSUME EnvInv, NEW s \in Scans, NEW label \in Running, Goto(s, label), env' \in {env, {s}}
    PROVE  EnvInv'
<1>1. pc' = [v \in Scans |-> IF v = s THEN label ELSE pc[v]]
    BY DEF EnvInv, Goto
<1>2. pc' = [v \in Scans |-> pc'[v]]
    BY <1>1
<1>3. \A v \in Scans : pc'[v] = IF v = s THEN label ELSE pc[v]
    BY <1>1
<1>4. s \in Active' /\ Active \subseteq Active'
    BY <1>3 DEF Active
<1> QED BY <1>2, <1>4 DEF EnvInv, EnvironmentCurrent

LEMMA StepEnvInv ==
    ASSUME EnvInv, [Next]_vars
    PROVE  EnvInv'
<1>1. CASE UNCHANGED <<pc, env>>
    BY <1>1 DEF EnvInv, EnvironmentCurrent, Active
<1>2. CASE UNCHANGED vars
    BY <1>1, <1>2 DEF vars, threads
<1>3. CASE Elsewhere
    BY <1>1, <1>3 DEF Elsewhere, Rescan, RescanAll, DailyBegin, DailyScanAll, DailyFails, Validate,
       Save, PageApply, PageEdit, DeleteResults, AddBMC, DeleteMachine, StoreResult, threads
<1>4. CASE Restart
    BY <1>4 DEF Restart, EnvInv, EnvironmentCurrent, Active
<1>5. ASSUME NEW s \in Scans, ThreadStep(s)
      PROVE  EnvInv'
  <2>1. env' = env /\ \E label \in Running : Goto(s, label)
    BY <1>5 DEF ThreadStep, Spawn, ReadInventory, Return, Judge, Finally, Running
  <2> QED BY <2>1, GoesOn
<1>6. ASSUME NEW s \in Scans, Start(s)
      PROVE  EnvInv'
  <2>1. env' = {s} /\ Goto(s, "spawn") /\ "spawn" \in Running
    BY <1>6 DEF Start, Running
  <2> QED BY <2>1, GoesOn
<1>7. ASSUME NEW s \in Scans, Skip(s) \/ Callback(s)
      PROVE  EnvInv'
    BY <1>1, <1>7 DEF Skip, Callback
<1>8. ASSUME NEW s \in Scans, Tidy(s)
      PROVE  EnvInv'
  <2>1. CASE env = {}
    BY <1>8, <2>1 DEF Tidy, Goto, EnvInv, EnvironmentCurrent
  <2>2. CASE env # {}
    <3>1. env' = env /\ Goto(s, "delete") /\ "delete" \in Running
      BY <1>8, <2>2 DEF Tidy, Running
    <3> QED BY <3>1, GoesOn
  <2> QED BY <2>1, <2>2
<1>9. ASSUME NEW s \in Scans, DeleteEnvironment(s)
      PROVE  EnvInv'
    BY <1>9 DEF DeleteEnvironment, Goto, EnvInv, EnvironmentCurrent
<1>10. ASSUME NEW s \in Scans, Remove(s)
       PROVE  EnvInv'
  <2>1. pc' = [v \in Scans |-> IF v = s THEN "off" ELSE pc[v]] /\ env' = env
    BY <1>10 DEF EnvInv, Remove, Goto
  <2>2. pc' = [v \in Scans |-> pc'[v]] /\ \A v \in Scans : v # s => pc'[v] = pc[v]
    BY <2>1
  <2>3. s \notin env
    BY <1>10 DEF Remove, EnvInv, EnvironmentCurrent, Active, Running
  <2>4. \A v \in env : v \in Scans /\ v # s /\ pc[v] \in Running
    BY <2>3 DEF EnvInv, EnvironmentCurrent, Active
  <2>5. \A v \in env : v \in Active'
    BY <2>2, <2>4 DEF Active
  <2> QED BY <2>1, <2>2, <2>5 DEF EnvInv, EnvironmentCurrent
<1> QED BY <1>2, <1>3, <1>4, <1>5, <1>6, <1>7, <1>8, <1>9, <1>10, NextByThread

(* However threads set, overwrite and delete the variable between each     *)
(* other's steps, it names no scan that is over.                           *)
THEOREM EnvironmentIsCurrent == Spec => []EnvironmentCurrent
<1>1. EnvInv /\ [Next]_vars => EnvInv'
    BY StepEnvInv
<1>2. EnvInv => EnvironmentCurrent
    BY DEF EnvInv
<1> QED BY <1>1, <1>2, InitEnvInv, PTL DEF Spec
-----------------------------------------------------------------------------
(* Rows.  What is to be saved passed the rules, whatever the row became in *)
(* between; so the rule holds of every row, and of every copy once read.   *)
HostInv ==
    /\ row = [m \in Machines |-> row[m]]
    /\ held = [w \in Writers |-> held[w]]
    /\ OnlyVirtualHosted
    /\ \A w \in Writers : \A c \in held[w] : c.of = "validated" => MayHost(c.new)

LEMMA InitHostInv == Init => HostInv
BY DEF Init, HostInv, OnlyVirtualHosted, MayHost, Metal

(* A writer that holds another copy.                                       *)
LEMMA Holds ==
    ASSUME HostInv, NEW w \in Writers, row' = row,
           NEW next, held' = [held EXCEPT ![w] = next],
           \A c \in next : c.of = "validated" => MayHost(c.new)
    PROVE  HostInv'
<1>1. held' = [v \in Writers |-> held'[v]]
    BY DEF HostInv
<1>2. \A v \in Writers : held'[v] = IF v = w THEN next ELSE held[v]
    BY DEF HostInv
<1>3. \A v \in Writers : \A c \in held'[v] : c.of = "validated" => MayHost(c.new)
    BY <1>2 DEF HostInv
<1> QED BY <1>1, <1>3 DEF HostInv, OnlyVirtualHosted

LEMMA HoldsOne ==
    ASSUME HostInv, NEW w \in Writers, row' = row, NEW c, Hold(w, c),
           c.of = "validated" => MayHost(c.new)
    PROVE  HostInv'
<1>1. PICK next : next = {c}
    OBVIOUS
<1> QED BY <1>1, Holds DEF Hold

LEMMA Drops ==
    ASSUME HostInv, NEW w \in Writers, row' = row, Drop(w)
    PROVE  HostInv'
<1>1. PICK next : next = {}
    OBVIOUS
<1> QED BY <1>1, Holds DEF Drop

LEMMA ValidateHostInv ==
    ASSUME HostInv, NEW w \in Writers, Validate(w)
    PROVE  HostInv'
<1>1. PICK c \in Pending(w, "assigned") :
          IF Valid(c) THEN Hold(w, [c EXCEPT !.of = "validated"]) ELSE Drop(w)
    BY DEF Validate
<1>2. row' = row
    BY DEF Validate, tables
<1>3. CASE Valid(c)
  <2>1. PICK d : d = [c EXCEPT !.of = "validated"]
    OBVIOUS
  <2>2. d.new = c.new
    BY <2>1
  <2> QED BY <1>1, <1>2, <1>3, <2>1, <2>2, HoldsOne DEF Valid
<1>4. CASE ~Valid(c)
    BY <1>1, <1>2, <1>4, Drops
<1> QED BY <1>3, <1>4

LEMMA SaveHostInv ==
    ASSUME HostInv, NEW w \in Writers, Save(w)
    PROVE  HostInv'
<1>1. PICK c \in held[w] : c.of = "validated" /\ row' = [row EXCEPT ![c.machine] = {c.new}]
    BY DEF Save, Pending
<1>2. held' = [held EXCEPT ![w] = {}]
    BY DEF Save, Drop
<1>3. row' = [m \in Machines |-> row'[m]]
       /\ \A m \in Machines : row'[m] = IF m = c.machine THEN {c.new} ELSE row[m]
    BY <1>1 DEF HostInv
<1>4. MayHost(c.new)
    BY <1>1 DEF HostInv
<1>5. OnlyVirtualHosted'
    BY <1>3, <1>4 DEF HostInv, OnlyVirtualHosted, MayHost
<1>6. held' = [v \in Writers |-> held'[v]] /\ \A v \in Writers : held'[v] \subseteq held[v]
    BY <1>2 DEF HostInv
<1> QED BY <1>3, <1>5, <1>6 DEF HostInv

LEMMA FetchedHostInv ==
    ASSUME HostInv, NEW s \in Scans, Callback(s) \/ StoreResult(s)
    PROVE  HostInv'
<1>0. s \in Writers
    BY DEF Writers
<1>1. CASE Callback(s)
  <2>1. PICK m, r, f : Hold(s, Copy(m, Applied(r, f), "fetched"))
    BY <1>1 DEF Callback
  <2>2. PICK c : c = Copy(m, Applied(r, f), "fetched")
    OBVIOUS
  <2>3. c.of = "fetched"
    BY <2>2 DEF Copy
  <2> QED BY <1>0, <1>1, <2>1, <2>2, <2>3, HoldsOne DEF Callback, tables
<1>2. CASE StoreResult(s)
  <2>1. PICK c \in Pending(s, "fetched") : Hold(s, [c EXCEPT !.of = "assigned"]) \/ Drop(s)
    BY <1>2 DEF StoreResult
  <2>2. PICK d : d = [c EXCEPT !.of = "assigned"]
    OBVIOUS
  <2>3. ~(d.of = "validated")
    BY <2>2, <2>1 DEF Pending
  <2> QED BY <1>0, <1>2, <2>1, <2>2, <2>3, HoldsOne, Drops DEF StoreResult
<1> QED BY <1>1, <1>2

LEMMA PageHostInv ==
    ASSUME HostInv, PageApply \/ PageEdit
    PROVE  HostInv'
<1>1. PICK m, r : Hold(Page, Copy(m, r, "assigned"))
    BY DEF PageApply, PageEdit
<1>2. PICK c : c = Copy(m, r, "assigned")
    OBVIOUS
<1>3. c.of = "assigned" /\ row' = row
    BY <1>2 DEF Copy, PageApply, PageEdit, tables
<1> QED BY <1>1, <1>2, <1>3, HoldsOne DEF Writers

LEMMA DeleteMachineHostInv ==
    ASSUME HostInv, NEW m \in Machines, DeleteMachine(m)
    PROVE  HostInv'
<1>1. row' = [row EXCEPT ![m] = {}] /\ held' = held
    BY DEF DeleteMachine
<1>2. row' = [n \in Machines |-> row'[n]] /\ \A n \in Machines : row'[n] \subseteq row[n]
    BY <1>1 DEF HostInv
<1> QED BY <1>1, <1>2 DEF HostInv, OnlyVirtualHosted

LEMMA RestartHostInv ==
    ASSUME HostInv, Restart
    PROVE  HostInv'
<1>1. row' = row /\ held' = [w \in Writers |-> IF w = Page THEN held[w] ELSE {}]
    BY DEF Restart, tables
<1>2. held' = [w \in Writers |-> held'[w]] /\ \A w \in Writers : held'[w] \subseteq held[w]
    BY <1>1
<1> QED BY <1>1, <1>2 DEF HostInv, OnlyVirtualHosted

LEMMA StepHostInv ==
    ASSUME HostInv, [Next]_vars
    PROVE  HostInv'
<1>1. CASE UNCHANGED <<row, held>>
    BY <1>1 DEF HostInv, OnlyVirtualHosted
<1>2. CASE UNCHANGED vars
    BY <1>1, <1>2 DEF vars, tables
<1>3. ASSUME NEW s \in Scans,
             \/ Rescan(s) \/ Start(s) \/ Spawn(s) \/ ReadInventory(s) \/ Skip(s)
             \/ Return(s) \/ Judge(s) \/ Tidy(s) \/ DeleteEnvironment(s) \/ Remove(s)
      PROVE  HostInv'
    BY <1>1, <1>3 DEF Rescan, Start, Spawn, ReadInventory, Skip, Return, Judge, Tidy,
       DeleteEnvironment, Remove, tables
<1>4. CASE \/ RescanAll \/ DailyBegin \/ DailyScanAll \/ DailyFails \/ DeleteResults
           \/ \E m \in Machines : AddBMC(m)
    BY <1>1, <1>4 DEF RescanAll, DailyBegin, DailyScanAll, DailyFails, DeleteResults, AddBMC, tables
<1> QED BY <1>2, <1>3, <1>4, FetchedHostInv, ValidateHostInv, SaveHostInv, PageHostInv,
       DeleteMachineHostInv, RestartHostInv DEF Next

(* Whichever copies of a row pages and scans read, validate and write over *)
(* each other, no row but a virtual machine's has a hypervisor.            *)
THEOREM OnlyVirtualMachinesHosted == Spec => []OnlyVirtualHosted
<1>1. HostInv /\ [Next]_vars => HostInv'
    BY StepHostInv
<1>2. HostInv => OnlyVirtualHosted
    BY DEF HostInv
<1> QED BY <1>1, <1>2, InitHostInv, PTL DEF Spec
-----------------------------------------------------------------------------
(* Types.  Sets of at most one element are named as what they are, and the *)
(* copies that writers hold are typed like the rows they become.           *)
Results == [machine : Machines, at : Nat]
Copies == [machine : Machines, new : Row, of : {"fetched", "assigned", "validated"}]

ThreadTypes ==
    /\ task \in [Scans -> {"absent", "idle", "running"}]
    /\ pc \in [Scans -> Running \union {"off", "ended"}]
    /\ env = {} \/ \E s \in Scans : env = {s}
    /\ inherited \in [Scans -> SUBSET Scans]
    /\ todo \in [Scans -> SUBSET Machines]
    /\ since \in [Scans -> Nat]

TableTypes ==
    /\ row \in [Machines -> SUBSET Row]
    /\ \A m \in Machines : row[m] = {} \/ \E r \in Row : row[m] = {r}
    /\ bmc \subseteq There
    /\ results \subseteq Results
    /\ \A x \in results : x.machine \in There
    /\ taken \in Nat
    /\ held \in [Writers -> SUBSET Copies]

DailyTypes ==
    /\ faults \in Nat
    /\ isRunning => daily = "adding" \/ faults > 0

LEMMA CopyFields ==
    ASSUME NEW c \in Copies, NEW of \in {"fetched", "assigned", "validated"}
    PROVE  /\ [c EXCEPT !.of = of] \in Copies
           /\ [c EXCEPT !.of = of].machine = c.machine
           /\ [c EXCEPT !.of = of].of = of
           /\ [c EXCEPT !.of = of].new = c.new
BY DEF Copies

LEMMA CopyTyped ==
    ASSUME NEW m \in Machines, NEW r \in Row, NEW of \in {"fetched", "assigned", "validated"}
    PROVE  Copy(m, r, of) \in Copies /\ Copy(m, r, of).machine = m
BY DEF Copy, Copies

LEMMA RowFields ==
    ASSUME NEW r \in Row, NEW f, NEW y \in Systems, NEW h \in {"yes", "no"}
    PROVE  Applied(r, f) \in Row /\ [r EXCEPT !.system = y, !.hypervisor = h] \in Row
BY DEF Applied, Row, Systems

LEMMA InitTypes == Init => ThreadTypes /\ TableTypes /\ DailyTypes
<1> SUFFICES ASSUME Init PROVE ThreadTypes /\ TableTypes /\ DailyTypes
  OBVIOUS
<1>1. Metal \in Row
  BY DEF Metal, Row, Systems
<1>2. TableTypes
  BY <1>1 DEF Init, TableTypes, There
<1>3. DailyTypes
  BY DEF Init, DailyTypes
<1> QED
  BY <1>2, <1>3 DEF Init, ThreadTypes

LEMMA NextDailyTypes == DailyTypes /\ [Next]_vars => DailyTypes'
<1> SUFFICES ASSUME DailyTypes, [Next]_vars PROVE DailyTypes'
  OBVIOUS
<1> USE DEF DailyTypes, bounds, vars, Another, Cleared
<1>1. CASE UNCHANGED <<daily, isRunning, faults>>
  BY <1>1
<1>2. CASE UNCHANGED vars
  BY <1>1, <1>2
<1>3. CASE DailyBegin \/ DailyScanAll \/ DailyFails \/ Restart
  BY <1>3 DEF DailyBegin, DailyScanAll, DailyFails, Restart
<1>4. ASSUME NEW m \in Machines, DeleteMachine(m) PROVE DailyTypes'
  BY <1>4 DEF DeleteMachine
<1>5. ASSUME NEW s \in Scans,
             \/ Rescan(s) \/ Start(s) \/ Spawn(s) \/ ReadInventory(s)
             \/ Skip(s) \/ Callback(s) \/ StoreResult(s) \/ Return(s) \/ Judge(s)
             \/ Tidy(s) \/ DeleteEnvironment(s) \/ Remove(s)
      PROVE  UNCHANGED <<daily, isRunning, faults>>
  BY <1>5 DEF Rescan, Start, Spawn, ReadInventory, Skip, Callback, StoreResult, Return, Judge,
              Tidy, DeleteEnvironment, Remove
<1>6. CASE \/ RescanAll \/ PageApply \/ PageEdit \/ DeleteResults
           \/ \E w \in Writers : Validate(w) \/ Save(w)
           \/ \E m \in Machines : AddBMC(m)
  <2> UNCHANGED <<daily, isRunning, faults>>
    BY <1>6 DEF RescanAll, PageApply, PageEdit, DeleteResults, Validate, Save, AddBMC
  <2> QED
    BY <1>1
<1> QED
  BY <1>1, <1>2, <1>3, <1>4, <1>5, <1>6 DEF Next

LEMMA NextThreadTypes == ThreadTypes /\ TableTypes /\ [Next]_vars => ThreadTypes'
<1> SUFFICES ASSUME ThreadTypes, TableTypes, [Next]_vars PROVE ThreadTypes'
  OBVIOUS
<1> USE DEF ThreadTypes, threads, vars
<1>1. CASE UNCHANGED <<task, env, threads>>
  BY <1>1
<1>2. CASE UNCHANGED vars
  BY <1>1, <1>2
<1>3. CASE \/ DailyBegin \/ DailyFails \/ PageApply \/ PageEdit \/ DeleteResults
           \/ \E w \in Writers : Validate(w) \/ Save(w)
           \/ \E m \in Machines : AddBMC(m) \/ DeleteMachine(m)
           \/ \E s \in Scans : StoreResult(s)
  <2> UNCHANGED <<task, env, threads>>
    BY <1>3 DEF DailyBegin, DailyFails, PageApply, PageEdit, DeleteResults, Validate, Save, AddBMC,
                DeleteMachine, StoreResult
  <2> QED
    BY <1>1
<1>4. CASE RescanAll \/ DailyScanAll \/ \E s \in Scans : Rescan(s)
  <2>1. task' \in [Scans -> {"absent", "idle", "running"}]
    BY <1>4 DEF RescanAll, DailyScanAll, Rescan, Added
  <2>2. UNCHANGED <<env, threads>>
    BY <1>4 DEF RescanAll, DailyScanAll, Rescan
  <2> QED
    BY <2>1, <2>2
<1>5. CASE Restart
  BY <1>5 DEF Restart
<1>6. ASSUME NEW s \in Scans, Start(s) \/ Spawn(s) PROVE ThreadTypes'
  BY <1>6 DEF Start, Spawn, Goto, Running, TableTypes, tables
<1>7. ASSUME NEW s \in Scans, ReadInventory(s) PROVE ThreadTypes'
  <2>1. Hosts(s) \subseteq Machines
    BY DEF Hosts, Inventory, There
  <2> QED
    BY <1>7, <2>1 DEF ReadInventory, Goto, Running, Finally
<1>8. ASSUME NEW s \in Scans, Skip(s) \/ Callback(s) PROVE ThreadTypes'
  BY <1>8 DEF Skip, Callback
<1>9. ASSUME NEW s \in Scans, Return(s) \/ Judge(s) \/ Tidy(s) \/ DeleteEnvironment(s) \/ Remove(s)
      PROVE  ThreadTypes'
  BY <1>9 DEF Return, Judge, Tidy, DeleteEnvironment, Remove, Goto, Running, Finally
<1> QED
  BY <1>2, <1>3, <1>4, <1>5, <1>6, <1>7, <1>8, <1>9 DEF Next

(* A writer that holds at most one copy, of a machine's row.               *)
LEMMA HoldTypes ==
    ASSUME TableTypes, NEW w \in Writers, UNCHANGED tables,
           Drop(w) \/ \E c \in Copies : Hold(w, c)
    PROVE  TableTypes'
<1>1. held' \in [Writers -> SUBSET Copies]
  BY DEF Drop, Hold, TableTypes
<1> QED
  BY <1>1 DEF TableTypes, tables, There

LEMMA StoreResultTypes ==
    ASSUME TableTypes, NEW s \in Scans, StoreResult(s)
    PROVE  TableTypes'
<1> USE DEF TableTypes, There
<1>1. PICK c \in held[s] :
         /\ c.of = "fetched"
         /\ IF c.machine \in There /\ taken < MaxResults
            THEN /\ taken' = taken + 1
                 /\ results' = results \union {[machine |-> c.machine, at |-> taken + 1]}
                 /\ Hold(s, [c EXCEPT !.of = "assigned"])
            ELSE /\ Drop(s)
                 /\ UNCHANGED <<taken, results>>
  BY DEF StoreResult, Pending
<1>2. s \in Writers /\ c \in Copies /\ c.machine \in Machines /\ [c EXCEPT !.of = "assigned"] \in Copies
  BY <1>1, CopyFields DEF Writers, Copies
<1>3. held' \in [Writers -> SUBSET Copies]
  BY <1>1, <1>2 DEF Hold, Drop
<1>4. PICK x : x = [machine |-> c.machine, at |-> taken + 1]
  OBVIOUS
<1>5. x.machine = c.machine /\ x \in Results
  BY <1>2, <1>4 DEF Results
<1>6. /\ taken' \in Nat /\ results' \subseteq Results
      /\ \A y \in results' : y.machine \in There
  BY <1>1, <1>4, <1>5
<1> QED
  BY <1>3, <1>6 DEF StoreResult

LEMMA ValidateTypes ==
    ASSUME TableTypes, NEW w \in Writers, Validate(w)
    PROVE  TableTypes'
<1>1. PICK c \in Pending(w, "assigned") :
          IF Valid(c) THEN Hold(w, [c EXCEPT !.of = "validated"]) ELSE Drop(w)
  BY DEF Validate
<1>2. [c EXCEPT !.of = "validated"] \in Copies
  BY CopyFields DEF Pending, TableTypes
<1> QED
  BY <1>1, <1>2, HoldTypes DEF Validate

LEMMA SaveTypes ==
    ASSUME TableTypes, NEW w \in Writers, Save(w)
    PROVE  TableTypes'
<1> USE DEF TableTypes, There
<1>1. PICK c \in Copies : row' = [row EXCEPT ![c.machine] = {c.new}]
  BY DEF Save, Pending
<1>2. c.machine \in Machines /\ c.new \in Row
  BY DEF Copies
<1>3. held' \in [Writers -> SUBSET Copies]
  BY DEF Save, Drop
<1>4. There \subseteq There' /\ There' \subseteq Machines
  BY <1>1, <1>2
<1>5. /\ row' \in [Machines -> SUBSET Row]
      /\ \A m \in Machines : row'[m] = {} \/ \E r \in Row : row'[m] = {r}
  BY <1>1, <1>2
<1> QED
  BY <1>3, <1>4, <1>5 DEF Save

LEMMA PageTypes ==
    ASSUME TableTypes, PageApply \/ PageEdit
    PROVE  TableTypes'
<1>1. CASE PageApply
  <2>1. PICK x \in results, f \in Findings : \E r \in row[x.machine] :
          Hold(Page, Copy(x.machine, Applied(r, f), "assigned"))
    BY <1>1 DEF PageApply
  <2>2. x.machine \in Machines
    BY DEF TableTypes, There
  <2>3. PICK r \in row[x.machine] : Hold(Page, Copy(x.machine, Applied(r, f), "assigned"))
    BY <2>1
  <2>4. r \in Row
    BY <2>2 DEF TableTypes
  <2>5. Systems # {} /\ Applied(r, f) \in Row
    BY <2>4, RowFields DEF Systems
  <2>6. Copy(x.machine, Applied(r, f), "assigned") \in Copies
    BY <2>2, <2>5, CopyTyped
  <2> QED
    BY <1>1, <2>3, <2>6, HoldTypes DEF PageApply, Writers
<1>2. CASE PageEdit
  <2>1. PICK m \in There, y \in Systems, h \in {"yes", "no"} : \E r \in row[m] :
          Hold(Page, Copy(m, [r EXCEPT !.system = y, !.hypervisor = h], "assigned"))
    BY <1>2 DEF PageEdit
  <2>2. PICK r \in row[m] : Hold(Page, Copy(m, [r EXCEPT !.system = y, !.hypervisor = h], "assigned"))
    BY <2>1
  <2>3. m \in Machines /\ r \in Row
    BY DEF TableTypes, There
  <2>4. [r EXCEPT !.system = y, !.hypervisor = h] \in Row
    BY <2>3, RowFields
  <2>5. Copy(m, [r EXCEPT !.system = y, !.hypervisor = h], "assigned") \in Copies
    BY <2>3, <2>4, CopyTyped
  <2> QED
    BY <1>2, <2>2, <2>5, HoldTypes DEF PageEdit, Writers
<1> QED
  BY <1>1, <1>2

LEMMA CallbackTypes ==
    ASSUME TableTypes, ThreadTypes, NEW s \in Scans, Callback(s)
    PROVE  TableTypes'
<1>1. PICK m \in todo[s], f \in Findings : \E r \in row[m] : Hold(s, Copy(m, Applied(r, f), "fetched"))
  BY DEF Callback
<1>2. PICK r \in row[m] : Hold(s, Copy(m, Applied(r, f), "fetched"))
  BY <1>1
<1>3. m \in Machines /\ r \in Row
  BY DEF ThreadTypes, TableTypes
<1>4. Applied(r, f) \in Row
  BY <1>3, RowFields DEF Systems
<1>5. Copy(m, Applied(r, f), "fetched") \in Copies
  BY <1>3, <1>4, CopyTyped
<1> QED
  BY <1>2, <1>5, HoldTypes DEF Callback, Writers

LEMMA NextTableTypes == ThreadTypes /\ TableTypes /\ [Next]_vars => TableTypes'
<1> SUFFICES ASSUME ThreadTypes, TableTypes, [Next]_vars PROVE TableTypes'
  OBVIOUS
<1>1. CASE UNCHANGED <<tables, held>>
  BY <1>1 DEF TableTypes, tables, There
<1>2. CASE UNCHANGED vars
  BY <1>1, <1>2 DEF vars
<1>3. ASSUME NEW s \in Scans,
             \/ Rescan(s) \/ Start(s) \/ Spawn(s) \/ ReadInventory(s) \/ Skip(s)
             \/ Return(s) \/ Judge(s) \/ Tidy(s) \/ DeleteEnvironment(s) \/ Remove(s)
      PROVE  TableTypes'
  BY <1>1, <1>3 DEF Rescan, Start, Spawn, ReadInventory, Skip, Return, Judge, Tidy,
     DeleteEnvironment, Remove
<1>4. CASE RescanAll \/ DailyBegin \/ DailyScanAll \/ DailyFails
  BY <1>1, <1>4 DEF RescanAll, DailyBegin, DailyScanAll, DailyFails
<1>5. CASE DeleteResults
  BY <1>5 DEF DeleteResults, TableTypes, There
<1>6. ASSUME NEW m \in Machines, AddBMC(m) PROVE TableTypes'
  BY <1>6 DEF AddBMC, TableTypes, There
<1>7. ASSUME NEW m \in Machines, DeleteMachine(m) PROVE TableTypes'
  BY <1>7 DEF DeleteMachine, TableTypes, There, OfMachine
<1>8. CASE Restart
  BY <1>8 DEF Restart, TableTypes, There, tables
<1> QED
  BY <1>2, <1>3, <1>4, <1>5, <1>6, <1>7, <1>8, CallbackTypes, StoreResultTypes, ValidateTypes,
     SaveTypes, PageTypes DEF Next

(* No row and no environment is more than one value, and every result and  *)
(* BMC belongs to a machine that is there.                                 *)
THEOREM ScanTypeCorrect == Spec => []ScanTypeOK
<1>1. ASSUME ThreadTypes, TableTypes, DailyTypes PROVE ScanTypeOK
  <2>1. ASSUME NEW S, NEW T, S = {} \/ \E x \in T : S = {x} PROVE S \subseteq T /\ Cardinality(S) <= 1
    <3>1. CASE S = {}
      BY <3>1, FS_EmptySet
    <3>2. ASSUME NEW x \in T, S = {x} PROVE S \subseteq T /\ Cardinality(S) <= 1
      BY <3>2, FS_Singleton
    <3> QED
      BY <2>1, <3>1, <3>2
  <2>3. env \subseteq Scans /\ Cardinality(env) <= 1
    BY <1>1, <2>1 DEF ThreadTypes
  <2>4. \A m \in Machines : row[m] \subseteq Row /\ Cardinality(row[m]) <= 1
    BY <1>1, <2>1 DEF TableTypes
  <2> QED
    BY <1>1, <2>3, <2>4 DEF ScanTypeOK, ThreadTypes, TableTypes, DailyTypes
<1>2. ThreadTypes /\ TableTypes /\ DailyTypes /\ [Next]_vars
        => ThreadTypes' /\ TableTypes' /\ DailyTypes'
  BY NextThreadTypes, NextTableTypes, NextDailyTypes
<1>3. Spec => [](ThreadTypes /\ TableTypes /\ DailyTypes)
  BY InitTypes, <1>2, PTL DEF Spec
<1> QED
  BY <1>1, <1>3, PTL
-----------------------------------------------------------------------------
(* A scan that no other one overlaps.  From its start to its end it is the *)
(* only one in progress, the variable names it, and what it inherits, asks *)
(* and stores is its own.                                                  *)
OwnWork(s) ==
    /\ env = {s}
    /\ pc[s] = "inventory" => inherited[s] = {s}
    /\ pc[s] = "playing" => todo[s] \subseteq s /\ \A c \in held[s] : c.machine \in s
    /\ pc[s] \in {"inventory", "playing", "judge"} =>
          \A x \in results : x.at > since[s] => x.machine \in s

Own(s) == Active = {s} /\ OwnWork(s)

AloneInv ==
    /\ ThreadTypes
    /\ TableTypes
    /\ \A s \in Scans : task[s] # "running" => pc[s] = "off"
    /\ \A s \in Scans : held[s] # {} => pc[s] = "playing"
    /\ \A x \in results : x.at <= taken
    /\ \A s \in Scans \ crossed : pc[s] \in Running => Own(s)

LEMMA InitAlone == Init => AloneInv
BY InitTypes DEF Init, AloneInv, Running, Writers

(* A step that leaves the threads where they are, and their claims sound.  *)
LEMMA StaysAlone ==
    ASSUME AloneInv, ThreadTypes', TableTypes',
           UNCHANGED <<pc, env, inherited, since, crossed>>,
           \A s \in Scans : /\ task[s] = "running" => task'[s] = "running"
                            /\ todo'[s] \subseteq todo[s]
                            /\ held'[s] # {} => pc[s] = "playing"
                            /\ \A c \in held'[s] : \/ \E d \in held[s] : d.machine = c.machine
                                                   \/ c.machine \in todo[s],
           \A x \in results' : /\ x.at <= taken'
                               /\ \/ x \in results
                                  \/ /\ x.at > taken
                                     /\ \E s \in Scans : \E c \in held[s] : c.machine = x.machine
    PROVE  AloneInv'
<1>1. ASSUME NEW s \in Scans \ crossed, pc[s] \in Running PROVE Own(s)'
  <2>1. Own(s) /\ pc' = pc /\ Active' = Active
    BY <1>1 DEF AloneInv, Active
  <2>2. pc[s] = "playing" => todo'[s] \subseteq s /\ \A c \in held'[s] : c.machine \in s
    BY <2>1 DEF Own, OwnWork
  <2>3. ASSUME pc[s] \in {"inventory", "playing", "judge"},
               NEW x \in results', x.at > since[s]
        PROVE  x.machine \in s
    <3>1. CASE x \in results
      BY <2>1, <2>3, <3>1 DEF Own, OwnWork
    <3>2. ASSUME NEW u \in Scans, NEW c \in held[u], c.machine = x.machine PROVE x.machine \in s
      <4>1. pc[u] = "playing"
        BY <3>2 DEF AloneInv
      <4>2. u = s
        BY <2>1, <4>1 DEF Own, OwnWork, Active, Running
      <4> QED
        BY <2>1, <3>2, <4>1, <4>2 DEF Own, OwnWork
    <3> QED
      BY <3>1, <3>2
  <2> QED
    BY <2>1, <2>2, <2>3 DEF Own, OwnWork
<1> QED
  BY <1>1 DEF AloneInv

(* A step of one thread that leaves the tables and all other threads alone. *)
LEMMA GoesOnAlone ==
    ASSUME AloneInv, ThreadTypes', TableTypes', NEW s \in Scans,
           NEW label \in Running, pc[s] \in Running, Goto(s, label),
           UNCHANGED <<task, env, tables, held, crossed>>,
           \A u \in Scans \ {s} : /\ inherited'[u] = inherited[u] /\ todo'[u] = todo[u]
                                  /\ since'[u] = since[u],
           held[s] = {},
           s \notin crossed => OwnWork(s)'
    PROVE  AloneInv'
<1>1. /\ pc \in [Scans -> Running \union {"off", "ended"}]
      /\ \A u \in Scans : pc'[u] = IF u = s THEN label ELSE pc[u]
  BY DEF Goto, AloneInv, ThreadTypes
<1>2. \A u \in Scans : u \in Active' <=> u \in Active
  BY <1>1 DEF Active
<1>3. Active' = Active
  BY <1>2 DEF Active
<1>4. ASSUME NEW u \in Scans \ crossed', pc'[u] \in Running PROVE Own(u)'
  <2>1. CASE u = s
    <3>1. Own(s)
      BY <1>4, <2>1 DEF AloneInv
    <3> QED
      BY <1>3, <1>4, <2>1, <3>1 DEF Own
  <2>2. CASE u # s
    <3>1. Own(u)
      BY <1>1, <1>4, <2>2 DEF AloneInv
    <3>2. pc'[u] = pc[u]
      BY <1>1, <2>2
    <3> QED
      BY <1>3, <2>2, <3>1, <3>2 DEF Own, OwnWork, tables
  <2> QED
    BY <2>1, <2>2
<1>5. \A u \in Scans : task'[u] # "running" => pc'[u] = "off"
  BY <1>1 DEF AloneInv, Running
<1>6. \A u \in Scans : held'[u] # {} => pc'[u] = "playing"
  BY <1>1 DEF AloneInv
<1> QED
  BY <1>4, <1>5, <1>6 DEF AloneInv, tables

(* A scan that ends: the others in progress, if any, are crossed.          *)
LEMMA EndsAlone ==
    ASSUME AloneInv, ThreadTypes', TableTypes', NEW s \in Scans,
           pc[s] \in Running, Goto(s, "ended"), held[s] = {},
           UNCHANGED <<task, inherited, todo, since, tables, held, crossed>>
    PROVE  AloneInv'
<1>1. /\ pc \in [Scans -> Running \union {"off", "ended"}]
      /\ \A u \in Scans : pc'[u] = IF u = s THEN "ended" ELSE pc[u]
  BY DEF Goto, AloneInv, ThreadTypes
<1>2. ASSUME NEW u \in Scans \ crossed', pc'[u] \in Running PROVE FALSE
  <2>1. u # s /\ pc[u] \in Running
    BY <1>1, <1>2 DEF Running
  <2>2. Own(u) /\ s \in Active
    BY <1>2, <2>1 DEF AloneInv, Active
  <2> QED
    BY <2>1, <2>2 DEF Own, OwnWork
<1>3. \A u \in Scans : task'[u] # "running" => pc'[u] = "off"
  BY <1>1 DEF AloneInv, Running
<1>4. \A u \in Scans : held'[u] # {} => pc'[u] = "playing"
  BY <1>1 DEF AloneInv
<1> QED
  BY <1>2, <1>3, <1>4 DEF AloneInv, tables

LEMMA StartAlone ==
    ASSUME AloneInv, ThreadTypes', TableTypes', NEW s \in Scans, Start(s)
    PROVE  AloneInv'
<1>1. /\ pc[s] = "off" /\ task[s] = "idle"
      /\ pc \in [Scans -> Running \union {"off", "ended"}]
      /\ task \in [Scans -> {"absent", "idle", "running"}]
  BY DEF Start, AloneInv, ThreadTypes
<1>2. /\ \A u \in Scans : pc'[u] = IF u = s THEN "spawn" ELSE pc[u]
      /\ \A u \in Scans : task'[u] = IF u = s THEN "running" ELSE task[u]
      /\ env' = {s}
  BY <1>1 DEF Start, Goto
<1>3. ASSUME NEW u \in Scans \ crossed', pc'[u] \in Running PROVE Own(u)'
  <2>1. Active = {} /\ u = s
    <3>1. ASSUME Active # {} PROVE FALSE
      <4>1. crossed' = crossed \union Active \union {s}
        BY <3>1 DEF Start
      <4>2. u # s /\ u \notin Active
        BY <1>3, <4>1
      <4> QED
        BY <1>2, <1>3, <4>2 DEF Active
    <3>2. ASSUME u # s PROVE FALSE
      BY <1>2, <1>3, <3>1, <3>2 DEF Active
    <3> QED
      BY <3>1, <3>2
  <2>2. Active' = {s}
    <3>1. \A v \in Scans : v \in Active' <=> v = s
      BY <1>2, <2>1 DEF Active, Running
    <3> QED
      BY <3>1 DEF Active
  <2> QED
    BY <1>2, <2>1, <2>2 DEF Own, OwnWork
<1>4. \A u \in Scans : task'[u] # "running" => pc'[u] = "off"
  BY <1>2 DEF AloneInv
<1>5. \A u \in Scans : held'[u] # {} => pc'[u] = "playing"
  BY <1>1, <1>2 DEF AloneInv, Start
<1>6. \A x \in results' : x.at <= taken'
  BY DEF AloneInv, Start, tables
<1> QED
  BY <1>3, <1>4, <1>5, <1>6 DEF AloneInv

LEMMA RemoveAlone ==
    ASSUME AloneInv, ThreadTypes', TableTypes', NEW s \in Scans, Remove(s)
    PROVE  AloneInv'
<1>1. /\ pc[s] = "ended" /\ held' = held /\ env' = env /\ inherited' = inherited /\ todo' = todo
      /\ crossed' = crossed \ {s} /\ UNCHANGED <<results, taken>>
      /\ pc \in [Scans -> Running \union {"off", "ended"}]
      /\ task \in [Scans -> {"absent", "idle", "running"}] /\ since \in [Scans -> Nat]
  BY DEF Remove, AloneInv, ThreadTypes, tables
<1>2. /\ \A u \in Scans : pc'[u] = IF u = s THEN "off" ELSE pc[u]
      /\ \A u \in Scans : task'[u] = IF u = s THEN "absent" ELSE task[u]
      /\ \A u \in Scans : since'[u] = IF u = s THEN 0 ELSE since[u]
  BY <1>1 DEF Remove, Goto
<1>3. Active' = Active
  <2>1. \A u \in Scans : u \in Active' <=> u \in Active
    BY <1>1, <1>2 DEF Active, Running
  <2> QED
    BY <2>1 DEF Active
<1>4. ASSUME NEW u \in Scans \ crossed', pc'[u] \in Running PROVE Own(u)'
  <2>1. u # s /\ pc'[u] = pc[u] /\ since'[u] = since[u]
    BY <1>2, <1>4 DEF Running
  <2>2. Own(u)
    BY <1>1, <1>4, <2>1 DEF AloneInv
  <2> QED
    BY <1>1, <1>3, <2>1, <2>2 DEF Own, OwnWork
<1>5. \A u \in Scans : task'[u] # "running" => pc'[u] = "off"
  BY <1>2 DEF AloneInv
<1>6. \A u \in Scans : held'[u] # {} => pc'[u] = "playing"
  BY <1>1, <1>2 DEF AloneInv
<1> QED
  BY <1>1, <1>4, <1>5, <1>6 DEF AloneInv

LEMMA ThreadAlone ==
    ASSUME AloneInv, ThreadTypes', TableTypes', NEW s \in Scans, ThreadStep(s) \/ Tidy(s)
    PROVE  AloneInv'
<1>0. /\ s \notin crossed /\ pc[s] \in Running => Own(s)
      /\ pc \in [Scans -> Running \union {"off", "ended"}]
      /\ inherited \in [Scans -> SUBSET Scans] /\ todo \in [Scans -> SUBSET Machines]
      /\ since \in [Scans -> Nat] /\ taken \in Nat
      /\ \A x \in results : x.at \in Nat /\ x.at <= taken
      /\ held[s] # {} => pc[s] = "playing"
  BY DEF AloneInv, ThreadTypes, TableTypes, Results
<1>1. CASE Spawn(s)
  <2>1. /\ pc[s] = "spawn" /\ Goto(s, "inventory") /\ held[s] = {}
        /\ UNCHANGED <<task, env, todo, tables, held, crossed>>
        /\ inherited' = [inherited EXCEPT ![s] = env] /\ since' = [since EXCEPT ![s] = taken]
    BY <1>0, <1>1 DEF Spawn
  <2>2. pc'[s] = "inventory" /\ inherited'[s] = env /\ since'[s] = taken
    BY <1>0, <2>1 DEF Goto
  <2>3. s \notin crossed => OwnWork(s)'
    BY <1>0, <2>1, <2>2 DEF Own, OwnWork, tables, Running
  <2> QED
    BY <1>0, <2>1, <2>3, GoesOnAlone DEF Running
<1>2. CASE ReadInventory(s)
  <2>1. PICK label \in {"tidy", "playing"} : Goto(s, label)
    BY <1>2 DEF ReadInventory, Finally
  <2>2. /\ pc[s] = "inventory" /\ held[s] = {} /\ todo' = [todo EXCEPT ![s] = Hosts(s)]
        /\ UNCHANGED <<task, env, since, tables, held, crossed>>
        /\ inherited' = [inherited EXCEPT ![s] = {}]
    BY <1>0, <1>2 DEF ReadInventory
  <2>3. pc'[s] = label /\ todo'[s] = Hosts(s)
    BY <1>0, <2>1, <2>2 DEF Goto
  <2>4. s \notin crossed => Hosts(s) \subseteq s
    BY <1>0, <2>2 DEF Own, OwnWork, Hosts, Inventory, Running
  <2>5. s \notin crossed => OwnWork(s)'
    BY <1>0, <2>2, <2>3, <2>4 DEF Own, OwnWork, tables, Running
  <2> QED
    BY <1>0, <2>1, <2>2, <2>5, GoesOnAlone DEF Running
<1>3. CASE Return(s) \/ Judge(s)
  <2>1. PICK label \in {"tidy", "judge"} : Goto(s, label) /\ (pc[s] = "judge" => label = "tidy")
    BY <1>3 DEF Return, Judge, Finally
  <2>2. /\ pc[s] \in {"playing", "judge"} /\ held[s] = {}
        /\ UNCHANGED <<task, env, inherited, todo, since, tables, held, crossed>>
    BY <1>0, <1>3 DEF Return, Judge
  <2>3. pc'[s] = label
    BY <1>0, <2>1, <2>2 DEF Goto
  <2>4. s \notin crossed => OwnWork(s)'
    BY <1>0, <2>2, <2>3 DEF Own, OwnWork, tables, Running
  <2> QED
    BY <1>0, <2>1, <2>2, <2>4, GoesOnAlone DEF Running
<1>4. CASE Tidy(s)
  <2>1. /\ pc[s] = "tidy" /\ held[s] = {}
        /\ UNCHANGED <<task, env, inherited, todo, since, tables, held, crossed>>
        /\ Goto(s, IF env = {} THEN "ended" ELSE "delete")
    BY <1>0, <1>4 DEF Tidy
  <2>2. CASE Goto(s, "ended")
    BY <2>1, <2>2, EndsAlone DEF Running
  <2>3. CASE Goto(s, "delete")
    <3>1. pc'[s] = "delete"
      BY <1>0, <2>3 DEF Goto
    <3>2. s \notin crossed => OwnWork(s)'
      BY <1>0, <2>1, <3>1 DEF Own, OwnWork, Running
    <3> QED
      BY <2>1, <2>3, <3>2, GoesOnAlone DEF Running
  <2> QED
    BY <2>1, <2>2, <2>3
<1> QED
  BY <1>1, <1>2, <1>3, <1>4 DEF ThreadStep

(* A writer's copy is replaced by one of the same machine, or dropped.     *)
LEMMA WriterAlone ==
    ASSUME AloneInv, ThreadTypes', TableTypes', NEW w \in Writers,
           UNCHANGED <<task, threads, env, crossed>>, taken' = taken, results' \subseteq results,
           \/ Drop(w)
           \/ \E c : Hold(w, c) /\ (w = Page \/ \E d \in held[w] : d.machine = c.machine)
    PROVE  AloneInv'
<1>0. /\ held \in [Writers -> SUBSET Copies] /\ Scans \subseteq Writers /\ Page \notin Scans
      /\ \A x \in results : x.at <= taken
      /\ \A s \in Scans : held[s] # {} => pc[s] = "playing"
  BY ScanAssumption DEF AloneInv, TableTypes, Writers
<1>1. ASSUME NEW s \in Scans
      PROVE  /\ held'[s] # {} => pc[s] = "playing"
             /\ \A c \in held'[s] : \E d \in held[s] : d.machine = c.machine
  <2>1. CASE Drop(w)
    BY <1>0, <2>1 DEF Drop
  <2>2. ASSUME NEW c, Hold(w, c), w = Page
        PROVE  held'[s] = held[s]
    BY <1>0, <2>2 DEF Hold
  <2>3. ASSUME NEW c, Hold(w, c), NEW d \in held[w], d.machine = c.machine
        PROVE  /\ held'[s] # {} => pc[s] = "playing"
               /\ \A e \in held'[s] : \E f \in held[s] : f.machine = e.machine
    <3>1. PICK next : next = {c}
      OBVIOUS
    <3>2. held'[s] = IF s = w THEN next ELSE held[s]
      BY <1>0, <2>3, <3>1 DEF Hold
    <3> QED
      BY <1>0, <2>3, <3>1, <3>2
  <2>4. CASE held'[s] = held[s]
    BY <1>0, <2>4
  <2> QED
    BY <2>1, <2>2, <2>3, <2>4
<1> QED
  BY <1>0, <1>1, StaysAlone DEF threads

LEMMA WritersAlone ==
    ASSUME AloneInv, ThreadTypes', TableTypes',
           PageApply \/ PageEdit \/ \E w \in Writers : Validate(w) \/ Save(w)
    PROVE  AloneInv'
<1>0. Page \in Writers /\ \A w \in Writers : held[w] \subseteq Copies
  BY DEF Writers, AloneInv, TableTypes
<1>1. CASE PageApply \/ PageEdit
  <2>1. \E c : Hold(Page, c)
    BY <1>1 DEF PageApply, PageEdit
  <2>2. UNCHANGED <<task, threads, env, crossed>> /\ taken' = taken /\ results' = results
    BY <1>1 DEF PageApply, PageEdit, tables
  <2> QED
    BY <1>0, <2>1, <2>2, WriterAlone
<1>2. ASSUME NEW w \in Writers, Validate(w) PROVE AloneInv'
  <2>1. PICK c \in held[w] : Hold(w, [c EXCEPT !.of = "validated"]) \/ Drop(w)
    BY <1>2 DEF Validate, Pending
  <2>2. [c EXCEPT !.of = "validated"].machine = c.machine
    BY <1>0, CopyFields
  <2>3. PICK e : e = [c EXCEPT !.of = "validated"]
    OBVIOUS
  <2>4. UNCHANGED <<task, threads, env, crossed>> /\ taken' = taken /\ results' = results
    BY <1>2 DEF Validate, tables
  <2> QED
    BY <2>1, <2>2, <2>3, <2>4, WriterAlone
<1>3. ASSUME NEW w \in Writers, Save(w) PROVE AloneInv'
  BY <1>3, WriterAlone DEF Save
<1> QED
  BY <1>1, <1>2, <1>3

LEMMA PlaybookAlone ==
    ASSUME AloneInv, ThreadTypes', TableTypes', NEW s \in Scans,
           Skip(s) \/ Callback(s) \/ StoreResult(s)
    PROVE  AloneInv'
<1>0. /\ held \in [Writers -> SUBSET Copies] /\ s \in Writers /\ Scans \subseteq Writers
      /\ todo \in [Scans -> SUBSET Machines] /\ taken \in Nat
      /\ \A x \in results : x.at \in Nat /\ x.at <= taken
      /\ \A u \in Scans : held[u] # {} => pc[u] = "playing"
  BY DEF AloneInv, TableTypes, ThreadTypes, Writers, Results
<1>1. CASE Skip(s)
  <2>1. \A u \in Scans : todo'[u] \subseteq todo[u]
    BY <1>0, <1>1 DEF Skip
  <2> QED
    BY <1>0, <1>1, <2>1, StaysAlone DEF Skip, tables
<1>2. CASE Callback(s)
  <2>1. PICK m \in todo[s] :
          \E c : todo' = [todo EXCEPT ![s] = @ \ {m}] /\ Hold(s, c) /\ c.machine = m
    BY <1>2 DEF Callback, Copy
  <2>2. PICK c : todo' = [todo EXCEPT ![s] = @ \ {m}] /\ Hold(s, c) /\ c.machine = m
    BY <2>1
  <2>3. PICK next : next = {c}
    OBVIOUS
  <2>4. \A u \in Scans : /\ todo'[u] \subseteq todo[u]
                         /\ held'[u] = IF u = s THEN next ELSE held[u]
    BY <1>0, <2>2, <2>3 DEF Hold
  <2>5. pc[s] = "playing"
    BY <1>2 DEF Callback
  <2>6. ASSUME NEW u \in Scans
        PROVE  /\ held'[u] # {} => pc[u] = "playing"
               /\ \A e \in held'[u] : (\E d \in held[u] : d.machine = e.machine) \/ e.machine \in todo[u]
    BY <1>0, <2>2, <2>3, <2>4, <2>5
  <2> QED
    BY <1>0, <1>2, <2>4, <2>6, StaysAlone DEF Callback, tables
<1>3. CASE StoreResult(s)
  <2>1. PICK c \in held[s] :
           \/ /\ taken' = taken + 1
              /\ results' = results \union {[machine |-> c.machine, at |-> taken + 1]}
              /\ Hold(s, [c EXCEPT !.of = "assigned"])
           \/ Drop(s) /\ UNCHANGED <<taken, results>>
    BY <1>3 DEF StoreResult, Pending
  <2>2. CASE Drop(s) /\ UNCHANGED <<taken, results>>
    BY <1>0, <1>3, <2>2, WriterAlone DEF StoreResult
  <2>3. CASE /\ taken' = taken + 1
             /\ results' = results \union {[machine |-> c.machine, at |-> taken + 1]}
             /\ Hold(s, [c EXCEPT !.of = "assigned"])
    <3>1. PICK e : e = [c EXCEPT !.of = "assigned"]
      OBVIOUS
    <3>2. e.machine = c.machine
      BY <1>0, <3>1, CopyFields
    <3>3. PICK next : next = {e}
      OBVIOUS
    <3>4. \A u \in Scans : held'[u] = IF u = s THEN next ELSE held[u]
      BY <1>0, <2>3, <3>1, <3>3 DEF Hold
    <3>5. ASSUME NEW u \in Scans
          PROVE  /\ held'[u] # {} => pc[u] = "playing"
                 /\ \A f \in held'[u] : \E d \in held[u] : d.machine = f.machine
      BY <1>0, <3>2, <3>3, <3>4
    <3>6. PICK y : y = [machine |-> c.machine, at |-> taken + 1]
      OBVIOUS
    <3>7. y.machine = c.machine /\ y.at = taken + 1
      BY <3>6
    <3>8. \A x \in results' : /\ x.at <= taken'
                              /\ \/ x \in results
                                 \/ /\ x.at > taken
                                    /\ \E u \in Scans : \E d \in held[u] : d.machine = x.machine
      BY <1>0, <2>3, <3>6, <3>7
    <3> QED
      BY <1>3, <3>5, <3>8, StaysAlone DEF StoreResult, threads
  <2> QED
    BY <2>1, <2>2, <2>3
<1> QED
  BY <1>1, <1>2, <1>3

LEMMA StepAlone == AloneInv /\ [Next]_vars => AloneInv'
<1> SUFFICES ASSUME AloneInv, [Next]_vars PROVE AloneInv'
  OBVIOUS
<1>0. ThreadTypes' /\ TableTypes'
  BY NextThreadTypes, NextTableTypes DEF AloneInv
<1>1. ASSUME UNCHANGED <<threads, env, crossed, held, taken>>, results' \subseteq results,
             \A s \in Scans : task[s] = "running" => task'[s] = "running"
      PROVE  AloneInv'
  BY <1>0, <1>1, StaysAlone DEF threads, AloneInv
<1>2. CASE UNCHANGED vars
  BY <1>1, <1>2 DEF vars, tables
<1>3. CASE RescanAll \/ DailyScanAll \/ \E s \in Scans : Rescan(s)
  <2>1. \A s \in Scans : task[s] = "running" => task'[s] = "running"
    BY <1>3 DEF RescanAll, DailyScanAll, Rescan, Added, AloneInv, ThreadTypes
  <2> QED
    BY <1>1, <1>3, <2>1 DEF RescanAll, DailyScanAll, Rescan, tables
<1>4. CASE DailyBegin \/ DailyFails \/ DeleteResults \/ \E m \in Machines : AddBMC(m) \/ DeleteMachine(m)
  BY <1>1, <1>4 DEF DailyBegin, DailyFails, DeleteResults, AddBMC, DeleteMachine, tables
<1>5. CASE Restart
  <2>1. \A s \in Scans : pc'[s] = "off"
    BY <1>5 DEF Restart
  <2>2. \A s \in Scans : held'[s] = {}
    BY <1>5, ScanAssumption DEF Restart, Writers
  <2>3. \A x \in results' : x.at <= taken'
    BY <1>5 DEF Restart, AloneInv, tables
  <2> QED
    BY <1>0, <2>1, <2>2, <2>3 DEF AloneInv, Running
<1>6. ASSUME NEW s \in Scans, DeleteEnvironment(s) PROVE AloneInv'
  <2>1. /\ pc \in [Scans -> Running \union {"off", "ended"}] /\ pc[s] = "delete"
        /\ \A u \in Scans : pc'[u] = IF u = s THEN "ended" ELSE pc[u]
    BY <1>6 DEF DeleteEnvironment, Goto, AloneInv, ThreadTypes
  <2>2. ASSUME NEW u \in Scans \ crossed', pc'[u] \in Running PROVE FALSE
    <3>1. u # s /\ pc[u] \in Running /\ u \notin crossed
      BY <1>6, <2>1, <2>2 DEF DeleteEnvironment, Running
    <3>2. Own(u) /\ s \in Active
      BY <2>1, <3>1 DEF AloneInv, Active, Running
    <3> QED
      BY <3>1, <3>2 DEF Own
  <2>3. /\ \A u \in Scans : task'[u] # "running" => pc'[u] = "off"
        /\ \A u \in Scans : held'[u] # {} => pc'[u] = "playing"
        /\ \A x \in results' : x.at <= taken'
    BY <1>6, <2>1 DEF DeleteEnvironment, AloneInv, Running, tables
  <2> QED
    BY <1>0, <2>2, <2>3 DEF AloneInv
<1> QED
  BY <1>0, <1>2, <1>3, <1>4, <1>5, <1>6, StartAlone, RemoveAlone, ThreadAlone, PlaybookAlone,
     WritersAlone DEF Next, ThreadStep

(* A scan that no other one overlapped asks its own machines only, and     *)
(* judges itself by results for those alone.                               *)
THEOREM AloneIsOwn == Spec => []AloneScansOwn
<1>1. AloneInv => AloneScansOwn
  BY DEF AloneInv, AloneScansOwn, Own, OwnWork, Running, Recent
<1> QED
  BY InitAlone, StepAlone, <1>1, PTL DEF Spec
=============================================================================
