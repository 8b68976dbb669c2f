---------------------------- MODULE AnsibleScan -----------------------------
(***************************************************************************)
(* Scanning machines with Ansible.  Threads of the task manager each start *)
(* a playbook; a playbook learns which machines to scan from the hash of a *)
(* task, which its thread leaves in the one environment all threads share. *)
(* It stores what it finds as results and writes it to the machines' rows, *)
(* which the pages of the web server write at the same time.               *)
(*                                                                         *)
(* A task is its argument, a set of machines: TaskManager.add joins equal  *)
(* ones.  Of a machine's row the columns are kept that a scan and a page   *)
(* both write and that have to agree: its system and its hypervisor.  The  *)
(* hardware columns follow the last result applied and are left out.       *)
(***************************************************************************)
EXTENDS Naturals, FiniteSets

CONSTANTS Machines,       \* machines that may be scanned
          Administrative, \* those do_scan_all only pings
          Scans,          \* arguments of Ansible tasks: sets of machines
          Page,           \* the web worker that edits a machine or applies a result
          MaxResults, MaxOthers, MaxFaults \* bounds of the model

ASSUME ScanAssumption ==
    /\ Administrative \subseteq Machines
    /\ Scans \subseteq SUBSET Machines
    /\ Machines \ Administrative \in Scans
    /\ Page \notin Scans
    /\ MaxResults \in Nat /\ MaxOthers \in Nat /\ MaxFaults \in Nat

VARIABLES
    task,       \* the SingleTask row of each scan
    pc,         \* where its thread is
    env,        \* os.environ["ORTHOS_SCAN_TASK_HASH"] of the task manager, as a set
    inherited,  \* the environment its playbook was started with, until that reads it
    todo,       \* the hosts of its inventory that have not answered yet
    since,      \* scan_start
    row,        \* the machines table: per machine its row, as a set
    bmc,        \* the machines that have a BMC
    results,    \* the AnsibleScanResult table
    taken,      \* how many results were ever stored
    held,       \* per writer: the copy of a row it is going to save, as a set
    daily,      \* the DailyMachineChecks task
    isRunning,  \* DailyMachineChecks.is_running in the task manager
    others, faults,
    crossed     \* history: scans during which another one was in progress

threads == <<pc, inherited, todo, since>>
tables == <<row, bmc, results, taken>>
bounds == <<others, faults>>
vars == <<task, env, threads, tables, held, daily, isRunning, bounds, crossed>>

Findings == {"host", "guest"}
Systems == {"BareMetal", "VM KVM"}
Row == [system : Systems, hypervisor : {"yes", "no"}]
Virtual(r) == r.system = "VM KVM"
There == {m \in Machines : row[m] # {}}
Metal == [system |-> "BareMetal", hypervisor |-> "no"]

Writers == Scans \union {Page}
Running == {"spawn", "inventory", "playing", "judge", "tidy", "delete"}
Active == {s \in Scans : pc[s] \in Running}

Init ==
    /\ task = [s \in Scans |-> "absent"]
    /\ pc = [s \in Scans |-> "off"]
    /\ env = {}
    /\ inherited = [s \in Scans |-> {}]
    /\ todo = [s \in Scans |-> {}]
    /\ since = [s \in Scans |-> 0]
    /\ row = [m \in Machines |-> {Metal}]
    /\ bmc = {}
    /\ results = {}
    /\ taken = 0
    /\ held = [w \in Writers |-> {}]
    /\ daily = "off"
    /\ isRunning = FALSE
    /\ others = 0 /\ faults = 0
    /\ crossed = {}
-----------------------------------------------------------------------------
(* Bounds how often anything but a scan happens.                           *)
Another == others < MaxOthers /\ others' = others + 1

(* Requests: RESCAN and the page of a machine, RESCAN all, the daily task. *)

Added(s) == [task EXCEPT ![s] = IF @ = "absent" THEN "idle" ELSE @]

(* Machine.scan.  The row of a task in progress absorbs the request.       *)
Rescan(s) ==
    /\ \E m \in There : s = {m}
    /\ task' = Added(s)
    /\ UNCHANGED <<env, threads, tables, held, daily, isRunning, bounds, crossed>>

(* do_scan_all reads the machines and adds one Ansible task for them all.  *)
(* In a web worker the class variable is that worker's own.                *)
ScanAll == There \ Administrative

RescanAll ==
    /\ ScanAll \in Scans
    /\ task' = Added(ScanAll)
    /\ UNCHANGED <<env, threads, tables, held, daily, isRunning, bounds, crossed>>

(* The constructor refuses a second one; TaskExecuter logs the exception.  *)
DailyBegin ==
    /\ daily = "off"
    /\ ~isRunning
    /\ Another
    /\ isRunning' = TRUE
    /\ daily' = "adding"
    /\ UNCHANGED <<task, env, threads, tables, held, faults, crossed>>

StillSet == TRUE
Cleared == FALSE

DailyScanAll ==
    /\ daily = "adding"
    /\ ScanAll \in Scans
    /\ task' = Added(ScanAll)
    /\ isRunning' = Cleared
    /\ daily' = "off"
    /\ UNCHANGED <<env, threads, tables, held, bounds, crossed>>

(* An exception, of the database for instance: nobody clears the variable. *)
DailyFails ==
    /\ daily = "adding"
    /\ faults < MaxFaults
    /\ faults' = faults + 1
    /\ daily' = "off"
    /\ UNCHANGED <<task, env, threads, tables, held, isRunning, others, crossed>>
-----------------------------------------------------------------------------
(* Ansible.execute, up to the playbook.                                    *)

Goto(s, label) == pc' = [pc EXCEPT ![s] = label]

(* The thread begins with the variable; others may overwrite it from here. *)
Start(s) ==
    /\ task[s] = "idle"
    /\ task' = [task EXCEPT ![s] = "running"]
    /\ env' = {s}
    /\ Goto(s, "spawn")
    /\ crossed' = IF Active = {} THEN crossed \ {s} ELSE crossed \union Active \union {s}
    /\ UNCHANGED <<inherited, todo, since, tables, held, daily, isRunning, bounds>>

(* scan_start, and the process that inherits the environment as it is now. *)
Spawn(s) ==
    /\ pc[s] = "spawn"
    /\ since' = [since EXCEPT ![s] = taken]
    /\ inherited' = [inherited EXCEPT ![s] = env]
    /\ Goto(s, "inventory")
    /\ UNCHANGED <<task, env, todo, tables, held, daily, isRunning, bounds, crossed>>

OnlyOnSuccess(raised) == IF raised THEN "ended" ELSE "tidy"
Finally(raised) == "tidy"

(* The inventory plugin: the task of that hash, if its row is still there, *)
(* and those of its machines that exist.                                   *)
WholeTable(s) == There
Inventory(s) == s \intersect There

Hosts(s) == UNION {Inventory(u) : u \in {v \in inherited[s] : task[v] # "absent"}}

ReadInventory(s) ==
    /\ pc[s] = "inventory"
    /\ todo' = [todo EXCEPT ![s] = Hosts(s)]
    /\ inherited' = [inherited EXCEPT ![s] = {}]
    /\ Goto(s, IF Hosts(s) = {} THEN Finally(TRUE) ELSE "playing")
    /\ UNCHANGED <<task, env, since, tables, held, daily, isRunning, bounds,
                   crossed>>
-----------------------------------------------------------------------------
(* The callback plugin, for one host after the other.                      *)

Copy(m, r, of) == [machine |-> m, new |-> r, of |-> of]
Hold(w, c) == held' = [held EXCEPT ![w] = {c}]
Drop(w) == held' = [held EXCEPT ![w] = {}]
Pending(w, of) == {c \in held[w] : c.of = of}

(* A host that does not answer, or whose row has gone since, is left out.  *)
Skip(s) ==
    /\ pc[s] = "playing"
    /\ held[s] = {}
    /\ \E m \in todo[s] : todo' = [todo EXCEPT ![s] = @ \ {m}]
    /\ UNCHANGED <<task, env, pc, inherited, since, tables, held, daily, isRunning, bounds,
                   crossed>>

(* apply_to_machine corrects the system of a machine, besides its hardware *)
(* columns, that turns out to be a guest.                                  *)
Applied(r, f) == [r EXCEPT !.system = IF f = "guest" THEN "VM KVM" ELSE @]

Callback(s) ==
    /\ pc[s] = "playing"
    /\ held[s] = {}
    /\ taken < MaxResults
    /\ \E m \in todo[s], f \in Findings : \E r \in row[m] :
          /\ todo' = [todo EXCEPT ![s] = @ \ {m}]
          /\ Hold(s, Copy(m, Applied(r, f), "fetched"))
    /\ UNCHANGED <<task, env, pc, inherited, since, tables, daily, isRunning, bounds,
                   crossed>>

(* The row of the result refers to the machine's: IntegrityError without.  *)
StoreResult(s) ==
    /\ \E c \in Pending(s, "fetched") :
          IF c.machine \in There /\ taken < MaxResults
          THEN /\ taken' = taken + 1
               /\ results' = results \union {[machine |-> c.machine, at |-> taken + 1]}
               /\ Hold(s, [c EXCEPT !.of = "assigned"])
          ELSE /\ Drop(s)
               /\ UNCHANGED <<taken, results>>
    /\ UNCHANGED <<task, env, threads, row, bmc, daily, isRunning, bounds, crossed>>

(* The playbook returns; its code is 0 only if every host answered.        *)
Return(s) ==
    /\ pc[s] = "playing"
    /\ todo[s] = {}
    /\ held[s] = {}
    /\ \/ Goto(s, "judge")
       \/ Goto(s, Finally(TRUE))
    /\ UNCHANGED <<task, env, inherited, todo, since, tables, held, daily, isRunning, bounds,
                   crossed>>

(* Results since scan_start, of whatever machines, against self.machines:  *)
(* what is missing is logged, and asked for by nobody.                     *)
Recent(s) == {r.machine : r \in {x \in results : x.at > since[s]}}

Judge(s) ==
    /\ pc[s] = "judge"
    /\ Goto(s, Finally(FALSE))
    /\ UNCHANGED <<task, env, inherited, todo, since, tables, held, daily, isRunning, bounds,
                   crossed>>

(* The finally clause asks first and deletes then; a KeyError ends the     *)
(* thread like a return.                                                   *)
Tidy(s) ==
    /\ pc[s] = "tidy"
    /\ Goto(s, IF env = {} THEN "ended" ELSE "delete")
    /\ UNCHANGED <<task, env, inherited, todo, since, tables, held, daily, isRunning, bounds,
                   crossed>>

DeleteEnvironment(s) ==
    /\ pc[s] = "delete"
    /\ env' = {}
    /\ Goto(s, "ended")
    /\ UNCHANGED <<task, inherited, todo, since, tables, held, daily, isRunning, bounds,
                   crossed>>

(* _check_threads removes the row of a thread that has ended.              *)
Remove(s) ==
    /\ pc[s] = "ended"
    /\ Goto(s, "off")
    /\ task' = [task EXCEPT ![s] = "absent"]
    /\ since' = [since EXCEPT ![s] = 0]
    /\ crossed' = crossed \ {s}
    /\ UNCHANGED <<env, inherited, todo, tables, held, daily, isRunning, bounds>>
-----------------------------------------------------------------------------
(* Machine.save, for the playbook and for the pages.                       *)

(* ansible_result_apply: the row as it is, with the facts of a result,     *)
(* whatever they were.                                                     *)
PageApply ==
    /\ Another
    /\ held[Page] = {}
    /\ \E x \in results, f \in Findings : \E r \in row[x.machine] :
          Hold(Page, Copy(x.machine, Applied(r, f), "assigned"))
    /\ UNCHANGED <<task, env, threads, tables, daily, isRunning, faults, crossed>>

(* The pages and commands that change a machine's system or hypervisor.    *)
PageEdit ==
    /\ Another
    /\ held[Page] = {}
    /\ \E m \in There, y \in Systems, h \in {"yes", "no"} : \E r \in row[m] :
          Hold(Page, Copy(m, [r EXCEPT !.system = y, !.hypervisor = h], "assigned"))
    /\ UNCHANGED <<task, env, threads, tables, daily, isRunning, faults, crossed>>

(* The rules of Machine.save, checked on the copy, and on the BMC as it is *)
(* in the database now.  A ValidationError ends the request or, caught by  *)
(* the callback plugin, the work on this host.                             *)
Unruled(r) == TRUE
MayHost(r) == r.hypervisor = "yes" => Virtual(r)
Valid(c) == /\ MayHost(c.new)
            /\ c.machine \in bmc => ~Virtual(c.new)

Validate(w) ==
    /\ \E c \in Pending(w, "assigned") :
          IF Valid(c) THEN Hold(w, [c EXCEPT !.of = "validated"]) ELSE Drop(w)
    /\ UNCHANGED <<task, env, threads, tables, daily, isRunning, bounds, crossed>>

(* The whole row; where there is none to update, Django inserts it.        *)
Save(w) ==
    /\ \E c \in Pending(w, "validated") : row' = [row EXCEPT ![c.machine] = {c.new}]
    /\ Drop(w)
    /\ UNCHANGED <<task, env, threads, bmc, results, taken, daily, isRunning, bounds, crossed>>

(* A BMC is added to a machine that may have one.                          *)
AddBMC(m) ==
    /\ Another
    /\ m \in There \ bmc
    /\ \A r \in row[m] : ~Virtual(r)
    /\ bmc' = bmc \union {m}
    /\ UNCHANGED <<task, env, threads, row, results, taken, held, daily, isRunning, faults,
                   crossed>>

(* ON DELETE CASCADE: with a machine go its BMC and its results.           *)
OfMachine(m) == {r \in results : r.machine = m}

DeleteMachine(m) ==
    /\ m \in There
    /\ faults < MaxFaults
    /\ faults' = faults + 1
    /\ row' = [row EXCEPT ![m] = {}]
    /\ bmc' = bmc \ {m}
    /\ results' = results \ OfMachine(m)
    /\ UNCHANGED <<task, env, threads, taken, held, daily, isRunning, others, crossed>>

(* ansible_result_delete, ansible_result_bulk_delete.                      *)
DeleteResults ==
    /\ Another
    /\ held[Page] = {}
    /\ \E rs \in (SUBSET results) \ {{}} : results' = results \ rs
    /\ UNCHANGED <<task, env, threads, row, bmc, taken, held, daily, isRunning, faults,
                   crossed>>

(* The service is restarted: its threads, their playbooks, its environment *)
(* and its class variables are gone, and running rows are reset.           *)
Restart ==
    /\ faults < MaxFaults
    /\ faults' = faults + 1
    /\ task' = [s \in Scans |-> IF task[s] = "running" THEN "idle" ELSE task[s]]
    /\ pc' = [s \in Scans |-> "off"]
    /\ env' = {}
    /\ inherited' = [s \in Scans |-> {}]
    /\ todo' = [s \in Scans |-> {}]
    /\ since' = [s \in Scans |-> 0]
    /\ held' = [w \in Writers |-> IF w = Page THEN held[w] ELSE {}]
    /\ daily' = "off"
    /\ isRunning' = FALSE
    /\ crossed' = {}
    /\ UNCHANGED <<tables, others>>
-----------------------------------------------------------------------------
Next ==
    \/ \E s \in Scans :
          \/ Rescan(s) \/ Start(s) \/ Spawn(s) \/ ReadInventory(s)
          \/ Skip(s) \/ Callback(s) \/ StoreResult(s) \/ Return(s) \/ Judge(s)
          \/ Tidy(s) \/ DeleteEnvironment(s) \/ Remove(s)
    \/ RescanAll \/ DailyBegin \/ DailyScanAll \/ DailyFails
    \/ \E w \in Writers : Validate(w) \/ Save(w)
    \/ PageApply \/ PageEdit \/ DeleteResults
    \/ \E m \in Machines : AddBMC(m) \/ DeleteMachine(m)
    \/ Restart

Spec == Init /\ [][Next]_vars
-----------------------------------------------------------------------------
ScanTypeOK ==
    /\ task \in [Scans -> {"absent", "idle", "running"}]
    /\ pc \in [Scans -> Running \union {"off", "ended"}]
    /\ env \subseteq Scans /\ Cardinality(env) <= 1
    /\ inherited \in [Scans -> SUBSET Scans]
    /\ todo \in [Scans -> SUBSET Machines]
    /\ \A m \in Machines : row[m] \subseteq Row /\ Cardinality(row[m]) <= 1
    /\ bmc \subseteq There
    /\ \A r \in results : r.machine \in There
    /\ isRunning => daily = "adding" \/ faults > 0

(* Whichever threads set, overwrite and delete the variable between each   *)
(* other's steps, it never names a scan that is over: the next playbook    *)
(* fails for want of a hash, it does not scan the machines of a past task. *)
EnvironmentCurrent == env \subseteq Active

(* A scan that no other one overlapped asked the machines of its own task, *)
(* and nothing but results for them has been stored since it began.        *)
AloneScansOwn ==
    \A s \in Scans \ crossed :
        /\ pc[s] = "playing" => todo[s] \subseteq s
        /\ pc[s] = "judge" => Recent(s) \subseteq s

(* Machine.save: only virtual machines may have hypervisors.  It is checked*)
(* on copies, of rows that scans and pages write at the same time, yet     *)
(* never becomes false of a row.                                           *)
OnlyVirtualHosted == \A m \in Machines : \A r \in row[m] : r.hypervisor = "yes" => Virtual(r)
=============================================================================
