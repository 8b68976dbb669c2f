# A verification project for orthos2

orthos2 administers a pool of machines: people reserve and release them, a
task manager checks, installs and configures them, and Cobbler, libvirt, NetBox
and serial console servers are kept in step with the database. This directory
holds TLA+ models of the parts whose correctness depends on the order of steps,
configurations for the TLC model checker, and proofs for the TLA+ proof system.
Paths below are relative to `orthos2/` in the repository's sources.

## The system

Three kinds of processes share one database: web and API workers (Django
requests), one task manager process (`taskmanager/executer.py`) and the threads
it starts. There is **no transaction and no lock** around a request or a task:
every `get()` and `save()` is a statement of its own, and `save()` writes every
column of the instance as it was read, or inserts the row if it is gone. All the
hard behaviour of the program comes from this.

| component | state | operations | interacts with |
|---|---|---|---|
| Task manager (`taskmanager/`) | `SingleTask`, `DailyTask` rows; two queues, `running_threads`, `_stop_execution` | `TaskManager.add`, poll, claim, dispatch, reap, reset after a restart | everything requests tasks; threads execute them |
| Task administration (`frontend/views/*task.py`, `api/commands/dailytask.py`) | the same rows | execute, enable, disable, toggle running, new, edit, delete | races with the poll loop |
| Reservations (`data/models/machine.py`, `reservationhistory.py`) | `reserved_by/at/until/permanently`, `ReservationHistory` | reserve, extend, hand over, take over, release, expire | requests message-of-the-day, mail and setup tasks; deletes managed VMs |
| Machine checks (`taskmanager/tasks/machinetasks.py`, `utils/machinechecks.py`) | status columns of `Machine` | ping, SSH, login, installations | writes the whole machine row back |
| Machine record and signals (`Machine.save`, `data/signals.py`) | `_original` copy, related rows | save, delete, compare, request tasks | Cobbler, serial console, DHCP tasks |
| Cobbler (`utils/cobbler.py`, `tasks/cobbler.py`) | systems on external servers | deploy, update, remove, prune, sync | reads machines, races with their deletion |
| VM hosting (`data/virtualization/`) | VMs, host names, disk images of a host | create, remove | creates and reserves machines |
| Ansible scan (`tasks/ansible.py`) | an environment variable, scan results | scan, apply | reads the task by its hash |
| Interfaces, BMCs, remote power, addresses (`networkinterface.py`, `bmc.py`, `remotepower.py`, `utils/misc.py`) | rows that belong to a machine | add, edit, delete, import, suggest an address | domain and dynamic range, NetBox |
| Catalogue and NetBox (`data/models/`, `api/commands/`, `frontend/views/`, `tasks/netbox*.py`) | rows of 21 models and the references between them | add, edit, delete, fetch, import, compare, clean up | every module's rows are some of them |
| Frontend pages, API parsing, sign-on, containers | none of their own | render, parse, authenticate | see "Not modelled" |

What makes them correct, and hard:

* **Task manager** - a request is executed, by one thread, at least once and
  through restarts; a daily task starts no more often than there are days it was
  queued on; the limit on threads holds; nothing waits for ever. Hard: crashes between a row's update and the
  thread it stands for, stops that leave threads running, a lost connection at
  any access, yesterday's run lasting past midnight, priorities, full houses.
* **Task administration** - a superuser's change causes no extra executions.
  Hard: stale copies saved over the loop's, rows inserted again.
* **Reservations** - only owners, superusers and expiry end a reservation;
  every one ends up in the history; periods are limited; permanent ones are
  granted by superusers; expired ones are removed; the message of the day is
  right. Hard: requests, expiry and machine checks writing stale whole rows.
* **Cobbler** - every active machine is deployed, nothing else is. Hard: names
  read before and removed later, by several requests and tasks at once, edits in
  place that leave something behind, servers that fail.
* **VM hosting** - one host name and disk image for each VM, and no creation
  that takes the host above `vm_max` on its own. Hard: checks long before the row
  is written, requests that die halfway, machines added and renamed by hand.
* **Ansible scan** - a scan asks the machines it was started for. Hard: one
  environment for all threads, results applied to rows that changed.
* **Parts of machines** - an address belongs to one interface or BMC, one
  interface of a machine is primary, a VM has no BMC. Hard: rules that span
  tables are queries before a save, and some writers do not even ask.
* **Catalogue** - no reference dangles, and a deletion takes along what it
  should and nothing else. Hard: a check, the collection of what depends on a
  row, and the deletion are separate; edits and imports write stale rows.

## Modules

```
TaskBoard <--implements-- TaskExecuter <--extends-- TaskAdmin
                          TaskExecuterProofs <--extends-- TaskAdminProofs
Reservation      ReservationProofs
VirtualMachines  VirtualMachinesProofs
AnsibleScan      AnsibleScanProofs
CatalogueRows <--extends-- Catalogue   CatalogueProofs
MachineParts     MachinePartsProofs
Cobbler          CobblerProofs
```

Each specification `X` that is model-checked has an `MCX` with the values of its
constants. Modules do not compose beyond that: what one component sees of
another is an environment action of its module (a machine's deletion in Cobbler,
MachineParts and AnsibleScan; a request of a task in TaskExecuter), which may
happen at any moment and so covers whatever the other does.

### TaskBoard
What the task manager promises about single tasks: a request waits, is executed
by at most one worker and retired; a crash sends what was started and not
retired back to waiting.

### TaskExecuter
`executer.py`, `TaskManager.add` and the management command. The rows are
`singleRow` ("absent", "idle", "running" - a row has no other state that
changes) and `dailyRow`; `pc` is the place in `run()`, one label per database
access or step on memory; `queue`, `runningThreads`, `basetask`, `singles` and
`fetched` are the variables of that name or the query result being iterated.
`live[t]` counts the threads that execute a task, which the program itself
does not know; `requested`, `runs` and `queuedOn` (the days on which a daily task
was stamped and queued) are history.

| action | code |
|---|---|
| `Add` | `TaskManager.add` (get_or_create on name, module and arguments, which is the hash) |
| `ResetStaleRunningTasks` | the same, as one step: nothing else runs the loop then |
| `LoopHead` | the while condition and the full-house branch |
| `FetchSingles`, `EnqueueSingle`, `EnqueuedSingles` | `get_single_tasks`: one query, one save and put per row |
| `FetchDailies`, `EnqueueDaily`, `EnqueuedDailies` | `get_daily_tasks` |
| `Take`, `TakeNothing` | the two `get(timeout=1)` |
| `DispatchUnknown`, `DispatchNothing`, `DispatchThread` | import, arguments, constructor, thread start; `Defect` says why a task cannot be started |
| `CheckAlive`, `CheckSingle`, `CheckDaily`, `ResetDaily`, `CheckDone` | `_check_threads`, `remove_single_task`, `reset_daily_task` (a get and a save) |
| `InterfaceErrorCaught`, `InterfaceErrorEscapes` | a lost connection noticed inside or outside the `try` |
| `Start`, `Finish`, `Exit`, `Crash`, `ConnectionDrop`, `ThreadFinish`, `Midnight`, `ReachExecutionTime` | process, signals, threads, clock |

A full-house turn and the `finally` clause both begin `_check_threads`
(`BeginCheck`). A one-second `get` that times out on HIGH while HIGH is being
filled cannot happen: only this thread fills the queue.

### TaskAdmin
Extends TaskExecuter by superusers who open a row (`hand`) and save it later.
`Surroundings` is any step of TaskExecuter. New, edited and deleted rows of both
kinds are requests like the others; a task edited into another one is deleted
and added at once, as the rows are told apart by what they execute. History
variables count what the properties need: `credit` (times a single task's row
became idle, less executions) and `adminRuns` (saves of a daily task).

### Reservation
One machine, the requests and task threads that have something in hand
(`job`), the follow-up tasks queued, the day, and what the machine's message
of the day says. A job holds the copy of the row the process will save, with
the reservation's columns only. `reserve` is `BeginReserve` (read, permission,
form, decision), `TakeAway` (history row), `SaveReservation`, `Enqueue`;
`release` is `BeginRelease` or `BeginExpiry`, then `DeleteVm` or
`SaveRelease`, `RecordRelease`, `Enqueue`; a machine check is `BeginCheck`,
`SaveStatus`, perhaps `Refresh` and `SaveSync` (`utils.misc.sync`), and
`SaveCheck`. `reserved_at` is a stamp instead of a time, so that it identifies
a reservation. `imported` is the day on which a web process imported
`utils.misc`, whose default argument is evaluated then.

### CatalogueRows and Catalogue
`CatalogueRows` has the rows, the requests in general and the statements that
write; `Catalogue` has each command, page and task as one of them, and the
properties. The rows of 21 models as a function `ref` from rows to their references, and the
requests in progress in `job`. `Keys` are the foreign keys of the models,
`SetsNull` those with `on_delete=SET_NULL`; `Cascades` are the others of a model. A request is
`Shows`/`Sends`/`Write` (an edit: GET, POST, UPDATE), `Adds`/`Write`,
`OpensFor`/`SendsFor`/`Write` (an API addition to a machine, in two requests) or
`Deletes`/`Collect`/`Commit`. Each command of the API and each page is an action
of its own that names who may call it, the model and the form's references:
`AddMachine`, `EditDomain`, `DeleteEnclosurePage` and so on. `Collect` is
Django's `Collector.collect()` and `Commit` its `delete()`, which is one
transaction: rows the models of which Django deletes by a query on their keys
(`Fast`) go at the end, references with SET_NULL are cleared, and a row
that came to depend on a deleted one meanwhile makes it fail.

The tasks that talk to NetBox write the same rows: `Fetches` saves a row as it
was read (the time of the attempt) and later again with the answer;
`ImportMachine`, `KnownType`, `ResolveManufacturer` and `ResolveDeviceType` are
the import of a device and `get_or_create_from_netbox`; `Compares` adds a run and
its results; `CleanupComparisions` and `DailyCleanup` select rows and delete
them. NetBox may answer anything.

### Cobbler
Machines (`row`, with `parts` for the rows of their own that Cobbler is told and
`Machine.save` does not notice), remote power devices, the systems on each
server, the queue of tasks, one task per thread and any number of web requests
in progress (`web`). A name is a pair of a host name and a domain, and
`Suffixes` says which domain's name ends like which other's.

A request remembers the row it has read. An edit is `BeginEdit`, `SaveMachine`,
perhaps `MoveMachine` (the old system is removed by the old name) and `Follow`
(the comparison with the row as it was read, and the task); a deletion
is `BeginDelete` or `BeginDeleteDevice`, `PreDelete` (the call to the server) and
`DeleteMachine` or `DeleteDevice`. The cleanup page is `BeginCleanup` (the list
of systems), `CollectDiff` (the active names, one domain after the other) and
`CobblerCleanup` (one system after the other). Each may be abandoned between any
two steps.

The tasks read rows first and call the server later, one call per step; any call
may find the server down. `Deploy` edits a system that is known in place: `Told`
keeps the part of a machine that is gone unless it is one of those `add_machine`
takes away (`Cleared`: BMC, remote power, console).

### VirtualMachines
One host: its `vmMax`, the `rows` of machines that were ever its own (`here` says
that their hypervisor is this host now), the `domain`s libvirt knows, and the
`disk` images. A creation has a number, the primary key of its row, and goes
through "count", "rows", "domains", "disk", "install", "save", "reserve"; a
removal through "destroy" and "delete". A request may fail or be killed at every
step. The VM's name is the number in `<host>-<number>`, so that names and disks
can be reused; numbers above `vm_max` stand for every other name. The other
writers of these rows are here as well: `AddMachine` (by hand, with a hypervisor
and without any comparison with `vm_max`), `BeginEdit` and `SaveEdit` (name and
hypervisor, from a copy read before) and `EditHost` (`vm_max`).

### AnsibleScan
`Ansible.execute` with the inventory and callback plugins it drives. `env` is the
variable in the process environment, `inherited` what a playbook was given when
it was started; `todo` are hosts that have not answered. A `Writer` (a scan
or the page that edits a machine) holds a copy of a row and saves it later,
which inserts the row again if it was deleted. A task added while an equal one is
there is that one, but its thread sets the variable anew.

### MachineParts
Interfaces, BMCs and remote power of two machines and the addresses of one
network. A job is a request or the import of one object, in steps "suggest",
"clean", "save" and so on, one per query or statement. Unique columns are the
database's and make a save fail; the rules of `clean()` are queries before.
`suggest_host_ip` is `SuggestHostIp`, a search whose index grows by the
last address of the dynamic range when it meets the range.

## Runs

Every bound is a constant named `Max...`, `Last...` or said to be one where it is
declared; the deadlock check is on unless said otherwise below.

| run | instance | shows |
|---|---|---|
| `executer_safety` | 2 single tasks (one HIGH, one not importable), 1 daily task, 2 threads, 2 days, 1 stop or crash, 1 lost connection | `OneThreadPerTask`, `ClaimedOnce`, `RunningIsInHand`, `OneStartPerQueuedDay`, the inductive invariant `IInv`, and that the loop implements `TaskBoard` |
| `executer_liveness` | 3 single tasks (one HIGH, one with arguments that are not JSON), 1 daily, 1 thread, 2 days, 1 restart, 1 lost connection | `ConcurrencyRespected` (with more tasks than threads), `HighServed`, `NormalServed`, `DailyFlagReleased`, `DuePickedUp` |
| `executer_request_lost` | as the first, 1 thread | **violated**: `RequestKept` |
| `admin_races` | 2 single tasks, 1 daily, 2 threads, 2 superusers with 2 requests in all, 1 day | `OneThreadPerTask`, `NoFreeRun` and `DailyRunsAccounted`: next to stale saves, every execution has a reason |
| `reservation_rules` | 1 superuser, 1 user, every kind of machine, 4 days, requests and tasks one after the other | `HistoryComplete`, `MotdCurrent`, `DisplacedByRight`, `ExpiredReleased` |
| `reservation_overlap` | the same users, a web worker and a task thread, 2 days, 2 reservations, a restart of the web server | `ResInv` and its parts |
| `catalogue_overlap` | a row of each of 21 models, or two, and one more of most to be added; 2 workers, 2 requests | `CatalogueTypeOK` (no reference dangles), `GuardedDeletion`, `MachineLossAsked` |
| `cobbler_repair` | 2 machines, 1 device that may be named like a machine, 3 domains: one, one below it on the same server, one without a server; 2 task threads, 2 web requests or faults, regenerations at any time | `CobblerTypeOK`, `MachinesKept` (why an active machine may lose its system), `Repaired` (regenerating again and again brings servers and database together) |
| `cobbler_prune` | the same, no device named like a machine | **violated**: `PruneSparesDevices` |
| `vm_overlap` | 2 workers, host for 2, 3 names, 3 machines created or added, 1 removal, 1 edit, any request dying at any step | `VmInv`, `CreatedWithinLimit`, `AloneKeepsLimit`, `OwnDomain`, `OwnDisk` |
| `scan_overlap` | 2 machines, scans of one and of both, a page, 1 result, 1 other event, 1 fault | `EnvironmentCurrent`, `AloneScansOwn`, `OnlyVirtualHosted` |
| `parts_overlap` | 2 machines, one of them virtual, 2 MAC addresses, 1 power device, 8 addresses of a network with a dynamic range, 2 jobs | `PartsInv`, `OnlyOverlapping` |

Why the bounds suffice: the loop treats tasks independently except for the
queues, the priorities and the limit, so two or three tasks give every pair of
states and a full house; two days contain a midnight with a run that lasts past
it; one fault at every point is enough to reach every intermediate state, and
the state after recovery is a start like the first. Stale copies take two
actors, whichever rows they write, so the overlap runs have two jobs, each a
request of any kind, on a database that has at least one row of every kind to
refer to and to lose. In `vm_overlap` it takes three machines to have two that
overlap and one before or after both, which is where a name or disk is reused,
and where one added by hand leaves room for one but not for two. In
`cobbler_repair` two requests are a rename and another machine that takes the
name, or a save next to a cleanup, each with two tasks under way.
For reservations, two reservations suffice for a mixture, and periods of one or
two days for "within", "at" and "past" the limit. The search for addresses needs
addresses below, in and above the dynamic range and the network's own ends.

`reservation_rules` has one process as web worker and task thread. Requests and
tasks then do not overlap, which is what its four properties presuppose: with
overlap, a machine check in progress can undo a reservation or restore one that
was released, and the code promises nothing better: `ExpiredReleased` and
`MotdCurrent` (of machines that are not reinstalled) say nothing about that
case. What holds even then is the subject of `reservation_overlap` and of the
proofs.

The daily tasks' bounds are cumulative. A run queued before midnight may be
started after it, with the next day's own run to follow, so that two starts may
fall on one day; `OneStartPerQueuedDay` and `DailyRunsAccounted` count the starts
against the days on which the task was queued, and against the days and the
saves of superusers, from the beginning.

A host may have more than `vm_max` machines. With one added by hand and `vm_max`
2, two overlapping creations both find room for one more. `AloneKeepsLimit` says
that a creation nobody overlapped never takes the host above the limit, and
`CreatedWithinLimit` that overlapping ones do so only together with machines that
were added or renamed: the names they may choose end at `vm_max`.

`MachinesKept` lists the ways in which an active machine may lose its system,
each of which the run needs: it is being deleted; it was saved after whoever
removes its system read the rows; a device of the same name is deleted; its
domain is below one that is cleaned up or pruned, since that goes by the ending
of the name. `Repaired` is about all domains but those below another one, for the
same reason. It says of a machine's parts that those there are are on the server
as they are in the database, and that a BMC, remote power or console that is gone
is gone there too; a removed interface or boot server stays on the server for
ever, as `add_machine` never takes it away.

Several properties are of the form "only jobs that were in progress at the same
time can break this rule": `OnlyOverlapping`, `OwnDomain`, `OwnDisk`,
`AloneKeepsLimit`, `GuardedDeletion`, `AloneScansOwn`. The rules themselves do not survive overlap,
as nothing locks; the history variables (`together`, `late`, `crossed`) tell an
overlap from a mistake in the sequence. They rule out, for instance, that a clean
request breaks a rule on its own, or that a deletion takes along a machine that
was there when it checked.

The deadlock check is off in the reservation, catalogue, VM, scan and parts runs:
once a bound is used up and every request is finished, or a VM is deleted, there
really may be nothing left to do.

### Fairness

* The loop (`WF_vars(LoopStep)`): its waits are `sleep(0.25)` and gets with a
  timeout of one second. A task's `execute` returns (`WF` of `ThreadFinish`);
  a stopped task manager is started again and exits when its threads are done.
  No fairness is assumed of requests, crashes, the connection or the clock.
  `NormalServed` and `DailyFlagReleased` hold only if the HIGH queue is
  eventually empty: NORMAL tasks starve otherwise, as the code intends.
* Requests and tasks of reservations in progress go on (`WF` of `Continue`). A
  due expiry check is strongly fair per thread (`SF` of `BeginExpiry`): the task
  is requested every day the reservation is overdue and `NormalServed` says each
  request is executed, while other checks may keep the thread busy in between.
* Cobbler: a thread goes on with its task, and takes a queued one, for the same
  reason; some web request in progress goes on (`WF` of `Continue`), though each
  may also be abandoned. No fairness is assumed of servers: `Repaired` says what
  happens if they answer and everything is regenerated again and again.

### Violations

Each states what a docstring, a comment or a help text of the repository says;
the counterexample is a behaviour of the code as it is.

1. `executer_request_lost`: `TaskManager.add` is absorbed by the row of an equal
   task that is executing or finished and not yet reaped; the request is never
   executed.
2. `cobbler_prune`: a remote power device is a system of its own, and pruning a
   domain removes every system that is no machine's.

Other statements that are false of the code are in the list of hazards with the
reason why they are no run: the loop ends when an `InterfaceError` escapes from
`_check_threads`; a forced daily task waits for the daily execution time; a
machine check inserts the row of a deleted VM again; a web process up for a
month reserves new VMs until a day in the past; `Machine.fetch_netbox` means to
move an interface that NetBox has at another machine ("If on different machine
--> Remove from machine and assign to this machine", `data/models/machine.py:850`)
but `clean()` refuses it, as the row of the other machine still has the MAC
address. The models take these steps, and the properties hold in spite of them;
the liveness properties of the task manager say "unless the loop has ended" of the
first (`Dead`).

## Proofs

`TaskExecuterProofs` proves, for any tasks, priorities, defects, limits and
bounds, that `IInv` is inductive, and from it `TypeOK`, `OneThreadPerTask`,
`ClaimedOnce` and `ConcurrencyRespected`; with `IInv` as a lemma,
`RunningIsInHand`, and that every step of the loop is a step of `TaskBoard` or a
stutter (`Refinement`). `OneThreadPerTask` alone is not inductive: that a task
not in `runningThreads` has no thread is `ThreadsTracked`; that the row of a
queued task is marked running is `ClaimedOnce`, which in turn needs that the
rows in `singles` are idle (`HoldsWhatItRead`) and that the batch variables are
empty elsewhere (`LocalsInScope`). The limit needs `RoomForOneMore`: it was
tested at the head of the loop and only this thread adds entries. For
`OneStartPerQueuedDay` (`StartsQueued`), `DailyInv` adds to `IInv` that a task's
starts, done and to come, are no more than the days on which it was queued, that
none of these is after its row's stamp, and that a row the loop holds a copy of
has not been stamped since it was read.

`TaskAdminProofs` proves the properties of `admin_races` for any number of
superusers and requests. Pages write rows and nothing else, so what `IInv` says of
the loop's own variables remains inductive next to them; what it says of rows
(that a queued task's is marked running) does not, and two accounts replace it.
`IdlePaid`: a single task's starts to come, and its row if it is idle, or was read
as idle, are covered by its credit. `DaysPaid`: a daily task's starts so far and to
come, and one more if its row, or the copy the loop holds of it, is of an earlier
day, do not exceed the days so far and the saves of superusers, all together. `OneThreadPerTask`
and `ConcurrencyRespected` hold as well.

`ReservationProofs` proves, for any users, workers, threads, kinds of machine
and bounds, that `ResInv` is inductive and with it `RowWhole`,
`PeriodRespected`, `PermanentGranted` and `HistoryDated`. The rows alone are not
inductive, since what is written is a copy read long ago; `CopiesSound` says of
every copy what the invariant says of the row, and `SoundLater` that it stays
true as days pass, stamps are given out and permissions are granted.

`HistoryComplete`, `MotdCurrent` and `DisplacedByRight` presuppose requests and
tasks that do not overlap. That is a hypothesis about behaviours in their
theorems, `[]OneAtATime`: no two processes have a job in hand at once, however
many there are and whichever takes the next. The copy in hand is then the
row as it is (`AllFresh`). `Accounts` says where a reservation that was begun is:
on the row, in the history, or in the job that will record it; and a similar
account is kept of the message of the day. A restart of the web server forgets a
job between its steps, so these two are proved until the first restart.

`VirtualMachinesProofs` proves, for any number of workers, machines, requests and
edits, that `VmInv` is inductive, and from it `OwnDomain`, `OwnDisk` and both
limits. `CountedRoom` says of a creation that nobody overlapped that what it found
when it compared still holds: there is room next to the other machines, and
`vm_max` is what it read; `AloneKeepsLimit` follows when it saves. For
`CreatedWithinLimit`, `NamesLow` says that no name a creation has chosen is above
the highest `vm_max` there was, and names are unique. That a row that was not
removed or renamed has its domain (`OwnDomain`) needs `InstalledStill`: a creation
that installed a domain and has not saved its row yet still has it, because libvirt
refuses a second domain of the name. `Neighbours` says that creations in progress
at once are recorded as such, and `BeforeDisk` and `AfterDisk` follow a disk image
from the moment its name was chosen to the moment its domain is installed.

`CatalogueProofs` proves, for any rows, users, permissions, workers and answers of
NetBox, that `CatInv` is inductive and implies all three properties of Catalogue.
`References` alone is nearly inductive, since the database checks a row when it
is saved and a deletion when it is carried out. What a deletion may take along is
decided earlier, so `CatInv` says of each deletion in progress: who asked for it
(`Asked`), that before it is collected it is about rows of one model (`Chosen1`)
and afterwards takes machines only with their roots (`TakesMachines`), and that
whatever now refers to a row it was checked for was saved after that check
(`MachinesLate`, `TypesLate`, `MakersLate`). `Reach` is the argument about
cascades: nothing leads to a system, enclosure, domain, architecture or
manufacturer by keys that cascade, so machines and device types are at most one
step from the row that was to be deleted, however long other chains are. The
hundred-odd operations that write nothing are instances of `Adds`, `Edits`,
`Deletes` and so on, for which one lemma each shows that they only give a worker
a sound job (`Moves`); `Write`, `Collect` and `Commit` have proofs of their own.

`AnsibleScanProofs` proves, for any machines, tasks and bounds, `EnvironmentCurrent`
and `OnlyVirtualHosted`. A thread that ends found the variable unset or has just
unset it, whoever had set it. The rule on hypervisors is inductive together with
the same rule for every copy that passed `Machine.save`'s validation.
`ScanTypeCorrect` needs that results and copies are of machines there are. For
`AloneScansOwn` the invariant is about the one scan that was not overlapped:
from its start on the variable names its task and its playbook inherited that,
so that its hosts and results are the task's own.

`MachinePartsProofs` proves, for any machines, addresses, devices and number of
jobs, `PartsInv`. The rules on remote power need to be known of jobs as well: one
that passed `RemotePower.save`'s checks has a device exactly if its fence agent
is of that kind (`Powered`), and the device is looked up once more by the
statement that saves the row. The types need that `suggest_host_ip` answers with
an address of the network or the loopback (`SuggestedAddress`).

`OnlyOverlapping` is about rules the database does not see to. A job that checked
one knows the rows as they were then; `OverInv` says of each job that what it
checked is true of all rows but the late ones (`Late`), those written by a job that
was in hand with it. It holds of a job that has just checked, and stays true while
others write, since whoever writes is in hand with it (`Paired`, `SoundLater`). A
row that is saved is then at odds with late rows only. For the address of an
addition this begins with the suggestion, which nobody used.

`CobblerProofs` proves, for any machines, devices, domains, servers, threads and
number of overlapping requests, that `CobInv` is inductive, and from it
`CobblerTypeOK` and `MachinesKept`. Systems are removed by names that were read
before. `Held` says that the name a request has read is that of its own machine or
of one saved since; `Leftover`, that what a cleanup has found so far is no active
machine's but those saved since or in a domain below another one of the server.
For the tasks, `Listed` says that the names read of a domain lack no active machine
of it, and `Spared` that what was found stale names none, in both cases but those
saved since. Nothing is assumed about how devices and domains are named: the
machines these could cost their systems are named in `MachinesKept`.

The assumptions are those named in the modules: disjoint sets of tasks, positive
limits, superusers among the users, a VM's period that is at most the form's, rows
that are consistent at the beginning (unique names of machines among them), a
network of more than two addresses, a server or none for every domain, and bounds
that are numbers.

Every invariant and every action property of the passing runs is stated by a
theorem. Model-checked only: the liveness properties `HighServed`,
`NormalServed`, `DailyFlagReleased`, `DuePickedUp`, `ExpiredReleased` and
`Repaired`, since the prover does not handle fairness, and the two violations,
which are counterexamples.

## Restrictions

* **TaskAdmin**: a daily task is edited in its enabled flag only.
* **Reservation**: one machine, which is not administrative; its holder is not
  deleted. (Deleting a user sets `reserved_by` to NULL and leaves the dates;
  Catalogue has that deletion, without the dates.)
* **Catalogue**: columns that are no references are left out. A task that
  compares several rows is a request per row. The save that fills in a NetBox
  number is part of the one that follows. `get_or_create_from_netbox` may leave
  two device types of one name (`data/models/devicetype.py:97`); names are not
  modelled.
* **Cobbler**: what a system says is a version of the machine's own columns and
  one of each part it is deployed with, a part being all of one kind. An edit in
  place is one step, so that one that fails halfway is not modelled. Which server
  a domain has does not change, and the servers' own rows are not deleted.
  `SyncCobblerDHCP` changes no system.
* **VirtualMachines**: one host, which is not renamed and is its machines' only
  hypervisor with names and disks of interest; what happens to a machine on another
  host is not followed. MAC addresses, memory and images are left out. The network
  interfaces of a new VM are not rows here; the first is never saved
  (`data/virtualization/__init__.py:95`).
* **AnsibleScan**: whether a system is virtual is fixed; the hardware columns
  follow the last result applied and are left out. `Start` includes setting the
  variable, which nothing separates from it that another thread could see.
* **MachineParts**: one of the two address families; `NetworkIp` is the first
  address of the network, as the field says (`data/models/domain.py:113`); agents
  of remote power are of the kind a row needs, and which kind they are is not
  edited.

## Not modelled, and why

* The page's own button to delete a VM: `check_permissions(key="host_id")` refuses
  every request (`frontend/decorators.py:39`), so that the code behind it is not
  reached.
* What checks find and reports say: pinging, port scans, SSH output, HTTP and XML
  are input; the models let them be anything where a decision depends on them.
* The configuration file of console servers and power switching: commands on
  other hosts that change no row.
* Lists, search, pages, and the parsing and formatting of the API: they read.
* Sign-on, tokens and sessions: Django's own. Adding and deleting users and
  groups is in Catalogue.
* Texts, recipients and the sending of mails: no property is about them.
* Migrations, set-up commands and containers: they run once, and alone.

## What could be next

A module of its own for the setup of a machine could tie the installation to the
reservation it was requested for; abstract specifications of VM hosting and
of reservations, as `TaskBoard` is one of the task manager, could be shown to be
implemented by the modules there are.
