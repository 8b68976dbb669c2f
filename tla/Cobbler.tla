------------------------------- MODULE Cobbler --------------------------------
(***************************************************************************)
(* The systems that are registered with the Cobbler servers, next to the   *)
(* machines and remote power devices that are in the database.  Several    *)
(* web requests at once save or delete machines, talk to a server          *)
(* themselves, and leave requests for tasks; two or more threads of the    *)
(* task manager execute the tasks.  Everybody reads rows first and writes  *)
(* rows or calls a server later, and nothing holds a row or a server while *)
(* they do.                                                                *)
(*                                                                         *)
(* A name is a pair of a host name and a domain.  What Cobbler is told     *)
(* about a machine is a pair: the columns whose change Machine.save()      *)
(* notices, and the parts it is deployed with, which are rows of their own *)
(* (interfaces, BMC, remote power, console).                               *)
(***************************************************************************)
EXTENDS Naturals, FiniteSets

CONSTANTS Machines, Devices,   \* rows that may exist
          Labels,              \* host names of machines
          DeviceNames,         \* what users name remote power devices
          Domains, Servers,
          NoServer,            \* a domain without a Cobbler server
          ServerOf,            \* the server of each domain
          Suffixes,            \* pairs of domains, the first a suffix of the second
          Chatty,              \* machines with remote power or a serial console
          Parts,               \* what a machine may be deployed with
          Cleared,             \* BMC, remote power, console: taken away when gone
          Null,
          InitialRow,          \* what is in the database at the beginning
          InitialDevice,
          Prune,               \* cobbler.prune.enabled without cobbler.prune.dryrun
          Threads,             \* of the task manager
          Submitted,           \* what users fill into the form of a machine
          MaxEvents            \* bound of the model: web requests and faults

VARIABLES row,        \* the machines
          parts,      \* per machine and part: its version, 0 if there is none
          device,     \* the remote power devices' names
          systems,    \* per server: the systems there are, and what they say
          up,         \* servers that answer
          queue,      \* single tasks that are in the database
          job,        \* per thread: the task being executed, as a set
          web,        \* the requests in progress
          events      \* how many requests and faults there were

vars == <<row, parts, device, systems, up, queue, job, web, events>>
-----------------------------------------------------------------------------
Name(r) == <<r.label, r.domain>>
Names == (Labels \X Domains) \union DeviceNames

Rows == [label : Labels, domain : Domains, active : BOOLEAN, config : Nat]
Forms == [label : Labels, domain : Domains, active : BOOLEAN, changes : BOOLEAN]

ASSUME RowsAssumption ==
    /\ InitialRow \in [Machines -> Rows \union {Null}]
    /\ \A m, x \in Machines :
          m # x /\ InitialRow[m] # Null /\ InitialRow[x] # Null
              => Name(InitialRow[m]) # Name(InitialRow[x])
    /\ InitialDevice \in [Devices -> DeviceNames \union {Null}]
    /\ Submitted \subseteq Forms
    /\ Null \notin Rows \union DeviceNames
    /\ MaxEvents \in Nat
    /\ Cleared \subseteq Parts

ASSUME DomainsAssumption ==
    /\ ServerOf \in [Domains -> Servers \union {NoServer}]
    /\ NoServer \notin Servers
    /\ \A n \in DeviceNames : n[2] \in Domains
    /\ \A d \in Domains : <<d, d>> \in Suffixes

(* fqdn.endswith("." + domain.name)                                        *)
WithinAny(d, n) == TRUE
Within(d, n) == <<d, n[2]>> \in Suffixes

Active(d) == {m \in Machines : row[m] # Null /\ row[m].domain = d /\ row[m].active}
Members(d) == {m \in Machines : row[m] # Null /\ row[m].domain = d}
Served(s) == {d \in Domains : ServerOf[d] = s}

(* The tasks.                                                              *)
UpdateCobblerMachine(d, m) == [kind |-> "machine", domain |-> d, of |-> m]
UpdateCobblerRemotePowerDevice(v) == [kind |-> "device", domain |-> Null, of |-> v]
RegenerateCobbler(ds) == [kind |-> "all", domain |-> ds, of |-> Null]

Enqueue(tasks) == queue' = queue \union tasks    \* TaskManager.add: get_or_create

Add(s, n, content) ==
    [systems EXCEPT ![s] = [x \in DOMAIN @ \union {n} |-> IF x = n THEN content ELSE @[x]]]
Remove(s, n) == [systems EXCEPT ![s] = [x \in DOMAIN @ \ {n} |-> @[x]]]

NoParts == [p \in Parts |-> 0]

Init ==
    /\ row = InitialRow
    /\ parts = [m \in Machines |-> [p \in Parts |-> IF row[m] = Null THEN 0 ELSE 1]]
    /\ device = InitialDevice
    /\ systems = [s \in Servers |-> [n \in {} |-> Null]]
    /\ up = Servers
    /\ queue = {}
    /\ job = [t \in Threads |-> {}]
    /\ web = {}
    /\ events = 0
-----------------------------------------------------------------------------
(* Web requests.  A request remembers the row it has read, the name and    *)
(* the server of the system it may remove, and what it has listed.  (As    *)
(* history, requests and jobs note the machines others saved since they    *)
(* read their rows.)                                                       *)
Asked == events < MaxEvents /\ events' = events + 1

Request(kind, step, x, name, s) ==
    [id |-> events + 1, kind |-> kind, step |-> step, of |-> x, name |-> name,
     server |-> s, old |-> Null, new |-> Null, domains |-> {}, listed |-> {},
     names |-> {}, touched |-> {}]

Begin(r) == Asked /\ web' = web \union {r}
Go(r, k) == web' = (web \ {r}) \union {k}
Finish(r) == web' = web \ {r}

Noting(m, group) == {[x EXCEPT !.touched = @ \union {m}] : x \in group}
Pruning(j) == j.phase \in {"names", "prune"}

(* CobblerServer.remove() and remove_by_name(), if the server answers.     *)
Unregister(r) ==
    systems' = IF r.server \in up THEN Remove(r.server, r.name) ELSE systems

(* Machine.save() writes a row, whatever was read for it before: the whole *)
(* row, whether or not there still is one.                                 *)
Free(m, s) == \A x \in Machines \ {m} : row[x] # Null => Name(row[x]) # Name(s)

Filled(s, config) ==
    [label |-> s.label, domain |-> s.domain, active |-> s.active, config |-> config]

Write(m, new) ==
    /\ row' = [row EXCEPT ![m] = new]
    /\ job' = [t \in Threads |-> {j \in job[t] : ~Pruning(j)}
                                  \union Noting(m, {j \in job[t] : Pruning(j)})]
    /\ UNCHANGED <<parts, device, systems, up, queue>>

(* The interface of a new machine is not there yet, so that nothing is     *)
(* noticed.                                                                *)
AddMachine ==
    \E m \in Machines, s \in Submitted :
        /\ row[m] = Null /\ Free(m, s)
        /\ Asked
        /\ Write(m, Filled(s, events + 1))
        /\ web' = Noting(m, web)

BeginEdit ==
    \E m \in Machines :
        /\ row[m] # Null
        /\ Begin([Request("edit", "save", m, Name(row[m]), ServerOf[row[m].domain])
                    EXCEPT !.old = row[m]])
        /\ UNCHANGED <<row, parts, device, systems, up, queue, job>>

SaveMachine ==
    \E r \in web, s \in Submitted :
        /\ r.step = "save" /\ Free(r.of, s)
        /\ LET new == Filled(s, IF s.changes THEN r.id ELSE r.old.config)
           IN  /\ Write(r.of, new)
               /\ web' = Noting(r.of, web \ {r})
                            \union {[r EXCEPT !.new = new,
                                             !.step = IF new.domain = r.old.domain
                                                      THEN "notify" ELSE "move"]}
        /\ events' = events

(* The row saved is compared with the one that was read.  In another       *)
(* domain the machine is taken off the old server, unless that fails ...   *)
MoveMachine ==
    \E r \in web :
        /\ r.step = "move"
        /\ Unregister(r)
        /\ Go(r, [r EXCEPT !.step = "notify"])
        /\ UNCHANGED <<row, parts, device, up, queue, job, events>>

(* ... and is put on the new one, unless it is its server.  In the same    *)
(* domain, some changes are noticed.                                       *)
Noticed(m, old, new) ==
    m \in Chatty \/ Name(old) # Name(new) \/ old.config # new.config

Follow ==
    \E r \in web :
        /\ r.step = "notify"
        /\ Finish(r)
        /\ LET own == r.old.domain # r.new.domain /\ ServerOf[r.new.domain] = r.of
           IN  Enqueue(IF Noticed(r.of, r.old, r.new) /\ ~own
                       THEN {UpdateCobblerMachine(r.new.domain, r.of)} ELSE {})
        /\ UNCHANGED <<row, parts, device, systems, up, job, events>>

(* Interfaces, BMC, remote power and console are edited, added and removed *)
(* without a word to Cobbler.                                              *)
EditParts ==
    \E m \in Machines, p \in Parts :
        /\ row[m] # Null
        /\ Asked
        /\ \E version \in {0, events + 2} \ {parts[m][p]} :
               parts' = [parts EXCEPT ![m][p] = version]
        /\ UNCHANGED <<row, device, systems, up, queue, job, web>>

(* A deletion reads the row, removes the system by the name it had, if the *)
(* server answers, and then deletes the row by its key.                    *)
BeginDelete ==
    \E m \in Machines :
        /\ row[m] # Null /\ m \notin Servers      \* the servers stay as they are
        /\ Begin(Request("delete", "remove", m, Name(row[m]), ServerOf[row[m].domain]))
        /\ UNCHANGED <<row, parts, device, systems, up, queue, job>>

BeginDeleteDevice ==
    \E v \in Devices :
        /\ device[v] # Null
        /\ Begin(Request("device", "remove", v, device[v], ServerOf[device[v][2]]))
        /\ UNCHANGED <<row, parts, device, systems, up, queue, job>>

PreDelete ==
    \E r \in web :
        /\ r.step = "remove"
        /\ Unregister(r)
        /\ Go(r, [r EXCEPT !.step = "delete"])
        /\ UNCHANGED <<row, parts, device, up, queue, job, events>>

DeleteMachine ==
    \E r \in web :
        /\ r.kind = "delete" /\ r.step = "delete"
        /\ row' = [row EXCEPT ![r.of] = Null]
        /\ parts' = [parts EXCEPT ![r.of] = NoParts]
        /\ Finish(r)
        /\ UNCHANGED <<device, systems, up, queue, job, events>>

DeleteDevice ==
    \E r \in web :
        /\ r.kind = "device" /\ r.step = "delete"
        /\ device' = [device EXCEPT ![r.of] = Null]
        /\ Finish(r)
        /\ UNCHANGED <<row, parts, systems, up, queue, job, events>>

SaveDevice ==
    \E v \in Devices, n \in DeviceNames :
        /\ Asked
        /\ \A x \in Devices \ {v} : device[x] # n
        /\ device' = [device EXCEPT ![v] = n]
        /\ Enqueue({UpdateCobblerRemotePowerDevice(v)})
        /\ UNCHANGED <<row, parts, systems, up, job, web>>

(* The cleanup page lists the systems of a server, reads the names of the  *)
(* active machines, one domain of the server after the other, and removes  *)
(* what is left over and was selected, one system after the other.         *)
BeginCleanup ==
    \E s \in up :
        /\ Served(s) # {}
        /\ Begin([Request("cleanup", "compare", Null, Null, s)
                    EXCEPT !.domains = Served(s), !.listed = DOMAIN systems[s]])
        /\ UNCHANGED <<row, parts, device, systems, up, queue, job>>

Unscoped(r) == {n \in r.listed : ~\E d \in Served(r.server) : Within(d, n)}
Extra(d, listed) ==
    {n \in listed : Within(d, n) /\ ~\E m \in Active(d) : Name(row[m]) = n}

CollectDiff ==
    \E r \in web :
        /\ r.step = "compare"
        /\ \/ \E d \in r.domains :
                 Go(r, [r EXCEPT !.domains = @ \ {d},
                                 !.names = @ \union Extra(d, r.listed)])
           \/ /\ r.domains = {}
              /\ Go(r, [r EXCEPT !.step = "clean", !.listed = {},
                                 !.names = @ \union Unscoped(r)])
        /\ UNCHANGED <<row, parts, device, systems, up, queue, job, events>>

CobblerCleanup ==
    \E r \in web :
        /\ r.step = "clean"
        /\ \/ /\ r.server \in up
              /\ \E n \in r.names : /\ systems' = Remove(r.server, n)
                                     /\ Go(r, [r EXCEPT !.names = @ \ {n}])
           \/ Finish(r) /\ systems' = systems    \* the rest is not selected, or a fault
        /\ UNCHANGED <<row, parts, device, up, queue, job, events>>

(* A form that is not valid, or a worker that is killed.                   *)
Abandon ==
    \E r \in web :
        /\ Finish(r)
        /\ UNCHANGED <<row, parts, device, systems, up, queue, job, events>>

(* Pages and commands that request a regeneration: of everything, of the   *)
(* domains of a server, of one machine, of one device.                     *)
RegenerateAll ==
    /\ Enqueue({RegenerateCobbler(Domains)})
    /\ UNCHANGED <<row, parts, device, systems, up, job, web, events>>

Ask(tasks) ==
    /\ Asked
    /\ Enqueue(tasks)
    /\ UNCHANGED <<row, parts, device, systems, up, job, web>>

RegenerateDomain == \E s \in Servers : Ask({RegenerateCobbler({d}) : d \in Served(s)})

RegenerateMachine ==
    \E m \in Machines :
        row[m] # Null /\ Ask({UpdateCobblerMachine(row[m].domain, m)})

RegenerateDevice ==
    \E v \in Devices : device[v] # Null /\ Ask({UpdateCobblerRemotePowerDevice(v)})

-----------------------------------------------------------------------------
(* Threads of the task manager.                                            *)
Do(t, j) == job' = [job EXCEPT ![t] = {j}] /\ queue' = queue

(* The row of a task goes when its thread has ended.                       *)
End(t, j) == job' = [job EXCEPT ![t] = {}] /\ queue' = queue \ {j.task}

(* Domains without a server are passed over.                               *)
WithServer(ds) == {d \in ds : ServerOf[d] # NoServer}

TakenOrNot(task) == TRUE
Untaken(task) == \A t \in Threads : \A j \in job[t] : j.task # task

Start(t) ==
    /\ job[t] = {}
    /\ \E task \in {x \in queue : Untaken(x)} :
          Do(t, [task |-> task, phase |-> "begin",
                 domains |-> IF task.kind = "all" THEN WithServer(task.domain) ELSE {},
                 domain |-> Null, left |-> {}, current |-> {}, known |-> FALSE,
                 names |-> {}, touched |-> {}])
    /\ UNCHANGED <<row, parts, device, systems, up, web, events>>

(* Reading: a task for a machine or a device that is gone, or a domain     *)
(* without a server, ends.                                                 *)
Read(m) == [of |-> m, name |-> Name(row[m]), config |-> row[m].config]
ReadDevice(v) == [of |-> v, name |-> device[v], config |-> 0]

BeginUpdate(t) ==
    \E j \in job[t] :
        /\ j.phase = "begin" /\ j.task.kind # "all"
        /\ LET found == IF j.task.kind = "machine"
                        THEN {Read(m) : m \in {x \in {j.task.of} : row[x] # Null}}
                        ELSE {ReadDevice(v) : v \in {x \in {j.task.of} : device[x] # Null}}
               d == IF j.task.kind = "machine" \/ found = {} THEN j.task.domain
                    ELSE device[j.task.of][2]
           IN  IF found = {} \/ ServerOf[d] = NoServer
               THEN End(t, j)
               ELSE Do(t, [j EXCEPT !.phase = "list", !.domain = d, !.left = found])
        /\ UNCHANGED <<row, parts, device, systems, up, web, events>>

BeginDomain(t) ==
    \E j \in job[t] :
        /\ j.phase = "begin" /\ j.task.kind = "all"
        /\ IF j.domains = {} THEN End(t, j)
           ELSE \E d \in j.domains :
                    LET rest == [j EXCEPT !.domains = @ \ {d}]
                    IN  Do(t, IF Members(d) = {} THEN rest
                              ELSE [rest EXCEPT !.phase = "list", !.domain = d,
                                                !.left = {Read(m) : m \in Active(d)}])
        /\ UNCHANGED <<row, parts, device, systems, up, web, events>>

(* An exception ends what is done for this domain, or this update.         *)
GiveUp(t, j) ==
    IF j.task.kind = "all"
    THEN Do(t, [j EXCEPT !.phase = "begin", !.domain = Null, !.left = {}, !.current = {},
                       !.known = FALSE, !.names = {}, !.touched = {}])
    ELSE End(t, j)

(* update_or_add(): is the system there already?                           *)
List(t) ==
    \E j \in job[t] :
        /\ j.phase = "list" /\ j.left # {}
        /\ IF ServerOf[j.domain] \notin up THEN GiveUp(t, j)
           ELSE \E e \in j.left :
                    Do(t, [j EXCEPT !.phase = "deploy", !.current = {e},
                                    !.known = e.name \in DOMAIN systems[ServerOf[j.domain]]])
        /\ UNCHANGED <<row, parts, device, systems, up, web, events>>

(* add_machine(): edited if it was there, else added as new; a system that *)
(* went, or came, in between is a fault, which is logged.  Editing writes  *)
(* what the machine has and takes away some of what it has not: an         *)
(* interface, a boot server or a power option it no longer has stays.      *)
Told(e, known, before) ==
    <<e.config,
      [p \in Parts |->
         IF e.of \in Machines /\ parts[e.of][p] # 0 THEN parts[e.of][p]
         ELSE IF known /\ (e.of \in Machines => p \notin Cleared) THEN before[2][p] ELSE 0]>>

Deploy(t) ==
    \E j \in job[t] :
        /\ j.phase = "deploy"
        /\ ServerOf[j.domain] \in up
        /\ \E e \in j.current :
              LET s == ServerOf[j.domain]
              IN  /\ systems' = IF j.known = (e.name \in DOMAIN systems[s])
                                THEN Add(s, e.name, Told(e, j.known, systems[s][e.name]))
                                ELSE systems
                  /\ Do(t, [j EXCEPT !.phase = "list", !.left = @ \ {e}, !.current = {},
                                     !.known = FALSE])
        /\ UNCHANGED <<row, parts, device, up, web, events>>

(* Something else goes wrong: no profile, no credentials, no answer.       *)
DeployFails(t) ==
    \E j \in job[t] :
        /\ j.phase = "deploy"
        /\ \/ ServerOf[j.domain] \notin up /\ events' = events
           \/ Asked
        /\ GiveUp(t, j)
        /\ UNCHANGED <<row, parts, device, systems, up, web>>

(* When all are deployed, an update is over; a regeneration goes on to the *)
(* stale systems of the domain, by the names of the machines as they are   *)
(* now.  (Of the remote power devices it deploys none: their query         *)
(* compares the name of a device with the key of the domain.)              *)
Deployed(t) ==
    \E j \in job[t] :
        /\ j.phase = "list" /\ j.left = {}
        /\ IF j.task.kind # "all" THEN End(t, j)
           ELSE IF ~Prune THEN GiveUp(t, j)
           ELSE Do(t, [j EXCEPT !.phase = "names", !.touched = {},
                                !.names = {Name(row[m]) : m \in Active(j.domain)}])
        /\ UNCHANGED <<row, parts, device, systems, up, web, events>>

NeverStale(d, names) == {}
Stale(d, names) == {n \in DOMAIN systems[ServerOf[d]] : Within(d, n) /\ n \notin names}

PruneStale(t) ==
    \E j \in job[t] :
        /\ j.phase = "names"
        /\ IF ServerOf[j.domain] \notin up THEN GiveUp(t, j)
           ELSE Do(t, [j EXCEPT !.phase = "prune", !.names = Stale(j.domain, j.names)])
        /\ UNCHANGED <<row, parts, device, systems, up, web, events>>

RemoveByName(t) ==
    \E j \in job[t] :
        /\ j.phase = "prune"
        /\ IF j.names = {} \/ ServerOf[j.domain] \notin up
           THEN GiveUp(t, j) /\ systems' = systems
           ELSE \E n \in j.names : /\ systems' = Remove(ServerOf[j.domain], n)
                                    /\ Do(t, [j EXCEPT !.names = @ \ {n}])
        /\ UNCHANGED <<row, parts, device, up, web, events>>

ServerStops ==
    \E s \in up :
        /\ Asked
        /\ up' = up \ {s}
        /\ UNCHANGED <<row, parts, device, systems, queue, job, web>>

ServerStarts ==
    \E s \in Servers \ up :
        /\ up' = up \union {s}
        /\ UNCHANGED <<row, parts, device, systems, queue, job, web, events>>

(* What a request does that has been begun.                                *)
Continue ==
    \/ SaveMachine \/ MoveMachine \/ Follow \/ PreDelete \/ DeleteMachine
    \/ DeleteDevice \/ CollectDiff \/ CobblerCleanup

WebStep ==
    \/ AddMachine \/ BeginEdit \/ EditParts \/ BeginDelete \/ BeginDeleteDevice
    \/ SaveDevice \/ BeginCleanup \/ Continue \/ Abandon
    \/ RegenerateDomain \/ RegenerateMachine \/ RegenerateDevice

Execute(t) ==
    \/ Start(t) \/ BeginUpdate(t) \/ BeginDomain(t) \/ List(t) \/ Deploy(t)
    \/ DeployFails(t) \/ Deployed(t) \/ PruneStale(t) \/ RemoveByName(t)

Next ==
    \/ WebStep \/ RegenerateAll \/ ServerStops \/ ServerStarts
    \/ \E t \in Threads : Execute(t)

Spec == Init /\ [][Next]_vars

(* Requests that have been begun go on, and so do the threads of the task  *)
(* manager.                                                                *)
FairSpec ==
    /\ Spec
    /\ WF_vars(Continue)
    /\ \A t \in Threads : WF_vars(Execute(t))
-----------------------------------------------------------------------------
(* Properties.                                                             *)

(* Tasks are executed by one thread at a time and keep their row until it  *)
(* ends, and a thread that talks to a server knows which.                  *)
CobblerTypeOK ==
    /\ \A m \in Machines : row[m] # Null => Name(row[m]) \in Names /\ row[m].active \in BOOLEAN
    /\ \A s \in Servers : DOMAIN systems[s] \subseteq Names
    /\ \A t, x \in Threads : \A j \in job[t], k \in job[x] :
          /\ j.task \in queue
          /\ t # x => j.task # k.task
          /\ j.phase # "begin" => ServerOf[j.domain] \in Servers

(* Whoever takes the system of an active machine away from the server of   *)
(* its domain is deleting that machine, or acts on rows that are out of    *)
(* date, because somebody saved the machine after they were read; unless   *)
(* the name belongs to a device as well, which is being deleted, or it     *)
(* ends like a domain above the machine's own, which is cleaned or pruned. *)
Lost(m) ==
    LET s == ServerOf[row[m].domain]
    IN  /\ s # NoServer
        /\ Name(row[m]) \in DOMAIN systems[s]
        /\ Name(row[m]) \notin DOMAIN systems'[s]

Below(m, d) == d # row[m].domain /\ <<d, row[m].domain>> \in Suffixes

ByRequest(m, r) ==
    \/ m \in r.touched
    \/ r.kind = "delete" /\ r.of = m
    \/ r.kind = "device" /\ r.name = Name(row[m])
    \/ r.kind = "cleanup" /\ \E d \in Served(r.server) : Below(m, d)

ByJob(m, j) == j.phase = "prune" /\ (m \in j.touched \/ Below(m, j.domain))

MachinesKept ==
    [][\A m \in Machines : row[m] # Null /\ row[m].active /\ Lost(m) =>
          \/ \E r \in web \ web' : ByRequest(m, r)
          \/ \E t \in Threads : \E j \in job[t] \ job'[t] : ByJob(m, j)]_vars

(* prune_stale() is said to prune stale machines.  The system of a remote  *)
(* power device that is in the database is not one.                        *)
PruneSparesDevices ==
    [][\A t \in Threads : \A j \in job[t] : \A v \in Devices :
         (j.phase = "prune" /\ device[v] \in j.names /\ device'[v] = device[v])
             => (device[v] \in DOMAIN systems[ServerOf[j.domain]]
                 => device[v] \in DOMAIN systems'[ServerOf[j.domain]])]_vars

(* Updates get lost, overtake each other, fail, and are written from old   *)
(* copies; but if everything is regenerated again and again and servers    *)
(* stay up, then in every domain that has machines and is not below        *)
(* another domain of its server, the systems end up as the active machines *)
(* are in the database: each there, with every part the machine has and no *)
(* BMC, power or console it has not; and nothing else but devices.         *)
InSync ==
    \A d \in {x \in Domains : ServerOf[x] # NoServer /\ Members(x) # {}} :
        LET deployed == systems[ServerOf[d]]
            apart == \A e \in Served(ServerOf[d]) : e # d => <<e, d>> \notin Suffixes
        IN  apart =>
            /\ \A m \in Active(d) :
                  /\ Name(row[m]) \in DOMAIN deployed
                  /\ LET told == deployed[Name(row[m])]
                     IN  /\ told[1] = row[m].config
                         /\ \A p \in Parts :
                               parts[m][p] # 0 \/ p \in Cleared => told[2][p] = parts[m][p]
            /\ \A n \in DOMAIN deployed : n[2] = d =>
                  \/ \E m \in Active(d) : n = Name(row[m])
                  \/ \E v \in Devices : n = device[v]

Repaired ==
    ([]<>(RegenerateCobbler(Domains) \in queue) /\ <>[](up = Servers)) => <>[]InSync
=============================================================================
