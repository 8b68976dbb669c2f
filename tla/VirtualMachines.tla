--------------------------- MODULE VirtualMachines --------------------------
(***************************************************************************)
(* The virtual machines of one host.  Three things have to agree that      *)
(* nothing keeps together: the rows of the database, the domains libvirt   *)
(* knows, and the disk images in the directory of the host.  A request to  *)
(* create or to remove a machine is a series of SSH commands and database  *)
(* statements, any of which may fail or be the last one before the worker  *)
(* is killed, and requests overlap.  Superusers meanwhile add machines     *)
(* with this host as hypervisor, rename machines, move them to the host or *)
(* away from it, and change how many it may have.                          *)
(*                                                                         *)
(* A creation has a number, which also is the primary key of its row, and  *)
(* so has a machine that is added by hand.  A virtual machine is named     *)
(* after its host: its name is the number in <host>-<number>.  Numbers     *)
(* above vm_max stand for all other names.                                 *)
(***************************************************************************)
EXTENDS Naturals, FiniteSets

CONSTANTS Workers,      \* web and API workers with a request in progress
          VmMax,        \* Machine.vm_max of the host to begin with
          MaxNames,     \* bound of the model: names
          MaxMachines,  \* bound of the model: requests to create or to add
          MaxRemoves,   \* bound of the model: requests to remove
          MaxEdits      \* bound of the model: edits of machines and the host

ASSUME VmAssumption ==
    /\ MaxNames \in Nat /\ VmMax \in 0..MaxNames
    /\ MaxMachines \in Nat /\ MaxRemoves \in Nat /\ MaxEdits \in Nat

VARIABLES
    rows,         \* the machines, here those whose hypervisor is this host
    vmMax,        \* Machine.vm_max of the host
    domain,       \* per name: the creation that installed the domain, or 0
    disk,         \* per name: the creation that wrote the disk image, or 0
    job,          \* per worker: the request in progress, as a set
    made,         \* how many machines were begun or added
    removes,      \* how many removals were begun
    edits,        \* how many edits were begun
    removed,      \* history: creations whose domain was destroyed
    edited,       \* history: machines added by hand or renamed
    together,     \* history: pairs of creations that were in progress at once
    crossed,      \* history: creations in progress when a superuser wrote
    most          \* history: the highest vm_max there was

vars == <<rows, vmMax, domain, disk, job, made, removes, edits,
          removed, edited, together, crossed, most>>
host == <<domain, disk>>
counters == <<made, removes, edits>>
byHand == <<vmMax, edited, crossed, most>>

Names == 1..MaxNames
Limits == 0..MaxNames
Keys == 1..MaxMachines
Row == [name : Names, by : Keys, here : BOOLEAN]

Creating == {"count", "rows", "domains", "disk", "install", "save", "reserve"}
Removing == {"destroy", "delete"}
Editing == {"attach", "detach"}
Steps == Creating \union Removing \union Editing
Nameless == {"count", "rows", "domains"}
Job == [step : Steps, by : Keys, name : 0..MaxNames, seen : SUBSET Names,
        limit : Limits]

Init ==
    /\ rows = {} /\ vmMax = VmMax
    /\ domain = [n \in Names |-> 0]
    /\ disk = [n \in Names |-> 0]
    /\ job = [w \in Workers |-> {}]
    /\ made = 0 /\ removes = 0 /\ edits = 0
    /\ removed = {} /\ edited = {} /\ together = {} /\ crossed = {} /\ most = VmMax
-----------------------------------------------------------------------------
Hosted == {r \in rows : r.here}

Begin(w, j) == job[w] = {} /\ job' = [job EXCEPT ![w] = {j}]
Go(w, j) == job' = [job EXCEPT ![w] = {j}]
End(w) == job' = [job EXCEPT ![w] = {}]

Request(step, by, name, seen, limit) ==
    [step |-> step, by |-> by, name |-> name, seen |-> seen, limit |-> limit]
To(j, step) == Request(step, j.by, j.name, j.seen, j.limit)

At(w, step) == {j \in job[w] : j.step = step}
InProgress == {j \in UNION {job[w] : w \in Workers} : j.step \in Creating}

(* save() of the copy j of a machine: the row with its key is overwritten, *)
(* or inserted if there is none, and no other row may have its name.       *)
Unique(j) == \A r \in rows : r.name = j.name => r.by = j.by
Stored(j, here) ==
    {r \in rows : r.by # j.by} \union {[name |-> j.name, by |-> j.by, here |-> here]}

(* The worker is killed, or an exception ends the request.  Before create  *)
(* has returned, nobody undoes what it did.                                *)
Fail(w) ==
    /\ job[w] # {}
    /\ End(w)
    /\ UNCHANGED <<rows, host, counters, byHand, removed, together>>

(* virtualization_add and AddVMCommandPost: the host is read, with vm_max, *)
(* and serves the whole request.                                           *)
BeginCreate(w) ==
    /\ made < MaxMachines
    /\ Begin(w, Request("count", made + 1, 0, {}, vmMax))
    /\ made' = made + 1
    /\ together' = together \union {{made + 1, j.by} : j \in InProgress}
    /\ UNCHANGED <<rows, host, removes, edits, byHand, removed>>

(* _create compares the number of machines.                                *)
HasRoomOrIsFull(j) == Cardinality(Hosted) <= j.limit
HasRoom(j) == Cardinality(Hosted) < j.limit

Count(w) ==
    /\ \E j \in At(w, "count") : IF HasRoom(j) THEN Go(w, To(j, "rows")) ELSE End(w)
    /\ UNCHANGED <<rows, host, counters, byHand, removed, together>>

(* generate_hostname: the machines of the host, then virsh list --all, and *)
(* the first name in neither.  seen are the names found occupied.          *)
ReadRows(w) ==
    /\ \E j \in At(w, "rows") :
          Go(w, Request("domains", j.by, j.name, {r.name : r \in Hosted}, j.limit))
    /\ UNCHANGED <<rows, host, counters, byHand, removed, together>>

OccupiedByRows(j) == j.seen
Occupied(j) == j.seen \union {n \in Names : domain[n] # 0}

FreeFromZero(j) == (0..j.limit) \ Occupied(j)
FreeOneMore(j) == {n \in Names : n <= j.limit + 1} \ Occupied(j)
Free(j) == (1..j.limit) \ Occupied(j)

ReadDomains(w) ==
    /\ \E j \in At(w, "domains") :
          IF Free(j) = {} THEN End(w)
          ELSE \E n \in Free(j) :
                  /\ \A m \in Free(j) : n <= m
                  /\ Go(w, Request("disk", j.by, n, {}, j.limit))
    /\ UNCHANGED <<rows, host, counters, byHand, removed, together>>

(* copy_image, or delete_disk_image so that virt-install makes a new one.  *)
WriteDisk(w) ==
    /\ \E j \in At(w, "disk") :
          /\ disk' = [disk EXCEPT ![j.name] = j.by]
          /\ Go(w, To(j, "install"))
    /\ UNCHANGED <<rows, domain, counters, byHand, removed, together>>

(* virt-install, which refuses a name that libvirt knows: a dry run, then  *)
(* in earnest.                                                             *)
DryRun(w) ==
    /\ \E j \in At(w, "install") :
          IF domain[j.name] = 0 THEN Go(w, To(j, "save")) ELSE End(w)
    /\ UNCHANGED <<rows, host, counters, byHand, removed, together>>

Install(w) ==
    /\ \E j \in At(w, "install") :
          IF domain[j.name] = 0
          THEN /\ domain' = [domain EXCEPT ![j.name] = j.by]
               /\ Go(w, To(j, "save"))
          ELSE End(w) /\ UNCHANGED domain
    /\ UNCHANGED <<rows, disk, counters, byHand, removed, together>>

(* vm.save() and what belongs to the machine.                              *)
SaveRow(w) ==
    /\ \E j \in At(w, "save") :
          IF Unique(j)
          THEN rows' = Stored(j, TRUE) /\ Go(w, To(j, "reserve"))
          ELSE End(w) /\ UNCHANGED rows
    /\ UNCHANGED <<host, counters, byHand, removed, together>>

(* vm.reserve() saves the machine again, all of it: what was edited since  *)
(* is undone, and a row that is gone by now comes back.  An exception      *)
(* makes the page delete the machine; the command leaves it (Fail).        *)
Reserve(w) ==
    /\ \E j \in At(w, "reserve") : Unique(j) /\ rows' = Stored(j, TRUE)
    /\ End(w)
    /\ UNCHANGED <<host, counters, byHand, removed, together>>

ReserveFails(w) ==
    /\ \E j \in At(w, "reserve") : Go(w, To(j, "destroy"))
    /\ UNCHANGED <<rows, host, counters, byHand, removed, together>>

(* DeleteMachineCommand, or the release of a machine of a host with        *)
(* vm_auto_delete: the row is read, machine_pre_delete removes the domain  *)
(* by its name from the hypervisor the row names, if that can be reached,  *)
(* and the row with the primary key that was read goes.                    *)
BeginRemove(w) ==
    /\ removes < MaxRemoves
    /\ \E r \in rows :
          Begin(w, Request(IF r.here THEN "destroy" ELSE "delete", r.by, r.name, {}, 0))
    /\ removes' = removes + 1
    /\ UNCHANGED <<rows, host, made, edits, byHand, removed, together>>

Destroy(w) ==
    /\ \E j \in At(w, "destroy") :
          /\ \/ /\ domain' = [domain EXCEPT ![j.name] = 0]
                /\ removed' = removed \union ({domain[j.name]} \ {0})
             \/ UNCHANGED <<domain, removed>>
          /\ Go(w, To(j, "delete"))
    /\ UNCHANGED <<rows, disk, counters, byHand, together>>

DeleteRow(w) ==
    /\ \E j \in At(w, "delete") : rows' = {r \in rows : r.by # j.by}
    /\ End(w)
    /\ UNCHANGED <<host, counters, byHand, removed, together>>

(* What a superuser writes crosses the creations in progress.              *)
Crossing == crossed' = crossed \union {j.by : j \in InProgress}

(* AddMachineCommand: a machine with any name, whose hypervisor may be     *)
(* this host.  vm_max is not compared.                                     *)
AddMachine ==
    /\ made < MaxMachines
    /\ \E n \in Names, here \in BOOLEAN :
          LET m == Request("attach", made + 1, n, {}, 0)
          IN  Unique(m) /\ rows' = Stored(m, here)
    /\ made' = made + 1
    /\ edited' = edited \union {made + 1}
    /\ Crossing
    /\ UNCHANGED <<host, job, removes, edits, vmMax, most, removed, together>>

(* MachineDetailedEdit, or any other save of a whole row: the machine is   *)
(* read, with its name in seen, and later saved with the name and the      *)
(* hypervisor of the form.                                                 *)
BeginEdit(w) ==
    /\ edits < MaxEdits
    /\ \E r \in rows, n \in Names, step \in Editing :
          Begin(w, Request(step, r.by, n, {r.name}, 0))
    /\ edits' = edits + 1
    /\ UNCHANGED <<rows, host, made, removes, byHand, removed, together>>

SaveEdit(w) ==
    /\ \E step \in Editing : \E j \in At(w, step) :
          /\ Unique(j)
          /\ rows' = Stored(j, step = "attach")
          /\ edited' = edited \union (IF j.name \in j.seen THEN {} ELSE {j.by})
    /\ End(w)
    /\ Crossing
    /\ UNCHANGED <<host, counters, vmMax, most, removed, together>>

(* The same page for the host itself.                                      *)
EditHost ==
    /\ edits < MaxEdits
    /\ \E n \in Limits : vmMax' = n /\ most' = IF most < n THEN n ELSE most
    /\ edits' = edits + 1
    /\ Crossing
    /\ UNCHANGED <<rows, host, job, made, removes, edited, removed, together>>

Create(w) ==
    \/ BeginCreate(w) \/ Count(w) \/ ReadRows(w) \/ ReadDomains(w) \/ WriteDisk(w)
    \/ Install(w) \/ SaveRow(w) \/ Reserve(w) \/ ReserveFails(w)

Remove(w) == BeginRemove(w) \/ Destroy(w) \/ DeleteRow(w)

Edit(w) == BeginEdit(w) \/ SaveEdit(w)

Next ==
    \/ \E w \in Workers : Create(w) \/ Remove(w) \/ Edit(w) \/ Fail(w)
    \/ AddMachine
    \/ EditHost

Spec == Init /\ [][Next]_vars
-----------------------------------------------------------------------------
(* Types; a worker has one request at a time, which has a name of the      *)
(* host's from when on it needs one.                                       *)
VmTypeOK ==
    /\ rows \subseteq Row /\ IsFiniteSet(rows)
    /\ vmMax \in Limits /\ most \in Limits
    /\ domain \in [Names -> Keys \union {0}]
    /\ disk \in [Names -> Keys \union {0}]
    /\ job \in [Workers -> SUBSET Job]
    /\ \A w \in Workers : \A j, k \in job[w] : j = k
    /\ \A w \in Workers : \A j \in job[w] : j.name = 0 <=> j.step \in Nameless
    /\ made \in 0..MaxMachines /\ removes \in 0..MaxRemoves /\ edits \in 0..MaxEdits
    /\ removed \subseteq Keys /\ edited \subseteq Keys

(* Nobody else had to do with the machines while the creation c was in     *)
(* progress, unless to remove some.                                        *)
Alone(c) == c \notin crossed /\ \A pair \in together : c \notin pair

(* A creation that no other creation and no superuser overlapped never     *)
(* takes the host above vm_max, however many machines were added by hand   *)
(* and whatever their names, although it compares long before it saves,    *)
(* saves twice and machines are removed meanwhile (_create, create and     *)
(* reserve).  Overlapping ones do: with one machine added by hand and      *)
(* vm_max 2, two creations both find room.                                 *)
AloneKeepsLimit ==
    [][\A w \in Workers : \A j \in job[w] :
          j.step \in Creating /\ Alone(j.by) /\ job'[w] # job[w] =>
              Cardinality(Hosted') <= vmMax \/ Hosted' \subseteq Hosted]_vars

(* Of the machines that were created and never renamed there are never     *)
(* more than the highest vm_max, although any number of requests may pass  *)
(* the comparison at once and rows come back from old copies: what keeps   *)
(* this limit is that generate_hostname stops at the vm_max the request    *)
(* has read, and that names are unique.  Machines that were added by hand  *)
(* or renamed come on top.                                                 *)
CreatedWithinLimit == Cardinality({r \in rows : r.by \notin edited}) <= most

(* The domain of a machine is the one that was installed for it, whoever   *)
(* else creates or fails to create machines and however often its row is   *)
(* saved or comes back: it is lost only by a removal of a machine of that  *)
(* name, possibly of another one, and not known by its name any more only  *)
(* after the machine was renamed.                                          *)
OwnDomain == \A r \in rows : r.by \notin removed \union edited => domain[r.name] = r.by

(* The disk of a domain was written by the request that installed it, or   *)
(* by one that was in progress at the same time: no request overwrites a   *)
(* disk of a machine it could have known about, not even of a domain that  *)
(* a failed request left behind without a row (generate_hostname), or that *)
(* was moved to another hypervisor or renamed.                             *)
OwnDisk ==
    \A n \in Names :
        domain[n] # 0 => disk[n] = domain[n] \/ {disk[n], domain[n]} \in together

(* The strengthening.  A name belongs to one row; who is about to save a   *)
(* row under the name it was created with still has its domain unless that *)
(* was removed; no such name is above the highest vm_max; requests of two  *)
(* workers know of each other; and whose disk is being written or was.     *)
UniqueNames == \A r, s \in rows : r.name = s.name => r = s

Keeps(j) == j.step \in {"save", "reserve"} \/ (j.step \in Editing /\ j.name \in j.seen)

InstalledStill ==
    \A w \in Workers : \A j \in job[w] :
        Keeps(j) /\ j.by \notin removed \union edited => domain[j.name] = j.by

NamesLow ==
    /\ vmMax <= most
    /\ \A r \in rows : r.by \notin edited => r.name <= most
    /\ \A w \in Workers : \A j \in job[w] :
          /\ j.step \in Creating => j.limit <= most
          /\ j.step \in Creating \/ (Keeps(j) /\ j.by \notin edited) => j.name <= most

Neighbours ==
    \A v, w \in Workers : \A j \in job[v], k \in job[w] :
        v # w /\ j.step \in Creating /\ k.step \in Creating => {j.by, k.by} \in together

BeforeDisk ==
    \A w \in Workers : \A j \in job[w] :
        j.step = "disk" /\ domain[j.name] # 0 => {j.by, domain[j.name]} \in together

AfterDisk ==
    \A w \in Workers : \A j \in job[w] :
        j.step = "install" => disk[j.name] = j.by \/ {disk[j.name], j.by} \in together

(* What the comparison found is still so when nobody else wrote: there is  *)
(* room next to the other machines of the host.                            *)
Others(j) == {r \in Hosted : r.by # j.by}

CountedRoom ==
    \A w \in Workers : \A j \in job[w] :
        j.step \in Creating /\ Alone(j.by) =>
            /\ j.limit = vmMax
            /\ j.step # "count" => Cardinality(Others(j)) < vmMax

(* All of it, which every step of the code keeps.                          *)
VmInv ==
    /\ VmTypeOK /\ UniqueNames /\ OwnDomain /\ InstalledStill /\ NamesLow
    /\ Neighbours /\ BeforeDisk /\ AfterDisk /\ OwnDisk /\ CountedRoom
=============================================================================
