----------------------------- MODULE CatalogueRows ----------------------------
(***************************************************************************)
(* The rows of the database and the references between them, under the    *)
(* commands of the API and the pages of the frontend that add, edit and    *)
(* delete them.  A command reads, validates and writes in separate         *)
(* statements, and no transaction or lock spans them, so that requests     *)
(* overlap:                                                                *)
(*   add     a form with references to rows that are there, then an INSERT *)
(*   edit    a form filled with the row as it is shown to the user, the    *)
(*           form sent back and validated, then an UPDATE of all columns   *)
(*   delete  a check, the collection of everything that depends on the     *)
(*           row, and (after the signal handlers) the DELETE               *)
(* So do the tasks that import rows from NetBox, compare rows with NetBox  *)
(* and clean up; NetBox may answer them anything.                          *)
(* A row is a pair of its model and a number, and the value of the row are *)
(* its references; all other columns are left out.                         *)
(***************************************************************************)
EXTENDS Naturals

CONSTANTS Rows,         \* the rows there may ever be, as pairs <<model, number>>
          Null,         \* no reference
          InitialRef,   \* the rows at the beginning, and what they refer to
          Workers,      \* web and API workers, and threads of tasks
          Superusers,   \* rows of users
          Permitted,    \* per model: the users whom a permission opens its pages
          Submitted,    \* the values that users fill into forms for new rows
          MaxRequests   \* bound of the model: requests

VARIABLES ref,          \* the rows there are, and what they refer to
          job,          \* per worker: the request in progress, as a set
          asked         \* how many requests were begun

vars == <<ref, job, asked>>
-----------------------------------------------------------------------------
(* The foreign keys, model by model.                                       *)
DeviceTypeKeys == {<<"DeviceType", "manufacturer", "Manufacturer">>}
EnclosureKeys == {<<"Enclosure", "device_type", "DeviceType">>}
DomainKeys == {<<"Domain", f, "Machine">> : f \in {"cobbler_server", "tftp_server", "cscreen_server"}}
DomainAdminKeys == {<<"DomainAdmin", "domain", "Domain">>, <<"DomainAdmin", "arch", "Architecture">>}
MachineKeys == {
    <<"Machine", "enclosure", "Enclosure">>, <<"Machine", "system", "System">>,
    <<"Machine", "architecture", "Architecture">>, <<"Machine", "fqdn_domain", "Domain">>,
    <<"Machine", "device_type", "DeviceType">>, <<"Machine", "reserved_by", "User">>,
    <<"Machine", "tftp_server", "Machine">>, <<"Machine", "hypervisor", "Machine">>}
RemotePowerDeviceKeys == {
    <<"RemotePowerDevice", "fence_agent", "RemotePowerType">>,
    <<"RemotePowerDevice", "architecture", "Architecture">>,
    <<"RemotePowerDevice", "domain", "Domain">>}
BMCKeys == {<<"BMC", "machine", "Machine">>, <<"BMC", "fence_agent", "RemotePowerType">>}
RemotePowerKeys == {
    <<"RemotePower", "machine", "Machine">>, <<"RemotePower", "fence_agent", "RemotePowerType">>,
    <<"RemotePower", "remote_power_device", "RemotePowerDevice">>}
SerialConsoleKeys == {
    <<"SerialConsole", "machine", "Machine">>, <<"SerialConsole", "stype", "SerialConsoleType">>}
NetworkInterfaceKeys == {<<"NetworkInterface", "machine", "Machine">>}
AnnotationKeys == {<<"Annotation", "machine", "Machine">>, <<"Annotation", "reporter", "User">>}

ComparisionRunKeys == {
    <<"ComparisionRun", "object_bmc", "BMC">>, <<"ComparisionRun", "object_machine", "Machine">>,
    <<"ComparisionRun", "object_device_type", "DeviceType">>,
    <<"ComparisionRun", "object_enclosure", "Enclosure">>,
    <<"ComparisionRun", "object_manufacturer", "Manufacturer">>,
    <<"ComparisionRun", "object_network_interface", "NetworkInterface">>,
    <<"ComparisionRun", "object_remote_power_device", "RemotePowerDevice">>}
ComparisionResultKeys == {<<"ComparisionResult", "run_id", "ComparisionRun">>}

Keys == DeviceTypeKeys \union EnclosureKeys \union DomainKeys \union DomainAdminKeys
        \union MachineKeys \union RemotePowerDeviceKeys \union BMCKeys \union RemotePowerKeys
        \union SerialConsoleKeys \union NetworkInterfaceKeys \union AnnotationKeys
        \union ComparisionRunKeys \union ComparisionResultKeys

(* on_delete: the reference becomes NULL, or the row goes too.             *)
SetsNull ==
    {k \in Keys : k[2] \in {"device_type", "reserved_by", "tftp_server", "hypervisor",
                             "cobbler_server", "cscreen_server", "reporter"}}

Optional ==
    SetsNull \union ComparisionRunKeys \union {k \in RemotePowerKeys : k[2] # "machine"}

Model(r) == r[1]
KeysOf == [m \in {k[1] : k \in Keys} |-> {k \in Keys : k[1] = m}]
KeysFrom(m) == IF m \in DOMAIN KeysOf THEN KeysOf[m] ELSE {}
Fields(m) == {k[2] : k \in KeysFrom(m)}
KeyOf(m, f) == CHOOSE k \in KeysFrom(m) : k[2] = f
Cascades(m) == KeysFrom(m) \ SetsNull

(* What a field may hold when these are the rows there are.                *)
Fits(x, m, f, rows) ==
    LET k == KeyOf(m, f)
    IN  (x \in rows /\ Model(x) = k[3]) \/ (x = Null /\ k \in Optional)
Choices(m, f, rows) == {x \in rows \union {Null} : Fits(x, m, f, rows)}

(* The rows with another one written, or added unless it is there.         *)
Put(r, value, refs) ==
    [x \in DOMAIN refs \union {r} |-> IF x = r THEN value ELSE refs[x]]
PutNew(r, value, refs) == IF r \in DOMAIN refs THEN refs ELSE Put(r, value, refs)

Live == DOMAIN ref
Sound(m, value, rows) == \A f \in Fields(m) : Fits(value[f], m, f, rows)

(* Null is no row, and the rows at the beginning are consistent.           *)
ASSUME CatalogueAssumption ==
    /\ Null \notin Rows
    /\ MaxRequests \in Nat
    /\ DOMAIN InitialRef \subseteq Rows
    /\ \A r \in DOMAIN InitialRef :
          /\ DOMAIN InitialRef[r] = Fields(Model(r))
          /\ Sound(Model(r), InitialRef[r], DOMAIN InitialRef)

New(m) == {r \in Rows \ Live : Model(r) = m}
Old(m) == {r \in Live : Model(r) = m}

Init ==
    /\ ref = InitialRef
    /\ job = [w \in Workers |-> {}]
    /\ asked = 0
-----------------------------------------------------------------------------
NoneGiven == [f \in {} |-> Null]

(* The requests.  A job is the request with the row it is about, the       *)
(* values it is going to write, the manufacturer of the device type it is  *)
(* looking for, the rows it is going to delete, and (as history) the       *)
(* machines, enclosures and device types that were saved since its check.  *)
AnyJob(phase, op, u, r, value, maker, doomed, late) ==
    [phase |-> phase, op |-> op, by |-> u, row |-> r, value |-> value,
     maker |-> maker, doomed |-> doomed, late |-> late]
Job(phase, op, u, r, value) == AnyJob(phase, op, u, r, value, Null, {}, {})
Deletion(phase, u, r, doomed, late) ==
    AnyJob(phase, "delete", u, r, NoneGiven, Null, doomed, late)

Idle(w) == job[w] = {} /\ asked < MaxRequests

Begin(w, j) == job' = [job EXCEPT ![w] = {j}] /\ asked' = asked + 1

Go(w, j) == job' = [job EXCEPT ![w] = {j}] /\ asked' = asked

End(w) == job' = [job EXCEPT ![w] = {}] /\ asked' = asked

(* A new row: the user fills in the fields of the form, the view sets the  *)
(* others, and the form accepts references to rows that are there.         *)
Filled(m, form, given) ==
    {v \in {[f \in Fields(m) |-> IF f \in DOMAIN given THEN given[f]
                                  ELSE IF f \in form THEN s[f] ELSE Null] :
              s \in {x \in Submitted : form \subseteq DOMAIN x}} : Sound(m, v, Live)}

Adds(w, who, m, form) ==
    /\ Idle(w)
    /\ \E u \in who \intersect Live, r \in New(m), v \in Filled(m, form, NoneGiven) :
          Begin(w, Job("valid", "add", u, r, v))
    /\ UNCHANGED ref

(* A new row that belongs to a machine.  For the models in Single there is *)
(* one per machine: it has the machine's number.                           *)
Single == {"BMC", "RemotePower", "SerialConsole"}
Slots(m, machine) ==
    IF m \in Single THEN {<<m, machine[2]>>} \intersect Rows ELSE New(m)
GivenFor(m, machine, u) ==
    [f \in {"machine", "reporter"} \intersect Fields(m) |->
        IF f = "machine" THEN machine ELSE u]

AddsTo(w, who, m, form) ==
    /\ Idle(w)
    /\ \E u \in who \intersect Live, machine \in Old("Machine") :
       \E r \in Slots(m, machine), v \in Filled(m, form, GivenFor(m, machine, u)) :
          Begin(w, Job("valid", "add", u, r, v))
    /\ UNCHANGED ref

(* The same in two requests: GET returns the form, POST looks again.  Of   *)
(* serial consoles and remote powers a second one is refused.              *)
Refused(r) == Model(r) \in {"SerialConsole", "RemotePower"} /\ r \in Live

OpensFor(w, who, m) ==
    /\ Idle(w)
    /\ \E u \in who \intersect Live, machine \in Old("Machine") :
       \E r \in Slots(m, machine) :
          /\ ~Refused(r)
          /\ Begin(w, Job("shown", "add", u, r, GivenFor(m, machine, u)))
    /\ UNCHANGED ref

SendsFor(w, m, form) ==
    \E j \in job[w] :
        /\ j.phase = "shown" /\ j.op = "add" /\ Model(j.row) = m
        /\ UNCHANGED ref
        /\ LET accepted == Filled(m, form, j.value)
           IN  IF Refused(j.row) \/ accepted = {}
               THEN End(w)
               ELSE \E v \in accepted : Go(w, Job("valid", "add", j.by, j.row, v))

(* An edit: GET shows the row, POST validates what was shown with a field  *)
(* of the form changed.  Fields that are not on the form keep the value    *)
(* the row has when POST reads it.                                         *)
Shows(w, who, m) ==
    /\ Idle(w)
    /\ \E u \in who \intersect Live, r \in Old(m) :
          Begin(w, Job("shown", "edit", u, r, ref[r]))
    /\ UNCHANGED ref

Changed(j, form) ==
    LET m == Model(j.row)
        sent == [f \in Fields(m) |-> IF f \in form THEN j.value[f] ELSE ref[j.row][f]]
    IN  {v \in {sent} \union UNION {{[sent EXCEPT ![f] = c] : c \in Choices(m, f, Live)} :
                                    f \in form} : Sound(m, v, Live)}

Sends(w, m, form) ==
    \E j \in job[w] :
        /\ j.phase = "shown" /\ j.op = "edit" /\ Model(j.row) = m
        /\ UNCHANGED ref
        /\ IF j.row \in Live /\ Changed(j, form) # {}
           THEN \E v \in Changed(j, form) :
                    Go(w, Job("valid", "edit", j.by, j.row, v))
           ELSE End(w)

Edits(w, who, m, form) == Shows(w, who, m) \/ Sends(w, m, form)

(* A deletion: the row is looked up and delete() is called, which for      *)
(* domains and architectures begins with counting machines.                *)
Guarded == {"Domain", "Architecture"}
MachinesOf(r) ==
    {x \in Old("Machine") : r \in {ref[x]["fqdn_domain"], ref[x]["architecture"]}}
Unprotected(r) == FALSE
Protected(r) == Model(r) \in Guarded /\ MachinesOf(r) # {}

Deletes(w, who, m) ==
    /\ Idle(w)
    /\ \E u \in who \intersect Live, r \in Old(m) :
          /\ ~Protected(r)
          /\ Begin(w, Deletion("checked", u, r, {}, {}))
    /\ UNCHANGED ref

(* A deletion of all rows of a model that a task selects; nobody's rows.   *)
Sweep(selected) ==
    IF selected = {} THEN {}
    ELSE {Deletion("checked", Null, CHOOSE r \in selected : TRUE, selected, {})}
-----------------------------------------------------------------------------
(* The statements that write.                                              *)

(* save(): an UPDATE, or an INSERT if there is no such row.  The INSERT of *)
(* a new row fails if its name or its machine is taken, except for models  *)
(* whose key is the machine: then save() finds a row to update.  A         *)
(* reference to a row that is gone fails.                                  *)
KeyIsMachine == {"RemotePower", "SerialConsole"}
Saved(j) ==
    /\ Sound(Model(j.row), j.value, Live)
    /\ j.op = "add" => j.row \notin Live \/ Model(j.row) \in KeyIsMachine

(* What is saved next: the row again with what NetBox knows of it, the     *)
(* primary interface of a machine added by a command, the remote power of  *)
(* a machine with a new BMC, a result of a comparison.  Each may be left   *)
(* out: NetBox may not know the row, a machine imported from NetBox gets   *)
(* no interface here, and not every system allows a BMC.                   *)
FollowUps(j) ==
    CASE j.op = "fetch" ->
           {Job(IF Model(j.row) = "Machine" THEN "resolve" ELSE "valid",
                "edit", j.by, j.row, j.value)}
      [] j.op = "add" /\ Model(j.row) = "ComparisionRun" ->
           {Job("valid", "add", j.by, r, [run_id |-> j.row]) : r \in New("ComparisionResult")}
      [] j.op = "add" /\ Model(j.row) = "Machine" ->
           {Job("valid", "add", j.by, r, [machine |-> j.row]) : r \in New("NetworkInterface")}
      [] j.op # "fetch" /\ Model(j.row) = "BMC" ->
           {Job("valid", "add", j.by, r,
                [machine |-> j.value["machine"], fence_agent |-> j.value["fence_agent"],
                 remote_power_device |-> Null]) :
             r \in Slots("RemotePower", j.value["machine"]) \ Live}
      [] OTHER -> {}

(* Everybody else's deletion in progress has a row saved after its check.  *)
Noticed(r) ==
    [x \in Workers |->
        {IF j.op = "delete" /\ Model(r) \in {"Machine", "Enclosure", "DeviceType"}
         THEN Deletion(j.phase, j.by, j.row, j.doomed, j.late \union {r})
         ELSE j : j \in job[x]}]

Write(w) ==
    \E j \in job[w] :
        /\ j.phase = "valid"
        /\ IF Saved(j)
           THEN /\ ref' = Put(j.row, j.value, ref)
                /\ \E next \in {{}} \union {{n} : n \in FollowUps(j)} :
                       job' = [Noticed(j.row) EXCEPT ![w] = next]
           ELSE ref' = ref /\ job' = [job EXCEPT ![w] = {}]
        /\ asked' = asked

(* Collector.collect(): the rows that depend on the row, and on those.  No *)
(* chain of cascading keys is longer than four.                            *)
DependantsByAnyKey(gone) ==
    {r \in Live : \E f \in Fields(Model(r)) : ref[r][f] \in gone}
Dependants(gone) ==
    {r \in Live : \E k \in Cascades(Model(r)) : ref[r][k[2]] \in gone}
With(gone) == gone \union Dependants(gone)

(* Leaf models without signal handlers are deleted by a query on their     *)
(* keys at the end, instead of one by one.                                 *)
Fast == {"DomainAdmin", "Annotation", "RemotePower", "ComparisionResult"}
Cascade(rows) == {x \in With(With(With(With(rows)))) : x \in rows \/ Model(x) \notin Fast}

Collect(w) ==
    \E j \in job[w] :
        /\ j.phase = "checked"
        /\ Go(w, Deletion("collected", j.by, j.row, Cascade(j.doomed \union {j.row}), j.late))
        /\ UNCHANGED ref

(* Collector.delete(): one transaction, which sets references to NULL,     *)
(* deletes, and fails if another row has come to depend on one deleted.    *)
Gone(j) == j.doomed \union {r \in Dependants(j.doomed) : Model(r) \in Fast}

Dangling(m, value, gone) == value
Nulled(m, value, gone) ==
    [f \in Fields(m) |->
        IF value[f] \in gone /\ KeyOf(m, f) \in SetsNull THEN Null ELSE value[f]]

(* The daily cleanup goes on to the manufacturers, if nothing failed.      *)
OrphanTypes ==
    Old("DeviceType") \ {ref[x]["device_type"] : x \in Old("Machine") \union Old("Enclosure")}
OrphanManufacturers(rows, refs) ==
    {m \in rows : Model(m) = "Manufacturer"}
        \ {refs[x]["manufacturer"] : x \in {y \in rows : Model(y) = "DeviceType"}}
CleansUp(j) == j.by = Null /\ Model(j.row) = "DeviceType"

Commit(w) ==
    \E j \in job[w] :
        /\ j.phase = "collected"
        /\ IF Dependants(Gone(j)) \subseteq Gone(j)
           THEN ref' = [r \in Live \ Gone(j) |-> Nulled(Model(r), ref[r], Gone(j))]
           ELSE UNCHANGED ref
        /\ job' = [job EXCEPT ![w] =
                    IF CleansUp(j) /\ DOMAIN ref' # Live
                    THEN Sweep(OrphanManufacturers(DOMAIN ref', ref')) ELSE {}]
        /\ asked' = asked
=============================================================================
