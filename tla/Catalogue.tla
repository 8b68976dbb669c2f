------------------------------- MODULE Catalogue ------------------------------
(***************************************************************************)
(* The requests about rows: each command of the API, each page of the      *)
(* frontend and each task that talks to NetBox or cleans up, as an         *)
(* operation of CatalogueRows with its users, its model and its form.      *)
(***************************************************************************)
EXTENDS CatalogueRows
-----------------------------------------------------------------------------
(* The references on the forms.                                            *)
ManufacturerForm == {}
DeviceTypeForm == {"manufacturer"}
SerialConsoleTypeForm == {}
SystemForm == {}
ArchitectureForm == {}
RemotePowerTypeForm == {}
ServerConfigForm == {}
EnclosureForm == {"device_type"}
DomainArchitectureForm == {"domain", "arch"}
DomainForm == {"cobbler_server", "tftp_server", "cscreen_server"}
NetworkInterfaceForm == {}
BMCForm == {"fence_agent"}
RemotePowerForm == {"fence_agent", "remote_power_device"}
SerialConsoleForm == {"stype"}
RemotePowerDeviceForm == {"fence_agent", "architecture", "domain"}
MachineForm == {"enclosure", "architecture", "system", "fqdn_domain", "hypervisor"}
EditMachineForm == MachineForm \union {"device_type", "tftp_server"}

(* get_or_create of the enclosure of a machine.                            *)
WithEnclosure(e, refs) == PutNew(e, [device_type |-> Null], refs)

(* The commands of the API: ADD.  The domain of a machine and of a remote  *)
(* power device follows from the name that is filled in.  The form of a    *)
(* new machine creates the enclosure that is named, even if it is refused. *)
AddMachine(w) ==
    /\ Idle(w)
    /\ \E u \in Superusers \intersect Live, r \in New("Machine"),
          e \in {x \in Rows : Model(x) = "Enclosure"},
          s \in {x \in Submitted : MachineForm \subseteq DOMAIN x} :
          LET v == [f \in Fields("Machine") |->
                      IF f = "enclosure" THEN e ELSE IF f \in MachineForm THEN s[f] ELSE Null]
          IN  /\ ref' = WithEnclosure(e, ref)
              /\ IF Sound("Machine", v, DOMAIN ref')
                 THEN Begin(w, Job("valid", "add", u, r, v))
                 ELSE asked' = asked + 1 /\ job' = job
AddManufacturer(w) == Adds(w, Superusers, "Manufacturer", ManufacturerForm)
AddDeviceType(w) == Adds(w, Superusers, "DeviceType", DeviceTypeForm)
AddSerialConsoleType(w) == Adds(w, Superusers, "SerialConsoleType", SerialConsoleTypeForm)
AddSystem(w) == Adds(w, Superusers, "System", SystemForm)
AddRemotePowerType(w) == Adds(w, Superusers, "RemotePowerType", RemotePowerTypeForm)
AddRemotePowerDevice(w) == Adds(w, Superusers, "RemotePowerDevice", RemotePowerDeviceForm)
AddArchitecture(w) == Adds(w, Superusers, "Architecture", ArchitectureForm)
AddServerConfig(w) == Adds(w, Superusers, "ServerConfig", ServerConfigForm)
AddEnclosure(w) == Adds(w, Superusers, "Enclosure", EnclosureForm)
AddDomainArchitecture(w) == Adds(w, Superusers, "DomainAdmin", DomainArchitectureForm)
AddDomain(w) == Adds(w, Superusers, "Domain", DomainForm)
AddSerialConsoleGet(w) == OpensFor(w, Superusers, "SerialConsole")
AddSerialConsolePost(w) == SendsFor(w, "SerialConsole", SerialConsoleForm)
AddRemotePowerGet(w) == OpensFor(w, Superusers, "RemotePower")
AddRemotePowerPost(w) == SendsFor(w, "RemotePower", RemotePowerForm)
AddNetworkInterfaceGet(w) == OpensFor(w, Superusers, "NetworkInterface")
AddNetworkInterfacePost(w) == SendsFor(w, "NetworkInterface", NetworkInterfaceForm)
AddBMCGet(w) == OpensFor(w, Old("User"), "BMC")
AddBMCPost(w) == SendsFor(w, "BMC", BMCForm)
AddAnnotationGet(w) == OpensFor(w, Old("User"), "Annotation")
AddAnnotationPost(w) == SendsFor(w, "Annotation", {})

(* EDIT                                                                    *)
EditManufacturer(w) == Edits(w, Superusers, "Manufacturer", ManufacturerForm)
EditDeviceType(w) == Edits(w, Superusers, "DeviceType", DeviceTypeForm)
EditSerialConsoleType(w) == Edits(w, Superusers, "SerialConsoleType", SerialConsoleTypeForm)
EditSystem(w) == Edits(w, Superusers, "System", SystemForm)
EditRemotePowerType(w) == Edits(w, Superusers, "RemotePowerType", RemotePowerTypeForm)
EditRemotePowerDevice(w) == Edits(w, Superusers, "RemotePowerDevice", RemotePowerDeviceForm)
EditArchitecture(w) == Edits(w, Superusers, "Architecture", ArchitectureForm)
EditServerConfig(w) == Edits(w, Superusers, "ServerConfig", ServerConfigForm)
EditEnclosure(w) == Edits(w, Superusers, "Enclosure", EnclosureForm)
EditDomainArchitecture(w) == Edits(w, Superusers, "DomainAdmin", DomainArchitectureForm)
EditDomain(w) == Edits(w, Superusers, "Domain", DomainForm)
EditNetworkInterface(w) == Edits(w, Superusers, "NetworkInterface", NetworkInterfaceForm)
EditBMC(w) == Edits(w, Superusers, "BMC", BMCForm)
EditSerialConsoleGet(w) == Shows(w, Superusers, "SerialConsole")
EditSerialConsolePost(w) == Sends(w, "SerialConsole", SerialConsoleForm)
EditRemotePowerGet(w) == Shows(w, Superusers, "RemotePower")
EditRemotePowerPost(w) == Sends(w, "RemotePower", RemotePowerForm)
EditMachineGet(w) == Shows(w, Superusers, "Machine")
EditMachinePost(w) == Sends(w, "Machine", EditMachineForm)

(* DELETE                                                                  *)
DeleteManufacturer(w) == Deletes(w, Superusers, "Manufacturer")
DeleteDeviceType(w) == Deletes(w, Superusers, "DeviceType")
DeleteSerialConsoleType(w) == Deletes(w, Superusers, "SerialConsoleType")
DeleteSystem(w) == Deletes(w, Superusers, "System")
DeleteRemotePowerType(w) == Deletes(w, Superusers, "RemotePowerType")
DeleteRemotePowerDevice(w) == Deletes(w, Superusers, "RemotePowerDevice")
DeleteArchitecture(w) == Deletes(w, Superusers, "Architecture")
DeleteServerConfig(w) == Deletes(w, Superusers, "ServerConfig")
DeleteEnclosure(w) == Deletes(w, Superusers, "Enclosure")
DeleteDomainArchitecture(w) == Deletes(w, Superusers, "DomainAdmin")
DeleteDomain(w) == Deletes(w, Superusers, "Domain")
DeleteMachine(w) == Deletes(w, Superusers, "Machine")
DeleteSerialConsole(w) == Deletes(w, Superusers, "SerialConsole")
DeleteRemotePower(w) == Deletes(w, Superusers, "RemotePower")
DeleteNetworkInterface(w) == Deletes(w, Superusers, "NetworkInterface")
DeleteBMC(w) == Deletes(w, Superusers, "BMC")
DeleteAnnotation(w) == Deletes(w, Superusers, "Annotation")

ApiAdds(w) ==
    \/ AddMachine(w) \/ AddManufacturer(w) \/ AddDeviceType(w)
    \/ AddSerialConsoleType(w) \/ AddSystem(w) \/ AddRemotePowerType(w)
    \/ AddRemotePowerDevice(w) \/ AddArchitecture(w) \/ AddServerConfig(w)
    \/ AddEnclosure(w) \/ AddDomainArchitecture(w) \/ AddDomain(w)
    \/ AddSerialConsoleGet(w) \/ AddSerialConsolePost(w)
    \/ AddRemotePowerGet(w) \/ AddRemotePowerPost(w)
    \/ AddNetworkInterfaceGet(w) \/ AddNetworkInterfacePost(w) \/ AddBMCGet(w)
    \/ AddBMCPost(w) \/ AddAnnotationGet(w) \/ AddAnnotationPost(w)

ApiEdits(w) ==
    \/ EditManufacturer(w) \/ EditDeviceType(w) \/ EditSerialConsoleType(w)
    \/ EditSystem(w) \/ EditRemotePowerType(w) \/ EditRemotePowerDevice(w)
    \/ EditArchitecture(w) \/ EditServerConfig(w) \/ EditEnclosure(w)
    \/ EditDomainArchitecture(w) \/ EditDomain(w) \/ EditNetworkInterface(w)
    \/ EditBMC(w) \/ EditSerialConsoleGet(w) \/ EditSerialConsolePost(w)
    \/ EditRemotePowerGet(w) \/ EditRemotePowerPost(w) \/ EditMachineGet(w)
    \/ EditMachinePost(w)

ApiDeletes(w) ==
    \/ DeleteManufacturer(w) \/ DeleteDeviceType(w)
    \/ DeleteSerialConsoleType(w) \/ DeleteSystem(w)
    \/ DeleteRemotePowerType(w) \/ DeleteRemotePowerDevice(w)
    \/ DeleteArchitecture(w) \/ DeleteServerConfig(w) \/ DeleteEnclosure(w)
    \/ DeleteDomainArchitecture(w) \/ DeleteDomain(w) \/ DeleteMachine(w)
    \/ DeleteSerialConsole(w) \/ DeleteRemotePower(w)
    \/ DeleteNetworkInterface(w) \/ DeleteBMC(w) \/ DeleteAnnotation(w)

(* The pages of the frontend.                                              *)
NewManufacturer(w) == Adds(w, Superusers, "Manufacturer", ManufacturerForm)
ManufacturerDetailedEdit(w) == Edits(w, Superusers, "Manufacturer", ManufacturerForm)
DeleteManufacturerPage(w) == Deletes(w, Superusers, "Manufacturer")
NewDeviceType(w) == Adds(w, Superusers, "DeviceType", DeviceTypeForm)
DeviceTypeDetailedEdit(w) == Edits(w, Superusers, "DeviceType", DeviceTypeForm)
DeleteDeviceTypePage(w) == Deletes(w, Superusers, "DeviceType")
NewSerialConsoleType(w) == Adds(w, Superusers, "SerialConsoleType", SerialConsoleTypeForm)
SerialConsoleTypeDetailedEdit(w) == Edits(w, Superusers, "SerialConsoleType", SerialConsoleTypeForm)
DeleteSerialConsoleTypePage(w) == Deletes(w, Superusers, "SerialConsoleType")
NewSystem(w) == Adds(w, Superusers, "System", SystemForm)
SystemDetailedEdit(w) == Edits(w, Superusers, "System", SystemForm)
DeleteSystemPage(w) == Deletes(w, Superusers, "System")
NewRemotePowerType(w) == Adds(w, Superusers, "RemotePowerType", RemotePowerTypeForm)
RemotePowerTypeDetailedEdit(w) == Edits(w, Superusers, "RemotePowerType", RemotePowerTypeForm)
DeleteRemotePowerTypePage(w) == Deletes(w, Superusers, "RemotePowerType")
NewArchitecture(w) == Adds(w, Superusers, "Architecture", ArchitectureForm)
ArchitectureDetailedEdit(w) == Edits(w, Superusers, "Architecture", ArchitectureForm)
DeleteArchitecturePage(w) == Deletes(w, Superusers, "Architecture")
NewServerConfig(w) == Adds(w, Superusers, "ServerConfig", ServerConfigForm)
ServerConfigDetailedEdit(w) == Edits(w, Superusers, "ServerConfig", ServerConfigForm)
DeleteServerConfigPage(w) == Deletes(w, Superusers, "ServerConfig")
NewDomain(w) == Adds(w, Superusers, "Domain", DomainForm)
DomainDetailedEdit(w) == Edits(w, Superusers, "Domain", DomainForm)
DeleteDomainPage(w) == Deletes(w, Superusers, "Domain")
NewDomainArchitecture(w) == Adds(w, Superusers, "DomainAdmin", DomainArchitectureForm)
DomainArchitectureDetailedEdit(w) == Edits(w, Superusers, "DomainAdmin", {"arch"})
DeleteDomainArchitecturePage(w) == Deletes(w, Superusers, "DomainAdmin")
NewEnclosure(w) == Adds(w, Permitted["Enclosure"], "Enclosure", EnclosureForm)
EnclosureDetailedEdit(w) == Edits(w, Permitted["Enclosure"], "Enclosure", EnclosureForm)
DeleteEnclosurePage(w) == Deletes(w, Permitted["Enclosure"], "Enclosure")
NewRemotePowerDevice(w) == Adds(w, Permitted["RemotePowerDevice"], "RemotePowerDevice", RemotePowerDeviceForm)
RemotePowerDeviceDetailedEdit(w) == Edits(w, Permitted["RemotePowerDevice"], "RemotePowerDevice", {})
DeleteRemotePowerDevicePage(w) == Deletes(w, Permitted["RemotePowerDevice"], "RemotePowerDevice")
NewUser(w) == Adds(w, Superusers, "User", {})
UserDetailedEdit(w) == Edits(w, Superusers, "User", {})
DeleteUserPage(w) == Deletes(w, Superusers, "User")
NewGroup(w) == Adds(w, Superusers, "Group", {})
GroupDetailedEdit(w) == Edits(w, Superusers, "Group", {})
DeleteGroupPage(w) == Deletes(w, Superusers, "Group")
NewNetworkInterface(w) == AddsTo(w, Superusers, "NetworkInterface", NetworkInterfaceForm)
NetworkInterfaceDetailedEdit(w) == Edits(w, Superusers, "NetworkInterface", NetworkInterfaceForm)
DeleteNetworkInterfacePage(w) == Deletes(w, Superusers, "NetworkInterface")
NewBMC(w) == AddsTo(w, Superusers, "BMC", BMCForm)
BMCDetailedEdit(w) == Edits(w, Superusers, "BMC", BMCForm)
DeleteBMCPage(w) == Deletes(w, Superusers, "BMC")
NewSerialConsole(w) == AddsTo(w, Superusers, "SerialConsole", SerialConsoleForm)
SerialConsoleDetailedEdit(w) == Edits(w, Superusers, "SerialConsole", SerialConsoleForm)
DeleteSerialConsolePage(w) == Deletes(w, Superusers, "SerialConsole")
NewRemotePower(w) == AddsTo(w, Superusers, "RemotePower", RemotePowerForm)
RemotePowerDetailedEdit(w) == Edits(w, Superusers, "RemotePower", RemotePowerForm)
DeleteRemotePowerPage(w) == Deletes(w, Superusers, "RemotePower")
NewAnnotation(w) == AddsTo(w, Old("User"), "Annotation", {})
DeleteAnnotationPage(w) == Deletes(w, Superusers, "Annotation")
MachineDetailedEdit(w) == Edits(w, Superusers, "Machine", EditMachineForm)

Pages(w) ==
    \/ NewManufacturer(w) \/ ManufacturerDetailedEdit(w)
    \/ DeleteManufacturerPage(w) \/ NewDeviceType(w)
    \/ DeviceTypeDetailedEdit(w) \/ DeleteDeviceTypePage(w)
    \/ NewSerialConsoleType(w) \/ SerialConsoleTypeDetailedEdit(w)
    \/ DeleteSerialConsoleTypePage(w) \/ NewSystem(w) \/ SystemDetailedEdit(w)
    \/ DeleteSystemPage(w) \/ NewRemotePowerType(w)
    \/ RemotePowerTypeDetailedEdit(w) \/ DeleteRemotePowerTypePage(w)
    \/ NewArchitecture(w) \/ ArchitectureDetailedEdit(w)
    \/ DeleteArchitecturePage(w) \/ NewServerConfig(w)
    \/ ServerConfigDetailedEdit(w) \/ DeleteServerConfigPage(w)
    \/ NewDomain(w) \/ DomainDetailedEdit(w) \/ DeleteDomainPage(w)
    \/ NewDomainArchitecture(w) \/ DomainArchitectureDetailedEdit(w)
    \/ DeleteDomainArchitecturePage(w) \/ NewEnclosure(w)
    \/ EnclosureDetailedEdit(w) \/ DeleteEnclosurePage(w)
    \/ NewRemotePowerDevice(w) \/ RemotePowerDeviceDetailedEdit(w)
    \/ DeleteRemotePowerDevicePage(w) \/ NewUser(w) \/ UserDetailedEdit(w)
    \/ DeleteUserPage(w) \/ NewGroup(w) \/ GroupDetailedEdit(w)
    \/ DeleteGroupPage(w) \/ NewNetworkInterface(w)
    \/ NetworkInterfaceDetailedEdit(w) \/ DeleteNetworkInterfacePage(w)
    \/ NewBMC(w) \/ BMCDetailedEdit(w) \/ DeleteBMCPage(w)
    \/ NewSerialConsole(w) \/ SerialConsoleDetailedEdit(w)
    \/ DeleteSerialConsolePage(w) \/ NewRemotePower(w)
    \/ RemotePowerDetailedEdit(w) \/ DeleteRemotePowerPage(w)
    \/ NewAnnotation(w) \/ DeleteAnnotationPage(w) \/ MachineDetailedEdit(w)

(* NetBox.  fetch_netbox saves the row as it was read with the time of the *)
(* attempt, asks NetBox, and saves the row again with the answer.  (The    *)
(* interfaces and BMCs are in MachineParts.)                               *)
Fetches(w, m) ==
    /\ Idle(w)
    /\ \E r \in Old(m) : Begin(w, Job("valid", "fetch", Null, r, ref[r]))
    /\ UNCHANGED ref
FetchEnclosure(w) == Fetches(w, "Enclosure")
FetchManufacturer(w) == Fetches(w, "Manufacturer")
FetchDeviceType(w) == Fetches(w, "DeviceType")
FetchRemotePowerDevice(w) == Fetches(w, "RemotePowerDevice")
FetchMachine(w) == Fetches(w, "Machine")

(* get_or_create_from_netbox: the device type with the number NetBox gave, *)
(* or else one of the right name and manufacturer; a manufacturer and a    *)
(* type that are not there are added.  Without any, a machine has none.    *)
Chosen(w, j, t, refs) ==
    /\ ref' = IF j.op = "add" THEN WithEnclosure(j.value["enclosure"], refs) ELSE refs
    /\ Go(w, Job("valid", j.op, j.by, j.row, [j.value EXCEPT !["device_type"] = t]))

KnownType(w) ==
    \E j \in job[w] :
        /\ j.phase = "resolve"
        /\ \E t \in {j.value["device_type"], Null} \union Old("DeviceType") : Chosen(w, j, t, ref)

ResolveManufacturer(w) ==
    \E j \in job[w] :
        /\ j.phase = "resolve"
        /\ \E m \in Old("Manufacturer") \union New("Manufacturer") :
              /\ ref' = PutNew(m, NoneGiven, ref)
              /\ Go(w, AnyJob("typing", j.op, j.by, j.row, j.value, m, {}, {}))

ResolveDeviceType(w) ==
    \E j \in job[w] :
        /\ j.phase = "typing"
        /\ \/ \E t \in Old("DeviceType") :
                 ref[t]["manufacturer"] = j.maker /\ Chosen(w, j, t, ref)
           \/ /\ j.maker \in Live
              /\ \E t \in New("DeviceType") :
                    Chosen(w, j, t, PutNew(t, [manufacturer |-> j.maker], ref))
           \/ j.maker \notin Live /\ End(w) /\ UNCHANGED ref

(* The page that takes over a device: an enclosure of its name is linked   *)
(* to it, or else a machine of its name is, or else a machine is added.    *)
ImportForm == {"system", "architecture", "fqdn_domain", "enclosure"}
ImportMachine(w) ==
    /\ Idle(w)
    /\ \E u \in Permitted["Machine"] \intersect Live :
          \/ \E r \in Old("Enclosure") : Begin(w, Job("valid", "edit", u, r, ref[r]))
          \/ \E r \in Old("Machine") : Begin(w, Job("resolve", "edit", u, r, ref[r]))
          \/ \E r \in New("Machine"), v \in Filled("Machine", ImportForm, NoneGiven) :
                Begin(w, Job("resolve", "add", u, r, v))
    /\ UNCHANGED ref

(* compare_netbox saves a run about the row before it asks NetBox.         *)
Compares(w, m, f) ==
    /\ Idle(w)
    /\ \E r \in Old(m), run \in New("ComparisionRun") :
          Begin(w, Job("valid", "add", Null, run,
                       [g \in Fields("ComparisionRun") |-> IF g = f THEN r ELSE Null]))
    /\ UNCHANGED ref
CompareBMC(w) == Compares(w, "BMC", "object_bmc")
CompareDeviceType(w) == Compares(w, "DeviceType", "object_device_type")
CompareEnclosure(w) == Compares(w, "Enclosure", "object_enclosure")
CompareMachine(w) == Compares(w, "Machine", "object_machine")
CompareManufacturer(w) == Compares(w, "Manufacturer", "object_manufacturer")
CompareNetworkInterface(w) == Compares(w, "NetworkInterface", "object_network_interface")
CompareRemotePowerDevice(w) == Compares(w, "RemotePowerDevice", "object_remote_power_device")

(* The cleanups: old comparisons, and types and manufacturers of nothing.  *)
Cleans(w, jobs) ==
    /\ Idle(w) /\ jobs # {} /\ UNCHANGED ref
    /\ job' = [job EXCEPT ![w] = jobs] /\ asked' = asked + 1
CleanupComparisions(w) == \E old \in SUBSET Old("ComparisionRun") : Cleans(w, Sweep(old))
DailyCleanup(w) ==
    Cleans(w, IF OrphanTypes # {} THEN Sweep(OrphanTypes)
              ELSE Sweep(OrphanManufacturers(Live, ref)))

Fetching(w) ==
    \/ FetchEnclosure(w) \/ FetchManufacturer(w) \/ FetchDeviceType(w)
    \/ FetchRemotePowerDevice(w) \/ FetchMachine(w)
Comparing(w) ==
    \/ CompareBMC(w) \/ CompareDeviceType(w) \/ CompareEnclosure(w) \/ CompareMachine(w)
    \/ CompareManufacturer(w) \/ CompareNetworkInterface(w) \/ CompareRemotePowerDevice(w)

Next ==
    \E w \in Workers :
        \/ ApiAdds(w) \/ ApiEdits(w) \/ ApiDeletes(w) \/ Pages(w)
        \/ Fetching(w) \/ Comparing(w) \/ ImportMachine(w)
        \/ KnownType(w) \/ ResolveManufacturer(w) \/ ResolveDeviceType(w)
        \/ CleanupComparisions(w) \/ DailyCleanup(w)
        \/ Write(w) \/ Collect(w) \/ Commit(w)

Spec == Init /\ [][Next]_vars
-----------------------------------------------------------------------------
(* Properties.                                                             *)

(* Every reference, in the rows and nowhere left over, is to a row that is *)
(* there and of the right model, whatever deletions and edits overlap.     *)
References ==
    \A r \in Live : /\ DOMAIN ref[r] = Fields(Model(r))
                     /\ Sound(Model(r), ref[r], Live)

CatalogueTypeOK ==
    /\ Live \subseteq Rows
    /\ References
    /\ \A w \in Workers : \A j \in job[w] :
          /\ j.phase \in {"shown", "valid", "checked", "collected", "resolve", "typing"}
          /\ j.op \in {"add", "edit", "delete", "fetch"}
          /\ j.maker \in Rows \union {Null}
          /\ j.row \in Rows /\ j.doomed \subseteq Rows /\ j.late \subseteq Rows
          /\ j.phase = "valid" => DOMAIN j.value = Fields(Model(j.row))
    /\ asked \in 0..MaxRequests

Loses(w, j) ==
    job[w] = {j} /\ j.phase = "collected" /\ \A i \in job'[w] : i.phase = "checked"

(* Domain.delete and Architecture.delete refuse to take machines along,    *)
(* and the daily cleanup means to take no device type from a machine or an *)
(* enclosure.  Whatever edits, additions and imports overlap with such a   *)
(* deletion, a machine it takes along was saved after machines were        *)
(* counted, and of a machine or enclosure that loses its device type,      *)
(* either it or the type was saved after orphans were selected.            *)
TakesLateMachines(j) ==
    Model(j.row) \in Guarded => \A m \in Old("Machine") : m \in DOMAIN ref' \/ m \in j.late
TakesLateTypes(j) ==
    j.by = Null => \A x \in Old("Machine") \union Old("Enclosure") :
        \/ {x, ref[x]["device_type"]} \intersect j.late # {}
        \/ x \in DOMAIN ref' /\ ref'[x]["device_type"] = ref[x]["device_type"]

GuardedDeletion ==
    [][\A w \in Workers : \A j \in job[w] :
         Loses(w, j) => TakesLateMachines(j) /\ TakesLateTypes(j)]_vars

(* A machine goes only if somebody who may asked to delete it, its system, *)
(* its enclosure, or (see above) its domain or architecture: no other      *)
(* deletion, of the server of a domain, a hypervisor, a user, a device     *)
(* type or a type of remote power, reaches machines by any chain of keys.  *)
MachineLossAsked ==
    [][\A m \in Old("Machine") : m \notin DOMAIN ref' =>
         \E w \in Workers : \E j \in job[w] :
            /\ Loses(w, j)
            /\ j.row = m \/ Model(j.row) \in {"System", "Enclosure"} \union Guarded
            /\ j.by \in Superusers \/ (Model(j.row) = "Enclosure" /\ j.by \in Permitted["Enclosure"])
      ]_vars
=============================================================================
