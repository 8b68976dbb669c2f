---------------------------- MODULE MachineParts ----------------------------
(***************************************************************************)
(* The parts of machines: network interfaces, BMCs and remote power, and   *)
(* the addresses of one network.  Pages, API commands and NetBox imports   *)
(* write them from copies of rows they read earlier.  The rules between    *)
(* tables (an address is an interface's or a BMC's, one interface of a     *)
(* machine is primary) are queries of a clean() before the save(), which   *)
(* is a statement of its own, and some writers do not clean at all; only   *)
(* uniqueness within a table and references are the database's.            *)
(*                                                                         *)
(* A job is one request or one object's import.  Its number also is the    *)
(* primary key of a row it inserts.  Addresses are numbers, one family of  *)
(* the two; 0 stands for none.                                             *)
(***************************************************************************)
EXTENDS Integers, FiniteSets

CONSTANTS Workers,      \* web, API and task threads
          Machines, Macs, Devices,
          Hosted,       \* the virtual machines among Machines
          Size,         \* 2^host_size, the addresses of the network
          NetworkIp,    \* Domain.ip_v4, "the IPv4 address of the network"
          DynFirst, DynLast,   \* Domain.dynamic_range_v4_start, _end
          Entered,      \* bound of the model: addresses typed in or in NetBox
          First,        \* the machine there is at first
          Nothing,      \* no device, no MAC address
          MaxJobs       \* bound of the model

ASSUME PartsAssumption ==
    /\ Size \in Nat /\ Size > 2 /\ NetworkIp \in Nat /\ NetworkIp % Size = 0
    /\ DynFirst \in Nat /\ DynLast \in Nat /\ Entered \subseteq Nat
    /\ First \in Machines /\ Hosted \subseteq Machines /\ Nothing \notin Devices \union Macs
    /\ MaxJobs \in Nat

VARIABLES
    machines,    \* which machines there are
    nics,        \* rows of NetworkInterface
    bmcs,        \* rows of BMC
    powers,      \* rows of RemotePower
    devices,     \* the remote power devices
    job,         \* per worker: the job in hand, as a set
    made,        \* how many jobs were begun
    together,    \* history: pairs of jobs that were in hand at once
    stranded,    \* history: additions whose address was refused
    displaced    \* history: <<job, job whose remote power it replaced unasked>>

rows == <<machines, nics, bmcs, powers, devices>>
vars == <<rows, job, made, together, stranded, displaced>>

None == 0
Loopback == 1                \* "127.0.0.1", what is suggested when nothing is
Jobs == 0..MaxJobs           \* 0 for the rows there are at first
Address == Entered \union {None, Loopback} \union NetworkIp..(NetworkIp + Size - 1)

Nic == [id : Jobs, machine : Machines, mac : Macs, ip : Address,
        primary : BOOLEAN, by : SUBSET Jobs]
Bmc == [id : Jobs, machine : Machines, mac : Macs, ip : Address,
        from : {"form", "netbox"}, by : SUBSET Jobs]
Way == {"bmc", "rpowerdevice", "hypervisor"}
Power == [machine : Machines, way : Way, device : Devices \union {Nothing}, by : Jobs]

Kind == {"add", "page", "fetch", "fetched", "sync", "fetchbmc", "power"}
Step == {"suggest", "clean", "save", "answer", "mgmt", "cleanbmc", "savebmc",
         "haspower", "answerbmc", "checkpower", "savepower"}

InNetwork(a) == a \in NetworkIp..(NetworkIp + Size - 1)

(* One machine with its interface and an address, and what else it may     *)
(* have.                                                                   *)
Init ==
    /\ machines \in {{First}, Machines}
    /\ \E c \in Macs, a \in Entered :
          nics = {[id |-> 0, machine |-> First, mac |-> c, ip |-> a,
                   primary |-> TRUE, by |-> {0}]}
    /\ \/ bmcs = {}
       \/ \E c \in Macs, a \in Entered \union {NetworkIp + 2} :
             /\ \A r \in nics : r.mac # c /\ r.ip # a
             /\ bmcs = {[id |-> 0, machine |-> First, mac |-> c, ip |-> a,
                         from |-> "form", by |-> {0}]}
    /\ powers = {}
    /\ devices = Devices
    /\ job = [w \in Workers |-> {}]
    /\ made = 0 /\ together = {} /\ stranded = {} /\ displaced = {}
-----------------------------------------------------------------------------
(* Jobs.                                                                   *)
At(w, step) == {j \in job[w] : j.step = step}
InHand == UNION {job[w] : w \in Workers}

NewJob(kind, step, m) ==
    [kind |-> kind, step |-> step, num |-> made + 1, machine |-> m, id |-> made + 1,
     mac |-> Nothing, ip |-> None, primary |-> FALSE,
     from |-> "form", way |-> "bmc", device |-> Nothing, read |-> {}]

Begin(w, j) ==
    /\ job[w] = {} /\ made < MaxJobs
    /\ job' = [job EXCEPT ![w] = {j}]
    /\ made' = made + 1
    /\ together' = together \union {{made + 1, k.num} : k \in InHand}
    /\ UNCHANGED <<stranded, displaced>>

Go(w, j) == job' = [job EXCEPT ![w] = {j}]
To(w, j, step) == Go(w, [j EXCEPT !.step = step])
End(w) == job' = [job EXCEPT ![w] = {}]
Quiet == UNCHANGED <<made, together, stranded, displaced>>

Fail(w) == job[w] # {} /\ End(w) /\ Quiet /\ UNCHANGED rows
-----------------------------------------------------------------------------
(* suggest_host_ip.  When the search meets the dynamic range, its index    *)
(* grows by the last address of the range: what is above is not visited    *)
(* (unless the addresses themselves are small numbers).                    *)
UsedByInterfaces == {r.ip : r \in nics}
Used == UsedByInterfaces \union {b.ip : b \in bmcs}

Dynamic(i) == NetworkIp + i \in DynFirst..DynLast

Visited ==
    LET met == {i \in 0..(Size - 1) : Dynamic(i)}
        first == CHOOSE i \in met : \A k \in met : i <= k
    IN  {i \in 0..(Size - 1) : met = {} \/ i < first \/ i >= first + DynLast}

Suggestible ==
    {NetworkIp + i : i \in Visited} \ (Used \union {NetworkIp, NetworkIp + Size - 1})

SuggestHostIp ==
    IF Suggestible = {} THEN Loopback
    ELSE CHOOSE a \in Suggestible : \A b \in Suggestible : a <= b

(* AddMachineCommand.post: form and machine.save(), the suggestion for the *)
(* primary interface, and its save, each with what the others did between. *)
AddMachine(w) ==
    /\ \E m \in Machines \ machines, c \in Macs :
          /\ \A r \in nics : r.mac # c
          /\ Begin(w, [NewJob("add", "suggest", m) EXCEPT !.mac = c, !.primary = TRUE])
          /\ machines' = machines \union {m}
    /\ UNCHANGED <<nics, bmcs, powers, devices>>

(* The page takes over a device of NetBox, without any of its parts.       *)
AddFromNetbox ==
    /\ \E m \in Machines \ machines : machines' = machines \union {m}
    /\ Quiet /\ UNCHANGED <<nics, bmcs, powers, devices, job>>

Suggest(w) ==
    /\ \E j \in At(w, "suggest") : Go(w, [j EXCEPT !.step = "clean", !.ip = SuggestHostIp])
    /\ Quiet /\ UNCHANGED rows
-----------------------------------------------------------------------------
(* Interfaces.  The pages and the console's form commands.                 *)
NewInterface(w) ==
    /\ \E m \in machines, c \in Macs, a \in Entered \union {None}, p \in BOOLEAN :
          Begin(w, [NewJob("page", "clean", m) EXCEPT !.mac = c, !.ip = a, !.primary = p])
    /\ UNCHANGED rows

EditInterface(w) ==
    /\ \E r \in nics, c \in Macs, a \in Entered \union {None}, p \in BOOLEAN :
          Begin(w, [NewJob("page", "clean", r.machine) EXCEPT
                       !.id = r.id, !.mac = c, !.ip = a, !.primary = p])
    /\ UNCHANGED rows

(* NetworkInterface.fetch_netbox saves the row as it was read, for the     *)
(* time of the attempt, asks NetBox, and saves what it was told.           *)
FetchInterface(w) ==
    /\ \E r \in nics :
          Begin(w, [NewJob("fetch", "clean", r.machine) EXCEPT
                       !.id = r.id, !.mac = r.mac, !.ip = r.ip, !.primary = r.primary,
                       !.read = r.by])
    /\ UNCHANGED rows

Answer(w) ==
    /\ \E j \in At(w, "answer") :
          \/ \E a \in Entered, p \in BOOLEAN :
                Go(w, [j EXCEPT !.kind = "fetched", !.step = "clean", !.ip = a, !.primary = p,
                                !.read = {}])
          \/ End(w)
    /\ Quiet /\ UNCHANGED rows

(* Machine.fetch_netbox: an interface NetBox has of the machine is looked  *)
(* up by its MAC address, wherever it is, or made.                         *)
SyncInterface(w) ==
    /\ \E m \in machines, c \in Macs, a \in Entered \union {None} :
          LET new == [NewJob("sync", "clean", m) EXCEPT !.mac = c, !.ip = a]
              found == {r \in nics : r.mac = c}
          IN  \/ /\ found = {}
                 /\ Begin(w, new)
              \/ \E r \in found :
                    Begin(w, [new EXCEPT !.id = r.id, !.primary = r.primary,
                                         !.ip = IF a = None THEN r.ip ELSE a])
    /\ UNCHANGED rows

(* NetworkInterface.clean.  The MAC addresses excluded from the check are  *)
(* those of the machine the row is to belong to.                           *)
Excluded(j) == {r \in nics : r.machine = j.machine}

MacFree(j) ==
    /\ \A r \in nics : r.mac = j.mac => \E s \in Excluded(j) : s.mac = j.mac
    /\ \A b \in bmcs : b.mac # j.mac

AddressFree(j) ==
    j.ip # None => InNetwork(j.ip) /\ \A b \in bmcs : b.ip # j.ip

OnlyPrimary(j) ==
    j.primary => \A r \in nics : r.machine = j.machine /\ r.primary => r.id = j.id

(* An addition loses its interface when the address it was suggested is    *)
(* refused, here or by the database; the machine stays.                    *)
Refuse(w, j, ofAddress) ==
    /\ End(w)
    /\ stranded' = stranded \union
          {k.num : k \in {i \in {j} : i.kind = "add" /\ ofAddress /\ i.ip # Loopback}}
    /\ UNCHANGED <<made, together, displaced>>

Clean(w) ==
    /\ \E j \in At(w, "clean") :
          \/ /\ MacFree(j) /\ AddressFree(j) /\ OnlyPrimary(j)
             /\ To(w, j, "save") /\ Quiet
          \/ /\ ~(MacFree(j) /\ AddressFree(j) /\ OnlyPrimary(j))
             /\ Refuse(w, j, MacFree(j) /\ ~AddressFree(j))
    /\ UNCHANGED rows

(* The statement: an update of the row with that key, or an insertion.     *)
OtherNics(j) == {r \in nics : r.id # j.id}
MacTaken(j) == \E r \in OtherNics(j) : r.mac = j.mac
AddressTaken(j) == j.ip # None /\ \E r \in OtherNics(j) : r.ip = j.ip

NicRow(j) == [id |-> j.id, machine |-> j.machine, mac |-> j.mac, ip |-> j.ip,
              primary |-> j.primary, by |-> j.read \union {j.num}]

SaveInterface(w) ==
    /\ \E j \in At(w, "save") :
          \/ /\ j.machine \in machines /\ ~MacTaken(j) /\ ~AddressTaken(j)
             /\ nics' = OtherNics(j) \union {NicRow(j)}
             /\ \/ j.kind = "fetch" /\ To(w, j, "answer")
                \/ j.kind = "sync" /\ j.machine \notin Hosted /\ To(w, j, "mgmt")
                \/ j.kind # "fetch" /\ End(w)
             /\ Quiet
          \/ /\ j.machine \notin machines \/ MacTaken(j) \/ AddressTaken(j)
             /\ Refuse(w, j, j.machine \in machines /\ ~MacTaken(j))
             /\ UNCHANGED nics
    /\ UNCHANGED <<machines, bmcs, powers, devices>>

(* The pages delete no primary interface.                                  *)
DeleteInterface ==
    /\ \E r \in nics : ~r.primary /\ nics' = nics \ {r}
    /\ Quiet /\ UNCHANGED <<machines, bmcs, powers, devices, job>>
-----------------------------------------------------------------------------
(* BMCs.  Pages and API commands clean, once; imports do not.              *)
NewBMC(w) ==
    /\ \E m \in machines, c \in Macs, a \in Entered \union {None} :
          Begin(w, [NewJob("page", "cleanbmc", m) EXCEPT !.mac = c, !.ip = a])
    /\ UNCHANGED rows

EditBMC(w) ==
    /\ \E b \in bmcs, c \in Macs, a \in Entered \union {None} :
          Begin(w, [NewJob("page", "cleanbmc", b.machine) EXCEPT
                       !.id = b.id, !.mac = c, !.ip = a])
    /\ UNCHANGED rows

CleanBMC(w) ==
    /\ \E j \in At(w, "cleanbmc") :
          IF /\ \A r \in nics : r.mac # j.mac
             /\ j.ip # None => \A r \in nics : r.ip # j.ip
          THEN To(w, j, "savebmc") ELSE End(w)
    /\ Quiet /\ UNCHANGED rows

FetchBMC(w) ==
    /\ \E b \in bmcs :
          Begin(w, [NewJob("fetchbmc", "savebmc", b.machine) EXCEPT
                       !.id = b.id, !.mac = b.mac, !.ip = b.ip, !.from = b.from,
                       !.read = b.by])
    /\ UNCHANGED rows

(* The second half of BMC.fetch_netbox.  An address that is written with   *)
(* its network, as NetBox writes it, raises ValueError.                    *)
AnswerBMC(w) ==
    /\ \E j \in At(w, "answerbmc") :
          \/ \E a \in Entered :
                Go(w, [j EXCEPT !.kind = "fetched", !.step = "savebmc", !.ip = a,
                                !.from = "netbox", !.read = {}])
          \/ End(w)
    /\ Quiet /\ UNCHANGED rows

(* The management interface in Machine.fetch_netbox: the BMC is the one    *)
(* with its MAC address, if the machine has one, or a new one.             *)
Management(w) ==
    /\ \E j \in At(w, "mgmt") :
          \/ \E c \in Macs, a \in Entered \union {None} :
                LET own == {b \in bmcs : b.machine = j.machine}
                    new == [j EXCEPT !.kind = "fetched", !.step = "savebmc", !.mac = c,
                                     !.ip = a, !.id = j.num, !.from = "netbox"]
                IN  \/ own = {} /\ Go(w, new)
                    \/ \E b \in own :
                          /\ b.mac = c
                          /\ Go(w, [new EXCEPT !.id = b.id,
                                               !.ip = IF a = None THEN b.ip ELSE a])
          \/ End(w)
    /\ Quiet /\ UNCHANGED rows

SaveBMC(w) ==
    /\ \E j \in At(w, "savebmc") :
          LET others == {b \in bmcs : b.id # j.id}
              row == [id |-> j.id, machine |-> j.machine, mac |-> j.mac, ip |-> j.ip,
                      from |-> j.from, by |-> j.read \union {j.num}]
              clash == {b \in others : \/ b.machine = j.machine \/ b.mac = j.mac
                                       \/ j.ip # None /\ b.ip = j.ip}
          IN  \/ /\ j.machine \in machines /\ clash = {}
                 /\ bmcs' = others \union {row}
                 /\ To(w, j, "haspower")
              \/ /\ j.machine \notin machines \/ clash # {}
                 /\ End(w) /\ UNCHANGED bmcs
    /\ Quiet /\ UNCHANGED <<machines, nics, powers, devices>>

(* BMC.save: a machine that may have a BMC is given a remote power by it   *)
(* if it has none at this moment.                                          *)
AfterPower(j) == IF j.kind = "fetchbmc" THEN {"answerbmc"} ELSE {}

HasPower(w) ==
    /\ \E j \in At(w, "haspower") :
          IF j.machine \notin Hosted /\ \A p \in powers : p.machine # j.machine
          THEN Go(w, [j EXCEPT !.step = "checkpower", !.way = "bmc", !.device = Nothing])
          ELSE IF AfterPower(j) = {} THEN End(w)
               ELSE \E s \in AfterPower(j) : To(w, j, s)
    /\ Quiet /\ UNCHANGED rows

DeleteBMC ==
    /\ \E b \in bmcs : bmcs' = bmcs \ {b}
    /\ Quiet /\ UNCHANGED <<machines, nics, powers, devices, job>>
-----------------------------------------------------------------------------
(* Remote power.  The page to make one and the API command overwrite the   *)
(* one there is, as the page to edit one does.                             *)
SetPower(w) ==
    /\ \E m \in machines, y \in Way, d \in devices \union {Nothing} :
          Begin(w, [NewJob("power", "checkpower", m) EXCEPT !.way = y, !.device = d])
    /\ UNCHANGED rows

(* RemotePower.save: what each kind of fence agent needs, and what of the  *)
(* device it keeps.                                                        *)
Permitted(j) ==
    CASE j.way = "rpowerdevice" -> j.device # Nothing
      [] j.way = "bmc"          -> \E b \in bmcs : b.machine = j.machine
      [] j.way = "hypervisor"   -> j.machine \in Hosted

Stays(j) == j.device
KeptDevice(j) == IF j.way = "rpowerdevice" THEN j.device ELSE Nothing

CheckPower(w) ==
    /\ \E j \in At(w, "checkpower") :
          IF Permitted(j) THEN Go(w, [j EXCEPT !.step = "savepower", !.device = KeptDevice(j)])
          ELSE End(w)
    /\ Quiet /\ UNCHANGED rows

SavePower(w) ==
    /\ \E j \in At(w, "savepower") :
          LET old == {p \in powers : p.machine = j.machine}
              row == [machine |-> j.machine, way |-> j.way, device |-> j.device, by |-> j.num]
          IN  \/ /\ j.machine \in machines /\ j.device \in devices \union {Nothing}
                 /\ powers' = (powers \ old) \union {row}
                 /\ displaced' = IF j.kind = "power" THEN displaced
                                 ELSE displaced \union {<<j.num, p.by>> : p \in old}
                 /\ IF AfterPower(j) = {} THEN End(w)
                    ELSE \E s \in AfterPower(j) : To(w, j, s)
              \/ /\ j.machine \notin machines \/ j.device \notin devices \union {Nothing}
                 /\ End(w) /\ UNCHANGED <<powers, displaced>>
    /\ UNCHANGED <<machines, nics, bmcs, devices, made, together, stranded>>

DeletePower ==
    /\ \E p \in powers : powers' = powers \ {p}
    /\ Quiet /\ UNCHANGED <<machines, nics, bmcs, devices, job>>

(* References are followed on deletion.                                    *)
DeleteDevice ==
    /\ \E d \in devices :
          /\ devices' = devices \ {d}
          /\ powers' = {p \in powers : p.device # d}
    /\ Quiet /\ UNCHANGED <<machines, nics, bmcs, job>>

DeleteMachine ==
    /\ \E m \in machines :
          /\ machines' = machines \ {m}
          /\ nics' = {r \in nics : r.machine # m}
          /\ bmcs' = {b \in bmcs : b.machine # m}
          /\ powers' = {p \in powers : p.machine # m}
    /\ Quiet /\ UNCHANGED <<devices, job>>

(* Who begins jobs: pages and commands, and the NetBox tasks, which fetch  *)
(* one object after the other until one raises.                            *)
Requests(w) ==
    \/ AddMachine(w) \/ NewInterface(w) \/ EditInterface(w)
    \/ NewBMC(w) \/ EditBMC(w) \/ SetPower(w)

Imports(w) == SyncInterface(w) \/ FetchInterface(w) \/ FetchBMC(w)

Continue(w) ==
    \/ Suggest(w) \/ Answer(w) \/ Clean(w) \/ SaveInterface(w)
    \/ CleanBMC(w) \/ AnswerBMC(w) \/ Management(w) \/ SaveBMC(w) \/ HasPower(w)
    \/ CheckPower(w) \/ SavePower(w)
    \/ Fail(w)

Delete ==
    DeleteInterface \/ DeleteBMC \/ DeletePower \/ DeleteDevice \/ DeleteMachine

Next ==
    \/ \E w \in Workers : Requests(w) \/ Imports(w) \/ Continue(w)
    \/ AddFromNetbox \/ Delete

Spec == Init /\ [][Next]_vars
-----------------------------------------------------------------------------
(* Types, what the database sees to, and that a remote power has a device  *)
(* exactly if its fence agent is of that kind, so that get_power_address   *)
(* has one to ask ("No remote power device set for this machine"), whoever *)
(* saves, deletes or attaches devices and BMCs meanwhile.                  *)
PartsInv ==
    /\ machines \subseteq Machines /\ nics \subseteq Nic /\ bmcs \subseteq Bmc
    /\ powers \subseteq Power /\ devices \subseteq Devices
    /\ \A j \in InHand : j.kind \in Kind /\ j.step \in Step /\ j.ip \in Address
    /\ \A r, s \in nics : r # s => r.id # s.id /\ r.mac # s.mac
                                   /\ (r.ip # None => r.ip # s.ip)
    /\ \A p, q \in powers : p.machine = q.machine => p = q
    /\ \A r \in nics \union bmcs \union powers : r.machine \in machines
    /\ \A p \in powers : p.way = "rpowerdevice" <=> p.device \in devices

(* Rows whose contents are of jobs that were in hand at once; who saves a  *)
(* row as it was read, for a time stamp, adds itself to those it is of.    *)
Overlapped(r, s) == \E m \in r.by, n \in s.by : {m, n} \in together

(* What the database does not see to goes wrong only for jobs that were in *)
(* hand at the same time, or by an import of a BMC, which is not cleaned:  *)
(* two primary interfaces of a machine (get_primary_networkinterface then  *)
(* raises), an address of both an interface and a BMC, a remote power that *)
(* was chosen and is replaced by that of a new BMC, and a machine that is  *)
(* left without interface because its suggested address is refused.        *)
OnlyOverlapping ==
    /\ \A r, s \in nics : r # s /\ r.machine = s.machine /\ r.primary /\ s.primary
                             => Overlapped(r, s)
    /\ \A r \in nics, b \in bmcs :
          \/ r.mac # b.mac /\ (r.ip = None \/ r.ip # b.ip)
          \/ b.from = "netbox" \/ Overlapped(r, b)
    /\ \A x \in displaced : {x[1], x[2]} \in together
    /\ \A n \in stranded : \E x \in together : n \in x
=============================================================================
