-------------------------- MODULE MachinePartsProofs -------------------------
(***************************************************************************)
(* Proofs about MachineParts, for any machines, addresses, devices,        *)
(* workers and number of jobs: what the database sees to (Fine), and that  *)
(* the rules it does not see to are broken only by jobs that were in hand  *)
(* at once (OverInv).                                                      *)
(***************************************************************************)
EXTENDS MachineParts, WellFoundedInduction, TLAPS

(* A job in hand: its types, and what is known of it at some of its steps. *)
JobRec == [kind : Kind, step : Step, num : Jobs, machine : Machines, id : Jobs,
           mac : Macs \union {Nothing}, ip : Address, primary : BOOLEAN,
           from : {"form", "netbox"}, way : Way, device : Devices \union {Nothing},
           read : SUBSET Jobs]

Parted(j) ==
    /\ j.kind = "power" => j.step \in {"checkpower", "savepower"}
    /\ j.kind # "power" => j.mac \in Macs

Powered(j) == j.step = "savepower" => (j.way = "rpowerdevice" <=> j.device # Nothing)

JobFine(j) == j \in JobRec /\ Parted(j) /\ Powered(j)

JobsFine ==
    /\ job = [w \in Workers |-> job[w]]
    /\ \A w \in Workers : \A j \in job[w] : JobFine(j)
    /\ made \in Jobs

NicsFine ==
    /\ nics \subseteq Nic
    /\ \A r, s \in nics : r # s => r.id # s.id /\ r.mac # s.mac /\ (r.ip # None => r.ip # s.ip)
    /\ \A r \in nics : r.machine \in machines

BmcsFine == bmcs \subseteq Bmc /\ \A b \in bmcs : b.machine \in machines

PowersFine ==
    /\ powers \subseteq Power /\ devices \subseteq Devices
    /\ \A p, q \in powers : p.machine = q.machine => p = q
    /\ \A p \in powers : /\ p.machine \in machines
                         /\ p.way = "rpowerdevice" <=> p.device \in devices

Fine == machines \subseteq Machines /\ NicsFine /\ BmcsFine /\ PowersFine /\ JobsFine

LEMMA FineIsPartsInv == Fine => PartsInv
BY DEF Fine, NicsFine, BmcsFine, PowersFine, JobsFine, JobFine, JobRec, InHand, PartsInv
-----------------------------------------------------------------------------
(* Addresses.  What is suggested is the least address there is to suggest. *)
LEMMA AddressesAre ==
    /\ Entered \subseteq Address /\ None \in Address /\ Loopback \in Address
    /\ \A i \in 0..(Size - 1) : NetworkIp + i \in Address
BY PartsAssumption DEF Address

LEMMA LeastNatural ==
    ASSUME NEW T, T \subseteq Nat, T # {}
    PROVE  \E a \in T : \A b \in T : a <= b
<1>1. IsWellFoundedOn(OpToRel(<, Nat), Nat)
    BY NatLessThanWellFounded, Zenon
<1>2. PICK a \in T : \A b \in T : ~(<<b, a>> \in OpToRel(<, Nat))
    BY <1>1, WFMin, Zenon
<1>3. \A b \in T : ~(b < a)
    BY <1>2, Zenon DEF OpToRel
<1> QED BY <1>3

LEMMA SuggestedIs ==
    /\ SuggestHostIp = Loopback \/ SuggestHostIp \in Suggestible
    /\ Suggestible \subseteq {NetworkIp + i : i \in 0..(Size - 1)}
<1>0. Suggestible \subseteq {NetworkIp + i : i \in 0..(Size - 1)}
    BY DEF Suggestible, Visited
<1>1. CASE Suggestible = {}
    BY <1>0, <1>1 DEF SuggestHostIp
<1>2. CASE Suggestible # {}
  <2>1. Suggestible \subseteq Nat
    BY <1>0, PartsAssumption
  <2>2. PICK a \in Suggestible : \A b \in Suggestible : a <= b
    BY <1>2, <2>1, LeastNatural
  <2> QED BY <1>0, <1>2, <2>2 DEF SuggestHostIp
<1> QED BY <1>1, <1>2

LEMMA SuggestedAddress == SuggestHostIp \in Address
BY SuggestedIs, AddressesAre
-----------------------------------------------------------------------------
(* Jobs.  A worker's next job, if it has one, has to be fine.              *)
Hands(w) ==
    \E next :
        /\ job' = [job EXCEPT ![w] = next]
        /\ \A j \in next : JobFine(j)
        /\ made' \in Jobs

LEMMA HandsFine ==
    ASSUME JobsFine, NEW w \in Workers, Hands(w)
    PROVE  JobsFine'
<1>1. PICK next :
        /\ job' = [job EXCEPT ![w] = next]
        /\ \A j \in next : JobFine(j)
        /\ made' \in Jobs
    BY DEF Hands
<1>2. job = [v \in Workers |-> job[v]]
    BY DEF JobsFine
<1>3. job' = [v \in Workers |-> job'[v]] /\ job'[w] = next
       /\ \A v \in Workers : v # w => job'[v] = job[v]
    BY <1>1, <1>2
<1> QED BY <1>1, <1>3 DEF JobsFine

LEMMA BeginHands ==
    ASSUME JobsFine, NEW w \in Workers, NEW j, Begin(w, j), JobFine(j)
    PROVE  Hands(w)
<1>1. PICK next : next = {j}
    OBVIOUS
<1>2. made' \in Jobs
    BY PartsAssumption DEF JobsFine, Begin, Jobs
<1>3. job' = [job EXCEPT ![w] = next] /\ \A i \in next : JobFine(i)
    BY <1>1 DEF Begin
<1> QED BY <1>2, <1>3 DEF Hands

LEMMA GoHands ==
    ASSUME JobsFine, NEW w \in Workers, NEW j, Go(w, j), JobFine(j), made' = made
    PROVE  Hands(w)
<1>1. PICK next : next = {j}
    OBVIOUS
<1>2. job' = [job EXCEPT ![w] = next] /\ \A i \in next : JobFine(i)
    BY <1>1 DEF Go
<1>3. made' \in Jobs
    BY DEF JobsFine
<1> QED BY <1>2, <1>3 DEF Hands

LEMMA EndHands ==
    ASSUME JobsFine, NEW w \in Workers, End(w), made' = made
    PROVE  Hands(w)
<1>1. PICK next : next = {}
    OBVIOUS
<1>2. job' = [job EXCEPT ![w] = next] /\ \A i \in next : JobFine(i)
    BY <1>1 DEF End
<1>3. made' \in Jobs
    BY DEF JobsFine
<1> QED BY <1>2, <1>3 DEF Hands

(* What goes on to its next step.                                          *)
LEMMA StepOf ==
    ASSUME NEW j, JobFine(j), j.kind # "power", NEW s \in Step \ {"savepower"}
    PROVE  JobFine([j EXCEPT !.step = s])
BY DEF JobFine, JobRec, Parted, Powered

LEMMA AtIs ==
    ASSUME JobsFine, NEW w \in Workers, NEW s, NEW j \in At(w, s)
    PROVE  JobFine(j) /\ j.step = s /\ (s \notin {"checkpower", "savepower"} => j.kind # "power")
BY DEF JobsFine, At, JobFine, Parted
-----------------------------------------------------------------------------
(* Steps that change no rows.                                              *)
LEMMA RowsUnchanged ==
    ASSUME Fine, UNCHANGED rows, JobsFine'
    PROVE  Fine'
BY DEF Fine, rows, NicsFine, BmcsFine, PowersFine

LEMMA HandsOnly ==
    ASSUME Fine, UNCHANGED rows, NEW w \in Workers, Hands(w)
    PROVE  Fine'
BY RowsUnchanged, HandsFine DEF Fine

LEMMA RoomForJob ==
    ASSUME Fine, NEW w \in Workers, NEW j, Begin(w, j)
    PROVE  JobsFine /\ machines \subseteq Machines /\ made + 1 \in Jobs
<1>1. JobsFine /\ machines \subseteq Machines
    BY DEF Fine
<1>2. made \in 0..MaxJobs /\ made < MaxJobs
    BY <1>1 DEF JobsFine, Jobs, Begin
<1> QED BY <1>1, <1>2, PartsAssumption DEF Jobs

(* A job that is begun with what was entered or read.                      *)
LEMMA RequestsHand ==
    ASSUME Fine, NEW w \in Workers,
           NewInterface(w) \/ EditInterface(w) \/ NewBMC(w) \/ EditBMC(w)
    PROVE  Hands(w) /\ UNCHANGED rows
<1>0. machines \subseteq Machines
    BY DEF Fine
<1>1. Entered \union {None} \subseteq Address
    BY AddressesAre
<1>2. CASE NewInterface(w)
  <2>1. PICK m \in machines, c \in Macs, a \in Entered \union {None}, p \in BOOLEAN :
          Begin(w, [NewJob("page", "clean", m) EXCEPT !.mac = c, !.ip = a, !.primary = p])
    BY <1>2 DEF NewInterface
  <2>2. PICK n : n = [NewJob("page", "clean", m) EXCEPT !.mac = c, !.ip = a, !.primary = p]
    OBVIOUS
  <2>3. JobFine(n)
    BY <1>0, <1>1, <2>1, <2>2, RoomForJob DEF NewJob, JobFine, JobRec, Parted, Powered, Kind, Step, Way
  <2> QED BY <1>2, <2>1, <2>2, <2>3, RoomForJob, BeginHands DEF NewInterface
<1>3. CASE EditInterface(w)
  <2>1. PICK r \in nics, c \in Macs, a \in Entered \union {None}, p \in BOOLEAN :
          Begin(w, [NewJob("page", "clean", r.machine) EXCEPT
                       !.id = r.id, !.mac = c, !.ip = a, !.primary = p])
    BY <1>3 DEF EditInterface
  <2>2. PICK n : n = [NewJob("page", "clean", r.machine) EXCEPT
                       !.id = r.id, !.mac = c, !.ip = a, !.primary = p]
    OBVIOUS
  <2>3. r.machine \in Machines /\ r.id \in Jobs
    BY DEF Fine, NicsFine, Nic
  <2>4. JobFine(n)
    BY <1>1, <2>1, <2>2, <2>3, RoomForJob DEF NewJob, JobFine, JobRec, Parted, Powered, Kind, Step, Way
  <2> QED BY <1>3, <2>1, <2>2, <2>4, RoomForJob, BeginHands DEF EditInterface
<1>4. CASE NewBMC(w)
  <2>1. PICK m \in machines, c \in Macs, a \in Entered \union {None} :
          Begin(w, [NewJob("page", "cleanbmc", m) EXCEPT !.mac = c, !.ip = a])
    BY <1>4 DEF NewBMC
  <2>2. PICK n : n = [NewJob("page", "cleanbmc", m) EXCEPT !.mac = c, !.ip = a]
    OBVIOUS
  <2>3. JobFine(n)
    BY <1>0, <1>1, <2>1, <2>2, RoomForJob DEF NewJob, JobFine, JobRec, Parted, Powered, Kind, Step, Way
  <2> QED BY <1>4, <2>1, <2>2, <2>3, RoomForJob, BeginHands DEF NewBMC
<1>5. CASE EditBMC(w)
  <2>1. PICK b \in bmcs, c \in Macs, a \in Entered \union {None} :
          Begin(w, [NewJob("page", "cleanbmc", b.machine) EXCEPT
                       !.id = b.id, !.mac = c, !.ip = a])
    BY <1>5 DEF EditBMC
  <2>2. PICK n : n = [NewJob("page", "cleanbmc", b.machine) EXCEPT
                       !.id = b.id, !.mac = c, !.ip = a]
    OBVIOUS
  <2>3. b.machine \in Machines /\ b.id \in Jobs
    BY DEF Fine, BmcsFine, Bmc
  <2>4. JobFine(n)
    BY <1>1, <2>1, <2>2, <2>3, RoomForJob DEF NewJob, JobFine, JobRec, Parted, Powered, Kind, Step, Way
  <2> QED BY <1>5, <2>1, <2>2, <2>4, RoomForJob, BeginHands DEF EditBMC
<1> QED BY <1>2, <1>3, <1>4, <1>5

LEMMA PowerHands ==
    ASSUME Fine, NEW w \in Workers, SetPower(w)
    PROVE  Hands(w) /\ UNCHANGED rows
<1>1. PICK m \in machines, y \in Way, d \in devices \union {Nothing} :
        Begin(w, [NewJob("power", "checkpower", m) EXCEPT !.way = y, !.device = d])
    BY DEF SetPower
<1>2. PICK n : n = [NewJob("power", "checkpower", m) EXCEPT !.way = y, !.device = d]
    OBVIOUS
<1>3. m \in Machines /\ d \in Devices \union {Nothing}
    BY DEF Fine, PowersFine
<1>4. JobFine(n)
    BY <1>1, <1>2, <1>3, AddressesAre, RoomForJob
    DEF NewJob, JobFine, JobRec, Parted, Powered, Kind, Step
<1> QED BY <1>1, <1>2, <1>4, RoomForJob, BeginHands DEF SetPower

LEMMA ImportsHand ==
    ASSUME Fine, NEW w \in Workers, Imports(w)
    PROVE  Hands(w) /\ UNCHANGED rows
<1>0. machines \subseteq Machines /\ nics \subseteq Nic /\ bmcs \subseteq Bmc
    BY DEF Fine, NicsFine, BmcsFine
<1>1. Entered \union {None} \subseteq Address
    BY AddressesAre
<1>2. CASE SyncInterface(w)
  <2>1. PICK m \in machines, c \in Macs, a \in Entered \union {None} :
          LET new == [NewJob("sync", "clean", m) EXCEPT !.mac = c, !.ip = a]
              found == {r \in nics : r.mac = c}
          IN  \/ /\ found = {}
                 /\ Begin(w, new)
              \/ \E r \in found :
                    Begin(w, [new EXCEPT !.id = r.id, !.primary = r.primary,
                                         !.ip = IF a = None THEN r.ip ELSE a])
    BY <1>2 DEF SyncInterface
  <2>2. PICK new : new = [NewJob("sync", "clean", m) EXCEPT !.mac = c, !.ip = a]
    OBVIOUS
  <2>3. made + 1 \in Jobs /\ JobsFine
    BY <2>1, RoomForJob
  <2>4. JobFine(new) /\ new.kind = "sync" /\ new.step = "clean"
    BY <1>0, <1>1, <2>2, <2>3 DEF NewJob, JobFine, JobRec, Parted, Powered, Kind, Step, Way
  <2>5. CASE Begin(w, new)
    BY <1>2, <2>3, <2>4, <2>5, BeginHands DEF SyncInterface
  <2>6. ASSUME NEW r \in nics,
               Begin(w, [new EXCEPT !.id = r.id, !.primary = r.primary,
                                    !.ip = IF a = None THEN r.ip ELSE a])
        PROVE  Hands(w)
    <3>1. PICK n : n = [new EXCEPT !.id = r.id, !.primary = r.primary,
                                   !.ip = IF a = None THEN r.ip ELSE a]
        OBVIOUS
    <3>2. r.id \in Jobs /\ r.primary \in BOOLEAN /\ r.ip \in Address
        BY <1>0 DEF Nic
    <3>3. JobFine(n)
        BY <1>1, <2>4, <3>1, <3>2 DEF JobFine, JobRec, Parted, Powered
    <3> QED BY <2>3, <2>6, <3>1, <3>3, BeginHands
  <2> QED BY <1>2, <2>1, <2>2, <2>5, <2>6 DEF SyncInterface
<1>3. CASE FetchInterface(w)
  <2>1. PICK r \in nics :
          Begin(w, [NewJob("fetch", "clean", r.machine) EXCEPT
                       !.id = r.id, !.mac = r.mac, !.ip = r.ip, !.primary = r.primary,
                       !.read = r.by])
    BY <1>3 DEF FetchInterface
  <2>2. PICK n : n = [NewJob("fetch", "clean", r.machine) EXCEPT
                       !.id = r.id, !.mac = r.mac, !.ip = r.ip, !.primary = r.primary,
                       !.read = r.by]
    OBVIOUS
  <2>3. /\ r.machine \in Machines /\ r.id \in Jobs /\ r.mac \in Macs /\ r.ip \in Address
        /\ r.primary \in BOOLEAN /\ r.by \in SUBSET Jobs
    BY <1>0 DEF Nic
  <2>4. JobFine(n)
    BY <2>1, <2>2, <2>3, RoomForJob DEF NewJob, JobFine, JobRec, Parted, Powered, Kind, Step, Way
  <2> QED BY <1>3, <2>1, <2>2, <2>4, RoomForJob, BeginHands DEF FetchInterface
<1>4. CASE FetchBMC(w)
  <2>1. PICK b \in bmcs :
          Begin(w, [NewJob("fetchbmc", "savebmc", b.machine) EXCEPT
                       !.id = b.id, !.mac = b.mac, !.ip = b.ip, !.from = b.from,
                       !.read = b.by])
    BY <1>4 DEF FetchBMC
  <2>2. PICK n : n = [NewJob("fetchbmc", "savebmc", b.machine) EXCEPT
                       !.id = b.id, !.mac = b.mac, !.ip = b.ip, !.from = b.from,
                       !.read = b.by]
    OBVIOUS
  <2>3. /\ b.machine \in Machines /\ b.id \in Jobs /\ b.mac \in Macs /\ b.ip \in Address
        /\ b.from \in {"form", "netbox"} /\ b.by \in SUBSET Jobs
    BY <1>0 DEF Bmc
  <2>4. JobFine(n)
    BY <2>1, <2>2, <2>3, RoomForJob DEF NewJob, JobFine, JobRec, Parted, Powered, Kind, Step, Way
  <2> QED BY <1>4, <2>1, <2>2, <2>4, RoomForJob, BeginHands DEF FetchBMC
<1> QED BY <1>2, <1>3, <1>4 DEF Imports

(* A job that goes on without a row written.                               *)
AnswersHand(w) == Suggest(w) \/ Answer(w) \/ AnswerBMC(w) \/ Management(w)

LEMMA AnswersAreFine ==
    ASSUME Fine, NEW w \in Workers, AnswersHand(w)
    PROVE  Hands(w) /\ UNCHANGED rows
<1>0. JobsFine /\ bmcs \subseteq Bmc
    BY DEF Fine, BmcsFine
<1>1. made' = made /\ UNCHANGED rows
    BY DEF AnswersHand, Suggest, Answer, AnswerBMC, Management, Quiet
<1>2. Entered \union {None} \subseteq Address
    BY AddressesAre
<1>3. CASE Suggest(w)
  <2>1. PICK j \in At(w, "suggest") :
          Go(w, [j EXCEPT !.step = "clean", !.ip = SuggestHostIp])
    BY <1>3 DEF Suggest
  <2>2. PICK n : n = [j EXCEPT !.step = "clean", !.ip = SuggestHostIp]
    OBVIOUS
  <2>3. JobFine(j) /\ j.kind # "power"
    BY <1>0, AtIs
  <2>4. JobFine(n)
    BY <2>2, <2>3, SuggestedAddress DEF JobFine, JobRec, Parted, Powered, Step
  <2> QED BY <1>0, <1>1, <2>1, <2>2, <2>4, GoHands
<1>4. CASE Answer(w)
  <2>1. PICK j \in At(w, "answer") :
          \/ \E a \in Entered, p \in BOOLEAN :
                Go(w, [j EXCEPT !.kind = "fetched", !.step = "clean", !.ip = a, !.primary = p,
                                !.read = {}])
          \/ End(w)
    BY <1>4 DEF Answer
  <2>2. CASE End(w)
    BY <1>0, <1>1, <2>2, EndHands
  <2>3. ASSUME NEW a \in Entered, NEW p \in BOOLEAN,
               Go(w, [j EXCEPT !.kind = "fetched", !.step = "clean", !.ip = a, !.primary = p,
                               !.read = {}])
        PROVE  Hands(w)
    <3>1. PICK n : n = [j EXCEPT !.kind = "fetched", !.step = "clean", !.ip = a,
                                 !.primary = p, !.read = {}]
        OBVIOUS
    <3>2. JobFine(j) /\ j.kind # "power"
        BY <1>0, AtIs
    <3>3. JobFine(n)
        BY <1>2, <3>1, <3>2 DEF JobFine, JobRec, Parted, Powered, Kind, Step
    <3> QED BY <1>0, <1>1, <2>3, <3>1, <3>3, GoHands
  <2> QED BY <1>1, <2>1, <2>2, <2>3
<1>5. CASE AnswerBMC(w)
  <2>1. PICK j \in At(w, "answerbmc") :
          \/ \E a \in Entered :
                Go(w, [j EXCEPT !.kind = "fetched", !.step = "savebmc", !.ip = a,
                                !.from = "netbox", !.read = {}])
          \/ End(w)
    BY <1>5 DEF AnswerBMC
  <2>2. CASE End(w)
    BY <1>0, <1>1, <2>2, EndHands
  <2>3. ASSUME NEW a \in Entered,
               Go(w, [j EXCEPT !.kind = "fetched", !.step = "savebmc", !.ip = a,
                               !.from = "netbox", !.read = {}])
        PROVE  Hands(w)
    <3>1. PICK n : n = [j EXCEPT !.kind = "fetched", !.step = "savebmc", !.ip = a,
                                 !.from = "netbox", !.read = {}]
        OBVIOUS
    <3>2. JobFine(j) /\ j.kind # "power"
        BY <1>0, AtIs
    <3>3. JobFine(n)
        BY <1>2, <3>1, <3>2 DEF JobFine, JobRec, Parted, Powered, Kind, Step
    <3> QED BY <1>0, <1>1, <2>3, <3>1, <3>3, GoHands
  <2> QED BY <1>1, <2>1, <2>2, <2>3
<1>6. CASE Management(w)
  <2>1. PICK j \in At(w, "mgmt") :
          \/ \E c \in Macs, a \in Entered \union {None} :
                LET own == {b \in bmcs : b.machine = j.machine}
                    new == [j EXCEPT !.kind = "fetched", !.step = "savebmc", !.mac = c,
                                     !.ip = a, !.id = j.num, !.from = "netbox"]
                IN  \/ own = {} /\ Go(w, new)
                    \/ \E b \in own :
                          /\ b.mac = c
                          /\ Go(w, [new EXCEPT !.id = b.id,
                                               !.ip = IF a = None THEN b.ip ELSE a])
          \/ End(w)
    BY <1>6 DEF Management
  <2>2. JobFine(j) /\ j.kind # "power"
    BY <1>0, AtIs
  <2>3. CASE End(w)
    BY <1>0, <1>1, <2>3, EndHands
  <2>4. ASSUME NEW c \in Macs, NEW a \in Entered \union {None}, NEW new,
               new = [j EXCEPT !.kind = "fetched", !.step = "savebmc", !.mac = c,
                               !.ip = a, !.id = j.num, !.from = "netbox"]
        PROVE  JobFine(new) /\ new.kind = "fetched" /\ new.step = "savebmc"
    BY <1>2, <2>2, <2>4 DEF JobFine, JobRec, Parted, Powered, Kind, Step
  <2>5. ASSUME NEW c \in Macs, NEW a \in Entered \union {None}, NEW new, NEW b \in bmcs,
               new = [j EXCEPT !.kind = "fetched", !.step = "savebmc", !.mac = c,
                               !.ip = a, !.id = j.num, !.from = "netbox"],
               Go(w, [new EXCEPT !.id = b.id, !.ip = IF a = None THEN b.ip ELSE a])
        PROVE  Hands(w)
    <3>1. PICK n : n = [new EXCEPT !.id = b.id, !.ip = IF a = None THEN b.ip ELSE a]
        OBVIOUS
    <3>2. b.id \in Jobs /\ b.ip \in Address
        BY <1>0 DEF Bmc
    <3>3. JobFine(new) /\ new.kind = "fetched" /\ new.step = "savebmc"
        BY <2>4, <2>5
    <3>4. JobFine(n)
        BY <1>2, <3>1, <3>2, <3>3 DEF JobFine, JobRec, Parted, Powered
    <3> QED BY <1>0, <1>1, <2>5, <3>1, <3>4, GoHands
  <2>6. ASSUME NEW c \in Macs, NEW a \in Entered \union {None}, NEW new,
               new = [j EXCEPT !.kind = "fetched", !.step = "savebmc", !.mac = c,
                               !.ip = a, !.id = j.num, !.from = "netbox"],
               Go(w, new)
        PROVE  Hands(w)
    BY <1>0, <1>1, <2>4, <2>6, GoHands
  <2> QED BY <1>1, <2>1, <2>3, <2>5, <2>6
<1> QED BY <1>3, <1>4, <1>5, <1>6 DEF AnswersHand

(* The checks, which leave the job as it is but for its step, or end it.   *)
ChecksHand(w) ==
    Clean(w) \/ CleanBMC(w) \/ HasPower(w) \/ CheckPower(w) \/ Fail(w)

LEMMA ChecksAreFine ==
    ASSUME Fine, NEW w \in Workers, ChecksHand(w)
    PROVE  Hands(w) /\ UNCHANGED rows
<1>0. JobsFine
    BY DEF Fine
<1>1. made' = made /\ UNCHANGED rows
    BY DEF ChecksHand, Clean, Refuse, CleanBMC, HasPower, CheckPower, Fail, Quiet
<1>2. ASSUME NEW j, JobFine(j), j.kind # "power", NEW s \in Step \ {"savepower"},
             To(w, j, s)
      PROVE  Hands(w)
  <2>1. PICK n : n = [j EXCEPT !.step = s]
    OBVIOUS
  <2>2. JobFine(n)
    BY <1>2, <2>1, StepOf
  <2> QED BY <1>0, <1>1, <1>2, <2>1, <2>2, GoHands DEF To
<1>3. CASE Clean(w)
  <2>1. PICK j \in At(w, "clean") : To(w, j, "save") \/ End(w)
    BY <1>3 DEF Clean, Refuse
  <2>2. JobFine(j) /\ j.kind # "power"
    BY <1>0, AtIs
  <2> QED BY <1>0, <1>1, <1>2, <2>1, <2>2, EndHands DEF Step
<1>4. CASE CleanBMC(w)
  <2>1. PICK j \in At(w, "cleanbmc") : To(w, j, "savebmc") \/ End(w)
    BY <1>4 DEF CleanBMC
  <2>2. JobFine(j) /\ j.kind # "power"
    BY <1>0, AtIs
  <2> QED BY <1>0, <1>1, <1>2, <2>1, <2>2, EndHands DEF Step
<1>5. CASE HasPower(w)
  <2>1. PICK j \in At(w, "haspower") :
          \/ Go(w, [j EXCEPT !.step = "checkpower", !.way = "bmc", !.device = Nothing])
          \/ To(w, j, "answerbmc")
          \/ End(w)
    BY <1>5 DEF HasPower, AfterPower
  <2>2. JobFine(j) /\ j.kind # "power"
    BY <1>0, AtIs
  <2>3. PICK n : n = [j EXCEPT !.step = "checkpower", !.way = "bmc", !.device = Nothing]
    OBVIOUS
  <2>4. JobFine(n)
    BY <2>2, <2>3 DEF JobFine, JobRec, Parted, Powered, Step, Way
  <2> QED BY <1>0, <1>1, <1>2, <2>1, <2>2, <2>3, <2>4, GoHands, EndHands DEF Step
<1>6. CASE CheckPower(w)
  <2>1. PICK j \in At(w, "checkpower") :
          \/ Permitted(j) /\ Go(w, [j EXCEPT !.step = "savepower", !.device = KeptDevice(j)])
          \/ End(w)
    BY <1>6 DEF CheckPower
  <2>2. JobFine(j) /\ j.step = "checkpower"
    BY <1>0, AtIs
  <2>3. CASE End(w)
    BY <1>0, <1>1, <2>3, EndHands
  <2>4. CASE Permitted(j) /\ Go(w, [j EXCEPT !.step = "savepower", !.device = KeptDevice(j)])
    <3>1. PICK n : n = [j EXCEPT !.step = "savepower", !.device = KeptDevice(j)]
        OBVIOUS
    <3>2. /\ KeptDevice(j) \in Devices \union {Nothing}
          /\ j.way = "rpowerdevice" <=> KeptDevice(j) # Nothing
        BY <2>2, <2>4 DEF KeptDevice, Permitted, JobFine, JobRec, Way
    <3>3. JobFine(n)
        BY <2>2, <3>1, <3>2 DEF JobFine, JobRec, Parted, Powered, Step
    <3> QED BY <1>0, <1>1, <2>4, <3>1, <3>3, GoHands
  <2> QED BY <2>1, <2>3, <2>4
<1>7. CASE Fail(w)
  BY <1>0, <1>1, <1>7, EndHands DEF Fail
<1> QED BY <1>1, <1>3, <1>4, <1>5, <1>6, <1>7 DEF ChecksHand
-----------------------------------------------------------------------------
(* Rows saved.                                                             *)
LEMMA AddedFine ==
    ASSUME Fine, NEW w \in Workers, AddMachine(w)
    PROVE  Fine'
<1>1. PICK m \in Machines \ machines, c \in Macs :
        /\ Begin(w, [NewJob("add", "suggest", m) EXCEPT !.mac = c, !.primary = TRUE])
        /\ machines' = machines \union {m}
    BY DEF AddMachine
<1>2. PICK n : n = [NewJob("add", "suggest", m) EXCEPT !.mac = c, !.primary = TRUE]
    OBVIOUS
<1>3. JobFine(n)
    BY <1>1, <1>2, AddressesAre, RoomForJob
    DEF NewJob, JobFine, JobRec, Parted, Powered, Kind, Step, Way
<1>4. JobsFine'
    BY <1>1, <1>2, <1>3, RoomForJob, BeginHands, HandsFine
<1>5. UNCHANGED <<nics, bmcs, powers, devices>>
    BY DEF AddMachine
<1> QED BY <1>1, <1>4, <1>5 DEF Fine, NicsFine, BmcsFine, PowersFine

LEMMA InterfaceSavedFine ==
    ASSUME Fine, NEW w \in Workers, SaveInterface(w)
    PROVE  Fine'
<1>0. JobsFine
    BY DEF Fine
<1>1. made' = made /\ UNCHANGED <<machines, bmcs, powers, devices>>
    BY DEF SaveInterface, Refuse, Quiet
<1>2. PICK j \in At(w, "save") :
        \/ /\ j.machine \in machines /\ ~MacTaken(j) /\ ~AddressTaken(j)
           /\ nics' = OtherNics(j) \union {NicRow(j)}
           /\ To(w, j, "answer") \/ To(w, j, "mgmt") \/ End(w)
        \/ End(w) /\ UNCHANGED nics
    BY DEF SaveInterface, Refuse
<1>3. JobFine(j) /\ j.kind # "power"
    BY <1>0, AtIs
<1>4. Hands(w)
  <2>1. ASSUME NEW s \in {"answer", "mgmt"}, To(w, j, s)
        PROVE  Hands(w)
    <3>1. PICK n : n = [j EXCEPT !.step = s]
        OBVIOUS
    <3>2. JobFine(n)
        BY <1>3, <2>1, <3>1, StepOf DEF Step
    <3> QED BY <1>0, <1>1, <2>1, <3>1, <3>2, GoHands DEF To
  <2> QED BY <1>0, <1>1, <1>2, <2>1, EndHands
<1>5. NicsFine'
  <2>1. CASE UNCHANGED nics
    BY <1>1, <2>1 DEF Fine, NicsFine
  <2>2. CASE /\ j.machine \in machines /\ ~MacTaken(j) /\ ~AddressTaken(j)
             /\ nics' = OtherNics(j) \union {NicRow(j)}
    <3>1. NicRow(j) \in Nic
        BY <1>3 DEF NicRow, Nic, JobFine, JobRec, Parted
    <3>2. \A r \in OtherNics(j) :
            /\ r \in nics /\ r.id # j.id /\ r.mac # j.mac
            /\ j.ip # None => r.ip # j.ip
        BY <2>2 DEF OtherNics, MacTaken, AddressTaken
    <3>3. /\ NicRow(j).id = j.id /\ NicRow(j).mac = j.mac /\ NicRow(j).ip = j.ip
          /\ NicRow(j).machine = j.machine
        BY DEF NicRow
    <3>4. PICK row : row = NicRow(j)
        OBVIOUS
    <3> QED BY <1>1, <2>2, <3>1, <3>2, <3>3, <3>4 DEF Fine, NicsFine
  <2> QED BY <1>2, <2>1, <2>2
<1> QED BY <1>0, <1>1, <1>4, <1>5, HandsFine DEF Fine, BmcsFine, PowersFine

LEMMA BMCSavedFine ==
    ASSUME Fine, NEW w \in Workers, SaveBMC(w)
    PROVE  Fine'
<1>0. JobsFine
    BY DEF Fine
<1>1. made' = made /\ UNCHANGED <<machines, nics, powers, devices>>
    BY DEF SaveBMC, Quiet
<1>2. PICK j \in At(w, "savebmc") :
        LET row == [id |-> j.id, machine |-> j.machine, mac |-> j.mac, ip |-> j.ip,
                    from |-> j.from, by |-> j.read \union {j.num}]
        IN  \/ /\ j.machine \in machines
               /\ bmcs' = {b \in bmcs : b.id # j.id} \union {row}
               /\ To(w, j, "haspower")
            \/ End(w) /\ UNCHANGED bmcs
    BY DEF SaveBMC
<1>3. JobFine(j) /\ j.kind # "power"
    BY <1>0, AtIs
<1>4. PICK row : row = [id |-> j.id, machine |-> j.machine, mac |-> j.mac, ip |-> j.ip,
                        from |-> j.from, by |-> j.read \union {j.num}]
    OBVIOUS
<1>5. row \in Bmc /\ row.machine = j.machine
    BY <1>3, <1>4 DEF Bmc, JobFine, JobRec, Parted
<1>6. PICK n : n = [j EXCEPT !.step = "haspower"]
    OBVIOUS
<1>7. JobFine(n)
    BY <1>3, <1>6, StepOf DEF Step
<1>8. To(w, j, "haspower") => Hands(w)
    BY <1>0, <1>1, <1>6, <1>7, GoHands DEF To
<1>9. Hands(w)
    BY <1>0, <1>1, <1>2, <1>8, EndHands
<1>10. BmcsFine'
    BY <1>1, <1>2, <1>4, <1>5 DEF Fine, BmcsFine
<1> QED BY <1>0, <1>1, <1>9, <1>10, HandsFine DEF Fine, NicsFine, PowersFine

LEMMA PowerSavedFine ==
    ASSUME Fine, NEW w \in Workers, SavePower(w)
    PROVE  Fine'
<1>0. JobsFine /\ devices \subseteq Devices
    BY DEF Fine, PowersFine
<1>1. made' = made /\ UNCHANGED <<machines, nics, bmcs, devices>>
    BY DEF SavePower
<1>2. PICK j \in At(w, "savepower") :
        LET row == [machine |-> j.machine, way |-> j.way, device |-> j.device, by |-> j.num]
        IN  \/ /\ j.machine \in machines /\ j.device \in devices \union {Nothing}
               /\ powers' = (powers \ {p \in powers : p.machine = j.machine}) \union {row}
               /\ End(w) \/ (j.kind # "power" /\ To(w, j, "answerbmc"))
            \/ End(w) /\ UNCHANGED powers
    BY DEF SavePower, AfterPower
<1>3. JobFine(j) /\ j.step = "savepower"
    BY <1>0, AtIs
<1>4. PICK row : row = [machine |-> j.machine, way |-> j.way, device |-> j.device,
                        by |-> j.num]
    OBVIOUS
<1>5. /\ row \in Power /\ row.machine = j.machine /\ row.device = j.device
      /\ row.way = "rpowerdevice" <=> row.device # Nothing
    BY <1>3, <1>4 DEF Power, JobFine, JobRec, Powered
<1>6. PICK n : n = [j EXCEPT !.step = "answerbmc"]
    OBVIOUS
<1>7. j.kind # "power" => JobFine(n)
    BY <1>3, <1>6, StepOf DEF Step
<1>8. j.kind # "power" /\ To(w, j, "answerbmc") => Hands(w)
    BY <1>0, <1>1, <1>6, <1>7, GoHands DEF To
<1>9. Hands(w)
    BY <1>0, <1>1, <1>2, <1>8, EndHands
<1>10. PowersFine'
  <2>1. CASE UNCHANGED powers
    BY <1>1, <2>1 DEF Fine, PowersFine
  <2>2. CASE /\ j.machine \in machines /\ j.device \in devices \union {Nothing}
             /\ powers' = (powers \ {p \in powers : p.machine = j.machine}) \union {row}
    <3>1. row.way = "rpowerdevice" <=> row.device \in devices
        BY <1>0, <1>5, <2>2, PartsAssumption
    <3> QED BY <1>1, <1>5, <2>2, <3>1 DEF Fine, PowersFine
  <2> QED BY <1>2, <1>4, <2>1, <2>2
<1> QED BY <1>0, <1>1, <1>9, <1>10, HandsFine DEF Fine, NicsFine, BmcsFine
-----------------------------------------------------------------------------
(* Rows deleted, and a machine without parts.                              *)
LEMMA DeletedFine ==
    ASSUME Fine, Delete \/ AddFromNetbox
    PROVE  Fine'
<1>1. made' = made /\ job' = job
    BY DEF Delete, AddFromNetbox, DeleteInterface, DeleteBMC, DeletePower, DeleteDevice,
           DeleteMachine, Quiet
<1>2. JobsFine'
    BY <1>1 DEF Fine, JobsFine
<1>3. CASE AddFromNetbox
    BY <1>2, <1>3 DEF AddFromNetbox, Fine, NicsFine, BmcsFine, PowersFine
<1>4. CASE DeleteInterface
    BY <1>2, <1>4 DEF DeleteInterface, Fine, NicsFine, BmcsFine, PowersFine
<1>5. CASE DeleteBMC
    BY <1>2, <1>5 DEF DeleteBMC, Fine, NicsFine, BmcsFine, PowersFine
<1>6. CASE DeletePower
    BY <1>2, <1>6 DEF DeletePower, Fine, NicsFine, BmcsFine, PowersFine
<1>7. CASE DeleteDevice
    BY <1>2, <1>7 DEF DeleteDevice, Fine, NicsFine, BmcsFine, PowersFine
<1>8. CASE DeleteMachine
    BY <1>2, <1>8 DEF DeleteMachine, Fine, NicsFine, BmcsFine, PowersFine
<1> QED BY <1>3, <1>4, <1>5, <1>6, <1>7, <1>8 DEF Delete
-----------------------------------------------------------------------------
(* At first one machine has an interface, and a BMC or none.               *)
LEMMA InitFine == Init => Fine
<1> SUFFICES ASSUME Init PROVE Fine
    OBVIOUS
<1>0. NetworkIp + 2 \in Address /\ Entered \subseteq Address /\ 0 \in Jobs
    BY PartsAssumption, AddressesAre DEF Jobs
<1>1. machines \subseteq Machines /\ First \in machines
    BY PartsAssumption DEF Init
<1>2. NicsFine
  <2>1. PICK c \in Macs, a \in Entered :
          nics = {[id |-> 0, machine |-> First, mac |-> c, ip |-> a,
                   primary |-> TRUE, by |-> {0}]}
    BY DEF Init
  <2>2. PICK row : row = [id |-> 0, machine |-> First, mac |-> c, ip |-> a,
                          primary |-> TRUE, by |-> {0}]
    OBVIOUS
  <2>3. row \in Nic /\ row.machine = First
    BY <1>0, <2>2, PartsAssumption DEF Nic
  <2> QED BY <1>1, <2>1, <2>2, <2>3 DEF NicsFine
<1>3. BmcsFine
  <2>1. CASE bmcs = {}
    BY <2>1 DEF BmcsFine
  <2>2. CASE bmcs # {}
    <3>1. PICK c \in Macs, a \in Entered \union {NetworkIp + 2} :
            bmcs = {[id |-> 0, machine |-> First, mac |-> c, ip |-> a,
                     from |-> "form", by |-> {0}]}
        BY <2>2 DEF Init
    <3>2. PICK row : row = [id |-> 0, machine |-> First, mac |-> c, ip |-> a,
                            from |-> "form", by |-> {0}]
        OBVIOUS
    <3>3. row \in Bmc /\ row.machine = First
        BY <1>0, <3>2, PartsAssumption DEF Bmc
    <3> QED BY <1>1, <3>1, <3>2, <3>3 DEF BmcsFine
  <2> QED BY <2>1, <2>2
<1>4. PowersFine
    BY DEF Init, PowersFine
<1>5. JobsFine
    BY <1>0 DEF Init, JobsFine
<1> QED BY <1>1, <1>2, <1>3, <1>4, <1>5 DEF Fine

LEMMA StepFine == Fine /\ [Next]_vars => Fine'
<1> SUFFICES ASSUME Fine, [Next]_vars PROVE Fine'
    OBVIOUS
<1>1. CASE UNCHANGED vars
    BY <1>1 DEF vars, rows, Fine, NicsFine, BmcsFine, PowersFine, JobsFine
<1>2. ASSUME NEW w \in Workers, Requests(w)
      PROVE  Fine'
    BY <1>2, AddedFine, RequestsHand, PowerHands, HandsOnly DEF Requests
<1>3. ASSUME NEW w \in Workers, Imports(w)
      PROVE  Fine'
    BY <1>3, ImportsHand, HandsOnly
<1>4. ASSUME NEW w \in Workers, Continue(w)
      PROVE  Fine'
    BY <1>4, AnswersAreFine, ChecksAreFine, HandsOnly,
       InterfaceSavedFine, BMCSavedFine, PowerSavedFine
    DEF Continue, AnswersHand, ChecksHand
<1>5. CASE AddFromNetbox \/ Delete
    BY <1>5, DeletedFine
<1> QED BY <1>1, <1>2, <1>3, <1>4, <1>5 DEF Next

(* Whoever saves, imports or deletes parts of machines meanwhile, a MAC    *)
(* address is of one interface and so is an address, every part is of a    *)
(* machine there is, a machine has one remote power at most, and a remote  *)
(* power has a device exactly if its fence agent is of that kind           *)
(* (RemotePower.save, RemotePower.get_power_address).                      *)
THEOREM PartsInvariance == Spec => []PartsInv
<1>1. Init => Fine
    BY InitFine
<1>2. Fine /\ [Next]_vars => Fine'
    BY StepFine
<1>3. Fine => PartsInv
    BY FineIsPartsInv
<1> QED BY <1>1, <1>2, <1>3, PTL DEF Spec
-----------------------------------------------------------------------------
(* Jobs in hand at once.  The database sees to none of the rules between   *)
(* rows; a job that checked one knows of the rows as they were then.  What *)
(* it does not know of was written by a job that was in hand with it       *)
(* (Late), so the invariant says of each job: what it checked is true of   *)
(* all rows but the late ones.                                             *)
Late(x, n) == \E m \in x.by : {m, n} \in together

Clash(r, b) == r.mac = b.mac \/ (r.ip # None /\ r.ip = b.ip)

OfNic(j) == j.step \in {"suggest", "clean", "save", "answer"}

(* The row a job is about to save is its machine's; NetBox may have it at  *)
(* another machine until clean() has looked for the MAC address.           *)
OwnRow(j) ==
    OfNic(j) => \A r \in nics : r.id = j.id =>
        \/ Late(r, j.num) \/ r.machine = j.machine
        \/ j.kind = "sync" /\ j.step = "clean" /\ r.mac = j.mac

SavesNic(j) ==
    j.step = "save" =>
        /\ j.primary => \A r \in nics :
              r.machine = j.machine /\ r.primary /\ r.id # j.id => Late(r, j.num)
        /\ \A b \in bmcs : Clash(j, b) => b.from = "netbox" \/ Late(b, j.num)

SavesBmc(j) ==
    j.step = "savebmc" /\ j.from # "netbox" =>
        \A r \in nics : Clash(r, j) => \E n \in j.read \union {j.num} : Late(r, n)

SuggestedFree(j) ==
    j.kind = "add" /\ j.step \in {"clean", "save"} /\ j.ip # Loopback =>
        InNetwork(j.ip) /\ \A r \in nics \union bmcs : r.ip = j.ip => Late(r, j.num)

SavesPower(j) ==
    j.kind # "power" /\ j.step \in {"checkpower", "savepower"} =>
        \A p \in powers : p.machine = j.machine => {j.num, p.by} \in together

Sound(j) == OwnRow(j) /\ SavesNic(j) /\ SavesBmc(j) /\ SuggestedFree(j) /\ SavesPower(j)

Counted == \A r \in nics : r.id <= made

Paired ==
    \A w, v \in Workers : \A j \in job[w], k \in job[v] :
        IF w = v THEN j = k ELSE {j.num, k.num} \in together

JobsSound == \A w \in Workers : \A j \in job[w] : Sound(j) /\ (OfNic(j) => j.id <= made)

OverInv == Fine /\ Counted /\ Paired /\ JobsSound /\ OnlyOverlapping

(* A job stays sound while others write rows, for they are in hand with it. *)
LEMMA SoundLater ==
    ASSUME NEW k, Sound(k), together \subseteq together',
           \A r \in nics' : r \in nics \/ \E m \in r.by : {m, k.num} \in together',
           \A b \in bmcs' : b \in bmcs \/ \E m \in b.by : {m, k.num} \in together',
           \A p \in powers' : p \in powers \/ {k.num, p.by} \in together'
    PROVE  Sound(k)'
<1>0. \A x, n : Late(x, n) => Late(x, n)'
    BY DEF Late
<1>1. OwnRow(k)'
    BY <1>0 DEF Sound, OwnRow, OfNic, Late
<1>2. SavesNic(k)'
    BY <1>0 DEF Sound, SavesNic, Late
<1>3. SavesBmc(k)'
  <2> SUFFICES ASSUME k.step = "savebmc", k.from # "netbox", NEW r \in nics', Clash(r, k)
               PROVE  \E n \in k.read \union {k.num} : Late(r, n)'
    BY DEF SavesBmc, Clash
  <2>1. CASE r \in nics
    BY <1>0, <2>1 DEF Sound, SavesBmc
  <2>2. CASE r \notin nics
    BY <2>2 DEF Late
  <2> QED BY <2>1, <2>2
<1>4. SuggestedFree(k)'
    BY <1>0 DEF Sound, SuggestedFree, InNetwork, Late
<1>5. SavesPower(k)'
    BY DEF Sound, SavesPower
<1> QED BY <1>1, <1>2, <1>3, <1>4, <1>5 DEF Sound

LEMMA SoundStill ==
    ASSUME NEW k, Sound(k), UNCHANGED <<nics, bmcs, powers>>, together \subseteq together'
    PROVE  Sound(k)'
BY SoundLater

(* What a worker's step is to leave in its hand, and what it may have      *)
(* written.                                                                *)
Moves(w) ==
    \E next :
        /\ job' = [job EXCEPT ![w] = next]
        /\ \A i, n \in next : i = n
        /\ \A n \in next :
              /\ Sound(n)' /\ (OfNic(n) => n.id <= made')
              /\ \E j \in job[w] : n.num = j.num

Wrote(w) ==
    /\ together \subseteq together'
    /\ \A r \in nics' : r \in nics \/ \E j \in job[w] : j.num \in r.by
    /\ \A b \in bmcs' : b \in bmcs \/ \E j \in job[w] : j.num \in b.by
    /\ \A p \in powers' : p \in powers \/ \E j \in job[w] : p.by = j.num

LEMMA MovedJobs ==
    ASSUME Fine, Paired, JobsSound, NEW w \in Workers, Moves(w), Wrote(w), made' = made
    PROVE  Paired' /\ JobsSound'
<1>1. PICK next :
        /\ job' = [job EXCEPT ![w] = next]
        /\ \A i, n \in next : i = n
        /\ \A n \in next :
              /\ Sound(n)' /\ (OfNic(n) => n.id <= made')
              /\ \E j \in job[w] : n.num = j.num
    BY DEF Moves
<1>2. job = [v \in Workers |-> job[v]]
    BY DEF Fine, JobsFine
<1>3. job'[w] = next /\ \A v \in Workers : v # w => job'[v] = job[v]
    BY <1>1, <1>2
<1>4. together \subseteq together'
    BY DEF Wrote
<1>5. Paired'
  <2> SUFFICES ASSUME NEW u \in Workers, NEW v \in Workers, NEW j \in job'[u], NEW k \in job'[v]
               PROVE  IF u = v THEN j = k ELSE {j.num, k.num} \in together'
    BY DEF Paired
  <2>1. CASE u = w /\ v = w
    BY <1>1, <1>3, <2>1
  <2>2. CASE u = w /\ v # w
    <3>1. PICK i \in job[w] : j.num = i.num
        BY <1>1, <1>3, <2>2
    <3> QED BY <1>3, <1>4, <2>2, <3>1 DEF Paired
  <2>3. CASE u # w /\ v = w
    <3>1. PICK i \in job[w] : k.num = i.num
        BY <1>1, <1>3, <2>3
    <3> QED BY <1>3, <1>4, <2>3, <3>1 DEF Paired
  <2>4. CASE u # w /\ v # w
    BY <1>3, <1>4, <2>4 DEF Paired
  <2> QED BY <2>1, <2>2, <2>3, <2>4
<1>6. ASSUME NEW v \in Workers, v # w, NEW k \in job[v]
      PROVE  Sound(k)'
  <2>1. \A j \in job[w] : {j.num, k.num} \in together' /\ {k.num, j.num} \in together'
    BY <1>4, <1>6 DEF Paired
  <2>2. Sound(k)
    BY DEF JobsSound
  <2>3. /\ \A r \in nics' : r \in nics \/ \E m \in r.by : {m, k.num} \in together'
        /\ \A b \in bmcs' : b \in bmcs \/ \E m \in b.by : {m, k.num} \in together'
        /\ \A p \in powers' : p \in powers \/ {k.num, p.by} \in together'
    BY <2>1 DEF Wrote
  <2> QED BY <1>4, <2>2, <2>3, SoundLater
<1>7. JobsSound'
  <2> SUFFICES ASSUME NEW v \in Workers, NEW k \in job'[v]
               PROVE  Sound(k)' /\ (OfNic(k) => k.id <= made')
    BY DEF JobsSound, OfNic
  <2>1. CASE v = w
    BY <1>1, <1>3, <2>1
  <2>2. CASE v # w
    BY <1>3, <1>6, <2>2 DEF JobsSound
  <2> QED BY <2>1, <2>2
<1> QED BY <1>5, <1>7

(* A job begun is in hand with all there are.                              *)
LEMMA BegunJobs ==
    ASSUME Fine, Paired, JobsSound, NEW w \in Workers, NEW j, Begin(w, j),
           j.num = made + 1, Sound(j), OfNic(j) => j.id <= made + 1,
           UNCHANGED <<nics, bmcs, powers>>
    PROVE  Paired' /\ JobsSound' /\ together \subseteq together' /\ made' = made + 1
<1>0. PICK next : next = {j}
    OBVIOUS
<1>1. /\ job[w] = {} /\ job' = [job EXCEPT ![w] = next] /\ made' = made + 1
      /\ together' = together \union {{made + 1, k.num} : k \in InHand}
    BY <1>0 DEF Begin
<1>2. job = [v \in Workers |-> job[v]]
    BY DEF Fine, JobsFine
<1>3. job'[w] = next /\ \A v \in Workers : v # w => job'[v] = job[v]
    BY <1>1, <1>2
<1>4. \A v \in Workers : \A k \in job[v] : {j.num, k.num} \in together' /\ {k.num, j.num} \in together'
  <2> SUFFICES ASSUME NEW v \in Workers, NEW k \in job[v]
               PROVE  {j.num, k.num} \in together' /\ {k.num, j.num} \in together'
    OBVIOUS
  <2>1. k \in InHand
    BY DEF InHand
  <2>2. {made + 1, k.num} \in together'
    BY <1>1, <2>1
  <2>3. {j.num, k.num} = {made + 1, k.num} /\ {k.num, j.num} = {made + 1, k.num}
    OBVIOUS
  <2> QED BY <2>2, <2>3
<1>5. Paired'
  <2> SUFFICES ASSUME NEW u \in Workers, NEW v \in Workers, NEW i \in job'[u], NEW k \in job'[v]
               PROVE  IF u = v THEN i = k ELSE {i.num, k.num} \in together'
    BY DEF Paired
  <2>1. CASE u = w /\ v = w
    BY <1>0, <1>3, <2>1
  <2>2. CASE u = w /\ v # w
    <3>1. i = j /\ k \in job[v]
        BY <1>0, <1>3, <2>2
    <3> QED BY <1>4, <2>2, <3>1
  <2>3. CASE u # w /\ v = w
    <3>1. k = j /\ i \in job[u]
        BY <1>0, <1>3, <2>3
    <3> QED BY <1>4, <2>3, <3>1
  <2>4. CASE u # w /\ v # w
    BY <1>1, <1>3, <2>4 DEF Paired
  <2> QED BY <2>1, <2>2, <2>3, <2>4
<1>6. \A v \in Workers : \A k \in job'[v] : Sound(k)
    BY <1>0, <1>3 DEF JobsSound
<1>7. made \in Nat
    BY PartsAssumption DEF Fine, JobsFine, Jobs
<1>8. \A v \in Workers : \A k \in job'[v] : OfNic(k) => k.id <= made'
  <2> SUFFICES ASSUME NEW v \in Workers, NEW k \in job'[v], OfNic(k)
               PROVE  k.id <= made'
    OBVIOUS
  <2>1. CASE v = w
    BY <1>0, <1>1, <1>3, <2>1
  <2>2. CASE v # w
    <3>1. k \in job[v]
        BY <1>3, <2>2
    <3>2. k.id <= made /\ k.id \in Nat
        BY <3>1, PartsAssumption DEF JobsSound, Fine, JobsFine, JobFine, JobRec, Jobs
    <3> QED BY <1>1, <1>7, <3>2
  <2> QED BY <2>1, <2>2
<1>9. together \subseteq together'
    BY <1>1
<1>10. JobsSound'
  <2> SUFFICES ASSUME NEW v \in Workers, NEW k \in job'[v]
               PROVE  Sound(k)' /\ (OfNic(k) => k.id <= made')
    BY DEF JobsSound, OfNic
  <2> QED BY <1>6, <1>8, <1>9, SoundStill
<1> QED BY <1>1, <1>5, <1>9, <1>10

(* The rules, when no row is written and no history but what is recorded. *)
LEMMA OverlapLater ==
    ASSUME OnlyOverlapping, nics' \subseteq nics, bmcs' \subseteq bmcs,
           together \subseteq together',
           \A x \in displaced' : x \in displaced \/ {x[1], x[2]} \in together',
           \A n \in stranded' : n \in stranded \/ \E x \in together' : n \in x
    PROVE  OnlyOverlapping'
<1>1. \A r, s : Overlapped(r, s) => Overlapped(r, s)'
    BY DEF Overlapped
<1> QED BY <1>1 DEF OnlyOverlapping
-----------------------------------------------------------------------------
(* Jobs begun.                                                             *)
LEMMA BegunOver ==
    ASSUME OverInv, NEW w \in Workers, NEW j, Begin(w, j),
           j.num = made + 1, Sound(j), OfNic(j) => j.id <= made + 1,
           UNCHANGED <<nics, bmcs, powers>>, Fine'
    PROVE  OverInv'
<1>1. Paired' /\ JobsSound' /\ together \subseteq together' /\ made' = made + 1
    BY BegunJobs DEF OverInv
<1>2. Counted'
  <2>1. made \in Nat /\ \A r \in nics : r.id \in Nat
    BY PartsAssumption DEF OverInv, Fine, JobsFine, NicsFine, Nic, Jobs
  <2> QED BY <1>1, <2>1 DEF OverInv, Counted
<1>3. UNCHANGED <<displaced, stranded>>
    BY DEF Begin
<1>4. OnlyOverlapping'
    BY <1>1, <1>3, OverlapLater DEF OverInv
<1> QED BY <1>1, <1>2, <1>4 DEF OverInv

(* Nothing has the key a new row will have.                                *)
LEMMA NewSound ==
    ASSUME OverInv, NEW j, j.id = made + 1, j.step \in {"suggest", "clean"},
           j.kind = "add" => j.step = "suggest"
    PROVE  Sound(j) /\ j.id <= made + 1
<1>0. made \in Nat
    BY PartsAssumption DEF OverInv, Fine, JobsFine, Jobs
<1>1. \A r \in nics : r.id # j.id
  <2>1. made \in Nat /\ \A r \in nics : r.id \in Nat /\ r.id <= made
    BY PartsAssumption DEF OverInv, Counted, Fine, JobsFine, NicsFine, Nic, Jobs
  <2> QED BY <2>1
<1>2. Sound(j)
    BY <1>1 DEF Sound, OwnRow, SavesNic, SavesBmc, SuggestedFree, SavesPower
<1> QED BY <1>0, <1>2

LEMMA EditSound ==
    ASSUME OverInv, NEW j, NEW r \in nics, j.id = r.id, j.step = "clean", j.kind # "add",
           j.machine = r.machine \/ (j.kind = "sync" /\ j.mac = r.mac)
    PROVE  Sound(j) /\ j.id <= made + 1
<1>1. \A s \in nics : s.id = j.id => s = r
    BY DEF OverInv, Fine, NicsFine
<1>2. Sound(j)
    BY <1>1 DEF Sound, OwnRow, SavesNic, SavesBmc, SuggestedFree, SavesPower
<1>3. made \in Nat /\ r.id \in Nat /\ r.id <= made
    BY PartsAssumption DEF OverInv, Counted, Fine, JobsFine, NicsFine, Nic, Jobs
<1> QED BY <1>2, <1>3

LEMMA OtherSound ==
    ASSUME NEW j, j.step \in {"cleanbmc", "mgmt", "haspower", "answerbmc"}
    PROVE  Sound(j) /\ ~OfNic(j)
BY DEF Sound, OwnRow, SavesNic, SavesBmc, SuggestedFree, SavesPower, OfNic

LEMMA InterfaceBegunOver ==
    ASSUME OverInv, Fine', NEW w \in Workers,
           AddMachine(w) \/ NewInterface(w) \/ EditInterface(w) \/ FetchInterface(w)
    PROVE  OverInv'
<1>0. UNCHANGED <<nics, bmcs, powers>>
    BY DEF AddMachine, NewInterface, EditInterface, FetchInterface, rows
<1>1. CASE AddMachine(w)
  <2>1. PICK m \in Machines \ machines, c \in Macs :
          Begin(w, [NewJob("add", "suggest", m) EXCEPT !.mac = c, !.primary = TRUE])
    BY <1>1 DEF AddMachine
  <2>2. PICK n : n = [NewJob("add", "suggest", m) EXCEPT !.mac = c, !.primary = TRUE]
    OBVIOUS
  <2>3. n.num = made + 1 /\ n.id = made + 1 /\ n.step = "suggest"
    BY <2>2 DEF NewJob
  <2>4. Sound(n) /\ n.id <= made + 1
    BY <2>3, NewSound
  <2> QED BY <1>0, <2>1, <2>2, <2>3, <2>4, BegunOver
<1>2. CASE NewInterface(w)
  <2>1. PICK m \in machines, c \in Macs, a \in Entered \union {None}, p \in BOOLEAN :
          Begin(w, [NewJob("page", "clean", m) EXCEPT !.mac = c, !.ip = a, !.primary = p])
    BY <1>2 DEF NewInterface
  <2>2. PICK n : n = [NewJob("page", "clean", m) EXCEPT !.mac = c, !.ip = a, !.primary = p]
    OBVIOUS
  <2>3. n.num = made + 1 /\ n.id = made + 1 /\ n.step = "clean" /\ n.kind = "page"
    BY <2>2 DEF NewJob
  <2>4. Sound(n) /\ n.id <= made + 1
    BY <2>3, NewSound
  <2> QED BY <1>0, <2>1, <2>2, <2>3, <2>4, BegunOver
<1>3. CASE EditInterface(w)
  <2>1. PICK r \in nics, c \in Macs, a \in Entered \union {None}, p \in BOOLEAN :
          Begin(w, [NewJob("page", "clean", r.machine) EXCEPT
                       !.id = r.id, !.mac = c, !.ip = a, !.primary = p])
    BY <1>3 DEF EditInterface
  <2>2. PICK n : n = [NewJob("page", "clean", r.machine) EXCEPT
                       !.id = r.id, !.mac = c, !.ip = a, !.primary = p]
    OBVIOUS
  <2>3. /\ n.num = made + 1 /\ n.id = r.id /\ n.machine = r.machine
        /\ n.step = "clean" /\ n.kind = "page"
    BY <2>2 DEF NewJob
  <2> QED BY <1>0, <2>1, <2>2, <2>3, EditSound, BegunOver
<1>4. CASE FetchInterface(w)
  <2>1. PICK r \in nics :
          Begin(w, [NewJob("fetch", "clean", r.machine) EXCEPT
                       !.id = r.id, !.mac = r.mac, !.ip = r.ip, !.primary = r.primary,
                       !.read = r.by])
    BY <1>4 DEF FetchInterface
  <2>2. PICK n : n = [NewJob("fetch", "clean", r.machine) EXCEPT
                       !.id = r.id, !.mac = r.mac, !.ip = r.ip, !.primary = r.primary,
                       !.read = r.by]
    OBVIOUS
  <2>3. /\ n.num = made + 1 /\ n.id = r.id /\ n.machine = r.machine
        /\ n.step = "clean" /\ n.kind = "fetch"
    BY <2>2 DEF NewJob
  <2> QED BY <1>0, <2>1, <2>2, <2>3, EditSound, BegunOver
<1> QED BY <1>1, <1>2, <1>3, <1>4

LEMMA SyncBegunOver ==
    ASSUME OverInv, Fine', NEW w \in Workers, SyncInterface(w)
    PROVE  OverInv'
<1>0. UNCHANGED <<nics, bmcs, powers>>
    BY DEF SyncInterface, rows
<1>1. PICK m \in machines, c \in Macs, a \in Entered \union {None} :
        LET new == [NewJob("sync", "clean", m) EXCEPT !.mac = c, !.ip = a]
            found == {r \in nics : r.mac = c}
        IN  \/ /\ found = {}
               /\ Begin(w, new)
            \/ \E r \in found :
                  Begin(w, [new EXCEPT !.id = r.id, !.primary = r.primary,
                                       !.ip = IF a = None THEN r.ip ELSE a])
    BY DEF SyncInterface
<1>2. PICK new : new = [NewJob("sync", "clean", m) EXCEPT !.mac = c, !.ip = a]
    OBVIOUS
<1>3. /\ new.num = made + 1 /\ new.id = made + 1 /\ new.step = "clean"
      /\ new.kind = "sync" /\ new.mac = c
    BY <1>2 DEF NewJob
<1>4. CASE Begin(w, new)
  <2>1. Sound(new) /\ new.id <= made + 1
    BY <1>3, NewSound
  <2> QED BY <1>0, <1>3, <1>4, <2>1, BegunOver
<1>5. ASSUME NEW r \in nics, r.mac = c,
             Begin(w, [new EXCEPT !.id = r.id, !.primary = r.primary,
                                  !.ip = IF a = None THEN r.ip ELSE a])
      PROVE  OverInv'
  <2>1. PICK n : n = [new EXCEPT !.id = r.id, !.primary = r.primary,
                                 !.ip = IF a = None THEN r.ip ELSE a]
    OBVIOUS
  <2>2. /\ n.num = made + 1 /\ n.id = r.id /\ n.mac = r.mac
        /\ n.step = "clean" /\ n.kind = "sync"
    BY <1>2, <1>3, <1>5, <2>1 DEF NewJob
  <2> QED BY <1>0, <1>5, <2>1, <2>2, EditSound, BegunOver
<1> QED BY <1>1, <1>2, <1>4, <1>5

LEMMA BMCBegunOver ==
    ASSUME OverInv, Fine', NEW w \in Workers,
           NewBMC(w) \/ EditBMC(w) \/ FetchBMC(w) \/ SetPower(w)
    PROVE  OverInv'
<1>0. UNCHANGED <<nics, bmcs, powers>>
    BY DEF NewBMC, EditBMC, FetchBMC, SetPower, rows
<1>1. CASE NewBMC(w)
  <2>1. PICK m \in machines, c \in Macs, a \in Entered \union {None} :
          Begin(w, [NewJob("page", "cleanbmc", m) EXCEPT !.mac = c, !.ip = a])
    BY <1>1 DEF NewBMC
  <2>2. PICK n : n = [NewJob("page", "cleanbmc", m) EXCEPT !.mac = c, !.ip = a]
    OBVIOUS
  <2>3. n.num = made + 1 /\ n.step = "cleanbmc"
    BY <2>2 DEF NewJob
  <2>4. Sound(n) /\ ~OfNic(n)
    BY <2>3, OtherSound
  <2> QED BY <1>0, <2>1, <2>2, <2>3, <2>4, BegunOver
<1>2. CASE EditBMC(w)
  <2>1. PICK b \in bmcs, c \in Macs, a \in Entered \union {None} :
          Begin(w, [NewJob("page", "cleanbmc", b.machine) EXCEPT
                       !.id = b.id, !.mac = c, !.ip = a])
    BY <1>2 DEF EditBMC
  <2>2. PICK n : n = [NewJob("page", "cleanbmc", b.machine) EXCEPT
                       !.id = b.id, !.mac = c, !.ip = a]
    OBVIOUS
  <2>3. n.num = made + 1 /\ n.step = "cleanbmc"
    BY <2>2 DEF NewJob
  <2>4. Sound(n) /\ ~OfNic(n)
    BY <2>3, OtherSound
  <2> QED BY <1>0, <2>1, <2>2, <2>3, <2>4, BegunOver
<1>3. CASE FetchBMC(w)
  <2>1. PICK b \in bmcs :
          Begin(w, [NewJob("fetchbmc", "savebmc", b.machine) EXCEPT
                       !.id = b.id, !.mac = b.mac, !.ip = b.ip, !.from = b.from,
                       !.read = b.by])
    BY <1>3 DEF FetchBMC
  <2>2. PICK n : n = [NewJob("fetchbmc", "savebmc", b.machine) EXCEPT
                       !.id = b.id, !.mac = b.mac, !.ip = b.ip, !.from = b.from,
                       !.read = b.by]
    OBVIOUS
  <2>3. /\ n.num = made + 1 /\ n.step = "savebmc" /\ n.kind = "fetchbmc"
        /\ n.mac = b.mac /\ n.ip = b.ip /\ n.from = b.from /\ n.read = b.by
    BY <2>2 DEF NewJob
  <2>4. \A r \in nics : Clash(r, n) /\ n.from # "netbox" => \E i \in n.read : Late(r, i)
    BY <2>3 DEF OverInv, OnlyOverlapping, Clash, Overlapped, Late
  <2>5. Sound(n) /\ ~OfNic(n)
    BY <2>3, <2>4 DEF Sound, OwnRow, SavesNic, SavesBmc, SuggestedFree, SavesPower, OfNic
  <2> QED BY <1>0, <2>1, <2>2, <2>3, <2>5, BegunOver
<1>4. CASE SetPower(w)
  <2>1. PICK m \in machines, y \in Way, d \in devices \union {Nothing} :
        Begin(w, [NewJob("power", "checkpower", m) EXCEPT !.way = y, !.device = d])
    BY <1>4 DEF SetPower
  <2>2. PICK n : n = [NewJob("power", "checkpower", m) EXCEPT !.way = y, !.device = d]
    OBVIOUS
  <2>3. n.num = made + 1 /\ n.step = "checkpower" /\ n.kind = "power"
    BY <2>2 DEF NewJob
  <2>4. Sound(n) /\ ~OfNic(n)
    BY <2>3 DEF Sound, OwnRow, SavesNic, SavesBmc, SuggestedFree, SavesPower, OfNic
  <2> QED BY <1>0, <2>1, <2>2, <2>3, <2>4, BegunOver
<1> QED BY <1>1, <1>2, <1>3, <1>4
-----------------------------------------------------------------------------
(* Jobs that go on without a row written.                                  *)
LEMMA GoOver ==
    ASSUME OverInv, Fine', NEW w \in Workers, NEW j \in job[w], NEW n, Go(w, n),
           n.num = j.num, Sound(n), OfNic(n) => n.id <= made,
           UNCHANGED <<nics, bmcs, powers, made, together, stranded, displaced>>
    PROVE  OverInv'
<1>1. PICK next : next = {n}
    OBVIOUS
<1>2. Sound(n)'
    BY SoundStill
<1>3. job' = [job EXCEPT ![w] = next]
    BY <1>1 DEF Go
<1>4. \A i \in next : Sound(i)' /\ (OfNic(i) => i.id <= made') /\ \E k \in job[w] : i.num = k.num
    BY <1>1, <1>2
<1>5. Moves(w)
    BY <1>1, <1>3, <1>4 DEF Moves
<1>6. Wrote(w)
    BY DEF Wrote
<1>7. Paired' /\ JobsSound'
    BY <1>5, <1>6, MovedJobs DEF OverInv
<1>8. Counted'
    BY DEF OverInv, Counted
<1>9. OnlyOverlapping'
    BY OverlapLater DEF OverInv
<1> QED BY <1>7, <1>8, <1>9 DEF OverInv

LEMMA EndOver ==
    ASSUME OverInv, Fine', NEW w \in Workers, End(w),
           UNCHANGED <<nics, bmcs, powers, made, together, displaced>>,
           \A n \in stranded' : n \in stranded \/ \E x \in together : n \in x
    PROVE  OverInv'
<1>1. PICK next : next = {}
    OBVIOUS
<1>2. job' = [job EXCEPT ![w] = next]
    BY <1>1 DEF End
<1>3. Moves(w)
  <2>1. \A n \in next : /\ Sound(n)' /\ (OfNic(n) => n.id <= made')
                       /\ \E j \in job[w] : n.num = j.num
    BY <1>1
  <2>2. \A i, n \in next : i = n
    BY <1>1
  <2> QED BY <1>2, <2>1, <2>2 DEF Moves
<1>4. Wrote(w)
    BY DEF Wrote
<1>5. Paired' /\ JobsSound'
    BY <1>3, <1>4, MovedJobs DEF OverInv
<1>6. Counted'
    BY DEF OverInv, Counted
<1>7. OnlyOverlapping'
    BY OverlapLater DEF OverInv
<1> QED BY <1>5, <1>6, <1>7 DEF OverInv

LEMMA InHandSound ==
    ASSUME OverInv, NEW w \in Workers, NEW s, NEW j \in At(w, s)
    PROVE  j \in job[w] /\ j \in JobRec /\ j.step = s /\ Sound(j) /\ (OfNic(j) => j.id <= made)
BY DEF OverInv, JobsSound, At, Fine, JobsFine, JobFine

(* A suggested address was used by nobody when it was suggested.           *)
LEMMA SuggestOver ==
    ASSUME OverInv, Fine', NEW w \in Workers, Suggest(w)
    PROVE  OverInv'
<1>1. PICK j \in At(w, "suggest") : Go(w, [j EXCEPT !.step = "clean", !.ip = SuggestHostIp])
    BY DEF Suggest
<1>2. UNCHANGED <<nics, bmcs, powers, made, together, stranded, displaced>>
    BY DEF Suggest, Quiet, rows
<1>3. PICK n : n = [j EXCEPT !.step = "clean", !.ip = SuggestHostIp]
    OBVIOUS
<1>4. j \in job[w] /\ j \in JobRec /\ j.step = "suggest" /\ Sound(j) /\ j.id <= made
    BY InHandSound DEF OfNic
<1>5. /\ n.num = j.num /\ n.step = "clean" /\ n.ip = SuggestHostIp
      /\ n.id = j.id /\ n.machine = j.machine
    BY <1>3, <1>4 DEF JobRec
<1>6. OwnRow(n)
    BY <1>4, <1>5 DEF Sound, OwnRow, OfNic
<1>7. SuggestedFree(n)
  <2>1. SuggestHostIp \in Suggestible => InNetwork(SuggestHostIp)
    BY SuggestedIs, PartsAssumption DEF InNetwork
  <2>2. SuggestHostIp \in Suggestible => \A r \in nics \union bmcs : r.ip # SuggestHostIp
    BY DEF Suggestible, Used, UsedByInterfaces
  <2> QED BY <1>5, <2>1, <2>2, SuggestedIs DEF SuggestedFree
<1>8. Sound(n)
    BY <1>5, <1>6, <1>7 DEF Sound, SavesNic, SavesBmc, SavesPower
<1> QED BY <1>1, <1>2, <1>3, <1>4, <1>5, <1>8, GoOver

(* What clean() found is so, and an addition loses its interface only to a *)
(* row that took the address since.                                        *)
LEMMA CleanedSound ==
    ASSUME OverInv, NEW j, j \in JobRec, j.step = "clean", Sound(j),
           MacFree(j), AddressFree(j), OnlyPrimary(j), NEW n, n = [j EXCEPT !.step = "save"]
    PROVE  Sound(n)
<1>0. /\ n.step = "save" /\ n.num = j.num /\ n.id = j.id /\ n.machine = j.machine
      /\ n.mac = j.mac /\ n.ip = j.ip /\ n.primary = j.primary /\ n.kind = j.kind
    BY DEF JobRec
<1>1. OwnRow(n)
  <2> SUFFICES ASSUME NEW r \in nics, r.id = j.id
               PROVE  Late(r, j.num) \/ r.machine = j.machine
    BY <1>0 DEF OwnRow
  <2>1. Late(r, j.num) \/ r.machine = j.machine \/ r.mac = j.mac
    BY DEF Sound, OwnRow, OfNic
  <2>2. ASSUME r.mac = j.mac
        PROVE  r.machine = j.machine
    <3>1. PICK s \in nics : s.machine = j.machine /\ s.mac = j.mac
        BY <2>2 DEF MacFree, Excluded
    <3>2. s = r
        BY <2>2, <3>1 DEF OverInv, Fine, NicsFine
    <3> QED BY <3>1, <3>2
  <2> QED BY <2>1, <2>2
<1>2. SavesNic(n)
  <2>1. \A b \in bmcs : ~Clash(n, b)
    BY <1>0 DEF Clash, MacFree, AddressFree
  <2> QED BY <1>0, <2>1 DEF SavesNic, OnlyPrimary
<1>3. SuggestedFree(n)
    BY <1>0 DEF Sound, SuggestedFree
<1> QED BY <1>0, <1>1, <1>2, <1>3 DEF Sound, SavesBmc, SavesPower

LEMMA LateIsTogether ==
    ASSUME NEW x, NEW n, Late(x, n)
    PROVE  \E p \in together : n \in p
BY DEF Late

LEMMA RefusedOver ==
    ASSUME OverInv, Fine', NEW w \in Workers, NEW j, NEW ofAddress,
           Refuse(w, j, ofAddress), UNCHANGED <<nics, bmcs, powers>>,
           ofAddress /\ j.kind = "add" /\ j.ip # Loopback
               => \E r \in nics \union bmcs : Late(r, j.num)
    PROVE  OverInv'
<1>1. End(w) /\ UNCHANGED <<made, together, displaced>>
    BY DEF Refuse
<1>2. \A n \in stranded' : n \in stranded \/
          (n = j.num /\ j.kind = "add" /\ ofAddress /\ j.ip # Loopback)
    BY DEF Refuse
<1>3. \A n \in stranded' : n \in stranded \/ \E x \in together : n \in x
    BY <1>2, LateIsTogether
<1> QED BY <1>1, <1>3, EndOver

LEMMA CleanOver ==
    ASSUME OverInv, Fine', NEW w \in Workers, Clean(w)
    PROVE  OverInv'
<1>0. UNCHANGED <<nics, bmcs, powers>>
    BY DEF Clean, rows
<1>1. PICK j \in At(w, "clean") :
          \/ /\ MacFree(j) /\ AddressFree(j) /\ OnlyPrimary(j)
             /\ To(w, j, "save") /\ Quiet
          \/ Refuse(w, j, MacFree(j) /\ ~AddressFree(j))
    BY DEF Clean
<1>2. j \in job[w] /\ j \in JobRec /\ j.step = "clean" /\ Sound(j) /\ j.id <= made
    BY InHandSound DEF OfNic
<1>3. CASE MacFree(j) /\ AddressFree(j) /\ OnlyPrimary(j) /\ To(w, j, "save") /\ Quiet
  <2>1. PICK n : n = [j EXCEPT !.step = "save"]
    OBVIOUS
  <2>2. Sound(n)
    BY <1>2, <1>3, <2>1, CleanedSound
  <2>3. n.num = j.num /\ n.id = j.id
    BY <1>2, <2>1 DEF JobRec
  <2>4. Go(w, n) /\ UNCHANGED <<made, together, stranded, displaced>>
    BY <1>3, <2>1 DEF To, Quiet
  <2> QED BY <1>0, <1>2, <2>2, <2>3, <2>4, GoOver
<1>4. CASE Refuse(w, j, MacFree(j) /\ ~AddressFree(j))
  <2>1. ~AddressFree(j) /\ j.kind = "add" /\ j.ip # Loopback
            => \E r \in nics \union bmcs : Late(r, j.num)
    BY <1>2 DEF AddressFree, Sound, SuggestedFree
  <2> QED BY <1>0, <1>4, <2>1, RefusedOver
<1> QED BY <1>1, <1>3, <1>4

LEMMA AnswerOver ==
    ASSUME OverInv, Fine', NEW w \in Workers, Answer(w)
    PROVE  OverInv'
<1>0. UNCHANGED <<nics, bmcs, powers, made, together, stranded, displaced>>
    BY DEF Answer, Quiet, rows
<1>1. PICK j \in At(w, "answer") :
          \/ \E a \in Entered, p \in BOOLEAN :
                Go(w, [j EXCEPT !.kind = "fetched", !.step = "clean", !.ip = a, !.primary = p,
                                !.read = {}])
          \/ End(w)
    BY DEF Answer
<1>2. j \in job[w] /\ j \in JobRec /\ j.step = "answer" /\ Sound(j) /\ j.id <= made
    BY InHandSound DEF OfNic
<1>3. CASE End(w)
    BY <1>0, <1>3, EndOver
<1>4. ASSUME NEW a \in Entered, NEW p \in BOOLEAN,
             Go(w, [j EXCEPT !.kind = "fetched", !.step = "clean", !.ip = a, !.primary = p,
                             !.read = {}])
      PROVE  OverInv'
  <2>1. PICK n : n = [j EXCEPT !.kind = "fetched", !.step = "clean", !.ip = a,
                               !.primary = p, !.read = {}]
    OBVIOUS
  <2>2. /\ n.num = j.num /\ n.step = "clean" /\ n.kind = "fetched"
        /\ n.id = j.id /\ n.machine = j.machine
    BY <1>2, <2>1 DEF JobRec
  <2>3. Sound(n)
    BY <1>2, <2>2 DEF Sound, OwnRow, OfNic, SavesNic, SavesBmc, SuggestedFree, SavesPower
  <2> QED BY <1>0, <1>2, <1>4, <2>1, <2>2, <2>3, GoOver
<1> QED BY <1>1, <1>3, <1>4

LEMMA BMCChecksOver ==
    ASSUME OverInv, Fine', NEW w \in Workers, CleanBMC(w) \/ AnswerBMC(w) \/ Fail(w)
    PROVE  OverInv'
<1>0. UNCHANGED <<nics, bmcs, powers, made, together, stranded, displaced>>
    BY DEF CleanBMC, AnswerBMC, Fail, Quiet, rows
<1>1. CASE End(w)
    BY <1>0, <1>1, EndOver
<1>2. CASE CleanBMC(w)
  <2>1. PICK j \in At(w, "cleanbmc") :
          \/ End(w)
          \/ /\ To(w, j, "savebmc")
             /\ \A r \in nics : r.mac # j.mac /\ (j.ip # None => r.ip # j.ip)
    BY <1>2 DEF CleanBMC
  <2>2. j \in job[w] /\ j \in JobRec
    BY InHandSound
  <2>3. PICK n : n = [j EXCEPT !.step = "savebmc"]
    OBVIOUS
  <2>4. n.num = j.num /\ n.step = "savebmc" /\ n.mac = j.mac /\ n.ip = j.ip
    BY <2>2, <2>3 DEF JobRec
  <2>5. CASE /\ To(w, j, "savebmc")
             /\ \A r \in nics : r.mac # j.mac /\ (j.ip # None => r.ip # j.ip)
    <3>1. Sound(n) /\ ~OfNic(n)
        BY <2>4, <2>5
        DEF Sound, OwnRow, OfNic, SavesNic, SavesBmc, SuggestedFree, SavesPower, Clash
    <3> QED BY <1>0, <2>2, <2>3, <2>4, <2>5, <3>1, GoOver DEF To
  <2> QED BY <1>1, <2>1, <2>5
<1>3. CASE AnswerBMC(w)
  <2>1. PICK j \in At(w, "answerbmc") :
          \/ \E a \in Entered :
                Go(w, [j EXCEPT !.kind = "fetched", !.step = "savebmc", !.ip = a,
                                !.from = "netbox", !.read = {}])
          \/ End(w)
    BY <1>3 DEF AnswerBMC
  <2>2. j \in job[w] /\ j \in JobRec
    BY InHandSound
  <2>3. ASSUME NEW a \in Entered,
               Go(w, [j EXCEPT !.kind = "fetched", !.step = "savebmc", !.ip = a,
                               !.from = "netbox", !.read = {}])
        PROVE  OverInv'
    <3>1. PICK n : n = [j EXCEPT !.kind = "fetched", !.step = "savebmc", !.ip = a,
                                 !.from = "netbox", !.read = {}]
        OBVIOUS
    <3>2. n.num = j.num /\ n.step = "savebmc" /\ n.from = "netbox"
        BY <2>2, <3>1 DEF JobRec
    <3>3. Sound(n) /\ ~OfNic(n)
        BY <3>2 DEF Sound, OwnRow, OfNic, SavesNic, SavesBmc, SuggestedFree, SavesPower
    <3> QED BY <1>0, <2>2, <2>3, <3>1, <3>2, <3>3, GoOver
  <2> QED BY <1>1, <2>1, <2>3
<1>4. CASE Fail(w)
    BY <1>1, <1>4 DEF Fail
<1> QED BY <1>2, <1>3, <1>4

LEMMA ManagementOver ==
    ASSUME OverInv, Fine', NEW w \in Workers, Management(w)
    PROVE  OverInv'
<1>0. UNCHANGED <<nics, bmcs, powers, made, together, stranded, displaced>>
    BY DEF Management, Quiet, rows
<1>1. PICK j \in At(w, "mgmt") :
        \/ \E c \in Macs, a \in Entered \union {None} :
              LET own == {b \in bmcs : b.machine = j.machine}
                  new == [j EXCEPT !.kind = "fetched", !.step = "savebmc", !.mac = c,
                                   !.ip = a, !.id = j.num, !.from = "netbox"]
              IN  \/ own = {} /\ Go(w, new)
                  \/ \E b \in own :
                        /\ b.mac = c
                        /\ Go(w, [new EXCEPT !.id = b.id,
                                             !.ip = IF a = None THEN b.ip ELSE a])
        \/ End(w)
    BY DEF Management
<1>2. j \in job[w] /\ j \in JobRec
    BY InHandSound
<1>3. CASE End(w)
    BY <1>0, <1>3, EndOver
<1>4. ASSUME NEW c \in Macs, NEW a \in Entered \union {None}, NEW new,
             new = [j EXCEPT !.kind = "fetched", !.step = "savebmc", !.mac = c,
                             !.ip = a, !.id = j.num, !.from = "netbox"]
      PROVE  new.num = j.num /\ new.step = "savebmc" /\ new.from = "netbox"
    BY <1>2, <1>4 DEF JobRec
<1>5. ASSUME NEW n, n.num = j.num, n.step = "savebmc", n.from = "netbox", Go(w, n)
      PROVE  OverInv'
  <2>1. Sound(n) /\ ~OfNic(n)
    BY <1>5 DEF Sound, OwnRow, OfNic, SavesNic, SavesBmc, SuggestedFree, SavesPower
  <2> QED BY <1>0, <1>2, <1>5, <2>1, GoOver
<1>6. ASSUME NEW c \in Macs, NEW a \in Entered \union {None}, NEW new, NEW b \in bmcs,
             new = [j EXCEPT !.kind = "fetched", !.step = "savebmc", !.mac = c,
                             !.ip = a, !.id = j.num, !.from = "netbox"],
             Go(w, [new EXCEPT !.id = b.id, !.ip = IF a = None THEN b.ip ELSE a])
      PROVE  OverInv'
  <2>1. PICK n : n = [new EXCEPT !.id = b.id, !.ip = IF a = None THEN b.ip ELSE a]
    OBVIOUS
  <2>2. n.num = j.num /\ n.step = "savebmc" /\ n.from = "netbox"
    BY <1>2, <1>6, <2>1 DEF JobRec
  <2> QED BY <1>5, <1>6, <2>1, <2>2
<1>7. ASSUME NEW c \in Macs, NEW a \in Entered \union {None}, NEW new,
             new = [j EXCEPT !.kind = "fetched", !.step = "savebmc", !.mac = c,
                             !.ip = a, !.id = j.num, !.from = "netbox"],
             Go(w, new)
      PROVE  OverInv'
    BY <1>4, <1>5, <1>7
<1> QED BY <1>1, <1>3, <1>6, <1>7

(* A new BMC's remote power is made for a machine without one, and any     *)
(* there is when it is saved came later.                                   *)
LEMMA PowerChecksOver ==
    ASSUME OverInv, Fine', NEW w \in Workers, HasPower(w) \/ CheckPower(w)
    PROVE  OverInv'
<1>0. UNCHANGED <<nics, bmcs, powers, made, together, stranded, displaced>>
    BY DEF HasPower, CheckPower, Quiet, rows
<1>1. CASE End(w)
    BY <1>0, <1>1, EndOver
<1>2. CASE HasPower(w)
  <2>1. PICK j \in At(w, "haspower") :
          \/ /\ Go(w, [j EXCEPT !.step = "checkpower", !.way = "bmc", !.device = Nothing])
             /\ \A p \in powers : p.machine # j.machine
          \/ To(w, j, "answerbmc")
          \/ End(w)
    BY <1>2 DEF HasPower, AfterPower
  <2>2. j \in job[w] /\ j \in JobRec
    BY InHandSound
  <2>3. CASE To(w, j, "answerbmc")
    <3>1. PICK n : n = [j EXCEPT !.step = "answerbmc"]
        OBVIOUS
    <3>2. n.num = j.num /\ n.step = "answerbmc"
        BY <2>2, <3>1 DEF JobRec
    <3>3. Sound(n) /\ ~OfNic(n)
        BY <3>2, OtherSound
    <3> QED BY <1>0, <2>2, <2>3, <3>1, <3>2, <3>3, GoOver DEF To
  <2>4. CASE /\ Go(w, [j EXCEPT !.step = "checkpower", !.way = "bmc", !.device = Nothing])
             /\ \A p \in powers : p.machine # j.machine
    <3>1. PICK n : n = [j EXCEPT !.step = "checkpower", !.way = "bmc", !.device = Nothing]
        OBVIOUS
    <3>2. n.num = j.num /\ n.step = "checkpower" /\ n.machine = j.machine
        BY <2>2, <3>1 DEF JobRec
    <3>3. Sound(n) /\ ~OfNic(n)
        BY <2>4, <3>2
        DEF Sound, OwnRow, OfNic, SavesNic, SavesBmc, SuggestedFree, SavesPower
    <3> QED BY <1>0, <2>2, <2>4, <3>1, <3>2, <3>3, GoOver
  <2> QED BY <1>1, <2>1, <2>3, <2>4
<1>3. CASE CheckPower(w)
  <2>1. PICK j \in At(w, "checkpower") :
          \/ Go(w, [j EXCEPT !.step = "savepower", !.device = KeptDevice(j)])
          \/ End(w)
    BY <1>3 DEF CheckPower
  <2>2. j \in job[w] /\ j \in JobRec /\ j.step = "checkpower" /\ Sound(j)
    BY InHandSound
  <2>3. CASE Go(w, [j EXCEPT !.step = "savepower", !.device = KeptDevice(j)])
    <3>1. PICK n : n = [j EXCEPT !.step = "savepower", !.device = KeptDevice(j)]
        OBVIOUS
    <3>2. n.num = j.num /\ n.step = "savepower" /\ n.machine = j.machine /\ n.kind = j.kind
        BY <2>2, <3>1 DEF JobRec
    <3>3. Sound(n) /\ ~OfNic(n)
        BY <2>2, <3>2
        DEF Sound, OwnRow, OfNic, SavesNic, SavesBmc, SuggestedFree, SavesPower
    <3> QED BY <1>0, <2>2, <2>3, <3>1, <3>2, <3>3, GoOver
  <2> QED BY <1>1, <2>1, <2>3
<1> QED BY <1>2, <1>3
-----------------------------------------------------------------------------
(* Rows saved: what is at odds with a new row was written by a job that    *)
(* was in hand with the one that saves it.                                 *)
LEMMA InterfaceSavedOver ==
    ASSUME OverInv, Fine', NEW w \in Workers, NEW j \in At(w, "save"),
           j.machine \in machines /\ ~MacTaken(j) /\ ~AddressTaken(j),
           nics' = OtherNics(j) \union {NicRow(j)},
           To(w, j, "answer") \/ To(w, j, "mgmt") \/ End(w),
           UNCHANGED <<bmcs, powers, made, together, stranded, displaced>>
    PROVE  OverInv'
<1>1. j \in job[w] /\ j \in JobRec /\ j.step = "save" /\ Sound(j) /\ j.id <= made
    BY InHandSound DEF OfNic
<1>2. PICK row : row = NicRow(j)
    OBVIOUS
<1>3. /\ row.id = j.id /\ row.machine = j.machine /\ row.mac = j.mac /\ row.ip = j.ip
      /\ row.primary = j.primary /\ j.num \in row.by
    BY <1>2 DEF NicRow
<1>4. nics' = OtherNics(j) \union {row}
    BY <1>2
<1>5. \A r \in nics' : (r \in nics /\ r.id # j.id) \/ r = row
    BY <1>4 DEF OtherNics
<1>6. Wrote(w)
  <2>1. \A r \in nics' : r \in nics \/ \E i \in job[w] : i.num \in r.by
    BY <1>1, <1>3, <1>5
  <2> QED BY <2>1 DEF Wrote
<1>7. ASSUME NEW s \in {"answer", "mgmt"}, To(w, j, s)
      PROVE  Moves(w)
  <2>1. PICK n : n = [j EXCEPT !.step = s]
    OBVIOUS
  <2>2. n.num = j.num /\ n.step = s /\ n.id = j.id /\ n.machine = j.machine
    BY <1>1, <2>1 DEF JobRec
  <2>3. OwnRow(n)'
    BY <1>3, <1>5, <2>2 DEF OwnRow, OfNic
  <2>4. Sound(n)'
    BY <1>7, <2>2, <2>3 DEF Sound, SavesNic, SavesBmc, SuggestedFree, SavesPower
  <2>5. PICK next : next = {n}
    OBVIOUS
  <2>6. job' = [job EXCEPT ![w] = next]
    BY <1>7, <2>1, <2>5 DEF To, Go
  <2>7. n.id <= made' /\ \A i, k \in next : i = k
    BY <1>1, <2>2, <2>5
  <2>8. \A i \in next : Sound(i)' /\ (OfNic(i) => i.id <= made') /\ \E k \in job[w] : i.num = k.num
    BY <1>1, <2>2, <2>4, <2>5, <2>7
  <2> QED BY <2>6, <2>7, <2>8 DEF Moves
<1>8. ASSUME End(w)
      PROVE  Moves(w)
  <2>1. PICK next : next = {}
    OBVIOUS
  <2>2. job' = [job EXCEPT ![w] = next]
    BY <1>8, <2>1 DEF End
  <2>3. \A n \in next : /\ Sound(n)' /\ (OfNic(n) => n.id <= made')
                        /\ \E k \in job[w] : n.num = k.num
    BY <2>1
  <2>4. \A i, n \in next : i = n
    BY <2>1
  <2> QED BY <2>2, <2>3, <2>4 DEF Moves
<1>9. Moves(w)
    BY <1>7, <1>8
<1>10. Paired' /\ JobsSound'
    BY <1>6, <1>9, MovedJobs DEF OverInv
<1>11. Counted'
    BY <1>1, <1>3, <1>5 DEF OverInv, Counted
<1>12. \A r, s : Overlapped(r, s) => Overlapped(r, s)'
    BY DEF Overlapped
<1>13. \A r : Late(r, j.num) => Overlapped(row, r)' /\ Overlapped(r, row)'
  <2> SUFFICES ASSUME NEW r, Late(r, j.num)
               PROVE  Overlapped(row, r)' /\ Overlapped(r, row)'
    OBVIOUS
  <2>1. PICK m \in r.by : {m, j.num} \in together
    BY DEF Late
  <2>2. {j.num, m} \in together
    BY <2>1
  <2> QED BY <1>3, <2>1, <2>2 DEF Overlapped
<1>14. \A r, s \in nics' : r # s /\ r.machine = s.machine /\ r.primary /\ s.primary
                              => Overlapped(r, s)'
  <2> SUFFICES ASSUME NEW r \in nics', NEW s \in nics',
                      r # s, r.machine = s.machine, r.primary, s.primary
               PROVE  Overlapped(r, s)'
    OBVIOUS
  <2>1. CASE r # row /\ s # row
    BY <1>5, <1>12, <2>1 DEF OverInv, OnlyOverlapping
  <2>2. CASE r = row
    BY <1>1, <1>3, <1>5, <1>13, <2>2 DEF Sound, SavesNic
  <2>3. CASE s = row
    BY <1>1, <1>3, <1>5, <1>13, <2>3 DEF Sound, SavesNic
  <2> QED BY <2>1, <2>2, <2>3
<1>15. \A r \in nics', b \in bmcs' :
          \/ r.mac # b.mac /\ (r.ip = None \/ r.ip # b.ip)
          \/ b.from = "netbox" \/ Overlapped(r, b)'
  <2> SUFFICES ASSUME NEW r \in nics', NEW b \in bmcs
               PROVE  \/ r.mac # b.mac /\ (r.ip = None \/ r.ip # b.ip)
                      \/ b.from = "netbox" \/ Overlapped(r, b)'
    OBVIOUS
  <2>1. CASE r \in nics
    BY <1>12, <2>1 DEF OverInv, OnlyOverlapping
  <2>2. CASE r = row
    BY <1>1, <1>3, <1>13, <2>2 DEF Sound, SavesNic, Clash
  <2> QED BY <1>5, <2>1, <2>2
<1>16. OnlyOverlapping'
    BY <1>14, <1>15 DEF OverInv, OnlyOverlapping
<1> QED BY <1>10, <1>11, <1>16 DEF OverInv

LEMMA SaveInterfaceOver ==
    ASSUME OverInv, Fine', NEW w \in Workers, SaveInterface(w)
    PROVE  OverInv'
<1>1. UNCHANGED <<bmcs, powers>>
    BY DEF SaveInterface
<1>2. PICK j \in At(w, "save") :
        \/ /\ j.machine \in machines /\ ~MacTaken(j) /\ ~AddressTaken(j)
           /\ nics' = OtherNics(j) \union {NicRow(j)}
           /\ To(w, j, "answer") \/ To(w, j, "mgmt") \/ End(w)
           /\ Quiet
        \/ /\ j.machine \notin machines \/ MacTaken(j) \/ AddressTaken(j)
           /\ Refuse(w, j, j.machine \in machines /\ ~MacTaken(j))
           /\ UNCHANGED nics
    BY DEF SaveInterface
<1>3. CASE /\ j.machine \in machines /\ ~MacTaken(j) /\ ~AddressTaken(j)
           /\ nics' = OtherNics(j) \union {NicRow(j)}
           /\ To(w, j, "answer") \/ To(w, j, "mgmt") \/ End(w)
           /\ Quiet
    BY <1>1, <1>3, InterfaceSavedOver DEF Quiet
<1>4. CASE /\ j.machine \notin machines \/ MacTaken(j) \/ AddressTaken(j)
           /\ Refuse(w, j, j.machine \in machines /\ ~MacTaken(j))
           /\ UNCHANGED nics
  <2>1. j.step = "save" /\ Sound(j)
    BY InHandSound
  <2>2. AddressTaken(j) /\ j.kind = "add" /\ j.ip # Loopback
            => \E r \in nics \union bmcs : Late(r, j.num)
    BY <2>1 DEF AddressTaken, OtherNics, Sound, SuggestedFree
  <2> QED BY <1>1, <1>4, <2>2, RefusedOver
<1> QED BY <1>2, <1>3, <1>4

LEMMA SaveBMCOver ==
    ASSUME OverInv, Fine', NEW w \in Workers, SaveBMC(w)
    PROVE  OverInv'
<1>1. UNCHANGED <<nics, powers, made, together, stranded, displaced>>
    BY DEF SaveBMC, Quiet
<1>2. PICK j \in At(w, "savebmc") :
        LET row == [id |-> j.id, machine |-> j.machine, mac |-> j.mac, ip |-> j.ip,
                    from |-> j.from, by |-> j.read \union {j.num}]
        IN  \/ /\ bmcs' = {b \in bmcs : b.id # j.id} \union {row}
               /\ To(w, j, "haspower")
            \/ End(w) /\ UNCHANGED bmcs
    BY DEF SaveBMC
<1>3. j \in job[w] /\ j \in JobRec /\ j.step = "savebmc" /\ Sound(j)
    BY InHandSound
<1>4. PICK row : row = [id |-> j.id, machine |-> j.machine, mac |-> j.mac, ip |-> j.ip,
                        from |-> j.from, by |-> j.read \union {j.num}]
    OBVIOUS
<1>5. CASE End(w) /\ UNCHANGED bmcs
    BY <1>1, <1>5, EndOver
<1>6. CASE bmcs' = {b \in bmcs : b.id # j.id} \union {row} /\ To(w, j, "haspower")
  <2>1. row.mac = j.mac /\ row.ip = j.ip /\ row.from = j.from /\ row.by = j.read \union {j.num}
    BY <1>4
  <2>2. \A b \in bmcs' : b \in bmcs \/ b = row
    BY <1>6
  <2>3. Wrote(w)
    <3>1. \A b \in bmcs' : b \in bmcs \/ \E i \in job[w] : i.num \in b.by
        BY <1>3, <2>1, <2>2
    <3> QED BY <1>1, <3>1 DEF Wrote
  <2>4. PICK n : n = [j EXCEPT !.step = "haspower"]
    OBVIOUS
  <2>5. n.num = j.num /\ n.step = "haspower"
    BY <1>3, <2>4 DEF JobRec
  <2>6. Sound(n)' /\ ~OfNic(n)
    BY <2>5 DEF Sound, OwnRow, OfNic, SavesNic, SavesBmc, SuggestedFree, SavesPower
  <2>7. PICK next : next = {n}
    OBVIOUS
  <2>8. Moves(w)
    <3>1. job' = [job EXCEPT ![w] = next]
        BY <1>6, <2>4, <2>7 DEF To, Go
    <3>2. \A i \in next : Sound(i)' /\ (OfNic(i) => i.id <= made') /\ \E k \in job[w] : i.num = k.num
        BY <1>3, <2>5, <2>6, <2>7
    <3>3. \A i, k \in next : i = k
        BY <2>7
    <3> QED BY <3>1, <3>2, <3>3 DEF Moves
  <2>9. Paired' /\ JobsSound'
    BY <1>1, <2>3, <2>8, MovedJobs DEF OverInv
  <2>10. Counted'
    BY <1>1 DEF OverInv, Counted
  <2>11. \A r, s : Overlapped(r, s) => Overlapped(r, s)'
    BY <1>1 DEF Overlapped
  <2>12. \A r \in nics : Clash(r, row) => row.from = "netbox" \/ Overlapped(r, row)'
    <3> SUFFICES ASSUME NEW r \in nics, Clash(r, row), row.from # "netbox"
                 PROVE  Overlapped(r, row)'
        OBVIOUS
    <3>1. Clash(r, j)
        BY <2>1 DEF Clash
    <3>2. PICK n1 \in j.read \union {j.num} : Late(r, n1)
        BY <1>3, <2>1, <3>1 DEF Sound, SavesBmc
    <3>3. PICK m \in r.by : {m, n1} \in together
        BY <3>2 DEF Late
    <3> QED BY <1>1, <2>1, <3>2, <3>3 DEF Overlapped
  <2>13. \A r \in nics', b \in bmcs' :
            \/ r.mac # b.mac /\ (r.ip = None \/ r.ip # b.ip)
            \/ b.from = "netbox" \/ Overlapped(r, b)'
    <3> SUFFICES ASSUME NEW r \in nics, NEW b \in bmcs'
                 PROVE  \/ r.mac # b.mac /\ (r.ip = None \/ r.ip # b.ip)
                        \/ b.from = "netbox" \/ Overlapped(r, b)'
        BY <1>1
    <3>1. CASE b \in bmcs
        BY <2>11, <3>1 DEF OverInv, OnlyOverlapping
    <3>2. CASE b = row
        BY <2>12, <3>2 DEF Clash
    <3> QED BY <2>2, <3>1, <3>2
  <2>14. OnlyOverlapping'
    BY <1>1, <2>11, <2>13 DEF OverInv, OnlyOverlapping
  <2> QED BY <2>9, <2>10, <2>14 DEF OverInv
<1> QED BY <1>2, <1>4, <1>5, <1>6

LEMMA SavePowerOver ==
    ASSUME OverInv, Fine', NEW w \in Workers, SavePower(w)
    PROVE  OverInv'
<1>1. UNCHANGED <<nics, bmcs, made, together, stranded>>
    BY DEF SavePower
<1>2. PICK j \in At(w, "savepower") :
        LET old == {p \in powers : p.machine = j.machine}
            row == [machine |-> j.machine, way |-> j.way, device |-> j.device, by |-> j.num]
        IN  \/ /\ powers' = (powers \ old) \union {row}
               /\ displaced' = IF j.kind = "power" THEN displaced
                               ELSE displaced \union {<<j.num, p.by>> : p \in old}
               /\ End(w) \/ To(w, j, "answerbmc")
            \/ End(w) /\ UNCHANGED <<powers, displaced>>
    BY DEF SavePower, AfterPower
<1>3. j \in job[w] /\ j \in JobRec /\ j.step = "savepower" /\ Sound(j)
    BY InHandSound
<1>4. CASE End(w) /\ UNCHANGED <<powers, displaced>>
    BY <1>1, <1>4, EndOver
<1>5. PICK row : row = [machine |-> j.machine, way |-> j.way, device |-> j.device, by |-> j.num]
    OBVIOUS
<1>6. PICK old : old = {p \in powers : p.machine = j.machine}
    OBVIOUS
<1>7. CASE /\ powers' = (powers \ old) \union {row}
           /\ displaced' = IF j.kind = "power" THEN displaced
                           ELSE displaced \union {<<j.num, p.by>> : p \in old}
           /\ End(w) \/ To(w, j, "answerbmc")
  <2>1. row.by = j.num
    BY <1>5
  <2>2. Wrote(w)
    <3>1. \A p \in powers' : p \in powers \/ \E i \in job[w] : p.by = i.num
        BY <1>3, <1>7, <2>1
    <3> QED BY <1>1, <3>1 DEF Wrote
  <2>3. ASSUME To(w, j, "answerbmc")
        PROVE  Moves(w)
    <3>1. PICK n : n = [j EXCEPT !.step = "answerbmc"]
        OBVIOUS
    <3>2. n.num = j.num /\ n.step = "answerbmc"
        BY <1>3, <3>1 DEF JobRec
    <3>3. Sound(n)' /\ ~OfNic(n)
        BY <3>2 DEF Sound, OwnRow, OfNic, SavesNic, SavesBmc, SuggestedFree, SavesPower
    <3>4. PICK next : next = {n}
        OBVIOUS
    <3>5. job' = [job EXCEPT ![w] = next]
        BY <2>3, <3>1, <3>4 DEF To, Go
    <3>6. \A i \in next : Sound(i)' /\ (OfNic(i) => i.id <= made') /\ \E k \in job[w] : i.num = k.num
        BY <1>3, <3>2, <3>3, <3>4
    <3>7. \A i, k \in next : i = k
        BY <3>4
    <3> QED BY <3>5, <3>6, <3>7 DEF Moves
  <2>4. ASSUME End(w)
        PROVE  Moves(w)
    <3>1. PICK next : next = {}
        OBVIOUS
    <3>2. job' = [job EXCEPT ![w] = next]
        BY <2>4, <3>1 DEF End
    <3>3. \A n \in next : /\ Sound(n)' /\ (OfNic(n) => n.id <= made')
                          /\ \E k \in job[w] : n.num = k.num
        BY <3>1
    <3>4. \A i, n \in next : i = n
        BY <3>1
    <3> QED BY <3>2, <3>3, <3>4 DEF Moves
  <2>5. Paired' /\ JobsSound'
    BY <1>1, <1>7, <2>2, <2>3, <2>4, MovedJobs DEF OverInv
  <2>6. Counted'
    BY <1>1 DEF OverInv, Counted
  <2>7. \A x \in displaced' : x \in displaced \/ {x[1], x[2]} \in together'
    <3>1. CASE j.kind = "power"
        BY <1>7, <3>1
    <3>2. CASE j.kind # "power"
        <4>1. \A p \in old : {j.num, p.by} \in together
            BY <1>3, <1>6, <3>2 DEF Sound, SavesPower
        <4>2. \A x \in displaced' : x \in displaced \/ \E p \in old : x = <<j.num, p.by>>
            BY <1>7, <3>2
        <4> QED BY <1>1, <4>1, <4>2
    <3> QED BY <3>1, <3>2
  <2>8. OnlyOverlapping'
    BY <1>1, <2>7, OverlapLater DEF OverInv
  <2> QED BY <2>5, <2>6, <2>8 DEF OverInv
<1> QED BY <1>2, <1>4, <1>5, <1>6, <1>7

LEMMA DeletedOver ==
    ASSUME OverInv, Fine', Delete \/ AddFromNetbox
    PROVE  OverInv'
<1>1. UNCHANGED <<job, made, together, stranded, displaced>>
    BY DEF Delete, AddFromNetbox, DeleteInterface, DeleteBMC, DeletePower, DeleteDevice,
           DeleteMachine, Quiet
<1>2. nics' \subseteq nics /\ bmcs' \subseteq bmcs /\ powers' \subseteq powers
    BY DEF Delete, AddFromNetbox, DeleteInterface, DeleteBMC, DeletePower, DeleteDevice,
           DeleteMachine
<1>3. OnlyOverlapping'
    BY <1>1, <1>2, OverlapLater DEF OverInv
<1>4. \A w \in Workers : \A j \in job[w] : Sound(j)'
  <2> SUFFICES ASSUME NEW w \in Workers, NEW j \in job[w]
               PROVE  Sound(j)'
    OBVIOUS
  <2>1. Sound(j)
    BY DEF OverInv, JobsSound
  <2> QED BY <1>1, <1>2, <2>1, SoundLater
<1>5. JobsSound'
    BY <1>1, <1>4 DEF OverInv, JobsSound, OfNic
<1>6. Counted' /\ Paired'
    BY <1>1, <1>2 DEF OverInv, Counted, Paired
<1> QED BY <1>3, <1>5, <1>6 DEF OverInv
-----------------------------------------------------------------------------
LEMMA InitOver == Init => OverInv
<1> SUFFICES ASSUME Init PROVE OverInv
    OBVIOUS
<1>1. Fine
    BY InitFine
<1>2. Paired /\ JobsSound
    BY DEF Init, Paired, JobsSound
<1>3. PICK c \in Macs, a \in Entered :
        nics = {[id |-> 0, machine |-> First, mac |-> c, ip |-> a,
                 primary |-> TRUE, by |-> {0}]}
    BY DEF Init
<1>4. PICK row : row = [id |-> 0, machine |-> First, mac |-> c, ip |-> a,
                        primary |-> TRUE, by |-> {0}]
    OBVIOUS
<1>5. nics = {row} /\ row.id = 0
    BY <1>3, <1>4
<1>6. made = 0 /\ stranded = {} /\ displaced = {}
    BY DEF Init
<1>7. Counted
    BY <1>5, <1>6 DEF Counted
<1>8. \A r \in nics, b \in bmcs : r.mac # b.mac /\ r.ip # b.ip
  <2>1. CASE bmcs = {}
    BY <2>1
  <2>2. CASE bmcs # {}
    <3>1. PICK d \in Macs, e \in Entered \union {NetworkIp + 2} :
            /\ \A r \in nics : r.mac # d /\ r.ip # e
            /\ bmcs = {[id |-> 0, machine |-> First, mac |-> d, ip |-> e,
                        from |-> "form", by |-> {0}]}
        BY <2>2 DEF Init
    <3>2. PICK bmc : bmc = [id |-> 0, machine |-> First, mac |-> d, ip |-> e,
                            from |-> "form", by |-> {0}]
        OBVIOUS
    <3>3. bmcs = {bmc} /\ bmc.mac = d /\ bmc.ip = e
        BY <3>1, <3>2
    <3> QED BY <3>1, <3>3
  <2> QED BY <2>1, <2>2
<1>9. OnlyOverlapping
    BY <1>5, <1>6, <1>8 DEF OnlyOverlapping
<1> QED BY <1>1, <1>2, <1>7, <1>9 DEF OverInv

LEMMA StepOver == OverInv /\ [Next]_vars => OverInv'
<1> SUFFICES ASSUME OverInv, [Next]_vars PROVE OverInv'
    OBVIOUS
<1>0. Fine'
    BY StepFine DEF OverInv
<1>1. CASE UNCHANGED vars
  <2>1. UNCHANGED <<nics, bmcs, powers, job, made, together, stranded, displaced>>
    BY <1>1 DEF vars, rows
  <2>2. OnlyOverlapping'
    BY <2>1, OverlapLater DEF OverInv
  <2>3. JobsSound'
    BY <2>1, SoundStill DEF OverInv, JobsSound, OfNic
  <2>4. Counted' /\ Paired'
    BY <2>1 DEF OverInv, Counted, Paired
  <2> QED BY <1>0, <2>2, <2>3, <2>4 DEF OverInv
<1>2. ASSUME NEW w \in Workers, Requests(w) \/ Imports(w)
      PROVE  OverInv'
    BY <1>0, <1>2, InterfaceBegunOver, SyncBegunOver, BMCBegunOver DEF Requests, Imports
<1>3. ASSUME NEW w \in Workers, Continue(w)
      PROVE  OverInv'
    BY <1>0, <1>3, SuggestOver, AnswerOver, CleanOver, SaveInterfaceOver, BMCChecksOver,
       ManagementOver, SaveBMCOver, PowerChecksOver, SavePowerOver
    DEF Continue
<1>4. CASE AddFromNetbox \/ Delete
    BY <1>0, <1>4, DeletedOver
<1> QED BY <1>1, <1>2, <1>3, <1>4 DEF Next

(* Two primary interfaces of a machine, an address of an interface and a   *)
(* BMC, a remote power replaced unasked and an addition that loses its     *)
(* interface take two jobs that were in hand at once, or the import of a   *)
(* BMC, however many others there were (NetworkInterface.clean, BMC.clean, *)
(* BMC.save, AddMachineCommand.post).                                      *)
THEOREM OverlapsOnly == Spec => []OnlyOverlapping
<1>1. OverInv => OnlyOverlapping
    BY DEF OverInv
<1> QED BY <1>1, InitOver, StepOver, PTL DEF Spec
=============================================================================
