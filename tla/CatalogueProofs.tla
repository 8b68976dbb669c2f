--------------------------- MODULE CatalogueProofs ---------------------------
(***************************************************************************)
(* Proofs about Catalogue, for any rows, users, workers and requests.      *)
(***************************************************************************)
EXTENDS Catalogue, TLAPS

(* What the models say of the keys of some of them.                        *)
LEMMA RootKeys ==
    ASSUME NEW k \in Keys
    PROVE  /\ k[1] \notin {"System", "Architecture", "Manufacturer"}
           /\ k[1] \in {"Enclosure", "Domain"} => k \in SetsNull
BY DEF SetsNull, Keys, DeviceTypeKeys, EnclosureKeys, DomainKeys, DomainAdminKeys, MachineKeys,
       RemotePowerDeviceKeys, BMCKeys, RemotePowerKeys, SerialConsoleKeys, NetworkInterfaceKeys,
       AnnotationKeys, ComparisionRunKeys, ComparisionResultKeys

LEMMA HardwareKeys ==
    ASSUME NEW k \in Keys
    PROVE  /\ k[1] = "DeviceType" => k[2] = "manufacturer" /\ k[3] = "Manufacturer"
           /\ k[1] = "Enclosure" => k[2] = "device_type" /\ k[3] = "DeviceType"
           /\ k[1] = "Machine" => 
                /\ k[2] = "enclosure" => k[3] = "Enclosure"
                /\ k[2] = "system" => k[3] = "System"
                /\ k[2] = "architecture" => k[3] = "Architecture"
                /\ k[2] = "fqdn_domain" => k[3] = "Domain"
                /\ k[2] = "device_type" => k[3] = "DeviceType"
                /\ k \notin SetsNull => k[2] \in {"enclosure", "system", "architecture", "fqdn_domain"}
BY DEF SetsNull, Keys, DeviceTypeKeys, EnclosureKeys, DomainKeys, DomainAdminKeys, MachineKeys,
       RemotePowerDeviceKeys, BMCKeys, RemotePowerKeys, SerialConsoleKeys, NetworkInterfaceKeys,
       AnnotationKeys, ComparisionRunKeys, ComparisionResultKeys

LEMMA PartKeys ==
    ASSUME NEW k \in Keys
    PROVE  /\ k[1] = "ComparisionResult" => k[2] = "run_id"
           /\ k[1] = "NetworkInterface" => k[2] = "machine"
           /\ k[1] = "RemotePower" => k[2] \in {"machine", "fence_agent", "remote_power_device"}
BY DEF Keys, DeviceTypeKeys, EnclosureKeys, DomainKeys, DomainAdminKeys, MachineKeys,
       RemotePowerDeviceKeys, BMCKeys, RemotePowerKeys, SerialConsoleKeys, NetworkInterfaceKeys,
       AnnotationKeys, ComparisionRunKeys, ComparisionResultKeys

LEMMA SomeKeys ==
    /\ <<"DeviceType", "manufacturer", "Manufacturer">> \in Keys
    /\ <<"Enclosure", "device_type", "DeviceType">> \in Keys
    /\ <<"Machine", "enclosure", "Enclosure">> \in Keys
    /\ <<"Machine", "system", "System">> \in Keys
    /\ <<"Machine", "architecture", "Architecture">> \in Keys
    /\ <<"Machine", "fqdn_domain", "Domain">> \in Keys
    /\ <<"Machine", "device_type", "DeviceType">> \in Keys
    /\ <<"ComparisionResult", "run_id", "ComparisionRun">> \in Keys
    /\ <<"NetworkInterface", "machine", "Machine">> \in Keys
    /\ <<"RemotePower", "machine", "Machine">> \in Keys
    /\ <<"RemotePower", "fence_agent", "RemotePowerType">> \in Keys
    /\ <<"RemotePower", "remote_power_device", "RemotePowerDevice">> \in Keys
BY DEF Keys, DeviceTypeKeys, EnclosureKeys, DomainKeys, DomainAdminKeys, MachineKeys,
       RemotePowerDeviceKeys, BMCKeys, RemotePowerKeys, SerialConsoleKeys, NetworkInterfaceKeys,
       AnnotationKeys, ComparisionRunKeys, ComparisionResultKeys

LEMMA KeysFromAre ==
    ASSUME NEW m, NEW k
    PROVE  k \in KeysFrom(m) <=> k \in Keys /\ k[1] = m
BY DEF KeysFrom, KeysOf

LEMMA FieldOf ==
    ASSUME NEW m, NEW f, NEW t, <<m, f, t>> \in Keys
    PROVE  f \in Fields(m)
<1>1. <<m, f, t>>[1] = m /\ <<m, f, t>>[2] = f
    OBVIOUS
<1>2. <<m, f, t>> \in KeysFrom(m)
    BY <1>1, KeysFromAre
<1> QED BY <1>1, <1>2 DEF Fields

LEMMA FieldsOfKeys ==
    ASSUME NEW m, NEW f \in Fields(m)
    PROVE  \E k \in Keys : k[1] = m /\ k[2] = f
BY KeysFromAre DEF Fields

LEMMA SomeFields ==
    /\ Fields("Manufacturer") = {}
    /\ Fields("DeviceType") = {"manufacturer"}
    /\ Fields("Enclosure") = {"device_type"}
    /\ {"enclosure", "system", "architecture", "fqdn_domain", "device_type"} \subseteq Fields("Machine")
    /\ Fields("ComparisionResult") = {"run_id"}
    /\ Fields("NetworkInterface") = {"machine"}
    /\ Fields("RemotePower") = {"machine", "fence_agent", "remote_power_device"}
<1>1. Fields("Manufacturer") = {}
    BY FieldsOfKeys, RootKeys
<1>2. Fields("DeviceType") = {"manufacturer"}
    BY FieldsOfKeys, HardwareKeys, SomeKeys, FieldOf
<1>3. Fields("Enclosure") = {"device_type"}
    BY FieldsOfKeys, HardwareKeys, SomeKeys, FieldOf
<1>4. {"enclosure", "system", "architecture", "fqdn_domain", "device_type"} \subseteq Fields("Machine")
    BY SomeKeys, FieldOf
<1>5. Fields("ComparisionResult") = {"run_id"}
    BY FieldsOfKeys, PartKeys, SomeKeys, FieldOf
<1>6. Fields("NetworkInterface") = {"machine"}
    BY FieldsOfKeys, PartKeys, SomeKeys, FieldOf
<1>7. Fields("RemotePower") = {"machine", "fence_agent", "remote_power_device"}
    BY FieldsOfKeys, PartKeys, SomeKeys, FieldOf
<1> QED BY <1>1, <1>2, <1>3, <1>4, <1>5, <1>6, <1>7

LEMMA KeyOfField ==
    ASSUME NEW m, NEW f \in Fields(m)
    PROVE  KeyOf(m, f) \in Keys /\ KeyOf(m, f)[1] = m /\ KeyOf(m, f)[2] = f
<1>1. PICK k \in KeysFrom(m) : k[2] = f
    BY DEF Fields
<1>2. KeyOf(m, f) \in KeysFrom(m) /\ KeyOf(m, f)[2] = f
    BY <1>1 DEF KeyOf
<1> QED BY <1>2, KeysFromAre

LEMMA NullIfSetNull ==
    ASSUME NEW m, NEW f \in Fields(m), KeyOf(m, f) \in SetsNull, NEW rows
    PROVE  Fits(Null, m, f, rows)
BY DEF Fits, Optional

LEMMA DeviceTypeSetNull ==
    ASSUME NEW m, "device_type" \in Fields(m)
    PROVE  KeyOf(m, "device_type") \in SetsNull
BY KeyOfField DEF SetsNull
-----------------------------------------------------------------------------
(* References stay sound when rows are written, added and deleted.         *)
Consistent(refs) ==
    \A r \in DOMAIN refs : /\ DOMAIN refs[r] = Fields(Model(r))
                           /\ Sound(Model(r), refs[r], DOMAIN refs)

LEMMA SoundGrows ==
    ASSUME NEW m, NEW value, NEW rows, NEW more, rows \subseteq more, Sound(m, value, rows)
    PROVE  Sound(m, value, more)
BY DEF Sound, Fits

LEMMA PutConsistent ==
    ASSUME NEW r, NEW value, NEW refs, Consistent(refs), DOMAIN value = Fields(Model(r)),
           Sound(Model(r), value, DOMAIN refs \union {r})
    PROVE  Consistent(Put(r, value, refs))
<1> DEFINE new == Put(r, value, refs)
<1> SUFFICES ASSUME NEW x \in DOMAIN new
             PROVE  DOMAIN new[x] = Fields(Model(x)) /\ Sound(Model(x), new[x], DOMAIN new)
    BY DEF Consistent
<1>0. DOMAIN refs \union {r} \subseteq DOMAIN new
    BY DEF Put
<1>1. CASE x = r
  <2>1. new[x] = value
    BY <1>1 DEF Put
  <2>2. Sound(Model(x), value, DOMAIN new)
    BY <1>0, <1>1, SoundGrows
  <2> QED BY <1>1, <2>1, <2>2
<1>2. CASE x # r
  <2>1. x \in DOMAIN refs /\ new[x] = refs[x]
    BY <1>2 DEF Put
  <2>2. DOMAIN refs[x] = Fields(Model(x)) /\ Sound(Model(x), refs[x], DOMAIN refs)
    BY <2>1 DEF Consistent
  <2>3. DOMAIN refs \subseteq DOMAIN new
    BY <1>0
  <2>4. Sound(Model(x), refs[x], DOMAIN new)
    BY <2>2, <2>3, SoundGrows
  <2> HIDE DEF new
  <2> QED BY <2>1, <2>2, <2>4
<1> QED BY <1>1, <1>2

(* What requests do to the rows before they write: they may add a device   *)
(* type, a manufacturer or an enclosure without a device type.             *)
Grown(refs, more) ==
    /\ Consistent(more)
    /\ DOMAIN refs \subseteq DOMAIN more /\ DOMAIN more \subseteq Rows
    /\ \A r \in DOMAIN refs : more[r] = refs[r]
    /\ \A r \in DOMAIN more \ DOMAIN refs :
          /\ Model(r) # "Machine"
          /\ Model(r) = "Enclosure" => more[r]["device_type"] = Null

LEMMA GrownSame ==
    ASSUME NEW refs, Consistent(refs), DOMAIN refs \subseteq Rows
    PROVE  Grown(refs, refs)
BY DEF Grown

LEMMA GrownTwice ==
    ASSUME NEW refs, NEW more, NEW most, Grown(refs, more), Grown(more, most)
    PROVE  Grown(refs, most)
BY DEF Grown

LEMMA PutNewGrown ==
    ASSUME NEW r \in Rows, NEW value, NEW refs, Consistent(refs), DOMAIN refs \subseteq Rows,
           DOMAIN value = Fields(Model(r)), Sound(Model(r), value, DOMAIN refs \union {r}),
           Model(r) # "Machine", Model(r) = "Enclosure" => value["device_type"] = Null
    PROVE  Grown(refs, PutNew(r, value, refs)) /\ r \in DOMAIN PutNew(r, value, refs)
<1>1. CASE r \in DOMAIN refs
    BY <1>1, GrownSame DEF PutNew
<1>2. CASE r \notin DOMAIN refs
  <2>1. PutNew(r, value, refs) = Put(r, value, refs)
    BY <1>2 DEF PutNew
  <2>2. Consistent(Put(r, value, refs))
    BY PutConsistent
  <2> DEFINE new == Put(r, value, refs)
  <2>3. DOMAIN refs \subseteq DOMAIN new /\ DOMAIN new \subseteq Rows /\ r \in DOMAIN new
    BY DEF Put
  <2>4. \A x \in DOMAIN refs : new[x] = refs[x]
    BY <1>2 DEF Put
  <2>5. \A x \in DOMAIN new \ DOMAIN refs : x = r
    BY DEF Put
  <2>6. new[r] = value
    BY DEF Put
  <2> HIDE DEF new
  <2>7. Grown(refs, new)
    BY <2>2, <2>3, <2>4, <2>5, <2>6 DEF Grown, new
  <2> QED BY <2>1, <2>3, <2>7 DEF new
<1> QED BY <1>1, <1>2

LEMMA WithEnclosureGrown ==
    ASSUME NEW e \in Rows, Model(e) = "Enclosure", NEW refs, Consistent(refs), DOMAIN refs \subseteq Rows
    PROVE  Grown(refs, WithEnclosure(e, refs)) /\ e \in DOMAIN WithEnclosure(e, refs)
<1> DEFINE value == [device_type |-> Null]
<1>1. DOMAIN value = {"device_type"} /\ value["device_type"] = Null
    OBVIOUS
<1>2. Sound("Enclosure", value, DOMAIN refs \union {e})
    BY <1>1, SomeFields, NullIfSetNull, DeviceTypeSetNull DEF Sound
<1> QED BY <1>1, <1>2, SomeFields, PutNewGrown DEF WithEnclosure

(* A reference that is set to NULL may be NULL, and what is not set to     *)
(* NULL is not gone.                                                       *)
LEMMA NulledSound ==
    ASSUME NEW m, NEW value, NEW rows, NEW gone, Sound(m, value, rows),
           \A k \in Cascades(m) : value[k[2]] \notin gone
    PROVE  Sound(m, Nulled(m, value, gone), rows \ gone)
<1> SUFFICES ASSUME NEW f \in Fields(m)
             PROVE  Fits(Nulled(m, value, gone)[f], m, f, rows \ gone)
    BY DEF Sound
<1>1. Fits(value[f], m, f, rows)
    BY DEF Sound
<1>2. Nulled(m, value, gone)[f] =
        IF value[f] \in gone /\ KeyOf(m, f) \in SetsNull THEN Null ELSE value[f]
    BY DEF Nulled
<1>3. CASE value[f] \in gone
  <2>1. KeyOf(m, f) \in SetsNull
    BY <1>3, KeyOfField, KeysFromAre DEF Cascades
  <2> QED BY <1>2, <1>3, <2>1, NullIfSetNull
<1>4. CASE value[f] \notin gone
    BY <1>1, <1>2, <1>4 DEF Fits
<1> QED BY <1>3, <1>4
-----------------------------------------------------------------------------
(* The invariant.  Of every job: what it is about, what it will write, and *)
(* of a deletion who asked for it and what it may take along.              *)
Roots == {"System", "Enclosure"} \union Guarded

Asked(j) ==
    /\ Model(j.row) \in {"Machine", "System"} \union Guarded => j.by \in Superusers
    /\ Model(j.row) = "Enclosure" => j.by \in Superusers \union Permitted["Enclosure"]
    /\ j.by = Null => /\ Model(j.row) \in {"ComparisionRun", "DeviceType", "Manufacturer"}
                      /\ j.row \in j.doomed

Chosen1(j) == \A x \in j.doomed : Model(x) = Model(j.row) /\ j.by = Null

Hardware(x) == Model(x) \in {"Machine", "Enclosure"}
TakesMachines(j) ==
    \A x \in j.doomed : Hardware(x) => x = j.row \/ Model(j.row) \in Roots

JobSound(j) ==
    /\ j.phase \in {"shown", "valid", "checked", "collected", "resolve", "typing"}
    /\ j.op \in {"add", "edit", "delete", "fetch"}
    /\ j.maker \in Rows \union {Null}
    /\ j.row \in Rows /\ j.doomed \subseteq Rows /\ j.late \subseteq Rows
    /\ j.phase \in {"valid", "resolve", "typing"} => DOMAIN j.value = Fields(Model(j.row))
    /\ j.phase \in {"resolve", "typing"} => Model(j.row) = "Machine" /\ j.op \in {"add", "edit"}
    /\ j.phase \in {"resolve", "typing"} /\ j.op = "add" =>
          j.value["enclosure"] \in Rows /\ Model(j.value["enclosure"]) = "Enclosure"
    /\ j.phase = "typing" => j.maker \in Rows /\ Model(j.maker) = "Manufacturer"
    /\ j.op = "delete" <=> j.phase \in {"checked", "collected"}
    /\ j.op = "delete" => Asked(j)
    /\ j.phase = "checked" => Chosen1(j)
    /\ j.phase = "collected" => TakesMachines(j)

(* Whatever it takes along that it did not mean to, was saved late.        *)
Late(j, x, refs) == x \in j.late \/ refs[x]["device_type"] \in j.late

MachinesLate(j, refs) ==
    Model(j.row) \in Guarded =>
        /\ j.phase = "checked" =>
             \A x \in DOMAIN refs :
                Model(x) = "Machine" /\ j.row \in {refs[x]["fqdn_domain"], refs[x]["architecture"]}
                => x \in j.late
        /\ j.phase = "collected" => \A x \in j.doomed : Model(x) = "Machine" => x \in j.late

TypesLate(j, refs) ==
    \A x \in DOMAIN refs : Hardware(x) /\ refs[x]["device_type"] \in j.doomed => Late(j, x, refs)

MakersLate(j, refs) ==
    \A x \in DOMAIN refs :
        /\ Hardware(x) /\ refs[x]["device_type"] # Null
        /\ refs[refs[x]["device_type"]]["manufacturer"] \in j.doomed
        => Late(j, x, refs)

LateSound(j, refs) ==
    j.op = "delete" =>
        /\ MachinesLate(j, refs)
        /\ j.by = Null =>
             /\ j.phase = "collected" \/ Model(j.row) = "DeviceType" => TypesLate(j, refs)
             /\ j.phase = "checked" /\ Model(j.row) = "Manufacturer" => MakersLate(j, refs)

Jobs ==
    /\ job = [w \in Workers |-> job[w]]
    /\ \A w \in Workers : \A i, j \in job[w] : i = j
    /\ \A w \in Workers : \A j \in job[w] : JobSound(j)
    /\ \A w \in Workers : \A j \in job[w] : LateSound(j, ref)

CatInv ==
    /\ Live \subseteq Rows
    /\ References
    /\ asked \in 0..MaxRequests
    /\ Jobs

LEMMA JobFields ==
    ASSUME NEW p, NEW o, NEW u, NEW r, NEW v, NEW m, NEW d, NEW l
    PROVE  LET j == AnyJob(p, o, u, r, v, m, d, l)
           IN  /\ j.phase = p /\ j.op = o /\ j.by = u /\ j.row = r
               /\ j.value = v /\ j.maker = m /\ j.doomed = d /\ j.late = l
BY DEF AnyJob

LEMMA LateSoundGrown ==
    ASSUME NEW j, NEW refs, NEW more, JobSound(j), LateSound(j, refs), Consistent(refs),
           DOMAIN refs \subseteq Rows, Grown(refs, more)
    PROVE  LateSound(j, more)
<1> USE CatalogueAssumption
<1> SUFFICES ASSUME j.op = "delete"
             PROVE  /\ MachinesLate(j, more)
                    /\ j.by = Null =>
                         /\ j.phase = "collected" \/ Model(j.row) = "DeviceType" => TypesLate(j, more)
                         /\ j.phase = "checked" /\ Model(j.row) = "Manufacturer" => MakersLate(j, more)
    BY DEF LateSound
<1>0. Null \notin j.doomed /\ j.doomed \subseteq Rows
    BY DEF JobSound
<1>1. \A x \in DOMAIN more : Hardware(x) =>
         \/ x \in DOMAIN refs /\ more[x] = refs[x]
         \/ more[x]["device_type"] = Null
    BY DEF Hardware, Grown
<1>2. MachinesLate(j, more)
    BY DEF LateSound, MachinesLate, Grown
<1>3. ASSUME TypesLate(j, refs)
      PROVE  TypesLate(j, more)
    BY <1>0, <1>1, <1>3 DEF TypesLate, Late
<1>4. ASSUME MakersLate(j, refs)
      PROVE  MakersLate(j, more)
  <2> SUFFICES ASSUME NEW x \in DOMAIN more, Hardware(x), more[x]["device_type"] # Null,
                      more[more[x]["device_type"]]["manufacturer"] \in j.doomed
               PROVE  Late(j, x, more)
    BY DEF MakersLate
  <2>1. x \in DOMAIN refs /\ more[x] = refs[x]
    BY <1>1
  <2>2. "device_type" \in Fields(Model(x))
    BY SomeFields DEF Hardware
  <2>3. Fits(refs[x]["device_type"], Model(x), "device_type", DOMAIN refs)
    BY <2>1, <2>2 DEF Consistent, Sound
  <2>4. refs[x]["device_type"] \in DOMAIN refs
    BY <2>1, <2>3 DEF Fits
  <2>5. more[refs[x]["device_type"]] = refs[refs[x]["device_type"]]
    BY <2>4 DEF Grown
  <2> QED BY <1>4, <2>1, <2>5 DEF MakersLate, Late
<1> QED BY <1>2, <1>3, <1>4 DEF LateSound

(* A step of a request that does not write its row: it gets a job, goes on *)
(* with it or drops it.                                                    *)
Moves(w) ==
    \E next :
        /\ job' = [job EXCEPT ![w] = next]
        /\ \A i, j \in next : i = j
        /\ \A j \in next : JobSound(j) /\ LateSound(j, ref')
        /\ Grown(ref, ref')
        /\ asked' \in 0..MaxRequests

LEMMA MovesInv ==
    ASSUME CatInv, NEW w \in Workers, Moves(w)
    PROVE  CatInv'
<1>1. PICK next :
        /\ job' = [job EXCEPT ![w] = next]
        /\ \A i, j \in next : i = j
        /\ \A j \in next : JobSound(j) /\ LateSound(j, ref')
        /\ Grown(ref, ref')
        /\ asked' \in 0..MaxRequests
    BY DEF Moves
<1>2. job = [v \in Workers |-> job[v]]
    BY DEF CatInv, Jobs
<1>3. job' = [v \in Workers |-> job'[v]] /\ job'[w] = next
       /\ \A v \in Workers : v # w => job'[v] = job[v]
    BY <1>1, <1>2
<1>4. Consistent(ref) /\ DOMAIN ref \subseteq Rows
    BY DEF CatInv, References, Consistent, Live
<1>5. \A v \in Workers : \A i, j \in job'[v] : i = j
    BY <1>1, <1>3 DEF CatInv, Jobs
<1>6. \A v \in Workers : \A j \in job'[v] : JobSound(j)
    BY <1>1, <1>3 DEF CatInv, Jobs
<1>7. \A v \in Workers : \A j \in job'[v] : LateSound(j, ref')
    BY <1>1, <1>3, <1>4, LateSoundGrown DEF CatInv, Jobs
<1>8. (Live \subseteq Rows)' /\ References'
    BY <1>1 DEF Grown, Consistent, References, Live
<1> QED BY <1>1, <1>3, <1>5, <1>6, <1>7, <1>8 DEF CatInv, Jobs

LEMMA Begins ==
    ASSUME CatInv, NEW w \in Workers, Idle(w), NEW j, Begin(w, j), ref' = ref,
           JobSound(j), LateSound(j, ref)
    PROVE  Moves(w)
<1>0. PICK next : next = {j}
    OBVIOUS
<1>1. Grown(ref, ref')
    BY GrownSame DEF CatInv, References, Consistent, Live
<1>2. asked' \in 0..MaxRequests
    BY CatalogueAssumption DEF CatInv, Idle, Begin
<1>3. /\ job' = [job EXCEPT ![w] = next]
      /\ \A i, k \in next : i = k
      /\ \A i \in next : JobSound(i) /\ LateSound(i, ref')
    BY <1>0 DEF Begin
<1> QED BY <1>1, <1>2, <1>3 DEF Moves

LEMMA Goes ==
    ASSUME CatInv, NEW w \in Workers, NEW j, Go(w, j), Grown(ref, ref'),
           JobSound(j), LateSound(j, ref')
    PROVE  Moves(w)
<1>0. PICK next : next = {j}
    OBVIOUS
<1>1. asked' \in 0..MaxRequests
    BY DEF CatInv, Go
<1>2. /\ job' = [job EXCEPT ![w] = next]
      /\ \A i, k \in next : i = k
      /\ \A i \in next : JobSound(i) /\ LateSound(i, ref')
    BY <1>0 DEF Go
<1> QED BY <1>1, <1>2 DEF Moves

LEMMA Ends ==
    ASSUME CatInv, NEW w \in Workers, End(w), Grown(ref, ref')
    PROVE  Moves(w)
<1>0. PICK next : next = {}
    OBVIOUS
<1>1. /\ job' = [job EXCEPT ![w] = next] /\ asked' \in 0..MaxRequests
      /\ \A i \in next : FALSE
    BY <1>0 DEF CatInv, End
<1> QED BY <1>1 DEF Moves

(* Jobs that are no deletions.                                             *)
LEMMA PlainJob ==
    ASSUME NEW phase \in {"shown", "valid"}, NEW op \in {"add", "edit", "fetch"}, NEW u,
           NEW r \in Rows, NEW value, phase = "valid" => DOMAIN value = Fields(Model(r)), NEW refs
    PROVE  JobSound(Job(phase, op, u, r, value)) /\ LateSound(Job(phase, op, u, r, value), refs)
BY JobFields DEF Job, JobSound, LateSound

LEMMA FilledHas ==
    ASSUME NEW m, NEW form, NEW given, NEW v \in Filled(m, form, given)
    PROVE  DOMAIN v = Fields(m) /\ Sound(m, v, Live)
BY DEF Filled

LEMMA AddsMoves ==
    ASSUME CatInv, NEW w \in Workers, NEW who, NEW m, NEW form, Adds(w, who, m, form)
    PROVE  Moves(w)
<1>1. PICK u \in who \intersect Live, r \in New(m), v \in Filled(m, form, NoneGiven) :
          Begin(w, Job("valid", "add", u, r, v))
    BY DEF Adds
<1>2. r \in Rows /\ Model(r) = m
    BY DEF New
<1>3. DOMAIN v = Fields(Model(r))
    BY <1>2, FilledHas
<1> QED BY <1>1, <1>2, <1>3, PlainJob, Begins DEF Adds

LEMMA SlotsAre ==
    ASSUME NEW m, NEW machine, NEW r \in Slots(m, machine)
    PROVE  r \in Rows /\ Model(r) = m
BY DEF Slots, New, Model

LEMMA AddsToMoves ==
    ASSUME CatInv, NEW w \in Workers, NEW STATE who, NEW m, NEW form, AddsTo(w, who, m, form)
    PROVE  Moves(w)
<1>1. PICK u \in who \intersect Live, machine \in Old("Machine") :
       \E r \in Slots(m, machine), v \in Filled(m, form, GivenFor(m, machine, u)) :
          Begin(w, Job("valid", "add", u, r, v))
    BY DEF AddsTo
<1>2. PICK r \in Slots(m, machine), v \in Filled(m, form, GivenFor(m, machine, u)) :
          Begin(w, Job("valid", "add", u, r, v))
    BY <1>1
<1>3. r \in Rows /\ DOMAIN v = Fields(Model(r))
    BY <1>2, FilledHas, SlotsAre
<1> QED BY <1>2, <1>3, PlainJob, Begins DEF AddsTo

LEMMA OpensForMoves ==
    ASSUME CatInv, NEW w \in Workers, NEW STATE who, NEW m, OpensFor(w, who, m)
    PROVE  Moves(w)
<1>1. PICK u \in who \intersect Live, machine \in Old("Machine") :
       \E r \in Slots(m, machine) :
          Begin(w, Job("shown", "add", u, r, GivenFor(m, machine, u)))
    BY DEF OpensFor
<1>2. PICK r \in Slots(m, machine) : Begin(w, Job("shown", "add", u, r, GivenFor(m, machine, u)))
    BY <1>1
<1>3. r \in Rows
    BY <1>2, SlotsAre
<1> QED BY <1>2, <1>3, PlainJob, Begins DEF OpensFor

LEMMA NothingGrown ==
    ASSUME CatInv, ref' = ref
    PROVE  Grown(ref, ref')
BY GrownSame DEF CatInv, References, Consistent, Live

LEMMA SendsForMoves ==
    ASSUME CatInv, NEW w \in Workers, NEW m, NEW form, SendsFor(w, m, form)
    PROVE  Moves(w)
<1>1. PICK j \in job[w] :
        /\ Model(j.row) = m
        /\ ref' = ref
        /\ \/ End(w)
           \/ \E v \in Filled(m, form, j.value) : Go(w, Job("valid", "add", j.by, j.row, v))
    BY DEF SendsFor
<1>2. CASE End(w)
    BY <1>1, <1>2, NothingGrown, Ends
<1>3. ASSUME NEW v \in Filled(m, form, j.value), Go(w, Job("valid", "add", j.by, j.row, v))
      PROVE  Moves(w)
  <2>1. j.row \in Rows
    BY DEF CatInv, Jobs, JobSound
  <2>2. DOMAIN v = Fields(Model(j.row))
    BY <1>1, FilledHas
  <2> QED BY <1>1, <1>3, <2>1, <2>2, PlainJob, NothingGrown, Goes
<1> QED BY <1>1, <1>2, <1>3

LEMMA ShowsMoves ==
    ASSUME CatInv, NEW w \in Workers, NEW who, NEW m, Shows(w, who, m)
    PROVE  Moves(w)
<1>1. PICK u \in who \intersect Live, r \in Old(m) : Begin(w, Job("shown", "edit", u, r, ref[r]))
    BY DEF Shows
<1>2. r \in Rows
    BY DEF CatInv, Old
<1> QED BY <1>1, <1>2, PlainJob, Begins DEF Shows

LEMMA SendsMoves ==
    ASSUME CatInv, NEW w \in Workers, NEW m, NEW form, Sends(w, m, form)
    PROVE  Moves(w)
<1>1. PICK j \in job[w] :
        /\ ref' = ref
        /\ \/ End(w)
           \/ \E v \in Changed(j, form) : Go(w, Job("valid", "edit", j.by, j.row, v))
    BY DEF Sends
<1>2. CASE End(w)
    BY <1>1, <1>2, NothingGrown, Ends
<1>3. ASSUME NEW v \in Changed(j, form), Go(w, Job("valid", "edit", j.by, j.row, v))
      PROVE  Moves(w)
  <2>1. j.row \in Rows
    BY DEF CatInv, Jobs, JobSound
  <2>2. DOMAIN v = Fields(Model(j.row))
    BY DEF Changed
  <2> QED BY <1>1, <1>3, <2>1, <2>2, PlainJob, NothingGrown, Goes
<1> QED BY <1>1, <1>2, <1>3

LEMMA EditsMoves ==
    ASSUME CatInv, NEW w \in Workers, NEW who, NEW m, NEW form, Edits(w, who, m, form)
    PROVE  Moves(w)
BY ShowsMoves, SendsMoves DEF Edits

(* Deletions that were just checked.                                       *)
Entitled(who, m) ==
    /\ m \in {"Machine", "System"} \union Guarded => who \subseteq Superusers
    /\ m = "Enclosure" => who \subseteq Superusers \union Permitted["Enclosure"]

LEMMA DeletesMoves ==
    ASSUME CatInv, NEW w \in Workers, NEW who, NEW m, Entitled(who, m), Deletes(w, who, m)
    PROVE  Moves(w)
<1>1. PICK u \in who \intersect Live, r \in Old(m) :
          ~Protected(r) /\ Begin(w, Deletion("checked", u, r, {}, {}))
    BY DEF Deletes
<1>2. u # Null /\ r \in Rows /\ Model(r) = m
    BY CatalogueAssumption DEF CatInv, Old
<1> DEFINE j == Deletion("checked", u, r, {}, {})
<1>3. /\ j.phase = "checked" /\ j.op = "delete" /\ j.by = u /\ j.row = r
      /\ j.maker = Null /\ j.doomed = {} /\ j.late = {}
    BY JobFields DEF Deletion
<1> HIDE DEF j
<1>4. Asked(j)
    BY <1>2, <1>3 DEF Asked, Entitled
<1>5. JobSound(j)
    BY <1>2, <1>3, <1>4 DEF JobSound, Chosen1
<1>6. MachinesLate(j, ref)
    BY <1>1, <1>2, <1>3 DEF MachinesLate, Protected, MachinesOf, Old, Live
<1>7. LateSound(j, ref)
    BY <1>2, <1>3, <1>6 DEF LateSound
<1> QED BY <1>1, <1>5, <1>7, Begins DEF j, Deletes

Unused(selected, m, refs) ==
    \A x \in DOMAIN refs :
        /\ m = "DeviceType" /\ Hardware(x) => refs[x]["device_type"] \notin selected
        /\ m = "Manufacturer" /\ Model(x) = "DeviceType" => refs[x]["manufacturer"] \notin selected

LEMMA SweepSound ==
    ASSUME NEW refs, Consistent(refs), NEW m \in {"ComparisionRun", "DeviceType", "Manufacturer"},
           NEW selected, \A r \in selected : r \in Rows /\ Model(r) = m, Unused(selected, m, refs)
    PROVE  /\ \A j \in Sweep(selected) : JobSound(j) /\ LateSound(j, refs) /\ j.phase = "checked"
           /\ \A i, j \in Sweep(selected) : i = j
<1>1. CASE selected = {}
    BY <1>1 DEF Sweep
<1>2. CASE selected # {}
  <2>1. PICK r \in selected : Sweep(selected) = {Deletion("checked", Null, r, selected, {})}
    BY <1>2 DEF Sweep
  <2> DEFINE j == Deletion("checked", Null, r, selected, {})
  <2>2. /\ j.phase = "checked" /\ j.op = "delete" /\ j.by = Null /\ j.row = r
        /\ j.maker = Null /\ j.doomed = selected /\ j.late = {}
    BY JobFields DEF Deletion
  <2>3. Sweep(selected) = {j}
    BY <2>1
  <2> HIDE DEF j
  <2>4. r \in Rows /\ Model(r) = m
    OBVIOUS
  <2>5. Asked(j) /\ Chosen1(j)
    BY <2>2, <2>4 DEF Asked, Chosen1, Guarded
  <2>6. JobSound(j)
    BY <2>2, <2>4, <2>5 DEF JobSound
  <2>7. MachinesLate(j, refs)
    BY <2>2, <2>4 DEF MachinesLate, Guarded
  <2>8. m = "DeviceType" => TypesLate(j, refs)
    BY <2>2 DEF TypesLate, Unused
  <2>9. ASSUME m = "Manufacturer"
        PROVE  MakersLate(j, refs)
    <3> SUFFICES ASSUME NEW x \in DOMAIN refs, Hardware(x), refs[x]["device_type"] # Null,
                        refs[refs[x]["device_type"]]["manufacturer"] \in selected
                 PROVE  FALSE
      BY <2>2 DEF MakersLate
    <3>1. "device_type" \in Fields(Model(x)) /\ KeyOf(Model(x), "device_type")[3] = "DeviceType"
      BY SomeFields, KeyOfField, HardwareKeys DEF Hardware
    <3>2. Fits(refs[x]["device_type"], Model(x), "device_type", DOMAIN refs)
      BY <3>1 DEF Consistent, Sound
    <3>3. refs[x]["device_type"] \in DOMAIN refs /\ Model(refs[x]["device_type"]) = "DeviceType"
      BY <3>1, <3>2 DEF Fits
    <3> QED BY <2>9, <3>3 DEF Unused
  <2>10. LateSound(j, refs)
    BY <2>2, <2>4, <2>7, <2>8, <2>9 DEF LateSound
  <2> QED BY <2>2, <2>3, <2>6, <2>10
<1> QED BY <1>1, <1>2

LEMMA CleansMoves ==
    ASSUME CatInv, NEW w \in Workers, NEW m \in {"ComparisionRun", "DeviceType", "Manufacturer"},
           NEW selected, \A r \in selected : r \in Rows /\ Model(r) = m, Unused(selected, m, ref),
           Cleans(w, Sweep(selected))
    PROVE  Moves(w)
<1>0. PICK next : next = Sweep(selected)
    OBVIOUS
<1>1. job' = [job EXCEPT ![w] = next] /\ ref' = ref /\ asked' \in 0..MaxRequests
    BY <1>0, CatalogueAssumption DEF CatInv, Cleans, Idle
<1>2. Consistent(ref)
    BY DEF CatInv, References, Consistent, Live
<1>3. /\ \A j \in next : JobSound(j) /\ LateSound(j, ref')
      /\ \A i, j \in next : i = j
    BY <1>0, <1>1, <1>2, SweepSound
<1> QED BY <1>1, <1>3, NothingGrown DEF Moves

LEMMA CleanupsMove ==
    ASSUME CatInv, NEW w \in Workers, CleanupComparisions(w) \/ DailyCleanup(w)
    PROVE  Moves(w)
<1>1. CASE CleanupComparisions(w)
  <2>1. PICK old \in SUBSET Old("ComparisionRun") : Cleans(w, Sweep(old))
    BY <1>1 DEF CleanupComparisions
  <2>2. \A r \in old : r \in Rows /\ Model(r) = "ComparisionRun"
    BY DEF CatInv, Old
  <2>3. Unused(old, "ComparisionRun", ref)
    BY DEF Unused
  <2> QED BY <2>1, <2>2, <2>3, CleansMoves
<1>2. CASE DailyCleanup(w) /\ OrphanTypes # {}
  <2>1. PICK selected : selected = OrphanTypes
    OBVIOUS
  <2>2. Cleans(w, Sweep(selected))
    BY <1>2, <2>1 DEF DailyCleanup
  <2>3. \A r \in selected : r \in Rows /\ Model(r) = "DeviceType"
    BY <2>1 DEF CatInv, Old, OrphanTypes
  <2>4. Unused(selected, "DeviceType", ref)
    BY <2>1 DEF Unused, OrphanTypes, Hardware, Old, Live
  <2> QED BY <2>2, <2>3, <2>4, CleansMoves
<1>3. CASE DailyCleanup(w) /\ OrphanTypes = {}
  <2>1. PICK selected : selected = OrphanManufacturers(Live, ref)
    OBVIOUS
  <2>2. Cleans(w, Sweep(selected))
    BY <1>3, <2>1 DEF DailyCleanup
  <2>3. \A r \in selected : r \in Rows /\ Model(r) = "Manufacturer"
    BY <2>1 DEF CatInv, OrphanManufacturers
  <2>4. Unused(selected, "Manufacturer", ref)
    BY <2>1 DEF Unused, OrphanManufacturers, Live
  <2> QED BY <2>2, <2>3, <2>4, CleansMoves
<1> QED BY <1>1, <1>2, <1>3

(* What the tasks do that talk to NetBox, before they write.               *)
LEMMA FetchesMoves ==
    ASSUME CatInv, NEW w \in Workers, NEW m, Fetches(w, m)
    PROVE  Moves(w)
<1>1. PICK r \in Old(m) : Begin(w, Job("valid", "fetch", Null, r, ref[r]))
    BY DEF Fetches
<1>2. r \in Rows /\ DOMAIN ref[r] = Fields(Model(r))
    BY DEF CatInv, References, Old
<1> QED BY <1>1, <1>2, PlainJob, Begins DEF Fetches

LEMMA ComparesMoves ==
    ASSUME CatInv, NEW w \in Workers, NEW m, NEW f, Compares(w, m, f)
    PROVE  Moves(w)
<1>1. PICK r \in Old(m), run \in New("ComparisionRun") :
          Begin(w, Job("valid", "add", Null, run,
                       [g \in Fields("ComparisionRun") |-> IF g = f THEN r ELSE Null]))
    BY DEF Compares
<1>2. run \in Rows /\ Model(run) = "ComparisionRun"
    BY DEF New
<1>3. PICK v : v = [g \in Fields("ComparisionRun") |-> IF g = f THEN r ELSE Null]
    OBVIOUS
<1>4. DOMAIN v = Fields(Model(run))
    BY <1>2, <1>3
<1> QED BY <1>1, <1>2, <1>3, <1>4, PlainJob, Begins DEF Compares

(* A machine that is imported, until its device type is known.             *)
LEMMA ImportedJob ==
    ASSUME NEW phase \in {"valid", "resolve", "typing"}, NEW op \in {"add", "edit"}, NEW u,
           NEW r \in Rows, Model(r) = "Machine", NEW value, DOMAIN value = Fields("Machine"),
           op = "add" => value["enclosure"] \in Rows /\ Model(value["enclosure"]) = "Enclosure",
           NEW maker \in Rows \union {Null},
           phase = "typing" => maker \in Rows /\ Model(maker) = "Manufacturer", NEW refs
    PROVE  /\ JobSound(AnyJob(phase, op, u, r, value, maker, {}, {}))
           /\ LateSound(AnyJob(phase, op, u, r, value, maker, {}, {}), refs)
<1>1. PICK j : j = AnyJob(phase, op, u, r, value, maker, {}, {})
    OBVIOUS
<1>2. /\ j.phase = phase /\ j.op = op /\ j.row = r /\ j.value = value
      /\ j.maker = maker /\ j.doomed = {} /\ j.late = {}
    BY <1>1, JobFields
<1>3. JobSound(j) /\ LateSound(j, refs)
    BY <1>2 DEF JobSound, LateSound
<1> QED BY <1>1, <1>3

LEMMA EnclosureOf ==
    ASSUME NEW rows, NEW v, Sound("Machine", v, rows)
    PROVE  v["enclosure"] \in rows /\ Model(v["enclosure"]) = "Enclosure"
<1>1. "enclosure" \in Fields("Machine")
    BY SomeFields
<1>2. PICK k : k = KeyOf("Machine", "enclosure")
    OBVIOUS
<1>3. k \in Keys /\ k[1] = "Machine" /\ k[2] = "enclosure"
    BY <1>1, <1>2, KeyOfField
<1>4. k[3] = "Enclosure"
    BY <1>3, HardwareKeys
<1>5. k \notin Optional
    BY <1>3 DEF Optional, SetsNull, ComparisionRunKeys, RemotePowerKeys
<1>6. Fits(v["enclosure"], "Machine", "enclosure", rows)
    BY <1>1 DEF Sound
<1> QED BY <1>2, <1>4, <1>5, <1>6 DEF Fits

LEMMA ImportMachineMoves ==
    ASSUME CatInv, NEW w \in Workers, ImportMachine(w)
    PROVE  Moves(w)
<1>1. PICK u \in Permitted["Machine"] \intersect Live :
          \/ \E r \in Old("Enclosure") : Begin(w, Job("valid", "edit", u, r, ref[r]))
          \/ \E r \in Old("Machine") : Begin(w, Job("resolve", "edit", u, r, ref[r]))
          \/ \E r \in New("Machine"), v \in Filled("Machine", ImportForm, NoneGiven) :
                Begin(w, Job("resolve", "add", u, r, v))
    BY DEF ImportMachine
<1>2. Idle(w) /\ ref' = ref
    BY DEF ImportMachine
<1>3. ASSUME NEW r \in Old("Enclosure"), Begin(w, Job("valid", "edit", u, r, ref[r]))
      PROVE  Moves(w)
  <2>1. r \in Rows /\ DOMAIN ref[r] = Fields(Model(r))
    BY DEF CatInv, References, Old
  <2> QED BY <1>2, <1>3, <2>1, PlainJob, Begins
<1>4. ASSUME NEW r \in Old("Machine"), Begin(w, Job("resolve", "edit", u, r, ref[r]))
      PROVE  Moves(w)
  <2>1. r \in Rows /\ Model(r) = "Machine" /\ DOMAIN ref[r] = Fields("Machine")
    BY DEF CatInv, References, Old
  <2>2. /\ JobSound(Job("resolve", "edit", u, r, ref[r]))
        /\ LateSound(Job("resolve", "edit", u, r, ref[r]), ref)
    BY <2>1, ImportedJob DEF Job
  <2> QED BY <1>2, <1>4, <2>2, Begins
<1>5. ASSUME NEW r \in New("Machine"), NEW v \in Filled("Machine", ImportForm, NoneGiven),
             Begin(w, Job("resolve", "add", u, r, v))
      PROVE  Moves(w)
  <2>1. r \in Rows /\ Model(r) = "Machine" /\ DOMAIN v = Fields("Machine")
    BY FilledHas DEF New
  <2>2. v["enclosure"] \in Rows /\ Model(v["enclosure"]) = "Enclosure"
    BY FilledHas, EnclosureOf DEF CatInv
  <2>3. JobSound(Job("resolve", "add", u, r, v)) /\ LateSound(Job("resolve", "add", u, r, v), ref)
    BY <2>1, <2>2, ImportedJob DEF Job
  <2> QED BY <1>2, <1>5, <2>3, Begins
<1> QED BY <1>1, <1>3, <1>4, <1>5

LEMMA ImportsAre ==
    ASSUME NEW j, JobSound(j), j.phase \in {"resolve", "typing"}
    PROVE  /\ j.op \in {"add", "edit"} /\ j.row \in Rows /\ Model(j.row) = "Machine"
           /\ DOMAIN j.value = Fields("Machine")
           /\ j.op = "add" => j.value["enclosure"] \in Rows /\ Model(j.value["enclosure"]) = "Enclosure"
BY DEF JobSound

LEMMA ChosenMoves ==
    ASSUME CatInv, NEW w \in Workers, NEW j \in job[w], j.phase \in {"resolve", "typing"}, NEW t,
           NEW refs, Grown(ref, refs), Chosen(w, j, t, refs)
    PROVE  Moves(w)
<1>1. JobSound(j)
    BY DEF CatInv, Jobs
<1>2. PICK v : v = [j.value EXCEPT !["device_type"] = t]
    OBVIOUS
<1>3. DOMAIN v = Fields("Machine")
    BY <1>1, <1>2, ImportsAre
<1>4. Grown(ref, ref')
  <2>1. CASE j.op = "add"
    <3>1. Consistent(refs) /\ DOMAIN refs \subseteq Rows
      BY DEF Grown
    <3>2. Grown(refs, WithEnclosure(j.value["enclosure"], refs))
      BY <1>1, <2>1, <3>1, ImportsAre, WithEnclosureGrown
    <3> QED BY <2>1, <3>2, GrownTwice DEF Chosen
  <2>2. CASE j.op # "add"
    BY <2>2 DEF Chosen
  <2> QED BY <2>1, <2>2
<1>5. /\ JobSound(Job("valid", j.op, j.by, j.row, v))
      /\ LateSound(Job("valid", j.op, j.by, j.row, v), ref')
    BY <1>1, <1>3, ImportsAre, PlainJob
<1> QED BY <1>2, <1>4, <1>5, Goes DEF Chosen

LEMMA KnownTypeMoves ==
    ASSUME CatInv, NEW w \in Workers, KnownType(w)
    PROVE  Moves(w)
<1>1. PICK j \in job[w] : j.phase = "resolve" /\ \E t : Chosen(w, j, t, ref)
    BY DEF KnownType
<1>2. PICK t : Chosen(w, j, t, ref)
    BY <1>1
<1>3. PICK refs : refs = ref
    OBVIOUS
<1>4. Grown(ref, refs)
    BY <1>3, GrownSame DEF CatInv, References, Consistent, Live
<1> QED BY <1>1, <1>2, <1>3, <1>4, ChosenMoves

LEMMA ResolveManufacturerMoves ==
    ASSUME CatInv, NEW w \in Workers, ResolveManufacturer(w)
    PROVE  Moves(w)
<1>1. PICK j \in job[w] : j.phase = "resolve" /\ \E m \in Old("Manufacturer") \union New("Manufacturer") :
              /\ ref' = PutNew(m, NoneGiven, ref)
              /\ Go(w, AnyJob("typing", j.op, j.by, j.row, j.value, m, {}, {}))
    BY DEF ResolveManufacturer
<1>2. PICK m \in Old("Manufacturer") \union New("Manufacturer") :
              /\ ref' = PutNew(m, NoneGiven, ref)
              /\ Go(w, AnyJob("typing", j.op, j.by, j.row, j.value, m, {}, {}))
    BY <1>1
<1>3. m \in Rows /\ Model(m) = "Manufacturer"
    BY DEF CatInv, Old, New
<1>4. JobSound(j)
    BY DEF CatInv, Jobs
<1>5. Consistent(ref) /\ DOMAIN ref \subseteq Rows
    BY DEF CatInv, References, Consistent, Live
<1>6. DOMAIN NoneGiven = Fields(Model(m)) /\ Sound(Model(m), NoneGiven, DOMAIN ref \union {m})
    BY <1>3, SomeFields DEF NoneGiven, Sound
<1>7. Grown(ref, ref')
    BY <1>2, <1>3, <1>5, <1>6, PutNewGrown
<1>8. /\ JobSound(AnyJob("typing", j.op, j.by, j.row, j.value, m, {}, {}))
      /\ LateSound(AnyJob("typing", j.op, j.by, j.row, j.value, m, {}, {}), ref')
    BY <1>1, <1>3, <1>4, ImportsAre, ImportedJob
<1> QED BY <1>2, <1>7, <1>8, Goes

LEMMA ResolveDeviceTypeMoves ==
    ASSUME CatInv, NEW w \in Workers, ResolveDeviceType(w)
    PROVE  Moves(w)
<1>1. PICK j \in job[w] :
        /\ j.phase = "typing"
        /\ \/ \E t : Chosen(w, j, t, ref)
           \/ /\ j.maker \in Live
              /\ \E t \in New("DeviceType") :
                    Chosen(w, j, t, PutNew(t, [manufacturer |-> j.maker], ref))
           \/ End(w) /\ UNCHANGED ref
    BY DEF ResolveDeviceType
<1>2. JobSound(j)
    BY DEF CatInv, Jobs
<1>3. Consistent(ref) /\ DOMAIN ref \subseteq Rows
    BY DEF CatInv, References, Consistent, Live
<1>4. ASSUME NEW t, Chosen(w, j, t, ref)
      PROVE  Moves(w)
  <2>1. PICK refs : refs = ref
    OBVIOUS
  <2>2. Grown(ref, refs)
    BY <1>3, <2>1, GrownSame
  <2> QED BY <1>1, <1>4, <2>1, <2>2, ChosenMoves
<1>5. ASSUME j.maker \in Live, NEW t \in New("DeviceType"),
             Chosen(w, j, t, PutNew(t, [manufacturer |-> j.maker], ref))
      PROVE  Moves(w)
  <2>1. t \in Rows /\ Model(t) = "DeviceType"
    BY DEF New
  <2>2. PICK value : value = [manufacturer |-> j.maker]
    OBVIOUS
  <2>3. DOMAIN value = {"manufacturer"} /\ value["manufacturer"] = j.maker
    BY <2>2
  <2>4. Model(j.maker) = "Manufacturer"
    BY <1>1, <1>2 DEF JobSound
  <2>5. KeyOf("DeviceType", "manufacturer")[3] = "Manufacturer"
    BY SomeFields, KeyOfField, HardwareKeys
  <2>6. Sound(Model(t), value, DOMAIN ref \union {t})
    BY <1>5, <2>1, <2>3, <2>4, <2>5, SomeFields DEF Sound, Fits, Live
  <2>7. PICK refs : refs = PutNew(t, value, ref)
    OBVIOUS
  <2>8. Grown(ref, refs)
    BY <1>3, <2>1, <2>3, <2>6, <2>7, SomeFields, PutNewGrown
  <2> QED BY <1>1, <1>5, <2>2, <2>7, <2>8, ChosenMoves
<1>6. CASE End(w) /\ UNCHANGED ref
    BY <1>6, NothingGrown, Ends
<1> QED BY <1>1, <1>4, <1>5, <1>6

LEMMA AddMachineMoves ==
    ASSUME CatInv, NEW w \in Workers, AddMachine(w)
    PROVE  Moves(w)
<1>1. PICK u \in Superusers \intersect Live, r \in New("Machine"),
           e \in {x \in Rows : Model(x) = "Enclosure"} : \E v :
        /\ DOMAIN v = Fields("Machine")
        /\ ref' = WithEnclosure(e, ref)
        /\ \/ Begin(w, Job("valid", "add", u, r, v))
           \/ asked' = asked + 1 /\ job' = job
    BY DEF AddMachine
<1>2. PICK v :
        /\ DOMAIN v = Fields("Machine")
        /\ ref' = WithEnclosure(e, ref)
        /\ \/ Begin(w, Job("valid", "add", u, r, v))
           \/ asked' = asked + 1 /\ job' = job
    BY <1>1
<1>3. r \in Rows /\ Model(r) = "Machine"
    BY DEF New
<1>4. Grown(ref, ref')
    BY <1>2, WithEnclosureGrown DEF CatInv, References, Consistent, Live
<1>5. asked' \in 0..MaxRequests
    BY <1>2, CatalogueAssumption DEF AddMachine, Idle, CatInv, Begin
<1>6. PICK j : j = Job("valid", "add", u, r, v)
    OBVIOUS
<1>7. JobSound(j) /\ LateSound(j, ref')
    BY <1>2, <1>3, <1>6, PlainJob
<1>8. CASE Begin(w, j)
  <2>1. PICK next : next = {j}
    OBVIOUS
  <2>2. job' = [job EXCEPT ![w] = next]
    BY <1>8, <2>1 DEF Begin
  <2>3. \A i \in next : i = j
    BY <2>1
  <2> QED BY <1>4, <1>5, <1>7, <2>2, <2>3 DEF Moves
<1>9. CASE job' = job
  <2>1. PICK next : next = {}
    OBVIOUS
  <2>2. job[w] = next /\ job = [x \in Workers |-> job[x]]
    BY <2>1 DEF AddMachine, Idle, CatInv, Jobs
  <2>3. job' = [job EXCEPT ![w] = next]
    BY <1>9, <2>2
  <2>4. \A i \in next : FALSE
    BY <2>1
  <2> QED BY <1>4, <1>5, <2>3, <2>4 DEF Moves
<1> QED BY <1>2, <1>6, <1>8, <1>9
-----------------------------------------------------------------------------
(* Every operation but the statements that write.                          *)
LEMMA ApiAddsMove ==
    ASSUME CatInv, NEW w \in Workers, ApiAdds(w)
    PROVE  Moves(w)
BY AddMachineMoves, AddsMoves, OpensForMoves, SendsForMoves
   DEF ApiAdds, AddManufacturer, AddDeviceType, AddSerialConsoleType, AddSystem,
       AddRemotePowerType, AddRemotePowerDevice, AddArchitecture, AddServerConfig,
       AddEnclosure, AddDomainArchitecture, AddDomain, AddSerialConsoleGet,
       AddSerialConsolePost, AddRemotePowerGet, AddRemotePowerPost, AddNetworkInterfaceGet,
       AddNetworkInterfacePost, AddBMCGet, AddBMCPost, AddAnnotationGet, AddAnnotationPost

LEMMA ApiEditsMove ==
    ASSUME CatInv, NEW w \in Workers, ApiEdits(w)
    PROVE  Moves(w)
BY EditsMoves, ShowsMoves, SendsMoves
   DEF ApiEdits, EditManufacturer, EditDeviceType, EditSerialConsoleType, EditSystem,
       EditRemotePowerType, EditRemotePowerDevice, EditArchitecture, EditServerConfig,
       EditEnclosure, EditDomainArchitecture, EditDomain, EditNetworkInterface, EditBMC,
       EditSerialConsoleGet, EditSerialConsolePost, EditRemotePowerGet, EditRemotePowerPost,
       EditMachineGet, EditMachinePost

LEMMA WhoIsEntitled ==
    /\ \A m : Entitled(Superusers, m)
    /\ Entitled(Permitted["Enclosure"], "Enclosure")
    /\ Entitled(Permitted["RemotePowerDevice"], "RemotePowerDevice")
BY DEF Entitled, Guarded

LEMMA ApiDeletesMove ==
    ASSUME CatInv, NEW w \in Workers, ApiDeletes(w)
    PROVE  Moves(w)
BY DeletesMoves, WhoIsEntitled
   DEF ApiDeletes, DeleteManufacturer, DeleteDeviceType, DeleteSerialConsoleType, DeleteSystem,
       DeleteRemotePowerType, DeleteRemotePowerDevice, DeleteArchitecture, DeleteServerConfig,
       DeleteEnclosure, DeleteDomainArchitecture, DeleteDomain, DeleteMachine,
       DeleteSerialConsole, DeleteRemotePower, DeleteNetworkInterface, DeleteBMC,
       DeleteAnnotation

LEMMA PagesMove ==
    ASSUME CatInv, NEW w \in Workers, Pages(w)
    PROVE  Moves(w)
BY AddsMoves, AddsToMoves, EditsMoves, DeletesMoves, WhoIsEntitled
   DEF Pages, NewManufacturer, ManufacturerDetailedEdit, DeleteManufacturerPage,
       NewDeviceType, DeviceTypeDetailedEdit, DeleteDeviceTypePage, NewSerialConsoleType,
       SerialConsoleTypeDetailedEdit, DeleteSerialConsoleTypePage, NewSystem,
       SystemDetailedEdit, DeleteSystemPage, NewRemotePowerType,
       RemotePowerTypeDetailedEdit, DeleteRemotePowerTypePage, NewArchitecture,
       ArchitectureDetailedEdit, DeleteArchitecturePage, NewServerConfig,
       ServerConfigDetailedEdit, DeleteServerConfigPage, NewDomain, DomainDetailedEdit,
       DeleteDomainPage, NewDomainArchitecture, DomainArchitectureDetailedEdit,
       DeleteDomainArchitecturePage, NewEnclosure, EnclosureDetailedEdit,
       DeleteEnclosurePage, NewRemotePowerDevice, RemotePowerDeviceDetailedEdit,
       DeleteRemotePowerDevicePage, NewUser, UserDetailedEdit, DeleteUserPage, NewGroup,
       GroupDetailedEdit, DeleteGroupPage, NewNetworkInterface,
       NetworkInterfaceDetailedEdit, DeleteNetworkInterfacePage, NewBMC, BMCDetailedEdit,
       DeleteBMCPage, NewSerialConsole, SerialConsoleDetailedEdit, DeleteSerialConsolePage,
       NewRemotePower, RemotePowerDetailedEdit, DeleteRemotePowerPage, NewAnnotation,
       DeleteAnnotationPage, MachineDetailedEdit

LEMMA TasksMove ==
    ASSUME CatInv, NEW w \in Workers, Fetching(w) \/ Comparing(w)
    PROVE  Moves(w)
BY FetchesMoves, ComparesMoves
   DEF Fetching, FetchEnclosure, FetchManufacturer, FetchDeviceType, FetchRemotePowerDevice,
       FetchMachine, Comparing, CompareBMC, CompareDeviceType, CompareEnclosure,
       CompareMachine, CompareManufacturer, CompareNetworkInterface, CompareRemotePowerDevice
-----------------------------------------------------------------------------
(* A row is written.                                                       *)
LEMMA FollowUpsSound ==
    ASSUME NEW j, JobSound(j), j.phase = "valid", NEW refs, NEW n \in FollowUps(j)
    PROVE  JobSound(n) /\ LateSound(n, refs)
<1>1. j.row \in Rows /\ DOMAIN j.value = Fields(Model(j.row))
    BY DEF JobSound
<1>2. CASE j.op = "fetch"
  <2>2. CASE Model(j.row) = "Machine"
    <3>1. n = Job("resolve", "edit", j.by, j.row, j.value)
      BY <1>2, <2>2 DEF FollowUps
    <3> QED BY <1>1, <2>2, <3>1, ImportedJob DEF Job
  <2>3. CASE Model(j.row) # "Machine"
    <3>1. n = Job("valid", "edit", j.by, j.row, j.value)
      BY <1>2, <2>3 DEF FollowUps
    <3> QED BY <1>1, <3>1, PlainJob
  <2> QED BY <2>2, <2>3
<1>3. CASE j.op = "add" /\ Model(j.row) = "ComparisionRun"
  <2>1. PICK r \in New("ComparisionResult") : n = Job("valid", "add", j.by, r, [run_id |-> j.row])
    BY <1>3 DEF FollowUps
  <2>2. PICK v : v = [run_id |-> j.row]
    OBVIOUS
  <2>3. r \in Rows /\ Model(r) = "ComparisionResult" /\ DOMAIN v = {"run_id"}
    BY <2>2 DEF New
  <2> QED BY <2>1, <2>2, <2>3, SomeFields, PlainJob
<1>4. CASE j.op = "add" /\ Model(j.row) = "Machine"
  <2>1. PICK r \in New("NetworkInterface") : n = Job("valid", "add", j.by, r, [machine |-> j.row])
    BY <1>4 DEF FollowUps
  <2>2. PICK v : v = [machine |-> j.row]
    OBVIOUS
  <2>3. r \in Rows /\ Model(r) = "NetworkInterface" /\ DOMAIN v = {"machine"}
    BY <2>2 DEF New
  <2> QED BY <2>1, <2>2, <2>3, SomeFields, PlainJob
<1>5. CASE j.op # "fetch" /\ Model(j.row) = "BMC"
  <2>1. PICK r \in Slots("RemotePower", j.value["machine"]) :
           n = Job("valid", "add", j.by, r,
                   [machine |-> j.value["machine"], fence_agent |-> j.value["fence_agent"],
                    remote_power_device |-> Null])
    BY <1>5 DEF FollowUps
  <2>2. PICK v : v = [machine |-> j.value["machine"], fence_agent |-> j.value["fence_agent"],
                      remote_power_device |-> Null]
    OBVIOUS
  <2>3. DOMAIN v = {"machine", "fence_agent", "remote_power_device"}
    BY <2>2
  <2>4. r \in Rows /\ Model(r) = "RemotePower"
    BY SlotsAre
  <2> QED BY <2>1, <2>2, <2>3, <2>4, SomeFields, PlainJob
<1> QED BY <1>2, <1>3, <1>4, <1>5 DEF FollowUps

(* What everybody else's jobs become, when row r was written.              *)
Watched(r) == Model(r) \in {"Machine", "Enclosure", "DeviceType"}
Seen(i, r) ==
    IF i.op = "delete" /\ Watched(r)
    THEN Deletion(i.phase, i.by, i.row, i.doomed, i.late \union {r}) ELSE i

LEMMA NoticedJob ==
    ASSUME NEW i, JobSound(i), NEW r \in Rows, NEW k, k = Seen(i, r)
    PROVE  /\ JobSound(k)
           /\ k.op = i.op /\ k.phase = i.phase /\ k.by = i.by /\ k.row = i.row /\ k.doomed = i.doomed
           /\ i.late \subseteq k.late
           /\ i.op = "delete" /\ Watched(r) => r \in k.late
<1>1. CASE ~(i.op = "delete" /\ Watched(r))
    BY <1>1 DEF Seen
<1>2. CASE i.op = "delete" /\ Watched(r)
  <2>1. PICK l : l = i.late \union {r}
    OBVIOUS
  <2>2. /\ k.phase = i.phase /\ k.op = "delete" /\ k.by = i.by /\ k.row = i.row
        /\ k.maker = Null /\ k.doomed = i.doomed /\ k.late = l
    BY <1>2, <2>1, JobFields DEF Deletion, Seen
  <2>3. i.phase \in {"checked", "collected"}
    BY <1>2 DEF JobSound
  <2>4. JobSound(k)
    BY <1>2, <2>1, <2>2, <2>3 DEF JobSound, Asked, Chosen1, TakesMachines
  <2> QED BY <1>2, <2>1, <2>2, <2>4
<1> QED BY <1>1, <1>2

LEMMA NoticedLate ==
    ASSUME NEW i, JobSound(i), LateSound(i, ref), Consistent(ref), DOMAIN ref \subseteq Rows,
           NEW r \in Rows, NEW refs, DOMAIN refs = DOMAIN ref \union {r}, Consistent(refs),
           \A x \in DOMAIN ref : x # r => refs[x] = ref[x],
           NEW k,
           k.op = i.op, k.phase = i.phase, k.by = i.by, k.row = i.row, k.doomed = i.doomed,
           i.late \subseteq k.late, i.op = "delete" /\ Watched(r) => r \in k.late
    PROVE  LateSound(k, refs)
<1> SUFFICES ASSUME i.op = "delete"
             PROVE  LateSound(k, refs)
    BY DEF LateSound
<1>0. \A x \in DOMAIN refs : x = r \/ (x \in DOMAIN ref /\ refs[x] = ref[x])
    OBVIOUS
<1>1. MachinesLate(k, refs)
    BY <1>0 DEF LateSound, MachinesLate, Watched
<1>2. ASSUME TypesLate(i, ref)
      PROVE  TypesLate(k, refs)
    BY <1>0, <1>2 DEF TypesLate, Late, Hardware, Watched
<1>3. ASSUME MakersLate(i, ref)
      PROVE  MakersLate(k, refs)
  <2> SUFFICES ASSUME NEW x \in DOMAIN refs, Hardware(x), refs[x]["device_type"] # Null,
                      refs[refs[x]["device_type"]]["manufacturer"] \in k.doomed
               PROVE  Late(k, x, refs)
    BY DEF MakersLate
  <2> DEFINE t == refs[x]["device_type"]
  <2>1. "device_type" \in Fields(Model(x)) /\ KeyOf(Model(x), "device_type")[3] = "DeviceType"
    BY SomeFields, KeyOfField, HardwareKeys DEF Hardware
  <2>2. Fits(t, Model(x), "device_type", DOMAIN refs)
    BY <2>1 DEF Consistent, Sound
  <2>3. t \in DOMAIN refs /\ Model(t) = "DeviceType"
    BY <2>1, <2>2 DEF Fits
  <2>4. CASE x = r \/ t = r
    BY <2>3, <2>4 DEF Late, Hardware, Watched
  <2>5. CASE x # r /\ t # r
    <3>1. refs[x] = ref[x] /\ refs[t] = ref[t] /\ x \in DOMAIN ref
      BY <1>0, <2>3, <2>5
    <3> QED BY <1>3, <3>1 DEF MakersLate, Late
  <2> QED BY <2>4, <2>5
<1> QED BY <1>1, <1>2, <1>3 DEF LateSound

LEMMA WriteInv ==
    ASSUME CatInv, NEW w \in Workers, Write(w)
    PROVE  CatInv'
<1>1. PICK j \in job[w] :
        /\ j.phase = "valid"
        /\ IF Saved(j)
           THEN /\ ref' = Put(j.row, j.value, ref)
                /\ \E next \in {{}} \union {{n} : n \in FollowUps(j)} :
                       job' = [Noticed(j.row) EXCEPT ![w] = next]
           ELSE ref' = ref /\ job' = [job EXCEPT ![w] = {}]
        /\ asked' = asked
    BY DEF Write
<1>2. CASE ~Saved(j)
  <2>1. End(w) /\ ref' = ref
    BY <1>1, <1>2 DEF End
  <2> QED BY <2>1, NothingGrown, Ends, MovesInv
<1>3. CASE Saved(j)
  <2>1. Consistent(ref) /\ DOMAIN ref \subseteq Rows /\ JobSound(j)
    BY DEF CatInv, References, Consistent, Live, Jobs
  <2>2. PICK r : r = j.row
    OBVIOUS
  <2>3. r \in Rows /\ DOMAIN j.value = Fields(Model(r))
    BY <1>1, <2>1, <2>2 DEF JobSound
  <2>4. Sound(Model(r), j.value, DOMAIN ref \union {r})
    BY <1>3, <2>2, SoundGrows DEF Saved, Live
  <2>5. Consistent(ref')
    BY <1>1, <1>3, <2>1, <2>2, <2>3, <2>4, PutConsistent
  <2>6. DOMAIN ref' = DOMAIN ref \union {r} /\ \A x \in DOMAIN ref : x # r => ref'[x] = ref[x]
    BY <1>1, <1>3, <2>2 DEF Put
  <2>7. PICK next \in {{}} \union {{n} : n \in FollowUps(j)} :
           job' = [Noticed(r) EXCEPT ![w] = next]
    BY <1>1, <1>3, <2>2
  <2>8. /\ \A n \in next : JobSound(n) /\ LateSound(n, ref')
        /\ \A n, k \in next : n = k
    BY <1>1, <2>1, FollowUpsSound
  <2>9. job' = [v \in Workers |-> job'[v]] /\ job'[w] = next
        /\ \A v \in Workers : v # w => job'[v] = Noticed(r)[v]
    BY <2>7 DEF Noticed
  <2>10. ASSUME NEW v \in Workers, v # w
         PROVE  /\ \A k \in job'[v] : JobSound(k) /\ LateSound(k, ref')
                /\ \A k, n \in job'[v] : k = n
    <3>1. job'[v] = {Seen(i, r) : i \in job[v]}
      BY <2>9, <2>10 DEF Noticed, Watched, Seen
    <3>2. \A i, k \in job[v] : i = k
      BY DEF CatInv, Jobs
    <3>3. ASSUME NEW k \in job'[v]
          PROVE  JobSound(k) /\ LateSound(k, ref')
      <4>1. PICK i \in job[v] : k = Seen(i, r)
        BY <3>1
      <4>2. JobSound(i) /\ LateSound(i, ref)
        BY DEF CatInv, Jobs
      <4>3. /\ JobSound(k)
            /\ k.op = i.op /\ k.phase = i.phase /\ k.by = i.by /\ k.row = i.row
            /\ k.doomed = i.doomed /\ i.late \subseteq k.late
            /\ i.op = "delete" /\ Watched(r) => r \in k.late
        BY <2>3, <4>1, <4>2, NoticedJob
      <4>4. LateSound(k, ref')
        BY <2>1, <2>3, <2>5, <2>6, <4>2, <4>3, NoticedLate
      <4> QED BY <4>3, <4>4
    <3> QED BY <3>1, <3>2, <3>3
  <2>11. Jobs'
    BY <2>8, <2>9, <2>10 DEF Jobs
  <2>12. (Live \subseteq Rows)' /\ References' /\ asked' \in 0..MaxRequests
    BY <1>1, <2>1, <2>3, <2>5, <2>6 DEF CatInv, References, Consistent, Live
  <2> QED BY <2>11, <2>12 DEF CatInv
<1> QED BY <1>2, <1>3
-----------------------------------------------------------------------------
(* What a cascade from rows S reaches.  Nothing leads to a root by keys    *)
(* that cascade; a machine is reached from roots and a device type from    *)
(* manufacturers, in one step.                                             *)
Parents == {"enclosure", "system", "architecture", "fqdn_domain"}

Reach(T, S) ==
    /\ T \subseteq Rows
    /\ \A x \in T : Model(x) \in Roots \union {"Manufacturer"} => x \in S
    /\ \A x \in T : Model(x) = "Machine" =>
          x \in S \/ (x \in Live /\ \E f \in Parents : ref[x][f] \in S)
    /\ \A x \in T : Model(x) = "DeviceType" =>
          x \in S \/ (x \in Live /\ ref[x]["manufacturer"] \in S)

LEMMA Target ==
    ASSUME References, NEW x \in Live, NEW f \in Fields(Model(x)), ref[x][f] \in Rows
    PROVE  ref[x][f] \in Live /\ Model(ref[x][f]) = KeyOf(Model(x), f)[3]
<1>1. Fits(ref[x][f], Model(x), f, Live)
    BY DEF References, Sound
<1> QED BY <1>1, CatalogueAssumption DEF Fits

LEMMA ParentOf ==
    ASSUME References, NEW x \in Live, Model(x) = "Machine", NEW f \in Parents, ref[x][f] \in Rows
    PROVE  /\ Model(ref[x][f]) \in Roots
           /\ Model(ref[x][f]) \in Guarded => f \in {"architecture", "fqdn_domain"}
<1>1. f \in Fields("Machine")
    BY SomeFields DEF Parents
<1>2. PICK k : k = KeyOf("Machine", f)
    OBVIOUS
<1>3. k \in Keys /\ k[1] = "Machine" /\ k[2] = f
    BY <1>1, <1>2, KeyOfField
<1>4. Model(ref[x][f]) = k[3]
    BY <1>1, <1>2, Target
<1> QED BY <1>3, <1>4, HardwareKeys DEF Parents, Roots, Guarded

LEMMA MakerOf ==
    ASSUME References, NEW x \in Live, Model(x) = "DeviceType", ref[x]["manufacturer"] \in Rows
    PROVE  Model(ref[x]["manufacturer"]) = "Manufacturer"
<1>1. "manufacturer" \in Fields("DeviceType")
    BY SomeFields
<1> QED BY <1>1, Target, KeyOfField, HardwareKeys

LEMMA TypeOf ==
    ASSUME References, NEW x \in Live, Hardware(x), ref[x]["device_type"] \in Rows
    PROVE  ref[x]["device_type"] \in Live /\ Model(ref[x]["device_type"]) = "DeviceType"
<1>1. "device_type" \in Fields(Model(x))
    BY SomeFields DEF Hardware
<1> QED BY <1>1, Target, KeyOfField, HardwareKeys DEF Hardware

LEMMA ReachGrows ==
    ASSUME References, Live \subseteq Rows, NEW S, NEW T, Reach(T, S)
    PROVE  Reach(With(T), S)
<1>1. ASSUME NEW x \in Dependants(T)
      PROVE  /\ x \in Live
             /\ Model(x) \notin Roots \union {"Manufacturer"}
             /\ Model(x) = "Machine" => \E f \in Parents : ref[x][f] \in S
             /\ Model(x) = "DeviceType" => ref[x]["manufacturer"] \in S
  <2>1. PICK k \in Cascades(Model(x)) : x \in Live /\ ref[x][k[2]] \in T
    BY DEF Dependants
  <2>2. k \in Keys /\ k[1] = Model(x) /\ k \notin SetsNull
    BY KeysFromAre DEF Cascades
  <2>3. Model(x) \notin Roots \union {"Manufacturer"}
    BY <2>2, RootKeys DEF Roots, Guarded
  <2>4. ref[x][k[2]] \in Rows
    BY <2>1 DEF Reach
  <2>5. ASSUME Model(x) = "Machine"
        PROVE  \E f \in Parents : ref[x][f] \in S
    <3>1. k[2] \in Parents
      BY <2>2, <2>5, HardwareKeys DEF Parents
    <3>2. Model(ref[x][k[2]]) \in Roots
      BY <2>1, <2>4, <2>5, <3>1, ParentOf
    <3> QED BY <2>1, <3>1, <3>2 DEF Reach
  <2>6. ASSUME Model(x) = "DeviceType"
        PROVE  ref[x]["manufacturer"] \in S
    <3>1. k[2] = "manufacturer"
      BY <2>2, <2>6, HardwareKeys
    <3>2. Model(ref[x]["manufacturer"]) = "Manufacturer"
      BY <2>1, <2>4, <2>6, <3>1, MakerOf
    <3> QED BY <2>1, <3>1, <3>2 DEF Reach
  <2> QED BY <2>1, <2>3, <2>5, <2>6
<1> QED BY <1>1 DEF Reach, With

LEMMA CascadeReach ==
    ASSUME References, Live \subseteq Rows, NEW S, S \subseteq Rows
    PROVE  Reach(Cascade(S), S) /\ S \subseteq Cascade(S)
<1>1. Reach(S, S)
    BY DEF Reach
<1>2. PICK T1 : T1 = With(S)
    OBVIOUS
<1>3. PICK T2 : T2 = With(T1)
    OBVIOUS
<1>4. PICK T3 : T3 = With(T2)
    OBVIOUS
<1>5. PICK T4 : T4 = With(T3)
    OBVIOUS
<1>6. Reach(T4, S)
    BY <1>1, <1>2, <1>3, <1>4, <1>5, ReachGrows
<1>7. S \subseteq T4
    BY <1>2, <1>3, <1>4, <1>5 DEF With
<1>8. Cascade(S) = {x \in T4 : x \in S \/ Model(x) \notin Fast}
    BY <1>2, <1>3, <1>4, <1>5 DEF Cascade
<1> QED BY <1>6, <1>7, <1>8 DEF Reach

(* A deletion is collected.                                                *)
LEMMA CollectMoves ==
    ASSUME CatInv, NEW w \in Workers, Collect(w)
    PROVE  Moves(w)
<1>1. PICK j \in job[w] :
        /\ j.phase = "checked" /\ ref' = ref
        /\ Go(w, Deletion("collected", j.by, j.row, Cascade(j.doomed \union {j.row}), j.late))
    BY DEF Collect
<1>2. PICK S : S = j.doomed \union {j.row}
    OBVIOUS
<1>3. PICK D : D = Cascade(S)
    OBVIOUS
<1>4. PICK n : n = Deletion("collected", j.by, j.row, D, j.late)
    OBVIOUS
<1>5. /\ n.phase = "collected" /\ n.op = "delete" /\ n.by = j.by /\ n.row = j.row
      /\ n.maker = Null /\ n.doomed = D /\ n.late = j.late
    BY <1>4, JobFields DEF Deletion
<1>6. References /\ Live \subseteq Rows /\ JobSound(j) /\ LateSound(j, ref)
    BY DEF CatInv, Jobs
<1>7. j.op = "delete" /\ Asked(j) /\ Chosen1(j) /\ S \subseteq Rows /\ j.late \subseteq Rows
      /\ j.row \in Rows
    BY <1>1, <1>2, <1>6 DEF JobSound
<1>8. Reach(D, S) /\ S \subseteq D
    BY <1>3, <1>6, <1>7, CascadeReach
<1>9. \A x \in S : Model(x) = Model(j.row)
    BY <1>2, <1>7 DEF Chosen1
<1>10. Asked(n)
    BY <1>2, <1>5, <1>7, <1>8 DEF Asked
<1>11. TakesMachines(n)
  <2> SUFFICES ASSUME NEW x \in D, Hardware(x), Model(j.row) \notin Roots
               PROVE  x = j.row
    BY <1>5 DEF TakesMachines
  <2>1. Model(x) = "Machine"
    BY <1>8, <1>9 DEF Reach, Hardware, Roots
  <2>2. CASE x \in S
    BY <1>2, <1>7, <1>9, <2>1, <2>2 DEF Chosen1, Asked
  <2>3. CASE x \notin S
    <3>1. x \in Live
      BY <1>8, <2>1, <2>3 DEF Reach
    <3>2. PICK f \in Parents : ref[x][f] \in S
      BY <1>8, <2>1, <2>3 DEF Reach
    <3>3. Model(ref[x][f]) \in Roots
      BY <1>6, <1>7, <2>1, <3>1, <3>2, ParentOf
    <3> QED BY <1>9, <3>2, <3>3
  <2> QED BY <2>2, <2>3
<1>12. JobSound(n)
    BY <1>5, <1>7, <1>8, <1>10, <1>11 DEF JobSound, Reach
<1>13. MachinesLate(n, ref)
  <2> SUFFICES ASSUME Model(j.row) \in Guarded, NEW x \in D, Model(x) = "Machine"
               PROVE  x \in j.late
    BY <1>5 DEF MachinesLate
  <2>1. j.doomed = {}
    BY <1>7 DEF Chosen1, Asked, Guarded
  <2>2. S = {j.row} /\ x \notin S
    BY <1>2, <2>1 DEF Guarded
  <2>3. x \in Live
    BY <1>8, <2>2 DEF Reach
  <2>4. PICK f \in Parents : ref[x][f] = j.row
    BY <1>8, <2>2 DEF Reach
  <2>5. f \in {"architecture", "fqdn_domain"}
    BY <1>6, <1>7, <2>3, <2>4, ParentOf
  <2>6. MachinesLate(j, ref)
    BY <1>6, <1>7 DEF LateSound
  <2> QED BY <1>1, <2>3, <2>4, <2>5, <2>6 DEF MachinesLate, Live
<1>14. ASSUME j.by = Null
       PROVE  TypesLate(n, ref)
  <2>1. Model(j.row) \in {"ComparisionRun", "DeviceType", "Manufacturer"} /\ S = j.doomed
    BY <1>2, <1>7, <1>14 DEF Asked
  <2> SUFFICES ASSUME NEW x \in Live, Hardware(x), ref[x]["device_type"] \in D
               PROVE  Late(j, x, ref)
    BY <1>5 DEF TypesLate, Late, Live
  <2>2. PICK t : t = ref[x]["device_type"]
    OBVIOUS
  <2>3. t \in D /\ t \in Live /\ Model(t) = "DeviceType"
    BY <1>6, <1>8, <2>2, TypeOf DEF Reach
  <2>4. CASE t \in S
    <3>1. TypesLate(j, ref)
      BY <1>6, <1>7, <1>9, <1>14, <2>3, <2>4 DEF LateSound
    <3> QED BY <2>1, <2>2, <2>4, <3>1 DEF TypesLate, Live
  <2>5. CASE t \notin S
    <3>1. ref[t]["manufacturer"] \in S
      BY <1>8, <2>3, <2>5 DEF Reach
    <3>2. Model(j.row) = "Manufacturer"
      BY <1>6, <1>7, <1>9, <2>3, <3>1, MakerOf
    <3>3. MakersLate(j, ref)
      BY <1>1, <1>6, <1>7, <1>14, <3>2 DEF LateSound
    <3>4. t # Null
      BY <1>6, <2>3, CatalogueAssumption
    <3> QED BY <2>1, <2>2, <3>1, <3>3, <3>4 DEF MakersLate, Live
  <2> QED BY <2>4, <2>5
<1>15. LateSound(n, ref)
    BY <1>5, <1>13, <1>14 DEF LateSound
<1>16. Go(w, n)
    BY <1>1, <1>2, <1>3, <1>4
<1>17. LateSound(n, ref')
    BY <1>1, <1>15
<1> QED BY <1>1, <1>12, <1>16, <1>17, NothingGrown, Goes
-----------------------------------------------------------------------------
(* A deletion is carried out.  What goes with it beyond what was collected *)
(* is of leaf models.                                                      *)
Without(refs, gone) == [r \in DOMAIN refs \ gone |-> Nulled(Model(r), refs[r], gone)]

LEMMA GoneAre ==
    ASSUME NEW j, JobSound(j), Live \subseteq Rows
    PROVE  /\ Gone(j) \subseteq Rows
           /\ \A x \in Gone(j) : Hardware(x) \/ Model(x) = "DeviceType" => x \in j.doomed
BY DEF JobSound, Gone, Dependants, Fast, Hardware

LEMMA NulledField ==
    ASSUME NEW m, NEW value, NEW gone, NEW f \in Fields(m)
    PROVE  /\ Nulled(m, value, gone)[f] \in {value[f], Null}
           /\ value[f] \notin gone => Nulled(m, value, gone)[f] = value[f]
BY DEF Nulled

LEMMA WithoutConsistent ==
    ASSUME Consistent(ref), NEW gone, Dependants(gone) \subseteq gone
    PROVE  Consistent(Without(ref, gone)) /\ DOMAIN Without(ref, gone) = Live \ gone
<1>1. DOMAIN Without(ref, gone) = Live \ gone
    BY DEF Without, Live
<1> SUFFICES ASSUME NEW r \in Live \ gone
             PROVE  /\ DOMAIN Nulled(Model(r), ref[r], gone) = Fields(Model(r))
                    /\ Sound(Model(r), Nulled(Model(r), ref[r], gone), Live \ gone)
    BY <1>1 DEF Consistent, Without, Live
<1>2. Sound(Model(r), ref[r], Live)
    BY DEF Consistent, Live
<1>3. \A k \in Cascades(Model(r)) : ref[r][k[2]] \notin gone
    BY DEF Dependants
<1>4. DOMAIN Nulled(Model(r), ref[r], gone) = Fields(Model(r))
    BY DEF Nulled
<1> QED BY <1>2, <1>3, <1>4, NulledSound

LEMMA WithoutLate ==
    ASSUME NEW i, JobSound(i), LateSound(i, ref), Consistent(ref), NEW gone,
           NEW refs, refs = Without(ref, gone), Consistent(refs)
    PROVE  LateSound(i, refs)
<1> SUFFICES ASSUME i.op = "delete"
             PROVE  LateSound(i, refs)
    BY DEF LateSound
<1>0. Null # i.row /\ Null \notin i.doomed
    BY CatalogueAssumption DEF JobSound
<1>1. ASSUME NEW x \in DOMAIN refs, NEW f \in Fields(Model(x))
      PROVE  x \in DOMAIN ref /\ refs[x][f] \in {ref[x][f], Null}
  <2>1. x \in DOMAIN ref /\ refs[x] = Nulled(Model(x), ref[x], gone)
    BY DEF Without
  <2> QED BY <2>1, NulledField
<1>2. MachinesLate(i, refs)
  <2>1. {"architecture", "fqdn_domain"} \subseteq Fields("Machine")
    BY SomeFields
  <2>2. MachinesLate(i, ref)
    BY DEF LateSound
  <2>3. \A x \in DOMAIN refs : Model(x) = "Machine" =>
          /\ x \in DOMAIN ref
          /\ refs[x]["architecture"] \in {ref[x]["architecture"], Null}
          /\ refs[x]["fqdn_domain"] \in {ref[x]["fqdn_domain"], Null}
    BY <1>1, <2>1
  <2> QED BY <1>0, <2>2, <2>3 DEF MachinesLate
<1>3. \A x \in DOMAIN refs : Hardware(x) =>
        x \in DOMAIN ref /\ refs[x]["device_type"] \in {ref[x]["device_type"], Null}
  <2>1. \A x \in DOMAIN refs : Hardware(x) => "device_type" \in Fields(Model(x))
    BY SomeFields DEF Hardware
  <2> QED BY <1>1, <2>1
<1>4. ASSUME TypesLate(i, ref)
      PROVE  TypesLate(i, refs)
    BY <1>0, <1>3, <1>4 DEF TypesLate, Late
<1>5. ASSUME MakersLate(i, ref)
      PROVE  MakersLate(i, refs)
  <2> SUFFICES ASSUME NEW x \in DOMAIN refs, Hardware(x), refs[x]["device_type"] # Null,
                      refs[refs[x]["device_type"]]["manufacturer"] \in i.doomed
               PROVE  Late(i, x, refs)
    BY DEF MakersLate
  <2>1. PICK t : t = refs[x]["device_type"]
    OBVIOUS
  <2>2. x \in DOMAIN ref /\ t = ref[x]["device_type"] /\ t # Null
    BY <1>3, <2>1
  <2>3. "device_type" \in Fields(Model(x)) /\ KeyOf(Model(x), "device_type")[3] = "DeviceType"
    BY SomeFields, KeyOfField, HardwareKeys DEF Hardware
  <2>4. Fits(t, Model(x), "device_type", DOMAIN refs)
    BY <2>1, <2>3 DEF Consistent, Sound
  <2>5. t \in DOMAIN refs /\ Model(t) = "DeviceType"
    BY <2>2, <2>3, <2>4 DEF Fits
  <2>6. refs[t]["manufacturer"] \in {ref[t]["manufacturer"], Null}
    BY <1>1, <2>5, SomeFields
  <2>7. ref[t]["manufacturer"] \in i.doomed
    BY <1>0, <2>1, <2>6
  <2> QED BY <1>5, <2>1, <2>2, <2>7 DEF MakersLate, Late
<1> QED BY <1>2, <1>4, <1>5 DEF LateSound

LEMMA CommitCases ==
    ASSUME CatInv, NEW w \in Workers, Commit(w)
    PROVE  \E j \in job[w] :
              /\ j.phase = "collected" /\ asked' = asked
              /\ \/ End(w) /\ ref' = ref
                 \/ /\ Dependants(Gone(j)) \subseteq Gone(j)
                    /\ ref' = Without(ref, Gone(j))
                    /\ \/ job' = [job EXCEPT ![w] = {}]
                       \/ job' = [job EXCEPT ![w] = Sweep(OrphanManufacturers(DOMAIN ref', ref'))]
BY DEF Commit, Without, Live, End

LEMMA CommitInv ==
    ASSUME CatInv, NEW w \in Workers, Commit(w)
    PROVE  CatInv' /\ \A j \in job'[w] : j.phase = "checked"
<1>1. PICK j \in job[w] :
        /\ j.phase = "collected" /\ asked' = asked
        /\ \/ End(w) /\ ref' = ref
           \/ /\ Dependants(Gone(j)) \subseteq Gone(j)
              /\ ref' = Without(ref, Gone(j))
              /\ \/ job' = [job EXCEPT ![w] = {}]
                 \/ job' = [job EXCEPT ![w] = Sweep(OrphanManufacturers(DOMAIN ref', ref'))]
    BY CommitCases
<1>2. job = [v \in Workers |-> job[v]]
    BY DEF CatInv, Jobs
<1>3. CASE End(w) /\ ref' = ref
  <2>1. job'[w] = {}
    BY <1>2, <1>3 DEF End
  <2> QED BY <1>3, <2>1, NothingGrown, Ends, MovesInv
<1>4. CASE /\ Dependants(Gone(j)) \subseteq Gone(j)
           /\ ref' = Without(ref, Gone(j))
           /\ \/ job' = [job EXCEPT ![w] = {}]
              \/ job' = [job EXCEPT ![w] = Sweep(OrphanManufacturers(DOMAIN ref', ref'))]
  <2>1. PICK refs : refs = ref'
    OBVIOUS
  <2>2. Consistent(ref) /\ DOMAIN ref \subseteq Rows
    BY DEF CatInv, References, Consistent, Live
  <2>3. PICK gone : gone = Gone(j)
    OBVIOUS
  <2>4. refs = Without(ref, gone) /\ Consistent(refs) /\ DOMAIN refs \subseteq Live
    BY <1>4, <2>1, <2>2, <2>3, WithoutConsistent
  <2>5. PICK orphans : orphans = OrphanManufacturers(DOMAIN refs, refs)
    OBVIOUS
  <2>6. \A r \in orphans : r \in Rows /\ Model(r) = "Manufacturer"
    BY <2>2, <2>4, <2>5 DEF OrphanManufacturers, Live
  <2>7. Unused(orphans, "Manufacturer", refs)
    BY <2>5 DEF Unused, OrphanManufacturers
  <2>8. /\ \A i \in Sweep(orphans) : JobSound(i) /\ LateSound(i, refs) /\ i.phase = "checked"
        /\ \A i, k \in Sweep(orphans) : i = k
    BY <2>4, <2>6, <2>7, SweepSound
  <2>9. job' = [job EXCEPT ![w] = {}] \/ job' = [job EXCEPT ![w] = Sweep(orphans)]
    BY <1>4, <2>1, <2>5
  <2>10. /\ job' = [v \in Workers |-> job'[v]]
         /\ job'[w] = {} \/ job'[w] = Sweep(orphans)
         /\ \A v \in Workers : v # w => job'[v] = job[v]
    BY <1>2, <2>9
  <2>11. \A v \in Workers : \A i, k \in job'[v] : i = k
    BY <2>8, <2>10 DEF CatInv, Jobs
  <2>12. \A v \in Workers : \A i \in job'[v] : JobSound(i)
    BY <2>8, <2>10 DEF CatInv, Jobs
  <2>13. \A v \in Workers : v # w => \A i \in job[v] : LateSound(i, refs)
    BY <2>2, <2>4, WithoutLate DEF CatInv, Jobs
  <2>14. \A v \in Workers : \A i \in job'[v] : LateSound(i, refs)
    BY <2>8, <2>10, <2>13
  <2>15. Jobs'
    BY <2>1, <2>10, <2>11, <2>12, <2>14 DEF Jobs
  <2>16. (Live \subseteq Rows)' /\ References' /\ asked' \in 0..MaxRequests
    BY <1>1, <2>1, <2>2, <2>4 DEF CatInv, References, Consistent, Live
  <2>17. \A i \in job'[w] : i.phase = "checked"
    BY <2>8, <2>10
  <2> QED BY <2>15, <2>16, <2>17 DEF CatInv
<1> QED BY <1>1, <1>3, <1>4
-----------------------------------------------------------------------------
(* What a step may be, for the invariant and for the action properties.    *)
LEMMA NextCases ==
    ASSUME CatInv, NEW w \in Workers,
           \/ ApiAdds(w) \/ ApiEdits(w) \/ ApiDeletes(w) \/ Pages(w)
           \/ Fetching(w) \/ Comparing(w) \/ ImportMachine(w)
           \/ KnownType(w) \/ ResolveManufacturer(w) \/ ResolveDeviceType(w)
           \/ CleanupComparisions(w) \/ DailyCleanup(w)
           \/ Write(w) \/ Collect(w) \/ Commit(w)
    PROVE  Moves(w) \/ Write(w) \/ Commit(w)
BY ApiAddsMove, ApiEditsMove, ApiDeletesMove, PagesMove, TasksMove, ImportMachineMoves,
   KnownTypeMoves, ResolveManufacturerMoves, ResolveDeviceTypeMoves, CleanupsMove, CollectMoves

LEMMA StepCases ==
    ASSUME CatInv, [Next]_vars
    PROVE  UNCHANGED vars \/ \E w \in Workers : Moves(w) \/ Write(w) \/ Commit(w)
BY NextCases DEF Next

LEMMA InitCatInv == Init => CatInv
<1> SUFFICES ASSUME Init PROVE CatInv
    OBVIOUS
<1>1. job = [w \in Workers |-> job[w]] /\ \A w \in Workers : job[w] = {}
    BY DEF Init
<1>2. Jobs
    BY <1>1 DEF Jobs
<1>3. Live \subseteq Rows /\ References /\ asked \in 0..MaxRequests
    BY CatalogueAssumption DEF Init, Live, References
<1> QED BY <1>2, <1>3 DEF CatInv

LEMMA StepCatInv ==
    ASSUME CatInv, [Next]_vars
    PROVE  CatInv'
<1>1. CASE UNCHANGED vars
    BY <1>1 DEF vars, CatInv, Jobs, References, Live
<1>2. ASSUME NEW w \in Workers, Moves(w) \/ Write(w) \/ Commit(w)
      PROVE  CatInv'
    BY <1>2, MovesInv, WriteInv, CommitInv
<1> QED BY <1>1, <1>2, StepCases

(* The invariant: however the requests of API, pages and tasks overlap,    *)
(* the rows refer to rows that are there, and every deletion in progress   *)
(* was asked for by somebody who may, and takes along of machines,         *)
(* enclosures and their device types what it was meant to, or what was     *)
(* saved after it had been checked.                                        *)
THEOREM CatalogueInvariant == Spec => []CatInv
<1>1. CatInv /\ [Next]_vars => CatInv'
    BY StepCatInv
<1> QED BY <1>1, InitCatInv, PTL DEF Spec

(* Types, and every reference in the database is to a row that is there    *)
(* and of the right model, or NULL where it may be.                        *)
THEOREM CatalogueTypesAndReferences == Spec => []CatalogueTypeOK
<1>1. CatInv => CatalogueTypeOK
    BY DEF CatInv, Jobs, JobSound, CatalogueTypeOK
<1> QED BY <1>1, CatalogueInvariant, PTL

(* A row goes, or changes without being written, only when a deletion is   *)
(* carried out.                                                            *)
LEMMA LosesOnlyInCommit ==
    ASSUME CatInv, [Next]_vars, NEW w \in Workers, NEW j \in job[w], Loses(w, j)
    PROVE  Commit(w) \/ Grown(ref, ref')
<1>1. j.phase = "collected" /\ job[w] = {j} /\ \A i \in job'[w] : i.phase = "checked"
    BY DEF Loses
<1>2. CASE UNCHANGED vars
    BY <1>1, <1>2 DEF vars
<1>3. ASSUME NEW v \in Workers, Moves(v)
      PROVE  Grown(ref, ref')
    BY <1>3 DEF Moves
<1>4. job = [x \in Workers |-> job[x]]
    BY DEF CatInv, Jobs
<1>5. ASSUME NEW v \in Workers, Commit(v), v # w
      PROVE  FALSE
    BY <1>1, <1>4, <1>5 DEF Commit
<1>6. ASSUME NEW v \in Workers, Write(v)
      PROVE  FALSE
  <2>1. PICK i \in job[v] :
        /\ i.phase = "valid"
        /\ \/ \E next : job' = [Noticed(i.row) EXCEPT ![v] = next]
           \/ job' = [job EXCEPT ![v] = {}]
    BY <1>6 DEF Write
  <2>2. v # w
    BY <1>1, <2>1
  <2>3. CASE job' = [job EXCEPT ![v] = {}]
    BY <1>1, <1>4, <2>2, <2>3
  <2>4. ASSUME NEW next, job' = [Noticed(i.row) EXCEPT ![v] = next]
        PROVE  FALSE
    <3>1. job'[w] = {Seen(k, i.row) : k \in job[w]}
      BY <2>2, <2>4 DEF Noticed, Watched, Seen
    <3>2. Seen(j, i.row) \in job'[w]
      BY <3>1
    <3>3. JobSound(j) /\ i.row \in Rows
      BY DEF CatInv, Jobs, JobSound
    <3>4. Seen(j, i.row).phase = "collected"
      BY <1>1, <3>3, NoticedJob
    <3> QED BY <1>1, <3>2, <3>4
  <2> QED BY <2>1, <2>3, <2>4
<1> QED BY <1>2, <1>3, <1>5, <1>6, StepCases

(* Domain.delete and Architecture.delete lose no machine, and the daily    *)
(* cleanup takes no device type from a machine or an enclosure, but those  *)
(* that were saved while the deletion was under way.                       *)
LEMMA LossIsLate ==
    ASSUME CatInv, [Next]_vars, NEW w \in Workers, NEW j \in job[w], Loses(w, j)
    PROVE  TakesLateMachines(j) /\ TakesLateTypes(j)
<1>1. CASE Grown(ref, ref')
    BY <1>1 DEF Grown, TakesLateMachines, TakesLateTypes, Old, Live
<1>2. CASE Commit(w)
  <2>1. PICK i \in job[w] :
        /\ i.phase = "collected"
        /\ ref' = ref \/ (Dependants(Gone(i)) \subseteq Gone(i) /\ ref' = Without(ref, Gone(i)))
    BY <1>2, CommitCases
  <2>2. i = j
    BY DEF CatInv, Jobs
  <2>3. CASE ref' = ref
    BY <2>3 DEF TakesLateMachines, TakesLateTypes, Old, Live
  <2>4. CASE Dependants(Gone(j)) \subseteq Gone(j) /\ ref' = Without(ref, Gone(j))
    <3>1. PICK gone : gone = Gone(j)
      OBVIOUS
    <3>2. References /\ Live \subseteq Rows /\ JobSound(j) /\ LateSound(j, ref)
      BY DEF CatInv, Jobs
    <3>3. /\ j.op = "delete" /\ Asked(j) /\ TakesMachines(j) /\ MachinesLate(j, ref)
          /\ j.by = Null => TypesLate(j, ref)
      BY <2>1, <2>2, <3>2 DEF JobSound, LateSound
    <3>4. \A x \in Live : x \in DOMAIN ref' \/ x \in gone
      BY <2>4, <3>1 DEF Without, Live
    <3>5. \A x \in gone : Hardware(x) \/ Model(x) = "DeviceType" => x \in j.doomed
      BY <3>1, <3>2, GoneAre
    <3>6. TakesLateMachines(j)
      BY <2>1, <2>2, <3>3, <3>4, <3>5 DEF TakesLateMachines, MachinesLate, Hardware, Old
    <3>7. ASSUME j.by = Null, NEW x \in Live, Hardware(x),
                 x \notin j.late, ref[x]["device_type"] \notin j.late
          PROVE  x \in DOMAIN ref' /\ ref'[x]["device_type"] = ref[x]["device_type"]
      <4>1. x \notin gone
        BY <3>3, <3>5, <3>7 DEF TakesMachines, Asked, Hardware, Roots, Guarded
      <4>2. PICK t : t = ref[x]["device_type"]
        OBVIOUS
      <4>3. t \notin gone
        <5>1. SUFFICES ASSUME t \in gone PROVE FALSE
          OBVIOUS
        <5>2. Model(t) = "DeviceType"
          BY <3>1, <3>2, <3>7, <4>2, <5>1, GoneAre, TypeOf
        <5>3. t \in j.doomed
          BY <3>5, <5>1, <5>2
        <5> QED BY <3>3, <3>7, <4>2, <5>3 DEF TypesLate, Late, Live
      <4>4. "device_type" \in Fields(Model(x))
        BY <3>7, SomeFields DEF Hardware
      <4>5. x \in DOMAIN ref' /\ ref'[x] = Nulled(Model(x), ref[x], gone)
        BY <2>4, <3>1, <4>1 DEF Without, Live
      <4> QED BY <4>2, <4>3, <4>4, <4>5, NulledField
    <3>8. TakesLateTypes(j)
      BY <3>7 DEF TakesLateTypes, Old, Hardware
    <3> QED BY <3>6, <3>8
  <2> QED BY <2>1, <2>2, <2>3, <2>4
<1> QED BY <1>1, <1>2, LosesOnlyInCommit

(* Guarded deletions lose nothing but what was saved meanwhile.            *)
THEOREM DeletionsAreGuarded == Spec => GuardedDeletion
<1>1. CatInv /\ [Next]_vars =>
        [\A w \in Workers : \A j \in job[w] :
            Loses(w, j) => TakesLateMachines(j) /\ TakesLateTypes(j)]_vars
    BY LossIsLate
<1> QED BY <1>1, CatalogueInvariant, PTL DEF Spec, GuardedDeletion

LEMMA LossIsAsked ==
    ASSUME CatInv, [Next]_vars, NEW m \in Old("Machine"), m \notin DOMAIN ref'
    PROVE  \E w \in Workers : \E j \in job[w] :
            /\ Loses(w, j)
            /\ j.row = m \/ Model(j.row) \in {"System", "Enclosure"} \union Guarded
            /\ j.by \in Superusers \/ (Model(j.row) = "Enclosure" /\ j.by \in Permitted["Enclosure"])
<1>1. m \in DOMAIN ref /\ Model(m) = "Machine"
    BY DEF Old, Live
<1>2. PICK w \in Workers : Moves(w) \/ Write(w) \/ Commit(w)
    BY <1>1, StepCases DEF vars
<1>3. ~Moves(w)
    BY <1>1 DEF Moves, Grown
<1>4. ~Write(w)
    BY <1>1 DEF Write, Put
<1>5. Commit(w)
    BY <1>2, <1>3, <1>4
<1>6. PICK j \in job[w] :
        /\ j.phase = "collected"
        /\ ref' = ref \/ ref' = Without(ref, Gone(j))
    BY <1>5, CommitCases
<1>7. m \in Gone(j)
    BY <1>1, <1>6 DEF Without
<1>8. JobSound(j) /\ Live \subseteq Rows
    BY DEF CatInv, Jobs
<1>9. m \in j.doomed
    BY <1>1, <1>7, <1>8, GoneAre DEF Hardware
<1>10. j.row = m \/ Model(j.row) \in Roots
    BY <1>1, <1>6, <1>8, <1>9 DEF JobSound, TakesMachines, Hardware
<1>11. Asked(j)
    BY <1>6, <1>8 DEF JobSound
<1>12. Loses(w, j)
    BY <1>5, <1>6, CommitInv DEF Loses, CatInv, Jobs
<1> QED BY <1>1, <1>10, <1>11, <1>12 DEF Asked, Roots, Guarded

(* No machine goes unless somebody who may asked to delete it, its system, *)
(* its enclosure, its domain or its architecture.                          *)
THEOREM MachineLossIsAsked == Spec => MachineLossAsked
<1>1. CatInv /\ [Next]_vars =>
        [\A m \in Old("Machine") : m \notin DOMAIN ref' =>
           \E w \in Workers : \E j \in job[w] :
            /\ Loses(w, j)
            /\ j.row = m \/ Model(j.row) \in {"System", "Enclosure"} \union Guarded
            /\ j.by \in Superusers \/ (Model(j.row) = "Enclosure" /\ j.by \in Permitted["Enclosure"])
        ]_vars
    BY LossIsAsked
<1> QED BY <1>1, CatalogueInvariant, PTL DEF Spec, MachineLossAsked
=============================================================================
