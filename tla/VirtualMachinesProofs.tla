----------------------- MODULE VirtualMachinesProofs ------------------------
(***************************************************************************)
(* Proofs about VirtualMachines: for any workers, any vm_max and any       *)
(* number of requests and edits, VmInv is inductive, and with it what a    *)
(* creation that nobody overlapped leaves on the host, the limit on the    *)
(* machines that were created, each machine's own domain and each domain's *)
(* own disk.                                                               *)
(***************************************************************************)
EXTENDS VirtualMachines, FiniteSetTheorems, TLAPS

(* A request that goes on, or that ends, leaves the others alone and keeps *)
(* the types of all of them.                                               *)
Sized(j) == j.name = 0 <=> j.step \in Nameless
JobsOK == /\ job \in [Workers -> SUBSET Job]
          /\ \A w \in Workers : \A j, k \in job[w] : j = k
          /\ \A w \in Workers : \A j \in job[w] : Sized(j)

LEMMA Going ==
    ASSUME JobsOK, NEW w \in Workers, NEW k \in Job, Sized(k), Go(w, k)
    PROVE  JobsOK' /\ job'[w] = {k} /\ \A v \in Workers : v # w => job'[v] = job[v]
BY DEF JobsOK, Go

LEMMA Ending ==
    ASSUME JobsOK, NEW w \in Workers, End(w)
    PROVE  JobsOK' /\ job'[w] = {} /\ \A v \in Workers : v # w => job'[v] = job[v]
BY DEF JobsOK, End

(* The invariant holds of a host without machines.                         *)
LEMMA VmInit == Init => VmInv
<1> SUFFICES ASSUME Init PROVE VmInv
    OBVIOUS
<1>0. IsFiniteSet(rows)
    BY FS_EmptySet DEF Init
<1>1. VmTypeOK
    BY <1>0, VmAssumption DEF Init, VmTypeOK, Limits
<1>2. /\ UniqueNames /\ OwnDomain /\ InstalledStill
      /\ Neighbours /\ BeforeDisk /\ AfterDisk /\ OwnDisk /\ CountedRoom
    BY DEF Init, UniqueNames, OwnDomain, InstalledStill, Neighbours, BeforeDisk,
           AfterDisk, OwnDisk, CountedRoom
<1>3. NamesLow
    BY VmAssumption DEF Init, NamesLow
<1> QED BY <1>1, <1>2, <1>3 DEF VmInv

(* A request that is what its type says.                                   *)
LEMMA RequestTypes ==
    ASSUME NEW step \in Steps, NEW by \in Keys, NEW name \in 0..MaxNames,
           NEW seen \in SUBSET Names, NEW limit \in Limits,
           name = 0 <=> step \in Nameless
    PROVE  /\ Request(step, by, name, seen, limit) \in Job
           /\ Sized(Request(step, by, name, seen, limit))
BY DEF Request, Job, Sized

LEMMA JobFields ==
    ASSUME JobsOK, NEW w \in Workers, NEW step, NEW j \in At(w, step)
    PROVE  /\ j \in job[w] /\ j.step = step /\ j.step \in Steps /\ j.by \in Keys
           /\ j.name \in 0..MaxNames /\ j.seen \in SUBSET Names
           /\ j.limit \in Limits
           /\ j.name = 0 <=> step \in Nameless
           /\ step \notin Nameless => j.name \in Names
BY VmAssumption DEF JobsOK, At, Job, Sized, Names

LEMMA ZeroTypes == 0 \in 0..MaxNames /\ 0 \in Limits /\ \A n \in Names : n \in 0..MaxNames /\ n # 0
BY VmAssumption DEF Names, Limits

(* Types are kept.                                                         *)
LEMMA JobTypes == VmTypeOK /\ [Next]_vars => JobsOK'
<1> SUFFICES ASSUME VmTypeOK, [Next]_vars PROVE JobsOK'
    OBVIOUS
<1>0. JobsOK
    BY DEF VmTypeOK, JobsOK, Sized
<1>1. CASE UNCHANGED job
    BY <1>0, <1>1 DEF JobsOK
<1>2. ASSUME NEW w \in Workers, Fail(w) PROVE JobsOK'
    BY <1>0, <1>2, Ending DEF Fail
<1>3. ASSUME NEW w \in Workers, BeginCreate(w) PROVE JobsOK'
  <2>1. Go(w, Request("count", made + 1, 0, {}, vmMax))
    BY <1>3 DEF BeginCreate, Begin, Go
  <2>2. made + 1 \in Keys /\ 0 \in 0..MaxNames /\ vmMax \in Limits
    BY <1>3, VmAssumption DEF BeginCreate, VmTypeOK, Keys
  <2>3. /\ Request("count", made + 1, 0, {}, vmMax) \in Job
        /\ Sized(Request("count", made + 1, 0, {}, vmMax))
    BY <2>2, RequestTypes DEF Steps, Creating, Nameless
  <2> QED BY <1>0, <2>1, <2>3, Going
<1>4. ASSUME NEW w \in Workers, ReadRows(w) PROVE JobsOK'
  <2>1. PICK j \in At(w, "rows") :
           Go(w, Request("domains", j.by, j.name, {r.name : r \in Hosted}, j.limit))
    BY <1>4 DEF ReadRows
  <2>2. {r.name : r \in Hosted} \in SUBSET Names
    BY DEF VmTypeOK, Row, Hosted
  <2>3. PICK seen \in SUBSET Names : Go(w, Request("domains", j.by, j.name, seen, j.limit))
    BY <2>1, <2>2
  <2>4. /\ Request("domains", j.by, j.name, seen, j.limit) \in Job
        /\ Sized(Request("domains", j.by, j.name, seen, j.limit))
    BY <1>0, JobFields, RequestTypes DEF Steps, Creating, Nameless
  <2> QED BY <1>0, <2>3, <2>4, Going
<1>5. ASSUME NEW w \in Workers, ReadDomains(w) PROVE JobsOK'
  <2>1. CASE End(w)
    BY <1>0, <2>1, Ending
  <2>2. CASE ~End(w)
    <3>1. PICK j \in At(w, "domains") :
             \E n \in Free(j) : Go(w, Request("disk", j.by, n, {}, j.limit))
      BY <1>5, <2>2 DEF ReadDomains
    <3>2. PICK n \in Free(j) : Go(w, Request("disk", j.by, n, {}, j.limit))
      BY <3>1
    <3>3. n \in 0..MaxNames /\ n # 0
      BY <1>0, JobFields, VmAssumption DEF Free, Limits
    <3>4. /\ Request("disk", j.by, n, {}, j.limit) \in Job
          /\ Sized(Request("disk", j.by, n, {}, j.limit))
      BY <1>0, <3>3, JobFields, RequestTypes DEF Steps, Creating, Nameless
    <3> QED BY <1>0, <3>2, <3>4, Going
  <2> QED BY <2>1, <2>2
<1>6. ASSUME NEW w \in Workers, NEW s \in Steps, NEW step \in Steps,
             NEW j \in At(w, s), s \in Nameless <=> step \in Nameless, Go(w, To(j, step))
      PROVE  JobsOK'
  <2>1. To(j, step) \in Job /\ Sized(To(j, step))
    BY <1>0, <1>6, JobFields, RequestTypes DEF To
  <2> QED BY <1>0, <1>6, <2>1, Going
<1>7. ASSUME NEW w \in Workers, WriteDisk(w) PROVE JobsOK'
    BY <1>6, <1>7 DEF WriteDisk, Steps, Creating, Nameless
<1>8. ASSUME NEW w \in Workers, Install(w) PROVE JobsOK'
    BY <1>0, <1>6, <1>8, Ending DEF Install, Steps, Creating, Nameless
<1>9. ASSUME NEW w \in Workers, SaveRow(w) PROVE JobsOK'
    BY <1>0, <1>6, <1>9, Ending DEF SaveRow, Steps, Creating, Nameless
<1>10. ASSUME NEW w \in Workers, Reserve(w) \/ SaveEdit(w) \/ DeleteRow(w) PROVE JobsOK'
    BY <1>0, <1>10, Ending DEF Reserve, SaveEdit, DeleteRow
<1>11. ASSUME NEW w \in Workers, ReserveFails(w) PROVE JobsOK'
    BY <1>6, <1>11 DEF ReserveFails, Steps, Creating, Removing, Nameless
<1>12. ASSUME NEW w \in Workers, BeginRemove(w) PROVE JobsOK'
  <2>1. PICK r \in rows, step \in {"destroy", "delete"} :
           Go(w, Request(step, r.by, r.name, {}, 0))
    BY <1>12 DEF BeginRemove, Begin, Go
  <2>2. r.by \in Keys /\ r.name \in 0..MaxNames /\ r.name # 0 /\ 0 \in Limits
    BY ZeroTypes DEF VmTypeOK, Row
  <2>3. /\ Request(step, r.by, r.name, {}, 0) \in Job
        /\ Sized(Request(step, r.by, r.name, {}, 0))
    BY <2>2, RequestTypes DEF Steps, Removing, Nameless
  <2> QED BY <1>0, <2>1, <2>3, Going
<1>13. ASSUME NEW w \in Workers, Destroy(w) PROVE JobsOK'
    BY <1>6, <1>13 DEF Destroy, Steps, Removing, Nameless
<1>14. ASSUME NEW w \in Workers, Count(w) PROVE JobsOK'
    BY <1>0, <1>6, <1>14, Ending DEF Count, Steps, Creating, Nameless
<1>15. ASSUME NEW w \in Workers, BeginEdit(w) PROVE JobsOK'
  <2>1. PICK r \in rows, n \in Names, step \in Editing :
           Go(w, Request(step, r.by, n, {r.name}, 0))
    BY <1>15 DEF BeginEdit, Begin, Go
  <2>2. r.by \in Keys /\ n \in 0..MaxNames /\ n # 0 /\ 0 \in Limits /\ {r.name} \in SUBSET Names
    BY ZeroTypes DEF VmTypeOK, Row
  <2>3. /\ Request(step, r.by, n, {r.name}, 0) \in Job
        /\ Sized(Request(step, r.by, n, {r.name}, 0))
    BY <2>2, RequestTypes DEF Steps, Editing, Nameless
  <2> QED BY <1>0, <2>1, <2>3, Going
<1>16. AddMachine \/ EditHost \/ UNCHANGED vars => UNCHANGED job
    BY DEF AddMachine, EditHost, vars
<1> QED BY <1>1, <1>2, <1>3, <1>4, <1>5, <1>7, <1>8, <1>9, <1>10, <1>11, <1>12, <1>13, <1>14,
           <1>15, <1>16
        DEF Next, Create, Remove, Edit

(* Where rows come from: a copy of one is saved, by a creation, an edit or *)
(* a request to add a machine.                                             *)
Added(n) == Request("attach", made + 1, n, {}, 0)

LEMMA RowsFrom ==
    ASSUME [Next]_vars
    PROVE  \/ rows' \subseteq rows
           \/ \E w \in Workers : \E m \in job[w] :
                 /\ m.step \in {"save", "reserve"}
                 /\ SaveRow(w) \/ Reserve(w)
                 /\ Unique(m) /\ rows' = Stored(m, TRUE)
           \/ \E w \in Workers : \E m \in job[w], here \in BOOLEAN :
                 /\ m.step \in Editing /\ SaveEdit(w)
                 /\ m.name \in m.seen \/ m.by \in edited'
                 /\ Unique(m) /\ rows' = Stored(m, here)
           \/ \E n \in Names, here \in BOOLEAN :
                 /\ AddMachine /\ made < MaxMachines /\ made + 1 \in edited'
                 /\ Unique(Added(n)) /\ rows' = Stored(Added(n), here)
<1>1. ASSUME NEW w \in Workers, SaveRow(w), ~(rows' \subseteq rows)
      PROVE  \E m \in job[w] : m.step \in {"save", "reserve"} /\ Unique(m) /\ rows' = Stored(m, TRUE)
    BY <1>1 DEF SaveRow, At
<1>2. ASSUME NEW w \in Workers, Reserve(w)
      PROVE  \E m \in job[w] : m.step \in {"save", "reserve"} /\ Unique(m) /\ rows' = Stored(m, TRUE)
    BY <1>2 DEF Reserve, At
<1>3. ASSUME NEW w \in Workers, SaveEdit(w)
      PROVE  \E m \in job[w], here \in BOOLEAN :
                 /\ m.step \in Editing
                 /\ m.name \in m.seen \/ m.by \in edited'
                 /\ Unique(m) /\ rows' = Stored(m, here)
  <2>1. PICK step \in Editing : \E j \in At(w, step) :
           /\ Unique(j) /\ rows' = Stored(j, step = "attach")
           /\ edited' = edited \union (IF j.name \in j.seen THEN {} ELSE {j.by})
    BY <1>3 DEF SaveEdit
  <2>2. PICK j \in At(w, step) :
           /\ Unique(j) /\ rows' = Stored(j, step = "attach")
           /\ edited' = edited \union (IF j.name \in j.seen THEN {} ELSE {j.by})
    BY <2>1
  <2>3. PICK here \in BOOLEAN : here = (step = "attach")
    OBVIOUS
  <2>4. j \in job[w] /\ j.step \in Editing
    BY DEF At
  <2>5. j.name \in j.seen \/ j.by \in edited'
    BY <2>2
  <2> QED BY <2>2, <2>3, <2>4, <2>5
<1>4. ASSUME AddMachine
      PROVE  \E n \in Names, here \in BOOLEAN :
                 /\ made < MaxMachines /\ made + 1 \in edited'
                 /\ Unique(Added(n)) /\ rows' = Stored(Added(n), here)
    BY <1>4 DEF AddMachine, Added
<1>5. ASSUME NEW w \in Workers,
             \/ Fail(w) \/ BeginCreate(w) \/ Count(w) \/ ReadRows(w) \/ ReadDomains(w) \/ WriteDisk(w)
             \/ Install(w) \/ ReserveFails(w) \/ BeginRemove(w) \/ Destroy(w) \/ DeleteRow(w)
             \/ BeginEdit(w)
      PROVE  rows' \subseteq rows
    BY <1>5 DEF Fail, BeginCreate, Count, ReadRows, ReadDomains, WriteDisk, Install, ReserveFails,
                BeginRemove, Destroy, DeleteRow, BeginEdit
<1>6. EditHost \/ UNCHANGED vars => rows' = rows
    BY DEF EditHost, vars
<1>7. ASSUME NEW w \in Workers, Create(w) \/ Remove(w) \/ Edit(w) \/ Fail(w)
      PROVE  rows' \subseteq rows \/ SaveRow(w) \/ Reserve(w) \/ SaveEdit(w)
    BY <1>5, <1>7 DEF Create, Remove, Edit
<1>8. rows' \subseteq rows \/ AddMachine \/ \E w \in Workers : SaveRow(w) \/ Reserve(w) \/ SaveEdit(w)
    BY <1>6, <1>7 DEF Next
<1> QED BY <1>1, <1>2, <1>3, <1>4, <1>8

LEMMA AddedFields ==
    ASSUME NEW n
    PROVE  Added(n).by = made + 1 /\ Added(n).name = n
BY DEF Added, Request

LEMMA RowTypes ==
    ASSUME NEW m, NEW here \in BOOLEAN, m.name \in Names, m.by \in Keys, rows \subseteq Row
    PROVE  Stored(m, here) \subseteq Row
BY DEF Stored, Row

LEMMA StoredFinite ==
    ASSUME NEW m, NEW here, IsFiniteSet(rows)
    PROVE  IsFiniteSet(Stored(m, here))
<1>1. {r \in rows : r.by # m.by} \in SUBSET rows
    OBVIOUS
<1>2. IsFiniteSet({r \in rows : r.by # m.by})
    BY <1>1, FS_Subset
<1> QED BY <1>2, FS_AddElement DEF Stored

LEMMA RowsTypes == VmTypeOK /\ [Next]_vars => rows' \subseteq Row /\ IsFiniteSet(rows')
<1> SUFFICES ASSUME VmTypeOK, [Next]_vars PROVE rows' \subseteq Row /\ IsFiniteSet(rows')
    OBVIOUS
<1>0. rows \subseteq Row /\ IsFiniteSet(rows) /\ made \in 0..MaxMachines
    BY DEF VmTypeOK
<1>1. CASE rows' \subseteq rows
    BY <1>0, <1>1, FS_Subset
<1>2. ASSUME NEW w \in Workers, NEW m \in job[w], NEW here \in BOOLEAN,
             m.step \notin Nameless, rows' = Stored(m, here)
      PROVE  rows' \subseteq Row /\ IsFiniteSet(rows')
  <2>1. m.name \in Names /\ m.by \in Keys
    BY <1>2, VmAssumption DEF VmTypeOK, Job, Names
  <2> QED BY <1>0, <1>2, <2>1, RowTypes, StoredFinite
<1>3. ASSUME NEW n \in Names, NEW here \in BOOLEAN, made < MaxMachines, rows' = Stored(Added(n), here)
      PROVE  rows' \subseteq Row /\ IsFiniteSet(rows')
  <2>1. made + 1 \in Keys
    BY <1>0, <1>3, VmAssumption DEF Keys
  <2> QED BY <1>0, <1>3, <2>1, AddedFields, RowTypes, StoredFinite
<1>4. ASSUME NEW w \in Workers, NEW m \in job[w], m.step \in {"save", "reserve"}, rows' = Stored(m, TRUE)
      PROVE  rows' \subseteq Row /\ IsFiniteSet(rows')
  <2>1. m.step \notin Nameless /\ TRUE \in BOOLEAN
    BY <1>4 DEF Nameless
  <2> QED BY <1>2, <1>4, <2>1
<1>5. ASSUME NEW w \in Workers, NEW m \in job[w], NEW here \in BOOLEAN, m.step \in Editing,
             rows' = Stored(m, here)
      PROVE  rows' \subseteq Row /\ IsFiniteSet(rows')
  <2>1. m.step \notin Nameless
    BY <1>5 DEF Nameless, Editing
  <2> QED BY <1>2, <1>5, <2>1
<1> QED BY <1>1, <1>3, <1>4, <1>5, RowsFrom

LEMMA VmTypes == VmTypeOK /\ [Next]_vars => VmTypeOK'
<1> SUFFICES ASSUME VmTypeOK, [Next]_vars PROVE VmTypeOK'
    OBVIOUS
<1>0. JobsOK /\ JobsOK' /\ rows' \subseteq Row /\ IsFiniteSet(rows')
    BY JobTypes, RowsTypes DEF VmTypeOK, JobsOK, Sized
<1> DEFINE Hosts == /\ domain' \in [Names -> Keys \union {0}]
                    /\ disk' \in [Names -> Keys \union {0}]
                    /\ removed' \subseteq Keys
           Counts == made' \in 0..MaxMachines /\ removes' \in 0..MaxRemoves /\ edits' \in 0..MaxEdits
           Limit == vmMax' \in Limits /\ most' \in Limits
           Hand == edited' \subseteq Keys
<1>1. Hosts
  <2>1. ASSUME NEW w \in Workers, WriteDisk(w) PROVE Hosts
    <3>1. PICK j \in At(w, "disk") : disk' = [disk EXCEPT ![j.name] = j.by]
      BY <2>1 DEF WriteDisk
    <3>2. j.by \in Keys
      BY <1>0, JobFields
    <3> QED BY <2>1, <3>1, <3>2 DEF WriteDisk, VmTypeOK
  <2>2. ASSUME NEW w \in Workers, Install(w) PROVE Hosts
    <3>1. PICK j \in At(w, "install") : domain' = domain \/ domain' = [domain EXCEPT ![j.name] = j.by]
      BY <2>2 DEF Install
    <3>2. j.by \in Keys
      BY <1>0, JobFields
    <3> QED BY <2>2, <3>1, <3>2 DEF Install, VmTypeOK
  <2>3. ASSUME NEW w \in Workers, Destroy(w) PROVE Hosts
    <3>1. PICK j \in At(w, "destroy") :
             \/ /\ domain' = [domain EXCEPT ![j.name] = 0]
                /\ removed' = removed \union ({domain[j.name]} \ {0})
             \/ UNCHANGED <<domain, removed>>
      BY <2>3 DEF Destroy
    <3>2. j.name \in Names
      BY <1>0, JobFields DEF Nameless
    <3> QED BY <2>3, <3>1, <3>2 DEF Destroy, VmTypeOK
  <2>4. UNCHANGED <<domain, disk, removed>> => Hosts
    BY DEF VmTypeOK
  <2> QED BY <2>1, <2>2, <2>3, <2>4
          DEF Next, Create, Remove, Edit, vars, host, Fail, BeginCreate, Count, ReadRows, ReadDomains,
              SaveRow, Reserve, ReserveFails, BeginRemove, DeleteRow, BeginEdit, SaveEdit, AddMachine,
              EditHost
<1>2. Counts
  <2>1. made \in 0..MaxMachines /\ removes \in 0..MaxRemoves /\ edits \in 0..MaxEdits
    BY DEF VmTypeOK
  <2>2. ASSUME NEW w \in Workers, BeginCreate(w) \/ BeginRemove(w) \/ BeginEdit(w) PROVE Counts
    BY <2>1, <2>2, VmAssumption DEF BeginCreate, BeginRemove, BeginEdit
  <2>3. AddMachine \/ EditHost => Counts
    BY <2>1, VmAssumption DEF AddMachine, EditHost
  <2>4. UNCHANGED counters => Counts
    BY <2>1 DEF counters
  <2>5. UNCHANGED vars => UNCHANGED counters
    BY DEF vars, counters
  <2> QED BY <2>2, <2>3, <2>4, <2>5
          DEF Next, Create, Remove, Edit, Fail, Count, ReadRows, ReadDomains, WriteDisk, Install,
              SaveRow, Reserve, ReserveFails, Destroy, DeleteRow, SaveEdit
<1>3. Limit
  <2>1. CASE EditHost
    BY <2>1 DEF EditHost, VmTypeOK
  <2>2. CASE UNCHANGED <<vmMax, most>>
    BY <2>2 DEF VmTypeOK
  <2> QED BY <2>1, <2>2
          DEF Next, Create, Remove, Edit, vars, byHand, Fail, BeginCreate, Count, ReadRows, ReadDomains,
              WriteDisk, Install, SaveRow, Reserve, ReserveFails, BeginRemove, Destroy, DeleteRow,
              BeginEdit, SaveEdit, AddMachine
<1>4. Hand
  <2>0. edited \subseteq Keys
    BY DEF VmTypeOK
  <2>1. CASE AddMachine
    <3>1. made + 1 \in Keys
      BY <2>1, VmAssumption DEF AddMachine, VmTypeOK, Keys
    <3> QED BY <2>0, <2>1, <3>1 DEF AddMachine
  <2>2. ASSUME NEW w \in Workers, SaveEdit(w) PROVE Hand
    <3>1. PICK step \in Editing : \E j \in At(w, step) : edited' \subseteq edited \union {j.by}
      BY <2>2 DEF SaveEdit
    <3> QED BY <1>0, <2>0, <3>1, JobFields
  <2>3. CASE UNCHANGED edited
    BY <2>0, <2>3
  <2> QED BY <2>1, <2>2, <2>3
          DEF Next, Create, Remove, Edit, vars, byHand, Fail, BeginCreate, Count, ReadRows, ReadDomains,
              WriteDisk, Install, SaveRow, Reserve, ReserveFails, BeginRemove, Destroy, DeleteRow,
              BeginEdit, EditHost
<1> QED BY <1>0, <1>1, <1>2, <1>3, <1>4 DEF VmTypeOK, JobsOK, Sized

(* What an action of a worker does to the requests, seen from outside.     *)
LEMMA OneMoves ==
    ASSUME VmTypeOK, NEW w \in Workers, Create(w) \/ Remove(w) \/ Edit(w) \/ Fail(w)
    PROVE  \A v \in Workers : v # w => job'[v] = job[v]
BY DEF VmTypeOK, Create, Remove, Edit, Fail, BeginCreate, Count, ReadRows, ReadDomains, WriteDisk,
       Install, SaveRow, Reserve, ReserveFails, BeginRemove, Destroy, DeleteRow, BeginEdit, SaveEdit,
       Begin, Go, End

LEMMA NoneMoves == AddMachine \/ EditHost \/ UNCHANGED vars => UNCHANGED job
BY DEF AddMachine, EditHost, vars

(* Names stay unique: a row is saved only where no other has the name.     *)
LEMMA NamesUnique == VmTypeOK /\ UniqueNames /\ [Next]_vars => UniqueNames'
<1> SUFFICES ASSUME VmTypeOK, UniqueNames, [Next]_vars PROVE UniqueNames'
    OBVIOUS
<1>1. ASSUME NEW m, NEW here, Unique(m), rows' = Stored(m, here) PROVE UniqueNames'
    BY <1>1 DEF UniqueNames, Unique, Stored
<1>2. CASE rows' \subseteq rows
    BY <1>2 DEF UniqueNames
<1> QED BY <1>1, <1>2, RowsFrom

(* Domains: nobody's is overwritten, and who loses it is recorded.         *)
LEMMA DomainsKept ==
    ASSUME VmTypeOK, [Next]_vars, NEW n \in Names, NEW c \in Keys, domain[n] = c
    PROVE  domain'[n] = c \/ c \in removed'
<1>0. c # 0
    BY VmAssumption DEF Keys
<1>1. ASSUME NEW w \in Workers, Install(w) PROVE domain'[n] = c
    BY <1>0, <1>1 DEF Install, VmTypeOK
<1>2. ASSUME NEW w \in Workers, Destroy(w) PROVE domain'[n] = c \/ c \in removed'
    BY <1>0, <1>2 DEF Destroy, VmTypeOK
<1>3. CASE domain' = domain
    BY <1>3
<1> QED BY <1>1, <1>2, <1>3
        DEF Next, Create, Remove, Edit, vars, host, Fail, BeginCreate, Count, ReadRows, ReadDomains,
            WriteDisk, SaveRow, Reserve, ReserveFails, BeginRemove, DeleteRow, BeginEdit, SaveEdit,
            AddMachine, EditHost

(* Histories only grow.                                                    *)
LEMMA HistoryGrows ==
    ASSUME [Next]_vars
    PROVE  /\ removed \subseteq removed' /\ together \subseteq together'
           /\ edited \subseteq edited' /\ crossed \subseteq crossed'
<1>1. removed \subseteq removed' /\ together \subseteq together'
    BY DEF Next, Create, Remove, Edit, vars, Fail, BeginCreate, Count, ReadRows, ReadDomains, WriteDisk,
           Install, SaveRow, Reserve, ReserveFails, BeginRemove, Destroy, DeleteRow, BeginEdit,
           SaveEdit, AddMachine, EditHost
<1>2. edited \subseteq edited' /\ crossed \subseteq crossed'
    BY DEF Next, Create, Remove, Edit, vars, byHand, Fail, BeginCreate, Count, ReadRows, ReadDomains,
           WriteDisk, Install, SaveRow, Reserve, ReserveFails, BeginRemove, Destroy, DeleteRow,
           BeginEdit, SaveEdit, AddMachine, EditHost, Crossing
<1> QED BY <1>1, <1>2

LEMMA ToStep ==
    ASSUME NEW j, NEW step
    PROVE  /\ To(j, step).step = step /\ To(j, step).by = j.by /\ To(j, step).name = j.name
           /\ To(j, step).limit = j.limit
BY DEF To, Request

(* Which steps a request can have come from: it begins, or it follows one  *)
(* with the same key and limit.                                            *)
Follows(j, k, w) == j \in job[w] /\ k.by = j.by /\ k.limit = j.limit

LEMMA CameFrom ==
    ASSUME VmTypeOK, [Next]_vars, NEW w \in Workers, NEW k \in job'[w], k \notin job[w]
    PROVE  \/ /\ k.step = "count" /\ k.by = made + 1 /\ k.name = 0 /\ k.limit = vmMax
              /\ UNCHANGED <<vmMax, most>>
              /\ together' = together \union {{made + 1, j.by} : j \in InProgress}
           \/ k.step \in Removing
           \/ /\ k.step \in Editing /\ UNCHANGED <<domain, removed, most>>
              /\ \E r \in rows : k.by = r.by /\ k.seen = {r.name}
           \/ /\ k.step = "rows" /\ UNCHANGED <<rows, vmMax, most, together>>
              /\ \E j : Follows(j, k, w) /\ j.step = "count" /\ HasRoom(j) /\ k.name = j.name
           \/ /\ k.step = "domains" /\ UNCHANGED <<vmMax, most, together>>
              /\ \E j : Follows(j, k, w) /\ j.step = "rows" /\ k.name = j.name
           \/ /\ k.step = "disk" /\ UNCHANGED <<vmMax, most, domain, together>>
              /\ domain[k.name] = 0 \/ k.name \notin Names
              /\ \E j : Follows(j, k, w) /\ j.step = "domains" /\ k.name \in 1..j.limit
           \/ /\ k.step = "install" /\ UNCHANGED <<vmMax, most, domain, together>>
              /\ \E j : Follows(j, k, w) /\ j.step = "disk" /\ k.name = j.name
              /\ k.name \in Names => disk'[k.name] = k.by
           \/ /\ k.step = "save" /\ UNCHANGED <<vmMax, most, disk, together>>
              /\ \E j : Follows(j, k, w) /\ j.step = "install" /\ k.name = j.name
              /\ k.name \in Names => domain'[k.name] = k.by
           \/ /\ k.step = "reserve" /\ UNCHANGED <<vmMax, most, domain, together, removed>>
              /\ \E j : Follows(j, k, w) /\ j.step = "save" /\ k.name = j.name
<1>1. PICK v \in Workers : Create(v) \/ Remove(v) \/ Edit(v) \/ Fail(v)
    BY NoneMoves DEF Next
<1>2. v = w
    BY <1>1, OneMoves
<1>3. /\ job \in [Workers -> SUBSET Job]
      /\ domain \in [Names -> Keys \union {0}] /\ disk \in [Names -> Keys \union {0}]
    BY DEF VmTypeOK
<1>4. CASE Fail(w) \/ DeleteRow(w) \/ Reserve(w) \/ SaveEdit(w)
    BY <1>3, <1>4 DEF Fail, DeleteRow, Reserve, SaveEdit, End
<1>5. CASE BeginCreate(w)
  <2>1. k = Request("count", made + 1, 0, {}, vmMax)
    BY <1>3, <1>5 DEF BeginCreate, Begin
  <2> QED BY <1>5, <2>1 DEF BeginCreate, Request, byHand
<1>6. CASE Count(w)
  <2>1. PICK j \in At(w, "count") : IF HasRoom(j) THEN Go(w, To(j, "rows")) ELSE End(w)
    BY <1>6 DEF Count
  <2>2. HasRoom(j) /\ k = To(j, "rows")
    BY <1>3, <2>1 DEF Go, End
  <2>3. Follows(j, k, w) /\ j.step = "count" /\ k.name = j.name /\ k.step = "rows"
    BY <2>2, ToStep DEF At, Follows
  <2> QED BY <1>6, <2>2, <2>3 DEF Count, byHand
<1>7. CASE ReadRows(w)
  <2>1. PICK j \in At(w, "rows") : \E seen : k = Request("domains", j.by, j.name, seen, j.limit)
    BY <1>3, <1>7 DEF ReadRows, Go
  <2>2. Follows(j, k, w) /\ j.step = "rows" /\ k.name = j.name /\ k.step = "domains"
    BY <2>1 DEF At, Follows, Request
  <2> QED BY <1>7, <2>2 DEF ReadRows, byHand
<1>8. CASE ReadDomains(w)
  <2>1. PICK j \in At(w, "domains") :
           IF Free(j) = {} THEN End(w)
           ELSE \E n \in Free(j) : Go(w, Request("disk", j.by, n, {}, j.limit))
    BY <1>8 DEF ReadDomains
  <2>2. PICK n \in Free(j) : k = Request("disk", j.by, n, {}, j.limit)
    BY <1>3, <2>1 DEF Go, End
  <2>3. domain[n] = 0 \/ n \notin Names
    BY DEF Free, Occupied
  <2>4. Follows(j, k, w) /\ j.step = "domains" /\ k.step = "disk" /\ k.name = n /\ n \in 1..j.limit
    BY <2>2 DEF At, Follows, Request, Free
  <2>5. UNCHANGED <<vmMax, most, domain, together>>
    BY <1>8 DEF ReadDomains, byHand, host
  <2> QED BY <2>3, <2>4, <2>5
<1>9. CASE WriteDisk(w)
  <2>1. PICK j \in At(w, "disk") : disk' = [disk EXCEPT ![j.name] = j.by] /\ Go(w, To(j, "install"))
    BY <1>9 DEF WriteDisk
  <2>2. k = To(j, "install")
    BY <1>3, <2>1 DEF Go
  <2>3. Follows(j, k, w) /\ j.step = "disk" /\ k.step = "install" /\ k.name = j.name /\ k.by = j.by
    BY <2>2, ToStep DEF At, Follows
  <2>4. k.name \in Names => disk'[k.name] = k.by
    BY <1>3, <2>1, <2>3
  <2>5. UNCHANGED <<vmMax, most, domain, together>>
    BY <1>9 DEF WriteDisk, byHand
  <2> QED BY <2>3, <2>4, <2>5
<1>10. CASE Install(w)
  <2>1. PICK j \in At(w, "install") :
           IF domain[j.name] = 0
           THEN domain' = [domain EXCEPT ![j.name] = j.by] /\ Go(w, To(j, "save"))
           ELSE End(w) /\ UNCHANGED domain
    BY <1>10 DEF Install
  <2>2. domain' = [domain EXCEPT ![j.name] = j.by] /\ k = To(j, "save")
    BY <1>3, <2>1 DEF End, Go
  <2>3. Follows(j, k, w) /\ j.step = "install" /\ k.step = "save" /\ k.name = j.name /\ k.by = j.by
    BY <2>2, ToStep DEF At, Follows
  <2>4. k.name \in Names => domain'[k.name] = k.by
    BY <1>3, <2>2, <2>3
  <2>5. UNCHANGED <<vmMax, most, disk, together>>
    BY <1>10 DEF Install, byHand
  <2> QED BY <2>3, <2>4, <2>5
<1>11. CASE SaveRow(w)
  <2>1. PICK j \in At(w, "save") : Go(w, To(j, "reserve")) \/ End(w)
    BY <1>11 DEF SaveRow
  <2>2. k = To(j, "reserve")
    BY <1>3, <2>1 DEF Go, End
  <2>3. Follows(j, k, w) /\ j.step = "save" /\ k.step = "reserve" /\ k.name = j.name
    BY <2>2, ToStep DEF At, Follows
  <2>4. UNCHANGED <<vmMax, most, domain, together, removed>>
    BY <1>11 DEF SaveRow, byHand, host
  <2> QED BY <2>3, <2>4
<1>12. CASE ReserveFails(w)
    BY <1>3, <1>12, ToStep DEF ReserveFails, Go, Removing
<1>13. CASE BeginRemove(w)
  <2>1. PICK r \in rows : k = Request(IF r.here THEN "destroy" ELSE "delete", r.by, r.name, {}, 0)
    BY <1>3, <1>13 DEF BeginRemove, Begin
  <2> QED BY <2>1 DEF Request, Removing
<1>14. CASE Destroy(w)
    BY <1>3, <1>14, ToStep DEF Destroy, Go, Removing
<1>15. CASE BeginEdit(w)
  <2>1. PICK r \in rows, n \in Names, step \in Editing : Begin(w, Request(step, r.by, n, {r.name}, 0))
    BY <1>15 DEF BeginEdit
  <2>3. k = Request(step, r.by, n, {r.name}, 0)
    BY <1>3, <2>1 DEF Begin
  <2>2. k.step \in Editing /\ k.by = r.by /\ k.seen = {r.name}
    BY <2>3 DEF Request
  <2> QED BY <1>15, <2>2 DEF BeginEdit, byHand, host
<1> QED BY <1>1, <1>2, <1>4, <1>5, <1>6, <1>7, <1>8, <1>9, <1>10, <1>11, <1>12, <1>13, <1>14, <1>15
        DEF Create, Remove, Edit

LEMMA JobNames ==
    ASSUME VmTypeOK, NEW w \in Workers, NEW j \in job[w]
    PROVE  /\ j.by \in Keys /\ j.limit \in Nat /\ j.name \in Nat
           /\ j.step \notin Nameless => j.name \in Names
BY VmAssumption DEF VmTypeOK, Job, Names, Limits

(* Machines keep their domains, and so do those about to be saved.         *)
LEMMA DomainsOwned ==
    ASSUME VmTypeOK, VmTypeOK', OwnDomain, InstalledStill, [Next]_vars
    PROVE  OwnDomain' /\ InstalledStill'
<1>0. removed \subseteq removed' /\ edited \subseteq edited'
    BY HistoryGrows
<1>1. ASSUME NEW n \in Names, NEW c \in Keys, c \notin removed', c \notin removed => domain[n] = c
      PROVE  domain'[n] = c
    BY <1>0, <1>1, DomainsKept
<1>2. OwnDomain'
  <2> SUFFICES ASSUME NEW r \in rows', r.by \notin removed', r.by \notin edited'
               PROVE domain'[r.name] = r.by
    BY DEF OwnDomain
  <2>1. r.name \in Names /\ r.by \in Keys
    BY DEF VmTypeOK, Row
  <2>2. CASE r \in rows
    BY <1>0, <1>1, <2>1, <2>2 DEF OwnDomain
  <2>3. ASSUME NEW w \in Workers, NEW m \in job[w], NEW here, Keeps(m), rows' = Stored(m, here), r \notin rows
        PROVE  domain'[r.name] = r.by
    <3>1. r.name = m.name /\ r.by = m.by
      BY <2>3 DEF Stored
    <3> QED BY <1>0, <1>1, <2>1, <2>3, <3>1 DEF InstalledStill
  <2>4. ASSUME NEW w \in Workers, NEW m \in job[w], NEW here, m.by \in edited', rows' = Stored(m, here)
        PROVE  r \in rows
    BY <2>4 DEF Stored
  <2>5. ASSUME NEW n \in Names, NEW here, made + 1 \in edited', rows' = Stored(Added(n), here)
        PROVE  r \in rows
    BY <2>5, AddedFields DEF Stored
  <2> QED BY <2>2, <2>3, <2>4, <2>5, RowsFrom DEF Keeps
<1>3. InstalledStill'
  <2> SUFFICES ASSUME NEW w \in Workers, NEW k \in job'[w], Keeps(k),
                      k.by \notin removed', k.by \notin edited'
               PROVE  domain'[k.name] = k.by
    BY DEF InstalledStill, Keeps
  <2>0. k \in Job /\ (k.name = 0 <=> k.step \in Nameless)
    BY DEF VmTypeOK
  <2>1. k.name \in Names /\ k.by \in Keys
    <3>1. k.step \notin Nameless
      BY DEF Keeps, Nameless, Editing
    <3> QED BY <2>0, <3>1, VmAssumption DEF Job, Names
  <2>2. CASE k \in job[w]
    BY <1>0, <1>1, <2>1, <2>2 DEF InstalledStill
  <2>3. CASE k \notin job[w] /\ k.step = "save"
    BY <2>1, <2>3, CameFrom DEF Removing, Editing
  <2>4. CASE k \notin job[w] /\ k.step = "reserve"
    <3>1. PICK j \in job[w] : j.step = "save" /\ j.by = k.by /\ j.name = k.name
      BY <2>4, CameFrom DEF Removing, Editing, Follows
    <3>2. Keeps(j)
      BY <3>1 DEF Keeps
    <3> QED BY <1>0, <1>1, <2>1, <3>1, <3>2 DEF InstalledStill
  <2>5. CASE k \notin job[w] /\ k.step \in Editing
    <3>1. /\ UNCHANGED domain
          /\ \E r \in rows : k.by = r.by /\ k.seen = {r.name}
      BY <2>5, CameFrom DEF Removing, Editing
    <3>2. PICK r \in rows : k.by = r.by /\ k.name = r.name
      BY <2>5, <3>1 DEF Keeps, Editing
    <3> QED BY <1>0, <3>1, <3>2 DEF OwnDomain
  <2> QED BY <2>2, <2>3, <2>4, <2>5 DEF Keeps
<1> QED BY <1>2, <1>3

(* Names that creations chose stay below the highest vm_max.               *)
LEMMA MostGrows ==
    ASSUME VmTypeOK, [Next]_vars
    PROVE  most \in Nat /\ most' \in Nat /\ most <= most' /\ (vmMax <= most => vmMax' <= most')
<1>0. vmMax \in Nat /\ most \in Nat
    BY VmAssumption DEF VmTypeOK, Limits
<1>1. CASE EditHost
    BY <1>0, <1>1, VmAssumption DEF EditHost, Limits
<1>2. CASE UNCHANGED <<vmMax, most>>
    BY <1>0, <1>2
<1> QED BY <1>1, <1>2
        DEF Next, Create, Remove, Edit, vars, byHand, Fail, BeginCreate, Count, ReadRows, ReadDomains,
            WriteDisk, Install, SaveRow, Reserve, ReserveFails, BeginRemove, Destroy, DeleteRow,
            BeginEdit, SaveEdit, AddMachine

LEMMA NamesStayLow ==
    ASSUME VmTypeOK, VmTypeOK', NamesLow, [Next]_vars
    PROVE  NamesLow'
<1>0. /\ most \in Nat /\ most' \in Nat /\ most <= most' /\ vmMax' <= most'
      /\ vmMax \in Nat /\ vmMax <= most /\ edited \subseteq edited'
    BY MostGrows, HistoryGrows, VmAssumption DEF NamesLow, VmTypeOK, Limits
<1>2. ASSUME NEW r \in rows', r.by \notin edited' PROVE r.name <= most'
  <2>1. r.name \in Nat
    BY VmAssumption DEF VmTypeOK, Row, Names
  <2>2. CASE r \in rows
    BY <1>0, <1>2, <2>1, <2>2 DEF NamesLow
  <2>3. ASSUME NEW w \in Workers, NEW m \in job[w], NEW here, Keeps(m), rows' = Stored(m, here), r \notin rows
        PROVE  r.name <= most'
    <3>1. r.name = m.name /\ r.by = m.by
      BY <2>3 DEF Stored
    <3>2. m.name <= most
      BY <1>0, <1>2, <2>3, <3>1 DEF NamesLow
    <3> QED BY <1>0, <2>1, <3>1, <3>2
  <2>4. ASSUME NEW w \in Workers, NEW m \in job[w], NEW here, m.by \in edited', rows' = Stored(m, here)
        PROVE  r \in rows
    BY <1>2, <2>4 DEF Stored
  <2>5. ASSUME NEW n \in Names, NEW here, made + 1 \in edited', rows' = Stored(Added(n), here)
        PROVE  r \in rows
    BY <1>2, <2>5, AddedFields DEF Stored
  <2> QED BY <2>2, <2>3, <2>4, <2>5, RowsFrom DEF Keeps
<1>3. ASSUME NEW w \in Workers, NEW k \in job'[w]
      PROVE  /\ k.step \in Creating => k.limit <= most'
             /\ k.step \in Creating \/ (Keeps(k) /\ k.by \notin edited') => k.name <= most'
  <2>0. k.limit \in Nat /\ k.name \in Nat
    BY VmAssumption DEF VmTypeOK, Job, Limits
  <2>1. CASE k \in job[w]
    BY <1>0, <2>0, <2>1 DEF NamesLow
  <2>2. CASE k \notin job[w] /\ k.step = "count"
    <3>1. k.name = 0 /\ k.limit = vmMax
      BY <2>2, CameFrom DEF Removing, Editing
    <3> QED BY <1>0, <2>0, <2>2, <3>1 DEF Keeps, Editing
  <2>3. CASE k \notin job[w] /\ k.step \in Creating \ {"count"}
    <3>1. PICK j : /\ Follows(j, k, w) /\ j.step \in Creating
                   /\ k.name = j.name \/ k.name \in 1..j.limit
      BY <2>3, CameFrom DEF Removing, Editing, Creating
    <3>2. j.limit \in Nat /\ j.name \in Nat /\ j.limit <= most /\ j.name <= most
      BY <3>1, JobNames DEF Follows, NamesLow
    <3>3. k.limit <= most /\ k.name <= most
      BY <1>0, <2>0, <3>1, <3>2 DEF Follows
    <3> QED BY <1>0, <2>0, <3>3
  <2>4. CASE k \notin job[w] /\ k.step \in Editing
    <3>1. PICK r \in rows : k.by = r.by /\ k.seen = {r.name}
      BY <2>4, CameFrom DEF Removing, Editing
    <3>2. Keeps(k) /\ k.by \notin edited' => k.name <= most
      BY <1>0, <2>4, <3>1 DEF Keeps, Editing, NamesLow
    <3>3. k.step \notin Creating
      BY <2>4 DEF Creating, Editing
    <3> QED BY <1>0, <2>0, <3>2, <3>3
  <2>5. CASE k \notin job[w] /\ k.step \in Removing
    BY <2>5 DEF Removing, Creating, Keeps, Editing
  <2>6. k.step \in Creating \/ k.step \in Removing \/ k.step \in Editing
    BY DEF VmTypeOK, Job, Steps
  <2> QED BY <2>1, <2>2, <2>3, <2>4, <2>5, <2>6
<1> QED BY <1>0, <1>2, <1>3 DEF NamesLow, Keeps

(* Requests in progress know of each other.                                *)
LEMMA NeighboursKnow ==
    ASSUME VmTypeOK, Neighbours, [Next]_vars
    PROVE  Neighbours'
<1> SUFFICES ASSUME NEW v \in Workers, NEW w \in Workers, NEW j \in job'[v], NEW k \in job'[w],
                    v # w, j.step \in Creating, k.step \in Creating
             PROVE  {j.by, k.by} \in together'
    BY DEF Neighbours
<1>1. j \in job[v] \/ k \in job[w]
  <2>1. CASE \E x \in Workers : Create(x) \/ Remove(x) \/ Edit(x) \/ Fail(x)
    BY <2>1, OneMoves
  <2>2. CASE UNCHANGED job
    BY <2>2
  <2> QED BY <2>1, <2>2, NoneMoves DEF Next
<1>2. ASSUME NEW x \in Workers, NEW y \in Workers, x # y,
             NEW a \in job[x], NEW b \in job'[y], b \notin job[y],
             a.step \in Creating, b.step \in Creating
      PROVE  {a.by, b.by} \in together'
  <2>1. CASE b.step = "count"
    <3>1. a \in InProgress
      BY <1>2 DEF InProgress
    <3>2. b.by = made + 1 /\ together' = together \union {{made + 1, i.by} : i \in InProgress}
      BY <1>2, <2>1, CameFrom DEF Removing, Editing
    <3>3. {made + 1, a.by} = {a.by, b.by}
      BY <3>2
    <3> QED BY <3>1, <3>2, <3>3
  <2>2. CASE b.step # "count"
    <3>1. \E i \in job[y] : i.step \in Creating /\ i.by = b.by
      BY <1>2, <2>2, CameFrom DEF Creating, Removing, Editing, Follows
    <3> QED BY <1>2, <3>1, HistoryGrows DEF Neighbours
  <2> QED BY <2>1, <2>2
<1>3. CASE j \in job[v] /\ k \in job[w]
    BY <1>3, HistoryGrows DEF Neighbours
<1>4. CASE j \in job[v] /\ k \notin job[w]
    BY <1>2, <1>4
<1>5. CASE j \notin job[v] /\ k \in job[w]
  <2>1. {k.by, j.by} \in together'
    BY <1>2, <1>5
  <2> QED BY <2>1
<1> QED BY <1>1, <1>3, <1>4, <1>5

(* Where new domains and new disks come from.                              *)
LEMMA DomainFrom ==
    ASSUME VmTypeOK, [Next]_vars, NEW n \in Names, domain'[n] # 0, domain'[n] # domain[n]
    PROVE  \E w \in Workers : \E j \in job[w] : \E k :
              /\ j.step = "install" /\ j.name = n /\ j.by = domain'[n]
              /\ job'[w] = {k} /\ k.step = "save" /\ k.by = domain'[n] /\ disk' = disk
<1>1. PICK w \in Workers : Install(w) \/ Destroy(w)
    BY DEF Next, Create, Remove, Edit, vars, host, Fail, BeginCreate, Count, ReadRows, ReadDomains,
           WriteDisk, SaveRow, Reserve, ReserveFails, BeginRemove, DeleteRow, BeginEdit, SaveEdit,
           AddMachine, EditHost
<1>2. domain \in [Names -> Keys \union {0}] /\ job \in [Workers -> SUBSET Job]
    BY DEF VmTypeOK
<1>3. ~Destroy(w)
    BY <1>2 DEF Destroy
<1>4. PICK j \in At(w, "install") :
         domain' = [domain EXCEPT ![j.name] = j.by] /\ Go(w, To(j, "save"))
    BY <1>1, <1>3 DEF Install
<1>5. j.name = n /\ j.by = domain'[n]
    BY <1>2, <1>4
<1>6. job'[w] = {To(j, "save")}
    BY <1>2, <1>4 DEF Go
<1>7. disk' = disk
    BY <1>1, <1>3 DEF Install
<1> QED BY <1>5, <1>6, <1>7, ToStep DEF At

LEMMA DiskFrom ==
    ASSUME VmTypeOK, [Next]_vars, NEW n \in Names, disk'[n] # disk[n]
    PROVE  \E w \in Workers : \E j \in job[w] : \E k :
              /\ j.step = "disk" /\ j.name = n /\ j.by = disk'[n]
              /\ job'[w] = {k} /\ k.step = "install" /\ k.by = disk'[n] /\ domain' = domain
<1>1. PICK w \in Workers : WriteDisk(w)
    BY DEF Next, Create, Remove, Edit, vars, host, Fail, BeginCreate, Count, ReadRows, ReadDomains,
           Install, SaveRow, Reserve, ReserveFails, BeginRemove, Destroy, DeleteRow, BeginEdit,
           SaveEdit, AddMachine, EditHost
<1>2. disk \in [Names -> Keys \union {0}] /\ job \in [Workers -> SUBSET Job]
    BY DEF VmTypeOK
<1>4. PICK j \in At(w, "disk") :
         disk' = [disk EXCEPT ![j.name] = j.by] /\ Go(w, To(j, "install"))
    BY <1>1 DEF WriteDisk
<1>5. j.name = n /\ j.by = disk'[n]
    BY <1>2, <1>4
<1>6. job'[w] = {To(j, "install")}
    BY <1>2, <1>4 DEF Go
<1>7. domain' = domain
    BY <1>1 DEF WriteDisk
<1> QED BY <1>5, <1>6, <1>7, ToStep DEF At

(* Disks: whoever writes one has not seen the domain it belongs to, or was *)
(* in progress with the request that installed it.                         *)
LEMMA DisksOwned ==
    ASSUME VmTypeOK, VmTypeOK', Neighbours', BeforeDisk, AfterDisk, OwnDisk, [Next]_vars
    PROVE  BeforeDisk' /\ AfterDisk' /\ OwnDisk'
<1>0. together \subseteq together'
    BY HistoryGrows
<1>1. BeforeDisk'
  <2> SUFFICES ASSUME NEW w \in Workers, NEW k \in job'[w], k.step = "disk", domain'[k.name] # 0
               PROVE  {k.by, domain'[k.name]} \in together'
    BY DEF BeforeDisk
  <2>1. k.name \in Names
    <3>1. k \in Job /\ (k.name = 0 <=> k.step \in Nameless)
      BY DEF VmTypeOK
    <3> QED BY <3>1, VmAssumption DEF Job, Names, Nameless
  <2>2. k \in job[w]
    BY <2>1, CameFrom DEF Removing, Editing
  <2>3. CASE domain'[k.name] = domain[k.name]
    BY <1>0, <2>2, <2>3 DEF BeforeDisk
  <2>4. CASE domain'[k.name] # domain[k.name]
    <3>1. PICK v \in Workers : \E i : job'[v] = {i} /\ i.step = "save" /\ i.by = domain'[k.name]
      BY <2>1, <2>4, DomainFrom
    <3> QED BY <3>1 DEF Neighbours, Creating
  <2> QED BY <2>3, <2>4
<1>2. AfterDisk'
  <2> SUFFICES ASSUME NEW w \in Workers, NEW k \in job'[w], k.step = "install", disk'[k.name] # k.by
               PROVE  {disk'[k.name], k.by} \in together'
    BY DEF AfterDisk
  <2>1. k.name \in Names
    <3>1. k \in Job /\ (k.name = 0 <=> k.step \in Nameless)
      BY DEF VmTypeOK
    <3> QED BY <3>1, VmAssumption DEF Job, Names, Nameless
  <2>2. k \in job[w]
    BY <2>1, CameFrom DEF Removing, Editing
  <2>3. CASE disk'[k.name] = disk[k.name]
    BY <1>0, <2>2, <2>3 DEF AfterDisk
  <2>4. CASE disk'[k.name] # disk[k.name]
    <3>1. PICK v \in Workers : \E i : job'[v] = {i} /\ i.step = "install" /\ i.by = disk'[k.name]
      BY <2>1, <2>4, DiskFrom
    <3> QED BY <3>1 DEF Neighbours, Creating
  <2> QED BY <2>3, <2>4
<1>3. OwnDisk'
  <2> SUFFICES ASSUME NEW n \in Names, domain'[n] # 0
               PROVE  disk'[n] = domain'[n] \/ {disk'[n], domain'[n]} \in together'
    BY DEF OwnDisk
  <2>1. CASE domain'[n] # domain[n]
    BY <1>0, <2>1, DomainFrom DEF AfterDisk
  <2>2. CASE domain'[n] = domain[n] /\ disk'[n] # disk[n]
    BY <1>0, <2>2, DiskFrom DEF BeforeDisk
  <2>3. CASE domain'[n] = domain[n] /\ disk'[n] = disk[n]
    BY <1>0, <2>3 DEF OwnDisk
  <2> QED BY <2>1, <2>2, <2>3
<1> QED BY <1>1, <1>2, <1>3

(* While a creation is alone, nobody writes vm_max, and only it adds a     *)
(* machine to the host.                                                    *)
LEMMA AloneBefore ==
    ASSUME [Next]_vars, NEW c, Alone(c)'
    PROVE  Alone(c)
BY HistoryGrows DEF Alone

LEMMA OthersShrink ==
    ASSUME VmTypeOK, Neighbours, [Next]_vars, NEW w \in Workers, NEW k \in job[w], NEW l \in job'[w],
           k.step \in Creating, l.by = k.by, Alone(k.by)'
    PROVE  vmMax' = vmMax /\ Others(l)' \subseteq Others(k)
<1>0. k \in InProgress /\ Alone(k.by)
    BY AloneBefore DEF InProgress
<1>1. ~Crossing
    BY <1>0 DEF Crossing, Alone
<1>2. ~AddMachine /\ ~EditHost /\ \A v \in Workers : ~SaveEdit(v)
    BY <1>1 DEF AddMachine, EditHost, SaveEdit
<1>3. vmMax' = vmMax
    BY <1>2 DEF Next, Create, Remove, Edit, vars, byHand, Fail, BeginCreate, Count, ReadRows,
           ReadDomains, WriteDisk, Install, SaveRow, Reserve, ReserveFails, BeginRemove, Destroy,
           DeleteRow, BeginEdit
<1>4. CASE rows' \subseteq rows
  <2>1. Hosted' \subseteq Hosted
    BY <1>4 DEF Hosted
  <2>2. Others(l)' = {r \in Hosted' : r.by # k.by}
    BY DEF Others
  <2> QED BY <1>3, <2>1, <2>2 DEF Others
<1>5. ASSUME NEW v \in Workers, NEW m \in job[v], m.step \in {"save", "reserve"}, rows' = Stored(m, TRUE)
      PROVE  Others(l)' \subseteq Others(k)
  <2>1. m.by = k.by
    <3>1. CASE v = w
      BY <3>1 DEF VmTypeOK
    <3>2. CASE v # w
      <4>1. {k.by, m.by} \in together
        BY <1>5, <3>2 DEF Neighbours, Creating
      <4> QED BY <1>0, <4>1 DEF Alone
    <3> QED BY <3>1, <3>2
  <2> QED BY <1>5, <2>1 DEF Others, Hosted, Stored
<1>6. Others(l)' \subseteq Others(k)
    BY <1>2, <1>4, <1>5, RowsFrom
<1> QED BY <1>3, <1>6

LEMMA OthersFinite ==
    ASSUME VmTypeOK, NEW j
    PROVE  /\ IsFiniteSet(Hosted) /\ IsFiniteSet(Others(j))
           /\ Cardinality(Hosted) \in Nat /\ Cardinality(Others(j)) \in Nat
           /\ Cardinality(Others(j)) <= Cardinality(Hosted)
<1>1. Hosted \in SUBSET rows /\ IsFiniteSet(rows) /\ Others(j) \in SUBSET Hosted
    BY DEF Hosted, Others, VmTypeOK
<1>2. IsFiniteSet(Hosted)
    BY <1>1, FS_Subset
<1>3. IsFiniteSet(Others(j)) /\ Cardinality(Others(j)) <= Cardinality(Hosted)
    BY <1>1, <1>2, FS_Subset
<1> QED BY <1>2, <1>3, FS_CardinalityType

LEMMA RoomKept ==
    ASSUME VmTypeOK, VmTypeOK', Neighbours, CountedRoom, [Next]_vars
    PROVE  CountedRoom'
<1> SUFFICES ASSUME NEW w \in Workers, NEW l \in job'[w], l.step \in Creating, Alone(l.by)'
             PROVE  /\ l.limit = vmMax'
                    /\ l.step # "count" => Cardinality(Others(l)') < vmMax'
    BY DEF CountedRoom
<1>0. vmMax \in Nat
    BY VmAssumption DEF VmTypeOK, Limits
<1>1. ASSUME NEW k \in job[w], k.step \in Creating, l.by = k.by, l.limit = k.limit
      PROVE  l.limit = vmMax' /\ (k.step # "count" => Cardinality(Others(l)') < vmMax')
  <2>1. vmMax' = vmMax /\ Others(l)' \in SUBSET Others(k)
    BY <1>1, OthersShrink
  <2>2. k.limit = vmMax /\ (k.step # "count" => Cardinality(Others(k)) < vmMax)
    BY <1>1, AloneBefore DEF CountedRoom
  <2>3. IsFiniteSet(Others(k)) /\ Cardinality(Others(k)) \in Nat
    BY OthersFinite
  <2>4. IsFiniteSet(Others(l)') /\ Cardinality(Others(l)') <= Cardinality(Others(k))
    BY <2>1, <2>3, FS_Subset
  <2>5. Cardinality(Others(l)') \in Nat
    BY <2>4, FS_CardinalityType
  <2>6. k.step # "count" => Cardinality(Others(l)') < vmMax
    BY <1>0, <2>2, <2>3, <2>4, <2>5
  <2> QED BY <1>1, <2>1, <2>2, <2>6
<1>2. CASE l \in job[w]
    BY <1>1, <1>2
<1>3. CASE l \notin job[w] /\ l.step = "count"
    BY <1>3, CameFrom DEF Removing, Editing
<1>4. CASE l \notin job[w] /\ l.step = "rows"
  <2>1. /\ UNCHANGED <<rows, vmMax>>
        /\ \E j : Follows(j, l, w) /\ j.step = "count" /\ HasRoom(j)
    BY <1>4, CameFrom DEF Removing, Editing
  <2>2. PICK j : Follows(j, l, w) /\ j.step = "count" /\ HasRoom(j)
    BY <2>1
  <2>3. l.limit = vmMax' /\ l.limit = j.limit
    BY <1>1, <2>2 DEF Follows, Creating
  <2>4. Cardinality(Hosted) < vmMax
    BY <2>1, <2>2, <2>3 DEF HasRoom
  <2>5. Others(l)' = Others(l)
    BY <2>1 DEF Others, Hosted
  <2>6. Cardinality(Others(l)) < vmMax
    <3>1. /\ Cardinality(Hosted) \in Nat /\ Cardinality(Others(l)) \in Nat
          /\ Cardinality(Others(l)) <= Cardinality(Hosted)
      BY OthersFinite
    <3> QED BY <1>0, <2>4, <3>1
  <2> QED BY <2>1, <2>3, <2>5, <2>6
<1>5. CASE l \notin job[w] /\ l.step \in Creating \ {"count", "rows"}
  <2>1. PICK j : Follows(j, l, w) /\ j.step \in Creating \ {"count"}
    BY <1>5, CameFrom DEF Removing, Editing, Creating
  <2> QED BY <1>1, <2>1 DEF Follows
<1> QED BY <1>2, <1>3, <1>4, <1>5

-----------------------------------------------------------------------------
(* Every step of every request keeps VmInv.                                *)
LEMMA VmStep == VmInv /\ [Next]_vars => VmInv'
<1> SUFFICES ASSUME VmInv, [Next]_vars PROVE VmInv'
    OBVIOUS
<1>1. VmTypeOK'
    BY VmTypes DEF VmInv
<1>2. UniqueNames'
    BY NamesUnique DEF VmInv
<1>3. OwnDomain' /\ InstalledStill'
    BY <1>1, DomainsOwned DEF VmInv
<1>4. Neighbours'
    BY NeighboursKnow DEF VmInv
<1>5. BeforeDisk' /\ AfterDisk' /\ OwnDisk'
    BY <1>1, <1>4, DisksOwned DEF VmInv
<1>6. NamesLow'
    BY <1>1, NamesStayLow DEF VmInv
<1>7. CountedRoom'
    BY <1>1, RoomKept DEF VmInv
<1> QED BY <1>1, <1>2, <1>3, <1>4, <1>5, <1>6, <1>7 DEF VmInv

(* VmInv holds throughout, whatever requests overlap, fail or are killed,  *)
(* and whatever is added, renamed or moved by hand.                        *)
THEOREM VirtualMachinesInvariant == Spec => []VmInv
BY VmInit, VmStep, PTL DEF Spec

(* A creation that nobody overlapped adds a machine only where the others  *)
(* leave room for it, which the comparison found much earlier.             *)
LEMMA AloneStep ==
    ASSUME VmInv, [Next]_vars, NEW w \in Workers, NEW j \in job[w],
           j.step \in Creating, Alone(j.by), job'[w] # job[w]
    PROVE  Cardinality(Hosted') <= vmMax \/ Hosted' \subseteq Hosted
<1>0. VmTypeOK /\ vmMax \in Nat
    BY VmAssumption DEF VmInv, VmTypeOK, Limits
<1>1. PICK v \in Workers : Create(v) \/ Remove(v) \/ Edit(v) \/ Fail(v)
    BY NoneMoves DEF Next
<1>2. v = w
    BY <1>0, <1>1, OneMoves
<1>3. CASE rows' \subseteq rows
    BY <1>3 DEF Hosted
<1>4. ASSUME NEW m \in job[w], m.step \in {"save", "reserve"}, rows' = Stored(m, TRUE)
      PROVE  Cardinality(Hosted') <= vmMax
  <2>1. m = j
    BY <1>0 DEF VmTypeOK
  <2>2. Cardinality(Others(j)) < vmMax
    BY <1>4, <2>1 DEF VmInv, CountedRoom
  <2>3. PICK new : new = [name |-> j.name, by |-> j.by, here |-> TRUE]
    OBVIOUS
  <2>4. Hosted' = Others(j) \union {new}
    BY <1>4, <2>1, <2>3 DEF Hosted, Others, Stored
  <2>5. IsFiniteSet(Others(j)) /\ Cardinality(Others(j)) \in Nat
    BY <1>0, OthersFinite
  <2>6. new \notin Others(j)
    BY <2>3 DEF Others
  <2>7. Cardinality(Others(j) \union {new}) = Cardinality(Others(j)) + 1
    BY <2>5, <2>6, FS_AddElement
  <2> QED BY <1>0, <2>2, <2>4, <2>5, <2>7
<1>5. ASSUME NEW x \in Workers, SaveRow(x) \/ Reserve(x), x # w PROVE FALSE
    BY <1>0, <1>5, OneMoves DEF Create
<1>6. ASSUME NEW x \in Workers, NEW m \in job[x], m.step \in Editing, SaveEdit(x) PROVE FALSE
  <2>1. x # w
    BY <1>0, <1>6 DEF VmTypeOK, Creating, Editing
  <2> QED BY <1>0, <1>6, <2>1, OneMoves DEF Edit
<1>7. ~AddMachine
    BY NoneMoves
<1> QED BY <1>3, <1>4, <1>5, <1>6, <1>7, RowsFrom

(* The limit: a creation that nobody overlapped never takes the host above *)
(* vm_max, whatever was added by hand before and whatever is removed       *)
(* between the comparison in _create and the two times the machine is      *)
(* saved.                                                                  *)
THEOREM LimitKept == Spec => AloneKeepsLimit
<1>1. VmInv /\ [Next]_vars =>
        [\A w \in Workers : \A j \in job[w] :
            j.step \in Creating /\ Alone(j.by) /\ job'[w] # job[w] =>
                Cardinality(Hosted') <= vmMax \/ Hosted' \subseteq Hosted]_vars
    BY AloneStep
<1> QED BY <1>1, VirtualMachinesInvariant, PTL DEF Spec, AloneKeepsLimit

(* Of the machines that were created and not renamed there are never more  *)
(* than the highest vm_max, however many creations overlap: they have as   *)
(* many names, which are unique.                                           *)
LEMMA CreatedLimit == VmInv => CreatedWithinLimit
<1> SUFFICES ASSUME VmInv PROVE CreatedWithinLimit
    OBVIOUS
<1> DEFINE created == {r \in rows : r.by \notin edited}
           name == [r \in created |-> r.name]
<1>1. most \in Nat
    BY VmAssumption DEF VmInv, VmTypeOK, Limits
<1>2. ASSUME NEW r \in created PROVE r.name \in 1..most
  <2>1. r.name \in Nat /\ r.name # 0
    BY DEF VmInv, VmTypeOK, Row, Names
  <2> QED BY <1>1, <2>1 DEF VmInv, NamesLow
<1>3. name \in Injection(created, 1..most)
    BY <1>2 DEF VmInv, UniqueNames, Injection, IsInjective
<1>4. IsFiniteSet(1..most) /\ Cardinality(1..most) = most
    BY <1>1, FS_Interval
<1>5. Cardinality(created) <= Cardinality(1..most)
    BY <1>3, <1>4, FS_Injection
<1> QED BY <1>4, <1>5 DEF CreatedWithinLimit

THEOREM CreatedLimitKept == Spec => []CreatedWithinLimit
BY CreatedLimit, VirtualMachinesInvariant, PTL

(* A machine that is not renamed loses its domain only to a removal, and   *)
(* nobody's domain is taken for it.                                        *)
THEOREM DomainKept == Spec => []OwnDomain
<1>1. VmInv => OwnDomain
    BY DEF VmInv
<1> QED BY <1>1, VirtualMachinesInvariant, PTL

(* The disk of a domain is its own or that of a request which overlapped.  *)
THEOREM DiskKept == Spec => []OwnDisk
<1>1. VmInv => OwnDisk
    BY DEF VmInv
<1> QED BY <1>1, VirtualMachinesInvariant, PTL
=============================================================================
