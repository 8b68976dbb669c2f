---------------------------- MODULE CobblerProofs ----------------------------
(***************************************************************************)
(* The systems of active machines stay on the servers, for any machines,   *)
(* devices, domains, servers, requests and threads.  Systems are removed   *)
(* by names that were computed from rows read before.  The invariant says  *)
(* of every request and every job how the names it holds relate to the     *)
(* rows as they are: the name a request has read is that of its machine or *)
(* of one saved since (Held); what a cleanup has found is no active        *)
(* machine's but those saved since or below another domain (Leftover); and *)
(* the same of what a job found stale (Spared), which follows from the     *)
(* names it read before (Listed).                                          *)
(***************************************************************************)
EXTENDS Cobbler, TLAPS

Tasks ==
    [kind : {"machine"}, domain : Domains, of : Machines]
    \union [kind : {"device"}, domain : {Null}, of : Devices]
    \union [kind : {"all"}, domain : SUBSET Domains, of : {Null}]

Entries == [of : Machines \union Devices, name : Names, config : Nat]

Jobs == [task : Tasks, phase : {"begin", "list", "deploy", "names", "prune"},
         domains : SUBSET Domains, domain : Domains \union {Null},
         left : SUBSET Entries, current : SUBSET Entries, known : BOOLEAN,
         names : SUBSET Names, touched : SUBSET Machines]

Requests ==
    [id : Nat, kind : {"edit", "delete", "device", "cleanup"},
     step : {"save", "move", "notify", "remove", "delete", "compare", "clean"},
     of : Machines \union Devices \union {Null}, name : Names \union {Null},
     server : Servers \union {NoServer}, old : Rows \union {Null}, new : Rows \union {Null},
     domains : SUBSET Domains, listed : SUBSET Names, names : SUBSET Names,
     touched : SUBSET Machines]

RowsOK ==
    /\ row \in [Machines -> Rows \union {Null}]
    /\ device \in [Devices -> DeviceNames \union {Null}]
    /\ events \in Nat

ServersOK ==
    /\ DOMAIN systems = Servers /\ up \subseteq Servers
    /\ \A s \in Servers : DOMAIN systems[s] \subseteq Names

(* Machine.fqdn is unique.                                                 *)
UniqueNames ==
    \A m, x \in Machines :
        m # x /\ row[m] # Null /\ row[x] # Null => Name(row[m]) # Name(row[x])

(* What a request holds, by its kind and step.                             *)
Shaped(r) ==
    /\ r.kind = "edit" => /\ r.step \in {"save", "move", "notify"}
                          /\ r.of \in Machines /\ r.old \in Rows
    /\ r.kind = "edit" /\ r.step # "save" => r.new \in Rows
    /\ r.kind \in {"delete", "device"} => r.step \in {"remove", "delete"}
    /\ r.kind = "delete" => r.of \in Machines
    /\ r.kind = "device" => r.of \in Devices
    /\ r.kind = "cleanup" => /\ r.step \in {"compare", "clean"}
                             /\ r.server \in Servers /\ r.domains \subseteq Served(r.server)

Holds(m, n) == row[m] # Null /\ Name(row[m]) = n

Held(r) ==
    \A m \in Machines :
        /\ r.step \in {"save", "remove"} /\ r.kind # "device" /\ Holds(m, r.name)
              => m = r.of \/ m \in r.touched
        /\ r.step = "move" /\ Holds(m, r.name) => m \in r.touched

OldName(r) == r.step = "save" => r.name = Name(r.old)

Leftover(r) ==
    r.kind = "cleanup" =>
        \A m \in Machines, n \in r.names :
            Holds(m, n) /\ row[m].active /\ row[m].domain \in Served(r.server)
                => m \in r.touched \/ \E d \in Served(r.server) : Below(m, d)

RequestSound(r) == r \in Requests /\ Shaped(r) /\ Held(r) /\ OldName(r) /\ Leftover(r)

WebSound == \A r \in web : RequestSound(r)

(* A job past its beginning is about a domain with a server.               *)
Placed(j) ==
    /\ j.phase # "begin" => j.domain \in Domains /\ ServerOf[j.domain] \in Servers
    /\ \A d \in j.domains : ServerOf[d] # NoServer

ActiveIn(m, d) == row[m] # Null /\ row[m].domain = d /\ row[m].active

Listed(j) ==
    \A m \in Machines : ActiveIn(m, j.domain) => m \in j.touched \/ Name(row[m]) \in j.names

Spared(j) ==
    /\ \A n \in j.names : Within(j.domain, n)
    /\ \A m \in Machines : ActiveIn(m, j.domain) => m \in j.touched \/ Name(row[m]) \notin j.names

NamesSound(j) == (j.phase = "names" => Listed(j)) /\ (j.phase = "prune" => Spared(j))

JobsSound ==
    /\ queue \subseteq Tasks
    /\ job \in [Threads -> SUBSET Jobs]
    /\ \A t \in Threads : \A j \in job[t] : j.task \in queue /\ Placed(j) /\ NamesSound(j)
    /\ \A t, x \in Threads : \A j \in job[t], k \in job[x] : t # x => j.task # k.task

CobInv == RowsOK /\ ServersOK /\ UniqueNames /\ WebSound /\ JobsSound
-----------------------------------------------------------------------------
(* The operators on systems.                                               *)
LEMMA AddedNames ==
    ASSUME NEW s \in DOMAIN systems, NEW n, NEW c
    PROVE  /\ DOMAIN Add(s, n, c) = DOMAIN systems
           /\ DOMAIN Add(s, n, c)[s] = DOMAIN systems[s] \union {n}
           /\ \A x \in DOMAIN systems : x # s => Add(s, n, c)[x] = systems[x]
  BY DEF Add

LEMMA RemovedNames ==
    ASSUME NEW s \in DOMAIN systems, NEW n
    PROVE  /\ DOMAIN Remove(s, n) = DOMAIN systems
           /\ DOMAIN Remove(s, n)[s] = DOMAIN systems[s] \ {n}
           /\ \A x \in DOMAIN systems : x # s => Remove(s, n)[x] = systems[x]
  BY DEF Remove

LEMMA AddSound ==
    ASSUME ServersOK, NEW s \in Servers, NEW n \in Names, NEW c,
           systems' = Add(s, n, c), up' = up
    PROVE  ServersOK'
  BY AddedNames DEF ServersOK

LEMMA RemoveSound ==
    ASSUME ServersOK, NEW s \in Servers, NEW n, systems' = Remove(s, n), up' = up
    PROVE  ServersOK'
  BY RemovedNames DEF ServersOK

(* What rows and requests are like.                                        *)
LEMMA RowFields ==
    ASSUME RowsOK, NEW m \in Machines, row[m] # Null
    PROVE  /\ row[m] \in Rows
           /\ row[m].domain \in Domains /\ row[m].active \in BOOLEAN /\ row[m].config \in Nat
           /\ Name(row[m]) \in Names
           /\ Name(row[m])[2] = row[m].domain
  BY DEF RowsOK, Rows, Name, Names

(* A step of no thread, and no change of machines.                         *)
LEMMA SameJobs ==
    ASSUME JobsSound, row' = row, job' = job, queue \subseteq queue', queue' \subseteq Tasks
    PROVE  JobsSound'
<1>1. \A j : NamesSound(j)' = NamesSound(j)
  BY DEF NamesSound, Listed, Spared, ActiveIn
<1>2. \A j : Placed(j)' = Placed(j)
  BY DEF Placed
<1>3. QED BY <1>1, <1>2 DEF JobsSound

LEMMA SameRequest ==
    ASSUME row' = row, NEW r PROVE RequestSound(r)' = RequestSound(r)
  BY DEF RequestSound, Shaped, Held, Holds, OldName, Leftover, Below

LEMMA SameRows ==
    ASSUME CobInv, UNCHANGED <<row, device>>, events' \in Nat
    PROVE  RowsOK' /\ UniqueNames' /\ (web' \subseteq web => WebSound')
  BY SameRequest DEF CobInv, RowsOK, UniqueNames, WebSound

(* A thread goes on with its task, or begins one that nobody has.          *)
LEMMA DoSound ==
    ASSUME JobsSound, row' = row, NEW t \in Threads, NEW k \in Jobs, Do(t, k),
           k.task \in queue, Placed(k), NamesSound(k),
           \A x \in Threads \ {t} : \A i \in job[x] : i.task # k.task
    PROVE  JobsSound'
<1>1. \A j : NamesSound(j)' = NamesSound(j)
  BY DEF NamesSound, Listed, Spared, ActiveIn
<1>2. PICK J : J = {k}
  OBVIOUS
<1>3. job' = [job EXCEPT ![t] = J] /\ queue' = queue
  BY <1>2 DEF Do
<1>4. job \in [Threads -> SUBSET Jobs]
  BY DEF JobsSound
<1>5. job'[t] = J /\ \A x \in Threads \ {t} : job'[x] = job[x]
  BY <1>3, <1>4
<1>6. job' \in [Threads -> SUBSET Jobs]
  BY <1>2, <1>3, <1>4
<1>7. ASSUME NEW x \in Threads, NEW j \in job'[x]
      PROVE  j.task \in queue' /\ Placed(j)' /\ NamesSound(j)'
  <2>1. CASE x = t
    BY <1>1, <1>2, <1>3, <1>5, <1>7, <2>1 DEF Placed
  <2>2. CASE x # t
    BY <1>1, <1>3, <1>5, <1>7, <2>2 DEF JobsSound, Placed
  <2>3. QED BY <2>1, <2>2
<1>8. ASSUME NEW x \in Threads, NEW y \in Threads, x # y,
             NEW j \in job'[x], NEW i \in job'[y]
      PROVE  j.task # i.task
  <2>1. CASE x = t
    BY <1>2, <1>5, <1>8, <2>1
  <2>2. CASE y = t
    BY <1>2, <1>5, <1>8, <2>2
  <2>3. CASE x # t /\ y # t
    BY <1>5, <1>8, <2>3 DEF JobsSound
  <2>4. QED BY <2>1, <2>2, <2>3
<1>9. queue' \subseteq Tasks
  BY <1>3 DEF JobsSound
<1>10. QED BY <1>6, <1>7, <1>8, <1>9 DEF JobsSound

LEMMA GoOnSound ==
    ASSUME JobsSound, row' = row, NEW t \in Threads, NEW j \in job[t], NEW k \in Jobs,
           Do(t, k), k.task = j.task, Placed(k), NamesSound(k)
    PROVE  JobsSound'
<1>1. k.task \in queue /\ \A x \in Threads \ {t} : \A i \in job[x] : i.task # k.task
  BY DEF JobsSound
<1>2. QED BY <1>1, DoSound

LEMMA EndSound ==
    ASSUME JobsSound, row' = row, NEW t \in Threads, NEW j \in job[t], End(t, j)
    PROVE  JobsSound'
<1>1. \A i : NamesSound(i)' = NamesSound(i)
  BY DEF NamesSound, Listed, Spared, ActiveIn
<1>2. PICK J : J = {}
  OBVIOUS
<1>3. job' = [job EXCEPT ![t] = J] /\ queue' = queue \ {j.task}
  BY <1>2 DEF End
<1>4. job \in [Threads -> SUBSET Jobs]
  BY DEF JobsSound
<1>5. job'[t] = {} /\ \A x \in Threads \ {t} : job'[x] = job[x]
  BY <1>2, <1>3, <1>4
<1>6. job' \in [Threads -> SUBSET Jobs]
  BY <1>2, <1>3, <1>4
<1>7. ASSUME NEW x \in Threads, NEW i \in job'[x]
      PROVE  i.task \in queue' /\ Placed(i)' /\ NamesSound(i)'
  <2>1. x # t /\ i \in job[x]
    BY <1>5, <1>7
  <2>2. i.task # j.task /\ i.task \in queue /\ Placed(i) /\ NamesSound(i)
    BY <2>1 DEF JobsSound
  <2>3. QED BY <1>1, <1>3, <2>2 DEF Placed
<1>8. \A x, y \in Threads : \A i \in job'[x], k \in job'[y] : x # y => i.task # k.task
  BY <1>5 DEF JobsSound
<1>9. queue' \subseteq Tasks
  BY <1>3 DEF JobsSound
<1>10. QED BY <1>6, <1>7, <1>8, <1>9 DEF JobsSound

LEMMA JobTyped ==
    ASSUME JobsSound, NEW t \in Threads, NEW j \in job[t]
    PROVE  j \in Jobs /\ j.task \in queue /\ j.task \in Tasks /\ Placed(j) /\ NamesSound(j)
  BY DEF JobsSound

LEMMA GiveUpSound ==
    ASSUME JobsSound, row' = row, NEW t \in Threads, NEW j \in job[t], GiveUp(t, j)
    PROVE  JobsSound'
<1>1. CASE j.task.kind = "all"
  <2>1. PICK k : k = [j EXCEPT !.phase = "begin", !.domain = Null, !.left = {}, !.current = {},
                               !.known = FALSE, !.names = {}, !.touched = {}]
    OBVIOUS
  <2>2. j \in Jobs /\ Placed(j)
    BY JobTyped
  <2>3. k \in Jobs /\ k.phase = "begin" /\ k.task = j.task /\ k.domains = j.domains
    BY <2>1, <2>2 DEF Jobs
  <2>4. Placed(k) /\ NamesSound(k)
    BY <2>2, <2>3 DEF Placed, NamesSound
  <2>5. Do(t, k)
    BY <1>1, <2>1 DEF GiveUp
  <2>6. QED BY <2>3, <2>4, <2>5, GoOnSound
<1>2. CASE j.task.kind # "all"
  BY <1>2, EndSound DEF GiveUp
<1>3. QED BY <1>1, <1>2
-----------------------------------------------------------------------------
(* What a thread does, but for what it does to the servers.                *)
LEMMA StartJobs ==
    ASSUME CobInv, NEW t \in Threads, Start(t) PROVE JobsSound'
<1>1. PICK task \in queue : Untaken(task) /\
          Do(t, [task |-> task, phase |-> "begin",
                 domains |-> IF task.kind = "all" THEN WithServer(task.domain) ELSE {},
                 domain |-> Null, left |-> {}, current |-> {}, known |-> FALSE,
                 names |-> {}, touched |-> {}])
  BY DEF Start
<1>2. PICK ds : ds = IF task.kind = "all" THEN WithServer(task.domain) ELSE {}
  OBVIOUS
<1>3. PICK k : k = [task |-> task, phase |-> "begin", domains |-> ds,
                    domain |-> Null, left |-> {}, current |-> {}, known |-> FALSE,
                    names |-> {}, touched |-> {}]
  OBVIOUS
<1>4. task \in Tasks
  BY DEF CobInv, JobsSound
<1>5. ds \subseteq Domains /\ \A d \in ds : ServerOf[d] # NoServer
  <2>1. task.kind = "all" => task.domain \subseteq Domains
    BY <1>4 DEF Tasks
  <2>2. QED BY <1>2, <2>1 DEF WithServer
<1>6. k \in Jobs
  BY <1>3, <1>4, <1>5 DEF Jobs
<1>7. k.task = task /\ k.phase = "begin" /\ k.domains = ds
  BY <1>3
<1>8. Placed(k) /\ NamesSound(k)
  BY <1>5, <1>7 DEF Placed, NamesSound
<1>9. Do(t, k) /\ row' = row
  BY <1>1, <1>2, <1>3 DEF Start
<1>10. \A x \in Threads \ {t} : \A i \in job[x] : i.task # k.task
  BY <1>1, <1>7 DEF Untaken
<1>11. JobsSound
  BY DEF CobInv
<1>12. QED BY <1>6, <1>7, <1>8, <1>9, <1>10, <1>11, DoSound

LEMMA BeginUpdateJobs ==
    ASSUME CobInv, NEW t \in Threads, BeginUpdate(t) PROVE JobsSound'
<1> DEFINE found(j) == IF j.task.kind = "machine"
                       THEN {Read(m) : m \in {x \in {j.task.of} : row[x] # Null}}
                       ELSE {ReadDevice(v) : v \in {x \in {j.task.of} : device[x] # Null}}
           of(j, f) == IF j.task.kind = "machine" \/ f = {} THEN j.task.domain
                       ELSE device[j.task.of][2]
<1>1. PICK j \in job[t] :
          /\ j.phase = "begin" /\ j.task.kind # "all"
          /\ IF found(j) = {} \/ ServerOf[of(j, found(j))] = NoServer
             THEN End(t, j)
             ELSE Do(t, [j EXCEPT !.phase = "list", !.domain = of(j, found(j)), !.left = found(j)])
  BY DEF BeginUpdate
<1>2. PICK f : f = found(j)
  OBVIOUS
<1>3. PICK d : d = of(j, f)
  OBVIOUS
<1>a. /\ j.task.kind = "machine" =>
            /\ f = {Read(m) : m \in {x \in {j.task.of} : row[x] # Null}}
            /\ d = j.task.domain
      /\ j.task.kind # "machine" =>
            /\ f = {ReadDevice(v) : v \in {x \in {j.task.of} : device[x] # Null}}
            /\ f # {} => d = device[j.task.of][2]
  BY <1>2, <1>3
<1>b. IF f = {} \/ ServerOf[d] = NoServer
      THEN End(t, j)
      ELSE Do(t, [j EXCEPT !.phase = "list", !.domain = d, !.left = f])
  BY <1>1, <1>2, <1>3
<1>c. j.phase = "begin" /\ j.task.kind # "all"
  BY <1>1
<1> HIDE DEF found, of
<1>4. JobsSound /\ RowsOK /\ row' = row
  BY DEF CobInv, BeginUpdate
<1>5. j \in Jobs /\ j.task \in Tasks /\ Placed(j)
  BY <1>4, JobTyped
<1>6. CASE f = {} \/ ServerOf[d] = NoServer
  <2>1. End(t, j)
    BY <1>6, <1>b
  <2>2. QED BY <1>4, <2>1, EndSound
<1>7. CASE f # {} /\ ServerOf[d] # NoServer
  <2>1. PICK k : k = [j EXCEPT !.phase = "list", !.domain = d, !.left = f]
    OBVIOUS
  <2>2. Do(t, k)
    BY <1>7, <1>b, <2>1
  <2>3. ASSUME j.task.kind = "machine" PROVE d \in Domains /\ f \subseteq Entries
    <3>1. j.task.of \in Machines /\ j.task.domain \in Domains
      BY <1>5, <2>3 DEF Tasks
    <3>2. f = {Read(m) : m \in {x \in {j.task.of} : row[x] # Null}} /\ d = j.task.domain
      BY <1>a, <2>3
    <3>3. \A m \in Machines : row[m] # Null => Read(m) \in Entries
      BY <1>4, RowFields DEF Read, Entries
    <3>4. QED BY <3>1, <3>2, <3>3
  <2>4. ASSUME j.task.kind = "device" PROVE d \in Domains /\ f \subseteq Entries
    <3>1. j.task.of \in Devices
      BY <1>5, <2>4 DEF Tasks
    <3>2. /\ f = {ReadDevice(v) : v \in {x \in {j.task.of} : device[x] # Null}}
          /\ d = device[j.task.of][2] /\ device[j.task.of] # Null
      BY <1>7, <1>a, <2>4
    <3>3. \A v \in Devices : device[v] # Null => device[v] \in DeviceNames
      BY <1>4 DEF RowsOK
    <3>4. \A v \in Devices : device[v] # Null => ReadDevice(v) \in Entries
      BY <3>3 DEF ReadDevice, Entries, Names
    <3>5. d \in Domains
      BY <3>1, <3>2, <3>3, DomainsAssumption
    <3>6. f \subseteq Entries
      BY <3>1, <3>2, <3>4
    <3>7. QED BY <3>5, <3>6
  <2>5. d \in Domains /\ f \subseteq Entries
    <3>1. j.task.kind \in {"machine", "device"}
      BY <1>5, <1>c DEF Tasks
    <3>2. QED BY <2>3, <2>4, <3>1
  <2>6. k \in Jobs /\ k.phase = "list" /\ k.domain = d /\ k.task = j.task /\ k.domains = j.domains
    BY <1>5, <2>1, <2>5 DEF Jobs
  <2>7. ServerOf[d] \in Servers
    BY <1>7, <2>5, DomainsAssumption
  <2>8. Placed(k) /\ NamesSound(k)
    BY <1>5, <2>5, <2>6, <2>7 DEF Placed, NamesSound
  <2>9. QED BY <1>4, <2>2, <2>6, <2>8, GoOnSound
<1>8. QED BY <1>6, <1>7

LEMMA BeginDomainJobs ==
    ASSUME CobInv, NEW t \in Threads, BeginDomain(t) PROVE JobsSound'
<1>1. PICK j \in job[t] :
          /\ j.phase = "begin"
          /\ IF j.domains = {} THEN End(t, j)
             ELSE \E d \in j.domains :
                      LET rest == [j EXCEPT !.domains = @ \ {d}]
                      IN  Do(t, IF Members(d) = {} THEN rest
                                ELSE [rest EXCEPT !.phase = "list", !.domain = d,
                                                  !.left = {Read(m) : m \in Active(d)}])
  BY DEF BeginDomain
<1>2. JobsSound /\ RowsOK /\ row' = row
  BY DEF CobInv, BeginDomain
<1>3. j \in Jobs /\ Placed(j)
  BY <1>2, JobTyped
<1>4. CASE j.domains = {}
  BY <1>1, <1>2, <1>4, EndSound
<1>5. CASE j.domains # {}
  <2>1. PICK d \in j.domains :
            LET rest == [j EXCEPT !.domains = @ \ {d}]
            IN  Do(t, IF Members(d) = {} THEN rest
                      ELSE [rest EXCEPT !.phase = "list", !.domain = d,
                                        !.left = {Read(m) : m \in Active(d)}])
    BY <1>1, <1>5
  <2>2. PICK ds : ds = j.domains \ {d}
    OBVIOUS
  <2>3. PICK left : left = {Read(m) : m \in Active(d)}
    OBVIOUS
  <2>4. d \in Domains /\ ServerOf[d] \in Servers /\ ds \subseteq Domains
        /\ \A x \in ds : ServerOf[x] # NoServer
    BY <1>3, <2>2, DomainsAssumption DEF Jobs, Placed
  <2>5. left \subseteq Entries
    <3>1. \A m \in Active(d) : Read(m) \in Entries
      BY <1>2, RowFields DEF Active, Read, Entries
    <3>2. QED BY <2>3, <3>1
  <2>6. CASE Members(d) = {}
    <3>1. PICK k : k = [j EXCEPT !.domains = ds]
      OBVIOUS
    <3>2. Do(t, k)
      BY <2>1, <2>2, <2>6, <3>1
    <3>3. k \in Jobs /\ k.phase = "begin" /\ k.task = j.task /\ k.domains = ds
      BY <1>1, <1>3, <2>4, <3>1 DEF Jobs
    <3>4. Placed(k) /\ NamesSound(k)
      BY <2>4, <3>3 DEF Placed, NamesSound
    <3>5. QED BY <1>2, <3>2, <3>3, <3>4, GoOnSound
  <2>7. CASE Members(d) # {}
    <3>1. PICK rest : rest = [j EXCEPT !.domains = ds]
      OBVIOUS
    <3>2. PICK k : k = [rest EXCEPT !.phase = "list", !.domain = d, !.left = left]
      OBVIOUS
    <3>3. Do(t, k)
      BY <2>1, <2>2, <2>3, <2>7, <3>1, <3>2
    <3>4. rest \in Jobs /\ rest.task = j.task /\ rest.domains = ds
      BY <1>3, <2>4, <3>1 DEF Jobs
    <3>5. k \in Jobs /\ k.phase = "list" /\ k.domain = d /\ k.task = j.task /\ k.domains = ds
      BY <2>4, <2>5, <3>2, <3>4 DEF Jobs
    <3>6. Placed(k) /\ NamesSound(k)
      BY <2>4, <3>5 DEF Placed, NamesSound
    <3>7. QED BY <1>2, <3>3, <3>5, <3>6, GoOnSound
  <2>8. QED BY <2>6, <2>7
<1>6. QED BY <1>4, <1>5

LEMMA ListJobs ==
    ASSUME CobInv, NEW t \in Threads, List(t) PROVE JobsSound'
<1>1. PICK j \in job[t] :
          /\ j.phase = "list"
          /\ IF ServerOf[j.domain] \notin up THEN GiveUp(t, j)
             ELSE \E e \in j.left :
                      Do(t, [j EXCEPT !.phase = "deploy", !.current = {e},
                                      !.known = e.name \in DOMAIN systems[ServerOf[j.domain]]])
  BY DEF List
<1>2. JobsSound /\ row' = row
  BY DEF CobInv, List
<1>3. j \in Jobs /\ Placed(j)
  BY <1>2, JobTyped
<1>4. CASE ServerOf[j.domain] \notin up
  BY <1>1, <1>2, <1>4, GiveUpSound
<1>5. CASE ServerOf[j.domain] \in up
  <2>1. PICK e \in j.left :
            Do(t, [j EXCEPT !.phase = "deploy", !.current = {e},
                            !.known = e.name \in DOMAIN systems[ServerOf[j.domain]]])
    BY <1>1, <1>5
  <2>2. PICK known : known = (e.name \in DOMAIN systems[ServerOf[j.domain]])
    OBVIOUS
  <2>a. known \in BOOLEAN
    BY <2>2, SMT
  <2>3. PICK now : now = {e}
    OBVIOUS
  <2>4. PICK k : k = [j EXCEPT !.phase = "deploy", !.current = now, !.known = known]
    OBVIOUS
  <2>5. Do(t, k)
    BY <2>1, <2>2, <2>3, <2>4
  <2>6. now \subseteq Entries
    BY <1>3, <2>3 DEF Jobs
  <2>7. k \in Jobs /\ k.phase = "deploy" /\ k.task = j.task
        /\ k.domain = j.domain /\ k.domains = j.domains
    BY <1>3, <2>4, <2>6, <2>a DEF Jobs
  <2>8. Placed(k) /\ NamesSound(k)
    BY <1>1, <1>3, <2>7 DEF Placed, NamesSound
  <2>9. QED BY <1>2, <2>5, <2>7, <2>8, GoOnSound
<1>6. QED BY <1>4, <1>5

LEMMA DeployJobs ==
    ASSUME CobInv, NEW t \in Threads, Deploy(t) PROVE JobsSound'
<1>1. PICK j \in job[t] :
          /\ j.phase = "deploy"
          /\ \E e \in j.current :
                Do(t, [j EXCEPT !.phase = "list", !.left = @ \ {e}, !.current = {},
                                !.known = FALSE])
  BY DEF Deploy
<1>2. JobsSound /\ row' = row
  BY DEF CobInv, Deploy
<1>3. j \in Jobs /\ Placed(j)
  BY <1>2, JobTyped
<1>4. PICK left : /\ left \subseteq j.left
                  /\ Do(t, [j EXCEPT !.phase = "list", !.left = left, !.current = {},
                                      !.known = FALSE])
  BY <1>1
<1>5. PICK k : k = [j EXCEPT !.phase = "list", !.left = left, !.current = {}, !.known = FALSE]
  OBVIOUS
<1>6. k \in Jobs /\ k.phase = "list" /\ k.task = j.task
      /\ k.domain = j.domain /\ k.domains = j.domains
  BY <1>3, <1>4, <1>5 DEF Jobs
<1>7. Placed(k) /\ NamesSound(k)
  BY <1>1, <1>3, <1>6 DEF Placed, NamesSound
<1>8. QED BY <1>2, <1>4, <1>5, <1>6, <1>7, GoOnSound

LEMMA DeployFailsJobs ==
    ASSUME CobInv, NEW t \in Threads, DeployFails(t) PROVE JobsSound'
  BY GiveUpSound DEF CobInv, DeployFails

(* The names of the active machines are listed ...                         *)
LEMMA DeployedJobs ==
    ASSUME CobInv, NEW t \in Threads, Deployed(t) PROVE JobsSound'
<1>1. PICK j \in job[t] :
          /\ j.phase = "list"
          /\ IF j.task.kind # "all" THEN End(t, j)
             ELSE IF ~Prune THEN GiveUp(t, j)
             ELSE Do(t, [j EXCEPT !.phase = "names", !.touched = {},
                                  !.names = {Name(row[m]) : m \in Active(j.domain)}])
  BY DEF Deployed
<1>2. JobsSound /\ RowsOK /\ row' = row
  BY DEF CobInv, Deployed
<1>3. j \in Jobs /\ Placed(j)
  BY <1>2, JobTyped
<1>4. CASE j.task.kind # "all"
  BY <1>1, <1>2, <1>4, EndSound
<1>5. CASE j.task.kind = "all" /\ ~Prune
  BY <1>1, <1>2, <1>5, GiveUpSound
<1>6. CASE j.task.kind = "all" /\ Prune
  <2>1. PICK names : names = {Name(row[m]) : m \in Active(j.domain)}
    OBVIOUS
  <2>2. PICK k : k = [j EXCEPT !.phase = "names", !.touched = {}, !.names = names]
    OBVIOUS
  <2>3. Do(t, k)
    BY <1>1, <1>6, <2>1, <2>2
  <2>4. names \subseteq Names
    BY <1>2, <2>1, RowFields DEF Active
  <2>5. k \in Jobs /\ k.phase = "names" /\ k.task = j.task
        /\ k.domain = j.domain /\ k.domains = j.domains /\ k.names = names
    BY <1>3, <2>2, <2>4 DEF Jobs
  <2>6. Listed(k)
    BY <2>1, <2>5 DEF Listed, ActiveIn, Active
  <2>7. Placed(k) /\ NamesSound(k)
    BY <1>1, <1>3, <2>5, <2>6 DEF Placed, NamesSound
  <2>8. QED BY <1>2, <2>3, <2>5, <2>7, GoOnSound
<1>7. QED BY <1>4, <1>5, <1>6

(* ... and whatever is not listed is stale, so no machine is.              *)
LEMMA PruneStaleJobs ==
    ASSUME CobInv, NEW t \in Threads, PruneStale(t) PROVE JobsSound'
<1>1. PICK j \in job[t] :
          /\ j.phase = "names"
          /\ IF ServerOf[j.domain] \notin up THEN GiveUp(t, j)
             ELSE Do(t, [j EXCEPT !.phase = "prune", !.names = Stale(j.domain, j.names)])
  BY DEF PruneStale
<1>2. JobsSound /\ ServersOK /\ row' = row
  BY DEF CobInv, PruneStale
<1>3. j \in Jobs /\ Placed(j) /\ Listed(j)
  BY <1>1, <1>2, JobTyped DEF NamesSound
<1>4. CASE ServerOf[j.domain] \notin up
  BY <1>1, <1>2, <1>4, GiveUpSound
<1>5. CASE ServerOf[j.domain] \in up
  <2>1. PICK stale : stale = Stale(j.domain, j.names)
    OBVIOUS
  <2>2. PICK k : k = [j EXCEPT !.phase = "prune", !.names = stale]
    OBVIOUS
  <2>3. Do(t, k)
    BY <1>1, <1>5, <2>1, <2>2
  <2>4. /\ stale \subseteq Names
        /\ \A n \in stale : Within(j.domain, n) /\ n \notin j.names
    BY <1>2, <1>5, <2>1 DEF Stale, ServersOK
  <2>5. k \in Jobs /\ k.phase = "prune" /\ k.task = j.task /\ k.names = stale
        /\ k.domain = j.domain /\ k.domains = j.domains /\ k.touched = j.touched
    BY <1>3, <2>2, <2>4 DEF Jobs
  <2>6. Spared(k)
    BY <1>3, <2>4, <2>5 DEF Spared, Listed
  <2>7. Placed(k) /\ NamesSound(k)
    BY <1>1, <1>3, <2>5, <2>6 DEF Placed, NamesSound
  <2>8. QED BY <1>2, <2>3, <2>5, <2>7, GoOnSound
<1>6. QED BY <1>4, <1>5

LEMMA RemoveByNameJobs ==
    ASSUME CobInv, NEW t \in Threads, RemoveByName(t) PROVE JobsSound'
<1>1. PICK j \in job[t] :
          /\ j.phase = "prune"
          /\ \/ GiveUp(t, j)
             \/ \E n \in j.names : Do(t, [j EXCEPT !.names = @ \ {n}])
  BY DEF RemoveByName
<1>2. JobsSound /\ row' = row
  BY DEF CobInv, RemoveByName
<1>3. j \in Jobs /\ Placed(j) /\ Spared(j)
  BY <1>1, <1>2, JobTyped DEF NamesSound
<1>4. CASE GiveUp(t, j)
  BY <1>2, <1>4, GiveUpSound
<1>5. CASE \E n \in j.names : Do(t, [j EXCEPT !.names = @ \ {n}])
  <2>1. PICK names : names \subseteq j.names /\ Do(t, [j EXCEPT !.names = names])
    BY <1>5
  <2>2. PICK k : k = [j EXCEPT !.names = names]
    OBVIOUS
  <2>3. k \in Jobs /\ k.phase = "prune" /\ k.task = j.task /\ k.names = names
        /\ k.domain = j.domain /\ k.domains = j.domains /\ k.touched = j.touched
    BY <1>1, <1>3, <2>1, <2>2 DEF Jobs
  <2>4. Spared(k)
    BY <1>3, <2>1, <2>3 DEF Spared
  <2>5. Placed(k) /\ NamesSound(k)
    BY <1>1, <1>3, <2>3, <2>4 DEF Placed, NamesSound
  <2>6. QED BY <1>2, <2>1, <2>2, <2>3, <2>5, GoOnSound
<1>6. QED BY <1>1, <1>4, <1>5

LEMMA ExecuteJobs ==
    ASSUME CobInv, NEW t \in Threads, Execute(t) PROVE JobsSound'
  BY StartJobs, BeginUpdateJobs, BeginDomainJobs, ListJobs, DeployJobs, DeployFailsJobs,
     DeployedJobs, PruneStaleJobs, RemoveByNameJobs DEF Execute

(* What it does to the servers: it adds the system of what it read, and    *)
(* removes what is on its list.                                            *)
LEMMA ExecuteServers ==
    ASSUME CobInv, NEW t \in Threads, Execute(t)
    PROVE  /\ ServersOK'
           /\ \/ systems' = systems
              \/ \E s \in Servers, n \in Names : \E c : systems' = Add(s, n, c)
              \/ \E j \in job[t] \ job'[t] :
                    /\ j.phase = "prune" /\ ServerOf[j.domain] \in Servers
                    /\ \E n \in j.names : systems' = Remove(ServerOf[j.domain], n)
<1>1. ServersOK /\ JobsSound
  BY DEF CobInv
<1>2. CASE Deploy(t)
  <2>1. PICK j \in job[t] :
            /\ ServerOf[j.domain] \in up /\ up' = up
            /\ \E e \in j.current : \E c :
                  systems' = Add(ServerOf[j.domain], e.name, c) \/ systems' = systems
    BY <1>2 DEF Deploy
  <2>2. PICK e \in j.current : \E c :
            systems' = Add(ServerOf[j.domain], e.name, c) \/ systems' = systems
    BY <2>1
  <2>3. PICK s \in Servers : s = ServerOf[j.domain]
    BY <1>1, <2>1 DEF ServersOK
  <2>4. PICK n : n = e.name
    OBVIOUS
  <2>5. n \in Names
    <3>1. e \in Entries
      BY <1>1, JobTyped DEF Jobs
    <3>2. QED BY <2>4, <3>1 DEF Entries
  <2>6. PICK c : systems' = Add(s, n, c) \/ systems' = systems
    BY <2>2, <2>3, <2>4
  <2>7. CASE systems' = systems
    BY <1>1, <2>1, <2>7 DEF ServersOK
  <2>8. CASE systems' = Add(s, n, c)
    BY <1>1, <2>1, <2>5, <2>8, AddSound
  <2>9. QED BY <2>6, <2>7, <2>8
<1>3. CASE RemoveByName(t)
  <2>1. PICK j \in job[t] :
            /\ j.phase = "prune" /\ up' = up
            /\ \/ systems' = systems
               \/ \E n \in j.names : /\ systems' = Remove(ServerOf[j.domain], n)
                                      /\ Do(t, [j EXCEPT !.names = @ \ {n}])
    BY <1>3 DEF RemoveByName
  <2>2. PICK s \in Servers : s = ServerOf[j.domain]
    BY <1>1, <2>1, JobTyped DEF Placed
  <2>3. CASE systems' = systems
    BY <1>1, <2>1, <2>3 DEF ServersOK
  <2>4. ASSUME NEW n \in j.names, systems' = Remove(s, n),
               Do(t, [j EXCEPT !.names = @ \ {n}])
        PROVE  ServersOK' /\ j \notin job'[t]
    <3>1. ServersOK'
      BY <1>1, <2>1, <2>4, RemoveSound
    <3>2. PICK k : k = [j EXCEPT !.names = @ \ {n}]
      OBVIOUS
    <3>3. j \in Jobs /\ job \in [Threads -> SUBSET Jobs]
      BY <1>1, JobTyped DEF JobsSound
    <3>4. n \notin k.names
      BY <3>2, <3>3 DEF Jobs
    <3>5. PICK J : J = {k}
      OBVIOUS
    <3>6. job' = [job EXCEPT ![t] = J]
      BY <2>4, <3>2, <3>5 DEF Do
    <3>7. job'[t] = J
      BY <3>3, <3>6
    <3>8. QED BY <2>4, <3>1, <3>4, <3>5, <3>7
  <2>5. QED BY <2>1, <2>2, <2>3, <2>4
<1>4. CASE ~Deploy(t) /\ ~RemoveByName(t)
  <2>1. systems' = systems /\ up' = up
    BY <1>4 DEF Execute, Start, BeginUpdate, BeginDomain, List, DeployFails, Deployed, PruneStale
  <2>2. QED BY <1>1, <2>1 DEF ServersOK
<1>5. QED BY <1>2, <1>3, <1>4

LEMMA EventsTyped ==
    ASSUME CobInv, [Next]_vars PROVE events' \in Nat
<1>1. events \in Nat
  BY DEF CobInv, RowsOK
<1>2. events' = events \/ Asked
  BY DEF Next, vars, WebStep, AddMachine, BeginEdit, EditParts, BeginDelete, BeginDeleteDevice,
         SaveDevice, BeginCleanup, Continue, Abandon, RegenerateDomain, RegenerateMachine,
         RegenerateDevice, Ask, Begin, SaveMachine, MoveMachine, Follow, PreDelete,
         DeleteMachine, DeleteDevice, CollectDiff, CobblerCleanup, RegenerateAll,
         ServerStops, ServerStarts, Execute, Start, BeginUpdate, BeginDomain, List, Deploy,
         DeployFails, Deployed, PruneStale, RemoveByName
<1>3. QED BY <1>1, <1>2 DEF Asked

LEMMA ExecuteSound ==
    ASSUME CobInv, [Next]_vars, NEW t \in Threads, Execute(t) PROVE CobInv'
<1>1. UNCHANGED <<row, device, web>>
  BY DEF Execute, Start, BeginUpdate, BeginDomain, List, Deploy, DeployFails, Deployed,
         PruneStale, RemoveByName
<1>2. QED BY <1>1, EventsTyped, SameRows, ExecuteJobs, ExecuteServers DEF CobInv
-----------------------------------------------------------------------------
(* Web requests.                                                           *)
LEMMA FilledRow ==
    ASSUME NEW s \in Submitted, NEW config \in Nat
    PROVE  /\ Filled(s, config) \in Rows
           /\ Name(Filled(s, config)) = Name(s)
           /\ Filled(s, config).domain = s.domain
  BY RowsAssumption DEF Filled, Rows, Forms, Name

(* A machine that is written is noted by every job past its reading, so    *)
(* that what the job lists stays true of the others.                       *)
LEMMA WriteJobs ==
    ASSUME CobInv, NEW m \in Machines, NEW new \in Rows, Write(m, new)
    PROVE  JobsSound'
<1>1. JobsSound /\ RowsOK
  BY DEF CobInv
<1>2. row' = [row EXCEPT ![m] = new] /\ \A x \in Machines \ {m} : row'[x] = row[x]
  BY <1>1 DEF RowsOK, Write
<1>3. ASSUME NEW t \in Threads, NEW k \in job'[t]
      PROVE  \E j \in job[t] :
                /\ k.task = j.task
                /\ k \in Jobs /\ Placed(k)' /\ NamesSound(k)'
  <2>1. PICK j \in job[t] : \/ k = j /\ ~Pruning(j)
                           \/ k = [j EXCEPT !.touched = @ \union {m}]
    BY <1>3 DEF Write, Noting
  <2>2. j \in Jobs /\ Placed(j) /\ NamesSound(j)
    BY <1>1, JobTyped
  <2>3. CASE k = j /\ ~Pruning(j)
    BY <2>2, <2>3 DEF Placed, NamesSound, Pruning
  <2>4. CASE k = [j EXCEPT !.touched = @ \union {m}]
    <3>1. PICK touched : touched = j.touched \union {m}
      OBVIOUS
    <3>2. /\ k \in Jobs /\ k.task = j.task /\ k.phase = j.phase /\ k.domains = j.domains
          /\ k.domain = j.domain /\ k.names = j.names /\ k.touched = touched
      <4>1. k = [j EXCEPT !.touched = touched] /\ touched \subseteq Machines
        BY <2>2, <2>4, <3>1 DEF Jobs
      <4>2. QED BY <2>2, <4>1 DEF Jobs
    <3>3. Placed(k)'
      BY <2>2, <3>2 DEF Placed
    <3>4. k.phase = "names" => Listed(k)'
      BY <1>2, <2>2, <3>1, <3>2 DEF NamesSound, Listed, ActiveIn
    <3>5. k.phase = "prune" => Spared(k)'
      BY <1>2, <2>2, <3>1, <3>2 DEF NamesSound, Spared, ActiveIn
    <3>6. QED BY <3>2, <3>3, <3>4, <3>5 DEF NamesSound
  <2>5. QED BY <2>1, <2>3, <2>4
<1>4. job' \in [Threads -> SUBSET Jobs]
  <2>1. \A t \in Threads : job'[t] \subseteq Jobs
    BY <1>3
  <2>2. PICK F : F = [t \in Threads |-> {j \in job[t] : ~Pruning(j)}
                                        \union Noting(m, {j \in job[t] : Pruning(j)})]
    OBVIOUS
  <2>3. job' = F
    BY <2>2 DEF Write
  <2>4. QED BY <2>1, <2>2, <2>3
<1>5. queue' = queue
  BY DEF Write
<1>6. \A t \in Threads : \A k \in job'[t] : k.task \in queue' /\ Placed(k)' /\ NamesSound(k)'
  BY <1>1, <1>3, <1>5, JobTyped
<1>7. ASSUME NEW t \in Threads, NEW x \in Threads, NEW j \in job'[t], NEW k \in job'[x], t # x
      PROVE  j.task # k.task
  <2>1. PICK i \in job[t] : j.task = i.task
    BY <1>3
  <2>2. PICK l \in job[x] : k.task = l.task
    BY <1>3
  <2>3. QED BY <1>1, <1>7, <2>1, <2>2 DEF JobsSound
<1>8. QED BY <1>1, <1>4, <1>5, <1>6, <1>7 DEF JobsSound

(* So is it by every other request.                                        *)
LEMMA NotedSound ==
    ASSUME CobInv, NEW m \in Machines, NEW new \in Rows, row' = [row EXCEPT ![m] = new],
           NEW group \in SUBSET web, NEW k \in Noting(m, group)
    PROVE  RequestSound(k)'
<1>1. PICK r \in group : k = [r EXCEPT !.touched = @ \union {m}]
  BY DEF Noting
<1>2. RequestSound(r)
  BY DEF CobInv, WebSound
<1>3. PICK touched : touched = r.touched \union {m}
  OBVIOUS
<1>4. r \in Requests /\ touched \subseteq Machines /\ k = [r EXCEPT !.touched = touched]
  BY <1>1, <1>2, <1>3 DEF RequestSound, Requests
<1>5. /\ k \in Requests /\ k.kind = r.kind /\ k.step = r.step /\ k.of = r.of
      /\ k.name = r.name /\ k.server = r.server /\ k.old = r.old /\ k.new = r.new
      /\ k.names = r.names /\ k.domains = r.domains /\ k.touched = touched
  BY <1>4 DEF Requests
<1>6. \A x \in Machines \ {m} : row'[x] = row[x]
  BY DEF CobInv, RowsOK
<1>7. Shaped(k)' /\ OldName(k)'
  BY <1>2, <1>5 DEF RequestSound, Shaped, OldName
<1>8. Held(k)'
  BY <1>2, <1>3, <1>5, <1>6 DEF RequestSound, Held, Holds
<1>9. Leftover(k)'
  BY <1>2, <1>3, <1>5, <1>6 DEF RequestSound, Leftover, Holds, Below
<1>10. QED BY <1>5, <1>7, <1>8, <1>9 DEF RequestSound

LEMMA WriteRows ==
    ASSUME CobInv, NEW m \in Machines, NEW s, Free(m, s), NEW new \in Rows,
           Name(new) = Name(s), Write(m, new), events' \in Nat
    PROVE  RowsOK' /\ UniqueNames' /\ ServersOK'
<1>1. row' = [row EXCEPT ![m] = new] /\ UNCHANGED <<device, systems, up>>
  BY DEF Write
<1>2. RowsOK /\ UniqueNames /\ ServersOK
  BY DEF CobInv
<1>3. row'[m] = new /\ \A x \in Machines \ {m} : row'[x] = row[x]
  BY <1>1, <1>2 DEF RowsOK
<1>4. RowsOK'
  BY <1>1, <1>2 DEF RowsOK
<1>5. \A x \in Machines \ {m} : row[x] # Null => Name(row[x]) # Name(new)
  BY DEF Free
<1>6. UniqueNames'
  BY <1>2, <1>3, <1>5 DEF UniqueNames
<1>7. QED BY <1>1, <1>2, <1>4, <1>6 DEF ServersOK

LEMMA AddMachineSound == ASSUME CobInv, AddMachine PROVE CobInv'
<1>1. PICK m \in Machines, s \in Submitted :
          /\ Free(m, s) /\ Asked
          /\ Write(m, Filled(s, events + 1)) /\ web' = Noting(m, web)
  BY DEF AddMachine
<1>2. events \in Nat /\ events' \in Nat
  BY <1>1 DEF CobInv, RowsOK, Asked
<1>3. PICK new : new = Filled(s, events + 1)
  OBVIOUS
<1>4. new \in Rows /\ Name(new) = Name(s)
  BY <1>2, <1>3, FilledRow
<1>5. RowsOK' /\ UniqueNames' /\ ServersOK'
  BY <1>1, <1>2, <1>3, <1>4, WriteRows
<1>6. JobsSound'
  BY <1>1, <1>3, <1>4, WriteJobs
<1>7. row' = [row EXCEPT ![m] = new]
  BY <1>1, <1>3 DEF Write
<1>8. WebSound'
  BY <1>1, <1>4, <1>7, NotedSound DEF WebSound
<1>9. QED BY <1>5, <1>6, <1>8 DEF CobInv

LEMMA SaveMachineSound == ASSUME CobInv, SaveMachine PROVE CobInv'
<1>0. PICK r \in web, s \in Submitted : \E config :
          /\ r.step = "save" /\ Free(r.of, s)
          /\ config = IF s.changes THEN r.id ELSE r.old.config
          /\ Write(r.of, Filled(s, config))
          /\ web' = Noting(r.of, web \ {r})
                      \union {[r EXCEPT !.new = Filled(s, config),
                                       !.step = IF Filled(s, config).domain = r.old.domain
                                                THEN "notify" ELSE "move"]}
          /\ events' = events
  BY DEF SaveMachine
<1>1. PICK config :
          /\ r.step = "save" /\ Free(r.of, s)
          /\ config = IF s.changes THEN r.id ELSE r.old.config
          /\ Write(r.of, Filled(s, config))
          /\ web' = Noting(r.of, web \ {r})
                      \union {[r EXCEPT !.new = Filled(s, config),
                                       !.step = IF Filled(s, config).domain = r.old.domain
                                                THEN "notify" ELSE "move"]}
          /\ events' = events
  BY <1>0
<1>2. RequestSound(r)
  BY DEF CobInv, WebSound
<1>3. r \in Requests /\ r.kind = "edit" /\ r.of \in Machines /\ r.old \in Rows
      /\ r.name = Name(r.old)
  BY <1>1, <1>2 DEF RequestSound, Shaped, OldName, Requests
<1>4. config \in Nat
  BY <1>1, <1>3 DEF Requests, Rows
<1>5. PICK new : new = Filled(s, config)
  OBVIOUS
<1>6. new \in Rows /\ Name(new) = Name(s)
  BY <1>4, <1>5, FilledRow
<1>7. RowsOK' /\ UniqueNames' /\ ServersOK' /\ JobsSound'
  <2>1. events' \in Nat
    BY <1>1 DEF CobInv, RowsOK
  <2>2. Write(r.of, new)
    BY <1>1, <1>5
  <2>3. QED BY <1>1, <1>3, <1>6, <2>1, <2>2, WriteRows, WriteJobs
<1>8. row' = [row EXCEPT ![r.of] = new]
  BY <1>1, <1>5 DEF Write
<1>9. PICK step : step = IF new.domain = r.old.domain THEN "notify" ELSE "move"
  OBVIOUS
<1>10. PICK k : k = [r EXCEPT !.new = new, !.step = step]
  OBVIOUS
<1>11. web' = Noting(r.of, web \ {r}) \union {k}
  BY <1>1, <1>5, <1>9, <1>10
<1>12. /\ k \in Requests /\ k.kind = "edit" /\ k.step = step /\ k.of = r.of
       /\ k.name = r.name /\ k.old = r.old /\ k.new = new /\ k.touched = r.touched
  BY <1>3, <1>6, <1>9, <1>10 DEF Requests
<1>13. RequestSound(k)'
  <2>1. Shaped(k)' /\ OldName(k)' /\ Leftover(k)'
    BY <1>3, <1>6, <1>9, <1>12 DEF Shaped, OldName, Leftover
  <2>2. ASSUME step = "move", NEW m \in Machines, Holds(m, r.name)' PROVE m \in r.touched
    <3>1. new.domain # r.old.domain
      BY <1>9, <2>2
    <3>2. Name(new) # r.name
      BY <1>3, <3>1 DEF Name
    <3>3. row'[r.of] = new /\ \A x \in Machines \ {r.of} : row'[x] = row[x]
      BY <1>3, <1>8 DEF CobInv, RowsOK
    <3>4. m # r.of /\ Holds(m, r.name)
      BY <2>2, <3>2, <3>3 DEF Holds
    <3>5. QED BY <1>1, <1>2, <1>3, <3>4 DEF RequestSound, Held
  <2>3. Held(k)'
    BY <1>9, <1>12, <2>2 DEF Held
  <2>4. QED BY <1>12, <2>1, <2>3 DEF RequestSound
<1>14. \A q \in Noting(r.of, web \ {r}) : RequestSound(q)'
  BY <1>3, <1>6, <1>8, NotedSound
<1>15. WebSound'
  BY <1>11, <1>13, <1>14 DEF WebSound
<1>16. QED BY <1>7, <1>15 DEF CobInv

LEMMA MachineTask ==
    ASSUME NEW d \in Domains, NEW m \in Machines
    PROVE  UpdateCobblerMachine(d, m) \in Tasks
  BY DEF UpdateCobblerMachine, Tasks

LEMMA DeviceTask ==
    ASSUME NEW v \in Devices PROVE UpdateCobblerRemotePowerDevice(v) \in Tasks
  BY DEF UpdateCobblerRemotePowerDevice, Tasks

LEMMA DomainsTask ==
    ASSUME NEW ds \in SUBSET Domains PROVE RegenerateCobbler(ds) \in Tasks
  BY DEF RegenerateCobbler, Tasks

LEMMA EnqueueTyped ==
    ASSUME CobInv, NEW tasks, tasks \subseteq Tasks, Enqueue(tasks)
    PROVE  queue \subseteq queue' /\ queue' \subseteq Tasks
  BY DEF Enqueue, CobInv, JobsSound

(* Requests that begin, and go on, with what they hold.                    *)
LEMMA SoundWeb ==
    ASSUME CobInv, row' = row, NEW k, RequestSound(k), web' \subseteq web \union {k}
    PROVE  WebSound'
  BY SameRequest DEF CobInv, WebSound

LEMMA EmptyRequest ==
    ASSUME CobInv, NEW kind \in {"edit", "delete", "device", "cleanup"},
           NEW step \in {"save", "remove", "compare"},
           NEW x \in Machines \union Devices \union {Null}, NEW n \in Names \union {Null},
           NEW s \in Servers \union {NoServer}
    PROVE  LET r == Request(kind, step, x, n, s)
           IN  /\ r \in Requests /\ r.kind = kind /\ r.step = step /\ r.of = x
               /\ r.name = n /\ r.server = s /\ r.names = {}
<1>1. events + 1 \in Nat
  BY DEF CobInv, RowsOK
<1>2. QED BY <1>1 DEF Request, Requests

(* A step of a request that changes no row of a machine.                   *)
LEMMA WebStepSound ==
    ASSUME CobInv, UNCHANGED <<row, job>>, device' \in [Devices -> DeviceNames \union {Null}],
           events' \in Nat, ServersOK', WebSound', queue \subseteq queue', queue' \subseteq Tasks
    PROVE  CobInv'
<1>1. RowsOK' /\ UniqueNames'
  BY DEF CobInv, RowsOK, UniqueNames
<1>2. JobsSound'
  BY SameJobs DEF CobInv
<1>3. QED BY <1>1, <1>2 DEF CobInv

(* One that begins or goes on, and may remove a system.                    *)
LEMMA GoOnWithRequest ==
    ASSUME CobInv, NEW k, RequestSound(k), web' \subseteq web \union {k},
           UNCHANGED <<row, device, up, queue, job>>, events' \in Nat,
           systems' = systems \/ \E s \in up : \E n : systems' = Remove(s, n)
    PROVE  CobInv'
<1>1. ServersOK'
  <2>1. CASE systems' = systems
    BY <2>1 DEF CobInv, ServersOK
  <2>2. ASSUME NEW s \in up, NEW n, systems' = Remove(s, n) PROVE ServersOK'
    BY <2>2, RemoveSound DEF CobInv, ServersOK
  <2>3. QED BY <2>1, <2>2
<1>2. WebSound'
  BY SoundWeb
<1>3. device' \in [Devices -> DeviceNames \union {Null}]
  BY DEF CobInv, RowsOK
<1>4. queue \subseteq queue' /\ queue' \subseteq Tasks
  BY DEF CobInv, JobsSound
<1>5. QED BY <1>1, <1>2, <1>3, <1>4, WebStepSound

LEMMA RequestOf ==
    ASSUME CobInv, NEW r \in web
    PROVE  r \in Requests /\ Shaped(r) /\ Held(r) /\ OldName(r) /\ Leftover(r)
  BY DEF CobInv, WebSound, RequestSound

LEMMA ServersOf == ASSUME NEW d \in Domains PROVE ServerOf[d] \in Servers \union {NoServer}
  BY DomainsAssumption

(* A name that is read belongs to the machine it was read of.              *)
LEMMA BeginEditSound == ASSUME CobInv, BeginEdit PROVE CobInv'
<1>1. PICK m \in Machines :
          /\ row[m] # Null
          /\ Begin([Request("edit", "save", m, Name(row[m]), ServerOf[row[m].domain])
                      EXCEPT !.old = row[m]])
          /\ UNCHANGED <<row, device, systems, up, queue, job>>
  BY DEF BeginEdit
<1>2. PICK n : n = Name(row[m])
  OBVIOUS
<1>3. PICK s : s = ServerOf[row[m].domain]
  OBVIOUS
<1>4. row[m] \in Rows /\ n \in Names /\ s \in Servers \union {NoServer}
  BY <1>1, <1>2, <1>3, RowFields, ServersOf DEF CobInv
<1>5. PICK r : r = Request("edit", "save", m, n, s)
  OBVIOUS
<1>6. r \in Requests /\ r.kind = "edit" /\ r.step = "save" /\ r.of = m /\ r.name = n
  BY <1>4, <1>5, EmptyRequest
<1>7. PICK k : k = [r EXCEPT !.old = row[m]]
  OBVIOUS
<1>8. /\ k \in Requests /\ k.kind = "edit" /\ k.step = "save" /\ k.of = m
      /\ k.name = n /\ k.old = row[m]
  BY <1>4, <1>6, <1>7 DEF Requests
<1>9. Shaped(k) /\ OldName(k) /\ Leftover(k)
  BY <1>2, <1>4, <1>8 DEF Shaped, OldName, Leftover
<1>10. Held(k)
  BY <1>1, <1>2, <1>8 DEF Held, Holds, CobInv, UniqueNames
<1>11. RequestSound(k)
  BY <1>8, <1>9, <1>10 DEF RequestSound
<1>12. Asked /\ web' = web \union {k}
  BY <1>1, <1>2, <1>3, <1>5, <1>7 DEF Begin
<1>13. events' \in Nat
  BY <1>12 DEF Asked, CobInv, RowsOK
<1>14. QED BY <1>1, <1>11, <1>12, <1>13, GoOnWithRequest

LEMMA BeginDeleteSound == ASSUME CobInv, BeginDelete \/ BeginDeleteDevice PROVE CobInv'
<1>1. PICK kind \in {"delete", "device"}, x \in Machines \union Devices, n \in Names,
           s \in Servers \union {NoServer} :
          /\ kind = "delete" => x \in Machines /\ Holds(x, n)
          /\ kind = "device" => x \in Devices
          /\ Begin(Request(kind, "remove", x, n, s))
          /\ UNCHANGED <<row, device, systems, up, queue, job>>
  <2>1. CASE BeginDelete
    <3>1. PICK m \in Machines :
              /\ row[m] # Null
              /\ Begin(Request("delete", "remove", m, Name(row[m]), ServerOf[row[m].domain]))
              /\ UNCHANGED <<row, device, systems, up, queue, job>>
      BY <2>1 DEF BeginDelete
    <3>2. Name(row[m]) \in Names /\ ServerOf[row[m].domain] \in Servers \union {NoServer}
      BY <3>1, RowFields, ServersOf DEF CobInv
    <3>3. QED BY <3>1, <3>2 DEF Holds
  <2>2. CASE BeginDeleteDevice
    <3>1. PICK v \in Devices :
              /\ device[v] # Null
              /\ Begin(Request("device", "remove", v, device[v], ServerOf[device[v][2]]))
              /\ UNCHANGED <<row, device, systems, up, queue, job>>
      BY <2>2 DEF BeginDeleteDevice
    <3>2. device[v] \in DeviceNames
      BY <3>1 DEF CobInv, RowsOK
    <3>3. device[v] \in Names /\ ServerOf[device[v][2]] \in Servers \union {NoServer}
      BY <3>2, DomainsAssumption DEF Names
    <3>4. QED BY <3>1, <3>3
  <2>3. QED BY <2>1, <2>2
<1>2. PICK r : r = Request(kind, "remove", x, n, s)
  OBVIOUS
<1>3. r \in Requests /\ r.kind = kind /\ r.step = "remove" /\ r.of = x /\ r.name = n
  BY <1>2, EmptyRequest
<1>4. Shaped(r) /\ OldName(r) /\ Leftover(r)
  BY <1>1, <1>3 DEF Shaped, OldName, Leftover
<1>5. Held(r)
  BY <1>1, <1>3 DEF Held, Holds, CobInv, UniqueNames
<1>6. Asked /\ web' = web \union {r} /\ RequestSound(r)
  BY <1>1, <1>2, <1>3, <1>4, <1>5 DEF Begin, RequestSound
<1>7. events' \in Nat
  BY <1>6 DEF Asked, CobInv, RowsOK
<1>8. QED BY <1>1, <1>6, <1>7, GoOnWithRequest

LEMMA BeginCleanupSound == ASSUME CobInv, BeginCleanup PROVE CobInv'
<1>1. PICK s \in up :
          /\ Begin([Request("cleanup", "compare", Null, Null, s)
                      EXCEPT !.domains = Served(s), !.listed = DOMAIN systems[s]])
          /\ UNCHANGED <<row, device, systems, up, queue, job>>
  BY DEF BeginCleanup
<1>2. PICK r : r = Request("cleanup", "compare", Null, Null, s)
  OBVIOUS
<1>3. PICK ds : ds = Served(s)
  OBVIOUS
<1>4. PICK listed : listed = DOMAIN systems[s]
  OBVIOUS
<1>5. s \in Servers /\ ds \subseteq Domains /\ listed \subseteq Names
  BY <1>3, <1>4 DEF CobInv, ServersOK, Served
<1>6. /\ r \in Requests /\ r.kind = "cleanup" /\ r.step = "compare"
      /\ r.server = s /\ r.names = {}
  BY <1>2, <1>5, EmptyRequest
<1>7. PICK k : k = [r EXCEPT !.domains = ds, !.listed = listed]
  OBVIOUS
<1>8. /\ k \in Requests /\ k.kind = "cleanup" /\ k.step = "compare"
      /\ k.server = s /\ k.domains = ds /\ k.names = {}
  BY <1>5, <1>6, <1>7 DEF Requests
<1>9. RequestSound(k)
  BY <1>3, <1>5, <1>8 DEF RequestSound, Shaped, Held, OldName, Leftover
<1>10. Asked /\ web' = web \union {k}
  BY <1>1, <1>2, <1>3, <1>4, <1>7 DEF Begin
<1>11. events' \in Nat
  BY <1>10 DEF Asked, CobInv, RowsOK
<1>12. QED BY <1>1, <1>9, <1>10, <1>11, GoOnWithRequest

(* After its removal a request goes on with nothing to hold.               *)
LEMMA RemovingSound == ASSUME CobInv, MoveMachine \/ PreDelete PROVE CobInv'
<1>1. PICK r \in web, step \in {"notify", "delete"} :
          /\ step = "notify" => r.step = "move"
          /\ step = "delete" => r.step = "remove"
          /\ Unregister(r) /\ Go(r, [r EXCEPT !.step = step])
          /\ UNCHANGED <<row, device, up, queue, job, events>>
  BY DEF MoveMachine, PreDelete
<1>2. PICK k : k = [r EXCEPT !.step = step]
  OBVIOUS
<1>3. r \in Requests /\ Shaped(r) /\ Leftover(r)
  BY RequestOf
<1>4. /\ k \in Requests /\ k.kind = r.kind /\ k.step = step /\ k.of = r.of
      /\ k.server = r.server /\ k.old = r.old /\ k.new = r.new /\ k.names = r.names
      /\ k.touched = r.touched
  BY <1>2, <1>3 DEF Requests
<1>5. Shaped(k)
  BY <1>1, <1>3, <1>4 DEF Shaped, Requests
<1>6. Held(k) /\ OldName(k)
  BY <1>1, <1>4 DEF Held, OldName
<1>7. Leftover(k)
  BY <1>3, <1>4 DEF Leftover
<1>8. RequestSound(k) /\ web' \subseteq web \union {k}
  BY <1>1, <1>2, <1>4, <1>5, <1>6, <1>7 DEF RequestSound, Go
<1>9. systems' = systems \/ \E s \in up : \E n : systems' = Remove(s, n)
  BY <1>1 DEF Unregister
<1>10. events' \in Nat
  BY <1>1 DEF CobInv, RowsOK
<1>11. QED BY <1>1, <1>8, <1>9, <1>10, GoOnWithRequest

LEMMA FollowSound == ASSUME CobInv, Follow PROVE CobInv'
<1>1. PICK r \in web :
          /\ r.step = "notify" /\ Finish(r)
          /\ LET own == r.old.domain # r.new.domain /\ ServerOf[r.new.domain] = r.of
             IN  Enqueue(IF Noticed(r.of, r.old, r.new) /\ ~own
                         THEN {UpdateCobblerMachine(r.new.domain, r.of)} ELSE {})
          /\ UNCHANGED <<row, device, systems, up, job, events>>
  BY DEF Follow
<1>2. r.of \in Machines /\ r.new \in Rows
  BY <1>1, RequestOf DEF Shaped, Requests
<1>3. UpdateCobblerMachine(r.new.domain, r.of) \in Tasks
  BY <1>2, MachineTask DEF Rows
<1>4. PICK tasks : tasks \subseteq Tasks /\ Enqueue(tasks)
  BY <1>1, <1>3
<1>5. queue \subseteq queue' /\ queue' \subseteq Tasks
  BY <1>4, EnqueueTyped
<1>6. WebSound'
  BY <1>1, SameRows DEF Finish, CobInv, RowsOK
<1>7. ServersOK' /\ device' \in [Devices -> DeviceNames \union {Null}] /\ events' \in Nat
  BY <1>1 DEF CobInv, ServersOK, RowsOK
<1>8. QED BY <1>1, <1>5, <1>6, <1>7, WebStepSound

LEMMA DeleteMachineSound == ASSUME CobInv, DeleteMachine PROVE CobInv'
<1>1. PICK r \in web :
          /\ r.kind = "delete" /\ r.step = "delete" /\ Finish(r)
          /\ row' = [row EXCEPT ![r.of] = Null]
          /\ UNCHANGED <<device, systems, up, queue, job, events>>
  BY DEF DeleteMachine
<1>2. PICK m \in Machines : row' = [row EXCEPT ![m] = Null]
  BY <1>1, RequestOf DEF Shaped
<1>3. RowsOK /\ UniqueNames /\ ServersOK /\ JobsSound
  BY DEF CobInv
<1>4. row'[m] = Null /\ \A x \in Machines \ {m} : row'[x] = row[x]
  BY <1>2, <1>3 DEF RowsOK
<1>5. RowsOK' /\ UniqueNames' /\ ServersOK'
  <2>1. RowsOK'
    BY <1>1, <1>2, <1>3 DEF RowsOK
  <2>2. UniqueNames'
    BY <1>3, <1>4 DEF UniqueNames
  <2>3. QED BY <1>1, <1>3, <2>1, <2>2 DEF ServersOK
<1>6. ASSUME NEW q \in web PROVE RequestSound(q)'
  <2>1. q \in Requests /\ Shaped(q) /\ Held(q) /\ OldName(q) /\ Leftover(q)
    BY RequestOf
  <2>2. \A x \in Machines : \A n : Holds(x, n)' => Holds(x, n) /\ row'[x] = row[x]
    BY <1>4 DEF Holds
  <2>3. Shaped(q)' /\ OldName(q)'
    BY <2>1 DEF Shaped, OldName
  <2>4. Held(q)'
    BY <2>1, <2>2 DEF Held
  <2>5. Leftover(q)'
    BY <2>1, <2>2 DEF Leftover, Below
  <2>6. QED BY <2>1, <2>3, <2>4, <2>5 DEF RequestSound
<1>7. WebSound'
  BY <1>1, <1>6 DEF WebSound, Finish
<1>8. \A x \in Machines, d \in Domains : ActiveIn(x, d)' => ActiveIn(x, d) /\ row'[x] = row[x]
  BY <1>4 DEF ActiveIn
<1>9. ASSUME NEW t \in Threads, NEW j \in job[t]
      PROVE  Placed(j)' /\ NamesSound(j)'
  <2>1. Placed(j) /\ NamesSound(j)
    BY <1>3, JobTyped
  <2>2. j.phase # "begin" => j.domain \in Domains
    BY <2>1 DEF Placed
  <2>3. j.phase = "names" => Listed(j)'
    BY <1>8, <2>1, <2>2 DEF NamesSound, Listed
  <2>4. j.phase = "prune" => Spared(j)'
    BY <1>8, <2>1, <2>2 DEF NamesSound, Spared
  <2>5. QED BY <2>1, <2>3, <2>4 DEF Placed, NamesSound
<1>10. JobsSound'
  BY <1>1, <1>3, <1>9 DEF JobsSound
<1>11. QED BY <1>5, <1>7, <1>10 DEF CobInv

LEMMA DeviceSound == ASSUME CobInv, SaveDevice \/ DeleteDevice PROVE CobInv'
<1>1. PICK v \in Devices, n \in DeviceNames \union {Null} : device' = [device EXCEPT ![v] = n]
  <2>1. CASE SaveDevice
    BY <2>1 DEF SaveDevice
  <2>2. CASE DeleteDevice
    <3>1. PICK r \in web : r.kind = "device" /\ device' = [device EXCEPT ![r.of] = Null]
      BY <2>2 DEF DeleteDevice
    <3>2. r.of \in Devices
      BY <3>1, RequestOf DEF Shaped
    <3>3. QED BY <3>1, <3>2
  <2>3. QED BY <2>1, <2>2
<1>2. device' \in [Devices -> DeviceNames \union {Null}]
  BY <1>1 DEF CobInv, RowsOK
<1>3. UNCHANGED <<row, systems, up, job>> /\ web' \subseteq web
  BY DEF SaveDevice, DeleteDevice, Finish
<1>4. events' \in Nat
  <2>1. events \in Nat /\ (events' = events \/ Asked)
    BY DEF SaveDevice, DeleteDevice, CobInv, RowsOK
  <2>2. QED BY <2>1 DEF Asked
<1>5. queue \subseteq queue' /\ queue' \subseteq Tasks
  <2>1. CASE SaveDevice
    <3>1. PICK x \in Devices : Enqueue({UpdateCobblerRemotePowerDevice(x)})
      BY <2>1 DEF SaveDevice
    <3>2. QED BY <3>1, DeviceTask, EnqueueTyped
  <2>2. CASE DeleteDevice
    BY <2>2 DEF DeleteDevice, CobInv, JobsSound
  <2>3. QED BY <2>1, <2>2
<1>6. WebSound' /\ ServersOK'
  BY <1>3, SameRequest DEF CobInv, WebSound, ServersOK
<1>7. QED BY <1>2, <1>3, <1>4, <1>5, <1>6, WebStepSound

(* What the page finds is no active machine of the server's, but those     *)
(* below another domain of it.                                             *)
LEMMA FoundSound ==
    ASSUME CobInv, NEW r \in web, r.kind = "cleanup", NEW k \in Requests, k.kind = "cleanup",
           k.step \in {"compare", "clean"}, k.server = r.server, k.domains \subseteq r.domains,
           k.touched = r.touched, NEW found, k.names \subseteq r.names \union found,
           \A m \in Machines, n \in found :
              Holds(m, n) /\ row[m].active /\ row[m].domain \in Served(r.server)
                  => \E d \in Served(r.server) : Below(m, d)
    PROVE  RequestSound(k)
<1>1. Shaped(r) /\ Leftover(r)
  BY RequestOf
<1>2. Shaped(k) /\ Held(k) /\ OldName(k)
  BY <1>1 DEF Shaped, Held, OldName
<1>3. Leftover(k)
  BY <1>1 DEF Leftover
<1>4. QED BY <1>2, <1>3 DEF RequestSound

LEMMA CollectDiffSound == ASSUME CobInv, CollectDiff PROVE CobInv'
<1>1. PICK r \in web :
          /\ r.step = "compare"
          /\ \/ \E d \in r.domains :
                   Go(r, [r EXCEPT !.domains = @ \ {d},
                                   !.names = @ \union Extra(d, r.listed)])
             \/ Go(r, [r EXCEPT !.step = "clean", !.listed = {},
                               !.names = @ \union Unscoped(r)])
          /\ UNCHANGED <<row, device, systems, up, queue, job, events>>
  BY DEF CollectDiff
<1>2. /\ r \in Requests /\ r.kind = "cleanup" /\ r.listed \subseteq Names
      /\ r.domains \subseteq Served(r.server) /\ r.names \subseteq Names
  BY <1>1, RequestOf DEF Shaped, Requests
<1>3. events' \in Nat
  BY <1>1 DEF CobInv, RowsOK
<1>4. ASSUME NEW d \in r.domains,
             Go(r, [r EXCEPT !.domains = @ \ {d}, !.names = @ \union Extra(d, r.listed)])
      PROVE  CobInv'
  <2>1. PICK found : found = Extra(d, r.listed)
    OBVIOUS
  <2>2. PICK ds : ds = r.domains \ {d}
    OBVIOUS
  <2>3. PICK names : names = r.names \union found
    OBVIOUS
  <2>4. PICK k : k = [r EXCEPT !.domains = ds, !.names = names]
    OBVIOUS
  <2>5. names \subseteq Names /\ ds \subseteq Domains
    BY <1>2, <2>1, <2>2, <2>3 DEF Extra, Requests
  <2>6. /\ k \in Requests /\ k.kind = "cleanup" /\ k.step = "compare" /\ k.server = r.server
        /\ k.domains = ds /\ k.names = names /\ k.touched = r.touched
    BY <1>1, <1>2, <2>4, <2>5 DEF Requests
  <2>7. ASSUME NEW m \in Machines, NEW n \in found, Holds(m, n), row[m].active
        PROVE  Below(m, d)
    <3>1. <<d, n[2]>> \in Suffixes /\ m \notin Active(d)
      BY <2>1, <2>7 DEF Extra, Within, Holds
    <3>2. row[m].domain # d
      BY <2>7, <3>1 DEF Active, Holds
    <3>3. n[2] = row[m].domain
      BY <2>7 DEF Holds, Name
    <3>4. QED BY <3>1, <3>2, <3>3 DEF Below
  <2>8. RequestSound(k)
    BY <1>2, <2>2, <2>3, <2>6, <2>7, FoundSound
  <2>9. web' \subseteq web \union {k}
    BY <1>4, <2>1, <2>2, <2>3, <2>4 DEF Go
  <2>10. QED BY <1>1, <1>3, <2>8, <2>9, GoOnWithRequest
<1>5. CASE Go(r, [r EXCEPT !.step = "clean", !.listed = {}, !.names = @ \union Unscoped(r)])
  <2>1. PICK found : found = Unscoped(r)
    OBVIOUS
  <2>2. PICK none : none = {}
    OBVIOUS
  <2>3. PICK names : names = r.names \union found
    OBVIOUS
  <2>4. PICK k : k = [r EXCEPT !.step = "clean", !.listed = none, !.names = names]
    OBVIOUS
  <2>5. names \subseteq Names
    BY <1>2, <2>1, <2>3 DEF Unscoped
  <2>6. /\ k \in Requests /\ k.kind = "cleanup" /\ k.step = "clean" /\ k.server = r.server
        /\ k.domains = r.domains /\ k.names = names /\ k.touched = r.touched
    BY <1>2, <2>2, <2>4, <2>5 DEF Requests
  <2>7. ASSUME NEW m \in Machines, NEW n \in found, Holds(m, n),
               row[m].domain \in Served(r.server)
        PROVE  FALSE
    <3>1. row[m].domain \in Domains /\ n[2] = row[m].domain
      BY <2>7 DEF Holds, Name, Served
    <3>2. Within(row[m].domain, n)
      BY <3>1, DomainsAssumption DEF Within
    <3>3. QED BY <2>1, <2>7, <3>2 DEF Unscoped
  <2>8. RequestSound(k)
    BY <1>2, <2>3, <2>6, <2>7, FoundSound
  <2>9. web' \subseteq web \union {k}
    BY <1>5, <2>1, <2>2, <2>3, <2>4 DEF Go
  <2>10. QED BY <1>1, <1>3, <2>8, <2>9, GoOnWithRequest
<1>6. QED BY <1>1, <1>4, <1>5

LEMMA CobblerCleanupSound == ASSUME CobInv, CobblerCleanup PROVE CobInv'
<1>1. PICK r \in web :
          /\ r.step = "clean"
          /\ \/ /\ r.server \in up
                /\ \E n \in r.names : /\ systems' = Remove(r.server, n)
                                       /\ Go(r, [r EXCEPT !.names = @ \ {n}])
             \/ Finish(r) /\ systems' = systems
          /\ UNCHANGED <<row, device, up, queue, job, events>>
  BY DEF CobblerCleanup
<1>2. r \in Requests /\ r.kind = "cleanup" /\ r.names \subseteq Names /\ RequestSound(r)
  BY <1>1, RequestOf DEF Shaped, Requests, RequestSound
<1>3. events' \in Nat
  BY <1>1 DEF CobInv, RowsOK
<1>4. ASSUME r.server \in up, NEW n \in r.names, systems' = Remove(r.server, n),
             Go(r, [r EXCEPT !.names = @ \ {n}])
      PROVE  CobInv'
  <2>1. PICK names : names = r.names \ {n}
    OBVIOUS
  <2>2. PICK k : k = [r EXCEPT !.names = names]
    OBVIOUS
  <2>3. /\ k \in Requests /\ k.kind = "cleanup" /\ k.step = "clean" /\ k.server = r.server
        /\ k.domains = r.domains /\ k.names = names /\ k.touched = r.touched
    BY <1>1, <1>2, <2>1, <2>2 DEF Requests
  <2>4. PICK found : found = {}
    OBVIOUS
  <2>5. RequestSound(k)
    BY <1>2, <2>1, <2>3, <2>4, FoundSound
  <2>6. web' \subseteq web \union {k}
    BY <1>4, <2>1, <2>2 DEF Go
  <2>7. QED BY <1>1, <1>3, <1>4, <2>5, <2>6, GoOnWithRequest
<1>5. CASE Finish(r) /\ systems' = systems
  BY <1>1, <1>2, <1>3, <1>5, GoOnWithRequest DEF Finish
<1>6. QED BY <1>1, <1>4, <1>5

LEMMA AbandonSound == ASSUME CobInv, Abandon PROVE CobInv'
<1>1. PICK r \in web :
          Finish(r) /\ UNCHANGED <<row, device, systems, up, queue, job, events>>
  BY DEF Abandon
<1>2. RequestSound(r) /\ events' \in Nat
  BY <1>1 DEF CobInv, WebSound, RowsOK
<1>3. QED BY <1>1, <1>2, GoOnWithRequest DEF Finish

(* Requests for tasks.                                                     *)
LEMMA AskSound ==
    ASSUME CobInv, NEW tasks, tasks \subseteq Tasks, Enqueue(tasks), events' \in Nat,
           UNCHANGED <<row, device, systems, up, job, web>>
    PROVE  CobInv'
<1>1. queue \subseteq queue' /\ queue' \subseteq Tasks
  BY EnqueueTyped
<1>2. ServersOK' /\ WebSound' /\ device' \in [Devices -> DeviceNames \union {Null}]
  BY SameRows DEF CobInv, ServersOK, RowsOK
<1>3. QED BY <1>1, <1>2, WebStepSound

LEMMA RegenerateSound ==
    ASSUME CobInv, RegenerateAll \/ RegenerateDomain \/ RegenerateMachine \/ RegenerateDevice
    PROVE  CobInv'
<1>1. PICK tasks :
          /\ \/ tasks = {RegenerateCobbler(Domains)}
             \/ \E s \in Servers : tasks = {RegenerateCobbler({d}) : d \in Served(s)}
             \/ \E m \in Machines :
                   row[m] # Null /\ tasks = {UpdateCobblerMachine(row[m].domain, m)}
             \/ \E v \in Devices : tasks = {UpdateCobblerRemotePowerDevice(v)}
          /\ Enqueue(tasks)
          /\ UNCHANGED <<row, device, systems, up, job, web>>
          /\ events' = events \/ Asked
  BY DEF RegenerateAll, RegenerateDomain, RegenerateMachine, RegenerateDevice, Ask
<1>2. \A d \in Domains : RegenerateCobbler({d}) \in Tasks
  BY DomainsTask
<1>3. RegenerateCobbler(Domains) \in Tasks
  BY DomainsTask
<1>4. \A m \in Machines : row[m] # Null => UpdateCobblerMachine(row[m].domain, m) \in Tasks
  BY MachineTask, RowFields DEF CobInv
<1>5. tasks \subseteq Tasks
  <2>1. CASE tasks = {RegenerateCobbler(Domains)}
    BY <1>3, <2>1
  <2>2. ASSUME NEW s \in Servers, tasks = {RegenerateCobbler({d}) : d \in Served(s)}
        PROVE  tasks \subseteq Tasks
    BY <1>2, <2>2 DEF Served
  <2>3. ASSUME NEW m \in Machines, row[m] # Null,
               tasks = {UpdateCobblerMachine(row[m].domain, m)}
        PROVE  tasks \subseteq Tasks
    BY <1>4, <2>3
  <2>4. ASSUME NEW v \in Devices, tasks = {UpdateCobblerRemotePowerDevice(v)}
        PROVE  tasks \subseteq Tasks
    BY <2>4, DeviceTask
  <2>5. QED BY <1>1, <2>1, <2>2, <2>3, <2>4
<1>6. events' \in Nat
  <2>1. events \in Nat
    BY DEF CobInv, RowsOK
  <2>2. QED BY <1>1, <2>1 DEF Asked
<1>7. QED BY <1>1, <1>5, <1>6, AskSound

(* Steps that change no row, job, task, request or system.                 *)
LEMMA OthersSound ==
    ASSUME CobInv, [Next]_vars, EditParts \/ ServerStops \/ ServerStarts \/ UNCHANGED vars
    PROVE  CobInv'
<1>1. UNCHANGED <<row, device, systems, queue, job, web>> /\ up' \subseteq up \union Servers
  BY DEF EditParts, ServerStops, ServerStarts, vars
<1>2. ServersOK' /\ WebSound' /\ device' \in [Devices -> DeviceNames \union {Null}]
  BY <1>1, EventsTyped, SameRows DEF CobInv, ServersOK, RowsOK
<1>3. queue \subseteq queue' /\ queue' \subseteq Tasks
  BY <1>1 DEF CobInv, JobsSound
<1>4. QED BY <1>1, <1>2, <1>3, EventsTyped, WebStepSound
-----------------------------------------------------------------------------
LEMMA InitSound == Init => CobInv
<1> SUFFICES ASSUME Init PROVE CobInv
  OBVIOUS
<1>1. RowsOK /\ UniqueNames
  BY RowsAssumption DEF Init, RowsOK, UniqueNames
<1>2. ServersOK
  <2>1. systems = [s \in Servers |-> [n \in {} |-> Null]] /\ up = Servers
    BY DEF Init
  <2>2. \A s \in Servers : DOMAIN systems[s] = {}
    BY <2>1
  <2>3. QED BY <2>1, <2>2 DEF ServersOK
<1>3. WebSound
  BY DEF Init, WebSound
<1>4. JobsSound
  <2>1. job = [t \in Threads |-> {}] /\ queue = {}
    BY DEF Init
  <2>2. QED BY <2>1 DEF JobsSound
<1>5. QED BY <1>1, <1>2, <1>3, <1>4 DEF CobInv

LEMMA ContinueSound == ASSUME CobInv, Continue PROVE CobInv'
  BY SaveMachineSound, RemovingSound, FollowSound, DeleteMachineSound, DeviceSound,
     CollectDiffSound, CobblerCleanupSound DEF Continue

LEMMA NextSound == CobInv /\ [Next]_vars => CobInv'
<1> SUFFICES ASSUME CobInv, [Next]_vars PROVE CobInv'
  OBVIOUS
<1>1. CASE WebStep
  BY <1>1, AddMachineSound, BeginEditSound, BeginDeleteSound, BeginCleanupSound, DeviceSound,
     ContinueSound, AbandonSound, RegenerateSound, OthersSound DEF WebStep
<1>2. CASE RegenerateAll
  BY <1>2, RegenerateSound
<1>3. CASE ServerStops \/ ServerStarts \/ UNCHANGED vars
  BY <1>3, OthersSound
<1>4. ASSUME NEW t \in Threads, Execute(t) PROVE CobInv'
  BY <1>4, ExecuteSound
<1>5. QED BY <1>1, <1>2, <1>3, <1>4 DEF Next

(* Rows, systems, tasks and jobs keep their shape, and what jobs and       *)
(* requests hold keeps its relation to the rows, whatever interleaves.     *)
THEOREM CobblerInvariance == Spec => []CobInv
<1>1. QED BY InitSound, NextSound, PTL DEF Spec

(* Names are of the known kinds, a task is executed by one thread at a     *)
(* time and keeps its row until it ends (TaskManager.add and the thread's  *)
(* end), and who talks to a server knows which.                            *)
THEOREM CobblerTypes == Spec => []CobblerTypeOK
<1>1. ASSUME CobInv PROVE CobblerTypeOK
  <2>1. \A m \in Machines : row[m] # Null => Name(row[m]) \in Names /\ row[m].active \in BOOLEAN
    BY <1>1, RowFields DEF CobInv
  <2>2. \A s \in Servers : DOMAIN systems[s] \subseteq Names
    BY <1>1 DEF CobInv, ServersOK
  <2>3. ASSUME NEW t \in Threads, NEW x \in Threads, NEW j \in job[t], NEW k \in job[x]
        PROVE  /\ j.task \in queue
               /\ t # x => j.task # k.task
               /\ j.phase # "begin" => ServerOf[j.domain] \in Servers
    BY <1>1, <2>3 DEF CobInv, JobsSound, Placed
  <2>4. QED BY <2>1, <2>2, <2>3 DEF CobblerTypeOK
<1>2. CobInv => CobblerTypeOK
  BY <1>1
<1>3. QED BY <1>2, CobblerInvariance, PTL
-----------------------------------------------------------------------------
LEMMA MachineOfServer ==
    ASSUME CobInv, NEW m \in Machines, row[m] # Null, Lost(m)
    PROVE  /\ row[m].domain \in Domains /\ ServerOf[row[m].domain] \in Servers
           /\ Name(row[m]) \in Names /\ Name(row[m])[2] = row[m].domain
  BY RowFields, DomainsAssumption DEF Lost, CobInv

(* What is lost is what was removed, where it was removed.                 *)
LEMMA LostIsRemoved ==
    ASSUME CobInv, NEW m \in Machines, row[m] # Null, Lost(m),
           NEW s \in Servers, NEW n, systems' = Remove(s, n)
    PROVE  /\ ServerOf[row[m].domain] = s /\ Name(row[m]) = n
           /\ row[m].domain \in Served(s) /\ Holds(m, n)
  BY MachineOfServer, RemovedNames DEF Lost, CobInv, ServersOK, Served, Holds

LEMMA NothingLost ==
    ASSUME CobInv, NEW m \in Machines, row[m] # Null,
           \/ systems' = systems
           \/ \E s \in Servers, n \in Names : \E c : systems' = Add(s, n, c)
    PROVE  ~Lost(m)
<1>1. CASE systems' = systems
  BY <1>1 DEF Lost
<1>2. ASSUME NEW s \in Servers, NEW n, NEW c, systems' = Add(s, n, c), Lost(m)
      PROVE  FALSE
  <2>1. s \in DOMAIN systems /\ ServerOf[row[m].domain] \in DOMAIN systems
    BY <1>2, MachineOfServer DEF CobInv, ServersOK
  <2>2. DOMAIN systems[ServerOf[row[m].domain]] \subseteq DOMAIN systems'[ServerOf[row[m].domain]]
    BY <1>2, <2>1, AddedNames
  <2>3. QED BY <1>2, <2>2 DEF Lost
<1>3. QED BY <1>1, <1>2

Excused(m) ==
    \/ \E r \in web \ web' : ByRequest(m, r)
    \/ \E t \in Threads : \E j \in job[t] \ job'[t] : ByJob(m, j)

LEMMA PruneKeeps ==
    ASSUME CobInv, NEW t \in Threads, Execute(t),
           NEW m \in Machines, row[m] # Null, row[m].active, Lost(m)
    PROVE  Excused(m)
<1>1. PICK j \in job[t] \ job'[t] :
          /\ j.phase = "prune" /\ ServerOf[j.domain] \in Servers
          /\ \E n \in j.names : systems' = Remove(ServerOf[j.domain], n)
  BY ExecuteServers, NothingLost
<1>2. PICK n \in j.names : systems' = Remove(ServerOf[j.domain], n)
  BY <1>1
<1>3. ServerOf[row[m].domain] = ServerOf[j.domain] /\ Name(row[m]) = n
  BY <1>1, <1>2, LostIsRemoved
<1>4. Spared(j)
  BY <1>1, JobTyped DEF CobInv, NamesSound
<1>5. <<j.domain, row[m].domain>> \in Suffixes
  BY <1>3, <1>4, MachineOfServer DEF Spared, Within
<1>6. CASE row[m].domain = j.domain
  BY <1>1, <1>3, <1>4, <1>6 DEF Spared, ActiveIn, Excused, ByJob
<1>7. CASE row[m].domain # j.domain
  BY <1>1, <1>5, <1>7 DEF Below, Excused, ByJob
<1>8. QED BY <1>6, <1>7

(* A machine moved, or deleted: its name is nobody else's, but of those    *)
(* saved since.                                                            *)
LEMMA RemovingKeeps ==
    ASSUME CobInv, MoveMachine \/ PreDelete, NEW m \in Machines, row[m] # Null, Lost(m)
    PROVE  Excused(m)
<1>1. PICK r \in web, step \in {"notify", "delete"} :
          /\ r.step \in {"move", "remove"}
          /\ Unregister(r) /\ Go(r, [r EXCEPT !.step = step])
  BY DEF MoveMachine, PreDelete
<1>2. r \in Requests /\ Shaped(r) /\ Held(r)
  BY RequestOf
<1>3. r.server \in Servers /\ systems' = Remove(r.server, r.name)
  BY <1>1, NothingLost DEF Unregister, CobInv, ServersOK
<1>4. Holds(m, r.name)
  BY <1>3, LostIsRemoved
<1>5. r \notin web'
  <2>1. PICK k : k = [r EXCEPT !.step = step]
    OBVIOUS
  <2>2. k # r
    BY <1>1, <1>2, <2>1 DEF Requests
  <2>3. QED BY <1>1, <2>1, <2>2 DEF Go
<1>6. ByRequest(m, r)
  <2>1. CASE r.step = "move"
    BY <1>2, <1>4, <2>1 DEF Held, ByRequest
  <2>2. CASE r.step = "remove" /\ r.kind # "device"
    BY <1>2, <1>4, <2>2 DEF Held, ByRequest, Shaped, Requests
  <2>3. CASE r.kind = "device"
    BY <1>4, <2>3 DEF ByRequest, Holds
  <2>4. QED BY <1>1, <2>1, <2>2, <2>3
<1>7. QED BY <1>5, <1>6 DEF Excused

LEMMA CleanupKeeps ==
    ASSUME CobInv, CobblerCleanup, NEW m \in Machines, row[m] # Null, row[m].active, Lost(m)
    PROVE  Excused(m)
<1>1. PICK r \in web :
          /\ r.step = "clean" /\ r.server \in up
          /\ \E n \in r.names : /\ systems' = Remove(r.server, n)
                                 /\ Go(r, [r EXCEPT !.names = @ \ {n}])
  BY NothingLost DEF CobblerCleanup
<1>2. PICK n \in r.names : systems' = Remove(r.server, n) /\ Go(r, [r EXCEPT !.names = @ \ {n}])
  BY <1>1
<1>3. r \in Requests /\ r.kind = "cleanup" /\ r.server \in Servers /\ Leftover(r)
  BY <1>1, RequestOf DEF Shaped, Requests
<1>4. Holds(m, n) /\ row[m].domain \in Served(r.server)
  BY <1>2, <1>3, LostIsRemoved
<1>5. ByRequest(m, r)
  BY <1>3, <1>4 DEF Leftover, ByRequest
<1>6. r \notin web'
  <2>1. PICK k : k = [r EXCEPT !.names = @ \ {n}]
    OBVIOUS
  <2>2. n \notin k.names
    BY <1>3, <2>1 DEF Requests
  <2>3. QED BY <1>2, <2>1, <2>2 DEF Go
<1>7. QED BY <1>5, <1>6 DEF Excused

LEMMA NextKeeps ==
    ASSUME CobInv, [Next]_vars, NEW m \in Machines, row[m] # Null, row[m].active, Lost(m)
    PROVE  Excused(m)
<1>1. CASE MoveMachine \/ PreDelete
  BY <1>1, RemovingKeeps
<1>2. CASE CobblerCleanup
  BY <1>2, CleanupKeeps
<1>3. ASSUME NEW t \in Threads, Execute(t) PROVE Excused(m)
  BY <1>3, PruneKeeps
<1>4. CASE systems' = systems
  BY <1>4, NothingLost
<1>5. QED
  BY <1>1, <1>2, <1>3, <1>4
     DEF Next, vars, WebStep, AddMachine, Write, BeginEdit, EditParts, BeginDelete,
         BeginDeleteDevice, SaveDevice, BeginCleanup, Continue, SaveMachine, Follow,
         DeleteMachine, DeleteDevice, CollectDiff, Abandon, RegenerateAll, RegenerateDomain,
         RegenerateMachine, RegenerateDevice, Ask, ServerStops, ServerStarts

(* Whatever overlaps, the system of an active machine is taken off the     *)
(* server of its domain only by who deletes that machine (machine_pre_     *)
(* delete), by who read before somebody saved the machine (Machine.save,   *)
(* prune_stale, cobbler_cleanup), with a device of the same name, or with  *)
(* what is stale in a domain above its own.                                *)
THEOREM MachinesStay == Spec => MachinesKept
<1>1. CobInv /\ [Next]_vars =>
      [\A m \in Machines : row[m] # Null /\ row[m].active /\ Lost(m) =>
          \/ \E r \in web \ web' : ByRequest(m, r)
          \/ \E t \in Threads : \E j \in job[t] \ job'[t] : ByJob(m, j)]_vars
  BY NextKeeps DEF Excused
<1>2. QED BY <1>1, CobblerInvariance, PTL DEF Spec, MachinesKept
=============================================================================
