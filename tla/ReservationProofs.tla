-------------------------- MODULE ReservationProofs -------------------------
(***************************************************************************)
(* The rows of a machine stay whole, for any number of users, workers and  *)
(* task threads.  Every step but two writes a copy somebody read, so the   *)
(* invariant says of every copy in hand what it says of the row, and what  *)
(* it says does not become false as days pass, stamps are given out and    *)
(* superusers make reservations permanent.                                 *)
(*                                                                         *)
(* What holds only as long as requests do not overlap is proved under that *)
(* hypothesis, and not of one process: OneAtATime, for any number of them. *)
(***************************************************************************)
EXTENDS Reservation, TLAPS

Sound(m) == Whole(m) /\ Period(m) /\ Granted(m)

(* What was true of a copy stays true of it.                               *)
LEMMA SoundLater ==
    ASSUME ResTypeOK, stamps' \in Nat, day' \in Nat,
           stamps <= stamps', day <= day', blessed \subseteq blessed',
           NEW m \in Rows, Sound(m)
    PROVE  Sound(m)'
<1>1. m.until \in Nat /\ m.at \in Nat /\ m.permanent \in BOOLEAN
  BY DEF Rows
<1>2. Whole(m)'
  <2>1. m.by = Nobody => m = Free
    BY DEF Sound, Whole
  <2>2. m.by # Nobody => m.at \in 1..stamps' /\ (m.permanent <=> m.until = 0)
    BY <1>1 DEF Sound, Whole, ResTypeOK
  <2>3. QED BY <2>1, <2>2 DEF Whole, Free
<1>3. Period(m)'
  BY <1>1, PeriodAssumption DEF Sound, Period, ResTypeOK
<1>4. Granted(m)'
  BY DEF Sound, Granted
<1>5. QED BY <1>2, <1>3, <1>4 DEF Sound

(* The empty reservation is sound, and a row.                              *)
LEMMA FreeSound == ASSUME ResTypeOK PROVE Free \in Rows /\ Sound(Free)
  BY PeriodAssumption DEF Sound, Whole, Period, Granted, Free, Rows, ResTypeOK

(* A row from its columns.                                                 *)
LEMMA RowOfColumns ==
    ASSUME NEW b \in Users \union {Nobody}, NEW a \in Nat, NEW n \in Nat, NEW x \in BOOLEAN
    PROVE  /\ [by |-> b, at |-> a, until |-> n, permanent |-> x] \in Rows
           /\ [by |-> b, at |-> a, until |-> n, permanent |-> x].permanent = x
  BY DEF Rows

(* The row Machine.reserve is about to write is sound, with the stamp and  *)
(* the permission it was given.                                            *)
LEMMA ReservedSound ==
    ASSUME ResTypeOK, NEW m \in Rows, Sound(m),
           NEW u \in Users, NEW for \in Users, NEW until \in Nat,
           until <= day + MaxPeriod, until = 0 => u \in Superusers,
           NEW r, r = Reserved(m, u, for, until),
           day' = day,
           stamps' = IF Kept(m, u, for) THEN stamps ELSE stamps + 1,
           blessed' = IF until = 0 /\ u \in Superusers
                      THEN blessed \union {r.at} ELSE blessed
    PROVE  /\ r \in Rows
           /\ Sound(r)'
           /\ m.by \notin {Nobody, u, for} => m.at \in 1..stamps'
<1> DEFINE stamp == IF Kept(m, u, for) THEN m.at ELSE stamps + 1
<1>1. m.at \in Nat /\ stamps \in Nat /\ stamps' \in Nat /\ stamps <= stamps'
  BY DEF Rows, ResTypeOK
<1>2. m.by # Nobody => m.at \in 1..stamps
  BY DEF Sound, Whole
<1>3. Kept(m, u, for) => m.at \in 1..stamps
  BY <1>2 DEF Kept, Sound, Whole, Free
<1>4. stamp \in 1..stamps'
  <2>1. CASE Kept(m, u, for)
    BY <2>1, <1>1, <1>3
  <2>2. CASE ~Kept(m, u, for)
    BY <2>2, <1>1
  <2>3. QED BY <2>1, <2>2
<1> DEFINE perm == (until = 0)
<1>5. r = [by |-> for, at |-> stamp, until |-> until, permanent |-> perm]
  BY DEF Reserved
<1>6. r \in Rows /\ r.permanent = perm
  <2>1. stamp \in Nat
    BY <1>1, <1>4
  <2>2. perm \in BOOLEAN
    OBVIOUS
  <2>3. for \in Users \union {Nobody}
    OBVIOUS
  <2> HIDE DEF stamp, perm
  <2>4. QED BY <2>1, <2>2, <2>3, <1>5, RowOfColumns
<1>7. r.by = for /\ r.at = stamp /\ r.until = until
  <2> HIDE DEF stamp, perm
  <2>1. QED BY <1>5
<1> HIDE DEF stamp
<1>8. Whole(r)'
  <2>1. r.by # Nobody /\ r.at \in 1..stamps'
    BY <1>4, <1>7, UsersAssumption
  <2>2. r.permanent <=> r.until = 0
    BY <1>6, <1>7, Zenon
  <2>3. QED BY <2>1, <2>2 DEF Whole
<1>9. Period(r)'
  BY <1>7 DEF Period
<1>10. Granted(r)'
  BY <1>6, <1>7 DEF Granted
<1>11. m.by \notin {Nobody, u, for} => m.at \in 1..stamps'
  BY <1>1, <1>2
<1>12. QED BY <1>6, <1>8, <1>9, <1>10, <1>11 DEF Sound
-----------------------------------------------------------------------------
(* What the invariant says of a job.                                       *)
Writes(j) == j.step \in {"takeAway", "record", "release"}

JobSound(j) == Sound(j.copy) /\ (Writes(j) => j.entry \in 1..stamps)

Grows ==
    /\ stamps' \in Nat /\ stamps <= stamps'
    /\ day' \in Nat \ {0} /\ day <= day'
    /\ blessed' \in SUBSET Nat /\ blessed \subseteq blessed'

LEMMA RowsAndJobs ==
    ASSUME ResInv
    PROVE  /\ \A m \in machine : m \in Rows /\ Sound(m)
           /\ \A p \in Processes : \A j \in job[p] : j \in Jobs /\ JobSound(j)
<1>1. \A m \in machine : m \in Rows /\ Sound(m)
  BY DEF ResInv, ResTypeOK, RowWhole, PeriodRespected, PermanentGranted, Sound
<1>2. ASSUME NEW p \in Processes, NEW j \in job[p] PROVE j \in Jobs /\ JobSound(j)
  BY <1>2 DEF ResInv, ResTypeOK, CopiesSound, JobSound, Writes, Sound
<1>3. QED BY <1>1, <1>2

(* A step that changes at most the job of one process keeps the invariant  *)
(* if what it writes is sound.                                             *)
LEMMA StepSound ==
    ASSUME ResInv, Grows,
           \A m \in machine' : m \in Rows /\ Sound(m)',
           history' \subseteq history \union 1..stamps',
           NEW p \in Processes, NEW J,
           \A j \in J : j \in Jobs /\ JobSound(j)',
           job' = [job EXCEPT ![p] = J]
    PROVE  /\ machine' \in SUBSET Rows
           /\ history' \in SUBSET Nat
           /\ job' \in [Processes -> SUBSET Jobs]
           /\ RowWhole' /\ PeriodRespected' /\ PermanentGranted'
           /\ HistoryDated' /\ CopiesSound'
<1>1. machine' \in SUBSET Rows
  OBVIOUS
<1>2. RowWhole' /\ PeriodRespected' /\ PermanentGranted'
  BY DEF RowWhole, PeriodRespected, PermanentGranted, Sound
<1>3. history' \subseteq 1..stamps'
  <2>1. stamps \in Nat /\ stamps' \in Nat /\ stamps <= stamps' /\ history \subseteq 1..stamps
    BY DEF ResInv, ResTypeOK, HistoryDated, Grows
  <2>2. 1..stamps \subseteq 1..stamps'
    BY <2>1
  <2>3. QED BY <2>1, <2>2
<1>4. HistoryDated' /\ history' \in SUBSET Nat
  <2>1. stamps' \in Nat
    BY DEF Grows
  <2>2. QED BY <2>1, <1>3 DEF HistoryDated
<1>5. job \in [Processes -> SUBSET Jobs]
  BY DEF ResInv, ResTypeOK
<1>6. job' \in [Processes -> SUBSET Jobs]
  BY <1>5
<1>7. ASSUME NEW q \in Processes, NEW j \in job'[q] PROVE JobSound(j)'
  <2>1. CASE q = p
    BY <2>1, <1>5, <1>7
  <2>2. CASE q # p
    <3>1. j \in job[q]
      BY <2>2, <1>5, <1>7
    <3>2. j \in Jobs /\ JobSound(j)
      BY <3>1, RowsAndJobs
    <3>3. j.copy \in Rows
      BY <3>2 DEF Jobs
    <3>4. Sound(j.copy)'
      <4>1. Sound(j.copy) /\ ResTypeOK
        BY <3>2 DEF JobSound, ResInv
      <4>2. /\ stamps' \in Nat /\ day' \in Nat /\ stamps <= stamps' /\ day <= day'
            /\ blessed \subseteq blessed'
        BY DEF Grows
      <4>3. QED BY <4>1, <4>2, <3>3, SoundLater
    <3>5. Writes(j) => j.entry \in 1..stamps'
      <4>1. stamps \in Nat /\ stamps' \in Nat /\ stamps <= stamps'
        BY DEF ResInv, ResTypeOK, Grows
      <4>2. Writes(j) => j.entry \in 1..stamps
        BY <3>2 DEF JobSound
      <4>3. QED BY <4>1, <4>2
    <3>6. QED BY <3>4, <3>5 DEF JobSound, Writes
  <2>3. QED BY <2>1, <2>2
<1>8. CopiesSound'
  BY <1>7 DEF CopiesSound, JobSound, Writes, Sound
<1>9. QED BY <1>1, <1>2, <1>4, <1>6, <1>8
-----------------------------------------------------------------------------
(* The steps, by what they may change.                                     *)
LEMMA SameClock ==
    ASSUME ResInv, stamps' = stamps, day' = day, blessed' = blessed
    PROVE  /\ Grows
           /\ \A m : Sound(m) => Sound(m)'
           /\ \A j : JobSound(j) => JobSound(j)'
<1>1. Grows
  BY DEF ResInv, ResTypeOK, Grows
<1>2. ASSUME NEW m, Sound(m) PROVE Sound(m)'
  BY <1>2 DEF Sound, Whole, Period, Granted
<1>3. ASSUME NEW j, JobSound(j) PROVE JobSound(j)'
  BY <1>2, <1>3 DEF JobSound, Writes
<1>4. QED BY <1>1, <1>2, <1>3

(* Machine.reserve is decided: by request or for a new VM.                 *)
LEMMA DecideSound ==
    ASSUME ResInv, NEW p \in Processes, NEW m \in Rows, Sound(m),
           NEW u \in Users, NEW for \in Users, NEW until \in Nat,
           until <= day + MaxPeriod, until = 0 => u \in Superusers,
           Decide(p, m, u, for, until),
           \/ machine' = machine
           \/ machine' = {Free} /\ machine = {},
           UNCHANGED <<history, queued, day, imported, kind, motd, restarts>>
    PROVE  ResInv'
<1>0. PICK r : r = Reserved(m, u, for, until)
  OBVIOUS
<1>a. PICK j : j = [step |-> IF m.by \in {Nobody, u, for} THEN "reserve" ELSE "takeAway",
                    actor |-> u, copy |-> r, entry |-> m.at, tasks |-> {"motd"}]
  OBVIOUS
<1>1. /\ job' = [job EXCEPT ![p] = {j}]
      /\ stamps' = IF Kept(m, u, for) THEN stamps ELSE stamps + 1
      /\ blessed' = IF until = 0 /\ u \in Superusers
                    THEN blessed \union {r.at} ELSE blessed
      /\ day' = day
  BY <1>0, <1>a DEF Decide, Take
<1>2. ResTypeOK
  BY DEF ResInv
<1>3. /\ r \in Rows
      /\ Sound(r)'
      /\ m.by \notin {Nobody, u, for} => m.at \in 1..stamps'
  BY <1>0, <1>1, <1>2, ReservedSound
<1>4. Grows
  <2>1. r.at \in Nat
    BY <1>3 DEF Rows
  <2>2. stamps' \in Nat /\ stamps <= stamps' /\ day' \in Nat \ {0} /\ day <= day'
    BY <1>1, <1>2 DEF ResTypeOK
  <2>3. blessed' \in SUBSET Nat /\ blessed \subseteq blessed'
    BY <1>1, <1>2, <2>1 DEF ResTypeOK
  <2>4. QED BY <2>2, <2>3 DEF Grows
<1>5. j \in Jobs
  <2>1. m.at \in Nat
    BY DEF Rows
  <2>2. QED BY <1>3, <1>a, <2>1 DEF Jobs, Steps
<1>6. JobSound(j)'
  <2>1. j.copy = r /\ j.entry = m.at
        /\ j.step = IF m.by \in {Nobody, u, for} THEN "reserve" ELSE "takeAway"
    BY <1>a
  <2>2. Sound(j.copy)'
    BY <1>3, <2>1
  <2>3. Writes(j) => j.entry \in 1..stamps'
    BY <1>3, <2>1 DEF Writes
  <2>4. QED BY <2>2, <2>3 DEF JobSound, Writes
<1>7. \A n \in machine' : n \in Rows /\ Sound(n)'
  <2>1. ASSUME NEW n \in machine' PROVE n \in Rows /\ Sound(n)
    <3>1. CASE machine' = machine
      BY <2>1, <3>1, RowsAndJobs
    <3>2. CASE machine' = {Free}
      BY <2>1, <3>2, <1>2, FreeSound
    <3>3. QED BY <3>1, <3>2
  <2>2. /\ stamps' \in Nat /\ day' \in Nat /\ stamps <= stamps' /\ day <= day'
        /\ blessed \subseteq blessed'
    BY <1>4 DEF Grows
  <2>3. QED BY <1>2, <2>1, <2>2, SoundLater
<1>8. /\ machine' \in SUBSET Rows
      /\ history' \in SUBSET Nat
      /\ job' \in [Processes -> SUBSET Jobs]
      /\ RowWhole' /\ PeriodRespected' /\ PermanentGranted'
      /\ HistoryDated' /\ CopiesSound'
  <2>1. \A x \in {j} : x \in Jobs /\ JobSound(x)'
    BY <1>5, <1>6
  <2>2. history' \subseteq history \union 1..stamps'
    OBVIOUS
  <2>3. QED BY <1>1, <1>4, <1>7, <2>1, <2>2, StepSound
<1>9. ResTypeOK'
  <2>1. \A a, b \in machine' : a = b
    BY <1>2 DEF ResTypeOK
  <2>2. QED BY <1>2, <1>4, <1>8, <2>1 DEF ResTypeOK, Grows
<1>10. QED BY <1>8, <1>9 DEF ResInv

(* Any other step of one process: no stamp, day or permission changes.     *)
LEMMA PlainStep ==
    ASSUME ResInv, NEW p \in Processes, NEW J,
           \A j \in J : j \in Jobs /\ JobSound(j),
           job' = [job EXCEPT ![p] = J],
           \A m \in machine' : m \in Rows /\ Sound(m),
           \A m, n \in machine' : m = n,
           history' \subseteq history \union 1..stamps,
           queued' \in SUBSET {"motd", "setup"},
           UNCHANGED <<day, imported, kind, motd, stamps, restarts, blessed>>
    PROVE  ResInv'
<1>1. stamps' = stamps /\ day' = day /\ blessed' = blessed
  OBVIOUS
<1>2. /\ Grows
      /\ \A m : Sound(m) => Sound(m)'
      /\ \A j : JobSound(j) => JobSound(j)'
  BY <1>1, SameClock
<1>3. \A m \in machine' : m \in Rows /\ Sound(m)'
  BY <1>2
<1>4. \A j \in J : j \in Jobs /\ JobSound(j)'
  BY <1>2
<1>5. history' \subseteq history \union 1..stamps'
  BY <1>1
<1>6. /\ machine' \in SUBSET Rows
      /\ history' \in SUBSET Nat
      /\ job' \in [Processes -> SUBSET Jobs]
      /\ RowWhole' /\ PeriodRespected' /\ PermanentGranted'
      /\ HistoryDated' /\ CopiesSound'
  BY <1>2, <1>3, <1>4, <1>5, StepSound
<1>7. ResTypeOK'
  BY <1>6 DEF ResInv, ResTypeOK
<1>8. QED BY <1>6, <1>7 DEF ResInv

(* The same job, further on.                                               *)
LEMMA MovedOn ==
    ASSUME ResInv, NEW j \in Jobs, JobSound(j), NEW step \in Steps,
           step \in {"takeAway", "record", "release"} => Writes(j)
    PROVE  [j EXCEPT !.step = step] \in Jobs /\ JobSound([j EXCEPT !.step = step])
<1> DEFINE k == [j EXCEPT !.step = step]
<1>1. k \in Jobs /\ k.step = step /\ k.copy = j.copy /\ k.entry = j.entry
  BY DEF Jobs
<1> HIDE DEF k
<1>2. Writes(k) => Writes(j)
  BY <1>1 DEF Writes
<1>3. JobSound(k)
  BY <1>1, <1>2 DEF JobSound
<1>4. QED BY <1>1, <1>3 DEF k

(* A save writes the copy, which is sound, over the row.                   *)
LEMMA SaveSound ==
    ASSUME ResInv, NEW p \in Processes, NEW from, NEW to \in Steps, Save(p, from, to),
           to = "record" => from = "release",
           to \notin {"takeAway", "release"}
    PROVE  ResInv'
<1>1. PICK j \in job[p] : /\ j.step = from
                          /\ machine' = {j.copy}
                          /\ Proceed(p, j, to)
                          /\ UNCHANGED <<history, Rest>>
  BY DEF Save
<1>2. j \in Jobs /\ JobSound(j)
  BY <1>1, RowsAndJobs
<1>3. [j EXCEPT !.step = to] \in Jobs /\ JobSound([j EXCEPT !.step = to])
  BY <1>1, <1>2, MovedOn DEF Writes
<1>4. \A m \in machine' : m \in Rows /\ Sound(m)
  BY <1>1, <1>2 DEF Jobs, JobSound
<1>5. \A m, n \in machine' : m = n
  BY <1>1
<1>a. PICK J : J = {[j EXCEPT !.step = to]}
  OBVIOUS
<1>6. job' = [job EXCEPT ![p] = J]
  BY <1>1, <1>a DEF Proceed
<1>7. queued' \in SUBSET {"motd", "setup"}
  BY <1>1 DEF Rest, ResInv, ResTypeOK
<1>8. history' \subseteq history \union 1..stamps
  BY <1>1
<1>9. UNCHANGED <<day, imported, kind, motd, stamps, restarts, blessed>>
  BY <1>1 DEF Rest
<1>10. \A x \in J : x \in Jobs /\ JobSound(x)
  BY <1>3, <1>a
<1>11. QED BY <1>4, <1>5, <1>6, <1>7, <1>8, <1>9, <1>10, PlainStep

(* The history gets the stamp in hand, or the request ends with an error.  *)
LEMMA RecordSound ==
    ASSUME ResInv, NEW p \in Processes, NEW from \in {"takeAway", "record"},
           NEW to \in Steps, Record(p, from, to), to \notin {"takeAway", "release", "record"}
    PROVE  ResInv'
<1>1. PICK j \in job[p] : /\ j.step = from
                          /\ \/ history' = history \union {j.entry} /\ Proceed(p, j, to)
                             \/ UNCHANGED history /\ Drop(p)
                          /\ UNCHANGED <<machine, Rest>>
  BY DEF Record
<1>2. j \in Jobs /\ JobSound(j)
  BY <1>1, RowsAndJobs
<1>3. \A m \in machine' : m \in Rows /\ Sound(m)
  BY <1>1, RowsAndJobs
<1>4. \A m, n \in machine' : m = n
  BY <1>1 DEF ResInv, ResTypeOK
<1>5. queued' \in SUBSET {"motd", "setup"}
  BY <1>1 DEF Rest, ResInv, ResTypeOK
<1>6. UNCHANGED <<day, imported, kind, motd, stamps, restarts, blessed>>
  BY <1>1 DEF Rest
<1>7. CASE history' = history \union {j.entry} /\ Proceed(p, j, to)
  <2>1. j.entry \in 1..stamps
    BY <1>1, <1>2 DEF JobSound, Writes
  <2>2. history' \subseteq history \union 1..stamps
    BY <1>7, <2>1
  <2>a. PICK J : J = {[j EXCEPT !.step = to]}
    OBVIOUS
  <2>3. \A x \in J : x \in Jobs /\ JobSound(x)
    BY <1>2, <2>a, MovedOn
  <2>4. job' = [job EXCEPT ![p] = J]
    BY <1>7, <2>a DEF Proceed
  <2>5. QED BY <1>3, <1>4, <1>5, <1>6, <2>2, <2>3, <2>4, PlainStep
<1>8. CASE UNCHANGED history /\ Drop(p)
  <2>1. job' = [job EXCEPT ![p] = {}]
    BY <1>8 DEF Drop
  <2>2. history' \subseteq history \union 1..stamps
    BY <1>8
  <2>3. QED BY <1>3, <1>4, <1>5, <1>6, <2>1, <2>2, PlainStep
<1>9. QED BY <1>1, <1>7, <1>8
-----------------------------------------------------------------------------
(* The steps after which the process has nothing in hand.                  *)
LEMMA DroppedSound ==
    ASSUME ResInv, NEW p \in Processes, Drop(p),
           \A m \in machine' : m \in Rows /\ Sound(m),
           \A m, n \in machine' : m = n,
           history' \subseteq history,
           queued' \in SUBSET {"motd", "setup"},
           UNCHANGED <<day, imported, kind, motd, stamps, restarts, blessed>>
    PROVE  ResInv'
<1>1. PICK J : J = {}
  OBVIOUS
<1>2. job' = [job EXCEPT ![p] = J]
  BY <1>1 DEF Drop
<1>3. \A j \in J : j \in Jobs /\ JobSound(j)
  BY <1>1
<1>4. history' \subseteq history \union 1..stamps
  OBVIOUS
<1>5. QED BY <1>2, <1>3, <1>4, PlainStep

LEMMA DeleteVmSound ==
    ASSUME ResInv, NEW p \in Processes, DeleteVm(p) PROVE ResInv'
<1>1. /\ machine' = {} /\ history' = {} /\ Drop(p)
      /\ UNCHANGED Rest
  BY DEF DeleteVm
<1>2. queued' \in SUBSET {"motd", "setup"}
      /\ UNCHANGED <<day, imported, kind, motd, stamps, restarts, blessed>>
  BY <1>1 DEF Rest, ResInv, ResTypeOK
<1>3. QED BY <1>1, <1>2, DroppedSound

LEMMA EnqueueSound ==
    ASSUME ResInv, NEW p \in Processes, Enqueue(p) PROVE ResInv'
<1>1. PICK j \in job[p] :
          /\ queued' = queued \union j.tasks
          /\ Drop(p)
          /\ UNCHANGED <<machine, history, day, imported, kind, motd, stamps, restarts, blessed>>
  BY DEF Enqueue
<1>2. j \in Jobs
  BY RowsAndJobs
<1>3. queued' \in SUBSET {"motd", "setup"}
  BY <1>1, <1>2 DEF Jobs, ResInv, ResTypeOK
<1>4. /\ \A m \in machine' : m \in Rows /\ Sound(m)
      /\ \A m, n \in machine' : m = n
  BY <1>1, RowsAndJobs DEF ResInv, ResTypeOK
<1>5. QED BY <1>1, <1>3, <1>4, DroppedSound

LEMMA SaveCheckSound ==
    ASSUME ResInv, NEW p \in Processes, SaveCheck(p) PROVE ResInv'
<1>1. PICK j \in job[p] :
          machine' = {j.copy} /\ Drop(p) /\ UNCHANGED <<history, Rest>>
  BY DEF SaveCheck
<1>2. j \in Jobs /\ JobSound(j)
  BY RowsAndJobs
<1>3. \A m \in machine' : m \in Rows /\ Sound(m)
  BY <1>1, <1>2 DEF Jobs, JobSound
<1>4. queued' \in SUBSET {"motd", "setup"}
      /\ UNCHANGED <<day, imported, kind, motd, stamps, restarts, blessed>>
  BY <1>1 DEF Rest, ResInv, ResTypeOK
<1>5. QED BY <1>1, <1>3, <1>4, DroppedSound

(* The row read again is sound, as the copy before it was.                 *)
LEMMA RefreshSound ==
    ASSUME ResInv, NEW p \in Processes, Refresh(p) PROVE ResInv'
<1>1. PICK j \in job[p] :
          /\ j.step = "checked"
          /\ \/ \E m \in machine :
                   job' = [job EXCEPT ![p] = {[j EXCEPT !.step = "resave", !.copy = m]}]
             \/ machine = {} /\ Drop(p)
          /\ UNCHANGED <<machine, history, Rest>>
  BY DEF Refresh
<1>2. /\ queued' \in SUBSET {"motd", "setup"}
      /\ UNCHANGED <<day, imported, kind, motd, stamps, restarts, blessed>>
      /\ history' \subseteq history
      /\ history' \subseteq history \union 1..stamps
  BY <1>1 DEF Rest, ResInv, ResTypeOK
<1>3. /\ \A m \in machine' : m \in Rows /\ Sound(m)
      /\ \A m, n \in machine' : m = n
  BY <1>1, RowsAndJobs DEF ResInv, ResTypeOK
<1>4. ASSUME NEW m \in machine,
             job' = [job EXCEPT ![p] = {[j EXCEPT !.step = "resave", !.copy = m]}]
      PROVE  ResInv'
  <2>1. PICK k : k = [j EXCEPT !.step = "resave", !.copy = m]
    OBVIOUS
  <2>2. PICK J : J = {k}
    OBVIOUS
  <2>3. m \in Rows /\ Sound(m) /\ j \in Jobs
    BY RowsAndJobs
  <2>4. k \in Jobs /\ k.step = "resave" /\ k.copy = m
    BY <2>1, <2>3 DEF Jobs, Steps
  <2>5. JobSound(k)
    BY <2>3, <2>4 DEF JobSound, Writes
  <2>6. \A x \in J : x \in Jobs /\ JobSound(x)
    BY <2>2, <2>4, <2>5
  <2>7. job' = [job EXCEPT ![p] = J]
    BY <1>4, <2>1, <2>2
  <2>8. QED BY <1>2, <1>3, <2>6, <2>7, PlainStep
<1>5. CASE Drop(p)
  BY <1>2, <1>3, <1>5, DroppedSound
<1>6. QED BY <1>1, <1>4, <1>5

LEMMA ContinueSound ==
    ASSUME ResInv, NEW p \in Processes, Continue(p) PROVE ResInv'
<1>1. CASE TakeAway(p)
  BY <1>1, RecordSound DEF TakeAway, Steps
<1>2. CASE SaveReservation(p)
  BY <1>2, SaveSound DEF SaveReservation, Steps
<1>3. CASE Enqueue(p)
  BY <1>3, EnqueueSound
<1>4. CASE SaveRelease(p)
  BY <1>4, SaveSound DEF SaveRelease, Steps
<1>5. CASE RecordRelease(p)
  BY <1>5, RecordSound DEF RecordRelease, Steps
<1>6. CASE DeleteVm(p)
  BY <1>6, DeleteVmSound
<1>7. CASE SaveStatus(p)
  BY <1>7, SaveSound DEF SaveStatus, Steps
<1>8. CASE Refresh(p)
  BY <1>8, RefreshSound
<1>9. CASE SaveSync(p)
  BY <1>9, SaveSound DEF SaveSync, Steps
<1>10. CASE SaveCheck(p)
  BY <1>10, SaveCheckSound
<1>11. QED
  BY <1>1, <1>2, <1>3, <1>4, <1>5, <1>6, <1>7, <1>8, <1>9, <1>10 DEF Continue
-----------------------------------------------------------------------------
(* What begins a request or a task takes a copy of the row, or Free.       *)
LEMMA BeganSound ==
    ASSUME ResInv, NEW p \in Processes, NEW k \in Jobs, JobSound(k), Take(p, k),
           UNCHANGED <<machine, history, queued, day, imported, kind, motd,
                       stamps, restarts, blessed>>
    PROVE  ResInv'
<1>1. PICK J : J = {k}
  OBVIOUS
<1>2. job' = [job EXCEPT ![p] = J]
  BY <1>1 DEF Take
<1>3. \A j \in J : j \in Jobs /\ JobSound(j)
  BY <1>1
<1>4. /\ \A m \in machine' : m \in Rows /\ Sound(m)
      /\ \A m, n \in machine' : m = n
  BY RowsAndJobs DEF ResInv, ResTypeOK
<1>5. /\ queued' \in SUBSET {"motd", "setup"}
      /\ history' \subseteq history \union 1..stamps
  BY DEF ResInv, ResTypeOK
<1>6. QED BY <1>2, <1>3, <1>4, <1>5, PlainStep

LEMMA DecideReleaseSound ==
    ASSUME ResInv, NEW p \in Processes, NEW m \in machine,
           NEW u \in Users \union {Nobody}, DecideRelease(p, m, u)
    PROVE  ResInv'
<1>1. PICK k : k = [step |-> IF kind.vm THEN "delete" ELSE "release",
                    actor |-> u, copy |-> Free, entry |-> m.at, tasks |-> FollowUp]
  OBVIOUS
<1>2. m \in Rows /\ Sound(m) /\ ResTypeOK /\ m.by # Nobody
  BY RowsAndJobs DEF ResInv, DecideRelease
<1>3. m.at \in Nat /\ m.at \in 1..stamps
  BY <1>2 DEF Rows, Sound, Whole
<1>4. Free \in Rows /\ Sound(Free)
  BY <1>2, FreeSound
<1>5. FollowUp \in SUBSET {"motd", "setup"}
  <2>1. kind \in Kinds
    BY <1>2, KindsAssumption DEF ResTypeOK
  <2>2. kind.reinstall \in {"no", "yes", "unsupported"}
    BY <2>1 DEF Kinds
  <2>3. QED BY <2>2 DEF FollowUp
<1>6. k \in Jobs
  BY <1>1, <1>3, <1>4, <1>5 DEF Jobs, Steps
<1>7. JobSound(k)
  BY <1>1, <1>3, <1>4 DEF JobSound
<1>8. Take(p, k)
      /\ UNCHANGED <<machine, history, queued, day, imported, kind, motd,
                     stamps, restarts, blessed>>
  BY <1>1 DEF DecideRelease
<1>9. QED BY <1>6, <1>7, <1>8, BeganSound

LEMMA BeginCheckSound ==
    ASSUME ResInv, NEW t \in TaskThreads, BeginCheck(t) PROVE ResInv'
<1>1. PICK m \in machine, step \in {"status", "last"} :
          Take(t, [step |-> step, actor |-> Nobody, copy |-> m, entry |-> 0, tasks |-> {}])
  BY DEF BeginCheck
<1>2. PICK k : k = [step |-> step, actor |-> Nobody, copy |-> m, entry |-> 0, tasks |-> {}]
  OBVIOUS
<1>3. m \in Rows /\ Sound(m)
  BY RowsAndJobs
<1>4. k \in Jobs
  BY <1>2, <1>3 DEF Jobs, Steps
<1>5. JobSound(k)
  BY <1>2, <1>3 DEF JobSound, Writes
<1>6. /\ UNCHANGED <<machine, history, queued, day, imported, kind, motd,
                     stamps, restarts, blessed>>
      /\ t \in Processes
  BY DEF BeginCheck, Processes
<1>7. Take(t, k)
  BY <1>1, <1>2
<1>8. QED BY <1>4, <1>5, <1>6, <1>7, BeganSound

LEMMA BeginReserveSound ==
    ASSUME ResInv, NEW w \in WebWorkers, NEW u \in Users, NEW for \in Users,
           NEW until \in Nat, BeginReserve(w, u, for, until)
    PROVE  ResInv'
<1>1. PICK m \in machine : Decide(w, m, u, for, until)
  BY DEF BeginReserve
<1>2. m \in Rows /\ Sound(m) /\ ResTypeOK
  BY RowsAndJobs DEF ResInv
<1>3. until \in (day + 1)..(day + MaxPeriod) \/ (until = 0 /\ u \in Superusers)
  BY DEF BeginReserve, AllowedDate
<1>4. until <= day + MaxPeriod /\ (until = 0 => u \in Superusers)
  BY <1>2, <1>3, PeriodAssumption DEF ResTypeOK
<1>5. machine' = machine
      /\ UNCHANGED <<history, queued, day, imported, kind, motd, restarts>>
  BY DEF BeginReserve
<1>6. w \in Processes
  BY DEF Processes
<1>7. QED BY <1>1, <1>2, <1>4, <1>5, <1>6, DecideSound

(* The form is not asked; 30 days from a day gone by are within 90.        *)
LEMMA CreateVmSound ==
    ASSUME ResInv, NEW w \in WebWorkers, NEW u \in Users, CreateVm(w, u)
    PROVE  ResInv'
<1>1. PICK until : until = imported + VmPeriod
  OBVIOUS
<1>2. ResTypeOK
  BY DEF ResInv
<1>3. until \in Nat /\ until # 0 /\ until <= day + MaxPeriod
  BY <1>1, <1>2, PeriodAssumption DEF ResTypeOK
<1>4. Free \in Rows /\ Sound(Free)
  BY <1>2, FreeSound
<1>5. /\ Decide(w, Free, u, u, until)
      /\ machine' = {Free} /\ machine = {}
      /\ UNCHANGED <<history, queued, day, imported, kind, motd, restarts>>
  BY <1>1 DEF CreateVm
<1>6. w \in Processes
  BY DEF Processes
<1>7. QED BY <1>3, <1>4, <1>5, <1>6, DecideSound

(* Steps that write no row: jobs at most go away.                          *)
LEMMA QuietSound ==
    ASSUME ResInv, UNCHANGED <<machine, history, stamps>>,
           day' \in Nat, day <= day', blessed' = blessed,
           \A p \in Processes : job'[p] \subseteq job[p]
    PROVE  RowWhole' /\ PeriodRespected' /\ PermanentGranted' /\ HistoryDated' /\ CopiesSound'
<1>1. ResTypeOK /\ stamps \in Nat /\ stamps' = stamps
  BY DEF ResInv, ResTypeOK
<1>2. \A m \in Rows : Sound(m) => Sound(m)'
  BY <1>1, SoundLater
<1>3. \A m \in machine' : Sound(m)'
  BY <1>2, RowsAndJobs
<1>4. RowWhole' /\ PeriodRespected' /\ PermanentGranted'
  BY <1>3 DEF RowWhole, PeriodRespected, PermanentGranted, Sound
<1>5. HistoryDated'
  BY DEF ResInv, HistoryDated
<1>6. ASSUME NEW p \in Processes, NEW j \in job'[p]
      PROVE  Sound(j.copy)' /\ (Writes(j) => j.entry \in 1..stamps)
  <2>1. j \in Jobs /\ JobSound(j)
    BY <1>6, RowsAndJobs
  <2>2. j.copy \in Rows /\ Sound(j.copy)
    BY <2>1 DEF Jobs, JobSound
  <2>3. QED BY <1>2, <2>1, <2>2 DEF JobSound
<1>7. CopiesSound'
  BY <1>1, <1>6 DEF CopiesSound, Sound, Writes
<1>8. QED BY <1>4, <1>5, <1>7

LEMMA ExecuteSound ==
    ASSUME ResInv, NEW task \in queued, Execute(task) PROVE ResInv'
<1>1. /\ UNCHANGED <<machine, history, job, day, imported, kind, stamps, restarts, blessed>>
      /\ queued' \subseteq queued
  BY DEF Execute
<1>2. ResTypeOK /\ task \in {"motd", "setup"}
  BY DEF ResInv, ResTypeOK
<1>3. motd' \in Users \union {Nobody}
  <2>1. CASE task = "motd" /\ machine # {}
    <3>1. (CHOOSE m \in machine : TRUE) \in machine
      BY <2>1
    <3>2. (CHOOSE m \in machine : TRUE) \in Rows
      BY <3>1, RowsAndJobs
    <3>3. motd' = (CHOOSE m \in machine : TRUE).by
      BY <2>1 DEF Execute
    <3>4. QED BY <3>2, <3>3 DEF Rows
  <2>2. CASE task = "motd" /\ machine = {}
    BY <1>2, <2>2 DEF Execute, ResTypeOK
  <2>3. CASE task = "setup"
    BY <2>3 DEF Execute
  <2>4. QED BY <1>2, <2>1, <2>2, <2>3
<1>4. ResTypeOK'
  BY <1>1, <1>2, <1>3 DEF ResTypeOK
<1>5. day' \in Nat /\ day <= day'
  BY <1>1, <1>2 DEF ResTypeOK
<1>6. QED BY <1>1, <1>4, <1>5, QuietSound DEF ResInv

LEMMA NextDaySound == ASSUME ResInv, NextDay PROVE ResInv'
<1>1. ResTypeOK /\ day' = day + 1
  BY DEF ResInv, NextDay
<1>2. day' \in Nat \ {0} /\ day <= day' /\ imported <= day'
  BY <1>1 DEF ResTypeOK
<1>3. UNCHANGED <<machine, history, job, queued, imported, kind, motd, stamps, restarts, blessed>>
  BY DEF NextDay
<1>4. ResTypeOK'
  BY <1>1, <1>2, <1>3 DEF ResTypeOK
<1>5. QED BY <1>2, <1>3, <1>4, QuietSound DEF ResInv

LEMMA RestartWebSound == ASSUME ResInv, RestartWeb PROVE ResInv'
<1>1. ResTypeOK
  BY DEF ResInv
<1>2. /\ restarts' = restarts + 1 /\ imported' = day
      /\ job' = [p \in Processes |-> IF p \in WebWorkers THEN {} ELSE job[p]]
      /\ UNCHANGED <<machine, history, queued, day, kind, motd, stamps, blessed>>
  BY DEF RestartWeb
<1>3. job' \in [Processes -> SUBSET Jobs]
  BY <1>1, <1>2 DEF ResTypeOK
<1>4. restarts' \in Nat /\ day \in Nat \ {0} /\ day <= day
  BY <1>1, <1>2 DEF ResTypeOK
<1>5. ResTypeOK'
  BY <1>1, <1>2, <1>3, <1>4 DEF ResTypeOK
<1>6. \A p \in Processes : job'[p] \subseteq job[p]
  BY <1>2
<1>7. QED BY <1>2, <1>4, <1>5, <1>6, QuietSound DEF ResInv
-----------------------------------------------------------------------------
(* The theorems                                                            *)
LEMMA InitSound == Init => ResInv
<1> SUFFICES ASSUME Init PROVE ResInv
  OBVIOUS
<1>1. ResTypeOK
  <2>1. /\ machine \in SUBSET {Free}
        /\ history = {} /\ queued = {} /\ blessed = {}
        /\ day = 1 /\ imported = 1 /\ stamps = 0 /\ restarts = 0
        /\ kind \in MachineKinds /\ motd = Nobody
        /\ job = [p \in Processes |-> {}]
    BY DEF Init
  <2>2. Free \in Rows
    BY DEF Free, Rows
  <2>3. job \in [Processes -> SUBSET Jobs]
    BY <2>1
  <2>4. QED BY <2>1, <2>2, <2>3 DEF ResTypeOK
<1>2. \A m \in machine : m \in Rows /\ Sound(m)
  <2>1. machine \in SUBSET {Free}
    BY DEF Init
  <2>2. QED BY <1>1, <2>1, FreeSound
<1>3. RowWhole /\ PeriodRespected /\ PermanentGranted
  BY <1>2 DEF RowWhole, PeriodRespected, PermanentGranted, Sound
<1>4. HistoryDated /\ CopiesSound
  BY DEF Init, HistoryDated, CopiesSound
<1>5. QED BY <1>1, <1>3, <1>4 DEF ResInv

LEMMA NextSound == ResInv /\ [Next]_vars => ResInv'
<1> SUFFICES ASSUME ResInv, [Next]_vars PROVE ResInv'
  OBVIOUS
<1>1. ASSUME NEW w \in WebWorkers, NEW u \in Users, NEW for \in Users,
             NEW until \in 0..(LastDay + MaxPeriod), BeginReserve(w, u, for, until)
      PROVE  ResInv'
  <2>1. until \in Nat
    BY PeriodAssumption
  <2>2. QED BY <1>1, <2>1, BeginReserveSound
<1>2. ASSUME NEW w \in WebWorkers, NEW u \in Users, CreateVm(w, u) PROVE ResInv'
  BY <1>2, CreateVmSound
<1>3. ASSUME NEW w \in WebWorkers, NEW u \in Users, BeginRelease(w, u) PROVE ResInv'
  BY <1>3, DecideReleaseSound DEF BeginRelease, Processes
<1>4. ASSUME NEW t \in TaskThreads, BeginExpiry(t) PROVE ResInv'
  BY <1>4, DecideReleaseSound DEF BeginExpiry, Processes
<1>5. ASSUME NEW t \in TaskThreads, BeginCheck(t) PROVE ResInv'
  BY <1>5, BeginCheckSound
<1>6. ASSUME NEW p \in Processes, Continue(p) PROVE ResInv'
  BY <1>6, ContinueSound
<1>7. ASSUME NEW task \in queued, Execute(task) PROVE ResInv'
  BY <1>7, ExecuteSound
<1>8. CASE NextDay
  BY <1>8, NextDaySound
<1>9. CASE RestartWeb
  BY <1>9, RestartWebSound
<1>10. CASE UNCHANGED vars
  BY <1>10 DEF vars, ResInv, ResTypeOK, RowWhole, PeriodRespected, PermanentGranted,
               HistoryDated, CopiesSound, Whole, Period, Granted
<1>11. QED
  BY <1>1, <1>2, <1>3, <1>4, <1>5, <1>6, <1>7, <1>8, <1>9, <1>10 DEF Next

(* Whatever requests, tasks and restarts interleave, the row of a machine, *)
(* its history and every copy of the row a process will write back satisfy *)
(* the invariant (machine.py, reserve, release and save).                  *)
THEOREM ResInvariance == Spec => []ResInv
<1>1. QED BY InitSound, NextSound, PTL DEF Spec

(* No whole-row write mixes the columns of two reservations.               *)
THEOREM AlwaysWhole == Spec => []RowWhole
<1>1. ResInv => RowWhole
  BY DEF ResInv
<1>2. QED BY <1>1, ResInvariance, PTL

(* No machine is held for more days than ReserveMachineForm allows, except *)
(* permanently, although the form checks a date and saves come later.      *)
THEOREM AlwaysWithinPeriod == Spec => []PeriodRespected
<1>1. ResInv => PeriodRespected
  BY DEF ResInv
<1>2. QED BY <1>1, ResInvariance, PTL

(* A reservation without an end was made so by a superuser.                *)
THEOREM PermanentOnlyIfGranted == Spec => []PermanentGranted
<1>1. ResInv => PermanentGranted
  BY DEF ResInv
<1>2. QED BY <1>1, ResInvariance, PTL

(* The history row of a release or a takeover always has its date.         *)
THEOREM AlwaysDated == Spec => []HistoryDated
<1>1. ResInv => HistoryDated
  BY DEF ResInv
<1>2. QED BY <1>1, ResInvariance, PTL
-----------------------------------------------------------------------------
(* One request after the other.  As long as no two requests or tasks are   *)
(* in progress at once, what was read is still there when it is acted on.  *)
OneAtATime == \A p, q \in Processes : job[p] # {} /\ job[q] # {} => p = q

Reserving == {"takeAway", "reserve"}
Releasing == {"delete", "release"}
Checking == {"status", "checked", "resave", "last"}

(* The row is the one that was decided about, or already what was written. *)
Fresh(j) ==
    /\ j.step \in Reserving =>
          \E m \in machine : m.at = j.entry /\ MayReserve(j.actor, m)
    /\ j.step \in Releasing =>
          /\ j.copy = Free
          /\ \E m \in machine :
                /\ m.at = j.entry
                /\ \/ MayRelease(j.actor, m)
                   \/ j.actor = Nobody /\ Expired(m)
    /\ j.step \in Checking \union {"notify"} => machine = {j.copy}
    /\ j.step \in {"record", "followUp"} => machine = {Free}

AllFresh == \A p \in Processes : \A j \in job[p] : Fresh(j)

(* A reservation is accounted for: the row has it, or else its history.    *)
Settled(s) == Current(s) <=> s \notin history

AllSettled == \A s \in 1..stamps : Settled(s)

(* What a request in progress still has to account for.                    *)
Account(j) ==
    /\ j.step \in Reserving =>
          /\ j.copy.at \notin history
          /\ \A s \in 1..stamps : s \in {j.copy.at, j.entry} \/ Settled(s)
    /\ j.step = "takeAway" => j.entry # j.copy.at
    /\ j.step = "reserve" => j.entry \in history \union {0, j.copy.at}
    /\ j.step = "record" => \A s \in 1..stamps : s = j.entry \/ s \in history
    /\ j.step \notin Reserving \union {"record"} => AllSettled

(* The message of the day is right, or a task to write it is to be queued  *)
(* or executed.                                                            *)
Tells(j) == j.tasks = IF j.step \in Checking THEN {} ELSE {"motd"}

MotdKnown ==
    /\ \A p \in Processes : \A j \in job[p] : Tells(j)
    /\ "setup" \notin queued
    /\ \/ \A m \in machine : motd = m.by
       \/ "motd" \in queued
       \/ \E p \in Processes : \E j \in job[p] : "motd" \in j.tasks

OneJob == \A p \in Processes : \A i, j \in job[p] : i = j

Accounts ==
    /\ OneJob
    /\ \A p \in Processes : \A j \in job[p] : Account(j)
    /\ machine # {} /\ (\A p \in Processes : job[p] = {}) => AllSettled
    /\ kind.reinstall = "no" => MotdKnown

SerialInv == AllFresh /\ (restarts = 0 => Accounts)
-----------------------------------------------------------------------------
(* Whoever acts has the only job.                                          *)
LEMMA OthersIdle ==
    ASSUME OneAtATime, NEW p \in Processes, job[p] # {}
    PROVE  \A q \in Processes \ {p} : job[q] = {}
  BY DEF OneAtATime

LEMMA BeginsAlone ==
    ASSUME ResInv, OneAtATime', NEW p \in Processes, NEW k, Take(p, k)
    PROVE  \A q \in Processes : job[q] = {}
<1>1. job \in [Processes -> SUBSET Jobs]
  BY DEF ResInv, ResTypeOK
<1>2. PICK J : J = {k}
  OBVIOUS
<1>3. job[p] = {} /\ job' = [job EXCEPT ![p] = J] /\ J # {}
  BY <1>2 DEF Take
<1>4. ASSUME NEW q \in Processes, q # p PROVE job[q] = {}
  <2>1. job'[p] = J /\ job'[q] = job[q]
    BY <1>1, <1>3, <1>4
  <2>2. QED BY <1>3, <1>4, <2>1 DEF OneAtATime
<1>5. QED BY <1>3, <1>4

(* After a step of one process only its job counts.                        *)
LEMMA OnlyItsJob ==
    ASSUME ResInv, NEW p \in Processes, NEW J, job' = [job EXCEPT ![p] = J],
           \A q \in Processes \ {p} : job[q] = {}
    PROVE  /\ job'[p] = J
           /\ \A q \in Processes : \A j \in job'[q] : q = p /\ j \in J
<1>1. job \in [Processes -> SUBSET Jobs]
  BY DEF ResInv, ResTypeOK
<1>2. job'[p] = J
  BY <1>1
<1>3. ASSUME NEW q \in Processes, NEW j \in job'[q] PROVE q = p /\ j \in J
  <2>1. CASE q = p
    BY <1>2, <1>3, <2>1
  <2>2. CASE q # p
    BY <1>1, <1>3, <2>2
  <2>3. QED BY <2>1, <2>2
<1>4. QED BY <1>2, <1>3

LEMMA FreshJob ==
    ASSUME ResInv, NEW p \in Processes, NEW J, job' = [job EXCEPT ![p] = J],
           \A q \in Processes \ {p} : job[q] = {},
           \A k \in J : Fresh(k)'
    PROVE  AllFresh'
<1>1. \A q \in Processes : \A j \in job'[q] : j \in J
  BY OnlyItsJob
<1>2. QED BY <1>1 DEF AllFresh

(* The same job in a new step; what a step is.                             *)
LEMMA NewStep ==
    ASSUME NEW j \in Jobs, NEW to
    PROVE  /\ [j EXCEPT !.step = to].step = to
           /\ [j EXCEPT !.step = to].actor = j.actor
           /\ [j EXCEPT !.step = to].copy = j.copy
           /\ [j EXCEPT !.step = to].entry = j.entry
           /\ [j EXCEPT !.step = to].tasks = j.tasks
  BY DEF Jobs

LEMMA SaveFresh ==
    ASSUME ResInv, OneAtATime, AllFresh, NEW p \in Processes, NEW from, NEW to,
           Save(p, from, to),
           \/ from = "reserve" /\ to = "notify"
           \/ from = "release" /\ to = "record"
           \/ from = "status" /\ to = "checked"
           \/ from = "resave" /\ to = "last"
    PROVE  AllFresh'
<1>1. PICK j \in job[p] : /\ j.step = from
                          /\ machine' = {j.copy}
                          /\ Proceed(p, j, to)
  BY DEF Save
<1>2. j \in Jobs /\ Fresh(j)
  BY <1>1, RowsAndJobs DEF AllFresh
<1>3. PICK k : k = [j EXCEPT !.step = to]
  OBVIOUS
<1>4. k.step = to /\ k.copy = j.copy
  BY <1>2, <1>3, NewStep
<1>5. PICK J : J = {k}
  OBVIOUS
<1>6. job' = [job EXCEPT ![p] = J]
  BY <1>1, <1>3, <1>5 DEF Proceed
<1>7. to = "record" => j.copy = Free
  BY <1>1, <1>2 DEF Fresh, Releasing
<1>8. Fresh(k)'
  BY <1>1, <1>4, <1>7 DEF Fresh, Reserving, Releasing, Checking
<1>9. \A q \in Processes \ {p} : job[q] = {}
  BY <1>1, OthersIdle
<1>10. QED BY <1>5, <1>6, <1>8, <1>9, FreshJob

LEMMA RecordFresh ==
    ASSUME ResInv, OneAtATime, AllFresh, NEW p \in Processes, NEW from, NEW to,
           Record(p, from, to),
           \/ from = "takeAway" /\ to = "reserve"
           \/ from = "record" /\ to = "followUp"
    PROVE  AllFresh'
<1>1. PICK j \in job[p] : /\ j.step = from
                          /\ Proceed(p, j, to) \/ Drop(p)
                          /\ UNCHANGED <<machine, Rest>>
  BY DEF Record
<1>2. j \in Jobs /\ Fresh(j)
  BY <1>1, RowsAndJobs DEF AllFresh
<1>3. PICK k : k = [j EXCEPT !.step = to]
  OBVIOUS
<1>4. k.step = to /\ k.copy = j.copy /\ k.entry = j.entry /\ k.actor = j.actor
  BY <1>2, <1>3, NewStep
<1>5. PICK J : (J = {k} \/ J = {}) /\ job' = [job EXCEPT ![p] = J]
  BY <1>1, <1>3 DEF Proceed, Drop
<1>6. Fresh(k)'
  BY <1>1, <1>2, <1>4 DEF Fresh, Reserving, Releasing, Checking, MayReserve
<1>7. \A q \in Processes \ {p} : job[q] = {}
  BY <1>1, OthersIdle
<1>8. QED BY <1>5, <1>6, <1>7, FreshJob

LEMMA RefreshFresh ==
    ASSUME ResInv, OneAtATime, AllFresh, NEW p \in Processes, Refresh(p)
    PROVE  AllFresh'
<1>1. PICK j \in job[p] :
          /\ \/ \E m \in machine :
                   job' = [job EXCEPT ![p] = {[j EXCEPT !.step = "resave", !.copy = m]}]
             \/ Drop(p)
          /\ UNCHANGED <<machine, history, Rest>>
  BY DEF Refresh
<1>2. j \in Jobs /\ \A m, n \in machine : m = n
  BY <1>1, RowsAndJobs DEF ResInv, ResTypeOK
<1>3. \A q \in Processes \ {p} : job[q] = {}
  BY <1>1, OthersIdle
<1>4. ASSUME NEW m \in machine,
             job' = [job EXCEPT ![p] = {[j EXCEPT !.step = "resave", !.copy = m]}]
      PROVE  AllFresh'
  <2>1. PICK k : k = [j EXCEPT !.step = "resave", !.copy = m]
    OBVIOUS
  <2>2. k.step = "resave" /\ k.copy = m
    BY <1>2, <2>1 DEF Jobs
  <2>3. machine' = {k.copy}
    BY <1>1, <1>2, <1>4, <2>2
  <2>4. Fresh(k)'
    BY <2>2, <2>3 DEF Fresh, Reserving, Releasing, Checking
  <2>5. PICK J : J = {k}
    OBVIOUS
  <2>6. job' = [job EXCEPT ![p] = J]
    BY <1>4, <2>1, <2>5
  <2>7. QED BY <1>3, <2>4, <2>5, <2>6, FreshJob
<1>5. CASE Drop(p)
  <2>1. PICK J : J = {} /\ job' = [job EXCEPT ![p] = J]
    BY <1>5 DEF Drop
  <2>2. QED BY <1>3, <2>1, FreshJob
<1>6. QED BY <1>1, <1>4, <1>5

LEMMA DropFresh ==
    ASSUME ResInv, OneAtATime, NEW p \in Processes, job[p] # {}, Drop(p)
    PROVE  AllFresh'
<1>1. PICK J : J = {} /\ job' = [job EXCEPT ![p] = J]
  BY DEF Drop
<1>2. \A q \in Processes \ {p} : job[q] = {}
  BY OthersIdle
<1>3. QED BY <1>1, <1>2, FreshJob

LEMMA ContinueFresh ==
    ASSUME ResInv, OneAtATime, AllFresh, NEW p \in Processes, Continue(p)
    PROVE  AllFresh'
<1>1. CASE TakeAway(p)
  BY <1>1, RecordFresh DEF TakeAway
<1>2. CASE RecordRelease(p)
  BY <1>2, RecordFresh DEF RecordRelease
<1>3. CASE SaveReservation(p)
  BY <1>3, SaveFresh DEF SaveReservation
<1>4. CASE SaveRelease(p)
  BY <1>4, SaveFresh DEF SaveRelease
<1>5. CASE SaveStatus(p)
  BY <1>5, SaveFresh DEF SaveStatus
<1>6. CASE SaveSync(p)
  BY <1>6, SaveFresh DEF SaveSync
<1>7. CASE Refresh(p)
  BY <1>7, RefreshFresh
<1>8. CASE Enqueue(p) \/ DeleteVm(p) \/ SaveCheck(p)
  <2>1. job[p] # {} /\ Drop(p)
    BY <1>8 DEF Enqueue, DeleteVm, SaveCheck
  <2>2. QED BY <2>1, DropFresh
<1>9. QED
  BY <1>1, <1>2, <1>3, <1>4, <1>5, <1>6, <1>7, <1>8 DEF Continue

(* What begins has just read the row.                                      *)
LEMMA DecideFresh ==
    ASSUME ResInv, OneAtATime', NEW p \in Processes, NEW m, NEW u, NEW for, NEW until,
           Decide(p, m, u, for, until), machine' = {m}, MayReserve(u, m)
    PROVE  AllFresh'
<1>1. PICK k : k = [step |-> IF m.by \in {Nobody, u, for} THEN "reserve" ELSE "takeAway",
                    actor |-> u, copy |-> Reserved(m, u, for, until), entry |-> m.at,
                    tasks |-> {"motd"}]
  OBVIOUS
<1>2. Take(p, k)
  BY <1>1 DEF Decide
<1>3. \A q \in Processes \ {p} : job[q] = {}
  BY <1>2, BeginsAlone
<1>4. k.step \in Reserving /\ k.actor = u /\ k.entry = m.at
  BY <1>1 DEF Reserving
<1>5. Fresh(k)'
  BY <1>4 DEF Fresh, Reserving, Releasing, Checking, MayReserve
<1>6. PICK J : J = {k}
  OBVIOUS
<1>7. job' = [job EXCEPT ![p] = J]
  BY <1>2, <1>6 DEF Take
<1>8. QED BY <1>3, <1>5, <1>6, <1>7, FreshJob

LEMMA DecideReleaseFresh ==
    ASSUME ResInv, OneAtATime', NEW p \in Processes, NEW m \in machine, NEW u,
           DecideRelease(p, m, u),
           MayRelease(u, m) \/ (u = Nobody /\ Expired(m))
    PROVE  AllFresh'
<1>1. PICK k : k = [step |-> IF kind.vm THEN "delete" ELSE "release",
                    actor |-> u, copy |-> Free, entry |-> m.at, tasks |-> FollowUp]
  OBVIOUS
<1>2. Take(p, k) /\ machine' = machine /\ day' = day
  BY <1>1 DEF DecideRelease
<1>3. \A q \in Processes \ {p} : job[q] = {}
  BY <1>2, BeginsAlone
<1>4. k.step \in Releasing /\ k.actor = u /\ k.copy = Free /\ k.entry = m.at
  BY <1>1 DEF Releasing
<1>5. m \in machine' /\ (MayRelease(u, m)' \/ (u = Nobody /\ Expired(m)'))
  BY <1>2 DEF MayRelease, Expired
<1>6. Free' = Free
  BY DEF Free
<1>7. Fresh(k)'
  BY <1>4, <1>5, <1>6 DEF Fresh, Reserving, Releasing, Checking, MayRelease, Expired
<1>8. PICK J : J = {k}
  OBVIOUS
<1>9. job' = [job EXCEPT ![p] = J]
  BY <1>2, <1>8 DEF Take
<1>10. \A x \in J : Fresh(x)'
  BY <1>7, <1>8
<1>11. QED BY <1>3, <1>9, <1>10, FreshJob

LEMMA BeginCheckFresh ==
    ASSUME ResInv, OneAtATime', NEW t \in TaskThreads, BeginCheck(t)
    PROVE  AllFresh'
<1>1. PICK m \in machine, step \in {"status", "last"} :
          Take(t, [step |-> step, actor |-> Nobody, copy |-> m, entry |-> 0, tasks |-> {}])
  BY DEF BeginCheck
<1>2. PICK k : k = [step |-> step, actor |-> Nobody, copy |-> m, entry |-> 0, tasks |-> {}]
  OBVIOUS
<1>3. Take(t, k) /\ t \in Processes
  BY <1>1, <1>2 DEF Processes
<1>4. \A q \in Processes \ {t} : job[q] = {}
  BY <1>3, BeginsAlone
<1>5. machine' = {k.copy}
  BY <1>1, <1>2 DEF BeginCheck, ResInv, ResTypeOK
<1>6. k.step \in {"status", "last"}
  BY <1>2
<1>7. Fresh(k)'
  BY <1>5, <1>6 DEF Fresh, Reserving, Releasing, Checking
<1>8. PICK J : J = {k}
  OBVIOUS
<1>9. job' = [job EXCEPT ![t] = J]
  BY <1>3, <1>8 DEF Take
<1>10. t \in Processes /\ \A x \in J : Fresh(x)'
  BY <1>3, <1>7, <1>8
<1>11. QED BY <1>4, <1>9, <1>10, FreshJob

(* Days pass, tasks are executed, the web server is started anew.          *)
LEMMA QuietFresh ==
    ASSUME ResInv, AllFresh, machine' = machine, day' \in Nat, day <= day',
           \A p \in Processes : job'[p] \subseteq job[p]
    PROVE  AllFresh'
<1>1. \A m \in machine : Expired(m) => Expired(m)'
  BY DEF ResInv, ResTypeOK, Expired, Rows
<1>2. Free' = Free
  BY DEF Free
<1>3. ASSUME NEW p \in Processes, NEW j \in job'[p] PROVE Fresh(j)'
  <2>1. Fresh(j)
    BY <1>3 DEF AllFresh
  <2>2. QED BY <1>1, <1>2, <2>1 DEF Fresh, MayReserve, MayRelease, Reserving, Releasing, Checking
<1>4. QED BY <1>3 DEF AllFresh

LEMMA NextFresh ==
    ASSUME ResInv, OneAtATime, OneAtATime', AllFresh, [Next]_vars
    PROVE  AllFresh'
<1>0. \A m, n \in machine : m = n
  BY DEF ResInv, ResTypeOK
<1>1. ASSUME NEW w \in WebWorkers, NEW u \in Users, NEW for \in Users,
             NEW until \in 0..(LastDay + MaxPeriod), BeginReserve(w, u, for, until)
      PROVE  AllFresh'
  <2>1. PICK m \in machine : MayReserve(u, m) /\ Decide(w, m, u, for, until)
    BY <1>1 DEF BeginReserve
  <2>2. machine' = {m} /\ w \in Processes
    BY <1>0, <1>1 DEF BeginReserve, Processes
  <2>3. QED BY <2>1, <2>2, DecideFresh
<1>2. ASSUME NEW w \in WebWorkers, NEW u \in Users, CreateVm(w, u) PROVE AllFresh'
  <2>1. /\ Decide(w, Free, u, u, imported + VmPeriod)
        /\ machine' = {Free} /\ w \in Processes
    BY <1>2 DEF CreateVm, Processes
  <2>2. MayReserve(u, Free)
    BY DEF MayReserve, Free
  <2>3. QED BY <2>1, <2>2, DecideFresh
<1>3. ASSUME NEW w \in WebWorkers, NEW u \in Users, BeginRelease(w, u) PROVE AllFresh'
  BY <1>3, DecideReleaseFresh DEF BeginRelease, Processes
<1>4. ASSUME NEW t \in TaskThreads, BeginExpiry(t) PROVE AllFresh'
  BY <1>4, DecideReleaseFresh DEF BeginExpiry, Due, Processes
<1>5. ASSUME NEW t \in TaskThreads, BeginCheck(t) PROVE AllFresh'
  BY <1>5, BeginCheckFresh
<1>6. ASSUME NEW p \in Processes, Continue(p) PROVE AllFresh'
  BY <1>6, ContinueFresh
<1>7. CASE \/ \E task \in queued : Execute(task)
           \/ NextDay \/ RestartWeb \/ UNCHANGED vars
  <2>1. day \in Nat
    BY DEF ResInv, ResTypeOK
  <2>2. machine' = machine /\ (day' = day \/ day' = day + 1)
    BY <1>7 DEF Execute, NextDay, RestartWeb, vars
  <2>3. \A p \in Processes : job'[p] \subseteq job[p]
    BY <1>7 DEF Execute, NextDay, RestartWeb, vars
  <2>4. day' \in Nat /\ day <= day'
    BY <2>1, <2>2
  <2>5. QED BY <2>2, <2>3, <2>4, QuietFresh
<1>8. QED
  BY <1>1, <1>2, <1>3, <1>4, <1>5, <1>6, <1>7 DEF Next
-----------------------------------------------------------------------------
(* Who writes the row, or removes it, was entitled to.                     *)
Displaced(u) ==
    Ends(u) => \E p \in Processes : job'[p] # job[p] /\ \E j \in job[p] : Entitled(j, u)

LEMMA WriterEntitled ==
    ASSUME ResInv, AllFresh, NEW p \in Processes, NEW j \in job[p], job'[p] # job[p],
           \/ machine' = {j.copy} /\ j.step \in {"reserve", "release"} \union Checking
           \/ machine' = {} /\ j.step = "delete",
           NEW u \in Users
    PROVE  Displaced(u)
<1> SUFFICES ASSUME Ends(u) PROVE Entitled(j, u)
  BY DEF Displaced
<1>1. PICK m \in machine : m.by = u
  BY DEF Ends
<1>2. u # Nobody /\ \A n \in machine : n = m
  BY <1>1, UsersAssumption DEF ResInv, ResTypeOK
<1>3. Fresh(j)
  BY DEF AllFresh
<1>4. CASE j.step = "reserve"
  <2>1. MayReserve(j.actor, m)
    BY <1>2, <1>3, <1>4 DEF Fresh, Reserving
  <2>2. QED BY <1>1, <1>2, <2>1 DEF MayReserve, Entitled
<1>5. CASE j.step \in Releasing
  <2>1. MayRelease(j.actor, m) \/ (j.actor = Nobody /\ Expired(m))
    BY <1>2, <1>3, <1>5 DEF Fresh
  <2>2. QED BY <1>1, <2>1 DEF MayRelease, Entitled
<1>6. CASE j.step \in Checking
  <2>1. machine' = machine
    BY <1>3, <1>6 DEF Fresh, Checking
  <2>2. QED BY <2>1 DEF Ends
<1>7. QED BY <1>4, <1>5, <1>6 DEF Releasing

(* Its job is another one afterwards, or none.                             *)
LEMMA JobChanges ==
    ASSUME ResInv, NEW p \in Processes, NEW j \in job[p], NEW to, j.step # to,
           Drop(p) \/ Proceed(p, j, to)
    PROVE  job'[p] # job[p]
<1>1. job \in [Processes -> SUBSET Jobs] /\ j \in Jobs
  BY RowsAndJobs DEF ResInv, ResTypeOK
<1>2. PICK k : k = [j EXCEPT !.step = to]
  OBVIOUS
<1>3. k # j
  <2>1. k.step = to
    BY <1>1, <1>2, NewStep
  <2>2. QED BY <2>1
<1>4. PICK J : (J = {k} \/ J = {}) /\ job' = [job EXCEPT ![p] = J]
  BY <1>2 DEF Proceed, Drop
<1>5. job'[p] = J
  BY <1>1, <1>4
<1>6. QED BY <1>3, <1>4, <1>5

LEMMA SaveDisplaces ==
    ASSUME ResInv, AllFresh, NEW p \in Processes, NEW from, NEW to, from # to,
           Save(p, from, to), from \in {"reserve", "release", "status", "resave"},
           NEW u \in Users
    PROVE  Displaced(u)
<1>1. PICK j \in job[p] : j.step = from /\ machine' = {j.copy} /\ Proceed(p, j, to)
  BY DEF Save
<1>2. job'[p] # job[p]
  BY <1>1, JobChanges
<1>3. j.step \in {"reserve", "release"} \union Checking
  BY <1>1 DEF Checking
<1>4. QED BY <1>1, <1>2, <1>3, WriterEntitled

LEMMA NextDisplaces ==
    ASSUME ResInv, AllFresh, [Next]_vars, NEW u \in Users
    PROVE  Displaced(u)
<1>1. CASE machine' = machine
  BY <1>1 DEF Displaced, Ends
<1>2. ASSUME NEW p \in Processes, Continue(p), machine' # machine PROVE Displaced(u)
  <2>1. CASE SaveReservation(p) \/ SaveRelease(p) \/ SaveStatus(p) \/ SaveSync(p)
    BY <2>1, SaveDisplaces DEF SaveReservation, SaveRelease, SaveStatus, SaveSync
  <2>2. CASE DeleteVm(p)
    <3>1. PICK j \in job[p] : j.step = "delete" /\ machine' = {} /\ Drop(p)
      BY <2>2 DEF DeleteVm
    <3>2. job'[p] # job[p]
      BY <3>1, JobChanges
    <3>3. QED BY <3>1, <3>2, WriterEntitled
  <2>3. CASE SaveCheck(p)
    <3>1. PICK j \in job[p] :
              j.step \in {"checked", "last"} /\ machine' = {j.copy} /\ Drop(p)
      BY <2>3 DEF SaveCheck
    <3>2. job'[p] # job[p]
      BY <3>1, JobChanges
    <3>3. QED BY <3>1, <3>2, WriterEntitled DEF Checking
  <2>4. CASE TakeAway(p) \/ RecordRelease(p) \/ Enqueue(p) \/ Refresh(p)
    BY <1>2, <2>4 DEF TakeAway, RecordRelease, Record, Enqueue, Refresh
  <2>5. QED BY <1>2, <2>1, <2>2, <2>3, <2>4 DEF Continue
<1>3. ASSUME NEW w \in WebWorkers, NEW v \in Users, CreateVm(w, v) PROVE Displaced(u)
  BY <1>3 DEF CreateVm, Displaced, Ends
<1>4. CASE ~\E p \in Processes : Continue(p)
  <2>1. \/ machine' = machine
        \/ \E w \in WebWorkers, v \in Users : CreateVm(w, v)
    BY <1>4 DEF Next, vars, BeginReserve, BeginRelease, BeginExpiry, DecideRelease,
                BeginCheck, Execute, NextDay, RestartWeb
  <2>2. QED BY <1>1, <1>3, <2>1
<1>5. QED BY <1>1, <1>2, <1>4
-----------------------------------------------------------------------------
(* The accounts, as long as no request is lost with the web server.        *)
MotdPending(J) ==
    \/ \A m \in machine : motd = m.by
    \/ "motd" \in queued
    \/ \E k \in J : "motd" \in k.tasks

LEMMA AccountsOfJob ==
    ASSUME ResInv, NEW p \in Processes, NEW J, job' = [job EXCEPT ![p] = J],
           \A q \in Processes \ {p} : job[q] = {},
           \A i, k \in J : i = k,
           \A k \in J : Account(k)',
           J = {} /\ machine' # {} => AllSettled',
           kind' = kind,
           kind.reinstall = "no" => /\ \A k \in J : Tells(k)
                                    /\ "setup" \notin queued'
                                    /\ MotdPending(J)'
    PROVE  Accounts'
<1>1. job'[p] = J /\ \A q \in Processes : \A j \in job'[q] : q = p /\ j \in J
  BY OnlyItsJob
<1>2. OneJob'
  BY <1>1 DEF OneJob
<1>3. \A q \in Processes : \A j \in job'[q] : Account(j)'
  BY <1>1
<1>4. machine' # {} /\ (\A q \in Processes : job'[q] = {}) => AllSettled'
  BY <1>1
<1>5. kind'.reinstall = "no" => MotdKnown'
  <2> SUFFICES ASSUME kind.reinstall = "no" PROVE MotdKnown'
    OBVIOUS
  <2>1. \A q \in Processes : \A j \in job'[q] : Tells(j)
    BY <1>1
  <2>2. \/ \A m \in machine' : motd' = m.by
        \/ "motd" \in queued'
        \/ \E k \in J : "motd" \in k.tasks
    BY DEF MotdPending
  <2>3. QED BY <1>1, <2>1, <2>2 DEF MotdKnown, Tells
<1>6. QED BY <1>2, <1>3, <1>4, <1>5 DEF Accounts

(* What the accounts say to the one who has the only job.                  *)
LEMMA OwnAccount ==
    ASSUME ResInv, OneAtATime, Accounts, NEW p \in Processes, NEW j \in job[p]
    PROVE  /\ \A q \in Processes \ {p} : job[q] = {}
           /\ Account(j)
           /\ kind.reinstall = "no" =>
                 /\ Tells(j)
                 /\ "setup" \notin queued
                 /\ \/ \A m \in machine : motd = m.by
                    \/ "motd" \in queued
                    \/ "motd" \in j.tasks
<1>1. \A q \in Processes \ {p} : job[q] = {}
  BY OthersIdle
<1>2. Account(j)
  BY DEF Accounts
<1>3. ASSUME kind.reinstall = "no"
      PROVE  /\ Tells(j)
             /\ "setup" \notin queued
             /\ \/ \A m \in machine : motd = m.by
                \/ "motd" \in queued
                \/ "motd" \in j.tasks
  <2>1. MotdKnown /\ OneJob
    BY <1>3 DEF Accounts
  <2>2. \A q \in Processes : \A i \in job[q] : i = j
    BY <1>1, <2>1 DEF OneJob
  <2>3. QED BY <2>1, <2>2 DEF MotdKnown
<1>4. QED BY <1>1, <1>2, <1>3

(* What it says to the one who begins one.                                 *)
LEMMA OpeningAccount ==
    ASSUME ResInv, Accounts, \A q \in Processes : job[q] = {}
    PROVE  /\ machine # {} => AllSettled
           /\ kind.reinstall = "no" =>
                 /\ "setup" \notin queued
                 /\ (\A m \in machine : motd = m.by) \/ "motd" \in queued
  BY DEF Accounts, MotdKnown

(* The same row and history: the same is settled.                          *)
LEMMA SettledStill ==
    ASSUME UNCHANGED <<machine, history, stamps>>
    PROVE  /\ AllSettled' = AllSettled
           /\ \A s : Settled(s)' = Settled(s)
           /\ \A j : Account(j)' = Account(j)
  BY DEF AllSettled, Settled, Current, Account

(* A reservation written to the row is settled with it; a release written  *)
(* to the row leaves its entry to be recorded.                             *)
LEMMA SaveSettles ==
    ASSUME ResInv, NEW j, Fresh(j), Account(j), machine' = {j.copy},
           UNCHANGED <<history, stamps>>
    PROVE  /\ j.step \in Checking \union {"reserve"} => AllSettled'
           /\ j.step = "release" => \A s \in 1..stamps : s = j.entry \/ s \in history
<1>1. \A s : Current(s)' <=> j.copy.at = s
  BY DEF Current
<1>2. CASE j.step \in Checking
  <2>1. machine' = machine
    BY <1>2 DEF Fresh
  <2>2. AllSettled
    BY <1>2 DEF Account, Reserving, Checking
  <2>3. QED BY <1>2, <2>1, <2>2, SettledStill DEF Checking
<1>3. CASE j.step = "reserve"
  <2>1. PICK m \in machine : m.at = j.entry
    BY <1>3 DEF Fresh, Reserving
  <2>2. \A s : Current(s) <=> s = j.entry
    BY <2>1 DEF Current, ResInv, ResTypeOK
  <2>3. /\ j.copy.at \notin history
        /\ \A s \in 1..stamps : s \in {j.copy.at, j.entry} \/ Settled(s)
        /\ j.entry \in history \union {0, j.copy.at}
    BY <1>3 DEF Account, Reserving
  <2>4. ASSUME NEW s \in 1..stamps PROVE j.copy.at = s <=> s \notin history
    <3>1. CASE s = j.copy.at
      BY <2>3, <3>1
    <3>2. CASE s # j.copy.at /\ s = j.entry
      <4>1. s # 0
        BY <2>4 DEF ResInv, ResTypeOK
      <4>2. QED BY <2>3, <3>2, <4>1
    <3>3. CASE s \notin {j.copy.at, j.entry}
      BY <2>2, <2>3, <3>3 DEF Settled
    <3>4. QED BY <3>1, <3>2, <3>3
  <2>5. AllSettled'
    BY <1>1, <2>4 DEF AllSettled, Settled
  <2>6. QED BY <1>3, <2>5
<1>4. CASE j.step = "release"
  <2>1. PICK m \in machine : m.at = j.entry
    BY <1>4 DEF Fresh, Releasing
  <2>2. \A s : Current(s) <=> s = j.entry
    BY <2>1 DEF Current, ResInv, ResTypeOK
  <2>3. AllSettled
    BY <1>4 DEF Account, Reserving
  <2>4. \A s \in 1..stamps : s = j.entry \/ s \in history
    BY <2>2, <2>3 DEF AllSettled, Settled
  <2>5. QED BY <1>4, <2>4 DEF Checking
<1>5. QED BY <1>2, <1>3, <1>4

LEMMA SaveAccounts ==
    ASSUME ResInv, OneAtATime, AllFresh, Accounts, NEW p \in Processes, NEW from, NEW to,
           Save(p, from, to),
           \/ from = "reserve" /\ to = "notify"
           \/ from = "release" /\ to = "record"
           \/ from = "status" /\ to = "checked"
           \/ from = "resave" /\ to = "last"
    PROVE  Accounts'
<1>1. PICK j \in job[p] : /\ j.step = from
                          /\ machine' = {j.copy}
                          /\ Proceed(p, j, to)
                          /\ UNCHANGED <<history, Rest>>
  BY DEF Save
<1>2. j \in Jobs /\ Fresh(j) /\ Account(j)
  BY <1>1, RowsAndJobs, OwnAccount DEF AllFresh
<1>3. PICK k : k = [j EXCEPT !.step = to]
  OBVIOUS
<1>4. k.step = to /\ k.copy = j.copy /\ k.entry = j.entry /\ k.tasks = j.tasks
  BY <1>2, <1>3, NewStep
<1>5. PICK J : J = {k}
  OBVIOUS
<1>6. job' = [job EXCEPT ![p] = J]
  BY <1>1, <1>3, <1>5 DEF Proceed
<1>7. UNCHANGED <<history, stamps, kind, queued, motd>>
  BY <1>1 DEF Rest
<1>8. Account(k)'
  <2>1. CASE to = "record"
    <3>1. \A s \in 1..stamps : s = j.entry \/ s \in history
      BY <1>1, <1>2, <1>7, <2>1, SaveSettles
    <3>2. QED BY <1>4, <1>7, <2>1, <3>1 DEF Account, Reserving
  <2>2. CASE to # "record"
    <3>1. AllSettled'
      BY <1>1, <1>2, <1>7, <2>2, SaveSettles DEF Checking
    <3>2. QED BY <1>4, <2>2, <3>1 DEF Account, Reserving
  <2>3. QED BY <2>1, <2>2
<1>9. ASSUME kind.reinstall = "no"
      PROVE  (\A x \in J : Tells(x)) /\ "setup" \notin queued' /\ MotdPending(J)'
  <2>1. /\ Tells(j) /\ "setup" \notin queued
        /\ \/ \A m \in machine : motd = m.by
           \/ "motd" \in queued
           \/ "motd" \in j.tasks
    BY <1>1, <1>9, OwnAccount
  <2>2. \A x \in J : Tells(x)
    BY <1>1, <1>4, <1>5, <2>1 DEF Tells, Checking
  <2>3. CASE from \in Checking
    <3>1. machine' = machine
      BY <1>1, <1>2, <2>3 DEF Fresh
    <3>2. QED BY <1>4, <1>5, <1>7, <2>1, <2>2, <3>1 DEF MotdPending
  <2>4. CASE from \notin Checking
    <3>1. "motd" \in k.tasks
      BY <1>1, <1>4, <2>1, <2>4 DEF Tells
    <3>2. QED BY <1>5, <1>7, <2>1, <2>2, <3>1 DEF MotdPending
  <2>5. QED BY <2>3, <2>4
<1>10. \A q \in Processes \ {p} : job[q] = {}
  BY <1>1, OthersIdle
<1>11. \A x \in J : Account(x)'
  BY <1>5, <1>8
<1>12. QED BY <1>5, <1>6, <1>7, <1>9, <1>10, <1>11, AccountsOfJob

(* An entry recorded settles its reservation, or the row is about to.      *)
LEMMA RecordAccounts ==
    ASSUME ResInv, OneAtATime, AllFresh, Accounts, NEW p \in Processes, NEW from, NEW to,
           Record(p, from, to),
           \/ from = "takeAway" /\ to = "reserve"
           \/ from = "record" /\ to = "followUp"
    PROVE  Accounts'
<1>1. PICK j \in job[p] : /\ j.step = from
                          /\ \/ machine # {} /\ history' = history \union {j.entry} /\ Proceed(p, j, to)
                             \/ machine = {} /\ UNCHANGED history /\ Drop(p)
                          /\ UNCHANGED <<machine, Rest>>
  BY DEF Record
<1>2. j \in Jobs /\ Fresh(j) /\ Account(j)
  BY <1>1, RowsAndJobs, OwnAccount DEF AllFresh
<1>3. machine # {}
  BY <1>1, <1>2 DEF Fresh, Reserving
<1>4. history' = history \union {j.entry} /\ Proceed(p, j, to)
  BY <1>1, <1>3
<1>5. PICK k : k = [j EXCEPT !.step = to]
  OBVIOUS
<1>6. k.step = to /\ k.copy = j.copy /\ k.entry = j.entry /\ k.tasks = j.tasks
  BY <1>2, <1>5, NewStep
<1>7. PICK J : J = {k}
  OBVIOUS
<1>8. job' = [job EXCEPT ![p] = J]
  BY <1>4, <1>5, <1>7 DEF Proceed
<1>9. UNCHANGED <<machine, stamps, kind, queued, motd>>
  BY <1>1 DEF Rest
<1>10. Account(k)'
  <2>1. CASE from = "takeAway" /\ to = "reserve"
    <3>1. /\ j.copy.at \notin history /\ j.entry # j.copy.at
          /\ \A s \in 1..stamps : s \in {j.copy.at, j.entry} \/ Settled(s)
      BY <1>1, <1>2, <2>1 DEF Account, Reserving
    <3>2. j.copy.at \notin history'
      BY <1>4, <3>1
    <3>3. \A s : s # j.entry => (Settled(s)' <=> Settled(s))
      BY <1>4, <1>9 DEF Settled, Current
    <3>4. \A s \in 1..stamps' : s \in {j.copy.at, j.entry} \/ Settled(s)'
      BY <1>9, <3>1, <3>3
    <3>5. QED BY <1>4, <1>6, <2>1, <3>2, <3>4 DEF Account, Reserving
  <2>2. CASE from = "record" /\ to = "followUp"
    <3>1. \A s \in 1..stamps : s = j.entry \/ s \in history
      BY <1>1, <1>2, <2>2 DEF Account
    <3>2. machine' = {Free}
      BY <1>1, <1>2, <1>9, <2>2 DEF Fresh
    <3>3. ASSUME NEW s \in 1..stamps' PROVE Settled(s)'
      <4>1. s # 0 /\ s \in 1..stamps
        BY <1>9, <3>3 DEF ResInv, ResTypeOK
      <4>2. s \in history'
        BY <1>4, <3>1, <4>1
      <4>3. Free.at = 0
        BY DEF Free
      <4>4. QED BY <3>2, <4>1, <4>2, <4>3 DEF Settled, Current
    <3>4. AllSettled'
      BY <3>3 DEF AllSettled
    <3>5. QED BY <1>6, <2>2, <3>4 DEF Account, Reserving
  <2>3. QED BY <2>1, <2>2
<1>11. ASSUME kind.reinstall = "no"
       PROVE  (\A x \in J : Tells(x)) /\ "setup" \notin queued' /\ MotdPending(J)'
  <2>1. Tells(j) /\ "setup" \notin queued
    BY <1>1, <1>11, OwnAccount
  <2>2. k.tasks = {"motd"}
    BY <1>1, <1>6, <2>1 DEF Tells, Checking
  <2>3. Tells(k)
    BY <1>6, <2>2 DEF Tells, Checking
  <2>4. QED BY <1>7, <1>9, <2>1, <2>2, <2>3 DEF MotdPending
<1>12. \A q \in Processes \ {p} : job[q] = {}
  BY <1>1, OthersIdle
<1>13. \A x \in J : Account(x)'
  BY <1>7, <1>10
<1>14. QED BY <1>7, <1>8, <1>9, <1>11, <1>12, <1>13, AccountsOfJob

LEMMA RefreshAccounts ==
    ASSUME ResInv, OneAtATime, AllFresh, Accounts, NEW p \in Processes, Refresh(p)
    PROVE  Accounts'
<1>1. PICK j \in job[p] :
          /\ j.step = "checked"
          /\ \/ \E m \in machine :
                   job' = [job EXCEPT ![p] = {[j EXCEPT !.step = "resave", !.copy = m]}]
             \/ machine = {} /\ Drop(p)
          /\ UNCHANGED <<machine, history, Rest>>
  BY DEF Refresh
<1>2. j \in Jobs /\ Fresh(j) /\ Account(j)
  BY <1>1, RowsAndJobs, OwnAccount DEF AllFresh
<1>3. machine # {}
  BY <1>1, <1>2 DEF Fresh, Checking
<1>4. PICK m \in machine :
          job' = [job EXCEPT ![p] = {[j EXCEPT !.step = "resave", !.copy = m]}]
  BY <1>1, <1>3
<1>5. PICK k : k = [j EXCEPT !.step = "resave", !.copy = m]
  OBVIOUS
<1>6. k.step = "resave" /\ k.tasks = j.tasks
  BY <1>2, <1>5 DEF Jobs
<1>7. PICK J : J = {k} /\ job' = [job EXCEPT ![p] = J]
  BY <1>4, <1>5
<1>8. UNCHANGED <<machine, history, stamps, kind, queued, motd>>
  BY <1>1 DEF Rest
<1>9. AllSettled'
  BY <1>1, <1>2, <1>8, SettledStill DEF Account, Reserving
<1>10. Account(k)'
  BY <1>6, <1>9 DEF Account, Reserving
<1>11. ASSUME kind.reinstall = "no"
       PROVE  (\A x \in J : Tells(x)) /\ "setup" \notin queued' /\ MotdPending(J)'
  <2>1. /\ Tells(j) /\ "setup" \notin queued
        /\ \/ \A n \in machine : motd = n.by
           \/ "motd" \in queued
           \/ "motd" \in j.tasks
    BY <1>1, <1>11, OwnAccount
  <2>2. \A x \in J : Tells(x)
    BY <1>1, <1>6, <1>7, <2>1 DEF Tells, Checking
  <2>3. QED BY <1>6, <1>7, <1>8, <2>1, <2>2 DEF MotdPending
<1>12. \A q \in Processes \ {p} : job[q] = {}
  BY <1>1, OthersIdle
<1>13. \A x \in J : Account(x)'
  BY <1>7, <1>10
<1>14. QED BY <1>7, <1>8, <1>11, <1>12, <1>13, AccountsOfJob

(* A request that ends leaves everything settled.                          *)
LEMMA DropAccounts ==
    ASSUME ResInv, OneAtATime, Accounts, NEW p \in Processes, NEW j \in job[p], Drop(p),
           machine' # {} => AllSettled', kind' = kind,
           kind.reinstall = "no" => /\ "setup" \notin queued'
                                    /\ (\A m \in machine : motd = m.by)' \/ "motd" \in queued'
    PROVE  Accounts'
<1>1. PICK J : J = {} /\ job' = [job EXCEPT ![p] = J]
  BY DEF Drop
<1>2. \A q \in Processes \ {p} : job[q] = {}
  BY OthersIdle
<1>3. /\ \A i, k \in J : i = k
      /\ \A k \in J : Account(k)' /\ Tells(k)
  BY <1>1
<1>4. kind.reinstall = "no" => MotdPending(J)'
  BY DEF MotdPending
<1>5. QED BY <1>1, <1>2, <1>3, <1>4, AccountsOfJob

LEMMA EnqueueAccounts ==
    ASSUME ResInv, OneAtATime, Accounts, NEW p \in Processes, Enqueue(p)
    PROVE  Accounts'
<1>1. PICK j \in job[p] :
          /\ j.step \in {"notify", "followUp"}
          /\ queued' = queued \union j.tasks
          /\ Drop(p)
          /\ UNCHANGED <<machine, history, day, imported, kind, motd, stamps, restarts, blessed>>
  BY DEF Enqueue
<1>2. AllSettled
  BY <1>1, OwnAccount DEF Account, Reserving
<1>3. AllSettled'
  BY <1>1, <1>2, SettledStill
<1>4. kind.reinstall = "no" => "setup" \notin queued' /\ "motd" \in queued'
  <2>1. kind.reinstall = "no" => Tells(j) /\ "setup" \notin queued
    BY <1>1, OwnAccount
  <2>2. kind.reinstall = "no" => j.tasks = {"motd"}
    BY <1>1, <2>1 DEF Tells, Checking
  <2>3. QED BY <1>1, <2>1, <2>2
<1>5. QED BY <1>1, <1>3, <1>4, DropAccounts

LEMMA DeleteVmAccounts ==
    ASSUME ResInv, OneAtATime, Accounts, NEW p \in Processes, DeleteVm(p)
    PROVE  Accounts'
<1>1. PICK j \in job[p] : machine' = {} /\ Drop(p) /\ UNCHANGED Rest
  BY DEF DeleteVm
<1>2. UNCHANGED <<kind, queued>>
  BY <1>1 DEF Rest
<1>3. kind.reinstall = "no" => "setup" \notin queued'
  BY <1>1, <1>2, OwnAccount
<1>4. (\A m \in machine : motd = m.by)'
  BY <1>1
<1>5. QED BY <1>1, <1>2, <1>3, <1>4, DropAccounts

LEMMA SaveCheckAccounts ==
    ASSUME ResInv, OneAtATime, AllFresh, Accounts, NEW p \in Processes, SaveCheck(p)
    PROVE  Accounts'
<1>1. PICK j \in job[p] :
          /\ j.step \in {"checked", "last"}
          /\ machine' = {j.copy}
          /\ Drop(p)
          /\ UNCHANGED <<history, Rest>>
  BY DEF SaveCheck
<1>2. j.step \in Checking
  BY <1>1 DEF Checking
<1>3. Fresh(j) /\ Account(j)
  BY <1>1, OwnAccount DEF AllFresh
<1>4. UNCHANGED <<machine, history, stamps, kind, queued, motd>>
  BY <1>1, <1>2, <1>3 DEF Fresh, Rest
<1>5. AllSettled'
  BY <1>1, <1>3, <1>4, SettledStill DEF Account, Reserving
<1>6. kind.reinstall = "no" => /\ "setup" \notin queued'
                               /\ (\A m \in machine : motd = m.by)' \/ "motd" \in queued'
  <2>1. kind.reinstall = "no" =>
           /\ Tells(j) /\ "setup" \notin queued
           /\ \/ \A m \in machine : motd = m.by
              \/ "motd" \in queued
              \/ "motd" \in j.tasks
    BY <1>1, OwnAccount
  <2>2. Tells(j) => "motd" \notin j.tasks
    BY <1>2 DEF Tells
  <2>3. QED BY <1>4, <2>1, <2>2
<1>7. QED BY <1>1, <1>4, <1>5, <1>6, DropAccounts

LEMMA ContinueAccounts ==
    ASSUME ResInv, OneAtATime, AllFresh, Accounts, NEW p \in Processes, Continue(p)
    PROVE  Accounts'
<1>1. CASE TakeAway(p)
  BY <1>1, RecordAccounts DEF TakeAway
<1>2. CASE RecordRelease(p)
  BY <1>2, RecordAccounts DEF RecordRelease
<1>3. CASE SaveReservation(p)
  BY <1>3, SaveAccounts DEF SaveReservation
<1>4. CASE SaveRelease(p)
  BY <1>4, SaveAccounts DEF SaveRelease
<1>5. CASE SaveStatus(p)
  BY <1>5, SaveAccounts DEF SaveStatus
<1>6. CASE SaveSync(p)
  BY <1>6, SaveAccounts DEF SaveSync
<1>7. CASE Refresh(p)
  BY <1>7, RefreshAccounts
<1>8. CASE Enqueue(p)
  BY <1>8, EnqueueAccounts
<1>9. CASE DeleteVm(p)
  BY <1>9, DeleteVmAccounts
<1>10. CASE SaveCheck(p)
  BY <1>10, SaveCheckAccounts
<1>11. QED
  BY <1>1, <1>2, <1>3, <1>4, <1>5, <1>6, <1>7, <1>8, <1>9, <1>10 DEF Continue

(* A reservation decided on gets a stamp of its own unless it extends one, *)
(* and one that is taken away is to be recorded first.                     *)
LEMMA DecideAccounts ==
    ASSUME ResInv, OneAtATime', Accounts, NEW p \in Processes, NEW m \in Rows, Sound(m),
           NEW u, NEW for, NEW until, Decide(p, m, u, for, until),
           machine = {m} \/ (machine = {} /\ m = Free /\ stamps = 0),
           machine' = {m}, UNCHANGED <<history, queued, kind, motd>>
    PROVE  Accounts'
<1>0. PICK r : r = Reserved(m, u, for, until)
  OBVIOUS
<1>1. PICK k : k = [step |-> IF m.by \in {Nobody, u, for} THEN "reserve" ELSE "takeAway",
                    actor |-> u, copy |-> r, entry |-> m.at, tasks |-> {"motd"}]
  OBVIOUS
<1>2. /\ k.step = IF m.by \in {Nobody, u, for} THEN "reserve" ELSE "takeAway"
      /\ k.copy = r /\ k.entry = m.at /\ k.tasks = {"motd"}
  BY <1>1
<1>3. /\ Take(p, k)
      /\ stamps' = IF Kept(m, u, for) THEN stamps ELSE stamps + 1
  BY <1>0, <1>1 DEF Decide
<1>4. r.at = IF Kept(m, u, for) THEN m.at ELSE stamps + 1
  BY <1>0 DEF Reserved
<1>5. \A q \in Processes : job[q] = {}
  BY <1>3, BeginsAlone
<1>6. PICK J : J = {k} /\ job' = [job EXCEPT ![p] = J]
  BY <1>3 DEF Take
<1>7. stamps \in Nat /\ history \subseteq 1..stamps /\ m.at \in Nat
  BY DEF ResInv, ResTypeOK, HistoryDated, Rows
<1>8. m.at # 0 => m.at \in 1..stamps /\ machine = {m} /\ m.by # Nobody
  BY DEF Sound, Whole, Free
<1>9. machine = {m} => AllSettled
  BY <1>5, OpeningAccount
<1>10. r.at \notin history
  <2>1. CASE Kept(m, u, for)
    <3>1. m.at # 0 /\ r.at = m.at
      BY <1>4, <2>1 DEF Kept
    <3>2. AllSettled /\ Current(m.at) /\ m.at \in 1..stamps
      BY <1>8, <1>9, <3>1 DEF Current
    <3>3. QED BY <3>1, <3>2 DEF AllSettled, Settled
  <2>2. CASE ~Kept(m, u, for)
    BY <1>4, <1>7, <2>2
  <2>3. QED BY <2>1, <2>2
<1>11. ASSUME NEW s \in 1..stamps' PROVE s \in {r.at, m.at} \/ Settled(s)'
  <2>1. s = r.at \/ s \in 1..stamps
    BY <1>3, <1>4, <1>7, <1>11
  <2>2. CASE machine = {m} /\ s \in 1..stamps
    BY <1>9, <2>2 DEF AllSettled, Settled, Current
  <2>3. CASE stamps = 0 /\ s \in 1..stamps
    BY <2>3
  <2>4. QED BY <2>1, <2>2, <2>3
<1>12. k.step = "takeAway" => m.at # r.at
  <2>1. k.step = "takeAway" => ~Kept(m, u, for)
    BY <1>2 DEF Kept
  <2>2. QED BY <1>4, <1>7, <1>8, <2>1
<1>13. k.step = "reserve" => m.at \in {0, r.at}
  BY <1>2, <1>4 DEF Kept
<1>14. k.step \in Reserving
  BY <1>2 DEF Reserving
<1>15. Account(k)'
  BY <1>2, <1>10, <1>11, <1>12, <1>13, <1>14 DEF Account, Reserving
<1>16. ASSUME kind.reinstall = "no"
       PROVE  (\A x \in J : Tells(x)) /\ "setup" \notin queued' /\ MotdPending(J)'
  <2>1. "setup" \notin queued
    BY <1>5, <1>16, OpeningAccount
  <2>2. Tells(k)
    BY <1>2, <1>14 DEF Tells, Checking, Reserving
  <2>3. QED BY <1>2, <1>6, <2>1, <2>2 DEF MotdPending
<1>17. \A x \in J : Account(x)'
  BY <1>6, <1>15
<1>18. QED BY <1>5, <1>6, <1>16, <1>17, AccountsOfJob

LEMMA OpenedAccounts ==
    ASSUME ResInv, OneAtATime', Accounts, NEW p \in Processes, NEW k, Take(p, k),
           k.step \notin Reserving \union {"record"}, machine # {},
           kind.reinstall = "no" => Tells(k),
           UNCHANGED <<machine, history, stamps, queued, kind, motd>>
    PROVE  Accounts'
<1>1. \A q \in Processes : job[q] = {}
  BY BeginsAlone
<1>2. PICK J : J = {k} /\ job' = [job EXCEPT ![p] = J]
  BY DEF Take
<1>3. AllSettled'
  BY <1>1, OpeningAccount, SettledStill
<1>4. Account(k)'
  BY <1>3 DEF Account, Reserving
<1>5. ASSUME kind.reinstall = "no"
      PROVE  (\A x \in J : Tells(x)) /\ "setup" \notin queued' /\ MotdPending(J)'
  <2>1. "setup" \notin queued /\ ((\A m \in machine : motd = m.by) \/ "motd" \in queued)
    BY <1>1, <1>5, OpeningAccount
  <2>2. QED BY <1>2, <1>5, <2>1 DEF MotdPending
<1>6. \A x \in J : Account(x)'
  BY <1>2, <1>4
<1>7. QED BY <1>1, <1>2, <1>5, <1>6, AccountsOfJob

LEMMA DecideReleaseAccounts ==
    ASSUME ResInv, OneAtATime', Accounts, NEW p \in Processes, NEW m \in machine, NEW u,
           DecideRelease(p, m, u)
    PROVE  Accounts'
<1>1. PICK k : k = [step |-> IF kind.vm THEN "delete" ELSE "release",
                    actor |-> u, copy |-> Free, entry |-> m.at, tasks |-> FollowUp]
  OBVIOUS
<1>2. k.step \in Releasing /\ k.tasks = FollowUp
  BY <1>1 DEF Releasing
<1>3. kind.reinstall = "no" => FollowUp = {"motd"}
  BY DEF FollowUp
<1>4. kind.reinstall = "no" => Tells(k)
  BY <1>2, <1>3 DEF Tells, Releasing, Checking
<1>5. Take(p, k) /\ UNCHANGED <<machine, history, stamps, queued, kind, motd>>
  BY <1>1 DEF DecideRelease
<1>6. k.step \notin Reserving \union {"record"}
  BY <1>2 DEF Releasing, Reserving
<1>7. QED BY <1>4, <1>5, <1>6, OpenedAccounts

LEMMA BeginCheckAccounts ==
    ASSUME ResInv, OneAtATime', Accounts, NEW t \in TaskThreads, BeginCheck(t)
    PROVE  Accounts'
<1>1. PICK m \in machine, step \in {"status", "last"} :
          Take(t, [step |-> step, actor |-> Nobody, copy |-> m, entry |-> 0, tasks |-> {}])
  BY DEF BeginCheck
<1>2. PICK k : k = [step |-> step, actor |-> Nobody, copy |-> m, entry |-> 0, tasks |-> {}]
  OBVIOUS
<1>3. k.step \in {"status", "last"} /\ k.tasks = {}
  BY <1>2
<1>4. Tells(k) /\ k.step \notin Reserving \union {"record"}
  BY <1>3 DEF Tells, Checking, Reserving
<1>5. /\ Take(t, k) /\ t \in Processes
      /\ UNCHANGED <<machine, history, stamps, queued, kind, motd>>
  BY <1>1, <1>2 DEF BeginCheck, Processes
<1>6. QED BY <1>4, <1>5, OpenedAccounts

(* A task executed writes what the row says.                               *)
LEMMA ExecuteAccounts ==
    ASSUME ResInv, Accounts, NEW task \in queued, Execute(task)
    PROVE  Accounts'
<1>1. /\ UNCHANGED <<machine, history, job, stamps, kind>>
      /\ queued' = queued \ {task} /\ task \in {"motd", "setup"}
      /\ motd' = CASE task = "motd" /\ machine # {} -> (CHOOSE m \in machine : TRUE).by
                   [] task = "motd" /\ machine = {} -> motd
                   [] task = "setup"                -> Nobody
  BY DEF Execute, ResInv, ResTypeOK
<1>2. OneJob'
  BY <1>1 DEF Accounts, OneJob
<1>3. \A p \in Processes : \A j \in job'[p] : Account(j)'
  BY <1>1, SettledStill DEF Accounts
<1>4. machine' # {} /\ (\A p \in Processes : job'[p] = {}) => AllSettled'
  BY <1>1, SettledStill DEF Accounts
<1>5. ASSUME kind.reinstall = "no" PROVE MotdKnown'
  <2>1. task = "motd" /\ "setup" \notin queued /\ \A p \in Processes : \A j \in job[p] : Tells(j)
    BY <1>1, <1>5 DEF Accounts, MotdKnown
  <2>2. ASSUME NEW m \in machine PROVE motd' = m.by
    <3>1. (CHOOSE n \in machine : TRUE) = m
      BY <2>2 DEF ResInv, ResTypeOK
    <3>2. QED BY <1>1, <2>1, <2>2, <3>1
  <2>3. QED BY <1>1, <2>1, <2>2 DEF MotdKnown, Tells
<1>6. QED BY <1>1, <1>2, <1>3, <1>4, <1>5 DEF Accounts

LEMMA SameAccounts ==
    ASSUME Accounts, UNCHANGED <<machine, history, job, stamps, kind, queued, motd>>
    PROVE  Accounts'
<1>1. OneJob' = OneJob
  BY DEF OneJob
<1>2. \A p \in Processes : \A j \in job'[p] : Account(j)'
  BY SettledStill DEF Accounts
<1>3. AllSettled' = AllSettled
  BY SettledStill
<1>4. MotdKnown => MotdKnown'
  BY DEF MotdKnown, Tells
<1>5. QED BY <1>1, <1>2, <1>3, <1>4 DEF Accounts

LEMMA NextAccounts ==
    ASSUME ResInv, OneAtATime, OneAtATime', AllFresh, Accounts, [Next]_vars, ~RestartWeb
    PROVE  Accounts'
<1>0. \A m, n \in machine : m = n
  BY DEF ResInv, ResTypeOK
<1>1. ASSUME NEW w \in WebWorkers, NEW u \in Users, NEW for \in Users,
             NEW until \in 0..(LastDay + MaxPeriod), BeginReserve(w, u, for, until)
      PROVE  Accounts'
  <2>1. PICK m \in machine : Decide(w, m, u, for, until)
    BY <1>1 DEF BeginReserve
  <2>2. m \in Rows /\ Sound(m) /\ machine = {m} /\ w \in Processes
    BY <1>0, RowsAndJobs DEF Processes
  <2>3. machine' = {m} /\ UNCHANGED <<history, queued, kind, motd>>
    BY <1>1, <2>2 DEF BeginReserve
  <2>4. QED BY <2>1, <2>2, <2>3, DecideAccounts
<1>2. ASSUME NEW w \in WebWorkers, NEW u \in Users, CreateVm(w, u) PROVE Accounts'
  <2>1. /\ Decide(w, Free, u, u, imported + VmPeriod)
        /\ machine = {} /\ stamps = 0 /\ machine' = {Free}
        /\ UNCHANGED <<history, queued, kind, motd>>
        /\ w \in Processes
    BY <1>2 DEF CreateVm, Processes
  <2>2. Free \in Rows /\ Sound(Free)
    BY FreeSound DEF ResInv
  <2>3. PICK f : f = Free
    OBVIOUS
  <2>4. QED BY <2>1, <2>2, <2>3, DecideAccounts
<1>3. ASSUME NEW w \in WebWorkers, NEW u \in Users, BeginRelease(w, u) PROVE Accounts'
  BY <1>3, DecideReleaseAccounts DEF BeginRelease, Processes
<1>4. ASSUME NEW t \in TaskThreads, BeginExpiry(t) PROVE Accounts'
  BY <1>4, DecideReleaseAccounts DEF BeginExpiry, Processes
<1>5. ASSUME NEW t \in TaskThreads, BeginCheck(t) PROVE Accounts'
  BY <1>5, BeginCheckAccounts
<1>6. ASSUME NEW p \in Processes, Continue(p) PROVE Accounts'
  BY <1>6, ContinueAccounts
<1>7. ASSUME NEW task \in queued, Execute(task) PROVE Accounts'
  BY <1>7, ExecuteAccounts
<1>8. CASE NextDay \/ UNCHANGED vars
  BY <1>8, SameAccounts DEF NextDay, vars
<1>9. QED
  BY <1>1, <1>2, <1>3, <1>4, <1>5, <1>6, <1>7, <1>8 DEF Next

LEMMA RestartsStay ==
    ASSUME ResInv, [Next]_vars
    PROVE  /\ restarts' = 0 => restarts = 0
           /\ restarts' = 0 => ~RestartWeb
<1>1. CASE RestartWeb
  BY <1>1 DEF RestartWeb, ResInv, ResTypeOK
<1>2. CASE ~RestartWeb
  BY <1>2 DEF Next, vars, BeginReserve, CreateVm, BeginRelease, BeginExpiry, DecideRelease,
              BeginCheck, Continue, TakeAway, SaveReservation, SaveRelease, RecordRelease,
              SaveStatus, SaveSync, Save, Record, Enqueue, DeleteVm, Refresh, SaveCheck,
              Execute, NextDay, Rest
<1>3. QED BY <1>1, <1>2
-----------------------------------------------------------------------------
LEMMA InitSerial == Init => SerialInv
<1> SUFFICES ASSUME Init PROVE SerialInv
  OBVIOUS
<1>1. /\ \A p \in Processes : job[p] = {}
      /\ history = {} /\ queued = {} /\ stamps = 0 /\ motd = Nobody
      /\ machine \in SUBSET {Free}
  BY DEF Init
<1>2. AllFresh /\ OneJob /\ \A p \in Processes : \A j \in job[p] : Account(j)
  BY <1>1 DEF AllFresh, OneJob
<1>3. AllSettled
  BY <1>1 DEF AllSettled
<1>4. MotdKnown
  BY <1>1 DEF MotdKnown, Free
<1>5. QED BY <1>2, <1>3, <1>4 DEF SerialInv, Accounts

LEMMA NextSerial ==
    ResInv /\ OneAtATime /\ OneAtATime' /\ SerialInv /\ [Next]_vars => SerialInv'
<1> SUFFICES ASSUME ResInv, OneAtATime, OneAtATime', SerialInv, [Next]_vars
             PROVE  SerialInv'
  OBVIOUS
<1>1. AllFresh'
  BY NextFresh DEF SerialInv
<1>2. restarts' = 0 => Accounts'
  BY NextAccounts, RestartsStay DEF SerialInv
<1>3. QED BY <1>1, <1>2 DEF SerialInv

LEMMA SerialInvariance == Spec /\ []OneAtATime => []SerialInv
<1>1. QED BY InitSerial, NextSerial, ResInvariance, PTL DEF Spec

(* Requests and tasks that come one after the other lose no reservation:   *)
(* unless the web server was restarted in the middle of one, whatever was  *)
(* begun is on the row or in the history, or a request is about to see to  *)
(* it (Machine.reserve and release).                                       *)
THEOREM SerialHistory == Spec /\ []OneAtATime => [](restarts = 0 => HistoryComplete)
<1>1. ASSUME ResInv, SerialInv, restarts = 0 PROVE HistoryComplete
  <2> SUFFICES ASSUME machine # {}, NEW s \in 1..stamps
               PROVE  InProgress(s) \/ Settled(s)
    BY DEF HistoryComplete, Settled
  <2>1. Accounts
    BY <1>1 DEF SerialInv
  <2>2. CASE \A p \in Processes : job[p] = {}
    BY <2>1, <2>2 DEF Accounts, AllSettled
  <2>3. ASSUME NEW p \in Processes, NEW j \in job[p] PROVE InProgress(s) \/ Settled(s)
    <3>1. Account(j) /\ Fresh(j)
      BY <1>1, <2>1, <2>3 DEF Accounts, SerialInv, AllFresh
    <3>2. CASE j.step \in Reserving
      BY <2>3, <3>1, <3>2 DEF Account, InProgress
    <3>3. CASE j.step = "record"
      <4>1. s # 0 /\ Free.at = 0
        BY <1>1 DEF ResInv, ResTypeOK, Free
      <4>2. ~Current(s)
        BY <3>1, <3>3, <4>1 DEF Fresh, Current
      <4>3. QED BY <2>3, <3>1, <3>3, <4>2 DEF Account, InProgress, Settled
    <3>4. CASE j.step \notin Reserving \union {"record"}
      BY <3>1, <3>4 DEF Account, AllSettled
    <3>5. QED BY <3>2, <3>3, <3>4
  <2>4. QED BY <2>2, <2>3
<1>2. ResInv /\ SerialInv => (restarts = 0 => HistoryComplete)
  BY <1>1
<1>3. QED BY <1>2, ResInvariance, SerialInvariance, PTL

(* On the same conditions a machine at rest tells whoever logs in to whom  *)
(* it is reserved (RegenerateMOTD, requested by reserve and release).      *)
THEOREM SerialMotd == Spec /\ []OneAtATime => [](restarts = 0 => MotdCurrent)
<1>1. SerialInv => (restarts = 0 => MotdCurrent)
  BY DEF SerialInv, Accounts, MotdKnown, MotdCurrent, AtRest
<1>2. QED BY <1>1, SerialInvariance, PTL

(* Whoever takes a reservation away from its holder when requests do not   *)
(* overlap is the holder, a superuser, or the task manager after it has    *)
(* expired (check_permission), restarts or not.                            *)
THEOREM SerialDisplacement == Spec /\ []OneAtATime => DisplacedByRight
<1>1. ResInv /\ SerialInv /\ [Next]_vars =>
         [\A u \in Users : Ends(u) =>
             \E p \in Processes : job'[p] # job[p] /\ \E j \in job[p] : Entitled(j, u)]_vars
  BY NextDisplaces DEF SerialInv, Displaced
<1>2. QED BY <1>1, ResInvariance, SerialInvariance, PTL DEF Spec, DisplacedByRight
=============================================================================
