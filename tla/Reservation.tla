----------------------------- MODULE Reservation ----------------------------
(***************************************************************************)
(* One machine and its reservation: the web and API requests that reserve  *)
(* and release it, the task threads that check its expiration and its      *)
(* status, and the rows all of them read once and later write back whole.  *)
(*                                                                         *)
(* A request is authorised by the copy it read.  One action is one access  *)
(* to the database; what happens between two of them is not protected by a *)
(* transaction or a lock.  The machine is not administrative.              *)
(***************************************************************************)
EXTENDS Naturals, FiniteSets

CONSTANTS Users, Superusers, Nobody,
          WebWorkers,  \* what handles a request from beginning to end
          TaskThreads, \* what executes a task from beginning to end
          MachineKinds, \* what the machine may be, see Kinds
          MaxPeriod,   \* 90 days
          VmPeriod,    \* 30 days
          LastDay, MaxStamp, MaxRestarts \* bounds of the model

ASSUME UsersAssumption == Superusers \subseteq Users /\ Nobody \notin Users

(***************************************************************************)
(* A managed VM to be deleted automatically or not; autoreinstall, and     *)
(* whether the domain supports the setup of its architecture.              *)
(***************************************************************************)
Kinds == [vm : BOOLEAN, reinstall : {"no", "yes", "unsupported"}]

ASSUME KindsAssumption == MachineKinds \subseteq Kinds

ASSUME PeriodAssumption ==
    /\ MaxPeriod \in Nat
    /\ VmPeriod \in Nat
    /\ VmPeriod <= MaxPeriod
    /\ LastDay \in Nat
    /\ MaxStamp \in Nat
    /\ MaxRestarts \in Nat

VARIABLES
    machine,     \* the row, as a set: empty once (or until) there is none
    history,     \* ReservationHistory: the reserved_at of its rows
    job,         \* per worker or thread: what it has in hand, as a set
    queued,      \* the follow-up tasks requested
    day,
    imported,    \* the day on which the web processes imported utils.misc
    kind,        \* a member of MachineKinds
    motd,        \* whom the machine's message of the day says it is reserved by
    stamps, restarts,
    blessed      \* history: reservations a superuser made permanent

vars == <<machine, history, job, queued, day, imported, kind, motd,
          stamps, restarts, blessed>>

Processes == WebWorkers \union TaskThreads

(***************************************************************************)
(* reserved_at is a stamp, so that it tells reservations apart; reserved_at *)
(* and reserved_until are 0 for NULL.                                      *)
(***************************************************************************)
Rows == [by : Users \union {Nobody}, at : Nat, until : Nat, permanent : BOOLEAN]

Free == [by |-> Nobody, at |-> 0, until |-> 0, permanent |-> FALSE]

Steps == {"takeAway", "reserve", "notify",            \* Machine.reserve
          "delete", "release", "record", "followUp",  \* Machine.release
          "status", "checked", "resave", "last"}      \* MachineCheck.execute

Jobs == [step : Steps, actor : Users \union {Nobody}, copy : Rows, entry : Nat,
         tasks : SUBSET {"motd", "setup"}]

Init ==
    /\ kind \in MachineKinds
    /\ machine = IF kind.vm THEN {} ELSE {Free}
    /\ motd = Nobody
    /\ history = {}
    /\ job = [p \in Processes |-> {}]
    /\ queued = {}
    /\ day = 1
    /\ imported = 1
    /\ stamps = 0
    /\ restarts = 0
    /\ blessed = {}

-----------------------------------------------------------------------------
(* Machine.reserve: the decision, made on the row as read.                 *)
MayReserve(u, m) == u \in Superusers \/ m.by \in {u, Nobody}

Take(p, j) == job[p] = {} /\ job' = [job EXCEPT ![p] = {j}]

KeptByAll(m, u, for) == m.at # 0
Kept(m, u, for) == m.at # 0 /\ m.by \in {Nobody, u, for}

Unstamped(m, u, for, until) ==
    [by |-> for, at |-> m.at, until |-> until, permanent |-> until = 0]

StillPermanent(m, u, for, until) ==
    [by |-> for, at |-> IF Kept(m, u, for) THEN m.at ELSE stamps + 1,
     until |-> until, permanent |-> m.permanent]

Reserved(m, u, for, until) ==
    [by |-> for, at |-> IF Kept(m, u, for) THEN m.at ELSE stamps + 1,
     until |-> until, permanent |-> until = 0]

Decide(p, m, u, for, until) ==
    /\ Kept(m, u, for) \/ stamps < MaxStamp
    /\ Take(p, [step |-> IF m.by \in {Nobody, u, for} THEN "reserve" ELSE "takeAway",
                actor |-> u, copy |-> Reserved(m, u, for, until), entry |-> m.at,
                tasks |-> {"motd"}])
    /\ stamps' = IF Kept(m, u, for) THEN stamps ELSE stamps + 1
    /\ blessed' = IF until = 0 /\ u \in Superusers
                  THEN blessed \union {Reserved(m, u, for, until).at}
                  ELSE blessed

(* ReserveMachineForm.clean, and only superusers leave the date empty.     *)
PermanentForAll(u) == (day + 1)..(day + MaxPeriod) \union {0}
LongerDate(u) == (day + 1)..(day + MaxPeriod + 1)
AllowedDate(u) ==
    (day + 1)..(day + MaxPeriod) \union (IF u \in Superusers THEN {0} ELSE {})

BeginReserve(w, u, for, until) ==
    /\ \E m \in machine : MayReserve(u, m) /\ Decide(w, m, u, for, until)
    /\ until \in AllowedDate(u)
    /\ UNCHANGED <<machine, history, queued, day, imported, kind, motd, restarts>>

(* virtualization_add: the new row, and a reservation from a date no form  *)
(* checks, 30 days after the default argument of add_offset_to_date.       *)
CreateVm(w, u) ==
    /\ kind.vm
    /\ machine = {}
    /\ stamps = 0
    /\ machine' = {Free}
    /\ Decide(w, Free, u, u, imported + VmPeriod)
    /\ UNCHANGED <<history, queued, day, imported, kind, motd, restarts>>

(* Machine.release on behalf of a user; CheckReservationExpiration calls it *)
(* without the user keyword, so nobody is asked.                           *)
ReleaseAnyway(u, m) == TRUE
MayRelease(u, m) == u \in Superusers \/ m.by = u

(* autoreinstall without the capability: neither setup nor a new message.  *)
NoFollowUp == {}
FollowUp == CASE kind.reinstall = "no"          -> {"motd"}
              [] kind.reinstall = "yes"         -> {"setup"}
              [] kind.reinstall = "unsupported" -> {}

DecideRelease(p, m, u) ==
    /\ m.by # Nobody
    /\ Take(p, [step |-> IF kind.vm THEN "delete" ELSE "release",
                actor |-> u, copy |-> Free, entry |-> m.at,
                tasks |-> FollowUp])
    /\ UNCHANGED <<machine, history, queued, day, imported, kind, motd, stamps, restarts, blessed>>

BeginRelease(w, u) == \E m \in machine : MayRelease(u, m) /\ DecideRelease(w, m, u)

ExpiredDayBefore(m) == m.until # 0 /\ m.until + 1 < day
Expired(m) == m.until # 0 /\ m.until < day

Due(m) == m.by # Nobody /\ Expired(m)

BeginExpiry(t) == \E m \in machine : Due(m) /\ DecideRelease(t, m, Nobody)

(* MachineCheck.execute reads the row and goes off to ping and log in; if  *)
(* it is to look at the installations only, it saves but once.             *)
BeginCheck(t) ==
    /\ \E m \in machine, step \in {"status", "last"} :
          Take(t, [step |-> step, actor |-> Nobody, copy |-> m, entry |-> 0, tasks |-> {}])
    /\ UNCHANGED <<machine, history, queued, day, imported, kind, motd, stamps, restarts, blessed>>

-----------------------------------------------------------------------------
(* The accesses that follow.                                               *)
Proceed(p, j, step) == job' = [job EXCEPT ![p] = {[j EXCEPT !.step = step]}]

Drop(p) == job' = [job EXCEPT ![p] = {}]

Rest == <<queued, day, imported, kind, motd, stamps, restarts, blessed>>

(* save(): UPDATE of every column, or INSERT if the row is gone.           *)
Save(p, from, to) ==
    \E j \in job[p] :
        /\ j.step = from
        /\ machine' = {j.copy}
        /\ Proceed(p, j, to)
        /\ UNCHANGED <<history, Rest>>

(* ReservationHistory.save(): refused when its machine is gone.            *)
Record(p, from, to) ==
    \E j \in job[p] :
        /\ j.step = from
        /\ \/ machine # {} /\ history' = history \union {j.entry} /\ Proceed(p, j, to)
           \/ machine = {} /\ UNCHANGED history /\ Drop(p)
        /\ UNCHANGED <<machine, Rest>>

TakeAway(p)        == Record(p, "takeAway", "reserve")
SaveReservation(p) == Save(p, "reserve", "notify")
SaveRelease(p)     == Save(p, "release", "record")
RecordRelease(p)   == Record(p, "record", "followUp")
SaveStatus(p)      == Save(p, "status", "checked")
SaveSync(p)        == Save(p, "resave", "last")

DeleteVm(p) ==
    \E j \in job[p] :
        /\ j.step = "delete"
        /\ machine' = {}
        /\ history' = {}
        /\ Drop(p)
        /\ UNCHANGED Rest

(* TaskManager.add for the message of the day or the new setup.  The mail  *)
(* to a new holder is left out: it changes nothing here.                   *)
Enqueue(p) ==
    \E j \in job[p] :
        /\ j.step \in {"notify", "followUp"}
        /\ queued' = queued \union j.tasks
        /\ Drop(p)
        /\ UNCHANGED <<machine, history, day, imported, kind, motd, stamps, restarts, blessed>>

(* sync: refresh_from_db, which raises if there is no row.                 *)
Refresh(p) ==
    \E j \in job[p] :
        /\ j.step = "checked"
        /\ \/ \E m \in machine :
                 job' = [job EXCEPT ![p] = {[j EXCEPT !.step = "resave", !.copy = m]}]
           \/ machine = {} /\ Drop(p)
        /\ UNCHANGED <<machine, history, Rest>>

SaveCheck(p) ==
    \E j \in job[p] :
        /\ j.step \in {"checked", "last"}
        /\ machine' = {j.copy}
        /\ Drop(p)
        /\ UNCHANGED <<history, Rest>>

Continue(p) ==
    \/ TakeAway(p) \/ SaveReservation(p) \/ Enqueue(p)
    \/ SaveRelease(p) \/ RecordRelease(p) \/ DeleteVm(p)
    \/ SaveStatus(p) \/ Refresh(p) \/ SaveSync(p) \/ SaveCheck(p)

(* A follow-up task is executed.  RegenerateMOTD writes what the row says  *)
(* now; SetupMachine installs the machine anew.                            *)
Execute(task) ==
    /\ task \in queued
    /\ queued' = queued \ {task}
    /\ motd' = CASE task = "motd" /\ machine # {} -> (CHOOSE m \in machine : TRUE).by
                 [] task = "motd" /\ machine = {} -> motd
                 [] task = "setup"                -> Nobody
    /\ UNCHANGED <<machine, history, job, day, imported, kind, stamps, restarts, blessed>>

NextDay ==
    /\ day < LastDay
    /\ day' = day + 1
    /\ UNCHANGED <<machine, history, job, queued, imported, kind, motd, stamps, restarts, blessed>>

(* The web server is started anew: requests in progress are gone.          *)
RestartWeb ==
    /\ restarts < MaxRestarts
    /\ restarts' = restarts + 1
    /\ imported' = day
    /\ job' = [p \in Processes |-> IF p \in WebWorkers THEN {} ELSE job[p]]
    /\ UNCHANGED <<machine, history, queued, day, kind, motd, stamps, blessed>>

Next ==
    \/ \E w \in WebWorkers, u \in Users :
          \/ \E for \in Users, until \in 0..(LastDay + MaxPeriod) : BeginReserve(w, u, for, until)
          \/ CreateVm(w, u)
          \/ BeginRelease(w, u)
    \/ \E t \in TaskThreads : BeginExpiry(t) \/ BeginCheck(t)
    \/ \E p \in Processes : Continue(p)
    \/ \E task \in queued : Execute(task)
    \/ NextDay \/ RestartWeb

Spec == Init /\ [][Next]_vars

(***************************************************************************)
(* Requests and tasks once begun go on.  The check of an expired           *)
(* reservation is requested every day and, as TaskExecuter shows, executed *)
(* in its turn however often other tasks are.                              *)
(***************************************************************************)
FairSpec ==
    /\ Spec
    /\ \A p \in Processes : WF_vars(Continue(p))
    /\ \A t \in TaskThreads : SF_vars(BeginExpiry(t))
-----------------------------------------------------------------------------
(* Properties                                                              *)

ResTypeOK ==
    /\ machine \in SUBSET Rows
    /\ \A m, n \in machine : m = n
    /\ history \in SUBSET Nat
    /\ job \in [Processes -> SUBSET Jobs]
    /\ queued \in SUBSET {"motd", "setup"}
    /\ day \in Nat \ {0} /\ imported \in Nat \ {0}
    /\ stamps \in Nat /\ restarts \in Nat
    /\ imported <= day
    /\ kind \in MachineKinds
    /\ motd \in Users \union {Nobody}
    /\ blessed \in SUBSET Nat

(* A row is whole: reserved_by, reserved_at and reserved_until are set and *)
(* cleared together, permanence and the missing date go together, and the  *)
(* stamp is one that was given out.                                        *)
Whole(m) ==
    /\ m.by = Nobody => m = Free
    /\ m.by # Nobody => m.at \in 1..stamps /\ (m.permanent <=> m.until = 0)

Period(m) == m.until <= day + MaxPeriod

Granted(m) == m.permanent => m.at \in blessed

(* However stale the copies that are written, no row mixes the columns of  *)
(* two reservations.                                                       *)
RowWhole == \A m \in machine : Whole(m)

(* No machine is ever reserved for longer than the form allows, by day,    *)
(* unless permanently.                                                     *)
PeriodRespected == \A m \in machine : Period(m)

(* A permanent reservation was made so by a superuser; neither an          *)
(* extension nor an old copy of the row makes another one permanent.       *)
PermanentGranted == \A m \in machine : Granted(m)

(* ReservationHistory never gets a NULL reserved_at, which its table would *)
(* refuse after the reservation is already gone.                           *)
HistoryDated == history \subseteq 1..stamps

(* What makes these inductive: every copy in hand is like a row, and who   *)
(* will write a history row has the date for it.                           *)
CopiesSound ==
    \A p \in Processes : \A j \in job[p] :
        /\ Whole(j.copy) /\ Period(j.copy) /\ Granted(j.copy)
        /\ j.step \in {"takeAway", "record", "release"} => j.entry \in 1..stamps

ResInv ==
    /\ ResTypeOK
    /\ RowWhole
    /\ PeriodRespected
    /\ PermanentGranted
    /\ HistoryDated
    /\ CopiesSound

(* check_permission: a reservation is ended or taken over only by its      *)
(* owner, by a superuser, or by the task manager once it has expired.      *)
Ends(u) == /\ \E m \in machine : m.by = u
           /\ ~\E m \in machine' : m.by = u

Entitled(j, u) == \/ j.actor \in Superusers \union {u}
                  \/ j.actor = Nobody /\ \E m \in machine : Expired(m)

DisplacedByRight ==
    [][\A u \in Users : Ends(u) =>
          \E p \in Processes : job'[p] # job[p] /\ \E j \in job[p] : Entitled(j, u)]_vars

(* If requests do not overlap, every reservation that was ever begun is    *)
(* either the current one or has its entry in the history, or a request is *)
(* about to write the row or the entry.                                    *)
InProgress(s) == \E p \in Processes : \E j \in job[p] : s \in {j.copy.at, j.entry}

Current(s) == \E m \in machine : m.at = s

HistoryComplete ==
    machine # {} =>
        \A s \in 1..stamps : \/ InProgress(s)
                             \/ Current(s) /\ s \notin history
                             \/ ~Current(s) /\ s \in history

(* If requests do not overlap, a machine at rest that is not reinstalled   *)
(* when it is released tells whoever logs in to whom it is reserved.       *)
AtRest == queued = {} /\ \A p \in Processes : job[p] = {}

MotdCurrent ==
    AtRest /\ kind.reinstall = "no" => \A m \in machine : motd = m.by

(* A reservation that has expired is removed (CheckReservationExpirations, *)
(* once a day), however it came to be through reservations, extensions,    *)
(* hand-overs, takeovers and checks that followed each other.              *)
Overdue == \E m \in machine : m.by # Nobody /\ m.until # 0 /\ m.until < day

ExpiredReleased == Overdue ~> ~Overdue
=============================================================================
