----------------------------- MODULE ShellySync -----------------------------
(***************************************************************************)
(* How the schedules of a Shelly get into its own table of cron jobs       *)
(* (services/shelly-schedules.js and its callers).  A synchronisation      *)
(* reads the version and then the rows, keeps the jobs that fit into the   *)
(* table, lists the table and writes only the difference.  On a filtered   *)
(* line a connection carries a few calls and closes; synchronisations of   *)
(* one unit are not serialised; the fit depends on the day, so the whole   *)
(* fleet is synchronised again every day.                                  *)
(*                                                                         *)
(* A job stands for its cron line and its calls: what matters here is its  *)
(* weekday and its place in the week.  Sys.GetConfig, Sys.SetConfig and    *)
(* Schedule.List are one call.  The server's is_online is the state of the *)
(* connection.                                                             *)
(***************************************************************************)
EXTENDS Integers, FiniteSets, FiniteSetsExt

CONSTANTS
    Jobs,          \* the jobs that the customer may schedule
    FirstJobs,     \* those that are there when the unit is registered
    DayOf, TimeOf, \* weekday and time of day of a job
    Week,          \* days of a week
    Cap,           \* MAX_SHELLY_JOBS
    Window,        \* calls that one connection carries
    Slots,         \* bound: synchronisations and wipes under way together
    NoJob,         \* an empty place of the table
    MaxChanges     \* bound: edits, midnights, removals and restarts of the server together

ASSUME ShellyAssumption ==
    /\ IsFiniteSet(Jobs) /\ FirstJobs \subseteq Jobs /\ NoJob \notin Jobs
    /\ Week \in Nat \ {0} /\ DayOf \in [Jobs -> 0..(Week - 1)] /\ TimeOf \in [Jobs -> Nat]
    /\ Cap \in Nat /\ Window \in Nat \ {0} /\ MaxChanges \in Nat
    /\ IsFiniteSet(Slots)

VARIABLES
    day, refreshed,          \* days since the beginning; has the daily refresh of today run
    rows, version,           \* schedules and devices.schedule_version
    syncStatus, owned,       \* devices.sync_status; the unit is registered (device_uid, is_enabled)
    table,                   \* unit: the jobs, by id
    window,                  \* calls left on this connection, 0 when there is none
    syncs,                   \* synchronisations and wipes under way
    trouble,                 \* bound
    tangled, wiped           \* history: see Begin and Wipe

unit    == <<table, window>>
vars    == <<day, refreshed, rows, version, syncStatus, owned, unit, syncs, trouble, tangled, wiped>>

Ids == 1..(Cap + Cardinality(Slots))
Today == day % Week

-----------------------------------------------------------------------------
(* The fit *)

DaysUntil(j, d) == (DayOf[j] - d + Week) % Week

\* j fires before k for somebody who stands at the beginning of day d.
Sooner(j, k, d) ==
    \/ DaysUntil(j, d) < DaysUntil(k, d)
    \/ DaysUntil(j, d) = DaysUntil(k, d) /\ TimeOf[j] < TimeOf[k]

\* fitShellyJobs: as many of the jobs as fit, the soonest first.
IsFit(kept, all, d) ==
    /\ kept \subseteq all /\ Cardinality(kept) = Min({Cap, Cardinality(all)})
    /\ \A j \in kept, k \in all \ kept : ~Sooner(k, j, d)

JobsIn(t)   == {t[i] : i \in Ids} \ {NoJob}
Listed(t)   == {i \in Ids : t[i] # NoJob}

\* Wrong on purpose: the table is written anew, the wanted jobs too.
ExtrasAll(t, want) == IF JobsIn(t) = want THEN {} ELSE Listed(t)

\* Wrong on purpose: a second copy of a wanted job may stay.
ExtrasForeign(t, want) == {i \in Listed(t) : t[i] \notin want}

\* What is beyond one copy of each wanted job; the copy listed first stays.
Extras(t, want) ==
    {i \in Listed(t) : t[i] \notin want \/ \E h \in Ids : h < i /\ t[h] = t[i]}

Missing(t, want) == {j \in want : \A i \in Ids \ Extras(t, want) : t[i] # j}

-----------------------------------------------------------------------------
(* Synchronisations *)

Idle   == [pc |-> "idle", target |-> 0, clear |-> FALSE, want |-> {}, extras |-> {}, missing |-> {}]
Asked(v) == [Idle EXCEPT !.pc = "rows", !.target = v]

Busy(s) == syncs[s].pc # "idle"
Quiet   == \A s \in Slots : ~Busy(s)

\* A call begins in slot s, beside those that are under way: tangled records
\* that two overlapped, until one that ran alone has put the table right.
Begin(s, task) ==
    /\ ~Busy(s)
    /\ syncs' = [r \in Slots |-> IF r = s THEN [task EXCEPT !.clear = Quiet]
                                 ELSE [syncs[r] EXCEPT !.clear = FALSE]]
    /\ tangled' = (tangled \/ ~Quiet)

\* pushScheduleToDevice: nothing for a removed unit, its device_uid is NULL.
Push(s, v) == Begin(s, Asked(v))

Init ==
    /\ day = 0 /\ refreshed = TRUE
    /\ rows = FirstJobs /\ version = 0
    /\ syncStatus = "pending" /\ owned = TRUE
    /\ table = [i \in Ids |-> NoJob] /\ window = Window
    /\ syncs = [s \in Slots |-> Idle]
    /\ trouble = 0
    /\ tangled = FALSE /\ wiped = FALSE

Change == version + day + trouble < MaxChanges

\* A transaction on the schedules with bumpDevices, and the push after it; the
\* completion of a once schedule is one of these.  A removed unit is bumped too.
Edit(j, s) ==
    /\ Change
    /\ rows' = IF j \in rows THEN rows \ {j} ELSE rows \union {j}
    /\ version' = version + 1 /\ syncStatus' = "pending"
    /\ IF owned THEN Push(s, version + 1) ELSE UNCHANGED <<syncs, tangled>>
    /\ UNCHANGED <<day, refreshed, owned, unit, trouble, wiped>>

\* resyncShellyDevices, once a minute, whether or not an earlier attempt still runs.
Resync(s) ==
    /\ owned /\ syncStatus # "synced" /\ window > 0
    /\ Push(s, version)
    /\ UNCHANGED <<day, refreshed, rows, version, syncStatus, owned, unit, trouble, wiped>>

\* The hello of a unit that was offline pushes at once what is behind.
Connect(s) ==
    /\ window = 0
    /\ window' = Window
    /\ IF owned /\ syncStatus # "synced" THEN Push(s, version) ELSE UNCHANGED <<syncs, tangled>>
    /\ UNCHANGED <<day, refreshed, rows, version, syncStatus, owned, table, trouble, wiped>>

\* The row, and then the rows of the schedules and today's date.
ReadRows(s, kept) ==
    /\ syncs[s].pc = "rows"
    /\ IsFit(kept, rows, Today)
    /\ syncs' = [syncs EXCEPT ![s] = [@ EXCEPT !.pc = "list", !.want = kept]]
    /\ UNCHANGED <<day, refreshed, rows, version, syncStatus, owned, unit, trouble, tangled, wiped>>

\* One RPC.  The answer to the last one of a connection may be lost with it:
\* the unit has obeyed and the caller gives up.
CallAnyway == window' = window - 1      \* wrong on purpose: on a closed line too
Call == window > 0 /\ window' = window - 1
GiveUp(s) == syncs' = [syncs EXCEPT ![s] = Idle] /\ syncStatus' = "error"
Lost(s) == window = 1 /\ GiveUp(s)

SyncFrame == UNCHANGED <<day, refreshed, rows, version, owned, trouble>>

List(s) ==
    /\ syncs[s].pc = "list"
    /\ Call /\ UNCHANGED <<table, tangled, wiped>> /\ SyncFrame
    /\ \/ /\ syncs' = [syncs EXCEPT ![s] = [@ EXCEPT !.pc = "write",
                            !.extras = Extras(table, syncs[s].want), !.missing = Missing(table, syncs[s].want)]]
          /\ UNCHANGED syncStatus
       \/ Lost(s)

\* The extra jobs go first; the unit refuses to delete what is not there.
Delete(s, i) ==
    /\ syncs[s].pc = "write" /\ i \in syncs[s].extras
    /\ Call /\ UNCHANGED <<tangled, wiped>> /\ SyncFrame
    /\ table' = [table EXCEPT ![i] = NoJob]
    /\ IF table[i] = NoJob THEN GiveUp(s)
       ELSE \/ /\ syncs' = [syncs EXCEPT ![s].extras = @ \ {i}]
               /\ UNCHANGED syncStatus
            \/ Lost(s)

\* A new job gets an id that nobody remembers; a full table refuses it.
FreeIds == {i \in Ids : table[i] = NoJob /\ \A s \in Slots : i \notin syncs[s].extras}

Create(s, j) ==
    /\ syncs[s].pc = "write" /\ syncs[s].extras = {} /\ j \in syncs[s].missing
    /\ Call /\ UNCHANGED <<tangled, wiped>> /\ SyncFrame
    /\ IF Cardinality(Listed(table)) >= Cap \/ FreeIds = {}
       THEN UNCHANGED table /\ GiveUp(s)
       ELSE /\ table' = [table EXCEPT ![Min(FreeIds)] = j]
            /\ \/ /\ syncs' = [syncs EXCEPT ![s].missing = @ \ {j}]
                  /\ UNCHANGED syncStatus
               \/ Lost(s)

\* No connection: the call runs into its timeout.
TimeOut(s) ==
    /\ syncs[s].pc \in {"list", "write"} /\ window = 0
    /\ GiveUp(s)
    /\ UNCHANGED <<unit, tangled, wiped>> /\ SyncFrame

Written(s) == syncs[s].pc = "write" /\ syncs[s].extras = {} /\ syncs[s].missing = {}

\* The unit has it all: synced, unless an edit came after the version was read.
Finish(s) ==
    /\ Written(s)
    /\ syncs' = [syncs EXCEPT ![s] = Idle]
    /\ syncStatus' = IF version <= syncs[s].target THEN "synced" ELSE syncStatus
    /\ tangled' = (tangled /\ ~syncs[s].clear)
    /\ UNCHANGED <<unit, wiped>> /\ SyncFrame

-----------------------------------------------------------------------------
(* Removal, the daily refresh, faults *)

\* patchDevice, is_enabled = false: the uid goes to the stash and, off the
\* request path, the table is wiped once, if the unit can be reached.
Remove(s) ==
    /\ owned /\ Change
    /\ owned' = FALSE /\ trouble' = trouble + 1 /\ wiped' = FALSE
    /\ Begin(s, [Idle EXCEPT !.pc = "wipe"])
    /\ UNCHANGED <<day, refreshed, rows, version, syncStatus, unit>>

\* wiped is set when the unit did it, for the removal it was meant for.
Wipe(s) ==
    /\ syncs[s].pc = "wipe"
    /\ syncs' = [syncs EXCEPT ![s] = Idle]
    /\ IF window > 0
       THEN /\ window' = window - 1 /\ table' = [i \in Ids |-> NoJob]
            /\ wiped' = ~owned /\ tangled' = (tangled /\ ~syncs[s].clear)
       ELSE UNCHANGED <<unit, wiped, tangled>>
    /\ UNCHANGED <<day, refreshed, rows, version, syncStatus, owned, trouble>>

\* patchDevice, is_enabled = true: the resync loop takes it from there.
Recover ==
    /\ ~owned
    /\ owned' = TRUE /\ syncStatus' = "pending"
    /\ UNCHANGED <<day, refreshed, rows, version, unit, syncs, trouble, tangled, wiped>>

Midnight ==
    /\ Change
    /\ day' = day + 1 /\ refreshed' = FALSE
    /\ UNCHANGED <<rows, version, syncStatus, owned, unit, syncs, trouble, tangled, wiped>>

\* kickAllShellySync('daily'): every unit that is online now.
Daily ==
    /\ ~refreshed /\ refreshed' = TRUE
    /\ syncStatus' = IF owned /\ window > 0 THEN "pending" ELSE syncStatus
    /\ UNCHANGED <<day, rows, version, owned, unit, syncs, trouble, tangled, wiped>>

\* The server dies with its calls; at boot every unit is behind.
Restart ==
    /\ Change /\ trouble' = trouble + 1
    /\ syncs' = [s \in Slots |-> Idle] /\ refreshed' = FALSE
    /\ syncStatus' = IF owned THEN "pending" ELSE syncStatus
    /\ UNCHANGED <<day, rows, version, owned, unit, tangled, wiped>>

Step(s) ==
    \/ \E kept \in SUBSET rows : ReadRows(s, kept)
    \/ List(s)
    \/ \E i \in Ids : Delete(s, i)
    \/ \E j \in Jobs : Create(s, j)
    \/ TimeOut(s) \/ Finish(s) \/ Wipe(s)

Next ==
    \/ \E s \in Slots :
        \/ \E j \in Jobs : Edit(j, s)
        \/ Resync(s) \/ Connect(s) \/ Remove(s) \/ Step(s)
    \/ Recover \/ Midnight \/ Daily \/ Restart

Spec == Init /\ [][Next]_vars

\* Calls end, units dial in again, and the tick comes every minute.
Fairness ==
    /\ WF_vars(\E s \in Slots : Step(s))
    /\ WF_vars(\E s \in Slots : Connect(s)) /\ WF_vars(\E s \in Slots : Resync(s))
FairSpec == Spec /\ Fairness

-----------------------------------------------------------------------------
(* Properties *)

Tasks == [pc : {"idle", "rows", "list", "write", "wipe"}, target : 0..MaxChanges, clear : BOOLEAN,
          want : SUBSET Jobs, extras : SUBSET Ids, missing : SUBSET Jobs]

\* Every variable has its type, and the table is never over its limit.
TypeOK ==
    /\ day \in 0..MaxChanges /\ refreshed \in BOOLEAN
    /\ rows \in SUBSET Jobs /\ version \in 0..MaxChanges
    /\ syncStatus \in {"pending", "synced", "error"} /\ owned \in BOOLEAN
    /\ table \in [Ids -> Jobs \union {NoJob}] /\ Cardinality(Listed(table)) <= Cap
    /\ window \in 0..Window /\ syncs \in [Slots -> Tasks]
    /\ trouble \in 0..MaxChanges
    /\ tangled \in BOOLEAN /\ wiped \in BOOLEAN

\* The table holds these jobs, each once.
Holds(kept) == JobsIn(table) = kept /\ Cardinality(Listed(table)) = Cardinality(kept)

\* shelly-schedules.js:204: "Make the device's Schedule table match its rows".
\* Unless two calls overlapped since, a unit that counts as synced holds
\* exactly the jobs that fitted on some day up to today, each once, and a unit
\* whose wipe went through holds none.
UnitMirrors ==
    Quiet /\ ~tangled =>
        /\ owned /\ syncStatus = "synced" =>
            \E kept \in SUBSET rows : Holds(kept) /\ \E d \in 0..day : IsFit(kept, rows, d % Week)
        /\ ~owned /\ wiped => Holds({})

\* shelly-schedules.js:220: "matching jobs are never touched".  The header of
\* the file (lines 7-10) still says that any difference rewrites the table by
\* DeleteAll and Create; the code does what line 220 says.  Of calls that do
\* not overlap, a job leaves the table only by a wipe or by one that does not
\* want it, however often a call is cut off and another one starts.
WantedJobsStay ==
    [][~tangled => \A j \in JobsIn(table) \ JobsIn(table') :
        \E s \in Slots : \/ syncs[s].pc = "wipe"
                         \/ syncs[s].pc = "write" /\ j \notin syncs[s].want]_vars

\* shelly-schedules.js:221-222: "interrupted syncs converge instead of starting
\* over": however many connections close after a few calls, the unit is synced
\* in the end.
Settles == <>[](owned => syncStatus = "synced")
=============================================================================
