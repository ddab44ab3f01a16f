---------------------------- MODULE FleetMonitor ----------------------------
(***************************************************************************)
(* The health monitor of the Shelly units: the probe of every minute, the  *)
(* automatic firmware update with its lock on the fleet, the controlled    *)
(* reboots, and what all of them remember of a unit, in memory and in the  *)
(* diary (device_events).                                                  *)
(*                                                                         *)
(* The units of a pass are probed concurrently: a probe is a sequence of   *)
(* steps, cut where checkShelly and the functions it calls wait for an     *)
(* answer.  Memory keeps moments; the model keeps their ages, capped where *)
(* the code stops telling them apart.  A tick stands for the minutes       *)
(* between two passes and is longer than a pass.  The flips of is_online   *)
(* are those of module BackupScheduler.                                    *)
(***************************************************************************)
EXTENDS Naturals, FiniteSets

CONSTANTS
    Units,         \* the enabled Shelly units
    Latest,        \* the stable versions are 0..Latest, each offered by the one before
    Budget,        \* INFLIGHT_MAX_MS, in ticks, as are the periods that follow
    VerifyAfter,   \* VERIFY_AFTER_MS
    RetryAfter,    \* RETRY_AFTER_MS
    Backoff,       \* REFUSE_BACKOFF_MS
    LateWatch,     \* LATE_WATCH_MS
    MinUptime,     \* MIN_UPTIME_S, and LOW_RAM_MIN_UPTIME_S
    Cooldown,      \* REBOOT_COOLDOWN_MS
    LowStreak,     \* LOW_RAM_STREAK
    UptimeCap,     \* bound: uptimes are told apart up to here
    Flaky,         \* the units that anything happens to
    MaxFaults,     \* bound: lost messages, silent units, reboots of their own, refusals
    MaxDeploys,    \* bound: restarts of the server
    None

ASSUME FleetAssumption ==
    /\ IsFiniteSet(Units) /\ None \notin Units
    /\ Latest \in Nat \ {0} /\ Budget \in Nat \ {0} /\ VerifyAfter \in Nat
    /\ RetryAfter \in Nat \ {0} /\ Backoff \in Nat \ {0} /\ LateWatch \in Nat
    /\ MinUptime \in Nat /\ Cooldown \in Nat /\ LowStreak \in Nat \ {0}
    /\ UptimeCap \in Nat /\ UptimeCap > MinUptime
    /\ Flaky \subseteq Units /\ MaxFaults \in Nat /\ MaxDeploys \in Nat

VARIABLES
    ver,        \* ver[u]: the firmware the unit runs
    flash,      \* flash[u]: age of the install under way on the unit
    up,         \* up[u]: the unit answers
    uptime,     \* uptime[u]: ticks since the unit booted
    sick,       \* sick[u]: its heap is critically low
    mem,        \* mem[u]: deviceState of the process
    lock,       \* inflight: the unit that may be updating, and since when
    seeded,     \* fleetSeeded: the lock was rebuilt from the diary
    passDue,    \* the interval of the monitor has come round
    pc,         \* pc[u]: where checkShelly is with unit u
    sys,        \* sys[u]: the Sys.GetStatus of this probe
    ans,        \* ans[u]: what came back for a command of this probe
    hop,        \* hop[u]: from and to of the update this probe decided on
    diary,      \* diary[u]: the last started, updated or failed row of the unit
    rebootRow,  \* rebootRow[u]: age of the last auto_reboot row
    faults, deploys, \* bounds
    orphans     \* history: units whose install was not written down before the process died,
                \* or under another version than the one that the unit installs

unit    == <<ver, flash, up, uptime, sick>>
process == <<mem, lock, seeded, passDue, pc, sys, ans, hop>>
stored  == <<diary, rebootRow>>
vars    == <<unit, process, stored, faults, deploys, orphans>>

Versions == 0..Latest
Unread   == Latest + 1        \* a version that could not be read
NoFlash  == Budget + 1
Unknown  == UptimeCap + 1     \* no uptime seen yet

OlderUncapped(age, cap) == age + 1

Older(age, cap) == IF age < cap THEN age + 1 ELSE age

\* A hop of a unit from one version to the next: st.fw.pending and st.fw.late.
Hops  == [from : 0..Unread, to : 1..Latest, age : 0..Budget + LateWatch + 1, unc : BOOLEAN]
NoHop == [from |-> 0, to |-> 0, age |-> 0, unc |-> FALSE]

NoLock == [unit |-> None, age |-> Budget]
LockActive == lock.age < Budget

\* deviceState of a unit that this process has not probed yet.
NoMemory == [lastUp |-> Unknown, expect |-> FALSE, cool |-> Cooldown + 1, coolRead |-> FALSE,
             low |-> 0, pend |-> NoHop, late |-> NoHop, tried |-> RetryAfter,
             refused |-> Backoff, read |-> FALSE]

\* What a probe reads of the unit.
NoSample == [uptime |-> 0, offered |-> 0, low |-> FALSE]

DiaryCap == IF RetryAfter > Budget + LateWatch THEN RetryAfter ELSE Budget + LateWatch

NoRow    == [kind |-> "none", age |-> DiaryCap, hop |-> NoHop]
Row(k, h) == [kind |-> k, age |-> 0, hop |-> h]

Fault(u) == u \in Flaky /\ faults < MaxFaults /\ faults' = faults + 1

Init ==
    /\ ver = [u \in Units |-> 0] /\ flash = [u \in Units |-> NoFlash]
    /\ up = [u \in Units |-> TRUE] /\ uptime = [u \in Units |-> UptimeCap]
    /\ sick = [u \in Units |-> FALSE]
    /\ mem = [u \in Units |-> NoMemory] /\ lock = NoLock /\ seeded = FALSE
    /\ passDue = TRUE /\ pc = [u \in Units |-> "idle"]
    /\ sys = [u \in Units |-> NoSample]
    /\ ans = [u \in Units |-> "none"] /\ hop = [u \in Units |-> NoHop]
    /\ diary = [u \in Units |-> NoRow]
    /\ rebootRow = [u \in Units |-> Cooldown + 1]
    /\ faults = 0 /\ deploys = 0 /\ orphans = {}

-----------------------------------------------------------------------------
(* The units *)

UnitFrame == UNCHANGED <<process, stored, deploys>>

\* A boot of the unit: whatever it was installing is gone; the leak may be back.
Booted(u) ==
    /\ uptime' = [uptime EXCEPT ![u] = 0]
    /\ sick' \in {sick, [sick EXCEPT ![u] = FALSE]}
    /\ flash' = [flash EXCEPT ![u] = NoFlash]
    /\ orphans' = orphans \ {u}

Installed(u) ==
    /\ flash[u] # NoFlash
    /\ ver' = [ver EXCEPT ![u] = @ + 1]
    /\ Booted(u)
    /\ UNCHANGED <<up, faults>> /\ UnitFrame

\* The download fails: no reboot.
InstallFails(u) ==
    /\ flash[u] # NoFlash /\ Fault(u)
    /\ flash' = [flash EXCEPT ![u] = NoFlash] /\ orphans' = orphans \ {u}
    /\ UNCHANGED <<ver, up, uptime, sick>> /\ UnitFrame

\* A crash of the firmware, or a power cut.
Panic(u) ==
    /\ Fault(u) /\ Booted(u)
    /\ UNCHANGED <<ver, up>> /\ UnitFrame

FallsSilent(u) ==
    /\ up[u] /\ Fault(u) /\ up' = [up EXCEPT ![u] = FALSE]
    /\ UNCHANGED <<ver, flash, uptime, sick, orphans>> /\ UnitFrame

ComesBack(u) ==
    /\ ~up[u] /\ up' = [up EXCEPT ![u] = TRUE]
    /\ UNCHANGED <<ver, flash, uptime, sick, orphans, faults>> /\ UnitFrame

Leaks(u) ==
    /\ ~sick[u] /\ Fault(u) /\ sick' = [sick EXCEPT ![u] = TRUE]
    /\ UNCHANGED <<ver, flash, up, uptime, orphans>> /\ UnitFrame

UnitStep == \E u \in Units :
    Installed(u) \/ InstallFails(u) \/ Panic(u) \/ FallsSilent(u) \/ ComesBack(u) \/ Leaks(u)

-----------------------------------------------------------------------------
(* The server: a pass, and the probe of one unit *)

ServerFrame == UNCHANGED <<unit, deploys, orphans>>

Goto(u, step) == pc' = [pc EXCEPT ![u] = step]

Idle == \A u \in Units : pc[u] = "idle"

\* The overlap guard: no pass begins before the last one ended.
BeginPass ==
    /\ passDue /\ Idle
    /\ passDue' = FALSE /\ pc' = [u \in Units |-> "status"]
    /\ UNCHANGED <<mem, lock, seeded, sys, ans, hop, stored, faults>> /\ ServerFrame

\* The database or the broker is down: nobody is probed.
SkipPass ==
    /\ passDue /\ Idle /\ (\E u \in Units : Fault(u)) /\ passDue' = FALSE
    /\ UNCHANGED <<mem, lock, seeded, pc, sys, ans, hop, stored>> /\ ServerFrame

\* seed: the memory of a unit is rebuilt from its last judged row, once per process.
Resumes(u) == ~mem[u].read /\ diary[u].kind = "started" /\ diary[u].age < Budget + LateWatch

SeededMem(u) ==
    IF mem[u].read \/ diary[u].kind = "none" THEN [mem[u] EXCEPT !.read = TRUE]
    ELSE [mem[u] EXCEPT !.read = TRUE,
              !.tried = IF diary[u].age < RetryAfter THEN diary[u].age ELSE RetryAfter,
              !.pend = IF Resumes(u) THEN [diary[u].hop EXCEPT !.age = diary[u].age] ELSE @,
              !.expect = @ \/ Resumes(u)]

SeededLock(u, l) ==
    IF Resumes(u) /\ l.unit \in {None, u}
    THEN [unit |-> u, age |-> IF diary[u].age < Budget THEN diary[u].age ELSE Budget] ELSE l

\* seedFleet: the newest open hop takes the lock.
OpenHops == {u \in Units : diary[u].kind = "started" /\ diary[u].age < Budget}

FleetLocks ==
    LET newest == {u \in OpenHops : \A w \in OpenHops : diary[u].age <= diary[w].age}
    IN  IF seeded \/ OpenHops = {} THEN {lock}
        ELSE {IF lock.unit = None \/ diary[u].age < lock.age
              THEN [unit |-> u, age |-> diary[u].age] ELSE lock : u \in newest}

ReleasedNever(u, l) == l

Released(u, l) == IF l.unit = u THEN NoLock ELSE l

Judged(u, m) ==
    [m EXCEPT !.pend = NoHop, !.late = [m.pend EXCEPT !.age = 0], !.expect = FALSE]

\* fail: the budget is spent.  A lost reply whose unit answers with the old
\* version is a refusal in hindsight, and leaves the row of the start the last one.
Fail(u, m, l, reports, unreachable) ==
    LET hindsight == m.pend.unc /\ ~unreachable /\ reports \in {Unread, m.pend.from}
    IN  /\ lock' = Released(u, l)
        /\ mem' = [mem EXCEPT ![u] = IF hindsight
                      THEN [Judged(u, m) EXCEPT !.tried = RetryAfter, !.refused = 0]
                      ELSE Judged(u, m)]
        /\ diary' = IF hindsight THEN diary
                    ELSE [diary EXCEPT ![u] = Row("failed", [m.pend EXCEPT !.age = 0])]

\* Sys.GetStatus fails: fwProbeFailed.
Silent(u) ==
    /\ pc[u] = "status"
    /\ \/ ~up[u] /\ UNCHANGED faults
       \/ Fault(u)
    /\ Goto(u, "idle")
    /\ LET m == SeededMem(u)
           l == SeededLock(u, lock)
       IN  IF m.pend # NoHop /\ m.pend.age >= Budget THEN Fail(u, m, l, Unread, TRUE)
           ELSE mem' = [mem EXCEPT ![u] = m] /\ lock' = l /\ UNCHANGED diary
    /\ UNCHANGED <<seeded, passDue, sys, ans, hop, rebootRow>> /\ ServerFrame

\* Sys.GetStatus answers: maybeAutoUpdate, up to the state of a hop.
Answered(u) ==
    /\ pc[u] = "status" /\ up[u]
    /\ sys' = [sys EXCEPT ![u] = [uptime |-> uptime[u], low |-> sick[u],
                                  offered |-> IF ver[u] < Latest THEN ver[u] + 1 ELSE 0]]
    /\ seeded' = TRUE
    /\ LET m == SeededMem(u)
       IN  /\ mem' = [mem EXCEPT ![u] = m]
           /\ \E l \in FleetLocks : lock' = SeededLock(u, l)
           /\ Goto(u, IF m.pend # NoHop THEN "verify"
                      ELSE IF m.late # NoHop THEN "late" ELSE "gates")
    /\ UNCHANGED <<passDue, ans, hop, stored, faults>> /\ ServerFrame

\* Shelly.GetDeviceInfo: r is the version it reports.
ReadVersion(u, r) ==
    \/ up[u] /\ r = ver[u] /\ UNCHANGED faults
    \/ r = Unread /\ (Fault(u) \/ (~up[u] /\ UNCHANGED faults))

\* verifyPending
Verify(u) ==
    /\ pc[u] = "verify" /\ Goto(u, "outputs")
    /\ \/ mem[u].pend.age < VerifyAfter /\ UNCHANGED <<mem, lock, diary, faults>>
       \/ /\ mem[u].pend.age >= VerifyAfter
          /\ \E r \in 0..Unread :
                /\ ReadVersion(u, r)
                /\ IF r = mem[u].pend.to
                   THEN /\ mem' = [mem EXCEPT ![u].pend = NoHop]
                        /\ lock' = Released(u, lock)
                        /\ diary' = [diary EXCEPT ![u] = Row("updated", NoHop)]
                   ELSE IF mem[u].pend.age < Budget THEN UNCHANGED <<mem, lock, diary>>
                   ELSE Fail(u, mem[u], lock, r, FALSE)
    /\ UNCHANGED <<seeded, passDue, sys, ans, hop, rebootRow>> /\ ServerFrame

\* watchLate
Late(u) ==
    /\ pc[u] = "late" /\ Goto(u, "gates")
    /\ IF mem[u].late.age > LateWatch
       THEN mem' = [mem EXCEPT ![u].late = NoHop] /\ UNCHANGED <<diary, faults>>
       ELSE IF sys[u].uptime >= MinUptime THEN UNCHANGED <<mem, diary, faults>>
       ELSE \E r \in 0..Unread :
                /\ ReadVersion(u, r)
                /\ IF r # mem[u].late.to THEN UNCHANGED <<mem, diary>>
                   ELSE /\ mem' = [mem EXCEPT ![u].late = NoHop,
                                       ![u].expect = @ \/ (mem[u].lastUp # Unknown
                                                           /\ sys[u].uptime < mem[u].lastUp)]
                        /\ diary' = [diary EXCEPT ![u] = Row("updated", NoHop)]
    /\ UNCHANGED <<lock, seeded, passDue, sys, ans, hop, rebootRow>> /\ ServerFrame

\* fwUpdateBlocker, as far as the memory of the monitor decides it.
Open(u) ==
    /\ sys[u].offered # 0 /\ ~mem[u].expect /\ sys[u].uptime >= MinUptime
    /\ mem[u].tried >= RetryAfter /\ mem[u].refused >= Backoff /\ ~LockActive

\* The gates are closed: by Open, or by the setting, the hour, the day or a schedule.
Blocked(u) ==
    /\ pc[u] = "gates" /\ Goto(u, "outputs")
    /\ UNCHANGED <<mem, lock, seeded, passDue, sys, ans, hop, stored, faults>>
    /\ ServerFrame

Granted(u) ==
    /\ pc[u] = "gates" /\ Open(u) /\ Goto(u, "reserve")
    /\ UNCHANGED <<mem, lock, seeded, passDue, sys, ans, hop, stored, faults>>
    /\ ServerFrame

ReserveUnchecked(u) ==
    /\ pc[u] = "reserve"
    /\ \E r \in 0..Unread :
          /\ ReadVersion(u, r)
          /\ IF r = sys[u].offered
             THEN Goto(u, "outputs") /\ UNCHANGED <<lock, hop>>
             ELSE /\ Goto(u, "send") /\ lock' = [unit |-> u, age |-> 0]
                  /\ hop' = [hop EXCEPT ![u] = [from |-> r, to |-> sys[u].offered,
                                                age |-> 0, unc |-> FALSE]]
    /\ UNCHANGED <<mem, seeded, passDue, sys, ans, stored>> /\ ServerFrame

\* The version is read; the lock is looked at again and taken in one step.
Reserve(u) ==
    /\ pc[u] = "reserve"
    /\ \E r \in 0..Unread :
          /\ ReadVersion(u, r)
          /\ IF r = sys[u].offered \/ LockActive
             THEN Goto(u, "outputs") /\ UNCHANGED <<lock, hop>>
             ELSE /\ Goto(u, "send") /\ lock' = [unit |-> u, age |-> 0]
                  /\ hop' = [hop EXCEPT ![u] = [from |-> r, to |-> sys[u].offered,
                                                age |-> 0, unc |-> FALSE]]
    /\ UNCHANGED <<mem, seeded, passDue, sys, ans, stored>> /\ ServerFrame

\* What became of a command: carried out and answered, or the answer was lost.
Reply(u) == \/ ans' = [ans EXCEPT ![u] = "ok"] /\ UNCHANGED faults
            \/ ans' = [ans EXCEPT ![u] = "lost"] /\ Fault(u)

NoReply(u) == ans' = [ans EXCEPT ![u] = "lost"] /\ (Fault(u) \/ (~up[u] /\ UNCHANGED faults))

\* Shelly.Update.  The unit installs what comes after its firmware of the moment:
\* when a late install has ended since this probe began, not what was offered.
Send(u) ==
    /\ pc[u] = "send" /\ Goto(u, "sent")
    /\ \/ /\ up[u] /\ flash[u] = NoFlash /\ ver[u] < Latest
          /\ flash' = [flash EXCEPT ![u] = 0] /\ Reply(u)
          /\ orphans' = IF hop[u].to = ver[u] + 1 THEN orphans ELSE orphans \union {u}
       \/ /\ up[u] /\ ans' = [ans EXCEPT ![u] = "no"] /\ UNCHANGED <<flash, orphans>>
          /\ IF flash[u] = NoFlash /\ ver[u] < Latest THEN Fault(u) ELSE UNCHANGED faults
       \/ NoReply(u) /\ UNCHANGED <<flash, orphans>>
    /\ UNCHANGED <<ver, up, uptime, sick, mem, lock, seeded, passDue, sys, hop, stored, deploys>>

\* Only an explicit no frees the lock; the start is written down.
Sent(u) ==
    /\ pc[u] = "sent" /\ Goto(u, "outputs")
    /\ LET h == [hop[u] EXCEPT !.unc = ans[u] = "lost"]
       IN  IF ans[u] = "no"
           THEN /\ lock' = Released(u, lock)
                /\ mem' = [mem EXCEPT ![u].refused = 0] /\ UNCHANGED diary
           ELSE /\ mem' = [mem EXCEPT ![u] = [@ EXCEPT !.tried = 0, !.pend = h,
                                                       !.late = NoHop, !.expect = TRUE]]
                /\ diary' = [diary EXCEPT ![u] = Row("started", h)] /\ UNCHANGED lock
    /\ ans' = [ans EXCEPT ![u] = "none"] /\ hop' = [hop EXCEPT ![u] = NoHop]
    /\ UNCHANGED <<seeded, passDue, sys, rebootRow, faults>> /\ ServerFrame

\* An uptime that went backwards is the reboot the server expects, or an incident.
Dropped(u) == mem[u].lastUp # Unknown /\ sys[u].uptime < mem[u].lastUp

\* tryReboot is called for, and no install is under way.
WantedAlways(u, low) == low >= LowStreak /\ sys[u].uptime >= MinUptime

Wanted(u, low) ==
    low >= LowStreak /\ sys[u].uptime >= MinUptime /\ mem[u].pend = NoHop

\* The age of the last controlled reboot, read from the diary once per process.
CoolingForgotten(u) == mem[u].cool

Cooling(u) == IF ~mem[u].coolRead /\ rebootRow[u] < mem[u].cool THEN rebootRow[u] ELSE mem[u].cool

\* The rest of checkShelly, with the head of tryReboot.
Outputs(u) ==
    /\ pc[u] = "outputs"
    /\ LET low  == IF ~sys[u].low THEN 0 ELSE Older(mem[u].low, LowStreak)
           want == Wanted(u, low)
           cool == IF want THEN Cooling(u) ELSE mem[u].cool
       IN  /\ mem' = [mem EXCEPT ![u] = [mem[u] EXCEPT
                          !.expect = mem[u].expect /\ ~Dropped(u), !.low = low,
                          !.lastUp = sys[u].uptime, !.cool = cool, !.coolRead = mem[u].coolRead \/ want]]
           /\ Goto(u, IF want /\ cool > Cooldown THEN "reboot" ELSE "idle")
    /\ sys' = [sys EXCEPT ![u] = NoSample]
    /\ UNCHANGED <<lock, seeded, passDue, ans, hop, stored, faults>>
    /\ ServerFrame

\* Shelly.Reboot.
Reboot(u) ==
    /\ pc[u] = "reboot" /\ Goto(u, "rebooted")
    /\ \/ up[u] /\ Booted(u) /\ Reply(u)
       \/ NoReply(u) /\ UNCHANGED <<uptime, sick, flash, orphans>>
    /\ UNCHANGED <<ver, up, mem, lock, seeded, passDue, sys, hop, stored, deploys>>

Rebooted(u) ==
    /\ pc[u] = "rebooted" /\ Goto(u, "idle")
    /\ IF ans[u] = "ok"
       THEN /\ mem' = [mem EXCEPT ![u] = [@ EXCEPT !.cool = 0, !.expect = TRUE, !.low = 0]]
            /\ rebootRow' = [rebootRow EXCEPT ![u] = 0]
       ELSE UNCHANGED <<mem, rebootRow>>
    /\ ans' = [ans EXCEPT ![u] = "none"]
    /\ UNCHANGED <<lock, seeded, passDue, sys, hop, diary, faults>> /\ ServerFrame

ProbeStep(u) ==
    \/ Silent(u) \/ Answered(u) \/ Verify(u) \/ Late(u) \/ Blocked(u) \/ Granted(u)
    \/ Reserve(u) \/ Send(u) \/ Sent(u) \/ Outputs(u) \/ Reboot(u) \/ Rebooted(u)

\* The process is replaced: memory is lost, the diary stays.
Deploy ==
    /\ deploys < MaxDeploys /\ deploys' = deploys + 1
    /\ mem' = [u \in Units |-> NoMemory] /\ lock' = NoLock /\ seeded' = FALSE
    /\ passDue' = TRUE /\ pc' = [u \in Units |-> "idle"]
    /\ ans' = [u \in Units |-> "none"] /\ hop' = [u \in Units |-> NoHop]
    /\ orphans' = orphans \union {u \in Units : flash[u] # NoFlash /\ pc[u] = "sent"}
    /\ sys' = [u \in Units |-> NoSample]
    /\ UNCHANGED <<unit, stored, faults>>

OlderHop(h, cap) == IF h = NoHop THEN h ELSE [h EXCEPT !.age = Older(@, cap)]

OlderMem(m) ==
    [m EXCEPT !.cool = Older(@, Cooldown + 1), !.tried = Older(@, RetryAfter),
              !.refused = Older(@, Backoff), !.pend = OlderHop(@, Budget),
              !.late = OlderHop(@, LateWatch + 1)]

Tick ==
    /\ Idle /\ ~passDue /\ passDue' = TRUE
    /\ uptime' = [u \in Units |-> Older(uptime[u], UptimeCap)]
    /\ flash' = [u \in Units |-> IF flash[u] = NoFlash THEN NoFlash ELSE Older(flash[u], Budget)]
    /\ mem' = [u \in Units |-> OlderMem(mem[u])]
    /\ lock' = [lock EXCEPT !.age = Older(@, Budget)]
    /\ diary' = [u \in Units |-> [diary[u] EXCEPT !.age = Older(@, DiaryCap)]]
    /\ rebootRow' = [u \in Units |-> Older(rebootRow[u], Cooldown + 1)]
    /\ UNCHANGED <<ver, up, sick, seeded, pc, sys, ans, hop, faults, deploys, orphans>>

Next == UnitStep \/ BeginPass \/ SkipPass \/ (\E u \in Units : ProbeStep(u)) \/ Deploy \/ Tick

Spec == Init /\ [][Next]_vars

\* setInterval brings the passes; a unit that is up answers, ends what it
\* installs, and comes back; the nights of the window that leave a unit alone
\* (no rest day, no schedule near) come again and again.
FairSpec ==
    /\ Spec /\ WF_vars(BeginPass) /\ WF_vars(Tick)
    /\ \A u \in Units : /\ WF_vars(ProbeStep(u)) /\ SF_vars(Granted(u))
                        /\ WF_vars(Installed(u)) /\ WF_vars(ComesBack(u))

-----------------------------------------------------------------------------
(* Correctness *)

Steps == {"idle", "status", "verify", "late", "gates", "reserve", "send", "sent",
          "outputs", "reboot", "rebooted"}

MaybeHops == Hops \union {NoHop}

Memories == [lastUp : 0..Unknown, expect : BOOLEAN, cool : 0..Cooldown + 1, coolRead : BOOLEAN,
             low : 0..LowStreak, pend : MaybeHops, late : MaybeHops, tried : 0..RetryAfter,
             refused : 0..Backoff, read : BOOLEAN]

Locks   == [unit : Units \union {None}, age : 0..Budget]
Samples == [uptime : 0..UptimeCap, offered : 0..Latest, low : BOOLEAN]
Rows    == [kind : {"none", "started", "updated", "failed"}, age : 0..DiaryCap, hop : MaybeHops]

\* The shape of what the units, the process and the diary hold.
TypeOK ==
    /\ ver \in [Units -> Versions] /\ flash \in [Units -> 0..NoFlash]
    /\ up \in [Units -> BOOLEAN] /\ uptime \in [Units -> 0..UptimeCap]
    /\ sick \in [Units -> BOOLEAN] /\ mem \in [Units -> Memories]
    /\ lock \in Locks
    /\ seeded \in BOOLEAN /\ passDue \in BOOLEAN /\ pc \in [Units -> Steps]
    /\ sys \in [Units -> Samples]
    /\ ans \in [Units -> {"none", "ok", "no", "lost"}] /\ hop \in [Units -> MaybeHops]
    /\ diary \in [Units -> Rows]
    /\ rebootRow \in [Units -> 0..Cooldown + 1]
    /\ faults \in 0..MaxFaults /\ deploys \in 0..MaxDeploys
    /\ orphans \subseteq Units

\* One unit at a time: two units never install within the budget of both, however
\* their probes interleave and whenever the process is replaced, but for an install
\* that the process did not live to write down, or wrote down under a wrong version.
OneFlashAtATime ==
    \A u, w \in Units \ orphans : flash[u] < Budget /\ flash[w] < Budget => u = w

\* The lock is never left behind: who holds it is being sent an update or has a hop
\* to be judged, in memory or in the diary that its next probe reads.
LockIsUsed ==
    LockActive => \/ pc[lock.unit] \in {"send", "sent"}
                  \/ mem[lock.unit].pend # NoHop
                  \/ ~mem[lock.unit].read /\ diary[lock.unit].kind = "started"

\* A controlled reboot never hits an install within its budget: in the middle of
\* a flash it is what can brick the unit.
NoCut ==
    \A u \in Units \ orphans :
        pc[u] = "reboot" /\ pc'[u] = "rebooted" /\ flash[u] < Budget => flash'[u] = flash[u]
FlashNotCutShort == [][NoCut]_vars

\* The cooldown of the controlled reboots outlives the process: a unit is rebooted
\* again only when the last reboot of the diary is old enough.
Spaced == \A u \in Units : pc[u] = "reboot" /\ pc'[u] = "rebooted" => rebootRow[u] > Cooldown
RebootsAreSpaced == [][Spaced]_vars

\* What the header of fw-update.js promises of a unit that is two hops behind: it
\* catches up, night after night.
CatchesUp == \A u \in Units : <>(ver[u] = Latest)
=============================================================================
