------------------------ MODULE FleetMonitor_proofs ------------------------
(***************************************************************************)
(* Proofs about FleetMonitor, for any number of units and versions, every  *)
(* budget, wait and cooldown, and any number of crashes of the process:    *)
(* type correctness, one flash at a time, no lock left behind, no flash    *)
(* cut short by a controlled reboot, and the cooldown of those reboots.    *)
(*                                                                         *)
(* What makes one flash at a time hold is not the lock alone, which a      *)
(* crash forgets: an install within its budget has an open row in the      *)
(* diary (Recorded), no second row is open (Locked), and a process that    *)
(* starts takes the lock back from the row (Held) before it probes.        *)
(* Installs that the diary does not know are the orphans of the model, and *)
(* the properties say so.                                                  *)
(***************************************************************************)
EXTENDS FleetMonitor, TLAPS

-----------------------------------------------------------------------------
(* The inductive invariant *)

\* An install that may still be within its budget, and that the diary knows or should know.
Running(u) == u \notin orphans /\ flash[u] < Budget

\* A unit installs only while there is a version to go to.
Leads == \A u \in Units : flash[u] # NoFlash => ver[u] < Latest

\* What is sent, and what is written down as started, is a hop.
RealHops == \A u \in Units :
    /\ pc[u] \in {"send", "sent"} => hop[u] \in Hops
    /\ pc[u] = "reserve" => sys[u].offered # 0
    /\ diary[u].kind = "started" => diary[u].hop \in Hops

Typed == TypeOK /\ Leads /\ RealHops

\* A probe that has got an answer has read the diary of its unit and of the fleet.
Probed == \A u \in Units : pc[u] \notin {"idle", "status"} => seeded /\ mem[u].read

\* A hop is judged only if there is one, and a new one begins only if there is none.
PendingFits == \A u \in Units :
    /\ pc[u] = "verify" => mem[u].pend # NoHop
    /\ pc[u] \in {"late", "gates", "reserve", "send", "sent"} => mem[u].pend = NoHop

\* Memory and diary agree on the hop of a unit.
Recorded == \A u \in Units :
    /\ mem[u].pend # NoHop => diary[u].kind = "started" /\ mem[u].pend.age <= diary[u].age
    /\ u \in OpenHops /\ mem[u].read => mem[u].pend # NoHop

\* Who sends an update has the lock, and no hop is open.
Reserved == \A u \in Units : pc[u] \in {"send", "sent"} =>
    /\ lock.unit = u /\ lock.age = 0 /\ hop[u].age = 0
    /\ OpenHops = {}

\* The open hop of the diary has the lock, or it is the only one, and seedFleet finds it.
Locked ==
    /\ seeded => \A u \in OpenHops : lock.unit = u /\ lock.age <= diary[u].age
    /\ ~seeded => /\ \A u, w \in OpenHops : u = w
                  /\ LockActive => lock.unit \in OpenHops /\ lock.age = diary[lock.unit].age

\* The lock is held for an update that is being sent, or a hop to be judged.
Held ==
    LockActive =>
        /\ lock.unit \in Units
        /\ \/ pc[lock.unit] \in {"send", "sent"}
           \/ mem[lock.unit].pend # NoHop
           \/ /\ ~mem[lock.unit].read /\ lock.unit \in OpenHops
              /\ diary[lock.unit].age <= lock.age

\* The install is the hop of the diary, and the one in memory once that has been read.
Known(u) ==
    /\ diary[u].kind = "started" /\ diary[u].age <= flash[u] /\ diary[u].hop.to = ver[u] + 1
    /\ mem[u].read => mem[u].pend # NoHop /\ mem[u].pend.to = ver[u] + 1 /\ mem[u].pend.age <= flash[u]

\* No install escapes the process: it was accepted this moment, or it is known.
Covered == \A u \in Units : Running(u) =>
    /\ pc[u] \notin {"late", "gates", "reserve", "send", "reboot"}
    /\ pc[u] = "sent" => ans[u] # "no" /\ hop[u].to = ver[u] + 1
    /\ pc[u] # "sent" => Known(u)

\* The memory of the cooldown is never ahead of the diary once that has been read.
Cooled == \A u \in Units :
    /\ mem[u].coolRead => mem[u].cool <= rebootRow[u]
    /\ pc[u] = "reboot" => rebootRow[u] > Cooldown

Safe ==
    /\ Probed
    /\ PendingFits
    /\ Recorded
    /\ Reserved
    /\ Locked
    /\ Held
    /\ Covered
    /\ Cooled

IInv == Typed /\ Safe

-----------------------------------------------------------------------------
(* Types *)

\* The constants are natural numbers, and the caps are ordered.
LEMMA Bounds ==
    /\ Latest \in Nat /\ Latest > 0 /\ Budget \in Nat /\ Budget > 0 /\ VerifyAfter \in Nat
    /\ RetryAfter \in Nat /\ RetryAfter > 0 /\ Backoff \in Nat /\ Backoff > 0 /\ LateWatch \in Nat
    /\ MinUptime \in Nat /\ Cooldown \in Nat /\ LowStreak \in Nat /\ LowStreak > 0
    /\ UptimeCap \in Nat /\ MaxFaults \in Nat /\ MaxDeploys \in Nat
    /\ DiaryCap \in Nat /\ DiaryCap >= RetryAfter /\ DiaryCap >= Budget + LateWatch
    /\ None \notin Units /\ Flaky \subseteq Units
BY FleetAssumption DEF DiaryCap

\* What Older returns.
LEMMA OlderIs ==
    ASSUME NEW cap \in Nat, NEW age \in Nat
    PROVE  /\ Older(age, cap) \in Nat /\ age <= Older(age, cap)
           /\ age < cap => Older(age, cap) = age + 1
           /\ age >= cap => Older(age, cap) = age
           /\ age <= cap => Older(age, cap) \in 0..cap
BY DEF Older

\* The fields of a hop; a hop is not NoHop.
LEMMA HopFields ==
    ASSUME NEW h \in MaybeHops
    PROVE  /\ h.from \in 0..Unread /\ h.to \in 0..Latest
           /\ h.age \in 0..Budget + LateWatch + 1 /\ h.unc \in BOOLEAN
           /\ h # NoHop => h \in Hops /\ h.to \in 1..Latest
           /\ h \in Hops => h # NoHop
<1>1. NoHop.from = 0 /\ NoHop.to = 0 /\ NoHop.age = 0
  BY DEF NoHop
<1>2. NoHop.unc \in BOOLEAN
  BY DEF NoHop
<1>3. NoHop \notin Hops
  BY <1>1, Bounds DEF Hops
<1>4. CASE h = NoHop
  BY <1>1, <1>2, <1>3, <1>4, Bounds DEF Unread
<1>5. CASE h \in Hops
  <2>1. h.from \in 0..Unread /\ h.to \in 1..Latest /\ h.age \in 0..Budget + LateWatch + 1 /\ h.unc \in BOOLEAN
    BY <1>5 DEF Hops
  <2> QED BY <1>3, <1>5, <2>1, Bounds
<1> QED BY <1>4, <1>5 DEF MaybeHops

LEMMA HopAged ==
    ASSUME NEW h \in MaybeHops, NEW a \in 0..Budget + LateWatch + 1
    PROVE  /\ h \in Hops => [h EXCEPT !.age = a] \in Hops
           /\ [h EXCEPT !.age = 0] \in MaybeHops
           /\ [h EXCEPT !.age = a].to = h.to /\ [h EXCEPT !.age = a].age = a
<1>1. h \in Hops => [h EXCEPT !.age = a] \in Hops
  BY DEF Hops
<1>2. CASE h = NoHop
  BY <1>1, <1>2, Bounds DEF NoHop, MaybeHops, Hops
<1>3. CASE h \in Hops
  BY <1>1, <1>3, Bounds DEF MaybeHops, Hops
<1> QED BY <1>1, <1>2, <1>3 DEF MaybeHops

LEMMA HopTypes ==
    /\ NoHop \in MaybeHops
    /\ \A h \in MaybeHops, v \in BOOLEAN : h \in Hops => [h EXCEPT !.unc = v] \in Hops
    /\ \A r \in 0..Unread, t \in 1..Latest : [from |-> r, to |-> t, age |-> 0, unc |-> FALSE] \in Hops
<1>1. NoHop \in MaybeHops
  BY DEF MaybeHops
<1>2. \A h \in Hops, v \in BOOLEAN : [h EXCEPT !.unc = v] \in Hops
  BY DEF Hops
<1>3. ASSUME NEW r \in 0..Unread, NEW t \in 1..Latest
      PROVE  [from |-> r, to |-> t, age |-> 0, unc |-> FALSE] \in Hops
  BY Bounds DEF Hops
<1> QED BY <1>1, <1>2, <1>3

LEMMA OlderHopType ==
    ASSUME NEW h \in MaybeHops, NEW cap \in 0..LateWatch + Budget + 1
    PROVE  /\ OlderHop(h, cap) \in MaybeHops
           /\ OlderHop(h, cap) # NoHop <=> h # NoHop
           /\ OlderHop(h, cap).to = h.to
           /\ h # NoHop => OlderHop(h, cap).age = Older(h.age, cap)
<1>1. CASE h = NoHop
  BY <1>1 DEF OlderHop
<1>2. CASE h # NoHop
  <2>1. h \in Hops /\ h.age \in 0..Budget + LateWatch + 1
    BY <1>2, HopFields
  <2>2. Older(h.age, cap) \in 0..Budget + LateWatch + 1
    BY <2>1, Bounds DEF Older
  <2>3. OlderHop(h, cap) = [h EXCEPT !.age = Older(h.age, cap)]
    BY <1>2 DEF OlderHop
  <2>4. [h EXCEPT !.age = Older(h.age, cap)] \in Hops
    BY <2>1, <2>2, HopAged
  <2> QED BY <1>2, <2>1, <2>2, <2>3, <2>4, HopAged, HopFields DEF MaybeHops
<1> QED BY <1>1, <1>2

\* The fields of the memory of a unit.
LEMMA MemFields ==
    ASSUME NEW m \in Memories
    PROVE  /\ m.lastUp \in 0..Unknown /\ m.expect \in BOOLEAN /\ m.cool \in 0..Cooldown + 1
           /\ m.coolRead \in BOOLEAN /\ m.low \in 0..LowStreak /\ m.pend \in MaybeHops
           /\ m.late \in MaybeHops /\ m.tried \in 0..RetryAfter /\ m.refused \in 0..Backoff
           /\ m.read \in BOOLEAN
BY DEF Memories

\* A memory with other values of the fields.
LEMMA MemWith ==
    ASSUME NEW m \in Memories, NEW e \in BOOLEAN, NEW p \in MaybeHops, NEW l \in MaybeHops,
           NEW t \in 0..RetryAfter, NEW r \in 0..Backoff, NEW c \in 0..Cooldown + 1,
           NEW w \in 0..LowStreak, NEW up1 \in 0..Unknown, NEW b \in BOOLEAN
    PROVE  /\ [m EXCEPT !.read = TRUE] \in Memories
           /\ [m EXCEPT !.read = TRUE, !.tried = t, !.pend = p, !.expect = e] \in Memories
           /\ [m EXCEPT !.pend = p, !.late = l, !.expect = e] \in Memories
           /\ [m EXCEPT !.tried = t, !.refused = r] \in Memories
           /\ [m EXCEPT !.pend = p] \in Memories
           /\ [m EXCEPT !.late = l] \in Memories
           /\ [m EXCEPT !.late = l, !.expect = e] \in Memories
           /\ [m EXCEPT !.refused = r] \in Memories
           /\ [m EXCEPT !.tried = t, !.pend = p, !.late = l, !.expect = e] \in Memories
           /\ [m EXCEPT !.expect = e, !.low = w, !.lastUp = up1, !.cool = c, !.coolRead = b] \in Memories
           /\ [m EXCEPT !.cool = c, !.expect = e, !.low = w] \in Memories
           /\ [m EXCEPT !.cool = c, !.tried = t, !.refused = r, !.pend = p, !.late = l] \in Memories
BY Bounds DEF Memories, Unknown

LEMMA FreshMem == NoMemory \in Memories
BY Bounds, HopTypes DEF NoMemory, Memories, Unknown

-----------------------------------------------------------------------------
(* Types: the units *)

LEMMA FaultType ==
    ASSUME TypeOK, NEW u, Fault(u) \/ UNCHANGED faults
    PROVE  faults' \in 0..MaxFaults
BY Bounds DEF TypeOK, Fault

LEMMA BootedTypes ==
    ASSUME TypeOK, NEW u \in Units, Booted(u)
    PROVE  /\ uptime' \in [Units -> 0..UptimeCap] /\ sick' \in [Units -> BOOLEAN]
           /\ flash' \in [Units -> 0..NoFlash] /\ orphans' \subseteq Units
           /\ flash'[u] = NoFlash /\ \A w \in Units : w # u => flash'[w] = flash[w]
           /\ orphans' = orphans \ {u}
<1>1. uptime' \in [Units -> 0..UptimeCap] /\ flash' \in [Units -> 0..NoFlash]
  BY Bounds DEF TypeOK, Booted, NoFlash
<1>2. sick' \in [Units -> BOOLEAN]
  BY DEF TypeOK, Booted
<1> QED BY <1>1, <1>2 DEF TypeOK, Booted

LEMMA UnitTypes == Typed /\ UnitStep => Typed'
<1> SUFFICES ASSUME Typed, NEW u \in Units,
                    Installed(u) \/ InstallFails(u) \/ Panic(u) \/ FallsSilent(u) \/ ComesBack(u) \/ Leaks(u)
             PROVE  Typed'
  BY DEF UnitStep
<1> USE DEF Typed
<1>1. UNCHANGED <<mem, lock, seeded, passDue, pc, sys, ans, hop, diary, rebootRow, deploys>>
  BY DEF Installed, InstallFails, Panic, FallsSilent, ComesBack, Leaks, UnitFrame, process, stored
<1>2. faults' \in 0..MaxFaults
  BY FaultType DEF Installed, InstallFails, Panic, FallsSilent, ComesBack, Leaks
<1>3. RealHops'
  BY <1>1 DEF RealHops
<1>4. CASE Installed(u)
  <2>1. ver[u] < Latest /\ ver' = [ver EXCEPT ![u] = @ + 1] /\ UNCHANGED up
    BY <1>4 DEF Installed, Leads
  <2>2. ver' \in [Units -> Versions]
    BY <2>1, Bounds DEF TypeOK, Versions
  <2>3. TypeOK'
    BY <1>1, <1>2, <1>4, <2>1, <2>2, BootedTypes DEF TypeOK, Installed
  <2>4. Leads'
    BY <1>4, <2>1, BootedTypes DEF TypeOK, Leads, Installed
  <2> QED BY <1>3, <2>3, <2>4
<1>5. CASE Panic(u)
  <2>1. TypeOK'
    BY <1>1, <1>2, <1>5, BootedTypes DEF TypeOK, Panic
  <2>2. Leads'
    BY <1>5, BootedTypes DEF TypeOK, Leads, Panic
  <2> QED BY <1>3, <2>1, <2>2
<1>6. CASE InstallFails(u)
  <2>1. TypeOK'
    BY <1>1, <1>2, <1>6, Bounds DEF TypeOK, InstallFails, NoFlash
  <2>2. Leads'
    BY <1>6 DEF TypeOK, Leads, InstallFails
  <2> QED BY <1>3, <2>1, <2>2
<1>7. CASE FallsSilent(u) \/ ComesBack(u) \/ Leaks(u)
  <2>1. TypeOK'
    BY <1>1, <1>2, <1>7 DEF TypeOK, FallsSilent, ComesBack, Leaks
  <2>2. Leads'
    BY <1>7 DEF Leads, FallsSilent, ComesBack, Leaks
  <2> QED BY <1>3, <2>1, <2>2
<1> QED BY <1>4, <1>5, <1>6, <1>7

-----------------------------------------------------------------------------
(* Types: the server *)

LEMMA InitTypes == Init => Typed
<1> SUFFICES ASSUME Init PROVE Typed
  OBVIOUS
<1>1. NoLock \in Locks
  BY Bounds DEF NoLock, Locks
<1>2. NoSample \in Samples
  BY Bounds DEF NoSample, Samples
<1>3. /\ NoRow \in Rows
      /\ NoRow.kind = "none"
  BY Bounds, HopTypes DEF NoRow, Rows
<1>4. /\ 0 \in Versions /\ NoFlash \in 0..NoFlash /\ UptimeCap \in 0..UptimeCap
      /\ Cooldown + 1 \in 0..Cooldown + 1 /\ 0 \in 0..MaxFaults /\ 0 \in 0..MaxDeploys
  BY Bounds DEF Versions, NoFlash
<1>5. TypeOK
  BY <1>1, <1>2, <1>3, <1>4, FreshMem, HopTypes DEF Init, TypeOK, Steps
<1>6. Leads /\ RealHops
  BY <1>3 DEF Init, Leads, RealHops
<1> QED BY <1>5, <1>6 DEF Typed

\* What the steps of the server leave alone.
LEMMA PassTypes == Typed /\ (BeginPass \/ SkipPass) => Typed'
<1> SUFFICES ASSUME Typed, BeginPass \/ SkipPass PROVE Typed'
  OBVIOUS
<1>1. UNCHANGED <<ver, flash, up, uptime, sick, mem, lock, seeded, sys, ans, hop, diary, rebootRow, deploys, orphans>>
  BY DEF BeginPass, SkipPass, ServerFrame, unit, stored
<1>2. passDue' = FALSE /\ faults' \in 0..MaxFaults
  BY FaultType DEF BeginPass, SkipPass, Typed
<1>3. pc' \in [Units -> Steps] /\ \A u \in Units : pc'[u] \in {pc[u], "status"}
  BY DEF BeginPass, SkipPass, Typed, TypeOK, Steps
<1>4. TypeOK'
  BY <1>1, <1>2, <1>3 DEF Typed, TypeOK
<1>5. Leads' /\ RealHops'
  BY <1>1, <1>3 DEF Typed, Leads, RealHops
<1> QED BY <1>4, <1>5 DEF Typed

\* What seed makes of the memory and of the lock.
LEMMA SeededTypes ==
    ASSUME Typed, NEW u \in Units, NEW l \in Locks
    PROVE  /\ SeededMem(u) \in Memories
           /\ SeededLock(u, l) \in Locks
<1> USE DEF Typed
<1>1. mem[u] \in Memories /\ diary[u].age \in 0..DiaryCap /\ diary[u].hop \in MaybeHops
  BY DEF TypeOK, Rows
<1>2. Resumes(u) => [diary[u].hop EXCEPT !.age = diary[u].age] \in MaybeHops
  <2> SUFFICES ASSUME Resumes(u) PROVE [diary[u].hop EXCEPT !.age = diary[u].age] \in MaybeHops
    OBVIOUS
  <2>1. diary[u].age \in 0..Budget + LateWatch + 1 /\ diary[u].hop \in Hops
    BY <1>1, Bounds DEF Resumes, RealHops
  <2> QED BY <1>1, <2>1, HopAged DEF MaybeHops
<1>3. SeededMem(u) \in Memories
  <2> DEFINE t == IF diary[u].age < RetryAfter THEN diary[u].age ELSE RetryAfter
             p == IF Resumes(u) THEN [diary[u].hop EXCEPT !.age = diary[u].age] ELSE mem[u].pend
             e == mem[u].expect \/ Resumes(u)
  <2>1. t \in 0..RetryAfter
    BY <1>1, Bounds
  <2>2. p \in MaybeHops /\ mem[u].pend \in MaybeHops
    BY <1>1, <1>2, MemFields
  <2>3. e \in BOOLEAN
    BY <1>1, MemFields DEF Resumes
  <2> HIDE DEF t, p, e
  <2>4. [mem[u] EXCEPT !.read = TRUE] \in Memories
    BY <1>1 DEF Memories
  <2>5. [mem[u] EXCEPT !.read = TRUE, !.tried = t, !.pend = p, !.expect = e] \in Memories
    BY <1>1, <2>1, <2>2, <2>3 DEF Memories
  <2> QED BY <2>4, <2>5 DEF SeededMem, t, p, e
<1>4. SeededLock(u, l) \in Locks
  BY <1>1, Bounds DEF SeededLock, Locks
<1> QED BY <1>3, <1>4

LEMMA FailTypes ==
    ASSUME Typed, NEW u \in Units, NEW m \in Memories,
           NEW l \in Locks, NEW reports, NEW unreachable,
           Fail(u, m, l, reports, unreachable)
    PROVE  /\ mem' \in [Units -> Memories]
           /\ lock' \in Locks
           /\ diary' \in [Units -> Rows]
           /\ \A w \in Units : diary'[w].kind = "started" => diary'[w] = diary[w]
           /\ lock' = Released(u, l)
           /\ mem'[u].pend = NoHop /\ mem'[u].read = m.read
           /\ mem'[u].cool = m.cool /\ mem'[u].coolRead = m.coolRead
           /\ \A w \in Units : w # u => mem'[w] = mem[w] /\ diary'[w] = diary[w]
<1> USE DEF Typed
<1>1. lock' = Released(u, l) /\ lock' \in Locks
  BY Bounds DEF Fail, Released, NoLock, Locks
<1>2. m.pend \in MaybeHops /\ [m.pend EXCEPT !.age = 0] \in MaybeHops
  <2>1. m.pend \in MaybeHops /\ 0 \in 0..Budget + LateWatch + 1
    BY MemFields, Bounds
  <2> QED BY <2>1, HopAged
<1> DEFINE j == Judged(u, m)
           k == [j EXCEPT !.tried = RetryAfter, !.refused = 0]
           r == Row("failed", [m.pend EXCEPT !.age = 0])
<1>3. /\ j \in Memories /\ j.pend = NoHop /\ j.read = m.read /\ j.cool = m.cool
      /\ j.coolRead = m.coolRead
  <2>1. j = [m EXCEPT !.pend = NoHop, !.late = [m.pend EXCEPT !.age = 0], !.expect = FALSE]
    BY DEF Judged
  <2> DEFINE z == [m.pend EXCEPT !.age = 0]
  <2> HIDE DEF z
  <2>2. j = [m EXCEPT !.pend = NoHop, !.late = z, !.expect = FALSE] /\ z \in MaybeHops
    BY <1>2, <2>1 DEF z
  <2> HIDE DEF j
  <2> QED BY <2>2, HopTypes DEF Memories
<1> HIDE DEF j
<1>4. /\ k \in Memories /\ k.pend = NoHop /\ k.read = m.read /\ k.cool = m.cool
      /\ k.coolRead = m.coolRead
  <2>1. RetryAfter \in 0..RetryAfter /\ 0 \in 0..Backoff
    BY Bounds
  <2> QED BY <1>3, <2>1 DEF Memories
<1> HIDE DEF k
<1>5. r \in Rows /\ r.kind = "failed" /\ diary \in [Units -> Rows]
  BY <1>2, Bounds DEF Row, Rows, TypeOK
<1> HIDE DEF r
<1>6. /\ mem' = [mem EXCEPT ![u] = k] \/ mem' = [mem EXCEPT ![u] = j]
      /\ diary' = diary \/ diary' = [diary EXCEPT ![u] = r]
  BY DEF Fail, j, k, r
<1>7. /\ mem' \in [Units -> Memories] /\ mem'[u] \in {j, k}
      /\ \A w \in Units : w # u => mem'[w] = mem[w]
  <2>1. mem \in [Units -> Memories] /\ j \in Memories /\ k \in Memories
    BY <1>3, <1>4 DEF TypeOK
  <2>2. mem' = [mem EXCEPT ![u] = k] \/ mem' = [mem EXCEPT ![u] = j]
    BY <1>6
  <2> QED BY <2>1, <2>2
<1>8. /\ diary' \in [Units -> Rows] /\ diary'[u] \in {r, diary[u]}
      /\ \A w \in Units : w # u => diary'[w] = diary[w]
  BY <1>5, <1>6
<1>9. \A w \in Units : diary'[w].kind = "started" => diary'[w] = diary[w]
  BY <1>5, <1>8
<1> QED BY <1>1, <1>3, <1>4, <1>7, <1>8, <1>9

\* The rows and the moves of a probe.
LEMMA RowIs ==
    ASSUME NEW k \in {"none", "started", "updated", "failed"}, NEW h \in MaybeHops
    PROVE  Row(k, h) \in Rows /\ Row(k, h).kind = k /\ Row(k, h).age = 0 /\ Row(k, h).hop = h
BY Bounds DEF Row, Rows

LEMMA GotoTypes ==
    ASSUME TypeOK, NEW u \in Units, NEW p \in Steps, Goto(u, p)
    PROVE  /\ pc' \in [Units -> Steps] /\ pc'[u] = p
           /\ \A w \in Units : w # u => pc'[w] = pc[w]
BY DEF TypeOK, Goto

LEMMA SilentTypes == ASSUME Typed, NEW u \in Units, Silent(u) PROVE Typed'
<1> USE DEF Typed
<1>1. UNCHANGED <<ver, flash, up, uptime, sick, seeded, passDue, sys, ans, hop, rebootRow, deploys, orphans>>
  BY DEF Silent, ServerFrame, unit
<1>2. faults' \in 0..MaxFaults
  BY FaultType DEF Silent
<1>3. /\ pc' \in [Units -> Steps] /\ pc'[u] = "idle"
      /\ \A w \in Units : w # u => pc'[w] = pc[w]
  BY GotoTypes DEF Silent, Steps
<1>4. SeededMem(u) \in Memories /\ SeededLock(u, lock) \in Locks
  BY SeededTypes DEF TypeOK
<1>5. /\ mem' \in [Units -> Memories] /\ lock' \in Locks /\ diary' \in [Units -> Rows]
      /\ \A w \in Units : diary'[w].kind = "started" => diary'[w] = diary[w]
  <2>1. CASE Fail(u, SeededMem(u), SeededLock(u, lock), Unread, TRUE)
    BY <1>4, <2>1, FailTypes
  <2>2. CASE mem' = [mem EXCEPT ![u] = SeededMem(u)] /\ lock' = SeededLock(u, lock) /\ UNCHANGED diary
    BY <1>4, <2>2 DEF TypeOK
  <2> QED BY <2>1, <2>2 DEF Silent
<1>6. TypeOK'
  BY <1>1, <1>2, <1>3, <1>5 DEF TypeOK
<1>7. Leads' /\ RealHops'
  BY <1>1, <1>3, <1>5 DEF Leads, RealHops
<1> QED BY <1>6, <1>7

LEMMA FleetLockTypes == ASSUME TypeOK, NEW l \in FleetLocks PROVE l \in Locks
<1>1. CASE seeded \/ OpenHops = {}
  BY <1>1 DEF FleetLocks, TypeOK
<1>2. CASE ~(seeded \/ OpenHops = {})
  <2>1. PICK u \in OpenHops : l \in {lock, [unit |-> u, age |-> diary[u].age]}
    BY <1>2 DEF FleetLocks
  <2>2. u \in Units /\ diary[u].age < Budget /\ diary[u].age \in 0..DiaryCap
    BY <2>1 DEF OpenHops, TypeOK, Rows
  <2>3. [unit |-> u, age |-> diary[u].age] \in Locks
    BY <2>2, Bounds DEF Locks
  <2> QED BY <2>1, <2>3 DEF TypeOK
<1> QED BY <1>1, <1>2

LEMMA AnsweredTypes == ASSUME Typed, NEW u \in Units, Answered(u) PROVE Typed'
<1> USE DEF Typed
<1>1. UNCHANGED <<ver, flash, up, uptime, sick, passDue, ans, hop, diary, rebootRow, faults, deploys, orphans>>
  BY DEF Answered, ServerFrame, unit, stored
<1>2. /\ pc' \in [Units -> Steps] /\ pc'[u] \in {"verify", "late", "gates"}
      /\ \A w \in Units : w # u => pc'[w] = pc[w]
  BY GotoTypes DEF Answered, Steps
<1>3. mem' \in [Units -> Memories]
  BY SeededTypes, Bounds DEF Answered, TypeOK, Locks
<1>4. lock' \in Locks
  BY SeededTypes, FleetLockTypes DEF Answered
<1>5. /\ sys' \in [Units -> Samples] /\ \A w \in Units : w # u => sys'[w] = sys[w]
  <2> DEFINE o == IF ver[u] < Latest THEN ver[u] + 1 ELSE 0
             x == [uptime |-> uptime[u], low |-> sick[u], offered |-> o]
  <2>1. o \in 0..Latest
    BY Bounds DEF TypeOK, Versions
  <2> HIDE DEF o
  <2>2. x \in Samples
    BY <2>1 DEF TypeOK, Samples
  <2>3. sys' = [sys EXCEPT ![u] = x]
    BY DEF Answered, o
  <2> HIDE DEF x
  <2> QED BY <2>2, <2>3 DEF TypeOK
<1>6. seeded' = TRUE
  BY DEF Answered
<1>7. TypeOK'
  BY <1>1, <1>2, <1>3, <1>4, <1>5, <1>6 DEF TypeOK
<1>8. Leads' /\ RealHops'
  BY <1>1, <1>2, <1>5 DEF Leads, RealHops
<1> QED BY <1>7, <1>8

LEMMA VerifyTypes == ASSUME Typed, NEW u \in Units, Verify(u) PROVE Typed'
<1> USE DEF Typed
<1>1. UNCHANGED <<ver, flash, up, uptime, sick, seeded, passDue, sys, ans, hop, rebootRow, deploys, orphans>>
  BY DEF Verify, ServerFrame, unit
<1>2. faults' \in 0..MaxFaults
  BY FaultType DEF Verify, ReadVersion
<1>3. /\ pc' \in [Units -> Steps] /\ pc'[u] = "outputs"
      /\ \A w \in Units : w # u => pc'[w] = pc[w]
  BY GotoTypes DEF Verify, Steps
<1>4. mem \in [Units -> Memories] /\ lock \in Locks /\ diary \in [Units -> Rows]
  BY DEF TypeOK
<1>5. /\ mem' \in [Units -> Memories] /\ lock' \in Locks /\ diary' \in [Units -> Rows]
      /\ \A w \in Units : diary'[w].kind = "started" => diary'[w] = diary[w]
  <2>1. CASE UNCHANGED <<mem, lock, diary>>
    BY <1>4, <2>1
  <2>2. CASE /\ mem' = [mem EXCEPT ![u].pend = NoHop] /\ lock' = Released(u, lock)
             /\ diary' = [diary EXCEPT ![u] = Row("updated", NoHop)]
    <3>1. [mem[u] EXCEPT !.pend = NoHop] \in Memories
      BY <1>4, HopTypes DEF Memories
    <3>2. mem' \in [Units -> Memories]
      BY <1>4, <2>2, <3>1
    <3>3. lock' \in Locks
      BY <1>4, <2>2, Bounds DEF Released, NoLock, Locks
    <3>4. Row("updated", NoHop) \in Rows /\ Row("updated", NoHop).kind = "updated"
      BY RowIs, HopTypes
    <3>5. diary' \in [Units -> Rows] /\ \A w \in Units : diary'[w].kind = "started" => diary'[w] = diary[w]
      BY <1>4, <2>2, <3>4
    <3> QED BY <3>2, <3>3, <3>5
  <2>3. CASE \E r \in 0..Unread : Fail(u, mem[u], lock, r, FALSE)
    BY <1>4, <2>3, FailTypes
  <2> QED BY <2>1, <2>2, <2>3 DEF Verify
<1>6. TypeOK'
  BY <1>1, <1>2, <1>3, <1>5 DEF TypeOK
<1>7. Leads' /\ RealHops'
  BY <1>1, <1>3, <1>5 DEF Leads, RealHops
<1> QED BY <1>6, <1>7

LEMMA LateTypes == ASSUME Typed, NEW u \in Units, Late(u) PROVE Typed'
<1> USE DEF Typed
<1>1. UNCHANGED <<ver, flash, up, uptime, sick, lock, seeded, passDue, sys, ans, hop, rebootRow, deploys, orphans>>
  BY DEF Late, ServerFrame, unit
<1>2. faults' \in 0..MaxFaults
  BY FaultType DEF Late, ReadVersion
<1>3. /\ pc' \in [Units -> Steps] /\ pc'[u] = "gates"
      /\ \A w \in Units : w # u => pc'[w] = pc[w]
  BY GotoTypes DEF Late, Steps
<1>4. mem \in [Units -> Memories] /\ diary \in [Units -> Rows] /\ mem[u] \in Memories
  BY DEF TypeOK
<1>5. /\ mem' \in [Units -> Memories] /\ diary' \in [Units -> Rows]
      /\ \A w \in Units : diary'[w].kind = "started" => diary'[w] = diary[w]
  <2>1. CASE UNCHANGED <<mem, diary>>
    BY <1>4, <2>1
  <2>2. CASE mem' = [mem EXCEPT ![u].late = NoHop] /\ UNCHANGED diary
    <3>1. [mem[u] EXCEPT !.late = NoHop] \in Memories
      BY <1>4, HopTypes DEF Memories
    <3> QED BY <1>4, <2>2, <3>1
  <2>3. CASE /\ mem' = [mem EXCEPT ![u].late = NoHop,
                             ![u].expect = @ \/ (mem[u].lastUp # Unknown /\ sys[u].uptime < mem[u].lastUp)]
             /\ diary' = [diary EXCEPT ![u] = Row("updated", NoHop)]
    <3> DEFINE e == mem[u].expect \/ (mem[u].lastUp # Unknown /\ sys[u].uptime < mem[u].lastUp)
    <3>1. e \in BOOLEAN
      BY <1>4, MemFields
    <3>2. mem' = [mem EXCEPT ![u] = [mem[u] EXCEPT !.late = NoHop, !.expect = e]]
      BY <1>4, <2>3
    <3> HIDE DEF e
    <3>3. [mem[u] EXCEPT !.late = NoHop, !.expect = e] \in Memories
      BY <1>4, <3>1, HopTypes DEF Memories
    <3>4. mem' \in [Units -> Memories]
      BY <1>4, <3>2, <3>3
    <3>5. Row("updated", NoHop) \in Rows /\ Row("updated", NoHop).kind = "updated"
      BY RowIs, HopTypes
    <3>6. diary' \in [Units -> Rows] /\ \A w \in Units : diary'[w].kind = "started" => diary'[w] = diary[w]
      BY <1>4, <2>3, <3>5
    <3> QED BY <3>4, <3>6
  <2> QED BY <2>1, <2>2, <2>3 DEF Late
<1>6. TypeOK'
  BY <1>1, <1>2, <1>3, <1>5 DEF TypeOK
<1>7. Leads' /\ RealHops'
  BY <1>1, <1>3, <1>5 DEF Leads, RealHops
<1> QED BY <1>6, <1>7

LEMMA GateTypes == ASSUME Typed, NEW u \in Units, Blocked(u) \/ Granted(u) PROVE Typed'
<1> USE DEF Typed
<1>1. UNCHANGED <<ver, flash, up, uptime, sick, mem, lock, seeded, passDue, sys, ans, hop, diary,
                  rebootRow, faults, deploys, orphans>>
  BY DEF Blocked, Granted, ServerFrame, unit, stored
<1>2. /\ pc' \in [Units -> Steps] /\ pc'[u] \in {"outputs", "reserve"}
      /\ \A w \in Units : w # u => pc'[w] = pc[w]
  BY GotoTypes DEF Blocked, Granted, Steps
<1>3. pc'[u] = "reserve" => sys[u].offered # 0
  BY GotoTypes DEF Blocked, Granted, Steps, Open
<1>4. TypeOK'
  BY <1>1, <1>2 DEF TypeOK
<1>5. Leads' /\ RealHops'
  BY <1>1, <1>2, <1>3 DEF Leads, RealHops
<1> QED BY <1>4, <1>5

\* What a reservation does.
LEMMA ReserveIs ==
    ASSUME Typed, NEW u \in Units, Reserve(u)
    PROVE  /\ pc' \in [Units -> Steps] /\ \A w \in Units : w # u => pc'[w] = pc[w]
           /\ \/ pc'[u] = "outputs" /\ UNCHANGED <<lock, hop>>
              \/ /\ pc'[u] = "send" /\ ~LockActive /\ lock' = [unit |-> u, age |-> 0]
                 /\ \E h \in Hops : h.age = 0 /\ hop' = [hop EXCEPT ![u] = h]
<1> USE DEF Typed
<1>1. PICK r \in 0..Unread :
          IF r = sys[u].offered \/ LockActive
          THEN Goto(u, "outputs") /\ UNCHANGED <<lock, hop>>
          ELSE /\ Goto(u, "send") /\ lock' = [unit |-> u, age |-> 0]
               /\ hop' = [hop EXCEPT ![u] = [from |-> r, to |-> sys[u].offered,
                                             age |-> 0, unc |-> FALSE]]
  BY DEF Reserve
<1>2. CASE Goto(u, "outputs") /\ UNCHANGED <<lock, hop>>
  BY <1>2, GotoTypes DEF Steps
<1>3. CASE ~(Goto(u, "outputs") /\ UNCHANGED <<lock, hop>>)
  <2>1. /\ ~LockActive /\ Goto(u, "send") /\ lock' = [unit |-> u, age |-> 0]
        /\ hop' = [hop EXCEPT ![u] = [from |-> r, to |-> sys[u].offered, age |-> 0, unc |-> FALSE]]
    BY <1>1, <1>3
  <2>2. sys[u].offered \in 0..Latest /\ sys[u].offered # 0
    BY DEF TypeOK, Samples, RealHops, Reserve
  <2>3. sys[u].offered \in 1..Latest
    BY <2>2, Bounds
  <2>4. [from |-> r, to |-> sys[u].offered, age |-> 0, unc |-> FALSE] \in Hops
    BY <1>1, <2>3, HopTypes
  <2>5. [from |-> r, to |-> sys[u].offered, age |-> 0, unc |-> FALSE].age = 0
    OBVIOUS
  <2>6. \E h \in Hops : h.age = 0 /\ hop' = [hop EXCEPT ![u] = h]
    BY <2>1, <2>4, <2>5
  <2> QED BY <2>1, <2>6, GotoTypes DEF Steps
<1> QED BY <1>2, <1>3

LEMMA ReserveTypes == ASSUME Typed, NEW u \in Units, Reserve(u) PROVE Typed'
<1> USE DEF Typed
<1>1. UNCHANGED <<ver, flash, up, uptime, sick, mem, seeded, passDue, sys, ans, diary,
                  rebootRow, deploys, orphans>>
  BY DEF Reserve, ServerFrame, unit, stored
<1>2. faults' \in 0..MaxFaults
  BY FaultType DEF Reserve, ReadVersion
<1>3. hop \in [Units -> MaybeHops] /\ lock \in Locks
  BY DEF TypeOK
<1>4. lock' \in Locks
  BY <1>3, ReserveIs, Bounds DEF Locks
<1>5. hop' \in [Units -> MaybeHops]
  BY <1>3, ReserveIs DEF MaybeHops
<1>6. TypeOK'
  BY <1>1, <1>2, <1>4, <1>5, ReserveIs DEF TypeOK
<1>7. Leads'
  BY <1>1 DEF Leads
<1>8. RealHops'
  <2>1. CASE pc'[u] = "outputs" /\ UNCHANGED <<lock, hop>>
    BY <1>1, <2>1, ReserveIs DEF RealHops
  <2>2. CASE pc'[u] = "send" /\ \E h \in Hops : hop' = [hop EXCEPT ![u] = h]
    <3>1. hop'[u] \in Hops /\ \A w \in Units : w # u => hop'[w] = hop[w]
      BY <1>3, <2>2
    <3> QED BY <1>1, <2>2, <3>1, ReserveIs DEF RealHops
  <2> QED BY <2>1, <2>2, ReserveIs
<1> QED BY <1>6, <1>7, <1>8

LEMMA SendTypes == ASSUME Typed, NEW u \in Units, Send(u) PROVE Typed'
<1> USE DEF Typed
<1>1. UNCHANGED <<ver, up, uptime, sick, mem, lock, seeded, passDue, sys, hop, diary, rebootRow, deploys>>
  BY DEF Send, stored
<1>2. faults' \in 0..MaxFaults
  BY FaultType DEF Send, Reply, NoReply
<1>3. /\ pc' \in [Units -> Steps] /\ pc'[u] = "sent"
      /\ \A w \in Units : w # u => pc'[w] = pc[w]
  BY GotoTypes DEF Send, Steps
<1>4. ans' \in [Units -> {"none", "ok", "no", "lost"}]
  BY DEF Send, Reply, NoReply, TypeOK
<1>5. orphans' \subseteq Units
  BY DEF Send, TypeOK
<1>6. /\ flash' \in [Units -> 0..NoFlash]
      /\ \A w \in Units : flash'[w] # NoFlash => flash[w] # NoFlash \/ ver[w] < Latest
  BY Bounds DEF Send, TypeOK, NoFlash
<1>7. pc[u] = "send"
  BY DEF Send
<1>8. TypeOK'
  BY <1>1, <1>2, <1>3, <1>4, <1>5, <1>6 DEF TypeOK
<1>9. Leads' /\ RealHops'
  BY <1>1, <1>3, <1>6, <1>7 DEF Leads, RealHops
<1> QED BY <1>8, <1>9

\* What becomes of an order to update: a no frees the lock, anything else is written down.
LEMMA SentIs ==
    ASSUME Typed, NEW u \in Units, Sent(u)
    PROVE  /\ mem' \in [Units -> Memories] /\ lock' \in Locks /\ diary' \in [Units -> Rows]
           /\ hop' \in [Units -> MaybeHops] /\ hop'[u] = NoHop
           /\ \A w \in Units : w # u => mem'[w] = mem[w] /\ diary'[w] = diary[w] /\ hop'[w] = hop[w]
           /\ mem'[u].cool = mem[u].cool /\ mem'[u].coolRead = mem[u].coolRead
           /\ mem'[u].read = mem[u].read
           /\ ans[u] = "no" => /\ lock' = Released(u, lock) /\ UNCHANGED diary
                               /\ mem'[u].pend = mem[u].pend
           /\ ans[u] # "no" => /\ UNCHANGED lock /\ mem'[u].pend \in Hops
                               /\ mem'[u].pend.to = hop[u].to /\ mem'[u].pend.age = hop[u].age
                               /\ diary'[u].kind = "started" /\ diary'[u].age = 0
                               /\ diary'[u].hop = mem'[u].pend
<1> USE DEF Typed
<1>1. /\ mem \in [Units -> Memories] /\ lock \in Locks /\ diary \in [Units -> Rows]
      /\ hop \in [Units -> MaybeHops] /\ mem[u] \in Memories
  BY DEF TypeOK
<1>2. hop[u] \in Hops
  BY DEF Sent, RealHops
<1> DEFINE b == ans[u] = "lost"
           h == [hop[u] EXCEPT !.unc = b]
<1>3. b \in BOOLEAN
  OBVIOUS
<1> HIDE DEF b
<1>4. h \in Hops /\ h.to = hop[u].to /\ h.age = hop[u].age
  BY <1>2, <1>3, HopTypes DEF Hops
<1>5. IF ans[u] = "no"
      THEN lock' = Released(u, lock) /\ mem' = [mem EXCEPT ![u].refused = 0] /\ UNCHANGED diary
      ELSE /\ mem' = [mem EXCEPT ![u] = [@ EXCEPT !.tried = 0, !.pend = h, !.late = NoHop, !.expect = TRUE]]
           /\ diary' = [diary EXCEPT ![u] = Row("started", h)] /\ UNCHANGED lock
  BY DEF Sent, b
<1> HIDE DEF h
<1>6. hop' \in [Units -> MaybeHops] /\ hop'[u] = NoHop /\ \A w \in Units : w # u => hop'[w] = hop[w]
  BY <1>1, HopTypes DEF Sent
<1>7. CASE ans[u] = "no"
  <2> DEFINE m == [mem[u] EXCEPT !.refused = 0]
  <2>1. /\ m \in Memories /\ m.pend = mem[u].pend /\ m.cool = mem[u].cool
        /\ m.coolRead = mem[u].coolRead /\ m.read = mem[u].read
    BY <1>1, Bounds DEF Memories
  <2>2. mem' = [mem EXCEPT ![u] = m]
    BY <1>1, <1>5, <1>7
  <2> HIDE DEF m
  <2>3. lock' \in Locks
    BY <1>1, <1>5, <1>7, Bounds DEF Released, NoLock, Locks
  <2> QED BY <1>1, <1>5, <1>6, <1>7, <2>1, <2>2, <2>3
<1>8. CASE ans[u] # "no"
  <2> DEFINE m == [mem[u] EXCEPT !.tried = 0, !.pend = h, !.late = NoHop, !.expect = TRUE]
  <2>1. 0 \in 0..RetryAfter /\ h \in MaybeHops /\ NoHop \in MaybeHops
    BY <1>4, Bounds, HopTypes DEF MaybeHops
  <2>2. m \in Memories /\ m.pend = h /\ m.cool = mem[u].cool
    BY <1>1, <2>1 DEF Memories
  <2>3. m.coolRead = mem[u].coolRead /\ m.read = mem[u].read
    BY <1>1 DEF Memories
  <2>4. mem' = [mem EXCEPT ![u] = m]
    BY <1>1, <1>5, <1>8
  <2> HIDE DEF m
  <2>5. /\ Row("started", h) \in Rows /\ Row("started", h).kind = "started"
        /\ Row("started", h).age = 0 /\ Row("started", h).hop = h
    BY <2>1, RowIs
  <2>6. /\ diary' \in [Units -> Rows] /\ diary'[u] = Row("started", h) /\ lock' = lock
        /\ \A w \in Units : w # u => diary'[w] = diary[w]
    BY <1>1, <1>5, <1>8, <2>5
  <2>7. mem' \in [Units -> Memories] /\ mem'[u] = m /\ \A w \in Units : w # u => mem'[w] = mem[w]
    BY <1>1, <2>2, <2>4
  <2> QED BY <1>1, <1>4, <1>6, <1>8, <2>2, <2>3, <2>5, <2>6, <2>7
<1> QED BY <1>7, <1>8

LEMMA SentTypes == ASSUME Typed, NEW u \in Units, Sent(u) PROVE Typed'
<1> USE DEF Typed
<1>1. UNCHANGED <<ver, flash, up, uptime, sick, seeded, passDue, sys, rebootRow, faults, deploys, orphans>>
  BY DEF Sent, ServerFrame, unit
<1>2. /\ pc' \in [Units -> Steps] /\ pc'[u] = "outputs"
      /\ \A w \in Units : w # u => pc'[w] = pc[w]
  BY GotoTypes DEF Sent, Steps
<1>3. ans' \in [Units -> {"none", "ok", "no", "lost"}]
  BY DEF Sent, TypeOK
<1>4. TypeOK'
  BY <1>1, <1>2, <1>3, SentIs DEF TypeOK
<1>5. Leads'
  BY <1>1 DEF Leads
<1>6. RealHops'
  BY <1>1, <1>2, SentIs DEF RealHops
<1> QED BY <1>4, <1>5, <1>6

\* What the rest of a probe makes of the memory.
LEMMA OutputsIs ==
    ASSUME Typed, NEW u \in Units, Outputs(u)
    PROVE  /\ mem' \in [Units -> Memories] /\ pc' \in [Units -> Steps] /\ sys' \in [Units -> Samples]
           /\ \A w \in Units : w # u => mem'[w] = mem[w] /\ pc'[w] = pc[w] /\ sys'[w] = sys[w]
           /\ mem'[u].pend = mem[u].pend /\ mem'[u].read = mem[u].read
           /\ pc'[u] \in {"idle", "reboot"}
           /\ pc'[u] = "reboot" => /\ mem[u].pend = NoHop /\ mem'[u].coolRead
                                   /\ mem'[u].cool > Cooldown
           /\ \/ mem'[u].cool = mem[u].cool /\ mem'[u].coolRead = mem[u].coolRead
              \/ mem'[u].cool = Cooling(u) /\ mem'[u].coolRead
<1> USE DEF Typed
<1>1. /\ mem \in [Units -> Memories] /\ mem[u] \in Memories /\ sys[u] \in Samples
      /\ sys \in [Units -> Samples] /\ rebootRow[u] \in 0..Cooldown + 1
  BY DEF TypeOK
<1> DEFINE low  == IF ~sys[u].low THEN 0 ELSE Older(mem[u].low, LowStreak)
           want == Wanted(u, low)
           cool == IF want THEN Cooling(u) ELSE mem[u].cool
           e    == mem[u].expect /\ ~Dropped(u)
           b    == mem[u].coolRead \/ want
           m    == [mem[u] EXCEPT !.expect = e, !.low = low, !.lastUp = sys[u].uptime,
                                  !.cool = cool, !.coolRead = b]
<1>2. low \in 0..LowStreak
  BY <1>1, MemFields, Bounds DEF Older
<1>3. want \in BOOLEAN /\ (want => mem[u].pend = NoHop)
  BY DEF Wanted
<1>4. cool \in 0..Cooldown + 1
  BY <1>1, MemFields, Bounds DEF Cooling
<1>5. e \in BOOLEAN /\ b \in BOOLEAN
  BY <1>1, <1>3, MemFields DEF Dropped
<1>6. sys[u].uptime \in 0..Unknown
  BY <1>1, Bounds DEF Samples, Unknown
<1>7. /\ mem' = [mem EXCEPT ![u] = m]
      /\ Goto(u, IF want /\ cool > Cooldown THEN "reboot" ELSE "idle")
      /\ sys' = [sys EXCEPT ![u] = NoSample]
  <2>1. /\ Goto(u, IF want /\ cool > Cooldown THEN "reboot" ELSE "idle")
        /\ sys' = [sys EXCEPT ![u] = NoSample]
    BY DEF Outputs
  <2>2. mem' = [mem EXCEPT ![u] = m]
    BY DEF Outputs
  <2> QED BY <2>1, <2>2
<1>8. (want => cool = Cooling(u) /\ b) /\ (~want => cool = mem[u].cool /\ b = mem[u].coolRead)
  BY <1>1, <1>3, MemFields
<1> HIDE DEF low, want, cool, e, b
<1>9. /\ m \in Memories /\ m.pend = mem[u].pend /\ m.cool = cool
      /\ m.coolRead = b /\ m.read = mem[u].read
  BY <1>1, <1>2, <1>4, <1>5, <1>6 DEF Memories
<1> HIDE DEF m
<1>10. /\ pc' \in [Units -> Steps] /\ pc'[u] = (IF want /\ cool > Cooldown THEN "reboot" ELSE "idle")
       /\ \A w \in Units : w # u => pc'[w] = pc[w]
  BY <1>7, GotoTypes DEF Steps
<1>11. NoSample \in Samples
  BY Bounds DEF NoSample, Samples
<1>12. sys' \in [Units -> Samples] /\ \A w \in Units : w # u => sys'[w] = sys[w]
  BY <1>1, <1>7, <1>11
<1>13. mem' \in [Units -> Memories] /\ mem'[u] = m /\ \A w \in Units : w # u => mem'[w] = mem[w]
  BY <1>1, <1>7, <1>9
<1>14. pc'[u] = "reboot" => want /\ cool > Cooldown
  BY <1>10
<1>15. pc'[u] \in {"idle", "reboot"}
  BY <1>10
<1>16. pc'[u] = "reboot" => /\ mem[u].pend = NoHop /\ mem'[u].coolRead
                            /\ mem'[u].cool > Cooldown
  BY <1>3, <1>8, <1>9, <1>13, <1>14
<1>17. \/ mem'[u].cool = mem[u].cool /\ mem'[u].coolRead = mem[u].coolRead
       \/ mem'[u].cool = Cooling(u) /\ mem'[u].coolRead
  BY <1>8, <1>9, <1>13
<1> QED BY <1>9, <1>10, <1>12, <1>13, <1>15, <1>16, <1>17

LEMMA OutputsTypes == ASSUME Typed, NEW u \in Units, Outputs(u) PROVE Typed'
<1> USE DEF Typed
<1>1. UNCHANGED <<ver, flash, up, uptime, sick, lock, seeded, passDue, ans, hop, diary, rebootRow,
                  faults, deploys, orphans>>
  BY DEF Outputs, ServerFrame, unit, stored
<1>2. TypeOK'
  BY <1>1, OutputsIs DEF TypeOK
<1>3. Leads'
  BY <1>1 DEF Leads
<1>4. RealHops'
  BY <1>1, OutputsIs DEF RealHops
<1> QED BY <1>2, <1>3, <1>4

LEMMA RebootIs ==
    ASSUME Typed, NEW u \in Units, Reboot(u)
    PROVE  /\ UNCHANGED <<ver, up, mem, lock, seeded, passDue, sys, hop, diary, rebootRow, deploys>>
           /\ pc[u] = "reboot" /\ pc' \in [Units -> Steps] /\ pc'[u] = "rebooted"
           /\ \A w \in Units : w # u => pc'[w] = pc[w]
           /\ uptime' \in [Units -> 0..UptimeCap] /\ sick' \in [Units -> BOOLEAN]
           /\ flash' \in [Units -> 0..NoFlash] /\ orphans' \subseteq Units
           /\ \A w \in Units : w # u => flash'[w] = flash[w] /\ (w \in orphans' <=> w \in orphans)
           /\ \/ flash'[u] = NoFlash
              \/ flash'[u] = flash[u] /\ orphans' = orphans
           /\ ans' \in [Units -> {"none", "ok", "no", "lost"}]
           /\ \A w \in Units : w # u => ans'[w] = ans[w]
<1> USE DEF Typed
<1>1. /\ UNCHANGED <<ver, up, mem, lock, seeded, passDue, sys, hop, diary, rebootRow, deploys>>
      /\ pc[u] = "reboot"
  BY DEF Reboot, stored
<1>2. /\ pc' \in [Units -> Steps] /\ pc'[u] = "rebooted"
      /\ \A w \in Units : w # u => pc'[w] = pc[w]
  BY GotoTypes DEF Reboot, Steps
<1>3. /\ ans' \in [Units -> {"none", "ok", "no", "lost"}]
      /\ \A w \in Units : w # u => ans'[w] = ans[w]
  BY DEF Reboot, Reply, NoReply, TypeOK
<1>4. CASE Booted(u)
  BY <1>1, <1>2, <1>3, <1>4, BootedTypes
<1>5. CASE UNCHANGED <<uptime, sick, flash, orphans>>
  BY <1>1, <1>2, <1>3, <1>5 DEF TypeOK
<1> QED BY <1>4, <1>5 DEF Reboot

LEMMA RebootTypes == ASSUME Typed, NEW u \in Units, Reboot(u) PROVE Typed'
<1> USE DEF Typed
<1>1. faults' \in 0..MaxFaults
  BY FaultType DEF Reboot, Reply, NoReply
<1>2. TypeOK'
  BY <1>1, RebootIs DEF TypeOK
<1>3. Leads' /\ RealHops'
  BY RebootIs DEF Leads, RealHops
<1> QED BY <1>2, <1>3

LEMMA RebootedIs ==
    ASSUME Typed, NEW u \in Units, Rebooted(u)
    PROVE  /\ UNCHANGED <<ver, flash, up, uptime, sick, lock, seeded, passDue, sys, hop, diary,
                          faults, deploys, orphans>>
           /\ pc[u] = "rebooted" /\ pc' \in [Units -> Steps] /\ pc'[u] = "idle"
           /\ \A w \in Units : w # u => pc'[w] = pc[w] /\ mem'[w] = mem[w] /\ ans'[w] = ans[w]
                                        /\ rebootRow'[w] = rebootRow[w]
           /\ mem' \in [Units -> Memories] /\ rebootRow' \in [Units -> 0..Cooldown + 1]
           /\ ans' \in [Units -> {"none", "ok", "no", "lost"}]
           /\ mem'[u].pend = mem[u].pend /\ mem'[u].read = mem[u].read
           /\ \/ mem'[u] = mem[u] /\ rebootRow'[u] = rebootRow[u]
              \/ mem'[u].cool = 0 /\ rebootRow'[u] = 0
<1> USE DEF Typed
<1>1. /\ UNCHANGED <<ver, flash, up, uptime, sick, lock, seeded, passDue, sys, hop, diary,
                     faults, deploys, orphans>>
      /\ pc[u] = "rebooted"
  BY DEF Rebooted, ServerFrame, unit
<1>2. /\ pc' \in [Units -> Steps] /\ pc'[u] = "idle"
      /\ \A w \in Units : w # u => pc'[w] = pc[w]
  BY GotoTypes DEF Rebooted, Steps
<1>3. /\ ans' \in [Units -> {"none", "ok", "no", "lost"}]
      /\ \A w \in Units : w # u => ans'[w] = ans[w]
  BY DEF Rebooted, TypeOK
<1>4. mem \in [Units -> Memories] /\ rebootRow \in [Units -> 0..Cooldown + 1] /\ mem[u] \in Memories
  BY DEF TypeOK
<1>5. CASE UNCHANGED <<mem, rebootRow>>
  BY <1>1, <1>2, <1>3, <1>4, <1>5
<1>6. CASE /\ mem' = [mem EXCEPT ![u] = [@ EXCEPT !.cool = 0, !.expect = TRUE, !.low = 0]]
           /\ rebootRow' = [rebootRow EXCEPT ![u] = 0]
  <2> DEFINE m == [mem[u] EXCEPT !.cool = 0, !.expect = TRUE, !.low = 0]
  <2>1. 0 \in 0..Cooldown + 1 /\ 0 \in 0..LowStreak
    BY Bounds
  <2>2. m \in Memories /\ m.pend = mem[u].pend /\ m.read = mem[u].read /\ m.cool = 0
    BY <1>4, <2>1 DEF Memories
  <2>3. mem' = [mem EXCEPT ![u] = m]
    BY <1>6
  <2> HIDE DEF m
  <2>4. mem' \in [Units -> Memories] /\ mem'[u] = m /\ \A w \in Units : w # u => mem'[w] = mem[w]
    BY <1>4, <2>2, <2>3
  <2>5. /\ rebootRow' \in [Units -> 0..Cooldown + 1] /\ rebootRow'[u] = 0
        /\ \A w \in Units : w # u => rebootRow'[w] = rebootRow[w]
    BY <1>4, <1>6, <2>1
  <2> QED BY <1>1, <1>2, <1>3, <2>2, <2>4, <2>5
<1> QED BY <1>5, <1>6 DEF Rebooted

LEMMA RebootedTypes == ASSUME Typed, NEW u \in Units, Rebooted(u) PROVE Typed'
<1> USE DEF Typed
<1>1. TypeOK'
  BY RebootedIs DEF TypeOK
<1>2. Leads' /\ RealHops'
  BY RebootedIs DEF Leads, RealHops
<1> QED BY <1>1, <1>2

LEMMA DeployTypes == Typed /\ Deploy => Typed'
<1> SUFFICES ASSUME Typed, Deploy PROVE Typed'
  OBVIOUS
<1> USE DEF Typed
<1>1. UNCHANGED <<ver, flash, up, uptime, sick, diary, rebootRow, faults>>
  BY DEF Deploy, unit, stored
<1>2. NoLock \in Locks /\ NoSample \in Samples
  BY Bounds DEF NoLock, Locks, NoSample, Samples
<1>3. /\ mem' \in [Units -> Memories] /\ lock' \in Locks /\ seeded' = FALSE /\ passDue' = TRUE
      /\ pc' = [u \in Units |-> "idle"] /\ sys' \in [Units -> Samples]
      /\ ans' \in [Units -> {"none", "ok", "no", "lost"}] /\ hop' \in [Units -> MaybeHops]
  BY <1>2, FreshMem, HopTypes DEF Deploy
<1>4. orphans' \subseteq Units /\ deploys' \in 0..MaxDeploys
  BY Bounds DEF Deploy, TypeOK
<1>5. TypeOK'
  BY <1>1, <1>3, <1>4 DEF TypeOK, Steps
<1>6. Leads' /\ RealHops'
  BY <1>1, <1>3 DEF Leads, RealHops
<1> QED BY <1>5, <1>6

\* What a tick makes of the memory of a unit.
LEMMA OlderMemIs ==
    ASSUME NEW m \in Memories
    PROVE  /\ OlderMem(m) \in Memories /\ OlderMem(m).read = m.read
           /\ OlderMem(m).coolRead = m.coolRead
           /\ OlderMem(m).cool = Older(m.cool, Cooldown + 1)
           /\ OlderMem(m).pend = OlderHop(m.pend, Budget)
<1> DEFINE c == Older(m.cool, Cooldown + 1)
           t == Older(m.tried, RetryAfter)
           r == Older(m.refused, Backoff)
           p == OlderHop(m.pend, Budget)
           l == OlderHop(m.late, LateWatch + 1)
<1>1. c \in 0..Cooldown + 1 /\ t \in 0..RetryAfter /\ r \in 0..Backoff
  BY MemFields, Bounds DEF Older
<1>2. p \in MaybeHops /\ l \in MaybeHops
  <2>1. Budget \in 0..LateWatch + Budget + 1 /\ LateWatch + 1 \in 0..LateWatch + Budget + 1
    BY Bounds
  <2>2. m.pend \in MaybeHops /\ m.late \in MaybeHops
    BY MemFields
  <2> QED BY <2>1, <2>2, OlderHopType
<1>3. OlderMem(m) = [m EXCEPT !.cool = c, !.tried = t, !.refused = r, !.pend = p, !.late = l]
  BY DEF OlderMem
<1> HIDE DEF c, t, r, p, l
<1>4. OlderMem(m) \in Memories
  BY <1>1, <1>2, <1>3 DEF Memories
<1>5. /\ OlderMem(m).read = m.read /\ OlderMem(m).coolRead = m.coolRead
      /\ OlderMem(m).cool = c /\ OlderMem(m).pend = p
  BY <1>3 DEF Memories
<1> QED BY <1>4, <1>5 DEF c, p

LEMMA TickIs ==
    ASSUME Typed, Tick
    PROVE  /\ UNCHANGED <<ver, up, sick, seeded, pc, sys, ans, hop, faults, deploys, orphans>>
           /\ passDue' = TRUE
           /\ uptime' \in [Units -> 0..UptimeCap]
           /\ flash' \in [Units -> 0..NoFlash] /\ mem' \in [Units -> Memories]
           /\ lock' \in Locks /\ lock'.unit = lock.unit /\ lock'.age = Older(lock.age, Budget)
           /\ diary' \in [Units -> Rows] /\ rebootRow' \in [Units -> 0..Cooldown + 1]
           /\ \A u \in Units :
                /\ pc[u] = "idle"
                /\ flash'[u] = IF flash[u] = NoFlash THEN NoFlash ELSE Older(flash[u], Budget)
                /\ mem'[u] = OlderMem(mem[u])
                /\ diary'[u].kind = diary[u].kind /\ diary'[u].hop = diary[u].hop
                /\ diary'[u].age = Older(diary[u].age, DiaryCap)
                /\ rebootRow'[u] = Older(rebootRow[u], Cooldown + 1)
<1> USE DEF Typed
<1>1. /\ UNCHANGED <<ver, up, sick, seeded, pc, sys, ans, hop, faults, deploys, orphans>>
      /\ passDue' = TRUE /\ \A u \in Units : pc[u] = "idle"
  BY DEF Tick, Idle
<1>2. uptime' \in [Units -> 0..UptimeCap] /\ rebootRow' \in [Units -> 0..Cooldown + 1]
  <2>1. \A u \in Units : uptime[u] \in 0..UptimeCap /\ rebootRow[u] \in 0..Cooldown + 1
    BY DEF TypeOK
  <2>2. \A u \in Units : /\ Older(uptime[u], UptimeCap) \in 0..UptimeCap
                         /\ Older(rebootRow[u], Cooldown + 1) \in 0..Cooldown + 1
    BY <2>1, Bounds DEF Older
  <2> QED BY <2>2 DEF Tick
<1>3. /\ flash' \in [Units -> 0..NoFlash]
      /\ \A u \in Units : flash'[u] = IF flash[u] = NoFlash THEN NoFlash ELSE Older(flash[u], Budget)
  <2>1. \A u \in Units : flash[u] \in 0..NoFlash
    BY DEF TypeOK
  <2>2. \A u \in Units : (IF flash[u] = NoFlash THEN NoFlash ELSE Older(flash[u], Budget)) \in 0..NoFlash
    BY <2>1, Bounds DEF Older, NoFlash
  <2> QED BY <2>2 DEF Tick
<1>4. mem' \in [Units -> Memories] /\ \A u \in Units : mem'[u] = OlderMem(mem[u])
  <2>1. \A u \in Units : OlderMem(mem[u]) \in Memories
    BY OlderMemIs DEF TypeOK
  <2> QED BY <2>1 DEF Tick
<1>5. lock' \in Locks /\ lock'.unit = lock.unit /\ lock'.age = Older(lock.age, Budget)
  <2>1. lock \in Locks /\ lock' = [lock EXCEPT !.age = Older(lock.age, Budget)]
    BY DEF Tick, TypeOK
  <2>2. lock.age \in 0..Budget
    BY <2>1 DEF Locks
  <2>3. Older(lock.age, Budget) \in 0..Budget
    BY <2>2, Bounds DEF Older
  <2> QED BY <2>1, <2>3 DEF Locks
<1>6. \A u \in Units :
          /\ [diary[u] EXCEPT !.age = Older(diary[u].age, DiaryCap)] \in Rows
          /\ [diary[u] EXCEPT !.age = Older(diary[u].age, DiaryCap)].kind = diary[u].kind
          /\ [diary[u] EXCEPT !.age = Older(diary[u].age, DiaryCap)].hop = diary[u].hop
          /\ [diary[u] EXCEPT !.age = Older(diary[u].age, DiaryCap)].age = Older(diary[u].age, DiaryCap)
  <2> TAKE u \in Units
  <2>1. diary[u] \in Rows
    BY DEF TypeOK
  <2>2. diary[u].age \in 0..DiaryCap
    BY <2>1 DEF Rows
  <2>3. Older(diary[u].age, DiaryCap) \in 0..DiaryCap
    BY <2>2, Bounds DEF Older
  <2> QED BY <2>1, <2>3 DEF Rows
<1>7. diary' = [u \in Units |-> [diary[u] EXCEPT !.age = Older(diary[u].age, DiaryCap)]]
  BY DEF Tick
<1>8. diary' \in [Units -> Rows]
  BY <1>6, <1>7
<1>9. \A u \in Units : /\ diary'[u].kind = diary[u].kind /\ diary'[u].hop = diary[u].hop
                       /\ diary'[u].age = Older(diary[u].age, DiaryCap)
  BY <1>6, <1>7
<1>10. \A u \in Units : rebootRow'[u] = Older(rebootRow[u], Cooldown + 1)
  BY DEF Tick
<1> QED BY <1>1, <1>2, <1>3, <1>4, <1>5, <1>8, <1>9, <1>10

LEMMA TickTypes == Typed /\ Tick => Typed'
<1> SUFFICES ASSUME Typed, Tick PROVE Typed'
  OBVIOUS
<1>1. TypeOK'
  BY TickIs DEF Typed, TypeOK
<1>2. Leads'
  BY TickIs DEF Typed, Leads
<1>3. RealHops'
  BY TickIs DEF Typed, RealHops
<1> QED BY <1>1, <1>2, <1>3 DEF Typed

LEMMA NextTypes == Typed /\ [Next]_vars => Typed'
<1> SUFFICES ASSUME Typed, [Next]_vars PROVE Typed'
  OBVIOUS
<1>1. CASE UnitStep
  BY <1>1, UnitTypes
<1>2. CASE BeginPass \/ SkipPass
  BY <1>2, PassTypes
<1>3. ASSUME NEW u \in Units, ProbeStep(u) PROVE Typed'
  BY <1>3, SilentTypes, AnsweredTypes, VerifyTypes, LateTypes, GateTypes, ReserveTypes, SendTypes,
     SentTypes, OutputsTypes, RebootTypes, RebootedTypes DEF ProbeStep
<1>4. CASE Deploy
  BY <1>4, DeployTypes
<1>5. CASE Tick
  BY <1>5, TickTypes
<1>6. CASE UNCHANGED vars
  BY <1>6 DEF vars, unit, process, stored, Typed, TypeOK, Leads, RealHops
<1> QED BY <1>1, <1>2, <1>3, <1>4, <1>5, <1>6 DEF Next

\* The units, the memory of the process and the table device_events hold what
\* they should: health.js and fw-update.js write nothing else into them.
THEOREM FleetTypes == Spec => []TypeOK
<1>1. Spec => []Typed
  BY InitTypes, NextTypes, PTL DEF Spec
<1>2. Typed => TypeOK
  BY DEF Typed
<1> QED BY <1>1, <1>2, PTL

-----------------------------------------------------------------------------
(* The lock and the hops *)

LEMMA Numbers ==
    ASSUME TypeOK, NEW u \in Units
    PROVE  /\ flash[u] \in Nat /\ ver[u] \in Nat /\ ver[u] <= Latest /\ rebootRow[u] \in Nat
           /\ diary[u] \in Rows /\ diary[u].age \in Nat /\ diary[u].age <= DiaryCap
           /\ diary[u].hop \in MaybeHops /\ mem[u] \in Memories /\ mem[u].pend \in MaybeHops
           /\ mem[u].pend.age \in Nat /\ mem[u].cool \in Nat
           /\ mem[u].read \in BOOLEAN /\ mem[u].coolRead \in BOOLEAN
           /\ hop[u] \in MaybeHops /\ hop[u].age \in Nat
<1>1. flash[u] \in Nat /\ ver[u] \in Nat /\ ver[u] <= Latest /\ rebootRow[u] \in Nat
  BY Bounds DEF TypeOK, Versions, NoFlash
<1>2. diary[u] \in Rows /\ mem[u] \in Memories /\ hop[u] \in MaybeHops
  BY DEF TypeOK
<1>3. diary[u].age \in Nat /\ diary[u].age <= DiaryCap /\ diary[u].hop \in MaybeHops
  BY <1>2, Bounds DEF Rows
<1>4. /\ mem[u].pend \in MaybeHops /\ mem[u].cool \in Nat
      /\ mem[u].read \in BOOLEAN /\ mem[u].coolRead \in BOOLEAN
  BY <1>2, MemFields, Bounds
<1>5. mem[u].pend.age \in Nat /\ hop[u].age \in Nat
  BY <1>2, <1>4, HopFields, Bounds
<1> QED BY <1>1, <1>2, <1>3, <1>4, <1>5

LEMMA LockNumbers ==
    /\ NoLock.unit = None /\ NoLock.age = Budget
    /\ \A l \in Locks : l.age \in Nat /\ l.age <= Budget /\ l.unit \in Units \union {None}
BY Bounds DEF NoLock, Locks

\* What seed makes of the hop in memory.
LEMMA SeededMemIs ==
    ASSUME Typed, NEW u \in Units
    PROVE  /\ SeededMem(u).read = TRUE
           /\ SeededMem(u).cool = mem[u].cool /\ SeededMem(u).coolRead = mem[u].coolRead
           /\ Resumes(u) => /\ SeededMem(u).pend # NoHop
                            /\ SeededMem(u).pend.to = diary[u].hop.to
                            /\ SeededMem(u).pend.age = diary[u].age
           /\ ~Resumes(u) => SeededMem(u).pend = mem[u].pend
<1> DEFINE t == IF diary[u].age < RetryAfter THEN diary[u].age ELSE RetryAfter
           h == [diary[u].hop EXCEPT !.age = diary[u].age]
           p == IF Resumes(u) THEN h ELSE mem[u].pend
           e == mem[u].expect \/ Resumes(u)
           n == [mem[u] EXCEPT !.read = TRUE, !.tried = t, !.pend = p, !.expect = e]
<1>1. mem[u] \in Memories
  BY Numbers DEF Typed
<1>2. Resumes(u) => h # NoHop /\ h.to = diary[u].hop.to /\ h.age = diary[u].age
  <2> SUFFICES ASSUME Resumes(u) PROVE h # NoHop /\ h.to = diary[u].hop.to /\ h.age = diary[u].age
    OBVIOUS
  <2>1. diary[u].hop \in Hops /\ diary[u].age \in 0..Budget + LateWatch + 1 /\ diary[u].hop \in MaybeHops
    BY Numbers, Bounds DEF Resumes, Typed, RealHops
  <2>2. h \in Hops /\ h.to = diary[u].hop.to /\ h.age = diary[u].age
    BY <2>1, HopAged
  <2>3. h \in MaybeHops
    BY <2>2 DEF MaybeHops
  <2> QED BY <2>2, <2>3, HopFields
<1>3. CASE mem[u].read \/ diary[u].kind = "none"
  <2>1. ~Resumes(u)
    BY <1>3 DEF Resumes
  <2>2. SeededMem(u) = [mem[u] EXCEPT !.read = TRUE]
    BY <1>3 DEF SeededMem
  <2> QED BY <1>1, <2>1, <2>2 DEF Memories
<1>4. CASE ~(mem[u].read \/ diary[u].kind = "none")
  <2>1. SeededMem(u) = n
    BY <1>4 DEF SeededMem
  <2>2. (Resumes(u) => p = h) /\ (~Resumes(u) => p = mem[u].pend)
    OBVIOUS
  <2> HIDE DEF p, t, e, h
  <2>3. n.read = TRUE /\ n.cool = mem[u].cool /\ n.coolRead = mem[u].coolRead /\ n.pend = p
    BY <1>1 DEF Memories
  <2> QED BY <1>2, <2>1, <2>2, <2>3
<1> QED BY <1>3, <1>4

\* A lock that is somebody else's stays; one of this unit has the age of its row.
LEMMA SeededLockIs ==
    ASSUME NEW u \in Units, NEW l
    PROVE  \/ SeededLock(u, l) = l
           \/ /\ Resumes(u) /\ l.unit \in {None, u} /\ SeededLock(u, l).unit = u
              /\ SeededLock(u, l).age = IF diary[u].age < Budget THEN diary[u].age ELSE Budget
BY DEF SeededLock

LEMMA ReleasedIs ==
    ASSUME NEW u \in Units, NEW l
    PROVE  /\ l.unit # u => Released(u, l) = l
           /\ l.unit = u => Released(u, l) = NoLock
BY DEF Released

\* Once the diary has been read again the memory has the open hop, and the install.
LEMMA SeededKnown ==
    ASSUME IInv, NEW u \in Units, pc[u] = "status"
    PROVE  LET m == SeededMem(u)
           IN  /\ m.pend # NoHop => diary[u].kind = "started" /\ m.pend.age <= diary[u].age
               /\ u \in OpenHops => m.pend # NoHop
               /\ Running(u) => /\ m.pend # NoHop /\ m.pend.to = ver[u] + 1 /\ m.pend.age <= flash[u]
                                /\ diary[u].kind = "started" /\ diary[u].age <= flash[u]
                                /\ diary[u].hop.to = ver[u] + 1
<1> DEFINE m == SeededMem(u)
<1>1. Typed /\ TypeOK
  BY DEF IInv, Typed
<1>2. Running(u) => Known(u)
  BY DEF IInv, Safe, Covered
<1>3. CASE Resumes(u)
  <2>1. m.pend # NoHop /\ m.pend.to = diary[u].hop.to /\ m.pend.age = diary[u].age
    BY <1>1, <1>3, SeededMemIs
  <2>2. diary[u].kind = "started" /\ diary[u].age <= diary[u].age
    BY <1>1, <1>3, Numbers DEF Resumes
  <2> QED BY <1>2, <2>1, <2>2 DEF Known
<1>4. CASE ~Resumes(u)
  <2>1. m.pend = mem[u].pend
    BY <1>1, <1>4, SeededMemIs
  <2>2. u \in OpenHops => mem[u].read
    BY <1>1, <1>4, Numbers, Bounds DEF OpenHops, Resumes
  <2>3. Running(u) => mem[u].read
    BY <1>1, <1>2, <1>4, Numbers, Bounds DEF Running, Known, Resumes
  <2>4. /\ mem[u].pend # NoHop => diary[u].kind = "started" /\ mem[u].pend.age <= diary[u].age
        /\ u \in OpenHops /\ mem[u].read => mem[u].pend # NoHop
    BY DEF IInv, Safe, Recorded
  <2> QED BY <1>2, <2>1, <2>2, <2>3, <2>4 DEF Known
<1> QED BY <1>3, <1>4

-----------------------------------------------------------------------------
(* Preservation *)

LEMMA InitSafe == Init => Safe
<1> SUFFICES ASSUME Init PROVE Safe
  OBVIOUS
<1>1. /\ \A u \in Units : mem[u] = NoMemory /\ diary[u] = NoRow /\ pc[u] = "idle" /\ flash[u] = NoFlash
      /\ lock = NoLock /\ seeded = FALSE
  BY DEF Init
<1>2. /\ NoMemory.pend = NoHop /\ NoMemory.read = FALSE /\ NoMemory.coolRead = FALSE
      /\ NoRow.kind = "none"
  BY DEF NoMemory, NoRow
<1>3. OpenHops = {}
  BY <1>1, <1>2 DEF OpenHops
<1>4. Probed /\ PendingFits /\ Recorded /\ Reserved /\ Cooled
  BY <1>1, <1>2, <1>3 DEF Probed, PendingFits, Recorded, Reserved, Cooled
<1>5. Locked /\ Held
  BY <1>1, <1>3, LockNumbers, Bounds DEF Locked, Held, LockActive
<1>6. Covered
  BY <1>1, Bounds DEF Covered, Running, NoFlash
<1> QED BY <1>4, <1>5, <1>6 DEF Safe

\* The units: an install ends, and none begins.
LEMMA UnitSafe == IInv /\ UnitStep => Safe'
<1> SUFFICES ASSUME IInv, NEW u \in Units,
                    Installed(u) \/ InstallFails(u) \/ Panic(u) \/ FallsSilent(u) \/ ComesBack(u) \/ Leaks(u)
             PROVE  Safe'
  BY DEF UnitStep
<1> USE DEF IInv, Safe
<1>1. UNCHANGED <<mem, lock, seeded, passDue, pc, sys, ans, hop, diary, rebootRow>>
  BY DEF Installed, InstallFails, Panic, FallsSilent, ComesBack, Leaks, UnitFrame, process, stored
<1>2. Probed' /\ PendingFits' /\ Reserved' /\ Cooled'
  BY <1>1 DEF Probed, PendingFits, Reserved, Cooled, OpenHops
<1>3. Recorded' /\ Locked' /\ Held'
  BY <1>1 DEF Recorded, Locked, Held, OpenHops, LockActive
<1>4. \A w \in Units : Running(w)' => Running(w) /\ ver'[w] = ver[w] /\ flash'[w] = flash[w]
  <2>1. CASE Installed(u) \/ Panic(u)
    <3>1. Booted(u) /\ TypeOK
      BY <2>1 DEF Installed, Panic, Typed
    <3>2. ~Running(u)'
      BY <3>1, BootedTypes, Bounds DEF Running, NoFlash
    <3>3. \A w \in Units : w # u => ver'[w] = ver[w]
      BY <2>1 DEF Installed, Panic, TypeOK, Typed
    <3> QED BY <3>1, <3>2, <3>3, BootedTypes DEF Running
  <2>2. CASE InstallFails(u)
    <3>1. ~Running(u)'
      BY <2>2, Bounds DEF Running, InstallFails, NoFlash, Typed, TypeOK
    <3> QED BY <2>2, <3>1 DEF Running, InstallFails, Typed, TypeOK
  <2>3. CASE FallsSilent(u) \/ ComesBack(u) \/ Leaks(u)
    BY <2>3 DEF FallsSilent, ComesBack, Leaks, Running
  <2> QED BY <2>1, <2>2, <2>3
<1>5. Covered'
  BY <1>1, <1>4 DEF Covered, Known
<1> QED BY <1>2, <1>3, <1>5

LEMMA PassSafe == IInv /\ (BeginPass \/ SkipPass) => Safe'
<1> SUFFICES ASSUME IInv, BeginPass \/ SkipPass PROVE Safe'
  OBVIOUS
<1> USE DEF IInv, Safe
<1>1. UNCHANGED <<ver, flash, mem, lock, seeded, hop, ans, diary, rebootRow, orphans>>
  BY DEF BeginPass, SkipPass, ServerFrame, unit, stored
<1>2. \A u \in Units : pc[u] = "idle" /\ pc'[u] \in {"idle", "status"}
  BY DEF BeginPass, SkipPass, Idle
<1>3. Probed' /\ PendingFits' /\ Reserved' /\ Cooled'
  BY <1>1, <1>2 DEF Probed, PendingFits, Reserved, Cooled
<1>4. Recorded' /\ Locked' /\ Held'
  BY <1>1, <1>2 DEF Recorded, Locked, Held, OpenHops, LockActive
<1>5. Covered'
  BY <1>1, <1>2 DEF Covered, Known, Running
<1> QED BY <1>3, <1>4, <1>5

\* A hop that is given up frees the lock; an install within the budget is none of these.
LEMMA FailSafe ==
    ASSUME IInv, NEW u \in Units, NEW m \in Memories, NEW l \in Locks, NEW reports, NEW unreachable,
           Fail(u, m, l, reports, unreachable), m.pend.age >= Budget, m.pend # NoHop,
           m.read, m.cool = mem[u].cool, m.coolRead = mem[u].coolRead,
           m.pend.age <= diary[u].age, Running(u) => m.pend.age <= flash[u],
           l = lock \/ (lock.unit \in {None, u} /\ l.unit = u),
           pc[u] \notin {"send", "sent"}, pc'[u] \in {"idle", "outputs"},
           pc'[u] = "outputs" => seeded,
           \A w \in Units : w # u => pc'[w] = pc[w],
           UNCHANGED <<ver, flash, seeded, ans, hop, rebootRow, orphans>>
    PROVE  Safe'
<1> USE DEF IInv, Safe
<1>0. TypeOK /\ Typed
  BY DEF Typed
<1>1. /\ \A w \in Units : diary'[w].kind = "started" => diary'[w] = diary[w]
      /\ lock' = Released(u, l) /\ mem'[u].pend = NoHop /\ mem'[u].read
      /\ mem'[u].cool = mem[u].cool /\ mem'[u].coolRead = mem[u].coolRead
      /\ \A w \in Units : w # u => mem'[w] = mem[w] /\ diary'[w] = diary[w]
  BY <1>0, FailTypes
<1>2. ~Running(u) /\ diary[u].age >= Budget
  BY <1>0, Numbers, MemFields, HopFields, Bounds DEF Running
<1>3. OpenHops' \subseteq OpenHops /\ u \notin OpenHops'
  BY <1>0, <1>1, <1>2, Numbers, Bounds DEF OpenHops
<1>4. \A w \in Units : w # u /\ w \in OpenHops => w \in OpenHops'
  BY <1>1 DEF OpenHops
<1>5. /\ lock.unit \in Units /\ lock.unit # u => lock' = lock
      /\ lock' = lock \/ lock' = NoLock
      /\ LockActive' => lock' = lock /\ lock.unit # u
  <2>1. lock \in Locks /\ None \notin Units
    BY <1>0, Bounds DEF TypeOK
  <2>2. NoLock.age = Budget /\ NoLock.unit = None /\ Budget \in Nat
    BY LockNumbers, Bounds
  <2> QED BY <1>1, <2>1, <2>2, ReleasedIs DEF LockActive
<1>6. Probed' /\ PendingFits' /\ Cooled'
  BY <1>1 DEF Probed, PendingFits, Cooled
<1>7. Recorded'
  BY <1>1, <1>3, <1>4 DEF Recorded, OpenHops
<1>8. Reserved'
  BY <1>3, <1>5 DEF Reserved
<1>9. Locked'
  <2>1. CASE seeded
    BY <1>1, <1>3, <1>5, <2>1 DEF Locked, OpenHops
  <2>2. CASE ~seeded
    <3>1. \A v, w \in OpenHops' : v = w
      BY <1>3, <2>2 DEF Locked
    <3>2. ASSUME LockActive' PROVE lock'.unit \in OpenHops' /\ lock'.age = diary'[lock'.unit].age
      <4>1. lock' = lock /\ LockActive /\ lock.unit # u
        BY <1>5, <3>2 DEF LockActive
      <4>2. lock.unit \in OpenHops /\ lock.age = diary[lock.unit].age
        BY <2>2, <4>1 DEF Locked
      <4> QED BY <1>1, <1>4, <4>1, <4>2 DEF OpenHops
    <3> QED BY <2>2, <3>1, <3>2 DEF Locked
  <2> QED BY <2>1, <2>2
<1>10. Held'
  <2> SUFFICES ASSUME LockActive'
               PROVE  /\ lock'.unit \in Units
                      /\ \/ pc'[lock'.unit] \in {"send", "sent"}
                         \/ mem'[lock'.unit].pend # NoHop
                         \/ /\ ~mem'[lock'.unit].read /\ lock'.unit \in OpenHops'
                            /\ diary'[lock'.unit].age <= lock'.age
    BY DEF Held
  <2>1. lock' = lock /\ LockActive /\ lock.unit # u
    BY <1>5 DEF LockActive
  <2> QED BY <1>1, <1>4, <2>1 DEF Held
<1>11. Covered'
  BY <1>1, <1>2 DEF Covered, Known, Running
<1> QED BY <1>6, <1>7, <1>8, <1>9, <1>10, <1>11

\* The memory of a unit after seed.
LEMMA SeedSafe ==
    ASSUME IInv, NEW u \in Units, pc[u] = "status", mem' = [mem EXCEPT ![u] = SeededMem(u)],
           pc'[u] \in {"idle", "verify", "late", "gates"},
           pc'[u] \in {"late", "gates"} => SeededMem(u).pend = NoHop,
           \A w \in Units : w # u => pc'[w] = pc[w],
           UNCHANGED <<ver, flash, diary, ans, hop, rebootRow, orphans>>
    PROVE  /\ Recorded' /\ Covered' /\ Cooled' /\ OpenHops' = OpenHops
           /\ mem'[u] = SeededMem(u) /\ \A w \in Units : w # u => mem'[w] = mem[w]
<1> USE DEF IInv, Safe
<1>0. TypeOK /\ Typed
  BY DEF Typed
<1>1. mem'[u] = SeededMem(u) /\ \A w \in Units : w # u => mem'[w] = mem[w]
  BY <1>0 DEF TypeOK
<1>2. OpenHops' = OpenHops
  BY DEF OpenHops
<1>3. /\ mem'[u].read = TRUE
      /\ mem'[u].cool = mem[u].cool /\ mem'[u].coolRead = mem[u].coolRead
  BY <1>0, <1>1, SeededMemIs
<1>4. /\ mem'[u].pend # NoHop => diary[u].kind = "started" /\ mem'[u].pend.age <= diary[u].age
      /\ u \in OpenHops => mem'[u].pend # NoHop
      /\ Running(u) => /\ mem'[u].pend # NoHop /\ mem'[u].pend.to = ver[u] + 1
                       /\ mem'[u].pend.age <= flash[u]
                       /\ diary[u].kind = "started" /\ diary[u].age <= flash[u]
                       /\ diary[u].hop.to = ver[u] + 1
  BY <1>1, SeededKnown
<1>5. Recorded'
  BY <1>1, <1>2, <1>4 DEF Recorded
<1>6. Covered'
  <2> SUFFICES ASSUME NEW w \in Units, Running(w)'
               PROVE  /\ pc'[w] \notin {"late", "gates", "reserve", "send", "reboot"}
                      /\ pc'[w] = "sent" => ans'[w] # "no" /\ hop'[w].to = ver'[w] + 1
                      /\ pc'[w] # "sent" => Known(w)'
    BY DEF Covered
  <2>1. Running(w)
    BY DEF Running
  <2>2. CASE w = u
    BY <1>1, <1>4, <2>1, <2>2 DEF Known
  <2>3. CASE w # u
    BY <1>1, <2>1, <2>3 DEF Covered, Known
  <2> QED BY <2>2, <2>3
<1>7. Cooled'
  BY <1>1, <1>3 DEF Cooled
<1> QED BY <1>1, <1>2, <1>5, <1>6, <1>7

LEMMA SilentSafe == ASSUME IInv, NEW u \in Units, Silent(u) PROVE Safe'
<1> USE DEF IInv, Safe
<1>0. TypeOK /\ Typed
  BY DEF Typed
<1>1. /\ UNCHANGED <<ver, flash, seeded, ans, hop, rebootRow, orphans>>
      /\ pc[u] = "status"
  BY DEF Silent, ServerFrame, unit
<1>2. pc'[u] = "idle" /\ \A w \in Units : w # u => pc'[w] = pc[w]
  BY <1>0, GotoTypes DEF Silent, Steps
<1>3. SeededMem(u) \in Memories /\ SeededLock(u, lock) \in Locks
  BY <1>0, SeededTypes DEF TypeOK
<1>4. /\ SeededMem(u).read = TRUE /\ SeededMem(u).cool = mem[u].cool
      /\ SeededMem(u).coolRead = mem[u].coolRead
  BY <1>0, SeededMemIs
<1>5. lock.unit \in Units \union {None} /\ lock.age \in Nat /\ None \notin Units
  BY <1>0, LockNumbers, Bounds DEF TypeOK
<1>6. CASE /\ SeededMem(u).pend # NoHop /\ SeededMem(u).pend.age >= Budget
           /\ Fail(u, SeededMem(u), SeededLock(u, lock), Unread, TRUE)
  <2>1. /\ SeededMem(u).pend.age <= diary[u].age
        /\ Running(u) => SeededMem(u).pend.age <= flash[u]
    BY <1>1, <1>6, SeededKnown
  <2>2. SeededLock(u, lock) = lock \/ (lock.unit \in {None, u} /\ SeededLock(u, lock).unit = u)
    BY SeededLockIs
  <2> QED BY <1>1, <1>2, <1>3, <1>4, <1>6, <2>1, <2>2, FailSafe
<1>7. CASE mem' = [mem EXCEPT ![u] = SeededMem(u)] /\ lock' = SeededLock(u, lock) /\ UNCHANGED diary
  <2>1. /\ Recorded' /\ Covered' /\ Cooled' /\ OpenHops' = OpenHops
        /\ mem'[u] = SeededMem(u) /\ \A w \in Units : w # u => mem'[w] = mem[w]
    BY <1>1, <1>2, <1>7, SeedSafe
  <2>2. Probed' /\ PendingFits'
    BY <1>1, <1>2, <2>1 DEF Probed, PendingFits
  <2>3. \/ lock' = lock
        \/ /\ Resumes(u) /\ lock.unit \in {None, u} /\ lock'.unit = u
           /\ lock'.age = IF diary[u].age < Budget THEN diary[u].age ELSE Budget
    BY <1>7, SeededLockIs
  <2>4. Reserved'
    BY <1>1, <1>2, <1>5, <2>1, <2>3 DEF Reserved
  <2>5. diary[u].age \in Nat /\ Budget \in Nat
    BY <1>0, Numbers, Bounds
  <2>6. Resumes(u) /\ diary[u].age < Budget => u \in OpenHops
    BY DEF Resumes, OpenHops
  <2>7. Locked'
    <3>1. CASE seeded
      BY <1>1, <1>5, <1>7, <2>1, <2>3, <2>5, <3>1 DEF Locked, OpenHops
    <3>2. CASE ~seeded
      BY <1>1, <1>7, <2>1, <2>3, <2>5, <2>6, <3>2 DEF Locked, LockActive
    <3> QED BY <3>1, <3>2
  <2>8. Resumes(u) => mem'[u].pend # NoHop
    BY <1>0, <2>1, SeededMemIs
  <2>9. lock' = lock /\ LockActive => (lock.unit = u => mem'[u].pend # NoHop)
    <3>1. CASE Resumes(u)
      BY <2>8, <3>1
    <3>2. CASE ~Resumes(u)
      <4>1. mem'[u].pend = mem[u].pend
        BY <1>0, <2>1, <3>2, SeededMemIs
      <4>2. u \in OpenHops => mem'[u].pend # NoHop
        BY <2>1, SeededMemIs, <1>0 DEF Recorded
      <4> QED BY <1>1, <4>1, <4>2 DEF Held
    <3> QED BY <3>1, <3>2
  <2>10. Held'
    BY <1>1, <1>2, <1>7, <2>1, <2>3, <2>8, <2>9 DEF Held, LockActive
  <2> QED BY <2>1, <2>2, <2>4, <2>7, <2>10
<1> QED BY <1>6, <1>7 DEF Silent

\* What seedFleet finds: the open hop, if there is one, has the lock.
LEMMA FleetLocksAre ==
    ASSUME IInv, NEW l \in FleetLocks
    PROVE  /\ \A w \in OpenHops : l.unit = w /\ l.age <= diary[w].age
           /\ seeded \/ OpenHops = {} => l = lock
           /\ l = lock \/ \E w \in OpenHops : l.unit = w /\ l.age = diary[w].age
<1> USE DEF IInv, Safe
<1>0. TypeOK /\ Typed
  BY DEF Typed
<1>1. CASE seeded \/ OpenHops = {}
  <2>1. l = lock
    BY <1>1 DEF FleetLocks
  <2> QED BY <1>1, <2>1 DEF Locked
<1>2. CASE ~(seeded \/ OpenHops = {})
  <2>1. PICK x \in OpenHops :
            l = IF lock.unit = None \/ diary[x].age < lock.age
                THEN [unit |-> x, age |-> diary[x].age] ELSE lock
    BY <1>2 DEF FleetLocks
  <2>2. x \in Units /\ diary[x].age < Budget
    BY <2>1 DEF OpenHops
  <2>3. diary[x].age \in Nat /\ lock.age \in Nat /\ lock.age <= Budget /\ Budget \in Nat
    BY <1>0, <2>2, Numbers, LockNumbers, Bounds DEF TypeOK
  <2>4. \A w \in OpenHops : w = x
    BY <1>2, <2>1 DEF Locked
  <2>5. CASE lock.unit = None \/ diary[x].age < lock.age
    BY <1>2, <2>1, <2>3, <2>4, <2>5
  <2>6. CASE ~(lock.unit = None \/ diary[x].age < lock.age)
    <3>1. LockActive
      BY <2>2, <2>3, <2>6 DEF LockActive
    <3>2. lock.unit = x /\ lock.age = diary[x].age
      BY <1>2, <2>4, <3>1 DEF Locked
    <3> QED BY <1>2, <2>1, <2>3, <2>4, <2>6, <3>2
  <2> QED BY <2>5, <2>6
<1> QED BY <1>1, <1>2

LEMMA AnsweredSafe == ASSUME IInv, NEW u \in Units, Answered(u) PROVE Safe'
<1> USE DEF IInv, Safe
<1>0. TypeOK /\ Typed
  BY DEF Typed
<1>1. /\ UNCHANGED <<ver, flash, ans, hop, diary, rebootRow, orphans>>
      /\ pc[u] = "status" /\ seeded' = TRUE /\ mem' = [mem EXCEPT ![u] = SeededMem(u)]
  BY DEF Answered, ServerFrame, unit, stored
<1>2. PICK l \in FleetLocks : lock' = SeededLock(u, l)
  BY DEF Answered
<1>3. /\ \A w \in Units : w # u => pc'[w] = pc[w]
      /\ pc'[u] \in {"verify", "late", "gates"}
      /\ pc'[u] = "verify" <=> SeededMem(u).pend # NoHop
  <2> DEFINE p == IF SeededMem(u).pend # NoHop THEN "verify"
                  ELSE IF SeededMem(u).late # NoHop THEN "late" ELSE "gates"
  <2>1. Goto(u, p) /\ p \in {"verify", "late", "gates"} /\ (p = "verify" <=> SeededMem(u).pend # NoHop)
    BY DEF Answered
  <2> HIDE DEF p
  <2>2. p \in Steps
    BY <2>1 DEF Steps
  <2>3. pc'[u] = p /\ \A w \in Units : w # u => pc'[w] = pc[w]
    BY <1>0, <2>1, <2>2, GotoTypes
  <2> QED BY <2>1, <2>3
<1>4. /\ Recorded' /\ Covered' /\ Cooled' /\ OpenHops' = OpenHops
      /\ mem'[u] = SeededMem(u) /\ \A w \in Units : w # u => mem'[w] = mem[w]
  BY <1>1, <1>3, SeedSafe
<1>5. SeededMem(u).read = TRUE
  BY <1>0, SeededMemIs
<1>6. Probed' /\ PendingFits'
  BY <1>1, <1>3, <1>4, <1>5 DEF Probed, PendingFits
<1>7. \/ lock' = l
      \/ /\ Resumes(u) /\ l.unit \in {None, u} /\ lock'.unit = u
         /\ lock'.age = IF diary[u].age < Budget THEN diary[u].age ELSE Budget
  BY <1>2, SeededLockIs
<1>8. l.unit \in Units \union {None} /\ l.age \in Nat /\ None \notin Units
  BY <1>0, FleetLockTypes, LockNumbers, Bounds
<1>9. diary[u].age \in Nat /\ Budget \in Nat
  BY <1>0, Numbers, Bounds
<1>10. Reserved'
  <2> SUFFICES ASSUME NEW w \in Units, pc'[w] \in {"send", "sent"}
               PROVE  lock'.unit = w /\ lock'.age = 0 /\ hop'[w].age = 0 /\ OpenHops' = {}
    BY DEF Reserved
  <2>1. w # u /\ pc[w] \in {"send", "sent"}
    BY <1>3
  <2>2. seeded /\ lock.unit = w /\ lock.age = 0 /\ hop[w].age = 0 /\ OpenHops = {}
    BY <2>1 DEF Probed, Reserved
  <2>3. l = lock
    BY <2>2, FleetLocksAre
  <2> QED BY <1>1, <1>4, <1>7, <1>8, <2>1, <2>2, <2>3
<1>11. Locked'
  <2>1. \A w \in OpenHops : l.unit = w /\ l.age <= diary[w].age
    BY FleetLocksAre
  <2>2. \A w \in OpenHops : w \in Units /\ diary[w].age < Budget
    BY DEF OpenHops
  <2> QED BY <1>1, <1>4, <1>7, <1>8, <1>9, <2>1, <2>2 DEF Locked
<1>12. Resumes(u) => mem'[u].pend # NoHop
  BY <1>0, <1>4, SeededMemIs
<1>13. u \in OpenHops => mem'[u].pend # NoHop
  BY <1>1, <1>4, SeededKnown
<1>14. CASE lock' = lock
  <2>1. LockActive /\ lock.unit = u => mem'[u].pend # NoHop
    <3>1. ~Resumes(u) => mem'[u].pend = mem[u].pend
      BY <1>0, <1>4, SeededMemIs
    <3> QED BY <1>1, <1>12, <1>13, <3>1 DEF Held
  <2>2. Held'
    BY <1>1, <1>3, <1>4, <1>14, <2>1 DEF Held, LockActive
  <2> QED BY <1>4, <1>6, <1>10, <1>11, <2>2
<1>15. CASE lock' = l /\ \E w \in OpenHops : l.unit = w /\ l.age = diary[w].age
  <2>1. PICK w \in OpenHops : l.unit = w /\ l.age = diary[w].age
    BY <1>15
  <2>2. w \in Units
    BY <2>1 DEF OpenHops
  <2>3. mem'[w].pend # NoHop \/ (~mem'[w].read /\ w \in OpenHops')
    BY <1>4, <2>1, <2>2, <1>13 DEF Recorded
  <2>4. diary'[w].age <= lock'.age
    BY <1>1, <1>15, <1>8, <2>1
  <2>5. Held'
    BY <1>15, <2>1, <2>2, <2>3, <2>4 DEF Held
  <2> QED BY <1>4, <1>6, <1>10, <1>11, <2>5
<1>16. CASE lock'.unit = u /\ Resumes(u)
  <2>1. Held'
    BY <1>12, <1>16 DEF Held
  <2> QED BY <1>4, <1>6, <1>10, <1>11, <2>1
<1> QED BY <1>7, <1>14, <1>15, <1>16, FleetLocksAre

LEMMA VerifySafe == ASSUME IInv, NEW u \in Units, Verify(u) PROVE Safe'
<1> USE DEF IInv, Safe
<1>0. TypeOK /\ Typed /\ mem[u] \in Memories /\ lock \in Locks
  BY DEF Typed, TypeOK
<1>1. /\ UNCHANGED <<ver, flash, seeded, ans, hop, rebootRow, orphans>>
      /\ pc[u] = "verify" /\ mem[u].pend # NoHop /\ seeded /\ mem[u].read
  BY DEF Verify, ServerFrame, unit, PendingFits, Probed
<1>2. pc'[u] = "outputs" /\ \A w \in Units : w # u => pc'[w] = pc[w]
  BY <1>0, GotoTypes DEF Verify, Steps
<1>3. CASE UNCHANGED <<mem, lock, diary>>
  <2>1. Probed' /\ PendingFits' /\ Cooled' /\ Recorded' /\ Reserved' /\ Locked'
    BY <1>1, <1>2, <1>3 DEF Probed, PendingFits, Cooled, Recorded, Reserved, Locked, OpenHops
  <2>2. Held' /\ Covered'
    BY <1>1, <1>2, <1>3 DEF Held, LockActive, OpenHops, Covered, Known, Running
  <2> QED BY <2>1, <2>2
<1>4. CASE \E r \in 0..Unread : /\ ReadVersion(u, r) /\ r = mem[u].pend.to
                                /\ mem' = [mem EXCEPT ![u].pend = NoHop]
                                /\ lock' = Released(u, lock)
                                /\ diary' = [diary EXCEPT ![u] = Row("updated", NoHop)]
  <2>1. PICK r \in 0..Unread : ReadVersion(u, r) /\ r = mem[u].pend.to
    BY <1>4
  <2>2. mem[u].pend.to <= Latest /\ mem[u].pend.to \in Nat
    BY <1>0, <1>1, Numbers, HopFields, Bounds
  <2>3. ver[u] = mem[u].pend.to
    BY <2>1, <2>2, Bounds DEF ReadVersion, Unread
  <2>4. ~Running(u)
    BY <1>0, <1>1, <2>2, <2>3 DEF Covered, Known
  <2>5. diary'[u] = Row("updated", NoHop) /\ \A w \in Units : w # u => diary'[w] = diary[w]
    BY <1>0, <1>4 DEF TypeOK
  <2>6. diary'[u].kind = "updated"
    BY <2>5, RowIs, HopTypes
  <2>7. /\ mem'[u].pend = NoHop /\ mem'[u].read = mem[u].read /\ mem'[u].cool = mem[u].cool
        /\ mem'[u].coolRead = mem[u].coolRead /\ \A w \in Units : w # u => mem'[w] = mem[w]
    <3> DEFINE m == [mem[u] EXCEPT !.pend = NoHop]
    <3>1. /\ m.pend = NoHop /\ m.read = mem[u].read /\ m.cool = mem[u].cool
          /\ m.coolRead = mem[u].coolRead
      BY <1>0 DEF Memories
    <3>2. mem' = [mem EXCEPT ![u] = m]
      BY <1>4
    <3> HIDE DEF m
    <3> QED BY <1>0, <3>1, <3>2 DEF TypeOK
  <2>8. OpenHops' = OpenHops \ {u}
    BY <2>5, <2>6 DEF OpenHops
  <2>9. lock' = Released(u, lock) /\ lock.unit \in Units \union {None} /\ None \notin Units
    BY <1>0, <1>4, LockNumbers, Bounds
  <2>10. /\ lock.unit # u => lock' = lock
         /\ LockActive' => lock' = lock /\ lock.unit # u
    BY <2>9, ReleasedIs, LockNumbers, Bounds DEF LockActive
  <2>11. Probed' /\ PendingFits' /\ Cooled'
    BY <1>1, <1>2, <2>7 DEF Probed, PendingFits, Cooled
  <2>12. Recorded'
    BY <2>5, <2>7, <2>8 DEF Recorded
  <2>13. Reserved'
    BY <1>1, <1>2, <2>8, <2>9, <2>10 DEF Reserved
  <2>14. Locked'
    BY <1>1, <2>5, <2>8, <2>10 DEF Locked, OpenHops
  <2>15. Held'
    <3> SUFFICES ASSUME LockActive'
                 PROVE  /\ lock'.unit \in Units
                        /\ \/ pc'[lock'.unit] \in {"send", "sent"}
                           \/ mem'[lock'.unit].pend # NoHop
                           \/ /\ ~mem'[lock'.unit].read /\ lock'.unit \in OpenHops'
                              /\ diary'[lock'.unit].age <= lock'.age
      BY DEF Held
    <3>1. lock' = lock /\ LockActive /\ lock.unit # u
      BY <2>10 DEF LockActive
    <3> QED BY <1>2, <2>5, <2>7, <2>8, <3>1 DEF Held
  <2>16. Covered'
    BY <1>1, <1>2, <2>4, <2>5, <2>7 DEF Covered, Known, Running
  <2> QED BY <2>11, <2>12, <2>13, <2>14, <2>15, <2>16
<1>5. CASE \E r \in 0..Unread : mem[u].pend.age >= Budget /\ Fail(u, mem[u], lock, r, FALSE)
  <2>1. PICK r \in 0..Unread : Fail(u, mem[u], lock, r, FALSE)
    BY <1>5
  <2>2. mem[u].pend.age <= diary[u].age
    BY <1>1 DEF Recorded
  <2>3. Running(u) => mem[u].pend.age <= flash[u]
    BY <1>1 DEF Covered, Known
  <2> QED BY <1>0, <1>1, <1>2, <1>5, <2>1, <2>2, <2>3, FailSafe
<1>6. \/ UNCHANGED <<mem, lock, diary>>
      \/ \E r \in 0..Unread : /\ ReadVersion(u, r) /\ r = mem[u].pend.to
                              /\ mem' = [mem EXCEPT ![u].pend = NoHop]
                              /\ lock' = Released(u, lock)
                              /\ diary' = [diary EXCEPT ![u] = Row("updated", NoHop)]
      \/ \E r \in 0..Unread : mem[u].pend.age >= Budget /\ Fail(u, mem[u], lock, r, FALSE)
  <2>1. mem[u].pend.age \in Nat /\ Budget \in Nat
    BY <1>0, Numbers, Bounds
  <2>2. CASE ~UNCHANGED <<mem, lock, diary>>
    <3>1. PICK r \in 0..Unread :
              /\ ReadVersion(u, r)
              /\ IF r = mem[u].pend.to
                 THEN /\ mem' = [mem EXCEPT ![u].pend = NoHop]
                      /\ lock' = Released(u, lock)
                      /\ diary' = [diary EXCEPT ![u] = Row("updated", NoHop)]
                 ELSE IF mem[u].pend.age < Budget THEN UNCHANGED <<mem, lock, diary>>
                 ELSE Fail(u, mem[u], lock, r, FALSE)
      BY <2>2 DEF Verify
    <3>2. CASE r = mem[u].pend.to
      <4>1. /\ ReadVersion(u, r) /\ r = mem[u].pend.to
            /\ mem' = [mem EXCEPT ![u].pend = NoHop]
            /\ lock' = Released(u, lock)
            /\ diary' = [diary EXCEPT ![u] = Row("updated", NoHop)]
        BY <3>1, <3>2
      <4> QED BY <4>1
    <3>3. CASE r # mem[u].pend.to
      <4>1. mem[u].pend.age >= Budget /\ Fail(u, mem[u], lock, r, FALSE)
        <5>1. ~(mem[u].pend.age < Budget) => Fail(u, mem[u], lock, r, FALSE)
          BY <3>1, <3>3
        <5>2. ~(mem[u].pend.age < Budget)
          BY <2>2, <3>1, <3>3
        <5>3. mem[u].pend.age >= Budget
          BY <2>1, <5>2
        <5>4. Fail(u, mem[u], lock, r, FALSE)
          BY <5>1, <5>2
        <5> QED BY <5>3, <5>4
      <4>2. \E q \in 0..Unread : mem[u].pend.age >= Budget /\ Fail(u, mem[u], lock, q, FALSE)
        <5> WITNESS r \in 0..Unread
        <5> QED BY <4>1
      <4> QED BY <4>2
    <3> QED BY <3>2, <3>3
  <2> QED BY <2>2
<1> QED BY <1>3, <1>4, <1>5, <1>6

\* A step that leaves locks, cooldowns and hops alone, but for a row of a unit
\* without one that says updated.
LEMMA PlainSafe ==
    ASSUME IInv, NEW u \in Units,
           pc[u] \notin {"send", "sent"}, pc'[u] \notin {"verify", "send", "sent", "reboot"},
           pc'[u] \in {"late", "gates", "reserve"} => pc[u] \in {"late", "gates", "reserve"},
           pc'[u] \notin {"idle", "status"} => pc[u] \notin {"idle", "status"},
           \A w \in Units : w # u => pc'[w] = pc[w] /\ mem'[w] = mem[w] /\ diary'[w] = diary[w],
           mem'[u].pend = mem[u].pend, mem'[u].read = mem[u].read,
           mem'[u].cool = mem[u].cool, mem'[u].coolRead = mem[u].coolRead,
           diary'[u] = diary[u] \/ (diary'[u].kind = "updated" /\ pc[u] = "late"),
           UNCHANGED <<ver, flash, lock, seeded, ans, hop, rebootRow, orphans>>
    PROVE  Safe'
<1> USE DEF IInv, Safe
<1>1. pc[u] = "late" => mem[u].pend = NoHop /\ mem[u].read /\ seeded /\ ~Running(u)
  BY DEF PendingFits, Probed, Covered
<1>2. /\ OpenHops' \subseteq OpenHops /\ \A w \in Units : w # u => (w \in OpenHops' <=> w \in OpenHops)
      /\ diary'[u] = diary[u] => OpenHops' = OpenHops
  BY DEF OpenHops
<1>3. Probed' /\ PendingFits' /\ Cooled'
  BY DEF Probed, PendingFits, Cooled
<1>4. Recorded' /\ Reserved'
  BY <1>1, <1>2 DEF Recorded, Reserved, OpenHops
<1>5. Locked'
  BY <1>1, <1>2 DEF Locked, LockActive, OpenHops
<1>6. Held'
  BY <1>1, <1>2 DEF Held, LockActive
<1>7. Covered'
  BY <1>1 DEF Covered, Known, Running
<1> QED BY <1>3, <1>4, <1>5, <1>6, <1>7

LEMMA LateSafe == ASSUME IInv, NEW u \in Units, Late(u) PROVE Safe'
<1>0. TypeOK /\ Typed /\ mem[u] \in Memories /\ mem \in [Units -> Memories] /\ diary \in [Units -> Rows]
  BY DEF IInv, Typed, TypeOK
<1>1. UNCHANGED <<ver, flash, lock, seeded, ans, hop, rebootRow, orphans>> /\ pc[u] = "late"
  BY DEF Late, ServerFrame, unit
<1>2. pc'[u] = "gates" /\ \A w \in Units : w # u => pc'[w] = pc[w]
  BY <1>0, GotoTypes DEF Late, Steps
<1> DEFINE e == mem[u].expect \/ (mem[u].lastUp # Unknown /\ sys[u].uptime < mem[u].lastUp)
           m == [mem[u] EXCEPT !.late = NoHop]
           n == [mem[u] EXCEPT !.late = NoHop, !.expect = e]
<1>3. /\ mem' = mem \/ mem' = [mem EXCEPT ![u] = m] \/ mem' = [mem EXCEPT ![u] = n]
      /\ diary' = diary \/ diary' = [diary EXCEPT ![u] = Row("updated", NoHop)]
  BY DEF Late
<1> HIDE DEF e
<1>4. /\ m.pend = mem[u].pend /\ m.read = mem[u].read /\ m.cool = mem[u].cool
      /\ m.coolRead = mem[u].coolRead
  BY <1>0 DEF Memories
<1>5. /\ n.pend = mem[u].pend /\ n.read = mem[u].read /\ n.cool = mem[u].cool
      /\ n.coolRead = mem[u].coolRead
  BY <1>0 DEF Memories
<1> HIDE DEF m, n
<1>6. mem'[u] \in {mem[u], m, n} /\ \A w \in Units : w # u => mem'[w] = mem[w]
  BY <1>0, <1>3
<1>7. /\ diary'[u] = diary[u] \/ diary'[u] = Row("updated", NoHop)
      /\ \A w \in Units : w # u => diary'[w] = diary[w]
  BY <1>0, <1>3
<1>8. Row("updated", NoHop).kind = "updated"
  BY RowIs, HopTypes
<1> QED BY <1>1, <1>2, <1>4, <1>5, <1>6, <1>7, <1>8, PlainSafe

LEMMA GateSafe == ASSUME IInv, NEW u \in Units, Blocked(u) \/ Granted(u) PROVE Safe'
<1>1. TypeOK
  BY DEF IInv, Typed
<1>2. /\ UNCHANGED <<ver, flash, mem, lock, seeded, ans, hop, diary, rebootRow, orphans>>
      /\ pc[u] = "gates"
  BY DEF Blocked, Granted, ServerFrame, unit, stored
<1>3. pc'[u] \in {"outputs", "reserve"} /\ \A w \in Units : w # u => pc'[w] = pc[w]
  BY <1>1, GotoTypes DEF Blocked, Granted, Steps
<1> QED BY <1>2, <1>3, PlainSafe

LEMMA ReserveSafe == ASSUME IInv, NEW u \in Units, Reserve(u) PROVE Safe'
<1> USE DEF IInv, Safe
<1>0. TypeOK /\ Typed
  BY DEF Typed
<1>1. /\ UNCHANGED <<ver, flash, mem, seeded, ans, diary, rebootRow, orphans>> /\ pc[u] = "reserve"
  BY DEF Reserve, ServerFrame, unit, stored
<1>2. \A w \in Units : w # u => pc'[w] = pc[w]
  BY <1>0, ReserveIs
<1>3. CASE pc'[u] = "outputs" /\ UNCHANGED <<lock, hop>>
  BY <1>1, <1>2, <1>3, PlainSafe
<1>4. CASE /\ pc'[u] = "send" /\ ~LockActive /\ lock' = [unit |-> u, age |-> 0]
           /\ \E h \in Hops : h.age = 0 /\ hop' = [hop EXCEPT ![u] = h]
  <2>1. hop'[u].age = 0 /\ \A w \in Units : w # u => hop'[w] = hop[w]
    BY <1>0, <1>4 DEF TypeOK
  <2>2. seeded /\ mem[u].read /\ mem[u].pend = NoHop /\ ~Running(u)
    BY <1>1 DEF Probed, PendingFits, Covered
  <2>3. OpenHops = {}
    <3> SUFFICES ASSUME NEW w \in OpenHops PROVE FALSE
      OBVIOUS
    <3>1. w \in Units /\ diary[w].age < Budget
      BY DEF OpenHops
    <3>2. lock.age <= diary[w].age
      BY <2>2 DEF Locked
    <3> QED BY <1>0, <1>4, <3>1, <3>2, Numbers, LockNumbers, Bounds DEF LockActive, TypeOK
  <2>4. OpenHops' = {}
    BY <1>1, <2>3 DEF OpenHops
  <2>5. \A w \in Units : pc[w] \notin {"send", "sent"}
    BY <1>4, Bounds DEF Reserved, LockActive
  <2>6. lock'.unit = u /\ lock'.age = 0
    BY <1>4
  <2>7. Probed' /\ PendingFits' /\ Cooled'
    BY <1>1, <1>2, <1>4, <2>2 DEF Probed, PendingFits, Cooled
  <2>8. Recorded' /\ Reserved'
    BY <1>1, <1>2, <1>4, <2>1, <2>3, <2>4, <2>5, <2>6 DEF Recorded, Reserved
  <2>9. Locked' /\ Held'
    BY <1>1, <1>4, <2>2, <2>4, <2>6 DEF Locked, Held
  <2>10. Covered'
    BY <1>1, <1>2, <1>4, <2>1, <2>2 DEF Covered, Known, Running
  <2> QED BY <2>7, <2>8, <2>9, <2>10
<1> QED BY <1>0, <1>3, <1>4, ReserveIs

\* An install that begins is the one that was asked for, or counts as an orphan.
LEMMA SendIs ==
    ASSUME Typed, NEW u \in Units, Send(u)
    PROVE  /\ UNCHANGED <<ver, mem, lock, seeded, hop, diary, rebootRow>> /\ pc[u] = "send"
           /\ pc'[u] = "sent" /\ \A w \in Units : w # u => pc'[w] = pc[w]
           /\ \A w \in Units : w # u => /\ flash'[w] = flash[w] /\ ans'[w] = ans[w]
                                        /\ w \in orphans' <=> w \in orphans
           /\ \/ flash'[u] = flash[u] /\ orphans' = orphans
              \/ ans'[u] # "no" /\ (hop[u].to = ver[u] + 1 \/ u \in orphans')
<1> USE DEF Typed
<1>1. UNCHANGED <<ver, mem, lock, seeded, hop, diary, rebootRow>> /\ pc[u] = "send"
  BY DEF Send, stored
<1>2. pc'[u] = "sent" /\ \A w \in Units : w # u => pc'[w] = pc[w]
  BY GotoTypes DEF Send, Steps
<1>3. \A w \in Units : w # u => /\ flash'[w] = flash[w] /\ ans'[w] = ans[w]
                                /\ w \in orphans' <=> w \in orphans
  BY DEF Send, Reply, NoReply, TypeOK
<1>4. \/ flash' = flash /\ orphans' = orphans
      \/ Reply(u) /\ orphans' = IF hop[u].to = ver[u] + 1 THEN orphans ELSE orphans \union {u}
  BY DEF Send
<1>5. Reply(u) => ans'[u] # "no"
  BY DEF Reply, TypeOK
<1> QED BY <1>1, <1>2, <1>3, <1>4, <1>5

LEMMA SendSafe == ASSUME IInv, NEW u \in Units, Send(u) PROVE Safe'
<1> USE DEF IInv, Safe
<1>1. /\ UNCHANGED <<ver, mem, lock, seeded, hop, diary, rebootRow>> /\ pc[u] = "send"
      /\ pc'[u] = "sent" /\ \A w \in Units : w # u => pc'[w] = pc[w]
      /\ \A w \in Units : w # u => /\ flash'[w] = flash[w] /\ ans'[w] = ans[w]
                                   /\ w \in orphans' <=> w \in orphans
      /\ \/ flash'[u] = flash[u] /\ orphans' = orphans
         \/ ans'[u] # "no" /\ (hop[u].to = ver[u] + 1 \/ u \in orphans')
  BY SendIs
<1>2. ~Running(u)
  BY <1>1 DEF Covered
<1>3. OpenHops' = OpenHops
  BY <1>1 DEF OpenHops
<1>4. Probed' /\ PendingFits' /\ Cooled'
  BY <1>1 DEF Probed, PendingFits, Cooled
<1>5. Recorded' /\ Reserved'
  BY <1>1, <1>3 DEF Recorded, Reserved
<1>6. Locked' /\ Held'
  BY <1>1, <1>3 DEF Locked, Held, LockActive
<1>7. Covered'
  <2> SUFFICES ASSUME NEW w \in Units, Running(w)'
               PROVE  /\ pc'[w] \notin {"late", "gates", "reserve", "send", "reboot"}
                      /\ pc'[w] = "sent" => ans'[w] # "no" /\ hop'[w].to = ver'[w] + 1
                      /\ pc'[w] # "sent" => Known(w)'
    BY DEF Covered
  <2>1. CASE w = u
    BY <1>1, <1>2, <2>1 DEF Running
  <2>2. CASE w # u
    <3>1. Running(w)
      BY <1>1, <2>2 DEF Running
    <3> QED BY <1>1, <2>2, <3>1 DEF Covered, Known
  <2> QED BY <2>1, <2>2
<1> QED BY <1>4, <1>5, <1>6, <1>7

LEMMA SentSafe == ASSUME IInv, NEW u \in Units, Sent(u) PROVE Safe'
<1> USE DEF IInv, Safe
<1>0. TypeOK /\ Typed
  BY DEF Typed
<1>1. /\ UNCHANGED <<ver, flash, seeded, rebootRow, orphans>> /\ pc[u] = "sent"
      /\ \A w \in Units : w # u => ans'[w] = ans[w]
  BY <1>0 DEF Sent, ServerFrame, unit, TypeOK
<1>2. pc'[u] = "outputs" /\ \A w \in Units : w # u => pc'[w] = pc[w]
  BY <1>0, GotoTypes DEF Sent, Steps
<1>3. /\ \A w \in Units : w # u => mem'[w] = mem[w] /\ diary'[w] = diary[w] /\ hop'[w] = hop[w]
      /\ mem'[u].cool = mem[u].cool /\ mem'[u].coolRead = mem[u].coolRead
      /\ mem'[u].read = mem[u].read
  BY <1>0, SentIs
<1>4. /\ lock.unit = u /\ lock.age = 0 /\ hop[u].age = 0 /\ OpenHops = {}
      /\ seeded /\ mem[u].read /\ mem[u].pend = NoHop
  BY <1>1 DEF Reserved, Probed, PendingFits
<1>5. \A w \in Units : w # u => pc[w] \notin {"send", "sent"} /\ w \notin OpenHops'
  BY <1>3, <1>4 DEF Reserved, OpenHops
<1>6. flash[u] \in Nat
  BY <1>0, Numbers
<1>7. Probed' /\ Cooled'
  BY <1>1, <1>2, <1>3, <1>4 DEF Probed, Cooled
<1>8. PendingFits' /\ Reserved'
  BY <1>2, <1>3, <1>5 DEF PendingFits, Reserved
<1>9. CASE ans[u] = "no"
  <2>1. lock' = NoLock /\ UNCHANGED diary /\ mem'[u].pend = NoHop
    BY <1>0, <1>4, <1>9, SentIs, ReleasedIs
  <2>2. OpenHops' = {} /\ ~LockActive'
    BY <1>4, <2>1, LockNumbers, Bounds DEF OpenHops, LockActive
  <2>3. Recorded' /\ Locked' /\ Held'
    BY <1>1, <1>3, <1>4, <2>1, <2>2 DEF Recorded, Locked, Held
  <2>4. Covered'
    BY <1>1, <1>2, <1>3, <1>9, <2>1 DEF Covered, Known, Running
  <2> QED BY <1>7, <1>8, <2>3, <2>4
<1>10. CASE ans[u] # "no"
  <2>1. /\ UNCHANGED lock /\ mem'[u].pend \in Hops
        /\ mem'[u].pend.to = hop[u].to /\ mem'[u].pend.age = 0
        /\ diary'[u].kind = "started" /\ diary'[u].age = 0
        /\ diary'[u].hop = mem'[u].pend
    BY <1>0, <1>4, <1>10, SentIs
  <2>2. mem'[u].pend # NoHop
    BY <2>1, HopFields DEF MaybeHops
  <2>3. OpenHops' = {u}
    BY <1>5, <2>1, Bounds DEF OpenHops
  <2>4. Recorded' /\ Locked' /\ Held'
    BY <1>1, <1>3, <1>4, <2>1, <2>2, <2>3 DEF Recorded, Locked, Held, OpenHops
  <2>5. Covered'
    <3> SUFFICES ASSUME NEW w \in Units, Running(w)'
                 PROVE  /\ pc'[w] \notin {"late", "gates", "reserve", "send", "reboot"}
                        /\ pc'[w] = "sent" => ans'[w] # "no" /\ hop'[w].to = ver'[w] + 1
                        /\ pc'[w] # "sent" => Known(w)'
      BY DEF Covered
    <3>1. Running(w)
      BY <1>1 DEF Running
    <3>2. CASE w = u
      <4>1. hop[u].to = ver[u] + 1
        BY <1>1, <3>1, <3>2 DEF Covered
      <4>2. /\ diary'[u].age <= flash'[u] /\ mem'[u].pend.age <= flash'[u]
            /\ diary'[u].hop.to = ver'[u] + 1 /\ mem'[u].pend.to = ver'[u] + 1
        BY <1>1, <1>6, <2>1, <4>1
      <4> QED BY <1>2, <2>1, <2>2, <3>2, <4>2 DEF Known
    <3>3. CASE w # u
      BY <1>1, <1>2, <1>3, <3>1, <3>3 DEF Covered, Known
    <3> QED BY <3>2, <3>3
  <2> QED BY <1>7, <1>8, <2>4, <2>5
<1> QED BY <1>9, <1>10

LEMMA OutputsSafe == ASSUME IInv, NEW u \in Units, Outputs(u) PROVE Safe'
<1> USE DEF IInv, Safe
<1>0. TypeOK /\ Typed
  BY DEF Typed
<1>1. /\ UNCHANGED <<ver, flash, lock, seeded, ans, hop, diary, rebootRow, orphans>>
      /\ pc[u] = "outputs" /\ seeded /\ mem[u].read
  BY DEF Outputs, ServerFrame, unit, stored, Probed
<1>2. /\ \A w \in Units : w # u => mem'[w] = mem[w] /\ pc'[w] = pc[w]
      /\ mem'[u].pend = mem[u].pend /\ mem'[u].read = mem[u].read
      /\ pc'[u] \in {"idle", "reboot"}
      /\ pc'[u] = "reboot" => /\ mem[u].pend = NoHop /\ mem'[u].coolRead
                              /\ mem'[u].cool > Cooldown
  BY <1>0, OutputsIs
<1>3. OpenHops' = OpenHops
  BY <1>1 DEF OpenHops
<1>4. mem'[u].coolRead => mem'[u].cool <= rebootRow[u]
  <2>1. mem[u].cool \in Nat /\ rebootRow[u] \in Nat
    BY <1>0, Numbers
  <2>2. mem[u].coolRead => mem[u].cool <= rebootRow[u]
    BY DEF Cooled
  <2>3. Cooling(u) <= rebootRow[u]
    BY <2>1, <2>2 DEF Cooling
  <2> QED BY <1>0, <2>2, <2>3, OutputsIs
<1>5. pc'[u] = "reboot" => rebootRow[u] > Cooldown
  <2>1. mem'[u].cool \in Nat /\ rebootRow[u] \in Nat
    <3>1. mem'[u] \in Memories
      BY <1>0, OutputsIs
    <3> QED BY <1>0, <3>1, MemFields, Numbers, Bounds
  <2> QED BY <1>2, <1>4, <2>1, Bounds
<1>6. Cooled'
  BY <1>1, <1>2, <1>4, <1>5 DEF Cooled
<1>7. Probed' /\ PendingFits'
  BY <1>1, <1>2 DEF Probed, PendingFits
<1>8. Recorded' /\ Reserved'
  BY <1>1, <1>2, <1>3 DEF Recorded, Reserved
<1>9. Locked' /\ Held'
  BY <1>1, <1>2, <1>3 DEF Locked, Held, LockActive
<1>10. Covered'
  BY <1>1, <1>2 DEF Covered, Known, Running
<1> QED BY <1>6, <1>7, <1>8, <1>9, <1>10

LEMMA RebootSafe == ASSUME IInv, NEW u \in Units, Reboot(u) PROVE Safe'
<1> USE DEF IInv, Safe
<1>1. /\ UNCHANGED <<ver, mem, lock, seeded, hop, diary, rebootRow>>
      /\ pc[u] = "reboot" /\ pc'[u] = "rebooted" /\ \A w \in Units : w # u => pc'[w] = pc[w]
      /\ \A w \in Units : w # u => /\ flash'[w] = flash[w] /\ (w \in orphans' <=> w \in orphans)
                                   /\ ans'[w] = ans[w]
      /\ \/ flash'[u] = NoFlash
         \/ flash'[u] = flash[u] /\ orphans' = orphans
  BY RebootIs
<1>2. ~Running(u)'
  BY <1>1, Bounds DEF Covered, Running, NoFlash
<1>3. OpenHops' = OpenHops
  BY <1>1 DEF OpenHops
<1>4. Probed' /\ PendingFits' /\ Cooled'
  BY <1>1 DEF Probed, PendingFits, Cooled
<1>5. Recorded' /\ Reserved'
  BY <1>1, <1>3 DEF Recorded, Reserved
<1>6. Locked' /\ Held'
  BY <1>1, <1>3 DEF Locked, Held, LockActive
<1>7. Covered'
  BY <1>1, <1>2 DEF Covered, Known, Running
<1> QED BY <1>4, <1>5, <1>6, <1>7

LEMMA RebootedSafe == ASSUME IInv, NEW u \in Units, Rebooted(u) PROVE Safe'
<1> USE DEF IInv, Safe
<1>1. /\ UNCHANGED <<ver, flash, lock, seeded, hop, diary, orphans>>
      /\ pc[u] = "rebooted" /\ pc'[u] = "idle"
      /\ \A w \in Units : w # u => pc'[w] = pc[w] /\ mem'[w] = mem[w] /\ ans'[w] = ans[w]
                                   /\ rebootRow'[w] = rebootRow[w]
      /\ mem'[u].pend = mem[u].pend /\ mem'[u].read = mem[u].read
      /\ \/ mem'[u] = mem[u] /\ rebootRow'[u] = rebootRow[u]
         \/ mem'[u].cool = 0 /\ rebootRow'[u] = 0
  BY RebootedIs
<1>2. OpenHops' = OpenHops
  BY <1>1 DEF OpenHops
<1>3. Probed' /\ PendingFits'
  BY <1>1 DEF Probed, PendingFits
<1>4. Cooled'
  BY <1>1 DEF Cooled
<1>5. Recorded' /\ Reserved'
  BY <1>1, <1>2 DEF Recorded, Reserved
<1>6. Locked' /\ Held'
  BY <1>1, <1>2 DEF Locked, Held, LockActive
<1>7. Covered'
  BY <1>1 DEF Covered, Known, Running
<1> QED BY <1>3, <1>4, <1>5, <1>6, <1>7

\* Memory goes with the process: what was written down stays known, the rest are orphans.
LEMMA DeploySafe == IInv /\ Deploy => Safe'
<1> SUFFICES ASSUME IInv, Deploy PROVE Safe'
  OBVIOUS
<1> USE DEF IInv, Safe
<1>0. TypeOK /\ Typed
  BY DEF Typed
<1>1. /\ UNCHANGED <<ver, flash, diary, rebootRow>> /\ seeded' = FALSE /\ lock' = NoLock
      /\ \A u \in Units : mem'[u] = NoMemory /\ pc'[u] = "idle"
      /\ orphans' = orphans \union {u \in Units : flash[u] # NoFlash /\ pc[u] = "sent"}
  BY DEF Deploy, unit, stored
<1>2. NoMemory.pend = NoHop /\ NoMemory.read = FALSE /\ NoMemory.coolRead = FALSE
  BY DEF NoMemory
<1>3. OpenHops' = OpenHops /\ \A v, w \in OpenHops : v = w
  BY <1>1 DEF OpenHops, Locked
<1>4. ~LockActive'
  BY <1>1, LockNumbers, Bounds DEF LockActive
<1>5. Probed' /\ PendingFits' /\ Recorded' /\ Reserved' /\ Cooled'
  BY <1>1, <1>2 DEF Probed, PendingFits, Recorded, Reserved, Cooled
<1>6. Locked' /\ Held'
  BY <1>1, <1>3, <1>4 DEF Locked, Held
<1>7. \A u \in Units : Running(u)' => Running(u) /\ pc[u] # "sent"
  BY <1>0, <1>1, Numbers, Bounds DEF Running, NoFlash
<1>8. Covered'
  BY <1>1, <1>2, <1>7 DEF Covered, Known
<1> QED BY <1>5, <1>6, <1>8

\* Time passes for the unit, the memory, the lock and the diary alike.
LEMMA TickSafe == IInv /\ Tick => Safe'
<1> SUFFICES ASSUME IInv, Tick PROVE Safe'
  OBVIOUS
<1> USE DEF IInv, Safe
<1>0. TypeOK /\ Typed
  BY DEF Typed
<1>1. UNCHANGED <<ver, seeded, pc, ans, hop, orphans>> /\ \A u \in Units : pc[u] = "idle"
  BY <1>0, TickIs
<1>2. /\ lock'.unit = lock.unit /\ lock'.age = Older(lock.age, Budget) /\ lock.age \in Nat
      /\ lock.age <= Budget /\ Budget \in Nat
  BY <1>0, TickIs, LockNumbers, Bounds DEF TypeOK
<1>3. ASSUME NEW u \in Units
      PROVE  /\ flash'[u] = IF flash[u] = NoFlash THEN NoFlash ELSE Older(flash[u], Budget)
             /\ diary'[u].kind = diary[u].kind /\ diary'[u].hop = diary[u].hop
             /\ diary'[u].age = Older(diary[u].age, DiaryCap)
             /\ rebootRow'[u] = Older(rebootRow[u], Cooldown + 1)
             /\ mem'[u].read = mem[u].read /\ mem'[u].coolRead = mem[u].coolRead
             /\ mem'[u].cool = Older(mem[u].cool, Cooldown + 1)
             /\ mem'[u].pend # NoHop <=> mem[u].pend # NoHop
             /\ mem'[u].pend.to = mem[u].pend.to
             /\ mem[u].pend # NoHop => mem'[u].pend.age = Older(mem[u].pend.age, Budget)
  <2>1. mem'[u] = OlderMem(mem[u]) /\ mem[u] \in Memories /\ mem[u].pend \in MaybeHops
    BY <1>0, TickIs, Numbers
  <2>2. Budget \in 0..LateWatch + Budget + 1
    BY Bounds
  <2>3. /\ OlderHop(mem[u].pend, Budget) # NoHop <=> mem[u].pend # NoHop
        /\ OlderHop(mem[u].pend, Budget).to = mem[u].pend.to
        /\ mem[u].pend # NoHop => OlderHop(mem[u].pend, Budget).age = Older(mem[u].pend.age, Budget)
    BY <2>1, <2>2, OlderHopType
  <2> QED BY <1>0, <2>1, <2>3, TickIs, OlderMemIs
<1>4. ASSUME NEW u \in Units
      PROVE  /\ flash[u] \in Nat /\ diary[u].age \in Nat /\ diary[u].age <= DiaryCap
             /\ rebootRow[u] \in Nat /\ mem[u].cool \in Nat /\ mem[u].pend.age \in Nat
             /\ DiaryCap \in Nat /\ DiaryCap >= Budget /\ Cooldown \in Nat
  BY <1>0, Numbers, Bounds
<1>5. OpenHops' \subseteq OpenHops
      /\ \A u \in OpenHops : diary[u].age < Budget /\ diary'[u].age = diary[u].age + 1
  <2>1. \A u \in Units : diary'[u].age < Budget => diary[u].age < Budget
    BY <1>2, <1>3, <1>4 DEF Older
  <2>2. \A u \in Units : diary[u].age < Budget => diary'[u].age = diary[u].age + 1
    BY <1>2, <1>3, <1>4 DEF Older
  <2> QED BY <1>3, <2>1, <2>2 DEF OpenHops
<1>6. Probed' /\ PendingFits' /\ Reserved'
  BY <1>1 DEF Probed, PendingFits, Reserved
<1>7. Recorded'
  <2> SUFFICES ASSUME NEW u \in Units
               PROVE  /\ mem'[u].pend # NoHop => /\ diary'[u].kind = "started"
                                                 /\ mem'[u].pend.age <= diary'[u].age
                      /\ u \in OpenHops' /\ mem'[u].read => mem'[u].pend # NoHop
    BY DEF Recorded
  <2>1. mem[u].pend # NoHop => diary[u].kind = "started" /\ mem[u].pend.age <= diary[u].age
    BY DEF Recorded
  <2>2. mem[u].pend # NoHop => Older(mem[u].pend.age, Budget) <= Older(diary[u].age, DiaryCap)
    BY <1>2, <1>4, <2>1 DEF Older
  <2>3. u \in OpenHops /\ mem[u].read => mem[u].pend # NoHop
    BY DEF Recorded
  <2> QED BY <1>3, <1>5, <2>1, <2>2, <2>3
<1>8. LockActive' => LockActive /\ lock'.age = lock.age + 1
  BY <1>2 DEF LockActive, Older
<1>9. Locked'
  <2>1. CASE seeded
    <3>1. \A u \in OpenHops' : lock'.unit = u /\ lock'.age <= diary'[u].age
      <4> SUFFICES ASSUME NEW u \in OpenHops' PROVE lock'.unit = u /\ lock'.age <= diary'[u].age
        OBVIOUS
      <4>1. u \in OpenHops /\ u \in Units
        BY <1>5 DEF OpenHops
      <4>2. lock.unit = u /\ lock.age <= diary[u].age
        BY <2>1, <4>1 DEF Locked
      <4> QED BY <1>2, <1>4, <1>5, <4>1, <4>2 DEF Older
    <3> QED BY <1>1, <2>1, <3>1 DEF Locked
  <2>2. CASE ~seeded
    <3>1. \A v, w \in OpenHops' : v = w
      BY <1>5, <2>2 DEF Locked
    <3>2. ASSUME LockActive' PROVE lock'.unit \in OpenHops' /\ lock'.age = diary'[lock'.unit].age
      <4>1. lock.unit \in OpenHops /\ lock.age = diary[lock.unit].age /\ lock'.age < Budget
        BY <1>8, <2>2, <3>2 DEF Locked, LockActive
      <4>2. lock.unit \in Units /\ diary[lock.unit].kind = "started"
        BY <4>1 DEF OpenHops
      <4>3. diary'[lock.unit].age = lock'.age
        BY <1>5, <1>8, <3>2, <4>1
      <4> QED BY <1>2, <1>3, <4>1, <4>2, <4>3 DEF OpenHops
    <3> QED BY <1>1, <2>2, <3>1, <3>2 DEF Locked
  <2> QED BY <2>1, <2>2
<1>10. Held'
  <2> SUFFICES ASSUME LockActive'
               PROVE  /\ lock'.unit \in Units
                      /\ \/ mem'[lock'.unit].pend # NoHop
                         \/ /\ ~mem'[lock'.unit].read /\ lock'.unit \in OpenHops'
                            /\ diary'[lock'.unit].age <= lock'.age
    BY DEF Held
  <2>1. LockActive /\ lock'.age = lock.age + 1 /\ lock'.age < Budget /\ lock.unit \in Units
    BY <1>8 DEF Held, LockActive
  <2>2. CASE mem[lock.unit].pend # NoHop
    BY <1>2, <1>3, <2>1, <2>2
  <2>3. CASE /\ ~mem[lock.unit].read /\ lock.unit \in OpenHops
             /\ diary[lock.unit].age <= lock.age
    <3>1. diary'[lock.unit].age = diary[lock.unit].age + 1
      BY <1>5, <2>3
    <3>2. diary'[lock.unit].age <= lock'.age /\ diary'[lock.unit].age < Budget
      BY <1>2, <1>4, <2>1, <2>3, <3>1
    <3>3. lock.unit \in OpenHops'
      BY <1>3, <2>1, <2>3, <3>2 DEF OpenHops
    <3> QED BY <1>2, <1>3, <2>1, <2>3, <3>2, <3>3
  <2> QED BY <1>1, <2>1, <2>2, <2>3 DEF Held
<1>11. Covered'
  <2> SUFFICES ASSUME NEW u \in Units, Running(u)' PROVE Known(u)'
    BY <1>1 DEF Covered
  <2>1. Running(u) /\ flash'[u] = flash[u] + 1
    BY <1>1, <1>2, <1>3, <1>4 DEF Running, NoFlash, Older
  <2>2. Known(u)
    BY <1>1, <2>1 DEF Covered
  <2>3. diary'[u].age <= flash'[u] /\ mem[u].pend.age <= flash[u] => Older(mem[u].pend.age, Budget) <= flash'[u]
    BY <1>2, <1>3, <1>4, <2>1, <2>2 DEF Older, Known
  <2>4. diary'[u].age <= flash'[u]
    BY <1>3, <1>4, <2>1, <2>2 DEF Older, Known
  <2> QED BY <1>1, <1>3, <2>2, <2>3, <2>4 DEF Known
<1>12. Cooled'
  <2> SUFFICES ASSUME NEW u \in Units, mem'[u].coolRead PROVE mem'[u].cool <= rebootRow'[u]
    BY <1>1 DEF Cooled
  <2>1. mem[u].cool <= rebootRow[u]
    BY <1>3 DEF Cooled
  <2> QED BY <1>3, <1>4, <2>1 DEF Older
<1> QED BY <1>6, <1>7, <1>9, <1>10, <1>11, <1>12

-----------------------------------------------------------------------------
(* The theorems *)

LEMMA NextInv == IInv /\ [Next]_vars => IInv'
<1> SUFFICES ASSUME IInv, [Next]_vars PROVE Safe'
  BY NextTypes DEF IInv
<1>1. CASE UnitStep
  BY <1>1, UnitSafe
<1>2. CASE BeginPass \/ SkipPass
  BY <1>2, PassSafe
<1>3. ASSUME NEW u \in Units, ProbeStep(u) PROVE Safe'
  BY <1>3, SilentSafe, AnsweredSafe, VerifySafe, LateSafe, GateSafe, ReserveSafe, SendSafe,
     SentSafe, OutputsSafe, RebootSafe, RebootedSafe DEF ProbeStep
<1>4. CASE Deploy
  BY <1>4, DeploySafe
<1>5. CASE Tick
  BY <1>5, TickSafe
<1>6. CASE UNCHANGED vars
  <2>1. UNCHANGED <<ver, flash, mem, lock, seeded, pc, ans, hop, diary, rebootRow, orphans>>
    BY <1>6 DEF vars, unit, process, stored
  <2>2. Probed' /\ PendingFits' /\ Recorded' /\ Reserved' /\ Cooled'
    BY <2>1 DEF IInv, Safe, Probed, PendingFits, Recorded, Reserved, Cooled, OpenHops
  <2>3. Locked' /\ Held' /\ Covered'
    BY <2>1 DEF IInv, Safe, Locked, Held, Covered, Known, Running, OpenHops, LockActive
  <2> QED BY <2>2, <2>3 DEF Safe
<1> QED BY <1>1, <1>2, <1>3, <1>4, <1>5, <1>6 DEF Next

LEMMA AlwaysInv == Spec => []IInv
<1>1. Init => IInv
  BY InitTypes, InitSafe DEF IInv
<1> QED BY <1>1, NextInv, PTL DEF Spec

\* Two installs within their budget are known, and the lock can be of one unit only.
LEMMA OneFlash == IInv => OneFlashAtATime
<1> SUFFICES ASSUME IInv, NEW u \in Units, NEW w \in Units, Running(u), Running(w) PROVE u = w
  BY DEF OneFlashAtATime, Running
<1> USE DEF IInv, Safe
<1>0. TypeOK /\ Typed
  BY DEF Typed
<1>1. \A x \in Units : Running(x) /\ pc[x] # "sent" => x \in OpenHops
  BY <1>0, Numbers, Bounds DEF Covered, Known, OpenHops, Running
<1>2. \A x \in Units : pc[x] = "sent" => lock.unit = x /\ OpenHops = {}
  BY DEF Reserved
<1> QED BY <1>1, <1>2 DEF Locked

\* Two units never install within the budget of both: the fleet lock of fw-update.js,
\* seeded from the diary after a restart, lets no second update start.
THEOREM FlashesOneAtATime == Spec => []OneFlashAtATime
BY AlwaysInv, OneFlash, PTL

\* The lock of fw-update.js is never left behind: whoever holds it has an update
\* on the way or one in the diary that is still open.
THEOREM LocksAreUsed == Spec => []LockIsUsed
<1>1. IInv => LockIsUsed
  BY DEF IInv, Safe, Held, LockIsUsed, OpenHops
<1> QED BY <1>1, AlwaysInv, PTL

\* A controlled reboot (tryReboot of health.js) never cuts an install short that
\* the diary knows and that is within its budget.
THEOREM FlashesNotCutShort == Spec => FlashNotCutShort
<1>1. IInv => NoCut
  BY DEF IInv, Safe, Covered, Running, NoCut
<1>2. IInv /\ [Next]_vars => [NoCut]_vars
  BY <1>1
<1> QED BY <1>2, AlwaysInv, PTL DEF Spec, FlashNotCutShort

\* The cooldown of tryReboot outlives the process: it is counted from the row in
\* device_events, not from the memory of the process alone.
THEOREM RebootsKeepApart == Spec => RebootsAreSpaced
<1>1. IInv => Spaced
  BY DEF IInv, Safe, Cooled, Spaced
<1>2. IInv /\ [Next]_vars => [Spaced]_vars
  BY <1>1
<1> QED BY <1>2, AlwaysInv, PTL DEF Spec, RebootsAreSpaced

=============================================================================
