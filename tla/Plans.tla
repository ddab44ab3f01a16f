------------------------------- MODULE Plans -------------------------------
(***************************************************************************)
(* The schedules of a customer as rows that four programs read: saving and *)
(* editing plans and single schedules (services/schedules.js), the minute  *)
(* loop with its due window, the completion of one-time schedules and the  *)
(* daily refresh, the start-up scan (scheduler/tick.js), and the schedule  *)
(* that the unit holds.  Occurrences has what each program makes of a row. *)
(*                                                                         *)
(* What a unit does with a push is in ScheduleChannel and ShellySync: here *)
(* a push arrives in one step, some time after the rows changed.  What the *)
(* server does with an occurrence it was handed is in BackupScheduler.     *)
(***************************************************************************)
EXTENDS Occurrences

VARIABLES
    now,             \* the minute
    up, refreshed,   \* the server; lastZmanimDay
    rows, nextId,    \* the live schedules
    unit,            \* which kind of unit the site has: shelly or esp
    held, behind,    \* the jobs or the payload of the unit; sync_status is not synced
    handed,          \* occurrences that the loop or the scan took up: <<id, side, moment>>
    edits, outages,  \* so far
    heldRows, heldOn, \* history: the rows behind held, and the day of it
    asleep,          \* history: ids of the schedules that the last refresh passed over
    plan             \* history: the plan as saved, as long as nobody touched its rows

unitVars == <<unit, held, behind, heldRows, heldOn>>
vars == <<now, up, refreshed, rows, nextId, unitVars, handed, edits, outages, asleep, plan>>

Today == DayOf(now)

-----------------------------------------------------------------------------
(* Compiling a plan *)

\* derivedExclusions: what a dated scheduler takes from the weekly ones, in the
\* form of a user exclusion; a Hebrew one-time date is resolved when it is saved.
OnceDay(s) == IF s.cal = "heb" THEN HebOnceDate(s.from, now) ELSE s.from
DerivedItem(s) ==
    [type |-> s.type, days |-> {}, keys |-> s.keys, cal |-> s.cal,
     from |-> IF s.type = "once" THEN OnceDay(s) ELSE s.from,
     to   |-> IF s.type = "once" THEN OnceDay(s) ELSE s.to]
DerivedExclusions(schedulers) == {DerivedItem(s) : s \in {s \in schedulers : s.type # "weekly"}}

ExclusionsFor(s, excl, derived) == excl \cup IF s.type = "weekly" THEN derived ELSE {}

\* The rows of a scheduler: one per weekday, one otherwise.
SideFor(s, dow) ==
    [anchor |-> s.anchor, clock |-> s.clock, dow |-> dow, time |-> s.clock,
     date |-> IF s.type = "once" /\ s.cal # "heb" THEN s.from ELSE 0]
RowFor(s, relay, excl, dow) ==
    [id |-> 0, inPlan |-> TRUE, relay |-> relay, type |-> s.type,
     side |-> [e \in Sides |-> IF e = s.action THEN SideFor(s, dow) ELSE NoSide],
     keys |-> s.keys, cal |-> s.cal, from |-> s.from, to |-> s.to,
     exclDays |-> {}, excl |-> excl, enabled |-> TRUE, since |-> now]
SchedulerRows(s, relay, excl) ==
    IF s.type = "weekly" /\ s.days # {} THEN {RowFor(s, relay, excl, d) : d \in s.days}
    ELSE {RowFor(s, relay, excl, 0)}

CompiledRows(p) ==
    UNION {SchedulerRows(s, relay, ExclusionsFor(s, p.excl, DerivedExclusions(p.schedulers))) :
        s \in p.schedulers, relay \in p.relays}

\* schedulerCollisions and planConflicts: what savePlan refuses.
SameMoment(a, b) == a.anchor = b.anchor /\ (a.anchor = "clock" => a.clock = b.clock)
DaysGiven(s) == IF s.days = {} THEN AllDays ELSE s.days
DaysOfYear(s) ==
    LET from == s.from % YearLen
        to   == s.to % YearLen
    IN  IF to < from THEN (from..(YearLen - 1)) \cup (0..to) ELSE from..to
Shared(a, b) ==
    CASE a.type = "weekly" /\ b.type = "weekly" -> DaysGiven(a) \cap DaysGiven(b)
      [] a.type = "holiday" /\ b.type = "holiday" -> a.keys \cap b.keys
      [] {a.type, b.type} \subseteq {"once", "yearly"} /\ a.cal # "heb" /\ b.cal # "heb" ->
            IF "yearly" \in {a.type, b.type} THEN DaysOfYear(a) \cap DaysOfYear(b)
            ELSE (a.from..a.to) \cap (b.from..b.to)
      [] OTHER -> {}
Collide(a, b) == a.action # b.action /\ SameMoment(a, b) /\ Shared(a, b) # {}
Cancels(x, s) ==
    \/ x.type = "weekly" /\ s.type = "weekly" /\ x.days \cap s.days # {}
    \/ x.type = "weekly" /\ s.type = "once" /\ s.cal # "heb" /\ Dow(s.from) \in x.days
    \/ x.type = "holiday" /\ s.type = "holiday" /\ x.keys \cap s.keys # {}
Conflicts(p) ==
    \/ \E a, b \in p.schedulers : Collide(a, b)
    \/ \E x \in p.excl, s \in p.schedulers : Cancels(x, s)

-----------------------------------------------------------------------------
(* The customer *)

\* Rows are inserted one by one, with ids in the order of insertion.
Numbered(new) ==
    LET order == CHOOSE f \in [new -> nextId..(nextId + Cardinality(new) - 1)] :
                    \A r, s \in new : f[r] = f[s] => r = s
    IN  {[r EXCEPT !.id = order[r]] : r \in new}

Resolved(new) == {ResolveSchedule(r, now) : r \in new}
AllValid(new) == \A r \in new : Valid(r, now)
Insert(new) ==
    /\ AllValid(new)
    /\ rows' = rows \cup Numbered(new)
    /\ nextId' = nextId + Cardinality(new)

\* bumpDevices, in the transaction of the edit.
EditFrame ==
    /\ up /\ behind' = TRUE
    /\ UNCHANGED <<now, up, refreshed, unit, held, heldRows, heldOn, handed, outages>>
Edit ==
    /\ edits + outages < MaxChanges /\ now <= LastEdit /\ edits' = edits + 1
    /\ EditFrame

\* What is switched on again was switched off before: it is bounded by its
\* moments, and is not counted with the edits.
Wake == now \in Wakings /\ UNCHANGED edits /\ EditFrame

Members == {r \in rows : r.inPlan}

\* The old rows of the plan go and the new ones come in one transaction.
SavePlan(p) ==
    /\ Edit /\ ~Conflicts(p)
    /\ LET new == Resolved(CompiledRows(p))
       IN  /\ AllValid(new)
           /\ rows' = (rows \ Members) \cup Numbered(new)
           /\ nextId' = nextId + Cardinality(new)
    /\ plan' = p /\ UNCHANGED asleep

\* Neither this nor ToggleSchedule resolves the rows again.
SetPlanEnabled(b) ==
    /\ Members # {} /\ IF b /\ \E r \in Members : ~r.enabled THEN Wake ELSE Edit
    /\ rows' = (rows \ Members) \cup {[r EXCEPT !.enabled = b, !.since = now] : r \in Members}
    /\ plan' = IF b THEN plan ELSE NoPlan
    /\ UNCHANGED <<nextId, asleep>>

DeletePlan ==
    /\ Edit /\ Members # {}
    /\ rows' = rows \ Members /\ plan' = NoPlan
    /\ UNCHANGED <<nextId, asleep>>

CreateSchedule(r) ==
    /\ Edit /\ nextId <= MaxSingles /\ Insert(Resolved({[r EXCEPT !.since = now]}))
    /\ UNCHANGED <<plan, asleep>>

Touched(r) == IF r.inPlan THEN NoPlan ELSE plan

\* updateSchedule: a toggle alone keeps the resolved dates, anything else
\* resolves them again, except the date of a one-time schedule.
ToggleSchedule(r) ==
    /\ IF r.enabled THEN Edit ELSE Wake
    /\ rows' = (rows \ {r}) \cup {[r EXCEPT !.enabled = ~@, !.since = now]}
    /\ plan' = Touched(r)
    /\ UNCHANGED <<nextId, asleep>>

UpdateSchedule(r, e, m) ==
    /\ Edit /\ r.side[e] # NoSide /\ r.side[e].anchor = "clock"
    /\ LET new == Fresh([r EXCEPT !.side[e].clock = m, !.side[e].time = m, !.since = now], now)
       IN  /\ Valid(new, now)
           /\ rows' = (rows \ {r}) \cup {new}
    /\ plan' = Touched(r) /\ asleep' = asleep \ {r.id}
    /\ UNCHANGED nextId

DeleteSchedule(r) ==
    /\ Edit
    /\ rows' = rows \ {r} /\ plan' = Touched(r)
    /\ UNCHANGED <<nextId, asleep>>

Customer ==
    \/ \E p \in PlanMenu : SavePlan(p)
    \/ \E b \in BOOLEAN : SetPlanEnabled(b)
    \/ DeletePlan
    \/ \E r \in RowMenu : CreateSchedule(r)
    \/ \E r \in rows : ToggleSchedule(r)
    \/ \E r \in rows, e \in Sides, m \in Clocks : UpdateSchedule(r, e, m)
    \/ \E r \in rows : DeleteSchedule(r)

-----------------------------------------------------------------------------
(* The server *)

DueIn(from, to) ==
    UNION {{<<r.id, q[1], q[2]>> : q \in {q \in Sides \X (from..to) : DueAt(r, q[1], q[2])}} : r \in rows}

\* autoCompleteOnce: a one-time schedule goes when its last event is settled;
\* long past events are swept whatever became of them.
Final(r) == IF r.side["off"] # NoSide THEN "off" ELSE "on"
FinalAt(r) == At(r.side[Final(r)].date, r.side[Final(r)].time)
Settled(r) == \E q \in handed' : q[1] = r.id /\ q[2] = Final(r)
Swept(r)   == FinalAt(r) < now' - RetryWindow
Completable == {r \in rows : r.type = "once" /\ (Swept(r) \/ (r.enabled /\ Settled(r)))}

\* refreshAnchoredTimes: what is dated or halachic is resolved again; a unit
\* whose jobs are other than yesterday's is synchronised again.
ToRefresh(r) == r.type \in {"holiday", "yearly"} \/ \E e \in Has(r) : r.side[e].anchor # "clock"
Refreshed(r) == IF r.enabled /\ ToRefresh(r) THEN Fresh(r, now') ELSE r
ExclusionFlips(r) ==
    LET d == WithoutWeeklyExcl(r) IN Excluded(d, DayOf(now')) # Excluded(d, DayOf(now') - 1)
DateFlips(r) ==
    \E e \in Has(r) :
        /\ r.type # "weekly"
        /\ IsNextAnniversary(r.side[e].date, DayOf(now')) # IsNextAnniversary(r.side[e].date, DayOf(now') - 1)
\* Wrong on purpose: only a row that moved.
MovedOnly(r) == r.enabled /\ Refreshed(r) # r
Moves(r) == r.enabled /\ (ExclusionFlips(r) \/ DateFlips(r) \/ Refreshed(r) # r)

RefreshDue == refreshed # DayOf(now') /\ MinuteOf(now') >= RefreshAt

\* The loop begins with the minute: the occurrences of the due window, the
\* completion, and once a day the refresh with its kick of the Shellies that
\* are online.
Loop ==
    /\ up /\ now' = now + 1
    /\ handed' = {q \in handed : q[3] >= now' - ScanWindow} \cup DueIn(now' - Grace - 1, now' - Grace - 1)
    /\ \E done \in SUBSET Completable, online \in BOOLEAN :
        /\ {r \in Completable : Swept(r)} \subseteq done
        /\ rows' = {IF RefreshDue THEN Refreshed(r) ELSE r : r \in rows \ done}
        /\ behind' = \/ behind \/ done # {}
                     \/ RefreshDue /\ \E r \in rows \ done : Moves(r)
                     \/ RefreshDue /\ unit = "shelly" /\ online
    /\ refreshed' = IF RefreshDue THEN DayOf(now') ELSE refreshed
    /\ asleep' = IF RefreshDue THEN {r.id : r \in {r \in rows' : ~r.enabled /\ ToRefresh(r)}} ELSE asleep
    /\ UNCHANGED <<up, nextId, unit, held, heldRows, heldOn, edits, outages, plan>>

MinuteDown ==
    /\ ~up /\ now' = now + 1
    /\ UNCHANGED <<up, refreshed, rows, nextId, unitVars, handed, edits, outages, asleep, plan>>

NextMinute == now < LastMoment /\ (Loop \/ MinuteDown)

Crash ==
    /\ up /\ edits + outages < MaxChanges
    /\ up' = FALSE /\ outages' = outages + 1
    /\ UNCHANGED <<now, refreshed, rows, nextId, unitVars, handed, edits, asleep, plan>>

\* startScheduler and startupScan: the boot kick, the gaps of the last day, and
\* a loop that begins with the next minute.
\* Wrong on purpose: the scan ends a minute too early.
ScanShort == now - Grace - 2
ScanEnd   == now - Grace - 1
StartUp ==
    /\ ~up
    /\ up' = TRUE /\ refreshed' = NoDay
    /\ handed' = handed \cup DueIn(now - Grace - ScanWindow, ScanEnd)
    /\ behind' = (behind \/ unit = "shelly")
    /\ UNCHANGED <<now, rows, nextId, unit, held, heldRows, heldOn, edits, outages, asleep, plan>>

-----------------------------------------------------------------------------
(* The unit *)

Payload(kind) ==
    IF kind = "shelly" THEN BuildShellyJobs(rows, Today) ELSE BuildDevicePayload(rows, Today)

\* pushScheduleToDevice, and the unit took it.
Sync ==
    /\ up /\ behind
    /\ held' = Payload(unit) /\ heldRows' = rows /\ heldOn' = Today
    /\ behind' = FALSE
    /\ UNCHANGED <<now, up, refreshed, rows, nextId, unit, handed, edits, outages, asleep, plan>>

Calls(t) == IF unit = "shelly" THEN ShellyCalls(held, t) ELSE EspCalls(held, t)

Init ==
    /\ now = FirstMoment /\ up = TRUE /\ refreshed = NoDay
    /\ unit \in {"shelly", "esp"}
    /\ rows = {} /\ nextId = 1
    /\ held = {} /\ behind = FALSE /\ heldRows = {} /\ heldOn = DayOf(FirstMoment)
    /\ handed = {} /\ edits = 0 /\ outages = 0
    /\ asleep = {} /\ plan = NoPlan

Next ==
    \/ Customer
    \/ NextMinute
    \/ Crash
    \/ StartUp
    \/ Sync

Spec == Init /\ [][Next]_vars

-----------------------------------------------------------------------------
(* Properties *)

TypeOK ==
    /\ now \in FirstMoment..LastMoment /\ {up, behind} \subseteq BOOLEAN
    /\ refreshed \in {NoDay} \cup (0..DayOf(LastMoment))
    /\ \A r \in rows : r.id \in 1..(nextId - 1) /\ r.since <= now
    /\ \A r, s \in rows : r.id = s.id => r = s
    /\ \A q \in handed : q[1] < nextId /\ q[3] <= now - Grace - 1
    /\ asleep \subseteq 1..(nextId - 1)

RestOfToday == (now + 1)..(At(Today + 1, 0) - 1)

\* A halachic weekly side whose time of today has passed holds the time of its
\* next turn, and today may come to that time once more.
SecondTurn(r, e) ==
    r.type = "weekly" /\ r.side[e].anchor # "clock" /\ \E t \in CalendarEvents(r, e, Today) : t <= now

\* After the refresh of the day, what the server takes for due in the rest of
\* the day is what the calendar shows for it (services/calendar.js: "the
\* calendar shows the real future times").  A dated or halachic schedule that
\* was off at the refresh and is on again is as it was before, until the next
\* refresh: the calendar shows what server and unit do not know of, and a
\* halachic weekly one even fires at the time of another day.
CalendarIsKept ==
    up /\ refreshed = Today =>
        \A r \in rows, e \in Sides : r.side[e] = NoSide \/ SecondTurn(r, e) \/
            LET due   == {t \in RestOfToday : DueAt(r, e, t)}
                shown == CalendarEvents(r, e, Today) \cap RestOfToday
            IN  IF r.id \in asleep THEN r.type = "weekly" \/ due \subseteq shown ELSE due = shown

\* A schedule that fires by its date holds a day.
DatesAreDays == \A r \in rows : \A e \in Has(r) : r.side[e].date \in Int

Told(r) == unit = "shelly" \/ ExclWeeklyDays(r) = {}

\* A unit that is not behind does in the rest of the day what the server takes
\* for due (services/shelly-schedules.js: "mirror each Shelly's schedules into
\* the device's own Schedule cron jobs").  An ESP32 is told of the exclusions
\* of the day only: the refresh does not look at those by weekday, and a day
\* without server may be the day on which another one begins or ends.
MirrorIsExact ==
    up /\ refreshed = Today /\ ~behind /\ (unit = "esp" => outages = 0) =>
        \A t \in RestOfToday, r \in rows, e \in Sides :
            /\ DueAt(r, e, t) /\ Told(r) => <<r.relay, e>> \in Calls(t)
            /\ <<r.relay, e>> \in Calls(t) => \E s \in rows : s.relay = r.relay /\ (DueAt(s, e, t) \/ ~Told(s))

\* A Shelly that the server cannot reach goes on for a year with what it holds.
\* It fires nothing that the calendar does not show for the rows it got, and all
\* of it for weekly clock schedules; a halachic time, or an exclusion by date,
\* that concerns a weekly schedule is as it was ("fire on the wrong year's
\* anniversary", services/time.js).
AsItWas(r, e) == r.type = "weekly" /\ (r.side[e].anchor # "clock" \/ WithoutWeeklyExcl(r).excl # {})
OfflineJobs ==
    unit = "shelly" /\ Today < heldOn + YearLen =>
        \A t \in At(Today, 0)..(At(Today + 1, 0) - 1) :
            /\ \A c \in Calls(t) : \E r \in heldRows :
                    c[1] = r.relay /\ r.side[c[2]] # NoSide
                        /\ (AsItWas(r, c[2]) \/ t \in CalendarEvents(r, c[2], Today))
            /\ \A r \in heldRows, e \in Sides :
                    r.type = "weekly" /\ r.side[e] # NoSide /\ t \in CalendarEvents(r, e, Today) =>
                        AsItWas(r, e) \/ <<r.relay, e>> \in Calls(t)

\* services/schedules.js: "A dated scheduler (holiday / yearly / once) ALWAYS
\* replaces the plan's all-year (weekly) schedulers on its days".  The night
\* that ends a holy day belongs to no day of the scheduler.
AfterMidnight(r) ==
    /\ r.type = "holiday" /\ r.keys \cap DOMAIN Motzaei # {}
    /\ \E e \in Has(r) : r.side[e].anchor = "clock" /\ r.side[e].clock < Noon
DatedReplaces ==
    plan # NoPlan /\ up /\ refreshed = Today =>
        \A r, w \in Members : r.type # "weekly" /\ ~AfterMidnight(r) /\ w.type = "weekly" =>
            ~ \E e, f \in Sides, t, u \in RestOfToday : DueAt(r, e, t) /\ DueAt(w, f, u)

\* Across crashes and start-ups, every occurrence of a schedule that the refresh
\* does not move, due since the schedule is as it is, comes to the loop or to
\* the scan ([D24] and the due window [now-3min, now-2min) of the tick).
NothingIsMissed ==
    up =>
        \A r \in rows, e \in Sides, t \in (now - ScanWindow)..(now - Grace - 1) :
            ~ToRefresh(r) /\ r.since <= t /\ DueAt(r, e, t) => <<r.id, e, t>> \in handed
=============================================================================
