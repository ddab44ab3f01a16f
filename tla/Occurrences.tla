---------------------------- MODULE Occurrences ----------------------------
(***************************************************************************)
(* When a schedule fires.  Four programs answer that question on their     *)
(* own: the server that backs the units up (scheduler/tick.js), the        *)
(* calendar of the customer (services/calendar.js), the cron jobs of a     *)
(* Shelly (services/shelly-schedules.js) and the payload of an ESP32       *)
(* (services/schedulePayload.js with executionTick of the firmware).  They *)
(* share the rows, whose dated and halachic sides hold only their next     *)
(* occurrence.                                                             *)
(*                                                                         *)
(* A moment is a number of minutes, a day a number of days since the       *)
(* beginning.  Weeks, years and days are shorter than real ones.  A        *)
(* Hebrew year begins on another day of every civil year; the clamping of  *)
(* days to short and leap months, and the switch to summer time, are left  *)
(* out.                                                                    *)
(***************************************************************************)
EXTENDS PlanParameters, FiniteSetsExt

Night   == "sunset"             \* NIGHT_ANCHORS
Noon    == DayLen \div 2
DayOf(t) == t \div DayLen
MinuteOf(t) == t % DayLen
At(d, m) == d * DayLen + m
Dow(d)   == (d % WeekLen) + 1
Shabbat  == WeekLen             \* the last day of the week

-----------------------------------------------------------------------------
(* Yearly dates and holidays: services/holidays.js *)

HebYear(d) == Max({h \in DOMAIN HebStart : HebStart[h] <= d})

\* A date, given as a day of its year, in the year i years after that of day d.
YearlyOccurrence(src, cal, i, d) ==
    IF cal = "heb" THEN HebStart[HebYear(d) + i] + src
    ELSE (d \div YearLen + i) * YearLen + src

\* A range whose end lies earlier in the year than its start ends in the next year.
RangeOf(x, i, d) ==
    LET on  == YearlyOccurrence(x.from, x.cal, i, d)
        off == YearlyOccurrence(x.to, x.cal, i, d)
    IN  [on |-> on, off |-> IF off < on THEN YearlyOccurrence(x.to, x.cal, i + 1, d) ELSE off]

DayKeysOn(d) ==
    {k \in DOMAIN YomTov : d = HebStart[HebYear(d)] + YomTov[k]}
    \cup IF Dow(d) = Shabbat THEN {"shabbat"} ELSE {}

Base(k) == IF k \in DOMAIN Motzaei THEN Motzaei[k] ELSE k

\* A selected day or its eve.
InHolidayBlock(keys, d) == {Base(k) : k \in keys} \cap (DayKeysOn(d) \cup DayKeysOn(d + 1)) # {}

SideMinute(s, d) == IF s.anchor = "clock" THEN s.clock ELSE Zman[s.anchor][d % YearLen]

\* Where one side fires for key k, whose day is D; the evening after a day that
\* is followed by another holy day does not fire.
SideEventOn(s, k, D) ==
    LET after == k \in DOMAIN Motzaei
        day   == IF s.anchor = "clock"
                 THEN CASE after /\ s.clock < Noon -> D + 1
                        [] ~after /\ s.clock >= Zman[Night][(D - 1) % YearLen] -> D - 1
                        [] OTHER -> D
                 ELSE IF ~after /\ s.anchor = Night THEN D - 1 ELSE D
    IN  IF after /\ DayKeysOn(D + 1) # {} THEN {} ELSE {At(day, SideMinute(s, day))}

HolidaySideEvents(s, keys, from, to) ==
    LET On(D) == UNION {SideEventOn(s, k, D) : k \in {k \in keys : Base(k) \in DayKeysOn(D)}}
    IN  {t \in UNION {On(D) : D \in (from - 1)..(to + 1)} : DayOf(t) \in from..to}

-----------------------------------------------------------------------------
(* Exclusions *)

InExclItem(x, d) ==
    \/ x.type = "weekly" /\ Dow(d) \in x.days
    \/ x.type = "holiday" /\ InHolidayBlock(x.keys, d)
    \/ x.type = "once" /\ d \in x.from..x.to
    \/ x.type = "yearly" /\ \E i \in -1..1 : LET r == RangeOf(x, i, d) IN d \in r.on..r.off

\* exclDays is the single weekday exclusion of older rows, excl the list.
Excluded(r, d) == Dow(d) \in r.exclDays \/ \E x \in r.excl : InExclItem(x, d)

ExclWeeklyDays(r) == r.exclDays \cup UNION {x.days : x \in {x \in r.excl : x.type = "weekly"}}
WithoutWeeklyExcl(r) ==
    [r EXCEPT !.exclDays = {}, !.excl = {x \in r.excl : x.type # "weekly"}]

-----------------------------------------------------------------------------
(* The next occurrence: resolveSchedule and the daily refresh *)

Has(r)      == {e \in Sides : r.side[e] # NoSide}
OneSided(r) == Cardinality(Has(r)) = 1
Put(r, e, d, m) == [r EXCEPT !.side[e].date = d, !.side[e].time = m]

\* The coming day of a weekly side; one cycle later when its time has passed.
NextOccurrenceDate(s, now) ==
    LET today == DayOf(now)
        first == IF s.dow = 0 THEN today ELSE today + ((s.dow - Dow(today) + WeekLen) % WeekLen)
        cycle == IF s.dow = 0 THEN 1 ELSE WeekLen
    IN  IF first = today /\ At(today, SideMinute(s, today)) <= now THEN today + cycle ELSE first

ResolveAnchors(r, now) ==
    [r EXCEPT !.side = [e \in Sides |->
        IF r.side[e] = NoSide THEN NoSide
        ELSE LET s == r.side[e]
                 d == IF r.type = "once" THEN s.date ELSE NextOccurrenceDate(s, now)
             IN  [s EXCEPT !.time = SideMinute(s, d)]]]

\* A one-time schedule entered by its Hebrew date; a pair that would end before
\* it begins ends on the next day.
HebOnceDate(src, now) ==
    YearlyOccurrence(src, "heb", Min({i \in 0..2 : YearlyOccurrence(src, "heb", i, DayOf(now)) >= DayOf(now)}), DayOf(now))
ResolveOnce(r, now) ==
    IF r.cal # "heb" THEN ResolveAnchors(r, now)
    ELSE LET d == HebOnceDate(r.from, now)
             dated == [r EXCEPT !.side = [e \in Sides |->
                          IF r.side[e] = NoSide THEN NoSide ELSE [r.side[e] EXCEPT !.date = d]]]
             s == ResolveAnchors(dated, now)
         IN  IF Has(s) = Sides /\ s.side["off"].time <= s.side["on"].time
             THEN [s EXCEPT !.side["off"].date = d + 1] ELSE s

\* The times of the range that begins in year i, with the day of each side.
PairOf(r, i, now) ==
    LET g  == RangeOf(r, i, DayOf(now))
        on == SideMinute(r.side["on"], g.on)
        offDay == IF g.off = g.on /\ SideMinute(r.side["off"], g.on) <= on THEN g.on + 1 ELSE g.off
    IN  Put(Put(r, "on", g.on, on), "off", offDay, SideMinute(r.side["off"], offDay))

\* Wrong on purpose: a range that began in the last year is forgotten.
ResolveYearlyThisYear(r, now) ==
    LET i == Min({i \in 0..2 : At(RangeOf(r, i, DayOf(now)).off + 1, 0) > now})
        e == CHOOSE e \in Has(r) : TRUE
        d == RangeOf(r, i, DayOf(now)).on
    IN  Put(r, e, d, SideMinute(r.side[e], d))
\* A one-sided schedule over several days fires on each of them; a pair on the
\* first and on the last.  It is resolved to what is still pending.
ResolveYearly(r, now) ==
    IF OneSided(r)
    THEN LET e == CHOOSE e \in Has(r) : TRUE
             Days(i) == LET g == RangeOf(r, i, DayOf(now)) IN g.on..g.off
             d == Min({d \in UNION {Days(i) : i \in -1..2} : At(d, SideMinute(r.side[e], d)) > now})
         IN  Put(r, e, d, SideMinute(r.side[e], d))
    ELSE LET Last(i) == LET p == PairOf(r, i, now) IN At(p.side["off"].date, p.side["off"].time)
         IN  PairOf(r, Min({i \in -1..2 : Last(i) > now}), now)

\* The sides of a holiday schedule go forward on their own.
ResolveHoliday(r, now) ==
    LET today   == DayOf(now)
        Next(s) == Min({t \in HolidaySideEvents(s, r.keys, today - 2, today + YearLen + WeekLen) : t > now})
        Moved(s, t) == [s EXCEPT !.date = DayOf(t), !.time = MinuteOf(t)]
    IN  [r EXCEPT !.side = [e \in Sides |->
            IF r.side[e] = NoSide THEN NoSide ELSE Moved(r.side[e], Next(r.side[e]))]]

ResolveSchedule(r, now) ==
    CASE r.type = "holiday" -> ResolveHoliday(r, now)
      [] r.type = "yearly"  -> ResolveYearly(r, now)
      [] r.type = "once"    -> ResolveOnce(r, now)
      [] OTHER              -> ResolveAnchors(r, now)

\* The daily refresh, and an edit: a one-time schedule keeps its date.
Fresh(r, now) == IF r.type = "once" THEN ResolveAnchors(r, now) ELSE ResolveSchedule(r, now)

\* validateScheduleRules: the sides of a pair differ, and the first event of a
\* one-time schedule is in the future.
ZeroLength(r) ==
    /\ r.type \in {"weekly", "once"} /\ Has(r) = Sides
    /\ r.side["on"].time = r.side["off"].time
    /\ IF r.type = "weekly" THEN r.side["on"].dow = r.side["off"].dow ELSE r.side["on"].date = r.side["off"].date
Valid(r, now) ==
    /\ ~ZeroLength(r)
    /\ r.type = "once" => \A e \in Has(r) : At(r.side[e].date, r.side[e].time) > now

-----------------------------------------------------------------------------
(* The server: occurrencesInWindow and dueOccurrences *)

DueAt(r, e, t) ==
    /\ r.enabled /\ r.side[e] # NoSide /\ r.side[e].time = MinuteOf(t)
    /\ IF r.type = "weekly" THEN r.side[e].dow \in {0, Dow(DayOf(t))} ELSE r.side[e].date = DayOf(t)
    /\ ~Excluded(r, DayOf(t))

-----------------------------------------------------------------------------
(* The calendar: expandSchedules over one day *)

RangesAround(r, d) == {RangeOf(r, i, d) : i \in -1..1}

\* The moments of day d at which r is shown to switch.
CalendarEvents(r, e, d) ==
    LET s == r.side[e]
        Shown(t) == DayOf(t) = d /\ ~Excluded(r, d)
        here == At(d, SideMinute(s, d))
    IN  IF ~r.enabled \/ s = NoSide THEN {}
        ELSE {t \in CASE r.type = "weekly" -> IF s.dow \in {0, Dow(d)} THEN {here} ELSE {}
                      [] r.type = "once" -> {At(s.date, s.time)}
                      [] r.type = "holiday" -> HolidaySideEvents(s, r.keys, d, d)
                      [] r.type = "yearly" /\ OneSided(r) ->
                            IF \E g \in RangesAround(r, d) : d \in g.on..g.off THEN {here} ELSE {}
                      [] OTHER -> LET Pair(i) == PairOf(r, i, At(d, 0)).side[e]
                                  IN  {At(Pair(i).date, Pair(i).time) : i \in -1..1}
              : Shown(t)}

-----------------------------------------------------------------------------
(* The unit: buildShellyJobs, and buildDevicePayload with executionTick *)

\* The days on which a cron line without a year stands for this date.
IsNextAnniversary(date, today) == today <= date /\ date < today + YearLen

AllDays == 1..WeekLen

\* The days of the week, or the day of the year, on which the job of a side fires.
JobDays(r, e, today) ==
    LET s == r.side[e]
    IN  IF r.type = "weekly"
        THEN IF Excluded(WithoutWeeklyExcl(r), today) THEN {}
             ELSE (IF s.dow = 0 THEN AllDays ELSE {s.dow}) \ ExclWeeklyDays(r)
        ELSE IF IsNextAnniversary(s.date, today) /\ ~Excluded(r, s.date) THEN {s.date % YearLen} ELSE {}

\* A cron line per side; lines of the same time become one job with the calls
\* of all; weekly jobs with the same time and calls collapse into one.
Lines(rows, today) ==
    UNION {{[dated |-> r.type # "weekly", days |-> JobDays(r, e, today), time |-> r.side[e].time,
             call |-> <<r.relay, e>>] : e \in Has(r)} : r \in {r \in rows : r.enabled}}
Merged(lines) ==
    {[dated |-> l.dated, days |-> l.days, time |-> l.time,
      calls |-> {k.call : k \in {k \in lines : k.dated = l.dated /\ k.days = l.days /\ k.time = l.time}}] :
        l \in {l \in lines : l.days # {}}}
Collapsed(jobs) ==
    {IF j.dated THEN j
     ELSE [j EXCEPT !.days = UNION {k.days : k \in {k \in jobs : ~k.dated /\ k.time = j.time /\ k.calls = j.calls}}] :
        j \in jobs}
BuildShellyJobs(rows, today) == Collapsed(Merged(Lines(rows, today)))

ShellyCalls(jobs, t) ==
    UNION {j.calls : j \in {j \in jobs :
        j.time = MinuteOf(t) /\ (IF j.dated THEN DayOf(t) % YearLen ELSE Dow(DayOf(t))) \in j.days}}

\* An entry of a fixed day under the weekday exclusion of its row is dropped for
\* good; any other is dropped while today is excluded.
EntryExcluded(r, s, today) ==
    IF r.exclDays # {} /\ s.dow # 0 THEN s.dow \in r.exclDays ELSE Excluded(r, today)
Entered(r, e, today) ==
    IF r.type = "weekly" THEN ~EntryExcluded(r, r.side[e], today) ELSE ~Excluded(r, r.side[e].date)
BuildDevicePayload(rows, today) ==
    UNION {{[dated |-> r.type # "weekly", day |-> IF r.type = "weekly" THEN r.side[e].dow ELSE r.side[e].date,
             time |-> r.side[e].time, call |-> <<r.relay, e>>] : e \in {e \in Has(r) : Entered(r, e, today)}}
        : r \in {r \in rows : r.enabled}}

EspCalls(payload, t) ==
    {p.call : p \in {p \in payload :
        p.time = MinuteOf(t) /\ (IF p.dated THEN p.day = DayOf(t) ELSE p.day \in {0, Dow(DayOf(t))})}}
=============================================================================
