--------------------------- MODULE PlanParameters ---------------------------
(* The calendar, the periods, the menus and the bounds of modules Occurrences *)
(* and Plans, and the form that the rows of the menus have.                   *)
EXTENDS Integers, FiniteSets

CONSTANTS
    DayLen, WeekLen, YearLen,   \* minutes of a day, days of a week and of a civil year
    HebStart,                   \* first day of each Hebrew year
    Zman,                       \* [anchor -> [day of the civil year -> minute]]
    YomTov,                     \* [holiday -> day of the Hebrew year]
    Motzaei,                    \* [evening after -> the day it follows], MOTZAEI
    PlanMenu,        \* the plans that the customer may save: relays, schedulers, exclusions
    RowMenu,         \* the schedules that the customer may create one by one
    Clocks,          \* times of day for an edit of a schedule
    FirstMoment, LastMoment,
    Grace,           \* BACKUP_GRACE_MIN
    ScanWindow,      \* RECONCILE_WINDOW_H in minutes
    RetryWindow,     \* RETRY_WINDOW_MIN
    RefreshAt,       \* the minute of the day from which the refresh may run
    MaxChanges, LastEdit,   \* bounds: edits and outages together; the last moment of an edit
    Wakings,                \* bound: the moments at which a schedule is switched on again
    MaxSingles,             \* bound: the id of a schedule made on its own
    NoPlan, NoDay

Sides  == {"on", "off"}
NoSide == [anchor |-> "none"]   \* a side that the schedule does not have

\* A schedule has a side or two, each at a time of the clock or of the sun.
IsSide(s) ==
    /\ DOMAIN s = {"anchor", "clock", "dow", "time", "date"}
    /\ s.anchor \in {"clock"} \cup DOMAIN Zman
IsRow(r) ==
    /\ DOMAIN r = {"id", "inPlan", "relay", "type", "side", "keys", "cal", "from", "to",
                   "exclDays", "excl", "enabled", "since"}
    /\ r.type \in {"weekly", "once", "yearly", "holiday"}
    /\ DOMAIN r.side = Sides
    /\ \A e \in Sides : r.side[e] = NoSide \/ IsSide(r.side[e])
    /\ \E e \in Sides : r.side[e] # NoSide
IsPlan(p) ==
    /\ IsFiniteSet(p.relays) /\ IsFiniteSet(p.schedulers)
    /\ \A s \in p.schedulers :
        /\ s.type \in {"weekly", "once", "yearly", "holiday"} /\ s.action \in Sides
        /\ s.anchor \in {"clock"} \cup DOMAIN Zman /\ IsFiniteSet(s.days)

ASSUME PlanAssumption ==
    /\ {DayLen, WeekLen, YearLen} \subseteq Nat \ {0} /\ RefreshAt \in 0..(DayLen - 1) /\ NoDay \notin Int
    /\ {FirstMoment, LastMoment, Grace, ScanWindow} \subseteq Nat
    /\ FirstMoment <= LastMoment
    /\ "none" \notin DOMAIN Zman
    /\ \A p \in PlanMenu : IsPlan(p)
    /\ \A r \in RowMenu : IsRow(r)
=============================================================================
