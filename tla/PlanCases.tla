------------------------------ MODULE PlanCases ------------------------------
(* The instance of Plans: a week of three days, a civil year of four, days of four minutes; the third *)
(* day of the week is the Sabbath, and a holy day is the second of the Hebrew *)
(* year.  The customer begins at the turn of a civil year.                    *)
EXTENDS PlanParameters

MCHebStart == [h \in -2..9 |-> <<-10, -6, -3, 1, 6, 9, 13, 18, 21, 25, 30, 33>>[h + 3]]
MCZman     == [a \in {"sunset", "sunrise"} |->
                [d \in 0..3 |-> IF a = "sunrise" THEN 1 ELSE IF d < 2 THEN 2 ELSE 3]]
MCYomTov   == [k \in {"chag"} |-> 1]
MCMotzaei  == [k \in {"motzaei_shabbat", "motzaei_chag"} |-> IF k = "motzaei_chag" THEN "chag" ELSE "shabbat"]

Sch(type, action, clock) ==
    [type |-> type, action |-> action, anchor |-> "clock", clock |-> clock,
     days |-> {}, keys |-> {}, cal |-> "greg", from |-> 0, to |-> 0]
Weekly(action, clock, days) == [Sch("weekly", action, clock) EXCEPT !.days = days]
Dated(type, action, clock, cal, from, to) ==
    [Sch(type, action, clock) EXCEPT !.cal = cal, !.from = from, !.to = to]
Holiday(action, clock, keys) == [Sch("holiday", action, clock) EXCEPT !.keys = keys]
Anchored(s, anchor) == [s EXCEPT !.anchor = anchor]
Item(type, days, keys, from, to) ==
    [type |-> type, days |-> days, keys |-> keys, cal |-> "greg", from |-> from, to |-> to]

Plan(relays, schedulers, excl) == [relays |-> relays, schedulers |-> schedulers, excl |-> excl]
MCPlanMenu ==
    {Plan({1}, {Weekly("off", 1, {}), Dated("once", "on", 2, "greg", 6, 6)}, {}),
     Plan({1}, {Anchored(Weekly("on", 0, {2}), "sunset"), Holiday("off", 3, {"shabbat"})}, {}),
     Plan({1}, {Dated("yearly", "on", 3, "greg", 3, 1), Weekly("off", 2, {})}, {}),
     Plan({1}, {Dated("yearly", "on", 1, "heb", 2, 0), Anchored(Weekly("off", 0, {}), "sunset")},
          {Item("yearly", {}, {}, 1, 1)}),
     Plan({1, 2}, {Weekly("on", 1, {}), Weekly("off", 3, {1, 2})}, {Item("weekly", {3}, {}, 0, 0)}),
     Plan({1}, {Holiday("on", 3, {"motzaei_shabbat"}), Weekly("off", 0, {})}, {}),
     Plan({1}, {Weekly("off", 1, {}), Weekly("on", 1, {2})}, {}),
     Plan({1}, {Dated("once", "off", 2, "heb", 1, 1), Holiday("on", 0, {"chag", "motzaei_chag"}), Weekly("on", 1, {})},
          {Item("holiday", {}, {"shabbat"}, 0, 0)})}

\* Schedules of the form of a single channel: often both sides in one row.
Side(anchor, clock, dow, date) == [anchor |-> anchor, clock |-> clock, dow |-> dow, time |-> clock, date |-> date]
RowOf(type, on, off, cal, from, to, exclDays) ==
    [id |-> 0, inPlan |-> FALSE, relay |-> 1, type |-> type,
     side |-> [e \in {"on", "off"} |-> IF e = "on" THEN on ELSE off],
     keys |-> IF type = "holiday" THEN {"shabbat", "motzaei_chag"} ELSE {},
     cal |-> cal, from |-> from, to |-> to, exclDays |-> exclDays, excl |-> {}, enabled |-> TRUE, since |-> 0]
MCRowMenu ==
    {RowOf("weekly", Side("clock", 2, 1, 0), Side("clock", 1, 2, 0), "greg", 0, 0, {}),
     RowOf("weekly", Side("clock", 1, 0, 0), Side("clock", 3, 0, 0), "greg", 0, 0, {3}),
     RowOf("yearly", Side("sunset", 0, 0, 0), Side("clock", 2, 0, 0), "greg", 2, 2, {}),
     RowOf("yearly", Side("clock", 1, 0, 0), Side("clock", 1, 0, 0), "heb", 2, 0, {}),
     RowOf("once", Side("clock", 3, 0, 0), Side("sunrise", 0, 0, 0), "heb", 2, 2, {}),
     RowOf("once", NoSide, Side("clock", 2, 0, 7), "greg", 7, 7, {}),
     RowOf("holiday", Side("sunset", 0, 0, 0), Side("clock", 3, 0, 0), "greg", 0, 0, {})}
MCClocks == {0, 2}
=============================================================================
