---------------------------- MODULE Parts_proofs ----------------------------
(***************************************************************************)
(* Proofs about the parts of the server that MCParts checks side by side.  *)
(* Of the monitor of the fleet and of the net after a reboot it takes over *)
(* what their own modules prove.  Of the schedules (module Plans) it shows *)
(* that no occurrence falls between the loop and the start-up scan, that   *)
(* the ids are unique, and that a unit that is not behind mirrors them.    *)
(***************************************************************************)
EXTENDS MCParts, FleetMonitor_proofs, FiniteSetTheorems

-----------------------------------------------------------------------------
(* The net after a reboot: what RebootNet_proofs proves holds of the part too *)

NetProofs == INSTANCE RebootNet_proofs

\* Both instances of RebootNet say the same.
LEMMA SameInit == Net!Init <=> NetProofs!Init
  BY
     DEF Net!Init, NetProofs!Init, Net!Never, NetProofs!Never, Net!NoOrder, NetProofs!NoOrder,
         Net!NoReading, NetProofs!NoReading

LEMMA SameNext == Net!Next <=> NetProofs!Next
  BY
     DEF Net!Init, NetProofs!Init, Net!Next, NetProofs!Next, Net!LocalOff, NetProofs!LocalOff,
         Net!Cut, NetProofs!Cut, Net!Order, NetProofs!Order, Net!Obey, NetProofs!Obey, Net!Acked,
         NetProofs!Acked, Net!NextMinute, NetProofs!NextMinute, Net!SysAnswered,
         NetProofs!SysAnswered, Net!SysUnanswered, NetProofs!SysUnanswered, Net!SwitchAnswered,
         NetProofs!SwitchAnswered, Net!SwitchUnanswered, NetProofs!SwitchUnanswered, Net!Verify,
         NetProofs!Verify, Net!Fire, NetProofs!Fire, Net!Done, NetProofs!Done, Net!Restart,
         NetProofs!Restart, Net!unit, NetProofs!unit, Net!probe, NetProofs!probe, Net!hand,
         NetProofs!hand, Net!bounds, NetProofs!bounds, Net!vars, NetProofs!vars, Net!Never,
         NetProofs!Never, Net!NoOrder, NetProofs!NoOrder, Net!Reading, NetProofs!Reading,
         Net!NoReading, NetProofs!NoReading, Net!ProbeFrame, NetProofs!ProbeFrame, Net!Silence,
         NetProofs!Silence, Net!Earlier, NetProofs!Earlier, Net!TooOld, NetProofs!TooOld, Net!Due,
         NetProofs!Due, Net!ByHand, NetProofs!ByHand, Net!Remembered, NetProofs!Remembered

LEMMA SameVars == Net!vars = NetProofs!vars
  BY
     DEF Net!vars, NetProofs!vars, Net!unit, NetProofs!unit, Net!probe, NetProofs!probe, Net!hand,
         NetProofs!hand, Net!bounds, NetProofs!bounds

LEMMA NetIsNet == Net!Spec => NetProofs!Spec
<1>1. [Net!Next]_(Net!vars) => [NetProofs!Next]_(NetProofs!vars)
  BY SameNext, SameVars
     DEF Net!vars, NetProofs!vars, Net!unit, Net!probe, Net!hand, Net!bounds, NetProofs!unit,
         NetProofs!probe, NetProofs!hand, NetProofs!bounds
<1> QED BY SameInit, <1>1, PTL DEF Net!Spec, NetProofs!Spec

LEMMA NetSteps == part = "net" /\ PartsSpec => Net!Spec /\ [](part = "net")
<1>1. part = "net" /\ PartsInit => Net!Init
  BY DEF PartsInit
<1>2. part = "net" /\ [PartsNext]_allVars => [Net!Next]_(Net!vars) /\ (part = "net")'
  BY DEF PartsNext, allVars, netVars, Net!vars, Net!unit, Net!probe, Net!hand, Net!bounds
<1> QED BY <1>1, <1>2, PTL DEF PartsSpec, Net!Spec

LEMMA Stays == PartsSpec /\ ~(part = "net") => [](~(part = "net"))
<1>2. ~(part = "net") /\ [PartsNext]_allVars => (~(part = "net"))'
  BY DEF PartsNext, allVars, netVars, Net!vars, Net!unit, Net!probe, Net!hand, Net!bounds
<1> QED BY <1>2, PTL DEF PartsSpec

\* What a wish has switched off since the last reading is not switched on again
\* after a reboot (monitor/health.js, verifyRebootOutputs): the net keeps to it
\* next to the other parts too.
THEOREM OffsStay == PartsSpec => NetKeepsOffs
<1>1. Net!Spec => NetProofs!Spec
  BY NetIsNet
<1>2. part = "net" /\ [PartsNext]_allVars /\ [NetProofs!Kept]_(NetProofs!vars)
          => [part = "net" => Net!Kept]_allVars
  BY DEF Net!Kept, NetProofs!Kept, NetProofs!vars, NetProofs!unit, NetProofs!probe, NetProofs!hand,
         NetProofs!bounds
<1>3. ~(part = "net") => [part = "net" => Net!Kept]_allVars
  OBVIOUS
<1>4. NetProofs!Spec => [][NetProofs!Kept]_(NetProofs!vars)
  <2>1. NetProofs!Spec => NetProofs!NetKeepsOffs
    BY NetProofs!NetKept, NetAssumption
  <2> QED BY <2>1, PTL DEF NetProofs!NetKeepsOffs
<1>5. ~(part = "net") /\ PartsSpec => NetKeepsOffs
  BY <1>3, Stays, PTL DEF NetKeepsOffs
<1>6. part = "net" /\ PartsSpec => NetKeepsOffs
  BY <1>1, <1>2, <1>4, NetSteps, PTL DEF NetKeepsOffs, PartsSpec
<1> QED BY <1>5, <1>6, PTL

-----------------------------------------------------------------------------
(* What resolving does to a row *)

\* The same row with other dates and times.
Alike(q, r) ==
    /\ Week!IsRow(q)
    /\ q.id = r.id /\ q.type = r.type /\ q.since = r.since /\ q.enabled = r.enabled
    /\ \A e \in Week!Sides :
        /\ (q.side[e]).anchor = (r.side[e]).anchor
        /\ q.side[e] = Week!NoSide <=> r.side[e] = Week!NoSide

\* A side is not the missing side.
LEMMA SideIsThere ==
    ASSUME NEW s, Week!IsSide(s)
    PROVE  s # Week!NoSide
<1>1. s.anchor # "none"
  BY PlanAssumption DEF Week!IsSide, PlanAssumption
<1> QED BY <1>1 DEF Week!NoSide

\* New sides with the anchors of the old ones make a row that is alike.
LEMMA RowRedated ==
    ASSUME NEW r, Week!IsRow(r), NEW f, DOMAIN f = Week!Sides,
           \A e \in Week!Sides :
               IF r.side[e] = Week!NoSide THEN f[e] = Week!NoSide
               ELSE Week!IsSide(f[e]) /\ (f[e]).anchor = (r.side[e]).anchor
    PROVE  Alike([r EXCEPT !.side = f], r)
<1> DEFINE q == [r EXCEPT !.side = f]
<1>1. /\ DOMAIN q = DOMAIN r /\ q.side = f
      /\ q.id = r.id /\ q.type = r.type /\ q.since = r.since /\ q.enabled = r.enabled
  BY DEF Week!IsRow
<1> HIDE DEF q
<1>2. \A e \in Week!Sides : f[e] = Week!NoSide <=> r.side[e] = Week!NoSide
  BY SideIsThere
<1>3. Week!IsRow(q)
  BY <1>1, <1>2 DEF Week!IsRow
<1>4. Alike(q, r)
  BY <1>1, <1>2, <1>3 DEF Alike
<1> QED BY <1>4 DEF q

LEMMA AlikeTwice ==
    ASSUME NEW p, NEW q, NEW r, Alike(p, q), Alike(q, r)
    PROVE  Alike(p, r)
  BY DEF Alike

LEMMA AlikeSelf ==
    ASSUME NEW r, Week!IsRow(r)
    PROVE  Alike(r, r)
  BY DEF Alike

\* A row whose side e gets another date and time is alike.
LEMMA PutIsAlike ==
    ASSUME NEW r, Week!IsRow(r), NEW e \in Week!Sides, r.side[e] # Week!NoSide, NEW d, NEW m
    PROVE  Alike(Week!Put(r, e, d, m), r)
<1> DEFINE f == [[r.side EXCEPT ![e].date = d] EXCEPT ![e].time = m]
<1>1. Week!Put(r, e, d, m) = [r EXCEPT !.side = f]
  BY DEF Week!Put, Week!IsRow
<1>2. DOMAIN f = Week!Sides
  BY DEF Week!IsRow
<1>3. ASSUME NEW x \in Week!Sides
      PROVE  IF r.side[x] = Week!NoSide THEN f[x] = Week!NoSide
             ELSE Week!IsSide(f[x]) /\ (f[x]).anchor = (r.side[x]).anchor
  <2>1. CASE x = e
    <3>1. Week!IsSide(r.side[e])
      BY DEF Week!IsRow
    <3>2. f[x] = [[r.side[e] EXCEPT !.date = d] EXCEPT !.time = m]
      BY <2>1 DEF Week!IsRow
    <3> QED BY <3>1, <3>2, <2>1 DEF Week!IsSide
  <2>2. CASE x # e
    <3>1. f[x] = r.side[x]
      BY <2>2 DEF Week!IsRow
    <3> QED BY <3>1 DEF Week!IsRow
  <2> QED BY <2>1, <2>2
<1> HIDE DEF f
<1> QED BY <1>1, <1>2, <1>3, RowRedated

LEMMA AnchorsAlike ==
    ASSUME NEW r, Week!IsRow(r), NEW t
    PROVE  Alike(Week!ResolveAnchors(r, t), r)
<1> DEFINE D(e) == IF r.type = "once" THEN (r.side[e]).date ELSE Week!NextOccurrenceDate(r.side[e], t)
           f == [e \in Week!Sides |-> IF r.side[e] = Week!NoSide THEN Week!NoSide
                                      ELSE [r.side[e] EXCEPT !.time = Week!SideMinute(r.side[e], D(e))]]
<1>1. Week!ResolveAnchors(r, t) = [r EXCEPT !.side = f]
  BY DEF Week!ResolveAnchors
<1>2. ASSUME NEW x \in Week!Sides
      PROVE  IF r.side[x] = Week!NoSide THEN f[x] = Week!NoSide
             ELSE Week!IsSide(f[x]) /\ (f[x]).anchor = (r.side[x]).anchor
  <2> HIDE DEF D
  <2> QED BY DEF Week!IsRow, Week!IsSide
<1>3. DOMAIN f = Week!Sides
  OBVIOUS
<1> HIDE DEF f
<1> QED BY <1>1, <1>2, <1>3, RowRedated

LEMMA HolidayAlike ==
    ASSUME NEW r, Week!IsRow(r), NEW t
    PROVE  Alike(Week!ResolveHoliday(r, t), r)
<1> DEFINE d == Week!DayOf(t)
           N(s) == Week!Min({u \in Week!HolidaySideEvents(s, r.keys, d - 2, d + YearLen + WeekLen) : u > t})
           f == [e \in Week!Sides |-> IF r.side[e] = Week!NoSide THEN Week!NoSide
                                      ELSE [r.side[e] EXCEPT !.date = Week!DayOf(N(r.side[e])),
                                                             !.time = Week!MinuteOf(N(r.side[e]))]]
<1>1. Week!ResolveHoliday(r, t) = [r EXCEPT !.side = f]
  BY DEF Week!ResolveHoliday
<1>2. ASSUME NEW x \in Week!Sides
      PROVE  IF r.side[x] = Week!NoSide THEN f[x] = Week!NoSide
             ELSE Week!IsSide(f[x]) /\ (f[x]).anchor = (r.side[x]).anchor
  <2> HIDE DEF N
  <2> QED BY DEF Week!IsRow, Week!IsSide
<1>3. DOMAIN f = Week!Sides
  OBVIOUS
<1> HIDE DEF f
<1> QED BY <1>1, <1>2, <1>3, RowRedated

LEMMA OnceAlike ==
    ASSUME NEW r, Week!IsRow(r), NEW t
    PROVE  Alike(Week!ResolveOnce(r, t), r)
<1>1. CASE r.cal # "heb"
  BY <1>1, AnchorsAlike DEF Week!ResolveOnce
<1>2. CASE r.cal = "heb"
  <2> DEFINE d == Week!HebOnceDate(r.from, t)
             f == [e \in Week!Sides |-> IF r.side[e] = Week!NoSide THEN Week!NoSide
                                        ELSE [r.side[e] EXCEPT !.date = d]]
             dated == [r EXCEPT !.side = f]
             s == Week!ResolveAnchors(dated, t)
             later == IF Week!Has(s) = Week!Sides /\ (s.side["off"]).time <= (s.side["on"]).time
                      THEN [s EXCEPT !.side["off"].date = d + 1] ELSE s
  <2>1. Week!ResolveOnce(r, t) = later
    BY <1>2 DEF Week!ResolveOnce
  <2>2. Alike(dated, r)
    <3>1. ASSUME NEW x \in Week!Sides
          PROVE  IF r.side[x] = Week!NoSide THEN f[x] = Week!NoSide
                 ELSE Week!IsSide(f[x]) /\ (f[x]).anchor = (r.side[x]).anchor
      <4> HIDE DEF d
      <4> QED BY DEF Week!IsRow, Week!IsSide
    <3>2. DOMAIN f = Week!Sides
      OBVIOUS
    <3> HIDE DEF f
    <3> QED BY <3>1, <3>2, RowRedated
  <2> HIDE DEF dated
  <2>3. Alike(s, r)
    <3>1. Week!IsRow(dated)
      BY <2>2 DEF Alike
    <3> QED BY <3>1, <2>2, AnchorsAlike, AlikeTwice
  <2> HIDE DEF s, d
  <2>4. Week!IsRow(s)
    BY <2>3 DEF Alike
  <2>5. CASE Week!Has(s) = Week!Sides
    <3> DEFINE g == [s.side EXCEPT !["off"].date = d + 1]
    <3>1. [s EXCEPT !.side["off"].date = d + 1] = [s EXCEPT !.side = g]
      BY <2>4 DEF Week!IsRow
    <3>2. ASSUME NEW x \in Week!Sides
          PROVE  IF s.side[x] = Week!NoSide THEN g[x] = Week!NoSide
                 ELSE Week!IsSide(g[x]) /\ (g[x]).anchor = (s.side[x]).anchor
      BY <2>4, <2>5 DEF Week!IsRow, Week!IsSide, Week!Has, Week!Sides
    <3>3. DOMAIN g = Week!Sides
      BY <2>4 DEF Week!IsRow
    <3> HIDE DEF g
    <3>4. Alike([s EXCEPT !.side["off"].date = d + 1], s)
      BY <2>4, <3>1, <3>2, <3>3, RowRedated
    <3>5. Alike([s EXCEPT !.side["off"].date = d + 1], r)
      BY <3>4, <2>3, AlikeTwice
    <3> QED BY <2>1, <2>3, <3>5
  <2>6. CASE Week!Has(s) # Week!Sides
    BY <2>1, <2>3, <2>6
  <2> QED BY <2>5, <2>6
<1> QED BY <1>1, <1>2

LEMMA SameCardinality ==
    ASSUME NEW S
    PROVE  Week!Cardinality(S) = Cardinality(S)
  BY DEF Week!Cardinality, Cardinality

\* A row has one side or both.
LEMMA OneOrBoth ==
    ASSUME NEW r, Week!IsRow(r)
    PROVE  /\ \E e \in Week!Sides : r.side[e] # Week!NoSide
           /\ ~Week!OneSided(r) => \A e \in Week!Sides : r.side[e] # Week!NoSide
<1>1. \E e \in Week!Sides : r.side[e] # Week!NoSide
  BY DEF Week!IsRow
<1>2. ASSUME NEW x \in Week!Sides, r.side[x] = Week!NoSide
      PROVE  Week!OneSided(r)
  <2>1. PICK e \in Week!Sides : r.side[e] # Week!NoSide
    BY <1>1
  <2>2. Week!Has(r) = {e}
    BY <1>2, <2>1 DEF Week!Has, Week!Sides
  <2> QED BY <2>2, FS_Singleton, SameCardinality DEF Week!OneSided
<1> QED BY <1>1, <1>2

LEMMA YearlyAlike ==
    ASSUME NEW r, Week!IsRow(r), NEW t
    PROVE  Alike(Week!ResolveYearly(r, t), r)
<1>1. CASE Week!OneSided(r)
  <2> DEFINE e == CHOOSE e \in Week!Has(r) : TRUE
  <2>1. e \in Week!Sides /\ r.side[e] # Week!NoSide
    <3>1. \E x \in Week!Has(r) : TRUE
      BY OneOrBoth DEF Week!Has
    <3>2. e \in Week!Has(r)
      BY <3>1
    <3> QED BY <3>2 DEF Week!Has
  <2> HIDE DEF e
  <2>2. \A d, m : Alike(Week!Put(r, e, d, m), r)
    BY <2>1, PutIsAlike
  <2> QED BY <1>1, <2>2 DEF Week!ResolveYearly, e
<1>2. CASE ~Week!OneSided(r)
  <2>1. \A e \in Week!Sides : r.side[e] # Week!NoSide
    BY <1>2, OneOrBoth
  <2>2. \A d, m, c, n : Alike(Week!Put(Week!Put(r, "on", d, m), "off", c, n), r)
    <3> TAKE d, m, c, n
    <3> DEFINE q == Week!Put(r, "on", d, m)
    <3>1. Alike(q, r)
      BY <2>1, PutIsAlike DEF Week!Sides
    <3> HIDE DEF q
    <3>2. Week!IsRow(q) /\ q.side["off"] # Week!NoSide
      BY <3>1, <2>1 DEF Alike, Week!Sides
    <3>3. Alike(Week!Put(q, "off", c, n), q)
      BY <3>2, PutIsAlike DEF Week!Sides
    <3>4. Alike(Week!Put(q, "off", c, n), r)
      BY <3>1, <3>3, AlikeTwice
    <3> QED BY <3>4 DEF q
  <2>3. \A i : Alike(Week!PairOf(r, i, t), r)
    BY <2>2 DEF Week!PairOf
  <2> QED BY <1>2, <2>3 DEF Week!ResolveYearly
<1> QED BY <1>1, <1>2

LEMMA ResolvedAlike ==
    ASSUME NEW r, Week!IsRow(r), NEW t
    PROVE  /\ Alike(Week!ResolveSchedule(r, t), r)
           /\ Alike(Week!Fresh(r, t), r)
<1>1. Alike(Week!ResolveSchedule(r, t), r)
  BY AnchorsAlike, HolidayAlike, OnceAlike, YearlyAlike DEF Week!ResolveSchedule
<1> QED BY <1>1, AnchorsAlike DEF Week!Fresh

\* What the refresh moves, it may move again.
LEMMA AlikeRefresh ==
    ASSUME NEW q, NEW r, Alike(q, r)
    PROVE  Week!ToRefresh(q) <=> Week!ToRefresh(r)
  BY DEF Alike, Week!ToRefresh, Week!Has

LEMMA RefreshedAlike ==
    ASSUME NEW r, Week!IsRow(r)
    PROVE  /\ Alike(Week!Refreshed(r), r)
           /\ ~Week!ToRefresh(Week!Refreshed(r)) => Week!Refreshed(r) = r
<1>1. \A t : Alike(Week!Fresh(r, t), r)
  BY ResolvedAlike
<1>2. Alike(Week!Refreshed(r), r)
  BY <1>1, AlikeSelf DEF Week!Refreshed
<1>3. Week!ToRefresh(Week!Refreshed(r)) <=> Week!ToRefresh(r)
  BY <1>2, AlikeRefresh
<1>4. ~Week!ToRefresh(r) => Week!Refreshed(r) = r
  BY DEF Week!Refreshed
<1> QED BY <1>2, <1>3, <1>4

\* A row with another id, state or age is a row.
LEMMA RowMarked ==
    ASSUME NEW r, Week!IsRow(r), NEW x
    PROVE  /\ Week!IsRow([r EXCEPT !.id = x]) /\ [r EXCEPT !.id = x].since = r.since
           /\ Week!IsRow([r EXCEPT !.since = x]) /\ [r EXCEPT !.since = x].since = x
<1>1. Week!IsRow([r EXCEPT !.id = x]) /\ [r EXCEPT !.id = x].since = r.since
  BY DEF Week!IsRow
<1>2. Week!IsRow([r EXCEPT !.since = x]) /\ [r EXCEPT !.since = x].since = x
  BY DEF Week!IsRow
<1> QED BY <1>1, <1>2

LEMMA RowSwitched ==
    ASSUME NEW r, Week!IsRow(r), NEW b, NEW x
    PROVE  /\ Week!IsRow([r EXCEPT !.enabled = b, !.since = x])
           /\ [r EXCEPT !.enabled = b, !.since = x].since = x
  BY DEF Week!IsRow

\* A row with another time of the clock on a side is a row.
LEMMA UpdatedIsRow ==
    ASSUME NEW r, Week!IsRow(r), NEW e \in Week!Sides, r.side[e] # Week!NoSide, NEW m
    PROVE  LET q == [[[r EXCEPT !.side[e].clock = m] EXCEPT !.side[e].time = m] EXCEPT !.since = moment]
           IN  Week!IsRow(q) /\ q.id = r.id /\ q.since = moment
<1> DEFINE f == [r.side EXCEPT ![e] = [[@ EXCEPT !.clock = m] EXCEPT !.time = m]]
           p == [r EXCEPT !.side = f]
<1>1. [[[r EXCEPT !.side[e].clock = m] EXCEPT !.side[e].time = m] EXCEPT !.since = moment]
          = [p EXCEPT !.since = moment]
  BY DEF Week!IsRow
<1>2. Alike(p, r)
  <2>1. ASSUME NEW x \in Week!Sides
        PROVE  IF r.side[x] = Week!NoSide THEN f[x] = Week!NoSide
               ELSE Week!IsSide(f[x]) /\ (f[x]).anchor = (r.side[x]).anchor
    BY DEF Week!IsRow, Week!IsSide
  <2>2. DOMAIN f = Week!Sides
    BY DEF Week!IsRow
  <2> HIDE DEF f
  <2> QED BY <2>1, <2>2, RowRedated
<1> HIDE DEF p
<1>3. [p EXCEPT !.since = moment].id = p.id
  BY <1>2 DEF Alike, Week!IsRow
<1>4. Week!IsRow([p EXCEPT !.since = moment]) /\ [p EXCEPT !.since = moment].since = moment
  <2>1. Week!IsRow(p)
    BY <1>2 DEF Alike
  <2> QED BY <2>1, RowMarked
<1>5. p.id = r.id
  BY <1>2 DEF Alike
<1> QED BY <1>1, <1>3, <1>4, <1>5

\* The rows of a plan of the menu are rows, made now.
LEMMA CompiledAreRows ==
    ASSUME NEW p \in PlanMenu, NEW r \in Week!CompiledRows(p)
    PROVE  Week!IsRow(r) /\ r.since = moment
<1>1. PICK s \in p.schedulers, relay \in p.relays :
          r \in Week!SchedulerRows(s, relay, Week!ExclusionsFor(s, p.excl, Week!DerivedExclusions(p.schedulers)))
  BY DEF Week!CompiledRows
<1>2. PICK x, d : r = Week!RowFor(s, relay, x, d)
  BY <1>1 DEF Week!SchedulerRows
<1>3. /\ s.type \in {"weekly", "once", "yearly", "holiday"} /\ s.action \in Sides
      /\ s.anchor \in {"clock"} \cup DOMAIN Zman
  BY <1>1, PlanAssumption DEF PlanAssumption, IsPlan
<1> DEFINE t == Week!SideFor(s, d)
<1>4. Week!IsSide(t)
  BY <1>3 DEF Week!IsSide, Week!SideFor
<1>5. t # Week!NoSide
  BY <1>4, SideIsThere
<1> HIDE DEF t
<1> DEFINE f == [e \in Week!Sides |-> IF e = s.action THEN t ELSE Week!NoSide]
<1>6. /\ DOMAIN f = Week!Sides
      /\ \A e \in Week!Sides : f[e] = Week!NoSide \/ Week!IsSide(f[e])
      /\ \E e \in Week!Sides : f[e] # Week!NoSide
  BY <1>3, <1>4, <1>5 DEF Week!Sides, Sides
<1>7. r = [id |-> 0, inPlan |-> TRUE, relay |-> relay, type |-> s.type, side |-> f,
           keys |-> s.keys, cal |-> s.cal, from |-> s.from, to |-> s.to,
           exclDays |-> {}, excl |-> x, enabled |-> TRUE, since |-> moment]
  BY <1>2 DEF Week!RowFor, t
<1> HIDE DEF f
<1> QED BY <1>3, <1>6, <1>7 DEF Week!IsRow

\* A schedule of the menu is a row.
LEMMA MenuIsRows == \A r \in RowMenu : Week!IsRow(r)
<1>1. \A r : IsRow(r) => Week!IsRow(r)
  BY DEF IsRow, Week!IsRow, IsSide, Week!IsSide, Sides, Week!Sides, NoSide, Week!NoSide
<1> QED BY <1>1, PlanAssumption DEF PlanAssumption

\* What is resolved and numbered is as old as what was entered.
LEMMA InsertedAreRows ==
    ASSUME NEW S, \A r \in S : Week!IsRow(r) /\ r.since = moment
    PROVE  /\ \A r \in Week!Resolved(S) : Week!IsRow(r) /\ r.since = moment
           /\ \A r \in Week!Numbered(S) : Week!IsRow(r) /\ r.since = moment
<1>1. ASSUME NEW r \in Week!Resolved(S)
      PROVE  Week!IsRow(r) /\ r.since = moment
  <2>1. PICK q \in S : r = Week!ResolveSchedule(q, moment)
    BY <1>1 DEF Week!Resolved
  <2> QED BY <2>1, ResolvedAlike DEF Alike
<1>2. ASSUME NEW r \in Week!Numbered(S)
      PROVE  Week!IsRow(r) /\ r.since = moment
  <2> DEFINE idOf == CHOOSE f \in [S -> nextRow..(nextRow + Week!Cardinality(S) - 1)] :
                          \A a, b \in S : f[a] = f[b] => a = b
  <2>1. r \in {[q EXCEPT !.id = idOf[q]] : q \in S}
    BY <1>2 DEF Week!Numbered
  <2> HIDE DEF idOf
  <2>2. PICK q \in S : \E n : r = [q EXCEPT !.id = n]
    BY <2>1
  <2>3. PICK n : r = [q EXCEPT !.id = n]
    BY <2>2
  <2>4. Week!IsRow([q EXCEPT !.id = n]) /\ [q EXCEPT !.id = n].since = q.since
    BY RowMarked
  <2> QED BY <2>3, <2>4
<1> QED BY <1>1, <1>2

-----------------------------------------------------------------------------
(* No occurrence falls between the loop and the scan *)

WeekRows ==
    /\ moment \in FirstMoment..LastMoment /\ serving \in BOOLEAN
    /\ \A r \in rows : Week!IsRow(r)

\* Rows that an edit leaves are as they were, the others begin now.
Renews == \A r \in rows' : r \in rows \/ (Week!IsRow(r) /\ r.since = moment)

LEMMA EditsRenew ==
    ASSUME WeekRows, Week!Customer
    PROVE  Renews /\ UNCHANGED <<moment, serving, handed>> /\ serving
<1> USE DEF WeekRows, Renews
<1>1. ASSUME NEW p \in PlanMenu, Week!SavePlan(p)
      PROVE  Renews
  <2>1. \A r \in Week!Resolved(Week!CompiledRows(p)) : Week!IsRow(r) /\ r.since = moment
    BY CompiledAreRows, InsertedAreRows
  <2>2. \A r \in Week!Numbered(Week!Resolved(Week!CompiledRows(p))) : Week!IsRow(r) /\ r.since = moment
    BY <2>1, InsertedAreRows
  <2>3. rows' = (rows \ Week!Members) \cup Week!Numbered(Week!Resolved(Week!CompiledRows(p)))
    BY <1>1 DEF Week!SavePlan
  <2> QED BY <2>2, <2>3
<1>2. ASSUME NEW b \in BOOLEAN, Week!SetPlanEnabled(b)
      PROVE  Renews
  <2>1. ASSUME NEW r \in rows
        PROVE  /\ Week!IsRow([r EXCEPT !.enabled = b, !.since = moment])
               /\ [r EXCEPT !.enabled = b, !.since = moment].since = moment
    <3>1. Week!IsRow(r)
      OBVIOUS
    <3> QED BY <3>1 DEF Week!IsRow
  <2>2. ASSUME NEW q \in rows', q \notin rows
        PROVE  \E r \in rows : q = [r EXCEPT !.enabled = b, !.since = moment]
    BY <1>2, <2>2 DEF Week!SetPlanEnabled, Week!Members
  <2> QED BY <2>1, <2>2
<1>3. ASSUME Week!DeletePlan
      PROVE  Renews
  BY <1>3 DEF Week!DeletePlan
<1>4. ASSUME NEW r \in RowMenu, Week!CreateSchedule(r)
      PROVE  Renews
  <2> DEFINE new == {[r EXCEPT !.since = moment]}
  <2>1. \A q \in new : Week!IsRow(q) /\ q.since = moment
    <3>1. Week!IsRow([r EXCEPT !.since = moment]) /\ [r EXCEPT !.since = moment].since = moment
      BY MenuIsRows, RowMarked
    <3> QED BY <3>1
  <2>2. rows' = rows \cup Week!Numbered(Week!Resolved(new))
    BY <1>4 DEF Week!CreateSchedule, Week!Insert
  <2> HIDE DEF new
  <2>3. \A q \in Week!Resolved(new) : Week!IsRow(q) /\ q.since = moment
    BY <2>1, InsertedAreRows
  <2>4. \A q \in Week!Numbered(Week!Resolved(new)) : Week!IsRow(q) /\ q.since = moment
    BY <2>3, InsertedAreRows
  <2> QED BY <2>2, <2>4
<1>5. ASSUME NEW r \in rows, Week!ToggleSchedule(r)
      PROVE  Renews
  <2>1. \A b : Week!IsRow([r EXCEPT !.enabled = b, !.since = moment])
               /\ [r EXCEPT !.enabled = b, !.since = moment].since = moment
    BY RowSwitched
  <2>2. \E b : rows' = (rows \ {r}) \cup {[r EXCEPT !.enabled = b, !.since = moment]}
    BY <1>5 DEF Week!ToggleSchedule
  <2> QED BY <2>1, <2>2
<1>6. ASSUME NEW r \in rows, NEW e \in Week!Sides, NEW m \in Clocks, Week!UpdateSchedule(r, e, m)
      PROVE  Renews
  <2> DEFINE q == [[[r EXCEPT !.side[e].clock = m] EXCEPT !.side[e].time = m] EXCEPT !.since = moment]
  <2>1. Week!IsRow(q) /\ q.since = moment
    BY <1>6, UpdatedIsRow DEF Week!UpdateSchedule
  <2>2. rows' = (rows \ {r}) \cup {Week!Fresh(q, moment)}
    BY <1>6 DEF Week!UpdateSchedule
  <2> HIDE DEF q
  <2>3. Alike(Week!Fresh(q, moment), q)
    BY <2>1, ResolvedAlike
  <2> QED BY <2>1, <2>2, <2>3 DEF Alike
<1>7. ASSUME NEW r \in rows, Week!DeleteSchedule(r)
      PROVE  Renews
  BY <1>7 DEF Week!DeleteSchedule
<1>8. Week!EditFrame
  BY DEF Week!Edit, Week!Wake, Week!Customer, Week!SavePlan, Week!SetPlanEnabled, Week!DeletePlan, Week!CreateSchedule,
         Week!ToggleSchedule, Week!UpdateSchedule, Week!DeleteSchedule
<1>9. Renews
  BY <1>1, <1>2, <1>3, <1>4, <1>5, <1>6, <1>7 DEF Week!Customer
<1> QED BY <1>8, <1>9 DEF Week!EditFrame

LEMMA WeekRowsStay ==
    ASSUME WeekRows, [Week!Next]_(Week!vars)
    PROVE  WeekRows'
<1> USE DEF WeekRows
<1>1. CASE Week!Customer
  BY <1>1, EditsRenew DEF Renews
<1>2. CASE Week!NextMinute
  <2>1. moment' \in FirstMoment..LastMoment /\ serving' \in BOOLEAN
    <3>1. moment < LastMoment /\ moment' = moment + 1 /\ serving' = serving
      BY <1>2 DEF Week!NextMinute, Week!Loop, Week!MinuteDown
    <3>2. {FirstMoment, LastMoment} \subseteq Nat
      BY PlanAssumption DEF PlanAssumption
    <3> QED BY <3>1, <3>2
  <2>2. CASE Week!Loop
    <3>1. PICK done : rows' = {IF Week!RefreshDue THEN Week!Refreshed(r) ELSE r : r \in rows \ done}
      BY <2>2 DEF Week!Loop
    <3>2. \A r \in rows : Week!IsRow(Week!Refreshed(r))
      BY RefreshedAlike DEF Alike
    <3> QED BY <2>1, <3>1, <3>2
  <2>3. CASE Week!MinuteDown
    BY <2>1, <2>3 DEF Week!MinuteDown
  <2> QED BY <1>2, <2>2, <2>3 DEF Week!NextMinute
<1>3. CASE Week!Crash
  BY <1>3 DEF Week!Crash
<1>4. CASE Week!StartUp
  BY <1>4 DEF Week!StartUp
<1>5. CASE Week!Sync
  BY <1>5 DEF Week!Sync
<1>6. CASE UNCHANGED Week!vars
  BY <1>6 DEF Week!vars
<1> QED BY <1>1, <1>2, <1>3, <1>4, <1>5, <1>6 DEF Week!Next

\* What is due in a span is in the list of the span.
LEMMA DueIsListed ==
    ASSUME NEW r \in rows, NEW e \in Week!Sides, NEW a, NEW b, NEW t \in a..b, Week!DueAt(r, e, t)
    PROVE  <<r.id, e, t>> \in Week!DueIn(a, b)
<1> DEFINE T(x) == {<<x.id, q[1], q[2]>> : q \in {q \in Week!Sides \X (a..b) : Week!DueAt(x, q[1], q[2])}}
<1>1. Week!DueIn(a, b) = UNION {T(x) : x \in rows}
  BY DEF Week!DueIn
<1>2. <<r.id, e, t>> \in T(r)
  <2> DEFINE q == <<e, t>>
  <2>1. q \in Week!Sides \X (a..b) /\ q[1] = e /\ q[2] = t
    OBVIOUS
  <2> QED BY <2>1
<1> HIDE DEF T
<1> QED BY <1>1, <1>2

LEMMA NothingMissedStays ==
    ASSUME WeekRows, Week!NothingIsMissed, [Week!Next]_(Week!vars)
    PROVE  Week!NothingIsMissed'
<1> USE DEF Week!NothingIsMissed
<1>0. {moment, Grace, ScanWindow} \subseteq Int /\ Grace \in Nat
  BY PlanAssumption DEF WeekRows, PlanAssumption
<1>1. CASE Week!Customer
  <2>1. Renews /\ UNCHANGED <<moment, serving, handed>> /\ serving
    BY <1>1, EditsRenew
  <2> SUFFICES ASSUME NEW r \in rows', NEW e \in Week!Sides,
                      NEW t \in (moment - ScanWindow)..(moment - Grace - 1),
                      ~Week!ToRefresh(r), r.since <= t, Week!DueAt(r, e, t)
               PROVE  <<r.id, e, t>> \in handed
    BY <2>1
  <2>2. r \in rows
    BY <1>0, <2>1 DEF Renews
  <2> QED BY <2>1, <2>2
<1>2. CASE Week!Loop
  <2>1. moment' = moment + 1 /\ serving /\ serving' = serving
    BY <1>2 DEF Week!Loop
  <2> DEFINE last == moment' - Grace - 1
  <2>2. handed' = {q \in handed : q[3] >= moment' - ScanWindow} \cup Week!DueIn(last, last)
    BY <1>2 DEF Week!Loop
  <2> SUFFICES ASSUME NEW q \in rows', NEW e \in Week!Sides, NEW t \in (moment' - ScanWindow)..last,
                      ~Week!ToRefresh(q), q.since <= t, Week!DueAt(q, e, t)
               PROVE  <<q.id, e, t>> \in handed'
    OBVIOUS
  <2>3. q \in rows
    <3>1. PICK done : rows' = {IF Week!RefreshDue THEN Week!Refreshed(r) ELSE r : r \in rows \ done}
      BY <1>2 DEF Week!Loop
    <3>2. PICK r \in rows : q = Week!Refreshed(r) \/ q = r
      BY <3>1
    <3> QED BY <3>2, RefreshedAlike DEF WeekRows
  <2>4. CASE t = last
    <3>1. t \in last..last
      BY <1>0, <2>1, <2>4
    <3> QED BY <2>2, <2>3, <3>1, DueIsListed
  <2>5. CASE t # last
    <3>1. t \in (moment - ScanWindow)..(moment - Grace - 1) /\ t >= moment' - ScanWindow
      BY <1>0, <2>1, <2>5
    <3>2. <<q.id, e, t>> \in handed
      BY <2>1, <2>3, <3>1
    <3> QED BY <2>2, <3>1, <3>2
  <2> QED BY <2>4, <2>5
<1>3. CASE Week!MinuteDown
  BY <1>3 DEF Week!MinuteDown
<1>4. CASE Week!Crash
  BY <1>4 DEF Week!Crash
<1>5. CASE Week!StartUp
  <2>1. UNCHANGED <<moment, rows>>
    BY <1>5 DEF Week!StartUp
  <2>2. handed' = handed \cup Week!DueIn(moment - Grace - ScanWindow, moment - Grace - 1)
    BY <1>5 DEF Week!StartUp, Week!ScanEnd
  <2> SUFFICES ASSUME NEW r \in rows, NEW e \in Week!Sides,
                      NEW t \in (moment - ScanWindow)..(moment - Grace - 1), Week!DueAt(r, e, t)
               PROVE  <<r.id, e, t>> \in handed'
    BY <2>1
  <2>3. t \in (moment - Grace - ScanWindow)..(moment - Grace - 1)
    BY <1>0
  <2> QED BY <2>2, <2>3, DueIsListed
<1>6. CASE Week!Sync
  BY <1>6 DEF Week!Sync
<1>7. CASE UNCHANGED Week!vars
  BY <1>7 DEF Week!vars
<1> QED BY <1>1, <1>2, <1>3, <1>4, <1>5, <1>6, <1>7 DEF Week!Next, Week!NextMinute

LEMMA WeekInit ==
    ASSUME Week!Init
    PROVE  WeekRows /\ Week!NothingIsMissed
  BY PlanAssumption DEF PlanAssumption, Week!Init, WeekRows, Week!NothingIsMissed

\* A step of a week is a step of module Plans, or none.
LEMMA WeekStep ==
    ASSUME [PartsNext]_allVars
    PROVE  (part = "week")' => part = "week" /\ [Week!Next]_(Week!vars)
  BY DEF PartsNext, allVars, weekVars, Week!vars, Week!unitVars

\* Across crashes and start-ups every occurrence of a schedule that the refresh
\* does not move, due since the schedule is as it is, comes to the loop of the
\* minutes or to the start-up scan (scheduler/tick.js): they leave no minute out.
THEOREM NoneFallsBetween == PartsSpec => []NothingIsMissed
<1> DEFINE Inv == part = "week" => WeekRows /\ Week!NothingIsMissed
<1>1. PartsInit => Inv
  BY WeekInit DEF PartsInit
<1>2. Inv /\ [PartsNext]_allVars => Inv'
  <2> SUFFICES ASSUME Inv, [PartsNext]_allVars, (part = "week")'
               PROVE  WeekRows' /\ Week!NothingIsMissed'
    OBVIOUS
  <2>1. WeekRows /\ Week!NothingIsMissed /\ [Week!Next]_(Week!vars)
    BY WeekStep
  <2> QED BY <2>1, WeekRowsStay, NothingMissedStays
<1>3. Inv => NothingIsMissed
  BY DEF NothingIsMissed
<1> QED BY <1>1, <1>2, <1>3, PTL DEF PartsSpec

-----------------------------------------------------------------------------
(* The ids of the rows *)

\* The image of a finite set under a function of it is finite.
LEMMA FiniteRange ==
    ASSUME NEW S, IsFiniteSet(S), NEW f, NEW T, f \in [S -> T], \A y \in T : \E x \in S : f[x] = y
    PROVE  IsFiniteSet(T)
<1>1. f \in Surjection(S, T)
  BY DEF Surjection
<1> QED BY <1>1, FS_Surjection

LEMMA SchedulerRowsFinite ==
    ASSUME NEW s, NEW relay, NEW x, IsFiniteSet(s.days)
    PROVE  IsFiniteSet(Week!SchedulerRows(s, relay, x))
<1> DEFINE T == {Week!RowFor(s, relay, x, d) : d \in s.days}
           f == [d \in s.days |-> Week!RowFor(s, relay, x, d)]
<1>1. f \in [s.days -> T] /\ \A y \in T : \E d \in s.days : f[d] = y
  OBVIOUS
<1>2. IsFiniteSet(T)
  <2> HIDE DEF f, T
  <2> QED BY <1>1, FiniteRange
<1>3. IsFiniteSet({Week!RowFor(s, relay, x, 0)})
  BY FS_Singleton
<1> QED BY <1>2, <1>3 DEF Week!SchedulerRows

LEMMA CompiledFinite ==
    ASSUME NEW p \in PlanMenu
    PROVE  IsFiniteSet(Week!CompiledRows(p))
<1> DEFINE R(s, relay) ==
               Week!SchedulerRows(s, relay, Week!ExclusionsFor(s, p.excl, Week!DerivedExclusions(p.schedulers)))
           A == p.schedulers \X p.relays
           T == {R(s, relay) : s \in p.schedulers, relay \in p.relays}
           f == [q \in A |-> R(q[1], q[2])]
<1>1. IsPlan(p)
  BY PlanAssumption DEF PlanAssumption
<1>2. IsFiniteSet(A)
  BY <1>1, FS_Product DEF IsPlan
<1>3. \A y \in T : IsFiniteSet(y)
  BY <1>1, SchedulerRowsFinite DEF IsPlan
<1>4. IsFiniteSet(T)
  <2>1. f \in [A -> T]
    OBVIOUS
  <2>2. ASSUME NEW y \in T
        PROVE  \E q \in A : f[q] = y
    <3>1. PICK s \in p.schedulers, relay \in p.relays : y = R(s, relay)
      OBVIOUS
    <3>2. <<s, relay>> \in A /\ f[<<s, relay>>] = y
      BY <3>1
    <3> QED BY <3>2
  <2> HIDE DEF f, A, T
  <2> QED BY <1>2, <2>1, <2>2, FiniteRange
<1>5. Week!CompiledRows(p) = UNION T
  BY DEF Week!CompiledRows
<1> HIDE DEF T
<1> QED BY <1>3, <1>4, <1>5, FS_UNION

LEMMA ResolvedFinite ==
    ASSUME NEW S, IsFiniteSet(S)
    PROVE  IsFiniteSet(Week!Resolved(S))
<1> DEFINE T == Week!Resolved(S)
           f == [r \in S |-> Week!ResolveSchedule(r, moment)]
<1>1. f \in [S -> T] /\ \A y \in T : \E r \in S : f[r] = y
  BY DEF Week!Resolved
<1> HIDE DEF f
<1> QED BY <1>1, FiniteRange

\* There are numbers enough: n elements get n numbers, each its own.
LEMMA NumbersSuffice ==
    ASSUME NEW S, IsFiniteSet(S), NEW k \in Nat, NEW n, n = Cardinality(S)
    PROVE  n \in Nat /\ \E f \in [S -> k..(k + n - 1)] : \A x, y \in S : f[x] = f[y] => x = y
<1>1. n \in Nat /\ ExistsBijection(1..n, S)
  BY FS_CardinalityType
<1>2. PICK g \in [1..n -> S] : \A y \in S : \E i \in 1..n : g[i] = y
  BY <1>1 DEF ExistsBijection, Bijection, Surjection
<1> DEFINE h == [y \in S |-> CHOOSE i \in 1..n : g[i] = y]
           f == [y \in S |-> k + h[y] - 1]
<1>3. \A y \in S : h[y] \in 1..n /\ g[h[y]] = y
  BY <1>2
<1> HIDE DEF h
<1>4. f \in [S -> k..(k + n - 1)]
  BY <1>1, <1>3
<1>5. ASSUME NEW x \in S, NEW y \in S, f[x] = f[y]
      PROVE  x = y
  <2>1. h[x] = h[y]
    BY <1>3, <1>5
  <2> QED BY <1>3, <2>1
<1> HIDE DEF f
<1> QED BY <1>1, <1>4, <1>5

\* New rows get the next ids, each its own.
LEMMA NumberedIds ==
    ASSUME NEW S, IsFiniteSet(S), \A r \in S : Week!IsRow(r), nextRow \in Nat
    PROVE  /\ Week!Cardinality(S) \in Nat
           /\ \A r \in Week!Numbered(S) : r.id \in nextRow..(nextRow + Week!Cardinality(S) - 1)
           /\ \A r, s \in Week!Numbered(S) : r.id = s.id => r = s
<1> DEFINE n == Week!Cardinality(S)
           Fits(f) == \A r, s \in S : f[r] = f[s] => r = s
           idOf == CHOOSE f \in [S -> nextRow..(nextRow + n - 1)] : Fits(f)
<1>1. n = Cardinality(S)
  BY SameCardinality
<1>2. Week!Numbered(S) = {[r EXCEPT !.id = idOf[r]] : r \in S}
  BY DEF Week!Numbered
<1> HIDE DEF n
<1>3. n \in Nat /\ \E f \in [S -> nextRow..(nextRow + n - 1)] : Fits(f)
  BY <1>1, NumbersSuffice
<1> HIDE DEF Fits
<1>4. idOf \in [S -> nextRow..(nextRow + n - 1)] /\ Fits(idOf)
  BY <1>3
<1> HIDE DEF idOf
<1>5. \A r \in S : [r EXCEPT !.id = idOf[r]].id = idOf[r]
  BY DEF Week!IsRow
<1>6. \A r \in Week!Numbered(S) : r.id \in nextRow..(nextRow + n - 1)
  BY <1>2, <1>4, <1>5
<1>7. ASSUME NEW a \in Week!Numbered(S), NEW b \in Week!Numbered(S), a.id = b.id
      PROVE  a = b
  <2>1. PICK r \in S : a = [r EXCEPT !.id = idOf[r]]
    BY <1>2
  <2>2. PICK s \in S : b = [s EXCEPT !.id = idOf[s]]
    BY <1>2
  <2>3. idOf[r] = idOf[s]
    BY <1>5, <1>7, <2>1, <2>2
  <2> QED BY <1>4, <2>1, <2>2, <2>3 DEF Fits
<1> QED BY <1>3, <1>6, <1>7 DEF n

-----------------------------------------------------------------------------
(* The values of the variables *)

\* The type invariant of the schedules, with what it needs to be inductive.
IdsAreOwn == \A r, s \in rows : r.id = s.id => r = s
WeekTypes ==
    /\ WeekRows
    /\ behind \in BOOLEAN
    /\ refreshed \in {NoDay} \cup (0..Week!DayOf(LastMoment))
    /\ nextRow \in Nat \ {0}
    /\ \A r \in rows : r.id \in 1..(nextRow - 1) /\ r.since \in Int /\ r.since <= moment
    /\ IdsAreOwn
    /\ \A q \in handed : q[1] \in Int /\ q[1] < nextRow /\ q[3] \in Int /\ q[3] <= moment - Grace - 1
    /\ asleep \subseteq 1..(nextRow - 1)

\* What an edit does to the ids: old rows keep theirs, new rows get the next.
Renumbers ==
    /\ nextRow' \in Nat /\ nextRow' >= nextRow
    /\ \A r \in rows' :
        \/ \E q \in rows : r.id = q.id
        \/ r.id \in nextRow..(nextRow' - 1)
    /\ IdsAreOwn'

\* Rows go, and new ones are inserted.
LEMMA InsertRenumbers ==
    ASSUME WeekTypes, NEW S, IsFiniteSet(S), \A r \in S : Week!IsRow(r), NEW gone,
           rows' = (rows \ gone) \cup Week!Numbered(S), nextRow' = nextRow + Week!Cardinality(S)
    PROVE  Renumbers
<1> USE DEF WeekTypes
<1> DEFINE new == Week!Numbered(S)
           n == Week!Cardinality(S)
<1>1. /\ n \in Nat
      /\ \A r \in new : r.id \in nextRow..(nextRow + n - 1)
      /\ \A r, s \in new : r.id = s.id => r = s
  BY NumberedIds
<1>2. rows' = (rows \ gone) \cup new /\ nextRow' = nextRow + n
  OBVIOUS
<1> HIDE DEF new, n
<1>3. IdsAreOwn'
  <2> SUFFICES ASSUME NEW r \in rows', NEW s \in rows', r.id = s.id
               PROVE  r = s
    BY DEF IdsAreOwn
  <2>1. \A q \in rows : q.id \in 1..(nextRow - 1)
    OBVIOUS
  <2>2. CASE r \in new /\ s \in new
    BY <1>1, <2>2
  <2>3. CASE r \in rows /\ s \in rows
    BY <2>3 DEF IdsAreOwn
  <2>4. CASE r \in new /\ s \in rows
    BY <1>1, <2>1, <2>4
  <2>5. CASE r \in rows /\ s \in new
    BY <1>1, <2>1, <2>5
  <2> QED BY <1>2, <2>2, <2>3, <2>4, <2>5
<1>4. nextRow' \in Nat /\ nextRow' >= nextRow
  BY <1>1, <1>2
<1>5. ASSUME NEW r \in rows'
      PROVE  (\E q \in rows : r.id = q.id) \/ r.id \in nextRow..(nextRow' - 1)
  BY <1>1, <1>2
<1> QED BY <1>3, <1>4, <1>5 DEF Renumbers

\* A row is replaced by one of the same id, or goes.
LEMMA ReplaceRenumbers ==
    ASSUME WeekTypes, NEW r \in rows, NEW q, q.id = r.id, nextRow' = nextRow,
           rows' = (rows \ {r}) \cup {q} \/ rows' = rows \ {r}
    PROVE  Renumbers
<1> USE DEF WeekTypes
<1>1. IdsAreOwn'
  BY DEF IdsAreOwn
<1> QED BY <1>1 DEF Renumbers

LEMMA EditsRenumber ==
    ASSUME WeekTypes, Week!Customer
    PROVE  Renumbers
<1> USE DEF WeekTypes, WeekRows
<1>1. ASSUME NEW p \in PlanMenu, Week!SavePlan(p)
      PROVE  Renumbers
  <2> DEFINE S == Week!Resolved(Week!CompiledRows(p))
  <2>1. IsFiniteSet(S) /\ \A r \in S : Week!IsRow(r)
    BY CompiledFinite, ResolvedFinite, CompiledAreRows, InsertedAreRows
  <2>2. rows' = (rows \ Week!Members) \cup Week!Numbered(S) /\ nextRow' = nextRow + Week!Cardinality(S)
    BY <1>1 DEF Week!SavePlan
  <2> HIDE DEF S
  <2> QED BY <2>1, <2>2, InsertRenumbers
<1>2. ASSUME NEW b \in BOOLEAN, Week!SetPlanEnabled(b)
      PROVE  Renumbers
  <2> DEFINE F(r) == [r EXCEPT !.enabled = b, !.since = moment]
  <2>1. rows' = (rows \ Week!Members) \cup {F(r) : r \in Week!Members} /\ nextRow' = nextRow
    BY <1>2 DEF Week!SetPlanEnabled
  <2>2. \A r \in rows : F(r).id = r.id
    BY DEF Week!IsRow
  <2>3. Week!Members \subseteq rows
    BY DEF Week!Members
  <2> HIDE DEF F
  <2>4. ASSUME NEW q \in rows'
        PROVE  \E r \in rows : q.id = r.id /\ (IF r \in Week!Members THEN q = F(r) ELSE q = r)
    BY <2>1, <2>2, <2>3
  <2>5. IdsAreOwn'
    <3> SUFFICES ASSUME NEW q \in rows', NEW s \in rows', q.id = s.id
                 PROVE  q = s
      BY DEF IdsAreOwn
    <3>1. PICK a \in rows : q.id = a.id /\ (IF a \in Week!Members THEN q = F(a) ELSE q = a)
      BY <2>4
    <3>2. PICK c \in rows : s.id = c.id /\ (IF c \in Week!Members THEN s = F(c) ELSE s = c)
      BY <2>4
    <3>3. a = c
      BY <3>1, <3>2 DEF IdsAreOwn
    <3> QED BY <3>1, <3>2, <3>3
  <2> QED BY <2>1, <2>4, <2>5 DEF Renumbers
<1>3. ASSUME Week!DeletePlan
      PROVE  Renumbers
  BY <1>3 DEF Week!DeletePlan, Renumbers, IdsAreOwn
<1>4. ASSUME NEW r \in RowMenu, Week!CreateSchedule(r)
      PROVE  Renumbers
  <2> DEFINE new == {[r EXCEPT !.since = moment]}
             S == Week!Resolved(new)
  <2>1. \A q \in new : Week!IsRow(q) /\ q.since = moment
    <3>1. Week!IsRow([r EXCEPT !.since = moment]) /\ [r EXCEPT !.since = moment].since = moment
      BY MenuIsRows, RowMarked
    <3> QED BY <3>1
  <2>2. IsFiniteSet(new)
    BY FS_Singleton
  <2>3. rows' = rows \cup Week!Numbered(S) /\ nextRow' = nextRow + Week!Cardinality(S)
    BY <1>4 DEF Week!CreateSchedule, Week!Insert
  <2> HIDE DEF new
  <2>4. IsFiniteSet(S) /\ \A q \in S : Week!IsRow(q)
    BY <2>1, <2>2, InsertedAreRows, ResolvedFinite
  <2>5. rows' = (rows \ {}) \cup Week!Numbered(S)
    BY <2>3
  <2> HIDE DEF S
  <2> QED BY <2>3, <2>4, <2>5, InsertRenumbers
<1>5. ASSUME NEW r \in rows, Week!ToggleSchedule(r)
      PROVE  Renumbers
  <2>1. \A b : [r EXCEPT !.enabled = b, !.since = moment].id = r.id
    BY DEF Week!IsRow
  <2>2. PICK b : rows' = (rows \ {r}) \cup {[r EXCEPT !.enabled = b, !.since = moment]}
    BY <1>5 DEF Week!ToggleSchedule
  <2>3. nextRow' = nextRow
    BY <1>5 DEF Week!ToggleSchedule
  <2> QED BY <2>1, <2>2, <2>3, ReplaceRenumbers
<1>6. ASSUME NEW r \in rows, NEW e \in Week!Sides, NEW m \in Clocks, Week!UpdateSchedule(r, e, m)
      PROVE  Renumbers
  <2> DEFINE q == [[[r EXCEPT !.side[e].clock = m] EXCEPT !.side[e].time = m] EXCEPT !.since = moment]
  <2>1. Week!IsRow(q) /\ q.id = r.id
    BY <1>6, UpdatedIsRow DEF Week!UpdateSchedule
  <2>2. rows' = (rows \ {r}) \cup {Week!Fresh(q, moment)} /\ nextRow' = nextRow
    BY <1>6 DEF Week!UpdateSchedule
  <2> HIDE DEF q
  <2>3. Week!Fresh(q, moment).id = r.id
    BY <2>1, ResolvedAlike DEF Alike
  <2> QED BY <2>2, <2>3, ReplaceRenumbers
<1>7. ASSUME NEW r \in rows, Week!DeleteSchedule(r)
      PROVE  Renumbers
  <2>1. rows' = rows \ {r} /\ nextRow' = nextRow
    BY <1>7 DEF Week!DeleteSchedule
  <2> QED BY <2>1, ReplaceRenumbers
<1> QED BY <1>1, <1>2, <1>3, <1>4, <1>5, <1>6, <1>7 DEF Week!Customer

\* The day of a later moment is no earlier day.
LEMMA DayGrows ==
    ASSUME NEW a \in Nat, NEW b \in Nat, a <= b
    PROVE  Week!DayOf(a) \in 0..Week!DayOf(b)
<1> DEFINE p == a \div DayLen
           q == b \div DayLen
<1>1. DayLen \in Nat \ {0}
  BY PlanAssumption DEF PlanAssumption
<1>2. p \in Int /\ q \in Int /\ p >= 0
  BY <1>1
<1>3. a = DayLen * p + (a % DayLen) /\ a % DayLen \in 0..(DayLen - 1)
  BY <1>1
<1>4. b = DayLen * q + (b % DayLen) /\ b % DayLen \in 0..(DayLen - 1)
  BY <1>1
<1> HIDE DEF p, q
<1>5. ASSUME q < p
      PROVE  FALSE
  <2>1. DayLen * (q + 1) <= DayLen * p
    BY <1>1, <1>2, <1>5
  <2>2. DayLen * (q + 1) = DayLen * q + DayLen
    BY <1>1, <1>2
  <2>3. DayLen * p \in Int /\ DayLen * q \in Int
    BY <1>1, <1>2
  <2> QED BY <1>1, <1>3, <1>4, <2>1, <2>2, <2>3
<1> QED BY <1>2, <1>5 DEF p, q, Week!DayOf

LEMMA ListIsOfRows ==
    ASSUME NEW a, NEW b, NEW q \in Week!DueIn(a, b)
    PROVE  q[3] \in a..b /\ \E r \in rows : q[1] = r.id
<1> DEFINE T(x) == {<<x.id, p[1], p[2]>> : p \in {p \in Week!Sides \X (a..b) : Week!DueAt(x, p[1], p[2])}}
<1>1. Week!DueIn(a, b) = UNION {T(x) : x \in rows}
  BY DEF Week!DueIn
<1>2. PICK r \in rows : q \in T(r)
  <2> HIDE DEF T
  <2> QED BY <1>1
<1>3. PICK p \in Week!Sides \X (a..b) : q = <<r.id, p[1], p[2]>>
  BY <1>2
<1> QED BY <1>3

LEMMA WeekTypesStay ==
    ASSUME WeekTypes, [Week!Next]_(Week!vars)
    PROVE  WeekTypes'
<1> USE DEF WeekTypes
<1>0. WeekRows'
  BY WeekRowsStay
<1>a. {FirstMoment, LastMoment, Grace, ScanWindow, moment, moment'} \subseteq Nat
  BY <1>0, PlanAssumption DEF PlanAssumption, WeekRows
<1>1. CASE Week!Customer
  <2>1. Renews /\ UNCHANGED <<moment, handed>>
    BY <1>1, EditsRenew
  <2>2. Renumbers
    BY <1>1, EditsRenumber
  <2>3. Week!EditFrame
    BY <1>1 DEF Week!Edit, Week!Wake, Week!Customer, Week!SavePlan, Week!SetPlanEnabled, Week!DeletePlan, Week!CreateSchedule,
                Week!ToggleSchedule, Week!UpdateSchedule, Week!DeleteSchedule
  <2>4. behind' \in BOOLEAN /\ refreshed' = refreshed
    BY <2>3 DEF Week!EditFrame
  <2>5. ASSUME NEW r \in rows'
        PROVE  r.id \in 1..(nextRow' - 1) /\ r.since \in Int /\ r.since <= moment'
    <3>1. r.id \in 1..(nextRow' - 1)
      BY <2>2 DEF Renumbers
    <3>2. r.since \in Int /\ r.since <= moment
      BY <1>a, <2>1 DEF Renews
    <3> QED BY <2>1, <3>1, <3>2
  <2>6. nextRow' \in Nat \ {0} /\ nextRow' >= nextRow
    BY <2>2 DEF Renumbers
  <2>7. \A q \in handed' : q[1] \in Int /\ q[1] < nextRow' /\ q[3] \in Int /\ q[3] <= moment' - Grace - 1
    BY <2>1, <2>6
  <2>8. asleep' \subseteq asleep
    BY <1>1 DEF Week!Customer, Week!SavePlan, Week!SetPlanEnabled, Week!DeletePlan, Week!CreateSchedule,
                Week!ToggleSchedule, Week!UpdateSchedule, Week!DeleteSchedule
  <2>9. asleep' \subseteq 1..(nextRow' - 1)
    <3>1. asleep \subseteq 1..(nextRow - 1) /\ nextRow \in Nat
      OBVIOUS
    <3>2. ASSUME NEW a \in Nat, NEW b \in Nat, b >= a
          PROVE  1..(a - 1) \subseteq 1..(b - 1)
      BY <3>2
    <3> QED BY <2>6, <2>8, <3>1, <3>2
  <2> QED BY <1>0, <2>2, <2>4, <2>5, <2>6, <2>7, <2>9 DEF Renumbers
<1>2. CASE Week!Loop
  <2>1. moment' = moment + 1 /\ nextRow' = nextRow
    BY <1>2 DEF Week!Loop
  <2>2. behind' \in BOOLEAN
    BY <1>2 DEF Week!Loop
  <2>3. refreshed' \in {NoDay} \cup (0..Week!DayOf(LastMoment))
    <3>1. Week!DayOf(moment') \in 0..Week!DayOf(LastMoment)
      BY <1>0, <1>a, DayGrows DEF WeekRows
    <3> QED BY <1>2, <3>1 DEF Week!Loop
  <2>4. PICK done : rows' = {IF Week!RefreshDue THEN Week!Refreshed(r) ELSE r : r \in rows \ done}
    BY <1>2 DEF Week!Loop
  <2> DEFINE F(r) == IF Week!RefreshDue THEN Week!Refreshed(r) ELSE r
  <2>5. \A r \in rows : F(r).id = r.id /\ F(r).since = r.since
    BY RefreshedAlike DEF Alike, WeekRows
  <2>6. \A q \in rows' : \E r \in rows : q = F(r)
    BY <2>4
  <2> HIDE DEF F
  <2>7. ASSUME NEW q \in rows'
        PROVE  q.id \in 1..(nextRow' - 1) /\ q.since \in Int /\ q.since <= moment'
    <3>1. PICK r \in rows : q = F(r)
      BY <2>6
    <3>2. r.id \in 1..(nextRow - 1) /\ r.since \in Int /\ r.since <= moment
      OBVIOUS
    <3>3. q.id = r.id /\ q.since = r.since
      BY <2>5, <3>1
    <3> QED BY <1>a, <2>1, <3>2, <3>3
  <2>8. IdsAreOwn'
    <3> SUFFICES ASSUME NEW p \in rows', NEW q \in rows', p.id = q.id
                 PROVE  p = q
      BY DEF IdsAreOwn
    <3>1. PICK r \in rows : p = F(r)
      BY <2>6
    <3>2. PICK s \in rows : q = F(s)
      BY <2>6
    <3>3. r = s
      BY <2>5, <3>1, <3>2 DEF IdsAreOwn
    <3> QED BY <3>1, <3>2, <3>3
  <2>9. ASSUME NEW q \in handed'
        PROVE  q[1] \in Int /\ q[1] < nextRow' /\ q[3] \in Int /\ q[3] <= moment' - Grace - 1
    <3>1. CASE q \in handed
      BY <1>a, <2>1, <3>1
    <3>2. CASE q \in Week!DueIn(moment' - Grace - 1, moment' - Grace - 1)
      <4>1. q[3] \in (moment' - Grace - 1)..(moment' - Grace - 1) /\ \E r \in rows : q[1] = r.id
        BY <3>2, ListIsOfRows
      <4>2. \A r \in rows : r.id \in 1..(nextRow - 1)
        OBVIOUS
      <4> QED BY <1>a, <2>1, <4>1, <4>2
    <3> QED BY <1>2, <3>1, <3>2 DEF Week!Loop
  <2>10. asleep' \subseteq 1..(nextRow' - 1)
    BY <1>2, <2>1, <2>7 DEF Week!Loop
  <2> QED BY <1>0, <2>1, <2>2, <2>3, <2>7, <2>8, <2>9, <2>10
<1>3. CASE Week!MinuteDown
  <2>1. moment' = moment + 1 /\ UNCHANGED <<behind, refreshed, rows, nextRow, handed, asleep>>
    BY <1>3 DEF Week!MinuteDown, Week!unitVars
  <2> QED BY <1>0, <1>a, <2>1 DEF IdsAreOwn
<1>4. CASE Week!Crash
  <2>1. UNCHANGED <<moment, behind, refreshed, rows, nextRow, handed, asleep>>
    BY <1>4 DEF Week!Crash, Week!unitVars
  <2> QED BY <1>0, <2>1 DEF IdsAreOwn
<1>5. CASE Week!StartUp
  <2>1. UNCHANGED <<moment, rows, nextRow, asleep>> /\ refreshed' = NoDay
    BY <1>5 DEF Week!StartUp
  <2>2. behind' \in BOOLEAN
    BY <1>5 DEF Week!StartUp
  <2>3. ASSUME NEW q \in handed'
        PROVE  q[1] \in Int /\ q[1] < nextRow' /\ q[3] \in Int /\ q[3] <= moment' - Grace - 1
    <3>1. CASE q \in handed
      BY <2>1, <3>1
    <3>2. CASE q \in Week!DueIn(moment - Grace - ScanWindow, moment - Grace - 1)
      <4>1. q[3] \in (moment - Grace - ScanWindow)..(moment - Grace - 1) /\ \E r \in rows : q[1] = r.id
        BY <3>2, ListIsOfRows
      <4>2. \A r \in rows : r.id \in 1..(nextRow - 1)
        OBVIOUS
      <4> QED BY <1>a, <2>1, <4>1, <4>2
    <3> QED BY <1>5, <3>1, <3>2 DEF Week!StartUp, Week!ScanEnd
  <2> QED BY <1>0, <2>1, <2>2, <2>3 DEF IdsAreOwn
<1>6. CASE Week!Sync
  <2>1. UNCHANGED <<moment, refreshed, rows, nextRow, handed, asleep>> /\ behind' \in BOOLEAN
    BY <1>6 DEF Week!Sync
  <2> QED BY <1>0, <2>1 DEF IdsAreOwn
<1>7. CASE UNCHANGED Week!vars
  <2>1. UNCHANGED <<moment, behind, refreshed, rows, nextRow, handed, asleep>>
    BY <1>7 DEF Week!vars, Week!unitVars
  <2> QED BY <1>0, <2>1 DEF IdsAreOwn
<1> QED BY <1>1, <1>2, <1>3, <1>4, <1>5, <1>6, <1>7 DEF Week!Next, Week!NextMinute

LEMMA NetTypesKept == part = "net" /\ PartsSpec => []TypesOK
<1>1. NetProofs!Spec => []NetProofs!TypeOK
  BY NetProofs!NetTypes, NetAssumption
<1>2. part = "net" /\ NetProofs!TypeOK => TypesOK
  BY DEF TypesOK, Net!TypeOK, NetProofs!TypeOK, Net!Readings, NetProofs!Readings, Net!Never, NetProofs!Never
<1> QED BY <1>1, <1>2, NetSteps, NetIsNet, PTL

LEMMA FleetTypesKept == part = "fleet" /\ PartsSpec => []TypesOK
<1>1. PartsInit => Init
  BY DEF PartsInit
<1>2. [PartsNext]_allVars => [Next]_vars
  BY DEF PartsNext, allVars, fleetVars, vars, unit, process, stored
<1>3. part = "fleet" /\ [PartsNext]_allVars => (part = "fleet")'
  BY DEF PartsNext, allVars
<1>4. part = "fleet" /\ TypeOK => TypesOK
  BY DEF TypesOK
<1> QED BY <1>1, <1>2, <1>3, <1>4, FleetTypes, PTL DEF PartsSpec, Spec

LEMMA WeekTypesKept == part = "week" /\ PartsSpec => []TypesOK
<1> DEFINE Inv == part = "week" /\ WeekTypes
<1>1. part = "week" /\ PartsInit => Inv
  <2>1. part = "week" /\ PartsInit => Week!Init
    BY DEF PartsInit
  <2>2. Week!Init => WeekTypes
    <3> SUFFICES ASSUME Week!Init PROVE WeekTypes
      OBVIOUS
    <3>1. WeekRows
      BY WeekInit
    <3>2. /\ rows = {} /\ handed = {} /\ asleep = {}
          /\ behind \in BOOLEAN /\ refreshed = NoDay /\ nextRow = 1
      BY DEF Week!Init
    <3> QED BY <3>1, <3>2 DEF WeekTypes, IdsAreOwn
  <2> QED BY <2>1, <2>2
<1>2. Inv /\ [PartsNext]_allVars => Inv'
  <2>1. part = "week" /\ [PartsNext]_allVars => (part = "week")' /\ [Week!Next]_(Week!vars)
    BY DEF PartsNext, allVars, weekVars, Week!vars, Week!unitVars
  <2> QED BY <2>1, WeekTypesStay
<1>3. Inv => TypesOK
  <2>1. WeekTypes => Week!TypeOK
    BY DEF WeekTypes, WeekRows, IdsAreOwn, Week!TypeOK
  <2> QED BY <2>1 DEF TypesOK
<1> QED BY <1>1, <1>2, <1>3, PTL DEF PartsSpec

\* Every variable of every part has a value of its kind; no two schedules have
\* the same id, and nothing is handed over before its minute is due
\* (services/schedules.js, insertScheduleRow; scheduler/tick.js).
THEOREM TypesKept == PartsSpec => []TypesOK
<1>1. PartsInit => part = "net" \/ part = "fleet" \/ part = "week"
  BY DEF PartsInit
<1> QED BY <1>1, NetTypesKept, FleetTypesKept, WeekTypesKept, PTL DEF PartsSpec

-----------------------------------------------------------------------------
(* Days and minutes *)

LEMMA DivisionIsUnique ==
    ASSUME NEW a \in Nat, NEW d \in Nat \ {0}, NEW q \in Nat, NEW x \in 0..(d - 1), a = d * q + x
    PROVE  a \div d = q /\ a % d = x
<1> DEFINE p == a \div d
           y == a % d
<1>1. p \in Int /\ y \in 0..(d - 1) /\ a = d * p + y
  OBVIOUS
<1> HIDE DEF p, y
<1>2. ASSUME p < q
      PROVE  FALSE
  <2>1. d * (p + 1) <= d * q
    BY <1>1, <1>2
  <2>2. d * (p + 1) = d * p + d /\ d * p \in Int /\ d * q \in Int
    BY <1>1
  <2> QED BY <1>1, <2>1, <2>2
<1>3. ASSUME q < p
      PROVE  FALSE
  <2>1. d * (q + 1) <= d * p
    BY <1>1, <1>3
  <2>2. d * (q + 1) = d * q + d /\ d * p \in Int /\ d * q \in Int
    BY <1>1
  <2> QED BY <1>1, <2>1, <2>2
<1>4. p = q
  BY <1>1, <1>2, <1>3
<1>5. y = x
  <2>1. d * q \in Int
    OBVIOUS
  <2> QED BY <1>1, <1>4, <2>1
<1> QED BY <1>4, <1>5 DEF p, y

LEMMA DayAndMinute ==
    ASSUME NEW m \in Nat
    PROVE  /\ Week!DayOf(m) \in Nat /\ Week!MinuteOf(m) \in 0..(DayLen - 1)
           /\ m = DayLen * Week!DayOf(m) + Week!MinuteOf(m)
<1>1. DayLen \in Nat \ {0}
  BY PlanAssumption DEF PlanAssumption
<1>2. m \div DayLen \in Nat
  BY <1>1
<1>3. m % DayLen \in 0..(DayLen - 1) /\ m = DayLen * (m \div DayLen) + (m % DayLen)
  BY <1>1
<1> QED BY <1>2, <1>3 DEF Week!DayOf, Week!MinuteOf

\* A minute later it is the next minute of the day, or the first of the next day.
LEMMA MinuteLater ==
    ASSUME NEW m \in Nat
    PROVE  \/ Week!DayOf(m + 1) = Week!DayOf(m)
           \/ Week!DayOf(m + 1) = Week!DayOf(m) + 1 /\ Week!MinuteOf(m) = DayLen - 1
<1> DEFINE D == Week!DayOf(m)
           x == Week!MinuteOf(m)
<1>0. DayLen \in Nat \ {0}
  BY PlanAssumption DEF PlanAssumption
<1>1. D \in Nat /\ x \in 0..(DayLen - 1) /\ m = DayLen * D + x
  BY DayAndMinute
<1> HIDE DEF D, x
<1>2. DayLen * D \in Nat /\ DayLen * (D + 1) = DayLen * D + DayLen
  BY <1>0, <1>1
<1>3. CASE x = DayLen - 1
  <2>1. m + 1 = DayLen * (D + 1) + 0 /\ 0 \in 0..(DayLen - 1) /\ D + 1 \in Nat /\ m + 1 \in Nat
    BY <1>0, <1>1, <1>2, <1>3
  <2>2. (m + 1) \div DayLen = D + 1
    BY <1>0, <2>1, DivisionIsUnique
  <2> QED BY <1>3, <2>2 DEF Week!DayOf, D, x
<1>4. CASE x # DayLen - 1
  <2>1. m + 1 = DayLen * D + (x + 1) /\ x + 1 \in 0..(DayLen - 1) /\ m + 1 \in Nat
    BY <1>0, <1>1, <1>2, <1>4
  <2>2. (m + 1) \div DayLen = D
    BY <1>0, <1>1, <2>1, DivisionIsUnique
  <2> QED BY <2>2 DEF Week!DayOf, D
<1> QED BY <1>3, <1>4

\* The rest of today is of today.
LEMMA RestIsToday ==
    ASSUME NEW m \in Nat, NEW t \in (m + 1)..(Week!At(Week!DayOf(m) + 1, 0) - 1)
    PROVE  t \in Nat /\ Week!DayOf(t) = Week!DayOf(m)
<1> DEFINE D == Week!DayOf(m)
           x == Week!MinuteOf(m)
<1>0. DayLen \in Nat \ {0}
  BY PlanAssumption DEF PlanAssumption
<1>1. D \in Nat /\ x \in 0..(DayLen - 1) /\ m = DayLen * D + x
  BY DayAndMinute
<1>2. t \in (m + 1)..(((D + 1) * DayLen + 0) - 1)
  BY DEF Week!At
<1> HIDE DEF D, x
<1>3. DayLen * D \in Nat /\ (D + 1) * DayLen = DayLen * D + DayLen
  BY <1>0, <1>1
<1>4. t \in Nat /\ t - DayLen * D \in 0..(DayLen - 1) /\ t = DayLen * D + (t - DayLen * D)
  <2> DEFINE k == DayLen * D
             n == (D + 1) * DayLen
  <2>1. k \in Nat /\ n = k + DayLen /\ m = k + x /\ t \in (m + 1)..((n + 0) - 1)
    BY <1>1, <1>2, <1>3
  <2> HIDE DEF k, n
  <2>2. t \in Nat /\ t - k \in 0..(DayLen - 1) /\ t = k + (t - k)
    BY <1>0, <1>1, <2>1
  <2> QED BY <2>2 DEF k
<1>5. t \div DayLen = D
  BY <1>0, <1>1, <1>4, DivisionIsUnique
<1> QED BY <1>4, <1>5 DEF Week!DayOf, D

\* A date of the next year that falls on the day of the year of today is today.
LEMMA AnniversaryIsToday ==
    ASSUME NEW d \in Nat, NEW date \in Int, Week!IsNextAnniversary(date, d), date % YearLen = d % YearLen
    PROVE  date = d
<1> DEFINE p == date \div YearLen
           q == d \div YearLen
           x == d % YearLen
<1>0. YearLen \in Nat \ {0}
  BY PlanAssumption DEF PlanAssumption
<1>1. date \in Nat /\ d <= date /\ date < d + YearLen
  BY <1>0 DEF Week!IsNextAnniversary
<1>2. p \in Nat /\ q \in Nat /\ x \in 0..(YearLen - 1) /\ date = YearLen * p + x /\ d = YearLen * q + x
  BY <1>0, <1>1
<1> HIDE DEF p, q, x
<1>3. YearLen * p \in Nat /\ YearLen * q \in Nat
  BY <1>0, <1>2
<1>4. ASSUME p > q
      PROVE  FALSE
  <2>1. YearLen * (q + 1) <= YearLen * p
    BY <1>0, <1>2, <1>4
  <2>2. YearLen * (q + 1) = YearLen * q + YearLen
    BY <1>0, <1>2
  <2> QED BY <1>0, <1>1, <1>2, <1>3, <2>1, <2>2
<1>5. ASSUME p < q
      PROVE  FALSE
  <2>1. YearLen * (p + 1) <= YearLen * q
    BY <1>0, <1>2, <1>5
  <2>2. YearLen * (p + 1) = YearLen * p + YearLen
    BY <1>0, <1>2
  <2> QED BY <1>0, <1>1, <1>2, <1>3, <2>1, <2>2
<1>6. p = q
  BY <1>2, <1>4, <1>5
<1> QED BY <1>2, <1>6

-----------------------------------------------------------------------------
(* What the unit makes of what it holds *)

\* The lines of cron that call c at moment t.
Calling(lines, c, t) ==
    \E l \in lines : /\ l.call = c /\ l.time = Week!MinuteOf(t)
                     /\ (IF l.dated THEN Week!DayOf(t) % YearLen ELSE Week!Dow(Week!DayOf(t))) \in l.days

\* Merging and collapsing jobs loses no call and adds none.
LEMMA JobsCallAlike ==
    ASSUME NEW lines, NEW c, NEW t
    PROVE  c \in Week!ShellyCalls(Week!Collapsed(Week!Merged(lines)), t) <=> Calling(lines, c, t)
<1> DEFINE min == Week!MinuteOf(t)
           yd == Week!DayOf(t) % YearLen
           wd == Week!Dow(Week!DayOf(t))
           M(l) == [dated |-> l.dated, days |-> l.days, time |-> l.time,
                    calls |-> {k.call : k \in {k \in lines :
                                  k.dated = l.dated /\ k.days = l.days /\ k.time = l.time}}]
           jobs == Week!Merged(lines)
           U(j) == UNION {k.days : k \in {k \in jobs : ~k.dated /\ k.time = j.time /\ k.calls = j.calls}}
           C(j) == IF j.dated THEN j ELSE [j EXCEPT !.days = U(j)]
           Has(l) == l.call = c /\ l.time = min /\ (IF l.dated THEN yd ELSE wd) \in l.days
           On(j) == j.time = min /\ (IF j.dated THEN yd ELSE wd) \in j.days
<1>1. jobs = {M(l) : l \in {l \in lines : l.days # {}}}
  BY DEF Week!Merged
<1>2. Week!Collapsed(jobs) = {C(j) : j \in jobs}
  BY DEF Week!Collapsed
<1>3. c \in Week!ShellyCalls(Week!Collapsed(jobs), t) <=> \E j \in jobs : On(C(j)) /\ c \in C(j).calls
  <2> DEFINE X == Week!Collapsed(jobs)
  <2>1. X = {C(j) : j \in jobs}
    BY <1>2
  <2> HIDE DEF X, C
  <2>2. c \in Week!ShellyCalls(X, t) <=> \E j \in X : On(j) /\ c \in j.calls
    BY DEF Week!ShellyCalls
  <2> HIDE DEF jobs, On
  <2>3. (\E j \in X : On(j) /\ c \in j.calls) <=> \E j \in jobs : On(C(j)) /\ c \in C(j).calls
    BY <2>1
  <2> QED BY <2>2, <2>3 DEF X
<1>4. Calling(lines, c, t) <=> \E l \in lines : Has(l)
  BY DEF Calling
<1> HIDE DEF jobs, min, yd, wd
<1>5. \A l : M(l).dated = l.dated /\ M(l).days = l.days /\ M(l).time = l.time
  OBVIOUS
<1>6. \A l, x : x \in M(l).calls <=>
          \E k \in lines : k.call = x /\ k.dated = l.dated /\ k.days = l.days /\ k.time = l.time
  OBVIOUS
<1>7. \A l : DOMAIN M(l) = {"dated", "days", "time", "calls"}
  OBVIOUS
<1> HIDE DEF M
<1>8. ASSUME NEW j \in jobs, ~j.dated
      PROVE  /\ C(j).time = j.time /\ C(j).calls = j.calls /\ (~C(j).dated) /\ C(j).days = U(j)
  <2>1. DOMAIN j = {"dated", "days", "time", "calls"}
    BY <1>1, <1>7
  <2> HIDE DEF U
  <2> QED BY <2>1, <1>8
<1>9. ASSUME NEW l \in lines, Has(l)
      PROVE  \E j \in jobs : On(C(j)) /\ c \in C(j).calls
  <2>1. M(l) \in jobs
    BY <1>1, <1>9
  <2>2. c \in M(l).calls
    BY <1>6, <1>9
  <2>3. CASE l.dated
    <3>1. C(M(l)) = M(l)
      BY <1>5, <2>3
    <3> HIDE DEF C
    <3> QED BY <1>5, <1>9, <2>1, <2>2, <2>3, <3>1
  <2>4. CASE ~l.dated
    <3>1. wd \in U(M(l))
      BY <1>5, <1>9, <2>1, <2>4
    <3>2. /\ C(M(l)).time = min /\ C(M(l)).calls = M(l).calls /\ (~C(M(l)).dated) /\ C(M(l)).days = U(M(l))
      BY <1>5, <1>8, <1>9, <2>1, <2>4
    <3> HIDE DEF C, U
    <3> QED BY <2>1, <2>2, <3>1, <3>2
  <2> QED BY <2>3, <2>4
<1>10. ASSUME NEW j \in jobs, On(C(j)), c \in C(j).calls
       PROVE  \E l \in lines : Has(l)
  <2>1. PICK l \in lines : j = M(l)
    BY <1>1
  <2>2. CASE j.dated
    <3>1. C(j) = j
      BY <2>2
    <3>2. PICK k \in lines : k.call = c /\ k.dated = l.dated /\ k.days = l.days /\ k.time = l.time
      BY <1>6, <1>10, <2>1, <3>1
    <3>3. j.time = min /\ yd \in j.days
      BY <1>10, <2>2, <3>1
    <3>4. Has(k)
      BY <1>5, <2>1, <2>2, <3>2, <3>3
    <3> QED BY <3>4
  <2>3. CASE ~j.dated
    <3>1. /\ C(j).time = j.time /\ C(j).calls = j.calls /\ (~C(j).dated) /\ C(j).days = U(j)
      BY <1>8, <2>3
    <3>2. j.time = min /\ wd \in U(j) /\ c \in j.calls
      <4> HIDE DEF C, U
      <4> QED BY <1>10, <3>1
    <3>3. PICK i \in jobs : (~i.dated) /\ i.time = j.time /\ i.calls = j.calls /\ wd \in i.days
      BY <3>2
    <3>4. PICK p \in lines : i = M(p)
      BY <1>1
    <3>5. PICK k \in lines : k.call = c /\ k.dated = p.dated /\ k.days = p.days /\ k.time = p.time
      BY <1>6, <3>2, <3>3, <3>4
    <3>6. Has(k)
      BY <1>5, <3>2, <3>3, <3>4, <3>5
    <3> QED BY <3>6
  <2> QED BY <2>2, <2>3
<1> QED BY <1>3, <1>4, <1>9, <1>10 DEF jobs

\* The jobs of a Shelly call what a side of an enabled row says for that day.
LEMMA ShellyDoes ==
    ASSUME NEW d, NEW t, NEW relay, NEW e
    PROVE  <<relay, e>> \in Week!ShellyCalls(Week!BuildShellyJobs(rows, d), t) <=>
               \E r \in rows : /\ r.enabled /\ r.relay = relay /\ e \in Week!Has(r)
                               /\ (r.side[e]).time = Week!MinuteOf(t)
                               /\ (IF r.type # "weekly" THEN Week!DayOf(t) % YearLen ELSE Week!Dow(Week!DayOf(t)))
                                      \in Week!JobDays(r, e, d)
<1> DEFINE L(r, x) == [dated |-> r.type # "weekly", days |-> Week!JobDays(r, x, d),
                       time |-> (r.side[x]).time, call |-> <<r.relay, x>>]
           lines == Week!Lines(rows, d)
           c == <<relay, e>>
<1>1. c \in Week!ShellyCalls(Week!BuildShellyJobs(rows, d), t) <=> Calling(lines, c, t)
  BY JobsCallAlike DEF Week!BuildShellyJobs
<1>2. lines = UNION {{L(r, x) : x \in Week!Has(r)} : r \in {r \in rows : r.enabled}}
  BY DEF Week!Lines
<1>3. \A l : l \in lines <=> \E r \in rows : r.enabled /\ \E x \in Week!Has(r) : l = L(r, x)
  <2> HIDE DEF lines, L
  <2> QED BY <1>2
<1>4. \A r, x : /\ (L(r, x).dated <=> r.type # "weekly") /\ L(r, x).days = Week!JobDays(r, x, d)
                /\ L(r, x).time = (r.side[x]).time /\ L(r, x).call = <<r.relay, x>>
  OBVIOUS
<1> HIDE DEF lines, L
<1>5. \A r, x : L(r, x).call = c <=> r.relay = relay /\ x = e
  BY <1>4
<1> HIDE DEF c
<1> DEFINE Says(r) == /\ r.enabled /\ r.relay = relay /\ e \in Week!Has(r)
                      /\ (r.side[e]).time = Week!MinuteOf(t)
                      /\ (IF r.type # "weekly" THEN Week!DayOf(t) % YearLen ELSE Week!Dow(Week!DayOf(t)))
                             \in Week!JobDays(r, e, d)
<1>6. ASSUME Calling(lines, c, t)
      PROVE  \E r \in rows : Says(r)
  <2>1. PICK l \in lines : /\ l.call = c /\ l.time = Week!MinuteOf(t)
                           /\ (IF l.dated THEN Week!DayOf(t) % YearLen ELSE Week!Dow(Week!DayOf(t))) \in l.days
    BY <1>6 DEF Calling
  <2>2. PICK r \in rows : r.enabled /\ \E x \in Week!Has(r) : l = L(r, x)
    BY <1>3
  <2>3. e \in Week!Has(r) /\ l = L(r, e) /\ r.relay = relay
    BY <1>5, <2>1, <2>2
  <2>4. Says(r)
    BY <1>4, <2>1, <2>2, <2>3
  <2> QED BY <2>4
<1>7. ASSUME NEW r \in rows, Says(r)
      PROVE  Calling(lines, c, t)
  <2>1. L(r, e) \in lines
    BY <1>3, <1>7
  <2>2. L(r, e).call = c
    BY <1>5, <1>7
  <2> QED BY <1>4, <1>7, <2>1, <2>2 DEF Calling
<1> QED BY <1>1, <1>6, <1>7 DEF c

\* The payload of an ESP32 does the same with its entries.
LEMMA EspDoes ==
    ASSUME NEW d, NEW t, NEW relay, NEW e
    PROVE  <<relay, e>> \in Week!EspCalls(Week!BuildDevicePayload(rows, d), t) <=>
               \E r \in rows : /\ r.enabled /\ r.relay = relay /\ e \in Week!Has(r) /\ Week!Entered(r, e, d)
                               /\ (r.side[e]).time = Week!MinuteOf(t)
                               /\ IF r.type = "weekly" THEN (r.side[e]).dow \in {0, Week!Dow(Week!DayOf(t))}
                                  ELSE (r.side[e]).date = Week!DayOf(t)
<1> DEFINE L(r, x) == [dated |-> r.type # "weekly",
                       day |-> IF r.type = "weekly" THEN (r.side[x]).dow ELSE (r.side[x]).date,
                       time |-> (r.side[x]).time, call |-> <<r.relay, x>>]
           Given(r) == {x \in Week!Has(r) : Week!Entered(r, x, d)}
           entries == Week!BuildDevicePayload(rows, d)
           c == <<relay, e>>
           Fires(l) == /\ l.time = Week!MinuteOf(t)
                       /\ IF l.dated THEN l.day = Week!DayOf(t) ELSE l.day \in {0, Week!Dow(Week!DayOf(t))}
           Says(r) == /\ r.enabled /\ r.relay = relay /\ e \in Week!Has(r) /\ Week!Entered(r, e, d)
                      /\ (r.side[e]).time = Week!MinuteOf(t)
                      /\ IF r.type = "weekly" THEN (r.side[e]).dow \in {0, Week!Dow(Week!DayOf(t))}
                         ELSE (r.side[e]).date = Week!DayOf(t)
<1>1. c \in Week!EspCalls(entries, t) <=> \E l \in entries : l.call = c /\ Fires(l)
  BY DEF Week!EspCalls
<1>2. entries = UNION {{L(r, x) : x \in Given(r)} : r \in {r \in rows : r.enabled}}
  BY DEF Week!BuildDevicePayload
<1>3. \A l : l \in entries <=> \E r \in rows : r.enabled /\ \E x \in Given(r) : l = L(r, x)
  <2> HIDE DEF entries, L, Given
  <2> QED BY <1>2
<1>4. \A r, x : /\ (L(r, x).dated <=> r.type # "weekly")
                /\ L(r, x).day = (IF r.type = "weekly" THEN (r.side[x]).dow ELSE (r.side[x]).date)
                /\ L(r, x).time = (r.side[x]).time /\ L(r, x).call = <<r.relay, x>>
  OBVIOUS
<1> HIDE DEF entries, L
<1>5. \A r, x : L(r, x).call = c <=> r.relay = relay /\ x = e
  BY <1>4
<1> HIDE DEF c
<1>6. ASSUME NEW l \in entries, l.call = c, Fires(l)
      PROVE  \E r \in rows : Says(r)
  <2>1. PICK r \in rows : r.enabled /\ \E x \in Given(r) : l = L(r, x)
    BY <1>3
  <2>2. e \in Week!Has(r) /\ Week!Entered(r, e, d) /\ l = L(r, e) /\ r.relay = relay
    BY <1>5, <1>6, <2>1
  <2>3. Says(r)
    BY <1>4, <1>6, <2>1, <2>2
  <2> QED BY <2>3
<1>7. ASSUME NEW r \in rows, Says(r)
      PROVE  \E l \in entries : l.call = c /\ Fires(l)
  <2>1. L(r, e) \in entries
    BY <1>3, <1>7
  <2>2. L(r, e).call = c
    BY <1>5, <1>7
  <2>3. Fires(L(r, e))
    BY <1>4, <1>7
  <2> QED BY <2>1, <2>2, <2>3
<1> QED BY <1>1, <1>6, <1>7 DEF c, entries

-----------------------------------------------------------------------------
(* A unit that is not behind mirrors the rows *)

\* For row r, day d is like day c: no exclusion by date begins or ends between
\* them, and no date comes into the year ahead or leaves it.
SameOn(r, c, d) ==
    /\ Week!Excluded(Week!WithoutWeeklyExcl(r), c) = Week!Excluded(Week!WithoutWeeklyExcl(r), d)
    /\ r.type # "weekly" =>
           \A e \in Week!Has(r) :
               Week!IsNextAnniversary((r.side[e]).date, c) = Week!IsNextAnniversary((r.side[e]).date, d)

\* A row is excluded by the days of the week, or without them.
LEMMA ExclusionSplits ==
    ASSUME NEW r, Week!IsRow(r), NEW d
    PROVE  Week!Excluded(r, d) <=>
               Week!Dow(d) \in Week!ExclWeeklyDays(r) \/ Week!Excluded(Week!WithoutWeeklyExcl(r), d)
<1> DEFINE w == Week!WithoutWeeklyExcl(r)
<1>1. w.exclDays = {} /\ w.excl = {x \in r.excl : x.type # "weekly"}
  BY DEF Week!WithoutWeeklyExcl, Week!IsRow
<1>2. Week!Excluded(w, d) <=> \E x \in r.excl : x.type # "weekly" /\ Week!InExclItem(x, d)
  <2> HIDE DEF w
  <2> QED BY <1>1 DEF Week!Excluded
<1>3. \A x : x.type = "weekly" => (Week!InExclItem(x, d) <=> Week!Dow(d) \in x.days)
  BY DEF Week!InExclItem
<1>4. Week!Dow(d) \in Week!ExclWeeklyDays(r) <=>
          Week!Dow(d) \in r.exclDays \/ \E x \in r.excl : x.type = "weekly" /\ Week!Dow(d) \in x.days
  BY DEF Week!ExclWeeklyDays
<1>5. Week!Excluded(r, d) <=> Week!Dow(d) \in r.exclDays \/ \E x \in r.excl : Week!InExclItem(x, d)
  BY DEF Week!Excluded
<1> HIDE DEF w
<1>6. (\E x \in r.excl : Week!InExclItem(x, d)) <=>
          \/ \E x \in r.excl : x.type = "weekly" /\ Week!Dow(d) \in x.days
          \/ \E x \in r.excl : x.type # "weekly" /\ Week!InExclItem(x, d)
  BY <1>3
<1> QED BY <1>2, <1>4, <1>5, <1>6 DEF w

\* The job made for a day that is like today fires today when the side is due.
LEMMA JobsAreDue ==
    ASSUME NEW r, Week!IsRow(r), NEW e \in Week!Has(r), r.enabled, (r.side[e]).date \in Int,
           NEW c, NEW d \in Nat, SameOn(r, c, d), NEW t, Week!DayOf(t) = d, Week!Dow(d) \in Week!AllDays
    PROVE  Week!DueAt(r, e, t) <=>
               /\ (r.side[e]).time = Week!MinuteOf(t)
               /\ (IF r.type # "weekly" THEN Week!DayOf(t) % YearLen ELSE Week!Dow(Week!DayOf(t)))
                      \in Week!JobDays(r, e, c)
<1> DEFINE s == r.side[e]
           w == Week!WithoutWeeklyExcl(r)
<1>0. e \in Week!Sides /\ s # Week!NoSide
  BY DEF Week!Has
<1>1. CASE r.type = "weekly"
  <2>1. Week!DueAt(r, e, t) <=>
            s.time = Week!MinuteOf(t) /\ s.dow \in {0, Week!Dow(d)} /\ ~Week!Excluded(r, d)
    BY <1>0, <1>1 DEF Week!DueAt
  <2>2. Week!Dow(d) \in Week!JobDays(r, e, c) <=>
            /\ ~Week!Excluded(w, c) /\ s.dow \in {0, Week!Dow(d)} /\ Week!Dow(d) \notin Week!ExclWeeklyDays(r)
    BY <1>1 DEF Week!JobDays
  <2>3. Week!Excluded(w, c) <=> Week!Excluded(w, d)
    BY DEF SameOn
  <2>4. Week!Excluded(r, d) <=> Week!Dow(d) \in Week!ExclWeeklyDays(r) \/ Week!Excluded(w, d)
    BY ExclusionSplits
  <2> HIDE DEF s, w
  <2> QED BY <1>1, <2>1, <2>2, <2>3, <2>4 DEF s
<1>2. CASE r.type # "weekly"
  <2>1. Week!DueAt(r, e, t) <=> s.time = Week!MinuteOf(t) /\ s.date = d /\ ~Week!Excluded(r, d)
    BY <1>0, <1>2 DEF Week!DueAt
  <2>2. d % YearLen \in Week!JobDays(r, e, c) <=>
            /\ Week!IsNextAnniversary(s.date, c) /\ ~Week!Excluded(r, s.date) /\ d % YearLen = s.date % YearLen
    BY <1>2 DEF Week!JobDays
  <2>3. Week!IsNextAnniversary(s.date, c) <=> Week!IsNextAnniversary(s.date, d)
    BY <1>2 DEF SameOn
  <2>4. Week!IsNextAnniversary(d, d)
    BY PlanAssumption DEF PlanAssumption, Week!IsNextAnniversary
  <2>5. Week!IsNextAnniversary(s.date, d) /\ d % YearLen = s.date % YearLen => s.date = d
    BY AnniversaryIsToday
  <2> HIDE DEF s, w
  <2>6. Week!DueAt(r, e, t) <=> s.time = Week!MinuteOf(t) /\ d % YearLen \in Week!JobDays(r, e, c)
    BY <2>1, <2>2, <2>3, <2>4, <2>5
  <2> QED BY <1>2, <2>6 DEF s
<1> QED BY <1>1, <1>2

\* The same of the entries of an ESP32, for a row without exclusions by weekday.
LEMMA EntriesAreDue ==
    ASSUME NEW r, Week!IsRow(r), NEW e \in Week!Has(r), r.enabled, Week!ExclWeeklyDays(r) = {},
           NEW c, NEW d, SameOn(r, c, d), NEW t, Week!DayOf(t) = d
    PROVE  Week!DueAt(r, e, t) <=>
               /\ Week!Entered(r, e, c) /\ (r.side[e]).time = Week!MinuteOf(t)
               /\ IF r.type = "weekly" THEN (r.side[e]).dow \in {0, Week!Dow(Week!DayOf(t))}
                  ELSE (r.side[e]).date = Week!DayOf(t)
<1> DEFINE s == r.side[e]
           w == Week!WithoutWeeklyExcl(r)
<1>0. e \in Week!Sides /\ s # Week!NoSide
  BY DEF Week!Has
<1>1. Week!Excluded(r, c) <=> Week!Excluded(r, d)
  <2>1. Week!Excluded(w, c) <=> Week!Excluded(w, d)
    BY DEF SameOn
  <2>2. Week!Excluded(r, c) <=> Week!Excluded(w, c)
    BY ExclusionSplits
  <2>3. Week!Excluded(r, d) <=> Week!Excluded(w, d)
    BY ExclusionSplits
  <2> QED BY <2>1, <2>2, <2>3
<1>2. r.exclDays = {}
  BY DEF Week!ExclWeeklyDays
<1>3. Week!Entered(r, e, c) <=> IF r.type = "weekly" THEN ~Week!Excluded(r, c) ELSE ~Week!Excluded(r, s.date)
  BY <1>2 DEF Week!Entered, Week!EntryExcluded
<1>4. Week!DueAt(r, e, t) <=>
          /\ s.time = Week!MinuteOf(t) /\ ~Week!Excluded(r, d)
          /\ IF r.type = "weekly" THEN s.dow \in {0, Week!Dow(d)} ELSE s.date = d
  BY <1>0 DEF Week!DueAt
<1> HIDE DEF s
<1>5. Week!DueAt(r, e, t) <=>
          /\ Week!Entered(r, e, c) /\ s.time = Week!MinuteOf(t)
          /\ IF r.type = "weekly" THEN s.dow \in {0, Week!Dow(d)} ELSE s.date = d
  BY <1>1, <1>3, <1>4
<1> QED BY <1>5 DEF s

\* What the unit was told last is still what the server would tell it.
IsTold == ~behind /\ serving /\ (site = "esp" => outages = 0)
ThisDay == Week!DayOf(moment)
PayloadOf(d) == IF site = "shelly" THEN Week!BuildShellyJobs(rows, d) ELSE Week!BuildDevicePayload(rows, d)

\* The refresh of the day is done, or it is to come today.
RefreshedLately ==
    \/ refreshed = NoDay
    \/ refreshed = ThisDay
    \/ refreshed = ThisDay - 1 /\ Week!MinuteOf(moment) < RefreshAt

MirrorInv ==
    /\ WeekTypes
    /\ site \in {"shelly", "esp"} /\ outages \in Nat /\ heldOn \in Nat /\ heldOn <= ThisDay
    /\ ~serving => outages > 0
    /\ ~behind => held = PayloadOf(heldOn)
    /\ serving => RefreshedLately
    /\ IsTold /\ refreshed = NoDay =>
           heldOn = ThisDay \/ (heldOn = ThisDay - 1 /\ Week!MinuteOf(moment) < RefreshAt)
    /\ IsTold /\ refreshed # NoDay /\ heldOn <= refreshed =>
           \A r \in rows : r.enabled => SameOn(r, heldOn, refreshed)

LEMMA SameTwice ==
    ASSUME NEW r, NEW b, NEW c, NEW d, SameOn(r, b, c), SameOn(r, c, d)
    PROVE  SameOn(r, b, d)
  BY DEF SameOn

LEMMA SameSelf ==
    ASSUME NEW r, NEW d
    PROVE  SameOn(r, d, d)
  BY DEF SameOn

\* What a row that the refresh does not move is like.
LEMMA UnmovedIsSame ==
    ASSUME NEW r, r.enabled, ~Week!Moves(r)
    PROVE  SameOn(r, Week!DayOf(moment') - 1, Week!DayOf(moment')) /\ Week!Refreshed(r) = r
  BY DEF Week!Moves, Week!ExclusionFlips, Week!DateFlips, SameOn

\* A minute in which the unit is not left behind leaves the rows alone.
LEMMA QuietMinute ==
    ASSUME Week!Loop, ~behind'
    PROVE  /\ ~behind /\ rows' = rows
           /\ Week!RefreshDue => \A r \in rows : r.enabled =>
                  SameOn(r, Week!DayOf(moment') - 1, Week!DayOf(moment'))
<1>1. PICK done : /\ rows' = {IF Week!RefreshDue THEN Week!Refreshed(r) ELSE r : r \in rows \ done}
                  /\ \E online \in BOOLEAN :
                         behind' = \/ behind \/ done # {}
                                   \/ Week!RefreshDue /\ \E r \in rows \ done : Week!Moves(r)
                                   \/ Week!RefreshDue /\ site = "shelly" /\ online
  BY DEF Week!Loop
<1>2. (~behind) /\ done = {} /\ (Week!RefreshDue => \A r \in rows \ done : ~Week!Moves(r))
  BY <1>1
<1>3. CASE Week!RefreshDue
  <2>1. \A r \in rows : Week!Refreshed(r) = r
    BY <1>2, <1>3, UnmovedIsSame DEF Week!Refreshed
  <2>2. rows' = rows
    BY <1>1, <1>2, <1>3, <2>1
  <2>3. \A r \in rows : r.enabled => SameOn(r, Week!DayOf(moment') - 1, Week!DayOf(moment'))
    BY <1>2, <1>3, UnmovedIsSame
  <2> QED BY <1>2, <2>2, <2>3
<1>4. CASE ~Week!RefreshDue
  BY <1>1, <1>2, <1>4
<1> QED BY <1>3, <1>4

LEMMA MirrorInit ==
    ASSUME Week!Init
    PROVE  MirrorInv
<1>1. WeekTypes
  <2>1. WeekRows
    BY WeekInit
  <2>2. /\ rows = {} /\ handed = {} /\ asleep = {}
        /\ behind \in BOOLEAN /\ refreshed = NoDay /\ nextRow = 1
    BY DEF Week!Init
  <2> QED BY <2>1, <2>2 DEF WeekTypes, IdsAreOwn
<1>2. /\ moment = FirstMoment /\ rows = {} /\ held = {} /\ heldOn = Week!DayOf(FirstMoment) /\ outages = 0
      /\ site \in {"shelly", "esp"} /\ serving /\ refreshed = NoDay
  BY DEF Week!Init
<1>3. ThisDay \in Nat /\ heldOn = ThisDay
  <2>1. FirstMoment \in Nat
    BY PlanAssumption DEF PlanAssumption
  <2> QED BY <1>2, <2>1, DayAndMinute DEF ThisDay
<1>4. held = PayloadOf(heldOn)
  <2>1. Week!Lines(rows, heldOn) = {} /\ Week!BuildDevicePayload(rows, heldOn) = {}
    BY <1>2 DEF Week!Lines, Week!BuildDevicePayload
  <2>2. Week!BuildShellyJobs(rows, heldOn) = {}
    BY <2>1 DEF Week!BuildShellyJobs, Week!Merged, Week!Collapsed
  <2> QED BY <1>2, <2>1, <2>2 DEF PayloadOf
<1> QED BY <1>1, <1>2, <1>3, <1>4 DEF MirrorInv, RefreshedLately

\* A minute with the server.
LEMMA LoopMirrors ==
    ASSUME MirrorInv, Week!Loop, WeekTypes'
    PROVE  MirrorInv'
<1> DEFINE d == ThisDay
           e == Week!DayOf(moment')
<1>1. /\ moment' = moment + 1 /\ serving /\ serving' = serving
      /\ UNCHANGED <<site, outages, held, heldOn>>
      /\ refreshed' = IF Week!RefreshDue THEN e ELSE refreshed
  BY DEF Week!Loop
<1>2. moment \in Nat /\ moment' \in Nat
  BY PlanAssumption DEF MirrorInv, WeekTypes, WeekRows, PlanAssumption
<1>3. d \in Nat /\ e \in Nat /\ Week!MinuteOf(moment) \in 0..(DayLen - 1)
  BY <1>2, DayAndMinute DEF ThisDay
<1>4. e = d \/ (e = d + 1 /\ Week!MinuteOf(moment) = DayLen - 1)
  BY <1>1, <1>2, MinuteLater DEF ThisDay
<1>5. Week!RefreshDue <=> refreshed # e /\ ~(Week!MinuteOf(moment') < RefreshAt)
  <2>1. Week!MinuteOf(moment') \in Int /\ RefreshAt \in Int
    BY <1>2, DayAndMinute, PlanAssumption DEF PlanAssumption
  <2> QED BY <2>1 DEF Week!RefreshDue
<1>6. RefreshAt \in 0..(DayLen - 1) /\ DayLen \in Nat \ {0} /\ NoDay \notin Int
  BY PlanAssumption DEF PlanAssumption
<1>7. refreshed = NoDay \/ refreshed \in Nat
  BY DEF MirrorInv, WeekTypes
<1>8. heldOn \in Nat /\ heldOn <= d
  BY DEF MirrorInv
<1>9. RefreshedLately
  BY <1>1 DEF MirrorInv
<1>10. ThisDay' = e
  BY DEF ThisDay
<1>11. RefreshedLately'
  <2>1. refreshed' = NoDay \/ refreshed' = e \/ (refreshed' = e - 1 /\ Week!MinuteOf(moment') < RefreshAt)
    <3> HIDE DEF d, e
    <3>1. CASE Week!RefreshDue
      BY <1>1, <3>1
    <3>2. CASE ~Week!RefreshDue
      <4>1. refreshed = NoDay \/ refreshed = d \/ (refreshed = d - 1 /\ Week!MinuteOf(moment) < RefreshAt)
        BY <1>9 DEF RefreshedLately, d
      <4> QED BY <1>1, <1>3, <1>4, <1>5, <1>6, <3>2, <4>1
    <3> QED BY <3>1, <3>2
  <2> QED BY <1>10, <2>1 DEF RefreshedLately
<1>12. ASSUME ~behind'
       PROVE  held' = PayloadOf(heldOn)'
  <2>1. (~behind) /\ rows' = rows
    BY <1>12, QuietMinute
  <2>2. held = PayloadOf(heldOn)
    BY <2>1 DEF MirrorInv
  <2> QED BY <1>1, <2>1, <2>2 DEF PayloadOf
<1>13. ASSUME IsTold'
       PROVE  IsTold /\ rows' = rows
  <2>1. ~behind'
    BY <1>13 DEF IsTold
  <2>2. (~behind) /\ rows' = rows
    BY <2>1, QuietMinute
  <2> QED BY <1>1, <1>13, <2>2 DEF IsTold
<1>14. ASSUME IsTold', refreshed' = NoDay
       PROVE  heldOn' = e \/ (heldOn' = e - 1 /\ Week!MinuteOf(moment') < RefreshAt)
  <2>1. IsTold
    BY <1>13, <1>14
  <2> HIDE DEF d, e
  <2>2. ~Week!RefreshDue
    BY <1>1, <1>3, <1>6, <1>14
  <2>3. refreshed = NoDay /\ Week!MinuteOf(moment') < RefreshAt
    BY <1>1, <1>3, <1>5, <1>6, <1>14, <2>2
  <2>4. heldOn = d \/ (heldOn = d - 1 /\ Week!MinuteOf(moment) < RefreshAt)
    BY <2>1, <2>3 DEF MirrorInv, d
  <2> QED BY <1>1, <1>3, <1>4, <1>6, <2>3, <2>4
<1>15. ASSUME IsTold', refreshed' # NoDay, heldOn' <= refreshed', NEW r \in rows', r.enabled
       PROVE  SameOn(r, heldOn', refreshed')
  <2>1. IsTold /\ rows' = rows
    BY <1>13, <1>15
  <2>2. CASE ~Week!RefreshDue
    BY <1>1, <1>15, <2>1, <2>2 DEF MirrorInv
  <2>3. CASE Week!RefreshDue
    <3>1. SameOn(r, e - 1, e)
      <4>1. ~behind'
        BY <1>15 DEF IsTold
      <4> QED BY <1>15, <2>1, <2>3, <4>1, QuietMinute
    <3>2. CASE heldOn = e
      BY <1>1, <2>3, <3>2, SameSelf
    <3>3. CASE heldOn = e - 1
      BY <1>1, <2>3, <3>1, <3>3
    <3>4. CASE heldOn < e - 1
      <4>0. /\ refreshed = NoDay \/ refreshed = d \/ (refreshed = d - 1 /\ Week!MinuteOf(moment) < RefreshAt)
            /\ refreshed = NoDay => heldOn = d \/ (heldOn = d - 1 /\ Week!MinuteOf(moment) < RefreshAt)
        BY <1>9, <2>1 DEF RefreshedLately, MirrorInv
      <4> HIDE DEF d, e
      <4>1. refreshed # NoDay
        BY <1>3, <1>4, <1>6, <1>8, <3>4, <4>0
      <4>2. refreshed = e - 1
        BY <1>3, <1>4, <1>5, <1>6, <2>3, <4>0, <4>1
      <4>3. SameOn(r, heldOn, e - 1)
        BY <1>3, <1>8, <1>15, <2>1, <3>4, <4>1, <4>2 DEF MirrorInv
      <4>4. SameOn(r, heldOn, e)
        BY <3>1, <4>3, SameTwice
      <4> QED BY <1>1, <2>3, <4>4
    <3>5. heldOn = e \/ heldOn = e - 1 \/ heldOn < e - 1
      <4> HIDE DEF d, e
      <4> QED BY <1>3, <1>4, <1>8
    <3> QED BY <3>2, <3>3, <3>4, <3>5
  <2> QED BY <2>2, <2>3
<1>16. heldOn' \in Nat /\ heldOn' <= e
  <2> HIDE DEF d, e
  <2> QED BY <1>1, <1>3, <1>4, <1>8
<1>17. site' \in {"shelly", "esp"} /\ outages' \in Nat /\ (~serving' => outages' > 0)
  BY <1>1 DEF MirrorInv
<1> HIDE DEF d, e
<1> QED BY <1>10, <1>11, <1>12, <1>14, <1>15, <1>16, <1>17 DEF MirrorInv

LEMMA MirrorStays ==
    ASSUME MirrorInv, [Week!Next]_(Week!vars)
    PROVE  MirrorInv'
<1>0. WeekTypes'
  BY WeekTypesStay DEF MirrorInv
<1>1. CASE Week!Customer
  <2>1. Week!EditFrame
    BY <1>1 DEF Week!Edit, Week!Wake, Week!Customer, Week!SavePlan, Week!SetPlanEnabled, Week!DeletePlan, Week!CreateSchedule,
                Week!ToggleSchedule, Week!UpdateSchedule, Week!DeleteSchedule
  <2>2. UNCHANGED <<moment, serving, refreshed, site, heldOn, outages>> /\ behind'
    BY <2>1 DEF Week!EditFrame
  <2> QED BY <1>0, <2>2 DEF MirrorInv, IsTold, RefreshedLately, ThisDay
<1>2. CASE Week!Loop
  BY <1>0, <1>2, LoopMirrors
<1>3. CASE Week!MinuteDown
  <2>1. /\ ~serving /\ ~serving' /\ moment' = moment + 1
        /\ UNCHANGED <<refreshed, rows, site, held, behind, heldOn, outages>>
    BY <1>3 DEF Week!MinuteDown, Week!unitVars
  <2>2. heldOn' <= ThisDay'
    <3>1. moment \in Nat /\ moment' \in Nat
      BY <1>0, PlanAssumption DEF MirrorInv, WeekTypes, WeekRows, PlanAssumption
    <3>2. ThisDay' = ThisDay \/ ThisDay' = ThisDay + 1
      BY <2>1, <3>1, MinuteLater DEF ThisDay
    <3>3. ThisDay \in Nat /\ ThisDay' \in Nat
      BY <3>1, DayAndMinute DEF ThisDay
    <3> QED BY <2>1, <3>2, <3>3 DEF MirrorInv
  <2>3. ~behind' => held' = PayloadOf(heldOn)'
    BY <2>1 DEF MirrorInv, PayloadOf
  <2> QED BY <1>0, <2>1, <2>2, <2>3 DEF MirrorInv, IsTold
<1>4. CASE Week!Crash
  <2>1. /\ ~serving' /\ outages' = outages + 1
        /\ UNCHANGED <<moment, refreshed, rows, site, held, behind, heldOn>>
    BY <1>4 DEF Week!Crash, Week!unitVars
  <2>2. ~behind' => held' = PayloadOf(heldOn)'
    BY <2>1 DEF MirrorInv, PayloadOf
  <2> QED BY <1>0, <2>1, <2>2 DEF MirrorInv, IsTold, ThisDay
<1>5. CASE Week!StartUp
  <2>1. /\ ~serving /\ refreshed' = NoDay
        /\ UNCHANGED <<moment, rows, site, held, heldOn, outages>>
        /\ (~behind') => ~behind /\ site # "shelly"
    BY <1>5 DEF Week!StartUp
  <2>2. ~behind' => held' = PayloadOf(heldOn)'
    BY <2>1 DEF MirrorInv, PayloadOf
  <2>3. ~IsTold'
    BY <2>1 DEF MirrorInv, IsTold
  <2> QED BY <1>0, <2>1, <2>2, <2>3 DEF MirrorInv, RefreshedLately, ThisDay
<1>6. CASE Week!Sync
  <2>1. /\ serving /\ serving' = serving /\ heldOn' = ThisDay /\ held' = PayloadOf(ThisDay)
        /\ UNCHANGED <<moment, refreshed, rows, site, outages>>
    BY <1>6 DEF Week!Sync, Week!Payload, Week!Today, PayloadOf, ThisDay
  <2>2. held' = PayloadOf(heldOn)' /\ ThisDay' = ThisDay /\ RefreshedLately'
    BY <2>1 DEF PayloadOf, ThisDay, MirrorInv, RefreshedLately
  <2>3. ThisDay \in Nat
    BY <1>0, <2>1, PlanAssumption, DayAndMinute DEF ThisDay, MirrorInv, WeekTypes, WeekRows, PlanAssumption
  <2>4. ASSUME refreshed' # NoDay, heldOn' <= refreshed', NEW r \in rows'
        PROVE  SameOn(r, heldOn', refreshed')
    <3>1. refreshed = ThisDay
      BY <2>1, <2>3, <2>4 DEF MirrorInv, RefreshedLately
    <3> QED BY <2>1, <3>1, SameSelf
  <2> QED BY <1>0, <2>1, <2>2, <2>3, <2>4 DEF MirrorInv
<1>7. CASE UNCHANGED Week!vars
  <2>1. UNCHANGED <<moment, serving, refreshed, rows, site, held, behind, heldOn, outages>>
    BY <1>7 DEF Week!vars, Week!unitVars
  <2>2. ~behind' => held' = PayloadOf(heldOn)'
    BY <2>1 DEF MirrorInv, PayloadOf
  <2> QED BY <1>0, <2>1, <2>2 DEF MirrorInv, IsTold, RefreshedLately, ThisDay
<1> QED BY <1>1, <1>2, <1>3, <1>4, <1>5, <1>6, <1>7 DEF Week!Next, Week!NextMinute

\* Because of the invariant a unit that is not behind mirrors the rows.
LEMMA ToldMirrors ==
    ASSUME MirrorInv, Week!DatesAreDays
    PROVE  Week!MirrorIsExact
<1> SUFFICES ASSUME serving, refreshed = ThisDay, ~behind, site = "esp" => outages = 0,
                    NEW t \in Week!RestOfToday, NEW r \in rows, NEW e \in Week!Sides
             PROVE  /\ Week!DueAt(r, e, t) /\ Week!Told(r) => <<r.relay, e>> \in Week!Calls(t)
                    /\ <<r.relay, e>> \in Week!Calls(t) =>
                           \E s \in rows : s.relay = r.relay /\ (Week!DueAt(s, e, t) \/ ~Week!Told(s))
  BY DEF Week!MirrorIsExact, Week!Today, ThisDay
<1>1. moment \in Nat
  BY PlanAssumption DEF MirrorInv, WeekTypes, WeekRows, PlanAssumption
<1>2. Week!DayOf(t) = ThisDay /\ ThisDay \in Nat
  BY <1>1, RestIsToday, DayAndMinute DEF Week!RestOfToday, Week!Today, ThisDay
<1>3. Week!Dow(ThisDay) \in Week!AllDays
  <2>1. WeekLen \in Nat \ {0}
    BY PlanAssumption DEF PlanAssumption
  <2> QED BY <1>2, <2>1 DEF Week!Dow, Week!AllDays
<1>4. /\ held = PayloadOf(heldOn)
      /\ \A s \in rows : Week!IsRow(s) /\ (s.enabled => SameOn(s, heldOn, ThisDay))
  <2>1. refreshed # NoDay /\ heldOn <= refreshed
    BY <1>2, PlanAssumption DEF MirrorInv, PlanAssumption
  <2> QED BY <2>1 DEF MirrorInv, IsTold, WeekTypes, WeekRows
<1>5. \A s \in rows : Week!DueAt(s, e, t) => s.enabled /\ e \in Week!Has(s)
  BY DEF Week!DueAt, Week!Has
<1>6. CASE site = "shelly"
  <2> DEFINE Fires(s) ==
          /\ (s.side[e]).time = Week!MinuteOf(t)
          /\ (IF s.type # "weekly" THEN Week!DayOf(t) % YearLen ELSE Week!Dow(Week!DayOf(t)))
                 \in Week!JobDays(s, e, heldOn)
  <2>1. \A relay : <<relay, e>> \in Week!Calls(t) <=>
                       \E s \in rows : s.enabled /\ s.relay = relay /\ e \in Week!Has(s) /\ Fires(s)
    <3>1. \A relay : <<relay, e>> \in Week!Calls(t) <=>
                         <<relay, e>> \in Week!ShellyCalls(Week!BuildShellyJobs(rows, heldOn), t)
      BY <1>4, <1>6 DEF Week!Calls, PayloadOf
    <3> QED BY <3>1, ShellyDoes
  <2>2. ASSUME NEW s \in rows, s.enabled, e \in Week!Has(s)
        PROVE  Week!DueAt(s, e, t) <=> Fires(s)
    <3>1. (s.side[e]).date \in Int
      BY <2>2 DEF Week!DatesAreDays
    <3> HIDE DEF Fires
    <3> QED BY <1>2, <1>3, <1>4, <2>2, <3>1, JobsAreDue DEF Fires
  <2> HIDE DEF Fires
  <2> QED BY <1>5, <2>1, <2>2
<1>7. CASE site = "esp"
  <2> DEFINE Fires(s) ==
          /\ Week!Entered(s, e, heldOn) /\ (s.side[e]).time = Week!MinuteOf(t)
          /\ IF s.type = "weekly" THEN (s.side[e]).dow \in {0, Week!Dow(Week!DayOf(t))}
             ELSE (s.side[e]).date = Week!DayOf(t)
  <2>1. \A relay : <<relay, e>> \in Week!Calls(t) <=>
                       \E s \in rows : s.enabled /\ s.relay = relay /\ e \in Week!Has(s) /\ Fires(s)
    <3>1. \A relay : <<relay, e>> \in Week!Calls(t) <=>
                         <<relay, e>> \in Week!EspCalls(Week!BuildDevicePayload(rows, heldOn), t)
      BY <1>4, <1>7 DEF Week!Calls, PayloadOf
    <3> QED BY <3>1, EspDoes
  <2>2. ASSUME NEW s \in rows, s.enabled, e \in Week!Has(s), Week!Told(s)
        PROVE  Week!DueAt(s, e, t) <=> Fires(s)
    <3>1. Week!ExclWeeklyDays(s) = {}
      BY <1>7, <2>2 DEF Week!Told
    <3> HIDE DEF Fires
    <3> QED BY <1>2, <1>4, <2>2, <3>1, EntriesAreDue DEF Fires
  <2> HIDE DEF Fires
  <2> QED BY <1>5, <2>1, <2>2
<1> QED BY <1>6, <1>7 DEF MirrorInv

\* As long as the dates of the schedules are days, a unit that is not behind
\* does in the rest of the day what the server takes for due, no less and no more
\* (services/shelly-schedules.js, services/schedulePayload.js): the refresh of
\* the day says so when the jobs of yesterday are no longer those of today.
THEOREM UnitsMirror == PartsSpec /\ [](part = "week" => Week!DatesAreDays) => []MirrorIsExact
<1> DEFINE Inv == part = "week" => MirrorInv
<1>1. PartsInit => Inv
  BY MirrorInit DEF PartsInit
<1>2. Inv /\ [PartsNext]_allVars => Inv'
  BY WeekStep, MirrorStays
<1>3. Inv /\ (part = "week" => Week!DatesAreDays) => MirrorIsExact
  BY ToldMirrors DEF MirrorIsExact
<1> QED BY <1>1, <1>2, <1>3, PTL DEF PartsSpec
=============================================================================
