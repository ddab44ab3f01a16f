-------------------------- MODULE ShellySync_proofs --------------------------
(***************************************************************************)
(* Proofs about ShellySync, for any number of jobs, any table, window and  *)
(* week, any number of synchronisations under way together and of changes. *)
(*                                                                         *)
(* The argument is about the call that nothing overlaps: what it listed is *)
(* still the table when it writes, so that its difference stays true until *)
(* it is written.                                                          *)
(***************************************************************************)
EXTENDS ShellySync, FiniteSetTheorems, WellFoundedInduction, TLAPS

-----------------------------------------------------------------------------
(* The least number of a set, and the table as a function *)

\* A set of natural numbers has a least one, which is what Min gives.
LEMMA Least ==
    ASSUME NEW T \in SUBSET Nat, T # {}
    PROVE  Min(T) \in T /\ \A i \in T : Min(T) <= i
<1>1. PICK n \in T : \A i \in T : <<i, n>> \notin OpToRel(<, Nat)
  BY NatLessThanWellFounded, WFMin
<1>2. \A i \in T : ~(i < n)
  BY <1>1 DEF OpToRel
<1>3. n \in T /\ \A i \in T : n <= i
  BY <1>2
<1>4. \E k \in T : \A i \in T : k <= i
  BY <1>3
<1> QED BY <1>4, Zenon DEF Min

\* The ids are natural numbers, and finitely many.
LEMMA IdsAreFinite == Ids \subseteq Nat /\ IsFiniteSet(Ids)
<1>1. Cardinality(Slots) \in Nat /\ Cap \in Nat
  BY FS_CardinalityType, ShellyAssumption
<1> DEFINE n == Cap + Cardinality(Slots)
<1>2. n \in Nat
  BY <1>1
<1> HIDE DEF n
<1>3. IsFiniteSet(1..n)
  BY <1>2, FS_Interval
<1>4. 1..n \subseteq Nat
  BY <1>2
<1> QED BY <1>3, <1>4 DEF Ids, n

\* So are the ids that the unit lists.
LEMMA ListedIsFinite ==
    ASSUME NEW t PROVE IsFiniteSet(Listed(t)) /\ Cardinality(Listed(t)) \in Nat
BY IdsAreFinite, FS_Subset, FS_CardinalityType DEF Listed

\* A table without extra jobs that lacks none of the wanted ones holds these,
\* each once: the fit was written.
LEMMA NothingToWrite ==
    ASSUME NEW want \in SUBSET Jobs, NEW t \in [Ids -> Jobs \union {NoJob}],
           Extras(t, want) = {}, Missing(t, want) = {}
    PROVE  JobsIn(t) = want /\ Cardinality(Listed(t)) = Cardinality(want)
<1>1. \A i \in Listed(t) : t[i] \in want /\ \A h \in Ids : ~(h < i /\ t[h] = t[i])
  BY DEF Extras
<1>2. \A j \in want : \E i \in Listed(t) : t[i] = j
  <2>1. \A j \in want : \E i \in Ids : t[i] = j
    BY DEF Missing
  <2> QED BY <2>1, ShellyAssumption DEF Listed
<1>3. JobsIn(t) = want
  BY <1>1, <1>2 DEF JobsIn, Listed
<1> DEFINE f == [i \in Listed(t) |-> t[i]]
<1>4. f \in [Listed(t) -> want]
  BY <1>1
<1>5. \A i, h \in Listed(t) : f[i] = f[h] => i = h
  <2> SUFFICES ASSUME NEW i \in Listed(t), NEW h \in Listed(t), t[i] = t[h] PROVE i = h
    OBVIOUS
  <2>1. i \in Ids /\ h \in Ids /\ i \in Nat /\ h \in Nat
    BY IdsAreFinite DEF Listed
  <2>2. ~(h < i) /\ ~(i < h)
    BY <1>1, <2>1
  <2> QED BY <2>1, <2>2
<1>6. \A j \in want : \E i \in Listed(t) : f[i] = j
  BY <1>2
<1> HIDE DEF f
<1>7. f \in Bijection(Listed(t), want)
  BY <1>4, <1>5, <1>6 DEF Bijection, Injection, Surjection, IsInjective
<1>8. Cardinality(want) = Cardinality(Listed(t))
  BY <1>7, ListedIsFinite, FS_Bijection DEF ExistsBijection
<1> QED BY <1>3, <1>8

\* Freeing the place of an extra job leaves the other differences as they
\* are: of several copies of a wanted job the first is no extra.
LEMMA DeleteDiff ==
    ASSUME NEW want \in SUBSET Jobs, NEW t \in [Ids -> Jobs \union {NoJob}],
           NEW i \in Extras(t, want)
    PROVE  /\ Extras([t EXCEPT ![i] = NoJob], want) = Extras(t, want) \ {i}
           /\ Missing([t EXCEPT ![i] = NoJob], want) = Missing(t, want)
<1> DEFINE u == [t EXCEPT ![i] = NoJob]
<1>1. i \in Ids /\ t[i] # NoJob /\ NoJob \notin Jobs
  BY ShellyAssumption DEF Extras, Listed
<1>2. \A k \in Ids : u[k] = IF k = i THEN NoJob ELSE t[k]
  OBVIOUS
<1>3. Listed(u) = Listed(t) \ {i}
  BY <1>1, <1>2 DEF Listed
<1>4. ASSUME NEW k \in Extras(u, want) PROVE k \in Extras(t, want) \ {i}
  <2>1. k \in Listed(u) /\ (u[k] \notin want \/ \E h \in Ids : h < k /\ u[h] = u[k])
    BY DEF Extras
  <2>2. k \in Ids /\ k # i /\ u[k] = t[k] /\ t[k] # NoJob
    BY <1>2, <1>3, <2>1 DEF Listed
  <2>3. \A h \in Ids : u[h] = u[k] => t[h] = t[k]
    BY <1>2, <2>2
  <2> QED BY <1>3, <2>1, <2>2, <2>3 DEF Extras
<1>5. ASSUME NEW k \in Extras(t, want) \ {i} PROVE k \in Extras(u, want)
  <2>1. k \in Listed(u) /\ k \in Ids /\ u[k] = t[k]
    BY <1>2, <1>3 DEF Extras, Listed
  <2>2. CASE t[k] \notin want
    BY <2>1, <2>2 DEF Extras
  <2>3. CASE t[k] \in want
    <3> DEFINE copies == {h \in Ids : h < k /\ t[h] = t[k]}
    <3>1. copies \in SUBSET Nat /\ copies # {}
      BY <2>3, IdsAreFinite DEF Extras
    <3>2. PICK h \in copies : \A g \in copies : h <= g
      BY <3>1, Least
    <3>3. h \in Ids /\ h \in Nat /\ k \in Nat /\ h < k /\ t[h] = t[k]
      BY <2>1, <3>2, IdsAreFinite
    <3>4. h \notin Extras(t, want)
      <4> SUFFICES ASSUME h \in Extras(t, want) PROVE FALSE
        OBVIOUS
      <4>1. PICK g \in Ids : g < h /\ t[g] = t[h]
        BY <2>3, <3>3 DEF Extras
      <4>2. g \in Nat /\ g \in copies
        BY <3>3, <4>1, IdsAreFinite
      <4> QED BY <3>2, <3>3, <4>1, <4>2
    <3>5. u[h] = u[k]
      BY <1>2, <2>1, <3>3, <3>4
    <3> QED BY <2>1, <3>3, <3>5 DEF Extras
  <2> QED BY <2>2, <2>3
<1>6. Extras(u, want) = Extras(t, want) \ {i}
  BY <1>4, <1>5
<1>7. \A j \in want : (\A k \in Ids \ Extras(u, want) : u[k] # j)
                        <=> (\A k \in Ids \ Extras(t, want) : t[k] # j)
  BY <1>1, <1>2, <1>6
<1>8. Missing(u, want) = Missing(t, want)
  BY <1>7 DEF Missing
<1> QED BY <1>6, <1>8

\* A missing job in a free place is one difference less.
LEMMA CreateDiff ==
    ASSUME NEW want \in SUBSET Jobs, NEW t \in [Ids -> Jobs \union {NoJob}],
           Extras(t, want) = {}, NEW j \in Missing(t, want), NEW i \in Ids, t[i] = NoJob
    PROVE  /\ Extras([t EXCEPT ![i] = j], want) = {}
           /\ Missing([t EXCEPT ![i] = j], want) = Missing(t, want) \ {j}
<1> DEFINE u == [t EXCEPT ![i] = j]
<1>1. j \in want /\ j # NoJob /\ \A k \in Ids : t[k] # j
  BY ShellyAssumption DEF Missing
<1>2. \A k \in Ids : u[k] = IF k = i THEN j ELSE t[k]
  OBVIOUS
<1>3. ASSUME NEW k \in Extras(u, want) PROVE FALSE
  <2>1. k \in Ids /\ u[k] # NoJob /\ (u[k] \notin want \/ \E h \in Ids : h < k /\ u[h] = u[k])
    BY DEF Extras, Listed
  <2>2. k \in Nat /\ i \in Nat
    BY <2>1, IdsAreFinite
  <2>3. CASE k = i
    <3>1. PICK h \in Ids : h < k /\ u[h] = u[k]
      BY <1>1, <1>2, <2>1, <2>3
    <3> QED BY <1>1, <1>2, <2>2, <2>3, <3>1
  <2>4. CASE k # i
    <3>1. t[k] # NoJob /\ t[k] # j /\ u[k] = t[k]
      BY <1>1, <1>2, <2>1, <2>4
    <3>2. t[k] \in want /\ \A h \in Ids : ~(h < k /\ t[h] = t[k])
      BY <2>1, <3>1 DEF Extras, Listed
    <3>3. PICK h \in Ids : h < k /\ u[h] = t[k]
      BY <2>1, <3>1, <3>2
    <3> QED BY <1>2, <3>1, <3>2, <3>3
  <2> QED BY <2>3, <2>4
<1>4. Extras(u, want) = {}
  BY <1>3
<1>5. ASSUME NEW m \in want
      PROVE  (\A k \in Ids : u[k] # m) <=> ((\A k \in Ids : t[k] # m) /\ m # j)
  <2>1. m # NoJob /\ t[i] = NoJob /\ u[i] = j
    BY <1>2, ShellyAssumption
  <2> HIDE DEF u
  <2> QED BY <1>2, <2>1
<1>6. Missing(u, want) = Missing(t, want) \ {j}
  <2>1. /\ Missing(t, want) = {m \in want : \A k \in Ids : t[k] # m}
        /\ Missing(u, want) = {m \in want : \A k \in Ids : u[k] # m}
    BY <1>4 DEF Missing
  <2> HIDE DEF u
  <2> QED BY <1>5, <2>1
<1> QED BY <1>4, <1>6

-----------------------------------------------------------------------------
(* Types *)

\* The tasks that calls begin with.
LEMMA TaskTypes ==
    /\ Idle \in Tasks /\ [Idle EXCEPT !.pc = "wipe"] \in Tasks
    /\ \A v \in 0..MaxChanges : Asked(v) \in Tasks
<1>1. 0 \in 0..MaxChanges /\ {} \in SUBSET Jobs /\ {} \in SUBSET Ids
  BY ShellyAssumption
<1>2. Idle \in Tasks
  BY <1>1 DEF Idle, Tasks
<1>3. [Idle EXCEPT !.pc = "wipe"] \in Tasks
  BY <1>2 DEF Tasks
<1>4. ASSUME NEW v \in 0..MaxChanges PROVE Asked(v) \in Tasks
  BY <1>2 DEF Asked, Tasks
<1> QED BY <1>2, <1>3, <1>4

\* A call that begins is a task of its slot.
LEMMA BeginType ==
    ASSUME TypeOK, NEW s \in Slots, NEW task \in Tasks, Begin(s, task)
    PROVE  syncs' \in [Slots -> Tasks] /\ tangled' \in BOOLEAN
<1>1. \A r \in Slots, b \in BOOLEAN : [syncs[r] EXCEPT !.clear = b] \in Tasks
  BY DEF TypeOK, Tasks
<1>2. [task EXCEPT !.clear = Quiet] \in Tasks
  BY DEF Tasks, Quiet, Busy
<1>3. tangled' \in BOOLEAN
  BY DEF TypeOK, Begin, Quiet
<1> QED BY <1>1, <1>2, <1>3 DEF Begin

\* A change keeps every counter within its bound.
LEMMA ChangeBound ==
    ASSUME TypeOK, Change
    PROVE  /\ version + 1 \in 0..MaxChanges /\ day + 1 \in 0..MaxChanges
           /\ trouble + 1 \in 0..MaxChanges
BY ShellyAssumption DEF TypeOK, Change

\* An empty table is a table.
LEMMA EmptyTable ==
    LET t == [i \in Ids |-> NoJob]
    IN  /\ t \in [Ids -> Jobs \union {NoJob}] /\ JobsIn(t) = {}
        /\ Listed(t) = {} /\ Cardinality(Listed(t)) = 0
<1>1. Listed([i \in Ids |-> NoJob]) = {}
  BY DEF Listed
<1>2. JobsIn([i \in Ids |-> NoJob]) = {}
  BY DEF JobsIn
<1> QED BY <1>1, <1>2, FS_EmptySet

LEMMA InitType == Init => TypeOK
<1> SUFFICES ASSUME Init PROVE TypeOK
  OBVIOUS
<1>1. table \in [Ids -> Jobs \union {NoJob}] /\ Cardinality(Listed(table)) <= Cap
  BY EmptyTable, ShellyAssumption DEF Init
<1>2. 0 \in 0..MaxChanges /\ window \in 0..Window /\ rows \in SUBSET Jobs
  BY ShellyAssumption DEF Init
<1> QED BY <1>1, <1>2, TaskTypes DEF Init, TypeOK

\* Edits, the minute's look, and the unit that dials in.
LEMMA PushType ==
    ASSUME TypeOK, NEW s \in Slots,
           (\E j \in Jobs : Edit(j, s)) \/ Resync(s) \/ Connect(s) \/ Remove(s)
    PROVE  TypeOK'
<1>1. ASSUME NEW j \in Jobs, Edit(j, s) PROVE TypeOK'
  <2>1. version' \in 0..MaxChanges /\ rows' \in SUBSET Jobs
    BY <1>1, ChangeBound DEF TypeOK, Edit
  <2>2. syncs' \in [Slots -> Tasks] /\ tangled' \in BOOLEAN
    BY <1>1, <2>1, BeginType, TaskTypes DEF TypeOK, Edit, Push
  <2> QED BY <1>1, <2>1, <2>2 DEF TypeOK, Edit, unit
<1>2. CASE Resync(s)
  <2>1. syncs' \in [Slots -> Tasks] /\ tangled' \in BOOLEAN
    BY <1>2, BeginType, TaskTypes DEF TypeOK, Resync, Push
  <2> QED BY <1>2, <2>1 DEF TypeOK, Resync, unit
<1>3. CASE Connect(s)
  <2>1. syncs' \in [Slots -> Tasks] /\ tangled' \in BOOLEAN
    BY <1>3, BeginType, TaskTypes DEF TypeOK, Connect, Push
  <2> QED BY <1>3, <2>1, ShellyAssumption DEF TypeOK, Connect
<1>4. CASE Remove(s)
  <2>1. syncs' \in [Slots -> Tasks] /\ tangled' \in BOOLEAN
    BY <1>4, BeginType, TaskTypes DEF Remove
  <2> QED BY <1>4, <2>1, ChangeBound DEF TypeOK, Remove, unit
<1> QED BY <1>1, <1>2, <1>3, <1>4

\* The fields of a call under way.
LEMMA TaskFields ==
    ASSUME TypeOK, NEW s \in Slots
    PROVE  /\ syncs[s] \in Tasks /\ syncs[s].want \in SUBSET Jobs
           /\ syncs[s].extras \in SUBSET Ids /\ syncs[s].missing \in SUBSET Jobs
           /\ syncs[s].target \in Nat /\ syncs[s].clear \in BOOLEAN
BY ShellyAssumption DEF TypeOK, Tasks

\* A call leaves or uses up the connection.
LEMMA CallType ==
    ASSUME TypeOK, Call PROVE window' \in 0..Window
BY ShellyAssumption DEF TypeOK, Call

\* What a call may do to its slot has the type of a task.
LEMMA SlotType ==
    ASSUME TypeOK, NEW s \in Slots, NEW task \in Tasks
    PROVE  /\ [syncs EXCEPT ![s] = task] \in [Slots -> Tasks]
           /\ [syncs EXCEPT ![s] = Idle] \in [Slots -> Tasks]
BY TaskTypes DEF TypeOK

\* A deleted job makes room, a created one is refused where there is none.
LEMMA TableType ==
    ASSUME TypeOK, NEW s \in Slots,
           (\E i \in Ids : Delete(s, i)) \/ (\E j \in Jobs : Create(s, j))
    PROVE  table' \in [Ids -> Jobs \union {NoJob}] /\ Cardinality(Listed(table')) <= Cap
<1>1. /\ table \in [Ids -> Jobs \union {NoJob}] /\ Cap \in Nat
      /\ IsFiniteSet(Listed(table)) /\ Cardinality(Listed(table)) \in Nat
      /\ Cardinality(Listed(table)) <= Cap
  BY ListedIsFinite, ShellyAssumption DEF TypeOK
<1>2. ASSUME NEW i \in Ids, Delete(s, i)
      PROVE  table' \in [Ids -> Jobs \union {NoJob}] /\ Cardinality(Listed(table')) <= Cap
  <2>1. table' = [table EXCEPT ![i] = NoJob]
    BY <1>2 DEF Delete
  <2>2. Listed(table') \in SUBSET Listed(table)
    BY <1>1, <2>1 DEF Listed
  <2>3. Cardinality(Listed(table')) <= Cardinality(Listed(table)) /\ Cardinality(Listed(table')) \in Nat
    BY <1>1, <2>2, FS_Subset, FS_CardinalityType
  <2> QED BY <1>1, <2>1, <2>3
<1>3. ASSUME NEW j \in Jobs, Create(s, j)
      PROVE  table' \in [Ids -> Jobs \union {NoJob}] /\ Cardinality(Listed(table')) <= Cap
  <2>1. CASE table' = table
    BY <1>1, <2>1
  <2>2. CASE /\ ~(Cardinality(Listed(table)) >= Cap \/ FreeIds = {})
             /\ table' = [table EXCEPT ![Min(FreeIds)] = j]
    <3> DEFINE i == Min(FreeIds)
    <3>1. FreeIds \in SUBSET Nat /\ FreeIds \subseteq Ids
      BY IdsAreFinite DEF FreeIds
    <3>2. i \in Ids /\ table' = [table EXCEPT ![i] = j]
      BY <2>2, <3>1, Least
    <3> HIDE DEF i
    <3>3. Listed(table') \in SUBSET (Listed(table) \union {i})
      BY <1>1, <3>2 DEF Listed
    <3>4. /\ IsFiniteSet(Listed(table) \union {i})
          /\ Cardinality(Listed(table) \union {i}) \in Nat
          /\ Cardinality(Listed(table) \union {i}) <= Cardinality(Listed(table)) + 1
      <4> DEFINE L == Listed(table)
      <4>1. IsFiniteSet(L) /\ Cardinality(L) \in Nat
        BY <1>1
      <4> HIDE DEF L
      <4>2. /\ IsFiniteSet(L \union {i})
            /\ Cardinality(L \union {i}) = IF i \in L THEN Cardinality(L) ELSE Cardinality(L) + 1
        BY <4>1, FS_AddElement
      <4>3. Cardinality(L \union {i}) \in Nat /\ Cardinality(L \union {i}) <= Cardinality(L) + 1
        BY <4>1, <4>2
      <4> QED BY <4>2, <4>3 DEF L
    <3>5. /\ Cardinality(Listed(table')) <= Cardinality(Listed(table) \union {i})
          /\ Cardinality(Listed(table')) \in Nat
      BY <3>3, <3>4, FS_Subset, FS_CardinalityType
    <3>6. Cardinality(Listed(table)) + 1 <= Cap
      BY <1>1, <2>2
    <3>7. Cardinality(Listed(table')) <= Cap
      BY <1>1, <3>4, <3>5, <3>6
    <3> QED BY <1>1, <3>2, <3>7
  <2> QED BY <1>3, <2>1, <2>2 DEF Create
<1> QED BY <1>2, <1>3

\* What a call does to its own slot.
LEMMA StepSlot ==
    ASSUME TypeOK, NEW s \in Slots, Step(s)
    PROVE  \E task \in Tasks : syncs' = [syncs EXCEPT ![s] = task]
<1>1. syncs[s] \in Tasks /\ Idle \in Tasks
  BY TaskFields, TaskTypes
<1>2. ASSUME NEW kept \in SUBSET rows, ReadRows(s, kept)
      PROVE  \E task \in Tasks : syncs' = [syncs EXCEPT ![s] = task]
  <2>1. [syncs[s] EXCEPT !.pc = "list", !.want = kept] \in Tasks
    BY <1>1 DEF TypeOK, Tasks
  <2> QED BY <1>2, <2>1 DEF TypeOK, ReadRows
<1>3. CASE List(s)
  <2>1. Extras(table, syncs[s].want) \in SUBSET Ids /\ Missing(table, syncs[s].want) \in SUBSET Jobs
    BY TaskFields DEF Extras, Listed, Missing
  <2> DEFINE task == [syncs[s] EXCEPT !.pc = "write", !.extras = Extras(table, syncs[s].want),
                                      !.missing = Missing(table, syncs[s].want)]
  <2>2. task \in Tasks
    BY <1>1, <2>1 DEF Tasks
  <2>3. syncs' = [syncs EXCEPT ![s] = task] \/ syncs' = [syncs EXCEPT ![s] = Idle]
    BY <1>3 DEF TypeOK, List, Lost, GiveUp
  <2> HIDE DEF task
  <2> QED BY <1>1, <2>2, <2>3
<1>4. ASSUME NEW i \in Ids, Delete(s, i)
      PROVE  \E task \in Tasks : syncs' = [syncs EXCEPT ![s] = task]
  <2> DEFINE task == [syncs[s] EXCEPT !.extras = syncs[s].extras \ {i}]
  <2>1. task \in Tasks
    BY <1>1 DEF Tasks
  <2>2. syncs' = [syncs EXCEPT ![s] = task] \/ syncs' = [syncs EXCEPT ![s] = Idle]
    BY <1>4 DEF Delete, Lost, GiveUp
  <2> HIDE DEF task
  <2> QED BY <1>1, <2>1, <2>2
<1>5. ASSUME NEW j \in Jobs, Create(s, j)
      PROVE  \E task \in Tasks : syncs' = [syncs EXCEPT ![s] = task]
  <2> DEFINE task == [syncs[s] EXCEPT !.missing = syncs[s].missing \ {j}]
  <2>1. task \in Tasks
    BY <1>1 DEF Tasks
  <2>2. syncs' = [syncs EXCEPT ![s] = task] \/ syncs' = [syncs EXCEPT ![s] = Idle]
    BY <1>5 DEF Create, Lost, GiveUp
  <2> HIDE DEF task
  <2> QED BY <1>1, <2>1, <2>2
<1>6. CASE TimeOut(s) \/ Finish(s) \/ Wipe(s)
  BY <1>1, <1>6 DEF TimeOut, GiveUp, Finish, Wipe
<1> QED BY <1>2, <1>3, <1>4, <1>5, <1>6 DEF Step

LEMMA StepType ==
    ASSUME TypeOK, NEW s \in Slots, Step(s) PROVE TypeOK'
<1>1. syncs' \in [Slots -> Tasks]
  BY StepSlot, SlotType
<1>2. table' \in [Ids -> Jobs \union {NoJob}] /\ Cardinality(Listed(table')) <= Cap
  <2>1. CASE (\E i \in Ids : Delete(s, i)) \/ (\E j \in Jobs : Create(s, j))
    BY <2>1, TableType
  <2>2. CASE Wipe(s)
    BY <2>2, EmptyTable, ShellyAssumption DEF TypeOK, Wipe, unit
  <2>3. CASE (\E kept \in SUBSET rows : ReadRows(s, kept)) \/ List(s) \/ TimeOut(s) \/ Finish(s)
    BY <2>3 DEF TypeOK, ReadRows, List, TimeOut, Finish, unit
  <2> QED BY <2>1, <2>2, <2>3 DEF Step
<1>3. window' \in 0..Window
  <2>1. Call \/ window' = window \/ (window > 0 /\ window' = window - 1)
    BY DEF Step, ReadRows, List, Delete, Create, TimeOut, Finish, Wipe, unit
  <2> QED BY <2>1, ShellyAssumption DEF TypeOK, Call
<1>4. syncStatus' \in {"pending", "synced", "error"}
  BY DEF TypeOK, Step, ReadRows, List, Delete, Create, TimeOut, Finish, Wipe, GiveUp, Lost
<1>5. tangled' \in BOOLEAN /\ wiped' \in BOOLEAN
  BY TaskFields DEF TypeOK, Step, ReadRows, List, Delete, Create, TimeOut, Finish, Wipe
<1>6. UNCHANGED <<day, refreshed, rows, version, owned, trouble>>
  BY DEF Step, ReadRows, List, Delete, Create, TimeOut, Finish, Wipe, SyncFrame
<1> QED BY <1>1, <1>2, <1>3, <1>4, <1>5, <1>6 DEF TypeOK

\* Every step keeps the types.
LEMMA NextType == TypeOK /\ [Next]_vars => TypeOK'
<1> SUFFICES ASSUME TypeOK, [Next]_vars PROVE TypeOK'
  OBVIOUS
<1>1. CASE Recover \/ Daily
  BY <1>1 DEF TypeOK, Recover, Daily, unit
<1>2. CASE Midnight
  BY <1>2, ChangeBound DEF TypeOK, Midnight, unit
<1>3. CASE Restart
  BY <1>3, ChangeBound, TaskTypes DEF TypeOK, Restart, unit
<1>4. CASE UNCHANGED vars
  BY <1>4 DEF TypeOK, vars, unit
<1> QED BY <1>1, <1>2, <1>3, <1>4, PushType, StepType DEF Next

\* Every variable keeps its type, and the table of the unit never holds more
\* jobs than it has places, whatever calls are under way together: a call
\* deletes before it creates, and the unit refuses what does not fit.
THEOREM TypeCorrect == Spec => []TypeOK
BY InitType, NextType, PTL DEF Spec
-----------------------------------------------------------------------------
(* The invariant *)

\* A call that is clear is alone, and unless two overlapped each call is clear.
CallsAreAlone ==
    /\ \A s \in Slots : Busy(s) /\ syncs[s].clear => \A r \in Slots \ {s} : ~Busy(r)
    /\ ~tangled => \A s \in Slots : Busy(s) => syncs[s].clear

\* While a clear call is under way, a unit in use is not called synced, and
\* for one that was removed the call is the wipe, which has not gone through.
NotYetDone ==
    \A s \in Slots : Busy(s) /\ syncs[s].clear =>
        IF owned THEN syncStatus # "synced" ELSE syncs[s].pc = "wipe" /\ ~wiped

\* What a clear call has still to write is all that the table lacks.
DiffIsTrue ==
    \A s \in Slots : syncs[s].pc = "write" /\ syncs[s].clear =>
        /\ syncs[s].extras = Extras(table, syncs[s].want)
        /\ syncs[s].missing = Missing(table, syncs[s].want)

\* These jobs fitted on some day up to today.
Fits(kept) == \E d \in 0..day : IsFit(kept, rows, d % Week)

\* No call aims at a version that is not there, and one that aims at the
\* newest has read the rows of today.
TargetsAreRead ==
    \A s \in Slots :
        /\ syncs[s].pc \in {"rows", "list", "write"} => syncs[s].target <= version
        /\ syncs[s].pc \in {"list", "write"} /\ syncs[s].target = version => Fits(syncs[s].want)

\* What the status promises, and that nothing is under way that could break it.
TableIsRight ==
    ~tangled =>
        /\ owned /\ syncStatus = "synced" =>
            Quiet /\ \E kept \in SUBSET rows : Holds(kept) /\ Fits(kept)
        /\ ~owned /\ wiped => Quiet /\ Holds({})

Inv == TypeOK /\ CallsAreAlone /\ NotYetDone /\ DiffIsTrue /\ TargetsAreRead /\ TableIsRight

LEMMA InitInv == Init => Inv
<1> SUFFICES ASSUME Init PROVE Inv
  OBVIOUS
<1>1. \A s \in Slots : syncs[s].pc = "idle"
  BY DEF Init, Idle
<1> QED BY <1>1, InitType DEF Init, Inv, CallsAreAlone, NotYetDone, DiffIsTrue, TargetsAreRead,
             TableIsRight, Busy

-----------------------------------------------------------------------------
(* A call begins *)

\* What Begin leaves: a call in s, and every other one no longer clear.
LEMMA Begun ==
    ASSUME TypeOK, NEW s \in Slots, NEW task \in Tasks, Begin(s, task)
    PROVE  /\ syncs[s].pc = "idle" /\ syncs'[s].pc = task.pc
           /\ syncs'[s].target = task.target /\ syncs'[s].want = task.want
           /\ syncs'[s].clear => Quiet
           /\ \A r \in Slots \ {s} : /\ syncs'[r].pc = syncs[r].pc /\ ~syncs'[r].clear
                                     /\ syncs'[r].target = syncs[r].target
                                     /\ syncs'[r].want = syncs[r].want
           /\ ~tangled' => ~tangled /\ Quiet /\ syncs'[s].clear
<1>1. syncs' = [r \in Slots |-> IF r = s THEN [task EXCEPT !.clear = Quiet]
                                ELSE [syncs[r] EXCEPT !.clear = FALSE]]
  BY DEF Begin
<1>2. syncs'[s] = [task EXCEPT !.clear = Quiet]
  BY <1>1
<1>3. syncs'[s].pc = task.pc /\ syncs'[s].target = task.target /\ syncs'[s].want = task.want
      /\ syncs'[s].clear = Quiet
  BY <1>2 DEF Tasks
<1>4. ASSUME NEW r \in Slots \ {s}
      PROVE  /\ syncs'[r].pc = syncs[r].pc /\ ~syncs'[r].clear
             /\ syncs'[r].target = syncs[r].target /\ syncs'[r].want = syncs[r].want
  <2>1. syncs'[r] = [syncs[r] EXCEPT !.clear = FALSE] /\ syncs[r] \in Tasks
    BY <1>1 DEF TypeOK
  <2> QED BY <2>1 DEF Tasks
<1> QED BY <1>3, <1>4 DEF Begin, Busy

\* A call that begins keeps what is said of the calls, if its unit is not
\* said to be done with.
LEMMA BeginKeeps ==
    ASSUME Inv, NEW s \in Slots, NEW task \in Tasks, Begin(s, task),
           task.pc \in {"rows", "wipe"}, UNCHANGED table,
           IF owned' THEN syncStatus' # "synced" ELSE task.pc = "wipe" /\ ~wiped'
    PROVE  CallsAreAlone' /\ NotYetDone' /\ DiffIsTrue' /\ TableIsRight'
<1>1. TypeOK
  BY DEF Inv
<1>2. /\ syncs'[s].pc = task.pc /\ (syncs'[s].clear => Quiet)
      /\ \A r \in Slots \ {s} : syncs'[r].pc = syncs[r].pc /\ ~syncs'[r].clear
      /\ ~tangled' => Quiet /\ syncs'[s].clear
  BY <1>1, Begun
<1>3. CallsAreAlone'
  BY <1>2 DEF CallsAreAlone, Busy, Quiet
<1>4. NotYetDone'
  BY <1>2 DEF NotYetDone
<1>5. DiffIsTrue'
  BY <1>2 DEF DiffIsTrue
<1>6. TableIsRight'
  BY DEF TableIsRight
<1> QED BY <1>3, <1>4, <1>5, <1>6

\* A push aims at the newest version.
LEMMA PushTargets ==
    ASSUME Inv, NEW s \in Slots, Push(s, version'), version' \in 0..MaxChanges,
           \/ version' = version /\ rows' = rows /\ day' = day
           \/ version' = version + 1
    PROVE  TargetsAreRead'
<1>1. TypeOK /\ TargetsAreRead /\ Begin(s, Asked(version')) /\ Asked(version') \in Tasks
  BY TaskTypes DEF Inv, Push
<1>2. Asked(version').pc = "rows" /\ Asked(version').target = version'
  BY DEF Asked, Idle
<1>3. /\ syncs'[s].pc = "rows" /\ syncs'[s].target = version'
      /\ \A r \in Slots \ {s} : /\ syncs'[r].pc = syncs[r].pc /\ syncs'[r].target = syncs[r].target
                                /\ syncs'[r].want = syncs[r].want
  BY <1>1, <1>2, Begun
<1>4. version \in Nat /\ version' \in Nat /\ \A r \in Slots : syncs[r].target \in Nat
  BY <1>1, TaskFields, ShellyAssumption DEF TypeOK
<1>5. ASSUME NEW r \in Slots
      PROVE  (/\ syncs[r].pc \in {"rows", "list", "write"} => syncs[r].target <= version
              /\ syncs[r].pc \in {"list", "write"} /\ syncs[r].target = version => Fits(syncs[r].want))'
  <2>1. CASE r = s
    BY <1>3, <1>4, <2>1
  <2>2. CASE r # s
    <3>1. /\ syncs'[r].pc = syncs[r].pc /\ syncs'[r].target = syncs[r].target
          /\ syncs'[r].want = syncs[r].want
      BY <1>3, <2>2
    <3>2. /\ syncs[r].pc \in {"rows", "list", "write"} => syncs[r].target <= version
          /\ syncs[r].pc \in {"list", "write"} /\ syncs[r].target = version => Fits(syncs[r].want)
      BY <1>1 DEF TargetsAreRead
    <3>3. CASE version' = version + 1
      BY <1>4, <3>1, <3>2, <3>3
    <3>4. CASE version' = version /\ rows' = rows /\ day' = day
      BY <1>4, <3>1, <3>2, <3>4 DEF Fits
    <3> QED BY <3>3, <3>4
  <2> QED BY <2>1, <2>2
<1> QED BY <1>5 DEF TargetsAreRead

\* Nothing is said that a step at rest could break: the calls, the table and
\* what was asked stay.
LEMMA NothingBegins ==
    ASSUME Inv, UNCHANGED <<table, syncs, tangled, wiped, owned>>,
           syncStatus' = "synced" => syncStatus = "synced",
           \/ version' = version /\ rows' = rows /\ day' = day
           \/ version' = version + 1 /\ (owned => syncStatus' # "synced")
           \/ version' = version /\ rows' = rows /\ day' = day + 1
    PROVE  CallsAreAlone' /\ NotYetDone' /\ DiffIsTrue' /\ TargetsAreRead' /\ TableIsRight'
<1>1. CallsAreAlone'
  BY DEF Inv, CallsAreAlone, Busy
<1>2. NotYetDone'
  BY DEF Inv, NotYetDone, Busy
<1>3. DiffIsTrue'
  BY DEF Inv, DiffIsTrue, Extras, Missing, Listed
<1>4. version \in Nat /\ day \in Nat /\ \A r \in Slots : syncs[r].target \in Nat
  BY TaskFields, ShellyAssumption DEF Inv, TypeOK
<1>5. version' = version /\ rows' = rows /\ day' \in {day, day + 1} => \A kept : Fits(kept) => Fits(kept)'
  BY <1>4 DEF Fits, IsFit, Sooner
<1>6. TargetsAreRead'
  <2>1. CASE version' = version + 1
    BY <1>4, <2>1 DEF Inv, TargetsAreRead
  <2>2. CASE version' = version /\ rows' = rows /\ day' \in {day, day + 1}
    BY <1>5, <2>2 DEF Inv, TargetsAreRead
  <2> QED BY <2>1, <2>2
<1>7. TableIsRight'
  <2>1. Quiet' <=> Quiet
    BY DEF Quiet, Busy
  <2>2. \A kept : Holds(kept)' <=> Holds(kept)
    BY DEF Holds, JobsIn, Listed
  <2>3. CASE version' = version + 1
    BY <2>1, <2>2, <2>3 DEF Inv, TableIsRight
  <2>4. CASE version' = version /\ rows' = rows /\ day' \in {day, day + 1}
    BY <1>5, <2>1, <2>2, <2>4 DEF Inv, TableIsRight
  <2> QED BY <2>3, <2>4
<1> QED BY <1>1, <1>2, <1>3, <1>6, <1>7

\* Edits, the minute's look, the unit that dials in, and the removal.
LEMMA PushInv ==
    ASSUME Inv, NEW s \in Slots,
           (\E j \in Jobs : Edit(j, s)) \/ Resync(s) \/ Connect(s) \/ Remove(s)
    PROVE  CallsAreAlone' /\ NotYetDone' /\ DiffIsTrue' /\ TargetsAreRead' /\ TableIsRight'
<1>1. TypeOK /\ version \in 0..MaxChanges
  BY DEF Inv, TypeOK
<1>2. \A v \in 0..MaxChanges : Asked(v) \in Tasks /\ Asked(v).pc = "rows"
  BY TaskTypes DEF Asked, Idle
<1>3. ASSUME NEW j \in Jobs, Edit(j, s)
      PROVE  CallsAreAlone' /\ NotYetDone' /\ DiffIsTrue' /\ TargetsAreRead' /\ TableIsRight'
  <2>1. /\ version' = version + 1 /\ version' \in 0..MaxChanges /\ syncStatus' = "pending"
        /\ table' = table /\ owned' = owned /\ wiped' = wiped
    BY <1>1, <1>3, ChangeBound DEF Edit, unit
  <2>2. CASE owned
    <3>1. Push(s, version')
      BY <1>3, <2>1, <2>2 DEF Edit
    <3>2. TargetsAreRead'
      BY <2>1, <3>1, PushTargets
    <3> QED BY <1>2, <2>1, <2>2, <3>1, <3>2, BeginKeeps DEF Push
  <2>3. CASE ~owned
    <3>1. syncs' = syncs /\ tangled' = tangled
      BY <1>3, <2>3 DEF Edit
    <3> QED BY <2>1, <2>3, <3>1, NothingBegins
  <2> QED BY <2>2, <2>3
<1>4. CASE Resync(s) \/ (Connect(s) /\ owned /\ syncStatus # "synced")
  <2>1. /\ Push(s, version') /\ version' = version /\ rows' = rows /\ day' = day /\ table' = table
        /\ owned' /\ syncStatus' # "synced"
    BY <1>4 DEF Resync, Connect, unit
  <2>2. TargetsAreRead'
    BY <1>1, <2>1, PushTargets
  <2> QED BY <1>1, <1>2, <2>1, <2>2, BeginKeeps DEF Push
<1>5. CASE Connect(s) /\ ~(owned /\ syncStatus # "synced")
  <2>1. /\ UNCHANGED <<table, syncs, tangled, wiped, owned, syncStatus>>
        /\ version' = version /\ rows' = rows /\ day' = day
    BY <1>5 DEF Connect
  <2> QED BY <2>1, NothingBegins
<1>6. CASE Remove(s)
  <2> DEFINE task == [Idle EXCEPT !.pc = "wipe"]
  <2>1. /\ Begin(s, task) /\ task \in Tasks /\ task.pc = "wipe"
        /\ ~owned' /\ ~wiped' /\ table' = table /\ version' = version /\ rows' = rows /\ day' = day
    BY <1>6, TaskTypes DEF Remove, unit, Idle
  <2> HIDE DEF task
  <2>2. CallsAreAlone' /\ NotYetDone' /\ DiffIsTrue' /\ TableIsRight'
    BY <2>1, BeginKeeps
  <2>3. /\ syncs'[s].pc = "wipe"
        /\ \A r \in Slots \ {s} : /\ syncs'[r].pc = syncs[r].pc /\ syncs'[r].target = syncs[r].target
                                  /\ syncs'[r].want = syncs[r].want
    BY <1>1, <2>1, Begun
  <2>4. \A kept : Fits(kept)' <=> Fits(kept)
    BY <2>1 DEF Fits
  <2>5. TargetsAreRead'
    BY <2>1, <2>3, <2>4 DEF Inv, TargetsAreRead
  <2> QED BY <2>2, <2>5
<1> QED BY <1>3, <1>4, <1>5, <1>6

-----------------------------------------------------------------------------
(* A call goes on *)

\* Who does a step of a call is under way, and the other slots keep theirs.
LEMMA OneSlotSteps ==
    ASSUME TypeOK, NEW s \in Slots, Step(s)
    PROVE  /\ Busy(s) /\ \A r \in Slots \ {s} : syncs'[r] = syncs[r]
           /\ UNCHANGED <<day, refreshed, rows, version, owned, trouble>>
<1>1. PICK task \in Tasks : syncs' = [syncs EXCEPT ![s] = task]
  BY StepSlot
<1>2. \A r \in Slots \ {s} : syncs'[r] = syncs[r]
  BY <1>1 DEF TypeOK
<1>3. syncs[s].pc \in {"rows", "list", "write", "wipe"}
  BY DEF Step, ReadRows, List, Delete, Create, TimeOut, Finish, Written, Wipe
<1>4. UNCHANGED <<day, refreshed, rows, version, owned, trouble>>
  BY DEF Step, ReadRows, List, Delete, Create, TimeOut, Finish, Wipe, SyncFrame
<1> QED BY <1>2, <1>3, <1>4 DEF Busy

\* A call that goes on keeps its target, and what it wants once it read the rows.
Goes(s) ==
    /\ syncs'[s].clear = syncs[s].clear /\ syncs'[s].target = syncs[s].target
    /\ UNCHANGED <<tangled, wiped, syncStatus>>
    /\ \/ /\ syncs[s].pc = "rows" /\ syncs'[s].pc = "list"
          /\ IsFit(syncs'[s].want, rows, Today) /\ table' = table
       \/ /\ syncs[s].pc = "list" /\ syncs'[s].pc = "write" /\ syncs'[s].want = syncs[s].want
          /\ table' = table
          /\ syncs'[s].extras = Extras(table, syncs[s].want)
          /\ syncs'[s].missing = Missing(table, syncs[s].want)
       \/ /\ syncs[s].pc = "write" /\ syncs'[s].pc = "write" /\ syncs'[s].want = syncs[s].want
          /\ \E i \in syncs[s].extras :
                /\ table' = [table EXCEPT ![i] = NoJob]
                /\ syncs'[s].extras = syncs[s].extras \ {i} /\ syncs'[s].missing = syncs[s].missing
       \/ /\ syncs[s].pc = "write" /\ syncs'[s].pc = "write" /\ syncs'[s].want = syncs[s].want
          /\ syncs[s].extras = {} /\ syncs'[s].extras = {}
          /\ \E j \in syncs[s].missing, i \in Ids :
                /\ table[i] = NoJob /\ table' = [table EXCEPT ![i] = j]
                /\ syncs'[s].missing = syncs[s].missing \ {j}

\* A call that gives up leaves its unit in error; a wipe may fail in silence.
Fails(s) ==
    /\ syncs'[s] = Idle /\ UNCHANGED <<tangled, wiped>>
    /\ syncStatus' = "error" \/ (syncStatus' = syncStatus /\ syncs[s].pc = "wipe")

\* The last step of a call that reached its end.
WipedNow(s) ==
    /\ syncs[s].pc = "wipe" /\ syncs'[s] = Idle
    /\ table' = [i \in Ids |-> NoJob]
    /\ wiped' = ~owned /\ tangled' = (tangled /\ ~syncs[s].clear) /\ syncStatus' = syncStatus

\* The place of a new job.
LEMMA FreePlace ==
    ASSUME FreeIds # {} PROVE Min(FreeIds) \in Ids /\ table[Min(FreeIds)] = NoJob
<1>1. FreeIds \in SUBSET Nat
  BY IdsAreFinite DEF FreeIds
<1>2. Min(FreeIds) \in FreeIds
  BY <1>1, Least
<1> QED BY <1>2 DEF FreeIds

\* A step of a call is one of these four.
LEMMA StepKinds ==
    ASSUME TypeOK, NEW s \in Slots, Step(s)
    PROVE  Goes(s) \/ Fails(s) \/ Finish(s) \/ WipedNow(s)
<1>1. syncs \in [Slots -> Tasks] /\ syncs[s] \in Tasks /\ table \in [Ids -> Jobs \union {NoJob}]
  BY DEF TypeOK
<1>2. ASSUME GiveUp(s), UNCHANGED <<tangled, wiped>> PROVE Fails(s)
  BY <1>1, <1>2 DEF GiveUp, Fails
<1>3. ASSUME NEW kept \in SUBSET rows, ReadRows(s, kept) PROVE Goes(s)
  <2>1. /\ syncs'[s] = [syncs[s] EXCEPT !.pc = "list", !.want = kept]
        /\ syncs[s].pc = "rows" /\ IsFit(kept, rows, Today) /\ table' = table
        /\ UNCHANGED <<tangled, wiped, syncStatus>>
    BY <1>1, <1>3 DEF ReadRows, unit
  <2>2. /\ syncs'[s].pc = "list" /\ syncs'[s].want = kept
        /\ syncs'[s].clear = syncs[s].clear /\ syncs'[s].target = syncs[s].target
    BY <1>1, <2>1 DEF Tasks
  <2> QED BY <2>1, <2>2 DEF Goes
<1>4. CASE List(s)
  <2>1. CASE Lost(s)
    BY <1>2, <1>4, <2>1 DEF List, Lost
  <2>2. CASE ~Lost(s)
    <3> DEFINE X == Extras(table, syncs[s].want)
               M == Missing(table, syncs[s].want)
    <3>1. /\ syncs'[s] = [syncs[s] EXCEPT !.pc = "write", !.extras = X, !.missing = M]
          /\ syncs[s].pc = "list" /\ table' = table /\ UNCHANGED <<tangled, wiped, syncStatus>>
      BY <1>1, <1>4, <2>2 DEF List
    <3> HIDE DEF X, M
    <3>2. /\ syncs'[s].pc = "write" /\ syncs'[s].extras = X /\ syncs'[s].missing = M
          /\ syncs'[s].clear = syncs[s].clear /\ syncs'[s].target = syncs[s].target
          /\ syncs'[s].want = syncs[s].want
      BY <1>1, <3>1 DEF Tasks
    <3> QED BY <3>1, <3>2 DEF Goes, X, M
  <2> QED BY <2>1, <2>2
<1>5. ASSUME NEW i \in Ids, Delete(s, i) PROVE Goes(s) \/ Fails(s)
  <2>1. CASE GiveUp(s)
    BY <1>2, <1>5, <2>1 DEF Delete
  <2>2. CASE ~GiveUp(s)
    <3>1. /\ syncs' = [syncs EXCEPT ![s].extras = syncs[s].extras \ {i}]
          /\ syncs[s].pc = "write" /\ i \in syncs[s].extras /\ table' = [table EXCEPT ![i] = NoJob]
          /\ UNCHANGED <<tangled, wiped, syncStatus>>
      BY <1>1, <1>5, <2>2 DEF Delete, Lost
    <3>2. /\ syncs'[s].pc = "write" /\ syncs'[s].extras = syncs[s].extras \ {i}
          /\ syncs'[s].missing = syncs[s].missing
          /\ syncs'[s].clear = syncs[s].clear /\ syncs'[s].target = syncs[s].target
          /\ syncs'[s].want = syncs[s].want
      BY <1>1, <3>1 DEF Tasks
    <3> QED BY <3>1, <3>2 DEF Goes
  <2> QED BY <2>1, <2>2
<1>6. ASSUME NEW j \in Jobs, Create(s, j) PROVE Goes(s) \/ Fails(s)
  <2>1. CASE GiveUp(s)
    BY <1>2, <1>6, <2>1 DEF Create
  <2>2. CASE ~GiveUp(s)
    <3> DEFINE i == Min(FreeIds)
    <3>1. /\ syncs' = [syncs EXCEPT ![s].missing = syncs[s].missing \ {j}]
          /\ syncs[s].pc = "write" /\ syncs[s].extras = {} /\ j \in syncs[s].missing
          /\ FreeIds # {} /\ table' = [table EXCEPT ![i] = j]
          /\ UNCHANGED <<tangled, wiped, syncStatus>>
      BY <1>1, <1>6, <2>2 DEF Create, Lost
    <3>2. i \in Ids /\ table[i] = NoJob
      BY <3>1, FreePlace
    <3> HIDE DEF i
    <3>3. /\ syncs'[s].pc = "write" /\ syncs'[s].missing = syncs[s].missing \ {j}
          /\ syncs'[s].extras = syncs[s].extras
          /\ syncs'[s].clear = syncs[s].clear /\ syncs'[s].target = syncs[s].target
          /\ syncs'[s].want = syncs[s].want
      BY <1>1, <3>1 DEF Tasks
    <3> QED BY <3>1, <3>2, <3>3 DEF Goes
  <2> QED BY <2>1, <2>2
<1>7. CASE TimeOut(s)
  BY <1>2, <1>7 DEF TimeOut
<1>8. CASE Wipe(s)
  BY <1>1, <1>8 DEF Wipe, WipedNow, Fails
<1> QED BY <1>3, <1>4, <1>5, <1>6, <1>7, <1>8 DEF Step

\* The slots after a step: only a clear call's own slot can be clear and busy.
LEMMA StepAlone ==
    ASSUME Inv, NEW s \in Slots, Step(s)
    PROVE  /\ CallsAreAlone'
           /\ \A r \in Slots : Busy(r)' /\ syncs'[r].clear => r = s /\ syncs[s].clear
           /\ ~tangled' => syncs[s].clear /\ \A r \in Slots \ {s} : ~Busy(r)'
<1>1. TypeOK /\ CallsAreAlone
  BY DEF Inv
<1>2. Busy(s) /\ \A r \in Slots \ {s} : syncs'[r] = syncs[r]
  BY <1>1, OneSlotSteps
<1>3. syncs'[s].pc = "idle" \/ syncs'[s].clear = syncs[s].clear
  BY <1>1, StepKinds DEF Goes, Fails, Finish, WipedNow, TypeOK, Idle
<1>4. tangled' = tangled \/ tangled' = (tangled /\ ~syncs[s].clear)
  BY <1>1, StepKinds DEF Goes, Fails, Finish, WipedNow
<1>5. \A r \in Slots : Busy(r)' /\ syncs'[r].clear => r = s /\ syncs[s].clear
  BY <1>1, <1>2, <1>3 DEF CallsAreAlone, Busy
<1>6. ~tangled' => syncs[s].clear
  BY <1>1, <1>2, <1>4 DEF CallsAreAlone
<1>7. syncs[s].clear => \A r \in Slots \ {s} : ~Busy(r)'
  BY <1>1, <1>2 DEF CallsAreAlone, Busy
<1>8. CallsAreAlone'
  <2>1. ASSUME NEW q \in Slots, Busy(q)', syncs'[q].clear PROVE \A r \in Slots \ {q} : ~Busy(r)'
    BY <1>5, <1>7, <2>1
  <2>2. ASSUME ~tangled', NEW q \in Slots, Busy(q)' PROVE syncs'[q].clear
    <3>1. q = s
      BY <1>6, <1>7, <2>2
    <3> QED BY <1>3, <1>6, <2>2, <3>1 DEF Busy
  <2> QED BY <2>1, <2>2 DEF CallsAreAlone
<1> QED BY <1>5, <1>6, <1>7, <1>8

LEMMA StepNotYet ==
    ASSUME Inv, NEW s \in Slots, Step(s) PROVE NotYetDone'
<1>1. TypeOK /\ NotYetDone /\ Busy(s) /\ owned' = owned
  BY OneSlotSteps DEF Inv
<1> SUFFICES ASSUME Busy(s)', syncs'[s].clear, syncs[s].clear
             PROVE  IF owned' THEN syncStatus' # "synced" ELSE syncs'[s].pc = "wipe" /\ ~wiped'
  BY StepAlone DEF NotYetDone
<1>2. Goes(s)
  BY <1>1, StepKinds DEF Fails, Finish, WipedNow, TypeOK, Busy, Idle
<1>3. IF owned THEN syncStatus # "synced" ELSE syncs[s].pc = "wipe" /\ ~wiped
  BY <1>1 DEF NotYetDone
<1> QED BY <1>1, <1>2, <1>3 DEF Goes

LEMMA StepDiff ==
    ASSUME Inv, NEW s \in Slots, Step(s) PROVE DiffIsTrue'
<1>1. TypeOK /\ DiffIsTrue /\ table \in [Ids -> Jobs \union {NoJob}] /\ syncs[s].want \in SUBSET Jobs
  BY TaskFields DEF Inv, TypeOK
<1> SUFFICES ASSUME syncs'[s].pc = "write", syncs'[s].clear, syncs[s].clear
             PROVE  /\ syncs'[s].extras = Extras(table', syncs'[s].want)
                    /\ syncs'[s].missing = Missing(table', syncs'[s].want)
  BY StepAlone DEF DiffIsTrue, Busy, Extras, Missing, Listed
<1>2. Goes(s)
  BY <1>1, StepKinds DEF Fails, Finish, WipedNow, TypeOK, Idle
<1>3. syncs[s].pc = "write" => /\ syncs[s].extras = Extras(table, syncs[s].want)
                               /\ syncs[s].missing = Missing(table, syncs[s].want)
  BY <1>1 DEF DiffIsTrue
<1>4. syncs'[s].want = syncs[s].want
  BY <1>2 DEF Goes
<1> DEFINE want == syncs[s].want
<1>5. want \in SUBSET Jobs
  BY <1>1
<1>6. CASE syncs[s].pc = "list"
  BY <1>2, <1>4, <1>6 DEF Goes
<1>7. ASSUME syncs[s].pc = "write", NEW i \in syncs[s].extras, table' = [table EXCEPT ![i] = NoJob],
             syncs'[s].extras = syncs[s].extras \ {i}, syncs'[s].missing = syncs[s].missing
      PROVE  /\ syncs'[s].extras = Extras(table', syncs'[s].want)
             /\ syncs'[s].missing = Missing(table', syncs'[s].want)
  <2>1. syncs[s].extras = Extras(table, want) /\ syncs[s].missing = Missing(table, want)
        /\ syncs'[s].want = want
    BY <1>3, <1>4, <1>7
  <2> HIDE DEF want
  <2>2. i \in Extras(table, want)
    BY <1>7, <2>1
  <2>3. /\ Extras([table EXCEPT ![i] = NoJob], want) = Extras(table, want) \ {i}
        /\ Missing([table EXCEPT ![i] = NoJob], want) = Missing(table, want)
    BY <1>1, <1>5, <2>2, DeleteDiff
  <2> QED BY <1>7, <2>1, <2>3
<1>8. ASSUME syncs[s].pc = "write", syncs[s].extras = {}, syncs'[s].extras = {},
             NEW j \in syncs[s].missing, NEW i \in Ids,
             table[i] = NoJob, table' = [table EXCEPT ![i] = j],
             syncs'[s].missing = syncs[s].missing \ {j}
      PROVE  /\ syncs'[s].extras = Extras(table', syncs'[s].want)
             /\ syncs'[s].missing = Missing(table', syncs'[s].want)
  <2>1. syncs[s].extras = Extras(table, want) /\ syncs[s].missing = Missing(table, want)
        /\ syncs'[s].want = want
    BY <1>3, <1>4, <1>8
  <2> HIDE DEF want
  <2>2. j \in Missing(table, want) /\ Extras(table, want) = {}
    BY <1>8, <2>1
  <2>3. /\ Extras([table EXCEPT ![i] = j], want) = {}
        /\ Missing([table EXCEPT ![i] = j], want) = Missing(table, want) \ {j}
    <3>1. Extras(table, want) = {} /\ table[i] = NoJob /\ j \in Missing(table, want)
      BY <1>8, <2>2
    <3>2. \A k \in Missing(table, want), h \in Ids : table[h] = NoJob =>
              /\ Extras([table EXCEPT ![h] = k], want) = {}
              /\ Missing([table EXCEPT ![h] = k], want) = Missing(table, want) \ {k}
      BY <1>1, <1>5, <3>1, CreateDiff, Zenon
    <3> QED BY <3>1, <3>2
  <2> QED BY <1>8, <2>1, <2>3
<1> QED BY <1>2, <1>6, <1>7, <1>8 DEF Goes

LEMMA StepTargets ==
    ASSUME Inv, NEW s \in Slots, Step(s) PROVE TargetsAreRead'
<1>1. /\ TypeOK /\ TargetsAreRead /\ UNCHANGED <<day, rows, version>>
      /\ \A r \in Slots \ {s} : syncs'[r] = syncs[r]
  BY OneSlotSteps DEF Inv
<1>2. \A kept : Fits(kept)' <=> Fits(kept)
  BY <1>1 DEF Fits
<1>3. ASSUME NEW kept, IsFit(kept, rows, Today) PROVE Fits(kept)
  <2>1. day \in 0..day
    BY <1>1 DEF TypeOK
  <2> QED BY <1>3, <2>1 DEF Fits, Today
<1>4. /\ syncs'[s].pc \in {"rows", "list", "write"} => syncs'[s].target <= version
      /\ syncs'[s].pc \in {"list", "write"} /\ syncs'[s].target = version => Fits(syncs'[s].want)
  <2>1. CASE syncs'[s].pc = "idle"
    BY <2>1
  <2>2. CASE syncs'[s].pc # "idle"
    <3>1. Goes(s)
      BY <1>1, <2>2, StepKinds DEF Fails, Finish, WipedNow, TypeOK, Idle
    <3>2. /\ syncs[s].pc \in {"rows", "list", "write"} => syncs[s].target <= version
          /\ syncs[s].pc \in {"list", "write"} /\ syncs[s].target = version => Fits(syncs[s].want)
      BY <1>1 DEF TargetsAreRead
    <3>3. CASE syncs[s].pc = "rows"
      BY <1>3, <3>1, <3>2, <3>3 DEF Goes
    <3>4. CASE syncs[s].pc # "rows"
      BY <3>1, <3>2, <3>4 DEF Goes
    <3> QED BY <3>3, <3>4
  <2> QED BY <2>1, <2>2
<1> QED BY <1>1, <1>2, <1>4 DEF TargetsAreRead

LEMMA StepTable ==
    ASSUME Inv, NEW s \in Slots, Step(s) PROVE TableIsRight'
<1>1. /\ TypeOK /\ NotYetDone /\ DiffIsTrue /\ TargetsAreRead /\ TableIsRight
      /\ Busy(s) /\ UNCHANGED <<day, rows, version, owned>>
      /\ table \in [Ids -> Jobs \union {NoJob}] /\ syncs[s].want \in SUBSET Jobs
  BY OneSlotSteps, TaskFields DEF Inv, TypeOK
<1> SUFFICES ASSUME ~tangled'
             PROVE  /\ owned /\ syncStatus' = "synced" =>
                        Quiet' /\ \E kept \in SUBSET rows' : Holds(kept)' /\ Fits(kept)'
                    /\ ~owned /\ wiped' => Quiet' /\ Holds({})'
  BY <1>1 DEF TableIsRight
<1>2. /\ syncs[s].clear /\ \A r \in Slots \ {s} : ~Busy(r)'
      /\ IF owned THEN syncStatus # "synced" ELSE syncs[s].pc = "wipe" /\ ~wiped
  BY <1>1, StepAlone DEF NotYetDone
<1>3. CASE Goes(s) \/ Fails(s)
  <2>1. ~(owned /\ syncStatus' = "synced")
    BY <1>2, <1>3 DEF Goes, Fails
  <2>2. ~(~owned /\ wiped')
    <3>1. wiped' = wiped
      BY <1>3 DEF Goes, Fails
    <3> QED BY <1>2, <3>1
  <2> QED BY <2>1, <2>2
<1>4. CASE Finish(s)
  <2>1. /\ owned /\ syncs[s].pc = "write" /\ table' = table
        /\ syncs[s].extras = {} /\ syncs[s].missing = {} /\ syncs'[s].pc = "idle"
        /\ syncStatus' = "synced" => version <= syncs[s].target
    BY <1>1, <1>2, <1>4 DEF Finish, Written, unit, TypeOK, Idle
  <2>2. Quiet'
    BY <1>2, <2>1 DEF Quiet, Busy
  <2>3. Extras(table, syncs[s].want) = {} /\ Missing(table, syncs[s].want) = {}
    BY <1>1, <1>2, <2>1 DEF DiffIsTrue
  <2> DEFINE want == syncs[s].want
  <2>4. want \in SUBSET Jobs /\ Extras(table, want) = {} /\ Missing(table, want) = {}
    BY <1>1, <2>3
  <2> HIDE DEF want
  <2>5. Holds(want)
    BY <1>1, <2>4, NothingToWrite DEF Holds
  <2>6. ASSUME syncStatus' = "synced" PROVE Fits(want) /\ want \in SUBSET rows
    <3>1. syncs[s].target = version
      BY <1>1, <2>1, <2>6, TaskFields, ShellyAssumption DEF TargetsAreRead, TypeOK
    <3>2. Fits(want)
      BY <1>1, <2>1, <3>1 DEF TargetsAreRead, want
    <3> QED BY <3>2 DEF Fits, IsFit
  <2>7. \A kept : (Holds(kept)' <=> Holds(kept)) /\ (Fits(kept)' <=> Fits(kept))
    BY <1>1, <2>1 DEF Holds, Fits, JobsIn, Listed
  <2> QED BY <1>1, <2>1, <2>2, <2>5, <2>6, <2>7
<1>5. CASE WipedNow(s)
  <2>1. syncs'[s].pc = "idle" /\ table' = [i \in Ids |-> NoJob] /\ syncStatus' = syncStatus
    BY <1>5 DEF WipedNow, Idle
  <2>2. Quiet'
    BY <1>2, <2>1 DEF Quiet, Busy
  <2>3. JobsIn(table') = {} /\ Cardinality(Listed(table')) = 0
    BY <2>1, EmptyTable
  <2>4. Holds({})'
    BY <2>3, FS_EmptySet DEF Holds
  <2> QED BY <1>2, <2>1, <2>2, <2>4
<1> QED BY <1>1, <1>3, <1>4, <1>5, StepKinds

LEMMA RestartInv ==
    ASSUME Inv, Restart
    PROVE  CallsAreAlone' /\ NotYetDone' /\ DiffIsTrue' /\ TargetsAreRead' /\ TableIsRight'
<1>1. \A s \in Slots : syncs'[s].pc = "idle"
  BY DEF Restart, Idle
<1>2. CallsAreAlone' /\ NotYetDone' /\ DiffIsTrue' /\ TargetsAreRead' /\ Quiet'
  BY <1>1 DEF CallsAreAlone, NotYetDone, DiffIsTrue, TargetsAreRead, Quiet, Busy
<1>3. Holds({})' <=> Holds({})
  BY DEF Restart, unit, Holds, JobsIn, Listed
<1>4. TableIsRight'
  BY <1>2, <1>3 DEF Inv, TableIsRight, Restart
<1> QED BY <1>2, <1>4

\* Every step keeps the invariant.
LEMMA NextInv == Inv /\ [Next]_vars => Inv'
<1> SUFFICES ASSUME Inv, [Next]_vars PROVE Inv'
  OBVIOUS
<1>1. TypeOK'
  BY NextType DEF Inv
<1> SUFFICES CallsAreAlone' /\ NotYetDone' /\ DiffIsTrue' /\ TargetsAreRead' /\ TableIsRight'
  BY <1>1 DEF Inv
<1>2. ASSUME NEW s \in Slots, Step(s)
      PROVE  CallsAreAlone' /\ NotYetDone' /\ DiffIsTrue' /\ TargetsAreRead' /\ TableIsRight'
  BY <1>2, StepAlone, StepNotYet, StepDiff, StepTargets, StepTable
<1>3. CASE Recover
  <2>1. /\ UNCHANGED <<table, syncs, tangled, wiped, day, rows, version>>
        /\ owned' /\ syncStatus' = "pending"
    BY <1>3 DEF Recover, unit
  <2>2. CallsAreAlone' /\ NotYetDone'
    BY <2>1 DEF Inv, CallsAreAlone, NotYetDone, Busy
  <2>3. DiffIsTrue'
    BY <2>1 DEF Inv, DiffIsTrue, Extras, Missing, Listed
  <2>4. TargetsAreRead'
    BY <2>1 DEF Inv, TargetsAreRead, Fits
  <2>5. TableIsRight'
    BY <2>1 DEF TableIsRight
  <2> QED BY <2>2, <2>3, <2>4, <2>5
<1>4. CASE Midnight \/ Daily \/ UNCHANGED vars
  <2>1. UNCHANGED <<table, syncs, tangled, wiped, owned>>
    BY <1>4 DEF Midnight, Daily, vars, unit
  <2>2. syncStatus' = "synced" => syncStatus = "synced"
    BY <1>4 DEF Midnight, Daily, vars
  <2>3. version' = version /\ rows' = rows /\ (day' = day \/ day' = day + 1)
    BY <1>4 DEF Midnight, Daily, vars
  <2> QED BY <2>1, <2>2, <2>3, NothingBegins
<1>5. CASE Restart
  BY <1>5, RestartInv
<1> QED BY <1>2, <1>3, <1>4, <1>5, PushInv DEF Next

LEMMA Invariant == Spec => []Inv
BY InitInv, NextInv, PTL DEF Spec

-----------------------------------------------------------------------------
(* What the synchronisation promises *)

\* A unit that counts as synced holds exactly the jobs that fitted on some day
\* up to today, each once, and one whose wipe went through holds none, unless
\* calls overlapped since: however many calls are cut off, edits come while a
\* call runs, units are removed and taken back, and the server restarts.
THEOREM MirrorsUnit == Spec => []UnitMirrors
<1>1. Inv => UnitMirrors
  BY DEF Inv, TableIsRight, UnitMirrors, Fits
<1> QED BY <1>1, Invariant, PTL

\* A call deletes only what it does not want, or a second copy.
LEMMA WantedStayStep ==
    ASSUME Inv, Next, ~tangled, NEW j \in JobsIn(table) \ JobsIn(table')
    PROVE  \E s \in Slots : \/ syncs[s].pc = "wipe"
                            \/ syncs[s].pc = "write" /\ j \notin syncs[s].want
<1>1. /\ TypeOK /\ CallsAreAlone /\ DiffIsTrue /\ table \in [Ids -> Jobs \union {NoJob}]
  BY DEF Inv, TypeOK
<1>2. j # NoJob /\ \E i \in Ids : table[i] = j /\ table'[i] # j
  BY DEF JobsIn
<1>3. table' # table
  BY <1>2
<1>4. PICK s \in Slots : \/ Wipe(s) \/ (\E i \in Ids : Delete(s, i)) \/ (\E k \in Jobs : Create(s, k))
  BY <1>3 DEF Next, Edit, Resync, Connect, Remove, Step, ReadRows, List, TimeOut, Finish,
              Recover, Midnight, Daily, Restart, unit
<1>5. CASE Wipe(s)
  BY <1>5 DEF Wipe
<1>6. ASSUME NEW i \in Ids, Delete(s, i) PROVE syncs[s].pc = "write" /\ j \notin syncs[s].want
  <2>1. syncs[s].pc = "write" /\ i \in syncs[s].extras /\ table' = [table EXCEPT ![i] = NoJob]
    BY <1>6 DEF Delete
  <2>2. table[i] = j
    BY <1>1, <1>2, <2>1
  <2>3. syncs[s].extras = Extras(table, syncs[s].want)
    BY <1>1, <2>1 DEF CallsAreAlone, DiffIsTrue, Busy
  <2>4. \A h \in Ids : h < i => table[h] # j
    <3> SUFFICES ASSUME NEW h \in Ids, h < i, table[h] = j PROVE FALSE
      OBVIOUS
    <3>1. h # i
      BY IdsAreFinite
    <3>2. table'[h] = j
      BY <1>1, <2>1, <3>1
    <3> QED BY <1>2, <3>2 DEF JobsIn
  <2> QED BY <2>1, <2>2, <2>3, <2>4 DEF Extras
<1>7. ASSUME NEW k \in Jobs, Create(s, k) PROVE FALSE
  <2>1. FreeIds # {} /\ table' = [table EXCEPT ![Min(FreeIds)] = k]
    BY <1>3, <1>7 DEF Create
  <2>2. Min(FreeIds) \in Ids /\ table[Min(FreeIds)] = NoJob
    BY <2>1, FreePlace
  <2> QED BY <1>1, <1>2, <2>1, <2>2
<1> QED BY <1>4, <1>5, <1>6, <1>7

\* Unless calls overlap, a job leaves the table only by a wipe or by a call
\* that does not want it: what a synchronisation wants it never touches.
THEOREM WantedStay == Spec => WantedJobsStay
<1>1. Inv /\ [Next]_vars =>
        [~tangled => \A j \in JobsIn(table) \ JobsIn(table') :
            \E s \in Slots : \/ syncs[s].pc = "wipe"
                             \/ syncs[s].pc = "write" /\ j \notin syncs[s].want]_vars
  BY WantedStayStep
<1> QED BY <1>1, Invariant, PTL DEF Spec, WantedJobsStay

=============================================================================
