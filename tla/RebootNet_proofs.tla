-------------------------- MODULE RebootNet_proofs --------------------------
(***************************************************************************)
(* Proofs about RebootNet, for every length of the day, every window and   *)
(* any number of orders, reboots and calls without an answer: type         *)
(* correctness, and that the net never undoes a wish made since the        *)
(* reading that it rests on.                                               *)
(*                                                                         *)
(* The number of wishes that have switched the channel off differs from    *)
(* the number noted with a reading only if the local job has fired, or an  *)
(* OFF was acked, since the minute of that reading; the rules Due and      *)
(* ByHand of the code look for exactly these two.                          *)
(***************************************************************************)
EXTENDS RebootNet, TLAPS

-----------------------------------------------------------------------------
(* The inductive invariant *)

\* At most one wish for every order that is over, and one of the schedule.
Held     == IF order = NoOrder THEN 0 ELSE 1
Scheduled == IF fired THEN 1 ELSE 0
WishesAreFew == offs + Held <= orders + Scheduled

\* The local job does not fire ahead of its minute.
FiredInTime == fired => dueOff <= now

\* A reset is seen by a process that has a last probe.
ResetIsSeen == reset => lastProbeAt # Never

\* Every wish since a reading has left a trace that the net can find.
Traced(r) ==
    /\ r.on => r.at # Never
    /\ r.at # Never =>
        /\ r.at <= now
        /\ offs = r.offs \/ (fired /\ r.at <= dueOff) \/ r.at <= lastOff

IInv ==
    /\ TypeOK
    /\ WishesAreFew
    /\ FiredInTime
    /\ ResetIsSeen
    /\ Traced(before)
    /\ Traced(after)

-----------------------------------------------------------------------------
(* Types *)

\* The bounds are natural numbers.
LEMMA Bounds ==
    /\ MaxMinute \in Nat /\ FreshFor \in Nat /\ HandWindow \in Nat
    /\ MaxCuts \in Nat /\ MaxOrders \in Nat /\ MaxSilences \in Nat
BY NetAssumption

\* The fields of a reading.
LEMMA ReadingFields ==
    ASSUME NEW r \in Readings
    PROVE  r.on \in BOOLEAN /\ r.at \in Int /\ r.offs \in Int
BY Bounds DEF Readings, Never

\* The readings that the code builds are readings, and have left no trace to find.
LEMMA ReadingTypes ==
    ASSUME TypeOK, NEW v \in BOOLEAN
    PROVE  /\ Reading(v) \in Readings /\ NoReading \in Readings
           /\ Reading(v).at = now /\ Reading(v).offs = offs
           /\ NoReading.at = Never /\ ~NoReading.on
BY Bounds DEF TypeOK, Reading, NoReading, Readings

\* The integers of the state.
LEMMA Numbers ==
    ASSUME TypeOK
    PROVE  /\ now \in Int /\ dueOff \in Int /\ lastProbeAt \in Int /\ lastOff \in Int
           /\ offs \in Int /\ orders \in Int /\ 0 <= now /\ 0 <= offs
           /\ orders <= MaxOrders
BY Bounds DEF TypeOK, Never

\* There is no order under way in NoOrder, and no other record of that stage is met.
LEMMA OrderTypes ==
    /\ NoOrder \in [stage : {"none", "sent", "obeyed"}, on : BOOLEAN]
    /\ NoOrder.stage = "none"
<1>1. NoOrder.stage = "none"
  BY DEF NoOrder
<1>2. NoOrder = [stage |-> "none", on |-> FALSE]
  BY DEF NoOrder
<1>3. NoOrder \in [stage : {"none", "sent", "obeyed"}, on : BOOLEAN]
  BY <1>2
<1> QED BY <1>1, <1>3

LEMMA InitInv == Init => IInv
<1> SUFFICES ASSUME Init PROVE IInv
  OBVIOUS
<1>1. NoReading \in Readings /\ NoReading.at = Never /\ ~NoReading.on
  BY Bounds DEF NoReading, Readings
<1>2. 0 \in 0..MaxMinute /\ 0 \in 0..MaxCuts /\ 0 \in 0..MaxOrders /\ 0 \in 0..MaxSilences
      /\ 0 \in 0..MaxOrders + 1
  BY Bounds
<1>3. order \in [stage : {"none", "sent", "obeyed"}, on : BOOLEAN]
  BY OrderTypes DEF Init
<1>4. TypeOK
  BY <1>1, <1>2, <1>3 DEF Init, TypeOK
<1>5. WishesAreFew
  BY DEF Init, WishesAreFew, Held, Scheduled
<1>6. FiredInTime /\ ResetIsSeen
  BY DEF Init, FiredInTime, ResetIsSeen
<1>7. Traced(before) /\ Traced(after)
  BY <1>1 DEF Init, Traced
<1> QED BY <1>4, <1>5, <1>6, <1>7 DEF IInv

-----------------------------------------------------------------------------
(* The unit and the customer *)

LEMMA LocalOffInv == IInv /\ LocalOff => IInv'
<1> SUFFICES ASSUME IInv, LocalOff PROVE IInv'
  OBVIOUS
<1> USE DEF IInv
<1>1. UNCHANGED <<now, dueOff, before, after, lastProbeAt, reset, point, order, lastOff, orders, cuts, silences, rebooted>>
  BY DEF LocalOff, probe, hand, bounds
<1>2. offs' = offs + 1 /\ fired' = TRUE /\ output' = FALSE /\ ~fired /\ now = dueOff
  BY DEF LocalOff
<1>3. WishesAreFew'
  BY <1>1, <1>2, Numbers DEF WishesAreFew, Held, Scheduled
<1>4. offs' \in 0..MaxOrders + 1
  BY <1>1, <1>2, <1>3, Numbers, Bounds DEF WishesAreFew, Held, Scheduled
<1>5. TypeOK'
  BY <1>1, <1>2, <1>4 DEF TypeOK
<1>6. FiredInTime' /\ ResetIsSeen'
  BY <1>1, <1>2, Numbers DEF FiredInTime, ResetIsSeen
<1>7. Traced(before)' /\ Traced(after)'
  BY <1>1, <1>2 DEF Traced
<1> QED BY <1>3, <1>5, <1>6, <1>7

\* The steps that leave alone what the readings are compared with.
LEMMA CutInv == ASSUME IInv, NEW restored \in BOOLEAN, Cut(restored) PROVE IInv'
<1> USE DEF IInv
<1>1. UNCHANGED <<now, dueOff, fired, point, reset, before, after, lastProbeAt, order, lastOff, orders, silences, offs>>
  BY DEF Cut, probe, hand
<1>2. output' \in BOOLEAN /\ rebooted' \in BOOLEAN /\ cuts' \in 0..MaxCuts
  BY Bounds DEF Cut, TypeOK
<1>3. TypeOK'
  BY <1>1, <1>2 DEF TypeOK
<1>4. WishesAreFew' /\ FiredInTime' /\ ResetIsSeen'
  BY <1>1 DEF WishesAreFew, Held, Scheduled, FiredInTime, ResetIsSeen
<1>5. Traced(before)' /\ Traced(after)'
  BY <1>1 DEF Traced
<1> QED BY <1>3, <1>4, <1>5

LEMMA OrderInv == ASSUME IInv, NEW on \in BOOLEAN, Order(on) PROVE IInv'
<1> USE DEF IInv
<1>1. UNCHANGED <<now, dueOff, fired, output, rebooted, point, reset, before, after, lastProbeAt, lastOff, cuts, silences, offs>>
  BY DEF Order, unit, probe
<1>2. order' \in [stage : {"none", "sent", "obeyed"}, on : BOOLEAN] /\ orders' \in 0..MaxOrders
  BY Bounds DEF Order, TypeOK
<1>3. TypeOK'
  BY <1>1, <1>2 DEF TypeOK
<1>4. WishesAreFew'
  BY <1>1, Numbers DEF Order, WishesAreFew, Held, Scheduled
<1>5. FiredInTime' /\ ResetIsSeen'
  BY <1>1 DEF FiredInTime, ResetIsSeen
<1>6. Traced(before)' /\ Traced(after)'
  BY <1>1 DEF Traced
<1> QED BY <1>3, <1>4, <1>5, <1>6

LEMMA ObeyInv == IInv /\ Obey => IInv'
<1> SUFFICES ASSUME IInv, Obey PROVE IInv'
  OBVIOUS
<1> USE DEF IInv
<1>1. UNCHANGED <<now, dueOff, fired, rebooted, point, reset, before, after, lastProbeAt, lastOff, orders, cuts, silences, offs>>
  BY DEF Obey, probe, bounds
<1>2. order' \in [stage : {"none", "sent", "obeyed"}, on : BOOLEAN] /\ output' \in BOOLEAN
  BY DEF Obey, TypeOK
<1>3. TypeOK'
  BY <1>1, <1>2 DEF TypeOK
<1>4. order # NoOrder
  BY OrderTypes DEF Obey
<1>5. WishesAreFew'
  BY <1>1, <1>4, Numbers DEF WishesAreFew, Held, Scheduled
<1>6. FiredInTime' /\ ResetIsSeen'
  BY <1>1 DEF FiredInTime, ResetIsSeen
<1>7. Traced(before)' /\ Traced(after)'
  BY <1>1 DEF Traced
<1> QED BY <1>3, <1>5, <1>6, <1>7

LEMMA AckedInv == IInv /\ Acked => IInv'
<1> SUFFICES ASSUME IInv, Acked PROVE IInv'
  OBVIOUS
<1> USE DEF IInv
<1>1. UNCHANGED <<now, dueOff, fired, output, rebooted, point, reset, before, after, lastProbeAt, orders, cuts, silences>>
  BY DEF Acked, unit, probe, bounds
<1>2. order # NoOrder /\ order' = NoOrder
  BY OrderTypes DEF Acked
<1>3. (lastOff' = lastOff /\ offs' = offs) \/ (lastOff' = now /\ offs' = offs + 1)
  BY DEF Acked
<1>4. WishesAreFew'
  BY <1>1, <1>2, <1>3, Numbers DEF WishesAreFew, Held, Scheduled
<1>5. offs' \in 0..MaxOrders + 1
  BY <1>1, <1>2, <1>3, <1>4, Numbers, Bounds DEF WishesAreFew, Held, Scheduled
<1>6. lastOff' \in {Never} \cup 0..MaxMinute
  BY <1>3 DEF TypeOK
<1>7. TypeOK'
  BY <1>1, <1>2, <1>5, <1>6, OrderTypes DEF TypeOK
<1>8. FiredInTime' /\ ResetIsSeen'
  BY <1>1 DEF FiredInTime, ResetIsSeen
<1>9. Traced(before)' /\ Traced(after)'
  BY <1>1, <1>3 DEF Traced
<1> QED BY <1>4, <1>7, <1>8, <1>9

LEMMA NextMinuteInv == IInv /\ NextMinute => IInv'
<1> SUFFICES ASSUME IInv, NextMinute PROVE IInv'
  OBVIOUS
<1> USE DEF IInv
<1>1. UNCHANGED <<dueOff, fired, output, rebooted, reset, before, after, lastProbeAt, order, lastOff, orders, cuts, silences, offs>>
  BY DEF NextMinute, unit, hand, bounds
<1>2. now' = now + 1 /\ now < MaxMinute /\ point' = "sys"
  BY DEF NextMinute
<1>3. now' \in 0..MaxMinute
  BY <1>2, Bounds DEF TypeOK
<1>4. TypeOK'
  BY <1>1, <1>2, <1>3 DEF TypeOK
<1>5. WishesAreFew' /\ ResetIsSeen'
  BY <1>1 DEF WishesAreFew, Held, Scheduled, ResetIsSeen
<1>6. FiredInTime'
  BY <1>1, <1>2, Numbers DEF FiredInTime
<1>7. before.at \in Int /\ after.at \in Int
  BY ReadingFields DEF TypeOK
<1>8. Traced(before)' /\ Traced(after)'
  BY <1>1, <1>2, <1>7, Numbers DEF Traced
<1> QED BY <1>4, <1>5, <1>6, <1>8

-----------------------------------------------------------------------------
(* The probe *)

\* A step of the probe that keeps the readings, or replaces them by readings
\* that are traced, keeps what the invariant says of the world.
LEMMA ProbeKeeps ==
    ASSUME IInv, ProbeFrame, output' \in BOOLEAN, rebooted' \in BOOLEAN, reset' \in BOOLEAN,
           point' \in {"idle", "sys", "switch", "verify", "fire", "done"},
           point' \in {"verify", "fire"} => reset' /\ before'.on,
           reset' => lastProbeAt' # Never,
           lastProbeAt' \in {Never} \cup 0..MaxMinute,
           silences' \in 0..MaxSilences,
           before' \in Readings, Traced(before'), after' \in Readings, Traced(after')
    PROVE  IInv'
<1> USE DEF IInv
<1>1. UNCHANGED <<now, dueOff, fired, order, lastOff, cuts, orders, offs>>
  BY DEF ProbeFrame, hand
<1>2. TypeOK'
  BY <1>1 DEF TypeOK
<1>3. WishesAreFew' /\ FiredInTime' /\ ResetIsSeen'
  BY <1>1 DEF WishesAreFew, Held, Scheduled, FiredInTime, ResetIsSeen
<1>4. Traced(before)' /\ Traced(after)'
  BY <1>1 DEF Traced
<1> QED BY <1>2, <1>3, <1>4

\* A call without an answer, or a restart, keeps the counter in its range.
LEMMA SilenceType ==
    ASSUME TypeOK, Silence PROVE silences' \in 0..MaxSilences
BY Bounds DEF TypeOK, Silence

\* A reading of now, and no reading, are traced.
LEMMA NewIsTraced ==
    ASSUME TypeOK, NEW v \in BOOLEAN
    PROVE  Traced(Reading(v)) /\ Traced(NoReading)
<1>1. 0 <= now /\ now \in Int
  BY Numbers
<1> QED BY <1>1, ReadingTypes DEF Traced, Never

LEMMA SysInv == IInv /\ (SysAnswered \/ SysUnanswered) => IInv'
<1> SUFFICES ASSUME IInv, SysAnswered \/ SysUnanswered PROVE IInv'
  OBVIOUS
<1> USE DEF IInv
<1>1. CASE SysAnswered
  <2>1. reset' \in BOOLEAN /\ (reset' => lastProbeAt' # Never)
    BY <1>1 DEF SysAnswered, TypeOK
  <2> QED BY <1>1, <2>1, ProbeKeeps DEF SysAnswered, TypeOK
<1>2. CASE SysUnanswered
  BY <1>2, ProbeKeeps, SilenceType DEF SysUnanswered, TypeOK, unit, ResetIsSeen
<1> QED BY <1>1, <1>2

LEMMA SwitchInv == IInv /\ (SwitchAnswered \/ SwitchUnanswered) => IInv'
<1> SUFFICES ASSUME IInv, SwitchAnswered \/ SwitchUnanswered PROVE IInv'
  OBVIOUS
<1> USE DEF IInv
<1>1. CASE SwitchAnswered
  <2>1. output \in BOOLEAN
    BY DEF TypeOK
  <2>2. after' \in Readings /\ Traced(after')
    BY <1>1, <2>1, ReadingTypes, NewIsTraced DEF SwitchAnswered
  <2>3. /\ point' \in {"verify", "done"}
        /\ point' \in {"verify", "fire"} => reset' /\ before'.on
    BY <1>1 DEF SwitchAnswered
  <2> QED BY <1>1, <2>2, <2>3, ProbeKeeps DEF SwitchAnswered, TypeOK, unit, ResetIsSeen
<1>2. CASE SwitchUnanswered
  <2>1. after' \in Readings /\ Traced(after')
    BY <1>2, ReadingTypes, NewIsTraced DEF SwitchUnanswered
  <2> QED BY <1>2, <2>1, ProbeKeeps, SilenceType DEF SwitchUnanswered, TypeOK, unit, ResetIsSeen
<1> QED BY <1>1, <1>2

LEMMA VerifyInv == IInv /\ (Verify \/ Fire) => IInv'
<1> SUFFICES ASSUME IInv, Verify \/ Fire PROVE IInv'
  OBVIOUS
<1> USE DEF IInv
<1>1. CASE Verify
  <2>1. point' \in {"done", "fire"} /\ reset' /\ before'.on
    BY <1>1 DEF Verify, TypeOK
  <2> QED BY <1>1, <2>1, ProbeKeeps DEF Verify, TypeOK, unit, ResetIsSeen
<1>2. CASE Fire
  BY <1>2, ProbeKeeps DEF Fire, TypeOK, ResetIsSeen
<1> QED BY <1>1, <1>2

LEMMA DoneInv == IInv /\ (Done \/ Restart) => IInv'
<1> SUFFICES ASSUME IInv, Done \/ Restart PROVE IInv'
  OBVIOUS
<1> USE DEF IInv
<1>1. NoReading \in Readings /\ Traced(NoReading)
  BY ReadingTypes, NewIsTraced
<1>2. CASE Done
  <2>1. before' \in Readings /\ Traced(before')
    BY <1>2 DEF Done, Remembered, TypeOK
  <2>2. lastProbeAt' \in {Never} \cup 0..MaxMinute
    BY <1>2 DEF Done, TypeOK
  <2> QED BY <1>1, <1>2, <2>1, <2>2, ProbeKeeps DEF Done, TypeOK, unit
<1>3. CASE Restart
  BY <1>1, <1>3, ProbeKeeps, SilenceType DEF Restart, TypeOK, unit
<1> QED BY <1>2, <1>3

-----------------------------------------------------------------------------
(* The theorems *)

LEMMA StutterInv == IInv /\ UNCHANGED vars => IInv'
BY DEF IInv, vars, unit, probe, hand, bounds, TypeOK, WishesAreFew, Held, Scheduled, FiredInTime,
       ResetIsSeen, Traced

LEMMA NextInv == IInv /\ [Next]_vars => IInv'
<1> SUFFICES ASSUME IInv, [Next]_vars PROVE IInv'
  OBVIOUS
<1>1. CASE \E restored \in BOOLEAN : Cut(restored)
  BY <1>1, CutInv
<1>2. CASE \E on \in BOOLEAN : Order(on)
  BY <1>2, OrderInv
<1>3. CASE LocalOff \/ Obey \/ Acked \/ NextMinute
  BY <1>3, LocalOffInv, ObeyInv, AckedInv, NextMinuteInv
<1>4. CASE SysAnswered \/ SysUnanswered \/ SwitchAnswered \/ SwitchUnanswered
  BY <1>4, SysInv, SwitchInv
<1>5. CASE Verify \/ Fire \/ Done \/ Restart
  BY <1>5, VerifyInv, DoneInv
<1>6. CASE UNCHANGED vars
  BY <1>6, StutterInv
<1> QED BY <1>1, <1>2, <1>3, <1>4, <1>5, <1>6 DEF Next

\* The variables have values of their kinds, and only a probe that saw a reset
\* and had read the channel as on comes to decide or to switch.
THEOREM NetTypes == Spec => []TypeOK
<1>1. Spec => []IInv
  BY InitInv, NextInv, PTL DEF Spec
<1>2. IInv => TypeOK
  BY DEF IInv
<1> QED BY <1>1, <1>2, PTL

\* When the net decides to switch on, the readings and the two rules rule out
\* that a wish has come in between.
LEMMA KeptByRules == IInv /\ Next => Kept
<1> SUFFICES ASSUME IInv, Next, point # "fire", point' = "fire", before.at = lastProbeAt
             PROVE  offs = before.offs
  BY DEF Kept
<1> USE DEF IInv
<1>1. Verify
  BY DEF Next, LocalOff, Cut, Order, Obey, Acked, NextMinute, SysAnswered, SysUnanswered,
         SwitchAnswered, SwitchUnanswered, Fire, Done, Restart, probe
<1>2. ~Due /\ ~ByHand /\ reset
  BY <1>1 DEF Verify, TypeOK
<1>3. before.at # Never
  BY <1>2 DEF ResetIsSeen
<1>4. offs = before.offs \/ (fired /\ lastProbeAt <= dueOff) \/ lastProbeAt <= lastOff
  BY <1>3 DEF Traced
<1>5. ~(fired /\ lastProbeAt <= dueOff)
  BY <1>2, Numbers DEF Due, FiredInTime
<1>6. ~(lastProbeAt <= lastOff)
  BY <1>2, Numbers, Bounds DEF ByHand, Earlier
<1> QED BY <1>4, <1>5, <1>6

\* The net does not undo a wish that was made since the reading it rests on.
THEOREM NetKept == Spec => NetKeepsOffs
<1>1. Spec => []IInv
  BY InitInv, NextInv, PTL DEF Spec
<1>2. IInv /\ [Next]_vars => [Kept]_vars
  BY KeptByRules
<1> QED BY <1>1, <1>2, PTL DEF Spec, NetKeepsOffs
=============================================================================
