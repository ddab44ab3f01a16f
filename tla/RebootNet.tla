------------------------------ MODULE RebootNet ------------------------------
(***************************************************************************)
(* The safety net of the health monitor: when a probe finds that a Shelly  *)
(* rebooted, a channel that was on before and is off now is switched on    *)
(* again, unless it was somebody's wish that it is off                     *)
(* (monitor/health.js, checkShelly and verifyRebootOutputs).               *)
(*                                                                         *)
(* One channel and one local OFF of its schedule.  Time is in minutes; a   *)
(* probe takes place within a minute, its calls and queries are steps of   *)
(* their own.  The reboots that the monitor commands itself are expected   *)
(* and pass by the net; FleetMonitor has them.                             *)
(***************************************************************************)
EXTENDS NetParameters

VARIABLES
    now,
    dueOff, fired,    \* the minute of the local OFF, and has the unit carried it out
    output, rebooted, \* unit: the channel; has it booted since its uptime was last read
    point,            \* the probe: idle, sys, switch, verify, fire, done
    reset,            \* the uptime of this probe is lower than the last one
    before, after,    \* the last reading of the channel, and the one of this probe
    lastProbeAt,      \* minute of the last answered probe, Never in a new process
    order,            \* the order of the customer under way
    lastOff,          \* minute in which the last acked OFF of the customer was requested
    cuts, orders, silences,   \* bounds
    offs              \* history: how many wishes have switched the channel off by now

Never   == -100
NoOrder == [stage |-> "none", on |-> FALSE]

\* A reading of the channel, and what preceded it.
Reading(v) == [on |-> v, at |-> now, offs |-> offs]
NoReading  == [on |-> FALSE, at |-> Never, offs |-> 0]

unit   == <<output, rebooted>>
probe  == <<point, reset, before, after, lastProbeAt>>
hand   == <<order, lastOff>>
bounds == <<cuts, orders, silences>>
vars   == <<now, dueOff, fired, unit, probe, hand, bounds, offs>>

Init ==
    /\ now = 0 /\ dueOff \in 0..MaxMinute /\ fired = FALSE
    /\ output \in BOOLEAN /\ rebooted = FALSE
    /\ point = "idle" /\ reset = FALSE
    /\ before = NoReading /\ after = NoReading /\ lastProbeAt = Never
    /\ order = NoOrder /\ lastOff = Never
    /\ cuts = 0 /\ orders = 0 /\ silences = 0
    /\ offs = 0

-----------------------------------------------------------------------------
(* The unit and the customer *)

\* The local job of the unit, some time in its minute.
LocalOff ==
    /\ now = dueOff /\ ~fired
    /\ fired' = TRUE /\ output' = FALSE /\ offs' = offs + 1
    /\ UNCHANGED <<now, dueOff, rebooted, probe, hand, bounds>>

\* The power fails for a moment; restore_last brings the channel back, or not.
Cut(restored) ==
    /\ cuts < MaxCuts /\ cuts' = cuts + 1
    /\ rebooted' = TRUE /\ output' = (output /\ restored)
    /\ UNCHANGED <<now, dueOff, fired, probe, hand, orders, silences, offs>>

\* An order: its row is written, the unit obeys, the row becomes acked.
Order(on) ==
    /\ order = NoOrder
    /\ orders < MaxOrders /\ orders' = orders + 1
    /\ order' = [stage |-> "sent", on |-> on]
    /\ UNCHANGED <<now, dueOff, fired, unit, probe, lastOff, cuts, silences, offs>>

Obey ==
    /\ order.stage = "sent"
    /\ order' = [order EXCEPT !.stage = "obeyed"]
    /\ output' = order.on
    /\ UNCHANGED <<now, dueOff, fired, rebooted, probe, lastOff, bounds, offs>>

\* An OFF counts as a wish of the past once the customer was told that it is done.
Acked ==
    /\ order.stage = "obeyed"
    /\ order' = NoOrder
    /\ lastOff' = IF order.on THEN lastOff ELSE now
    /\ offs' = IF order.on THEN offs ELSE offs + 1
    /\ UNCHANGED <<now, dueOff, fired, unit, probe, bounds>>

\* The interval of the monitor comes round.  The calls of an order are over
\* within a minute, the local job of the minute is done.
NextMinute ==
    /\ now < MaxMinute /\ point = "idle"
    /\ order = NoOrder /\ (now = dueOff => fired)
    /\ now' = now + 1 /\ point' = "sys"
    /\ UNCHANGED <<dueOff, fired, unit, reset, before, after, lastProbeAt, hand, bounds, offs>>

-----------------------------------------------------------------------------
(* The probe *)

ProbeFrame == UNCHANGED <<now, dueOff, fired, hand, cuts, orders, offs>>
Silence    == silences < MaxSilences /\ silences' = silences + 1

\* Sys.GetStatus.  A unit that has been up for longer than it was at the last
\* reading does not show that it booted in between; a new process has no last reading.
SysAnswered ==
    /\ point = "sys" /\ point' = "switch"
    /\ reset' \in {FALSE, rebooted /\ lastProbeAt # Never}
    /\ rebooted' = FALSE
    /\ UNCHANGED <<output, before, after, lastProbeAt, silences>> /\ ProbeFrame

\* Without an answer the probe ends.
SysUnanswered ==
    /\ point = "sys" /\ Silence
    /\ point' = "idle"
    /\ UNCHANGED <<unit, reset, before, after, lastProbeAt>> /\ ProbeFrame

\* Switch.GetStatus.
SwitchAnswered ==
    /\ point = "switch"
    /\ after' = Reading(output)
    /\ point' = IF reset /\ before.on /\ ~output THEN "verify" ELSE "done"
    /\ UNCHANGED <<unit, reset, before, lastProbeAt, silences>> /\ ProbeFrame

SwitchUnanswered ==
    /\ point = "switch" /\ Silence
    /\ after' = NoReading /\ point' = "done"
    /\ UNCHANGED <<unit, reset, before, lastProbeAt>> /\ ProbeFrame

Earlier(m, n) == IF m <= n THEN m ELSE n

\* The reasons to leave the channel off: the last probe is too long ago, a
\* schedule was due in the blind window, or the customer switched the channel off.
TooOld == now - lastProbeAt > FreshFor
\* Wrong on purpose: the minute of this probe only.
DueNow == now - 1 <= dueOff /\ dueOff <= now + 1
Due    == lastProbeAt <= dueOff /\ dueOff <= now + 1
ByHand == lastOff >= Earlier(lastProbeAt, now - HandWindow)

Verify ==
    /\ point = "verify"
    /\ point' = IF TooOld \/ Due \/ ByHand THEN "done" ELSE "fire"
    /\ UNCHANGED <<unit, reset, before, after, lastProbeAt, silences>> /\ ProbeFrame

\* sendImmediateCommand on, with source 'system'.
Fire ==
    /\ point = "fire"
    /\ point' = "done" /\ output' = TRUE
    /\ UNCHANGED <<rebooted, reset, before, after, lastProbeAt, silences>> /\ ProbeFrame

\* A channel that was not read keeps its last reading; the time of the probe is now.
Remembered == IF after = NoReading THEN before ELSE after
Done ==
    /\ point = "done" /\ point' = "idle"
    /\ before' = Remembered /\ after' = NoReading
    /\ lastProbeAt' = now /\ reset' = FALSE
    /\ UNCHANGED <<unit, silences>> /\ ProbeFrame

\* The server is replaced: what it remembered is gone.
Restart ==
    /\ Silence
    /\ point' = "idle" /\ reset' = FALSE
    /\ before' = NoReading /\ after' = NoReading /\ lastProbeAt' = Never
    /\ UNCHANGED unit /\ ProbeFrame

Next ==
    \/ LocalOff
    \/ \E restored \in BOOLEAN : Cut(restored)
    \/ \E on \in BOOLEAN : Order(on)
    \/ Obey
    \/ Acked
    \/ NextMinute
    \/ SysAnswered
    \/ SysUnanswered
    \/ SwitchAnswered
    \/ SwitchUnanswered
    \/ Verify
    \/ Fire
    \/ Done
    \/ Restart

Spec == Init /\ [][Next]_vars

-----------------------------------------------------------------------------
(* Properties *)

Readings == [on : BOOLEAN, at : {Never} \cup 0..MaxMinute, offs : 0..MaxOrders + 1]

\* Every variable has a value of its kind, and a probe that has to decide on a
\* reset, or to send the order, has seen the reset and a reading that was on.
TypeOK ==
    /\ now \in 0..MaxMinute /\ dueOff \in 0..MaxMinute /\ fired \in BOOLEAN
    /\ output \in BOOLEAN /\ rebooted \in BOOLEAN
    /\ point \in {"idle", "sys", "switch", "verify", "fire", "done"} /\ reset \in BOOLEAN
    /\ before \in Readings /\ after \in Readings /\ lastProbeAt \in {Never} \cup 0..MaxMinute
    /\ order \in [stage : {"none", "sent", "obeyed"}, on : BOOLEAN]
    /\ lastOff \in {Never} \cup 0..MaxMinute
    /\ cuts \in 0..MaxCuts /\ orders \in 0..MaxOrders /\ silences \in 0..MaxSilences
    /\ offs \in 0..MaxOrders + 1
    /\ point \in {"verify", "fire"} => reset /\ before.on

\* The decision to switch the channel on is taken only when no wish has
\* switched it off since the reading that the decision rests on, provided that
\* reading is one of the last answered probe (verifyRebootOutputs: "an explicit
\* OFF must win over the net").
Kept == point # "fire" /\ point' = "fire" /\ before.at = lastProbeAt => offs = before.offs
NetKeepsOffs == [][Kept]_vars
=============================================================================
