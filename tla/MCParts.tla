------------------------------ MODULE MCParts ------------------------------
(* Three parts of the server that share no state, checked side by side: every *)
(* behaviour is one of the monitor of the fleet, of the net after a reboot, or *)
(* of the schedules and their occurrences, and the variables of the other      *)
(* parts stay as they are.                                                    *)
EXTENDS FleetMonitor, NetParameters, PlanCases

VARIABLES
    part,      \* which part this behaviour is of
    now, dueOff, fired, output, rebooted, point, reset, before, after, lastProbeAt, order, lastOff,
    cuts, orders, silences, offs,
    moment, serving, refreshed, rows, nextRow, site, held, behind, handed, edits, outages,
    heldRows, heldOn, asleep, plan

Net   == INSTANCE RebootNet
Week  == INSTANCE Plans WITH now <- moment, up <- serving, nextId <- nextRow, unit <- site

netVars   == <<now, dueOff, fired, output, rebooted, point, reset, before, after, lastProbeAt, order,
               lastOff, cuts, orders, silences, offs>>
fleetVars == <<ver, flash, up, uptime, sick, mem, lock, seeded, passDue, pc, sys, ans, hop, diary,
               rebootRow, faults, deploys, orphans>>
weekVars  == <<moment, serving, refreshed, rows, nextRow, site, held, behind, handed, edits, outages,
               heldRows, heldOn, asleep, plan>>
allVars   == <<part, netVars, fleetVars, weekVars>>

NetIdle ==
    /\ now = None /\ dueOff = None /\ fired = None /\ output = None /\ rebooted = None /\ point = None
    /\ reset = None /\ before = None /\ after = None /\ lastProbeAt = None /\ order = None
    /\ lastOff = None /\ cuts = None /\ orders = None /\ silences = None /\ offs = None
WeekIdle ==
    /\ moment = None /\ serving = None /\ refreshed = None /\ rows = None /\ nextRow = None /\ site = None
    /\ held = None /\ behind = None /\ handed = None /\ edits = None /\ outages = None /\ heldRows = None
    /\ heldOn = None /\ asleep = None /\ plan = None

\* The monitor of the fleet is the module extended: when it is not its turn it
\* stays in an initial state.
PartsInit ==
    /\ Init
    /\ \/ part = "fleet" /\ NetIdle   /\ WeekIdle
       \/ part = "net"   /\ Net!Init  /\ WeekIdle
       \/ part = "week"  /\ Week!Init /\ NetIdle

PartsNext ==
    \/ part = "net"   /\ Net!Next   /\ UNCHANGED <<part, fleetVars, weekVars>>
    \/ part = "fleet" /\ Next       /\ UNCHANGED <<part, netVars, weekVars>>
    \/ part = "week"  /\ Week!Next  /\ UNCHANGED <<part, netVars, fleetVars>>

PartsSpec == PartsInit /\ [][PartsNext]_allVars

-----------------------------------------------------------------------------
(* Properties: those of the part that the behaviour is of *)

\* Every variable of the part has a value of its kind.
TypesOK ==
    CASE part = "fleet" -> TypeOK
      [] part = "net"   -> Net!TypeOK
      [] part = "week"  -> Week!TypeOK

\* What a wish has switched off since the last reading is not switched on again
\* after a reboot (monitor/health.js, verifyRebootOutputs).
NetKeepsOffs == [][part = "net" => Net!Kept]_allVars

\* What the server takes for due in the rest of the day is what the calendar of
\* the customer shows for it, a dated scheduler of a plan replaces the weekly
\* ones on its days, and a Shelly that cannot be reached for most of a year fires
\* nothing that the calendar does not show (services/calendar.js, scheduler/tick.js,
\* services/schedules.js, derivedExclusions, services/time.js).
CalendarIsKept ==
    part = "week" => /\ Week!CalendarIsKept /\ Week!DatedReplaces /\ Week!OfflineJobs
                     /\ Week!DatesAreDays

\* A unit that is not behind does in the rest of the day what the server takes
\* for due, no less and no more (services/shelly-schedules.js,
\* services/schedulePayload.js).
MirrorIsExact == part = "week" => Week!MirrorIsExact

\* Across crashes and start-ups no occurrence falls between the loop of the
\* minutes and the start-up scan (scheduler/tick.js).
NothingIsMissed == part = "week" => Week!NothingIsMissed
=============================================================================
