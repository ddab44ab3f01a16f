--------------------------- MODULE CommandChannel ---------------------------
(***************************************************************************)
(* An ESP32 unit with one relay, the orders the server sends to it, and    *)
(* what the server learns of it: acknowledgements, statuses and reports of *)
(* executed occurrences.  The unit's firmware is here as a whole: what it  *)
(* keeps in flash and what it loses with the power, its clock, its         *)
(* schedule, its queue of reports; of the schedule only the times come     *)
(* and go, its contents are those of module ScheduleChannel.               *)
(*                                                                         *)
(* The occurrences of the relay are numbered in time; now is the number of *)
(* those whose minute has begun.  They are hours apart.  The firmware is   *)
(* one thread: its functions are steps, which only the loss of power cuts  *)
(* short.  In the server every database statement is a step.               *)
(***************************************************************************)
EXTENDS Naturals, Sequences, FiniteSets, SequencesExt

CONSTANTS
    Orders,        \* the orders that customers place
    Action,        \* Action[o]: what order o asks for
    Misfits,       \* orders for a relay number that the board does not have
    MaxNow,        \* bound: occurrences
    LastAsk,       \* bound: the last occurrence after which orders are placed
    Boots,         \* boot behaviours the relay may be configured with
    Act,           \* Act[k]: what occurrence k asks for; 0 is the last one before
    MaxQueue,      \* MAX_EXEC_QUEUE of the firmware
    Ring,          \* length of lastCmdIds
    Window,        \* RECONCILE_WINDOW_H, in occurrences
    MaxFaults,     \* bound: power cuts, dead lines, deaths of the server and of its link
    MaxDown, MaxUp, \* bounds: messages to the unit; from it, under way or being handled
    MaxHandlers    \* bound: handlers under way together

OnOff == {"on", "off"}
Occ == 1..MaxNow

ASSUME ChannelAssumption ==
    /\ IsFiniteSet(Orders) /\ Action \in [Orders -> OnOff] /\ Misfits \subseteq Orders
    /\ Boots \subseteq {"off", "last_state", "schedule"}
    /\ MaxNow \in Nat /\ LastAsk \in Nat /\ Act \in [0..MaxNow -> OnOff]
    /\ MaxQueue \in Nat \ {0} /\ Ring \in Nat \ {0} /\ Window \in Nat
    /\ MaxFaults \in Nat /\ MaxDown \in Nat \ {0} /\ MaxUp \in Nat /\ MaxHandlers \in Nat

VARIABLES
    rows,          \* rows[o]: commands.status, "none" before the INSERT
    calls,         \* calls[o]: where sendImmediateCommand is
    handlers,      \* handlers of messages under way
    srv,           \* is the server running
    online,        \* devices.is_online
    current,       \* relays.current_state
    lastDropped,   \* lastExecDropped of the process
    told,          \* device_events: the largest number of lost reports told of
    log, refused,  \* occurrences with an executed row; with a bad_exec_report event
    down, up,      \* messages to the unit, and from it to the server
    conn,          \* the unit's connection: "up", "down", or "dead": gone, and nobody noticed
    power, clock, primed,  \* the unit: powered, timeValid, prevMow >= 0
    boot,          \* boot behaviour of the relay
    out, ids,      \* RAM: relayState, lastCmdIds
    saved, queue, dropped, \* flash: laststate, execq, execdrop
    now, faults,   \* the time; bound
    done,          \* history: how often each order was carried out
    cuts,          \* history: power cuts
    kept,          \* history: the state that an order or the schedule last put the relay into
    fired,         \* history: occurrences the unit switched for
    discarded,     \* history: occurrences pushed out of the queue
    lost,          \* history: occurrences whose report went with a connection, a process or the power
    hand,          \* history: the relay was ordered about since the schedule was last asserted
    skipped        \* history: a minute began between the first time sync and the first look at it

server  == <<rows, calls, handlers, srv, online, current, lastDropped, told, log, refused>>
flash   == <<saved, queue, dropped>>
ram     == <<clock, primed, out, ids>>
history == <<done, cuts, kept, fired, discarded, lost, hand, skipped>>
vars    == <<server, down, up, conn, power, boot, ram, flash, now, faults, history>>

Order(o)   == [kind |-> "order", id |-> o]
Schedule   == [kind |-> "schedule"]

\* Messages to the server.  A status from an ended connection is the last will.
AckOf(o, ok, s)  == [kind |-> "ack", id |-> o, ok |-> ok, state |-> s]
Status(s, n)     == [kind |-> "status", alive |-> TRUE, state |-> s, dropped |-> n]
Will             == [kind |-> "status", alive |-> FALSE, state |-> "off", dropped |-> 0]
Report(k)        == [kind |-> "exec", occ |-> k]

Fault == faults < MaxFaults /\ faults' = faults + 1

\* The occurrences of which reports are among the messages m.
Reported(m) == {k \in Occ : Report(k) \in m}

\* The unit is idle, on the network or, as the server knows, off it.
Init ==
    /\ rows = [o \in Orders |-> "none"] /\ calls = [o \in Orders |-> "idle"]
    /\ handlers = {} /\ srv = TRUE
    /\ lastDropped = 0 /\ told = 0 /\ log = {} /\ refused = {}
    /\ down = <<>> /\ up = <<>> /\ conn \in {"up", "down"} /\ online = (conn = "up")
    /\ power = TRUE /\ clock = TRUE /\ primed = TRUE
    /\ boot \in Boots
    /\ out = Act[0] /\ current = out /\ ids = <<>>
    /\ saved = out /\ queue = <<>> /\ dropped = 0
    /\ now = 0 /\ faults = 0
    /\ done = [o \in Orders |-> 0] /\ cuts = 0 /\ kept = out
    /\ fired = {} /\ discarded = {} /\ lost = {}
    /\ hand = FALSE /\ skipped = FALSE

-----------------------------------------------------------------------------
(* sendImmediateCommand, the branch of the ESP32 *)

CallFrame(o, pc) ==
    /\ calls' = [calls EXCEPT ![o] = pc]
    /\ UNCHANGED <<handlers, srv, online, current, lastDropped, told, log, refused,
                   up, conn, power, boot, ram, flash, now, history>>

\* The device row is read, then the command inserted.
Ask(o) ==
    /\ srv /\ calls[o] = "idle" /\ rows[o] = "none" /\ now <= LastAsk
    /\ rows' = [rows EXCEPT ![o] = "pending"]
    /\ CallFrame(o, IF online THEN "publish" ELSE "offline")
    /\ UNCHANGED <<down, faults>>

Offline(o) ==
    /\ calls[o] = "offline"
    /\ rows' = [rows EXCEPT ![o] = "failed"]
    /\ CallFrame(o, "done")
    /\ UNCHANGED <<down, faults>>

\* The broker keeps nothing for a unit that is not there: clean session, and
\* the order is not retained.
Deliver(q, m) == IF conn = "up" THEN q \o m ELSE q

Publish(o) ==
    /\ calls[o] = "publish" /\ Len(down) < MaxDown
    /\ down' = Deliver(down, <<Order(o)>>)
    /\ CallFrame(o, "puback")
    /\ UNCHANGED <<rows, faults>>

PublishFails(o) ==
    /\ calls[o] = "publish" /\ Fault
    /\ rows' = [rows EXCEPT ![o] = "failed"]
    /\ CallFrame(o, "done")
    /\ UNCHANGED down

\* The broker has the order; the row is marked, and only then the waiter of
\* the acknowledgement registered.
Mark(o) ==
    /\ calls[o] = "puback"
    /\ rows' = [rows EXCEPT ![o] = "sent"]
    /\ CallFrame(o, "wait")
    /\ UNCHANGED <<down, faults>>

\* No answer in time; one that comes later finds no waiter.
Timeout(o) ==
    /\ calls[o] = "wait"
    /\ rows' = [rows EXCEPT ![o] = "failed"]
    /\ CallFrame(o, "done")
    /\ UNCHANGED <<down, faults>>

CallStep(o) == Offline(o) \/ Publish(o) \/ Mark(o) \/ Timeout(o)

-----------------------------------------------------------------------------
(* handleAck, handleStatus, ingestExecReport *)

\* at is the last statement of a handler that has had its effect; slot tells
\* the handlers of equal messages apart.
Received(m, n) == [msg |-> m, at |-> "new", slot |-> n]
Advanced(h, stage) == (handlers \ {h}) \union {[h EXCEPT !.at = stage]}
HandlerFrame ==
    UNCHANGED <<srv, down, conn, power, boot, ram, flash, now, faults, history>>

Receive ==
    /\ srv /\ up # <<>> /\ Cardinality(handlers) < MaxHandlers
    /\ up' = Tail(up)
    /\ LET taken == {h.slot : h \in {g \in handlers : g.msg = Head(up)}}
       IN  \E n \in (1..MaxHandlers) \ taken :
              /\ 1..(n - 1) \subseteq taken
              /\ handlers' = handlers \union {Received(Head(up), n)}
    /\ UNCHANGED <<rows, calls, online, current, lastDropped, told, log, refused>> /\ HandlerFrame

\* The state in an acknowledgement is written first, whoever waits for it.
AckStored(h) ==
    /\ h \in handlers /\ h.msg.kind = "ack" /\ h.at = "new"
    /\ handlers' = Advanced(h, "stored")
    /\ current' = IF h.msg.ok THEN h.msg.state ELSE current
    /\ UNCHANGED <<rows, calls, online, lastDropped, told, log, refused, up>> /\ HandlerFrame

\* Wrong on purpose: whichever order waits takes the acknowledgement.
AckAnsweredAnybody(h) ==
    /\ h \in handlers /\ h.msg.kind = "ack" /\ h.at = "stored"
    /\ handlers' = handlers \ {h}
    /\ \E o \in Orders :
          /\ calls[o] = "wait"
          /\ calls' = [calls EXCEPT ![o] = "done"]
          /\ rows' = [rows EXCEPT ![o] = IF h.msg.ok THEN "acked" ELSE "failed"]
    /\ UNCHANGED <<online, current, lastDropped, told, log, refused, up>> /\ HandlerFrame

\* Then the waiter is looked up, by the id of the order, and marks its row.
AckAnswered(h) ==
    /\ h \in handlers /\ h.msg.kind = "ack" /\ h.at = "stored"
    /\ handlers' = handlers \ {h}
    /\ IF calls[h.msg.id] = "wait"
       THEN /\ calls' = [calls EXCEPT ![h.msg.id] = "done"]
            /\ rows' = [rows EXCEPT ![h.msg.id] = IF h.msg.ok THEN "acked" ELSE "failed"]
       ELSE UNCHANGED <<calls, rows>>
    /\ UNCHANGED <<online, current, lastDropped, told, log, refused, up>> /\ HandlerFrame

\* A status is taken in by statements between which other handlers run, so the
\* last writer need not be the last message.  First the presence: it is all
\* that the will brings.
StatusPresent(h) ==
    /\ h \in handlers /\ h.msg.kind = "status" /\ h.at = "new"
    /\ online' = h.msg.alive
    /\ handlers' = IF h.msg.alive THEN Advanced(h, "present") ELSE handlers \ {h}
    /\ UNCHANGED <<rows, calls, current, lastDropped, told, log, refused, up>> /\ HandlerFrame

\* Wrong on purpose: the state of the relay is left to the acknowledgements.
StatusStateIgnored(h) ==
    /\ h \in handlers /\ h.msg.kind = "status" /\ h.at = "present"
    /\ handlers' = Advanced(h, "state")
    /\ UNCHANGED <<rows, calls, online, current, lastDropped, told, log, refused, up>> /\ HandlerFrame

\* Then the state of the relay.
StatusState(h) ==
    /\ h \in handlers /\ h.msg.kind = "status" /\ h.at = "present"
    /\ current' = h.msg.state
    /\ handlers' = Advanced(h, "state")
    /\ UNCHANGED <<rows, calls, online, lastDropped, told, log, refused, up>> /\ HandlerFrame

\* The number of lost reports is told of when it is larger than this process
\* remembers,
StatusTold(h) ==
    /\ h \in handlers /\ h.msg.kind = "status" /\ h.at = "state"
    /\ h.msg.dropped > lastDropped
    /\ told' = IF h.msg.dropped > told THEN h.msg.dropped ELSE told
    /\ handlers' = Advanced(h, "told")
    /\ UNCHANGED <<rows, calls, online, current, lastDropped, log, refused, up>> /\ HandlerFrame

\* and remembered, at once or after the telling, even in the place of a larger one.
StatusRemembered(h) ==
    /\ h \in handlers /\ h.msg.kind = "status"
    /\ h.at = "told" \/ (h.at = "state" /\ h.msg.dropped <= lastDropped)
    /\ lastDropped' = h.msg.dropped
    /\ handlers' = handlers \ {h}
    /\ UNCHANGED <<rows, calls, online, current, told, log, refused, up>> /\ HandlerFrame

StatusStep(h) == StatusPresent(h) \/ StatusState(h) \/ StatusTold(h) \/ StatusRemembered(h)

\* A report makes the occurrence executed, unless it is out of the window.
ReportHandled(h) ==
    /\ h \in handlers /\ h.msg.kind = "exec"
    /\ handlers' = handlers \ {h}
    /\ IF now - h.msg.occ > Window
       THEN refused' = refused \union {h.msg.occ} /\ UNCHANGED log
       ELSE log' = log \union {h.msg.occ} /\ UNCHANGED refused
    /\ UNCHANGED <<rows, calls, online, current, lastDropped, told, up>> /\ HandlerFrame

HandlerStep ==
    \E h \in handlers : AckStored(h) \/ AckAnswered(h) \/ StatusStep(h) \/ ReportHandled(h)

-----------------------------------------------------------------------------
(* The firmware *)

\* Publications: they reach the server when the connection and the server are
\* up; a dead line swallows them, and publish() does not notice.
Heard == conn = "up" /\ srv
Emit(m) == up' = IF Heard THEN up \o m ELSE up
Room(n) == Len(up) + Cardinality(handlers) + n <= MaxUp
Swallowed(m) == IF Heard THEN {} ELSE Reported(ToSet(m))

\* The status the firmware publishes after it has driven the relay.
StatusNow == Status(out', dropped)

Drive(s) == out' = s /\ saved' = s

UnitFrame == UNCHANGED <<server, conn, power, boot, clock, primed, now, faults, cuts, skipped>>

\* Wrong on purpose: the ids are not compared.
HandleCmdAgain ==
    /\ power /\ conn = "up" /\ down # <<>> /\ Head(down).kind = "order"
    /\ LET o    == Head(down).id
           dup  == FALSE
           fits == o \notin Misfits
       IN  /\ Room(IF dup THEN 1 ELSE 2)
           /\ ids' = IF dup THEN ids
                     ELSE IF Len(ids) < Ring THEN Append(ids, o) ELSE Append(Tail(ids), o)
           /\ IF fits /\ ~dup
              THEN Drive(Action[o]) /\ kept' = out' /\ done' = [done EXCEPT ![o] = @ + 1] /\ hand' = TRUE
              ELSE UNCHANGED <<out, saved, kept, done, hand>>
           /\ Emit(<<AckOf(o, fits, out')>> \o (IF dup THEN <<>> ELSE <<StatusNow>>))
    /\ down' = Tail(down)
    /\ UNCHANGED <<queue, dropped, fired, discarded, lost>> /\ UnitFrame

\* handleCmd: one of the last ids is acknowledged again and not carried out.
HandleCmd ==
    /\ power /\ conn = "up" /\ down # <<>> /\ Head(down).kind = "order"
    /\ LET o    == Head(down).id
           dup  == o \in ToSet(ids)
           fits == o \notin Misfits
       IN  /\ Room(IF dup THEN 1 ELSE 2)
           /\ ids' = IF dup THEN ids
                     ELSE IF Len(ids) < Ring THEN Append(ids, o) ELSE Append(Tail(ids), o)
           /\ IF fits /\ ~dup
              THEN Drive(Action[o]) /\ kept' = out' /\ done' = [done EXCEPT ![o] = @ + 1] /\ hand' = TRUE
              ELSE UNCHANGED <<out, saved, kept, done, hand>>
           /\ Emit(<<AckOf(o, fits, out')>> \o (IF dup THEN <<>> ELSE <<StatusNow>>))
    /\ down' = Tail(down)
    /\ UNCHANGED <<queue, dropped, fired, discarded, lost>> /\ UnitFrame

\* Wrong on purpose: the schedule is not consulted.
WantedStored(s, timed) == IF boot = "off" THEN "off" ELSE s

\* applyBootBehavior: what the relay should be, given the stored state s.
Wanted(s, timed) ==
    CASE boot = "off"        -> "off"
      [] boot = "last_state" -> s
      [] boot = "schedule"   -> IF timed THEN Act[now] ELSE "off"

\* handleSchedule: applySchedulePayload stores the states of the moment, then
\* the boot behaviour is applied.  The broker delivers the retained schedule
\* at every connection, so this is no rare event.
HandleSchedule ==
    /\ power /\ conn = "up" /\ down # <<>> /\ Head(down).kind = "schedule" /\ Room(1)
    /\ down' = Tail(down)
    /\ Drive(Wanted(out, clock)) /\ kept' = out' /\ hand' = FALSE
    /\ Emit(<<StatusNow>>)
    /\ UNCHANGED <<ids, queue, dropped, done, fired, discarded, lost>> /\ UnitFrame

\* Wrong on purpose: room is made one report too late.
EnqueuedTooMany(k) ==
    LET full == Len(queue) > MaxQueue
    IN  /\ queue' = IF full THEN Append(Tail(queue), k) ELSE Append(queue, k)
        /\ dropped' = IF full THEN dropped + 1 ELSE dropped
        /\ discarded' = IF full THEN discarded \union {Head(queue)} ELSE discarded

\* queueExecReport: the oldest goes, and is counted, while the queue is full.
Enqueued(k) ==
    LET full == Len(queue) >= MaxQueue
    IN  /\ queue' = IF full THEN Append(Tail(queue), k) ELSE Append(queue, k)
        /\ dropped' = IF full THEN dropped + 1 ELSE dropped
        /\ discarded' = IF full THEN discarded \union {Head(queue)} ELSE discarded

\* reportExec: published, or queued when the unit knows that it is offline.
ReportExec(k) ==
    IF conn = "down"
    THEN Enqueued(k) /\ UNCHANGED lost
    ELSE UNCHANGED <<queue, dropped, discarded>> /\ lost' = lost \union Swallowed(<<Report(k)>>)

TimeFrame == UNCHANGED <<server, boot, clock, ids, done>>

\* A call lasts seconds and occurrences are hours apart: a call may be under
\* way when one begins, and is over when the next one does.
NextDue ==
    /\ now < MaxNow
    /\ now > LastAsk => \A o \in Orders : calls[o] \in {"idle", "done"}

\* The minute of the next occurrence begins and the unit fires: drive, store,
\* report, status.
Fire ==
    /\ NextDue /\ power /\ clock /\ primed /\ Room(2)
    /\ now' = now + 1
    /\ Drive(Act[now']) /\ kept' = out' /\ fired' = fired \union {now'}
    /\ ReportExec(now')
    /\ Emit(<<Report(now'), Status(out', dropped')>>)
    /\ hand' = FALSE
    /\ UNCHANGED <<down, conn, power, primed, faults, cuts, skipped>> /\ TimeFrame

\* No power, or no valid time: nothing happens.  With a time that the loop has
\* not looked at yet, the first look takes the minute for the starting point.
Miss ==
    /\ NextDue /\ ~(power /\ clock /\ primed)
    /\ now' = now + 1
    /\ skipped' = (skipped \/ (power /\ clock))
    /\ UNCHANGED <<down, up, conn, power, primed, out, flash, faults, cuts, kept, fired, discarded, lost, hand>>
    /\ TimeFrame

\* flushExecQueue: the first n reports are published, n is less than all when
\* publish() fails on the way; then the rest is stored.
Reports(q) == [i \in 1..Len(q) |-> Report(q[i])]

\* Wrong on purpose: the queue is emptied although a report did not go out.
FlushForgetting(n) ==
    /\ power /\ conn # "down" /\ queue # <<>> /\ n \in 1..Len(queue) /\ Room(n)
    /\ queue' = <<>>
    /\ LET sent == Reports(SubSeq(queue, 1, n - 1))
       IN  Emit(sent) /\ lost' = lost \union Swallowed(sent)
    /\ UNCHANGED <<down, out, ids, saved, dropped, done, kept, fired, discarded, hand>> /\ UnitFrame

Flush(n) ==
    /\ power /\ conn # "down" /\ queue # <<>> /\ n \in 1..Len(queue) /\ Room(n)
    /\ queue' = SubSeq(queue, n + 1, Len(queue))
    /\ LET sent == Reports(SubSeq(queue, 1, n))
       IN  Emit(sent) /\ lost' = lost \union Swallowed(sent)
    /\ UNCHANGED <<down, out, ids, saved, dropped, done, kept, fired, discarded, hand>> /\ UnitFrame

\* One a minute: what was on its way before has been handled.
Heartbeat ==
    /\ power /\ conn = "up" /\ srv /\ down = <<>> /\ up = <<>> /\ handlers = {} /\ Room(1)
    /\ up' = <<Status(out, dropped)>>
    /\ UNCHANGED <<down, ram, flash, history>> /\ UnitFrame

\* mqttConnect: subscribe, which brings the retained schedule, and a status.
Connect ==
    /\ power /\ conn = "down" /\ Room(1)
    /\ conn' = "up" /\ down' = <<Schedule>>
    /\ up' = IF srv THEN Append(up, Status(out, dropped)) ELSE up
    /\ UNCHANGED <<server, power, boot, ram, flash, now, faults, history>>

\* setup: outputs off; the stored schedule is applied, which stores the states
\* of the moment.
Boot ==
    /\ ~power
    /\ power' = TRUE
    /\ Drive("off")
    /\ UNCHANGED <<server, down, up, conn, boot, clock, primed, ids, queue, dropped, now, faults, history>>

\* The first valid time: the boot behaviour is applied.
ClockSync ==
    /\ power /\ ~clock /\ Room(1)
    /\ clock' = TRUE
    /\ Drive(Wanted(saved, TRUE)) /\ hand' = FALSE
    /\ Emit(<<StatusNow>>)
    /\ UNCHANGED <<server, down, conn, power, boot, primed, ids, queue, dropped, now, faults>>
    /\ UNCHANGED <<done, cuts, kept, fired, discarded, lost, skipped>>

\* The first executionTick with a valid time notes the minute and returns.
Prime ==
    /\ power /\ clock /\ ~primed
    /\ primed' = TRUE
    /\ UNCHANGED <<server, down, up, conn, power, boot, clock, out, ids, flash, now, faults, history>>

-----------------------------------------------------------------------------
(* Faults *)

\* What the loss of power takes: the outputs, the RAM, the connection.
DarkFrame ==
    /\ power' = FALSE /\ out' = "off" /\ ids' = <<>> /\ clock' = FALSE /\ primed' = FALSE
    /\ conn' = "down" /\ down' = <<>>
    /\ cuts' = cuts + 1 /\ hand' = FALSE /\ skipped' = FALSE
    /\ UNCHANGED <<server, boot, done>>

Dying == IF conn = "up" /\ srv THEN <<Will>> ELSE <<>>

PowerCut ==
    /\ power /\ Fault /\ Room(1) /\ DarkFrame
    /\ up' = up \o Dying
    /\ UNCHANGED <<flash, now, kept, fired, discarded, lost>>

\* In the middle of fireEvent: the relay was driven, the report is not out.
CutWhileFiring ==
    /\ power /\ clock /\ primed /\ NextDue /\ Fault /\ Room(1) /\ DarkFrame
    /\ now' = now + 1 /\ fired' = fired \union {now'} /\ saved' = Act[now'] /\ kept' = saved'
    /\ lost' = lost \union {now'}
    /\ up' = up \o Dying
    /\ UNCHANGED <<queue, dropped, discarded>>

\* In queueExecReport, after the counter and before the queue is stored.
CutWhileQueueing ==
    /\ power /\ clock /\ primed /\ NextDue /\ Fault /\ conn = "down" /\ DarkFrame
    /\ Len(queue) >= MaxQueue
    /\ now' = now + 1 /\ fired' = fired \union {now'} /\ saved' = Act[now'] /\ kept' = saved'
    /\ dropped' = dropped + 1 /\ lost' = lost \union {now'}
    /\ UNCHANGED <<up, queue, discarded>>

\* In flushExecQueue, after the publications and before the rest is stored.
CutWhileFlushing ==
    /\ power /\ conn = "up" /\ queue # <<>> /\ Fault /\ Room(Len(queue) + 1) /\ DarkFrame
    /\ up' = IF srv THEN up \o Reports(queue) \o Dying ELSE up
    /\ UNCHANGED <<flash, now, kept, fired, discarded, lost>>

NetFrame == UNCHANGED <<power, boot, ram, flash, now, done, cuts, kept, fired, discarded, hand, skipped>>

\* The line dies: the broker publishes the will when it notices, the unit
\* notices later.
LineDies ==
    /\ conn = "up" /\ Fault /\ Room(1)
    /\ conn' = "dead" /\ down' = <<>>
    /\ up' = up \o Dying
    /\ UNCHANGED <<server, lost>> /\ NetFrame

NoticeDead ==
    /\ power /\ conn = "dead"
    /\ conn' = "down"
    /\ UNCHANGED <<server, down, up, lost, faults>> /\ NetFrame

\* The retained status is the last one of the unit, or its will.
Retained == IF conn = "up" THEN Status(out, dropped) ELSE Will

\* The server's link to the broker breaks and comes back: what was on its way
\* is gone, the orders without a PUBACK are published again, in their order.
Unconfirmed == {o \in Orders : calls[o] = "puback"}

LinkBreaks ==
    /\ srv /\ Fault /\ Len(down) + Cardinality(Unconfirmed) <= MaxDown
    /\ lost' = lost \union Reported(ToSet(up))
    /\ up' = <<Retained>>
    /\ \E s \in SetToSeqs(Unconfirmed) :
          down' = Deliver(down, [i \in 1..Len(s) |-> Order(s[i])])
    /\ UNCHANGED <<server, conn>> /\ NetFrame

\* The process ends, with its calls, its handlers and what was on its way.
Crash ==
    /\ srv /\ Fault
    /\ srv' = FALSE /\ up' = <<>> /\ handlers' = {} /\ lastDropped' = 0
    /\ calls' = [o \in Orders |-> IF calls[o] = "idle" THEN "idle" ELSE "done"]
    /\ lost' = lost \union Reported(ToSet(up) \union {h.msg : h \in handlers})
    /\ UNCHANGED <<rows, online, current, told, log, refused, down, conn>> /\ NetFrame

Restart ==
    /\ ~srv
    /\ srv' = TRUE /\ up' = <<Retained>>
    /\ UNCHANGED <<rows, calls, handlers, online, current, lastDropped, told, log, refused,
                   down, conn, lost, faults>> /\ NetFrame

-----------------------------------------------------------------------------
ServerStep ==
    \/ \E o \in Orders : Ask(o) \/ CallStep(o) \/ PublishFails(o)
    \/ Receive \/ HandlerStep

UnitStep ==
    \/ HandleCmd \/ HandleSchedule \/ Fire \/ Miss \/ Heartbeat \/ Connect
    \/ Boot \/ ClockSync \/ Prime
    \/ \E n \in 1..MaxQueue : Flush(n)

Trouble ==
    \/ PowerCut \/ CutWhileFiring \/ CutWhileQueueing \/ CutWhileFlushing
    \/ LineDies \/ NoticeDead \/ LinkBreaks \/ Crash \/ Restart

Next == ServerStep \/ UnitStep \/ Trouble

Spec == Init /\ [][Next]_vars

\* Calls, messages and handlers get on; the unit's loop runs, its power and
\* its connection come back, the process is restarted.
Fairness ==
    /\ \A o \in Orders : WF_vars(CallStep(o))
    /\ WF_vars(Receive) /\ WF_vars(HandlerStep)
    /\ WF_vars(HandleCmd) /\ WF_vars(HandleSchedule) /\ WF_vars(Heartbeat) /\ WF_vars(Connect)
    /\ WF_vars(Boot) /\ WF_vars(ClockSync) /\ WF_vars(Prime)
    /\ WF_vars(\E n \in 1..MaxQueue : n = Len(queue) /\ Flush(n))
    /\ WF_vars(NoticeDead) /\ WF_vars(Restart)

FairSpec == Spec /\ Fairness
-----------------------------------------------------------------------------
(* Properties *)

Acks     == [kind : {"ack"}, id : Orders, ok : BOOLEAN, state : OnOff]
Statuses == [kind : {"status"}, alive : BOOLEAN, state : OnOff, dropped : Nat]
Execs    == [kind : {"exec"}, occ : Occ]
Messages == Acks \union Statuses \union Execs
Downs    == [kind : {"order"}, id : Orders] \union {Schedule}
Statements == {"new", "stored", "present", "state", "told"}
Stages   == {"idle", "offline", "publish", "puback", "wait", "done"}

\* Every variable has its type; the queue of the unit stays within its bound.
TypeOK ==
    /\ rows \in [Orders -> {"none", "pending", "sent", "acked", "failed"}]
    /\ calls \in [Orders -> Stages]
    /\ handlers \in SUBSET [msg : Messages, at : Statements, slot : Nat]
    /\ srv \in BOOLEAN /\ online \in BOOLEAN /\ current \in OnOff
    /\ lastDropped \in Nat /\ told \in Nat /\ log \in SUBSET Occ /\ refused \in SUBSET Occ
    /\ down \in Seq(Downs) /\ up \in Seq(Messages) /\ conn \in {"up", "dead", "down"}
    /\ power \in BOOLEAN /\ clock \in BOOLEAN /\ primed \in BOOLEAN
    /\ boot \in Boots /\ out \in OnOff /\ ids \in Seq(Orders)
    /\ saved \in OnOff /\ queue \in Seq(Occ) /\ Len(queue) <= MaxQueue /\ dropped \in Nat
    /\ now \in 0..MaxNow /\ faults \in 0..MaxFaults
    /\ done \in [Orders -> Nat] /\ cuts \in Nat /\ kept \in OnOff
    /\ fired \in SUBSET Occ /\ discarded \in SUBSET Occ /\ lost \in SUBSET Occ
    /\ hand \in BOOLEAN /\ skipped \in BOOLEAN

\* What the customer is told (commands.js:188-210), with acknowledgements that
\* come early, late, twice or for another order: an order is answered once, it
\* is acked only if the unit did it, and a late ack leaves it failed (D22).
Answer(s) == IF s \in {"pending", "sent"} THEN "open" ELSE s
Ledger == INSTANCE OrderLedger WITH
    answer <- [o \in Orders |-> Answer(rows[o])], obeyed <- {o \in Orders : done[o] > 0}
ImplementsLedger == Ledger!Spec

\* The dedupe of handleCmd (main.cpp:334-339): orders that the server's link
\* publishes again are carried out again only by a unit that lost its memory
\* with the power.
OncePerPower == \A o \in Orders : done[o] <= 1 + cuts

\* fireEvent, reportExec, the queue in flash and ingestExecReport together: no
\* occurrence that the unit switched for is forgotten.  It is in the log, in
\* an error event, on its way, in the queue, or was pushed out of the queue,
\* unless a connection, a process or the power went while it was in its hands.
\* queueExecReport counts what it pushes out before it stores (main.cpp:277-281):
\* power cuts on the way can make the counter too large, never too small.
OnTheWay == ToSet(up) \union {h.msg : h \in handlers}
ReportsAccounted ==
    /\ fired \subseteq log \union refused \union Reported(OnTheWay)
                           \union ToSet(queue) \union discarded \union lost
    /\ Cardinality(discarded) <= dropped

\* applyBootBehavior and executionTick, for a relay whose boot behaviour is
\* the schedule: power cuts and missed minutes in any order, the relay is in
\* the state of the latest occurrence unless somebody ordered it otherwise.
\* The exception is a minute that begins between the first time sync and the
\* first look at the clock: executionTick takes it for its starting point.
SelfHeals == power /\ clock /\ boot = "schedule" /\ ~hand /\ ~skipped => out = Act[now]

\* Whatever was lost, and in whatever order overlapping handlers (client.js:283)
\* wrote presence, state and drop count, an old will after the new status too,
\* the server ends up knowing the unit: it is online, in the state recorded,
\* its queue is delivered and the reports it dropped are told of.
UnitIsKnown == <>[](online /\ current = out /\ queue = <<>> /\ told = dropped)

\* SPEC.md 6: "`last_state` -> NVS saved state".  So a relay with this boot
\* behaviour is, whenever the unit is up and has its time, in the state that
\* an order or the schedule last put it into.
RestoresLastState == power /\ clock /\ boot = "last_state" => out = kept
=============================================================================
