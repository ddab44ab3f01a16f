-------------------------- MODULE ScheduleChannel --------------------------
(***************************************************************************)
(* How the schedule of an ESP32 unit gets from the database into the unit  *)
(* and how the server learns that it did.  Every edit raises               *)
(* devices.schedule_version; a push reads the version, then the rows, and  *)
(* publishes them retained; the unit stores what it receives whole and     *)
(* acknowledges its version; a status with an older version is answered    *)
(* with another push; a push that is not acknowledged while the unit is    *)
(* online is flagged.                                                      *)
(*                                                                         *)
(* Pushes and message handlers are asynchronous functions: each database   *)
(* statement is a step, and any number of them are under way together.     *)
(* Two calls in the same stage with the same data are one element of the   *)
(* set.  The statements of buildDevicePayload after the first one are one  *)
(* step, at the time of the last.                                          *)
(* Contents are counted in edits: content c holds the edits 1..c.          *)
(***************************************************************************)
EXTENDS Naturals, Sequences, FiniteSets

CONSTANTS
    MaxEdits,     \* bound: edits of the schedule
    MaxFaults,    \* bound: lost connections, deaths of the server, damaged payloads
    MaxDown,      \* bound: payloads on the way to the unit
    MaxUp,        \* bound: messages on the way to the server
    MaxHandlers   \* bound: handlers under way together

ASSUME BoundsAssumption ==
    /\ MaxEdits \in Nat /\ MaxFaults \in Nat
    /\ MaxDown \in Nat \ {0} /\ MaxUp \in Nat \ {0} /\ MaxHandlers \in Nat \ {0}

VARIABLES
    ver, ackVer, sync, online,        \* devices: schedule_version, device_ack_version, sync_status, is_online
    retained,                         \* broker: the retained schedule
    conn, down, up,                   \* is the unit connected; messages in flight to and from it
    unit,                             \* the schedule in the unit
    srv,                              \* is the server process running
    pushes, handlers,                 \* calls of pushScheduleToDevice and of the status and ack handlers
    timer, flagging,                  \* the 60 s ack timer: armed, and past its check
    faults,                           \* bound
    best                              \* history: the newest edit ever installed in the unit

device == <<ver, ackVer, sync, online>>
path   == <<conn, down, up>>
calls  == <<pushes, handlers, timer, flagging>>
vars   == <<device, retained, path, unit, srv, calls, faults, best>>

Versions == 0..MaxEdits
Payload(v, c) == [version |-> v, content |-> c]
Payloads == [version : Versions, content : Versions]
Nothing  == Payload(0, 0)            \* no payload yet: the same as an empty schedule

Status(alive, v) == [kind |-> "status", good |-> alive, version |-> v]
Ack(ok, v)       == [kind |-> "ack", good |-> ok, version |-> v]
Messages == [kind : {"status", "ack"}, good : BOOLEAN, version : Versions]

\* A call of pushScheduleToDevice: about to read the version, to read the rows,
\* to publish, to set the timer.
Asked        == [pc |-> "version", version |-> 0, content |-> 0]
Read(v)      == [pc |-> "rows", version |-> v, content |-> 0]
Built(v, c)  == [pc |-> "publish", version |-> v, content |-> c]
Sent         == [pc |-> "timer", version |-> 0, content |-> 0]

Fault == faults < MaxFaults /\ faults' = faults + 1

Larger(m, n) == IF m >= n THEN m ELSE n

Init ==
    /\ ver = 0 /\ ackVer = 0 /\ sync \in {"pending", "synced"} /\ online = TRUE
    /\ retained = Nothing
    /\ conn = TRUE /\ down = <<>> /\ up = <<>>
    /\ unit = Nothing
    /\ srv = TRUE
    /\ pushes = {} /\ handlers = {} /\ timer = FALSE /\ flagging = FALSE
    /\ faults = 0
    /\ best = 0

-----------------------------------------------------------------------------
(* Edits and pushes *)

\* A transaction on the schedules with bumpDevices; the push follows the commit.
Edit ==
    /\ srv /\ ver < MaxEdits
    /\ ver' = ver + 1 /\ sync' = "pending"
    /\ pushes' = pushes \union {Asked}
    /\ UNCHANGED <<ackVer, online, retained, path, unit, srv, handlers, timer, flagging, faults, best>>

PushFrame == UNCHANGED <<device, conn, up, unit, srv, handlers, flagging, faults, best>>

\* buildDevicePayload: the version first, the rows in later statements.
PushReadVersion ==
    /\ Asked \in pushes
    /\ pushes' = (pushes \ {Asked}) \union {Read(ver)}
    /\ UNCHANGED <<retained, down, timer>> /\ PushFrame

\* Wrong on purpose: the statements in the other order, the rows that belong
\* to v first and the version only now.
PushReadRowsFirst(v) ==
    /\ Read(v) \in pushes
    /\ pushes' = (pushes \ {Read(v)}) \union {Built(ver, v)}
    /\ UNCHANGED <<retained, down, timer>> /\ PushFrame

PushReadRows(v) ==
    /\ Read(v) \in pushes
    /\ pushes' = (pushes \ {Read(v)}) \union {Built(v, ver)}
    /\ UNCHANGED <<retained, down, timer>> /\ PushFrame

\* Published retained.
PushPublish(v, c) ==
    /\ Built(v, c) \in pushes /\ Len(down) < MaxDown
    /\ pushes' = (pushes \ {Built(v, c)}) \union {Sent}
    /\ retained' = Payload(v, c)
    /\ down' = IF conn THEN Append(down, Payload(v, c)) ELSE down
    /\ UNCHANGED timer /\ PushFrame

\* When the broker has confirmed it and last_pushed_at is written, the timer is
\* set; one of an earlier push is replaced.
PushArm ==
    /\ Sent \in pushes
    /\ pushes' = pushes \ {Sent}
    /\ timer' = TRUE
    /\ UNCHANGED <<retained, down>> /\ PushFrame

\* The timer runs out: it looks whether the unit is online and behind, and
\* then flags.
TimerCheck ==
    /\ timer
    /\ timer' = FALSE
    /\ flagging' = (flagging \/ (online /\ ackVer < ver))
    /\ UNCHANGED <<device, retained, path, unit, srv, pushes, handlers, faults, best>>

TimerFlag ==
    /\ flagging
    /\ flagging' = FALSE
    /\ sync' = "error"
    /\ UNCHANGED <<ver, ackVer, online, retained, path, unit, srv, pushes, handlers, timer, faults, best>>

-----------------------------------------------------------------------------
(* The unit *)

\* handleSchedule: the payload replaces what the unit holds, whatever its
\* version; a payload whose hash does not match is discarded.  The unit
\* acknowledges and publishes its status.
UnitReceives(good) ==
    /\ conn /\ down # <<>> /\ Len(up) + 2 <= MaxUp
    /\ down' = Tail(down)
    /\ IF good THEN /\ unit' = Head(down) /\ best' = Larger(best, Head(down).content)
                    /\ UNCHANGED faults
       ELSE Fault /\ UNCHANGED <<unit, best>>
    /\ up' = IF srv THEN up \o <<Ack(good, Head(down).version), Status(TRUE, unit'.version)>> ELSE up
    /\ UNCHANGED <<device, retained, conn, srv, calls>>

\* A payload that does not parse is dropped without a word.
UnitDiscards ==
    /\ conn /\ down # <<>> /\ Fault
    /\ down' = Tail(down)
    /\ UNCHANGED <<device, retained, conn, up, unit, srv, calls, best>>

\* The heartbeat, once a minute: no delivery and no handler takes that long.
\* (A status after a command carries the same version.)
Heartbeat ==
    /\ conn /\ srv /\ down = <<>> /\ up = <<>> /\ handlers = {}
    /\ up' = <<Status(TRUE, unit.version)>>
    /\ UNCHANGED <<device, retained, conn, down, unit, srv, calls, faults, best>>

\* The connection ends, for want of internet or of power; the retained
\* publishes the last will.  A payload the unit has stored in that moment is
\* kept, its acknowledgement is not sent.
Disconnect(stored) ==
    /\ conn /\ Fault /\ Len(up) < MaxUp
    /\ conn' = FALSE /\ down' = <<>>
    /\ IF stored THEN /\ down # <<>>
                      /\ unit' = Head(down) /\ best' = Larger(best, Head(down).content)
       ELSE UNCHANGED <<unit, best>>
    /\ up' = IF srv THEN Append(up, Status(FALSE, 0)) ELSE up
    /\ UNCHANGED <<device, retained, srv, calls>>

\* mqttConnect: subscribe, which brings the retained schedule, and a status.
Connect ==
    /\ ~conn /\ Len(up) < MaxUp
    /\ conn' = TRUE
    /\ down' = IF retained = Nothing THEN <<>> ELSE <<retained>>
    /\ up' = IF srv THEN Append(up, Status(TRUE, unit.version)) ELSE up
    /\ UNCHANGED <<device, retained, unit, srv, calls, faults, best>>

-----------------------------------------------------------------------------
(* The handlers of the server *)

\* A handler begins with its SELECT of the device row; of the row it uses only
\* whether the message is behind it.
Begin(m) == [msg |-> m, behind |-> m.version < ver]

Receive ==
    /\ srv /\ up # <<>> /\ Cardinality(handlers) < MaxHandlers
    /\ up' = Tail(up)
    /\ handlers' = handlers \union {Begin(Head(up))}
    /\ UNCHANGED <<device, retained, conn, down, unit, srv, pushes, timer, flagging, faults, best>>

HandlerFrame(h) ==
    /\ handlers' = handlers \ {h}
    /\ UNCHANGED <<ver, retained, path, unit, srv, flagging, faults, best>>

\* Wrong on purpose: the unit's stale version goes unnoticed.
StatusHandledDeaf(h) ==
    /\ h \in handlers /\ h.msg.kind = "status"
    /\ online' = h.msg.good
    /\ UNCHANGED <<ackVer, sync, pushes, timer>> /\ HandlerFrame(h)

\* handleStatus: presence, and another push when the unit is behind the
\* version that the handler read.
StatusHandled(h) ==
    /\ h \in handlers /\ h.msg.kind = "status"
    /\ online' = h.msg.good
    /\ pushes' = IF h.msg.good /\ h.behind THEN pushes \union {Asked} ELSE pushes
    /\ UNCHANGED <<ackVer, sync, timer>> /\ HandlerFrame(h)

\* Wrong on purpose: an ack of any version counts for the newest one.
AckHandledLoosely(h) ==
    /\ h \in handlers /\ h.msg.kind = "ack" /\ h.msg.good
    /\ ackVer' = Larger(ackVer, h.msg.version) /\ sync' = "synced"
    /\ timer' = FALSE
    /\ UNCHANGED <<online, pushes>> /\ HandlerFrame(h)

\* handleScheduleAck of an accepted payload.  Whether it is the newest one is
\* decided twice: by the UPDATE for the status, by the row read before for
\* the timer.
AckHandled(h) ==
    /\ h \in handlers /\ h.msg.kind = "ack" /\ h.msg.good
    /\ ackVer' = Larger(ackVer, h.msg.version)
    /\ sync' = IF h.msg.version >= ver THEN "synced" ELSE sync
    /\ timer' = (timer /\ h.behind)
    /\ UNCHANGED <<online, pushes>> /\ HandlerFrame(h)

\* Wrong on purpose: a status that the column does not have.
RejectHandledOddly(h) ==
    /\ h \in handlers /\ h.msg.kind = "ack" /\ ~h.msg.good
    /\ sync' = "rejected"
    /\ pushes' = pushes \union {Asked}
    /\ UNCHANGED <<ackVer, online, timer>> /\ HandlerFrame(h)

\* A payload the unit rejected is flagged and pushed again.
RejectHandled(h) ==
    /\ h \in handlers /\ h.msg.kind = "ack" /\ ~h.msg.good
    /\ sync' = "error"
    /\ pushes' = pushes \union {Asked}
    /\ UNCHANGED <<ackVer, online, timer>> /\ HandlerFrame(h)

\* The process dies with its calls, its timer and the messages on their way.
Crash ==
    /\ srv /\ Fault
    /\ srv' = FALSE
    /\ pushes' = {} /\ handlers' = {} /\ timer' = FALSE /\ flagging' = FALSE
    /\ up' = <<>>
    /\ UNCHANGED <<device, retained, conn, down, unit, best>>

\* The retained status is the last one the unit published, or its will.
Presence == IF conn THEN Status(TRUE, unit.version) ELSE Status(FALSE, 0)

\* The server subscribes again and gets the retained status.
Restart ==
    /\ ~srv
    /\ srv' = TRUE
    /\ up' = <<Presence>>
    /\ UNCHANGED <<device, retained, conn, down, unit, calls, faults, best>>

-----------------------------------------------------------------------------
PushStep ==
    \/ PushReadVersion \/ PushArm
    \/ \E v \in Versions : PushReadRows(v) \/ \E c \in Versions : PushPublish(v, c)

TimerStep == TimerCheck \/ TimerFlag

HandlerStep == \E h \in handlers : StatusHandled(h) \/ AckHandled(h) \/ RejectHandled(h)

UnitStep ==
    \/ \E good \in BOOLEAN : UnitReceives(good)
    \/ \E stored \in BOOLEAN : Disconnect(stored)
    \/ UnitDiscards \/ Heartbeat \/ Connect

Next == Edit \/ PushStep \/ TimerStep \/ HandlerStep \/ UnitStep \/ Receive \/ Crash \/ Restart

Spec == Init /\ [][Next]_vars

\* Calls and messages get on, the unit sends its heartbeats and comes back,
\* the process is restarted.
CallFairness ==
    /\ WF_vars(PushReadVersion)
    /\ WF_vars(\E v \in Versions : PushReadRows(v))
    /\ WF_vars(\E v, c \in Versions : PushPublish(v, c))
    /\ WF_vars(PushArm) /\ WF_vars(TimerStep) /\ WF_vars(HandlerStep)
PathFairness ==
    /\ WF_vars(UnitReceives(TRUE)) /\ WF_vars(Heartbeat) /\ WF_vars(Connect)
    /\ WF_vars(Receive) /\ WF_vars(Restart)

FairSpec == Spec /\ CallFairness /\ PathFairness

-----------------------------------------------------------------------------
(* Properties *)

Calls == [pc : {"version", "rows", "publish", "timer"}, version : Versions, content : Versions]
Handlers == [msg : Messages, behind : BOOLEAN]

\* Every variable has its type.
TypeOK ==
    /\ ver \in Versions /\ ackVer \in Versions /\ sync \in {"pending", "synced", "error"}
    /\ online \in BOOLEAN /\ retained \in Payloads
    /\ conn \in BOOLEAN /\ down \in Seq(Payloads) /\ up \in Seq(Messages)
    /\ unit \in Payloads /\ srv \in BOOLEAN
    /\ pushes \in SUBSET Calls /\ handlers \in SUBSET Handlers
    /\ timer \in BOOLEAN /\ flagging \in BOOLEAN
    /\ faults \in 0..MaxFaults /\ best \in Versions

\* schedulePayload.js:24-34 reads the version before the rows: no payload,
\* wherever it is, claims a version whose edits it lacks, whatever edits are
\* committed while it is built.
Complete(p) == p.version <= p.content /\ p.content <= ver
VersionsAreComplete ==
    /\ Complete(retained) /\ Complete(unit)
    /\ \A i \in 1..Len(down) : Complete(down[i])
    /\ \A p \in pushes : p.version <= ver /\ (p.pc = "publish" => Complete(p))

\* handleScheduleAck (mqtt/client.js:418-426), status and ack handlers in any
\* order: what the server believes of the unit was true of it.  An acknowledged
\* version, in the database or still on its way through a handler, was
\* installed; 'synced' means that the newest edit was.
AcksAreEarned ==
    /\ ackVer <= best /\ best <= ver /\ unit.content <= best
    /\ sync = "synced" => ver <= best
    /\ \A i \in 1..Len(up) : up[i].kind = "ack" /\ up[i].good => up[i].version <= best
    /\ \A h \in handlers : h.msg.kind = "ack" /\ h.msg.good => h.msg.version <= best

\* The UPDATEs of devices in mqtt/client.js and services/schedules.js: the
\* sync columns keep their promise with pushes and handlers in any order.
Ledger == INSTANCE SyncLedger
ImplementsLedger == Ledger!Spec

\* mqtt/client.js:331-334 answers an older version with another push.  So once
\* nobody edits any more the unit gets the newest schedule and keeps it,
\* although the retained may retain an older payload than the unit had
\* acknowledged: the next status brings the newer one back.
Converges == <>[](unit.content = ver)
=============================================================================
