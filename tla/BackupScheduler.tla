-------------------------- MODULE BackupScheduler --------------------------
(***************************************************************************)
(* One Shelly unit and the primary server that stands behind it.  The unit *)
(* holds its schedules as local jobs and fires them itself; the server     *)
(* verifies each occurrence after a grace period, sends a backup command   *)
(* when the channel is not in the wanted state, retries what failed, and   *)
(* after an outage re-applies the latest occurrence of each relay          *)
(* (catch-up) unless the customer switched the relay since.                *)
(*                                                                         *)
(* Concurrent actors, each a record with a program counter:                *)
(*   sch   one pass of the scheduler loop (tick, retryFailed, catch-up)    *)
(*   cu    the catch-up of the unit (one at a time)                        *)
(*   hi    the reconnect chain of a hello or of a healed offline flag      *)
(*   cmd   sendImmediateCommand, for the customer and for the catch-up     *)
(* Every await on the unit ends a step; database statements that follow    *)
(* one another without an RPC are one step.  Time is counted in minutes.   *)
(***************************************************************************)
EXTENDS Integers, FiniteSets

CONSTANTS
    NRelays,          \* channels of the unit, relay_no 1..NRelays
    Occ,              \* occurrences of its schedules inside the horizon
    RelayOf, Act,     \* relay and action of an occurrence
    DueAt,            \* minute the occurrence is due
    Sid,              \* schedule id, the apply order inside a minute
    None,             \* no occurrence
    Grace,            \* BACKUP_GRACE_MIN
    ReachableMin,     \* REACHABLE_MIN: heartbeat age that still counts
    RetryWindow,      \* RETRY_WINDOW_MIN
    CatchUpEvery,     \* CATCH_UP_EVERY_MIN
    UnreachableAfter, \* UNREACHABLE_AFTER: failed probes before the flip
    MaxMinute,        \* bound: length of the horizon
    MaxOverrun,       \* bound: minutes one scheduler pass may outlast
    MaxHands,         \* bound: orders and hand switches of the customer
    MaxFaults,        \* bound: outages, lost RPCs, crashes
    MaxNoise          \* bound: hands and faults together

Relays  == 1..NRelays
Minutes == 0..MaxMinute
Actions == {"on", "off"}

ASSUME SizesAssumption ==
    /\ NRelays \in Nat \ {0}
    /\ Grace \in Nat \ {0} /\ ReachableMin \in Nat /\ RetryWindow \in Nat
    /\ CatchUpEvery \in Nat \ {0} /\ UnreachableAfter \in Nat \ {0}
    /\ MaxMinute \in Nat /\ MaxOverrun \in Nat
    /\ MaxHands \in Nat /\ MaxFaults \in Nat /\ MaxNoise \in Nat

ASSUME OccurrencesAssumption ==
    /\ None \notin Occ
    /\ RelayOf \in [Occ -> Relays]
    /\ Act \in [Occ -> Actions]
    /\ DueAt \in [Occ -> Nat \ {0}]
    /\ Sid \in [Occ -> Nat]

\* The UNIQUE key of schedule_executions.
ASSUME UniqueKeyAssumption ==
    \A o, p \in Occ :
        Sid[o] = Sid[p] /\ DueAt[o] = DueAt[p] /\ Act[o] = Act[p] => o = p

VARIABLES
    now, srv,                     \* minute; is the server process running
    link, topic, output,          \* the unit: MQTT path, undelivered online/LWT message, channels
    online, seen, state,          \* devices.is_online, .last_seen_at; relays.current_state
    status, executedBy,           \* schedule_executions
    word, lastCmd,                \* commands: occurrences with a later acked non-schedule order; newest order per relay
    sch, cu, hi, cmd,             \* the actors
    lastCatchUp, cuDoneAt, boot,  \* server memory: lastCatchUpAt, catchUpDoneAt, start-up catch-up due
    probe,                        \* health monitor: is this minute's probe due, failures in a row
    hands, faults,                \* bounds
    held, overruled, orphaned     \* history: see HistoryInit

world == <<link, topic, output>>
db    == <<online, seen, state, status, executedBy, word, lastCmd>>
rows  == <<status, executedBy>>
mem   == <<lastCatchUp, cuDoneAt, boot, probe>>
hist  == <<held, overruled, orphaned>>
vars  == <<now, srv, world, db, sch, cu, hi, cmd, mem, hands, faults, hist>>

Never == -2                        \* an empty in-memory timestamp
Unread == [r \in Relays |-> "none"]
SchIdle == [pc |-> "idle", phase |-> "tick", at |-> 0, todo |-> {}, cur |-> None,
            res |-> FALSE, online |-> FALSE, seen |-> 0]
CuIdle  == [pc |-> "idle", at |-> 0, read |-> Unread, todo |-> {}, cur |-> None]
HiIdle  == [pc |-> "idle", at |-> 0, read |-> Unread]
CmdIdle == [pc |-> "idle", relay |-> 1, act |-> "off", at |-> 0, ok |-> FALSE]
Senders == {"hand", "system"}      \* commands.source of an immediate command

OpenStatus == {"pending", "failed", "unverified_offline"}

-----------------------------------------------------------------------------
(* Helpers *)

\* SQL guard "UPDATE schedule_executions .. WHERE id IN S AND status IN from".
Update(S, from, to, who) ==
    /\ status' = [o \in Occ |-> IF o \in S /\ status[o] \in from THEN to ELSE status[o]]
    /\ executedBy' = [o \in Occ |-> IF o \in S /\ status[o] \in from THEN who ELSE executedBy[o]]

\* Wrong on purpose: an upsert without IGNORE.
InsertOverwrites(S, st, who) == Update(S, OpenStatus \union {"none", "executed"}, st, who)

\* INSERT IGNORE of the rows S.
InsertIgnore(S, st, who) == Update(S, {"none"}, st, who)

\* The latest state any channel was seen in since an occurrence came due.
Witness ==
    held' = [o \in Occ |-> held[o] \/ (DueAt[o] <= now' /\ output'[RelayOf[o]] = Act[o])]

\* The customer has switched relay r: every occurrence already due is overruled.
Overruled(r) == [o \in Occ |-> overruled[o] \/ (RelayOf[o] = r /\ DueAt[o] <= now)]

Fault == faults < MaxFaults /\ hands + faults < MaxNoise /\ faults' = faults + 1
Hand  == hands < MaxHands /\ hands + faults < MaxNoise /\ hands' = hands + 1

\* An RPC with a reply: touchDeviceSeen refreshes the heartbeat.
Answered == link /\ seen' = now /\ UNCHANGED faults

\* An RPC that times out: the path is down, or this one message was lost.
Unanswered ==
    /\ UNCHANGED seen
    /\ \/ ~link /\ UNCHANGED faults
       \/ link /\ Fault

\* Switch.Set of relay r.  The reply may be lost after the channel switched.
Dispatched(r, a, ok) ==
    \/ ok /\ Answered /\ output' = [output EXCEPT ![r] = a]
    \/ /\ ~ok /\ Unanswered
       /\ UNCHANGED output \/ (link /\ output' = [output EXCEPT ![r] = a])

\* A channel that changes notifies its status topic; a lost reply loses the
\* notification with it.
Notified(ok) ==
    state' = IF ok THEN [r \in Relays |-> IF output'[r] = output[r] THEN state[r] ELSE output'[r]]
             ELSE state

\* The reconcile's read of the channels in relay_no order; it stops at the
\* first one that does not answer.
ReadChannels(read) ==
    \E k \in 0..NRelays :
        /\ read = [r \in Relays |-> IF r <= k THEN output[r] ELSE "none"]
        /\ \/ k = NRelays /\ Answered
           \/ /\ k < NRelays
              /\ IF k = 0 THEN Unanswered ELSE link /\ Fault /\ seen' = now

\* Wrong on purpose: stores a reading that was never taken.
ReconciledBlindly(read) ==
    /\ state' = read
    /\ Update({o \in Occ : read[RelayOf[o]] = Act[o]}, {"unverified_offline"}, "executed", "device")

\* Writes the states read and settles the unverified rows they match.
Reconciled(read) ==
    /\ state' = [r \in Relays |-> IF read[r] = "none" THEN state[r] ELSE read[r]]
    /\ Update({o \in Occ : read[RelayOf[o]] = Act[o]}, {"unverified_offline"}, "executed", "device")

\* catchUpDevice(now): start a run, join the one in flight, or be debounced.
\* The debounce is 60 s, so a call in the minute after the last run may go
\* either way.
CatchUpCalled(joined) ==
    \/ /\ cu.pc = "idle" /\ now > cuDoneAt /\ joined
       /\ cu' = [CuIdle EXCEPT !.pc = "read", !.at = now]
    \/ cu.pc # "idle" /\ joined /\ UNCHANGED cu
    \/ cu.pc = "idle" /\ now <= cuDoneAt + 1 /\ ~joined /\ UNCHANGED cu

\* sortDue: all due occurrences of a tick share the minute, so the order is
\* schedule id, then ON before OFF.
Before(o, p) == Sid[o] < Sid[p] \/ (Sid[o] = Sid[p] /\ Act[o] = "on" /\ Act[p] = "off")
First(S) == {o \in S : \A p \in S \ {o} : Before(o, p)}

\* reachableForBackup on the device row the tick loaded.
Reachable == sch.online /\ now - sch.seen <= ReachableMin

\* Wrong on purpose: the minute the tick is handling right now is left out.
RecentRelaysNarrow(at) == {RelayOf[o] : o \in {p \in Occ : DueAt[p] >= at - Grace /\ DueAt[p] <= at}}

\* recentlyDueRelays over the minutes the tick still owns.
RecentRelays(at) == {RelayOf[o] : o \in {p \in Occ : DueAt[p] >= at - Grace - 1 /\ DueAt[p] <= at}}

\* Wrong on purpose: only rows already executed count as due.
LoggedBeforeExecuted(at) == {o \in Occ : status[o] = "executed" /\ DueAt[o] < at - Grace}

\* latestDueByRelay over the logged rows of a catch-up that began at minute
\* `at`: one occurrence per relay, none where the last minute holds both ON
\* and OFF.
LoggedBefore(at) == {o \in Occ : status[o] # "none" /\ DueAt[o] < at - Grace}
LatestDue(at) ==
    {o \in LoggedBefore(at) :
        \A p \in LoggedBefore(at) \ {o} :
            RelayOf[p] = RelayOf[o] =>
                \/ DueAt[p] < DueAt[o]
                \/ DueAt[p] = DueAt[o] /\ Act[p] = Act[o] /\ Sid[o] < Sid[p]}

\* Nothing of the server is under way and it has nothing left to do in this
\* minute.
Quiet ==
    /\ sch.pc = "idle" /\ cu.pc = "idle" /\ hi.pc = "idle"
    /\ \A p \in Senders : cmd[p].pc = "idle"
    /\ topic = "none" /\ ~boot /\ ~probe.due

\* How long an activity can take, in minute boundaries it may cross: an RPC
\* is given 5 s, a command waits 2 s before its verification, a reconcile
\* reads a handful of channels.  Only a scheduler pass, which walks the whole
\* fleet, can take longer.
Prompt ==
    /\ sch.pc # "idle" => now < sch.at + MaxOverrun
    /\ cu.pc # "idle" => now <= cu.at + 1
    /\ hi.pc # "idle" => now = hi.at
    /\ \A p \in Senders : cmd[p].pc # "idle" => now = cmd[p].at
    /\ topic # "true" /\ ~boot

-----------------------------------------------------------------------------
(* Initial states: a registered unit, reachable, whose channel state may   *)
(* still be unknown to the database.                                       *)

HistoryInit ==
    /\ held = [o \in Occ |-> FALSE]      \* o's channel was in o's state at or after o's minute
    /\ overruled = [o \in Occ |-> FALSE] \* the customer switched o's channel at or after o's minute
    /\ orphaned = {}                     \* o's row was pending when the process died

Init ==
    /\ now = 0 /\ srv = TRUE
    /\ link = TRUE /\ topic = "none"
    /\ output = [r \in Relays |-> "off"]
    /\ online = TRUE /\ seen = 0
    /\ state \in [Relays -> {"off", "unknown"}]
    /\ status = [o \in Occ |-> "none"] /\ executedBy = [o \in Occ |-> "none"]
    /\ word = {} /\ lastCmd = [r \in Relays |-> "none"]
    /\ sch = SchIdle /\ cu = CuIdle /\ hi = HiIdle /\ cmd = [p \in Senders |-> CmdIdle]
    /\ lastCatchUp = 0 /\ cuDoneAt = Never /\ boot = FALSE
    /\ probe = [due |-> TRUE, fails |-> 0]
    /\ hands = 0 /\ faults = 0
    /\ HistoryInit

-----------------------------------------------------------------------------
(* The unit and its surroundings *)

\* The local jobs F of one minute run; an ON and an OFF of one channel share
\* a job that runs ON first.
LocalOutput(F) ==
    [r \in Relays |->
        IF \E o \in F : RelayOf[o] = r /\ Act[o] = "off" THEN "off"
        ELSE IF \E o \in F : RelayOf[o] = r THEN "on"
        ELSE output[r]]

\* A pass begins: the tick loads the due minute's schedules and the device
\* row.  The overlap guard skips the minute when a pass is still running.
StartPass(at, seenNow) ==
    IF srv /\ sch.pc = "idle"
    THEN [SchIdle EXCEPT !.pc = "next", !.at = at, !.online = online, !.seen = seenNow,
                         !.todo = {o \in Occ : DueAt[o] = at - (Grace + 1)}]
    ELSE sch

\* The clock reaches the next minute.  The unit runs its due jobs, except
\* those it does not hold (table behind, 20-job cap) or sleeps through (a
\* power cut: restore_last brings the channels back as they were, the jobs
\* missed meanwhile are not replayed).
Minute ==
    /\ now < MaxMinute /\ Prompt
    /\ now' = now + 1
    /\ \E F \in SUBSET {o \in Occ : DueAt[o] = now + 1} :
        /\ output' = LocalOutput(F)
    /\ Notified(srv /\ link)
    /\ seen' = IF srv /\ link /\ output' # output THEN now + 1 ELSE seen
    /\ sch' = StartPass(now + 1, seen')
    /\ probe' = [probe EXCEPT !.due = srv]
    /\ Witness
    /\ UNCHANGED <<srv, link, topic, online, rows, word, lastCmd, cu, hi, cmd, lastCatchUp,
                   cuDoneAt, boot, hands, faults, overruled, orphaned>>

\* The MQTT path drops, for want of internet or of power; the broker
\* publishes the LWT when it notices.
LinkDown ==
    /\ link /\ Fault
    /\ link' = FALSE /\ topic' = "false"
    /\ UNCHANGED <<now, srv, output, db, sch, cu, hi, cmd, mem, hands, hist>>

LinkUp ==
    /\ ~link
    /\ link' = TRUE /\ topic' = "true"
    /\ UNCHANGED <<now, srv, output, db, sch, cu, hi, cmd, mem, hands, faults, hist>>

\* Somebody switches the channel at the unit (input terminal, vendor app):
\* no commands row, only a status notification.
WallSwitch(r, a) ==
    /\ output[r] # a /\ Hand
    /\ output' = [output EXCEPT ![r] = a]
    /\ Notified(srv /\ link)
    /\ seen' = IF srv /\ link THEN now ELSE seen
    /\ overruled' = Overruled(r)
    /\ UNCHANGED <<now, srv, link, topic, online, rows, word, lastCmd, sch, cu, hi, cmd,
                   mem, faults, orphaned>>
    /\ Witness

\* The process dies: what lived in memory is gone, the database stays.
Crash ==
    /\ srv /\ Fault
    /\ srv' = FALSE
    /\ sch' = SchIdle /\ cu' = CuIdle /\ hi' = HiIdle /\ cmd' = [p \in Senders |-> CmdIdle]
    /\ lastCatchUp' = 0 /\ cuDoneAt' = Never /\ boot' = FALSE
    /\ probe' = [due |-> FALSE, fails |-> 0]
    /\ orphaned' = orphaned \union {o \in Occ : status[o] = "pending"}
    /\ UNCHANGED <<now, world, db, hands, held, overruled>>

\* Start-up: startupScan records the occurrences of the minutes nobody
\* watched, then catchUpAll.  The retained online topic is delivered again;
\* for a session that just died the broker may still hold the birth.
Restart ==
    /\ ~srv
    /\ srv' = TRUE
    /\ InsertIgnore({o \in Occ : DueAt[o] < now - Grace}, "unverified_offline", "none")
    /\ lastCatchUp' = now /\ boot' = TRUE
    /\ probe' = [due |-> TRUE, fails |-> 0]
    /\ topic' \in (IF link THEN {"true"} ELSE {"true", "false"})
    /\ UNCHANGED <<now, link, output, online, seen, state, word, lastCmd, sch, cu, hi, cmd,
                   cuDoneAt, hands, faults, hist>>

-----------------------------------------------------------------------------
(* Presence and heartbeat *)

\* The LWT: flagged offline, the heartbeat is left alone.
HandleDeath ==
    /\ srv /\ topic = "false"
    /\ topic' = "none" /\ online' = FALSE
    /\ UNCHANGED <<now, srv, link, output, seen, state, rows, word, lastCmd, sch, cu, hi, cmd,
                   mem, hands, faults, hist>>

\* The birth: flagged online; a unit that was flagged offline is reconciled
\* and caught up.  One reconnect chain at a time (bound).
HandleHello ==
    /\ srv /\ topic = "true" /\ hi.pc = "idle"
    /\ topic' = "none" /\ online' = TRUE /\ seen' = now
    /\ hi' = IF online THEN hi ELSE [HiIdle EXCEPT !.pc = "read", !.at = now]
    /\ UNCHANGED <<now, srv, link, output, state, rows, word, lastCmd, sch, cu, cmd,
                   mem, hands, faults, hist>>

\* The health monitor's probe: the unit answers.  An offline flag is stale
\* then; it is healed and the reconnect chain runs.
ProbeAnswered ==
    /\ srv /\ probe.due /\ link /\ hi.pc = "idle"
    /\ probe' = [due |-> FALSE, fails |-> 0]
    /\ seen' = now /\ online' = TRUE
    /\ hi' = IF online THEN hi ELSE [HiIdle EXCEPT !.pc = "read", !.at = now]
    /\ UNCHANGED <<now, srv, world, state, rows, word, lastCmd, sch, cu, cmd,
                   lastCatchUp, cuDoneAt, boot, hands, faults, hist>>

\* It does not answer; after UNREACHABLE_AFTER failures in a row the unit is
\* flagged offline.
ProbeUnanswered ==
    /\ srv /\ probe.due /\ Unanswered
    /\ probe' = [due |-> FALSE, fails |-> IF probe.fails < UnreachableAfter THEN probe.fails + 1 ELSE probe.fails]
    /\ online' = (online /\ probe'.fails < UnreachableAfter)
    /\ UNCHANGED <<now, srv, world, state, rows, word, lastCmd, sch, cu, hi, cmd,
                   lastCatchUp, cuDoneAt, boot, hands, hist>>

-----------------------------------------------------------------------------
(* The scheduler pass *)

\* What a pass leaves alone while it talks to the unit or the database.
SchFrame == UNCHANGED <<now, srv, link, topic, online, word, cu, hi, cmd,
                        mem, hands, overruled, orphaned>>
NoRpc    == UNCHANGED <<output, seen, faults, held>>

Done(o) == [sch EXCEPT !.pc = "next", !.todo = @ \ {o}, !.cur = None, !.res = FALSE]

\* The tick goes through its due occurrences in order, the retry pass through
\* the failed rows in any order.
Takes(o) ==
    /\ sch.pc = "next" /\ o \in sch.todo
    /\ sch.phase = "tick" => o \in First(sch.todo)

\* No command: a row exists already, or the unit cannot be commanded, and the
\* tick logs why while the retry waits.
SchSkip(o) ==
    /\ Takes(o)
    /\ (sch.phase = "tick" /\ status[o] # "none") \/ ~Reachable
    /\ IF sch.phase = "retry" THEN UNCHANGED rows
       ELSE InsertIgnore({o}, IF sch.online THEN "failed" ELSE "unverified_offline", "none")
    /\ sch' = Done(o)
    /\ SchFrame /\ NoRpc /\ UNCHANGED <<state, lastCmd>>

\* shellyStateIs: an unreadable channel counts as a mismatch.
SchVerify(o) ==
    /\ Takes(o) /\ Reachable
    /\ sch.phase = "tick" => status[o] = "none"
    /\ \E match \in BOOLEAN :
        /\ \/ Answered /\ (match <=> output[RelayOf[o]] = Act[o])
           \/ Unanswered /\ ~match
        /\ sch' = [sch EXCEPT !.pc = "record", !.cur = o, !.res = match]
    /\ SchFrame /\ UNCHANGED <<output, held, state, rows, lastCmd>>

\* The channel is as wanted: the unit executed it, no command.
SchMatch ==
    /\ sch.pc = "record" /\ sch.res
    /\ IF sch.phase = "tick" THEN InsertIgnore({sch.cur}, "executed", "device")
                             ELSE Update({sch.cur}, {"failed"}, "executed", "device")
    /\ state' = [state EXCEPT ![RelayOf[sch.cur]] = Act[sch.cur]]
    /\ sch' = Done(sch.cur)
    /\ SchFrame /\ NoRpc /\ UNCHANGED lastCmd

\* It is not: the tick claims the row as pending, the retry keeps it, and a
\* schedule-sourced command is created.  A row somebody else inserted in the
\* meantime is not claimed and nothing is sent.
SchClaim ==
    /\ sch.pc = "record" /\ ~sch.res
    /\ IF sch.phase = "tick" THEN InsertIgnore({sch.cur}, "pending", "server_backup")
                             ELSE UNCHANGED rows
    /\ IF sch.phase = "retry" \/ status'[sch.cur] = "pending"
       THEN /\ sch' = [sch EXCEPT !.pc = "send"]
            /\ lastCmd' = [lastCmd EXCEPT ![RelayOf[sch.cur]] = "schedule"]
       ELSE sch' = Done(sch.cur) /\ UNCHANGED lastCmd
    /\ SchFrame /\ NoRpc /\ UNCHANGED state

\* fireBackupCommand: Switch.Set over the unit's transport.
SchSend ==
    /\ sch.pc = "send"
    /\ \E ok \in BOOLEAN :
        /\ Dispatched(RelayOf[sch.cur], Act[sch.cur], ok) /\ Notified(ok)
        /\ sch' = [sch EXCEPT !.pc = "settle", !.res = ok]
    /\ SchFrame /\ UNCHANGED <<rows, lastCmd>>
    /\ Witness

\* Wrong on purpose: the row is executed once the command is sent.
SchSettleUnacked ==
    /\ sch.pc = "settle"
    /\ state' = [state EXCEPT ![RelayOf[sch.cur]] = Act[sch.cur]]
    /\ Update({sch.cur}, {"pending", "failed"}, "executed", "server_backup")
    /\ sch' = Done(sch.cur)
    /\ SchFrame /\ NoRpc /\ UNCHANGED lastCmd

\* Wrong on purpose: a command that timed out leaves the row as it was.
SchSettleForgotten ==
    /\ sch.pc = "settle"
    /\ IF sch.res
       THEN /\ state' = [state EXCEPT ![RelayOf[sch.cur]] = Act[sch.cur]]
            /\ Update({sch.cur}, {"pending", "failed"}, "executed", "server_backup")
       ELSE UNCHANGED <<state, rows>>
    /\ sch' = Done(sch.cur)
    /\ SchFrame /\ NoRpc /\ UNCHANGED lastCmd

\* The reply is the ack: only then is the row executed.
SchSettle ==
    /\ sch.pc = "settle"
    /\ IF sch.res
       THEN /\ state' = [state EXCEPT ![RelayOf[sch.cur]] = Act[sch.cur]]
            /\ Update({sch.cur}, {"pending", "failed"}, "executed", "server_backup")
       ELSE /\ UNCHANGED state
            /\ Update({sch.cur}, {"pending", "failed"}, "failed", "none")
    /\ sch' = Done(sch.cur)
    /\ SchFrame /\ NoRpc /\ UNCHANGED lastCmd

\* retryFailed: the rows still failed inside the retry window.
SchBeginRetry ==
    /\ sch.pc = "next" /\ sch.phase = "tick" /\ sch.todo = {}
    /\ sch' = [sch EXCEPT !.phase = "retry",
                          !.todo = {o \in Occ : status[o] = "failed" /\ DueAt[o] > now - RetryWindow}]
    /\ SchFrame /\ NoRpc /\ UNCHANGED <<state, rows, lastCmd>>

\* The pass ends; every CATCH_UP_EVERY_MIN minutes it first catches up a unit
\* that is reachable.
SchEnd ==
    /\ sch.pc = "next" /\ sch.phase = "retry" /\ sch.todo = {}
    /\ IF now - lastCatchUp >= CatchUpEvery
       THEN /\ lastCatchUp' = now
            /\ IF online /\ now - seen <= ReachableMin
               THEN \E joined \in BOOLEAN :
                        /\ CatchUpCalled(joined)
                        /\ sch' = IF joined THEN [sch EXCEPT !.pc = "await"] ELSE SchIdle
               ELSE sch' = SchIdle /\ UNCHANGED cu
       ELSE sch' = SchIdle /\ UNCHANGED <<cu, lastCatchUp>>
    /\ NoRpc
    /\ UNCHANGED <<now, srv, link, topic, online, state, rows, word, lastCmd, hi, cmd,
                   cuDoneAt, boot, probe, hands, overruled, orphaned>>

\* The loop awaits the catch-up it started or joined.
SchAwaited ==
    /\ sch.pc = "await" /\ cu.pc = "idle"
    /\ sch' = SchIdle
    /\ SchFrame /\ NoRpc /\ UNCHANGED <<state, rows, lastCmd>>

-----------------------------------------------------------------------------
(* sendImmediateCommand, by the customer ("hand") and by the catch-up       *)
(* ("system"): create, Switch.Set and record the state, verify after 2 s.   *)

CmdFrame == UNCHANGED <<now, srv, link, topic, online, rows, sch, hi, mem>>

NewCommand(p, r, a) ==
    /\ cmd' = [cmd EXCEPT ![p] = [pc |-> "send", relay |-> r, act |-> a, at |-> now, ok |-> FALSE]]
    /\ lastCmd' = [lastCmd EXCEPT ![r] = p]

\* A finished customer order leaves; the catch-up reads the outcome of its own.
Finished(p, ok) ==
    IF p = "hand" THEN [cmd EXCEPT ![p] = CmdIdle] ELSE [cmd EXCEPT ![p].pc = "done", ![p].ok = ok]

\* The customer orders a relay by phone, web or WhatsApp.
HandOrder(r, a) ==
    /\ srv /\ cmd["hand"].pc = "idle" /\ Hand
    /\ NewCommand("hand", r, a)
    /\ UNCHANGED <<output, seen, state, word, cu, faults, hist>> /\ CmdFrame

CmdSend(p) ==
    /\ cmd[p].pc = "send"
    /\ \E ok \in BOOLEAN :
        /\ Dispatched(cmd[p].relay, cmd[p].act, ok)
        /\ cmd' = IF ok THEN [cmd EXCEPT ![p].pc = "verify"] ELSE Finished(p, FALSE)
        /\ state' = IF ok THEN [state EXCEPT ![cmd[p].relay] = cmd[p].act] ELSE state
    /\ overruled' = IF p = "hand" /\ output' # output THEN Overruled(cmd[p].relay) ELSE overruled
    /\ UNCHANGED <<word, lastCmd, cu, hands, orphaned>> /\ CmdFrame
    /\ Witness

\* verifyCommand and markCommand.  A reading that is not about this order (a
\* newer command, another state meanwhile) or that failed does not refute it.
Superseded(p) == lastCmd[cmd[p].relay] # p \/ state[cmd[p].relay] # cmd[p].act
Acked(p) ==
    /\ word' = word \union {o \in Occ : RelayOf[o] = cmd[p].relay /\ DueAt[o] <= cmd[p].at}
    /\ cmd' = Finished(p, TRUE)
    /\ UNCHANGED state
NotSwitched(p) ==
    /\ state' = [state EXCEPT ![cmd[p].relay] = output[cmd[p].relay]]
    /\ cmd' = Finished(p, FALSE)
    /\ UNCHANGED word

\* The firmware reports OFF and current still flows: the contact is welded.
StuckOn(p) ==
    /\ cmd[p].act = "off" /\ output[cmd[p].relay] = "off"
    /\ cmd' = Finished(p, FALSE)
    /\ UNCHANGED <<state, word>>

\* Wrong on purpose: an order whose verification is not answered stays open.
CmdVerifyDeaf(p) ==
    /\ cmd[p].pc = "verify" /\ Answered
    /\ IF Superseded(p) \/ output[cmd[p].relay] = cmd[p].act THEN Acked(p) ELSE NotSwitched(p)
    /\ UNCHANGED <<output, lastCmd, cu, hands, hist>> /\ CmdFrame

CmdVerify(p) ==
    /\ cmd[p].pc = "verify"
    /\ \/ Unanswered /\ Acked(p)
       \/ Answered /\ (Superseded(p) \/ output[cmd[p].relay] = cmd[p].act) /\ Acked(p)
       \/ Answered /\ ~Superseded(p) /\ output[cmd[p].relay] # cmd[p].act /\ NotSwitched(p)
       \/ Answered /\ ~Superseded(p) /\ StuckOn(p)
    /\ UNCHANGED <<output, lastCmd, cu, hands, hist>> /\ CmdFrame

-----------------------------------------------------------------------------
(* The catch-up run and the reconnect chain *)

CuFrame == UNCHANGED <<now, srv, link, topic, online, sch, hands, overruled, orphaned>>

\* reconcileShellyDevice inside the run.
CuRead ==
    /\ cu.pc = "read"
    /\ \E read \in [Relays -> {"on", "off", "none"}] :
        ReadChannels(read) /\ cu' = [cu EXCEPT !.pc = "write", !.read = read]
    /\ UNCHANGED <<output, held, state, rows, word, lastCmd, hi, cmd, mem>> /\ CuFrame

\* Then the log and the schedules, both against the minute the run began in.
CuWrite ==
    /\ cu.pc = "write"
    /\ Reconciled(cu.read)
    /\ cu' = [cu EXCEPT !.pc = "each", !.read = Unread,
                        !.todo = {o \in LatestDue(cu.at) : RelayOf[o] \notin RecentRelays(cu.at)}]
    /\ NoRpc /\ UNCHANGED <<word, lastCmd, hi, cmd, mem>> /\ CuFrame

\* Nothing to do for this relay: unknown, already right, or the customer had
\* the last word.
KeepRelay(o) ==
    \/ state[RelayOf[o]] \in {"unknown", Act[o]}
    \/ o \in word

CuKeep(o) ==
    /\ cu.pc = "each" /\ o \in cu.todo /\ KeepRelay(o)
    /\ cu' = [cu EXCEPT !.todo = @ \ {o}]
    /\ NoRpc /\ UNCHANGED <<state, rows, word, lastCmd, hi, cmd, mem>> /\ CuFrame

CuApply(o) ==
    /\ cu.pc = "each" /\ o \in cu.todo /\ ~KeepRelay(o)
    /\ NewCommand("system", RelayOf[o], Act[o])
    /\ cu' = [cu EXCEPT !.pc = "command", !.cur = o]
    /\ NoRpc /\ UNCHANGED <<state, rows, word, hi, mem>> /\ CuFrame

\* Wrong on purpose: the row is settled whatever became of the command.
CuSettleUnacked ==
    /\ cu.pc = "command" /\ cmd["system"].pc = "done"
    /\ Update({cu.cur}, OpenStatus, "executed", "server_backup")
    /\ cmd' = [cmd EXCEPT !["system"] = CmdIdle]
    /\ cu' = [cu EXCEPT !.pc = "each", !.todo = @ \ {cu.cur}, !.cur = None]
    /\ NoRpc /\ UNCHANGED <<state, word, lastCmd, hi, mem>> /\ CuFrame

\* The row is settled only on success.
CuSettle ==
    /\ cu.pc = "command" /\ cmd["system"].pc = "done"
    /\ IF cmd["system"].ok THEN Update({cu.cur}, OpenStatus, "executed", "server_backup")
       ELSE Update({cu.cur}, {"unverified_offline", "pending"}, "failed", "none")
    /\ cmd' = [cmd EXCEPT !["system"] = CmdIdle]
    /\ cu' = [cu EXCEPT !.pc = "each", !.todo = @ \ {cu.cur}, !.cur = None]
    /\ NoRpc /\ UNCHANGED <<state, word, lastCmd, hi, mem>> /\ CuFrame

\* Wrong on purpose: the run is never taken off the table of running ones.
CuEndStuck ==
    /\ cu.pc = "each" /\ cu.todo = {} /\ cuDoneAt # now
    /\ cuDoneAt' = now
    /\ NoRpc /\ UNCHANGED <<state, rows, word, lastCmd, cu, hi, cmd, lastCatchUp, boot, probe>> /\ CuFrame

CuEnd ==
    /\ cu.pc = "each" /\ cu.todo = {}
    /\ cu' = CuIdle /\ cuDoneAt' = now
    /\ NoRpc /\ UNCHANGED <<state, rows, word, lastCmd, hi, cmd, lastCatchUp, boot, probe>> /\ CuFrame

\* catchUpAll at start-up, for a unit that looks reachable.
BootCatchUp ==
    /\ srv /\ boot
    /\ boot' = FALSE
    /\ IF online /\ now - seen <= ReachableMin
       THEN \E joined \in BOOLEAN : CatchUpCalled(joined)
       ELSE UNCHANGED cu
    /\ NoRpc /\ UNCHANGED <<state, rows, word, lastCmd, hi, cmd, lastCatchUp, cuDoneAt, probe>> /\ CuFrame

HiRead ==
    /\ hi.pc = "read"
    /\ \E read \in [Relays -> {"on", "off", "none"}] :
        ReadChannels(read) /\ hi' = [hi EXCEPT !.pc = "write", !.read = read]
    /\ UNCHANGED <<output, held, state, rows, word, lastCmd, cu, cmd, mem>> /\ CuFrame

HiWrite ==
    /\ hi.pc = "write"
    /\ Reconciled(hi.read)
    /\ hi' = HiIdle
    /\ \E joined \in BOOLEAN : CatchUpCalled(joined)
    /\ NoRpc /\ UNCHANGED <<word, lastCmd, cmd, mem>> /\ CuFrame

-----------------------------------------------------------------------------
SchStep ==
    \/ \E o \in Occ : SchSkip(o) \/ SchVerify(o)
    \/ SchMatch \/ SchClaim \/ SchSend \/ SchSettle
    \/ SchBeginRetry \/ SchEnd \/ SchAwaited

CmdStep == \E p \in Senders : CmdSend(p) \/ CmdVerify(p)

CuStep ==
    \/ CuRead \/ CuWrite \/ CuSettle \/ CuEnd \/ BootCatchUp
    \/ \E o \in Occ : CuKeep(o) \/ CuApply(o)

HiStep == HiRead \/ HiWrite

PresenceStep == HandleDeath \/ HandleHello \/ ProbeAnswered \/ ProbeUnanswered

UnitStep ==
    \/ Minute \/ LinkDown \/ LinkUp \/ Crash \/ Restart
    \/ \E r \in Relays, a \in Actions : WallSwitch(r, a) \/ HandOrder(r, a)

Next == SchStep \/ CmdStep \/ CuStep \/ HiStep \/ PresenceStep \/ UnitStep

Spec == Init /\ [][Next]_vars

\* An activity the server has started goes on: every RPC ends in a reply or
\* in its timeout, and the event loop serves every continuation.
Fairness == WF_vars(SchStep) /\ WF_vars(CmdStep) /\ WF_vars(CuStep) /\ WF_vars(HiStep)

FairSpec == Spec /\ Fairness

-----------------------------------------------------------------------------
(* Properties *)

Statuses  == OpenStatus \union {"none", "executed"}
Executors == {"none", "device", "server_backup"}
Readings  == [Relays -> {"on", "off", "none"}]

\* Every variable, and every field of the actors' records, has its type.
WorldType ==
    /\ now \in Minutes /\ srv \in BOOLEAN
    /\ link \in BOOLEAN /\ topic \in {"none", "true", "false"} /\ output \in [Relays -> Actions]
RowsType == status \in [Occ -> Statuses] /\ executedBy \in [Occ -> Executors]
DbType ==
    /\ online \in BOOLEAN /\ seen \in Minutes /\ state \in [Relays -> Actions \union {"unknown"}]
    /\ word \in SUBSET Occ /\ lastCmd \in [Relays -> Senders \union {"none", "schedule"}]
Passes ==
    [pc : {"idle", "next", "record", "send", "settle", "await"}, phase : {"tick", "retry"},
     at : Minutes, todo : SUBSET Occ, cur : Occ \union {None}, res : BOOLEAN,
     online : BOOLEAN, seen : Minutes]
CatchUps ==
    [pc : {"idle", "read", "write", "each", "command"}, at : Minutes, read : Readings,
     todo : SUBSET Occ, cur : Occ \union {None}]
Hellos   == [pc : {"idle", "read", "write"}, at : Minutes, read : Readings]
Commands ==
    [pc : {"idle", "send", "verify", "done"}, relay : Relays, act : Actions,
     at : Minutes, ok : BOOLEAN]
ActorsType ==
    /\ sch \in Passes /\ cu \in CatchUps /\ hi \in Hellos /\ cmd \in [Senders -> Commands]
    /\ sch.pc \in {"record", "send", "settle"} => sch.cur \in Occ
MemoryType ==
    /\ lastCatchUp \in Minutes /\ cuDoneAt \in Minutes \union {Never} /\ boot \in BOOLEAN
    /\ probe \in [due : BOOLEAN, fails : 0..UnreachableAfter]
BoundsType ==
    /\ hands \in 0..MaxHands /\ faults \in 0..MaxFaults
    /\ held \in [Occ -> BOOLEAN] /\ overruled \in [Occ -> BOOLEAN] /\ orphaned \in SUBSET Occ

TypeOK ==
    /\ WorldType /\ RowsType /\ DbType
    /\ ActorsType /\ MemoryType /\ BoundsType

\* SPEC 5.4: "A row is never marked executed before the ack."  The history
\* never claims a switch that did not happen: an executed row means that the
\* channel really was in the occurrence's state at or after its minute,
\* whichever of tick, retry, catch-up and reconnect reconcile closed the row
\* and however old the reading it went by.
HeldBeforeExecuted == \A o \in Occ : status[o] = "executed" => held[o]

\* A pending row has an owner.  It belongs to the backup command under way,
\* or to one that a crash of the server interrupted; a living server never
\* leaves one behind, whatever is written to the row meanwhile.
PendingIsOwned ==
    \A o \in Occ : status[o] = "pending" =>
        (sch.pc \in {"send", "settle"} /\ sch.cur = o) \/ o \in orphaned

\* The log keeps its promise under all its writers: rows never vanish or
\* reopen, and the first writer to reach executed wins (SPEC 5.4.3).
Log == INSTANCE ExecutionLog
ImplementsLog == Log!Spec

\* 2026-10-15, "a reconnect 12 s after a 20:30 ON reverted two A/Cs": a
\* catch-up command sent in the minute the run began never undoes a younger
\* occurrence that the tick still owns or that came due this minute.
Undoes(p) ==
    /\ cmd["system"].pc = "send" /\ output' # output
    /\ RelayOf[p] = cmd["system"].relay
    /\ output[RelayOf[p]] = Act[p] /\ output'[RelayOf[p]] # Act[p]
    /\ DueAt[cu.cur] < DueAt[p] /\ DueAt[p] <= now
ByCatchUp == cmd'["system"].pc # cmd["system"].pc /\ sch' = sch /\ srv' = srv
GraceLeftAlone ==
    [][\A p \in Occ : ByCatchUp /\ Undoes(p) /\ cu.at = now => DueAt[p] < now - Grace - 1]_vars

\* Nobody waits for ever.  A pass ends, although it may join a catch-up that
\* somebody else began and that waits for a command of its own; until then
\* the overlap guard would skip every minute.  The customer's order is answered.
PassEnds == sch.pc # "idle" ~> sch.pc = "idle"
OrderAnswered == cmd["hand"].pc # "idle" ~> cmd["hand"].pc = "idle"

-----------------------------------------------------------------------------
(* The inductive invariant behind HeldBeforeExecuted, PendingIsOwned and    *)
(* GraceLeftAlone                                                          *)

\* What was seen of a channel since an occurrence is on record.
Witnessed == \A o \in Occ : DueAt[o] <= now /\ output[RelayOf[o]] = Act[o] => held[o]

\* Nobody logs an occurrence before its grace is over.
LoggedIsDue == \A o \in Occ : status[o] # "none" => DueAt[o] + Grace < now

\* A pass works on occurrences whose grace is over, and believes in a switch
\* or in a match only where the channel was seen in the wanted state.
PassIsSound ==
    /\ sch.pc # "idle" => sch.at <= now
    /\ \A o \in sch.todo : DueAt[o] + Grace < now
    /\ sch.pc \in {"record", "send", "settle"} => DueAt[sch.cur] + Grace < now
    /\ sch.pc \in {"record", "settle"} /\ sch.res => held[sch.cur]

\* A run outlasts at most two minute boundaries and a reconnect chain one, so
\* an occurrence in the log was already due when the channels were read: it
\* appears there only after its grace.
CuReadingIsSound ==
    /\ cu.pc # "idle" => cu.at <= now /\ now <= cu.at + 2
    /\ cu.pc = "write" => \A o \in Occ : DueAt[o] <= cu.at /\ cu.read[RelayOf[o]] = Act[o] => held[o]
HiReadingIsSound ==
    /\ hi.pc # "idle" => hi.at <= now /\ now <= hi.at + 1
    /\ hi.pc = "write" => \A o \in Occ : DueAt[o] <= hi.at /\ hi.read[RelayOf[o]] = Act[o] => held[o]

\* The command of the catch-up is the one its current occurrence asks for.
CatchUpIsSound ==
    /\ \A o \in cu.todo : DueAt[o] <= now
    /\ cmd["system"].pc # "idle" <=> cu.pc = "command"
    /\ cu.pc = "command" =>
        /\ cu.cur \in Occ /\ DueAt[cu.cur] <= now
        /\ cmd["system"].relay = RelayOf[cu.cur] /\ cmd["system"].act = Act[cu.cur]
        /\ cmd["system"].pc = "verify" \/ (cmd["system"].pc = "done" /\ cmd["system"].ok) => held[cu.cur]

\* A run works through what it chose when it began, and leaves alone the
\* channels with an occurrence that the tick of that minute still owned.
GraceIsKept ==
    /\ \A o \in cu.todo : RelayOf[o] \notin RecentRelays(cu.at)
    /\ cu.pc = "command" => cu.cur \in cu.todo

\* The inductive invariant: every belief the server acts on was earned.
BeliefsAreEarned ==
    /\ HeldBeforeExecuted /\ PendingIsOwned
    /\ Witnessed /\ LoggedIsDue /\ PassIsSound
    /\ CuReadingIsSound /\ HiReadingIsSound /\ CatchUpIsSound /\ GraceIsKept
=============================================================================
