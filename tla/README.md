# Verification of the shabat clock server

The repository runs a fleet of relay units (Shelly Gen2 switches, and an older
ESP32 board with firmware of its own) that switch lights and appliances on
Shabbat and holidays.  A unit executes its schedule by itself; the server keeps
the schedules, mirrors them into the units, checks that every occurrence
happened, repairs what did not, and takes orders by web, telephone and
WhatsApp.  What must not go wrong is easy to say and hard to test: nobody may
touch a switch on Shabbat, so a relay that ends up in the wrong state stays
there, and a log that claims a switch that never happened hides it.

This directory holds TLA+ models of that logic, TLC configurations that check
them on small instances, and proofs that TLAPS checks for every instance.

Contents: [1 The system](#1-the-system) · [2 Plan](#2-plan) ·
[3 The backup core](#3-the-backup-core) · [4 The schedule channel](#4-the-schedule-channel) ·
[5 The command channel](#5-the-command-channel) · [6 The job table of a Shelly](#6-the-job-table-of-a-shelly) ·
[7 The fleet monitor](#7-the-fleet-monitor) · [8 The net after a reboot](#8-the-net-after-a-reboot) ·
[9 Schedules and their occurrences](#9-schedules-and-their-occurrences) ·
[10 A telephone call](#10-a-telephone-call) · [11 Whose device is it](#11-whose-device-is-it) ·
[12 A WhatsApp conversation](#12-a-whatsapp-conversation) ·
[13 What the runs show](#13-what-the-runs-show) · [14 What is proved](#14-what-is-proved) ·
[15 Observations](#15-observations) · [16 Not modelled](#16-not-modelled) · [17 Running it](#17-running-it)

## 1 The system

Paths are relative to `src/` of the repository.

| Component | State | Operations | Talks to | Hard behaviour | What makes it correct |
|---|---|---|---|---|---|
| Scheduler `src/scheduler/tick.js` | `schedule_executions`; in memory `catchUpInFlight`, `catchUpDoneAt`, `lastCatchUpAt`, the `running` flag | `tick` (verify after grace, backup), `retryFailed`, `catchUpDevice`, `catchUpAll`, `startupScan`, `autoCompleteOnce`, `refreshAnchoredTimes` | commands, Shelly RPC, execution log | loop, catch-up, reconnect chain and customer interleave at every await; crash between two statements; clock values fixed at the start of a long run | the log is truthful and monotonic; the relay ends in the state of its latest occurrence unless the customer said otherwise |
| Execution log `src/services/executions.js` | table `schedule_executions` (UNIQUE schedule, minute, action) | `insertOccurrenceRow`, `handleExecReport`, `reconcileDevice` | scheduler, MQTT | five writers of one row | first writer to reach `executed` wins; never reopened |
| Commands `src/services/commands.js` | table `commands`, `relays.current_state` | `sendImmediateCommand`, `verifyCommand`, `markCommand` | Shelly RPC or MQTT ack | lost reply after the switch; verification races a newer order | answered; a late reading never refutes an order it is not about |
| MQTT client `src/mqtt/client.js` | `ackWaiters`, `scheduleAckTimers`, `lastExecDropped`, `devices.is_online`, `last_seen_at` | `handleAck`, `handleStatus`, `pushScheduleToDevice`, `handleScheduleAck`, `handleShellyMessage`, `shellyMqttRpc` | broker, units | acks before their waiter, status handlers out of order, retained message older than the newest push | state and version converge to the unit's |
| Shelly schedules `src/services/shelly-schedules.js` | the unit's job table; `sync_status` | `syncShellyLocalSchedules`, `reconcileShellyDevice`, `buildShellyJobs`, `fitShellyJobs` | Shelly RPC | concurrent synchronisations, interrupted ones, 20-job cap | the table converges to the wanted jobs; never emptied on the way |
| Health monitor `src/monitor/health.js`, `dead-relay.js`, `fw-update.js` | per-unit memory (failures, last uptime, `expectReboot`), table `device_events`, fleet lock `inflight` | `checkShelly`, `tryReboot`, `verifyRebootOutputs`, `verifyLoads`, `maybeAutoUpdate` | Shelly RPC, scheduler | reboot and outputs restored from a snapshot; crash between an accepted update and its record | one update at a time; a real reboot is never taken for ours; outputs come back as they were |
| Guardian `src/monitor/guardian.js`, `scripts/guardian.mjs` | counters of incidents | read logs, lock the host down | - | - | - |
| ESP32 firmware `firmware/src/main.cpp` | NVS: schedule, `laststate`, exec queue; RAM: `relayState`, `lastCmdIds` | `setup`, `executionTick`, `handleCmd`, `handleSchedule`, `flushExecQueue` | MQTT | power loss at any point, duplicate QoS 1 delivery, bounded queue | schedule applied whole or not at all; boot behaviour as configured |
| Schedules `src/services/schedules.js`, `relays.js`, `schedulePayload.js` | tables `schedules`, `relays`; `devices.schedule_version` | create, update, delete, push | MQTT client | version and push are two steps | every edit reaches the unit |
| Time `src/services/time.js`, `calendar.js`, `holidays.js`, `zmanim.js` | none | occurrences, exclusions, Hebrew dates, sun times | scheduler, payload, Shelly jobs | DST, year boundary, anniversaries | server and unit agree on the minute |
| Access `src/services/otp.js`, `authFailures.js`, `totp.js`, `adminSecondFactor.js`, `passkeys.js`, `accessLevel.js`, `src/api` | tables `otp_codes`, `auth_failures`, sessions | request and verify a code, log in, lock out | mail, telephone | concurrent attempts against one counter | a code works once; attempts are bounded |
| Telephone menu `src/ivr`, `menuRouter.js`, `serviceMenu.js` | one session per call in memory, 10 minutes | menu steps | commands, schedules | repeated callbacks of the telephone provider | a key press acts once |
| WhatsApp `src/whatsapp` | per-chat queue and session | messages in order | same services | restart, reconnect | one message at a time per chat |
| Assistants `nlu.js`, `nluExec.js`, `secretary.js`, ... | proposal awaiting confirmation | propose, confirm | same services | confirmation of an older proposal | nothing runs unconfirmed |
| Onboarding `src/services/devices.js`, `relays.js`, `demo.js`, `shellyOnboard.js` | tables `devices`, `relays`, `prepared_devices`; `inFlight` of the demo | register, remove, restore, return to stock, transfer, digits, demo | Shelly RPC | a request waits seconds for a unit between two statements; other requests meanwhile | the inventory never offers a unit in service; a restore gives back what the removal took |
| Administration, support, billing, mail, web interface, database, operations | MySQL rows | CRUD | - | - | - |

Everything in the server runs on one Node.js thread.  What interleaves are
asynchronous functions, at their `await`s: RPCs to a unit (up to seconds, may
time out after having taken effect) and database statements (milliseconds,
each atomic).  Two processes may exist, a primary and a development server;
only the primary runs the loops (`config/role.js`).

## 2 Plan

Order of work, most important behaviour first; every module is parameterised by
CONSTANTS with named assumptions, has one action per step of the code between two
awaits, and declares no RECURSIVE operator.

| Module | Models | Abstract specification | Proofs |
|---|---|---|---|
| `BackupScheduler`, `BackupRecovery` | who repairs a missed switch | `ExecutionLog` | `BackupScheduler_proofs` |
| `ScheduleChannel` | how an edit reaches an ESP32 | `SyncLedger` | `ScheduleChannel_proofs` |
| `CommandChannel` | orders to an ESP32, its firmware, its reports | `OrderLedger` | `CommandChannel_proofs` |
| `ShellySync` | how the jobs get into a Shelly | - | `ShellySync_proofs` |
| `FleetMonitor` | probes, firmware updates, controlled reboots | - | `FleetMonitor_proofs` |
| `RebootNet` (with `NetParameters`) | outputs restored after a reboot | - | `RebootNet_proofs` |
| `Plans`, `Occurrences` (with `PlanParameters`) | when a schedule fires, according to four programs | the calendar is the reference for the other three | `Parts_proofs` |
| `CallMenu`, `ServiceMenu` | a telephone call | - | `Services_proofs` |
| `Registry` (with `RegistryParameters`) | whose device it is | - | `Services_proofs` |
| `MCParts` | `FleetMonitor`, `RebootNet` and `Plans` side by side | | |
| `Chat`, `DeskMenu` | a WhatsApp conversation | - | `Services_proofs` |
| `MCServices` | `CallMenu`, `Registry` and `Chat` side by side | | |

Next: a composition of `Plans` with `BackupScheduler`, so that the edits of a
customer meet a scheduler pass.

## 3 The backup core

### What the code does

A Shelly unit fires its schedules from local jobs.  Each minute the loop of
`startScheduler` runs one *pass*: `tick` takes the occurrences whose grace
period (`BACKUP_GRACE_MIN`) has just ended, reads the channel, and records
`executed` by the device if it is in the wanted state, else inserts a `pending`
row, sends a backup command and settles the row; then `retryFailed` repeats
what failed in the last 60 minutes; then, every 15 minutes, `catchUpAll`.  A
pass that is still running makes the loop skip the next minute.

`catchUpDevice` runs after a reconnect (hello, or a healed offline flag), at
start-up and in the periodic round; one at a time per unit, later callers join
the run in flight.  It reads the channels, settles `unverified_offline` rows
that match, and re-applies the latest logged occurrence of every relay unless
the relay has an occurrence the tick still owns or the customer switched it
since.

### Modules

| Module | Contents |
|---|---|
| `ExecutionLog` | the abstract promise of `schedule_executions`: a row is recorded, settled once, and an executed row never changes |
| `BackupScheduler` | the unit, the broker's presence messages, the scheduler pass, catch-up, reconnect chain, commands, crash and restart; its properties |
| `BackupRecovery` | extends it with a clock of the quiet minutes and the recovery properties |
| `BackupScheduler_proofs` | the theorems |
| `MCBackupScheduler`, `MCBackupRecovery` | instances for TLC |

### Correspondence

* One action is the code between two RPCs.  Database statements with no RPC
  between them are one step: another function can run between them in Node, but
  each of the statements carries its own guard (`WHERE status IN (...)`), and
  those guards are in the model (`Update`).
* The actors are records with a program counter: `sch` (a pass: `tick` then
  `retryFailed`, then the awaited catch-up), `cu` (`catchUpDevice`), `hi`
  (reconcile of a hello or of a healed flag), `cmd["hand"]` and `cmd["system"]`
  (`sendImmediateCommand` of the customer and of the catch-up).
* Time is a minute counter.  A pass may outlast `MaxOverrun` minutes; every
  other activity lasts seconds and crosses at most one minute boundary (`Prompt`).
* `seen` is `devices.last_seen_at`, `online` is `is_online`, `topic` the presence
  message the broker has not delivered yet.  `word` is the answer to the query
  of the catch-up for an acked command younger than the occurrence; `lastCmd`
  the answer to the query of `verifyCommand` for a newer command.
* An RPC fails when the path is down, or, within the fault budget, because the
  request or only the reply was lost.  `Dispatched` therefore has a branch
  where the channel switched and the server counts a failure.
* The unit may miss a job: `Minute` runs any subset of the jobs due.  That covers
  a table that is behind, the 20-job cap and a power cut.
* `held`, `overruled` and `orphaned` are history: they record what happened for
  the properties and influence nothing.

## 4 The schedule channel

### What the code does

An edit of a schedule raises `devices.schedule_version` and sets `sync_status` to
`pending` in its transaction (`bumpDevices`); after the commit
`pushScheduleToDevice` reads the version, then the rows, publishes the payload
retained, and sets a 60 s timer.  The ESP32 checks the hash, stores the payload
whole, acknowledges its version and publishes its status.  `handleScheduleAck`
raises `device_ack_version` and sets `synced` when the version is the newest;
`handleStatus` pushes again when the unit reports an older one.  A rejected
payload, or a timer that runs out while the unit is online and behind, sets
`error`.

Nothing orders two pushes of one unit: the one that read the older version may
publish last, and then the broker retains, and the unit holds, an older schedule
than the unit has acknowledged, while the device is `synced`.  The status of
the unit is what brings the newer one back.  This is why the properties speak of
what the unit *came to hold* (`best`), and why convergence is a liveness property.

### Modules and correspondence

| Module | Contents |
|---|---|
| `SyncLedger` | the promise of the columns `schedule_version`, `device_ack_version`, `sync_status` |
| `ScheduleChannel` | server calls, broker, unit; its properties |
| `ScheduleChannel_proofs` | the theorems |
| `MCScheduleChannel` | the instance |

* A push in progress is a record with its stage (`Asked`, `Read`, `Built`,
  `Sent`), a handler one with its message and what its first SELECT told it
  (`behind`).  Both are sets, so any number is under way and they overtake each
  other.  Two calls in the same stage with the same data are one element.
* `down` and `up` are the messages on the way; the connection of the unit loses
  those to it, the death of the server those to the server (its session is not
  persistent, and the unit publishes acknowledgements once).  `retained` is kept
  by the broker, and `Presence` is the retained status or will.
* `Edit` counts edits.  What a schedule says is abstracted to how many of the
  edits it contains, which is all that versions can be wrong about.
* `best` is history: the newest edit that was ever installed.

## 5 The command channel

### What the code does

`sendImmediateCommand` inserts a `commands` row, publishes the order with QoS 1, marks
the row `sent` and waits for the ack of its id, at most a few seconds.  The
firmware drops an id it has seen among its last 32 (`lastCmdIds`, in RAM), else
switches, stores its outputs and acks.  `handleAck` writes the state of the relay
and hands the ack to the call that waits for it, which settles its row; an ack that
nobody waits for, because it is late or came before the waiter was registered, leaves the
row to its timeout (D22).  `handleStatus` writes presence, relay state and drop count by
statements of its own, and nothing orders two handlers.  When an occurrence is due the firmware switches and
reports it, or queues the report in flash, bounded, with a counter of what it
pushed out; after a reconnect it flushes the queue.  After a power cut the
outputs are off until the clock is valid; then `applyBootBehavior` brings them to
the stored state, to off, or to what the schedule says.

### Correspondence

`CommandChannel` has the server's calls and handlers with their stage (a handler is
its message, the last of its statements that had its effect, and a slot that tells equal
messages apart), the two directions of the connection as sequences, and the firmware as steps that only
the loss of power cuts short; the power may fail between two writes to flash
(`queueExecReport` counts before it stores).  `conn = "dead"` is a connection that is
gone and nobody noticed: what is published into it is lost.  Of the schedule only
the times are here, its contents are those of `ScheduleChannel`.  History
variables: `done`, `kept`, `fired`, `discarded`, `lost`, `hand`, `skipped`.

`OrderLedger` is the promise of a `commands` row: answered once, acked only if obeyed,
never acked after it failed (a late ack leaves it failed, D22).

## 6 The job table of a Shelly

`syncShellyLocalSchedules` reads the version, then the rows, keeps what fits into 20
jobs (`fitShellyJobs`: the soonest first), lists the table of the unit, deletes what
is not wanted and creates what is missing, and marks the device `synced` if the
version is still the one it read.  `ShellySync` has any number of synchronisations
and wipes of one unit under way together, on connections that close after a few
calls (`Window`), with edits, midnights (the fit depends on the day; the daily refresh
synchronises the fleet again), the removal of the device and restarts.  Sys.GetConfig,
Sys.SetConfig and Schedule.List are one call.  History: `tangled` (two calls of
different versions overlapped since the last clean one), `wiped`.

## 7 The fleet monitor

`healthTick` probes all Shelly units every minute, concurrently; a probe is a chain of
RPCs.  It may start a firmware update (`maybeAutoUpdate`), judge one (`verifyPending`,
`fail`, `watchLate`) or reboot a unit low on memory (`tryReboot`).  Only one unit of the
fleet may install at a time: the lock `inflight` is in memory and is rebuilt from the
diary `device_events` by a new process (`seedFleet`, `seed`).

In `FleetMonitor` a probe is cut at every wait for an answer; moments are kept as
ages, capped where the code stops telling them apart; a tick stands for the minutes
between two passes.  Units install, fail, panic, leak, fall silent and come back;
messages get lost; the process is replaced at any point.  `orphans` is history: units
whose install the process did not live to write down, or wrote down under a wrong
version (section 15).

## 8 The net after a reboot

When a probe sees that a unit rebooted by itself, a channel that was on before and is
off now is switched on again (`verifyRebootOutputs`), unless its schedule or an order
wanted it off.  `RebootNet` has one channel, the local OFF of its schedule, the
orders of the customer with their rows, and a probe cut at its calls: what it
decides on was read at three different moments.  `offs` is history and counts the
wishes that switched the channel off; a reading notes the count.

## 9 Schedules and their occurrences

Four programs say when a schedule fires: the server that backs the units up, the
calendar shown to the customer, the cron jobs of a Shelly and the payload of an
ESP32.  `Occurrences` has them as operators over a row and a day: weekly, yearly,
holiday and once, Gregorian and Hebrew dates, clock and halachic times, exclusions by
weekday, date and holiday, the nights before and after, anniversaries (a job of the
unit carries day and month without a year).  `Plans` has the rows: plans and
single schedules saved, edited, toggled and removed (with collisions refused and
exclusions derived from dated members), the minute loop, the completion of once
schedules, the daily refresh, the start-up scan, and what the unit holds.  History:
`asleep` holds the dated and halachic schedules that were off at the refresh of the day.  The days
of holidays and the times of the sun are parameters (`PlanParameters` names them and says
what a row, a plan and a side of a schedule are; `PlanCases` has those of the instance).

## 10 A telephone call

`CallMenu` is the webhook of `src/ivr/router.js`, one action per request with every
state of the session; `ServiceMenu` is the service branch of the menu tree it enters.
The exchange sends one request at a time, but its message that the caller hung up may
come while a request is still carrying something out: what was carried out is written
down in a later step (`step`).  The website changes channels (`enabled`), devices (`units`) and schedules
during the call, and every request reads them again (`desk`); the session is lost with the process.  History: `wish` is what the caller
was last read for confirmation, `doing` what the request has carried out.


## 11 Whose device is it

`Registry` has the rows of `devices` with their relay, and the inventory
`prepared_devices`, over the life of a unit: registered (`registerShellyDevice`),
removed and restored by its owner or the admin (`stashRemovedDevice`,
`recoverRemovedDevice`), returned to stock (`returnDeviceToStock`: the suspension, a
question to the unit, the row of the inventory, the stamp), moved to another customer,
its telephone digit changed, its relay deleted and created again; and the demo
device that an account has until a real one arrives (`demo.js`).  A transaction is one
step; a request is cut where it waits.  The removal of a demo is some eight statements of their own, whose
failure nobody hears of: it succeeds, or leaves the device, with its relay or without (`CleanUp`,
`CleanUpFails`), and the registration goes on in both cases.  A device has one relay, for relays meet only in
the digits of their owner.  One demo device stands for the set of two.
History: `was` (what the last removal took), `kept` (accounts whose clean-up failed, or whose
panel created the demo late), `overtaken` and `blurred` (section 15).  A behaviour begins with no
rows, with a unit in service, or with a removed row whose unit has been registered for another
row since: the situation in which a recovery may find its unit taken.

## 12 A WhatsApp conversation

`Chat` is `handleInboundNow` of `src/whatsapp/bot.js` over the row of `whatsapp_sessions`:
the gate in front of the office (choice, code, link with a passkey, admin mode), the ticket
or order waiting for its confirmation, the secretary of a customer, the numbered menu and
the paths for words.  `DeskMenu` extends `ServiceMenu` to the whole tree that the chat walks
(`services/serviceMenu.js`) and the router that jumps in it (`services/menuRouter.js`).  The messages of a
number are handled one at a time (`queue.js`); a message is cut where a restart may fall:
before a read-back is sent, before the order is carried out, before what follows it
(`todo`).  Between two messages the website may take away or add a channel, a device or a plan
(`has`, `Change`), and the next message finds the lists as they are then.  Time passes in units of a little more than ten minutes, and the time of the row
moves only when the row changes, as in the database.  What words mean is chosen freely.
History: `newest` (what was read back last), `offered` (the choices of the newest menu), `proof` (when
the admin proved itself or last wrote in admin mode), `did` (what the step carried out).

## 13 What the runs show

| Run | Module, configuration | Checks | Size |
|---|---|---|---|
| `backup_safety` | `MCBackupScheduler` | `TypeOK`, `HeldBeforeExecuted`, `PendingIsOwned`, `BeliefsAreEarned`, `ImplementsLog`, `GraceLeftAlone` | 750 k states |
| `backup_recovery` | `MCBackupRecovery` | `Recovered` | 790 k |
| `backup_liveness` | `MCBackupScheduler`, `MCBackupLiveness.cfg` | `PassEnds`, `OrderAnswered` under `FairSpec` | 270 k |
| `slow_pass` | `MCBackupRecovery`, `MCSlowPass.cfg` | `SlowPassCovered` fails | |
| `own_word` | `MCBackupRecovery`, `MCOwnWord.cfg` | `OnlyHandsOverrule` fails | |
| `schedule_channel` | `MCScheduleChannel` | `TypeOK`, `VersionsAreComplete`, `AcksAreEarned`, `ImplementsLedger`, `Converges` under `FairSpec` | 340 k |
| `command_channel` | `MCCommandChannel` | `TypeOK`, `OncePerPower`, `ReportsAccounted`, `SelfHeals`, `ImplementsLedger`, `UnitIsKnown` under `FairSpec` | 792 k |
| `boot_restore` | `MCCommandChannel`, `MCBootRestore.cfg` | `RestoresLastState` fails | |
| `shelly_sync` | `MCShellySync` | `TypeOK`, `UnitMirrors`, `WantedJobsStay`, `Settles` under `FairSpec` | 552 k |
| `fleet_deploy` | `MCFleetMonitor`, `MCFleetDeploy.cfg` | `CatchesUp` fails under `FairSpec` | |
| `parts` | `MCParts` | `TypesOK` and, of `FleetMonitor`: `OneFlashAtATime`, `LockIsUsed`, `FlashNotCutShort`, `RebootsAreSpaced`; of `RebootNet`: `NetKeepsOffs`; of `Plans`: `CalendarIsKept` (with its `DatedReplaces`, `OfflineJobs` and `DatesAreDays`), `MirrorIsExact`, `NothingIsMissed` | 2.0 M |
| `services` | `MCServices` | `TypesOK` and, of `CallMenu` and `Chat`: `OfferedIsUnderstood`, `CarriedOutAsRead`; of `CallMenu`: `CallLogIsTrue`; of `Chat`: `OfficeIsGated`; of `Registry`: `RegistryIsSound` (with its `InventoryIsTrue`), `RecoveryGivesBack` | 1.6 M |

`MCParts` and `MCServices` put components that share no state side by side, one running at a
time, so that their instances are small and one run reaches every state of each.
Deadlock is not checked there: a call ends and the minutes are bounded.

**Bounds.**  For the backup core one channel with an ON and a later OFF (one
occurrence for the liveness run): two occurrences of one relay are what every
conflict in this code is about; channels meet only in the reconcile's early stop,
which the theorems cover for any number of them.  The constants of the code
(grace 2, reachable 5, retry window 60, catch-up every 15 minutes) are scaled to
a minute or a few, so that each window opens and closes inside the horizon.
`MaxHands`, `MaxFaults` and `MaxNoise` bound the orders and hand switches, the
outages, lost RPCs and crashes, and both together: one disturbance meets every
phase of every actor.  Two are possible where the run needs them (`MaxNoise` in
the configuration).  The safety run uses a `VIEW` that maps timestamps to their
age and forgets those too old for any comparison (an age beyond the reachable
limit is as good as the limit), so states that differ only in expired timestamps
are one.

For the schedule channel two edits are the least with an older and a newer push;
pushes overtake each other, handlers too where the run allows two of them, and
one fault meets every stage of every call.

| Part | Bound | Why it is enough |
|---|---|---|
| command channel | 2 orders, one for a relay the unit lacks, asked for before the first occurrence and over before the second (`LastAsk`); 2 occurrences; report queue of 1, id ring of 2; 2 messages from the unit under way, both may be in a handler; a report is refused from the next occurrence on (`Window = 0`); 1 fault | a call may straddle an occurrence, as it lasts seconds; two handlers write in every order, the will of a lost connection against the status of the next one too; the ring remembers both orders, as the code's 32 remember every order of an hour; the second report overflows the queue; the fault meets every step of every call |
| Shelly jobs | 3 jobs for a table of 2 with 2 synchronisation slots, a connection of 3 calls, 2 changes | one job too many is what the fit decides on; two synchronisations overlap in every way; the window ends one between any two calls |
| fleet | 2 units, one of them unreliable; one version behind (two for `fleet_deploy`), 1 fault, 1 deploy | the lock is about two units; the second version is about a second night |
| net | 6 minutes, 1 cut of power, 1 order, 1 silence | longer than the window in which a probe is believed, and than a reboot |
| plans | a year of 4 days, a week of 3, a day of 4 minutes, 2 changes; what was switched off is switched on again at one moment (`Wakings`) | a schedule has an eve, a day and a next day; the year wraps round, so anniversaries come back; the moment is the minute after the refresh of the second day, when what the refresh passed over is as it was before |
| call | 2 channels, 2 schedules, 1 order that is carried out, 1 upset | a word can mean none, one or several channels; the upset is the loss of the session at any point, a change on the website between two requests, or midnight; the caller hangs up at any point, and an order may fail in whole or in part (a statement that fails after its effect, such as the entry in the log, is not modelled) |
| chat | 2 channels, at most 2 devices and plans and one more, 1 trouble | the trouble is a restart at every point of a message, or one change of the account between two: a list that loses an entry, or gets one |
| registry | 2 customers, 1 unit, 2 digits, 3 rows, 2 requests under way, 3 requests in all, 1 slip | the unit goes from one customer to the other and its old row stays; two requests overlap at every wait; the slip is a crash, a clean-up of a demo that fails, or one of the things an admin does by hand |

**Fairness.**  `FairSpec` of the backup core is weak fairness of the steps of the pass,
the commands, the catch-up and the reconnect chain: the event loop serves every
continuation, and every RPC ends in a reply or in its timeout.  Nothing is assumed
of the unit, the path, the clock or the process: they may stay down for ever.
`BootCatchUp` is part of the catch-up's steps.

`FairSpec` of `ScheduleChannel` assumes each stage of a push, the timer and the
handlers to get on (callbacks of the event loop and of the database driver), the
unit to receive what is on its way, to send its 60 s heartbeat and to reconnect
(`loop` retries with a backoff of at most five minutes), and the process to be
restarted by its supervisor.  Edits, faults and rejections are not fair.
`CommandChannel` assumes the same of its calls, messages and handlers, and of the
`loop()` of the firmware, and that power and connection come back in the end.
`ShellySync` assumes the steps of a synchronisation, that the unit is connected
again, and that a job asks for the next synchronisation (the hello of the unit, the
daily kick).  The safety properties of `FleetMonitor` need no fairness; `FairSpec`,
used by `fleet_deploy` alone, gives every probe, tick and installation its turn.

**What the violations say.**

* `slow_pass`: the overlap guard drops a minute for good; the periodic catch-up,
  which its comment says covers a slow pass, reads only logged occurrences.
* `own_word`: the catch-up's own `system` command passes for the customer's word,
  so a catch-up that a stale retry undid is not repeated.
* `boot_restore`: the firmware loads its schedule at boot before it restores the
  relays, and loading ends with storing the outputs of that moment, which are all
  off.  A relay with boot behaviour `last_state` stays off after a power cut.
* `fleet_deploy`: a new process resumes the verification of an install and expects
  a reboot that happened before its first sight of the unit.  The flag stays, and
  as long as it does no further update of this unit is begun.

`Recovered` holds nevertheless in its run because it asks for the state after the
last disturbance and the periodic rounds (`Settling` in `BackupRecovery`
names the time allowed) and counts what the code takes for the customer's word as
such; `OnlyHandsOverrule` is the stricter form.

## 14 What is proved

`BackupScheduler_proofs`, for every number of channels and occurrences, every
grace, window and bound, from the assumptions named in `BackupScheduler`
(`SizesAssumption`, `OccurrencesAssumption`, `UniqueKeyAssumption`):

| Theorem | Statement |
|---|---|
| `TypeCorrect` | `Spec => []TypeOK` |
| `BeliefsHold` | `Spec => []BeliefsAreEarned` |
| `HeldCorrect` | `Spec => []HeldBeforeExecuted` |
| `PendingCorrect` | `Spec => []PendingIsOwned` |
| `GraceCorrect` | `Spec => GraceLeftAlone` |
| `LogImplemented` | `Spec => ImplementsLog` |
| `RecoveryHolds` | `RecoverySpec => []Recovered`, if `MaxOverrun = 0`, `ReachableMin >= 1` and `CatchUpEvery >= 3` |

`HeldBeforeExecuted` is not inductive: whether a row may become `executed`
depends on what an actor believes at the time, and those beliefs were formed an
RPC earlier.  `BeliefsAreEarned` says of each actor what its belief is worth: a
pass believes in a match only where the channel was seen in that state
(`PassIsSound`), a reading of the channels is a witness for the occurrences due
when the reading actor began (`CuReadingIsSound`, `HiReadingIsSound`), the
command of a catch-up is the one its occurrence asks for (`CatchUpIsSound`).
The argument that a stale reading cannot settle a younger row is one of time:
a row appears only after its grace (`LoggedIsDue`), and a catch-up or reconnect
chain does not last that long.  `GraceLeftAlone` is about the command of a catch-up
that was decided an RPC earlier: what the run still has to do, its present occurrence included,
keeps off the channels that the tick of its first minute owned (`GraceIsKept`).  Each action is one step of the proof.  The
refinement follows from the same invariant: every write to the log goes through
`Update`, whose guard is one of the abstract actions.

`Recovered` looks back over `Settling` minutes, so `RecoveryIsUnderWay` has an invariant for
every phase of them.  `Timely` says how long each activity lasts, and `CalmIsCalm` what quiet minutes bring:
no order is under way, the row of the unit is fresh, then no reconnect chain is left.
`Fresh` is about what may still switch the channel against the occurrence that decides it: a run
that began after it has nothing stale on its list (`RunsAreFresh`); a stale row that failed is
retried by the first pass of the calm, and never again (`RowsAreFresh`), so that
later passes carry nothing stale (`PassesAreFresh`).  From then on the channel, once right, stays
right, and so do the match a pass has found, the reading and the recorded state that a late run goes by
and the command it has sent (`MatchIsTrue`, `ReadIsTrue`, `StateIsTrue`, `CmdIsTrue`).
Such a run therefore has the channel on its list until it is right (`TodoOrDone`,
with the least schedule id of those that ask for the same in the same minute), and leaves it right
(`Settled`).  A round of the calm starts a run, joins one or comes within a minute of one
(`Rounds`), and the settling time holds a round whose run began late enough.
The code has `REACHABLE_MIN` 5 and `CATCH_UP_EVERY_MIN` 15.  That no pass outlasts its
minute is a real condition: a pass reads the row of the unit once, takes it for unreachable after
`REACHABLE_MIN` minutes and leaves its failed rows alone, so that slow passes can carry a stale retry
past the settling time (section 15).

`ScheduleChannel_proofs`, for any number of edits, faults, messages and concurrent
calls, from `BoundsAssumption`:

| Theorem | Statement |
|---|---|
| `TypeCorrect` | `Spec => []TypeOK` |
| `CompletePayloads` | `Spec => []VersionsAreComplete` |
| `EarnedAcks` | `Spec => []AcksAreEarned` |
| `LedgerImplemented` | `Spec => ImplementsLedger` |

The three invariants are inductive one on top of the other.  `VersionsAreComplete`
says of every place a payload can be in (a push, the broker, the connection, the
unit) that it holds the edits of its version; it rests on the version being read
first.  `AcksAreEarned` follows the acknowledgement back from the column through
the handler and the message to the unit; it needs completeness, or the
acknowledged version would not be worth its edits.  The refinement maps the
unit's steps to `Install`, `AckHandled` to `Acknowledge`, the timer and the
rejection to `Flag`, and everything else to a stutter.

`FleetMonitor_proofs`, for any fleet, any number of versions behind, any number of
faults and deploys, from `FleetAssumption`:

| Theorem | Statement |
|---|---|
| `FleetTypes` | `Spec => []TypeOK` |
| `FlashesOneAtATime` | `Spec => []OneFlashAtATime` |
| `LocksAreUsed` | `Spec => []LockIsUsed` |
| `FlashesNotCutShort` | `Spec => [][FlashNotCutShort]_vars` |
| `RebootsKeepApart` | `Spec => [][RebootsAreSpaced]_vars` |

The lock alone cannot be the invariant, for a process forgets it.  What lasts is the
diary: an install still within its budget has an open row there (`Recorded`), no
second row is open while one is (`Reserved`), and a new process takes the lock back
before it makes its first decision (`Leads`, `Held`).  `Probed` says of every probe
what its readings are worth by the time it decides, `Locked` that the lock belongs to the
unit whose row is open, `Covered` and `Cooled` keep the ages of what memory and diary say of
reboots in step.  An install that never reached the diary escapes this; `orphans`
names those units, and the properties except them.

`RebootNet_proofs`, for any number of minutes, cuts, orders and silences, from
`NetAssumption`:

| Theorem | Statement |
|---|---|
| `NetTypes` | `Spec => []TypeOK` |
| `NetKept` | `Spec => [][NetKeepsOffs]_vars` |

Every reading of the probe is traced back (`Traced`): a channel that was on at a
reading and is off at the later one either lost power or was switched off by a wish,
and then the count of wishes has moved (`WishesAreFew`); a wish of the schedule after
the first reading is in the list of fired jobs (`FiredInTime`), one of the customer has
its row.  `ResetIsSeen` says that the uptime gives the reboot away.

`CommandChannel_proofs`, for any number of orders, occurrences and faults, any queue and
window, from `ChannelAssumption`:

| Theorem | Statement |
|---|---|
| `TypeCorrect` | `Spec => []TypeOK` |
| `ObeyedOncePerPower` | `Spec => []OncePerPower`, if `Cardinality(Orders) <= Ring` |
| `HealsItself` | `Spec => []SelfHeals` |
| `ReportsAccountedFor` | `Spec => []ReportsAccounted` |
| `LedgerImplemented` | `Spec => ImplementsLedger` |

An order delivered again is caught only while its id is in RAM: the invariant
(`RingRemembers`) says that what was carried out since the unit has power is in the ring, and that
the ids there differ.  That holds while the ring is as long as there are orders that may
still be delivered again.  The bound cannot be dropped: with one id and two orders TLC shows an
order obeyed twice.  The code keeps 32 ids (`main.cpp:102`), far more than the orders whose QoS 1
exchange can be open together.  For the ledger a row says where its call is
(`RowsFollowCalls`), and every acknowledgement, on the way, stored or repeated from
the ring, was earned by the relay (`AcksAreEarned`).  A report is followed through flash, line and
handler (`Accounted`); what the queue pushes out is counted before it is stored, so that the
counter is never below what was discarded.

`ShellySync_proofs`, for any jobs, capacity and week, any number of synchronisations under way
together, from `ShellyAssumption`:

| Theorem | Statement |
|---|---|
| `TypeCorrect` | `Spec => []TypeOK` |
| `MirrorsUnit` | `Spec => []UnitMirrors` |
| `WantedStay` | `Spec => WantedJobsStay` |

The invariant is about the call that nothing overlaps (`CallsAreAlone`): what it has still to
write is all that the table lacks (`DiffIsTrue`), for its own deletions and creations take away
just one difference each (`DeleteDiff`, `CreateDiff`; duplicates are why this needs the least
number of a set); the version it aims at was read with the rows (`TargetsAreRead`); and while it
runs the unit is not `synced` (`NotYetDone`).  When nothing is left to write, table and fit are
the same jobs, each once.

`Parts_proofs`, about the composition `MCParts`, for any calendar, plans and rows that
`PlanAssumption` allows:

| Theorem | Statement |
|---|---|
| `TypesKept` | `PartsSpec => []TypesOK` |
| `NoneFallsBetween` | `PartsSpec => []NothingIsMissed` |
| `UnitsMirror` | `PartsSpec /\ [](part = "week" => Week!DatesAreDays) => []MirrorIsExact` |
| `OffsStay` | `PartsSpec => NetKeepsOffs`, by the theorem of `RebootNet_proofs` |

Ids of rows are their own and below the next one (`IdsAreOwn`), which is what tells an old row
from its replacement when it is asked whether an occurrence was handed over.  A unit that is
not behind holds what its rows asked for on the day it was told last (`heldOn`), which may be
yesterday: `MirrorInv` says that every row asks for the same since, or that
the refresh, which would notice, is still to come (`RefreshedLately`).  `UnitsMirror` has a hypothesis: the dates
to which the rows resolve are days of the calendar and not past its end.  That is
arithmetic of the calendar, in folds over its days, and TLC checks it in the
same run (`DatesAreDays` in `CalendarIsKept`).

`Services_proofs`, about the composition `MCServices`, for any customers, units, digits, rows
and requests under way and any bound on the age of a chat, from `RegistryAssumption` and
`ServicesAssumption`, and for calls and chats `CallAssumption`, `TriesAssumption` and
`AccountAssumption`:

| Theorem | Statement |
|---|---|
| `ServiceTypes` | `ServicesSpec => []TypesOK` |
| `RegistrySound` | `ServicesSpec => []RegistryIsSound` |
| `RecoveryRestores` | `ServicesSpec => RecoveryGivesBack` |
| `AdminIsProved` | `ServicesSpec => OfficeIsGated` |
| `CarriedAsWasRead` | `ServicesSpec => CarriedOutAsRead`, if `None` is no record |
| `CallLogTrue` | `ServicesSpec => []CallLogIsTrue`, if `None` is no record |
| `OffersUnderstood` | `ServicesSpec => []OfferedIsUnderstood` |

None of the parts of `RegistryIsSound` is inductive.  A unit on the shelf of the inventory must
be followed through the requests: it is in no row, or in one that is returned or being
returned, or some request will take it off (`ShelfIsTrue`, `Healing`); a mac is held once
(`UnitsAreHeldOnce`); the unit that is being returned is in nobody's service but that of the row this
return will suspend (`ReturnsAreAlone`); a row in service while it is being
returned was restored meanwhile (`RestoredIsOvertaken`); what a removal took is in the stash
(`StashIsKept`).  The search for this invariant found the exception `ListedByOther`
(section 15): it takes four requests, one more than the run allows, and the third initial
state was added for it.  That a demo device makes room (`DemoMakesRoom`) is said of an account
already while a real device is on its way (`Arriving`): the demo is removed when the request begins,
and only the panel, or a clean-up that fails, can put `kept` in its place (`CleansUp`, `ArrivalBegins`).

What the office does is decided long after the code that proved the admin, so `OfficeIsGated`
needs an invariant over the row and the work under way (`TalkInv`): in the state `ADMIN` the
proof is no older than the row, as they grow old together; a confirmation of the office that is
still open, and work that the office began, have a proof of this very moment.  The first half
fails if any path of a customer could store a row of the office or a confirmation of its
orders; so the proof goes through the whole menu tree and every word the router may hear
(`MenuRepliesAreReplies`): whatever is chosen or said, the reply carries an order of the customer or
none (`MenuOrders`).  The same invariant relates a confirmation that waits, in a row that outlives
the process, to what was read back (`ReadJustNow`): work that will carry something out has it as
its newest question, asked in time.

For a call, `CarriedOutAsRead` relates four pieces of state that different requests write: the
session, what was read for confirmation (`wish`), the answers as keyed (`keyed`) and what is carried
out.  The invariant `CallInv` says what each state of the menu is worth (`Understood`): the
schedule at the place of the list, the one to be deleted, and the orders in words are among what
was read; and in the add flow the answers that this step has behind it (`Given`, by type and sides) are in the
session as keyed, while what lies ahead was not keyed yet.  What the session still holds from an earlier attempt
lies ahead, and that it never gets into the schedule is `FieldsAreKeyed`: `schedFieldsFor` takes exactly the answers
of the steps that the caller went through (`Chosen`).  `LogInv` is the part about the row in
`call_logs`: while it is open its session is there or was lost, and if something was carried
out then the request that did so is still about to close it.

`OfferedIsUnderstood` sets a menu that one request read out against the answer that the next
request gives, and all that the two share is the stored node of the tree: the lists are read again, and
the website may have changed them.  A choice that the lists still have is understood; one that is gone
(`Gone`, `Vanished`) is answered by the list as it is now or by the main menu (`GoneAnswers`,
`VanishedAnswers`), whatever was changed.  So the invariant says what may have
been offered at each node (`OptionsAt`): whatever either menu replies, the options belong to the node it leads
to (`Fits`), and a chat or call that was moved by anything else keeps node and offer in step.  The telephone
stays among the nodes of the service branch where something is offered (`ServiceNodes`, `InBranch`), and there no
answer that was offered leads straight to the main menu (`Leading`).  The types rest on the same facts
(`CallTidy`, `TidyInv`): whether a session has a tree, or a place in its list, depends on its state.

`CallAssumption` says that days ahead are numbers and that `None` is none of the words that a row or a
request may hold.  `TriesAssumption` and `AccountAssumption` give the counters and the
accounts their kinds.  The hypothesis of `CarriedAsWasRead` and `CallLogTrue`, `~IsMap(None)`, says that `None`, which is what a session or a
question is when there is none, is not a record (`IsMap(f)` is `f = [x \in DOMAIN f |-> f[x]]`).  It is a hypothesis
and no `ASSUME` because TLC cannot evaluate it: a model value has no `DOMAIN`.

**Only model-checked.**  All liveness (`PassEnds`, `OrderAnswered`, `Converges`, `UnitIsKnown`, `Settles`):
fairness and `ENABLED` are beyond the prover.  `CalendarIsKept`: it
compares what four programs compute by folds and recursive functions over days, and what
these yield for every input needs induction over data, which is beyond the prover.

## 15 Observations

Behaviour met while modelling.  The models contain it, and the properties are stated
so that they hold with it; none contradicts a sentence of the repository unless noted.

*Backup.*  A pass that outlasts `REACHABLE_MIN - 1` minutes takes the unit for unreachable, by the row it
read when it began (`tick.js:303`), and keeps its failed rows for a later pass.  While the retry
window lasts (60 minutes, longer than the settling time of 33), the first prompt pass
may send such a row although a younger occurrence of the channel was executed since; until the next
round the channel is in the older state.  With `MaxOverrun = 1`, `ReachableMin = 1`,
`RetryWindow = 14` and 13 minutes TLC finds `Recovered` violated that way; with `ReachableMin = 2` it holds for one
minute of overrun.

*Command channel.*  A reconnect delivers the retained schedule again, and applying it
runs `applyBootBehavior`, which undoes an order given since.  An ack handled before its
waiter is registered (`commands.js:188`) finds nobody: the relay state is written, the row ends
`failed` with `timeout`, and the caller is told so although the unit obeyed.  Two status handlers that
overlap may leave the older presence or state behind until the next heartbeat, and the smaller drop
count remembered, whose next report is told of twice.  The minute in which the clock becomes valid is not executed (`main.cpp:441`).
Reports are sent with QoS 0: those written to a half-open connection are lost and leave no trace in the
drop counter.  The ack of a schedule is published once and its timer lives in the
process: a restart between them leaves the device `pending` until the next edit.

*Fleet.*  An install that the unit accepted, but that the process did not live to record, is not
covered by the lock.  An install whose verification was given up is not spared
a controlled reboot, whatever `health.js:318` says of updates.  If an install the server gave
up on ends between the status and the Shelly.Update of the next probe, the row names the
wrong version and the lock is released while the unit flashes.

*Shelly jobs.*  Two synchronisations that read different versions may overlap so that the older
jobs stay while the device is `synced`; the next synchronisation repairs it.  The
daily kick skips units that are offline (`tick.js:629`), though `shelly-schedules.js:163` relies on
it for the jobs that did not fit.  The header of `shelly-schedules.js` (lines 7-10) says that any
difference rewrites the table by `Schedule.DeleteAll` and `Schedule.Create`; that was the code of before
2026-08-27.  Line 213 says so, and the code deletes and creates one by one what differs
(`WantedJobsStay`).

*Net.*  `lastProbeAt` moves with every answered Sys.GetStatus, `lastOutputs` only when the
outputs were read: the snapshot can be older than the age that is checked.

*Plans.*  The start-up scan takes an occurrence of the last hours also from before its schedule
existed.  The payload of an ESP32 resolves excluded weekdays for the day it is built
on.  The daily refresh moves the time of a row whose occurrence is still within its
grace.  A halachic weekly schedule may have a second turn on its day.  An end of
Shabbat given as clock time before noon is taken for the next day.  Switching off a dated
member of a plan leaves the exclusion derived from it.  The refresh takes enabled rows, once a day
(`tick.js:565`, `668`), and neither `setPlanEnabled` nor the toggle of `updateSchedule` resolves the dates again
(`schedules.js:680-704`, `806-812`): a schedule over several days that was off at the refresh, and is on again
later that day, shows in the calendar, while server and unit hold its date of days ago and do nothing until
the refresh of the next day, although `calendar.js:4` promises that "it shows
the real future times, not just the upcoming one".  A
halachic weekly schedule fires at the time of the day it was last resolved for.  Rows of a deleted schedule
are replayed by the catch-up.  A job whose time passed between its computation and its creation in
the unit fires a year later.

*Call.*  A caller who hangs up while an order is carried out is logged `abandoned`
though it was carried out (SPEC.md 4.1.7 knows the status for callers who did
nothing).  Of several results the first is logged.  `today` is resolved at the confirmation.  Of a list of devices a number means the place, so that
after a removal on the website the number that was read out means the next device, and with one device
left every number means that one (`serviceMenu.js:376`); a channel is meant by its own code, but a
channel 9 that is enabled after the list was read takes the 9 that was offered as the way back.  A session lost
by its timeout or a restart leaves `ended_at` empty.  Silence in the service menu repeats it
without an end, for its counter is that of wrong keys.

*Backup.*  The verification compares the channel at that moment: a unit that fired, and whose
channel the customer switched inside the grace, is switched back, although `tick.js:1` says that the
backup fires only when the device is silent.

*Chat.*  A row that is saved without a change keeps its time (`migrate59.js:17`): the same order
given again after its confirmation expired leaves the row as it is, and every yes to it is told that it
expired; and the thirty minutes of admin mode do not begin again with each message.  A proposal of the
office left unanswered for ten minutes ends admin mode.  The buttons have constant ids: a tap on an
older bubble approves the newest question.  While a proposal of the office waits, `0` goes to the secretary as
a turn.  Plans are numbered by place, as devices are (*Call*).

*Registry.*  Opening the panel recreates the demo device while a registration waits for the
probe; the demo takes its digit, and the registration is refused with `IVR_DIGIT_TAKEN`.  The same happens when the
removal of the demo fails, because the scheduler put a row beside those just deleted (the foreign keys refuse the
next statement): `demo.js:73` says of the demo "so it never blocks or shifts a real registration".  The demo that is left, perhaps without its relays, stays until the panel is opened.
A return to stock waits up to four seconds for the unit between its statements: if the
unit is registered again, or its row restored, meanwhile, the inventory may list a
unit in service, or a row is in service and stamped returned.  A crash between the row of the
inventory and the stamp leaves a restore by the customer possible, after which the unit is
listed too.  A restore takes its unit out of the inventory only if this very row returned it
(`devices.js:303`).  A unit that was removed from one row, registered as another, and returned
to stock from there is given back by a restore of the first row, and the inventory goes on
offering it (`ListedByOther`).  A digit given to a suspended relay is replaced by the stashed one at the
recovery.  A unit in service whose row of the inventory was deleted is listed again when
an installer asks for its status.

## 16 Not modelled

Of the modelled components: the wait for the broker before the first pass, the demo
branches of `tick` and `sendImmediateCommand`, the current and power values in a verification (a contact
that sticks is a free choice, `StuckOn`), several units in one pass (what another unit costs
a pass is `MaxOverrun`), alerts and mails, the relays the firmware forces off when a payload
lacks them, its provisioning and over-the-air update, the verification of
loads and the dead-relay streak of the monitor, the rebuild of an incomplete set of demo devices, the change of the clock in spring and autumn, the
test calls and recordings of the telephone.

Not modelled at all: access control (a security review is the place for it), the
interpretation of words by the language assistants (what they may make of them is chosen freely), requests and pages that only show or store rows, the shell
scripts.  `PROJECT.json` lists each component with its reason.

## 17 Running it

    tlc -workers 2 -config MCBackupScheduler.cfg MCBackupScheduler.tla
    tlc -workers 2 -config MCScheduleChannel.cfg MCScheduleChannel.tla
    tlc -workers 2 -config MCCommandChannel.cfg MCCommandChannel.tla
    tlc -workers 2 -config MCShellySync.cfg MCShellySync.tla
    tlc -workers 2 -config MCParts.cfg MCParts.tla
    tlc -workers 2 -config MCServices.cfg MCServices.tla
    tlapm BackupScheduler_proofs.tla
    tlapm ScheduleChannel_proofs.tla
    tlapm FleetMonitor_proofs.tla
    tlapm RebootNet_proofs.tla
    tlapm CommandChannel_proofs.tla
    tlapm ShellySync_proofs.tla
    tlapm Parts_proofs.tla
    tlapm Services_proofs.tla
