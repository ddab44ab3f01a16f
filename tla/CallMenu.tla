------------------------------ MODULE CallMenu ------------------------------
(***************************************************************************)
(* A telephone call (ivr/router.js with ivr/session.js, services/nluExec.js *)
(* and services/callLogs.js): the menu that the webhook walks, what the    *)
(* call carries out, and the row that the call leaves in call_logs.        *)
(*                                                                         *)
(* One call.  The exchange sends one request at a time, but the message    *)
(* that the caller hung up may come while a request is being answered:     *)
(* what has been carried out by then is written down in a later step.  The *)
(* session is in memory only.  The website may change channels, devices    *)
(* and schedules during the call, and every request reads them anew; a     *)
(* channel is its telephone code.  The menu is the one with voice orders;  *)
(* the forwarding of calls to a test server is left out.                   *)
(***************************************************************************)
EXTENDS ServiceMenu, Integers, Sequences

CONSTANTS
    Callers,       \* who may call: what the number says (kind), which branches of the main
                   \* menu are taken, and what ServiceMenu asks of an account when the call begins
    Relays,        \* the channels of the customer, enabled or not, by code
    FirstScheds,   \* how many schedules there are before the call
    Times, Weekdays,   \* times of day and weekdays that the caller may key in
    Aheads,        \* days ahead for a single schedule: 0 today, 1 tomorrow
    Tries,         \* so many invalid answers end the call (3)
    Replays,       \* so often a question for words is asked again (2)
    MaxDone,       \* bound: when so much has been carried out, nothing more is
    MaxUpsets,     \* bound: changes on the website, midnights, restarts and expired sessions
    None

VARIABLES
    caller,          \* who calls
    line,            \* the line to the caller is open
    sess,            \* the session, None when there is none
    step,            \* what the request under way has still to write down, None
    log,             \* the newest row of call_logs for this call, None
    enabled, units, scheds, \* the enabled channels, how many devices, the live schedules
    nextId, date,    \* id of the next schedule; days since the call began
    upsets,          \* bound
    wish,            \* history: what the caller was last read for confirmation, as keyed
    keyed,           \* history: the answers of this attempt at a schedule
    doing,           \* history: what the request under way has carried out
    count,           \* history: how much the call has carried out since the row was begun
    blemishes        \* history: what may make the row untrue

account == <<enabled, units, scheds, nextId, date, upsets>>
history == <<wish, keyed, doing, count, blemishes>>
vars == <<caller, line, sess, step, log, account, history>>

\* The account as the service desk reads it.
desk == [caller EXCEPT !.codes = enabled, !.devices = units]
NoSchedule == [type |-> None, sides |-> None, day |-> None, onDay |-> None, onTime |-> None,
               offDay |-> None, offTime |-> None, relay |-> None]
NewSession(state) ==
    [state |-> state, invalid |-> 0, ctx |-> None, entry |-> NoSchedule, fields |-> None,
     list |-> <<>>, idx |-> 0, del |-> None, order |-> {}, readOn |-> 0, retries |-> 0,
     waiting |-> FALSE, tree |-> Main, offered |-> {}, info |-> FALSE]
OpenLog == [outcome |-> None, ended |-> FALSE]

\* Wrong on purpose: the last outcome stays.
LastOutcome(o) == [outcome |-> o, ended |-> TRUE]
\* finishCall: the first outcome stays.
Outcome(o) == IF log.ended THEN log ELSE [outcome |-> o, ended |-> TRUE]

-----------------------------------------------------------------------------
(* What a request leaves behind *)

KeepAll == UNCHANGED <<account, caller, step, doing, count, blemishes>>
Keep    == KeepAll /\ UNCHANGED <<wish, keyed>>

\* The next prompt is read.
Ask(s)  == sess' = s /\ UNCHANGED <<line, log>>
Prompt(s) == Ask(s) /\ Keep
At(s, state) == [s EXCEPT !.state = state]

\* mainMenu.  What the way back into a branch sets anew before it is used is
\* forgotten here; the days and times of the add flow are not.
AtMain(s) ==
    [NewSession("MAIN") EXCEPT !.entry = [s.entry EXCEPT !.type = None, !.sides = None, !.relay = None]]
MainMenu(s) == Ask(AtMain(s)) /\ wish' = {} /\ keyed' = NoSchedule /\ KeepAll

\* sayAndHangup, with the row closed and the session gone.
HangUpWith(o) ==
    /\ sess' = None /\ line' = FALSE /\ log' = Outcome(o)
    /\ Keep

\* Wrong on purpose: one attempt too many.
InvalidOnceMore ==
    IF sess.invalid + 1 > Tries THEN HangUpWith("abandoned")
    ELSE Prompt([sess EXCEPT !.invalid = @ + 1])
Invalid ==
    IF sess.invalid + 1 >= Tries THEN HangUpWith("abandoned")
    ELSE Prompt([sess EXCEPT !.invalid = @ + 1])

Request(state) == line /\ step = None /\ sess # None /\ sess.state = state

\* Something is carried out; the rest of the request is another step.
CarryOut(effects, rest) ==
    /\ count < MaxDone
    /\ doing' = effects /\ count' = count + Cardinality(effects) /\ step' = rest
    /\ UNCHANGED <<caller, line, sess, log>>

-----------------------------------------------------------------------------
(* The call arrives *)

\* A request without a session: the call, or what is left of it after a loss.
Arrive ==
    /\ line /\ step = None /\ sess = None
    /\ doing' = {} /\ count' = 0 /\ wish' = {} /\ keyed' = NoSchedule /\ blemishes' = {}
    /\ \/ /\ caller.kind = "locked"
          /\ log' = [outcome |-> "auth_fail", ended |-> TRUE] /\ line' = FALSE /\ sess' = None
       \/ /\ caller.kind = "code"
          /\ log' = [outcome |-> "status", ended |-> TRUE] /\ line' = FALSE /\ sess' = None
       \/ /\ caller.kind \in {"user", "pin", "guest"}
          /\ log' = OpenLog /\ line' = line
          /\ sess' = NewSession(CASE caller.kind = "user" -> "MAIN" [] caller.kind = "pin" -> "AUTH_PIN" [] OTHER -> "SALES_MENU")
    /\ UNCHANGED <<caller, step, account>>

AuthPin ==
    /\ Request("AUTH_PIN")
    /\ \/ MainMenu(sess)
       \/ HangUpWith("auth_fail")       \* locked out now
       \/ IF sess.invalid + 1 >= Tries THEN HangUpWith("auth_fail") ELSE Prompt([sess EXCEPT !.invalid = @ + 1])

-----------------------------------------------------------------------------
(* Callers that are not customers; messages *)

RecordMessage(s, state) == [s EXCEPT !.state = state, !.invalid = 0]

SalesMenu ==
    /\ Request("SALES_MENU")
    /\ \/ Prompt([sess EXCEPT !.state = "SALES_INFO", !.invalid = 0, !.info = TRUE])
       \/ Prompt(RecordMessage(sess, "SALES_RECORD"))
       \/ Invalid
SalesInfo ==
    /\ Request("SALES_INFO")
    /\ \/ Prompt(RecordMessage(sess, "SALES_RECORD"))
       \/ Prompt([sess EXCEPT !.state = "SALES_MENU", !.invalid = 0])
       \/ Invalid

\* salesVoicemailDone: the ticket, and then the row and the session.
Recorded ==
    /\ line /\ step = None /\ sess # None /\ sess.state \in {"SALES_RECORD", "AGENT_RECORD"}
    /\ step' = "voicemail"
    /\ UNCHANGED <<caller, line, sess, log, account, history>>
RecordedDone ==
    /\ step = "voicemail" /\ step' = None
    /\ sess' = None /\ log' = Outcome("voicemail") /\ line' = FALSE
    /\ UNCHANGED <<account, history, caller>>

-----------------------------------------------------------------------------
(* The main menu: orders and status *)

Switch(relay, action) == [kind |-> "switch", relay |-> relay, action |-> action]

\* runImmediate; the menu needs no confirmation.
RunImmediate(relay, action) ==
    /\ CarryOut({Switch(relay, action)}, "command")
    /\ wish' = {Switch(relay, action)}
    /\ UNCHANGED <<account, keyed, blemishes>>

RelayMenu(s, ctx) ==
    IF enabled = {} THEN HangUpWith("abandoned")
    ELSE IF Cardinality(enabled) = 1 /\ ctx # "sched" THEN \E r \in enabled : RunImmediate(r, ctx)
    ELSE Prompt([s EXCEPT !.ctx = ctx, !.state = "RELAY_SELECT"])

RunStatus ==
    IF enabled = {}
    THEN /\ sess' = None /\ line' = FALSE
         /\ blemishes' = blemishes \cup {"no_relays"}
         /\ UNCHANGED <<caller, step, log, account, wish, keyed, doing, count>>
    ELSE sess' = AtMain(sess) /\ log' = Outcome("status") /\ UNCHANGED line /\ Keep

\* schedBrowse: the list is read again on every hop, the place is kept if it exists.
Listed == [i \in 1..Cardinality(scheds) |-> CHOOSE s \in scheds : Cardinality({t \in scheds : t < s}) = i - 1]
Browse(s) ==
    LET i == IF s.idx < Len(Listed) THEN s.idx ELSE 0
    IN  [s EXCEPT !.state = "SCHED_BROWSE", !.invalid = 0, !.list = Listed, !.idx = i]
Heard(s) == IF s.list = <<>> THEN {} ELSE {[kind |-> "delete", id |-> s.list[s.idx + 1]]}
ReadSchedule(s) == Ask(s) /\ wish' = Heard(s) /\ UNCHANGED keyed /\ KeepAll

Takes(branch) == branch \in caller.branches
MainChoice ==
    /\ Request("MAIN")
    /\ \/ MainMenu(sess)
       \/ Takes("words") /\ Prompt([sess EXCEPT !.state = "NLU_LISTEN", !.retries = 0])
       \/ Takes("orders") /\ \E ctx \in {"on", "off"} : RelayMenu(sess, ctx)
       \/ Takes("schedules") /\ ReadSchedule(Browse([sess EXCEPT !.idx = 0]))
       \/ Takes("status") /\ RunStatus
       \/ Takes("desk") /\ Prompt([sess EXCEPT !.state = "SVC_MENU", !.tree = Node("service"), !.offered = 1..5])
       \/ Invalid

RelaySelect ==
    /\ Request("RELAY_SELECT")
    /\ \/ MainMenu(sess)
       \/ \E r \in enabled :
            IF sess.ctx # "sched" THEN RunImmediate(r, sess.ctx)
            ELSE /\ Ask([sess EXCEPT !.entry.relay = r, !.state = "SCHED_TYPE"])
                 /\ keyed' = [NoSchedule EXCEPT !.relay = r] /\ UNCHANGED wish /\ KeepAll
       \/ Invalid

-----------------------------------------------------------------------------
(* Orders in words *)

\* What the interpreter may make of an order: channels and schedules of the
\* customer only.
Orders == {Switch(r, "on") : r \in enabled}
          \cup {[kind |-> "timed", date |-> date + d] : d \in Aheads}
          \cup {[kind |-> "delete", id |-> i] : i \in scheds}

\* nluDeliver.
Deliver(s) ==
    \/ MainMenu(s)
    \/ IF s.retries < Replays THEN Prompt([s EXCEPT !.retries = @ + 1, !.state = "NLU_LISTEN"]) ELSE MainMenu(s)
    \/ \E o \in Orders, p \in Orders :
        /\ Ask([s EXCEPT !.state = "NLU_CONFIRM", !.order = {o, p}, !.readOn = date])
        /\ wish' = {o, p} /\ UNCHANGED keyed /\ KeepAll

Listen ==
    /\ Request("NLU_LISTEN")
    /\ \/ IF sess.retries < Replays THEN Prompt([sess EXCEPT !.retries = @ + 1]) ELSE MainMenu(sess)
       \/ Deliver(sess)
       \/ Prompt([sess EXCEPT !.state = "NLU_WAIT", !.waiting = TRUE])
Wait ==
    /\ Request("NLU_WAIT")
    /\ LET s == [sess EXCEPT !.waiting = FALSE]
       IN  IF sess.waiting THEN Deliver(s) ELSE MainMenu(s)

\* A day that was read as today or tomorrow is counted from the day of the confirmation.
Resolved(o) == IF o.kind = "timed" THEN [o EXCEPT !.date = @ - sess.readOn + date] ELSE o
Deletes(effects) == {e.id : e \in {e \in effects : e.kind = "delete"}}

Creates(effects) == Cardinality({e \in effects : e.kind = "timed"})

\* runNluActions: one after the other, in an order of the interpreter; one
\* that fails ends it.
RunNluActions(effects) ==
    /\ CarryOut({Resolved(o) : o \in effects}, IF effects = sess.order THEN "command" ELSE "failed")
    /\ scheds' = (scheds \ Deletes(effects)) \cup (nextId..(nextId + Creates(effects) - 1))
    /\ nextId' = nextId + Creates(effects)
    /\ blemishes' = IF effects \in {{}, sess.order} THEN blemishes ELSE blemishes \cup {"half_done"}
    /\ UNCHANGED <<enabled, units, date, upsets, wish, keyed>>
NluConfirm ==
    /\ Request("NLU_CONFIRM")
    /\ \/ MainMenu(sess)
       \/ \E effects \in SUBSET sess.order : Deletes(effects) \subseteq scheds /\ RunNluActions(effects)
       \/ Invalid

-----------------------------------------------------------------------------
(* Schedules *)

SchedBrowse ==
    /\ Request("SCHED_BROWSE")
    /\ LET n == Len(sess.list)
       IN  \/ MainMenu(sess)
           \/ RelayMenu(sess, "sched")
           \/ n > 0 /\ ReadSchedule(Browse([sess EXCEPT !.idx = (@ + 1) % n]))
           \/ n > 0 /\ sess.idx > 0 /\ ReadSchedule(Browse([sess EXCEPT !.idx = @ - 1]))
           \/ n > 0 /\ Prompt([sess EXCEPT !.state = "SCHED_DEL_CONFIRM", !.del = sess.list[sess.idx + 1]])
           \/ Invalid

DeleteTarget == sess.del
DelConfirm ==
    /\ Request("SCHED_DEL_CONFIRM")
    /\ \/ ReadSchedule(Browse(sess))
       \/ /\ DeleteTarget \in scheds       \* otherwise the request fails and nothing changes
          /\ CarryOut({[kind |-> "delete", id |-> DeleteTarget]}, "deleted")
          /\ scheds' = scheds \ {DeleteTarget}
          /\ UNCHANGED <<enabled, units, nextId, date, upsets, wish, keyed, blemishes>>
       \/ Invalid

\* An answer of the add flow is kept, and so are those of earlier attempts.
Enter(field, value, state) ==
    /\ Ask([sess EXCEPT !.entry[field] = value, !.state = state])
    /\ keyed' = [keyed EXCEPT ![field] = value]
    /\ UNCHANGED wish /\ KeepAll

SchedType ==
    /\ Request("SCHED_TYPE")
    /\ \/ \E t \in {"once", "daily", "weekly"} : Enter("type", t, "SCHED_SIDES")
       \/ Invalid

\* The first step for the days and times of this type and these sides.
FirstStep(type, sides) ==
    CASE type = "once" -> "SCHED_ONCE_DAY"
      [] type = "weekly" -> IF sides = "off" THEN "SCHED_OFF_DAY" ELSE "SCHED_ON_DAY"
      [] OTHER -> IF sides = "off" THEN "SCHED_OFF_TIME" ELSE "SCHED_ON_TIME"
SchedSides ==
    /\ Request("SCHED_SIDES")
    /\ \/ \E x \in {"both", "on", "off"} : Enter("sides", x, FirstStep(sess.entry.type, x))
       \/ Invalid
OnceDay ==
    /\ Request("SCHED_ONCE_DAY")
    /\ \/ \E d \in Aheads : Enter("day", d, IF sess.entry.sides = "off" THEN "SCHED_OFF_TIME" ELSE "SCHED_ON_TIME")
       \/ Invalid
OnDay ==
    /\ Request("SCHED_ON_DAY")
    /\ (\E d \in Weekdays : Enter("onDay", d, "SCHED_ON_TIME")) \/ Invalid
OffDay ==
    /\ Request("SCHED_OFF_DAY")
    /\ (\E d \in Weekdays : Enter("offDay", d, "SCHED_OFF_TIME")) \/ Invalid

\* schedFieldsFor: what was not chosen is None, whatever was keyed before.
\* Wrong on purpose: every answer of the call counts.
FieldsAsKept(e) == [e EXCEPT !.day = IF e.type = "once" THEN date + @ ELSE None]
SchedFieldsFor(e) ==
    LET On(v)  == IF e.sides # "off" THEN v ELSE None
        Off(v) == IF e.sides # "on" THEN v ELSE None
        weekly == e.type = "weekly"
    IN  [e EXCEPT !.day = IF e.type = "once" THEN date + @ ELSE None,
                  !.onDay = IF weekly THEN On(@) ELSE None, !.onTime = On(@),
                  !.offDay = IF weekly THEN Off(@) ELSE None, !.offTime = Off(@)]

Restart(s) ==
    /\ Ask(At(s, FirstStep(s.entry.type, s.entry.sides)))
    /\ keyed' = [NoSchedule EXCEPT !.relay = keyed.relay, !.type = keyed.type, !.sides = keyed.sides]
    /\ UNCHANGED wish /\ KeepAll

\* The last answer: the schedule is put together and read back, or refused.
Finalize(field, value) ==
    LET e == [sess.entry EXCEPT ![field] = value]
        k == [keyed EXCEPT ![field] = value]
    IN  \/ /\ Ask([sess EXCEPT !.entry = e, !.fields = SchedFieldsFor(e), !.state = "SCHED_CONFIRM"])
           /\ keyed' = k
           /\ wish' = {[kind |-> "create", fields |-> [k EXCEPT !.day = IF k.type = "once" THEN date + @ ELSE None]]}
           /\ KeepAll
        \/ Restart([sess EXCEPT !.entry = e])
OnTime ==
    /\ Request("SCHED_ON_TIME")
    /\ \/ \E t \in Times :
            IF sess.entry.sides = "on" THEN Finalize("onTime", t)
            ELSE Enter("onTime", t, IF sess.entry.type = "weekly" THEN "SCHED_OFF_DAY" ELSE "SCHED_OFF_TIME")
       \/ Invalid
OffTime ==
    /\ Request("SCHED_OFF_TIME")
    /\ (\E t \in Times : Finalize("offTime", t)) \/ Invalid

SchedConfirm ==
    /\ Request("SCHED_CONFIRM")
    /\ \/ MainMenu(sess)
       \/ Restart(sess)                 \* createSchedule refuses by now
       \/ /\ CarryOut({[kind |-> "create", fields |-> sess.fields]}, "saved")
          /\ scheds' = scheds \cup {nextId} /\ nextId' = nextId + 1
          /\ UNCHANGED <<enabled, units, date, upsets, wish, keyed, blemishes>>
       \/ Invalid

-----------------------------------------------------------------------------
(* The service desk *)

AgentState(w) == IF w.phone THEN "AGENT_TRANSFER" ELSE "AGENT_RECORD"

\* svcDeliver.
SvcDeliver(r) ==
    IF r.transfer THEN Prompt(RecordMessage(sess, AgentState(caller)))
    ELSE IF r.free THEN Prompt([sess EXCEPT !.state = "SVC_VOICE", !.tree = r.state, !.retries = 0])
    ELSE IF r.done \/ r.options = {} THEN MainMenu(sess)
    ELSE Prompt([sess EXCEPT !.state = "SVC_MENU", !.tree = r.state, !.offered = r.options])
SvcMenu ==
    /\ Request("SVC_MENU")
    /\ \/ MainMenu(sess)
       \/ \E d \in 0..10 : \E r \in Answer(sess.tree, d, desk) : SvcDeliver(r)
SvcVoice ==
    /\ Request("SVC_VOICE")
    /\ \/ IF sess.retries < Replays THEN Prompt([sess EXCEPT !.retries = @ + 1]) ELSE MainMenu(sess)
       \/ \E long \in BOOLEAN : \E r \in Spoken(sess.tree, long, desk) : SvcDeliver(r)

\* The call is back from the agent.
AgentBack == Request("AGENT_TRANSFER") /\ Prompt([sess EXCEPT !.state = "AGENT_RETURN", !.invalid = 0])
AgentReturn ==
    /\ Request("AGENT_RETURN")
    /\ \/ Prompt(RecordMessage(sess, "AGENT_RECORD"))
       \/ HangUpWith("agent")
       \/ IF sess.invalid + 1 >= Tries THEN Prompt(RecordMessage(sess, "AGENT_RECORD"))
          ELSE Prompt([sess EXCEPT !.invalid = @ + 1])

-----------------------------------------------------------------------------
(* The end of a request that carried something out; the end of the call *)

Finish ==
    /\ step \in {"command", "failed", "deleted", "saved"} /\ step' = None
    /\ log' = CASE step = "command" -> Outcome("command") [] step = "failed" -> log [] OTHER -> Outcome("schedule")
    /\ LET s == IF step = "deleted" THEN Browse(sess) ELSE AtMain(sess)
       IN  /\ sess' = IF sess = None THEN None ELSE s
           /\ wish' = IF sess # None /\ step = "deleted" THEN Heard(s) ELSE {}
    /\ keyed' = NoSchedule /\ doing' = {}
    /\ UNCHANGED <<caller, line, account, count, blemishes>>

HangupOutcome ==
    IF sess.state \in {"SALES_RECORD", "AGENT_RECORD"} THEN Outcome("voicemail")
    ELSE IF sess.state \in {"AGENT_TRANSFER", "AGENT_RETURN"} THEN Outcome("agent")
    ELSE Outcome(IF sess.info THEN "info" ELSE "abandoned")
Hangup ==
    /\ line /\ line' = FALSE
    /\ sess' = None /\ wish' = {} /\ keyed' = NoSchedule
    /\ log' = IF sess = None THEN log ELSE HangupOutcome
    /\ blemishes' = IF step = None THEN blemishes ELSE blemishes \cup {"cut_short"}
    /\ UNCHANGED <<caller, step, account, doing, count>>

\* The process is replaced, or the session has been idle for too long.
Lose ==
    /\ upsets < MaxUpsets /\ upsets' = upsets + 1
    /\ (sess # None \/ step # None) /\ sess' = None /\ step' = None
    /\ blemishes' = blemishes \cup {"lost"}
    /\ wish' = {} /\ keyed' = NoSchedule /\ doing' = {}
    /\ UNCHANGED <<caller, line, log, enabled, units, scheds, nextId, date, count>>

Web ==
    /\ line /\ upsets < MaxUpsets /\ upsets' = upsets + 1
    /\ \/ \E r \in Relays : enabled' = (IF r \in enabled THEN enabled \ {r} ELSE enabled \cup {r}) /\ UNCHANGED <<units, scheds, nextId, date>>
       \/ \E n \in {units - 1, units + 1} \ {-1} : units' = n /\ UNCHANGED <<enabled, scheds, nextId, date>>
       \/ \E i \in scheds : scheds' = scheds \ {i} /\ UNCHANGED <<enabled, units, nextId, date>>
       \/ scheds' = scheds \cup {nextId} /\ nextId' = nextId + 1 /\ UNCHANGED <<enabled, units, date>>
       \/ date' = date + 1 /\ UNCHANGED <<enabled, units, scheds, nextId>>
    /\ UNCHANGED <<caller, line, sess, step, log, history>>

Init ==
    /\ caller \in Callers
    /\ line = TRUE /\ sess = None /\ step = None /\ log = None
    /\ enabled = caller.codes /\ units = caller.devices /\ scheds = 1..FirstScheds /\ nextId = FirstScheds + 1 /\ date = 0
    /\ upsets = 0
    /\ wish = {} /\ keyed = NoSchedule /\ doing = {} /\ count = 0 /\ blemishes = {}

Sales    == SalesMenu \/ SalesInfo \/ Recorded \/ RecordedDone
InWords  == Listen \/ Wait \/ NluConfirm
AddFlow  == SchedType \/ SchedSides \/ OnceDay \/ OnDay \/ OffDay \/ OnTime \/ OffTime \/ SchedConfirm
Desk     == SvcMenu \/ SvcVoice \/ AgentBack \/ AgentReturn

Next ==
    \/ Arrive
    \/ AuthPin
    \/ Sales
    \/ MainChoice
    \/ RelaySelect
    \/ InWords
    \/ SchedBrowse
    \/ DelConfirm
    \/ AddFlow
    \/ Desk
    \/ Finish
    \/ Hangup
    \/ Lose
    \/ Web

Spec == Init /\ [][Next]_vars

-----------------------------------------------------------------------------
(* Properties *)

States == {"MAIN", "AUTH_PIN", "SALES_MENU", "SALES_INFO", "SALES_RECORD", "AGENT_RECORD",
           "AGENT_TRANSFER", "AGENT_RETURN", "RELAY_SELECT", "NLU_LISTEN", "NLU_WAIT", "NLU_CONFIRM",
           "SCHED_BROWSE", "SCHED_DEL_CONFIRM", "SCHED_TYPE", "SCHED_SIDES", "SCHED_ONCE_DAY",
           "SCHED_ON_DAY", "SCHED_ON_TIME", "SCHED_OFF_DAY", "SCHED_OFF_TIME", "SCHED_CONFIRM",
           "SVC_MENU", "SVC_VOICE"}

\* The session is in a state that the handler knows, with less than Tries
\* wrong answers behind it; the row of the call is one that the table allows.
TypeOK ==
    /\ sess # None => sess.state \in States /\ sess.invalid \in 0..(Tries - 1) /\ sess.retries \in 0..Replays
    /\ step \in {None, "voicemail", "command", "failed", "deleted", "saved"}
    /\ log # None => log.outcome \in {None, "auth_fail", "status", "voicemail", "abandoned", "agent",
                                     "info", "command", "schedule"}
    /\ log # None => (log.ended <=> log.outcome # None)
    /\ enabled \subseteq Relays /\ units \in Nat /\ scheds \subseteq 1..(nextId - 1)
    /\ sess # None /\ sess.state = "SCHED_BROWSE" /\ sess.list # <<>> => sess.idx \in 0..(Len(sess.list) - 1)

\* What the call carries out is what the caller was last read: the channel and
\* the direction, the schedule of the list that was being read although the
\* list has changed since, the schedule put together from the answers of this
\* attempt only.  The day of a timed order is the exception, when midnight
\* lies between the reading and the confirmation (router.js:343-365, 883-889).
AsRead == \A e \in doing' \ doing : e \in wish' \/ (e.kind = "timed" /\ date # sess.readOn)
CarriedOutAsRead == [][AsRead]_vars

\* A call that carried something out is not written down as broken off, unless
\* the caller hung up during the request, or an order was obeyed in part only
\* (SPEC.md 4.1.7: "Hangup/timeout without outcome -> abandoned").
AbandonedIsHonest ==
    log # None /\ log.outcome = "abandoned" /\ count > 0 => blemishes \cap {"cut_short", "half_done"} # {}

\* When the session is gone the row of the call is closed, unless the process
\* was replaced or the session expired, the customer had no channel to report
\* on, or the closing is what the request in progress does next.
LogIsClosed ==
    sess = None /\ log # None /\ ~log.ended => step # None \/ blemishes \cap {"lost", "no_relays"} # {}

\* Every choice that the service desk reads out is one that the next request
\* understands and that leads somewhere, whatever the website has changed in
\* between; a place of a list that is gone by then is answered by the list as it
\* is now or by the main menu, and never by a ticket about something else.
OfferedIsUnderstood ==
    sess # None /\ sess.state = "SVC_MENU" =>
        \A d \in sess.offered :
            LET replies == Answer(sess.tree, d, desk)
            IN  IF Gone(sess.tree, d, desk) THEN replies \subseteq AsItIsNow(sess.tree, desk)
                ELSE (\A r \in replies : ~r.unclear) /\ replies # {MenuStart}
=============================================================================
