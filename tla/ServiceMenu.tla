----------------------------- MODULE ServiceMenu -----------------------------
(***************************************************************************)
(* The service desk as a tree of numbered menus (services/serviceMenu.js): *)
(* the part of a registered customer that the telephone reaches; DeskMenu  *)
(* has the rest.  A state of the tree is its node, the step of the fault   *)
(* check, and what the choices so far are about.  Wording is left out;     *)
(* what the tree looks up in the database is a choice among the answers it *)
(* may get.                                                                *)
(***************************************************************************)
EXTENDS Naturals, FiniteSets

\* What an account has: devices, a number of them; codes, the telephone codes
\* of its channels; rollout, whether the caller's number is one for which a
\* person is rung; phone, whether there is an agent's number to ring.

Back == 9           \* MENU_MAIN

\* The channel or plan and the direction chosen, and whether the assistant was
\* offered in the information branch.
Nothing  == [on |-> 0, action |-> "none", info |-> FALSE]
NoOrder  == [kind |-> "none", on |-> 0, action |-> "none"]
Node(n)  == [node |-> n, step |-> 0, about |-> Nothing]
Main     == Node("main")
GoTo(s, n) == [s EXCEPT !.node = n]

\* A reply: choices, a question for words, or the end of the branch.
Offer(s, opts) ==
    [state |-> s, options |-> opts, free |-> FALSE, done |-> FALSE,
     transfer |-> FALSE, ticket |-> FALSE, unclear |-> FALSE, order |-> NoOrder]
Words(s)    == [Offer(s, {}) EXCEPT !.free = TRUE]
Finished    == [Offer(Main, {}) EXCEPT !.done = TRUE]
Ticketed    == [Finished EXCEPT !.ticket = TRUE]
MenuStart   == Offer(Main, {})
Transferred == [Finished EXCEPT !.transfer = TRUE]

\* 9 is the way back and 0 is a person: lists skip them.
Numbered(n) == {IF i < 9 THEN i ELSE i + 1 : i \in 1..n}

Helped == {1, 2}
Steps  == 3
FreeNodes == {"service_other", "feature", "assistant_ask"}

-----------------------------------------------------------------------------
(* What is shown at a node *)

FaultSteps(s) == {Offer(GoTo(s, "fault_steps"), {0, 1}), MenuStart}
\* The device answers, or the customer is led through the steps.
FaultCheck(s) ==
    {Offer(GoTo(s, "fault_online_helped"), Helped)} \cup FaultSteps([s EXCEPT !.step = 0])
FaultDevice(s, devices) ==
    CASE devices = 0 -> {Offer(Node("no_device"), {0})}
      [] devices = 1 -> FaultCheck(s)
      [] OTHER -> {Offer(s, Numbered(devices))}

\* The device may have been taken from the account meanwhile.
FaultTicket == {Ticketed, MenuStart}

\* On the telephone of a caller in the rollout list a person is rung.
Agent(rollout) == {IF rollout THEN Transferred ELSE Ticketed}

Shown(s, w) ==
    CASE s.node = "service" -> {Offer(s, 1..5)}
      [] s.node = "no_device" -> {Offer(s, {0})}
      [] s.node = "fault_device" -> FaultDevice(s, w.devices)
      [] s.node = "fault_online_helped" -> {Offer(s, Helped)}
      [] s.node = "fault_steps" -> FaultSteps(s)
      [] s.node = "fault_offer_ticket" -> {Offer(s, {1}), MenuStart}
      [] s.node = "fault_ticket" -> FaultTicket
      [] s.node = "sched_problem" -> {Offer(s, 1..3)}
      [] s.node = "sched_relay" -> {IF w.codes = {} THEN Words(GoTo(s, "service_other")) ELSE Offer(s, w.codes)}
      [] s.node = "order_status" -> {Words(GoTo(s, "service_other")), Offer(GoTo(s, "order_status_helped"), Helped)}
      [] s.node = "order_status_helped" -> {Offer(s, Helped)}
      [] s.node \in {"assistant_offer", "assistant_helped"} -> {Offer(s, Helped)}
      [] s.node \in FreeNodes -> {Words(s)}
      [] s.node = "agent" -> Agent(w.rollout)
      [] OTHER -> {MenuStart}

-----------------------------------------------------------------------------
(* What an answer leads to *)

NotUnderstood(s, w) == {[r EXCEPT !.unclear = TRUE] : r \in Shown(s, w)}

\* The assistant is offered while the budget lasts.
Assist(s, w) == Shown(GoTo(s, "assistant_offer"), w) \cup Shown(GoTo(s, "service_other"), w)

\* The next step of the fault check, when the device still does not answer.
NextStep(s, w) ==
    {Finished} \cup IF s.step + 1 < Steps THEN FaultSteps([s EXCEPT !.step = @ + 1])
                    ELSE Shown(GoTo(s, "fault_offer_ticket"), w)

ServiceChoice(s, d, w) ==
    CASE d = 1 -> Shown(GoTo(s, "fault_device"), w)
      [] d = 2 -> Shown(GoTo(s, "sched_problem"), w)
      [] d = 3 -> Shown(GoTo(s, "order_status"), w)
      [] d = 4 -> Assist(s, w)
      [] d = 5 -> Shown(GoTo(s, "feature"), w)
      [] OTHER -> NotUnderstood(s, w)

NoDeviceChoice(s, d, w) == IF d = 0 THEN Agent(w.rollout) ELSE NotUnderstood(s, w)

\* Wrong on purpose: the channel that was read out is taken as it was.
RelayAsRead(s, d, w) == IF d = Back THEN {MenuStart} ELSE {Ticketed}
\* In a list of channels 9 may be a channel.
RelayChoice(s, d, w) ==
    IF d = Back /\ Back \notin w.codes THEN {MenuStart}
    ELSE IF w.codes = {} THEN Shown(s, w)
    ELSE IF d \in w.codes THEN {Ticketed} ELSE NotUnderstood(s, w)

Answer(s, d, w) ==
    IF d = Back /\ s.node # "sched_relay" THEN {MenuStart} ELSE
    CASE s.node = "service" -> ServiceChoice(s, d, w)
      [] s.node = "no_device" -> NoDeviceChoice(s, d, w)
      [] s.node = "fault_device" ->
            IF w.devices < 2 THEN FaultDevice(s, w.devices)
            ELSE IF d \in Numbered(w.devices) THEN FaultCheck(s) ELSE NotUnderstood(s, w)
      [] s.node = "fault_online_helped" ->
            IF d = 1 THEN {Finished} ELSE IF d = 2 THEN Assist(s, w) ELSE NotUnderstood(s, w)
      [] s.node = "fault_steps" ->
            {MenuStart} \cup IF d = 0 THEN FaultTicket ELSE IF d = 1 THEN NextStep(s, w) ELSE NotUnderstood(s, w)
      [] s.node = "fault_offer_ticket" ->
            {MenuStart} \cup IF d = 1 THEN FaultTicket ELSE NotUnderstood(s, w)
      [] s.node = "sched_problem" -> IF d \in 1..3 THEN Shown(GoTo(s, "sched_relay"), w) ELSE NotUnderstood(s, w)
      [] s.node = "sched_relay" -> RelayChoice(s, d, w)
      [] s.node = "order_status_helped" ->
            IF d = 1 THEN {Finished} ELSE IF d = 2 THEN {Words(GoTo(s, "service_other"))} ELSE NotUnderstood(s, w)
      [] s.node = "assistant_offer" ->
            IF d = 1 THEN {Words(GoTo(s, "assistant_ask"))} ELSE IF d = 2 THEN {Words(GoTo(s, "service_other"))}
            ELSE NotUnderstood(s, w)
      [] s.node = "assistant_helped" ->
            IF d = 1 THEN {Finished} ELSE IF d = 2 THEN {Ticketed} ELSE NotUnderstood(s, w)
      [] OTHER -> {MenuStart}

\* A number of a list that the account has no longer.
Gone(s, d, w) ==
    \/ s.node = "sched_relay" /\ d \notin w.codes
    \/ s.node = "fault_device" /\ d \notin Numbered(w.devices)
AsItIsNow(s, w) == {MenuStart} \cup Shown(s, w) \cup NotUnderstood(s, w)

\* Words of a usable length, or too short ones.
Spoken(s, long, w) ==
    IF ~long THEN {Words(s)}
    ELSE {Ticketed} \cup IF s.node = "assistant_ask" THEN {Offer(GoTo(s, "assistant_helped"), Helped)} ELSE {}
=============================================================================
