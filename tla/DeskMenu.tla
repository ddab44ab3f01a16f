------------------------------ MODULE DeskMenu ------------------------------
(***************************************************************************)
(* The whole tree of the service desk as the WhatsApp chat walks it        *)
(* (services/serviceMenu.js): the main menu, sales, information, channels, *)
(* quick timings and plans around the service branch of ServiceMenu, and   *)
(* the router that jumps in the tree when a customer writes words where a  *)
(* number was asked for (services/menuRouter.js).                          *)
(*                                                                         *)
(* An account has, besides what ServiceMenu asks of it: user, whether the  *)
(* number is a customer's; named, whether the customer has a name; plans,  *)
(* how many there are.                                                     *)
(***************************************************************************)
EXTENDS ServiceMenu

Ordered(kind, on, action) == [Finished EXCEPT !.order = [kind |-> kind, on |-> on, action |-> action]]
\* There is nothing to choose from: back at the main menu, without its choices.
Dismissed == Offer(Main, {Back})

MainOptions(w) == IF w.user THEN 1..7 ELSE 1..3
UserNodes ==
    {"service", "no_device", "free_order", "fault_device", "fault_online_helped", "fault_steps",
     "fault_offer_ticket", "fault_ticket", "sched_problem", "sched_relay", "order_status",
     "order_status_helped", "switch_relay", "switch_action", "status", "quick_relay", "quick_action",
     "quick_when", "quick_time", "plans", "plan_action", "week"}
RelayLists == {"sched_relay", "switch_relay", "quick_relay"}
Asking == {"order_name", "order_city", "service_unknown", "free_order"}

\* What a reply offers in the chat: a branch that has ended offers the way back.
Choices(r, w) ==
    IF r.done THEN {Back} ELSE IF r.state = Main /\ r.options = {} THEN MainOptions(w) ELSE r.options

-----------------------------------------------------------------------------
(* What is shown at a node *)

\* The channel or the plan may have gone meanwhile.
IfStillThere(s, options) == {Offer(s, options), MenuStart}

DeskShown(s, w) ==
    IF s.node \in UserNodes /\ ~w.user THEN {MenuStart} ELSE
    CASE s.node = "order_channels" -> {Offer(s, 1..4)}
      [] s.node = "order_time" -> {Offer(s, 1..3)}
      [] s.node = "info" -> {Offer(s, 1..5)}
      [] s.node = "info_helped" -> {Offer(s, Helped)}
      [] s.node \in Asking -> {Words(s)}
      [] s.node \in {"switch_relay", "quick_relay"} -> {IF w.codes = {} THEN Dismissed ELSE Offer(s, w.codes)}
      [] s.node \in {"switch_action", "quick_action", "plan_action"} -> IfStillThere(s, {1, 2})
      [] s.node = "quick_when" -> IfStillThere(s, 1..4)
      [] s.node = "quick_time" -> {Words(s), MenuStart}
      [] s.node = "status" -> {Ordered("status", 0, "none")}
      [] s.node = "plans" -> {IF w.plans = 0 THEN Dismissed ELSE Offer(s, Numbered(w.plans))}
      [] s.node = "week" -> {Finished}
      [] OTHER -> Shown(s, w)

DeskUnclear(s, w) == {[r EXCEPT !.unclear = TRUE] : r \in DeskShown(s, w)}

-----------------------------------------------------------------------------
(* What a number leads to *)

MainChoices(s, d, w) ==
    LET nodes == <<"order_channels", IF w.user THEN "service" ELSE "service_unknown", "info",
                   "switch_relay", "status", "plans", "free_order">>
    IN  IF d \in MainOptions(w) THEN DeskShown(GoTo(s, nodes[d]), w) ELSE DeskUnclear(s, w)

\* A channel of the list, by its code; 9 may be one.
Picked(s, d, next, w) ==
    IF d = Back /\ Back \notin w.codes THEN {MenuStart}
    ELSE IF w.codes = {} THEN DeskShown(s, w)
    ELSE IF d \in w.codes THEN DeskShown([GoTo(s, next) EXCEPT !.about.on = d], w)
    ELSE DeskUnclear(s, w)

Direction(d) == IF d = 1 THEN "on" ELSE "off"
\* The branch is about a channel or plan that is still the customer's, or it starts anew.
OfOwn(s, replies) == {MenuStart} \cup replies

OrderTime(s, w) == DeskShown(GoTo(s, IF w.user /\ w.named THEN "order_city" ELSE "order_name"), w)

\* After the information the assistant, while the budget lasts, or a ticket.
InfoUnhelpful(s) == {Offer([GoTo(s, "assistant_offer") EXCEPT !.about.info = TRUE], Helped), Ticketed}

DeskChoice(s, d, w) ==
    IF (s.node \in UserNodes /\ ~w.user) \/ (d = Back /\ s.node \notin RelayLists) THEN {MenuStart} ELSE
    CASE s.node = "main" -> MainChoices(s, d, w)
      [] s.node = "order_channels" -> IF d \in 1..4 THEN DeskShown(GoTo(s, "order_time"), w) ELSE DeskUnclear(s, w)
      [] s.node = "order_time" -> IF d \in 1..3 THEN OrderTime(s, w) ELSE DeskUnclear(s, w)
      [] s.node \in Asking -> {Words(s)}           \* a number is no answer
      [] s.node = "info" -> IF d \in 1..5 THEN {Offer(GoTo(s, "info_helped"), Helped)} ELSE DeskUnclear(s, w)
      [] s.node = "info_helped" -> IF d = 1 THEN {Finished} ELSE IF d = 2 THEN InfoUnhelpful(s) ELSE DeskUnclear(s, w)
      [] s.node = "assistant_offer" /\ s.about.info /\ d = 2 -> {Ticketed}
      [] s.node = "switch_relay" -> Picked(s, d, "switch_action", w)
      [] s.node = "switch_action" ->
            OfOwn(s, IF d \in {1, 2} THEN {Ordered("immediate", s.about.on, Direction(d))} ELSE DeskUnclear(s, w))
      [] s.node = "quick_relay" -> Picked(s, d, "quick_action", w)
      [] s.node = "quick_action" ->
            OfOwn(s, IF d \in {1, 2} THEN DeskShown([GoTo(s, "quick_when") EXCEPT !.about.action = Direction(d)], w)
                     ELSE DeskUnclear(s, w))
      [] s.node = "quick_when" ->
            OfOwn(s, CASE d \in 1..3 -> {Ordered("timed", s.about.on, s.about.action)}
                       [] d = 4 -> DeskShown(GoTo(s, "quick_time"), w)
                       [] OTHER -> DeskUnclear(s, w))
      [] s.node = "quick_time" -> OfOwn(s, {Ordered("timed", s.about.on, s.about.action)})   \* an hour
      [] s.node = "plans" ->
            IF w.plans = 0 THEN {Dismissed}
            ELSE IF d \in Numbered(w.plans) THEN DeskShown([GoTo(s, "plan_action") EXCEPT !.about.on = d], w)
            ELSE DeskUnclear(s, w)
      [] s.node = "plan_action" ->
            OfOwn(s, IF d \in {1, 2} THEN {Ordered("plan_toggle", s.about.on, Direction(3 - d))} ELSE DeskUnclear(s, w))
      [] s.node \in FreeNodes -> {Words(s)}        \* two figures are too short
      [] OTHER -> Answer(s, d, w)

\* A number of a list, or of the main menu, that the account has no longer.
Vanished(s, d, w) ==
    \/ Gone(s, d, w)
    \/ s.node = "main" /\ d \notin MainOptions(w)
    \/ s.node \in {"switch_relay", "quick_relay"} /\ d \notin w.codes
    \/ s.node = "plans" /\ d \notin Numbered(w.plans)
DeskNow(s, w) == {MenuStart} \cup DeskShown(s, w) \cup DeskUnclear(s, w)

-----------------------------------------------------------------------------
(* What words lead to *)

DeskFree == FreeNodes \cup Asking \cup {"quick_time"}

DeskSpoken(s, w) ==
    IF s.node \in UserNodes /\ ~w.user THEN {MenuStart} ELSE
    CASE s.node = "order_name" -> DeskShown(GoTo(s, "order_city"), w)
      [] s.node \in {"order_city", "service_unknown"} -> {Ticketed}
      [] s.node = "free_order" -> {Ordered("order_text", 0, "none")}
      [] s.node = "quick_time" -> OfOwn(s, {Words(s)})
      [] OTHER -> Spoken(s, TRUE, w)

\* movesFor, applyMoves: where the router may jump to.  What it says of
\* channels and plans is looked up again by the tree.
Jump(n, w) == DeskShown(Node(n), w)
CustomerJumps(w) ==
    (UNION {Jump(n, w) : n \in {"fault_device", "sched_problem", "order_status", "service_other", "week",
                                "status", "switch_relay", "quick_relay", "plans"}})
    \cup (UNION {LET s == [Node(n) EXCEPT !.about.on = r]
                 IN  DeskShown(s, w) \cup (UNION {DeskChoice(s, d, w) : d \in {1, 2}})
                 : n \in {"switch_action", "quick_action"}, r \in w.codes})
    \cup (UNION {LET s == [Node("plan_action") EXCEPT !.about.on = p]
                 IN  DeskShown(s, w) \cup (UNION {DeskChoice(s, d, w) : d \in {1, 2}})
                 : p \in Numbered(w.plans)})
    \cup (UNION {LET s == [Node("quick_when") EXCEPT !.about.on = r, !.about.action = a]
                 IN  DeskShown(s, w) \cup (UNION {DeskChoice(s, d, w) : d \in 1..3}) \cup DeskSpoken(GoTo(s, "quick_time"), w)
                 : r \in w.codes, a \in {"on", "off"}})
Jumps(w) ==
    {MenuStart, Offer(Node("info_helped"), Helped)}
    \cup (UNION {Jump(n, w) : n \in {"order_channels", "feature", "agent"}})
    \cup IF w.user THEN CustomerJumps(w) ELSE Jump("service_unknown", w)

\* Nothing sensible from the router: the menu is read again.
Routed(s, w) == DeskUnclear(s, w) \cup Jumps(w)
=============================================================================
