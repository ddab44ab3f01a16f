-------------------------------- MODULE Chat --------------------------------
(***************************************************************************)
(* The WhatsApp conversation of one number (whatsapp/bot.js with            *)
(* whatsapp/session.js, queue.js and parse.js): the row of                  *)
(* whatsapp_sessions that outlives the process, the confirmation of what    *)
(* is about to be carried out, the numbered menu, the secretary of a        *)
(* customer, and the gate in front of the office for a number of an admin.  *)
(*                                                                          *)
(* The messages of a number are handled one at a time, in the order in      *)
(* which they arrive (serialByKey), and a message that is delivered twice   *)
(* is claimed once (recordInbound): one that is refused, dropped or lost    *)
(* changes nothing.  A message is handled in one step up to a wait that a   *)
(* restart of the process may fall into: before a read-back is sent, before *)
(* what was confirmed is carried out, and before what follows it.           *)
(*                                                                          *)
(* Time passes in units of just over ten minutes.  What the interpreter and *)
(* the assistants make of words is chosen freely.  One e-mailed code per    *)
(* minute and the code itself are left out.                                 *)
(***************************************************************************)
EXTENDS DeskMenu, Integers

CONSTANTS
    Numbers,       \* who may write: what DeskMenu asks of an account, and admin, whether it is a
                   \* number of an admin; menu and secretary, whether the number is listed for the
                   \* menu and for the secretary; passkey, whether the admin has one; topics, what
                   \* is written about
    Tries,         \* so many wrong codes end the attempt (3)
    Relays,        \* the codes that channels may have
    MaxAge,        \* bound: time beyond this makes no difference (3)
    MaxLinks,      \* bound: one-time links
    MaxTroubles,   \* bound: restarts, and changes of the account
    None

VARIABLES
    number,        \* who writes
    known,         \* the number is that of a customer in good standing
    has,           \* the codes of the enabled channels, how many devices and plans
    row,           \* the row of the session, as stored
    todo,          \* what the message being handled has still to do, None
    link,          \* a link whose page was opened and whose passkey is proved, 0
    links, troubles,   \* bounds
    offered,       \* history: the choices of the newest menu
    newest,        \* history: what was read back last, None when it was answered or replaced
    proof,         \* history: how long since the admin proved itself or wrote in admin mode, None
    did            \* history: what the last step carried out

vars == <<number, known, has, row, todo, link, links, troubles, offered, newest, proof, did>>

who == [number EXCEPT !.user = known, !.codes = has.codes, !.devices = has.devices, !.plans = has.plans]

-----------------------------------------------------------------------------
(* The row of the session *)

In(state) ==
    [state |-> state, menu |-> Main, ask |-> NoOrder, resume |-> FALSE, tries |-> 0, link |-> 0,
     linkAge |-> 0, age |-> 0]
Idle == In("IDLE")

Lifetime == [CONFIRM |-> 1, ADMIN_CHOICE |-> 1, ADMIN_CODE |-> 1, MENU |-> 3, SECRETARY |-> 3, ADMIN |-> 3]

\* Wrong on purpose: admin mode does not end by itself.
OpenEnded(r) ==
    IF r.state \in DOMAIN Lifetime \ {"ADMIN"} /\ r.age >= Lifetime[r.state] THEN [Idle EXCEPT !.age = r.age] ELSE r
\* settleState: what a stored row stands for now.
Settled(r) ==
    IF r.state \in DOMAIN Lifetime /\ r.age >= Lifetime[r.state] THEN [Idle EXCEPT !.age = r.age] ELSE r

\* saveSession.  The time of the row moves only when the row changes.
Same(r, new) == [r EXCEPT !.age = 0, !.linkAge = 0] = [new EXCEPT !.age = 0, !.linkAge = 0]
Save(r, new) == [new EXCEPT !.age = IF Same(r, new) THEN r.age ELSE 0]

\* leaveConfirm: back to the secretary, or idle.
LeaveConfirm(r) == Save(r, IF r.resume THEN In("SECRETARY") ELSE Idle)

-----------------------------------------------------------------------------
(* What comes of a message *)

Stay      == UNCHANGED <<number, known, has, link, links, troubles>>
Still     == UNCHANGED <<offered, newest, proof>> /\ did' = None
End(r)    == row' = r /\ todo' = None /\ Stay
Answered(r) == End(r) /\ Still
Then(r, do, ask) == row' = r /\ todo' = [do |-> do, ask |-> ask, resume |-> r.state = "SECRETARY"] /\ Stay

\* The row first, and then the buttons.
AskFor(r, ask, resume) ==
    /\ Then(Save(r, [In("CONFIRM") EXCEPT !.ask = ask, !.resume = resume]), "read_back", ask)
    /\ newest' = [ask |-> ask, age |-> 0, shown |-> FALSE]
    /\ UNCHANGED <<offered, proof>> /\ did' = None

About(kind) == {[kind |-> kind, on |-> t, action |-> "none"] : t \in number.topics}
\* What the interpreter may make of words: channels of the customer only.
Orders == {[kind |-> "immediate", on |-> c, action |-> "on"] : c \in who.codes}

SupportReply(r) == Answered(r) \/ \E a \in About("ticket") : AskFor(r, a, FALSE)
CommandReply(r) ==
    \/ Answered(r)                       \* no channels, or the budget is used up
    \/ SupportReply(r)                   \* not understood
    \/ \E o \in Orders : AskFor(r, o, FALSE)

\* secretaryModeReply, which may propose one thing.
SecretaryMode(r) ==
    Answered(r) \/ \E a \in About("ticket") \cup About("lead") \cup Orders : AskFor(r, a, TRUE)
EnterSecretary(r) == SecretaryMode(Save(r, In("SECRETARY")))

ShowMenu(r, reply) ==
    /\ End(Save(r, [In("MENU") EXCEPT !.menu = reply.state]))
    /\ offered' = Choices(reply, who) /\ did' = None
    /\ UNCHANGED <<newest, proof>>
\* sendMenu.
SendMenu(r, reply) ==
    CASE reply.order.kind = "status" -> Answered(Save(r, Idle))
      [] reply.order.kind = "order_text" ->
            IF who.secretary THEN EnterSecretary(Save(r, Idle)) ELSE CommandReply(Save(r, Idle))
      [] reply.order = NoOrder -> ShowMenu(r, reply)
      [] OTHER -> AskFor(r, reply.order, FALSE)

-----------------------------------------------------------------------------
(* Messages *)

\* Buttons and words for the gate are like any words from other numbers.
Kinds == {"tap yes", "tap no", "yes", "no", "star", "greeting", "status", "sentence", "number"}
GateKinds == {"tap admin", "tap customer", "customer", "admin"}
Messages ==
    {[kind |-> k, d |-> 0] : k \in Kinds \cup IF number.admin THEN GateKinds ELSE {}}
    \cup {[kind |-> "digit", d |-> d] : d \in 0..9}

Yes(m) == m.kind \in {"tap yes", "yes"} \/ (m.kind = "digit" /\ m.d = 1)
No(m)  == m.kind \in {"tap no", "no"} \/ (m.kind = "digit" /\ m.d = 2)
Stray(m) == m.kind \in {"tap yes", "tap no"} \/ (known /\ m.kind \in {"yes", "no"})
Greeting(m) == m.kind = "greeting"
Bare(m) == m.kind \in {"digit", "star"}
SecretaryExit(m) == Greeting(m) \/ m.kind = "star" \/ (m.kind = "digit" /\ m.d \in {0, 9})
AdminExit(m) == m.kind = "customer" \/ (m.kind = "digit" /\ m.d = 0)

-----------------------------------------------------------------------------
(* The customer's paths *)

\* menuInput: a number, words that were asked for, or words for the router.
MenuReplies(s, m) ==
    IF m.kind = "star" THEN {MenuStart}
    ELSE IF m.kind = "digit" THEN DeskChoice(s, m.d, who)
    ELSE IF s.node \in DeskFree THEN DeskSpoken(s, who)
    ELSE IF m.kind = "number" THEN DeskUnclear(s, who) ELSE Routed(s, who)

\* Whoever is not served by the menu.
Guest(r, m) ==
    IF Greeting(m) THEN Answered(Save(r, Idle))
    ELSE SupportReply(IF r.state = "NEW" THEN Save(r, Idle) ELSE r)
Served(r, m) ==
    LET saved == IF r.state = "NEW" THEN Save(r, Idle) ELSE r
    IN  IF Greeting(m) \/ m.kind = "status" THEN Answered(saved)
        ELSE CommandReply(saved)             \* or SupportReply, for a question
OldPaths(r, m) == IF known THEN Served(r, m) ELSE Guest(r, m)

\* Where the tree asks for words, they open the secretary instead.
ForSecretary(node, m) ==
    \/ node = "assistant_ask" /\ ~Bare(m) /\ ~Greeting(m)
    \/ node \in {"order_channels", "order_time"} /\ m.kind = "sentence"
Menu(r, m) ==
    LET s == Settled(r)
        open == s.state = "MENU"
    IN  IF ~(who.menu /\ (open \/ Greeting(m) \/ Bare(m))) THEN OldPaths(r, m)
        ELSE IF open /\ known /\ who.secretary /\ ForSecretary(s.menu.node, m) THEN EnterSecretary(r)
        ELSE IF Greeting(m) THEN SendMenu(r, MenuStart)
        ELSE IF open /\ s.menu.node = "main" /\ ~Bare(m) THEN OldPaths(Save(r, Idle), m)
        ELSE \E reply \in MenuReplies(IF open THEN s.menu ELSE Main, m) : SendMenu(r, reply)

\* Nothing is waiting for an answer: the secretary of the customer, or the menu.
Unasked(r, m) ==
    LET secretary == Settled(r).state = "SECRETARY" /\ known
    IN  IF Stray(m) THEN Answered(r)
        ELSE IF ~secretary THEN Menu(r, m)
        ELSE IF ~SecretaryExit(m) /\ who.secretary THEN SecretaryMode(r)
        ELSE IF who.menu THEN ShowMenu(Save(r, Idle), MenuStart)
        ELSE OldPaths(Save(r, Idle), m)

\* A ticket is for anybody; an order, and a request of the sales branch, for customers.
Customer(m) ==
    LET s == Settled(row)
        waits == s.state = "CONFIRM" /\ (s.ask.kind = "ticket" \/ (known /\ s.ask.kind # "office"))
    IN  IF ~waits THEN Unasked(row, m)
        ELSE IF Yes(m) THEN Then(LeaveConfirm(row), "carry_out", s.ask) /\ Still
        ELSE IF No(m) THEN End(LeaveConfirm(row)) /\ newest' = None /\ did' = None /\ UNCHANGED <<offered, proof>>
        ELSE Unasked(LeaveConfirm(row), m)

-----------------------------------------------------------------------------
(* The office *)

\* A turn of the office secretary: the row is saved after the buttons are sent.
ATurn == [NoOrder EXCEPT !.kind = "turn"]
KeepAdmin(r) == Save(r, In("ADMIN"))
Turn(r) ==
    /\ \/ row' = KeepAdmin(r) /\ todo' = None
       \/ \E a \in About("office") : row' = r /\ todo' = [do |-> "propose", ask |-> a, resume |-> FALSE]
    /\ did' = ATurn /\ proof' = IF proof = None THEN None ELSE 0
    /\ Stay /\ UNCHANGED <<offered, newest>>
\* A word of the admin in admin mode.
Heard(r) ==
    /\ End(r) /\ proof' = (IF proof = None THEN None ELSE 0) /\ did' = None /\ newest' = None
    /\ UNCHANGED offered

\* secretaryReply.
Office(m) ==
    LET s == Settled(row)
        asked == s.state = "CONFIRM"
    IN  \/ Greeting(m) /\ Heard(KeepAdmin(row))             \* a word for help
        \/ IF asked /\ m.kind \in {"tap yes", "yes"} THEN Then(KeepAdmin(row), "carry_out", s.ask) /\ Still
           ELSE IF (asked /\ No(m)) \/ (~asked /\ m.kind \in {"tap yes", "tap no"}) THEN Heard(KeepAdmin(row))
           ELSE Turn(IF asked THEN KeepAdmin(row) ELSE row)

CustomerMode ==
    /\ proof' = None /\ did' = None /\ Stay /\ todo' = None
    /\ UNCHANGED newest
    /\ IF known /\ who.menu
       THEN row' = Save(row, [In("MENU") EXCEPT !.menu = Main]) /\ offered' = MainOptions(who)
       ELSE row' = Save(row, Idle) /\ UNCHANGED offered

\* startAdminCode; a request that came with the shortcut waits for the code.
StartCode(m) ==
    LET code == [In("ADMIN_CODE") EXCEPT !.resume = m.kind = "admin"]
    IN  /\ IF number.passkey /\ links < MaxLinks
           THEN links' = links + 1 /\ row' = Save(row, [code EXCEPT !.link = links + 1])
           ELSE row' = Save(row, code) /\ UNCHANGED links
        /\ todo' = None /\ UNCHANGED <<number, known, has, link, troubles>> /\ Still

EnterAdmin(resume) ==
    /\ row' = Save(row, In("ADMIN")) /\ proof' = 0 /\ did' = None
    /\ todo' = IF resume THEN [do |-> "first_turn", ask |-> NoOrder, resume |-> FALSE] ELSE None
    /\ UNCHANGED <<offered, newest>>
CodeAnswer(m, s) ==
    \/ m.kind = "number" /\ EnterAdmin(s.resume) /\ Stay            \* the right code
    \/ Answered(Save(row, IF s.tries + 1 >= Tries THEN Idle ELSE [s EXCEPT !.tries = @ + 1]))

\* adminGate, in its order; the last case is the middle of a customer's conversation.
Gate(m) ==
    LET s == Settled(row)
        choice ==
            IF m.kind \in {"tap admin", "admin"} \/ m = [kind |-> "digit", d |-> 1] THEN StartCode(m)
            ELSE IF m.kind \in {"tap customer", "customer"} \/ m = [kind |-> "digit", d |-> 2] THEN CustomerMode
            ELSE Answered(row)
        customer ==
            IF m.kind = "admin" \/ ~known THEN StartCode(m)
            ELSE IF s.state = "NEW" \/ (s.state = "IDLE" /\ s.age >= 3) THEN Answered(Save(row, In("ADMIN_CHOICE")))
            ELSE Customer(m)
    IN  CASE s.state = "CONFIRM" /\ s.ask.kind = "office" -> Office(m)
          [] s.state = "ADMIN_CODE" -> IF AdminExit(m) THEN CustomerMode ELSE CodeAnswer(m, s)
          [] s.state = "ADMIN_CHOICE" -> choice
          [] s.state = "ADMIN" -> IF AdminExit(m) THEN CustomerMode ELSE Office(m)
          [] OTHER -> customer

Receive == todo = None /\ \E m \in Messages : IF number.admin THEN Gate(m) ELSE Customer(m)

-----------------------------------------------------------------------------
(* The rest of a message *)

Doing(do) == todo # None /\ todo.do = do

\* sendConfirm: delivered, or not.
ReadBack ==
    /\ Doing("read_back") /\ todo' = None
    /\ newest' \in {[newest EXCEPT !.shown = TRUE], newest}
    /\ did' = None /\ Stay /\ UNCHANGED <<row, offered, proof>>

\* The proposals are stored only once the read-back was delivered.
Propose ==
    /\ Doing("propose")
    /\ \/ todo' = [todo EXCEPT !.do = "store"] /\ newest' = [ask |-> todo.ask, age |-> 0, shown |-> TRUE] /\ UNCHANGED row
       \/ todo' = None /\ row' = KeepAdmin(row) /\ UNCHANGED newest
    /\ did' = None /\ Stay /\ UNCHANGED <<offered, proof>>
Store ==
    /\ Doing("store") /\ Answered(Save(row, [In("CONFIRM") EXCEPT !.ask = todo.ask]))

\* executePending, openTicket, the request of the sales branch, executeProposals.
CarryOut ==
    /\ Doing("carry_out") /\ did' = todo.ask /\ newest' = None
    /\ todo' = IF todo.ask.kind \in {"ticket", "lead", "office"} \/ todo.resume \/ ~who.menu THEN None
               ELSE [todo EXCEPT !.do = "menu"]
    /\ proof' = IF todo.ask.kind = "office" THEN 0 ELSE proof
    /\ Stay /\ UNCHANGED <<row, offered>>
MenuAfter == Doing("menu") /\ ShowMenu(row, MenuStart)

FirstTurn == Doing("first_turn") /\ Turn(row)

\* completeAdminLink.  The row is found by the link before the lane is free, and
\* read again inside; a passkey of somebody else burns the link.
OpenLink ==
    /\ link = 0 /\ row.state = "ADMIN_CODE" /\ row.link # 0
    /\ link' = row.link
    /\ UNCHANGED <<number, known, has, row, todo, links, troubles, offered, newest, proof>> /\ did' = None
ClaimLink ==
    /\ link # 0 /\ todo = None /\ link' = 0
    /\ LET s == Settled(row)
           valid == s.state = "ADMIN_CODE" /\ s.link = link /\ s.linkAge = 0
       IN  \/ ~valid /\ row' = row /\ todo' = None /\ Still
           \/ valid /\ row' = Save(row, [s EXCEPT !.link = 0]) /\ todo' = None /\ Still
           \/ valid /\ EnterAdmin(s.resume)
    /\ UNCHANGED <<number, known, has, links, troubles>>

-----------------------------------------------------------------------------
(* Surroundings *)

Older(n) == IF n < MaxAge THEN n + 1 ELSE n
Later ==
    /\ todo = None
    /\ row' = [row EXCEPT !.age = Older(@), !.linkAge = Older(@)]
    /\ newest' = IF newest = None THEN None ELSE [newest EXCEPT !.age = Older(@)]
    /\ proof' = IF proof = None THEN None ELSE Older(proof)
    /\ did' = None
    /\ UNCHANGED <<number, known, has, todo, link, links, troubles, offered>>

\* The process is replaced: the message being handled is lost, the row stays.
Restart ==
    /\ todo # None /\ troubles < MaxTroubles /\ troubles' = troubles + 1
    /\ todo' = None /\ link' = 0
    /\ UNCHANGED <<number, known, has, row, links>> /\ Still

\* An account is suspended, or taken back.
Suspend ==
    /\ number.user /\ todo = None /\ troubles < MaxTroubles /\ troubles' = troubles + 1
    /\ known' = ~known
    /\ UNCHANGED <<number, has, row, todo, link, links>> /\ Still

\* On the website a channel is enabled or disabled, and a device or a plan comes or goes.
Near(n) == {n - 1, n + 1} \ {-1}
Change ==
    /\ number.user /\ todo = None /\ troubles < MaxTroubles /\ troubles' = troubles + 1
    /\ \/ "codes" \in number.web /\ \E c \in Relays : has' = [has EXCEPT !.codes = IF c \in @ THEN @ \ {c} ELSE @ \cup {c}]
       \/ "devices" \in number.web /\ \E n \in Near(has.devices) : has' = [has EXCEPT !.devices = n]
       \/ "plans" \in number.web /\ \E n \in Near(has.plans) : has' = [has EXCEPT !.plans = n]
    /\ UNCHANGED <<number, known, row, todo, link, links>> /\ Still

Init ==
    /\ number \in Numbers /\ known = number.user
    /\ has = [codes |-> number.codes, devices |-> number.devices, plans |-> number.plans]
    /\ row = In("NEW") /\ todo = None /\ link = 0 /\ links = 0 /\ troubles = 0
    /\ offered = {} /\ newest = None /\ proof = None /\ did = None

Next ==
    \/ Receive
    \/ ReadBack
    \/ Propose
    \/ Store
    \/ CarryOut
    \/ MenuAfter
    \/ FirstTurn
    \/ OpenLink
    \/ ClaimLink
    \/ Later
    \/ Restart
    \/ Suspend
    \/ Change

Spec == Init /\ [][Next]_vars

-----------------------------------------------------------------------------
(* Properties *)

\* The row is in a state that the bot knows, and holds what that state needs.
TypeOK ==
    /\ row.state \in {"NEW", "IDLE"} \cup DOMAIN Lifetime
    /\ row.ask # NoOrder <=> row.state = "CONFIRM"
    /\ row.tries \in 0..(Tries - 1) /\ row.age \in 0..MaxAge
    /\ row.link # 0 => row.state = "ADMIN_CODE"

\* What is carried out is what was read back last, less than ten minutes ago
\* and not carried out before; for the office it reached the admin, too
\* (bot.js:377-379: "a yes can never approve a proposal that was never shown").
AsRead ==
    did' \notin {None, ATurn} =>
        newest # None /\ newest.ask = did' /\ newest.age = 0 /\ (did'.kind = "office" => newest.shown)

\* The secretary of the office answers, and carries out, only for an admin that
\* proved itself, and has not been silent for half an hour since (bot.js:10-15).
OfficeIsGated ==
    did' # None /\ did'.kind \in {"turn", "office"} => proof # None /\ proof < 3

\* Every choice of the newest menu is understood while that menu is open, whatever
\* has become of the account since; what it no longer has is answered by the list as
\* it is now or by the main menu, and nothing is ordered for it.
ChoicesAreUnderstood ==
    row.state = "MENU" =>
        \A d \in offered :
            LET replies == DeskChoice(row.menu, d, who)
            IN  IF Vanished(row.menu, d, who) THEN replies \subseteq DeskNow(row.menu, who)
                ELSE \A r \in replies : ~r.unclear
=============================================================================
