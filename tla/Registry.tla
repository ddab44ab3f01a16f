------------------------------ MODULE Registry ------------------------------
(***************************************************************************)
(* Whose device is it?  The rows of devices and relays, and the inventory  *)
(* of prepared units, over the life of a Shelly: registered, removed and   *)
(* restored by the customer, returned to stock, registered again for       *)
(* somebody else, moved (services/devices.js, relays.js), and the demo     *)
(* device of an account without a real one (services/demo.js).             *)
(*                                                                         *)
(* A device has one relay here: relays meet only in the digits of their    *)
(* owner, and the relays of two devices do that.  A transaction is one     *)
(* step; a request is cut where it waits for something else.               *)
(***************************************************************************)
EXTENDS RegistryParameters, FiniteSets

VARIABLES
    rows,       \* devices with their relay
    stock,      \* prepared_devices, by mac
    demo,       \* the reconciliation of an account under way (inFlight)
    job,        \* requests under way
    acts, slips,
    was,        \* history: what the last removal took from a row
    kept,       \* history: accounts whose demo device a clean-up left, or that got one late
    overtaken,  \* history: rows restored while they were being returned
    blurred     \* history: units whose place in stock nobody vouches for

vars == <<rows, stock, demo, job, acts, slips, was, kept, overtaken, blurred>>
history == <<was, kept, overtaken, blurred>>

Known == {r \in Ids : rows[r] # None}
Of(u, kind) == {r \in Known : rows[r].owner = u /\ rows[r].kind = kind}
Holder(m)   == {r \in Known : rows[r].uid = m}                        \* UNIQUE device_uid
Digit(u, d) == {r \in Known : rows[r].owner = u /\ rows[r].digit = d} \* UNIQUE (user_id, ivr_digit)
Registered(m) == \E r \in Holder(m) : rows[r].on
Arriving(u)   == \E j \in Jobs : job[j].op \in {"register", "provision", "transfer"} /\ job[j].user = u
Returning(r)  == \E j \in Jobs : job[j].op = "return" /\ job[j].row = r

Free == [op |-> "none", at |-> "none", row |-> None, unit |-> None, user |-> None, digit |-> None,
         on |-> FALSE]
Vacant(j)      == job[j] = Free /\ \A i \in Jobs : i < j => job[i] # Free
Unused(r)      == r \notin Known /\ \A q \in Ids : q < r => q \in Known
At(j, op, at)  == job[j].op = op /\ job[j].at = at
Move(j, at)    == job' = [job EXCEPT ![j].at = at]
Done(j)        == job' = [job EXCEPT ![j] = Free]
Ordered        == acts < MaxActs /\ acts' = acts + 1
Slips          == slips < MaxSlips /\ slips' = slips + 1
Act            == Ordered /\ UNCHANGED slips
Slip           == Ordered /\ Slips
Later          == UNCHANGED <<acts, slips>>

-----------------------------------------------------------------------------
(* The demo device *)

\* Wrong on purpose: only an account that had several is cleaned.
WithDemo(u) == [r \in Ids |-> IF Cardinality(Of(u, "demo")) > 1 THEN None ELSE rows[r]]

\* removeDemoDevices, deleteDemoDevice: every trace of it.
WithoutDemo(u) == [r \in Ids |-> IF r \in Of(u, "demo") THEN None ELSE rows[r]]

\* The statements of a removal stand alone; one that fails, because the scheduler has
\* put a row beside those just deleted, leaves the device, with its relay or without.
Halved(row) == [row EXCEPT !.live = FALSE, !.digit = None, !.stash = None]
CleanUpFails(u) ==
    /\ Of(u, "demo") # {} /\ kept' = kept \cup {u}
    /\ \E gone \in SUBSET Of(u, "demo") :
        /\ rows' = [r \in Ids |-> IF r \in gone THEN Halved(rows[r]) ELSE rows[r]]
        /\ was' = [r \in Ids |-> IF r \in gone THEN [was[r] EXCEPT !.digit = None] ELSE was[r]]

\* Nobody hears of the failure: what the demo was to make room for goes on.
CleanUp(u) ==
    \/ rows' = WithoutDemo(u) /\ kept' = kept \ {u} /\ UNCHANGED <<was, slips>>
    \/ CleanUpFails(u) /\ Slips

\* GET /me and GET /devices: one reconciliation per account at a time, later
\* calls join it.
Load(u) ==
    /\ demo[u] = "idle"
    /\ demo' = [demo EXCEPT ![u] = IF Of(u, "real") # {} THEN "clear"
                                   ELSE IF Of(u, "demo") # {} THEN "idle" ELSE "create"]
    /\ demo' # demo
    /\ UNCHANGED <<rows, stock, job, history>> /\ Later

DropDemo(u) ==
    /\ demo[u] = "clear" /\ demo' = [demo EXCEPT ![u] = "idle"]
    /\ CleanUp(u)
    /\ UNCHANGED <<stock, job, acts, overtaken, blurred>>

\* What was read may have changed since.  A digit that is taken leaves the
\* device without a relay; nobody hears of the error.
CreateDemo(u) ==
    /\ demo[u] = "create" /\ demo' = [demo EXCEPT ![u] = "idle"]
    /\ \E r \in Ids :
        /\ Unused(r)
        /\ LET ok == Digit(u, DemoDigit) = {}
           IN rows' = [rows EXCEPT ![r] = [kind |-> "demo", owner |-> u, uid |-> None, removed |-> None,
                          on |-> TRUE, returned |-> FALSE, live |-> ok,
                          digit |-> IF ok THEN DemoDigit ELSE None, stash |-> None]]
        /\ was' = [was EXCEPT ![r] = [uid |-> None, digit |-> None]]
    /\ kept' = IF Of(u, "real") # {} \/ Arriving(u) THEN kept \cup {u} ELSE kept
    /\ UNCHANGED <<stock, job, overtaken, blurred>> /\ Later

-----------------------------------------------------------------------------
(* Registration *)

NewRow(u, m, d) ==
    [kind |-> "real", owner |-> u, uid |-> m, removed |-> None, on |-> TRUE, returned |-> FALSE,
     live |-> d # None, digit |-> d, stash |-> None]

Insert(r, row) ==
    /\ Unused(r)
    /\ rows' = [rows EXCEPT ![r] = row]
    /\ was' = [was EXCEPT ![r] = [uid |-> None, digit |-> None]]

\* A unit comes to a row while a return of it is under way: whichever of the
\* two writes the inventory last wins.
Contested(m) == {n \in {m} : \E j \in Jobs : job[j].op = "return" /\ job[j].unit = n}

\* registerShellyDevice: the demo goes first, then the unit is probed, which
\* takes seconds; offline there is nothing to probe.
Register(j, u, m, d) ==
    /\ Ordered /\ Vacant(j)
    /\ job' = [job EXCEPT ![j] = [Free EXCEPT !.op = "register", !.at = "probe", !.unit = m, !.user = u,
                                              !.digit = d]]
    /\ CleanUp(u)
    /\ UNCHANGED <<stock, demo, overtaken, blurred>>

\* probeShelly: the unit may not answer, or belong to somebody already.
Probe(j, answers) ==
    /\ At(j, "register", "probe")
    /\ IF answers /\ ~Registered(job[j].unit) THEN Move(j, "insert") ELSE Done(j)
    /\ UNCHANGED <<rows, stock, demo, history>> /\ Later

\* A digit or a mac that is taken refuses the registration.
InsertDevice(j) ==
    /\ At(j, "register", "insert")
    /\ LET m == job[j].unit u == job[j].user d == job[j].digit
       IN IF Digit(u, d) # {} \/ Holder(m) # {}
          THEN Done(j) /\ UNCHANGED <<rows, was, blurred>>
          ELSE /\ \E r \in Ids :
                    Insert(r, NewRow(u, m, d))
                    /\ job' = [job EXCEPT ![j].at = "stock", ![j].row = r, ![j].user = None]
               /\ blurred' = blurred \cup Contested(m)
    /\ UNCHANGED <<stock, demo, kept, overtaken>> /\ Later

\* After the calls that make the unit boot-safe: the inventory row, if any.
Activate(j) ==
    /\ At(j, "register", "stock") /\ Done(j)
    /\ stock' = [stock EXCEPT ![job[j].unit] = IF @ = None THEN None
                                               ELSE [prepared |-> FALSE, device |-> job[j].row]]
    /\ UNCHANGED <<rows, demo, history>> /\ Later

\* provisionDevice: a clock of the older kind; its relays are added one by one.
Provision(j, u, m) ==
    /\ Ordered /\ Vacant(j)
    /\ job' = [job EXCEPT ![j] = [Free EXCEPT !.op = "provision", !.at = "insert", !.unit = m, !.user = u]]
    /\ CleanUp(u)
    /\ UNCHANGED <<stock, demo, overtaken, blurred>>

InsertClock(j) ==
    /\ At(j, "provision", "insert") /\ Done(j)
    /\ LET m == job[j].unit
       IN IF m # None /\ Holder(m) # {}
          THEN UNCHANGED <<rows, was, blurred>>
          ELSE /\ \E r \in Ids : Insert(r, NewRow(job[j].user, m, None))
               /\ blurred' = blurred \cup ({m} \ {None})
    /\ UNCHANGED <<stock, demo, kept, overtaken>> /\ Later

-----------------------------------------------------------------------------
(* Removal and recovery *)

\* stashRemovedDevice
Stashed(row) ==
    [row EXCEPT !.on = FALSE,
                !.removed = IF row.uid # None THEN row.uid ELSE @, !.uid = None,
                !.stash = IF row.live /\ row.digit # None THEN row.digit ELSE @,
                !.digit = IF row.live THEN None ELSE @]

Suspend(r) ==
    /\ rows' = [rows EXCEPT ![r] = Stashed(@)]
    /\ was' = [was EXCEPT ![r] = [uid |-> rows[r].uid, digit |-> IF rows[r].live THEN rows[r].digit ELSE None]]

UidBack(row)   == row.removed # None /\ row.uid = None /\ Holder(row.removed) = {}

\* Wrong on purpose: a device whose mac is lost gets no digit back either.
DigitBackWithUid(row) ==
    row.live /\ row.stash # None /\ Digit(row.owner, row.stash) = {} /\ Holder(row.removed) = {}

DigitBack(row) == row.live /\ row.stash # None /\ Digit(row.owner, row.stash) = {}

\* recoverRemovedDevice: what another device claimed meanwhile is lost.
Recovered(row) ==
    [row EXCEPT !.on = TRUE, !.returned = FALSE,
                !.uid = IF UidBack(row) THEN row.removed ELSE @, !.removed = None,
                !.digit = IF DigitBack(row) THEN row.stash ELSE @,
                !.stash = IF row.live THEN None ELSE @]

\* A removed row gets its unit back although it has been returned to stock from
\* another row since: the inventory goes on offering it.
ListedByOther(r) ==
    {n \in {rows[r].removed} \ {None} : \E q \in Ids \ {r} : stock[n] = [prepared |-> TRUE, device |-> q]}

\* PATCH /devices/:id with is_enabled = false
Remove(r) ==
    /\ Act /\ rows[r].on /\ Suspend(r)
    /\ UNCHANGED <<stock, demo, job, kept, overtaken, blurred>>

\* ... with is_enabled = true.  A returned device only the admin brings back;
\* its row of the inventory is taken out again after the commit.
Restore(r, admin) ==
    /\ Act /\ ~rows[r].on /\ (rows[r].returned => admin)
    /\ rows' = [rows EXCEPT ![r] = Recovered(@)]
    /\ IF rows[r].returned /\ UidBack(rows[r])
       THEN \E j \in Jobs : /\ Vacant(j)
                            /\ job' = [job EXCEPT ![j] = [Free EXCEPT !.op = "reuse", !.at = "stock",
                                                             !.row = r, !.unit = rows[r].removed]]
       ELSE job' = job
    /\ overtaken' = IF Returning(r) THEN overtaken \cup {r} ELSE overtaken \ {r}
    /\ blurred' = blurred \cup Contested(rows[r].removed) \cup ListedByOther(r)
    /\ UNCHANGED <<stock, demo, kept, was>>

\* Only the row that this very return freed.
Reuse(j) ==
    /\ At(j, "reuse", "stock") /\ Done(j)
    /\ LET m == job[j].unit
       IN stock' = IF stock[m] = [prepared |-> TRUE, device |-> job[j].row]
                   THEN [stock EXCEPT ![m].prepared = FALSE] ELSE stock
    /\ UNCHANGED <<rows, demo, history>> /\ Later

-----------------------------------------------------------------------------
(* Return to stock: four statements and perhaps a question to the unit *)

MacOf(row) == IF row.on \/ row.removed = None THEN row.uid ELSE row.removed

Return(j, r) ==
    /\ Act /\ Vacant(j)
    /\ rows[r].kind = "real" /\ MacOf(rows[r]) # None /\ ~rows[r].returned
    /\ ~rows[r].on => \A h \in Holder(MacOf(rows[r])) \ {r} : ~rows[h].on
    /\ job' = [job EXCEPT ![j] = [Free EXCEPT !.op = "return", !.at = "suspend", !.row = r,
                                              !.unit = MacOf(rows[r]), !.on = rows[r].on]]
    /\ UNCHANGED <<rows, stock, demo, history>>

SuspendReturned(j) ==
    /\ At(j, "return", "suspend") /\ Move(j, "list")
    /\ IF job[j].on /\ rows[job[j].row].on THEN Suspend(job[j].row) ELSE UNCHANGED <<rows, was>>
    /\ UNCHANGED <<stock, demo, kept, overtaken, blurred>> /\ Later

ListReturned(j) ==
    /\ At(j, "return", "list") /\ Move(j, "stamp")
    /\ stock' = [stock EXCEPT ![job[j].unit] = [prepared |-> TRUE, device |-> job[j].row]]
    /\ UNCHANGED <<rows, demo, history>> /\ Later

StampReturned(j) ==
    /\ At(j, "return", "stamp") /\ Done(j)
    /\ rows' = [rows EXCEPT ![job[j].row].returned = TRUE]
    /\ UNCHANGED <<stock, demo, history>> /\ Later

-----------------------------------------------------------------------------
(* Moving a device, its digits *)

\* transferDevice, and patchDevice with user_id: the demo of the new owner goes.
Transfer(j, r, u, d) ==
    /\ Ordered /\ Vacant(j) /\ rows[r].kind = "real" /\ rows[r].owner # u
    /\ job' = [job EXCEPT ![j] = [Free EXCEPT !.op = "transfer", !.at = "insert", !.row = r, !.user = u,
                                              !.digit = d]]
    /\ CleanUp(u)
    /\ UNCHANGED <<stock, demo, overtaken, blurred>>

\* The digit chosen at the new owner, else the present one; a clash refuses.
MoveDevice(j) ==
    /\ At(j, "transfer", "insert") /\ Done(j)
    /\ LET row == rows[job[j].row]
           d == IF row.digit = None \/ job[j].digit = None THEN row.digit ELSE job[j].digit
       IN rows' = IF row.owner = job[j].user \/ (d # None /\ Digit(job[j].user, d) # {}) THEN rows
                  ELSE [rows EXCEPT ![job[j].row].owner = job[j].user, ![job[j].row].digit = d]
    /\ UNCHANGED <<stock, demo, history>> /\ Later

\* patchRelay: a digit of one's own.
PatchDigit(r, d) ==
    /\ Act /\ rows[r].live /\ Digit(rows[r].owner, d) \ {r} = {}
    /\ rows' = [rows EXCEPT ![r].digit = d]
    /\ UNCHANGED <<stock, demo, job, kept, was, overtaken, blurred>>

\* adminCreateRelay: new, or the deleted one revived with fresh fields.
CreateRelay(r, d) ==
    /\ Act /\ ~rows[r].live /\ Digit(rows[r].owner, d) = {}
    /\ rows' = [rows EXCEPT ![r].live = TRUE, ![r].digit = d]
    /\ UNCHANGED <<stock, demo, job, history>>

\* adminDeleteRelay frees the digit; what is in the stash stays there.
DeleteRelay(r) ==
    /\ Act /\ rows[r].live
    /\ rows' = [rows EXCEPT ![r].live = FALSE, ![r].digit = None]
    /\ was' = [was EXCEPT ![r].digit = None]
    /\ UNCHANGED <<stock, demo, job, kept, overtaken, blurred>>

\* The admin types a mac into a row that has none.
SetUid(r, m) ==
    /\ Slip /\ rows[r].uid = None /\ Holder(m) = {}
    /\ rows' = [rows EXCEPT ![r].uid = m] /\ blurred' = blurred \cup {m}
    /\ UNCHANGED <<stock, demo, job, kept, was, overtaken>>

-----------------------------------------------------------------------------
(* The inventory *)

\* A unit that answers and has no row yet is listed (prepStatus, the verdict
\* of the installer, the hello of an unknown unit).
Note(m) ==
    /\ Slip /\ stock[m] = None /\ stock' = [stock EXCEPT ![m] = [prepared |-> TRUE, device |-> None]]
    /\ blurred' = blurred \cup {n \in {m} : \E r \in Known : n \in {rows[r].uid, rows[r].removed}}
    /\ UNCHANGED <<rows, demo, job, kept, was, overtaken>>

\* DELETE /shelly/inventory/:id
Unlist(m) ==
    /\ Slip /\ stock[m] # None /\ stock' = [stock EXCEPT ![m] = None]
    /\ UNCHANGED <<rows, demo, job, history>>

\* The process dies: what a request still wanted to write is not written.
Crash ==
    /\ Slip
    /\ job' = [j \in Jobs |-> Free] /\ demo' = [u \in Customers |-> "idle"]
    /\ blurred' = blurred \cup {job[j].unit : j \in {i \in Jobs : job[i].at \in {"stock", "stamp"}}}
    /\ UNCHANGED <<rows, stock, kept, was, overtaken>>

Init ==
    /\ \/ /\ rows = [r \in Ids |-> None] /\ stock \in [Macs -> {None, [prepared |-> TRUE, device |-> None]}]
          /\ was = [r \in Ids |-> [uid |-> None, digit |-> None]]
       \/ \E u \in Customers, m \in Macs, d \in FirstDigits :
            /\ rows = [r \in Ids |-> IF r = 1 THEN NewRow(u, m, d) ELSE None]
            /\ stock = [n \in Macs |-> IF n = m THEN [prepared |-> FALSE, device |-> 1] ELSE None]
            /\ was = [r \in Ids |-> [uid |-> None, digit |-> None]]
       \/ \E u, v \in Customers, m \in Macs, d \in FirstDigits :
            /\ rows = [r \in Ids |-> CASE r = 1 -> Stashed(NewRow(u, m, d))
                                       [] r = 2 -> NewRow(v, m, d)
                                       [] OTHER -> None]
            /\ stock = [n \in Macs |-> IF n = m THEN [prepared |-> FALSE, device |-> 2] ELSE None]
            /\ was = [r \in Ids |-> IF r = 1 THEN [uid |-> m, digit |-> d] ELSE [uid |-> None, digit |-> None]]
    /\ demo = [u \in Customers |-> "idle"] /\ job = [j \in Jobs |-> Free]
    /\ acts = 0 /\ slips = 0
    /\ kept = {} /\ overtaken = {} /\ blurred = {}

Account == \E u \in Visitors : Load(u) \/ DropDemo(u) \/ CreateDemo(u)

\* None of them once the bound is reached.
People == acts < MaxActs /\
    \/ \E j \in Jobs, u \in Customers, m \in Macs, d \in Digits : Register(j, u, m, d)
    \/ \E j \in Jobs, u \in Customers, m \in Macs \cup {None} : Provision(j, u, m)
    \/ \E r \in Known :
        \/ Remove(r)
        \/ \E admin \in BOOLEAN : Restore(r, admin)
        \/ \E j \in Jobs : Return(j, r)
        \/ \E j \in Jobs, u \in Customers, d \in Digits \cup {None} : Transfer(j, r, u, d)
        \/ \E d \in Digits : PatchDigit(r, d) \/ CreateRelay(r, d)
        \/ DeleteRelay(r)
        \/ \E m \in Macs : SetUid(r, m)
    \/ \E m \in Macs : Note(m) \/ Unlist(m)

Server == \E j \in Jobs :
    \/ \E answers \in BOOLEAN : Probe(j, answers)
    \/ InsertDevice(j) \/ InsertClock(j) \/ Activate(j) \/ Reuse(j) \/ MoveDevice(j)
    \/ SuspendReturned(j) \/ ListReturned(j) \/ StampReturned(j)

Next == Account \/ People \/ Server \/ Crash

Spec == Init /\ [][Next]_vars

-----------------------------------------------------------------------------
(* Properties *)

\* Every variable has a value of its kind.
TypeOK ==
    /\ rows \in [Ids -> Row \cup {None}] /\ stock \in [Macs -> Entry \cup {None}]
    /\ demo \in [Customers -> {"idle", "clear", "create"}] /\ job \in [Jobs -> Request]
    /\ acts \in 0..MaxActs /\ slips \in 0..MaxSlips
    /\ was \in [Ids -> [uid : Macs \cup {None}, digit : Digits \cup {None}]]
    /\ kept \subseteq Customers /\ overtaken \subseteq Ids /\ blurred \subseteq Macs

\* When nothing is under way about a unit, the inventory does not list it as prepared
\* while it is in a customer's service (prepared_devices.status; that units in service
\* which never called yet are offered too, installCandidates does on purpose):
\* over registration, removal, return and the recovery of a return.  Excepted are
\* units that came into service while a return of them was running, that a removed
\* row got back after another row of theirs was returned, that the admin listed,
\* typed in or provisioned by hand, and whose last request the process did not survive.
InventoryIsTrue == \A m \in Macs \ blurred :
    (Registered(m) /\ \A j \in Jobs : job[j].unit # m) => (stock[m] = None \/ ~stock[m].prepared)

\* A returned device is suspended, unless it was restored while the return was
\* under way (returnDeviceToStock).
ReturnedIsSuspended == \A r \in Known : rows[r].returned /\ rows[r].on => r \in overtaken

\* A real device and a demo device are never together in an account, nor is a demo
\* there while a real device arrives, unless the clean-up failed or the panel, which
\* had found no device yet, created it late (demo.js, removeDemoDevices).
DemoMakesRoom == \A u \in Customers :
    (Of(u, "real") # {} \/ Arriving(u)) /\ Of(u, "demo") # {} => u \in kept

RegistryIsSound == ReturnedIsSuspended /\ DemoMakesRoom

\* Whatever happened between a removal and the recovery, moves to another owner
\* included: the recovery gives back the mac and the digit that the removal took,
\* unless another device holds them now (recoverRemovedDevice).
GivesBack == \A r \in Known :
    ~rows[r].on /\ rows'[r] # None /\ rows'[r].on =>
        /\ was[r].uid # None /\ rows[r].uid = None =>
              rows'[r].uid = was[r].uid \/ Holder(was[r].uid) # {}
        /\ was[r].digit # None =>
              rows'[r].digit = was[r].digit \/ Digit(rows[r].owner, was[r].digit) # {}

RecoveryGivesBack == [][GivesBack]_vars
=============================================================================
