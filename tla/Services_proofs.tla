--------------------------- MODULE Services_proofs ---------------------------
(***************************************************************************)
(* What MCServices checks of the rows of devices and the inventory, of a   *)
(* telephone call and of a WhatsApp conversation on a small instance holds *)
(* for any customers, units, digits, rows, requests, callers, channels,    *)
(* times and ages, and any number of acts, slips and upsets.               *)
(* Layout: the registry first; then the conversation and the call, each    *)
(* with what it carries out; then the types, and with them the choices     *)
(* that menus offer; the theorems stand behind what they need.             *)
(***************************************************************************)
EXTENDS MCServices, Sequences, FiniteSetTheorems, TLAPS

-----------------------------------------------------------------------------
(* The inductive invariant *)

\* A request knows the unit, the customer and the row it is about, and the row of
\* a real device stays.
JobsAreSound == \A j \in Jobs :
    /\ job[j].op \in {"register", "return", "reuse"} \/ job[j].at \in {"stock", "stamp"} => job[j].unit \in Macs
    /\ job[j].op = "transfer" \/ job[j].op = "provision" \/ (job[j].op = "register" /\ job[j].at # "stock") =>
          job[j].user \in Customers
    /\ job[j].op = "return" => job[j].at \in {"suspend", "list", "stamp"}
    /\ job[j].op = "reuse" => job[j].row \in Ids
    /\ job[j].op \in {"return", "transfer"} \/ (job[j].op = "register" /\ job[j].at = "stock") =>
          /\ job[j].row \in Reg!Known
          /\ devices[job[j].row].kind = "real"

\* UNIQUE device_uid; a suspended row holds no unit, one in service keeps none
\* in its stash.
UnitsAreHeldOnce ==
    /\ \A r, q \in Reg!Known : devices[r].uid # None /\ devices[r].uid = devices[q].uid => r = q
    /\ \A r \in Reg!Known :
        /\ devices[r].on => devices[r].removed = None
        /\ devices[r].uid \notin blurred \cup {None} => devices[r].on

\* A unit that is being returned is in nobody's service, or still in that of the
\* row which this return will suspend.
ReturnsAreAlone == \A j \in Jobs : \A h \in Reg!Known :
    job[j].op = "return" /\ devices[h].uid = job[j].unit /\ job[j].unit \notin blurred =>
        job[j].at = "suspend" /\ job[j].on /\ h = job[j].row

\* Some request under way will take the unit off the shelf.
Healing(m) == \E j \in Jobs :
    /\ job[j].unit = m /\ job[j].at = "stock"
    /\ job[j].op = "register" \/ (job[j].op = "reuse" /\ stock[m].device = job[j].row)

OnShelf(m) == m \notin blurred /\ stock[m] # None /\ stock[m].prepared

\* A unit on the shelf is in no row, or in one that is returned or being returned,
\* or about to be taken off the shelf.
ShelfIsTrue == \A m \in Macs : OnShelf(m) => \A r \in Reg!Known :
    /\ devices[r].uid = m => Healing(m)
    /\ devices[r].removed = m /\ stock[m].device = None => Healing(m)
    /\ devices[r].removed = m /\ stock[m].device = r =>
          \/ devices[r].returned \/ Healing(m)
          \/ \E j \in Jobs : Reg!At(j, "return", "stamp") /\ job[j].row = r /\ job[j].unit = m

\* A row that is in service while it is being returned was restored meanwhile.
RestoredIsOvertaken == \A j \in Jobs :
    job[j].op = "return" /\ devices[job[j].row].on /\ (job[j].at # "suspend" \/ ~job[j].on) =>
        job[j].row \in overtaken

\* A suspended row keeps in its stash what the removal took from it.
StashIsKept == \A r \in Reg!Known : ~devices[r].on =>
    /\ was[r].uid # None /\ devices[r].uid = None => devices[r].removed = was[r].uid
    /\ was[r].digit # None => devices[r].live /\ devices[r].stash = was[r].digit

RegInv ==
    /\ Reg!TypeOK /\ JobsAreSound /\ UnitsAreHeldOnce /\ ReturnsAreAlone /\ ShelfIsTrue
    /\ RestoredIsOvertaken /\ StashIsKept /\ Reg!RegistryIsSound

-----------------------------------------------------------------------------
(* The form of rows, entries and requests *)

LEMMA SameForms == Reg!Row = Row /\ Reg!Entry = Entry /\ Reg!Request = Request
BY DEF Reg!Row, Row, Reg!Entry, Entry, Reg!Request, Request

LEMMA NoneIsNothing ==
    None \notin Reg!Row /\ None \notin Reg!Entry /\ None \notin Macs /\ None \notin Digits /\ None \notin Ids
BY RegistryAssumption, SameForms

\* A free place has no request.
LEMMA FreeRequest ==
    /\ Reg!Free \in Reg!Request /\ Reg!Free.op = "none" /\ Reg!Free.at = "none" /\ Reg!Free.user = None
    /\ Reg!Free.unit = None
BY DEF Reg!Free, Reg!Request

LEMMA RowsAreRows ==
    ASSUME Reg!TypeOK, NEW r \in Reg!Known
    PROVE  r \in Ids /\ devices[r] \in Reg!Row
BY DEF Reg!TypeOK, Reg!Known

\* A demo device may vanish or lose its relay; all rows that stay hold what they held.
Vanishing ==
    /\ devices' \in [Ids -> Reg!Row \cup {None}]
    /\ \A q \in Reg!Known' :
        /\ q \in Reg!Known
        /\ devices'[q].kind = devices[q].kind /\ devices'[q].owner = devices[q].owner
        /\ devices'[q].uid = devices[q].uid /\ devices'[q].removed = devices[q].removed
        /\ devices'[q].on = devices[q].on /\ devices'[q].returned = devices[q].returned
    /\ \A q \in Reg!Known : devices[q].kind = "real" => q \in Reg!Known'

\* What a removal took is remembered, but for a digit that a relay took along.
Remembered == \A q \in Reg!Known' :
    \/ was'[q] = was[q] /\ devices'[q] = devices[q]
    \/ was'[q].uid = was[q].uid /\ was'[q].digit = None

LEMMA HalvedFields ==
    ASSUME NEW x \in Reg!Row
    PROVE  /\ Reg!Halved(x) \in Reg!Row /\ Reg!Halved(x).kind = x.kind /\ Reg!Halved(x).owner = x.owner
           /\ Reg!Halved(x).uid = x.uid /\ Reg!Halved(x).removed = x.removed
           /\ Reg!Halved(x).on = x.on /\ Reg!Halved(x).returned = x.returned
BY DEF Reg!Halved, Reg!Row

\* After a clean-up there is no demo device, or the account is known to have kept one.
LEMMA CleansUp ==
    ASSUME Reg!TypeOK, NEW u \in Customers, Reg!CleanUp(u)
    PROVE  /\ Vanishing /\ Remembered
           /\ slips' \in 0..MaxSlips /\ kept' \subseteq Customers /\ kept \ {u} \subseteq kept'
           /\ was' \in [Ids -> [uid : Macs \cup {None}, digit : Digits \cup {None}]]
           /\ u \notin kept' => \A q \in Reg!Known' : ~(devices'[q].owner = u /\ devices'[q].kind = "demo")
<1>1. CASE devices' = Reg!WithoutDemo(u) /\ kept' = kept \ {u} /\ UNCHANGED <<was, slips>>
  <2>1. /\ devices' \in [Ids -> Reg!Row \cup {None}]
        /\ \A q \in Reg!Known' : q \in Reg!Known /\ devices'[q] = devices[q] /\ q \notin Reg!Of(u, "demo")
        /\ \A q \in Reg!Known : devices[q].kind = "real" => q \in Reg!Known'
    BY <1>1, NoneIsNothing DEF Reg!TypeOK, Reg!WithoutDemo, Reg!Known, Reg!Of
  <2>2. Vanishing /\ Remembered
    BY <1>1, <2>1 DEF Vanishing, Remembered
  <2>3. \A q \in Reg!Known' : ~(devices'[q].owner = u /\ devices'[q].kind = "demo")
    BY <2>1 DEF Reg!Of
  <2>4. QED
    BY <1>1, <2>2, <2>3 DEF Reg!TypeOK
<1>2. CASE Reg!CleanUpFails(u) /\ Reg!Slips
  <2>1. PICK gone \in SUBSET Reg!Of(u, "demo") :
          /\ devices' = [r \in Ids |-> IF r \in gone THEN Reg!Halved(devices[r]) ELSE devices[r]]
          /\ was' = [r \in Ids |-> IF r \in gone THEN [was[r] EXCEPT !.digit = None] ELSE was[r]]
    BY <1>2 DEF Reg!CleanUpFails
  <2>2. /\ devices \in [Ids -> Reg!Row \cup {None}] /\ gone \subseteq Reg!Known /\ gone \subseteq Ids
        /\ was \in [Ids -> [uid : Macs \cup {None}, digit : Digits \cup {None}]]
        /\ \A q \in gone : devices[q] \in Reg!Row
    BY <2>1, RowsAreRows DEF Reg!TypeOK, Reg!Of, Reg!Known
  <2>3. /\ devices' \in [Ids -> Reg!Row \cup {None}]
        /\ \A q \in gone : devices'[q] = Reg!Halved(devices[q])
        /\ \A q \in Ids \ gone : devices'[q] = devices[q]
    BY <2>1, <2>2, HalvedFields
  <2>4. \A q \in gone : devices'[q] # None /\ q \in Reg!Known' /\ q \in Reg!Known
    BY <2>2, <2>3, HalvedFields, NoneIsNothing DEF Reg!Known
  <2>5. Vanishing
    BY <2>2, <2>3, <2>4, HalvedFields DEF Vanishing, Reg!Known
  <2>6. /\ was' \in [Ids -> [uid : Macs \cup {None}, digit : Digits \cup {None}]]
        /\ \A q \in gone : was'[q].uid = was[q].uid /\ was'[q].digit = None
        /\ \A q \in Ids \ gone : was'[q] = was[q]
    BY <2>1, <2>2
  <2>7. Remembered
    BY <2>3, <2>6 DEF Remembered, Reg!Known
  <2>8. slips' \in 0..MaxSlips /\ kept' \subseteq Customers /\ u \in kept' /\ kept \subseteq kept'
    BY <1>2, RegistryAssumption DEF Reg!CleanUpFails, Reg!Slips, Reg!TypeOK
  <2>9. QED
    BY <2>5, <2>6, <2>7, <2>8
<1>3. QED
  BY <1>1, <1>2 DEF Reg!CleanUp

LEMMA StayingVanishes ==
    ASSUME Reg!TypeOK, devices' = devices
    PROVE  Vanishing /\ (was' = was => Remembered)
BY DEF Reg!TypeOK, Vanishing, Remembered, Reg!Known

\* What is not about requests survives a demo device.
LEMMA VanishingKeepsRows ==
    ASSUME RegInv, Vanishing, Remembered, blurred \subseteq blurred', overtaken' = overtaken
    PROVE  UnitsAreHeldOnce' /\ StashIsKept' /\ Reg!ReturnedIsSuspended'
<1>1. UnitsAreHeldOnce'
  BY DEF RegInv, Vanishing, UnitsAreHeldOnce
<1>2. StashIsKept'
  BY DEF RegInv, Vanishing, Remembered, StashIsKept
<1>3. Reg!ReturnedIsSuspended'
  BY DEF RegInv, Vanishing, Reg!RegistryIsSound, Reg!ReturnedIsSuspended
<1>4. QED
  BY <1>1, <1>2, <1>3

\* And so does what is about requests, as long as they stay.
LEMMA VanishingKeepsRequests ==
    ASSUME RegInv, Vanishing, job' = job, blurred \subseteq blurred', overtaken' = overtaken
    PROVE  JobsAreSound' /\ ReturnsAreAlone' /\ RestoredIsOvertaken'
<1>1. JobsAreSound'
  BY DEF RegInv, Vanishing, JobsAreSound
<1>2. ReturnsAreAlone'
  BY DEF RegInv, Vanishing, ReturnsAreAlone
<1>3. RestoredIsOvertaken'
  BY DEF RegInv, Vanishing, JobsAreSound, RestoredIsOvertaken
<1>4. QED
  BY <1>1, <1>2, <1>3

LEMMA VanishingKeepsShelf ==
    ASSUME RegInv, Vanishing, job' = job, stock' = stock, blurred \subseteq blurred'
    PROVE  ShelfIsTrue'
BY DEF RegInv, Vanishing, ShelfIsTrue, OnShelf, Healing, Reg!At, Reg!TypeOK

-----------------------------------------------------------------------------
(* The demo device *)

LEMMA LoadKeeps ==
    ASSUME RegInv, NEW u \in Customers, Reg!Load(u)
    PROVE  RegInv'
<1>1. /\ UNCHANGED <<devices, stock, job, kept, was, overtaken, blurred, acts, slips>>
      /\ demo' \in [Customers -> {"idle", "clear", "create"}]
  BY DEF Reg!Load, Reg!Later, Reg!history, RegInv, Reg!TypeOK
<1>2. Vanishing /\ Remembered
  BY <1>1, StayingVanishes DEF RegInv
<1>3. Reg!TypeOK'
  BY <1>1 DEF RegInv, Reg!TypeOK
<1>4. Reg!DemoMakesRoom'
  BY <1>1 DEF RegInv, Reg!RegistryIsSound, Reg!DemoMakesRoom, Reg!Arriving, Reg!Of, Reg!Known
<1>5. QED
  BY <1>1, <1>2, <1>3, <1>4, VanishingKeepsRows, VanishingKeepsRequests, VanishingKeepsShelf
     DEF RegInv, Reg!RegistryIsSound

LEMMA DropDemoKeeps ==
    ASSUME RegInv, NEW u \in Customers, Reg!DropDemo(u)
    PROVE  RegInv'
<1>1. /\ UNCHANGED <<stock, job, acts, overtaken, blurred>> /\ Reg!CleanUp(u)
      /\ demo' \in [Customers -> {"idle", "clear", "create"}]
  BY DEF Reg!DropDemo, RegInv, Reg!TypeOK
<1>2. /\ Vanishing /\ Remembered
      /\ slips' \in 0..MaxSlips /\ kept' \subseteq Customers /\ kept \ {u} \subseteq kept'
      /\ was' \in [Ids -> [uid : Macs \cup {None}, digit : Digits \cup {None}]]
      /\ u \notin kept' => \A q \in Reg!Known' : ~(devices'[q].owner = u /\ devices'[q].kind = "demo")
  BY <1>1, CleansUp DEF RegInv
<1>3. Reg!TypeOK'
  BY <1>1, <1>2 DEF RegInv, Reg!TypeOK, Vanishing
<1>4. Reg!DemoMakesRoom'
  BY <1>1, <1>2 DEF RegInv, Reg!RegistryIsSound, Reg!DemoMakesRoom, Reg!Arriving, Reg!Of, Vanishing
<1>5. QED
  BY <1>1, <1>2, <1>3, <1>4, VanishingKeepsRows, VanishingKeepsRequests, VanishingKeepsShelf
     DEF RegInv, Reg!RegistryIsSound

-----------------------------------------------------------------------------
(* Requests that begin, wait, or write the inventory *)

\* A request begins in a free place, or a request goes on: the others stay.
OneRequest(j) == job' \in [Jobs -> Reg!Request] /\ \A i \in Jobs \ {j} : job'[i] = job[i]

\* A request that has waited goes on where it stood.
LEMMA MovesOn ==
    ASSUME Reg!TypeOK, NEW j \in Jobs, Reg!Move(j, "insert") \/ Reg!Move(j, "list") \/ Reg!Move(j, "stamp")
    PROVE  /\ OneRequest(j) /\ job'[j].op = job[j].op /\ job'[j].row = job[j].row
           /\ job'[j].unit = job[j].unit /\ job'[j].user = job[j].user /\ job'[j].on = job[j].on
           /\ Reg!Move(j, "insert") => job'[j].at = "insert"
           /\ Reg!Move(j, "list") => job'[j].at = "list"
           /\ Reg!Move(j, "stamp") => job'[j].at = "stamp"
<1>1. job[j] \in Reg!Request /\ job \in [Jobs -> Reg!Request]
  BY DEF Reg!TypeOK
<1>2. PICK at \in {"insert", "list", "stamp"} : job' = [job EXCEPT ![j].at = at]
  BY DEF Reg!Move
<1>3. [job[j] EXCEPT !.at = at] \in Reg!Request
  BY <1>1 DEF Reg!Request
<1>4. job'[j] = [job[j] EXCEPT !.at = at]
  BY <1>1, <1>2
<1>5. /\ job'[j].op = job[j].op /\ job'[j].row = job[j].row /\ job'[j].at = at
      /\ job'[j].unit = job[j].unit /\ job'[j].user = job[j].user /\ job'[j].on = job[j].on
  BY <1>1, <1>4 DEF Reg!Request
<1>6. OneRequest(j)
  BY <1>1, <1>2, <1>3 DEF OneRequest
<1>7. /\ Reg!Move(j, "insert") => job'[j].at = "insert"
      /\ Reg!Move(j, "list") => job'[j].at = "list"
  BY <1>1 DEF Reg!Move, Reg!Request
<1>8. Reg!Move(j, "stamp") => job'[j].at = "stamp"
  BY <1>1 DEF Reg!Move, Reg!Request
<1>9. QED
  BY <1>5, <1>6, <1>7, <1>8

\* A real device is on its way to a customer: the demo goes, or is known to have stayed.
LEMMA ArrivalBegins ==
    ASSUME RegInv, NEW j \in Jobs, NEW u \in Customers, Reg!CleanUp(u),
           UNCHANGED <<stock, demo, overtaken, blurred>>, acts' \in 0..MaxActs,
           OneRequest(j), job[j] = Reg!Free, job'[j].user = u, job'[j].at \in {"probe", "insert"},
           \/ job'[j].op \in {"register", "provision"} /\ (job'[j].op = "register" => job'[j].unit \in Macs)
           \/ job'[j].op = "transfer" /\ job'[j].row \in Reg!Known /\ devices[job'[j].row].kind = "real"
    PROVE  RegInv'
<1>1. /\ Vanishing /\ Remembered
      /\ slips' \in 0..MaxSlips /\ kept' \subseteq Customers /\ kept \ {u} \subseteq kept'
      /\ was' \in [Ids -> [uid : Macs \cup {None}, digit : Digits \cup {None}]]
      /\ u \notin kept' => \A q \in Reg!Known' : ~(devices'[q].owner = u /\ devices'[q].kind = "demo")
  BY CleansUp DEF RegInv
<1>2. Reg!TypeOK'
  BY <1>1 DEF RegInv, Reg!TypeOK, Vanishing, OneRequest
<1>3. JobsAreSound'
  BY <1>1 DEF RegInv, JobsAreSound, OneRequest, Vanishing
<1>4. ReturnsAreAlone'
  BY <1>1 DEF RegInv, ReturnsAreAlone, OneRequest, Vanishing
<1>5. RestoredIsOvertaken'
  BY <1>1 DEF RegInv, RestoredIsOvertaken, JobsAreSound, OneRequest, Vanishing
<1>6. ShelfIsTrue'
  <2>1. ASSUME NEW n \in Macs, Healing(n)
        PROVE  Healing(n)'
    BY <2>1, FreeRequest DEF Healing, OneRequest
  <2>2. ASSUME NEW i \in Jobs, Reg!At(i, "return", "stamp")
        PROVE  job'[i] = job[i]
    BY <2>2, FreeRequest DEF Reg!At, OneRequest
  <2>3. QED
    BY <1>1, <2>1, <2>2 DEF RegInv, ShelfIsTrue, OnShelf, Reg!At, Vanishing
<1>7. Reg!DemoMakesRoom'
  BY <1>1 DEF RegInv, Reg!RegistryIsSound, Reg!DemoMakesRoom, Reg!Arriving, Reg!Of, OneRequest, Vanishing
<1>8. QED
  BY <1>1, <1>2, <1>3, <1>4, <1>5, <1>6, <1>7, VanishingKeepsRows DEF RegInv, Reg!RegistryIsSound

LEMMA RegisterKeeps ==
    ASSUME RegInv, NEW j \in Jobs, NEW u \in Customers, NEW m \in Macs, NEW d \in Digits,
           Reg!Register(j, u, m, d)
    PROVE  RegInv'
<1>1. UNCHANGED <<stock, demo, overtaken, blurred>> /\ Reg!CleanUp(u) /\ acts' \in 0..MaxActs
  BY RegistryAssumption DEF Reg!Register, Reg!Ordered, RegInv, Reg!TypeOK
<1>2. /\ OneRequest(j) /\ job[j] = Reg!Free
      /\ job'[j].op = "register" /\ job'[j].at = "probe" /\ job'[j].unit = m /\ job'[j].user = u
  BY DEF Reg!Register, Reg!Vacant, RegInv, Reg!TypeOK, OneRequest, Reg!Free, Reg!Request
<1>3. QED
  BY <1>1, <1>2, ArrivalBegins

LEMMA ProvisionKeeps ==
    ASSUME RegInv, NEW j \in Jobs, NEW u \in Customers, NEW m \in Macs \cup {None},
           Reg!Provision(j, u, m)
    PROVE  RegInv'
<1>1. UNCHANGED <<stock, demo, overtaken, blurred>> /\ Reg!CleanUp(u) /\ acts' \in 0..MaxActs
  BY RegistryAssumption DEF Reg!Provision, Reg!Ordered, RegInv, Reg!TypeOK
<1>2. /\ OneRequest(j) /\ job[j] = Reg!Free
      /\ job'[j].op = "provision" /\ job'[j].at = "insert" /\ job'[j].user = u
  BY DEF Reg!Provision, Reg!Vacant, RegInv, Reg!TypeOK, OneRequest, Reg!Free, Reg!Request
<1>3. QED
  BY <1>1, <1>2, ArrivalBegins

\* A request that ends, or goes on, without having written anything.
LEMMA ProbeKeeps ==
    ASSUME RegInv, NEW j \in Jobs, NEW answers \in BOOLEAN, Reg!Probe(j, answers)
    PROVE  RegInv'
<1>1. UNCHANGED <<devices, stock, demo, kept, was, overtaken, blurred, acts, slips>>
  BY DEF Reg!Probe, Reg!Later, Reg!history
<1>2. /\ OneRequest(j) /\ job[j].op = "register" /\ job[j].at = "probe"
      /\ \/ job'[j] = Reg!Free
         \/ /\ job'[j].op = "register" /\ job'[j].at = "insert" /\ job'[j].unit = job[j].unit
            /\ job'[j].user = job[j].user
  <2>1. job[j].op = "register" /\ job[j].at = "probe" /\ (Reg!Done(j) \/ Reg!Move(j, "insert"))
    BY DEF Reg!Probe, Reg!At
  <2>2. CASE Reg!Done(j)
    BY <2>1, <2>2, FreeRequest DEF Reg!Done, RegInv, Reg!TypeOK, OneRequest
  <2>3. CASE Reg!Move(j, "insert")
    BY <2>1, <2>3, MovesOn DEF RegInv
  <2>4. QED
    BY <2>1, <2>2, <2>3
<1>3. Vanishing /\ Remembered
  BY <1>1, StayingVanishes DEF RegInv
<1>4. Reg!TypeOK'
  BY <1>1, <1>2 DEF RegInv, Reg!TypeOK, OneRequest
<1>5. JobsAreSound'
  BY <1>2, <1>3, FreeRequest DEF RegInv, JobsAreSound, OneRequest, Vanishing
<1>6. ReturnsAreAlone'
  BY <1>1, <1>2, <1>3, FreeRequest DEF RegInv, ReturnsAreAlone, OneRequest, Vanishing
<1>7. RestoredIsOvertaken'
  BY <1>1, <1>2, <1>3, FreeRequest
     DEF RegInv, RestoredIsOvertaken, JobsAreSound, OneRequest, Vanishing
<1>8. ShelfIsTrue'
  BY <1>1, <1>2, <1>3, FreeRequest
     DEF RegInv, ShelfIsTrue, OnShelf, Healing, Reg!At, OneRequest, Vanishing
<1>9. Reg!DemoMakesRoom'
  BY <1>1, <1>2, FreeRequest
     DEF RegInv, Reg!RegistryIsSound, Reg!DemoMakesRoom, Reg!Arriving, Reg!Of, Reg!Known, OneRequest
<1>10. QED
  BY <1>1, <1>3, <1>4, <1>5, <1>6, <1>7, <1>8, <1>9, VanishingKeepsRows DEF RegInv, Reg!RegistryIsSound

LEMMA ActivateKeeps ==
    ASSUME RegInv, NEW j \in Jobs, Reg!Activate(j)
    PROVE  RegInv'
<1> DEFINE m == job[j].unit
<1>1. UNCHANGED <<devices, demo, kept, was, overtaken, blurred, acts, slips>>
  BY DEF Reg!Activate, Reg!Later, Reg!history
<1>2. OneRequest(j) /\ job[j].op = "register" /\ job[j].at = "stock" /\ job'[j] = Reg!Free
  BY FreeRequest DEF Reg!Activate, Reg!At, Reg!Done, RegInv, Reg!TypeOK, OneRequest
<1>3. Vanishing /\ Remembered
  BY <1>1, StayingVanishes DEF RegInv
<1>4. /\ m \in Macs /\ stock' \in [Macs -> Reg!Entry \cup {None}]
      /\ \A n \in Macs \ {m} : stock'[n] = stock[n]
      /\ stock'[m] = None \/ ~stock'[m].prepared
  BY <1>2 DEF Reg!Activate, Reg!Entry, RegInv, JobsAreSound, Reg!TypeOK, Reg!Request
<1>5. Reg!TypeOK'
  BY <1>1, <1>2, <1>4 DEF RegInv, Reg!TypeOK, OneRequest
<1>6. JobsAreSound'
  BY <1>2, <1>3, FreeRequest DEF RegInv, JobsAreSound, OneRequest, Vanishing
<1>7. ReturnsAreAlone'
  BY <1>1, <1>2, <1>3, FreeRequest DEF RegInv, ReturnsAreAlone, OneRequest, Vanishing
<1>8. RestoredIsOvertaken'
  BY <1>1, <1>2, <1>3, FreeRequest
     DEF RegInv, RestoredIsOvertaken, JobsAreSound, OneRequest, Vanishing
<1>9. ShelfIsTrue'
  BY <1>1, <1>2, <1>3, <1>4, FreeRequest
     DEF RegInv, ShelfIsTrue, OnShelf, Healing, Reg!At, OneRequest, Vanishing
<1>10. Reg!DemoMakesRoom'
  BY <1>1, <1>2, FreeRequest
     DEF RegInv, Reg!RegistryIsSound, Reg!DemoMakesRoom, Reg!Arriving, Reg!Of, Reg!Known, OneRequest
<1>11. QED
  BY <1>1, <1>3, <1>5, <1>6, <1>7, <1>8, <1>9, <1>10, VanishingKeepsRows DEF RegInv, Reg!RegistryIsSound

LEMMA ReuseKeeps ==
    ASSUME RegInv, NEW j \in Jobs, Reg!Reuse(j)
    PROVE  RegInv'
<1> DEFINE m == job[j].unit
<1>1. UNCHANGED <<devices, demo, kept, was, overtaken, blurred, acts, slips>>
  BY DEF Reg!Reuse, Reg!Later, Reg!history
<1>2. OneRequest(j) /\ job[j].op = "reuse" /\ job[j].at = "stock" /\ job'[j] = Reg!Free
  BY FreeRequest DEF Reg!Reuse, Reg!At, Reg!Done, RegInv, Reg!TypeOK, OneRequest
<1>3. Vanishing /\ Remembered
  BY <1>1, StayingVanishes DEF RegInv
<1>4. /\ m \in Macs /\ stock' \in [Macs -> Reg!Entry \cup {None}]
      /\ \A n \in Macs \ {m} : stock'[n] = stock[n]
      /\ \/ stock'[m] = stock[m] /\ (stock[m] = [prepared |-> TRUE, device |-> job[j].row] => FALSE)
         \/ ~stock'[m].prepared
  <2>1. m \in Macs /\ stock \in [Macs -> Reg!Entry \cup {None}]
    BY <1>2 DEF RegInv, JobsAreSound, Reg!TypeOK
  <2>2. CASE stock[m] = [prepared |-> TRUE, device |-> job[j].row]
    <3>1. stock' = [stock EXCEPT ![m].prepared = FALSE]
      BY <2>2 DEF Reg!Reuse
    <3> job[j].row \in Ids
      BY <1>2 DEF RegInv, JobsAreSound, Reg!Known
    <3> [prepared |-> TRUE, device |-> job[j].row] \in Reg!Entry
      BY DEF Reg!Entry
    <3>2. [stock[m] EXCEPT !.prepared = FALSE] \in Reg!Entry
      BY <2>2 DEF Reg!Entry
    <3>3. stock'[m] = [stock[m] EXCEPT !.prepared = FALSE] /\ ~stock'[m].prepared
      BY <2>1, <2>2, <3>1 DEF Reg!Entry
    <3>4. QED
      BY <2>1, <3>1, <3>2, <3>3
  <2>3. CASE stock[m] # [prepared |-> TRUE, device |-> job[j].row]
    BY <2>1, <2>3 DEF Reg!Reuse
  <2>4. QED
    BY <2>2, <2>3
<1>5. Reg!TypeOK'
  BY <1>1, <1>2, <1>4 DEF RegInv, Reg!TypeOK, OneRequest
<1>6. JobsAreSound'
  BY <1>2, <1>3, FreeRequest DEF RegInv, JobsAreSound, OneRequest, Vanishing
<1>7. ReturnsAreAlone'
  BY <1>1, <1>2, <1>3, FreeRequest DEF RegInv, ReturnsAreAlone, OneRequest, Vanishing
<1>8. RestoredIsOvertaken'
  BY <1>1, <1>2, <1>3, FreeRequest
     DEF RegInv, RestoredIsOvertaken, JobsAreSound, OneRequest, Vanishing
<1>9. ASSUME NEW n \in Macs, OnShelf(n)', Healing(n)
      PROVE  Healing(n)'
  <2>1. OnShelf(n) /\ stock'[n] = stock[n] /\ stock[n] \in Reg!Entry
    BY <1>1, <1>4, <1>9 DEF OnShelf, RegInv, Reg!TypeOK
  <2>2. n = m => stock[n].device # job[j].row
    BY <1>4, <2>1 DEF OnShelf, Reg!Entry
  <2>3. QED
    BY <1>2, <1>9, <2>1, <2>2 DEF Healing, OneRequest
<1>10. ShelfIsTrue'
  BY <1>1, <1>2, <1>3, <1>4, <1>9, FreeRequest
     DEF RegInv, ShelfIsTrue, OnShelf, Reg!At, OneRequest, Vanishing
<1>11. Reg!DemoMakesRoom'
  BY <1>1, <1>2, FreeRequest
     DEF RegInv, Reg!RegistryIsSound, Reg!DemoMakesRoom, Reg!Arriving, Reg!Of, Reg!Known, OneRequest
<1>12. QED
  BY <1>1, <1>3, <1>5, <1>6, <1>7, <1>8, <1>10, <1>11, VanishingKeepsRows
     DEF RegInv, Reg!RegistryIsSound

LEMMA ReturnKeeps ==
    ASSUME RegInv, NEW j \in Jobs, NEW r \in Reg!Known, Reg!Return(j, r)
    PROVE  RegInv'
<1> DEFINE m == Reg!MacOf(devices[r])
<1>1. /\ UNCHANGED <<devices, stock, demo, kept, was, overtaken, blurred>>
      /\ acts' \in 0..MaxActs /\ slips' \in 0..MaxSlips
  BY RegistryAssumption DEF Reg!Return, Reg!Act, Reg!Ordered, Reg!history, RegInv, Reg!TypeOK
<1>2. /\ r \in Ids /\ devices[r] \in Reg!Row /\ devices[r].kind = "real"
      /\ m \in Macs
  BY RowsAreRows DEF RegInv, Reg!Return, Reg!MacOf, Reg!Row
<1>3. /\ OneRequest(j) /\ job[j] = Reg!Free
      /\ job'[j].op = "return" /\ job'[j].at = "suspend" /\ job'[j].row = r /\ job'[j].unit = m
      /\ job'[j].user = None /\ job'[j].on = devices[r].on
  BY <1>2 DEF Reg!Return, Reg!Vacant, RegInv, Reg!TypeOK, OneRequest, Reg!Free, Reg!Request, Reg!Row
<1>4. Vanishing /\ Remembered
  BY <1>1, StayingVanishes DEF RegInv
<1>5. Reg!TypeOK'
  BY <1>1, <1>3 DEF RegInv, Reg!TypeOK, OneRequest
<1>6. JobsAreSound'
  BY <1>2, <1>3, <1>4 DEF RegInv, JobsAreSound, OneRequest, Vanishing
<1>7. ASSUME NEW h \in Reg!Known, devices[h].uid = m, m \notin blurred
      PROVE  devices[r].on /\ h = r
  <2>1. devices[h].on /\ m # None
    BY <1>2, <1>7, NoneIsNothing DEF RegInv, UnitsAreHeldOnce
  <2>2. devices[r].on
    <3>1. CASE h = r
      BY <2>1, <3>1
    <3>2. CASE h # r
      BY <1>7, <2>1, <3>2 DEF Reg!Return, Reg!Holder
    <3>3. QED
      BY <3>1, <3>2
  <2>3. devices[r].uid = m
    BY <2>2 DEF Reg!MacOf
  <2>4. QED
    BY <1>7, <2>1, <2>2, <2>3 DEF RegInv, UnitsAreHeldOnce
<1>8. ReturnsAreAlone'
  BY <1>1, <1>3, <1>4, <1>7 DEF RegInv, ReturnsAreAlone, OneRequest, Vanishing
<1>9. RestoredIsOvertaken'
  BY <1>1, <1>3, <1>4 DEF RegInv, RestoredIsOvertaken, JobsAreSound, OneRequest, Vanishing
<1>10. ShelfIsTrue'
  BY <1>1, <1>3, <1>4, FreeRequest
     DEF RegInv, ShelfIsTrue, OnShelf, Healing, Reg!At, OneRequest, Vanishing
<1>11. Reg!DemoMakesRoom'
  BY <1>1, <1>3, FreeRequest
     DEF RegInv, Reg!RegistryIsSound, Reg!DemoMakesRoom, Reg!Arriving, Reg!Of, Reg!Known, OneRequest
<1>12. QED
  BY <1>1, <1>4, <1>5, <1>6, <1>8, <1>9, <1>10, <1>11, VanishingKeepsRows
     DEF RegInv, Reg!RegistryIsSound

LEMMA TransferKeeps ==
    ASSUME RegInv, NEW j \in Jobs, NEW r \in Reg!Known, NEW u \in Customers,
           NEW d \in Digits \cup {None}, Reg!Transfer(j, r, u, d)
    PROVE  RegInv'
<1>1. /\ UNCHANGED <<stock, demo, overtaken, blurred>> /\ Reg!CleanUp(u) /\ acts' \in 0..MaxActs
      /\ devices[r].kind = "real"
  BY RegistryAssumption DEF Reg!Transfer, Reg!Ordered, RegInv, Reg!TypeOK
<1>2. r \in Ids
  BY DEF Reg!Known
<1>3. /\ OneRequest(j) /\ job[j] = Reg!Free
      /\ job'[j].op = "transfer" /\ job'[j].at = "insert" /\ job'[j].row = r /\ job'[j].user = u
  BY <1>2 DEF Reg!Transfer, Reg!Vacant, RegInv, Reg!TypeOK, OneRequest, Reg!Free, Reg!Request
<1>4. QED
  BY <1>1, <1>3, ArrivalBegins

LEMMA ListReturnedKeeps ==
    ASSUME RegInv, NEW j \in Jobs, Reg!ListReturned(j)
    PROVE  RegInv'
<1> DEFINE m == job[j].unit
           r == job[j].row
<1>1. UNCHANGED <<devices, demo, kept, was, overtaken, blurred, acts, slips>>
  BY DEF Reg!ListReturned, Reg!Later, Reg!history
<1>2. /\ OneRequest(j) /\ job[j].op = "return" /\ job[j].at = "list"
      /\ job'[j].op = "return" /\ job'[j].at = "stamp" /\ job'[j].row = r /\ job'[j].unit = m
      /\ job'[j].on = job[j].on /\ job'[j].user = job[j].user
  BY MovesOn DEF Reg!ListReturned, Reg!At, Reg!Move, RegInv, Reg!TypeOK, OneRequest
<1>3. Vanishing /\ Remembered
  BY <1>1, StayingVanishes DEF RegInv
<1>4. m \in Macs /\ r \in Reg!Known /\ r \in Ids
  BY <1>2 DEF RegInv, JobsAreSound, Reg!Known
<1>5. /\ stock' \in [Macs -> Reg!Entry \cup {None}]
      /\ \A n \in Macs \ {m} : stock'[n] = stock[n]
      /\ stock'[m].device = r
  BY <1>2, <1>4 DEF Reg!ListReturned, Reg!Entry, RegInv, Reg!TypeOK
<1>6. Reg!TypeOK'
  BY <1>1, <1>2, <1>5 DEF RegInv, Reg!TypeOK, OneRequest
<1>7. JobsAreSound'
  BY <1>2, <1>3, <1>4 DEF RegInv, JobsAreSound, OneRequest, Vanishing
<1>8. ReturnsAreAlone'
  BY <1>1, <1>2, <1>3 DEF RegInv, ReturnsAreAlone, OneRequest, Vanishing
<1>9. RestoredIsOvertaken'
  BY <1>1, <1>2, <1>3 DEF RegInv, RestoredIsOvertaken, JobsAreSound, OneRequest, Vanishing
<1>10. ASSUME NEW n \in Macs \ {m}, Healing(n)
       PROVE  Healing(n)'
  BY <1>2, <1>5, <1>10 DEF Healing, OneRequest
<1>11. ASSUME NEW n \in Macs, OnShelf(n)', NEW q \in Reg!Known'
       PROVE  /\ devices'[q].uid = n => Healing(n)'
              /\ devices'[q].removed = n /\ stock'[n].device = None => Healing(n)'
              /\ devices'[q].removed = n /\ stock'[n].device = q =>
                    \/ devices'[q].returned \/ Healing(n)'
                    \/ \E i \in Jobs : Reg!At(i, "return", "stamp")' /\ job'[i].row = q /\ job'[i].unit = n
  <2>1. CASE n = m
    <3>1. devices'[q].uid # n
      BY <1>1, <1>2, <1>3, <1>11, <2>1 DEF RegInv, ReturnsAreAlone, OnShelf, Vanishing
    <3>2. stock'[n].device = r /\ r # None
      BY <1>4, <1>5, <2>1, NoneIsNothing
    <3>3. Reg!At(j, "return", "stamp")' /\ job'[j].row = r /\ job'[j].unit = n
      BY <1>2, <2>1 DEF Reg!At
    <3>4. QED
      BY <3>1, <3>2, <3>3
  <2>2. CASE n # m
    BY <1>1, <1>2, <1>3, <1>5, <1>10, <1>11, <2>2
       DEF RegInv, ShelfIsTrue, OnShelf, Reg!At, OneRequest, Vanishing
  <2>3. QED
    BY <2>1, <2>2
<1>12. ShelfIsTrue'
  BY <1>11 DEF ShelfIsTrue
<1>13. Reg!DemoMakesRoom'
  BY <1>1, <1>2, FreeRequest
     DEF RegInv, Reg!RegistryIsSound, Reg!DemoMakesRoom, Reg!Arriving, Reg!Of, Reg!Known, OneRequest
<1>14. QED
  BY <1>1, <1>3, <1>6, <1>7, <1>8, <1>9, <1>12, <1>13, VanishingKeepsRows
     DEF RegInv, Reg!RegistryIsSound

-----------------------------------------------------------------------------
(* The inventory, and the death of the process *)

LEMMA NoteKeeps ==
    ASSUME RegInv, NEW m \in Macs, Reg!Note(m)
    PROVE  RegInv'
<1>1. /\ UNCHANGED <<devices, demo, job, kept, was, overtaken>>
      /\ acts' \in 0..MaxActs /\ slips' \in 0..MaxSlips
  BY RegistryAssumption DEF Reg!Note, Reg!Slip, Reg!Ordered, Reg!Slips, RegInv, Reg!TypeOK
<1>2. Vanishing /\ Remembered
  BY <1>1, StayingVanishes DEF RegInv
<1>3. /\ stock' \in [Macs -> Reg!Entry \cup {None}]
      /\ \A n \in Macs \ {m} : stock'[n] = stock[n]
      /\ stock'[m].device = None
  BY DEF Reg!Note, Reg!Entry, RegInv, Reg!TypeOK
<1>4. /\ blurred' \subseteq Macs /\ blurred \subseteq blurred'
      /\ m \notin blurred' => \A r \in Reg!Known : devices[r].uid # m /\ devices[r].removed # m
  BY DEF Reg!Note, RegInv, Reg!TypeOK
<1>5. Reg!TypeOK'
  BY <1>1, <1>3, <1>4 DEF RegInv, Reg!TypeOK
<1>6. ShelfIsTrue'
  BY <1>1, <1>2, <1>3, <1>4 DEF RegInv, ShelfIsTrue, OnShelf, Healing, Reg!At, Vanishing
<1>7. Reg!DemoMakesRoom'
  BY <1>1 DEF RegInv, Reg!RegistryIsSound, Reg!DemoMakesRoom, Reg!Arriving, Reg!Of, Reg!Known
<1>8. QED
  BY <1>1, <1>2, <1>4, <1>5, <1>6, <1>7, VanishingKeepsRows, VanishingKeepsRequests
     DEF RegInv, Reg!RegistryIsSound

LEMMA UnlistKeeps ==
    ASSUME RegInv, NEW m \in Macs, Reg!Unlist(m)
    PROVE  RegInv'
<1>1. /\ UNCHANGED <<devices, demo, job, kept, was, overtaken, blurred>>
      /\ acts' \in 0..MaxActs /\ slips' \in 0..MaxSlips
  BY RegistryAssumption DEF Reg!Unlist, Reg!Slip, Reg!Ordered, Reg!Slips, Reg!history, RegInv, Reg!TypeOK
<1>2. Vanishing /\ Remembered
  BY <1>1, StayingVanishes DEF RegInv
<1>3. /\ stock' \in [Macs -> Reg!Entry \cup {None}]
      /\ \A n \in Macs \ {m} : stock'[n] = stock[n]
      /\ stock'[m] = None
  BY DEF Reg!Unlist, RegInv, Reg!TypeOK
<1>4. Reg!TypeOK'
  BY <1>1, <1>3 DEF RegInv, Reg!TypeOK
<1>5. ShelfIsTrue'
  BY <1>1, <1>2, <1>3 DEF RegInv, ShelfIsTrue, OnShelf, Healing, Reg!At, Vanishing
<1>6. Reg!DemoMakesRoom'
  BY <1>1 DEF RegInv, Reg!RegistryIsSound, Reg!DemoMakesRoom, Reg!Arriving, Reg!Of, Reg!Known
<1>7. QED
  BY <1>1, <1>2, <1>4, <1>5, <1>6, VanishingKeepsRows, VanishingKeepsRequests
     DEF RegInv, Reg!RegistryIsSound

\* Requests that would still have written the inventory leave their unit to nobody.
LEMMA CrashKeeps ==
    ASSUME RegInv, Reg!Crash
    PROVE  RegInv'
<1>1. /\ UNCHANGED <<devices, stock, kept, was, overtaken>>
      /\ acts' \in 0..MaxActs /\ slips' \in 0..MaxSlips
      /\ demo' \in [Customers -> {"idle", "clear", "create"}]
  BY RegistryAssumption DEF Reg!Crash, Reg!Slip, Reg!Ordered, Reg!Slips, RegInv, Reg!TypeOK
<1>2. job' \in [Jobs -> Reg!Request] /\ \A j \in Jobs : job'[j] = Reg!Free
  BY FreeRequest DEF Reg!Crash
<1>3. Vanishing /\ Remembered
  BY <1>1, StayingVanishes DEF RegInv
<1>4. ASSUME NEW j \in Jobs, job[j].at \in {"stock", "stamp"}
      PROVE  job[j].unit \in blurred'
  BY <1>4 DEF Reg!Crash
<1>5. blurred \subseteq blurred'
  BY DEF Reg!Crash
<1>6. blurred' \subseteq Macs
  BY DEF Reg!Crash, RegInv, JobsAreSound, Reg!TypeOK
<1>7. Reg!TypeOK'
  BY <1>1, <1>2, <1>6 DEF RegInv, Reg!TypeOK
<1>8. JobsAreSound' /\ ReturnsAreAlone' /\ RestoredIsOvertaken'
  BY <1>2, FreeRequest DEF JobsAreSound, ReturnsAreAlone, RestoredIsOvertaken
<1>9. ASSUME NEW m \in Macs, m \notin blurred'
      PROVE  ~Healing(m) /\ \A j \in Jobs : ~(Reg!At(j, "return", "stamp") /\ job[j].unit = m)
  BY <1>4, <1>9 DEF Healing, Reg!At
<1>10. ShelfIsTrue'
  BY <1>1, <1>3, <1>5, <1>9 DEF RegInv, ShelfIsTrue, OnShelf, Vanishing
<1>11. Reg!DemoMakesRoom'
  BY <1>1, <1>2, FreeRequest
     DEF RegInv, Reg!RegistryIsSound, Reg!DemoMakesRoom, Reg!Arriving, Reg!Of, Reg!Known
<1>12. QED
  BY <1>1, <1>3, <1>5, <1>7, <1>8, <1>10, <1>11, VanishingKeepsRows DEF RegInv, Reg!RegistryIsSound

-----------------------------------------------------------------------------
(* Changes of one row *)

OneRow(r) ==
    /\ devices' \in [Ids -> Reg!Row \cup {None}]
    /\ r \in Reg!Known /\ Reg!Known' = Reg!Known /\ devices'[r] \in Reg!Row
    /\ \A q \in Ids \ {r} : devices'[q] = devices[q]

LEMMA OneRowChanges ==
    ASSUME Reg!TypeOK, NEW r \in Reg!Known, NEW x \in Reg!Row, devices' = [devices EXCEPT ![r] = x]
    PROVE  OneRow(r) /\ devices'[r] = x
<1>1. r \in Ids /\ devices \in [Ids -> Reg!Row \cup {None}] /\ x # None
  BY NoneIsNothing DEF Reg!TypeOK, Reg!Known
<1>2. Reg!Known' = Reg!Known
  BY <1>1 DEF Reg!Known
<1>3. QED
  BY <1>1, <1>2 DEF OneRow

LEMMA StampReturnedKeeps ==
    ASSUME RegInv, NEW j \in Jobs, Reg!StampReturned(j)
    PROVE  RegInv'
<1> DEFINE r == job[j].row
           x == [devices[r] EXCEPT !.returned = TRUE]
<1>1. UNCHANGED <<stock, demo, kept, was, overtaken, blurred, acts, slips>>
  BY DEF Reg!StampReturned, Reg!Later, Reg!history
<1>2. OneRequest(j) /\ job[j].op = "return" /\ job[j].at = "stamp" /\ job'[j] = Reg!Free
  BY FreeRequest DEF Reg!StampReturned, Reg!At, Reg!Done, RegInv, Reg!TypeOK, OneRequest
<1>3. r \in Reg!Known /\ r \in Ids /\ devices[r] \in Reg!Row
  BY <1>2, RowsAreRows DEF RegInv, JobsAreSound
<1>4. /\ x \in Reg!Row /\ x.returned
      /\ x.kind = devices[r].kind /\ x.owner = devices[r].owner /\ x.uid = devices[r].uid
      /\ x.removed = devices[r].removed /\ x.on = devices[r].on /\ x.live = devices[r].live
      /\ x.digit = devices[r].digit /\ x.stash = devices[r].stash
  BY <1>3 DEF Reg!Row
<1>5. devices' = [devices EXCEPT ![r] = x]
  BY DEF Reg!StampReturned
<1> HIDE DEF x
<1>6. OneRow(r) /\ devices'[r] = x
  BY <1>3, <1>4, <1>5, OneRowChanges DEF RegInv
<1>7. Reg!TypeOK'
  BY <1>1, <1>2, <1>6 DEF RegInv, Reg!TypeOK, OneRequest, OneRow
<1>8. JobsAreSound'
  BY <1>2, <1>3, <1>4, <1>6, FreeRequest DEF RegInv, JobsAreSound, OneRequest, OneRow, Reg!Known
<1>9. UnitsAreHeldOnce'
  BY <1>1, <1>3, <1>4, <1>6 DEF RegInv, UnitsAreHeldOnce, OneRow, Reg!Known
<1>10. ReturnsAreAlone'
  BY <1>1, <1>2, <1>3, <1>4, <1>6, FreeRequest DEF RegInv, ReturnsAreAlone, OneRequest, OneRow, Reg!Known
<1>11. RestoredIsOvertaken'
  BY <1>1, <1>2, <1>3, <1>4, <1>6, FreeRequest
     DEF RegInv, RestoredIsOvertaken, JobsAreSound, OneRequest, OneRow, Reg!Known
<1>12. ASSUME NEW m \in Macs, Healing(m)
       PROVE  Healing(m)'
  BY <1>1, <1>2, <1>12 DEF Healing, OneRequest
<1>13. ShelfIsTrue'
  BY <1>1, <1>2, <1>3, <1>4, <1>6, <1>12
     DEF RegInv, ShelfIsTrue, OnShelf, Reg!At, OneRequest, OneRow, Reg!Known
<1>14. StashIsKept'
  BY <1>1, <1>3, <1>4, <1>6 DEF RegInv, StashIsKept, OneRow, Reg!Known
<1>15. Reg!ReturnedIsSuspended'
  BY <1>1, <1>2, <1>3, <1>4, <1>6
     DEF RegInv, RestoredIsOvertaken, Reg!RegistryIsSound, Reg!ReturnedIsSuspended, OneRow, Reg!Known
<1>16. Reg!DemoMakesRoom'
  BY <1>1, <1>2, <1>3, <1>4, <1>6, FreeRequest
     DEF RegInv, Reg!RegistryIsSound, Reg!DemoMakesRoom, Reg!Arriving, Reg!Of, OneRequest, OneRow, Reg!Known
<1>17. QED
  BY <1>7, <1>8, <1>9, <1>10, <1>11, <1>13, <1>14, <1>15, <1>16 DEF RegInv, Reg!RegistryIsSound

-----------------------------------------------------------------------------
(* Digits and owners *)

\* The row goes on holding its unit, in or out of service.
SameService(r) ==
    /\ devices'[r].kind = devices[r].kind /\ devices'[r].uid = devices[r].uid
    /\ devices'[r].removed = devices[r].removed /\ devices'[r].on = devices[r].on
    /\ devices'[r].returned = devices[r].returned

LEMMA SameServiceKeepsUnits ==
    ASSUME RegInv, NEW r \in Reg!Known, OneRow(r), SameService(r), blurred' = blurred, overtaken' = overtaken
    PROVE  UnitsAreHeldOnce' /\ Reg!ReturnedIsSuspended'
<1>1. UnitsAreHeldOnce'
  BY DEF RegInv, UnitsAreHeldOnce, OneRow, SameService, Reg!Known
<1>2. Reg!ReturnedIsSuspended'
  BY DEF RegInv, Reg!RegistryIsSound, Reg!ReturnedIsSuspended, OneRow, SameService, Reg!Known
<1>3. QED
  BY <1>1, <1>2

LEMMA SameServiceKeepsRequests ==
    ASSUME RegInv, NEW r \in Reg!Known, OneRow(r), SameService(r), blurred' = blurred, overtaken' = overtaken,
           job' = job, stock' = stock
    PROVE  JobsAreSound' /\ ReturnsAreAlone' /\ RestoredIsOvertaken' /\ ShelfIsTrue'
<1>1. JobsAreSound'
  BY DEF RegInv, JobsAreSound, OneRow, SameService, Reg!Known
<1>2. ReturnsAreAlone'
  BY DEF RegInv, ReturnsAreAlone, OneRow, SameService, Reg!Known
<1>3. RestoredIsOvertaken'
  BY DEF RegInv, RestoredIsOvertaken, JobsAreSound, OneRow, SameService, Reg!Known
<1>4. ShelfIsTrue'
  BY DEF RegInv, ShelfIsTrue, OnShelf, Healing, Reg!At, OneRow, SameService, Reg!Known
<1>5. QED
  BY <1>1, <1>2, <1>3, <1>4

LEMMA PatchDigitKeeps ==
    ASSUME RegInv, NEW r \in Reg!Known, NEW d \in Digits, Reg!PatchDigit(r, d)
    PROVE  RegInv'
<1> DEFINE x == [devices[r] EXCEPT !.digit = d]
<1>1. /\ UNCHANGED <<stock, demo, job, kept, was, overtaken, blurred>>
      /\ acts' \in 0..MaxActs /\ slips' \in 0..MaxSlips
  BY RegistryAssumption DEF Reg!PatchDigit, Reg!Act, Reg!Ordered, RegInv, Reg!TypeOK
<1>2. r \in Ids /\ devices[r] \in Reg!Row
  BY RowsAreRows DEF RegInv
<1>3. /\ x \in Reg!Row /\ x.digit # None /\ x.stash = devices[r].stash /\ x.live = devices[r].live
      /\ x.kind = devices[r].kind /\ x.owner = devices[r].owner /\ x.uid = devices[r].uid
      /\ x.removed = devices[r].removed /\ x.on = devices[r].on /\ x.returned = devices[r].returned
  BY <1>2, NoneIsNothing DEF Reg!Row
<1>4. devices' = [devices EXCEPT ![r] = x]
  BY DEF Reg!PatchDigit
<1> HIDE DEF x
<1>5. OneRow(r) /\ devices'[r] = x
  BY <1>3, <1>4, OneRowChanges DEF RegInv
<1>6. SameService(r)
  BY <1>3, <1>5 DEF SameService
<1>7. Reg!TypeOK'
  BY <1>1, <1>5 DEF RegInv, Reg!TypeOK, OneRow
<1>8. StashIsKept'
  BY <1>1, <1>2, <1>3, <1>5 DEF RegInv, StashIsKept, OneRow, Reg!Known
<1>9. Reg!DemoMakesRoom'
  BY <1>1, <1>2, <1>3, <1>5 DEF RegInv, Reg!RegistryIsSound, Reg!DemoMakesRoom, Reg!Arriving, Reg!Of, OneRow, Reg!Known
<1>10. QED
  BY <1>1, <1>5, <1>6, <1>7, <1>8, <1>9, SameServiceKeepsUnits, SameServiceKeepsRequests
     DEF RegInv, Reg!RegistryIsSound

LEMMA CreateRelayKeeps ==
    ASSUME RegInv, NEW r \in Reg!Known, NEW d \in Digits, Reg!CreateRelay(r, d)
    PROVE  RegInv'
<1> DEFINE x == [devices[r] EXCEPT !.live = TRUE, !.digit = d]
<1>1. /\ UNCHANGED <<stock, demo, job, kept, was, overtaken, blurred>> /\ ~devices[r].live
      /\ acts' \in 0..MaxActs /\ slips' \in 0..MaxSlips
  BY RegistryAssumption DEF Reg!CreateRelay, Reg!Act, Reg!Ordered, Reg!history, RegInv, Reg!TypeOK
<1>2. r \in Ids /\ devices[r] \in Reg!Row /\ devices \in [Ids -> Reg!Row \cup {None}]
  BY RowsAreRows DEF RegInv, Reg!TypeOK
<1>3. /\ x \in Reg!Row /\ x.digit # None /\ x.stash = devices[r].stash /\ x.live
      /\ x.kind = devices[r].kind /\ x.owner = devices[r].owner /\ x.uid = devices[r].uid
      /\ x.removed = devices[r].removed /\ x.on = devices[r].on /\ x.returned = devices[r].returned
  BY <1>2, NoneIsNothing DEF Reg!Row
<1>4. devices' = [devices EXCEPT ![r] = x]
  BY <1>2 DEF Reg!CreateRelay
<1> HIDE DEF x
<1>5. OneRow(r) /\ devices'[r] = x
  BY <1>3, <1>4, OneRowChanges DEF RegInv
<1>6. SameService(r)
  BY <1>3, <1>5 DEF SameService
<1>7. Reg!TypeOK'
  BY <1>1, <1>5 DEF RegInv, Reg!TypeOK, OneRow
<1>8. StashIsKept'
  BY <1>1, <1>2, <1>3, <1>5 DEF RegInv, StashIsKept, OneRow, Reg!Known
<1>9. Reg!DemoMakesRoom'
  BY <1>1, <1>2, <1>3, <1>5 DEF RegInv, Reg!RegistryIsSound, Reg!DemoMakesRoom, Reg!Arriving, Reg!Of, OneRow, Reg!Known
<1>10. QED
  BY <1>1, <1>5, <1>6, <1>7, <1>8, <1>9, SameServiceKeepsUnits, SameServiceKeepsRequests
     DEF RegInv, Reg!RegistryIsSound

LEMMA DeleteRelayKeeps ==
    ASSUME RegInv, NEW r \in Reg!Known, Reg!DeleteRelay(r)
    PROVE  RegInv'
<1> DEFINE x == [devices[r] EXCEPT !.live = FALSE, !.digit = None]
<1>1. /\ UNCHANGED <<stock, demo, job, kept, overtaken, blurred>>
      /\ acts' \in 0..MaxActs /\ slips' \in 0..MaxSlips
  BY RegistryAssumption DEF Reg!DeleteRelay, Reg!Act, Reg!Ordered, RegInv, Reg!TypeOK
<1>2. r \in Ids /\ devices[r] \in Reg!Row /\ devices \in [Ids -> Reg!Row \cup {None}]
  BY RowsAreRows DEF RegInv, Reg!TypeOK
<1>3. /\ x \in Reg!Row /\ x.stash = devices[r].stash /\ ~x.live
      /\ x.kind = devices[r].kind /\ x.owner = devices[r].owner /\ x.uid = devices[r].uid
      /\ x.removed = devices[r].removed /\ x.on = devices[r].on /\ x.returned = devices[r].returned
  BY <1>2 DEF Reg!Row
<1>4. devices' = [devices EXCEPT ![r] = x]
  BY <1>2 DEF Reg!DeleteRelay
<1> HIDE DEF x
<1>5. OneRow(r) /\ devices'[r] = x
  BY <1>3, <1>4, OneRowChanges DEF RegInv
<1>6. SameService(r)
  BY <1>3, <1>5 DEF SameService
<1>7. /\ was' \in [Ids -> [uid : Macs \cup {None}, digit : Digits \cup {None}]]
      /\ \A q \in Ids \ {r} : was'[q] = was[q]
      /\ was'[r].uid = was[r].uid /\ was'[r].digit = None
  BY <1>2 DEF Reg!DeleteRelay, RegInv, Reg!TypeOK
<1>8. Reg!TypeOK'
  BY <1>1, <1>5, <1>7 DEF RegInv, Reg!TypeOK, OneRow
<1>9. StashIsKept'
  BY <1>2, <1>3, <1>5, <1>7 DEF RegInv, StashIsKept, OneRow, Reg!Known
<1>10. Reg!DemoMakesRoom'
  BY <1>1, <1>2, <1>3, <1>5 DEF RegInv, Reg!RegistryIsSound, Reg!DemoMakesRoom, Reg!Arriving, Reg!Of, OneRow, Reg!Known
<1>11. QED
  BY <1>1, <1>5, <1>6, <1>8, <1>9, <1>10, SameServiceKeepsUnits, SameServiceKeepsRequests
     DEF RegInv, Reg!RegistryIsSound

LEMMA MoveDeviceKeeps ==
    ASSUME RegInv, NEW j \in Jobs, Reg!MoveDevice(j)
    PROVE  RegInv'
<1> DEFINE r == job[j].row
           d == IF devices[r].digit = None \/ job[j].digit = None THEN devices[r].digit ELSE job[j].digit
           moved == [devices[r] EXCEPT !.owner = job[j].user, !.digit = d]
<1>1. UNCHANGED <<stock, demo, kept, was, overtaken, blurred, acts, slips>>
  BY DEF Reg!MoveDevice, Reg!Later, Reg!history
<1>2. OneRequest(j) /\ job[j].op = "transfer" /\ job'[j] = Reg!Free /\ job[j].user \in Customers \cup {None}
  BY FreeRequest DEF Reg!MoveDevice, Reg!At, Reg!Done, RegInv, Reg!TypeOK, OneRequest, Reg!Request
<1>3. r \in Reg!Known /\ r \in Ids /\ devices[r] \in Reg!Row /\ devices[r].kind = "real"
  BY <1>2, RowsAreRows DEF RegInv, JobsAreSound
<1>4. d \in Digits \cup {None} /\ job[j].user \in Customers
  BY <1>2, <1>3 DEF RegInv, JobsAreSound, Reg!TypeOK, Reg!Request, Reg!Row
<1>5. /\ moved \in Reg!Row /\ moved.owner = job[j].user
      /\ moved.kind = devices[r].kind /\ moved.uid = devices[r].uid /\ moved.removed = devices[r].removed
      /\ moved.on = devices[r].on /\ moved.returned = devices[r].returned
      /\ moved.live = devices[r].live /\ moved.stash = devices[r].stash
  BY <1>3, <1>4 DEF Reg!Row
<1>6. devices' = devices \/ devices' = [devices EXCEPT ![r] = moved]
  BY <1>3 DEF Reg!MoveDevice, RegInv, Reg!TypeOK
<1>7. PICK x \in Reg!Row :
        /\ devices' = [devices EXCEPT ![r] = x]
        /\ x.owner \in {devices[r].owner, job[j].user}
        /\ x.kind = devices[r].kind /\ x.uid = devices[r].uid /\ x.removed = devices[r].removed
        /\ x.on = devices[r].on /\ x.returned = devices[r].returned
        /\ x.live = devices[r].live /\ x.stash = devices[r].stash
  <2>1. CASE devices' = devices
    <3>1. devices' = [devices EXCEPT ![r] = devices[r]]
      BY <1>3, <2>1 DEF RegInv, Reg!TypeOK
    <3>2. QED
      BY <1>3, <3>1
  <2>2. CASE devices' = [devices EXCEPT ![r] = moved]
    <3> HIDE DEF moved
    <3>1. QED
      BY <1>4, <1>5, <2>2
  <2>3. QED
    BY <1>6, <2>1, <2>2
<1> HIDE DEF moved, d
<1>8. OneRow(r) /\ devices'[r] = x
  BY <1>3, <1>7, OneRowChanges DEF RegInv
<1>9. SameService(r)
  BY <1>7, <1>8 DEF SameService
<1>10. Reg!TypeOK'
  BY <1>1, <1>2, <1>8 DEF RegInv, Reg!TypeOK, OneRequest, OneRow
<1>11. JobsAreSound'
  BY <1>2, <1>3, <1>7, <1>8, FreeRequest DEF RegInv, JobsAreSound, OneRequest, OneRow, Reg!Known
<1>12. ReturnsAreAlone'
  BY <1>1, <1>2, <1>3, <1>7, <1>8, FreeRequest
     DEF RegInv, ReturnsAreAlone, OneRequest, OneRow, Reg!Known
<1>13. RestoredIsOvertaken'
  BY <1>1, <1>2, <1>3, <1>7, <1>8, FreeRequest
     DEF RegInv, RestoredIsOvertaken, JobsAreSound, OneRequest, OneRow, Reg!Known
<1>14. ASSUME NEW m \in Macs, Healing(m)
       PROVE  Healing(m)'
  BY <1>1, <1>2, <1>14 DEF Healing, OneRequest
<1>15. ShelfIsTrue'
  BY <1>1, <1>2, <1>3, <1>7, <1>8, <1>14
     DEF RegInv, ShelfIsTrue, OnShelf, Reg!At, OneRequest, OneRow, Reg!Known
<1>16. StashIsKept'
  BY <1>1, <1>3, <1>7, <1>8 DEF RegInv, StashIsKept, OneRow, Reg!Known
<1>17. Reg!DemoMakesRoom'
  BY <1>1, <1>2, <1>3, <1>7, <1>8, FreeRequest
     DEF RegInv, Reg!RegistryIsSound, Reg!DemoMakesRoom, Reg!Arriving, Reg!Of, OneRequest, OneRow, Reg!Known
<1>18. UnitsAreHeldOnce' /\ Reg!ReturnedIsSuspended'
  BY <1>1, <1>3, <1>8, <1>9, SameServiceKeepsUnits
<1>19. QED
  BY <1>10, <1>11, <1>12, <1>13, <1>15, <1>16, <1>17, <1>18 DEF RegInv, Reg!RegistryIsSound

-----------------------------------------------------------------------------
(* Removal and recovery *)

\* The admin types in a unit.
LEMMA SetUidKeeps ==
    ASSUME RegInv, NEW r \in Reg!Known, NEW m \in Macs, Reg!SetUid(r, m)
    PROVE  RegInv'
<1> DEFINE x == [devices[r] EXCEPT !.uid = m]
<1>1. /\ UNCHANGED <<stock, demo, job, kept, was, overtaken>>
      /\ acts' \in 0..MaxActs /\ slips' \in 0..MaxSlips
      /\ blurred' = blurred \cup {m} /\ Reg!Holder(m) = {} /\ devices[r].uid = None
  BY RegistryAssumption DEF Reg!SetUid, Reg!Slip, Reg!Ordered, Reg!Slips, RegInv, Reg!TypeOK
<1>2. r \in Ids /\ devices[r] \in Reg!Row
  BY RowsAreRows DEF RegInv
<1>3. /\ x \in Reg!Row /\ x.uid = m /\ x.digit = devices[r].digit /\ x.stash = devices[r].stash
      /\ x.live = devices[r].live /\ x.kind = devices[r].kind /\ x.owner = devices[r].owner
      /\ x.removed = devices[r].removed /\ x.on = devices[r].on /\ x.returned = devices[r].returned
  BY <1>2 DEF Reg!Row
<1>4. devices' = [devices EXCEPT ![r] = x]
  BY DEF Reg!SetUid
<1> HIDE DEF x
<1>5. OneRow(r) /\ devices'[r] = x
  BY <1>3, <1>4, OneRowChanges DEF RegInv
<1>6. Reg!TypeOK'
  BY <1>1, <1>5 DEF RegInv, Reg!TypeOK, OneRow
<1>7. JobsAreSound'
  BY <1>1, <1>2, <1>3, <1>5 DEF RegInv, JobsAreSound, OneRow, Reg!Known
<1>8. \A h \in Reg!Known : devices[h].uid # m
  BY <1>1 DEF Reg!Holder
<1>9. UnitsAreHeldOnce'
  BY <1>1, <1>2, <1>3, <1>5, <1>8 DEF RegInv, UnitsAreHeldOnce, OneRow, Reg!Known
<1>10. ReturnsAreAlone'
  BY <1>1, <1>2, <1>3, <1>5 DEF RegInv, ReturnsAreAlone, OneRow, Reg!Known
<1>11. RestoredIsOvertaken'
  BY <1>1, <1>2, <1>3, <1>5 DEF RegInv, RestoredIsOvertaken, JobsAreSound, OneRow, Reg!Known
<1>12. ShelfIsTrue'
  BY <1>1, <1>2, <1>3, <1>5 DEF RegInv, ShelfIsTrue, OnShelf, Healing, Reg!At, OneRow, Reg!Known
<1>13. StashIsKept'
  BY <1>1, <1>2, <1>3, <1>5, NoneIsNothing DEF RegInv, StashIsKept, OneRow, Reg!Known
<1>14. Reg!RegistryIsSound'
  <2>1. Reg!ReturnedIsSuspended'
    BY <1>1, <1>2, <1>3, <1>5 DEF RegInv, Reg!RegistryIsSound, Reg!ReturnedIsSuspended, OneRow, Reg!Known
  <2>2. Reg!DemoMakesRoom'
    BY <1>1, <1>2, <1>3, <1>5 DEF RegInv, Reg!RegistryIsSound, Reg!DemoMakesRoom, Reg!Arriving, Reg!Of, OneRow, Reg!Known
  <2>3. QED
    BY <2>1, <2>2 DEF Reg!RegistryIsSound
<1>15. QED
  BY <1>6, <1>7, <1>9, <1>10, <1>11, <1>12, <1>13, <1>14 DEF RegInv

\* What a suspension makes of a row in service, and what it remembers.
LEMMA Suspends ==
    ASSUME RegInv, NEW r \in Reg!Known, devices[r].on, Reg!Suspend(r)
    PROVE  /\ OneRow(r)
           /\ ~devices'[r].on /\ devices'[r].uid = None
           /\ devices'[r].kind = devices[r].kind /\ devices'[r].owner = devices[r].owner
           /\ devices'[r].live = devices[r].live /\ devices'[r].returned = devices[r].returned
           /\ devices'[r].removed = devices[r].uid
           /\ was' \in [Ids -> [uid : Macs \cup {None}, digit : Digits \cup {None}]]
           /\ \A q \in Ids \ {r} : was'[q] = was[q]
           /\ was'[r].uid = devices[r].uid
           /\ was'[r].digit # None => devices[r].live /\ devices'[r].stash = was'[r].digit
<1> DEFINE x == Reg!Stashed(devices[r])
<1>1. r \in Ids /\ devices[r] \in Reg!Row /\ devices[r].removed = None
  BY RowsAreRows DEF RegInv, UnitsAreHeldOnce
<1>2. /\ x \in Reg!Row /\ ~x.on /\ x.uid = None
      /\ x.kind = devices[r].kind /\ x.owner = devices[r].owner /\ x.live = devices[r].live
      /\ x.returned = devices[r].returned /\ x.removed = devices[r].uid
      /\ devices[r].live /\ devices[r].digit # None => x.stash = devices[r].digit
  <2> DEFINE removed == IF devices[r].uid # None THEN devices[r].uid ELSE devices[r].removed
             stash == IF devices[r].live /\ devices[r].digit # None THEN devices[r].digit
                      ELSE devices[r].stash
             digit == IF devices[r].live THEN None ELSE devices[r].digit
  <2>1. /\ removed \in Macs \cup {None} /\ stash \in Digits \cup {None} /\ digit \in Digits \cup {None}
        /\ removed = devices[r].uid
        /\ devices[r].live /\ devices[r].digit # None => stash = devices[r].digit
    BY <1>1 DEF Reg!Row
  <2>2. x = [devices[r] EXCEPT !.on = FALSE, !.removed = removed, !.uid = None, !.stash = stash,
                               !.digit = digit]
    BY DEF Reg!Stashed
  <2> HIDE DEF x, removed, stash, digit
  <2>3. QED
    BY <1>1, <2>1, <2>2 DEF Reg!Row
<1>3. devices' = [devices EXCEPT ![r] = x]
  BY DEF Reg!Suspend
<1> HIDE DEF x
<1>4. OneRow(r) /\ devices'[r] = x
  BY <1>2, <1>3, OneRowChanges DEF RegInv
<1>5. /\ was' \in [Ids -> [uid : Macs \cup {None}, digit : Digits \cup {None}]]
      /\ \A q \in Ids \ {r} : was'[q] = was[q]
      /\ was'[r].uid = devices[r].uid
      /\ was'[r].digit = IF devices[r].live THEN devices[r].digit ELSE None
  BY <1>1 DEF Reg!Suspend, RegInv, Reg!TypeOK, Reg!Row
<1>6. QED
  BY <1>2, <1>4, <1>5

\* A suspension disturbs neither the rows nor the inventory.
LEMMA SuspensionKeepsRows ==
    ASSUME RegInv, NEW r \in Reg!Known, devices[r].on, Reg!Suspend(r),
           UNCHANGED <<stock, demo, kept, overtaken, blurred>>,
           acts' \in 0..MaxActs, slips' \in 0..MaxSlips, job' \in [Jobs -> Reg!Request]
    PROVE  /\ Reg!TypeOK' /\ UnitsAreHeldOnce' /\ StashIsKept'
           /\ Reg!ReturnedIsSuspended'
<1> r \in Ids
  BY RowsAreRows DEF RegInv
<1>1. Reg!TypeOK'
  BY Suspends DEF RegInv, Reg!TypeOK, OneRow
<1>2. UnitsAreHeldOnce'
  BY Suspends DEF RegInv, UnitsAreHeldOnce, OneRow, Reg!Known
<1>3. StashIsKept'
  BY Suspends DEF RegInv, StashIsKept, OneRow, Reg!Known
<1>4. Reg!ReturnedIsSuspended'
  BY Suspends DEF RegInv, Reg!RegistryIsSound, Reg!ReturnedIsSuspended, OneRow, Reg!Known
<1>5. QED
  BY <1>1, <1>2, <1>3, <1>4

LEMMA RemoveKeeps ==
    ASSUME RegInv, NEW r \in Reg!Known, Reg!Remove(r)
    PROVE  RegInv'
<1>1. /\ UNCHANGED <<stock, demo, job, kept, overtaken, blurred>>
      /\ acts' \in 0..MaxActs /\ slips' \in 0..MaxSlips
      /\ devices[r].on /\ Reg!Suspend(r) /\ r \in Ids
  BY RegistryAssumption, RowsAreRows DEF Reg!Remove, Reg!Act, Reg!Ordered, RegInv, Reg!TypeOK
<1>2. /\ OneRow(r) /\ ~devices'[r].on /\ devices'[r].uid = None
      /\ devices'[r].kind = devices[r].kind /\ devices'[r].owner = devices[r].owner
      /\ devices'[r].returned = devices[r].returned /\ devices'[r].removed = devices[r].uid
  BY <1>1, Suspends
<1>3. /\ Reg!TypeOK' /\ UnitsAreHeldOnce' /\ StashIsKept'
      /\ Reg!ReturnedIsSuspended'
  <2>1. job' \in [Jobs -> Reg!Request]
    BY <1>1 DEF RegInv, Reg!TypeOK
  <2>2. QED
    BY <1>1, <2>1, SuspensionKeepsRows
<1>4. JobsAreSound'
  BY <1>1, <1>2 DEF RegInv, JobsAreSound, OneRow, Reg!Known
<1>5. ReturnsAreAlone'
  BY <1>1, <1>2, NoneIsNothing DEF RegInv, ReturnsAreAlone, JobsAreSound, OneRow, Reg!Known
<1>6. RestoredIsOvertaken'
  BY <1>1, <1>2 DEF RegInv, RestoredIsOvertaken, JobsAreSound, OneRow, Reg!Known
<1>7. ShelfIsTrue'
  BY <1>1, <1>2, NoneIsNothing DEF RegInv, ShelfIsTrue, OnShelf, Healing, Reg!At, OneRow, Reg!Known
<1>8. Reg!DemoMakesRoom'
  BY <1>1, <1>2 DEF RegInv, Reg!RegistryIsSound, Reg!DemoMakesRoom, Reg!Arriving, Reg!Of, OneRow, Reg!Known
<1>9. QED
  BY <1>3, <1>4, <1>5, <1>6, <1>7, <1>8 DEF RegInv, Reg!RegistryIsSound

LEMMA SuspendReturnedKeeps ==
    ASSUME RegInv, NEW j \in Jobs, Reg!SuspendReturned(j)
    PROVE  RegInv'
<1> DEFINE r == job[j].row
           m == job[j].unit
<1>1. UNCHANGED <<stock, demo, kept, overtaken, blurred, acts, slips>>
  BY DEF Reg!SuspendReturned, Reg!Later
<1>2. /\ OneRequest(j) /\ job[j].op = "return" /\ job[j].at = "suspend"
      /\ job'[j].op = "return" /\ job'[j].at = "list" /\ job'[j].row = r /\ job'[j].unit = m
      /\ job'[j].on = job[j].on /\ job'[j].user = job[j].user
  BY MovesOn DEF Reg!SuspendReturned, Reg!At, RegInv
<1>3. m \in Macs /\ r \in Reg!Known /\ r \in Ids /\ devices[r].kind = "real" /\ devices[r] \in Reg!Row
  BY <1>2, RowsAreRows DEF RegInv, JobsAreSound
<1>4. /\ acts' \in 0..MaxActs /\ slips' \in 0..MaxSlips /\ job' \in [Jobs -> Reg!Request]
  BY <1>1, <1>2 DEF RegInv, Reg!TypeOK, OneRequest
<1>5. ASSUME NEW n \in Macs, Healing(n)
      PROVE  Healing(n)'
  BY <1>1, <1>2, <1>5 DEF Healing, OneRequest
<1>6. CASE job[j].on /\ devices[r].on
  <2>1. Reg!Suspend(r)
    BY <1>6 DEF Reg!SuspendReturned
  <2>2. /\ OneRow(r) /\ ~devices'[r].on /\ devices'[r].uid = None
        /\ devices'[r].kind = devices[r].kind /\ devices'[r].owner = devices[r].owner
        /\ devices'[r].returned = devices[r].returned /\ devices'[r].removed = devices[r].uid
    BY <1>3, <1>6, <2>1, Suspends
  <2>3. /\ Reg!TypeOK' /\ UnitsAreHeldOnce' /\ StashIsKept'
        /\ Reg!ReturnedIsSuspended'
    BY <1>1, <1>3, <1>4, <1>6, <2>1, SuspensionKeepsRows
  <2>4. JobsAreSound'
    BY <1>2, <1>3, <2>2 DEF RegInv, JobsAreSound, OneRequest, OneRow, Reg!Known
  <2>5. ReturnsAreAlone'
    BY <1>1, <1>2, <1>3, <2>2, NoneIsNothing
       DEF RegInv, ReturnsAreAlone, JobsAreSound, OneRequest, OneRow, Reg!Known
  <2>6. RestoredIsOvertaken'
    BY <1>1, <1>2, <1>3, <2>2
       DEF RegInv, RestoredIsOvertaken, JobsAreSound, OneRequest, OneRow, Reg!Known
  <2>7. ShelfIsTrue'
    BY <1>1, <1>2, <1>3, <1>5, <2>2, NoneIsNothing
       DEF RegInv, ShelfIsTrue, OnShelf, Reg!At, OneRequest, OneRow, Reg!Known
  <2>8. Reg!DemoMakesRoom'
    BY <1>1, <1>2, <1>3, <2>2
       DEF RegInv, Reg!RegistryIsSound, Reg!DemoMakesRoom, Reg!Arriving, Reg!Of, OneRequest, OneRow, Reg!Known
  <2>9. QED
    BY <2>3, <2>4, <2>5, <2>6, <2>7, <2>8 DEF RegInv, Reg!RegistryIsSound
<1>7. CASE ~(job[j].on /\ devices[r].on)
  <2>1. UNCHANGED <<devices, was>>
    BY <1>7 DEF Reg!SuspendReturned
  <2>2. Vanishing /\ Remembered
    BY <2>1, StayingVanishes DEF RegInv
  <2>3. Reg!TypeOK'
    BY <1>1, <1>4, <2>1 DEF RegInv, Reg!TypeOK
  <2>4. JobsAreSound'
    BY <1>2, <2>2 DEF RegInv, JobsAreSound, OneRequest, Vanishing
  <2>5. ReturnsAreAlone'
    <3>1. ASSUME NEW h \in Reg!Known, devices[h].uid = m, m \notin blurred
          PROVE  FALSE
      <4>1. job[j].on /\ h = r
        BY <1>2, <3>1 DEF RegInv, ReturnsAreAlone
      <4>2. m # None
        BY <1>3, NoneIsNothing
      <4>3. devices[h].on
        BY <3>1, <4>2 DEF RegInv, UnitsAreHeldOnce
      <4>4. QED
        BY <1>7, <4>1, <4>3
    <3>2. QED
      BY <1>1, <1>2, <2>2, <3>1 DEF RegInv, ReturnsAreAlone, OneRequest, Vanishing
  <2>6. RestoredIsOvertaken'
    BY <1>1, <1>2, <1>3, <1>7, <2>1 DEF RegInv, RestoredIsOvertaken, OneRequest
  <2>7. ShelfIsTrue'
    BY <1>1, <1>2, <1>5, <2>2 DEF RegInv, ShelfIsTrue, OnShelf, Reg!At, OneRequest, Vanishing
  <2>8. Reg!DemoMakesRoom'
    BY <1>1, <1>2, <2>1
       DEF RegInv, Reg!RegistryIsSound, Reg!DemoMakesRoom, Reg!Arriving, Reg!Of, Reg!Known, OneRequest
  <2>9. QED
    BY <1>1, <2>1, <2>2, <2>3, <2>4, <2>5, <2>6, <2>7, <2>8, VanishingKeepsRows
       DEF RegInv, Reg!RegistryIsSound
<1>8. QED
  BY <1>6, <1>7

\* What a recovery makes of a row.
LEMMA Recovers ==
    ASSUME RegInv, NEW r \in Reg!Known, NEW admin \in BOOLEAN, Reg!Restore(r, admin)
    PROVE  /\ OneRow(r) /\ devices'[r].on /\ ~devices'[r].returned /\ devices'[r].removed = None
           /\ devices'[r].kind = devices[r].kind /\ devices'[r].owner = devices[r].owner
           /\ devices'[r].live = devices[r].live
           /\ devices'[r].uid = IF Reg!UidBack(devices[r]) THEN devices[r].removed ELSE devices[r].uid
           /\ devices'[r].digit = IF Reg!DigitBack(devices[r]) THEN devices[r].stash ELSE devices[r].digit
<1> DEFINE x == Reg!Recovered(devices[r])
           uid == IF Reg!UidBack(devices[r]) THEN devices[r].removed ELSE devices[r].uid
           digit == IF Reg!DigitBack(devices[r]) THEN devices[r].stash ELSE devices[r].digit
           stash == IF devices[r].live THEN None ELSE devices[r].stash
<1>1. r \in Ids /\ devices[r] \in Reg!Row
  BY RowsAreRows DEF RegInv
<1>2. uid \in Macs \cup {None} /\ digit \in Digits \cup {None} /\ stash \in Digits \cup {None}
  BY <1>1 DEF Reg!Row
<1>3. x = [devices[r] EXCEPT !.on = TRUE, !.returned = FALSE, !.uid = uid, !.removed = None,
                             !.digit = digit, !.stash = stash]
  BY DEF Reg!Recovered
<1>4. devices' = [devices EXCEPT ![r] = x]
  BY DEF Reg!Restore
<1> HIDE DEF x, uid, digit, stash
<1>5. /\ x \in Reg!Row /\ x.on /\ ~x.returned /\ x.removed = None /\ x.kind = devices[r].kind
      /\ x.owner = devices[r].owner /\ x.live = devices[r].live /\ x.uid = uid /\ x.digit = digit
  BY <1>1, <1>2, <1>3 DEF Reg!Row
<1>6. OneRow(r) /\ devices'[r] = x
  BY <1>4, <1>5, OneRowChanges DEF RegInv
<1>7. QED
  BY <1>5, <1>6 DEF uid, digit

LEMMA RestoreKeeps ==
    ASSUME RegInv, NEW r \in Reg!Known, NEW admin \in BOOLEAN, Reg!Restore(r, admin)
    PROVE  RegInv'
<1> DEFINE back == Reg!UidBack(devices[r])
           m == devices[r].removed
<1>1. /\ UNCHANGED <<stock, demo, kept, was>>
      /\ acts' \in 0..MaxActs /\ slips' \in 0..MaxSlips
  BY RegistryAssumption DEF Reg!Restore, Reg!Act, Reg!Ordered, RegInv, Reg!TypeOK
<1>2. r \in Ids /\ devices[r] \in Reg!Row /\ (back => m \in Macs /\ devices[r].uid = None)
  BY RowsAreRows DEF RegInv, Reg!UidBack, Reg!Row
<1>3. /\ OneRow(r) /\ devices'[r].on /\ ~devices'[r].returned /\ devices'[r].removed = None
      /\ devices'[r].kind = devices[r].kind /\ devices'[r].owner = devices[r].owner
      /\ devices'[r].live = devices[r].live
      /\ devices'[r].uid = IF back THEN m ELSE devices[r].uid
  BY Recovers
<1>4. /\ job' \in [Jobs -> Reg!Request]
      /\ \A i \in Jobs : \/ job'[i] = job[i]
                         \/ /\ back /\ job[i] = Reg!Free /\ job'[i].op = "reuse" /\ job'[i].at = "stock"
                            /\ job'[i].row = r /\ job'[i].unit = m /\ job'[i].user = None
      /\ back /\ devices[r].returned =>
            \E i \in Jobs : job'[i].op = "reuse" /\ job'[i].at = "stock" /\ job'[i].row = r /\ job'[i].unit = m
  <2>1. CASE back /\ devices[r].returned
    <3> DEFINE request == [Reg!Free EXCEPT !.op = "reuse", !.at = "stock", !.row = r, !.unit = m]
    <3>1. PICK i \in Jobs : Reg!Vacant(i) /\ job' = [job EXCEPT ![i] = request]
      BY <2>1 DEF Reg!Restore
    <3>2. /\ request \in Reg!Request /\ request.op = "reuse" /\ request.at = "stock"
          /\ request.row = r /\ request.unit = m /\ request.user = None
      BY <1>2, <2>1 DEF Reg!Free, Reg!Request
    <3> HIDE DEF request
    <3>3. job \in [Jobs -> Reg!Request] /\ job[i] = Reg!Free
      BY <3>1 DEF RegInv, Reg!TypeOK, Reg!Vacant
    <3>4. QED
      BY <2>1, <3>1, <3>2, <3>3
  <2>2. CASE ~(back /\ devices[r].returned)
    BY <2>2 DEF Reg!Restore, RegInv, Reg!TypeOK
  <2>3. QED
    BY <2>1, <2>2
<1>5. /\ blurred \subseteq blurred' /\ blurred' \subseteq Macs
      /\ \A j \in Jobs : job[j].op = "return" /\ job[j].unit = m => m \in blurred'
      /\ \A q \in Ids \ {r} : m # None /\ stock[m] = [prepared |-> TRUE, device |-> q] => m \in blurred'
  <2>1. blurred' = blurred \cup Reg!Contested(m) \cup Reg!ListedByOther(r)
    BY DEF Reg!Restore
  <2>2. Reg!Contested(m) \subseteq Macs
    BY DEF Reg!Contested, RegInv, JobsAreSound
  <2>3. Reg!ListedByOther(r) \subseteq Macs
    BY <1>2 DEF Reg!ListedByOther, Reg!Row
  <2>4. QED
    BY <2>1, <2>2, <2>3 DEF RegInv, Reg!TypeOK, Reg!Contested, Reg!ListedByOther
<1>6. /\ overtaken' \subseteq Ids /\ overtaken \ {r} \subseteq overtaken'
      /\ \A j \in Jobs : job[j].op = "return" /\ job[j].row = r => r \in overtaken'
  BY <1>2 DEF Reg!Restore, Reg!Returning, RegInv, Reg!TypeOK
<1>7. Reg!TypeOK'
  BY <1>1, <1>3, <1>4, <1>5, <1>6 DEF RegInv, Reg!TypeOK, OneRow
<1>8. JobsAreSound'
  BY <1>2, <1>3, <1>4 DEF RegInv, JobsAreSound, OneRow, Reg!Known
<1>9. UnitsAreHeldOnce'
  <2>1. back => \A h \in Reg!Known : devices[h].uid # m
    BY DEF Reg!UidBack, Reg!Holder
  <2>2. QED
    BY <1>2, <1>3, <1>5, <2>1 DEF RegInv, UnitsAreHeldOnce, OneRow, Reg!Known
<1>10. ReturnsAreAlone'
  BY <1>2, <1>3, <1>4, <1>5 DEF RegInv, ReturnsAreAlone, OneRow, Reg!Known
<1>11. RestoredIsOvertaken'
  BY <1>2, <1>3, <1>4, <1>6 DEF RegInv, RestoredIsOvertaken, JobsAreSound, OneRow, Reg!Known
<1>12. ASSUME NEW n \in Macs, Healing(n)
       PROVE  Healing(n)'
  BY <1>1, <1>4, <1>12, FreeRequest DEF Healing
<1>13. ASSUME NEW n \in Macs, OnShelf(n)', devices'[r].uid = n
       PROVE  Healing(n)'
  <2>1. OnShelf(n) /\ n \notin blurred' /\ stock[n] \in Reg!Entry /\ stock[n].prepared
    BY <1>1, <1>5, <1>13 DEF OnShelf, RegInv, Reg!TypeOK
  <2>2. CASE ~back
    BY <1>3, <1>12, <1>13, <2>1, <2>2 DEF RegInv, ShelfIsTrue
  <2>3. CASE back
    <3>1. n = m
      BY <1>3, <1>13, <2>3
    <3>2. CASE stock[n].device = None
      BY <1>12, <2>1, <3>1, <3>2 DEF RegInv, ShelfIsTrue
    <3>3. CASE stock[n].device = r
      <4>1. \/ devices[r].returned \/ Healing(n)
            \/ \E j \in Jobs : Reg!At(j, "return", "stamp") /\ job[j].row = r /\ job[j].unit = n
        BY <2>1, <3>1, <3>3 DEF RegInv, ShelfIsTrue
      <4>2. devices[r].returned \/ Healing(n)
        BY <1>5, <2>1, <3>1, <4>1 DEF Reg!At
      <4>3. QED
        BY <1>1, <1>4, <1>12, <2>3, <3>1, <3>3, <4>2 DEF Healing
    <3>4. CASE stock[n].device \notin {None, r}
      <4>1. stock[n] = [prepared |-> TRUE, device |-> stock[n].device] /\ stock[n].device \in Ids \ {r}
        BY <2>1, <3>4 DEF Reg!Entry
      <4>2. QED
        BY <1>2, <1>5, <2>1, <2>3, <3>1, <4>1, NoneIsNothing
    <3>5. QED
      BY <3>2, <3>3, <3>4
  <2>4. QED
    BY <2>2, <2>3
<1>14. ASSUME NEW j \in Jobs, Reg!At(j, "return", "stamp")
       PROVE  job'[j] = job[j]
  BY <1>4, <1>14, FreeRequest DEF Reg!At
<1>15. ShelfIsTrue'
  BY <1>1, <1>2, <1>3, <1>5, <1>12, <1>13, <1>14, NoneIsNothing
     DEF RegInv, ShelfIsTrue, OnShelf, Reg!At, OneRow, Reg!Known
<1>16. StashIsKept'
  BY <1>1, <1>2, <1>3 DEF RegInv, StashIsKept, OneRow, Reg!Known
<1>17. Reg!ReturnedIsSuspended'
  BY <1>2, <1>3, <1>6 DEF RegInv, Reg!RegistryIsSound, Reg!ReturnedIsSuspended, OneRow, Reg!Known
<1>18. Reg!DemoMakesRoom'
  BY <1>1, <1>2, <1>3, <1>4 DEF RegInv, Reg!RegistryIsSound, Reg!DemoMakesRoom, Reg!Arriving, Reg!Of, OneRow, Reg!Known
<1>19. QED
  BY <1>7, <1>8, <1>9, <1>10, <1>11, <1>15, <1>16, <1>17, <1>18 DEF RegInv, Reg!RegistryIsSound

-----------------------------------------------------------------------------
(* New rows *)

\* A row comes into service in a free place.
Arrives(r) ==
    /\ devices' \in [Ids -> Reg!Row \cup {None}]
    /\ r \in Ids \ Reg!Known /\ r \in Reg!Known'
    /\ devices'[r].on /\ ~devices'[r].returned /\ devices'[r].removed = None
    /\ \A q \in Reg!Known' \ {r} : q \in Reg!Known /\ devices'[q] = devices[q]
    /\ \A q \in Reg!Known : q \in Reg!Known' /\ devices'[q] = devices[q]

LEMMA ArrivalKeepsRows ==
    ASSUME RegInv, NEW r \in Ids, Arrives(r), blurred \subseteq blurred', overtaken' = overtaken,
           was' = [was EXCEPT ![r] = [uid |-> None, digit |-> None]],
           \A h \in Reg!Known : devices'[r].uid # None => devices[h].uid # devices'[r].uid
    PROVE  /\ UnitsAreHeldOnce' /\ StashIsKept' /\ Reg!ReturnedIsSuspended'
           /\ was' \in [Ids -> [uid : Macs \cup {None}, digit : Digits \cup {None}]]
<1>1. /\ was' \in [Ids -> [uid : Macs \cup {None}, digit : Digits \cup {None}]]
      /\ \A q \in Ids \ {r} : was'[q] = was[q]
  BY DEF RegInv, Reg!TypeOK
<1>2. UnitsAreHeldOnce'
  BY DEF RegInv, UnitsAreHeldOnce, Arrives
<1>3. StashIsKept'
  BY <1>1 DEF RegInv, StashIsKept, Arrives, Reg!Known
<1>4. Reg!ReturnedIsSuspended'
  BY DEF RegInv, Reg!RegistryIsSound, Reg!ReturnedIsSuspended, Arrives
<1>5. QED
  BY <1>1, <1>2, <1>3, <1>4

LEMMA CreateDemoKeeps ==
    ASSUME RegInv, NEW u \in Customers, Reg!CreateDemo(u)
    PROVE  RegInv'
<1>1. PICK r \in Ids :
        /\ Reg!Unused(r)
        /\ devices' = [devices EXCEPT ![r] =
              [kind |-> "demo", owner |-> u, uid |-> None, removed |-> None, on |-> TRUE,
               returned |-> FALSE, live |-> Reg!Digit(u, DemoDigit) = {},
               digit |-> IF Reg!Digit(u, DemoDigit) = {} THEN DemoDigit ELSE None, stash |-> None]]
        /\ was' = [was EXCEPT ![r] = [uid |-> None, digit |-> None]]
  BY DEF Reg!CreateDemo
<1> DEFINE x == [kind |-> "demo", owner |-> u, uid |-> None, removed |-> None, on |-> TRUE,
                 returned |-> FALSE, live |-> Reg!Digit(u, DemoDigit) = {},
                 digit |-> IF Reg!Digit(u, DemoDigit) = {} THEN DemoDigit ELSE None, stash |-> None]
<1>2. /\ UNCHANGED <<stock, job, overtaken, blurred, acts, slips>>
      /\ demo' \in [Customers -> {"idle", "clear", "create"}]
      /\ kept' = IF Reg!Of(u, "real") # {} \/ Reg!Arriving(u) THEN kept \cup {u} ELSE kept
  BY DEF Reg!CreateDemo, Reg!Later, RegInv, Reg!TypeOK
<1>3. /\ x \in Reg!Row /\ x.on /\ ~x.returned /\ x.removed = None /\ x.uid = None /\ x.owner = u
      /\ x.kind = "demo"
  BY RegistryAssumption, NoneIsNothing DEF Reg!Row
<1>4. r \notin Reg!Known /\ devices' = [devices EXCEPT ![r] = x] /\ devices \in [Ids -> Reg!Row \cup {None}]
  BY <1>1 DEF Reg!Unused, RegInv, Reg!TypeOK
<1> HIDE DEF x
<1>5. Arrives(r) /\ devices'[r] = x
  BY <1>3, <1>4, NoneIsNothing DEF Arrives, Reg!Known
<1>6. /\ UnitsAreHeldOnce' /\ StashIsKept' /\ Reg!ReturnedIsSuspended'
      /\ was' \in [Ids -> [uid : Macs \cup {None}, digit : Digits \cup {None}]]
  BY <1>1, <1>2, <1>3, <1>5, ArrivalKeepsRows
<1>7. Reg!TypeOK'
  BY <1>1, <1>2, <1>5, <1>6 DEF RegInv, Reg!TypeOK, Arrives
<1>8. JobsAreSound'
  BY <1>2, <1>5 DEF RegInv, JobsAreSound, Arrives
<1>9. ReturnsAreAlone'
  BY <1>2, <1>3, <1>5, NoneIsNothing DEF RegInv, ReturnsAreAlone, JobsAreSound, Arrives
<1>10. RestoredIsOvertaken'
  BY <1>2, <1>5 DEF RegInv, RestoredIsOvertaken, JobsAreSound, Arrives
<1>11. ShelfIsTrue'
  BY <1>2, <1>3, <1>5, NoneIsNothing DEF RegInv, ShelfIsTrue, OnShelf, Healing, Reg!At, Arrives
<1>12. Reg!DemoMakesRoom'
  BY <1>2, <1>3, <1>5 DEF RegInv, Reg!RegistryIsSound, Reg!DemoMakesRoom, Reg!Arriving, Reg!Of, Arrives
<1>13. QED
  BY <1>6, <1>7, <1>8, <1>9, <1>10, <1>11, <1>12 DEF RegInv, Reg!RegistryIsSound

LEMMA NewRowFields ==
    ASSUME NEW u \in Customers, NEW m \in Macs \cup {None}, NEW d \in Digits \cup {None}
    PROVE  /\ Reg!NewRow(u, m, d) \in Reg!Row /\ Reg!NewRow(u, m, d).kind = "real"
           /\ Reg!NewRow(u, m, d).on /\ ~Reg!NewRow(u, m, d).returned
           /\ Reg!NewRow(u, m, d).removed = None /\ Reg!NewRow(u, m, d).uid = m
           /\ Reg!NewRow(u, m, d).owner = u /\ Reg!NewRow(u, m, d).digit = d
           /\ Reg!NewRow(u, m, d).live <=> d # None
BY DEF Reg!NewRow, Reg!Row

\* A registration that is refused leaves no trace.
LEMMA ArrivalEnds ==
    ASSUME RegInv, NEW j \in Jobs, OneRequest(j), job'[j] = Reg!Free, job[j].op \in {"register", "provision"},
           job[j].at = "insert",
           UNCHANGED <<devices, stock, demo, acts, slips, was, kept, overtaken, blurred>>
    PROVE  RegInv'
<1>1. Vanishing /\ Remembered
  BY StayingVanishes DEF RegInv
<1>2. Reg!TypeOK'
  BY DEF RegInv, Reg!TypeOK, OneRequest
<1>3. JobsAreSound'
  BY <1>1, FreeRequest DEF RegInv, JobsAreSound, OneRequest, Vanishing
<1>4. ReturnsAreAlone'
  BY <1>1, FreeRequest DEF RegInv, ReturnsAreAlone, OneRequest, Vanishing
<1>5. RestoredIsOvertaken'
  BY <1>1, FreeRequest DEF RegInv, RestoredIsOvertaken, JobsAreSound, OneRequest, Vanishing
<1>6. ShelfIsTrue'
  BY <1>1, FreeRequest DEF RegInv, ShelfIsTrue, OnShelf, Healing, Reg!At, OneRequest, Vanishing
<1>7. Reg!DemoMakesRoom'
  BY FreeRequest DEF RegInv, Reg!RegistryIsSound, Reg!DemoMakesRoom, Reg!Arriving, Reg!Of, Reg!Known, OneRequest
<1>8. QED
  BY <1>1, <1>2, <1>3, <1>4, <1>5, <1>6, <1>7, VanishingKeepsRows DEF RegInv, Reg!RegistryIsSound

LEMMA InsertDeviceKeeps ==
    ASSUME RegInv, NEW j \in Jobs, Reg!InsertDevice(j)
    PROVE  RegInv'
<1> DEFINE m == job[j].unit
           u == job[j].user
           d == job[j].digit
           x == Reg!NewRow(u, m, d)
<1>1. /\ UNCHANGED <<stock, demo, kept, overtaken, acts, slips>>
      /\ job[j].op = "register" /\ job[j].at = "insert"
  BY DEF Reg!InsertDevice, Reg!Later, Reg!At, Reg!history
<1>2. m \in Macs /\ u \in Customers /\ d \in Digits \cup {None} /\ job[j] \in Reg!Request
  BY <1>1 DEF RegInv, JobsAreSound, Reg!TypeOK, Reg!Request
<1>3. ASSUME Reg!Done(j), UNCHANGED <<devices, was, blurred>>
      PROVE  RegInv'
  <2>1. OneRequest(j) /\ job'[j] = Reg!Free
    BY <1>3, FreeRequest DEF Reg!Done, RegInv, Reg!TypeOK, OneRequest
  <2>2. QED
    BY <1>1, <1>3, <2>1, ArrivalEnds
<1>4. ASSUME NEW r \in Ids, Reg!Insert(r, x), Reg!Holder(m) = {}, blurred' = blurred \cup Reg!Contested(m),
             job' = [job EXCEPT ![j].at = "stock", ![j].row = r, ![j].user = None]
      PROVE  RegInv'
  <2>1. /\ x \in Reg!Row /\ x.kind = "real" /\ x.on /\ ~x.returned /\ x.removed = None /\ x.uid = m
        /\ x.owner = u
    BY <1>2, NewRowFields
  <2>2. /\ r \notin Reg!Known /\ devices' = [devices EXCEPT ![r] = x]
        /\ devices \in [Ids -> Reg!Row \cup {None}]
    BY <1>4 DEF Reg!Insert, Reg!Unused, RegInv, Reg!TypeOK
  <2> HIDE DEF x
  <2>3. Arrives(r) /\ devices'[r] = x
    BY <2>1, <2>2, NoneIsNothing DEF Arrives, Reg!Known
  <2>4. /\ OneRequest(j) /\ job'[j].op = "register" /\ job'[j].at = "stock" /\ job'[j].row = r
        /\ job'[j].unit = m /\ job'[j].user = None
    <3> DEFINE y == [job[j] EXCEPT !.at = "stock", !.row = r, !.user = None]
    <3>1. job' = [job EXCEPT ![j] = y]
      BY <1>4 DEF RegInv, Reg!TypeOK
    <3>2. /\ y \in Reg!Request /\ y.op = "register" /\ y.at = "stock" /\ y.row = r
          /\ y.unit = m /\ y.user = None
      BY <1>1, <1>2 DEF Reg!Request
    <3> HIDE DEF y
    <3>3. QED
      BY <3>1, <3>2 DEF RegInv, Reg!TypeOK, OneRequest
  <2>5. /\ blurred \subseteq blurred' /\ blurred' \subseteq Macs
        /\ \A i \in Jobs : job[i].op = "return" /\ job[i].unit = m => m \in blurred'
    BY <1>2, <1>4 DEF Reg!Contested, RegInv, Reg!TypeOK
  <2>6. \A h \in Reg!Known : devices[h].uid # m
    BY <1>4 DEF Reg!Holder
  <2>7. /\ UnitsAreHeldOnce' /\ StashIsKept' /\ Reg!ReturnedIsSuspended'
        /\ was' \in [Ids -> [uid : Macs \cup {None}, digit : Digits \cup {None}]]
    <3>1. was' = [was EXCEPT ![r] = [uid |-> None, digit |-> None]]
      BY <1>4 DEF Reg!Insert
    <3>2. QED
      BY <1>1, <2>1, <2>3, <2>5, <2>6, <3>1, ArrivalKeepsRows
  <2>8. Reg!TypeOK'
    BY <1>1, <2>3, <2>4, <2>5, <2>7 DEF RegInv, Reg!TypeOK, Arrives, OneRequest
  <2>9. JobsAreSound'
    BY <1>2, <2>1, <2>3, <2>4 DEF RegInv, JobsAreSound, Arrives, OneRequest
  <2>10. ReturnsAreAlone'
    BY <2>1, <2>3, <2>4, <2>5 DEF RegInv, ReturnsAreAlone, JobsAreSound, Arrives, OneRequest
  <2>11. RestoredIsOvertaken'
    BY <1>1, <2>3, <2>4 DEF RegInv, RestoredIsOvertaken, JobsAreSound, Arrives, OneRequest
  <2>12. ASSUME NEW n \in Macs, Healing(n) \/ n = m
         PROVE  Healing(n)'
    BY <1>1, <2>4, <2>12 DEF Healing, OneRequest
  <2>13. ShelfIsTrue'
    BY <1>1, <2>1, <2>3, <2>4, <2>5, <2>12, NoneIsNothing
       DEF RegInv, ShelfIsTrue, OnShelf, Reg!At, Arrives, OneRequest
  <2>14. Reg!DemoMakesRoom'
    <3>1. ASSUME NEW v \in Customers, Reg!Arriving(v)'
          PROVE  Reg!Arriving(v)
      BY <2>4, <3>1, RegistryAssumption DEF Reg!Arriving, OneRequest
    <3>2. Reg!Arriving(u)
      BY <1>1 DEF Reg!Arriving
    <3>3. ASSUME NEW v \in Customers, NEW q \in Reg!Of(v, "demo")'
          PROVE  q \in Reg!Of(v, "demo")
      BY <2>1, <2>3, <3>3 DEF Arrives, Reg!Of
    <3>4. ASSUME NEW v \in Customers, NEW q \in Reg!Of(v, "real")'
          PROVE  q \in Reg!Of(v, "real") \/ v = u
      BY <2>1, <2>3, <3>4 DEF Arrives, Reg!Of
    <3>5. QED
      BY <1>1, <3>1, <3>2, <3>3, <3>4 DEF RegInv, Reg!RegistryIsSound, Reg!DemoMakesRoom
  <2>15. QED
    BY <2>7, <2>8, <2>9, <2>10, <2>11, <2>13, <2>14 DEF RegInv, Reg!RegistryIsSound
<1>5. CASE Reg!Digit(u, d) # {} \/ Reg!Holder(m) # {}
  BY <1>3, <1>5 DEF Reg!InsertDevice, Reg!history
<1>6. CASE Reg!Digit(u, d) = {} /\ Reg!Holder(m) = {}
  BY <1>4, <1>6 DEF Reg!InsertDevice
<1>7. QED
  BY <1>5, <1>6

LEMMA InsertClockKeeps ==
    ASSUME RegInv, NEW j \in Jobs, Reg!InsertClock(j)
    PROVE  RegInv'
<1> DEFINE m == job[j].unit
           u == job[j].user
           x == Reg!NewRow(u, m, None)
<1>1. /\ UNCHANGED <<stock, demo, kept, overtaken, acts, slips>>
      /\ job[j].op = "provision" /\ job[j].at = "insert"
  BY DEF Reg!InsertClock, Reg!Later, Reg!At
<1>2. OneRequest(j) /\ job'[j] = Reg!Free
  BY FreeRequest DEF Reg!InsertClock, Reg!Done, RegInv, Reg!TypeOK, OneRequest
<1>3. m \in Macs \cup {None} /\ u \in Customers
  BY <1>1 DEF RegInv, JobsAreSound, Reg!TypeOK, Reg!Request
<1>4. CASE m # None /\ Reg!Holder(m) # {}
  BY <1>1, <1>2, <1>4, ArrivalEnds DEF Reg!InsertClock
<1>5. ASSUME NEW r \in Ids, Reg!Insert(r, x), m # None => Reg!Holder(m) = {},
             blurred' = blurred \cup ({m} \ {None})
      PROVE  RegInv'
  <2>1. /\ x \in Reg!Row /\ x.kind = "real" /\ x.on /\ ~x.returned /\ x.removed = None /\ x.uid = m
        /\ x.owner = u
    BY <1>3, NewRowFields
  <2>2. /\ r \notin Reg!Known /\ devices' = [devices EXCEPT ![r] = x]
        /\ devices \in [Ids -> Reg!Row \cup {None}]
    BY <1>5 DEF Reg!Insert, Reg!Unused, RegInv, Reg!TypeOK
  <2> HIDE DEF x
  <2>3. Arrives(r) /\ devices'[r] = x
    BY <2>1, <2>2, NoneIsNothing DEF Arrives, Reg!Known
  <2>4. blurred \subseteq blurred' /\ blurred' \subseteq Macs /\ (m # None => m \in blurred')
    BY <1>3, <1>5 DEF RegInv, Reg!TypeOK
  <2>5. \A h \in Reg!Known : m # None => devices[h].uid # m
    BY <1>5 DEF Reg!Holder
  <2>6. /\ UnitsAreHeldOnce' /\ StashIsKept' /\ Reg!ReturnedIsSuspended'
        /\ was' \in [Ids -> [uid : Macs \cup {None}, digit : Digits \cup {None}]]
    <3>1. was' = [was EXCEPT ![r] = [uid |-> None, digit |-> None]]
      BY <1>5 DEF Reg!Insert
    <3>2. QED
      BY <1>1, <2>1, <2>3, <2>4, <2>5, <3>1, ArrivalKeepsRows
  <2>7. Reg!TypeOK'
    BY <1>1, <1>2, <2>3, <2>4, <2>6 DEF RegInv, Reg!TypeOK, Arrives, OneRequest
  <2>8. JobsAreSound'
    BY <1>2, <2>3, FreeRequest DEF RegInv, JobsAreSound, Arrives, OneRequest
  <2>9. ReturnsAreAlone'
    BY <1>2, <2>1, <2>3, <2>4, FreeRequest, NoneIsNothing
       DEF RegInv, ReturnsAreAlone, JobsAreSound, Arrives, OneRequest
  <2>10. RestoredIsOvertaken'
    BY <1>1, <1>2, <2>3, FreeRequest DEF RegInv, RestoredIsOvertaken, JobsAreSound, Arrives, OneRequest
  <2>11. ASSUME NEW n \in Macs, Healing(n)
         PROVE  Healing(n)'
    BY <1>1, <1>2, <2>11 DEF Healing, OneRequest
  <2>12. ShelfIsTrue'
    BY <1>1, <1>2, <2>1, <2>3, <2>4, <2>11, NoneIsNothing
       DEF RegInv, ShelfIsTrue, OnShelf, Reg!At, Arrives, OneRequest
  <2>13. Reg!DemoMakesRoom'
    BY <1>1, <1>2, <1>3, <2>1, <2>3, FreeRequest
       DEF RegInv, Reg!RegistryIsSound, Reg!DemoMakesRoom, Reg!Arriving, Reg!Of, Arrives, OneRequest
  <2>14. QED
    BY <2>6, <2>7, <2>8, <2>9, <2>10, <2>12, <2>13 DEF RegInv, Reg!RegistryIsSound
<1>6. CASE m = None \/ Reg!Holder(m) = {}
  BY <1>5, <1>6 DEF Reg!InsertClock
<1>7. QED
  BY <1>4, <1>6

-----------------------------------------------------------------------------
(* The registry *)

LEMMA RegStarts == Reg!Init => RegInv
<1> SUFFICES ASSUME Reg!Init PROVE RegInv
  OBVIOUS
<1>1. /\ demo = [u \in Customers |-> "idle"] /\ job = [j \in Jobs |-> Reg!Free]
      /\ acts = 0 /\ slips = 0 /\ kept = {} /\ overtaken = {} /\ blurred = {}
  BY DEF Reg!Init
<1>2. JobsAreSound /\ ReturnsAreAlone /\ RestoredIsOvertaken
  BY <1>1, FreeRequest DEF JobsAreSound, ReturnsAreAlone, RestoredIsOvertaken
<1>3. CASE /\ devices = [r \in Ids |-> None] /\ stock \in [Macs -> {None, [prepared |-> TRUE, device |-> None]}]
           /\ was = [r \in Ids |-> [uid |-> None, digit |-> None]]
  <2>1. Reg!Known = {}
    BY <1>3 DEF Reg!Known
  <2>2. Reg!TypeOK
    <3>1. [prepared |-> TRUE, device |-> None] \in Reg!Entry
      BY DEF Reg!Entry
    <3>2. stock \in [Macs -> Reg!Entry \cup {None}]
      BY <1>3, <3>1
    <3>3. QED
      BY <1>1, <1>3, <3>2, FreeRequest, RegistryAssumption DEF Reg!TypeOK
  <2>3. QED
    BY <1>2, <2>1, <2>2
       DEF RegInv, UnitsAreHeldOnce, ShelfIsTrue, StashIsKept, Reg!RegistryIsSound,
           Reg!ReturnedIsSuspended, Reg!DemoMakesRoom, Reg!Of
<1>4. ASSUME NEW u \in Customers, NEW m \in Macs, NEW d \in Digits,
             devices = [r \in Ids |-> IF r = 1 THEN Reg!NewRow(u, m, d) ELSE None],
             stock = [n \in Macs |-> IF n = m THEN [prepared |-> FALSE, device |-> 1] ELSE None],
             was = [r \in Ids |-> [uid |-> None, digit |-> None]]
      PROVE  RegInv
  <2> DEFINE x == Reg!NewRow(u, m, d)
  <2>1. x \in Reg!Row /\ x.kind = "real" /\ x.on /\ ~x.returned /\ x.removed = None
    BY NewRowFields
  <2>2. Reg!Known = {1} /\ devices[1] = x /\ devices \in [Ids -> Reg!Row \cup {None}]
    <3> HIDE DEF x
    <3>1. QED
      BY <1>4, <2>1, RegistryAssumption, NoneIsNothing DEF Reg!Known, x
  <2> HIDE DEF x
  <2>3. /\ stock \in [Macs -> Reg!Entry \cup {None}]
        /\ \A n \in Macs : stock[n] # None => ~stock[n].prepared
    BY <1>4, RegistryAssumption DEF Reg!Entry
  <2>4. Reg!TypeOK
    BY <1>1, <1>4, <2>2, <2>3, FreeRequest, RegistryAssumption DEF Reg!TypeOK
  <2>5. UnitsAreHeldOnce /\ StashIsKept /\ ShelfIsTrue
    BY <2>1, <2>2, <2>3 DEF UnitsAreHeldOnce, StashIsKept, ShelfIsTrue, OnShelf
  <2>6. Reg!ReturnedIsSuspended /\ Reg!DemoMakesRoom
    BY <2>1, <2>2, NoneIsNothing DEF Reg!ReturnedIsSuspended, Reg!DemoMakesRoom, Reg!Of
  <2>7. QED
    BY <1>2, <2>4, <2>5, <2>6 DEF RegInv, Reg!RegistryIsSound
<1>5. ASSUME NEW u \in Customers, NEW v \in Customers, NEW m \in Macs, NEW d \in Digits,
             devices = [r \in Ids |-> CASE r = 1 -> Reg!Stashed(Reg!NewRow(u, m, d))
                                        [] r = 2 -> Reg!NewRow(v, m, d)
                                        [] OTHER -> None],
             stock = [n \in Macs |-> IF n = m THEN [prepared |-> FALSE, device |-> 2] ELSE None],
             was = [r \in Ids |-> IF r = 1 THEN [uid |-> m, digit |-> d] ELSE [uid |-> None, digit |-> None]]
      PROVE  RegInv
  <2> DEFINE x == Reg!Stashed(Reg!NewRow(u, m, d))
             y == Reg!NewRow(v, m, d)
  <2>1. /\ x \in Reg!Row /\ ~x.on /\ ~x.returned /\ x.uid = None /\ x.removed = m
        /\ x.live /\ x.stash = d /\ x.kind = "real"
    BY NoneIsNothing DEF Reg!Stashed, Reg!NewRow, Reg!Row
  <2>2. y \in Reg!Row /\ y.kind = "real" /\ y.on /\ ~y.returned /\ y.removed = None
    BY NewRowFields
  <2>3. devices = [r \in Ids |-> IF r = 1 THEN x ELSE IF r = 2 THEN y ELSE None]
    <3> HIDE DEF x, y
    <3>1. QED
      BY <1>5 DEF x, y
  <2> HIDE DEF x, y
  <2>4. /\ Reg!Known = {1, 2} /\ devices[1] = x /\ devices[2] = y
        /\ devices \in [Ids -> Reg!Row \cup {None}]
    BY <2>1, <2>2, <2>3, RegistryAssumption, NoneIsNothing DEF Reg!Known
  <2>5. /\ stock \in [Macs -> Reg!Entry \cup {None}]
        /\ \A n \in Macs : stock[n] # None => ~stock[n].prepared
    BY <1>5, RegistryAssumption DEF Reg!Entry
  <2>6. /\ was \in [Ids -> [uid : Macs \cup {None}, digit : Digits \cup {None}]]
        /\ was[1].uid = m /\ was[1].digit = d
    BY <1>5, RegistryAssumption
  <2>7. Reg!TypeOK
    BY <1>1, <2>4, <2>5, <2>6, FreeRequest, RegistryAssumption DEF Reg!TypeOK
  <2>8. UnitsAreHeldOnce /\ StashIsKept /\ ShelfIsTrue
    BY <2>1, <2>2, <2>4, <2>5, <2>6 DEF UnitsAreHeldOnce, StashIsKept, ShelfIsTrue, OnShelf
  <2>9. Reg!ReturnedIsSuspended /\ Reg!DemoMakesRoom
    BY <2>1, <2>2, <2>4, NoneIsNothing DEF Reg!ReturnedIsSuspended, Reg!DemoMakesRoom, Reg!Of
  <2>10. QED
    BY <1>2, <2>7, <2>8, <2>9 DEF RegInv, Reg!RegistryIsSound
<1>6. QED
  BY <1>3, <1>4, <1>5, RegistryAssumption DEF Reg!Init

LEMMA RegStays == RegInv /\ UNCHANGED regVars => RegInv'
<1> SUFFICES ASSUME RegInv, UNCHANGED regVars PROVE RegInv'
  OBVIOUS
<1>1. UNCHANGED <<devices, stock, demo, job, acts, slips, was, kept, overtaken, blurred>>
  BY DEF regVars
<1>2. Vanishing /\ Remembered
  BY <1>1, StayingVanishes DEF RegInv
<1>3. Reg!TypeOK'
  BY <1>1 DEF RegInv, Reg!TypeOK
<1>4. Reg!DemoMakesRoom'
  BY <1>1 DEF RegInv, Reg!RegistryIsSound, Reg!DemoMakesRoom, Reg!Arriving, Reg!Of, Reg!Known
<1>5. QED
  BY <1>1, <1>2, <1>3, <1>4, VanishingKeepsRows, VanishingKeepsRequests, VanishingKeepsShelf
     DEF RegInv, Reg!RegistryIsSound

LEMMA RegSteps ==
    ASSUME RegInv, Reg!Next
    PROVE  RegInv'
<1>1. CASE Reg!Account
  BY <1>1, LoadKeeps, DropDemoKeeps, CreateDemoKeeps, RegistryAssumption DEF Reg!Account
<1>2. CASE Reg!People
  BY <1>2, RegisterKeeps, ProvisionKeeps, RemoveKeeps, RestoreKeeps, ReturnKeeps, TransferKeeps,
     PatchDigitKeeps, CreateRelayKeeps, DeleteRelayKeeps, SetUidKeeps, NoteKeeps, UnlistKeeps
     DEF Reg!People
<1>3. CASE Reg!Server
  BY <1>3, ProbeKeeps, InsertDeviceKeeps, ActivateKeeps, ReuseKeeps, MoveDeviceKeeps,
     SuspendReturnedKeeps, ListReturnedKeeps, StampReturnedKeeps, InsertClockKeeps DEF Reg!Server
<1>4. CASE Reg!Crash
  BY <1>4, CrashKeeps
<1>5. QED
  BY <1>1, <1>2, <1>3, <1>4 DEF Reg!Next

\* What the shelf says of a unit in service, when nothing is under way about it.
LEMMA ShelfMeansInventory == RegInv => Reg!InventoryIsTrue
BY DEF RegInv, ShelfIsTrue, OnShelf, Healing, Reg!InventoryIsTrue, Reg!Registered, Reg!Holder, Reg!Known,
       Reg!TypeOK

RegPart == part = "registry" => RegInv

LEMMA PartStarts == ServicesInit => RegPart
BY RegStarts DEF ServicesInit, RegPart

LEMMA PartSteps == RegPart /\ [ServicesNext]_allVars => RegPart'
<1> SUFFICES ASSUME RegPart, [ServicesNext]_allVars, part' = "registry" PROVE RegInv'
  BY DEF RegPart
<1>1. part' = part
  BY DEF ServicesNext, allVars
<1>2. RegInv
  BY <1>1 DEF RegPart
<1>3. Reg!Next \/ UNCHANGED regVars
  BY <1>1 DEF ServicesNext, allVars
<1>4. QED
  BY <1>2, <1>3, RegSteps, RegStays

LEMMA PartHolds == ServicesSpec => []RegPart
BY PartStarts, PartSteps, PTL DEF ServicesSpec

\* Over any life of any number of devices: a unit in a customer's service is not
\* listed as prepared unless somebody had a hand in it, what was returned is suspended
\* unless it was restored meanwhile, and a demo device stands beside a real one, or one
\* on its way, only where a clean-up failed or the panel created it late
\* (services/devices.js, services/demo.js).
THEOREM RegistrySound == ServicesSpec => []RegistryIsSound
<1>1. RegPart => RegistryIsSound
  BY ShelfMeansInventory DEF RegPart, RegInv, RegistryIsSound
<1>2. QED
  BY <1>1, PartHolds, PTL

\* A recovery finds in the stash what the removal put there, and gives it back
\* unless somebody holds it by now (services/devices.js, recoverRemovedDevice).
LEMMA RestoreGivesBack ==
    ASSUME RegInv, NEW r \in Reg!Known, NEW admin \in BOOLEAN, Reg!Restore(r, admin)
    PROVE  Reg!GivesBack
<1>1. /\ OneRow(r)
      /\ devices'[r].uid = IF Reg!UidBack(devices[r]) THEN devices[r].removed ELSE devices[r].uid
      /\ devices'[r].digit = IF Reg!DigitBack(devices[r]) THEN devices[r].stash ELSE devices[r].digit
  BY Recovers
<1>2. ~devices[r].on
  BY DEF Reg!Restore
<1>3. was[r].uid # None /\ devices[r].uid = None =>
         devices'[r].uid = was[r].uid \/ Reg!Holder(was[r].uid) # {}
  BY <1>1, <1>2 DEF RegInv, StashIsKept, Reg!UidBack
<1>4. was[r].digit # None =>
         devices'[r].digit = was[r].digit \/ Reg!Digit(devices[r].owner, was[r].digit) # {}
  BY <1>1, <1>2 DEF RegInv, StashIsKept, Reg!DigitBack
<1>5. \A q \in Reg!Known \ {r} : devices'[q] = devices[q]
  BY <1>1 DEF OneRow, Reg!Known
<1>6. QED
  BY <1>3, <1>4, <1>5 DEF Reg!GivesBack

\* Nothing but a recovery brings a suspended row into service.
NobodyBack == \A r \in Reg!Known : ~devices[r].on => ~(devices'[r] # None /\ devices'[r].on)

LEMMA CleanUpBringsNobody ==
    ASSUME RegInv, NEW u \in Customers, Reg!CleanUp(u)
    PROVE  NobodyBack
BY CleansUp DEF Vanishing, NobodyBack, RegInv, Reg!TypeOK, Reg!Known

LEMMA AccountBringsNobody ==
    ASSUME RegInv, Reg!Account
    PROVE  NobodyBack
<1>1. PICK u \in Visitors : Reg!Load(u) \/ Reg!DropDemo(u) \/ Reg!CreateDemo(u)
  BY DEF Reg!Account
<1>2. CASE Reg!Load(u)
  BY <1>2 DEF Reg!Load, NobodyBack
<1>3. CASE Reg!DropDemo(u)
  BY <1>3, CleanUpBringsNobody, RegistryAssumption DEF Reg!DropDemo
<1>4. CASE Reg!CreateDemo(u)
  <2>1. PICK r \in Ids : Reg!Unused(r) /\ \A q \in Ids \ {r} : devices'[q] = devices[q]
    BY <1>4 DEF Reg!CreateDemo, RegInv, Reg!TypeOK
  <2>2. QED
    BY <2>1 DEF Reg!Unused, Reg!Known, NobodyBack
<1>5. QED
  BY <1>1, <1>2, <1>3, <1>4

LEMMA ServerBringsNobody ==
    ASSUME RegInv, Reg!Server
    PROVE  NobodyBack
<1>1. PICK j \in Jobs :
        \/ \E answers \in BOOLEAN : Reg!Probe(j, answers)
        \/ Reg!InsertDevice(j) \/ Reg!InsertClock(j) \/ Reg!Activate(j) \/ Reg!Reuse(j) \/ Reg!MoveDevice(j)
        \/ Reg!SuspendReturned(j) \/ Reg!ListReturned(j) \/ Reg!StampReturned(j)
  BY DEF Reg!Server
<1>2. CASE \/ \E answers \in BOOLEAN : Reg!Probe(j, answers)
           \/ Reg!Activate(j) \/ Reg!Reuse(j) \/ Reg!ListReturned(j)
  BY <1>2 DEF Reg!Probe, Reg!Activate, Reg!Reuse, Reg!ListReturned, NobodyBack
<1>3. CASE Reg!InsertDevice(j) \/ Reg!InsertClock(j)
  <2>1. devices' = devices \/ \E r \in Ids : Reg!Unused(r) /\ \A q \in Ids \ {r} : devices'[q] = devices[q]
    BY <1>3 DEF Reg!InsertDevice, Reg!InsertClock, Reg!Insert, RegInv, Reg!TypeOK
  <2>2. QED
    BY <2>1 DEF Reg!Unused, Reg!Known, NobodyBack
<1>4. CASE Reg!MoveDevice(j)
  <2>1. job[j].row \in Reg!Known /\ devices[job[j].row] \in Reg!Row
    BY <1>4, RowsAreRows DEF Reg!MoveDevice, Reg!At, RegInv, JobsAreSound
  <2> DEFINE r == job[j].row
             moved(d) == [devices[r] EXCEPT !.owner = job[j].user, !.digit = d]
  <2>2. devices' = devices \/ \E d : devices' = [devices EXCEPT ![r] = moved(d)]
    BY <1>4, <2>1 DEF Reg!MoveDevice, RegInv, Reg!TypeOK, Reg!Known
  <2>3. \A d : moved(d).on = devices[r].on
    BY <2>1 DEF Reg!Row
  <2> HIDE DEF moved
  <2>4. QED
    BY <2>1, <2>2, <2>3 DEF NobodyBack, Reg!Known, RegInv, Reg!TypeOK
<1>5. CASE Reg!SuspendReturned(j)
  <2>1. job[j].row \in Reg!Known
    BY <1>5 DEF Reg!SuspendReturned, Reg!At, RegInv, JobsAreSound
  <2>2. CASE job[j].on /\ devices[job[j].row].on
    BY <1>5, <2>1, <2>2, Suspends DEF Reg!SuspendReturned, OneRow, Reg!Known, NobodyBack
  <2>3. CASE ~(job[j].on /\ devices[job[j].row].on)
    BY <1>5, <2>3 DEF Reg!SuspendReturned, NobodyBack
  <2>4. QED
    BY <2>2, <2>3
<1>6. CASE Reg!StampReturned(j)
  <2>1. job[j].row \in Reg!Known /\ devices[job[j].row] \in Reg!Row
    BY <1>6, RowsAreRows DEF Reg!StampReturned, Reg!At, RegInv, JobsAreSound
  <2>2. QED
    BY <1>6, <2>1 DEF Reg!StampReturned, Reg!Row, Reg!Known, NobodyBack, RegInv, Reg!TypeOK
<1>7. QED
  BY <1>1, <1>2, <1>3, <1>4, <1>5, <1>6

\* A change of single fields of a row that leaves it in or out of service.
LEMMA FieldsBringNobody ==
    ASSUME RegInv, NEW r \in Reg!Known, NEW x, devices' = [devices EXCEPT ![r] = x], x.on = devices[r].on
    PROVE  NobodyBack
BY DEF NobodyBack, Reg!Known, RegInv, Reg!TypeOK

LEMMA PeopleBringBack ==
    ASSUME RegInv, Reg!People
    PROVE  NobodyBack \/ \E r \in Reg!Known, admin \in BOOLEAN : Reg!Restore(r, admin)
<1>1. ASSUME NEW j \in Jobs, NEW u \in Customers, NEW m \in Macs, NEW d \in Digits, Reg!Register(j, u, m, d)
      PROVE  NobodyBack
  BY <1>1, CleanUpBringsNobody DEF Reg!Register
<1>2. ASSUME NEW j \in Jobs, NEW u \in Customers, NEW m \in Macs \cup {None}, Reg!Provision(j, u, m)
      PROVE  NobodyBack
  BY <1>2, CleanUpBringsNobody DEF Reg!Provision
<1>3. ASSUME NEW m \in Macs, Reg!Note(m) \/ Reg!Unlist(m)
      PROVE  NobodyBack
  BY <1>3 DEF Reg!Note, Reg!Unlist, NobodyBack
<1>4. ASSUME NEW r \in Reg!Known,
             \/ Reg!Remove(r) \/ Reg!DeleteRelay(r)
             \/ \E j \in Jobs : Reg!Return(j, r)
             \/ \E j \in Jobs, u \in Customers, d \in Digits \cup {None} : Reg!Transfer(j, r, u, d)
             \/ \E d \in Digits : Reg!PatchDigit(r, d) \/ Reg!CreateRelay(r, d)
             \/ \E m \in Macs : Reg!SetUid(r, m)
      PROVE  NobodyBack
  <2>1. r \in Ids /\ devices[r] \in Reg!Row /\ devices \in [Ids -> Reg!Row \cup {None}]
    BY RowsAreRows DEF RegInv, Reg!TypeOK
  <2>2. CASE Reg!Remove(r)
    BY <2>1, <2>2, Suspends DEF Reg!Remove, OneRow, Reg!Known, NobodyBack
  <2>3. CASE Reg!DeleteRelay(r)
    <3> DEFINE x == [devices[r] EXCEPT !.live = FALSE, !.digit = None]
    <3>1. devices' = [devices EXCEPT ![r] = x] /\ x.on = devices[r].on
      BY <2>1, <2>3 DEF Reg!DeleteRelay, Reg!Row
    <3> HIDE DEF x
    <3>2. QED
      BY <3>1, FieldsBringNobody
  <2>4. CASE \E j \in Jobs : Reg!Return(j, r)
    BY <2>4 DEF Reg!Return, NobodyBack
  <2>5. CASE \E j \in Jobs, u \in Customers, d \in Digits \cup {None} : Reg!Transfer(j, r, u, d)
    BY <2>5, CleanUpBringsNobody DEF Reg!Transfer
  <2>6. ASSUME NEW d \in Digits, Reg!PatchDigit(r, d)
        PROVE  NobodyBack
    <3> DEFINE x == [devices[r] EXCEPT !.digit = d]
    <3>1. devices' = [devices EXCEPT ![r] = x] /\ x.on = devices[r].on
      BY <2>1, <2>6 DEF Reg!PatchDigit, Reg!Row
    <3> HIDE DEF x
    <3>2. QED
      BY <3>1, FieldsBringNobody
  <2>7. ASSUME NEW d \in Digits, Reg!CreateRelay(r, d)
        PROVE  NobodyBack
    <3> DEFINE x == [devices[r] EXCEPT !.live = TRUE, !.digit = d]
    <3>1. devices' = [devices EXCEPT ![r] = x] /\ x.on = devices[r].on
      BY <2>1, <2>7 DEF Reg!CreateRelay, Reg!Row
    <3> HIDE DEF x
    <3>2. QED
      BY <3>1, FieldsBringNobody
  <2>8. ASSUME NEW m \in Macs, Reg!SetUid(r, m)
        PROVE  NobodyBack
    <3> DEFINE x == [devices[r] EXCEPT !.uid = m]
    <3>1. devices' = [devices EXCEPT ![r] = x] /\ x.on = devices[r].on
      BY <2>1, <2>8 DEF Reg!SetUid, Reg!Row
    <3> HIDE DEF x
    <3>2. QED
      BY <3>1, FieldsBringNobody
  <2>9. QED
    BY <1>4, <2>2, <2>3, <2>4, <2>5, <2>6, <2>7, <2>8
<1>5. QED
  BY <1>1, <1>2, <1>3, <1>4 DEF Reg!People

\* Whatever came between a removal and the recovery, moves to another customer
\* included: the recovery gives back the unit and the digit that the removal took,
\* unless another device holds them now (services/devices.js, recoverRemovedDevice).
THEOREM RecoveryRestores == ServicesSpec => RecoveryGivesBack
<1>1. RegInv /\ Reg!Next => Reg!GivesBack
  <2>1. NobodyBack => Reg!GivesBack
    BY DEF NobodyBack, Reg!GivesBack
  <2>2. Reg!Crash => NobodyBack
    BY DEF Reg!Crash, NobodyBack
  <2>3. QED
    BY <2>1, <2>2, AccountBringsNobody, ServerBringsNobody, PeopleBringBack, RestoreGivesBack
       DEF Reg!Next
<1>2. RegPart /\ [ServicesNext]_allVars => [part = "registry" => Reg!GivesBack]_allVars
  BY <1>1 DEF RegPart, ServicesNext
<1>3. QED
  BY <1>2, PartHolds, PTL DEF ServicesSpec, RecoveryGivesBack

-----------------------------------------------------------------------------
(* What the menu may ask the bot to do *)

\* Nothing that the office decides on.
MenuOrders == {"none", "status", "order_text", "immediate", "timed", "plan_toggle"}
IsReply(r) == "order" \in DOMAIN r /\ r.order.kind \in MenuOrders

LEMMA PlainReplies ==
    ASSUME NEW s, NEW options
    PROVE  /\ IsReply(Talk!Offer(s, options)) /\ IsReply(Talk!Words(s)) /\ IsReply(Talk!MenuStart)
           /\ IsReply(Talk!Finished) /\ IsReply(Talk!Ticketed) /\ IsReply(Talk!Transferred)
           /\ IsReply(Talk!Dismissed)
BY DEF IsReply, MenuOrders, Talk!Offer, Talk!Words, Talk!MenuStart, Talk!Finished, Talk!Ticketed,
       Talk!Transferred, Talk!Dismissed, Talk!NoOrder

LEMMA OrderReplies ==
    ASSUME NEW kind \in MenuOrders, NEW on, NEW action
    PROVE  IsReply(Talk!Ordered(kind, on, action))
BY DEF IsReply, Talk!Ordered, Talk!Offer, Talk!Finished

\* A reply that nothing came of is marked, and is a reply.
LEMMA MarkedReplies ==
    ASSUME NEW replies, \A r \in replies : IsReply(r)
    PROVE  \A r \in {[q EXCEPT !.unclear = TRUE] : q \in replies} : IsReply(r)
BY DEF IsReply

LEMMA FaultReplies ==
    ASSUME NEW s, NEW devices_, NEW rollout
    PROVE  /\ \A r \in Talk!FaultSteps(s) : IsReply(r)
           /\ \A r \in Talk!FaultCheck(s) : IsReply(r)
           /\ \A r \in Talk!FaultDevice(s, devices_) : IsReply(r)
           /\ \A r \in Talk!FaultTicket : IsReply(r)
           /\ \A r \in Talk!Agent(rollout) : IsReply(r)
<1>1. \A q : \A r \in Talk!FaultSteps(q) : IsReply(r)
  BY PlainReplies DEF Talk!FaultSteps
<1>2. \A r \in Talk!FaultCheck(s) : IsReply(r)
  BY <1>1, PlainReplies DEF Talk!FaultCheck
<1>3. \A r \in Talk!FaultDevice(s, devices_) : IsReply(r)
  BY <1>2, PlainReplies DEF Talk!FaultDevice
<1>4. \A r \in Talk!FaultTicket : IsReply(r)
  BY PlainReplies DEF Talk!FaultTicket
<1>5. \A r \in Talk!Agent(rollout) : IsReply(r)
  BY PlainReplies DEF Talk!Agent
<1> QED BY <1>1, <1>2, <1>3, <1>4, <1>5

LEMMA ShownReplies ==
    ASSUME NEW s, NEW w PROVE \A r \in Talk!Shown(s, w) : IsReply(r)
BY PlainReplies, FaultReplies DEF Talk!Shown

LEMMA NotUnderstoodReplies ==
    ASSUME NEW s, NEW w PROVE \A r \in Talk!NotUnderstood(s, w) : IsReply(r)
BY ShownReplies, MarkedReplies DEF Talk!NotUnderstood

LEMMA ServiceReplies ==
    ASSUME NEW s, NEW d, NEW w
    PROVE  /\ \A r \in Talk!Assist(s, w) : IsReply(r)
           /\ \A r \in Talk!NextStep(s, w) : IsReply(r)
           /\ \A r \in Talk!ServiceChoice(s, d, w) : IsReply(r)
           /\ \A r \in Talk!NoDeviceChoice(s, d, w) : IsReply(r)
           /\ \A r \in Talk!RelayChoice(s, d, w) : IsReply(r)
<1>1. \A r \in Talk!Assist(s, w) : IsReply(r)
  BY ShownReplies DEF Talk!Assist
<1>2. \A r \in Talk!NextStep(s, w) : IsReply(r)
  BY PlainReplies, FaultReplies, ShownReplies DEF Talk!NextStep
<1>3. \A r \in Talk!ServiceChoice(s, d, w) : IsReply(r)
  BY <1>1, ShownReplies, NotUnderstoodReplies DEF Talk!ServiceChoice
<1>4. \A r \in Talk!NoDeviceChoice(s, d, w) : IsReply(r)
  BY FaultReplies, NotUnderstoodReplies DEF Talk!NoDeviceChoice
<1>5. \A r \in Talk!RelayChoice(s, d, w) : IsReply(r)
  BY PlainReplies, ShownReplies, NotUnderstoodReplies DEF Talk!RelayChoice
<1> QED BY <1>1, <1>2, <1>3, <1>4, <1>5

LEMMA AnswerReplies ==
    ASSUME NEW s, NEW d, NEW w PROVE \A r \in Talk!Answer(s, d, w) : IsReply(r)
BY PlainReplies, FaultReplies, ShownReplies, NotUnderstoodReplies, ServiceReplies DEF Talk!Answer

LEMMA DeskShownReplies ==
    ASSUME NEW s, NEW w PROVE \A r \in Talk!DeskShown(s, w) : IsReply(r)
BY PlainReplies, ShownReplies, OrderReplies DEF Talk!DeskShown, Talk!IfStillThere, MenuOrders

LEMMA DeskUnclearReplies ==
    ASSUME NEW s, NEW w PROVE \A r \in Talk!DeskUnclear(s, w) : IsReply(r)
BY DeskShownReplies, MarkedReplies DEF Talk!DeskUnclear

LEMMA BranchReplies ==
    ASSUME NEW s, NEW d, NEW next, NEW w
    PROVE  /\ \A r \in Talk!MainChoices(s, d, w) : IsReply(r)
           /\ \A r \in Talk!Picked(s, d, next, w) : IsReply(r)
           /\ \A r \in Talk!OrderTime(s, w) : IsReply(r)
           /\ \A r \in Talk!InfoUnhelpful(s) : IsReply(r)
<1>1. \A r \in Talk!MainChoices(s, d, w) : IsReply(r)
  BY DeskShownReplies, DeskUnclearReplies DEF Talk!MainChoices
<1>2. \A r \in Talk!Picked(s, d, next, w) : IsReply(r)
  BY PlainReplies, DeskShownReplies, DeskUnclearReplies DEF Talk!Picked
<1>3. \A r \in Talk!OrderTime(s, w) : IsReply(r)
  BY DeskShownReplies DEF Talk!OrderTime
<1>4. \A r \in Talk!InfoUnhelpful(s) : IsReply(r)
  BY PlainReplies DEF Talk!InfoUnhelpful
<1> QED BY <1>1, <1>2, <1>3, <1>4

LEMMA DeskChoiceReplies ==
    ASSUME NEW s, NEW d, NEW w PROVE \A r \in Talk!DeskChoice(s, d, w) : IsReply(r)
BY PlainReplies, OrderReplies, DeskShownReplies, DeskUnclearReplies, BranchReplies, AnswerReplies
   DEF Talk!DeskChoice, Talk!OfOwn, MenuOrders

LEMMA DeskSpokenReplies ==
    ASSUME NEW s, NEW w PROVE \A r \in Talk!DeskSpoken(s, w) : IsReply(r)
<1>1. \A r \in Talk!Spoken(s, TRUE, w) : IsReply(r)
  BY PlainReplies DEF Talk!Spoken
<1> QED BY <1>1, PlainReplies, OrderReplies, DeskShownReplies DEF Talk!DeskSpoken, Talk!OfOwn, MenuOrders

LEMMA RoutedReplies ==
    ASSUME NEW s, NEW w PROVE \A r \in Talk!Routed(s, w) : IsReply(r)
<1>1. \A n : \A r \in Talk!Jump(n, w) : IsReply(r)
  BY DeskShownReplies DEF Talk!Jump
<1> DEFINE Tried(s0, ds) == Talk!DeskShown(s0, w) \cup UNION {Talk!DeskChoice(s0, d, w) : d \in ds}
           Named      == {"fault_device", "sched_problem", "order_status", "service_other", "week",
                          "status", "switch_relay", "quick_relay", "plans"}
           OnRelay(n, i) == [Talk!Node(n) EXCEPT !.about.on = i]
           OnTime(i, a)  == [Talk!Node("quick_when") EXCEPT !.about.on = i, !.about.action = a]
           ToTime(s0)    == Talk!DeskSpoken(Talk!GoTo(s0, "quick_time"), w)
<1>2. \A s0, ds : \A r \in Tried(s0, ds) : IsReply(r)
  BY DeskShownReplies, DeskChoiceReplies
<1>3. \A s0 : \A r \in ToTime(s0) : IsReply(r)
  BY DeskSpokenReplies
<1>4. Talk!CustomerJumps(w)
        = (UNION {Talk!Jump(n, w) : n \in Named})
          \cup (UNION {Tried(OnRelay(n, i), {1, 2}) : n \in {"switch_action", "quick_action"}, i \in w.codes})
          \cup (UNION {Tried(OnRelay("plan_action", i), {1, 2}) : i \in Talk!Numbered(w.plans)})
          \cup (UNION {Tried(OnTime(i, a), 1..3) \cup ToTime(OnTime(i, a)) : i \in w.codes, a \in {"on", "off"}})
  BY DEF Talk!CustomerJumps
<1>5. \A r \in Talk!CustomerJumps(w) : IsReply(r)
  <2> HIDE DEF Tried, Named, OnRelay, OnTime, ToTime
  <2>1. \A r \in UNION {Talk!Jump(n, w) : n \in Named} : IsReply(r)
    BY <1>1
  <2>2. \A r \in UNION {Tried(OnRelay(n, i), {1, 2}) : n \in {"switch_action", "quick_action"}, i \in w.codes} : IsReply(r)
    BY <1>2
  <2>3. \A r \in UNION {Tried(OnRelay("plan_action", i), {1, 2}) : i \in Talk!Numbered(w.plans)} : IsReply(r)
    BY <1>2
  <2>4. \A r \in UNION {Tried(OnTime(i, a), 1..3) \cup ToTime(OnTime(i, a)) : i \in w.codes, a \in {"on", "off"}} : IsReply(r)
    BY <1>2, <1>3
  <2> QED BY <1>4, <2>1, <2>2, <2>3, <2>4
<1>6. IsReply(Talk!MenuStart) /\ IsReply(Talk!Offer(Talk!Node("info_helped"), Talk!Helped))
  BY PlainReplies
<1>7. \A r \in UNION {Talk!Jump(n, w) : n \in {"order_channels", "feature", "agent"}} : IsReply(r)
  BY <1>1
<1>8. \A r \in Talk!Jumps(w) : IsReply(r)
  BY <1>1, <1>5, <1>6, <1>7 DEF Talk!Jumps
<1> QED BY <1>8, DeskUnclearReplies DEF Talk!Routed

LEMMA MenuRepliesAreReplies ==
    ASSUME NEW s, NEW m PROVE \A r \in Talk!MenuReplies(s, m) : IsReply(r)
BY PlainReplies, DeskChoiceReplies, DeskSpokenReplies, DeskUnclearReplies, RoutedReplies DEF Talk!MenuReplies

-----------------------------------------------------------------------------
(* The messages of a customer leave the office alone *)

IsSession(r) == {"state", "ask", "age"} \subseteq DOMAIN r /\ r.age \in Nat

\* A row that a customer's message stores, unless it asks for a confirmation.
Civil(r) == r.state \notin {"ADMIN", "CONFIRM"}
Fine(r)  == IsSession(r) /\ (r = row \/ Civil(r))

\* What a message has still to do; some of it the office does.
IsWork(t) == /\ {"do", "ask"} \subseteq DOMAIN t /\ t.ask.kind # "turn"
             /\ t.do \in {"propose", "store"} => t.ask.kind = "office"
OfOffice(t) == t.do \in {"first_turn", "propose", "store"} \/ (t.do = "carry_out" /\ t.ask.kind = "office")

\* A record, or at least a function.
IsMap(f) == f = [x \in DOMAIN f |-> f[x]]

\* This is what was read back last, just now; for the office it reached the admin.
ReadJustNow(ask) ==
    /\ IsMap(newest) /\ {"ask", "age", "shown"} \subseteq DOMAIN newest
    /\ newest.ask = ask /\ newest.age = 0
    /\ ask.kind = "office" => newest.shown

\* What comes of a message of a customer: a row without a confirmation, or the
\* one it had, or a confirmation that is about to be read back.
Calm   == Fine(row') /\ newest' = newest /\ todo' = None
Waiting == /\ IsSession(row') /\ row'.state = "CONFIRM" /\ row'.ask.kind \notin {"office", "turn"}
          /\ ReadJustNow(row.ask)'
          /\ IsWork(todo') /\ todo'.do = "read_back"
Outcome == proof' = proof /\ did' = None /\ (Calm \/ Waiting)

LEMMA NewSession ==
    ASSUME NEW state
    PROVE  IsSession(Talk!In(state)) /\ Talk!In(state).state = state /\ Talk!In(state).ask = Talk!NoOrder
BY DEF IsSession, Talk!In

LEMMA SavedSession ==
    ASSUME NEW r, IsSession(r), NEW new, IsSession(new)
    PROVE  /\ IsSession(Talk!Save(r, new))
           /\ Talk!Save(r, new).state = new.state /\ Talk!Save(r, new).ask = new.ask
BY DEF IsSession, Talk!Save

LEMMA SavedFine ==
    ASSUME NEW r, IsSession(r), NEW new, IsSession(new), Civil(new)
    PROVE  Fine(Talk!Save(r, new)) /\ Civil(Talk!Save(r, new))
BY SavedSession DEF Fine, Civil

\* The rows that are stored, apart from confirmations and admin mode.
LEMMA CivilSessions ==
    ASSUME NEW state \in {"MENU", "SECRETARY", "ADMIN_CHOICE", "ADMIN_CODE"}, NEW menu_
    PROVE  /\ IsSession(Talk!Idle) /\ Civil(Talk!Idle)
           /\ IsSession(Talk!In(state)) /\ Civil(Talk!In(state))
           /\ IsSession([Talk!In("MENU") EXCEPT !.menu = menu_]) /\ Civil([Talk!In("MENU") EXCEPT !.menu = menu_])
BY DEF IsSession, Civil, Talk!Idle, Talk!In

LEMMA SettledSession ==
    ASSUME NEW r, IsSession(r)
    PROVE  /\ Talk!Settled(r) = r \/ (IsSession(Talk!Settled(r)) /\ Talk!Settled(r).state = "IDLE")
           /\ Talk!Settled(r).state = "ADMIN" => r.state = "ADMIN" /\ r.age < 3
           /\ Talk!Settled(r).state = "CONFIRM" => r.state = "CONFIRM" /\ r.age < 1
BY DEF IsSession, Talk!Settled, Talk!Lifetime, Talk!Idle, Talk!In

LEMMA LeavesConfirm ==
    ASSUME NEW r, IsSession(r) PROVE Fine(Talk!LeaveConfirm(r)) /\ Civil(Talk!LeaveConfirm(r))
BY SavedFine, CivilSessions DEF Talk!LeaveConfirm

LEMMA Answers ==
    ASSUME NEW r, Fine(r), Talk!Answered(r) PROVE Outcome
BY DEF Talk!Answered, Talk!End, Talk!Still, Outcome, Calm

LEMMA AskSession ==
    ASSUME NEW ask, NEW resume
    PROVE  /\ IsSession([Talk!In("CONFIRM") EXCEPT !.ask = ask, !.resume = resume])
           /\ [Talk!In("CONFIRM") EXCEPT !.ask = ask, !.resume = resume].state = "CONFIRM"
           /\ [Talk!In("CONFIRM") EXCEPT !.ask = ask, !.resume = resume].ask = ask
BY DEF IsSession, Talk!In

LEMMA ReadingIsMap == \A ask, age, shown : IsMap([ask |-> ask, age |-> age, shown |-> shown])
BY DEF IsMap

LEMMA Asks ==
    ASSUME NEW r, Fine(r), NEW ask, NEW resume, ask.kind \notin {"office", "turn"}, Talk!AskFor(r, ask, resume)
    PROVE  Outcome
<1> DEFINE new == [Talk!In("CONFIRM") EXCEPT !.ask = ask, !.resume = resume]
<1>1. IsSession(new) /\ new.state = "CONFIRM" /\ new.ask = ask
  BY AskSession
<1>2. /\ row' = Talk!Save(r, new) /\ proof' = proof /\ did' = None
      /\ newest' = [ask |-> ask, age |-> 0, shown |-> FALSE]
  BY DEF Talk!AskFor, Talk!Then
<1>3. todo'.do = "read_back" /\ todo'.ask = ask /\ {"do", "ask"} \subseteq DOMAIN todo'
  BY DEF Talk!AskFor, Talk!Then
<1>4. IsSession(row') /\ row'.state = "CONFIRM" /\ row'.ask = ask
  <2> HIDE DEF new
  <2> QED BY <1>1, <1>2, SavedSession DEF Fine
<1>5. ReadJustNow(row.ask)'
  BY <1>2, <1>4, ReadingIsMap DEF ReadJustNow
<1> QED BY <1>2, <1>3, <1>4, <1>5 DEF Outcome, Waiting, IsWork

LEMMA CustomersAsk ==
    /\ \A a \in Talk!About("ticket") : a.kind = "ticket"
    /\ \A a \in Talk!About("lead") : a.kind = "lead"
    /\ \A a \in Talk!About("office") : a.kind = "office"
    /\ \A a \in Talk!Orders : a.kind = "immediate"
BY DEF Talk!About, Talk!Orders

LEMMA Supports ==
    ASSUME NEW r, Fine(r), Talk!SupportReply(r) PROVE Outcome
BY Answers, Asks, CustomersAsk DEF Talk!SupportReply

LEMMA Commands ==
    ASSUME NEW r, Fine(r), Talk!CommandReply(r) PROVE Outcome
BY Answers, Supports, Asks, CustomersAsk DEF Talk!CommandReply

LEMMA SecretaryAnswers ==
    ASSUME NEW r, Fine(r), Talk!SecretaryMode(r) PROVE Outcome
BY Answers, Asks, CustomersAsk DEF Talk!SecretaryMode

LEMMA SecretaryEnters ==
    ASSUME NEW r, Fine(r), Talk!EnterSecretary(r) PROVE Outcome
<1>1. Fine(Talk!Save(r, Talk!In("SECRETARY")))
  BY SavedFine, CivilSessions DEF Fine
<1> QED BY <1>1, SecretaryAnswers DEF Talk!EnterSecretary

LEMMA MenuShows ==
    ASSUME NEW r, Fine(r), NEW reply, Talk!ShowMenu(r, reply) PROVE Outcome
<1> DEFINE new == [Talk!In("MENU") EXCEPT !.menu = reply.state]
<1>1. IsSession(new) /\ Civil(new)
  BY CivilSessions
<1>2. row' = Talk!Save(r, new) /\ proof' = proof /\ did' = None /\ todo' = None /\ newest' = newest
  BY DEF Talk!ShowMenu, Talk!End
<1> HIDE DEF new
<1>3. Fine(row')
  BY <1>1, <1>2, SavedFine DEF Fine
<1> QED BY <1>2, <1>3 DEF Outcome, Calm

LEMMA MenuSends ==
    ASSUME NEW r, Fine(r), NEW reply, IsReply(reply), Talk!SendMenu(r, reply) PROVE Outcome
<1>1. Fine(Talk!Save(r, Talk!Idle))
  BY SavedFine, CivilSessions DEF Fine
<1>2. reply.order.kind \notin {"office", "turn"}
  BY DEF IsReply, MenuOrders
<1> QED BY <1>1, <1>2, Answers, SecretaryEnters, Commands, Asks, MenuShows DEF Talk!SendMenu

LEMMA OldPathsAnswer ==
    ASSUME NEW r, Fine(r), NEW m, Talk!OldPaths(r, m) PROVE Outcome
<1>1. Fine(Talk!Save(r, Talk!Idle))
  BY SavedFine, CivilSessions DEF Fine
<1>2. Talk!Guest(r, m) => Outcome
  BY <1>1, Answers, Supports DEF Talk!Guest
<1>3. Talk!Served(r, m) => Outcome
  BY <1>1, Answers, Commands DEF Talk!Served
<1> QED BY <1>2, <1>3 DEF Talk!OldPaths

LEMMA MenuAnswers ==
    ASSUME NEW r, Fine(r), NEW m, Talk!Menu(r, m) PROVE Outcome
<1>1. Fine(Talk!Save(r, Talk!Idle))
  BY SavedFine, CivilSessions DEF Fine
<1>2. \A s : \A reply \in Talk!MenuReplies(s, m) : Talk!SendMenu(r, reply) => Outcome
  BY MenuRepliesAreReplies, MenuSends
<1>3. Talk!SendMenu(r, Talk!MenuStart) => Outcome
  BY PlainReplies, MenuSends
<1> QED BY <1>1, <1>2, <1>3, OldPathsAnswer, SecretaryEnters DEF Talk!Menu

LEMMA UnaskedAnswers ==
    ASSUME NEW r, Fine(r), NEW m, Talk!Unasked(r, m) PROVE Outcome
<1>1. Fine(Talk!Save(r, Talk!Idle))
  BY SavedFine, CivilSessions DEF Fine
<1> QED BY <1>1, Answers, SecretaryAnswers, MenuShows, OldPathsAnswer, MenuAnswers DEF Talk!Unasked

-----------------------------------------------------------------------------
(* The invariant of a chat *)

\* The proof of the admin is as fresh as the row of the office, and whatever the
\* office has under way began with it.  A confirmation that is still open is of
\* what was read back last, and so is what is about to be carried out; by then
\* the row waits for nothing.
TalkInv ==
    /\ IsSession(row) /\ proof \in Nat \cup {None}
    /\ row.state = "ADMIN" /\ row.age < 3 => proof \in 0..row.age
    /\ row.state = "CONFIRM" => row.ask.kind # "turn"
    /\ row.state = "CONFIRM" /\ row.age < 1 =>
          ReadJustNow(row.ask) /\ (row.ask.kind = "office" => proof = 0)
    /\ todo # None =>
          /\ IsWork(todo) /\ (OfOffice(todo) => proof = 0)
          /\ todo.do # "read_back" => row.state # "CONFIRM"
          /\ todo.do \in {"carry_out", "store"} => ReadJustNow(todo.ask)

\* What a step leads to; what it does, an admin asked for, and somebody confirmed.
Approved == /\ did' # None /\ did' # Talk!ATurn => ReadJustNow(did')
            /\ Talk!OfficeIsGated
Sound == TalkInv' /\ Approved

LEMMA TalkStarts == Talk!Init => TalkInv
BY NewSession DEF Talk!Init, TalkInv

LEMMA SilentIsApproved == did' = None => Approved
BY DEF Approved, Talk!OfficeIsGated

LEMMA OutcomeKeeps ==
    ASSUME TalkInv, Outcome PROVE Sound
<1>1. did' = None /\ proof' = proof
  BY DEF Outcome
<1>2. CASE Calm
  <2>1. ASSUME row' = row PROVE TalkInv'
    BY <1>1, <1>2, <2>1 DEF TalkInv, Calm, Fine, ReadJustNow
  <2>2. ASSUME Civil(row') PROVE TalkInv'
    BY <1>1, <1>2, <2>2 DEF TalkInv, Calm, Fine, Civil
  <2>3. TalkInv'
    BY <1>2, <2>1, <2>2 DEF Calm, Fine
  <2> QED BY <1>1, <2>3, SilentIsApproved DEF Sound
<1>3. CASE Waiting
  <2>1. TalkInv'
    BY <1>1, <1>3 DEF TalkInv, Waiting, OfOffice
  <2> QED BY <1>1, <2>1, SilentIsApproved DEF Sound
<1> QED BY <1>2, <1>3 DEF Outcome

\* Rows without a confirmation: with a proof of this moment, or of a customer.
LEMMA FreshKeeps ==
    ASSUME IsSession(row'), row'.state # "CONFIRM", proof' = 0,
           todo' = None \/ (IsWork(todo') /\ todo'.do \notin {"carry_out", "store"})
    PROVE  TalkInv'
BY DEF TalkInv, IsSession

LEMMA CivilKeeps ==
    ASSUME IsSession(row'), Civil(row'), proof' \in Nat \cup {None}, todo' = None
    PROVE  TalkInv'
BY DEF TalkInv, Civil

LEMMA AdminKept ==
    ASSUME NEW r, IsSession(r)
    PROVE  /\ IsSession(Talk!KeepAdmin(r)) /\ Talk!KeepAdmin(r).state = "ADMIN"
BY NewSession, SavedSession DEF Talk!KeepAdmin

\* A confirmed order is about to be carried out.
LEMMA ConfirmedKeeps ==
    ASSUME TalkInv, NEW r, IsSession(r), r.state # "CONFIRM", row.state = "CONFIRM", row.age < 1,
           r.state = "ADMIN" => proof = 0,
           Talk!Then(r, "carry_out", row.ask), Talk!Still
    PROVE  Sound
<1>1. /\ row' = r /\ proof' = proof /\ newest' = newest /\ did' = None
      /\ todo'.do = "carry_out" /\ todo'.ask = row.ask /\ {"do", "ask"} \subseteq DOMAIN todo'
  BY DEF Talk!Then, Talk!Still
<1>2. ReadJustNow(row.ask) /\ row.ask.kind # "turn" /\ (row.ask.kind = "office" => proof = 0)
  BY DEF TalkInv
<1>3. ReadJustNow(todo.ask)'
  BY <1>1, <1>2 DEF ReadJustNow
<1>4. IsWork(todo') /\ (OfOffice(todo') => proof' = 0)
  BY <1>1, <1>2 DEF IsWork, OfOffice
<1>5. TalkInv'
  BY <1>1, <1>3, <1>4 DEF TalkInv, IsSession
<1> QED BY <1>1, <1>5, SilentIsApproved DEF Sound

LEMMA CustomersAreSound ==
    ASSUME TalkInv, NEW m, Talk!Customer(m) PROVE Sound
<1> DEFINE s == Talk!Settled(row)
<1>1. /\ IsSession(row) /\ Fine(row)
      /\ Fine(Talk!LeaveConfirm(row)) /\ Civil(Talk!LeaveConfirm(row))
  BY LeavesConfirm DEF TalkInv, Fine
<1>2. CASE Talk!Unasked(row, m) \/ Talk!Unasked(Talk!LeaveConfirm(row), m)
  BY <1>1, <1>2, UnaskedAnswers, OutcomeKeeps
<1>3. CASE s.state = "CONFIRM" /\ Talk!Then(Talk!LeaveConfirm(row), "carry_out", s.ask) /\ Talk!Still
  <2>1. s = row /\ row.state = "CONFIRM" /\ row.age < 1
    BY <1>1, <1>3, SettledSession
  <2>2. /\ IsSession(Talk!LeaveConfirm(row)) /\ Talk!LeaveConfirm(row).state # "CONFIRM"
        /\ Talk!LeaveConfirm(row).state # "ADMIN"
    BY <1>1 DEF Fine, Civil
  <2>3. Talk!Then(Talk!LeaveConfirm(row), "carry_out", row.ask) /\ Talk!Still
    BY <1>3, <2>1
  <2> HIDE DEF s
  <2> QED BY <2>1, <2>2, <2>3, ConfirmedKeeps
<1>4. CASE Talk!End(Talk!LeaveConfirm(row)) /\ did' = None /\ proof' = proof
  <2>1. IsSession(row') /\ Civil(row') /\ todo' = None /\ did' = None
    BY <1>1, <1>4 DEF Talk!End, Fine
  <2> QED BY <1>4, <2>1, CivilKeeps, SilentIsApproved DEF Sound, TalkInv
<1> QED BY <1>2, <1>3, <1>4 DEF Talk!Customer

-----------------------------------------------------------------------------
(* The office *)

LEMMA HeardIsSound ==
    ASSUME NEW r, IsSession(r), r.state = "ADMIN", proof # None, Talk!Heard(r)
    PROVE  Sound
<1>1. row' = r /\ todo' = None /\ proof' = 0 /\ did' = None
  BY DEF Talk!Heard, Talk!End
<1> QED BY <1>1, FreshKeeps, SilentIsApproved DEF Sound

LEMMA TurnIsSound ==
    ASSUME NEW r, IsSession(r), r.state # "CONFIRM", proof \in 0..2, Talk!Turn(r)
    PROVE  Sound
<1>1. proof # None /\ proof' = 0 /\ did' = Talk!ATurn
  BY ServicesAssumption DEF Talk!Turn
<1>2. IsSession(row') /\ row'.state # "CONFIRM"
  BY AdminKept DEF Talk!Turn
<1>3. todo' = None \/ (IsWork(todo') /\ todo'.do \notin {"carry_out", "store"})
  BY CustomersAsk DEF Talk!Turn, IsWork
<1>4. Approved
  BY <1>1 DEF Talk!OfficeIsGated, Approved
<1> QED BY <1>1, <1>2, <1>3, <1>4, FreshKeeps DEF Sound

\* What the office hears, an admin said.
LEMMA OfficeIsSound ==
    ASSUME TalkInv, NEW m,
           \/ Talk!Settled(row).state = "ADMIN"
           \/ Talk!Settled(row).state = "CONFIRM" /\ Talk!Settled(row).ask.kind = "office",
           Talk!Office(m)
    PROVE  Sound
<1> DEFINE s == Talk!Settled(row)
<1>1. IsSession(row) /\ (s.state = "IDLE" \/ s = row)
  BY SettledSession DEF TalkInv
<1>2. proof \in 0..2 /\ proof # None
  BY <1>1, SettledSession, ServicesAssumption DEF TalkInv, IsSession
<1>3. /\ IsSession(Talk!KeepAdmin(row)) /\ Talk!KeepAdmin(row).state = "ADMIN"
      /\ Talk!KeepAdmin(row).state # "CONFIRM"
  BY <1>1, AdminKept
<1>4. CASE Talk!Heard(Talk!KeepAdmin(row))
  BY <1>2, <1>3, <1>4, HeardIsSound
<1>5. CASE Talk!Turn(Talk!KeepAdmin(row))
  BY <1>2, <1>3, <1>5, TurnIsSound
<1>6. CASE s.state = "CONFIRM" /\ Talk!Then(Talk!KeepAdmin(row), "carry_out", s.ask) /\ Talk!Still
  <2>1. s = row /\ row.state = "CONFIRM" /\ row.ask.kind = "office" /\ row.age < 1
    BY <1>1, <1>6, SettledSession
  <2>2. proof = 0
    BY <2>1 DEF TalkInv
  <2>3. Talk!Then(Talk!KeepAdmin(row), "carry_out", row.ask) /\ Talk!Still
    BY <1>6, <2>1
  <2> HIDE DEF s
  <2> QED BY <1>3, <2>1, <2>2, <2>3, ConfirmedKeeps
<1>7. CASE s.state = "ADMIN" /\ Talk!Turn(row)
  <2>1. row.state # "CONFIRM"
    BY <1>1, <1>7
  <2> QED BY <1>1, <1>2, <1>7, <2>1, TurnIsSound
<1> QED
  <2>1. s.state # "CONFIRM" => s.state = "ADMIN"
    OBVIOUS
  <2> QED BY <1>4, <1>5, <1>6, <1>7, <2>1 DEF Talk!Office

LEMMA CustomerModeIsSound ==
    ASSUME TalkInv, Talk!CustomerMode PROVE Sound
<1>1. proof' = None /\ did' = None /\ todo' = None
  BY DEF Talk!CustomerMode
<1>2. IsSession(row') /\ Civil(row')
  <2> DEFINE new == [Talk!In("MENU") EXCEPT !.menu = Talk!Main]
  <2>1. row' = Talk!Save(row, new) \/ row' = Talk!Save(row, Talk!Idle)
    BY DEF Talk!CustomerMode
  <2>2. IsSession(new) /\ Civil(new) /\ IsSession(Talk!Idle) /\ Civil(Talk!Idle) /\ IsSession(row)
    BY CivilSessions DEF TalkInv
  <2> HIDE DEF new
  <2>3. /\ Fine(Talk!Save(row, new)) /\ Civil(Talk!Save(row, new))
    BY <2>2, SavedFine
  <2>4. /\ Fine(Talk!Save(row, Talk!Idle)) /\ Civil(Talk!Save(row, Talk!Idle))
    BY <2>2, SavedFine
  <2> QED BY <2>1, <2>3, <2>4 DEF Fine
<1> QED BY <1>1, <1>2, CivilKeeps, SilentIsApproved DEF Sound

LEMMA CodeStarts ==
    ASSUME TalkInv, NEW m, Talk!StartCode(m) PROVE Sound
<1> DEFINE code == [Talk!In("ADMIN_CODE") EXCEPT !.resume = m.kind = "admin"]
           linked == [code EXCEPT !.link = links + 1]
<1>1. /\ IsSession(code) /\ Civil(code) /\ IsSession(linked) /\ Civil(linked)
  BY DEF IsSession, Civil, Talk!In
<1>2. /\ row' = Talk!Save(row, code) \/ row' = Talk!Save(row, linked)
      /\ todo' = None /\ proof' = proof /\ did' = None
  BY DEF Talk!StartCode, Talk!Still
<1> HIDE DEF code, linked
<1>3. IsSession(row') /\ Civil(row')
  BY <1>1, <1>2, SavedSession DEF TalkInv, Civil
<1> QED BY <1>2, <1>3, CivilKeeps, SilentIsApproved DEF Sound, TalkInv

LEMMA AdminEnters ==
    ASSUME TalkInv, NEW resume, Talk!EnterAdmin(resume) PROVE Sound
<1>1. IsSession(row') /\ row'.state # "CONFIRM"
  BY NewSession, SavedSession DEF Talk!EnterAdmin, TalkInv
<1>2. proof' = 0 /\ did' = None /\ (todo' = None \/ (IsWork(todo') /\ todo'.do = "first_turn"))
  BY DEF Talk!EnterAdmin, IsWork, Talk!NoOrder
<1> QED BY <1>1, <1>2, FreshKeeps, SilentIsApproved DEF Sound

LEMMA CodeIsSound ==
    ASSUME TalkInv, NEW m, Talk!Settled(row).state = "ADMIN_CODE", Talk!CodeAnswer(m, Talk!Settled(row))
    PROVE  Sound
<1> DEFINE s == Talk!Settled(row)
           tried == [s EXCEPT !.tries = @ + 1]
           left == IF s.tries + 1 >= Tries THEN Talk!Idle ELSE tried
<1>1. IsSession(row) /\ s = row
  BY SettledSession DEF TalkInv
<1>2. IsSession(left) /\ Civil(left)
  <2>1. IsSession(tried) /\ Civil(tried)
    BY <1>1 DEF IsSession, Civil
  <2> HIDE DEF tried
  <2> QED BY <2>1, CivilSessions
<1>3. CASE Talk!EnterAdmin(s.resume)
  BY <1>3, AdminEnters
<1>4. CASE Talk!Answered(Talk!Save(row, left))
  <2> HIDE DEF left
  <2>1. Fine(Talk!Save(row, left))
    BY <1>1, <1>2, SavedFine
  <2> QED BY <1>4, <2>1, Answers, OutcomeKeeps
<1> QED BY <1>3, <1>4 DEF Talk!CodeAnswer

LEMMA MessagesAreSound ==
    ASSUME TalkInv, Talk!Receive PROVE Sound
<1>1. PICK m \in Talk!Messages : IF number.admin THEN Talk!Gate(m) ELSE Talk!Customer(m)
  BY DEF Talk!Receive
<1>2. CASE Talk!Customer(m)
  BY <1>2, CustomersAreSound
<1>3. CASE Talk!Answered(row) \/ Talk!Answered(Talk!Save(row, Talk!In("ADMIN_CHOICE")))
  <2>1. Fine(row) /\ Fine(Talk!Save(row, Talk!In("ADMIN_CHOICE")))
    BY SavedFine, CivilSessions DEF Fine, TalkInv
  <2> QED BY <1>3, <2>1, Answers, OutcomeKeeps
<1>4. CASE Talk!Gate(m)
  BY <1>2, <1>3, <1>4, OfficeIsSound, CustomerModeIsSound, CodeIsSound, CodeStarts DEF Talk!Gate
<1> QED BY <1>1, <1>2, <1>4

-----------------------------------------------------------------------------
(* The rest of a message, and what surrounds it *)

\* That a read-back was delivered changes nothing of what was read back.
LEMMA ReadBackIsSound ==
    ASSUME TalkInv, Talk!ReadBack PROVE Sound
<1>1. /\ newest' = [newest EXCEPT !.shown = TRUE] \/ newest' = newest
      /\ row' = row /\ proof' = proof /\ todo' = None /\ did' = None
  BY DEF Talk!ReadBack
<1>2. ASSUME ReadJustNow(row.ask) PROVE ReadJustNow(row.ask)'
  <2>1. CASE newest' = newest
    BY <1>1, <1>2, <2>1 DEF ReadJustNow
  <2>2. CASE newest' = [newest EXCEPT !.shown = TRUE]
    <3>1. {"ask", "age", "shown"} \subseteq DOMAIN newest' /\ IsMap(newest')
      BY <1>2, <2>2 DEF ReadJustNow, IsMap
    <3>2. newest'.ask = newest.ask /\ newest'.age = newest.age /\ newest'.shown
      BY <1>2, <2>2 DEF ReadJustNow
    <3> QED BY <1>1, <1>2, <3>1, <3>2 DEF ReadJustNow
  <2> QED BY <1>1, <2>1, <2>2
<1>3. TalkInv'
  BY <1>1, <1>2 DEF TalkInv
<1> QED BY <1>1, <1>3, SilentIsApproved DEF Sound

LEMMA RestIsSound ==
    ASSUME TalkInv, Talk!MenuAfter \/ Talk!Restart \/ Talk!Suspend \/ Talk!Change
    PROVE  Sound
<1>1. Fine(row)
  BY DEF TalkInv, Fine
<1>2. CASE Talk!MenuAfter
  BY <1>1, <1>2, MenuShows, OutcomeKeeps DEF Talk!MenuAfter
<1>3. CASE Talk!Restart \/ Talk!Suspend \/ Talk!Change
  <2>1. row' = row /\ proof' = proof /\ todo' = None /\ did' = None /\ newest' = newest
    BY <1>3 DEF Talk!Restart, Talk!Suspend, Talk!Change, Talk!Still
  <2> QED BY <1>1, <2>1, OutcomeKeeps DEF Outcome, Calm
<1> QED BY <1>2, <1>3

LEMMA ProposalsAreSound ==
    ASSUME TalkInv, Talk!Propose \/ Talk!Store PROVE Sound
<1>1. /\ todo # None /\ IsWork(todo) /\ proof = 0 /\ todo.ask.kind = "office" /\ IsSession(row)
      /\ row.state # "CONFIRM"
  BY DEF Talk!Propose, Talk!Store, Talk!Doing, TalkInv, OfOffice, IsWork
<1>2. proof' = 0 /\ did' = None
  BY <1>1 DEF Talk!Propose, Talk!Store, Talk!Answered, Talk!Still
<1>3. CASE row' = Talk!KeepAdmin(row) /\ todo' = None
  <2>1. IsSession(row') /\ row'.state # "CONFIRM"
    BY <1>1, <1>3, AdminKept
  <2> QED BY <1>2, <1>3, <2>1, FreshKeeps, SilentIsApproved DEF Sound
<1>4. CASE /\ row' = row /\ todo' = [todo EXCEPT !.do = "store"]
           /\ newest' = [ask |-> todo.ask, age |-> 0, shown |-> TRUE]
  <2>1. IsWork(todo') /\ todo'.do = "store" /\ todo'.ask = todo.ask
    BY <1>1, <1>4 DEF IsWork
  <2>2. ReadJustNow(todo.ask)'
    BY <1>4, <2>1, ReadingIsMap DEF ReadJustNow
  <2>3. TalkInv'
    BY <1>1, <1>2, <1>4, <2>1, <2>2 DEF TalkInv, IsSession
  <2> QED BY <1>2, <2>3, SilentIsApproved DEF Sound
<1>5. CASE Talk!Store
  <2> DEFINE new == [Talk!In("CONFIRM") EXCEPT !.ask = todo.ask]
  <2>1. row' = Talk!Save(row, new) /\ todo' = None /\ newest' = newest
    BY <1>5 DEF Talk!Store, Talk!Answered, Talk!End, Talk!Still
  <2>2. IsSession(new) /\ new.state = "CONFIRM" /\ new.ask = todo.ask
    BY DEF IsSession, Talk!In
  <2> HIDE DEF new
  <2>3. IsSession(row') /\ row'.state = "CONFIRM" /\ row'.ask = todo.ask
    BY <1>1, <2>1, <2>2, SavedSession
  <2>4. ReadJustNow(todo.ask)
    BY <1>5 DEF Talk!Store, Talk!Doing, TalkInv
  <2>5. ReadJustNow(row.ask)'
    BY <2>1, <2>3, <2>4 DEF ReadJustNow
  <2>6. TalkInv'
    BY <1>1, <1>2, <2>1, <2>3, <2>5 DEF TalkInv, IsWork
  <2> QED BY <1>2, <2>6, SilentIsApproved DEF Sound
<1> QED BY <1>3, <1>4, <1>5 DEF Talk!Propose

LEMMA CarryOutIsSound ==
    ASSUME TalkInv, Talk!CarryOut PROVE Sound
<1>1. /\ todo # None /\ todo.do = "carry_out" /\ IsWork(todo) /\ row' = row /\ did' = todo.ask
      /\ ReadJustNow(todo.ask) /\ row.state # "CONFIRM" /\ IsSession(row) /\ proof \in Nat \cup {None}
  BY DEF Talk!CarryOut, Talk!Doing, TalkInv
<1>2. todo' = None \/ (todo' = [todo EXCEPT !.do = "menu"] /\ todo.ask.kind # "office")
  BY DEF Talk!CarryOut
<1>3. todo' = None \/ (IsWork(todo') /\ todo'.do = "menu")
  BY <1>1, <1>2 DEF IsWork
<1>4. CASE todo.ask.kind = "office"
  <2>1. proof = 0 /\ proof' = 0
    BY <1>1, <1>4 DEF TalkInv, OfOffice, Talk!CarryOut
  <2>2. Approved
    BY <1>1, <2>1, ServicesAssumption DEF Talk!OfficeIsGated, Approved
  <2>3. TalkInv'
    BY <1>1, <1>3, <2>1, FreshKeeps
  <2> QED BY <2>2, <2>3 DEF Sound
<1>5. CASE todo.ask.kind # "office"
  <2>1. proof' = proof
    BY <1>5 DEF Talk!CarryOut
  <2>2. Approved
    BY <1>1, <1>5 DEF Talk!OfficeIsGated, IsWork, Approved
  <2>3. TalkInv'
    BY <1>1, <1>3, <2>1 DEF TalkInv, OfOffice
  <2> QED BY <2>2, <2>3 DEF Sound
<1> QED BY <1>4, <1>5

LEMMA FirstTurnIsSound ==
    ASSUME TalkInv, Talk!FirstTurn PROVE Sound
<1>1. proof = 0
  BY DEF Talk!FirstTurn, Talk!Doing, TalkInv, OfOffice
<1>2. IsSession(row) /\ row.state # "CONFIRM" /\ Talk!Turn(row)
  BY DEF Talk!FirstTurn, Talk!Doing, TalkInv
<1>3. proof \in 0..2
  BY <1>1
<1> QED BY <1>2, <1>3, TurnIsSound

LEMMA LinksAreSound ==
    ASSUME TalkInv, Talk!OpenLink \/ Talk!ClaimLink PROVE Sound
<1>1. CASE Talk!OpenLink
  <2>1. UNCHANGED <<row, todo, newest, proof>> /\ did' = None
    BY <1>1 DEF Talk!OpenLink
  <2> QED BY <2>1, SilentIsApproved DEF Sound, TalkInv, ReadJustNow
<1>2. CASE Talk!ClaimLink
  <2> DEFINE s == Talk!Settled(row)
             spent == [s EXCEPT !.link = 0]
  <2>1. CASE row' = row /\ todo' = None /\ Talk!Still
    BY <2>1, OutcomeKeeps DEF Talk!Still, Outcome, Calm, Fine, TalkInv
  <2>2. CASE s.state = "ADMIN_CODE" /\ row' = Talk!Save(row, spent) /\ todo' = None /\ Talk!Still
    <3>1. s = row /\ IsSession(row)
      BY <2>2, SettledSession DEF TalkInv
    <3>2. IsSession(spent) /\ Civil(spent)
      BY <2>2, <3>1 DEF IsSession, Civil
    <3> HIDE DEF s, spent
    <3>3. Fine(row')
      BY <2>2, <3>1, <3>2, SavedFine
    <3> QED BY <2>2, <3>3, OutcomeKeeps DEF Talk!Still, Outcome, Calm
  <2>3. CASE Talk!EnterAdmin(s.resume)
    BY <2>3, AdminEnters
  <2> QED BY <1>2, <2>1, <2>2, <2>3 DEF Talk!ClaimLink
<1> QED BY <1>1, <1>2

\* The row, the proof and the read-back grow old together.
LEMMA TimeIsSound ==
    ASSUME TalkInv, Talk!Later PROVE Sound
<1>1. /\ todo' = None /\ did' = None /\ proof' = IF proof = None THEN None ELSE Talk!Older(proof)
      /\ newest' = IF newest = None THEN None ELSE [newest EXCEPT !.age = Talk!Older(@)]
  BY DEF Talk!Later
<1>2. /\ IsSession(row') /\ row'.state = row.state /\ row'.ask = row.ask
      /\ row'.age = Talk!Older(row.age)
  BY ServicesAssumption DEF Talk!Later, IsSession, TalkInv, Talk!Older
<1>3. proof' \in Nat \cup {None}
  BY <1>1, ServicesAssumption DEF TalkInv, Talk!Older
<1>4. row.state = "ADMIN" /\ row'.age < 3 => proof' \in 0..row'.age
  <2>1. row'.age < 3 => row.age < 3
    BY <1>2, ServicesAssumption DEF Talk!Older, TalkInv, IsSession
  <2> QED BY <1>1, <1>2, <2>1, ServicesAssumption DEF Talk!Older, TalkInv, IsSession
<1>5. row'.age < 1 => row.age = 0 /\ MaxAge = 0
  BY <1>2, ServicesAssumption DEF Talk!Older, TalkInv, IsSession
<1>6. row.state = "CONFIRM" /\ row.ask.kind = "office" /\ row'.age < 1 => proof' = 0
  BY <1>1, <1>5, ServicesAssumption DEF Talk!Older, TalkInv
<1>7. ASSUME row.state = "CONFIRM", row'.age < 1 PROVE ReadJustNow(row.ask)'
  <2>1. ReadJustNow(row.ask) /\ MaxAge = 0
    BY <1>5, <1>7 DEF TalkInv
  <2>2. IsMap(newest) /\ newest.age = 0
    BY <2>1 DEF ReadJustNow
  <2>3. CASE newest' = newest
    BY <1>2, <2>1, <2>3 DEF ReadJustNow
  <2>4. CASE newest' = [newest EXCEPT !.age = Talk!Older(@)]
    <3>1. IsMap(newest') /\ {"ask", "age", "shown"} \subseteq DOMAIN newest'
      BY <2>1, <2>4 DEF ReadJustNow, IsMap
    <3>2. newest'.ask = newest.ask /\ newest'.age = 0 /\ newest'.shown = newest.shown
      BY <2>1, <2>4 DEF ReadJustNow, Talk!Older
    <3> QED BY <1>2, <2>1, <3>1, <3>2 DEF ReadJustNow
  <2> QED BY <1>1, <2>3, <2>4
<1>8. TalkInv'
  BY <1>1, <1>2, <1>3, <1>4, <1>6, <1>7 DEF TalkInv
<1> QED BY <1>1, <1>8, SilentIsApproved DEF Sound

LEMMA ChatIsSound ==
    ASSUME TalkInv, Talk!Next PROVE Sound
BY MessagesAreSound, ReadBackIsSound, RestIsSound, ProposalsAreSound, CarryOutIsSound, FirstTurnIsSound,
   LinksAreSound, TimeIsSound
   DEF Talk!Next

ChatPart == part = "chat" => TalkInv

LEMMA ChatPartHolds == ServicesSpec => []ChatPart
<1>1. ServicesInit => ChatPart
  BY TalkStarts DEF ServicesInit, ChatPart
<1>2. ChatPart /\ [ServicesNext]_allVars => ChatPart'
  <2> SUFFICES ASSUME ChatPart, [ServicesNext]_allVars, part' = "chat" PROVE TalkInv'
    BY DEF ChatPart
  <2>1. part = "chat" /\ TalkInv
    BY DEF ServicesNext, allVars, ChatPart
  <2>2. Talk!Next \/ UNCHANGED talkVars
    BY <2>1 DEF ServicesNext, allVars
  <2>3. CASE UNCHANGED talkVars
    BY <2>1, <2>3 DEF talkVars, TalkInv, ReadJustNow
  <2> QED BY <2>1, <2>2, <2>3, ChatIsSound DEF Sound
<1> QED BY <1>1, <1>2, PTL DEF ServicesSpec

\* The secretary of the office answers, and carries out, only for an admin who proved
\* to be one and was not silent for half an hour since, whatever else is written,
\* whenever the process is replaced and in whatever order links are opened and
\* claimed (whatsapp/bot.js, adminGate).
THEOREM AdminIsProved == ServicesSpec => OfficeIsGated
<1>1. ChatPart /\ [ServicesNext]_allVars => [part = "chat" => Talk!OfficeIsGated]_allVars
  BY ChatIsSound DEF ChatPart, ServicesNext, Sound, Approved
<1> QED BY <1>1, ChatPartHolds, PTL DEF ServicesSpec, OfficeIsGated

-----------------------------------------------------------------------------
(* What a call will carry out is what was read *)

Fields == {"type", "sides", "day", "onDay", "onTime", "offDay", "offTime", "relay"}
IsEntry(e) == IsMap(e) /\ DOMAIN e = Fields
IsCall(s) ==
    /\ IsMap(s) /\ {"state", "entry", "order", "readOn", "fields", "del", "list", "idx"} \subseteq DOMAIN s
    /\ IsEntry(s.entry) /\ s.readOn \in Int

\* A day that is counted from the reading is a number.
IsOrder(o) == o.kind = "timed" => IsMap(o) /\ "date" \in DOMAIN o /\ o.date \in Int

AddSteps == {"SCHED_TYPE", "SCHED_SIDES", "SCHED_ONCE_DAY", "SCHED_ON_DAY", "SCHED_ON_TIME",
             "SCHED_OFF_DAY", "SCHED_OFF_TIME", "SCHED_CONFIRM"}
Sensitive == AddSteps \cup {"NLU_CONFIRM", "SCHED_BROWSE", "SCHED_DEL_CONFIRM"}

\* The answers of this attempt that a step of the add flow has behind it.
Given(state, type, sides) ==
    {"relay"}
    \cup (IF state # "SCHED_TYPE" THEN {"type"} ELSE {})
    \cup (IF state \notin {"SCHED_TYPE", "SCHED_SIDES"} THEN {"sides"} ELSE {})
    \cup (IF type = "once" /\ state \in {"SCHED_ON_TIME", "SCHED_OFF_TIME"} THEN {"day"} ELSE {})
    \cup (IF type = "weekly" /\ sides # "off" /\ state \in {"SCHED_ON_TIME", "SCHED_OFF_DAY", "SCHED_OFF_TIME"}
          THEN {"onDay"} ELSE {})
    \cup (IF sides # "off" /\ state \in {"SCHED_OFF_DAY", "SCHED_OFF_TIME"} THEN {"onTime"} ELSE {})
    \cup (IF type = "weekly" /\ state = "SCHED_OFF_TIME" THEN {"offDay"} ELSE {})

\* The steps that this kind of schedule passes through.
OnPath(state, type, sides) ==
    /\ state # "SCHED_TYPE" => type \in {"once", "daily", "weekly"}
    /\ state \notin {"SCHED_TYPE", "SCHED_SIDES"} => sides \in {"both", "on", "off"}
    /\ state = "SCHED_ONCE_DAY" => type = "once"
    /\ state \in {"SCHED_ON_DAY", "SCHED_OFF_DAY"} => type = "weekly"
    /\ state \in {"SCHED_ON_DAY", "SCHED_ON_TIME"} => sides # "off"
    /\ state \in {"SCHED_OFF_DAY", "SCHED_OFF_TIME"} => sides # "on"

\* What was keyed is in the session; what was not is not in the memory of the caller.
AsKeyed(given, e) ==
    /\ \A f \in given : keyed[f] = e[f]
    /\ \A f \in Fields \ given : keyed[f] = None

InAddFlow ==
    LET e == sess.entry
    IN  /\ OnPath(sess.state, e.type, e.sides)
        /\ IF sess.state = "SCHED_CONFIRM" THEN \A f \in {"relay", "type", "sides"} : keyed[f] = e[f]
           ELSE AsKeyed(Given(sess.state, e.type, e.sides), e)

Understood ==
    /\ sess.state \in AddSteps => InAddFlow
    /\ sess.state = "SCHED_CONFIRM" => [kind |-> "create", fields |-> sess.fields] \in wish
    /\ sess.state = "SCHED_BROWSE" => Call!Heard(sess) \subseteq wish
    /\ sess.state = "SCHED_DEL_CONFIRM" => [kind |-> "delete", id |-> sess.del] \in wish
    /\ sess.state = "NLU_CONFIRM" => 
          IsFiniteSet(sess.order) /\ sess.order \subseteq wish /\ \A o \in sess.order : IsOrder(o)

Spoilt  == blemishes \cap {"cut_short", "half_done"} # {}
LostLog == blemishes \cap {"lost", "no_relays"} # {}

\* A row that is still open belongs to a session that is still there, and if something
\* was carried out, then the request that did so is about to close it; the
\* closing comes with the end of the call.
LogInv ==
    /\ log # None /\ log.outcome = "abandoned" => ~line /\ (count > 0 => Spoilt)
    /\ log # None /\ ~log.ended => IsMap(sess) \/ LostLog
    /\ ~log.ended /\ count > 0 => Spoilt \/ step \in {"command", "deleted", "saved"} \/ (step = None /\ sess = None)

CallInv ==
    /\ date \in Int /\ count \in Nat /\ IsEntry(keyed)
    /\ sess # None => IsCall(sess) /\ Understood
    /\ LogInv

-----------------------------------------------------------------------------
(* Requests that only prompt, and those that end the call *)

CallSound == CallInv' /\ Call!AsRead
OnLine == CallInv /\ line /\ step = None /\ sess # None

Prompted ==
    /\ IsCall(sess') /\ Understood' /\ IsEntry(keyed')
    /\ UNCHANGED <<line, step, log, doing, count, blemishes, date>>

LEMMA NoSteps == None \notin {"abandoned", "command", "deleted", "saved"}
BY CallAssumption

LEMMA PromptsAreSound == ASSUME OnLine, Prompted PROVE CallSound
<1>1. IsMap(sess') /\ Spoilt' = Spoilt /\ LostLog' = LostLog
  BY DEF Prompted, IsCall, Spoilt, LostLog
<1>2. LogInv'
  BY <1>1, NoSteps DEF OnLine, CallInv, LogInv, Prompted
<1>3. date' \in Int /\ count' \in Nat /\ doing' = doing
  BY DEF OnLine, CallInv, Prompted
<1> QED BY <1>2, <1>3 DEF CallSound, CallInv, Prompted, Call!AsRead

LEMMA HangUpIsSound == ASSUME OnLine, NEW o, Call!HangUpWith(o) PROVE CallSound
<1>1. /\ sess' = None /\ line' = FALSE /\ step' = step /\ count' = count /\ doing' = doing
      /\ keyed' = keyed /\ date' = date /\ blemishes' = blemishes
      /\ log' = Call!Outcome(o)
  BY DEF Call!HangUpWith, Call!Keep, Call!KeepAll, Call!account
<1>2. Spoilt' = Spoilt
  BY <1>1 DEF Spoilt
<1>3. CASE log.ended
  <2>1. log' = log
    BY <1>1, <1>3 DEF Call!Outcome
  <2>2. LogInv'
    BY <1>1, <1>2, <1>3, <2>1 DEF LogInv, OnLine, CallInv
  <2> QED BY <1>1, <2>2 DEF CallSound, CallInv, OnLine, Call!AsRead
<1>4. CASE ~log.ended
  <2>1. log'.ended
    BY <1>1, <1>4 DEF Call!Outcome
  <2>2. count > 0 => Spoilt
    BY <1>4, NoSteps DEF LogInv, OnLine, CallInv
  <2>3. LogInv'
    BY <1>1, <1>2, <2>1, <2>2 DEF LogInv
  <2> QED BY <1>1, <2>3 DEF CallSound, CallInv, OnLine, Call!AsRead
<1> QED BY <1>3, <1>4

LEMMA NoScheduleIsEntry == IsEntry(Call!NoSchedule)
BY DEF Call!NoSchedule, IsEntry, IsMap, Fields

LEMMA NewCall ==
    ASSUME NEW state
    PROVE  IsCall(Call!NewSession(state)) /\ Call!NewSession(state).state = state
<1>1. IsMap(Call!NewSession(state))
  BY DEF Call!NewSession, IsMap
<1>2. {"state", "entry", "order", "readOn", "fields", "del", "list", "idx"} \subseteq DOMAIN Call!NewSession(state)
  BY DEF Call!NewSession
<1>3. /\ Call!NewSession(state).entry = Call!NoSchedule /\ Call!NewSession(state).readOn = 0
      /\ Call!NewSession(state).state = state
  BY DEF Call!NewSession
<1> QED BY NoScheduleIsEntry, <1>1, <1>2, <1>3 DEF IsCall

LEMMA MainCall ==
    ASSUME NEW s, IsCall(s) PROVE IsCall(Call!AtMain(s)) /\ Call!AtMain(s).state = "MAIN"
<1> DEFINE e == [s.entry EXCEPT !.type = None, !.sides = None, !.relay = None]
<1>1. IsEntry(e)
  BY DEF IsCall, IsEntry, IsMap
<1>2. IsCall(Call!NewSession("MAIN")) /\ Call!NewSession("MAIN").state = "MAIN"
  BY NewCall
<1>3. Call!AtMain(s) = [Call!NewSession("MAIN") EXCEPT !.entry = e]
  BY DEF Call!AtMain
<1> HIDE DEF e
<1> QED BY <1>1, <1>2, <1>3 DEF IsCall, IsMap

\* States in which nothing has been read that the call would carry out.
LEMMA QuietPrompt ==
    ASSUME OnLine, NEW s, IsCall(s), s.state \notin Sensitive, Call!Prompt(s) PROVE CallSound
<1>1. /\ sess' = s /\ keyed' = keyed
      /\ UNCHANGED <<line, step, log, doing, count, blemishes, date>>
  BY DEF Call!Prompt, Call!Ask, Call!Keep, Call!KeepAll, Call!account
<1>2. Understood'
  BY <1>1 DEF Understood, Sensitive, AddSteps
<1>3. Prompted
  BY <1>1, <1>2 DEF Prompted, OnLine, CallInv
<1> QED BY <1>3, PromptsAreSound

LEMMA MainMenuIsSound == ASSUME OnLine, NEW s, IsCall(s), Call!MainMenu(s) PROVE CallSound
<1>1. /\ sess' = Call!AtMain(s) /\ keyed' = Call!NoSchedule
      /\ UNCHANGED <<line, step, log, doing, count, blemishes, date>>
  BY DEF Call!MainMenu, Call!Ask, Call!KeepAll, Call!account
<1>2. IsCall(sess') /\ sess'.state = "MAIN"
  BY <1>1, MainCall
<1>3. Understood'
  BY <1>2 DEF Understood, AddSteps
<1>4. Prompted
  BY <1>1, <1>2, <1>3, NoScheduleIsEntry DEF Prompted
<1> QED BY <1>4, PromptsAreSound

\* What does not touch the answers and the readings keeps what they are worth.
LEMMA SameCall ==
    ASSUME Understood, sess'.state = sess.state, sess'.entry = sess.entry, sess'.order = sess.order,
           sess'.fields = sess.fields, sess'.del = sess.del, sess'.list = sess.list, sess'.idx = sess.idx,
           wish' = wish, keyed' = keyed
    PROVE  Understood'
BY DEF Understood, InAddFlow, AsKeyed, Call!Heard

LEMMA AgainIsSound ==
    ASSUME OnLine, NEW s, s = [sess EXCEPT !.invalid = @ + 1] \/ s = [sess EXCEPT !.retries = @ + 1], Call!Prompt(s)
    PROVE  CallSound
<1>1. /\ sess' = s /\ keyed' = keyed /\ wish' = wish
      /\ UNCHANGED <<line, step, log, doing, count, blemishes, date>>
  BY DEF Call!Prompt, Call!Ask, Call!Keep, Call!KeepAll, Call!account
<1>2. IsCall(sess) /\ Understood /\ IsEntry(keyed)
  BY DEF OnLine, CallInv
<1>3. /\ IsCall(s) /\ s.state = sess.state /\ s.entry = sess.entry /\ s.order = sess.order
      /\ s.fields = sess.fields /\ s.del = sess.del /\ s.list = sess.list /\ s.idx = sess.idx
  BY <1>2 DEF IsCall, IsMap
<1>4. Understood'
  BY <1>1, <1>2, <1>3, SameCall
<1>5. Prompted
  BY <1>1, <1>2, <1>3, <1>4 DEF Prompted
<1> QED BY <1>5, PromptsAreSound

LEMMA InvalidIsSound == ASSUME OnLine, Call!Invalid PROVE CallSound
BY HangUpIsSound, AgainIsSound DEF Call!Invalid

-----------------------------------------------------------------------------
(* Requests that carry something out *)

LEMMA SameCardinality == ASSUME NEW S PROVE Call!Cardinality(S) = Cardinality(S)
BY DEF Call!Cardinality, Cardinality

\* The image of a finite set under a function of it is finite.
LEMMA FiniteRange ==
    ASSUME NEW S, IsFiniteSet(S), NEW f, NEW T, f \in [S -> T], \A y \in T : \E x \in S : f[x] = y
    PROVE  IsFiniteSet(T)
<1>1. f \in Surjection(S, T)
  BY DEF Surjection
<1> QED BY <1>1, FS_Surjection

LEMMA CarryKeeps ==
    ASSUME OnLine, NEW effects, IsFiniteSet(effects), NEW rest \in {"command", "deleted", "saved"},
           Call!CarryOut(effects, rest), keyed' = keyed, date' = date, blemishes' = blemishes,
           wish' = wish \/ sess.state \notin Sensitive
    PROVE  CallInv'
<1>1. sess' = sess /\ line' = line /\ log' = log /\ step' = rest
  BY DEF Call!CarryOut
<1>2. Understood'
  <2>1. CASE sess.state \notin Sensitive
    BY <1>1, <2>1 DEF Understood, Sensitive, AddSteps
  <2>2. CASE wish' = wish
    BY <1>1, <2>2, SameCall DEF OnLine, CallInv
  <2> QED BY <2>1, <2>2
<1>3. LogInv'
  BY <1>1 DEF LogInv, OnLine, CallInv, LostLog
<1>4. count' \in Nat
  <2>1. count' = count + Cardinality(effects)
    BY SameCardinality DEF Call!CarryOut
  <2>2. Cardinality(effects) \in Nat
    BY FS_CardinalityType
  <2> QED BY <2>1, <2>2 DEF OnLine, CallInv
<1> QED BY <1>1, <1>2, <1>3, <1>4 DEF CallInv, OnLine

LEMMA CarriedAsRead ==
    ASSUME NEW effects, NEW rest, Call!CarryOut(effects, rest), \A e \in effects : e \in wish'
    PROVE  Call!AsRead
BY DEF Call!CarryOut, Call!AsRead

LEMMA ImmediateIsSound ==
    ASSUME OnLine, sess.state \notin Sensitive, NEW relay, NEW action, Call!RunImmediate(relay, action)
    PROVE  CallSound
<1>1. /\ Call!CarryOut({Call!Switch(relay, action)}, "command") /\ wish' = {Call!Switch(relay, action)}
      /\ keyed' = keyed /\ date' = date /\ blemishes' = blemishes
  BY DEF Call!RunImmediate, Call!account
<1>2. CallInv'
  <2>1. IsFiniteSet({Call!Switch(relay, action)})
    BY FS_Singleton
  <2> QED BY <1>1, <2>1, CarryKeeps
<1>3. Call!AsRead
  BY <1>1, CarriedAsRead
<1> QED BY <1>2, <1>3 DEF CallSound

LEMMA RelayMenuIsSound ==
    ASSUME OnLine, NEW ctx, sess.state \notin Sensitive \/ ctx = "sched", Call!RelayMenu(sess, ctx)
    PROVE  CallSound
<1>1. IsCall(sess)
  BY DEF OnLine, CallInv
<1>2. CASE Call!HangUpWith("abandoned")
  BY <1>2, HangUpIsSound
<1>3. CASE ctx # "sched" /\ \E r \in enabled : Call!RunImmediate(r, ctx)
  BY <1>3, ImmediateIsSound
<1>4. CASE Call!Prompt([sess EXCEPT !.ctx = ctx, !.state = "RELAY_SELECT"])
  <2> DEFINE s == [sess EXCEPT !.ctx = ctx, !.state = "RELAY_SELECT"]
  <2>1. IsCall(s) /\ s.state \notin Sensitive
    BY <1>1 DEF IsCall, IsMap, Sensitive, AddSteps
  <2> HIDE DEF s
  <2>2. Call!Prompt(s)
    BY <1>4 DEF s
  <2> QED BY <2>1, <2>2, QuietPrompt
<1> QED BY <1>2, <1>3, <1>4 DEF Call!RelayMenu


-----------------------------------------------------------------------------
(* The menus that carry nothing out *)

LEMMA Requested ==
    ASSUME CallInv, NEW state, Call!Request(state) PROVE OnLine /\ sess.state = state /\ IsCall(sess)
BY DEF Call!Request, OnLine, CallInv

\* A new state, in which nothing has been read.
LEMMA QuietChange ==
    ASSUME OnLine, NEW state \in {"MAIN", "SALES_MENU", "SALES_RECORD", "AGENT_RECORD", "AGENT_TRANSFER", "AGENT_RETURN"},
           Call!Prompt(Call!RecordMessage(sess, state))
    PROVE  CallSound
<1> DEFINE s == Call!RecordMessage(sess, state)
<1>1. IsCall(s) /\ s.state = state
  BY DEF OnLine, CallInv, IsCall, IsMap, Call!RecordMessage
<1>2. s.state \notin Sensitive
  BY <1>1 DEF Sensitive, AddSteps
<1> HIDE DEF s
<1>3. Call!Prompt(s)
  BY DEF s
<1> QED BY <1>1, <1>2, <1>3, QuietPrompt

LEMMA AuthPinIsSound == ASSUME CallInv, Call!AuthPin PROVE CallSound
<1>1. OnLine /\ IsCall(sess)
  BY Requested DEF Call!AuthPin
<1> QED BY <1>1, MainMenuIsSound, HangUpIsSound, AgainIsSound DEF Call!AuthPin

LEMMA SalesMenuIsSound == ASSUME CallInv, Call!SalesMenu PROVE CallSound
<1>1. OnLine /\ IsCall(sess)
  BY Requested DEF Call!SalesMenu
<1>2. CASE Call!Prompt([sess EXCEPT !.state = "SALES_INFO", !.invalid = 0, !.info = TRUE])
  <2> DEFINE s == [sess EXCEPT !.state = "SALES_INFO", !.invalid = 0, !.info = TRUE]
  <2>1. IsCall(s) /\ s.state \notin Sensitive
    BY <1>1 DEF IsCall, IsMap, Sensitive, AddSteps
  <2> HIDE DEF s
  <2>2. Call!Prompt(s)
    BY <1>2 DEF s
  <2> QED BY <1>1, <2>1, <2>2, QuietPrompt
<1>3. CASE Call!Prompt(Call!RecordMessage(sess, "SALES_RECORD"))
  BY <1>1, <1>3, QuietChange
<1> QED BY <1>1, <1>2, <1>3, InvalidIsSound DEF Call!SalesMenu

LEMMA SalesInfoIsSound == ASSUME CallInv, Call!SalesInfo PROVE CallSound
<1>1. OnLine
  BY Requested DEF Call!SalesInfo
<1>2. CASE Call!Prompt(Call!RecordMessage(sess, "SALES_RECORD"))
  BY <1>1, <1>2, QuietChange
<1>3. CASE Call!Prompt([sess EXCEPT !.state = "SALES_MENU", !.invalid = 0])
  <2>1. Call!Prompt(Call!RecordMessage(sess, "SALES_MENU"))
    BY <1>3 DEF Call!RecordMessage
  <2> QED BY <1>1, <2>1, QuietChange
<1> QED BY <1>1, <1>2, <1>3, InvalidIsSound DEF Call!SalesInfo

LEMMA RecordedIsSound == ASSUME CallInv, Call!Recorded PROVE CallSound
<1>1. /\ step = None /\ sess # None /\ UNCHANGED <<line, sess, log, wish, keyed, doing, count, blemishes, date>>
  BY DEF Call!Recorded, Call!account, Call!history
<1>2. Understood'
  BY <1>1, SameCall DEF CallInv
<1>3. LogInv'
  BY <1>1, NoSteps DEF CallInv, LogInv, Spoilt, LostLog
<1> QED BY <1>1, <1>2, <1>3 DEF CallSound, CallInv, Call!AsRead

LEMMA RecordedDoneIsSound == ASSUME CallInv, Call!RecordedDone PROVE CallSound
<1>1. /\ sess' = None /\ step' = None /\ line' = FALSE /\ log' = Call!Outcome("voicemail")
      /\ step = "voicemail" /\ UNCHANGED <<wish, keyed, doing, count, blemishes, date>>
  BY DEF Call!RecordedDone, Call!account, Call!history
<1>2. LogInv'
  <2>1. CASE log.ended
    BY <1>1, <2>1 DEF CallInv, LogInv, Spoilt, LostLog, Call!Outcome
  <2>2. CASE ~log.ended
    BY <1>1, <2>2 DEF CallInv, LogInv, Spoilt, LostLog, Call!Outcome
  <2> QED BY <2>1, <2>2
<1> QED BY <1>1, <1>2 DEF CallSound, CallInv, Call!AsRead

LEMMA SalesIsSound == ASSUME CallInv, Call!Sales PROVE CallSound
BY SalesMenuIsSound, SalesInfoIsSound, RecordedIsSound, RecordedDoneIsSound DEF Call!Sales

LEMMA StatusIsSound == ASSUME OnLine, Call!RunStatus PROVE CallSound
<1>1. CASE enabled = {}
  <2>1. /\ sess' = None /\ line' = FALSE /\ blemishes' = blemishes \cup {"no_relays"}
        /\ UNCHANGED <<step, log, wish, keyed, doing, count, date>>
    BY <1>1 DEF Call!RunStatus, Call!account
  <2>2. LogInv'
    BY <2>1 DEF OnLine, CallInv, LogInv, Spoilt, LostLog
  <2> QED BY <2>1, <2>2 DEF CallSound, CallInv, OnLine, Call!AsRead
<1>2. CASE enabled # {}
  <2>1. /\ sess' = Call!AtMain(sess) /\ log' = Call!Outcome("status")
        /\ UNCHANGED <<line, step, wish, keyed, doing, count, blemishes, date>>
    BY <1>2 DEF Call!RunStatus, Call!Keep, Call!KeepAll, Call!account
  <2>2. IsCall(sess') /\ sess'.state = "MAIN"
    BY <2>1, MainCall DEF OnLine, CallInv
  <2>3. Understood'
    BY <2>2 DEF Understood, AddSteps
  <2>4. LogInv'
    <3>1. CASE log.ended
      BY <2>1, <3>1 DEF OnLine, CallInv, LogInv, Spoilt, LostLog, Call!Outcome
    <3>2. CASE ~log.ended
      BY <2>1, <3>2 DEF OnLine, CallInv, LogInv, Spoilt, LostLog, Call!Outcome
    <3> QED BY <3>1, <3>2
  <2> QED BY <2>1, <2>2, <2>3, <2>4 DEF CallSound, CallInv, OnLine, Call!AsRead
<1> QED BY <1>1, <1>2

\* The list is read, and the schedule at its place is heard.
LEMMA ReadingIsSound ==
    ASSUME OnLine, NEW s, IsCall(s), Call!ReadSchedule(Call!Browse(s)) PROVE CallSound
<1>1. /\ sess' = Call!Browse(s) /\ wish' = Call!Heard(sess')
      /\ UNCHANGED <<line, step, log, keyed, doing, count, blemishes, date>>
  BY DEF Call!ReadSchedule, Call!Ask, Call!KeepAll, Call!account
<1>2. IsCall(sess') /\ sess'.state = "SCHED_BROWSE"
  BY <1>1 DEF Call!Browse, IsCall, IsMap
<1>3. Understood'
  BY <1>1, <1>2 DEF Understood, AddSteps, Call!Heard
<1>4. Prompted
  BY <1>1, <1>2, <1>3 DEF Prompted, OnLine, CallInv
<1> QED BY <1>4, PromptsAreSound

LEMMA MainChoiceIsSound == ASSUME CallInv, Call!MainChoice PROVE CallSound
<1>1. OnLine /\ IsCall(sess) /\ sess.state \notin Sensitive
  BY Requested DEF Call!MainChoice, Sensitive, AddSteps
<1>2. CASE Call!Prompt([sess EXCEPT !.state = "NLU_LISTEN", !.retries = 0])
  <2> DEFINE s == [sess EXCEPT !.state = "NLU_LISTEN", !.retries = 0]
  <2>1. IsCall(s) /\ s.state \notin Sensitive
    BY <1>1 DEF IsCall, IsMap, Sensitive, AddSteps
  <2> HIDE DEF s
  <2>2. Call!Prompt(s)
    BY <1>2 DEF s
  <2> QED BY <1>1, <2>1, <2>2, QuietPrompt
<1>3. CASE Call!ReadSchedule(Call!Browse([sess EXCEPT !.idx = 0]))
  <2>1. IsCall([sess EXCEPT !.idx = 0])
    BY <1>1 DEF IsCall, IsMap
  <2> QED BY <1>1, <1>3, <2>1, ReadingIsSound
<1>4. CASE Call!Prompt([sess EXCEPT !.state = "SVC_MENU", !.tree = Call!Node("service"), !.offered = 1..5])
  <2> DEFINE s == [sess EXCEPT !.state = "SVC_MENU", !.tree = Call!Node("service"), !.offered = 1..5]
  <2>1. IsCall(s) /\ s.state \notin Sensitive
    BY <1>1 DEF IsCall, IsMap, Sensitive, AddSteps
  <2> HIDE DEF s
  <2>2. Call!Prompt(s)
    BY <1>4 DEF s
  <2> QED BY <1>1, <2>1, <2>2, QuietPrompt
<1>5. \A ctx : Call!RelayMenu(sess, ctx) => CallSound
  BY <1>1, RelayMenuIsSound
<1> QED BY <1>1, <1>2, <1>3, <1>4, <1>5, MainMenuIsSound, StatusIsSound, InvalidIsSound DEF Call!MainChoice


\* Attempts at a schedule begin with the channel.
LEMMA RelaySelectIsSound == ASSUME CallInv, Call!RelaySelect PROVE CallSound
<1>1. OnLine /\ IsCall(sess) /\ sess.state \notin Sensitive
  <2>1. Call!Request("RELAY_SELECT")
    BY DEF Call!RelaySelect
  <2>2. OnLine /\ IsCall(sess) /\ sess.state = "RELAY_SELECT"
    BY <2>1, Requested
  <2> QED BY <2>2 DEF Sensitive, AddSteps
<1>2. ASSUME NEW r \in enabled, Call!RunImmediate(r, sess.ctx) PROVE CallSound
  BY <1>1, <1>2, ImmediateIsSound
<1>3. ASSUME NEW r \in enabled, Call!Ask([sess EXCEPT !.entry.relay = r, !.state = "SCHED_TYPE"]),
             keyed' = [Call!NoSchedule EXCEPT !.relay = r], wish' = wish, Call!KeepAll
      PROVE  CallSound
  <2>1. /\ sess' = [sess EXCEPT !.entry.relay = r, !.state = "SCHED_TYPE"]
        /\ UNCHANGED <<line, step, log, doing, count, blemishes, date>>
    BY <1>3 DEF Call!Ask, Call!KeepAll, Call!account
  <2>2. IsCall(sess') /\ sess'.state = "SCHED_TYPE" /\ sess'.entry = [sess.entry EXCEPT !.relay = r]
    BY <1>1, <2>1 DEF IsCall, IsMap, IsEntry
  <2>3. IsEntry(keyed') /\ keyed'.relay = r /\ \A f \in Fields \ {"relay"} : keyed'[f] = None
    BY <1>3, NoScheduleIsEntry DEF Call!NoSchedule, IsEntry, IsMap, Fields
  <2>4. sess'.entry.relay = r
    BY <1>1, <2>2 DEF IsCall, IsEntry, Fields
  <2>5. Given(sess'.state, sess'.entry.type, sess'.entry.sides) = {"relay"}
    BY <2>2 DEF Given
  <2>6. InAddFlow'
    BY <2>2, <2>3, <2>4, <2>5 DEF InAddFlow, OnPath, AsKeyed
  <2>7. Understood'
    BY <2>2, <2>6 DEF Understood, AddSteps
  <2>8. Prompted
    BY <2>1, <2>2, <2>3, <2>7 DEF Prompted
  <2> QED BY <1>1, <2>8, PromptsAreSound
<1> QED BY <1>1, <1>2, <1>3, MainMenuIsSound, InvalidIsSound DEF Call!RelaySelect

-----------------------------------------------------------------------------
(* Orders in words *)

LEMMA OrdersCount == ASSUME date \in Int PROVE \A o \in Call!Orders : IsOrder(o)
BY CallAssumption DEF Call!Orders, Call!Switch, IsOrder, IsMap

LEMMA DeliverIsSound == ASSUME OnLine, NEW s, IsCall(s), Call!Deliver(s) PROVE CallSound
<1>1. CASE Call!MainMenu(s)
  BY <1>1, MainMenuIsSound
<1>2. CASE Call!Prompt([s EXCEPT !.retries = @ + 1, !.state = "NLU_LISTEN"])
  <2> DEFINE t == [s EXCEPT !.retries = @ + 1, !.state = "NLU_LISTEN"]
  <2>1. IsCall(t) /\ t.state \notin Sensitive
    BY DEF IsCall, IsMap, Sensitive, AddSteps
  <2> HIDE DEF t
  <2>2. Call!Prompt(t)
    BY <1>2 DEF t
  <2> QED BY <2>1, <2>2, QuietPrompt
<1>3. ASSUME NEW o \in Call!Orders, NEW p \in Call!Orders,
             Call!Ask([s EXCEPT !.state = "NLU_CONFIRM", !.order = {o, p}, !.readOn = date]),
             wish' = {o, p}, keyed' = keyed, Call!KeepAll
      PROVE  CallSound
  <2>1. /\ sess' = [s EXCEPT !.state = "NLU_CONFIRM", !.order = {o, p}, !.readOn = date]
        /\ UNCHANGED <<line, step, log, doing, count, blemishes, date>>
    BY <1>3 DEF Call!Ask, Call!KeepAll, Call!account
  <2>2. date \in Int /\ IsEntry(keyed)
    BY DEF OnLine, CallInv
  <2>3. IsCall(sess') /\ sess'.state = "NLU_CONFIRM" /\ sess'.order = {o, p}
    BY <2>1, <2>2 DEF IsCall, IsMap
  <2>4. IsOrder(o) /\ IsOrder(p)
    BY <2>2, OrdersCount
  <2>5. Understood'
    <3>1. IsFiniteSet({o, p})
      <4>1. IsFiniteSet({o}) /\ {o, p} = {o} \cup {p}
        BY FS_Singleton
      <4>2. IsFiniteSet({o} \cup {p})
        BY <4>1, FS_AddElement
      <4> QED BY <4>1, <4>2
    <3> QED BY <1>3, <2>3, <2>4, <3>1 DEF Understood, AddSteps
  <2>6. Prompted
    BY <1>3, <2>1, <2>2, <2>3, <2>5 DEF Prompted
  <2> QED BY <2>6, PromptsAreSound
<1> QED BY <1>1, <1>2, <1>3 DEF Call!Deliver

LEMMA ListenIsSound == ASSUME CallInv, Call!Listen PROVE CallSound
<1>1. OnLine /\ IsCall(sess)
  BY Requested DEF Call!Listen
<1>2. CASE Call!Prompt([sess EXCEPT !.state = "NLU_WAIT", !.waiting = TRUE])
  <2> DEFINE s == [sess EXCEPT !.state = "NLU_WAIT", !.waiting = TRUE]
  <2>1. IsCall(s) /\ s.state \notin Sensitive
    BY <1>1 DEF IsCall, IsMap, Sensitive, AddSteps
  <2> HIDE DEF s
  <2>2. Call!Prompt(s)
    BY <1>2 DEF s
  <2> QED BY <1>1, <2>1, <2>2, QuietPrompt
<1> QED BY <1>1, <1>2, AgainIsSound, MainMenuIsSound, DeliverIsSound DEF Call!Listen

LEMMA WaitIsSound == ASSUME CallInv, Call!Wait PROVE CallSound
<1>1. OnLine /\ IsCall(sess)
  BY Requested DEF Call!Wait
<1> DEFINE s == [sess EXCEPT !.waiting = FALSE]
<1>2. IsCall(s)
  BY <1>1 DEF IsCall, IsMap
<1>3. Call!Deliver(s) \/ Call!MainMenu(s)
  BY DEF Call!Wait
<1> HIDE DEF s
<1> QED BY <1>1, <1>2, <1>3, DeliverIsSound, MainMenuIsSound

\* On the day of the reading an order is what was read.
LEMMA ResolvedAsRead ==
    ASSUME CallInv, sess # None, NEW o, IsOrder(o)
    PROVE  Call!Resolved(o) = o \/ (Call!Resolved(o).kind = "timed" /\ date # sess.readOn)
<1>1. CASE o.kind # "timed"
  BY <1>1 DEF Call!Resolved
<1>2. CASE o.kind = "timed"
  <2>1. /\ date \in Int /\ sess.readOn \in Int /\ IsMap(o) /\ "date" \in DOMAIN o /\ o.date \in Int
        /\ Call!Resolved(o) = [o EXCEPT !.date = o.date - sess.readOn + date]
    BY <1>2 DEF CallInv, IsCall, IsOrder, Call!Resolved
  <2>2. CASE date # sess.readOn
    BY <1>2, <2>1, <2>2
  <2>3. CASE date = sess.readOn
    <3>1. o.date - sess.readOn + date = o.date
      BY <2>1, <2>3
    <3>2. Call!Resolved(o) = [o EXCEPT !.date = o.date]
      BY <2>1, <3>1
    <3> QED BY <2>1, <3>2 DEF IsMap
  <2> QED BY <2>2, <2>3
<1> QED BY <1>1, <1>2

LEMMA NluActionsAreSound ==
    ASSUME OnLine, sess.state = "NLU_CONFIRM", NEW effects \in SUBSET sess.order, Call!RunNluActions(effects)
    PROVE  CallSound
<1> DEFINE carried == {Call!Resolved(o) : o \in effects}
           rest == IF effects = sess.order THEN "command" ELSE "failed"
<1>1. /\ Call!CarryOut(carried, rest) /\ keyed' = keyed /\ wish' = wish /\ date' = date
      /\ blemishes' = IF effects \in {{}, sess.order} THEN blemishes ELSE blemishes \cup {"half_done"}
  BY DEF Call!RunNluActions
<1>2. IsFiniteSet(sess.order) /\ sess.order \subseteq wish /\ \A o \in sess.order : IsOrder(o)
  BY DEF OnLine, CallInv, Understood
<1>3. Call!AsRead
  <2>1. \A o \in effects : Call!Resolved(o) \in wish' \/ (Call!Resolved(o).kind = "timed" /\ date # sess.readOn)
    BY <1>1, <1>2, ResolvedAsRead DEF OnLine
  <2>2. doing' = carried
    BY <1>1 DEF Call!CarryOut
  <2> QED BY <2>1, <2>2 DEF Call!AsRead
<1>4. IsFiniteSet(carried)
  <2>1. IsFiniteSet(effects)
    BY <1>2, FS_Subset
  <2> DEFINE f == [o \in effects |-> Call!Resolved(o)]
  <2>2. f \in [effects -> carried] /\ \A y \in carried : \E x \in effects : f[x] = y
    OBVIOUS
  <2> HIDE DEF f, carried
  <2> QED BY <2>1, <2>2, FiniteRange
<1>5. ASSUME effects = sess.order PROVE CallInv'
  <2>1. blemishes' = blemishes /\ rest = "command"
    BY <1>1, <1>5
  <2> HIDE DEF carried, rest
  <2> QED BY <1>1, <1>4, <2>1, CarryKeeps
<1>6. ASSUME effects # sess.order PROVE CallInv'
  <2>1. /\ sess' = sess /\ line' = line /\ log' = log /\ step' = "failed" /\ step = None /\ sess # None
        /\ count' = count + Cardinality(carried)
    BY <1>1, <1>6, SameCardinality DEF Call!CarryOut, OnLine
  <2>2. count \in Nat /\ count' \in Nat
    BY <1>4, <2>1, FS_CardinalityType DEF OnLine, CallInv
  <2>3. Spoilt' \/ (blemishes' = blemishes /\ count' = count)
    <3>1. CASE effects = {}
      <4>1. carried = {}
        BY <3>1
      <4>2. Cardinality(carried) = 0
        BY <4>1, FS_EmptySet
      <4> QED BY <1>1, <2>1, <2>2, <3>1, <4>2
    <3>2. CASE effects # {}
      BY <1>1, <1>6, <3>2 DEF Spoilt
    <3> QED BY <3>1, <3>2
  <2>4. Understood'
    BY <1>1, <2>1, SameCall DEF OnLine, CallInv
  <2>5. line /\ (LostLog => LostLog')
    BY <1>1 DEF OnLine, LostLog
  <2>6. LogInv'
    <3>1. CASE Spoilt'
      BY <2>1, <2>5, <3>1 DEF LogInv, OnLine, CallInv
    <3>2. CASE blemishes' = blemishes /\ count' = count
      <4>1. Spoilt' = Spoilt
        BY <3>2 DEF Spoilt
      <4> QED BY <2>1, <2>5, <3>2, <4>1, NoSteps DEF LogInv, OnLine, CallInv
    <3> QED BY <2>3, <3>1, <3>2
  <2> QED BY <1>1, <2>1, <2>2, <2>4, <2>6 DEF CallInv, OnLine
<1> QED BY <1>3, <1>5, <1>6 DEF CallSound

LEMMA NluConfirmIsSound == ASSUME CallInv, Call!NluConfirm PROVE CallSound
<1>1. OnLine /\ IsCall(sess) /\ sess.state = "NLU_CONFIRM"
  BY Requested DEF Call!NluConfirm
<1> QED BY <1>1, MainMenuIsSound, NluActionsAreSound, InvalidIsSound DEF Call!NluConfirm

LEMMA InWordsIsSound == ASSUME CallInv, Call!InWords PROVE CallSound
BY ListenIsSound, WaitIsSound, NluConfirmIsSound DEF Call!InWords

-----------------------------------------------------------------------------
(* Schedules: what is read, and what is keyed in *)

LEMMA BrowsingIsSound == ASSUME CallInv, Call!SchedBrowse PROVE CallSound
<1>1. OnLine /\ IsCall(sess) /\ sess.state = "SCHED_BROWSE"
  <2>1. Call!Request("SCHED_BROWSE")
    BY DEF Call!SchedBrowse
  <2> QED BY <2>1, Requested
<1>2. ASSUME NEW i, Call!ReadSchedule(Call!Browse([sess EXCEPT !.idx = i])) PROVE CallSound
  <2>1. IsCall([sess EXCEPT !.idx = i])
    BY <1>1 DEF IsCall, IsMap
  <2> QED BY <1>1, <1>2, <2>1, ReadingIsSound
<1>3. ASSUME Len(sess.list) > 0,
             Call!Prompt([sess EXCEPT !.state = "SCHED_DEL_CONFIRM", !.del = sess.list[sess.idx + 1]])
      PROVE  CallSound
  <2>1. /\ sess' = [sess EXCEPT !.state = "SCHED_DEL_CONFIRM", !.del = sess.list[sess.idx + 1]]
        /\ UNCHANGED <<line, step, log, wish, keyed, doing, count, blemishes, date>>
    BY <1>3 DEF Call!Prompt, Call!Ask, Call!Keep, Call!KeepAll, Call!account
  <2>2. IsCall(sess') /\ sess'.state = "SCHED_DEL_CONFIRM" /\ sess'.del = sess.list[sess.idx + 1]
    BY <1>1, <2>1 DEF IsCall, IsMap
  <2>3. sess.list # <<>>
    BY <1>3
  <2>4. [kind |-> "delete", id |-> sess.list[sess.idx + 1]] \in wish
    BY <1>1, <2>3 DEF OnLine, CallInv, Understood, Call!Heard
  <2>5. Understood'
    BY <2>1, <2>2, <2>4 DEF Understood, AddSteps
  <2>6. Prompted
    BY <1>1, <2>1, <2>2, <2>5 DEF Prompted, OnLine, CallInv
  <2> QED BY <1>1, <2>6, PromptsAreSound
<1>4. Call!RelayMenu(sess, "sched") => CallSound
  BY <1>1, RelayMenuIsSound
<1>5. /\ Call!MainMenu(sess) => CallSound
      /\ Call!Invalid => CallSound
  BY <1>1, MainMenuIsSound, InvalidIsSound
<1> QED BY <1>2, <1>3, <1>4, <1>5 DEF Call!SchedBrowse

LEMMA DelConfirmIsSound == ASSUME CallInv, Call!DelConfirm PROVE CallSound
<1>1. OnLine /\ IsCall(sess) /\ sess.state = "SCHED_DEL_CONFIRM"
  <2>1. Call!Request("SCHED_DEL_CONFIRM")
    BY DEF Call!DelConfirm
  <2> QED BY <2>1, Requested
<1>2. CASE Call!ReadSchedule(Call!Browse(sess))
  BY <1>1, <1>2, ReadingIsSound
<1>3. ASSUME Call!CarryOut({[kind |-> "delete", id |-> sess.del]}, "deleted"),
             UNCHANGED <<date, wish, keyed, blemishes>>
      PROVE  CallSound
  <2> DEFINE effects == {[kind |-> "delete", id |-> sess.del]}
  <2>1. IsFiniteSet(effects)
    BY FS_Singleton
  <2>2. \A e \in effects : e \in wish'
    BY <1>1, <1>3 DEF OnLine, CallInv, Understood
  <2>3. Call!CarryOut(effects, "deleted")
    BY <1>3
  <2> HIDE DEF effects
  <2>4. CallInv'
    BY <1>1, <1>3, <2>1, <2>3, CarryKeeps
  <2>5. Call!AsRead
    BY <2>2, <2>3, CarriedAsRead
  <2> QED BY <2>4, <2>5 DEF CallSound
<1> QED BY <1>1, <1>2, <1>3, InvalidIsSound DEF Call!DelConfirm, Call!DeleteTarget

\* A step of the add flow adds its answer to what is kept and to what was keyed.
LEMMA EnterIsSound ==
    ASSUME OnLine, NEW f \in Fields, NEW v, NEW state \in AddSteps \ {"SCHED_CONFIRM"}, Call!Enter(f, v, state),
           NEW given \in SUBSET Fields, AsKeyed(given, sess.entry),
           NEW e, e = [sess.entry EXCEPT ![f] = v],
           OnPath(state, e.type, e.sides), Given(state, e.type, e.sides) = given \cup {f}
    PROVE  CallSound
<1>1. /\ sess' = [sess EXCEPT !.entry[f] = v, !.state = state] /\ keyed' = [keyed EXCEPT ![f] = v]
      /\ UNCHANGED <<line, step, log, doing, count, blemishes, date>>
  BY DEF Call!Enter, Call!Ask, Call!KeepAll, Call!account
<1>2. IsCall(sess) /\ IsEntry(sess.entry) /\ IsEntry(keyed)
  BY DEF OnLine, CallInv, IsCall
<1>3. IsCall(sess') /\ sess'.state = state /\ sess'.entry = e
  BY <1>1, <1>2 DEF IsCall, IsEntry, IsMap
<1>4. IsEntry(keyed') /\ keyed'[f] = v /\ e[f] = v
  BY <1>1, <1>2 DEF IsEntry, IsMap
<1>5. \A g \in Fields \ {f} : keyed'[g] = keyed[g] /\ e[g] = sess.entry[g]
  BY <1>1, <1>2 DEF IsEntry, IsMap
<1>6. AsKeyed(given \cup {f}, e)'
  BY <1>4, <1>5 DEF AsKeyed
<1>7. InAddFlow'
  BY <1>3, <1>6 DEF InAddFlow
<1>8. Understood'
  BY <1>3, <1>7 DEF Understood, AddSteps
<1>9. Prompted
  BY <1>1, <1>3, <1>4, <1>8 DEF Prompted
<1> QED BY <1>9, PromptsAreSound


\* A request in the add flow, before the reading.
LEMMA AddFlowRequested ==
    ASSUME CallInv, NEW state \in AddSteps \ {"SCHED_CONFIRM"}, Call!Request(state)
    PROVE  /\ OnLine /\ IsCall(sess) /\ sess.state = state /\ IsEntry(sess.entry)
           /\ OnPath(state, sess.entry.type, sess.entry.sides)
           /\ AsKeyed(Given(state, sess.entry.type, sess.entry.sides), sess.entry)
<1>1. OnLine /\ IsCall(sess) /\ sess.state = state
  BY Requested
<1>2. InAddFlow
  BY <1>1 DEF OnLine, CallInv, Understood
<1> QED BY <1>1, <1>2 DEF InAddFlow, IsCall

LEMMA GivenIsField == ASSUME NEW state, NEW type, NEW sides PROVE Given(state, type, sides) \in SUBSET Fields
BY DEF Given, Fields

\* The answer f to the step from takes the add flow to the step to.
Leads(from, f, v, to) ==
    LET a == sess.entry  e == [sess.entry EXCEPT ![f] = v]
    IN  /\ f \in Fields /\ to \in AddSteps \ {"SCHED_CONFIRM"}
        /\ OnPath(to, e.type, e.sides)
        /\ Given(to, e.type, e.sides) = Given(from, a.type, a.sides) \cup {f}

LEMMA StepIsSound ==
    ASSUME CallInv, NEW from \in AddSteps \ {"SCHED_CONFIRM"}, Call!Request(from),
           NEW f, NEW v, NEW to, Call!Enter(f, v, to), Leads(from, f, v, to)
    PROVE  CallSound
<1> DEFINE e == [sess.entry EXCEPT ![f] = v]
           given == Given(from, sess.entry.type, sess.entry.sides)
<1>1. /\ f \in Fields /\ to \in AddSteps \ {"SCHED_CONFIRM"}
      /\ OnPath(to, e.type, e.sides) /\ Given(to, e.type, e.sides) = given \cup {f}
  BY DEF Leads
<1>2. OnLine /\ AsKeyed(given, sess.entry)
  BY AddFlowRequested
<1>3. given \in SUBSET Fields
  BY GivenIsField
<1>4. e = [sess.entry EXCEPT ![f] = v]
  OBVIOUS
<1> HIDE DEF e, given
<1> QED BY <1>1, <1>2, <1>3, <1>4, EnterIsSound

LEMMA TypeIsSound == ASSUME CallInv, Call!SchedType PROVE CallSound
<1>1. Call!Request("SCHED_TYPE") /\ "SCHED_TYPE" \in AddSteps \ {"SCHED_CONFIRM"}
  BY DEF Call!SchedType, AddSteps
<1>2. OnLine /\ IsEntry(sess.entry)
  BY <1>1, AddFlowRequested
<1>3. ASSUME NEW t \in {"once", "daily", "weekly"}, Call!Enter("type", t, "SCHED_SIDES") PROVE CallSound
  <2> DEFINE e == [sess.entry EXCEPT !["type"] = t]
  <2>1. e.type = t
    BY <1>2 DEF IsEntry, Fields
  <2> HIDE DEF e
  <2>2. OnPath("SCHED_SIDES", e.type, e.sides) /\ "SCHED_SIDES" \in AddSteps \ {"SCHED_CONFIRM"}
    BY <2>1 DEF OnPath, AddSteps
  <2>3. Given("SCHED_SIDES", e.type, e.sides) = Given("SCHED_TYPE", sess.entry.type, sess.entry.sides) \cup {"type"}
    BY DEF Given
  <2>4. Leads("SCHED_TYPE", "type", t, "SCHED_SIDES")
    BY <2>2, <2>3 DEF Leads, Fields, e
  <2> QED BY <1>1, <1>3, <2>4, StepIsSound
<1> QED BY <1>2, <1>3, InvalidIsSound DEF Call!SchedType

LEMMA SidesIsSound == ASSUME CallInv, Call!SchedSides PROVE CallSound
<1>1. Call!Request("SCHED_SIDES") /\ "SCHED_SIDES" \in AddSteps \ {"SCHED_CONFIRM"}
  BY DEF Call!SchedSides, AddSteps
<1>2. /\ OnLine /\ IsEntry(sess.entry)
      /\ OnPath("SCHED_SIDES", sess.entry.type, sess.entry.sides)
  BY <1>1, AddFlowRequested
<1>3. ASSUME NEW x \in {"both", "on", "off"}, Call!Enter("sides", x, Call!FirstStep(sess.entry.type, x))
      PROVE  CallSound
  <2> DEFINE to == Call!FirstStep(sess.entry.type, x)
             e == [sess.entry EXCEPT !["sides"] = x]
  <2>1. e.type = sess.entry.type /\ e.sides = x
    BY <1>2 DEF IsEntry, Fields
  <2>2. sess.entry.type \in {"once", "daily", "weekly"}
    BY <1>2 DEF OnPath
  <2>3. OnPath(to, sess.entry.type, x) /\ to \in AddSteps \ {"SCHED_CONFIRM"}
    BY <2>2 DEF OnPath, AddSteps, Call!FirstStep
  <2>4. Given(to, sess.entry.type, x) = {"relay", "type", "sides"}
    BY <2>2 DEF Given, Call!FirstStep
  <2>5. Given("SCHED_SIDES", sess.entry.type, sess.entry.sides) = {"relay", "type"}
    BY DEF Given
  <2>6. Leads("SCHED_SIDES", "sides", x, to)
    <3> HIDE DEF to
    <3> QED BY <2>1, <2>3, <2>4, <2>5 DEF Leads, Fields
  <2> QED BY <1>1, <1>3, <2>6, StepIsSound
<1> QED BY <1>2, <1>3, InvalidIsSound DEF Call!SchedSides

LEMMA OnceDayIsSound == ASSUME CallInv, Call!OnceDay PROVE CallSound
<1>1. Call!Request("SCHED_ONCE_DAY") /\ "SCHED_ONCE_DAY" \in AddSteps \ {"SCHED_CONFIRM"}
  BY DEF Call!OnceDay, AddSteps
<1>2. /\ OnLine /\ IsEntry(sess.entry)
      /\ OnPath("SCHED_ONCE_DAY", sess.entry.type, sess.entry.sides)
  BY <1>1, AddFlowRequested
<1>3. ASSUME NEW d, NEW to, to = (IF sess.entry.sides = "off" THEN "SCHED_OFF_TIME" ELSE "SCHED_ON_TIME"),
             Call!Enter("day", d, to)
      PROVE  CallSound
  <2> DEFINE e == [sess.entry EXCEPT !["day"] = d]
  <2>1. e.type = sess.entry.type /\ e.sides = sess.entry.sides
    BY <1>2 DEF IsEntry, Fields
  <2>2. sess.entry.type = "once" /\ sess.entry.sides \in {"both", "on", "off"}
    BY <1>2 DEF OnPath
  <2>3. OnPath(to, sess.entry.type, sess.entry.sides) /\ to \in AddSteps \ {"SCHED_CONFIRM"}
    BY <1>3, <2>2 DEF OnPath, AddSteps
  <2>4. Given(to, sess.entry.type, sess.entry.sides) = {"relay", "type", "sides", "day"}
    BY <1>3, <2>2 DEF Given
  <2>5. Given("SCHED_ONCE_DAY", sess.entry.type, sess.entry.sides) = {"relay", "type", "sides"}
    BY DEF Given
  <2>6. Leads("SCHED_ONCE_DAY", "day", d, to)
    BY <2>1, <2>3, <2>4, <2>5 DEF Leads, Fields
  <2> QED BY <1>1, <1>3, <2>6, StepIsSound
<1> QED BY <1>2, <1>3, InvalidIsSound DEF Call!OnceDay

LEMMA OnDayIsSound == ASSUME CallInv, Call!OnDay PROVE CallSound
<1>1. Call!Request("SCHED_ON_DAY") /\ "SCHED_ON_DAY" \in AddSteps \ {"SCHED_CONFIRM"}
  BY DEF Call!OnDay, AddSteps
<1>2. /\ OnLine /\ IsEntry(sess.entry)
      /\ OnPath("SCHED_ON_DAY", sess.entry.type, sess.entry.sides)
  BY <1>1, AddFlowRequested
<1>3. ASSUME NEW d, Call!Enter("onDay", d, "SCHED_ON_TIME") PROVE CallSound
  <2> DEFINE e == [sess.entry EXCEPT !["onDay"] = d]
  <2>1. e.type = sess.entry.type /\ e.sides = sess.entry.sides
    BY <1>2 DEF IsEntry, Fields
  <2>2. sess.entry.type = "weekly" /\ sess.entry.sides \in {"both", "on"}
    BY <1>2 DEF OnPath
  <2>3. OnPath("SCHED_ON_TIME", sess.entry.type, sess.entry.sides) /\ "SCHED_ON_TIME" \in AddSteps \ {"SCHED_CONFIRM"}
    BY <2>2 DEF OnPath, AddSteps
  <2>4. Given("SCHED_ON_TIME", sess.entry.type, sess.entry.sides) = {"relay", "type", "sides", "onDay"}
    BY <2>2 DEF Given
  <2>5. Given("SCHED_ON_DAY", sess.entry.type, sess.entry.sides) = {"relay", "type", "sides"}
    BY DEF Given
  <2>6. Leads("SCHED_ON_DAY", "onDay", d, "SCHED_ON_TIME")
    BY <2>1, <2>3, <2>4, <2>5 DEF Leads, Fields
  <2> QED BY <1>1, <1>3, <2>6, StepIsSound
<1> QED BY <1>2, <1>3, InvalidIsSound DEF Call!OnDay

LEMMA OffDayIsSound == ASSUME CallInv, Call!OffDay PROVE CallSound
<1>1. Call!Request("SCHED_OFF_DAY") /\ "SCHED_OFF_DAY" \in AddSteps \ {"SCHED_CONFIRM"}
  BY DEF Call!OffDay, AddSteps
<1>2. /\ OnLine /\ IsEntry(sess.entry)
      /\ OnPath("SCHED_OFF_DAY", sess.entry.type, sess.entry.sides)
  BY <1>1, AddFlowRequested
<1>3. ASSUME NEW d, Call!Enter("offDay", d, "SCHED_OFF_TIME") PROVE CallSound
  <2> DEFINE e == [sess.entry EXCEPT !["offDay"] = d]
  <2>1. e.type = sess.entry.type /\ e.sides = sess.entry.sides
    BY <1>2 DEF IsEntry, Fields
  <2>2. sess.entry.type = "weekly" /\ sess.entry.sides \in {"both", "off"}
    BY <1>2 DEF OnPath
  <2>3. OnPath("SCHED_OFF_TIME", sess.entry.type, sess.entry.sides) /\ "SCHED_OFF_TIME" \in AddSteps \ {"SCHED_CONFIRM"}
    BY <2>2 DEF OnPath, AddSteps
  <2>4. Given("SCHED_OFF_TIME", sess.entry.type, sess.entry.sides)
            = Given("SCHED_OFF_DAY", sess.entry.type, sess.entry.sides) \cup {"offDay"}
    BY <2>2 DEF Given
  <2>5. Leads("SCHED_OFF_DAY", "offDay", d, "SCHED_OFF_TIME")
    BY <2>1, <2>3, <2>4 DEF Leads, Fields
  <2> QED BY <1>1, <1>3, <2>5, StepIsSound
<1> QED BY <1>2, <1>3, InvalidIsSound DEF Call!OffDay


\* The answers that make up a schedule of this kind.
Chosen(type, sides) ==
    {"relay", "type", "sides"}
    \cup (IF type = "once" THEN {"day"} ELSE {})
    \cup (IF type = "weekly" /\ sides # "off" THEN {"onDay"} ELSE {})
    \cup (IF sides # "off" THEN {"onTime"} ELSE {})
    \cup (IF type = "weekly" /\ sides # "on" THEN {"offDay"} ELSE {})
    \cup (IF sides # "on" THEN {"offTime"} ELSE {})

\* What is put together leaves out what earlier attempts have left behind.
LEMMA FieldsAreKeyed ==
    ASSUME NEW e, IsEntry(e), NEW k, IsEntry(k),
           e.type \in {"once", "daily", "weekly"}, e.sides \in {"both", "on", "off"},
           \A f \in Chosen(e.type, e.sides) : k[f] = e[f],
           \A f \in Fields \ Chosen(e.type, e.sides) : k[f] = None
    PROVE  Call!SchedFieldsFor(e) = [k EXCEPT !.day = IF k.type = "once" THEN date + @ ELSE None]
<1> DEFINE a == Call!SchedFieldsFor(e)
           b == [k EXCEPT !.day = IF k.type = "once" THEN date + @ ELSE None]
<1>1. IsEntry(b) /\ b.day = (IF k.type = "once" THEN date + k.day ELSE None)
      /\ \A f \in Fields \ {"day"} : b[f] = k[f]
  BY DEF IsEntry, IsMap, Fields
<1>2. /\ IsEntry(a)
      /\ a.relay = e.relay /\ a.type = e.type /\ a.sides = e.sides
      /\ a.day = (IF e.type = "once" THEN date + e.day ELSE None)
      /\ a.onDay = (IF e.type = "weekly" /\ e.sides # "off" THEN e.onDay ELSE None)
      /\ a.onTime = (IF e.sides # "off" THEN e.onTime ELSE None)
      /\ a.offDay = (IF e.type = "weekly" /\ e.sides # "on" THEN e.offDay ELSE None)
      /\ a.offTime = (IF e.sides # "on" THEN e.offTime ELSE None)
  BY DEF IsEntry, IsMap, Fields, Call!SchedFieldsFor
<1>3. /\ k.relay = e.relay /\ k.type = e.type /\ k.sides = e.sides
      /\ e.type = "once" => k.day = e.day
      /\ k.onDay = (IF e.type = "weekly" /\ e.sides # "off" THEN e.onDay ELSE None)
      /\ k.onTime = (IF e.sides # "off" THEN e.onTime ELSE None)
      /\ k.offDay = (IF e.type = "weekly" /\ e.sides # "on" THEN e.offDay ELSE None)
      /\ k.offTime = (IF e.sides # "on" THEN e.offTime ELSE None)
  BY DEF Chosen, Fields
<1> HIDE DEF a, b
<1>4. \A f \in Fields : a[f] = b[f]
  BY <1>1, <1>2, <1>3 DEF Fields
<1>5. a = b
  BY <1>1, <1>2, <1>4 DEF IsEntry, IsMap
<1> QED BY <1>5 DEF a, b

\* After a refusal the days and times are asked for again.
LEMMA RestartIsSound ==
    ASSUME OnLine, NEW s, IsCall(s), \A f \in {"relay", "type", "sides"} : keyed[f] = s.entry[f],
           s.entry.type \in {"once", "daily", "weekly"}, s.entry.sides \in {"both", "on", "off"},
           Call!Restart(s)
    PROVE  CallSound
<1> DEFINE to == Call!FirstStep(s.entry.type, s.entry.sides)
<1>1. /\ sess' = [s EXCEPT !.state = to]
      /\ keyed' = [Call!NoSchedule EXCEPT !.relay = keyed.relay, !.type = keyed.type, !.sides = keyed.sides]
      /\ UNCHANGED <<line, step, log, doing, count, blemishes, date>>
  BY DEF Call!Restart, Call!At, Call!Ask, Call!KeepAll, Call!account
<1>2. OnPath(to, s.entry.type, s.entry.sides) /\ to \in AddSteps \ {"SCHED_CONFIRM"}
  BY DEF OnPath, AddSteps, Call!FirstStep
<1>3. Given(to, s.entry.type, s.entry.sides) = {"relay", "type", "sides"}
  BY DEF Given, Call!FirstStep
<1> HIDE DEF to
<1>4. IsCall(sess') /\ sess'.state = to /\ sess'.entry = s.entry
  BY <1>1 DEF IsCall, IsMap
<1>5. /\ IsEntry(keyed') /\ \A f \in {"relay", "type", "sides"} : keyed'[f] = keyed[f]
      /\ \A f \in Fields \ {"relay", "type", "sides"} : keyed'[f] = None
  <2> DEFINE n == [Call!NoSchedule EXCEPT !.relay = keyed.relay, !.type = keyed.type, !.sides = keyed.sides]
  <2>1. IsEntry(n) /\ n.relay = keyed.relay /\ n.type = keyed.type /\ n.sides = keyed.sides
    BY NoScheduleIsEntry DEF IsEntry, IsMap, Fields
  <2>2. \A f \in Fields \ {"relay", "type", "sides"} : n[f] = None
    <3>1. \A f \in Fields : Call!NoSchedule[f] = None
      BY DEF Call!NoSchedule, Fields
    <3> QED BY <3>1, NoScheduleIsEntry DEF IsEntry, IsMap
  <2>3. keyed' = n
    BY <1>1
  <2> HIDE DEF n
  <2>4. \A f \in {"relay", "type", "sides"} : n[f] = keyed[f]
    BY <2>1
  <2> QED BY <2>1, <2>2, <2>3, <2>4
<1>6. AsKeyed({"relay", "type", "sides"}, s.entry)'
  BY <1>5 DEF AsKeyed
<1>7. InAddFlow'
  BY <1>2, <1>3, <1>4, <1>6 DEF InAddFlow
<1>8. Understood'
  BY <1>2, <1>4, <1>7 DEF Understood, AddSteps
<1>9. Prompted
  BY <1>1, <1>4, <1>5, <1>8 DEF Prompted
<1> QED BY <1>9, PromptsAreSound

\* The last answer of an attempt.
LEMMA FinalizeIsSound ==
    ASSUME OnLine, NEW f \in {"onTime", "offTime"}, NEW v, Call!Finalize(f, v),
           NEW type, type = sess.entry.type, NEW sides, sides = sess.entry.sides,
           type \in {"once", "daily", "weekly"}, sides \in {"both", "on", "off"},
           NEW given \in SUBSET Fields, AsKeyed(given, sess.entry), given \cup {f} = Chosen(type, sides)
    PROVE  CallSound
<1> DEFINE e == [sess.entry EXCEPT ![f] = v]
           k == [keyed EXCEPT ![f] = v]
           fields == [k EXCEPT !.day = IF k.type = "once" THEN date + @ ELSE None]
<1>1. IsCall(sess) /\ IsEntry(sess.entry) /\ IsEntry(keyed)
  BY DEF OnLine, CallInv, IsCall
<1>2. /\ IsEntry(e) /\ e.type = type /\ e.sides = sides /\ e.relay = sess.entry.relay /\ e[f] = v
      /\ \A g \in Fields \ {f} : e[g] = sess.entry[g]
  BY <1>1 DEF IsEntry, IsMap, Fields
<1>3. IsEntry(k) /\ k[f] = v /\ \A g \in Fields \ {f} : k[g] = keyed[g]
  BY <1>1 DEF IsEntry, IsMap, Fields
<1>4. {"relay", "type", "sides"} \subseteq given /\ f \in Fields
  <2>1. {"relay", "type", "sides"} \subseteq given \cup {f}
    BY DEF Chosen
  <2> QED BY <2>1 DEF Fields
<1>5. (\A g \in Chosen(type, sides) : k[g] = e[g]) /\ (\A g \in Fields \ Chosen(type, sides) : k[g] = None)
  <2> HIDE DEF e, k
  <2> QED BY <1>2, <1>3 DEF AsKeyed
<1>6. CASE /\ Call!Ask([sess EXCEPT !.entry = e, !.fields = Call!SchedFieldsFor(e), !.state = "SCHED_CONFIRM"])
           /\ keyed' = k /\ wish' = {[kind |-> "create", fields |-> fields]} /\ Call!KeepAll
  <2>1. Call!SchedFieldsFor(e) = fields
    <3> HIDE DEF e, k
    <3>1. Call!SchedFieldsFor(e) = [k EXCEPT !.day = IF k.type = "once" THEN date + @ ELSE None]
      BY <1>2, <1>3, <1>5, FieldsAreKeyed
    <3> QED BY <3>1
  <2> HIDE DEF e, fields
  <2>2. /\ sess' = [sess EXCEPT !.entry = e, !.fields = fields, !.state = "SCHED_CONFIRM"]
        /\ UNCHANGED <<line, step, log, doing, count, blemishes, date>>
    BY <1>6, <2>1 DEF Call!Ask, Call!KeepAll, Call!account
  <2>3. IsCall(sess') /\ sess'.state = "SCHED_CONFIRM" /\ sess'.entry = e /\ sess'.fields = fields
    BY <1>1, <1>2, <2>2 DEF IsCall, IsMap
  <2>4. keyed' = k /\ \A g \in {"relay", "type", "sides"} : k[g] = e[g]
    <3> HIDE DEF k
    <3> QED BY <1>5, <1>6 DEF Chosen
  <2>5. OnPath("SCHED_CONFIRM", type, sides)
    BY DEF OnPath
  <2> HIDE DEF k
  <2>6. InAddFlow'
    BY <1>2, <2>3, <2>4, <2>5 DEF InAddFlow
  <2>7. Understood'
    BY <1>6, <2>3, <2>6 DEF Understood, AddSteps
  <2>8. Prompted
    BY <1>3, <2>2, <2>3, <2>4, <2>7 DEF Prompted
  <2> QED BY <2>8, PromptsAreSound
<1>7. CASE Call!Restart([sess EXCEPT !.entry = e])
  <2> DEFINE s == [sess EXCEPT !.entry = e]
  <2>1. IsCall(s) /\ s.entry = e
    <3> HIDE DEF e
    <3> QED BY <1>1, <1>2 DEF IsCall, IsMap
  <2>2. \A g \in {"relay", "type", "sides"} : keyed[g] = e[g]
    <3> HIDE DEF e
    <3>1. \A g \in {"relay", "type", "sides"} : keyed[g] = sess.entry[g]
      BY <1>4 DEF AsKeyed
    <3> QED BY <1>2, <3>1
  <2>3. Call!Restart(s)
    BY <1>7
  <2> HIDE DEF s, e
  <2> QED BY <1>2, <2>1, <2>2, <2>3, RestartIsSound
<1> QED BY <1>6, <1>7 DEF Call!Finalize

LEMMA OnTimeIsSound == ASSUME CallInv, Call!OnTime PROVE CallSound
<1>1. Call!Request("SCHED_ON_TIME") /\ "SCHED_ON_TIME" \in AddSteps \ {"SCHED_CONFIRM"}
  BY DEF Call!OnTime, AddSteps
<1> DEFINE type == sess.entry.type
           sides == sess.entry.sides
<1>2. /\ OnLine /\ IsEntry(sess.entry) /\ OnPath("SCHED_ON_TIME", type, sides)
      /\ AsKeyed(Given("SCHED_ON_TIME", type, sides), sess.entry)
  BY <1>1, AddFlowRequested
<1>3. type \in {"once", "daily", "weekly"} /\ sides \in {"both", "on"}
  BY <1>2 DEF OnPath
<1>4. ASSUME NEW t, sides = "on", Call!Finalize("onTime", t) PROVE CallSound
  <2> DEFINE given == Given("SCHED_ON_TIME", type, sides)
  <2>1. given \cup {"onTime"} = Chosen(type, sides)
    BY <1>3, <1>4 DEF Given, Chosen
  <2>2. given \in SUBSET Fields
    BY GivenIsField
  <2> HIDE DEF given
  <2>3. AsKeyed(given, sess.entry)
    BY <1>2 DEF given
  <2> QED BY <1>2, <1>3, <1>4, <2>1, <2>2, <2>3, FinalizeIsSound
<1>5. ASSUME NEW t, sides # "on", NEW to, to = (IF type = "weekly" THEN "SCHED_OFF_DAY" ELSE "SCHED_OFF_TIME"),
             Call!Enter("onTime", t, to)
      PROVE  CallSound
  <2> DEFINE e == [sess.entry EXCEPT !["onTime"] = t]
  <2>1. e.type = type /\ e.sides = sides
    BY <1>2 DEF IsEntry, Fields
  <2>2. OnPath(to, type, sides) /\ to \in AddSteps \ {"SCHED_CONFIRM"}
    BY <1>3, <1>5 DEF OnPath, AddSteps
  <2>3. Given(to, type, sides) = Given("SCHED_ON_TIME", type, sides) \cup {"onTime"}
    BY <1>3, <1>5 DEF Given
  <2>4. Leads("SCHED_ON_TIME", "onTime", t, to)
    BY <2>1, <2>2, <2>3 DEF Leads, Fields
  <2> QED BY <1>1, <1>5, <2>4, StepIsSound
<1> QED BY <1>2, <1>4, <1>5, InvalidIsSound DEF Call!OnTime

LEMMA OffTimeIsSound == ASSUME CallInv, Call!OffTime PROVE CallSound
<1>1. Call!Request("SCHED_OFF_TIME") /\ "SCHED_OFF_TIME" \in AddSteps \ {"SCHED_CONFIRM"}
  BY DEF Call!OffTime, AddSteps
<1> DEFINE type == sess.entry.type
           sides == sess.entry.sides
           given == Given("SCHED_OFF_TIME", type, sides)
<1>2. /\ OnLine /\ IsEntry(sess.entry) /\ OnPath("SCHED_OFF_TIME", type, sides)
      /\ AsKeyed(given, sess.entry)
  BY <1>1, AddFlowRequested
<1>3. type \in {"once", "daily", "weekly"} /\ sides \in {"both", "off"}
  BY <1>2 DEF OnPath
<1>4. given \cup {"offTime"} = Chosen(type, sides)
  BY <1>3 DEF Given, Chosen
<1>5. given \in SUBSET Fields
  BY GivenIsField
<1> HIDE DEF given
<1>6. ASSUME NEW t, Call!Finalize("offTime", t) PROVE CallSound
  BY <1>2, <1>3, <1>4, <1>5, <1>6, FinalizeIsSound
<1> QED BY <1>2, <1>6, InvalidIsSound DEF Call!OffTime

LEMMA ConfirmIsSound == ASSUME CallInv, Call!SchedConfirm PROVE CallSound
<1>1. OnLine /\ IsCall(sess) /\ sess.state = "SCHED_CONFIRM"
  <2>1. Call!Request("SCHED_CONFIRM")
    BY DEF Call!SchedConfirm
  <2> QED BY <2>1, Requested
<1>2. CASE Call!Restart(sess)
  <2>1. InAddFlow
    BY <1>1 DEF OnLine, CallInv, Understood, AddSteps
  <2>2. /\ \A f \in {"relay", "type", "sides"} : keyed[f] = sess.entry[f]
        /\ sess.entry.type \in {"once", "daily", "weekly"} /\ sess.entry.sides \in {"both", "on", "off"}
    BY <1>1, <2>1 DEF InAddFlow, OnPath
  <2> QED BY <1>1, <1>2, <2>2, RestartIsSound
<1>3. ASSUME Call!CarryOut({[kind |-> "create", fields |-> sess.fields]}, "saved"),
             UNCHANGED <<date, wish, keyed, blemishes>>
      PROVE  CallSound
  <2> DEFINE effects == {[kind |-> "create", fields |-> sess.fields]}
  <2>1. IsFiniteSet(effects)
    BY FS_Singleton
  <2>2. \A e \in effects : e \in wish'
    BY <1>1, <1>3 DEF OnLine, CallInv, Understood
  <2>3. Call!CarryOut(effects, "saved")
    BY <1>3
  <2> HIDE DEF effects
  <2>4. CallInv'
    BY <1>1, <1>3, <2>1, <2>3, CarryKeeps
  <2>5. Call!AsRead
    BY <2>2, <2>3, CarriedAsRead
  <2> QED BY <2>4, <2>5 DEF CallSound
<1> QED BY <1>1, <1>2, <1>3, MainMenuIsSound, InvalidIsSound DEF Call!SchedConfirm

LEMMA AddFlowIsSound == ASSUME CallInv, Call!AddFlow PROVE CallSound
BY TypeIsSound, SidesIsSound, OnceDayIsSound, OnDayIsSound, OffDayIsSound, OnTimeIsSound, OffTimeIsSound,
   ConfirmIsSound DEF Call!AddFlow


-----------------------------------------------------------------------------
(* The service desk *)

LEMMA SvcDeliverIsSound == ASSUME OnLine, NEW r, Call!SvcDeliver(r) PROVE CallSound
<1>1. IsCall(sess)
  BY DEF OnLine, CallInv
<1>2. CASE Call!Prompt(Call!RecordMessage(sess, Call!AgentState(caller)))
  BY <1>2, QuietChange DEF Call!AgentState
<1>3. CASE Call!Prompt([sess EXCEPT !.state = "SVC_VOICE", !.tree = r.state, !.retries = 0])
  <2> DEFINE s == [sess EXCEPT !.state = "SVC_VOICE", !.tree = r.state, !.retries = 0]
  <2>1. IsCall(s) /\ s.state \notin Sensitive
    BY <1>1 DEF IsCall, IsMap, Sensitive, AddSteps
  <2> HIDE DEF s
  <2>2. Call!Prompt(s)
    BY <1>3 DEF s
  <2> QED BY <2>1, <2>2, QuietPrompt
<1>4. CASE Call!Prompt([sess EXCEPT !.state = "SVC_MENU", !.tree = r.state, !.offered = r.options])
  <2> DEFINE s == [sess EXCEPT !.state = "SVC_MENU", !.tree = r.state, !.offered = r.options]
  <2>1. IsCall(s) /\ s.state \notin Sensitive
    BY <1>1 DEF IsCall, IsMap, Sensitive, AddSteps
  <2> HIDE DEF s
  <2>2. Call!Prompt(s)
    BY <1>4 DEF s
  <2> QED BY <2>1, <2>2, QuietPrompt
<1>5. CASE Call!MainMenu(sess)
  BY <1>1, <1>5, MainMenuIsSound
<1> QED BY <1>2, <1>3, <1>4, <1>5 DEF Call!SvcDeliver

LEMMA DeskIsSound == ASSUME CallInv, Call!Desk PROVE CallSound
<1>1. OnLine /\ IsCall(sess)
  BY Requested DEF Call!Desk, Call!SvcMenu, Call!SvcVoice, Call!AgentBack, Call!AgentReturn
<1>2. \A r : Call!SvcDeliver(r) => CallSound
  BY <1>1, SvcDeliverIsSound
<1>3. /\ Call!MainMenu(sess) => CallSound
      /\ Call!HangUpWith("agent") => CallSound
      /\ Call!Prompt(Call!RecordMessage(sess, "AGENT_RECORD")) => CallSound
  BY <1>1, MainMenuIsSound, HangUpIsSound, QuietChange
<1>4. /\ Call!Prompt([sess EXCEPT !.invalid = @ + 1]) => CallSound
      /\ Call!Prompt([sess EXCEPT !.retries = @ + 1]) => CallSound
  BY <1>1, AgainIsSound
<1>5. CASE Call!SvcMenu
  BY <1>2, <1>3, <1>5 DEF Call!SvcMenu
<1>6. CASE Call!SvcVoice
  BY <1>2, <1>3, <1>4, <1>6 DEF Call!SvcVoice
<1>7. CASE Call!AgentBack
  <2>1. Call!Prompt(Call!RecordMessage(sess, "AGENT_RETURN"))
    BY <1>7 DEF Call!AgentBack, Call!RecordMessage
  <2> QED BY <1>1, <2>1, QuietChange
<1>8. CASE Call!AgentReturn
  BY <1>3, <1>4, <1>8 DEF Call!AgentReturn
<1> QED BY <1>5, <1>6, <1>7, <1>8 DEF Call!Desk

-----------------------------------------------------------------------------
(* The beginning and the end *)

LEMMA ArriveIsSound == ASSUME CallInv, Call!Arrive PROVE CallSound
<1>1. /\ doing' = {} /\ count' = 0 /\ date' = date /\ keyed' = Call!NoSchedule
      /\ line /\ step' = None
  BY DEF Call!Arrive, Call!account
<1>2. /\ (log'.ended /\ log'.outcome \in {"auth_fail", "status"} /\ sess' = None)
         \/ (log' = Call!OpenLog /\ \E state \in {"MAIN", "AUTH_PIN", "SALES_MENU"} : sess' = Call!NewSession(state))
  <2> DEFINE state == CASE caller.kind = "user" -> "MAIN" [] caller.kind = "pin" -> "AUTH_PIN" [] OTHER -> "SALES_MENU"
  <2>1. state \in {"MAIN", "AUTH_PIN", "SALES_MENU"}
    OBVIOUS
  <2>2. \/ \E o \in {"auth_fail", "status"} : log' = [outcome |-> o, ended |-> TRUE] /\ sess' = None
        \/ log' = Call!OpenLog /\ sess' = Call!NewSession(state)
    <3> DEFINE Begin(x) == log' = Call!OpenLog /\ sess' = Call!NewSession(x)
               Refuse(o) == log' = [outcome |-> o, ended |-> TRUE] /\ sess' = None
    <3>1. Refuse("auth_fail") \/ Refuse("status") \/ Begin(state)
      BY Zenon DEF Call!Arrive
    <3> QED BY <3>1
  <2> HIDE DEF state
  <2> QED BY <2>1, <2>2
<1>3. CASE log'.ended /\ log'.outcome \in {"auth_fail", "status"} /\ sess' = None
  BY <1>1, <1>3, NoScheduleIsEntry DEF CallSound, CallInv, LogInv, Call!AsRead
<1>4. ASSUME log' = Call!OpenLog, NEW state \in {"MAIN", "AUTH_PIN", "SALES_MENU"}, sess' = Call!NewSession(state)
      PROVE  CallSound
  <2>1. IsCall(sess') /\ sess'.state = state
    BY <1>4, NewCall
  <2>2. Understood'
    BY <2>1 DEF Understood, AddSteps
  <2>3. LogInv'
    BY <1>1, <1>4, <2>1, NoSteps DEF LogInv, IsCall, Call!OpenLog
  <2> QED BY <1>1, <2>1, <2>2, <2>3, NoScheduleIsEntry DEF CallSound, CallInv, Call!AsRead
<1> QED BY <1>2, <1>3, <1>4

LEMMA FinishIsSound == ASSUME CallInv, Call!Finish PROVE CallSound
<1>1. /\ step \in {"command", "failed", "deleted", "saved"} /\ step' = None
      /\ keyed' = Call!NoSchedule /\ doing' = {} /\ UNCHANGED <<line, date, count, blemishes>>
      /\ IF step = "failed" THEN log' = log ELSE \E o \in {"command", "schedule"} : log' = Call!Outcome(o)
  BY DEF Call!Finish, Call!account
<1>2. CASE sess = None
  <2>1. sess' = None
    BY <1>2 DEF Call!Finish
  <2>2. LogInv'
    <3>1. CASE step = "failed"
      BY <1>1, <1>2, <2>1, <3>1 DEF CallInv, LogInv, Spoilt, LostLog
    <3>2. CASE step # "failed"
      BY <1>1, <1>2, <2>1, <3>2 DEF CallInv, LogInv, Spoilt, LostLog, Call!Outcome
    <3> QED BY <3>1, <3>2
  <2> QED BY <1>1, <2>1, <2>2, NoScheduleIsEntry DEF CallSound, CallInv, Call!AsRead
<1>3. CASE sess # None
  <2>1. IsCall(sess)
    BY <1>3 DEF CallInv
  <2>2. \/ step = "deleted" /\ sess' = Call!Browse(sess) /\ wish' = Call!Heard(sess')
        \/ sess' = Call!AtMain(sess)
    BY <1>3 DEF Call!Finish
  <2>3. IsCall(sess') /\ Understood'
    <3>1. CASE sess' = Call!Browse(sess) /\ wish' = Call!Heard(sess')
      <4>1. IsCall(sess') /\ sess'.state = "SCHED_BROWSE"
        BY <2>1, <3>1 DEF Call!Browse, IsCall, IsMap
      <4> QED BY <3>1, <4>1 DEF Understood, AddSteps, Call!Heard
    <3>2. CASE sess' = Call!AtMain(sess)
      <4>1. IsCall(sess') /\ sess'.state = "MAIN"
        BY <2>1, <3>2, MainCall
      <4> QED BY <4>1 DEF Understood, AddSteps
    <3> QED BY <2>2, <3>1, <3>2
  <2>4. IsMap(sess')
    BY <2>3 DEF IsCall
  <2>5. LogInv'
    <3>1. CASE step = "failed"
      BY <1>1, <1>3, <2>4, <3>1 DEF CallInv, LogInv, Spoilt, LostLog
    <3>2. CASE step # "failed"
      BY <1>1, <2>4, <3>2 DEF CallInv, LogInv, Spoilt, LostLog, Call!Outcome
    <3> QED BY <3>1, <3>2
  <2> QED BY <1>1, <2>3, <2>5, NoScheduleIsEntry DEF CallSound, CallInv, Call!AsRead
<1> QED BY <1>2, <1>3

LEMMA CallerHangsUpIsSound == ASSUME CallInv, Call!Hangup PROVE CallSound
<1>1. /\ line' = FALSE /\ sess' = None /\ keyed' = Call!NoSchedule
      /\ UNCHANGED <<step, date, doing, count>>
      /\ blemishes' = IF step = None THEN blemishes ELSE blemishes \cup {"cut_short"}
      /\ IF sess = None THEN log' = log ELSE \E o : log' = Call!Outcome(o)
  BY DEF Call!Hangup, Call!HangupOutcome, Call!account
<1>2. (Spoilt => Spoilt') /\ (LostLog => LostLog') /\ (step # None => Spoilt')
  BY <1>1 DEF Spoilt, LostLog
<1>3. LogInv'
  <2>1. CASE log' = log /\ sess = None
    BY <1>1, <1>2, <2>1 DEF CallInv, LogInv
  <2>2. CASE sess # None /\ log.ended
    BY <1>1, <1>2, <2>2 DEF CallInv, LogInv, Call!Outcome
  <2>3. CASE sess # None /\ ~log.ended
    <3>1. log'.ended
      BY <1>1, <2>3 DEF Call!Outcome
    <3>2. count > 0 => Spoilt'
      BY <1>2, <2>3, NoSteps DEF CallInv, LogInv
    <3> QED BY <1>1, <3>1, <3>2 DEF LogInv
  <2> QED BY <1>1, <2>1, <2>2, <2>3
<1> QED BY <1>1, <1>3, NoScheduleIsEntry DEF CallSound, CallInv, Call!AsRead

LEMMA LossIsSound == ASSUME CallInv, Call!Lose PROVE CallSound
<1>1. /\ sess' = None /\ step' = None /\ keyed' = Call!NoSchedule /\ doing' = {}
      /\ UNCHANGED <<line, log, date, count>> /\ blemishes' = blemishes \cup {"lost"}
  BY DEF Call!Lose
<1>2. LostLog' /\ (Spoilt => Spoilt')
  BY <1>1 DEF Spoilt, LostLog
<1>3. LogInv'
  BY <1>1, <1>2 DEF CallInv, LogInv
<1> QED BY <1>1, <1>3, NoScheduleIsEntry DEF CallSound, CallInv, Call!AsRead

LEMMA WebsiteIsSound == ASSUME CallInv, Call!Web PROVE CallSound
<1>1. UNCHANGED <<line, sess, step, log, wish, keyed, doing, count, blemishes>> /\ date' \in Int
  BY DEF Call!Web, Call!history, CallInv
<1>2. LogInv'
  BY <1>1 DEF CallInv, LogInv, Spoilt, LostLog
<1>3. sess' # None => IsCall(sess') /\ Understood'
  BY <1>1, SameCall DEF CallInv
<1> QED BY <1>1, <1>2, <1>3 DEF CallSound, CallInv, Call!AsRead

LEMMA CallIsSound == ASSUME CallInv, Call!Next PROVE CallSound
BY ArriveIsSound, AuthPinIsSound, SalesIsSound, MainChoiceIsSound, RelaySelectIsSound, InWordsIsSound,
   BrowsingIsSound, DelConfirmIsSound, AddFlowIsSound, DeskIsSound, FinishIsSound, CallerHangsUpIsSound,
   LossIsSound, WebsiteIsSound
   DEF Call!Next

CallPart == part = "call" => CallInv

LEMMA CallPartHolds == ServicesSpec => []CallPart
<1>1. ServicesInit => CallPart
  BY NoScheduleIsEntry DEF ServicesInit, CallPart, Call!Init, CallInv, LogInv
<1>2. CallPart /\ [ServicesNext]_allVars => CallPart'
  <2> SUFFICES ASSUME CallPart, [ServicesNext]_allVars, part' = "call" PROVE CallInv'
    BY DEF CallPart
  <2>1. part = "call" /\ CallInv
    BY DEF ServicesNext, allVars, CallPart
  <2>2. Call!Next \/ UNCHANGED callVars
    BY <2>1 DEF ServicesNext, allVars
  <2>3. CASE UNCHANGED callVars
    <3>1. UNCHANGED <<line, sess, step, log, wish, keyed, doing, count, blemishes, date>>
      BY <2>3 DEF callVars
    <3>2. LogInv'
      BY <2>1, <3>1 DEF CallInv, LogInv, Spoilt, LostLog
    <3>3. sess' # None => IsCall(sess') /\ Understood'
      BY <2>1, <3>1, SameCall DEF CallInv
    <3> QED BY <2>1, <3>1, <3>2, <3>3 DEF CallInv
  <2> QED BY <2>1, <2>2, <2>3, CallIsSound DEF CallSound
<1> QED BY <1>1, <1>2, PTL DEF ServicesSpec


\* What a call carries out is what the caller was last read, also when the list of
\* schedules or the channels have changed since, when a key is repeated, and
\* whatever was keyed in by earlier attempts at a schedule; what a chat carries out was
\* read back last, in time, and once (ivr/router.js, whatsapp/bot.js).  That None,
\* which stands for what is missing, is no record is all that is asked of it.
THEOREM CarriedAsWasRead == ASSUME ~IsMap(None) PROVE ServicesSpec => CarriedOutAsRead
<1>1. CallPart /\ ChatPart /\ [ServicesNext]_allVars
          => [(part = "call" => Call!AsRead) /\ (part = "chat" => Talk!AsRead)]_allVars
  <2> SUFFICES ASSUME CallPart, ChatPart, ServicesNext
               PROVE  (part = "call" => Call!AsRead) /\ (part = "chat" => Talk!AsRead)
    OBVIOUS
  <2>1. part = "call" => Call!AsRead
    BY CallIsSound DEF ServicesNext, CallPart, CallSound
  <2>2. ASSUME part = "chat" PROVE Talk!AsRead
    <3>1. did' # None /\ did' # Talk!ATurn => ReadJustNow(did')
      BY <2>2, ChatIsSound DEF ServicesNext, ChatPart, Sound, Approved
    <3> QED BY <3>1 DEF Talk!AsRead, ReadJustNow
  <2> QED BY <2>1, <2>2
<1> QED BY <1>1, CallPartHolds, ChatPartHolds, PTL DEF ServicesSpec, CarriedOutAsRead

\* The row of a call that carried something out does not say abandoned, unless the
\* caller hung up during the request or an order was obeyed in part only; and
\* no row stays open behind a session that is gone, other than for the known
\* reasons (ivr/router.js with services/callLogs.js).
THEOREM CallLogTrue == ASSUME ~IsMap(None) PROVE ServicesSpec => []CallLogIsTrue
<1>1. CallPart => CallLogIsTrue
  <2> SUFFICES ASSUME CallInv PROVE Call!AbandonedIsHonest /\ Call!LogIsClosed
    BY DEF CallPart, CallLogIsTrue
  <2> QED BY DEF CallInv, LogInv, Spoilt, LostLog, Call!AbandonedIsHonest, Call!LogIsClosed
<1> QED BY <1>1, CallPartHolds, PTL

-----------------------------------------------------------------------------
(* What the service desk may offer at a node, and what it understands there *)

\* The choices that a menu may show at a node to this account.
OptionsAt(node, w) ==
    CASE node \in {"service", "info"} -> 1..5
      [] node = "main" -> Talk!MainOptions(w) \cup {9}
      [] node = "no_device" -> {0}
      [] node = "fault_device" -> Talk!Numbered(w.devices)
      [] node = "fault_steps" -> {0, 1}
      [] node = "fault_offer_ticket" -> {1}
      [] node \in {"sched_problem", "order_time"} -> 1..3
      [] node \in {"sched_relay", "switch_relay", "quick_relay"} -> w.codes
      [] node \in {"order_channels", "quick_when"} -> 1..4
      [] node = "plans" -> Talk!Numbered(w.plans)
      [] node \in {"fault_online_helped", "order_status_helped", "assistant_offer", "assistant_helped",
                   "info_helped", "switch_action", "quick_action", "plan_action"} -> {1, 2}
      [] OTHER -> {}

\* The nodes that list what the account has; the others offer the same to everybody.
Lists == {"main", "fault_device", "sched_relay", "switch_relay", "quick_relay", "plans"}

LEMMA FixedOptions ==
    ASSUME NEW node, node \notin Lists, NEW v, NEW w PROVE OptionsAt(node, v) = OptionsAt(node, w)
BY DEF OptionsAt, Lists

\* A state of the tree; a reply that offers what belongs to the node it leads to.
IsTree(s) == "node" \in DOMAIN s
Fits(r, w) ==
    /\ {"state", "options", "unclear"} \subseteq DOMAIN r /\ IsTree(r.state)
    /\ r.options \subseteq OptionsAt(r.state.node, w)

LEMMA TreeStates ==
    ASSUME NEW s, IsTree(s), NEW n
    PROVE  IsTree(Talk!GoTo(s, n)) /\ Talk!GoTo(s, n).node = n
BY DEF IsTree, Talk!GoTo

LEMMA AboutTrees ==
    ASSUME NEW s, IsTree(s), NEW x
    PROVE  /\ IsTree([s EXCEPT !.about.on = x]) /\ [s EXCEPT !.about.on = x].node = s.node
           /\ IsTree([s EXCEPT !.about.action = x]) /\ [s EXCEPT !.about.action = x].node = s.node
           /\ IsTree([s EXCEPT !.about.info = x]) /\ [s EXCEPT !.about.info = x].node = s.node
           /\ IsTree([s EXCEPT !.step = x])
BY DEF IsTree

LEMMA NewTrees ==
    ASSUME NEW n PROVE IsTree(Talk!Node(n)) /\ Talk!Node(n).node = n
BY DEF IsTree, Talk!Node

LEMMA MainTree == IsTree(Talk!Main) /\ Talk!Main.node = "main"
BY DEF IsTree, Talk!Main, Talk!Node

LEMMA OptionsThere ==
    ASSUME NEW w
    PROVE  /\ OptionsAt("service", w) = 1..5 /\ OptionsAt("info", w) = 1..5
           /\ OptionsAt("main", w) = Talk!MainOptions(w) \cup {9}
           /\ OptionsAt("no_device", w) = {0}
           /\ OptionsAt("fault_device", w) = Talk!Numbered(w.devices)
           /\ OptionsAt("fault_steps", w) = {0, 1}
           /\ OptionsAt("fault_offer_ticket", w) = {1}
           /\ OptionsAt("sched_problem", w) = 1..3 /\ OptionsAt("order_time", w) = 1..3
           /\ \A n \in {"sched_relay", "switch_relay", "quick_relay"} : OptionsAt(n, w) = w.codes
           /\ OptionsAt("order_channels", w) = 1..4 /\ OptionsAt("quick_when", w) = 1..4
           /\ OptionsAt("plans", w) = Talk!Numbered(w.plans)
           /\ \A n \in {"fault_online_helped", "order_status_helped", "assistant_offer", "assistant_helped",
                        "info_helped", "switch_action", "quick_action", "plan_action"} : OptionsAt(n, w) = {1, 2}
BY DEF OptionsAt

LEMMA OfferFits ==
    ASSUME NEW w, NEW s, IsTree(s), NEW options, options \subseteq OptionsAt(s.node, w)
    PROVE  Fits(Talk!Offer(s, options), w)
BY DEF Fits, Talk!Offer

\* The same choices where the tree goes to a node.
LEMMA OfferGoes ==
    ASSUME NEW w, NEW s, IsTree(s), NEW n, NEW options, options \subseteq OptionsAt(n, w)
    PROVE  Fits(Talk!Offer(Talk!GoTo(s, n), options), w)
BY TreeStates, OfferFits

LEMMA HelpedFits ==
    ASSUME NEW w, NEW s, IsTree(s)
    PROVE  \A n \in {"fault_online_helped", "order_status_helped", "assistant_offer", "assistant_helped", "info_helped"} :
              /\ Fits(Talk!Offer(Talk!GoTo(s, n), Talk!Helped), w)
              /\ s.node = n => Fits(Talk!Offer(s, Talk!Helped), w)
<1> SUFFICES ASSUME NEW n \in {"fault_online_helped", "order_status_helped", "assistant_offer", "assistant_helped", "info_helped"}
             PROVE  /\ Fits(Talk!Offer(Talk!GoTo(s, n), Talk!Helped), w)
                    /\ s.node = n => Fits(Talk!Offer(s, Talk!Helped), w)
  OBVIOUS
<1>1. Talk!Helped \subseteq OptionsAt(n, w)
  BY DEF OptionsAt, Talk!Helped
<1> QED BY <1>1, OfferGoes, OfferFits

LEMMA PlainFits ==
    ASSUME NEW w
    PROVE  /\ \A s : IsTree(s) => Fits(Talk!Words(s), w)
           /\ Fits(Talk!MenuStart, w) /\ Fits(Talk!Finished, w) /\ Fits(Talk!Ticketed, w)
           /\ Fits(Talk!Transferred, w) /\ Fits(Talk!Dismissed, w)
           /\ \A kind, on, action : Fits(Talk!Ordered(kind, on, action), w)
<1>1. \A s : IsTree(s) => Fits(Talk!Words(s), w)
  BY DEF Fits, Talk!Words, Talk!Offer
<1>2. Fits(Talk!MenuStart, w) /\ Fits(Talk!Finished, w) /\ Fits(Talk!Ticketed, w) /\ Fits(Talk!Transferred, w)
  BY MainTree DEF Fits, Talk!MenuStart, Talk!Finished, Talk!Ticketed, Talk!Transferred, Talk!Offer
<1>3. Fits(Talk!Dismissed, w)
  <2>1. {Talk!Back} \subseteq OptionsAt(Talk!Main.node, w)
    BY MainTree DEF OptionsAt, Talk!Back
  <2> QED BY <2>1, MainTree, OfferFits DEF Talk!Dismissed
<1>4. \A kind, on, action : Fits(Talk!Ordered(kind, on, action), w)
  BY MainTree DEF Fits, Talk!Ordered, Talk!Finished, Talk!Offer
<1> QED BY <1>1, <1>2, <1>3, <1>4

LEMMA MarkedFits ==
    ASSUME NEW w, NEW replies, \A r \in replies : Fits(r, w)
    PROVE  \A r \in {[q EXCEPT !.unclear = TRUE] : q \in replies} : Fits(r, w)
BY DEF Fits

LEMMA FaultFits ==
    ASSUME NEW w, NEW s, IsTree(s)
    PROVE  /\ \A r \in Talk!FaultSteps(s) : Fits(r, w)
           /\ \A r \in Talk!FaultCheck(s) : Fits(r, w)
           /\ \A r \in Talk!FaultTicket : Fits(r, w)
           /\ \A r \in Talk!Agent(w.rollout) : Fits(r, w)
<1>1. ASSUME NEW q, IsTree(q) PROVE \A r \in Talk!FaultSteps(q) : Fits(r, w)
  <2>1. {0, 1} \subseteq OptionsAt("fault_steps", w)
    BY OptionsThere
  <2> QED BY <1>1, <2>1, OfferGoes, PlainFits DEF Talk!FaultSteps
<1>2. IsTree([s EXCEPT !.step = 0])
  BY AboutTrees
<1>3. \A r \in Talk!FaultCheck(s) : Fits(r, w)
  BY <1>1, <1>2, HelpedFits DEF Talk!FaultCheck
<1>4. \A r \in Talk!FaultTicket : Fits(r, w)
  BY PlainFits DEF Talk!FaultTicket
<1>5. \A r \in Talk!Agent(w.rollout) : Fits(r, w)
  BY PlainFits DEF Talk!Agent
<1> QED BY <1>1, <1>3, <1>4, <1>5

LEMMA DeviceFits ==
    ASSUME NEW w, NEW s, IsTree(s), s.node = "fault_device"
    PROVE  \A r \in Talk!FaultDevice(s, w.devices) : Fits(r, w)
<1>1. Fits(Talk!Offer(Talk!Node("no_device"), {0}), w)
  <2>1. {0} \subseteq OptionsAt(Talk!Node("no_device").node, w)
    BY NewTrees, OptionsThere
  <2> QED BY <2>1, NewTrees, OfferFits
<1>2. Fits(Talk!Offer(s, Talk!Numbered(w.devices)), w)
  BY OptionsThere, OfferFits
<1> QED BY <1>1, <1>2, FaultFits DEF Talk!FaultDevice

LEMMA ShownFits ==
    ASSUME NEW w, NEW s, IsTree(s) PROVE \A r \in Talk!Shown(s, w) : Fits(r, w)
<1>1. /\ s.node = "service" => Fits(Talk!Offer(s, 1..5), w)
      /\ s.node = "no_device" => Fits(Talk!Offer(s, {0}), w)
      /\ s.node = "fault_offer_ticket" => Fits(Talk!Offer(s, {1}), w)
      /\ s.node = "sched_problem" => Fits(Talk!Offer(s, 1..3), w)
      /\ s.node = "sched_relay" => Fits(Talk!Offer(s, w.codes), w)
  BY OptionsThere, OfferFits
<1>2. s.node \in {"fault_online_helped", "order_status_helped", "assistant_offer", "assistant_helped"}
         => Fits(Talk!Offer(s, Talk!Helped), w)
  BY HelpedFits
<1>3. Fits(Talk!Offer(Talk!GoTo(s, "order_status_helped"), Talk!Helped), w)
  BY HelpedFits
<1>4. Fits(Talk!Words(Talk!GoTo(s, "service_other")), w) /\ Fits(Talk!Words(s), w) /\ Fits(Talk!MenuStart, w)
  BY TreeStates, PlainFits
<1>5. s.node = "fault_device" => \A r \in Talk!FaultDevice(s, w.devices) : Fits(r, w)
  BY DeviceFits
<1> QED BY <1>1, <1>2, <1>3, <1>4, <1>5, FaultFits DEF Talk!Shown

LEMMA NotUnderstoodFits ==
    ASSUME NEW w, NEW s, IsTree(s) PROVE \A r \in Talk!NotUnderstood(s, w) : Fits(r, w)
BY ShownFits, MarkedFits DEF Talk!NotUnderstood

LEMMA ServiceFits ==
    ASSUME NEW w, NEW s, IsTree(s), NEW d
    PROVE  /\ \A r \in Talk!Assist(s, w) : Fits(r, w)
           /\ \A r \in Talk!NextStep(s, w) : Fits(r, w)
           /\ \A r \in Talk!ServiceChoice(s, d, w) : Fits(r, w)
           /\ \A r \in Talk!NoDeviceChoice(s, d, w) : Fits(r, w)
           /\ \A r \in Talk!RelayChoice(s, d, w) : Fits(r, w)
<1>0. \A n : \A r \in Talk!Shown(Talk!GoTo(s, n), w) : Fits(r, w)
  BY ShownFits, TreeStates
<1>1. \A r \in Talk!Assist(s, w) : Fits(r, w)
  BY <1>0 DEF Talk!Assist
<1>2. \A r \in Talk!NextStep(s, w) : Fits(r, w)
  <2>1. IsTree([s EXCEPT !.step = @ + 1])
    BY DEF IsTree
  <2>2. \A r \in Talk!FaultSteps([s EXCEPT !.step = @ + 1]) : Fits(r, w)
    BY <2>1, FaultFits
  <2> QED BY <1>0, <2>2, PlainFits DEF Talk!NextStep
<1>3. \A r \in Talk!ServiceChoice(s, d, w) : Fits(r, w)
  BY <1>0, <1>1, NotUnderstoodFits DEF Talk!ServiceChoice
<1>4. \A r \in Talk!NoDeviceChoice(s, d, w) : Fits(r, w)
  BY FaultFits, NotUnderstoodFits DEF Talk!NoDeviceChoice
<1>5. \A r \in Talk!RelayChoice(s, d, w) : Fits(r, w)
  BY PlainFits, ShownFits, NotUnderstoodFits DEF Talk!RelayChoice
<1> QED BY <1>1, <1>2, <1>3, <1>4, <1>5

LEMMA AnswerFits ==
    ASSUME NEW w, NEW s, IsTree(s), NEW d PROVE \A r \in Talk!Answer(s, d, w) : Fits(r, w)
<1>1. \A n : IsTree(Talk!GoTo(s, n)) /\ Fits(Talk!Words(Talk!GoTo(s, n)), w)
  BY TreeStates, PlainFits
<1>2. \A n : \A r \in Talk!Shown(Talk!GoTo(s, n), w) : Fits(r, w)
  BY <1>1, ShownFits
<1> QED
  BY <1>1, <1>2, PlainFits, FaultFits, DeviceFits, NotUnderstoodFits, ServiceFits DEF Talk!Answer

LEMMA SpokenFits ==
    ASSUME NEW w, NEW s, IsTree(s), NEW long PROVE \A r \in Talk!Spoken(s, long, w) : Fits(r, w)
<1>1. Fits(Talk!Offer(Talk!GoTo(s, "assistant_helped"), Talk!Helped), w)
  BY HelpedFits
<1> QED BY <1>1, PlainFits DEF Talk!Spoken

LEMMA DeskShownFits ==
    ASSUME NEW w, NEW s, IsTree(s) PROVE \A r \in Talk!DeskShown(s, w) : Fits(r, w)
<1>1. /\ s.node = "order_channels" => Fits(Talk!Offer(s, 1..4), w)
      /\ s.node = "order_time" => Fits(Talk!Offer(s, 1..3), w)
      /\ s.node = "info" => Fits(Talk!Offer(s, 1..5), w)
      /\ s.node \in {"switch_relay", "quick_relay"} => Fits(Talk!Offer(s, w.codes), w)
      /\ s.node \in {"switch_action", "quick_action", "plan_action"} => Fits(Talk!Offer(s, {1, 2}), w)
      /\ s.node = "quick_when" => Fits(Talk!Offer(s, 1..4), w)
      /\ s.node = "plans" => Fits(Talk!Offer(s, Talk!Numbered(w.plans)), w)
  BY OptionsThere, OfferFits
<1>2. s.node = "info_helped" => Fits(Talk!Offer(s, Talk!Helped), w)
  BY HelpedFits
<1>3. /\ Fits(Talk!Words(s), w) /\ Fits(Talk!MenuStart, w) /\ Fits(Talk!Finished, w) /\ Fits(Talk!Dismissed, w)
      /\ Fits(Talk!Ordered("status", 0, "none"), w)
  BY PlainFits
<1> QED BY <1>1, <1>2, <1>3, ShownFits DEF Talk!DeskShown, Talk!IfStillThere

LEMMA DeskUnclearFits ==
    ASSUME NEW w, NEW s, IsTree(s) PROVE \A r \in Talk!DeskUnclear(s, w) : Fits(r, w)
BY DeskShownFits, MarkedFits DEF Talk!DeskUnclear

LEMMA DeskGoesFits ==
    ASSUME NEW w, NEW s, IsTree(s), NEW n, NEW x
    PROVE  /\ \A r \in Talk!DeskShown(Talk!GoTo(s, n), w) : Fits(r, w)
           /\ \A r \in Talk!DeskShown([Talk!GoTo(s, n) EXCEPT !.about.on = x], w) : Fits(r, w)
           /\ \A r \in Talk!DeskShown([Talk!GoTo(s, n) EXCEPT !.about.action = x], w) : Fits(r, w)
<1>1. IsTree(Talk!GoTo(s, n))
  BY TreeStates
<1>2. IsTree([Talk!GoTo(s, n) EXCEPT !.about.on = x]) /\ IsTree([Talk!GoTo(s, n) EXCEPT !.about.action = x])
  BY <1>1, AboutTrees
<1> QED BY <1>1, <1>2, DeskShownFits

LEMMA BranchFits ==
    ASSUME NEW w, NEW s, IsTree(s), NEW d, NEW next
    PROVE  /\ \A r \in Talk!MainChoices(s, d, w) : Fits(r, w)
           /\ \A r \in Talk!Picked(s, d, next, w) : Fits(r, w)
           /\ \A r \in Talk!OrderTime(s, w) : Fits(r, w)
           /\ \A r \in Talk!InfoUnhelpful(s) : Fits(r, w)
<1>0. \A n : \A r \in Talk!DeskShown(Talk!GoTo(s, n), w) : Fits(r, w)
  BY DeskGoesFits
<1>1. \A r \in Talk!MainChoices(s, d, w) : Fits(r, w)
  <2> DEFINE nodes == <<"order_channels", IF w.user THEN "service" ELSE "service_unknown", "info",
                        "switch_relay", "status", "plans", "free_order">>
  <2>1. \A r \in Talk!DeskShown(Talk!GoTo(s, nodes[d]), w) : Fits(r, w)
    BY <1>0
  <2>2. Talk!MainChoices(s, d, w)
          = IF d \in Talk!MainOptions(w) THEN Talk!DeskShown(Talk!GoTo(s, nodes[d]), w) ELSE Talk!DeskUnclear(s, w)
    BY DEF Talk!MainChoices
  <2> HIDE DEF nodes
  <2> QED BY <2>1, <2>2, DeskUnclearFits
<1>2. \A r \in Talk!Picked(s, d, next, w) : Fits(r, w)
  <2>1. \A r \in Talk!DeskShown([Talk!GoTo(s, next) EXCEPT !.about.on = d], w) : Fits(r, w)
    BY DeskGoesFits
  <2>2. \A r \in Talk!DeskShown(s, w) : Fits(r, w)
    BY DeskShownFits
  <2> QED BY <2>1, <2>2, DeskUnclearFits, PlainFits DEF Talk!Picked
<1>3. \A r \in Talk!OrderTime(s, w) : Fits(r, w)
  BY <1>0 DEF Talk!OrderTime
<1>4. \A r \in Talk!InfoUnhelpful(s) : Fits(r, w)
  <2> DEFINE t == [Talk!GoTo(s, "assistant_offer") EXCEPT !.about.info = TRUE]
  <2>1. IsTree(t) /\ t.node = "assistant_offer"
    <3>1. IsTree(Talk!GoTo(s, "assistant_offer")) /\ Talk!GoTo(s, "assistant_offer").node = "assistant_offer"
      BY TreeStates
    <3> QED BY <3>1, AboutTrees
  <2>2. Talk!InfoUnhelpful(s) = {Talk!Offer(t, Talk!Helped), Talk!Ticketed}
    BY DEF Talk!InfoUnhelpful
  <2> HIDE DEF t
  <2> QED BY <2>1, <2>2, HelpedFits, PlainFits
<1> QED BY <1>1, <1>2, <1>3, <1>4

LEMMA DeskChoiceFits ==
    ASSUME NEW w, NEW s, IsTree(s), NEW d PROVE \A r \in Talk!DeskChoice(s, d, w) : Fits(r, w)
<1>1. /\ \A n : \A r \in Talk!DeskShown(Talk!GoTo(s, n), w) : Fits(r, w)
      /\ \A n, x : \A r \in Talk!DeskShown([Talk!GoTo(s, n) EXCEPT !.about.on = x], w) : Fits(r, w)
      /\ \A n, x : \A r \in Talk!DeskShown([Talk!GoTo(s, n) EXCEPT !.about.action = x], w) : Fits(r, w)
  BY DeskGoesFits
<1>2. Fits(Talk!Offer(Talk!GoTo(s, "info_helped"), Talk!Helped), w)
  BY HelpedFits
<1>3. /\ \A r \in Talk!MainChoices(s, d, w) : Fits(r, w)
      /\ \A next : \A r \in Talk!Picked(s, d, next, w) : Fits(r, w)
      /\ \A r \in Talk!OrderTime(s, w) : Fits(r, w)
      /\ \A r \in Talk!InfoUnhelpful(s) : Fits(r, w)
  BY BranchFits
<1>4. (\A r \in Talk!DeskUnclear(s, w) : Fits(r, w)) /\ (\A r \in Talk!Answer(s, d, w) : Fits(r, w))
  BY DeskUnclearFits, AnswerFits
<1>5. Fits(Talk!Words(s), w)
  BY PlainFits
<1> QED BY <1>1, <1>2, <1>3, <1>4, <1>5, PlainFits DEF Talk!DeskChoice, Talk!OfOwn

LEMMA DeskSpokenFits ==
    ASSUME NEW w, NEW s, IsTree(s) PROVE \A r \in Talk!DeskSpoken(s, w) : Fits(r, w)
<1>1. \A n : \A r \in Talk!DeskShown(Talk!GoTo(s, n), w) : Fits(r, w)
  BY DeskGoesFits
<1> QED BY <1>1, PlainFits, SpokenFits DEF Talk!DeskSpoken, Talk!OfOwn


LEMMA RoutedFits ==
    ASSUME NEW w, NEW s, IsTree(s) PROVE \A r \in Talk!Routed(s, w) : Fits(r, w)
<1>1. \A n : \A r \in Talk!Jump(n, w) : Fits(r, w)
  BY NewTrees, DeskShownFits DEF Talk!Jump
<1> DEFINE Tried(s0, ds) == Talk!DeskShown(s0, w) \cup UNION {Talk!DeskChoice(s0, d, w) : d \in ds}
           Named      == {"fault_device", "sched_problem", "order_status", "service_other", "week",
                          "status", "switch_relay", "quick_relay", "plans"}
           OnRelay(n, i) == [Talk!Node(n) EXCEPT !.about.on = i]
           OnTime(i, a)  == [Talk!Node("quick_when") EXCEPT !.about.on = i, !.about.action = a]
           ToTime(s0)    == Talk!DeskSpoken(Talk!GoTo(s0, "quick_time"), w)
<1>2. \A s0, ds : IsTree(s0) => \A r \in Tried(s0, ds) : Fits(r, w)
  BY DeskShownFits, DeskChoiceFits
<1>3. \A s0 : IsTree(s0) => \A r \in ToTime(s0) : Fits(r, w)
  BY TreeStates, DeskSpokenFits
<1>4. (\A n, i : IsTree(OnRelay(n, i))) /\ (\A i, a : IsTree(OnTime(i, a)))
  BY DEF IsTree, Talk!Node
<1>5. Talk!CustomerJumps(w)
        = (UNION {Talk!Jump(n, w) : n \in Named})
          \cup (UNION {Tried(OnRelay(n, i), {1, 2}) : n \in {"switch_action", "quick_action"}, i \in w.codes})
          \cup (UNION {Tried(OnRelay("plan_action", i), {1, 2}) : i \in Talk!Numbered(w.plans)})
          \cup (UNION {Tried(OnTime(i, a), 1..3) \cup ToTime(OnTime(i, a)) : i \in w.codes, a \in {"on", "off"}})
  BY DEF Talk!CustomerJumps
<1>6. \A r \in Talk!CustomerJumps(w) : Fits(r, w)
  <2> HIDE DEF Tried, Named, OnRelay, OnTime, ToTime
  <2>1. \A r \in UNION {Talk!Jump(n, w) : n \in Named} : Fits(r, w)
    BY <1>1
  <2>2. \A r \in UNION {Tried(OnRelay(n, i), {1, 2}) : n \in {"switch_action", "quick_action"}, i \in w.codes} : Fits(r, w)
    BY <1>2, <1>4
  <2>3. \A r \in UNION {Tried(OnRelay("plan_action", i), {1, 2}) : i \in Talk!Numbered(w.plans)} : Fits(r, w)
    BY <1>2, <1>4
  <2>4. \A r \in UNION {Tried(OnTime(i, a), 1..3) \cup ToTime(OnTime(i, a)) : i \in w.codes, a \in {"on", "off"}} : Fits(r, w)
    BY <1>2, <1>3, <1>4
  <2> QED BY <1>5, <2>1, <2>2, <2>3, <2>4
<1>7. Fits(Talk!MenuStart, w) /\ Fits(Talk!Offer(Talk!Node("info_helped"), Talk!Helped), w)
  BY NewTrees, HelpedFits, PlainFits
<1>8. \A r \in UNION {Talk!Jump(n, w) : n \in {"order_channels", "feature", "agent"}} : Fits(r, w)
  BY <1>1
<1>9. \A r \in Talk!Jumps(w) : Fits(r, w)
  BY <1>1, <1>6, <1>7, <1>8 DEF Talk!Jumps
<1> QED BY <1>9, DeskUnclearFits DEF Talk!Routed

LEMMA MenuRepliesFit ==
    ASSUME NEW s, IsTree(s), NEW m PROVE \A r \in Talk!MenuReplies(s, m) : Fits(r, Talk!who)
BY PlainFits, DeskChoiceFits, DeskSpokenFits, DeskUnclearFits, RoutedFits DEF Talk!MenuReplies

\* What is offered belongs to the node, or leads back to the main menu.
LEMMA ChoicesFit ==
    ASSUME NEW w, NEW r, Fits(r, w)
    PROVE  Talk!Choices(r, w) \subseteq OptionsAt(r.state.node, w) \cup {9}
<1>1. Talk!Main.node = "main" /\ OptionsAt("main", w) = Talk!MainOptions(w) \cup {9}
  BY MainTree, OptionsThere
<1> QED BY <1>1 DEF Talk!Choices, Fits, Talk!Back


-----------------------------------------------------------------------------
(* What is offered is understood in the chat *)

Clear(r) == ~r.unclear

LEMMA PlainClear ==
    /\ \A s, options : Clear(Talk!Offer(s, options))
    /\ \A s : Clear(Talk!Words(s))
    /\ Clear(Talk!MenuStart) /\ Clear(Talk!Finished) /\ Clear(Talk!Ticketed) /\ Clear(Talk!Transferred)
    /\ Clear(Talk!Dismissed)
    /\ \A kind, on, action : Clear(Talk!Ordered(kind, on, action))
BY DEF Clear, Talk!Offer, Talk!Words, Talk!MenuStart, Talk!Finished, Talk!Ticketed, Talk!Transferred,
       Talk!Dismissed, Talk!Ordered

LEMMA FaultClear ==
    ASSUME NEW s, NEW w
    PROVE  /\ \A r \in Talk!FaultSteps(s) : Clear(r)
           /\ \A r \in Talk!FaultCheck(s) : Clear(r)
           /\ \A r \in Talk!FaultDevice(s, w.devices) : Clear(r)
           /\ \A r \in Talk!FaultTicket : Clear(r)
           /\ \A r \in Talk!Agent(w.rollout) : Clear(r)
<1>1. \A q : \A r \in Talk!FaultSteps(q) : Clear(r)
  BY PlainClear DEF Talk!FaultSteps
<1>2. \A r \in Talk!FaultCheck(s) : Clear(r)
  BY <1>1, PlainClear DEF Talk!FaultCheck
<1>3. \A r \in Talk!FaultDevice(s, w.devices) : Clear(r)
  BY <1>2, PlainClear DEF Talk!FaultDevice
<1>4. \A r \in Talk!FaultTicket : Clear(r)
  BY PlainClear DEF Talk!FaultTicket
<1>5. \A r \in Talk!Agent(w.rollout) : Clear(r)
  BY PlainClear DEF Talk!Agent
<1> QED BY <1>1, <1>2, <1>3, <1>4, <1>5

LEMMA ShownClear ==
    ASSUME NEW s, NEW w PROVE \A r \in Talk!Shown(s, w) : Clear(r)
BY PlainClear, FaultClear DEF Talk!Shown

LEMMA DeskShownClear ==
    ASSUME NEW s, NEW w PROVE \A r \in Talk!DeskShown(s, w) : Clear(r)
BY PlainClear, ShownClear DEF Talk!DeskShown, Talk!IfStillThere

LEMMA ServiceClear ==
    ASSUME NEW s, NEW w
    PROVE  /\ \A r \in Talk!Assist(s, w) : Clear(r)
           /\ \A r \in Talk!NextStep(s, w) : Clear(r)
           /\ \A d \in 1..5 : \A r \in Talk!ServiceChoice(s, d, w) : Clear(r)
           /\ \A r \in Talk!NoDeviceChoice(s, 0, w) : Clear(r)
           /\ \A d \in w.codes \cup {9} : \A r \in Talk!RelayChoice(s, d, w) : Clear(r)
<1>1. \A r \in Talk!Assist(s, w) : Clear(r)
  BY ShownClear DEF Talk!Assist
<1>2. \A r \in Talk!NextStep(s, w) : Clear(r)
  BY PlainClear, FaultClear, ShownClear DEF Talk!NextStep
<1>3. \A d \in 1..5 : \A r \in Talk!ServiceChoice(s, d, w) : Clear(r)
  BY <1>1, ShownClear DEF Talk!ServiceChoice
<1>4. \A r \in Talk!NoDeviceChoice(s, 0, w) : Clear(r)
  BY FaultClear DEF Talk!NoDeviceChoice
<1>5. \A d \in w.codes \cup {9} : \A r \in Talk!RelayChoice(s, d, w) : Clear(r)
  BY PlainClear, ShownClear DEF Talk!RelayChoice, Talk!Back
<1> QED BY <1>1, <1>2, <1>3, <1>4, <1>5

LEMMA AnswerClear ==
    ASSUME NEW s, NEW w, NEW d \in OptionsAt(s.node, w) \cup {9}
    PROVE  \A r \in Talk!Answer(s, d, w) : Clear(r)
<1>1. CASE s.node = "service"
  BY <1>1, PlainClear, ServiceClear DEF OptionsAt, Talk!Answer, Talk!Back
<1>2. CASE s.node = "no_device"
  BY <1>2, PlainClear, ServiceClear DEF OptionsAt, Talk!Answer, Talk!Back
<1>3. CASE s.node = "fault_device"
  BY <1>3, PlainClear, FaultClear DEF OptionsAt, Talk!Answer, Talk!Back
<1>4. CASE s.node \in {"fault_online_helped", "order_status_helped", "assistant_offer", "assistant_helped"}
  BY <1>4, PlainClear, ServiceClear DEF OptionsAt, Talk!Answer, Talk!Back
<1>5. CASE s.node = "fault_steps"
  BY <1>5, PlainClear, FaultClear, ServiceClear DEF OptionsAt, Talk!Answer, Talk!Back
<1>6. CASE s.node = "fault_offer_ticket"
  BY <1>6, PlainClear, FaultClear DEF OptionsAt, Talk!Answer, Talk!Back
<1>7. CASE s.node = "sched_problem"
  BY <1>7, PlainClear, ShownClear DEF OptionsAt, Talk!Answer, Talk!Back
<1>8. CASE s.node = "sched_relay"
  BY <1>8, ServiceClear DEF OptionsAt, Talk!Answer
<1>9. CASE s.node \notin {"service", "no_device", "fault_device", "fault_online_helped", "order_status_helped",
                          "assistant_offer", "assistant_helped", "fault_steps", "fault_offer_ticket",
                          "sched_problem", "sched_relay"}
  BY <1>9, PlainClear DEF Talk!Answer
<1> QED BY <1>1, <1>2, <1>3, <1>4, <1>5, <1>6, <1>7, <1>8, <1>9

LEMMA BranchClear ==
    ASSUME NEW s, NEW w, NEW next
    PROVE  /\ \A d \in Talk!MainOptions(w) : \A r \in Talk!MainChoices(s, d, w) : Clear(r)
           /\ \A d \in w.codes \cup {9} : \A r \in Talk!Picked(s, d, next, w) : Clear(r)
           /\ \A r \in Talk!OrderTime(s, w) : Clear(r)
           /\ \A r \in Talk!InfoUnhelpful(s) : Clear(r)
<1>1. \A d \in Talk!MainOptions(w) : \A r \in Talk!MainChoices(s, d, w) : Clear(r)
  BY DeskShownClear DEF Talk!MainChoices
<1>2. \A d \in w.codes \cup {9} : \A r \in Talk!Picked(s, d, next, w) : Clear(r)
  BY PlainClear, DeskShownClear DEF Talk!Picked, Talk!Back
<1>3. \A r \in Talk!OrderTime(s, w) : Clear(r)
  BY DeskShownClear DEF Talk!OrderTime
<1>4. \A r \in Talk!InfoUnhelpful(s) : Clear(r)
  BY PlainClear DEF Talk!InfoUnhelpful
<1> QED BY <1>1, <1>2, <1>3, <1>4

LEMMA DeskChoiceClear ==
    ASSUME NEW s, NEW w, NEW d \in OptionsAt(s.node, w) \cup {9}
    PROVE  \A r \in Talk!DeskChoice(s, d, w) : Clear(r)
<1>1. CASE (s.node \in Talk!UserNodes /\ ~w.user) \/ (d = Talk!Back /\ s.node \notin Talk!RelayLists)
  BY <1>1, PlainClear DEF Talk!DeskChoice
<1>2. CASE ~((s.node \in Talk!UserNodes /\ ~w.user) \/ (d = Talk!Back /\ s.node \notin Talk!RelayLists))
  <2>1. d \in OptionsAt(s.node, w) \/ (d = 9 /\ s.node \in {"sched_relay", "switch_relay", "quick_relay"})
    BY <1>2 DEF Talk!Back, Talk!RelayLists
  <2>2. CASE s.node = "main"
    <3>1. d \in Talk!MainOptions(w)
      <4>1. d # 9 /\ d \in OptionsAt("main", w)
        BY <1>2, <2>1, <2>2 DEF Talk!Back, Talk!RelayLists
      <4> QED BY <4>1, OptionsThere
    <3> QED BY <1>2, <2>2, <3>1, BranchClear DEF Talk!DeskChoice, Talk!Asking, Talk!FreeNodes
  <2>3. CASE s.node \in {"order_channels", "order_time", "info"}
    BY <1>2, <2>1, <2>3, DeskShownClear, BranchClear, PlainClear DEF OptionsAt, Talk!DeskChoice
  <2>4. CASE s.node \in {"info_helped", "plans"}
    <3>1. s.node = "info_helped" => d \in {1, 2}
      BY <2>1, <2>4 DEF OptionsAt
    <3>2. s.node = "plans" => d \in Talk!Numbered(w.plans)
      BY <2>1, <2>4 DEF OptionsAt
    <3>3. Talk!Numbered(0) = {}
      BY DEF Talk!Numbered
    <3>4. CASE s.node = "info_helped"
      BY <1>2, <3>1, <3>4, PlainClear, BranchClear DEF Talk!DeskChoice, Talk!Asking, Talk!FreeNodes
    <3>5. CASE s.node = "plans"
      <4>1. w.plans # 0 /\ d \in Talk!Numbered(w.plans)
        BY <3>2, <3>3, <3>5
      <4>2. Talk!DeskChoice(s, d, w) = Talk!DeskShown([Talk!GoTo(s, "plan_action") EXCEPT !.about.on = d], w)
        BY <1>2, <3>5, <4>1 DEF Talk!DeskChoice, Talk!Asking, Talk!FreeNodes
      <4> QED BY <4>2, DeskShownClear
    <3> QED BY <2>4, <3>4, <3>5
  <2>5. CASE s.node \in {"switch_relay", "quick_relay"}
    <3>1. d \in w.codes \cup {9}
      BY <2>1, <2>5, OptionsThere
    <3>2. Talk!DeskChoice(s, d, w) \in {Talk!Picked(s, d, "switch_action", w), Talk!Picked(s, d, "quick_action", w)}
      BY <1>2, <2>5 DEF Talk!DeskChoice, Talk!Asking, Talk!FreeNodes
    <3> QED BY <3>1, <3>2, BranchClear
  <2>6. CASE s.node \in {"switch_action", "quick_action", "plan_action"}
    BY <1>2, <2>1, <2>6, PlainClear, DeskShownClear DEF OptionsAt, Talk!DeskChoice, Talk!OfOwn, Talk!Asking, Talk!FreeNodes
  <2>7. CASE s.node = "quick_when"
    BY <1>2, <2>1, <2>7, PlainClear, DeskShownClear DEF OptionsAt, Talk!DeskChoice, Talk!OfOwn, Talk!Asking, Talk!FreeNodes
  <2>8. CASE s.node \in Talk!Asking \cup Talk!FreeNodes \cup {"quick_time"}
    BY <1>2, <2>8, PlainClear DEF Talk!DeskChoice, Talk!OfOwn, Talk!Asking, Talk!FreeNodes
  <2>9. CASE s.node \notin {"main", "order_channels", "order_time", "info", "info_helped", "plans", "switch_relay",
                            "quick_relay", "switch_action", "quick_action", "plan_action", "quick_when", "quick_time"}
                           \cup Talk!Asking \cup Talk!FreeNodes
    <3>1. \A r \in Talk!Answer(s, d, w) : Clear(r)
      BY AnswerClear
    <3> QED BY <1>2, <2>9, <3>1, PlainClear DEF Talk!DeskChoice
  <2> QED BY <2>2, <2>3, <2>4, <2>5, <2>6, <2>7, <2>8, <2>9
<1> QED BY <1>1, <1>2


-----------------------------------------------------------------------------
(* The row of a chat, and the menu that is open *)

Typed(r) ==
    /\ {"state", "menu", "ask", "resume", "tries", "link", "linkAge", "age"} \subseteq DOMAIN r
    /\ r.state \in {"NEW", "IDLE"} \cup DOMAIN Talk!Lifetime
    /\ r.ask # Talk!NoOrder <=> r.state = "CONFIRM"
    /\ r.tries \in 0..(Tries - 1) /\ r.age \in 0..MaxAge
    /\ r.link # 0 => r.state = "ADMIN_CODE"

\* What the newest menu offers belongs to the node that is stored.  Of a list of
\* what the account has, nothing is left of that when the account changes.
MenuHolds(r, options) ==
    r.state = "MENU" => /\ IsTree(r.menu)
                        /\ r.menu.node \notin Lists => options \subseteq OptionsAt(r.menu.node, number) \cup {9}

TidyInv == Typed(row) /\ MenuHolds(row, offered)

\* What a message leads to, and the rows that it goes on with.
Tidy == /\ number' = number /\ known' = known
        /\ Typed(row') /\ MenuHolds(row', offered')
Stored(r) == Typed(r) /\ (r = row \/ r.state # "MENU")

LEMMA StatesKnown ==
    DOMAIN Talk!Lifetime = {"CONFIRM", "ADMIN_CHOICE", "ADMIN_CODE", "MENU", "SECRETARY", "ADMIN"}
BY DEF Talk!Lifetime

LEMMA NewTyped ==
    ASSUME NEW state \in {"NEW", "IDLE", "MENU", "SECRETARY", "ADMIN", "ADMIN_CHOICE", "ADMIN_CODE"}, NEW x
    PROVE  /\ Typed(Talk!In(state)) /\ Talk!In(state).state = state
           /\ Typed(Talk!Idle) /\ Talk!Idle.state = "IDLE"
           /\ Typed([Talk!In("MENU") EXCEPT !.menu = x]) /\ [Talk!In("MENU") EXCEPT !.menu = x].menu = x
           /\ [Talk!In("MENU") EXCEPT !.menu = x].state = "MENU"
<1>1. 0 \in 0..(Tries - 1) /\ 0 \in 0..MaxAge
  BY ServicesAssumption, TriesAssumption
<1> QED BY <1>1, StatesKnown DEF Typed, Talk!In, Talk!Idle, Talk!NoOrder

LEMMA SavedTyped ==
    ASSUME NEW r, Typed(r), NEW new, Typed(new)
    PROVE  /\ Typed(Talk!Save(r, new)) /\ Talk!Save(r, new).state = new.state
           /\ Talk!Save(r, new).menu = new.menu
<1>1. 0 \in 0..MaxAge
  BY ServicesAssumption
<1>2. Talk!Save(r, new) = [new EXCEPT !.age = r.age] \/ Talk!Save(r, new) = [new EXCEPT !.age = 0]
  BY DEF Talk!Save
<1> QED BY <1>1, <1>2 DEF Typed

LEMMA SavedStored ==
    ASSUME NEW r, Typed(r), NEW new, Typed(new), new.state # "MENU"
    PROVE  Stored(Talk!Save(r, new))
BY SavedTyped DEF Stored

\* The rows that a message may go on with.
LEMMA FreshStored ==
    ASSUME NEW r, Typed(r)
    PROVE  /\ Stored(Talk!Save(r, Talk!Idle)) /\ Stored(Talk!Save(r, Talk!In("SECRETARY")))
           /\ Stored(Talk!Save(r, Talk!In("ADMIN_CHOICE"))) /\ Stored(Talk!KeepAdmin(r))
           /\ Stored(Talk!LeaveConfirm(r)) /\ Talk!LeaveConfirm(r).state # "MENU"
<1>1. /\ Typed(Talk!Idle) /\ Talk!Idle.state # "MENU"
      /\ Typed(Talk!In("SECRETARY")) /\ Talk!In("SECRETARY").state # "MENU"
      /\ Typed(Talk!In("ADMIN_CHOICE")) /\ Talk!In("ADMIN_CHOICE").state # "MENU"
      /\ Typed(Talk!In("ADMIN")) /\ Talk!In("ADMIN").state # "MENU"
  BY NewTyped
<1>2. Talk!LeaveConfirm(r).state # "MENU"
  BY <1>1, SavedTyped DEF Talk!LeaveConfirm
<1> QED BY <1>1, <1>2, SavedStored DEF Talk!KeepAdmin, Talk!LeaveConfirm

LEMMA SettledTyped ==
    ASSUME NEW r, Typed(r)
    PROVE  /\ Typed(Talk!Settled(r))
           /\ Talk!Settled(r) = r \/ Talk!Settled(r).state = "IDLE"
<1>1. Typed([Talk!Idle EXCEPT !.age = r.age]) /\ [Talk!Idle EXCEPT !.age = r.age].state = "IDLE"
  <2>1. Typed(Talk!Idle) /\ Talk!Idle.state = "IDLE"
    BY NewTyped
  <2> QED BY <2>1 DEF Typed
<1> QED BY <1>1 DEF Talk!Settled

LEMMA AskTyped ==
    ASSUME NEW ask, ask # Talk!NoOrder, NEW resume
    PROVE  /\ Typed([Talk!In("CONFIRM") EXCEPT !.ask = ask, !.resume = resume])
           /\ [Talk!In("CONFIRM") EXCEPT !.ask = ask, !.resume = resume].state = "CONFIRM"
           /\ Typed([Talk!In("CONFIRM") EXCEPT !.ask = ask])
           /\ [Talk!In("CONFIRM") EXCEPT !.ask = ask].state = "CONFIRM"
<1>1. 0 \in 0..(Tries - 1) /\ 0 \in 0..MaxAge
  BY ServicesAssumption, TriesAssumption
<1> QED BY <1>1, StatesKnown DEF Typed, Talk!In

\* Nothing is stored, or what a message goes on with.
LEMMA EndsTidy ==
    ASSUME TidyInv, NEW r, Stored(r), row' = r, offered' = offered, number' = number, known' = known
    PROVE  Tidy
BY DEF TidyInv, Stored, Tidy, MenuHolds

LEMMA AnswersTidy ==
    ASSUME TidyInv, NEW r, Stored(r), Talk!Answered(r) PROVE Tidy
BY EndsTidy DEF Talk!Answered, Talk!End, Talk!Still, Talk!Stay

LEMMA AsksTidy ==
    ASSUME TidyInv, NEW r, Typed(r), NEW ask, ask # Talk!NoOrder, NEW resume, Talk!AskFor(r, ask, resume)
    PROVE  Tidy
<1> DEFINE new == [Talk!In("CONFIRM") EXCEPT !.ask = ask, !.resume = resume]
<1>1. Typed(new) /\ new.state = "CONFIRM"
  BY AskTyped
<1>2. row' = Talk!Save(r, new) /\ offered' = offered /\ number' = number /\ known' = known
  BY DEF Talk!AskFor, Talk!Then, Talk!Stay
<1> HIDE DEF new
<1>3. Stored(Talk!Save(r, new))
  BY <1>1, SavedStored
<1> QED BY <1>2, <1>3, EndsTidy

LEMMA AskedIsOrder ==
    \A a \in Talk!About("ticket") \cup Talk!About("lead") \cup Talk!About("office") \cup Talk!Orders : a # Talk!NoOrder
BY CustomersAsk DEF Talk!NoOrder


LEMMA SupportTidy ==
    ASSUME TidyInv, NEW r, Stored(r), Talk!SupportReply(r) PROVE Tidy
BY AnswersTidy, AsksTidy, AskedIsOrder DEF Talk!SupportReply, Stored

LEMMA CommandTidy ==
    ASSUME TidyInv, NEW r, Stored(r), Talk!CommandReply(r) PROVE Tidy
BY AnswersTidy, SupportTidy, AsksTidy, AskedIsOrder DEF Talk!CommandReply, Stored

LEMMA SecretaryTidy ==
    ASSUME TidyInv, NEW r, Stored(r), Talk!SecretaryMode(r) PROVE Tidy
BY AnswersTidy, AsksTidy, AskedIsOrder DEF Talk!SecretaryMode, Stored

LEMMA SecretaryEntersTidy ==
    ASSUME TidyInv, NEW r, Typed(r), Talk!EnterSecretary(r) PROVE Tidy
BY FreshStored, SecretaryTidy DEF Talk!EnterSecretary

LEMMA MenuTidy ==
    ASSUME TidyInv, NEW r, Typed(r), NEW reply, Fits(reply, Talk!who), Talk!ShowMenu(r, reply) PROVE Tidy
<1> DEFINE new == [Talk!In("MENU") EXCEPT !.menu = reply.state]
<1>1. Typed(new) /\ new.menu = reply.state
  BY NewTyped
<1>2. /\ row' = Talk!Save(r, new) /\ offered' = Talk!Choices(reply, Talk!who)
      /\ number' = number /\ known' = known
  BY DEF Talk!ShowMenu, Talk!End, Talk!Stay
<1> HIDE DEF new
<1>3. Typed(row') /\ row'.menu = reply.state
  BY <1>1, <1>2, SavedTyped
<1>4. reply.state.node \notin Lists => offered' \subseteq OptionsAt(reply.state.node, number) \cup {9}
  <2>1. Talk!Choices(reply, Talk!who) \subseteq OptionsAt(reply.state.node, Talk!who) \cup {9}
    BY ChoicesFit
  <2>2. reply.state.node \notin Lists => OptionsAt(reply.state.node, Talk!who) = OptionsAt(reply.state.node, number)
    BY FixedOptions
  <2> QED BY <1>2, <2>1, <2>2
<1>5. IsTree(reply.state)
  BY DEF Fits
<1>6. \A n : OptionsAt(n, number') = OptionsAt(n, number)
  BY <1>2
<1> QED BY <1>2, <1>3, <1>4, <1>5, <1>6 DEF Tidy, MenuHolds

LEMMA SendTidy ==
    ASSUME TidyInv, NEW r, Stored(r), NEW reply, Fits(reply, Talk!who), Talk!SendMenu(r, reply) PROVE Tidy
<1>1. Typed(r) /\ Stored(Talk!Save(r, Talk!Idle)) /\ Typed(Talk!Save(r, Talk!Idle))
  BY FreshStored DEF Stored
<1> QED BY <1>1, AnswersTidy, SecretaryEntersTidy, CommandTidy, AsksTidy, MenuTidy DEF Talk!SendMenu

LEMMA OldPathsTidy ==
    ASSUME TidyInv, NEW r, Stored(r), NEW m, Talk!OldPaths(r, m) PROVE Tidy
<1>1. Stored(Talk!Save(r, Talk!Idle))
  BY FreshStored DEF Stored
<1>2. Talk!Guest(r, m) => Tidy
  BY <1>1, AnswersTidy, SupportTidy DEF Talk!Guest
<1>3. Talk!Served(r, m) => Tidy
  BY <1>1, AnswersTidy, CommandTidy DEF Talk!Served
<1> QED BY <1>2, <1>3 DEF Talk!OldPaths

LEMMA MenuAnswersTidy ==
    ASSUME TidyInv, NEW r, Stored(r), NEW m, Talk!Menu(r, m) PROVE Tidy
<1> DEFINE s == Talk!Settled(r)
           tree == IF s.state = "MENU" THEN s.menu ELSE Talk!Main
<1>1. Typed(r) /\ Stored(Talk!Save(r, Talk!Idle))
  BY FreshStored DEF Stored
<1>2. IsTree(tree)
  <2>1. CASE s.state = "MENU"
    <3>1. s = r /\ r = row
      BY <1>1, <2>1, SettledTyped DEF Stored
    <3> QED BY <2>1, <3>1 DEF TidyInv, MenuHolds
  <2>2. CASE s.state # "MENU"
    BY <2>2, MainTree
  <2> QED BY <2>1, <2>2
<1>3. Fits(Talk!MenuStart, Talk!who)
  BY PlainFits
<1>4. \/ Talk!OldPaths(r, m) \/ Talk!EnterSecretary(r) \/ Talk!SendMenu(r, Talk!MenuStart)
      \/ Talk!OldPaths(Talk!Save(r, Talk!Idle), m)
      \/ \E reply \in Talk!MenuReplies(tree, m) : Talk!SendMenu(r, reply)
  BY DEF Talk!Menu
<1> HIDE DEF s, tree
<1>5. ASSUME NEW reply \in Talk!MenuReplies(tree, m), Talk!SendMenu(r, reply) PROVE Tidy
  <2>1. Fits(reply, Talk!who)
    BY <1>2, MenuRepliesFit
  <2> QED BY <1>5, <2>1, SendTidy
<1> QED BY <1>1, <1>3, <1>4, <1>5, OldPathsTidy, SecretaryEntersTidy, SendTidy

LEMMA UnaskedTidy ==
    ASSUME TidyInv, NEW r, Stored(r), NEW m, Talk!Unasked(r, m) PROVE Tidy
<1>1. Stored(Talk!Save(r, Talk!Idle)) /\ Typed(Talk!Save(r, Talk!Idle))
  BY FreshStored DEF Stored
<1>2. Fits(Talk!MenuStart, Talk!who)
  BY PlainFits
<1> QED BY <1>1, <1>2, AnswersTidy, SecretaryTidy, MenuTidy, OldPathsTidy, MenuAnswersTidy DEF Talk!Unasked

LEMMA CustomersTidy ==
    ASSUME TidyInv, NEW m, Talk!Customer(m) PROVE Tidy
<1>1. Stored(row) /\ Stored(Talk!LeaveConfirm(row))
  BY FreshStored DEF TidyInv, Stored
<1>2. CASE Talk!Unasked(row, m) \/ Talk!Unasked(Talk!LeaveConfirm(row), m)
  BY <1>1, <1>2, UnaskedTidy
<1>3. CASE /\ row' = Talk!LeaveConfirm(row) /\ offered' = offered /\ number' = number /\ known' = known
  BY <1>1, <1>3, EndsTidy
<1> QED BY <1>2, <1>3 DEF Talk!Customer, Talk!Then, Talk!End, Talk!Still, Talk!Stay


\* What the office stores.
LEMMA HeardTidy ==
    ASSUME TidyInv, NEW r, Stored(r), Talk!Heard(r) PROVE Tidy
BY EndsTidy DEF Talk!Heard, Talk!End, Talk!Stay

LEMMA TurnTidy ==
    ASSUME TidyInv, NEW r, Stored(r), Talk!Turn(r) PROVE Tidy
<1>1. Stored(Talk!KeepAdmin(r))
  BY FreshStored DEF Stored
<1>2. row' \in {r, Talk!KeepAdmin(r)} /\ offered' = offered /\ number' = number /\ known' = known
  BY DEF Talk!Turn, Talk!Stay
<1> QED BY <1>1, <1>2, EndsTidy

LEMMA OfficeTidy ==
    ASSUME TidyInv, NEW m, Talk!Office(m) PROVE Tidy
<1>1. Stored(row) /\ Stored(Talk!KeepAdmin(row))
  BY FreshStored DEF TidyInv, Stored
<1>2. CASE /\ row' = Talk!KeepAdmin(row) /\ offered' = offered /\ number' = number /\ known' = known
  BY <1>1, <1>2, EndsTidy
<1> QED BY <1>1, <1>2, HeardTidy, TurnTidy DEF Talk!Office, Talk!Then, Talk!Still, Talk!Stay

LEMMA CustomerModeTidy ==
    ASSUME TidyInv, Talk!CustomerMode PROVE Tidy
<1> DEFINE new == [Talk!In("MENU") EXCEPT !.menu = Talk!Main]
<1>1. number' = number /\ known' = known /\ Typed(row)
  BY DEF Talk!CustomerMode, Talk!Stay, TidyInv
<1>2. CASE row' = Talk!Save(row, new) /\ offered' = Talk!MainOptions(Talk!who)
  <2>1. Typed(new) /\ new.menu = Talk!Main
    BY NewTyped
  <2> HIDE DEF new
  <2>2. Typed(row') /\ row'.menu = Talk!Main
    BY <1>1, <1>2, <2>1, SavedTyped
  <2> QED BY <1>1, <2>2, MainTree DEF Tidy, MenuHolds, Lists
<1>3. CASE row' = Talk!Save(row, Talk!Idle) /\ offered' = offered
  BY <1>1, <1>3, FreshStored, EndsTidy
<1> QED BY <1>2, <1>3 DEF Talk!CustomerMode

LEMMA CodeStartsTidy ==
    ASSUME TidyInv, NEW m, Talk!StartCode(m) PROVE Tidy
<1> DEFINE code == [Talk!In("ADMIN_CODE") EXCEPT !.resume = m.kind = "admin"]
           linked == [code EXCEPT !.link = links + 1]
<1>1. Typed(code) /\ code.state = "ADMIN_CODE" /\ Typed(linked) /\ linked.state = "ADMIN_CODE"
  <2>1. Typed(Talk!In("ADMIN_CODE")) /\ Talk!In("ADMIN_CODE").state = "ADMIN_CODE"
    BY NewTyped
  <2>2. Typed(code) /\ code.state = "ADMIN_CODE"
    BY <2>1 DEF Typed
  <2> HIDE DEF code
  <2> QED BY <2>2 DEF Typed
<1>2. row' \in {Talk!Save(row, code), Talk!Save(row, linked)} /\ offered' = offered /\ number' = number /\ known' = known
  BY DEF Talk!StartCode, Talk!Still
<1> HIDE DEF code, linked
<1>3. Stored(Talk!Save(row, code)) /\ Stored(Talk!Save(row, linked))
  BY <1>1, SavedStored DEF TidyInv
<1> QED BY <1>2, <1>3, EndsTidy

LEMMA AdminEntersTidy ==
    ASSUME TidyInv, NEW resume, Talk!EnterAdmin(resume), number' = number, known' = known PROVE Tidy
<1>1. Stored(Talk!Save(row, Talk!In("ADMIN")))
  BY FreshStored DEF TidyInv, Talk!KeepAdmin
<1> QED BY <1>1, EndsTidy DEF Talk!EnterAdmin

LEMMA CodeTidy ==
    ASSUME TidyInv, NEW m, Talk!Settled(row).state = "ADMIN_CODE", Talk!CodeAnswer(m, Talk!Settled(row))
    PROVE  Tidy
<1> DEFINE s == Talk!Settled(row)
           tried == [s EXCEPT !.tries = @ + 1]
           left == IF s.tries + 1 >= Tries THEN Talk!Idle ELSE tried
<1>1. Typed(s) /\ s.state = "ADMIN_CODE"
  BY SettledTyped DEF TidyInv
<1>2. Typed(left) /\ left.state # "MENU"
  <2>1. s.tries + 1 < Tries => Typed(tried) /\ tried.state # "MENU"
    <3>1. s.tries \in 0..(Tries - 1) /\ Tries \in Nat
      BY <1>1, TriesAssumption DEF Typed
    <3> HIDE DEF s
    <3> QED BY <1>1, <3>1 DEF Typed
  <2>2. Typed(Talk!Idle) /\ Talk!Idle.state # "MENU"
    BY NewTyped
  <2>3. s.tries + 1 < Tries \/ s.tries + 1 >= Tries
    BY <1>1, TriesAssumption DEF Typed
  <2> HIDE DEF s, tried
  <2> QED BY <2>1, <2>2, <2>3
<1>3. CASE Talk!EnterAdmin(s.resume) /\ Talk!Stay
  BY <1>3, AdminEntersTidy DEF Talk!Stay
<1>4. CASE Talk!Answered(Talk!Save(row, left))
  <2> HIDE DEF left
  <2>1. Stored(Talk!Save(row, left))
    BY <1>2, SavedStored DEF TidyInv
  <2> QED BY <1>4, <2>1, AnswersTidy
<1> QED BY <1>3, <1>4 DEF Talk!CodeAnswer

LEMMA MessagesTidy ==
    ASSUME TidyInv, Talk!Receive PROVE Tidy
<1>1. PICK m \in Talk!Messages : IF number.admin THEN Talk!Gate(m) ELSE Talk!Customer(m)
  BY DEF Talk!Receive
<1>2. Stored(row) /\ Stored(Talk!Save(row, Talk!In("ADMIN_CHOICE")))
  BY FreshStored DEF TidyInv, Stored
<1>3. Talk!Gate(m) => Tidy
  BY <1>2, AnswersTidy, CustomersTidy, OfficeTidy, CustomerModeTidy, CodeStartsTidy, CodeTidy DEF Talk!Gate
<1> QED BY <1>1, <1>3, CustomersTidy

\* The rest of a message, links, and what happens around a chat.
LEMMA RestTidy ==
    ASSUME TidyInv, TalkInv,
           Talk!ReadBack \/ Talk!Propose \/ Talk!Store \/ Talk!CarryOut \/ Talk!MenuAfter \/ Talk!FirstTurn
    PROVE  Tidy
<1>1. Stored(row) /\ Stored(Talk!KeepAdmin(row)) /\ Typed(row)
  BY FreshStored DEF TidyInv, Stored
<1>2. CASE /\ row' \in {row, Talk!KeepAdmin(row)}
           /\ offered' = offered /\ number' = number /\ known' = known
  BY <1>1, <1>2, EndsTidy
<1>3. CASE Talk!Store
  <2> DEFINE new == [Talk!In("CONFIRM") EXCEPT !.ask = todo.ask]
  <2>1. todo.ask # Talk!NoOrder
    BY <1>3 DEF Talk!Store, Talk!Doing, TalkInv, IsWork, Talk!NoOrder
  <2>2. Typed(new) /\ new.state = "CONFIRM"
    BY <2>1, AskTyped
  <2>3. Talk!Answered(Talk!Save(row, new))
    BY <1>3 DEF Talk!Store
  <2> HIDE DEF new
  <2>4. Stored(Talk!Save(row, new))
    BY <1>1, <2>2, SavedStored
  <2> QED BY <2>3, <2>4, AnswersTidy
<1>4. CASE Talk!MenuAfter
  BY <1>1, <1>4, PlainFits, MenuTidy DEF Talk!MenuAfter
<1>5. CASE Talk!FirstTurn
  BY <1>1, <1>5, TurnTidy DEF Talk!FirstTurn
<1> QED BY <1>2, <1>3, <1>4, <1>5 DEF Talk!ReadBack, Talk!Propose, Talk!CarryOut, Talk!Stay

LEMMA LinksTidy ==
    ASSUME TidyInv, Talk!OpenLink \/ Talk!ClaimLink PROVE Tidy
<1> DEFINE s == Talk!Settled(row)
           burnt == [s EXCEPT !.link = 0]
<1>1. Stored(row) /\ Typed(row) /\ number' = number /\ known' = known
  BY DEF TidyInv, Stored, Talk!OpenLink, Talk!ClaimLink
<1>2. CASE row' = row /\ offered' = offered
  BY <1>1, <1>2, EndsTidy
<1>3. CASE s.state = "ADMIN_CODE" /\ row' = Talk!Save(row, burnt) /\ offered' = offered
  <2>1. Typed(burnt) /\ burnt.state # "MENU"
    <3>1. Typed(s) /\ s.state = "ADMIN_CODE"
      BY <1>1, <1>3, SettledTyped
    <3> HIDE DEF s
    <3> QED BY <3>1 DEF Typed
  <2> HIDE DEF burnt
  <2>2. Stored(Talk!Save(row, burnt))
    BY <1>1, <2>1, SavedStored
  <2> QED BY <1>1, <1>3, <2>2, EndsTidy
<1>4. CASE Talk!EnterAdmin(s.resume)
  BY <1>1, <1>4, AdminEntersTidy
<1> QED BY <1>2, <1>3, <1>4 DEF Talk!OpenLink, Talk!ClaimLink, Talk!Still

LEMMA TimeTidy ==
    ASSUME TidyInv, Talk!Later \/ Talk!Restart PROVE Tidy
<1>1. /\ number' = number /\ known' = known /\ offered' = offered
      /\ Typed(row) /\ MenuHolds(row, offered)
  BY DEF Talk!Later, Talk!Restart, Talk!Still, TidyInv
<1>2. CASE row' = row
  BY <1>1, <1>2 DEF Tidy, MenuHolds
<1>3. CASE row' = [row EXCEPT !.age = Talk!Older(@), !.linkAge = Talk!Older(@)]
  <2>1. Talk!Older(row.age) \in 0..MaxAge
    BY <1>1, ServicesAssumption DEF Talk!Older, Typed
  <2>2. Typed(row') /\ row'.state = row.state /\ row'.menu = row.menu
    BY <1>1, <1>3, <2>1 DEF Typed
  <2> QED BY <1>1, <2>2 DEF Tidy, MenuHolds
<1> QED BY <1>2, <1>3 DEF Talk!Later, Talk!Restart

LEMMA ChatTidy ==
    ASSUME TidyInv, TalkInv, Talk!Next PROVE TidyInv'
<1>1. Tidy => TidyInv'
  BY DEF Tidy, TidyInv, MenuHolds
<1>2. Talk!Suspend => TidyInv'
  BY DEF Talk!Suspend, Talk!Still, TidyInv, MenuHolds
<1>3. Talk!Change => TidyInv'
  BY DEF Talk!Change, Talk!Still, TidyInv, MenuHolds
<1> QED BY <1>1, <1>2, <1>3, MessagesTidy, RestTidy, LinksTidy, TimeTidy DEF Talk!Next

LEMMA ChatStartsTidy == Talk!Init => TidyInv
<1> SUFFICES ASSUME Talk!Init PROVE TidyInv
  OBVIOUS
<1>1. Typed(row) /\ row.state = "NEW"
  BY NewTyped DEF Talk!Init
<1> QED BY <1>1 DEF Talk!Init, TidyInv, MenuHolds

TidyPart == part = "chat" => TidyInv

LEMMA TidyHolds == ServicesSpec => []TidyPart
<1>1. ServicesInit => TidyPart
  BY ChatStartsTidy DEF ServicesInit, TidyPart
<1>2. ChatPart /\ TidyPart /\ [ServicesNext]_allVars => TidyPart'
  <2> SUFFICES ASSUME ChatPart, TidyPart, [ServicesNext]_allVars PROVE TidyPart'
    OBVIOUS
  <2>1. CASE part = "chat" /\ Talk!Next /\ UNCHANGED part
    BY <2>1, ChatTidy DEF ChatPart, TidyPart
  <2>2. CASE UNCHANGED <<part, talkVars>>
    BY <2>2 DEF TidyPart, TidyInv, MenuHolds, talkVars
  <2>3. CASE part # "chat" /\ UNCHANGED part
    BY <2>3 DEF TidyPart
  <2> QED BY <2>1, <2>2, <2>3 DEF ServicesNext, allVars
<1> QED BY <1>1, <1>2, ChatPartHolds, PTL DEF ServicesSpec

LEMMA ChatTypes == TidyInv => Talk!TypeOK
BY StatesKnown DEF TidyInv, Typed, Talk!TypeOK

\* A number that the list has no longer: the list as it is now, or the main menu.
LEMMA GoneAnswers ==
    ASSUME NEW s, NEW w, NEW d, Talk!Gone(s, d, w) PROVE Talk!Answer(s, d, w) \subseteq Talk!AsItIsNow(s, w)
<1>1. CASE s.node = "sched_relay"
  BY <1>1 DEF Talk!Gone, Talk!Answer, Talk!RelayChoice, Talk!AsItIsNow
<1>2. CASE s.node = "fault_device"
  <2>1. Talk!Shown(s, w) = Talk!FaultDevice(s, w.devices)
    BY <1>2 DEF Talk!Shown, Talk!FreeNodes
  <2> QED BY <1>2, <2>1 DEF Talk!Gone, Talk!Answer, Talk!AsItIsNow
<1> QED BY <1>1, <1>2 DEF Talk!Gone

LEMMA VanishedAnswers ==
    ASSUME NEW s, NEW w, NEW d, Talk!Vanished(s, d, w) PROVE Talk!DeskChoice(s, d, w) \subseteq Talk!DeskNow(s, w)
<1> DEFINE away == (s.node \in Talk!UserNodes /\ ~w.user) \/ (d = Talk!Back /\ s.node \notin Talk!RelayLists)
<1>1. CASE away
  BY <1>1 DEF Talk!DeskChoice, Talk!DeskNow
<1>2. CASE ~away /\ s.node = "main"
  <2>1. Talk!DeskChoice(s, d, w) = Talk!MainChoices(s, d, w)
    BY <1>2 DEF Talk!DeskChoice, Talk!Asking, Talk!FreeNodes
  <2>2. d \notin Talk!MainOptions(w)
    BY <1>2 DEF Talk!Vanished, Talk!Gone
  <2>3. Talk!MainChoices(s, d, w) = Talk!DeskUnclear(s, w)
    BY <2>2 DEF Talk!MainChoices
  <2> QED BY <2>1, <2>3 DEF Talk!DeskNow
<1>3. CASE ~away /\ s.node \in {"switch_relay", "quick_relay"}
  <2>1. \A next : Talk!Picked(s, d, next, w) \subseteq Talk!DeskNow(s, w)
    BY <1>3 DEF Talk!Vanished, Talk!Gone, Talk!Picked, Talk!DeskNow
  <2>2. Talk!DeskChoice(s, d, w) \in {Talk!Picked(s, d, "switch_action", w), Talk!Picked(s, d, "quick_action", w)}
    BY <1>3 DEF Talk!DeskChoice, Talk!Asking, Talk!FreeNodes
  <2> QED BY <2>1, <2>2
<1>4. CASE ~away /\ s.node = "plans"
  <2>1. Talk!DeskShown(s, w) = {IF w.plans = 0 THEN Talk!Dismissed ELSE Talk!Offer(s, Talk!Numbered(w.plans))}
    BY <1>4 DEF Talk!DeskShown, Talk!Asking
  <2>2. Talk!DeskChoice(s, d, w) = IF w.plans = 0 THEN {Talk!Dismissed} ELSE Talk!DeskUnclear(s, w)
    BY <1>4 DEF Talk!Vanished, Talk!Gone, Talk!DeskChoice, Talk!Asking, Talk!FreeNodes
  <2> QED BY <2>1, <2>2 DEF Talk!DeskNow
<1>5. CASE ~away /\ s.node \in {"sched_relay", "fault_device"}
  <2>1. Talk!DeskShown(s, w) = Talk!Shown(s, w)
    BY <1>5 DEF Talk!DeskShown, Talk!UserNodes, Talk!Asking
  <2>2. Talk!DeskUnclear(s, w) = Talk!NotUnderstood(s, w)
    BY <2>1 DEF Talk!DeskUnclear, Talk!NotUnderstood
  <2>3. Talk!DeskChoice(s, d, w) = Talk!Answer(s, d, w)
    BY <1>5 DEF Talk!DeskChoice, Talk!Asking, Talk!FreeNodes
  <2> QED BY <1>5, <2>1, <2>2, <2>3, GoneAnswers DEF Talk!Vanished, Talk!DeskNow, Talk!AsItIsNow
<1> QED BY <1>1, <1>2, <1>3, <1>4, <1>5 DEF Talk!Vanished, Talk!Gone

LEMMA ChatOffers == TidyInv => Talk!ChoicesAreUnderstood
<1> SUFFICES ASSUME TidyInv, row.state = "MENU", NEW d \in offered
             PROVE  IF Talk!Vanished(row.menu, d, Talk!who)
                    THEN Talk!DeskChoice(row.menu, d, Talk!who) \subseteq Talk!DeskNow(row.menu, Talk!who)
                    ELSE \A r \in Talk!DeskChoice(row.menu, d, Talk!who) : ~r.unclear
  BY DEF Talk!ChoicesAreUnderstood
<1>1. CASE Talk!Vanished(row.menu, d, Talk!who)
  BY <1>1, VanishedAnswers
<1>2. CASE ~Talk!Vanished(row.menu, d, Talk!who)
  <2>1. row.menu.node \in Lists => d \in OptionsAt(row.menu.node, Talk!who)
    BY <1>2, OptionsThere DEF Talk!Vanished, Talk!Gone, Lists
  <2>2. row.menu.node \notin Lists => d \in OptionsAt(row.menu.node, Talk!who) \cup {9}
    BY FixedOptions DEF TidyInv, MenuHolds
  <2>3. \A r \in Talk!DeskChoice(row.menu, d, Talk!who) : Clear(r)
    BY <2>1, <2>2, DeskChoiceClear
  <2> QED BY <1>2, <2>3 DEF Clear
<1> QED BY <1>1, <1>2


-----------------------------------------------------------------------------
(* The tree of the telephone is the service branch of the same tree *)

LEMMA SameWords ==
    /\ Call!Back = Talk!Back /\ Call!Main = Talk!Main /\ Call!Helped = Talk!Helped /\ Call!Steps = Talk!Steps
    /\ Call!FreeNodes = Talk!FreeNodes /\ Call!FaultTicket = Talk!FaultTicket
    /\ Call!MenuStart = Talk!MenuStart /\ Call!Finished = Talk!Finished /\ Call!Ticketed = Talk!Ticketed
    /\ Call!Transferred = Talk!Transferred
    /\ \A n : Call!Node(n) = Talk!Node(n)
    /\ \A s, n : Call!GoTo(s, n) = Talk!GoTo(s, n)
    /\ \A s, options : Call!Offer(s, options) = Talk!Offer(s, options)
    /\ \A s : Call!Words(s) = Talk!Words(s)
    /\ \A n : Call!Numbered(n) = Talk!Numbered(n)
    /\ \A rollout : Call!Agent(rollout) = Talk!Agent(rollout)
BY DEF Call!Back, Talk!Back, Call!Main, Talk!Main, Call!Node, Talk!Node, Call!Nothing, Talk!Nothing,
       Call!Helped, Talk!Helped, Call!Steps, Talk!Steps, Call!FreeNodes, Talk!FreeNodes,
       Call!FaultTicket, Talk!FaultTicket, Call!MenuStart, Talk!MenuStart, Call!Finished, Talk!Finished,
       Call!Ticketed, Talk!Ticketed, Call!Transferred, Talk!Transferred, Call!GoTo, Talk!GoTo,
       Call!Offer, Talk!Offer, Call!NoOrder, Talk!NoOrder, Call!Words, Talk!Words,
       Call!Numbered, Talk!Numbered, Call!Agent, Talk!Agent

LEMMA SameFault ==
    /\ \A s : Call!FaultSteps(s) = Talk!FaultSteps(s)
    /\ \A s : Call!FaultCheck(s) = Talk!FaultCheck(s)
    /\ \A s, n : Call!FaultDevice(s, n) = Talk!FaultDevice(s, n)
<1>1. \A s : Call!FaultSteps(s) = Talk!FaultSteps(s)
  BY SameWords DEF Call!FaultSteps, Talk!FaultSteps
<1>2. \A s : Call!FaultCheck(s) = Talk!FaultCheck(s)
  BY <1>1, SameWords DEF Call!FaultCheck, Talk!FaultCheck
<1>3. \A s, n : Call!FaultDevice(s, n) = Talk!FaultDevice(s, n)
  BY <1>2, SameWords DEF Call!FaultDevice, Talk!FaultDevice
<1> QED BY <1>1, <1>2, <1>3

LEMMA SameShown ==
    ASSUME NEW s, NEW w PROVE Call!Shown(s, w) = Talk!Shown(s, w)
BY SameWords, SameFault DEF Call!Shown, Talk!Shown

LEMMA SameBranches ==
    ASSUME NEW s, NEW d, NEW w
    PROVE  /\ Call!NotUnderstood(s, w) = Talk!NotUnderstood(s, w)
           /\ Call!Assist(s, w) = Talk!Assist(s, w)
           /\ Call!NextStep(s, w) = Talk!NextStep(s, w)
           /\ Call!ServiceChoice(s, d, w) = Talk!ServiceChoice(s, d, w)
           /\ Call!NoDeviceChoice(s, d, w) = Talk!NoDeviceChoice(s, d, w)
           /\ Call!RelayChoice(s, d, w) = Talk!RelayChoice(s, d, w)
<1>1. Call!NotUnderstood(s, w) = Talk!NotUnderstood(s, w)
  BY SameShown DEF Call!NotUnderstood, Talk!NotUnderstood
<1>2. Call!Assist(s, w) = Talk!Assist(s, w)
  BY SameShown, SameWords DEF Call!Assist, Talk!Assist
<1>3. Call!NextStep(s, w) = Talk!NextStep(s, w)
  BY SameShown, SameFault, SameWords DEF Call!NextStep, Talk!NextStep
<1>4. Call!ServiceChoice(s, d, w) = Talk!ServiceChoice(s, d, w)
  BY <1>1, <1>2, SameShown, SameWords DEF Call!ServiceChoice, Talk!ServiceChoice
<1>5. Call!NoDeviceChoice(s, d, w) = Talk!NoDeviceChoice(s, d, w)
  BY <1>1, SameWords DEF Call!NoDeviceChoice, Talk!NoDeviceChoice
<1>6. Call!RelayChoice(s, d, w) = Talk!RelayChoice(s, d, w)
  BY <1>1, SameShown, SameWords DEF Call!RelayChoice, Talk!RelayChoice
<1> QED BY <1>1, <1>2, <1>3, <1>4, <1>5, <1>6

LEMMA SameAnswer ==
    ASSUME NEW s, NEW d, NEW w PROVE Call!Answer(s, d, w) = Talk!Answer(s, d, w)
<1>1. /\ Call!NotUnderstood(s, w) = Talk!NotUnderstood(s, w)
      /\ Call!Assist(s, w) = Talk!Assist(s, w)
      /\ Call!NextStep(s, w) = Talk!NextStep(s, w)
      /\ Call!ServiceChoice(s, d, w) = Talk!ServiceChoice(s, d, w)
      /\ Call!NoDeviceChoice(s, d, w) = Talk!NoDeviceChoice(s, d, w)
      /\ Call!RelayChoice(s, d, w) = Talk!RelayChoice(s, d, w)
  BY SameBranches
<1>2. \A t : Call!Shown(t, w) = Talk!Shown(t, w)
  BY SameShown
<1> QED BY <1>1, <1>2, SameFault, SameWords DEF Call!Answer, Talk!Answer

\* What a number of a list that is gone may be answered by.
LEMMA SameList ==
    ASSUME NEW s, NEW d, NEW w
    PROVE  (Call!Gone(s, d, w) <=> Talk!Gone(s, d, w)) /\ Call!AsItIsNow(s, w) = Talk!AsItIsNow(s, w)
<1>1. Call!Gone(s, d, w) <=> Talk!Gone(s, d, w)
  BY DEF Call!Gone, Talk!Gone, Call!Numbered, Talk!Numbered
<1>2. Call!AsItIsNow(s, w) = Talk!AsItIsNow(s, w)
  BY SameShown, SameBranches, SameWords DEF Call!AsItIsNow, Talk!AsItIsNow
<1> QED BY <1>1, <1>2

LEMMA SameSpoken ==
    ASSUME NEW s, NEW long, NEW w PROVE Call!Spoken(s, long, w) = Talk!Spoken(s, long, w)
BY SameWords DEF Call!Spoken, Talk!Spoken


-----------------------------------------------------------------------------
(* What the telephone reads out leads somewhere *)

\* Where the service branch offers choices.
ServiceNodes ==
    {"service", "no_device", "fault_device", "fault_online_helped", "fault_steps", "fault_offer_ticket",
     "sched_problem", "sched_relay", "order_status_helped", "assistant_offer", "assistant_helped"}
InBranch(r) == r.options # {} => r.state.node \in ServiceNodes

LEMMA PlainInBranch ==
    /\ \A s, options : s.node \in ServiceNodes => InBranch(Talk!Offer(s, options))
    /\ \A s : InBranch(Talk!Words(s))
    /\ InBranch(Talk!MenuStart) /\ InBranch(Talk!Finished) /\ InBranch(Talk!Ticketed) /\ InBranch(Talk!Transferred)
BY DEF InBranch, Talk!Offer, Talk!Words, Talk!MenuStart, Talk!Finished, Talk!Ticketed, Talk!Transferred

LEMMA MarkedInBranch ==
    ASSUME NEW replies, \A r \in replies : InBranch(r) /\ {"state", "options", "unclear"} \subseteq DOMAIN r
    PROVE  \A r \in {[q EXCEPT !.unclear = TRUE] : q \in replies} : InBranch(r)
BY DEF InBranch

LEMMA HelpedInBranch ==
    ASSUME NEW s, IsTree(s)
    PROVE  \A n \in ServiceNodes : \A options :
              InBranch(Talk!Offer(Talk!GoTo(s, n), options)) /\ InBranch(Talk!Offer(Talk!Node(n), options))
<1>1. \A n : Talk!GoTo(s, n).node = n /\ Talk!Node(n).node = n
  BY TreeStates, NewTrees
<1> QED BY <1>1, PlainInBranch

LEMMA FaultInBranch ==
    ASSUME NEW s, IsTree(s), NEW w
    PROVE  /\ \A r \in Talk!FaultSteps(s) : InBranch(r)
           /\ \A r \in Talk!FaultCheck(s) : InBranch(r)
           /\ s.node = "fault_device" => \A r \in Talk!FaultDevice(s, w.devices) : InBranch(r)
           /\ \A r \in Talk!FaultTicket : InBranch(r)
           /\ \A r \in Talk!Agent(w.rollout) : InBranch(r)
<1>0. "fault_steps" \in ServiceNodes /\ "fault_online_helped" \in ServiceNodes /\ "no_device" \in ServiceNodes
      /\ "fault_device" \in ServiceNodes
  BY DEF ServiceNodes
<1>1. ASSUME NEW q, IsTree(q) PROVE \A r \in Talk!FaultSteps(q) : InBranch(r)
  BY <1>0, <1>1, HelpedInBranch, PlainInBranch DEF Talk!FaultSteps
<1>2. IsTree([s EXCEPT !.step = 0])
  BY AboutTrees
<1>3. \A r \in Talk!FaultCheck(s) : InBranch(r)
  BY <1>0, <1>1, <1>2, HelpedInBranch DEF Talk!FaultCheck
<1>4. s.node = "fault_device" => \A r \in Talk!FaultDevice(s, w.devices) : InBranch(r)
  BY <1>0, <1>3, HelpedInBranch, PlainInBranch DEF Talk!FaultDevice
<1>5. (\A r \in Talk!FaultTicket : InBranch(r)) /\ \A r \in Talk!Agent(w.rollout) : InBranch(r)
  BY PlainInBranch DEF Talk!FaultTicket, Talk!Agent
<1> QED BY <1>1, <1>3, <1>4, <1>5

LEMMA ShownInBranch ==
    ASSUME NEW s, IsTree(s), NEW w
    PROVE  /\ \A r \in Talk!Shown(s, w) : InBranch(r)
           /\ \A r \in Talk!NotUnderstood(s, w) : InBranch(r)
<1>1. s.node \in ServiceNodes => \A options : InBranch(Talk!Offer(s, options))
  BY PlainInBranch
<1>2. \A options : InBranch(Talk!Offer(Talk!GoTo(s, "order_status_helped"), options))
  BY HelpedInBranch DEF ServiceNodes
<1>3. \A r \in Talk!Shown(s, w) : InBranch(r)
  BY <1>1, <1>2, FaultInBranch, PlainInBranch DEF Talk!Shown, ServiceNodes
<1>4. \A r \in Talk!Shown(s, w) : {"state", "options", "unclear"} \subseteq DOMAIN r
  BY ShownFits DEF Fits
<1> QED BY <1>3, <1>4, MarkedInBranch DEF Talk!NotUnderstood

LEMMA AnswerInBranch ==
    ASSUME NEW s, IsTree(s), NEW w, NEW d PROVE \A r \in Talk!Answer(s, d, w) : InBranch(r)
<1>1. \A n : \A r \in Talk!Shown(Talk!GoTo(s, n), w) : InBranch(r)
  BY TreeStates, ShownInBranch
<1>2. (\A r \in Talk!NotUnderstood(s, w) : InBranch(r)) /\ (\A r \in Talk!Shown(s, w) : InBranch(r))
  BY ShownInBranch
<1>3. \A r \in Talk!Assist(s, w) : InBranch(r)
  BY <1>1 DEF Talk!Assist
<1>4. \A r \in Talk!NextStep(s, w) : InBranch(r)
  <2>1. IsTree([s EXCEPT !.step = @ + 1])
    BY DEF IsTree
  <2>2. \A r \in Talk!FaultSteps([s EXCEPT !.step = @ + 1]) : InBranch(r)
    BY <2>1, FaultInBranch
  <2> QED BY <1>1, <2>2, PlainInBranch DEF Talk!NextStep
<1>5. \A r \in Talk!ServiceChoice(s, d, w) : InBranch(r)
  BY <1>1, <1>2, <1>3 DEF Talk!ServiceChoice
<1>6. \A r \in Talk!NoDeviceChoice(s, d, w) : InBranch(r)
  BY <1>2, FaultInBranch DEF Talk!NoDeviceChoice
<1>7. \A r \in Talk!RelayChoice(s, d, w) : InBranch(r)
  BY <1>2, PlainInBranch DEF Talk!RelayChoice
<1> QED
  BY <1>1, <1>2, <1>3, <1>4, <1>5, <1>6, <1>7, FaultInBranch, PlainInBranch DEF Talk!Answer

LEMMA SpokenInBranch ==
    ASSUME NEW s, IsTree(s), NEW w, NEW long PROVE \A r \in Talk!Spoken(s, long, w) : InBranch(r)
<1>1. \A options : InBranch(Talk!Offer(Talk!GoTo(s, "assistant_helped"), options))
  BY HelpedInBranch DEF ServiceNodes
<1> QED BY <1>1, PlainInBranch DEF Talk!Spoken

\* A reply that is not just the main menu.
Leading(r) == r.done \/ r.free \/ r.options # {}

LEMMA PlainLeads ==
    /\ \A s, options : options # {} => Leading(Talk!Offer(s, options))
    /\ \A s : Leading(Talk!Words(s))
    /\ Leading(Talk!Finished) /\ Leading(Talk!Ticketed) /\ Leading(Talk!Transferred)
    /\ ~Leading(Talk!MenuStart)
BY DEF Leading, Talk!Offer, Talk!Words, Talk!Finished, Talk!Ticketed, Talk!Transferred, Talk!MenuStart

\* A list of n choices is not empty, and 9 is not among them.
LEMMA NumberedLists ==
    ASSUME NEW n \in Nat
    PROVE  9 \notin Talk!Numbered(n) /\ (n # 0 => Talk!Numbered(n) # {})
<1>1. 9 \notin Talk!Numbered(n)
  BY DEF Talk!Numbered
<1>2. n # 0 => 1 \in Talk!Numbered(n)
  <2>1. n # 0 => 1 \in 1..n
    OBVIOUS
  <2> QED BY <2>1 DEF Talk!Numbered
<1> QED BY <1>1, <1>2

LEMMA FaultLeads ==
    ASSUME NEW s, NEW w, w.devices \in Nat
    PROVE  /\ \E r \in Talk!FaultCheck(s) : Leading(r)
           /\ \E r \in Talk!FaultDevice(s, w.devices) : Leading(r)
           /\ \E r \in Talk!FaultTicket : Leading(r)
           /\ \E r \in Talk!Agent(w.rollout) : Leading(r)
<1>1. \E r \in Talk!FaultCheck(s) : Leading(r)
  BY PlainLeads DEF Talk!FaultCheck, Talk!Helped
<1>2. w.devices # 0 => Talk!Numbered(w.devices) # {}
  BY NumberedLists
<1>3. \E r \in Talk!FaultDevice(s, w.devices) : Leading(r)
  BY <1>1, <1>2, PlainLeads DEF Talk!FaultDevice
<1>4. (\E r \in Talk!FaultTicket : Leading(r)) /\ \E r \in Talk!Agent(w.rollout) : Leading(r)
  BY PlainLeads DEF Talk!FaultTicket, Talk!Agent
<1> QED BY <1>1, <1>3, <1>4


LEMMA ServiceLeads ==
    ASSUME NEW s, IsTree(s), NEW w, w.devices \in Nat
    PROVE  /\ \E r \in Talk!Assist(s, w) : Leading(r)
           /\ \E r \in Talk!NextStep(s, w) : Leading(r)
           /\ \E r \in Talk!Shown(Talk!GoTo(s, "sched_relay"), w) : Leading(r)
           /\ \A d \in 1..5 : \E r \in Talk!ServiceChoice(s, d, w) : Leading(r)
           /\ \E r \in Talk!NoDeviceChoice(s, 0, w) : Leading(r)
           /\ \A d \in w.codes : \E r \in Talk!RelayChoice(s, d, w) : Leading(r)
<1>0. \A n : Talk!GoTo(s, n).node = n
  BY TreeStates
<1>1. \E r \in Talk!Assist(s, w) : Leading(r)
  <2>1. Talk!Shown(Talk!GoTo(s, "assistant_offer"), w) = {Talk!Offer(Talk!GoTo(s, "assistant_offer"), Talk!Helped)}
    BY <1>0 DEF Talk!Shown, Talk!FreeNodes
  <2> QED BY <2>1, PlainLeads DEF Talk!Assist, Talk!Helped
<1>2. \E r \in Talk!NextStep(s, w) : Leading(r)
  BY PlainLeads DEF Talk!NextStep
<1>3. \E r \in Talk!Shown(Talk!GoTo(s, "sched_relay"), w) : Leading(r)
  BY <1>0, PlainLeads DEF Talk!Shown
<1>4. ASSUME NEW d \in 1..5 PROVE \E r \in Talk!ServiceChoice(s, d, w) : Leading(r)
  <2>1. \E r \in Talk!Shown(Talk!GoTo(s, "fault_device"), w) : Leading(r)
    <3>1. \A t : \E r \in Talk!FaultDevice(t, w.devices) : Leading(r)
      BY FaultLeads
    <3>2. Talk!Shown(Talk!GoTo(s, "fault_device"), w) = Talk!FaultDevice(Talk!GoTo(s, "fault_device"), w.devices)
      BY <1>0 DEF Talk!Shown, Talk!FreeNodes
    <3> QED BY <3>1, <3>2
  <2>2. \E r \in Talk!Shown(Talk!GoTo(s, "sched_problem"), w) : Leading(r)
    BY <1>0, PlainLeads DEF Talk!Shown
  <2>3. \E r \in Talk!Shown(Talk!GoTo(s, "order_status"), w) : Leading(r)
    BY <1>0, PlainLeads DEF Talk!Shown
  <2>4. \E r \in Talk!Shown(Talk!GoTo(s, "feature"), w) : Leading(r)
    BY <1>0, PlainLeads DEF Talk!Shown, Talk!FreeNodes
  <2> QED BY <1>1, <2>1, <2>2, <2>3, <2>4 DEF Talk!ServiceChoice
<1>5. \E r \in Talk!NoDeviceChoice(s, 0, w) : Leading(r)
  BY FaultLeads DEF Talk!NoDeviceChoice
<1>6. ASSUME NEW d \in w.codes PROVE \E r \in Talk!RelayChoice(s, d, w) : Leading(r)
  BY <1>6, PlainLeads DEF Talk!RelayChoice
<1> QED BY <1>1, <1>2, <1>3, <1>4, <1>5, <1>6

LEMMA AnswerLeads ==
    ASSUME NEW s, IsTree(s), s.node \in ServiceNodes, NEW w, w.devices \in Nat,
           NEW d \in OptionsAt(s.node, w)
    PROVE  \E r \in Talk!Answer(s, d, w) : Leading(r)
<1>0. 9 \notin Talk!Numbered(w.devices)
  BY NumberedLists
<1>1. CASE s.node = "service"
  <2>1. d \in 1..5
    BY <1>1, OptionsThere
  <2>2. Talk!Answer(s, d, w) = Talk!ServiceChoice(s, d, w)
    BY <1>1, <2>1 DEF Talk!Answer, Talk!Back
  <2> QED BY <2>1, <2>2, ServiceLeads
<1>2. CASE s.node = "no_device"
  <2>1. d = 0
    BY <1>2, OptionsThere
  <2>2. Talk!Answer(s, d, w) = Talk!NoDeviceChoice(s, 0, w)
    BY <1>2, <2>1 DEF Talk!Answer, Talk!Back
  <2> QED BY <2>2, ServiceLeads
<1>3. CASE s.node = "fault_device"
  <2>1. d \in Talk!Numbered(w.devices)
    BY <1>3, OptionsThere
  <2>2. Talk!Answer(s, d, w) \in {Talk!FaultDevice(s, w.devices), Talk!FaultCheck(s)}
    BY <1>0, <1>3, <2>1 DEF Talk!Answer, Talk!Back
  <2> QED BY <2>2, FaultLeads
<1>4. CASE s.node \in {"fault_online_helped", "order_status_helped", "assistant_offer", "assistant_helped"}
  <2>1. d \in {1, 2}
    BY <1>4, OptionsThere
  <2> QED BY <1>4, <2>1, PlainLeads, ServiceLeads DEF Talk!Answer, Talk!Back
<1>5. CASE s.node = "fault_steps"
  <2>1. d \in {0, 1}
    BY <1>5, OptionsThere
  <2> QED BY <1>5, <2>1, FaultLeads, ServiceLeads DEF Talk!Answer, Talk!Back
<1>6. CASE s.node = "fault_offer_ticket"
  <2>1. d = 1
    BY <1>6, OptionsThere
  <2> QED BY <1>6, <2>1, FaultLeads DEF Talk!Answer, Talk!Back
<1>7. CASE s.node = "sched_problem"
  <2>1. d \in 1..3
    BY <1>7, OptionsThere
  <2> QED BY <1>7, <2>1, ServiceLeads DEF Talk!Answer, Talk!Back
<1>8. CASE s.node = "sched_relay"
  <2>1. d \in w.codes
    BY <1>8, OptionsThere
  <2>2. Talk!Answer(s, d, w) = Talk!RelayChoice(s, d, w)
    BY <1>8 DEF Talk!Answer
  <2> QED BY <2>1, <2>2, ServiceLeads
<1> QED BY <1>1, <1>2, <1>3, <1>4, <1>5, <1>6, <1>7, <1>8 DEF ServiceNodes

\* What the telephone may offer, and what it does with an answer.
LEMMA TelephoneAnswers ==
    ASSUME NEW s, IsTree(s), s.node \in ServiceNodes, NEW w, w.devices \in Nat,
           NEW d \in OptionsAt(s.node, w)
    PROVE  (\A r \in Call!Answer(s, d, w) : ~r.unclear) /\ Call!Answer(s, d, w) # {Call!MenuStart}
<1>1. \A r \in Talk!Answer(s, d, w) : Clear(r)
  BY AnswerClear
<1>2. Talk!Answer(s, d, w) # {Talk!MenuStart}
  BY AnswerLeads, PlainLeads
<1> QED BY <1>1, <1>2, SameAnswer, SameWords DEF Clear


-----------------------------------------------------------------------------
(* The list of schedules that is read *)

LEMMA ListIsSequence ==
    ASSUME IsFiniteSet(scheds)
    PROVE  Len(Call!Listed) \in Nat /\ (Call!Listed # <<>> => Len(Call!Listed) > 0)
<1> DEFINE n == Cardinality(scheds)
<1>1. n \in Nat /\ Call!Cardinality(scheds) = n
  BY FS_CardinalityType, SameCardinality
<1>2. \E f : Call!Listed = [i \in 1..n |-> f[i]]
  <2> DEFINE Nth(i) == CHOOSE s \in scheds : Call!Cardinality({t \in scheds : t < s}) = i - 1
             f == [i \in 1..n |-> Nth(i)]
  <2>1. Call!Listed = f
    BY <1>1 DEF Call!Listed
  <2>2. f = [i \in 1..n |-> f[i]]
    <3> HIDE DEF Nth, n
    <3> QED OBVIOUS
  <2> HIDE DEF f
  <2> QED BY <2>1, <2>2
<1> HIDE DEF n
<1>3. Len(Call!Listed) = n /\ (n = 0 => Call!Listed = <<>>)
  BY <1>1, <1>2
<1> QED BY <1>1, <1>3


-----------------------------------------------------------------------------
(* A call keeps its session, its row and its schedules in form *)

CallParts == {"state", "invalid", "retries", "list", "idx", "tree", "offered"}
Outcomes  == {"auth_fail", "status", "voicemail", "abandoned", "agent", "info", "command", "schedule"}

\* A session: the place in the list exists, and what was offered at the service
\* desk belongs to the node that the caller is at, unless the node lists what the
\* account had then.
Neat(s) ==
    /\ CallParts \subseteq DOMAIN s
    /\ s.state \in Call!States /\ s.invalid \in 0..(Tries - 1) /\ s.retries \in 0..Replays
    /\ s.idx \in Nat /\ Len(s.list) \in Nat
    /\ s.state = "SCHED_BROWSE" /\ s.list # <<>> => s.idx < Len(s.list)
    /\ s.state \in {"SVC_MENU", "SVC_VOICE"} => IsTree(s.tree)
    /\ s.state = "SVC_MENU" =>
          /\ s.tree.node \in ServiceNodes
          /\ s.tree.node \notin Lists => s.offered \subseteq OptionsAt(s.tree.node, caller)

\* A row: it has an outcome when it is closed, and only then.
IsRow(x) == x # None => x.outcome \in Outcomes \cup {None} /\ (x.ended <=> x.outcome # None)

CallTidy ==
    /\ caller \in Callers
    /\ sess # None => Neat(sess)
    /\ step \in {None, "voicemail", "command", "failed", "deleted", "saved"}
    /\ IsRow(log)
    /\ enabled \subseteq Relays /\ units \in Nat
    /\ nextId \in Nat \ {0} /\ scheds \subseteq 1..(nextId - 1)

LEMMA SchedulesAreFinite == ASSUME CallTidy PROVE IsFiniteSet(scheds)
<1>1. IsFiniteSet(1..(nextId - 1))
  BY FS_Interval DEF CallTidy
<1> QED BY <1>1, FS_Subset DEF CallTidy

LEMMA OutcomeIsRow == ASSUME CallTidy, NEW o \in Outcomes PROVE IsRow(Call!Outcome(o))
BY CallAssumption DEF CallTidy, IsRow, Call!Outcome, Outcomes

\* Before the service desk and outside the list any session is neat.
LEMMA NewIsNeat ==
    ASSUME NEW state \in {"MAIN", "AUTH_PIN", "SALES_MENU"}
    PROVE  Neat(Call!NewSession(state))
<1> DEFINE s == Call!NewSession(state)
<1>1. CallParts \subseteq DOMAIN s
  BY DEF CallParts, Call!NewSession
<1>2. /\ s.state = state /\ s.invalid = 0 /\ s.retries = 0 /\ s.idx = 0 /\ s.list = <<>>
  BY DEF Call!NewSession
<1>3. Len(s.list) = 0
  BY <1>2
<1>4. 0 \in 0..(Tries - 1) /\ 0 \in 0..Replays
  BY TriesAssumption
<1>5. s.state \in Call!States /\ s.state \notin {"SCHED_BROWSE", "SVC_MENU", "SVC_VOICE"}
  BY <1>2 DEF Call!States
<1> HIDE DEF s
<1>6. Neat(s)
  BY <1>1, <1>2, <1>3, <1>4, <1>5 DEF Neat
<1> QED BY <1>6 DEF s

LEMMA MainIsNeat == ASSUME NEW s PROVE Neat(Call!AtMain(s))
<1> DEFINE e == [s.entry EXCEPT !.type = None, !.sides = None, !.relay = None]
           n == Call!NewSession("MAIN")
<1>1. Neat(n) /\ n.state = "MAIN"
  BY NewIsNeat DEF Call!NewSession
<1>2. Call!AtMain(s) = [n EXCEPT !.entry = e]
  BY DEF Call!AtMain
<1> HIDE DEF e, n
<1>3. CallParts \subseteq DOMAIN [n EXCEPT !.entry = e]
  BY <1>1 DEF Neat
<1>4. \A f \in CallParts : [n EXCEPT !.entry = e][f] = n[f]
  BY <1>1 DEF Neat, CallParts
<1> QED BY <1>1, <1>2, <1>3, <1>4 DEF Neat, CallParts

\* Wherever the session goes, other than to the list or to the service desk.
LEMMA ElsewhereIsNeat ==
    ASSUME NEW s, Neat(s), NEW t, CallParts \subseteq DOMAIN t,
           t.state \in Call!States \ {"SCHED_BROWSE", "SVC_MENU", "SVC_VOICE"},
           t.invalid \in {0, s.invalid}, t.retries \in 0..Replays, t.list = s.list, t.idx = s.idx
    PROVE  Neat(t)
BY TriesAssumption DEF Neat

LEMMA StateIsNeat ==
    ASSUME NEW s, Neat(s), NEW state \in Call!States \ {"SCHED_BROWSE", "SVC_MENU", "SVC_VOICE"}
    PROVE  Neat([s EXCEPT !.state = state]) /\ Neat([s EXCEPT !.state = state, !.invalid = 0])
<1>1. Neat([s EXCEPT !.state = state])
  <2> DEFINE t == [s EXCEPT !.state = state]
  <2>1. /\ CallParts \subseteq DOMAIN t /\ t.state = state /\ t.invalid = s.invalid /\ t.retries = s.retries
        /\ t.list = s.list /\ t.idx = s.idx
    BY DEF Neat, CallParts
  <2> HIDE DEF t
  <2>2. Neat(t)
    BY <2>1, ElsewhereIsNeat DEF Neat
  <2> QED BY <2>2 DEF t
<1>2. Neat([s EXCEPT !.state = state, !.invalid = 0])
  <2> DEFINE t == [s EXCEPT !.state = state, !.invalid = 0]
  <2>1. /\ CallParts \subseteq DOMAIN t /\ t.state = state /\ t.invalid = 0 /\ t.retries = s.retries
        /\ t.list = s.list /\ t.idx = s.idx
    BY DEF Neat, CallParts
  <2> HIDE DEF t
  <2>2. Neat(t)
    BY <2>1, ElsewhereIsNeat DEF Neat
  <2> QED BY <2>2 DEF t
<1> QED BY <1>1, <1>2

\* A change of what is not in CallParts.
LEMMA RestIsNeat ==
    ASSUME NEW s, Neat(s), NEW t, CallParts \subseteq DOMAIN t, \A f \in CallParts : t[f] = s[f]
    PROVE  Neat(t)
BY DEF Neat, CallParts

LEMMA AgainIsNeat ==
    ASSUME NEW s, Neat(s)
    PROVE  /\ s.invalid + 1 < Tries => Neat([s EXCEPT !.invalid = @ + 1])
           /\ s.retries < Replays => Neat([s EXCEPT !.retries = @ + 1])
<1>1. ASSUME s.invalid + 1 < Tries PROVE Neat([s EXCEPT !.invalid = @ + 1])
  <2> DEFINE t == [s EXCEPT !.invalid = @ + 1]
  <2>1. /\ CallParts \subseteq DOMAIN t /\ t.invalid = s.invalid + 1
        /\ \A f \in CallParts \ {"invalid"} : t[f] = s[f]
    BY DEF Neat, CallParts
  <2>2. t.invalid \in 0..(Tries - 1)
    BY <1>1, <2>1, TriesAssumption DEF Neat
  <2> HIDE DEF t
  <2>3. Neat(t)
    BY <2>1, <2>2 DEF Neat, CallParts
  <2> QED BY <2>3 DEF t
<1>2. ASSUME s.retries < Replays PROVE Neat([s EXCEPT !.retries = @ + 1])
  <2> DEFINE t == [s EXCEPT !.retries = @ + 1]
  <2>1. /\ CallParts \subseteq DOMAIN t /\ t.retries = s.retries + 1
        /\ \A f \in CallParts \ {"retries"} : t[f] = s[f]
    BY DEF Neat, CallParts
  <2>2. t.retries \in 0..Replays
    BY <1>2, <2>1, TriesAssumption DEF Neat
  <2> HIDE DEF t
  <2>3. Neat(t)
    BY <2>1, <2>2 DEF Neat, CallParts
  <2> QED BY <2>3 DEF t
<1> QED BY <1>1, <1>2

\* The list is read again, and the place in it exists.
LEMMA BrowseIsNeat == ASSUME CallTidy, NEW s, Neat(s) PROVE Neat(Call!Browse(s))
<1> DEFINE l == Call!Listed
           i == IF s.idx < Len(l) THEN s.idx ELSE 0
           t == [s EXCEPT !.state = "SCHED_BROWSE", !.invalid = 0, !.list = l, !.idx = i]
<1>1. Call!Browse(s) = t
  BY DEF Call!Browse
<1>2. Len(l) \in Nat /\ (l # <<>> => Len(l) > 0)
  BY SchedulesAreFinite, ListIsSequence
<1> HIDE DEF l
<1>3. i \in Nat /\ (l # <<>> => i < Len(l))
  BY <1>2 DEF Neat
<1> HIDE DEF i
<1>4. /\ CallParts \subseteq DOMAIN t /\ t.state = "SCHED_BROWSE" /\ t.invalid = 0 /\ t.list = l /\ t.idx = i
      /\ t.retries = s.retries
  BY DEF Neat, CallParts
<1>5. 0 \in 0..(Tries - 1)
  BY TriesAssumption
<1> HIDE DEF t
<1>6. Neat(t)
  BY <1>2, <1>3, <1>4, <1>5 DEF Neat, Call!States
<1> QED BY <1>1, <1>6


\* What a request leaves behind.
Open == CallTidy /\ sess # None

LEMMA AskIsTidy ==
    ASSUME CallTidy, NEW s, Neat(s), Call!Ask(s), Call!KeepAll PROVE CallTidy'
<1>1. /\ sess' = s /\ IsRow(log)' /\ UNCHANGED <<caller, step, enabled, units, scheds, nextId>>
  BY DEF Call!Ask, Call!KeepAll, Call!account, CallTidy, IsRow
<1>2. Neat(sess)'
  BY <1>1 DEF Neat
<1> QED BY <1>1, <1>2 DEF CallTidy

LEMMA PromptIsTidy == ASSUME CallTidy, NEW s, Neat(s), Call!Prompt(s) PROVE CallTidy'
BY AskIsTidy DEF Call!Prompt, Call!Keep

LEMMA MainMenuIsTidy == ASSUME CallTidy, NEW s, Call!MainMenu(s) PROVE CallTidy'
<1>1. Neat(Call!AtMain(s))
  BY MainIsNeat
<1> QED BY <1>1, AskIsTidy DEF Call!MainMenu

LEMMA HangUpIsTidy == ASSUME CallTidy, NEW o \in Outcomes, Call!HangUpWith(o) PROVE CallTidy'
<1>1. sess' = None /\ log' = Call!Outcome(o) /\ UNCHANGED <<caller, step, enabled, units, scheds, nextId>>
  BY DEF Call!HangUpWith, Call!Keep, Call!KeepAll, Call!account
<1>2. IsRow(log)'
  BY <1>1, OutcomeIsRow DEF IsRow
<1> QED BY <1>1, <1>2 DEF CallTidy

LEMMA AgainIsTidy ==
    ASSUME Open
    PROVE  /\ sess.invalid + 1 < Tries /\ Call!Prompt([sess EXCEPT !.invalid = @ + 1]) => CallTidy'
           /\ sess.retries < Replays /\ Call!Prompt([sess EXCEPT !.retries = @ + 1]) => CallTidy'
<1>1. Neat(sess)
  BY DEF Open, CallTidy
<1>2. sess.invalid + 1 < Tries => Neat([sess EXCEPT !.invalid = @ + 1])
  BY <1>1, AgainIsNeat
<1>3. sess.retries < Replays => Neat([sess EXCEPT !.retries = @ + 1])
  BY <1>1, AgainIsNeat
<1> QED BY <1>2, <1>3, PromptIsTidy DEF Open

LEMMA FewerTries == ASSUME Open, ~(sess.invalid + 1 >= Tries) PROVE sess.invalid + 1 < Tries
BY TriesAssumption DEF Open, CallTidy, Neat

LEMMA InvalidIsTidy == ASSUME Open, Call!Invalid PROVE CallTidy'
BY HangUpIsTidy, AgainIsTidy, FewerTries DEF Call!Invalid, Outcomes, Open

\* The session goes to another state, and that is all.
LEMMA MoveIsTidy ==
    ASSUME Open, NEW state \in Call!States \ {"SCHED_BROWSE", "SVC_MENU", "SVC_VOICE"},
           Call!Prompt(Call!RecordMessage(sess, state))
    PROVE  CallTidy'
<1>1. Neat(Call!RecordMessage(sess, state))
  BY StateIsNeat DEF Call!RecordMessage, Open, CallTidy
<1> QED BY <1>1, PromptIsTidy DEF Open

LEMMA ReadingIsTidy ==
    ASSUME CallTidy, NEW s, Neat(s), Call!ReadSchedule(Call!Browse(s)) PROVE CallTidy'
<1>1. Neat(Call!Browse(s))
  BY BrowseIsNeat
<1> QED BY <1>1, AskIsTidy DEF Call!ReadSchedule

LEMMA CarryIsTidy ==
    ASSUME CallTidy, NEW effects, NEW rest \in {"command", "failed", "deleted", "saved"},
           Call!CarryOut(effects, rest), enabled' = enabled, units' = units,
           nextId' \in Nat \ {0}, scheds' \subseteq 1..(nextId' - 1)
    PROVE  CallTidy'
<1>1. step' = rest /\ UNCHANGED <<caller, sess, log>>
  BY DEF Call!CarryOut
<1>2. (sess # None => Neat(sess))' /\ IsRow(log)'
  BY <1>1 DEF CallTidy, Neat, IsRow
<1> QED BY <1>1, <1>2 DEF CallTidy

LEMMA ImmediateIsTidy ==
    ASSUME CallTidy, NEW relay, NEW action, Call!RunImmediate(relay, action) PROVE CallTidy'
<1>1. Call!CarryOut({Call!Switch(relay, action)}, "command") /\ UNCHANGED <<enabled, units, scheds, nextId>>
  BY DEF Call!RunImmediate, Call!account
<1>2. nextId' \in Nat \ {0} /\ scheds' \subseteq 1..(nextId' - 1)
  BY <1>1 DEF CallTidy
<1> HIDE DEF CallTidy
<1> QED BY <1>1, <1>2, CarryIsTidy

LEMMA RelayMenuIsTidy == ASSUME Open, NEW ctx, Call!RelayMenu(sess, ctx) PROVE CallTidy'
<1>1. CASE Call!HangUpWith("abandoned")
  BY <1>1, HangUpIsTidy DEF Open, Outcomes
<1>2. CASE \E r \in enabled : Call!RunImmediate(r, ctx)
  BY <1>2, ImmediateIsTidy DEF Open
<1>3. CASE Call!Prompt([sess EXCEPT !.ctx = ctx, !.state = "RELAY_SELECT"])
  <2> DEFINE t == [sess EXCEPT !.ctx = ctx, !.state = "RELAY_SELECT"]
  <2>1. Neat(sess)
    BY DEF Open, CallTidy
  <2>2. /\ CallParts \subseteq DOMAIN t /\ t.state = "RELAY_SELECT"
        /\ t.invalid = sess.invalid /\ t.retries = sess.retries /\ t.list = sess.list /\ t.idx = sess.idx
    BY <2>1 DEF Neat, CallParts
  <2>3. Call!Prompt(t)
    BY <1>3
  <2> HIDE DEF t
  <2>4. Neat(t)
    BY <2>1, <2>2, ElsewhereIsNeat DEF Neat, Call!States
  <2> QED BY <2>3, <2>4, PromptIsTidy DEF Open
<1> QED BY <1>1, <1>2, <1>3 DEF Call!RelayMenu

LEMMA RequestIsOpen ==
    ASSUME CallTidy, NEW state, Call!Request(state) PROVE Open /\ sess.state = state /\ Neat(sess)
BY DEF Call!Request, Open, CallTidy

-----------------------------------------------------------------------------
(* The menus *)

LEMMA AuthPinIsTidy == ASSUME CallTidy, Call!AuthPin PROVE CallTidy'
<1>1. Open
  BY RequestIsOpen DEF Call!AuthPin
<1>2. Call!HangUpWith("auth_fail") => CallTidy'
  BY HangUpIsTidy DEF Outcomes
<1> QED BY <1>1, <1>2, MainMenuIsTidy, AgainIsTidy, FewerTries DEF Call!AuthPin

LEMMA SalesIsTidy == ASSUME CallTidy, Call!Sales PROVE CallTidy'
<1>1. ASSUME Call!SalesMenu PROVE CallTidy'
  <2>1. Open /\ Neat(sess)
    BY <1>1, RequestIsOpen DEF Call!SalesMenu
  <2>2. CASE Call!Prompt([sess EXCEPT !.state = "SALES_INFO", !.invalid = 0, !.info = TRUE])
    <3> DEFINE t == [sess EXCEPT !.state = "SALES_INFO", !.invalid = 0, !.info = TRUE]
    <3>1. /\ CallParts \subseteq DOMAIN t /\ t.state = "SALES_INFO"
          /\ t.invalid = 0 /\ t.retries = sess.retries /\ t.list = sess.list /\ t.idx = sess.idx
      BY <2>1 DEF Neat, CallParts
    <3>2. Call!Prompt(t)
      BY <2>2
    <3> HIDE DEF t
    <3>3. Neat(t)
      BY <2>1, <3>1, ElsewhereIsNeat DEF Neat, Call!States
    <3> QED BY <3>2, <3>3, PromptIsTidy
  <2>3. Call!Prompt(Call!RecordMessage(sess, "SALES_RECORD")) => CallTidy'
    BY <2>1, MoveIsTidy DEF Call!States
  <2> QED BY <1>1, <2>1, <2>2, <2>3, InvalidIsTidy DEF Call!SalesMenu
<1>2. ASSUME Call!SalesInfo PROVE CallTidy'
  <2>1. Open
    BY <1>2, RequestIsOpen DEF Call!SalesInfo
  <2>2. /\ Call!Prompt(Call!RecordMessage(sess, "SALES_RECORD")) => CallTidy'
        /\ Call!Prompt(Call!RecordMessage(sess, "SALES_MENU")) => CallTidy'
    BY <2>1, MoveIsTidy DEF Call!States
  <2> QED BY <1>2, <2>1, <2>2, InvalidIsTidy DEF Call!SalesInfo, Call!RecordMessage
<1>3. ASSUME Call!Recorded PROVE CallTidy'
  <2>1. step' = "voicemail" /\ UNCHANGED <<caller, sess, log, enabled, units, scheds, nextId>>
    BY <1>3 DEF Call!Recorded, Call!account
  <2>2. (sess # None => Neat(sess))' /\ IsRow(log)'
    BY <2>1 DEF CallTidy, Neat, IsRow
  <2> QED BY <2>1, <2>2 DEF CallTidy
<1>4. ASSUME Call!RecordedDone PROVE CallTidy'
  <2>1. /\ step' = None /\ sess' = None /\ log' = Call!Outcome("voicemail")
        /\ UNCHANGED <<caller, enabled, units, scheds, nextId>>
    BY <1>4 DEF Call!RecordedDone, Call!account
  <2>2. IsRow(log)'
    BY <2>1, OutcomeIsRow DEF IsRow, Outcomes
  <2> QED BY <2>1, <2>2 DEF CallTidy
<1> QED BY <1>1, <1>2, <1>3, <1>4 DEF Call!Sales

LEMMA StatusIsTidy == ASSUME Open, Call!RunStatus PROVE CallTidy'
<1>1. CASE enabled = {}
  <2>1. sess' = None /\ UNCHANGED <<caller, step, log, enabled, units, scheds, nextId>>
    BY <1>1 DEF Call!RunStatus, Call!account
  <2> QED BY <2>1 DEF Open, CallTidy, IsRow
<1>2. CASE enabled # {}
  <2>1. /\ sess' = Call!AtMain(sess) /\ log' = Call!Outcome("status")
        /\ UNCHANGED <<caller, step, enabled, units, scheds, nextId>>
    BY <1>2 DEF Call!RunStatus, Call!Keep, Call!KeepAll, Call!account
  <2>2. Neat(Call!AtMain(sess)) /\ IsRow(Call!Outcome("status"))
    BY MainIsNeat, OutcomeIsRow DEF Open, Outcomes
  <2>3. Neat(sess)' /\ IsRow(log)'
    BY <2>1, <2>2 DEF Neat, IsRow
  <2> QED BY <2>1, <2>3 DEF Open, CallTidy
<1> QED BY <1>1, <1>2


LEMMA MainChoiceIsTidy == ASSUME CallTidy, Call!MainChoice PROVE CallTidy'
<1>1. Open /\ Neat(sess)
  BY RequestIsOpen DEF Call!MainChoice
<1>2. CASE Call!Prompt([sess EXCEPT !.state = "NLU_LISTEN", !.retries = 0])
  <2> DEFINE t == [sess EXCEPT !.state = "NLU_LISTEN", !.retries = 0]
  <2>1. /\ CallParts \subseteq DOMAIN t /\ t.state = "NLU_LISTEN"
        /\ t.invalid = sess.invalid /\ t.retries = 0 /\ t.list = sess.list /\ t.idx = sess.idx
    BY <1>1 DEF Neat, CallParts
  <2>2. Call!Prompt(t)
    BY <1>2
  <2> HIDE DEF t
  <2>3. Neat(t)
    BY <1>1, <2>1, ElsewhereIsNeat, TriesAssumption DEF Call!States
  <2> QED BY <2>2, <2>3, PromptIsTidy DEF Open
<1>3. CASE Call!ReadSchedule(Call!Browse([sess EXCEPT !.idx = 0]))
  <2> DEFINE t == [sess EXCEPT !.idx = 0]
  <2>1. /\ CallParts \subseteq DOMAIN t /\ t.idx = 0 /\ \A f \in CallParts \ {"idx"} : t[f] = sess[f]
    BY <1>1 DEF Neat, CallParts
  <2>2. Call!ReadSchedule(Call!Browse(t)) /\ sess.state = "MAIN"
    BY <1>3 DEF Call!MainChoice, Call!Request
  <2> HIDE DEF t
  <2>3. Neat(t)
    BY <1>1, <2>1, <2>2 DEF Neat, CallParts
  <2> QED BY <2>2, <2>3, ReadingIsTidy DEF Open
<1>4. CASE Call!Prompt([sess EXCEPT !.state = "SVC_MENU", !.tree = Call!Node("service"), !.offered = 1..5])
  <2> DEFINE t == [sess EXCEPT !.state = "SVC_MENU", !.tree = Call!Node("service"), !.offered = 1..5]
  <2>1. /\ CallParts \subseteq DOMAIN t /\ t.state = "SVC_MENU"
        /\ t.invalid = sess.invalid /\ t.retries = sess.retries /\ t.list = sess.list /\ t.idx = sess.idx
        /\ t.tree = Talk!Node("service") /\ t.offered = 1..5
    BY <1>1, SameWords DEF Neat, CallParts
  <2>2. Call!Prompt(t)
    BY <1>4
  <2> HIDE DEF t
  <2>3. IsTree(t.tree) /\ t.tree.node = "service"
    BY <2>1, NewTrees
  <2>4. "service" \in ServiceNodes /\ t.offered \subseteq OptionsAt("service", caller)
    BY <2>1, OptionsThere DEF ServiceNodes
  <2>5. Neat(t)
    BY <1>1, <2>1, <2>3, <2>4 DEF Neat, Call!States
  <2> QED BY <2>2, <2>5, PromptIsTidy DEF Open
<1>5. \A ctx : Call!RelayMenu(sess, ctx) => CallTidy'
  BY <1>1, RelayMenuIsTidy
<1>6. Call!MainMenu(sess) => CallTidy'
  BY <1>1, MainMenuIsTidy DEF Open
<1> QED BY <1>1, <1>2, <1>3, <1>4, <1>5, <1>6, StatusIsTidy, InvalidIsTidy DEF Call!MainChoice

LEMMA RelaySelectIsTidy == ASSUME CallTidy, Call!RelaySelect PROVE CallTidy'
<1>1. Open /\ Neat(sess)
  <2>1. Call!Request("RELAY_SELECT")
    BY DEF Call!RelaySelect
  <2> QED BY <2>1, RequestIsOpen
<1>2. ASSUME NEW r \in enabled, Call!RunImmediate(r, sess.ctx) PROVE CallTidy'
  BY <1>2, ImmediateIsTidy
<1>3. ASSUME NEW r \in enabled, Call!Ask([sess EXCEPT !.entry.relay = r, !.state = "SCHED_TYPE"]), Call!KeepAll
      PROVE  CallTidy'
  <2> DEFINE t == [sess EXCEPT !.entry.relay = r, !.state = "SCHED_TYPE"]
  <2>1. /\ CallParts \subseteq DOMAIN t /\ t.state = "SCHED_TYPE"
        /\ t.invalid = sess.invalid /\ t.retries = sess.retries /\ t.list = sess.list /\ t.idx = sess.idx
    BY <1>1 DEF Neat, CallParts
  <2>2. Call!Ask(t)
    BY <1>3
  <2> HIDE DEF t
  <2>3. Neat(t)
    BY <1>1, <2>1, ElsewhereIsNeat DEF Neat, Call!States
  <2> QED BY <1>3, <2>2, <2>3, AskIsTidy
<1>4. Call!MainMenu(sess) => CallTidy'
  BY MainMenuIsTidy
<1> QED BY <1>1, <1>2, <1>3, <1>4, InvalidIsTidy DEF Call!RelaySelect

-----------------------------------------------------------------------------
(* Orders in words *)

LEMMA DeliverIsTidy == ASSUME CallTidy, NEW s, Neat(s), Call!Deliver(s) PROVE CallTidy'
<1>1. CASE Call!MainMenu(s)
  BY <1>1, MainMenuIsTidy
<1>2. CASE s.retries < Replays /\ Call!Prompt([s EXCEPT !.retries = @ + 1, !.state = "NLU_LISTEN"])
  <2> DEFINE t == [s EXCEPT !.retries = @ + 1, !.state = "NLU_LISTEN"]
  <2>1. /\ CallParts \subseteq DOMAIN t /\ t.state = "NLU_LISTEN"
        /\ t.invalid = s.invalid /\ t.retries = s.retries + 1 /\ t.list = s.list /\ t.idx = s.idx
    BY DEF Neat, CallParts
  <2>2. t.retries \in 0..Replays
    BY <1>2, <2>1, TriesAssumption DEF Neat
  <2>3. Call!Prompt(t)
    BY <1>2
  <2> HIDE DEF t
  <2>4. Neat(t)
    BY <2>1, <2>2, ElsewhereIsNeat DEF Call!States
  <2> QED BY <2>3, <2>4, PromptIsTidy
<1>3. ASSUME NEW o, NEW p, Call!Ask([s EXCEPT !.state = "NLU_CONFIRM", !.order = {o, p}, !.readOn = date]),
             Call!KeepAll
      PROVE  CallTidy'
  <2> DEFINE t == [s EXCEPT !.state = "NLU_CONFIRM", !.order = {o, p}, !.readOn = date]
  <2>1. /\ CallParts \subseteq DOMAIN t /\ t.state = "NLU_CONFIRM"
        /\ t.invalid = s.invalid /\ t.retries = s.retries /\ t.list = s.list /\ t.idx = s.idx
    BY DEF Neat, CallParts
  <2>2. Call!Ask(t)
    BY <1>3
  <2> HIDE DEF t
  <2>3. Neat(t)
    BY <2>1, ElsewhereIsNeat DEF Neat, Call!States
  <2> QED BY <1>3, <2>2, <2>3, AskIsTidy
<1> QED BY <1>1, <1>2, <1>3 DEF Call!Deliver

LEMMA ListenIsTidy == ASSUME CallTidy, Call!Listen PROVE CallTidy'
<1>1. Open /\ Neat(sess)
  BY RequestIsOpen DEF Call!Listen
<1>2. CASE Call!Prompt([sess EXCEPT !.state = "NLU_WAIT", !.waiting = TRUE])
  <2> DEFINE t == [sess EXCEPT !.state = "NLU_WAIT", !.waiting = TRUE]
  <2>1. /\ CallParts \subseteq DOMAIN t /\ t.state = "NLU_WAIT"
        /\ t.invalid = sess.invalid /\ t.retries = sess.retries /\ t.list = sess.list /\ t.idx = sess.idx
    BY <1>1 DEF Neat, CallParts
  <2>2. Call!Prompt(t)
    BY <1>2
  <2> HIDE DEF t
  <2>3. Neat(t)
    BY <1>1, <2>1, ElsewhereIsNeat DEF Neat, Call!States
  <2> QED BY <2>2, <2>3, PromptIsTidy
<1> QED BY <1>1, <1>2, AgainIsTidy, MainMenuIsTidy, DeliverIsTidy DEF Call!Listen

LEMMA WaitIsTidy == ASSUME CallTidy, Call!Wait PROVE CallTidy'
<1>1. Neat(sess)
  BY RequestIsOpen DEF Call!Wait
<1> DEFINE t == [sess EXCEPT !.waiting = FALSE]
<1>2. CallParts \subseteq DOMAIN t /\ \A f \in CallParts : t[f] = sess[f]
  BY <1>1 DEF Neat, CallParts
<1>3. Call!Deliver(t) \/ Call!MainMenu(t)
  BY DEF Call!Wait
<1> HIDE DEF t
<1>4. Neat(t)
  BY <1>1, <1>2, RestIsNeat
<1> QED BY <1>3, <1>4, DeliverIsTidy, MainMenuIsTidy

LEMMA NluConfirmIsTidy == ASSUME CallInv, CallTidy, Call!NluConfirm PROVE CallTidy'
<1>1. Open /\ sess # None /\ sess.state = "NLU_CONFIRM"
  BY RequestIsOpen DEF Call!NluConfirm, Open
<1>2. ASSUME NEW effects \in SUBSET sess.order, Call!RunNluActions(effects) PROVE CallTidy'
  <2> DEFINE rest  == IF effects = sess.order THEN "command" ELSE "failed"
             timed == {e \in effects : e.kind = "timed"}
             n     == Cardinality(timed)
  <2>1. n \in Nat
    <3>1. IsFiniteSet(sess.order)
      BY <1>1 DEF CallInv, Understood
    <3>2. timed \subseteq sess.order
      OBVIOUS
    <3> HIDE DEF timed
    <3> QED BY <3>1, <3>2, FS_Subset, FS_CardinalityType
  <2>2. Call!Creates(effects) = n
    BY SameCardinality DEF Call!Creates
  <2>3. /\ Call!CarryOut({Call!Resolved(o) : o \in effects}, rest) /\ enabled' = enabled /\ units' = units
        /\ nextId' = nextId + n
        /\ scheds' = (scheds \ Call!Deletes(effects)) \cup (nextId..(nextId + n - 1))
    BY <1>2, <2>2 DEF Call!RunNluActions
  <2>4. rest \in {"command", "failed", "deleted", "saved"}
    OBVIOUS
  <2> HIDE DEF n, rest
  <2>5. nextId' \in Nat \ {0} /\ scheds' \subseteq 1..(nextId' - 1)
    <3>1. nextId \in Nat \ {0} /\ scheds \subseteq 1..(nextId - 1)
      BY DEF CallTidy
    <3>2. scheds' \subseteq scheds \cup (nextId..(nextId + n - 1)) /\ nextId' = nextId + n
      BY <2>3
    <3>3. scheds \cup (nextId..(nextId + n - 1)) \subseteq 1..(nextId + n - 1)
      <4> SUFFICES ASSUME NEW i \in scheds \cup (nextId..(nextId + n - 1)) PROVE i \in 1..(nextId + n - 1)
        OBVIOUS
      <4>1. CASE i \in scheds
        BY <2>1, <3>1, <4>1
      <4>2. CASE i \in nextId..(nextId + n - 1)
        BY <2>1, <3>1, <4>2
      <4> QED BY <4>1, <4>2
    <3> QED BY <2>1, <3>1, <3>2, <3>3
  <2> QED BY <2>3, <2>4, <2>5, CarryIsTidy
<1> QED BY <1>1, <1>2, MainMenuIsTidy, InvalidIsTidy DEF Call!NluConfirm

LEMMA InWordsIsTidy == ASSUME CallInv, CallTidy, Call!InWords PROVE CallTidy'
BY ListenIsTidy, WaitIsTidy, NluConfirmIsTidy DEF Call!InWords


-----------------------------------------------------------------------------
(* Schedules *)

LEMMA BrowsingIsTidy == ASSUME CallTidy, Call!SchedBrowse PROVE CallTidy'
<1>1. Open /\ Neat(sess) /\ sess.state = "SCHED_BROWSE"
  <2>1. Call!Request("SCHED_BROWSE")
    BY DEF Call!SchedBrowse
  <2> QED BY <2>1, RequestIsOpen
<1>2. ASSUME NEW i \in Nat, i < Len(sess.list), Call!ReadSchedule(Call!Browse([sess EXCEPT !.idx = i]))
      PROVE  CallTidy'
  <2> DEFINE t == [sess EXCEPT !.idx = i]
  <2>1. /\ CallParts \subseteq DOMAIN t /\ t.idx = i /\ \A f \in CallParts \ {"idx"} : t[f] = sess[f]
    BY <1>1 DEF Neat, CallParts
  <2>2. Call!ReadSchedule(Call!Browse(t))
    BY <1>2
  <2> HIDE DEF t
  <2>3. Neat(t)
    BY <1>1, <1>2, <2>1 DEF Neat, CallParts
  <2> QED BY <2>2, <2>3, ReadingIsTidy
<1>3. ASSUME Call!Prompt([sess EXCEPT !.state = "SCHED_DEL_CONFIRM", !.del = sess.list[sess.idx + 1]])
      PROVE  CallTidy'
  <2> DEFINE t == [sess EXCEPT !.state = "SCHED_DEL_CONFIRM", !.del = sess.list[sess.idx + 1]]
  <2>1. /\ CallParts \subseteq DOMAIN t /\ t.state = "SCHED_DEL_CONFIRM"
        /\ t.invalid = sess.invalid /\ t.retries = sess.retries /\ t.list = sess.list /\ t.idx = sess.idx
    BY <1>1 DEF Neat, CallParts
  <2>2. Call!Prompt(t)
    BY <1>3
  <2> HIDE DEF t
  <2>3. Neat(t)
    BY <1>1, <2>1, ElsewhereIsNeat DEF Neat, Call!States
  <2> QED BY <2>2, <2>3, PromptIsTidy
<1>4. Len(sess.list) \in Nat /\ sess.idx \in Nat /\ (sess.list # <<>> => sess.idx < Len(sess.list))
  BY <1>1 DEF Neat
<1>5. ASSUME Len(sess.list) > 0, Call!ReadSchedule(Call!Browse([sess EXCEPT !.idx = (@ + 1) % Len(sess.list)]))
      PROVE  CallTidy'
  <2>1. (sess.idx + 1) % Len(sess.list) \in 0..(Len(sess.list) - 1)
    BY <1>4, <1>5
  <2> QED BY <1>2, <1>4, <1>5, <2>1
<1>6. ASSUME Len(sess.list) > 0, sess.idx > 0, Call!ReadSchedule(Call!Browse([sess EXCEPT !.idx = @ - 1]))
      PROVE  CallTidy'
  <2>1. sess.list # <<>>
    BY <1>6
  <2>2. sess.idx - 1 \in Nat /\ sess.idx - 1 < Len(sess.list)
    BY <1>4, <1>6, <2>1
  <2> QED BY <1>2, <1>6, <2>2
<1>7. Call!RelayMenu(sess, "sched") => CallTidy'
  BY <1>1, RelayMenuIsTidy
<1>8. (Call!MainMenu(sess) => CallTidy') /\ (Call!Invalid => CallTidy')
  BY <1>1, MainMenuIsTidy, InvalidIsTidy
<1> QED BY <1>3, <1>5, <1>6, <1>7, <1>8 DEF Call!SchedBrowse

LEMMA DelConfirmIsTidy == ASSUME CallTidy, Call!DelConfirm PROVE CallTidy'
<1>1. Open /\ Neat(sess)
  <2>1. Call!Request("SCHED_DEL_CONFIRM")
    BY DEF Call!DelConfirm
  <2> QED BY <2>1, RequestIsOpen
<1>2. ASSUME Call!CarryOut({[kind |-> "delete", id |-> sess.del]}, "deleted"), UNCHANGED <<enabled, units, nextId>>,
             scheds' = scheds \ {sess.del}
      PROVE  CallTidy'
  <2>1. nextId' \in Nat \ {0} /\ scheds' \subseteq 1..(nextId' - 1)
    BY <1>2 DEF CallTidy
  <2> QED BY <1>2, <2>1, CarryIsTidy
<1>3. Call!ReadSchedule(Call!Browse(sess)) => CallTidy'
  BY <1>1, ReadingIsTidy
<1> QED BY <1>1, <1>2, <1>3, InvalidIsTidy DEF Call!DelConfirm, Call!DeleteTarget

\* The steps of the add flow, which are neither the list nor the service desk.
LEMMA AddStepsAreStates == AddSteps \subseteq Call!States \ {"SCHED_BROWSE", "SVC_MENU", "SVC_VOICE"}
BY DEF AddSteps, Call!States

LEMMA EnterIsTidy ==
    ASSUME Open, NEW f, NEW v, NEW state \in AddSteps, Call!Enter(f, v, state) PROVE CallTidy'
<1> DEFINE t == [sess EXCEPT !.entry[f] = v, !.state = state]
<1>1. Neat(sess)
  BY DEF Open, CallTidy
<1>2. /\ CallParts \subseteq DOMAIN t /\ t.state = state
      /\ t.invalid = sess.invalid /\ t.retries = sess.retries /\ t.list = sess.list /\ t.idx = sess.idx
  BY <1>1 DEF Neat, CallParts
<1>3. Call!Ask(t) /\ Call!KeepAll
  BY DEF Call!Enter
<1> HIDE DEF t
<1>4. Neat(t)
  BY <1>1, <1>2, AddStepsAreStates, ElsewhereIsNeat DEF Neat
<1> QED BY <1>3, <1>4, AskIsTidy DEF Open

LEMMA RestartIsTidy == ASSUME CallTidy, NEW s, Neat(s), Call!Restart(s) PROVE CallTidy'
<1> DEFINE to == Call!FirstStep(s.entry.type, s.entry.sides)
<1>1. to \in AddSteps
  BY DEF Call!FirstStep, AddSteps
<1>2. Call!Ask([s EXCEPT !.state = to]) /\ Call!KeepAll
  BY DEF Call!Restart, Call!At
<1> HIDE DEF to
<1>3. Neat([s EXCEPT !.state = to])
  BY <1>1, AddStepsAreStates, StateIsNeat
<1> QED BY <1>2, <1>3, AskIsTidy

LEMMA FinalizeIsTidy == ASSUME Open, NEW f, NEW v, Call!Finalize(f, v) PROVE CallTidy'
<1> DEFINE e == [sess.entry EXCEPT ![f] = v]
<1>1. Neat(sess)
  BY DEF Open, CallTidy
<1>2. ASSUME Call!Ask([sess EXCEPT !.entry = e, !.fields = Call!SchedFieldsFor(e), !.state = "SCHED_CONFIRM"]),
             Call!KeepAll
      PROVE  CallTidy'
  <2> DEFINE fields == Call!SchedFieldsFor(e)
             t == [sess EXCEPT !.entry = e, !.fields = fields, !.state = "SCHED_CONFIRM"]
  <2>1. Call!Ask(t)
    BY <1>2
  <2> HIDE DEF e, fields
  <2>2. /\ CallParts \subseteq DOMAIN t /\ t.state = "SCHED_CONFIRM"
        /\ t.invalid = sess.invalid /\ t.retries = sess.retries /\ t.list = sess.list /\ t.idx = sess.idx
    BY <1>1 DEF Neat, CallParts
  <2> HIDE DEF t
  <2>3. Neat(t)
    BY <1>1, <2>2, ElsewhereIsNeat DEF Neat, Call!States
  <2> QED BY <1>2, <2>1, <2>3, AskIsTidy DEF Open
<1>3. ASSUME Call!Restart([sess EXCEPT !.entry = e]) PROVE CallTidy'
  <2> DEFINE t == [sess EXCEPT !.entry = e]
  <2>1. Call!Restart(t)
    BY <1>3
  <2> HIDE DEF e
  <2>2. CallParts \subseteq DOMAIN t /\ \A g \in CallParts : t[g] = sess[g]
    BY <1>1 DEF Neat, CallParts
  <2> HIDE DEF t
  <2>3. Neat(t)
    BY <1>1, <2>2, RestIsNeat
  <2> QED BY <2>1, <2>3, RestartIsTidy DEF Open
<1> QED BY <1>2, <1>3 DEF Call!Finalize

LEMMA AddFlowIsTidy == ASSUME CallTidy, Call!AddFlow PROVE CallTidy'
<1> DEFINE Asked == {"SCHED_TYPE", "SCHED_SIDES", "SCHED_ONCE_DAY", "SCHED_ON_DAY", "SCHED_OFF_DAY",
                     "SCHED_ON_TIME", "SCHED_OFF_TIME", "SCHED_CONFIRM"}
<1>1. Open /\ Neat(sess)
  <2>1. \E state \in Asked : Call!Request(state)
    BY DEF Call!AddFlow, Call!SchedType, Call!SchedSides, Call!OnceDay, Call!OnDay, Call!OffDay, Call!OnTime,
           Call!OffTime, Call!SchedConfirm
  <2> HIDE DEF Asked
  <2> QED BY <2>1, RequestIsOpen
<1>2. \A f, v : \A state \in AddSteps : Call!Enter(f, v, state) => CallTidy'
  BY <1>1, EnterIsTidy
<1>3. \A f, v : Call!Finalize(f, v) => CallTidy'
  BY <1>1, FinalizeIsTidy
<1>4. Call!Invalid => CallTidy'
  BY <1>1, InvalidIsTidy
<1>5. CASE Call!SchedType
  BY <1>2, <1>4, <1>5 DEF Call!SchedType, AddSteps
<1>6. CASE Call!SchedSides
  <2>1. \A x : Call!FirstStep(sess.entry.type, x) \in AddSteps
    BY DEF Call!FirstStep, AddSteps
  <2> QED BY <1>2, <1>4, <1>6, <2>1 DEF Call!SchedSides
<1>7. CASE Call!OnceDay
  BY <1>2, <1>4, <1>7 DEF Call!OnceDay, AddSteps
<1>8. CASE Call!OnDay
  BY <1>2, <1>4, <1>8 DEF Call!OnDay, AddSteps
<1>9. CASE Call!OffDay
  BY <1>2, <1>4, <1>9 DEF Call!OffDay, AddSteps
<1>10. CASE Call!OnTime
  BY <1>2, <1>3, <1>4, <1>10 DEF Call!OnTime, AddSteps
<1>11. CASE Call!OffTime
  BY <1>3, <1>4, <1>11 DEF Call!OffTime
<1>12. CASE Call!SchedConfirm
  <2>1. ASSUME Call!CarryOut({[kind |-> "create", fields |-> sess.fields]}, "saved"), enabled' = enabled, units' = units,
               nextId' = nextId + 1, scheds' = scheds \cup {nextId}
        PROVE  CallTidy'
    <3>1. nextId' \in Nat \ {0} /\ scheds' \subseteq 1..(nextId' - 1)
      BY <2>1 DEF CallTidy
    <3> QED BY <2>1, <3>1, CarryIsTidy
  <2>2. Call!Restart(sess) => CallTidy'
    BY <1>1, RestartIsTidy
  <2>3. Call!MainMenu(sess) => CallTidy'
    BY MainMenuIsTidy
  <2> QED BY <1>4, <1>12, <2>1, <2>2, <2>3 DEF Call!SchedConfirm
<1> QED BY <1>5, <1>6, <1>7, <1>8, <1>9, <1>10, <1>11, <1>12 DEF Call!AddFlow


-----------------------------------------------------------------------------
(* The service desk on the telephone *)

LEMMA SvcDeliverIsTidy ==
    ASSUME Open, NEW r, NEW w, Fits(r, w), InBranch(r), Call!SvcDeliver(r) PROVE CallTidy'
<1>1. Neat(sess)
  BY DEF Open, CallTidy
<1>2. CASE Call!Prompt(Call!RecordMessage(sess, Call!AgentState(caller)))
  <2>1. Call!AgentState(caller) \in Call!States \ {"SCHED_BROWSE", "SVC_MENU", "SVC_VOICE"}
    BY DEF Call!AgentState, Call!States
  <2> QED BY <1>2, <2>1, MoveIsTidy
<1>3. ASSUME Call!Prompt([sess EXCEPT !.state = "SVC_VOICE", !.tree = r.state, !.retries = 0]) PROVE CallTidy'
  <2> DEFINE t == [sess EXCEPT !.state = "SVC_VOICE", !.tree = r.state, !.retries = 0]
  <2>1. /\ CallParts \subseteq DOMAIN t /\ t.state = "SVC_VOICE" /\ t.tree = r.state /\ t.retries = 0
        /\ t.invalid = sess.invalid /\ t.list = sess.list /\ t.idx = sess.idx
    BY <1>1 DEF Neat, CallParts
  <2>2. Call!Prompt(t)
    BY <1>3
  <2> HIDE DEF t
  <2>3. Neat(t)
    BY <1>1, <2>1, TriesAssumption DEF Neat, Call!States, Fits
  <2> QED BY <2>2, <2>3, PromptIsTidy DEF Open
<1>4. ASSUME r.options # {},
             Call!Prompt([sess EXCEPT !.state = "SVC_MENU", !.tree = r.state, !.offered = r.options])
      PROVE  CallTidy'
  <2> DEFINE t == [sess EXCEPT !.state = "SVC_MENU", !.tree = r.state, !.offered = r.options]
  <2>1. /\ CallParts \subseteq DOMAIN t /\ t.state = "SVC_MENU" /\ t.tree = r.state /\ t.offered = r.options
        /\ t.invalid = sess.invalid /\ t.retries = sess.retries /\ t.list = sess.list /\ t.idx = sess.idx
    BY <1>1 DEF Neat, CallParts
  <2>2. Call!Prompt(t)
    BY <1>4
  <2> HIDE DEF t
  <2>3. r.state.node \notin Lists => OptionsAt(r.state.node, w) = OptionsAt(r.state.node, caller)
    BY FixedOptions
  <2>4. Neat(t)
    BY <1>1, <1>4, <2>1, <2>3 DEF Neat, Call!States, Fits, InBranch
  <2> QED BY <2>2, <2>4, PromptIsTidy DEF Open
<1>5. Call!MainMenu(sess) => CallTidy'
  BY MainMenuIsTidy DEF Open
<1> QED BY <1>2, <1>3, <1>4, <1>5 DEF Call!SvcDeliver

LEMMA DeskIsTidy == ASSUME CallTidy, Call!Desk PROVE CallTidy'
<1>1. CASE Call!SvcMenu
  <2>1. Open /\ IsTree(sess.tree)
    BY <1>1, RequestIsOpen DEF Call!SvcMenu, Neat
  <2>2. ASSUME NEW d, NEW r \in Call!Answer(sess.tree, d, Call!desk), Call!SvcDeliver(r) PROVE CallTidy'
    <3>1. r \in Talk!Answer(sess.tree, d, Call!desk)
      BY <2>2, SameAnswer
    <3>2. Fits(r, Call!desk) /\ InBranch(r)
      BY <2>1, <3>1, AnswerFits, AnswerInBranch
    <3> QED BY <2>1, <2>2, <3>2, SvcDeliverIsTidy
  <2> QED BY <1>1, <2>2, MainMenuIsTidy DEF Call!SvcMenu
<1>2. CASE Call!SvcVoice
  <2>1. Open /\ IsTree(sess.tree)
    BY <1>2, RequestIsOpen DEF Call!SvcVoice, Neat
  <2>2. ASSUME NEW long, NEW r \in Call!Spoken(sess.tree, long, Call!desk), Call!SvcDeliver(r) PROVE CallTidy'
    <3>1. r \in Talk!Spoken(sess.tree, long, Call!desk)
      BY <2>2, SameSpoken
    <3>2. Fits(r, Call!desk) /\ InBranch(r)
      BY <2>1, <3>1, SpokenFits, SpokenInBranch
    <3> QED BY <2>1, <2>2, <3>2, SvcDeliverIsTidy
  <2> QED BY <1>2, <2>1, <2>2, MainMenuIsTidy, AgainIsTidy DEF Call!SvcVoice
<1>3. CASE Call!AgentBack
  <2>1. Open
    BY <1>3, RequestIsOpen DEF Call!AgentBack
  <2>2. Call!Prompt(Call!RecordMessage(sess, "AGENT_RETURN"))
    BY <1>3 DEF Call!AgentBack, Call!RecordMessage
  <2> QED BY <2>1, <2>2, MoveIsTidy DEF Call!States
<1>4. CASE Call!AgentReturn
  <2>1. Open
    BY <1>4, RequestIsOpen DEF Call!AgentReturn
  <2>2. Call!Prompt(Call!RecordMessage(sess, "AGENT_RECORD")) => CallTidy'
    BY <2>1, MoveIsTidy DEF Call!States
  <2>3. Call!HangUpWith("agent") => CallTidy'
    BY HangUpIsTidy DEF Outcomes
  <2> QED BY <1>4, <2>1, <2>2, <2>3, AgainIsTidy, FewerTries DEF Call!AgentReturn
<1> QED BY <1>1, <1>2, <1>3, <1>4 DEF Call!Desk

-----------------------------------------------------------------------------
(* The beginning and the end of a call *)

LEMMA ArriveIsTidy == ASSUME CallTidy, Call!Arrive PROVE CallTidy'
<1> DEFINE state == CASE caller.kind = "user" -> "MAIN" [] caller.kind = "pin" -> "AUTH_PIN" [] OTHER -> "SALES_MENU"
           Begin(x) == log' = Call!OpenLog /\ sess' = Call!NewSession(x)
           Refuse(o) == log' = [outcome |-> o, ended |-> TRUE] /\ sess' = None
<1>1. UNCHANGED <<caller, step, enabled, units, scheds, nextId>>
  BY DEF Call!Arrive, Call!account
<1>2. Refuse("auth_fail") \/ Refuse("status") \/ Begin(state)
  BY Zenon DEF Call!Arrive
<1>3. Neat(Call!NewSession(state))
  <2>1. state \in {"MAIN", "AUTH_PIN", "SALES_MENU"}
    OBVIOUS
  <2> HIDE DEF state
  <2> QED BY <2>1, NewIsNeat
<1>4. (sess # None => Neat(sess))'
  <2> HIDE DEF state
  <2> QED BY <1>1, <1>2, <1>3 DEF Neat
<1>5. IsRow(log)'
  <2>1. \A o \in {"auth_fail", "status"} : IsRow([outcome |-> o, ended |-> TRUE])
    BY CallAssumption DEF IsRow, Outcomes
  <2>2. IsRow(Call!OpenLog)
    BY DEF IsRow, Call!OpenLog
  <2>3. log' = Call!OpenLog \/ \E o \in {"auth_fail", "status"} : log' = [outcome |-> o, ended |-> TRUE]
    BY <1>2
  <2> QED BY <2>1, <2>2, <2>3 DEF IsRow
<1> QED BY <1>1, <1>4, <1>5 DEF CallTidy

LEMMA FinishIsTidy == ASSUME CallTidy, Call!Finish PROVE CallTidy'
<1>1. /\ step' = None /\ UNCHANGED <<caller, enabled, units, scheds, nextId>>
      /\ log' = log \/ \E o \in {"command", "schedule"} : log' = Call!Outcome(o)
      /\ IF sess = None THEN sess' = None ELSE sess' \in {Call!Browse(sess), Call!AtMain(sess)}
  BY DEF Call!Finish, Call!account
<1>2. IsRow(log)'
  <2>1. IsRow(log) /\ \A o \in {"command", "schedule"} : IsRow(Call!Outcome(o))
    BY OutcomeIsRow DEF CallTidy, Outcomes
  <2> QED BY <1>1, <2>1 DEF IsRow
<1>3. (sess # None => Neat(sess))'
  <2>1. sess # None => Neat(Call!Browse(sess)) /\ Neat(Call!AtMain(sess))
    BY BrowseIsNeat, MainIsNeat DEF CallTidy
  <2> QED BY <1>1, <2>1 DEF Neat
<1> QED BY <1>1, <1>2, <1>3 DEF CallTidy

LEMMA HangupIsTidy == ASSUME CallTidy, Call!Hangup PROVE CallTidy'
<1>1. /\ sess' = None /\ UNCHANGED <<caller, step, enabled, units, scheds, nextId>>
      /\ log' = log \/ \E o \in Outcomes : log' = Call!Outcome(o)
  BY DEF Call!Hangup, Call!HangupOutcome, Call!account, Outcomes
<1>2. IsRow(log)'
  BY <1>1, OutcomeIsRow DEF CallTidy, IsRow
<1> QED BY <1>1, <1>2 DEF CallTidy

LEMMA LossIsTidy == ASSUME CallTidy, Call!Lose PROVE CallTidy'
<1>1. sess' = None /\ step' = None /\ UNCHANGED <<caller, log, enabled, units, scheds, nextId>>
  BY DEF Call!Lose
<1> QED BY <1>1 DEF CallTidy, IsRow

LEMMA WebsiteIsTidy == ASSUME CallTidy, Call!Web PROVE CallTidy'
<1>1. UNCHANGED <<caller, sess, step, log>>
  BY DEF Call!Web, Call!history
<1>2. (sess # None => Neat(sess))' /\ IsRow(log)'
  BY <1>1 DEF CallTidy, Neat, IsRow
<1>3. enabled' \subseteq Relays /\ units' \in Nat
  <2>1. enabled \subseteq Relays /\ units \in Nat
    BY DEF CallTidy
  <2>2. enabled' \subseteq Relays
    BY <2>1 DEF Call!Web
  <2>3. units' = units \/ units' \in {units - 1, units + 1} \ {-1}
    BY DEF Call!Web
  <2> QED BY <2>1, <2>2, <2>3
<1>4. nextId' \in Nat \ {0} /\ scheds' \subseteq 1..(nextId' - 1)
  <2>1. nextId \in Nat \ {0} /\ scheds \subseteq 1..(nextId - 1)
    BY DEF CallTidy
  <2>2. \/ nextId' = nextId /\ scheds' \subseteq scheds
        \/ nextId' = nextId + 1 /\ scheds' = scheds \cup {nextId}
    BY DEF Call!Web
  <2>3. CASE nextId' = nextId /\ scheds' \subseteq scheds
    BY <2>1, <2>3
  <2>4. CASE nextId' = nextId + 1 /\ scheds' = scheds \cup {nextId}
    <3>1. scheds \cup {nextId} \subseteq 1..nextId
      BY <2>1
    <3> QED BY <2>1, <2>4, <3>1
  <2> QED BY <2>2, <2>3, <2>4
<1> QED BY <1>1, <1>2, <1>3, <1>4 DEF CallTidy

LEMMA CallKeepsTidy == ASSUME CallInv, CallTidy, Call!Next PROVE CallTidy'
BY ArriveIsTidy, AuthPinIsTidy, SalesIsTidy, MainChoiceIsTidy, RelaySelectIsTidy, InWordsIsTidy,
   BrowsingIsTidy, DelConfirmIsTidy, AddFlowIsTidy, DeskIsTidy, FinishIsTidy, HangupIsTidy,
   LossIsTidy, WebsiteIsTidy
   DEF Call!Next

CallForm == part = "call" => CallTidy

LEMMA CallFormHolds == ServicesSpec => []CallForm
<1>1. ServicesInit => CallForm
  <2> SUFFICES ASSUME Call!Init PROVE CallTidy
    BY DEF ServicesInit, CallForm
  <2> QED BY TriesAssumption, AccountAssumption DEF Call!Init, CallTidy, IsRow
<1>2. CallPart /\ CallForm /\ [ServicesNext]_allVars => CallForm'
  <2> SUFFICES ASSUME CallPart, CallForm, [ServicesNext]_allVars, part' = "call" PROVE CallTidy'
    BY DEF CallForm
  <2>1. part = "call" /\ CallInv /\ CallTidy
    BY DEF ServicesNext, allVars, CallPart, CallForm
  <2>2. CASE UNCHANGED callVars
    <3>1. UNCHANGED <<caller, sess, step, log, enabled, units, scheds, nextId>>
      BY <2>2 DEF callVars
    <3> QED BY <2>1, <3>1 DEF CallTidy, Neat, IsRow
  <2>3. Call!Next \/ UNCHANGED callVars
    BY <2>1 DEF ServicesNext, allVars
  <2> QED BY <2>1, <2>2, <2>3, CallKeepsTidy
<1> QED BY <1>1, <1>2, CallPartHolds, PTL DEF ServicesSpec

LEMMA CallTypes == CallTidy => Call!TypeOK
BY DEF CallTidy, Neat, IsRow, Outcomes, Call!TypeOK

LEMMA CallOffers == CallTidy => Call!OfferedIsUnderstood
<1> DEFINE w == Call!desk
<1> SUFFICES ASSUME CallTidy, sess # None, sess.state = "SVC_MENU", NEW d \in sess.offered
             PROVE  IF Call!Gone(sess.tree, d, w)
                    THEN Call!Answer(sess.tree, d, w) \subseteq Call!AsItIsNow(sess.tree, w)
                    ELSE /\ \A r \in Call!Answer(sess.tree, d, w) : ~r.unclear
                         /\ Call!Answer(sess.tree, d, w) # {Call!MenuStart}
  BY DEF Call!OfferedIsUnderstood
<1>1. /\ IsTree(sess.tree) /\ sess.tree.node \in ServiceNodes
      /\ sess.tree.node \notin Lists => d \in OptionsAt(sess.tree.node, caller)
  BY DEF CallTidy, Neat
<1>2. w.devices \in Nat
  BY AccountAssumption DEF CallTidy, Call!desk
<1> HIDE DEF w
<1>3. CASE Call!Gone(sess.tree, d, w)
  BY <1>3, GoneAnswers, SameAnswer, SameList
<1>4. CASE ~Call!Gone(sess.tree, d, w)
  <2>1. sess.tree.node \in Lists => d \in OptionsAt(sess.tree.node, w)
    <3>1. sess.tree.node \in Lists => sess.tree.node \in {"sched_relay", "fault_device"}
      BY <1>1 DEF Lists, ServiceNodes
    <3> QED BY <1>4, <3>1, SameList, OptionsThere DEF Talk!Gone
  <2>2. sess.tree.node \notin Lists => d \in OptionsAt(sess.tree.node, w)
    BY <1>1, FixedOptions
  <2> QED BY <1>1, <1>2, <1>4, <2>1, <2>2, TelephoneAnswers
<1> QED BY <1>3, <1>4

-----------------------------------------------------------------------------
(* What holds of every part *)

PartIsKnown == part \in {"call", "registry", "chat"}

LEMMA PartStays == ServicesSpec => []PartIsKnown
<1>1. ServicesInit => PartIsKnown
  BY DEF ServicesInit, PartIsKnown
<1>2. PartIsKnown /\ [ServicesNext]_allVars => PartIsKnown'
  BY DEF ServicesNext, PartIsKnown, allVars
<1> QED BY <1>1, <1>2, PTL DEF ServicesSpec

\* Every variable of the part that a behaviour is of has a value of its kind: the
\* session of a call is in a state that the handler knows, with fewer wrong answers
\* than end the call and a place in the list that exists, and its row has an outcome
\* exactly when it is closed (ivr/router.js, services/callLogs.js); so do the rows
\* of devices and the inventory (services/devices.js) and the session of a
\* number (whatsapp/bot.js).
THEOREM ServiceTypes == ServicesSpec => []TypesOK
<1>1. PartIsKnown /\ RegPart /\ CallForm /\ TidyPart => TypesOK
  <2> SUFFICES ASSUME PartIsKnown, RegPart, CallForm, TidyPart PROVE TypesOK
    OBVIOUS
  <2>1. /\ part = "call" => Call!TypeOK
        /\ part = "registry" => Reg!TypeOK
        /\ part = "chat" => Talk!TypeOK
    BY CallTypes, ChatTypes DEF CallForm, RegPart, RegInv, TidyPart
  <2> QED BY <2>1 DEF PartIsKnown, TypesOK
<1> QED BY <1>1, PartStays, PartHolds, CallFormHolds, TidyHolds, PTL

\* Every choice that the service desk reads out to a caller, or writes to a
\* customer, is understood by the request that brings it back, and on the telephone
\* it leads somewhere, whatever channels, devices and plans the website has added or
\* taken away in between; a choice of a list that has gone by then is answered by the
\* list as it is now or by the main menu (services/serviceMenu.js).
THEOREM OffersUnderstood == ServicesSpec => []OfferedIsUnderstood
<1>1. CallForm /\ TidyPart => OfferedIsUnderstood
  BY CallOffers, ChatOffers DEF CallForm, TidyPart, OfferedIsUnderstood
<1> QED BY <1>1, CallFormHolds, TidyHolds, PTL
=============================================================================
