----------------------------- MODULE MCServices -----------------------------
(* Services of the server that share no state, checked side by side: every    *)
(* behaviour is one of a telephone call, of the rows of devices with the       *)
(* inventory, or of a WhatsApp conversation, and the variables of the other    *)
(* parts stay as they are.                                                     *)
EXTENDS RegistryParameters, CallCases, ChatCases

CONSTANTS
    \* CallMenu
    Callers, Relays, FirstScheds, Times, Weekdays, Aheads, Tries, Replays, MaxDone, MaxUpsets,
    \* Chat
    Numbers, MaxAge, MaxLinks, MaxTroubles

ASSUME ServicesAssumption == MaxAge \in Nat /\ None \notin Nat
ASSUME CallAssumption ==
    /\ Aheads \subseteq Nat
    /\ None \notin {"abandoned", "agent", "auth_fail", "command", "deleted", "info", "saved", "schedule",
                    "status", "voicemail"}
ASSUME TriesAssumption == Tries \in Nat \ {0} /\ Replays \in Nat /\ FirstScheds \in Nat
ASSUME AccountAssumption ==
    \A c \in Callers : {"codes", "devices"} \subseteq DOMAIN c /\ c.codes \subseteq Relays /\ c.devices \in Nat

VARIABLES
    part,      \* which part this behaviour is of
    caller, line, sess, step, log, enabled, units, scheds, nextId, date, upsets, wish, keyed, doing,
    count, blemishes,
    devices, stock, demo, job, acts, slips, was, kept, overtaken, blurred,
    number, known, has, row, todo, link, links, troubles, offered, newest, proof, did

Call == INSTANCE CallMenu
Reg  == INSTANCE Registry WITH rows <- devices
Talk == INSTANCE Chat

callVars == <<caller, line, sess, step, log, enabled, units, scheds, nextId, date, upsets, wish, keyed,
              doing, count, blemishes>>
regVars  == <<devices, stock, demo, job, acts, slips, was, kept, overtaken, blurred>>
talkVars == <<number, known, has, row, todo, link, links, troubles, offered, newest, proof, did>>
allVars  == <<part, callVars, regVars, talkVars>>

CallIdle ==
    /\ caller = None /\ line = None /\ sess = None /\ step = None /\ log = None /\ enabled = None /\ units = None
    /\ scheds = None /\ nextId = None /\ date = None /\ upsets = None /\ wish = None /\ keyed = None
    /\ doing = None /\ count = None /\ blemishes = None
RegIdle ==
    /\ devices = None /\ stock = None /\ demo = None /\ job = None /\ acts = None /\ slips = None
    /\ was = None /\ kept = None /\ overtaken = None /\ blurred = None
TalkIdle ==
    /\ number = None /\ known = None /\ has = None /\ row = None /\ todo = None /\ link = None /\ links = None
    /\ troubles = None /\ offered = None /\ newest = None /\ proof = None /\ did = None

ServicesInit ==
    \/ part = "call"     /\ Call!Init /\ RegIdle  /\ TalkIdle
    \/ part = "registry" /\ Reg!Init  /\ CallIdle /\ TalkIdle
    \/ part = "chat"     /\ Talk!Init /\ CallIdle /\ RegIdle

ServicesNext ==
    \/ part = "call"     /\ Call!Next /\ UNCHANGED <<part, regVars, talkVars>>
    \/ part = "registry" /\ Reg!Next  /\ UNCHANGED <<part, callVars, talkVars>>
    \/ part = "chat"     /\ Talk!Next /\ UNCHANGED <<part, callVars, regVars>>

ServicesSpec == ServicesInit /\ [][ServicesNext]_allVars

-----------------------------------------------------------------------------
(* Properties: those of the part that the behaviour is of *)

\* Every variable of the part has a value of its kind.
TypesOK ==
    CASE part = "call"     -> Call!TypeOK
      [] part = "registry" -> Reg!TypeOK
      [] part = "chat"     -> Talk!TypeOK

\* What a call carries out is what the caller was last read (ivr/router.js), and
\* what a chat carries out was read back last, in time, and once (whatsapp/bot.js).
CarriedOutAsRead == [][(part = "call" => Call!AsRead) /\ (part = "chat" => Talk!AsRead)]_allVars

\* The office answers a number only after the second factor of its admin
\* (whatsapp/bot.js, adminGate).
OfficeIsGated == [][part = "chat" => Talk!OfficeIsGated]_allVars

\* A call that carried something out is not written down as broken off, and
\* when the session is gone the row of the call is closed (ivr/router.js).
CallLogIsTrue == part = "call" => Call!AbandonedIsHonest /\ Call!LogIsClosed

\* Every choice that the service desk reads out, or writes, is understood by the
\* next request, whatever the website has changed in between: a channel, device or
\* plan that is gone by then, and nothing else, is answered by the list as it is now
\* or by the main menu (services/serviceMenu.js).
OfferedIsUnderstood ==
    (part = "call" => Call!OfferedIsUnderstood) /\ (part = "chat" => Talk!ChoicesAreUnderstood)

\* A unit in a customer's service is not listed as prepared for installation, returned
\* devices are suspended, and the demo device makes room for a real one (services/devices.js, services/demo.js, api/routes/admin.js).
RegistryIsSound == part = "registry" => Reg!InventoryIsTrue /\ Reg!RegistryIsSound

\* What a removal took, the recovery gives back (services/devices.js).
RecoveryGivesBack == [][part = "registry" => Reg!GivesBack]_allVars
=============================================================================
