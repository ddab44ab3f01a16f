------------------------- MODULE RegistryParameters -------------------------
(* The customers, the units and the bounds of module Registry, and the form *)
(* that the rows of its tables and its requests have.                       *)
EXTENDS Integers

CONSTANTS
    Customers, Macs, Digits,
    Visitors,       \* bound: the customers who open the panel
    FirstDigits,    \* bound: the digits that the devices have at the beginning
    DemoDigit,      \* the digit of the demo device
    Ids,            \* ids of device rows,
    Jobs,           \* and requests under way together: numbers, the first free one is taken
    MaxActs,        \* bound: requests of customers and admins, and slips
    MaxSlips,       \* bound: handwork on the inventory, clean-ups that fail, deaths of the process
    None            \* no customer, unit, digit or row

\* A device with its relay, an entry of the inventory, a request under way.
Row == [kind : {"real", "demo"}, owner : Customers, uid : Macs \cup {None}, removed : Macs \cup {None},
        on : BOOLEAN, returned : BOOLEAN, live : BOOLEAN, digit : Digits \cup {None},
        stash : Digits \cup {None}]
Entry == [prepared : BOOLEAN, device : Ids \cup {None}]
Request == [op : {"none", "register", "provision", "return", "reuse", "transfer"},
            at : {"none", "probe", "insert", "stock", "suspend", "list", "stamp"},
            row : Ids \cup {None}, unit : Macs \cup {None}, user : Customers \cup {None},
            digit : Digits \cup {None}, on : BOOLEAN]

ASSUME RegistryAssumption ==
    /\ DemoDigit \in Digits /\ Visitors \subseteq Customers /\ FirstDigits \subseteq Digits
    /\ Ids \subseteq Nat /\ {1, 2} \subseteq Ids /\ Jobs \subseteq Nat
    /\ None \notin Customers \cup Macs \cup Digits \cup Ids \cup Row \cup Entry
    /\ {MaxActs, MaxSlips} \subseteq Nat
=============================================================================
