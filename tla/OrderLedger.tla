---------------------------- MODULE OrderLedger ----------------------------
(***************************************************************************)
(* What the status of an order promises the customer who asks for it,      *)
(* whatever carries the order: an order is answered once, 'acked' only     *)
(* when the unit did as it was told, and a failed order stays failed.      *)
(***************************************************************************)
EXTENDS FiniteSets

CONSTANT Orders

VARIABLES
    answer,    \* answer[o]: "none" before the order, "open", "acked" or "failed"
    obeyed     \* the orders the unit has carried out

ledger == <<answer, obeyed>>

Init == answer = [o \in Orders |-> "none"] /\ obeyed = {}

Place(o) ==
    /\ answer[o] = "none"
    /\ answer' = [answer EXCEPT ![o] = "open"]
    /\ UNCHANGED obeyed

\* Before or after the customer is told that it failed.
Obey(o) ==
    /\ answer[o] \in {"open", "failed"}
    /\ obeyed' = obeyed \union {o}
    /\ UNCHANGED answer

Succeed(o) ==
    /\ answer[o] = "open" /\ o \in obeyed
    /\ answer' = [answer EXCEPT ![o] = "acked"]
    /\ UNCHANGED obeyed

Fail(o) ==
    /\ answer[o] = "open"
    /\ answer' = [answer EXCEPT ![o] = "failed"]
    /\ UNCHANGED obeyed

Next == \E o \in Orders : Place(o) \/ Obey(o) \/ Succeed(o) \/ Fail(o)

Spec == Init /\ [][Next]_ledger
=============================================================================
