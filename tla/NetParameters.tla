---------------------------- MODULE NetParameters ----------------------------
(* The periods and the bounds of module RebootNet. *)
EXTENDS Integers

CONSTANTS
    MaxMinute,     \* bound: minutes
    FreshFor,      \* SNAPSHOT_FRESH_MS in minutes
    HandWindow,    \* how far back an order of the customer counts at least, in minutes
    MaxCuts,       \* bound: reboots of the unit
    MaxOrders,     \* bound: orders of the customer
    MaxSilences    \* bound: calls without an answer, and restarts of the server

ASSUME NetAssumption ==
    {MaxMinute, FreshFor, HandWindow, MaxCuts, MaxOrders, MaxSilences} \subseteq Nat
=============================================================================
