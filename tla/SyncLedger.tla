----------------------------- MODULE SyncLedger -----------------------------
(***************************************************************************)
(* What the sync columns of a device row promise, whatever the transport:  *)
(* schedule_version counts the edits, device_ack_version is a version that *)
(* the unit really came to hold, and 'synced' says that the unit came to   *)
(* hold the newest edit.                                                   *)
(***************************************************************************)
EXTENDS Naturals

VARIABLES
    ver,      \* devices.schedule_version
    ackVer,   \* devices.device_ack_version
    sync,     \* devices.sync_status
    best      \* the newest edit that was ever installed in the unit

ledger == <<ver, ackVer, sync, best>>

Larger(m, n) == IF m >= n THEN m ELSE n

Init == ver = 0 /\ ackVer = 0 /\ best = 0 /\ sync \in {"pending", "synced"}

\* An edit is committed together with its version.
Edit ==
    /\ ver' = ver + 1 /\ sync' = "pending"
    /\ UNCHANGED <<ackVer, best>>

\* The unit comes to hold some edit there is.
Install ==
    /\ best' \in best..ver
    /\ UNCHANGED <<ver, ackVer, sync>>

\* The server hears that the unit holds version v.
Acknowledge(v) ==
    /\ v <= best
    /\ ackVer' = Larger(ackVer, v)
    /\ sync' = IF v >= ver THEN "synced" ELSE sync
    /\ UNCHANGED <<ver, best>>

\* The server gives up on a push.
Flag ==
    /\ sync' = "error"
    /\ UNCHANGED <<ver, ackVer, best>>

Next == Edit \/ Install \/ Flag \/ \E v \in 0..best : Acknowledge(v)

Spec == Init /\ [][Next]_ledger
=============================================================================
