---------------------------- MODULE ExecutionLog ----------------------------
(***************************************************************************)
(* What the table schedule_executions promises, whoever writes it.  A row  *)
(* is keyed by (schedule_id, occurrence_utc, action), so the log is a      *)
(* function of the occurrences.  The scheduler tick, its retry pass, the   *)
(* start-up scan, the catch-up, the reconnect reconcile and the device's   *)
(* own execution reports all write it through guarded statements           *)
(* (INSERT IGNORE, ON DUPLICATE KEY UPDATE, UPDATE .. WHERE status IN ..); *)
(* this module says what those guards are for.                             *)
(***************************************************************************)
CONSTANT Occ            \* the occurrences: one schedule side at one instant

VARIABLES status,       \* status[o] : "none" while the row does not exist
          executedBy    \* executedBy[o] : who switched the relay, if anyone

log == <<status, executedBy>>

\* The states of a row whose switch is not yet accounted for.
OpenStatus == {"pending", "failed", "unverified_offline"}
Statuses   == OpenStatus \union {"none", "executed"}
Executors  == {"none", "device", "server_backup"}

Init ==
    /\ status = [o \in Occ |-> "none"]
    /\ executedBy = [o \in Occ |-> "none"]

\* A row appears once.  A pending row already names the server as the one
\* about to act.  An open row that is not pending names nobody.
Record(o) ==
    /\ status[o] = "none"
    /\ \/ status'[o] = "pending" /\ executedBy'[o] = "server_backup"
       \/ status'[o] \in {"failed", "unverified_offline"} /\ executedBy'[o] = "none"
       \/ status'[o] = "executed" /\ executedBy'[o] = "device"

\* The first writer to reach 'executed' wins and names the executor.
Settle(o) ==
    /\ status[o] \in OpenStatus
    /\ status'[o] = "executed"
    /\ executedBy'[o] \in {"device", "server_backup"}

\* An attempt that was not acknowledged.
Fail(o) ==
    /\ status[o] \in OpenStatus
    /\ status'[o] = "failed"
    /\ executedBy'[o] = "none"

Keep(o) == status'[o] = status[o] /\ executedBy'[o] = executedBy[o]

\* One transaction of the code may touch several rows (scan, reconcile).
Next ==
    /\ status' \in [Occ -> Statuses]
    /\ executedBy' \in [Occ -> Executors]
    /\ \A o \in Occ : Record(o) \/ Settle(o) \/ Fail(o) \/ Keep(o)

Spec == Init /\ [][Next]_log
=============================================================================
