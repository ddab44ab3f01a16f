------------------------------ MODULE CallCases ------------------------------
(* Who calls in the instance of CallMenu, and which branches of the main menu *)
(* the caller takes. *)
Caller(kind, branches) ==
    [kind |-> kind, branches |-> branches, devices |-> 0, codes |-> {1, 9}, rollout |-> FALSE, phone |-> FALSE]
Asking(devices, codes, rollout, phone) ==
    [Caller("user", {"desk", "status"}) EXCEPT
        !.devices = devices, !.codes = codes, !.rollout = rollout, !.phone = phone]
TheCallers ==
    {Caller(kind, {"orders"}) : kind \in {"pin", "guest", "code", "locked"}}
    \cup {Caller("user", {"words", "orders", "status"}), [Caller("user", {"schedules"}) EXCEPT !.codes = {1}]}
    \cup {Asking(0, {}, FALSE, FALSE), Asking(1, {1}, TRUE, TRUE),
          Asking(2, {1, 9}, TRUE, FALSE), Asking(2, {1}, FALSE, TRUE)}
===============================================================================
