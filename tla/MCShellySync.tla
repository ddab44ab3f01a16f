---------------------------- MODULE MCShellySync ----------------------------
(* Three jobs on two days for a table of two, and a connection that         *)
(* carries one look and two writes.                                         *)
EXTENDS ShellySync, TLC
CONSTANTS j0, j1, j2
MCJobs   == {j0, j1, j2}
MCDayOf  == (j0 :> 0) @@ (j1 :> 1) @@ (j2 :> 1)
MCTimeOf == (j0 :> 0) @@ (j1 :> 0) @@ (j2 :> 1)
=============================================================================
