-------------------------- MODULE MCBackupScheduler --------------------------
(* One channel with an ON and a later OFF: the smallest site on which a     *)
(* backup, a retry and a catch-up can get in each other's way.              *)
EXTENDS BackupScheduler

MCOcc     == {"on1", "off2"}
MCRelayOf == [o \in Occ |-> 1]
MCAct     == [o \in Occ |-> IF o = "on1" THEN "on" ELSE "off"]
MCDueAt   == [o \in Occ |-> IF o = "on1" THEN 1 ELSE 2]
MCOne     == {"on1"}
MCSid     == [o \in Occ |-> 7]

\* Two states that differ only in how long ago an expired timestamp was taken
\* behave alike.
Recent(t, age) == IF now - t > age THEN Never ELSE t
View == <<now, srv, world, online, Recent(seen, ReachableMin), state, rows, word, lastCmd,
          sch, cu, hi, cmd, Recent(lastCatchUp, CatchUpEvery - 1), Recent(cuDoneAt, 1), boot, probe,
          hands, faults, hist>>
=============================================================================
