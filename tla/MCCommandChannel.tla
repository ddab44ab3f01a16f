-------------------------- MODULE MCCommandChannel --------------------------
(* Orders that contradict each other, and occurrences that do.             *)
EXTENDS CommandChannel

MCAction == [o \in Orders |-> IF o = 1 THEN "on" ELSE "off"]
MCAct == [k \in 0..MaxNow |-> IF k % 2 = 1 THEN "on" ELSE "off"]
=============================================================================
