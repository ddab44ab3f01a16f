------------------------- MODULE MCScheduleChannel -------------------------
(* Two edits: the smallest number with an older and a newer push.          *)
EXTENDS ScheduleChannel
=============================================================================
