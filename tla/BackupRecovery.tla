--------------------------- MODULE BackupRecovery ---------------------------
(***************************************************************************)
(* What the backup scheduler is for: some time after the last disturbance  *)
(* a channel is in the state its schedule asks for.  The specification is  *)
(* BackupScheduler with a clock of quiet minutes beside it; the clock      *)
(* restricts nothing.                                                      *)
(***************************************************************************)
EXTENDS BackupScheduler

VARIABLE calm       \* whole minutes since the last disturbance, at most Settling

\* Two periodic catch-up rounds, counted from the end of the last occurrence's
\* grace window, by a pass that may itself have been held up.  One is not
\* enough: the round may join a run that read the channels before the retry
\* of an older occurrence switched them, and only the next one sees it.
Settling == Grace + 1 + 2 * CatchUpEvery + MaxOverrun

\* Somebody switched, something failed, the server or the unit was away, or
\* the health monitor did not get round to its probe in this minute.
Disturbed ==
    \/ hands' # hands \/ faults' # faults
    \/ ~srv' \/ ~link'
    \/ now' # now /\ probe.due

CalmNext ==
    calm' = IF Disturbed THEN 0
            ELSE IF now' # now /\ calm < Settling THEN calm + 1 ELSE calm

RecoveryInit == Init /\ calm = 0
RecoveryNext == Next /\ CalmNext
RecoverySpec == RecoveryInit /\ [][RecoveryNext]_<<vars, calm>>

\* o is what its relay should be doing: the last occurrence, with no other
\* action in the same minute.
Decides(o) ==
    /\ DueAt[o] <= now
    /\ \A p \in Occ \ {o} :
        RelayOf[p] = RelayOf[o] /\ DueAt[p] <= now =>
            DueAt[p] < DueAt[o] \/ (DueAt[p] = DueAt[o] /\ Act[p] = Act[o])

\* o had the whole settling time, and nothing was under way any more.
HadItsTime(o) == calm = Settling /\ DueAt[o] + Settling <= now /\ Quiet

\* tick.js:418-433: an occurrence the unit slept through is re-applied.
\* After the settling time the channel is in the state of the occurrence
\* that decides it, if the log knows the occurrence, the customer did not
\* switch the channel since and no order counts as the customer's word.
Recovered ==
    \A o \in Occ :
        /\ Decides(o) /\ HadItsTime(o)
        /\ status[o] # "none" /\ ~overruled[o] /\ o \notin word
        => output[RelayOf[o]] = Act[o]

\* tick.js:510-513 promises the same for an occurrence whose minute a slow
\* pass did not serve: the periodic catch-up "covers units that never went
\* offline but missed a backup (slow pass, broker hiccup)".
SlowPassCovered ==
    \A o \in Occ :
        Decides(o) /\ HadItsTime(o) /\ hands = 0 /\ o \notin word => output[RelayOf[o]] = Act[o]

\* tick.js:480 lets only "a hand-made switch after the occurrence" stop the
\* re-application: where the customer has not switched anything, it happens.
OnlyHandsOverrule ==
    \A o \in Occ :
        Decides(o) /\ HadItsTime(o) /\ hands = 0 /\ status[o] # "none" => output[RelayOf[o]] = Act[o]
=============================================================================
