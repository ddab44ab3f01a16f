----------------------- MODULE BackupScheduler_proofs -----------------------
(***************************************************************************)
(* Proofs about BackupScheduler and BackupRecovery, for any number of      *)
(* channels, any set of occurrences, any grace period and any bounds: type *)
(* correctness, the inductive invariant BeliefsAreEarned, the two safety   *)
(* invariants and the action property GraceLeftAlone it is there for, the  *)
(* implementation of the execution log, and the recovery.                  *)
(*                                                                         *)
(* Layout: type lemmas, one per kind of step; the log; then one lemma per  *)
(* conjunct of the inductive invariant, and the theorems.  The recovery    *)
(* follows with an invariant of its own: how long things take and what the *)
(* calm brings; what may still switch a channel; what is believed of it.   *)
(***************************************************************************)
EXTENDS BackupRecovery, WellFoundedInduction, TLAPS

-----------------------------------------------------------------------------
(* Types *)

\* A guarded UPDATE writes legal statuses and executors only.
LEMMA UpdateType ==
    ASSUME RowsType, NEW S, NEW from, NEW to \in Statuses, NEW who \in Executors,
           Update(S, from, to, who)
    PROVE  RowsType'
BY DEF Update, RowsType

\* The history stays a Boolean per occurrence.
LEMMA WitnessType ==
    ASSUME BoundsType, Witness PROVE held' \in [Occ -> BOOLEAN]
BY DEF Witness, BoundsType

\* A reply moves the heartbeat to the current minute and uses no fault.
LEMMA AnsweredType ==
    ASSUME TypeOK, Answered
    PROVE  seen' \in Minutes /\ faults' \in 0..MaxFaults
BY DEF Answered, TypeOK, WorldType, BoundsType

\* The fault counter stays within its bound.
LEMMA FaultType ==
    ASSUME BoundsType, Fault PROVE faults' \in 0..MaxFaults
BY SizesAssumption DEF Fault, BoundsType

\* A missing reply leaves the heartbeat alone and uses at most one fault.
LEMMA UnansweredType ==
    ASSUME TypeOK, Unanswered
    PROVE  seen' \in Minutes /\ faults' \in 0..MaxFaults
BY FaultType DEF Unanswered, TypeOK, DbType, BoundsType

\* Switch.Set leaves every channel on or off, whether or not the reply arrives.
LEMMA DispatchedType ==
    ASSUME TypeOK, NEW r \in Relays, NEW a \in Actions, NEW ok \in BOOLEAN, Dispatched(r, a, ok)
    PROVE  output' \in [Relays -> Actions] /\ seen' \in Minutes /\ faults' \in 0..MaxFaults
<1>1. output' \in [Relays -> Actions]
  BY DEF Dispatched, TypeOK, WorldType
<1> QED BY <1>1, AnsweredType, UnansweredType DEF Dispatched

\* A status notification records what a channel was switched to.
LEMMA NotifiedType ==
    ASSUME TypeOK, NEW ok \in BOOLEAN, Notified(ok), output' \in [Relays -> Actions]
    PROVE  state' \in [Relays -> Actions \union {"unknown"}]
BY DEF Notified, TypeOK, DbType

\* A reconcile reading holds a state or nothing for each channel.
LEMMA ReadChannelsType ==
    ASSUME TypeOK, NEW read, ReadChannels(read)
    PROVE  read \in Readings /\ seen' \in Minutes /\ faults' \in 0..MaxFaults
<1>1. PICK k \in 0..NRelays :
        /\ read = [r \in Relays |-> IF r <= k THEN output[r] ELSE "none"]
        /\ \/ k = NRelays /\ Answered
           \/ /\ k < NRelays
              /\ IF k = 0 THEN Unanswered ELSE link /\ Fault /\ seen' = now
  BY DEF ReadChannels
<1>2. read \in Readings
  BY <1>1 DEF Readings, TypeOK, WorldType, Actions
<1>3. seen' \in Minutes /\ faults' \in 0..MaxFaults
  BY <1>1, AnsweredType, UnansweredType, FaultType DEF TypeOK, WorldType
<1> QED BY <1>2, <1>3

\* Writing a reading keeps the rows and the recorded channel states legal.
LEMMA ReconciledType ==
    ASSUME TypeOK, NEW read \in Readings, Reconciled(read)
    PROVE  RowsType' /\ state' \in [Relays -> Actions \union {"unknown"}]
<1>1. RowsType'
  BY UpdateType DEF Reconciled, TypeOK, Statuses, Executors
<1>2. state' \in [Relays -> Actions \union {"unknown"}]
  BY DEF Reconciled, TypeOK, DbType, Readings, Actions
<1> QED BY <1>1, <1>2

\* A pass that is done with an occurrence goes on with the next.
LEMMA DoneType == ASSUME ActorsType, NEW o PROVE Done(o) \in Passes /\ Done(o).pc = "next"
BY DEF Done, ActorsType, Passes

\* The idle actors are of their types.
LEMMA IdleType ==
    SchIdle \in Passes /\ SchIdle.pc = "idle" /\ CuIdle \in CatchUps /\ HiIdle \in Hellos /\ CmdIdle \in Commands
<1>1. SchIdle \in Passes /\ SchIdle.pc = "idle"
  BY SizesAssumption DEF SchIdle, Passes, Minutes
<1>2. CuIdle \in CatchUps
  BY SizesAssumption DEF CuIdle, CatchUps, Minutes, Unread, Readings
<1>3. HiIdle \in Hellos
  BY SizesAssumption DEF HiIdle, Hellos, Minutes, Unread, Readings
<1>4. CmdIdle \in Commands
  BY SizesAssumption DEF CmdIdle, Commands, Minutes, Relays, Actions
<1> QED BY <1>1, <1>2, <1>3, <1>4

\* The local jobs of a minute leave every channel on or off.
LEMMA LocalOutputType ==
    ASSUME WorldType, NEW F PROVE LocalOutput(F) \in [Relays -> Actions]
BY DEF LocalOutput, WorldType, Actions

\* A pass that begins is of its type and works on no occurrence yet.
LEMMA StartPassType ==
    ASSUME TypeOK, NEW at \in Minutes, NEW seenNow \in Minutes
    PROVE  /\ StartPass(at, seenNow) \in Passes
           /\ StartPass(at, seenNow).pc \in {"record", "send", "settle"} => StartPass(at, seenNow).cur \in Occ
<1>1. CASE srv /\ sch.pc = "idle"
  <2> DEFINE due == {o \in Occ : DueAt[o] = at - (Grace + 1)}
  <2>1. StartPass(at, seenNow) =
          [SchIdle EXCEPT !.pc = "next", !.at = at, !.online = online, !.seen = seenNow, !.todo = due]
    BY <1>1 DEF StartPass
  <2>2. due \in SUBSET Occ /\ online \in BOOLEAN
    BY DEF TypeOK, DbType
  <2> HIDE DEF due
  <2> QED
    BY <2>1, <2>2, IdleType DEF Passes
<1>2. CASE ~(srv /\ sch.pc = "idle")
  BY <1>2 DEF StartPass, TypeOK, ActorsType
<1> QED BY <1>1, <1>2

\* Calling the catch-up starts a run, joins one or is debounced.
LEMMA CatchUpCalledType ==
    ASSUME TypeOK, NEW joined \in BOOLEAN, CatchUpCalled(joined)
    PROVE  cu' \in CatchUps
BY IdleType DEF CatchUpCalled, TypeOK, ActorsType, WorldType, CatchUps

\* Creating a command records a legal order as the newest of its relay.
LEMMA NewCommandType ==
    ASSUME TypeOK, NEW p \in Senders, NEW r \in Relays, NEW a \in Actions, NewCommand(p, r, a)
    PROVE  cmd' \in [Senders -> Commands] /\ lastCmd' \in [Relays -> Senders \union {"none", "schedule"}]
<1>1. cmd' \in [Senders -> Commands]
  BY DEF NewCommand, TypeOK, ActorsType, WorldType, Commands
<1>2. lastCmd' \in [Relays -> Senders \union {"none", "schedule"}]
  BY DEF NewCommand, TypeOK, DbType
<1> QED BY <1>1, <1>2

\* A finished order leaves, or waits for the catch-up to read its outcome.
LEMMA FinishedType ==
    ASSUME ActorsType, NEW p \in Senders, NEW ok \in BOOLEAN
    PROVE  Finished(p, ok) \in [Senders -> Commands]
BY IdleType DEF Finished, ActorsType, Commands

\* SchStep keeps the types.
LEMMA SchStepType == ASSUME TypeOK, SchStep PROVE TypeOK'
<1>1. ASSUME NEW o \in Occ, SchSkip(o) PROVE TypeOK'
  <2>1. WorldType' /\ DbType' /\ MemoryType' /\ BoundsType'
    BY <1>1 DEF TypeOK, WorldType, DbType, MemoryType, BoundsType, SchSkip, SchFrame,
         mem, NoRpc
  <2>2. RowsType'
    BY <1>1, UpdateType DEF TypeOK, RowsType, SchSkip, rows, InsertIgnore, Statuses,
         OpenStatus, Executors
  <2>3. ActorsType'
    BY <1>1, DoneType DEF TypeOK, ActorsType, SchSkip, SchFrame, WorldType, DbType,
         Passes
  <2> QED
    BY <2>1, <2>2, <2>3 DEF TypeOK
<1>2. ASSUME NEW o \in Occ, SchVerify(o) PROVE TypeOK'
  <2>1. WorldType' /\ RowsType' /\ MemoryType'
    BY <1>2 DEF TypeOK, WorldType, RowsType, MemoryType, SchVerify, SchFrame, mem, rows
  <2>2. DbType'
    BY <1>2, AnsweredType, UnansweredType, OccurrencesAssumption DEF TypeOK, DbType, SchVerify,
         SchFrame, WorldType, ActorsType, Passes
  <2>3. ActorsType'
    <3>1. PICK match \in BOOLEAN : sch' = [sch EXCEPT !.pc = "record", !.cur = o, !.res = match]
      BY <1>2 DEF SchVerify
    <3>2. sch' \in Passes /\ sch'.cur \in Occ
      BY <3>1 DEF TypeOK, ActorsType, Passes
    <3> QED
      BY <1>2, <3>2 DEF TypeOK, ActorsType, SchVerify, SchFrame
  <2>4. BoundsType'
    BY <1>2, AnsweredType, UnansweredType, OccurrencesAssumption DEF TypeOK, BoundsType,
         SchVerify, SchFrame
  <2> QED
    BY <2>1, <2>2, <2>3, <2>4 DEF TypeOK
<1>3. ASSUME SchMatch PROVE TypeOK'
  <2>1. WorldType' /\ MemoryType' /\ BoundsType'
    BY <1>3 DEF TypeOK, WorldType, MemoryType, BoundsType, SchMatch, SchFrame, mem, NoRpc
  <2>2. RowsType'
    BY <1>3, UpdateType, OccurrencesAssumption DEF TypeOK, RowsType, SchMatch, InsertIgnore,
         Statuses, OpenStatus, Executors
  <2>3. DbType'
    BY <1>3, OccurrencesAssumption DEF TypeOK, DbType, SchMatch, SchFrame, NoRpc, WorldType,
         ActorsType, Passes
  <2>4. ActorsType'
    BY <1>3, DoneType, OccurrencesAssumption DEF TypeOK, ActorsType, SchMatch, SchFrame,
         WorldType, DbType, Passes
  <2> QED
    BY <2>1, <2>2, <2>3, <2>4 DEF TypeOK
<1>4. ASSUME SchClaim PROVE TypeOK'
  <2>1. WorldType' /\ MemoryType' /\ BoundsType'
    BY <1>4 DEF TypeOK, WorldType, MemoryType, BoundsType, SchClaim, SchFrame, mem, NoRpc
  <2>2. RowsType'
    BY <1>4, UpdateType, OccurrencesAssumption DEF TypeOK, RowsType, SchClaim, InsertIgnore, rows,
         Statuses, OpenStatus, Executors
  <2>3. DbType'
    BY <1>4, OccurrencesAssumption DEF TypeOK, DbType, SchClaim, SchFrame, NoRpc, WorldType,
         ActorsType, Passes
  <2>4. ActorsType'
    BY <1>4, DoneType, OccurrencesAssumption DEF TypeOK, ActorsType, SchClaim, SchFrame,
         WorldType, DbType, Passes
  <2> QED
    BY <2>1, <2>2, <2>3, <2>4 DEF TypeOK
<1>5. ASSUME SchSend PROVE TypeOK'
  <2>0. sch.cur \in Occ /\ RelayOf[sch.cur] \in Relays /\ Act[sch.cur] \in Actions
    BY <1>5, OccurrencesAssumption DEF SchSend, TypeOK, ActorsType
  <2>1. PICK ok \in BOOLEAN :
          /\ Dispatched(RelayOf[sch.cur], Act[sch.cur], ok) /\ Notified(ok)
          /\ sch' = [sch EXCEPT !.pc = "settle", !.res = ok]
    BY <1>5 DEF SchSend
  <2>2. output' \in [Relays -> Actions] /\ seen' \in Minutes /\ faults' \in 0..MaxFaults
    BY <2>0, <2>1, DispatchedType
  <2>3. state' \in [Relays -> Actions \union {"unknown"}]
    BY <2>1, <2>2, NotifiedType
  <2>4. held' \in [Occ -> BOOLEAN]
    BY <1>5, WitnessType DEF SchSend, TypeOK
  <2>5. WorldType' /\ RowsType' /\ DbType' /\ MemoryType'
    BY <1>5, <2>2, <2>3
       DEF SchSend, SchFrame, TypeOK, WorldType, RowsType, DbType, MemoryType, rows, mem
  <2>6. ActorsType'
    BY <1>5, <2>0, <2>1 DEF SchSend, SchFrame, TypeOK, ActorsType, Passes
  <2>7. BoundsType'
    BY <1>5, <2>2, <2>4 DEF SchSend, SchFrame, TypeOK, BoundsType
  <2> QED
    BY <2>5, <2>6, <2>7 DEF TypeOK
<1>6. ASSUME SchSettle PROVE TypeOK'
  <2>1. WorldType' /\ MemoryType' /\ BoundsType'
    BY <1>6 DEF TypeOK, WorldType, MemoryType, BoundsType, SchSettle, SchFrame, mem, NoRpc
  <2>2. RowsType'
    BY <1>6, UpdateType, OccurrencesAssumption DEF TypeOK, RowsType, SchSettle, Statuses,
         OpenStatus, Executors
  <2>3. DbType'
    BY <1>6, OccurrencesAssumption DEF TypeOK, DbType, SchSettle, SchFrame, NoRpc, WorldType,
         ActorsType, Passes
  <2>4. ActorsType'
    BY <1>6, DoneType, OccurrencesAssumption DEF TypeOK, ActorsType, SchSettle, SchFrame,
         WorldType, DbType, Passes
  <2> QED
    BY <2>1, <2>2, <2>3, <2>4 DEF TypeOK
<1>7. ASSUME SchBeginRetry PROVE TypeOK'
  <2>1. WorldType' /\ RowsType' /\ DbType' /\ MemoryType' /\ BoundsType'
    BY <1>7 DEF TypeOK, WorldType, RowsType, DbType, MemoryType, BoundsType, SchBeginRetry,
         SchFrame, mem, NoRpc, rows
  <2>2. ActorsType'
    BY <1>7 DEF TypeOK, ActorsType, SchBeginRetry, SchFrame, WorldType, DbType, Passes
  <2> QED
    BY <2>1, <2>2 DEF TypeOK
<1>8. ASSUME SchEnd PROVE TypeOK'
  <2>1. WorldType' /\ RowsType' /\ DbType' /\ BoundsType'
    BY <1>8 DEF TypeOK, WorldType, RowsType, DbType, BoundsType, SchEnd, NoRpc, rows
  <2>2. ActorsType'
    BY <1>8, CatchUpCalledType, IdleType DEF TypeOK, ActorsType, SchEnd, WorldType, DbType,
         Passes, CatchUps
  <2>3. MemoryType'
    BY <1>8, SizesAssumption DEF TypeOK, MemoryType, SchEnd, WorldType, Minutes, Never
  <2> QED
    BY <2>1, <2>2, <2>3 DEF TypeOK
<1>9. ASSUME SchAwaited PROVE TypeOK'
  <2>1. WorldType' /\ RowsType' /\ DbType' /\ MemoryType' /\ BoundsType'
    BY <1>9 DEF TypeOK, WorldType, RowsType, DbType, MemoryType, BoundsType, SchAwaited,
         SchFrame, mem, NoRpc, rows
  <2>2. ActorsType'
    BY <1>9, IdleType DEF TypeOK, ActorsType, SchAwaited, SchFrame, WorldType, DbType, Passes
  <2> QED
    BY <2>1, <2>2 DEF TypeOK
<1> QED
  BY <1>1, <1>2, <1>3, <1>4, <1>5, <1>6, <1>7, <1>8, <1>9 DEF SchStep

\* CmdStep keeps the types.
LEMMA CmdStepType == ASSUME TypeOK, CmdStep PROVE TypeOK'
<1>1. ASSUME NEW p \in Senders, CmdSend(p) PROVE TypeOK'
  <2>0. cmd[p].relay \in Relays /\ cmd[p].act \in Actions
    BY <1>1 DEF TypeOK, ActorsType, Commands
  <2>1. PICK ok \in BOOLEAN :
          /\ Dispatched(cmd[p].relay, cmd[p].act, ok)
          /\ cmd' = IF ok THEN [cmd EXCEPT ![p].pc = "verify"] ELSE Finished(p, FALSE)
          /\ state' = IF ok THEN [state EXCEPT ![cmd[p].relay] = cmd[p].act] ELSE state
    BY <1>1 DEF CmdSend
  <2>2. output' \in [Relays -> Actions] /\ seen' \in Minutes /\ faults' \in 0..MaxFaults
    BY <2>0, <2>1, DispatchedType
  <2>3. state' \in [Relays -> Actions \union {"unknown"}]
    BY <2>0, <2>1 DEF TypeOK, DbType
  <2>4. cmd' \in [Senders -> Commands]
    <3>1. CASE ok
      BY <2>1, <3>1 DEF TypeOK, ActorsType, Commands
    <3>2. CASE ~ok
      BY <2>1, <3>2, FinishedType DEF TypeOK
    <3> QED
      BY <3>1, <3>2
  <2>5. overruled' \in [Occ -> BOOLEAN]
    BY <1>1 DEF CmdSend, Overruled, TypeOK, BoundsType
  <2>6. held' \in [Occ -> BOOLEAN]
    BY <1>1, WitnessType DEF CmdSend, TypeOK
  <2>7. WorldType' /\ RowsType' /\ MemoryType'
    BY <1>1, <2>2 DEF CmdSend, CmdFrame, TypeOK, WorldType, RowsType, MemoryType, rows, mem
  <2>8. DbType'
    BY <1>1, <2>2, <2>3 DEF CmdSend, CmdFrame, TypeOK, DbType
  <2>9. ActorsType'
    BY <1>1, <2>4 DEF CmdSend, CmdFrame, TypeOK, ActorsType
  <2>10. BoundsType'
    BY <1>1, <2>2, <2>5, <2>6 DEF CmdSend, TypeOK, BoundsType
  <2> QED
    BY <2>7, <2>8, <2>9, <2>10 DEF TypeOK
<1>2. ASSUME NEW p \in Senders, CmdVerify(p) PROVE TypeOK'
  <2>1. WorldType' /\ RowsType' /\ MemoryType'
    BY <1>2 DEF TypeOK, WorldType, RowsType, MemoryType, CmdVerify, CmdFrame, rows, mem
  <2>2. DbType'
    BY <1>2, UnansweredType, AnsweredType, OccurrencesAssumption DEF TypeOK, DbType, CmdVerify,
         Acked, NotSwitched, StuckOn, CmdFrame, WorldType, ActorsType
  <2>3. ActorsType'
    <3>1. cmd' = Finished(p, TRUE) \/ cmd' = Finished(p, FALSE)
      BY <1>2 DEF CmdVerify, Acked, NotSwitched, StuckOn
    <3>2. cmd' \in [Senders -> Commands]
      BY <3>1, FinishedType DEF TypeOK
    <3> QED
      BY <1>2, <3>2 DEF CmdVerify, CmdFrame, TypeOK, ActorsType
  <2>4. BoundsType'
    BY <1>2, UnansweredType, AnsweredType DEF TypeOK, BoundsType, CmdVerify, hist
  <2> QED
    BY <2>1, <2>2, <2>3, <2>4 DEF TypeOK
<1> QED
  BY <1>1, <1>2 DEF CmdStep

\* CuStep keeps the types.
LEMMA CuStepType == ASSUME TypeOK, CuStep PROVE TypeOK'
<1>1. ASSUME CuRead PROVE TypeOK'
  <2>1. PICK read \in [Relays -> {"on", "off", "none"}] :
          ReadChannels(read) /\ cu' = [cu EXCEPT !.pc = "write", !.read = read]
    BY <1>1 DEF CuRead
  <2>2. read \in Readings /\ seen' \in Minutes /\ faults' \in 0..MaxFaults
    BY <2>1, ReadChannelsType
  <2>3. WorldType' /\ RowsType' /\ DbType' /\ MemoryType'
    BY <1>1, <2>2
       DEF CuRead, CuFrame, TypeOK, WorldType, RowsType, DbType, MemoryType, rows, mem
  <2>4. ActorsType'
    BY <1>1, <2>1, <2>2 DEF CuRead, CuFrame, TypeOK, ActorsType, CatchUps
  <2>5. BoundsType'
    BY <1>1, <2>2 DEF CuRead, CuFrame, TypeOK, BoundsType
  <2> QED
    BY <2>3, <2>4, <2>5 DEF TypeOK
<1>2. ASSUME CuWrite PROVE TypeOK'
  <2>1. RowsType' /\ state' \in [Relays -> Actions \union {"unknown"}]
    BY <1>2, ReconciledType DEF CuWrite, TypeOK, ActorsType, CatchUps
  <2>2. WorldType' /\ MemoryType' /\ BoundsType'
    BY <1>2 DEF CuWrite, CuFrame, NoRpc, TypeOK, WorldType, MemoryType, BoundsType, mem
  <2>3. DbType'
    BY <1>2, <2>1 DEF CuWrite, CuFrame, NoRpc, TypeOK, DbType
  <2>4. {o \in LatestDue(cu.at) : RelayOf[o] \notin RecentRelays(cu.at)} \in SUBSET Occ
    BY DEF LatestDue, LoggedBefore
  <2>5. Unread \in Readings
    BY DEF Unread, Readings
  <2>6. ActorsType'
    BY <1>2, <2>4, <2>5 DEF CuWrite, CuFrame, TypeOK, ActorsType, CatchUps
  <2> QED
    BY <2>1, <2>2, <2>3, <2>6 DEF TypeOK
<1>3. ASSUME CuSettle PROVE TypeOK'
  <2>1. WorldType' /\ DbType' /\ MemoryType' /\ BoundsType'
    BY <1>3 DEF TypeOK, WorldType, DbType, MemoryType, BoundsType, CuSettle, NoRpc, mem, CuFrame
  <2>2. RowsType'
    BY <1>3, UpdateType DEF TypeOK, RowsType, CuSettle, Statuses, OpenStatus, Executors
  <2>3. ActorsType'
    BY <1>3, IdleType DEF TypeOK, ActorsType, CuSettle, CuFrame, WorldType, DbType, CatchUps,
         Commands
  <2> QED
    BY <2>1, <2>2, <2>3 DEF TypeOK
<1>4. ASSUME CuEnd PROVE TypeOK'
  <2>1. WorldType' /\ RowsType' /\ DbType' /\ BoundsType'
    BY <1>4 DEF TypeOK, WorldType, RowsType, DbType, BoundsType, CuEnd, NoRpc, rows, CuFrame
  <2>2. ActorsType'
    BY <1>4, IdleType DEF TypeOK, ActorsType, CuEnd, CuFrame, WorldType, DbType, CatchUps
  <2>3. MemoryType'
    BY <1>4, SizesAssumption DEF TypeOK, MemoryType, CuEnd, WorldType, Minutes, Never
  <2> QED
    BY <2>1, <2>2, <2>3 DEF TypeOK
<1>5. ASSUME BootCatchUp PROVE TypeOK'
  <2>1. WorldType' /\ RowsType' /\ DbType' /\ BoundsType'
    BY <1>5 DEF TypeOK, WorldType, RowsType, DbType, BoundsType, BootCatchUp, NoRpc, rows, CuFrame
  <2>2. ActorsType'
    BY <1>5, CatchUpCalledType DEF TypeOK, ActorsType, BootCatchUp, CuFrame, WorldType, DbType,
         CatchUps
  <2>3. MemoryType'
    BY <1>5, SizesAssumption DEF TypeOK, MemoryType, BootCatchUp, WorldType, Minutes, Never
  <2> QED
    BY <2>1, <2>2, <2>3 DEF TypeOK
<1>6. ASSUME NEW o \in Occ, CuKeep(o) PROVE TypeOK'
  <2>1. WorldType' /\ RowsType' /\ DbType' /\ MemoryType' /\ BoundsType'
    BY <1>6 DEF TypeOK, WorldType, RowsType, DbType, MemoryType, BoundsType, CuKeep, NoRpc, rows,
         mem, CuFrame
  <2>2. ActorsType'
    BY <1>6 DEF TypeOK, ActorsType, CuKeep, CuFrame, WorldType, DbType, CatchUps
  <2> QED
    BY <2>1, <2>2 DEF TypeOK
<1>7. ASSUME NEW o \in Occ, CuApply(o) PROVE TypeOK'
  <2>0. "system" \in Senders /\ RelayOf[o] \in Relays /\ Act[o] \in Actions
    BY <1>7, OccurrencesAssumption DEF Senders
  <2>1. cmd' \in [Senders -> Commands] /\ lastCmd' \in [Relays -> Senders \union {"none", "schedule"}]
    BY <1>7, <2>0, NewCommandType DEF CuApply
  <2>2. WorldType' /\ RowsType' /\ MemoryType' /\ BoundsType'
    BY <1>7
       DEF CuApply, CuFrame, NoRpc, TypeOK, WorldType, RowsType, MemoryType, BoundsType, rows, mem
  <2>3. DbType'
    BY <1>7, <2>1 DEF CuApply, CuFrame, NoRpc, TypeOK, DbType
  <2>4. ActorsType'
    BY <1>7, <2>1 DEF CuApply, CuFrame, TypeOK, ActorsType, CatchUps
  <2> QED
    BY <2>2, <2>3, <2>4 DEF TypeOK
<1> QED
  BY <1>1, <1>2, <1>3, <1>4, <1>5, <1>6, <1>7 DEF CuStep

\* HiStep keeps the types.
LEMMA HiStepType == ASSUME TypeOK, HiStep PROVE TypeOK'
<1>1. ASSUME HiRead PROVE TypeOK'
  <2>1. PICK read \in [Relays -> {"on", "off", "none"}] :
          ReadChannels(read) /\ hi' = [hi EXCEPT !.pc = "write", !.read = read]
    BY <1>1 DEF HiRead
  <2>2. read \in Readings /\ seen' \in Minutes /\ faults' \in 0..MaxFaults
    BY <2>1, ReadChannelsType
  <2>3. WorldType' /\ RowsType' /\ DbType' /\ MemoryType'
    BY <1>1, <2>2
       DEF HiRead, CuFrame, TypeOK, WorldType, RowsType, DbType, MemoryType, rows, mem
  <2>4. ActorsType'
    BY <1>1, <2>1, <2>2 DEF HiRead, CuFrame, TypeOK, ActorsType, Hellos
  <2>5. BoundsType'
    BY <1>1, <2>2 DEF HiRead, CuFrame, TypeOK, BoundsType
  <2> QED
    BY <2>3, <2>4, <2>5 DEF TypeOK
<1>2. ASSUME HiWrite PROVE TypeOK'
  <2>1. RowsType' /\ state' \in [Relays -> Actions \union {"unknown"}]
    BY <1>2, ReconciledType DEF HiWrite, TypeOK, ActorsType, Hellos
  <2>2. WorldType' /\ MemoryType' /\ BoundsType'
    BY <1>2 DEF HiWrite, CuFrame, NoRpc, TypeOK, WorldType, MemoryType, BoundsType, mem
  <2>3. DbType'
    BY <1>2, <2>1 DEF HiWrite, CuFrame, NoRpc, TypeOK, DbType
  <2>4. cu' \in CatchUps
    BY <1>2, CatchUpCalledType DEF HiWrite
  <2>5. ActorsType'
    BY <1>2, <2>4, IdleType DEF HiWrite, CuFrame, TypeOK, ActorsType
  <2> QED
    BY <2>1, <2>2, <2>3, <2>5 DEF TypeOK
<1> QED
  BY <1>1, <1>2 DEF HiStep

\* PresenceStep keeps the types.
LEMMA PresenceStepType == ASSUME TypeOK, PresenceStep PROVE TypeOK'
<1>1. ASSUME HandleDeath PROVE TypeOK'
  <2>1. RowsType' /\ ActorsType' /\ MemoryType' /\ BoundsType'
    BY <1>1 DEF TypeOK, RowsType, ActorsType, MemoryType, BoundsType, HandleDeath, rows, mem, hist
  <2>2. WorldType'
    BY <1>1 DEF TypeOK, WorldType, HandleDeath
  <2>3. DbType'
    BY <1>1 DEF TypeOK, DbType, HandleDeath, WorldType, ActorsType
  <2> QED
    BY <2>1, <2>2, <2>3 DEF TypeOK
<1>2. ASSUME HandleHello PROVE TypeOK'
  <2>1. RowsType' /\ MemoryType' /\ BoundsType'
    BY <1>2 DEF TypeOK, RowsType, MemoryType, BoundsType, HandleHello, rows, mem, hist
  <2>2. WorldType'
    BY <1>2 DEF TypeOK, WorldType, HandleHello
  <2>3. DbType'
    BY <1>2 DEF TypeOK, DbType, HandleHello, WorldType, ActorsType
  <2>4. ActorsType'
    BY <1>2, IdleType DEF TypeOK, ActorsType, HandleHello, WorldType, DbType, Hellos
  <2> QED
    BY <2>1, <2>2, <2>3, <2>4 DEF TypeOK
<1>3. ASSUME ProbeAnswered PROVE TypeOK'
  <2>1. WorldType' /\ RowsType' /\ BoundsType'
    BY <1>3 DEF TypeOK, WorldType, RowsType, BoundsType, ProbeAnswered, world, rows, hist
  <2>2. DbType'
    BY <1>3 DEF TypeOK, DbType, ProbeAnswered, WorldType, ActorsType
  <2>3. ActorsType'
    BY <1>3, IdleType DEF TypeOK, ActorsType, ProbeAnswered, WorldType, DbType, Hellos
  <2>4. MemoryType'
    BY <1>3, SizesAssumption DEF TypeOK, MemoryType, ProbeAnswered, WorldType, Minutes, Never
  <2> QED
    BY <2>1, <2>2, <2>3, <2>4 DEF TypeOK
<1>4. ASSUME ProbeUnanswered PROVE TypeOK'
  <2>1. WorldType' /\ RowsType' /\ ActorsType' /\ BoundsType'
    BY <1>4, UnansweredType DEF TypeOK, WorldType, RowsType, ActorsType, BoundsType,
         ProbeUnanswered, world, rows, hist
  <2>2. DbType'
    BY <1>4, UnansweredType DEF TypeOK, DbType, ProbeUnanswered, WorldType, ActorsType
  <2>3. MemoryType'
    BY <1>4, SizesAssumption DEF TypeOK, MemoryType, ProbeUnanswered, WorldType, Minutes, Never
  <2> QED
    BY <2>1, <2>2, <2>3 DEF TypeOK
<1> QED
  BY <1>1, <1>2, <1>3, <1>4 DEF PresenceStep

\* UnitStep keeps the types.
LEMMA UnitStepType == ASSUME TypeOK, UnitStep PROVE TypeOK'
<1>1. ASSUME Minute PROVE TypeOK'
  <2>1. now' \in Minutes
    BY <1>1, SizesAssumption DEF Minute, TypeOK, WorldType, Minutes
  <2>2. output' \in [Relays -> Actions]
    BY <1>1, LocalOutputType DEF Minute, TypeOK
  <2>3. seen' \in Minutes
    BY <1>1, <2>1 DEF Minute, TypeOK, DbType
  <2>4. state' \in [Relays -> Actions \union {"unknown"}]
    <3>1. (srv /\ link) \in BOOLEAN
      BY DEF TypeOK, WorldType
    <3> QED
      BY <1>1, <2>2, <3>1, NotifiedType DEF Minute
  <2>5. held' \in [Occ -> BOOLEAN]
    BY <1>1, WitnessType DEF Minute, TypeOK
  <2>6. WorldType'
    BY <1>1, <2>1, <2>2 DEF Minute, TypeOK, WorldType
  <2>7. RowsType' /\ DbType'
    BY <1>1, <2>3, <2>4 DEF Minute, TypeOK, RowsType, DbType, rows
  <2>8. ActorsType'
    <3>1. sch' = StartPass(now', seen')
      BY <1>1 DEF Minute
    <3> QED
      BY <1>1, <2>1, <2>3, <3>1, StartPassType DEF Minute, TypeOK, ActorsType
  <2>9. MemoryType'
    BY <1>1 DEF Minute, TypeOK, MemoryType, WorldType
  <2>10. BoundsType'
    BY <1>1, <2>5 DEF Minute, TypeOK, BoundsType
  <2> QED
    BY <2>6, <2>7, <2>8, <2>9, <2>10 DEF TypeOK
<1>2. ASSUME LinkDown PROVE TypeOK'
  <2>1. RowsType' /\ DbType' /\ ActorsType' /\ MemoryType'
    BY <1>2 DEF TypeOK, RowsType, DbType, ActorsType, MemoryType, LinkDown, db, mem
  <2>2. WorldType'
    BY <1>2 DEF TypeOK, WorldType, LinkDown
  <2>3. BoundsType'
    BY <1>2, FaultType DEF TypeOK, BoundsType, LinkDown, hist
  <2> QED
    BY <2>1, <2>2, <2>3 DEF TypeOK
<1>3. ASSUME LinkUp PROVE TypeOK'
  <2>1. RowsType' /\ DbType' /\ ActorsType' /\ MemoryType' /\ BoundsType'
    BY <1>3 DEF TypeOK, RowsType, DbType, ActorsType, MemoryType, BoundsType, LinkUp, db, mem,
         hist
  <2>2. WorldType'
    BY <1>3 DEF TypeOK, WorldType, LinkUp
  <2> QED
    BY <2>1, <2>2 DEF TypeOK
<1>4. ASSUME Crash PROVE TypeOK'
  <2>1. RowsType' /\ DbType'
    BY <1>4 DEF TypeOK, RowsType, DbType, Crash, db
  <2>2. WorldType'
    BY <1>4 DEF TypeOK, WorldType, Crash, world
  <2>3. ActorsType'
    BY <1>4, IdleType DEF TypeOK, ActorsType, Crash, WorldType, DbType, Passes, CatchUps, Hellos,
         Commands
  <2>4. MemoryType'
    <3>1. lastCatchUp' \in Minutes /\ cuDoneAt' \in Minutes \union {Never}
      BY <1>4, SizesAssumption DEF Crash, Minutes
    <3>2. probe' \in [due : BOOLEAN, fails : 0..UnreachableAfter]
      BY <1>4, SizesAssumption DEF Crash
    <3>3. boot' \in BOOLEAN
      BY <1>4 DEF Crash
    <3> QED
      BY <3>1, <3>2, <3>3 DEF MemoryType
  <2>5. BoundsType'
    BY <1>4, FaultType DEF TypeOK, BoundsType, Crash
  <2> QED
    BY <2>1, <2>2, <2>3, <2>4, <2>5 DEF TypeOK
<1>5. ASSUME Restart PROVE TypeOK'
  <2>1. DbType' /\ ActorsType' /\ BoundsType'
    BY <1>5 DEF TypeOK, DbType, ActorsType, BoundsType, Restart, hist
  <2>2. WorldType'
    BY <1>5 DEF TypeOK, WorldType, Restart
  <2>3. RowsType'
    BY <1>5, UpdateType DEF TypeOK, RowsType, Restart, InsertIgnore, Statuses, OpenStatus,
         Executors
  <2>4. MemoryType'
    BY <1>5, SizesAssumption DEF TypeOK, MemoryType, Restart, WorldType, Minutes, Never
  <2> QED
    BY <2>1, <2>2, <2>3, <2>4 DEF TypeOK
<1>6. ASSUME NEW r \in Relays, NEW a \in Actions, WallSwitch(r, a) PROVE TypeOK'
  <2>1. RowsType' /\ ActorsType' /\ MemoryType'
    BY <1>6 DEF TypeOK, RowsType, ActorsType, MemoryType, WallSwitch, rows, mem
  <2>2. WorldType'
    BY <1>6, NotifiedType, WitnessType DEF TypeOK, WorldType, WallSwitch
  <2>3. DbType'
    BY <1>6, NotifiedType DEF TypeOK, DbType, WallSwitch, WorldType, ActorsType
  <2>4. BoundsType'
    <3>1. held' \in [Occ -> BOOLEAN]
      BY <1>6, WitnessType DEF WallSwitch, TypeOK
    <3>2. overruled' \in [Occ -> BOOLEAN]
      BY <1>6 DEF WallSwitch, Overruled, TypeOK, BoundsType
    <3> QED
      BY <1>6, <3>1, <3>2, SizesAssumption DEF WallSwitch, Hand, TypeOK, BoundsType
  <2> QED
    BY <2>1, <2>2, <2>3, <2>4 DEF TypeOK
<1>7. ASSUME NEW r \in Relays, NEW a \in Actions, HandOrder(r, a) PROVE TypeOK'
  <2>1. "hand" \in Senders
    BY DEF Senders
  <2>2. cmd' \in [Senders -> Commands] /\ lastCmd' \in [Relays -> Senders \union {"none", "schedule"}]
    BY <1>7, <2>1, NewCommandType DEF HandOrder
  <2>3. WorldType' /\ RowsType' /\ MemoryType'
    BY <1>7 DEF HandOrder, CmdFrame, TypeOK, WorldType, RowsType, MemoryType, rows, mem
  <2>4. DbType'
    BY <1>7, <2>2 DEF HandOrder, CmdFrame, TypeOK, DbType
  <2>5. ActorsType'
    BY <1>7, <2>2 DEF HandOrder, CmdFrame, TypeOK, ActorsType
  <2>6. BoundsType'
    BY <1>7, SizesAssumption DEF HandOrder, Hand, TypeOK, BoundsType, hist
  <2> QED
    BY <2>3, <2>4, <2>5, <2>6 DEF TypeOK
<1> QED
  BY <1>1, <1>2, <1>3, <1>4, <1>5, <1>6, <1>7 DEF UnitStep

-----------------------------------------------------------------------------
(* What the steps change *)

\* Every step that moves the clock or a channel updates the history.
LEMMA WitnessFrame == ASSUME Next PROVE Witness \/ UNCHANGED <<now, output, held>>
<1>1. CASE SchStep
  BY <1>1 DEF SchStep, SchSkip, SchVerify, SchMatch, SchClaim, SchSend,
       SchSettle, SchBeginRetry, SchEnd, SchAwaited, SchFrame, NoRpc
<1>2. CASE CmdStep
  BY <1>2 DEF CmdStep, CmdSend, CmdVerify, CmdFrame, hist
<1>3. CASE CuStep
  BY <1>3 DEF CuStep, CuRead, CuWrite, CuSettle, CuEnd, BootCatchUp, CuKeep, CuApply, CuFrame, NoRpc
<1>4. CASE HiStep
  BY <1>4 DEF HiStep, HiRead, HiWrite, CuFrame, NoRpc
<1>5. CASE PresenceStep
  BY <1>5 DEF PresenceStep, HandleDeath, HandleHello, ProbeAnswered, ProbeUnanswered, world, hist
<1>6. CASE UnitStep
  BY <1>6 DEF UnitStep, Minute, LinkDown, LinkUp, Crash, Restart, WallSwitch, HandOrder, CmdFrame,
       world, hist
<1> QED
  BY <1>1, <1>2, <1>3, <1>4, <1>5, <1>6 DEF Next

\* The statements that write the execution log; nobody else does.
LEMMA RowsFrame ==
    ASSUME Next
    PROVE  \/ UNCHANGED rows
           \/ \E o \in Occ : SchSkip(o)
           \/ SchMatch \/ SchClaim \/ SchSettle
           \/ CuWrite \/ CuSettle \/ HiWrite \/ Restart
<1>1. CASE SchStep
  BY <1>1 DEF SchStep, SchVerify, SchSend, SchBeginRetry, SchEnd, SchAwaited, rows
<1>2. CASE CmdStep
  BY <1>2 DEF CmdStep, CmdSend, CmdVerify, CmdFrame
<1>3. CASE CuStep
  BY <1>3 DEF CuStep, CuRead, CuEnd, BootCatchUp, CuKeep, CuApply, rows
<1>4. CASE HiStep
  BY <1>4 DEF HiStep, HiRead, rows
<1>5. CASE PresenceStep
  BY <1>5 DEF PresenceStep, HandleDeath, HandleHello, ProbeAnswered, ProbeUnanswered, rows
<1>6. CASE UnitStep
  BY <1>6 DEF UnitStep, Minute, LinkDown, LinkUp, Crash, WallSwitch, HandOrder, CmdFrame, db, rows
<1> QED
  BY <1>1, <1>2, <1>3, <1>4, <1>5, <1>6 DEF Next

-----------------------------------------------------------------------------
(* The execution log is implemented *)

\* INSERT IGNORE only ever records rows.
LEMMA InsertRecords ==
    ASSUME TypeOK, NEW S, NEW st, NEW who, InsertIgnore(S, st, who),
           \/ st = "pending" /\ who = "server_backup"
           \/ st \in {"failed", "unverified_offline"} /\ who = "none"
           \/ st = "executed" /\ who = "device"
    PROVE  Log!Next
<1>1. RowsType'
  BY UpdateType DEF InsertIgnore, TypeOK, Statuses, OpenStatus, Executors
<1>2. ASSUME NEW o \in Occ PROVE Log!Record(o) \/ Log!Keep(o)
  BY DEF InsertIgnore, Update, TypeOK, RowsType, Log!Record, Log!Keep
<1> QED
  BY <1>1, <1>2 DEF Log!Next, RowsType, Statuses, OpenStatus, Executors,
     Log!Statuses, Log!OpenStatus, Log!Executors

\* A guarded UPDATE of open rows settles or fails them.
LEMMA UpdateSettlesOrFails ==
    ASSUME TypeOK, NEW S, NEW from \in SUBSET OpenStatus, NEW to, NEW who, Update(S, from, to, who),
           \/ to = "executed" /\ who \in {"device", "server_backup"}
           \/ to = "failed" /\ who = "none"
    PROVE  Log!Next
<1>1. RowsType'
  BY UpdateType DEF TypeOK, Statuses, OpenStatus, Executors
<1>2. ASSUME NEW o \in Occ PROVE Log!Settle(o) \/ Log!Fail(o) \/ Log!Keep(o)
  BY DEF Update, TypeOK, RowsType, OpenStatus, Log!Settle, Log!Fail, Log!Keep, Log!OpenStatus
<1> QED
  BY <1>1, <1>2 DEF Log!Next, RowsType, Statuses, OpenStatus, Executors,
     Log!Statuses, Log!OpenStatus, Log!Executors

\* Every step of the scheduler is a step of the log or leaves it alone.
LEMMA StepImplementsLog == ASSUME TypeOK, Next PROVE [Log!Next]_Log!log
<1>1. CASE UNCHANGED rows
  BY <1>1 DEF rows, Log!log
<1>2. ASSUME NEW o \in Occ, SchSkip(o) PROVE Log!Next \/ UNCHANGED rows
  BY <1>2, InsertRecords DEF SchSkip
<1>3. CASE SchMatch
  BY <1>3, InsertRecords, UpdateSettlesOrFails DEF SchMatch, OpenStatus
<1>4. CASE SchClaim
  <2>1. UNCHANGED rows \/ InsertIgnore({sch.cur}, "pending", "server_backup")
    BY <1>4 DEF SchClaim
  <2> QED
    BY <2>1, <1>1, InsertRecords
<1>5. CASE SchSettle
  BY <1>5, UpdateSettlesOrFails DEF SchSettle, OpenStatus
<1>6. CASE CuWrite
  BY <1>6, UpdateSettlesOrFails DEF CuWrite, Reconciled, OpenStatus
<1>7. CASE CuSettle
  BY <1>7, UpdateSettlesOrFails DEF CuSettle, OpenStatus
<1>8. CASE HiWrite
  BY <1>8, UpdateSettlesOrFails DEF HiWrite, Reconciled, OpenStatus
<1>9. CASE Restart
  BY <1>9, InsertRecords DEF Restart
<1> QED
  BY <1>1, <1>2, <1>3, <1>4, <1>5, <1>6, <1>7, <1>8, <1>9, RowsFrame DEF rows, Log!log

\* The log starts empty.
LEMMA InitImplementsLog == ASSUME Init PROVE Log!Init
BY DEF Init, Log!Init

-----------------------------------------------------------------------------
(* What was seen is remembered, and beliefs are earned *)

\* The history never forgets, and time never runs backwards.
LEMMA HistoryGrows ==
    ASSUME TypeOK, Next PROVE \A o \in Occ : held[o] => held'[o]
BY WitnessFrame DEF Witness, TypeOK, BoundsType

\* Only the minute hand moves the clock.
LEMMA NowFrame == ASSUME Next PROVE now' = now \/ Minute
<1>1. SchStep => now' = now
  BY DEF SchStep, SchSkip, SchVerify, SchMatch, SchClaim, SchSend,
     SchSettle, SchBeginRetry, SchEnd, SchAwaited, SchFrame
<1>2. CmdStep => now' = now
  BY DEF CmdStep, CmdSend, CmdVerify, CmdFrame
<1>3. CuStep => now' = now
  BY DEF CuStep, CuRead, CuWrite, CuSettle, CuEnd, BootCatchUp, CuKeep, CuApply, CuFrame
<1>4. HiStep => now' = now
  BY DEF HiStep, HiRead, HiWrite, CuFrame
<1>5. PresenceStep => now' = now
  BY DEF PresenceStep, HandleDeath, HandleHello, ProbeAnswered, ProbeUnanswered
<1>6. UnitStep => now' = now \/ Minute
  BY DEF UnitStep, LinkDown, LinkUp, Crash, Restart, WallSwitch, HandOrder, CmdFrame
<1> QED
  BY <1>1, <1>2, <1>3, <1>4, <1>5, <1>6 DEF Next

\* Time never runs backwards.
LEMMA TimePasses == ASSUME TypeOK, Next PROVE now' \in Nat /\ now <= now' /\ now \in Nat
<1>1. now \in Nat
  BY SizesAssumption DEF TypeOK, WorldType, Minutes
<1> QED
  BY <1>1, NowFrame DEF Minute

\* Nothing that was seen of a channel is forgotten or missed.
LEMMA WitnessedStep == ASSUME TypeOK, Witnessed, Next PROVE Witnessed'
<1>1. CASE Witness
  BY <1>1 DEF Witness, Witnessed
<1>2. CASE UNCHANGED <<now, output, held>>
  BY <1>2 DEF Witnessed
<1> QED
  BY <1>1, <1>2, WitnessFrame

\* Who changes a pass, and what remains of the orphans.
LEMMA PassFrame == ASSUME Next PROVE UNCHANGED <<sch, orphaned>> \/ SchStep \/ Minute \/ Crash
<1>1. CASE CmdStep
  BY <1>1 DEF CmdStep, CmdSend, CmdVerify, CmdFrame, hist
<1>2. CASE CuStep
  BY <1>2 DEF CuStep, CuRead, CuWrite, CuSettle, CuEnd, BootCatchUp, CuKeep, CuApply, CuFrame
<1>3. CASE HiStep
  BY <1>3 DEF HiStep, HiRead, HiWrite, CuFrame
<1>4. CASE PresenceStep
  BY <1>4 DEF PresenceStep, HandleDeath, HandleHello, ProbeAnswered, ProbeUnanswered, hist
<1>5. CASE UnitStep
  BY <1>5 DEF UnitStep, LinkDown, LinkUp, Restart, WallSwitch, HandOrder, CmdFrame, hist
<1> QED
  BY <1>1, <1>2, <1>3, <1>4, <1>5 DEF Next

\* What a guarded update does to each row.
LEMMA UpdateEffect ==
    ASSUME RowsType, NEW S, NEW from, NEW to, NEW who, Update(S, from, to, who), NEW p \in Occ
    PROVE  status'[p] = IF p \in S /\ status[p] \in from THEN to ELSE status[p]
BY DEF Update, RowsType

\* The inductive invariant.
IInv == TypeOK /\ BeliefsAreEarned

\* A row changes only with good reason.
Justified(p) ==
    status'[p] # status[p] =>
        /\ status'[p] # "none"
        /\ status[p] = "none" => DueAt[p] + Grace < now'
        /\ status'[p] = "executed" => held'[p]
        /\ status'[p] = "pending" => sch'.pc = "send" /\ sch'.cur = p

\* Every write to the log is justified by what the writer knows at that step.
LEMMA LogStep == ASSUME IInv, Next, NEW p \in Occ PROVE Justified(p)
<1>0. held[p] => held'[p]
  BY HistoryGrows DEF IInv
<1> USE DEF IInv, BeliefsAreEarned
<1>1. CASE UNCHANGED rows
  BY <1>1 DEF rows, Justified
<1>2. ASSUME NEW o \in Occ, SchSkip(o) PROVE Justified(p)
  <2>1. DueAt[o] + Grace < now'
    BY <1>2 DEF SchSkip, Takes, SchFrame, PassIsSound
  <2>2. UNCHANGED rows \/ \E st \in {"failed", "unverified_offline"} : Update({o}, {"none"}, st, "none")
    BY <1>2 DEF SchSkip, InsertIgnore
  <2> QED
    BY <1>1, <2>1, <2>2, UpdateEffect DEF TypeOK, Justified
<1>3. CASE SchMatch
  <2>1. sch.cur \in Occ /\ DueAt[sch.cur] + Grace < now' /\ held[sch.cur]
    BY <1>3 DEF SchMatch, SchFrame, PassIsSound, TypeOK, ActorsType
  <2>2. \E from \in {{"none"}, {"failed"}} : Update({sch.cur}, from, "executed", "device")
    BY <1>3 DEF SchMatch, InsertIgnore
  <2> QED
    BY <1>0, <2>1, <2>2, UpdateEffect DEF TypeOK, Justified
<1>4. CASE SchClaim
  <2>1. sch.cur \in Occ /\ DueAt[sch.cur] + Grace < now'
    BY <1>4 DEF SchClaim, SchFrame, PassIsSound, TypeOK, ActorsType
  <2>2. UNCHANGED rows \/ Update({sch.cur}, {"none"}, "pending", "server_backup")
    BY <1>4 DEF SchClaim, InsertIgnore
  <2>3. status'[sch.cur] = "pending" => sch' = [sch EXCEPT !.pc = "send"]
    BY <1>4 DEF SchClaim
  <2>4. sch' = [sch EXCEPT !.pc = "send"] => sch'.pc = "send" /\ sch'.cur = sch.cur
    BY DEF TypeOK, ActorsType, Passes
  <2> QED
    BY <1>1, <2>1, <2>2, <2>3, <2>4, UpdateEffect DEF TypeOK, Justified
<1>5. CASE SchSettle
  <2>1. sch.cur \in Occ /\ (sch.res => held[sch.cur])
    BY <1>5 DEF SchSettle, PassIsSound, TypeOK, ActorsType
  <2>2. \/ sch.res /\ Update({sch.cur}, {"pending", "failed"}, "executed", "server_backup")
        \/ Update({sch.cur}, {"pending", "failed"}, "failed", "none")
    BY <1>5 DEF SchSettle
  <2> QED
    BY <1>0, <2>1, <2>2, UpdateEffect DEF TypeOK, Justified
<1>6. CASE CuWrite
  <2>1. Update({o \in Occ : cu.read[RelayOf[o]] = Act[o]}, {"unverified_offline"}, "executed", "device")
    BY <1>6 DEF CuWrite, Reconciled
  <2>2. status[p] # "none" => DueAt[p] <= cu.at
    BY <1>6, TimePasses, SizesAssumption, OccurrencesAssumption
       DEF CuWrite, LoggedIsDue, CuReadingIsSound, TypeOK, ActorsType, CatchUps, Minutes
  <2> QED
    BY <1>0, <1>6, <2>1, <2>2, UpdateEffect DEF TypeOK, Justified, CuWrite, CuReadingIsSound
<1>7. CASE CuSettle
  <2>1. \/ cmd["system"].ok /\ Update({cu.cur}, OpenStatus, "executed", "server_backup")
        \/ Update({cu.cur}, {"unverified_offline", "pending"}, "failed", "none")
    BY <1>7 DEF CuSettle
  <2>2. cmd["system"].ok => held[cu.cur]
    BY <1>7 DEF CuSettle, CatchUpIsSound
  <2> QED
    BY <1>0, <2>1, <2>2, UpdateEffect DEF TypeOK, Justified, OpenStatus
<1>8. CASE HiWrite
  <2>1. Update({o \in Occ : hi.read[RelayOf[o]] = Act[o]}, {"unverified_offline"}, "executed", "device")
    BY <1>8 DEF HiWrite, Reconciled
  <2>2. status[p] # "none" => DueAt[p] <= hi.at
    BY <1>8, TimePasses, SizesAssumption, OccurrencesAssumption
       DEF HiWrite, LoggedIsDue, HiReadingIsSound, TypeOK, ActorsType, Hellos, Minutes
  <2> QED
    BY <1>0, <1>8, <2>1, <2>2, UpdateEffect DEF TypeOK, Justified, HiWrite, HiReadingIsSound
<1>9. CASE Restart
  <2>1. Update({o \in Occ : DueAt[o] < now - Grace}, {"none"}, "unverified_offline", "none") /\ now' = now
    BY <1>9 DEF Restart, InsertIgnore
  <2> QED
    BY <2>1, UpdateEffect, TimePasses, SizesAssumption, OccurrencesAssumption DEF TypeOK, Justified
<1> QED
  BY <1>1, <1>2, <1>3, <1>4, <1>5, <1>6, <1>7, <1>8, <1>9, RowsFrame

\* No step claims a switch that did not happen (HeldBeforeExecuted).
LEMMA HeldStep == ASSUME IInv, Next PROVE HeldBeforeExecuted'
BY LogStep, HistoryGrows DEF IInv, BeliefsAreEarned, HeldBeforeExecuted, Justified

\* No step logs an occurrence before its grace is over.
LEMMA LoggedStep == ASSUME IInv, Next PROVE LoggedIsDue'
BY LogStep, TimePasses, SizesAssumption, OccurrencesAssumption
   DEF IInv, BeliefsAreEarned, LoggedIsDue, Justified

\* No step of a living server leaves a pending row behind (PendingIsOwned).
LEMMA PendingStep == ASSUME IInv, Next PROVE PendingIsOwned'
<1> SUFFICES ASSUME NEW o \in Occ, status'[o] = "pending"
             PROVE  (sch'.pc \in {"send", "settle"} /\ sch'.cur = o) \/ o \in orphaned'
  BY DEF PendingIsOwned
<1>1. CASE status[o] # "pending"
  BY <1>1, LogStep DEF Justified
<1>2. CASE status[o] = "pending"
  <2>0. (sch.pc \in {"send", "settle"} /\ sch.cur = o) \/ o \in orphaned
    BY <1>2 DEF IInv, BeliefsAreEarned, PendingIsOwned
  <2>1. CASE UNCHANGED <<sch, orphaned>>
    BY <2>0, <2>1
  <2>2. CASE Crash
    BY <1>2, <2>2 DEF Crash
  <2>3. CASE Minute
    BY <2>0, <2>3 DEF Minute, StartPass
  <2>4. CASE SchStep
    <3>1. orphaned' = orphaned
      BY <2>4 DEF SchStep, SchSkip, SchVerify, SchMatch, SchClaim, SchSend,
           SchSettle, SchBeginRetry, SchEnd, SchAwaited, SchFrame
    <3>2. CASE sch.pc \notin {"send", "settle"}
      BY <2>0, <3>1, <3>2
    <3>3. CASE SchSend
      BY <2>0, <3>1, <3>3 DEF SchSend, IInv, TypeOK, ActorsType, Passes
    <3>4. CASE SchSettle
      <4>1. \E to \in {"executed", "failed"}, who \in Executors :
              Update({sch.cur}, {"pending", "failed"}, to, who)
        BY <3>4 DEF SchSettle, Executors
      <4>2. o # sch.cur
        BY <4>1, UpdateEffect DEF IInv, TypeOK
      <4> QED
        BY <2>0, <3>1, <4>2
    <3> QED
      BY <2>4, <3>2, <3>3, <3>4 DEF SchStep, SchSkip, SchVerify, Takes,
         SchMatch, SchClaim, SchBeginRetry, SchEnd, SchAwaited
  <2> QED
    BY <2>1, <2>2, <2>3, <2>4, PassFrame
<1> QED
  BY <1>1, <1>2

\* What a pass that has just begun looks like.
LEMMA StartedPass ==
    ASSUME NEW at, NEW s, StartPass(at, s) # sch
    PROVE  /\ StartPass(at, s).pc = "next" /\ StartPass(at, s).at = at
           /\ \A o \in StartPass(at, s).todo : o \in Occ /\ DueAt[o] = at - (Grace + 1)
BY DEF StartPass, SchIdle

\* A pass that goes on with less to do, or starts or ends, stays sound.
LEMMA PassStep == ASSUME IInv, Next PROVE PassIsSound'
<1> DEFINE Due(o) == DueAt[o] + Grace < now
<1> USE DEF IInv, BeliefsAreEarned
<1>0. /\ \A o \in Occ : DueAt[o] + Grace < now => DueAt[o] + Grace < now'
      /\ \A o \in Occ : held[o] => held'[o]
      /\ sch.at <= now => sch.at <= now'
  BY TimePasses, HistoryGrows, SizesAssumption, OccurrencesAssumption
     DEF TypeOK, ActorsType, Passes, Minutes
<1>1. CASE UNCHANGED <<sch, orphaned>>
  BY <1>0, <1>1 DEF PassIsSound, TypeOK, ActorsType, Passes
<1>2. CASE Crash
  BY <1>2, SizesAssumption DEF Crash, PassIsSound, SchIdle, TypeOK, WorldType, Minutes
<1>3. CASE Minute
  <2>1. CASE sch' = sch
    BY <1>0, <2>1 DEF PassIsSound, TypeOK, ActorsType, Passes
  <2>2. CASE sch' # sch
    <3>1. /\ sch'.pc = "next" /\ sch'.at = now'
          /\ \A o \in sch'.todo : o \in Occ /\ DueAt[o] = now' - (Grace + 1)
      <4>1. sch' = StartPass(now', seen')
        BY <1>3 DEF Minute
      <4> QED
        BY <2>2, <4>1, StartedPass
    <3>2. now' = now + 1 /\ now \in Nat
      BY <1>3, TimePasses DEF Minute
    <3>3. \A o \in sch'.todo : DueAt[o] + Grace < now'
      BY <3>1, <3>2, SizesAssumption, OccurrencesAssumption
    <3> QED
      BY <3>1, <3>2, <3>3 DEF PassIsSound
  <2> QED
    BY <2>1, <2>2
<1>4. CASE SchStep
  <2>0. now' = now
    BY <1>4 DEF SchStep, SchSkip, SchVerify, SchMatch, SchClaim, SchSend,
         SchSettle, SchBeginRetry, SchEnd, SchAwaited, SchFrame
  <2>1. ASSUME NEW o, sch.pc # "idle", sch' = Done(o) PROVE PassIsSound'
    BY <1>0, <2>0, <2>1 DEF Done, PassIsSound, TypeOK, ActorsType, Passes
  <2>2. ASSUME sch' = SchIdle PROVE PassIsSound'
    BY <2>2 DEF SchIdle, PassIsSound
  <2>3. ASSUME NEW o \in Occ, SchSkip(o) PROVE PassIsSound'
    BY <2>1, <2>3 DEF SchSkip, Takes
  <2>4. ASSUME NEW o \in Occ, SchVerify(o) PROVE PassIsSound'
    <3>1. PICK match \in BOOLEAN :
            /\ (match => output[RelayOf[o]] = Act[o])
            /\ sch' = [sch EXCEPT !.pc = "record", !.cur = o, !.res = match]
      BY <2>4 DEF SchVerify
    <3>2. DueAt[o] + Grace < now /\ sch.at <= now
      BY <2>4 DEF SchVerify, Takes, PassIsSound
    <3>3. match => held[o]
      BY <3>1, <3>2, SizesAssumption, OccurrencesAssumption, TimePasses DEF Witnessed
    <3> QED
      BY <1>0, <2>0, <3>1, <3>2, <3>3 DEF PassIsSound, TypeOK, ActorsType, Passes
  <2>5. CASE SchMatch
    BY <2>1, <2>5 DEF SchMatch
  <2>6. CASE SchClaim
    <3>1. CASE sch' = [sch EXCEPT !.pc = "send"]
      BY <1>0, <2>0, <2>6, <3>1 DEF SchClaim, PassIsSound, TypeOK, ActorsType, Passes
    <3> QED
      BY <2>1, <2>6, <3>1 DEF SchClaim
  <2>7. CASE SchSend
    <3>1. PICK ok \in BOOLEAN :
            /\ ok => output' = [output EXCEPT ![RelayOf[sch.cur]] = Act[sch.cur]]
            /\ sch' = [sch EXCEPT !.pc = "settle", !.res = ok]
      BY <2>7 DEF SchSend, Dispatched
    <3>2. sch.cur \in Occ /\ DueAt[sch.cur] + Grace < now /\ sch.at <= now
      BY <2>7 DEF SchSend, PassIsSound, TypeOK, ActorsType
    <3>3. ok => output'[RelayOf[sch.cur]] = Act[sch.cur]
      BY <3>1, <3>2, OccurrencesAssumption DEF TypeOK, WorldType
    <3>4. ok => held'[sch.cur]
      <4>1. DueAt[sch.cur] <= now'
        BY <2>0, <3>2, SizesAssumption, OccurrencesAssumption, TimePasses
      <4> QED
        BY <2>7, <3>2, <3>3, <4>1 DEF SchSend, Witness
    <3> QED
      BY <1>0, <2>0, <3>1, <3>2, <3>4 DEF PassIsSound, TypeOK, ActorsType, Passes
  <2>8. CASE SchSettle
    BY <2>1, <2>8 DEF SchSettle
  <2>9. CASE SchBeginRetry
    <3>1. \A o \in sch'.todo : DueAt[o] + Grace < now
      BY <2>9 DEF SchBeginRetry, LoggedIsDue, TypeOK, ActorsType, Passes
    <3> QED
      BY <1>0, <2>0, <2>9, <3>1 DEF SchBeginRetry, PassIsSound, TypeOK, ActorsType, Passes
  <2>10. CASE SchEnd
    <3>1. sch' = SchIdle \/ sch' = [sch EXCEPT !.pc = "await"]
      BY <2>10 DEF SchEnd
    <3>2. CASE sch' = [sch EXCEPT !.pc = "await"]
      BY <1>0, <2>0, <2>10, <3>2 DEF SchEnd, PassIsSound, TypeOK, ActorsType, Passes
    <3> QED
      BY <2>2, <3>1, <3>2
  <2>11. CASE SchAwaited
    BY <2>2, <2>11 DEF SchAwaited
  <2> QED
    BY <1>4, <2>3, <2>4, <2>5, <2>6, <2>7, <2>8, <2>9, <2>10, <2>11 DEF SchStep
<1> QED
  BY <1>1, <1>2, <1>3, <1>4, PassFrame

\* Who changes the catch-up or its command.
LEMMA CatchUpFrame ==
    ASSUME TypeOK, Next
    PROVE  \/ cu' = cu /\ cmd'["system"] = cmd["system"]
           \/ CmdSend("system") \/ CmdVerify("system")
           \/ CuRead \/ CuWrite \/ CuSettle \/ CuEnd
           \/ \E o \in Occ : CuKeep(o) \/ CuApply(o)
           \/ (\E joined \in BOOLEAN : CatchUpCalled(joined)) /\ UNCHANGED <<now, cmd>>
           \/ Crash
<1> DEFINE Same == cu' = cu /\ cmd'["system"] = cmd["system"]
<1>1. ASSUME SchStep PROVE \/ Same
                           \/ (\E joined \in BOOLEAN : CatchUpCalled(joined)) /\ UNCHANGED <<now, cmd>>
  BY <1>1 DEF SchStep, SchSkip, SchVerify, SchMatch, SchClaim, SchSend,
       SchSettle, SchBeginRetry, SchEnd, SchAwaited, SchFrame
<1>2. ASSUME CmdStep PROVE Same \/ CmdSend("system") \/ CmdVerify("system")
  <2>1. ASSUME CmdSend("hand") PROVE Same
    <3>1. \E c : cmd' = [cmd EXCEPT !["hand"] = c]
      BY <2>1 DEF CmdSend, Finished
    <3> QED
      BY <2>1, <3>1 DEF CmdSend, TypeOK, ActorsType, Senders
  <2>2. ASSUME CmdVerify("hand") PROVE Same
    <3>1. \E c : cmd' = [cmd EXCEPT !["hand"] = c]
      BY <2>2 DEF CmdVerify, Acked, NotSwitched, StuckOn, Finished
    <3> QED
      BY <2>2, <3>1 DEF CmdVerify, TypeOK, ActorsType, Senders
  <2> QED
    BY <1>2, <2>1, <2>2 DEF CmdStep, Senders
<1>3. ASSUME CuStep
      PROVE  \/ CuRead \/ CuWrite \/ CuSettle \/ CuEnd
             \/ \E o \in Occ : CuKeep(o) \/ CuApply(o)
             \/ Same
             \/ (\E joined \in BOOLEAN : CatchUpCalled(joined)) /\ UNCHANGED <<now, cmd>>
  BY <1>3 DEF CuStep, BootCatchUp, CuFrame
<1>4. ASSUME HiStep PROVE \/ Same
                          \/ (\E joined \in BOOLEAN : CatchUpCalled(joined)) /\ UNCHANGED <<now, cmd>>
  BY <1>4 DEF HiStep, HiRead, HiWrite, CuFrame
<1>5. ASSUME PresenceStep PROVE Same
  BY <1>5 DEF PresenceStep, HandleDeath, HandleHello, ProbeAnswered, ProbeUnanswered
<1>6. ASSUME UnitStep PROVE Same \/ Crash
  <2>1. ASSUME NEW r \in Relays, NEW a \in Actions, HandOrder(r, a) PROVE Same
    BY <2>1 DEF HandOrder, NewCommand, TypeOK, ActorsType, Senders
  <2> QED
    BY <1>6, <2>1 DEF UnitStep, Minute, LinkDown, LinkUp, Restart, WallSwitch
<1> QED
  BY <1>1, <1>2, <1>3, <1>4, <1>5, <1>6 DEF Next

\* A reading shows a channel as it was when it was taken.
LEMMA ReadingIsLive ==
    ASSUME NEW read, ReadChannels(read), NEW o \in Occ, read[RelayOf[o]] = Act[o]
    PROVE  output[RelayOf[o]] = Act[o]
BY OccurrencesAssumption DEF ReadChannels, Actions

\* The reading of the catch-up run stays true of the occurrences due when it began.
LEMMA CuReadingStep == ASSUME IInv, Next PROVE CuReadingIsSound'
<1> USE DEF IInv, BeliefsAreEarned
<1>0. /\ \A o \in Occ : held[o] => held'[o]
      /\ now \in Nat /\ cu.at \in Nat
  BY HistoryGrows, TimePasses, SizesAssumption DEF TypeOK, ActorsType, CatchUps, Minutes
<1>1. ASSUME cu.pc # "idle" PROVE cu.at <= now' /\ now' <= cu.at + 2
  <2>1. CASE now' = now
    BY <1>1, <2>1 DEF CuReadingIsSound
  <2>2. CASE Minute
    BY <1>0, <1>1, <2>2 DEF CuReadingIsSound, Minute, Prompt
  <2> QED
    BY <2>1, <2>2, NowFrame
<1>2. CASE cu' = cu
  BY <1>0, <1>1, <1>2 DEF CuReadingIsSound
<1>3. CASE CuRead
  <2>1. PICK read \in [Relays -> {"on", "off", "none"}] :
          ReadChannels(read) /\ cu' = [cu EXCEPT !.pc = "write", !.read = read]
    BY <1>3 DEF CuRead
  <2>2. cu'.at = cu.at /\ cu'.read = read
    BY <2>1 DEF TypeOK, ActorsType, CatchUps
  <2>3. ASSUME NEW o \in Occ, DueAt[o] <= cu.at, read[RelayOf[o]] = Act[o] PROVE held'[o]
    <3>1. output[RelayOf[o]] = Act[o]
      BY <2>1, <2>3, ReadingIsLive
    <3>2. DueAt[o] <= now
      BY <1>0, <1>3, <2>3, OccurrencesAssumption DEF CuRead, CuReadingIsSound
    <3> QED
      BY <1>0, <3>1, <3>2 DEF Witnessed
  <2> QED
    BY <1>1, <1>3, <2>2, <2>3 DEF CuReadingIsSound, CuRead
<1>4. ASSUME cu.pc # "idle", cu'.pc # "write", cu'.at = cu.at PROVE CuReadingIsSound'
  BY <1>1, <1>4 DEF CuReadingIsSound
<1>5. CASE CuWrite
  BY <1>4, <1>5 DEF CuWrite, TypeOK, ActorsType, CatchUps
<1>6. CASE CuSettle
  BY <1>4, <1>6 DEF CuSettle, TypeOK, ActorsType, CatchUps
<1>7. CASE CuEnd \/ Crash
  BY <1>7 DEF CuEnd, Crash, CuIdle, CuReadingIsSound
<1>8. ASSUME NEW o \in Occ, CuKeep(o) PROVE CuReadingIsSound'
  BY <1>4, <1>8 DEF CuKeep, TypeOK, ActorsType, CatchUps
<1>9. ASSUME NEW o \in Occ, CuApply(o) PROVE CuReadingIsSound'
  BY <1>4, <1>9 DEF CuApply, TypeOK, ActorsType, CatchUps
<1>10. ASSUME NEW joined \in BOOLEAN, CatchUpCalled(joined), now' = now PROVE CuReadingIsSound'
  <2>1. CASE cu' = [CuIdle EXCEPT !.pc = "read", !.at = now]
    BY <1>0, <1>10, <2>1 DEF CuIdle, CuReadingIsSound
  <2> QED
    BY <1>2, <1>10, <2>1 DEF CatchUpCalled
<1>11. CASE CmdSend("system") \/ CmdVerify("system")
  BY <1>2, <1>11 DEF CmdSend, CmdVerify
<1> QED
  BY <1>2, <1>3, <1>5, <1>6, <1>7, <1>8, <1>9, <1>10, <1>11, CatchUpFrame

\* Who changes the reconnect chain.
LEMMA HelloFrame ==
    ASSUME Next
    PROVE  \/ hi' = hi \/ HiRead \/ hi' = HiIdle
           \/ hi' = [HiIdle EXCEPT !.pc = "read", !.at = now] /\ now' = now
<1>1. CASE SchStep
  BY <1>1 DEF SchStep, SchSkip, SchVerify, SchMatch, SchClaim, SchSend,
       SchSettle, SchBeginRetry, SchEnd, SchAwaited, SchFrame
<1>2. CASE CmdStep
  BY <1>2 DEF CmdStep, CmdSend, CmdVerify, CmdFrame
<1>3. CASE CuStep
  BY <1>3 DEF CuStep, CuRead, CuWrite, CuSettle, CuEnd, BootCatchUp, CuKeep, CuApply
<1>4. CASE HiStep
  BY <1>4 DEF HiStep, HiWrite
<1>5. CASE PresenceStep
  BY <1>5 DEF PresenceStep, HandleDeath, HandleHello, ProbeAnswered, ProbeUnanswered
<1>6. CASE UnitStep
  BY <1>6 DEF UnitStep, Minute, LinkDown, LinkUp, Crash, Restart, WallSwitch, HandOrder, CmdFrame
<1> QED
  BY <1>1, <1>2, <1>3, <1>4, <1>5, <1>6 DEF Next

\* So does the reading of the reconnect chain.
LEMMA HiReadingStep == ASSUME IInv, Next PROVE HiReadingIsSound'
<1> USE DEF IInv, BeliefsAreEarned
<1>0. /\ \A o \in Occ : held[o] => held'[o]
      /\ now \in Nat /\ hi.at \in Nat
  BY HistoryGrows, TimePasses, SizesAssumption DEF TypeOK, ActorsType, Hellos, Minutes
<1>1. ASSUME hi.pc # "idle" PROVE hi.at <= now' /\ now' <= hi.at + 1
  <2>1. CASE now' = now
    BY <1>1, <2>1 DEF HiReadingIsSound
  <2>2. CASE Minute
    BY <1>0, <1>1, <2>2 DEF HiReadingIsSound, Minute, Prompt
  <2> QED
    BY <2>1, <2>2, NowFrame
<1>2. CASE hi' = hi
  BY <1>0, <1>1, <1>2 DEF HiReadingIsSound
<1>3. CASE HiRead
  <2>1. PICK read \in [Relays -> {"on", "off", "none"}] :
          ReadChannels(read) /\ hi' = [hi EXCEPT !.pc = "write", !.read = read]
    BY <1>3 DEF HiRead
  <2>2. hi'.at = hi.at /\ hi'.read = read
    BY <2>1 DEF TypeOK, ActorsType, Hellos
  <2>3. ASSUME NEW o \in Occ, DueAt[o] <= hi.at, read[RelayOf[o]] = Act[o] PROVE held'[o]
    <3>1. output[RelayOf[o]] = Act[o]
      BY <2>1, <2>3, ReadingIsLive
    <3>2. DueAt[o] <= now
      BY <1>0, <1>3, <2>3, OccurrencesAssumption DEF HiRead, HiReadingIsSound
    <3> QED
      BY <1>0, <3>1, <3>2 DEF Witnessed
  <2> QED
    BY <1>1, <1>3, <2>2, <2>3 DEF HiReadingIsSound, HiRead
<1>4. CASE hi' = HiIdle
  BY <1>4 DEF HiIdle, HiReadingIsSound
<1>5. CASE hi' = [HiIdle EXCEPT !.pc = "read", !.at = now] /\ now' = now
  BY <1>0, <1>5 DEF HiIdle, HiReadingIsSound
<1> QED
  BY <1>2, <1>3, <1>4, <1>5, HelloFrame

\* The command of the catch-up stays the one its current occurrence asks for.
LEMMA CatchUpStep == ASSUME IInv, Next PROVE CatchUpIsSound'
<1> USE DEF IInv, BeliefsAreEarned
<1>0. /\ \A o \in Occ : held[o] => held'[o]
      /\ \A o \in Occ : DueAt[o] <= now => DueAt[o] <= now'
      /\ cu.todo \subseteq Occ
  BY HistoryGrows, TimePasses, OccurrencesAssumption DEF TypeOK, ActorsType, CatchUps
<1>1. CASE cu' = cu /\ cmd'["system"] = cmd["system"]
  BY <1>0, <1>1 DEF CatchUpIsSound
<1>2. ASSUME cu'.pc # "command", cmd'["system"].pc = "idle", \A o \in cu'.todo : DueAt[o] <= now'
      PROVE  CatchUpIsSound'
  BY <1>2 DEF CatchUpIsSound
<1>3. CASE CuRead
  <2>1. cu'.pc = "write" /\ cu'.todo = cu.todo /\ cmd' = cmd
    BY <1>3 DEF CuRead, TypeOK, ActorsType, CatchUps
  <2> QED
    BY <1>0, <1>2, <1>3, <2>1 DEF CuRead, CatchUpIsSound
<1>4. CASE CuWrite
  <2>1. cu'.pc = "each" /\ cmd' = cmd
    BY <1>4 DEF CuWrite, TypeOK, ActorsType, CatchUps
  <2>2. \A o \in cu'.todo : o \in Occ /\ status'[o] # "none"
    <3> DEFINE S == {o \in LatestDue(cu.at) : RelayOf[o] \notin RecentRelays(cu.at)}
    <3>1. cu' = [cu EXCEPT !.pc = "each", !.read = Unread, !.todo = S]
      BY <1>4 DEF CuWrite
    <3>2. \A o \in S : o \in Occ /\ status[o] # "none"
      BY DEF LatestDue, LoggedBefore
    <3> HIDE DEF S
    <3>3. cu'.todo = S
      BY <3>1 DEF TypeOK, ActorsType, CatchUps
    <3> QED
      BY <3>2, <3>3, LogStep DEF Justified
  <2>3. \A o \in cu'.todo : DueAt[o] <= now'
    BY <2>2, LoggedStep, TimePasses, SizesAssumption, OccurrencesAssumption DEF LoggedIsDue
  <2> QED
    BY <1>2, <1>4, <2>1, <2>3 DEF CuWrite, CatchUpIsSound
<1>5. CASE CuSettle
  <2>1. cu'.pc = "each" /\ cu'.todo \subseteq cu.todo /\ cmd'["system"] = CmdIdle
    BY <1>5 DEF CuSettle, TypeOK, ActorsType, CatchUps, Senders
  <2> QED
    BY <1>0, <1>2, <2>1 DEF CmdIdle, CatchUpIsSound
<1>6. CASE CuEnd
  BY <1>2, <1>6 DEF CuEnd, CuIdle, CatchUpIsSound
<1>7. CASE Crash
  BY <1>2, <1>7 DEF Crash, CuIdle, CmdIdle, Senders
<1>8. ASSUME NEW o \in Occ, CuKeep(o) PROVE CatchUpIsSound'
  <2>1. cu'.pc = "each" /\ cu'.todo \subseteq cu.todo /\ cmd' = cmd
    BY <1>8 DEF CuKeep, TypeOK, ActorsType, CatchUps
  <2> QED
    BY <1>0, <1>2, <1>8, <2>1 DEF CuKeep, CatchUpIsSound
<1>9. ASSUME NEW o \in Occ, CuApply(o) PROVE CatchUpIsSound'
  <2>1. cu'.pc = "command" /\ cu'.cur = o /\ cu'.todo = cu.todo
    BY <1>9 DEF CuApply, TypeOK, ActorsType, CatchUps
  <2>2. cmd'["system"] = [pc |-> "send", relay |-> RelayOf[o], act |-> Act[o], at |-> now, ok |-> FALSE]
    BY <1>9 DEF CuApply, NewCommand, TypeOK, ActorsType, Senders
  <2>3. o \in cu.todo
    BY <1>9 DEF CuApply
  <2> QED
    BY <1>0, <2>1, <2>2, <2>3 DEF CatchUpIsSound
<1>10. ASSUME NEW joined \in BOOLEAN, CatchUpCalled(joined), UNCHANGED <<now, cmd>>
       PROVE  CatchUpIsSound'
  <2>1. CASE cu' = [CuIdle EXCEPT !.pc = "read", !.at = now] /\ cu.pc = "idle"
    BY <1>2, <1>10, <2>1 DEF CuIdle, CatchUpIsSound
  <2> QED
    BY <1>1, <1>10, <2>1 DEF CatchUpCalled
<1>11. CASE CmdSend("system")
  <2>0. cu' = cu /\ now' = now
    BY <1>11 DEF CmdSend, CmdFrame
  <2>1. PICK ok \in BOOLEAN :
          /\ ok => output' = [output EXCEPT ![cmd["system"].relay] = cmd["system"].act]
          /\ cmd' = IF ok THEN [cmd EXCEPT !["system"].pc = "verify"] ELSE Finished("system", FALSE)
    BY <1>11 DEF CmdSend, Dispatched
  <2>2. /\ cmd'["system"].relay = cmd["system"].relay /\ cmd'["system"].act = cmd["system"].act
        /\ ok => cmd'["system"].pc = "verify"
        /\ ~ok => cmd'["system"].pc = "done" /\ cmd'["system"].ok = FALSE
    BY <2>1 DEF Finished, TypeOK, ActorsType, Commands, Senders
  <2>3. ok => held'[cu.cur]
    <3>1. cu.cur \in Occ /\ DueAt[cu.cur] <= now' /\ cmd["system"].act = Act[cu.cur]
          /\ cmd["system"].relay = RelayOf[cu.cur]
      BY <1>11, <2>0 DEF CmdSend, CatchUpIsSound
    <3>2. ok => output'[RelayOf[cu.cur]] = Act[cu.cur]
      BY <2>1, <3>1, OccurrencesAssumption DEF TypeOK, WorldType
    <3> QED
      BY <1>11, <3>1, <3>2 DEF CmdSend, Witness
  <2>4. cmd["system"].pc # "idle" /\ cmd'["system"].pc # "idle"
    BY <1>11, <2>2 DEF CmdSend
  <2> QED
    BY <2>0, <2>2, <2>3, <2>4 DEF CatchUpIsSound
<1>12. CASE CmdVerify("system")
  <2>0. cu' = cu /\ now' = now /\ held' = held
    BY <1>12 DEF CmdVerify, CmdFrame, hist
  <2>1. \E ok \in BOOLEAN : cmd' = [cmd EXCEPT !["system"].pc = "done", !["system"].ok = ok]
    BY <1>12 DEF CmdVerify, Acked, NotSwitched, StuckOn, Finished
  <2>2. /\ cmd'["system"].relay = cmd["system"].relay /\ cmd'["system"].act = cmd["system"].act
        /\ cmd'["system"].pc = "done"
    BY <2>1 DEF TypeOK, ActorsType, Commands, Senders
  <2> QED
    BY <1>12, <2>0, <2>2 DEF CmdVerify, CatchUpIsSound
<1> QED
  BY <1>1, <1>3, <1>4, <1>5, <1>6, <1>7, <1>8, <1>9, <1>10, <1>11, <1>12, CatchUpFrame

\* A run works through what it chose, and chose nothing the tick still owns.
LEMMA GraceStep == ASSUME IInv, Next PROVE GraceIsKept'
<1> USE DEF IInv, BeliefsAreEarned
<1>0. cu \in CatchUps
  BY DEF TypeOK, ActorsType
<1>1. ASSUME cu'.at = cu.at, cu'.todo \subseteq cu.todo, cu'.pc = "command" => cu'.cur \in cu'.todo
      PROVE  GraceIsKept'
  BY <1>1 DEF GraceIsKept, RecentRelays
<1>2. ASSUME cu'.todo = {}, cu'.pc # "command" PROVE GraceIsKept'
  BY <1>2 DEF GraceIsKept
<1>3. CASE cu' = cu
  BY <1>1, <1>3 DEF GraceIsKept
<1>4. CASE CuRead
  <2>1. cu'.at = cu.at /\ cu'.todo = cu.todo /\ cu'.pc = "write"
    BY <1>0, <1>4 DEF CuRead, CatchUps
  <2> QED
    BY <1>1, <2>1
<1>5. CASE CuWrite
  <2> DEFINE S == {o \in LatestDue(cu.at) : RelayOf[o] \notin RecentRelays(cu.at)}
  <2>1. cu' = [cu EXCEPT !.pc = "each", !.read = Unread, !.todo = S]
    BY <1>5 DEF CuWrite
  <2>2. \A o \in S : RelayOf[o] \notin RecentRelays(cu.at)
    OBVIOUS
  <2> HIDE DEF S
  <2>3. cu'.at = cu.at /\ cu'.todo = S /\ cu'.pc = "each"
    BY <1>0, <2>1 DEF CatchUps
  <2> QED
    BY <2>2, <2>3 DEF GraceIsKept, RecentRelays
<1>6. CASE CuSettle
  <2>1. cu'.at = cu.at /\ cu'.todo \subseteq cu.todo /\ cu'.pc = "each"
    BY <1>0, <1>6 DEF CuSettle, CatchUps
  <2> QED
    BY <1>1, <2>1
<1>7. CASE CuEnd \/ Crash
  BY <1>2, <1>7 DEF CuEnd, Crash, CuIdle
<1>8. ASSUME NEW o \in Occ, CuKeep(o) PROVE GraceIsKept'
  <2>1. cu'.at = cu.at /\ cu'.todo \subseteq cu.todo /\ cu'.pc = "each"
    BY <1>0, <1>8 DEF CuKeep, CatchUps
  <2> QED
    BY <1>1, <2>1
<1>9. ASSUME NEW o \in Occ, CuApply(o) PROVE GraceIsKept'
  <2>1. cu'.at = cu.at /\ cu'.todo = cu.todo /\ cu'.cur = o /\ o \in cu.todo
    BY <1>0, <1>9 DEF CuApply, CatchUps
  <2> QED
    BY <1>1, <2>1
<1>10. ASSUME NEW joined \in BOOLEAN, CatchUpCalled(joined) PROVE GraceIsKept'
  <2>1. CASE cu' = [CuIdle EXCEPT !.pc = "read", !.at = now]
    BY <1>2, <2>1 DEF CuIdle
  <2> QED
    BY <1>3, <1>10, <2>1 DEF CatchUpCalled
<1>11. CASE CmdSend("system") \/ CmdVerify("system")
  BY <1>3, <1>11 DEF CmdSend, CmdVerify, CmdFrame
<1> QED
  BY <1>3, <1>4, <1>5, <1>6, <1>7, <1>8, <1>9, <1>10, <1>11, CatchUpFrame

\* In the minute a run began in, its command undoes nothing younger that the
\* tick still owns.
LEMMA GraceRespected ==
    ASSUME IInv, NEW p \in Occ, Undoes(p), cu.at = now
    PROVE  DueAt[p] < now - Grace - 1
<1>1. cu.pc = "command" /\ cmd["system"].relay = RelayOf[cu.cur] /\ cu.cur \in cu.todo
  BY DEF Undoes, IInv, BeliefsAreEarned, CatchUpIsSound, GraceIsKept
<1>2. RelayOf[p] \notin RecentRelays(now)
  BY <1>1 DEF Undoes, IInv, BeliefsAreEarned, GraceIsKept
<1>3. ~(DueAt[p] >= now - Grace - 1 /\ DueAt[p] <= now)
  BY <1>2 DEF RecentRelays
<1>4. now \in Nat /\ DueAt[p] \in Nat
  BY SizesAssumption, OccurrencesAssumption DEF IInv, TypeOK, WorldType, Minutes
<1> QED
  BY <1>3, <1>4, SizesAssumption DEF Undoes

-----------------------------------------------------------------------------
(* Initially, and for ever *)

\* The initial state is of its types.
LEMMA InitType == ASSUME Init PROVE TypeOK
<1>1. WorldType
  BY SizesAssumption DEF Init, WorldType, Minutes, Actions
<1>2. RowsType
  BY DEF Init, RowsType, Statuses, Executors
<1>3. DbType
  BY SizesAssumption DEF Init, DbType, Minutes, Actions
<1>4. ActorsType
  <2>1. sch = SchIdle /\ cu = CuIdle /\ hi = HiIdle /\ cmd = [p \in Senders |-> CmdIdle]
    BY DEF Init
  <2> QED
    BY <2>1, IdleType DEF ActorsType
<1>5. MemoryType
  <2>1. lastCatchUp \in Minutes
    BY SizesAssumption DEF Init, Minutes
  <2>2. cuDoneAt \in Minutes \union {Never}
    BY DEF Init
  <2>3. boot \in BOOLEAN
    BY DEF Init
  <2>4. probe \in [due : BOOLEAN, fails : 0..UnreachableAfter]
    BY SizesAssumption DEF Init
  <2> QED
    BY <2>1, <2>2, <2>3, <2>4 DEF MemoryType
<1>6. BoundsType
  BY SizesAssumption DEF Init, HistoryInit, BoundsType
<1> QED
  BY <1>1, <1>2, <1>3, <1>4, <1>5, <1>6 DEF TypeOK

\* Initially the server believes nothing.
LEMMA InitBeliefs == ASSUME Init PROVE BeliefsAreEarned
<1>1. HeldBeforeExecuted /\ PendingIsOwned /\ LoggedIsDue
  BY DEF Init, HeldBeforeExecuted, PendingIsOwned, LoggedIsDue
<1>2. Witnessed
  BY OccurrencesAssumption DEF Init, Witnessed
<1>3. PassIsSound
  BY DEF Init, SchIdle, PassIsSound
<1>4. CuReadingIsSound /\ HiReadingIsSound
  BY DEF Init, CuIdle, HiIdle, CuReadingIsSound, HiReadingIsSound
<1>5. CatchUpIsSound /\ GraceIsKept
  BY DEF Init, CuIdle, CmdIdle, Senders, CatchUpIsSound, GraceIsKept
<1> QED
  BY <1>1, <1>2, <1>3, <1>4, <1>5 DEF BeliefsAreEarned

\* Every step keeps the types.
LEMMA NextType == ASSUME TypeOK, Next PROVE TypeOK'
BY SchStepType, CmdStepType, CuStepType, HiStepType, PresenceStepType, UnitStepType DEF Next

\* A stuttering step keeps the types.
LEMMA StutterType == ASSUME TypeOK, UNCHANGED vars PROVE TypeOK'
BY DEF vars, world, db, mem, hist, TypeOK, WorldType, RowsType, DbType, ActorsType, MemoryType, BoundsType

\* A stuttering step keeps the beliefs.
LEMMA StutterBeliefs == ASSUME BeliefsAreEarned, UNCHANGED vars PROVE BeliefsAreEarned'
BY DEF vars, world, db, mem, hist, BeliefsAreEarned, HeldBeforeExecuted, PendingIsOwned, Witnessed,
       LoggedIsDue, PassIsSound, CuReadingIsSound, HiReadingIsSound, CatchUpIsSound, GraceIsKept, RecentRelays

\* Every variable keeps its type: the actions of all actors, interleaved in
\* any way, write only values the database columns and the code's records
\* can hold.
THEOREM TypeCorrect == Spec => []TypeOK
<1>1. TypeOK /\ [Next]_vars => TypeOK'
  BY NextType, StutterType
<1> QED
  BY <1>1, InitType, PTL DEF Spec

\* Every belief the server acts on was earned, for any number of channels
\* and occurrences and any grace period: the inductive invariant.
THEOREM BeliefsHold == Spec => []BeliefsAreEarned
<1>1. Init => IInv
  BY InitType, InitBeliefs DEF IInv
<1>2. IInv /\ [Next]_vars => IInv'
  <2>1. ASSUME IInv, Next PROVE BeliefsAreEarned'
    BY <2>1, HeldStep, PendingStep, LoggedStep, WitnessedStep, PassStep, CuReadingStep,
       HiReadingStep, CatchUpStep, GraceStep DEF IInv, BeliefsAreEarned
  <2> QED
    BY <2>1, NextType, StutterType, StutterBeliefs DEF IInv
<1>3. IInv => BeliefsAreEarned
  BY DEF IInv
<1> QED
  BY <1>1, <1>2, <1>3, PTL DEF Spec

\* SPEC 5.4: no execution row is closed as executed before the channel was in
\* the occurrence's state, whoever closed it.
THEOREM HeldCorrect == Spec => []HeldBeforeExecuted
<1>1. BeliefsAreEarned => HeldBeforeExecuted
  BY DEF BeliefsAreEarned
<1> QED
  BY <1>1, BeliefsHold, PTL

\* A pending row has an owner, or is the mark of a crash.
THEOREM PendingCorrect == Spec => []PendingIsOwned
<1>1. BeliefsAreEarned => PendingIsOwned
  BY DEF BeliefsAreEarned
<1> QED
  BY <1>1, BeliefsHold, PTL

\* A catch-up command sent in the minute the run began never undoes a younger
\* occurrence of its channel that the tick still owns: the reverted A/Cs of
\* 2026-10-15, for every grace period and every set of occurrences.
THEOREM GraceCorrect == Spec => GraceLeftAlone
<1> DEFINE Left == \A p \in Occ : ByCatchUp /\ Undoes(p) /\ cu.at = now => DueAt[p] < now - Grace - 1
<1>1. IInv => Left
  BY GraceRespected
<1>2. IInv => [Left]_vars
  BY <1>1
<1>3. TypeOK /\ BeliefsAreEarned => IInv
  BY DEF IInv
<1> QED
  BY <1>2, <1>3, TypeCorrect, BeliefsHold, PTL DEF GraceLeftAlone

\* tick, retry, catch-up, reconcile and start-up together implement the
\* execution log: rows never vanish and the first writer to executed wins.
THEOREM LogImplemented == Spec => ImplementsLog
<1>1. Init => Log!Init
  BY InitImplementsLog
<1>2. TypeOK /\ [Next]_vars => [Log!Next]_Log!log
  <2>1. UNCHANGED vars => UNCHANGED Log!log
    BY DEF vars, db, Log!log
  <2> QED
    BY <2>1, StepImplementsLog
<1> QED
  BY <1>1, <1>2, TypeCorrect, PTL DEF Spec, ImplementsLog, Log!Spec

-----------------------------------------------------------------------------
(* The recovery, when no pass outlasts its minute: how long things take     *)

\* A pass keeps to its minute, and its tick to the occurrences of one minute.
PassIsTimely ==
    /\ sch.pc # "idle" => sch.at = now
    /\ sch.pc # "idle" /\ sch.phase = "tick" => \A o \in sch.todo : DueAt[o] + Grace + 1 = now
    /\ sch.pc \in {"record", "send", "settle"} => sch.cur \in sch.todo
\* An order crosses at most one minute boundary.
CommandsAreTimely == \A p \in Senders : cmd[p].pc # "idle" => cmd[p].at <= now /\ now <= cmd[p].at + 1
\* A server that is down does nothing.
DownIsIdle == ~srv => /\ sch.pc = "idle" /\ cu.pc = "idle" /\ hi.pc = "idle"
                      /\ \A p \in Senders : cmd[p].pc = "idle"
\* The rounds of the catch-up come every CATCH_UP_EVERY_MIN minutes.
RoundsAreTimely ==
    /\ srv => /\ lastCatchUp <= now /\ now <= lastCatchUp + CatchUpEvery
              /\ sch.pc \in {"idle", "await"} => now < lastCatchUp + CatchUpEvery
    /\ cuDoneAt <= now
\* An order is the last word on all occurrences of a minute or on none.
WordIsFair == \A o, q \in Occ : RelayOf[o] = RelayOf[q] /\ DueAt[o] = DueAt[q] /\ o \in word => q \in word
\* The will of a unit that is connected has been replaced by its birth.
TopicIsFollowed == link => topic # "false"

\* Who starts and stops the server and its rounds, who moves the path of the unit
\* and its topic, and what only grows.
LEMMA ServerFrame ==
    ASSUME Next
    PROVE  /\ srv' = srv \/ Crash \/ Restart
           /\ UNCHANGED <<link, topic>> \/ (link' = link /\ topic' = "none") \/ LinkDown \/ LinkUp \/ Restart
           /\ UNCHANGED boot \/ boot' = FALSE \/ Restart
           /\ UNCHANGED lastCatchUp \/ SchEnd \/ Crash \/ Restart
           /\ UNCHANGED cuDoneAt \/ CuEnd \/ Crash
           /\ word' = word \/ \E p \in Senders : Acked(p)
           /\ UNCHANGED probe \/ ProbeAnswered \/ ProbeUnanswered \/ Minute \/ Crash \/ Restart
<1>1. CASE SchStep
  BY <1>1 DEF SchStep, SchSkip, SchVerify, SchMatch, SchClaim, SchSend,
       SchSettle, SchBeginRetry, SchEnd, SchAwaited, SchFrame, mem
<1>2. CASE CmdStep
  BY <1>2 DEF CmdStep, CmdSend, CmdVerify, CmdFrame, mem, NotSwitched, StuckOn
<1>3. CASE CuStep
  BY <1>3 DEF CuStep, CuRead, CuWrite, CuSettle, CuEnd, BootCatchUp, CuKeep, CuApply, CuFrame, mem
<1>4. CASE HiStep
  BY <1>4 DEF HiStep, HiRead, HiWrite, CuFrame, mem
<1>5. CASE PresenceStep
  BY <1>5 DEF PresenceStep, HandleDeath, HandleHello, ProbeAnswered, ProbeUnanswered, mem, world
<1>6. CASE UnitStep
  BY <1>6 DEF UnitStep, Minute, LinkDown, LinkUp, Crash, Restart, WallSwitch, HandOrder, CmdFrame,
     mem, db, world
<1> QED
  BY <1>1, <1>2, <1>3, <1>4, <1>5, <1>6 DEF Next

\* What a pass does to itself.
LEMMA PassMoves ==
    ASSUME TypeOK, SchStep, sch.pc \in {"record", "send", "settle"} => sch.cur \in sch.todo
    PROVE  /\ sch.pc # "idle" /\ now' = now /\ srv' = srv
           /\ \/ sch' = SchIdle
              \/ /\ sch'.pc # "idle" /\ sch'.at = sch.at
                 /\ sch'.online = sch.online /\ sch'.seen = sch.seen
                 /\ (sch'.phase = sch.phase /\ sch'.todo \subseteq sch.todo) \/ SchBeginRetry
                 /\ sch'.pc \in {"record", "send", "settle"} => sch'.cur \in sch'.todo
<1> USE DEF SchFrame
<1>0. sch \in Passes
  BY DEF TypeOK, ActorsType
<1> DEFINE Goes == /\ sch'.pc # "idle" /\ sch'.at = sch.at
                   /\ sch'.online = sch.online /\ sch'.seen = sch.seen
                   /\ (sch'.phase = sch.phase /\ sch'.todo \subseteq sch.todo) \/ SchBeginRetry
                   /\ sch'.pc \in {"record", "send", "settle"} => sch'.cur \in sch'.todo
<1>1. ASSUME NEW o, sch' = Done(o) PROVE Goes
  <2> HIDE DEF SchFrame
  <2> QED BY <1>0, <1>1 DEF Done, Passes
<1>2. ASSUME NEW o \in Occ, SchSkip(o) PROVE Goes
  BY <1>1, <1>2 DEF SchSkip
<1>3. ASSUME NEW o \in Occ, SchVerify(o) PROVE Goes
  BY <1>0, <1>3 DEF SchVerify, Takes, Passes
<1>4. CASE SchMatch
  BY <1>1, <1>4 DEF SchMatch
<1>5. CASE SchClaim
  BY <1>0, <1>1, <1>5 DEF SchClaim, Passes
<1>6. CASE SchSend
  BY <1>0, <1>6 DEF SchSend, Passes
<1>7. CASE SchSettle
  BY <1>1, <1>7 DEF SchSettle
<1>8. CASE SchBeginRetry
  BY <1>0, <1>8 DEF SchBeginRetry, Passes
<1>9. CASE SchEnd
  BY <1>0, <1>9 DEF SchEnd, Passes
<1>10. CASE SchAwaited
  BY <1>10 DEF SchAwaited
<1>11. sch.pc # "idle" /\ now' = now /\ srv' = srv
  BY DEF SchStep, SchSkip, SchVerify, SchMatch, SchClaim, SchSend, SchSettle, SchBeginRetry, SchEnd,
         SchAwaited, Takes
<1> QED
  BY <1>2, <1>3, <1>4, <1>5, <1>6, <1>7, <1>8, <1>9, <1>10, <1>11 DEF SchStep

\* A pass begins with the occurrences of one minute.
LEMMA StartsFresh ==
    ASSUME Minute, srv, sch.pc = "idle"
    PROVE  /\ sch'.pc = "next" /\ sch'.phase = "tick" /\ sch'.at = now'
           /\ sch'.online = online /\ sch'.seen = seen'
           /\ sch'.todo = {o \in Occ : DueAt[o] = now' - (Grace + 1)}
<1>1. sch' = StartPass(now + 1, seen') /\ now' = now + 1
  BY DEF Minute
<1> QED BY <1>1 DEF StartPass, SchIdle

\* What the orders do to themselves.
LEMMA OrderMoves ==
    ASSUME TypeOK, Next, NEW p \in Senders
    PROVE  \/ cmd'[p].pc = "idle"
           \/ cmd[p].pc # "idle" /\ cmd'[p].at = cmd[p].at /\ (now' = now \/ Minute)
           \/ cmd'[p].at = now /\ now' = now /\ (p = "hand" => hands' # hands)
<1>0. cmd \in [Senders -> Commands]
  BY DEF TypeOK, ActorsType
<1>1. CASE cmd' = cmd
  BY <1>1, NowFrame
<1>2. ASSUME NEW q \in Senders, CmdSend(q) \/ CmdVerify(q) PROVE
           \/ cmd'[p].pc = "idle"
           \/ cmd[p].pc # "idle" /\ cmd'[p].at = cmd[p].at /\ now' = now
           \/ cmd'[p] = cmd[p]
  <2>1. \A ok \in BOOLEAN :
           cmd' = Finished(q, ok) =>
               \/ p = q /\ (cmd'[p].pc = "idle" \/ cmd'[p].at = cmd[p].at)
               \/ cmd'[p] = cmd[p]
    BY <1>0 DEF Finished, Commands, CmdIdle
  <2>2. CASE CmdSend(q)
    <3>1. cmd[q].pc # "idle" /\ now' = now
      BY <2>2 DEF CmdSend, CmdFrame
    <3>2. cmd' = [cmd EXCEPT ![q].pc = "verify"] \/ cmd' = Finished(q, FALSE)
      BY <2>2 DEF CmdSend
    <3>3. CASE cmd' = [cmd EXCEPT ![q].pc = "verify"]
      <4>1. (p = q => cmd'[p].at = cmd[p].at) /\ (p # q => cmd'[p] = cmd[p])
        BY <1>0, <3>3 DEF Commands
      <4> QED BY <3>1, <4>1
    <3>4. CASE cmd' = Finished(q, FALSE)
      BY <2>1, <3>1, <3>4
    <3> QED
      BY <3>2, <3>3, <3>4
  <2>3. CASE CmdVerify(q)
    <3>1. cmd[q].pc # "idle" /\ now' = now
      BY <2>3 DEF CmdVerify, CmdFrame
    <3>2. cmd' = Finished(q, TRUE) \/ cmd' = Finished(q, FALSE)
      BY <2>3 DEF CmdVerify, Acked, NotSwitched, StuckOn
    <3> QED
      BY <2>1, <3>1, <3>2
  <2> QED
    BY <1>2, <2>2, <2>3
<1>3. ASSUME NEW q \in Senders, CmdSend(q) \/ CmdVerify(q), cmd'[p] = cmd[p] PROVE now' = now
  BY <1>3 DEF CmdSend, CmdVerify, CmdFrame
<1>4. ASSUME NEW r \in Relays, NEW a \in Actions, HandOrder(r, a)
      PROVE  \/ p = "hand" /\ cmd'[p].at = now /\ now' = now /\ hands' # hands
             \/ cmd'[p] = cmd[p] /\ now' = now
  BY <1>0, <1>4, SizesAssumption DEF HandOrder, NewCommand, CmdFrame, Hand, TypeOK, BoundsType
<1>5. ASSUME NEW o \in Occ, CuApply(o)
      PROVE  (p # "hand" /\ cmd'[p].at = now /\ now' = now) \/ (cmd'[p] = cmd[p] /\ now' = now)
  BY <1>0, <1>5 DEF CuApply, NewCommand, CuFrame
<1>6. CASE CuSettle
  BY <1>0, <1>6 DEF CuSettle, CmdIdle, CuFrame
<1>7. CASE Crash
  BY <1>7 DEF Crash, CmdIdle
<1>8. \/ cmd' = cmd \/ CuSettle \/ Crash
      \/ \E q \in Senders : CmdSend(q) \/ CmdVerify(q)
      \/ \E r \in Relays, a \in Actions : HandOrder(r, a)
      \/ \E o \in Occ : CuApply(o)
  <2>1. SchStep => cmd' = cmd
    BY DEF SchStep, SchSkip, SchVerify, SchMatch, SchClaim, SchSend,
       SchSettle, SchBeginRetry, SchEnd, SchAwaited, SchFrame
  <2>2. CuStep => cmd' = cmd \/ CuSettle \/ \E o \in Occ : CuApply(o)
    BY DEF CuStep, CuRead, CuWrite, CuEnd, BootCatchUp, CuKeep, CuFrame
  <2>3. HiStep \/ PresenceStep => cmd' = cmd
    BY DEF HiStep, HiRead, HiWrite, PresenceStep, HandleDeath, HandleHello, ProbeAnswered, ProbeUnanswered
  <2>4. UnitStep => cmd' = cmd \/ Crash \/ \E r \in Relays, a \in Actions : HandOrder(r, a)
    BY DEF UnitStep, Minute, LinkDown, LinkUp, Restart, WallSwitch
  <2> QED
    BY <2>1, <2>2, <2>3, <2>4 DEF Next, CmdStep
<1>9. cmd'[p] = cmd[p] /\ now' = now =>
        \/ cmd'[p].pc = "idle"
        \/ cmd[p].pc # "idle" /\ cmd'[p].at = cmd[p].at /\ (now' = now \/ Minute)
  OBVIOUS
<1> QED
  BY <1>1, <1>2, <1>3, <1>4, <1>5, <1>6, <1>7, <1>8, <1>9

\* How long the activities of the server last, when no pass outlasts its minute.
Timely ==
    /\ PassIsTimely /\ CommandsAreTimely /\ DownIsIdle
    /\ RoundsAreTimely /\ WordIsFair /\ TopicIsFollowed

\* The times are numbers.
LEMMA Clock ==
    ASSUME TypeOK
    PROVE  /\ now \in Nat /\ cu.at \in Nat /\ hi.at \in Nat /\ sch.at \in Nat
           /\ seen \in Nat /\ sch.seen \in Nat
           /\ lastCatchUp \in Nat /\ cuDoneAt \in Nat \cup {Never}
           /\ \A p \in Senders : cmd[p].at \in Nat
BY SizesAssumption DEF TypeOK, WorldType, DbType, ActorsType, MemoryType, Minutes,
   CatchUps, Hellos, Passes, Commands

\* The minute hand waits for the pass.
LEMMA MinuteAfterPass == ASSUME MaxOverrun = 0, TypeOK, PassIsTimely, Minute PROVE sch.pc = "idle"
BY Clock DEF Minute, Prompt, PassIsTimely

\* A pass keeps to its minute, as the minute waits for it.
LEMMA PassTimelyStep == ASSUME MaxOverrun = 0, TypeOK, Timely, Next PROVE PassIsTimely'
<1> USE DEF Timely
<1>1. CASE sch' = sch /\ now' = now
  BY <1>1 DEF PassIsTimely
<1>2. CASE Minute
  <2>1. sch.pc = "idle" /\ now' = now + 1 /\ sch' = StartPass(now + 1, seen')
    BY <1>2, MinuteAfterPass DEF Minute
  <2>2. CASE srv
    <3>1. /\ sch'.pc = "next" /\ sch'.at = now'
          /\ sch'.todo = {o \in Occ : DueAt[o] = now' - (Grace + 1)}
      BY <1>2, <2>1, <2>2, StartsFresh
    <3>2. \A o \in sch'.todo : DueAt[o] + Grace + 1 = now'
      BY <2>1, <3>1, Clock, SizesAssumption, OccurrencesAssumption
    <3> QED
      BY <3>1, <3>2 DEF PassIsTimely
  <2>3. CASE ~srv
    BY <2>1, <2>3 DEF StartPass, PassIsTimely
  <2> QED
    BY <2>2, <2>3
<1>3. CASE Crash
  BY <1>3 DEF Crash, SchIdle, PassIsTimely
<1>4. CASE SchStep
  <2>1. sch'.pc # "idle" =>
          /\ sch'.at = sch.at /\ now' = now /\ sch.pc # "idle"
          /\ (sch'.phase = sch.phase /\ sch'.todo \subseteq sch.todo) \/ SchBeginRetry
          /\ sch'.pc \in {"record", "send", "settle"} => sch'.cur \in sch'.todo
    BY <1>4, PassMoves DEF PassIsTimely, SchIdle
  <2>2. SchBeginRetry => sch'.phase = "retry"
    BY DEF SchBeginRetry, TypeOK, ActorsType, Passes
  <2> QED
    BY <2>1, <2>2 DEF PassIsTimely
<1> QED
  BY <1>1, <1>2, <1>3, <1>4, PassFrame, NowFrame

\* The minute waits for the orders.
LEMMA CommandsTimelyStep == ASSUME TypeOK, Timely, Next PROVE CommandsAreTimely'
<1> SUFFICES ASSUME NEW p \in Senders, cmd'[p].pc # "idle"
             PROVE  cmd'[p].at <= now' /\ now' <= cmd'[p].at + 1
  BY DEF CommandsAreTimely
<1>0. now \in Nat /\ cmd[p].at \in Nat
  BY Clock
<1>1. CASE cmd[p].pc # "idle" /\ cmd'[p].at = cmd[p].at /\ now' = now
  BY <1>1 DEF Timely, CommandsAreTimely
<1>2. CASE cmd[p].pc # "idle" /\ cmd'[p].at = cmd[p].at /\ Minute
  BY <1>0, <1>2 DEF Minute, Prompt
<1>3. CASE cmd'[p].at = now /\ now' = now
  BY <1>0, <1>3
<1> QED
  BY <1>1, <1>2, <1>3, OrderMoves

\* A server that is down starts nothing.
LEMMA DownStep == ASSUME TypeOK, Timely, Next PROVE DownIsIdle'
<1> SUFFICES ASSUME ~srv'
             PROVE  /\ sch'.pc = "idle" /\ cu'.pc = "idle" /\ hi'.pc = "idle"
                    /\ \A p \in Senders : cmd'[p].pc = "idle"
  BY DEF DownIsIdle
<1>1. CASE Crash
  BY <1>1 DEF Crash, SchIdle, CuIdle, HiIdle, CmdIdle
<1>2. CASE ~Crash
  <2>1. ~srv /\ sch.pc = "idle" /\ cu.pc = "idle" /\ hi.pc = "idle" /\ \A p \in Senders : cmd[p].pc = "idle"
    <3>1. ~srv
      <4>1. ~Restart
        BY DEF Restart
      <4> QED BY <1>2, <4>1, ServerFrame
    <3> QED BY <3>1 DEF Timely, DownIsIdle
  <2>2. sch' = sch /\ cu' = cu /\ hi' = hi /\ cmd' = cmd
    <3>1. ~SchStep /\ ~CmdStep /\ ~HiStep /\ ~PresenceStep
      BY <2>1 DEF SchStep, SchSkip, SchVerify, SchMatch, SchClaim, SchSend, SchSettle, SchBeginRetry, SchEnd,
         SchAwaited, Takes, CmdStep, CmdSend, CmdVerify, HiStep, HiRead, HiWrite,
         PresenceStep, HandleDeath, HandleHello, ProbeAnswered, ProbeUnanswered
    <3>2. ~CuStep
      BY <2>1 DEF CuStep, CuRead, CuWrite, CuSettle, CuEnd, BootCatchUp, CuKeep, CuApply
    <3>3. UnitStep
      BY <3>1, <3>2 DEF Next
    <3> QED
      BY <1>2, <2>1, <3>3 DEF UnitStep, Minute, StartPass, LinkDown, LinkUp, Restart, WallSwitch, HandOrder
  <2> QED
    BY <2>1, <2>2
<1> QED
  BY <1>1, <1>2

\* Every pass looks whether a round is due, and the clock waits for the pass.
LEMMA RoundsTimelyStep == ASSUME MaxOverrun = 0, TypeOK, Timely, Next PROVE RoundsAreTimely'
<1> USE DEF Timely
<1>0. /\ now \in Nat /\ lastCatchUp \in Nat /\ cuDoneAt \in Int /\ CatchUpEvery \in Nat \ {0}
      /\ now' \in Nat /\ now <= now'
  BY Clock, TimePasses, SizesAssumption DEF Never
<1>1. cuDoneAt' <= now'
  <2>1. CASE cuDoneAt' = cuDoneAt
    BY <1>0, <2>1 DEF RoundsAreTimely
  <2>2. CASE CuEnd
    BY <1>0, <2>2 DEF CuEnd
  <2>3. CASE Crash
    BY <1>0, <2>3 DEF Crash, Never
  <2> QED
    BY <2>1, <2>2, <2>3, ServerFrame
<1>2. ASSUME srv'
      PROVE  /\ lastCatchUp' <= now' /\ now' <= lastCatchUp' + CatchUpEvery
             /\ sch'.pc \in {"idle", "await"} => now' < lastCatchUp' + CatchUpEvery
  <2>1. CASE Restart
    BY <1>0, <2>1 DEF Restart
  <2>2. CASE Crash
    BY <1>2, <2>2 DEF Crash
  <2>3. CASE Minute
    <3>1. /\ srv /\ lastCatchUp' = lastCatchUp /\ now' = now + 1
          /\ sch.pc = "idle" /\ sch' = StartPass(now + 1, seen')
      BY <1>2, <2>3, MinuteAfterPass DEF Minute
    <3>2. sch'.pc = "next"
      BY <2>3, <3>1, StartsFresh
    <3> QED
      BY <1>0, <3>1, <3>2 DEF RoundsAreTimely
  <2>4. CASE SchStep
    <3>1. srv /\ now' = now
      BY <1>2, <2>4, PassMoves DEF PassIsTimely
    <3>2. CASE SchEnd
      <4>1. CASE now - lastCatchUp >= CatchUpEvery
        BY <1>0, <3>1, <3>2, <4>1 DEF SchEnd
      <4>2. CASE ~(now - lastCatchUp >= CatchUpEvery)
        BY <1>0, <3>1, <3>2, <4>2 DEF SchEnd, RoundsAreTimely
      <4> QED
        BY <4>1, <4>2
    <3>3. CASE ~SchEnd
      <4>1. lastCatchUp' = lastCatchUp
        BY <2>4, <3>3 DEF SchStep, SchSkip, SchVerify, SchMatch, SchClaim, SchSend,
           SchSettle, SchBeginRetry, SchAwaited, SchFrame, mem
      <4>2. sch'.pc \in {"idle", "await"} => sch.pc \in {"idle", "await"}
        BY <2>4, <3>3 DEF SchStep, SchSkip, SchVerify, SchMatch, SchClaim, SchSend, Done,
           SchSettle, SchBeginRetry, SchAwaited, TypeOK, ActorsType, Passes
      <4> QED
        BY <3>1, <4>1, <4>2 DEF RoundsAreTimely
    <3> QED
      BY <3>2, <3>3
  <2>5. CASE srv' = srv /\ lastCatchUp' = lastCatchUp /\ now' = now /\ sch' = sch
    BY <1>2, <2>5 DEF RoundsAreTimely
  <2> QED
    BY <2>1, <2>2, <2>3, <2>4, <2>5, ServerFrame, PassFrame, NowFrame DEF SchStep
<1> QED
  BY <1>1, <1>2 DEF RoundsAreTimely

\* Orders speak of all occurrences that were due; path and topic change together.
LEMMA WordStep == ASSUME TypeOK, Timely, Next PROVE WordIsFair' /\ TopicIsFollowed'
<1>1. WordIsFair'
  <2>1. CASE word' = word
    BY <2>1 DEF Timely, WordIsFair
  <2>2. ASSUME NEW p \in Senders, Acked(p) PROVE WordIsFair'
    BY <2>2 DEF Timely, WordIsFair, Acked
  <2> QED
    BY <2>1, <2>2, ServerFrame
<1>2. TopicIsFollowed'
  BY ServerFrame DEF Timely, TopicIsFollowed, LinkDown, LinkUp, Restart
<1> QED
  BY <1>1, <1>2

-----------------------------------------------------------------------------
(* The calm *)

\* The hypotheses on the sizes: no pass outlasts its minute, and a unit that was
\* heard of in this minute or the one before counts as reachable.
Sizes == MaxOverrun = 0 /\ ReachableMin >= 1 /\ CatchUpEvery >= 3

\* The last disturbance is some minutes away.
CalmIsCalm ==
    /\ calm \in 0..Settling
    /\ calm >= 1 => /\ srv /\ link /\ topic = "none" /\ ~boot
                    /\ cmd["hand"].pc # "idle" => cmd["hand"].at < now
                    /\ ~probe.due => online /\ seen = now
    /\ calm >= 2 => /\ cmd["hand"].pc = "idle"
                    /\ online /\ now - seen <= 1
                    /\ sch.pc # "idle" => sch.online /\ now - sch.seen <= 1 /\ (sch.pc = "settle" => sch.res)
                    /\ hi.pc # "idle" => hi.at < now
    /\ calm >= 3 => hi.pc = "idle"

\* The settling time is a number of minutes.
LEMMA SettlingType == Settling \in Nat
BY SizesAssumption DEF Settling

\* What a step does to the clock of quiet minutes.
LEMMA CalmStep ==
    ASSUME TypeOK, calm \in 0..Settling, Next, CalmNext
    PROVE  /\ calm' \in 0..Settling
           /\ calm' <= calm + (now' - now)
           /\ calm' >= 1 => /\ hands' = hands /\ faults' = faults /\ srv' /\ link'
                            /\ (now' = now /\ calm' = calm) \/ (Minute /\ ~probe.due /\ now' = now + 1)
<1>1. calm \in Nat /\ now \in Nat /\ Settling \in Nat /\ now' \in Nat /\ now <= now'
  BY SettlingType, Clock, TimePasses
<1>2. now' = now \/ (Minute /\ now' = now + 1)
  BY NowFrame DEF Minute
<1>3. \/ calm' = 0
      \/ ~Disturbed /\ calm' = calm /\ now' = now
      \/ ~Disturbed /\ now' = now + 1 /\ calm' \in {calm, calm + 1} /\ calm' <= Settling
  BY <1>1, <1>2 DEF CalmNext
<1>4. calm' \in 0..Settling /\ calm' <= calm + (now' - now)
  BY <1>1, <1>3
<1>5. calm' >= 1 => ~Disturbed /\ ((now' = now /\ calm' = calm) \/ now' = now + 1)
  BY <1>3
<1>6. ~Disturbed => hands' = hands /\ faults' = faults /\ srv' /\ link' /\ (now' # now => ~probe.due)
  BY DEF Disturbed
<1>7. calm' >= 1 => (now' = now /\ calm' = calm) \/ (Minute /\ ~probe.due /\ now' = now + 1)
  <2> SUFFICES ASSUME calm' >= 1, ~(now' = now /\ calm' = calm) PROVE Minute /\ ~probe.due /\ now' = now + 1
    OBVIOUS
  <2>1. now' = now + 1 /\ now' # now
    BY <1>1, <1>5
  <2> QED
    BY <1>2, <1>5, <1>6, <2>1
<1> QED
  BY <1>4, <1>5, <1>6, <1>7

\* While it is calm every RPC is answered.
LEMMA CalmAnswers ==
    ASSUME TypeOK, link, faults' = faults
    PROVE  ~Unanswered /\ ~Fault
BY DEF Unanswered, Fault, TypeOK, BoundsType

\* While it is calm nobody switches and nothing fails.
LEMMA CalmActions ==
    ASSUME TypeOK, hands' = hands, faults' = faults, srv, link, srv', topic = "none"
    PROVE  /\ ~LinkDown /\ ~LinkUp /\ ~Crash /\ ~Restart /\ ~HandleDeath /\ ~HandleHello /\ ~ProbeUnanswered
           /\ \A r \in Relays, a \in Actions : ~WallSwitch(r, a) /\ ~HandOrder(r, a)
<1>1. ~Fault /\ ~Unanswered /\ ~Hand
  BY CalmAnswers DEF Hand, TypeOK, BoundsType
<1> QED
  BY <1>1 DEF LinkDown, LinkUp, Crash, Restart, HandleDeath, HandleHello, ProbeUnanswered, WallSwitch, HandOrder

\* What a pass does while it is calm: the row of the unit stays fresh.
LEMMA CalmPass ==
    ASSUME TypeOK, SchStep, link, faults' = faults, sch.pc = "settle" => sch.res
    PROVE  sch'.pc = "settle" => sch'.res
<1>0. sch \in Passes /\ ~Unanswered
  BY CalmAnswers DEF TypeOK, ActorsType
<1>1. CASE SchSend
  <2>1. PICK ok \in BOOLEAN :
          Dispatched(RelayOf[sch.cur], Act[sch.cur], ok) /\ sch' = [sch EXCEPT !.pc = "settle", !.res = ok]
    BY <1>1 DEF SchSend
  <2>2. ok
    BY <1>0, <2>1 DEF Dispatched
  <2> QED BY <1>0, <2>1, <2>2 DEF Passes
<1>2. ASSUME NEW o, sch' = Done(o) PROVE sch'.pc = "next"
  BY <1>0, <1>2 DEF Done, Passes
<1>3. ASSUME NEW o \in Occ, SchVerify(o) PROVE sch'.pc = "record"
  BY <1>0, <1>3 DEF SchVerify, Passes
<1>4. CASE SchClaim
  BY <1>0, <1>2, <1>4 DEF SchClaim, Passes
<1>5. CASE SchBeginRetry
  BY <1>0, <1>5 DEF SchBeginRetry, Passes
<1>6. CASE SchEnd
  BY <1>0, <1>6 DEF SchEnd, SchIdle, Passes
<1>7. CASE SchAwaited
  BY <1>7 DEF SchAwaited, SchIdle
<1> QED BY <1>1, <1>2, <1>3, <1>4, <1>5, <1>6, <1>7 DEF SchStep, SchSkip, SchMatch, SchSettle

\* Who moves the flag and the heartbeat of the unit.
LEMMA PresenceFrame ==
    ASSUME TypeOK, Next
    PROVE  /\ online' = online \/ HandleDeath \/ HandleHello \/ ProbeAnswered \/ ProbeUnanswered
           /\ seen' \in {seen, now, now'}
           /\ \/ hi' = hi \/ hi'.pc = "idle"
              \/ HiRead /\ hi.pc # "idle" /\ hi'.at = hi.at
              \/ HandleHello \/ (ProbeAnswered /\ ~online)
<1>1. CASE SchStep
  <2>1. online' = online /\ hi' = hi
    BY <1>1 DEF SchStep, SchSkip, SchVerify, SchMatch, SchClaim, SchSend,
       SchSettle, SchBeginRetry, SchEnd, SchAwaited, SchFrame
  <2>2. SchSend \/ (\E o \in Occ : SchVerify(o)) => seen' \in {seen, now}
    BY DEF SchSend, SchVerify, Answered, Unanswered, Dispatched
  <2>3. seen' \in {seen, now}
    BY <1>1, <2>2 DEF SchStep, SchSkip, SchMatch, SchClaim,
       SchSettle, SchBeginRetry, SchEnd, SchAwaited, NoRpc
  <2> QED
    BY <2>1, <2>3
<1>2. CASE CmdStep
  BY <1>2 DEF CmdStep, CmdSend, CmdVerify, CmdFrame, Answered, Unanswered, Dispatched
<1>3. CASE CuStep
  <2>1. CASE CuRead
    BY <2>1 DEF CuRead, CuFrame, ReadChannels, Answered, Unanswered
  <2> QED BY <1>3, <2>1 DEF CuStep, CuWrite, CuSettle, CuEnd, BootCatchUp, CuKeep, CuApply, CuFrame, NoRpc
<1>4. CASE HiRead
  <2>1. hi.pc # "idle" /\ hi'.at = hi.at
    BY <1>4 DEF HiRead, TypeOK, ActorsType, Hellos
  <2> QED BY <1>4, <2>1 DEF HiRead, CuFrame, ReadChannels, Answered, Unanswered
<1>5. CASE HiWrite
  BY <1>5 DEF HiWrite, CuFrame, NoRpc, HiIdle
<1>6. CASE PresenceStep
  BY <1>6 DEF PresenceStep, HandleDeath, HandleHello, ProbeAnswered, ProbeUnanswered, Unanswered
<1>7. CASE UnitStep
  BY <1>7 DEF UnitStep, Minute, LinkDown, LinkUp, Crash, Restart, WallSwitch, HandOrder, CmdFrame, HiIdle, db
<1> QED
  BY <1>1, <1>2, <1>3, <1>4, <1>5, <1>6, <1>7 DEF Next, HiStep

\* The calm stays calm.
LEMMA CalmHolds ==
    ASSUME Sizes, TypeOK, BeliefsAreEarned, Timely, CalmIsCalm, Next, CalmNext
    PROVE  CalmIsCalm'
<1> USE DEF Sizes
<1>0. /\ now \in Nat /\ seen \in Nat /\ calm \in Nat /\ hi.at \in Nat
      /\ cmd["hand"].at \in Nat /\ sch.seen \in Nat
      /\ calm' \in Nat /\ now' \in Nat /\ seen' \in Nat
  <2>1. calm \in 0..Settling
    BY DEF CalmIsCalm
  <2>2. now' \in Nat /\ seen' \in Nat
    BY NextType, Clock DEF TypeOK, WorldType, DbType, Minutes
  <2> QED BY <2>1, <2>2, Clock, CalmStep, SettlingType DEF Senders
<1>6. calm' \in 0..Settling
  BY CalmStep DEF CalmIsCalm
<1>1. ASSUME calm' >= 1
      PROVE  \/ now' = now /\ calm' = calm /\ calm >= 1
             \/ /\ Minute /\ ~probe.due /\ now' = now + 1 /\ calm' <= calm + 1
                /\ srv /\ link /\ sch.pc = "idle"
  <2>1. \/ now' = now /\ calm' = calm
        \/ Minute /\ ~probe.due /\ now' = now + 1 /\ calm' <= calm + 1
    <3>1. calm \in 0..Settling
      BY DEF CalmIsCalm
    <3>2. /\ calm' <= calm + (now' - now)
          /\ (now' = now /\ calm' = calm) \/ (Minute /\ ~probe.due /\ now' = now + 1)
      BY <1>1, <3>1, CalmStep
    <3>3. now' = now + 1 => calm' <= calm + 1
      BY <1>0, <3>2
    <3> QED BY <3>2, <3>3
  <2>2. CASE Minute /\ ~probe.due /\ now' = now + 1 /\ calm' <= calm + 1
    <3>1. srv' /\ link'
      BY <1>1, CalmStep DEF CalmIsCalm
    <3>2. srv' = srv /\ link' = link
      BY <2>2 DEF Minute
    <3>3. sch.pc = "idle"
      BY <2>2, MinuteAfterPass DEF Timely
    <3> QED BY <2>2, <3>1, <3>2, <3>3
  <2> QED BY <1>1, <2>1, <2>2
<1>2. ASSUME now' = now, calm' = calm, calm >= 1
      PROVE  /\ hands' = hands /\ faults' = faults /\ srv /\ link /\ srv' /\ link' /\ topic = "none"
             /\ ~LinkDown /\ ~LinkUp /\ ~Crash /\ ~Restart /\ ~HandleDeath /\ ~HandleHello /\ ~ProbeUnanswered
             /\ ~Minute
  <2>1. hands' = hands /\ faults' = faults /\ srv' /\ link'
    BY <1>2, CalmStep DEF CalmIsCalm
  <2>2. srv /\ link /\ topic = "none"
    BY <1>2 DEF CalmIsCalm
  <2>3. ~Minute
    BY <1>0, <1>2 DEF Minute
  <2> QED BY <2>1, <2>2, <2>3, CalmActions
<1>3. ASSUME calm' >= 1
      PROVE  /\ srv' /\ link' /\ topic' = "none" /\ ~boot'
             /\ cmd'["hand"].pc # "idle" => cmd'["hand"].at < now'
             /\ ~probe'.due => online' /\ seen' = now'
  <2>1. CASE now' = now /\ calm' = calm /\ calm >= 1
    <3>1. srv' /\ link' /\ topic' = "none" /\ ~boot'
      <4>1. topic = "none" /\ ~boot
        BY <2>1 DEF CalmIsCalm
      <4>2. srv' /\ link' /\ topic' = "none"
        BY <1>2, <2>1, <4>1, ServerFrame
      <4>3. ~boot'
        BY <1>2, <2>1, <4>1, ServerFrame
      <4> QED BY <4>2, <4>3
    <3>2. cmd'["hand"].pc # "idle" => cmd'["hand"].at < now'
      <4>1. cmd'["hand"].pc # "idle" => cmd["hand"].pc # "idle" /\ cmd'["hand"].at = cmd["hand"].at
        BY <1>2, <2>1, OrderMoves DEF Senders
      <4> QED BY <2>1, <4>1 DEF CalmIsCalm
    <3>3. ~probe'.due => online' /\ seen' = now'
      <4>1. CASE ProbeAnswered
        BY <2>1, <4>1 DEF ProbeAnswered
      <4>2. CASE ~ProbeAnswered
        BY <1>2, <2>1, <4>2, ServerFrame, PresenceFrame DEF CalmIsCalm
      <4> QED BY <4>1, <4>2
    <3> QED BY <3>1, <3>2, <3>3
  <2>2. CASE Minute /\ now' = now + 1 /\ srv /\ link
    <3>1. srv' /\ link' /\ topic' = topic /\ boot' = boot /\ cmd' = cmd /\ probe'.due = srv
      BY <2>2 DEF Minute, TypeOK, MemoryType
    <3>2. topic # "true" /\ ~boot
      BY <2>2 DEF Minute, Prompt
    <3>3. topic = "none"
      BY <2>2, <3>2 DEF Timely, TopicIsFollowed, TypeOK, WorldType
    <3>4. cmd["hand"].pc # "idle" => cmd["hand"].at <= now
      BY DEF Timely, CommandsAreTimely, Senders
    <3> QED BY <1>0, <2>2, <3>1, <3>2, <3>3, <3>4
  <2> QED BY <1>1, <1>3, <2>1, <2>2
<1>4. ASSUME calm' >= 2
      PROVE  /\ cmd'["hand"].pc = "idle"
             /\ online' /\ now' - seen' <= 1
             /\ sch'.pc # "idle" => sch'.online /\ now' - sch'.seen <= 1 /\ (sch'.pc = "settle" => sch'.res)
             /\ hi'.pc # "idle" => hi'.at < now'
  <2>1. CASE now' = now /\ calm' = calm
    <3>0. calm >= 2 /\ calm >= 1
      BY <1>0, <1>4, <2>1
    <3>1. cmd'["hand"].pc = "idle"
      BY <1>2, <2>1, <3>0, OrderMoves DEF Senders, CalmIsCalm
    <3>2. online' /\ now' - seen' <= 1
      <4>1. online'
        BY <1>2, <2>1, <3>0, PresenceFrame DEF CalmIsCalm, ProbeAnswered
      <4>2. now' - seen' <= 1
        <5>1. now - seen <= 1
          BY <3>0 DEF CalmIsCalm
        <5>2. seen' = seen \/ seen' = now
          BY <2>1, PresenceFrame
        <5>3. CASE seen' = seen
          BY <2>1, <5>1, <5>3
        <5>4. CASE seen' = now
          <6>1. now \in Nat
            BY <1>0
          <6>2. now - now <= 1
            BY <6>1
          <6> QED BY <2>1, <5>4, <6>2
        <5> QED BY <5>2, <5>3, <5>4
      <4> QED BY <4>1, <4>2
    <3>3. sch'.pc # "idle" => sch'.online /\ now' - sch'.seen <= 1 /\ (sch'.pc = "settle" => sch'.res)
      <4>1. CASE sch' = sch
        BY <2>1, <3>0, <4>1 DEF CalmIsCalm
      <4>2. CASE SchStep
        <5>1. sch'.pc # "idle" => sch.pc # "idle" /\ sch'.online = sch.online /\ sch'.seen = sch.seen
          BY <4>2, PassMoves DEF SchIdle, Timely, PassIsTimely
        <5>2. sch'.pc = "settle" => sch'.res
          <6>1. sch.pc = "settle" => sch.res
            BY <3>0 DEF CalmIsCalm
          <6> QED BY <1>2, <2>1, <3>0, <4>2, <6>1, CalmPass
        <5> QED BY <2>1, <3>0, <5>1, <5>2 DEF CalmIsCalm
      <4> QED BY <1>2, <2>1, <3>0, <4>1, <4>2, PassFrame
    <3>4. hi'.pc # "idle" => hi'.at < now'
      BY <1>2, <2>1, <3>0, PresenceFrame DEF CalmIsCalm
    <3> QED BY <3>1, <3>2, <3>3, <3>4
  <2>2. CASE Minute /\ ~probe.due /\ now' = now + 1 /\ calm' <= calm + 1 /\ srv /\ link /\ sch.pc = "idle"
    <3>0. calm >= 1 /\ online /\ seen = now
      BY <1>0, <1>4, <2>2 DEF CalmIsCalm
    <3>1. cmd'["hand"].pc = "idle"
      BY <1>0, <2>2, <3>0 DEF CalmIsCalm, Minute, Prompt, Senders
    <3>2. online' = online /\ seen' \in {now, now + 1} /\ hi' = hi
      BY <2>2, <3>0 DEF Minute
    <3>3. sch'.online = online /\ sch'.seen = seen' /\ sch'.pc = "next"
      BY <2>2, StartsFresh
    <3>4. hi.pc # "idle" => hi.at = now
      BY <2>2 DEF Minute, Prompt
    <3>5. now' - seen' <= 1
      <4>1. now \in Nat /\ now' = now + 1 /\ (seen' = now \/ seen' = now + 1)
        BY <1>0, <2>2, <3>2
      <4>2. now + 1 - now <= 1 /\ (now + 1) - (now + 1) <= 1
        BY <4>1
      <4> QED BY <4>1, <4>2
    <3>6. hi'.pc # "idle" => hi'.at < now'
      BY <1>0, <2>2, <3>2, <3>4
    <3>7. sch'.pc # "idle" => sch'.online /\ now' - sch'.seen <= 1 /\ (sch'.pc = "settle" => sch'.res)
      BY <3>0, <3>3, <3>5
    <3> QED BY <3>0, <3>1, <3>2, <3>5, <3>6, <3>7
  <2>3. calm' >= 1
    BY <1>0, <1>4
  <2>4. \/ now' = now /\ calm' = calm
        \/ Minute /\ ~probe.due /\ now' = now + 1 /\ calm' <= calm + 1 /\ srv /\ link /\ sch.pc = "idle"
    BY <1>1, <2>3
  <2> QED BY <2>1, <2>2, <2>4
<1>5. ASSUME calm' >= 3 PROVE hi'.pc = "idle"
  <2>1. CASE now' = now /\ calm' = calm
    <3>0. calm >= 3 /\ calm >= 1 /\ hi.pc = "idle" /\ online
      BY <1>0, <1>5, <2>1 DEF CalmIsCalm
    <3> QED BY <1>2, <2>1, <3>0, PresenceFrame
  <2>2. CASE Minute /\ ~probe.due /\ now' = now + 1 /\ calm' <= calm + 1 /\ srv /\ link /\ sch.pc = "idle"
    <3>0. calm >= 2
      BY <1>0, <1>5, <2>2
    <3>1. hi' = hi /\ (hi.pc # "idle" => hi.at = now)
      BY <2>2 DEF Minute, Prompt
    <3> QED BY <1>0, <3>0, <3>1 DEF CalmIsCalm
  <2> QED BY <1>0, <1>1, <1>5, <2>1, <2>2
<1> QED
  BY <1>3, <1>4, <1>5, <1>6 DEF CalmIsCalm

-----------------------------------------------------------------------------
(* What may still switch the channel of an occurrence that decides it *)

\* o decides its channel and its row is written, or will be by the tick.
Counts(o) == Decides(o) /\ (status[o] # "none" \/ now <= DueAt[o] + Grace + 1)
\* o decides its channel, is in the log, and no order came after it.
Wanted(o) == Decides(o) /\ status[o] # "none" /\ o \notin word
\* An occurrence of the channel that asks for the other state.
Stale(q, o) == RelayOf[q] = RelayOf[o] /\ Act[q] # Act[o] /\ DueAt[q] <= now
\* An occurrence of the channel that asks for the same in the same minute.
Equal(q, o) == RelayOf[q] = RelayOf[o] /\ Act[q] = Act[o] /\ DueAt[q] = DueAt[o]

\* A run that began when o was due has nothing stale on its list.
RunsAreFresh == \A o \in Occ :
    Counts(o) /\ cu.pc \in {"each", "command"} /\ cu.at >= DueAt[o] =>
        \A q \in cu.todo : RelayOf[q] = RelayOf[o] => Act[q] = Act[o]
\* A stale row that failed is retried by the first pass of the calm, and then no more.
RowsAreFresh == \A o, q \in Occ :
    /\ Counts(o) /\ calm >= 2 /\ DueAt[o] + 2 <= now
    /\ Stale(q, o) /\ status[q] = "failed" /\ DueAt[q] > now - RetryWindow
    => /\ sch.pc \notin {"idle", "await"}
       /\ sch.phase = "retry" => q \in sch.todo
       /\ ~(calm >= 3 /\ DueAt[o] + 3 <= now)
\* Some minutes later no pass has a stale row on its list.
PassesAreFresh == \A o \in Occ :
    Counts(o) /\ calm >= 3 /\ DueAt[o] + 3 <= now /\ DueAt[o] + Grace + 1 <= now /\ sch.pc # "idle" =>
        \A q \in sch.todo : RelayOf[q] = RelayOf[o] => Act[q] = Act[o]

\* Which occurrence decides a channel changes only when another comes due.
LEMMA DecidesBefore ==
    ASSUME TypeOK, Next, NEW o \in Occ, Decides(o)', DueAt[o] <= now PROVE Decides(o)
BY TimePasses, OccurrencesAssumption DEF Decides

\* The last word of a minute.
LEMMA DecidesLast ==
    ASSUME NEW o \in Occ, Decides(o), NEW q \in Occ, RelayOf[q] = RelayOf[o], DueAt[q] <= now
    PROVE  DueAt[q] <= DueAt[o] /\ (DueAt[q] = DueAt[o] => Act[q] = Act[o])
BY OccurrencesAssumption DEF Decides

\* A row is written by the tick of its minute, or by the start-up scan.
LEMMA LoggedInTime ==
    ASSUME TypeOK, Timely, Next, ~Restart, NEW o \in Occ, status[o] = "none", status'[o] # "none"
    PROVE  DueAt[o] + Grace + 1 = now /\ now' = now
<1>0. RowsType /\ sch \in Passes
  BY DEF TypeOK, ActorsType
<1>1. ASSUME NEW S, NEW from, NEW to, NEW who, Update(S, from, to, who), "none" \notin from PROVE FALSE
  BY <1>0, <1>1, UpdateEffect
<1>2. ASSUME NEW S, NEW to, NEW who, InsertIgnore(S, to, who) PROVE o \in S
  BY <1>0, <1>2, UpdateEffect DEF InsertIgnore
<1>3. ASSUME sch.phase = "tick", sch.pc # "idle", o \in sch.todo, now' = now PROVE DueAt[o] + Grace + 1 = now
  BY <1>3 DEF Timely, PassIsTimely
<1>4. ASSUME NEW p \in Occ, SchSkip(p) PROVE DueAt[o] + Grace + 1 = now /\ now' = now
  <2>1. o = p /\ sch.phase = "tick" /\ now' = now /\ p \in sch.todo /\ sch.pc # "idle"
    BY <1>0, <1>2, <1>4 DEF SchSkip, Takes, SchFrame, rows, Passes
  <2> QED BY <1>3, <2>1
<1>5. CASE SchMatch
  <2>1. sch.phase = "tick" => o = sch.cur
    BY <1>2, <1>5 DEF SchMatch
  <2>2. sch.phase = "tick"
    BY <1>1, <1>5 DEF SchMatch
  <2> QED BY <1>3, <1>5, <2>1, <2>2 DEF SchMatch, SchFrame, Timely, PassIsTimely
<1>6. CASE SchClaim
  <2>1. o = sch.cur /\ sch.phase = "tick"
    BY <1>2, <1>6 DEF SchClaim, rows
  <2> QED BY <1>3, <1>6, <2>1 DEF SchClaim, SchFrame, Timely, PassIsTimely
<1>7. ~SchSettle /\ ~CuSettle /\ ~CuWrite /\ ~HiWrite
  BY <1>1 DEF SchSettle, CuSettle, CuWrite, HiWrite, Reconciled, OpenStatus, rows
<1> QED
  BY <1>4, <1>5, <1>6, <1>7, RowsFrame DEF rows

\* An occurrence that counts has counted since it was due.
LEMMA CountsBefore ==
    ASSUME TypeOK, Timely, Next, ~Restart, NEW o \in Occ, Counts(o)', DueAt[o] <= now PROVE Counts(o)
<1>0. now \in Nat /\ DueAt[o] \in Nat /\ now <= now' /\ now' \in Nat /\ Grace \in Nat
  BY Clock, TimePasses, OccurrencesAssumption, SizesAssumption
<1>1. Decides(o)
  BY DecidesBefore DEF Counts
<1>2. CASE status'[o] # "none" /\ status[o] = "none"
  <2>1. DueAt[o] + Grace + 1 = now
    BY <1>2, LoggedInTime
  <2> QED BY <1>0, <1>1, <2>1 DEF Counts
<1>3. CASE now' <= DueAt[o] + Grace + 1
  BY <1>0, <1>1, <1>3 DEF Counts
<1>4. CASE status[o] # "none"
  BY <1>1, <1>4 DEF Counts
<1> QED BY <1>2, <1>3, <1>4 DEF Counts

\* A row stays in the log, and a word that was given stays given.
LEMMA WantedBefore ==
    ASSUME TypeOK, Timely, Next, ~Restart, NEW o \in Occ, Wanted(o)', DueAt[o] + Grace + 2 <= now
    PROVE  Wanted(o)
<1>0. now \in Nat /\ DueAt[o] \in Nat /\ Grace \in Nat
  BY Clock, OccurrencesAssumption, SizesAssumption
<1>1. Decides(o)
  BY <1>0, DecidesBefore DEF Wanted
<1>2. status[o] # "none"
  <2> SUFFICES ASSUME status[o] = "none" PROVE FALSE
    OBVIOUS
  <2>1. DueAt[o] + Grace + 1 = now
    BY LoggedInTime DEF Wanted
  <2> QED BY <1>0, <2>1
<1>3. o \notin word
  BY ServerFrame DEF Wanted, Acked
<1> QED BY <1>1, <1>2, <1>3 DEF Wanted

\* A run that began after an occurrence chose nothing older of its channel.
LEMMA ChoiceIsFresh ==
    ASSUME TypeOK, NEW o \in Occ, Counts(o), cu.at >= DueAt[o], cu.at <= now,
           NEW q \in LatestDue(cu.at), RelayOf[q] = RelayOf[o], RelayOf[q] \notin RecentRelays(cu.at)
    PROVE  Act[q] = Act[o]
<1> SUFFICES ASSUME Act[q] # Act[o] PROVE FALSE
  OBVIOUS
<1>0. now \in Nat /\ DueAt[o] \in Nat /\ Grace \in Nat /\ cu.at \in Nat /\ q \in Occ /\ DueAt[q] \in Nat
  BY Clock, OccurrencesAssumption, SizesAssumption DEF LatestDue, LoggedBefore
<1>1. DueAt[q] < cu.at - Grace
  BY DEF LatestDue, LoggedBefore
<1>2. DueAt[q] < DueAt[o]
  <2>1. DueAt[q] <= now
    BY <1>0, <1>1
  <2> QED BY <1>0, <2>1, DecidesLast DEF Counts
<1>3. DueAt[o] < cu.at - Grace - 1
  <2>1. ~(DueAt[o] >= cu.at - Grace - 1 /\ DueAt[o] <= cu.at)
    BY DEF RecentRelays
  <2> QED BY <1>0, <2>1
<1>4. o \in LoggedBefore(cu.at)
  <2>1. ~(now <= DueAt[o] + Grace + 1)
    BY <1>0, <1>3
  <2>2. DueAt[o] < cu.at - Grace
    BY <1>0, <1>3
  <2> QED BY <2>1, <2>2 DEF Counts, LoggedBefore
<1>5. DueAt[o] < DueAt[q] \/ (DueAt[o] = DueAt[q] /\ Act[o] = Act[q])
  BY <1>4 DEF LatestDue
<1> QED BY <1>0, <1>2, <1>5

\* A run chooses its list once, and then only shortens it.
LEMMA RunsFreshStep ==
    ASSUME IInv, Timely, RunsAreFresh, Next PROVE RunsAreFresh'
<1> USE DEF IInv
<1> SUFFICES ASSUME NEW o \in Occ, Counts(o)', cu'.pc \in {"each", "command"}, cu'.at >= DueAt[o]
             PROVE  \A q \in cu'.todo : RelayOf[q] = RelayOf[o] => Act[q] = Act[o]
  BY DEF RunsAreFresh
<1>0. cu \in CatchUps /\ now \in Nat /\ cu.at \in Nat /\ DueAt[o] \in Nat
  BY Clock, OccurrencesAssumption DEF TypeOK, ActorsType
<1>1. ~Restart
  BY DEF Restart, Timely, DownIsIdle
<1>2. ASSUME cu'.at = cu.at, cu.pc # "idle" PROVE Counts(o) /\ cu.at >= DueAt[o] /\ cu.at <= now
  <2>1. cu.at <= now
    BY <1>2 DEF BeliefsAreEarned, CuReadingIsSound
  <2>2. DueAt[o] <= now
    BY <1>0, <1>2, <2>1
  <2> QED BY <1>1, <1>2, <2>1, <2>2, CountsBefore
<1> DEFINE Kept == \A q \in cu'.todo : RelayOf[q] = RelayOf[o] => Act[q] = Act[o]
<1>3. ASSUME cu'.at = cu.at, cu'.todo \subseteq cu.todo, cu.pc \in {"each", "command"} PROVE Kept
  BY <1>2, <1>3 DEF RunsAreFresh
<1>4. CASE cu' = cu
  BY <1>3, <1>4
<1>5. CASE CuWrite
  <2> DEFINE S == {p \in LatestDue(cu.at) : RelayOf[p] \notin RecentRelays(cu.at)}
  <2>1. cu' = [cu EXCEPT !.pc = "each", !.read = Unread, !.todo = S] /\ cu.pc = "write"
    BY <1>5 DEF CuWrite
  <2>2. \A q \in S : q \in LatestDue(cu.at) /\ RelayOf[q] \notin RecentRelays(cu.at)
    OBVIOUS
  <2> HIDE DEF S
  <2>3. cu'.at = cu.at /\ cu'.todo = S
    BY <1>0, <2>1 DEF CatchUps
  <2> QED BY <1>2, <2>1, <2>2, <2>3, ChoiceIsFresh
<1>6. CASE CuSettle
  BY <1>0, <1>3, <1>6 DEF CuSettle, CatchUps
<1>7. ASSUME NEW p \in Occ, CuKeep(p) \/ CuApply(p) PROVE Kept
  BY <1>0, <1>3, <1>7 DEF CuKeep, CuApply, CatchUps
<1>8. ASSUME NEW joined \in BOOLEAN, CatchUpCalled(joined) PROVE Kept
  BY <1>4, <1>8 DEF CatchUpCalled, CuIdle
<1>9. ~CuRead /\ ~CuEnd /\ ~Crash
  <2>1. CuRead => cu'.pc = "write"
    BY <1>0 DEF CuRead, CatchUps
  <2>2. CuEnd \/ Crash => cu'.pc = "idle"
    BY DEF CuEnd, Crash, CuIdle
  <2> QED BY <2>1, <2>2
<1>10. CASE CmdSend("system") \/ CmdVerify("system")
  BY <1>4, <1>10 DEF CmdSend, CmdVerify
<1> QED BY <1>4, <1>5, <1>6, <1>7, <1>8, <1>9, <1>10, CatchUpFrame

\* While it is calm a pass finds the unit reachable.
LEMMA CalmReachable ==
    ASSUME Sizes, TypeOK, CalmIsCalm, calm >= 2, sch.pc # "idle"
    PROVE  Reachable
BY Clock, SizesAssumption DEF Sizes, CalmIsCalm, Reachable

\* A command of the run that began after an occurrence is about that occurrence.
LEMMA CommandIsFresh ==
    ASSUME TypeOK, BeliefsAreEarned, RunsAreFresh, NEW o \in Occ, Counts(o), DueAt[o] + 2 <= now,
           cu.pc = "command", RelayOf[cu.cur] = RelayOf[o]
    PROVE  Act[cu.cur] = Act[o]
<1>1. cu.at >= DueAt[o]
  BY Clock, OccurrencesAssumption DEF BeliefsAreEarned, CuReadingIsSound
<1> QED BY <1>1 DEF RunsAreFresh, BeliefsAreEarned, GraceIsKept

\* Who turns a row into a failed one while it is calm.
LEMMA FailsInTime ==
    ASSUME Sizes, IInv, Timely, CalmIsCalm, calm >= 2, Next, ~Restart,
           NEW q \in Occ, status[q] # "failed", status'[q] = "failed"
    PROVE  cu.pc = "command" /\ q = cu.cur
<1> USE DEF IInv
<1>0. RowsType /\ sch \in Passes
  BY DEF TypeOK, ActorsType
<1>1. ASSUME NEW S, NEW from, NEW to, NEW who, Update(S, from, to, who) PROVE to = "failed" /\ q \in S
  BY <1>0, <1>1, UpdateEffect
<1>2. ASSUME NEW p \in Occ, SchSkip(p) PROVE FALSE
  <2>1. Reachable
    BY <1>2, CalmReachable DEF SchSkip, Takes
  <2>2. sch.phase = "tick" /\ status[p] # "none"
    BY <1>2, <2>1 DEF SchSkip
  <2>3. q = p /\ status[q] = "none"
    BY <1>0, <1>2, <2>2, UpdateEffect DEF SchSkip, InsertIgnore, Passes
  <2> QED BY <2>2, <2>3
<1>3. ~SchMatch /\ ~CuWrite /\ ~HiWrite
  BY <1>1 DEF SchMatch, CuWrite, HiWrite, Reconciled, InsertIgnore
<1>4. ~SchClaim
  BY <1>1 DEF SchClaim, InsertIgnore, rows
<1>5. CASE SchSettle
  <2>1. sch.res
    BY <1>5 DEF SchSettle, CalmIsCalm
  <2> QED BY <1>1, <1>5, <2>1 DEF SchSettle
<1>6. CASE CuSettle
  BY <1>1, <1>6 DEF CuSettle
<1> QED BY <1>2, <1>3, <1>4, <1>5, <1>6, RowsFrame DEF rows

\* In the calm no stale row fails again, and a pass settles those that did.
LEMMA RowsFreshStep ==
    ASSUME Sizes, IInv, Timely, CalmIsCalm, RunsAreFresh, RowsAreFresh, Next, CalmNext
    PROVE  RowsAreFresh'
<1> USE DEF IInv
<1> SUFFICES ASSUME NEW o \in Occ, NEW q \in Occ,
                    Counts(o)', calm' >= 2, DueAt[o] + 2 <= now',
                    RelayOf[q] = RelayOf[o], Act[q] # Act[o], DueAt[q] <= now',
                    status'[q] = "failed", DueAt[q] > now' - RetryWindow
             PROVE  /\ sch'.pc \notin {"idle", "await"}
                    /\ sch'.phase = "retry" => q \in sch'.todo
                    /\ ~(calm' >= 3 /\ DueAt[o] + 3 <= now')
  BY DEF RowsAreFresh, Stale
<1>0. /\ now \in Nat /\ calm \in Nat /\ DueAt[o] \in Nat /\ DueAt[q] \in Nat
      /\ sch \in Passes /\ RetryWindow \in Nat
      /\ calm' \in Nat /\ now' \in Nat /\ now <= now'
  <2>1. calm \in 0..Settling /\ calm' \in 0..Settling
    BY CalmStep DEF CalmIsCalm
  <2> QED BY <2>1, SettlingType, TimePasses, OccurrencesAssumption, SizesAssumption DEF TypeOK, ActorsType
<1>1. DueAt[q] < DueAt[o]
  <2>1. DueAt[q] <= DueAt[o] /\ DueAt[q] # DueAt[o]
    BY OccurrencesAssumption DEF Counts, Decides
  <2> QED BY <1>0, <2>1
<1>2. CASE Minute /\ now' = now + 1 /\ calm' <= calm + 1
  <2>0. DueAt[o] <= now /\ ~Restart /\ sch.pc = "idle" /\ srv
    <3>1. srv'
      BY <1>0, CalmStep DEF CalmIsCalm
    <3>2. srv' = srv /\ ~Restart
      BY <1>0, <1>2 DEF Minute, Restart
    <3> QED BY <1>0, <1>2, <3>1, <3>2, MinuteAfterPass DEF Timely, Sizes
  <2>1. sch'.pc = "next" /\ sch'.phase = "tick"
    BY <1>2, <2>0, StartsFresh
  <2>2. ~(calm' >= 3 /\ DueAt[o] + 3 <= now')
    <3> SUFFICES ASSUME calm' >= 3, DueAt[o] + 3 <= now' PROVE FALSE
      OBVIOUS
    <3>1. Counts(o)
      BY <2>0, CountsBefore
    <3>2. calm >= 2 /\ DueAt[o] + 2 <= now /\ DueAt[q] <= now /\ DueAt[q] > now - RetryWindow
      BY <1>0, <1>1, <1>2
    <3>3. status[q] = "failed"
      BY <1>2 DEF Minute, rows
    <3> QED BY <2>0, <3>1, <3>2, <3>3 DEF RowsAreFresh, Stale
  <2> QED BY <2>1, <2>2
<1>3. CASE now' = now /\ calm' = calm
  <2>0. ~Restart /\ ~Crash /\ ~Minute /\ link /\ faults' = faults
    <3>1. calm >= 1 /\ calm' >= 1
      BY <1>0, <1>3
    <3>2. hands' = hands /\ faults' = faults /\ srv'
      BY <3>1, CalmStep DEF CalmIsCalm
    <3>3. ~Minute
      BY <1>0, <1>3 DEF Minute
    <3> QED BY <3>1, <3>2, <3>3, CalmActions DEF CalmIsCalm
  <2>1. Counts(o)
    BY <1>0, <1>3, <2>0, CountsBefore
  <2>2. status[q] = "failed"
    <3> SUFFICES ASSUME status[q] # "failed" PROVE FALSE
      OBVIOUS
    <3>1. cu.pc = "command" /\ q = cu.cur
      BY <1>3, <2>0, FailsInTime
    <3> QED BY <1>3, <2>1, <3>1, CommandIsFresh
  <2>3. /\ sch.pc \notin {"idle", "await"}
        /\ sch.phase = "retry" => q \in sch.todo
        /\ ~(calm >= 3 /\ DueAt[o] + 3 <= now)
    BY <1>3, <2>1, <2>2 DEF RowsAreFresh, Stale
  <2> DEFINE Held == sch'.pc \notin {"idle", "await"} /\ (sch'.phase = "retry" => q \in sch'.todo)
  <2>4. ASSUME sch' = sch PROVE Held
    BY <2>3, <2>4
  <2>5. ASSUME NEW p, sch' = Done(p), sch.phase = "retry" => p # q PROVE Held
    BY <1>0, <2>3, <2>5 DEF Done, Passes
  <2>6. ASSUME NEW p \in Occ, SchSkip(p) PROVE Held
    <3>1. Reachable
      BY <1>3, <2>3, CalmReachable
    <3>2. sch.phase = "tick"
      BY <2>6, <3>1 DEF SchSkip
    <3> QED BY <2>5, <2>6, <3>2 DEF SchSkip
  <2>7. ASSUME NEW p \in Occ, SchVerify(p) PROVE Held
    BY <1>0, <2>3, <2>7 DEF SchVerify, Passes
  <2>8. ASSUME SchMatch PROVE Held
    <3>1. sch.phase = "retry" => sch.cur # q
      <4>1. sch.phase = "retry" => Update({sch.cur}, {"failed"}, "executed", "device")
        BY <2>8 DEF SchMatch
      <4> QED BY <2>2, <4>1, UpdateEffect DEF TypeOK
    <3> QED BY <2>5, <2>8, <3>1 DEF SchMatch
  <2>9. ASSUME SchClaim PROVE Held
    BY <1>0, <2>3, <2>5, <2>9 DEF SchClaim, Passes
  <2>10. ASSUME SchSend PROVE Held
    BY <1>0, <2>3, <2>10 DEF SchSend, Passes
  <2>11. ASSUME SchSettle PROVE Held
    <3>1. sch.res
      BY <1>3, <2>11 DEF SchSettle, CalmIsCalm
    <3>2. sch.cur # q
      <4>1. Update({sch.cur}, {"pending", "failed"}, "executed", "server_backup")
        BY <2>11, <3>1 DEF SchSettle
      <4> QED BY <2>2, <4>1, UpdateEffect DEF TypeOK
    <3> QED BY <2>5, <2>11, <3>2 DEF SchSettle
  <2>12. ASSUME SchBeginRetry PROVE Held
    <3>1. sch'.pc = "next" /\ sch'.todo = {p \in Occ : status[p] = "failed" /\ DueAt[p] > now - RetryWindow}
      BY <1>0, <2>12 DEF SchBeginRetry, Passes
    <3> QED BY <1>3, <2>2, <3>1
  <2>13. ~SchEnd /\ ~SchAwaited
    BY <2>3 DEF SchEnd, SchAwaited
  <2>14. Held
    BY <2>0, <2>4, <2>6, <2>7, <2>8, <2>9, <2>10, <2>11, <2>12, <2>13, PassFrame DEF SchStep
  <2> QED BY <1>3, <2>3, <2>14
<1>4. \/ Minute /\ now' = now + 1 /\ calm' <= calm + 1
      \/ now' = now /\ calm' = calm
  <2>1. /\ calm' <= calm + (now' - now)
        /\ (now' = now /\ calm' = calm) \/ (Minute /\ now' = now + 1)
    BY <1>0, CalmStep DEF CalmIsCalm
  <2>2. now' = now + 1 => calm' <= calm + 1
    BY <1>0, <2>1
  <2> QED BY <2>1, <2>2
<1> QED BY <1>2, <1>3, <1>4

\* A calm step: a minute, or a step of what is under way in the same minute.
LEMMA CalmCases ==
    ASSUME Sizes, TypeOK, Timely, CalmIsCalm, Next, CalmNext, calm' >= 2
    PROVE  /\ now \in Nat /\ calm \in Nat /\ calm' \in Nat /\ now' \in Nat
           /\ now <= now' /\ calm' <= calm + (now' - now)
           /\ ~Restart /\ ~Crash /\ link /\ srv /\ hands' = hands /\ faults' = faults
           /\ \/ now' = now + 1 /\ calm' <= calm + 1 /\ Minute /\ sch.pc = "idle"
              \/ now' = now /\ calm' = calm /\ ~Minute
<1>0. now \in Nat /\ calm \in Nat /\ calm' \in Nat /\ now' \in Nat /\ now <= now'
  <2>1. calm \in 0..Settling /\ calm' \in 0..Settling
    BY CalmStep DEF CalmIsCalm
  <2> QED BY <2>1, SettlingType, TimePasses
<1>1. calm' >= 1
  BY <1>0
<1>2. /\ calm' <= calm + (now' - now)
      /\ hands' = hands /\ faults' = faults /\ srv' /\ link'
      /\ (now' = now /\ calm' = calm) \/ (Minute /\ now' = now + 1)
  BY <1>1, CalmStep DEF CalmIsCalm
<1>3. CASE Minute /\ now' = now + 1
  <2>1. srv' = srv /\ link' = link /\ ~Restart /\ ~Crash
    BY <1>0, <1>3 DEF Minute, Restart, Crash
  <2>2. sch.pc = "idle"
    BY <1>3, MinuteAfterPass DEF Timely, Sizes
  <2>3. calm' <= calm + 1
    BY <1>0, <1>2, <1>3
  <2> QED BY <1>0, <1>2, <1>3, <2>1, <2>2, <2>3
<1>4. CASE now' = now /\ calm' = calm
  <2>1. srv /\ link /\ topic = "none"
    BY <1>1, <1>4 DEF CalmIsCalm
  <2>2. ~Restart /\ ~Crash
    BY <1>2, <2>1, CalmActions
  <2>3. ~Minute
    BY <1>0, <1>4 DEF Minute
  <2> QED BY <1>0, <1>2, <1>4, <2>1, <2>2, <2>3
<1> QED BY <1>2, <1>3, <1>4

\* The tick takes up its own minute, the retry the rows that failed.
LEMMA PassesFreshStep ==
    ASSUME Sizes, IInv, Timely, CalmIsCalm, RowsAreFresh, PassesAreFresh, Next, CalmNext
    PROVE  PassesAreFresh'
<1> USE DEF IInv
<1> SUFFICES ASSUME NEW o \in Occ, Counts(o)', calm' >= 3, DueAt[o] + 3 <= now', DueAt[o] + Grace + 1 <= now',
                    sch'.pc # "idle", NEW q \in sch'.todo, RelayOf[q] = RelayOf[o]
             PROVE  Act[q] = Act[o]
  BY DEF PassesAreFresh
<1>0. sch \in Passes /\ sch' \in Passes /\ DueAt[o] \in Nat /\ Grace \in Nat /\ q \in Occ /\ DueAt[q] \in Nat
  BY NextType, OccurrencesAssumption, SizesAssumption DEF TypeOK, ActorsType, Passes
<1>1. /\ now \in Nat /\ calm \in Nat /\ calm' \in Nat /\ now' \in Nat /\ now <= now'
      /\ ~Restart /\ ~Crash /\ srv
      /\ \/ now' = now + 1 /\ Minute /\ sch.pc = "idle"
         \/ now' = now /\ calm' = calm /\ ~Minute
  <2>1. calm' \in Nat
    BY CalmStep, SettlingType DEF CalmIsCalm
  <2>2. calm' >= 2
    BY <2>1
  <2> QED BY <2>2, CalmCases
<1>2. CASE now' = now + 1 /\ Minute /\ sch.pc = "idle"
  <2>1. DueAt[q] = now' - (Grace + 1)
    BY <1>1, <1>2, StartsFresh
  <2>2. DueAt[q] >= DueAt[o] /\ DueAt[q] <= now'
    BY <1>0, <1>1, <2>1
  <2>3. q # o => DueAt[q] < DueAt[o] \/ (DueAt[q] = DueAt[o] /\ Act[q] = Act[o])
    BY <1>0, <2>2 DEF Counts, Decides
  <2> QED BY <1>0, <2>2, <2>3
<1>3. CASE now' = now /\ calm' = calm /\ ~Minute
  <2>1. Counts(o)
    BY <1>0, <1>1, <1>3, CountsBefore
  <2>2. ASSUME q \in sch.todo, sch.pc # "idle" PROVE Act[q] = Act[o]
    BY <1>3, <2>1, <2>2 DEF PassesAreFresh
  <2>3. CASE sch' = sch
    BY <2>2, <2>3
  <2>4. CASE SchBeginRetry
    <3>1. sch'.todo = {p \in Occ : status[p] = "failed" /\ DueAt[p] > now - RetryWindow}
      BY <1>0, <2>4 DEF SchBeginRetry, Passes
    <3>2. status[q] = "failed" /\ DueAt[q] > now - RetryWindow
      BY <3>1
    <3>3. DueAt[q] <= now
      BY <1>0, <1>1, <3>2 DEF BeliefsAreEarned, LoggedIsDue
    <3>4. calm >= 2 /\ DueAt[o] + 2 <= now /\ calm >= 3 /\ DueAt[o] + 3 <= now
      BY <1>0, <1>1, <1>3
    <3> QED BY <1>0, <2>1, <3>2, <3>3, <3>4 DEF RowsAreFresh, Stale
  <2>5. CASE SchStep /\ ~SchBeginRetry
    <3>1. sch.pc # "idle" /\ sch'.todo \subseteq sch.todo
      BY <2>5, PassMoves DEF Timely, PassIsTimely, SchIdle
    <3> QED BY <2>2, <3>1
  <2> QED BY <1>1, <1>3, <2>3, <2>4, <2>5, PassFrame
<1> QED BY <1>1, <1>2, <1>3

\* o had its grace, and its pass, and some calm minutes.
Late(o) == Counts(o) /\ calm >= 3 /\ DueAt[o] + Grace + 2 <= now

\* Who switches channels.
LEMMA OutputFrame ==
    ASSUME Next
    PROVE  \/ output' = output \/ Minute \/ SchSend
           \/ \E r \in Relays, a \in Actions : WallSwitch(r, a)
           \/ \E p \in Senders : CmdSend(p)
<1>1. CASE SchStep
  BY <1>1 DEF SchStep, SchSkip, SchVerify, SchMatch, SchClaim,
       SchSettle, SchBeginRetry, SchEnd, SchAwaited, SchFrame, NoRpc
<1>2. CASE CmdStep
  BY <1>2 DEF CmdStep, CmdVerify
<1>3. CASE CuStep
  BY <1>3 DEF CuStep, CuRead, CuWrite, CuSettle, CuEnd, BootCatchUp, CuKeep, CuApply, NoRpc
<1>4. CASE HiStep
  BY <1>4 DEF HiStep, HiRead, HiWrite, NoRpc
<1>5. CASE PresenceStep
  BY <1>5 DEF PresenceStep, HandleDeath, HandleHello, ProbeAnswered, ProbeUnanswered, world
<1>6. CASE UnitStep
  BY <1>6 DEF UnitStep, LinkDown, LinkUp, Crash, Restart, HandOrder, world
<1> QED BY <1>1, <1>2, <1>3, <1>4, <1>5, <1>6 DEF Next

\* While it is calm, the channel of an occurrence that had its time stays.
LEMMA OutputKept ==
    ASSUME Sizes, IInv, Timely, CalmIsCalm, RunsAreFresh, PassesAreFresh, Next, CalmNext,
           NEW o \in Occ, Late(o), Late(o)', output[RelayOf[o]] = Act[o]
    PROVE  output'[RelayOf[o]] = Act[o]
<1> USE DEF IInv
<1>0. /\ output \in [Relays -> Actions] /\ RelayOf[o] \in Relays /\ DueAt[o] \in Nat /\ Grace \in Nat \ {0}
      /\ calm' >= 2 /\ calm >= 3 /\ calm >= 2
  <2>1. calm' \in Nat /\ calm \in Nat
    BY CalmStep, SettlingType DEF CalmIsCalm
  <2> QED BY <2>1, OccurrencesAssumption, SizesAssumption DEF TypeOK, WorldType, Late
<1>1. /\ now \in Nat /\ now' \in Nat /\ srv /\ link /\ hands' = hands /\ faults' = faults
      /\ now' = now + 1 \/ ~Minute
  BY <1>0, CalmCases
<1>2. CASE Minute
  <2>1. PICK F \in SUBSET {p \in Occ : DueAt[p] = now + 1} : output' = LocalOutput(F)
    BY <1>2 DEF Minute
  <2>2. \A p \in F : RelayOf[p] # RelayOf[o]
    <3> SUFFICES ASSUME NEW p \in F, RelayOf[p] = RelayOf[o] PROVE FALSE
      OBVIOUS
    <3>1. p \in Occ /\ DueAt[p] = now + 1
      OBVIOUS
    <3>2. p # o /\ DueAt[p] <= now' /\ DueAt[p] > DueAt[o]
      BY <1>0, <1>1, <1>2, <3>1 DEF Late
    <3> QED BY <1>0, <1>1, <3>1, <3>2 DEF Late, Counts, Decides
  <2> QED BY <1>0, <2>1, <2>2 DEF LocalOutput
<1>3. CASE SchSend
  <2>1. PICK ok \in BOOLEAN : Dispatched(RelayOf[sch.cur], Act[sch.cur], ok)
    BY <1>3 DEF SchSend
  <2>2. output' = output \/ output' = [output EXCEPT ![RelayOf[sch.cur]] = Act[sch.cur]]
    BY <2>1 DEF Dispatched
  <2>3. RelayOf[sch.cur] = RelayOf[o] => Act[sch.cur] = Act[o]
    <3>1. sch.cur \in sch.todo /\ sch.pc # "idle"
      BY <1>3 DEF SchSend, Timely, PassIsTimely
    <3>2. DueAt[o] + 3 <= now /\ DueAt[o] + Grace + 1 <= now
      BY <1>0, <1>1 DEF Late
    <3> QED BY <1>0, <3>1, <3>2 DEF PassesAreFresh, Late
  <2> QED BY <1>0, <2>2, <2>3
<1>4. ASSUME NEW r \in Relays, NEW a \in Actions, WallSwitch(r, a) PROVE FALSE
  BY <1>1, <1>4 DEF WallSwitch, Hand, TypeOK, BoundsType
<1>5. ASSUME CmdSend("hand") PROVE FALSE
  BY <1>0, <1>5 DEF CmdSend, CalmIsCalm
<1>6. CASE CmdSend("system")
  <2>1. PICK ok \in BOOLEAN : Dispatched(cmd["system"].relay, cmd["system"].act, ok)
    BY <1>6 DEF CmdSend
  <2>2. /\ cmd["system"].relay = RelayOf[cu.cur] /\ cmd["system"].act = Act[cu.cur] /\ cu.pc = "command"
    BY <1>6 DEF CmdSend, BeliefsAreEarned, CatchUpIsSound
  <2>3. output' = output \/ output' = [output EXCEPT ![RelayOf[cu.cur]] = Act[cu.cur]]
    BY <2>1, <2>2 DEF Dispatched
  <2>4. RelayOf[cu.cur] = RelayOf[o] => Act[cu.cur] = Act[o]
    <3>1. DueAt[o] + 2 <= now
      BY <1>0, <1>1 DEF Late
    <3> QED BY <2>2, <3>1, CommandIsFresh DEF Late
  <2> QED BY <1>0, <2>3, <2>4
<1> QED BY <1>2, <1>3, <1>4, <1>5, <1>6, OutputFrame DEF Senders

-----------------------------------------------------------------------------
(* What is believed of that channel *)

\* No disturbance since this minute.
CalmSince == now - calm

\* A run that began late enough, when it was calm, and that the customer left alone.
RunLate(o) == Wanted(o) /\ cu.at >= DueAt[o] + Grace + 2 /\ cu.at >= CalmSince + 3

\* A match that the pass has found, or a switch that was acknowledged, still holds.
MatchIsTrue == \A o \in Occ :
    Late(o) /\ sch.pc \in {"record", "settle"} /\ sch.res /\ RelayOf[sch.cur] = RelayOf[o] =>
        output[RelayOf[o]] = Act[o]
\* A late run has read the channel, and what it read still holds.
ReadIsTrue == \A o \in Occ :
    RunLate(o) /\ cu.pc = "write" =>
        cu.read[RelayOf[o]] # "none" /\ (cu.read[RelayOf[o]] = Act[o] => output[RelayOf[o]] = Act[o])
\* A late run knows the state of the channel, and is not wrong in thinking it right.
StateIsTrue == \A o \in Occ :
    RunLate(o) /\ cu.pc \in {"each", "command"} =>
        state[RelayOf[o]] # "unknown" /\ (state[RelayOf[o]] = Act[o] => output[RelayOf[o]] = Act[o])
\* The command that a late run has sent was obeyed.
CmdIsTrue == \A o \in Occ :
    RunLate(o) /\ cu.pc = "command" /\ RelayOf[cu.cur] = RelayOf[o] /\ cmd["system"].pc \in {"verify", "done"} =>
        output[RelayOf[o]] = Act[o]
\* A late run has the channel still on its list, or the channel is right.
TodoOrDone == \A o \in Occ :
    RunLate(o) /\ cu.pc \in {"each", "command"} =>
        output[RelayOf[o]] = Act[o] \/ \E q \in cu.todo : Equal(q, o)
\* A late run that has ended has left the channel right.
Settled == \A o \in Occ :
    Wanted(o) /\ cuDoneAt >= DueAt[o] + Grace + 4 /\ cuDoneAt >= CalmSince + 5 => output[RelayOf[o]] = Act[o]
\* A round in the calm has a run under way, or one that has just ended.
Rounds == srv /\ lastCatchUp >= CalmSince + 2 => cu.pc # "idle" \/ cuDoneAt >= lastCatchUp - 1

\* No run, row or pass is about to send something stale.
Fresh == RunsAreFresh /\ RowsAreFresh /\ PassesAreFresh

\* What a pass takes up is of the right kind.
LEMMA PassIsFresh ==
    ASSUME Sizes, TypeOK, Timely, PassesAreFresh, NEW o \in Occ, Late(o), sch.pc # "idle",
           NEW q \in sch.todo, RelayOf[q] = RelayOf[o]
    PROVE  Act[q] = Act[o]
<1>1. DueAt[o] + 3 <= now /\ DueAt[o] + Grace + 1 <= now
  BY Clock, OccurrencesAssumption, SizesAssumption DEF Late
<1> QED BY <1>1 DEF PassesAreFresh, Late

\* The channel that the pass has verified or switched stays as it is.
LEMMA MatchStep ==
    ASSUME Sizes, IInv, Timely, CalmIsCalm, Fresh, MatchIsTrue, Next, CalmNext PROVE MatchIsTrue'
<1> USE DEF IInv, Fresh
<1> SUFFICES ASSUME NEW o \in Occ, Late(o)', sch'.pc \in {"record", "settle"}, sch'.res,
                    RelayOf[sch'.cur] = RelayOf[o]
             PROVE  output'[RelayOf[o]] = Act[o]
  BY DEF MatchIsTrue
<1>0. /\ sch \in Passes /\ output \in [Relays -> Actions] /\ RelayOf[o] \in Relays
      /\ calm' >= 2 /\ DueAt[o] \in Nat /\ Grace \in Nat
  <2>1. calm' \in Nat
    BY CalmStep, SettlingType DEF CalmIsCalm
  <2> QED BY <2>1, OccurrencesAssumption, SizesAssumption DEF TypeOK, WorldType, ActorsType, Late
<1>1. /\ now \in Nat /\ ~Restart /\ ~Crash /\ srv /\ link /\ faults' = faults
      /\ (Minute /\ sch.pc = "idle") \/ (now' = now /\ calm' = calm /\ ~Minute)
  BY <1>0, CalmCases
<1>2. now' = now /\ calm' = calm /\ ~Minute
  <2> SUFFICES ASSUME Minute, sch.pc = "idle" PROVE FALSE
    BY <1>1
  <2> QED BY <1>1, StartsFresh
<1>3. Late(o)
  <2>1. Counts(o)
    BY <1>0, <1>1, <1>2, CountsBefore DEF Late
  <2> QED BY <1>2, <2>1 DEF Late
<1>4. CASE sch' = sch
  BY <1>3, <1>4, OutputKept DEF MatchIsTrue
<1>5. ASSUME NEW q \in Occ, SchVerify(q) PROVE output'[RelayOf[o]] = Act[o]
  <2>1. PICK match \in BOOLEAN :
          /\ (match <=> output[RelayOf[q]] = Act[q]) \/ ~match
          /\ sch' = [sch EXCEPT !.pc = "record", !.cur = q, !.res = match]
    BY <1>5 DEF SchVerify
  <2>2. sch'.cur = q /\ output[RelayOf[q]] = Act[q]
    BY <1>0, <2>1 DEF Passes
  <2>3. q \in sch.todo /\ sch.pc # "idle" /\ output' = output
    BY <1>5 DEF SchVerify, Takes
  <2> QED BY <1>3, <2>2, <2>3, PassIsFresh
<1>6. CASE SchSend
  <2>1. PICK ok \in BOOLEAN :
          Dispatched(RelayOf[sch.cur], Act[sch.cur], ok) /\ sch' = [sch EXCEPT !.pc = "settle", !.res = ok]
    BY <1>6 DEF SchSend
  <2>2. sch'.cur = sch.cur /\ ok
    BY <1>0, <2>1 DEF Passes
  <2>3. output' = [output EXCEPT ![RelayOf[sch.cur]] = Act[sch.cur]]
    BY <2>1, <2>2 DEF Dispatched
  <2>4. sch.cur \in sch.todo /\ sch.pc # "idle"
    BY <1>6 DEF SchSend, Timely, PassIsTimely
  <2>5. Act[sch.cur] = Act[o]
    BY <1>3, <2>2, <2>4, PassIsFresh
  <2> QED BY <1>0, <2>2, <2>3, <2>5
<1>7. ASSUME NEW p, sch' = Done(p) PROVE FALSE
  BY <1>0, <1>7 DEF Done, Passes
<1>8. ~SchClaim
  BY <1>0, <1>7 DEF SchClaim, Passes
<1>9. ~SchBeginRetry /\ ~SchAwaited /\ ~SchEnd
  <2>1. SchBeginRetry => sch'.pc = "next"
    BY <1>0 DEF SchBeginRetry, Passes
  <2>2. SchEnd => sch'.pc \in {"idle", "await"}
    BY <1>0 DEF SchEnd, SchIdle, Passes
  <2>3. SchAwaited => sch'.pc = "idle"
    BY DEF SchAwaited, SchIdle
  <2> QED BY <2>1, <2>2, <2>3
<1> QED
  BY <1>1, <1>2, <1>4, <1>5, <1>6, <1>7, <1>8, <1>9, PassFrame DEF SchStep, SchSkip, SchMatch, SchSettle

\* About the minutes that have passed since.
LEMMA Ages ==
    ASSUME NEW c \in Nat, NEW d \in Nat, NEW n \in Nat, NEW m \in Nat
    PROVE  /\ d <= c + (m - n) => m - d >= n - c
           /\ \A k \in Nat, at \in Int : at <= n /\ at >= n - c + k => c >= k
OBVIOUS

\* The calm does not begin later by itself, and is as long as it seems.
LEMMA CalmGrows ==
    ASSUME TypeOK, CalmIsCalm, Next, CalmNext
    PROVE  /\ CalmSince \in Int /\ CalmSince' \in Int /\ CalmSince <= CalmSince'
           /\ \A k \in Nat, at \in Int : at <= now /\ at >= CalmSince + k => calm >= k
           /\ \A k \in Nat, at \in Int : at <= now' /\ at >= CalmSince' + k => calm' >= k
<1>1. /\ calm \in Nat /\ calm' \in Nat /\ now \in Nat /\ now' \in Nat
      /\ calm' <= calm + (now' - now)
  BY CalmStep, SettlingType, TimePasses DEF CalmIsCalm
<1>2. now' - calm' >= now - calm
  BY <1>1, Ages
<1>3. CalmSince' = now' - calm'
  BY DEF CalmSince
<1>4. CalmSince \in Int /\ CalmSince' \in Int /\ CalmSince <= CalmSince'
  <2>1. CalmSince \in Int /\ CalmSince' \in Int
    BY <1>1, <1>3 DEF CalmSince
  <2> QED BY <1>2, <1>3, <2>1 DEF CalmSince
<1>5. ASSUME NEW k \in Nat, NEW at \in Int, at <= now, at >= CalmSince + k PROVE calm >= k
  BY <1>1, <1>5, Ages DEF CalmSince
<1>6. ASSUME NEW k \in Nat, NEW at \in Int, at <= now', at >= CalmSince' + k PROVE calm' >= k
  <2>1. at >= now' - calm' + k
    BY <1>3, <1>6
  <2> QED BY <1>1, <1>6, <2>1, Ages
<1> QED BY <1>4, <1>5, <1>6

\* A late run was late before.
LEMMA RunLateBefore ==
    ASSUME Sizes, IInv, Timely, CalmIsCalm, Next, CalmNext, NEW o \in Occ,
           RunLate(o)', cu'.at = cu.at, cu.pc # "idle"
    PROVE  /\ RunLate(o) /\ Late(o) /\ Late(o)' /\ calm >= 3 /\ calm' >= 3
           /\ cu.at >= DueAt[o]
<1> USE DEF IInv
<1>0. /\ cu.at \in Nat /\ DueAt[o] \in Nat /\ Grace \in Nat /\ calm \in Nat /\ calm' \in Nat
      /\ now \in Nat /\ now' \in Nat /\ now <= now' /\ cu.at <= now
  BY Clock, CalmStep, SettlingType, TimePasses, OccurrencesAssumption, SizesAssumption
     DEF CalmIsCalm, BeliefsAreEarned, CuReadingIsSound
<1>1. cu.at >= CalmSince' + 3 /\ cu.at >= DueAt[o] + Grace + 2
  BY DEF RunLate
<1>2. CalmSince \in Int /\ CalmSince' \in Int /\ CalmSince <= CalmSince'
  BY CalmGrows
<1>3. cu.at >= CalmSince + 3
  BY <1>0, <1>1, <1>2
<1>7. calm >= 3 /\ calm' >= 3 /\ calm' >= 2
  <2>1. calm >= 3
    BY <1>0, <1>3, CalmGrows
  <2>2. cu.at <= now'
    BY <1>0
  <2>3. calm' >= 3
    BY <1>0, <1>1, <2>2, CalmGrows
  <2> QED BY <1>0, <2>1, <2>3
<1>4. DueAt[o] + Grace + 2 <= now /\ DueAt[o] + Grace + 2 <= now' /\ cu.at >= DueAt[o]
  BY <1>0, <1>1
<1>5. Wanted(o)
  BY <1>4, <1>7, CalmCases, WantedBefore DEF RunLate
<1>6. Late(o)
  BY <1>4, <1>5, <1>7 DEF Late, Counts, Wanted
<1>8. Late(o)'
  BY <1>4, <1>7 DEF Late, Counts, Wanted, RunLate
<1> QED BY <1>1, <1>3, <1>4, <1>5, <1>6, <1>7, <1>8 DEF RunLate

\* A reading that is taken while it is calm is complete.
LEMMA CalmReading ==
    ASSUME TypeOK, NEW read, ReadChannels(read), link, faults' = faults, NEW r \in Relays
    PROVE  read[r] = output[r]
<1>1. ~Unanswered /\ ~Fault
  BY CalmAnswers
<1>2. PICK k \in 0..NRelays :
        /\ read = [x \in Relays |-> IF x <= k THEN output[x] ELSE "none"]
        /\ k = NRelays \/ (k < NRelays /\ IF k = 0 THEN Unanswered ELSE link /\ Fault /\ seen' = now)
  BY DEF ReadChannels
<1>3. k = NRelays
  BY <1>1, <1>2
<1>4. r <= NRelays
  BY SizesAssumption DEF Relays
<1> QED BY <1>2, <1>3, <1>4

\* What a run does to itself, and who lets it.
LEMMA RunMoves ==
    ASSUME TypeOK, Next, cu' # cu, cu'.pc # "idle"
    PROVE  \/ cu.pc = "idle" /\ cu'.pc = "read"
           \/ /\ cu.pc # "idle" /\ cu'.at = cu.at
              /\ \/ CuRead /\ cu.pc = "read" /\ cu'.pc = "write"
                 \/ CuWrite /\ cu.pc = "write" /\ cu'.pc = "each"
                 \/ CuSettle /\ cu.pc = "command" /\ cu'.pc = "each" /\ cu'.todo = cu.todo \ {cu.cur}
                 \/ \E p \in Occ : CuKeep(p) /\ cu.pc = "each" /\ cu'.pc = "each" /\ cu'.todo = cu.todo \ {p}
                 \/ \E p \in Occ : CuApply(p) /\ cu.pc = "each" /\ cu'.pc = "command" /\ cu'.todo = cu.todo
<1>0. cu \in CatchUps
  BY DEF TypeOK, ActorsType
<1>1. CASE CuRead
  BY <1>0, <1>1 DEF CuRead, CatchUps
<1>2. CASE CuWrite
  BY <1>0, <1>2 DEF CuWrite, CatchUps
<1>3. CASE CuSettle
  BY <1>0, <1>3 DEF CuSettle, CatchUps
<1>4. ~CuEnd /\ ~Crash
  BY DEF CuEnd, Crash, CuIdle
<1>5. ASSUME NEW p \in Occ, CuKeep(p)
      PROVE  cu.pc = "each" /\ cu'.pc = "each" /\ cu'.at = cu.at /\ cu'.todo = cu.todo \ {p}
  BY <1>0, <1>5 DEF CuKeep, CatchUps
<1>6. ASSUME NEW p \in Occ, CuApply(p)
      PROVE  cu.pc = "each" /\ cu'.pc = "command" /\ cu'.at = cu.at /\ cu'.todo = cu.todo
  BY <1>0, <1>6 DEF CuApply, CatchUps
<1>7. ASSUME NEW joined \in BOOLEAN, CatchUpCalled(joined) PROVE cu.pc = "idle" /\ cu'.pc = "read"
  BY <1>7 DEF CatchUpCalled, CuIdle
<1>8. ~CmdSend("system") /\ ~CmdVerify("system")
  BY DEF CmdSend, CmdVerify
<1> QED BY <1>1, <1>2, <1>3, <1>4, <1>5, <1>6, <1>7, <1>8, CatchUpFrame

\* A late run reads all channels, and nobody switches this one any more.
LEMMA ReadStep ==
    ASSUME Sizes, IInv, Timely, CalmIsCalm, Fresh, ReadIsTrue, Next, CalmNext PROVE ReadIsTrue'
<1> SUFFICES ASSUME NEW o \in Occ, RunLate(o)', cu'.pc = "write"
             PROVE  /\ cu'.read[RelayOf[o]] # "none"
                    /\ cu'.read[RelayOf[o]] = Act[o] => output'[RelayOf[o]] = Act[o]
  BY DEF ReadIsTrue
<1>0. TypeOK /\ cu \in CatchUps /\ RelayOf[o] \in Relays /\ output[RelayOf[o]] \in Actions
  BY OccurrencesAssumption DEF IInv, TypeOK, ActorsType, WorldType
<1>1. CASE cu' = cu
  <2>1. RunLate(o) /\ Late(o) /\ Late(o)'
    BY <1>1, RunLateBefore
  <2> QED BY <1>1, <2>1, OutputKept DEF ReadIsTrue, Fresh
<1>2. CASE CuRead /\ cu.pc # "idle" /\ cu'.at = cu.at
  <2>1. PICK read : ReadChannels(read) /\ cu' = [cu EXCEPT !.pc = "write", !.read = read]
    BY <1>2 DEF CuRead
  <2>2. cu'.read = read /\ output' = output
    BY <1>0, <1>2, <2>1 DEF CuRead, CatchUps
  <2>3. calm' >= 2
    <3>1. calm' >= 3 /\ calm' \in Nat
      BY <1>0, <1>2, RunLateBefore, CalmStep, SettlingType DEF CalmIsCalm
    <3> QED BY <3>1
  <2>4. link /\ faults' = faults
    BY <1>0, <2>3, CalmCases
  <2>5. read[RelayOf[o]] = output[RelayOf[o]]
    BY <1>0, <2>1, <2>4, CalmReading
  <2> QED BY <1>0, <2>2, <2>5 DEF Actions
<1> QED BY <1>0, <1>1, <1>2, RunMoves

\* Who writes the recorded states.
LEMMA StateFrame ==
    ASSUME Next
    PROVE  \/ state' = state \/ Minute \/ SchMatch \/ SchSend \/ SchSettle
           \/ CuWrite \/ HiWrite
           \/ \E p \in Senders : CmdSend(p) \/ CmdVerify(p)
           \/ \E r \in Relays, a \in Actions : WallSwitch(r, a)
<1>1. CASE SchStep
  BY <1>1 DEF SchStep, SchSkip, SchVerify, SchClaim, SchBeginRetry, SchEnd, SchAwaited, SchFrame
<1>2. CASE CmdStep
  BY <1>2 DEF CmdStep
<1>3. CASE CuStep
  BY <1>3 DEF CuStep, CuRead, CuSettle, CuEnd, BootCatchUp, CuKeep, CuApply
<1>4. CASE HiStep
  BY <1>4 DEF HiStep, HiRead
<1>5. CASE PresenceStep
  BY <1>5 DEF PresenceStep, HandleDeath, HandleHello, ProbeAnswered, ProbeUnanswered
<1>6. CASE UnitStep
  BY <1>6 DEF UnitStep, LinkDown, LinkUp, Crash, Restart, HandOrder, db
<1> QED BY <1>1, <1>2, <1>3, <1>4, <1>5, <1>6 DEF Next

\* The recorded state of a channel that has settled is not ahead of it.
StateKnown(o) == state[RelayOf[o]] # "unknown" /\ (state[RelayOf[o]] = Act[o] => output[RelayOf[o]] = Act[o])

\* Whoever writes the recorded state of such a channel writes what is true.
LEMMA StateKept ==
    ASSUME Sizes, IInv, Timely, CalmIsCalm, Fresh, MatchIsTrue, Next, CalmNext, ~CuWrite,
           NEW o \in Occ, Late(o), Late(o)', StateKnown(o)
    PROVE  StateKnown(o)'
<1> DEFINE r == RelayOf[o]
<1>0. /\ r \in Relays /\ output \in [Relays -> Actions] /\ state \in [Relays -> Actions \cup {"unknown"}]
      /\ Act[o] \in Actions /\ output' \in [Relays -> Actions] /\ TypeOK
      /\ calm >= 3 /\ calm' >= 3 /\ calm' >= 2
  <2>1. TypeOK /\ TypeOK'
    BY NextType DEF IInv
  <2>2. calm' \in Nat /\ calm >= 3 /\ calm' >= 3
    BY <2>1, CalmStep, SettlingType DEF CalmIsCalm, Late
  <2> QED BY <2>1, <2>2, OccurrencesAssumption DEF TypeOK, WorldType, DbType
<1>1. /\ srv /\ link /\ hands' = hands
      /\ output[r] = Act[o] => output'[r] = Act[o]
      /\ hi.pc = "idle" /\ cmd["hand"].pc = "idle"
  <2>1. hi.pc = "idle" /\ cmd["hand"].pc = "idle"
    <3>1. calm >= 2
      BY <1>0, CalmStep, SettlingType DEF CalmIsCalm
    <3> QED BY <1>0, <3>1 DEF CalmIsCalm
  <2> QED BY <1>0, <2>1, CalmCases, OutputKept DEF Fresh
<1>2. ASSUME state'[r] = state[r] PROVE StateKnown(o)'
  BY <1>1, <1>2 DEF StateKnown
<1>3. ASSUME state'[r] = output'[r] PROVE StateKnown(o)'
  <2>1. output'[r] # "unknown"
    BY <1>0 DEF Actions
  <2> QED BY <1>3, <2>1 DEF StateKnown
<1>4. ASSUME state'[r] = Act[o], output'[r] = Act[o] PROVE StateKnown(o)'
  BY <1>3, <1>4
<1>5. ASSUME NEW ok \in BOOLEAN, Notified(ok) PROVE StateKnown(o)'
  <2>1. state'[r] = state[r] \/ state'[r] = output'[r]
    BY <1>0, <1>5 DEF Notified
  <2> QED BY <1>2, <1>3, <2>1
<1>6. CASE Minute
  BY <1>1, <1>5, <1>6 DEF Minute
<1>7. ASSUME SchMatch \/ (SchSettle /\ sch.res) PROVE StateKnown(o)'
  <2>1. state' = [state EXCEPT ![RelayOf[sch.cur]] = Act[sch.cur]]
    BY <1>7 DEF SchMatch, SchSettle
  <2>2. sch.pc \in {"record", "settle"} /\ sch.res /\ sch.cur \in sch.todo /\ sch.cur \in Occ
    BY <1>0, <1>7 DEF SchMatch, SchSettle, Timely, PassIsTimely, TypeOK, ActorsType
  <2>3. CASE RelayOf[sch.cur] = r
    <3>1. output[r] = Act[o]
      BY <2>2, <2>3 DEF MatchIsTrue
    <3>2. Act[sch.cur] = Act[o]
      BY <1>0, <2>2, <2>3, PassIsFresh DEF Fresh
    <3> QED BY <1>0, <1>1, <1>4, <2>1, <2>3, <3>1, <3>2
  <2>4. CASE RelayOf[sch.cur] # r
    BY <1>0, <1>2, <2>1, <2>4
  <2> QED BY <2>3, <2>4
<1>8. CASE SchSettle /\ ~sch.res
  BY <1>2, <1>8 DEF SchSettle
<1>9. CASE SchSend
  BY <1>5, <1>9 DEF SchSend
<1>10. ASSUME NEW p \in Senders, CmdSend(p) PROVE StateKnown(o)'
  <2>1. PICK ok \in BOOLEAN :
          /\ Dispatched(cmd[p].relay, cmd[p].act, ok)
          /\ state' = IF ok THEN [state EXCEPT ![cmd[p].relay] = cmd[p].act] ELSE state
    BY <1>10 DEF CmdSend
  <2>2. CASE ok /\ cmd[p].relay = r
    BY <1>0, <1>3, <2>1, <2>2 DEF Dispatched
  <2>3. CASE ~(ok /\ cmd[p].relay = r)
    BY <1>0, <1>2, <2>1, <2>3
  <2> QED BY <2>2, <2>3
<1>11. ASSUME NEW p \in Senders, CmdVerify(p) PROVE StateKnown(o)'
  <2>1. output' = output /\ (state' = state \/ state' = [state EXCEPT ![cmd[p].relay] = output[cmd[p].relay]])
    BY <1>11 DEF CmdVerify, Acked, NotSwitched, StuckOn
  <2>2. state'[r] = state[r] \/ state'[r] = output'[r]
    BY <1>0, <2>1
  <2> QED BY <1>2, <1>3, <2>2
<1>12. ~HiWrite
  BY <1>1 DEF HiWrite
<1>13. ASSUME NEW x \in Relays, NEW a \in Actions, WallSwitch(x, a) PROVE FALSE
  BY <1>0, <1>1, <1>13 DEF WallSwitch, Hand, TypeOK, BoundsType
<1> QED
  BY <1>2, <1>6, <1>7, <1>8, <1>9, <1>10, <1>11, <1>12, <1>13, StateFrame

\* A late run records what it read.
LEMMA StateStep ==
    ASSUME Sizes, IInv, Timely, CalmIsCalm, Fresh, MatchIsTrue, ReadIsTrue, StateIsTrue, Next, CalmNext
    PROVE  StateIsTrue'
<1> SUFFICES ASSUME NEW o \in Occ, RunLate(o)', cu'.pc \in {"each", "command"} PROVE StateKnown(o)'
  BY DEF StateIsTrue, StateKnown
<1>0. /\ TypeOK /\ RelayOf[o] \in Relays
      /\ state \in [Relays -> Actions \cup {"unknown"}] /\ output \in [Relays -> Actions]
  BY OccurrencesAssumption DEF IInv, TypeOK, WorldType, DbType
<1>1. cu.pc # "idle" /\ cu'.at = cu.at
  BY <1>0, RunMoves
<1>2. RunLate(o) /\ Late(o) /\ Late(o)'
  BY <1>1, RunLateBefore
<1>3. CASE CuWrite
  <2>1. cu.pc = "write" /\ output' = output
    BY <1>3 DEF CuWrite, NoRpc
  <2>2. cu.read[RelayOf[o]] # "none" /\ (cu.read[RelayOf[o]] = Act[o] => output[RelayOf[o]] = Act[o])
    BY <1>2, <2>1 DEF ReadIsTrue
  <2>3. state'[RelayOf[o]] = cu.read[RelayOf[o]]
    BY <1>0, <1>3, <2>2 DEF CuWrite, Reconciled
  <2>4. cu.read[RelayOf[o]] # "unknown"
    BY <1>0 DEF TypeOK, ActorsType, CatchUps, Readings
  <2> QED BY <2>1, <2>2, <2>3, <2>4 DEF StateKnown
<1>4. CASE ~CuWrite
  <2>1. cu.pc \in {"each", "command"}
    BY <1>0, <1>4, RunMoves
  <2>2. StateKnown(o)
    BY <1>2, <2>1 DEF StateIsTrue, StateKnown
  <2> QED BY <1>2, <1>4, <2>2, StateKept
<1> QED BY <1>3, <1>4

\* Once the command of a late run is sent, the channel is in its state.
LEMMA CmdIsTrueStep ==
    ASSUME Sizes, IInv, Timely, CalmIsCalm, Fresh, CmdIsTrue, Next, CalmNext PROVE CmdIsTrue'
<1> SUFFICES ASSUME NEW o \in Occ, RunLate(o)', cu'.pc = "command", RelayOf[cu'.cur] = RelayOf[o],
                    cmd'["system"].pc \in {"verify", "done"}
             PROVE  output'[RelayOf[o]] = Act[o]
  BY DEF CmdIsTrue
<1>0. /\ TypeOK /\ BeliefsAreEarned /\ RelayOf[o] \in Relays /\ output \in [Relays -> Actions]
      /\ cu \in CatchUps /\ cmd \in [Senders -> Commands] /\ "system" \in Senders
  BY OccurrencesAssumption DEF IInv, TypeOK, WorldType, ActorsType, Senders
<1>1. ASSUME NEW p \in Occ, CuApply(p) PROVE FALSE
  BY <1>0, <1>1 DEF CuApply, NewCommand
<1>2. cu' = cu
  <2>1. ~CuRead /\ ~CuWrite /\ ~CuSettle
    BY <1>0 DEF CuRead, CuWrite, CuSettle, CatchUps
  <2>2. ASSUME NEW p \in Occ, CuKeep(p) PROVE FALSE
    BY <1>0, <2>2 DEF CuKeep, CatchUps
  <2> QED BY <1>0, <1>1, <2>1, <2>2, RunMoves
<1>3. RunLate(o) /\ Late(o) /\ Late(o)' /\ calm' >= 3
  BY <1>2, RunLateBefore
<1>4. output[RelayOf[o]] = Act[o] => output'[RelayOf[o]] = Act[o]
  BY <1>0, <1>3, OutputKept DEF Fresh
<1>5. CASE cmd'["system"] = cmd["system"] \/ CmdVerify("system")
  BY <1>2, <1>3, <1>4, <1>5 DEF CmdIsTrue, CmdVerify
<1>6. CASE CmdSend("system")
  <2>1. PICK ok \in BOOLEAN : Dispatched(cmd["system"].relay, cmd["system"].act, ok)
    BY <1>6 DEF CmdSend
  <2>2. ~Unanswered
    <3>1. calm' >= 2
      BY <1>0, <1>3, CalmStep, SettlingType DEF CalmIsCalm
    <3> QED BY <1>0, <3>1, CalmCases, CalmAnswers
  <2>3. output' = [output EXCEPT ![RelayOf[cu.cur]] = Act[cu.cur]]
    <3>1. cmd["system"].relay = RelayOf[cu.cur] /\ cmd["system"].act = Act[cu.cur]
      BY <1>0, <1>2 DEF BeliefsAreEarned, CatchUpIsSound
    <3> QED BY <2>1, <2>2, <3>1 DEF Dispatched
  <2>4. Act[cu.cur] = Act[o]
    <3>1. DueAt[o] + 2 <= now /\ Counts(o)
      BY <1>0, <1>3, Clock, OccurrencesAssumption, SizesAssumption DEF Late
    <3> QED BY <1>0, <1>2, <3>1, CommandIsFresh DEF Fresh
  <2> QED BY <1>0, <1>2, <2>3, <2>4
<1>7. ~Crash
  <2>1. Crash => cu'.pc = "idle"
    BY DEF Crash, CuIdle
  <2> QED BY <2>1
<1>8. ASSUME NEW joined \in BOOLEAN, CatchUpCalled(joined), UNCHANGED <<now, cmd>>
      PROVE  cmd'["system"] = cmd["system"]
  BY <1>8
<1>9. ASSUME NEW p \in Occ, CuKeep(p) PROVE cmd'["system"] = cmd["system"]
  BY <1>9 DEF CuKeep
<1>10. /\ CuRead \/ CuWrite \/ CuEnd => cmd'["system"] = cmd["system"]
       /\ ~CuSettle
  <2>1. CuSettle => cu'.pc = "each"
    BY <1>0 DEF CuSettle, CatchUps
  <2> QED BY <2>1 DEF CuRead, CuWrite, CuEnd
<1> QED BY <1>0, <1>1, <1>5, <1>6, <1>7, <1>8, <1>9, <1>10, CatchUpFrame

\* A run that began late enough has the channel on its list.
LEMMA ChoiceIsMade ==
    ASSUME TypeOK, NEW o \in Occ, RunLate(o), cu.at <= now
    PROVE  \E q \in LatestDue(cu.at) : RelayOf[q] \notin RecentRelays(cu.at) /\ Equal(q, o)
<1>0. /\ now \in Nat /\ cu.at \in Nat /\ Grace \in Nat /\ DueAt \in [Occ -> Nat] /\ Sid \in [Occ -> Nat]
      /\ Decides(o) /\ status[o] # "none" /\ cu.at >= DueAt[o] + Grace + 2
  BY Clock, OccurrencesAssumption, SizesAssumption DEF RunLate, Wanted
<1> DEFINE at == cu.at
<1> HIDE DEF at
<1>1. at \in Nat /\ at <= now /\ at >= DueAt[o] + Grace + 2
  BY <1>0 DEF at
<1> DEFINE L == {p \in LoggedBefore(at) : Equal(p, o)}
<1>2. o \in L
  BY <1>0, <1>1 DEF LoggedBefore, Equal
<1>3. \A p \in LoggedBefore(at) : p \in Occ /\ DueAt[p] <= now
  BY <1>0, <1>1 DEF LoggedBefore
<1>4. PICK q \in L : \A p \in L : Sid[q] <= Sid[p]
  <2> DEFINE T == {Sid[p] : p \in L}
  <2>1. T \subseteq Nat /\ T # {}
    BY <1>0, <1>2, <1>3
  <2>2. PICK n \in T : \A i \in T : <<i, n>> \notin OpToRel(<, Nat)
    <3> HIDE DEF T
    <3> QED BY <2>1, NatLessThanWellFounded, WFMin
  <2>3. \A i \in T : n <= i
    <3>1. \A i \in T : ~(i < n) /\ i \in Nat /\ n \in Nat
      BY <2>1, <2>2 DEF OpToRel
    <3> QED BY <3>1
  <2>4. PICK q \in L : n = Sid[q]
    OBVIOUS
  <2>5. \A p \in L : Sid[p] \in T
    OBVIOUS
  <2> QED BY <2>3, <2>4, <2>5
<1>5. q \in LatestDue(at)
  <2> SUFFICES ASSUME NEW p \in LoggedBefore(at) \ {q}, RelayOf[p] = RelayOf[q]
               PROVE  DueAt[p] < DueAt[q] \/ (DueAt[p] = DueAt[q] /\ Act[p] = Act[q] /\ Sid[q] < Sid[p])
    BY <1>4 DEF LatestDue
  <2>1. p \in Occ /\ q \in Occ /\ DueAt[p] <= now /\ Equal(q, o) /\ RelayOf[p] = RelayOf[o]
    BY <1>3, <1>4 DEF Equal
  <2>2. DueAt[p] <= DueAt[o] /\ (DueAt[p] = DueAt[o] => Act[p] = Act[o])
    BY <1>0, <2>1, DecidesLast
  <2>3. CASE DueAt[p] = DueAt[o]
    <3>1. Equal(p, o) /\ p \in L
      BY <2>1, <2>2, <2>3 DEF Equal
    <3>2. Sid[q] <= Sid[p] /\ Sid[q] # Sid[p]
      BY <1>4, <2>1, <2>2, <2>3, <3>1, UniqueKeyAssumption DEF Equal
    <3> QED BY <1>0, <2>1, <2>2, <2>3, <3>2 DEF Equal
  <2>4. CASE DueAt[p] # DueAt[o]
    BY <1>0, <2>1, <2>2, <2>4 DEF Equal
  <2> QED BY <2>3, <2>4
<1>6. RelayOf[q] \notin RecentRelays(at)
  <2> SUFFICES ASSUME NEW p \in Occ, DueAt[p] >= at - Grace - 1, DueAt[p] <= at, RelayOf[p] = RelayOf[o]
               PROVE  FALSE
    BY <1>4 DEF RecentRelays, Equal
  <2>1. DueAt[p] <= now
    BY <1>0, <1>1
  <2>2. DueAt[p] <= DueAt[o]
    BY <1>0, <2>1, DecidesLast
  <2> QED BY <1>0, <1>1, <2>2
<1> QED BY <1>4, <1>5, <1>6 DEF at

\* A late run has the channel on its list until it is in its state.
LEMMA TodoStep ==
    ASSUME Sizes, IInv, Timely, CalmIsCalm, Fresh, StateIsTrue, CmdIsTrue, TodoOrDone, Next, CalmNext
    PROVE  TodoOrDone'
<1> SUFFICES ASSUME NEW o \in Occ, RunLate(o)', cu'.pc \in {"each", "command"}
             PROVE  output'[RelayOf[o]] = Act[o] \/ \E q \in cu'.todo : Equal(q, o)
  BY DEF TodoOrDone, Equal
<1>0. TypeOK /\ BeliefsAreEarned /\ cu \in CatchUps /\ RelayOf[o] \in Relays
  BY OccurrencesAssumption DEF IInv, TypeOK, ActorsType
<1>1. cu.pc # "idle" /\ cu'.at = cu.at
  BY <1>0, RunMoves
<1>2. RunLate(o) /\ Late(o) /\ Late(o)'
  BY <1>1, RunLateBefore
<1> DEFINE There == output'[RelayOf[o]] = Act[o]
<1>3. output[RelayOf[o]] = Act[o] => There
  BY <1>0, <1>2, OutputKept DEF Fresh
<1>4. CASE CuWrite
  <2> DEFINE S == {p \in LatestDue(cu.at) : RelayOf[p] \notin RecentRelays(cu.at)}
  <2>1. cu' = [cu EXCEPT !.pc = "each", !.read = Unread, !.todo = S]
    BY <1>4 DEF CuWrite
  <2>2. \E q \in S : Equal(q, o)
    <3>1. cu.at <= now
      BY <1>0, <1>1 DEF BeliefsAreEarned, CuReadingIsSound
    <3> QED BY <1>0, <1>2, <3>1, ChoiceIsMade
  <2> HIDE DEF S
  <2>3. cu'.todo = S
    BY <1>0, <2>1 DEF CatchUps
  <2> QED BY <2>2, <2>3
<1>5. CASE ~CuWrite
  <2>0. cu.pc \in {"each", "command"}
    BY <1>0, <1>5, RunMoves
  <2>1. CASE output[RelayOf[o]] = Act[o]
    BY <1>3, <2>1
  <2>2. CASE output[RelayOf[o]] # Act[o]
    <3>1. PICK q \in cu.todo : Equal(q, o)
      BY <1>2, <2>0, <2>2 DEF TodoOrDone
    <3>2. state[RelayOf[o]] # "unknown" /\ state[RelayOf[o]] # Act[o]
      BY <1>2, <2>0, <2>2 DEF StateIsTrue
    <3>3. CASE cu' = cu
      BY <3>1, <3>3
    <3>4. CASE CuSettle /\ cu.pc = "command" /\ cu'.todo = cu.todo \ {cu.cur}
      <4>1. q # cu.cur
        <5> SUFFICES ASSUME q = cu.cur PROVE FALSE
          OBVIOUS
        <5>1. cmd["system"].pc = "done" /\ RelayOf[cu.cur] = RelayOf[o]
          BY <3>1, <3>4 DEF CuSettle, Equal
        <5> QED BY <1>2, <2>2, <3>4, <5>1 DEF CmdIsTrue
      <4> QED BY <3>1, <3>4, <4>1
    <3>5. ASSUME NEW p \in Occ, CuKeep(p), cu'.todo = cu.todo \ {p} PROVE q \in cu'.todo
      <4>1. q # p
        <5> SUFFICES ASSUME q = p PROVE FALSE
          OBVIOUS
        <5>1. p \in word
          BY <3>1, <3>2, <3>5 DEF CuKeep, KeepRelay, Equal
        <5>2. o \in word
          BY <3>1, <5>1 DEF Timely, WordIsFair, Equal
        <5> QED BY <1>2, <5>2 DEF RunLate, Wanted
      <4> QED BY <3>1, <3>5, <4>1
    <3>6. ASSUME NEW p \in Occ, CuApply(p), cu'.todo = cu.todo PROVE q \in cu'.todo
      BY <3>1, <3>6
    <3>7. ~(cu.pc = "idle") /\ ~(CuRead /\ cu.pc = "read")
      BY <2>0
    <3> QED BY <1>0, <1>5, <3>1, <3>3, <3>4, <3>5, <3>6, <3>7, RunMoves
  <2> QED BY <2>1, <2>2
<1> QED BY <1>4, <1>5

\* What a late run has settled stays, and a run that ends has settled its channels.
LEMMA SettledStep ==
    ASSUME Sizes, IInv, Timely, CalmIsCalm, Fresh, TodoOrDone, Settled, Next, CalmNext PROVE Settled'
<1> SUFFICES ASSUME NEW o \in Occ, Wanted(o)', cuDoneAt' >= DueAt[o] + Grace + 4, cuDoneAt' >= CalmSince' + 5
             PROVE  output'[RelayOf[o]] = Act[o]
  BY DEF Settled
<1>0. /\ TypeOK /\ BeliefsAreEarned /\ now \in Nat /\ now' \in Nat /\ now <= now' /\ cuDoneAt \in Int
      /\ DueAt[o] \in Nat /\ Grace \in Nat /\ cuDoneAt <= now
  BY Clock, TimePasses, OccurrencesAssumption, SizesAssumption DEF IInv, Never, Timely, RoundsAreTimely
<1>1. /\ CalmSince \in Int /\ CalmSince' \in Int /\ CalmSince <= CalmSince'
      /\ calm \in Nat /\ calm' \in Nat
  BY <1>0, CalmGrows, CalmStep, SettlingType DEF CalmIsCalm
<1>2. ~Crash
  BY <1>0 DEF Crash, Never
<1>3. cuDoneAt' \in Int /\ cuDoneAt' <= now /\ (cuDoneAt' = cuDoneAt \/ (CuEnd /\ cuDoneAt' = now))
  BY <1>0, <1>2, ServerFrame DEF CuEnd
<1>9. cuDoneAt' >= CalmSince + 5 /\ CalmSince \in Int
  <2>1. ASSUME NEW a \in Int, NEW b \in Int, NEW c \in Int, c <= b, a >= b + 5 PROVE a >= c + 5
    BY <2>1
  <2> QED BY <1>1, <1>3, <2>1
<1>4. calm >= 5 /\ calm' >= 5 /\ calm >= 3 /\ calm' >= 3 /\ calm' >= 2
  <2>1. cuDoneAt' >= CalmSince + 5 /\ cuDoneAt' <= now'
    BY <1>0, <1>9, <1>3
  <2>2. calm >= 5 /\ calm' >= 5
    BY <1>0, <1>3, <2>1, CalmGrows
  <2> QED BY <1>1, <2>2
<1>5. Wanted(o)
  <2>1. DueAt[o] + Grace + 2 <= now
    BY <1>0, <1>3
  <2> QED BY <1>0, <1>4, <2>1, CalmCases, WantedBefore
<1>6. Late(o) /\ Late(o)'
  <2>1. DueAt[o] + Grace + 2 <= now /\ DueAt[o] + Grace + 2 <= now'
    BY <1>0, <1>3
  <2> QED BY <1>4, <1>5, <2>1 DEF Late, Counts, Wanted
<1>7. CASE cuDoneAt' = cuDoneAt
  <2>1. output[RelayOf[o]] = Act[o]
    <3>1. cuDoneAt >= CalmSince + 5
      BY <1>7, <1>9
    <3> QED BY <1>5, <1>7, <3>1 DEF Settled
  <2> QED BY <1>0, <1>6, <2>1, OutputKept DEF Fresh, IInv
<1>8. CASE CuEnd /\ cuDoneAt' = now
  <2>1. cu.pc = "each" /\ cu.todo = {} /\ output' = output
    BY <1>8 DEF CuEnd, NoRpc
  <2>2. cu.at \in Nat /\ now <= cu.at + 2
    BY <1>0, <2>1, Clock DEF BeliefsAreEarned, CuReadingIsSound
  <2>3. cu.at >= DueAt[o] + Grace + 2 /\ cu.at >= CalmSince + 3
    BY <1>0, <1>8, <1>9, <2>2
  <2> QED BY <1>5, <2>1, <2>3 DEF TodoOrDone, RunLate
<1> QED BY <1>3, <1>7, <1>8

\* Who ends a run.
LEMMA RunEnds == ASSUME TypeOK, Next, cu.pc # "idle", cu'.pc = "idle" PROVE CuEnd \/ Crash
<1>0. cu \in CatchUps
  BY DEF TypeOK, ActorsType
<1>1. ~CuRead /\ ~CuWrite /\ ~CuSettle
  BY <1>0 DEF CuRead, CuWrite, CuSettle, CatchUps
<1>2. ASSUME NEW o \in Occ, CuKeep(o) \/ CuApply(o) PROVE FALSE
  BY <1>0, <1>2 DEF CuKeep, CuApply, CatchUps
<1>3. ASSUME NEW joined \in BOOLEAN, CatchUpCalled(joined) PROVE FALSE
  BY <1>3 DEF CatchUpCalled
<1>4. ~CmdSend("system") /\ ~CmdVerify("system")
  BY DEF CmdSend, CmdVerify
<1> QED BY <1>1, <1>2, <1>3, <1>4, CatchUpFrame

\* A round in the calm starts a run, joins one, or comes just after one.
LEMMA RoundsStep ==
    ASSUME Sizes, IInv, Timely, CalmIsCalm, Rounds, Next, CalmNext PROVE Rounds'
<1> SUFFICES ASSUME srv', lastCatchUp' >= CalmSince' + 2, cu'.pc = "idle" PROVE cuDoneAt' >= lastCatchUp' - 1
  BY DEF Rounds
<1>0. /\ TypeOK /\ now \in Nat /\ now' \in Nat /\ seen \in Nat /\ cuDoneAt \in Int
      /\ lastCatchUp \in Nat /\ lastCatchUp' \in Nat /\ ReachableMin \in Nat
  <2>1. TypeOK /\ TypeOK'
    BY NextType DEF IInv
  <2>2. lastCatchUp' \in Nat
    BY <2>1, SizesAssumption DEF TypeOK, MemoryType, Minutes
  <2> QED BY <2>1, <2>2, Clock, TimePasses, SizesAssumption DEF Never
<1>1. lastCatchUp' <= now'
  BY <1>0, RoundsTimelyStep DEF Sizes, RoundsAreTimely
<1>2. calm' >= 2
  BY <1>0, <1>1, CalmGrows
<1>3. /\ ~Restart /\ ~Crash /\ srv
      /\ (Minute /\ sch.pc = "idle") \/ (now' = now /\ calm' = calm)
  BY <1>0, <1>2, CalmCases
<1>4. CASE SchEnd /\ now - lastCatchUp >= CatchUpEvery
  <2>1. now' = now /\ calm' = calm /\ cuDoneAt' = cuDoneAt /\ lastCatchUp' = now
    BY <1>3, <1>4 DEF SchEnd
  <2>2. online /\ now - seen <= 1
    BY <1>2, <2>1 DEF CalmIsCalm
  <2>3. now - seen <= ReachableMin
    BY <1>0, <2>2 DEF Sizes
  <2>4. PICK joined \in BOOLEAN : CatchUpCalled(joined)
    BY <1>4, <2>2, <2>3 DEF SchEnd
  <2>5. now <= cuDoneAt + 1
    BY <2>4 DEF CatchUpCalled, CuIdle
  <2> QED BY <1>0, <2>1, <2>5
<1>5. CASE lastCatchUp' = lastCatchUp
  <2>1. lastCatchUp >= CalmSince + 2
    BY <1>0, <1>5, CalmGrows
  <2>2. CASE cu.pc # "idle"
    <3>1. CuEnd
      BY <1>0, <1>3, <2>2, RunEnds
    <3>2. cuDoneAt' = now /\ lastCatchUp <= now
      BY <1>3, <3>1 DEF CuEnd, Timely, RoundsAreTimely
    <3> QED BY <1>0, <1>5, <3>2
  <2>3. CASE cu.pc = "idle"
    <3>1. cuDoneAt >= lastCatchUp - 1
      BY <1>3, <2>1, <2>3 DEF Rounds
    <3>2. cuDoneAt' = cuDoneAt
      <4>1. ~CuEnd
        BY <2>3 DEF CuEnd
      <4> QED BY <1>3, <4>1, ServerFrame
    <3> QED BY <1>5, <3>1, <3>2
  <2> QED BY <2>2, <2>3
<1>6. SchEnd => (now - lastCatchUp >= CatchUpEvery) \/ lastCatchUp' = lastCatchUp
  BY DEF SchEnd
<1> QED BY <1>3, <1>4, <1>5, <1>6, ServerFrame

-----------------------------------------------------------------------------
(* The recovery *)

\* The inductive invariant: how long things take, what the calm brings, and what
\* the late runs and the passes may believe.
RecoveryIsUnderWay ==
    /\ Timely /\ CalmIsCalm /\ Fresh
    /\ MatchIsTrue /\ ReadIsTrue /\ StateIsTrue /\ CmdIsTrue
    /\ TodoOrDone /\ Settled /\ Rounds

\* Every step keeps the invariant.
LEMMA RecoveryStep ==
    ASSUME Sizes, IInv, RecoveryIsUnderWay, Next, CalmNext PROVE RecoveryIsUnderWay'
<1> USE DEF RecoveryIsUnderWay
<1>1. Timely'
  BY PassTimelyStep, CommandsTimelyStep, DownStep, RoundsTimelyStep, WordStep DEF Timely, IInv, Sizes
<1>2. CalmIsCalm'
  BY CalmHolds DEF IInv
<1>3. Fresh'
  BY RunsFreshStep, RowsFreshStep, PassesFreshStep DEF Fresh
<1> QED
  BY <1>1, <1>2, <1>3, MatchStep, ReadStep, StateStep, CmdIsTrueStep, TodoStep, SettledStep, RoundsStep

\* A stuttering step keeps it.
LEMMA RecoveryStutter ==
    ASSUME RecoveryIsUnderWay, UNCHANGED <<vars, calm>> PROVE RecoveryIsUnderWay'
<1> USE DEF RecoveryIsUnderWay, vars, world, db, rows, mem
<1>1. /\ UNCHANGED <<now, srv, link, topic, output, online, seen, state, status, word, sch, cu, hi, cmd>>
      /\ UNCHANGED <<lastCatchUp, cuDoneAt, boot, probe, calm>>
  OBVIOUS
<1>2. Timely'
  BY <1>1 DEF Timely, PassIsTimely, CommandsAreTimely, DownIsIdle, RoundsAreTimely, WordIsFair, TopicIsFollowed
<1>3. CalmIsCalm'
  BY <1>1 DEF CalmIsCalm
<1>4. /\ \A o \in Occ : Counts(o)' = Counts(o) /\ Wanted(o)' = Wanted(o)
      /\ \A o, q \in Occ : Stale(q, o)' = Stale(q, o)
      /\ CalmSince' = CalmSince
  BY <1>1 DEF Counts, Wanted, Decides, Stale, CalmSince
<1>5. Fresh'
  BY <1>1, <1>4 DEF Fresh, RunsAreFresh, RowsAreFresh, PassesAreFresh
<1>6. \A o \in Occ : Late(o)' = Late(o) /\ RunLate(o)' = RunLate(o)
  BY <1>1, <1>4 DEF Late, RunLate
<1>7. MatchIsTrue' /\ ReadIsTrue' /\ StateIsTrue' /\ CmdIsTrue'
  BY <1>1, <1>6 DEF MatchIsTrue, ReadIsTrue, StateIsTrue, CmdIsTrue
<1>8. TodoOrDone' /\ Settled' /\ Rounds'
  BY <1>1, <1>4, <1>6 DEF TodoOrDone, Equal, Settled, Rounds
<1> QED BY <1>2, <1>3, <1>5, <1>7, <1>8

\* Initially nothing is under way and nothing is calm yet.
LEMMA RecoveryBegins == ASSUME RecoveryInit PROVE RecoveryIsUnderWay
<1> USE DEF RecoveryIsUnderWay, RecoveryInit
<1>1. /\ now = 0 /\ srv /\ link /\ topic = "none" /\ word = {} /\ calm = 0
      /\ sch.pc = "idle" /\ cu.pc = "idle" /\ \A p \in Senders : cmd[p].pc = "idle"
      /\ lastCatchUp = 0 /\ cuDoneAt = -2
  BY DEF Init, SchIdle, CuIdle, CmdIdle, Never
<1>2. Timely
  BY <1>1, SizesAssumption DEF Timely, PassIsTimely, CommandsAreTimely, DownIsIdle, RoundsAreTimely,
     WordIsFair, TopicIsFollowed
<1>3. CalmIsCalm
  BY <1>1, SettlingType DEF CalmIsCalm
<1>4. Fresh
  BY <1>1 DEF Fresh, RunsAreFresh, RowsAreFresh, PassesAreFresh
<1>5. MatchIsTrue /\ ReadIsTrue /\ StateIsTrue /\ CmdIsTrue /\ TodoOrDone
  BY <1>1 DEF MatchIsTrue, ReadIsTrue, StateIsTrue, CmdIsTrue, TodoOrDone
<1>6. Settled /\ Rounds
  BY <1>1, OccurrencesAssumption, SizesAssumption DEF Settled, Rounds, CalmSince
<1> QED BY <1>2, <1>3, <1>4, <1>5, <1>6

\* The settling time holds a round, and what came before it in time.
LEMMA RecoveryComes == ASSUME Sizes, TypeOK, RecoveryIsUnderWay PROVE Recovered
<1> USE DEF RecoveryIsUnderWay
<1> SUFFICES ASSUME NEW o \in Occ, Decides(o), HadItsTime(o), status[o] # "none", o \notin word
             PROVE  output[RelayOf[o]] = Act[o]
  BY DEF Recovered
<1>0. /\ now \in Nat /\ lastCatchUp \in Nat /\ cuDoneAt \in Int /\ DueAt[o] \in Nat
      /\ Grace \in Nat \ {0} /\ CatchUpEvery \in Nat /\ CatchUpEvery >= 3
      /\ Settling = Grace + 1 + 2 * CatchUpEvery
  BY Clock, OccurrencesAssumption, SizesAssumption DEF Never, Sizes, Settling
<1>1. calm = Settling /\ DueAt[o] + Settling <= now /\ sch.pc = "idle" /\ cu.pc = "idle"
  BY DEF HadItsTime, Quiet
<1>2. srv
  BY <1>0, <1>1 DEF CalmIsCalm
<1>3. now < lastCatchUp + CatchUpEvery
  BY <1>1, <1>2 DEF Timely, RoundsAreTimely
<1>4. CalmSince = now - Settling
  BY <1>1 DEF CalmSince
<1>5. cuDoneAt >= lastCatchUp - 1
  <2>1. lastCatchUp >= CalmSince + 2
    BY <1>0, <1>3, <1>4
  <2> QED BY <1>1, <1>2, <2>1 DEF Rounds
<1>6. cuDoneAt >= DueAt[o] + Grace + 4 /\ cuDoneAt >= CalmSince + 5
  BY <1>0, <1>1, <1>3, <1>4, <1>5
<1> QED BY <1>6 DEF Settled, Wanted

\* tick.js:418-433: an occurrence the unit slept through is re-applied.  Whatever
\* the schedules, the orders and the failures were: once nothing has disturbed
\* the unit or the server for the settling time, and no pass outlasts its
\* minute, the channel is in the state of the occurrence that decides it.
THEOREM RecoveryHolds ==
    ASSUME MaxOverrun = 0, ReachableMin >= 1, CatchUpEvery >= 3
    PROVE  RecoverySpec => []Recovered
<1>0. Sizes
  BY DEF Sizes
<1>1. RecoverySpec => Spec
  <2>1. RecoveryInit => Init
    BY DEF RecoveryInit
  <2>2. [RecoveryNext]_<<vars, calm>> => [Next]_vars
    BY DEF RecoveryNext
  <2> QED BY <2>1, <2>2, PTL DEF RecoverySpec, Spec
<1>2. RecoveryInit => RecoveryIsUnderWay
  BY RecoveryBegins
<1>3. TypeOK /\ BeliefsAreEarned /\ RecoveryIsUnderWay /\ [RecoveryNext]_<<vars, calm>> => RecoveryIsUnderWay'
  BY <1>0, RecoveryStep, RecoveryStutter DEF RecoveryNext, IInv
<1>4. TypeOK /\ RecoveryIsUnderWay => Recovered
  BY <1>0, RecoveryComes
<1> QED BY <1>1, <1>2, <1>3, <1>4, TypeCorrect, BeliefsHold, PTL DEF RecoverySpec
=============================================================================
