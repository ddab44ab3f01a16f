----------------------- MODULE ScheduleChannel_proofs -----------------------
(***************************************************************************)
(* Proofs about ScheduleChannel, for any number of edits, faults, messages *)
(* and concurrent calls: type correctness, complete payloads, earned       *)
(* acknowledgements, and the implementation of SyncLedger.                 *)
(*                                                                         *)
(* The three invariants are inductive in this order: AcksAreEarned needs   *)
(* that a payload on its way is complete, or else the unit's               *)
(* acknowledgement of its version would not be worth the edits it stands   *)
(* for.                                                                    *)
(***************************************************************************)
EXTENDS ScheduleChannel, TLAPS

-----------------------------------------------------------------------------
(* Sequences of messages *)

\* An empty queue, and one of a single message.
LEMMA ShortQueue ==
    ASSUME NEW S PROVE <<>> \in Seq(S) /\ \A m \in S : <<m>> \in Seq(S)
OBVIOUS

\* What the head and the tail of a queue hold was in the queue.
LEMMA HeadTail ==
    ASSUME NEW S, NEW q \in Seq(S), q # <<>>
    PROVE  /\ Head(q) \in S /\ Tail(q) \in Seq(S)
           /\ 1 \in 1..Len(q) /\ Head(q) = q[1]
           /\ \A i \in 1..Len(Tail(q)) : i + 1 \in 1..Len(q) /\ Tail(q)[i] = q[i + 1]
OBVIOUS

\* An element of a queue with one more message is an old one or the new one.
LEMMA AppendHolds ==
    ASSUME NEW S, NEW q \in Seq(S), NEW m \in S
    PROVE  /\ Append(q, m) \in Seq(S)
           /\ \A i \in 1..Len(Append(q, m)) :
                 Append(q, m)[i] = m \/ (i \in 1..Len(q) /\ Append(q, m)[i] = q[i])
OBVIOUS

\* The same of two more messages.
LEMMA ConcatHolds ==
    ASSUME NEW S, NEW q \in Seq(S), NEW m \in S, NEW n \in S
    PROVE  /\ q \o <<m, n>> \in Seq(S)
           /\ \A i \in 1..Len(q \o <<m, n>>) :
                 \/ (q \o <<m, n>>)[i] = m \/ (q \o <<m, n>>)[i] = n
                 \/ i \in 1..Len(q) /\ (q \o <<m, n>>)[i] = q[i]
OBVIOUS

-----------------------------------------------------------------------------
(* Types *)

\* The payloads and messages that the code builds have their types.
LEMMA MessageTypes ==
    ASSUME NEW v \in Versions, NEW b \in BOOLEAN
    PROVE  /\ \A c \in Versions : Payload(v, c) \in Payloads
           /\ Status(b, v) \in Messages /\ Ack(b, v) \in Messages
BY DEF Payload, Payloads, Status, Ack, Messages

\* Before anything happened.
LEMMA ZeroTypes == 0 \in Versions /\ Nothing \in Payloads
BY BoundsAssumption DEF Versions, Nothing, Payload, Payloads

\* The calls of a push have their type in every stage.
LEMMA CallTypes ==
    ASSUME NEW v \in Versions, NEW c \in Versions
    PROVE  Asked \in Calls /\ Read(v) \in Calls /\ Built(v, c) \in Calls /\ Sent \in Calls
BY ZeroTypes DEF Asked, Read, Built, Sent, Calls

\* A payload's fields are versions.
LEMMA PayloadFields ==
    ASSUME NEW p \in Payloads PROVE p.version \in Versions /\ p.content \in Versions
BY DEF Payloads

\* A bounded fault keeps the counter in its range.
LEMMA FaultType ==
    ASSUME TypeOK, Fault PROVE faults' \in 0..MaxFaults
BY BoundsAssumption DEF TypeOK, Fault

\* The larger of two versions is a version.
LEMMA LargerType ==
    ASSUME NEW m \in Versions, NEW n \in Versions
    PROVE  /\ Larger(m, n) \in Versions
           /\ Larger(m, n) >= m /\ Larger(m, n) >= n
           /\ Larger(m, n) = m \/ Larger(m, n) = n
BY BoundsAssumption DEF Larger, Versions

LEMMA InitType == Init => TypeOK
<1> SUFFICES ASSUME Init PROVE TypeOK
  OBVIOUS
<1>1. down \in Seq(Payloads) /\ up \in Seq(Messages)
  BY ShortQueue DEF Init
<1>2. faults \in 0..MaxFaults
  BY BoundsAssumption DEF Init
<1> QED BY <1>1, <1>2, ZeroTypes DEF Init, TypeOK

LEMMA EditType == TypeOK /\ Edit => TypeOK'
BY CallTypes, ZeroTypes, BoundsAssumption DEF TypeOK, Edit, path, Versions

LEMMA PushType == TypeOK /\ PushStep => TypeOK'
<1> SUFFICES ASSUME TypeOK, PushStep PROVE TypeOK'
  OBVIOUS
<1>1. CASE PushReadVersion
  BY <1>1, CallTypes, ZeroTypes DEF TypeOK, PushReadVersion, PushFrame, device
<1>2. CASE \E v \in Versions : PushReadRows(v)
  BY <1>2, CallTypes DEF TypeOK, PushReadRows, PushFrame, device
<1>3. CASE \E v, c \in Versions : PushPublish(v, c)
  <2>1. PICK v \in Versions, c \in Versions : PushPublish(v, c)
    BY <1>3
  <2>2. down' \in Seq(Payloads)
    BY <2>1, MessageTypes, AppendHolds DEF TypeOK, PushPublish
  <2> QED BY <2>1, <2>2, MessageTypes, CallTypes DEF TypeOK, PushPublish, PushFrame, device
<1>4. CASE PushArm
  BY <1>4 DEF TypeOK, PushArm, PushFrame, device
<1> QED BY <1>1, <1>2, <1>3, <1>4 DEF PushStep

LEMMA TimerType == TypeOK /\ TimerStep => TypeOK'
BY DEF TypeOK, TimerStep, TimerCheck, TimerFlag, device, path

LEMMA UnitType == TypeOK /\ UnitStep => TypeOK'
<1> SUFFICES ASSUME TypeOK, UnitStep PROVE TypeOK'
  OBVIOUS
<1> USE DEF device, calls
<1>1. ASSUME NEW good \in BOOLEAN, UnitReceives(good) PROVE TypeOK'
  <2>1. Head(down) \in Payloads /\ down' \in Seq(Payloads)
    BY <1>1, HeadTail DEF TypeOK, UnitReceives
  <2>2. unit' \in Payloads /\ best' \in Versions /\ faults' \in 0..MaxFaults
    BY <1>1, <2>1, FaultType, PayloadFields, LargerType DEF TypeOK, UnitReceives
  <2>3. up' \in Seq(Messages)
    <3>1. Ack(good, Head(down).version) \in Messages /\ Status(TRUE, unit'.version) \in Messages
      BY <2>1, <2>2, PayloadFields, MessageTypes
    <3> QED BY <1>1, <3>1, ConcatHolds DEF TypeOK, UnitReceives
  <2> QED BY <1>1, <2>1, <2>2, <2>3 DEF TypeOK, UnitReceives
<1>2. ASSUME NEW stored \in BOOLEAN, Disconnect(stored) PROVE TypeOK'
  <2>1. unit' \in Payloads /\ best' \in Versions
    <3>1. stored => Head(down) \in Payloads
      BY <1>2, HeadTail DEF TypeOK, Disconnect
    <3> QED BY <1>2, <3>1, PayloadFields, LargerType DEF TypeOK, Disconnect
  <2>2. up' \in Seq(Messages)
    BY <1>2, MessageTypes, ZeroTypes, AppendHolds DEF TypeOK, Disconnect
  <2>3. down' \in Seq(Payloads)
    BY <1>2, ShortQueue DEF Disconnect
  <2> QED BY <1>2, <2>3, <2>1, <2>2, FaultType DEF TypeOK, Disconnect
<1>3. CASE Heartbeat
  <2>1. up' \in Seq(Messages)
    BY <1>3, PayloadFields, MessageTypes, ShortQueue DEF TypeOK, Heartbeat
  <2> QED BY <1>3, <2>1 DEF TypeOK, Heartbeat
<1>4. CASE Connect
  <2>1. up' \in Seq(Messages)
    BY <1>4, PayloadFields, MessageTypes, AppendHolds DEF TypeOK, Connect
  <2>2. down' \in Seq(Payloads)
    BY <1>4, ShortQueue DEF TypeOK, Connect
  <2> QED BY <1>4, <2>1, <2>2 DEF TypeOK, Connect
<1>5. CASE UnitDiscards
  BY <1>5, FaultType, HeadTail DEF TypeOK, UnitDiscards
<1> QED BY <1>1, <1>2, <1>3, <1>4, <1>5 DEF UnitStep

LEMMA HandlerType == TypeOK /\ HandlerStep => TypeOK'
<1> SUFFICES ASSUME TypeOK, NEW h \in handlers,
                    StatusHandled(h) \/ AckHandled(h) \/ RejectHandled(h)
             PROVE  TypeOK'
  BY DEF HandlerStep
<1>1. h \in Handlers /\ handlers' \in SUBSET Handlers
  BY DEF TypeOK, StatusHandled, AckHandled, RejectHandled, HandlerFrame
<1>2. ackVer' \in Versions
  <2>1. h.msg.version \in Versions
    BY <1>1 DEF Handlers, Messages
  <2>2. ackVer \in Versions /\ Larger(ackVer, h.msg.version) \in Versions
    BY <2>1, LargerType DEF TypeOK
  <2> QED BY <2>2 DEF StatusHandled, AckHandled, RejectHandled
<1>3. pushes' \in SUBSET Calls
  BY <1>1, CallTypes, ZeroTypes DEF TypeOK, StatusHandled, AckHandled, RejectHandled
<1>4. h.msg.good \in BOOLEAN /\ h.behind \in BOOLEAN
  BY <1>1 DEF Handlers, Messages
<1>5. online' \in BOOLEAN /\ timer' \in BOOLEAN
  BY <1>4 DEF TypeOK, StatusHandled, AckHandled, RejectHandled
<1>6. sync' \in {"pending", "synced", "error"}
  BY DEF TypeOK, StatusHandled, AckHandled, RejectHandled
<1>7. UNCHANGED <<ver, retained, conn, down, up, unit, srv, flagging, faults, best>>
  BY DEF StatusHandled, AckHandled, RejectHandled, HandlerFrame, path
<1> QED BY <1>1, <1>2, <1>3, <1>5, <1>6, <1>7 DEF TypeOK

LEMMA ServerType == TypeOK /\ (Receive \/ Crash \/ Restart) => TypeOK'
<1> SUFFICES ASSUME TypeOK, Receive \/ Crash \/ Restart PROVE TypeOK'
  OBVIOUS
<1> USE DEF device
<1>1. CASE Receive
  <2>1. Head(up) \in Messages /\ up' \in Seq(Messages)
    BY <1>1, HeadTail DEF TypeOK, Receive
  <2>2. Begin(Head(up)) \in Handlers
    BY <2>1 DEF Begin, Handlers
  <2> QED BY <1>1, <2>1, <2>2 DEF TypeOK, Receive
<1>2. CASE Crash
  <2>1. up' \in Seq(Messages)
    BY <1>2, ShortQueue DEF Crash
  <2> QED BY <1>2, <2>1, FaultType DEF TypeOK, Crash
<1>3. CASE Restart
  <2>1. Presence \in Messages
    BY PayloadFields, MessageTypes, ZeroTypes DEF TypeOK, Presence
  <2>2. up' \in Seq(Messages)
    BY <1>3, <2>1, ShortQueue DEF Restart
  <2> QED BY <1>3, <2>2 DEF TypeOK, Restart, calls
<1> QED BY <1>1, <1>2, <1>3

\* Every step keeps the types.
LEMMA NextType == TypeOK /\ [Next]_vars => TypeOK'
<1>1. TypeOK /\ UNCHANGED vars => TypeOK'
  BY DEF TypeOK, vars, device, path, calls
<1> QED BY <1>1, EditType, PushType, TimerType, UnitType, HandlerType, ServerType DEF Next

\* Every variable keeps its type: the columns, the broker, the queues and the
\* calls under way never hold anything but versions that were really given out.
THEOREM TypeCorrect == Spec => []TypeOK
BY InitType, NextType, PTL DEF Spec

-----------------------------------------------------------------------------
(* Complete payloads *)

LEMMA InitComplete == Init => VersionsAreComplete
BY DEF Init, VersionsAreComplete, Complete, Nothing, Payload

\* An edit raises what the payloads are compared with, and nothing else.
LEMMA EditComplete == TypeOK /\ VersionsAreComplete /\ Edit => VersionsAreComplete'
<1> SUFFICES ASSUME TypeOK, VersionsAreComplete, Edit PROVE VersionsAreComplete'
  OBVIOUS
<1>1. ver \in Nat /\ ver' = ver + 1
  BY BoundsAssumption DEF TypeOK, Edit, Versions
<1>2. UNCHANGED <<retained, unit, down>> /\ pushes' = pushes \union {Asked}
  BY DEF Edit, path
<1>3. Complete(retained)' /\ Complete(unit)'
  BY <1>1, <1>2 DEF VersionsAreComplete, Complete, TypeOK, Payloads, Versions
<1>4. \A i \in 1..Len(down') : Complete(down[i])'
  <2>1. \A i \in 1..Len(down) : down[i] \in Payloads
    BY DEF TypeOK
  <2>2. \A i \in 1..Len(down) : down[i].content \in Nat /\ Complete(down[i])
    BY <2>1, PayloadFields, BoundsAssumption DEF VersionsAreComplete, Versions
  <2> QED BY <1>1, <1>2, <2>2 DEF Complete
<1>5. \A p \in pushes : p.version <= ver' /\ (p.pc = "publish" => Complete(p)')
  BY <1>1 DEF VersionsAreComplete, Complete, TypeOK, Calls, Versions
<1>6. Asked.version <= ver' /\ Asked.pc # "publish"
  BY <1>1 DEF Asked
<1> QED BY <1>2, <1>3, <1>4, <1>5, <1>6 DEF VersionsAreComplete, Complete

\* A push never gets ahead of the version it read, and the rows it reads
\* later have at least the edits of that version.
LEMMA PushComplete == TypeOK /\ VersionsAreComplete /\ PushStep => VersionsAreComplete'
<1> SUFFICES ASSUME TypeOK, VersionsAreComplete, PushStep PROVE VersionsAreComplete'
  OBVIOUS
<1> USE DEF PushFrame, device
<1>1. ver \in Nat
  BY BoundsAssumption DEF TypeOK, Versions
<1>2. CASE PushReadVersion
  <2>1. Read(ver).version = ver /\ Read(ver).pc # "publish"
    BY DEF Read
  <2> QED BY <1>1, <1>2, <2>1 DEF PushReadVersion, VersionsAreComplete, Complete
<1>3. ASSUME NEW v \in Versions, PushReadRows(v) PROVE VersionsAreComplete'
  <2>1. v <= ver
    BY <1>3 DEF PushReadRows, VersionsAreComplete, Read
  <2>2. Built(v, ver).version = v /\ Built(v, ver).content = ver
    BY DEF Built
  <2> QED BY <1>1, <1>3, <2>1, <2>2 DEF PushReadRows, VersionsAreComplete, Complete
<1>4. ASSUME NEW v \in Versions, NEW c \in Versions, PushPublish(v, c)
      PROVE  VersionsAreComplete'
  <2>1. Complete(Payload(v, c)) /\ Payload(v, c) \in Payloads
    BY <1>4, MessageTypes DEF PushPublish, VersionsAreComplete, Complete, Built, Payload
  <2>2. \A i \in 1..Len(down') : Complete(down'[i])
    BY <1>4, <2>1, AppendHolds DEF PushPublish, VersionsAreComplete, TypeOK
  <2>3. Sent.version = 0 /\ Sent.pc # "publish"
    BY DEF Sent
  <2> QED BY <1>1, <1>4, <2>1, <2>2, <2>3 DEF PushPublish, VersionsAreComplete, Complete
<1>5. CASE PushArm
  BY <1>5 DEF PushArm, VersionsAreComplete, Complete
<1> QED BY <1>2, <1>3, <1>4, <1>5 DEF PushStep

\* The unit stores a payload whole or not at all, and what it receives was
\* sent or retained.
LEMMA UnitComplete == TypeOK /\ VersionsAreComplete /\ UnitStep => VersionsAreComplete'
<1> SUFFICES ASSUME TypeOK, VersionsAreComplete, UnitStep PROVE VersionsAreComplete'
  OBVIOUS
<1>1. UNCHANGED <<ver, retained, pushes>>
  BY DEF UnitStep, UnitReceives, UnitDiscards, Disconnect, Heartbeat, Connect, device, calls
<1>2. down # <<>> => Complete(Head(down))
  BY HeadTail DEF TypeOK, VersionsAreComplete
<1>3. Complete(unit')
  <2>1. unit' = unit \/ (down # <<>> /\ unit' = Head(down))
    BY DEF UnitStep, UnitReceives, UnitDiscards, Disconnect, Heartbeat, Connect
  <2> QED BY <1>2, <2>1 DEF VersionsAreComplete
<1>4. \A i \in 1..Len(down') : Complete(down'[i])
  <2>1. CASE \E good \in BOOLEAN : UnitReceives(good)
    BY <2>1, HeadTail DEF UnitReceives, TypeOK, VersionsAreComplete
  <2>2. CASE \E stored \in BOOLEAN : Disconnect(stored)
    BY <2>2 DEF Disconnect
  <2>3. CASE Heartbeat
    BY <2>3 DEF Heartbeat, VersionsAreComplete
  <2>4. CASE Connect
    BY <2>4 DEF Connect, VersionsAreComplete
  <2>5. CASE UnitDiscards
    BY <2>5, HeadTail DEF UnitDiscards, TypeOK, VersionsAreComplete
  <2> QED BY <2>1, <2>2, <2>3, <2>4, <2>5 DEF UnitStep
<1> QED BY <1>1, <1>3, <1>4 DEF VersionsAreComplete, Complete

\* The server's other steps only start pushes, from the beginning.
LEMMA OtherComplete ==
    TypeOK /\ VersionsAreComplete /\ (TimerStep \/ HandlerStep \/ Receive \/ Crash \/ Restart)
        => VersionsAreComplete'
<1> SUFFICES ASSUME TypeOK, VersionsAreComplete,
                    TimerStep \/ HandlerStep \/ Receive \/ Crash \/ Restart
             PROVE  VersionsAreComplete'
  OBVIOUS
<1>1. UNCHANGED <<ver, retained, unit, down>>
  BY DEF TimerStep, TimerCheck, TimerFlag, HandlerStep, StatusHandled, AckHandled, RejectHandled,
         HandlerFrame, Receive, Crash, Restart, device, path
<1>2. pushes' \subseteq pushes \union {Asked}
  BY DEF TimerStep, TimerCheck, TimerFlag, HandlerStep, StatusHandled, AckHandled, RejectHandled,
         Receive, Crash, Restart, calls
<1>3. Asked.version <= ver /\ Asked.pc # "publish"
  BY BoundsAssumption DEF Asked, TypeOK, Versions
<1> QED BY <1>1, <1>2, <1>3 DEF VersionsAreComplete, Complete

LEMMA NextComplete == TypeOK /\ VersionsAreComplete /\ [Next]_vars => VersionsAreComplete'
<1>1. VersionsAreComplete /\ UNCHANGED vars => VersionsAreComplete'
  BY DEF VersionsAreComplete, Complete, vars, device, path, calls
<1> QED BY <1>1, EditComplete, PushComplete, UnitComplete, OtherComplete DEF Next

\* No payload claims a version whose edits it lacks, for any number of
\* concurrent pushes and edits: schedulePayload.js reads the version first.
THEOREM CompletePayloads == Spec => []VersionsAreComplete
BY InitComplete, NextComplete, TypeCorrect, PTL DEF Spec

-----------------------------------------------------------------------------
(* Earned acknowledgements *)

\* What AcksAreEarned asks of a message.
LEMMA MessageFields ==
    ASSUME NEW m \in Messages PROVE m.version \in Versions /\ m.good \in BOOLEAN
BY DEF Messages

LEMMA InitEarned == Init => AcksAreEarned
BY DEF Init, AcksAreEarned, Nothing, Payload

\* An edit takes 'synced' back in the transaction that makes it untrue.
LEMMA EditEarned == TypeOK /\ AcksAreEarned /\ Edit => AcksAreEarned'
<1> SUFFICES ASSUME TypeOK, AcksAreEarned, Edit PROVE AcksAreEarned'
  OBVIOUS
<1>1. ver \in Nat /\ best \in Nat /\ ver' = ver + 1 /\ sync' = "pending"
  BY BoundsAssumption DEF TypeOK, Edit, Versions
<1>2. UNCHANGED <<ackVer, best, unit, up, handlers>>
  BY DEF Edit, path
<1> QED BY <1>1, <1>2 DEF AcksAreEarned

\* Pushes, their timer, the death of the server and its restart promise
\* nothing about the unit.
LEMMA QuietEarned ==
    TypeOK /\ AcksAreEarned /\ (PushStep \/ TimerStep \/ Crash \/ Restart) => AcksAreEarned'
<1> SUFFICES ASSUME TypeOK, AcksAreEarned, PushStep \/ TimerStep \/ Crash \/ Restart
             PROVE  AcksAreEarned'
  OBVIOUS
<1>1. UNCHANGED <<ver, ackVer, unit, best>> /\ handlers' \subseteq handlers
  BY DEF PushStep, PushReadVersion, PushReadRows, PushPublish, PushArm, PushFrame, TimerStep, TimerCheck,
         TimerFlag, Crash, Restart, device, path, calls
<1>2. sync' = "synced" => sync = "synced"
  BY DEF PushStep, PushReadVersion, PushReadRows, PushPublish, PushArm, PushFrame, TimerStep, TimerCheck,
         TimerFlag, Crash, Restart, device
<1>3. up' = up \/ up' = <<>> \/ up' = <<Presence>>
  BY DEF PushStep, PushReadVersion, PushReadRows, PushPublish, PushArm, PushFrame, TimerStep, TimerCheck,
         TimerFlag, Crash, Restart, path
<1>4. Presence.kind = "status"
  BY DEF Presence, Status
<1>5. \A i \in 1..Len(up') : up'[i].kind = "ack" /\ up'[i].good => up'[i].version <= best
  <2>1. CASE up' = up
    BY <2>1 DEF AcksAreEarned
  <2>2. CASE up' = <<>>
    BY <2>2
  <2>3. CASE up' = <<Presence>>
    BY <1>4, <2>3
  <2> QED BY <1>3, <2>1, <2>2, <2>3
<1> QED BY <1>1, <1>2, <1>5 DEF AcksAreEarned

\* The unit only acknowledges what it has stored, and what it stores holds
\* the edits of the version it acknowledges.
LEMMA UnitEarned ==
    TypeOK /\ VersionsAreComplete /\ AcksAreEarned /\ UnitStep => AcksAreEarned'
<1> SUFFICES ASSUME TypeOK, VersionsAreComplete, AcksAreEarned, UnitStep PROVE AcksAreEarned'
  OBVIOUS
<1>1. UNCHANGED <<ver, ackVer, sync, handlers>>
  BY DEF UnitStep, UnitReceives, UnitDiscards, Disconnect, Heartbeat, Connect, device, calls
<1>2. ver \in Nat /\ ackVer \in Nat /\ best \in Versions /\ best \in Nat
  BY BoundsAssumption DEF TypeOK, Versions
<1>3. \/ UNCHANGED <<unit, best>>
      \/ /\ down # <<>>
         /\ unit' = Head(down) /\ best' = Larger(best, Head(down).content)
  BY DEF UnitStep, UnitReceives, UnitDiscards, Disconnect, Heartbeat, Connect
<1>4. down # <<>> => /\ Head(down).version <= Head(down).content
                     /\ Head(down).content <= ver
                     /\ Head(down).version \in Nat /\ Head(down).content \in Versions
                     /\ Head(down).content \in Nat
  BY HeadTail, PayloadFields, BoundsAssumption DEF TypeOK, VersionsAreComplete, Complete, Versions
<1>5. best <= best' /\ best' <= ver /\ unit'.content <= best' /\ best' \in Nat
  BY <1>2, <1>3, <1>4 DEF Larger, AcksAreEarned
<1>6. \A i \in 1..Len(up') : up'[i].kind = "ack" /\ up'[i].good => up'[i].version <= best'
  <2>1. \A i \in 1..Len(up) : up[i].kind = "ack" /\ up[i].good => up[i].version <= best'
    <3>1. \A i \in 1..Len(up) : up[i].version \in Nat
      BY MessageFields, BoundsAssumption DEF TypeOK, Versions
    <3> QED BY <1>2, <1>5, <3>1 DEF AcksAreEarned
  <2>2. ASSUME NEW m \in Messages, m.kind # "ack", up' = up \/ up' = Append(up, m) \/ up' = <<m>>
        PROVE  \A i \in 1..Len(up') :
                  up'[i].kind = "ack" /\ up'[i].good => up'[i].version <= best'
    <3>1. CASE up' = Append(up, m)
      <4>1. \A i \in 1..Len(up') : up'[i] = m \/ (i \in 1..Len(up) /\ up'[i] = up[i])
        BY <3>1, AppendHolds DEF TypeOK
      <4> QED BY <2>1, <2>2, <4>1
    <3>2. CASE up' = <<m>>
      <4>1. \A i \in 1..Len(up') : up'[i] = m
        BY <3>2
      <4> QED BY <2>2, <4>1
    <3>3. CASE up' = up
      BY <2>1, <3>3
    <3> QED BY <2>2, <3>1, <3>2, <3>3
  <2>3. ASSUME NEW good \in BOOLEAN, UnitReceives(good)
        PROVE  \A i \in 1..Len(up') :
                  up'[i].kind = "ack" /\ up'[i].good => up'[i].version <= best'
    <3> DEFINE a == Ack(good, Head(down).version)
               s == Status(TRUE, unit'.version)
    <3>1. a \in Messages /\ s \in Messages /\ s.kind # "ack"
      <4>1. Head(down) \in Payloads /\ unit' \in Payloads
        BY <2>3, HeadTail DEF TypeOK, UnitReceives
      <4>2. s.kind # "ack"
        BY DEF Status
      <4> QED BY <4>1, <4>2, PayloadFields, MessageTypes
    <3>2. a.good => a.version <= best'
      <4>1. a.good = good /\ a.version = Head(down).version
        BY DEF Ack
      <4>2. good => best' = Larger(best, Head(down).content)
        BY <2>3 DEF UnitReceives
      <4> QED BY <1>2, <1>4, <2>3, <4>1, <4>2 DEF Larger, UnitReceives
    <3>3. up' = up \/ up' = up \o <<a, s>>
      BY <2>3 DEF UnitReceives
    <3> HIDE DEF a, s
    <3>4. CASE up' = up \o <<a, s>>
      <4>1. \A i \in 1..Len(up') :
               up'[i] = a \/ up'[i] = s \/ (i \in 1..Len(up) /\ up'[i] = up[i])
        BY <3>1, <3>4, ConcatHolds DEF TypeOK
      <4> QED BY <2>1, <3>1, <3>2, <4>1
    <3>5. CASE up' = up
      BY <2>1, <3>5
    <3> QED BY <3>3, <3>4, <3>5
  <2>4. CASE \E stored \in BOOLEAN : Disconnect(stored)
    <3>1. up' = up \/ up' = Append(up, Status(FALSE, 0))
      BY <2>4 DEF Disconnect
    <3>2. Status(FALSE, 0) \in Messages /\ Status(FALSE, 0).kind # "ack"
      BY MessageTypes, ZeroTypes DEF Status
    <3> QED BY <2>2, <3>1, <3>2
  <2>5. CASE Heartbeat \/ Connect
    <3>1. \/ up' = <<Status(TRUE, unit.version)>>
          \/ up' = up \/ up' = Append(up, Status(TRUE, unit.version))
      BY <2>5 DEF Heartbeat, Connect
    <3>2. Status(TRUE, unit.version) \in Messages
      BY PayloadFields, MessageTypes DEF TypeOK
    <3>3. Status(TRUE, unit.version).kind # "ack"
      BY DEF Status
    <3> QED BY <2>2, <3>1, <3>2, <3>3
  <2>6. CASE UnitDiscards
    BY <2>1, <2>6 DEF UnitDiscards
  <2> QED BY <2>3, <2>4, <2>5, <2>6 DEF UnitStep
<1>7. \A h \in handlers : h.msg.version \in Nat
  BY MessageFields, BoundsAssumption DEF TypeOK, Handlers, Versions
<1> QED BY <1>1, <1>2, <1>5, <1>6, <1>7 DEF AcksAreEarned

\* A handler takes over the message that was on its way.
LEMMA ReceiveEarned == TypeOK /\ AcksAreEarned /\ Receive => AcksAreEarned'
<1> SUFFICES ASSUME TypeOK, AcksAreEarned, Receive PROVE AcksAreEarned'
  OBVIOUS
<1>1. UNCHANGED <<ver, ackVer, sync, best, unit>> /\ up # <<>> /\ up' = Tail(up)
  BY DEF Receive, device
<1>2. \A i \in 1..Len(up') : up'[i].kind = "ack" /\ up'[i].good => up'[i].version <= best
  BY <1>1, HeadTail DEF TypeOK, AcksAreEarned
<1>3. Begin(Head(up)).msg = up[1] /\ 1 \in 1..Len(up)
  BY <1>1, HeadTail DEF TypeOK, Begin
<1>4. \A h \in handlers' : h.msg.kind = "ack" /\ h.msg.good => h.msg.version <= best
  BY <1>3 DEF Receive, AcksAreEarned
<1> QED BY <1>1, <1>2, <1>4 DEF AcksAreEarned

\* The database takes an ack for what it is: of version v, and for 'synced'
\* only when v is the version of that moment.
LEMMA HandlerEarned == TypeOK /\ AcksAreEarned /\ HandlerStep => AcksAreEarned'
<1> SUFFICES ASSUME TypeOK, AcksAreEarned, NEW h \in handlers,
                    StatusHandled(h) \/ AckHandled(h) \/ RejectHandled(h)
             PROVE  AcksAreEarned'
  BY DEF HandlerStep
<1>1. UNCHANGED <<ver, up, unit, best>> /\ handlers' \subseteq handlers
  BY DEF StatusHandled, AckHandled, RejectHandled, HandlerFrame, path
<1>2. h.msg.version \in Nat /\ ver \in Nat /\ best \in Nat /\ ackVer \in Nat
  BY MessageFields, BoundsAssumption DEF TypeOK, Handlers, Versions
<1>3. ackVer' <= best
  BY <1>2 DEF StatusHandled, AckHandled, RejectHandled, Larger, AcksAreEarned
<1>4. sync' = "synced" => ver <= best
  BY <1>2 DEF StatusHandled, AckHandled, RejectHandled, AcksAreEarned
<1> QED BY <1>1, <1>3, <1>4 DEF AcksAreEarned

LEMMA NextEarned ==
    TypeOK /\ VersionsAreComplete /\ AcksAreEarned /\ [Next]_vars => AcksAreEarned'
<1>1. AcksAreEarned /\ UNCHANGED vars => AcksAreEarned'
  BY DEF AcksAreEarned, vars, device, path, calls
<1> QED BY <1>1, EditEarned, QuietEarned, UnitEarned, ReceiveEarned, HandlerEarned DEF Next

\* An acknowledged version was installed, and 'synced' means that the newest
\* edit was, whatever order pushes, acknowledgements and edits come in.
THEOREM EarnedAcks == Spec => []AcksAreEarned
BY InitEarned, NextEarned, TypeCorrect, CompletePayloads, PTL DEF Spec

-----------------------------------------------------------------------------
(* The implementation of SyncLedger *)

LEMMA InitLedger == Init => Ledger!Init
BY DEF Init, Ledger!Init

\* The unit's steps install some edit there is, or nothing.
LEMMA UnitLedger ==
    TypeOK /\ VersionsAreComplete /\ AcksAreEarned /\ UnitStep => Ledger!Install
<1> SUFFICES ASSUME TypeOK, VersionsAreComplete, AcksAreEarned, UnitStep PROVE Ledger!Install
  OBVIOUS
<1>1. UNCHANGED <<ver, ackVer, sync>>
  BY DEF UnitStep, UnitReceives, UnitDiscards, Disconnect, Heartbeat, Connect, device
<1>2. \/ UNCHANGED best
      \/ down # <<>> /\ best' = Larger(best, Head(down).content)
  BY DEF UnitStep, UnitReceives, UnitDiscards, Disconnect, Heartbeat, Connect
<1>3. down # <<>> => Head(down).content <= ver /\ Head(down).content \in Nat
  BY HeadTail, PayloadFields, BoundsAssumption DEF TypeOK, VersionsAreComplete, Complete, Versions
<1>4. best \in Nat /\ ver \in Nat /\ best <= ver
  BY BoundsAssumption DEF TypeOK, AcksAreEarned, Versions
<1>5. best' \in best..ver
  BY <1>2, <1>3, <1>4 DEF Larger
<1> QED BY <1>1, <1>5 DEF Ledger!Install

\* A handler acknowledges a version that the unit held, flags, or leaves the
\* columns alone.
LEMMA HandlerLedger ==
    TypeOK /\ AcksAreEarned /\ HandlerStep => [Ledger!Next]_(Ledger!ledger)
<1> SUFFICES ASSUME TypeOK, AcksAreEarned, NEW h \in handlers,
                    StatusHandled(h) \/ AckHandled(h) \/ RejectHandled(h)
             PROVE  [Ledger!Next]_(Ledger!ledger)
  BY DEF HandlerStep
<1>1. UNCHANGED <<ver, best>>
  BY DEF StatusHandled, AckHandled, RejectHandled, HandlerFrame
<1>2. CASE StatusHandled(h)
  BY <1>1, <1>2 DEF StatusHandled, Ledger!ledger
<1>3. CASE AckHandled(h)
  <2>1. h.msg.version \in Nat /\ best \in Nat
    BY MessageFields, BoundsAssumption DEF TypeOK, Handlers, Versions
  <2>2. h.msg.version <= best
    BY <1>3 DEF AckHandled, AcksAreEarned
  <2>3. Ledger!Acknowledge(h.msg.version)
    BY <1>1, <1>3, <2>2 DEF AckHandled, Ledger!Acknowledge, Larger, Ledger!Larger
  <2> QED BY <2>1, <2>2, <2>3 DEF Ledger!Next
<1>4. CASE RejectHandled(h)
  BY <1>1, <1>4 DEF RejectHandled, Ledger!Next, Ledger!Flag
<1> QED BY <1>2, <1>3, <1>4

\* Every step of the channel is a step of the ledger or leaves it alone.
LEMMA NextLedger ==
    TypeOK /\ VersionsAreComplete /\ AcksAreEarned /\ [Next]_vars
        => [Ledger!Next]_(Ledger!ledger)
<1> SUFFICES ASSUME TypeOK, VersionsAreComplete, AcksAreEarned, [Next]_vars
             PROVE  [Ledger!Next]_(Ledger!ledger)
  OBVIOUS
<1>1. CASE Edit
  BY <1>1 DEF Edit, Ledger!Next, Ledger!Edit
<1>2. CASE PushStep \/ TimerCheck \/ Receive \/ Crash \/ Restart \/ UNCHANGED vars
  BY <1>2 DEF PushStep, PushReadVersion, PushReadRows, PushPublish, PushArm, PushFrame, TimerCheck,
              Receive, Crash, Restart, device, vars, Ledger!ledger
<1>3. CASE TimerFlag
  BY <1>3 DEF TimerFlag, Ledger!Next, Ledger!Flag
<1>4. CASE UnitStep
  BY <1>4, UnitLedger DEF Ledger!Next
<1>5. CASE HandlerStep
  BY <1>5, HandlerLedger
<1> QED BY <1>1, <1>2, <1>3, <1>4, <1>5 DEF Next, TimerStep

\* The sync columns keep the promise of SyncLedger, although every statement
\* of the pushes and handlers is a step of its own.
THEOREM LedgerImplemented == Spec => ImplementsLedger
<1>1. Spec => [](TypeOK /\ VersionsAreComplete /\ AcksAreEarned)
  BY TypeCorrect, CompletePayloads, EarnedAcks, PTL
<1> QED BY <1>1, InitLedger, NextLedger, PTL DEF Spec, ImplementsLedger, Ledger!Spec
=============================================================================
