------------------------ MODULE CommandChannel_proofs ------------------------
(***************************************************************************)
(* Proofs about CommandChannel, for any number of orders, occurrences,     *)
(* messages and faults.                                                    *)
(***************************************************************************)
EXTENDS CommandChannel, FiniteSetTheorems, SequenceTheorems, TLAPS

-----------------------------------------------------------------------------
(* Sequences and the sets of their elements *)

\* An empty queue, and queues of one and two messages.
LEMMA ShortQueue ==
    ASSUME NEW S
    PROVE  /\ <<>> \in Seq(S) /\ ToSet(<<>>) = {}
           /\ \A m \in S : <<m>> \in Seq(S) /\ ToSet(<<m>>) = {m}
           /\ \A m, n \in S : <<m, n>> \in Seq(S) /\ ToSet(<<m, n>>) = {m, n}
<1>1. <<>> \in Seq(S) /\ ToSet(<<>>) = {}
  BY DEF ToSet
<1>2. ASSUME NEW m \in S PROVE <<m>> \in Seq(S) /\ ToSet(<<m>>) = {m}
  <2>1. DOMAIN <<m>> = {1} /\ <<m>>[1] = m
    OBVIOUS
  <2> QED BY <2>1 DEF ToSet
<1>3. ASSUME NEW m \in S, NEW n \in S PROVE <<m, n>> \in Seq(S) /\ ToSet(<<m, n>>) = {m, n}
  <2>1. DOMAIN <<m, n>> = {1, 2} /\ <<m, n>>[1] = m /\ <<m, n>>[2] = n
    OBVIOUS
  <2> QED BY <2>1 DEF ToSet
<1> QED BY <1>1, <1>2, <1>3

\* What a queue holds is what stands at one of its places.
LEMMA Holds ==
    ASSUME NEW S, NEW q \in Seq(S)
    PROVE  /\ ToSet(q) \subseteq S
           /\ \A m : m \in ToSet(q) <=> \E i \in 1..Len(q) : q[i] = m
<1>1. DOMAIN q = 1..Len(q) /\ \A i \in 1..Len(q) : q[i] \in S
  OBVIOUS
<1> QED BY <1>1 DEF ToSet

\* A queue that is not empty holds its head and what its tail holds.
LEMMA HeadTail ==
    ASSUME NEW S, NEW q \in Seq(S), q # <<>>
    PROVE  /\ Head(q) \in S /\ Tail(q) \in Seq(S) /\ Len(Tail(q)) = Len(q) - 1
           /\ Len(q) \in Nat \ {0}
           /\ ToSet(q) = {Head(q)} \union ToSet(Tail(q))
<1>1. /\ Head(q) \in S /\ Tail(q) \in Seq(S) /\ Head(q) = q[1] /\ 1 \in 1..Len(q)
      /\ Len(Tail(q)) = Len(q) - 1 /\ Len(q) \in Nat \ {0}
  OBVIOUS
<1>2. /\ \A i \in 1..Len(Tail(q)) : i + 1 \in 1..Len(q) /\ Tail(q)[i] = q[i + 1]
      /\ \A i \in 1..Len(q) : i = 1 \/ (i - 1 \in 1..Len(Tail(q)) /\ Tail(q)[i - 1] = q[i])
  OBVIOUS
<1>3. ASSUME NEW m, m \in ToSet(q) PROVE m \in {Head(q)} \union ToSet(Tail(q))
  <2>1. PICK i \in 1..Len(q) : q[i] = m
    BY <1>3, Holds
  <2> QED BY <1>1, <1>2, <2>1, Holds
<1>4. ASSUME NEW m, m \in {Head(q)} \union ToSet(Tail(q)) PROVE m \in ToSet(q)
  <2>1. CASE m = Head(q)
    BY <1>1, <2>1, Holds
  <2>2. CASE m \in ToSet(Tail(q))
    <3>1. \E i \in 1..Len(Tail(q)) : Tail(q)[i] = m
      <4> DEFINE t == Tail(q)
      <4>1. t \in Seq(S) /\ m \in ToSet(t)
        BY <1>1, <2>2
      <4> HIDE DEF t
      <4>2. \E i \in 1..Len(t) : t[i] = m
        BY <4>1, Holds
      <4> QED BY <4>2 DEF t
    <3> QED BY <1>2, <3>1, Holds
  <2> QED BY <1>4, <2>1, <2>2
<1> QED BY <1>1, <1>3, <1>4

\* A concatenation holds what its parts hold.
LEMMA Concat ==
    ASSUME NEW S, NEW q \in Seq(S), NEW r \in Seq(S)
    PROVE  /\ q \o r \in Seq(S) /\ Len(q \o r) = Len(q) + Len(r)
           /\ ToSet(q \o r) = ToSet(q) \union ToSet(r)
<1>1. /\ q \o r \in Seq(S) /\ Len(q \o r) = Len(q) + Len(r)
      /\ Len(q) \in Nat /\ Len(r) \in Nat
  OBVIOUS
<1>2. /\ \A i \in 1..Len(q) : i \in 1..Len(q \o r) /\ (q \o r)[i] = q[i]
      /\ \A i \in 1..Len(r) : i + Len(q) \in 1..Len(q \o r) /\ (q \o r)[i + Len(q)] = r[i]
      /\ \A i \in 1..Len(q \o r) :
            i \in 1..Len(q) \/ (i - Len(q) \in 1..Len(r) /\ r[i - Len(q)] = (q \o r)[i])
  OBVIOUS
<1>3. ASSUME NEW m, m \in ToSet(q \o r) PROVE m \in ToSet(q) \union ToSet(r)
  <2>1. PICK i \in 1..Len(q \o r) : (q \o r)[i] = m
    BY <1>1, <1>3, Holds
  <2>2. CASE i \in 1..Len(q)
    BY <1>2, <2>1, <2>2, Holds
  <2>3. CASE i - Len(q) \in 1..Len(r) /\ r[i - Len(q)] = m
    BY <2>3, Holds
  <2> QED BY <1>2, <2>1, <2>2, <2>3
<1>4. ASSUME NEW m, m \in ToSet(q) \union ToSet(r) PROVE m \in ToSet(q \o r)
  <2>1. CASE m \in ToSet(q)
    <3>1. PICK i \in 1..Len(q) : q[i] = m
      BY <2>1, Holds
    <3> QED BY <1>1, <1>2, <3>1, Holds
  <2>2. CASE m \in ToSet(r)
    <3>1. PICK i \in 1..Len(r) : r[i] = m
      BY <2>2, Holds
    <3> QED BY <1>1, <1>2, <3>1, Holds
  <2> QED BY <1>4, <2>1, <2>2
<1> QED BY <1>1, <1>3, <1>4

\* An appended message is held too.
LEMMA Appended ==
    ASSUME NEW S, NEW q \in Seq(S), NEW m \in S
    PROVE  /\ Append(q, m) \in Seq(S) /\ Len(Append(q, m)) = Len(q) + 1
           /\ ToSet(Append(q, m)) = ToSet(q) \union {m}
<1>1. Append(q, m) = q \o <<m>> /\ <<m>> \in Seq(S) /\ Len(<<m>>) = 1
  OBVIOUS
<1>2. ToSet(<<m>>) = {m}
  BY ShortQueue
<1> DEFINE r == <<m>>
<1>3. r \in Seq(S) /\ Len(r) = 1 /\ ToSet(r) = {m}
  BY <1>1, <1>2
<1> HIDE DEF r
<1>4. /\ q \o r \in Seq(S) /\ Len(q \o r) = Len(q) + Len(r)
      /\ ToSet(q \o r) = ToSet(q) \union ToSet(r)
  BY <1>3, Concat
<1> QED BY <1>1, <1>3, <1>4 DEF r

\* A queue is its first n entries, then the rest.
LEMMA Split ==
    ASSUME NEW S, NEW q \in Seq(S), NEW n \in 1..Len(q)
    PROVE  /\ SubSeq(q, 1, n) \in Seq(S) /\ SubSeq(q, n + 1, Len(q)) \in Seq(S)
           /\ Len(SubSeq(q, n + 1, Len(q))) <= Len(q)
           /\ ToSet(q) = ToSet(SubSeq(q, 1, n)) \union ToSet(SubSeq(q, n + 1, Len(q)))
<1>1. Len(q) \in Nat /\ n \in Nat /\ n <= Len(q)
  OBVIOUS
<1>2. /\ SubSeq(q, 1, n) \in Seq(S) /\ SubSeq(q, n + 1, Len(q)) \in Seq(S)
      /\ Len(SubSeq(q, 1, n)) = n /\ Len(SubSeq(q, n + 1, Len(q))) = Len(q) - n
  BY <1>1
<1>3. q = SubSeq(q, 1, n) \o SubSeq(q, n + 1, Len(q))
  BY <1>1, ConcatAdjacentSubSeq, SubSeqFull
<1>4. ASSUME NEW r \in Seq(S), NEW t \in Seq(S), q = r \o t
      PROVE  ToSet(q) = ToSet(r) \union ToSet(t)
  BY <1>4, Concat
<1>5. ToSet(q) = ToSet(SubSeq(q, 1, n)) \union ToSet(SubSeq(q, n + 1, Len(q)))
  BY <1>2, <1>3, <1>4
<1>6. Len(SubSeq(q, n + 1, Len(q))) <= Len(q)
  BY <1>1, <1>2
<1> QED BY <1>2, <1>5, <1>6

-----------------------------------------------------------------------------
(* Types *)

\* The messages that the code builds are messages.
LEMMA MessageTypes ==
    /\ \A o \in Orders, ok \in BOOLEAN, t \in OnOff : AckOf(o, ok, t) \in Messages
    /\ \A t \in OnOff, n \in Nat : Status(t, n) \in Messages
    /\ \A k \in Occ : Report(k) \in Messages
    /\ Will \in Messages
    /\ \A o \in Orders : Order(o) \in Downs
    /\ Schedule \in Downs
<1>1. \A o \in Orders, ok \in BOOLEAN, t \in OnOff : AckOf(o, ok, t) \in Acks
  BY DEF AckOf, Acks
<1>2. \A t \in OnOff, n \in Nat : Status(t, n) \in Statuses
  BY DEF Status, Statuses
<1>3. \A k \in Occ : Report(k) \in Execs
  BY DEF Report, Execs
<1>4. Will \in Statuses
  BY DEF Will, Statuses, OnOff
<1>5. (\A o \in Orders : Order(o) \in Downs) /\ Schedule \in Downs
  BY DEF Order, Schedule, Downs
<1> QED BY <1>1, <1>2, <1>3, <1>4, <1>5 DEF Messages

\* A message has the fields of its kind, and of no other.
LEMMA MessageFields ==
    ASSUME NEW m \in Messages
    PROVE  /\ m.kind = "ack" => m \in Acks /\ m.id \in Orders /\ m.ok \in BOOLEAN /\ m.state \in OnOff
           /\ m.kind = "status" => m.alive \in BOOLEAN /\ m.state \in OnOff /\ m.dropped \in Nat
           /\ m.kind = "exec" => m.occ \in Occ /\ m = Report(m.occ)
<1>1. CASE m \in Acks
  BY <1>1 DEF Acks
<1>2. CASE m \in Statuses
  BY <1>2 DEF Statuses
<1>3. CASE m \in Execs
  BY <1>3 DEF Execs, Report
<1> QED BY <1>1, <1>2, <1>3 DEF Messages

\* A message to the unit is an order, or the schedule.
LEMMA DownFields ==
    ASSUME NEW m \in Downs
    PROVE  m.kind = "order" => m.id \in Orders /\ m = Order(m.id)
BY DEF Downs, Schedule, Order

\* What the broker delivers again, in whatever order.
LEMMA Redelivered ==
    ASSUME NEW t \in SetToSeqs(Unconfirmed)
    PROVE  /\ [i \in 1..Len(t) |-> Order(t[i])] \in Seq(Downs)
           /\ \A m \in ToSet([i \in 1..Len(t) |-> Order(t[i])]) :
                 m.kind = "order" /\ m.id \in Unconfirmed
<1> DEFINE n == Cardinality(Unconfirmed)
           r == [i \in 1..Len(t) |-> Order(t[i])]
<1>1. Unconfirmed \subseteq Orders /\ n \in Nat
  BY FS_Subset, FS_CardinalityType, ChannelAssumption DEF Unconfirmed
<1>2. t \in [1..n -> Unconfirmed]
  BY DEF SetToSeqs
<1>3. t \in Seq(Unconfirmed) /\ Len(t) = n
  BY <1>1, <1>2
<1>4. \A i \in 1..n : r[i] = Order(t[i]) /\ t[i] \in Unconfirmed /\ Order(t[i]) \in Downs
  BY <1>1, <1>2, <1>3, MessageTypes
<1>5. r \in [1..n -> Downs]
  BY <1>3, <1>4
<1>6. r \in Seq(Downs)
  BY <1>1, <1>5
<1>7. DOMAIN r = 1..n
  BY <1>5
<1>8. \A m \in ToSet(r) : \E i \in 1..n : m = Order(t[i]) /\ t[i] \in Unconfirmed
  BY <1>4, <1>7 DEF ToSet
<1>9. \A m \in ToSet(r) : m.kind = "order" /\ m.id \in Unconfirmed
  BY <1>8 DEF Order
<1> QED BY <1>6, <1>9

\* The reports of the occurrences in a queue.
LEMMA ReportsOf ==
    ASSUME NEW q \in Seq(Occ)
    PROVE  /\ Reports(q) \in Seq(Messages) /\ Len(Reports(q)) = Len(q)
           /\ \A m : m \in ToSet(Reports(q)) <=> \E k \in ToSet(q) : m = Report(k)
           /\ \A m \in ToSet(Reports(q)) : m.kind = "exec"
<1> DEFINE n == Len(q)
           r == Reports(q)
<1>1. n \in Nat /\ DOMAIN q = 1..n /\ \A i \in 1..n : q[i] \in Occ
  OBVIOUS
<1>2. \A i \in 1..n : r[i] = Report(q[i]) /\ Report(q[i]) \in Messages
  BY <1>1, MessageTypes DEF Reports
<1>3. r \in [1..n -> Messages]
  BY <1>1, <1>2 DEF Reports
<1>4. r \in Seq(Messages) /\ Len(r) = n /\ DOMAIN r = 1..n
  <2>1. ASSUME NEW S, NEW f \in [1..n -> S] PROVE f \in Seq(S) /\ Len(f) = n /\ DOMAIN f = 1..n
    BY <1>1
  <2> HIDE DEF r, n
  <2> QED BY <1>3, <2>1
<1>5. \A m : m \in ToSet(r) <=> \E k \in ToSet(q) : m = Report(k)
  BY <1>1, <1>2, <1>4 DEF ToSet
<1>6. \A m \in ToSet(r) : m.kind = "exec"
  <2>1. \A k : Report(k).kind = "exec"
    BY DEF Report
  <2> QED BY <1>5, <2>1
<1> QED BY <1>4, <1>5, <1>6

\* A bounded fault keeps the counter in its range.
LEMMA FaultType ==
    ASSUME TypeOK, Fault PROVE faults' \in 0..MaxFaults
BY ChannelAssumption DEF TypeOK, Fault

\* The schedule and the boot behaviour ask for a state of the relay.
LEMMA WantedType ==
    ASSUME TypeOK, NEW t \in OnOff, NEW timed \in BOOLEAN
    PROVE  Act[now] \in OnOff /\ Wanted(t, timed) \in OnOff
BY ChannelAssumption DEF TypeOK, Wanted, OnOff

\* The next occurrence is one.
LEMMA NextOccurrence ==
    ASSUME TypeOK, now < MaxNow
    PROVE  /\ now + 1 \in Occ /\ now + 1 \in 0..MaxNow /\ Act[now + 1] \in OnOff
           /\ now \in Nat
BY ChannelAssumption DEF TypeOK, Occ

\* What is published arrives whole or not at all.
LEMMA EmitType ==
    ASSUME TypeOK, NEW m \in Seq(Messages), Emit(m)
    PROVE  /\ up' \in Seq(Messages)
           /\ ToSet(up') = IF Heard THEN ToSet(up) \union ToSet(m) ELSE ToSet(up)
BY Concat DEF TypeOK, Emit

\* So does the will, when the unit is lost.
LEMMA DyingType == Dying \in Seq(Messages) /\ ToSet(Dying) \subseteq {Will}
BY ShortQueue, MessageTypes DEF Dying

LEMMA RetainedType == TypeOK => Retained \in Messages
BY MessageTypes DEF TypeOK, Retained

LEMMA InitType == Init => TypeOK
<1> SUFFICES ASSUME Init PROVE TypeOK
  OBVIOUS
<1>1. 0 \in 0..MaxNow /\ 0 \in 0..MaxFaults /\ Act[0] \in OnOff
  BY ChannelAssumption
<1>2. down \in Seq(Downs) /\ up \in Seq(Messages) /\ ids \in Seq(Orders) /\ queue \in Seq(Occ)
  BY ShortQueue DEF Init
<1>3. Len(queue) <= MaxQueue
  BY ChannelAssumption DEF Init
<1> QED BY <1>1, <1>2, <1>3 DEF Init, TypeOK, Stages

LEMMA CallType ==
    ASSUME TypeOK, NEW o \in Orders, Ask(o) \/ CallStep(o) \/ PublishFails(o) PROVE TypeOK'
<1>1. rows' \in [Orders -> {"none", "pending", "sent", "acked", "failed"}]
  BY DEF TypeOK, Ask, CallStep, Offline, Publish, PublishFails, Mark, Timeout
<1>2. calls' \in [Orders -> Stages]
  BY DEF TypeOK, Ask, CallStep, Offline, Publish, PublishFails, Mark, Timeout, CallFrame, Stages
<1>3. down' \in Seq(Downs)
  <2>1. <<Order(o)>> \in Seq(Downs)
    BY ShortQueue, MessageTypes
  <2>2. down \o <<Order(o)>> \in Seq(Downs)
    BY <2>1, Concat DEF TypeOK
  <2> QED BY <2>2 DEF TypeOK, Ask, CallStep, Offline, Publish, PublishFails, Mark, Timeout, Deliver
<1>4. faults' \in 0..MaxFaults
  BY FaultType DEF TypeOK, Ask, CallStep, Offline, Publish, PublishFails, Mark, Timeout
<1>5. UNCHANGED <<handlers, srv, online, current, lastDropped, told, log, refused,
                  up, conn, power, boot, ram, flash, now, history>>
  BY DEF Ask, CallStep, Offline, Publish, PublishFails, Mark, Timeout, CallFrame
<1> QED BY <1>1, <1>2, <1>3, <1>4, <1>5 DEF TypeOK, ram, flash, history

LEMMA ReceiveType == TypeOK /\ Receive => TypeOK'
<1> SUFFICES ASSUME TypeOK, Receive PROVE TypeOK'
  OBVIOUS
<1>1. Head(up) \in Messages /\ up' \in Seq(Messages)
  BY HeadTail DEF TypeOK, Receive
<1>2. \A n \in 1..MaxHandlers :
         Received(Head(up), n) \in [msg : Messages, at : Statements, slot : Nat]
  BY <1>1, ChannelAssumption DEF Received, Statements
<1>3. PICK n \in 1..MaxHandlers : handlers' = handlers \union {Received(Head(up), n)}
  BY DEF Receive
<1>4. handlers' \in SUBSET [msg : Messages, at : Statements, slot : Nat]
  BY <1>2, <1>3 DEF TypeOK
<1> QED BY <1>1, <1>4 DEF TypeOK, Receive, HandlerFrame, ram, flash, history

\* A handler that takes a step stays with its message, or is through.
LEMMA HandlerMoves ==
    ASSUME TypeOK, NEW h \in handlers,
           AckStored(h) \/ AckAnswered(h) \/ StatusStep(h) \/ ReportHandled(h)
    PROVE  /\ handlers \ {h} \subseteq handlers'
           /\ \/ handlers' \subseteq handlers
              \/ \E s \in Statements : handlers' \subseteq handlers \union {[h EXCEPT !.at = s]}
<1>1. CASE AckStored(h)
  BY <1>1 DEF AckStored, Advanced, Statements
<1>2. CASE StatusStep(h)
  BY <1>2 DEF StatusStep, StatusPresent, StatusState, StatusTold, StatusRemembered, Advanced, Statements
<1>3. CASE AckAnswered(h) \/ ReportHandled(h)
  BY <1>3 DEF AckAnswered, ReportHandled
<1> QED BY <1>1, <1>2, <1>3

\* A step of a handler is one of a message that was received.
LEMMA HandlerType == TypeOK /\ HandlerStep => TypeOK'
<1> SUFFICES ASSUME TypeOK, NEW h \in handlers,
                    AckStored(h) \/ AckAnswered(h) \/ StatusStep(h) \/ ReportHandled(h)
             PROVE  TypeOK'
  BY DEF HandlerStep
<1>1. h.msg \in Messages /\ h \in [msg : Messages, at : Statements, slot : Nat]
  BY DEF TypeOK
<1>2. handlers' \in SUBSET [msg : Messages, at : Statements, slot : Nat]
  <2>1. \A s \in Statements : [h EXCEPT !.at = s] \in [msg : Messages, at : Statements, slot : Nat]
    BY <1>1
  <2>2. \/ handlers' \subseteq handlers
        \/ \E s \in Statements : handlers' \subseteq handlers \union {[h EXCEPT !.at = s]}
    BY HandlerMoves
  <2>3. handlers \subseteq [msg : Messages, at : Statements, slot : Nat]
    BY DEF TypeOK
  <2> QED BY <2>1, <2>2, <2>3
<1>3. rows' \in [Orders -> {"none", "pending", "sent", "acked", "failed"}]
  BY <1>1, MessageFields DEF TypeOK, AckStored, AckAnswered, StatusStep, StatusPresent, StatusState, StatusTold,
                             StatusRemembered, ReportHandled
<1>4. calls' \in [Orders -> Stages]
  <2>1. "done" \in Stages /\ calls \in [Orders -> Stages]
    BY DEF TypeOK, Stages
  <2> QED BY <2>1 DEF AckStored, AckAnswered, StatusStep, StatusPresent, StatusState, StatusTold,
                      StatusRemembered, ReportHandled
<1>5. online' \in BOOLEAN /\ current' \in OnOff
  BY <1>1, MessageFields DEF TypeOK, AckStored, AckAnswered, StatusStep, StatusPresent, StatusState, StatusTold,
                             StatusRemembered, ReportHandled
<1>6. lastDropped' \in Nat /\ told' \in Nat
  BY <1>1, MessageFields DEF TypeOK, AckStored, AckAnswered, StatusStep, StatusPresent, StatusState, StatusTold,
                             StatusRemembered, ReportHandled
<1>7. log' \in SUBSET Occ /\ refused' \in SUBSET Occ
  BY <1>1, MessageFields DEF TypeOK, AckStored, AckAnswered, StatusStep, StatusPresent, StatusState, StatusTold,
                             StatusRemembered, ReportHandled
<1>8. UNCHANGED <<srv, up, down, conn, power, boot, ram, flash, now, faults, history>>
  BY DEF AckStored, AckAnswered, StatusStep, StatusPresent, StatusState, StatusTold,
         StatusRemembered, ReportHandled, HandlerFrame
<1> QED BY <1>2, <1>3, <1>4, <1>5, <1>6, <1>7, <1>8 DEF TypeOK, ram, flash, history

LEMMA HandleCmdType == TypeOK /\ HandleCmd => TypeOK'
<1> SUFFICES ASSUME TypeOK, HandleCmd PROVE TypeOK'
  OBVIOUS
<1> DEFINE o == Head(down).id
           dup == o \in ToSet(ids)
           fits == o \notin Misfits
           said == <<AckOf(o, fits, out')>> \o (IF dup THEN <<>> ELSE <<StatusNow>>)
<1>1. Head(down) \in Downs /\ down' \in Seq(Downs) /\ o \in Orders
  BY HeadTail, DownFields DEF TypeOK, HandleCmd
<1>2. ids' \in Seq(Orders)
  <2>1. Append(ids, o) \in Seq(Orders)
    BY <1>1, Appended DEF TypeOK
  <2>2. Len(ids) >= Ring => Append(Tail(ids), o) \in Seq(Orders)
    <3>1. ASSUME Len(ids) >= Ring PROVE ids # <<>>
      BY <3>1, ChannelAssumption DEF TypeOK
    <3>2. ids # <<>> => Tail(ids) \in Seq(Orders)
      BY HeadTail DEF TypeOK
    <3> QED BY <1>1, <3>1, <3>2, Appended
  <2>3. Len(ids) \in Nat /\ Ring \in Nat
    BY ChannelAssumption DEF TypeOK
  <2>4. ids' = ids \/ ids' = Append(ids, o) \/ (~(Len(ids) < Ring) /\ ids' = Append(Tail(ids), o))
    BY DEF HandleCmd
  <2>5. ids \in Seq(Orders) /\ (~(Len(ids) < Ring) => Len(ids) >= Ring)
    BY <2>3 DEF TypeOK
  <2> QED BY <2>1, <2>2, <2>4, <2>5
<1>3. out' \in OnOff /\ saved' \in OnOff /\ kept' \in OnOff /\ hand' \in BOOLEAN
  <2>1. Action[o] \in OnOff
    BY <1>1, ChannelAssumption
  <2>2. \/ out' = Action[o] /\ saved' = Action[o] /\ kept' = Action[o] /\ hand' = TRUE
        \/ UNCHANGED <<out, saved, kept, hand>>
    BY DEF HandleCmd, Drive
  <2> QED BY <2>1, <2>2 DEF TypeOK
<1>4. done' \in [Orders -> Nat]
  BY <1>1 DEF TypeOK, HandleCmd
<1>5. said \in Seq(Messages)
  <2>1. AckOf(o, fits, out') \in Messages /\ StatusNow \in Messages
    BY <1>1, <1>3, MessageTypes DEF TypeOK, StatusNow
  <2> HIDE DEF fits, dup
  <2>2. <<AckOf(o, fits, out')>> \in Seq(Messages) /\ (IF dup THEN <<>> ELSE <<StatusNow>>) \in Seq(Messages)
    BY <2>1, ShortQueue
  <2> QED BY <2>2, Concat
<1>6. up' \in Seq(Messages)
  <2>1. Emit(said)
    BY DEF HandleCmd
  <2> HIDE DEF said
  <2> QED BY <1>5, <2>1, EmitType
<1>7. UNCHANGED <<queue, dropped, fired, discarded, lost, server, conn, power, boot, clock, primed,
                  now, faults, cuts, skipped>>
  BY DEF HandleCmd, UnitFrame
<1> QED BY <1>1, <1>2, <1>3, <1>4, <1>6, <1>7 DEF TypeOK, server

LEMMA HandleScheduleType == TypeOK /\ HandleSchedule => TypeOK'
<1> SUFFICES ASSUME TypeOK, HandleSchedule PROVE TypeOK'
  OBVIOUS
<1>1. down' \in Seq(Downs)
  BY HeadTail DEF TypeOK, HandleSchedule
<1>2. out' \in OnOff /\ saved' \in OnOff /\ kept' \in OnOff /\ hand' \in BOOLEAN
  BY WantedType DEF TypeOK, HandleSchedule, Drive
<1>3. up' \in Seq(Messages)
  <2>1. <<StatusNow>> \in Seq(Messages)
    BY <1>2, MessageTypes, ShortQueue DEF TypeOK, StatusNow
  <2> QED BY <2>1, EmitType DEF HandleSchedule
<1> QED BY <1>1, <1>2, <1>3 DEF TypeOK, HandleSchedule, UnitFrame, server

\* The queue never grows over its bound: the oldest report makes room.
LEMMA EnqueuedType ==
    ASSUME TypeOK, NEW k \in Occ, Enqueued(k)
    PROVE  /\ queue' \in Seq(Occ) /\ Len(queue') <= MaxQueue
           /\ dropped' \in Nat /\ discarded' \in SUBSET Occ
<1>1. queue \in Seq(Occ) /\ Len(queue) <= MaxQueue /\ Len(queue) \in Nat /\ MaxQueue \in Nat \ {0}
  BY ChannelAssumption DEF TypeOK
<1>2. CASE Len(queue) >= MaxQueue
  <2>1. queue # <<>>
    BY <1>1, <1>2
  <2>2. Head(queue) \in Occ /\ Tail(queue) \in Seq(Occ) /\ Len(Tail(queue)) = Len(queue) - 1
    BY <1>1, <2>1, HeadTail
  <2>3. Append(Tail(queue), k) \in Seq(Occ) /\ Len(Append(Tail(queue), k)) = Len(queue)
    BY <1>1, <2>2, Appended
  <2> QED BY <1>1, <1>2, <2>2, <2>3 DEF TypeOK, Enqueued
<1>3. CASE ~(Len(queue) >= MaxQueue)
  <2>1. Append(queue, k) \in Seq(Occ) /\ Len(Append(queue, k)) = Len(queue) + 1
    BY <1>1, Appended
  <2> QED BY <1>1, <1>3, <2>1 DEF TypeOK, Enqueued
<1> QED BY <1>2, <1>3

LEMMA ReportExecType ==
    ASSUME TypeOK, NEW k \in Occ, ReportExec(k)
    PROVE  /\ queue' \in Seq(Occ) /\ Len(queue') <= MaxQueue
           /\ dropped' \in Nat /\ discarded' \in SUBSET Occ /\ lost' \in SUBSET Occ
<1>1. Swallowed(<<Report(k)>>) \in SUBSET Occ
  BY DEF Swallowed, Reported
<1> QED BY <1>1, EnqueuedType DEF TypeOK, ReportExec

LEMMA FireType == TypeOK /\ Fire => TypeOK'
<1> SUFFICES ASSUME TypeOK, Fire PROVE TypeOK'
  OBVIOUS
<1>1. now' \in Occ /\ now' \in 0..MaxNow /\ Act[now'] \in OnOff
  BY NextOccurrence DEF Fire, NextDue
<1>2. out' \in OnOff /\ saved' \in OnOff /\ kept' \in OnOff /\ fired' \in SUBSET Occ /\ hand' \in BOOLEAN
  BY <1>1 DEF TypeOK, Fire, Drive
<1>3. /\ queue' \in Seq(Occ) /\ Len(queue') <= MaxQueue
      /\ dropped' \in Nat /\ discarded' \in SUBSET Occ /\ lost' \in SUBSET Occ
  BY <1>1, ReportExecType DEF Fire
<1>4. up' \in Seq(Messages)
  <2>1. <<Report(now'), Status(out', dropped')>> \in Seq(Messages)
    BY <1>1, <1>2, <1>3, MessageTypes, ShortQueue
  <2> QED BY <2>1, EmitType DEF Fire
<1> QED BY <1>1, <1>2, <1>3, <1>4 DEF TypeOK, Fire, TimeFrame, server

LEMMA MissType == TypeOK /\ Miss => TypeOK'
<1> SUFFICES ASSUME TypeOK, Miss PROVE TypeOK'
  OBVIOUS
<1>1. now' \in 0..MaxNow
  BY NextOccurrence DEF Miss, NextDue
<1> QED BY <1>1 DEF TypeOK, Miss, TimeFrame, server, flash

LEMMA FlushType ==
    ASSUME TypeOK, NEW n \in 1..MaxQueue, Flush(n) PROVE TypeOK'
<1>1. queue \in Seq(Occ) /\ n \in 1..Len(queue) /\ Len(queue) \in Nat /\ MaxQueue \in Nat
  BY ChannelAssumption DEF TypeOK, Flush
<1> DEFINE sent == Reports(SubSeq(queue, 1, n))
<1>2. queue' \in Seq(Occ) /\ Len(queue') <= MaxQueue
  <2>1. /\ SubSeq(queue, n + 1, Len(queue)) \in Seq(Occ)
        /\ Len(SubSeq(queue, n + 1, Len(queue))) <= Len(queue)
    BY <1>1, Split
  <2> QED BY <1>1, <2>1 DEF TypeOK, Flush
<1>3. sent \in Seq(Messages)
  <2>1. SubSeq(queue, 1, n) \in Seq(Occ)
    BY <1>1, Split
  <2> QED BY <2>1, ReportsOf
<1>4. up' \in Seq(Messages) /\ lost' \in SUBSET Occ
  <2>1. Emit(sent) /\ lost' = lost \union Swallowed(sent)
    BY DEF Flush
  <2> HIDE DEF sent
  <2>2. up' \in Seq(Messages)
    BY <1>3, <2>1, EmitType
  <2> QED BY <2>1, <2>2 DEF TypeOK, Swallowed, Reported
<1> QED BY <1>2, <1>4 DEF TypeOK, Flush, UnitFrame, server

\* Heartbeats, connections and the unit's way back to its clock.
LEMMA WakeType ==
    TypeOK /\ (Heartbeat \/ Connect \/ Boot \/ ClockSync \/ Prime) => TypeOK'
<1> SUFFICES ASSUME TypeOK, Heartbeat \/ Connect \/ Boot \/ ClockSync \/ Prime PROVE TypeOK'
  OBVIOUS
<1>1. <<Status(out, dropped)>> \in Seq(Messages) /\ Status(out, dropped) \in Messages
  BY MessageTypes, ShortQueue DEF TypeOK
<1>2. CASE Heartbeat
  BY <1>1, <1>2 DEF TypeOK, Heartbeat, UnitFrame, server, ram, flash, history
<1>3. CASE Connect
  <2>1. up' \in Seq(Messages)
    BY <1>1, <1>3, Appended DEF TypeOK, Connect
  <2>2. down' \in Seq(Downs)
    BY <1>3, MessageTypes, ShortQueue DEF Connect
  <2> QED BY <1>3, <2>1, <2>2 DEF TypeOK, Connect, server, ram, flash, history
<1>4. CASE Boot
  BY <1>4 DEF TypeOK, Boot, Drive, OnOff, server, history
<1>5. CASE ClockSync
  <2>1. out' \in OnOff /\ saved' \in OnOff
    BY <1>5, WantedType DEF TypeOK, ClockSync, Drive
  <2>2. up' \in Seq(Messages)
    <3>1. <<StatusNow>> \in Seq(Messages)
      BY <2>1, MessageTypes, ShortQueue DEF TypeOK, StatusNow
    <3> QED BY <1>5, <3>1, EmitType DEF ClockSync
  <2> QED BY <1>5, <2>1, <2>2 DEF TypeOK, ClockSync, server
<1>6. CASE Prime
  BY <1>6 DEF TypeOK, Prime, server, flash, history
<1> QED BY <1>2, <1>3, <1>4, <1>5, <1>6

\* The loss of power, wherever it strikes.
LEMMA PowerType ==
    TypeOK /\ (PowerCut \/ CutWhileFiring \/ CutWhileQueueing \/ CutWhileFlushing) => TypeOK'
<1> SUFFICES ASSUME TypeOK, PowerCut \/ CutWhileFiring \/ CutWhileQueueing \/ CutWhileFlushing
             PROVE  TypeOK'
  OBVIOUS
<1>6. DarkFrame
  BY DEF PowerCut, CutWhileFiring, CutWhileQueueing, CutWhileFlushing
<1>1. /\ power' \in BOOLEAN /\ out' \in OnOff /\ ids' \in Seq(Orders) /\ clock' \in BOOLEAN
      /\ primed' \in BOOLEAN /\ conn' \in {"up", "dead", "down"} /\ down' \in Seq(Downs)
      /\ cuts' \in Nat /\ hand' \in BOOLEAN /\ skipped' \in BOOLEAN
  <2>1. <<>> \in Seq(Orders) /\ <<>> \in Seq(Downs) /\ cuts + 1 \in Nat
    BY DEF TypeOK
  <2> QED BY <1>6, <2>1 DEF DarkFrame, OnOff
<1>2. UNCHANGED <<server, boot, done, queue, discarded>>
  BY DEF PowerCut, CutWhileFiring, CutWhileQueueing, CutWhileFlushing, DarkFrame, flash
<1>3. faults' \in 0..MaxFaults
  BY FaultType DEF PowerCut, CutWhileFiring, CutWhileQueueing, CutWhileFlushing
<1>4. /\ now' \in 0..MaxNow /\ saved' \in OnOff /\ kept' \in OnOff /\ dropped' \in Nat
      /\ fired' \in SUBSET Occ /\ lost' \in SUBSET Occ
  <2>1. CASE PowerCut \/ CutWhileFlushing
    BY <2>1 DEF TypeOK, PowerCut, CutWhileFlushing, flash
  <2>2. CASE CutWhileFiring \/ CutWhileQueueing
    <3>1. now < MaxNow
      BY <2>2 DEF NextDue, CutWhileFiring, CutWhileQueueing
    <3> QED BY <2>2, <3>1, NextOccurrence DEF TypeOK, CutWhileFiring, CutWhileQueueing
  <2> QED BY <2>1, <2>2
<1>5. up' \in Seq(Messages)
  <2>1. up \in Seq(Messages) /\ up \o Dying \in Seq(Messages)
    BY DyingType, Concat DEF TypeOK
  <2>2. up \o Reports(queue) \o Dying \in Seq(Messages)
    <3>1. Reports(queue) \in Seq(Messages)
      BY ReportsOf DEF TypeOK
    <3>2. up \o Reports(queue) \in Seq(Messages)
      BY <3>1, Concat DEF TypeOK
    <3> QED BY <3>2, DyingType, Concat
  <2> QED BY <2>1, <2>2 DEF PowerCut, CutWhileFiring, CutWhileQueueing, CutWhileFlushing
<1> QED BY <1>1, <1>2, <1>3, <1>4, <1>5 DEF TypeOK, server

\* The lines, the link and the process.
LEMMA NetType ==
    TypeOK /\ (LineDies \/ NoticeDead \/ LinkBreaks \/ Crash \/ Restart) => TypeOK'
<1> SUFFICES ASSUME TypeOK, LineDies \/ NoticeDead \/ LinkBreaks \/ Crash \/ Restart PROVE TypeOK'
  OBVIOUS
<1>1. UNCHANGED <<power, boot, ram, flash, now, done, cuts, kept, fired, discarded, hand, skipped>>
  BY DEF LineDies, NoticeDead, LinkBreaks, Crash, Restart, NetFrame
<1>2. up' \in Seq(Messages)
  <2>1. up \in Seq(Messages) /\ up \o Dying \in Seq(Messages)
    BY DyingType, Concat DEF TypeOK
  <2>2. <<Retained>> \in Seq(Messages) /\ <<>> \in Seq(Messages)
    BY RetainedType, ShortQueue
  <2> QED BY <2>1, <2>2 DEF LineDies, NoticeDead, LinkBreaks, Crash, Restart
<1>3. down' \in Seq(Downs)
  <2>1. CASE LinkBreaks
    <3>1. PICK t \in SetToSeqs(Unconfirmed) : down' = Deliver(down, [i \in 1..Len(t) |-> Order(t[i])])
      BY <2>1 DEF LinkBreaks
    <3> DEFINE r == [i \in 1..Len(t) |-> Order(t[i])]
    <3>2. r \in Seq(Downs)
      BY Redelivered
    <3> HIDE DEF r
    <3>3. down \o r \in Seq(Downs)
      BY <3>2, Concat DEF TypeOK
    <3>4. down' = Deliver(down, r)
      BY <3>1 DEF r
    <3> QED BY <3>3, <3>4 DEF TypeOK, Deliver
  <2>2. CASE LineDies
    BY <2>2, ShortQueue DEF LineDies
  <2>3. CASE NoticeDead \/ Crash \/ Restart
    BY <2>3 DEF TypeOK, NoticeDead, Crash, Restart
  <2> QED BY <2>1, <2>2, <2>3
<1>4. faults' \in 0..MaxFaults
  BY FaultType DEF TypeOK, LineDies, NoticeDead, LinkBreaks, Crash, Restart
<1>5. lost' \in SUBSET Occ
  BY DEF TypeOK, LineDies, NoticeDead, LinkBreaks, Crash, Restart, Reported
<1>6. /\ calls' \in [Orders -> Stages] /\ handlers' \in SUBSET [msg : Messages, at : Statements, slot : Nat]
      /\ srv' \in BOOLEAN /\ lastDropped' \in Nat
  <2>1. "done" \in Stages /\ "idle" \in Stages
    BY DEF Stages
  <2>2. CASE Crash
    BY <2>1, <2>2 DEF TypeOK, Crash
  <2>3. CASE LineDies \/ NoticeDead \/ LinkBreaks \/ Restart
    BY <2>3 DEF TypeOK, LineDies, NoticeDead, LinkBreaks, Restart, server
  <2> QED BY <2>2, <2>3
<1>8. UNCHANGED <<rows, online, current, told, log, refused>>
  BY DEF LineDies, NoticeDead, LinkBreaks, Crash, Restart, server
<1>7. conn' \in {"up", "dead", "down"}
  BY DEF TypeOK, LineDies, NoticeDead, LinkBreaks, Crash, Restart
<1> QED BY <1>1, <1>2, <1>3, <1>4, <1>5, <1>6, <1>7, <1>8 DEF TypeOK, ram, flash

\* Every step keeps the types.
LEMMA NextType == TypeOK /\ [Next]_vars => TypeOK'
<1> SUFFICES ASSUME TypeOK, [Next]_vars PROVE TypeOK'
  OBVIOUS
<1>1. CASE ServerStep
  BY <1>1, CallType, ReceiveType, HandlerType DEF ServerStep
<1>2. CASE UnitStep
  BY <1>2, HandleCmdType, HandleScheduleType, FireType, MissType, FlushType, WakeType DEF UnitStep
<1>3. CASE Trouble
  BY <1>3, PowerType, NetType DEF Trouble
<1>4. CASE UNCHANGED vars
  BY <1>4 DEF TypeOK, vars, server, flash, ram, history
<1> QED BY <1>1, <1>2, <1>3, <1>4 DEF Next

\* Every variable keeps its type, and the firmware's queue of reports its
\* bound, MAX_EXEC_QUEUE: queueExecReport makes room before it appends.
THEOREM TypeCorrect == Spec => []TypeOK
BY InitType, NextType, PTL DEF Spec

-----------------------------------------------------------------------------
(* Once per power *)

\* Why the ids in RAM protect from a repetition: they are all different, and
\* whatever was carried out since the unit has power is among them.
RingRemembers ==
    /\ Len(ids) = Cardinality(ToSet(ids))
    /\ \A o \in Orders : done[o] <= cuts \/ (o \in ToSet(ids) /\ done[o] <= 1 + cuts)

LEMMA InitRemembers == Init => RingRemembers
<1> SUFFICES ASSUME Init PROVE RingRemembers
  OBVIOUS
<1>1. ids = <<>> /\ Len(ids) = 0 /\ ToSet(ids) = {}
  BY ShortQueue DEF Init
<1>2. \A o \in Orders : done[o] = 0 /\ cuts = 0
  BY DEF Init
<1> QED BY <1>1, <1>2, FS_EmptySet DEF RingRemembers

\* An order that is not among the ids finds room in the ring: no id is pushed
\* out while there are no more orders than places.
LEMMA CmdRemembers ==
    ASSUME TypeOK, RingRemembers, Cardinality(Orders) <= Ring, HandleCmd
    PROVE  RingRemembers'
<1> DEFINE o == Head(down).id
           dup == o \in ToSet(ids)
<1>1. o \in Orders
  BY HeadTail, DownFields DEF TypeOK, HandleCmd
<1>2. UNCHANGED cuts /\ cuts \in Nat
  BY DEF TypeOK, HandleCmd, UnitFrame
<1>3. CASE dup
  BY <1>2, <1>3 DEF RingRemembers, HandleCmd
<1>4. CASE ~dup
  <2>1. ids \in Seq(Orders) /\ ToSet(ids) \subseteq Orders
    BY Holds DEF TypeOK
  <2>2. IsFiniteSet(Orders) /\ IsFiniteSet(ToSet(ids)) /\ Cardinality(Orders) \in Nat
    BY <2>1, ChannelAssumption, FS_Subset, FS_CardinalityType
  <2>3. Cardinality(ToSet(ids) \union {o}) = Len(ids) + 1
    BY <1>4, <2>2, FS_AddElement DEF RingRemembers
  <2>4. Cardinality(ToSet(ids) \union {o}) <= Cardinality(Orders)
    <3>1. ToSet(ids) \union {o} \in SUBSET Orders
      BY <1>1, <2>1
    <3> QED BY <2>2, <3>1, FS_Subset
  <2>5. Len(ids) < Ring
    <3>1. Len(ids) \in Nat /\ Ring \in Nat
      BY <2>1, ChannelAssumption
    <3> QED BY <2>2, <2>3, <2>4, <3>1
  <2>6. ids' = Append(ids, o)
    BY <1>4, <2>5 DEF HandleCmd
  <2>7. Len(ids') = Len(ids) + 1 /\ ToSet(ids') = ToSet(ids) \union {o}
    BY <1>1, <2>1, <2>6, Appended
  <2>8. done' = done \/ done' = [done EXCEPT ![o] = @ + 1]
    BY DEF HandleCmd
  <2>9. ASSUME NEW p \in Orders
        PROVE  done'[p] <= cuts \/ (p \in ToSet(ids') /\ done'[p] <= 1 + cuts)
    <3>1. done[p] \in Nat /\ done'[p] = IF p = o /\ done' # done THEN done[p] + 1 ELSE done[p]
      BY <1>1, <2>8, <2>9 DEF TypeOK
    <3>2. CASE p = o
      <4>1. done[p] <= cuts /\ p \in ToSet(ids')
        BY <1>1, <1>4, <2>7, <3>2 DEF RingRemembers
      <4> QED BY <1>2, <3>1, <4>1
    <3>3. CASE p # o
      BY <2>7, <2>9, <3>1, <3>3 DEF RingRemembers
    <3> QED BY <3>2, <3>3
  <2> HIDE DEF o
  <2> QED BY <1>2, <2>3, <2>7, <2>9 DEF RingRemembers
<1> QED BY <1>3, <1>4

\* The server's steps leave the unit alone, but for the orders they publish.
LEMMA ServerLeaves ==
    ASSUME ServerStep
    PROVE  UNCHANGED <<srv, conn, power, boot, ram, flash, now, history>>
<1>1. ASSUME NEW o \in Orders, Ask(o) \/ CallStep(o) \/ PublishFails(o)
      PROVE  UNCHANGED <<srv, conn, power, boot, ram, flash, now, history>>
  <2>1. \E pc : CallFrame(o, pc)
    BY <1>1 DEF Ask, CallStep, Offline, Publish, PublishFails, Mark, Timeout
  <2> QED BY <2>1 DEF CallFrame
<1>2. CASE Receive \/ HandlerStep
  <2>1. HandlerFrame
    BY <1>2 DEF Receive, HandlerStep, AckStored, AckAnswered, StatusStep, StatusPresent, StatusState, StatusTold,
                StatusRemembered, ReportHandled
  <2> QED BY <2>1 DEF HandlerFrame
<1> QED BY <1>1, <1>2 DEF ServerStep

\* Only an order, and the loss of power, touch the ids and what was done.
LEMMA IdsSteps ==
    ASSUME [Next]_vars
    PROVE  HandleCmd \/ DarkFrame \/ UNCHANGED <<ids, done, cuts>>
<1>1. CASE ServerStep
  BY <1>1, ServerLeaves DEF ram, history
<1>2. CASE UnitStep
  BY <1>2 DEF UnitStep, HandleSchedule, Fire, Miss, TimeFrame, Heartbeat, Connect, Boot, ClockSync,
              Prime, Flush, UnitFrame, ram, history
<1>3. CASE Trouble
  BY <1>3 DEF Trouble, PowerCut, CutWhileFiring, CutWhileQueueing, CutWhileFlushing, LineDies,
              NoticeDead, LinkBreaks, Crash, Restart, NetFrame, ram
<1>4. CASE UNCHANGED vars
  BY <1>4 DEF vars, ram, history
<1> QED BY <1>1, <1>2, <1>3, <1>4 DEF Next

LEMMA NextRemembers ==
    ASSUME TypeOK, RingRemembers, Cardinality(Orders) <= Ring, [Next]_vars
    PROVE  RingRemembers'
<1>1. CASE DarkFrame
  <2>1. ids' = <<>> /\ Len(ids') = 0 /\ ToSet(ids') = {}
    BY <1>1, ShortQueue DEF DarkFrame
  <2>2. done' = done /\ cuts' = cuts + 1 /\ cuts \in Nat
    BY <1>1 DEF DarkFrame, TypeOK
  <2>3. \A o \in Orders : done[o] \in Nat /\ done[o] <= cuts + 1
    BY <2>2 DEF RingRemembers, TypeOK
  <2> QED BY <2>1, <2>2, <2>3, FS_EmptySet DEF RingRemembers
<1>2. CASE UNCHANGED <<ids, done, cuts>>
  BY <1>2 DEF RingRemembers
<1> QED BY <1>1, <1>2, IdsSteps, CmdRemembers

\* An order that the server's link publishes twice is carried out once for
\* each time the unit has power: the ring of ids (lastCmdIds) catches the
\* repetition.  A ring of n ids does this for n orders, and not for more:
\* with a shorter ring an id may be pushed out between the two deliveries.
THEOREM ObeyedOncePerPower ==
    ASSUME Cardinality(Orders) <= Ring
    PROVE  Spec => []OncePerPower
<1>1. Spec => []RingRemembers
  <2>1. TypeOK /\ RingRemembers /\ [Next]_vars => RingRemembers'
    BY NextRemembers
  <2> QED BY <2>1, InitRemembers, TypeCorrect, PTL DEF Spec
<1>2. TypeOK /\ RingRemembers => OncePerPower
  BY DEF TypeOK, RingRemembers, OncePerPower
<1> QED BY <1>1, <1>2, TypeCorrect, PTL

-----------------------------------------------------------------------------
(* Self-healing *)

\* A unit without power has no time.
ClockNeedsPower == clock => power

LEMMA InitHeals == Init => SelfHeals /\ ClockNeedsPower
BY DEF Init, SelfHeals, ClockNeedsPower

\* Steps of the server and of the lines leave the relay and the clock alone.
LEMMA RelaySteps ==
    ASSUME [Next]_vars
    PROVE  \/ HandleCmd \/ HandleSchedule \/ Fire \/ Miss \/ Boot \/ ClockSync \/ DarkFrame
           \/ UNCHANGED <<power, clock, boot, hand, skipped, out, now>>
<1>1. CASE ServerStep
  BY <1>1, ServerLeaves DEF ram, history
<1>2. CASE UnitStep
  BY <1>2 DEF UnitStep, Heartbeat, Connect, Prime, Flush, UnitFrame, ram, history
<1>3. CASE Trouble
  BY <1>3 DEF Trouble, PowerCut, CutWhileFiring, CutWhileQueueing, CutWhileFlushing, LineDies,
              NoticeDead, LinkBreaks, Crash, Restart, NetFrame, ram
<1>4. CASE UNCHANGED vars
  BY <1>4 DEF vars, ram, history
<1> QED BY <1>1, <1>2, <1>3, <1>4 DEF Next

\* Whatever drives the relay while the unit has its time either drives it to
\* the state of the latest occurrence or is an order; a minute that begins
\* unseen is seen by the first look at the clock only if there was no clock.
LEMMA NextHeals ==
    ASSUME TypeOK, SelfHeals, ClockNeedsPower, [Next]_vars
    PROVE  SelfHeals' /\ ClockNeedsPower'
<1>1. CASE HandleCmd
  <2>1. UNCHANGED <<power, clock, boot, skipped, now>> /\ (hand' = TRUE \/ UNCHANGED <<out, hand>>)
    BY <1>1 DEF HandleCmd, UnitFrame
  <2> QED BY <2>1 DEF SelfHeals, ClockNeedsPower
<1>2. CASE HandleSchedule
  <2>1. UNCHANGED <<power, clock, boot, skipped, now>> /\ out' = Wanted(out, clock)
    BY <1>2 DEF HandleSchedule, UnitFrame, Drive
  <2> QED BY <2>1 DEF SelfHeals, ClockNeedsPower, Wanted
<1>3. CASE Fire
  BY <1>3 DEF Fire, Drive, TimeFrame, SelfHeals, ClockNeedsPower
<1>4. CASE Miss
  BY <1>4 DEF Miss, TimeFrame, SelfHeals, ClockNeedsPower
<1>5. CASE Boot
  BY <1>5 DEF Boot, SelfHeals, ClockNeedsPower
<1>6. CASE ClockSync
  <2>1. UNCHANGED <<power, boot, skipped, now>> /\ power /\ out' = Wanted(saved, TRUE)
    BY <1>6 DEF ClockSync, Drive
  <2> QED BY <2>1 DEF SelfHeals, ClockNeedsPower, Wanted
<1>7. CASE DarkFrame
  BY <1>7 DEF DarkFrame, SelfHeals, ClockNeedsPower
<1>8. CASE UNCHANGED <<power, clock, boot, hand, skipped, out, now>>
  BY <1>8 DEF SelfHeals, ClockNeedsPower
<1> QED BY <1>1, <1>2, <1>3, <1>4, <1>5, <1>6, <1>7, <1>8, RelaySteps

\* After any number of power cuts and missed minutes the relay is in the
\* state its schedule asks for (applyBootBehavior, executionTick), for
\* whatever the occurrences ask for.
THEOREM HealsItself == Spec => []SelfHeals
<1>1. TypeOK /\ (SelfHeals /\ ClockNeedsPower) /\ [Next]_vars => (SelfHeals /\ ClockNeedsPower)'
  BY NextHeals
<1>2. Spec => [](SelfHeals /\ ClockNeedsPower)
  BY <1>1, InitHeals, TypeCorrect, PTL DEF Spec
<1> QED BY <1>2, PTL

-----------------------------------------------------------------------------
(* The implementation of OrderLedger *)

\* The row of an order says where its call is; a crash freezes it.
RowsFollowCalls ==
    \A o \in Orders :
        /\ rows[o] = "none" <=> calls[o] = "idle"
        /\ calls[o] \in {"offline", "publish", "puback"} => rows[o] = "pending"
        /\ calls[o] = "wait" => rows[o] = "sent"

\* What the unit receives was asked for, and an acknowledgement, old or new,
\* was earned: by the row, on the way, or by an id that would be answered again.
AcksAreEarned ==
    /\ \A m \in ToSet(down) : m.kind = "order" => rows[m.id] # "none"
    /\ \A o \in Orders : rows[o] = "acked" => done[o] > 0
    /\ \A m \in OnTheWay : m.kind = "ack" /\ m.ok => done[m.id] > 0
    /\ \A o \in ToSet(ids) \ Misfits : done[o] > 0

LEMMA InitFollow == Init => RowsFollowCalls /\ AcksAreEarned
<1> SUFFICES ASSUME Init PROVE RowsFollowCalls /\ AcksAreEarned
  OBVIOUS
<1>1. ToSet(down) = {} /\ OnTheWay = {} /\ ToSet(ids) = {}
  BY ShortQueue DEF Init, OnTheWay
<1>2. \A o \in Orders : rows[o] = "none" /\ calls[o] = "idle"
  BY DEF Init
<1> QED BY <1>1, <1>2 DEF RowsFollowCalls, AcksAreEarned

\* The calls write the rows, in the order of sendImmediateCommand.
LEMMA CallFollows ==
    ASSUME TypeOK, RowsFollowCalls, NEW o \in Orders, Ask(o) \/ CallStep(o) \/ PublishFails(o)
    PROVE  RowsFollowCalls'
<1>1. CASE Ask(o)
  BY <1>1 DEF TypeOK, RowsFollowCalls, Ask, CallFrame
<1>2. CASE Offline(o) \/ Timeout(o) \/ PublishFails(o)
  BY <1>2 DEF TypeOK, RowsFollowCalls, Offline, Timeout, PublishFails, CallFrame
<1>3. CASE Publish(o)
  BY <1>3 DEF TypeOK, RowsFollowCalls, Publish, CallFrame
<1>4. CASE Mark(o)
  BY <1>4 DEF TypeOK, RowsFollowCalls, Mark, CallFrame
<1> QED BY <1>1, <1>2, <1>3, <1>4 DEF CallStep

\* Who else writes the rows or the calls.
LEMMA CallSteps ==
    ASSUME [Next]_vars
    PROVE  \/ \E o \in Orders : Ask(o) \/ CallStep(o) \/ PublishFails(o)
           \/ \E h \in handlers : AckAnswered(h)
           \/ Crash
           \/ UNCHANGED <<rows, calls>>
<1>1. CASE ServerStep
  BY <1>1 DEF ServerStep, Receive, HandlerStep, AckStored, StatusStep, StatusPresent, StatusState, StatusTold,
              StatusRemembered, ReportHandled
<1>2. CASE UnitStep
  BY <1>2 DEF UnitStep, HandleCmd, HandleSchedule, Fire, Miss, TimeFrame, Heartbeat, Connect, Boot,
              ClockSync, Prime, Flush, UnitFrame, server
<1>3. CASE Trouble
  BY <1>3 DEF Trouble, PowerCut, CutWhileFiring, CutWhileQueueing, CutWhileFlushing, DarkFrame,
              LineDies, NoticeDead, LinkBreaks, Crash, Restart, server
<1>4. CASE UNCHANGED vars
  BY <1>4 DEF vars, server
<1> QED BY <1>1, <1>2, <1>3, <1>4 DEF Next

LEMMA NextFollows ==
    ASSUME TypeOK, RowsFollowCalls, [Next]_vars PROVE RowsFollowCalls'
<1>1. ASSUME NEW h \in handlers, AckAnswered(h) PROVE RowsFollowCalls'
  <2>1. h.msg.id \in Orders
    BY <1>1, MessageFields DEF TypeOK, AckAnswered
  <2>2. CASE calls[h.msg.id] = "wait"
    <3>1. /\ calls' = [calls EXCEPT ![h.msg.id] = "done"]
          /\ \E r \in {"acked", "failed"} : rows' = [rows EXCEPT ![h.msg.id] = r]
      BY <1>1, <2>2 DEF AckAnswered
    <3> QED BY <2>1, <3>1 DEF TypeOK, RowsFollowCalls
  <2>3. CASE calls[h.msg.id] # "wait"
    BY <1>1, <2>3 DEF RowsFollowCalls, AckAnswered
  <2> QED BY <2>2, <2>3
<1>2. CASE Crash
  BY <1>2 DEF TypeOK, RowsFollowCalls, Crash
<1>3. CASE UNCHANGED <<rows, calls>>
  BY <1>3 DEF RowsFollowCalls
<1> QED BY <1>1, <1>2, <1>3, CallFollows, CallSteps

\* An order was carried out once it was, and asked for once it was.
LEMMA NoWayBack ==
    ASSUME TypeOK, [Next]_vars, NEW o \in Orders
    PROVE  /\ rows[o] # "none" => rows'[o] # "none"
           /\ done[o] > 0 => done'[o] > 0
<1>1. rows[o] # "none" => rows'[o] # "none"
  <2>1. ASSUME NEW p \in Orders, Ask(p) \/ CallStep(p) \/ PublishFails(p), rows[o] # "none"
        PROVE  rows'[o] # "none"
    <3>1. rows' = rows \/ \E r \in {"pending", "sent", "failed"} : rows' = [rows EXCEPT ![p] = r]
      BY <2>1 DEF Ask, CallStep, Offline, Publish, PublishFails, Mark, Timeout
    <3> QED BY <2>1, <3>1 DEF TypeOK
  <2>2. ASSUME NEW h \in handlers, AckAnswered(h), rows[o] # "none" PROVE rows'[o] # "none"
    <3>1. rows' = rows \/ \E r \in {"acked", "failed"} : rows' = [rows EXCEPT ![h.msg.id] = r]
      BY <2>2 DEF AckAnswered
    <3> QED BY <2>2, <3>1 DEF TypeOK
  <2> QED BY <2>1, <2>2, CallSteps DEF Crash
<1>2. done[o] > 0 => done'[o] > 0
  <2>1. done' = done \/ done' = [done EXCEPT ![Head(down).id] = @ + 1]
    BY IdsSteps DEF HandleCmd, DarkFrame
  <2>2. CASE done' = [done EXCEPT ![Head(down).id] = @ + 1]
    <3>1. done[o] \in Nat /\ done'[o] = IF o = Head(down).id THEN done[o] + 1 ELSE done[o]
      BY <2>2 DEF TypeOK
    <3> QED BY <3>1
  <2> QED BY <2>1, <2>2
<1> QED BY <1>1, <1>2

\* The acknowledgement that handleCmd answers with.
AckSaid == AckOf(Head(down).id, Head(down).id \notin Misfits, out')

\* Nothing else says that an order was carried out.
LEMMA UnitAcks ==
    ASSUME TypeOK, UnitStep, NEW m \in ToSet(up'), m.kind = "ack"
    PROVE  m \in ToSet(up) \/ (HandleCmd /\ m = AckSaid)
<1>1. TypeOK'
  BY NextType DEF Next
<1>9. /\ \A t, n : Status(t, n).kind # "ack"
      /\ \A k : Report(k).kind # "ack"
  BY DEF Status, Report
<1>2. ASSUME NEW q \in Seq(Messages), Emit(q), \A n \in ToSet(q) : n.kind # "ack"
      PROVE  m \in ToSet(up)
  BY <1>2, EmitType
<1>3. CASE HandleCmd
  <2> DEFINE first == <<AckSaid>>
             dup == Head(down).id \in ToSet(ids)
             rest == IF dup THEN <<>> ELSE <<StatusNow>>
  <2>1. Head(down).id \in Orders
    BY <1>3, HeadTail, DownFields DEF TypeOK, HandleCmd
  <2>2. AckSaid \in Messages /\ StatusNow \in Messages
    BY <1>1, <2>1, MessageTypes DEF TypeOK, AckSaid, StatusNow
  <2>3. first \in Seq(Messages) /\ ToSet(first) = {AckSaid}
    BY <2>2, ShortQueue
  <2>4. rest \in Seq(Messages) /\ ToSet(rest) \subseteq {StatusNow}
    <3> HIDE DEF dup
    <3> QED BY <2>2, ShortQueue
  <2>5. Emit(first \o rest)
    BY <1>3 DEF HandleCmd, AckSaid
  <2> HIDE DEF first, rest
  <2>6. first \o rest \in Seq(Messages) /\ ToSet(first \o rest) \subseteq {AckSaid, StatusNow}
    BY <2>3, <2>4, Concat
  <2>7. m \in ToSet(up) \/ m = AckSaid \/ m = StatusNow
    BY <2>5, <2>6, EmitType
  <2> QED BY <1>3, <1>9, <2>7 DEF StatusNow
<1>4. CASE HandleSchedule \/ ClockSync
  <2>1. StatusNow \in Messages
    BY <1>1, MessageTypes DEF TypeOK, StatusNow
  <2>2. <<StatusNow>> \in Seq(Messages) /\ ToSet(<<StatusNow>>) = {StatusNow}
    BY <2>1, ShortQueue
  <2>3. Emit(<<StatusNow>>) /\ StatusNow.kind # "ack"
    BY <1>4, <1>9 DEF HandleSchedule, ClockSync, StatusNow
  <2> QED BY <1>2, <2>2, <2>3
<1>5. CASE Fire
  <2> DEFINE r == Report(now')
             t == Status(out', dropped')
  <2>1. r \in Messages /\ t \in Messages
    BY <1>1, <1>5, NextOccurrence, MessageTypes DEF TypeOK, Fire
  <2>2. <<r, t>> \in Seq(Messages) /\ ToSet(<<r, t>>) = {r, t}
    BY <2>1, ShortQueue
  <2>3. Emit(<<r, t>>) /\ r.kind # "ack" /\ t.kind # "ack"
    BY <1>5, <1>9 DEF Fire
  <2> HIDE DEF r, t
  <2> QED BY <1>2, <2>2, <2>3
<1>6. ASSUME NEW n \in 1..MaxQueue, Flush(n) PROVE m \in ToSet(up)
  <2> DEFINE sent == Reports(SubSeq(queue, 1, n))
  <2>1. SubSeq(queue, 1, n) \in Seq(Occ)
    BY <1>6, Split DEF TypeOK, Flush
  <2>2. sent \in Seq(Messages) /\ \A x \in ToSet(sent) : x.kind # "ack"
    BY <2>1, ReportsOf
  <2>3. Emit(sent)
    BY <1>6 DEF Flush
  <2> HIDE DEF sent
  <2> QED BY <1>2, <2>2, <2>3
<1>7. CASE Heartbeat \/ Connect
  <2>1. Status(out, dropped) \in Messages
    BY MessageTypes DEF TypeOK
  <2>2. ToSet(up') \subseteq ToSet(up) \union {Status(out, dropped)}
    <3>1. ToSet(<<Status(out, dropped)>>) = {Status(out, dropped)}
      BY <2>1, ShortQueue
    <3>2. ToSet(Append(up, Status(out, dropped))) = ToSet(up) \union {Status(out, dropped)}
      BY <2>1, Appended DEF TypeOK
    <3> QED BY <1>7, <3>1, <3>2 DEF Heartbeat, Connect
  <2> QED BY <1>9, <2>2
<1>8. CASE Miss \/ Boot \/ Prime
  BY <1>8 DEF Miss, Boot, Prime
<1> QED BY <1>3, <1>4, <1>5, <1>6, <1>7, <1>8 DEF UnitStep

\* On the other steps the way holds what it held, or less, or statuses.
LEMMA OtherAcks ==
    ASSUME TypeOK, Trouble, NEW m \in ToSet(up'), m.kind = "ack"
    PROVE  m \in ToSet(up)
<1>1. Will.kind # "ack" /\ Retained.kind # "ack" /\ Retained \in Messages
  BY RetainedType DEF Will, Retained, Status
<1>2. ToSet(up \o Dying) \subseteq ToSet(up) \union {Will}
  BY DyingType, Concat DEF TypeOK
<1>3. ToSet(<<Retained>>) = {Retained} /\ ToSet(<<>>) = {}
  BY <1>1, ShortQueue
<1>4. \A n \in ToSet(up \o Reports(queue) \o Dying) : n \in ToSet(up) \/ n.kind # "ack"
  <2> DEFINE r == Reports(queue)
           u == up \o r
  <2>1. r \in Seq(Messages) /\ \A n \in ToSet(r) : n.kind # "ack"
    BY ReportsOf DEF TypeOK
  <2> HIDE DEF r
  <2>2. u \in Seq(Messages) /\ ToSet(u) = ToSet(up) \union ToSet(r)
    BY <2>1, Concat DEF TypeOK
  <2> HIDE DEF u
  <2>3. ToSet(u \o Dying) = ToSet(u) \union ToSet(Dying)
    BY <2>2, DyingType, Concat
  <2> QED BY <1>1, <2>1, <2>2, <2>3, DyingType DEF u, r
<1>5. \/ up' = up \/ up' = up \o Dying \/ up' = up \o Reports(queue) \o Dying
      \/ up' = <<Retained>> \/ up' = <<>>
  BY DEF Trouble, PowerCut, CutWhileFiring, CutWhileQueueing, CutWhileFlushing, LineDies, NoticeDead,
         LinkBreaks, Crash, Restart
<1> QED BY <1>1, <1>2, <1>3, <1>4, <1>5

LEMMA AckSteps ==
    ASSUME TypeOK, [Next]_vars, NEW m \in OnTheWay', m.kind = "ack"
    PROVE  m \in OnTheWay \/ (HandleCmd /\ m = AckSaid)
<1>1. CASE \E o \in Orders : Ask(o) \/ CallStep(o) \/ PublishFails(o)
  <2>1. \E o \in Orders : \E pc : CallFrame(o, pc)
    BY <1>1 DEF Ask, CallStep, Offline, Publish, PublishFails, Mark, Timeout
  <2> QED BY <2>1 DEF CallFrame, OnTheWay
<1>2. CASE Receive
  <2>1. ToSet(up) = {Head(up)} \union ToSet(up')
    BY <1>2, HeadTail DEF TypeOK, Receive
  <2>2. PICK n : handlers' = handlers \union {Received(Head(up), n)}
    BY <1>2 DEF Receive
  <2> QED BY <2>1, <2>2 DEF Received, OnTheWay
<1>3. ASSUME NEW h \in handlers,
             AckStored(h) \/ AckAnswered(h) \/ StatusStep(h) \/ ReportHandled(h)
      PROVE  m \in OnTheWay
  <2>1. up' = up
    BY <1>3 DEF AckStored, AckAnswered, StatusStep, StatusPresent, StatusState, StatusTold,
                StatusRemembered, ReportHandled
  <2>2. \A s \in Statements : [h EXCEPT !.at = s].msg = h.msg
    BY DEF TypeOK
  <2>3. \A g \in handlers' : g.msg \in {f.msg : f \in handlers}
    BY <1>3, <2>2, HandlerMoves
  <2> QED BY <2>1, <2>3 DEF OnTheWay
<1>4. CASE UnitStep
  <2>1. handlers' = handlers
    BY <1>4 DEF UnitStep, HandleCmd, HandleSchedule, Fire, Miss, TimeFrame, Heartbeat, Connect, Boot,
                ClockSync, Prime, Flush, UnitFrame, server
  <2> QED BY <1>4, <2>1, UnitAcks DEF OnTheWay
<1>5. CASE Trouble
  <2>1. handlers' \subseteq handlers
    BY <1>5 DEF Trouble, PowerCut, CutWhileFiring, CutWhileQueueing, CutWhileFlushing, DarkFrame,
                LineDies, NoticeDead, LinkBreaks, Crash, Restart, server
  <2> QED BY <1>5, <2>1, OtherAcks DEF OnTheWay
<1>6. CASE UNCHANGED vars
  BY <1>6 DEF vars, server, OnTheWay
<1> QED BY <1>1, <1>2, <1>3, <1>4, <1>5, <1>6 DEF Next, ServerStep, HandlerStep

\* Where the orders in the broker come from: a call that publishes, or the
\* link that publishes again what has no PUBACK.
LEMMA DownSteps ==
    ASSUME TypeOK, [Next]_vars, NEW m \in ToSet(down'), m.kind = "order"
    PROVE  m \in ToSet(down) \/ (m.id \in Orders /\ calls[m.id] \in {"publish", "puback"})
<1>1. ASSUME NEW o \in Orders, Ask(o) \/ CallStep(o) \/ PublishFails(o)
      PROVE  m \in ToSet(down) \/ (m.id \in Orders /\ calls[m.id] \in {"publish", "puback"})
  <2>1. CASE Publish(o)
    <3>1. <<Order(o)>> \in Seq(Downs) /\ ToSet(<<Order(o)>>) = {Order(o)} /\ Order(o).id = o
      BY MessageTypes, ShortQueue DEF Order
    <3> DEFINE r == <<Order(o)>>
    <3>5. r \in Seq(Downs)
      BY <3>1
    <3> HIDE DEF r
    <3>2. ToSet(down \o r) = ToSet(down) \union ToSet(r)
      BY <3>5, Concat DEF TypeOK
    <3>3. down' = down \o r \/ down' = down
      BY <2>1 DEF Publish, Deliver, r
    <3>4. calls[o] = "publish"
      BY <2>1 DEF Publish
    <3> QED BY <3>1, <3>2, <3>3, <3>4 DEF r
  <2>2. CASE ~Publish(o)
    BY <1>1, <2>2 DEF Ask, CallStep, Offline, PublishFails, Mark, Timeout
  <2> QED BY <2>1, <2>2
<1>2. CASE Receive \/ HandlerStep
  BY <1>2 DEF Receive, HandlerStep, AckStored, AckAnswered, StatusStep, StatusPresent, StatusState, StatusTold,
              StatusRemembered, ReportHandled, HandlerFrame
<1>3. CASE UnitStep
  <2>1. CASE HandleCmd \/ HandleSchedule
    <3>1. down # <<>> /\ down' = Tail(down)
      BY <2>1 DEF HandleCmd, HandleSchedule
    <3> QED BY <3>1, HeadTail DEF TypeOK
  <2>2. CASE Connect
    <3>1. ToSet(<<Schedule>>) = {Schedule}
      BY MessageTypes, ShortQueue
    <3> QED BY <2>2, <3>1 DEF Connect, Schedule
  <2>3. CASE ~(HandleCmd \/ HandleSchedule \/ Connect)
    BY <1>3, <2>3 DEF UnitStep, Fire, Miss, Heartbeat, Boot, ClockSync, Prime, Flush
  <2> QED BY <2>1, <2>2, <2>3
<1>4. CASE Trouble
  <2>1. CASE LinkBreaks
    <3>1. PICK t \in SetToSeqs(Unconfirmed) : down' = Deliver(down, [i \in 1..Len(t) |-> Order(t[i])])
      BY <2>1 DEF LinkBreaks
    <3> DEFINE r == [i \in 1..Len(t) |-> Order(t[i])]
    <3>2. r \in Seq(Downs) /\ \A n \in ToSet(r) : n.id \in Unconfirmed
      BY Redelivered
    <3>3. down' = Deliver(down, r)
      BY <3>1
    <3> HIDE DEF r
    <3>4. ToSet(down \o r) = ToSet(down) \union ToSet(r)
      BY <3>2, Concat DEF TypeOK
    <3> QED BY <3>2, <3>3, <3>4 DEF Deliver, Unconfirmed
  <2>2. CASE ~LinkBreaks
    <3>1. down' = down \/ down' = <<>>
      BY <1>4, <2>2 DEF Trouble, PowerCut, CutWhileFiring, CutWhileQueueing, CutWhileFlushing,
                        DarkFrame, LineDies, NoticeDead, Crash, Restart
    <3> QED BY <3>1, ShortQueue
  <2> QED BY <2>1, <2>2
<1>5. CASE UNCHANGED vars
  BY <1>5 DEF vars
<1> QED BY <1>1, <1>2, <1>3, <1>4, <1>5 DEF Next, ServerStep

\* The ids of the orders that the unit has seen.
LEMMA SeenSteps ==
    ASSUME TypeOK, HandleCmd
    PROVE  /\ Head(down).id \in Orders /\ Head(down) \in ToSet(down)
           /\ ToSet(ids') \subseteq ToSet(ids) \union {Head(down).id}
<1>1. Head(down) \in Downs /\ Head(down) \in ToSet(down) /\ Head(down).id \in Orders
  BY HeadTail, DownFields DEF TypeOK, HandleCmd
<1> DEFINE o == Head(down).id
<1>2. ids \in Seq(Orders) /\ Len(ids) \in Nat /\ Ring \in Nat \ {0}
  BY ChannelAssumption DEF TypeOK
<1>3. ToSet(Append(ids, o)) = ToSet(ids) \union {o}
  BY <1>1, <1>2, Appended
<1>4. ASSUME ~(Len(ids) < Ring) PROVE ToSet(Append(Tail(ids), o)) \subseteq ToSet(ids) \union {o}
  <2>1. ids # <<>>
    BY <1>2, <1>4
  <2>2. Tail(ids) \in Seq(Orders) /\ ToSet(Tail(ids)) \subseteq ToSet(ids)
    BY <1>2, <2>1, HeadTail
  <2> DEFINE t == Tail(ids)
  <2>3. t \in Seq(Orders) /\ o \in Orders
    BY <1>1, <2>2
  <2> HIDE DEF t, o
  <2>4. ToSet(Append(t, o)) = ToSet(t) \union {o}
    BY <2>3, Appended
  <2> QED BY <2>2, <2>4 DEF t
<1>5. \/ ids' = ids \/ ids' = Append(ids, o)
      \/ ~(Len(ids) < Ring) /\ ids' = Append(Tail(ids), o)
  BY DEF HandleCmd
<1> HIDE DEF o
<1>6. ToSet(ids') \subseteq ToSet(ids) \union {o}
  BY <1>3, <1>4, <1>5
<1> QED BY <1>1, <1>6 DEF o

\* An order that the unit can carry out is carried out by handleCmd, now or
\* when its id was noted.
LEMMA CmdDone ==
    ASSUME TypeOK, AcksAreEarned, HandleCmd, Head(down).id \notin Misfits
    PROVE  done'[Head(down).id] > 0
<1> DEFINE o == Head(down).id
<1>1. o \in Orders
  BY SeenSteps
<1>2. CASE o \in ToSet(ids)
  BY <1>2 DEF HandleCmd, AcksAreEarned
<1>3. CASE o \notin ToSet(ids)
  <2>1. done' = [done EXCEPT ![o] = @ + 1]
    BY <1>3 DEF HandleCmd
  <2>2. done[o] \in Nat /\ done'[o] = done[o] + 1
    BY <1>1, <2>1 DEF TypeOK
  <2> QED BY <2>2
<1> QED BY <1>2, <1>3

LEMMA NextEarned ==
    ASSUME TypeOK, RowsFollowCalls, AcksAreEarned, [Next]_vars
    PROVE  AcksAreEarned'
<1>1. ASSUME NEW m \in ToSet(down'), m.kind = "order" PROVE rows'[m.id] # "none"
  <2>1. CASE m \in ToSet(down)
    <3>1. m \in Downs
      BY <2>1, Holds DEF TypeOK
    <3>2. m.id \in Orders /\ rows[m.id] # "none"
      BY <1>1, <2>1, <3>1, DownFields DEF AcksAreEarned
    <3> QED BY <3>2, NoWayBack
  <2>2. CASE m.id \in Orders /\ calls[m.id] \in {"publish", "puback"}
    BY <2>2, NoWayBack DEF RowsFollowCalls
  <2> QED BY <1>1, <2>1, <2>2, DownSteps
<1>2. ASSUME NEW o \in Orders, rows'[o] = "acked" PROVE done'[o] > 0
  <2>1. CASE rows[o] = "acked"
    BY <2>1, NoWayBack DEF AcksAreEarned
  <2>2. CASE rows[o] # "acked"
    <3>1. ASSUME NEW p \in Orders, Ask(p) \/ CallStep(p) \/ PublishFails(p) PROVE FALSE
      <4>1. rows' = rows \/ \E r \in {"pending", "sent", "failed"} : rows' = [rows EXCEPT ![p] = r]
        BY <3>1 DEF Ask, CallStep, Offline, Publish, PublishFails, Mark, Timeout
      <4> QED BY <1>2, <2>2, <4>1 DEF TypeOK
    <3>2. ASSUME NEW h \in handlers, AckAnswered(h) PROVE done[o] > 0
      <4>1. h.msg.id = o /\ h.msg.ok /\ h.msg.kind = "ack"
        <5>1. rows' = rows \/ rows' = [rows EXCEPT ![h.msg.id] = IF h.msg.ok THEN "acked" ELSE "failed"]
          BY <3>2 DEF AckAnswered
        <5> QED BY <1>2, <2>2, <3>2, <5>1 DEF TypeOK, AckAnswered
      <4>2. h.msg \in OnTheWay
        BY DEF OnTheWay
      <4> QED BY <4>1, <4>2 DEF AcksAreEarned
    <3>3. ~Crash /\ ~UNCHANGED <<rows, calls>>
      BY <1>2, <2>2 DEF Crash
    <3> QED BY <3>1, <3>2, <3>3, CallSteps, NoWayBack
  <2> QED BY <2>1, <2>2
<1>3. ASSUME NEW m \in OnTheWay', m.kind = "ack", m.ok PROVE done'[m.id] > 0
  <2>1. CASE m \in OnTheWay
    <3>1. m \in Messages
      BY <2>1, Holds DEF TypeOK, OnTheWay
    <3>2. m.id \in Orders /\ done[m.id] > 0
      BY <1>3, <2>1, <3>1, MessageFields DEF AcksAreEarned
    <3> QED BY <3>2, NoWayBack
  <2>2. CASE HandleCmd /\ m = AckSaid
    <3>1. m.id = Head(down).id /\ Head(down).id \notin Misfits
      BY <1>3, <2>2 DEF AckSaid, AckOf
    <3> QED BY <2>2, <3>1, CmdDone
  <2> QED BY <1>3, <2>1, <2>2, AckSteps
<1>4. ASSUME NEW o \in ToSet(ids') \ Misfits PROVE done'[o] > 0
  <2>1. CASE HandleCmd
    <3>1. CASE o \in ToSet(ids)
      <4>1. o \in Orders
        BY <3>1, Holds DEF TypeOK
      <4> QED BY <3>1, <4>1, NoWayBack DEF AcksAreEarned
    <3>2. CASE o = Head(down).id
      BY <2>1, <3>2, CmdDone
    <3> QED BY <2>1, <3>1, <3>2, SeenSteps
  <2>2. CASE DarkFrame
    BY <2>2, ShortQueue DEF DarkFrame
  <2>3. CASE UNCHANGED <<ids, done, cuts>>
    BY <2>3 DEF AcksAreEarned
  <2> QED BY <2>1, <2>2, <2>3, IdsSteps
<1> QED BY <1>1, <1>2, <1>3, <1>4 DEF AcksAreEarned

\* An order that is placed, or answered, is so in the ledger.
LEMMA CallLedger ==
    ASSUME TypeOK, RowsFollowCalls, NEW o \in Orders, Ask(o) \/ CallStep(o) \/ PublishFails(o)
    PROVE  [Ledger!Next]_(Ledger!ledger)
<1> DEFINE answer == [p \in Orders |-> Answer(rows[p])]
           obeyed == {p \in Orders : done[p] > 0}
<1> USE DEF Ledger!ledger
<1>1. done' = done
  BY DEF Ask, CallStep, Offline, Publish, PublishFails, Mark, Timeout, CallFrame, history
<1>2. obeyed' = obeyed
  BY <1>1
<1>3. CASE Ask(o)
  <2>1. rows[o] = "none" /\ rows' = [rows EXCEPT ![o] = "pending"]
    BY <1>3 DEF Ask
  <2>2. answer[o] = "none" /\ answer' = [answer EXCEPT ![o] = "open"]
    BY <2>1 DEF Answer, TypeOK
  <2> QED BY <1>2, <2>2 DEF Ledger!Next, Ledger!Place
<1>4. CASE Offline(o) \/ Timeout(o) \/ PublishFails(o)
  <2>1. rows[o] \in {"pending", "sent"} /\ rows' = [rows EXCEPT ![o] = "failed"]
    BY <1>4 DEF Offline, Timeout, PublishFails, RowsFollowCalls
  <2>2. answer[o] = "open" /\ answer' = [answer EXCEPT ![o] = "failed"]
    BY <2>1 DEF Answer, TypeOK
  <2> QED BY <1>2, <2>2 DEF Ledger!Next, Ledger!Fail
<1>5. CASE Publish(o)
  BY <1>2, <1>5 DEF Publish
<1>6. CASE Mark(o)
  <2>1. rows[o] = "pending" /\ rows' = [rows EXCEPT ![o] = "sent"]
    BY <1>6 DEF Mark, RowsFollowCalls
  <2>2. answer' = answer
    BY <2>1 DEF Answer, TypeOK
  <2> QED BY <1>2, <2>2
<1> QED BY <1>3, <1>4, <1>5, <1>6 DEF CallStep

\* An order is carried out only after it was placed, and before it is acked.
LEMMA CmdLedger ==
    ASSUME TypeOK, AcksAreEarned, HandleCmd
    PROVE  [Ledger!Next]_(Ledger!ledger)
<1> DEFINE answer == [p \in Orders |-> Answer(rows[p])]
           obeyed == {p \in Orders : done[p] > 0}
           o == Head(down).id
<1> USE DEF Ledger!ledger
<1>1. o \in Orders /\ rows[o] # "none"
  BY SeenSteps DEF HandleCmd, AcksAreEarned
<1>2. answer' = answer
  BY DEF HandleCmd, UnitFrame, server
<1>3. CASE done' = done
  BY <1>2, <1>3
<1>4. CASE done' = [done EXCEPT ![o] = @ + 1]
  <2>1. \A p \in Orders : done'[p] > 0 <=> (done[p] > 0 \/ p = o)
    <3> SUFFICES ASSUME NEW p \in Orders PROVE done'[p] > 0 <=> (done[p] > 0 \/ p = o)
      OBVIOUS
    <3>1. done[p] \in Nat /\ done'[p] = IF p = o THEN done[p] + 1 ELSE done[p]
      BY <1>4 DEF TypeOK
    <3> QED BY <3>1
  <2>2. obeyed' = obeyed \union {o}
    BY <1>1, <2>1
  <2>3. CASE rows[o] = "acked"
    <3>1. o \in obeyed
      BY <1>1, <2>3 DEF AcksAreEarned
    <3> QED BY <1>2, <2>2, <3>1
  <2>4. CASE rows[o] # "acked"
    <3>1. answer[o] \in {"open", "failed"}
      BY <1>1, <2>4 DEF Answer, TypeOK
    <3> QED BY <1>1, <1>2, <2>2, <3>1 DEF Ledger!Next, Ledger!Obey
  <2> QED BY <2>3, <2>4
<1> QED BY <1>3, <1>4 DEF HandleCmd

\* An acknowledgement succeeds an open order that the unit carried out, or
\* fails it, or finds no waiter.
LEMMA AckLedger ==
    ASSUME TypeOK, RowsFollowCalls, AcksAreEarned, NEW h \in handlers, AckAnswered(h)
    PROVE  [Ledger!Next]_(Ledger!ledger)
<1> DEFINE answer == [p \in Orders |-> Answer(rows[p])]
           obeyed == {p \in Orders : done[p] > 0}
           o == h.msg.id
<1> USE DEF Ledger!ledger
<1>1. h.msg \in OnTheWay /\ h.msg.kind = "ack" /\ o \in Orders
  BY MessageFields DEF AckAnswered, OnTheWay, TypeOK
<1>2. obeyed' = obeyed
  BY DEF AckAnswered, HandlerFrame, history
<1>3. CASE calls[o] = "wait"
  <2>1. rows[o] = "sent" /\ rows' = [rows EXCEPT ![o] = IF h.msg.ok THEN "acked" ELSE "failed"]
    BY <1>1, <1>3 DEF AckAnswered, RowsFollowCalls
  <2>2. CASE h.msg.ok
    <3>1. answer[o] = "open" /\ answer' = [answer EXCEPT ![o] = "acked"]
      BY <1>1, <2>1, <2>2 DEF Answer, TypeOK
    <3>2. o \in obeyed
      BY <1>1, <2>2 DEF AcksAreEarned
    <3> QED BY <1>1, <1>2, <3>1, <3>2 DEF Ledger!Next, Ledger!Succeed
  <2>3. CASE ~h.msg.ok
    <3>1. answer[o] = "open" /\ answer' = [answer EXCEPT ![o] = "failed"]
      BY <1>1, <2>1, <2>3 DEF Answer, TypeOK
    <3> QED BY <1>1, <1>2, <3>1 DEF Ledger!Next, Ledger!Fail
  <2> QED BY <2>2, <2>3
<1>4. CASE calls[o] # "wait"
  <2>1. rows' = rows
    BY <1>4 DEF AckAnswered
  <2> QED BY <1>2, <2>1
<1> QED BY <1>3, <1>4

\* What the customer is told keeps the promise of OrderLedger, for any number
\* of orders and any order of acknowledgements: an order is answered once,
\* acked only if the unit did it, and a late ack leaves it failed (D22).
THEOREM LedgerImplemented == Spec => ImplementsLedger
<1>1. Spec => [](RowsFollowCalls /\ AcksAreEarned)
  <2>1. TypeOK /\ (RowsFollowCalls /\ AcksAreEarned) /\ [Next]_vars
            => (RowsFollowCalls /\ AcksAreEarned)'
    BY NextFollows, NextEarned
  <2> QED BY <2>1, InitFollow, TypeCorrect, PTL DEF Spec
<1>2. Init => Ledger!Init
  BY DEF Init, Ledger!Init, Answer
<1>3. TypeOK /\ RowsFollowCalls /\ AcksAreEarned /\ [Next]_vars
         => [Ledger!Next]_(Ledger!ledger)
  <2> SUFFICES ASSUME TypeOK, RowsFollowCalls, AcksAreEarned, [Next]_vars
               PROVE  [Ledger!Next]_(Ledger!ledger)
    OBVIOUS
  <2>1. CASE HandleCmd
    BY <2>1, CmdLedger
  <2>2. CASE ~HandleCmd /\ UNCHANGED <<rows, calls>>
    <3>1. UNCHANGED <<rows, done>>
      BY <2>2, IdsSteps DEF DarkFrame
    <3> QED BY <3>1 DEF Ledger!ledger
  <2>3. CASE Crash
    BY <2>3 DEF Crash, NetFrame, Ledger!ledger
  <2> QED BY <2>1, <2>2, <2>3, CallSteps, CallLedger, AckLedger
<1> QED BY <1>1, <1>2, <1>3, TypeCorrect, PTL DEF Spec, ImplementsLedger, Ledger!Spec

-----------------------------------------------------------------------------
(* Accounted reports *)

\* Where an occurrence that the unit switched for may be.
Accounted ==
    log \union refused \union Reported(OnTheWay) \union ToSet(queue) \union discarded \union lost

\* Nothing is kept for a server that is not running.
NothingWaits == ~srv => up = <<>>

LEMMA NextWaits ==
    ASSUME TypeOK, NothingWaits, [Next]_vars PROVE NothingWaits'
<1>1. CASE ServerStep
  <2>1. \A o \in Orders : \A pc : CallFrame(o, pc) => up' = up /\ srv' = srv
    BY DEF CallFrame
  <2>2. (\E o \in Orders : Ask(o) \/ CallStep(o) \/ PublishFails(o)) => up' = up /\ srv' = srv
    BY <2>1 DEF Ask, CallStep, Offline, Publish, PublishFails, Mark, Timeout
  <2>3. HandlerStep => up' = up /\ srv' = srv
    BY DEF HandlerStep, AckStored, AckAnswered, StatusStep, StatusPresent, StatusState, StatusTold,
           StatusRemembered, ReportHandled, HandlerFrame
  <2> QED BY <1>1, <2>2, <2>3 DEF ServerStep, Receive, HandlerFrame, NothingWaits
<1>2. CASE UnitStep
  <2>1. srv' = srv
    BY <1>2 DEF UnitStep, HandleCmd, HandleSchedule, Fire, Miss, TimeFrame, Heartbeat, Connect, Boot,
                ClockSync, Prime, Flush, UnitFrame, server
  <2>2. ~srv => up' = up
    BY <1>2 DEF UnitStep, HandleCmd, HandleSchedule, Fire, Miss, Heartbeat, Connect, Boot,
                ClockSync, Prime, Flush, Emit, Heard
  <2> QED BY <2>1, <2>2 DEF NothingWaits
<1>3. CASE Trouble
  <2>1. CASE PowerCut \/ CutWhileFiring \/ LineDies
    <3>1. up' = up \o Dying /\ srv' = srv
      BY <2>1 DEF PowerCut, CutWhileFiring, LineDies, DarkFrame, server
    <3>2. ~srv => up' = <<>> \o <<>>
      BY <3>1 DEF NothingWaits, Dying
    <3> QED BY <3>1, <3>2 DEF NothingWaits
  <2>2. CASE CutWhileQueueing \/ CutWhileFlushing \/ NoticeDead \/ LinkBreaks
    BY <2>2 DEF CutWhileQueueing, CutWhileFlushing, NoticeDead, LinkBreaks, DarkFrame, server, NothingWaits
  <2>3. CASE Crash \/ Restart
    BY <2>3 DEF Crash, Restart, NothingWaits
  <2> QED BY <1>3, <2>1, <2>2, <2>3 DEF Trouble
<1>4. CASE UNCHANGED vars
  BY <1>4 DEF vars, server, NothingWaits
<1> QED BY <1>1, <1>2, <1>3, <1>4 DEF Next

\* A report on the way is a report of that occurrence and of no other.
LEMMA ReportIs ==
    ASSUME NEW k, NEW j PROVE Report(k) = Report(j) => k = j
BY DEF Report

\* A handler that ends has made its report executed, or refused it.
LEMMA HandlerAccounts ==
    ASSUME TypeOK, NEW h \in handlers,
           AckStored(h) \/ AckAnswered(h) \/ StatusStep(h) \/ ReportHandled(h)
    PROVE  Accounted \subseteq Accounted'
<1>1. UNCHANGED <<up, queue, discarded, lost>>
  BY DEF AckStored, AckAnswered, StatusStep, StatusPresent, StatusState, StatusTold,
         StatusRemembered, ReportHandled, HandlerFrame, flash, history
<1>2. log \subseteq log' /\ refused \subseteq refused'
  BY DEF AckStored, AckAnswered, StatusStep, StatusPresent, StatusState, StatusTold,
         StatusRemembered, ReportHandled
<1>4. handlers \ {h} \subseteq handlers'
  BY HandlerMoves
<1>5. ASSUME NEW k \in Reported(OnTheWay) PROVE k \in Reported(OnTheWay)' \/ k \in log' \/ k \in refused'
  <2>1. CASE Report(k) = h.msg
    <3>1. h.msg.kind = "exec" /\ h.msg.occ = k
      BY <2>1 DEF Report
    <3>2. ReportHandled(h)
      BY <3>1 DEF AckStored, AckAnswered, StatusStep, StatusPresent, StatusState, StatusTold,
                  StatusRemembered
    <3> QED BY <3>1, <3>2 DEF ReportHandled
  <2>2. CASE Report(k) # h.msg
    <3>1. k \in Occ /\ Report(k) \in OnTheWay
      BY <1>5 DEF Reported
    <3>2. Report(k) \in OnTheWay'
      BY <1>1, <1>4, <2>2, <3>1 DEF OnTheWay
    <3> QED BY <3>1, <3>2 DEF Reported
  <2> QED BY <2>1, <2>2
<1> QED BY <1>1, <1>2, <1>5 DEF Accounted

\* What the unit publishes comes behind what is on its way.
LEMMA UnitSays ==
    ASSUME TypeOK, UnitStep PROVE OnTheWay \subseteq OnTheWay'
<1>1. TypeOK'
  BY NextType DEF Next
<1>2. ToSet(up) \subseteq ToSet(up')
  <2>1. CASE Heartbeat
    BY <2>1, ShortQueue DEF Heartbeat
  <2>2. CASE Connect
    <3>1. Status(out, dropped) \in Messages
      BY MessageTypes DEF TypeOK
    <3>2. ToSet(Append(up, Status(out, dropped))) = ToSet(up) \union {Status(out, dropped)}
      BY <3>1, Appended DEF TypeOK
    <3> QED BY <2>2, <3>2 DEF Connect
  <2>3. ASSUME NEW q \in Seq(Messages), Emit(q) PROVE ToSet(up) \subseteq ToSet(up')
    BY <2>3, EmitType
  <2>4. CASE HandleCmd
    <3> DEFINE first == <<AckSaid>>
               rest == IF Head(down).id \in ToSet(ids) THEN <<>> ELSE <<StatusNow>>
    <3>1. Head(down).id \in Orders
      BY <2>4, HeadTail, DownFields DEF TypeOK, HandleCmd
    <3>2. AckSaid \in Messages /\ StatusNow \in Messages
      BY <1>1, <3>1, MessageTypes DEF TypeOK, AckSaid, StatusNow
    <3>3. first \in Seq(Messages) /\ rest \in Seq(Messages)
      BY <3>2, ShortQueue
    <3>4. Emit(first \o rest)
      BY <2>4 DEF HandleCmd, AckSaid
    <3> HIDE DEF first, rest
    <3> QED BY <2>3, <3>3, <3>4, Concat
  <2>5. CASE HandleSchedule \/ ClockSync
    <3>1. <<StatusNow>> \in Seq(Messages)
      BY <1>1, MessageTypes, ShortQueue DEF TypeOK, StatusNow
    <3> QED BY <2>3, <2>5, <3>1 DEF HandleSchedule, ClockSync
  <2>6. CASE Fire
    <3>1. Report(now') \in Messages /\ Status(out', dropped') \in Messages
      BY <1>1, <2>6, NextOccurrence, MessageTypes DEF TypeOK, Fire
    <3>2. <<Report(now'), Status(out', dropped')>> \in Seq(Messages)
      BY <3>1, ShortQueue
    <3> QED BY <2>3, <2>6, <3>2 DEF Fire
  <2>7. ASSUME NEW n \in 1..MaxQueue, Flush(n) PROVE ToSet(up) \subseteq ToSet(up')
    <3> DEFINE sent == Reports(SubSeq(queue, 1, n))
    <3>1. SubSeq(queue, 1, n) \in Seq(Occ)
      BY <2>7, Split DEF TypeOK, Flush
    <3>2. sent \in Seq(Messages)
      BY <3>1, ReportsOf
    <3>3. Emit(sent)
      BY <2>7 DEF Flush
    <3> HIDE DEF sent
    <3> QED BY <2>3, <3>2, <3>3
  <2>8. CASE Miss \/ Boot \/ Prime
    BY <2>8 DEF Miss, Boot, Prime
  <2> QED BY <2>1, <2>2, <2>4, <2>5, <2>6, <2>7, <2>8 DEF UnitStep
<1>3. handlers' = handlers
  BY DEF UnitStep, HandleCmd, HandleSchedule, Fire, Miss, TimeFrame, Heartbeat, Connect, Boot,
         ClockSync, Prime, Flush, UnitFrame, server
<1> QED BY <1>2, <1>3 DEF OnTheWay

\* A full queue gives its head up, and says so; no other report leaves it.
LEMMA EnqueuedKeeps ==
    ASSUME TypeOK, NEW k \in Occ, Enqueued(k)
    PROVE  ToSet(queue) \union discarded \union {k} \subseteq ToSet(queue') \union discarded'
<1>1. queue \in Seq(Occ) /\ Len(queue) \in Nat /\ MaxQueue \in Nat \ {0}
  BY ChannelAssumption DEF TypeOK
<1>2. CASE Len(queue) >= MaxQueue
  <2>1. queue # <<>>
    BY <1>1, <1>2
  <2>2. Tail(queue) \in Seq(Occ) /\ ToSet(queue) = {Head(queue)} \union ToSet(Tail(queue))
    BY <1>1, <2>1, HeadTail
  <2> DEFINE t == Tail(queue)
  <2>3. t \in Seq(Occ)
    BY <2>2
  <2> HIDE DEF t
  <2>4. ToSet(Append(t, k)) = ToSet(t) \union {k}
    BY <2>3, Appended
  <2> QED BY <1>2, <2>2, <2>4 DEF Enqueued, t
<1>3. CASE ~(Len(queue) >= MaxQueue)
  <2>1. ToSet(Append(queue, k)) = ToSet(queue) \union {k}
    BY <1>1, Appended
  <2> QED BY <1>3, <2>1 DEF Enqueued
<1> QED BY <1>2, <1>3

\* The unit switches: its report is on its way, in the queue, or swallowed by
\* a line that is dead.
LEMMA FireAccounts ==
    ASSUME TypeOK, Fire
    PROVE  Accounted \subseteq Accounted' /\ now' \in Accounted'
<1>1. /\ now' \in Occ /\ ReportExec(now') /\ UNCHANGED <<log, refused>>
      /\ Emit(<<Report(now'), Status(out', dropped')>>)
  BY NextOccurrence DEF Fire, NextDue, TimeFrame, server
<1>2. Reported(OnTheWay) \subseteq Reported(OnTheWay')
  BY UnitSays DEF UnitStep, Reported
<1>3. CASE conn = "down"
  <2>1. Enqueued(now') /\ lost' = lost
    BY <1>1, <1>3 DEF ReportExec
  <2> QED BY <1>1, <1>2, <2>1, EnqueuedKeeps DEF Accounted
<1>4. CASE conn # "down"
  <2>1. UNCHANGED <<queue, discarded>> /\ lost' = lost \union Swallowed(<<Report(now')>>)
    BY <1>1, <1>4 DEF ReportExec
  <2>2. now' \in Reported(OnTheWay)' \/ now' \in lost'
    <3> DEFINE r == Report(now')
               t == Status(out', dropped')
    <3>1. TypeOK'
      BY NextType DEF Next, UnitStep
    <3>2. r \in Messages /\ t \in Messages
      BY <1>1, <3>1, MessageTypes DEF TypeOK, Fire
    <3>3. <<r, t>> \in Seq(Messages) /\ ToSet(<<r, t>>) = {r, t} /\ ToSet(<<r>>) = {r}
      BY <3>2, ShortQueue
    <3>4. CASE Heard
      <4>1. r \in ToSet(up')
        BY <1>1, <3>3, <3>4, EmitType
      <4> QED BY <1>1, <4>1 DEF Reported, OnTheWay
    <3>5. CASE ~Heard
      BY <1>1, <2>1, <3>3, <3>5 DEF Swallowed, Reported
    <3> QED BY <3>4, <3>5
  <2> QED BY <1>1, <1>2, <2>1, <2>2 DEF Accounted
<1> QED BY <1>3, <1>4

\* The reports that are sent from the queue arrive, or are swallowed.
LEMMA FlushAccounts ==
    ASSUME TypeOK, NEW n \in 1..MaxQueue, Flush(n)
    PROVE  Accounted \subseteq Accounted'
<1> DEFINE first == SubSeq(queue, 1, n)
           sent == Reports(first)
<1>1. queue \in Seq(Occ) /\ n \in 1..Len(queue)
  BY DEF TypeOK, Flush
<1>2. first \in Seq(Occ) /\ ToSet(queue) = ToSet(first) \union ToSet(queue')
  BY <1>1, Split DEF Flush
<1>3. Reported(OnTheWay) \subseteq Reported(OnTheWay')
  BY UnitSays DEF UnitStep, Reported
<1>4. /\ UNCHANGED <<log, refused, discarded>>
      /\ Emit(sent) /\ lost' = lost \union Swallowed(sent)
  BY DEF Flush, UnitFrame, server
<1> HIDE DEF first
<1>5. sent \in Seq(Messages) /\ \A k \in ToSet(first) : k \in Occ /\ Report(k) \in ToSet(sent)
  <2>1. ToSet(first) \subseteq Occ
    BY <1>2, Holds
  <2> QED BY <1>2, <2>1, ReportsOf
<1> HIDE DEF sent
<1>6. ToSet(first) \subseteq Reported(OnTheWay') \union lost'
  <2>1. CASE Heard
    <3>1. ToSet(sent) \subseteq ToSet(up')
      BY <1>4, <1>5, <2>1, EmitType
    <3> QED BY <1>5, <3>1 DEF Reported, OnTheWay
  <2>2. CASE ~Heard
    BY <1>4, <1>5, <2>2 DEF Swallowed, Reported
  <2> QED BY <2>1, <2>2
<1> QED BY <1>2, <1>3, <1>4, <1>6 DEF Accounted

\* A cut of the power, a broken line or link and a crash take reports with
\* them only out of their own hands.
LEMMA TroubleAccounts ==
    ASSUME TypeOK, NothingWaits, Trouble
    PROVE  Accounted \subseteq Accounted' /\ fired' \ fired \subseteq Accounted'
<1>1. UNCHANGED <<log, refused, queue, discarded>> /\ lost \subseteq lost'
  BY DEF Trouble, PowerCut, CutWhileFiring, CutWhileQueueing, CutWhileFlushing, DarkFrame, LineDies,
         NoticeDead, LinkBreaks, Crash, Restart, NetFrame, server, flash
<1>2. fired' \ fired \subseteq lost'
  BY DEF Trouble, PowerCut, CutWhileFiring, CutWhileQueueing, CutWhileFlushing, DarkFrame, LineDies,
         NoticeDead, LinkBreaks, Crash, Restart, NetFrame
<1>3. CASE LinkBreaks \/ Crash
  <2>1. Reported(OnTheWay) \subseteq Reported(OnTheWay') \union lost'
    <3>1. CASE LinkBreaks
      <4>1. lost' = lost \union Reported(ToSet(up)) /\ handlers' = handlers
        BY <3>1 DEF LinkBreaks, server
      <4> QED BY <4>1 DEF Reported, OnTheWay
    <3>2. CASE Crash
      BY <3>2 DEF Crash, Reported, OnTheWay
    <3> QED BY <1>3, <3>1, <3>2
  <2> QED BY <1>1, <1>2, <2>1 DEF Accounted
<1>4. CASE ~(LinkBreaks \/ Crash)
  <2>1. handlers' = handlers
    BY <1>4 DEF Trouble, PowerCut, CutWhileFiring, CutWhileQueueing, CutWhileFlushing, DarkFrame,
                LineDies, NoticeDead, Restart, server
  <2>2. ToSet(up) \subseteq ToSet(up')
    <3>1. ToSet(up) \subseteq ToSet(up \o Dying)
      BY DyingType, Concat DEF TypeOK
    <3>2. ToSet(up) \subseteq ToSet(up \o Reports(queue) \o Dying)
      <4> DEFINE r == Reports(queue)
                 u == up \o r
      <4>1. r \in Seq(Messages)
        BY ReportsOf DEF TypeOK
      <4> HIDE DEF r
      <4>2. u \in Seq(Messages) /\ ToSet(u) = ToSet(up) \union ToSet(r)
        BY <4>1, Concat DEF TypeOK
      <4> HIDE DEF u
      <4>3. ToSet(u \o Dying) = ToSet(u) \union ToSet(Dying)
        BY <4>2, DyingType, Concat
      <4> QED BY <4>2, <4>3 DEF u, r
    <3>3. Restart => ToSet(up) = {}
      BY ShortQueue DEF Restart, NothingWaits
    <3>4. \/ up' = up \/ up' = up \o Dying \/ up' = up \o Reports(queue) \o Dying
          \/ Restart
      BY <1>4 DEF Trouble, PowerCut, CutWhileFiring, CutWhileQueueing, CutWhileFlushing, LineDies,
                  NoticeDead
    <3> QED BY <3>1, <3>2, <3>3, <3>4
  <2>3. Reported(OnTheWay) \subseteq Reported(OnTheWay')
    BY <2>1, <2>2 DEF OnTheWay, Reported
  <2> QED BY <1>1, <1>2, <2>3 DEF Accounted
<1> QED BY <1>3, <1>4

\* The steps of calls and messages.
LEMMA ServerAccounts ==
    ASSUME TypeOK, ServerStep
    PROVE  Accounted \subseteq Accounted'
<1>1. CASE \E o \in Orders : Ask(o) \/ CallStep(o) \/ PublishFails(o)
  <2>1. \E o \in Orders : \E pc : CallFrame(o, pc)
    BY <1>1 DEF Ask, CallStep, Offline, Publish, PublishFails, Mark, Timeout
  <2> QED BY <2>1 DEF CallFrame, flash, history, Accounted, OnTheWay
<1>2. CASE Receive
  <2>1. ToSet(up) = {Head(up)} \union ToSet(up')
    BY <1>2, HeadTail DEF TypeOK, Receive
  <2>2. OnTheWay \subseteq OnTheWay'
    <3>1. PICK n : handlers' = handlers \union {Received(Head(up), n)}
      BY <1>2 DEF Receive
    <3> QED BY <2>1, <3>1 DEF Received, OnTheWay
  <2>3. UNCHANGED <<log, refused, queue, discarded, lost>>
    BY <1>2 DEF Receive, HandlerFrame, flash, history
  <2> QED BY <2>2, <2>3 DEF Accounted, Reported
<1>3. CASE HandlerStep
  BY <1>3, HandlerAccounts DEF HandlerStep
<1> QED BY <1>1, <1>2, <1>3 DEF ServerStep

\* Nothing that is accounted for is ever forgotten, and what the unit
\* switches for is accounted for.
LEMMA NextAccounts ==
    ASSUME TypeOK, NothingWaits, [Next]_vars
    PROVE  Accounted \subseteq Accounted' /\ fired' \ fired \subseteq Accounted'
<1>1. CASE ServerStep
  BY <1>1, ServerAccounts, ServerLeaves DEF history
<1>2. CASE Fire
  <2>1. fired' = fired \union {now'}
    BY <1>2 DEF Fire
  <2> QED BY <1>2, <2>1, FireAccounts
<1>3. ASSUME NEW n \in 1..MaxQueue, Flush(n)
      PROVE  Accounted \subseteq Accounted' /\ fired' \ fired \subseteq Accounted'
  BY <1>3, FlushAccounts DEF Flush
<1>4. CASE UnitStep /\ ~Fire /\ ~\E n \in 1..MaxQueue : Flush(n)
  <2>1. UNCHANGED <<log, refused, queue, discarded, lost, fired>>
    BY <1>4 DEF UnitStep, HandleCmd, HandleSchedule, Miss, TimeFrame, Heartbeat, Connect, Boot,
                ClockSync, Prime, UnitFrame, server, flash, history
  <2> QED BY <1>4, <2>1, UnitSays DEF Accounted, Reported
<1>5. CASE Trouble
  BY <1>5, TroubleAccounts
<1>6. CASE UNCHANGED vars
  BY <1>6 DEF vars, server, flash, history, Accounted, OnTheWay
<1> QED BY <1>1, <1>2, <1>3, <1>4, <1>5, <1>6 DEF Next, UnitStep

\* What is pushed out of the queue is counted.
LEMMA NextCounted ==
    ASSUME TypeOK, Cardinality(discarded) <= dropped, [Next]_vars
    PROVE  Cardinality(discarded') <= dropped'
<1>1. IsFiniteSet(discarded) /\ Cardinality(discarded) \in Nat /\ dropped \in Nat
  <2>1. IsFiniteSet(Occ)
    BY FS_Interval, ChannelAssumption DEF Occ
  <2> QED BY <2>1, FS_Subset, FS_CardinalityType DEF TypeOK
<1>2. \/ UNCHANGED <<dropped, discarded>>
      \/ dropped' = dropped + 1 /\ discarded' = discarded
      \/ dropped' = dropped + 1 /\ discarded' = discarded \union {Head(queue)}
  <2>1. CASE ServerStep
    BY <2>1, ServerLeaves DEF flash, history
  <2>2. CASE UnitStep
    BY <2>2 DEF UnitStep, HandleCmd, HandleSchedule, Fire, ReportExec, Enqueued, Miss, Heartbeat,
                Connect, Boot, ClockSync, Prime, Flush, flash, history
  <2>3. CASE Trouble
    BY <2>3 DEF Trouble, PowerCut, CutWhileFiring, CutWhileQueueing, CutWhileFlushing, LineDies,
                NoticeDead, LinkBreaks, Crash, Restart, NetFrame, flash
  <2>4. CASE UNCHANGED vars
    BY <2>4 DEF vars, flash, history
  <2> QED BY <2>1, <2>2, <2>3, <2>4 DEF Next
<1>3. /\ Cardinality(discarded \union {Head(queue)}) \in Nat
      /\ Cardinality(discarded \union {Head(queue)}) <= Cardinality(discarded) + 1
  BY <1>1, FS_AddElement
<1>4. CASE UNCHANGED <<dropped, discarded>>
  BY <1>4
<1>5. CASE dropped' = dropped + 1 /\ discarded' = discarded
  BY <1>1, <1>5
<1>6. CASE dropped' = dropped + 1 /\ discarded' = discarded \union {Head(queue)}
  BY <1>1, <1>3, <1>6
<1> QED BY <1>2, <1>4, <1>5, <1>6

\* No occurrence that the unit switched for is forgotten by the queue in
\* flash, the broker and ingestExecReport together, for a queue of any length
\* and any number of faults; and execdrop counts what the queue pushed out.
THEOREM ReportsAccountedFor == Spec => []ReportsAccounted
<1> DEFINE Inv == /\ NothingWaits /\ fired \subseteq Accounted
                  /\ Cardinality(discarded) <= dropped
<1>1. Init => Inv
  <2>1. Init => Cardinality(discarded) <= dropped
    BY FS_EmptySet DEF Init
  <2> QED BY <2>1 DEF Init, NothingWaits
<1>2. TypeOK /\ Inv /\ [Next]_vars => Inv'
  BY NextWaits, NextAccounts, NextCounted
<1>3. Inv => ReportsAccounted
  BY DEF Accounted, ReportsAccounted
<1> HIDE DEF Inv
<1> QED BY <1>1, <1>2, <1>3, TypeCorrect, PTL DEF Spec
=============================================================================
