------------------------ MODULE ClientControl_proofs ------------------------
(***************************************************************************)
(* Proofs about the client's side of the control channels: ClientControl,  *)
(* for any services and tasks (no control channel task escapes its         *)
(* handle), and ControlLoop, the loop inside such a task, for any health   *)
(* interval, heartbeat timeout, buffer and length of a command (when the   *)
(* timeout strikes, and that commands read in parts are neither lost nor   *)
(* made up).                                                               *)
(***************************************************************************)
EXTENDS ClientControl, ControlLoop, FiniteSetTheorems, FunctionTheorems, SequenceTheorems, TLAPS

\* Types of the handles, the tasks and the server's side.
THEOREM TypeCorrect == Spec => []TypeOK
<1>1. Init => TypeOK
  BY ClientAssumption DEF Init, TypeOK, Alive
<1>2. TypeOK /\ [Next]_vars => TypeOK'
  <2> SUFFICES ASSUME TypeOK, [Next]_vars PROVE TypeOK'
    OBVIOUS
  <2> USE ClientAssumption DEF TypeOK, Alive
  <2>1. ASSUME NEW s \in Service, NEW t \in Task, AddService(s, t) PROVE TypeOK'
    BY <2>1 DEF AddService
  <2>2. ASSUME NEW s \in Service, DeleteService(s) PROVE TypeOK'
    BY <2>2 DEF DeleteService
  <2>3. CASE ShutdownAll
    <3>1. running' \in BOOLEAN
      BY <2>3, Zenon DEF ShutdownAll
    <3>2. signal' \subseteq Task
      BY <2>3 DEF ShutdownAll
    <3> QED
      BY <2>3, <3>1, <3>2 DEF ShutdownAll
  <2>4. ASSUME NEW s \in Service, ServerDrops(s) PROVE TypeOK'
    BY <2>4 DEF ServerDrops, clientVars
  <2>5. ASSUME NEW t \in Task, ServerAccepts(t) \/ ReadAck(t) \/ TakeShutdown(t) \/ BackoffOver(t)
        PROVE  TypeOK'
    BY <2>5 DEF ServerAccepts, ReadAck, TakeShutdown, BackoffOver, Goto, clientVars
  <2>6. ASSUME NEW t \in Task, ConnectFails(t) \/ ReadFails(t) \/ HealthFails(t) \/ HealthBlocks(t)
        PROVE  TypeOK'
    BY <2>6 DEF ConnectFails, ReadFails, HealthFails, HealthBlocks, Retry, Goto, clientVars
  <2>7. ASSUME NEW t \in Task, ConnectAborts(t) PROVE TypeOK'
    <3>1. running' \in BOOLEAN
      BY <2>7, Zenon DEF ConnectAborts
    <3> QED
      BY <2>7, <3>1 DEF ConnectAborts
  <2>8. CASE UNCHANGED vars
    BY <2>8 DEF vars, clientVars
  <2> QED
    BY <2>1, <2>2, <2>3, <2>4, <2>5, <2>6, <2>7, <2>8 DEF Next, TaskNext
<1> QED
  BY <1>1, <1>2, PTL DEF Spec

\* NoOrphans with what it needs: a handle's task has been started, for the
\* handle's service, and tasks that never ran have not been signalled.
HandlesInv ==
    /\ \A s \in Service : handles[s] # NoTask => svc[handles[s]] = s /\ pc[handles[s]] # "none"
    /\ \A t \in Task : pc[t] = "none" => t \notin signal
    /\ \A t \in Task : pc[t] # "none" => svc[t] \in Service
    /\ NoOrphans

\* Every step of the client, its tasks and the server keeps the handles right.
LEMMA HandlesInvStep == TypeOK /\ HandlesInv /\ [Next]_vars => HandlesInv'
<1> SUFFICES ASSUME TypeOK, HandlesInv, [Next]_vars PROVE HandlesInv'
  OBVIOUS
<1> USE ClientAssumption DEF TypeOK, HandlesInv, NoOrphans, Alive
<1>1. ASSUME NEW s \in Service, NEW t \in Task, AddService(s, t) PROVE HandlesInv'
  BY <1>1 DEF AddService
<1>2. ASSUME NEW s \in Service, DeleteService(s) PROVE HandlesInv'
  BY <1>2 DEF DeleteService
<1>3. CASE ShutdownAll
  BY <1>3 DEF ShutdownAll
<1>4. ASSUME NEW s \in Service, ServerDrops(s) PROVE HandlesInv'
  BY <1>4 DEF ServerDrops, clientVars
<1>5. ASSUME NEW t \in Task, ServerAccepts(t) \/ ReadAck(t) \/ TakeShutdown(t) \/ BackoffOver(t)
      PROVE  HandlesInv'
  BY <1>5 DEF ServerAccepts, ReadAck, TakeShutdown, BackoffOver, Goto, clientVars
<1>6. ASSUME NEW t \in Task, ConnectFails(t) \/ ReadFails(t) \/ HealthFails(t) \/ HealthBlocks(t)
      PROVE  HandlesInv'
  BY <1>6 DEF ConnectFails, ReadFails, HealthFails, HealthBlocks, Retry, Goto, clientVars
<1>7. ASSUME NEW t \in Task, ConnectAborts(t) PROVE HandlesInv'
  BY <1>7 DEF ConnectAborts
<1>8. CASE UNCHANGED vars
  BY <1>8 DEF vars, clientVars
<1> QED
  BY <1>1, <1>2, <1>3, <1>4, <1>5, <1>6, <1>7, <1>8 DEF Next, TaskNext

\* A running task is the one of its service's handle, or has been told to stop.
THEOREM TasksAreHeld == Spec => []NoOrphans
<1>1. Init => HandlesInv
  BY ClientAssumption DEF Init, HandlesInv, NoOrphans, Alive
<1>2. HandlesInv => NoOrphans
  BY DEF HandlesInv
<1> QED
  BY <1>1, <1>2, HandlesInvStep, TypeCorrect, PTL DEF Spec
-----------------------------------------------------------------------------
(* ControlLoop: time *)

\* The types but for the sign of owed, which CountInv gives.
LoopTypes ==
    /\ loop \in {"select", "sending"} \cup LoopEnds
    /\ age \in 0..SilenceCap /\ due \in 1..HealthPeriod /\ silence \in 0..SilenceCap
    /\ unread \in 0..BufCap
    /\ queue \in Seq(0..1) /\ Len(queue) <= QueueCap * CmdLen
    /\ got \in Seq(0..1) /\ Len(got) < CmdLen
    /\ owed \in Int /\ owed <= OwedCap
    /\ heartbeat_timeout \in HeartbeatTimeouts
LoopFlags == {pending, cut, open, handle} \subseteq BOOLEAN

\* A command is CmdLen bytes.
LEMMA EncodeType ==
    ASSUME NEW cmd
    PROVE  /\ Encode(cmd) \in Seq(0..1) /\ Len(Encode(cmd)) = CmdLen
           /\ \A i \in 1..CmdLen : Encode(cmd)[i] = IF i = 1 /\ cmd = "heartbeat" THEN 1 ELSE 0
<1> DEFINE f(i) == IF i = 1 /\ cmd = "heartbeat" THEN 1 ELSE 0
<1>1. Encode(cmd) = [i \in 1..CmdLen |-> f(i)]
  BY DEF Encode
<1>2. CmdLen \in Nat /\ \A i \in 1..CmdLen : f(i) \in 0..1
  BY LoopAssumption
<1> QED
  <2>1. \A i \in 1..CmdLen : Encode(cmd)[i] = f(i)
    BY <1>1
  <2>2. Encode(cmd) \in Seq(0..1) /\ Len(Encode(cmd)) = CmdLen
    <3> HIDE DEF f
    <3> QED
      BY <1>1, <1>2
  <2> QED
    BY <2>1, <2>2

\* Every step of the loop keeps the types.
LEMMA LoopTypesStep == LoopTypes /\ [LoopNext]_loopVars => LoopTypes'
<1> SUFFICES ASSUME LoopTypes, [LoopNext]_loopVars PROVE LoopTypes'
  OBVIOUS
<1> USE LoopAssumption DEF LoopTypes, LoopEnds, wire
<1>1. CASE HealthTick
  BY <1>1 DEF HealthTick
<1>2. CASE HealthSent \/ HealthSendFails \/ CmdReadFails \/ HeartbeatTimesOut \/ Shutdown
  <2>1. CASE HealthSent
    <3>1. unread' = unread + 1 /\ unread < BufCap /\ loop' = "select" /\ age' = 0
      BY <2>1 DEF HealthSent
    <3>2. UNCHANGED <<due, silence, queue, got, owed, heartbeat_timeout>>
      BY <2>1 DEF HealthSent
    <3> QED
      BY <3>1, <3>2
  <2>2. CASE HealthSendFails
    BY <2>2 DEF HealthSendFails
  <2>3. CASE CmdReadFails \/ HeartbeatTimesOut
    BY <2>3 DEF CmdReadFails, HeartbeatTimesOut
  <2>4. CASE Shutdown
    BY <2>4 DEF Shutdown
  <2> QED
    BY <1>2, <2>1, <2>2, <2>3, <2>4
<1>3. ASSUME NEW n \in 1..(CmdLen - 1), ReadPart(n) PROVE LoopTypes'
  <2>1. /\ SubSeq(queue, 1, n) \in Seq(0..1) /\ Len(SubSeq(queue, 1, n)) = n
        /\ SubSeq(queue, n + 1, Len(queue)) \in Seq(0..1)
        /\ Len(SubSeq(queue, n + 1, Len(queue))) = Len(queue) - n
    BY <1>3 DEF ReadPart
  <2>2. got' \in Seq(0..1) /\ Len(got') = Len(got) + n
    BY <1>3, <2>1 DEF ReadPart
  <2> QED
    BY <1>3, <2>1, <2>2 DEF ReadPart
<1>4. CASE ReadCmd
  <2>1. Missing \in 1..CmdLen /\ Missing <= Len(queue)
    BY <1>4 DEF ReadCmd, Missing
  <2>2. /\ SubSeq(queue, Missing + 1, Len(queue)) \in Seq(0..1)
        /\ Len(SubSeq(queue, Missing + 1, Len(queue))) = Len(queue) - Missing
    BY <2>1
  <2>3. owed' \in Int /\ owed' <= OwedCap
    BY <1>4 DEF ReadCmd
  <2> QED
    BY <1>4, <2>1, <2>2, <2>3 DEF ReadCmd
<1>5. ASSUME NEW cmd \in Cmds, ServerWrites(cmd) PROVE LoopTypes'
  <2>1. Encode(cmd) \in Seq(0..1) /\ Len(Encode(cmd)) = CmdLen
    BY EncodeType
  <2>2. queue' \in Seq(0..1) /\ Len(queue') = Len(queue) + CmdLen
    BY <1>5, <2>1, ConcatProperties DEF ServerWrites
  <2>3. Len(queue') <= QueueCap * CmdLen
    BY <1>5, <2>2 DEF ServerWrites
  <2>4. owed' \in Int /\ owed' <= OwedCap
    BY <1>5 DEF ServerWrites
  <2> QED
    BY <1>5, <2>2, <2>3, <2>4 DEF ServerWrites
<1>6. CASE ConnectionFails \/ HandleDropped
  BY <1>6 DEF ConnectionFails, HandleDropped
<1>7. CASE TimePasses
  BY <1>7 DEF TimePasses, Capped
<1>8. CASE UNCHANGED loopVars
  BY <1>8 DEF loopVars
<1> QED
  BY <1>1, <1>2, <1>3, <1>4, <1>5, <1>6, <1>7, <1>8 DEF LoopNext, Client

\* The types hold from the start.
LEMMA LoopTypesHold == LoopSpec => [](LoopTypes /\ LoopFlags)
<1>1. LoopInit => LoopTypes
  <2>1. 0 <= QueueCap * CmdLen
    BY LoopAssumption
  <2> QED
    BY <2>1, LoopAssumption DEF LoopInit, LoopTypes, LoopEnds
<1>2. LoopInit => LoopFlags
  BY DEF LoopInit, LoopFlags
<1>3. LoopFlags /\ [LoopNext]_loopVars => LoopFlags'
  BY Zenon
  DEF LoopFlags, LoopNext, Client, HealthTick, HealthSent, HealthSendFails, ReadPart, ReadCmd,
      CmdReadFails, HeartbeatTimesOut, Shutdown, ServerWrites, ConnectionFails, HandleDropped,
      TimePasses, loopVars, wire
<1> QED
  BY <1>1, <1>2, <1>3, LoopTypesStep, PTL DEF LoopSpec

\* A sleep never runs for longer than the server has been silent: both begin
\* anew with a command, and the sleep begins anew more often.
SleepInv == age <= silence /\ (loop = "timed_out" => age >= heartbeat_timeout)

\* The heartbeat test of run raises no false alarm, whatever the health interval
\* and the timeout.
THEOREM AlarmsAreTrue == LoopSpec => []NoFalseAlarm
<1>1. LoopInit => SleepInv
  BY DEF LoopInit, SleepInv
<1>2. LoopTypes /\ SleepInv /\ [LoopNext]_loopVars => SleepInv'
  <2> SUFFICES ASSUME LoopTypes, SleepInv, [LoopNext]_loopVars PROVE SleepInv'
    OBVIOUS
  <2> USE LoopAssumption DEF LoopTypes, SleepInv
  <2>1. CASE HealthTick \/ HealthSendFails \/ CmdReadFails \/ Shutdown
    BY <2>1 DEF HealthTick, HealthSendFails, CmdReadFails, Shutdown
  <2>2. CASE HealthSent
    BY <2>2 DEF HealthSent
  <2>3. CASE HeartbeatTimesOut
    BY <2>3 DEF HeartbeatTimesOut
  <2>4. CASE ReadCmd
    BY <2>4 DEF ReadCmd
  <2>5. CASE TimePasses
    BY <2>5 DEF TimePasses, Idle, Capped
  <2>6. CASE UNCHANGED <<loop, age, silence, heartbeat_timeout>>
    BY <2>6
  <2> QED
    BY <2>1, <2>2, <2>3, <2>4, <2>5, <2>6
    DEF LoopNext, Client, ReadPart, ServerWrites, ConnectionFails, HandleDropped, loopVars
<1>3. LoopTypes /\ SleepInv => NoFalseAlarm
  BY LoopAssumption DEF LoopTypes, SleepInv, NoFalseAlarm
<1> QED
  BY <1>1, <1>2, <1>3, LoopTypesHold, PTL DEF LoopSpec

\* A sleep is over no later than the next health tick, which begins another.
TickInv ==
    heartbeat_timeout > HealthPeriod =>
        /\ loop # "timed_out"
        /\ loop = "select" => age <= HealthPeriod /\ (~pending => age + due <= HealthPeriod)

\* With a timeout above the health interval, the shipped values among them, the
\* heartbeat test of run never ends the loop.
THEOREM TimeoutIsDisarmed == LoopSpec => []HealthTicksDisarmTimeout
<1>1. LoopInit => TickInv
  BY LoopAssumption DEF LoopInit, TickInv
<1>2. LoopTypes /\ TickInv /\ [LoopNext]_loopVars => TickInv'
  <2> SUFFICES ASSUME LoopTypes, TickInv, [LoopNext]_loopVars PROVE TickInv'
    OBVIOUS
  <2> USE LoopAssumption DEF LoopTypes, TickInv
  <2>1. CASE HealthTick
    BY <2>1 DEF HealthTick
  <2>2. CASE HealthSent
    BY <2>2 DEF HealthSent
  <2>3. CASE HealthSendFails \/ CmdReadFails \/ HeartbeatTimesOut \/ Shutdown
    BY <2>3 DEF HealthSendFails, CmdReadFails, HeartbeatTimesOut, Shutdown
  <2>4. CASE ReadCmd
    BY <2>4 DEF ReadCmd
  <2>5. CASE TimePasses
    BY <2>5 DEF TimePasses, Idle, Capped
  <2>6. CASE UNCHANGED <<loop, age, due, pending, heartbeat_timeout>>
    BY <2>6
  <2> QED
    BY <2>1, <2>2, <2>3, <2>4, <2>5, <2>6
    DEF LoopNext, Client, ReadPart, ServerWrites, ConnectionFails, HandleDropped, loopVars
<1>3. TickInv => HealthTicksDisarmTimeout
  BY DEF TickInv, HealthTicksDisarmTimeout
<1> QED
  BY <1>1, <1>2, <1>3, LoopTypesHold, PTL DEF LoopSpec
-----------------------------------------------------------------------------
(* ControlLoop: counting commands *)

\* A number is a multiple of the length of a command and a remainder.
LEMMA Division ==
    ASSUME NEW n \in Nat
    PROVE  \E k \in Nat, r \in 0..(CmdLen - 1) : n = k * CmdLen + r /\ n % CmdLen = r
<1> USE LoopAssumption
<1>1. (n % CmdLen) \in 0..(CmdLen - 1) /\ n = CmdLen * (n \div CmdLen) + (n % CmdLen)
      /\ (n \div CmdLen) \in Int
  OBVIOUS
<1>2. (n \div CmdLen) >= 0
  BY <1>1
<1>3. (n \div CmdLen) \in Nat /\ n = (n \div CmdLen) * CmdLen + (n % CmdLen)
  BY <1>1, <1>2
<1> QED
  BY <1>1, <1>3, Zenon

\* And the remainder is the only one.
LEMMA Remainder ==
    ASSUME NEW k \in Nat, NEW r \in 0..(CmdLen - 1)
    PROVE  (k * CmdLen + r) % CmdLen = r
<1> USE LoopAssumption
<1>1. k * CmdLen + r \in Nat
  OBVIOUS
<1>2. PICK q \in Nat, s \in 0..(CmdLen - 1) :
        k * CmdLen + r = q * CmdLen + s /\ (k * CmdLen + r) % CmdLen = s
  BY <1>1, Division
<1>3. (k - q) * CmdLen = s - r
  BY <1>2
<1>4. k - q < 1
  BY <1>3
<1>5. k - q > -1
  BY <1>3
<1>6. k = q
  BY <1>4, <1>5
<1> QED
  BY <1>2, <1>3, <1>6

\* A command more or less does not change where the commands begin.
LEMMA RemainderShift == \A n \in Nat : (n + CmdLen) % CmdLen = n % CmdLen
<1> SUFFICES ASSUME NEW n \in Nat PROVE (n + CmdLen) % CmdLen = n % CmdLen
  OBVIOUS
<1>1. PICK k \in Nat, r \in 0..(CmdLen - 1) : n = k * CmdLen + r /\ n % CmdLen = r
  BY Division
<1>2. n + CmdLen = (k + 1) * CmdLen + r /\ k + 1 \in Nat
  BY <1>1, LoopAssumption
<1> QED
  BY <1>1, <1>2, Remainder

\* Only the multiples have no remainder, the length itself being the first.
LEMMA SmallRemainder ==
    /\ 0 % CmdLen = 0 /\ CmdLen % CmdLen = 0
    /\ \A n \in 1..(CmdLen - 1) : n % CmdLen = n
<1> USE LoopAssumption
<1>1. \A n \in 0..(CmdLen - 1) : n % CmdLen = n
  <2> SUFFICES ASSUME NEW n \in 0..(CmdLen - 1) PROVE n % CmdLen = n
    OBVIOUS
  <2>1. 0 * CmdLen + n = n
    OBVIOUS
  <2> QED
    BY <2>1, Remainder
<1>2. 1 * CmdLen + 0 = CmdLen /\ 0 \in 0..(CmdLen - 1)
  OBVIOUS
<1> QED
  BY <1>1, <1>2, Remainder

\* In a stream of whole commands the bytes that begin one are the same counted
\* from the front and from the back.
LEMMA FrontAndBack ==
    ASSUME NEW n \in Nat, n % CmdLen = 0, NEW i \in 1..n
    PROVE  i % CmdLen = 1 % CmdLen <=> (n - i + 1) % CmdLen = 0
<1> USE LoopAssumption
<1> DEFINE m == n - i + 1
<1>0. m \in Nat /\ i \in Nat /\ i + m = n + 1
  OBVIOUS
<1> HIDE DEF m
<1>1. PICK k \in Nat : n = k * CmdLen
  BY Division
<1>2. PICK a \in Nat, r \in 0..(CmdLen - 1) : i = a * CmdLen + r /\ i % CmdLen = r
  BY <1>0, Division
<1>3. PICK b \in Nat, s \in 0..(CmdLen - 1) : m = b * CmdLen + s /\ m % CmdLen = s
  BY <1>0, Division
<1>4. r + s - 1 = (k - a - b) * CmdLen
  BY <1>0, <1>1, <1>2, <1>3
<1>5. CASE CmdLen = 1
  BY <1>2, <1>3, <1>5, SmallRemainder DEF m
<1>6. CASE CmdLen > 1
  <2>1. 1 % CmdLen = 1
    BY <1>6, SmallRemainder
  <2> DEFINE j == k - a - b
  <2>2. j \in Int /\ r + s - 1 = j * CmdLen
    BY <1>4
  <2> HIDE DEF j
  <2>3. ASSUME s = 0 PROVE r = 1
    <3>1. j < 1
      BY <2>2, <2>3
    <3>2. j > -1
      BY <1>6, <2>2, <2>3
    <3> QED
      BY <2>2, <2>3, <3>1, <3>2
  <2>4. ASSUME r = 1 PROVE s = 0
    <3>1. j < 1
      BY <2>2, <2>4
    <3>2. j > -1
      BY <2>2, <2>4
    <3> QED
      BY <2>2, <2>4, <3>1, <3>2
  <2> QED
    BY <1>2, <1>3, <2>1, <2>3, <2>4 DEF m
<1> QED
  BY <1>5, <1>6

\* Among any CmdLen bytes at the front there is one that begins a command,
\* counted from the back.
LEMMA OneBegins ==
    ASSUME NEW n \in Nat, n >= CmdLen
    PROVE  \E i \in 1..CmdLen : (n - i + 1) % CmdLen = 0
<1> USE LoopAssumption
<1>1. PICK k \in Nat, r \in 0..(CmdLen - 1) : n = k * CmdLen + r
  BY Division
<1>2. n - (r + 1) + 1 = k * CmdLen + 0 /\ 0 \in 0..(CmdLen - 1) /\ r + 1 \in 1..CmdLen
  BY <1>1
<1>3. (n - (r + 1) + 1) % CmdLen = 0
  BY <1>2, Remainder
<1> QED
  BY <1>2, <1>3

\* Bytes may be joined in any order.
LEMMA BytesAssociate == \A s, t, u \in Seq(0..1) : (s \o t) \o u = s \o (t \o u)
<1> SUFFICES ASSUME NEW s \in Seq(0..1), NEW t \in Seq(0..1), NEW u \in Seq(0..1)
             PROVE  (s \o t) \o u = s \o (t \o u)
  OBVIOUS
<1> QED
  BY ConcatAssociative

\* What the client has yet to make sense of, and the bytes of it that begin a
\* command to create a channel.  They are counted from the back, where the
\* server appends whole commands, because a read that is cut loses bytes at the
\* front.
Stream == got \o queue
Begins(s, i) == (Len(s) - i + 1) % CmdLen = 0
Creates(s) == {i \in 1..Len(s) : Begins(s, i) /\ s[i] = 0}

\* The bytes that begin a command are finitely many.
LEMMA CreatesFinite ==
    ASSUME NEW s \in Seq(0..1)
    PROVE  IsFiniteSet(Creates(s)) /\ Creates(s) \subseteq 1..Len(s) /\ Cardinality(Creates(s)) \in Nat
<1>1. IsFiniteSet(1..Len(s)) /\ Creates(s) \subseteq 1..Len(s)
  BY FS_Interval DEF Creates
<1> QED
  BY <1>1, FS_Subset, FS_CardinalityType

\* Bytes dropped at the front take the commands that begin there with them, and
\* no others.
LEMMA DropFront ==
    ASSUME NEW s \in Seq(0..1), NEW t \in Seq(0..1), NEW k \in 0..Len(s),
           Len(t) = Len(s) - k, \A i \in 1..Len(t) : t[i] = s[i + k]
    PROVE  /\ \A i \in 1..Len(t) : Begins(t, i) <=> Begins(s, i + k)
           /\ Cardinality(Creates(t)) = Cardinality({i \in Creates(s) : i > k})
<1>1. \A i \in 1..Len(t) : Len(t) - i + 1 = Len(s) - (i + k) + 1
  OBVIOUS
<1>2. \A i \in 1..Len(t) : Begins(t, i) <=> Begins(s, i + k)
  BY <1>1 DEF Begins
<1> DEFINE Rest == {i \in Creates(s) : i > k}
           Shift == [i \in Creates(t) |-> i + k]
<1>3. \A i \in Creates(t) : i \in 1..Len(t) /\ i + k \in Rest
  <2> SUFFICES ASSUME NEW i \in Creates(t) PROVE i \in 1..Len(t) /\ i + k \in Rest
    OBVIOUS
  <2>1. i \in 1..Len(t) /\ Begins(t, i) /\ t[i] = 0
    BY DEF Creates
  <2>2. i + k \in 1..Len(s) /\ i + k > k /\ Begins(s, i + k) /\ s[i + k] = 0
    BY <1>2, <2>1
  <2> QED
    BY <2>1, <2>2 DEF Creates
<1>4. \A j \in Rest : j - k \in Creates(t) /\ (j - k) + k = j
  <2> SUFFICES ASSUME NEW j \in Rest PROVE j - k \in Creates(t) /\ (j - k) + k = j
    OBVIOUS
  <2>1. j \in 1..Len(s) /\ Begins(s, j) /\ s[j] = 0 /\ j > k
    BY DEF Creates
  <2>2. j - k \in 1..Len(t) /\ (j - k) + k = j
    BY <2>1
  <2>3. Begins(t, j - k) /\ t[j - k] = 0
    BY <1>2, <2>1, <2>2
  <2> QED
    BY <2>2, <2>3 DEF Creates
<1>5. Shift \in [Creates(t) -> Rest]
  BY <1>3
<1>6. \A a, b \in Creates(t) : Shift[a] = Shift[b] => a = b
  <2> SUFFICES ASSUME NEW a \in Creates(t), NEW b \in Creates(t), Shift[a] = Shift[b] PROVE a = b
    OBVIOUS
  <2>1. a \in Nat /\ b \in Nat /\ a + k = b + k
    BY <1>3
  <2> QED
    BY <2>1
<1>7. \A j \in Rest : \E i \in Creates(t) : Shift[i] = j
  BY <1>4
<1>8. Shift \in Bijection(Creates(t), Rest)
  <2> HIDE DEF Shift, Rest
  <2> QED
    BY <1>5, <1>6, <1>7, Fun_IsBij
<1>9. ExistsBijection(Creates(t), Rest)
  <2> HIDE DEF Shift, Rest
  <2> QED
    BY <1>8 DEF ExistsBijection
<1>10. Cardinality(Rest) = Cardinality(Creates(t))
  <2> HIDE DEF Shift, Rest
  <2> QED
    BY <1>9, CreatesFinite, FS_Bijection
<1> QED
  BY <1>2, <1>10

\* A command at the back adds one to the commands to create a channel if it is
\* one, and leaves the others where they are.
LEMMA AddBack ==
    ASSUME NEW s \in Seq(0..1), NEW cmd
    PROVE  LET t == s \o Encode(cmd)
           IN  /\ t \in Seq(0..1) /\ Len(t) = Len(s) + CmdLen
               /\ \A i \in 1..Len(s) : t[i] = s[i] /\ (Begins(t, i) <=> Begins(s, i))
               /\ \A i \in (Len(s) + 1)..Len(t) :
                    /\ Begins(t, i) <=> i = Len(s) + 1
                    /\ t[i] = IF i = Len(s) + 1 /\ cmd = "heartbeat" THEN 1 ELSE 0
               /\ cmd # "heartbeat" => Creates(t) = Creates(s) \cup {Len(s) + 1}
               /\ cmd = "heartbeat" => Creates(t) = Creates(s)
<1> DEFINE e == Encode(cmd)
           t == s \o e
<1>1. e \in Seq(0..1) /\ Len(e) = CmdLen
      /\ \A i \in 1..CmdLen : e[i] = IF i = 1 /\ cmd = "heartbeat" THEN 1 ELSE 0
  BY EncodeType
<1> HIDE DEF e
<1>0. /\ t \in Seq(0..1) /\ Len(t) = Len(s) + Len(e)
      /\ \A i \in 1..(Len(s) + Len(e)) : t[i] = IF i <= Len(s) THEN s[i] ELSE e[i - Len(s)]
  BY <1>1, ConcatProperties
<1> HIDE DEF t
<1>2. /\ t \in Seq(0..1) /\ Len(t) = Len(s) + CmdLen
      /\ \A i \in 1..Len(s) : t[i] = s[i]
      /\ \A i \in (Len(s) + 1)..Len(t) : t[i] = e[i - Len(s)]
  BY <1>0, <1>1, LoopAssumption
<1>3. \A i \in 1..Len(s) : Begins(t, i) <=> Begins(s, i)
  <2> SUFFICES ASSUME NEW i \in 1..Len(s) PROVE Begins(t, i) <=> Begins(s, i)
    OBVIOUS
  <2>1. Len(t) - i + 1 = (Len(s) - i + 1) + CmdLen /\ Len(s) - i + 1 \in Nat
    BY <1>2, LoopAssumption
  <2> QED
    BY <2>1, RemainderShift DEF Begins
<1>4. \A i \in (Len(s) + 1)..Len(t) : Begins(t, i) <=> i = Len(s) + 1
  <2> SUFFICES ASSUME NEW i \in (Len(s) + 1)..Len(t) PROVE Begins(t, i) <=> i = Len(s) + 1
    OBVIOUS
  <2>1. CASE i = Len(s) + 1
    <3>1. Len(t) - i + 1 = CmdLen
      BY <1>2, <2>1, LoopAssumption
    <3> QED
      BY <2>1, <3>1, SmallRemainder DEF Begins
  <2>2. CASE i # Len(s) + 1
    <3>1. Len(t) - i + 1 \in 1..(CmdLen - 1)
      BY <1>2, <2>2, LoopAssumption
    <3>2. (Len(t) - i + 1) % CmdLen = Len(t) - i + 1
      BY <3>1, SmallRemainder
    <3> QED
      BY <2>2, <3>1, <3>2 DEF Begins
  <2> QED
    BY <2>1, <2>2
<1>5. \A i \in (Len(s) + 1)..Len(t) : t[i] = IF i = Len(s) + 1 /\ cmd = "heartbeat" THEN 1 ELSE 0
  BY <1>1, <1>2, LoopAssumption
<1>6. Len(s) + 1 \in (Len(s) + 1)..Len(t)
  BY <1>2, LoopAssumption
<1>7. \A i \in 1..Len(t) : i \in 1..Len(s) \/ i \in (Len(s) + 1)..Len(t)
  BY <1>2, LoopAssumption
<1>8. \A i \in 1..Len(s) : i \in 1..Len(t)
  BY <1>2, LoopAssumption
<1>9. Len(s) + 1 \in 1..Len(t)
  BY <1>2, LoopAssumption
<1>10. ASSUME cmd # "heartbeat" PROVE Creates(t) = Creates(s) \cup {Len(s) + 1}
  <2>1. t[Len(s) + 1] = 0
    BY <1>5, <1>6, <1>10
  <2> QED
    BY <1>2, <1>3, <1>4, <1>6, <1>7, <1>8, <1>9, <2>1, Zenon DEF Creates
<1>11. ASSUME cmd = "heartbeat" PROVE Creates(t) = Creates(s)
  <2>1. t[Len(s) + 1] # 0
    BY <1>5, <1>6, <1>11
  <2> QED
    BY <1>2, <1>3, <1>4, <1>7, <1>8, <2>1, Zenon DEF Creates
<1> QED
  BY <1>2, <1>3, <1>4, <1>5, <1>10, <1>11 DEF t, e

\* The client never owes less than what is asked for in the stream; and as long
\* as no read was cut the stream is whole commands, all of them known, and asks
\* for just what is owed.
Counted(s) ==
    /\ owed >= Cardinality(Creates(s))
    /\ ~cut => /\ owed = Cardinality(Creates(s))
               /\ Len(s) % CmdLen = 0
               /\ \A i \in 1..Len(s) : ~Begins(s, i) => s[i] = 0
               /\ loop # "garbled"
CountInv == Counted(Stream)

\* The stream is bytes.
LEMMA StreamType ==
    ASSUME LoopTypes
    PROVE  /\ Stream \in Seq(0..1) /\ Len(Stream) = Len(got) + Len(queue)
           /\ \A i \in 1..Len(Stream) : Stream[i] = IF i <= Len(got) THEN got[i] ELSE queue[i - Len(got)]
  BY ConcatProperties DEF LoopTypes, Stream

\* The command that read_exact completes is the front of the stream, and the
\* rest stays.
LEMMA ReceivedIsFront ==
    ASSUME LoopTypes, ReadCmd
    PROVE  /\ Len(Stream) >= CmdLen
           /\ Received \in Seq(0..1) /\ Len(Received) = CmdLen
           /\ \A i \in 1..CmdLen : Received[i] = Stream[i]
           /\ Stream' \in Seq(0..1) /\ Len(Stream') = Len(Stream) - CmdLen
           /\ \A i \in 1..Len(Stream') : Stream'[i] = Stream[i + CmdLen]
<1> USE LoopAssumption
<1>1. /\ queue \in Seq(0..1) /\ got \in Seq(0..1) /\ Len(got) < CmdLen
      /\ Missing = CmdLen - Len(got) /\ Missing \in 1..Len(queue)
      /\ queue' = SubSeq(queue, Missing + 1, Len(queue)) /\ got' = <<>>
  BY DEF LoopTypes, ReadCmd, Missing
<1>2. \A i \in 1..Len(queue) : queue[i] \in 0..1
  BY <1>1
<1> DEFINE m == Missing
           front == SubSeq(queue, 1, m)
           rest == SubSeq(queue, m + 1, Len(queue))
<1> HIDE DEF m
<1>3. m \in Int /\ Len(queue) \in Int /\ m <= Len(queue) /\ 1 <= m
  BY <1>1 DEF m
<1>4. /\ front \in Seq(0..1) /\ Len(front) = m /\ \A i \in 1..m : front[i] = queue[i]
  <2>1. \A i \in 1..m : queue[i] \in 0..1
    BY <1>2, <1>3
  <2>2. /\ front \in Seq(0..1) /\ Len(front) = m
        /\ \A i \in 1..(m - 1 + 1) : front[i] = queue[1 + i - 1]
    BY <1>3, <2>1, SubSeqProperties
  <2> HIDE DEF front
  <2> QED
    BY <1>3, <2>2
<1>5. /\ rest \in Seq(0..1) /\ Len(rest) = Len(queue) - m
      /\ \A i \in 1..Len(rest) : rest[i] = queue[i + m]
  <2>1. \A i \in (m + 1)..Len(queue) : queue[i] \in 0..1
    BY <1>2, <1>3
  <2>2. /\ rest \in Seq(0..1)
        /\ Len(rest) = IF m + 1 <= Len(queue) THEN Len(queue) - (m + 1) + 1 ELSE 0
        /\ \A i \in 1..(Len(queue) - (m + 1) + 1) : rest[i] = queue[m + 1 + i - 1]
    BY <1>3, <2>1, SubSeqProperties
  <2> HIDE DEF rest
  <2> QED
    BY <1>3, <2>2
<1>6. Received = got \o front /\ Stream' = <<>> \o rest
  BY <1>1 DEF Received, Stream, m
<1>7. Stream' = rest
  <2> HIDE DEF rest
  <2> QED
    BY <1>5, <1>6, ConcatEmptySeq
<1>8. /\ Received \in Seq(0..1) /\ Len(Received) = Len(got) + m
      /\ \A i \in 1..(Len(got) + m) : Received[i] = IF i <= Len(got) THEN got[i] ELSE front[i - Len(got)]
  <2> HIDE DEF front
  <2>1. got \in Seq(0..1) /\ front \in Seq(0..1)
    BY <1>1, <1>2, <1>4
  <2>2. /\ got \o front \in Seq(0..1) /\ Len(got \o front) = Len(got) + Len(front)
        /\ \A i \in 1..(Len(got) + Len(front)) :
             (got \o front)[i] = IF i <= Len(got) THEN got[i] ELSE front[i - Len(got)]
    BY <2>1, ConcatProperties, Zenon
  <2> QED
    BY <1>4, <1>6, <2>2, Zenon
<1> HIDE DEF front, rest
<1>9. Len(got) + m = CmdLen /\ Len(Stream) = Len(got) + Len(queue) /\ Len(got) \in Nat
  BY <1>1, StreamType DEF m
<1>10. Len(Stream) >= CmdLen
  BY <1>3, <1>9
<1>11. \A i \in 1..Len(Stream) : Stream[i] = IF i <= Len(got) THEN got[i] ELSE queue[i - Len(got)]
  BY StreamType
<1>12. \A i \in 1..CmdLen : Received[i] = Stream[i]
  <2> SUFFICES ASSUME NEW i \in 1..CmdLen PROVE Received[i] = Stream[i]
    OBVIOUS
  <2>1. i \in 1..Len(Stream) /\ i \in 1..(Len(got) + m)
    BY <1>3, <1>9
  <2>2. i > Len(got) => i - Len(got) \in 1..m
    BY <1>3, <1>9
  <2> QED
    BY <1>4, <1>8, <1>9, <1>11, <2>1, <2>2, SMTT(40)
<1>13. \A i \in 1..Len(rest) : rest[i] = Stream[i + CmdLen]
  <2> SUFFICES ASSUME NEW i \in 1..Len(rest) PROVE rest[i] = Stream[i + CmdLen]
    OBVIOUS
  <2>0. i \in 1..(Len(queue) - m) /\ Len(got) + m = CmdLen /\ Len(got) \in Nat
    BY <1>5, <1>9
  <2>1. i + CmdLen \in 1..Len(Stream) /\ ~(i + CmdLen <= Len(got)) /\ i + CmdLen - Len(got) = i + m
    BY <1>3, <1>9, <2>0
  <2> QED
    BY <1>5, <1>11, <2>1
<1>14. Len(rest) = Len(Stream) - CmdLen
  <2>1. Len(rest) = Len(queue) - m
    BY <1>5
  <2> QED
    BY <1>3, <1>9, <2>1
<1> QED
  BY <1>5, <1>7, <1>8, <1>9, <1>10, <1>12, <1>13, <1>14, Zenon

\* What read_control_cmd makes of CmdLen bytes at the front.
LEMMA CommandAtFront ==
    ASSUME LoopTypes, CountInv, ReadCmd
    PROVE  /\ Received = Encode("create") => \E i \in Creates(Stream) : i <= CmdLen
           /\ ~cut => /\ ~Garbled(Received)
                      /\ Received = Encode("create") <=> 1 \in Creates(Stream)
                      /\ \A i \in Creates(Stream) : i = 1 \/ i > CmdLen
<1> USE LoopAssumption
<1>1. /\ Stream \in Seq(0..1) /\ Len(Stream) \in Nat /\ Len(Stream) >= CmdLen
      /\ Received \in Seq(0..1) /\ Len(Received) = CmdLen
      /\ \A i \in 1..CmdLen : Received[i] = Stream[i]
  BY StreamType, ReceivedIsFront
<1>2. \A cmd : /\ Encode(cmd) \in Seq(0..1) /\ Len(Encode(cmd)) = CmdLen
               /\ \A i \in 1..CmdLen : Encode(cmd)[i] = IF i = 1 /\ cmd = "heartbeat" THEN 1 ELSE 0
  BY EncodeType
<1>3. \A i \in 1..CmdLen : i \in 1..Len(Stream)
  BY <1>1
<1>4. ASSUME Received = Encode("create") PROVE \E i \in Creates(Stream) : i <= CmdLen
  <2>1. PICK i \in 1..CmdLen : (Len(Stream) - i + 1) % CmdLen = 0
    BY <1>1, OneBegins
  <2>2. Encode("create")[i] = 0
    BY <1>2
  <2>3. Stream[i] = 0
    BY <1>1, <1>4, <2>2
  <2> QED
    BY <1>3, <2>1, <2>3 DEF Creates, Begins
<1>5. ASSUME ~cut
      PROVE  /\ ~Garbled(Received)
             /\ Received = Encode("create") <=> 1 \in Creates(Stream)
             /\ \A i \in Creates(Stream) : i = 1 \/ i > CmdLen
  <2>1. /\ Len(Stream) % CmdLen = 0
        /\ \A i \in 1..Len(Stream) : ~Begins(Stream, i) => Stream[i] = 0
    BY <1>5 DEF CountInv, Counted
  <2>2. \A i \in 1..CmdLen : Begins(Stream, i) <=> i = 1
    <3> SUFFICES ASSUME NEW i \in 1..CmdLen PROVE Begins(Stream, i) <=> i = 1
      OBVIOUS
    <3>1. Begins(Stream, i) <=> i % CmdLen = 1 % CmdLen
      BY <1>1, <1>3, <2>1, FrontAndBack, ZenonT(40) DEF Begins
    <3>2. CASE CmdLen = 1
      BY <3>1, <3>2
    <3>3. CASE CmdLen > 1
      <4>1. 1 % CmdLen = 1
        BY <3>3, SmallRemainder
      <4>2. CASE i = CmdLen
        BY <3>1, <3>3, <4>1, <4>2, SmallRemainder
      <4>3. CASE i \in 1..(CmdLen - 1)
        BY <3>1, <4>1, <4>3, SmallRemainder
      <4> QED
        BY <4>2, <4>3
    <3> QED
      BY <3>2, <3>3
  <2>3. \A i \in 1..CmdLen : i # 1 => Received[i] = 0
    BY <1>1, <1>3, <2>1, <2>2
  <2>4. 1 \in 1..CmdLen /\ Received[1] = Stream[1] /\ Stream[1] \in {0, 1}
    BY <1>1
  <2>5. 1 \in Creates(Stream) <=> Stream[1] = 0
    BY <1>3, <2>2, <2>4 DEF Creates
  <2>6. ASSUME Stream[1] = 0 PROVE Received = Encode("create")
    <3>1. \A i \in 1..CmdLen : Received[i] = Encode("create")[i]
      BY <1>2, <2>3, <2>4, <2>6
    <3>2. Encode("create") \in Seq(0..1) /\ Len(Encode("create")) = CmdLen
      BY <1>2
    <3> QED
      BY <1>1, <3>1, <3>2, SeqEqual
  <2>7. ASSUME Stream[1] = 1 PROVE Received = Encode("heartbeat")
    <3>1. \A i \in 1..CmdLen : Received[i] = Encode("heartbeat")[i]
      BY <1>2, <2>3, <2>4, <2>7
    <3>2. Encode("heartbeat") \in Seq(0..1) /\ Len(Encode("heartbeat")) = CmdLen
      BY <1>2
    <3> QED
      BY <1>1, <3>1, <3>2, SeqEqual
  <2>8. Received = Encode("create") => Stream[1] = 0
    <3>1. Encode("create")[1] = 0
      BY <1>2, <2>4
    <3> QED
      BY <2>4, <3>1
  <2>9. ~Garbled(Received)
    BY <2>4, <2>6, <2>7 DEF Garbled, Cmds
  <2>10. \A i \in Creates(Stream) : i = 1 \/ i > CmdLen
    <3> SUFFICES ASSUME NEW i \in Creates(Stream), ~(i > CmdLen) PROVE i = 1
      OBVIOUS
    <3>1. i \in 1..Len(Stream) /\ Begins(Stream, i)
      BY DEF Creates
    <3>2. i \in 1..CmdLen
      BY <1>1, <3>1
    <3> QED
      BY <2>2, <3>1, <3>2
  <2> QED
    BY <2>5, <2>6, <2>8, <2>9, <2>10
<1> QED
  BY <1>4, <1>5

\* Every step of the loop and of its surroundings keeps the count.
LEMMA CountStep == LoopTypes /\ CountInv /\ [LoopNext]_loopVars => CountInv'
<1> SUFFICES ASSUME LoopTypes, CountInv, [LoopNext]_loopVars PROVE CountInv'
  OBVIOUS
<1> USE LoopAssumption
<1> DEFINE n == Cardinality(Creates(Stream))
           Kept(s) == /\ Len(s) % CmdLen = 0
                      /\ \A i \in 1..Len(s) : ~Begins(s, i) => s[i] = 0
           Goal(t) == /\ owed' >= Cardinality(Creates(t))
                      /\ ~cut' => owed' = Cardinality(Creates(t)) /\ Kept(t) /\ loop' # "garbled"
<1>1. ASSUME Goal(Stream') PROVE CountInv'
  BY <1>1 DEF CountInv, Counted, Creates, Begins
<1>2. /\ Stream \in Seq(0..1) /\ Len(Stream) = Len(got) + Len(queue)
      /\ \A i \in 1..Len(Stream) : Stream[i] = IF i <= Len(got) THEN got[i] ELSE queue[i - Len(got)]
      /\ got \in Seq(0..1) /\ queue \in Seq(0..1) /\ Len(got) \in Nat /\ Len(queue) \in Nat
      /\ IsFiniteSet(Creates(Stream)) /\ n \in Nat /\ owed \in Int
  BY StreamType, CreatesFinite DEF LoopTypes
<1>3. owed >= n /\ (~cut => owed = n /\ Kept(Stream) /\ loop # "garbled")
  BY DEF CountInv, Counted
<1> HIDE DEF Kept, n
<1>4. ASSUME Stream' = Stream, owed' = owed, cut' = cut, loop' # "garbled" \/ loop' = loop
      PROVE  CountInv'
  BY <1>1, <1>3, <1>4 DEF n
<1>5. CASE HealthTick
  <2>1. /\ got' = <<>> /\ queue' = queue /\ owed' = owed /\ loop' = "sending"
        /\ cut' = (cut \/ got # <<>>)
    BY <1>5 DEF HealthTick
  <2>2. Stream' = queue
    BY <1>2, <2>1, ConcatEmptySeq DEF Stream
  <2>3. CASE got = <<>>
    <3>1. Stream = queue
      BY <1>2, <2>3, ConcatEmptySeq DEF Stream
    <3>2. ~cut' => ~cut
      BY <2>1
    <3> QED
      BY <1>1, <1>3, <2>1, <2>2, <3>1, <3>2 DEF n
  <2>4. CASE got # <<>>
    <3>1. Cardinality(Creates(queue)) = Cardinality({i \in Creates(Stream) : i > Len(got)})
      <4>1. Len(got) \in 0..Len(Stream) /\ Len(queue) = Len(Stream) - Len(got)
        BY <1>2
      <4>2. ASSUME NEW i \in 1..Len(queue) PROVE queue[i] = Stream[i + Len(got)]
        <5>1. i + Len(got) \in 1..Len(Stream) /\ ~(i + Len(got) <= Len(got)) /\ (i + Len(got)) - Len(got) = i
          BY <1>2
        <5> QED
          BY <1>2, <5>1
      <4>3. Stream \in Seq(0..1) /\ queue \in Seq(0..1)
        BY <1>2
      <4> QED
        BY ONLY <4>1, <4>2, <4>3, DropFront, Zenon
    <3>2. Cardinality({i \in Creates(Stream) : i > Len(got)}) <= n
      BY <1>2, FS_Subset DEF n
    <3>3. Cardinality(Creates(queue)) \in Nat
      BY <1>2, CreatesFinite
    <3>4. owed' >= Cardinality(Creates(queue))
      BY <1>2, <1>3, <2>1, <3>1, <3>2, <3>3
    <3>5. cut'
      BY <2>1, <2>4
    <3> QED
      BY <1>1, <2>2, <3>4, <3>5
  <2> QED
    BY <2>3, <2>4
<1>6. ASSUME NEW k \in 1..(CmdLen - 1), ReadPart(k) PROVE CountInv'
  <2>1. /\ got' = got \o SubSeq(queue, 1, k) /\ queue' = SubSeq(queue, k + 1, Len(queue))
        /\ UNCHANGED <<owed, cut, loop>> /\ k <= Len(queue)
    BY <1>6 DEF ReadPart
  <2>2. SubSeq(queue, 1, k) \o SubSeq(queue, k + 1, Len(queue)) = queue
    <3>1. /\ 1 \in 1..(Len(queue) + 1) /\ k \in (1 - 1)..Len(queue) /\ Len(queue) \in k..Len(queue)
      BY <1>2, <2>1
    <3>2. SubSeq(queue, 1, k) \o SubSeq(queue, k + 1, Len(queue)) = SubSeq(queue, 1, Len(queue))
      BY <1>2, <3>1, ConcatAdjacentSubSeq
    <3> QED
      BY <1>2, <3>2, SubSeqFull
  <2>3. SubSeq(queue, 1, k) \in Seq(0..1) /\ SubSeq(queue, k + 1, Len(queue)) \in Seq(0..1)
    <3>1. queue \in Seq(0..1) /\ k \in Nat /\ Len(queue) \in Nat
      BY <1>2
    <3>2. \A i \in 1..k : queue[i] \in 0..1
      BY <2>1, <3>1
    <3>3. \A i \in (k + 1)..Len(queue) : queue[i] \in 0..1
      BY <2>1, <3>1
    <3> QED
      BY <3>1, <3>2, <3>3, SubSeqProperties
  <2>4. Stream' = Stream
    <3> DEFINE u == SubSeq(queue, 1, k)
               v == SubSeq(queue, k + 1, Len(queue))
    <3>1. Stream' = (got \o u) \o v /\ Stream = got \o (u \o v)
      BY <2>1, <2>2 DEF Stream
    <3> HIDE DEF u, v
    <3>2. (got \o u) \o v = got \o (u \o v)
      <4>1. got \in Seq(0..1) /\ u \in Seq(0..1) /\ v \in Seq(0..1)
        BY <1>2, <2>3 DEF u, v
      <4> QED
        BY <4>1, BytesAssociate, Zenon
    <3> QED
      BY <3>1, <3>2
  <2> QED
    BY <1>4, <2>1, <2>4
<1>7. CASE ReadCmd
  <2> DEFINE t == Stream'
             Rest == {i \in Creates(Stream) : i > CmdLen}
  <2>1. /\ Len(Stream) >= CmdLen /\ t \in Seq(0..1) /\ Len(t) = Len(Stream) - CmdLen
        /\ \A i \in 1..Len(t) : t[i] = Stream[i + CmdLen]
    BY <1>7, ReceivedIsFront
  <2> HIDE DEF t
  <2>2. CmdLen \in 0..Len(Stream)
    BY <1>2, <2>1
  <2>3. /\ Cardinality(Creates(t)) = Cardinality(Rest)
        /\ \A i \in 1..Len(t) : Begins(t, i) <=> Begins(Stream, i + CmdLen)
    BY <1>2, <2>1, <2>2, DropFront, ZenonT(40)
  <2>4. /\ owed' = IF Received = Encode("create") THEN owed - 1 ELSE owed
        /\ loop' = IF Garbled(Received) THEN "garbled" ELSE "select"
        /\ cut' = cut
    BY <1>7 DEF ReadCmd
  <2>5. IsFiniteSet(Rest) /\ Cardinality(Rest) \in Nat /\ Cardinality(Rest) <= n
    BY <1>2, FS_Subset, FS_CardinalityType DEF n
  <2>6. ASSUME Received = Encode("create") PROVE Cardinality(Rest) <= n - 1
    <3>1. PICK i \in Creates(Stream) : i <= CmdLen
      BY <1>7, <2>6, CommandAtFront
    <3>2. i \in Nat
      BY <1>2, CreatesFinite
    <3>3. Rest \subseteq Creates(Stream) \ {i}
      BY <3>1, <3>2
    <3>4. IsFiniteSet(Creates(Stream) \ {i}) /\ Cardinality(Creates(Stream) \ {i}) = n - 1
      BY <1>2, <3>1, FS_RemoveElement DEF n
    <3> QED
      BY <3>3, <3>4, FS_Subset
  <2>7. owed' >= Cardinality(Creates(t))
    BY <1>2, <1>3, <2>3, <2>4, <2>5, <2>6
  <2>8. ASSUME ~cut' PROVE owed' = Cardinality(Creates(t)) /\ Kept(t) /\ loop' # "garbled"
    <3>1. /\ ~Garbled(Received)
          /\ Received = Encode("create") <=> 1 \in Creates(Stream)
          /\ \A i \in Creates(Stream) : i = 1 \/ i > CmdLen
      BY <1>7, <2>4, <2>8, CommandAtFront
    <3>2. Rest = Creates(Stream) \ {1}
      BY <3>1
    <3>3. Cardinality(Rest) = IF 1 \in Creates(Stream) THEN n - 1 ELSE n
      BY <1>2, <3>2, FS_RemoveElement DEF n
    <3>4. owed' = Cardinality(Creates(t))
      BY <1>3, <2>3, <2>4, <2>8, <3>1, <3>3
    <3>5. Len(t) % CmdLen = 0
      <4>1. Len(t) \in Nat /\ Len(Stream) = Len(t) + CmdLen
        BY <1>2, <2>1
      <4>2. Len(Stream) % CmdLen = 0
        BY <1>3, <2>4, <2>8 DEF Kept
      <4> QED
        BY <4>1, <4>2, RemainderShift
    <3>6. \A i \in 1..Len(t) : ~Begins(t, i) => t[i] = 0
      <4> SUFFICES ASSUME NEW i \in 1..Len(t), ~Begins(t, i) PROVE t[i] = 0
        OBVIOUS
      <4>1. i + CmdLen \in 1..Len(Stream)
        BY <1>2, <2>1
      <4>2. Stream[i + CmdLen] = 0
        BY <1>3, <2>3, <2>4, <2>8, <4>1 DEF Kept
      <4> QED
        BY <2>1, <4>2
    <3> QED
      BY <2>4, <3>1, <3>4, <3>5, <3>6 DEF Kept
  <2> QED
    BY <1>1, <2>7, <2>8 DEF t
<1>8. ASSUME NEW cmd \in Cmds, ServerWrites(cmd) PROVE CountInv'
  <2> DEFINE t == Stream \o Encode(cmd)
  <2>1. /\ got' = got /\ queue' = queue \o Encode(cmd) /\ UNCHANGED <<cut, loop>>
        /\ owed' = IF cmd = "create" THEN owed + 1 ELSE owed
    BY <1>8 DEF ServerWrites
  <2>2. Stream' = t
    <3>1. Stream' = got \o (queue \o Encode(cmd)) /\ t = (got \o queue) \o Encode(cmd)
      BY <2>1 DEF Stream
    <3>2. (got \o queue) \o Encode(cmd) = got \o (queue \o Encode(cmd))
      <4>1. got \in Seq(0..1) /\ queue \in Seq(0..1) /\ Encode(cmd) \in Seq(0..1)
        BY <1>2, EncodeType
      <4> QED
        BY <4>1, BytesAssociate, Zenon
    <3> QED
      BY <3>1, <3>2
  <2>3. /\ t \in Seq(0..1) /\ Len(t) = Len(Stream) + CmdLen
        /\ \A i \in 1..Len(Stream) : t[i] = Stream[i] /\ (Begins(t, i) <=> Begins(Stream, i))
        /\ \A i \in (Len(Stream) + 1)..Len(t) :
             /\ Begins(t, i) <=> i = Len(Stream) + 1
             /\ t[i] = IF i = Len(Stream) + 1 /\ cmd = "heartbeat" THEN 1 ELSE 0
        /\ cmd # "heartbeat" => Creates(t) = Creates(Stream) \cup {Len(Stream) + 1}
        /\ cmd = "heartbeat" => Creates(t) = Creates(Stream)
    BY <1>2, AddBack
  <2> HIDE DEF t
  <2>4. Cardinality(Creates(t)) = IF cmd = "create" THEN n + 1 ELSE n
    <3>1. Len(Stream) + 1 \notin Creates(Stream)
      BY <1>2, CreatesFinite
    <3>2. cmd = "create" \/ cmd = "heartbeat"
      BY DEF Cmds
    <3>3. CASE cmd = "create"
      <4>1. Creates(t) = Creates(Stream) \cup {Len(Stream) + 1}
        BY <2>3, <3>3
      <4>2. Cardinality(Creates(Stream) \cup {Len(Stream) + 1}) = n + 1
        BY <1>2, <3>1, FS_AddElement DEF n
      <4> QED
        BY <3>3, <4>1, <4>2
    <3>4. CASE cmd = "heartbeat"
      BY <2>3, <3>4 DEF n
    <3> QED
      BY <3>2, <3>3, <3>4
  <2>5. owed' >= Cardinality(Creates(t)) /\ (~cut' => owed' = Cardinality(Creates(t)))
    BY <1>2, <1>3, <2>1, <2>4
  <2>6. ASSUME ~cut' PROVE Kept(t)
    <3>1. Len(Stream) \in Nat /\ Len(Stream) % CmdLen = 0
      BY <1>2, <1>3, <2>1, <2>6 DEF Kept
    <3>2. Len(t) % CmdLen = 0
      BY <2>3, <3>1, RemainderShift
    <3>3. \A i \in 1..Len(t) : ~Begins(t, i) => t[i] = 0
      <4> SUFFICES ASSUME NEW i \in 1..Len(t), ~Begins(t, i) PROVE t[i] = 0
        OBVIOUS
      <4>1. CASE i \in 1..Len(Stream)
        BY <1>3, <2>1, <2>3, <2>6, <4>1 DEF Kept
      <4>2. CASE i \in (Len(Stream) + 1)..Len(t)
        BY <2>3, <4>2
      <4>3. i \in 1..Len(Stream) \/ i \in (Len(Stream) + 1)..Len(t)
        BY <2>3, <3>1
      <4> QED
        BY <4>1, <4>2, <4>3
    <3> QED
      BY <3>2, <3>3 DEF Kept
  <2>7. ~cut' => loop' # "garbled"
    BY <1>3, <2>1
  <2> QED
    BY <1>1, <2>2, <2>5, <2>6, <2>7
<1>9. ASSUME UNCHANGED <<wire>>, loop' # "garbled" \/ loop' = loop PROVE CountInv'
  BY <1>4, <1>9 DEF wire, Stream
<1> QED
  BY <1>5, <1>6, <1>7, <1>8, <1>9
  DEF LoopNext, Client, HealthSent, HealthSendFails, CmdReadFails, HeartbeatTimesOut, Shutdown,
      ConnectionFails, HandleDropped, TimePasses, loopVars

\* The count holds from the start.
LEMMA CountHolds == LoopSpec => []CountInv
<1>1. LoopInit => CountInv
  <2> SUFFICES ASSUME LoopInit PROVE CountInv
    OBVIOUS
  <2>1. Stream = <<>> /\ Len(Stream) = 0 /\ owed = 0 /\ loop = "select"
    BY DEF LoopInit, Stream
  <2>2. 1..0 = {}
    OBVIOUS
  <2>3. Creates(Stream) = {}
    BY <2>1, <2>2 DEF Creates
  <2>4. Cardinality(Creates(Stream)) = 0
    BY <2>3, FS_EmptySet
  <2> QED
    BY <2>1, <2>2, <2>4, SmallRemainder DEF CountInv, Counted
<1> QED
  BY <1>1, CountStep, LoopTypesHold, PTL DEF LoopSpec

\* The commands the client acts on are those the server has written, however
\* they arrive: without a cut read none is lost, doubled or garbled, and with
\* one no channel is begun that was not asked for.
THEOREM CommandsCounted == LoopSpec => []CommandsAreCounted
<1>1. LoopTypes /\ CountInv => CommandsAreCounted
  <2> SUFFICES ASSUME LoopTypes, CountInv PROVE CommandsAreCounted
    OBVIOUS
  <2>1. /\ Stream \in Seq(0..1) /\ Len(Stream) \in Nat /\ owed \in Int
        /\ Cardinality(Creates(Stream)) \in Nat
    BY StreamType, CreatesFinite DEF LoopTypes
  <2>2. owed >= 0
    BY <2>1 DEF CountInv, Counted
  <2>3. ASSUME ~cut PROVE loop # "garbled" /\ owed = CreatesIn(got \o queue)
    <3>1. owed = Cardinality(Creates(Stream)) /\ Len(Stream) % CmdLen = 0 /\ loop # "garbled"
      BY <2>3 DEF CountInv, Counted
    <3>2. Creates(Stream) = {i \in 1..Len(Stream) : i % CmdLen = 1 % CmdLen /\ Stream[i] = 0}
      BY <2>1, <3>1, FrontAndBack DEF Creates, Begins
    <3> QED
      BY <3>1, <3>2 DEF CreatesIn, Stream
  <2> QED
    BY <2>2, <2>3 DEF CommandsAreCounted
<1> QED
  BY <1>1, CountHolds, LoopTypesHold, PTL

\* The state of the loop keeps its types; in particular the client never begins
\* more channels than it was asked for.
THEOREM LoopTypeCorrect == LoopSpec => []LoopTypeOK
<1>1. LoopTypes /\ LoopFlags /\ CountInv => LoopTypeOK
  <2> SUFFICES ASSUME LoopTypes, LoopFlags, CountInv PROVE LoopTypeOK
    OBVIOUS
  <2>1. pending \in BOOLEAN /\ cut \in BOOLEAN /\ open \in BOOLEAN /\ handle \in BOOLEAN
    BY Zenon DEF LoopFlags
  <2>2. owed \in 0..OwedCap
    <3>1. Cardinality(Creates(Stream)) \in Nat
      BY StreamType, CreatesFinite
    <3> QED
      BY <3>1, LoopAssumption DEF LoopTypes, CountInv, Counted
  <2> QED
    BY <2>1, <2>2 DEF LoopTypes, LoopTypeOK
<1> QED
  BY <1>1, CountHolds, LoopTypesHold, PTL
=============================================================================
