---------------------------- MODULE ControlLoop ----------------------------
(***************************************************************************)
(* The loop of an established control channel on the client                *)
(* (ControlChannel::run in rathole/src/client.rs): one task selects        *)
(* between the health tick, a command from the server, the heartbeat       *)
(* timeout and the shutdown.  The sleep of the timeout is made anew in     *)
(* every round of the loop.                                                *)
(*                                                                         *)
(* The server's side (ControlChannel::run in rathole/src/server.rs) writes *)
(* commands and heartbeats and never reads, so the health messages stay in *)
(* the buffers of the connection, which hold BufCap of them.               *)
(*                                                                         *)
(* The server writes a command at once, CmdLen bytes that may arrive in    *)
(* parts.  read_control_cmd is a branch of the select: when another branch *)
(* wins, what it has read so far is dropped with it.                       *)
(*                                                                         *)
(* Time is counted in units; it passes only when the task has nothing to   *)
(* do, that is, the runtime is prompt.                                     *)
(***************************************************************************)
EXTENDS Integers, Sequences, FiniteSets

CONSTANTS
    HealthPeriod,      \* the health interval, 10 s
    HeartbeatTimeouts, \* what may be configured: 40 s by default; 0 disables it
    BufCap,            \* health messages the connection can hold
    CmdLen,            \* the length of an encoded command, PACKET_LEN.c_cmd
    QueueCap,          \* bound: commands in flight to the client
    OwedCap,           \* bound: data channels asked for and not yet begun
    SilenceCap         \* bound: where the count of the silence stops

ASSUME LoopAssumption ==
    /\ HealthPeriod \in Nat \ {0} /\ HeartbeatTimeouts \subseteq Nat
    /\ BufCap \in Nat /\ QueueCap \in Nat \ {0}
    /\ CmdLen \in Nat \ {0} /\ OwedCap \in Nat
    /\ SilenceCap \in Nat /\ \A h \in HeartbeatTimeouts : SilenceCap > h

VARIABLES
    loop,     \* "select", "sending", or how the loop ended
    age,      \* how long the sleep of this round has run
    due,      \* time to the next health tick
    pending,  \* a health tick is due (more than one only while a write hangs)
    silence,  \* history: time since the server was last heard
    unread,   \* health messages nobody has read
    queue,    \* bytes on their way to the client
    got,      \* bytes of a command that read_exact holds
    cut,      \* history: a read was dropped with bytes in it
    owed,     \* history: commands to create a channel written, less channels begun
    open,     \* the connection is up
    handle,   \* the ControlChannelHandle is alive
    heartbeat_timeout  \* of the configuration

wire == <<queue, got, cut, owed>>
loopVars == <<loop, age, due, pending, silence, unread, wire, open, handle, heartbeat_timeout>>

Cmds == {"create", "heartbeat"}
\* run returns Ok for the first two and Err for the others
LoopEnds == {"shutdown", "send_failed", "read_failed", "garbled", "timed_out"}

LoopTypeOK ==
    /\ loop \in {"select", "sending"} \cup LoopEnds
    /\ age \in 0..SilenceCap /\ due \in 1..HealthPeriod /\ pending \in BOOLEAN
    /\ silence \in 0..SilenceCap
    /\ unread \in 0..BufCap
    /\ queue \in Seq(0..1) /\ Len(queue) <= QueueCap * CmdLen
    /\ got \in Seq(0..1) /\ Len(got) < CmdLen
    /\ cut \in BOOLEAN /\ owed \in 0..OwedCap
    /\ open \in BOOLEAN /\ handle \in BOOLEAN
    /\ heartbeat_timeout \in HeartbeatTimeouts

\* The first tick of an interval is immediate.
LoopInit ==
    /\ loop = "select"
    /\ age = 0 /\ due = HealthPeriod /\ pending = TRUE
    /\ silence = 0 /\ unread = 0
    /\ queue = <<>> /\ got = <<>> /\ cut = FALSE /\ owed = 0
    /\ open = TRUE /\ handle = TRUE
    /\ heartbeat_timeout \in HeartbeatTimeouts
-----------------------------------------------------------------------------
(* The client's task *)

\* health_interval.tick() wins: the read is dropped, and the message is sent
\* from within the branch.
HealthTick ==
    /\ loop = "select" /\ pending
    /\ pending' = FALSE
    /\ loop' = "sending"
    /\ got' = <<>> /\ cut' = (cut \/ got # <<>>)
    /\ UNCHANGED <<age, due, silence, unread, queue, owed, open, handle, heartbeat_timeout>>

\* The write returns when the buffers have room; the next round begins.
HealthSent ==
    /\ loop = "sending" /\ open
    /\ unread < BufCap
    /\ unread' = unread + 1
    /\ loop' = "select" /\ age' = 0
    /\ UNCHANGED <<due, pending, silence, wire, open, handle, heartbeat_timeout>>

\* The write fails: break, so that run returns Ok.
HealthSendFails ==
    /\ loop = "sending" /\ ~open
    /\ loop' = "send_failed"
    /\ UNCHANGED <<age, due, pending, silence, unread, wire, open, handle, heartbeat_timeout>>

\* read_exact takes what has arrived, n bytes, and waits for the rest.
ReadPart(n) ==
    /\ loop = "select" /\ n <= Len(queue) /\ Len(got) + n < CmdLen
    /\ got' = got \o SubSeq(queue, 1, n)
    /\ queue' = SubSeq(queue, n + 1, Len(queue))
    /\ UNCHANGED <<loop, age, due, pending, silence, unread, cut, owed, open, handle, heartbeat_timeout>>

\* The number of the variant, CmdLen bytes, the lowest first.
Encode(cmd) == [i \in 1..CmdLen |-> IF i = 1 /\ cmd = "heartbeat" THEN 1 ELSE 0]
Garbled(bytes) == \A cmd \in Cmds : bytes # Encode(cmd)

Missing == CmdLen - Len(got)
Received == got \o SubSeq(queue, 1, Missing)

\* Mutant: the sleep is not made anew after a command.
ReadCmd_KeepsSleep ==
    /\ loop = "select" /\ Len(queue) >= Missing
    /\ loop' = IF Garbled(Received) THEN "garbled" ELSE "select"
    /\ owed' = IF Received = Encode("create") THEN owed - 1 ELSE owed
    /\ queue' = SubSeq(queue, Missing + 1, Len(queue)) /\ got' = <<>>
    /\ silence' = 0
    /\ UNCHANGED <<age, due, pending, unread, cut, open, handle, heartbeat_timeout>>

\* Mutant: the variant is told by the first byte to come.
ReadCmd_FirstByte ==
    /\ loop = "select" /\ Len(queue) >= Missing
    /\ loop' = "select"
    /\ owed' = IF queue[1] = 0 THEN owed - 1 ELSE owed
    /\ queue' = SubSeq(queue, Missing + 1, Len(queue)) /\ got' = <<>>
    /\ silence' = 0 /\ age' = 0
    /\ UNCHANGED <<due, pending, unread, cut, open, handle, heartbeat_timeout>>

\* The command is whole: CreateDataChannel spawns run_data_channel, HeartBeat
\* does nothing, anything else is an error.
ReadCmd ==
    /\ loop = "select" /\ Len(queue) >= Missing
    /\ loop' = IF Garbled(Received) THEN "garbled" ELSE "select"
    /\ owed' = IF Received = Encode("create") THEN owed - 1 ELSE owed
    /\ queue' = SubSeq(queue, Missing + 1, Len(queue)) /\ got' = <<>>
    /\ silence' = 0 /\ age' = 0
    /\ UNCHANGED <<due, pending, unread, cut, open, handle, heartbeat_timeout>>

CmdReadFails ==
    /\ loop = "select" /\ ~open
    /\ loop' = "read_failed"
    /\ UNCHANGED <<age, due, pending, silence, unread, wire, open, handle, heartbeat_timeout>>

HeartbeatTimesOut ==
    /\ loop = "select"
    /\ heartbeat_timeout # 0 /\ age >= heartbeat_timeout
    /\ loop' = "timed_out"
    /\ UNCHANGED <<age, due, pending, silence, unread, wire, open, handle, heartbeat_timeout>>

\* Mutant: commands are served before the shutdown is looked at.
Shutdown_Last ==
    /\ loop = "select" /\ ~handle /\ queue = <<>>
    /\ loop' = "shutdown"
    /\ UNCHANGED <<age, due, pending, silence, unread, wire, open, handle, heartbeat_timeout>>

Shutdown ==
    /\ loop = "select" /\ ~handle
    /\ loop' = "shutdown"
    /\ UNCHANGED <<age, due, pending, silence, unread, wire, open, handle, heartbeat_timeout>>
-----------------------------------------------------------------------------
(* Its surroundings *)

ServerWrites(cmd) ==
    /\ open /\ Len(queue) <= (QueueCap - 1) * CmdLen
    /\ cmd = "create" => owed < OwedCap
    /\ queue' = queue \o Encode(cmd)
    /\ owed' = IF cmd = "create" THEN owed + 1 ELSE owed
    /\ UNCHANGED <<loop, age, due, pending, silence, unread, got, cut, open, handle, heartbeat_timeout>>

\* The server ends, or the network does.
ConnectionFails ==
    /\ open
    /\ open' = FALSE
    /\ UNCHANGED <<loop, age, due, pending, silence, unread, wire, handle, heartbeat_timeout>>

HandleDropped ==
    /\ handle
    /\ handle' = FALSE
    /\ UNCHANGED <<loop, age, due, pending, silence, unread, wire, open, heartbeat_timeout>>

Client ==
    \/ HealthTick \/ HealthSent \/ HealthSendFails
    \/ \E n \in 1..(CmdLen - 1) : ReadPart(n)
    \/ ReadCmd \/ CmdReadFails \/ HeartbeatTimesOut \/ Shutdown

Idle ==
    \/ /\ loop = "select"
       /\ ~pending /\ queue = <<>> /\ open /\ handle
       /\ heartbeat_timeout = 0 \/ age < heartbeat_timeout
    \/ loop = "sending" /\ open /\ unread = BufCap

Capped(n) == IF n < SilenceCap THEN n + 1 ELSE n

\* Mutant: the interval is a sleep, which is over once.
TimePasses_OneTick ==
    /\ Idle
    /\ age' = IF loop = "select" THEN Capped(age) ELSE age
    /\ silence' = Capped(silence)
    /\ UNCHANGED <<due, pending, loop, unread, wire, open, handle, heartbeat_timeout>>

TimePasses ==
    /\ Idle
    /\ age' = IF loop = "select" THEN Capped(age) ELSE age
    /\ silence' = Capped(silence)
    /\ IF due = 1 THEN due' = HealthPeriod /\ pending' = TRUE
                  ELSE due' = due - 1 /\ UNCHANGED pending
    /\ UNCHANGED <<loop, unread, wire, open, handle, heartbeat_timeout>>

LoopNext ==
    \/ Client
    \/ \E cmd \in Cmds : ServerWrites(cmd)
    \/ ConnectionFails \/ HandleDropped
    \/ TimePasses

LoopSpec == LoopInit /\ [][LoopNext]_loopVars

\* The task is polled, time goes on, and select! picks at random among the
\* branches that are ready, so a shutdown is not passed over for ever.  The
\* server and the network do as they like.
FairLoopSpec == LoopSpec /\ WF_loopVars(Client) /\ SF_loopVars(Shutdown) /\ WF_loopVars(TimePasses)
-----------------------------------------------------------------------------
\* The heartbeat test raises no false alarm: when it ends the channel the
\* server has been silent for heartbeat_timeout, whatever else the loop did.
NoFalseAlarm ==
    loop = "timed_out" => silence >= heartbeat_timeout

\* The heartbeat test depends on the health ticks of the same loop: each begins
\* a new round, with a new sleep.  With a timeout above the health interval, as
\* shipped (40 s against 10 s), the loop never ends for the server's silence,
\* however long it lasts: the test is then as good as disabled, and a server
\* that is silent on an open connection goes unnoticed.
HealthTicksDisarmTimeout ==
    heartbeat_timeout > HealthPeriod => loop # "timed_out"

Ended == loop \in LoopEnds

\* A client whose handle is dropped, or whose connection has failed, leaves
\* the loop.
LoopIsLeft ==
    /\ ~open ~> Ended
    /\ ~handle ~> (Ended \/ unread = BufCap)

\* The commands to create a channel among bytes that begin with a command.
CreatesIn(bytes) ==
    Cardinality({i \in 1..Len(bytes) : i % CmdLen = 1 % CmdLen /\ bytes[i] = 0})

\* The commands the client acts on are those the server has written: no read
\* across parts loses, doubles or garbles one, but for a read that a health
\* tick cut; and even then no channel is begun that was not asked for.
CommandsAreCounted ==
    /\ owed >= 0
    /\ ~cut => loop # "garbled" /\ owed = CreatesIn(got \o queue)
=============================================================================
