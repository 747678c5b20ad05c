---------------------------- MODULE UdpForwarder ----------------------------
(***************************************************************************)
(* A data channel of a UDP service on the client                           *)
(* (run_data_channel_for_udp and run_udp_forwarder in                      *)
(* rathole/src/client.rs).  The main loop reads packets from the server    *)
(* and gives each to the forwarder of its visitor, which it starts when    *)
(* there is none; a forwarder takes itself out of the port map when it     *)
(* ends; one task writes the answers to the server.                        *)
(*                                                                         *)
(* The port map is behind a fair tokio RwLock: a reader that comes after a *)
(* waiting writer waits for it.  The main loop is the only reader.  When   *)
(* it finds the visitor in the map, its first read guard lives on (the     *)
(* second `let m` only shadows it) while it asks for a second one.         *)
(***************************************************************************)
EXTENDS Naturals, Sequences

CONSTANTS
    Visitor, Fwd,          \* forwarder tasks, each used once
    InCap, OutCap,         \* UDP_SENDQ_SIZE, for both kinds of queues
    Main, NoFwd, NoVisitor

ASSUME UdpAssumption ==
    /\ InCap \in Nat \ {0} /\ OutCap \in Nat \ {0}
    /\ Main \notin Fwd /\ NoFwd \notin Fwd /\ NoVisitor \notin Visitor

VARIABLES
    mpc,      \* where the main loop is
    pkt,      \* the visitor of the packet it has
    held,     \* the read guards it holds
    portMap,  \* the forwarder each visitor's sender leads to
    lockq,    \* who waits for the lock, in order
    fpc,      \* where each forwarder is
    owner,    \* its visitor
    inq,      \* packets in its inbound queue
    outq,     \* packets in the outbound queue
    outUp     \* the outbound task runs

mainVars == <<mpc, pkt, held>>
fwdVars == <<fpc, owner, inq>>
vars == <<mainVars, portMap, lockq, fwdVars, outq, outUp>>

MainStates == {"read", "look", "missing", "setup", "connect", "again", "deliver", "sending", "closed"}
Live == {"run", "out", "remove", "asked"}

TypeOK ==
    /\ mpc \in MainStates /\ pkt \in Visitor \cup {NoVisitor} /\ held \in 0..2
    /\ portMap \in [Visitor -> Fwd \cup {NoFwd}]
    /\ lockq \in Seq(Fwd \cup {Main})
    /\ fpc \in [Fwd -> {"none", "failed", "ended"} \cup Live]
    /\ owner \in [Fwd -> Visitor \cup {NoVisitor}]
    /\ inq \in [Fwd -> 0..InCap]
    /\ outq \in 0..OutCap /\ outUp \in BOOLEAN

Init ==
    /\ mpc = "read" /\ pkt = NoVisitor /\ held = 0
    /\ portMap = [v \in Visitor |-> NoFwd]
    /\ lockq = <<>>
    /\ fpc = [f \in Fwd |-> "none"]
    /\ owner = [f \in Fwd |-> NoVisitor]
    /\ inq = [f \in Fwd |-> 0]
    /\ outq = 0 /\ outUp = TRUE

\* The lock: nobody writes, and for a writer nobody reads.
Turn(w) == lockq # <<>> /\ Head(lockq) = w /\ mpc # "connect"
WriterTurn(w) == Turn(w) /\ held = 0
-----------------------------------------------------------------------------
(* The main loop *)

ReadPacket(v) ==
    /\ mpc = "read"
    /\ mpc' = "look" /\ pkt' = v
    /\ lockq' = Append(lockq, Main)
    /\ UNCHANGED <<held, portMap, fwdVars, outq, outUp>>

\* The server has closed the data channel.
ReadError ==
    /\ mpc = "read"
    /\ mpc' = "closed"
    /\ UNCHANGED <<pkt, held, portMap, lockq, fwdVars, outq, outUp>>

\* Mutant: a forwarder is started for every packet.
LookUp_AlwaysMissing ==
    /\ mpc = "look" /\ Turn(Main)
    /\ mpc' = "missing" /\ held' = 0
    /\ lockq' = Tail(lockq)
    /\ UNCHANGED <<pkt, portMap, fwdVars, outq, outUp>>

\* Only when there is no entry is the reader lock dropped.
LookUp ==
    /\ mpc = "look" /\ Turn(Main)
    /\ IF portMap[pkt] = NoFwd THEN mpc' = "missing" /\ held' = 0
                               ELSE mpc' = "again" /\ held' = 1
    /\ lockq' = Tail(lockq)
    /\ UNCHANGED <<pkt, portMap, fwdVars, outq, outUp>>

AskWriter ==
    /\ mpc = "missing"
    /\ mpc' = "setup"
    /\ lockq' = Append(lockq, Main)
    /\ UNCHANGED <<pkt, held, portMap, fwdVars, outq, outUp>>

GrabWriter ==
    /\ mpc = "setup" /\ WriterTurn(Main)
    /\ mpc' = "connect"
    /\ lockq' = Tail(lockq)
    /\ UNCHANGED <<pkt, held, portMap, fwdVars, outq, outUp>>

\* udp_connect succeeds: the mapping is made and the forwarder started.
StartForwarder(f) ==
    /\ mpc = "connect" /\ fpc[f] = "none"
    /\ portMap' = [portMap EXCEPT ![pkt] = f]
    /\ fpc' = [fpc EXCEPT ![f] = "run"]
    /\ owner' = [owner EXCEPT ![f] = pkt]
    /\ mpc' = "again"
    /\ UNCHANGED <<pkt, held, lockq, inq, outq, outUp>>

ConnectFails ==
    /\ mpc = "connect"
    /\ mpc' = "again"
    /\ UNCHANGED <<pkt, held, portMap, lockq, fwdVars, outq, outUp>>

AskReader ==
    /\ mpc = "again"
    /\ mpc' = "deliver"
    /\ lockq' = Append(lockq, Main)
    /\ UNCHANGED <<pkt, held, portMap, fwdVars, outq, outUp>>

\* The entry may be gone (or was never made): the packet is dropped.
FindSender ==
    /\ mpc = "deliver" /\ Turn(Main)
    /\ IF portMap[pkt] = NoFwd THEN mpc' = "read" /\ held' = 0
                               ELSE mpc' = "sending" /\ held' = held + 1
    /\ lockq' = Tail(lockq)
    /\ UNCHANGED <<pkt, portMap, fwdVars, outq, outUp>>

Receiver == portMap[pkt]
ReceiverLives == fpc[Receiver] \in Live

\* Mutant: the send to a forwarder that failed does not return.
SendPacket_Waits ==
    /\ mpc = "sending"
    /\ ReceiverLives /\ inq[Receiver] < InCap
    /\ inq' = IF ReceiverLives THEN [inq EXCEPT ![Receiver] = @ + 1] ELSE inq
    /\ mpc' = "read" /\ held' = 0
    /\ UNCHANGED <<pkt, portMap, lockq, fpc, owner, outq, outUp>>

\* tx.send waits for room in the queue of a forwarder that lives, and fails at
\* once, unnoticed, when it does not.
SendPacket ==
    /\ mpc = "sending"
    /\ ReceiverLives => inq[Receiver] < InCap
    /\ inq' = IF ReceiverLives THEN [inq EXCEPT ![Receiver] = @ + 1] ELSE inq
    /\ mpc' = "read" /\ held' = 0
    /\ UNCHANGED <<pkt, portMap, lockq, fpc, owner, outq, outUp>>
-----------------------------------------------------------------------------
(* A forwarder *)

\* A packet from the server goes to the service; an error returns at once,
\* past the removal of the mapping.
ForwardIn(f) ==
    /\ fpc[f] = "run" /\ inq[f] > 0
    /\ inq' = [inq EXCEPT ![f] = @ - 1]
    /\ fpc' \in {fpc, [fpc EXCEPT ![f] = "failed"]}
    /\ UNCHANGED <<mainVars, portMap, lockq, owner, outq, outUp>>

\* A packet from the service, to be put into the outbound queue.
ReceiveFromService(f) ==
    /\ fpc[f] = "run"
    /\ fpc' = [fpc EXCEPT ![f] = "out"]
    /\ UNCHANGED <<mainVars, portMap, lockq, owner, inq, outq, outUp>>

\* The send waits for room; when the outbound task is gone it is an error,
\* which returns at once.
ForwardOut(f) ==
    /\ fpc[f] = "out"
    /\ outUp => outq < OutCap
    /\ fpc' = [fpc EXCEPT ![f] = IF outUp THEN "run" ELSE "failed"]
    /\ outq' = IF outUp THEN outq + 1 ELSE outq
    /\ UNCHANGED <<mainVars, portMap, lockq, owner, inq, outUp>>

\* Nothing for UDP_TIMEOUT, or the socket fails.
LeaveLoop(f) ==
    /\ fpc[f] = "run"
    /\ fpc' = [fpc EXCEPT ![f] = "remove"]
    /\ UNCHANGED <<mainVars, portMap, lockq, owner, inq, outq, outUp>>

AskRemove(f) ==
    /\ fpc[f] = "remove"
    /\ fpc' = [fpc EXCEPT ![f] = "asked"]
    /\ lockq' = Append(lockq, f)
    /\ UNCHANGED <<mainVars, portMap, owner, inq, outq, outUp>>

RemoveMapping(f) ==
    /\ fpc[f] = "asked" /\ WriterTurn(f)
    /\ portMap' = [portMap EXCEPT ![owner[f]] = NoFwd]
    /\ fpc' = [fpc EXCEPT ![f] = "ended"]
    /\ lockq' = Tail(lockq)
    /\ UNCHANGED <<mainVars, owner, inq, outq, outUp>>
-----------------------------------------------------------------------------
(* The outbound task *)

WriteToServer ==
    /\ outUp /\ outq > 0
    /\ outq' = outq - 1
    /\ UNCHANGED <<mainVars, portMap, lockq, fwdVars, outUp>>

WriteFails ==
    /\ outUp /\ outq > 0
    /\ outUp' = FALSE /\ outq' = 0
    /\ UNCHANGED <<mainVars, portMap, lockq, fwdVars>>
-----------------------------------------------------------------------------
\* What the main loop does once it has a packet.
HandlePacket ==
    \/ LookUp \/ AskWriter \/ GrabWriter
    \/ \E f \in Fwd : StartForwarder(f)
    \/ ConnectFails \/ AskReader \/ FindSender \/ SendPacket

Next ==
    \/ \E v \in Visitor : ReadPacket(v)
    \/ ReadError
    \/ HandlePacket
    \/ \E f \in Fwd : \/ ForwardIn(f) \/ ReceiveFromService(f) \/ ForwardOut(f)
                      \/ LeaveLoop(f) \/ AskRemove(f) \/ RemoveMapping(f)
    \/ WriteToServer \/ WriteFails

Spec == Init /\ [][Next]_vars
-----------------------------------------------------------------------------
\* A visitor has at most one live forwarder, the one its mapping leads to, so
\* a forwarder that ends takes its own mapping and never that of a successor;
\* a mapping without a live forwarder was left by one that failed.  This is
\* what the comment on the writer lock is about: nobody sets up a mapping
\* between the two locks, although forwarders do take the writer lock.
MappingIsOwn ==
    /\ \A f \in Fwd : fpc[f] \in Live => portMap[owner[f]] = f
    /\ \A v \in Visitor : portMap[v] # NoFwd =>
         owner[portMap[v]] = v /\ fpc[portMap[v]] \in Live \cup {"failed"}
=============================================================================
