----------------------------- MODULE UdpService -----------------------------
(***************************************************************************)
(* A UDP service from end to end: the pool of the server                   *)
(* (run_udp_connection_pool in rathole/src/server.rs), the data channel,   *)
(* and the client's half of it (UdpForwarder).  One task of the server     *)
(* serves both directions, and what a select! branch has begun it          *)
(* finishes before it looks at the other branches: while it writes to the  *)
(* client it neither reads from it nor sees the shutdown signal.           *)
(*                                                                         *)
(* The pool ends at the first error.  That drops its data_ch_req_tx, which *)
(* ends the control channel, which is how the client learns that it has to *)
(* connect again.                                                          *)
(***************************************************************************)
EXTENDS UdpForwarder

CONSTANT WireCap   \* packets the buffers of a connection hold, each way

ASSUME WireAssumption == WireCap \in Nat \ {0}

VARIABLES
    spc,       \* where the pool is
    spkt,      \* the visitor whose packet it is writing
    wire,      \* the data channel: "none", "up" or "down"
    toClient,  \* the packets under way to the client
    toServer,  \* how many are under way to the server
    handle,    \* "held", or "dropped" by a reload, a handshake or the shutdown
    ctl        \* the service's control channel: "open" or "closed"

clientVars == vars
poolVars == <<spc, spkt>>
wireVars == <<wire, toClient, toServer>>
serviceVars == <<clientVars, poolVars, wireVars, handle, ctl>>

ServiceTypeOK ==
    /\ TypeOK
    /\ spc \in {"bind", "channel", "command", "select", "writing", "ended"}
    /\ spkt \in Visitor \cup {NoVisitor}
    /\ wire \in {"none", "up", "down"}
    /\ toClient \in Seq(Visitor) /\ Len(toClient) <= WireCap /\ toServer \in 0..WireCap
    /\ handle \in {"held", "dropped"} /\ ctl \in {"open", "closed"}

ServiceInit ==
    /\ Init
    /\ spc = "bind" /\ spkt = NoVisitor
    /\ wire = "none" /\ toClient = <<>> /\ toServer = 0
    /\ handle = "held" /\ ctl = "open"

\* The pool returns: its connection, its socket and its sender are dropped.
PoolEnds ==
    /\ spc' = "ended"
    /\ wire' = IF wire = "up" THEN "down" ELSE wire
    /\ UNCHANGED <<clientVars, spkt, toClient, toServer, handle, ctl>>
-----------------------------------------------------------------------------
(* The pool of the server *)

\* listen_backoff retries for ever.
Bind ==
    /\ spc = "bind"
    /\ spc' = "channel"
    /\ UNCHANGED <<clientVars, spkt, wireVars, handle, ctl>>

BindShutdown ==
    /\ spc = "bind" /\ handle = "dropped"
    /\ PoolEnds

TakeChannel ==
    /\ spc = "channel"
    /\ spc' = "command" /\ wire' = "up"
    /\ UNCHANGED <<clientVars, spkt, toClient, toServer, handle, ctl>>

\* The sender of data channels was in the handle.
NoChannel ==
    /\ spc = "channel" /\ handle = "dropped"
    /\ PoolEnds

WriteCommand ==
    /\ spc = "command"
    /\ spc' = "select"
    /\ UNCHANGED <<clientVars, spkt, wireVars, handle, ctl>>

RecvVisitor(v) ==
    /\ spc = "select"
    /\ spc' = "writing" /\ spkt' = v
    /\ UNCHANGED <<clientVars, wireVars, handle, ctl>>

\* Waits for room; what is written to a broken connection is lost.
WriteSlice ==
    /\ spc = "writing"
    /\ wire = "up" => Len(toClient) < WireCap
    /\ toClient' = IF wire = "up" THEN Append(toClient, spkt) ELSE toClient
    /\ spc' = "select" /\ spkt' = NoVisitor
    /\ UNCHANGED <<clientVars, wire, toServer, handle, ctl>>

\* A reply is read and sent to its visitor.
ReadReply ==
    /\ spc = "select" /\ toServer > 0
    /\ toServer' = toServer - 1
    /\ UNCHANGED <<clientVars, poolVars, wire, toClient, handle, ctl>>

\* Mutant: an error of the connection is taken for the end of one packet.
ConnError_Ignored ==
    /\ spc \in {"command", "writing", "select"} /\ wire = "down"
    /\ spc' = "select"
    /\ UNCHANGED <<clientVars, spkt, wireVars, handle, ctl>>

\* The write of the command or of a packet, or the read of a reply.
ConnError ==
    /\ spc \in {"command", "writing", "select"} /\ wire = "down"
    /\ PoolEnds

\* recv_from or send_to fails: the whole pool ends.
SocketError ==
    /\ spc = "select"
    /\ PoolEnds

\* Mutant: the loop does not look at the shutdown signal.
ObeyShutdown_Never ==
    /\ FALSE
    /\ PoolEnds

ObeyShutdown ==
    /\ spc = "select" /\ handle = "dropped"
    /\ PoolEnds

PoolStep ==
    \/ Bind \/ BindShutdown \/ TakeChannel \/ NoChannel \/ WriteCommand
    \/ WriteSlice \/ ReadReply \/ ConnError \/ ObeyShutdown
-----------------------------------------------------------------------------
(* Around the pool *)

\* Its queue of requests has no sender left, or the shutdown signal comes.  (It
\* may also end by itself, which this pool does not notice: see TcpPool.)
ControlEnds ==
    /\ ctl = "open" /\ (spc = "ended" \/ handle = "dropped")
    /\ ctl' = "closed"
    /\ UNCHANGED <<clientVars, poolVars, wireVars, handle>>

DropHandle ==
    /\ handle = "held"
    /\ handle' = "dropped"
    /\ UNCHANGED <<clientVars, poolVars, wireVars, ctl>>

WireBreaks ==
    /\ wire = "up"
    /\ wire' = "down"
    /\ UNCHANGED <<clientVars, poolVars, toClient, toServer, handle, ctl>>
-----------------------------------------------------------------------------
(* The client's half *)

ClientReads ==
    /\ toClient # <<>>
    /\ ReadPacket(Head(toClient))
    /\ toClient' = Tail(toClient)
    /\ UNCHANGED <<poolVars, wire, toServer, handle, ctl>>

ClientReadError ==
    /\ wire = "down" /\ ReadError
    /\ UNCHANGED <<poolVars, wireVars, handle, ctl>>

\* Waits for room; what is written to a broken connection is lost.
ClientWrites ==
    /\ wire = "up" => toServer < WireCap
    /\ WriteToServer
    /\ toServer' = IF wire = "up" THEN toServer + 1 ELSE toServer
    /\ UNCHANGED <<poolVars, wire, toClient, handle, ctl>>

ClientWriteFails ==
    /\ wire = "down" /\ WriteFails
    /\ UNCHANGED <<poolVars, wireVars, handle, ctl>>

ServerUnchanged == UNCHANGED <<poolVars, wireVars, handle, ctl>>

ClientHandles == HandlePacket /\ ServerUnchanged
ForwarderIn(f) == ForwardIn(f) /\ ServerUnchanged
ForwarderOut(f) == ForwardOut(f) /\ ServerUnchanged
ForwarderRemoves(f) == (AskRemove(f) \/ RemoveMapping(f)) /\ ServerUnchanged
ServiceActs(f) == (ReceiveFromService(f) \/ LeaveLoop(f)) /\ ServerUnchanged

ServiceNext ==
    \/ PoolStep
    \/ \E v \in Visitor : RecvVisitor(v)
    \/ SocketError
    \/ ControlEnds \/ DropHandle \/ WireBreaks
    \/ ClientReads \/ ClientReadError \/ ClientWrites \/ ClientWriteFails
    \/ ClientHandles
    \/ \E f \in Fwd : ForwarderIn(f) \/ ForwarderOut(f) \/ ForwarderRemoves(f) \/ ServiceActs(f)

ServiceSpec == ServiceInit /\ [][ServiceNext]_serviceVars

\* Every task that can go on does.  select! picks at random among the branches
\* that are ready, so none is passed over for ever, on either side, and an mpsc
\* queue serves its waiting senders in order.  Of the forwarders of a visitor
\* one is live (MappingIsOwn).  Visitors, packets of the service, timeouts,
\* breaks and reloads come as they like.
ForwardersOf(v) == {f \in Fwd : owner[f] = v}

ServiceFairness ==
    /\ WF_serviceVars(PoolStep)
    /\ SF_serviceVars(ReadReply) /\ SF_serviceVars(ConnError \/ ObeyShutdown)
    /\ WF_serviceVars(ControlEnds)
    /\ WF_serviceVars(ClientReads \/ ClientReadError)
    /\ WF_serviceVars(ClientWrites \/ ClientWriteFails)
    /\ WF_serviceVars(ClientHandles)
    /\ \A v \in Visitor :
         /\ SF_serviceVars(\E f \in ForwardersOf(v) : ForwarderIn(f))
         /\ SF_serviceVars(\E f \in ForwardersOf(v) : ForwarderOut(f))
         /\ WF_serviceVars(\E f \in ForwardersOf(v) : ForwarderRemoves(f))

FairServiceSpec == ServiceSpec /\ ServiceFairness
-----------------------------------------------------------------------------
\* The main loop of the client waits behind a writer that waits for the loop's
\* own read guard: it holds one while it queues for the second, or while it
\* sends to the forwarder that has stopped reading in order to be removed.
Wedged ==
    \/ mpc = "deliver" /\ held > 0 /\ Head(lockq) # Main
    \/ mpc = "sending" /\ fpc[Receiver] \in {"remove", "asked"} /\ inq[Receiver] = InCap

\* All queues are full and every task waits to write to the next: the pool to
\* the client, the client's loop to a forwarder, the forwarder to the outbound
\* task, and that to the pool, which does not read while it writes.
Gridlock ==
    /\ spc = "writing" /\ wire = "up" /\ Len(toClient) = WireCap /\ toServer = WireCap
    /\ mpc = "sending" /\ fpc[Receiver] = "out" /\ inq[Receiver] = InCap
    /\ outUp /\ outq = OutCap

NoStandstill == []~Wedged /\ []~Gridlock

\* The client gets rid of every packet it has read, unless it comes to one of
\* the two standstills.
PacketsAreHandled ==
    NoStandstill => (mpc = "look" ~> mpc = "read")

\* A dropped handle ends the pool, which frees the port for its successor,
\* wherever in its loop the signal meets it, unless the client it writes to
\* has come to a standstill.
PoolObeysShutdown ==
    NoStandstill => (handle = "dropped" ~> spc = "ended")

\* A data channel that broke, which only the pool sees, closes the control
\* channel: so the client connects again and the service comes back.
BrokenChannelHeals ==
    wire = "down" ~> ctl = "closed"
=============================================================================
