------------------------ MODULE UdpForwarder_proofs ------------------------
(***************************************************************************)
(* Proofs about UdpForwarder, for any visitors, forwarders and capacities: *)
(* the port map never leads to another visitor's forwarder, and a          *)
(* forwarder that ends removes its own mapping; the same of UdpService,    *)
(* and that its two standstills do not end by themselves.                  *)
(***************************************************************************)
EXTENDS UdpService, TLAPS

\* What the types need of the main loop: it has a packet once it has left the
\* read, and holds at most one guard before the second read lock.
LoopInv ==
    /\ mpc \notin {"read", "closed"} => pkt \in Visitor
    /\ mpc \in {"again", "deliver"} => held \in 0..1
    /\ mpc \in {"read", "look", "missing", "setup", "connect", "closed"} => held = 0

\* Between the two locks nobody makes a mapping for the packet's visitor: what
\* the comment on the writer lock relies on.
NoMappingYet == mpc \in {"missing", "setup", "connect"} => portMap[pkt] = NoFwd

\* The read guard keeps the mapping in place while a packet is being sent.
MappingIsKept == mpc = "sending" => held \in 1..2 /\ portMap[pkt] \in Fwd

OwnersAreKnown == \A f \in Fwd : fpc[f] \in Live => owner[f] \in Visitor

UdpInv == TypeOK /\ LoopInv /\ NoMappingYet /\ MappingIsKept /\ OwnersAreKnown /\ MappingIsOwn

\* The initial state: no packet, no mapping, no forwarder.
LEMMA UdpInvInit == Init => UdpInv
<1> SUFFICES ASSUME Init PROVE UdpInv
  OBVIOUS
<1>1. TypeOK
  BY UdpAssumption DEF Init, TypeOK, MainStates, Live
<1>2. LoopInv /\ NoMappingYet /\ MappingIsKept /\ OwnersAreKnown
  BY DEF Init, LoopInv, NoMappingYet, MappingIsKept, OwnersAreKnown, Live
<1>3. MappingIsOwn
  BY DEF Init, MappingIsOwn, Live
<1> QED
  BY <1>1, <1>2, <1>3 DEF UdpInv

\* Every step of the main loop and of the forwarders keeps the mappings own.
LEMMA UdpInvStep == UdpInv /\ [Next]_vars => UdpInv'
<1> SUFFICES ASSUME UdpInv, [Next]_vars PROVE UdpInv'
  OBVIOUS
<1> USE UdpAssumption
    DEF UdpInv, TypeOK, LoopInv, NoMappingYet, MappingIsKept, OwnersAreKnown, MappingIsOwn,
        MainStates, Live
<1>1. ASSUME NEW v \in Visitor, ReadPacket(v) PROVE UdpInv'
  BY <1>1 DEF ReadPacket, fwdVars
<1>2. CASE ReadError
  BY <1>2 DEF ReadError, fwdVars
<1>3. CASE LookUp
  BY <1>3 DEF LookUp, Turn, fwdVars
<1>4. CASE AskWriter
  BY <1>4 DEF AskWriter, fwdVars
<1>5. CASE AskReader
  BY <1>5 DEF AskReader, fwdVars
<1>6. CASE GrabWriter
  BY <1>6 DEF GrabWriter, WriterTurn, Turn, fwdVars
<1>7. ASSUME NEW f \in Fwd, StartForwarder(f) PROVE UdpInv'
  BY <1>7 DEF StartForwarder
<1>8. CASE ConnectFails
  BY <1>8 DEF ConnectFails, fwdVars
<1>9. CASE FindSender
  BY <1>9 DEF FindSender, Turn, fwdVars
<1>10. CASE SendPacket
  <2>1. TypeOK'
    BY <1>10 DEF SendPacket, Receiver, ReceiverLives
  <2>2. LoopInv' /\ NoMappingYet' /\ MappingIsKept' /\ OwnersAreKnown'
    BY <1>10 DEF SendPacket, Receiver, ReceiverLives
  <2>3. MappingIsOwn'
    BY <1>10 DEF SendPacket, Receiver, ReceiverLives
  <2> QED
    BY <2>1, <2>2, <2>3
<1>11. ASSUME NEW f \in Fwd, ForwardIn(f) PROVE UdpInv'
  <2>1. CASE fpc' = fpc
    BY <1>11, <2>1 DEF ForwardIn, mainVars
  <2>2. CASE fpc' = [fpc EXCEPT ![f] = "failed"]
    BY <1>11, <2>2 DEF ForwardIn, mainVars
  <2> QED
    BY <1>11, <2>1, <2>2 DEF ForwardIn
<1>12. ASSUME NEW f \in Fwd, ReceiveFromService(f) PROVE UdpInv'
  BY <1>12 DEF ReceiveFromService, mainVars
<1>13. ASSUME NEW f \in Fwd, LeaveLoop(f) PROVE UdpInv'
  BY <1>13 DEF LeaveLoop, mainVars
<1>14. ASSUME NEW f \in Fwd, ForwardOut(f) PROVE UdpInv'
  BY <1>14 DEF ForwardOut, mainVars
<1>15. ASSUME NEW f \in Fwd, AskRemove(f) PROVE UdpInv'
  BY <1>15 DEF AskRemove, mainVars
<1>16. ASSUME NEW f \in Fwd, RemoveMapping(f) PROVE UdpInv'
  <2>1. TypeOK'
    BY <1>16 DEF RemoveMapping, WriterTurn, Turn, mainVars
  <2>2. LoopInv' /\ NoMappingYet' /\ MappingIsKept' /\ OwnersAreKnown'
    BY <1>16 DEF RemoveMapping, WriterTurn, Turn, mainVars
  <2>3. MappingIsOwn'
    BY <1>16 DEF RemoveMapping, WriterTurn, Turn, mainVars
  <2> QED
    BY <2>1, <2>2, <2>3
<1>17. CASE WriteToServer
  BY <1>17 DEF WriteToServer, mainVars, fwdVars
<1>18. CASE WriteFails
  <2>1. outUp' \in BOOLEAN
    BY <1>18, Zenon DEF WriteFails
  <2>2. UNCHANGED <<mpc, pkt, held, portMap, lockq, fpc, owner, inq>> /\ outq' = 0
    BY <1>18 DEF WriteFails, mainVars, fwdVars
  <2> QED
    BY <2>1, <2>2
<1>19. CASE UNCHANGED vars
  BY <1>19 DEF vars, mainVars, fwdVars
<1> QED
  BY <1>1, <1>2, <1>3, <1>4, <1>5, <1>6, <1>7, <1>8, <1>9, <1>10, <1>11, <1>12, <1>13,
     <1>14, <1>15, <1>16, <1>17, <1>18, <1>19
  DEF Next, HandlePacket

\* The inductive invariant holds throughout.
THEOREM UdpInvariant == Spec => []UdpInv
  BY UdpInvInit, UdpInvStep, PTL DEF Spec

\* Types: queues keep their capacities, the loop holds at most two guards.
THEOREM TypeCorrect == Spec => []TypeOK
<1>1. UdpInv => TypeOK
  BY DEF UdpInv
<1> QED
  BY <1>1, UdpInvariant, PTL

\* At most one live forwarder per visitor, and mappings are removed by the
\* forwarder they lead to.
THEOREM MappingsAreOwn == Spec => []MappingIsOwn
<1>1. UdpInv => MappingIsOwn
  BY DEF UdpInv
<1> QED
  BY <1>1, UdpInvariant, PTL
-----------------------------------------------------------------------------
(* The whole service: its client is the client of UdpForwarder *)

\* What the server puts on the wire are packets of visitors.
WireOK ==
    /\ toClient \in Seq(Visitor)
    /\ spc = "writing" => spkt \in Visitor

LEMMA WireOKStep == WireOK /\ [ServiceNext]_serviceVars => WireOK'
<1> SUFFICES ASSUME WireOK, [ServiceNext]_serviceVars PROVE WireOK'
  OBVIOUS
<1> USE DEF WireOK
<1>1. CASE WriteSlice
  BY <1>1 DEF WriteSlice
<1>2. CASE Bind \/ BindShutdown \/ TakeChannel \/ NoChannel \/ WriteCommand \/ ReadReply
           \/ ConnError \/ ObeyShutdown \/ SocketError
  BY <1>2 DEF Bind, BindShutdown, TakeChannel, NoChannel, WriteCommand, ReadReply, ConnError,
              ObeyShutdown, SocketError, PoolEnds, wireVars, poolVars
<1>3. ASSUME NEW v \in Visitor, RecvVisitor(v) PROVE WireOK'
  BY <1>3 DEF RecvVisitor, wireVars
<1>4. CASE ControlEnds \/ DropHandle \/ WireBreaks
  BY <1>4 DEF ControlEnds, DropHandle, WireBreaks, wireVars, poolVars
<1>5. CASE ClientReads
  BY <1>5 DEF ClientReads, poolVars
<1>6. CASE ClientReadError \/ ClientWrites \/ ClientWriteFails
  BY <1>6 DEF ClientReadError, ClientWrites, ClientWriteFails, wireVars, poolVars
<1>7. CASE ClientHandles
  BY <1>7 DEF ClientHandles, ServerUnchanged, wireVars, poolVars
<1>8. ASSUME NEW f \in Fwd,
             ForwarderIn(f) \/ ForwarderOut(f) \/ ForwarderRemoves(f) \/ ServiceActs(f)
      PROVE  WireOK'
  BY <1>8 DEF ForwarderIn, ForwarderOut, ForwarderRemoves, ServiceActs, ServerUnchanged,
              wireVars, poolVars
<1>9. CASE UNCHANGED serviceVars
  BY <1>9 DEF serviceVars, wireVars, poolVars
<1> QED
  BY <1>1, <1>2, <1>3, <1>4, <1>5, <1>6, <1>7, <1>8, <1>9 DEF ServiceNext, PoolStep

\* A step of the service is a step of the client's data channel or leaves it.
LEMMA ServiceStep == WireOK /\ [ServiceNext]_serviceVars => [Next]_vars
<1> SUFFICES ASSUME WireOK, [ServiceNext]_serviceVars PROVE [Next]_vars
  OBVIOUS
<1>1. CASE PoolStep \/ SocketError \/ ControlEnds \/ DropHandle \/ WireBreaks
  BY <1>1 DEF PoolStep, Bind, BindShutdown, TakeChannel, NoChannel, WriteCommand, WriteSlice,
              ReadReply, ConnError, ObeyShutdown, SocketError, PoolEnds, ControlEnds,
              DropHandle, WireBreaks, clientVars
<1>2. ASSUME NEW v \in Visitor, RecvVisitor(v) PROVE UNCHANGED vars
  BY <1>2 DEF RecvVisitor, clientVars
<1>3. CASE ClientReads
  <2>1. Head(toClient) \in Visitor
    BY <1>3 DEF ClientReads, WireOK
  <2> QED
    BY <1>3, <2>1 DEF ClientReads, Next
<1>4. CASE ClientReadError \/ ClientWrites \/ ClientWriteFails \/ ClientHandles
  BY <1>4 DEF ClientReadError, ClientWrites, ClientWriteFails, ClientHandles, Next
<1>5. ASSUME NEW f \in Fwd,
             ForwarderIn(f) \/ ForwarderOut(f) \/ ForwarderRemoves(f) \/ ServiceActs(f)
      PROVE  Next
  BY <1>5 DEF ForwarderIn, ForwarderOut, ForwarderRemoves, ServiceActs, Next
<1>6. CASE UNCHANGED serviceVars
  BY <1>6 DEF serviceVars, clientVars
<1> QED
  BY <1>1, <1>2, <1>3, <1>4, <1>5, <1>6 DEF ServiceNext

\* Whatever the server, the wire and the shutdown do, the client's half is a
\* behaviour of UdpForwarder: its theorems hold of the service.
THEOREM ServiceRunsForwarder == ServiceSpec => Spec
<1>1. ServiceInit => Init /\ WireOK
  BY DEF ServiceInit, WireOK
<1> QED
  BY <1>1, WireOKStep, ServiceStep, PTL DEF ServiceSpec, Spec

\* At most one live forwarder per visitor, in the whole service.
THEOREM ServiceMappingsAreOwn == ServiceSpec => []MappingIsOwn
  BY ServiceRunsForwarder, MappingsAreOwn, PTL
-----------------------------------------------------------------------------
(* The standstills last *)

\* The main loop is in the queue of the lock while it waits for it.
MainWaits == mpc \in {"look", "setup", "deliver"} => \E i \in 1..Len(lockq) : lockq[i] = Main

\* Nobody takes the main loop out of the queue but itself.
LEMMA MainWaitsStep == UdpInv /\ MainWaits /\ [Next]_vars => MainWaits'
<1> SUFFICES ASSUME UdpInv, MainWaits, [Next]_vars PROVE MainWaits'
  OBVIOUS
<1> USE DEF UdpInv, TypeOK, MainWaits
<1>1. ASSUME NEW v \in Visitor, ReadPacket(v) PROVE MainWaits'
  BY <1>1 DEF ReadPacket
<1>2. CASE AskWriter \/ AskReader
  BY <1>2 DEF AskWriter, AskReader
<1>3. CASE \/ ReadError \/ LookUp \/ GrabWriter \/ ConnectFails \/ FindSender \/ SendPacket
           \/ \E f \in Fwd : StartForwarder(f)
  BY <1>3 DEF ReadError, LookUp, GrabWriter, ConnectFails, FindSender, SendPacket, StartForwarder
<1>4. ASSUME NEW f \in Fwd, AskRemove(f) PROVE MainWaits'
  BY <1>4 DEF AskRemove, mainVars
<1>5. ASSUME NEW f \in Fwd, RemoveMapping(f) PROVE MainWaits'
  <2> SUFFICES ASSUME mpc \in {"look", "setup", "deliver"}
               PROVE  \E i \in 1..Len(lockq') : lockq'[i] = Main
    BY <1>5 DEF RemoveMapping, mainVars
  <2>1. PICK i \in 1..Len(lockq) : lockq[i] = Main
    OBVIOUS
  <2>2. i # 1
    BY <1>5, <2>1, UdpAssumption DEF RemoveMapping, WriterTurn, Turn
  <2>3. i - 1 \in 1..Len(lockq') /\ lockq'[i - 1] = lockq[i]
    BY <1>5, <2>2 DEF RemoveMapping, WriterTurn, Turn
  <2> QED
    BY <2>1, <2>3
<1>6. CASE \/ WriteToServer \/ WriteFails
           \/ \E f \in Fwd : ForwardIn(f) \/ ReceiveFromService(f) \/ ForwardOut(f) \/ LeaveLoop(f)
  BY <1>6 DEF WriteToServer, WriteFails, ForwardIn, ReceiveFromService, ForwardOut, LeaveLoop, mainVars
<1>7. CASE UNCHANGED vars
  BY <1>7 DEF vars, mainVars
<1> QED
  BY <1>1, <1>2, <1>3, <1>4, <1>5, <1>6, <1>7 DEF Next, HandlePacket

\* A client that has wedged stays so: the writer at the head of the queue waits
\* for the guard of the loop, and no other task takes either of them out.
LEMMA WedgedStep == UdpInv /\ MainWaits /\ Wedged /\ [Next]_vars => Wedged'
<1> SUFFICES ASSUME UdpInv, MainWaits, Wedged, [Next]_vars PROVE Wedged'
  OBVIOUS
<1> USE DEF UdpInv, TypeOK, Receiver
<1>1. CASE mpc = "deliver" /\ held > 0 /\ Head(lockq) # Main
  <2>1. lockq # <<>>
    BY <1>1 DEF MainWaits
  <2>2. ASSUME NEW f \in Fwd, AskRemove(f) PROVE Wedged'
    BY <1>1, <2>1, <2>2 DEF Wedged, AskRemove, mainVars
  <2>3. ~HandlePacket /\ ~ReadError /\ \A v \in Visitor : ~ReadPacket(v)
    BY <1>1 DEF HandlePacket, LookUp, AskWriter, GrabWriter, StartForwarder, ConnectFails, AskReader,
                FindSender, SendPacket, Turn, ReadError, ReadPacket
  <2>4. \A f \in Fwd : ~RemoveMapping(f)
    BY <1>1 DEF RemoveMapping, WriterTurn
  <2>5. CASE \/ WriteToServer \/ WriteFails \/ UNCHANGED vars
             \/ \E f \in Fwd : ForwardIn(f) \/ ReceiveFromService(f) \/ ForwardOut(f) \/ LeaveLoop(f)
    BY <1>1, <2>5 DEF Wedged, WriteToServer, WriteFails, ForwardIn, ReceiveFromService, ForwardOut,
                      LeaveLoop, vars, mainVars
  <2> QED
    BY <2>2, <2>3, <2>4, <2>5 DEF Next
<1>2. CASE mpc = "sending" /\ fpc[Receiver] \in {"remove", "asked"} /\ inq[Receiver] = InCap
  <2>1. held > 0 /\ Receiver \in Fwd
    BY <1>2 DEF MappingIsKept
  <2>2. ~HandlePacket /\ ~ReadError /\ \A v \in Visitor : ~ReadPacket(v)
    BY <1>2, <2>1, UdpAssumption
    DEF HandlePacket, LookUp, AskWriter, GrabWriter, StartForwarder, ConnectFails, AskReader,
        FindSender, SendPacket, ReceiverLives, Live, ReadError, ReadPacket
  <2>3. \A f \in Fwd : ~RemoveMapping(f)
    BY <2>1 DEF RemoveMapping, WriterTurn
  <2>4. ASSUME NEW f \in Fwd,
               ForwardIn(f) \/ ReceiveFromService(f) \/ ForwardOut(f) \/ LeaveLoop(f) \/ AskRemove(f)
        PROVE  Wedged'
    BY <1>2, <2>1, <2>4
    DEF Wedged, ForwardIn, ReceiveFromService, ForwardOut, LeaveLoop, AskRemove, mainVars
  <2>5. CASE WriteToServer \/ WriteFails \/ UNCHANGED vars
    BY <1>2, <2>5 DEF Wedged, WriteToServer, WriteFails, vars, mainVars, fwdVars
  <2> QED
    BY <2>2, <2>3, <2>4, <2>5 DEF Next
<1> QED
  BY <1>1, <1>2 DEF Wedged

\* The first standstill is for good: no packet, timeout, reload or break of the
\* connection gets the data channel task of the client on again.
THEOREM WedgedIsForGood == ServiceSpec => [][Wedged => Wedged']_serviceVars
<1>1. Init => MainWaits
  BY DEF Init, MainWaits
<1>2. ServiceInit => Init /\ WireOK
  BY DEF ServiceInit, WireOK
<1>3. UdpInv /\ MainWaits /\ WireOK /\ [ServiceNext]_serviceVars => [Wedged => Wedged']_serviceVars
  BY WedgedStep, ServiceStep
<1> QED
  BY <1>1, <1>2, <1>3, UdpInvariant, MainWaitsStep, WireOKStep, ServiceStep, ServiceRunsForwarder, PTL
  DEF Spec, ServiceSpec

\* The second standstill ends only with the connection: the shutdown signal
\* does not reach the pool, which looks at it between two packets only.
OnlyBreaksEndGridlock == Gridlock => Gridlock' \/ WireBreaks
THEOREM GridlockNeedsBreak == ServiceSpec => [][OnlyBreaksEndGridlock]_serviceVars
<1>1. ASSUME UdpInv, [ServiceNext]_serviceVars, Gridlock, ~WireBreaks PROVE Gridlock'
  <2>1. /\ spc = "writing" /\ wire = "up" /\ Len(toClient) = WireCap /\ toServer = WireCap
        /\ mpc = "sending" /\ fpc[Receiver] = "out" /\ inq[Receiver] = InCap
        /\ outq = OutCap
    BY <1>1 DEF Gridlock
  <2>2. outUp
    BY <1>1, Zenon DEF Gridlock
  <2>3. held > 0 /\ Receiver \in Fwd
    BY <1>1, <2>1 DEF UdpInv, MappingIsKept, Receiver
  <2>4. ~PoolStep /\ ~SocketError /\ \A v \in Visitor : ~RecvVisitor(v)
    BY <2>1, WireAssumption
    DEF PoolStep, Bind, BindShutdown, TakeChannel, NoChannel, WriteCommand, WriteSlice, ReadReply,
        ConnError, ObeyShutdown, SocketError, RecvVisitor
  <2>5. ~ClientReads /\ ~ClientReadError /\ ~ClientWrites /\ ~ClientWriteFails /\ ~ClientHandles
    <3>1. ~ClientWrites /\ ~ClientWriteFails /\ ~ClientReads /\ ~ClientReadError
      BY <2>1, WireAssumption
      DEF ClientWrites, ClientWriteFails, ClientReads, ClientReadError, ReadPacket
    <3>2. ~SendPacket
      BY <2>1, UdpAssumption DEF SendPacket, ReceiverLives, Live
    <3>3. ~ClientHandles
      BY <2>1, <3>2 DEF ClientHandles, HandlePacket, LookUp, AskWriter, GrabWriter, StartForwarder,
                        ConnectFails, AskReader, FindSender
    <3> QED
      BY <3>1, <3>3
  <2>6. CASE ControlEnds \/ DropHandle \/ UNCHANGED serviceVars
    BY <1>1, <2>6, Zenon
    DEF Gridlock, Receiver, ControlEnds, DropHandle, serviceVars, clientVars, vars, mainVars,
        fwdVars, poolVars, wireVars
  <2>7. ASSUME NEW f \in Fwd,
               ForwarderIn(f) \/ ForwarderOut(f) \/ ForwarderRemoves(f) \/ ServiceActs(f)
        PROVE  Gridlock'
    <3>1. ~ForwardOut(f)
      <4>1. ~(outq < OutCap)
        BY <2>1, UdpAssumption
      <4> QED
        BY <2>2, <4>1, Zenon DEF ForwardOut
    <3>2. ~RemoveMapping(f)
      BY <2>3 DEF RemoveMapping, WriterTurn
    <3>3. /\ ForwardIn(f) \/ AskRemove(f) \/ ReceiveFromService(f) \/ LeaveLoop(f)
          /\ ServerUnchanged
      BY <2>7, <3>1, <3>2 DEF ForwarderIn, ForwarderOut, ForwarderRemoves, ServiceActs
    <3>4. UNCHANGED <<mpc, pkt, portMap, outq, outUp, spc, wire, toClient, toServer>>
      BY <3>3 DEF ForwardIn, AskRemove, ReceiveFromService, LeaveLoop, ServerUnchanged, mainVars,
                  poolVars, wireVars
    <3>5. fpc'[Receiver] = "out" /\ inq'[Receiver] = InCap
      BY <1>1, <2>1, <2>3, <3>3
      DEF ForwardIn, AskRemove, ReceiveFromService, LeaveLoop, fwdVars, UdpInv, TypeOK
    <3>6. Receiver' = Receiver
      BY <3>4 DEF Receiver
    <3>7. outUp'
      BY <2>2, <3>4, Zenon
    <3> QED
      BY <2>1, <3>4, <3>5, <3>6, <3>7, Zenon DEF Gridlock
  <2> QED
    BY <1>1, <2>4, <2>5, <2>6, <2>7 DEF ServiceNext
<1>2. UdpInv /\ [ServiceNext]_serviceVars => [OnlyBreaksEndGridlock]_serviceVars
  BY <1>1 DEF OnlyBreaksEndGridlock
<1> QED
  BY <1>2, UdpInvariant, ServiceRunsForwarder, PTL DEF ServiceSpec
=============================================================================
