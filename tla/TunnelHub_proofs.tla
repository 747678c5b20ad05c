-------------------------- MODULE TunnelHub_proofs --------------------------
(***************************************************************************)
(* Proofs about TunnelHub, for any connections, tunnels, requests and      *)
(* channel capacities: the books of the responses map and of the tunnels   *)
(* map are right in every interleaving of sessions, handlers and cleanup,  *)
(* and what a guard on the tunnels map keeps others from doing.            *)
(***************************************************************************)
EXTENDS TunnelHub, TLAPS

\* A waiting queue after an element is appended.
LEMMA QueueAppend ==
    ASSUME NEW S, NEW q \in Seq(S), NEW x \in S, NEW y
    PROVE  InQueue(Append(q, x), y) <=> InQueue(q, y) \/ y = x
<1>1. Len(Append(q, x)) = Len(q) + 1 /\ Append(q, x)[Len(q) + 1] = x
  OBVIOUS
<1>2. \A i \in 1..Len(q) : Append(q, x)[i] = q[i]
  OBVIOUS
<1> QED
  BY <1>1, <1>2 DEF InQueue

\* A waiting queue is its head and its tail.
LEMMA QueueTail ==
    ASSUME NEW S, NEW q \in Seq(S), q # <<>>, NEW y
    PROVE  /\ Head(q) \in S /\ Tail(q) \in Seq(S) /\ Len(Tail(q)) = Len(q) - 1
           /\ InQueue(q, y) <=> y = Head(q) \/ InQueue(Tail(q), y)
<1>1. /\ Head(q) \in S /\ Tail(q) \in Seq(S) /\ Len(Tail(q)) = Len(q) - 1
      /\ Head(q) = q[1] /\ Len(q) \in Nat \ {0}
  OBVIOUS
<1>2. \A i \in 1..(Len(q) - 1) : Tail(q)[i] = q[i + 1]
  OBVIOUS
<1>3. ASSUME InQueue(q, y), y # Head(q) PROVE InQueue(Tail(q), y)
  <2>1. PICK i \in 1..Len(q) : q[i] = y
    BY <1>3 DEF InQueue
  <2>2. i - 1 \in 1..(Len(q) - 1)
    BY <1>1, <1>3, <2>1
  <2>3. Tail(q)[i - 1] = y
    BY <1>1, <1>2, <2>1, <2>2
  <2> QED
    BY <1>1, <2>2, <2>3 DEF InQueue
<1>4. ASSUME InQueue(Tail(q), y) PROVE InQueue(q, y)
  <2>1. PICK i \in 1..(Len(q) - 1) : Tail(q)[i] = y
    BY <1>1, <1>4 DEF InQueue
  <2>2. i + 1 \in 1..Len(q) /\ q[i + 1] = y
    BY <1>1, <1>2, <2>1
  <2> QED
    BY <2>2 DEF InQueue
<1> QED
  BY <1>1, <1>3, <1>4 DEF InQueue

\* Taking a waiter out of a queue leaves a queue.
LEMMA WithoutType ==
    ASSUME NEW S, NEW q \in Seq(S), NEW w
    PROVE  Without(q, w) \in Seq(S)
<1> DEFINE k == CHOOSE k \in 1..Len(q) : q[k] = w
           n == IF Len(q) = 0 THEN 0 ELSE Len(q) - 1
           f(i) == IF i < k THEN q[i] ELSE q[i + 1]
<1>1. n \in Nat /\ 1..n = 1..(Len(q) - 1)
  OBVIOUS
<1>2. \A i \in 1..n : f(i) \in S
  BY <1>1
<1> HIDE DEF n, f
<1>3. [i \in 1..n |-> f(i)] \in Seq(S)
  BY <1>1, <1>2
<1>4. Without(q, w) = [i \in 1..n |-> f(i)]
  BY <1>1 DEF Without, f
<1> QED
  BY <1>3, <1>4
-----------------------------------------------------------------------------
\* What the types rest on: a session past the websocket upgrade has an id, a
\* session that sends has something to send, a request that arrived has an id.
IdsKnown ==
    /\ \A c \in Conn : conn[c] # "free" => cid[c] \in Tunnel
    /\ \A c \in Conn : conn[c] = "sending" => cur[c] \in Req
    /\ \A r \in Req : rpc[r] # "new" => rid[r] \in Tunnel
    /\ \A r \in Req : rpc[r] \in {"insert", "body", "send"} => rconn[r] \in Conn

Early == {"new", "lookup", "cloud", "insert"}
Given(c, r) == InQueue(chan[c], r) \/ cur[c] = r \/ r \in wire[c]

\* A session has a request only if the handler sent it there: after its entry
\* went into the responses map.
GivenBySend ==
    \A c \in Conn, r \in Req :
        Given(c, r) => rconn[r] = c /\ rpc[r] \notin Early \cup {"body", "send"}

\* The entry of a request goes into the map when the handler leaves "insert",
\* and the answer comes, and is reported, after the request was sent.
EntryInTime ==
    \A r \in Req :
        /\ rpc[r] \in Early => r \notin responses
        /\ rpc[r] \in {"body", "send"} => r \in responses
        /\ rpc[r] \in Early \cup {"body", "send"} => slot[r] = NoConn
        /\ mark[r] # "none" => rpc[r] \in {"ok", "bad_response", "bad_gateway", "expire",
                                          "timed_out", "cancelled", "reset"}

\* The sender in the tunnels map is that of a session that got past its insert.
SenderIsInserted ==
    \A t \in Tunnel : tunnels[t] # NoConn =>
        conn[tunnels[t]] \in {"loop", "sending", "cleanup", "closed"}

\* Types, ids and requests on their way; the books of the responses map, the
\* slots and the reports; the books of the tunnels map and of redis.
GivenBooks == IdsKnown /\ GivenBySend
EntryBooks ==
    /\ EntryInTime /\ WaitingHasSource /\ AnsweredByTarget
    /\ LeakSources /\ MarkAgreesWithOutcome
SenderBooks == SenderIsInserted /\ DeadSenderIsCleaned /\ OnlineHasSession

HubInv == TypeOK /\ GivenBooks /\ EntryBooks /\ SenderBooks

\* The initial states: nothing is registered, sent or reported.
LEMMA HubInvInit == Init => HubInv
<1> SUFFICES ASSUME Init PROVE HubInv
  OBVIOUS
<1> USE NullAssumption, CapAssumption DEF Init
<1>1. TypeOK
  BY DEF TypeOK, ConnStates, Active, Outcomes, Waiter, AllRoutes
<1>2. GivenBooks
  BY DEF GivenBooks, IdsKnown, GivenBySend, Given, InQueue
<1>3. EntryBooks
  BY DEF EntryBooks, EntryInTime, WaitingHasSource, AnsweredByTarget, LeakSources,
         MarkAgreesWithOutcome
<1>4. SenderBooks
  BY DEF SenderBooks, SenderIsInserted, DeadSenderIsCleaned, OnlineHasSession
<1> QED
  BY <1>1, <1>2, <1>3, <1>4 DEF HubInv

\* Every step keeps the types.
LEMMA TypeStep == HubInv /\ [Next]_vars => TypeOK'
<1> SUFFICES ASSUME HubInv, [Next]_vars PROVE TypeOK'
  OBVIOUS
<1> USE NullAssumption, CapAssumption, InputAssumption DEF HubInv, TypeOK, GivenBooks, IdsKnown, ConnStates, Active, Outcomes, Waiter, AllRoutes
<1>1. ASSUME NEW c \in Conn, NEW t \in Tunnel, Register(c, t) PROVE TypeOK'
  BY <1>1 DEF Register, connVars, hubVars, lockVars, reqVars
<1>2. ASSUME NEW c \in Conn, BadHello(c) PROVE TypeOK'
  BY <1>2 DEF BadHello, connVars, hubVars, lockVars, reqVars
<1>3. ASSUME NEW c \in Conn, RejectedHello(c) PROVE TypeOK'
  BY <1>3 DEF RejectedHello, connVars, hubVars, lockVars, reqVars
<1>4. ASSUME NEW c \in Conn, AcceptedHello(c) PROVE TypeOK'
  BY <1>4 DEF AcceptedHello, connVars, hubVars, lockVars, reqVars
<1>5. ASSUME NEW c \in Conn, AskInsert(c) PROVE TypeOK'
  BY <1>5 DEF AskInsert, connVars, hubVars, lockVars, reqVars
<1>6. ASSUME NEW c \in Conn, InsertTunnel(c) PROVE TypeOK'
  BY <1>6 DEF InsertTunnel, WriterTurn, connVars, hubVars, lockVars, reqVars
<1>7. ASSUME NEW c \in Conn, TakeMessage(c) PROVE TypeOK'
  BY <1>7 DEF TakeMessage, connVars, hubVars, lockVars, reqVars
<1>8. ASSUME NEW c \in Conn, SocketSent(c) PROVE TypeOK'
  BY <1>8 DEF SocketSent, connVars, hubVars, lockVars, reqVars
<1>9. ASSUME NEW c \in Conn, BreakLoop(c) PROVE TypeOK'
  BY <1>9 DEF BreakLoop, connVars, hubVars, lockVars, reqVars
<1>10. ASSUME NEW c \in Conn, SendCleanup(c) PROVE TypeOK'
  BY <1>10 DEF SendCleanup, connVars, hubVars, lockVars, reqVars
<1>11. ASSUME NEW c \in Conn, NEW r \in Req, ReceiveResponse(c, r) PROVE TypeOK'
  BY <1>11 DEF ReceiveResponse, connVars, hubVars, lockVars, reqVars
<1>12. CASE CleanupOffline
  BY <1>12 DEF CleanupOffline, connVars, hubVars, lockVars, reqVars
<1>13. CASE CleanupAsk
  BY <1>13 DEF CleanupAsk, connVars, hubVars, lockVars, reqVars
<1>14. CASE CleanupRemove
  BY <1>14 DEF CleanupRemove, WriterTurn, connVars, hubVars, lockVars, reqVars
<1>15. ASSUME NEW r \in Req, NEW rt \in Routes[r], NEW t \in Tunnel, Arrive(r, rt, t) PROVE TypeOK'
  <2>1. Routes[r] \in SUBSET AllRoutes
    OBVIOUS
  <2>2. rt \in AllRoutes
    BY <2>1
  <2> HIDE DEF AllRoutes
  <2> QED
    BY <1>15, <2>2 DEF Arrive, connVars, hubVars, lockVars, reqVars
<1>16. ASSUME NEW r \in Req, LookupHeld(r) PROVE TypeOK'
  BY <1>16 DEF LookupHeld, ReaderTurn, connVars, hubVars, lockVars, reqVars
<1>17. ASSUME NEW r \in Req, StickyMiss(r) PROVE TypeOK'
  BY <1>17 DEF StickyMiss, ReaderTurn, connVars, hubVars, lockVars, reqVars
<1>18. ASSUME NEW r \in Req, TunnelNotFound(r) PROVE TypeOK'
  BY <1>18 DEF TunnelNotFound, ReaderTurn, connVars, hubVars, lockVars, reqVars
<1>19. ASSUME NEW r \in Req, LookupCloud(r) PROVE TypeOK'
  BY <1>19 DEF LookupCloud, ReaderTurn, connVars, hubVars, lockVars, reqVars
<1>20. ASSUME NEW r \in Req, InsertResponse(r) PROVE TypeOK'
  BY <1>20 DEF InsertResponse, connVars, hubVars, lockVars, reqVars
<1>21. ASSUME NEW r \in Req, BodyError(r) PROVE TypeOK'
  BY <1>21 DEF BodyError, Finish, connVars, hubVars, lockVars, reqVars
<1>22. ASSUME NEW r \in Req, SendRequest(r) PROVE TypeOK'
  BY <1>22 DEF SendRequest, ReceiverOpen, connVars, hubVars, lockVars, reqVars
<1>23. ASSUME NEW r \in Req, SendFailed(r) PROVE TypeOK'
  <2>1. rpc[r] = "send" /\ UNCHANGED <<connVars, hubVars, lockq, route, rid, rconn, slot>>
    BY <1>23 DEF SendFailed
  <2>2. CASE /\ route[r] = "tunnel" /\ Finish(r, "send_error")
             /\ UNCHANGED <<responses, mark>>
    BY <2>1, <2>2 DEF Finish, connVars, hubVars
  <2>3. CASE /\ route[r] # "tunnel" /\ Finish(r, "bad_gateway")
             /\ responses' = responses \ {r} /\ mark' = [mark EXCEPT ![r] = "failure"]
    BY <2>1, <2>3 DEF Finish, connVars, hubVars
  <2> QED
    BY <1>23, <2>2, <2>3 DEF SendFailed
<1>24. ASSUME NEW r \in Req, GotResponse(r) PROVE TypeOK'
  BY <1>24 DEF GotResponse, Finish, connVars, hubVars, lockVars, reqVars
<1>25. ASSUME NEW r \in Req, RequestTimeout(r) PROVE TypeOK'
  BY <1>25 DEF RequestTimeout, connVars, hubVars, lockVars, reqVars
<1>26. ASSUME NEW r \in Req, RemoveExpired(r) PROVE TypeOK'
  BY <1>26 DEF RemoveExpired, Finish, connVars, hubVars, lockVars, reqVars
<1>27. ASSUME NEW r \in Req, Cancel(r) PROVE TypeOK'
  <2>1. lockq' \in Seq(Waiter)
    BY <1>27, WithoutType DEF Cancel
  <2> QED
    BY <1>27, <2>1 DEF Cancel, Finish, connVars, hubVars, lockVars, reqVars
<1>28. ASSUME NEW r \in Req, NEW t \in Tunnel, LookupBest(r, t) PROVE TypeOK'
  BY <1>28 DEF LookupBest, ReaderTurn, connVars, hubVars, lockVars, reqVars
<1>29. ASSUME NEW r \in Req, CloudReply(r) PROVE TypeOK'
  BY <1>29 DEF CloudReply, connVars, hubVars, lockVars, reqVars
<1>31. ASSUME NEW r \in Req, BodyRead(r) PROVE TypeOK'
  BY <1>31 DEF BodyRead, connVars, hubVars, lockVars, reqVars
<1>32. CASE ProcessEnds
  BY <1>32 DEF ProcessEnds
<1>33. CASE Restart
  BY <1>33 DEF Restart, connVars, lockVars, reqVars
<1>30. CASE UNCHANGED vars
  BY <1>30 DEF vars, connVars, hubVars, lockVars, reqVars
<1> HIDE DEF HubInv, TypeOK, GivenBooks, IdsKnown, ConnStates, Active, Outcomes, Waiter, AllRoutes
<1> QED
  BY <1>1, <1>2, <1>3, <1>4, <1>5, <1>6, <1>7, <1>8, <1>9, <1>10,
     <1>11, <1>12, <1>13, <1>14, <1>15, <1>16, <1>17, <1>18, <1>19, <1>20,
     <1>21, <1>22, <1>23, <1>24, <1>25, <1>26, <1>27, <1>28, <1>29, <1>30,
     <1>31, <1>32, <1>33
  DEF Next, SessionNext, CleanupNext, RequestNext, LookupNext, HandlerNext, VisitorNext,
      ProcessNext, Abort, Exit

\* Every step keeps what is known of ids and of requests given to sessions.
LEMMA GivenStep == HubInv /\ [Next]_vars => GivenBooks'
<1> SUFFICES ASSUME HubInv, [Next]_vars PROVE GivenBooks'
  OBVIOUS
<1> USE NullAssumption, CapAssumption, InputAssumption DEF HubInv, TypeOK, GivenBooks, IdsKnown, GivenBySend, Given, Early
<1>1. ASSUME NEW c \in Conn, NEW t \in Tunnel, Register(c, t) PROVE GivenBooks'
  BY <1>1 DEF Register, connVars, hubVars, lockVars, reqVars
<1>2. ASSUME NEW c \in Conn, BadHello(c) PROVE GivenBooks'
  BY <1>2 DEF BadHello, connVars, hubVars, lockVars, reqVars
<1>3. ASSUME NEW c \in Conn, RejectedHello(c) PROVE GivenBooks'
  BY <1>3 DEF RejectedHello, connVars, hubVars, lockVars, reqVars
<1>4. ASSUME NEW c \in Conn, AcceptedHello(c) PROVE GivenBooks'
  BY <1>4 DEF AcceptedHello, connVars, hubVars, lockVars, reqVars
<1>5. ASSUME NEW c \in Conn, AskInsert(c) PROVE GivenBooks'
  BY <1>5 DEF AskInsert, connVars, hubVars, lockVars, reqVars
<1>6. ASSUME NEW c \in Conn, InsertTunnel(c) PROVE GivenBooks'
  BY <1>6 DEF InsertTunnel, WriterTurn, connVars, hubVars, lockVars, reqVars
<1>7. ASSUME NEW c \in Conn, TakeMessage(c) PROVE GivenBooks'
  <2>1. chan[c] \in Seq(Req) /\ chan[c] # <<>>
    BY <1>7 DEF TakeMessage
  <2>2. \A q : InQueue(chan[c], q) <=> q = Head(chan[c]) \/ InQueue(Tail(chan[c]), q)
    BY <2>1, QueueTail
  <2>3. Head(chan[c]) \in Req
    BY <2>1, QueueTail
  <2> QED
    BY <1>7, <2>2, <2>3 DEF TakeMessage, hubVars, lockVars, reqVars
<1>8. ASSUME NEW c \in Conn, SocketSent(c) PROVE GivenBooks'
  BY <1>8 DEF SocketSent, connVars, hubVars, lockVars, reqVars
<1>9. ASSUME NEW c \in Conn, BreakLoop(c) PROVE GivenBooks'
  <2>1. \A q : ~InQueue(<<>>, q)
    BY DEF InQueue
  <2> QED
    BY <1>9, <2>1 DEF BreakLoop, hubVars, lockVars, reqVars
<1>10. ASSUME NEW c \in Conn, SendCleanup(c) PROVE GivenBooks'
  BY <1>10 DEF SendCleanup, connVars, hubVars, lockVars, reqVars
<1>11. ASSUME NEW c \in Conn, NEW r \in Req, ReceiveResponse(c, r) PROVE GivenBooks'
  BY <1>11 DEF ReceiveResponse, connVars, hubVars, lockVars, reqVars
<1>12. CASE CleanupOffline
  BY <1>12 DEF CleanupOffline, connVars, hubVars, lockVars, reqVars
<1>13. CASE CleanupAsk
  BY <1>13 DEF CleanupAsk, connVars, hubVars, lockVars, reqVars
<1>14. CASE CleanupRemove
  BY <1>14 DEF CleanupRemove, WriterTurn, connVars, hubVars, lockVars, reqVars
<1>15. ASSUME NEW r \in Req, NEW rt \in Routes[r], NEW t \in Tunnel, Arrive(r, rt, t) PROVE GivenBooks'
  BY <1>15 DEF Arrive, connVars, hubVars, lockVars, reqVars
<1>16. ASSUME NEW r \in Req, LookupHeld(r) PROVE GivenBooks'
  BY <1>16 DEF LookupHeld, ReaderTurn, connVars, hubVars, lockVars, reqVars
<1>17. ASSUME NEW r \in Req, StickyMiss(r) PROVE GivenBooks'
  BY <1>17 DEF StickyMiss, ReaderTurn, connVars, hubVars, lockVars, reqVars
<1>18. ASSUME NEW r \in Req, TunnelNotFound(r) PROVE GivenBooks'
  BY <1>18 DEF TunnelNotFound, ReaderTurn, connVars, hubVars, lockVars, reqVars
<1>19. ASSUME NEW r \in Req, LookupCloud(r) PROVE GivenBooks'
  BY <1>19 DEF LookupCloud, ReaderTurn, connVars, hubVars, lockVars, reqVars
<1>20. ASSUME NEW r \in Req, InsertResponse(r) PROVE GivenBooks'
  BY <1>20 DEF InsertResponse, connVars, hubVars, lockVars, reqVars
<1>21. ASSUME NEW r \in Req, BodyError(r) PROVE GivenBooks'
  BY <1>21 DEF BodyError, Finish, connVars, hubVars, lockVars, reqVars
<1>22. ASSUME NEW r \in Req, SendRequest(r) PROVE GivenBooks'
  <2>1. rconn[r] \in Conn /\ chan[rconn[r]] \in Seq(Req)
    BY <1>22 DEF SendRequest
  <2>2. \A q : InQueue(Append(chan[rconn[r]], r), q) <=> InQueue(chan[rconn[r]], q) \/ q = r
    BY <2>1, QueueAppend
  <2> QED
    BY <1>22, <2>1, <2>2 DEF SendRequest, hubVars, lockVars
<1>23. ASSUME NEW r \in Req, SendFailed(r) PROVE GivenBooks'
  BY <1>23 DEF SendFailed, Finish, ReceiverOpen, connVars, hubVars, lockVars, reqVars
<1>24. ASSUME NEW r \in Req, GotResponse(r) PROVE GivenBooks'
  BY <1>24 DEF GotResponse, Finish, connVars, hubVars, lockVars, reqVars
<1>25. ASSUME NEW r \in Req, RequestTimeout(r) PROVE GivenBooks'
  BY <1>25 DEF RequestTimeout, connVars, hubVars, lockVars, reqVars
<1>26. ASSUME NEW r \in Req, RemoveExpired(r) PROVE GivenBooks'
  BY <1>26 DEF RemoveExpired, Finish, connVars, hubVars, lockVars, reqVars
<1>27. ASSUME NEW r \in Req, Cancel(r) PROVE GivenBooks'
  BY <1>27 DEF Cancel, Finish, Active, connVars, hubVars, lockVars, reqVars
<1>28. ASSUME NEW r \in Req, NEW t \in Tunnel, LookupBest(r, t) PROVE GivenBooks'
  BY <1>28 DEF LookupBest, ReaderTurn, connVars, hubVars, lockVars, reqVars
<1>29. ASSUME NEW r \in Req, CloudReply(r) PROVE GivenBooks'
  BY <1>29 DEF CloudReply, connVars, hubVars, lockVars, reqVars
<1>31. ASSUME NEW r \in Req, BodyRead(r) PROVE GivenBooks'
  BY <1>31 DEF BodyRead, connVars, hubVars, lockVars, reqVars
<1>32. CASE ProcessEnds
  BY <1>32 DEF ProcessEnds, Active, InQueue
<1>33. CASE Restart
  BY <1>33 DEF Restart, connVars, lockVars, reqVars
<1>30. CASE UNCHANGED vars
  BY <1>30 DEF vars, connVars, hubVars, lockVars, reqVars
<1> HIDE DEF HubInv, TypeOK, GivenBooks, IdsKnown, GivenBySend, Given, Early
<1> QED
  BY <1>1, <1>2, <1>3, <1>4, <1>5, <1>6, <1>7, <1>8, <1>9, <1>10,
     <1>11, <1>12, <1>13, <1>14, <1>15, <1>16, <1>17, <1>18, <1>19, <1>20,
     <1>21, <1>22, <1>23, <1>24, <1>25, <1>26, <1>27, <1>28, <1>29, <1>30,
     <1>31, <1>32, <1>33
  DEF Next, SessionNext, CleanupNext, RequestNext, LookupNext, HandlerNext, VisitorNext,
      ProcessNext, Abort, Exit

\* Every step keeps the books of the responses map, the slots and the reports.
LEMMA EntryStep == HubInv /\ [Next]_vars => EntryBooks'
<1> SUFFICES ASSUME HubInv, [Next]_vars PROVE EntryBooks'
  OBVIOUS
<1> USE NullAssumption, CapAssumption, InputAssumption DEF HubInv, TypeOK, GivenBooks, GivenBySend, Given, EntryBooks, EntryInTime,
    WaitingHasSource, AnsweredByTarget, LeakSources, MarkAgreesWithOutcome, Early, Outcomes
<1>1. ASSUME NEW c \in Conn, NEW t \in Tunnel, Register(c, t) PROVE EntryBooks'
  BY <1>1 DEF Register, connVars, hubVars, lockVars, reqVars
<1>2. ASSUME NEW c \in Conn, BadHello(c) PROVE EntryBooks'
  BY <1>2 DEF BadHello, connVars, hubVars, lockVars, reqVars
<1>3. ASSUME NEW c \in Conn, RejectedHello(c) PROVE EntryBooks'
  BY <1>3 DEF RejectedHello, connVars, hubVars, lockVars, reqVars
<1>4. ASSUME NEW c \in Conn, AcceptedHello(c) PROVE EntryBooks'
  BY <1>4 DEF AcceptedHello, connVars, hubVars, lockVars, reqVars
<1>5. ASSUME NEW c \in Conn, AskInsert(c) PROVE EntryBooks'
  BY <1>5 DEF AskInsert, connVars, hubVars, lockVars, reqVars
<1>6. ASSUME NEW c \in Conn, InsertTunnel(c) PROVE EntryBooks'
  BY <1>6 DEF InsertTunnel, WriterTurn, connVars, hubVars, lockVars, reqVars
<1>7. ASSUME NEW c \in Conn, TakeMessage(c) PROVE EntryBooks'
  BY <1>7 DEF TakeMessage, connVars, hubVars, lockVars, reqVars
<1>8. ASSUME NEW c \in Conn, SocketSent(c) PROVE EntryBooks'
  BY <1>8 DEF SocketSent, connVars, hubVars, lockVars, reqVars
<1>9. ASSUME NEW c \in Conn, BreakLoop(c) PROVE EntryBooks'
  BY <1>9 DEF BreakLoop, connVars, hubVars, lockVars, reqVars
<1>10. ASSUME NEW c \in Conn, SendCleanup(c) PROVE EntryBooks'
  BY <1>10 DEF SendCleanup, connVars, hubVars, lockVars, reqVars
<1>11. ASSUME NEW c \in Conn, NEW r \in Req, ReceiveResponse(c, r) PROVE EntryBooks'
  BY <1>11 DEF ReceiveResponse, connVars, hubVars, lockVars, reqVars
<1>12. CASE CleanupOffline
  BY <1>12 DEF CleanupOffline, connVars, hubVars, lockVars, reqVars
<1>13. CASE CleanupAsk
  BY <1>13 DEF CleanupAsk, connVars, hubVars, lockVars, reqVars
<1>14. CASE CleanupRemove
  BY <1>14 DEF CleanupRemove, WriterTurn, connVars, hubVars, lockVars, reqVars
<1>15. ASSUME NEW r \in Req, NEW rt \in Routes[r], NEW t \in Tunnel, Arrive(r, rt, t) PROVE EntryBooks'
  BY <1>15 DEF Arrive, connVars, hubVars, lockVars, reqVars
<1>16. ASSUME NEW r \in Req, LookupHeld(r) PROVE EntryBooks'
  BY <1>16 DEF LookupHeld, ReaderTurn, connVars, hubVars, lockVars, reqVars
<1>17. ASSUME NEW r \in Req, StickyMiss(r) PROVE EntryBooks'
  BY <1>17 DEF StickyMiss, ReaderTurn, connVars, hubVars, lockVars, reqVars
<1>18. ASSUME NEW r \in Req, TunnelNotFound(r) PROVE EntryBooks'
  BY <1>18 DEF TunnelNotFound, ReaderTurn, connVars, hubVars, lockVars, reqVars
<1>19. ASSUME NEW r \in Req, LookupCloud(r) PROVE EntryBooks'
  BY <1>19 DEF LookupCloud, ReaderTurn, connVars, hubVars, lockVars, reqVars
<1>20. ASSUME NEW r \in Req, InsertResponse(r) PROVE EntryBooks'
  BY <1>20 DEF InsertResponse, connVars, hubVars, lockVars, reqVars
<1>21. ASSUME NEW r \in Req, BodyError(r) PROVE EntryBooks'
  BY <1>21 DEF BodyError, Finish, connVars, hubVars, lockVars, reqVars
<1>22. ASSUME NEW r \in Req, SendRequest(r) PROVE EntryBooks'
  BY <1>22 DEF SendRequest, ReceiverOpen, connVars, hubVars, lockVars, reqVars
<1>23. ASSUME NEW r \in Req, SendFailed(r) PROVE EntryBooks'
  <2>1. rpc[r] = "send" /\ UNCHANGED <<connVars, hubVars, lockq, route, rid, rconn, slot>>
    BY <1>23 DEF SendFailed
  <2>2. CASE /\ route[r] = "tunnel" /\ Finish(r, "send_error")
             /\ UNCHANGED <<responses, mark>>
    BY <2>1, <2>2 DEF Finish, connVars, hubVars
  <2>3. CASE /\ route[r] # "tunnel" /\ Finish(r, "bad_gateway")
             /\ responses' = responses \ {r} /\ mark' = [mark EXCEPT ![r] = "failure"]
    BY <2>1, <2>3 DEF Finish, connVars, hubVars
  <2> QED
    BY <1>23, <2>2, <2>3 DEF SendFailed
<1>24. ASSUME NEW r \in Req, GotResponse(r) PROVE EntryBooks'
  BY <1>24 DEF GotResponse, Finish, connVars, hubVars, lockVars, reqVars
<1>25. ASSUME NEW r \in Req, RequestTimeout(r) PROVE EntryBooks'
  BY <1>25 DEF RequestTimeout, connVars, hubVars, lockVars, reqVars
<1>26. ASSUME NEW r \in Req, RemoveExpired(r) PROVE EntryBooks'
  BY <1>26 DEF RemoveExpired, Finish, connVars, hubVars, lockVars, reqVars
<1>27. ASSUME NEW r \in Req, Cancel(r) PROVE EntryBooks'
  BY <1>27 DEF Cancel, Finish, Active, connVars, hubVars, lockVars, reqVars
<1>28. ASSUME NEW r \in Req, NEW t \in Tunnel, LookupBest(r, t) PROVE EntryBooks'
  BY <1>28 DEF LookupBest, ReaderTurn, connVars, hubVars, lockVars, reqVars
<1>29. ASSUME NEW r \in Req, CloudReply(r) PROVE EntryBooks'
  BY <1>29 DEF CloudReply, connVars, hubVars, lockVars, reqVars
<1>31. ASSUME NEW r \in Req, BodyRead(r) PROVE EntryBooks'
  BY <1>31 DEF BodyRead, connVars, hubVars, lockVars, reqVars
<1>32. CASE ProcessEnds
  BY <1>32 DEF ProcessEnds, Active
<1>33. CASE Restart
  BY <1>33 DEF Restart, connVars, lockVars, reqVars
<1>30. CASE UNCHANGED vars
  BY <1>30 DEF vars, connVars, hubVars, lockVars, reqVars
<1> HIDE DEF HubInv, TypeOK, GivenBooks, GivenBySend, Given, EntryBooks, EntryInTime,
    WaitingHasSource, AnsweredByTarget, LeakSources, MarkAgreesWithOutcome, Early, Outcomes
<1> QED
  BY <1>1, <1>2, <1>3, <1>4, <1>5, <1>6, <1>7, <1>8, <1>9, <1>10,
     <1>11, <1>12, <1>13, <1>14, <1>15, <1>16, <1>17, <1>18, <1>19, <1>20,
     <1>21, <1>22, <1>23, <1>24, <1>25, <1>26, <1>27, <1>28, <1>29, <1>30,
     <1>31, <1>32, <1>33
  DEF Next, SessionNext, CleanupNext, RequestNext, LookupNext, HandlerNext, VisitorNext,
      ProcessNext, Abort, Exit

\* Every step keeps the books of the tunnels map and of the status in redis.
LEMMA SenderStep == HubInv /\ [Next]_vars => SenderBooks'
<1> SUFFICES ASSUME HubInv, [Next]_vars PROVE SenderBooks'
  OBVIOUS
<1> USE NullAssumption, CapAssumption, InputAssumption DEF HubInv, TypeOK, GivenBooks, IdsKnown, SenderBooks, SenderIsInserted,
    DeadSenderIsCleaned, OnlineHasSession
<1>1. ASSUME NEW c \in Conn, NEW t \in Tunnel, Register(c, t) PROVE SenderBooks'
  <2>1. ASSUME NEW u \in Tunnel, tunnels[u] # NoConn PROVE tunnels[u] # c /\ tunnels[u] \in Conn
    <3>1. conn[tunnels[u]] \in {"loop", "sending", "cleanup", "closed"}
      BY <2>1
    <3> QED
      BY <1>1, <2>1, <3>1 DEF Register
  <2>2. SenderIsInserted' /\ DeadSenderIsCleaned'
    BY <1>1, <2>1 DEF Register, hubVars
  <2>3. OnlineHasSession'
    BY <1>1 DEF Register, hubVars
  <2> QED
    BY <2>2, <2>3
<1>2. ASSUME NEW c \in Conn, BadHello(c) PROVE SenderBooks'
  <2>1. ASSUME NEW u \in Tunnel, tunnels[u] # NoConn PROVE tunnels[u] # c /\ tunnels[u] \in Conn
    <3>1. conn[tunnels[u]] \in {"loop", "sending", "cleanup", "closed"}
      BY <2>1
    <3> QED
      BY <1>2, <2>1, <3>1 DEF BadHello
  <2>2. SenderIsInserted' /\ DeadSenderIsCleaned'
    BY <1>2, <2>1 DEF BadHello, hubVars
  <2>3. OnlineHasSession'
    BY <1>2 DEF BadHello, hubVars
  <2> QED
    BY <2>2, <2>3
<1>3. ASSUME NEW c \in Conn, RejectedHello(c) PROVE SenderBooks'
  BY <1>3 DEF RejectedHello, connVars, hubVars, lockVars, reqVars
<1>4. ASSUME NEW c \in Conn, AcceptedHello(c) PROVE SenderBooks'
  BY <1>4 DEF AcceptedHello, connVars, hubVars, lockVars, reqVars
<1>5. ASSUME NEW c \in Conn, AskInsert(c) PROVE SenderBooks'
  BY <1>5 DEF AskInsert, connVars, hubVars, lockVars, reqVars
<1>6. ASSUME NEW c \in Conn, InsertTunnel(c) PROVE SenderBooks'
  BY <1>6 DEF InsertTunnel, WriterTurn, connVars, hubVars, lockVars, reqVars
<1>7. ASSUME NEW c \in Conn, TakeMessage(c) PROVE SenderBooks'
  BY <1>7 DEF TakeMessage, connVars, hubVars, lockVars, reqVars
<1>8. ASSUME NEW c \in Conn, SocketSent(c) PROVE SenderBooks'
  BY <1>8 DEF SocketSent, connVars, hubVars, lockVars, reqVars
<1>9. ASSUME NEW c \in Conn, BreakLoop(c) PROVE SenderBooks'
  BY <1>9 DEF BreakLoop, connVars, hubVars, lockVars, reqVars
<1>10. ASSUME NEW c \in Conn, SendCleanup(c) PROVE SenderBooks'
  <2>1. \A u : InQueue(cleanup', u) <=> InQueue(cleanup, u) \/ u = cid[c]
    <3>1. cid[c] \in Tunnel
      BY <1>10 DEF SendCleanup
    <3> QED
      BY <1>10, <3>1, QueueAppend DEF SendCleanup
  <2>2. SenderIsInserted' /\ DeadSenderIsCleaned'
    BY <1>10, <2>1 DEF SendCleanup
  <2>3. OnlineHasSession'
    BY <1>10, <2>1 DEF SendCleanup
  <2> QED
    BY <2>2, <2>3
<1>11. ASSUME NEW c \in Conn, NEW r \in Req, ReceiveResponse(c, r) PROVE SenderBooks'
  BY <1>11 DEF ReceiveResponse, connVars, hubVars, lockVars, reqVars
<1>12. CASE CleanupOffline
  <2>1. \A u : InQueue(cleanup, u) <=> u = Head(cleanup) \/ InQueue(cleanup', u)
    BY <1>12, QueueTail DEF CleanupOffline
  <2>2. Head(cleanup) \in Tunnel
    BY <1>12, QueueTail DEF CleanupOffline
  <2> QED
    BY <1>12, <2>1, <2>2 DEF CleanupOffline, connVars
<1>13. CASE CleanupAsk
  BY <1>13 DEF CleanupAsk, connVars, hubVars, lockVars, reqVars
<1>14. CASE CleanupRemove
  BY <1>14 DEF CleanupRemove, WriterTurn, connVars, hubVars, lockVars, reqVars
<1>15. ASSUME NEW r \in Req, NEW rt \in Routes[r], NEW t \in Tunnel, Arrive(r, rt, t) PROVE SenderBooks'
  BY <1>15 DEF Arrive, connVars, hubVars, lockVars, reqVars
<1>16. ASSUME NEW r \in Req, LookupHeld(r) PROVE SenderBooks'
  BY <1>16 DEF LookupHeld, ReaderTurn, connVars, hubVars, lockVars, reqVars
<1>17. ASSUME NEW r \in Req, StickyMiss(r) PROVE SenderBooks'
  BY <1>17 DEF StickyMiss, ReaderTurn, connVars, hubVars, lockVars, reqVars
<1>18. ASSUME NEW r \in Req, TunnelNotFound(r) PROVE SenderBooks'
  BY <1>18 DEF TunnelNotFound, ReaderTurn, connVars, hubVars, lockVars, reqVars
<1>19. ASSUME NEW r \in Req, LookupCloud(r) PROVE SenderBooks'
  BY <1>19 DEF LookupCloud, ReaderTurn, connVars, hubVars, lockVars, reqVars
<1>20. ASSUME NEW r \in Req, InsertResponse(r) PROVE SenderBooks'
  BY <1>20 DEF InsertResponse, connVars, hubVars, lockVars, reqVars
<1>21. ASSUME NEW r \in Req, BodyError(r) PROVE SenderBooks'
  BY <1>21 DEF BodyError, Finish, connVars, hubVars, lockVars, reqVars
<1>22. ASSUME NEW r \in Req, SendRequest(r) PROVE SenderBooks'
  BY <1>22 DEF SendRequest, ReceiverOpen, connVars, hubVars, lockVars, reqVars
<1>23. ASSUME NEW r \in Req, SendFailed(r) PROVE SenderBooks'
  BY <1>23 DEF SendFailed, Finish, ReceiverOpen, connVars, hubVars, lockVars, reqVars
<1>24. ASSUME NEW r \in Req, GotResponse(r) PROVE SenderBooks'
  BY <1>24 DEF GotResponse, Finish, connVars, hubVars, lockVars, reqVars
<1>25. ASSUME NEW r \in Req, RequestTimeout(r) PROVE SenderBooks'
  BY <1>25 DEF RequestTimeout, connVars, hubVars, lockVars, reqVars
<1>26. ASSUME NEW r \in Req, RemoveExpired(r) PROVE SenderBooks'
  BY <1>26 DEF RemoveExpired, Finish, connVars, hubVars, lockVars, reqVars
<1>27. ASSUME NEW r \in Req, Cancel(r) PROVE SenderBooks'
  BY <1>27 DEF Cancel, Finish, Active, connVars, hubVars, lockVars, reqVars
<1>28. ASSUME NEW r \in Req, NEW t \in Tunnel, LookupBest(r, t) PROVE SenderBooks'
  BY <1>28 DEF LookupBest, ReaderTurn, connVars, hubVars, lockVars, reqVars
<1>29. ASSUME NEW r \in Req, CloudReply(r) PROVE SenderBooks'
  BY <1>29 DEF CloudReply, connVars, hubVars, lockVars, reqVars
<1>31. ASSUME NEW r \in Req, BodyRead(r) PROVE SenderBooks'
  BY <1>31 DEF BodyRead, connVars, hubVars, lockVars, reqVars
<1>32. CASE ProcessEnds
  BY <1>32 DEF ProcessEnds
<1>33. CASE Restart
  BY <1>33 DEF Restart, connVars, lockVars, reqVars
<1>30. CASE UNCHANGED vars
  BY <1>30 DEF vars, connVars, hubVars, lockVars, reqVars
<1> HIDE DEF HubInv, TypeOK, GivenBooks, IdsKnown, SenderBooks, SenderIsInserted,
    DeadSenderIsCleaned, OnlineHasSession
<1> QED
  BY <1>1, <1>2, <1>3, <1>4, <1>5, <1>6, <1>7, <1>8, <1>9, <1>10,
     <1>11, <1>12, <1>13, <1>14, <1>15, <1>16, <1>17, <1>18, <1>19, <1>20,
     <1>21, <1>22, <1>23, <1>24, <1>25, <1>26, <1>27, <1>28, <1>29, <1>30,
     <1>31, <1>32, <1>33
  DEF Next, SessionNext, CleanupNext, RequestNext, LookupNext, HandlerNext, VisitorNext,
      ProcessNext, Abort, Exit
-----------------------------------------------------------------------------
\* The inductive invariant holds in every reachable state.
THEOREM HubInvariant == Spec => []HubInv
<1>1. HubInv /\ [Next]_vars => HubInv'
  BY TypeStep, GivenStep, EntryStep, SenderStep DEF HubInv
<1> QED
  BY <1>1, HubInvInit, PTL DEF Spec

\* Types of the sessions, the channels (with their capacities), the maps, the lock
\* and the handlers.
THEOREM TypeCorrect == Spec => []TypeOK
<1>1. HubInv => TypeOK
  BY DEF HubInv
<1> QED
  BY <1>1, HubInvariant, PTL

\* A handler that waits has its oneshot sender in the responses map or its answer
\* in the slot, in every race of answer, timeout and disconnection.
THEOREM WaitersCanBeAnswered == Spec => []WaitingHasSource
<1>1. HubInv => WaitingHasSource
  BY DEF HubInv, EntryBooks
<1> QED
  BY <1>1, HubInvariant, PTL

\* A visitor gets the answer of the session the request was sent to.
THEOREM AnswersComeFromTarget == Spec => []AnsweredByTarget
<1>1. HubInv => AnsweredByTarget
  BY DEF HubInv, EntryBooks
<1> QED
  BY <1>1, HubInvariant, PTL

\* The responses map keeps entries of finished handlers from three exits only.
THEOREM LeaksAreKnown == Spec => []LeakSources
<1>1. HubInv => LeakSources
  BY DEF HubInv, EntryBooks
<1> QED
  BY <1>1, HubInvariant, PTL

\* The responses map keeps its books, in any number of sessions and requests.
THEOREM ResponsesAccounted == Spec => []ResponsesAreAccounted
  BY WaitersCanBeAnswered, AnswersComeFromTarget, LeaksAreKnown, PTL DEF ResponsesAreAccounted

\* The health map is told of a success exactly when an answer of the tunnel came
\* in time, whether or not it could be translated for the visitor, and of a
\* failure only when none had come.
THEOREM MarksAreTrue == Spec => []MarkAgreesWithOutcome
<1>1. HubInv => MarkAgreesWithOutcome
  BY DEF HubInv, EntryBooks
<1> QED
  BY <1>1, HubInvariant, PTL

\* A registered sender whose session ended has its cleanup on the way.
THEOREM DeadSendersAreCleaned == Spec => []DeadSenderIsCleaned
<1>1. HubInv => DeadSenderIsCleaned
  BY DEF HubInv, SenderBooks
<1> QED
  BY <1>1, HubInvariant, PTL

\* Redis says online only while the cleanup of a session is still to come, or
\* from what a process that has ended, by a panic or by its graceful shutdown,
\* left behind and no session of the id has put right.
THEOREM OnlineIsBacked == Spec => []OnlineHasSession
<1>1. HubInv => OnlineHasSession
  BY DEF HubInv, SenderBooks
<1> QED
  BY <1>1, HubInvariant, PTL
-----------------------------------------------------------------------------
\* A notice in the cleanup channel, or being acted on, is of a connection that
\* has ended.
NoticeIsTrue ==
    \A t \in Tunnel : (InQueue(cleanup, t) \/ cleaner = t)
        => \E c \in Conn : cid[c] = t /\ conn[c] = "closed"

\* A connection that has ended stays so and keeps its id.
LEMMA ClosedStays ==
    ASSUME HubInv, [Next]_vars, NEW c \in Conn, conn[c] = "closed"
    PROVE  conn'[c] = "closed" /\ cid'[c] = cid[c]
<1> USE DEF HubInv, TypeOK
<1>1. ASSUME NEW d \in Conn, SessionNext(d) PROVE conn'[c] = "closed" /\ cid'[c] = cid[c]
  BY <1>1 DEF SessionNext, Register, BadHello, RejectedHello, AcceptedHello, AskInsert, InsertTunnel,
       TakeMessage, SocketSent, ReceiveResponse, BreakLoop, SendCleanup
<1>2. CASE CleanupNext
  BY <1>2 DEF CleanupNext, CleanupOffline, CleanupAsk, CleanupRemove, connVars
<1>3. ASSUME NEW r \in Req, RequestNext(r) PROVE UNCHANGED <<conn, cid>>
  BY <1>3 DEF RequestNext, LookupNext, HandlerNext, VisitorNext, Arrive, LookupHeld, StickyMiss, TunnelNotFound,
       LookupBest, LookupCloud, InsertResponse, SendRequest, SendFailed, GotResponse, RequestTimeout,
       RemoveExpired, CloudReply, BodyRead, BodyError, Cancel, connVars
<1>4. CASE UNCHANGED vars
  BY <1>4 DEF vars, connVars
<1>5. CASE ProcessNext
  BY <1>5 DEF ProcessNext, Abort, Exit, ProcessEnds, Restart, connVars
<1> QED
  BY <1>1, <1>2, <1>3, <1>4, <1>5 DEF Next

\* Only sessions and the cleanup task touch the notices.
LEMMA NoticeStep == HubInv /\ NoticeIsTrue /\ [Next]_vars => NoticeIsTrue'
<1> SUFFICES ASSUME HubInv, NoticeIsTrue, [Next]_vars,
                    NEW t \in Tunnel, InQueue(cleanup', t) \/ cleaner' = t
             PROVE  \E c \in Conn : cid'[c] = t /\ conn'[c] = "closed"
  BY DEF NoticeIsTrue, InQueue
<1>0. ASSUME InQueue(cleanup, t) \/ cleaner = t PROVE \E c \in Conn : cid'[c] = t /\ conn'[c] = "closed"
  <2>1. PICK c \in Conn : cid[c] = t /\ conn[c] = "closed"
    BY <1>0 DEF NoticeIsTrue
  <2> QED
    BY <2>1, ClosedStays
<1>t. cleanup \in Seq(Tunnel) /\ conn \in [Conn -> ConnStates]
  BY DEF HubInv, TypeOK
<1>1. ASSUME NEW d \in Conn, SendCleanup(d) PROVE \E c \in Conn : cid'[c] = t /\ conn'[c] = "closed"
  <2>1. cid[d] \in Tunnel
    BY <1>1 DEF SendCleanup, HubInv, GivenBooks, IdsKnown
  <2>2. InQueue(cleanup', t) <=> InQueue(cleanup, t) \/ t = cid[d]
    BY <1>1, <1>t, <2>1, QueueAppend DEF SendCleanup
  <2>3. cleaner' = cleaner /\ conn'[d] = "closed" /\ cid'[d] = cid[d]
    BY <1>1, <1>t DEF SendCleanup
  <2> QED
    BY <1>0, <2>2, <2>3
<1>2. CASE CleanupOffline
  <2>1. InQueue(cleanup, t) <=> t = Head(cleanup) \/ InQueue(Tail(cleanup), t)
    BY <1>2, <1>t, QueueTail DEF CleanupOffline
  <2> QED
    BY <1>0, <1>2, <2>1 DEF CleanupOffline
<1>3. CASE CleanupRemove
  BY <1>0, <1>3, NullAssumption DEF CleanupRemove
<1>4. CASE CleanupAsk
  BY <1>0, <1>4 DEF CleanupAsk, hubVars
<1>8. CASE ProcessEnds
  BY <1>8, NullAssumption DEF ProcessEnds, InQueue
<1>9. CASE Restart
  BY <1>0, <1>9 DEF Restart
<1>5. ASSUME NEW d \in Conn, SessionNext(d), ~SendCleanup(d) PROVE cleanup' = cleanup /\ cleaner' = cleaner
  BY <1>5 DEF SessionNext, Register, BadHello, RejectedHello, AcceptedHello, AskInsert, InsertTunnel,
       TakeMessage, SocketSent, ReceiveResponse, BreakLoop, hubVars
<1>6. ASSUME NEW r \in Req, RequestNext(r) PROVE cleanup' = cleanup /\ cleaner' = cleaner
  BY <1>6 DEF RequestNext, LookupNext, HandlerNext, VisitorNext, Arrive, LookupHeld, StickyMiss, TunnelNotFound,
       LookupBest, LookupCloud, InsertResponse, SendRequest, SendFailed, GotResponse, RequestTimeout,
       RemoveExpired, CloudReply, BodyRead, BodyError, Cancel, hubVars
<1>7. CASE UNCHANGED vars
  BY <1>0, <1>7 DEF vars, hubVars
<1> QED
  BY <1>0, <1>1, <1>2, <1>3, <1>4, <1>5, <1>6, <1>7, <1>8, <1>9 DEF Next, CleanupNext, ProcessNext, Abort, Exit

\* A sender leaves the map only after a connection for its id has ended.
THEOREM RemovalsFollowEnds == Spec => CleanupNeedsEnded
<1> DEFINE Removal == \A t \in Tunnel :
               (tunnels[t] # NoConn /\ tunnels'[t] = NoConn)
                 => \E c \in Conn : cid[c] = t /\ conn'[c] = "closed"
<1>1. Init => NoticeIsTrue
  BY NullAssumption DEF Init, NoticeIsTrue, InQueue
<1>2. HubInv /\ NoticeIsTrue /\ [Next]_vars => [Removal]_vars
  <2> SUFFICES ASSUME HubInv, NoticeIsTrue, Next,
                      NEW t \in Tunnel, tunnels[t] # NoConn, tunnels'[t] = NoConn
               PROVE  \E c \in Conn : cid[c] = t /\ conn'[c] = "closed"
    OBVIOUS
  <2> USE DEF HubInv, TypeOK
  <2>1. ASSUME NEW d \in Conn, SessionNext(d) PROVE FALSE
    BY <2>1, NullAssumption DEF SessionNext, Register, BadHello, RejectedHello, AcceptedHello, AskInsert,
         InsertTunnel, TakeMessage, SocketSent, ReceiveResponse, BreakLoop, SendCleanup, hubVars,
         GivenBooks, IdsKnown
  <2>2. CASE CleanupNext
    <3>1. cleaner = t
      BY <2>2 DEF CleanupNext, CleanupOffline, CleanupAsk, CleanupRemove, hubVars
    <3>2. PICK c \in Conn : cid[c] = t /\ conn[c] = "closed"
      BY <3>1 DEF NoticeIsTrue
    <3> QED
      BY <3>2, ClosedStays
  <2>3. ASSUME NEW r \in Req, RequestNext(r) PROVE tunnels' = tunnels
    BY <2>3 DEF RequestNext, LookupNext, HandlerNext, VisitorNext, Arrive, LookupHeld, StickyMiss, TunnelNotFound,
         LookupBest, LookupCloud, InsertResponse, SendRequest, SendFailed, GotResponse, RequestTimeout,
         RemoveExpired, CloudReply, BodyRead, BodyError, Cancel, hubVars
  <2>4. CASE ProcessEnds
    <3>1. /\ tunnels[t] \in Conn /\ cid[tunnels[t]] = t
          /\ conn[tunnels[t]] \in {"loop", "sending", "cleanup", "closed"}
      BY DEF SenderBooks, SenderIsInserted, DeadSenderIsCleaned
    <3> QED
      BY <2>4, <3>1 DEF ProcessEnds
  <2>5. CASE Restart
    BY <2>5 DEF Restart
  <2> QED
    BY <2>1, <2>2, <2>3, <2>4, <2>5 DEF Next, ProcessNext, Abort, Exit
<1>3. HubInv /\ NoticeIsTrue /\ [Next]_vars => NoticeIsTrue'
  BY NoticeStep
<1> QED
  BY <1>1, <1>2, <1>3, HubInvariant, PTL DEF Spec, CleanupNeedsEnded
-----------------------------------------------------------------------------
(* The lock on tunnels *)

\* A handler that keeps its guard has not returned and finds what it looked up:
\* the sender of its session stays registered, dead or not, until it returns.
GuardKeepsSender ==
    \A r \in guards : /\ rpc[r] \in {"insert", "body", "send", "wait", "expire"}
                      /\ route[r] \in {"sticky", "tunnel"}
                      /\ tunnels[rid[r]] = rconn[r]

\* The map is written without guards only, and a handler's id and session stay.
LEMMA GuardStep == HubInv /\ GuardKeepsSender /\ [Next]_vars => GuardKeepsSender'
<1> SUFFICES ASSUME HubInv, GuardKeepsSender, [Next]_vars PROVE GuardKeepsSender'
  OBVIOUS
<1> USE DEF HubInv, TypeOK, GuardKeepsSender
<1>1. ASSUME NEW c \in Conn, InsertTunnel(c) PROVE GuardKeepsSender'
  BY <1>1 DEF InsertTunnel, WriterTurn
<1>2. ASSUME NEW c \in Conn, SessionNext(c), ~InsertTunnel(c)
      PROVE  UNCHANGED <<tunnels, guards, rpc, route, rid, rconn>>
  BY <1>2 DEF SessionNext, Register, BadHello, RejectedHello, AcceptedHello, AskInsert,
       TakeMessage, SocketSent, ReceiveResponse, BreakLoop, SendCleanup, hubVars,
       lockVars, reqVars
<1>3. CASE CleanupRemove
  BY <1>3 DEF CleanupRemove, WriterTurn
<1>4. CASE CleanupOffline \/ CleanupAsk
  BY <1>4 DEF CleanupOffline, CleanupAsk, hubVars, lockVars, reqVars
<1>5. ASSUME NEW r \in Req, LookupNext(r) PROVE GuardKeepsSender'
  <2>1. r \notin guards /\ tunnels' = tunnels
    BY <1>5 DEF LookupNext, LookupHeld, StickyMiss, TunnelNotFound, LookupBest, LookupCloud, hubVars
  <2>2. CASE LookupHeld(r)
    BY <2>1, <2>2 DEF LookupHeld
  <2>3. CASE StickyMiss(r) \/ TunnelNotFound(r) \/ LookupCloud(r)
    BY <2>1, <2>3, ZenonT(40) DEF StickyMiss, TunnelNotFound, LookupCloud
  <2>4. ASSUME NEW t \in Tunnel, LookupBest(r, t) PROVE GuardKeepsSender'
    BY <2>1, <2>4 DEF LookupBest
  <2> QED
    BY <1>5, <2>2, <2>3, <2>4 DEF LookupNext
<1>6. ASSUME NEW r \in Req, HandlerNext(r) PROVE GuardKeepsSender'
  <2>1. UNCHANGED <<tunnels, route, rid, rconn>>
    BY <1>6 DEF HandlerNext, InsertResponse, SendRequest, SendFailed, GotResponse, RequestTimeout,
         RemoveExpired, hubVars
  <2>2. CASE InsertResponse(r) \/ SendRequest(r) \/ RequestTimeout(r)
    <3>1. /\ guards' = guards /\ rpc'[r] \in {"body", "send", "wait", "expire"}
          /\ \A q \in Req : q # r => rpc'[q] = rpc[q]
      BY <2>2 DEF InsertResponse, SendRequest, RequestTimeout, lockVars
    <3> QED
      BY <2>1, <3>1
  <2>3. CASE SendFailed(r) \/ GotResponse(r) \/ RemoveExpired(r)
    <3>1. guards' = guards \ {r} /\ \A q \in Req : q # r => rpc'[q] = rpc[q]
      BY <2>3 DEF SendFailed, GotResponse, RemoveExpired, Finish
    <3> QED
      BY <2>1, <3>1
  <2> QED
    BY <1>6, <2>2, <2>3 DEF HandlerNext
<1>7. ASSUME NEW r \in Req, BodyError(r) \/ Cancel(r) PROVE GuardKeepsSender'
  BY <1>7 DEF BodyError, Cancel, Finish, hubVars
<1>10. ASSUME NEW r \in Req, CloudReply(r) \/ BodyRead(r) PROVE GuardKeepsSender'
  <2>1. /\ UNCHANGED <<tunnels, route, rid, rconn, guards>>
        /\ rpc[r] = "cloud" \/ rpc'[r] = "send"
        /\ \A q \in Req : q # r => rpc'[q] = rpc[q]
    BY <1>10 DEF CloudReply, BodyRead, hubVars, lockVars
  <2> QED
    BY <2>1
<1>11. CASE ProcessEnds
  BY <1>11 DEF ProcessEnds
<1>12. CASE Restart
  BY <1>12 DEF Restart, lockVars, reqVars
<1>8. ASSUME NEW r \in Req, NEW rt \in Routes[r], NEW t \in Tunnel, Arrive(r, rt, t) PROVE GuardKeepsSender'
  BY <1>8 DEF Arrive, hubVars
<1>9. CASE UNCHANGED vars
  BY <1>9 DEF vars, hubVars, lockVars, reqVars
<1> QED
  BY <1>1, <1>2, <1>3, <1>4, <1>5, <1>6, <1>7, <1>8, <1>9, <1>10, <1>11, <1>12
  DEF Next, CleanupNext, RequestNext, VisitorNext, ProcessNext, Abort, Exit

\* No handler returns with its guard, and no sender is removed or replaced
\* under a guard, however the handler waits, times out or is cancelled.
THEOREM GuardsKeepSenders == Spec => []GuardKeepsSender
<1>1. Init => GuardKeepsSender
  BY DEF Init, GuardKeepsSender
<1> QED
  BY <1>1, GuardStep, HubInvariant, PTL DEF Spec

\* Taking a waiter out of a queue keeps the others, and the first of them.
LEMMA WithoutKeeps ==
    ASSUME NEW S, NEW q \in Seq(S), NEW w, InQueue(q, w), NEW y, y # w, InQueue(q, y)
    PROVE  /\ InQueue(Without(q, w), y)
           /\ Head(q) # w => Without(q, w) # <<>> /\ Head(Without(q, w)) = Head(q)
<1> DEFINE k == CHOOSE k \in 1..Len(q) : q[k] = w
           u == Without(q, w)
<1>1. k \in 1..Len(q) /\ q[k] = w
  BY DEF InQueue
<1>2. PICK j \in 1..Len(q) : q[j] = y
  BY DEF InQueue
<1>3. j # k /\ Len(q) \in Nat /\ Len(q) >= 2
  BY <1>1, <1>2
<1>4. u = [i \in 1..(Len(q) - 1) |-> IF i < k THEN q[i] ELSE q[i + 1]]
  BY DEF Without
<1>5. u \in Seq(S)
  BY WithoutType
<1> HIDE DEF k, u
<1>6. Len(u) = Len(q) - 1
  BY <1>3, <1>4, <1>5
<1>7. InQueue(u, y)
  <2>1. CASE j < k
    <3>1. j \in 1..(Len(q) - 1) /\ u[j] = y
      BY <1>1, <1>2, <1>3, <1>4, <2>1
    <3> QED
      BY <1>6, <3>1 DEF InQueue
  <2>2. CASE j > k
    <3>1. j - 1 \in 1..(Len(q) - 1) /\ u[j - 1] = y
      BY <1>1, <1>2, <1>3, <1>4, <2>2
    <3> QED
      BY <1>6, <3>1 DEF InQueue
  <2> QED
    BY <1>1, <1>2, <1>3, <2>1, <2>2
<1>8. ASSUME Head(q) # w PROVE u # <<>> /\ Head(u) = Head(q)
  <2>1. Head(q) = q[1] /\ k # 1
    BY <1>1, <1>3, <1>8
  <2>2. u[1] = q[1]
    BY <1>1, <1>3, <1>4, <2>1
  <2> QED
    BY <1>3, <1>5, <1>6, <2>1, <2>2
<1> QED
  BY <1>7, <1>8 DEF u

\* A handler in its lookup waits for the lock.
LookupWaits == \A r \in Req : rpc[r] = "lookup" => InQueue(lockq, r)

\* Nobody is taken out of the queue but by its own turn or its own end.
LEMMA LookupWaitsStep == HubInv /\ LookupWaits /\ [Next]_vars => LookupWaits'
<1> SUFFICES ASSUME HubInv, LookupWaits, [Next]_vars, NEW r \in Req, rpc'[r] = "lookup"
             PROVE  InQueue(lockq', r)
  BY DEF LookupWaits, InQueue
<1>t. lockq \in Seq(Waiter) /\ rpc \in [Req -> {"new"} \cup Active \cup Outcomes] /\ r \in Waiter
  BY DEF HubInv, TypeOK, Waiter
<1>n. r \notin Conn /\ r # Cleaner
  BY NullAssumption
<1>a. ASSUME NEW w \in Waiter, lockq' = Append(lockq, w), r = w \/ rpc[r] = "lookup"
      PROVE  InQueue(lockq', r)
  BY <1>t, <1>a, QueueAppend DEF LookupWaits
<1>b. ASSUME lockq # <<>>, lockq' = Tail(lockq), Head(lockq) # r, rpc[r] = "lookup"
      PROVE  InQueue(lockq', r)
  BY <1>t, <1>b, QueueTail DEF LookupWaits
<1>1. ASSUME NEW c \in Conn, SessionNext(c) PROVE InQueue(lockq', r)
  <2>1. rpc' = rpc
    BY <1>1 DEF SessionNext, Register, BadHello, RejectedHello, AcceptedHello, AskInsert,
         InsertTunnel, TakeMessage, SocketSent, ReceiveResponse, BreakLoop, SendCleanup, reqVars
  <2>2. CASE AskInsert(c)
    BY <1>a, <2>1, <2>2 DEF AskInsert, Waiter
  <2>3. CASE InsertTunnel(c)
    BY <1>b, <1>n, <2>1, <2>3 DEF InsertTunnel, WriterTurn
  <2>4. CASE ~AskInsert(c) /\ ~InsertTunnel(c)
    <3>1. lockq' = lockq
      BY <1>1, <2>4 DEF SessionNext, Register, BadHello, RejectedHello, AcceptedHello,
           TakeMessage, SocketSent, ReceiveResponse, BreakLoop, SendCleanup, lockVars
    <3> QED
      BY <2>1, <3>1 DEF LookupWaits
  <2> QED
    BY <2>2, <2>3, <2>4
<1>2. CASE CleanupAsk
  BY <1>2, <1>a DEF CleanupAsk, Waiter, reqVars
<1>3. CASE CleanupRemove
  BY <1>3, <1>b, <1>n DEF CleanupRemove, WriterTurn, reqVars
<1>4. CASE CleanupOffline \/ Restart
  BY <1>4 DEF CleanupOffline, Restart, lockVars, reqVars, LookupWaits
<1>11. CASE ProcessEnds
  BY <1>11, <1>t DEF ProcessEnds, Active
<1>5. ASSUME NEW q \in Req, NEW rt \in Routes[q], NEW t \in Tunnel, Arrive(q, rt, t)
      PROVE  InQueue(lockq', r)
  BY <1>t, <1>a, <1>5 DEF Arrive, Waiter
<1>6. ASSUME NEW q \in Req, StickyMiss(q) PROVE InQueue(lockq', r)
  <2>1. /\ lockq # <<>> /\ Head(lockq) = q /\ rpc[r] = "lookup"
        /\ lockq' = Append(Tail(lockq), q) /\ q \in Waiter
    BY <1>6 DEF StickyMiss, ReaderTurn, Waiter
  <2>2. Tail(lockq) \in Seq(Waiter) /\ (r # q => InQueue(Tail(lockq), r))
    BY <1>t, <2>1, QueueTail DEF LookupWaits
  <2> QED
    BY <2>1, <2>2, QueueAppend
<1>7. ASSUME NEW q \in Req, LookupNext(q), ~StickyMiss(q) PROVE InQueue(lockq', r)
  <2>1. /\ lockq # <<>> /\ Head(lockq) = q /\ lockq' = Tail(lockq)
        /\ \E o \in {"insert", "not_found", "cloud"} : rpc' = [rpc EXCEPT ![q] = o]
    BY <1>7 DEF LookupNext, LookupHeld, TunnelNotFound, LookupBest, LookupCloud, ReaderTurn
  <2>2. r # q /\ rpc[r] = "lookup"
    BY <1>t, <2>1
  <2> QED
    BY <1>b, <2>1, <2>2
<1>8. ASSUME NEW q \in Req, HandlerNext(q) \/ CloudReply(q) \/ BodyRead(q) \/ BodyError(q)
      PROVE  InQueue(lockq', r)
  <2>1. lockq' = lockq /\ \E o \in (Active \cup Outcomes) \ {"lookup"} : rpc' = [rpc EXCEPT ![q] = o]
    BY <1>8 DEF HandlerNext, InsertResponse, SendRequest, SendFailed, GotResponse, RequestTimeout,
         RemoveExpired, CloudReply, BodyRead, BodyError, Finish, lockVars, Active, Outcomes
  <2> QED
    BY <1>t, <2>1 DEF LookupWaits
<1>9. ASSUME NEW q \in Req, Cancel(q) PROVE InQueue(lockq', r)
  <2>1. r # q /\ rpc[r] = "lookup"
    BY <1>t, <1>9 DEF Cancel, Finish
  <2>2. CASE rpc[q] = "lookup"
    <3>1. InQueue(lockq, q) /\ InQueue(lockq, r)
      BY <2>1, <2>2 DEF LookupWaits
    <3> QED
      BY <1>t, <1>9, <2>1, <2>2, <3>1, WithoutKeeps DEF Cancel
  <2>3. CASE rpc[q] # "lookup"
    BY <1>9, <2>1, <2>3 DEF Cancel, LookupWaits
  <2> QED
    BY <2>2, <2>3
<1>10. CASE UNCHANGED vars
  BY <1>10 DEF vars, lockVars, reqVars, LookupWaits
<1> QED
  BY <1>1, <1>2, <1>3, <1>4, <1>5, <1>6, <1>7, <1>8, <1>9, <1>10, <1>11
  DEF Next, CleanupNext, RequestNext, VisitorNext, ProcessNext, Abort, Exit

\* A handler of the tunnel route waits for a session that has ended, under its
\* guard, and a writer waits for the guard at the head of the queue.
HubStuck(r) ==
    /\ r \in guards /\ route[r] = "tunnel"
    /\ rpc[r] = "wait" /\ slot[r] = NoConn
    /\ rconn[r] \in Conn /\ conn[rconn[r]] \in {"cleanup", "closed"}
    /\ lockq # <<>> /\ Head(lockq) \in Conn \cup {Cleaner}

\* Its answer cannot come any more: only its session could deliver it.
LEMMA NoLateAnswer ==
    ASSUME HubInv, NEW r \in Req, HubStuck(r), NEW c \in Conn, SessionNext(c)
    PROVE  /\ conn'[rconn[r]] \in {"cleanup", "closed"}
           /\ slot'[r] = NoConn
<1> USE DEF HubInv, TypeOK, HubStuck
<1>1. conn'[rconn[r]] \in {"cleanup", "closed"}
  BY DEF SessionNext, Register, BadHello, RejectedHello, AcceptedHello, AskInsert,
       InsertTunnel, TakeMessage, SocketSent, ReceiveResponse, BreakLoop, SendCleanup
<1>2. ASSUME NEW q \in Req, ReceiveResponse(c, q) PROVE slot'[r] = NoConn
  <2>1. q # r
    BY <1>2 DEF ReceiveResponse, GivenBooks, GivenBySend, Given
  <2> QED
    BY <1>2, <2>1 DEF ReceiveResponse
<1>3. ASSUME \A q \in Req : ~ReceiveResponse(c, q) PROVE slot' = slot
  BY <1>3 DEF SessionNext, Register, BadHello, RejectedHello, AcceptedHello, AskInsert,
       InsertTunnel, TakeMessage, SocketSent, BreakLoop, SendCleanup, reqVars
<1> QED
  BY <1>1, <1>2, <1>3

\* From there on no other request is looked up, not even one that would go to
\* the cloud, and no sender is registered or removed, until the one visitor
\* that waits gives up or another task panics and takes the process down.  The
\* graceful shutdown waits with the rest.
OnlyCancelUnblocks ==
    \A r \in Req : HubStuck(r) =>
        \/ Abort
        \/ /\ \A q \in Req : ~LookupNext(q)
           /\ UNCHANGED tunnels
           /\ HubStuck(r)' \/ Cancel(r)

\* Nothing the sessions, the cleanup task and the other handlers do ends it.
LEMMA StuckStep == HubInv /\ LookupWaits /\ [Next]_vars => OnlyCancelUnblocks
<1> SUFFICES ASSUME HubInv, LookupWaits, [Next]_vars, NEW r \in Req, HubStuck(r), ~Abort
             PROVE  /\ \A q \in Req : ~LookupNext(q)
                    /\ UNCHANGED tunnels
                    /\ HubStuck(r)' \/ Cancel(r)
  BY DEF OnlyCancelUnblocks
<1>t. /\ lockq \in Seq(Waiter) /\ lockq # <<>> /\ Head(lockq) \in Conn \cup {Cleaner}
      /\ rpc \in [Req -> {"new"} \cup Active \cup Outcomes] /\ route \in [Req -> AllRoutes]
      /\ rid \in [Req -> Tunnel \cup {NoTunnel}] /\ rconn \in [Req -> Conn \cup {NoConn}]
      /\ slot \in [Req -> Conn \cup {NoConn}] /\ guards \subseteq Req /\ r \in guards
  BY DEF HubInv, TypeOK, HubStuck
<1>h. \A q \in Req : Head(lockq) # q
  BY <1>t, NullAssumption
<1>1. \A q \in Req : ~LookupNext(q)
  BY <1>h DEF LookupNext, LookupHeld, StickyMiss, TunnelNotFound, LookupBest, LookupCloud, ReaderTurn
<1>2. ~CleanupRemove /\ \A c \in Conn : ~InsertTunnel(c)
  BY <1>t DEF CleanupRemove, InsertTunnel, WriterTurn
<1>a. ASSUME NEW w \in Waiter, lockq' = Append(lockq, w) PROVE lockq' # <<>> /\ Head(lockq') = Head(lockq)
  BY <1>t, <1>a
<1>3. ASSUME NEW c \in Conn, SessionNext(c) PROVE UNCHANGED tunnels /\ HubStuck(r)'
  <2>1. UNCHANGED <<tunnels, guards, route, rpc, rconn>>
    BY <1>2, <1>3 DEF SessionNext, Register, BadHello, RejectedHello, AcceptedHello,
         AskInsert, TakeMessage, SocketSent, ReceiveResponse, BreakLoop, SendCleanup,
         hubVars, lockVars, reqVars
  <2>2. lockq' = lockq \/ lockq' = Append(lockq, c)
    BY <1>2, <1>3 DEF SessionNext, Register, BadHello, RejectedHello, AcceptedHello,
         AskInsert, TakeMessage, SocketSent, ReceiveResponse, BreakLoop, SendCleanup,
         lockVars
  <2>3. lockq' # <<>> /\ Head(lockq') = Head(lockq)
    BY <1>t, <1>a, <2>2 DEF Waiter
  <2>4. conn'[rconn[r]] \in {"cleanup", "closed"} /\ slot'[r] = NoConn
    BY <1>3, NoLateAnswer
  <2> QED
    BY <1>t, <2>1, <2>3, <2>4 DEF HubStuck
<1>4. CASE CleanupOffline \/ CleanupAsk \/ Restart
  <2>1. UNCHANGED <<tunnels, guards, route, rpc, rconn, slot, conn>>
    BY <1>4 DEF CleanupOffline, CleanupAsk, Restart, connVars, hubVars, lockVars, reqVars
  <2>2. lockq' = lockq \/ lockq' = Append(lockq, Cleaner)
    BY <1>4 DEF CleanupOffline, CleanupAsk, Restart, lockVars
  <2>3. lockq' # <<>> /\ Head(lockq') = Head(lockq)
    BY <1>t, <1>a, <2>2 DEF Waiter
  <2> QED
    BY <1>t, <1>1, <2>1, <2>3 DEF HubStuck
<1>5. ASSUME NEW q \in Req, NEW rt \in Routes[q], NEW t \in Tunnel, Arrive(q, rt, t)
      PROVE  UNCHANGED tunnels /\ HubStuck(r)'
  <2>1. q # r
    BY <1>5 DEF Arrive, HubStuck
  <2>2. lockq' # <<>> /\ Head(lockq') = Head(lockq)
    BY <1>a, <1>5 DEF Arrive, Waiter
  <2>3. UNCHANGED <<tunnels, conn, guards, rconn, slot>> /\ rpc'[r] = rpc[r] /\ route'[r] = route[r]
    BY <1>t, <1>5, <2>1 DEF Arrive, connVars, hubVars
  <2> QED
    BY <1>t, <2>2, <2>3 DEF HubStuck
<1>6. ASSUME NEW q \in Req, q # r,
             HandlerNext(q) \/ CloudReply(q) \/ BodyRead(q) \/ BodyError(q) \/ Cancel(q)
      PROVE  UNCHANGED tunnels /\ HubStuck(r)'
  <2>1. UNCHANGED <<tunnels, conn, route, rconn, slot>>
    BY <1>6 DEF HandlerNext, InsertResponse, SendRequest, SendFailed, GotResponse, RequestTimeout,
         RemoveExpired, CloudReply, BodyRead, BodyError, Cancel, connVars, hubVars
  <2>3. r \in guards'
    BY <1>t, <1>6 DEF HandlerNext, InsertResponse, SendRequest, SendFailed, GotResponse, RequestTimeout,
         RemoveExpired, CloudReply, BodyRead, BodyError, Cancel, Finish, lockVars
  <2>4. rpc'[r] = rpc[r]
    BY <1>t, <1>6 DEF HandlerNext, InsertResponse, SendRequest, SendFailed, GotResponse, RequestTimeout,
         RemoveExpired, CloudReply, BodyRead, BodyError, Cancel, Finish
  <2>2. lockq' # <<>> /\ Head(lockq') = Head(lockq)
    <3>1. CASE Cancel(q) /\ rpc[q] = "lookup"
      <4>1. InQueue(lockq, q) /\ InQueue(lockq, Head(lockq)) /\ lockq' = Without(lockq, q)
        BY <1>t, <3>1 DEF Cancel, LookupWaits, InQueue
      <4> QED
        BY <1>t, <1>h, <4>1, WithoutKeeps
    <3>2. CASE ~(Cancel(q) /\ rpc[q] = "lookup")
      <4>1. lockq' = lockq
        BY <1>6, <3>2 DEF HandlerNext, InsertResponse, SendRequest, SendFailed, GotResponse,
             RequestTimeout, RemoveExpired, CloudReply, BodyRead, BodyError, Cancel, lockVars
      <4> QED
        BY <1>t, <4>1
    <3> QED
      BY <3>1, <3>2
  <2> QED
    BY <1>t, <2>1, <2>2, <2>3, <2>4 DEF HubStuck
<1>7. ~HandlerNext(r) /\ ~CloudReply(r) /\ ~BodyRead(r) /\ ~BodyError(r)
  BY DEF HubStuck, HandlerNext, InsertResponse, SendRequest, SendFailed, GotResponse, RequestTimeout,
       RemoveExpired, CloudReply, BodyRead, BodyError
<1>10. ~Exit
  BY DEF Exit, HubStuck, Active
<1>8. ASSUME Cancel(r) PROVE UNCHANGED tunnels
  BY <1>8 DEF Cancel, hubVars
<1>9. CASE UNCHANGED vars
  <2>1. UNCHANGED <<tunnels, conn, lockq, guards, route, rpc, rconn, slot>>
    BY <1>9 DEF vars, connVars, hubVars, lockVars, reqVars
  <2> QED
    BY <1>1, <2>1 DEF HubStuck
<1> QED
  BY <1>1, <1>2, <1>3, <1>4, <1>5, <1>6, <1>7, <1>8, <1>9, <1>10
  DEF Next, CleanupNext, RequestNext, VisitorNext, ProcessNext

\* What the proviso of RequestsEnd is about: one request of the tunnel route
\* whose client is gone stops the hub, its graceful shutdown included, for as
\* long as its visitor waits and no other task panics.
THEOREM StuckUntilCancelled == Spec => [][OnlyCancelUnblocks]_vars
<1>1. Init => LookupWaits
  BY DEF Init, LookupWaits
<1>2. HubInv /\ LookupWaits /\ [Next]_vars => [OnlyCancelUnblocks]_vars
  BY StuckStep
<1> QED
  BY <1>1, <1>2, LookupWaitsStep, HubInvariant, PTL DEF Spec
=============================================================================
