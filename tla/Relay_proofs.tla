---------------------------- MODULE Relay_proofs ----------------------------
(***************************************************************************)
(* Proofs about Relay, for any connections, subdomains, requests and       *)
(* channel capacity: what the registry says, what the guard held across    *)
(* the waits is good for, and where a request can be while its handler     *)
(* waits.                                                                  *)
(***************************************************************************)
EXTENDS Relay, TLAPS

\* What the types rest on: a session has its subdomain, one that sends, and no
\* other, has something to send, and a handler past its lookup has its session.
IdsKnown ==
    /\ \A c \in Conn : conn[c] # "free" => cid[c] \in Tunnel
    /\ \A c \in Conn : IF conn[c] = "sending" THEN cur[c] \in Req ELSE cur[c] = NoReq
    /\ \A r \in Req : rpc[r] = "lookup" => rid[r] \in Tunnel
    /\ \A r \in Req : rpc[r] \in {"insert", "body", "send", "wait"} => rconn[r] \in Conn

\* A handler that found its tunnel holds the tunnels lock until it is over:
\* nobody registers or deregisters while it works.
FoundHolds ==
    \A r \in Req : rpc[r] \in {"insert", "body", "send", "wait"} => Holds(r)

\* A session has a request only if its handler sent it there.
Early == {"new", "lookup", "insert", "body", "send"}
SentToTarget ==
    \A c \in Conn, r \in Req :
        InFlight(r, c) => rpc[r] \notin Early /\ (rpc[r] # "over" => rconn[r] = c)

\* The sender of a request is in the map from its insertion until a response,
\* good or bad, takes it out; a bad one takes the link with it.
EntryIsKept ==
    \A r \in Req :
        /\ rpc[r] \in Early => slot[r] = NoConn
        /\ rpc[r] \in {"body", "send"} => r \in pending
        /\ (rpc[r] = "wait" /\ slot[r] = NoConn /\ link[rconn[r]] # "closed") => r \in pending

\* A connection that nobody made has no link, and a session on its way out has
\* a closed one.
LinksFit ==
    \A c \in Conn :
        /\ conn[c] = "free" => link[c] = "none"
        /\ conn[c] = "leaving" => link[c] = "closed"

RelayBooks == IdsKnown /\ FoundHolds /\ SentToTarget /\ EntryIsKept /\ LinksFit
RelayInv == TypeOK /\ RelayBooks /\ RegistryIsTrue /\ SendFindsReceiver /\ RequestIsKept
-----------------------------------------------------------------------------
(* Queues *)

\* Appending to a queue adds one element and keeps the head.
LEMMA QueueAppend ==
    ASSUME NEW S, NEW q \in Seq(S), NEW x \in S
    PROVE  /\ Append(q, x) \in Seq(S) /\ Append(q, x) # <<>>
           /\ q # <<>> => Head(Append(q, x)) = Head(q)
           /\ \A y : InQueue(Append(q, x), y) <=> InQueue(q, y) \/ y = x
<1>1. Append(q, x) \in Seq(S) /\ Len(Append(q, x)) = Len(q) + 1 /\ Append(q, x)[Len(q) + 1] = x
  OBVIOUS
<1>2. \A i \in 1..Len(q) : Append(q, x)[i] = q[i]
  OBVIOUS
<1>3. q # <<>> => Head(Append(q, x)) = Head(q)
  OBVIOUS
<1> QED
  BY <1>1, <1>2, <1>3 DEF InQueue

\* The elements of a tail are those of the queue but for the head.
LEMMA QueueTail ==
    ASSUME NEW S, NEW q \in Seq(S), q # <<>>
    PROVE  /\ Head(q) \in S /\ Tail(q) \in Seq(S) /\ Len(Tail(q)) = Len(q) - 1
           /\ \A y : InQueue(q, y) => y = Head(q) \/ InQueue(Tail(q), y)
           /\ \A y : InQueue(Tail(q), y) => InQueue(q, y)
<1>1. /\ Head(q) \in S /\ Tail(q) \in Seq(S) /\ Len(Tail(q)) = Len(q) - 1
      /\ Head(q) = q[1] /\ Len(q) \in Nat \ {0}
  OBVIOUS
<1>2. \A i \in 1..(Len(q) - 1) : Tail(q)[i] = q[i + 1]
  OBVIOUS
<1>3. ASSUME NEW i \in 1..Len(q), i # 1 PROVE i - 1 \in 1..(Len(q) - 1) /\ Tail(q)[i - 1] = q[i]
  BY <1>1, <1>2, <1>3
<1>4. \A y : InQueue(q, y) => y = Head(q) \/ InQueue(Tail(q), y)
  BY <1>1, <1>3 DEF InQueue
<1>5. \A y : InQueue(Tail(q), y) => InQueue(q, y)
  BY <1>1, <1>2 DEF InQueue
<1> QED
  BY <1>1, <1>4, <1>5

\* Whoever leaves a queue leaves a queue behind, and its head where it was
\* unless he was the head.
LEMMA QueueWithout ==
    ASSUME NEW S, NEW q \in Seq(S), NEW x
    PROVE  /\ Without(q, x) \in Seq(S)
           /\ (q # <<>> /\ Head(q) # x) => Without(q, x) # <<>> /\ Head(Without(q, x)) = Head(q)
<1>1. CASE ~InQueue(q, x)
  BY <1>1 DEF Without
<1>2. CASE InQueue(q, x)
  <2> DEFINE k == CHOOSE i \in 1..Len(q) : q[i] = x
             n == Len(q) - 1
             f(i) == IF i < k THEN q[i] ELSE q[i + 1]
             w == [i \in 1..n |-> f(i)]
  <2>1. k \in 1..Len(q) /\ q[k] = x
    BY <1>2 DEF InQueue
  <2>2. Without(q, x) = w
    BY <1>2 DEF Without
  <2> HIDE DEF k
  <2>3. n \in Nat /\ \A i \in 1..n : f(i) \in S
    BY <2>1
  <2>4. w \in Seq(S) /\ Len(w) = n
    <3> HIDE DEF n, f
    <3> QED
      BY <2>3
  <2>5. ASSUME q # <<>>, Head(q) # x PROVE w # <<>> /\ Head(w) = Head(q)
    <3>1. Head(q) = q[1] /\ k # 1
      BY <2>1, <2>5
    <3>2. 1 \in 1..n /\ f(1) = q[1]
      BY <2>1, <3>1
    <3>3. w[1] = q[1]
      BY <3>2
    <3> QED
      <4> HIDE DEF n, f, w
      <4> QED
        BY <2>3, <2>4, <3>1, <3>2, <3>3
  <2> QED
    BY <2>2, <2>4, <2>5
<1> QED
  BY <1>1, <1>2
-----------------------------------------------------------------------------
(* The steps *)

\* The initial states: nothing is registered, sent or pending.
LEMMA RelayInvInit == Init => RelayInv
  BY RelayAssumption
  DEF Init, RelayInv, TypeOK, RelayBooks, IdsKnown, FoundHolds, SentToTarget, EntryIsKept,
      LinksFit, RegistryIsTrue, SendFindsReceiver, RequestIsKept, InFlight, InQueue,
      Running, Active, Early

\* Every step keeps the types.
LEMMA TypeStep == TypeOK /\ IdsKnown /\ [Next]_vars => TypeOK'
<1> SUFFICES ASSUME TypeOK, IdsKnown, [Next]_vars PROVE TypeOK'
  OBVIOUS
<1> USE RelayAssumption DEF TypeOK, IdsKnown, Running, Active, connVars, reqVars
<1>0. \A r \in Req : Without(lockq, r) \in Seq(Conn \cup Req)
  BY QueueWithout
<1>1. ASSUME NEW c \in Conn, NEW t \in Tunnel, Connect(c, t) PROVE TypeOK'
  BY <1>1 DEF Connect
<1>2. ASSUME NEW c \in Conn, NEW r \in Req, TargetReplies(c, r) \/ TaskPanics(c, r) PROVE TypeOK'
  <2>1. CASE TargetReplies(c, r)
    BY <2>1 DEF TargetReplies
  <2>2. CASE TaskPanics(c, r)
    BY <2>2 DEF TaskPanics
  <2> QED
    BY <1>2, <2>1, <2>2
<1>3. ASSUME NEW c \in Conn, LinkCloses(c) PROVE TypeOK'
  BY <1>3 DEF LinkCloses
<1>4. ASSUME NEW c \in Conn, InsertSender(c) PROVE TypeOK'
  BY <1>4 DEF InsertSender, Holds
<1>5. ASSUME NEW c \in Conn, TakeMessage(c) PROVE TypeOK'
  BY <1>5 DEF TakeMessage
<1>6. ASSUME NEW c \in Conn, SocketSent(c) PROVE TypeOK'
  BY <1>6 DEF SocketSent
<1>7. ASSUME NEW c \in Conn, SocketLost(c) PROVE TypeOK'
  BY <1>7 DEF SocketLost
<1>8. ASSUME NEW c \in Conn, SocketFailed(c) PROVE TypeOK'
  BY <1>8 DEF SocketFailed
<1>9. ASSUME NEW c \in Conn, NEW r \in Req, ReceiveResponse(c, r) PROVE TypeOK'
  BY <1>9 DEF ReceiveResponse
<1>10. ASSUME NEW c \in Conn, NEW r \in Req, BadResponse(c, r) PROVE TypeOK'
  BY <1>10 DEF BadResponse
<1>11. ASSUME NEW c \in Conn, BothEnded(c) PROVE TypeOK'
  BY <1>11 DEF BothEnded
<1>12. ASSUME NEW c \in Conn, Deregister(c) PROVE TypeOK'
  BY <1>12 DEF Deregister, Holds
<1>13. ASSUME NEW r \in Req, NEW t \in Tunnel, Arrive(r, t) PROVE TypeOK'
  BY <1>13 DEF Arrive
<1>14. ASSUME NEW r \in Req, ArriveWithoutHost(r) PROVE TypeOK'
  BY <1>14 DEF ArriveWithoutHost
<1>15. ASSUME NEW r \in Req, LookupFound(r) PROVE TypeOK'
  BY <1>15 DEF LookupFound
<1>16. ASSUME NEW r \in Req, LookupMissing(r) PROVE TypeOK'
  BY <1>16 DEF LookupMissing, Holds
<1>17. ASSUME NEW r \in Req, InsertPending(r) PROVE TypeOK'
  BY <1>17 DEF InsertPending
<1>18. ASSUME NEW r \in Req, BodyRead(r) PROVE TypeOK'
  BY <1>18 DEF BodyRead
<1>19. ASSUME NEW r \in Req, BodyFails(r) PROVE TypeOK'
  BY <1>19 DEF BodyFails
<1>20. ASSUME NEW r \in Req, SendRequest(r) PROVE TypeOK'
  BY <1>20 DEF SendRequest
<1>21. ASSUME NEW r \in Req, SendFails(r) PROVE TypeOK'
  BY <1>21 DEF SendFails
<1>22. ASSUME NEW r \in Req, ResponseDropped(r) PROVE TypeOK'
  BY <1>22 DEF ResponseDropped
<1>23. ASSUME NEW r \in Req, HeaderPanics(r) PROVE TypeOK'
  BY <1>0, <1>23 DEF HeaderPanics, Finish
<1>24. ASSUME NEW r \in Req, GotResponse(r) PROVE TypeOK'
  BY <1>0, <1>24 DEF GotResponse, Finish
<1>25. ASSUME NEW r \in Req, FallbackReplies(r) PROVE TypeOK'
  BY <1>0, <1>25 DEF FallbackReplies, Finish
<1>26. ASSUME NEW r \in Req, Cancel(r) PROVE TypeOK'
  BY <1>0, <1>26 DEF Cancel, Finish
<1>27. CASE UNCHANGED vars
  BY <1>27 DEF vars
<1> QED
  BY <1>1, <1>2, <1>3, <1>4, <1>5, <1>6, <1>7, <1>8, <1>9, <1>10, <1>11, <1>12, <1>13, <1>14,
     <1>15, <1>16, <1>17, <1>18, <1>19, <1>20, <1>21, <1>22, <1>23, <1>24, <1>25, <1>26, <1>27
  DEF Next, ClientNext, SessionNext, Receives, HandlerNext, RequestNext

\* Every step keeps the ids.
LEMMA IdsStep == TypeOK /\ IdsKnown /\ [Next]_vars => IdsKnown'
<1> SUFFICES ASSUME TypeOK, IdsKnown, [Next]_vars PROVE IdsKnown'
  OBVIOUS
<1> USE RelayAssumption DEF TypeOK, IdsKnown, Running, Active, connVars, reqVars
<1>1. ASSUME NEW c \in Conn, NEW t \in Tunnel, Connect(c, t) PROVE IdsKnown'
  BY <1>1 DEF Connect
<1>2. ASSUME NEW c \in Conn, NEW r \in Req,
             TargetReplies(c, r) \/ TaskPanics(c, r) \/ ReceiveResponse(c, r) \/ BadResponse(c, r)
      PROVE  IdsKnown'
  BY <1>2 DEF TargetReplies, TaskPanics, ReceiveResponse, BadResponse
<1>3. ASSUME NEW c \in Conn, \/ LinkCloses(c) \/ InsertSender(c) \/ BothEnded(c) \/ SocketSent(c)
                             \/ SocketLost(c) \/ SocketFailed(c) \/ Deregister(c)
      PROVE  IdsKnown'
  <2>1. CASE LinkCloses(c) \/ InsertSender(c) \/ BothEnded(c) \/ Deregister(c)
    BY <2>1 DEF LinkCloses, InsertSender, BothEnded, Deregister
  <2>2. CASE SocketSent(c)
    BY <2>2 DEF SocketSent
  <2>3. CASE SocketLost(c)
    BY <2>3 DEF SocketLost
  <2>4. CASE SocketFailed(c)
    BY <2>4 DEF SocketFailed
  <2> QED
    BY <1>3, <2>1, <2>2, <2>3, <2>4
<1>4. ASSUME NEW c \in Conn, TakeMessage(c) PROVE IdsKnown'
  BY <1>4 DEF TakeMessage
<1>5. ASSUME NEW r \in Req, NEW t \in Tunnel, Arrive(r, t) PROVE IdsKnown'
  BY <1>5 DEF Arrive
<1>6. ASSUME NEW r \in Req, LookupFound(r) PROVE IdsKnown'
  BY <1>6 DEF LookupFound
<1>7. ASSUME NEW r \in Req,
             \/ ArriveWithoutHost(r) \/ LookupMissing(r) \/ InsertPending(r) \/ BodyRead(r)
             \/ BodyFails(r) \/ SendRequest(r) \/ SendFails(r) \/ ResponseDropped(r)
      PROVE  IdsKnown'
  BY <1>7 DEF ArriveWithoutHost, LookupMissing, InsertPending, BodyRead, BodyFails, SendRequest,
              SendFails, ResponseDropped
<1>8. ASSUME NEW r \in Req, HeaderPanics(r) \/ GotResponse(r) \/ FallbackReplies(r) \/ Cancel(r)
      PROVE  IdsKnown'
  <2>1. /\ Finish(r) /\ rpc[r] \in Active
        /\ UNCHANGED <<conn, cid, cur>>
    BY <1>8 DEF HeaderPanics, GotResponse, FallbackReplies, Cancel
  <2> QED
    BY <2>1 DEF Finish
<1>9. CASE UNCHANGED vars
  BY <1>9 DEF vars
<1> QED
  BY <1>1, <1>2, <1>3, <1>4, <1>5, <1>6, <1>7, <1>8, <1>9
  DEF Next, ClientNext, SessionNext, Receives, HandlerNext, RequestNext

\* Nobody takes the lock from a handler that found its tunnel: sessions and
\* other handlers only queue up behind it or leave the queue.
LEMMA FoundHoldsStep == TypeOK /\ FoundHolds /\ [Next]_vars => FoundHolds'
<1> SUFFICES ASSUME TypeOK, FoundHolds, [Next]_vars PROVE FoundHolds'
  OBVIOUS
<1> USE RelayAssumption DEF FoundHolds, Holds
<1>1. lockq \in Seq(Conn \cup Req) /\ rpc \in [Req -> {"new", "over"} \cup Active]
  BY DEF TypeOK
<1>2. ASSUME NEW x \in Conn \cup Req, lockq' = Append(lockq, x), UNCHANGED rpc PROVE FoundHolds'
  BY <1>1, <1>2, QueueAppend
<1>3. ASSUME NEW c \in Conn, InsertSender(c) \/ Deregister(c) PROVE FoundHolds'
  BY <1>3 DEF InsertSender, Deregister, reqVars
<1>4. ASSUME NEW r \in Req, NEW t \in Tunnel, Arrive(r, t) PROVE FoundHolds'
  BY <1>1, <1>4, QueueAppend DEF Arrive
<1>5. ASSUME NEW r \in Req, LookupFound(r) \/ LookupMissing(r) PROVE FoundHolds'
  BY <1>1, <1>5 DEF LookupFound, LookupMissing
<1>6. ASSUME NEW r \in Req, HeaderPanics(r) \/ GotResponse(r) \/ FallbackReplies(r) \/ Cancel(r)
      PROVE  FoundHolds'
  <2>1. Finish(r)
    BY <1>6 DEF HeaderPanics, GotResponse, FallbackReplies, Cancel
  <2>2. ASSUME NEW q \in Req, rpc'[q] \in {"insert", "body", "send", "wait"} PROVE Holds(q)'
    <3>1. q # r /\ rpc'[q] = rpc[q]
      BY <1>1, <2>1, <2>2 DEF Finish
    <3>2. lockq # <<>> /\ Head(lockq) = q
      BY <2>2, <3>1
    <3> QED
      BY <1>1, <2>1, <3>1, <3>2, QueueWithout DEF Finish
  <2> QED
    BY <2>2
<1>7. ASSUME NEW r \in Req,
             \/ ArriveWithoutHost(r) \/ InsertPending(r) \/ BodyRead(r) \/ BodyFails(r)
             \/ SendRequest(r) \/ SendFails(r) \/ ResponseDropped(r)
      PROVE  FoundHolds'
  BY <1>1, <1>7 DEF ArriveWithoutHost, InsertPending, BodyRead, BodyFails, SendRequest, SendFails,
                    ResponseDropped
<1>8. ASSUME UNCHANGED <<lockq, rpc>> PROVE FoundHolds'
  BY <1>8
<1>9. ASSUME NEW c \in Conn, ClientNext(c) \/ SessionNext(c) PROVE FoundHolds'
  BY <1>2, <1>3, <1>8, <1>9
  DEF ClientNext, SessionNext, Receives, Connect, TargetReplies, TaskPanics, LinkCloses, TakeMessage, SocketSent,
      SocketLost, SocketFailed, ReceiveResponse, BothEnded, reqVars
<1>10. ASSUME NEW c \in Conn, NEW r \in Req, BadResponse(c, r) PROVE FoundHolds'
  BY <1>8, <1>10 DEF BadResponse, reqVars
<1>11. CASE UNCHANGED vars
  BY <1>8, <1>11 DEF vars, reqVars
<1> QED
  BY <1>4, <1>5, <1>6, <1>7, <1>9, <1>10, <1>11 DEF Next, HandlerNext, RequestNext

\* What the sessions do with the registry leaves it true: a session enters
\* itself, and one that returns takes out whoever is registered under its name.
LEMMA RegistryStep == TypeOK /\ IdsKnown /\ RegistryIsTrue /\ [Next]_vars => RegistryIsTrue'
<1> SUFFICES ASSUME TypeOK, IdsKnown, RegistryIsTrue, [Next]_vars PROVE RegistryIsTrue'
  OBVIOUS
<1> DEFINE Kept == Running \cup {"panicked"}
<1>1. /\ conn \in [Conn -> {"free", "enter", "ended", "panicked"} \cup Running]
      /\ cid \in [Conn -> Tunnel \cup {NoTunnel}] /\ tunnels \in [Tunnel -> Conn \cup {NoConn}]
      /\ \A c \in Conn : conn[c] # "free" => cid[c] \in Tunnel
      /\ NoConn \notin Conn
  BY RelayAssumption DEF TypeOK, IdsKnown
<1>2. \A t \in Tunnel : tunnels[t] # NoConn =>
        tunnels[t] \in Conn /\ cid[tunnels[t]] = t /\ conn[tunnels[t]] \in Kept
  BY <1>1 DEF RegistryIsTrue
<1>3. \A c \in Conn : conn[c] \in Running /\ tunnels[cid[c]] = NoConn =>
        \E d \in Conn : cid[d] = cid[c] /\ conn[d] = "ended"
  BY DEF RegistryIsTrue
<1>4. ASSUME UNCHANGED tunnels,
             \A d \in Conn : conn[d] \in Kept \cup {"ended"} => cid'[d] = cid[d],
             \A d \in Conn : conn[d] \in Kept => conn'[d] \in Kept,
             \A d \in Conn : conn[d] = "ended" => conn'[d] = "ended",
             \A d \in Conn : conn'[d] \in Running => conn[d] \in Running
      PROVE  RegistryIsTrue'
  <2>1. ASSUME NEW t \in Tunnel, tunnels'[t] # NoConn
        PROVE  cid'[tunnels'[t]] = t /\ conn'[tunnels'[t]] \in Kept
    BY <1>2, <1>4, <2>1
  <2>2. ASSUME NEW d \in Conn, conn'[d] \in Running, tunnels'[cid'[d]] = NoConn
        PROVE  \E e \in Conn : cid'[e] = cid'[d] /\ conn'[e] = "ended"
    <3>1. conn[d] \in Running /\ cid'[d] = cid[d]
      BY <1>4, <2>2
    <3>2. PICK e \in Conn : cid[e] = cid[d] /\ conn[e] = "ended"
      BY <1>3, <1>4, <2>2, <3>1
    <3> QED
      BY <1>4, <3>1, <3>2
  <2> QED
    BY <2>1, <2>2 DEF RegistryIsTrue
<1>5. ASSUME NEW c \in Conn, NEW t \in Tunnel, Connect(c, t) PROVE RegistryIsTrue'
  <2>1. /\ conn[c] = "free" /\ conn'[c] = "enter" /\ UNCHANGED tunnels
        /\ \A d \in Conn : d # c => conn'[d] = conn[d] /\ cid'[d] = cid[d]
    BY <1>1, <1>5 DEF Connect
  <2> QED
    BY <1>4, <2>1 DEF Running
<1>6. ASSUME NEW c \in Conn, InsertSender(c) PROVE RegistryIsTrue'
  <2>1. /\ cid[c] \in Tunnel /\ UNCHANGED cid /\ tunnels' = [tunnels EXCEPT ![cid[c]] = c]
        /\ conn[c] = "enter" /\ conn'[c] = "loop" /\ \A d \in Conn : d # c => conn'[d] = conn[d]
    BY <1>1, <1>6 DEF InsertSender
  <2>2. ASSUME NEW t \in Tunnel, tunnels'[t] # NoConn
        PROVE  cid'[tunnels'[t]] = t /\ conn'[tunnels'[t]] \in Kept
    <3>1. CASE t = cid[c]
      BY <1>1, <2>1, <3>1 DEF Running
    <3>2. CASE t # cid[c]
      BY <1>1, <1>2, <2>1, <2>2, <3>2 DEF Running
    <3> QED
      BY <3>1, <3>2
  <2>3. ASSUME NEW d \in Conn, conn'[d] \in Running, tunnels'[cid'[d]] = NoConn
        PROVE  \E e \in Conn : cid'[e] = cid'[d] /\ conn'[e] = "ended"
    <3>1. cid[d] # cid[c] /\ d # c
      BY <1>1, <2>1, <2>3
    <3>2. conn[d] \in Running /\ cid[d] \in Tunnel
      BY <1>1, <2>1, <2>3, <3>1 DEF Running
    <3>3. PICK e \in Conn : cid[e] = cid[d] /\ conn[e] = "ended"
      BY <1>1, <1>3, <2>1, <2>3, <3>1, <3>2
    <3> QED
      BY <2>1, <3>3
  <2> QED
    BY <2>2, <2>3 DEF RegistryIsTrue
<1>7. ASSUME NEW c \in Conn,
             TakeMessage(c) \/ SocketSent(c) \/ SocketLost(c) \/ SocketFailed(c) \/ BothEnded(c)
      PROVE  RegistryIsTrue'
  <2>1. /\ conn[c] \in Running /\ UNCHANGED <<cid, tunnels>>
        /\ conn'[c] \in Running /\ \A d \in Conn : d # c => conn'[d] = conn[d]
    BY <1>1, <1>7 DEF TakeMessage, SocketSent, SocketLost, SocketFailed, BothEnded, Running
  <2> QED
    BY <1>4, <2>1 DEF Running
<1>8. ASSUME NEW c \in Conn, NEW r \in Req, BadResponse(c, r) PROVE RegistryIsTrue'
  <2>1. /\ conn[c] = "loop" /\ conn'[c] = "panicked" /\ UNCHANGED <<cid, tunnels>>
        /\ \A d \in Conn : d # c => conn'[d] = conn[d]
    BY <1>1, <1>8 DEF BadResponse
  <2> QED
    BY <1>4, <2>1 DEF Running
<1>9. ASSUME NEW c \in Conn, Deregister(c) PROVE RegistryIsTrue'
  <2>1. /\ cid[c] \in Tunnel /\ UNCHANGED cid /\ tunnels' = [tunnels EXCEPT ![cid[c]] = NoConn]
        /\ conn'[c] = "ended" /\ \A d \in Conn : d # c => conn'[d] = conn[d]
    BY <1>1, <1>9 DEF Deregister
  <2>2. ASSUME NEW t \in Tunnel, tunnels'[t] # NoConn
        PROVE  cid'[tunnels'[t]] = t /\ conn'[tunnels'[t]] \in Kept
    <3>1. t # cid[c] /\ tunnels'[t] = tunnels[t]
      BY <1>1, <2>1, <2>2
    <3>2. tunnels[t] \in Conn /\ cid[tunnels[t]] = t /\ conn[tunnels[t]] \in Kept
      BY <1>2, <2>2, <3>1
    <3> QED
      BY <2>1, <3>1, <3>2
  <2>3. ASSUME NEW d \in Conn, conn'[d] \in Running, tunnels'[cid'[d]] = NoConn
        PROVE  \E e \in Conn : cid'[e] = cid'[d] /\ conn'[e] = "ended"
    <3>1. d # c /\ conn[d] \in Running /\ cid[d] \in Tunnel
      BY <1>1, <2>1, <2>3 DEF Running
    <3>2. CASE cid[d] = cid[c]
      BY <2>1, <3>2
    <3>3. CASE cid[d] # cid[c]
      <4>1. PICK e \in Conn : cid[e] = cid[d] /\ conn[e] = "ended"
        BY <1>1, <1>3, <2>1, <2>3, <3>1, <3>3
      <4> QED
        BY <2>1, <4>1
    <3> QED
      BY <3>2, <3>3
  <2> QED
    BY <2>2, <2>3 DEF RegistryIsTrue
<1>10. ASSUME UNCHANGED <<conn, cid, tunnels>> PROVE RegistryIsTrue'
  BY <1>10 DEF RegistryIsTrue
<1>11. ASSUME NEW c \in Conn, ClientNext(c) \/ SessionNext(c) PROVE RegistryIsTrue'
  BY <1>5, <1>6, <1>7, <1>9, <1>10, <1>11
  DEF ClientNext, SessionNext, Receives, TargetReplies, TaskPanics, LinkCloses, ReceiveResponse
<1>12. ASSUME NEW r \in Req, RequestNext(r) PROVE RegistryIsTrue'
  BY <1>10, <1>12
  DEF RequestNext, HandlerNext, Arrive, ArriveWithoutHost, LookupFound, LookupMissing, InsertPending,
      BodyRead, BodyFails, HeaderPanics, SendRequest, SendFails, GotResponse, ResponseDropped,
      FallbackReplies, Cancel, connVars
<1>13. CASE UNCHANGED vars
  BY <1>10, <1>13 DEF vars, connVars
<1> QED
  BY <1>8, <1>11, <1>12, <1>13 DEF Next

\* The session of a handler that has the lock cannot return before the handler
\* is over: its deregistration needs the lock.
LEMMA ReceiverStep ==
    TypeOK /\ IdsKnown /\ FoundHolds /\ RegistryIsTrue /\ SendFindsReceiver /\ [Next]_vars
      => SendFindsReceiver'
<1> SUFFICES ASSUME TypeOK, IdsKnown, FoundHolds, RegistryIsTrue, SendFindsReceiver, [Next]_vars
             PROVE  SendFindsReceiver'
  OBVIOUS
<1> USE RelayAssumption DEF TypeOK, IdsKnown, SendFindsReceiver, Running
<1>1. ASSUME NEW c \in Conn, NEW t \in Tunnel, Connect(c, t) PROVE SendFindsReceiver'
  BY <1>1 DEF Connect, reqVars
<1>2. ASSUME NEW c \in Conn,
             \/ InsertSender(c) \/ TakeMessage(c) \/ SocketSent(c) \/ SocketLost(c)
             \/ SocketFailed(c) \/ BothEnded(c)
      PROVE  SendFindsReceiver'
  BY <1>2 DEF InsertSender, TakeMessage, SocketSent, SocketLost, SocketFailed, BothEnded, reqVars
<1>3. ASSUME NEW c \in Conn, NEW r \in Req, BadResponse(c, r) PROVE SendFindsReceiver'
  BY <1>3 DEF BadResponse, reqVars
<1>4. ASSUME NEW c \in Conn, Deregister(c) PROVE SendFindsReceiver'
  <2>1. \A r \in Req : rpc[r] \notin {"insert", "body", "send"}
    BY <1>4 DEF Deregister, FoundHolds, Holds
  <2> QED
    BY <1>4, <2>1 DEF Deregister, reqVars
<1>5. ASSUME NEW r \in Req, LookupFound(r) PROVE SendFindsReceiver'
  BY <1>5 DEF LookupFound, RegistryIsTrue, connVars
<1>6. ASSUME NEW r \in Req,
             \/ LookupMissing(r) \/ InsertPending(r) \/ SendRequest(r) \/ SendFails(r)
             \/ ArriveWithoutHost(r) \/ BodyRead(r) \/ BodyFails(r) \/ ResponseDropped(r)
             \/ \E t \in Tunnel : Arrive(r, t)
      PROVE  SendFindsReceiver'
  BY <1>6 DEF LookupMissing, InsertPending, SendRequest, SendFails, ArriveWithoutHost, BodyRead,
              BodyFails, ResponseDropped, Arrive, connVars
<1>7. ASSUME NEW r \in Req, HeaderPanics(r) \/ GotResponse(r) \/ FallbackReplies(r) \/ Cancel(r)
      PROVE  SendFindsReceiver'
  <2>1. Finish(r) /\ UNCHANGED conn
    BY <1>7 DEF HeaderPanics, GotResponse, FallbackReplies, Cancel, connVars
  <2> QED
    BY <2>1 DEF Finish
<1>8. ASSUME UNCHANGED <<conn, rpc, rconn>> PROVE SendFindsReceiver'
  BY <1>8
<1>9. ASSUME NEW c \in Conn, ClientNext(c) \/ SessionNext(c) PROVE SendFindsReceiver'
  BY <1>1, <1>2, <1>4, <1>8, <1>9
  DEF ClientNext, SessionNext, Receives, TargetReplies, TaskPanics, LinkCloses, ReceiveResponse, reqVars
<1>10. CASE UNCHANGED vars
  BY <1>8, <1>10 DEF vars, connVars, reqVars
<1> QED
  BY <1>3, <1>5, <1>6, <1>7, <1>9, <1>10 DEF Next, HandlerNext, RequestNext

\* A link is made once, and a session on its way out was told so by a closed
\* one, which stays closed.
LEMMA LinkStep == TypeOK /\ LinksFit /\ [Next]_vars => LinksFit'
<1> SUFFICES ASSUME TypeOK, LinksFit, [Next]_vars PROVE LinksFit'
  OBVIOUS
<1> USE DEF TypeOK, LinksFit
<1>1. ASSUME NEW c \in Conn, ClientNext(c) \/ SessionNext(c) PROVE LinksFit'
  BY <1>1
  DEF ClientNext, SessionNext, Receives, Connect, TargetReplies, TaskPanics, LinkCloses, InsertSender, TakeMessage,
      SocketSent, SocketLost, SocketFailed, ReceiveResponse, BothEnded, Deregister
<1>2. ASSUME NEW c \in Conn, NEW r \in Req, BadResponse(c, r) PROVE LinksFit'
  BY <1>2 DEF BadResponse
<1>3. ASSUME UNCHANGED <<conn, link>> PROVE LinksFit'
  BY <1>3
<1>4. ASSUME NEW r \in Req, RequestNext(r) PROVE LinksFit'
  BY <1>3, <1>4
  DEF RequestNext, HandlerNext, Arrive, ArriveWithoutHost, LookupFound, LookupMissing, InsertPending,
      BodyRead, BodyFails, HeaderPanics, SendRequest, SendFails, GotResponse, ResponseDropped,
      FallbackReplies, Cancel, connVars
<1>5. CASE UNCHANGED vars
  BY <1>3, <1>5 DEF vars, connVars
<1> QED
  BY <1>1, <1>2, <1>4, <1>5 DEF Next

\* What a session or its client does with the requests it has: none is made up,
\* and one that is gone was answered, or lost by the client, or its link has
\* closed.
LEMMA FlightStep ==
    ASSUME TypeOK, IdsKnown, LinksFit, NEW c \in Conn,
           ClientNext(c) \/ SessionNext(c) \/ \E r \in Req : BadResponse(c, r)
    PROVE  /\ \A d \in Conn, q \in Req : InFlight(q, d)' => InFlight(q, d)
           /\ \A d \in Conn, q \in Req : InFlight(q, d) =>
                InFlight(q, d)' \/ link'[d] = "closed" \/ ReceiveResponse(d, q) \/ q \in lost'
           /\ \A d \in Conn : link[d] = "closed" => link'[d] = "closed"
           /\ lost \subseteq lost'
<1> DEFINE Goal(d) ==
      /\ \A q \in Req : InFlight(q, d)' => InFlight(q, d)
      /\ \A q \in Req : InFlight(q, d) =>
            InFlight(q, d)' \/ link'[d] = "closed" \/ ReceiveResponse(d, q) \/ q \in lost'
      /\ link[d] = "closed" => link'[d] = "closed"
<1>0. lost \subseteq lost'
  BY DEF ClientNext, SessionNext, Receives, Connect, TargetReplies, TaskPanics, LinkCloses, InsertSender,
         TakeMessage, SocketSent, SocketLost, SocketFailed, ReceiveResponse, BothEnded, Deregister,
         BadResponse
<1> SUFFICES \A d \in Conn : Goal(d)
  BY <1>0
<1>1. /\ chan \in [Conn -> Seq(Req)] /\ cur \in [Conn -> Req \cup {NoReq}]
      /\ tasks \in [Conn -> SUBSET Req] /\ replies \in [Conn -> SUBSET Req]
      /\ link \in [Conn -> {"none", "up", "closed"}] /\ NoReq \notin Req
      /\ conn[c] = "free" => link[c] = "none"
      /\ conn[c] = "leaving" => link[c] = "closed"
      /\ conn[c] # "sending" => cur[c] = NoReq
      /\ ~InQueue(<<>>, NoReq) /\ \A q \in Req : ~InQueue(<<>>, q)
  BY RelayAssumption DEF TypeOK, LinksFit, IdsKnown, InQueue
<1>2. ASSUME NEW d \in Conn, chan'[d] = chan[d], cur'[d] = cur[d], tasks'[d] = tasks[d],
             replies'[d] = replies[d], link[d] = "closed" => link'[d] = "closed"
      PROVE  Goal(d)
  BY <1>2 DEF InFlight
<1>3. ASSUME NEW t \in Tunnel, Connect(c, t) PROVE \A d \in Conn : Goal(d)
  BY <1>1, <1>2, <1>3 DEF Connect
<1>4. ASSUME NEW r \in Req, TargetReplies(c, r) PROVE \A d \in Conn : Goal(d)
  <2>1. Goal(c)
    BY <1>1, <1>4 DEF TargetReplies, InFlight
  <2>2. \A d \in Conn : d # c => Goal(d)
    BY <1>1, <1>2, <1>4 DEF TargetReplies
  <2> QED
    BY <2>1, <2>2
<1>13. ASSUME NEW r \in Req, TaskPanics(c, r) PROVE \A d \in Conn : Goal(d)
  <2>1. Goal(c)
    BY <1>1, <1>13 DEF TaskPanics, InFlight
  <2>2. \A d \in Conn : d # c => Goal(d)
    BY <1>1, <1>2, <1>13 DEF TaskPanics
  <2> QED
    BY <2>1, <2>2
<1>5. ASSUME LinkCloses(c) PROVE \A d \in Conn : Goal(d)
  <2>1. Goal(c)
    BY <1>1, <1>5 DEF LinkCloses, InFlight
  <2>2. \A d \in Conn : d # c => Goal(d)
    BY <1>1, <1>2, <1>5 DEF LinkCloses
  <2> QED
    BY <2>1, <2>2
<1>6. ASSUME InsertSender(c) \/ BothEnded(c) PROVE \A d \in Conn : Goal(d)
  BY <1>1, <1>2, <1>6 DEF InsertSender, BothEnded
<1>7. ASSUME TakeMessage(c) PROVE \A d \in Conn : Goal(d)
  <2>1. /\ chan[c] \in Seq(Req) /\ chan[c] # <<>> /\ chan'[c] = Tail(chan[c])
        /\ cur[c] = NoReq /\ cur'[c] = Head(chan[c]) /\ UNCHANGED <<tasks, replies, link>>
        /\ \A d \in Conn : d # c => chan'[d] = chan[d] /\ cur'[d] = cur[d]
    BY <1>1, <1>7 DEF TakeMessage
  <2>2. /\ \A q \in Req : InQueue(chan[c], q) <=> q = Head(chan[c]) \/ InQueue(Tail(chan[c]), q)
        /\ Head(chan[c]) \in Req
    <3>1. InQueue(chan[c], Head(chan[c]))
      BY <2>1 DEF InQueue
    <3> QED
      BY <2>1, <3>1, QueueTail
  <2>3. Goal(c)
    BY <1>1, <2>1, <2>2 DEF InFlight
  <2>4. \A d \in Conn : d # c => Goal(d)
    BY <1>2, <2>1
  <2> QED
    BY <2>3, <2>4
<1>8. ASSUME SocketSent(c) PROVE \A d \in Conn : Goal(d)
  <2>1. Goal(c)
    BY <1>1, <1>8 DEF SocketSent, InFlight
  <2>2. \A d \in Conn : d # c => Goal(d)
    BY <1>1, <1>2, <1>8 DEF SocketSent
  <2> QED
    BY <2>1, <2>2
<1>9. ASSUME SocketLost(c) \/ SocketFailed(c) PROVE \A d \in Conn : Goal(d)
  <2>1. Goal(c)
    BY <1>1, <1>9 DEF SocketLost, SocketFailed, InFlight
  <2>2. \A d \in Conn : d # c => Goal(d)
    BY <1>1, <1>2, <1>9 DEF SocketLost, SocketFailed
  <2> QED
    BY <2>1, <2>2
<1>10. ASSUME NEW r \in Req, ReceiveResponse(c, r) PROVE \A d \in Conn : Goal(d)
  <2>1. /\ replies'[c] = replies[c] \ {r} /\ \A d \in Conn : d # c => replies'[d] = replies[d]
        /\ UNCHANGED <<link, chan, cur, tasks>>
    BY <1>1, <1>10 DEF ReceiveResponse
  <2>2. Goal(c)
    BY <1>10, <2>1 DEF InFlight
  <2>3. \A d \in Conn : d # c => Goal(d)
    BY <1>2, <2>1
  <2> QED
    BY <2>2, <2>3
<1>11. ASSUME NEW r \in Req, BadResponse(c, r) PROVE \A d \in Conn : Goal(d)
  <2>1. Goal(c)
    BY <1>1, <1>11 DEF BadResponse, InFlight
  <2>2. \A d \in Conn : d # c => Goal(d)
    BY <1>1, <1>2, <1>11 DEF BadResponse
  <2> QED
    BY <2>1, <2>2
<1>12. ASSUME Deregister(c) PROVE \A d \in Conn : Goal(d)
  <2>1. Goal(c)
    BY <1>1, <1>12 DEF Deregister, InFlight
  <2>2. \A d \in Conn : d # c => Goal(d)
    BY <1>1, <1>2, <1>12 DEF Deregister
  <2> QED
    BY <2>1, <2>2
<1> QED
  <2> HIDE DEF Goal
  <2> QED
    BY <1>3, <1>4, <1>5, <1>6, <1>7, <1>8, <1>9, <1>10, <1>11, <1>12, <1>13
    DEF ClientNext, SessionNext, Receives

\* How a handler moves: only its own entries change, the sender it got at its
\* lookup stays the one it has until it is over, and it never goes back.
LEMMA HandlerMoves ==
    ASSUME TypeOK, NEW r \in Req, RequestNext(r)
    PROVE  /\ \A q \in Req : q # r => rpc'[q] = rpc[q] /\ rconn'[q] = rconn[q] /\ slot'[q] = slot[q]
           /\ UNCHANGED <<link, cur, tasks, replies, lost>>
           /\ rpc[r] # "lookup" => rconn'[r] = rconn[r] \/ rpc'[r] = "over"
           /\ slot'[r] = slot[r] \/ rpc'[r] = "over"
           /\ rpc'[r] \in Early => rpc[r] \in Early
           /\ rpc'[r] = "wait" <=> SendRequest(r)
           /\ pending' = pending \/ (InsertPending(r) /\ pending' = pending \cup {r})
                                \/ (SendFails(r) /\ pending' = pending \ {r})
           /\ rpc'[r] \in {"body", "send"} => r \in pending' \/ rpc[r] = "body"
           /\ UNCHANGED chan \/ SendRequest(r)
<1>1. rpc \in [Req -> {"new", "over"} \cup Active] /\ rconn \in [Req -> Conn \cup {NoConn}]
      /\ slot \in [Req -> Conn \cup {NoConn}]
  BY DEF TypeOK
<1> USE <1>1 DEF Early
<1> HIDE DEF TypeOK
<1>2. CASE \E t \in Tunnel : Arrive(r, t)
  BY <1>2 DEF Arrive, connVars, SendRequest
<1>3. CASE ArriveWithoutHost(r)
  BY <1>3 DEF ArriveWithoutHost, connVars, SendRequest
<1>4. CASE LookupFound(r)
  BY <1>4 DEF LookupFound, connVars, SendRequest
<1>5. CASE LookupMissing(r)
  BY <1>5 DEF LookupMissing, connVars, SendRequest
<1>6. CASE InsertPending(r)
  BY <1>6 DEF InsertPending, connVars, SendRequest
<1>7. CASE BodyRead(r) \/ BodyFails(r)
  BY <1>7 DEF BodyRead, BodyFails, connVars, SendRequest
<1>8. CASE SendRequest(r)
  BY <1>8 DEF SendRequest
<1>9. CASE SendFails(r)
  BY <1>9 DEF SendFails, connVars, SendRequest
<1>10. CASE ResponseDropped(r)
  BY <1>10 DEF ResponseDropped, connVars, SendRequest
<1>11. CASE HeaderPanics(r)
  BY <1>11 DEF HeaderPanics, Finish, connVars, SendRequest
<1>12. CASE GotResponse(r)
  BY <1>12 DEF GotResponse, Finish, connVars, SendRequest
<1>13. CASE FallbackReplies(r)
  BY <1>13 DEF FallbackReplies, Finish, connVars, SendRequest
<1>14. CASE Cancel(r)
  BY <1>14 DEF Cancel, Finish, connVars, SendRequest
<1> QED
  BY <1>2, <1>3, <1>4, <1>5, <1>6, <1>7, <1>8, <1>9, <1>10, <1>11, <1>12, <1>13, <1>14
  DEF RequestNext, HandlerNext

\* What SendRequest does to the requests under way: the handler's is added to
\* those of the session it chose.
LEMMA SendFlight ==
    ASSUME TypeOK, IdsKnown, NEW r \in Req, SendRequest(r)
    PROVE  \A c \in Conn, q \in Req :
             InFlight(q, c)' <=> InFlight(q, c) \/ (q = r /\ c = rconn[r])
<1>1. /\ rconn[r] \in Conn /\ chan[rconn[r]] \in Seq(Req)
      /\ chan'[rconn[r]] = Append(chan[rconn[r]], r)
      /\ \A c \in Conn : c # rconn[r] => chan'[c] = chan[c]
      /\ UNCHANGED <<cur, tasks, replies>>
  BY DEF TypeOK, IdsKnown, SendRequest
<1>2. \A q \in Req : InQueue(chan'[rconn[r]], q) <=> InQueue(chan[rconn[r]], q) \/ q = r
  BY <1>1, QueueAppend
<1> QED
  BY <1>1, <1>2 DEF InFlight

\* A session never gets a request that its handler did not send it.
LEMMA SentStep ==
    TypeOK /\ IdsKnown /\ LinksFit /\ SentToTarget /\ [Next]_vars => SentToTarget'
<1> SUFFICES ASSUME TypeOK, IdsKnown, LinksFit, SentToTarget, [Next]_vars,
                    NEW c \in Conn, NEW q \in Req, InFlight(q, c)'
             PROVE  rpc'[q] \notin Early /\ (rpc'[q] # "over" => rconn'[q] = c)
  BY DEF SentToTarget
<1>1. ASSUME NEW d \in Conn, ClientNext(d) \/ SessionNext(d) \/ \E r \in Req : BadResponse(d, r)
      PROVE  rpc'[q] \notin Early /\ (rpc'[q] # "over" => rconn'[q] = c)
  <2>1. InFlight(q, c)
    BY <1>1, FlightStep
  <2>2. UNCHANGED <<rpc, rconn>>
    BY <1>1
    DEF ClientNext, SessionNext, Receives, Connect, TargetReplies, TaskPanics, LinkCloses, InsertSender,
        TakeMessage, SocketSent, SocketLost, SocketFailed, ReceiveResponse, BothEnded, Deregister,
        BadResponse, reqVars
  <2> QED
    BY <2>1, <2>2 DEF SentToTarget
<1>2. ASSUME NEW r \in Req, RequestNext(r)
      PROVE  rpc'[q] \notin Early /\ (rpc'[q] # "over" => rconn'[q] = c)
  <2>1. CASE InFlight(q, c)
    <3>1. rpc[q] \notin Early /\ (rpc[q] # "over" => rconn[q] = c)
      BY <2>1 DEF SentToTarget
    <3>2. rpc[q] = "over" => rpc'[q] = "over"
      BY <1>2 DEF RequestNext, HandlerNext, Arrive, ArriveWithoutHost, LookupFound, LookupMissing,
                  InsertPending, BodyRead, BodyFails, HeaderPanics, SendRequest, SendFails,
                  GotResponse, ResponseDropped, FallbackReplies, Cancel, Finish, Active, TypeOK
    <3> QED
      BY <1>2, <3>1, <3>2, HandlerMoves DEF Early
  <2>2. CASE ~InFlight(q, c)
    <3>1. SendRequest(r)
      BY <1>2, <2>2, HandlerMoves DEF InFlight
    <3>2. q = r /\ c = rconn[r]
      BY <2>2, <3>1, SendFlight
    <3> QED
      BY <1>2, <3>1, <3>2, HandlerMoves DEF Early, SendRequest
  <2> QED
    BY <2>1, <2>2
<1>3. CASE UNCHANGED vars
  BY <1>3 DEF vars, connVars, reqVars, SentToTarget, InFlight
<1> QED
  BY <1>1, <1>2, <1>3 DEF Next

\* What a session or its client does to the entries of the map and to the
\* response channels: a Response takes the entry of a request it has out, and
\* fills the channel if the handler waits; nothing else touches them.
LEMMA SessionMoves ==
    ASSUME TypeOK, NEW c \in Conn,
           ClientNext(c) \/ SessionNext(c) \/ \E r \in Req : BadResponse(c, r)
    PROVE  /\ UNCHANGED <<rpc, rconn>>
           /\ \/ UNCHANGED <<pending, slot>>
              \/ \E r \in Req :
                   /\ r \in replies[c] /\ pending' = pending \ {r}
                   /\ \A q \in Req : q # r => slot'[q] = slot[q]
                   /\ \/ slot'[r] = (IF r \in pending /\ rpc[r] = "wait" THEN c ELSE slot[r])
                      \/ link'[c] = "closed" /\ slot' = slot
<1>1. slot \in [Req -> Conn \cup {NoConn}] /\ link \in [Conn -> {"none", "up", "closed"}]
  BY DEF TypeOK
<1>2. ASSUME NEW r \in Req, ReceiveResponse(c, r)
      PROVE  /\ r \in replies[c] /\ pending' = pending \ {r} /\ UNCHANGED <<rpc, rconn>>
             /\ \A q \in Req : q # r => slot'[q] = slot[q]
             /\ slot'[r] = (IF r \in pending /\ rpc[r] = "wait" THEN c ELSE slot[r])
  BY <1>1, <1>2 DEF ReceiveResponse
<1>3. ASSUME NEW r \in Req, BadResponse(c, r)
      PROVE  /\ r \in replies[c] /\ pending' = pending \ {r} /\ UNCHANGED <<rpc, rconn, slot>>
             /\ link'[c] = "closed"
  BY <1>1, <1>3 DEF BadResponse, reqVars
<1>4. ASSUME UNCHANGED <<pending, reqVars>> PROVE UNCHANGED <<rpc, rconn, pending, slot>>
  BY <1>4 DEF reqVars
<1> QED
  BY <1>2, <1>3, <1>4
  DEF ClientNext, SessionNext, Receives, Connect, TargetReplies, TaskPanics, LinkCloses, InsertSender,
      TakeMessage, SocketSent, SocketLost, SocketFailed, BothEnded, Deregister

\* The entry of a request is taken out by a Response of its own session only:
\* before it was sent nobody has it to answer, and afterwards the answer fills
\* the channel of the handler that waits.
LEMMA EntryStep ==
    /\ TypeOK /\ IdsKnown /\ LinksFit /\ SentToTarget /\ EntryIsKept
    /\ [Next]_vars
    => EntryIsKept'
<1> SUFFICES ASSUME TypeOK, IdsKnown, LinksFit, SentToTarget, EntryIsKept, [Next]_vars,
                    NEW q \in Req
             PROVE  /\ rpc'[q] \in Early => slot'[q] = NoConn
                    /\ rpc'[q] \in {"body", "send"} => q \in pending'
                    /\ (rpc'[q] = "wait" /\ slot'[q] = NoConn /\ link'[rconn'[q]] # "closed")
                         => q \in pending'
  BY DEF EntryIsKept
<1> DEFINE Goal ==
      /\ rpc'[q] \in Early => slot'[q] = NoConn
      /\ rpc'[q] \in {"body", "send"} => q \in pending'
      /\ (rpc'[q] = "wait" /\ slot'[q] = NoConn /\ link'[rconn'[q]] # "closed") => q \in pending'
<1>1. /\ rpc[q] \in Early => slot[q] = NoConn
      /\ rpc[q] \in {"body", "send"} => q \in pending
      /\ (rpc[q] = "wait" /\ slot[q] = NoConn /\ link[rconn[q]] # "closed") => q \in pending
      /\ rpc[q] = "wait" => rconn[q] \in Conn
      /\ NoConn \notin Conn
  BY RelayAssumption DEF EntryIsKept, IdsKnown
<1>2. ASSUME NEW c \in Conn, ClientNext(c) \/ SessionNext(c) \/ \E r \in Req : BadResponse(c, r)
      PROVE  Goal
  <2>1. \A d \in Conn : link[d] = "closed" => link'[d] = "closed"
    BY <1>2, FlightStep
  <2>2. UNCHANGED <<rpc, rconn>>
    BY <1>2, SessionMoves
  <2>3. CASE UNCHANGED <<pending, slot>>
    BY <1>1, <2>1, <2>2, <2>3
  <2>4. ASSUME NEW r \in Req, r \in replies[c], pending' = pending \ {r},
               \A p \in Req : p # r => slot'[p] = slot[p],
               \/ slot'[r] = (IF r \in pending /\ rpc[r] = "wait" THEN c ELSE slot[r])
               \/ link'[c] = "closed" /\ slot' = slot
        PROVE  Goal
    <3>1. CASE q # r
      BY <1>1, <2>1, <2>2, <2>4, <3>1
    <3>2. CASE q = r
      <4>1. rpc[q] \notin Early /\ (rpc[q] = "wait" => rconn[q] = c)
        BY <2>4, <3>2 DEF SentToTarget, InFlight
      <4> QED
        BY <1>1, <2>1, <2>2, <2>4, <3>2, <4>1 DEF Early
    <3> QED
      BY <3>1, <3>2
  <2> QED
    BY <1>2, <2>3, <2>4, SessionMoves
<1>3. ASSUME NEW r \in Req, RequestNext(r) PROVE Goal
  <2>1. UNCHANGED link /\ (rpc'[q] # "over" => slot'[q] = slot[q])
    BY <1>3, HandlerMoves
  <2>2. pending' = pending \/ pending' = pending \cup {r}
          \/ (rpc'[r] = "fallback" /\ pending' = pending \ {r})
    <3>1. SendFails(r) => rpc'[r] = "fallback"
      BY DEF SendFails, TypeOK
    <3> QED
      BY <1>3, <3>1, HandlerMoves
  <2>3. CASE q # r
    BY <1>1, <1>3, <2>1, <2>2, <2>3, HandlerMoves
  <2>4. CASE q = r
    <3>1. rpc'[q] \in Early => slot'[q] = NoConn
      BY <1>1, <1>3, <2>1, <2>4, HandlerMoves DEF Early
    <3>2. rpc'[q] \in {"body", "send"} => q \in pending'
      BY <1>1, <1>3, <2>2, <2>4, HandlerMoves
    <3>3. rpc'[q] = "wait" => q \in pending'
      <4>1. rpc'[q] = "wait" => rpc[q] = "send" /\ pending' = pending
        BY <1>3, <2>4, HandlerMoves DEF SendRequest
      <4> QED
        BY <1>1, <4>1
    <3> QED
      BY <3>1, <3>2, <3>3
  <2> QED
    BY <2>3, <2>4
<1>4. CASE UNCHANGED vars
  BY <1>1, <1>4 DEF vars, connVars, reqVars
<1> QED
  BY <1>2, <1>3, <1>4 DEF Next

\* While its handler waits, a request moves from the channel to the socket, to
\* the target and to the replies; it leaves only as the answer, with the link or
\* with the client's task.
LEMMA KeptStep ==
    /\ TypeOK /\ IdsKnown /\ LinksFit /\ SentToTarget /\ EntryIsKept /\ RequestIsKept
    /\ [Next]_vars
    => RequestIsKept'
<1> SUFFICES ASSUME TypeOK, IdsKnown, LinksFit, SentToTarget, EntryIsKept, RequestIsKept,
                    [Next]_vars, NEW q \in Req, rpc'[q] = "wait"
             PROVE  /\ slot'[q] \in {NoConn, rconn'[q]}
                    /\ slot'[q] = NoConn => InFlight(q, rconn[q])' \/ link'[rconn'[q]] = "closed" \/ q \in lost'
                    /\ slot'[q] # NoConn => q \notin pending'
  BY DEF RequestIsKept
<1> DEFINE Goal ==
      /\ slot'[q] \in {NoConn, rconn'[q]}
      /\ slot'[q] = NoConn => InFlight(q, rconn[q])' \/ link'[rconn'[q]] = "closed" \/ q \in lost'
      /\ slot'[q] # NoConn => q \notin pending'
<1>1. rpc[q] = "wait" =>
        /\ rconn[q] \in Conn
        /\ slot[q] \in {NoConn, rconn[q]}
        /\ slot[q] = NoConn => InFlight(q, rconn[q]) \/ link[rconn[q]] = "closed" \/ q \in lost
        /\ slot[q] # NoConn => q \notin pending
        /\ (slot[q] = NoConn /\ link[rconn[q]] # "closed") => q \in pending
  BY DEF RequestIsKept, EntryIsKept, IdsKnown
<1>2. ASSUME NEW c \in Conn, ClientNext(c) \/ SessionNext(c) \/ \E r \in Req : BadResponse(c, r)
      PROVE  Goal
  <2>1. rpc[q] = "wait" /\ UNCHANGED <<rpc, rconn>>
    BY <1>2, SessionMoves
  <2> DEFINE d == rconn[q]
  <2>2. d \in Conn /\ rconn'[q] = d /\ NoConn \notin Conn
    BY <1>1, <2>1, RelayAssumption
  <2>3. /\ link[d] = "closed" => link'[d] = "closed"
        /\ InFlight(q, d) =>
             InFlight(q, d)' \/ link'[d] = "closed" \/ ReceiveResponse(d, q) \/ q \in lost'
        /\ lost \subseteq lost'
    BY <1>2, <2>2, FlightStep
  <2>4. ReceiveResponse(d, q) =>
          /\ pending' = pending \ {q} /\ UNCHANGED link
          /\ slot'[q] = (IF q \in pending THEN d ELSE slot[q])
    BY <2>1 DEF ReceiveResponse, TypeOK
  <2>5. slot'[q] = NoConn => InFlight(q, d)' \/ link'[d] = "closed" \/ q \in lost'
    <3>1. ASSUME slot'[q] = NoConn PROVE slot[q] = NoConn
      <4>1. CASE UNCHANGED slot
        BY <3>1, <4>1
      <4>2. CASE ~UNCHANGED slot
        <5>1. PICK r \in Req :
                /\ r \in replies[c]
                /\ \A p \in Req : p # r => slot'[p] = slot[p]
                /\ \/ slot'[r] = (IF r \in pending /\ rpc[r] = "wait" THEN c ELSE slot[r])
                   \/ link'[c] = "closed" /\ slot' = slot
          BY <1>2, <4>2, SessionMoves
        <5> QED
          BY <2>2, <3>1, <4>2, <5>1
      <4> QED
        BY <4>1, <4>2
    <3>2. ASSUME slot'[q] = NoConn, ReceiveResponse(d, q) PROVE link'[d] = "closed"
      BY <1>1, <2>1, <2>2, <2>4, <3>1, <3>2
    <3> QED
      BY <1>1, <2>1, <2>3, <3>1, <3>2
  <2>6. slot'[q] \in {NoConn, d} /\ (slot'[q] # NoConn => q \notin pending')
    <3>1. CASE UNCHANGED <<pending, slot>>
      BY <1>1, <2>1, <3>1
    <3>2. CASE ~UNCHANGED <<pending, slot>>
      <4>1. PICK r \in Req :
              /\ r \in replies[c] /\ pending' = pending \ {r}
              /\ \A p \in Req : p # r => slot'[p] = slot[p]
              /\ \/ slot'[r] = (IF r \in pending /\ rpc[r] = "wait" THEN c ELSE slot[r])
                 \/ link'[c] = "closed" /\ slot' = slot
        BY <1>2, <3>2, SessionMoves
      <4>2. rpc[r] = "wait" => rconn[r] = c
        BY <4>1 DEF SentToTarget, InFlight
      <4>3. CASE q = r
        BY <1>1, <2>1, <4>1, <4>2, <4>3
      <4>4. CASE q # r
        BY <1>1, <2>1, <4>1, <4>4
      <4> QED
        BY <4>3, <4>4
    <3> QED
      BY <3>1, <3>2
  <2> QED
    BY <2>2, <2>5, <2>6
<1>3. ASSUME NEW r \in Req, RequestNext(r) PROVE Goal
  <2>1. UNCHANGED <<link, lost>> /\ slot'[q] = slot[q]
    BY <1>3, HandlerMoves
  <2>2. CASE q = r
    <3>1. SendRequest(r)
      BY <1>3, <2>2, HandlerMoves
    <3>2. rpc[q] = "send" /\ rconn'[q] = rconn[q] /\ rconn[q] \in Conn
      BY <2>2, <3>1 DEF SendRequest, IdsKnown
    <3>3. slot'[q] = NoConn
      BY <2>1, <3>2 DEF EntryIsKept, Early
    <3>4. InFlight(q, rconn[q])'
      BY <2>2, <3>1, <3>2, SendFlight
    <3> QED
      BY <3>2, <3>3, <3>4 DEF InFlight
  <2>3. CASE q # r
    <3>1. rpc[q] = "wait" /\ rconn'[q] = rconn[q] /\ rconn[q] \in Conn
      BY <1>1, <1>3, <2>3, HandlerMoves
    <3>2. q \in pending' <=> q \in pending
      BY <1>3, <2>3, HandlerMoves
    <3>3. InFlight(q, rconn[q]) => InFlight(q, rconn[q])'
      <4>1. CASE SendRequest(r)
        BY <3>1, <4>1, SendFlight DEF InFlight
      <4>2. CASE ~SendRequest(r)
        BY <1>3, <3>1, <4>2, HandlerMoves DEF InFlight
      <4> QED
        BY <4>1, <4>2
    <3> QED
      BY <1>1, <2>1, <3>1, <3>2, <3>3
  <2> QED
    BY <2>2, <2>3
<1>4. CASE UNCHANGED vars
  BY <1>1, <1>4 DEF vars, connVars, reqVars, InFlight
<1> QED
  BY <1>2, <1>3, <1>4 DEF Next
-----------------------------------------------------------------------------
(* The theorems *)

\* RelayInv is inductive.
LEMMA RelayInvStep == RelayInv /\ [Next]_vars => RelayInv'
  BY TypeStep, IdsStep, FoundHoldsStep, LinkStep, RegistryStep, ReceiverStep, SentStep, EntryStep,
     KeptStep
  DEF RelayInv, RelayBooks

\* The strengthened invariant holds of every behaviour of the relay.
THEOREM RelayInvariant == Spec => []RelayInv
  BY RelayInvInit, RelayInvStep, PTL DEF Spec

\* The state keeps its types; in particular no session's channel ever holds
\* more than its capacity.
THEOREM TypeCorrect == Spec => []TypeOK
<1>1. RelayInv => TypeOK
  BY DEF RelayInv
<1> QED
  BY <1>1, RelayInvariant, PTL

\* A registered sender is that of a session of its subdomain that has not
\* returned, and a session that is served is reachable unless another session
\* of its subdomain returned (tunnels.insert and tunnels.remove by name).
THEOREM RegistryTrue == Spec => []RegistryIsTrue
<1>1. RelayInv => RegistryIsTrue
  BY DEF RelayInv
<1> QED
  BY <1>1, RelayInvariant, PTL

\* The send of forward_to_tunnel finds a receiver unless the session panicked:
\* the guard held across the waits keeps its session from returning.
THEOREM ReceiversFound == Spec => []SendFindsReceiver
<1>1. RelayInv => SendFindsReceiver
  BY DEF RelayInv
<1> QED
  BY <1>1, RelayInvariant, PTL

\* A handler that waits in forward_to_tunnel has its answer, or the session it
\* chose still has its request, or that session's link has closed, or the
\* client's task for it panicked.
THEOREM RequestsKept == Spec => []RequestIsKept
<1>1. RelayInv => RequestIsKept
  BY DEF RelayInv
<1> QED
  BY <1>1, RelayInvariant, PTL

\* A handler that found its tunnel has the tunnels lock until it is over, so no
\* session registers or deregisters, and no other handler looks anything up,
\* during its unbounded waits.
LookupExcludes ==
    (\E r \in Req : rpc[r] \in {"insert", "body", "send", "wait"}) =>
        /\ UNCHANGED tunnels
        /\ \A r \in Req : ~LookupFound(r) /\ ~LookupMissing(r)
THEOREM LockKeptAcrossWaits == Spec => [][LookupExcludes]_vars
<1>1. RelayInv /\ [Next]_vars => [LookupExcludes]_vars
  <2> SUFFICES ASSUME RelayInv, Next, NEW r \in Req, rpc[r] \in {"insert", "body", "send", "wait"}
               PROVE  UNCHANGED tunnels /\ \A q \in Req : ~LookupFound(q) /\ ~LookupMissing(q)
    BY DEF LookupExcludes
  <2>1. lockq # <<>> /\ Head(lockq) = r
    BY DEF RelayInv, RelayBooks, FoundHolds, Holds
  <2>2. \A q \in Req : ~LookupFound(q) /\ ~LookupMissing(q)
    BY <2>1 DEF LookupFound, LookupMissing, Holds
  <2>3. \A c \in Conn : ~InsertSender(c) /\ ~Deregister(c)
    BY <2>1, RelayAssumption DEF InsertSender, Deregister, Holds
  <2> QED
    BY <2>2, <2>3
    DEF Next, ClientNext, SessionNext, Receives, Connect, TargetReplies, TaskPanics, LinkCloses, TakeMessage,
        SocketSent, SocketLost, SocketFailed, ReceiveResponse, BothEnded, BadResponse, RequestNext,
        HandlerNext, Arrive, ArriveWithoutHost, LookupFound, LookupMissing, InsertPending, BodyRead,
        BodyFails, HeaderPanics, SendRequest, SendFails, GotResponse, ResponseDropped,
        FallbackReplies, Cancel
<1> QED
  BY <1>1, RelayInvariant, PTL DEF Spec
=============================================================================
