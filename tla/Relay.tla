------------------------------- MODULE Relay -------------------------------
(***************************************************************************)
(* The relay (relay/src/main.rs), the earlier and smaller hub, with the    *)
(* client program that registers with it (client/src/main.rs).             *)
(*                                                                         *)
(*   - a session per websocket connection c (handle_socket), at whose      *)
(*     other end runs one process of the client program;                   *)
(*   - a handler per HTTP request r (proxy_handler, forward_to_tunnel and  *)
(*     forward_to_fallback).                                               *)
(*                                                                         *)
(* TunnelRegistry.tunnels is behind a tokio Mutex, which serves its        *)
(* waiters in order.  The guard in proxy_handler is a temporary of an      *)
(* `if let` scrutinee: a handler that finds a tunnel keeps the lock until  *)
(* it returns, its waits for the visitor's body, for the tunnel's answer   *)
(* and for the fallback included.  pending_requests has a Mutex too, but   *)
(* no section of it waits for anything, so a section is one step.          *)
(*                                                                         *)
(* Both programs unwind: a panic ends one task and drops what it held.     *)
(***************************************************************************)
EXTENDS Naturals, Sequences

CONSTANTS
    Conn,      \* websocket connections, each used once
    Tunnel,    \* subdomains
    Req,       \* HTTP requests, each used once
    ChanCap,   \* capacity of a session's mpsc channel (100 in the code)
    NoConn, NoTunnel, NoReq

ASSUME RelayAssumption ==
    /\ ChanCap \in Nat \ {0}
    /\ NoConn \notin Conn /\ NoTunnel \notin Tunnel /\ NoReq \notin Req
    /\ Conn \cap Req = {}

VARIABLES
    conn,     \* where each session is
    link,     \* its connection: "none", "up" or "closed"
    cid,      \* the subdomain of its path
    chan,     \* its mpsc channel: requests waiting to be sent
    cur,      \* the request it is sending on the socket
    tasks,    \* requests the client is asking its target about
    replies,  \* requests whose Response the client has made and the session not read
    lost,     \* history: requests whose task in the client panicked
    tunnels,  \* whose sender is registered under each subdomain
    lockq,    \* tasks at the tunnels lock: the first one holds it
    pending,  \* pending_requests: requests whose sender is in the map
    rpc,      \* where each handler is
    rid,      \* the subdomain of its Host header
    rconn,    \* the session whose sender it holds
    slot      \* its response channel: the session that answered

connVars == <<conn, link, cid, chan, cur, tasks, replies, lost>>
reqVars == <<rpc, rid, rconn, slot>>
vars == <<connVars, tunnels, lockq, pending, reqVars>>

\* The receiver of a session's channel lives until handle_socket returns, the
\* wait for the lock at its end included.
Running == {"loop", "sending", "leaving"}
Active == {"lookup", "insert", "body", "send", "wait", "fallback"}

TypeOK ==
    /\ conn \in [Conn -> {"free", "enter", "ended", "panicked"} \cup Running]
    /\ link \in [Conn -> {"none", "up", "closed"}]
    /\ cid \in [Conn -> Tunnel \cup {NoTunnel}]
    /\ chan \in [Conn -> Seq(Req)] /\ \A c \in Conn : Len(chan[c]) <= ChanCap
    /\ cur \in [Conn -> Req \cup {NoReq}]
    /\ tasks \in [Conn -> SUBSET Req] /\ replies \in [Conn -> SUBSET Req] /\ lost \subseteq Req
    /\ tunnels \in [Tunnel -> Conn \cup {NoConn}]
    /\ lockq \in Seq(Conn \cup Req)
    /\ pending \subseteq Req
    /\ rpc \in [Req -> {"new", "over"} \cup Active]
    /\ rid \in [Req -> Tunnel \cup {NoTunnel}]
    /\ rconn \in [Req -> Conn \cup {NoConn}] /\ slot \in [Req -> Conn \cup {NoConn}]

Init ==
    /\ conn = [c \in Conn |-> "free"] /\ link = [c \in Conn |-> "none"]
    /\ cid = [c \in Conn |-> NoTunnel]
    /\ chan = [c \in Conn |-> <<>>] /\ cur = [c \in Conn |-> NoReq]
    /\ tasks = [c \in Conn |-> {}] /\ replies = [c \in Conn |-> {}] /\ lost = {}
    /\ tunnels = [t \in Tunnel |-> NoConn]
    /\ lockq = <<>> /\ pending = {}
    /\ rpc = [r \in Req |-> "new"] /\ rid = [r \in Req |-> NoTunnel]
    /\ rconn = [r \in Req |-> NoConn] /\ slot = [r \in Req |-> NoConn]

Holds(x) == lockq # <<>> /\ Head(lockq) = x
InQueue(q, x) == \E i \in 1..Len(q) : q[i] = x
\* Leaving the lock, whether held or waited for or neither.
Without(q, x) ==
    LET k == CHOOSE i \in 1..Len(q) : q[i] = x
    IN  IF InQueue(q, x) THEN [i \in 1..(Len(q) - 1) |-> IF i < k THEN q[i] ELSE q[i + 1]]
                         ELSE q
-----------------------------------------------------------------------------
(* The client program *)

\* connect_async and the Register message, which the relay ignores.
Connect(c, t) ==
    /\ conn[c] = "free"
    /\ conn' = [conn EXCEPT ![c] = "enter"]
    /\ link' = [link EXCEPT ![c] = "up"]
    /\ cid' = [cid EXCEPT ![c] = t]
    /\ lockq' = Append(lockq, c)
    /\ UNCHANGED <<lost, chan, cur, tasks, replies, tunnels, pending, reqVars>>

\* The task of a request gets the target's answer, or fails to and answers
\* 502; the writer task sends it.  A target that hangs (the call has no
\* timeout) leaves the request where it is.
TargetReplies(c, r) ==
    /\ r \in tasks[c]
    /\ tasks' = [tasks EXCEPT ![c] = @ \ {r}]
    /\ replies' = [replies EXCEPT ![c] = @ \cup {r}]
    /\ UNCHANGED <<lost, conn, link, cid, chan, cur, tunnels, lockq, pending, reqVars>>

\* An unwrap fails in the task (the path is no URI, a header is not text, the
\* body breaks off): no Response is made, and the client goes on.
TaskPanics(c, r) ==
    /\ r \in tasks[c]
    /\ tasks' = [tasks EXCEPT ![c] = @ \ {r}]
    /\ lost' = lost \cup {r}
    /\ UNCHANGED <<conn, link, cid, chan, cur, replies, tunnels, lockq, pending, reqVars>>

\* The connection or the process ends; there is no reconnect.  Replies that
\* are under way may arrive or not.
LinkCloses(c) ==
    /\ link[c] = "up"
    /\ link' = [link EXCEPT ![c] = "closed"]
    /\ tasks' = [tasks EXCEPT ![c] = {}]
    /\ \E kept \in SUBSET replies[c] : replies' = [replies EXCEPT ![c] = kept]
    /\ UNCHANGED <<lost, conn, cid, chan, cur, tunnels, lockq, pending, reqVars>>
-----------------------------------------------------------------------------
(* Sessions: handle_socket *)

\* An earlier sender of the subdomain is overwritten, and dropped.
InsertSender(c) ==
    /\ conn[c] = "enter" /\ Holds(c)
    /\ conn' = [conn EXCEPT ![c] = "loop"]
    /\ tunnels' = [tunnels EXCEPT ![cid[c]] = c]
    /\ lockq' = Tail(lockq)
    /\ UNCHANGED <<lost, link, cid, chan, cur, tasks, replies, pending, reqVars>>

\* Mutant: the branch is not safe to cancel; the message it has taken is lost
\* when the other branch wins.
TakeMessage_Cancelled(c) ==
    /\ conn[c] = "loop" /\ chan[c] # <<>>
    /\ \/ /\ conn' = [conn EXCEPT ![c] = "sending"]
          /\ cur' = [cur EXCEPT ![c] = Head(chan[c])]
       \/ replies[c] # {} /\ UNCHANGED <<conn, cur>>
    /\ chan' = [chan EXCEPT ![c] = Tail(@)]
    /\ UNCHANGED <<lost, link, cid, tasks, replies, tunnels, lockq, pending, reqVars>>

TakeMessage(c) ==
    /\ conn[c] = "loop" /\ chan[c] # <<>>
    /\ conn' = [conn EXCEPT ![c] = "sending"]
    /\ cur' = [cur EXCEPT ![c] = Head(chan[c])]
    /\ chan' = [chan EXCEPT ![c] = Tail(@)]
    /\ UNCHANGED <<lost, link, cid, tasks, replies, tunnels, lockq, pending, reqVars>>

\* The client has read enough for the write to return.
SocketSent(c) ==
    /\ conn[c] = "sending" /\ link[c] = "up"
    /\ conn' = [conn EXCEPT ![c] = "loop"]
    /\ cur' = [cur EXCEPT ![c] = NoReq]
    /\ tasks' = [tasks EXCEPT ![c] = @ \cup {cur[c]}]
    /\ UNCHANGED <<lost, link, cid, chan, replies, tunnels, lockq, pending, reqVars>>

\* A write after the peer's close may still succeed once more.
SocketLost(c) ==
    /\ conn[c] = "sending" /\ link[c] = "closed"
    /\ conn' = [conn EXCEPT ![c] = "loop"]
    /\ cur' = [cur EXCEPT ![c] = NoReq]
    /\ UNCHANGED <<lost, link, cid, chan, tasks, replies, tunnels, lockq, pending, reqVars>>

\* break, and on to the lock
SocketFailed(c) ==
    /\ conn[c] = "sending" /\ link[c] = "closed"
    /\ conn' = [conn EXCEPT ![c] = "leaving"]
    /\ cur' = [cur EXCEPT ![c] = NoReq]
    /\ lockq' = Append(lockq, c)
    /\ UNCHANGED <<lost, link, cid, chan, tasks, replies, tunnels, pending, reqVars>>

\* Mutant: the session takes the tunnels lock to deliver a response.
ReceiveResponse_UnderLock(c, r) ==
    /\ conn[c] = "loop" /\ r \in replies[c] /\ lockq = <<>>
    /\ replies' = [replies EXCEPT ![c] = @ \ {r}]
    /\ pending' = pending \ {r}
    /\ slot' = [slot EXCEPT ![r] = IF r \in pending /\ rpc[r] = "wait" THEN c ELSE @]
    /\ UNCHANGED <<lost, conn, link, cid, chan, cur, tasks, tunnels, lockq, rpc, rid, rconn>>

\* A Response: the request's sender leaves the map, and the response arrives
\* if the handler still holds the receiver.
ReceiveResponse(c, r) ==
    /\ conn[c] = "loop" /\ r \in replies[c]
    /\ replies' = [replies EXCEPT ![c] = @ \ {r}]
    /\ pending' = pending \ {r}
    /\ slot' = [slot EXCEPT ![r] = IF r \in pending /\ rpc[r] = "wait" THEN c ELSE @]
    /\ UNCHANGED <<lost, conn, link, cid, chan, cur, tasks, tunnels, lockq, rpc, rid, rconn>>

\* A Response whose status or headers no HTTP response can carry: the unwrap
\* in front of the send panics.  The sender taken from the map is dropped, and
\* the session ends without deregistering.
BadResponse(c, r) ==
    /\ conn[c] = "loop" /\ r \in replies[c] /\ r \in pending
    /\ conn' = [conn EXCEPT ![c] = "panicked"]
    /\ link' = [link EXCEPT ![c] = "closed"]
    /\ chan' = [chan EXCEPT ![c] = <<>>]
    /\ tasks' = [tasks EXCEPT ![c] = {}] /\ replies' = [replies EXCEPT ![c] = {}]
    /\ pending' = pending \ {r}
    /\ UNCHANGED <<lost, cid, cur, tunnels, lockq, reqVars>>

HoldsSender(r, c) == rconn[r] = c /\ rpc[r] \in {"insert", "body", "send", "wait"}

\* else => break: the stream has ended and every sender of the channel is gone.
\* While the registry has its sender a session does not notice that its client
\* has left.
BothEnded(c) ==
    /\ conn[c] = "loop" /\ link[c] = "closed" /\ replies[c] = {}
    /\ chan[c] = <<>> /\ tunnels[cid[c]] # c /\ \A r \in Req : ~HoldsSender(r, c)
    /\ conn' = [conn EXCEPT ![c] = "leaving"]
    /\ lockq' = Append(lockq, c)
    /\ UNCHANGED <<lost, link, cid, chan, cur, tasks, replies, tunnels, pending, reqVars>>

\* Mutant: the sender stays registered.
Deregister_Keeps(c) ==
    /\ conn[c] = "leaving" /\ Holds(c)
    /\ conn' = [conn EXCEPT ![c] = "ended"]
    /\ chan' = [chan EXCEPT ![c] = <<>>]
    /\ lockq' = Tail(lockq)
    /\ UNCHANGED <<lost, link, cid, cur, tasks, replies, tunnels, pending, reqVars>>

\* tunnels.remove(&id), whoever's sender it is; then the receiver is dropped.
Deregister(c) ==
    /\ conn[c] = "leaving" /\ Holds(c)
    /\ conn' = [conn EXCEPT ![c] = "ended"]
    /\ tunnels' = [tunnels EXCEPT ![cid[c]] = NoConn]
    /\ chan' = [chan EXCEPT ![c] = <<>>]
    /\ lockq' = Tail(lockq)
    /\ UNCHANGED <<lost, link, cid, cur, tasks, replies, pending, reqVars>>
-----------------------------------------------------------------------------
(* Handlers: proxy_handler, forward_to_tunnel, forward_to_fallback *)

Arrive(r, t) ==
    /\ rpc[r] = "new"
    /\ rpc' = [rpc EXCEPT ![r] = "lookup"]
    /\ rid' = [rid EXCEPT ![r] = t]
    /\ lockq' = Append(lockq, r)
    /\ UNCHANGED <<connVars, tunnels, pending, rconn, slot>>

\* No Host header: straight to the fallback.
ArriveWithoutHost(r) ==
    /\ rpc[r] = "new"
    /\ rpc' = [rpc EXCEPT ![r] = "fallback"]
    /\ UNCHANGED <<connVars, tunnels, lockq, pending, rid, rconn, slot>>

\* Mutant: the guard is dropped when the sender has been cloned.
LookupFound_DropsGuard(r) ==
    /\ rpc[r] = "lookup" /\ Holds(r)
    /\ tunnels[rid[r]] # NoConn
    /\ rpc' = [rpc EXCEPT ![r] = "insert"]
    /\ rconn' = [rconn EXCEPT ![r] = tunnels[rid[r]]]
    /\ lockq' = Tail(lockq)
    /\ UNCHANGED <<connVars, tunnels, pending, rid, slot>>

\* The sender is cloned, and the guard kept.
LookupFound(r) ==
    /\ rpc[r] = "lookup" /\ Holds(r)
    /\ tunnels[rid[r]] # NoConn
    /\ rpc' = [rpc EXCEPT ![r] = "insert"]
    /\ rconn' = [rconn EXCEPT ![r] = tunnels[rid[r]]]
    /\ UNCHANGED <<connVars, tunnels, lockq, pending, rid, slot>>

LookupMissing(r) ==
    /\ rpc[r] = "lookup" /\ Holds(r)
    /\ tunnels[rid[r]] = NoConn
    /\ rpc' = [rpc EXCEPT ![r] = "fallback"]
    /\ lockq' = Tail(lockq)
    /\ UNCHANGED <<connVars, tunnels, pending, rid, rconn, slot>>

InsertPending(r) ==
    /\ rpc[r] = "insert"
    /\ pending' = pending \cup {r}
    /\ rpc' = [rpc EXCEPT ![r] = "body"]
    /\ UNCHANGED <<connVars, tunnels, lockq, rid, rconn, slot>>

\* to_bytes(body): the visitor's pace.
BodyRead(r) ==
    /\ rpc[r] = "body"
    /\ rpc' = [rpc EXCEPT ![r] = "send"]
    /\ UNCHANGED <<connVars, tunnels, lockq, pending, rid, rconn, slot>>

\* The fallback is asked, under the lock, and the entry stays in the map.
BodyFails(r) ==
    /\ rpc[r] = "body"
    /\ rpc' = [rpc EXCEPT ![r] = "fallback"]
    /\ UNCHANGED <<connVars, tunnels, lockq, pending, rid, rconn, slot>>

\* A handler is over, whatever its visitor got: its guard, the sender it cloned
\* and the receiver of its response are dropped.
Finish(r) ==
    /\ rpc' = [rpc EXCEPT ![r] = "over"]
    /\ rid' = [rid EXCEPT ![r] = NoTunnel]
    /\ rconn' = [rconn EXCEPT ![r] = NoConn]
    /\ slot' = [slot EXCEPT ![r] = NoConn]
    /\ lockq' = Without(lockq, r)

\* A header is not text: to_str().unwrap() panics with the entry in the map.
HeaderPanics(r) ==
    /\ rpc[r] = "body"
    /\ Finish(r)
    /\ UNCHANGED <<connVars, tunnels, pending>>

\* Waits while the channel is full.
SendRequest(r) ==
    /\ rpc[r] = "send" /\ conn[rconn[r]] \in Running
    /\ Len(chan[rconn[r]]) < ChanCap
    /\ chan' = [chan EXCEPT ![rconn[r]] = Append(@, r)]
    /\ rpc' = [rpc EXCEPT ![r] = "wait"]
    /\ UNCHANGED <<lost, conn, link, cid, cur, tasks, replies, tunnels, lockq, pending, rid, rconn, slot>>

SendFails(r) ==
    /\ rpc[r] = "send" /\ conn[rconn[r]] \notin Running
    /\ pending' = pending \ {r}
    /\ rpc' = [rpc EXCEPT ![r] = "fallback"]
    /\ UNCHANGED <<connVars, tunnels, lockq, rid, rconn, slot>>

GotResponse(r) ==
    /\ rpc[r] = "wait" /\ slot[r] # NoConn
    /\ Finish(r)
    /\ UNCHANGED <<connVars, tunnels, pending>>

\* recv() yields None: the sender was dropped without a response.
ResponseDropped(r) ==
    /\ rpc[r] = "wait" /\ slot[r] = NoConn /\ r \notin pending
    /\ rpc' = [rpc EXCEPT ![r] = "fallback"]
    /\ UNCHANGED <<connVars, tunnels, lockq, pending, rid, rconn, slot>>

FallbackReplies(r) ==
    /\ rpc[r] = "fallback"
    /\ Finish(r)
    /\ UNCHANGED <<connVars, tunnels, pending>>

\* Mutant: a handler that is dropped keeps the lock.
Cancel_KeepsLock(r) ==
    /\ rpc[r] \in Active
    /\ rpc' = [rpc EXCEPT ![r] = "over"]
    /\ UNCHANGED <<connVars, tunnels, lockq, pending, rid, rconn, slot>>

\* The visitor goes away and the handler's future is dropped where it stands.
Cancel(r) ==
    /\ rpc[r] \in Active
    /\ Finish(r)
    /\ UNCHANGED <<connVars, tunnels, pending>>
-----------------------------------------------------------------------------
\* What the client does, at its own pace; the writes to it are at its pace too.
ClientNext(c) ==
    \/ \E t \in Tunnel : Connect(c, t)
    \/ \E r \in Req : TargetReplies(c, r) \/ TaskPanics(c, r)
    \/ LinkCloses(c)
    \/ SocketSent(c)

Receives(c) == \E r \in Req : ReceiveResponse(c, r)

\* What a session does without waiting for its client.
SessionNext(c) ==
    \/ InsertSender(c)
    \/ TakeMessage(c) \/ SocketLost(c) \/ SocketFailed(c)
    \/ Receives(c)
    \/ BothEnded(c) \/ Deregister(c)

\* What a handler does without waiting for the outside world.
HandlerNext(r) ==
    \/ LookupFound(r) \/ LookupMissing(r) \/ InsertPending(r)
    \/ SendRequest(r) \/ SendFails(r) \/ GotResponse(r) \/ ResponseDropped(r)

RequestNext(r) ==
    \/ \E t \in Tunnel : Arrive(r, t)
    \/ ArriveWithoutHost(r)
    \/ HandlerNext(r)
    \/ BodyRead(r) \/ BodyFails(r) \/ HeaderPanics(r)
    \/ FallbackReplies(r)
    \/ Cancel(r)

Next ==
    \/ \E c \in Conn : ClientNext(c) \/ SessionNext(c)
    \/ \E c \in Conn, r \in Req : BadResponse(c, r)
    \/ \E r \in Req : RequestNext(r)

Spec == Init /\ [][Next]_vars

\* The relay's tasks are polled, and select! begins with a random branch, so
\* that a reply is not passed over for ever for requests.  Visitors, clients
\* (what is written to them included), their targets and the fallback do as
\* they please.
FairSpec ==
    /\ Spec
    /\ \A c \in Conn : WF_vars(SessionNext(c)) /\ SF_vars(Receives(c))
    /\ \A r \in Req : WF_vars(HandlerNext(r))
-----------------------------------------------------------------------------
(* Safety *)

\* A registered sender belongs to a session of that subdomain that has not
\* returned, or that panicked; and a session that is served is reachable
\* unless another session of its subdomain returned (main.rs:107 removes by
\* name, so that one may have taken the newcomer's sender with it).
RegistryIsTrue ==
    /\ \A t \in Tunnel : tunnels[t] # NoConn =>
         /\ cid[tunnels[t]] = t
         /\ conn[tunnels[t]] \in Running \cup {"panicked"}
    /\ \A c \in Conn : conn[c] \in Running /\ tunnels[cid[c]] = NoConn =>
         \E d \in Conn : cid[d] = cid[c] /\ conn[d] = "ended"

\* The send of forward_to_tunnel fails only for a session that panicked: the
\* handler's guard keeps every session that is on its way out in front of its
\* deregistration, with its receiver alive.  So a request for a client that has
\* left is not sent to the fallback by this test, as the message there says.
SendFindsReceiver ==
    \A r \in Req : rpc[r] \in {"insert", "body", "send"} =>
        conn[rconn[r]] \in Running \cup {"panicked"}

InFlight(r, c) ==
    \/ InQueue(chan[c], r)
    \/ cur[c] = r \/ r \in tasks[c] \/ r \in replies[c]

\* A handler that waits has its response, from the session it chose, or that
\* session still has its request, somewhere between its channel and its
\* client's replies; only a link that closed or a task of the client that
\* panicked takes a request with it.
RequestIsKept ==
    \A r \in Req : rpc[r] = "wait" =>
        /\ slot[r] \in {NoConn, rconn[r]}
        /\ slot[r] = NoConn => InFlight(r, rconn[r]) \/ link[rconn[r]] = "closed" \/ r \in lost
        /\ slot[r] # NoConn => r \notin pending
-----------------------------------------------------------------------------
(* Liveness, under FairSpec *)

\* The holder of the lock waits for room in a channel: its session is writing to
\* its client, or leaves and waits for the very lock, its receiver still alive.
\* Nothing but the visitor's going away ends the second wait.
AwaitsRoom(r) ==
    /\ rpc[r] = "send" /\ Len(chan[rconn[r]]) = ChanCap
    /\ conn[rconn[r]] \in {"sending", "leaving"}

\* The holder waits for room, for a visitor's body, for a tunnel's answer or for
\* the fallback, none of which has a timeout.
HolderWaits ==
    \E r \in Req : Holds(r) /\ (rpc[r] \in {"body", "wait", "fallback"} \/ AwaitsRoom(r))

\* As long as no handler keeps the lock for ever in one of its unbounded waits,
\* every request gets to look its tunnel up and every session to register and
\* deregister: they come to the lock in turn and are finitely many, so that is
\* to say that the queue empties again and again.
NobodyStarves == []<>~HolderWaits => []<>(lockq = <<>>)

\* A reply the client has sent ends the wait of its handler, although the
\* handler holds the lock all the while: the session that delivers it needs
\* only the other one.  Unless the link closes before the reply is read, or the
\* client never reads what the session is writing to it.
RepliesArrive ==
    \A r \in Req : []<>~(rpc[r] = "wait" /\ conn[rconn[r]] = "sending") =>
        (rpc[r] = "wait" /\ r \in replies[rconn[r]])
            ~> (rpc[r] # "wait" \/ link[rconn[r]] = "closed")
=============================================================================
