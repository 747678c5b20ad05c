----------------------------- MODULE TunnelHub -----------------------------
(***************************************************************************)
(* The hub of the HTTP tunnel: rathole/src/main.rs (handle_socket, tunnel, *)
(* the cleanup task) and the request path of rathole/src/proxy.rs          *)
(* (proxy_handler, forward_via_tunnel).                                    *)
(*                                                                         *)
(* Three kinds of tasks share AppState:                                    *)
(*   - a session per websocket connection c (handle_socket);               *)
(*   - a handler per HTTP request r (proxy_handler or tunnel);             *)
(*   - the one cleanup task.                                               *)
(*                                                                         *)
(* The tunnels map is behind a tokio RwLock, which is fair: waiters are    *)
(* served first come first served, so a reader queued behind a writer      *)
(* waits for it.  Write sections contain no await and are one step here;   *)
(* read guards outlive a step in two places, where a guard is a temporary  *)
(* of an `if let` scrutinee and lives until the end of its body: the       *)
(* cookie branch of proxy_handler and the whole of tunnel.                 *)
(*                                                                         *)
(* Which tunnel is healthy is the subject of TunnelHealth; here a lookup   *)
(* may take or reject any registered tunnel.                               *)
(*                                                                         *)
(* The program is built with panic = "abort" (rathole/Cargo.toml): a panic *)
(* of any task ends the process.  What it kept in memory goes, what it     *)
(* wrote to redis stays, and the next process starts from that.            *)
(***************************************************************************)
EXTENDS Naturals, Sequences, FiniteSets

CONSTANTS
    Conn,        \* websocket connections, each used once
    Trusted,     \* the connections whose client has a valid token
    Tunnel,      \* tunnel ids: the {id} of /register/{id}
    Req,         \* HTTP requests, each used once
    Routes,      \* the routes each request may take, subsets of AllRoutes
    ChanCap,     \* capacity of a session's mpsc channel (100 in the code)
    CleanupCap,  \* capacity of the cleanup channel (100 in the code)
    NoConn, NoTunnel, NoReq, Cleaner

\* "sticky": a proxied request with a tunnel cookie; "best": one without;
\* "tunnel": a request to /tunnel/{id}/{*path}.
AllRoutes == {"sticky", "best", "tunnel"}

ASSUME InputAssumption == Trusted \subseteq Conn /\ Routes \in [Req -> SUBSET AllRoutes]
ASSUME CapAssumption == ChanCap \in Nat \ {0} /\ CleanupCap \in Nat \ {0}
ASSUME NullAssumption ==
    /\ NoConn \notin Conn /\ NoTunnel \notin Tunnel /\ NoReq \notin Req
    /\ Cleaner \notin Conn \cup Req
    /\ Conn \cap Req = {}

VARIABLES
    conn,       \* where each session is
    cid,        \* the tunnel id of its path
    chan,       \* its mpsc channel: requests waiting to be sent
    cur,        \* the request it is sending on the socket
    wire,       \* requests its client has received and not answered
    tunnels,    \* AppState.tunnels: whose sender is registered under each id
    status,     \* the status field of tunnel:{id} in redis
    cleanup,    \* the cleanup channel
    cleaner,    \* the id the cleanup task is removing
    process,    \* whether the hub is "up" or "down"
    left,       \* history: the ids the last process left online, not registered since
    lockq,      \* tasks waiting for the tunnels lock, in order
    guards,     \* requests that hold a read guard on tunnels
    responses,  \* AppState.responses: requests whose oneshot sender is in the map
    rpc,        \* where each request handler is, or how it ended
    route,      \* how the request is routed
    rid,        \* the tunnel id it is about
    rconn,      \* the session whose sender it holds
    slot,       \* its oneshot channel: the session that answered
    mark        \* what it reported to the health map

connVars == <<conn, cid, chan, cur, wire>>
hubVars == <<tunnels, status, cleanup, cleaner, process, left>>
lockVars == <<lockq, guards>>
reqVars == <<responses, rpc, route, rid, rconn, slot, mark>>
vars == <<connVars, hubVars, lockVars, reqVars>>

ConnStates == {"free", "hello", "online", "insert", "loop", "sending", "cleanup", "closed"}
Active == {"lookup", "insert", "body", "send", "wait", "expire", "cloud"}
Outcomes == {"ok", "bad_response", "bad_request", "bad_gateway", "timed_out", "send_error",
             "not_found", "cloud_ok", "cloud_error", "cancelled", "reset"}
Waiter == Conn \cup Req \cup {Cleaner}

\* The receiver of a session's channel lives until handle_socket leaves its loop.
ReceiverOpen(c) == conn[c] \in {"insert", "loop", "sending"}

InQueue(q, w) == \E i \in 1..Len(q) : q[i] = w
\* Removing a waiter whose future is dropped.
Without(q, w) ==
    LET k == CHOOSE k \in 1..Len(q) : q[k] = w
    IN  [i \in 1..(Len(q) - 1) |-> IF i < k THEN q[i] ELSE q[i + 1]]

\* The lock goes to the first waiter: a writer once every read guard is gone,
\* a reader at once.
WriterTurn(w) == lockq # <<>> /\ Head(lockq) = w /\ guards = {}
ReaderTurn(r) == lockq # <<>> /\ Head(lockq) = r

TypeOK ==
    /\ conn \in [Conn -> ConnStates]
    /\ cid \in [Conn -> Tunnel \cup {NoTunnel}]
    /\ chan \in [Conn -> Seq(Req)] /\ \A c \in Conn : Len(chan[c]) <= ChanCap
    /\ cur \in [Conn -> Req \cup {NoReq}]
    /\ wire \in [Conn -> SUBSET Req]
    /\ tunnels \in [Tunnel -> Conn \cup {NoConn}]
    /\ status \in [Tunnel -> {"none", "online", "offline"}]
    /\ cleanup \in Seq(Tunnel) /\ Len(cleanup) <= CleanupCap
    /\ cleaner \in Tunnel \cup {NoTunnel}
    /\ process \in {"up", "down"}
    /\ left \subseteq Tunnel
    /\ lockq \in Seq(Waiter)
    /\ guards \subseteq Req
    /\ responses \subseteq Req
    /\ rpc \in [Req -> {"new"} \cup Active \cup Outcomes]
    /\ route \in [Req -> AllRoutes]
    /\ rid \in [Req -> Tunnel \cup {NoTunnel}]
    /\ rconn \in [Req -> Conn \cup {NoConn}]
    /\ slot \in [Req -> Conn \cup {NoConn}]
    /\ mark \in [Req -> {"none", "success", "failure"}]

Init ==
    /\ conn = [c \in Conn |-> "free"]
    /\ cid = [c \in Conn |-> NoTunnel]
    /\ chan = [c \in Conn |-> <<>>]
    /\ cur = [c \in Conn |-> NoReq]
    /\ wire = [c \in Conn |-> {}]
    /\ tunnels = [t \in Tunnel |-> NoConn]
    /\ status = [t \in Tunnel |-> "none"]
    /\ cleanup = <<>>
    /\ cleaner = NoTunnel
    /\ process = "up"
    /\ left = {}
    /\ lockq = <<>>
    /\ guards = {}
    /\ responses = {}
    /\ rpc = [r \in Req |-> "new"]
    /\ route = [r \in Req |-> "best"]
    /\ rid = [r \in Req |-> NoTunnel]
    /\ rconn = [r \in Req |-> NoConn]
    /\ slot = [r \in Req |-> NoConn]
    /\ mark = [r \in Req |-> "none"]
-----------------------------------------------------------------------------
(* Sessions: register and handle_socket *)

Register(c, t) ==
    /\ process = "up"
    /\ conn[c] = "free"
    /\ conn' = [conn EXCEPT ![c] = "hello"]
    /\ cid' = [cid EXCEPT ![c] = t]
    /\ UNCHANGED <<chan, cur, wire, hubVars, lockVars, reqVars>>

\* The first message is text that is not a ControlMessage: handle_socket
\* returns at once, past the cleanup notice.
BadHello(c) ==
    /\ conn[c] = "hello"
    /\ conn' = [conn EXCEPT ![c] = "closed"]
    /\ UNCHANGED <<cid, chan, cur, wire, hubVars, lockVars, reqVars>>

\* The connection closes, or its first message is not text, not a Register
\* message or carries an invalid token: the session never registered, and
\* still ends with the cleanup notice.
RejectedHello(c) ==
    /\ conn[c] = "hello"
    /\ conn' = [conn EXCEPT ![c] = "cleanup"]
    /\ UNCHANGED <<cid, chan, cur, wire, hubVars, lockVars, reqVars>>

\* A valid Register message: redis is told that the tunnel is online ...
AcceptedHello(c) ==
    /\ conn[c] = "hello" /\ c \in Trusted
    /\ conn' = [conn EXCEPT ![c] = "online"]
    /\ status' = [status EXCEPT ![cid[c]] = "online"]
    /\ left' = left \ {cid[c]}
    /\ UNCHANGED <<cid, chan, cur, wire, tunnels, cleanup, cleaner, process, lockVars, reqVars>>

\* ... and when its answer is back the session asks for the write lock.
AskInsert(c) ==
    /\ conn[c] = "online"
    /\ conn' = [conn EXCEPT ![c] = "insert"]
    /\ lockq' = Append(lockq, c)
    /\ UNCHANGED <<cid, chan, cur, wire, hubVars, guards, reqVars>>

\* tunnels.insert(id, tx): the sender of an earlier session is overwritten.
InsertTunnel(c) ==
    /\ conn[c] = "insert"
    /\ WriterTurn(c)
    /\ conn' = [conn EXCEPT ![c] = "loop"]
    /\ tunnels' = [tunnels EXCEPT ![cid[c]] = c]
    /\ lockq' = Tail(lockq)
    /\ UNCHANGED <<cid, chan, cur, wire, status, cleanup, cleaner, process, left, guards, reqVars>>

\* rx.recv() yields a message; while socket.send is pending the select loop
\* serves nothing else.
TakeMessage(c) ==
    /\ conn[c] = "loop"
    /\ chan[c] # <<>>
    /\ conn' = [conn EXCEPT ![c] = "sending"]
    /\ cur' = [cur EXCEPT ![c] = Head(chan[c])]
    /\ chan' = [chan EXCEPT ![c] = Tail(@)]
    /\ UNCHANGED <<cid, wire, hubVars, lockVars, reqVars>>

SocketSent(c) ==
    /\ conn[c] = "sending"
    /\ conn' = [conn EXCEPT ![c] = "loop"]
    /\ wire' = [wire EXCEPT ![c] = @ \cup {cur[c]}]
    /\ cur' = [cur EXCEPT ![c] = NoReq]
    /\ UNCHANGED <<cid, chan, hubVars, lockVars, reqVars>>

\* Mutant: the response is given to the request that waits, whatever its id.
ReceiveResponse_AnyPending(c, r) ==
    /\ conn[c] = "loop"
    /\ r \in wire[c]
    /\ wire' = [wire EXCEPT ![c] = @ \ {r}]
    /\ \E q \in responses : /\ rpc[q] = "wait"
                          /\ responses' = responses \ {q}
                          /\ slot' = [slot EXCEPT ![q] = c]
    /\ UNCHANGED <<conn, cid, chan, cur, hubVars, lockVars,
                   rpc, route, rid, rconn, mark>>

\* A Response message: the oneshot sender leaves the map, and the response
\* arrives if the handler still holds the receiver.
ReceiveResponse(c, r) ==
    /\ conn[c] = "loop"
    /\ r \in wire[c]
    /\ wire' = [wire EXCEPT ![c] = @ \ {r}]
    /\ responses' = responses \ {r}
    /\ slot' = [slot EXCEPT ![r] =
                  IF r \in responses /\ rpc[r] = "wait" THEN c ELSE @]
    /\ UNCHANGED <<conn, cid, chan, cur, hubVars, lockVars,
                   rpc, route, rid, rconn, mark>>

\* Mutant: a session that was silent for 30 seconds is reported, but goes on.
BreakLoop_Stays(c) ==
    /\ conn[c] = "loop"
    /\ Len(cleanup) < CleanupCap
    /\ cleanup' = Append(cleanup, cid[c])
    /\ UNCHANGED <<connVars, tunnels, status, cleaner, process, left, lockVars, reqVars>>

\* The loop breaks: the client closed or failed, nothing came for 30 seconds,
\* or socket.send failed.  The receiver is dropped with what it still holds.
BreakLoop(c) ==
    /\ conn[c] \in {"loop", "sending"}
    /\ conn' = [conn EXCEPT ![c] = "cleanup"]
    /\ chan' = [chan EXCEPT ![c] = <<>>]
    /\ cur' = [cur EXCEPT ![c] = NoReq]
    /\ wire' = [wire EXCEPT ![c] = {}]
    /\ UNCHANGED <<cid, hubVars, lockVars, reqVars>>

\* Mutant: try_send, which gives up when the cleanup channel is full.
SendCleanup_Try(c) ==
    /\ conn[c] = "cleanup"
    /\ conn' = [conn EXCEPT ![c] = "closed"]
    /\ cleanup' = IF Len(cleanup) < CleanupCap THEN Append(cleanup, cid[c]) ELSE cleanup
    /\ UNCHANGED <<cid, chan, cur, wire, tunnels, status, cleaner, process, left, lockVars, reqVars>>

\* cleanup_tx.send(id), which waits while the cleanup channel is full.
SendCleanup(c) ==
    /\ conn[c] = "cleanup"
    /\ Len(cleanup) < CleanupCap
    /\ conn' = [conn EXCEPT ![c] = "closed"]
    /\ cleanup' = Append(cleanup, cid[c])
    /\ UNCHANGED <<cid, chan, cur, wire, tunnels, status, cleaner, process, left, lockVars, reqVars>>
-----------------------------------------------------------------------------
(* The cleanup task of main *)

\* Mutant: the redis status is not updated.
CleanupOffline_KeepsStatus ==
    /\ cleaner = NoTunnel
    /\ cleanup # <<>>
    /\ cleaner' = Head(cleanup)
    /\ cleanup' = Tail(cleanup)
    /\ UNCHANGED status
    /\ UNCHANGED <<connVars, tunnels, process, left, lockVars, reqVars>>

CleanupOffline ==
    /\ cleaner = NoTunnel
    /\ cleanup # <<>>
    /\ cleaner' = Head(cleanup)
    /\ cleanup' = Tail(cleanup)
    /\ status' = [status EXCEPT ![Head(cleanup)] = "offline"]
    /\ UNCHANGED <<connVars, tunnels, process, left, lockVars, reqVars>>

\* Redis has answered: the task asks for the write lock.
CleanupAsk ==
    /\ cleaner # NoTunnel
    /\ ~InQueue(lockq, Cleaner)
    /\ lockq' = Append(lockq, Cleaner)
    /\ UNCHANGED <<connVars, hubVars, guards, reqVars>>

\* Mutant: the sender is left in the map.
CleanupRemove_Keeps ==
    /\ cleaner # NoTunnel
    /\ WriterTurn(Cleaner)
    /\ UNCHANGED tunnels
    /\ cleaner' = NoTunnel
    /\ lockq' = Tail(lockq)
    /\ UNCHANGED <<connVars, status, cleanup, process, left, guards, reqVars>>

\* tunnels.remove(&id): whatever is registered under the id goes.
CleanupRemove ==
    /\ cleaner # NoTunnel
    /\ WriterTurn(Cleaner)
    /\ tunnels' = [tunnels EXCEPT ![cleaner] = NoConn]
    /\ cleaner' = NoTunnel
    /\ lockq' = Tail(lockq)
    /\ UNCHANGED <<connVars, status, cleanup, process, left, guards, reqVars>>
-----------------------------------------------------------------------------
(* Request handlers: tunnel, proxy_handler and forward_via_tunnel *)

Arrive(r, rt, t) ==
    /\ process = "up"
    /\ rpc[r] = "new"
    /\ rpc' = [rpc EXCEPT ![r] = "lookup"]
    /\ route' = [route EXCEPT ![r] = rt]
    /\ rid' = [rid EXCEPT ![r] = t]
    /\ lockq' = Append(lockq, r)
    /\ UNCHANGED <<connVars, hubVars, guards, responses, rconn, slot, mark>>

\* A lookup by id that keeps the read guard: the tunnel route, and a cookie
\* that names a registered tunnel found healthy.
LookupHeld(r) ==
    /\ rpc[r] = "lookup" /\ route[r] \in {"sticky", "tunnel"}
    /\ ReaderTurn(r)
    /\ tunnels[rid[r]] # NoConn
    /\ rpc' = [rpc EXCEPT ![r] = "insert"]
    /\ rconn' = [rconn EXCEPT ![r] = tunnels[rid[r]]]
    /\ guards' = guards \cup {r}
    /\ lockq' = Tail(lockq)
    /\ UNCHANGED <<connVars, hubVars, responses, route, rid, slot, mark>>

\* The cookie's tunnel is not registered or not healthy: on to
\* choose_best_tunnel, which takes the lock again.
StickyMiss(r) ==
    /\ rpc[r] = "lookup" /\ route[r] = "sticky"
    /\ ReaderTurn(r)
    /\ route' = [route EXCEPT ![r] = "best"]
    /\ lockq' = Append(Tail(lockq), r)
    /\ UNCHANGED <<connVars, hubVars, guards, responses, rpc, rid, rconn, slot, mark>>

TunnelNotFound(r) ==
    /\ rpc[r] = "lookup" /\ route[r] = "tunnel"
    /\ ReaderTurn(r)
    /\ tunnels[rid[r]] = NoConn
    /\ rpc' = [rpc EXCEPT ![r] = "not_found"]
    /\ lockq' = Tail(lockq)
    /\ UNCHANGED <<connVars, hubVars, guards, responses, route, rid, rconn, slot, mark>>

\* choose_best_tunnel returns a clone of the sender and drops the guard.
LookupBest(r, t) ==
    /\ rpc[r] = "lookup" /\ route[r] = "best"
    /\ ReaderTurn(r)
    /\ tunnels[t] # NoConn
    /\ rpc' = [rpc EXCEPT ![r] = "insert"]
    /\ rid' = [rid EXCEPT ![r] = t]
    /\ rconn' = [rconn EXCEPT ![r] = tunnels[t]]
    /\ lockq' = Tail(lockq)
    /\ UNCHANGED <<connVars, hubVars, guards, responses, route, slot, mark>>

\* No candidate, or the best one is not healthy.
LookupCloud(r) ==
    /\ rpc[r] = "lookup" /\ route[r] = "best"
    /\ ReaderTurn(r)
    /\ rpc' = [rpc EXCEPT ![r] = "cloud"]
    /\ lockq' = Tail(lockq)
    /\ UNCHANGED <<connVars, hubVars, guards, responses, route, rid, rconn, slot, mark>>

\* forward_to_cloud touches no shared state and holds no guard.  Only the
\* cloud's first answer is bounded by request_timeout; the body of the request
\* and that of the answer may take for ever.
CloudReply(r) ==
    /\ rpc[r] = "cloud"
    /\ \E o \in {"cloud_ok", "cloud_error"} : rpc' = [rpc EXCEPT ![r] = o]
    /\ UNCHANGED <<connVars, hubVars, lockVars, responses, route, rid, rconn, slot, mark>>

\* responses.insert(request_id, tx).  The tunnel route has the body already,
\* the proxy begins to read it.
InsertResponse(r) ==
    /\ rpc[r] = "insert"
    /\ responses' = responses \cup {r}
    /\ rpc' = [rpc EXCEPT ![r] = IF route[r] = "tunnel" THEN "send" ELSE "body"]
    /\ UNCHANGED <<connVars, hubVars, lockVars, route, rid, rconn, slot, mark>>

\* The visitor's body has come.  Nothing bounds the wait, and a request with a
\* cookie holds its read guard meanwhile.
BodyRead(r) ==
    /\ rpc[r] = "body"
    /\ rpc' = [rpc EXCEPT ![r] = "send"]
    /\ UNCHANGED <<connVars, hubVars, lockVars, responses, route, rid, rconn, slot, mark>>

\* A handler returns: the guard it may hold is dropped.
Finish(r, o) ==
    /\ rpc' = [rpc EXCEPT ![r] = o]
    /\ guards' = guards \ {r}

\* forward_via_tunnel cannot read the body: it returns with its entry in the map.
BodyError(r) ==
    /\ rpc[r] = "body"
    /\ Finish(r, "bad_request")
    /\ UNCHANGED <<connVars, hubVars, lockq, responses, route, rid, rconn, slot, mark>>

\* tunnel_tx.send, which waits while the session's channel is full.
SendRequest(r) ==
    /\ rpc[r] = "send"
    /\ ReceiverOpen(rconn[r])
    /\ Len(chan[rconn[r]]) < ChanCap
    /\ chan' = [chan EXCEPT ![rconn[r]] = Append(@, r)]
    /\ rpc' = [rpc EXCEPT ![r] = "wait"]
    /\ UNCHANGED <<conn, cid, cur, wire, hubVars, lockVars,
                   responses, route, rid, rconn, slot, mark>>

\* The session is gone: the proxy takes its entry back and reports a failure,
\* the tunnel route does neither.
SendFailed(r) ==
    /\ rpc[r] = "send"
    /\ ~ReceiverOpen(rconn[r])
    /\ \/ /\ route[r] = "tunnel"
          /\ Finish(r, "send_error")
          /\ UNCHANGED <<responses, mark>>
       \/ /\ route[r] # "tunnel"
          /\ Finish(r, "bad_gateway")
          /\ responses' = responses \ {r}
          /\ mark' = [mark EXCEPT ![r] = "failure"]
    /\ UNCHANGED <<connVars, hubVars, lockq, route, rid, rconn, slot>>

\* The oneshot receiver yields the response; only the proxy reports it.  The
\* report comes first: a response that does not translate (an invalid header
\* or status) is a 500 after a success.
GotResponse(r) ==
    /\ rpc[r] = "wait"
    /\ slot[r] # NoConn
    /\ \E o \in {"ok", "bad_response"} : Finish(r, o)
    /\ mark' = [mark EXCEPT ![r] = IF route[r] = "tunnel" THEN @ ELSE "success"]
    /\ UNCHANGED <<connVars, hubVars, lockq, responses, route, rid, rconn, slot>>

\* Mutant: the timeout wins over a response that has arrived.
RequestTimeout_Late(r) ==
    /\ rpc[r] = "wait" /\ route[r] # "tunnel"
    /\ rpc' = [rpc EXCEPT ![r] = "expire"]
    /\ mark' = [mark EXCEPT ![r] = "failure"]
    /\ UNCHANGED <<connVars, hubVars, lockVars, responses, route, rid, rconn, slot>>

\* Mutant: the cookie branch has no timeout.
RequestTimeout_BestOnly(r) ==
    /\ rpc[r] = "wait" /\ route[r] = "best"
    /\ slot[r] = NoConn
    /\ rpc' = [rpc EXCEPT ![r] = "expire"]
    /\ mark' = [mark EXCEPT ![r] = "failure"]
    /\ UNCHANGED <<connVars, hubVars, lockVars, responses, route, rid, rconn, slot>>

\* request_timeout expires (the proxy only): the receiver is dropped and the
\* failure reported, and only then is the entry taken back.
RequestTimeout(r) ==
    /\ rpc[r] = "wait" /\ route[r] # "tunnel"
    /\ slot[r] = NoConn
    /\ rpc' = [rpc EXCEPT ![r] = "expire"]
    /\ mark' = [mark EXCEPT ![r] = "failure"]
    /\ UNCHANGED <<connVars, hubVars, lockVars, responses, route, rid, rconn, slot>>

RemoveExpired(r) ==
    /\ rpc[r] = "expire"
    /\ Finish(r, "timed_out")
    /\ responses' = responses \ {r}
    /\ UNCHANGED <<connVars, hubVars, lockq, route, rid, rconn, slot, mark>>

\* The visitor goes away: the handler's future is dropped where it stands.
Cancel(r) ==
    /\ rpc[r] \in Active
    /\ Finish(r, "cancelled")
    /\ lockq' = IF rpc[r] = "lookup" THEN Without(lockq, r) ELSE lockq
    /\ UNCHANGED <<connVars, hubVars, responses, route, rid, rconn, slot, mark>>
-----------------------------------------------------------------------------
(* The process *)

\* A redis call of a registration fails, before or after it took effect.
HelloFails(c) == c \in Trusted /\ conn[c] \in {"hello", "online"}

\* The redis call of the cleanup task fails, before or after it took effect.
CleanupFails == (cleaner # NoTunnel \/ cleanup # <<>>) /\ ~InQueue(lockq, Cleaner)

\* The tunnel route copies a header that is not text; a client's answer has a
\* status that does not exist, or the id of its tunnel does not fit a cookie.
HandlerFails(r) ==
    \/ rpc[r] = "insert" /\ route[r] = "tunnel"
    \/ rpc[r] = "wait" /\ slot[r] # NoConn /\ route[r] # "tunnel"

\* The process ends with all its tasks; redis keeps what it was told.
ProcessEnds ==
    /\ process' = "down"
    /\ left' = {t \in Tunnel : status[t] = "online"}
    /\ conn' = [c \in Conn |-> IF conn[c] = "free" THEN "free" ELSE "closed"]
    /\ chan' = [c \in Conn |-> <<>>]
    /\ cur' = [c \in Conn |-> NoReq]
    /\ wire' = [c \in Conn |-> {}]
    /\ tunnels' = [t \in Tunnel |-> NoConn]
    /\ cleanup' = <<>> /\ cleaner' = NoTunnel
    /\ lockq' = <<>> /\ guards' = {}
    /\ responses' = {}
    /\ rpc' = [r \in Req |-> IF rpc[r] \in Active THEN "reset" ELSE rpc[r]]
    /\ UNCHANGED <<cid, status, route, rid, rconn, slot, mark>>

\* An unwrap panics, which aborts.
Abort ==
    /\ process = "up"
    /\ \/ \E c \in Conn : HelloFails(c)
       \/ CleanupFails
       \/ \E r \in Req : HandlerFails(r)
    /\ ProcessEnds

\* Ctrl-C or SIGTERM: axum takes no new connection, waits for the requests it
\* has and returns; main ends and the sessions with it, without their cleanup.
Exit ==
    /\ process = "up"
    /\ \A r \in Req : rpc[r] \notin Active
    /\ ProcessEnds

\* main starts with an empty AppState and does not ask redis what was there.
Restart ==
    /\ process = "down"
    /\ process' = "up"
    /\ UNCHANGED <<connVars, tunnels, status, cleanup, cleaner, left, lockVars, reqVars>>
-----------------------------------------------------------------------------
SessionNext(c) ==
    \/ \E t \in Tunnel : Register(c, t)
    \/ BadHello(c) \/ RejectedHello(c) \/ AcceptedHello(c)
    \/ AskInsert(c) \/ InsertTunnel(c)
    \/ TakeMessage(c) \/ SocketSent(c)
    \/ \E r \in Req : ReceiveResponse(c, r)
    \/ BreakLoop(c)
    \/ SendCleanup(c)

CleanupNext == CleanupOffline \/ CleanupAsk \/ CleanupRemove

LookupNext(r) ==
    \/ LookupHeld(r) \/ StickyMiss(r) \/ TunnelNotFound(r)
    \/ \E t \in Tunnel : LookupBest(r, t)
    \/ LookupCloud(r)

\* What a handler does by itself or by a timer.
HandlerNext(r) ==
    \/ InsertResponse(r)
    \/ SendRequest(r) \/ SendFailed(r)
    \/ GotResponse(r)
    \/ RequestTimeout(r) \/ RemoveExpired(r)

\* What the visitor or the cloud does, when it likes.
VisitorNext(r) ==
    \/ \E rt \in Routes[r], t \in Tunnel : Arrive(r, rt, t)
    \/ BodyRead(r) \/ BodyError(r)
    \/ CloudReply(r)
    \/ Cancel(r)

RequestNext(r) == LookupNext(r) \/ HandlerNext(r) \/ VisitorNext(r)

ProcessNext == Abort \/ Exit \/ Restart

Next ==
    \/ \E c \in Conn : SessionNext(c)
    \/ CleanupNext
    \/ \E r \in Req : RequestNext(r)
    \/ ProcessNext

Spec == Init /\ [][Next]_vars

\* The runtime polls every task that can run, and timers fire.  Nothing is
\* assumed of the others: clients may stop to read or to answer, visitors may
\* stop in the middle of a body, the cloud in the middle of an answer, and
\* redis may be silent.
Fairness ==
    /\ \A c \in Conn : /\ WF_vars(InsertTunnel(c))
                       /\ WF_vars(TakeMessage(c))
                       /\ WF_vars(SendCleanup(c))
    /\ WF_vars(CleanupOffline) /\ WF_vars(CleanupRemove)
    /\ \A r \in Req : WF_vars(LookupNext(r)) /\ WF_vars(HandlerNext(r))

FairSpec == Spec /\ Fairness
-----------------------------------------------------------------------------
(* Safety *)

\* A handler that waits for a response can still get one: its oneshot sender
\* is in the responses map, or the response is in its slot, never both and
\* never neither.  So the "ws response handler dropped" arm of
\* forward_via_tunnel is not reached, and no response is delivered twice.
WaitingHasSource ==
    \A r \in Req : rpc[r] = "wait" => (r \in responses <=> slot[r] = NoConn)

\* A response reaches the visitor from the session the request was sent to,
\* although the responses map is shared by the sessions.
AnsweredByTarget ==
    \A r \in Req : slot[r] # NoConn => slot[r] = rconn[r]

\* A sender that is registered and whose session has ended is on its way out:
\* the session is about to send its id to the cleanup task, or the id is in
\* the cleanup channel or being removed.
DeadSenderIsCleaned ==
    \A t \in Tunnel : tunnels[t] # NoConn =>
        LET c == tunnels[t]
        IN  /\ cid[c] = t
            /\ \/ conn[c] \in {"loop", "sending", "cleanup"}
               \/ InQueue(cleanup, t)
               \/ cleaner = t

\* Redis does not keep a tunnel online once every session of it is gone: while
\* it says online, some session that registered has yet to be cleaned up.  The
\* one exception is what an earlier process left when it ended, by a panic or
\* by its graceful shutdown, which tells redis nothing; the next session of
\* the id puts that right.  (The converse fails: the write of an older
\* session's cleanup may come last.)
OnlineHasSession ==
    \A t \in Tunnel : status[t] = "online" =>
        \/ \E c \in Conn : /\ cid[c] = t
                          /\ conn[c] \in {"online", "insert", "loop", "sending", "cleanup"}
        \/ InQueue(cleanup, t)
        \/ t \in left

\* An entry of the responses map whose handler is over was left behind by one
\* of three exits: the unreadable body, the failed send of the tunnel route,
\* or a dropped handler.  Success, timeout and a failed send of the proxy
\* leave nothing.
LeakSources ==
    \A r \in responses :
        rpc[r] \in Outcomes => rpc[r] \in {"bad_request", "send_error", "cancelled"}

\* The books of the responses map: what is in it can be answered, was put
\* there for a handler that waits or left by a known exit, and what is
\* delivered from it comes from the right session.
ResponsesAreAccounted == WaitingHasSource /\ AnsweredByTarget /\ LeakSources

\* The health map is told what the tunnel did, not what the visitor saw, also
\* by a request that raced with its timeout: it is told of a success when an
\* answer came in time, even one that the proxy could not translate, and of a
\* failure when none had come, even if one is delivered a moment later.
MarkAgreesWithOutcome ==
    \A r \in Req :
        /\ mark[r] = "failure" => /\ slot[r] = NoConn
                                 /\ rpc[r] \in {"expire", "timed_out", "bad_gateway",
                                               "cancelled", "reset"}
        /\ mark[r] = "success" => slot[r] # NoConn /\ rpc[r] \in {"ok", "bad_response"}
        /\ rpc[r] \in {"ok", "bad_response"} /\ slot[r] # NoConn
             => mark[r] = (IF route[r] = "tunnel" THEN "none" ELSE "success")
-----------------------------------------------------------------------------
(* What a step may never do *)

\* A sender is taken out of the map only after a connection for its id has
\* ended.  Which one is not asked: main.rs:333 removes by id, so the sender of
\* a session that is being served goes when an earlier session of the same id,
\* or a connection that never registered, ends.
CleanupNeedsEnded ==
    [][\A t \in Tunnel :
         (tunnels[t] # NoConn /\ tunnels'[t] = NoConn)
           => \E c \in Conn : cid[c] = t /\ conn'[c] = "closed"]_vars
-----------------------------------------------------------------------------
(* Liveness, under FairSpec *)

Ended(r) == rpc[r] \in Outcomes

\* The waits that nothing in the hub ends: for a body, for the cloud, for the
\* answer on the tunnel route, and for room in the channel of a session whose socket.send
\* is stuck.
AwaitsOutside(r) ==
    \/ rpc[r] \in {"body", "cloud"}
    \/ rpc[r] = "wait" /\ route[r] = "tunnel"
    \/ rpc[r] = "send" /\ conn[rconn[r]] = "sending"

HolderOutside == \E r \in guards : AwaitsOutside(r)
RedisSilent == cleaner # NoTunnel /\ ~InQueue(lockq, Cleaner)

\* A request ends unless it is kept by the outside for ever itself, or a
\* request that holds a read guard is: then a writer waits behind the guard
\* and every later request behind the writer, those for the cloud included.
\* A request that waits for its tunnel's answer needs no proviso, because of
\* request_timeout.
RequestsEnd ==
    \A r \in Req :
        ([]<>~HolderOutside /\ []<>~AwaitsOutside(r)) => (rpc[r] = "lookup" ~> Ended(r))

\* The sender of a session that has left its loop leaves the map, although the
\* notice may have to wait for room in the cleanup channel and the cleanup
\* task for the lock, as long as no guard is kept by the outside for ever and
\* redis answers.
ClosedSendersLeave ==
    ([]<>~HolderOutside /\ []<>~RedisSilent) =>
        \A t \in Tunnel, c \in Trusted :
            (tunnels[t] = c /\ conn[c] \in {"cleanup", "closed"}) ~> tunnels[t] # c
=============================================================================
