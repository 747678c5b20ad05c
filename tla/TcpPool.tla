------------------------------ MODULE TcpPool ------------------------------
(***************************************************************************)
(* One TCP service of the port forwarder (rathole/src/server.rs): how      *)
(* visitors are matched with data channels.  Four tasks share counted      *)
(* queues:                                                                 *)
(*   - the listener (tcp_listen_and_send) accepts visitors, asks for one   *)
(*     data channel per visitor and hands the visitor to the pool;         *)
(*   - the control channel (ControlChannel::run) turns requests into       *)
(*     CreateDataChannel commands for the client;                          *)
(*   - the client opens data channels, which do_data_channel_handshake     *)
(*     puts into the handle's queue;                                       *)
(*   - the pool (run_tcp_connection_pool) pairs a visitor with a channel.  *)
(* PoolSize requests are made in advance (ControlChannelHandle::new).      *)
(* Visitors and channels are alike, so the queues are numbers.             *)
(***************************************************************************)
EXTENDS Naturals

CONSTANTS
    PoolSize,      \* TCP_POOL_SIZE, 8
    VisitorCap,    \* capacity of the visitor queue, CHAN_SIZE = 2048
    ChanCap,       \* capacity of the data channel queue, 2 * CHAN_SIZE
    MaxVisitors, MaxLost, MaxBroken   \* bounds on what the environment does

ASSUME PoolAssumption ==
    /\ PoolSize \in Nat
    /\ VisitorCap \in Nat \ {0} /\ ChanCap \in Nat \ {0}
    /\ ChanCap >= PoolSize + VisitorCap + 2
    /\ MaxVisitors \in Nat /\ MaxLost \in Nat /\ MaxBroken \in Nat

VARIABLES
    handle,     \* the ControlChannelHandle is alive (in the server's map)
    control,    \* the control channel task runs
    listener,   \* "bind" (not listening yet), "accept", "hand" (has a visitor to hand over) or "down"
    pool,       \* "idle", "match" (has a visitor to serve) or "down"
    reqs,       \* data_ch_req queue
    asked,      \* CreateDataChannel commands the client has yet to act on
    chans,      \* data_ch queue
    visitors,   \* visitor queue
    accepted, served, lost, broken   \* history: totals

taskVars == <<handle, control, listener, pool>>
stockVars == <<reqs, asked, chans, visitors>>
countVars == <<accepted, served, lost, broken>>
vars == <<taskVars, stockVars, countVars>>

TypeOK ==
    /\ handle \in BOOLEAN /\ control \in BOOLEAN
    /\ listener \in {"bind", "accept", "hand", "down"}
    /\ pool \in {"idle", "match", "down"}
    /\ reqs \in Nat /\ asked \in Nat /\ chans \in Nat /\ visitors \in Nat
    /\ accepted \in Nat /\ served \in Nat /\ lost \in Nat /\ broken \in Nat

\* ControlChannelHandle::new
Init ==
    /\ handle = TRUE /\ control = TRUE
    /\ listener = "bind" /\ pool = "idle"
    /\ reqs = PoolSize /\ asked = 0 /\ chans = 0 /\ visitors = 0
    /\ accepted = 0 /\ served = 0 /\ lost = 0 /\ broken = 0
-----------------------------------------------------------------------------
(* The control channel *)

SendCreate ==
    /\ control /\ reqs > 0
    /\ reqs' = reqs - 1
    /\ asked' = asked + 1
    /\ UNCHANGED <<taskVars, chans, visitors, countVars>>

\* A write fails, or the handle is gone: the task ends and its request queue
\* with it.
ControlEnds ==
    /\ control
    /\ control' = FALSE
    /\ reqs' = 0
    /\ UNCHANGED <<handle, listener, pool, asked, chans, visitors, countVars>>

\* The handle is replaced or removed from the map.
DropHandle ==
    /\ handle
    /\ handle' = FALSE
    /\ UNCHANGED <<control, listener, pool, stockVars, countVars>>
-----------------------------------------------------------------------------
(* The client (run_data_channel), seen from the server *)

ChannelArrives ==
    /\ asked > 0
    /\ handle /\ pool # "down"
    /\ chans < ChanCap
    /\ asked' = asked - 1
    /\ chans' = chans + 1
    /\ UNCHANGED <<taskVars, reqs, visitors, countVars>>

\* The client gives up after its retries; nobody is told.
ChannelLost ==
    /\ asked > 0 /\ lost < MaxLost
    /\ asked' = asked - 1
    /\ lost' = lost + 1
    /\ UNCHANGED <<taskVars, reqs, chans, visitors, accepted, served, broken>>

\* "Data channel has incorrect nonce", or "for a stale control channel".
ChannelRefused ==
    /\ asked > 0
    /\ ~handle \/ pool = "down"
    /\ asked' = asked - 1
    /\ UNCHANGED <<taskVars, reqs, chans, visitors, countVars>>
-----------------------------------------------------------------------------
(* The listener *)

\* The address is retried until it is free (an older listener may hold it).
Bind ==
    /\ listener = "bind"
    /\ listener' = "accept"
    /\ UNCHANGED <<handle, control, pool, stockVars, countVars>>

\* Mutant: two channels are requested for a visitor.
Accept_AsksTwice ==
    /\ listener = "accept" /\ control
    /\ accepted < MaxVisitors
    /\ reqs' = reqs + 2
    /\ accepted' = accepted + 1
    /\ listener' = "hand"
    /\ UNCHANGED <<handle, control, pool, asked, chans, visitors, served, lost, broken>>

\* "For every visitor, request to create a data channel".
Accept ==
    /\ listener = "accept" /\ control
    /\ accepted < MaxVisitors
    /\ reqs' = reqs + 1
    /\ accepted' = accepted + 1
    /\ listener' = "hand"
    /\ UNCHANGED <<handle, control, pool, asked, chans, visitors, served, lost, broken>>

\* The request cannot be sent: the visitor is dropped and the loop left.
AcceptFails ==
    /\ listener = "accept" /\ ~control
    /\ listener' = "down"
    /\ UNCHANGED <<handle, control, pool, stockVars, countVars>>

\* Mutant: a visitor that finds the queue full is dropped.
HandOver_TrySend ==
    /\ listener = "hand"
    /\ pool # "down"
    /\ visitors' = IF visitors < VisitorCap THEN visitors + 1 ELSE visitors
    /\ listener' = "accept"
    /\ UNCHANGED <<handle, control, pool, reqs, asked, chans, countVars>>

HandOver ==
    /\ listener = "hand"
    /\ pool # "down" /\ visitors < VisitorCap
    /\ visitors' = visitors + 1
    /\ listener' = "accept"
    /\ UNCHANGED <<handle, control, pool, reqs, asked, chans, countVars>>

\* The pool is gone: the error of tx.send is ignored and the visitor dropped.
HandOverFails ==
    /\ listener = "hand" /\ pool = "down"
    /\ listener' = "accept"
    /\ UNCHANGED <<handle, control, pool, stockVars, countVars>>

\* Mutant: the retries of the bind do not watch for the shutdown.
ListenerShutdown_AfterBind ==
    /\ listener = "accept" /\ ~handle
    /\ listener' = "down"
    /\ UNCHANGED <<handle, control, pool, stockVars, countVars>>

ListenerShutdown ==
    /\ listener \in {"bind", "accept"} /\ ~handle
    /\ listener' = "down"
    /\ UNCHANGED <<handle, control, pool, stockVars, countVars>>
-----------------------------------------------------------------------------
(* The pool *)

TakeVisitor ==
    /\ pool = "idle" /\ visitors > 0
    /\ visitors' = visitors - 1
    /\ pool' = "match"
    /\ UNCHANGED <<handle, control, listener, reqs, asked, chans, countVars>>

Serve ==
    /\ pool = "match" /\ chans > 0
    /\ chans' = chans - 1
    /\ served' = served + 1
    /\ pool' = "idle"
    /\ UNCHANGED <<handle, control, listener, reqs, asked, visitors, accepted, lost, broken>>

\* Mutant: no channel is requested for the broken one.
ChannelBroken_NoRequest ==
    /\ pool = "match" /\ chans > 0 /\ broken < MaxBroken
    /\ chans' = chans - 1
    /\ broken' = broken + 1
    /\ UNCHANGED <<handle, control, listener, pool, reqs, asked, visitors, accepted, served, lost>>

\* "Current data channel is broken. Request for a new one"; when that fails
\* the pool ends.
ChannelBroken ==
    /\ pool = "match" /\ chans > 0 /\ broken < MaxBroken
    /\ chans' = chans - 1
    /\ broken' = broken + 1
    /\ IF control THEN reqs' = reqs + 1 /\ UNCHANGED pool
                  ELSE pool' = "down" /\ UNCHANGED reqs
    /\ UNCHANGED <<handle, control, listener, asked, visitors, accepted, served, lost>>

\* No more visitors, or no more channels, can come.
PoolEnds ==
    /\ \/ pool = "idle" /\ visitors = 0 /\ listener = "down"
       \/ pool = "match" /\ chans = 0 /\ ~handle
    /\ pool' = "down"
    /\ UNCHANGED <<handle, control, listener, stockVars, countVars>>
-----------------------------------------------------------------------------
Next ==
    \/ SendCreate \/ ControlEnds \/ DropHandle
    \/ ChannelArrives \/ ChannelLost \/ ChannelRefused
    \/ Bind \/ Accept \/ AcceptFails \/ HandOver \/ HandOverFails \/ ListenerShutdown
    \/ TakeVisitor \/ Serve \/ ChannelBroken \/ PoolEnds

Spec == Init /\ [][Next]_vars

\* Tasks that can run are polled, the client acts on every command, a handle
\* that is gone ends its tasks.  Visitors, failures and reloads come as they like.
Fairness ==
    /\ WF_vars(SendCreate)
    /\ WF_vars(ChannelArrives \/ ChannelRefused)
    /\ WF_vars(~handle /\ ControlEnds)
    /\ WF_vars(HandOver \/ HandOverFails)
    /\ WF_vars(ListenerShutdown)
    /\ WF_vars(TakeVisitor)
    /\ WF_vars(Serve)
    /\ WF_vars(PoolEnds)

FairSpec == Spec /\ Fairness
-----------------------------------------------------------------------------
Waiting == visitors + (IF listener = "hand" THEN 1 ELSE 0) + (IF pool = "match" THEN 1 ELSE 0)
Healthy == handle /\ control /\ pool # "down"

\* The books balance while the service is up: every channel requested, being
\* opened or in stock, and every one the client lost, is one of the PoolSize
\* made in advance or belongs to a visitor that waits.  So the stock covers
\* the waiting visitors as long as the client lost no more than PoolSize
\* channels; a broken channel costs nothing because it is asked for again.
StockCoversVisitors ==
    Healthy => reqs + asked + chans + lost = PoolSize + Waiting

\* No visitor is forgotten: those accepted are served or still waiting, until
\* the pool goes down.
NoVisitorForgotten ==
    pool # "down" => accepted = served + Waiting

\* A data channel that comes while the pool is up finds room in the queue: the
\* send in do_data_channel_handshake, made with the read lock of the control
\* channels held, never waits and so never holds up a handshake or a reload.
\* (The client opens one channel per command.)
ChannelSendNeverWaits ==
    (pool # "down" /\ asked > 0) => chans < ChanCap

\* Every accepted visitor is served, or the service goes down, when the client
\* loses at most PoolSize channels.
VisitorsServed ==
    \A n \in 1..MaxVisitors : accepted >= n ~> (served >= n \/ ~Healthy)

\* A dropped handle takes the listener and the pool with it, so that the next
\* control channel can bind the service's address.
DroppedServiceEnds ==
    ~handle ~> (listener = "down" /\ pool = "down" /\ ~control)
=============================================================================
