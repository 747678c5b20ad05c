--------------------------- MODULE ControlChannels ---------------------------
(***************************************************************************)
(* The control channels of the port forwarder's server                     *)
(* (rathole/src/server.rs): handshakes of clients, each in a task of its   *)
(* own, race with one another, with the hot reload of services and with    *)
(* the shutdown of the server.                                             *)
(*                                                                         *)
(* The map of handles is a MultiMap, used here through its abstract        *)
(* specification TwoKeyMap: an item is the service, the session key and    *)
(* the service's configuration.  A session key is a digest of a fresh      *)
(* nonce and the token, so the connection itself stands for it.  The       *)
(* configuration of a service is a version, which stands for its token.    *)
(*                                                                         *)
(* The handshake holds the write lock of the map from the removal of the   *)
(* old handle to the insertion of the new one, across the write of the     *)
(* acknowledgement.  The data channel handshake only reads the map; that   *)
(* its send never waits with the read lock held is shown in TcpPool.  The  *)
(* lock of the services map is fair: who comes after a waiting writer      *)
(* waits for it.                                                           *)
(*                                                                         *)
(* The program is built with panic = "abort": the todo!() of the http type *)
(* ends the server.  It keeps nothing, so its next life is another         *)
(* behaviour of this specification.                                        *)
(***************************************************************************)
EXTENDS Naturals, FiniteSets

CONSTANTS
    Service, Conn,
    Version,       \* configurations (tokens) of a service
    Http,          \* those of type http, which the server cannot serve yet
    NoConn, NoService, NoVersion

ASSUME NullAssumption ==
    /\ Http \subseteq Version
    /\ NoConn \notin Conn /\ NoService \notin Service /\ NoVersion \notin Version

VARIABLES
    services,   \* Server.services: the configuration of each service
    handles,    \* Server.control_channels
    holder,     \* the handshake that holds the write lock of control_channels
    reload,     \* the hot reload under way: which service becomes what, and
                \* whether it is at the services or at the control channels
    server,     \* where the server's main task is
    pc,         \* where each connection's handshake is
    svc, cfg,   \* its service, and the configuration it read
    task,       \* the control channel task of the connection
    overtaken,  \* history: handshakes that were under way at a reload of their
                \* service, or when the server stopped
    replaced    \* history: connections whose handle was taken out of the map

connVars == <<pc, svc, cfg>>
vars == <<services, handles, holder, reload, server, connVars, task, overtaken, replaced>>

Map == INSTANCE TwoKeyMap
         WITH Key1 <- Service, Key2 <- Conn, Val <- Version, items <- handles

Idle == [at |-> "none", service |-> NoService, version |-> NoVersion]
InHandshake == {"auth", "lock", "ack"}
Ends == {"up", "gone"}

TypeOK ==
    /\ services \in [Service -> Version \cup {NoVersion}]
    /\ handles \subseteq Service \X Conn \X Version
    /\ holder \in Conn \cup {NoConn}
    /\ reload \in {Idle} \cup [at: {"services", "channels"}, service: Service,
                                version: Version \cup {NoVersion}]
    /\ server \in {"run", "accepting", "stopping", "stopped", "aborted"}
    /\ pc \in [Conn -> {"free", "transport", "hello", "refuse"} \cup InHandshake \cup Ends]
    /\ svc \in [Conn -> Service \cup {NoService}]
    /\ cfg \in [Conn -> Version \cup {NoVersion}]
    /\ \A c \in Conn : pc[c] \in InHandshake \cup {"up"} => svc[c] \in Service /\ cfg[c] \in Version
    /\ task \in [Conn -> {"none", "up", "dead", "told", "down"}]
    /\ overtaken \subseteq Conn
    /\ replaced \subseteq Conn

\* Server::from: any configuration may be the first one.
Init ==
    /\ services \in [Service -> Version \cup {NoVersion}]
    /\ handles = {}
    /\ holder = NoConn
    /\ reload = Idle
    /\ server = "run"
    /\ pc = [c \in Conn |-> "free"]
    /\ svc = [c \in Conn |-> NoService]
    /\ cfg = [c \in Conn |-> NoVersion]
    /\ task = [c \in Conn |-> "none"]
    /\ overtaken = {}
    /\ replaced = {}

Handle(s) == {x \in handles : x[1] = s}
Keys(items) == {x[2] : x \in items}

\* Dropping handles signals their tasks, which go on until they look.
DropHandles(items) ==
    /\ handles' = handles \ items
    /\ task' = [c \in Conn |-> IF c \notin Keys(items) THEN task[c]
                               ELSE IF task[c] = "up" THEN "told" ELSE "down"]
    /\ replaced' = replaced \cup Keys(items)
-----------------------------------------------------------------------------
(* handle_connection and do_control_channel_handshake *)

\* The accept loop does the handshake of the transport itself: no reload, no
\* shutdown and no other connection is looked at meanwhile.
Accept(c) ==
    /\ pc[c] = "free"
    /\ server = "run" /\ reload = Idle
    /\ server' = "accepting"
    /\ pc' = [pc EXCEPT ![c] = "transport"]
    /\ UNCHANGED <<services, handles, holder, reload, svc, cfg, task, overtaken, replaced>>

\* handle_connection is spawned.
TransportDone(c) ==
    /\ pc[c] = "transport"
    /\ server' = "run"
    /\ pc' = [pc EXCEPT ![c] = "hello"]
    /\ UNCHANGED <<services, handles, holder, reload, svc, cfg, task, overtaken, replaced>>

\* Mutant: there is no timeout.
TransportTimeout_None(c) ==
    /\ pc[c] = "transport"
    /\ FALSE
    /\ UNCHANGED vars

\* HANDSHAKE_TIMEOUT is over, or the handshake fails before that.
TransportTimeout(c) ==
    /\ pc[c] = "transport"
    /\ server' = "run"
    /\ pc' = [pc EXCEPT ![c] = "gone"]
    /\ UNCHANGED <<services, handles, holder, reload, svc, cfg, task, overtaken, replaced>>

\* The services map is locked by a reload that waits for it, and by one that
\* adds until it has the control channels too: its guard is shadowed, not dropped.
ServicesLocked ==
    \/ reload.at = "services"
    \/ reload.at = "channels" /\ reload.version # NoVersion

\* Hello and nonce are exchanged and the service looked up.  The read guard is
\* a temporary of the match, so it is still held when a client is refused.
LookupService(c, s) ==
    /\ pc[c] = "hello"
    /\ ~ServicesLocked
    /\ IF services[s] = NoVersion
         THEN /\ pc' = [pc EXCEPT ![c] = "refuse"]
              /\ UNCHANGED <<svc, cfg>>
         ELSE /\ pc' = [pc EXCEPT ![c] = "auth"]
              /\ svc' = [svc EXCEPT ![c] = s]
              /\ cfg' = [cfg EXCEPT ![c] = services[s]]
    /\ UNCHANGED <<services, handles, holder, reload, server, task, overtaken, replaced>>

\* Ack::ServiceNotExist is written, or its connection fails.
Refused(c) ==
    /\ pc[c] = "refuse"
    /\ pc' = [pc EXCEPT ![c] = "gone"]
    /\ UNCHANGED <<services, handles, holder, reload, server, svc, cfg, task, overtaken, replaced>>

\* The client's digest is compared with the one of the token that was read.
ReadAuth(c, token) ==
    /\ pc[c] = "auth"
    /\ pc' = [pc EXCEPT ![c] = IF token = cfg[c] THEN "lock" ELSE "gone"]
    /\ UNCHANGED <<services, handles, holder, reload, server, svc, cfg, task, overtaken, replaced>>

\* The connection fails before the client is authenticated.
HandshakeFails(c) ==
    /\ pc[c] \in {"hello", "auth"}
    /\ pc' = [pc EXCEPT ![c] = "gone"]
    /\ UNCHANGED <<services, handles, holder, reload, server, svc, cfg, task, overtaken, replaced>>

\* Mutant: the guard is dropped with the old handle and taken again to insert.
DropOld_Unlocks(c) ==
    /\ pc[c] = "lock"
    /\ holder = NoConn
    /\ UNCHANGED holder
    /\ DropHandles(Handle(svc[c]))
    /\ pc' = [pc EXCEPT ![c] = "ack"]
    /\ UNCHANGED <<services, reload, server, svc, cfg, overtaken>>

\* "If there's already a control channel for the service, then drop the old one."
DropOld(c) ==
    /\ pc[c] = "lock"
    /\ holder = NoConn
    /\ holder' = c
    /\ DropHandles(Handle(svc[c]))
    /\ pc' = [pc EXCEPT ![c] = "ack"]
    /\ UNCHANGED <<services, reload, server, svc, cfg, overtaken>>

\* Ack::Ok is sent, the tasks are started and the handle inserted; a handle
\* the map refuses would be dropped at once.
AckOk(c) ==
    /\ pc[c] = "ack" /\ cfg[c] \notin Http
    /\ holder' = NoConn
    /\ pc' = [pc EXCEPT ![c] = "up"]
    /\ LET refused == Map!Refuses(svc[c], c)
       IN  /\ handles' = IF refused THEN handles ELSE Map!With(svc[c], c, cfg[c])
           /\ task' = [task EXCEPT ![c] = IF refused THEN "told" ELSE "up"]
    /\ UNCHANGED <<services, reload, server, svc, cfg, overtaken, replaced>>

\* The acknowledgement cannot be written: the old handle is gone all the same.
AckFails(c) ==
    /\ pc[c] = "ack"
    /\ holder' = NoConn
    /\ pc' = [pc EXCEPT ![c] = "gone"]
    /\ UNCHANGED <<services, handles, reload, server, svc, cfg, task, overtaken, replaced>>

\* Ack::Ok is sent, then ControlChannelHandle::new comes to todo!() for a
\* service of type http: the process aborts, with all it had.
AckAborts(c) ==
    /\ pc[c] = "ack" /\ cfg[c] \in Http
    /\ server' = "aborted"
    /\ holder' = NoConn
    /\ reload' = Idle
    /\ handles' = {}
    /\ task' = [d \in Conn |-> "none"]
    /\ pc' = [d \in Conn |-> IF pc[d] = "free" THEN "free" ELSE "gone"]
    /\ UNCHANGED <<services, svc, cfg, overtaken, replaced>>

\* A task that was told polls its shutdown_rx, or fails before that.
TaskEnds(c) ==
    /\ task[c] = "told"
    /\ task' = [task EXCEPT ![c] = "down"]
    /\ UNCHANGED <<services, handles, holder, reload, server, connVars, overtaken, replaced>>

\* A control command cannot be written.  "a control channel doesn't report
\* back when it's dead": the handle stays in the map.
ControlDies(c) ==
    /\ task[c] = "up"
    /\ task' = [task EXCEPT ![c] = "dead"]
    /\ UNCHANGED <<services, handles, holder, reload, server, connVars, overtaken, replaced>>
-----------------------------------------------------------------------------
(* handle_hot_reload: the services map first, then the control channels *)

\* An event: service s is added or changed to v, or deleted (NoVersion).
HotReload(s, v) ==
    /\ server = "run" /\ reload = Idle
    /\ reload' = [at |-> "services", service |-> s, version |-> v]
    /\ UNCHANGED <<services, handles, holder, server, connVars, task, overtaken, replaced>>

\* The services map is written when the readers that were first are done.
ChangeServices ==
    /\ reload.at = "services"
    /\ \A c \in Conn : pc[c] # "refuse"
    /\ services' = [services EXCEPT ![reload.service] = reload.version]
    /\ reload' = [reload EXCEPT !.at = "channels"]
    /\ overtaken' = overtaken \cup {c \in Conn : svc[c] = reload.service /\ pc[c] \in InHandshake}
    /\ UNCHANGED <<handles, holder, server, connVars, task, replaced>>

\* Mutant: the control channel of the changed service goes on.
FinishReload_Keeps ==
    /\ reload.at = "channels"
    /\ holder = NoConn
    /\ DropHandles({})
    /\ reload' = Idle
    /\ UNCHANGED <<services, holder, server, connVars, overtaken>>

FinishReload ==
    /\ reload.at = "channels"
    /\ holder = NoConn
    /\ DropHandles(Handle(reload.service))
    /\ reload' = Idle
    /\ UNCHANGED <<services, holder, server, connVars, overtaken>>

\* The shutdown signal ends the accept loop; the map is replaced by a new one.
Stop ==
    /\ server = "run" /\ reload = Idle
    /\ server' = "stopping"
    /\ overtaken' = overtaken \cup {c \in Conn : pc[c] \in InHandshake \cup {"hello"}}
    /\ UNCHANGED <<services, handles, holder, reload, connVars, task, replaced>>

DropAll ==
    /\ server = "stopping"
    /\ holder = NoConn
    /\ DropHandles(handles)
    /\ server' = "stopped"
    /\ UNCHANGED <<services, holder, reload, connVars, overtaken>>
-----------------------------------------------------------------------------
Next ==
    \/ \E c \in Conn :
         \/ Accept(c) \/ TransportDone(c) \/ TransportTimeout(c)
         \/ (\E s \in Service : LookupService(c, s)) \/ Refused(c)
         \/ \E token \in Version : ReadAuth(c, token)
         \/ HandshakeFails(c)
         \/ DropOld(c) \/ AckOk(c) \/ AckFails(c) \/ AckAborts(c)
         \/ ControlDies(c) \/ TaskEnds(c)
    \/ \E s \in Service, v \in Version \cup {NoVersion} : HotReload(s, v)
    \/ ChangeServices \/ FinishReload \/ Stop \/ DropAll

Spec == Init /\ [][Next]_vars

\* Locks are fair and a timer ends the handshake of the transport.  Nothing is
\* assumed of the clients: what is written to them, under a lock or not, may
\* wait for ever.
Fairness ==
    /\ \A c \in Conn : WF_vars(DropOld(c)) /\ WF_vars(TransportTimeout(c))
    /\ WF_vars(ChangeServices) /\ WF_vars(FinishReload) /\ WF_vars(DropAll)

FairSpec == Spec /\ Fairness
-----------------------------------------------------------------------------
\* While a handshake holds the lock nobody else has a handle for its service.
HolderIsAlone ==
    \A c \in Conn : /\ pc[c] = "ack" <=> holder = c
                    /\ holder = c => Handle(svc[c]) = {}

\* A client that was acknowledged has its handle in the map until a newer
\* handshake for the service, a reload or the shutdown takes it out, and then
\* its task has been told: no handle is refused by the map after its client
\* heard Ok, and no task that was not told runs out of their reach.  A task that
\* was told may run on, beside the task of the newer client.
ServedUntilReplaced ==
    \A c \in Conn : pc[c] = "up" =>
        IF c \in replaced
          THEN c \notin Keys(handles) /\ task[c] \in {"told", "down"}
          ELSE <<svc[c], c, cfg[c]>> \in handles /\ task[c] \in {"up", "dead"}

\* A control channel that was not told to end serves its service with the
\* configuration in force, and none outlives the server, except where the
\* handshake was under way when the reload or the shutdown came.
StaleOnlyIfOvertaken ==
    \A c \in Conn : (task[c] = "up" /\ c \notin overtaken) =>
        /\ reload.service # svc[c] => services[svc[c]] = cfg[c]
        /\ server # "stopped"

\* A client that reads too slowly to be acknowledged holds the lock of the
\* control channels, one that is refused that of the services.
AckWaits == holder # NoConn
RefusalWaits == \E c \in Conn : pc[c] = "refuse"

\* A client that has authenticated gets its channel or loses its connection,
\* the shutdown comes to an end unless the server aborts before, and so does a
\* reload, as long as no client holds up the write of its acknowledgement or,
\* for the reload, of its refusal for ever.  The accept loop needs no proviso: its wait for a
\* client has a timeout.
HandshakesEnd ==
    /\ []<>~AckWaits =>
         /\ \A c \in Conn : pc[c] = "lock" ~> pc[c] \in {"up", "gone"}
         /\ server = "stopping" ~> server \in {"stopped", "aborted"}
    /\ ([]<>~AckWaits /\ []<>~RefusalWaits) => (reload # Idle ~> reload = Idle)
    /\ server = "accepting" ~> server # "accepting"
=============================================================================
