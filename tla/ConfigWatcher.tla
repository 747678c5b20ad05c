--------------------------- MODULE ConfigWatcher ---------------------------
(***************************************************************************)
(* The watcher task of rathole/src/config_watcher.rs, which turns edits of *)
(* the configuration file into events for the server or the client.  In    *)
(* run of rathole/src/lib.rs nobody reads the events; the model shows what *)
(* a consumer of them would be told.                                       *)
(*                                                                         *)
(* A configuration has a server side and a client side; a side is missing  *)
(* (NoSide) or has settings (everything but the services) and services.    *)
(* A file is such a configuration, as written, or Broken.  What the        *)
(* program works with is Parse of it: validated, with the defaults filled  *)
(* in (rathole/src/config.rs), or Invalid.                                 *)
(* The events of one rescan name every service at most once, so their      *)
(* order does not matter and they are a set.                               *)
(***************************************************************************)
EXTENDS Naturals

CONSTANTS
    Files,        \* what the file may hold, as records [server, client] of sides
    Broken,       \* a file that is unreadable or not TOML of the right shape
    Invalid,      \* Parse of a file that is broken or fails the validation
    NoConfig,
    NoSide,       \* a configuration without a [server] or [client] block
    NotConfigured,  \* in a side: the service is not configured
    NoToken, NoRetry,   \* options that are not given
    MaxNotices    \* bound on pending notices of the file system

Sides == {"server", "client"}

ASSUME ConfigAssumption ==
    /\ MaxNotices \in Nat \ {0}
    /\ Broken \notin Files /\ Invalid \notin Files /\ NoConfig \notin Files

\* Every side that is there has settings and services and nothing else, with
\* one set of names for each side; a client has a retry interval, for which
\* config.rs has a default.
ASSUME FilesAssumption ==
    \A f, g \in Files : \A i \in Sides : f[i] # NoSide =>
        /\ f[i] = [settings |-> f[i].settings, services |-> f[i].services]
        /\ f[i].services = [s \in DOMAIN f[i].services |-> f[i].services[s]]
        /\ i = "client" => f[i].settings.retry # NoRetry
        /\ g[i] # NoSide => DOMAIN f[i].services = DOMAIN g[i].services

VARIABLES
    file,       \* what the configuration file holds
    stage,      \* "start", "watcher": the first read is done and the task spawned, "exited"
    watching,   \* the file system watch is in place
    notices,    \* fevent_rx: notices of modifications
    old,        \* the configuration the watcher compares with
    replayed,   \* history: what a consumer of all events would run
    missed      \* history: the file was edited before the watch was in place

watcherVars == <<file, stage, watching, notices, old, replayed, missed>>

WatcherInit ==
    /\ file \in Files
    /\ stage = "start" /\ watching = FALSE /\ notices = 0
    /\ old = NoConfig /\ replayed = NoConfig
    /\ missed = FALSE
-----------------------------------------------------------------------------
(* Config::from_str *)

\* validate_transport_config
ValidTransport(i, t) ==
    /\ t.proxy \in {"none", "socks5", "http"}
    /\ t.type = "tls" => t.tls # "missing" /\ (i = "server" => t.tls = "pkcs12")

\* Mutant: a service without a token is let through.
ValidSide_NoTokens(i, side) == ValidTransport(i, side.settings.transport)

\* validate_server_config and validate_client_config
ValidSide(i, side) ==
    /\ \A s \in DOMAIN side.services : side.services[s] # NotConfigured =>
         side.services[s].token # NoToken \/ side.settings.token # NoToken
    /\ ValidTransport(i, side.settings.transport)

\* A service takes its token, and on the client its retry interval, from the
\* defaults of its side.
WithDefaults(i, settings, service) ==
    [token |-> IF service.token = NoToken THEN settings.token ELSE service.token,
     retry |-> IF i = "client" /\ service.retry = NoRetry THEN settings.retry ELSE service.retry]

FilledIn(i, side) ==
    [side EXCEPT !.services = [s \in DOMAIN @ |->
        IF @[s] = NotConfigured THEN NotConfigured ELSE WithDefaults(i, side.settings, @[s])]]

Parse(content) ==
    IF content # Broken /\ (\E i \in Sides : content[i] # NoSide)
                        /\ (\A i \in Sides : content[i] # NoSide => ValidSide(i, content[i]))
    THEN [i \in Sides |-> IF content[i] = NoSide THEN NoSide ELSE FilledIn(i, content[i])]
    ELSE Invalid
-----------------------------------------------------------------------------
(* calculate_events *)

Add(side, name, cfg) == [kind |-> "add", side |-> side, name |-> name, cfg |-> cfg]
Delete(side, name) == [kind |-> "delete", side |-> side, name |-> name]
General(new) == [kind |-> "general", config |-> new]

\* Mutant: services that are gone are not deleted.
ServiceEvents_AddsOnly(side, o, n) ==
    {Add(side, s, n[s]) : s \in {s \in DOMAIN n : n[s] # NotConfigured /\ o[s] # n[s]}}

\* calculate_instance_config_events, for two sides with equal settings:
\* deletions of the names that are gone, additions of what is new or changed.
ServiceEvents(side, o, n) ==
    {Delete(side, s) : s \in {s \in DOMAIN o : o[s] # NotConfigured /\ n[s] = NotConfigured}}
    \cup {Add(side, s, n[s]) : s \in {s \in DOMAIN n : n[s] # NotConfigured /\ o[s] # n[s]}}

\* A side appeared, disappeared or changed more than its services.
NeedsRestart(o, n) ==
    \E i \in Sides : \/ (o[i] = NoSide) # (n[i] = NoSide)
                     \/ o[i] # NoSide /\ n[i] # NoSide /\ o[i].settings # n[i].settings

CalculateEvents(o, n) ==
    IF NeedsRestart(o, n) THEN {General(n)}
    ELSE UNION {ServiceEvents(i, o[i].services, n[i].services) : i \in {i \in Sides : o[i] # NoSide}}

\* What the events mean to the server and the client: handle_hot_reload for a
\* service, a restart with the new configuration for General.
ServiceAfter(i, s, before, events) ==
    IF Delete(i, s) \in events THEN NotConfigured
    ELSE LET added == {e \in events : e.kind = "add" /\ e.side = i /\ e.name = s}
         IN  IF added = {} THEN before ELSE (CHOOSE e \in added : TRUE).cfg

Applied(config, events) ==
    LET general == {e \in events : e.kind = "general"}
        After(i) == [config[i] EXCEPT !.services =
                       [s \in DOMAIN @ |-> ServiceAfter(i, s, @[s], events)]]
    IN  IF general # {} THEN (CHOOSE e \in general : TRUE).config
        ELSE [i \in Sides |-> IF config[i] = NoSide THEN NoSide ELSE After(i)]
-----------------------------------------------------------------------------
(* Edits, the start and the watcher's loop *)

\* The watch reports a modification to the task.
Edit(content) ==
    /\ content # file
    /\ file' = content
    /\ IF watching THEN notices < MaxNotices /\ notices' = notices + 1 /\ UNCHANGED missed
                   ELSE missed' = (missed \/ stage # "start") /\ UNCHANGED notices
    /\ UNCHANGED <<stage, watching, old, replayed>>

\* ConfigWatcherHandle::new: the file is read, the initial event sent and the
\* task spawned.  An invalid file ends the program.
StartWatcher ==
    /\ stage = "start" /\ Parse(file) # Invalid
    /\ stage' = "watcher"
    /\ old' = Parse(file) /\ replayed' = Parse(file)
    /\ UNCHANGED <<file, watching, notices, missed>>

WatchFile ==
    /\ stage = "watcher" /\ ~watching
    /\ watching' = TRUE
    /\ UNCHANGED <<file, stage, notices, old, replayed, missed>>

\* "If the config is invalid, just ignore it".
RescanInvalid ==
    /\ stage = "watcher" /\ notices > 0 /\ Parse(file) = Invalid
    /\ notices' = notices - 1
    /\ UNCHANGED <<file, stage, watching, old, replayed, missed>>

Rescan ==
    /\ stage = "watcher" /\ notices > 0 /\ Parse(file) # Invalid
    /\ notices' = notices - 1
    /\ replayed' = Applied(replayed, CalculateEvents(old, Parse(file)))
    /\ old' = Parse(file)
    /\ UNCHANGED <<file, stage, watching, missed>>

\* The shutdown signal: ctrl-c, or run has come to its end.  The watch goes
\* with the task.
WatcherExits ==
    /\ stage = "watcher"
    /\ stage' = "exited" /\ watching' = FALSE /\ notices' = 0
    /\ UNCHANGED <<file, old, replayed, missed>>

WatcherNext ==
    \/ \E content \in Files \cup {Broken} : Edit(content)
    \/ StartWatcher \/ WatchFile
    \/ RescanInvalid \/ Rescan
    \/ WatcherExits

WatcherSpec == WatcherInit /\ [][WatcherNext]_watcherVars
-----------------------------------------------------------------------------
\* The events carry the whole difference: who applies them all, over any
\* number of edits, invalid ones among them, has what the file says once no
\* notice is pending; unless the file is invalid, or an edit fell between the
\* first read and the start of the watch.
EventsCarryTheEdits ==
    (watching /\ notices = 0 /\ ~missed /\ Parse(file) # Invalid) => replayed = Parse(file)

\* "All Option are optional in configuration but must be Some value in runtime"
\* (config.rs): whatever was edited, a service that reaches the server or the
\* client has the token and the retry interval that they unwrap.
RuntimeOptionsAreSet ==
    replayed # NoConfig =>
      \A i \in Sides : replayed[i] # NoSide =>
        \A s \in DOMAIN replayed[i].services : replayed[i].services[s] # NotConfigured =>
          /\ replayed[i].services[s].token # NoToken
          /\ i = "client" => replayed[i].services[s].retry # NoRetry
=============================================================================
