-------------------------- MODULE MCConfigWatcher --------------------------
(* Instances of ConfigWatcher for TLC: what the file may hold.  Two        *)
(* services, absent, with a token or without one, and a default token or   *)
(* none on the server's side; a client's side that is absent or has one    *)
(* service; transports that one side accepts and the other does not.       *)
EXTENDS ConfigWatcher

CONSTANTS s1, s2, t1, t2

Tcp == [proxy |-> "none", type |-> "tcp", tls |-> "missing"]
TlsOfClient == [proxy |-> "socks5", type |-> "tls", tls |-> "given"]
Ftp == [proxy |-> "ftp", type |-> "tcp", tls |-> "missing"]

Settings(transports, tokens) == [transport: transports, token: tokens, retry: {1}]
ServerService == {NotConfigured} \cup [token: {t1, NoToken}, retry: {NoRetry}]
ServerSides == {NoSide}
    \cup [settings: Settings({Tcp}, {NoToken, t2}), services: [{s1, s2} -> ServerService]]
    \cup [settings: Settings({TlsOfClient, Ftp}, {t2}), services: [{s1, s2} -> {NotConfigured}]]
ClientSides == {NoSide}
    \cup [settings: Settings({TlsOfClient}, {t1}), services: [{s1} -> {NotConfigured} \cup [token: {NoToken}, retry: {NoRetry, 2}]]]

SmallFiles == {[server |-> x, client |-> y] : x \in ServerSides, y \in ClientSides}
=============================================================================
