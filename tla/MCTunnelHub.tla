---------------------------- MODULE MCTunnelHub ----------------------------
(* Instances of TunnelHub for TLC: which connections, requests and tunnels. *)
EXTENDS TunnelHub, TLC

\* Connections, requests and tunnel ids are interchangeable (safety runs only).
Symm == Permutations(Conn) \cup Permutations(Req) \cup Permutations(Tunnel)

\* Every request may take every route.
AnyRoute == [r \in Req |-> AllRoutes]

\* For liveness: one request that comes with a cookie, the others on the tunnel
\* route.
CONSTANT CookieReq
CookieAndTunnel == [r \in Req |-> IF r = CookieReq THEN {"sticky"} ELSE {"tunnel"}]
=============================================================================
