---------------------------- MODULE ProxyRouting ----------------------------
(***************************************************************************)
(* Where proxy_handler sends a visitor's request: the tunnel named by the  *)
(* visitor's cookie, the best registered tunnel, or the cloud backend      *)
(* (rathole/src/proxy.rs).  A request reads the registered tunnels and the *)
(* health map at several moments, and what it read may have changed when   *)
(* it uses it; its outcome is written back to the health map.  Sessions    *)
(* register and leave, and clients report, at any time; the guard that a   *)
(* request with a cookie holds, which makes them wait, is in TunnelHub.    *)
(* This is one life of the process: the map starts empty with it.          *)
(*                                                                         *)
(* All tunnels are instances of the one subdomain the visitors ask for.    *)
(* Candidates of equal status are ordered by error_rate and latency, which *)
(* are not modelled: any of them may come first.                           *)
(***************************************************************************)
EXTENDS TunnelHealth

CONSTANTS
    Visitor,     \* browsers: each has one cookie and one request at a time
    NoCookie

Cloud == "cloud"
Cookies == Tunnel \cup {Cloud, NoCookie}

ASSUME CookieAssumption == NoCookie \notin Tunnel \cup {Cloud} /\ Cloud \notin Tunnel

VARIABLES
    registered,  \* the keys of AppState.tunnels
    cookie,      \* the visitor's tunnel cookie
    pc,          \* where the visitor's request is
    target       \* the tunnel it was given

routeVars == <<registered, cookie, pc, target>>
routingVars == <<vars, routeVars>>

RoutingTypeOK ==
    /\ TypeOK
    /\ registered \subseteq Tunnel
    /\ cookie \in [Visitor -> Cookies]
    /\ pc \in [Visitor -> {"idle", "best", "chosen", "bound", "inflight", "cloud"}]
    /\ target \in [Visitor -> Tunnel \cup {NoCookie}]

RoutingInit ==
    /\ Init
    /\ registered = {}
    /\ cookie = [v \in Visitor |-> NoCookie]
    /\ pc = [v \in Visitor |-> "idle"]
    /\ target = [v \in Visitor |-> NoCookie]

Goto(v, l) == pc' = [pc EXCEPT ![v] = l]

\* Mutant: a cookie is good for a tunnel that has not been heard of for long.
CookieFits_Stale(v) ==
    /\ cookie[v] \in registered
    /\ cookie[v] \in known => health[cookie[v]].status # "Critical"

CookieFits(v) == cookie[v] \in registered /\ Healthy(cookie[v])

\* The cookie names a registered, healthy tunnel: forward_via_tunnel with it.
PreferTunnel(v) ==
    /\ pc[v] = "idle"
    /\ CookieFits(v)
    /\ Goto(v, "bound")
    /\ target' = [target EXCEPT ![v] = cookie[v]]
    /\ UNCHANGED <<vars, registered, cookie>>

\* No cookie, or one that names no tunnel ("cloud" included), or an unhealthy one.
SeekBest(v) ==
    /\ pc[v] = "idle"
    /\ ~CookieFits(v)
    /\ Goto(v, "best")
    /\ UNCHANGED <<vars, registered, cookie, target>>

\* The sort key of choose_best_tunnel; an unknown tunnel ranks as Warning.
StatusRank(t) ==
    IF t \notin known THEN 1
    ELSE [Normal |-> 0, Warning |-> 1, Critical |-> 2][health[t].status]

BestTunnels == {t \in registered : \A u \in registered : StatusRank(t) <= StatusRank(u)}

ChooseBestTunnel(v) ==
    /\ pc[v] = "best"
    /\ \E t \in BestTunnels : target' = [target EXCEPT ![v] = t]
    /\ Goto(v, "chosen")
    /\ UNCHANGED <<vars, registered, cookie>>

NoLocalTunnel(v) ==
    /\ pc[v] = "best"
    /\ registered = {}
    /\ Goto(v, "cloud")
    /\ UNCHANGED <<vars, registered, cookie, target>>

\* The health map is read again for the chosen tunnel.
CheckChosen(v) ==
    /\ pc[v] = "chosen"
    /\ Goto(v, IF Healthy(target[v]) THEN "bound" ELSE "cloud")
    /\ UNCHANGED <<vars, registered, cookie, target>>

\* The body was read and the session's channel had room.  Both may take their
\* time, and the health map is not looked at again.
Forward(v) ==
    /\ pc[v] = "bound"
    /\ Goto(v, "inflight")
    /\ UNCHANGED <<vars, registered, cookie, target>>

\* The tunnel answered; the cookie is set unless the response does not
\* translate (an invalid header), which is an error after a success mark.
Answered(v) ==
    /\ pc[v] = "inflight"
    /\ Success(target[v])
    /\ Goto(v, "idle")
    /\ cookie' \in {cookie, [cookie EXCEPT ![v] = target[v]]}
    /\ UNCHANGED <<registered, target>>

\* The send failed or the request timed out: an error, no second try.
Failed(v) ==
    /\ pc[v] \in {"bound", "inflight"}
    /\ Failure(target[v])
    /\ Goto(v, "idle")
    /\ UNCHANGED <<registered, cookie, target>>

\* The body was unreadable, or the visitor left: nothing is marked.
Abandoned(v) ==
    /\ pc[v] # "idle"
    /\ Goto(v, "idle")
    /\ UNCHANGED <<vars, registered, cookie, target>>

\* The cloud's answer carries the cookie, its errors do not.
CloudEnds(v) ==
    /\ pc[v] = "cloud"
    /\ Goto(v, "idle")
    /\ cookie' \in {cookie, [cookie EXCEPT ![v] = Cloud]}
    /\ UNCHANGED <<vars, registered, target>>

RegisterTunnel(t) ==
    /\ registered' = registered \cup {t}
    /\ UNCHANGED <<vars, cookie, pc, target>>

RemoveTunnel(t) ==
    /\ registered' = registered \ {t}
    /\ UNCHANGED <<vars, cookie, pc, target>>

RoutingNext ==
    \/ \E v \in Visitor :
         \/ PreferTunnel(v) \/ SeekBest(v) \/ ChooseBestTunnel(v) \/ NoLocalTunnel(v)
         \/ CheckChosen(v) \/ Forward(v) \/ Answered(v) \/ Failed(v) \/ Abandoned(v)
         \/ CloudEnds(v)
    \/ \E t \in Tunnel :
         \/ RegisterTunnel(t) \/ RemoveTunnel(t)
         \/ \E s \in {"Normal", "Critical"} : Report(t, s) /\ UNCHANGED routeVars
    \/ TimePasses /\ UNCHANGED routeVars

RoutingSpec == RoutingInit /\ [][RoutingNext]_routingVars
-----------------------------------------------------------------------------
\* A tunnel the hub has lost faith in, with no request left on its way to it or
\* waiting for its answer.
Working(t) == {v \in Visitor : pc[v] \in {"bound", "inflight"} /\ target[v] = t}
CutOff(t) == t \in known /\ ~Healthy(t) /\ Working(t) = {}

\* A tunnel that is Critical, or silent for STALE_THRESHOLD, and whose last
\* request is over is cut off for good: no cookie and no choice brings it work,
\* so no success comes to refresh its entry, and a new session under its id
\* does not start with a new entry.  Only a report of its client brings it back.
OnlyReportRevives ==
    [][\A t \in Tunnel :
         CutOff(t) => CutOff(t)' \/ \E s \in {"Normal", "Critical"} : Report(t, s)]_routingVars

IsCritical(t) == t \in known /\ health[t].status = "Critical"
Picks(v) == pc[v] = "best" /\ pc'[v] = "chosen"

\* "It should NEVER pick the Critical tunnel": what the test of
\* choose_best_tunnel says and asserts (proxy.rs:816-819).  The function sorts
\* the candidates and drops none, so it picks one when there is nothing else.
NeverPicksCritical ==
    [][\A v \in Visitor : Picks(v) => ~IsCritical(target'[v])]_routingVars

\* What it does instead: it picks a Critical tunnel only when every registered
\* tunnel is Critical, a tunnel without an entry counting as better.
PrefersNonCritical ==
    [][\A v \in Visitor :
         Picks(v) /\ IsCritical(target'[v]) => \A t \in registered : IsCritical(t)]_routingVars
=============================================================================
