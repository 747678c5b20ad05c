------------------------------ MODULE HealthMap ------------------------------
(***************************************************************************)
(* The health map of the proxy (AppState.health_data): one TunnelHealth    *)
(* per tunnel id, written by mark_tunnel_success and mark_tunnel_failure   *)
(* (rathole/src/proxy.rs) when a proxied request ends, and by the          *)
(* HealthUpdate arm of handle_socket (rathole/src/main.rs) when a client   *)
(* reports its hardware.  Entries are created on first use and never       *)
(* removed.                                                                *)
(*                                                                         *)
(* Instants are natural numbers and Tick passes the time.  The counters    *)
(* are compared with one threshold each and saturate there; last_success   *)
(* and last_failure are never read and are left out; error_rate and        *)
(* avg_latency_ms only order candidates, see ProxyRouting.                 *)
(***************************************************************************)
EXTENDS Naturals

CONSTANTS
    Tunnel,
    StaleThreshold,     \* STALE_THRESHOLD, 30 s
    CriticalFailures,   \* WARNING_TO_CRITICAL_FAILURES, 5
    SuccessToNormal,    \* SUCCESS_TO_NORMAL, 3
    Hysteresis,         \* HYSTERESIS_DURATION, 10 s
    MaxTime             \* bound on the clock, for model checking only

ASSUME ThresholdAssumption ==
    /\ StaleThreshold \in Nat \ {0}
    /\ CriticalFailures \in Nat \ {0}
    /\ SuccessToNormal \in Nat \ {0}
    /\ Hysteresis \in Nat \ {0}
    /\ MaxTime \in Nat

VARIABLES
    now,        \* the clock
    known,      \* the ids that have an entry
    health      \* the entries (any value for an id that has none)

mapVars == <<now, known, health>>

HealthStatus == {"Normal", "Warning", "Critical"}
HealthEntry == [status: HealthStatus, last_update: Nat, last_transition: Nat,
                successes: 0..SuccessToNormal, failures: 0..CriticalFailures]

DefaultHealth(time) ==
    [status |-> "Normal", last_update |-> time, last_transition |-> time,
     successes |-> 0, failures |-> 0]

\* entry(id).or_insert_with(TunnelHealth::default)
Entry(t) == IF t \in known THEN health[t] ELSE DefaultHealth(now)

Saturate(n, cap) == IF n < cap THEN n + 1 ELSE cap
Settled(h, time) == time - h.last_transition >= Hysteresis

\* Mutant: the wait is not observed.
AfterSuccess_NoHysteresis(h, time) ==
    LET n == Saturate(h.successes, SuccessToNormal)
        recovers == h.status = "Warning" /\ n >= SuccessToNormal
    IN  [status |-> IF recovers THEN "Normal" ELSE h.status,
         last_update |-> time,
         last_transition |-> IF recovers THEN time ELSE h.last_transition,
         successes |-> n, failures |-> 0]

AfterSuccess(h, time) ==
    LET n == Saturate(h.successes, SuccessToNormal)
        recovers == h.status = "Warning" /\ n >= SuccessToNormal /\ Settled(h, time)
    IN  [status |-> IF recovers THEN "Normal" ELSE h.status,
         last_update |-> time,
         last_transition |-> IF recovers THEN time ELSE h.last_transition,
         successes |-> n, failures |-> 0]

\* Mutant: the wait is not observed.
AfterFailure_NoHysteresis(h, time) ==
    LET n == Saturate(h.failures, CriticalFailures)
        worsens == n >= CriticalFailures \/ h.status # "Critical"
    IN  [status |-> IF ~worsens THEN h.status
                    ELSE IF n >= CriticalFailures THEN "Critical" ELSE "Warning",
         last_update |-> time,
         last_transition |-> IF worsens THEN time ELSE h.last_transition,
         successes |-> 0, failures |-> n]

\* Both branches write last_transition when they apply, whether or not the
\* status they assign is new.
AfterFailure(h, time) ==
    LET n == Saturate(h.failures, CriticalFailures)
        worsens == Settled(h, time) /\ (n >= CriticalFailures \/ h.status # "Critical")
    IN  [status |-> IF ~worsens THEN h.status
                    ELSE IF n >= CriticalFailures THEN "Critical" ELSE "Warning",
         last_update |-> time,
         last_transition |-> IF worsens THEN time ELSE h.last_transition,
         successes |-> 0, failures |-> n]

\* The verdict on the client's hardware overwrites the status and nothing else
\* but the time of the update.
AfterReport(h, verdict, time) ==
    [h EXCEPT !.status = verdict, !.last_update = time]

\* The test both branches of proxy_handler make; an unknown tunnel passes.
Healthy(t) ==
    t \in known => /\ health[t].status # "Critical"
                   /\ now - health[t].last_update < StaleThreshold

MapTypeOK ==
    /\ now \in Nat
    /\ known \subseteq Tunnel
    /\ health \in [Tunnel -> HealthEntry]

MapInit ==
    /\ now = 0
    /\ known = {}
    /\ health = [t \in Tunnel |-> DefaultHealth(0)]

Tick ==
    /\ now < MaxTime
    /\ now' = now + 1
    /\ UNCHANGED <<known, health>>

SetEntry(t, h) ==
    /\ known' = known \cup {t}
    /\ health' = [health EXCEPT ![t] = h]
    /\ UNCHANGED now

MarkSuccess(t) == SetEntry(t, AfterSuccess(Entry(t), now))

MarkFailure(t) == SetEntry(t, AfterFailure(Entry(t), now))

HealthUpdate(t, verdict) == SetEntry(t, AfterReport(Entry(t), verdict, now))
=============================================================================
