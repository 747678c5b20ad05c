---------------------------- MODULE TunnelHealth ----------------------------
(***************************************************************************)
(* The life of the health map: request outcomes and client reports in any  *)
(* order and at any time, and what they may do to a tunnel's status.  The  *)
(* map is HealthMap's; the variables added here are history.               *)
(***************************************************************************)
EXTENDS HealthMap

VARIABLES
    lastMark,   \* when a mark last changed the tunnel's status, 0 for never
    marked,     \* the tunnels whose status a mark has changed
    writer      \* whether a mark or a report wrote the map last

vars == <<mapVars, lastMark, marked, writer>>

TypeOK ==
    /\ MapTypeOK
    /\ lastMark \in [Tunnel -> Nat]
    /\ marked \subseteq Tunnel
    /\ writer \in {"none", "mark", "report"}

Init ==
    /\ MapInit
    /\ lastMark = [t \in Tunnel |-> 0]
    /\ marked = {}
    /\ writer = "none"

TimePasses == Tick /\ UNCHANGED <<lastMark, marked, writer>>

NoteMark(t) ==
    LET changes == health'[t].status # Entry(t).status
    IN  /\ lastMark' = [lastMark EXCEPT ![t] = IF changes THEN now ELSE @]
        /\ marked' = IF changes THEN marked \cup {t} ELSE marked
        /\ writer' = "mark"

Success(t) == MarkSuccess(t) /\ NoteMark(t)
Failure(t) == MarkFailure(t) /\ NoteMark(t)

Report(t, verdict) ==
    /\ HealthUpdate(t, verdict)
    /\ writer' = "report"
    /\ UNCHANGED <<lastMark, marked>>

Next ==
    \/ TimePasses
    \/ \E t \in Tunnel : \/ Success(t)
                         \/ Failure(t)
                         \/ \E v \in {"Normal", "Critical"} : Report(t, v)

Spec == Init /\ [][Next]_vars
-----------------------------------------------------------------------------
StatusChanges(t) == t \in known /\ health'[t].status # health[t].status
ByReport == writer' = "report"

\* Two changes of a tunnel's status by request outcomes are at least
\* HYSTERESIS_DURATION apart, whatever the client reports in between: a report
\* does not touch last_transition and cannot shorten the wait.
MarksAreSpaced ==
    [][\A t \in Tunnel :
         (t \in marked /\ StatusChanges(t) /\ ~ByReport)
           => now - lastMark[t] >= Hysteresis]_vars

\* A tunnel leaves Critical only when its client reports: no number of
\* successful requests restores it.
CriticalNeedsReport ==
    [][\A t \in Tunnel :
         (health[t].status = "Critical" /\ StatusChanges(t)) => ByReport]_vars

\* Request outcomes restore a tunnel to Normal only from Warning, and only
\* when HYSTERESIS_DURATION has passed since they made it Warning.
RecoveryIsSlow ==
    [][\A t \in Tunnel :
         (StatusChanges(t) /\ health'[t].status = "Normal" /\ ~ByReport)
           => /\ health[t].status = "Warning"
              /\ health'[t].successes = SuccessToNormal
              /\ now - lastMark[t] >= Hysteresis]_vars

\* The hysteresis clock of an entry never lags behind a change of status that
\* request outcomes caused.
TransitionCoversMark ==
    \A t \in known : /\ lastMark[t] <= health[t].last_transition
                     /\ health[t].last_transition <= health[t].last_update
                     /\ health[t].last_update <= now
=============================================================================
