------------------------ MODULE TunnelHealth_proofs ------------------------
(***************************************************************************)
(* Proofs about the health map, for all thresholds: the hysteresis of      *)
(* mark_tunnel_success and mark_tunnel_failure works, whatever the clients *)
(* report in between (TunnelHealth); the map of ProxyRouting is one, so    *)
(* this holds of requests that read it at several moments; and what the    *)
(* map is good for to them.                                                *)
(***************************************************************************)
EXTENDS ProxyRouting, TLAPS

\* The record that each update of an entry writes is an entry again.
LEMMA EntryType ==
    ASSUME MapTypeOK, NEW t \in Tunnel
    PROVE  Entry(t) \in HealthEntry
  BY ThresholdAssumption DEF MapTypeOK, Entry, DefaultHealth, HealthEntry, HealthStatus

\* mark_tunnel_success writes a typed entry.
LEMMA AfterSuccessType ==
    ASSUME NEW h \in HealthEntry, NEW time \in Nat
    PROVE  AfterSuccess(h, time) \in HealthEntry
<1>1. Saturate(h.successes, SuccessToNormal) \in 0..SuccessToNormal
  BY ThresholdAssumption DEF HealthEntry, Saturate
<1> QED
  BY <1>1, ThresholdAssumption DEF AfterSuccess, HealthEntry, HealthStatus

\* mark_tunnel_failure writes a typed entry.
LEMMA AfterFailureType ==
    ASSUME NEW h \in HealthEntry, NEW time \in Nat
    PROVE  AfterFailure(h, time) \in HealthEntry
<1>1. Saturate(h.failures, CriticalFailures) \in 0..CriticalFailures
  BY ThresholdAssumption DEF HealthEntry, Saturate
<1> QED
  BY <1>1, ThresholdAssumption DEF AfterFailure, HealthEntry, HealthStatus

\* A HealthUpdate message writes a typed entry.
LEMMA AfterReportType ==
    ASSUME NEW h \in HealthEntry, NEW time \in Nat, NEW v \in HealthStatus
    PROVE  AfterReport(h, v, time) \in HealthEntry
  BY DEF AfterReport, HealthEntry

\* A typed entry put into the map leaves the map typed.
LEMMA SetEntryType ==
    ASSUME MapTypeOK, NEW t \in Tunnel, NEW h \in HealthEntry, SetEntry(t, h)
    PROVE  MapTypeOK'
  BY DEF MapTypeOK, SetEntry

\* Marks and reports keep the type of the map and of the history.
THEOREM TypeCorrect == Spec => []TypeOK
<1>1. Init => TypeOK
  BY ThresholdAssumption
  DEF Init, MapInit, TypeOK, MapTypeOK, DefaultHealth, HealthEntry, HealthStatus
<1>2. TypeOK /\ [Next]_vars => TypeOK'
  <2> SUFFICES ASSUME TypeOK, [Next]_vars PROVE TypeOK'
    OBVIOUS
  <2>0. now \in Nat /\ MapTypeOK
    BY DEF TypeOK, MapTypeOK
  <2>1. CASE TimePasses
    BY <2>1 DEF TimePasses, Tick, TypeOK, MapTypeOK
  <2>2. ASSUME NEW t \in Tunnel, Success(t) PROVE TypeOK'
    <3>1. AfterSuccess(Entry(t), now) \in HealthEntry
      BY <2>0, EntryType, AfterSuccessType
    <3>2. MapTypeOK'
      BY <2>0, <2>2, <3>1, SetEntryType DEF Success, MarkSuccess
    <3> QED
      BY <2>0, <2>2, <3>2 DEF TypeOK, Success, NoteMark
  <2>3. ASSUME NEW t \in Tunnel, Failure(t) PROVE TypeOK'
    <3>1. AfterFailure(Entry(t), now) \in HealthEntry
      BY <2>0, EntryType, AfterFailureType
    <3>2. MapTypeOK'
      BY <2>0, <2>3, <3>1, SetEntryType DEF Failure, MarkFailure
    <3> QED
      BY <2>0, <2>3, <3>2 DEF TypeOK, Failure, NoteMark
  <2>4. ASSUME NEW t \in Tunnel, NEW v \in {"Normal", "Critical"}, Report(t, v) PROVE TypeOK'
    <3>1. AfterReport(Entry(t), v, now) \in HealthEntry
      BY <2>0, EntryType, AfterReportType DEF HealthStatus
    <3>2. MapTypeOK'
      BY <2>0, <2>4, <3>1, SetEntryType DEF Report, HealthUpdate
    <3> QED
      BY <2>0, <2>4, <3>2 DEF TypeOK, Report
  <2>5. CASE UNCHANGED vars
    BY <2>5 DEF vars, mapVars, TypeOK, MapTypeOK
  <2> QED
    BY <2>1, <2>2, <2>3, <2>4, <2>5 DEF Next
<1> QED
  BY <1>1, <1>2, PTL DEF Spec
-----------------------------------------------------------------------------
(* The hysteresis clock *)

\* What a mark does to the status and the hysteresis clock of an entry.
LEMMA SuccessFacts ==
    ASSUME NEW h \in HealthEntry, NEW time \in Nat
    PROVE  LET g == AfterSuccess(h, time)
           IN  /\ g.last_update = time
               /\ g.status = h.status => g.last_transition \in {time, h.last_transition}
               /\ g.status # h.status => /\ h.status = "Warning" /\ g.status = "Normal"
                                         /\ g.successes = SuccessToNormal
                                         /\ time - h.last_transition >= Hysteresis
                                         /\ g.last_transition = time
<1>1. Saturate(h.successes, SuccessToNormal) \in 0..SuccessToNormal
  BY ThresholdAssumption DEF HealthEntry, Saturate
<1> QED
  BY <1>1, ThresholdAssumption DEF AfterSuccess, Settled, HealthEntry

\* mark_tunnel_failure changes a status only when the wait is over, and then sets
\* the clock.
LEMMA FailureFacts ==
    ASSUME NEW h \in HealthEntry, NEW time \in Nat
    PROVE  LET g == AfterFailure(h, time)
           IN  /\ g.last_update = time
               /\ g.status = h.status => g.last_transition \in {time, h.last_transition}
               /\ g.status # h.status => /\ h.status # "Critical" /\ g.status # "Normal"
                                         /\ time - h.last_transition >= Hysteresis
                                         /\ g.last_transition = time
  BY ThresholdAssumption DEF AfterFailure, Settled, HealthEntry, HealthStatus

\* A report sets the status and leaves the clock alone.
LEMMA ReportFacts ==
    ASSUME NEW h \in HealthEntry, NEW time \in Nat, NEW v \in HealthStatus
    PROVE  LET g == AfterReport(h, v, time)
           IN  g.last_update = time /\ g.last_transition = h.last_transition
  BY DEF AfterReport, HealthEntry

\* TransitionCoversMark with what it needs of the tunnels that have no entry
\* yet: no mark has changed their status.
ClockInv ==
    /\ TransitionCoversMark
    /\ \A t \in Tunnel \ known : lastMark[t] = 0 /\ t \notin marked

\* An entry, found or made, is consistent with the clock.
LEMMA EntryClock ==
    ASSUME TypeOK, ClockInv, NEW t \in Tunnel
    PROVE  /\ Entry(t) \in HealthEntry
           /\ lastMark[t] \in Nat /\ now \in Nat
           /\ lastMark[t] <= Entry(t).last_transition
           /\ Entry(t).last_transition <= now
<1>1. Entry(t) \in HealthEntry
  BY EntryType DEF TypeOK
<1>2. lastMark[t] \in Nat /\ now \in Nat
  BY DEF TypeOK, MapTypeOK
<1>3. CASE t \in known
  BY <1>1, <1>2, <1>3 DEF ClockInv, TransitionCoversMark, Entry, HealthEntry
<1>4. CASE t \notin known
  <2>1. lastMark[t] = 0
    BY <1>4 DEF ClockInv
  <2>2. Entry(t).last_transition = now
    BY <1>4 DEF Entry, DefaultHealth
  <2> QED
    BY <1>1, <1>2, <2>1, <2>2
<1> QED
  BY <1>1, <1>2, <1>3, <1>4

\* Writing an entry whose clock lies between the last mark and now keeps
\* the invariant.
LEMMA ClockStep ==
    ASSUME TypeOK, ClockInv, NEW t \in Tunnel, NEW h \in HealthEntry, SetEntry(t, h),
           lastMark' \in [Tunnel -> Nat],
           \A u \in Tunnel \ {t} : lastMark'[u] = lastMark[u],
           marked' \subseteq marked \cup {t},
           lastMark'[t] <= h.last_transition, h.last_transition <= h.last_update,
           h.last_update = now
    PROVE  ClockInv'
<1>1. now' = now /\ now \in Nat /\ known' = known \cup {t} /\ health \in [Tunnel -> HealthEntry]
      /\ known \subseteq Tunnel
  BY DEF SetEntry, TypeOK, MapTypeOK
<1>2. health'[t] = h /\ \A u \in Tunnel \ {t} : health'[u] = health[u]
  BY <1>1 DEF SetEntry
<1>3. TransitionCoversMark'
  <2> SUFFICES ASSUME NEW u \in known'
               PROVE  /\ lastMark'[u] <= health'[u].last_transition
                      /\ health'[u].last_transition <= health'[u].last_update
                      /\ health'[u].last_update <= now'
    BY DEF TransitionCoversMark
  <2>1. CASE u = t
    BY <1>1, <1>2, <2>1 DEF HealthEntry
  <2>2. CASE u # t
    BY <1>1, <1>2, <2>2 DEF ClockInv, TransitionCoversMark
  <2> QED
    BY <2>1, <2>2
<1>4. \A u \in Tunnel \ known' : lastMark'[u] = 0 /\ u \notin marked'
  BY <1>1 DEF ClockInv
<1> QED
  BY <1>3, <1>4 DEF ClockInv

\* Every mark, report and tick keeps the clock ahead of the last mark.
LEMMA ClockInvStep == TypeOK /\ TypeOK' /\ ClockInv /\ [Next]_vars => ClockInv'
<1> SUFFICES ASSUME TypeOK, TypeOK', ClockInv, [Next]_vars PROVE ClockInv'
  OBVIOUS
<1>0. now \in Nat /\ MapTypeOK /\ lastMark' \in [Tunnel -> Nat] /\ lastMark \in [Tunnel -> Nat]
  BY DEF TypeOK, MapTypeOK
<1>1. CASE TimePasses
  BY <1>0, <1>1
  DEF TimePasses, Tick, ClockInv, TransitionCoversMark, TypeOK, MapTypeOK, HealthEntry
<1>2. ASSUME NEW t \in Tunnel, Success(t) PROVE ClockInv'
  <2> DEFINE h == AfterSuccess(Entry(t), now)
  <2>1. h \in HealthEntry /\ SetEntry(t, h) /\ NoteMark(t)
    BY <1>0, <1>2, EntryClock, AfterSuccessType DEF Success, MarkSuccess
  <2>2. health'[t] = h
    BY <1>0, <2>1 DEF SetEntry, MapTypeOK
  <2>3. /\ h.last_update = now
        /\ h.status = Entry(t).status => h.last_transition \in {now, Entry(t).last_transition}
        /\ h.status # Entry(t).status => h.last_transition = now
    BY <1>0, EntryClock, SuccessFacts
  <2>4. lastMark'[t] = IF h.status # Entry(t).status THEN now ELSE lastMark[t]
    BY <1>0, <2>1, <2>2 DEF NoteMark
  <2>5. lastMark'[t] <= h.last_transition /\ h.last_transition <= h.last_update
    <3>1. /\ lastMark[t] \in Nat /\ Entry(t).last_transition \in Nat
          /\ lastMark[t] <= Entry(t).last_transition
          /\ Entry(t).last_transition <= now
      BY EntryClock DEF HealthEntry
    <3> HIDE DEF h
    <3>2. CASE h.status = Entry(t).status
      BY <1>0, <2>3, <2>4, <3>1, <3>2
    <3>3. CASE h.status # Entry(t).status
      BY <1>0, <2>3, <2>4, <3>1, <3>3
    <3> QED
      BY <3>2, <3>3
  <2>6. (\A u \in Tunnel \ {t} : lastMark'[u] = lastMark[u]) /\ marked' \subseteq marked \cup {t}
    BY <1>0, <2>1 DEF NoteMark
  <2> QED
    BY <1>0, <2>1, <2>3, <2>5, <2>6, ClockStep
<1>3. ASSUME NEW t \in Tunnel, Failure(t) PROVE ClockInv'
  <2> DEFINE h == AfterFailure(Entry(t), now)
  <2>1. h \in HealthEntry /\ SetEntry(t, h) /\ NoteMark(t)
    BY <1>0, <1>3, EntryClock, AfterFailureType DEF Failure, MarkFailure
  <2>2. health'[t] = h
    BY <1>0, <2>1 DEF SetEntry, MapTypeOK
  <2>3. /\ h.last_update = now
        /\ h.status = Entry(t).status => h.last_transition \in {now, Entry(t).last_transition}
        /\ h.status # Entry(t).status => h.last_transition = now
    BY <1>0, EntryClock, FailureFacts
  <2>4. lastMark'[t] = IF h.status # Entry(t).status THEN now ELSE lastMark[t]
    BY <1>0, <2>1, <2>2 DEF NoteMark
  <2>5. lastMark'[t] <= h.last_transition /\ h.last_transition <= h.last_update
    <3>1. /\ lastMark[t] \in Nat /\ Entry(t).last_transition \in Nat
          /\ lastMark[t] <= Entry(t).last_transition
          /\ Entry(t).last_transition <= now
      BY EntryClock DEF HealthEntry
    <3> HIDE DEF h
    <3>2. CASE h.status = Entry(t).status
      BY <1>0, <2>3, <2>4, <3>1, <3>2
    <3>3. CASE h.status # Entry(t).status
      BY <1>0, <2>3, <2>4, <3>1, <3>3
    <3> QED
      BY <3>2, <3>3
  <2>6. (\A u \in Tunnel \ {t} : lastMark'[u] = lastMark[u]) /\ marked' \subseteq marked \cup {t}
    BY <1>0, <2>1 DEF NoteMark
  <2> QED
    BY <1>0, <2>1, <2>3, <2>5, <2>6, ClockStep
<1>4. ASSUME NEW t \in Tunnel, NEW v \in {"Normal", "Critical"}, Report(t, v) PROVE ClockInv'
  <2> DEFINE h == AfterReport(Entry(t), v, now)
  <2>0. v \in HealthStatus
    BY DEF HealthStatus
  <2>1. h \in HealthEntry /\ SetEntry(t, h)
    BY <1>0, <1>4, <2>0, EntryClock, AfterReportType DEF Report, HealthUpdate
  <2>2. h.last_update = now /\ h.last_transition = Entry(t).last_transition
    BY <1>0, <2>0, EntryClock, ReportFacts
  <2>3. lastMark' = lastMark /\ marked' = marked
    BY <1>4 DEF Report
  <2>4. lastMark'[t] <= h.last_transition /\ h.last_transition <= h.last_update
    BY <1>0, <2>2, <2>3, EntryClock
  <2> QED
    BY <1>0, <2>1, <2>2, <2>3, <2>4, ClockStep
<1>5. CASE UNCHANGED vars
  BY <1>5 DEF vars, mapVars, ClockInv, TransitionCoversMark
<1> QED
  BY <1>1, <1>2, <1>3, <1>4, <1>5 DEF Next

\* The inductive invariant holds throughout.
THEOREM ClockInvariant == Spec => []ClockInv
<1>1. Init => ClockInv
  BY DEF Init, MapInit, ClockInv, TransitionCoversMark
<1> QED
  BY <1>1, ClockInvStep, TypeCorrect, PTL DEF Spec

\* The hysteresis clock never lags behind a change of status by a mark.
THEOREM ClockCoversMarks == Spec => []TransitionCoversMark
<1>1. ClockInv => TransitionCoversMark
  BY DEF ClockInv
<1> QED
  BY <1>1, ClockInvariant, PTL
-----------------------------------------------------------------------------
(* What a step may do to a status *)

\* A step that changes the status of a known tunnel and is not a report is a
\* mark of that tunnel, made when its wait was over.
LEMMA MarkedChange ==
    ASSUME TypeOK, ClockInv, [Next]_vars, NEW t \in Tunnel, StatusChanges(t), ~ByReport
    PROVE  /\ now - lastMark[t] >= Hysteresis
           /\ health[t].status # "Critical"
           /\ health'[t].status = "Normal" => /\ health[t].status = "Warning"
                                             /\ health'[t].successes = SuccessToNormal
<1>0. /\ now \in Nat /\ health \in [Tunnel -> HealthEntry]
      /\ t \in known /\ health[t] \in HealthEntry /\ health'[t].status # health[t].status
      /\ Entry(t) = health[t]
  BY DEF TypeOK, MapTypeOK, StatusChanges, Entry
<1>1. lastMark[t] \in Nat /\ health[t].last_transition \in Nat /\ lastMark[t] <= health[t].last_transition
  BY <1>0, EntryClock DEF HealthEntry
<1>2. CASE TimePasses
  BY <1>0, <1>2 DEF TimePasses, Tick
<1>3. ASSUME NEW u \in Tunnel, Success(u)
      PROVE  /\ now - lastMark[t] >= Hysteresis
             /\ health[t].status = "Warning" /\ health'[t].status = "Normal"
             /\ health'[t].successes = SuccessToNormal
  <2>1. health' = [health EXCEPT ![u] = AfterSuccess(Entry(u), now)]
    BY <1>3 DEF Success, MarkSuccess, SetEntry
  <2>2. u = t
    BY <1>0, <2>1
  <2>3. health'[t] = AfterSuccess(health[t], now)
    BY <1>0, <2>1, <2>2
  <2>4. /\ health[t].status = "Warning" /\ health'[t].status = "Normal"
        /\ health'[t].successes = SuccessToNormal
        /\ now - health[t].last_transition >= Hysteresis
    BY <1>0, <2>3, SuccessFacts
  <2> QED
    BY <1>0, <1>1, <2>4, ThresholdAssumption
<1>4. ASSUME NEW u \in Tunnel, Failure(u)
      PROVE  /\ now - lastMark[t] >= Hysteresis
             /\ health[t].status # "Critical" /\ health'[t].status # "Normal"
  <2>1. health' = [health EXCEPT ![u] = AfterFailure(Entry(u), now)]
    BY <1>4 DEF Failure, MarkFailure, SetEntry
  <2>2. u = t
    BY <1>0, <2>1
  <2>3. health'[t] = AfterFailure(health[t], now)
    BY <1>0, <2>1, <2>2
  <2>4. /\ health[t].status # "Critical" /\ health'[t].status # "Normal"
        /\ now - health[t].last_transition >= Hysteresis
    BY <1>0, <2>3, FailureFacts
  <2> QED
    BY <1>0, <1>1, <2>4, ThresholdAssumption
<1>5. ASSUME NEW u \in Tunnel, NEW v \in {"Normal", "Critical"}, Report(u, v) PROVE FALSE
  BY <1>5 DEF Report, ByReport
<1>6. CASE UNCHANGED vars
  BY <1>0, <1>6 DEF vars, mapVars
<1> QED
  BY <1>2, <1>3, <1>4, <1>5, <1>6 DEF Next

\* Marks change a status at most once in HYSTERESIS_DURATION, whatever the
\* clients report.
THEOREM HysteresisHolds == Spec => MarksAreSpaced
<1>1. TypeOK /\ ClockInv /\ [Next]_vars
        => [\A t \in Tunnel : (t \in marked /\ StatusChanges(t) /\ ~ByReport)
                               => now - lastMark[t] >= Hysteresis]_vars
  BY MarkedChange
<1> QED
  BY <1>1, TypeCorrect, ClockInvariant, PTL DEF Spec, MarksAreSpaced

\* No number of successful requests ends a Critical status.
THEOREM OnlyReportsRestore == Spec => CriticalNeedsReport
<1>1. TypeOK /\ ClockInv /\ [Next]_vars
        => [\A t \in Tunnel : (health[t].status = "Critical" /\ StatusChanges(t)) => ByReport]_vars
  BY MarkedChange
<1> QED
  BY <1>1, TypeCorrect, ClockInvariant, PTL DEF Spec, CriticalNeedsReport

\* Requests restore Normal only from Warning, with enough successes in a row
\* and after the wait.
THEOREM RecoveryTakesTime == Spec => RecoveryIsSlow
<1>1. TypeOK /\ ClockInv /\ [Next]_vars
        => [\A t \in Tunnel : (StatusChanges(t) /\ health'[t].status = "Normal" /\ ~ByReport)
               => /\ health[t].status = "Warning"
                  /\ health'[t].successes = SuccessToNormal
                  /\ now - lastMark[t] >= Hysteresis]_vars
  BY MarkedChange
<1> QED
  BY <1>1, TypeCorrect, ClockInvariant, PTL DEF Spec, RecoveryIsSlow
-----------------------------------------------------------------------------
(* ProxyRouting *)

\* Every step of a request, a session or a client is a mark, a report or a tick
\* of the health map, or leaves it alone.
LEMMA RoutingStep ==
    ASSUME \A v \in Visitor : pc[v] \in {"bound", "inflight"} => target[v] \in Tunnel,
           [RoutingNext]_routingVars
    PROVE  [Next]_vars
<1>1. ASSUME NEW v \in Visitor, Answered(v) \/ Failed(v) PROVE Next
  <2>1. target[v] \in Tunnel
    BY <1>1 DEF Answered, Failed
  <2> QED
    BY <1>1, <2>1 DEF Answered, Failed, Next
<1> QED
  BY <1>1 DEF RoutingNext, PreferTunnel, SeekBest, ChooseBestTunnel, NoLocalTunnel, CheckChosen, Forward,
       Abandoned, CloudEnds, RegisterTunnel, RemoveTunnel, Next, routingVars

\* The types of what the routing adds, and that a request that was given a
\* tunnel has one.
Routed ==
    /\ registered \subseteq Tunnel
    /\ cookie \in [Visitor -> Cookies]
    /\ pc \in [Visitor -> {"idle", "best", "chosen", "bound", "inflight", "cloud"}]
    /\ target \in [Visitor -> Tunnel \cup {NoCookie}]
    /\ \A v \in Visitor : pc[v] \in {"chosen", "bound", "inflight"} => target[v] \in Tunnel

\* Every step of a request, a session or a client keeps them.
LEMMA RoutedStep == Routed /\ [RoutingNext]_routingVars => Routed'
<1> SUFFICES ASSUME Routed, [RoutingNext]_routingVars PROVE Routed'
  OBVIOUS
<1> USE DEF Routed
<1>1. ASSUME NEW v \in Visitor, PreferTunnel(v) PROVE Routed'
  BY <1>1 DEF PreferTunnel, CookieFits, Goto, Cookies
<1>2. ASSUME NEW v \in Visitor,
             SeekBest(v) \/ NoLocalTunnel(v) \/ CheckChosen(v) \/ Forward(v) \/ Abandoned(v)
      PROVE  Routed'
  BY <1>2 DEF SeekBest, NoLocalTunnel, CheckChosen, Forward, Abandoned, Goto
<1>3. ASSUME NEW v \in Visitor, ChooseBestTunnel(v) PROVE Routed'
  BY <1>3 DEF ChooseBestTunnel, BestTunnels, Goto
<1>4. ASSUME NEW v \in Visitor, Answered(v) \/ Failed(v) PROVE Routed'
  <2>1. target[v] \in Tunnel
    BY <1>4 DEF Answered, Failed
  <2> QED
    BY <1>4, <2>1 DEF Answered, Failed, Goto, Cookies
<1>5. ASSUME NEW v \in Visitor, CloudEnds(v) PROVE Routed'
  BY <1>5 DEF CloudEnds, Goto, Cookies
<1>6. ASSUME NEW t \in Tunnel, RegisterTunnel(t) \/ RemoveTunnel(t) PROVE Routed'
  BY <1>6 DEF RegisterTunnel, RemoveTunnel
<1>7. CASE UNCHANGED routeVars
  BY <1>7 DEF routeVars
<1> QED
  BY <1>1, <1>2, <1>3, <1>4, <1>5, <1>6, <1>7 DEF RoutingNext, routingVars

\* Requests are given tunnels, and what they do to the health map is what
\* TunnelHealth says: its specification holds of the map inside the proxy.
THEOREM RoutingImplementsHealth == RoutingSpec => []Routed /\ Spec
<1>1. RoutingInit => Routed /\ Init
  BY DEF RoutingInit, Routed, Cookies
<1>2. Routed /\ [RoutingNext]_routingVars => [Next]_vars
  BY RoutingStep DEF Routed
<1> QED
  BY <1>1, <1>2, RoutedStep, PTL DEF RoutingSpec, Spec

\* Types of the registered tunnels, the cookies, the requests and the map.
THEOREM RoutingTypeCorrect == RoutingSpec => []RoutingTypeOK
<1>1. Routed /\ TypeOK => RoutingTypeOK
  BY DEF Routed, RoutingTypeOK
<1> QED
  BY <1>1, RoutingImplementsHealth, TypeCorrect, PTL

\* The hysteresis holds in the proxy: whatever requests are on their way when a
\* status changes, two changes by their outcomes are HYSTERESIS_DURATION apart.
THEOREM RoutedMarksAreSpaced == RoutingSpec => MarksAreSpaced
  BY RoutingImplementsHealth, HysteresisHolds, PTL

\* Requests restore a tunnel of the proxy to Normal only from Warning, with
\* enough successes in a row and after the wait.
THEOREM RoutedRecoveryIsSlow == RoutingSpec => RecoveryIsSlow
  BY RoutingImplementsHealth, RecoveryTakesTime, PTL
-----------------------------------------------------------------------------
\* An entry that is not healthy becomes so by a write to it only.
LEMMA UnhealthyStays ==
    ASSUME MapTypeOK, NEW t \in Tunnel, t \in known, ~Healthy(t),
           t \in known', health'[t] = health[t], now' \in Nat, now' >= now
    PROVE  ~Healthy(t)'
<1>1. health[t].last_update \in Nat /\ now \in Nat
  BY DEF MapTypeOK, HealthEntry
<1>2. CASE health[t].status = "Critical"
  BY <1>2 DEF Healthy
<1>3. CASE ~(now - health[t].last_update < StaleThreshold)
  <2>1. ~(now' - health[t].last_update < StaleThreshold)
    BY <1>1, <1>3, ThresholdAssumption
  <2> QED
    BY <2>1 DEF Healthy
<1> QED
  BY <1>2, <1>3 DEF Healthy

\* A step that does not write an entry leaves it.
LEMMA OthersWrite ==
    ASSUME TypeOK, NEW t \in Tunnel, t \in known, NEW u \in Tunnel, u # t,
           Success(u) \/ Failure(u) \/ \E s \in {"Normal", "Critical"} : Report(u, s)
    PROVE  t \in known' /\ health'[t] = health[t] /\ now' = now
  BY DEF TypeOK, MapTypeOK, Success, Failure, Report, MarkSuccess, MarkFailure, HealthUpdate, SetEntry

\* A tunnel that is cut off stays cut off until its client reports: what would
\* write its entry is the outcome of a request, and it gets no requests.
THEOREM CutOffUntilReport == RoutingSpec => OnlyReportRevives
<1> DEFINE Revival(t) == CutOff(t) => CutOff(t)' \/ \E s \in {"Normal", "Critical"} : Report(t, s)
<1>1. Routed /\ TypeOK /\ TypeOK' /\ [RoutingNext]_routingVars => [\A t \in Tunnel : Revival(t)]_routingVars
  <2> SUFFICES ASSUME Routed, TypeOK, TypeOK', RoutingNext, NEW t \in Tunnel, CutOff(t),
                      ~\E s \in {"Normal", "Critical"} : Report(t, s)
               PROVE  CutOff(t)'
    OBVIOUS
  <2>0. /\ t \in known /\ ~Healthy(t) /\ Working(t) = {} /\ now \in Nat /\ now' \in Nat
        /\ MapTypeOK
        /\ pc \in [Visitor -> {"idle", "best", "chosen", "bound", "inflight", "cloud"}]
        /\ target \in [Visitor -> Tunnel \cup {NoCookie}]
    BY DEF CutOff, TypeOK, MapTypeOK, Routed
  <2>w. \A v \in Visitor : pc[v] \in {"bound", "inflight"} => target[v] # t
    BY <2>0 DEF Working
  <2>1. ASSUME t \in known', health'[t] = health[t], now' >= now,
               \A v \in Visitor : pc'[v] \in {"bound", "inflight"} => target'[v] # t
        PROVE  CutOff(t)'
    <3>1. ~Healthy(t)'
      BY <2>0, <2>1, UnhealthyStays
    <3>2. Working(t)' = {}
      BY <2>1 DEF Working
    <3> QED
      BY <2>1, <3>1, <3>2 DEF CutOff
  <2>2. ASSUME UNCHANGED vars PROVE t \in known' /\ health'[t] = health[t] /\ now' >= now
    BY <2>0, <2>2 DEF vars, mapVars
  <2>3. ASSUME NEW v \in Visitor, PreferTunnel(v) \/ CheckChosen(v) PROVE CutOff(t)'
    <3>1. \A w \in Visitor : pc'[w] \in {"bound", "inflight"} => target'[w] # t
      BY <2>0, <2>w, <2>3 DEF PreferTunnel, CookieFits, CheckChosen, Goto
    <3> QED
      BY <2>1, <2>2, <2>3, <3>1 DEF PreferTunnel, CheckChosen
  <2>4. ASSUME NEW v \in Visitor,
               \/ SeekBest(v) \/ ChooseBestTunnel(v) \/ NoLocalTunnel(v) \/ Forward(v)
               \/ Abandoned(v) \/ CloudEnds(v)
        PROVE  CutOff(t)'
    <3>1. \A w \in Visitor : pc'[w] \in {"bound", "inflight"} => target'[w] # t
      BY <2>0, <2>w, <2>4 DEF SeekBest, ChooseBestTunnel, NoLocalTunnel, Forward, Abandoned, CloudEnds, Goto
    <3>2. UNCHANGED vars
      BY <2>4 DEF SeekBest, ChooseBestTunnel, NoLocalTunnel, Forward, Abandoned, CloudEnds
    <3> QED
      BY <2>1, <2>2, <3>1, <3>2
  <2>5. ASSUME NEW v \in Visitor, Answered(v) \/ Failed(v) PROVE CutOff(t)'
    <3>1. target[v] \in Tunnel /\ target[v] # t
      BY <2>w, <2>5 DEF Routed, Answered, Failed
    <3>2. t \in known' /\ health'[t] = health[t] /\ now' = now
      BY <2>0, <2>5, <3>1, OthersWrite DEF Answered, Failed
    <3>3. \A w \in Visitor : pc'[w] \in {"bound", "inflight"} => target'[w] # t
      BY <2>0, <2>w, <2>5 DEF Answered, Failed, Goto
    <3> QED
      BY <2>0, <2>1, <3>2, <3>3
  <2>6. ASSUME NEW u \in Tunnel, RegisterTunnel(u) \/ RemoveTunnel(u) PROVE CutOff(t)'
    BY <2>w, <2>1, <2>2, <2>6 DEF RegisterTunnel, RemoveTunnel
  <2>7. ASSUME NEW u \in Tunnel, NEW s \in {"Normal", "Critical"}, Report(u, s), UNCHANGED routeVars
        PROVE  CutOff(t)'
    <3>1. t \in known' /\ health'[t] = health[t] /\ now' = now
      BY <2>0, <2>7, OthersWrite
    <3> QED
      BY <2>0, <2>w, <2>1, <2>7, <3>1 DEF routeVars
  <2>8. CASE TimePasses /\ UNCHANGED routeVars
    <3>1. t \in known' /\ health'[t] = health[t] /\ now' >= now
      BY <2>0, <2>8 DEF TimePasses, Tick
    <3> QED
      BY <2>w, <2>1, <2>8, <3>1 DEF routeVars
  <2> QED
    BY <2>3, <2>4, <2>5, <2>6, <2>7, <2>8 DEF RoutingNext
<1> QED
  BY <1>1, RoutingImplementsHealth, TypeCorrect, PTL DEF RoutingSpec, OnlyReportRevives

\* The order of choose_best_tunnel: one status counts for more than any other
\* criterion, and Critical comes last.
LEMMA RankIsStatus ==
    ASSUME MapTypeOK, NEW t \in Tunnel
    PROVE  StatusRank(t) \in 0..2 /\ (StatusRank(t) = 2 <=> IsCritical(t))
<1>1. health[t].status \in {"Normal", "Warning", "Critical"}
  BY DEF MapTypeOK, HealthEntry, HealthStatus
<1> QED
  BY <1>1 DEF StatusRank, IsCritical

\* choose_best_tunnel picks a Critical tunnel, against what its test says, in
\* one situation only: when every registered tunnel is Critical.
THEOREM NonCriticalPreferred == RoutingSpec => PrefersNonCritical
<1>1. Routed /\ TypeOK /\ [RoutingNext]_routingVars
        => [\A v \in Visitor :
              Picks(v) /\ IsCritical(target'[v]) => \A t \in registered : IsCritical(t)]_routingVars
  <2> SUFFICES ASSUME Routed, TypeOK, RoutingNext, NEW v \in Visitor, pc[v] = "best", pc'[v] = "chosen",
                      IsCritical(target'[v]), NEW t \in registered
               PROVE  IsCritical(t)
    BY DEF Picks
  <2>1. /\ pc \in [Visitor -> {"idle", "best", "chosen", "bound", "inflight", "cloud"}]
        /\ target \in [Visitor -> Tunnel \cup {NoCookie}]
        /\ MapTypeOK /\ registered \subseteq Tunnel
    BY DEF Routed, TypeOK
  <2>2. ChooseBestTunnel(v)
    <3>1. ASSUME NEW w \in Visitor, w # v, \E l : Goto(w, l) PROVE FALSE
      BY <2>1, <3>1 DEF Goto
    <3>2. ASSUME NEW w \in Visitor, ChooseBestTunnel(w) PROVE ChooseBestTunnel(v)
      BY <3>1, <3>2 DEF ChooseBestTunnel
    <3>3. ASSUME NEW w \in Visitor,
                 \/ PreferTunnel(w) \/ SeekBest(w) \/ NoLocalTunnel(w) \/ CheckChosen(w) \/ Forward(w)
                 \/ Answered(w) \/ Failed(w) \/ Abandoned(w) \/ CloudEnds(w)
          PROVE  FALSE
      BY <2>1, <3>3 DEF PreferTunnel, SeekBest, NoLocalTunnel, CheckChosen, Forward, Answered, Failed,
                        Abandoned, CloudEnds, Goto
    <3>4. ~UNCHANGED pc
      OBVIOUS
    <3> QED
      BY <3>2, <3>3, <3>4 DEF RoutingNext, RegisterTunnel, RemoveTunnel, routeVars
  <2>3. target'[v] \in BestTunnels
    BY <2>1, <2>2 DEF ChooseBestTunnel
  <2>4. target'[v] \in Tunnel /\ StatusRank(target'[v]) <= StatusRank(t)
    BY <2>1, <2>3 DEF BestTunnels
  <2>5. StatusRank(t) = 2
    BY <2>1, <2>4, RankIsStatus
  <2> QED
    BY <2>1, <2>5, RankIsStatus
<1> QED
  BY <1>1, RoutingImplementsHealth, TypeCorrect, PTL DEF RoutingSpec, PrefersNonCritical
=============================================================================
