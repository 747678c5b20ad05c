--------------------------- MODULE ClientControl ---------------------------
(***************************************************************************)
(* The control channels of the port forwarder's client                     *)
(* (rathole/src/client.rs): Client::run keeps one handle per service, each *)
(* handle owns a task that connects, runs ControlChannel::run and connects *)
(* again when that returns an error.  A handle that is replaced, removed   *)
(* or shut down signals its task, which looks at the signal only in its    *)
(* loop and after an error.  The server serves the task of a service that  *)
(* came last (ControlChannels).  What happens inside the loop of an        *)
(* established channel is the subject of ControlLoop.                      *)
(*                                                                         *)
(* Neither the handshake nor the write of a health update has a timeout or *)
(* looks at the signal.  The program is built with panic = "abort": the    *)
(* todo!() of the websocket transport ends the client, whose next life is  *)
(* another behaviour of this specification.                                *)
(***************************************************************************)
EXTENDS Naturals

CONSTANTS
    Service,
    Task,        \* tasks of control channels, each used once
    MaxFailures, \* bound on failures of the network and restarts of the server
    NoTask, NoService

ASSUME ClientAssumption ==
    NoTask \notin Task /\ NoService \notin Service /\ MaxFailures \in Nat

VARIABLES
    handles,    \* Client.service_handles
    running,    \* Client::run is in its loop
    pc,         \* where each task is
    svc,        \* the service of each task
    signal,     \* the tasks whose shutdown_rx is ready: the handle is gone
    gaveUp,     \* the tasks that ended because a health update failed
    serving,    \* whose control channel the server keeps for each service
    failures

clientVars == <<handles, running, signal>>
vars == <<clientVars, pc, svc, gaveUp, serving, failures>>

Alive == {"connect", "acked", "up", "blocked", "backoff"}

TypeOK ==
    /\ handles \in [Service -> Task \cup {NoTask}]
    /\ running \in BOOLEAN
    /\ pc \in [Task -> {"none", "ended"} \cup Alive]
    /\ svc \in [Task -> Service \cup {NoService}]
    /\ signal \subseteq Task /\ gaveUp \subseteq Task
    /\ serving \in [Service -> Task \cup {NoTask}]
    /\ failures \in 0..MaxFailures

Init ==
    /\ handles = [s \in Service |-> NoTask]
    /\ running = TRUE
    /\ pc = [t \in Task |-> "none"]
    /\ svc = [t \in Task |-> NoService]
    /\ signal = {} /\ gaveUp = {}
    /\ serving = [s \in Service |-> NoTask]
    /\ failures = 0
-----------------------------------------------------------------------------
(* Client::run *)

\* Mutant: the task of the replaced handle is not told to stop.
AddService_KeepsOld(s, t) ==
    /\ running /\ pc[t] = "none"
    /\ handles' = [handles EXCEPT ![s] = t]
    /\ UNCHANGED signal
    /\ pc' = [pc EXCEPT ![t] = "connect"]
    /\ svc' = [svc EXCEPT ![t] = s]
    /\ UNCHANGED <<running, gaveUp, serving, failures>>

\* A service of the configuration, or ClientServiceChange::Add, which also
\* stands for a change: a handle of the same name is dropped.
AddService(s, t) ==
    /\ running /\ pc[t] = "none"
    /\ handles' = [handles EXCEPT ![s] = t]
    /\ signal' = signal \cup ({handles[s]} \ {NoTask})
    /\ pc' = [pc EXCEPT ![t] = "connect"]
    /\ svc' = [svc EXCEPT ![t] = s]
    /\ UNCHANGED <<running, gaveUp, serving, failures>>

DeleteService(s) ==
    /\ running /\ handles[s] # NoTask
    /\ handles' = [handles EXCEPT ![s] = NoTask]
    /\ signal' = signal \cup {handles[s]}
    /\ UNCHANGED <<running, pc, svc, gaveUp, serving, failures>>

\* The loop ends and every handle is shut down.
ShutdownAll ==
    /\ running
    /\ running' = FALSE
    /\ handles' = [s \in Service |-> NoTask]
    /\ signal' = signal \cup ({handles[s] : s \in Service} \ {NoTask})
    /\ UNCHANGED <<pc, svc, gaveUp, serving, failures>>
-----------------------------------------------------------------------------
(* The task of ControlChannelHandle::new *)

Goto(t, l) == pc' = [pc EXCEPT ![t] = l]

\* Mutant: the signal is not looked at after an error.
Retry_Always(t) == Goto(t, "backoff")

\* Mutant: an error ends the task.
Retry_Never(t) == Goto(t, "ended")

\* run returned an error: the task stops if the signal is there, else it
\* sleeps and runs again.
Retry(t) == Goto(t, IF t \in signal THEN "ended" ELSE "backoff")

\* Hello, authentication and acknowledgement as the server sees them: an older
\* channel of the service is dropped.
ServerAccepts(t) ==
    /\ pc[t] = "connect"
    /\ Goto(t, "acked")
    /\ serving' = [serving EXCEPT ![svc[t]] = t]
    /\ UNCHANGED <<clientVars, svc, gaveUp, failures>>

ConnectFails(t) ==
    /\ pc[t] = "connect" /\ failures < MaxFailures
    /\ Retry(t)
    /\ failures' = failures + 1
    /\ UNCHANGED <<clientVars, svc, gaveUp, serving>>

\* The websocket handshake fails, which the transport answers with todo!(): the
\* client is gone, with all its tasks.
ConnectAborts(t) ==
    /\ pc[t] = "connect"
    /\ running' = FALSE
    /\ handles' = [s \in Service |-> NoTask]
    /\ pc' = [u \in Task |-> IF pc[u] = "none" THEN "none" ELSE "ended"]
    /\ UNCHANGED <<signal, svc, gaveUp, serving, failures>>

\* The acknowledgement is read, even when the channel has been dropped since.
ReadAck(t) ==
    /\ pc[t] = "acked"
    /\ Goto(t, "up")
    /\ UNCHANGED <<clientVars, svc, gaveUp, serving, failures>>

\* The server has closed the connection: a command cannot be read ...
ReadFails(t) ==
    /\ pc[t] = "up" /\ serving[svc[t]] # t
    /\ Retry(t)
    /\ UNCHANGED <<clientVars, svc, gaveUp, serving, failures>>

\* ... or the health update, when its tick comes first, cannot be sent: the
\* loop is left and run returns Ok.
HealthFails(t) ==
    /\ pc[t] \in {"up", "blocked"} /\ serving[svc[t]] # t
    /\ Goto(t, "ended")
    /\ gaveUp' = gaveUp \cup {t}
    /\ UNCHANGED <<clientVars, svc, serving, failures>>

\* The server never reads the health updates.  One day the buffers are full,
\* and the branch of the tick waits until the connection breaks.
HealthBlocks(t) ==
    /\ pc[t] = "up"
    /\ Goto(t, "blocked")
    /\ UNCHANGED <<clientVars, svc, gaveUp, serving, failures>>

TakeShutdown(t) ==
    /\ pc[t] = "up" /\ t \in signal
    /\ Goto(t, "ended")
    /\ UNCHANGED <<clientVars, svc, gaveUp, serving, failures>>

BackoffOver(t) ==
    /\ pc[t] = "backoff"
    /\ Goto(t, "connect")
    /\ UNCHANGED <<clientVars, svc, gaveUp, serving, failures>>

\* The server restarts, or its side of a connection fails.
ServerDrops(s) ==
    /\ serving[s] # NoTask /\ failures < MaxFailures
    /\ serving' = [serving EXCEPT ![s] = NoTask]
    /\ failures' = failures + 1
    /\ UNCHANGED <<clientVars, pc, svc, gaveUp>>

TaskNext(t) ==
    \/ ServerAccepts(t) \/ ConnectFails(t) \/ ConnectAborts(t) \/ ReadAck(t)
    \/ ReadFails(t) \/ HealthFails(t) \/ HealthBlocks(t) \/ TakeShutdown(t) \/ BackoffOver(t)

Next ==
    \/ \E s \in Service : DeleteService(s) \/ ServerDrops(s) \/ \E t \in Task : AddService(s, t)
    \/ ShutdownAll
    \/ \E t \in Task : TaskNext(t)

\* Timers fire, the task is polled, and a closed connection is noticed, by the
\* read or by the health updates that are written to it.  Nothing is assumed
\* of a handshake: the server may be silent for ever.
Fairness ==
    \A t \in Task : /\ WF_vars(BackoffOver(t)) /\ WF_vars(TakeShutdown(t))
                   /\ WF_vars(ReadFails(t) \/ HealthFails(t))

Spec == Init /\ [][Next]_vars /\ Fairness
-----------------------------------------------------------------------------
\* No task runs on its own: one that is not the task of its service's handle
\* has been told to stop, and one that is has not.
NoOrphans ==
    \A t \in Task : pc[t] \in Alive => (t \in signal <=> handles[svc[t]] # t)

\* The task waits for its peer, blind to the signal: in connect, in read_hello
\* or read_ack, or in the write of a health update.
AwaitsPeer(t) == pc[t] \in {"connect", "acked", "blocked"}

\* A task that is told to stop ends, wherever it was, unless a peer keeps it
\* waiting for ever: it cannot reconnect for ever without looking at the signal,
\* also when the newer tasks of its service take its place again and again.
SignalledTasksEnd ==
    \A t \in Task : []<>~AwaitsPeer(t) => (t \in signal ~> pc[t] = "ended")

\* Once the configuration rests, the failures are over and no peer keeps a task
\* waiting for ever, the task of a service's handle is the one the server
\* serves, although the tasks it replaced may have connected after it and taken
\* its place; the exception is a task that ended because a health update failed,
\* which nobody starts again.
HandleIsServed ==
    (\A u \in Task : []<>~AwaitsPeer(u)) =>
        \A s \in Service, t \in Task :
            <>[](handles[s] = t) =>
                <>[]((pc[t] = "up" /\ serving[s] = t) \/ t \in gaveUp)
=============================================================================
