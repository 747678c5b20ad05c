----------------------- MODULE ControlChannels_proofs -----------------------
(***************************************************************************)
(* Proofs about ControlChannels, for any services, connections and         *)
(* configurations: handles and tasks agree in every race of handshakes,    *)
(* hot reloads, the shutdown and an abort, and the map of handles is       *)
(* used as TwoKeyMap promises.  And about ConfigWatcher,                   *)
(* where the hot reloads come from, for any files: the events carry the    *)
(* whole difference between two configurations.                            *)
(***************************************************************************)
EXTENDS ControlChannels, ConfigWatcher, TLAPS

\* Tasks and handles belong to handshakes that ended well, and a handle is taken
\* out of the map after it was put in.
TaskIsUp ==
    /\ \A c \in Conn : task[c] # "none" => pc[c] = "up"
    /\ \A x \in handles : pc[x[2]] = "up"
    /\ \A c \in replaced : pc[c] \in {"up", "gone"}

\* What a map with two keys is for: neither key leads to two items.
KeysAreUnique == \A x, y \in handles : x[1] = y[1] \/ x[2] = y[2] => x = y

\* A handshake that nothing has overtaken read the configuration in force and
\* is served by a server that runs.
FreshHandshake ==
    \A c \in Conn \ overtaken :
        /\ pc[c] \in InHandshake => services[svc[c]] = cfg[c]
        /\ pc[c] \in InHandshake \cup {"hello"} => server \in {"run", "accepting"}

ChannelInv ==
    /\ TypeOK /\ TaskIsUp /\ KeysAreUnique /\ FreshHandshake
    /\ ServedUntilReplaced /\ HolderIsAlone /\ StaleOnlyIfOvertaken

\* What dropping handles does: the ones that are left are of connections that
\* were not replaced, and the tasks of the others have been told.
LEMMA DropFacts ==
    ASSUME ChannelInv, NEW items \in SUBSET handles, DropHandles(items)
    PROVE  /\ handles' = handles \ items /\ handles' \subseteq handles
           /\ task' \in [Conn -> {"none", "up", "dead", "told", "down"}]
           /\ replaced' \subseteq Conn
           /\ \A c \in replaced' : pc[c] \in {"up", "gone"}
           /\ \A c \in Conn : task'[c] # "none" => pc[c] = "up"
           /\ \A c \in Conn : task'[c] = "up" => task[c] = "up" /\ <<svc[c], c, cfg[c]>> \in handles'
           /\ \A c \in Conn : pc[c] = "up" =>
                IF c \in replaced'
                  THEN c \notin Keys(handles') /\ task'[c] \in {"told", "down"}
                  ELSE <<svc[c], c, cfg[c]>> \in handles' /\ task'[c] \in {"up", "dead"}
<1>1. /\ handles' = handles \ items /\ handles' \subseteq handles
      /\ replaced' = replaced \cup Keys(items)
  BY DEF DropHandles
<1>2. /\ handles \subseteq Service \X Conn \X Version
      /\ replaced \subseteq Conn
      /\ task \in [Conn -> {"none", "up", "dead", "told", "down"}]
      /\ \A c \in Conn : task[c] # "none" => pc[c] = "up"
      /\ \A x \in handles : pc[x[2]] = "up"
      /\ \A c \in replaced : pc[c] \in {"up", "gone"}
  BY DEF ChannelInv, TypeOK, TaskIsUp
<1>3. \A x, y \in handles : x[2] = y[2] => x = y
  BY DEF ChannelInv, KeysAreUnique
<1>4. \A c \in Conn : pc[c] = "up" =>
        IF c \in replaced
          THEN c \notin Keys(handles) /\ task[c] \in {"told", "down"}
          ELSE <<svc[c], c, cfg[c]>> \in handles /\ task[c] \in {"up", "dead"}
  BY DEF ChannelInv, ServedUntilReplaced
<1>5. /\ \A x \in items : x[2] \in Keys(items)
      /\ \A c \in Keys(items) : c \in Conn /\ pc[c] = "up" /\ \E x \in items : x[2] = c
      /\ Keys(handles') \subseteq Keys(handles)
      /\ \A c \in Keys(handles') : \E x \in handles' : x[2] = c
  BY <1>1, <1>2 DEF Keys
<1>6. \A c \in Conn : task'[c] = IF c \notin Keys(items) THEN task[c]
                                ELSE IF task[c] = "up" THEN "told" ELSE "down"
  BY DEF DropHandles
<1>7. \A c \in Conn : /\ c \notin Keys(items) => task'[c] = task[c]
                      /\ c \in Keys(items) => task'[c] \in {"told", "down"}
  BY <1>6, Zenon
<1>8. task' \in [Conn -> {"none", "up", "dead", "told", "down"}]
  BY <1>2 DEF DropHandles
<1>9. /\ replaced' \subseteq Conn
      /\ \A c \in replaced' : pc[c] \in {"up", "gone"}
  BY <1>1, <1>2, <1>5
<1>10. ASSUME NEW c \in Conn, pc[c] = "up", c \in replaced'
       PROVE  c \notin Keys(handles') /\ task'[c] \in {"told", "down"}
  <2>1. CASE c \in Keys(items)
    <3>1. PICK x \in items : x[2] = c
      BY <1>5, <2>1
    <3>2. \A y \in handles : y[2] = c => y \in items
      BY <1>3, <3>1
    <3>3. c \notin Keys(handles')
      BY <1>1, <1>5, <3>2
    <3> QED
      BY <1>7, <2>1, <3>3
  <2>2. CASE c \notin Keys(items)
    <3>1. c \in replaced /\ task'[c] = task[c]
      BY <1>1, <1>7, <1>10, <2>2
    <3> QED
      BY <1>4, <1>5, <1>10, <3>1
  <2> QED
    BY <2>1, <2>2
<1>11. ASSUME NEW c \in Conn, pc[c] = "up", c \notin replaced'
       PROVE  <<svc[c], c, cfg[c]>> \in handles' /\ task'[c] \in {"up", "dead"}
  <2>1. c \notin replaced /\ c \notin Keys(items)
    BY <1>1, <1>11
  <2>2. <<svc[c], c, cfg[c]>> \in handles /\ task[c] \in {"up", "dead"}
    BY <1>4, <1>11, <2>1
  <2>3. <<svc[c], c, cfg[c]>>[2] = c
    OBVIOUS
  <2>4. <<svc[c], c, cfg[c]>> \notin items
    BY <1>5, <2>1, <2>3
  <2> QED
    BY <1>1, <1>7, <2>1, <2>2, <2>4
<1>12. ASSUME NEW c \in Conn, task'[c] # "none" PROVE pc[c] = "up"
  <2>1. CASE c \in Keys(items)
    BY <1>5, <2>1
  <2>2. CASE c \notin Keys(items)
    BY <1>2, <1>7, <1>12, <2>2
  <2> QED
    BY <2>1, <2>2
<1>13. ASSUME NEW c \in Conn, task'[c] = "up"
       PROVE  task[c] = "up" /\ <<svc[c], c, cfg[c]>> \in handles'
  <2>1. c \notin Keys(items)
    BY <1>7, <1>13
  <2>2. pc[c] = "up" /\ c \notin replaced'
    BY <1>10, <1>12, <1>13
  <2> QED
    BY <1>7, <1>11, <1>13, <2>1, <2>2
<1> QED
  BY <1>1, <1>8, <1>9, <1>10, <1>11, <1>12, <1>13

\* No connection and no handle at the start.
LEMMA ChannelInvInit == Init => ChannelInv
<1> SUFFICES ASSUME Init PROVE ChannelInv
  OBVIOUS
<1> USE NullAssumption DEF Init
<1>1. TypeOK
  BY DEF TypeOK, InHandshake, Ends
<1>2. TaskIsUp /\ KeysAreUnique /\ FreshHandshake /\ ServedUntilReplaced /\ HolderIsAlone
      /\ StaleOnlyIfOvertaken
  BY DEF TaskIsUp, KeysAreUnique, FreshHandshake, ServedUntilReplaced, HolderIsAlone, StaleOnlyIfOvertaken, InHandshake
<1> QED
  BY <1>1, <1>2 DEF ChannelInv

\* Every step of a handshake, a reload or the shutdown keeps the invariant.
LEMMA ChannelInvStep == ChannelInv /\ [Next]_vars => ChannelInv'
<1> SUFFICES ASSUME ChannelInv, [Next]_vars PROVE ChannelInv'
  OBVIOUS
<1> USE NullAssumption
    DEF ChannelInv, TypeOK, TaskIsUp, KeysAreUnique, FreshHandshake, ServedUntilReplaced,
        HolderIsAlone, StaleOnlyIfOvertaken, InHandshake, Ends, Idle, Handle, Keys, connVars
<1>1. ASSUME NEW c \in Conn, Accept(c) \/ TransportDone(c) \/ TransportTimeout(c) PROVE ChannelInv'
  BY <1>1 DEF Accept, TransportDone, TransportTimeout
<1>2. ASSUME NEW c \in Conn, NEW s \in Service, LookupService(c, s) PROVE ChannelInv'
  <2>1. CASE services[s] = NoVersion
    BY <1>2, <2>1 DEF LookupService
  <2>2. CASE services[s] # NoVersion
    BY <1>2, <2>2 DEF LookupService
  <2> QED
    BY <2>1, <2>2
<1>3. ASSUME NEW c \in Conn, NEW token \in Version, ReadAuth(c, token) PROVE ChannelInv'
  BY <1>3 DEF ReadAuth
<1>4. ASSUME NEW c \in Conn, HandshakeFails(c) \/ Refused(c) PROVE ChannelInv'
  BY <1>4 DEF HandshakeFails, Refused
<1> DEFINE Dropped(items) ==
             /\ handles' = handles \ items /\ handles' \subseteq handles
             /\ task' \in [Conn -> {"none", "up", "dead", "told", "down"}]
             /\ replaced' \subseteq Conn
             /\ \A c \in replaced' : pc[c] \in {"up", "gone"}
             /\ \A c \in Conn : task'[c] # "none" => pc[c] = "up"
             /\ \A c \in Conn : task'[c] = "up" => task[c] = "up" /\ <<svc[c], c, cfg[c]>> \in handles'
             /\ \A c \in Conn : pc[c] = "up" =>
                  IF c \in replaced'
                    THEN c \notin Keys(handles') /\ task'[c] \in {"told", "down"}
                    ELSE <<svc[c], c, cfg[c]>> \in handles' /\ task'[c] \in {"up", "dead"}
<1>5. ASSUME NEW c \in Conn, DropOld(c) PROVE ChannelInv'
  <2>1. DropHandles(Handle(svc[c])) /\ Handle(svc[c]) \in SUBSET handles
    BY <1>5 DEF DropOld
  <2>2. Dropped(Handle(svc[c]))
    BY <2>1, DropFacts
  <2>3. /\ pc[c] = "lock" /\ holder = NoConn /\ holder' = c
        /\ pc' = [pc EXCEPT ![c] = "ack"]
        /\ UNCHANGED <<services, reload, server, svc, cfg, overtaken>>
    BY <1>5 DEF DropOld
  <2>4. TypeOK'
    <3>1. \A d \in Conn : pc'[d] \in InHandshake \cup {"up"} => pc[d] \in InHandshake \cup {"up"}
      BY <2>3
    <3>2. pc' \in [Conn -> {"free", "transport", "hello", "refuse"} \cup InHandshake \cup Ends]
      BY <2>3
    <3> QED
      BY <2>2, <2>3, <3>1, <3>2
  <2>5. FreshHandshake'
    BY <2>3
  <2>6. TaskIsUp' /\ KeysAreUnique'
    BY <2>2, <2>3
  <2>7. ServedUntilReplaced'
    BY <2>2, <2>3
  <2>8. HolderIsAlone'
    <3>1. Handle(svc[c])' = {}
      BY <2>2, <2>3
    <3> QED
      BY <2>3, <3>1
  <2>9. StaleOnlyIfOvertaken'
    BY <2>2, <2>3
  <2> QED
    BY <2>4, <2>5, <2>6, <2>7, <2>8, <2>9
<1>6. ASSUME NEW c \in Conn, AckOk(c) PROVE ChannelInv'
  <2>1. ~Map!Refuses(svc[c], c) /\ c \notin replaced
    BY <1>6 DEF AckOk, Map!Refuses
  <2>2. handles' = handles \cup {<<svc[c], c, cfg[c]>>} /\ task' = [task EXCEPT ![c] = "up"]
    BY <1>6, <2>1 DEF AckOk, Map!With
  <2>3. TypeOK' /\ FreshHandshake' /\ TaskIsUp'
    BY <1>6, <2>1, <2>2 DEF AckOk
  <2>4. KeysAreUnique'
    BY <1>6, <2>1, <2>2 DEF AckOk, Map!Refuses
  <2>5. ServedUntilReplaced'
    BY <1>6, <2>1, <2>2 DEF AckOk
  <2>6. HolderIsAlone' /\ StaleOnlyIfOvertaken'
    BY <1>6, <2>1, <2>2 DEF AckOk
  <2> QED
    BY <2>3, <2>4, <2>5, <2>6
<1>7. ASSUME NEW c \in Conn, AckFails(c) PROVE ChannelInv'
  BY <1>7 DEF AckFails
<1>8. ASSUME NEW c \in Conn, AckAborts(c) PROVE ChannelInv'
  BY <1>8 DEF AckAborts
<1>9. ASSUME NEW c \in Conn, ControlDies(c) \/ TaskEnds(c) PROVE ChannelInv'
  BY <1>9 DEF ControlDies, TaskEnds
<1>10. ASSUME NEW s \in Service, NEW v \in Version \cup {NoVersion}, HotReload(s, v) PROVE ChannelInv'
  BY <1>10 DEF HotReload
<1>15. CASE ChangeServices
  <2>1. reload # Idle /\ reload.service \in Service /\ reload.version \in Version \cup {NoVersion}
    BY <1>15 DEF ChangeServices
  <2>2. /\ reload' = [at |-> "channels", service |-> reload.service, version |-> reload.version]
        /\ reload'.service = reload.service
    BY <1>15, <2>1 DEF ChangeServices
  <2>3. TypeOK'
    BY <1>15, <2>1, <2>2 DEF ChangeServices
  <2>4. FreshHandshake' /\ StaleOnlyIfOvertaken'
    BY <1>15, <2>1, <2>2 DEF ChangeServices
  <2>5. TaskIsUp' /\ KeysAreUnique' /\ ServedUntilReplaced' /\ HolderIsAlone'
    BY <1>15 DEF ChangeServices
  <2> QED
    BY <2>3, <2>4, <2>5
<1>11. CASE FinishReload
  <2>1. DropHandles(Handle(reload.service)) /\ Handle(reload.service) \in SUBSET handles
    BY <1>11 DEF FinishReload
  <2>2. Dropped(Handle(reload.service))
    BY <2>1, DropFacts
  <2>3. TypeOK' /\ TaskIsUp' /\ KeysAreUnique' /\ FreshHandshake'
    BY <1>11, <2>2 DEF FinishReload
  <2>4. ServedUntilReplaced' /\ HolderIsAlone'
    BY <1>11, <2>2 DEF FinishReload
  <2>5. StaleOnlyIfOvertaken'
    BY <1>11, <2>2 DEF FinishReload
  <2> QED
    BY <2>3, <2>4, <2>5
<1>12. CASE Stop
  BY <1>12 DEF Stop
<1>13. CASE DropAll
  <2>1. DropHandles(handles) /\ handles \in SUBSET handles
    BY <1>13 DEF DropAll
  <2>2. Dropped(handles)
    BY <2>1, DropFacts
  <2>3. TypeOK' /\ TaskIsUp' /\ KeysAreUnique' /\ FreshHandshake'
    BY <1>13, <2>2 DEF DropAll
  <2>4. ServedUntilReplaced' /\ HolderIsAlone'
    BY <1>13, <2>2 DEF DropAll
  <2>5. StaleOnlyIfOvertaken'
    BY <1>13, <2>2 DEF DropAll
  <2> QED
    BY <2>3, <2>4, <2>5
<1>14. CASE UNCHANGED vars
  BY <1>14 DEF vars
<1> QED
  BY <1>1, <1>2, <1>3, <1>4, <1>5, <1>6, <1>7, <1>8, <1>9, <1>10, <1>11, <1>12, <1>13, <1>14, <1>15
  DEF Next

\* The inductive invariant holds in every reachable state.
THEOREM ChannelInvariant == Spec => []ChannelInv
  BY ChannelInvInit, ChannelInvStep, PTL DEF Spec

\* Types of the maps, the lock, the handshakes and the tasks.
THEOREM TypeCorrect == Spec => []TypeOK
<1>1. ChannelInv => TypeOK
  BY DEF ChannelInv
<1> QED
  BY <1>1, ChannelInvariant, PTL

\* A client that was acknowledged is reachable through the map until a newer
\* handshake, a reload or the shutdown takes its handle out, and its task has
\* been told by then.
THEOREM AcknowledgedAreServed == Spec => []ServedUntilReplaced
<1>1. ChannelInv => ServedUntilReplaced
  BY DEF ChannelInv
<1> QED
  BY <1>1, ChannelInvariant, PTL

\* The write lock is held by the handshake that is acknowledging, alone with its
\* service.
THEOREM HoldersAreAlone == Spec => []HolderIsAlone
<1>1. ChannelInv => HolderIsAlone
  BY DEF ChannelInv
<1> QED
  BY <1>1, ChannelInvariant, PTL

\* Only a handshake that a reload or the shutdown overtook serves a configuration
\* that is not in force, or a server that has stopped.
THEOREM OnlyOvertakenAreStale == Spec => []StaleOnlyIfOvertaken
<1>1. ChannelInv => StaleOnlyIfOvertaken
  BY DEF ChannelInv
<1> QED
  BY <1>1, ChannelInvariant, PTL

\* The handle a handshake inserts is never refused: its service's old handle was
\* dropped under the same guard, and its session key is its own.  The code
\* relies on this, for it discards what insert returns, and a refused handle
\* would end the channel its client has just been told of.
InsertSucceeds == \A c \in Conn : AckOk(c) => /\ ~Map!Refuses(svc[c], c)
                                              /\ <<svc[c], c, cfg[c]>> \in handles'
THEOREM InsertsSucceed == Spec => [][InsertSucceeds]_vars
<1>1. ASSUME ChannelInv PROVE InsertSucceeds
  <2> SUFFICES ASSUME NEW c \in Conn, AckOk(c)
               PROVE  ~Map!Refuses(svc[c], c) /\ <<svc[c], c, cfg[c]>> \in handles'
    BY DEF InsertSucceeds
  <2>1. \A x \in handles : x[1] # svc[c]
    BY <1>1 DEF AckOk, ChannelInv, HolderIsAlone, Handle
  <2>2. \A x \in handles : x[2] # c
    BY <1>1 DEF AckOk, ChannelInv, TaskIsUp
  <2>3. ~Map!Refuses(svc[c], c)
    BY <2>1, <2>2 DEF Map!Refuses
  <2> QED
    BY <2>3 DEF AckOk, Map!With
<1> QED
  BY <1>1, ChannelInvariant, PTL

\* Taking the handle of one service is one removal, or nothing.
LEMMA DropOne ==
    ASSUME ChannelInv, NEW s, handles' = handles \ Handle(s)
    PROVE  Map!Take \/ UNCHANGED handles
<1>1. CASE Handle(s) = {}
  BY <1>1
<1>2. CASE Handle(s) # {}
  <2>1. PICK x \in handles : x[1] = s
    BY <1>2 DEF Handle
  <2>2. Handle(s) = {x}
    BY <2>1 DEF Handle, ChannelInv, KeysAreUnique
  <2> QED
    BY <2>2 DEF Map!Take
<1> QED
  BY <1>1, <1>2

\* The server uses control_channels as the map with two keys that MultiMap
\* implements: what the handshakes, the reloads and the shutdown do to it are
\* single inserts, single removals, and its replacement by an empty one (which
\* stands for the end of the process too).
THEOREM HandlesAreTwoKeyMap == Spec => Map!TwoKeySpec
<1>1. Init => Map!TwoKeyInit
  BY DEF Init, Map!TwoKeyInit
<1>2. ASSUME ChannelInv, [Next]_vars PROVE Map!TwoKeyNext \/ UNCHANGED handles
  <2>1. ASSUME NEW c \in Conn, AckOk(c) PROVE Map!TwoKeyNext \/ UNCHANGED handles
    <3>1. svc[c] \in Service /\ cfg[c] \in Version
      BY <1>2, <2>1 DEF AckOk, ChannelInv, TypeOK, InHandshake
    <3> QED
      BY <2>1, <3>1 DEF AckOk, Map!TwoKeyNext, Map!Put
  <2>2. ASSUME NEW c \in Conn, DropOld(c) PROVE Map!TwoKeyNext \/ UNCHANGED handles
    BY <1>2, <2>2, DropOne DEF DropOld, DropHandles, Map!TwoKeyNext
  <2>3. CASE FinishReload
    BY <1>2, <2>3, DropOne DEF FinishReload, DropHandles, Map!TwoKeyNext
  <2>4. CASE DropAll
    BY <2>4 DEF DropAll, DropHandles, Map!TwoKeyNext, Map!Clear
  <2>8. ASSUME NEW c \in Conn, AckAborts(c) PROVE Map!TwoKeyNext
    BY <2>8 DEF AckAborts, Map!TwoKeyNext, Map!Clear
  <2>5. ASSUME NEW c \in Conn,
               \/ Accept(c) \/ TransportDone(c) \/ TransportTimeout(c) \/ HandshakeFails(c)
               \/ Refused(c) \/ AckFails(c) \/ ControlDies(c) \/ TaskEnds(c)
               \/ \E s \in Service : LookupService(c, s)
               \/ \E token \in Version : ReadAuth(c, token)
        PROVE  UNCHANGED handles
    BY <2>5 DEF Accept, TransportDone, TransportTimeout, HandshakeFails, Refused, AckFails,
                ControlDies, TaskEnds, LookupService, ReadAuth
  <2>6. CASE \/ \E s \in Service, v \in Version \cup {NoVersion} : HotReload(s, v)
             \/ ChangeServices \/ Stop
    BY <2>6 DEF HotReload, ChangeServices, Stop
  <2>7. CASE UNCHANGED vars
    BY <2>7 DEF vars
  <2> QED
    BY <1>2, <2>1, <2>2, <2>3, <2>4, <2>5, <2>6, <2>7, <2>8 DEF Next
<1> QED
  BY <1>1, <1>2, ChannelInvariant, PTL DEF Spec, Map!TwoKeySpec

\* A data channel that names its session key finds the handle of one service
\* only, and a service has one handle: from the promise of the map alone.
THEOREM HandleKeysAreUnique == Spec => []KeysAreUnique
<1>1. Map!TwoKeyInit => KeysAreUnique
  BY DEF Map!TwoKeyInit, KeysAreUnique
<1>2. KeysAreUnique /\ [Map!TwoKeyNext]_handles => KeysAreUnique'
  BY DEF KeysAreUnique, Map!TwoKeyNext, Map!Put, Map!Take, Map!Clear, Map!Refuses, Map!With
<1> QED
  BY <1>1, <1>2, HandlesAreTwoKeyMap, PTL DEF Map!TwoKeySpec
-----------------------------------------------------------------------------
(* ConfigWatcher *)

\* The configurations the program may work with.
Parsed == {Parse(f) : f \in Files} \ {Invalid}

\* A file that parses is one of Files.
LEMMA ParsedFile ==
    ASSUME NEW f \in Files \cup {Broken}, Parse(f) # Invalid
    PROVE  f \in Files /\ Parse(f) \in Parsed
  BY DEF Parse, Parsed

\* What a configuration is made of: the sides of a valid file with the defaults
\* filled in.
LEMMA ParsedShape ==
    ASSUME NEW n \in Parsed
    PROVE  \E f \in Files :
             /\ n = [i \in Sides |-> IF f[i] = NoSide THEN NoSide ELSE FilledIn(i, f[i])]
             /\ \A i \in Sides : f[i] # NoSide => ValidSide(i, f[i])
  BY DEF Parsed, Parse

\* A side with its defaults has the settings and the names of the file.
LEMMA FilledInShape ==
    ASSUME NEW f \in Files, NEW i \in Sides, f[i] # NoSide
    PROVE  /\ FilledIn(i, f[i]) = [settings |-> FilledIn(i, f[i]).settings,
                                   services |-> FilledIn(i, f[i]).services]
           /\ FilledIn(i, f[i]).settings = f[i].settings
           /\ FilledIn(i, f[i]).services =
                [s \in DOMAIN f[i].services |->
                   IF f[i].services[s] = NotConfigured THEN NotConfigured
                   ELSE WithDefaults(i, f[i].settings, f[i].services[s])]
<1>0. f[i] = [settings |-> f[i].settings, services |-> f[i].services]
  BY FilesAssumption
<1>1. PICK a, b : f[i] = [settings |-> a, services |-> b]
  BY <1>0, Zenon
<1> DEFINE filled == [s \in DOMAIN b |->
                        IF b[s] = NotConfigured THEN NotConfigured ELSE WithDefaults(i, a, b[s])]
<1>2. f[i].settings = a /\ f[i].services = b
  BY <1>1
<1>3. FilledIn(i, f[i]) = [[settings |-> a, services |-> b] EXCEPT !.services = filled]
  BY <1>1, <1>2 DEF FilledIn
<1> HIDE DEF filled
<1>4. FilledIn(i, f[i]) = [settings |-> a, services |-> filled]
  BY <1>3
<1>5. FilledIn(i, f[i]).settings = a /\ FilledIn(i, f[i]).services = filled
  BY <1>4
<1>6. filled = [s \in DOMAIN f[i].services |->
                  IF f[i].services[s] = NotConfigured THEN NotConfigured
                  ELSE WithDefaults(i, f[i].settings, f[i].services[s])]
  BY <1>2 DEF filled
<1> QED
  BY <1>2, <1>4, <1>5, <1>6, Zenon

\* Two configurations have the same names on a side that both have.
LEMMA SidesFit ==
    ASSUME NEW o \in Parsed, NEW n \in Parsed, NEW i \in Sides, o[i] # NoSide, n[i] # NoSide
    PROVE  /\ o[i] = [settings |-> o[i].settings, services |-> o[i].services]
           /\ n[i] = [settings |-> n[i].settings, services |-> n[i].services]
           /\ DOMAIN o[i].services = DOMAIN n[i].services
           /\ n[i].services = [s \in DOMAIN n[i].services |-> n[i].services[s]]
<1>1. PICK f \in Files : o = [j \in Sides |-> IF f[j] = NoSide THEN NoSide ELSE FilledIn(j, f[j])]
  BY ParsedShape
<1>2. PICK g \in Files : n = [j \in Sides |-> IF g[j] = NoSide THEN NoSide ELSE FilledIn(j, g[j])]
  BY ParsedShape
<1>3. f[i] # NoSide /\ o[i] = FilledIn(i, f[i]) /\ g[i] # NoSide /\ n[i] = FilledIn(i, g[i])
  BY <1>1, <1>2
<1>4. /\ o[i] = [settings |-> o[i].settings, services |-> o[i].services]
      /\ n[i] = [settings |-> n[i].settings, services |-> n[i].services]
  BY <1>3, FilledInShape
<1>5. /\ DOMAIN o[i].services = DOMAIN f[i].services /\ DOMAIN n[i].services = DOMAIN g[i].services
      /\ n[i].services = [s \in DOMAIN n[i].services |-> n[i].services[s]]
  BY <1>3, FilledInShape
<1>6. DOMAIN f[i].services = DOMAIN g[i].services
  BY <1>3, FilesAssumption, ZenonT(40)
<1> QED
  BY <1>4, <1>5, <1>6

\* The events of one side do to each of its services what the edit did.
LEMMA ServiceCarried ==
    ASSUME NEW o, NEW n, NEW i \in Sides, NEW E, NEW s,
           DOMAIN o = DOMAIN n, s \in DOMAIN n,
           \A e : e \in E /\ e.side = i /\ e.kind \in {"add", "delete"} <=> e \in ServiceEvents(i, o, n)
    PROVE  ServiceAfter(i, s, o[s], E) = n[s]
<1> DEFINE added == {e \in E : e.kind = "add" /\ e.side = i /\ e.name = s}
<1>1. \A x : Delete(i, x).kind = "delete" /\ Delete(i, x).side = i /\ Delete(i, x).name = x
  BY DEF Delete
<1>2. \A x, y : /\ Add(i, x, y).kind = "add" /\ Add(i, x, y).side = i
               /\ Add(i, x, y).name = x /\ Add(i, x, y).cfg = y
  BY DEF Add
<1>3. Delete(i, s) \in E <=> o[s] # NotConfigured /\ n[s] = NotConfigured
  <2>1. Delete(i, s) \in E <=> Delete(i, s) \in ServiceEvents(i, o, n)
    BY <1>1
  <2>2. Delete(i, s) \in ServiceEvents(i, o, n) => o[s] # NotConfigured /\ n[s] = NotConfigured
    <3> SUFFICES ASSUME Delete(i, s) \in ServiceEvents(i, o, n)
                 PROVE  o[s] # NotConfigured /\ n[s] = NotConfigured
      OBVIOUS
    <3>1. \A x, y : Delete(i, s) # Add(i, x, y)
      BY <1>1, <1>2
    <3>2. PICK x \in DOMAIN o : o[x] # NotConfigured /\ n[x] = NotConfigured /\ Delete(i, s) = Delete(i, x)
      BY <3>1 DEF ServiceEvents
    <3>3. x = s
      BY <1>1, <3>2
    <3> QED
      BY <3>2, <3>3
  <2>3. o[s] # NotConfigured /\ n[s] = NotConfigured => Delete(i, s) \in ServiceEvents(i, o, n)
    BY DEF ServiceEvents
  <2> QED
    BY <2>1, <2>2, <2>3
<1>4. \A e \in added : n[s] # NotConfigured /\ o[s] # n[s] /\ e.cfg = n[s]
  <2> SUFFICES ASSUME NEW e \in added PROVE n[s] # NotConfigured /\ o[s] # n[s] /\ e.cfg = n[s]
    OBVIOUS
  <2>1. e \in ServiceEvents(i, o, n) /\ e.kind = "add" /\ e.name = s
    OBVIOUS
  <2>2. \A x : e # Delete(i, x)
    BY <1>1, <2>1
  <2>3. PICK x \in DOMAIN n : n[x] # NotConfigured /\ o[x] # n[x] /\ e = Add(i, x, n[x])
    BY <2>1, <2>2 DEF ServiceEvents
  <2>4. x = s /\ e.cfg = n[x]
    BY <1>2, <2>1, <2>3
  <2> QED
    BY <2>3, <2>4
<1>5. n[s] # NotConfigured /\ o[s] # n[s] => Add(i, s, n[s]) \in added
  <2>1. n[s] # NotConfigured /\ o[s] # n[s] => Add(i, s, n[s]) \in ServiceEvents(i, o, n)
    BY DEF ServiceEvents
  <2>2. n[s] # NotConfigured /\ o[s] # n[s] => Add(i, s, n[s]) \in E
    BY <1>2, <2>1
  <2> QED
    BY <1>2, <2>2
<1>6. ServiceAfter(i, s, o[s], E) =
        IF Delete(i, s) \in E THEN NotConfigured
        ELSE IF added = {} THEN o[s] ELSE (CHOOSE e \in added : TRUE).cfg
  BY DEF ServiceAfter
<1> HIDE DEF added
<1>7. CASE added = {}
  BY <1>3, <1>5, <1>6, <1>7
<1>8. CASE added # {}
  <2>1. (CHOOSE e \in added : TRUE) \in added
    BY <1>8
  <2> QED
    BY <1>3, <1>4, <1>6, <1>8, <2>1
<1> QED
  BY <1>7, <1>8

\* calculate_events leaves nothing out: who applies the events for a change from
\* one configuration to another has the other.
LEMMA EventsCarry ==
    ASSUME NEW o \in Parsed, NEW n \in Parsed
    PROVE  Applied(o, CalculateEvents(o, n)) = n
<1> DEFINE E == CalculateEvents(o, n)
           general == {e \in E : e.kind = "general"}
<1>1. PICK f \in Files : o = [i \in Sides |-> IF f[i] = NoSide THEN NoSide ELSE FilledIn(i, f[i])]
  BY ParsedShape
<1>2. PICK g \in Files : n = [i \in Sides |-> IF g[i] = NoSide THEN NoSide ELSE FilledIn(i, g[i])]
  BY ParsedShape
<1>3. CASE NeedsRestart(o, n)
  <2>1. E = {General(n)} /\ General(n).kind = "general" /\ General(n).config = n
    BY <1>3 DEF CalculateEvents, General
  <2>2. general = {General(n)}
    BY <2>1
  <2>3. (CHOOSE e \in general : TRUE) = General(n) /\ general # {}
    BY <2>2
  <2> QED
    BY <2>1, <2>3 DEF Applied
<1>4. CASE ~NeedsRestart(o, n)
  <2>1. E = UNION {ServiceEvents(i, o[i].services, n[i].services) : i \in {i \in Sides : o[i] # NoSide}}
    BY <1>4 DEF CalculateEvents
  <2>2. \A i \in Sides : /\ o[i] = NoSide <=> n[i] = NoSide
                         /\ o[i] # NoSide => o[i].settings = n[i].settings
    BY <1>4 DEF NeedsRestart
  <2>3. \A i, a, b, e : e \in ServiceEvents(i, a, b) => e.side = i /\ e.kind \in {"add", "delete"}
    BY DEF ServiceEvents, Add, Delete
  <2> HIDE DEF E
  <2>4. general = {}
    BY <2>1, <2>3
  <2>5. \A i \in Sides : o[i] # NoSide =>
          \A e : e \in E /\ e.side = i /\ e.kind \in {"add", "delete"}
                  <=> e \in ServiceEvents(i, o[i].services, n[i].services)
    BY <2>1, <2>3
  <2> DEFINE after(i) == [s \in DOMAIN o[i].services |-> ServiceAfter(i, s, o[i].services[s], E)]
             After(i) == [o[i] EXCEPT !.services = after(i)]
  <2>6. Applied(o, E) = [i \in Sides |-> IF o[i] = NoSide THEN NoSide ELSE After(i)]
    BY <2>4 DEF Applied
  <2>7. ASSUME NEW i \in Sides, o[i] # NoSide PROVE After(i) = n[i]
    <3>1. /\ n[i] # NoSide /\ o[i].settings = n[i].settings
          /\ o[i] = [settings |-> o[i].settings, services |-> o[i].services]
          /\ n[i] = [settings |-> n[i].settings, services |-> n[i].services]
          /\ DOMAIN o[i].services = DOMAIN n[i].services
          /\ n[i].services = [s \in DOMAIN n[i].services |-> n[i].services[s]]
      BY <2>2, <2>7, SidesFit
    <3>2. \A s \in DOMAIN n[i].services : ServiceAfter(i, s, o[i].services[s], E) = n[i].services[s]
      <4> DEFINE a == o[i].services
                 b == n[i].services
      <4>1. /\ DOMAIN a = DOMAIN b
            /\ \A e : e \in E /\ e.side = i /\ e.kind \in {"add", "delete"}
                      <=> e \in ServiceEvents(i, a, b)
        BY <2>5, <2>7, <3>1
      <4> HIDE DEF a, b
      <4>2. ASSUME NEW s \in DOMAIN b PROVE ServiceAfter(i, s, a[s], E) = b[s]
        BY <4>1, ServiceCarried
      <4> QED
        BY <4>2 DEF a, b
    <3>3. after(i) = n[i].services
      BY <3>1, <3>2
    <3>4. After(i) = [settings |-> o[i].settings, services |-> after(i)]
      <4> HIDE DEF after
      <4> QED
        BY <3>1
    <3> QED
      BY <3>1, <3>3, <3>4
  <2>8. \A i \in Sides : (IF o[i] = NoSide THEN NoSide ELSE After(i)) = n[i]
    BY <2>2, <2>7
  <2>9. n = [i \in Sides |-> n[i]]
    BY <1>2
  <2> HIDE DEF After
  <2> QED
    BY <2>6, <2>8, <2>9 DEF E
<1> QED
  BY <1>3, <1>4

\* What the watcher knows: the consumer of its events is where the watcher is;
\* and with no notice pending and no edit missed that is where the file is.
WatcherInv ==
    /\ file \in Files \cup {Broken} /\ notices \in Nat
    /\ stage \in {"start", "watcher", "exited"}
    /\ IF stage = "start" THEN old = NoConfig ELSE old \in Parsed
    /\ replayed = old
    /\ watching => stage = "watcher"
    /\ ~watching => notices = 0
    /\ (stage = "watcher" /\ notices = 0 /\ ~missed /\ Parse(file) # Invalid) => old = Parse(file)

\* Every edit, rescan and shutdown keeps that.
LEMMA WatcherInvStep == WatcherInv /\ [WatcherNext]_watcherVars => WatcherInv'
<1> SUFFICES ASSUME WatcherInv, [WatcherNext]_watcherVars PROVE WatcherInv'
  OBVIOUS
<1> USE ConfigAssumption DEF WatcherInv
<1>1. ASSUME NEW content \in Files \cup {Broken}, Edit(content) PROVE WatcherInv'
  <2>1. CASE watching
    BY <1>1, <2>1 DEF Edit
  <2>2. CASE ~watching
    <3>1. stage = "watcher" => missed'
      BY <1>1, <2>2 DEF Edit
    <3> QED
      BY <1>1, <2>2, <3>1 DEF Edit
  <2> QED
    BY <2>1, <2>2
<1>2. CASE StartWatcher
  BY <1>2, ParsedFile DEF StartWatcher
<1>3. CASE WatchFile
  BY <1>3 DEF WatchFile
<1>4. CASE RescanInvalid
  BY <1>4 DEF RescanInvalid
<1>5. CASE Rescan
  <2>1. Parse(file) \in Parsed /\ old \in Parsed /\ replayed = old
    BY <1>5, ParsedFile DEF Rescan
  <2>2. replayed' = Parse(file)
    BY <1>5, <2>1, EventsCarry DEF Rescan
  <2> QED
    BY <1>5, <2>1, <2>2 DEF Rescan
<1>6. CASE WatcherExits
  BY <1>6 DEF WatcherExits
<1>7. CASE UNCHANGED watcherVars
  BY <1>7 DEF watcherVars
<1> QED
  BY <1>1, <1>2, <1>3, <1>4, <1>5, <1>6, <1>7 DEF WatcherNext

\* The invariant holds of every behaviour of the watcher.
LEMMA WatcherInvHolds == WatcherSpec => []WatcherInv
<1>1. WatcherInit => WatcherInv
  BY DEF WatcherInit, WatcherInv
<1> QED
  BY <1>1, WatcherInvStep, PTL DEF WatcherSpec

\* Who applies all events of the watcher has what the file says once no notice
\* is pending, for any contents of the file and any number of edits.
THEOREM EventsCarried == WatcherSpec => []EventsCarryTheEdits
<1>1. WatcherInv => EventsCarryTheEdits
  BY DEF WatcherInv, EventsCarryTheEdits
<1> QED
  BY <1>1, WatcherInvHolds, PTL

\* Whatever was edited, a service that reaches the server or the client has the
\* options that they unwrap: validate_server_config and validate_client_config
\* leave no token out, and the client's default fills the retry interval in.
THEOREM OptionsAreSet == WatcherSpec => []RuntimeOptionsAreSet
<1>1. WatcherInv => RuntimeOptionsAreSet
  <2> SUFFICES ASSUME WatcherInv, replayed # NoConfig, NEW i \in Sides, replayed[i] # NoSide,
                      NEW s \in DOMAIN replayed[i].services,
                      replayed[i].services[s] # NotConfigured
               PROVE  /\ replayed[i].services[s].token # NoToken
                      /\ i = "client" => replayed[i].services[s].retry # NoRetry
    BY DEF RuntimeOptionsAreSet
  <2>1. replayed \in Parsed
    BY DEF WatcherInv
  <2>2. PICK f \in Files :
          /\ replayed = [j \in Sides |-> IF f[j] = NoSide THEN NoSide ELSE FilledIn(j, f[j])]
          /\ \A j \in Sides : f[j] # NoSide => ValidSide(j, f[j])
    BY <2>1, ParsedShape
  <2>3. f[i] # NoSide /\ replayed[i] = FilledIn(i, f[i]) /\ ValidSide(i, f[i])
    BY <2>2
  <2> DEFINE service == f[i].services[s]
             settings == f[i].settings
  <2>4. /\ s \in DOMAIN f[i].services /\ service # NotConfigured
        /\ replayed[i].services[s] = WithDefaults(i, settings, service)
    <3> DEFINE Filled(x) == IF f[i].services[x] = NotConfigured THEN NotConfigured
                            ELSE WithDefaults(i, settings, f[i].services[x])
    <3>1. replayed[i].services = [x \in DOMAIN f[i].services |-> Filled(x)]
      BY <2>3, FilledInShape
    <3>2. s \in DOMAIN f[i].services /\ replayed[i].services[s] = Filled(s)
      <4> HIDE DEF Filled
      <4> QED
        BY <3>1
    <3> QED
      BY <3>2
  <2>5. service.token # NoToken \/ settings.token # NoToken
    BY <2>3, <2>4 DEF ValidSide
  <2>6. i = "client" => settings.retry # NoRetry
    BY <2>3, FilesAssumption
  <2> HIDE DEF service, settings
  <2> QED
    BY <2>4, <2>5, <2>6 DEF WithDefaults
<1> QED
  BY <1>1, WatcherInvHolds, PTL
=============================================================================
