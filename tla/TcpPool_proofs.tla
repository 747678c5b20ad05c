--------------------------- MODULE TcpPool_proofs ---------------------------
(***************************************************************************)
(* Proofs about TcpPool, for every pool size and queue capacity: the books *)
(* of data channels and visitors balance, and the queue of data channels   *)
(* never fills up.                                                         *)
(***************************************************************************)
EXTENDS TcpPool, TLAPS

\* TypeOK is kept by every task: the counted queues never go below zero.
THEOREM TypeCorrect == Spec => []TypeOK
<1>1. Init => TypeOK
  BY PoolAssumption DEF Init, TypeOK
<1>2. TypeOK /\ [Next]_vars => TypeOK'
  <2> SUFFICES ASSUME TypeOK, [Next]_vars PROVE TypeOK'
    OBVIOUS
  <2> USE DEF TypeOK
  <2>1. CASE SendCreate
    BY <2>1 DEF SendCreate, taskVars, countVars
  <2>2. CASE ControlEnds \/ DropHandle
    <3>1. handle' \in BOOLEAN /\ control' \in BOOLEAN
      BY <2>2, Zenon DEF ControlEnds, DropHandle
    <3>2. reqs' \in Nat
      BY <2>2 DEF ControlEnds, DropHandle, stockVars
    <3>3. UNCHANGED <<listener, pool, asked, chans, visitors, accepted, served, lost, broken>>
      BY <2>2 DEF ControlEnds, DropHandle, stockVars, countVars
    <3> QED
      BY <3>1, <3>2, <3>3
  <2>3. CASE ChannelArrives \/ ChannelLost \/ ChannelRefused
    BY <2>3 DEF ChannelArrives, ChannelLost, ChannelRefused, taskVars, countVars
  <2>4. CASE Bind \/ AcceptFails \/ HandOverFails \/ ListenerShutdown \/ PoolEnds
    BY <2>4 DEF Bind, AcceptFails, HandOverFails, ListenerShutdown, PoolEnds, stockVars, countVars
  <2>5. CASE Accept \/ HandOver
    BY <2>5 DEF Accept, HandOver, countVars
  <2>6. CASE TakeVisitor \/ Serve \/ ChannelBroken
    BY <2>6 DEF TakeVisitor, Serve, ChannelBroken, countVars
  <2>7. CASE UNCHANGED vars
    BY <2>7 DEF vars, taskVars, stockVars, countVars
  <2> QED
    BY <2>1, <2>2, <2>3, <2>4, <2>5, <2>6, <2>7 DEF Next
<1> QED
  BY <1>1, <1>2, PTL DEF Spec

\* What NoVisitorForgotten and StockCoversVisitors need to be inductive: the
\* visitor queue keeps its capacity, and the channels asked for and in stock do
\* not exceed the demand, even after the control channel has ended.
StockIsBounded == pool # "down" => reqs + asked + chans <= PoolSize + Waiting
QueueIsBounded == visitors <= VisitorCap

PoolInv ==
    /\ StockCoversVisitors
    /\ NoVisitorForgotten
    /\ StockIsBounded
    /\ QueueIsBounded

\* The initial requests are the pool's stock.
LEMMA PoolInvInit == Init => PoolInv
  BY PoolAssumption
  DEF Init, PoolInv, StockCoversVisitors, NoVisitorForgotten, StockIsBounded, QueueIsBounded,
      Waiting, Healthy

\* Every step of every task keeps the books.
LEMMA PoolInvStep == TypeOK /\ PoolInv /\ [Next]_vars => PoolInv'
<1> SUFFICES ASSUME TypeOK, PoolInv, [Next]_vars PROVE PoolInv'
  OBVIOUS
<1> USE PoolAssumption
    DEF TypeOK, PoolInv, StockCoversVisitors, NoVisitorForgotten, StockIsBounded,
        QueueIsBounded, Waiting, Healthy
<1>1. CASE SendCreate
  BY <1>1 DEF SendCreate, taskVars, countVars
<1>2. CASE ControlEnds
  BY <1>2 DEF ControlEnds, countVars
<1>3. CASE DropHandle
  BY <1>3 DEF DropHandle, stockVars, countVars
<1>4. CASE ChannelArrives
  BY <1>4 DEF ChannelArrives, taskVars, countVars
<1>5. CASE ChannelLost
  BY <1>5 DEF ChannelLost, taskVars
<1>6. CASE ChannelRefused
  BY <1>6 DEF ChannelRefused, taskVars, countVars
<1>7. CASE Bind \/ AcceptFails \/ HandOverFails \/ ListenerShutdown
  BY <1>7 DEF Bind, AcceptFails, HandOverFails, ListenerShutdown, stockVars, countVars
<1>8. CASE Accept
  BY <1>8 DEF Accept
<1>9. CASE HandOver
  BY <1>9 DEF HandOver, countVars
<1>10. CASE TakeVisitor
  BY <1>10 DEF TakeVisitor, countVars
<1>11. CASE Serve
  BY <1>11 DEF Serve
<1>12. CASE ChannelBroken
  BY <1>12 DEF ChannelBroken
<1>13. CASE PoolEnds
  BY <1>13 DEF PoolEnds, stockVars, countVars
<1>14. CASE UNCHANGED vars
  BY <1>14 DEF vars, taskVars, stockVars, countVars
<1> QED
  BY <1>1, <1>2, <1>3, <1>4, <1>5, <1>6, <1>7, <1>8, <1>9, <1>10, <1>11, <1>12, <1>13, <1>14
  DEF Next

\* The inductive invariant holds throughout.
THEOREM PoolInvariant == Spec => []PoolInv
  BY TypeCorrect, PoolInvInit, PoolInvStep, PTL DEF Spec

\* Requests, channels and losses balance with the stock and the visitors.
THEOREM BooksBalance == Spec => []StockCoversVisitors
<1>1. PoolInv => StockCoversVisitors
  BY DEF PoolInv
<1> QED
  BY <1>1, PoolInvariant, PTL

\* Every accepted visitor is served or waiting while the pool is up.
THEOREM VisitorsAreKept == Spec => []NoVisitorForgotten
<1>1. PoolInv => NoVisitorForgotten
  BY DEF PoolInv
<1> QED
  BY <1>1, PoolInvariant, PTL

\* The send of a data channel with the read lock held finds room: at most
\* PoolSize + VisitorCap + 2 channels are asked for or in stock.
THEOREM ChannelsFit == Spec => []ChannelSendNeverWaits
<1>1. TypeOK /\ PoolInv => ChannelSendNeverWaits
  BY PoolAssumption
  DEF TypeOK, PoolInv, StockIsBounded, QueueIsBounded, Waiting, ChannelSendNeverWaits
<1> QED
  BY <1>1, TypeCorrect, PoolInvariant, PTL
=============================================================================
