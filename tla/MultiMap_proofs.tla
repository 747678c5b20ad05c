-------------------------- MODULE MultiMap_proofs --------------------------
(***************************************************************************)
(* The unsafe code of MultiMap is sound for any sets of keys, values and   *)
(* addresses, and MultiMap implements TwoKeyMap.                           *)
(*                                                                         *)
(* The inductive invariant says of each box which of the two maps leads to *)
(* it at each point of each operation.                                     *)
(***************************************************************************)
EXTENDS MultiMap, TLAPS

Home1(a) == map1[heap[a][1]] = a
Home2(a) == map2[heap[a][2]] = a

\* What a map holds under a key is a box with that key.
Pointed ==
    /\ \A k \in Key1 : map1[k] # Null => heap[map1[k]] # NoItem /\ heap[map1[k]][1] = k
    /\ \A k \in Key2 : map2[k] # Null => heap[map2[k]] # NoItem /\ heap[map2[k]][2] = k

\* A box is found by both keys, but for the one an operation is working on
\* and, in the drop, the first map.
Homes ==
    \A a \in Addr : heap[a] # NoItem =>
        /\ Home1(a) <=> ~(op.name = "drop" \/ (op.at = a /\ op.name \in {"remove1", "free"}))
        /\ Home2(a) <=> ~(op.at = a /\ op.name \in {"insert", "remove2", "free"})

\* The box an operation works on is allocated, and an insert finds the place
\* of its second key free.
OpBox ==
    /\ op.at # Null => heap[op.at] # NoItem
    /\ op.name = "insert" => map2[heap[op.at][2]] = Null

MapInv == TypeOK /\ NoWildAccess /\ Pointed /\ Homes /\ OpBox
-----------------------------------------------------------------------------
\* An allocated box holds an item: heap's type, taken apart.
LEMMA BoxTypes ==
    ASSUME TypeOK, NEW a \in Addr, heap[a] # NoItem
    PROVE  heap[a] \in Key1 \X Key2 \X Val /\ heap[a][1] \in Key1 /\ heap[a][2] \in Key2 /\ heap[a][3] \in Val
  BY DEF TypeOK

\* Searching a map is safe: its pointers lead to allocated boxes.
LEMMA PointersAreAllocated ==
    ASSUME TypeOK, Pointed
    PROVE  Pointers(map1) \cup Pointers(map2) \subseteq Allocated
<1>1. Pointers(map1) \subseteq Allocated
  BY NullAssumption DEF TypeOK, Pointed, Pointers, Allocated
<1>2. Pointers(map2) \subseteq Allocated
  BY NullAssumption DEF TypeOK, Pointed, Pointers, Allocated
<1> QED BY <1>1, <1>2

\* An operation that has a box works on an address, the others on none.
LEMMA OpTypes ==
    ASSUME TypeOK
    PROVE  /\ op.name \in {"insert", "remove1", "remove2", "free"} => op.at \in Addr
           /\ op.name \in {"idle", "drop"} => op.at = Null
           /\ op.at = Null => op.name \in {"idle", "drop"}
           /\ op.name = "idle" => op = Idle
           /\ op.name \in {"idle", "insert", "remove1", "remove2", "free", "drop"}
  BY NullAssumption DEF TypeOK, Ops, Idle

\* The new map satisfies the invariant.
LEMMA InitInv == Init => MapInv
<1> SUFFICES ASSUME Init PROVE MapInv
  OBVIOUS
<1>1. TypeOK
  BY DEF Init, TypeOK, Ops
<1>2. NoWildAccess /\ Pointed /\ Homes
  BY DEF Init, NoWildAccess, Pointed, Homes
<1>3. OpBox
  BY DEF Init, OpBox, Idle
<1> QED BY <1>1, <1>2, <1>3 DEF MapInv

\* Every step of every operation preserves the invariant.
LEMMA StepInv == MapInv /\ [Next]_vars => MapInv'
<1> SUFFICES ASSUME MapInv, [Next]_vars PROVE MapInv'
  OBVIOUS
<1> USE NullAssumption, NoItemAssumption
<1>a. /\ TypeOK /\ NoWildAccess /\ Pointed /\ Homes /\ OpBox
  BY DEF MapInv
<1>b. Pointers(map1) \cup Pointers(map2) \subseteq Allocated
  BY <1>a, PointersAreAllocated
<1>t. /\ op.name \in {"insert", "remove1", "remove2", "free"} => op.at \in Addr
      /\ op.name \in {"idle", "drop"} => op.at = Null
      /\ op.at = Null => op.name \in {"idle", "drop"}
      /\ op.name = "idle" => op = Idle
  BY <1>a, OpTypes
<1>c. \A a \in Addr : heap[a] # NoItem => /\ heap[a] \in Key1 \X Key2 \X Val
                                          /\ heap[a][1] \in Key1 /\ heap[a][2] \in Key2
  BY <1>a, BoxTypes
<1>1. ASSUME NEW k1 \in Key1, NEW k2 \in Key2, NEW v \in Val, NEW a \in Addr, Insert(k1, k2, v, a)
      PROVE  MapInv'
  <2> USE <1>1 DEF Insert
  <2>0. <<k1, k2, v>> \in Key1 \X Key2 \X Val /\ <<k1, k2, v>> # NoItem
    OBVIOUS
  <2>1. TypeOK'
    BY <1>a, <2>0, <1>b DEF TypeOK, Ops, TouchBoth, NoWildAccess
  <2>2. NoWildAccess'
    BY <1>a, <1>b DEF NoWildAccess, TouchBoth
  <2>3. Pointed'
    BY <1>a, <2>0 DEF Pointed, TypeOK
  <2>4. Homes'
    BY <1>a, <1>c, <2>0 DEF Homes, Home1, Home2, TypeOK, Idle, Pointed
  <2>5. OpBox'
    BY <1>a, <2>0 DEF OpBox, TypeOK
  <2> QED BY <2>1, <2>2, <2>3, <2>4, <2>5 DEF MapInv
<1>2. CASE InsertSecond
  <2> USE <1>2 DEF InsertSecond
  <2>0. op.at \in Addr /\ op.at # Null /\ heap[op.at] # NoItem /\ heap[op.at][2] \in Key2
    BY <1>a, <1>t, <1>c DEF OpBox
  <2>1. TypeOK'
    BY <1>a, <2>0, <1>b DEF TypeOK, Ops, Touch
  <2>2. NoWildAccess'
    BY <1>a, <1>b DEF NoWildAccess, Touch
  <2>3. Pointed'
    BY <1>a, <2>0 DEF Pointed, TypeOK
  <2>4. Homes'
    BY <1>a, <1>c, <2>0 DEF Homes, Home1, Home2, TypeOK, Idle, OpBox
  <2>5. OpBox'
    BY <1>a DEF OpBox, Idle
  <2> QED BY <2>1, <2>2, <2>3, <2>4, <2>5 DEF MapInv
<1>3. ASSUME NEW k1 \in Key1, Remove1(k1) PROVE MapInv'
  <2> USE <1>3 DEF Remove1
  <2>0. map1[k1] \in Addr /\ heap[map1[k1]] # NoItem /\ heap[map1[k1]][1] = k1
    BY <1>a DEF TypeOK, Pointed
  <2>1. TypeOK'
    BY <1>a, <2>0, <1>b DEF TypeOK, Ops, Touch
  <2>2. NoWildAccess'
    BY <1>a, <1>b DEF NoWildAccess, Touch
  <2>3. Pointed'
    BY <1>a DEF Pointed, TypeOK
  <2>4. Homes'
    BY <1>a, <1>c, <2>0 DEF Homes, Home1, Home2, TypeOK, Idle
  <2>5. OpBox'
    BY <1>a, <2>0 DEF OpBox
  <2> QED BY <2>1, <2>2, <2>3, <2>4, <2>5 DEF MapInv
<1>4. ASSUME NEW k2 \in Key2, Remove2(k2) PROVE MapInv'
  <2> USE <1>4 DEF Remove2
  <2>0. map2[k2] \in Addr /\ heap[map2[k2]] # NoItem /\ heap[map2[k2]][2] = k2
    BY <1>a DEF TypeOK, Pointed
  <2>1. TypeOK'
    BY <1>a, <2>0, <1>b DEF TypeOK, Ops, Touch
  <2>2. NoWildAccess'
    BY <1>a, <1>b DEF NoWildAccess, Touch
  <2>3. Pointed'
    BY <1>a DEF Pointed, TypeOK
  <2>4. Homes'
    BY <1>a, <1>c, <2>0 DEF Homes, Home1, Home2, TypeOK, Idle
  <2>5. OpBox'
    BY <1>a, <2>0 DEF OpBox
  <2> QED BY <2>1, <2>2, <2>3, <2>4, <2>5 DEF MapInv
<1>5. CASE Remove1Second
  <2> USE <1>5 DEF Remove1Second
  <2>0. op.at \in Addr /\ op.at # Null /\ heap[op.at] # NoItem /\ heap[op.at][2] \in Key2
    BY <1>a, <1>t, <1>c DEF OpBox
  <2>x. op' = [name |-> "free", at |-> op.at]
    BY <1>a DEF TypeOK, Ops, Idle
  <2>1. TypeOK'
    BY <1>a, <2>0, <2>x, <1>b DEF TypeOK, Ops, Touch
  <2>2. NoWildAccess'
    BY <1>a, <1>b DEF NoWildAccess, Touch
  <2>3. Pointed'
    BY <1>a, <2>0 DEF Pointed, TypeOK
  <2>4. Homes'
    BY <1>a, <1>c, <2>0, <2>x DEF Homes, Home1, Home2, TypeOK
  <2>5. OpBox'
    BY <1>a, <2>0, <2>x DEF OpBox
  <2> QED BY <2>1, <2>2, <2>3, <2>4, <2>5 DEF MapInv
<1>6. CASE Remove2Second
  <2> USE <1>6 DEF Remove2Second
  <2>0. op.at \in Addr /\ op.at # Null /\ heap[op.at] # NoItem /\ heap[op.at][1] \in Key1
    BY <1>a, <1>t, <1>c DEF OpBox
  <2>x. op' = [name |-> "free", at |-> op.at]
    BY <1>a DEF TypeOK, Ops, Idle
  <2>1. TypeOK'
    BY <1>a, <2>0, <2>x, <1>b DEF TypeOK, Ops, Touch
  <2>2. NoWildAccess'
    BY <1>a, <1>b DEF NoWildAccess, Touch
  <2>3. Pointed'
    BY <1>a, <2>0 DEF Pointed, TypeOK
  <2>4. Homes'
    BY <1>a, <1>c, <2>0, <2>x DEF Homes, Home1, Home2, TypeOK
  <2>5. OpBox'
    BY <1>a, <2>0, <2>x DEF OpBox
  <2> QED BY <2>1, <2>2, <2>3, <2>4, <2>5 DEF MapInv
<1>7. CASE FreeBox
  <2> USE <1>7 DEF FreeBox
  <2>0. op.at \in Addr /\ op.at # Null /\ heap[op.at] # NoItem
    BY <1>a, <1>t DEF OpBox
  <2>z. /\ \A k \in Key1 : map1[k] # op.at
        /\ \A k \in Key2 : map2[k] # op.at
    BY <1>a, <2>0 DEF Pointed, Homes, Home1, Home2
  <2>1. TypeOK'
    BY <1>a, <2>0 DEF TypeOK, Ops
  <2>2. NoWildAccess'
    BY <1>a, <2>0 DEF NoWildAccess, Allocated
  <2>3. Pointed'
    BY <1>a, <2>0, <2>z DEF Pointed, TypeOK
  <2>4. Homes'
    BY <1>a, <1>c, <2>0 DEF Homes, Home1, Home2, TypeOK, Idle
  <2>5. OpBox'
    BY DEF OpBox, Idle
  <2> QED BY <2>1, <2>2, <2>3, <2>4, <2>5 DEF MapInv
<1>8. CASE Drop
  <2> USE <1>8 DEF Drop
  <2>1. TypeOK'
    BY <1>a DEF TypeOK, Ops
  <2>2. NoWildAccess'
    BY <1>a DEF NoWildAccess
  <2>3. Pointed'
    BY <1>a DEF Pointed, TypeOK
  <2>4. Homes'
    BY <1>a, <1>c DEF Homes, Home1, Home2, TypeOK, Idle
  <2>5. OpBox'
    BY DEF OpBox
  <2> QED BY <2>1, <2>2, <2>3, <2>4, <2>5 DEF MapInv
<1>9. CASE DropEnd
  <2> USE <1>9 DEF DropEnd
  <2>0. \A a \in Addr : heap[a] = NoItem
    BY <1>a, <1>c, <1>t DEF Homes, Home2
  <2>1. TypeOK'
    BY <1>a DEF TypeOK, Ops
  <2>2. NoWildAccess'
    BY <1>a DEF NoWildAccess
  <2>3. Pointed'
    BY <1>a DEF Pointed
  <2>4. Homes'
    BY <2>0 DEF Homes
  <2>5. OpBox'
    BY DEF OpBox, Idle
  <2> QED BY <2>1, <2>2, <2>3, <2>4, <2>5 DEF MapInv
<1>10. ASSUME NEW k2 \in Key2, DropDrain(k2) PROVE MapInv'
  <2> USE <1>10 DEF DropDrain
  <2>0. map2[k2] \in Addr /\ heap[map2[k2]] # NoItem /\ heap[map2[k2]][2] = k2
    BY <1>a DEF TypeOK, Pointed
  <2>z. \A k \in Key1 : map1[k] = Null
    BY <1>a DEF Pointed, Homes, Home1, TypeOK
  <2>1. TypeOK'
    BY <1>a, <2>0 DEF TypeOK
  <2>2. NoWildAccess'
    BY <1>a, <2>0 DEF NoWildAccess, Allocated
  <2>3. Pointed'
    BY <1>a, <2>0, <2>z DEF Pointed, TypeOK
  <2>4. Homes'
    BY <1>a, <1>c, <1>t, <2>0, <2>z DEF Homes, Home1, Home2, TypeOK
  <2>5. OpBox'
    BY <1>t DEF OpBox
  <2> QED BY <2>1, <2>2, <2>3, <2>4, <2>5 DEF MapInv
<1>11. CASE UNCHANGED vars
  BY <1>a, <1>11 DEF MapInv, vars, TypeOK, NoWildAccess, Pointed, Homes, Home1, Home2, OpBox
<1> QED
  BY <1>1, <1>2, <1>3, <1>4, <1>5, <1>6, <1>7, <1>8, <1>9, <1>10, <1>11 DEF Next
-----------------------------------------------------------------------------
\* MapInv holds in every state of MultiMap, in the middle of operations too.
THEOREM MapInvariant == Spec => []MapInv
  BY InitInv, StepInv, PTL DEF Spec

\* The two maps hold addresses or nothing, and an operation under way has the
\* box it works on.
THEOREM TypeCorrect == Spec => []TypeOK
<1>1. MapInv => TypeOK
  BY DEF MapInv
<1> QED BY <1>1, MapInvariant, PTL

\* The unsafe blocks of insert, remove1, remove2 and drop never follow a
\* dangling pointer and never free a box twice.
THEOREM UnsafeIsSound == Spec => []NoWildAccess
<1>1. MapInv => NoWildAccess
  BY DEF MapInv
<1> QED BY <1>1, MapInvariant, PTL

\* Between operations every box is found by both of its keys, and nothing is
\* leaked.
THEOREM MapsAgree == Spec => []IndexesAgree
<1>1. MapInv => IndexesAgree
  <2> SUFFICES ASSUME MapInv, op = Idle
               PROVE  /\ \A a \in Allocated : /\ map1[heap[a][1]] = a /\ Get1(heap[a][1]) = heap[a][3]
                                              /\ map2[heap[a][2]] = a /\ Get2(heap[a][2]) = heap[a][3]
                      /\ \A k1 \in Key1 : map1[k1] # Null => map1[k1] \in Allocated /\ heap[map1[k1]][1] = k1
                      /\ \A k2 \in Key2 : map2[k2] # Null => map2[k2] \in Allocated /\ heap[map2[k2]][2] = k2
    BY DEF IndexesAgree
  <2>1. ASSUME NEW a \in Allocated
        PROVE  map1[heap[a][1]] = a /\ map2[heap[a][2]] = a /\ a # Null
    BY NullAssumption DEF MapInv, Homes, Home1, Home2, Idle, Allocated
  <2>2. \A k1 \in Key1 : map1[k1] # Null => map1[k1] \in Allocated /\ heap[map1[k1]][1] = k1
    BY DEF MapInv, Pointed, TypeOK, Allocated
  <2>3. \A k2 \in Key2 : map2[k2] # Null => map2[k2] \in Allocated /\ heap[map2[k2]][2] = k2
    BY DEF MapInv, Pointed, TypeOK, Allocated
  <2> QED BY <2>1, <2>2, <2>3 DEF Get1, Get2
<1> QED BY <1>1, MapInvariant, PTL
-----------------------------------------------------------------------------
\* The boxes no operation is working on; in a drop, none.
Settled == IF op.name = "drop" THEN {} ELSE {a \in Addr : heap[a] # NoItem /\ a # op.at}

\* The items of the abstract map are those of the settled boxes.
LEMMA ItemsAreSettled == MapInv => Items = {heap[a] : a \in Settled}
<1> SUFFICES ASSUME MapInv PROVE Pointers(map1) \cap Pointers(map2) = Settled
  BY DEF Items
<1>t. /\ TypeOK /\ Pointed /\ Homes /\ OpBox
  BY DEF MapInv
<1>o. /\ op.name \in {"insert", "remove1", "remove2", "free"} => op.at \in Addr
      /\ op.name \in {"idle", "drop"} => op.at = Null
      /\ op.name \in {"idle", "insert", "remove1", "remove2", "free", "drop"}
  BY <1>t, OpTypes
<1>1. ASSUME NEW a \in Pointers(map1), a \in Pointers(map2) PROVE a \in Settled
  <2>1. a \in Addr /\ heap[a] # NoItem /\ Home1(a) /\ Home2(a)
    BY <1>1, <1>t, NullAssumption DEF Pointers, Pointed, Home1, Home2, TypeOK
  <2> QED BY <2>1, <1>t, <1>o, NullAssumption DEF Homes, Settled
<1>2. ASSUME NEW a \in Settled PROVE a \in Pointers(map1) \cap Pointers(map2)
  <2>1. a \in Addr /\ heap[a] # NoItem /\ a # op.at /\ op.name # "drop"
    BY DEF Settled
  <2>2. heap[a][1] \in Key1 /\ heap[a][2] \in Key2
    BY <2>1, <1>t, BoxTypes
  <2>3. Home1(a) /\ Home2(a)
    BY <2>1, <1>t DEF Homes
  <2> QED BY <2>1, <2>2, <2>3, <1>t DEF Pointers, Home1, Home2, TypeOK
<1> QED BY <1>1, <1>2

\* Every step of MultiMap is a step of TwoKeyMap on the items, or none.
LEMMA StepRefines == MapInv /\ MapInv' /\ [Next]_vars => [Abstract!TwoKeyNext]_Items
<1> SUFFICES ASSUME MapInv, MapInv', [Next]_vars, Items' # Items PROVE Abstract!TwoKeyNext
  OBVIOUS
<1> USE NullAssumption, NoItemAssumption
<1>a. TypeOK /\ Pointed /\ Homes /\ OpBox
  BY DEF MapInv
<1>s. Items = {heap[a] : a \in Settled} /\ Items' = {heap'[a] : a \in Settled'}
  <2>1. Items = {heap[a] : a \in Settled}
    BY ItemsAreSettled
  <2>2. (MapInv => Items = {heap[a] : a \in Settled})'
    BY ItemsAreSettled, PTL
  <2> QED BY <2>1, <2>2
<1>t. /\ op.name \in {"insert", "remove1", "remove2", "free"} => op.at \in Addr /\ op.at # Null
      /\ op.name \in {"idle", "drop"} => op.at = Null
  BY <1>a, OpTypes
<1>c. \A a \in Addr : heap[a] # NoItem => /\ heap[a] \in Key1 \X Key2 \X Val
                                          /\ heap[a][1] \in Key1 /\ heap[a][2] \in Key2 /\ heap[a][3] \in Val
  BY <1>a, BoxTypes
<1>1. ASSUME NEW k1 \in Key1, NEW k2 \in Key2, NEW v \in Val, NEW a \in Addr, Insert(k1, k2, v, a)
      PROVE  FALSE
  <2>1. Settled' = Settled
    BY <1>1, <1>a DEF Insert, Settled, Idle, TypeOK
  <2>2. \A b \in Settled : heap'[b] = heap[b]
    BY <1>1, <1>a DEF Insert, Settled, TypeOK
  <2> QED BY <2>1, <2>2, <1>s
<1>2. ASSUME InsertSecond PROVE Abstract!TwoKeyNext
  <2> DEFINE x == heap[op.at]
  <2>1. op.at \in Addr /\ op.at # Null /\ heap[op.at] # NoItem
    BY <1>2, <1>a, <1>t DEF InsertSecond, OpBox
  <2>2. x[1] \in Key1 /\ x[2] \in Key2 /\ x[3] \in Val /\ x = <<x[1], x[2], x[3]>>
    BY <2>1, <1>c
  <2>3. Settled' = Settled \cup {op.at} /\ heap' = heap
    BY <1>2, <2>1 DEF InsertSecond, Settled, Idle
  <2>4. Items' = Items \cup {x}
    BY <2>3, <1>s
  <2>5. ASSUME NEW y \in Items, y[1] = x[1] \/ y[2] = x[2] PROVE FALSE
    <3>1. PICK b \in Settled : y = heap[b]
      BY <1>s, <2>5
    <3>2. b \in Addr /\ heap[b] # NoItem /\ b # op.at
      BY <3>1, <1>2 DEF Settled, InsertSecond
    <3>3. Home1(b) /\ Home2(b) /\ Home1(op.at) /\ map2[x[2]] = Null
      BY <3>2, <2>1, <1>2, <1>a DEF InsertSecond, Homes, OpBox
    <3> QED BY <3>1, <3>2, <3>3, <2>5 DEF Home1, Home2
  <2>6. Abstract!Put(x[1], x[2], x[3])
    BY <2>2, <2>4, <2>5 DEF Abstract!Put, Abstract!Refuses, Abstract!With
  <2> QED BY <2>2, <2>6 DEF Abstract!TwoKeyNext
<1>3. ASSUME NEW b \in Settled, heap' = heap, Settled' = Settled \ {b}, op = Idle
      PROVE  Abstract!TwoKeyNext
  <2>1. \A d \in Settled : heap[d] = heap[b] => d = b
    BY <1>3, <1>a DEF Settled, Homes, Home1, Idle
  <2>2. Items' = Items \ {heap[b]} /\ heap[b] \in Items
    BY <1>3, <1>s, <2>1
  <2> QED BY <2>2 DEF Abstract!TwoKeyNext, Abstract!Take
<1>4. ASSUME NEW k1 \in Key1, Remove1(k1) PROVE Abstract!TwoKeyNext
  <2>1. map1[k1] \in Addr /\ heap[map1[k1]] # NoItem
    BY <1>4, <1>a DEF Remove1, TypeOK, Pointed
  <2>2. map1[k1] \in Settled /\ Settled' = Settled \ {map1[k1]}
    BY <1>4, <2>1 DEF Remove1, Settled, Idle
  <2> QED BY <1>3, <1>4, <2>2 DEF Remove1
<1>5. ASSUME NEW k2 \in Key2, Remove2(k2) PROVE Abstract!TwoKeyNext
  <2>1. map2[k2] \in Addr /\ heap[map2[k2]] # NoItem
    BY <1>5, <1>a DEF Remove2, TypeOK, Pointed
  <2>2. map2[k2] \in Settled /\ Settled' = Settled \ {map2[k2]}
    BY <1>5, <2>1 DEF Remove2, Settled, Idle
  <2> QED BY <1>3, <1>5, <2>2 DEF Remove2
<1>6. ASSUME Remove1Second \/ Remove2Second PROVE FALSE
  <2>1. heap' = heap /\ op'.at = op.at /\ op'.name # "drop" /\ op.name # "drop"
    BY <1>6, <1>a DEF Remove1Second, Remove2Second, TypeOK, Ops, Idle
  <2> QED BY <2>1, <1>s DEF Settled
<1>7. ASSUME FreeBox PROVE FALSE
  <2>1. Settled' = Settled
    BY <1>7, <1>a, <1>t DEF FreeBox, Settled, Idle, TypeOK
  <2>2. \A b \in Settled : heap'[b] = heap[b]
    BY <1>7, <1>a DEF FreeBox, Settled, TypeOK
  <2> QED BY <2>1, <2>2, <1>s
<1>8. ASSUME Drop PROVE Abstract!TwoKeyNext
  <2>1. Items' = {}
    BY <1>8, <1>s DEF Drop, Settled
  <2> QED BY <2>1 DEF Abstract!TwoKeyNext, Abstract!Clear
<1>9. ASSUME DropEnd PROVE FALSE
  <2>0. \A a \in Addr : heap[a] = NoItem
    BY <1>9, <1>a, <1>c, <1>t DEF DropEnd, Homes, Home2
  <2>1. Settled = {} /\ Settled' = {}
    BY <1>9, <2>0 DEF DropEnd, Settled
  <2> QED BY <2>1, <1>s
<1>10. ASSUME NEW k2 \in Key2, DropDrain(k2) PROVE FALSE
  <2>1. Settled = {} /\ Settled' = {}
    BY <1>10 DEF DropDrain, Settled
  <2> QED BY <2>1, <1>s
<1>11. ASSUME UNCHANGED vars PROVE FALSE
  BY <1>11 DEF vars, Items, Pointers
<1> QED
  BY <1>1, <1>2, <1>4, <1>5, <1>6, <1>7, <1>8, <1>9, <1>10, <1>11 DEF Next

\* MultiMap implements the map with two unique keys: an insert takes effect
\* when its second index is written, a removal when its first one is cleared.
THEOREM Implements == Spec => ImplementsTwoKeyMap
<1>1. Init => Abstract!TwoKeyInit
  <2> SUFFICES ASSUME Init PROVE Pointers(map1) = {}
    BY DEF Items, Abstract!TwoKeyInit
  <2> QED BY NullAssumption DEF Init, Pointers
<1> QED BY <1>1, StepRefines, MapInvariant, PTL DEF Spec, ImplementsTwoKeyMap, Abstract!TwoKeySpec
=============================================================================
