------------------------------ MODULE MultiMap ------------------------------
(***************************************************************************)
(* MultiMap of rathole/src/multi_map.rs: one boxed item (k1, k2, v) per    *)
(* entry, two hash maps that hold raw pointers to it, and hash map keys    *)
(* that are raw pointers into the box as well.  The safety of the unsafe   *)
(* blocks rests on the order of the steps inside each operation, so they   *)
(* are modelled one by one; `op` is the operation under way.  The methods  *)
(* take &mut self, so operations do not overlap.                           *)
(*                                                                         *)
(* A hash map that is searched compares the key with keys it stores, and   *)
(* so dereferences them: `wild` becomes TRUE when a step may touch memory  *)
(* that is not allocated, or frees a box twice.                            *)
(***************************************************************************)
EXTENDS Naturals, FiniteSets

CONSTANTS Key1, Key2, Val,
    Addr,       \* addresses of boxes
    Null,       \* no address
    NoItem      \* the contents of an address that is not allocated

ASSUME NullAssumption == Null \notin Addr
ASSUME NoItemAssumption == NoItem \notin Key1 \X Key2 \X Val

VARIABLES heap, map1, map2, op, wild

vars == <<heap, map1, map2, op, wild>>

Idle == [name |-> "idle", at |-> Null]
Ops == {Idle, [name |-> "drop", at |-> Null]}
         \cup [name: {"insert", "remove1", "remove2", "free"}, at: Addr]
Allocated == {a \in Addr : heap[a] # NoItem}
Pointers(m) == {a \in Addr : \E k \in DOMAIN m : m[k] = a}

TypeOK ==
    /\ heap \in [Addr -> (Key1 \X Key2 \X Val) \cup {NoItem}]
    /\ map1 \in [Key1 -> Addr \cup {Null}]
    /\ map2 \in [Key2 -> Addr \cup {Null}]
    /\ op \in Ops
    /\ wild \in BOOLEAN

\* MultiMap::new
Init ==
    /\ heap = [a \in Addr |-> NoItem]
    /\ map1 = [k \in Key1 |-> Null]
    /\ map2 = [k \in Key2 |-> Null]
    /\ op = Idle
    /\ wild = FALSE

\* Searching a map dereferences the keys stored in it.
Touch(m) == wild' = (wild \/ ~(Pointers(m) \subseteq Allocated))
TouchBoth == wild' = (wild \/ ~(Pointers(map1) \cup Pointers(map2) \subseteq Allocated))

\* Mutant: only the first key is checked.
Insert_OneCheck(k1, k2, v, a) ==
    /\ op = Idle
    /\ map1[k1] = Null
    /\ heap[a] = NoItem
    /\ heap' = [heap EXCEPT ![a] = <<k1, k2, v>>]
    /\ map1' = [map1 EXCEPT ![k1] = a]
    /\ op' = [name |-> "insert", at |-> a]
    /\ TouchBoth
    /\ UNCHANGED map2

\* insert refuses an item when either key is present; else it boxes the item
\* and indexes it by the first key ...
Insert(k1, k2, v, a) ==
    /\ op = Idle
    /\ map1[k1] = Null /\ map2[k2] = Null
    /\ heap[a] = NoItem
    /\ heap' = [heap EXCEPT ![a] = <<k1, k2, v>>]
    /\ map1' = [map1 EXCEPT ![k1] = a]
    /\ op' = [name |-> "insert", at |-> a]
    /\ TouchBoth
    /\ UNCHANGED map2

\* ... and then by the second.
InsertSecond ==
    /\ op.name = "insert"
    /\ map2' = [map2 EXCEPT ![heap[op.at][2]] = op.at]
    /\ op' = Idle
    /\ Touch(map2)
    /\ UNCHANGED <<heap, map1>>

\* Mutant: the box is freed before the other map is updated.
Remove1_FreesFirst(k1) ==
    /\ op = Idle
    /\ map1[k1] # Null
    /\ map1' = [map1 EXCEPT ![k1] = Null]
    /\ op' = [name |-> "free", at |-> map1[k1]]
    /\ Touch(map1)
    /\ UNCHANGED <<heap, map2>>

Remove1(k1) ==
    /\ op = Idle
    /\ map1[k1] # Null
    /\ map1' = [map1 EXCEPT ![k1] = Null]
    /\ op' = [name |-> "remove1", at |-> map1[k1]]
    /\ Touch(map1)
    /\ UNCHANGED <<heap, map2>>

\* Mutant: the other map keeps its pointer.
Remove1Second_Forgets ==
    /\ op.name = "remove1"
    /\ UNCHANGED map2
    /\ op' = [op EXCEPT !.name = "free"]
    /\ Touch(map2)
    /\ UNCHANGED <<heap, map1>>

\* The item, owned again, still holds the key of the other map.
Remove1Second ==
    /\ op.name = "remove1"
    /\ map2' = [map2 EXCEPT ![heap[op.at][2]] = Null]
    /\ op' = [op EXCEPT !.name = "free"]
    /\ Touch(map2)
    /\ UNCHANGED <<heap, map1>>

Remove2(k2) ==
    /\ op = Idle
    /\ map2[k2] # Null
    /\ map2' = [map2 EXCEPT ![k2] = Null]
    /\ op' = [name |-> "remove2", at |-> map2[k2]]
    /\ Touch(map2)
    /\ UNCHANGED <<heap, map1>>

Remove2Second ==
    /\ op.name = "remove2"
    /\ map1' = [map1 EXCEPT ![heap[op.at][1]] = Null]
    /\ op' = [op EXCEPT !.name = "free"]
    /\ Touch(map1)
    /\ UNCHANGED <<heap, map2>>

\* The value is moved out and the box is freed at the end of the scope.
FreeBox ==
    /\ op.name = "free"
    /\ wild' = (wild \/ op.at \notin Allocated)
    /\ heap' = [heap EXCEPT ![op.at] = NoItem]
    /\ op' = Idle
    /\ UNCHANGED <<map1, map2>>

\* Drop: the first map is cleared, the second one drained, each of its boxes
\* freed.  (A new map takes the place of the dropped one, as in Server::run.)
Drop ==
    /\ op = Idle
    /\ map1' = [k \in Key1 |-> Null]
    /\ op' = [name |-> "drop", at |-> Null]
    /\ UNCHANGED <<heap, map2, wild>>

DropDrain(k2) ==
    /\ op.name = "drop"
    /\ map2[k2] # Null
    /\ wild' = (wild \/ map2[k2] \notin Allocated)
    /\ heap' = [heap EXCEPT ![map2[k2]] = NoItem]
    /\ map2' = [map2 EXCEPT ![k2] = Null]
    /\ UNCHANGED <<map1, op>>

DropEnd ==
    /\ op.name = "drop"
    /\ \A k2 \in Key2 : map2[k2] = Null
    /\ op' = Idle
    /\ UNCHANGED <<heap, map1, map2, wild>>

Next ==
    \/ \E k1 \in Key1, k2 \in Key2, v \in Val, a \in Addr : Insert(k1, k2, v, a)
    \/ InsertSecond
    \/ \E k1 \in Key1 : Remove1(k1)
    \/ \E k2 \in Key2 : Remove2(k2)
    \/ Remove1Second \/ Remove2Second \/ FreeBox
    \/ Drop \/ DropEnd
    \/ \E k2 \in Key2 : DropDrain(k2)

Spec == Init /\ [][Next]_vars
-----------------------------------------------------------------------------
\* get1 and get2: the value behind the pointer, NoItem for None.
Get1(k1) == IF map1[k1] = Null THEN NoItem ELSE heap[map1[k1]][3]
Get2(k2) == IF map2[k2] = Null THEN NoItem ELSE heap[map2[k2]][3]

\* No step of any operation follows a dangling pointer or frees a box twice:
\* what the unsafe blocks of MultiMap take for granted.
NoWildAccess == ~wild

\* Between operations every box is reachable by both of its keys, and by
\* nothing else: no box is leaked, and get1(a) and get2(b) return the item
\* inserted with key (a, b), as the documentation says.
IndexesAgree ==
    op = Idle =>
        /\ \A a \in Allocated : /\ map1[heap[a][1]] = a /\ Get1(heap[a][1]) = heap[a][3]
                                /\ map2[heap[a][2]] = a /\ Get2(heap[a][2]) = heap[a][3]
        /\ \A k1 \in Key1 : map1[k1] # Null => map1[k1] \in Allocated /\ heap[map1[k1]][1] = k1
        /\ \A k2 \in Key2 : map2[k2] # Null => map2[k2] \in Allocated /\ heap[map2[k2]][2] = k2

\* The items indexed by both keys.
Items == {heap[a] : a \in Pointers(map1) \cap Pointers(map2)}

Abstract == INSTANCE TwoKeyMap WITH items <- Items

\* MultiMap implements the two-key map.
ImplementsTwoKeyMap == Abstract!TwoKeySpec
=============================================================================
