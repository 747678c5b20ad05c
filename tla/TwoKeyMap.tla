----------------------------- MODULE TwoKeyMap -----------------------------
(***************************************************************************)
(* What MultiMap (rathole/src/multi_map.rs) promises: "a hash map that can *)
(* index an item by two keys".  A set of items in which neither key occurs *)
(* twice; an insert adds one item, a removal by either key takes one item, *)
(* dropping the map takes them all.                                        *)
(***************************************************************************)
CONSTANTS Key1, Key2, Val

VARIABLE items

TwoKeyInit == items = {}

\* insert returns the item when one of its keys is present.
Refuses(k1, k2) == \E x \in items : x[1] = k1 \/ x[2] = k2

With(k1, k2, v) == items \cup {<<k1, k2, v>>}

Put(k1, k2, v) ==
    /\ ~Refuses(k1, k2)
    /\ items' = With(k1, k2, v)

Take == \E x \in items : items' = items \ {x}

Clear == items' = {}

TwoKeyNext ==
    \/ \E k1 \in Key1, k2 \in Key2, v \in Val : Put(k1, k2, v)
    \/ Take
    \/ Clear

TwoKeySpec == TwoKeyInit /\ [][TwoKeyNext]_items
=============================================================================
