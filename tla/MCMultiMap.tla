---------------------------- MODULE MCMultiMap -----------------------------
(* Instances of MultiMap for TLC. *)
EXTENDS MultiMap
=============================================================================
