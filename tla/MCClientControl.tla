-------------------------- MODULE MCClientControl --------------------------
(* Instances of ClientControl for TLC. *)
EXTENDS ClientControl
=============================================================================
