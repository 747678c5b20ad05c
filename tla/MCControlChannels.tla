------------------------- MODULE MCControlChannels -------------------------
(* Instances of ControlChannels for TLC. *)
EXTENDS ControlChannels
=============================================================================
