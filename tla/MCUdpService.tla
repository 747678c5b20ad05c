---------------------------- MODULE MCUdpService ----------------------------
(* Instances of UdpService for TLC. *)
EXTENDS UdpService
=============================================================================
