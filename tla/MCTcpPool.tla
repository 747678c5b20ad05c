----------------------------- MODULE MCTcpPool -----------------------------
(* Instances of TcpPool for TLC. *)
EXTENDS TcpPool
=============================================================================
