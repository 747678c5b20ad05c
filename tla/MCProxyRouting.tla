-------------------------- MODULE MCProxyRouting ---------------------------
(* Instances of ProxyRouting for TLC. *)
EXTENDS ProxyRouting, TLC

\* Visitors and tunnels are interchangeable (used where no liveness is checked).
Symm == Permutations(Visitor) \cup Permutations(Tunnel)
=============================================================================
