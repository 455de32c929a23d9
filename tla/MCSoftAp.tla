------------------------------- MODULE MCSoftAp -------------------------------
(* A pool smaller than the number of stations, and fewer leases than       *)
(* addresses before the server kills the oldest.                           *)
EXTENDS SoftAp, DhcpWalk, TLC

Symmetry == Permutations(Macs)
=============================================================================
