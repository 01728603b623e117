------------------------------ MODULE MCVpnLog ------------------------------
(* Constant values for the run over VpnLog.tla.                            *)
EXTENDS VpnLog, TLC

CONSTANTS c1, c2, p1, p2

MCVpnLogSymmetry == Permutations(Clients) \cup Permutations(Addresses)
=============================================================================
