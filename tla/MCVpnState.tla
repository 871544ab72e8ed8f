------------------------------ MODULE MCVpnState ------------------------------
(* VpnState for TLC: the module has no constants. *)
EXTENDS VpnState
=============================================================================
