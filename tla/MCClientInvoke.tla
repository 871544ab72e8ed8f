---------------------------- MODULE MCClientInvoke ----------------------------
(* ClientInvoke, with the launcher below it, for TLC. *)
EXTENDS ClientInvoke, TLC

Symmetry == Permutations(Calls) \cup Permutations(Cores) \cup Permutations(Invokes)
=============================================================================
