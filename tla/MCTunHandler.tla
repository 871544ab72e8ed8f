----------------------------- MODULE MCTunHandler -----------------------------
(* TunHandler for TLC. *)
EXTENDS TunHandler, TLC

ThreadSymmetry == Permutations(Ops) \cup Permutations(Dialers)
=============================================================================
