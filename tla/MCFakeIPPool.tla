----------------------------- MODULE MCFakeIPPool -----------------------------
(* FakeIPPool for TLC. *)
EXTENDS FakeIPPool, TLC

Symmetry == Permutations(Hosts) \cup Permutations(Lookups)
=============================================================================
