---------------------------- MODULE MCFakeIPMemory ----------------------------
(* FakeIPMemory for TLC. *)
EXTENDS FakeIPMemory, TLC

Symmetry == Permutations(Hosts) \cup Permutations(Queries)
=============================================================================
