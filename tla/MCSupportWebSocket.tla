-------------------------- MODULE MCSupportWebSocket --------------------------
(* SupportWebSocket for TLC. *)
EXTENDS SupportWebSocket, TLC

Symmetry == Permutations(Connects)
=============================================================================
