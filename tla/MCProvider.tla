------------------------------ MODULE MCProvider ------------------------------
(* Provider for TLC. *)
EXTENDS Provider
=============================================================================
