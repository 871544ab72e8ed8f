----------------------------- MODULE MCCoreBridge -----------------------------
(* CoreBridge for TLC. *)
EXTENDS CoreBridge
=============================================================================
