------------------------------- MODULE MCTrace ------------------------------
(* The trace programs for TLC. *)
EXTENDS TraceSession
=============================================================================
