---------------------------- MODULE MCWatchers ----------------------------
(* parallel_workers and sorting for TLC. *)
EXTENDS Watchers
=============================================================================
