------------------------- MODULE MCServicePolling -------------------------
(* services and backup for TLC: more lines than the buffer holds. *)
EXTENDS ServicePolling

ThreeLines == <<"reading", "writing", "closing">>
TwoLines == <<"opening", "restoring">>
=============================================================================
