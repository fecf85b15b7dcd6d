---------------------------- MODULE MCPageCache ----------------------------
(* page_cache for TLC. *)
EXTENDS PageCache
TwoRows == {"row1", "row2"}
=============================================================================
