--------------------------- MODULE MCRefreshQuiet ---------------------------
(* The instances of MCRefresh in a world that comes to rest. *)
EXTENDS MCRefresh, RefreshQuiet
=============================================================================
