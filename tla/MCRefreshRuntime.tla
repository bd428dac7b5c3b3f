-------------------------- MODULE MCRefreshRuntime --------------------------
(* Model-checking root of RefreshRuntime.                                  *)
EXTENDS RefreshRuntime
=============================================================================
