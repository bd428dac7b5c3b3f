---------------------------- MODULE MCAuthState ----------------------------
(* Instances of AuthState for TLC.                                         *)
EXTENDS AuthState

\* A burst whose first probe is immediate and whose second one counts down.
MCSchedule == <<0, 2>>
=============================================================================
