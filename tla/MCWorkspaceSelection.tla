------------------------ MODULE MCWorkspaceSelection ------------------------
(* Small instances of WorkspaceSelection for TLC: two windows, one or two    *)
(* clusters and two commands in flight.                                      *)
EXTENDS WorkspaceSelection, TLC

CONSTANTS w1, w2, c1, c2, t1, t2

TwoTaskSymmetry ==
    Permutations({w1, w2}) \cup Permutations({c1, c2}) \cup Permutations({t1, t2})

=============================================================================
