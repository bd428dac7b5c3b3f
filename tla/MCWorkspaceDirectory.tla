------------------------ MODULE MCWorkspaceDirectory ------------------------
(* Small instances of WorkspaceDirectory for TLC.                            *)
EXTENDS WorkspaceDirectory, TLC

CONSTANTS a1, a2, n1, c1, p1, p2, o1, o2, x1, x2, r1

DirectorySymmetry ==
    Permutations({a1, a2}) \cup Permutations({p1, p2}) \cup Permutations({o1, o2})
    \cup Permutations({x1, x2})

=============================================================================
