---------------------------- MODULE MCPathCache -----------------------------
(* Small instances of PathCache: three paths, one of them too long to be   *)
(* kept, two archives that share an import.                                *)
EXTENDS PathCache, TLC

MCPaths == 1..3
MCLong == {3}
MCHeld == {1, 3}

CONSTANTS a1, a2, f1, f2
MCImports == [a \in {a1, a2} |-> IF a = a1 THEN {1, 2} ELSE {2, 3}]

(* The two files are alike. *)
MCSymmetry == Permutations({f1, f2})

=============================================================================
