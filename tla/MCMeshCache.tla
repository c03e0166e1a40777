---------------------------- MODULE MCMeshCache -----------------------------
(* Instances of MeshCache for TLC: the first archive holds every hash, the *)
(* others override all but one of them.                                    *)
EXTENDS MeshCache, TLC

CONSTANTS base, h1

MCCrc == [v \in Versions |-> v]
MCHolds == [p \in Paths |-> IF p = base THEN Hashes ELSE {h1}]
Symmetry == Permutations(Addrs) \cup Permutations(Readers)
=============================================================================
