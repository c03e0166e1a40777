------------------------------ MODULE MCWorker ------------------------------
(* Instances of Worker for TLC.  Host threads and depots are               *)
(* interchangeable, and so are worker identities.                          *)
EXTENDS WorkerInv, TLC

Symmetry == Permutations(Hosts) \cup Permutations(Depots) \cup Permutations(Workers)
=============================================================================
