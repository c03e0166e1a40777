------------------------------ MODULE MCLocks -------------------------------
(* What a sink may meet: two host threads making any calls.                *)
EXTENDS Locks
=============================================================================
