----------------------------- MODULE MCReadPart -----------------------------
(* Instances of ReadPart for TLC.                                          *)
EXTENDS ReadPart, TLC
=============================================================================
