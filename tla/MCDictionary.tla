---------------------------- MODULE MCDictionary ----------------------------
(* Seven paths over blocks of six bytes: two pairs share a hash, one path  *)
(* needs a block of its own, one is past the length limit.                 *)
EXTENDS Dictionary

CONSTANTS p1, p2, p3, p4, p5, p6, p7
MCPaths == {p1, p2, p3, p4, p5, p6, p7}
MCHash == (p1 :> 3) @@ (p2 :> 1) @@ (p3 :> 3) @@ (p4 :> 2) @@ (p5 :> 4) @@ (p6 :> 5) @@ (p7 :> 1)
MCLength == (p1 :> 2) @@ (p2 :> 2) @@ (p3 :> 1) @@ (p4 :> 6) @@ (p5 :> 9) @@ (p6 :> 5) @@ (p7 :> 4)
MCHeld == {1, 3, 5}

=============================================================================
