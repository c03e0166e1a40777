------------------------------ MODULE MCDepot -------------------------------
(* An instance of Depot for TLC: two REDmod folders, one with two archives, *)
(* two legacy mods and one archive of the base game.                       *)

MCPaths ==
    {[set |-> "content", folder |-> 0, name |-> 1],
     [set |-> "redmod",  folder |-> 1, name |-> 1],
     [set |-> "redmod",  folder |-> 1, name |-> 2],
     [set |-> "redmod",  folder |-> 2, name |-> 1],
     [set |-> "mod",     folder |-> 0, name |-> 1],
     [set |-> "mod",     folder |-> 0, name |-> 2]}
MCIndexes == {<<1>>, <<2, 1>>}
=============================================================================
