----------------------------- MODULE MCPathText -----------------------------
(* Texts of up to five characters, and lists of them.                      *)
EXTENDS Integers

SeqsOf(S, n) == UNION {[1..k -> S] : k \in 0..n}
Spellings == SeqsOf({"a", "A", "/", "\\", " ", "'"}, 5)
Depots == {{<<"a">>}, {<<"a", "\\", "a">>, <<"a">>}}
Plain == [exists |-> TRUE, size |-> 20, got |-> 20, kark |-> FALSE, decoded |-> 0, oodle |-> TRUE, produced |-> 0]
Lists ==
    {[op |-> "load", file |-> Plain, lines |-> <<t>>, depot |-> d] : t \in Spellings, d \in Depots}
    \cup {[op |-> "load", file |-> f, lines |-> <<<<"A">>, <<" ", "a">>>>, depot |-> {<<"a">>}] :
            f \in [exists : BOOLEAN, size : {8, 9, 20}, got : {9, 20}, kark : BOOLEAN, decoded : {0, 4, 5, 40, 41},
                   oodle : BOOLEAN, produced : {4, 40}]}

Entries == {<<"a">>, <<"a", "\\", "a">>, <<"a", "a">>, <<"b", "\\", "a">>, <<"a", "\\", "b", "\\", "a">>}
MCTexts ==
    [op : {"hash"}, text : Spellings]
    \cup [op : {"find"}, text : SeqsOf({"a", "b", "/", "\\", " ", "\t"}, 5), depot : {Entries}]
    \cup Lists
=============================================================================
