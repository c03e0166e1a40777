------------------------------ MODULE MCAudio -------------------------------
(* Files of up to three chunks, whole, cut off, or with a wrong size.      *)
EXTENDS Integers, Sequences, SequencesExt

Fmt(tag) == [id |-> "fmt", size |-> 16, fmt |-> [tag |-> tag, channels |-> 1, bits |-> 16]]
Data(n) == [id |-> "data", size |-> n]
Seek(n) == [id |-> "seek", size |-> n]
Parts == {Fmt("t1"), Fmt("tFFFF"), Data(4), Data(7), Data(0), Seek(3), Seek(8)}
Lists == UNION {[1..n -> Parts] : n \in 0..3}

Even(n) == n + (n % 2)
PlaceOf(chunks, k) == 20 + FoldLeft(LAMBDA at, c : at + 8 + Even(c.size), 0, SubSeq(chunks, 1, k - 1))
SizeOf(chunks) == 12 + FoldLeft(LAMBDA at, c : at + 8 + Even(c.size), 0, chunks)

Sound(op, chunks) ==
    [op |-> op, size |-> SizeOf(chunks), magic |-> "RIFF", form |-> "WAVE",
     declared |-> SizeOf(chunks) - 8, chunks |-> chunks, wrote |-> [k \in DOMAIN chunks |-> PlaceOf(chunks, k)],
     intact |-> \E k \in DOMAIN chunks : chunks[k].id = "fmt" /\ \E j \in DOMAIN chunks : chunks[j].id = "data"]

Whole == {Sound(op, c) : op \in {"walk", "info"}, c \in Lists}
Damaged ==
    LET some == {s \in Whole : Len(s.chunks) = 2} IN
    {[s EXCEPT !.intact = FALSE, !.size = n] : s \in some, n \in {0, 11, 12, 19, 20, 30, 40, 80}}
    \cup {[s EXCEPT !.intact = FALSE, !.declared = n] : s \in some, n \in {0, 4, 11, 12, 100}}
    \cup {[s EXCEPT !.intact = FALSE, !.chunks[k].size = n] : s \in some, k \in 1..2, n \in {1, 15, 50, 65535}}
Others ==
    {[Sound(op, <<>>) EXCEPT !.size = n, !.magic = m, !.form = f, !.intact = FALSE] :
        op \in {"probe", "walk", "info"}, n \in {0, 12}, m \in {"RIFF", "BKHD", "OggS", "CR2W"}, f \in {"WAVE", "AVI"}}

MCSounds == Whole \cup Damaged \cup Others
=============================================================================
