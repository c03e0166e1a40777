------------------------------ MODULE Archive -------------------------------
(***************************************************************************)
(* Opening an archive (archive.cpp).  A file is its size and the numbers   *)
(* in its header and in its index header.                                  *)
(***************************************************************************)
EXTENDS Integers, FiniteSets

CONSTANTS
    Granularity,  \* of a file mapping's offset
    Word,         \* values of a 32-bit integer
    Archives      \* the files: [exists, size, magic, index_pos, ...]

VARIABLES input, output

vars == <<input, output>>

HeaderSize == 40
IndexHeaderSize == 28
EntryStride == 56
SegmentStride == 16
DependencyStride == 8

(* MapViewOfFile: an aligned window that lies inside the file; a length of *)
(* 0 means all of the rest.                                                *)
MapView(offset, length) ==
    LET end == IF length = 0 THEN input.size ELSE offset + length
    IN  {[from |-> o, to |-> end] : o \in {x \in {offset} : x % Granularity = 0 /\ end <= input.size}}

Need_Wraps(f) ==
    IndexHeaderSize + ((f.entries * EntryStride) % Word) + ((f.segments * SegmentStride) % Word)
    + ((f.dependencies * DependencyStride) % Word)
Need(f) ==
    IndexHeaderSize + f.entries * EntryStride + f.segments * SegmentStride
    + f.dependencies * DependencyStride

NoArchive == [entries |-> 0, segments |-> 0, entries_at |-> 0, segments_at |-> 0]
Answer(status) == [status |-> status, archive |-> NoArchive, view |-> {}]

(* Only the window of the index is mapped, rounded down to an offset that   *)
(* can be; the counts are kept only when their tables fit in it.            *)
Opened ==
    LET f == input
        aligned == f.index_pos - (f.index_pos % Granularity)
        view == MapView(aligned, (f.index_pos - aligned) + f.index_size)
        entries_at == f.index_pos + IndexHeaderSize
    IN  IF ~f.exists \/ MapView(0, HeaderSize) = {} THEN Answer("IO")
        ELSE IF ~f.magic \/ f.index_size < IndexHeaderSize THEN Answer("CORRUPT")
        ELSE IF view = {} THEN Answer("IO")
        ELSE IF Need(f) > f.index_size THEN [Answer("CORRUPT") EXCEPT !.view = view]
        ELSE [Answer("OK") EXCEPT !.view = view,
                 !.archive = [entries |-> f.entries, segments |-> f.segments, entries_at |-> entries_at,
                              segments_at |-> entries_at + f.entries * EntryStride]]

Init == input \in Archives /\ output = Answer("called")

ArchiveOpen ==
    /\ output.status = "called"
    /\ output' = Opened
    /\ UNCHANGED input

Next == ArchiveOpen

Spec == Init /\ [][Next]_vars

-----------------------------------------------------------------------------
(* Properties.                                                             *)

(* Every entry and every segment that the counts of an open archive admit  *)
(* lies inside the mapped window, whatever the file claims; an archive     *)
(* that failed to open admits none.                                        *)
IndexInside ==
    output.status # "called" =>
        LET a == output.archive IN
        /\ output.status # "OK" => a.entries = 0 /\ a.segments = 0
        /\ \A i \in 0..(a.entries - 1), v \in output.view :
              v.from <= a.entries_at + i * EntryStride /\ a.entries_at + (i + 1) * EntryStride <= v.to
        /\ \A i \in 0..(a.segments - 1), v \in output.view :
              v.from <= a.segments_at + i * SegmentStride /\ a.segments_at + (i + 1) * SegmentStride <= v.to
        /\ a.entries + a.segments > 0 => Cardinality(output.view) = 1
=============================================================================
