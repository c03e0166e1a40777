------------------------------ MODULE ReadPart ------------------------------
(***************************************************************************)
(* Reading a part of a file: resolve_part and read_part (archive.cpp) and  *)
(* the exports built on them: redfs_part_size, redfs_read_into,            *)
(* redfs_read, redfs_open and redfs_resource_buffer (api.cpp).             *)
(*                                                                         *)
(* The entry and segment tables are not copied: every accessor reads the   *)
(* mapping of a file opened FILE_SHARE_WRITE, so they can change between   *)
(* any two reads of them.  The counts taken when the archive was opened    *)
(* cannot.  Offsets are in bytes of the destination.                       *)
(***************************************************************************)
EXTENDS Naturals

CONSTANTS
    Top,          \* 2^32: the values of a uint32_t are 0 .. Top - 1
    SegmentCount, \* segment_count_, checked against the index by Archive::open
    MaxSize       \* bound on the decoded size of a segment

ASSUME ReadPartAssumption ==
    /\ Top \in Nat /\ Top > 2
    /\ SegmentCount \in 0..(Top - 1)
    /\ MaxSize \in Nat

U32 == 0..(Top - 1)
PART_MAIN == Top - 1
PART_ALL == Top - 2
Table == 0..(SegmentCount - 1)
Sizes == 0..MaxSize

VARIABLES
    \* the mapped index: the file's entry and the segments' sizes
    segStart, segEnd, size,
    \* the call in progress
    pc, kind, part,
    start, end,        \* the entry's range, as read from the index
    first, last,       \* the PartRange resolved from it
    i, total,          \* the loops of read_part
    room,              \* bytes at dst; 0 while there is no dst
    at,                \* bytes written to dst
    blob,              \* is a blob allocated?
    status,
    \* the resource handle of redfs_open
    opened, bufferCount,
    \* history
    stable             \* has the index kept still since the call began?

index == <<segStart, segEnd, size>>
range == <<start, end, first, last>>
handle == <<opened, bufferCount>>
vars == <<index, pc, kind, part, range, i, total, room, at, blob, status, handle, stable>>

Kinds == {"part_size", "read_into", "read", "open", "buffer"}
Statuses == {"OK", "NOT_FOUND", "CORRUPT", "RANGE", "OOM", "OODLE"}

(* Every field of the index is a uint32_t and no local of read_part ever   *)
(* wraps.                                                                  *)
TypeOK ==
    /\ segStart \in U32 /\ segEnd \in U32
    /\ size \in [Table -> Sizes]
    /\ pc \in {"Out", "Start", "End", "Sum", "Alloc", "Start2", "End2", "Sum2",
               "Copy", "Done"}
    /\ kind \in Kinds
    /\ part \in U32
    /\ start \in U32 /\ end \in U32 /\ first \in U32 /\ last \in U32
    /\ i \in U32
    /\ total \in Nat /\ room \in Nat /\ at \in Nat
    /\ blob \in BOOLEAN
    /\ status \in Statuses
    /\ opened \in BOOLEAN /\ bufferCount \in U32
    /\ stable \in BOOLEAN

Init ==
    /\ segStart \in U32 /\ segEnd \in U32
    /\ size \in [Table -> Sizes]
    /\ pc = "Out" /\ kind = "read" /\ part = 0
    /\ start = 0 /\ end = 0 /\ first = 0 /\ last = 0
    /\ i = 0 /\ total = 0 /\ room = 0 /\ at = 0
    /\ blob = FALSE /\ status = "OK"
    /\ opened = FALSE /\ bufferCount = 0
    /\ stable = TRUE

-----------------------------------------------------------------------------
(* fill_info: the buffer count redfs_stat reports, from a range clamped to *)
(* the table.                                                              *)
BufferCount(s, e) ==
    LET clamped == IF e > SegmentCount THEN SegmentCount ELSE e
    IN  IF clamped > s THEN clamped - s - 1 ELSE 0

(* resolve_part: the segments of part p of a file that occupies s .. e-1,  *)
(* as the first and one past the last; computed at 64 bits.                *)
SegmentOf_Wraps(s, p) == (s + 1 + p) % Top
SegmentOf(s, p) == s + 1 + p

PastTable(e) == e > SegmentCount

ResolveStatus(s, e, p) ==
    CASE s >= e -> "CORRUPT"
      [] s < e /\ PastTable(e) -> "CORRUPT"
      [] s < e /\ ~PastTable(e) ->
            IF p \in {PART_ALL, PART_MAIN} \/ SegmentOf(s, p) < e THEN "OK" ELSE "RANGE"

ResolveFirst(s, p) == IF p \in {PART_ALL, PART_MAIN} THEN s ELSE SegmentOf(s, p)
ResolveLast(s, e, p) == IF p = PART_ALL THEN e ELSE ResolveFirst(s, p) + 1

-----------------------------------------------------------------------------
(* The calls.                                                              *)

Begin(k, p, where) ==
    /\ pc = "Out"
    /\ kind' = k
    /\ part' = p
    /\ pc' = where
    /\ stable' = TRUE
    /\ UNCHANGED <<index, range, i, total, at, blob, status>>

PartSize(p) == Begin("part_size", p, "Start") /\ room' = 0 /\ UNCHANGED handle

(* The host passes dst and its capacity; there is one pass.                *)
ReadInto(p, capacity) ==
    Begin("read_into", p, "Start2") /\ room' = capacity /\ UNCHANGED handle

Read(p) == Begin("read", p, "Start") /\ room' = 0 /\ UNCHANGED handle

(* redfs_open: stat for the buffer count, then redfs_read of the document. *)
Open ==
    /\ ~opened
    /\ Begin("open", PART_MAIN, "Start")
    /\ bufferCount' = BufferCount(segStart, segEnd)
    /\ room' = 0
    /\ UNCHANGED opened

(* redfs_resource_buffer: checked against the count kept on the handle.    *)
BufferInRange(n) == n < bufferCount

ResourceBuffer(n) ==
    /\ opened
    /\ BufferInRange(n)
    /\ Begin("buffer", n, "Start")
    /\ room' = 0
    /\ UNCHANGED handle

(* redfs_close.                                                            *)
Close ==
    /\ pc = "Out" /\ opened
    /\ opened' = FALSE
    /\ bufferCount' = 0
    /\ UNCHANGED <<index, pc, kind, part, range, i, total, room, at, blob, status, stable>>

-----------------------------------------------------------------------------
(* read_part.  Its first pass has no dst; "2" marks the pass that has one. *)

HasDst == pc \in {"Start2", "End2", "Sum2", "Copy"}

(* A call returns st; redfs_read frees the blob unless st is OK, and       *)
(* redfs_open keeps the handle only then.                                  *)
Finish_Leak(st) ==
    /\ status' = st
    /\ pc' = "Done"
    /\ opened' = (opened \/ (kind = "open" /\ st = "OK"))
    /\ UNCHANGED <<blob, bufferCount>>

Finish(st) ==
    /\ status' = st
    /\ pc' = "Done"
    /\ blob' = (blob /\ st = "OK")
    /\ opened' = (opened \/ (kind = "open" /\ st = "OK"))
    /\ UNCHANGED bufferCount

(* locate and entry_seg_start.                                             *)
ResolveStart ==
    /\ pc \in {"Start", "Start2"}
    /\ \/ /\ Finish("NOT_FOUND")
          /\ UNCHANGED start
       \/ /\ start' = segStart
          /\ pc' = IF HasDst THEN "End2" ELSE "End"
          /\ UNCHANGED <<status, blob, handle>>
    /\ UNCHANGED <<index, kind, part, end, first, last, i, total, room, at, stable>>

(* entry_seg_end and the checks on both.                                   *)
ResolveEnd ==
    /\ pc \in {"End", "End2"}
    /\ end' = segEnd
    /\ LET st == ResolveStatus(start, segEnd, part) IN
       \/ /\ st # "OK"
          /\ Finish(st)
          /\ UNCHANGED <<first, last, i, total>>
       \/ /\ st = "OK"
          /\ first' = ResolveFirst(start, part)
          /\ last' = ResolveLast(start, segEnd, part)
          /\ i' = ResolveFirst(start, part)
          /\ total' = 0
          /\ pc' = IF HasDst THEN "Sum2" ELSE "Sum"
          /\ UNCHANGED <<status, blob, handle>>
    /\ UNCHANGED <<index, kind, part, start, room, at, stable>>

(* total += segment(i).size                                                *)
Sum ==
    /\ pc \in {"Sum", "Sum2"}
    /\ i < last
    /\ total' = total + size[i]
    /\ i' = i + 1
    /\ UNCHANGED <<index, pc, kind, part, range, room, at, blob, status, handle, stable>>

(* The size is known: part_size returns it, the reads go on to allocate,   *)
(* the pass with a dst checks its capacity.                                *)
TooSmall == room < total

Summed ==
    /\ pc \in {"Sum", "Sum2"}
    /\ i = last
    /\ \/ /\ pc = "Sum" /\ kind = "part_size"
          /\ Finish("OK")
          /\ UNCHANGED <<i, at>>
       \/ /\ pc = "Sum" /\ kind # "part_size"
          /\ pc' = "Alloc"
          /\ UNCHANGED <<i, at, status, blob, handle>>
       \/ /\ pc = "Sum2" /\ TooSmall
          /\ Finish("RANGE")
          /\ UNCHANGED <<i, at>>
       \/ /\ pc = "Sum2" /\ ~TooSmall
          /\ pc' = "Copy"
          /\ i' = first
          /\ at' = 0
          /\ UNCHANGED <<status, blob, handle>>
    /\ UNCHANGED <<index, kind, part, range, total, room, stable>>

(* blob_alloc.                                                             *)
Alloc ==
    /\ pc = "Alloc"
    /\ \/ /\ Finish("OOM")
          /\ UNCHANGED room
       \/ /\ room' = total
          /\ blob' = TRUE
          /\ pc' = "Start2"
          /\ UNCHANGED <<status, handle>>
    /\ UNCHANGED <<index, kind, part, range, i, total, at, stable>>

(* read_segment: a segment of sz bytes, of which zs are on disk and, if    *)
(* compressed, raw come out of the decoder.  How many bytes of dst are     *)
(* filled: what was copied or decoded, and zeroes up to sz.                *)
Smaller(m, n) == IF m < n THEN m ELSE n
Filled_NoPad(sz, zs, compressed, raw) ==
    IF zs = 0 \/ zs = sz THEN sz
    ELSE IF compressed THEN Smaller(raw, sz) ELSE Smaller(zs, sz)
Filled(sz, zs, compressed, raw) ==
    IF zs = 0 \/ zs = sz THEN sz
    ELSE LET data == IF compressed THEN Smaller(raw, sz) ELSE Smaller(zs, sz)
         IN  data + (sz - data)

(* One turn of the copying loop: the bound on this write, then the write.  *)
Fits_Trusted(n) == TRUE
Fits(n) == n <= room - at

Copy ==
    /\ pc = "Copy"
    /\ i < last
    /\ \/ /\ ~Fits(size[i])
          /\ Finish("RANGE")
          /\ UNCHANGED <<i, at>>
       \/ /\ Fits(size[i])
          /\ Finish("OODLE")
          /\ UNCHANGED <<i, at>>
       \/ /\ Fits(size[i])
          /\ \E zs, raw \in 0..(MaxSize + 1), compressed \in BOOLEAN :
                at' = at + Filled(size[i], zs, compressed, raw)
          /\ i' = i + 1
          /\ UNCHANGED <<pc, status, blob, handle>>
    /\ UNCHANGED <<index, kind, part, range, total, room, stable>>

Copied ==
    /\ pc = "Copy"
    /\ i = last
    /\ Finish("OK")
    /\ UNCHANGED <<index, kind, part, range, i, total, room, at, stable>>

(* The host has looked at the result and freed the blob, if it got one.    *)
Return ==
    /\ pc = "Done"
    /\ pc' = "Out"
    /\ kind' = "read" /\ part' = 0 /\ stable' = TRUE
    /\ start' = 0 /\ end' = 0 /\ first' = 0 /\ last' = 0
    /\ i' = 0 /\ total' = 0 /\ room' = 0 /\ at' = 0
    /\ blob' = FALSE /\ status' = "OK"
    /\ UNCHANGED <<index, handle>>

-----------------------------------------------------------------------------
(* Another process rewrites a field of the index under the mapping.        *)
Rewrite ==
    /\ \/ /\ segStart' \in U32
          /\ UNCHANGED <<segEnd, size>>
       \/ /\ segEnd' \in U32
          /\ UNCHANGED <<segStart, size>>
       \/ /\ \E s \in Table, n \in Sizes : size' = [size EXCEPT ![s] = n]
          /\ UNCHANGED <<segStart, segEnd>>
    /\ stable' = FALSE
    /\ UNCHANGED <<pc, kind, part, range, i, total, room, at, blob, status, handle>>

Next ==
    \/ \E p \in U32 : PartSize(p) \/ Read(p) \/ ResourceBuffer(p)
    \/ \E p \in U32, c \in 0..(2 * MaxSize) : ReadInto(p, c)
    \/ Open \/ Close
    \/ ResolveStart \/ ResolveEnd \/ Sum \/ Summed \/ Alloc \/ Copy \/ Copied \/ Return
    \/ Rewrite

Spec == Init /\ [][Next]_vars
-----------------------------------------------------------------------------
(* Properties.                                                             *)

(* read_part: no write goes past the destination, even when the sizes      *)
(* grow between the pass that adds them up and the pass that copies.       *)
NoOverrun == at <= room

(* segment(i) is unchecked: every index read_part passes to it is inside   *)
(* the table the archive was opened with.                                  *)
InTable == pc \in {"Sum", "Sum2", "Copy"} => last <= SegmentCount /\ i <= last

(* resolve_part: for any part the host passes, what is read lies inside    *)
(* the file's own range, and buffer p is the p-th segment after the        *)
(* document, never the document itself.                                    *)
OwnSegment ==
    pc \in {"Sum", "Sum2", "Copy"} =>
        /\ start <= first /\ first < last /\ last <= end
        /\ part \notin {PART_ALL, PART_MAIN} => first - start = part + 1 /\ last - first = 1

(* redfs_resource_buffer: no index is taken for one of the sentinels.      *)
BufferIsBuffer == kind = "buffer" /\ pc # "Out" => part \notin {PART_ALL, PART_MAIN}

(* redfs_read and redfs_open: a blob is handed out exactly on OK.          *)
NoLeak ==
    pc = "Done" => (blob <=> status = "OK" /\ kind \in {"read", "open", "buffer"})

(* If the index kept still, a blob handed out is filled to its last byte.  *)
FilledWhenStable == pc = "Done" /\ blob /\ stable => at = room

(* Why: while the index keeps still both passes walk the same segments,    *)
(* and what is added up or written so far is what lies before segment i.   *)
Before[n \in 0..SegmentCount] == IF n = 0 THEN 0 ELSE Before[n - 1] + size[n - 1]
Secured == blob /\ pc \in {"Start2", "End2", "Sum2", "Copy"}
StableInv == stable =>
    /\ FilledWhenStable
    /\ pc \in {"End", "Sum", "Alloc"} \/ Secured => start = segStart
    /\ pc \in {"Sum", "Alloc"} \/ Secured =>
          end = segEnd /\ first = ResolveFirst(start, part) /\ last = ResolveLast(start, end, part)
    /\ pc \in {"Sum", "Sum2"} => first <= i /\ total = Before[i] - Before[first]
    /\ pc = "Alloc" => total = Before[last] - Before[first]
    /\ Secured => room = Before[last] - Before[first]
    /\ pc = "Copy" => at = Before[i] - Before[first]

(* The inductive invariant behind these: who holds a blob when, and that   *)
(* the count on a handle stays clear of the sentinels.                     *)
BlobKinds == {"read", "open", "buffer"}
CallInv ==
    /\ NoOverrun /\ InTable /\ OwnSegment /\ BufferIsBuffer /\ NoLeak
    /\ bufferCount <= Top - 2
    /\ pc \in {"Out", "Start", "End", "Sum", "Alloc"} => ~blob /\ at = 0
    /\ pc \in {"Start", "End", "Sum", "Alloc"} => kind # "read_into"
    /\ pc = "Alloc" => kind \in BlobKinds
    /\ pc \in {"Start2", "End2", "Sum2", "Copy"} =>
          /\ kind \in BlobKinds \cup {"read_into"}
          /\ blob <=> kind \in BlobKinds
    /\ pc \in {"Start2", "End2", "Sum2"} => at = 0
=============================================================================
