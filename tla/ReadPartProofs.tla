--------------------------- MODULE ReadPartProofs ---------------------------
(***************************************************************************)
(* Proofs about ReadPart, for every width of the part number, every size   *)
(* of the segment table and every segment size.                            *)
(***************************************************************************)
EXTENDS ReadPart, WellFoundedInduction, TLAPS

USE ReadPartAssumption

(* What fill_info reports never reaches the sentinels, whatever range the  *)
(* index holds.                                                            *)
LEMMA BufferCountBound ==
    ASSUME NEW s \in U32, NEW e \in U32
    PROVE  BufferCount(s, e) \in U32 /\ BufferCount(s, e) <= Top - 2
BY DEF BufferCount, U32, PART_MAIN, PART_ALL

(* A range resolve_part accepts lies in the table and in the file, and a   *)
(* buffer is never the document: the 64-bit sum cannot wrap.               *)
LEMMA ResolveSound ==
    ASSUME NEW s \in U32, NEW e \in U32, NEW p \in U32, ResolveStatus(s, e, p) = "OK"
    PROVE  /\ e <= SegmentCount
           /\ ResolveFirst(s, p) \in U32 /\ ResolveLast(s, e, p) \in U32
           /\ s <= ResolveFirst(s, p)
           /\ ResolveFirst(s, p) < ResolveLast(s, e, p)
           /\ ResolveLast(s, e, p) <= e
           /\ p \notin {PART_ALL, PART_MAIN} =>
                 /\ ResolveFirst(s, p) - s = p + 1
                 /\ ResolveLast(s, e, p) - ResolveFirst(s, p) = 1
<1>1. s < e /\ e <= SegmentCount
  BY DEF ResolveStatus, PastTable, U32, PART_MAIN, PART_ALL
<1>2. p \in {PART_ALL, PART_MAIN} \/ SegmentOf(s, p) < e
  BY <1>1 DEF ResolveStatus, PastTable, U32, PART_MAIN, PART_ALL
<1>. QED
  BY <1>1, <1>2 DEF ResolveFirst, ResolveLast, SegmentOf, U32, PART_MAIN, PART_ALL

(* Whatever ResolveStatus says is a status the caller can get.             *)
LEMMA ResolveStatusType ==
    ASSUME NEW s \in U32, NEW e \in U32, NEW p \in U32
    PROVE  ResolveStatus(s, e, p) \in {"OK", "CORRUPT", "RANGE"}
BY DEF ResolveStatus, PastTable, U32, PART_MAIN, PART_ALL

(* read_segment fills exactly the segment's bytes.                         *)
LEMMA FilledIsSize ==
    ASSUME NEW sz \in Nat, NEW zs \in Nat, NEW c \in BOOLEAN, NEW raw \in Nat
    PROVE  Filled(sz, zs, c, raw) = sz
BY DEF Filled, Smaller

(* One step of a call, or one rewrite of the index, keeps the types.       *)
LEMMA TypeStep ==
    ASSUME TypeOK, CallInv, [Next]_vars
    PROVE  TypeOK'
<1> USE DEF TypeOK, index, range, handle
<1>0. 0 \in U32 /\ PART_MAIN \in U32
  BY DEF U32, PART_MAIN
<1>1. ASSUME NEW p \in U32, PartSize(p) \/ Read(p) \/ ResourceBuffer(p)
      PROVE  TypeOK'
  <2>1. kind' \in Kinds /\ part' \in U32 /\ pc' = "Start" /\ room' = 0 /\ stable' = TRUE
    BY <1>1 DEF PartSize, Read, ResourceBuffer, Begin, Kinds
  <2>2. UNCHANGED <<index, range, i, total, at, blob, status, handle>>
    BY <1>1 DEF PartSize, Read, ResourceBuffer, Begin
  <2>. QED
    BY <2>1, <2>2
<1>2. ASSUME NEW p \in U32, NEW c \in 0..(2 * MaxSize), ReadInto(p, c)
      PROVE  TypeOK'
  BY <1>2 DEF ReadInto, Begin, Kinds
<1>3. CASE Open
  <2>1. BufferCount(segStart, segEnd) \in U32
    BY BufferCountBound
  <2>. QED
    BY <1>0, <1>3, <2>1 DEF Open, Begin, Kinds
<1>4. CASE Close
  BY <1>0, <1>4 DEF Close
<1>5. CASE ResolveStart
  <2>1. CASE Finish("NOT_FOUND") /\ UNCHANGED start
    BY <1>5, <2>1 DEF ResolveStart, Finish, Statuses
  <2>2. CASE start' = segStart /\ UNCHANGED <<status, blob, handle>>
    <3>1. pc' \in {"End", "End2", "Done"}
      BY <1>5 DEF ResolveStart, Finish
    <3>2. UNCHANGED <<index, kind, part, end, first, last, i, total, room, at, stable>>
      BY <1>5 DEF ResolveStart
    <3>. QED
      BY <2>2, <3>1, <3>2
  <2>. QED
    BY <1>5, <2>1, <2>2 DEF ResolveStart
<1>6. CASE ResolveEnd
  <2> DEFINE st == ResolveStatus(start, segEnd, part)
  <2>1. st \in Statuses
    BY ResolveStatusType DEF Statuses
  <2>2. CASE st # "OK"
    BY <1>6, <2>1, <2>2 DEF ResolveEnd, Finish
  <2>3. CASE st = "OK"
    <3>1. ResolveFirst(start, part) \in U32 /\ ResolveLast(start, segEnd, part) \in U32
      BY <2>3, ResolveSound
    <3>. QED
      BY <1>6, <2>3, <3>1 DEF ResolveEnd
  <2>. QED
    BY <2>2, <2>3
<1>7. CASE Sum
  <2>1. i + 1 \in U32 /\ size[i] \in Nat
    BY <1>7 DEF Sum, CallInv, InTable, U32, Table, Sizes
  <2>. QED
    BY <1>7, <2>1 DEF Sum
<1>8. CASE Summed
  <2>1. CASE Finish("OK") \/ Finish("RANGE")
    BY <1>8, <2>1 DEF Summed, Finish, Statuses
  <2>2. CASE UNCHANGED <<status, blob, handle>>
    BY <1>8, <2>2 DEF Summed, Finish
  <2>. QED
    BY <1>8, <2>1, <2>2 DEF Summed
<1>9. CASE Alloc
  <2>1. CASE Finish("OOM")
    BY <1>9, <2>1 DEF Alloc, Finish, Statuses
  <2>2. CASE blob' = TRUE /\ UNCHANGED <<status, handle>>
    BY <1>9, <2>2 DEF Alloc, Finish, Statuses
  <2>. QED
    BY <1>9, <2>1, <2>2 DEF Alloc
<1>10. CASE Copy
  <2>1. CASE Finish("RANGE") \/ Finish("OODLE")
    BY <1>10, <2>1 DEF Copy, Finish, Statuses
  <2>2. CASE UNCHANGED <<pc, status, blob, handle>>
    <3>1. pc # "Done"
      BY <1>10 DEF Copy
    <3>2. i + 1 \in U32 /\ size[i] \in Nat
      BY <1>10 DEF Copy, CallInv, InTable, U32, Table, Sizes
    <3>3. i' = i + 1 /\ at' = at + size[i]
      BY <1>10, <2>2, <3>1, <3>2, FilledIsSize DEF Copy, Finish
    <3>. QED
      BY <1>10, <2>2, <3>2, <3>3 DEF Copy
  <2>. QED
    BY <1>10, <2>1, <2>2 DEF Copy
<1>11. CASE Copied
  BY <1>11 DEF Copied, Finish, Statuses
<1>12. CASE Return
  BY <1>0, <1>12 DEF Return, Statuses, Kinds
<1>13. CASE Rewrite
  <2>1. size' \in [Table -> Sizes]
    BY <1>13 DEF Rewrite
  <2>2. segStart' \in U32 /\ segEnd' \in U32
    BY <1>13 DEF Rewrite
  <2>. QED
    BY <1>13, <2>1, <2>2 DEF Rewrite
<1>14. CASE UNCHANGED vars
  BY <1>14 DEF vars
<1>. QED
  BY <1>1, <1>2, <1>3, <1>4, <1>5, <1>6, <1>7, <1>8, <1>9, <1>10, <1>11, <1>12, <1>13, <1>14
     DEF Next

(* ... and the invariant.                                                  *)
LEMMA InvStep ==
    ASSUME TypeOK, CallInv, [Next]_vars
    PROVE  CallInv'
<1> USE DEF CallInv, NoOverrun, InTable, OwnSegment, BufferIsBuffer, NoLeak, BlobKinds,
            index, range, handle
<1>0. Top \in Nat /\ at \in Nat /\ room \in Nat /\ total \in Nat
  BY DEF TypeOK
<1>1. ASSUME NEW p \in U32, PartSize(p) \/ Read(p)
      PROVE  CallInv'
  BY <1>0, <1>1 DEF PartSize, Read, Begin
<1>2. ASSUME NEW p \in U32, ResourceBuffer(p)
      PROVE  CallInv'
  <2>1. p \notin {PART_ALL, PART_MAIN}
    BY <1>2 DEF ResourceBuffer, BufferInRange, PART_ALL, PART_MAIN, U32, TypeOK
  <2>. QED
    BY <1>0, <1>2, <2>1 DEF ResourceBuffer, Begin
<1>3. ASSUME NEW p \in U32, NEW c \in 0..(2 * MaxSize), ReadInto(p, c)
      PROVE  CallInv'
  BY <1>0, <1>3 DEF ReadInto, Begin
<1>4. CASE Open
  <2>1. BufferCount(segStart, segEnd) <= Top - 2
    BY BufferCountBound DEF TypeOK
  <2>. QED
    BY <1>0, <1>4, <2>1 DEF Open, Begin
<1>5. CASE Close
  BY <1>0, <1>5 DEF Close
<1>6. CASE ResolveStart
  <2>1. CASE Finish("NOT_FOUND")
    BY <1>0, <1>6, <2>1 DEF ResolveStart, Finish
  <2>2. CASE pc' = (IF HasDst THEN "End2" ELSE "End") /\ UNCHANGED <<status, blob, handle>>
    BY <1>0, <1>6, <2>2 DEF ResolveStart, HasDst
  <2>. QED
    BY <1>6, <2>1, <2>2 DEF ResolveStart
<1>7. CASE ResolveEnd
  <2> DEFINE st == ResolveStatus(start, segEnd, part)
  <2>1. CASE st # "OK"
    <3>1. pc' = "Done" /\ status' = st /\ ~blob'
      BY <1>7, <2>1 DEF ResolveEnd, Finish
    <3>2. UNCHANGED <<kind, part, room, at, bufferCount>>
      BY <1>7, <2>1 DEF ResolveEnd, Finish
    <3> HIDE DEF st
    <3>. QED
      BY <1>0, <1>7, <2>1, <3>1, <3>2 DEF ResolveEnd
  <2>2. CASE st = "OK"
    <3>1. /\ segEnd <= SegmentCount
          /\ start <= ResolveFirst(start, part)
          /\ ResolveFirst(start, part) < ResolveLast(start, segEnd, part)
          /\ ResolveLast(start, segEnd, part) <= segEnd
          /\ part \notin {PART_ALL, PART_MAIN} =>
                /\ ResolveFirst(start, part) - start = part + 1
                /\ ResolveLast(start, segEnd, part) - ResolveFirst(start, part) = 1
          /\ ResolveFirst(start, part) \in Nat /\ ResolveLast(start, segEnd, part) \in Nat
          /\ segEnd \in Nat
      BY <2>2, ResolveSound DEF TypeOK, U32
    <3>2. /\ end' = segEnd /\ first' = ResolveFirst(start, part)
          /\ last' = ResolveLast(start, segEnd, part) /\ i' = ResolveFirst(start, part)
          /\ UNCHANGED <<kind, part, start, room, at, status, blob, bufferCount>>
      BY <1>7, <2>2 DEF ResolveEnd
    <3>3. \/ pc = "End" /\ pc' = "Sum"
          \/ pc = "End2" /\ pc' = "Sum2"
      BY <1>7, <2>2 DEF ResolveEnd, HasDst
    <3>. QED
      BY <1>0, <3>1, <3>2, <3>3
  <2>. QED
    BY <2>1, <2>2
<1>8. CASE Sum
  BY <1>0, <1>8 DEF Sum, TypeOK, U32
<1>9. CASE Summed
  <2>1. CASE Finish("OK") /\ pc = "Sum" /\ kind = "part_size" /\ UNCHANGED <<i, at>>
    BY <1>0, <1>9, <2>1 DEF Summed, Finish
  <2>2. CASE pc = "Sum" /\ kind # "part_size" /\ pc' = "Alloc"
             /\ UNCHANGED <<i, at, status, blob, handle>>
    BY <1>0, <1>9, <2>2 DEF Summed, TypeOK, Kinds
  <2>3. CASE Finish("RANGE") /\ UNCHANGED <<i, at>>
    BY <1>0, <1>9, <2>3 DEF Summed, Finish
  <2>4. CASE pc = "Sum2" /\ pc' = "Copy" /\ i' = first /\ at' = 0
             /\ UNCHANGED <<status, blob, handle>>
    <3>1. first \in Nat /\ last \in Nat
      BY DEF TypeOK, U32
    <3>. QED
      BY <1>0, <1>9, <2>4, <3>1 DEF Summed
  <2>. QED
    BY <1>9, <2>1, <2>2, <2>3, <2>4 DEF Summed
<1>10. CASE Alloc
  <2>1. CASE Finish("OOM")
    BY <1>0, <1>10, <2>1 DEF Alloc, Finish
  <2>2. CASE room' = total /\ blob' = TRUE /\ pc' = "Start2" /\ UNCHANGED <<status, handle>>
    BY <1>0, <1>10, <2>2 DEF Alloc
  <2>. QED
    BY <1>10, <2>1, <2>2 DEF Alloc
<1>11. CASE Copy
  <2>1. CASE (Finish("RANGE") \/ Finish("OODLE")) /\ UNCHANGED <<i, at>>
    BY <1>0, <1>11, <2>1 DEF Copy, Finish
  <2>2. CASE /\ Fits(size[i]) /\ i' = i + 1
             /\ \E zs, raw \in 0..(MaxSize + 1), compressed \in BOOLEAN :
                   at' = at + Filled(size[i], zs, compressed, raw)
             /\ UNCHANGED <<pc, status, blob, handle>>
    <3>1. size[i] \in Nat /\ i \in Nat /\ last \in Nat
      BY <1>11 DEF Copy, TypeOK, U32, Table, Sizes
    <3>2. at' = at + size[i]
      BY <2>2, <3>1, FilledIsSize
    <3>3. at' <= room
      BY <1>0, <2>2, <3>1, <3>2 DEF Fits
    <3>. QED
      BY <1>0, <1>11, <2>2, <3>1, <3>2, <3>3 DEF Copy
  <2>. QED
    BY <1>11, <2>1, <2>2 DEF Copy
<1>12. CASE Copied
  BY <1>0, <1>12 DEF Copied, Finish
<1>13. CASE Return
  BY <1>0, <1>13 DEF Return
<1>14. CASE Rewrite
  BY <1>0, <1>14 DEF Rewrite
<1>15. CASE UNCHANGED vars
  BY <1>0, <1>15 DEF vars
<1>. QED
  BY <1>1, <1>2, <1>3, <1>4, <1>5, <1>6, <1>7, <1>8, <1>9, <1>10, <1>11, <1>12, <1>13, <1>14,
     <1>15 DEF Next

(* The inductive invariant, which TLC checks on a small instance, holds    *)
(* for every one.                                                          *)
THEOREM CallInvariance == Spec => [](TypeOK /\ CallInv)
<1>1. Init => TypeOK /\ CallInv
  <2> SUFFICES ASSUME Init
               PROVE  TypeOK /\ CallInv
    OBVIOUS
  <2>1. 0 \in U32
    BY DEF U32
  <2>2. TypeOK
    BY <2>1 DEF Init, TypeOK, Kinds, Statuses
  <2>3. CallInv
    BY DEF Init, CallInv, NoOverrun, InTable, OwnSegment, BufferIsBuffer, NoLeak, BlobKinds
  <2>. QED
    BY <2>2, <2>3
<1>2. TypeOK /\ CallInv /\ [Next]_vars => TypeOK' /\ CallInv'
  BY TypeStep, InvStep
<1>. QED
  BY <1>1, <1>2, PTL DEF Spec

(* read_part never writes past its destination, even when the segment      *)
(* sizes change between its two passes.                                    *)
THEOREM ReadInBounds == Spec => []NoOverrun
BY CallInvariance, PTL DEF CallInv

(* Every segment read lies in the archive's table and in the file's own    *)
(* range, for every part number a host can pass.                           *)
THEOREM ReadsOwnSegments == Spec => [](InTable /\ OwnSegment /\ BufferIsBuffer)
BY CallInvariance, PTL DEF CallInv

(* A blob is handed out exactly on OK.                                     *)
THEOREM BlobsBalanced == Spec => []NoLeak
BY CallInvariance, PTL DEF CallInv
-----------------------------------------------------------------------------
(* The last byte.                                                          *)

(* Before adds the sizes up: the function its definition asks for exists,  *)
(* or there would be a least n up to which none does.                      *)
LEMMA BeforeSums ==
    ASSUME TypeOK
    PROVE  /\ \A n \in 0..SegmentCount : Before[n] \in Nat
           /\ \A s \in Table : Before[s + 1] = Before[s] + size[s]
<1> DEFINE Sums(n, f) == /\ f \in [0..n -> Nat]
                         /\ \A m \in 0..n : f[m] = IF m = 0 THEN 0 ELSE f[m - 1] + size[m - 1]
           Bad == {n \in Nat : n <= SegmentCount /\ ~\E f : Sums(n, f)}
<1>0. SegmentCount \in Nat /\ \A s \in Table : size[s] \in Nat
  BY DEF TypeOK, Sizes, Table
<1>1. Bad = {}
  <2> SUFFICES ASSUME Bad # {}
               PROVE  FALSE
    OBVIOUS
  <2>1. PICK n \in Bad : \A m \in Bad : ~(<<m, n>> \in OpToRel(<, Nat))
    <3>1. Bad \subseteq Nat
      OBVIOUS
    <3> HIDE DEF Bad
    <3>. QED
      BY <3>1, NatLessThanWellFounded, WFMin
  <2>2. n \in Nat /\ n <= SegmentCount /\ ~\E f : Sums(n, f)
    OBVIOUS
  <2>3. n # 0
    <3>1. Sums(0, [m \in 0..0 |-> 0])
      OBVIOUS
    <3>. QED
      BY <2>2, <3>1
  <2>4. n - 1 \in Nat /\ n - 1 < n /\ n - 1 <= SegmentCount /\ n - 1 \in Table
    BY <1>0, <2>2, <2>3 DEF Table
  <2>5. n - 1 \notin Bad
    BY <2>1, <2>2, <2>4 DEF OpToRel
  <2>6. PICK f : Sums(n - 1, f)
    BY <2>4, <2>5
  <2> DEFINE g == [m \in 0..n |-> IF m = n THEN f[n - 1] + size[n - 1] ELSE f[m]]
  <2>7. f[n - 1] + size[n - 1] \in Nat
    BY <1>0, <2>4, <2>6
  <2>8. g \in [0..n -> Nat]
    BY <2>2, <2>6, <2>7
  <2>9. ASSUME NEW m \in 0..n
        PROVE  g[m] = IF m = 0 THEN 0 ELSE g[m - 1] + size[m - 1]
    <3>1. CASE m = n
      BY <2>2, <2>3, <2>4, <3>1
    <3>2. CASE m # n
      <4>1. m \in 0..(n - 1) /\ (m # 0 => m - 1 \in 0..n /\ m - 1 # n)
        BY <2>2, <3>2
      <4>. QED
        BY <2>6, <4>1
    <3>. QED
      BY <3>1, <3>2
  <2>. QED
    BY <2>2, <2>8, <2>9
<1>2. \E f : Sums(SegmentCount, f)
  <2> HIDE DEF Sums
  <2>1. SegmentCount \notin Bad /\ SegmentCount <= SegmentCount
    BY <1>0, <1>1
  <2>. QED
    BY <1>0, <2>1
<1>3. PICK f : f = [n \in 0..SegmentCount |-> IF n = 0 THEN 0 ELSE f[n - 1] + size[n - 1]]
  BY <1>2
<1>4. Before = [n \in 0..SegmentCount |-> IF n = 0 THEN 0 ELSE Before[n - 1] + size[n - 1]]
  BY <1>3 DEF Before
<1>5. \A s \in Table : Before[s + 1] = Before[s] + size[s]
  <2> TAKE s \in Table
  <2>1. s + 1 \in 0..SegmentCount /\ s + 1 # 0 /\ (s + 1) - 1 = s
    BY <1>0 DEF Table
  <2>2. Before[s + 1] = IF s + 1 = 0 THEN 0 ELSE Before[(s + 1) - 1] + size[(s + 1) - 1]
    BY <1>4, <2>1
  <2>. QED
    BY <2>1, <2>2
<1> DEFINE Odd == {n \in Nat : n <= SegmentCount /\ Before[n] \notin Nat}
<1>6. Odd = {}
  <2> SUFFICES ASSUME Odd # {}
               PROVE  FALSE
    OBVIOUS
  <2>1. PICK n \in Odd : \A m \in Odd : ~(<<m, n>> \in OpToRel(<, Nat))
    <3>1. Odd \subseteq Nat
      OBVIOUS
    <3> HIDE DEF Odd
    <3>. QED
      BY <3>1, NatLessThanWellFounded, WFMin
  <2>2. n \in Nat /\ n <= SegmentCount /\ Before[n] \notin Nat
    OBVIOUS
  <2>3. n # 0
    BY <1>0, <1>4, <2>2
  <2>4. n - 1 \in Nat /\ n - 1 < n /\ n - 1 <= SegmentCount /\ n - 1 \in Table /\ (n - 1) + 1 = n
    BY <1>0, <2>2, <2>3 DEF Table
  <2>5. Before[n - 1] \in Nat
    BY <2>1, <2>2, <2>4 DEF OpToRel
  <2>. QED
    BY <1>0, <1>5, <2>2, <2>4, <2>5
<1>. QED
  BY <1>0, <1>5, <1>6

(* Two passes over an index that keeps still agree, so what one adds up is *)
(* what the other writes.                                                  *)
LEMMA StableStep ==
    ASSUME TypeOK, CallInv, StableInv, [Next]_vars
    PROVE  StableInv'
<1> USE DEF index, range, handle
<1> SUFFICES ASSUME stable'
             PROVE  StableInv'
  BY DEF StableInv
<1>0. /\ at \in Nat /\ room \in Nat /\ total \in Nat /\ SegmentCount \in Nat
      /\ i \in Nat /\ first \in Nat /\ last \in Nat
  BY DEF TypeOK, U32
<1>1. ASSUME NEW p \in U32, NEW c, PartSize(p) \/ Read(p) \/ ResourceBuffer(p) \/ ReadInto(p, c)
      PROVE  StableInv'
  <2>1. ~blob' /\ pc' \in {"Start", "Start2"}
    BY <1>1 DEF PartSize, Read, ResourceBuffer, ReadInto, Begin, CallInv
  <2>. QED
    BY <2>1 DEF StableInv, Secured, FilledWhenStable
<1>2. CASE Open
  <2>1. ~blob' /\ pc' = "Start"
    BY <1>2 DEF Open, Begin, CallInv
  <2>. QED
    BY <2>1 DEF StableInv, Secured, FilledWhenStable
<1>3. CASE Close \/ Return
  <2>1. pc' = "Out"
    BY <1>3 DEF Close, Return
  <2>. QED
    BY <2>1 DEF StableInv, Secured, FilledWhenStable
<1>4. ASSUME NEW st, st # "OK", Finish(st)
      PROVE  StableInv'
  <2>1. ~blob' /\ pc' = "Done"
    BY <1>4 DEF Finish
  <2>. QED
    BY <2>1 DEF StableInv, Secured, FilledWhenStable
<1>5. CASE UNCHANGED index /\ stable
  <2>1. Before' = Before
    BY <1>5 DEF Before
  <2>2. CASE ResolveStart
    <3>1. CASE pc = "Start" /\ pc' = "End" /\ UNCHANGED blob
      <4>1. start' = segStart
        BY <2>2, <3>1 DEF ResolveStart, Finish
      <4>2. ~blob
        BY <3>1 DEF CallInv
      <4>. QED
        BY <1>5, <3>1, <4>1, <4>2 DEF StableInv, Secured, FilledWhenStable
    <3>2. CASE pc = "Start2" /\ pc' = "End2" /\ UNCHANGED blob
      <4>1. start' = segStart /\ UNCHANGED <<end, first, last, part, room>>
        BY <2>2, <3>2 DEF ResolveStart, Finish
      <4>. QED
        BY <1>5, <2>1, <3>2, <4>1 DEF StableInv, Secured, FilledWhenStable
    <3>. QED
      BY <1>4, <2>2, <3>1, <3>2 DEF ResolveStart, HasDst
  <2>3. CASE ResolveEnd
    <3>1. CASE ResolveStatus(start, segEnd, part) # "OK"
      BY <1>4, <2>3, <3>1 DEF ResolveEnd
    <3>2. CASE ResolveStatus(start, segEnd, part) = "OK"
      <4>1. /\ end' = segEnd /\ first' = ResolveFirst(start, part)
            /\ last' = ResolveLast(start, segEnd, part) /\ i' = first' /\ total' = 0
            /\ UNCHANGED <<start, part, blob, room>>
            /\ \/ pc = "End" /\ pc' = "Sum"
               \/ pc = "End2" /\ pc' = "Sum2"
        BY <2>3, <3>2 DEF ResolveEnd, HasDst
      <4>2. /\ ResolveFirst(start, part) \in 0..SegmentCount
            /\ ResolveFirst(start, part) <= ResolveFirst(start, part)
        BY <3>2, ResolveSound DEF TypeOK, U32
      <4>3. Before[first'] \in Nat
        BY <4>1, <4>2, BeforeSums
      <4>4. total' = Before'[i'] - Before'[first'] /\ first' <= i'
        BY <2>1, <4>1, <4>2, <4>3
      <4>5. pc = "End" => ~blob
        BY DEF CallInv
      <4>. QED
        BY <1>5, <2>1, <4>1, <4>4, <4>5 DEF StableInv, Secured, FilledWhenStable,
           ResolveFirst, ResolveLast, SegmentOf
    <3>. QED
      BY <3>1, <3>2
  <2>4. CASE Sum
    <3>1. i \in Table /\ i \in 0..SegmentCount /\ i + 1 \in 0..SegmentCount /\ first \in 0..SegmentCount
      BY <1>0, <2>4 DEF Sum, CallInv, InTable, OwnSegment, Table, StableInv, TypeOK, U32
    <3>2. /\ Before[i] \in Nat /\ Before[i + 1] = Before[i] + size[i]
          /\ Before[first] \in Nat /\ size[i] \in Nat
      BY <3>1, BeforeSums DEF TypeOK, Sizes
    <3>3. /\ total' = total + size[i] /\ i' = i + 1 /\ first' = first
          /\ total = Before[i] - Before[first] /\ first <= i
      BY <1>5, <2>4 DEF Sum, StableInv
    <3>4. total' = Before'[i'] - Before'[first'] /\ first' <= i'
      BY <1>0, <2>1, <3>2, <3>3
    <3>5. pc \in {"Sum", "Sum2"} /\ UNCHANGED <<pc, part, range, room, at, blob>>
      BY <2>4 DEF Sum
    <3>. QED
      BY <1>5, <2>1, <3>4, <3>5 DEF StableInv, Secured, FilledWhenStable,
         ResolveFirst, ResolveLast, SegmentOf
  <2>5. CASE Summed
    <3>1. CASE Finish("OK") /\ pc = "Sum"
      <4>1. ~blob' /\ pc' = "Done"
        BY <3>1 DEF Finish, CallInv
      <4>. QED
        BY <4>1 DEF StableInv, Secured, FilledWhenStable
    <3>2. CASE pc = "Sum" /\ pc' = "Alloc" /\ UNCHANGED <<i, at, status, blob, handle>>
      <4>1. i = last /\ UNCHANGED <<part, range, total, room>>
        BY <2>5 DEF Summed
      <4>2. ~blob
        BY <3>2 DEF CallInv
      <4>. QED
        BY <1>5, <2>1, <3>2, <4>1, <4>2 DEF StableInv, Secured, FilledWhenStable,
           ResolveFirst, ResolveLast, SegmentOf
    <3>3. CASE pc = "Sum2" /\ pc' = "Copy" /\ i' = first /\ at' = 0 /\ UNCHANGED <<status, blob, handle>>
      <4>1. UNCHANGED <<part, range, total, room>>
        BY <2>5 DEF Summed
      <4>2. first \in 0..SegmentCount
        BY <1>0, <1>5, <3>3 DEF CallInv, InTable, StableInv
      <4>3. at' = Before'[i'] - Before'[first']
        BY <2>1, <3>3, <4>1, <4>2, BeforeSums
      <4>. QED
        BY <1>5, <2>1, <3>3, <4>1, <4>3 DEF StableInv, Secured, FilledWhenStable,
           ResolveFirst, ResolveLast, SegmentOf
    <3>. QED
      BY <1>4, <2>5, <3>1, <3>2, <3>3 DEF Summed
  <2>6. CASE Alloc
    <3>1. CASE room' = total /\ pc' = "Start2" /\ pc = "Alloc"
      <4>1. UNCHANGED <<part, range>>
        BY <2>6 DEF Alloc
      <4>. QED
        BY <1>5, <2>1, <3>1, <4>1 DEF StableInv, Secured, FilledWhenStable,
           ResolveFirst, ResolveLast, SegmentOf
    <3>. QED
      BY <1>4, <2>6, <3>1 DEF Alloc
  <2>7. CASE Copy
    <3>1. CASE /\ i' = i + 1 /\ UNCHANGED <<pc, status, blob, handle>>
               /\ \E zs, raw \in 0..(MaxSize + 1), compressed \in BOOLEAN :
                     at' = at + Filled(size[i], zs, compressed, raw)
      <4>1. i \in Table /\ i \in 0..SegmentCount /\ first \in 0..SegmentCount /\ pc = "Copy"
        BY <1>0, <2>7 DEF Copy, CallInv, InTable, OwnSegment, Table
      <4>2. /\ Before[i] \in Nat /\ Before[i + 1] = Before[i] + size[i]
            /\ Before[first] \in Nat /\ size[i] \in Nat
        BY <4>1, BeforeSums DEF TypeOK, Sizes
      <4>3. at' = at + size[i]
        BY <3>1, <4>2, FilledIsSize
      <4>4. at = Before[i] - Before[first] /\ UNCHANGED <<part, range, room>>
        BY <1>5, <2>7, <4>1 DEF Copy, StableInv
      <4>5. at' = Before'[i'] - Before'[first']
        BY <1>0, <2>1, <3>1, <4>2, <4>3, <4>4
      <4>. QED
        BY <1>5, <2>1, <3>1, <4>1, <4>4, <4>5 DEF StableInv, Secured, FilledWhenStable,
           ResolveFirst, ResolveLast, SegmentOf
    <3>. QED
      BY <1>4, <2>7, <3>1 DEF Copy
  <2>8. CASE Copied
    <3>1. i = last /\ pc = "Copy" /\ pc' = "Done" /\ UNCHANGED <<at, room>> /\ (blob' => blob)
      BY <2>8 DEF Copied, Finish
    <3>2. blob => at = room
      BY <1>5, <3>1 DEF StableInv, Secured
    <3>. QED
      BY <3>1, <3>2 DEF StableInv, Secured, FilledWhenStable
  <2>9. CASE UNCHANGED vars
    BY <1>5, <2>1, <2>9 DEF vars, StableInv, Secured, FilledWhenStable, ResolveFirst, ResolveLast, SegmentOf
  <2>10. CASE Rewrite
    BY <2>10 DEF Rewrite
  <2>. QED
    BY <1>1, <1>2, <1>3, <2>2, <2>3, <2>4, <2>5, <2>6, <2>7, <2>8, <2>9, <2>10 DEF Next
<1>6. CASE Rewrite
  BY <1>6 DEF Rewrite
<1>7. \/ UNCHANGED index /\ stable
      \/ Rewrite \/ Close \/ Return \/ Open
      \/ \E p \in U32 : PartSize(p) \/ Read(p) \/ ResourceBuffer(p) \/ \E c : ReadInto(p, c)
  BY DEF Next, ResolveStart, ResolveEnd, Sum, Summed, Alloc, Copy, Copied, vars
<1>. QED
  BY <1>1, <1>2, <1>3, <1>5, <1>6, <1>7

(* redfs_read, redfs_open and redfs_resource_buffer: unless the index is   *)
(* rewritten during the call, a blob they return has every byte written.   *)
THEOREM BlobsFilled == Spec => []StableInv
<1>1. Init => StableInv
  BY DEF Init, StableInv, Secured, FilledWhenStable
<1>2. TypeOK /\ CallInv /\ StableInv /\ [Next]_vars => StableInv'
  BY StableStep
<1>. QED
  BY <1>1, <1>2, CallInvariance, PTL DEF Spec
=============================================================================
