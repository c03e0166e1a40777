--------------------------- MODULE PathCacheProofs --------------------------
(***************************************************************************)
(* Proofs about PathCache, for any paths, archives, imports and files.     *)
(***************************************************************************)
EXTENDS PathCache, FiniteSetTheorems, TLAPS

-----------------------------------------------------------------------------
(* Sizes, images, and images cut short.                                    *)

LEMMA Sizes ==
    /\ \A S \in SUBSET Paths : IsFiniteSet(S) /\ Cardinality(S) \in Nat
    /\ \A A \in SUBSET Archives : IsFiniteSet(A) /\ Cardinality(A) \in Nat
BY PathCacheAssumption, FS_Subset, FS_CardinalityType

(* What makes the comparison of sizes sound.                               *)
LEMMA SameSize ==
    /\ \A S, T \in SUBSET Paths : S \subseteq T /\ Cardinality(S) = Cardinality(T) => S = T
    /\ \A A, B \in SUBSET Archives : A \subseteq B /\ Cardinality(A) = Cardinality(B) => A = B
    /\ \A S \in SUBSET Paths : Cardinality(S) = 0 <=> S = {}
    /\ \A A \in SUBSET Archives : Cardinality(A) = 0 <=> A = {}
<1>1. \A S, T \in SUBSET Paths : S \subseteq T /\ Cardinality(S) = Cardinality(T) => S = T
  BY Sizes, FS_Subset
<1>2. \A A, B \in SUBSET Archives : A \subseteq B /\ Cardinality(A) = Cardinality(B) => A = B
  BY Sizes, FS_Subset
<1>. QED
  BY <1>1, <1>2, Sizes, FS_EmptySet

LEMMA NoImageType ==
    ASSUME NEW k \in {"none", "bad", "ok"}
    PROVE  NoImage(k) \in Images
BY DEF NoImage, Images

(* A cut takes records off: some that could be read, if any was behind it. *)
LEMMA CutType ==
    ASSUME NEW img \in Images, NEW p \in Paths
    PROVE  /\ CutAt(img, p) \in Images
           /\ CutAt(img, p) = [img EXCEPT !.paths = {q \in img.paths : q < p}]
           /\ CutAt(img, p).paths \subseteq img.paths
BY DEF CutAt, Images

LEMMA CutLoses ==
    ASSUME NEW img \in Images, NEW p \in img.paths
    PROVE  Loaded(CutAt(img, p)) < Loaded(img)
<1> DEFINE T == CutAt(img, p).paths
<1>1. p \in Paths /\ img.paths \in SUBSET Paths /\ img.refused \in Nat
  BY DEF Images
<1>2. T \subseteq img.paths /\ p \notin T
  BY <1>1, PathCacheAssumption DEF CutAt, Images
<1>3. Cardinality(T) <= Cardinality(img.paths) /\ Cardinality(T) # Cardinality(img.paths)
  BY <1>1, <1>2, Sizes, SameSize, FS_Subset
<1>4. CutAt(img, p).refused = img.refused
  BY DEF CutAt, Images
<1>5. Cardinality(T) \in Nat /\ Cardinality(img.paths) \in Nat
  BY <1>1, <1>2, Sizes
<1>. QED
  BY <1>1, <1>3, <1>4, <1>5 DEF Loaded

(* Damage never leaves a file that a restore accepts.                      *)
LEMMA DamagedFile ==
    ASSUME NEW img \in Images, img.kind = "ok", Loaded(img) <= img.declared, img.synced,
           NEW d \in Damaged(img)
    PROVE  /\ d \in Images /\ d.synced /\ ~Intact(d)
           /\ d.kind = "ok" => Loaded(d) <= d.declared
           /\ d.kind # "ok" => d.paths = {}
<1>0. /\ img.paths \in SUBSET Paths /\ img.refused \in Nat /\ img.declared \in Nat
      /\ Loaded(img) \in Nat /\ Cardinality(img.paths) \in Nat
  BY Sizes DEF Images, Loaded
<1>1. CASE \E p \in img.paths : d = CutAt(img, p)
  <2>1. PICK p \in img.paths : d = CutAt(img, p)
    BY <1>1
  <2>2. Loaded(d) < Loaded(img) /\ p \in Paths
    BY <1>0, <2>1, CutLoses
  <2>3. d \in Images /\ d = [img EXCEPT !.paths = {q \in img.paths : q < p}]
    BY <2>1, <2>2, CutType
  <2>4. d.declared = img.declared /\ d.synced /\ d.kind = "ok"
    BY <2>3 DEF Images
  <2>5. Loaded(d) \in Nat
    BY <2>3, Sizes DEF Images, Loaded
  <2>. QED
    BY <1>0, <2>2, <2>3, <2>4, <2>5 DEF Intact
<1>2. CASE \E p \in img.paths : d = [img EXCEPT !.paths = @ \ {p}, !.refused = @ + 1]
  <2>1. PICK p \in img.paths : d = [img EXCEPT !.paths = @ \ {p}, !.refused = @ + 1]
    BY <1>2
  <2>2. /\ d \in Images /\ d.kind = "ok" /\ d.synced /\ d.declared = img.declared
        /\ d.paths = img.paths \ {p} /\ d.refused = img.refused + 1
    <3>1. img.paths \ {p} \in SUBSET Paths /\ img.refused + 1 \in Nat
      BY <1>0
    <3>2. d = [img EXCEPT !.paths = img.paths \ {p}, !.refused = img.refused + 1]
      BY <2>1
    <3>. QED
      BY <3>1, <3>2 DEF Images
  <2>3. Cardinality(d.paths) = Cardinality(img.paths) - 1
    BY <1>0, <2>2, Sizes, FS_RemoveElement
  <2>. QED
    BY <1>0, <2>2, <2>3 DEF Loaded, Intact
<1>3. CASE d = NoImage("bad") \/ d = NoImage("none")
  <2>1. d \in Images
    BY <1>3, NoImageType
  <2>2. d.kind # "ok" /\ d.paths = {} /\ d.synced
    BY <1>3 DEF NoImage
  <2>. QED
    BY <2>1, <2>2 DEF Intact
<1>. QED
  BY <1>1, <1>2, <1>3 DEF Damaged

-----------------------------------------------------------------------------
(* Types.                                                                  *)

LEMMA IdleType ==
    ASSUME TypeOK
    PROVE  /\ Idle \in [pc : {"idle"}, why : {"flush"}, target : {None}, image : Images]
           /\ Return = Idle \/ Return = [op EXCEPT !.pc = "reset", !.image = NoImage("none")]
           /\ Return.pc \in {"idle", "reset"}
           /\ Return.why = op.why /\ (Return.why = "open" => Return.target = op.target)
<1>1. NoImage("none") \in Images
  BY NoImageType
<1>. QED
  BY <1>1 DEF Idle, Return, TypeOK

(* The steps that only move the call in progress on.                       *)
OpStep ==
    \/ FlushCall \/ CloseCall \/ (\E f \in Files : OpenCall(f))
    \/ FlushSkip \/ FlushSnapshot \/ FlushWrite \/ FlushCommit \/ FlushFails \/ FlushThrows

LEMMA OpStepType ==
    ASSUME TypeOK, OpStep
    PROVE  /\ op' \in [pc : {"idle", "flush", "write", "commit", "rename", "reset", "load"},
                       why : {"flush", "open", "close"}, target : Files \cup {None}, image : Images]
           /\ UNCHANGED <<dict, learning, cache, disk, teach, fault>>
<1> DEFINE Ops == [pc : {"idle", "flush", "write", "commit", "rename", "reset", "load"},
                   why : {"flush", "open", "close"}, target : Files \cup {None}, image : Images]
<1>1. Idle \in Ops /\ Return \in Ops
  BY IdleType, NoImageType DEF TypeOK
<1>2. CASE FlushCall \/ CloseCall \/ (\E f \in Files : OpenCall(f))
  BY <1>1, <1>2 DEF FlushCall, CloseCall, OpenCall, Call
<1>3. CASE FlushSkip \/ FlushFails \/ FlushThrows
  BY <1>1, <1>3 DEF FlushSkip, FlushFails, FlushThrows
<1>4. CASE FlushSnapshot
  <2>1. Snapshot \in Images
    BY Sizes DEF Snapshot, Images, TypeOK
  <2>. QED
    BY <1>4, <2>1 DEF FlushSnapshot, TypeOK
<1>5. CASE FlushWrite
  BY <1>5 DEF FlushWrite, TypeOK
<1>6. CASE FlushCommit
  <2>1. [op.image EXCEPT !.synced = TRUE] \in Images
    BY DEF TypeOK, Images
  <2>2. op' = [op EXCEPT !.pc = "rename", !.image = [op.image EXCEPT !.synced = TRUE]]
    BY <1>6 DEF FlushCommit
  <2>. QED
    BY <1>6, <2>1, <2>2 DEF FlushCommit, TypeOK
<1>. QED
  BY <1>2, <1>3, <1>4, <1>5, <1>6 DEF OpStep

(* The steps by which names and archives come in.                          *)
TeachStep ==
    \/ \E p \in Paths : PathAdd(p) \/ TeachRead(p)
    \/ PathEnable
    \/ \E S \in SUBSET Paths : PathLoad(S)
    \/ \E a \in Archives : TeachStart(a)

LEMMA TeachStepType ==
    ASSUME TypeOK, TeachStep
    PROVE  /\ dict' \in SUBSET Paths /\ dict \subseteq dict'
           /\ learning' \in BOOLEAN /\ (learning => learning')
           /\ teach' \in [archive : Archives \cup {None}, todo : SUBSET Paths]
           /\ UNCHANGED <<cache, disk, op, fault>>
<1> USE DEF TypeOK
<1>1. ASSUME NEW p \in Paths, PathAdd(p) \/ TeachRead(p)
      PROVE  /\ dict' \in SUBSET Paths /\ dict \subseteq dict'
             /\ learning' = learning
             /\ teach' \in [archive : Archives \cup {None}, todo : SUBSET Paths]
             /\ UNCHANGED <<cache, disk, op, fault>>
  BY <1>1 DEF PathAdd, TeachRead, Learned, Added
<1>2. CASE PathEnable
  BY <1>2 DEF PathEnable
<1>3. CASE \E S \in SUBSET Paths : PathLoad(S)
  BY <1>3 DEF PathLoad, Added
<1>4. ASSUME NEW a \in Archives, TeachStart(a)
      PROVE  /\ UNCHANGED <<dict, learning, cache, disk, op, fault>>
             /\ teach' \in [archive : Archives \cup {None}, todo : SUBSET Paths]
  <2>1. Imports[a] \in SUBSET Paths
    BY PathCacheAssumption
  <2>. QED
    BY <1>4, <2>1 DEF TeachStart
<1>. QED
  BY <1>1, <1>2, <1>3, <1>4 DEF TeachStep

LEMMA ClosedType ==
    /\ Closed \in [enabled : BOOLEAN, file : {None}, harvested : SUBSET Archives,
                   written_paths : Nat, written_archives : Nat, stale_file : BOOLEAN]
    /\ ~Closed.enabled /\ Closed.harvested = {}
BY DEF Closed

LEMMA TypeStep ==
    ASSUME TypeOK, OpenInv, FileInv, [Next]_vars
    PROVE  TypeOK'
<1> DEFINE Ops == [pc : {"idle", "flush", "write", "commit", "rename", "reset", "load"},
                   why : {"flush", "open", "close"}, target : Files \cup {None}, image : Images]
           Caches == [enabled : BOOLEAN, file : Files \cup {None}, harvested : SUBSET Archives,
                      written_paths : Nat, written_archives : Nat, stale_file : BOOLEAN]
<1>0. Idle \in Ops /\ Return \in Ops /\ Closed \in Caches
  BY IdleType, NoImageType, ClosedType DEF TypeOK
<1>1. CASE TeachStep
  BY <1>1, TeachStepType DEF TypeOK
<1>2. CASE OpStep
  BY <1>2, OpStepType DEF TypeOK
<1>3. CASE Mark
  <2>1. cache' \in Caches
    BY <1>3 DEF Mark, TypeOK
  <2>. QED
    BY <1>3, <2>1 DEF Mark, NoTeach, TypeOK
<1>4. CASE FlushRename
  <2>1. cache.file \in Files
    BY <1>4 DEF FlushRename, OpenInv
  <2>2. Cardinality(op.image.paths) \in Nat /\ Cardinality(cache.harvested) \in Nat
    BY Sizes DEF TypeOK, Images
  <2>3. cache' \in Caches
    BY <1>4, <2>2 DEF FlushRename, Written, TypeOK
  <2>4. disk' \in [Files -> Images]
    BY <1>4, <2>1 DEF FlushRename, TypeOK
  <2>. QED
    BY <1>0, <1>4, <2>3, <2>4 DEF FlushRename, TypeOK
<1>5. CASE CloseReset
  <2>1. cache' \in Caches
    BY <1>0, <1>5 DEF CloseReset, TypeOK
  <2>. QED
    BY <1>0, <1>5, <2>1 DEF CloseReset, TypeOK
<1>6. CASE OpenReset
  <2>1. cache' \in Caches
    BY <1>0, <1>6 DEF OpenReset, TypeOK
  <2>. QED
    BY <1>0, <1>6, <2>1 DEF OpenReset, TypeOK, Healed
<1>7. CASE OpenLoad
  <2> DEFINE img == disk[cache.file]
  <2>1. img \in Images
    BY <1>7 DEF OpenLoad, OpenInv, TypeOK
  <2>2. Loaded(img) \in Nat /\ Cardinality(img.digests) \in Nat /\ img.digests \in SUBSET Archives
    BY <2>1, Sizes DEF Images, Loaded
  <2>3. Faithful(img) \in BOOLEAN
    BY DEF Faithful
  <2>4. Kept(img) \in Caches
    BY <2>2, <2>3 DEF Kept, TypeOK
  <2>5. Restored \in SUBSET Paths
    BY <2>1 DEF Restored, TypeOK, Images
  <2>6. cache' \in Caches /\ dict' \in SUBSET Paths
    BY <1>7, <2>4, <2>5 DEF OpenLoad, TypeOK
  <2>. QED
    BY <1>0, <1>7, <2>6 DEF OpenLoad, TypeOK
<1>8. CASE OpenUnreadable
  BY <1>0, <1>8 DEF OpenUnreadable, TypeOK
<1>9. CASE OpenThrows
  <2>1. disk[cache.file] \in Images
    BY <1>9 DEF OpenThrows, OpenInv, TypeOK
  <2>2. disk[cache.file].paths \in SUBSET Paths /\ disk[cache.file].digests \in SUBSET Archives
    BY <2>1 DEF Images
  <2>3. dict' \in SUBSET Paths
    BY <1>9, <2>1, <2>2, CutType DEF OpenThrows, TypeOK
  <2>4. cache' \in Caches
    BY <1>9, <2>2 DEF OpenThrows, TypeOK
  <2>. QED
    BY <1>0, <1>9, <2>3, <2>4 DEF OpenThrows, TypeOK
<1>10. CASE Crash
  BY <1>0, <1>10 DEF Crash, NewProcess, NoTeach, Healed, TypeOK
<1>11. CASE PowerLoss
  <2>1. disk' = disk
    BY <1>11 DEF PowerLoss, FileInv, TypeOK
  <2>. QED
    BY <1>0, <1>11, <2>1 DEF PowerLoss, NewProcess, NoTeach, Healed, TypeOK
<1>12. ASSUME NEW f \in Files, Damage(f)
       PROVE  TypeOK'
  <2>1. PICK d \in Damaged(disk[f]) : disk' = [disk EXCEPT ![f] = d]
    BY <1>12 DEF Damage
  <2>2. d \in Images
    BY <1>12, DamagedFile DEF Damage, FileInv, TypeOK
  <2>. QED
    BY <1>12, <2>1, <2>2 DEF Damage, TypeOK
<1>13. CASE UNCHANGED vars
  BY <1>13 DEF vars, TypeOK
<1>. QED
  BY <1>1, <1>2, <1>3, <1>4, <1>5, <1>6, <1>7, <1>8, <1>9, <1>10, <1>11, <1>12, <1>13
  DEF Next, TeachStep, OpStep

-----------------------------------------------------------------------------
(* What a call in progress and a harvest rely on.                          *)

(* The pc is past a flush's snapshot only once the snapshot is taken, and  *)
(* in the load only once the bookkeeping was reset.                        *)
LEMMA OpStepOrder ==
    ASSUME TypeOK, OpStep
    PROVE  /\ op'.pc # "load"
           /\ op'.why = "open" => \/ op'.target \in Files
                                  \/ op.why = "open" /\ op'.target = op.target
           /\ op'.pc = "write" => FlushSnapshot
           /\ op'.pc = "commit" => op.pc = "write" /\ op'.image = op.image
           /\ op'.pc = "rename" =>
                 op.pc = "commit" /\ op'.image = [op.image EXCEPT !.synced = TRUE]
<1>1. CASE FlushCall \/ CloseCall \/ (\E f \in Files : OpenCall(f))
  <2>1. PICK w \in {"flush", "open", "close"}, f \in Files \cup {None} :
           /\ op' = [Idle EXCEPT !.pc = "flush", !.why = w, !.target = f]
           /\ w = "open" => f \in Files
    BY <1>1 DEF FlushCall, CloseCall, OpenCall, Call
  <2>2. op'.pc = "flush"
    BY <2>1 DEF Idle
  <2>3. op'.why = w /\ op'.target = f
    BY <2>1 DEF Idle
  <2>4. op'.why = "open" => op'.target \in Files
    BY <2>1, <2>3
  <2>. QED
    BY <2>2, <2>4
<1>2. CASE FlushSkip \/ FlushFails \/ FlushThrows
  BY <1>2, IdleType DEF FlushSkip, FlushFails, FlushThrows, Idle, TypeOK
<1>3. CASE FlushSnapshot
  BY <1>3 DEF FlushSnapshot, TypeOK
<1>4. CASE FlushWrite
  BY <1>4 DEF FlushWrite, TypeOK
<1>5. CASE FlushCommit
  BY <1>5 DEF FlushCommit, TypeOK
<1>. QED
  BY <1>1, <1>2, <1>3, <1>4, <1>5 DEF OpStep

LEMMA OpenStep ==
    ASSUME TypeOK, OpenInv, [Next]_vars
    PROVE  OpenInv'
<1> USE DEF OpenInv, TypeOK
<1>1. ASSUME NEW p \in Paths, PathAdd(p) \/ TeachRead(p)
      PROVE  OpenInv'
  BY <1>1 DEF PathAdd, TeachRead, Learned, Added
<1>2. CASE PathEnable \/ (\E S \in SUBSET Paths : PathLoad(S))
  BY <1>2 DEF PathEnable, PathLoad, Added
<1>3. ASSUME NEW a \in Archives, TeachStart(a)
      PROVE  OpenInv'
  BY <1>3 DEF TeachStart, Pending
<1>4. CASE Mark
  BY <1>4 DEF Mark, NoTeach
<1>5. CASE OpStep
  <2>1. UNCHANGED <<dict, learning, cache, teach>>
    BY <1>5, OpStepType
  <2>2. op'.pc \in {"write", "commit", "rename"} => cache.enabled
    BY <1>5, OpStepOrder DEF FlushSnapshot
  <2>. QED
    BY <1>5, <2>1, <2>2, OpStepOrder
<1>6. CASE FlushRename
  <2>1. UNCHANGED <<dict, learning, teach>> /\ cache'.enabled = cache.enabled /\ cache'.file = cache.file
    BY <1>6 DEF FlushRename, Written
  <2>2. op' = Return
    BY <1>6 DEF FlushRename
  <2>. QED
    BY <2>1, <2>2, IdleType
<1>7. CASE CloseReset
  <2>1. ~cache'.enabled /\ op' = Idle /\ UNCHANGED <<dict, learning, teach>>
    BY <1>7, ClosedType DEF CloseReset
  <2>. QED
    BY <2>1, IdleType
<1>8. CASE OpenReset
  <2>1. cache'.enabled /\ cache'.file = op.target /\ cache'.written_paths = 0 /\ cache'.written_archives = 0
    BY <1>8 DEF OpenReset, Closed
  <2>2. learning' /\ op' = [op EXCEPT !.pc = "load"] /\ UNCHANGED <<dict, teach>> /\ op.why = "open"
    BY <1>8 DEF OpenReset
  <2>. QED
    BY <2>1, <2>2
<1>9. CASE OpenLoad \/ OpenUnreadable \/ OpenThrows
  <2>1. op' = Idle /\ UNCHANGED <<learning, teach>> /\ dict \subseteq dict'
    BY <1>9 DEF OpenLoad, OpenUnreadable, OpenThrows, Restored
  <2>2. cache'.enabled = cache.enabled /\ cache'.file = cache.file
    BY <1>9 DEF OpenLoad, OpenUnreadable, OpenThrows, Kept
  <2>. QED
    BY <2>1, <2>2, IdleType
<1>10. CASE Crash \/ PowerLoss
  BY <1>10, IdleType, ClosedType DEF Crash, PowerLoss, NewProcess, NoTeach
<1>11. CASE \E f \in Files : Damage(f)
  BY <1>11 DEF Damage
<1>12. CASE UNCHANGED vars
  BY <1>12 DEF vars
<1>. QED
  BY <1>1, <1>2, <1>3, <1>4, <1>5, <1>6, <1>7, <1>8, <1>9, <1>10, <1>11, <1>12 DEF Next, OpStep

-----------------------------------------------------------------------------
(* The files.                                                              *)

(* Only a flush that has committed its image and damage from outside       *)
(* change a file: what a power loss could cut short is never in place.     *)
LEMMA DiskStep ==
    ASSUME TypeOK, FileInv, [Next]_vars
    PROVE  disk' = disk \/ FlushRename \/ \E f \in Files : Damage(f)
<1>1. CASE TeachStep \/ OpStep
  BY <1>1, TeachStepType, OpStepType
<1>2. CASE Mark \/ CloseReset \/ OpenReset \/ OpenLoad \/ OpenUnreadable \/ OpenThrows
  BY <1>2 DEF Mark, CloseReset, OpenReset, OpenLoad, OpenUnreadable, OpenThrows
<1>3. CASE Crash \/ UNCHANGED vars
  BY <1>3 DEF Crash, vars
<1>4. CASE PowerLoss
  BY <1>4 DEF PowerLoss, FileInv, TypeOK
<1>. QED
  BY <1>1, <1>2, <1>3, <1>4 DEF Next, TeachStep, OpStep

LEMMA DamageStep ==
    ASSUME TypeOK, FileInv, NEW f \in Files, Damage(f)
    PROVE  \E d \in Images :
              /\ disk' = [disk EXCEPT ![f] = d]
              /\ d.synced /\ ~Intact(d)
              /\ d.kind = "ok" => Loaded(d) <= d.declared
              /\ d.kind # "ok" => d.paths = {}
<1>1. PICK d \in Damaged(disk[f]) : disk' = [disk EXCEPT ![f] = d]
  BY DEF Damage
<1>2. disk[f] \in Images /\ disk[f].kind = "ok" /\ Loaded(disk[f]) <= disk[f].declared /\ disk[f].synced
  BY DEF Damage, FileInv, TypeOK
<1>. QED
  BY <1>1, <1>2, DamagedFile

LEMMA FileStep ==
    ASSUME TypeOK, OpenInv, FileInv, ImageInv, [Next]_vars
    PROVE  FileInv'
<1>1. CASE disk' = disk
  BY <1>1 DEF FileInv, Loaded
<1>2. CASE FlushRename
  <2>1. disk' = [disk EXCEPT ![cache.file] = op.image]
    BY <1>2 DEF FlushRename
  <2>2. /\ op.image.synced /\ op.image.kind = "ok" /\ op.image.declared \in Nat
        /\ Loaded(op.image) = op.image.declared
    BY <1>2 DEF FlushRename, ImageInv, Intact, TypeOK, Images
  <2>. QED
    BY <2>1, <2>2 DEF FileInv, TypeOK, Loaded
<1>3. ASSUME NEW f \in Files, Damage(f)
      PROVE  FileInv'
  BY <1>3, DamageStep DEF FileInv, TypeOK, Loaded
<1>. QED
  BY <1>1, <1>2, <1>3, DiskStep

-----------------------------------------------------------------------------
(* The image of a flush.                                                   *)

LEMMA ImageStep ==
    ASSUME TypeOK, OpenInv, ImageInv, WrittenInv, CoverageHonest, [Next]_vars
    PROVE  ImageInv'
<1>1. CASE TeachStep
  <2>1. dict \subseteq dict' /\ UNCHANGED <<cache, disk, op, fault>>
    BY <1>1, TeachStepType
  <2>. QED
    BY <2>1 DEF ImageInv, Intact, Loaded
<1>2. CASE OpStep
  <2>1. UNCHANGED <<dict, cache, disk, fault>>
    BY <1>2, OpStepType
  <2>2. CASE op'.pc = "write"
    <3>1. FlushSnapshot /\ op'.image = Snapshot
      BY <1>2, <2>2, OpStepOrder DEF FlushSnapshot, TypeOK
    <3>2. Intact(op'.image)
      BY <3>1, Sizes DEF Snapshot, Intact, Loaded, TypeOK
    <3>3. cache.enabled /\ op.pc # "load"
      BY <3>1 DEF FlushSnapshot
    <3>. QED
      BY <2>1, <2>2, <3>1, <3>2, <3>3 DEF ImageInv, Snapshot, CoverageHonest, WrittenInv
  <2>3. CASE op'.pc = "commit"
    BY <1>2, <2>1, <2>3, OpStepOrder DEF ImageInv, Intact, Loaded
  <2>4. CASE op'.pc = "rename"
    <3>1. op.pc = "commit" /\ op'.image = [op.image EXCEPT !.synced = TRUE] /\ op.image \in Images
      BY <1>2, <2>4, OpStepOrder DEF TypeOK
    <3>2. /\ op'.image.kind = op.image.kind /\ op'.image.refused = op.image.refused
          /\ op'.image.declared = op.image.declared /\ op'.image.paths = op.image.paths
          /\ op'.image.digests = op.image.digests /\ op'.image.synced
      BY <3>1 DEF Images
    <3>. QED
      BY <2>1, <3>1, <3>2 DEF ImageInv, Intact, Loaded
  <2>. QED
    BY <2>2, <2>3, <2>4 DEF ImageInv
<1>3. CASE Mark
  BY <1>3 DEF Mark, ImageInv
<1>4. CASE FlushRename \/ CloseReset \/ OpenReset \/ OpenLoad \/ OpenUnreadable \/ OpenThrows
  <2>1. op'.pc \in {"idle", "reset", "load"}
    BY <1>4, IdleType DEF FlushRename, CloseReset, OpenReset, OpenLoad, OpenUnreadable, OpenThrows,
                          TypeOK, Idle
  <2>. QED
    BY <2>1 DEF ImageInv
<1>5. CASE Crash \/ PowerLoss \/ (\E f \in Files : Damage(f))
  <2>1. op'.pc = "idle"
    BY <1>5, IdleType DEF Crash, PowerLoss, NewProcess, Damage, Idle
  <2>. QED
    BY <2>1 DEF ImageInv
<1>6. CASE UNCHANGED vars
  BY <1>6 DEF vars, ImageInv, Intact, Loaded
<1>. QED
  BY <1>1, <1>2, <1>3, <1>4, <1>5, <1>6 DEF Next, TeachStep, OpStep

-----------------------------------------------------------------------------
(* The sizes remembered.                                                   *)

LEMMA WrittenStep ==
    ASSUME TypeOK, OpenInv, FileInv, ImageInv, WrittenInv, [Next]_vars
    PROVE  WrittenInv'
<1>1. CASE TeachStep
  <2>1. dict \subseteq dict' /\ UNCHANGED <<cache, disk, op, fault>>
    BY <1>1, TeachStepType
  <2>. QED
    BY <2>1 DEF WrittenInv, Intact, Loaded
<1>2. CASE OpStep
  <2>1. UNCHANGED <<dict, cache, disk, fault>>
    BY <1>2, OpStepType
  <2>2. op.pc = "load" => op' = op
    BY <1>2 DEF OpStep, FlushCall, CloseCall, OpenCall, Call, FlushSkip, FlushSnapshot, FlushWrite,
                FlushCommit, FlushFails, FlushThrows
  <2>. QED
    BY <1>2, <2>1, <2>2, OpStepOrder DEF WrittenInv, Intact, Loaded
<1>3. CASE Mark
  <2>1. /\ UNCHANGED <<dict, disk, op, fault>>
        /\ cache' = IF cache.enabled THEN [cache EXCEPT !.harvested = @ \cup {teach.archive}] ELSE cache
    BY <1>3 DEF Mark
  <2>2. /\ cache.harvested \subseteq cache'.harvested
        /\ cache'.enabled = cache.enabled /\ cache'.file = cache.file
        /\ cache'.stale_file = cache.stale_file /\ cache'.written_paths = cache.written_paths
        /\ cache'.written_archives = cache.written_archives
    BY <2>1 DEF TypeOK
  <2>. QED
    BY <2>1, <2>2 DEF WrittenInv, Intact, Loaded
<1>4. CASE FlushRename
  <2>1. /\ cache' = Written /\ UNCHANGED <<dict, fault>>
        /\ disk' = [disk EXCEPT ![cache.file] = op.image]
    BY <1>4 DEF FlushRename
  <2>2. /\ cache'.written_paths = Cardinality(op.image.paths) /\ cache'.file = cache.file
        /\ cache'.written_archives = Cardinality(cache.harvested)
        /\ cache'.harvested = cache.harvested /\ cache.file \in Files
    BY <1>4, <2>1 DEF FlushRename, Written, TypeOK, OpenInv
  <2>3. disk'[cache'.file] = op.image
    BY <2>1, <2>2 DEF TypeOK
  <2>4. Intact(op.image) /\ op.image.paths \subseteq dict /\ op.image.digests = cache.harvested
    BY <1>4 DEF FlushRename, ImageInv
  <2>. QED
    BY <2>1, <2>2, <2>3, <2>4 DEF WrittenInv, Intact, Loaded
<1>5. CASE CloseReset \/ Crash \/ PowerLoss
  <2>1. ~cache'.enabled
    BY <1>5, ClosedType DEF CloseReset, Crash, PowerLoss, NewProcess, Closed
  <2>. QED
    BY <2>1 DEF WrittenInv
<1>6. CASE OpenReset
  BY <1>6 DEF OpenReset, WrittenInv, TypeOK
<1>7. CASE OpenLoad
  <2> DEFINE img == disk[cache.file]
  <2>1. img \in Images /\ img.refused \in Nat /\ Cardinality(img.paths) \in Nat
    BY <1>7, Sizes DEF OpenLoad, OpenInv, TypeOK, Images
  <2>2. UNCHANGED <<disk, fault>>
    BY <1>7 DEF OpenLoad
  <2>3. CASE img.kind = "ok"
    <3>1. cache' = Kept(img) /\ dict' = Restored
      BY <1>7, <2>3 DEF OpenLoad
    <3>2. cache'.file = cache.file /\ cache'.stale_file = ~Faithful(img)
      BY <3>1 DEF Kept, TypeOK
    <3>3. img.paths \subseteq dict'
      BY <3>1 DEF Restored
    <3>4. CASE Faithful(img)
      <4>1. /\ cache'.written_paths = Loaded(img) /\ cache'.harvested = img.digests
            /\ cache'.written_archives = Cardinality(img.digests)
        BY <3>1, <3>4 DEF Kept, TypeOK
      <4>2. Intact(img) /\ Loaded(img) = Cardinality(img.paths)
        BY <2>1, <2>3, <3>4 DEF Faithful, Intact, Loaded
      <4>. QED
        BY <2>2, <3>2, <3>3, <4>1, <4>2 DEF WrittenInv, Intact, Loaded
    <3>5. CASE ~Faithful(img)
      BY <2>2, <3>2, <3>3, <3>5 DEF WrittenInv
    <3>. QED
      BY <3>4, <3>5
  <2>4. CASE img.kind # "ok"
    <3>1. UNCHANGED <<cache, dict>> /\ img.paths = {}
      BY <1>7, <2>4 DEF OpenLoad, FileInv, OpenInv
    <3>2. cache.written_paths = 0 /\ cache.written_archives = 0
      BY <1>7 DEF OpenLoad, OpenInv
    <3>. QED
      BY <2>2, <3>1, <3>2 DEF WrittenInv
  <2>. QED
    BY <2>3, <2>4
<1>8. CASE OpenUnreadable
  <2>1. cache.written_paths = 0 /\ cache.written_archives = 0 /\ UNCHANGED cache /\ fault' # "none"
    BY <1>8 DEF OpenUnreadable, OpenInv
  <2>. QED
    BY <2>1 DEF WrittenInv
<1>9. CASE OpenThrows
  <2>1. /\ cache.written_paths = 0 /\ cache.written_archives = 0 /\ fault' # "none"
        /\ cache'.written_paths = cache.written_paths /\ cache'.written_archives = cache.written_archives
    BY <1>9 DEF OpenThrows, OpenInv, TypeOK
  <2>. QED
    BY <2>1 DEF WrittenInv
<1>10. CASE \E f \in Files : Damage(f)
  <2>1. ~cache'.enabled
    BY <1>10 DEF Damage, OpenInv
  <2>. QED
    BY <2>1 DEF WrittenInv
<1>11. CASE UNCHANGED vars
  BY <1>11 DEF vars, WrittenInv, Intact, Loaded
<1>. QED
  BY <1>1, <1>2, <1>3, <1>4, <1>5, <1>6, <1>7, <1>8, <1>9, <1>10, <1>11 DEF Next, TeachStep, OpStep

(* What the comparison of sizes is for: no name and no archive is in only  *)
(* one of the two when the sizes agree, because one contains the other.    *)
LEMMA SizesSuffice ==
    ASSUME TypeOK, OpenInv, WrittenInv
    PROVE  CleanMeansCurrent
<1> SUFFICES ASSUME cache.enabled, op.pc # "load", Current
             PROVE  \/ dict = {} /\ cache.harvested = {}
                    \/ /\ Intact(disk[cache.file])
                       /\ disk[cache.file].paths = dict
                       /\ disk[cache.file].digests = cache.harvested
  BY DEF CleanMeansCurrent
<1>1. disk[cache.file] \in Images /\ dict \in SUBSET Paths /\ cache.harvested \in SUBSET Archives
  BY DEF TypeOK, OpenInv
<1>2. disk[cache.file].paths \in SUBSET Paths /\ disk[cache.file].digests \in SUBSET Archives
  BY <1>1 DEF Images
<1>. QED
  BY <1>1, <1>2, SameSize DEF WrittenInv, Current

-----------------------------------------------------------------------------
(* The coverage.                                                           *)

LEMMA CoverageStep ==
    ASSUME TypeOK, OpenInv, FileInv, ImageInv, CoverageHonest, [Next]_vars
    PROVE  CoverageHonest'
<1> SUFFICES ASSUME fault' # "partial"
             PROVE  /\ \A a \in cache'.harvested : Imports[a] \ Long \subseteq dict'
                    /\ \A f \in Files : Intact(disk'[f]) =>
                          \A a \in disk'[f].digests : Imports[a] \ Long \subseteq disk'[f].paths
  BY DEF CoverageHonest, Intact, Loaded
<1>0. fault # "partial"
  <2>1. CASE TeachStep \/ OpStep
    BY <2>1, TeachStepType, OpStepType
  <2>2. CASE Mark \/ FlushRename \/ CloseReset \/ OpenReset \/ OpenLoad \/ OpenUnreadable \/ OpenThrows
    BY <2>2 DEF Mark, FlushRename, CloseReset, OpenReset, OpenLoad, OpenUnreadable, OpenThrows, Healed
  <2>3. CASE Crash \/ PowerLoss \/ (\E f \in Files : Damage(f)) \/ UNCHANGED vars
    BY <2>3 DEF Crash, PowerLoss, NewProcess, Damage, vars, Healed
  <2>. QED
    BY <2>1, <2>2, <2>3 DEF Next, TeachStep, OpStep
<1>1. ASSUME NEW f \in Files, Intact(disk'[f]), NEW a \in disk'[f].digests
      PROVE  Imports[a] \ Long \subseteq disk'[f].paths
  <2>1. CASE disk' = disk
    BY <1>0, <1>1, <2>1 DEF CoverageHonest
  <2>2. CASE FlushRename
    BY <1>0, <1>1, <2>2 DEF FlushRename, ImageInv, CoverageHonest, TypeOK
  <2>3. ASSUME NEW g \in Files, Damage(g)
        PROVE  Imports[a] \ Long \subseteq disk'[f].paths
    <3>1. PICK d \in Images : disk' = [disk EXCEPT ![g] = d] /\ ~Intact(d)
      BY <2>3, DamageStep
    <3>2. f # g /\ disk'[f] = disk[f]
      BY <1>1, <3>1 DEF TypeOK
    <3>. QED
      BY <1>0, <1>1, <3>2 DEF CoverageHonest
  <2>. QED
    BY <2>1, <2>2, <2>3, DiskStep
<1>2. ASSUME NEW a \in cache'.harvested
      PROVE  Imports[a] \ Long \subseteq dict'
  <2>1. CASE TeachStep \/ OpStep
    BY <1>0, <1>2, <2>1, TeachStepType, OpStepType DEF CoverageHonest
  <2>2. CASE Mark
    <3>1. a \in cache.harvested \/ a = teach.archive
      BY <1>2, <2>2 DEF Mark, TypeOK
    <3>. QED
      BY <1>0, <2>2, <3>1 DEF Mark, OpenInv, CoverageHonest
  <2>3. CASE FlushRename
    BY <1>0, <1>2, <2>3 DEF FlushRename, Written, CoverageHonest, TypeOK
  <2>4. CASE CloseReset \/ OpenReset
    BY <1>2, <2>4 DEF CloseReset, OpenReset, Closed
  <2>5. CASE OpenLoad
    <3> DEFINE img == disk[cache.file]
    <3>1. cache.file \in Files
      BY <2>5 DEF OpenLoad, OpenInv
    <3>2. CASE img.kind = "ok"
      <4>1. cache' = Kept(img) /\ dict' = dict \cup img.paths
        BY <2>5, <3>2 DEF OpenLoad, Restored
      <4>2. Faithful(img) /\ a \in img.digests
        BY <1>2, <4>1 DEF Kept, TypeOK
      <4>3. Intact(img)
        BY <3>2, <4>2 DEF Intact, Faithful
      <4>. QED
        BY <1>0, <3>1, <4>1, <4>2, <4>3 DEF CoverageHonest
    <3>3. CASE img.kind # "ok"
      BY <1>0, <1>2, <2>5, <3>3 DEF OpenLoad, CoverageHonest
    <3>. QED
      BY <3>2, <3>3
  <2>6. CASE OpenUnreadable \/ (\E f \in Files : Damage(f))
    BY <1>0, <1>2, <2>6 DEF OpenUnreadable, Damage, CoverageHonest
  <2>7. CASE OpenThrows
    BY <2>7 DEF OpenThrows
  <2>8. CASE Crash \/ PowerLoss
    BY <1>2, <2>8, ClosedType DEF Crash, PowerLoss, NewProcess
  <2>9. CASE UNCHANGED vars
    BY <1>0, <1>2, <2>9 DEF vars, CoverageHonest
  <2>. QED
    BY <2>1, <2>2, <2>3, <2>4, <2>5, <2>6, <2>7, <2>8, <2>9 DEF Next, TeachStep, OpStep
<1>. QED
  BY <1>1, <1>2

-----------------------------------------------------------------------------
(* What is on disk and in memory stays.                                    *)

LEMMA KeptStep ==
    ASSUME TypeOK, OpenInv, FileInv, ImageInv, [Next]_vars
    PROVE  /\ \/ fault # "none"
              \/ \E f \in Files : Damage(f)
              \/ \A f \in Files : disk[f].paths \subseteq disk'[f].paths
           /\ NewProcess \/ dict \subseteq dict'
<1>1. \/ fault # "none"
      \/ \E f \in Files : Damage(f)
      \/ \A f \in Files : disk[f].paths \subseteq disk'[f].paths
  <2>1. CASE disk' = disk
    BY <2>1
  <2>2. CASE FlushRename
    <3>1. disk' = [disk EXCEPT ![cache.file] = op.image]
      BY <2>2 DEF FlushRename
    <3>2. fault = "none" => disk[cache.file].paths \subseteq op.image.paths
      BY <2>2 DEF FlushRename, ImageInv
    <3>. QED
      BY <3>1, <3>2 DEF TypeOK
  <2>. QED
    BY <2>1, <2>2, DiskStep
<1>2. NewProcess \/ dict \subseteq dict'
  <2>1. CASE TeachStep \/ OpStep
    BY <2>1, TeachStepType, OpStepType
  <2>2. CASE Mark \/ FlushRename \/ CloseReset \/ OpenReset \/ OpenLoad \/ OpenUnreadable \/ OpenThrows
    BY <2>2 DEF Mark, FlushRename, CloseReset, OpenReset, OpenLoad, OpenUnreadable, OpenThrows, Restored
  <2>3. CASE Crash \/ PowerLoss \/ (\E f \in Files : Damage(f)) \/ UNCHANGED vars
    BY <2>3 DEF Crash, PowerLoss, Damage, vars
  <2>. QED
    BY <2>1, <2>2, <2>3 DEF Next, TeachStep, OpStep
<1>. QED
  BY <1>1, <1>2

-----------------------------------------------------------------------------
(* The theorems.                                                           *)

(* Whatever is read, harvested, flushed, opened, closed, cut short or      *)
(* crashed, in any order: the coverage recorded in memory and in every     *)
(* file that a restore accepts is backed by its names, and a flush that    *)
(* writes nothing because the sizes agree has nothing to write.            *)
THEOREM CacheHonest == Spec => []CacheInv
<1> DEFINE Inv == TypeOK /\ OpenInv /\ FileInv /\ ImageInv /\ WrittenInv /\ CoverageHonest
<1>1. Init => Inv
  <2> SUFFICES ASSUME Init
               PROVE  Inv
    OBVIOUS
  <2>1. NoImage("none") \in Images /\ NoImage("none").synced /\ NoImage("none").kind = "none"
        /\ NoImage("none").paths = {}
    BY NoImageType DEF NoImage
  <2>2. TypeOK
    BY <2>1, ClosedType DEF Init, TypeOK, NoTeach, Idle, Closed
  <2>3. OpenInv /\ ImageInv /\ WrittenInv
    BY ClosedType DEF Init, OpenInv, ImageInv, WrittenInv, NoTeach, Idle
  <2>4. FileInv
    BY <2>1 DEF Init, FileInv
  <2>5. CoverageHonest
    BY <2>1, ClosedType DEF Init, CoverageHonest, Intact
  <2>. QED
    BY <2>2, <2>3, <2>4, <2>5
<1>2. Inv /\ [Next]_vars => Inv'
  <2> SUFFICES ASSUME Inv, [Next]_vars
               PROVE  Inv'
    OBVIOUS
  <2>1. TypeOK' /\ OpenInv' /\ FileInv'
    BY TypeStep, OpenStep, FileStep
  <2>2. ImageInv' /\ WrittenInv' /\ CoverageHonest'
    BY ImageStep, WrittenStep, CoverageStep
  <2>. QED
    BY <2>1, <2>2
<1>3. Inv => CacheInv
  BY SizesSuffice DEF CacheInv
<1>. QED
  BY <1>1, <1>2, <1>3, PTL DEF Spec

(* The learned names are never discarded: no step of the program takes one *)
(* out of a cache file or, while the process lives, out of memory; only    *)
(* damage from outside does, and the flush of a session whose restore met  *)
(* a fault.                                                                *)
THEOREM NothingForgotten == Spec => NeverForgotten
<1>1. CacheInv /\ [Next]_vars =>
        [/\ \/ fault # "none"
            \/ \E f \in Files : Damage(f)
            \/ \A f \in Files : disk[f].paths \subseteq disk'[f].paths
         /\ NewProcess \/ dict \subseteq dict']_vars
  BY KeptStep DEF CacheInv
<1>. QED
  BY <1>1, CacheHonest, PTL DEF Spec, NeverForgotten

=============================================================================
