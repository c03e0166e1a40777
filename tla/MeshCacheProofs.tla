--------------------------- MODULE MeshCacheProofs --------------------------
(***************************************************************************)
(* Proofs about MeshCache, for any archives, hashes, depots, readers and   *)
(* bound on the archives of a depot.                                       *)
(***************************************************************************)
EXTENDS MeshCache, WellFoundedInduction, TLAPS

USE DEF MeshCacheAssumption

-----------------------------------------------------------------------------
(* The operators.                                                          *)

(* A fingerprint is a label, and two archive sets with one fingerprint are *)
(* one set: the label says which files were mounted, and in what order.    *)
LEMMA FingerprintType ==
    ASSUME NEW S \in Seq(Archives)
    PROVE  Fingerprint(S) \in Seq(Paths \X Nat)
<1>1. \A i \in 1..Len(S) : S[i] \in Archives
  OBVIOUS
<1>2. \A i \in 1..Len(S) : <<S[i].path, Crc[S[i].version]>> \in Paths \X Nat
  BY <1>1, MeshCacheAssumption DEF Archives
<1>. QED
  BY <1>2 DEF Fingerprint

LEMMA FingerprintInjective ==
    ASSUME NEW S \in Seq(Archives), NEW T \in Seq(Archives), Fingerprint(S) = Fingerprint(T)
    PROVE  S = T
<1>1. Len(S) = Len(T)
  BY DEF Fingerprint
<1>2. \A i \in 1..Len(S) : S[i] = T[i]
  <2> TAKE i \in 1..Len(S)
  <2>1. S[i] \in Archives /\ T[i] \in Archives
    BY <1>1
  <2>2. Fingerprint(S)[i] = <<S[i].path, Crc[S[i].version]>>
    BY DEF Fingerprint
  <2>3. Fingerprint(T)[i] = <<T[i].path, Crc[T[i].version]>>
    BY <1>1 DEF Fingerprint
  <2>4. S[i].path = T[i].path /\ S[i].version = T[i].version
    BY <2>1, <2>2, <2>3, MeshCacheAssumption DEF Archives
  <2>. QED
    BY <2>1, <2>4 DEF Archives
<1>. QED
  BY <1>1, <1>2

(* Nothing is not something.                                               *)
LEMMA NoneDiffers ==
    /\ None \notin Addrs /\ None \notin Readers
    /\ None \notin Archives /\ None \notin Meshes /\ None \notin Saved
BY MeshCacheAssumption

(* The last of finitely many archives exists, ...                          *)
LEMMA LastExists ==
    ASSUME NEW n \in Nat, NEW P \in SUBSET (1..n), P # {}
    PROVE  \E i \in P : \A k \in P : k <= i
<1> DEFINE T == {j \in Nat : n - j \in P}
<1>1. T \subseteq Nat /\ T # {}
  <2>1. PICK i \in P : TRUE
    OBVIOUS
  <2>2. n - i \in Nat /\ n - (n - i) = i
    BY <2>1
  <2>. QED
    BY <2>1, <2>2
<1>2. PICK j \in T : \A x \in T : ~(<<x, j>> \in OpToRel(<, Nat))
  <2> HIDE DEF T
  <2>. QED
    BY <1>1, NatLessThanWellFounded, WFMin
<1>3. \A k \in P : k <= n - j
  <2> TAKE k \in P
  <2>1. n - k \in T
    <3>1. n - k \in Nat /\ n - (n - k) = k
      OBVIOUS
    <3>. QED
      BY <3>1
  <2>2. ~(n - k < j)
    BY <1>1, <1>2, <2>1 DEF OpToRel
  <2>. QED
    BY <2>1, <2>2
<1>. QED
  BY <1>2, <1>3

(* ... so a mesh that some mounted archive holds has a geometry.           *)
LEMMA GeometryType ==
    ASSUME NEW S \in Seq(Archives), NEW h, Providers(S, h) # {}
    PROVE  Geometry(S, h) \in Archives
<1>1. Providers(S, h) \in SUBSET (1..Len(S))
  BY DEF Providers
<1>2. \E i \in Providers(S, h) : \A k \in Providers(S, h) : k <= i
  <2>1. Len(S) \in Nat /\ Providers(S, h) # {}
    OBVIOUS
  <2> HIDE DEF Providers
  <2>. QED
    BY <1>1, <2>1, LastExists
<1> DEFINE last == CHOOSE i \in Providers(S, h) : \A k \in Providers(S, h) : k <= i
<1>3. last \in Providers(S, h)
  BY <1>2
<1>. QED
  BY <1>1, <1>3 DEF Geometry

(* What is read back from a whole file is what was written to it.          *)
LEMMA SerializedType ==
    ASSUME NEW e \in [Hashes -> {None} \cup Meshes]
    PROVE  Serialized(e) \in Images
BY DEF Serialized, Images, Meshes

LEMMA DeserializedType ==
    ASSUME NEW E \in Images
    PROVE  /\ Deserialized(E) \in [Hashes -> {None} \cup Meshes]
           /\ Serialized(Deserialized(E)) = E
<1>1. \A h \in Hashes : E[h] # None => [geom |-> E[h], by |-> None] \in Meshes
  BY DEF Images, Meshes
<1>2. Deserialized(E) \in [Hashes -> {None} \cup Meshes]
  BY <1>1 DEF Deserialized
<1>3. \A h \in Hashes : Serialized(Deserialized(E))[h] = E[h]
  BY <1>1, MeshCacheAssumption DEF Deserialized, Serialized
<1>. QED
  BY <1>2, <1>3 DEF Serialized, Images

(* A record that is cut off is gone: what is left keeps its meaning.       *)
LEMMA CutShortLabelled ==
    ASSUME NEW label, NEW E, Labelled(label, E), NEW F \in CutShort(E)
    PROVE  Labelled(label, F)
BY DEF Labelled, CutShort

LEMMA EmptyLabelled ==
    ASSUME NEW label
    PROVE  Empty \in Images /\ Labelled(label, Empty) /\ Serialized(Empty) = Empty
BY DEF Labelled, Empty, Images, Serialized

-----------------------------------------------------------------------------
(* Types.                                                                  *)

(* The parts of the state that a call, a flush or the environment changes. *)
LEMMA NewProcessType ==
    ASSUME TypeOK, NewProcess, disk' = disk, file' \in Files, damaged' = damaged
    PROVE  TypeOK'
<1>1. <<>> \in Seq(Paths \X Nat)
  OBVIOUS
<1>. QED
  BY <1>1, MeshCacheAssumption DEF TypeOK, NewProcess, Empty, Files

LEMMA SettledType ==
    ASSUME NEW f \in Files, NEW g \in Settled(f)
    PROVE  g \in Files
<1>1. CASE f = None \/ f.durable
  BY <1>1 DEF Settled
<1>2. CASE ~(f = None \/ f.durable)
  <2>1. PICK E \in CutShort(f.entries) :
           g = [f EXCEPT !.entries = E, !.whole = (E = f.entries), !.durable = TRUE]
    BY <1>2 DEF Settled
  <2>2. f \in Saved /\ E \in Images
    BY <1>2, <2>1 DEF Files, CutShort
  <2>3. (E = f.entries) \in BOOLEAN
    OBVIOUS
  <2>. QED
    BY <2>1, <2>2, <2>3 DEF Files, Saved
<1>. QED
  BY <1>1, <1>2

LEMMA FlushFailsType ==
    ASSUME TypeOK, FlushFails,
           UNCHANGED <<disk, depots, enabled, owner, fingerprint, entries, closing, readerVars, detached>>
    PROVE  TypeOK'
BY DEF TypeOK, FlushFails, Files, AfterFlush, readerVars

LEMMA TypeStep ==
    ASSUME TypeOK, FlushInv, CallInv, [Next]_vars
    PROVE  TypeOK'
<1> USE DEF TypeOK, cacheVars, fileVars, opVars, readerVars
<1>1. ASSUME NEW a \in Addrs, DepotOpen(a)
      PROVE  TypeOK'
  <2>1. PICK n \in 0..MaxArchives : \E S \in Openable(n) : depots' = [depots EXCEPT ![a] = S]
    BY <1>1 DEF DepotOpen
  <2>2. PICK S \in Openable(n) : depots' = [depots EXCEPT ![a] = S]
    BY <2>1
  <2>3. S \in [1..n -> Archives] /\ n \in Nat /\ n <= MaxArchives
    BY <2>2, MeshCacheAssumption DEF Openable
  <2>4. S \in Seq(Archives) /\ Len(S) <= MaxArchives
    BY <2>3
  <2>. QED
    BY <1>1, <2>2, <2>4 DEF DepotOpen
<1>2. ASSUME NEW a \in Addrs, DepotMount(a)
      PROVE  TypeOK'
  <2>1. PICK n \in 1..(MaxArchives - Len(depots[a])) : \E T \in Openable(n) :
           /\ depots' = [depots EXCEPT ![a] = @ \o T]
           /\ CacheInvalidate(a, depots[a] \o T)
    BY <1>2 DEF DepotMount
  <2>0. PICK T \in Openable(n) :
           /\ depots' = [depots EXCEPT ![a] = @ \o T]
           /\ CacheInvalidate(a, depots[a] \o T)
    BY <2>1
  <2> DEFINE S == depots[a] \o T
  <2>2. depots[a] \in Seq(Archives) /\ T \in Seq(Archives) /\ Len(T) = n
    BY <1>2, <2>0, MeshCacheAssumption DEF DepotMount, Openable
  <2>3. S \in Seq(Archives) /\ Len(S) <= MaxArchives
    BY <2>2, MeshCacheAssumption
  <2>4. Fingerprint(S) \in Seq(Paths \X Nat)
    BY <2>3, FingerprintType
  <2>5. depots' \in [Addrs -> {None} \cup Seq(Archives)]
        /\ \A b \in Addrs : depots'[b] # None => Len(depots'[b]) <= MaxArchives
    BY <2>0, <2>3
  <2> HIDE DEF S
  <2>. QED
    BY <1>2, <2>0, <2>4, <2>5 DEF DepotMount, CacheInvalidate, Empty, Holding, S
<1>3. ASSUME NEW a \in Addrs, DepotClose(a)
      PROVE  TypeOK'
  BY <1>3 DEF DepotClose
<1>4. ASSUME NEW a \in Addrs, CacheOpen(a)
      PROVE  TypeOK'
  <2>1. Fingerprint(depots[a]) \in Seq(Paths \X Nat)
    BY <1>4, FingerprintType DEF CacheOpen
  <2>2. PICK E \in LoadFromDisk(Fingerprint(depots[a])) : entries' = Deserialized(E)
    BY <1>4 DEF CacheOpen
  <2>3. E \in Images
    BY <2>2, EmptyLabelled DEF LoadFromDisk, CutShort
  <2>. QED
    BY <1>4, <2>1, <2>2, <2>3, DeserializedType DEF CacheOpen, Holding
<1>5. ASSUME NEW c \in BOOLEAN, CacheFlush(c)
      PROVE  TypeOK'
  BY <1>5 DEF CacheFlush, AfterFlush
<1>6. CASE FlushOpenFails
  BY <1>6 DEF FlushOpenFails, AfterFlush
<1>7. CASE FlushThrows
  BY <1>7 DEF FlushThrows
<1>8. CASE FlushWrite
  <2>1. CASE FlushFails
    BY <1>8, <2>1, FlushFailsType DEF FlushWrite
  <2>2. CASE ~FlushFails
    <3>1. [label |-> fingerprint, entries |-> Serialized(entries),
           durable |-> FALSE, whole |-> TRUE] \in Files
      BY SerializedType DEF Files, Saved
    <3>. QED
      BY <1>8, <2>2, <3>1 DEF FlushWrite
  <2>. QED
    BY <2>1, <2>2
<1>9. CASE FlushCommit
  <2>1. CASE FlushFails
    BY <1>9, <2>1, FlushFailsType DEF FlushCommit
  <2>2. CASE ~FlushFails
    <3>1. tmp \in Saved
      BY <1>9 DEF FlushCommit, FlushInv, Files
    <3>2. [tmp EXCEPT !.durable = TRUE] \in Files
      BY <3>1 DEF Files, Saved
    <3>. QED
      BY <1>9, <2>2, <3>2 DEF FlushCommit
  <2>. QED
    BY <2>1, <2>2
<1>10. CASE FlushRename
  <2>1. CASE FlushFails
    BY <1>10, <2>1, FlushFailsType DEF FlushRename
  <2>2. CASE ~FlushFails
    BY <1>10, <2>2 DEF FlushRename, RenameFails, Files, AfterFlush
  <2>. QED
    BY <2>1, <2>2
<1>11. CASE CacheClose
  BY <1>11 DEF CacheClose, Empty, Holding
<1>12. ASSUME NEW r \in Readers, Lookup(r)
       PROVE  TypeOK'
  <2>1. hash[r] \in Hashes
    BY <1>12 DEF Lookup, CallInv
  <2>2. CASE Found(r)
    BY <1>12, <2>1, <2>2 DEF Lookup, Found
  <2>3. CASE ~Found(r)
    BY <1>12, <2>3 DEF Lookup
  <2>. QED
    BY <2>2, <2>3
<1>13. ASSUME NEW r \in Readers, Build(r)
       PROVE  TypeOK'
  <2>1. CASE Forget(r)
    BY <1>13, <2>1, MeshCacheAssumption DEF Build, Forget
  <2>2. CASE ~Forget(r)
    <3> DEFINE mesh == [geom |-> Geometry(depots[at[r]], hash[r]), by |-> r]
    <3>1. depots[at[r]] \in Seq(Archives)
      BY <1>13 DEF Build, CallInv, Calling
    <3>2. mesh \in Meshes /\ mesh # None
      BY <1>13, <2>2, <3>1, GeometryType, MeshCacheAssumption DEF Build, Meshes
    <3>3. /\ got' = [got EXCEPT ![r] = mesh]
          /\ pc' = [pc EXCEPT ![r] = IF usable[r] THEN "Insert" ELSE "Have"]
          /\ UNCHANGED <<at, hash, usable>>
      BY <1>13, <2>2 DEF Build
    <3>4. UNCHANGED <<disk, depots, cacheVars, fileVars, opVars, detached>>
      BY <1>13 DEF Build
    <3> HIDE DEF mesh
    <3>. QED
      BY <3>2, <3>3, <3>4
  <2>. QED
    BY <2>1, <2>2
<1>14. ASSUME NEW r \in Readers, Insert(r)
       PROVE  TypeOK'
  <2>1. hash[r] \in Hashes /\ got[r] # None
    BY <1>14 DEF Insert, CallInv
  <2>2. /\ pc' = [pc EXCEPT ![r] = "Have"]
        /\ UNCHANGED <<disk, depots, enabled, owner, fingerprint, fileVars, opVars, at, hash, usable, detached>>
    BY <1>14 DEF Insert
  <2>3. CASE entries[hash[r]] = None
    <3>1. entries' = [entries EXCEPT ![hash[r]] = got[r]] /\ dirty' = TRUE /\ got' = got
      BY <1>14, <2>3 DEF Insert, Publish
    <3>. QED
      BY <2>1, <2>2, <3>1
  <2>4. CASE entries[hash[r]] # None
    <3>1. got' = [got EXCEPT ![r] = entries[hash[r]]] /\ UNCHANGED <<entries, dirty>>
      BY <1>14, <2>4 DEF Insert, Publish
    <3>. QED
      BY <2>1, <2>2, <2>4, <3>1
  <2>. QED
    BY <2>3, <2>4
<1>15. ASSUME NEW r \in Readers, MeshClose(r)
       PROVE  TypeOK'
  BY <1>15 DEF MeshClose, Forget
<1>16. ASSUME NEW r \in Readers, NEW a \in Addrs, NEW h \in Hashes, MeshOpen(r, a, h)
       PROVE  TypeOK'
  BY <1>16 DEF MeshOpen, Usable
<1>17. CASE Crash
  BY <1>17, NewProcessType DEF Crash
<1>18. CASE PowerLoss
  <2>1. file' \in Files
    BY <1>18, SettledType DEF PowerLoss
  <2>. QED
    BY <1>18, <2>1, NewProcessType DEF PowerLoss
<1>19. CASE Damage
  <2>1. file' \in Files
    BY <1>19 DEF Damage, Files, Saved, CutShort
  <2>. QED
    BY <1>19, <2>1 DEF Damage
<1>20. ASSUME NEW p \in Paths, NEW v \in Versions, Repack(p, v)
       PROVE  TypeOK'
  BY <1>20 DEF Repack
<1>21. CASE UNCHANGED vars
  BY <1>21 DEF vars
<1>. QED
  BY <1>1, <1>2, <1>3, <1>4, <1>5, <1>6, <1>7, <1>8, <1>9, <1>10, <1>11, <1>12, <1>13, <1>14,
     <1>15, <1>16, <1>17, <1>18, <1>19, <1>20, <1>21 DEF Next

-----------------------------------------------------------------------------
(* A flush runs alone and writes what is in memory.                        *)

LEMMA FlushStep ==
    ASSUME TypeOK, TypeOK', FlushInv, CallInv, [Next]_vars
    PROVE  FlushInv'
<1> USE DEF FlushInv, cacheVars, fileVars, opVars, readerVars
<1>1. ASSUME NEW a \in Addrs, DepotOpen(a) \/ DepotMount(a) \/ DepotClose(a) \/ CacheOpen(a)
      PROVE  FlushInv'
  <2>1. op = "idle" /\ UNCHANGED <<fileVars, opVars, readerVars>>
    BY <1>1 DEF DepotOpen, DepotMount, DepotClose, CacheOpen, Quiet
  <2>. QED
    BY <2>1
<1>2. ASSUME NEW c \in BOOLEAN, CacheFlush(c)
      PROVE  FlushInv'
  BY <1>2 DEF CacheFlush, Quiet, AfterFlush
<1>3. CASE FlushOpenFails
  BY <1>3 DEF FlushOpenFails, AfterFlush
<1>4. CASE FlushThrows
  BY <1>4 DEF FlushThrows
<1>5. CASE FlushWrite
  <2>1. CASE FlushFails
    BY <1>5, <2>1 DEF FlushWrite, FlushFails, AfterFlush
  <2>2. CASE ~FlushFails
    <3> DEFINE image == [label |-> fingerprint, entries |-> Serialized(entries),
                         durable |-> FALSE, whole |-> TRUE]
    <3>0. image \in Saved
      BY SerializedType DEF Saved, TypeOK
    <3>1. image # None
      BY <3>0, NoneDiffers
    <3>2. tmp' = image /\ op' = "commit" /\ UNCHANGED <<file, dirty, damaged>>
      BY <1>5, <2>2 DEF FlushWrite
    <3>3. Serialized(entries)' = Serialized(entries)
      BY <1>5 DEF FlushWrite, Serialized
    <3>. QED
      BY <1>5, <3>1, <3>2, <3>3 DEF FlushWrite
  <2>. QED
    BY <2>1, <2>2
<1>6. CASE FlushCommit
  <2>1. CASE FlushFails
    BY <1>6, <2>1 DEF FlushCommit, FlushFails, AfterFlush
  <2>2. CASE ~FlushFails
    <3>1. tmp \in Saved
      BY <1>6 DEF FlushCommit, TypeOK, Files
    <3>2. tmp' = [tmp EXCEPT !.durable = TRUE] /\ op' = "rename" /\ UNCHANGED <<file, dirty, damaged>>
      BY <1>6, <2>2 DEF FlushCommit
    <3>3. tmp' \in Saved
      BY <3>1, <3>2 DEF Saved
    <3>6. tmp' # None
      BY <3>3, NoneDiffers
    <3>4. Serialized(entries)' = Serialized(entries)
      BY <1>6 DEF FlushCommit, Serialized
    <3>5. tmp'.durable /\ tmp'.whole = tmp.whole /\ tmp'.label = tmp.label /\ tmp'.entries = tmp.entries
      BY <3>1, <3>2 DEF Saved
    <3>. QED
      BY <1>6, <3>2, <3>4, <3>5, <3>6 DEF FlushCommit
  <2>. QED
    BY <2>1, <2>2
<1>7. CASE FlushRename
  BY <1>7 DEF FlushRename, RenameFails, FlushFails, AfterFlush
<1>8. CASE CacheClose
  BY <1>8 DEF CacheClose
<1>9. ASSUME NEW r \in Readers, Lookup(r) \/ Build(r) \/ Insert(r)
      PROVE  FlushInv'
  <2>1. op = "idle" /\ UNCHANGED <<fileVars, opVars>>
    BY <1>9 DEF Lookup, Build, Insert
  <2>. QED
    BY <2>1
<1>10. ASSUME NEW r \in Readers, MeshClose(r)
       PROVE  FlushInv'
  <2>1. Serialized(entries)' = Serialized(entries)
    BY <1>10 DEF MeshClose, Serialized
  <2>. QED
    BY <1>10, <2>1 DEF MeshClose, Forget, TypeOK
<1>11. ASSUME NEW r \in Readers, NEW a \in Addrs, NEW h \in Hashes, MeshOpen(r, a, h)
       PROVE  FlushInv'
  BY <1>11 DEF MeshOpen
<1>12. CASE Crash
  BY <1>12 DEF Crash, NewProcess
<1>13. CASE PowerLoss
  <2>1. op' = "idle"
    BY <1>13 DEF PowerLoss, NewProcess
  <2>2. file' = file
    BY <1>13 DEF PowerLoss, Settled
  <2>. QED
    BY <2>1, <2>2
<1>14. CASE Damage
  <2>1. file' # None => file'.durable
    BY <1>14 DEF Damage, TypeOK, Files, Saved
  <2>2. Serialized(entries)' = Serialized(entries)
    BY <1>14 DEF Damage, Serialized
  <2>. QED
    BY <1>14, <2>1, <2>2 DEF Damage
<1>15. ASSUME NEW p \in Paths, NEW v \in Versions, Repack(p, v)
       PROVE  FlushInv'
  BY <1>15 DEF Repack, Serialized
<1>16. CASE UNCHANGED vars
  BY <1>16 DEF vars, Serialized
<1>. QED
  BY <1>1, <1>2, <1>3, <1>4, <1>5, <1>6, <1>7, <1>8, <1>9, <1>10, <1>11, <1>12, <1>13, <1>14,
     <1>15, <1>16 DEF Next

(* A call that may use the cache has the depot the cache belongs to.       *)
LEMMA CallStep ==
    ASSUME TypeOK, TypeOK', FlushInv, CallInv, [Next]_vars
    PROVE  CallInv'
<1> USE DEF CallInv, Calling, cacheVars, fileVars, opVars, readerVars
<1>1. ASSUME NEW a \in Addrs, DepotOpen(a) \/ DepotMount(a) \/ DepotClose(a) \/ CacheOpen(a)
      PROVE  CallInv'
  <2>1. (\A r \in Readers : pc[r] \in {"Out", "Have"}) /\ UNCHANGED readerVars
    BY <1>1 DEF DepotOpen, DepotMount, DepotClose, CacheOpen, Quiet
  <2>2. enabled' => owner' \in Addrs
    BY <1>1 DEF DepotOpen, DepotMount, DepotClose, CacheOpen, CacheInvalidate
  <2>. QED
    BY <2>1, <2>2
<1>2. CASE (\E c \in BOOLEAN : CacheFlush(c)) \/ FlushOpenFails \/ FlushThrows
  BY <1>2 DEF CacheFlush, FlushOpenFails, FlushThrows
<1>3. CASE FlushWrite \/ FlushCommit \/ FlushRename
  BY <1>3 DEF FlushWrite, FlushCommit, FlushRename
<1>4. CASE CacheClose
  BY <1>4 DEF CacheClose, FlushInv
<1>5. ASSUME NEW r \in Readers, Lookup(r)
      PROVE  CallInv'
  BY <1>5 DEF Lookup, TypeOK
<1>6. ASSUME NEW r \in Readers, Build(r)
      PROVE  CallInv'
  <2>1. CASE Forget(r)
    BY <1>6, <2>1 DEF Build, Forget, TypeOK
  <2>2. CASE ~Forget(r)
    <3>1. pc' = [pc EXCEPT ![r] = IF usable[r] THEN "Insert" ELSE "Have"]
          /\ UNCHANGED <<at, hash, usable>>
      BY <1>6, <2>2 DEF Build
    <3>. QED
      BY <1>6, <3>1 DEF Build, TypeOK
  <2>. QED
    BY <2>1, <2>2
<1>7. ASSUME NEW r \in Readers, Insert(r)
      PROVE  CallInv'
  BY <1>7 DEF Insert, TypeOK
<1>8. ASSUME NEW r \in Readers, MeshClose(r)
      PROVE  CallInv'
  BY <1>8 DEF MeshClose, Forget, TypeOK
<1>9. ASSUME NEW r \in Readers, NEW a \in Addrs, NEW h \in Hashes, MeshOpen(r, a, h)
      PROVE  CallInv'
  BY <1>9 DEF MeshOpen, Usable, TypeOK
<1>10. CASE Crash \/ PowerLoss
  BY <1>10 DEF Crash, PowerLoss, NewProcess
<1>11. CASE Damage
  BY <1>11 DEF Damage
<1>13. ASSUME NEW p \in Paths, NEW v \in Versions, Repack(p, v)
       PROVE  CallInv'
  BY <1>13 DEF Repack
<1>12. CASE UNCHANGED vars
  BY <1>12 DEF vars
<1>. QED
  BY <1>1, <1>2, <1>3, <1>4, <1>5, <1>6, <1>7, <1>8, <1>9, <1>10, <1>11, <1>12,
     <1>13 DEF Next

-----------------------------------------------------------------------------
(* The file.                                                               *)

(* Only a flush that has committed its image, a power loss and damage from *)
(* outside change the file.                                                *)
LEMMA FileStep ==
    ASSUME TypeOK, FlushInv, [Next]_vars
    PROVE  \/ file' = file /\ damaged' = damaged
           \/ /\ op = "rename" /\ file' = tmp /\ damaged' = FALSE /\ dirty' = FALSE
              /\ UNCHANGED <<enabled, fingerprint, entries>>
           \/ Damage
<1> USE DEF cacheVars, fileVars, opVars, readerVars
<1>1. ASSUME NEW a \in Addrs, DepotOpen(a) \/ DepotMount(a) \/ DepotClose(a) \/ CacheOpen(a)
      PROVE  file' = file /\ damaged' = damaged
  BY <1>1 DEF DepotOpen, DepotMount, DepotClose, CacheOpen
<1>2. CASE (\E c \in BOOLEAN : CacheFlush(c)) \/ FlushOpenFails \/ FlushThrows
  BY <1>2 DEF CacheFlush, FlushOpenFails, FlushThrows
<1>3. CASE FlushWrite \/ FlushCommit
  BY <1>3 DEF FlushWrite, FlushCommit, FlushFails
<1>4. CASE FlushRename
  BY <1>4 DEF FlushRename, RenameFails, FlushFails
<1>5. CASE CacheClose
  BY <1>5 DEF CacheClose
<1>6. ASSUME NEW r \in Readers, Lookup(r) \/ Build(r) \/ Insert(r) \/ MeshClose(r)
      PROVE  file' = file /\ damaged' = damaged
  BY <1>6 DEF Lookup, Build, Insert, MeshClose
<1>7. ASSUME NEW r \in Readers, NEW a \in Addrs, NEW h \in Hashes, MeshOpen(r, a, h)
      PROVE  file' = file /\ damaged' = damaged
  BY <1>7 DEF MeshOpen
<1>8. CASE Crash
  BY <1>8 DEF Crash
<1>9. CASE PowerLoss
  BY <1>9 DEF PowerLoss, Settled, FlushInv
<1>10. ASSUME NEW p \in Paths, NEW v \in Versions, Repack(p, v)
       PROVE  file' = file /\ damaged' = damaged
  BY <1>10 DEF Repack
<1>11. CASE UNCHANGED vars
  BY <1>11 DEF vars
<1>. QED
  BY <1>1, <1>2, <1>3, <1>4, <1>5, <1>6, <1>7, <1>8, <1>9, <1>10, <1>11 DEF Next

LEMMA TornStep ==
    ASSUME TypeOK, FlushInv, NeverTorn, [Next]_vars
    PROVE  NeverTorn'
<1>1. CASE file' = file /\ damaged' = damaged
  BY <1>1 DEF NeverTorn
<1>2. CASE op = "rename" /\ file' = tmp
  BY <1>2 DEF NeverTorn, FlushInv
<1>3. CASE Damage
  BY <1>3 DEF Damage, NeverTorn
<1>. QED
  BY <1>1, <1>2, <1>3, FileStep

LEMMA LostStep ==
    ASSUME TypeOK, FlushInv, [Next]_vars
    PROVE  file # None => file' # None
<1>1. CASE file' = file
  BY <1>1
<1>2. CASE op = "rename" /\ file' = tmp
  BY <1>2 DEF FlushInv
<1>3. CASE Damage
  <2>1. PICK E \in CutShort(file.entries) : file' = [file EXCEPT !.entries = E, !.whole = FALSE]
    BY <1>3 DEF Damage
  <2>2. file \in Saved /\ E \in Images
    BY <1>3, <2>1 DEF Damage, TypeOK, Files, CutShort
  <2>3. file' \in Saved
    BY <2>1, <2>2 DEF Saved
  <2>. QED
    BY <2>3, NoneDiffers
<1>. QED
  BY <1>1, <1>2, <1>3, FileStep

(* Entries change where nothing is lost: with a file that has them, or to  *)
(* none, or by a mesh that makes the cache dirty.                          *)
LEMMA EntriesStep ==
    ASSUME TypeOK, [Next]_vars
    PROVE  \/ UNCHANGED <<enabled, fingerprint, dirty, entries>>
           \/ \E a \in Addrs : CacheOpen(a)
           \/ entries' = Empty
           \/ dirty' /\ enabled' = enabled
           \/ op = "rename" /\ UNCHANGED <<enabled, fingerprint, entries>> /\ file' = tmp
<1> USE DEF cacheVars, fileVars, opVars, readerVars
<1>1. ASSUME NEW a \in Addrs, DepotOpen(a) \/ DepotClose(a)
      PROVE  UNCHANGED <<enabled, fingerprint, dirty, entries>>
  BY <1>1 DEF DepotOpen, DepotClose
<1>2. ASSUME NEW a \in Addrs, DepotMount(a)
      PROVE  UNCHANGED <<enabled, fingerprint, dirty, entries>> \/ entries' = Empty
  BY <1>2 DEF DepotMount, CacheInvalidate
<1>3. CASE (\E c \in BOOLEAN : CacheFlush(c)) \/ FlushOpenFails \/ FlushThrows
  BY <1>3 DEF CacheFlush, FlushOpenFails, FlushThrows
<1>4. CASE FlushWrite \/ FlushCommit
  BY <1>4 DEF FlushWrite, FlushCommit, FlushFails
<1>5. CASE FlushRename
  BY <1>5 DEF FlushRename, RenameFails, FlushFails
<1>6. CASE CacheClose \/ Crash \/ PowerLoss
  BY <1>6 DEF CacheClose, Crash, PowerLoss, NewProcess
<1>7. ASSUME NEW r \in Readers, Lookup(r) \/ Build(r) \/ MeshClose(r)
      PROVE  UNCHANGED <<enabled, fingerprint, dirty, entries>>
  BY <1>7 DEF Lookup, Build, MeshClose
<1>8. ASSUME NEW r \in Readers, Insert(r)
      PROVE  UNCHANGED <<enabled, fingerprint, dirty, entries>> \/ (dirty' /\ enabled' = enabled)
  BY <1>8 DEF Insert, Publish
<1>9. ASSUME NEW r \in Readers, NEW a \in Addrs, NEW h \in Hashes, MeshOpen(r, a, h)
      PROVE  UNCHANGED <<enabled, fingerprint, dirty, entries>>
  BY <1>9 DEF MeshOpen
<1>10. CASE Damage
  BY <1>10 DEF Damage
<1>11. ASSUME NEW p \in Paths, NEW v \in Versions, Repack(p, v)
       PROVE  UNCHANGED <<enabled, fingerprint, dirty, entries>>
  BY <1>11 DEF Repack
<1>12. CASE UNCHANGED vars
  BY <1>12 DEF vars
<1>. QED
  BY <1>1, <1>2, <1>3, <1>4, <1>5, <1>6, <1>7, <1>8, <1>9, <1>10, <1>11, <1>12 DEF Next

LEMMA SavedStep ==
    ASSUME TypeOK, FlushInv, CleanMeansSaved, [Next]_vars
    PROVE  CleanMeansSaved'
<1>1. CASE \E a \in Addrs : CacheOpen(a)
  <2>1. PICK a \in Addrs : CacheOpen(a)
    BY <1>1
  <2>2. PICK E \in LoadFromDisk(fingerprint') : entries' = Deserialized(E)
    BY <2>1 DEF CacheOpen
  <2>3. file' = file
    BY <2>1 DEF CacheOpen, fileVars
  <2>4. ASSUME NEW h \in Hashes, entries'[h] # None
        PROVE  file # None /\ file.label = fingerprint' /\ file.entries[h] = entries'[h].geom
    <3>1. E[h] # None /\ entries'[h].geom = E[h]
      BY <2>2, <2>4 DEF Deserialized
    <3>2. file # None /\ file.label = fingerprint' /\ E \in CutShort(file.entries)
      BY <2>2, <3>1 DEF LoadFromDisk, Empty
    <3>. QED
      BY <3>1, <3>2 DEF CutShort
  <2>. QED
    BY <2>3, <2>4 DEF CleanMeansSaved
<1>2. CASE entries' = Empty
  BY <1>2 DEF CleanMeansSaved, Empty
<1>3. CASE dirty'
  BY <1>3 DEF CleanMeansSaved
<1>4. CASE op = "rename" /\ UNCHANGED <<enabled, fingerprint, entries>> /\ file' = tmp
  BY <1>4 DEF CleanMeansSaved, FlushInv, Serialized
<1>5. CASE UNCHANGED <<enabled, fingerprint, dirty, entries>>
  <2>1. CASE file' = file
    BY <1>5, <2>1 DEF CleanMeansSaved
  <2>2. CASE op = "rename" /\ file' = tmp
    BY <1>4, <1>5, <2>2
  <2>3. CASE Damage
    BY <1>5, <2>3 DEF Damage, CleanMeansSaved, cacheVars
  <2>. QED
    BY <2>1, <2>2, <2>3, FileStep
<1>. QED
  BY <1>1, <1>2, <1>3, <1>4, <1>5, EntriesStep

-----------------------------------------------------------------------------
(* The handles.                                                            *)

LEMMA HandleStep ==
    ASSUME TypeOK, FlushInv, CallInv, HandleInv, [Next]_vars
    PROVE  HandleInv'
<1> USE DEF HandleInv, Holding, cacheVars, fileVars, opVars, readerVars
<1>1. ASSUME NEW a \in Addrs, DepotOpen(a) \/ DepotClose(a)
      PROVE  HandleInv'
  BY <1>1 DEF DepotOpen, DepotClose
<1>2. ASSUME NEW a \in Addrs, DepotMount(a)
      PROVE  HandleInv'
  BY <1>2 DEF DepotMount, CacheInvalidate
<1>3. ASSUME NEW a \in Addrs, CacheOpen(a)
      PROVE  HandleInv'
  BY <1>3 DEF CacheOpen
<1>4. CASE (\E c \in BOOLEAN : CacheFlush(c)) \/ FlushOpenFails \/ FlushThrows
  BY <1>4 DEF CacheFlush, FlushOpenFails, FlushThrows
<1>5. CASE FlushWrite \/ FlushCommit \/ FlushRename
  BY <1>5 DEF FlushWrite, FlushCommit, FlushRename
<1>6. CASE CacheClose
  BY <1>6 DEF CacheClose
<1>7. ASSUME NEW r \in Readers, Lookup(r)
      PROVE  HandleInv'
  <2>1. r \notin Holding
    BY <1>7 DEF Lookup
  <2>2. \A s \in Readers \ {r} : pc'[s] = pc[s] /\ got'[s] = got[s]
    BY <1>7 DEF Lookup, TypeOK
  <2>3. pc'[r] = "Have" => got'[r] = entries[hash[r]]
    BY <1>7 DEF Lookup, TypeOK
  <2>4. UNCHANGED <<entries, hash, usable, detached>>
    BY <1>7 DEF Lookup
  <2>. QED
    BY <2>1, <2>2, <2>3, <2>4 DEF TypeOK
<1>8. ASSUME NEW r \in Readers, Build(r)
      PROVE  HandleInv'
  <2>1. r \notin Holding
    BY <1>8 DEF Build
  <2>2. CASE Forget(r)
    BY <1>8, <2>1, <2>2 DEF Build, Forget, TypeOK
  <2>3. CASE ~Forget(r)
    <3>1. pc' = [pc EXCEPT ![r] = IF usable[r] THEN "Insert" ELSE "Have"]
          /\ (\A s \in Readers \ {r} : got'[s] = got[s]) /\ UNCHANGED <<hash, usable, entries, detached>>
      BY <1>8, <2>3 DEF Build, TypeOK
    <3>. QED
      BY <2>1, <3>1 DEF TypeOK
  <2>. QED
    BY <2>2, <2>3
<1>9. ASSUME NEW r \in Readers, Insert(r)
      PROVE  HandleInv'
  <2>1. r \notin Holding /\ hash[r] \in Hashes
    BY <1>9 DEF Insert, CallInv
  <2>2. pc' = [pc EXCEPT ![r] = "Have"] /\ UNCHANGED <<hash, usable, detached>>
    BY <1>9 DEF Insert
  <2>3. CASE entries[hash[r]] = None
    <3>1. entries' = [entries EXCEPT ![hash[r]] = got[r]] /\ got' = got
      BY <1>9, <2>3 DEF Insert, Publish
    <3>2. \A s \in Holding \ detached : usable[s] => hash[s] # hash[r]
      BY <2>3 DEF TypeOK
    <3>. QED
      BY <2>1, <2>2, <3>1, <3>2 DEF TypeOK
  <2>4. CASE entries[hash[r]] # None
    <3>1. got' = [got EXCEPT ![r] = entries[hash[r]]] /\ entries' = entries
      BY <1>9, <2>4 DEF Insert, Publish
    <3>. QED
      BY <2>1, <2>2, <3>1 DEF TypeOK
  <2>. QED
    BY <2>3, <2>4
<1>10. ASSUME NEW r \in Readers, MeshClose(r)
       PROVE  HandleInv'
  BY <1>10 DEF MeshClose, Forget, TypeOK
<1>11. ASSUME NEW r \in Readers, NEW a \in Addrs, NEW h \in Hashes, MeshOpen(r, a, h)
       PROVE  HandleInv'
  BY <1>11 DEF MeshOpen, TypeOK
<1>12. CASE Crash \/ PowerLoss
  BY <1>12 DEF Crash, PowerLoss, NewProcess
<1>13. CASE Damage
  BY <1>13 DEF Damage
<1>14. ASSUME NEW p \in Paths, NEW v \in Versions, Repack(p, v)
       PROVE  HandleInv'
  BY <1>14 DEF Repack
<1>15. CASE UNCHANGED vars
  BY <1>15 DEF vars
<1>. QED
  BY <1>1, <1>2, <1>3, <1>4, <1>5, <1>6, <1>7, <1>8, <1>9, <1>10, <1>11, <1>12, <1>13, <1>14,
     <1>15 DEF Next

-----------------------------------------------------------------------------
(* The labels.  What is in memory is the geometry of the owner's archives  *)
(* while no depot takes the address of one that was closed.                *)

LEMMA OwnEntries ==
    ASSUME TypeOK, LabelInv, enabled, owner \in Addrs, depots[owner] # None,
           NEW h \in Hashes, entries[h] # None
    PROVE  /\ Providers(depots[owner], h) # {}
           /\ entries[h].geom = Geometry(depots[owner], h)
<1> DEFINE S == depots[owner]
           n == Len(S)
<1>1. S \in Seq(Archives) /\ n \in 0..MaxArchives /\ S \in [1..n -> Archives]
  BY DEF TypeOK
<1>2. Fingerprint(S) = fingerprint
  BY DEF LabelInv
<1>3. entries[h].geom \in Archives /\ Serialized(entries)[h] = entries[h].geom
  BY DEF TypeOK, Meshes, Serialized
<1>4. Serialized(entries)[h] # None
  BY <1>3, NoneDiffers
<1> HIDE DEF S, n
<1>5. Providers(S, h) # {} /\ Serialized(entries)[h] = Geometry(S, h)
  BY <1>1, <1>2, <1>4 DEF LabelInv, Labelled
<1>. QED
  BY <1>3, <1>5 DEF S

(* A mesh of the owner's archives may join the others.                     *)
LEMMA JoinLabelled ==
    ASSUME TypeOK, LabelInv, enabled, owner \in Addrs, depots[owner] # None,
           NEW h \in Hashes, NEW m \in Meshes, Providers(depots[owner], h) # {},
           m.geom = Geometry(depots[owner], h)
    PROVE  Labelled(fingerprint, Serialized([entries EXCEPT ![h] = m]))
<1> DEFINE e == [entries EXCEPT ![h] = m]
<1> SUFFICES ASSUME NEW n \in 0..MaxArchives, NEW S \in [1..n -> Archives],
                    Fingerprint(S) = fingerprint, NEW k \in Hashes, Serialized(e)[k] # None
             PROVE  Providers(S, k) # {} /\ Serialized(e)[k] = Geometry(S, k)
  BY DEF Labelled
<1>1. S = depots[owner]
  <2>1. n \in Nat
    BY MeshCacheAssumption
  <2>2. S \in Seq(Archives) /\ depots[owner] \in Seq(Archives)
    BY <2>1 DEF TypeOK
  <2>3. Fingerprint(S) = Fingerprint(depots[owner])
    BY DEF LabelInv
  <2>. QED
    BY <2>2, <2>3, FingerprintInjective
<1>2. CASE k = h
  <2>1. e[k] = m /\ m # None
    BY <1>2, NoneDiffers DEF TypeOK
  <2>. QED
    BY <1>1, <1>2, <2>1 DEF Serialized
<1>3. CASE k # h
  <2>1. Serialized(e)[k] = Serialized(entries)[k]
    BY <1>3 DEF Serialized, TypeOK
  <2>. QED
    BY <2>1 DEF LabelInv, Labelled
<1>. QED
  BY <1>2, <1>3

LEMMA LabelStep ==
    ASSUME ~ReuseAddress, TypeOK, FlushInv, CallInv, LabelInv, FileSound, [Next]_vars
    PROVE  LabelInv'
<1> USE DEF cacheVars, fileVars, opVars, readerVars
<1>1. ASSUME NEW a \in Addrs, DepotOpen(a)
      PROVE  LabelInv'
  <2>1. a # owner /\ (\A r \in Readers : pc[r] # "Insert")
    BY <1>1 DEF DepotOpen, Quiet
  <2>2. UNCHANGED <<cacheVars, readerVars>> /\ \A b \in Addrs \ {a} : depots'[b] = depots[b]
    BY <1>1 DEF DepotOpen, TypeOK
  <2>. QED
    BY <2>1, <2>2 DEF LabelInv, CallInv, Serialized
<1>2. ASSUME NEW a \in Addrs, DepotMount(a)
      PROVE  LabelInv'
  <2>1. PICK S : /\ depots' = [depots EXCEPT ![a] = S]
                 /\ CacheInvalidate(a, S)
    BY <1>2 DEF DepotMount
  <2>2. \A r \in Readers : pc'[r] # "Insert"
    BY <1>2 DEF DepotMount, Quiet
  <2>3. CASE enabled /\ owner = a /\ Fingerprint(S) # fingerprint
    BY <2>1, <2>2, <2>3, EmptyLabelled DEF CacheInvalidate, LabelInv, TypeOK
  <2>4. CASE ~enabled \/ owner # a \/ Fingerprint(S) = fingerprint
    <3>1. UNCHANGED cacheVars
      BY <2>1, <2>4 DEF CacheInvalidate
    <3>2. enabled /\ depots'[owner] # None => fingerprint = Fingerprint(depots'[owner])
      BY <2>1, <2>4 DEF LabelInv, TypeOK, CallInv
    <3>. QED
      BY <2>2, <3>1, <3>2 DEF LabelInv, Serialized
  <2>. QED
    BY <2>3, <2>4
<1>3. ASSUME NEW a \in Addrs, DepotClose(a)
      PROVE  LabelInv'
  <2>1. \A r \in Readers : pc'[r] # "Insert"
    BY <1>3 DEF DepotClose, Quiet
  <2>. QED
    BY <1>3, <2>1 DEF DepotClose, LabelInv, CallInv, TypeOK, Serialized
<1>4. ASSUME NEW a \in Addrs, CacheOpen(a)
      PROVE  LabelInv'
  <2>1. PICK E \in LoadFromDisk(fingerprint') : entries' = Deserialized(E)
    BY <1>4 DEF CacheOpen
  <2>2. E \in Images /\ Labelled(fingerprint', E)
    BY <2>1, EmptyLabelled, CutShortLabelled DEF LoadFromDisk, CutShort, FileSound
  <2>3. Serialized(entries') = E
    BY <2>1, <2>2, DeserializedType
  <2>4. \A r \in Readers : pc'[r] # "Insert"
    BY <1>4 DEF CacheOpen, Quiet
  <2>. QED
    BY <1>4, <2>2, <2>3, <2>4 DEF CacheOpen, LabelInv
<1>5. CASE (\E c \in BOOLEAN : CacheFlush(c)) \/ FlushOpenFails \/ FlushThrows
  <2>1. UNCHANGED <<depots, cacheVars, readerVars>>
    BY <1>5 DEF CacheFlush, FlushOpenFails, FlushThrows
  <2>. QED
    BY <2>1 DEF LabelInv, Serialized
<1>6. CASE FlushWrite \/ FlushCommit \/ FlushRename
  <2>1. UNCHANGED <<depots, enabled, owner, fingerprint, entries, readerVars>>
    BY <1>6 DEF FlushWrite, FlushCommit, FlushRename
  <2>. QED
    BY <2>1 DEF LabelInv, Serialized
<1>7. CASE CacheClose
  <2>1. \A r \in Readers : pc'[r] # "Insert"
    BY <1>7 DEF CacheClose, FlushInv
  <2>. QED
    BY <1>7, <2>1, EmptyLabelled DEF CacheClose, LabelInv
<1>8. ASSUME NEW r \in Readers, Lookup(r)
      PROVE  LabelInv'
  <2>1. UNCHANGED <<depots, cacheVars, at, hash>>
    BY <1>8 DEF Lookup
  <2>2. \A s \in Readers : pc'[s] = "Insert" => pc[s] = "Insert" /\ got'[s] = got[s]
    BY <1>8 DEF Lookup, TypeOK
  <2>. QED
    BY <2>1, <2>2 DEF LabelInv, Serialized
<1>9. ASSUME NEW r \in Readers, Build(r)
      PROVE  LabelInv'
  <2>1. UNCHANGED <<depots, cacheVars>>
    BY <1>9 DEF Build
  <2>2. CASE Forget(r)
    <3>1. \A s \in Readers : pc'[s] = "Insert" =>
             pc[s] = "Insert" /\ got'[s] = got[s] /\ at'[s] = at[s] /\ hash'[s] = hash[s]
      BY <2>2 DEF Forget, TypeOK
    <3>. QED
      BY <2>1, <3>1 DEF LabelInv, Serialized
  <2>3. CASE ~Forget(r)
    <3>1. /\ Providers(depots[at[r]], hash[r]) # {} /\ UNCHANGED <<at, hash, usable>>
          /\ got' = [got EXCEPT ![r] = [geom |-> Geometry(depots[at[r]], hash[r]), by |-> r]]
          /\ pc' = [pc EXCEPT ![r] = IF usable[r] THEN "Insert" ELSE "Have"]
      BY <1>9, <2>3 DEF Build
    <3>2. got'[r].geom = Geometry(depots[at[r]], hash[r])
      BY <3>1 DEF TypeOK
    <3>3. \A s \in Readers \ {r} : pc'[s] = pc[s] /\ got'[s] = got[s]
      BY <3>1 DEF TypeOK
    <3>. QED
      BY <2>1, <3>1, <3>2, <3>3 DEF LabelInv, Serialized
  <2>. QED
    BY <2>2, <2>3
<1>10. ASSUME NEW r \in Readers, Insert(r)
       PROVE  LabelInv'
  <2>1. /\ enabled /\ owner = at[r] /\ owner \in Addrs /\ depots[owner] # None
        /\ hash[r] \in Hashes /\ pc[r] = "Insert"
    BY <1>10 DEF Insert, CallInv, Calling
  <2>2. UNCHANGED <<depots, enabled, owner, fingerprint, at, hash>>
    BY <1>10 DEF Insert
  <2>3. \A s \in Readers : pc'[s] = "Insert" => pc[s] = "Insert" /\ got'[s] = got[s]
    BY <1>10 DEF Insert, Publish, TypeOK
  <2>4. Labelled(fingerprint, Serialized(entries'))
    <3>1. CASE entries' = entries
      BY <3>1 DEF LabelInv
    <3>2. CASE entries' = [entries EXCEPT ![hash[r]] = got[r]]
      <4>1. got[r] \in Meshes
        BY <2>1 DEF TypeOK
      <4>2. Providers(depots[owner], hash[r]) # {} /\ got[r].geom = Geometry(depots[owner], hash[r])
        BY <2>1 DEF LabelInv
      <4>. QED
        BY <2>1, <3>2, <4>1, <4>2, JoinLabelled
    <3>. QED
      BY <1>10, <3>1, <3>2 DEF Insert, Publish
  <2>. QED
    BY <2>2, <2>3, <2>4 DEF LabelInv
<1>11. ASSUME NEW r \in Readers, MeshClose(r)
       PROVE  LabelInv'
  <2>1. \A s \in Readers : pc'[s] = "Insert" =>
           pc[s] = "Insert" /\ got'[s] = got[s] /\ at'[s] = at[s] /\ hash'[s] = hash[s]
    BY <1>11 DEF MeshClose, Forget, TypeOK
  <2>. QED
    BY <1>11, <2>1 DEF MeshClose, LabelInv, Serialized
<1>12. ASSUME NEW r \in Readers, NEW a \in Addrs, NEW h \in Hashes, MeshOpen(r, a, h)
       PROVE  LabelInv'
  <2>1. \A s \in Readers : pc'[s] = "Insert" =>
           pc[s] = "Insert" /\ got'[s] = got[s] /\ at'[s] = at[s] /\ hash'[s] = hash[s]
    BY <1>12 DEF MeshOpen, TypeOK
  <2>. QED
    BY <1>12, <2>1 DEF MeshOpen, LabelInv, Serialized
<1>13. CASE Crash \/ PowerLoss
  <2>1. /\ ~enabled' /\ entries' = Empty
        /\ \A r \in Readers : pc'[r] = "Out"
    BY <1>13 DEF Crash, PowerLoss, NewProcess
  <2>. QED
    BY <2>1, EmptyLabelled DEF LabelInv
<1>14. CASE Damage
  BY <1>14 DEF Damage, LabelInv, Serialized
<1>15. ASSUME NEW p \in Paths, NEW v \in Versions, Repack(p, v)
       PROVE  LabelInv'
  BY <1>15 DEF Repack, LabelInv, Serialized
<1>16. CASE UNCHANGED vars
  BY <1>16 DEF vars, LabelInv, Serialized
<1>. QED
  BY <1>1, <1>2, <1>3, <1>4, <1>5, <1>6, <1>7, <1>8, <1>9, <1>10, <1>11, <1>12, <1>13, <1>14,
     <1>15, <1>16 DEF Next

LEMMA SoundStep ==
    ASSUME TypeOK, FlushInv, LabelInv, FileSound, [Next]_vars
    PROVE  FileSound'
<1>1. CASE file' = file
  BY <1>1 DEF FileSound
<1>2. CASE op = "rename" /\ file' = tmp
  BY <1>2 DEF FileSound, FlushInv, LabelInv
<1>3. CASE Damage
  <2>1. PICK E \in CutShort(file.entries) : file' = [file EXCEPT !.entries = E, !.whole = FALSE]
    BY <1>3 DEF Damage
  <2>2. file \in Saved
    BY <1>3 DEF Damage, TypeOK, Files
  <2>3. file'.label = file.label /\ file'.entries = E
    BY <2>1, <2>2 DEF Saved
  <2>4. Labelled(file.label, E)
    BY <1>3, <2>1, CutShortLabelled DEF Damage, FileSound
  <2>. QED
    BY <2>3, <2>4 DEF FileSound
<1>. QED
  BY <1>1, <1>2, <1>3, FileStep

(* A call returns with a mesh in three ways: found, decoded, or inserted.  *)
LEMMA ServesStep ==
    ASSUME ~ReuseAddress, TypeOK, FlushInv, CallInv, LabelInv, [Next]_vars,
           NEW r \in Readers, pc[r] # "Have", pc'[r] = "Have"
    PROVE  /\ Providers(depots[at[r]], hash[r]) # {}
           /\ got'[r].geom = Geometry(depots[at[r]], hash[r])
<1> USE DEF readerVars
<1>1. CASE Lookup(r)
  <2>1. hash[r] \in Hashes /\ entries[hash[r]] # None /\ got'[r] = entries[hash[r]]
    BY <1>1 DEF Lookup, Found, CallInv, TypeOK
  <2>2. enabled /\ owner = at[r] /\ owner \in Addrs /\ depots[owner] # None
    BY <1>1 DEF Lookup, CallInv, Calling
  <2>. QED
    BY <2>1, <2>2, OwnEntries
<1>2. CASE Build(r)
  <2>1. ~Forget(r)
    BY DEF Forget, TypeOK
  <2>. QED
    BY <1>2, <2>1 DEF Build, TypeOK
<1>3. CASE Insert(r)
  <2>1. hash[r] \in Hashes /\ pc[r] = "Insert"
    BY <1>3 DEF Insert, CallInv
  <2>2. enabled /\ owner = at[r] /\ owner \in Addrs /\ depots[owner] # None
    BY <2>1 DEF CallInv, Calling
  <2>3. CASE entries[hash[r]] = None
    <3>1. got'[r] = got[r]
      BY <1>3, <2>3 DEF Insert, Publish
    <3>. QED
      BY <2>1, <3>1 DEF LabelInv
  <2>4. CASE entries[hash[r]] # None
    <3>1. got'[r] = entries[hash[r]]
      BY <1>3, <2>4 DEF Insert, Publish, TypeOK
    <3>. QED
      BY <2>1, <2>2, <2>4, <3>1, OwnEntries
  <2>. QED
    BY <2>3, <2>4
<1>4. ASSUME NEW s \in Readers, Lookup(s) \/ Build(s) \/ Insert(s) \/ MeshClose(s), s # r
      PROVE  FALSE
  <2>1. pc'[r] = pc[r]
    BY <1>4 DEF Lookup, Build, Insert, MeshClose, Forget, TypeOK
  <2>. QED
    BY <2>1
<1>5. ASSUME NEW s \in Readers, NEW a \in Addrs, NEW h \in Hashes, MeshOpen(s, a, h)
      PROVE  FALSE
  BY <1>5 DEF MeshOpen, TypeOK
<1>6. CASE MeshClose(r)
  BY <1>6 DEF MeshClose
<1>7. CASE Crash \/ PowerLoss
  BY <1>7 DEF Crash, PowerLoss, NewProcess
<1>8. CASE pc' = pc
  BY <1>8
<1>9. ASSUME \/ \E a \in Addrs : DepotOpen(a) \/ DepotMount(a) \/ DepotClose(a) \/ CacheOpen(a)
             \/ \E c \in BOOLEAN : CacheFlush(c)
             \/ FlushOpenFails \/ FlushThrows \/ FlushWrite \/ FlushCommit \/ FlushRename
             \/ CacheClose \/ Damage
             \/ \E p \in Paths, v \in Versions : Repack(p, v)
             \/ UNCHANGED vars
      PROVE  pc' = pc
  BY <1>9 DEF DepotOpen, DepotMount, DepotClose, CacheOpen, CacheFlush, FlushOpenFails, FlushThrows,
              FlushWrite, FlushCommit, FlushRename, CacheClose, Damage, Repack, vars
<1>. QED
  BY <1>1, <1>2, <1>3, <1>4, <1>5, <1>6, <1>7, <1>8, <1>9 DEF Next

-----------------------------------------------------------------------------
(* The theorems.                                                           *)

LEMMA InitInv ==
    ASSUME Init
    PROVE  CacheInv
<1> USE DEF Init
<1>1. <<>> \in Seq(Paths \X Nat)
  OBVIOUS
<1>2. TypeOK
  BY <1>1, MeshCacheAssumption DEF TypeOK, Empty, Files
<1>3. FileSound /\ NeverTorn /\ CleanMeansSaved /\ FlushInv /\ CallInv /\ HandleInv
  BY DEF FileSound, NeverTorn, CleanMeansSaved, FlushInv, CallInv, Calling, HandleInv, Holding
<1>4. LabelInv
  BY EmptyLabelled DEF LabelInv
<1>. QED
  BY <1>2, <1>3, <1>4 DEF CacheInv

(* Whatever the allocator does with addresses, what the cache keeps on     *)
(* disk is never partial and never behind a cache that calls itself clean. *)
(* A flush, a crash and a power loss cannot break it, because a flush runs *)
(* alone, writes a sibling, and renames only what it has committed.        *)
THEOREM Durable == Spec => [](TypeOK /\ FlushInv /\ CallInv /\ NeverTorn /\ CleanMeansSaved /\ HandleInv)
<1> DEFINE Inv == TypeOK /\ FlushInv /\ CallInv /\ NeverTorn /\ CleanMeansSaved /\ HandleInv
<1>1. Init => Inv
  BY InitInv DEF CacheInv
<1>2. Inv /\ [Next]_vars => Inv'
  <2> SUFFICES ASSUME Inv, [Next]_vars
               PROVE  Inv'
    OBVIOUS
  <2>1. TypeOK'
    BY TypeStep
  <2>2. FlushInv' /\ CallInv'
    BY <2>1, FlushStep, CallStep
  <2>3. NeverTorn' /\ CleanMeansSaved' /\ HandleInv'
    BY TornStep, SavedStep, HandleStep
  <2>. QED
    BY <2>1, <2>2, <2>3
<1>. QED
  BY <1>1, <1>2, PTL DEF Spec

(* mesh_acquire hands every caller the same object for the same hash: two  *)
(* handles that are not older than the entries are entries themselves.     *)
THEOREM OneObjectPerHash == Spec => []OneObject
<1>1. HandleInv => OneObject
  BY DEF HandleInv, OneObject, Holding
<1>. QED
  BY <1>1, Durable, PTL

(* The cache file, once there, is there for good: no flush, failing or     *)
(* cut short by a crash, takes it away before its successor is in place.   *)
THEOREM FileIsKept == Spec => NeverLost
<1>1. TypeOK /\ FlushInv /\ [Next]_vars => [file # None => file' # None]_vars
  BY LostStep
<1>. QED
  BY <1>1, Durable, PTL DEF Spec, NeverLost

(* While no depot takes the address of one that was closed, nothing in     *)
(* memory or on disk is ever under a label it does not belong to.  (With   *)
(* ReuseAddress the run MeshCacheAddressReuse shows a counterexample.)     *)
THEOREM LabelsTrue == ASSUME ~ReuseAddress PROVE Spec => []CacheInv
<1>1. Init => CacheInv
  BY InitInv
<1>2. CacheInv /\ [Next]_vars => CacheInv'
  <2> SUFFICES ASSUME CacheInv, [Next]_vars
               PROVE  CacheInv'
    OBVIOUS
  <2> USE DEF CacheInv
  <2>1. TypeOK'
    BY TypeStep
  <2>2. FlushInv' /\ CallInv'
    BY <2>1, FlushStep, CallStep
  <2>3. NeverTorn' /\ CleanMeansSaved' /\ HandleInv'
    BY TornStep, SavedStep, HandleStep
  <2>4. FileSound' /\ LabelInv'
    BY SoundStep, LabelStep
  <2>. QED
    BY <2>1, <2>2, <2>3, <2>4
<1>. QED
  BY <1>1, <1>2, PTL DEF Spec

(* redfs.h's promise, from the same hypothesis: the cache cannot serve     *)
(* stale geometry, whether it decodes, finds or inserts.                   *)
THEOREM NeverStale == ASSUME ~ReuseAddress PROVE Spec => ServesCurrent
<1>1. CacheInv /\ [Next]_vars =>
        [\A r \in Readers : pc[r] # "Have" /\ pc'[r] = "Have" =>
          LET S == depots[at[r]] IN
          Providers(S, hash[r]) # {} /\ got'[r].geom = Geometry(S, hash[r])]_vars
  BY ServesStep DEF CacheInv
<1>. QED
  BY <1>1, LabelsTrue, PTL DEF Spec, ServesCurrent

=============================================================================
