----------------------------- MODULE MeshCache ------------------------------
(***************************************************************************)
(* The persistent mesh cache of RedFS (cache.cpp), with the exports that   *)
(* drive it: redfs_mesh_open and _close, redfs_cache_open, _flush, _close  *)
(* and _warm, and the depot calls that change what a mesh hash means.      *)
(*                                                                         *)
(* A mesh is known by the archive its geometry was decoded from.  Archives *)
(* on disk may be repacked in place while no depot has them mounted, the   *)
(* process may be killed and the machine may lose power at any time.       *)
(*                                                                         *)
(* redfs.h allows redfs_mesh_* to run concurrently with one another, but   *)
(* redfs_cache_*, mounting and closing only when nothing else runs.        *)
(***************************************************************************)
EXTENDS Naturals, Sequences

CONSTANTS
    Paths,        \* archive files on disk
    Versions,     \* what an archive file may hold
    Hashes,       \* mesh hashes
    Addrs,        \* addresses a depot can be allocated at
    Readers,      \* threads that open meshes
    Crc,          \* index CRC of each version
    Holds,        \* the hashes each archive file holds
    MaxArchives,  \* bound on the archives of one depot
    ReuseAddress, \* may the allocator reuse the address the cache remembers?
    None          \* nothing, closed, null

Archives == [path : Paths, version : Versions]

(* The mesh a depot with archives S resolves hash h to: the last-mounted   *)
(* archive that holds it.                                                  *)
Providers(S, h) == {i \in DOMAIN S : h \in Holds[S[i].path]}
Geometry(S, h) == S[CHOOSE i \in Providers(S, h) : \A k \in Providers(S, h) : k <= i]

(* depot_fingerprint: every mounted archive, in order, by path and index   *)
(* CRC; collisions of the 64-bit hash over them are left out.              *)
Fingerprint(S) == [i \in DOMAIN S |-> <<S[i].path, Crc[S[i].version]>>]

(* A mesh in memory: what it was decoded from and, to tell objects apart,  *)
(* the reader that built it (None: it was loaded from the cache file).     *)
Meshes == [geom : Archives, by : Readers \cup {None}]

(* The records of a cache file, and what a file cut short still yields.    *)
Images == [Hashes -> {None} \cup Archives]
Saved == [label : Seq(Paths \X Nat), entries : Images, durable : BOOLEAN, whole : BOOLEAN]
Files == {None} \cup Saved

ASSUME MeshCacheAssumption ==
    /\ Crc \in [Versions -> Nat]
    /\ \A v, w \in Versions : Crc[v] = Crc[w] => v = w
    /\ Holds \in [Paths -> SUBSET Hashes]
    /\ MaxArchives \in Nat
    /\ ReuseAddress \in BOOLEAN
    /\ None \notin Addrs \cup Readers \cup Archives \cup Meshes \cup Saved

Empty == [h \in Hashes |-> None]
Serialized(e) == [h \in Hashes |-> IF e[h] = None THEN None ELSE e[h].geom]
Deserialized(E) == [h \in Hashes |-> IF E[h] = None THEN None ELSE [geom |-> E[h], by |-> None]]
CutShort(E) == {F \in Images : \A h \in Hashes : F[h] = E[h] \/ F[h] = None}

VARIABLES
    disk,        \* version of each archive file
    depots,      \* archives of the depot at each address, or None
    \* struct Cache
    enabled, owner, fingerprint, dirty, entries,
    \* the cache file and its sibling ".tmp"
    file, tmp,
    \* a redfs_cache_flush or redfs_cache_close in progress
    op, closing,
    \* redfs_mesh_open calls in progress and the handles they returned
    pc, at, hash, usable, got,
    \* history
    detached,    \* handles older than the last clearing of entries
    damaged      \* the file was cut short by something other than RedFS

cacheVars  == <<enabled, owner, fingerprint, dirty, entries>>
fileVars   == <<file, tmp, damaged>>
opVars     == <<op, closing>>
readerVars == <<pc, at, hash, usable, got>>
vars == <<disk, depots, cacheVars, fileVars, opVars, readerVars, detached>>

(* Every part keeps its kind of value, and an open handle has a mesh.      *)
TypeOK ==
    /\ disk \in [Paths -> Versions]
    /\ depots \in [Addrs -> {None} \cup Seq(Archives)]
    /\ \A a \in Addrs : depots[a] # None => Len(depots[a]) <= MaxArchives
    /\ enabled \in BOOLEAN /\ dirty \in BOOLEAN
    /\ owner \in Addrs \cup {None}
    /\ fingerprint \in Seq(Paths \X Nat)
    /\ entries \in [Hashes -> {None} \cup Meshes]
    /\ file \in Files /\ tmp \in Files
    /\ op \in {"idle", "write", "commit", "rename", "close"}
    /\ closing \in BOOLEAN
    /\ pc \in [Readers -> {"Out", "Lookup", "Build", "Insert", "Have"}]
    /\ at \in [Readers -> Addrs \cup {None}]
    /\ hash \in [Readers -> Hashes \cup {None}]
    /\ usable \in [Readers -> BOOLEAN]
    /\ got \in [Readers -> {None} \cup Meshes]
    /\ \A r \in Readers : pc[r] \in {"Insert", "Have"} => got[r] # None
    /\ detached \subseteq Readers
    /\ damaged \in BOOLEAN

Init ==
    /\ disk \in [Paths -> Versions]
    /\ file = None /\ tmp = None /\ damaged = FALSE
    /\ depots = [a \in Addrs |-> None]
    /\ enabled = FALSE /\ owner = None /\ fingerprint = <<>> /\ dirty = FALSE
    /\ entries = Empty
    /\ op = "idle" /\ closing = FALSE
    /\ pc = [r \in Readers |-> "Out"]
    /\ at = [r \in Readers |-> None]
    /\ hash = [r \in Readers |-> None]
    /\ usable = [r \in Readers |-> FALSE]
    /\ got = [r \in Readers |-> None]
    /\ detached = {}

-----------------------------------------------------------------------------
(* The depot.                                                              *)

(* Nothing runs: what redfs.h asks of mounting, closing and redfs_cache_*. *)
Quiet == op = "idle" /\ \A r \in Readers : pc[r] \in {"Out", "Have"}
Holding == {r \in Readers : pc[r] = "Have"}

(* Between one and MaxArchives archives, as they are on disk.              *)
Openable(n) == {S \in [1..n -> Archives] : \A i \in 1..n : S[i].version = disk[S[i].path]}

(* redfs_depot_open and, with no archives, redfs_depot_open_empty.         *)
DepotOpen(a) ==
    /\ Quiet
    /\ depots[a] = None
    /\ a = owner => ReuseAddress
    /\ \E n \in 0..MaxArchives : \E S \in Openable(n) : depots' = [depots EXCEPT ![a] = S]
    /\ UNCHANGED <<disk, cacheVars, fileVars, opVars, readerVars, detached>>

(* cache_invalidate for the depot at a, which now has archives S: drop the *)
(* entries and relabel, or nothing if the cache is not this depot's.       *)
CacheInvalidate_Relabel(a, S) ==
    /\ fingerprint' = IF enabled /\ owner = a THEN Fingerprint(S) ELSE fingerprint
    /\ UNCHANGED <<enabled, owner, dirty, entries, detached>>

CacheInvalidate(a, S) ==
    \/ /\ enabled /\ owner = a
       /\ Fingerprint(S) # fingerprint
       /\ fingerprint' = Fingerprint(S)
       /\ entries' = Empty
       /\ dirty' = FALSE
       /\ detached' = Holding
       /\ UNCHANGED <<enabled, owner>>
    \/ /\ ~enabled \/ owner # a \/ Fingerprint(S) = fingerprint
       /\ UNCHANGED <<cacheVars, detached>>

(* redfs_depot_mount and redfs_depot_mount_dir: at least one archive more. *)
DepotMount(a) ==
    /\ Quiet
    /\ depots[a] # None
    /\ \E n \in 1..(MaxArchives - Len(depots[a])) : \E T \in Openable(n) :
          /\ depots' = [depots EXCEPT ![a] = @ \o T]
          /\ CacheInvalidate(a, depots[a] \o T)
    /\ UNCHANGED <<disk, fileVars, opVars, readerVars>>

(* redfs_depot_close: the cache is not told.                               *)
DepotClose(a) ==
    /\ Quiet
    /\ depots[a] # None
    /\ depots' = [depots EXCEPT ![a] = None]
    /\ UNCHANGED <<disk, cacheVars, fileVars, opVars, readerVars, detached>>

-----------------------------------------------------------------------------
(* redfs_cache_open, redfs_cache_flush, redfs_cache_close.                 *)

(* load_from_disk: nothing unless the file carries the current label, then *)
(* its records up to the first that cannot be read.                        *)
LoadFromDisk_AnyLabel(label) ==
    IF file = None THEN {Empty} ELSE CutShort(file.entries)
LoadFromDisk(label) ==
    IF file = None \/ file.label # label THEN {Empty} ELSE CutShort(file.entries)

CacheOpen(a) ==
    /\ Quiet
    /\ depots[a] # None
    /\ LET label == Fingerprint(depots[a]) IN
       \E E \in LoadFromDisk(label) :
          /\ fingerprint' = label
          /\ entries' = Deserialized(E)
    /\ enabled' = TRUE
    /\ owner' = a
    /\ dirty' = FALSE
    /\ detached' = Holding
    /\ UNCHANGED <<disk, depots, fileVars, opVars, readerVars>>

AfterFlush(c) == IF c THEN "close" ELSE "idle"

(* cache_flush up to its early return; c: called from cache_close (or from *)
(* redfs_shutdown through it).                                             *)
CacheFlush(c) ==
    /\ Quiet
    /\ closing' = c
    /\ op' = IF enabled /\ dirty THEN "write" ELSE AfterFlush(c)
    /\ UNCHANGED <<disk, depots, cacheVars, fileVars, readerVars, detached>>

(* A step of the flush failed: the sibling, if opened, is removed.         *)
FlushFails ==
    /\ tmp' = None
    /\ op' = AfterFlush(closing)
    /\ UNCHANGED <<file, dirty, damaged>>

FlushOpenFails ==
    /\ op = "write"
    /\ op' = AfterFlush(closing)
    /\ UNCHANGED <<disk, depots, cacheVars, fileVars, closing, readerVars, detached>>

(* Building the image runs out of memory: the exception also leaves        *)
(* cache_close, which then resets nothing.                                 *)
FlushThrows ==
    /\ op = "write"
    /\ op' = "idle" /\ closing' = FALSE
    /\ UNCHANGED <<disk, depots, cacheVars, fileVars, readerVars, detached>>

FlushWrite ==
    /\ op = "write"
    /\ \/ FlushFails
       \/ /\ tmp' = [label |-> fingerprint, entries |-> Serialized(entries),
                     durable |-> FALSE, whole |-> TRUE]
          /\ op' = "commit"
          /\ UNCHANGED <<file, dirty, damaged>>
    /\ UNCHANGED <<disk, depots, enabled, owner, fingerprint, entries, closing, readerVars,
                   detached>>

FlushCommit ==
    /\ op = "commit"
    /\ \/ FlushFails
       \/ /\ tmp' = [tmp EXCEPT !.durable = TRUE]
          /\ op' = "rename"
          /\ UNCHANGED <<file, dirty, damaged>>
    /\ UNCHANGED <<disk, depots, enabled, owner, fingerprint, entries, closing, readerVars,
                   detached>>

(* MoveFileEx replaces in one step or leaves the old file as it was.       *)
RenameFails_Deleted ==
    /\ tmp' = None /\ file' = None
    /\ op' = AfterFlush(closing)
    /\ UNCHANGED <<dirty, damaged>>
RenameFails == FlushFails

FlushRename ==
    /\ op = "rename"
    /\ \/ RenameFails
       \/ /\ file' = tmp
          /\ tmp' = None
          /\ damaged' = FALSE
          /\ dirty' = FALSE
          /\ op' = AfterFlush(closing)
    /\ UNCHANGED <<disk, depots, enabled, owner, fingerprint, entries, closing, readerVars,
                   detached>>

(* The rest of cache_close, whatever became of the flush; dirty stays.     *)
CacheClose ==
    /\ op = "close"
    /\ entries' = Empty
    /\ enabled' = FALSE
    /\ owner' = None
    /\ detached' = Holding
    /\ op' = "idle"
    /\ closing' = FALSE
    /\ UNCHANGED <<disk, depots, fingerprint, dirty, fileVars, readerVars>>

-----------------------------------------------------------------------------
(* redfs_mesh_open: mesh_acquire, in the steps other readers can see.      *)

Usable_AnyDepot(a) == enabled
Usable(a) == enabled /\ owner = a

MeshOpen(r, a, h) ==
    /\ op = "idle"
    /\ pc[r] = "Out"
    /\ depots[a] # None
    /\ at' = [at EXCEPT ![r] = a]
    /\ hash' = [hash EXCEPT ![r] = h]
    /\ usable' = [usable EXCEPT ![r] = Usable(a)]
    /\ pc' = [pc EXCEPT ![r] = IF Usable(a) THEN "Lookup" ELSE "Build"]
    /\ UNCHANGED <<disk, depots, cacheVars, fileVars, opVars, got, detached>>

Found(r) == entries[hash[r]] # None

Lookup(r) ==
    /\ pc[r] = "Lookup"
    /\ \/ /\ Found(r)
          /\ got' = [got EXCEPT ![r] = entries[hash[r]]]
          /\ pc' = [pc EXCEPT ![r] = "Have"]
       \/ /\ ~Found(r)
          /\ pc' = [pc EXCEPT ![r] = "Build"]
          /\ UNCHANGED got
    /\ UNCHANGED <<disk, depots, cacheVars, fileVars, opVars, at, hash, usable, detached>>

(* The call is over, or the handle is: its locals go.                      *)
Forget(r) ==
    /\ pc' = [pc EXCEPT ![r] = "Out"]
    /\ at' = [at EXCEPT ![r] = None]
    /\ hash' = [hash EXCEPT ![r] = None]
    /\ usable' = [usable EXCEPT ![r] = FALSE]
    /\ got' = [got EXCEPT ![r] = None]

(* mesh_build, which fails on a hash no archive holds and may fail on any. *)
Build(r) ==
    /\ pc[r] = "Build"
    /\ \/ Forget(r)
       \/ /\ Providers(depots[at[r]], hash[r]) # {}
          /\ got' = [got EXCEPT ![r] = [geom |-> Geometry(depots[at[r]], hash[r]), by |-> r]]
          /\ pc' = [pc EXCEPT ![r] = IF usable[r] THEN "Insert" ELSE "Have"]
          /\ UNCHANGED <<at, hash, usable>>
    /\ UNCHANGED <<disk, depots, cacheVars, fileVars, opVars, detached>>

(* Insert unless another reader has; keep whichever is in the cache.       *)
Publish_Overwrite(r) ==
    /\ entries' = [entries EXCEPT ![hash[r]] = got[r]]
    /\ dirty' = TRUE
    /\ UNCHANGED got
Publish(r) ==
    \/ /\ entries[hash[r]] = None
       /\ entries' = [entries EXCEPT ![hash[r]] = got[r]]
       /\ dirty' = TRUE
       /\ UNCHANGED got
    \/ /\ entries[hash[r]] # None
       /\ got' = [got EXCEPT ![r] = entries[hash[r]]]
       /\ UNCHANGED <<entries, dirty>>

Insert(r) ==
    /\ pc[r] = "Insert"
    /\ Publish(r)
    /\ pc' = [pc EXCEPT ![r] = "Have"]
    /\ UNCHANGED <<disk, depots, enabled, owner, fingerprint, fileVars, opVars, at, hash, usable,
                   detached>>

(* redfs_mesh_close.                                                       *)
MeshClose(r) ==
    /\ pc[r] = "Have"
    /\ Forget(r)
    /\ detached' = detached \ {r}
    /\ UNCHANGED <<disk, depots, cacheVars, fileVars, opVars>>

-----------------------------------------------------------------------------
(* The environment.                                                        *)

(* The next process starts with nothing.  A left-over ".tmp" is never      *)
(* read: the next flush opens it for writing from scratch.                 *)
NewProcess ==
    /\ tmp' = None
    /\ depots' = [a \in Addrs |-> None]
    /\ enabled' = FALSE /\ owner' = None /\ fingerprint' = <<>> /\ dirty' = FALSE
    /\ entries' = Empty
    /\ op' = "idle" /\ closing' = FALSE
    /\ pc' = [r \in Readers |-> "Out"]
    /\ at' = [r \in Readers |-> None]
    /\ hash' = [r \in Readers |-> None]
    /\ usable' = [r \in Readers |-> FALSE]
    /\ got' = [r \in Readers |-> None]
    /\ detached' = {}

(* The process ends or is killed; the system keeps what was written.       *)
Crash ==
    /\ NewProcess
    /\ UNCHANGED <<disk, file, damaged>>

(* The machine stops: what was not committed may be cut short.             *)
Settled(f) ==
    IF f = None \/ f.durable THEN {f}
    ELSE {[f EXCEPT !.entries = E, !.whole = (E = f.entries), !.durable = TRUE] :
             E \in CutShort(f.entries)}

PowerLoss ==
    /\ NewProcess
    /\ file' \in Settled(file)
    /\ UNCHANGED <<disk, damaged>>

(* An archive nobody has mounted is repacked in place.                     *)
Repack(p, v) ==
    /\ \A a \in Addrs : depots[a] # None =>
          \A i \in DOMAIN depots[a] : depots[a][i].path # p
    /\ disk' = [disk EXCEPT ![p] = v]
    /\ UNCHANGED <<depots, cacheVars, fileVars, opVars, readerVars, detached>>

(* The cache file is cut short while RedFS is not using it.                *)
Damage ==
    /\ ~enabled
    /\ file # None
    /\ \E E \in CutShort(file.entries) :
          file' = [file EXCEPT !.entries = E, !.whole = FALSE]
    /\ damaged' = TRUE
    /\ UNCHANGED <<disk, depots, cacheVars, tmp, opVars, readerVars, detached>>

Next ==
    \/ \E a \in Addrs : DepotOpen(a) \/ DepotMount(a) \/ DepotClose(a) \/ CacheOpen(a)
    \/ \E c \in BOOLEAN : CacheFlush(c)
    \/ FlushOpenFails \/ FlushThrows \/ FlushWrite \/ FlushCommit \/ FlushRename \/ CacheClose
    \/ \E r \in Readers : Lookup(r) \/ Build(r) \/ Insert(r) \/ MeshClose(r)
    \/ \E r \in Readers, a \in Addrs, h \in Hashes : MeshOpen(r, a, h)
    \/ Crash \/ PowerLoss \/ Damage
    \/ \E p \in Paths, v \in Versions : Repack(p, v)

Spec == Init /\ [][Next]_vars
-----------------------------------------------------------------------------
(* Properties.                                                             *)

(* redfs.h: the cache cannot serve stale geometry.  What redfs_mesh_open   *)
(* returns is what its depot holds now, whether it was decoded, found in   *)
(* memory or came from a file of an earlier session, and whichever depot   *)
(* the cache belongs to.                                                   *)
ServesCurrent ==
    [][\A r \in Readers : pc[r] # "Have" /\ pc'[r] = "Have" =>
          LET S == depots[at[r]] IN
          Providers(S, hash[r]) # {} /\ got'[r].geom = Geometry(S, hash[r])]_vars

(* cache_invalidate: nothing is ever written under a label it does not     *)
(* belong to.  For any archive set the file's label matches, each of its   *)
(* records is that set's geometry.                                         *)
Labelled(label, E) ==
    \A n \in 0..MaxArchives : \A S \in [1..n -> Archives] : Fingerprint(S) = label =>
        \A h \in Hashes : E[h] # None => Providers(S, h) # {} /\ E[h] = Geometry(S, h)
FileSound == file # None => Labelled(file.label, file.entries)

(* cache_flush: a crash or a power loss never leaves a partial cache file  *)
(* in the place of a good one.                                             *)
NeverTorn == file # None => file.whole \/ damaged

(* ... and neither does a flush that fails: the file is there until a      *)
(* complete one replaces it.                                               *)
NeverLost == [][file # None => file' # None]_vars

(* dirty: when it is clear, everything in memory is in the file, under the *)
(* same label; so skipping the flush loses nothing.                        *)
CleanMeansSaved ==
    enabled /\ ~dirty =>
        \A h \in Hashes : entries[h] # None =>
            file # None /\ file.label = fingerprint /\ file.entries[h] = entries[h].geom

(* Why these hold at every step.  A flush runs alone, on a cache that is   *)
(* open, and what it has written is what is in memory; what it renames has *)
(* been committed.  A call that may use the cache has the owner's depot.   *)
FlushInv ==
    /\ op # "idle" => \A r \in Readers : pc[r] \in {"Out", "Have"}
    /\ op \in {"write", "commit", "rename"} => enabled
    /\ op \in {"commit", "rename"} =>
          tmp # None /\ tmp.whole /\ tmp.label = fingerprint /\ tmp.entries = Serialized(entries)
    /\ op = "rename" => tmp.durable
    /\ file # None => file.durable
Calling == {r \in Readers : pc[r] \in {"Lookup", "Build", "Insert"}}
CallInv ==
    /\ enabled => owner \in Addrs
    /\ \A r \in Readers : pc[r] # "Out" => hash[r] \in Hashes
    /\ \A r \in Calling :
          /\ at[r] \in Addrs /\ depots[at[r]] # None
          /\ usable[r] => enabled /\ owner = at[r]
          /\ pc[r] # "Build" => usable[r]

(* The cache knows the archives of its owner, and what it holds, and what  *)
(* is about to join it, is their geometry.                                 *)
LabelInv ==
    /\ enabled /\ depots[owner] # None => fingerprint = Fingerprint(depots[owner])
    /\ Labelled(fingerprint, Serialized(entries))
    /\ \A r \in Readers : pc[r] = "Insert" =>
          LET S == depots[at[r]] IN
          Providers(S, hash[r]) # {} /\ got[r].geom = Geometry(S, hash[r])

(* A handle that is not older than the entries is one of them.             *)
HandleInv ==
    /\ detached \subseteq Holding
    /\ \A r \in Holding \ detached : usable[r] => entries[hash[r]] = got[r]

(* The file and what is cached of it, in whatever state a crash left them. *)
CacheInv ==
    /\ TypeOK /\ FileSound /\ NeverTorn /\ CleanMeansSaved
    /\ FlushInv /\ CallInv /\ LabelInv /\ HandleInv

(* mesh_acquire: all callers observe one object per hash.                  *)
OneObject ==
    \A r, s \in Holding \ detached :
        usable[r] /\ usable[s] /\ hash[r] = hash[s] => got[r] = got[s]
=============================================================================
