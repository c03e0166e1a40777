----------------------------- MODULE PathCache ------------------------------
(***************************************************************************)
(* The persistent path cache of RedFS (paths.cpp): the process-wide path   *)
(* dictionary, the file it is saved to, and the record of which archives   *)
(* were already harvested into it.                                         *)
(*                                                                         *)
(* redfs.h serialises the redfs_path_cache_* calls with one another, so    *)
(* one of them runs at a time (`op').  Reads on any other thread keep      *)
(* teaching the dictionary while it does: they take the dictionary's mutex *)
(* only, which a flush releases before it builds and writes the image.     *)
(***************************************************************************)
EXTENDS Naturals, FiniteSets

CONSTANTS
    Paths,      \* depot paths, each named by its hash
    Long,       \* the ones longer than kMaxPathLength
    Held,       \* the ones some mounted archive holds
    Archives,   \* archives, named by archive_fingerprint
    Imports,    \* the paths the CR2W files of an archive import
    Files,      \* cache files a host may open
    None        \* no file, no archive

ASSUME PathCacheAssumption ==
    /\ Paths \subseteq Nat /\ IsFiniteSet(Paths)
    /\ Long \subseteq Paths /\ Held \subseteq Paths
    /\ IsFiniteSet(Archives)
    /\ Imports \in [Archives -> SUBSET Paths]
    /\ None \notin Files \cup Archives

(***************************************************************************)
(* A cache file: its digests, how many records its header declares, the    *)
(* paths of the records that can be read (they are sorted by hash), how    *)
(* many more records are read but unusable, and whether the bytes have     *)
(* reached the disk.  A file shorter than its header is as good as absent. *)
(***************************************************************************)
Images == [kind : {"none", "bad", "ok"}, digests : SUBSET Archives, declared : Nat,
           paths : SUBSET Paths, refused : Nat, synced : BOOLEAN]

NoImage(k) == [kind |-> k, digests |-> {}, declared |-> 0, paths |-> {},
               refused |-> 0, synced |-> TRUE]

Loaded(img) == Cardinality(img.paths) + img.refused

(* The file ends before the record of path p.                              *)
CutAt(img, p) == [img EXCEPT !.paths = {q \in @ : q < p}]

VARIABLES
    dict,      \* paths in the dictionary (sorted and pending together)
    learning,  \* Dictionary::enabled
    cache,     \* PathCache, without its mutex
    disk,      \* the cache files
    op,        \* the path-cache call in progress
    teach,     \* the archive being harvested and its files still to read
    fault      \* history: which fault of a restore can still be felt

vars == <<dict, learning, cache, disk, op, teach, fault>>

Closed == [enabled |-> FALSE, file |-> None, harvested |-> {},
           written_paths |-> 0, written_archives |-> 0, stale_file |-> FALSE]

(* `why' is the export the call was made from, `target' what it opens and  *)
(* `image' the temporary file of a flush.                                  *)
Idle == [pc |-> "idle", why |-> "flush", target |-> None, image |-> NoImage("none")]

NoTeach == [archive |-> None, todo |-> {}]

TypeOK ==
    /\ dict \subseteq Paths
    /\ learning \in BOOLEAN
    /\ cache \in [enabled : BOOLEAN, file : Files \cup {None}, harvested : SUBSET Archives,
                  written_paths : Nat, written_archives : Nat, stale_file : BOOLEAN]
    /\ disk \in [Files -> Images]
    /\ op \in [pc : {"idle", "flush", "write", "commit", "rename", "reset", "load"},
               why : {"flush", "open", "close"}, target : Files \cup {None}, image : Images]
    /\ teach \in [archive : Archives \cup {None}, todo : SUBSET Paths]
    /\ fault \in {"none", "unread", "partial"}

Init ==
    /\ dict = {}
    /\ learning = FALSE
    /\ cache = Closed
    /\ disk = [f \in Files |-> NoImage("none")]
    /\ op = Idle
    /\ teach = NoTeach
    /\ fault = "none"

----------------------------------------------------------------------------
(* The dictionary.  Every route that adds goes through add_locked, which   *)
(* ignores a path past the length limit and keeps the first of a hash.     *)
Added(S) == dict \cup (S \ Long)

PathAdd(p) ==
    /\ dict' = Added({p})
    /\ UNCHANGED <<learning, cache, disk, op, teach, fault>>

PathEnable ==
    /\ learning' = TRUE
    /\ UNCHANGED <<dict, cache, disk, op, teach, fault>>

(* A list is filtered against the depot, and switches learning on.         *)
PathLoad(S) ==
    /\ learning' = TRUE
    /\ dict' = Added(S \cap Held)
    /\ UNCHANGED <<cache, disk, op, teach, fault>>

(* paths_learn_imports: the early-out reads `enabled' without the lock.    *)
Learned(S) == IF learning THEN Added(S) ELSE dict

----------------------------------------------------------------------------
(* Harvesting, in the shape redfs.h documents: an archive that             *)
(* redfs_path_cache_pending lists is read file by file, then marked.       *)
Pending(a) == cache.enabled /\ a \notin cache.harvested

TeachStart(a) ==
    /\ op.pc = "idle" /\ teach = NoTeach
    /\ Pending(a)
    /\ teach' = [archive |-> a, todo |-> Imports[a]]
    /\ UNCHANGED <<dict, learning, cache, disk, op, fault>>

TeachRead(p) ==
    /\ p \in teach.todo
    /\ dict' = Learned({p})
    /\ teach' = [teach EXCEPT !.todo = @ \ {p}]
    /\ UNCHANGED <<learning, cache, disk, op, fault>>

Mark ==
    /\ op.pc = "idle" /\ teach.archive # None /\ teach.todo = {}
    /\ cache' = IF cache.enabled
                THEN [cache EXCEPT !.harvested = @ \cup {teach.archive}]
                ELSE cache
    /\ teach' = NoTeach
    /\ UNCHANGED <<dict, learning, disk, op, fault>>

----------------------------------------------------------------------------
(* path_cache_flush, alone or as the first thing open and close do.        *)
Call(why, f) ==
    /\ op.pc = "idle"
    /\ op' = [Idle EXCEPT !.pc = "flush", !.why = why, !.target = f]
    /\ UNCHANGED <<dict, learning, cache, disk, teach, fault>>

FlushCall == Call("flush", None)
OpenCall(f) == Call("open", f)
CloseCall == Call("close", None)

(* Where a flush goes when it is over: open ignores its status and takes   *)
(* the cache over, close resets it.                                        *)
Return == IF op.why = "flush" THEN Idle ELSE [op EXCEPT !.pc = "reset", !.image = NoImage("none")]

(* Dictionary and coverage only grow, so equal sizes mean a current file.  *)
Current ==
    /\ ~cache.stale_file
    /\ Cardinality(dict) = cache.written_paths
    /\ Cardinality(cache.harvested) = cache.written_archives

FlushSkip ==
    /\ op.pc = "flush"
    /\ ~cache.enabled \/ Current
    /\ op' = Return
    /\ UNCHANGED <<dict, learning, cache, disk, teach, fault>>

(* The image of what is known under both locks.                            *)
Snapshot == [kind |-> "ok", digests |-> cache.harvested, declared |-> Cardinality(dict),
             paths |-> dict, refused |-> 0, synced |-> FALSE]

FlushSnapshot ==
    /\ op.pc = "flush"
    /\ cache.enabled /\ ~Current
    /\ op' = [op EXCEPT !.pc = "write", !.image = Snapshot]
    /\ UNCHANGED <<dict, learning, cache, disk, teach, fault>>

(* fopen and fwrite of the sibling file, then fflush, _commit and fclose.  *)
FlushWrite ==
    /\ op.pc = "write"
    /\ op' = [op EXCEPT !.pc = "commit"]
    /\ UNCHANGED <<dict, learning, cache, disk, teach, fault>>

FlushCommit_Skipped ==
    /\ op.pc = "commit"
    /\ op' = [op EXCEPT !.pc = "rename"]
    /\ UNCHANGED <<dict, learning, cache, disk, teach, fault>>

FlushCommit ==
    /\ op.pc = "commit"
    /\ op' = [op EXCEPT !.pc = "rename", !.image.synced = TRUE]
    /\ UNCHANGED <<dict, learning, cache, disk, teach, fault>>

Written == [cache EXCEPT !.written_paths = Cardinality(op.image.paths),
                         !.written_archives = Cardinality(cache.harvested),
                         !.stale_file = FALSE]

FlushRename ==
    /\ op.pc = "rename"
    /\ disk' = [disk EXCEPT ![cache.file] = op.image]
    /\ cache' = Written
    /\ op' = Return
    /\ UNCHANGED <<dict, learning, teach, fault>>

(* The sibling cannot be written, committed or moved over the file: it is  *)
(* removed and nothing else changes.                                       *)
FlushFails ==
    /\ op.pc \in {"write", "commit", "rename"}
    /\ op' = Return
    /\ UNCHANGED <<dict, learning, cache, disk, teach, fault>>

(* Building the image runs out of memory.  Only close catches it; open is  *)
(* abandoned before it changed anything.                                   *)
FlushThrows ==
    /\ op.pc \in {"flush", "write"} /\ cache.enabled
    /\ op.pc = "flush" => ~Current
    /\ op' = IF op.why = "close" THEN Return ELSE Idle
    /\ UNCHANGED <<dict, learning, cache, disk, teach, fault>>

CloseReset ==
    /\ op.pc = "reset" /\ op.why = "close"
    /\ cache' = [Closed EXCEPT !.file = cache.file]
    /\ op' = Idle
    /\ UNCHANGED <<dict, learning, disk, teach, fault>>

----------------------------------------------------------------------------
(* A file that could not be read matters until another one is opened; what *)
(* a restore kept of half a file may have been written out again.          *)
Healed == IF fault = "unread" THEN "none" ELSE fault

(* path_cache_open after its flush: the bookkeeping starts over and import *)
(* learning comes on, then the file is restored.                           *)
OpenReset ==
    /\ op.pc = "reset" /\ op.why = "open"
    /\ cache' = [Closed EXCEPT !.enabled = TRUE, !.file = op.target]
    /\ learning' = TRUE
    /\ op' = [op EXCEPT !.pc = "load"]
    /\ fault' = Healed
    /\ UNCHANGED <<dict, disk, teach>>

Restored == dict \cup disk[cache.file].paths

(* Is the file exactly what a flush would write?                           *)
Faithful(img) ==
    /\ Loaded(img) = img.declared
    /\ img.refused = 0
    /\ dict = {} => Cardinality(Restored) = Loaded(img)

Kept_AllCoverage(img) ==
    [cache EXCEPT !.harvested = img.digests,
                  !.written_paths = Loaded(img),
                  !.written_archives = Cardinality(img.digests),
                  !.stale_file = ~Faithful(img)]

(* What the file covers is kept only if all of its paths came back.        *)
Kept(img) ==
    [cache EXCEPT !.harvested = IF Faithful(img) THEN img.digests ELSE {},
                  !.written_paths = Loaded(img),
                  !.written_archives = IF Faithful(img) THEN Cardinality(img.digests) ELSE 0,
                  !.stale_file = ~Faithful(img)]

OpenLoad ==
    /\ op.pc = "load"
    /\ LET img == disk[cache.file] IN
       IF img.kind = "ok"
       THEN cache' = Kept(img) /\ dict' = Restored
       ELSE UNCHANGED <<cache, dict>>
    /\ op' = Idle
    /\ UNCHANGED <<learning, disk, teach, fault>>

(* fread comes up short, or the buffer for the file cannot be allocated.   *)
OpenUnreadable ==
    /\ op.pc = "load" /\ disk[cache.file].kind = "ok"
    /\ op' = Idle
    /\ fault' = IF fault = "partial" THEN fault ELSE "unread"
    /\ UNCHANGED <<dict, learning, cache, disk, teach>>

(* An allocation fails between two records: the digests are all in, the    *)
(* paths only in part, and the exception leaves path_cache_open.           *)
OpenThrows ==
    /\ op.pc = "load" /\ disk[cache.file].kind = "ok"
    /\ \E p \in disk[cache.file].paths :
          dict' = dict \cup CutAt(disk[cache.file], p).paths
    /\ cache' = [cache EXCEPT !.harvested = disk[cache.file].digests]
    /\ op' = Idle
    /\ fault' = "partial"
    /\ UNCHANGED <<learning, disk, teach>>

----------------------------------------------------------------------------
(* The environment.                                                        *)
NewProcess ==
    /\ dict' = {}
    /\ learning' = FALSE
    /\ cache' = Closed
    /\ op' = Idle
    /\ teach' = NoTeach
    /\ fault' = Healed

Crash == NewProcess /\ UNCHANGED disk

(* A file whose bytes never reached the disk is cut short.                 *)
PowerLoss ==
    /\ NewProcess
    /\ \E p \in Paths :
          disk' = [f \in Files |-> IF disk[f].synced THEN disk[f] ELSE CutAt(disk[f], p)]

(* A file that a restore accepts as what a flush wrote.                    *)
Intact(img) == img.kind = "ok" /\ img.refused = 0 /\ Loaded(img) = img.declared

(* Between two runs of the program, a file is cut, has a record or its     *)
(* header spoiled, or is deleted.                                          *)
Damaged(img) ==
    {CutAt(img, p) : p \in img.paths}
    \cup {[img EXCEPT !.paths = @ \ {p}, !.refused = @ + 1] : p \in img.paths}
    \cup {NoImage("bad"), NoImage("none")}

Damage(f) ==
    /\ dict = {} /\ ~learning /\ op.pc = "idle"
    /\ disk[f].kind = "ok"
    /\ \A g \in Files : Intact(disk[g]) \/ disk[g].kind = "none"  \* bound: one file at a time
    /\ \E img \in Damaged(disk[f]) : disk' = [disk EXCEPT ![f] = img]
    /\ UNCHANGED <<dict, learning, cache, op, teach, fault>>

Next ==
    \/ \E p \in Paths : PathAdd(p) \/ TeachRead(p)
    \/ PathEnable
    \/ \E S \in SUBSET Paths : PathLoad(S)
    \/ \E a \in Archives : TeachStart(a)
    \/ Mark
    \/ FlushCall \/ CloseCall
    \/ \E f \in Files : OpenCall(f) \/ Damage(f)
    \/ FlushSkip \/ FlushSnapshot \/ FlushWrite \/ FlushCommit \/ FlushRename
    \/ FlushFails \/ FlushThrows
    \/ CloseReset
    \/ OpenReset \/ OpenLoad \/ OpenUnreadable \/ OpenThrows
    \/ Crash \/ PowerLoss

Spec == Init /\ [][Next]_vars

----------------------------------------------------------------------------
(* Coverage is never claimed for names that are missing: every archive     *)
(* recorded as harvested, in memory or in an intact file, has all of its   *)
(* imports in the dictionary or in that file -- across concurrent adds     *)
(* while a flush writes, failed writes, crashes, unreadable files and      *)
(* files cut short.  The exception is a restore that an allocation failure *)
(* ends half-way (OpenThrows): load_from_disk has kept every digest then.  *)
CoverageHonest == fault # "partial" =>
    /\ \A a \in cache.harvested : Imports[a] \ Long \subseteq dict
    /\ \A f \in Files : Intact(disk[f]) =>
          \A a \in disk[f].digests : Imports[a] \ Long \subseteq disk[f].paths

(* The size comparison by which path_cache_flush decides to write nothing  *)
(* is right: whenever the sizes agree, the open file holds exactly the     *)
(* dictionary and the coverage (or there is nothing to hold yet).          *)
CleanMeansCurrent ==
    cache.enabled /\ op.pc # "load" /\ Current =>
        \/ dict = {} /\ cache.harvested = {}
        \/ /\ Intact(disk[cache.file])
           /\ disk[cache.file].paths = dict
           /\ disk[cache.file].digests = cache.harvested

(* Why these hold at every step.  An open cache has a file and learns; an  *)
(* archive being harvested has every import read or still to be read.      *)
OpenInv ==
    /\ cache.enabled => learning /\ cache.file \in Files
    /\ op.why = "open" => op.target \in Files
    /\ op.pc \in {"write", "commit", "rename", "load"} => cache.enabled
    /\ op.pc = "load" => cache.written_paths = 0 /\ cache.written_archives = 0
    /\ teach.archive # None => learning /\ Imports[teach.archive] \ Long \subseteq dict \cup teach.todo

(* A file in place is on the disk and holds no more than it declares.      *)
FileInv ==
    \A f \in Files :
        /\ disk[f].synced
        /\ disk[f].kind = "ok" => Loaded(disk[f]) <= disk[f].declared
        /\ disk[f].kind # "ok" => disk[f].paths = {}

(* The image of a flush is a complete file of the coverage as it stands    *)
(* and of names that are still known, none of the old file missing.        *)
ImageInv == op.pc \in {"write", "commit", "rename"} =>
    /\ Intact(op.image)
    /\ op.image.paths \subseteq dict
    /\ op.image.digests = cache.harvested
    /\ fault # "partial" => \A a \in op.image.digests : Imports[a] \ Long \subseteq op.image.paths
    /\ fault = "none" => disk[cache.file].paths \subseteq op.image.paths
    /\ op.pc = "rename" => op.image.synced

(* The sizes remembered are those of the open file, which holds nothing    *)
(* that is not also in memory.                                             *)
WrittenInv == cache.enabled /\ op.pc # "load" =>
    /\ fault = "none" => disk[cache.file].paths \subseteq dict
    /\ \/ cache.stale_file
       \/ cache.written_paths = 0 /\ cache.written_archives = 0
       \/ /\ Intact(disk[cache.file])
          /\ cache.written_paths = Cardinality(disk[cache.file].paths)
          /\ cache.written_archives = Cardinality(disk[cache.file].digests)
          /\ disk[cache.file].paths \subseteq dict
          /\ disk[cache.file].digests \subseteq cache.harvested

(* The coverage, the comparison and the file, in whatever state a failed   *)
(* write, a failed restore or a crash left them.                           *)
CacheInv ==
    /\ TypeOK /\ CoverageHonest /\ CleanMeansCurrent
    /\ OpenInv /\ FileInv /\ ImageInv /\ WrittenInv

(* "IT IS NEVER DISCARDED": no step of the program and no crash or power   *)
(* loss takes a readable name out of a cache file; only damage from        *)
(* outside does, and the flush of a session whose restore met a fault,     *)
(* which path_cache_open leaves enabled on the file it did not get.  And   *)
(* while the process lives no name leaves the dictionary, whatever cache   *)
(* files are opened, closed or fail to load.                               *)
NeverForgotten ==
    [][/\ \/ fault # "none"
          \/ \E f \in Files : Damage(f)
          \/ \A f \in Files : disk[f].paths \subseteq disk'[f].paths
       /\ NewProcess \/ dict \subseteq dict']_vars

=============================================================================
