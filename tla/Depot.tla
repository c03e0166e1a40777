------------------------------- MODULE Depot --------------------------------
(***************************************************************************)
(* A depot: which archives are mounted, in which order, and which of them  *)
(* a hash resolves to (api.cpp: redfs_depot_open, _open_empty, _mount,     *)
(* _mount_dir, _close, the directory scans and reindex; archive.cpp:       *)
(* redfs_depot::locate).                                                   *)
(*                                                                         *)
(* An archive file is a record of the set it belongs to, the rank of its   *)
(* REDmod folder and the rank of its full path; ranks stand for the        *)
(* ordinal order of the names.  An archive's index is the sequence of the  *)
(* hashes in its entry table.                                              *)
(***************************************************************************)
EXTENDS Naturals, FiniteSets, Sequences, SequencesExt, Ordering

CONSTANTS
    Paths,       \* archive files that may be installed
    Hashes,      \* file hashes, ordered as numbers
    Indexes,     \* what an archive's entry table may be
    MaxArchives  \* bound on the archives mounted in one depot

Sets == {"content", "ep1", "redmod", "mod"}

VARIABLES
    index,     \* the entry table of each archive file
    opened,    \* is there a depot?
    archives,  \* its archives, in mount order
    refs,      \* its sorted table of [hash, archive, entry]
    scanned    \* history: archives come from redfs_depot_open alone

vars == <<index, opened, archives, refs, scanned>>

-----------------------------------------------------------------------------
(* The directory scans.                                                    *)

(* list_archives: one folder, sorted by name.                              *)
ByName(S) == {x \in S \X S : x[1].name < x[2].name}
Sorted(S) == InOrder(S, ByName(S))
ListArchives(set) == Sorted({p \in Paths : p.set = set})

(* list_redmod_archives: folder by folder, each sorted by full path and    *)
(* then reversed.                                                          *)
ListRedmod_Unreversed ==
    LET mods == {p \in Paths : p.set = "redmod"}
        Folders == {p.folder : p \in mods}
        folders == InOrder(Folders, Upwards(Folders))
    IN  FlattenSeq([k \in DOMAIN folders |-> Sorted({p \in mods : p.folder = folders[k]})])
ListRedmod ==
    LET mods == {p \in Paths : p.set = "redmod"}
        Folders == {p.folder : p \in mods}
        folders == InOrder(Folders, Upwards(Folders))
    IN  FlattenSeq([k \in DOMAIN folders |->
                       Reverse(Sorted({p \in mods : p.folder = folders[k]}))])

(* The scan of depot_open_impl, for the sets the host's flags select.      *)
Scan(flags) ==
    LET Chosen(set, list) == IF set \in flags THEN list ELSE <<>>
    IN  Chosen("content", ListArchives("content")) \o Chosen("ep1", ListArchives("ep1"))
        \o Chosen("redmod", ListRedmod) \o Chosen("mod", ListArchives("mod"))

(* Archives that are not there or cannot be opened are left out.           *)
Usable(list, broken) == Kept(list, {n \in DOMAIN list : list[n] \notin broken})

-----------------------------------------------------------------------------
(* reindex and locate.                                                     *)

(* Every entry of every archive, in mount order.                           *)
Collect(list) ==
    FlattenSeq([a \in DOMAIN list |->
        [e \in DOMAIN index[list[a]] |-> [hash |-> index[list[a]][e], archive |-> a, entry |-> e]]])

(* The loop that keeps the last of each run of equal hashes.               *)
KeepLast_First(s) == Kept(s, {n \in DOMAIN s : n = 1 \/ s[n - 1].hash # s[n].hash})
KeepLast(s) == Kept(s, {n \in DOMAIN s : n = Len(s) \/ s[n + 1].hash # s[n].hash})

Reindex(list) == KeepLast(StableSort(Collect(list)))

(* locate: std::lower_bound, then the check that it is the hash itself.    *)
Locate(h) ==
    LET above == {n \in DOMAIN refs : refs[n].hash >= h}
    IN  IF above = {} THEN {}
        ELSE LET n == CHOOSE m \in above : \A k \in above : m <= k
             IN  IF refs[n].hash = h /\ refs[n].archive <= Len(archives) THEN {refs[n]} ELSE {}

-----------------------------------------------------------------------------
(* The operations.                                                         *)

Init ==
    /\ index \in [Paths -> Indexes]
    /\ opened = FALSE /\ archives = <<>> /\ refs = <<>> /\ scanned = FALSE

(* redfs_depot_open: an error, and no depot, if nothing could be opened.   *)
DepotOpen(flags, broken) ==
    /\ ~opened
    /\ LET list == Usable(Scan(flags), broken) IN
       /\ list # <<>> /\ Len(list) <= MaxArchives
       /\ archives' = list
       /\ refs' = Reindex(list)
    /\ opened' = TRUE
    /\ scanned' = TRUE
    /\ UNCHANGED index

DepotOpenEmpty ==
    /\ ~opened
    /\ opened' = TRUE
    /\ UNCHANGED <<index, archives, refs, scanned>>

(* redfs_depot_mount: on top of everything already mounted.                *)
Remounted(list) == Reindex(list)

DepotMount(p) ==
    /\ opened
    /\ Len(archives) < MaxArchives
    /\ archives' = Append(archives, p)
    /\ refs' = Remounted(Append(archives, p))
    /\ scanned' = FALSE
    /\ UNCHANGED <<index, opened>>

(* redfs_depot_mount_dir: a whole folder, in name order.                   *)
DepotMountDir(set, broken) ==
    /\ opened
    /\ LET list == Usable(ListArchives(set), broken) IN
       /\ list # <<>> /\ Len(archives) + Len(list) <= MaxArchives
       /\ archives' = archives \o list
       /\ refs' = Reindex(archives \o list)
    /\ scanned' = FALSE
    /\ UNCHANGED <<index, opened>>

DepotClose ==
    /\ opened
    /\ opened' = FALSE /\ archives' = <<>> /\ refs' = <<>> /\ scanned' = FALSE
    /\ UNCHANGED index

Next ==
    \/ \E flags \in SUBSET Sets, broken \in SUBSET Paths : DepotOpen(flags, broken)
    \/ DepotOpenEmpty
    \/ \E p \in Paths : DepotMount(p)
    \/ \E set \in Sets \ {"redmod"}, broken \in SUBSET Paths : DepotMountDir(set, broken)
    \/ DepotClose

Spec == Init /\ [][Next]_vars
-----------------------------------------------------------------------------
(* Properties.                                                             *)

Refs == [hash : Hashes, archive : 1..MaxArchives, entry : Nat]

(* Mounted archives are archive files, and the table refers into them.     *)
TypeOK ==
    /\ index \in [Paths -> Indexes]
    /\ opened \in BOOLEAN /\ scanned \in BOOLEAN
    /\ archives \in Seq(Paths) /\ Len(archives) <= MaxArchives
    /\ refs \in Seq(Refs)
    /\ \A n \in DOMAIN refs :
          /\ refs[n].archive \in DOMAIN archives
          /\ refs[n].entry \in DOMAIN index[archives[refs[n].archive]]

(* The entries that hold hash h, and the one that must win: the last one   *)
(* of the archive mounted last.                                            *)
Candidates(h) ==
    UNION {{[hash |-> h, archive |-> a, entry |-> e] :
                e \in {n \in DOMAIN index[archives[a]] : index[archives[a]][n] = h}} :
           a \in DOMAIN archives}
Winner(h) ==
    {r \in Candidates(h) : \A c \in Candidates(h) :
        c.archive < r.archive \/ (c.archive = r.archive /\ c.entry <= r.entry)}

(* reindex, stable_sort and the in-place compaction together: every hash   *)
(* of a mounted archive is found, in the archive mounted last, after any   *)
(* sequence of opens and mounts; no other hash is found.                   *)
LastMountWins == \A h \in Hashes : Locate(h) = Winner(h)

(* redfs.h on redfs_scan_flags: a legacy mod overrides a REDmod one, which *)
(* overrides the expansion, which overrides the base game; in a folder of  *)
(* archive/pc the last name wins, in a REDmod folder the first, and of two *)
(* REDmod folders the later one.                                           *)
Level(set) == CASE set = "content" -> 1 [] set = "ep1" -> 2 [] set = "redmod" -> 3 [] set = "mod" -> 4
Overrides(p, q) ==
    \/ Level(p.set) > Level(q.set)
    \/ p.set = q.set /\ p.set # "redmod" /\ p.name > q.name
    \/ p.set = q.set /\ p.set = "redmod" /\
          (p.folder > q.folder \/ (p.folder = q.folder /\ p.name < q.name))
DocumentedOverrides ==
    opened /\ scanned =>
        \A h \in Hashes : \A r \in Locate(h) : \A a \in DOMAIN archives :
            h \in Range(index[archives[a]]) /\ a # r.archive =>
                Overrides(archives[r.archive], archives[a])
=============================================================================
