---------------------------- MODULE FileReaders -----------------------------
(***************************************************************************)
(* What the library makes of the files it is given: one call, of one of    *)
(* the readers, on one file; for the depot, any sequence of opens and      *)
(* mounts of archives; for the decoder, threads that load, decode and shut *)
(* down.  `reader' is the part of the library that is asked; the others    *)
(* do nothing, for none of them shares state with another.                 *)
(***************************************************************************)
EXTENDS Cr2w

CONSTANTS
    ExtentBits, Textures,                             \* Texture
    Sounds,                                           \* Audio
    MeshWord, MaxFloat, MaterialBudget, MeshFiles,    \* MeshBuild
    ArchiveWord, Granularity, ArchiveFiles,           \* Archive
    Installed, DepotHashes, Indexes, MaxArchives,     \* Depot
    Threads, Scratch, MaxCalls, NoBlock               \* Oodle

(* Indexes list hashes, which are numbers; a folder has one file of a name. *)
ASSUME FilesAssumption ==
    /\ NoBlock \notin Scratch
    /\ MaxArchives \in Nat /\ DepotHashes \subseteq Nat /\ Indexes \subseteq Seq(DepotHashes)
    /\ IsFiniteSet(Installed)
    /\ \A p \in Installed : p.name \in Nat /\ p.folder \in Nat
    /\ \A p, q \in Installed :
          p.set = q.set /\ p.name = q.name /\ (p.set = "redmod" => p.folder = q.folder) => p = q

(* Views begin at multiples of a granularity; a file is described by numbers. *)
ASSUME ArchiveAssumption ==
    /\ Granularity \in Nat \ {0}
    /\ \A f \in ArchiveFiles : {f.size, f.index_pos, f.index_size, f.entries, f.segments, f.dependencies} \subseteq Nat

VARIABLES reader, index, opened, archives, refs, scanned,
          library, decompress, scratchSize, loadLock, pool, live, thread, calls

T == INSTANCE Texture
S == INSTANCE Audio
M == INSTANCE MeshBuild WITH Word <- MeshWord, Meshes <- MeshFiles
A == INSTANCE Archive WITH Word <- ArchiveWord, Archives <- ArchiveFiles
D == INSTANCE Depot WITH Paths <- Installed, Hashes <- DepotHashes
O == INSTANCE Oodle WITH Blocks <- Scratch, Null <- NoBlock

(* A sound is described by numbers; an intact one is as a writer leaves it. *)
ASSUME SoundsAssumption ==
    \A s \in Sounds :
        /\ s.op \in {"probe", "walk", "info"} /\ {s.size, s.declared} \subseteq Nat
        /\ Len(s.chunks) \in Nat /\ DOMAIN s.chunks = 1..Len(s.chunks)
        /\ \A k \in DOMAIN s.chunks :
              /\ {"id", "size"} \subseteq DOMAIN s.chunks[k] /\ s.chunks[k].size \in Nat /\ s.wrote[k] \in Nat
              /\ s.chunks[k].id = "fmt" => "fmt" \in DOMAIN s.chunks[k]
        /\ s.intact /\ s.op # "probe" => S!Written(s)

(* An extent has some bits; a texture's numbers are numbers.               *)
ASSUME TexturesAssumption ==
    /\ ExtentBits \in Nat /\ ExtentBits > 4
    /\ \A x \in Textures : \A c \in DOMAIN x.chunks : \A p \in DOMAIN x.chunks[c].values :
          LET v == x.chunks[c].values[p] IN v.kind \in {"UINT", "INT", "BOOL"} => v.as \in Int

(* What a mesh's properties hold, and its structs' own, are typed values.  *)
ASSUME MeshAssumption ==
    /\ MeshWord \in Nat \ {0} /\ MaxFloat \in Nat /\ MaterialBudget \in Nat
    /\ \A m \in MeshFiles :
          /\ \A b \in DOMAIN m.buffers : m.buffers[b] \in Seq(Int)
          /\ \A c \in DOMAIN m.chunks :
                LET values == m.chunks[c].values
                IN  /\ M!Typed(values)
                    /\ \A p \in {q \in DOMAIN values : values[q].kind = "ARRAY"} : \A k \in DOMAIN values[p].as.elems :
                          values[p].as.elems[k].kind = "STRUCT" => M!Typed(values[p].as.elems[k].as)

depotVars == <<index, opened, archives, refs, scanned>>
oodleVars == <<library, decompress, scratchSize, loadLock, pool, live, thread, calls>>
fileVars == <<reader, vars, depotVars, oodleVars>>

NoDepot == index = <<>> /\ opened = FALSE /\ archives = <<>> /\ refs = <<>> /\ scanned = FALSE

NoLibrary ==
    /\ library = [at |-> "nowhere", exports |-> "neither"] /\ decompress = FALSE /\ scratchSize = FALSE
    /\ loadLock = NoBlock /\ pool = <<>> /\ live = {} /\ thread = <<>> /\ calls = 0
NoFile == input = <<>> /\ output = <<>>

FilesInit ==
    \/ /\ NoDepot /\ NoLibrary
       /\ \/ reader = "document" /\ Init
          \/ reader = "texture" /\ T!Init
          \/ reader = "sound" /\ S!Init
          \/ reader = "mesh" /\ M!Init
          \/ reader = "archive" /\ A!Init
    \/ reader = "depot" /\ NoLibrary /\ NoFile /\ D!Init
    \/ reader = "decoder" /\ NoDepot /\ NoFile /\ O!Init

ReadDocument == reader = "document" /\ Next /\ UNCHANGED <<reader, depotVars, oodleVars>>
ReadTexture == reader = "texture" /\ T!Next /\ UNCHANGED <<reader, depotVars, oodleVars>>
ReadSound == reader = "sound" /\ S!Next /\ UNCHANGED <<reader, depotVars, oodleVars>>
ReadMesh == reader = "mesh" /\ M!Next /\ UNCHANGED <<reader, depotVars, oodleVars>>
ReadArchive == reader = "archive" /\ A!Next /\ UNCHANGED <<reader, depotVars, oodleVars>>
Mount == reader = "depot" /\ D!Next /\ UNCHANGED <<reader, vars, oodleVars>>
DecodeSegments == reader = "decoder" /\ O!Next /\ UNCHANGED <<reader, vars, depotVars>>

FilesNext == ReadDocument \/ ReadTexture \/ ReadSound \/ ReadMesh \/ ReadArchive \/ Mount \/ DecodeSegments

FilesSpec == FilesInit /\ [][FilesNext]_fileVars

-----------------------------------------------------------------------------
(* The properties of the readers, each of its own reader's states.         *)

(* Cr2w: values lie where the document has them.                           *)
DocumentExact == reader = "document" => WalkExact

(* Cr2w: the tables of an open document lie inside the file, and no value, *)
(* text or array leaves the bytes it was found in.                         *)
DocumentInside == reader = "document" => OpenedSafe /\ WalkInside

(* Texture: the descriptor does not claim more than the payload holds.     *)
DescriptorHonest == reader = "texture" => T!DescriptorHonest

(* Texture: a loader of DDS files finds every surface inside the payload.  *)
LoaderReadsPayload == reader = "texture" => T!LoaderReadsPayload

(* Audio: chunks are delivered at their places, inside the file.           *)
ChunksTrue == reader = "sound" => S!ChunksTrue

(* MeshBuild: a bounding box comes from vertices inside the geometry.      *)
BoxesFromGeometry == reader = "mesh" => M!BoxesFromGeometry

(* MeshBuild: a mesh has no more material names than the budget.           *)
MaterialsBounded == reader = "mesh" => M!MaterialsBounded

(* MeshBuild: redfs_mesh_open and redfs_mesh_desc agree on a whole mesh.   *)
CountsAgree == reader = "mesh" => M!CountsAgree

(* Archive: what the index of an open archive admits lies in the window.   *)
IndexInside == reader = "archive" => A!IndexInside

(* Depot: the archive mounted last wins, and the table is well formed.     *)
DepotInv == reader = "depot" => D!TypeOK /\ D!LastMountWins

(* Depot: what a scan mounts overrides in the order redfs.h documents.     *)
DocumentedOverrides == reader = "depot" => D!DocumentedOverrides

(* Oodle: every scratch block has one place, whoever decodes or shuts down. *)
BlocksAccounted == reader = "decoder" => O!TypeOK /\ O!BlocksAccounted

(* Oodle: the library is bound once, with its scratch size known.          *)
BindingSound == reader = "decoder" => O!BindingSound /\ O!PublishInv
=============================================================================
