------------------------------ MODULE MCFiles -------------------------------
(* Instances of FileReaders for TLC: the files each part is given, and     *)
(* three threads with three scratch blocks.                                *)
EXTENDS FileReaders, MCCr2w, MCTexture

SoundData == INSTANCE MCAudio
MeshData == INSTANCE MCMeshBuild
ArchiveData == INSTANCE MCArchive
DepotData == INSTANCE MCDepot

MCSounds == SoundData!MCSounds
MCMeshes == MeshData!MCMeshes
MCArchives == ArchiveData!MCArchives
MCInstalled == DepotData!MCPaths
MCIndexes == DepotData!MCIndexes

Symmetry == Permutations(Threads) \cup Permutations(Scratch)
=============================================================================
