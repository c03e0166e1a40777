---------------------------- MODULE MCMeshBuild -----------------------------
(* Meshes of up to two chunks and three appearances: vertices in and out   *)
(* of the geometry, boxes that overflow, arrays that declare more than     *)
(* they hold, shared appearance chunks, null handles.                      *)
EXTENDS Integers, Sequences, TLC

Val(kind, as) == [kind |-> kind, as |-> as]
ArrayVal(elems, extra) == Val("ARRAY", [declared |-> Len(elems) + extra, elems |-> elems])
ChunkInfo(n, offset, stride, mask) ==
    Val("STRUCT", ("numVertices" :> Val("UINT", n)) @@ ("numIndices" :> Val("UINT", 3))
                  @@ ("lodMask" :> Val("UINT", mask))
                  @@ ("chunkVertices.byteOffsets" :> ArrayVal(<<Val("UINT", offset)>>, 0))
                  @@ ("chunkVertices.vertexLayout.slotStrides" :> ArrayVal(<<Val("UINT", stride)>>, 0)))
Blob(infos, extra, scale, offset) ==
    [class |-> "rendRenderMeshBlob",
     values |-> ("header.renderChunkInfos" :> ArrayVal(infos, extra))
                @@ ("header.renderLODs" :> ArrayVal(<<Val("STRUCT", [p \in {} |-> 0])>>, extra))
                @@ ("renderBuffer" :> Val("BUFFER", 0))
                @@ ("header.quantizationScale" :> Val("FLOAT", scale))
                @@ ("header.quantizationOffset" :> Val("FLOAT", offset))]
Root(handles, extra, blob) ==
    [class |-> "CMesh",
     values |-> ("renderResourceBlob" :> Val("HANDLE", blob)) @@ ("boundingBox" :> Val("FLOAT", 10))
                @@ ("appearances" :> ArrayVal([k \in DOMAIN handles |-> Val("HANDLE", handles[k])], extra))]
Appearance(names) ==
    [class |-> "meshMeshAppearance",
     values |-> ("name" :> Val("NAME", "default"))
                @@ ("chunkMaterials" :> ArrayVal([k \in 1..names |-> Val("NAME", "m")], 0))]

Geometries == {<<>>, [p \in 1..12 |-> (p % 5) - 2], [p \in 1..18 |-> IF p = 8 THEN -3 ELSE p % 3]}
Call(chunks, buffers) == [chunks |-> chunks, buffers |-> buffers]

(* Boxes: one chunk; 32 = 0 in the integers of this model.                 *)
Boxes ==
    {Call(<<Root(<<>>, 0, 1), Blob(<<ChunkInfo(n, o, st, 4)>>, 0, sc, off)>>, b) :
        n \in {0, 1, 2, 3, 5, 9}, o \in {0, 1, 6, 31}, st \in {0, 4, 6, 8}, sc \in {0, 1, 9, 10},
        off \in {0, 9, -9, 10}, b \in {<<>>} \cup {<<g>> : g \in Geometries}}

(* Appearances: of two chunks, by any three handles.                       *)
Handles == UNION {[1..n -> {-1, 2, 3, 9}] : n \in 0..3}
Counts ==
    {Call(<<Root(h, e, 1), Blob(infos, e, 1, 0), Appearance(2), Appearance(n)>>, <<>>) :
        h \in Handles, e \in {0, 5}, n \in {0, 1, 3},
        infos \in {<<>>, <<ChunkInfo(1, 0, 6, 0)>>, <<ChunkInfo(1, 0, 6, 6), ChunkInfo(1, 0, 6, 8)>>,
                   <<Val("RAW", 0), ChunkInfo(1, 0, 6, 1)>>}}

(* No blob, a blob of its own next to another one, another root.           *)
Resources ==
    {Call(c, <<>>) :
        c \in {<<>>, <<Root(<<>>, 0, -1)>>, <<Root(<<>>, 0, -1), Blob(<<>>, 0, 1, 0)>>, <<Appearance(1)>>,
               <<Appearance(1), Blob(<<>>, 0, 1, 0)>>, <<Root(<<>>, 0, 5), Blob(<<>>, 0, 1, 0)>>,
               <<Root(<<>>, 0, 2), Blob(<<>>, 0, 1, 0), Blob(<<ChunkInfo(1, 0, 6, 1)>>, 0, 1, 0)>>}}

MCMeshes == Boxes \cup Counts \cup Resources
=============================================================================
