----------------------------- MODULE MeshBuild ------------------------------
(***************************************************************************)
(* Decoding a mesh (mesh.cpp, and mesh_desc_of of formats.cpp): the two    *)
(* entry points that describe the same file by different routes.           *)
(*                                                                         *)
(* A document is its chunks, each a class and the values cr2w_find returns *)
(* in it by path.  An array holds the count it declares and the elements a *)
(* walk of it delivers.  One axis stands for the three of a position, and  *)
(* geometry[p] is the 16-bit coordinate read at byte p; a float is a       *)
(* multiple of the quantum, infinite beyond MaxFloat.                      *)
(***************************************************************************)
EXTENDS Integers, Sequences, FiniteSetsExt, Ordering

CONSTANTS
    Word,            \* values of a 32-bit integer
    MaxFloat,        \* the largest finite float
    MaterialBudget,  \* kMaterialBudget
    Meshes           \* the documents

VARIABLES input, output

vars == <<input, output>>

PositionBytes == 6
Finite(v) == v \in -MaxFloat..MaxFloat
ToFloat(v) == IF Finite(v) THEN v ELSE IF v > 0 THEN MaxFloat + 1 ELSE -MaxFloat - 1
FiniteOrZero(v) == IF Finite(v) THEN v ELSE 0
AtLeast1(n) == IF n > 1 THEN n ELSE 1
Smaller(a, b) == IF a < b THEN a ELSE b

-----------------------------------------------------------------------------
(* Reading values.  A chunk number is an index from 0.                     *)

Values(c) == IF c + 1 \in DOMAIN input.chunks THEN input.chunks[c + 1].values ELSE [p \in {} |-> 0]
Field(values, path, kinds) ==
    {values[p].as : p \in {q \in {path} \cap DOMAIN values : values[q].kind \in kinds}}
Only(S, fallback) == IF S = {} THEN fallback ELSE CHOOSE x \in S : TRUE
UintOr(values, path, fallback) == Only(Field(values, path, {"UINT", "INT", "BOOL"}), fallback) % Word
FloatOr(values, path, fallback) == Only(Field(values, path, {"FLOAT"}), fallback)
Walked(values, path) == {a.elems : a \in Field(values, path, {"ARRAY"})}

(* array_uint_at of index 0.                                               *)
FirstUint(values, path) ==
    LET heads == {Head(e) : e \in Walked(values, path) \ {<<>>}}
    IN  Only({v.as : v \in {h \in heads : h.kind \in {"UINT", "INT", "BOOL"}}}, 0) % Word

OfClass(class) == {c \in DOMAIN input.chunks : input.chunks[c].class = class}
BlobOfClass == IF OfClass("rendRenderMeshBlob") = {} THEN {} ELSE {Min(OfClass("rendRenderMeshBlob")) - 1}
BlobHandle == {c \in Field(Values(0), "renderResourceBlob", {"HANDLE"}) : c >= 0}
BlobChunk == IF BlobHandle # {} THEN BlobHandle ELSE BlobOfClass

BufferIndex(blob) == Only(Field(Values(blob), "renderBuffer", {"BUFFER"}), 0)
Geometry(blob) == {input.buffers[k] : k \in {BufferIndex(blob) + 1} \cap DOMAIN input.buffers}

-----------------------------------------------------------------------------
(* mesh_build: the chunks, their appearances, their boxes.                 *)

LowestLod(mask) ==
    IF mask = 0 THEN 1 ELSE CHOOSE l \in 1..mask : mask % 2 ^ l # 0 /\ mask % 2 ^ (l - 1) = 0

NoBox == [valid |-> FALSE, min |-> 0, max |-> 0]
GatherChunk(index, v) ==
    [index |-> index, vertex_count |-> UintOr(v, "numVertices", 0), index_count |-> UintOr(v, "numIndices", 0),
     lod |-> LowestLod(UintOr(v, "lodMask", 1)),
     offset |-> FirstUint(v, "chunkVertices.byteOffsets"),
     stride |-> FirstUint(v, "chunkVertices.vertexLayout.slotStrides"), box |-> NoBox]
GatherChunks(infos) ==
    LET K == {k \in DOMAIN infos : infos[k].kind = "STRUCT"}
        structs == InOrder(K, Upwards(K))
    IN  [n \in DOMAIN structs |-> GatherChunk(structs[n] - 1, infos[structs[n]].as)]

(* The names of one appearance are cut at the number of chunks and at what *)
(* is left of the budget of the whole mesh.                                *)
Cap_ChunksOnly(chunks, budget) == chunks
Cap(chunks, budget) == Smaller(chunks, budget)
Appearance(c, chunks, budget) ==
    LET names == Only(Walked(Values(c), "chunkMaterials"), <<>>)
    IN  [name |-> Only(Field(Values(c), "name", {"NAME"}), ""),
         materials |-> [k \in 1..Smaller(Len(names), Cap(chunks, budget)) |->
                           IF names[k].kind = "NAME" THEN names[k].as ELSE ""]]
Gather(s, v, chunks) ==
    IF v.kind # "HANDLE" \/ v.as < 0 \/ s.budget = 0 THEN s
    ELSE LET app == Appearance(v.as, chunks, s.budget)
         IN  [apps |-> Append(s.apps, app), budget |-> s.budget - Smaller(s.budget, Len(app.materials))]
GatherAppearances(handles, chunks) ==
    LET after[n \in 0..Len(handles)] ==
            IF n = 0 THEN [apps |-> <<>>, budget |-> MaterialBudget] ELSE Gather(after[n - 1], handles[n], chunks)
    IN  after[Len(handles)].apps

(* compute_bounds: the box of the dequantized vertices, if all of them lie *)
(* in the buffer and none of it is infinite.                               *)
Span_Wraps(c) == c.offset + (((c.vertex_count - 1) * c.stride) % Word) + PositionBytes
Span(c) == c.offset + (c.vertex_count - 1) * c.stride + PositionBytes

ComputeBounds(c, geometry, scale, offset) ==
    LET Vertex(i) == c.offset + i * c.stride + 1
        Read(p) == IF p \in DOMAIN geometry THEN geometry[p] ELSE 0
        values == {ToFloat(Read(Vertex(i)) * scale + offset) : i \in 0..(c.vertex_count - 1)}
        lo == Min(values \cup {MaxFloat})
        hi == Max(values \cup {-MaxFloat})
    IN  IF \/ c.vertex_count = 0 \/ c.stride < PositionBytes
           \/ ~Finite(scale) \/ ~Finite(offset)
           \/ Span(c) > Len(geometry)
           \/ ~Finite(lo) \/ ~Finite(hi)
        THEN c ELSE [c EXCEPT !.box = [valid |-> TRUE, min |-> lo, max |-> hi]]

NoMesh == [chunks |-> <<>>]
Built ==
    LET Failed(status) == [status |-> status, mesh |-> NoMesh] IN
    IF input.chunks = <<>> THEN Failed("CORRUPT")
    ELSE IF input.chunks[1].class # "CMesh" \/ BlobChunk = {} THEN Failed("UNSUPPORTED")
    ELSE LET blob == CHOOSE b \in BlobChunk : TRUE
             infos == Walked(Values(blob), "header.renderChunkInfos")
             chunks == GatherChunks(CHOOSE i \in infos : TRUE)
             lods == {Len(l) : l \in Walked(Values(blob), "header.renderLODs")}
             scale == FloatOr(Values(blob), "header.quantizationScale", 1)
             offset == FloatOr(Values(blob), "header.quantizationOffset", 0)
             swept == [k \in DOMAIN chunks |->
                          ComputeBounds(chunks[k], CHOOSE g \in Geometry(blob) : TRUE, scale, offset)]
         IN  IF infos = {} THEN Failed("UNSUPPORTED")
             ELSE [status |-> "OK",
                   mesh |-> [chunks |-> IF Geometry(blob) = {} THEN chunks ELSE swept,
                             lod_count |-> Max({1} \cup lods \cup {chunks[k].lod : k \in DOMAIN chunks}),
                             bbox |-> FiniteOrZero(FloatOr(Values(0), "boundingBox", 0)),
                             appearances |-> GatherAppearances(
                                 Only(Walked(Values(0), "appearances"), <<>>), Len(chunks))]]

-----------------------------------------------------------------------------
(* mesh_desc_of: the elements a walk delivers are counted.                 *)

Count_Declared(values, path) == Only({a.declared : a \in Field(values, path, {"ARRAY"})}, 0)
Count(values, path) == Only({Len(e) : e \in Walked(values, path)}, 0)

Described ==
    IF BlobOfClass = {} THEN [status |-> "UNSUPPORTED"]
    ELSE LET blob == Values(CHOOSE b \in BlobOfClass : TRUE)
             infos == IF "header.renderChunkInfos" \in DOMAIN blob THEN "header.renderChunkInfos"
                      ELSE "header.renderChunks"
         IN  [status |-> "OK", submeshes |-> Count(blob, infos),
              appearances |-> Count(Values(0), "appearances"),
              materials |-> Count(Values(0), "materialEntries"),
              bbox |-> FiniteOrZero(FloatOr(Values(0), "boundingBox", 0)),
              buffer_size |-> Only({Len(g) : g \in Geometry(CHOOSE b \in BlobOfClass : TRUE)}, 0)]

NotCalled == [status |-> "not called"]

Init == input \in Meshes /\ output = [mesh |-> NotCalled, desc |-> NotCalled]

MeshOpen ==
    /\ output.mesh = NotCalled
    /\ output' = [output EXCEPT !.mesh = Built]
    /\ UNCHANGED input

MeshDescOf ==
    /\ output.desc = NotCalled
    /\ output' = [output EXCEPT !.desc = Described]
    /\ UNCHANGED input

Next == MeshOpen \/ MeshDescOf

Spec == Init /\ [][Next]_vars

-----------------------------------------------------------------------------
(* Properties.                                                             *)

(* A box that is published as valid is that of all the chunk's vertices,   *)
(* each of them read inside the geometry, and is finite and not inverted.  *)
BoxesFromGeometry ==
    output.mesh.status = "OK" =>
        \A k \in DOMAIN output.mesh.mesh.chunks :
            LET c == output.mesh.mesh.chunks[k]
                blob == CHOOSE b \in BlobChunk : TRUE
                geometry == CHOOSE g \in Geometry(blob) : TRUE
                scale == FloatOr(Values(blob), "header.quantizationScale", 1)
                offset == FloatOr(Values(blob), "header.quantizationOffset", 0)
                At(i) == c.offset + i * c.stride
                V(i) == geometry[At(i) + 1] * scale + offset
                vertices == 0..(c.vertex_count - 1)
            IN  IF ~c.box.valid THEN c.box = NoBox
                ELSE /\ \A i \in vertices : At(i) + PositionBytes <= Len(geometry)
                     /\ \A i \in vertices : c.box.min <= V(i) /\ V(i) <= c.box.max
                     /\ {c.box.min, c.box.max} \subseteq {V(i) : i \in vertices}
                     /\ Finite(c.box.min) /\ Finite(c.box.max)

(* However often a file names one appearance chunk, a mesh holds at most   *)
(* the budget of material names, and never a name without a chunk.         *)
MaterialsBounded ==
    output.mesh.status = "OK" =>
        LET mesh == output.mesh.mesh
            sizes == [k \in DOMAIN mesh.appearances |-> Len(mesh.appearances[k].materials)]
        IN  /\ Total(sizes) <= MaterialBudget
            /\ \A k \in DOMAIN sizes : sizes[k] <= Len(mesh.chunks)

(* A mesh with one blob, whose chunk infos are structs and whose           *)
(* appearance handles are not null and lead to less than the budget.       *)
Regular ==
    LET handles == Only(Walked(Values(0), "appearances"), <<>>)
        Listed(v) == Len(Only(Walked(Values(v.as), "chunkMaterials"), <<>>))
    IN  /\ BlobHandle = BlobOfClass
        /\ \A b \in BlobHandle : \A infos \in Walked(Values(b), "header.renderChunkInfos") :
              \A k \in DOMAIN infos : infos[k].kind = "STRUCT"
        /\ \A k \in DOMAIN handles : handles[k].kind = "HANDLE" /\ handles[k].as >= 0
        /\ Total([k \in DOMAIN handles |-> Listed(handles[k])]) < MaterialBudget

(* The two entry points agree about the same number on a regular mesh,     *)
(* also when an array declares more than it holds.                         *)
CountsAgree ==
    Regular /\ output.mesh.status = "OK" /\ output.desc.status = "OK" =>
        /\ output.desc.submeshes = Len(output.mesh.mesh.chunks)
        /\ output.desc.appearances = Len(output.mesh.mesh.appearances)
        /\ output.desc.bbox = output.mesh.mesh.bbox

(* What cr2w_find returns: numbers, and lists of values.                   *)
IsList(s) == s \in Seq({s[k] : k \in DOMAIN s})
Number(v) == v.kind \in {"UINT", "INT", "BOOL", "FLOAT", "HANDLE"} => v.as \in Int
Typed(values) ==
    \A p \in DOMAIN values :
        LET elems == values[p].as.elems
        IN  /\ Number(values[p])
            /\ values[p].kind = "ARRAY" => IsList(elems) /\ \A k \in DOMAIN elems : Number(elems[k])
=============================================================================
