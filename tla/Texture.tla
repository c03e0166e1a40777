------------------------------ MODULE Texture -------------------------------
(***************************************************************************)
(* Describing and reading a texture (formats.cpp): which DXGI format it    *)
(* has, how many bytes its mip chain takes, the DDS header written in      *)
(* front of the payload, and the two checks of redfs_verify.cpp.           *)
(*                                                                         *)
(* A document is its chunks, each a class and the values cr2w_find returns *)
(* in it by path; a buffer is its size.  Extents and mip counts have       *)
(* ExtentBits bits, byte counts twice as many (32 and 64 in the program).  *)
(***************************************************************************)
EXTENDS Integers, Sequences, FiniteSetsExt, Ordering

CONSTANTS
    ExtentBits,
    Textures    \* the calls: [op, chunks, buffers]

VARIABLES
    input,
    output

vars == <<input, output>>

(* n << s and n >> m, one bit at a time.                                   *)
Left(n, s) == LET at[k \in 0..s] == IF k = 0 THEN n ELSE 2 * at[k - 1] IN at[s]
Right(n, m) == LET at[k \in 0..m] == IF k = 0 THEN n ELSE at[k - 1] \div 2 IN at[m]

Word == Left(1, ExtentBits)
Long == Word * Word
AtLeast1(n) == IF n = 0 THEN 1 ELSE n

-----------------------------------------------------------------------------
(* Formats.                                                                *)

Srgb == [R8G8B8A8_UNORM |-> "R8G8B8A8_UNORM_SRGB", BC1_UNORM |-> "BC1_UNORM_SRGB",
         BC3_UNORM |-> "BC3_UNORM_SRGB", BC7_UNORM |-> "BC7_UNORM_SRGB"]
FormatOf(compression, raw, gamma) ==
    LET Gamma(f) == IF gamma THEN Srgb[f] ELSE f IN
    CASE compression \in {"", "TCM_None"} ->
            (CASE raw = "TRF_TrueColor" -> Gamma("R8G8B8A8_UNORM")
               [] raw = "TRF_DeepColor" -> "R16G16B16A16_UNORM"
               [] raw = "TRF_Grayscale" -> "R8_UNORM"
               [] raw = "TRF_HDRFloat" -> "R32G32B32A32_FLOAT"
               [] raw = "TRF_HDRHalf" -> "R16G16B16A16_FLOAT"
               [] raw = "TRF_HDRFloatGrayscale" -> "R16_FLOAT"
               [] raw = "TRF_R8G8" -> "R8G8_UNORM"
               [] raw = "TRF_Grayscale_Font" -> "A8_UNORM"
               [] OTHER -> "R8G8B8A8_UNORM")
      [] compression = "TCM_DXTNoAlpha" -> Gamma("BC1_UNORM")
      [] compression \in {"TCM_DXTAlpha", "TCM_DXTAlphaLinear"} -> Gamma("BC3_UNORM")
      [] compression \in {"TCM_Normalmap", "TCM_QualityRG"} -> "BC5_UNORM"
      [] compression = "TCM_Normals_DEPRECATED" -> "BC1_UNORM"
      [] compression = "TCM_NormalsHigh_DEPRECATED" -> "BC3_UNORM"
      [] compression = "TCM_QualityR" -> "BC4_UNORM"
      [] compression = "TCM_QualityColor" -> Gamma("BC7_UNORM")
      [] compression = "TCM_HalfHDR_Unsigned" -> "BC6H_UF16"
      [] OTHER -> "UNKNOWN"

BlockCompressed ==
    {"BC1_UNORM", "BC1_UNORM_SRGB", "BC3_UNORM", "BC3_UNORM_SRGB", "BC4_UNORM", "BC5_UNORM",
     "BC6H_UF16", "BC7_UNORM", "BC7_UNORM_SRGB"}
BlockBytes(f) == IF f \in {"BC1_UNORM", "BC1_UNORM_SRGB", "BC4_UNORM"} THEN 8 ELSE 16
BitsPerPixel(f) ==
    CASE f = "R32G32B32A32_FLOAT" -> 128
      [] f \in {"R16G16B16A16_FLOAT", "R16G16B16A16_UNORM"} -> 64
      [] f \in {"R8G8_UNORM", "R16_FLOAT"} -> 16
      [] f \in {"R8_UNORM", "A8_UNORM"} -> 8
      [] OTHER -> 32

-----------------------------------------------------------------------------
(* mip_chain_bytes: level m has each extent shifted right by m, at least 1; *)
(* block formats round it up to whole blocks of four.                       *)

Blocks(extent) == ((extent + 3) % Word) \div 4

LevelBytes(f, w, h) ==
    IF f \in BlockCompressed THEN (Blocks(w) * Blocks(h) * BlockBytes(f)) % Long
    ELSE ((w * h * BitsPerPixel(f)) % Long) \div 8

MipChainBytes(t) ==
    LET Extent(n, m) == AtLeast1(Right(n, m))
        Level(m) == LevelBytes(t.format, Extent(t.width, m), Extent(t.height, m)) * Extent(t.depth, m)
        levels == IF t.mips < ExtentBits THEN t.mips ELSE ExtentBits
    IN  IF t.width = 0 \/ t.height = 0 \/ t.mips = 0 THEN 0
        ELSE ((Total([n \in 1..levels |-> Level(n - 1)]) % Long) * AtLeast1(t.slices)) % Long

-----------------------------------------------------------------------------
(* describe_texture.                                                       *)

Class(c) == input.chunks[c].class
Found(c, path) ==
    {input.chunks[k].values[path] : k \in {x \in DOMAIN input.chunks \cap {c} : path \in DOMAIN input.chunks[x].values}}
OfKind(c, path, kinds) == {v.as : v \in {x \in Found(c, path) : x.kind \in kinds}}
Only(S, fallback) == IF S = {} THEN fallback ELSE CHOOSE x \in S : TRUE
UintOr(c, path, fallback) == Only(OfKind(c, path, {"UINT", "INT", "BOOL"}), fallback) % Word
NameOr(c, path, fallback) == Only(OfKind(c, path, {"NAME"}), fallback)

(* The resource's own blob, by its handle; another of the class only if    *)
(* the handle is missing or null.                                          *)
Searched == {c \in DOMAIN input.chunks : Class(c) = "rendRenderTextureBlobPC"}
Handle == {c \in OfKind(1, "renderTextureResource.renderResourceBlobPC", {"HANDLE"}) : c >= 0}
BlobChunk == IF Handle # {} \/ Searched = {} THEN Handle ELSE {Min(Searched)}

Declared(blob) ==
    [width |-> UintOr(blob, "header.sizeInfo.width", 0),
     height |-> UintOr(blob, "header.sizeInfo.height", 0),
     depth |-> UintOr(blob, "header.sizeInfo.depth", 1),
     mips |-> UintOr(blob, "header.textureInfo.mipCount", 1),
     slices |-> UintOr(blob, "header.textureInfo.sliceCount", 1),
     format |-> FormatOf(NameOr(1, "setup.compression", "TCM_None"), NameOr(1, "setup.rawFormat", ""),
                         UintOr(1, "setup.isGamma", 0) # 0),
     type |-> NameOr(blob, "header.textureInfo.type", "TEXTYPE_2D"),
     buffer |-> Only(OfKind(blob, "textureData", {"BUFFER"}), 0)]

(* When the payload is not the chain the header declares, the first rescale *)
(* by a power of two that makes them agree is taken.                        *)
MaxShift == 4
Scaled_Wraps(t, s) == [t EXCEPT !.width = Left(@, s) % Word, !.height = Left(@, s) % Word, !.mips = @ + s]
Scaled(t, s) == [t EXCEPT !.width = Left(@, s), !.height = Left(@, s), !.mips = @ + s]
Reconciled(t, size) ==
    LET fits == {s \in 1..MaxShift : /\ Scaled(t, s).width < Word /\ Scaled(t, s).height < Word
                                     /\ MipChainBytes(Scaled(t, s)) = size}
    IN  IF MipChainBytes(t) = size \/ fits = {} THEN t ELSE Scaled(t, Min(fits))

NoTexture == [width |-> 0]
NoDds == [bytes |-> 0]
Answer(status) == [status |-> status, texture |-> NoTexture, dds |-> NoDds]

(* The size of an attached buffer; a buffer the file does not have is an   *)
(* error of read_part.                                                     *)
SizeOf(buffer) == input.buffers[buffer + 1]

Described ==
    IF input.chunks = <<>> THEN Answer("CORRUPT")
    ELSE IF Class(1) \notin {"CBitmapTexture", "CTextureArray", "CCubeTexture"} \/ BlobChunk = {}
    THEN Answer("UNSUPPORTED")
    ELSE LET t == Declared(CHOOSE c \in BlobChunk : TRUE) IN
         IF t.width = 0 \/ t.height = 0 \/ t.mips > ExtentBits THEN Answer("CORRUPT")
         ELSE IF t.format = "UNKNOWN" THEN Answer("UNSUPPORTED")
         ELSE IF t.buffer + 1 \notin DOMAIN input.buffers THEN Answer("RANGE")
         ELSE [Answer("OK") EXCEPT !.texture = Reconciled(t, SizeOf(t.buffer))]

-----------------------------------------------------------------------------
(* write_dds_header.  On disk the array counts cubes, not faces.           *)

HeaderBytes == 4 + 124 + 20
ArraySize_Faces(t) == AtLeast1(t.slices)
ArraySize(t) == IF t.type = "TEXTYPE_CUBE" THEN AtLeast1(t.slices \div 6) ELSE AtLeast1(t.slices)

DdsHeader(t) ==
    [width |-> t.width, height |-> t.height, format |-> t.format,
     depth |-> IF t.type = "TEXTYPE_3D" THEN AtLeast1(t.depth) ELSE 1,
     mips |-> AtLeast1(t.mips), arraySize |-> ArraySize(t), cube |-> t.type = "TEXTYPE_CUBE",
     volume |-> t.type = "TEXTYPE_3D" /\ t.depth > 1,
     bytes |-> HeaderBytes + SizeOf(t.buffer)]

Init == input \in Textures /\ output = Answer("called")

Calling(op) == input.op = op /\ output.status = "called"

TextureDescOf ==
    /\ Calling("desc")
    /\ output' = Described
    /\ UNCHANGED input

TextureReadRaw ==
    /\ Calling("raw")
    /\ output' = IF Described.status # "OK" THEN Described
                 ELSE [Described EXCEPT !.dds.bytes = SizeOf(Described.texture.buffer)]
    /\ UNCHANGED input

TextureReadDds ==
    /\ Calling("dds")
    /\ output' = IF Described.status # "OK" THEN Described
                 ELSE [Described EXCEPT !.dds = DdsHeader(Described.texture)]
    /\ UNCHANGED input

Next == TextureDescOf \/ TextureReadRaw \/ TextureReadDds

Spec == Init /\ [][Next]_vars

-----------------------------------------------------------------------------
(* redfs_verify: its own table of formats and its own arithmetic, written  *)
(* so that they can disagree with the library's.                           *)

Block16 == {"BC3_UNORM", "BC3_UNORM_SRGB", "BC5_UNORM", "BC6H_UF16", "BC7_UNORM", "BC7_UNORM_SRGB"}
Block8 == {"BC1_UNORM", "BC1_UNORM_SRGB", "BC4_UNORM"}
Bits == [R32G32B32A32_FLOAT |-> 128, R16G16B16A16_FLOAT |-> 64, R16G16B16A16_UNORM |-> 64,
         R8G8B8A8_UNORM |-> 32, R8G8B8A8_UNORM_SRGB |-> 32, R8G8_UNORM |-> 16, R16_FLOAT |-> 16,
         R8_UNORM |-> 8, A8_UNORM |-> 8]

ExpectedBytes(t, faces) ==
    LET Extent(n, m) == AtLeast1(Right(n, m))
        Ceil4(n) == (n + 3) \div 4
        Level(m) ==
            LET w == Extent(t.width, m)
                h == Extent(t.height, m)
            IN  Extent(t.depth, m) *
                (IF t.format \in DOMAIN Bits THEN (w * h * Bits[t.format]) \div 8
                 ELSE Ceil4(w) * Ceil4(h) * (IF t.format \in Block8 THEN 8 ELSE 16))
    IN  Total([n \in 1..t.mips |-> Level(n - 1)]) * AtLeast1(faces)

(* What a DDS loader makes of the array size: it multiplies cubes by six.  *)
LoadedFaces(dds) == IF dds.cube THEN 6 * dds.arraySize ELSE dds.arraySize

HeaderOk(t, dds) ==
    /\ <<dds.width, dds.height, dds.mips, dds.format>> = <<t.width, t.height, t.mips, t.format>>
    /\ LoadedFaces(dds) = t.slices
    /\ dds.cube = (t.type = "TEXTYPE_CUBE")

-----------------------------------------------------------------------------
(* Properties.                                                             *)

(* What the library can size without wrapping: blocks are counted in words *)
(* and bits in longs, and no more levels are added up than a word has bits. *)
Sizable(t) ==
    /\ t.mips <= ExtentBits /\ 8 * ExpectedBytes(t, t.slices) < Long
    /\ t.format \notin DOMAIN Bits => t.width + 3 < Word /\ t.height + 3 < Word

(* A descriptor that is handed out has an extent, is the texture's own (of *)
(* the blob its handle names), and differs from what that blob's header    *)
(* says only by a power of two.  As far as sizes do not wrap, such a one   *)
(* fits the payload exactly and the header did not; and one that does not  *)
(* fit is the header, of which no power of two fits either.                *)
DescriptorHonest ==
    output.status = "OK" =>
        LET t == output.texture
            own == IF Handle # {} THEN Handle ELSE {Min(Searched)}
            header == Declared(CHOOSE c \in own : TRUE)
            Fits(x) == ExpectedBytes(x, x.slices) = SizeOf(header.buffer)
            Powers == {x \in {Scaled(header, s) : s \in 1..MaxShift} : x.width < Word /\ x.height < Word}
        IN  /\ t.width \in 1..(Word - 1) /\ t.height \in 1..(Word - 1)
            /\ t \in {header} \cup Powers
            /\ Sizable(t) => /\ t # header => ~Fits(header) /\ Fits(t)
                             /\ ~Fits(t) => \A x \in Powers : Sizable(x) => ~Fits(x)

(* What a cooker writes: at least one level and one face, no more levels   *)
(* than an extent has bits, six faces a cube, depth in volumes only.       *)
Cooked(t) ==
    /\ t.mips \in 1..ExtentBits /\ t.slices > 0
    /\ t.type = "TEXTYPE_CUBE" => t.slices % 6 = 0
    /\ t.type # "TEXTYPE_3D" => t.depth <= 1

(* Both checks of redfs_verify pass on a cooked texture, and a loader that *)
(* believes the DDS header reads exactly the bytes that follow it, if the  *)
(* library found the payload to be the descriptor's (without wrapping).    *)
LoaderReadsPayload ==
    output.status = "OK" /\ input.op = "dds" /\ Cooked(output.texture) =>
        LET t == output.texture
            dds == output.dds
        IN  /\ HeaderOk(t, dds)
            /\ ExpectedBytes(dds, LoadedFaces(dds)) = ExpectedBytes(t, t.slices)
            /\ MipChainBytes(t) = SizeOf(t.buffer) /\ Sizable(t) =>
                  dds.bytes = HeaderBytes + ExpectedBytes(dds, LoadedFaces(dds))
=============================================================================
