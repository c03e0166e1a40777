----------------------------- MODULE MCTexture ------------------------------
(* Textures for Texture: extents of eight bits, every kind of texture, and *)
(* a payload that is the header's, that of a larger surface, or neither.   *)
EXTENDS Integers, Sequences, TLC

UintVal(n) == [kind |-> "UINT", as |-> n]
NameVal(n) == [kind |-> "NAME", as |-> n]

TextureChunk(class, compression, raw, gamma, handle) ==
    [class |-> class,
     values |-> ("setup.compression" :> NameVal(compression)) @@ ("setup.rawFormat" :> NameVal(raw))
                @@ ("setup.isGamma" :> [kind |-> "BOOL", as |-> gamma])
                @@ ("renderTextureResource.renderResourceBlobPC" :> [kind |-> "HANDLE", as |-> handle])]
BlobOf(w, h, d, mips, slices, type) ==
    [class |-> "rendRenderTextureBlobPC",
     values |-> ("header.sizeInfo.width" :> UintVal(w)) @@ ("header.sizeInfo.height" :> UintVal(h))
                @@ ("header.sizeInfo.depth" :> UintVal(d)) @@ ("header.textureInfo.mipCount" :> UintVal(mips))
                @@ ("header.textureInfo.sliceCount" :> UintVal(slices))
                @@ ("header.textureInfo.type" :> NameVal(type))
                @@ ("textureData" :> [kind |-> "BUFFER", as |-> 0])]

Shapes == {<<1, 1, "TEXTYPE_2D">>, <<0, 4, "TEXTYPE_2D">>, <<1, 6, "TEXTYPE_CUBE">>,
           <<1, 12, "TEXTYPE_CUBE">>, <<4, 1, "TEXTYPE_3D">>, <<1, 0, "TEXTYPE_2D">>}
(* ... with the bytes of a pixel, or 8 and more: of a block of pixels.      *)
Setups == {<<"TCM_None", "TRF_TrueColor", 1, 4>>, <<"TCM_None", "TRF_Grayscale", 0, 1>>,
           <<"TCM_DXTNoAlpha", "", 0, 8>>, <<"TCM_DXTAlpha", "", 1, 16>>}

(* The true size of a surface scaled by 2^s, where it fits.                *)
SizeScaled(w, h, x, su, mips, s) ==
    LET Side(n) == IF n > 1 THEN n ELSE 1
        Cells(n) == IF su[4] < 8 THEN n ELSE (n + 3) \div 4
        Level(m) == Side(x[1] \div 2 ^ m) * Cells(Side((w * 2 ^ s) \div 2 ^ m)) * Cells(Side((h * 2 ^ s) \div 2 ^ m))
        Levels[m \in 0..32] == IF m = 0 THEN 0 ELSE Levels[m - 1] + Level(m - 1)
    IN  Levels[mips + s] * su[4] * Side(x[2])
Payloads(w, h, x, su, mips) ==
    {0, 100} \cup {n \in {SizeScaled(w, h, x, su, mips, s) : s \in {0, 1, 3}} : n < 65536}

Surfaces ==
    UNION {{[op |-> o, buffers |-> <<n>>,
             chunks |-> <<TextureChunk("CBitmapTexture", su[1], su[2], su[3], 2),
                          BlobOf(w, h, x[1], mips, x[2], x[3])>>] :
              n \in Payloads(w, h, x, su, mips), o \in {"desc", "dds"}} :
        w \in {0, 1, 10, 64, 253}, h \in {7, 33}, mips \in {0, 1, 3, 8, 9}, x \in Shapes, su \in Setups}

(* Every pair of a compression and a raw format.                           *)
Encodings ==
    {[op |-> "dds", buffers |-> <<16>>,
      chunks |-> <<TextureChunk("CTextureArray", c, r, g, 2), BlobOf(4, 4, 1, 1, 1, "TEXTYPE_2D")>>] :
        c \in {"", "TCM_None", "TCM_DXTNoAlpha", "TCM_DXTAlpha", "TCM_DXTAlphaLinear", "TCM_Normalmap",
               "TCM_Normals_DEPRECATED", "TCM_NormalsHigh_DEPRECATED", "TCM_QualityR", "TCM_QualityRG",
               "TCM_QualityColor", "TCM_HalfHDR_Unsigned", "TCM_Newer"},
        r \in {"", "TRF_TrueColor", "TRF_DeepColor", "TRF_Grayscale", "TRF_HDRFloat", "TRF_HDRHalf",
               "TRF_HDRFloatGrayscale", "TRF_R8G8", "TRF_Grayscale_Font"},
        g \in {0, 1}}

(* Other chunks around the texture's own: two blobs, no blob, a null or a   *)
(* missing handle, a buffer the file does not have.                         *)
Resources ==
    LET Root(class, handle) == TextureChunk(class, "TCM_DXTNoAlpha", "", 0, handle)
        Small == BlobOf(4, 4, 1, 1, 1, "TEXTYPE_2D")
        Large == BlobOf(8, 4, 1, 1, 1, "TEXTYPE_2D")
    IN  {[op |-> o, buffers |-> b, chunks |-> c] :
            o \in {"desc", "raw", "dds"}, b \in {<<>>, <<8>>, <<16>>},
            c \in {<<>>} \cup {<<Root(k, h)>> \o tail : k \in {"CCubeTexture", "CMesh"}, h \in {2, 3, -1},
                                   tail \in {<<Small, Large>>, <<Large, Small>>}}
                  \cup {<<Root("CBitmapTexture", -1)>>}}

MCTextures == Surfaces \cup Encodings \cup Resources
=============================================================================
