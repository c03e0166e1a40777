------------------------------- MODULE MCCr2w -------------------------------
(* Documents for Cr2w: arrays of every element layout and structs, written *)
(* out whole, and the same with one byte changed or the end cut off.       *)
(* Bytes have 16 values, so a count or a size has 16 bits.                 *)
EXTENDS Cr2w, SequencesExt, TLC

MCBase == 16
MCImports == 1
MCNames ==
    0 :> <<>> @@ 1 :> <<"x">> @@ 2 :> <<"y">> @@ 3 :> <<"Uint8">> @@ 4 :> <<"SBox">>
    @@ 5 :> <<"Uint16">> @@ 6 :> <<"DeferredDataBuffer">> @@ 7 :> <<"array:", "Uint8">>

B2(n) == <<n % 16, n \div 16>>
B4(n) == B2(n % 256) \o <<0, 0>>
MaxOf(a, b) == IF a > b THEN a ELSE b

(* What a cooked file holds: properties, structs, texts, arrays.           *)
Prop(name, type, payload) == B2(name) \o B2(type) \o B4(4 + Len(payload)) \o payload
Struct(props) == <<0>> \o FlattenSeq(props) \o <<0, 0>>
Text8(n) == <<8 + n>> \o [k \in 1..n |-> 3]   \* sign bit set: one byte each
Text16(n) == <<n>> \o [k \in 1..(2 * n) |-> 3]
ArrayOf(elems) == B4(Len(elems)) \o FlattenSeq(elems)

Empty == Struct(<<>>)
One == Struct(<<Prop(1, 3, <<7>>)>>)
Two == Struct(<<Prop(1, 5, <<1, 1>>)>>)
Nested == Struct(<<Prop(1, 4, One), Prop(2, 6, <<0, 0>>), Prop(1, 3, <<5>>)>>)

SeqsOf(S, n) == UNION {[1..k -> S] : k \in 0..n}

(* An array value, as it stands in the file, and what was written in it.   *)
Regions(elems, first, kind) ==
    [k \in DOMAIN elems |->
        [at |-> first + Len(FlattenSeq(SubSeq(elems, 1, k - 1))), size |-> Len(elems[k]), kind |-> kind]]
ArrayCall(type, kind, elems) ==
    [op |-> "walk_array", type |-> type, size |-> Len(ArrayOf(elems)), intact |-> TRUE,
     bytes |-> ArrayOf(elems) \o <<1, 1, 2, 0, 1>>, wrote |-> Regions(elems, 5, kind)]

Arrays(type, kind, S, n) == {ArrayCall(type, kind, e) : e \in SeqsOf(S, n)}
FixedArrays ==
    UNION {Arrays(<<s, "Uint16">>, "UINT", {<<3, 0>>, <<0, 1>>}, 2) : s \in {"array:", "static:", "[N]"}}
    \cup Arrays(<<"array:", "EColor">>, "NAME", {<<3, 0>>, <<0, 1>>}, 2)
    \cup Arrays(<<"array:", "handle:", "CMesh">>, "HANDLE", {B4(1), B4(0)}, 2)
    \cup Arrays(<<"array:", "DeferredDataBuffer">>, "BUFFER", {<<1, 0>>, <<2, 0>>}, 2)
TextArrays == UNION {Arrays(<<"array:", t>>, "STRING", {Text8(0), Text8(2), Text16(1)}, 2) : t \in {"CString", "NodeRef"}}
Rows == {ArrayOf(e) : e \in SeqsOf({Text8(1), Text16(1)}, 2)}
NestedArrays ==
    Arrays(<<"array:", "[N]", "String">>, "ARRAY", Rows, 2)
    \cup Arrays(<<"array:", "array:", "Uint8">>, "ARRAY", {ArrayOf(<<>>), ArrayOf(<<<<1>>, <<2>>>>)}, 2)
StructArrays == Arrays(<<"array:", "SBox">>, "STRUCT", {Empty, One, Two}, 3)

(* Struct arrays whose bytes happen to divide evenly into small elements.  *)
Even(c) == /\ Len(c.wrote) > 0 /\ (c.size - 4) % Len(c.wrote) = 0
           /\ (c.size - 4) \div Len(c.wrote) \in 1..8
           /\ \E k \in DOMAIN c.wrote : c.wrote[k].size # (c.size - 4) \div Len(c.wrote)

(* Paths into one struct chunk.                                            *)
ChunkCall(op, path, wrote) ==
    [op |-> op, type |-> <<"SBox">>, size |-> Len(Nested), intact |-> TRUE, bytes |-> Nested, path |-> path,
     chunk |-> [at |-> 1, size |-> Len(Nested), type |-> <<"SBox">>], wrote |-> wrote]
At(p, s, kind) == [at |-> p, size |-> s, kind |-> kind]
ChunkCalls ==
    {ChunkCall("get", <<>>, <<At(1, Len(Nested), "STRUCT")>>),
     ChunkCall("get", <<<<"x">>>>, <<At(10, 12, "STRUCT")>>),
     ChunkCall("get", <<<<"x">>, <<"x">>>>, <<At(19, 1, "UINT")>>),
     ChunkCall("get", <<<<"y">>>>, <<At(30, 2, "RAW")>>),
     ChunkCall("walk", <<>>, <<At(10, 12, "STRUCT"), At(30, 2, "RAW"), At(40, 1, "UINT")>>),
     ChunkCall("walk", <<<<"x">>>>, <<At(19, 1, "UINT")>>)}

(* Calls that deliver nothing: paths with a name that is missing or of no  *)
(* length, after a struct and after a number, and an unclosed bracket.     *)
Astray ==
    {[ChunkCall(op, path, <<>>) EXCEPT !.intact = FALSE] :
        op \in {"get", "walk"},
        path \in {<<<<>>>>, <<<<>>, <<>>>>, <<<<"x">>, <<>>>>, <<<<"x">>, <<>>, <<"x">>>>, <<<<"y">>, <<>>>>, <<<<"z">>, <<>>>>}}
    \cup {[c EXCEPT !.intact = FALSE] : c \in Arrays(<<"[", "Uint8">>, "ARRAY", {ArrayOf(<<>>), ArrayOf(<<<<1>>>>)}, 2)}

Intact == FixedArrays \cup TextArrays \cup NestedArrays \cup {c \in StructArrays : ~Even(c)} \cup ChunkCalls

Pick(calls) == {c \in calls : Len(c.wrote) = 2 \/ c.op # "walk_array"}
Damaged(calls) ==
    {[x[1] EXCEPT !.intact = FALSE, !.bytes[x[2]] = x[3]] :
        x \in {y \in calls \X (1..48) \X {0, 1, 7, 8, 15} : y[2] <= y[1].size}}
CutOff(calls) ==
    UNION {{[c EXCEPT !.intact = FALSE, !.size = n] : n \in 0..(c.size - 1)} : c \in calls \ ChunkCalls}
    \cup {[c EXCEPT !.intact = FALSE, !.chunk.size = n] : c \in calls \cap ChunkCalls, n \in {0, 11, 30, 47, 65535}}
(* A size of 0xFFFFFFFC, where 8 + (size - 4) is 0 in four bytes.          *)
WrappingSize ==
    {[ArrayCall(<<"array:", "SBox">>, "STRUCT", <<One, One>>) EXCEPT
         !.intact = FALSE, !.bytes = [k \in DOMAIN @ |-> IF k \in 10..13 THEN IF k = 10 THEN 12 ELSE 15 ELSE @[k]]]}

(* Headers: a sound one with one or two tables moved or resized; 8192 rows *)
(* of 8 bytes are 65536, which is 0 in four bytes of 16 values.            *)
Sound == [size |-> 200, magic |-> TRUE, version |-> 163, nuls |-> {163},
          strings |-> [offset |-> 160, count |-> 4], names |-> [offset |-> 168, count |-> 2],
          imports |-> [offset |-> 184, count |-> 1], chunks |-> [offset |-> 160, count |-> 0],
          buffers |-> [offset |-> 176, count |-> 1]]
Tables == [offset : {0, 160, 177, 200}, count : {0, 1, 3, 5, 8192, 65535}]
Files ==
    {[Sound EXCEPT !.size = s, !.magic = m, !.version = v] :
        s \in {0, 159, 160, 199, 200}, m \in BOOLEAN, v \in {162, 163, 195, 196}}
    \cup {[Sound EXCEPT !.nuls = z, !.strings = t] : z \in SUBSET {160, 163}, t \in Tables}
    \cup {[Sound EXCEPT ![x] = t, ![y] = u] : x, y \in DOMAIN Stride, t, u \in Tables}
FileCalls == {[op |-> "open", file |-> f] : f \in Files}

MCInputs ==
    Intact \cup Damaged(Pick(Intact)) \cup CutOff(Pick(Intact)) \cup WrappingSize \cup Astray \cup FileCalls
=============================================================================
