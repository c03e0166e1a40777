-------------------------------- MODULE Cr2w ---------------------------------
(***************************************************************************)
(* Reading a CR2W document (cr2w.cpp): opening it, walking an array or the *)
(* properties of a struct, and resolving a dotted path.                    *)
(*                                                                         *)
(* A document is a sequence of bytes; a pointer is the index of a byte and *)
(* Null is 0.  A byte holds Base values, so an integer of four bytes has   *)
(* Base^4: the layout keeps its widths in bytes while TLC counts with      *)
(* small numbers (Base = 256 is the program).  A type name is the sequence *)
(* of its parts: <<"array:", "handle:", "CMesh">>, "[N]" a bracketed count *)
(* and "[" a bracket that is never closed.  The string cache of            *)
(* cr2w_decode is left out: a text is the bytes it is decoded from.        *)
(***************************************************************************)
EXTENDS Integers, Sequences, FiniteSetsExt

CONSTANTS
    Base,     \* values of a byte
    Names,    \* the name table, from index 0: type names and property names
    Imports,  \* number of imports
    Inputs    \* what the host asks, of which document

ASSUME Cr2wAssumption ==
    /\ Base \in Nat /\ Base >= 8 /\ Base % 4 = 0
    /\ \A n \in DOMAIN Names : n \in Nat /\ Names[n] \in Seq(STRING)
    /\ Imports \in Nat

(* Any bytes; an array lies in them, a chunk wherever its table says.      *)
ASSUME InputsAssumption ==
    \A i \in Inputs :
        /\ i.op \in {"open", "walk_array", "get", "walk"}
        /\ i.op = "open" => \A t \in {"strings", "names", "imports", "chunks", "buffers"} :
                               {i.file.size, i.file[t].offset, i.file[t].count} \subseteq Nat
        /\ i.op # "open" => i.bytes \in Seq(0..(Base - 1))
        /\ i.op = "walk_array" => i.type \in Seq(STRING) /\ i.size \in 0..Len(i.bytes)
        /\ i.op \in {"get", "walk"} =>
              i.chunk.at \in Nat \ {0} /\ i.chunk.size \in Nat /\ i.path \in Seq(Seq(STRING))

VARIABLES
    input,   \* the call
    output   \* what it has delivered so far, and its status

vars == <<input, output>>

Null == 0
U32 == Base * Base * Base * Base
MainPart == U32 - 2  \* REDFS_PART_MAIN; REDFS_PART_ALL is U32 - 1

Byte(p) == IF p \in DOMAIN input.bytes THEN input.bytes[p] ELSE 0
Rd16(p) == Byte(p) + Base * Byte(p + 1)
Rd32(p) == Rd16(p) + Base * Base * Rd16(p + 2)

Name(i) == IF i \in DOMAIN Names THEN Names[i] ELSE <<>>

Smaller(a, b) == IF a < b THEN a ELSE b

-----------------------------------------------------------------------------
(* Types.                                                                  *)

Scalar ==
    [Bool |-> [width |-> 1, kind |-> "BOOL"],   Int8   |-> [width |-> 1, kind |-> "INT"],
     Uint8 |-> [width |-> 1, kind |-> "UINT"],  Int16  |-> [width |-> 2, kind |-> "INT"],
     Uint16 |-> [width |-> 2, kind |-> "UINT"], CName  |-> [width |-> 2, kind |-> "NAME"],
     Int32 |-> [width |-> 4, kind |-> "INT"],   Uint32 |-> [width |-> 4, kind |-> "UINT"],
     Float |-> [width |-> 4, kind |-> "FLOAT"], Int64  |-> [width |-> 8, kind |-> "INT"],
     Uint64 |-> [width |-> 8, kind |-> "UINT"], Double |-> [width |-> 8, kind |-> "FLOAT"],
     TweakDBID |-> [width |-> 8, kind |-> "UINT"]]

HeadOf(type) == IF type = <<>> THEN "" ELSE type[1]
IsScalar(type) == Len(type) = 1 /\ HeadOf(type) \in DOMAIN Scalar
IsHandle(type) == HeadOf(type) \in {"handle:", "whandle:"}
IsImport(type) == HeadOf(type) \in {"rRef:", "raRef:"}
IsString(type) == type \in {<<"CString">>, <<"String">>, <<"NodeRef">>}
IsArray(type) == HeadOf(type) \in {"array:", "static:", "[N]", "["}

(* Each of the three spellings of an array is taken off its element type;  *)
(* a bracket that is not closed stays.                                     *)
ElementType_TwoSpellings(type) == IF HeadOf(type) \in {"array:", "static:"} THEN Tail(type) ELSE type
ElementType(type) == IF HeadOf(type) \in {"array:", "static:", "[N]"} THEN Tail(type) ELSE type

(* 0 for a type whose values have to be measured.                          *)
FixedWidth(type) ==
    IF IsScalar(type) THEN Scalar[HeadOf(type)].width
    ELSE IF IsHandle(type) THEN 4 ELSE IF IsImport(type) THEN 2 ELSE 0

-----------------------------------------------------------------------------
(* Measuring a value: the pointer just past it, or Null.                   *)

(* read_vlq: the first octet keeps a sign and a continuation bit, the      *)
(* others a continuation bit.  A positive prefix counts UTF-16 units.      *)
ReadVlq(p, limit) ==
    LET weight[i \in 0..8] ==
            IF i = 0 THEN 1 ELSE IF i = 1 THEN Base \div 4 ELSE weight[i - 1] * (Base \div 2)
        More(i) == IF i = 0 THEN (Byte(p) \div (Base \div 4)) % 2 = 1 ELSE Byte(p + i) >= Base \div 2
        Reads(n) == \A i \in 1..(n - 1) : More(i - 1) /\ p + i < limit /\ weight[i] < U32
        octets == CHOOSE n \in 1..8 : Reads(n) /\ ~Reads(n + 1)
        Bits(i) == Byte(p + i) % (IF i = 0 THEN Base \div 4 ELSE Base \div 2)
        sum[n \in 0..8] == IF n = 0 THEN 0 ELSE (sum[n - 1] + Bits(n - 1) * weight[n - 1]) % U32
    IN  IF p >= limit THEN [chars |-> 0, wide |-> FALSE, next |-> p]
        ELSE [chars |-> sum[octets], wide |-> sum[octets] > 0 /\ Byte(p) < Base \div 2, next |-> p + octets]

CStringEnd(p, limit) ==
    LET v == ReadVlq(p, limit)
        bytes == (IF v.wide THEN 2 ELSE 1) * v.chars
    IN  IF limit - v.next < bytes THEN Null ELSE v.next + bytes

(* struct_end.  A turn takes 8 bytes; a scan of more turns than that has   *)
(* stopped moving, and never ends.                                         *)
Turns == Len(input.bytes) \div 8 + 1
Running == -1
Advance_Wraps(p, payload, limit) ==
    IF p + ((8 + payload) % U32) > limit THEN Null ELSE p + ((8 + payload) % U32)
Advance(p, payload, limit) == IF limit - (p + 8) < payload THEN Null ELSE p + 8 + payload

Turn(s, limit) ==
    IF s.end # Running THEN s
    ELSE IF s.at + 2 > limit THEN [s EXCEPT !.end = Null]
    ELSE IF Rd16(s.at) = 0 THEN [s EXCEPT !.end = s.at + 2]
    ELSE IF s.at + 8 > limit \/ Rd32(s.at + 4) < 4 THEN [s EXCEPT !.end = Null]
    ELSE LET next == Advance(s.at, Rd32(s.at + 4) - 4, limit)
         IN  IF next = Null THEN [s EXCEPT !.end = Null] ELSE [s EXCEPT !.at = next]
StructEnd(body, limit) ==
    LET scan[n \in 0..Turns] ==
            IF n = 0 THEN [at |-> body + 1, end |-> Running] ELSE Turn(scan[n - 1], limit)
    IN  IF body >= limit THEN Null ELSE scan[Turns].end

MaxArrayDepth == 8

(* array_end.  Of a count larger than the bytes left, only the elements    *)
(* that could be there are measured: one of them fails.                    *)
ElementsEnd(end, first, count, limit) ==
    LET past[k \in 0..Smaller(count, limit - first + 1)] ==
            IF k = 0 THEN first
            ELSE LET p == past[k - 1] IN IF p = Null \/ end[p] <= p THEN Null ELSE end[p]
    IN  past[Smaller(count, limit - first + 1)]

(* An array of whose levels `deeper' ends the elements, at each place.     *)
LevelEnd(type, p, limit, deeper) ==
    LET count == Rd32(p)
        elem == ElementType(type)
        width == FixedWidth(elem)
    IN  IF limit - p < 4 THEN Null
        ELSE IF count = 0 THEN p + 4
        ELSE IF width > 0 THEN IF limit - (p + 4) < count * width THEN Null ELSE p + 4 + count * width
        ELSE IF IsString(elem)
        THEN ElementsEnd([q \in 1..limit |-> CStringEnd(q, limit)], p + 4, count, limit)
        ELSE IF IsArray(elem)
        THEN ElementsEnd([q \in 1..limit |-> deeper[<<elem, q>>]], p + 4, count, limit)
        ELSE Null
ArrayEnd(array, start, limit) ==
    LET levels[room \in 0..MaxArrayDepth] ==
            [x \in Seq(STRING) \X (1..limit) |->
                IF room = 0 THEN Null ELSE LevelEnd(x[1], x[2], limit, levels[room - 1])]
    IN  levels[MaxArrayDepth][<<array, start>>]

-----------------------------------------------------------------------------
(* cr2w_decode: the kind of a value and what it holds.  A test that fails  *)
(* on the size falls through to the last two; those of handles, imports    *)
(* and arrays do not.                                                      *)

Bytes(at, n) == [k \in 1..n |-> Byte(at + k - 1)]

Text(at, size) ==
    LET v == ReadVlq(at, at + size)
        bytes == (IF v.wide THEN 2 ELSE 1) * v.chars
    IN  IF at + size - v.next >= bytes THEN [from |-> v.next, bytes |-> bytes]
        ELSE [from |-> at, bytes |-> 0]

(* A deferred buffer of index 0 is no buffer; 0 - 1 would be a part of the *)
(* archive with a meaning of its own.                                      *)
BufferIndex(type, at) ==
    IF type = <<"DataBuffer">>
    THEN {i \in {Rd32(at) - U32 \div 2 - 1} : i >= 0}
    ELSE {i \in {Rd16(at) - 1} : i >= 0}

IsBuffer(type, size) ==
    \/ type = <<"DeferredDataBuffer">> /\ size >= 2
    \/ type = <<"DataBuffer">> /\ size >= 4

(* An int32_t of these bits; INT32_MIN less one wraps.                     *)
Signed(n) == IF n >= U32 \div 2 THEN n - U32 ELSE n

Decode(type, at, size) ==
    LET Value(kind, as) == [type |-> type, at |-> at, size |-> size, kind |-> kind, as |-> as]
        raw == Value("RAW", Null)
    IN  IF IsScalar(type) /\ size >= FixedWidth(type)
        THEN Value(Scalar[HeadOf(type)].kind,
                   IF type = <<"CName">> THEN Name(Rd16(at)) ELSE Bytes(at, FixedWidth(type)))
        ELSE IF IsString(type) THEN Value("STRING", Text(at, size))
        ELSE IF IsBuffer(type, size)
        THEN IF BufferIndex(type, at) = {} THEN raw
             ELSE Value("BUFFER", CHOOSE i \in BufferIndex(type, at) : TRUE)
        ELSE IF IsHandle(type)
        THEN IF size < 4 THEN raw
             ELSE Value("HANDLE", Signed((Rd32(at) - 1) % U32))
        ELSE IF IsImport(type)
        THEN IF size < 2 THEN raw
             ELSE Value("IMPORT", IF Rd16(at) \in 1..Imports THEN Rd16(at) ELSE Null)
        ELSE IF IsArray(type) THEN IF size < 4 THEN raw ELSE Value("ARRAY", Rd32(at))
        ELSE IF size = 2 THEN Value("NAME", Name(Rd16(at)))
        ELSE IF size >= 3 /\ Byte(at) = 0 THEN Value("STRUCT", Null)
        ELSE raw

-----------------------------------------------------------------------------
(* PropWalker: the properties of a struct body, up to the terminator or to *)
(* the first one that does not fit.                                        *)

PropAt(p, end) ==
    {q \in {[name |-> Name(Rd16(p)), type |-> Name(Rd16(p + 2)), at |-> p + 8, size |-> Rd32(p + 4) - 4]} :
        p + 8 <= end /\ Rd16(p) # 0 /\ q.size >= 0 /\ q.at + q.size <= end}

Step(s, end) ==
    IF PropAt(s.at, end) = {} THEN s
    ELSE LET q == CHOOSE x \in PropAt(s.at, end) : TRUE
         IN  [at |-> q.at + q.size, props |-> Append(s.props, q)]
Props(body, end) ==
    LET walked[n \in 0..Turns] ==
            IF n = 0 THEN [at |-> body + 1, props |-> <<>>] ELSE Step(walked[n - 1], end)
    IN  IF body < end THEN walked[Turns].props ELSE <<>>

DecodeProp(q) == Decode(q.type, q.at, q.size)

(* cr2w_get_in: each name is looked for in the struct the last one led to, *)
(* and one of no length, where two dots meet or at the end, is refused.    *)
Descend(v, name) ==
    LET props == Props(v.at, v.at + v.size)
        named == {k \in DOMAIN props : props[k].name = name}
    IN  IF v.kind # "STRUCT" \/ name = <<>> \/ named = {} THEN {} ELSE {DecodeProp(props[Min(named)])}
GetIn(root, path) ==
    LET found[n \in 0..Len(path)] ==
            IF n = 0 THEN {root} ELSE UNION {Descend(v, path[n]) : v \in found[n - 1]}
    IN  found[Len(path)]
Refused(root, path) ==
    \E k \in DOMAIN path :
        path[k] = <<>> /\ \E v \in GetIn(root, SubSeq(path, 1, k - 1)) : v.kind = "STRUCT"
NotFound(root, path) == IF Refused(root, path) THEN "INVALID_ARG" ELSE "NOT_FOUND"

(* cr2w_find: the chunk must lie inside the file.                          *)
InFile(chunk) == chunk.at - 1 + chunk.size <= Len(input.bytes)
Root(chunk) == [type |-> chunk.type, at |-> chunk.at, size |-> chunk.size, kind |-> "STRUCT", as |-> Null]

-----------------------------------------------------------------------------
(* cr2w_walk_array.                                                        *)

(* How the elements are laid out.  Of a type that is not known, the bytes  *)
(* decide: if they divide evenly into small elements, those are enums.     *)
Classify(elem, first, limit, count) ==
    LET avail == limit - first IN
    IF FixedWidth(elem) > 0 THEN [kind |-> "fixed", stride |-> FixedWidth(elem)]
    ELSE IF IsString(elem) THEN [kind |-> "string", stride |-> 0]
    ELSE IF IsArray(elem) THEN [kind |-> "array", stride |-> 0]
    ELSE IF count > 0 /\ avail % count = 0 /\ avail \div count \in 1..8
    THEN [kind |-> "fixed", stride |-> avail \div count]
    ELSE [kind |-> "struct", stride |-> 0]

Array == Decode(input.type, 1, input.size)
Limit == 1 + input.size
Element == ElementType(input.type)
Layout == Classify(Element, 5, Limit, Array.as)

ElementEnd(p) ==
    CASE Layout.kind = "fixed" -> IF Limit - p < Layout.stride THEN Null ELSE p + Layout.stride
      [] Layout.kind = "string" -> CStringEnd(p, Limit)
      [] Layout.kind = "array" -> ArrayEnd(Element, p, Limit)
      [] Layout.kind = "struct" -> StructEnd(p, Limit)

(* No progress means malformed.                                            *)
Progress(end) == end > output.at

NoOutput == [status |-> "called", at |-> 0, values |-> <<>>]

Init == input \in Inputs /\ output = NoOutput

Calling(op) == input.op = op /\ output.status = "called"
Walking == output.status = "walking"

WalkArray ==
    /\ Calling("walk_array")
    /\ output' = [output EXCEPT !.at = 5,
                     !.status = IF Array.kind # "ARRAY" THEN "INVALID_ARG" ELSE "walking"]
    /\ UNCHANGED input

(* One element is decoded and delivered; the callback may stop the walk.   *)
Deliver(stop) ==
    /\ Walking /\ Len(output.values) < Array.as
    /\ Progress(ElementEnd(output.at))
    /\ output' = [status |-> IF stop THEN "stopped" ELSE "walking", at |-> ElementEnd(output.at),
                  values |-> Append(output.values,
                                Decode(Element, output.at, ElementEnd(output.at) - output.at))]
    /\ UNCHANGED input

Malformed ==
    /\ Walking /\ Len(output.values) < Array.as
    /\ ElementEnd(output.at) # Running /\ ~Progress(ElementEnd(output.at))
    /\ output' = [output EXCEPT !.status = "CORRUPT"]
    /\ UNCHANGED input

Delivered ==
    /\ Walking /\ Len(output.values) = Array.as
    /\ output' = [output EXCEPT !.status = "OK"]
    /\ UNCHANGED input

(* redfs_cr2w_get and _walk: the value a path leads to, or the properties  *)
(* of that value.                                                          *)
Get ==
    /\ Calling("get")
    /\ output' = IF ~InFile(input.chunk) THEN [output EXCEPT !.status = "CORRUPT"]
                 ELSE LET found == GetIn(Root(input.chunk), input.path) IN
                      IF found = {} THEN [output EXCEPT !.status = NotFound(Root(input.chunk), input.path)]
                      ELSE [output EXCEPT !.status = "OK", !.values = <<CHOOSE v \in found : TRUE>>]
    /\ UNCHANGED input

Walk ==
    /\ Calling("walk")
    /\ output' = IF ~InFile(input.chunk) THEN [output EXCEPT !.status = "CORRUPT"]
                 ELSE LET found == GetIn(Root(input.chunk), input.path) IN
                      IF found = {} THEN [output EXCEPT !.status = NotFound(Root(input.chunk), input.path)]
                      ELSE LET v == CHOOSE x \in found : TRUE
                               props == Props(v.at, v.at + v.size)
                           IN  IF v.kind # "STRUCT" THEN [output EXCEPT !.status = "INVALID_ARG"]
                               ELSE [output EXCEPT !.status = "OK",
                                        !.values = [k \in DOMAIN props |-> DecodeProp(props[k])]]
    /\ UNCHANGED input

(* cr2w_parse: the tables must lie inside the file, and the last byte of   *)
(* the string table be a NUL, so that a string that starts inside it ends  *)
(* inside it.                                                              *)
HeaderSize == 160
Stride == [names |-> 8, imports |-> 8, chunks |-> 24, buffers |-> 24]

TableInside(t, stride, size) == t.offset + t.count * stride <= size

Parsed(f) ==
    IF f.size < HeaderSize \/ ~f.magic THEN "CORRUPT"
    ELSE IF f.version \notin 163..195 THEN "UNSUPPORTED"
    ELSE IF ~TableInside(f.strings, 1, f.size) THEN "CORRUPT"
    ELSE IF f.strings.count = 0 \/ f.strings.offset + f.strings.count - 1 \notin f.nuls THEN "CORRUPT"
    ELSE IF \E t \in DOMAIN Stride : ~TableInside(f[t], Stride[t], f.size) THEN "CORRUPT"
    ELSE "OK"

Open ==
    /\ Calling("open")
    /\ output' = [output EXCEPT !.status = Parsed(input.file)]
    /\ UNCHANGED input

Next ==
    \/ WalkArray \/ (\E stop \in BOOLEAN : Deliver(stop)) \/ Malformed \/ Delivered
    \/ Get \/ Walk \/ Open

Spec == Init /\ [][Next]_vars

-----------------------------------------------------------------------------
(* Properties.                                                             *)

(* What a document says is what the walk of cr2w_walk_array, cr2w_walk and *)
(* cr2w_get delivers: of an array or a struct written out element by       *)
(* element, each element once, in order, at its place and with its kind.   *)
WalkExact ==
    input.op # "open" /\ input.intact /\ output.status # "called" =>
        /\ output.status \in {"walking", "stopped", "OK"}
        /\ \A k \in DOMAIN output.values :
              /\ k \in DOMAIN input.wrote
              /\ output.values[k].at = input.wrote[k].at
              /\ output.values[k].size = input.wrote[k].size
              /\ output.values[k].kind = input.wrote[k].kind
        /\ output.status = "OK" => Len(output.values) = Len(input.wrote)

(* Whatever the bytes are, every value delivered lies inside the value it  *)
(* was found in, the elements of an array follow one another and none is   *)
(* empty, a text lies inside its value, a buffer index is not one of the   *)
(* part numbers that mean the document, and every scan ends.               *)
WalkInside ==
    LET end == IF input.op = "walk_array" THEN Limit ELSE input.chunk.at + input.chunk.size
    IN  input.op # "open" =>
        /\ Walking => ElementEnd(output.at) # Running
        /\ \A k \in DOMAIN output.values :
              LET v == output.values[k] IN
              /\ v.at + v.size <= end
              /\ v.kind = "STRING" => v.as.from >= v.at /\ v.as.from + v.as.bytes <= v.at + v.size
              /\ v.kind = "BUFFER" => v.as < MainPart
              /\ input.op = "walk_array" =>
                    /\ v.size > 0
                    /\ v.at = IF k = 1 THEN 5 ELSE output.values[k - 1].at + output.values[k - 1].size
        /\ input.op # "walk_array" /\ output.status = "OK" => end - 1 <= Len(input.bytes)

(* A document that opens has its tables inside the file, and every string  *)
(* that starts inside the string table reaches a NUL before its end.       *)
OpenedSafe ==
    input.op = "open" /\ output.status = "OK" =>
        LET f == input.file IN
        /\ \A t \in DOMAIN Stride : \A row \in 1..f[t].count : f[t].offset + row * Stride[t] <= f.size
        /\ f.strings.offset + f.strings.count <= f.size
        /\ \A s \in 0..(f.strings.count - 1) :
              \E n \in f.nuls : f.strings.offset + s <= n /\ n < f.strings.offset + f.strings.count
=============================================================================
