------------------------------ MODULE PathText ------------------------------
(***************************************************************************)
(* The spelling of paths: redfs_hash (archive.cpp, api.cpp), the lines of  *)
(* a path list and the pattern of a search (paths.cpp).                    *)
(*                                                                         *)
(* A path is a sequence of characters.  FNV-1a is taken to tell paths      *)
(* apart: the hash of a path is the path, and a depot is the set of the    *)
(* sanitized paths of its files.                                           *)
(***************************************************************************)
EXTENDS Integers, Sequences, FiniteSets, SequencesExt, Ordering

CONSTANTS
    MaxDecoded,    \* the largest path list that is decompressed
    MaxExpansion,  \* by what factor a list may be compressed
    Texts          \* the calls: [op, text], [op, text, depot] or [op, file, lines, depot]

VARIABLES input, output

vars == <<input, output>>

-----------------------------------------------------------------------------
(* sanitize_path.                                                          *)

Separators == {"/", "\\"}
Trimmed == Separators \cup {"'", "\"", " ", "\n", "\r"}
Lower ==
    [A |-> "a", B |-> "b", C |-> "c", D |-> "d", E |-> "e", F |-> "f", G |-> "g", H |-> "h", I |-> "i",
     J |-> "j", K |-> "k", L |-> "l", M |-> "m", N |-> "n", O |-> "o", P |-> "p", Q |-> "q", R |-> "r",
     S |-> "s", T |-> "t", U |-> "u", V |-> "v", W |-> "w", X |-> "x", Y |-> "y", Z |-> "z"]
Fold(c) == IF c \in DOMAIN Lower THEN Lower[c] ELSE c

Repeated(out) == out = <<>> \/ Last(out) = "\\"
Put(out, c) ==
    IF c \in Separators THEN IF Repeated(out) THEN out ELSE Append(out, "\\")
    ELSE Append(out, Fold(c))

Sanitize(path) ==
    LET kept == {k \in DOMAIN path : path[k] \notin Trimmed}
        first == CHOOSE k \in kept : \A j \in kept : k <= j
        end == CHOOSE k \in kept : \A j \in kept : k >= j
        out[k \in 0..end] == IF k < first THEN <<>> ELSE Put(out[k - 1], path[k])
    IN  IF kept = {} THEN <<>> ELSE out[end]

(* What is left of a text without the characters S at its end.             *)
WithoutTail(text, S) ==
    LET kept == {k \in DOMAIN text : text[k] \notin S}
    IN  IF kept = {} THEN <<>> ELSE SubSeq(text, 1, CHOOSE k \in kept : \A j \in kept : k >= j)

-----------------------------------------------------------------------------
(* paths_find: the pattern that is matched against every path.  A pattern  *)
(* that ends in a separator stands for all beneath it.                     *)

Noise == {" ", "\t", "\n", "\r", "\"", "'"}
EndsInSeparator_Raw(text) == text # <<>> /\ Last(text) \in Separators
EndsInSeparator(text) == WithoutTail(text, Noise) # <<>> /\ Last(WithoutTail(text, Noise)) \in Separators

Pattern(text) ==
    LET pat == Sanitize(WithoutTail(text, Noise))
    IN  IF ~EndsInSeparator(text) THEN pat
        ELSE IF pat = <<>> THEN <<"*">> ELSE pat \o <<"\\", "*">>

-----------------------------------------------------------------------------
(* read_list and paths_load.                                               *)

(* A list that is not read whole is refused.  The size a compressed one    *)
(* declares is bounded before it is allocated.                             *)
ReadList(f) ==
    IF ~f.exists THEN "IO"
    ELSE IF f.size <= 8 THEN "CORRUPT"
    ELSE IF f.got # f.size THEN "IO"
    ELSE IF ~f.kark THEN "OK"
    ELSE IF f.decoded = 0 THEN "CORRUPT"
    ELSE IF f.decoded > MaxDecoded \/ f.decoded > (f.size - 8) * MaxExpansion THEN "UNSUPPORTED"
    ELSE IF ~f.oodle \/ f.produced # f.decoded THEN "OODLE"
    ELSE "OK"

(* What a line adds to the dictionary: the form of it that is in the depot. *)
Line(line, depot) ==
    LET text == WithoutTail(line, {"\r", " "}) IN
    IF text = <<>> THEN {} ELSE IF text \in depot THEN {text} ELSE {Sanitize(text)} \cap depot

Init == input \in Texts /\ output = [status |-> "called"]

Calling(op) == input.op = op /\ output.status = "called"

(* redfs_hash_n: 0 (here the empty path) for a path of nothing but trim.   *)
HashN ==
    /\ Calling("hash")
    /\ output' = [status |-> "OK", path |-> Sanitize(input.text)]
    /\ UNCHANGED input

PathsFind ==
    /\ Calling("find")
    /\ output' = [status |-> IF Pattern(input.text) = <<>> THEN "INVALID_ARG" ELSE "OK",
                  pattern |-> Pattern(input.text)]
    /\ UNCHANGED input

PathsLoad ==
    /\ Calling("load")
    /\ output' = [status |-> ReadList(input.file),
                  kept |-> IF ReadList(input.file) # "OK" THEN <<>>
                           ELSE [k \in DOMAIN input.lines |-> Line(input.lines[k], input.depot)]]
    /\ UNCHANGED input

Next == HashN \/ PathsFind \/ PathsLoad

Spec == Init /\ [][Next]_vars

-----------------------------------------------------------------------------
(* Properties.                                                             *)

(* What a path names: the folders and the file, in lower case, without the *)
(* quotes and spaces around the path.                                      *)
Inner(path) ==
    {k \in DOMAIN path : \E i \in 1..k, j \in k..Len(path) : path[i] \notin Trimmed /\ path[j] \notin Trimmed}
Names(path, places) ==
    LET named == {k \in places : path[k] \notin Separators}
        folded == [k \in DOMAIN path |-> Fold(path[k])]
        from == [k \in DOMAIN path |-> Kept(folded, {j \in named : k <= j /\ (k..j) \subseteq named})]
    IN  Kept(from, {k \in named : k - 1 \notin named})
Components(path) == Names(path, Inner(path))

(* The text of some names.                                                 *)
Join(names) ==
    LET upTo[n \in 0..Len(names)] ==
            IF n = 0 THEN <<>> ELSE IF n = 1 THEN names[1] ELSE upTo[n - 1] \o <<"\\">> \o names[n]
    IN  upTo[Len(names)]

(* The hash of a path is that of the path it names, and a sanitized path   *)
(* that is given again keeps its hash.                                     *)
HashAgrees ==
    input.op = "hash" /\ output.status = "OK" =>
        LET names == Components(input.text) IN
        /\ output.path = Join(names)
        /\ Sanitize(output.path) = output.path
        /\ Components(output.path) = names

(* A pattern without wildcards that ends in a separator, whatever quotes   *)
(* and spaces follow it, finds all that lies beneath the folder it names   *)
(* and nothing else; any other finds the path it names.                    *)
Finds(pattern, entry) ==
    IF Last(pattern) = "*" THEN IsPrefix(Front(pattern), entry) ELSE pattern = entry
PatternAgrees ==
    input.op = "find" /\ output.status = "OK" =>
        LET named == Components(WithoutTail(input.text, Noise)) IN
        \A e \in input.depot :
            Finds(output.pattern, e) <=>
                IF \E k \in DOMAIN input.text : /\ input.text[k] \in Separators
                                                /\ \A j \in (k + 1)..Len(input.text) : input.text[j] \in Noise
                THEN IsStrictPrefix(named, Components(e)) ELSE named = Components(e)

(* A list keeps a name for exactly those of its lines that name a file of  *)
(* the depot, under the spelling redfs_hash gives the same hash.           *)
ListAgrees ==
    input.op = "load" /\ output.status = "OK" =>
        \A k \in DOMAIN input.lines :
            output.kept[k] = {p \in input.depot : Components(p) = Components(input.lines[k])}

(* Every spelling of a path leads to the same file, by hash, by search and *)
(* from a list.                                                            *)
SpellingsAgree == HashAgrees /\ PatternAgrees /\ ListAgrees
=============================================================================
