---------------------------- MODULE Dictionary ------------------------------
(***************************************************************************)
(* The path dictionary of RedFS in memory (paths.cpp): the Arena that owns *)
(* the strings, the sorted and pending runs over it, look-up by hash, and  *)
(* the search whose callbacks run after the lock is released.              *)
(*                                                                         *)
(* A string is written byte by byte into an arena block; the model keeps,  *)
(* for every byte of every block, the path whose text or NUL it holds, so  *)
(* that an overlap or a moved block shows.                                 *)
(***************************************************************************)
EXTENDS Naturals, FiniteSets, Sequences, SequencesExt, Ordering

CONSTANTS
    Paths,       \* normalised paths
    Hash,        \* fnv1a64 of each, which may collide
    Length,      \* characters of each
    Held,        \* the hashes the searched depot holds
    MaxLength,   \* kMaxPathLength
    BlockSize,   \* Arena::kBlockSize
    MaxPending,  \* entries that may be pending before a merge
    None         \* null, and a byte nothing was written to

ASSUME DictionaryAssumption ==
    /\ Hash \in [Paths -> Nat] /\ Length \in [Paths -> Nat \ {0}]
    /\ Held \subseteq Nat
    /\ MaxLength \in Nat /\ BlockSize \in Nat \ {0} /\ MaxPending \in Nat
    /\ None \notin Paths

VARIABLES
    blocks,   \* the bytes of every arena block
    cur,      \* the block being filled (0: none), and how much of it is
    used,
    sorted,   \* entries by hash
    pending,  \* entries added since the last merge
    hits,     \* what a redfs_find in progress still has to deliver
    handed,   \* history: entries whose pointer a caller was given
    first,    \* history: the first usable path added for each hash
    matched   \* history: the hashes that search must deliver

arenaVars == <<blocks, cur, used>>
vars == <<arenaVars, sorted, pending, hits, handed, first, matched>>

Hashes == {Hash[p] : p \in Paths}
Entries == [hash : Hashes, path : Paths, block : Nat, at : Nat]

(* Every variable keeps its kind of value, and entries point into blocks.  *)
TypeOK ==
    /\ \A b \in DOMAIN blocks : \A k \in DOMAIN blocks[b] : blocks[b][k] \in Paths \cup {None}
    /\ cur \in 0..Len(blocks) /\ used \in 0..BlockSize
    /\ sorted \in Seq(Entries) /\ pending \in Seq(Entries) /\ hits \in Seq(Entries)
    /\ \A e \in Range(sorted) \cup Range(pending) :
          /\ e.block \in DOMAIN blocks
          /\ e.at + Length[e.path] < Len(blocks[e.block])
    /\ handed \subseteq Entries
    /\ first \in [Hashes -> Paths \cup {None}]
    /\ matched \subseteq Hashes

Init ==
    /\ blocks = <<>> /\ cur = 0 /\ used = 0
    /\ sorted = <<>> /\ pending = <<>>
    /\ hits = <<>> /\ handed = {} /\ matched = {}
    /\ first = [h \in Hashes |-> None]

----------------------------------------------------------------------------
(* Arena::intern.  `need' counts the terminating NUL.                      *)
Need_NoNul(p) == Length[p]
Need(p) == Length[p] + 1
Blank(n) == [k \in 1..n |-> None]

(* memcpy and the NUL, at offset `at' of block b.                          *)
Wrote(bs, b, at, p) ==
    [bs EXCEPT ![b] = [k \in DOMAIN @ |-> IF k > at /\ k <= at + Length[p] + 1 THEN p ELSE @[k]]]

NoRoom(p) == cur = 0 \/ used + Need(p) > BlockSize

(* Where intern puts p, and the arena it leaves.  An oversized path gets a *)
(* block of its own, which is not the one being filled.                    *)
Intern(p, block, at) ==
    \/ /\ Need(p) > BlockSize
       /\ block = Len(blocks) + 1 /\ at = 0
       /\ blocks' = Wrote(Append(blocks, Blank(Need(p))), block, at, p)
       /\ UNCHANGED <<cur, used>>
    \/ /\ Need(p) <= BlockSize /\ NoRoom(p)
       /\ block = Len(blocks) + 1 /\ at = 0
       /\ blocks' = Wrote(Append(blocks, Blank(BlockSize)), block, at, p)
       /\ cur' = block /\ used' = Need(p)
    \/ /\ Need(p) <= BlockSize /\ ~NoRoom(p)
       /\ block = cur /\ at = used
       /\ blocks' = Wrote(blocks, block, at, p)
       /\ used' = used + Need(p)
       /\ UNCHANGED cur

----------------------------------------------------------------------------
(* std::sort by hash of the pending run, in which no hash is twice, and    *)
(* std::inplace_merge behind the sorted one; of two entries with one hash  *)
(* std::unique keeps the older.                                            *)
MergeRuns(s, p) == StableSort(s \o p)
Unique(s) == Kept(s, {n \in DOMAIN s : n = 1 \/ s[n - 1].hash # s[n].hash})

Merged_NotSorted(s, p) == s \o p
Merged(s, p) == IF p = <<>> THEN s ELSE Unique(MergeRuns(s, p))

(* std::lower_bound over a sorted run: the first entry not below h.        *)
Lookup(s, h) ==
    LET above == {n \in DOMAIN s : s[n].hash >= h}
    IN  IF above = {} THEN {}
        ELSE LET e == s[CHOOSE n \in above : \A k \in above : n <= k]
             IN  IF e.hash = h THEN {e} ELSE {}

Known(h) == Lookup(sorted, h) # {} \/ \E e \in Range(pending) : e.hash = h

----------------------------------------------------------------------------
(* add_locked, as paths_add, paths_learn_imports and paths_load reach it.  *)
Ignored(p) == Length[p] > MaxLength

AddKnown(p) ==
    /\ Ignored(p) \/ Known(Hash[p])
    /\ UNCHANGED vars

AddNew(p) ==
    /\ ~Ignored(p) /\ ~Known(Hash[p])
    /\ \E block \in 1..(Len(blocks) + 1), at \in 0..BlockSize :
          /\ Intern(p, block, at)
          /\ LET e == [hash |-> Hash[p], path |-> p, block |-> block, at |-> at] IN
             IF Len(pending) + 1 > MaxPending
             THEN sorted' = Merged(sorted, Append(pending, e)) /\ pending' = <<>>
             ELSE pending' = Append(pending, e) /\ UNCHANGED sorted
    /\ first' = IF first[Hash[p]] = None THEN [first EXCEPT ![Hash[p]] = p] ELSE first
    /\ UNCHANGED <<hits, handed, matched>>

(* merge_pending, the first thing every reader of the dictionary does.     *)
MergePending == sorted' = Merged(sorted, pending) /\ pending' = <<>>

(* redfs_path_count, and the end of paths_load.                            *)
Count ==
    /\ MergePending
    /\ UNCHANGED <<arenaVars, hits, handed, first, matched>>

(* redfs_path_from_hash: the pointer it returns is the caller's for good.  *)
PathFromHash(h) ==
    /\ MergePending
    /\ handed' = handed \cup Lookup(sorted', h)
    /\ UNCHANGED <<arenaVars, hits, first, matched>>

(* redfs_find: entries are copied out under the lock ...                   *)
Matching(s, S) == Kept(s, {n \in DOMAIN s : s[n].path \in S /\ s[n].hash \in Held})
Scan_SkipPending(S) == Matching(sorted, S)
Scan(S) == Matching(Merged(sorted, pending), S)

Find(S) ==
    /\ hits = <<>>
    /\ MergePending
    /\ hits' = Scan(S)
    /\ matched' = {h \in Hashes \cap Held : first[h] \in S}
    /\ UNCHANGED <<arenaVars, handed, first>>

(* ... and delivered without it; the callback may stop the delivery.       *)
Deliver(more) ==
    /\ hits # <<>>
    /\ handed' = handed \cup {Head(hits)}
    /\ hits' = IF more THEN Tail(hits) ELSE <<>>
    /\ matched' = IF more THEN matched \ {Head(hits).hash} ELSE {}
    /\ UNCHANGED <<arenaVars, sorted, pending, first>>

Next ==
    \/ \E p \in Paths : AddKnown(p) \/ AddNew(p)
    \/ Count
    \/ \E h \in Hashes : PathFromHash(h)
    \/ \E S \in SUBSET Paths : Find(S)
    \/ \E more \in BOOLEAN : Deliver(more)

Spec == Init /\ [][Next]_vars

----------------------------------------------------------------------------
(* redfs_path_from_hash: "later additions from any source cannot           *)
(* invalidate a pointer you already hold".  Every byte a caller may read   *)
(* through a pointer it was given, the NUL included, is still that path's, *)
(* however many blocks the arena has grown since.                          *)
PointersStable ==
    \A e \in handed :
        /\ e.hash = Hash[e.path]
        /\ e.at + Length[e.path] < Len(blocks[e.block])
        /\ \A k \in 1..(Length[e.path] + 1) : blocks[e.block][e.at + k] = e.path

(* The two runs together are the dictionary: a look-up, after whatever     *)
(* merges happened, finds for every hash the first usable path added under *)
(* it and nothing else, and `contains' agrees before the merge.            *)
LookupExact ==
    \A h \in Hashes :
        /\ {e.path : e \in Lookup(Merged(sorted, pending), h)} = {first[h]} \ {None}
        /\ Known(h) <=> first[h] # None

(* What path_cache_flush counts on: no hash is twice in the dictionary, so *)
(* its size is the number of paths and the file has no duplicate record.   *)
NoDuplicates ==
    /\ \A n \in 1..(Len(sorted) - 1) : sorted[n].hash < sorted[n + 1].hash
    /\ Cardinality({e.hash : e \in Range(sorted) \cup Range(pending)})
          = Len(sorted) + Len(pending)

(* The two runs hold each path once, inside its block, and a look-up finds *)
(* the first that was added.                                               *)
DictionaryInv == TypeOK /\ NoDuplicates /\ LookupExact

(* redfs_find delivers what matched when it was called: a path added just  *)
(* before is found, one learned by the callback's own reads does not join. *)
DeliversSnapshot == {e.hash : e \in Range(hits)} = matched

=============================================================================
