---------------------------- MODULE SearchProofs ----------------------------
(***************************************************************************)
(* Proofs about Search.  The path dictionary under any sequence of adds,   *)
(* merges, look-ups and searches, for any paths, hashes (colliding ones    *)
(* too), lengths, block size and pending limit; the matcher, for patterns  *)
(* and texts of any length; the locks, for any threads, calls and          *)
(* re-entries from the host's callbacks.                                   *)
(***************************************************************************)
EXTENDS Search, OrderingProofs

-----------------------------------------------------------------------------
(* The dictionary: its two runs.                                           *)

(* A run in which every hash is larger than the one before it.             *)
Rising(s) == \A m, n \in DOMAIN s : m < n => s[m].hash < s[n].hash
(* Nothing twice, in one run or in both.                                   *)
Distinct(s, r) ==
    /\ \A m, n \in DOMAIN r : m # n => r[m].hash # r[n].hash
    /\ \A m \in DOMAIN s, n \in DOMAIN r : s[m].hash # r[n].hash

(* Hashes are numbers.                                                     *)
LEMMA HashNumbers ==
    /\ Hashes \subseteq Nat
    /\ \A s \in Seq(Entries) : /\ Len(s) \in Nat /\ DOMAIN s = 1..Len(s)
                               /\ \A n \in DOMAIN s : s[n] \in Entries /\ s[n].hash \in Nat /\ s[n] \in Range(s)
    /\ \A s \in Seq(Entries) : \A e \in Range(s) : \E n \in DOMAIN s : s[n] = e
<1>1. Hashes \subseteq Nat
  BY DictionaryAssumption DEF Hashes
<1>2. \A e \in Entries : e.hash \in Nat
  BY <1>1 DEF Entries
<1>. QED
  BY <1>1, <1>2 DEF Range

(* Merging two runs without a common hash keeps every entry, by hash.      *)
LEMMA Merging ==
    ASSUME NEW s \in Seq(Entries), NEW r \in Seq(Entries), Rising(s), Distinct(s, r)
    PROVE  LET q == Merged(s, r)
           IN  q \in Seq(Entries) /\ Rising(q) /\ Range(q) = Range(s) \cup Range(r)
<1> DEFINE w == s \o r
           z == StableSort(w)
           K == {n \in DOMAIN z : n = 1 \/ z[n - 1].hash # z[n].hash}
           q == Kept(z, K)
<1>1. CASE r = <<>>
  <2>1. Range(r) = {}
    BY <1>1 DEF Range
  <2>. QED
    BY <1>1, <2>1 DEF Merged
<1>2. CASE r # <<>>
  <2>1. Merged(s, r) = q
    BY <1>2 DEF Merged, Unique, MergeRuns
  <2>2. /\ w \in Seq(Entries) /\ Len(w) = Len(s) + Len(r) /\ DOMAIN w = 1..(Len(s) + Len(r))
        /\ \A k \in 1..Len(s) : w[k] = s[k]
        /\ \A k \in (Len(s) + 1)..(Len(s) + Len(r)) : w[k] = r[k - Len(s)]
    OBVIOUS
  <2>3. Len(s) \in Nat /\ DOMAIN s = 1..Len(s) /\ Len(r) \in Nat /\ DOMAIN r = 1..Len(r)
    OBVIOUS
  <2> HIDE DEF w
  <2>4. \A k \in DOMAIN w : \/ k \in DOMAIN s /\ w[k] = s[k]
                            \/ k - Len(s) \in DOMAIN r /\ w[k] = r[k - Len(s)] /\ k > Len(s)
    BY <2>2, <2>3
  <2>5. /\ \A k \in DOMAIN s : k \in DOMAIN w /\ w[k] = s[k]
        /\ \A k \in DOMAIN r : k + Len(s) \in DOMAIN w /\ w[k + Len(s)] = r[k]
    <3>1. \A k \in DOMAIN r : k + Len(s) \in (Len(s) + 1)..(Len(s) + Len(r)) /\ (k + Len(s)) - Len(s) = k
      BY <2>3
    <3>2. \A k \in DOMAIN s : k \in DOMAIN w /\ w[k] = s[k]
      BY <2>2, <2>3
    <3>3. ASSUME NEW k \in DOMAIN r
          PROVE  k + Len(s) \in DOMAIN w /\ w[k + Len(s)] = r[k]
      BY <2>2, <2>3, <3>1
    <3>. QED
      BY <3>2, <3>3
  <2>6. ASSUME NEW k \in DOMAIN w, NEW l \in DOMAIN w, w[k].hash = w[l].hash
        PROVE  k = l
    <3>1. \A m, n \in DOMAIN s : s[m].hash = s[n].hash => m = n
      <4>1. \A n \in DOMAIN s : s[n].hash \in Nat
        BY HashNumbers
      <4>. QED
        BY <2>3, <4>1 DEF Rising
    <3>2. CASE k \in DOMAIN s /\ w[k] = s[k] /\ l \in DOMAIN s /\ w[l] = s[l]
      BY <2>6, <3>1, <3>2
    <3>3. CASE /\ k - Len(s) \in DOMAIN r /\ w[k] = r[k - Len(s)]
               /\ l - Len(s) \in DOMAIN r /\ w[l] = r[l - Len(s)]
      <4>1. k - Len(s) = l - Len(s)
        BY <2>6, <3>3 DEF Distinct
      <4>2. k \in Int /\ l \in Int
        BY <2>2, <2>3
      <4>. QED
        BY <2>3, <4>1, <4>2
    <3>4. CASE k \in DOMAIN s /\ w[k] = s[k] /\ l - Len(s) \in DOMAIN r /\ w[l] = r[l - Len(s)]
      BY <2>6, <3>4 DEF Distinct
    <3>5. CASE l \in DOMAIN s /\ w[l] = s[l] /\ k - Len(s) \in DOMAIN r /\ w[k] = r[k - Len(s)]
      BY <2>6, <3>5 DEF Distinct
    <3>. QED
      BY <2>4, <3>2, <3>3, <3>4, <3>5
  <2>7. z \in Seq(Entries) /\ \E at : Sorts(z, w, at)
    <3>1. \A n \in DOMAIN w : w[n].hash \in Nat
      BY <2>2, HashNumbers
    <3>2. w \in Seq(Entries)
      BY <2>2
    <3>. QED
      BY <3>1, <3>2, Sorting
  <2> HIDE DEF z
  <2>8. PICK at : /\ \A n \in DOMAIN z : at[n] \in DOMAIN w /\ z[n] = w[at[n]]
                  /\ \A k \in DOMAIN w : \E n \in DOMAIN z : at[n] = k
                  /\ \A m, n \in DOMAIN z : m < n =>
                        z[m].hash < z[n].hash \/ (z[m].hash = z[n].hash /\ at[m] < at[n])
    BY <2>7, Zenon DEF Sorts
  <2>9. Rising(z)
    <3> SUFFICES ASSUME NEW m \in DOMAIN z, NEW n \in DOMAIN z, m < n
                 PROVE  z[m].hash < z[n].hash
      BY DEF Rising
    <3>1. z[m].hash = z[n].hash => at[m] = at[n]
      BY <2>6, <2>8
    <3>2. at[m] \in Int
      BY <2>2, <2>3, <2>8
    <3>. QED
      BY <2>8, <3>1, <3>2
  <2>10. K = DOMAIN z
    <3> SUFFICES ASSUME NEW n \in DOMAIN z, n # 1
                 PROVE  z[n - 1].hash # z[n].hash
      OBVIOUS
    <3>1. n - 1 \in DOMAIN z /\ n - 1 < n
      BY <2>7
    <3>2. z[n - 1].hash < z[n].hash /\ z[n - 1].hash \in Nat /\ z[n].hash \in Nat
      BY <2>7, <2>9, <3>1, HashNumbers DEF Rising
    <3>. QED
      BY <3>2
  <2> HIDE DEF K
  <2>11. q \in Seq(Entries) /\ \E to : Keeps(q, z, K, to)
    <3>1. z \in Seq(Entries) /\ K \in SUBSET DOMAIN z
      BY <2>7, <2>10
    <3>. QED
      BY <3>1, Keeping
  <2> HIDE DEF q
  <2>12. PICK to : /\ \A n \in DOMAIN q : to[n] \in K /\ q[n] = z[to[n]]
                   /\ \A k \in K : \E n \in DOMAIN q : to[n] = k
                   /\ \A m, n \in DOMAIN q : m < n <=> to[m] < to[n]
    BY <2>11, Zenon DEF Keeps
  <2>13. Rising(q)
    BY <2>9, <2>10, <2>12 DEF Rising
  <2>14. Range(q) = Range(w)
    <3>1. \A n \in DOMAIN q : at[to[n]] \in DOMAIN w /\ q[n] = w[at[to[n]]]
      BY <2>8, <2>10, <2>12
    <3>2. ASSUME NEW k \in DOMAIN w
          PROVE  \E n \in DOMAIN q : q[n] = w[k]
      <4>1. PICK m \in DOMAIN z : at[m] = k
        BY <2>8
      <4>2. PICK n \in DOMAIN q : to[n] = m
        BY <2>10, <2>12
      <4>. QED
        BY <2>8, <2>12, <4>1, <4>2
    <3>. QED
      BY <3>1, <3>2 DEF Range
  <2>15. Range(w) = Range(s) \cup Range(r)
    BY <2>4, <2>5 DEF Range
  <2>. QED
    BY <2>1, <2>11, <2>13, <2>14, <2>15
<1>. QED
  BY <1>1, <1>2

(* Looking a hash up in a rising run finds the entry that has it.          *)
LEMMA LookingUp ==
    ASSUME NEW s \in Seq(Entries), Rising(s), NEW h \in Hashes
    PROVE  Lookup(s, h) = {e \in Range(s) : e.hash = h}
<1> DEFINE above == {n \in DOMAIN s : s[n].hash >= h}
           n0 == CHOOSE n \in above : \A k \in above : n <= k
<1>1. /\ Lookup(s, h) = IF above = {} THEN {} ELSE IF s[n0].hash = h THEN {s[n0]} ELSE {}
      /\ h \in Nat /\ Len(s) \in Nat /\ DOMAIN s = 1..Len(s) /\ \A n \in DOMAIN s : s[n].hash \in Nat
  BY HashNumbers DEF Lookup
<1>2. \A n \in DOMAIN s : s[n] \in Range(s)
  BY HashNumbers
<1>3. \A e \in Range(s) : \E n \in DOMAIN s : s[n] = e
  BY HashNumbers
<1>4. above = {} => \A n \in DOMAIN s : s[n].hash # h
  BY <1>1
<1>5. CASE above # {}
  <2>1. \E m \in above : \A k \in above : m <= k
    <3>1. above \subseteq Nat
      BY <1>1
    <3> HIDE DEF above
    <3>2. PICK m \in above : \A k \in above : ~(<<k, m>> \in OpToRel(<, Nat))
      BY <1>5, <3>1, NatLessThanWellFounded, WFMin
    <3>3. \A k \in above : ~(k < m)
      BY <3>1, <3>2 DEF OpToRel
    <3>. QED
      BY <3>1, <3>3
  <2>2. n0 \in above /\ \A k \in above : n0 <= k
    <3> HIDE DEF above
    <3>. QED
      BY <2>1, Zenon
  <2> HIDE DEF n0
  <2>3. ASSUME NEW n \in DOMAIN s, s[n].hash = h
        PROVE  n = n0
    <3>1. n0 <= n /\ n0 \in DOMAIN s /\ s[n0].hash >= h
      BY <1>1, <2>2, <2>3
    <3>2. ~(n0 < n)
      BY <1>1, <2>3, <3>1 DEF Rising
    <3>. QED
      BY <1>1, <3>1, <3>2
  <2>. QED
    BY <1>1, <1>2, <1>3, <1>5, <2>2, <2>3
<1>. QED
  BY <1>1, <1>3, <1>4, <1>5

-----------------------------------------------------------------------------
(* The arena: what is written stays.                                       *)

(* All of an entry's path, the NUL included, is where the entry says, and  *)
(* in the block being filled it lies before the next free byte.            *)
Intact(e) ==
    /\ e.block \in DOMAIN blocks /\ e.at + Length[e.path] < Len(blocks[e.block])
    /\ \A k \in 1..(Length[e.path] + 1) : blocks[e.block][e.at + k] = e.path
    /\ e.block = cur => e.at + Length[e.path] + 1 <= used

ArenaInv ==
    /\ blocks \in Seq(Seq(Paths \cup {None}))
    /\ cur \in 0..Len(blocks) /\ used \in 0..BlockSize
    /\ cur # 0 => Len(blocks[cur]) = BlockSize

(* The blocks w are bs but for the path x written at `at' in block b.      *)
Patched(w, bs, b, at, x) ==
    /\ w \in Seq(Seq(Paths \cup {None})) /\ Len(w) = Len(bs) /\ DOMAIN w = DOMAIN bs
    /\ \A c \in DOMAIN bs : Len(w[c]) = Len(bs[c]) /\ (c # b => w[c] = bs[c])
    /\ \A k \in 1..Len(bs[b]) : w[b][k] = IF k > at /\ k <= at + Length[x] + 1 THEN x ELSE bs[b][k]

(* Writing a path into a block changes that stretch of it and no other.    *)
LEMMA Writing ==
    ASSUME NEW bs \in Seq(Seq(Paths \cup {None})), NEW b \in DOMAIN bs, NEW at \in Nat, NEW x \in Paths
    PROVE  Patched(Wrote(bs, b, at, x), bs, b, at, x)
<1> DEFINE B == Paths \cup {None}
           g == [k \in DOMAIN bs[b] |-> IF k > at /\ k <= at + Length[x] + 1 THEN x ELSE bs[b][k]]
           w == Wrote(bs, b, at, x)
<1>1. w = [bs EXCEPT ![b] = g]
  BY DEF Wrote
<1>2. bs[b] \in Seq(B)
  OBVIOUS
<1>3. Len(bs[b]) \in Nat /\ DOMAIN bs[b] = 1..Len(bs[b]) /\ \A k \in 1..Len(bs[b]) : bs[b][k] \in B
  BY <1>2
<1>4. g \in [1..Len(bs[b]) -> B]
  BY <1>3
<1>5. g \in Seq(B) /\ Len(g) = Len(bs[b])
  BY <1>3, <1>4
<1>6. \A k \in 1..Len(bs[b]) : g[k] = IF k > at /\ k <= at + Length[x] + 1 THEN x ELSE bs[b][k]
  BY <1>3
<1> HIDE DEF g, B, w
<1>7. bs \in Seq(Seq(B))
  BY DEF B
<1>8. w \in Seq(Seq(B)) /\ Len(w) = Len(bs) /\ DOMAIN w = DOMAIN bs
  BY <1>1, <1>5, <1>7
<1>9. \A c \in DOMAIN bs : Len(w[c]) = Len(bs[c]) /\ (c # b => w[c] = bs[c])
  BY <1>1, <1>5, <1>7
<1>10. w[b] = g
  BY <1>1, <1>7
<1>. QED
  BY <1>6, <1>8, <1>9, <1>10 DEF B, w, Patched

(* intern puts a path where no other one is.                               *)
LEMMA Interning ==
    ASSUME ArenaInv, NEW x \in Paths, NEW block \in Nat, NEW at \in Nat, Intern(x, block, at)
    PROVE  /\ ArenaInv'
           /\ \A e \in Entries : Intact(e) => Intact(e)'
           /\ \A e \in Entries : e.block = block /\ e.at = at /\ e.path = x => Intact(e)'
<1> DEFINE B == Paths \cup {None}
           n == Length[x]
<1>0. n \in Nat \ {0} /\ \A y \in Paths : Length[y] \in Nat
  BY DictionaryAssumption
<1>1. Len(blocks) \in Nat /\ DOMAIN blocks = 1..Len(blocks) /\ BlockSize \in Nat \ {0} /\ Need(x) = n + 1
  BY DictionaryAssumption DEF ArenaInv, Need
<1>2. ASSUME NEW size \in Nat, size >= n + 1, block = Len(blocks) + 1, at = 0,
             blocks' = Wrote(Append(blocks, Blank(size)), block, at, x)
      PROVE  /\ blocks' \in Seq(Seq(B)) /\ Len(blocks') = Len(blocks) + 1
             /\ Len(blocks'[block]) = size
             /\ \A c \in DOMAIN blocks : c \in DOMAIN blocks' /\ blocks'[c] = blocks[c] /\ c # block
             /\ block \in DOMAIN blocks'
             /\ \A k \in 1..(n + 1) : blocks'[block][at + k] = x
  <2> DEFINE bs == Append(blocks, Blank(size))
  <2>1. Blank(size) \in Seq(B) /\ Len(Blank(size)) = size
    <3>1. Blank(size) \in [1..size -> B]
      BY DEF Blank
    <3>. QED
      BY <3>1
  <2>2. blocks \in Seq(Seq(B))
    BY DEF ArenaInv
  <2> HIDE DEF B
  <2>3. /\ bs \in Seq(Seq(B)) /\ Len(bs) = Len(blocks) + 1 /\ DOMAIN bs = 1..(Len(blocks) + 1)
        /\ bs[block] = Blank(size) /\ block \in DOMAIN bs
        /\ \A c \in DOMAIN blocks : bs[c] = blocks[c]
    BY <1>1, <1>2, <2>1, <2>2
  <2> HIDE DEF bs
  <2>4. Patched(blocks', bs, block, at, x)
    <3>1. blocks' = Wrote(bs, block, at, x)
      BY <1>2 DEF bs
    <3>2. at \in Nat /\ bs \in Seq(Seq(Paths \cup {None}))
      BY <1>2, <2>3 DEF B
    <3>3. Patched(Wrote(bs, block, at, x), bs, block, at, x)
      BY <2>3, <3>2, Writing
    <3>. QED
      BY <3>1, <3>3
  <2>5. \A k \in 1..(n + 1) : k \in 1..Len(bs[block]) /\ at + k = k /\ k > at /\ k <= at + n + 1
    BY <1>0, <1>2, <2>1, <2>3
  <2>6. \A k \in 1..(n + 1) : blocks'[block][at + k] = x
    BY <2>4, <2>5 DEF Patched
  <2>7. blocks' \in Seq(Seq(B)) /\ Len(blocks') = Len(blocks) + 1 /\ Len(blocks'[block]) = size /\ block \in DOMAIN blocks'
    BY <2>1, <2>3, <2>4 DEF Patched, B
  <2>8. \A c \in DOMAIN blocks : c \in DOMAIN blocks' /\ blocks'[c] = blocks[c] /\ c # block
    <3> TAKE c \in DOMAIN blocks
    <3>1. c \in DOMAIN bs /\ c # block
      BY <1>1, <1>2, <2>3
    <3>. QED
      BY <2>3, <2>4, <3>1 DEF Patched
  <2>. QED
    BY <2>6, <2>7, <2>8
<1>3. CASE /\ Need(x) > BlockSize /\ block = Len(blocks) + 1 /\ at = 0
           /\ blocks' = Wrote(Append(blocks, Blank(Need(x))), block, at, x)
           /\ UNCHANGED <<cur, used>>
  <2>1. /\ blocks' \in Seq(Seq(B)) /\ Len(blocks') = Len(blocks) + 1
        /\ Len(blocks'[block]) = n + 1
        /\ \A c \in DOMAIN blocks : c \in DOMAIN blocks' /\ blocks'[c] = blocks[c] /\ c # block
        /\ block \in DOMAIN blocks'
        /\ \A k \in 1..(n + 1) : blocks'[block][at + k] = x
    <3>1. Need(x) \in Nat /\ Need(x) >= n + 1 /\ Need(x) = n + 1
      BY <1>0, <1>1
    <3>2. block = Len(blocks) + 1 /\ at = 0 /\ blocks' = Wrote(Append(blocks, Blank(Need(x))), block, at, x)
      BY <1>3
    <3> HIDE DEF B, n
    <3>. QED
      BY <1>2, <3>1, <3>2
  <2>2. ArenaInv'
    <3>1. cur \in 0..Len(blocks) /\ used \in 0..BlockSize /\ cur' = cur /\ used' = used
      BY <1>3 DEF ArenaInv
    <3>2. cur \in 0..Len(blocks')
      BY <1>1, <2>1, <3>1
    <3>3. cur # 0 => cur \in DOMAIN blocks /\ blocks'[cur] = blocks[cur] /\ Len(blocks[cur]) = BlockSize
      <4>1. cur # 0 => cur \in DOMAIN blocks
        BY <1>1, <3>1
      <4>2. cur # 0 => Len(blocks[cur]) = BlockSize
        BY DEF ArenaInv
      <4>. QED
        BY <2>1, <4>1, <4>2
    <3>. QED
      BY <2>1, <3>1, <3>2, <3>3 DEF ArenaInv
  <2>3. \A e \in Entries : Intact(e) => Intact(e)'
    BY <1>3, <2>1 DEF Intact
  <2>4. block # cur'
    BY <1>1, <1>3 DEF ArenaInv
  <2>5. \A e \in Entries : e.block = block /\ e.at = at /\ e.path = x => Intact(e)'
    BY <1>0, <1>3, <2>1, <2>4 DEF Intact
  <2>. QED
    BY <2>2, <2>3, <2>5
<1>4. CASE /\ Need(x) <= BlockSize /\ block = Len(blocks) + 1 /\ at = 0
           /\ blocks' = Wrote(Append(blocks, Blank(BlockSize)), block, at, x)
           /\ cur' = block /\ used' = Need(x)
  <2>1. /\ blocks' \in Seq(Seq(B)) /\ Len(blocks') = Len(blocks) + 1
        /\ Len(blocks'[block]) = BlockSize
        /\ \A c \in DOMAIN blocks : c \in DOMAIN blocks' /\ blocks'[c] = blocks[c] /\ c # block
        /\ block \in DOMAIN blocks'
        /\ \A k \in 1..(n + 1) : blocks'[block][at + k] = x
    BY <1>0, <1>1, <1>2, <1>4
  <2>2. ArenaInv'
    BY <1>0, <1>1, <1>4, <2>1 DEF ArenaInv
  <2>3. \A e \in Entries : Intact(e) => Intact(e)'
    BY <1>4, <2>1 DEF Intact
  <2>4. \A e \in Entries : e.block = block /\ e.at = at /\ e.path = x => Intact(e)'
    BY <1>0, <1>1, <1>4, <2>1 DEF Intact
  <2>. QED
    BY <2>2, <2>3, <2>4
<1>5. CASE /\ ~NoRoom(x) /\ block = cur /\ at = used
           /\ blocks' = Wrote(blocks, block, at, x)
           /\ used' = used + Need(x) /\ UNCHANGED cur
  <2>1. cur # 0 /\ used + n + 1 <= BlockSize /\ used \in Nat /\ cur \in DOMAIN blocks /\ Len(blocks[cur]) = BlockSize
    BY <1>0, <1>1, <1>5 DEF NoRoom, ArenaInv
  <2>2. Patched(blocks', blocks, block, at, x)
    <3>1. blocks' = Wrote(blocks, block, at, x) /\ block \in DOMAIN blocks /\ at \in Nat
      BY <1>5, <2>1
    <3>2. Patched(Wrote(blocks, block, at, x), blocks, block, at, x)
      BY <3>1, Writing DEF ArenaInv
    <3>. QED
      BY <3>1, <3>2
  <2>3. ArenaInv'
    BY <1>0, <1>1, <1>5, <2>1, <2>2 DEF ArenaInv, Patched
  <2>4. ASSUME NEW e \in Entries, Intact(e)
        PROVE  Intact(e)'
    <3>1. e.at \in Nat /\ e.path \in Paths /\ Length[e.path] \in Nat
      BY <1>0 DEF Entries
    <3>2. CASE e.block # block
      BY <1>5, <2>2, <2>4, <3>2 DEF Intact, Patched
    <3>3. CASE e.block = block
      <4>1. e.at + Length[e.path] + 1 <= used /\ e.block = cur
        BY <1>5, <2>4, <3>3 DEF Intact
      <4>2. \A k \in 1..(Length[e.path] + 1) : e.at + k \in 1..Len(blocks[block]) /\ ~(e.at + k > at)
        <5>1. at = used /\ Len(blocks[block]) = BlockSize
          BY <1>5, <2>1
        <5>2. e.at + Length[e.path] + 1 <= at /\ at <= BlockSize /\ at \in Nat /\ BlockSize \in Nat
          BY <1>0, <1>1, <2>1, <4>1, <5>1
        <5> HIDE DEF n
        <5> TAKE k \in 1..(Length[e.path] + 1)
        <5>3. k \in Nat /\ k >= 1 /\ k <= Length[e.path] + 1
          BY <3>1
        <5>4. e.at + k \in Nat /\ e.at + k >= 1 /\ e.at + k <= at
          BY <3>1, <5>2, <5>3
        <5>. QED
          BY <5>1, <5>2, <5>4
      <4>3. \A k \in 1..(Length[e.path] + 1) : blocks'[e.block][e.at + k] = e.path
        <5>1. \A k \in 1..(Length[e.path] + 1) : blocks[e.block][e.at + k] = e.path
          BY <2>4 DEF Intact
        <5>2. \A j \in 1..Len(blocks[block]) : ~(j > at) => blocks'[block][j] = blocks[block][j]
          BY <2>2 DEF Patched
        <5> TAKE k \in 1..(Length[e.path] + 1)
        <5>3. blocks'[block][e.at + k] = blocks[block][e.at + k]
          BY <4>2, <5>2, Zenon
        <5>. QED
          BY <3>3, <5>1, <5>3, Zenon
      <4>4. e.at + Length[e.path] < Len(blocks'[e.block]) /\ e.block \in DOMAIN blocks'
        BY <1>5, <2>1, <2>2, <2>4, <3>3 DEF Intact, Patched
      <4>5. e.at + Length[e.path] + 1 <= used'
        BY <1>0, <1>1, <1>5, <2>1, <3>1, <4>1
      <4>. QED
        BY <4>3, <4>4, <4>5 DEF Intact
    <3>. QED
      BY <3>2, <3>3
  <2>5. ASSUME NEW e \in Entries, e.block = block, e.at = at, e.path = x
        PROVE  Intact(e)'
    <3>1. \A k \in 1..(n + 1) : at + k \in 1..Len(blocks[block]) /\ at + k > at /\ at + k <= at + n + 1
      BY <1>0, <1>1, <1>5, <2>1
    <3>2. \A k \in 1..(n + 1) : blocks'[block][at + k] = x
      BY <2>2, <3>1 DEF Patched
    <3>3. at + n < Len(blocks'[block]) /\ block \in DOMAIN blocks' /\ at + n + 1 <= used'
      BY <1>0, <1>1, <1>5, <2>1, <2>2 DEF Patched
    <3>. QED
      BY <2>5, <3>2, <3>3 DEF Intact
  <2>. QED
    BY <2>3, <2>4, <2>5
<1>. QED
  BY <1>3, <1>4, <1>5 DEF Intern

-----------------------------------------------------------------------------
(* The dictionary: what every call keeps true.                             *)

Filed == Range(sorted) \cup Range(pending)
InUse == Filed \cup Range(hits) \cup handed

(* No hash is filed twice, and what is filed is the first path of each.    *)
RunsInv ==
    /\ sorted \in Seq(Entries) /\ pending \in Seq(Entries)
    /\ first \in [Hashes -> Paths \cup {None}]
    /\ Rising(sorted) /\ Distinct(sorted, pending)
    /\ \A e \in Filed : first[e.hash] = e.path
    /\ \A h \in Hashes : first[h] # None => \E e \in Filed : e.hash = h

(* Every entry that anybody may still read is whole.                       *)
UseInv == \A e \in InUse : e.hash = Hash[e.path] /\ Intact(e)

(* What a search still has to deliver.                                     *)
HitsInv ==
    /\ hits \in Seq(Entries) /\ handed \subseteq Entries /\ matched \subseteq Hashes
    /\ \A m, n \in DOMAIN hits : m # n => hits[m].hash # hits[n].hash
    /\ DeliversSnapshot

DictInv == ArenaInv /\ RunsInv /\ UseInv /\ HitsInv

(* Merging moves entries from one run to the other.                        *)
LEMMA MergedRuns ==
    ASSUME RunsInv, sorted' = Merged(sorted, pending), pending' = <<>>, first' = first
    PROVE  RunsInv' /\ Range(sorted') = Filed /\ Filed' = Filed
<1>1. sorted' \in Seq(Entries) /\ Rising(sorted') /\ Range(sorted') = Filed
  BY Merging DEF RunsInv, Filed
<1>2. Range(<<>>) = {}
  BY DEF Range
<1>3. Filed' = Filed
  BY <1>1, <1>2 DEF Filed
<1>4. Distinct(sorted', <<>>)
  BY DEF Distinct
<1>. QED
  BY <1>1, <1>3, <1>4 DEF RunsInv, Rising, Distinct

(* A count, and a look-up that hands out what is filed.                    *)
LEMMA Reading ==
    ASSUME DictInv, MergePending, UNCHANGED <<arenaVars, hits, first, matched>>,
           handed \subseteq handed', handed' \subseteq handed \cup Range(sorted')
    PROVE  DictInv'
<1>1. RunsInv' /\ Range(sorted') = Filed /\ Filed' = Filed
  BY MergedRuns DEF DictInv, MergePending
<1>2. ArenaInv' /\ \A e : Intact(e)' <=> Intact(e)
  BY DEF DictInv, ArenaInv, Intact, arenaVars
<1>3. InUse' \subseteq InUse
  BY <1>1 DEF InUse
<1>4. UseInv'
  BY <1>2, <1>3 DEF UseInv, DictInv
<1>5. Filed \subseteq Entries
  BY HashNumbers DEF DictInv, RunsInv, Filed, Range
<1>6. HitsInv'
  BY <1>1, <1>5 DEF HitsInv, DictInv, DeliversSnapshot
<1>. QED
  BY <1>1, <1>2, <1>4, <1>6 DEF DictInv

(* `contains' finds what is filed, in either run.                          *)
LEMMA Containing ==
    ASSUME RunsInv, NEW h \in Hashes
    PROVE  Known(h) <=> \E e \in Filed : e.hash = h
<1>1. Lookup(sorted, h) = {e \in Range(sorted) : e.hash = h}
  BY LookingUp DEF RunsInv
<1>. QED
  BY <1>1 DEF Known, Filed

(* A path whose hash is new is filed once, and the first of its hash.      *)
LEMMA Adding ==
    ASSUME DictInv, NEW x \in Paths, AddNew(x)
    PROVE  DictInv'
<1> DEFINE h == Hash[x]
<1>1. h \in Hashes /\ x # None
  BY DictionaryAssumption DEF Hashes
<1>2. ~\E e \in Filed : e.hash = h
  BY <1>1, Containing DEF AddNew, DictInv
<1>3. first[h] = None
  BY <1>1, <1>2 DEF DictInv, RunsInv
<1>4. first' = [first EXCEPT ![h] = x] /\ UNCHANGED <<hits, handed, matched>>
  BY <1>3 DEF AddNew
<1>5. PICK block \in 1..(Len(blocks) + 1), at \in 0..BlockSize :
         /\ Intern(x, block, at)
         /\ LET e == [hash |-> h, path |-> x, block |-> block, at |-> at] IN
            IF Len(pending) + 1 > MaxPending
            THEN sorted' = Merged(sorted, Append(pending, e)) /\ pending' = <<>>
            ELSE pending' = Append(pending, e) /\ UNCHANGED sorted
  BY DEF AddNew
<1> DEFINE new == [hash |-> h, path |-> x, block |-> block, at |-> at]
           longer == Append(pending, new)
<1>6. block \in Nat /\ at \in Nat
  BY DictionaryAssumption DEF DictInv, ArenaInv
<1>7. /\ new \in Entries /\ new.hash = h /\ new.path = x /\ new.block = block /\ new.at = at
  BY <1>1, <1>6 DEF Entries
<1> HIDE DEF new, h
<1>8. /\ ArenaInv'
      /\ \A e \in Entries : Intact(e) => Intact(e)'
      /\ Intact(new)'
  BY <1>5, <1>6, <1>7, Interning DEF DictInv
<1>9. /\ longer \in Seq(Entries) /\ Len(longer) = Len(pending) + 1
      /\ \A n \in DOMAIN pending : n \in DOMAIN longer /\ longer[n] = pending[n]
      /\ Len(pending) + 1 \in DOMAIN longer /\ longer[Len(pending) + 1] = new
      /\ \A n \in DOMAIN longer : n \in DOMAIN pending \/ n = Len(pending) + 1
  <2>1. pending \in Seq(Entries)
    BY DEF DictInv, RunsInv
  <2>. QED
    BY <1>7, <2>1
<1> HIDE DEF longer
<1>10. Range(longer) = Range(pending) \cup {new}
  BY <1>9 DEF Range
<1>11. \A n \in DOMAIN pending : pending[n].hash # h
  BY <1>2 DEF Filed, Range
<1>12. \A n \in DOMAIN sorted : sorted[n].hash # h
  BY <1>2 DEF Filed, Range
<1>13. Distinct(sorted, longer)
  <2>1. \A m, n \in DOMAIN pending : m # n => pending[m].hash # pending[n].hash
    BY DEF DictInv, RunsInv, Distinct
  <2>2. \A m \in DOMAIN sorted, n \in DOMAIN pending : sorted[m].hash # pending[n].hash
    BY DEF DictInv, RunsInv, Distinct
  <2>3. ASSUME NEW m \in DOMAIN longer, NEW n \in DOMAIN longer, m # n
        PROVE  longer[m].hash # longer[n].hash
    BY <1>7, <1>9, <1>11, <2>1, <2>3
  <2>4. ASSUME NEW m \in DOMAIN sorted, NEW n \in DOMAIN longer
        PROVE  sorted[m].hash # longer[n].hash
    BY <1>7, <1>9, <1>12, <2>2
  <2>. QED
    BY <2>3, <2>4 DEF Distinct
<1>14. /\ sorted' \in Seq(Entries) /\ pending' \in Seq(Entries)
       /\ Rising(sorted') /\ Distinct(sorted', pending')
       /\ Filed' = Filed \cup {new}
  <2>1. CASE Len(pending) + 1 > MaxPending
    <3>1. sorted' = Merged(sorted, longer) /\ pending' = <<>>
      BY <1>5, <2>1 DEF longer, new
    <3>2. sorted' \in Seq(Entries) /\ Rising(sorted') /\ Range(sorted') = Range(sorted) \cup Range(longer)
      BY <1>9, <1>13, <3>1, Merging DEF DictInv, RunsInv
    <3>3. Range(<<>>) = {} /\ Distinct(sorted', <<>>)
      BY DEF Range, Distinct
    <3>. QED
      BY <1>10, <3>1, <3>2, <3>3 DEF Filed
  <2>2. CASE ~(Len(pending) + 1 > MaxPending)
    <3>1. sorted' = sorted /\ pending' = longer
      BY <1>5, <2>2 DEF longer, new
    <3>. QED
      BY <1>9, <1>10, <1>13, <3>1 DEF DictInv, RunsInv, Filed
  <2>. QED
    BY <2>1, <2>2
<1>15. Filed \subseteq Entries /\ Range(hits) \subseteq Entries
  BY HashNumbers DEF DictInv, RunsInv, HitsInv, Filed, Range
<1>16. RunsInv'
  <2>1. first' \in [Hashes -> Paths \cup {None}] /\ first'[h] = x /\ \A g \in Hashes : g # h => first'[g] = first[g]
    BY <1>1, <1>4 DEF DictInv, RunsInv
  <2>2. ASSUME NEW e \in Filed'
        PROVE  first'[e.hash] = e.path
    <3>1. CASE e = new
      BY <1>7, <2>1, <3>1
    <3>2. CASE e \in Filed
      <4>1. e.hash \in Hashes /\ e.hash # h /\ first[e.hash] = e.path
        BY <1>2, <1>15, <3>2 DEF Entries, DictInv, RunsInv
      <4>. QED
        BY <2>1, <4>1
    <3>. QED
      BY <1>14, <3>1, <3>2
  <2>3. ASSUME NEW g \in Hashes, first'[g] # None
        PROVE  \E e \in Filed' : e.hash = g
    <3>1. CASE g = h
      BY <1>7, <1>14, <3>1
    <3>2. CASE g # h
      BY <1>14, <2>1, <2>3, <3>2 DEF DictInv, RunsInv
    <3>. QED
      BY <3>1, <3>2
  <2>. QED
    BY <1>14, <2>1, <2>2, <2>3 DEF RunsInv
<1>17. UseInv'
  <2>1. InUse' = InUse \cup {new}
    BY <1>4, <1>14 DEF InUse
  <2>2. InUse \subseteq Entries
    BY <1>15 DEF InUse, DictInv, HitsInv
  <2>3. new.hash = Hash[new.path]
    BY <1>7 DEF h
  <2>. QED
    BY <1>8, <2>1, <2>2, <2>3 DEF UseInv, DictInv
<1>18. HitsInv'
  BY <1>4 DEF HitsInv, DictInv, DeliversSnapshot
<1>. QED
  BY <1>8, <1>16, <1>17, <1>18 DEF DictInv

(* A search copies the entries that match and are in the depot: those of   *)
(* the hashes whose first path matches.                                    *)
LEMMA Finding ==
    ASSUME DictInv, NEW F \in SUBSET Paths, Find(F)
    PROVE  DictInv'
<1> DEFINE q == Merged(sorted, pending)
           K == {n \in DOMAIN q : q[n].path \in F /\ q[n].hash \in Held}
<1>1. RunsInv' /\ Range(sorted') = Filed /\ Filed' = Filed
  BY MergedRuns DEF DictInv, Find, MergePending
<1>2. sorted' = q /\ hits' = Kept(q, K)
  BY DEF Find, MergePending, Scan, Matching
<1>3. q \in Seq(Entries) /\ Rising(q) /\ Range(q) = Filed
  BY <1>1, <1>2 DEF RunsInv
<1>4. matched' = {h \in Hashes \cap Held : first[h] \in F} /\ UNCHANGED <<arenaVars, handed, first>>
  BY DEF Find
<1> HIDE DEF q
<1>5. \A n \in DOMAIN q : q[n] \in Entries /\ q[n].hash \in Nat /\ q[n] \in Filed /\ n \in Nat
  BY <1>3, HashNumbers
<1>6. \A e \in Filed : \E n \in DOMAIN q : q[n] = e
  BY <1>3 DEF Range
<1>7. K \in SUBSET DOMAIN q /\ \A n \in DOMAIN q : n \in K <=> q[n].path \in F /\ q[n].hash \in Held
  OBVIOUS
<1> HIDE DEF K
<1>8. hits' \in Seq(Entries) /\ \E at : Keeps(hits', q, K, at)
  BY <1>2, <1>3, <1>7, Keeping
<1>9. PICK at : /\ \A n \in DOMAIN hits' : at[n] \in K /\ hits'[n] = q[at[n]]
                /\ \A k \in K : \E n \in DOMAIN hits' : at[n] = k
                /\ \A m, n \in DOMAIN hits' : m < n <=> at[m] < at[n]
  BY <1>8, Zenon DEF Keeps
<1>10. ASSUME NEW m \in DOMAIN hits', NEW n \in DOMAIN hits', m # n
       PROVE  hits'[m].hash # hits'[n].hash
  <2>1. m \in Nat /\ n \in Nat /\ at[m] \in DOMAIN q /\ at[n] \in DOMAIN q
    BY <1>7, <1>8, <1>9
  <2>2. at[m] < at[n] \/ at[n] < at[m]
    BY <1>9, <1>10, <2>1
  <2>3. q[at[m]].hash < q[at[n]].hash \/ q[at[n]].hash < q[at[m]].hash
    BY <1>3, <2>1, <2>2 DEF Rising
  <2>4. q[at[m]].hash \in Nat /\ q[at[n]].hash \in Nat
    BY <1>5, <2>1
  <2>5. q[at[m]].hash # q[at[n]].hash
    BY <2>3, <2>4
  <2>. QED
    BY <1>9, <2>5
<1>11. \A e : e \in Range(hits') <=> e \in Filed /\ e.path \in F /\ e.hash \in Held
  <2>1. ASSUME NEW e \in Range(hits')
        PROVE  e \in Filed /\ e.path \in F /\ e.hash \in Held
    <3>1. PICK n \in DOMAIN hits' : hits'[n] = e
      BY DEF Range
    <3>2. at[n] \in DOMAIN q /\ q[at[n]] = e /\ at[n] \in K
      BY <1>7, <1>9, <3>1
    <3>. QED
      BY <1>5, <1>7, <3>2
  <2>2. ASSUME NEW e \in Filed, e.path \in F, e.hash \in Held
        PROVE  e \in Range(hits')
    <3>1. PICK k \in DOMAIN q : q[k] = e
      BY <1>6
    <3>2. PICK n \in DOMAIN hits' : at[n] = k
      BY <1>7, <1>9, <2>2, <3>1
    <3>. QED
      BY <1>9, <3>1, <3>2 DEF Range
  <2>. QED
    BY <2>1, <2>2
<1>12. DeliversSnapshot'
  <2>1. ASSUME NEW e \in Range(hits')
        PROVE  e.hash \in matched'
    <3>1. e \in Filed /\ e.path \in F /\ e.hash \in Held /\ e.hash \in Hashes
      BY <1>5, <1>6, <1>11 DEF Entries
    <3>2. first[e.hash] = e.path
      BY <3>1 DEF DictInv, RunsInv
    <3>. QED
      BY <1>4, <3>1, <3>2
  <2>2. ASSUME NEW h \in matched'
        PROVE  \E e \in Range(hits') : e.hash = h
    <3>1. h \in Hashes /\ h \in Held /\ first[h] \in F
      BY <1>4
    <3>2. first[h] # None
      BY <3>1, DictionaryAssumption
    <3>3. PICK e \in Filed : e.hash = h
      BY <3>1, <3>2 DEF DictInv, RunsInv
    <3>4. first[h] = e.path
      BY <3>3 DEF DictInv, RunsInv
    <3>. QED
      BY <1>11, <3>1, <3>3, <3>4
  <2>. QED
    BY <2>1, <2>2 DEF DeliversSnapshot
<1>13. HitsInv'
  <2>1. handed' \subseteq Entries /\ matched' \subseteq Hashes
    BY <1>4 DEF DictInv, HitsInv
  <2>. QED
    BY <1>8, <1>10, <1>12, <2>1 DEF HitsInv
<1>14. ArenaInv' /\ \A e : Intact(e)' <=> Intact(e)
  BY <1>4 DEF DictInv, ArenaInv, Intact, arenaVars
<1>15. UseInv'
  <2>1. InUse' \subseteq InUse
    BY <1>1, <1>4, <1>11 DEF InUse
  <2>. QED
    BY <1>14, <2>1 DEF UseInv, DictInv
<1>. QED
  BY <1>1, <1>13, <1>14, <1>15 DEF DictInv

(* Each hit is handed out once, in turn, until the callback says stop.     *)
LEMMA Delivering ==
    ASSUME DictInv, NEW more \in BOOLEAN, Deliver(more)
    PROVE  DictInv'
<1> DEFINE n == Len(hits)
<1>1. /\ hits \in Seq(Entries) /\ hits # <<>> /\ handed' = handed \cup {Head(hits)}
      /\ UNCHANGED <<arenaVars, sorted, pending, first>>
  BY DEF DictInv, HitsInv, Deliver
<1>2. /\ n \in Nat /\ n # 0 /\ DOMAIN hits = 1..n /\ 1 \in DOMAIN hits /\ Head(hits) = hits[1] /\ hits[1] \in Entries
      /\ Tail(hits) \in Seq(Entries) /\ DOMAIN Tail(hits) = 1..(n - 1)
      /\ \A k \in 1..(n - 1) : Tail(hits)[k] = hits[k + 1]
  BY <1>1
<1>3. Head(hits) \in Range(hits)
  BY <1>2 DEF Range
<1>4. \A k \in 1..(n - 1) : k + 1 \in DOMAIN hits /\ k + 1 # 1
  BY <1>2
<1>5. \A k \in DOMAIN hits : k # 1 => k - 1 \in 1..(n - 1) /\ (k - 1) + 1 = k
  BY <1>2
<1> HIDE DEF n
<1>6. Range(Tail(hits)) \subseteq Range(hits)
  BY <1>2, <1>4 DEF Range
<1>7. \A e \in Range(hits) : e = Head(hits) \/ e \in Range(Tail(hits))
  BY <1>2, <1>5 DEF Range
<1>8. \A e \in Range(Tail(hits)) : e.hash # Head(hits).hash
  BY <1>2, <1>4 DEF DictInv, HitsInv, Range
<1>9. CASE more
  <2>1. hits' = Tail(hits) /\ matched' = matched \ {Head(hits).hash}
    BY <1>9 DEF Deliver
  <2>2. ASSUME NEW k \in DOMAIN Tail(hits), NEW l \in DOMAIN Tail(hits), k # l
        PROVE  Tail(hits)[k].hash # Tail(hits)[l].hash
    <3>1. k + 1 \in DOMAIN hits /\ l + 1 \in DOMAIN hits /\ k + 1 # l + 1
      BY <1>2, <1>4, <2>2
    <3>. QED
      BY <1>2, <3>1 DEF DictInv, HitsInv
  <2>3. {e.hash : e \in Range(Tail(hits))} = {e.hash : e \in Range(hits)} \ {Head(hits).hash}
    BY <1>6, <1>7, <1>8
  <2>4. DeliversSnapshot'
    BY <2>1, <2>3 DEF DeliversSnapshot, DictInv, HitsInv
  <2>5. HitsInv'
    BY <1>1, <1>2, <2>1, <2>2, <2>4 DEF HitsInv, DictInv
  <2>6. InUse' \subseteq InUse
    BY <1>1, <1>3, <1>6, <2>1 DEF InUse, Filed
  <2>. QED
    BY <1>1, <2>5, <2>6 DEF DictInv, RunsInv, UseInv, ArenaInv, Intact, arenaVars, Filed
<1>10. CASE ~more
  <2>1. hits' = <<>> /\ matched' = {} /\ Range(<<>>) = {}
    BY <1>10 DEF Deliver, Range
  <2>2. HitsInv'
    BY <1>1, <1>2, <2>1 DEF HitsInv, DictInv, DeliversSnapshot
  <2>3. InUse' \subseteq InUse
    BY <1>1, <1>3, <2>1 DEF InUse, Filed
  <2>. QED
    BY <1>1, <2>2, <2>3 DEF DictInv, RunsInv, UseInv, ArenaInv, Intact, arenaVars, Filed
<1>. QED
  BY <1>9, <1>10

(* The empty dictionary.                                                   *)
LEMMA Starting == Init => DictInv
<1> SUFFICES ASSUME Init
             PROVE  DictInv
  OBVIOUS
<1>1. /\ blocks = <<>> /\ cur = 0 /\ used = 0 /\ sorted = <<>> /\ pending = <<>>
      /\ hits = <<>> /\ handed = {} /\ matched = {} /\ first = [h \in Hashes |-> None]
  BY DEF Init
<1>2. Range(<<>>) = {} /\ DOMAIN <<>> = {} /\ Len(<<>>) = 0 /\ \A E : <<>> \in Seq(E)
  BY DEF Range
<1>3. Filed = {} /\ InUse = {}
  BY <1>1, <1>2 DEF Filed, InUse
<1>4. ArenaInv
  BY <1>1, <1>2, DictionaryAssumption DEF ArenaInv
<1>5. RunsInv
  <2>1. first \in [Hashes -> Paths \cup {None}] /\ \A h \in Hashes : first[h] = None
    BY <1>1
  <2>. QED
    BY <1>1, <1>2, <1>3, <2>1 DEF RunsInv, Rising, Distinct
<1>6. UseInv
  BY <1>3 DEF UseInv
<1>7. HitsInv
  BY <1>1, <1>2 DEF HitsInv, DeliversSnapshot
<1>. QED
  BY <1>4, <1>5, <1>6, <1>7 DEF DictInv

(* Every call of the dictionary keeps it sound.                            *)
LEMMA Calling == DictInv /\ [Next]_vars => DictInv'
<1> SUFFICES ASSUME DictInv, [Next]_vars
             PROVE  DictInv'
  OBVIOUS
<1>1. CASE UNCHANGED vars
  <2>1. UNCHANGED <<blocks, cur, used, sorted, pending, hits, handed, first, matched>>
    BY <1>1 DEF vars, arenaVars
  <2>2. ArenaInv' /\ RunsInv'
    BY <2>1 DEF DictInv, ArenaInv, RunsInv, Filed
  <2>3. UseInv' /\ HitsInv'
    BY <2>1 DEF DictInv, UseInv, HitsInv, InUse, Filed, Intact, DeliversSnapshot
  <2>. QED
    BY <2>2, <2>3 DEF DictInv
<1>2. CASE \E x \in Paths : AddKnown(x)
  BY <1>1, <1>2 DEF AddKnown
<1>3. CASE \E x \in Paths : AddNew(x)
  BY <1>3, Adding
<1>4. CASE Count
  BY <1>4, Reading DEF Count
<1>5. ASSUME NEW h \in Hashes, PathFromHash(h)
      PROVE  DictInv'
  <2>1. RunsInv'
    BY <1>5, MergedRuns DEF DictInv, PathFromHash, MergePending
  <2>2. Lookup(sorted', h) \subseteq Range(sorted')
    BY <2>1, LookingUp DEF RunsInv
  <2>. QED
    BY <1>5, <2>2, Reading DEF PathFromHash
<1>6. CASE \E F \in SUBSET Paths : Find(F)
  BY <1>6, Finding
<1>7. CASE \E more \in BOOLEAN : Deliver(more)
  BY <1>7, Delivering
<1>. QED
  BY <1>1, <1>2, <1>3, <1>4, <1>5, <1>6, <1>7 DEF Next

(* It stays sound whatever else the callers do.                            *)
LEMMA DictionaryAlways == SearchSpec => []DictInv
<1>1. SearchInit => DictInv
  BY Starting DEF SearchInit
<1>2. DictInv /\ [SearchNext]_searchVars => DictInv'
  <2> SUFFICES ASSUME DictInv, [SearchNext]_searchVars
               PROVE  DictInv'
    OBVIOUS
  <2>1. [Next]_vars
    BY DEF SearchNext, UseDictionary, GlobMatch, ReadText, CallRedFS, searchVars
  <2>. QED
    BY <2>1, Calling
<1>. QED
  BY <1>1, <1>2, PTL DEF SearchSpec

-----------------------------------------------------------------------------
(* What the invariant means for the callers.                               *)

(* Two runs without a common hash have as many hashes as entries.          *)
LEMMA HashesCounted ==
    ASSUME NEW s \in Seq(Entries), NEW r \in Seq(Entries), Rising(s), Distinct(s, r)
    PROVE  Cardinality({e.hash : e \in Range(s) \cup Range(r)}) = Len(s) + Len(r)
<1> DEFINE T == {e.hash : e \in Range(s) \cup Range(r)}
           n == Len(s) + Len(r)
           f == [k \in 1..n |-> IF k <= Len(s) THEN s[k].hash ELSE r[k - Len(s)].hash]
<1>1. /\ Len(s) \in Nat /\ DOMAIN s = 1..Len(s) /\ Len(r) \in Nat /\ DOMAIN r = 1..Len(r)
      /\ \A k \in DOMAIN s : s[k].hash \in Nat
  BY HashNumbers
<1>2. /\ \A k \in DOMAIN s : k \in 1..n /\ f[k] = s[k].hash
      /\ \A k \in DOMAIN r : k + Len(s) \in 1..n /\ f[k + Len(s)] = r[k].hash
      /\ \A k \in 1..n : k \in DOMAIN s \/ (k - Len(s) \in DOMAIN r /\ ~(k <= Len(s)))
  <2>1. \A k \in DOMAIN r : k + Len(s) \in 1..n /\ ~(k + Len(s) <= Len(s)) /\ (k + Len(s)) - Len(s) = k
    BY <1>1
  <2>2. \A k \in DOMAIN s : k \in 1..n /\ k <= Len(s)
    BY <1>1
  <2>3. \A k \in 1..n : k \in DOMAIN s \/ (k - Len(s) \in DOMAIN r /\ ~(k <= Len(s)))
    BY <1>1
  <2>. QED
    BY <2>1, <2>2, <2>3
<1>3. \A k \in 1..n : k - Len(s) \in DOMAIN r /\ ~(k <= Len(s)) => f[k] = r[k - Len(s)].hash
  OBVIOUS
<1>4. n \in Nat /\ DOMAIN f = 1..n /\ f = [k \in 1..n |-> f[k]]
  BY <1>1
<1> HIDE DEF f
<1>5. \A k \in 1..n : f[k] \in T
  BY <1>2, <1>3 DEF Range
<1>6. \A h \in T : \E k \in 1..n : f[k] = h
  <2> SUFFICES ASSUME NEW e \in Range(s) \cup Range(r)
               PROVE  \E k \in 1..n : f[k] = e.hash
    OBVIOUS
  <2>. QED
    BY <1>2 DEF Range
<1>7. ASSUME NEW k \in 1..n, NEW l \in 1..n, f[k] = f[l]
      PROVE  k = l
  <2>1. CASE k \in DOMAIN s /\ l \in DOMAIN s
    <3>1. ~(k < l) /\ ~(l < k)
      BY <1>1, <1>2, <1>7, <2>1 DEF Rising
    <3>. QED
      BY <1>1, <2>1, <3>1
  <2>2. CASE k - Len(s) \in DOMAIN r /\ ~(k <= Len(s)) /\ l - Len(s) \in DOMAIN r /\ ~(l <= Len(s))
    <3>1. k - Len(s) = l - Len(s)
      BY <1>3, <1>7, <2>2 DEF Distinct
    <3>. QED
      BY <1>1, <3>1
  <2>3. CASE k \in DOMAIN s /\ l - Len(s) \in DOMAIN r /\ ~(l <= Len(s))
    BY <1>2, <1>3, <1>7, <2>3 DEF Distinct
  <2>4. CASE l \in DOMAIN s /\ k - Len(s) \in DOMAIN r /\ ~(k <= Len(s))
    BY <1>2, <1>3, <1>7, <2>4 DEF Distinct
  <2>. QED
    BY <1>2, <2>1, <2>2, <2>3, <2>4
<1> HIDE DEF T, n
<1>8. f \in Bijection(1..n, T)
  <2>1. f \in [1..n -> T]
    BY <1>4, <1>5
  <2>. QED
    BY <1>6, <1>7, <2>1 DEF Bijection, Injection, Surjection, IsInjective
<1>9. IsFiniteSet(1..n) /\ Cardinality(1..n) = n
  <2>1. 1 \in Int /\ n \in Int
    BY <1>4
  <2>2. IsFiniteSet(1..n) /\ Cardinality(1..n) = IF 1 > n THEN 0 ELSE n - 1 + 1
    BY <2>1, FS_Interval
  <2>. QED
    BY <1>4, <2>2
<1>10. Cardinality(T) = n
  BY <1>8, <1>9, FS_Bijection DEF ExistsBijection
<1>. QED
  BY <1>10 DEF T, n

(* A path that a host was handed a pointer to stays where it is, its NUL   *)
(* included, however many paths are added behind it, in however many       *)
(* blocks of whatever size: paths.cpp's Arena and add_locked.              *)
THEOREM PointersNeverMove == SearchSpec => []PointersStable
<1>1. DictInv => PointersStable
  BY DEF DictInv, UseInv, InUse, Intact, PointersStable
<1>. QED
  BY <1>1, DictionaryAlways, PTL

(* Whatever is added, merged and looked up, in whatever order, no hash is  *)
(* filed twice, a look-up finds the first path that was added under a      *)
(* hash, and `contains' says so before the merge: paths.cpp's add_locked,  *)
(* merge_pending and lookup.                                               *)
THEOREM FirstPathIsFound == SearchSpec => []DictionaryInv
<1>1. ASSUME DictInv
      PROVE  DictionaryInv
  <2>1. TypeOK
    <3>1. \A b \in DOMAIN blocks : \A k \in DOMAIN blocks[b] : blocks[b][k] \in Paths \cup {None}
      BY <1>1 DEF DictInv, ArenaInv
    <3>2. \A e \in Filed : e.block \in DOMAIN blocks /\ e.at + Length[e.path] < Len(blocks[e.block])
      BY <1>1 DEF DictInv, UseInv, InUse, Intact
    <3>. QED
      BY <1>1, <3>1, <3>2 DEF TypeOK, DictInv, ArenaInv, RunsInv, HitsInv, Filed
  <2>2. NoDuplicates
    <3>1. Len(sorted) \in Nat /\ DOMAIN sorted = 1..Len(sorted) /\ Rising(sorted)
      BY <1>1, HashNumbers DEF DictInv, RunsInv
    <3>2. ASSUME NEW n \in 1..(Len(sorted) - 1)
          PROVE  sorted[n].hash < sorted[n + 1].hash
      <4>1. n \in DOMAIN sorted /\ n + 1 \in DOMAIN sorted /\ n < n + 1
        BY <3>1
      <4>. QED
        BY <3>1, <4>1 DEF Rising
    <3>3. Cardinality({e.hash : e \in Range(sorted) \cup Range(pending)}) = Len(sorted) + Len(pending)
      BY <1>1, HashesCounted DEF DictInv, RunsInv
    <3>. QED
      BY <3>2, <3>3 DEF NoDuplicates
  <2>3. LookupExact
    <3> SUFFICES ASSUME NEW h \in Hashes
                 PROVE  /\ {e.path : e \in Lookup(Merged(sorted, pending), h)} = {first[h]} \ {None}
                        /\ Known(h) <=> first[h] # None
      BY DEF LookupExact
    <3>1. Lookup(Merged(sorted, pending), h) = {e \in Filed : e.hash = h}
      <4> DEFINE q == Merged(sorted, pending)
      <4>1. q \in Seq(Entries) /\ Rising(q) /\ Range(q) = Filed
        BY <1>1, Merging DEF DictInv, RunsInv, Filed
      <4> HIDE DEF q
      <4>2. Lookup(q, h) = {e \in Range(q) : e.hash = h}
        BY <4>1, LookingUp
      <4>. QED
        BY <4>1, <4>2 DEF q
    <3>2. Known(h) <=> \E e \in Filed : e.hash = h
      BY <1>1, Containing DEF DictInv
    <3>3. \A e \in Filed : e.hash = h => e.path = first[h] /\ first[h] # None
      <4>1. Filed \subseteq Entries
        BY <1>1, HashNumbers DEF DictInv, RunsInv, Filed, Range
      <4>. QED
        BY <1>1, <4>1, DictionaryAssumption DEF DictInv, RunsInv, Entries
    <3>4. first[h] # None => \E e \in Filed : e.hash = h
      BY <1>1 DEF DictInv, RunsInv
    <3>. QED
      BY <3>1, <3>2, <3>3, <3>4
  <2>. QED
    BY <2>1, <2>2, <2>3 DEF DictionaryInv
<1>. QED
  BY <1>1, DictionaryAlways, PTL

(* What a search still has to deliver are the hashes that matched when it  *)
(* was asked, less those delivered: what its callbacks add does not join,  *)
(* and what was pending is not missed: api.cpp's redfs_find over the       *)
(* entries that paths.cpp copies out.                                      *)
THEOREM SearchIsASnapshot == SearchSpec => []DeliversSnapshot
<1>1. DictInv => DeliversSnapshot
  BY DEF DictInv, HitsInv
<1>. QED
  BY <1>1, DictionaryAlways, PTL


-----------------------------------------------------------------------------
(* The matcher: what a pattern means.                                      *)

(* R says, for each place of a pattern, where the rest of it matches.      *)
Means(R, pat, txt) ==
    /\ R[Len(pat) + 1] = {Len(txt) + 1}
    /\ \A i \in 1..Len(pat) :
          IF pat[i] = "*"
          THEN R[i] = {k \in 1..(Len(txt) + 1) : \E n \in R[i + 1] : k <= n}
          ELSE R[i] = {k \in 1..Len(txt) : pat[i] \in {"?", txt[k]} /\ k + 1 \in R[i + 1]}

(* The recursive definition has a solution, or there would be a least      *)
(* number of characters, from the pattern's end, for which none has.       *)
LEMMA Meaning ==
    ASSUME NEW pat, NEW txt, Len(pat) \in Nat, Len(txt) \in Nat
    PROVE  Means(G!Rest(pat, txt), pat, txt)
<1> DEFINE m == Len(pat)
           Here(i, next) ==
               IF i > m THEN {Len(txt) + 1}
               ELSE IF pat[i] = "*" THEN {k \in 1..(Len(txt) + 1) : \E n \in next : k <= n}
               ELSE {k \in 1..Len(txt) : pat[i] \in {"?", txt[k]} /\ k + 1 \in next}
           Solves(d, f) == \A i \in (m + 1 - d)..(m + 1) : f[i] = Here(i, f[i + 1])
           Bad == {d \in Nat : d <= m /\ ~\E f : Solves(d, f)}
<1>0. m \in Nat
  OBVIOUS
<1> HIDE DEF m
<1>1. Bad = {}
  <2> SUFFICES ASSUME Bad # {}
               PROVE  FALSE
    OBVIOUS
  <2>1. PICK d \in Bad : \A e \in Bad : ~(<<e, d>> \in OpToRel(<, Nat))
    <3>1. Bad \subseteq Nat
      OBVIOUS
    <3> HIDE DEF Bad
    <3>. QED
      BY <3>1, NatLessThanWellFounded, WFMin
  <2>2. d \in Nat /\ d <= m /\ ~\E f : Solves(d, f)
    OBVIOUS
  <2>3. d # 0
    <3> DEFINE f == [i \in {m + 1} |-> {Len(txt) + 1}]
    <3>1. \A i \in (m + 1 - 0)..(m + 1) : i = m + 1 /\ i > m
      BY <1>0
    <3>2. Solves(0, f)
      BY <3>1
    <3> HIDE DEF Solves, f
    <3>. QED
      BY <2>2, <3>2
  <2>4. d - 1 \in Nat /\ d - 1 < d /\ d - 1 <= m
    BY <1>0, <2>2, <2>3
  <2>5. d - 1 \notin Bad
    BY <2>1, <2>2, <2>4 DEF OpToRel
  <2>6. PICK f : Solves(d - 1, f)
    <3> HIDE DEF Solves
    <3>. QED
      BY <2>4, <2>5
  <2> DEFINE i0 == m + 1 - d
             g == [i \in i0..(m + 2) |-> IF i = i0 THEN Here(i0, f[i0 + 1]) ELSE f[i]]
  <2>7. ASSUME NEW i \in i0..(m + 1)
        PROVE  g[i] = Here(i, g[i + 1])
    <3>1. i0 \in Nat /\ i \in Nat /\ i + 1 \in i0..(m + 2) /\ i \in i0..(m + 2) /\ i + 1 # i0
      BY <1>0, <2>2
    <3>2. g[i + 1] = f[i + 1]
      BY <3>1
    <3>3. CASE i = i0
      <4>1. g[i] = Here(i0, f[i0 + 1])
        BY <3>1, <3>3
      <4> HIDE DEF Here, g
      <4>. QED
        BY <3>2, <3>3, <4>1
    <3>4. CASE i # i0
      <4>1. i \in (m + 1 - (d - 1))..(m + 1)
        BY <1>0, <2>2, <3>1, <3>4
      <4>2. g[i] = f[i]
        BY <3>1, <3>4
      <4> HIDE DEF Here, g
      <4>. QED
        BY <2>6, <3>2, <4>1, <4>2
    <3>. QED
      BY <3>3, <3>4
  <2> HIDE DEF g, Here
  <2>. QED
    BY <2>2, <2>7
<1>2. PICK g : Solves(m, g)
  <2>1. m \notin Bad /\ m <= m
    <3> HIDE DEF Bad
    <3>. QED
      BY <1>0, <1>1
  <2> HIDE DEF Solves
  <2>. QED
    BY <1>0, <2>1
<1>3. \A i \in 1..(m + 1) : g[i] = Here(i, g[i + 1])
  <2>1. m + 1 - m = 1
    BY <1>0
  <2> HIDE DEF Here
  <2>. QED
    BY <1>2, <2>1
<1> DEFINE h == [i \in 1..(m + 1) |-> g[i]]
           R[i \in 1..(Len(pat) + 1)] ==
               IF i > Len(pat) THEN {Len(txt) + 1}
               ELSE IF pat[i] = "*" THEN {k \in 1..(Len(txt) + 1) : \E n \in R[i + 1] : k <= n}
               ELSE {k \in 1..Len(txt) : pat[i] \in {"?", txt[k]} /\ k + 1 \in R[i + 1]}
<1>4. h = [i \in 1..(Len(pat) + 1) |->
               IF i > Len(pat) THEN {Len(txt) + 1}
               ELSE IF pat[i] = "*" THEN {k \in 1..(Len(txt) + 1) : \E n \in h[i + 1] : k <= n}
               ELSE {k \in 1..Len(txt) : pat[i] \in {"?", txt[k]} /\ k + 1 \in h[i + 1]}]
  <2>1. ASSUME NEW i \in 1..(m + 1)
        PROVE  h[i] = Here(i, h[i + 1])
    <3>1. h[i] = Here(i, g[i + 1])
      BY <1>3
    <3>2. CASE i <= m
      <4>1. h[i + 1] = g[i + 1]
        BY <1>0, <3>2
      <4> HIDE DEF Here, h
      <4>. QED
        BY <3>1, <4>1
    <3>3. CASE ~(i <= m)
      BY <1>0, <3>1, <3>3
    <3>. QED
      BY <3>2, <3>3
  <2>2. \A i \in 1..(m + 1) : h[i] =
               IF i > Len(pat) THEN {Len(txt) + 1}
               ELSE IF pat[i] = "*" THEN {k \in 1..(Len(txt) + 1) : \E n \in h[i + 1] : k <= n}
               ELSE {k \in 1..Len(txt) : pat[i] \in {"?", txt[k]} /\ k + 1 \in h[i + 1]}
    <3> HIDE DEF h
    <3>. QED
      BY <2>1 DEF m
  <2>. QED
    BY <2>2 DEF m
<1>5. R = [i \in 1..(Len(pat) + 1) |->
               IF i > Len(pat) THEN {Len(txt) + 1}
               ELSE IF pat[i] = "*" THEN {k \in 1..(Len(txt) + 1) : \E n \in R[i + 1] : k <= n}
               ELSE {k \in 1..Len(txt) : pat[i] \in {"?", txt[k]} /\ k + 1 \in R[i + 1]}]
  <2> HIDE DEF h
  <2>. QED
    BY <1>4
<1>6. G!Rest(pat, txt) = R
  BY DEF G!Rest
<1> HIDE DEF R
<1>7. \A i \in 1..(m + 1) : R[i] = Here(i, R[i + 1])
  BY <1>5 DEF m
<1>8. R[m + 1] = {Len(txt) + 1}
  <2>1. m + 1 \in 1..(m + 1) /\ m + 1 > m
    BY <1>0
  <2>. QED
    BY <1>7, <2>1
<1>9. ASSUME NEW i \in 1..m
      PROVE  R[i] = Here(i, R[i + 1]) /\ ~(i > m)
  <2>1. i \in 1..(m + 1) /\ ~(i > m)
    BY <1>0
  <2> HIDE DEF Here
  <2>. QED
    BY <1>7, <2>1
<1>. QED
  BY <1>6, <1>8, <1>9 DEF Means, m

(* At the end of the text, only stars can still match.                     *)
LEMMA OnlyStars ==
    ASSUME NEW R, NEW pat, NEW txt, Len(pat) \in Nat, Len(txt) \in Nat, Means(R, pat, txt),
           NEW i \in 1..(Len(pat) + 1)
    PROVE  Len(txt) + 1 \in R[i] <=> \A k \in i..Len(pat) : pat[k] = "*"
<1> DEFINE m == Len(pat)
           e == Len(txt) + 1
           Right(k) == e \in R[k] <=> \A j \in k..m : pat[j] = "*"
           Bad == {d \in Nat : d <= m /\ ~Right(m + 1 - d)}
<1>0. m \in Nat /\ e \in Nat /\ e - 1 = Len(txt)
  OBVIOUS
<1>1. Bad = {}
  <2> SUFFICES ASSUME Bad # {}
               PROVE  FALSE
    OBVIOUS
  <2>1. PICK d \in Bad : \A c \in Bad : ~(<<c, d>> \in OpToRel(<, Nat))
    <3>1. Bad \subseteq Nat
      OBVIOUS
    <3> HIDE DEF Bad
    <3>. QED
      BY <3>1, NatLessThanWellFounded, WFMin
  <2> DEFINE k == m + 1 - d
  <2>2. d \in Nat /\ d <= m /\ ~Right(k)
    OBVIOUS
  <2>3. d # 0
    <3>1. Right(m + 1)
      BY <1>0 DEF Means
    <3>2. d = 0 => k = m + 1
      BY <1>0
    <3> HIDE DEF Right, k
    <3>. QED
      BY <2>2, <3>1, <3>2
  <2>4. d - 1 \in Nat /\ d - 1 < d /\ d - 1 <= m /\ m + 1 - (d - 1) = k + 1 /\ k \in 1..m
    BY <1>0, <2>2, <2>3
  <2>5. Right(k + 1)
    <3>1. d - 1 \notin Bad
      BY <2>1, <2>2, <2>4 DEF OpToRel
    <3> HIDE DEF Right, k
    <3>. QED
      BY <2>4, <3>1
  <2> HIDE DEF k
  <2>6. \A j \in Int : j \in k..m <=> j = k \/ j \in (k + 1)..m
    <3>1. k \in Int /\ m \in Int /\ k <= m
      BY <1>0, <2>4
    <3>. QED
      BY <3>1
  <2>7. (\A j \in k..m : pat[j] = "*") <=> pat[k] = "*" /\ \A j \in (k + 1)..m : pat[j] = "*"
    BY <1>0, <2>4, <2>6
  <2>8. CASE pat[k] = "*"
    <3>1. R[k] = {n \in 1..e : \E o \in R[k + 1] : n <= o}
      BY <2>4, <2>8 DEF Means
    <3>2. R[k + 1] \subseteq 1..e
      <4>1. CASE k = m
        BY <1>0, <4>1 DEF Means
      <4>2. CASE k # m
        <5>1. k + 1 \in 1..m
          BY <1>0, <2>4, <4>2
        <5>. QED
          BY <1>0, <5>1 DEF Means
      <4>. QED
        BY <4>1, <4>2
    <3>3. e \in R[k] <=> e \in R[k + 1]
      BY <1>0, <3>1, <3>2
    <3>. QED
      BY <2>2, <2>5, <2>7, <2>8, <3>3
  <2>9. CASE pat[k] # "*"
    <3>1. R[k] \subseteq 1..Len(txt)
      BY <2>4, <2>9 DEF Means
    <3>2. e \notin R[k]
      BY <1>0, <3>1
    <3>. QED
      BY <2>2, <2>7, <2>9, <3>2
  <2>. QED
    BY <2>8, <2>9
<1>2. m + 1 - i \in Nat /\ m + 1 - i <= m /\ m + 1 - (m + 1 - i) = i
  BY <1>0
<1>3. Right(i)
  <2>1. m + 1 - i \notin Bad
    <3> HIDE DEF Bad
    <3>. QED
      BY <1>1
  <2> HIDE DEF Right, m
  <2>. QED
    BY <1>2, <2>1
<1>. QED
  BY <1>3

-----------------------------------------------------------------------------
(* The matcher: what every turn of the loop keeps true.                    *)

R0 == G!Rest(pattern, text)

(* The answer is known from where the loop stands: without a star, from    *)
(* the two pointers; with one, from where the star would have to end.  In  *)
(* the second case the pattern between the star and the pointer has no     *)
(* star, so a match behind the star is one at the pointer, shifted.        *)
LoopInv ==
    result = "running" =>
        /\ star = 0 => (1 \in R0[1] <=> t \in R0[p])
        /\ star # 0 =>
              /\ pattern[star] = "*" /\ star < p /\ resume \in 1..t
              /\ t = resume + (p - star - 1)
              /\ 1 \in R0[1] <=> resume \in R0[star]
              /\ t \in R0[p] <=> resume \in R0[star + 1]
              /\ \A k \in R0[star + 1] : k + (p - star - 1) \in R0[p]

MatchInv == G!TypeOK /\ LoopInv /\ G!Correct

(* The sizes of the two strings.                                           *)
LEMMA Lengths ==
    ASSUME pattern \in G!Pattern, text \in G!Text
    PROVE  Len(pattern) \in Nat /\ Len(text) \in Nat
<1>1. ASSUME NEW X, NEW n \in Nat, NEW s \in G!Strings(X, n)
      PROVE  Len(s) \in Nat
  <2>1. PICK k \in 0..n : s \in [1..k -> X]
    BY DEF G!Strings
  <2>2. k \in Nat /\ s \in Seq(X)
    BY <2>1
  <2>. QED
    BY <2>2
<1>. QED
  BY <1>1, GlobAssumption DEF G!Pattern, G!Text

(* The numbers of the loop, and what its pattern means.                    *)
LEMMA LoopNumbers ==
    ASSUME G!TypeOK
    PROVE  /\ Len(pattern) \in Nat /\ Len(text) \in Nat
           /\ p \in Nat /\ t \in Nat /\ star \in Nat /\ resume \in Nat
           /\ Means(R0, pattern, text)
<1>2. Len(pattern) \in Nat /\ Len(text) \in Nat
  BY Lengths DEF G!TypeOK
<1>3. p \in Nat /\ t \in Nat /\ star \in Nat /\ resume \in Nat
  BY <1>2 DEF G!TypeOK
<1>4. Means(R0, pattern, text)
  BY <1>2, Meaning DEF R0
<1>. QED
  BY <1>2, <1>3, <1>4

(* Where the rest of a pattern matches is in the text, its end included.   *)
LEMMA Places ==
    ASSUME NEW R, NEW pat, NEW txt, Len(pat) \in Nat, Len(txt) \in Nat, Means(R, pat, txt),
           NEW i \in 1..(Len(pat) + 1)
    PROVE  R[i] \subseteq 1..(Len(txt) + 1)
<1>1. CASE i = Len(pat) + 1
  BY <1>1 DEF Means
<1>2. CASE i # Len(pat) + 1
  <2>1. i \in 1..Len(pat)
    BY <1>2
  <2>. QED
    BY <2>1 DEF Means
<1>. QED
  BY <1>1, <1>2

(* One turn of the loop: another star forgets the one before it, a         *)
(* mismatch lets the last star take one character more.                    *)
LEMMA Turning ==
    ASSUME MatchInv, G!Next
    PROVE  MatchInv'
<1> DEFINE m == Len(pattern)
           n == Len(text)
<1>1. /\ m \in Nat /\ n \in Nat
      /\ p \in Nat /\ t \in Nat /\ star \in Nat /\ resume \in Nat
      /\ Means(R0, pattern, text)
  BY LoopNumbers DEF MatchInv
<1>2. /\ pattern \in G!Pattern /\ text \in G!Text
      /\ p \in 1..(m + 1) /\ t \in 1..(n + 1) /\ star \in 0..m /\ resume \in 0..(n + 1)
  BY DEF MatchInv, G!TypeOK
<1>3. result = "running" /\ UNCHANGED <<pattern, text>> /\ R0' = R0
  <2>1. result = "running" /\ UNCHANGED <<pattern, text>>
    BY DEF G!Next, G!Star, G!Literal, G!Backtrack, G!Mismatch, G!Finish, G!Running
  <2>. QED
    BY <2>1 DEF R0
<1>4. /\ R0[m + 1] = {n + 1}
      /\ \A i \in 1..m : pattern[i] = "*" => R0[i] = {k \in 1..(n + 1) : \E l \in R0[i + 1] : k <= l}
      /\ \A i \in 1..m : pattern[i] # "*" =>
            R0[i] = {k \in 1..n : pattern[i] \in {"?", text[k]} /\ k + 1 \in R0[i + 1]}
  BY <1>1 DEF Means
<1>5. \A i \in 1..(m + 1) : R0[i] \subseteq 1..(n + 1)
  BY <1>1, Places
<1>6. /\ star = 0 => (1 \in R0[1] <=> t \in R0[p])
      /\ star # 0 =>
            /\ pattern[star] = "*" /\ star < p /\ resume \in 1..t
            /\ t = resume + (p - star - 1)
            /\ 1 \in R0[1] <=> resume \in R0[star]
            /\ t \in R0[p] <=> resume \in R0[star + 1]
            /\ \A k \in R0[star + 1] : k + (p - star - 1) \in R0[p]
  BY <1>3 DEF MatchInv, LoopInv
<1>7. G!Matches(pattern, text) <=> 1 \in R0[1]
  BY DEF G!Matches, R0
<1> HIDE DEF m, n
<1>8. CASE G!Star
  <2>1. /\ t \in 1..n /\ p \in 1..m /\ pattern[p] = "*"
        /\ star' = p /\ p' = p + 1 /\ resume' = t /\ t' = t /\ result' = result
    BY <1>1, <1>2, <1>8 DEF G!Star, G!Running, G!IsStar, G!AtPattern, m, n
  <2>2. 1 \in R0[1] <=> t \in R0[p]
    <3>1. CASE star # 0
      <4>1. ASSUME resume \in R0[star]
            PROVE  t \in R0[p]
        <5>1. PICK l \in R0[star + 1] : resume <= l
          BY <1>4, <1>6, <3>1, <4>1, <1>2
        <5>2. l \in Nat /\ l + (p - star - 1) \in R0[p]
          BY <1>1, <1>2, <1>5, <1>6, <3>1, <5>1
        <5>3. PICK o \in R0[p + 1] : l + (p - star - 1) <= o
          BY <1>4, <2>1, <5>2
        <5>4. o \in Nat
          BY <1>1, <1>5, <2>1, <5>3
        <5>5. t <= o
          BY <1>1, <1>6, <3>1, <5>1, <5>2, <5>3, <5>4
        <5>. QED
          BY <1>2, <1>4, <2>1, <5>3, <5>5
      <4>2. ASSUME t \in R0[p]
            PROVE  resume \in R0[star]
        <5>1. resume \in R0[star + 1] /\ resume \in 1..(n + 1) /\ star \in 1..m /\ resume <= resume
          BY <1>1, <1>2, <1>6, <3>1, <4>2
        <5>. QED
          BY <1>4, <1>6, <3>1, <5>1
      <4>. QED
        BY <1>6, <3>1, <4>1, <4>2
    <3>. QED
      BY <1>6, <3>1
  <2>3. G!TypeOK'
    BY <1>1, <1>2, <1>3, <2>1 DEF G!TypeOK, m, n
  <2>4. LoopInv'
    <3>1. p' - star' - 1 = 0 /\ star' # 0 /\ star' < p' /\ p' = star' + 1
      BY <1>1, <2>1
    <3>2. \A k \in R0[p'] : k + 0 \in R0[p']
      BY <1>1, <1>5, <2>1
    <3>3. pattern'[star'] = "*" /\ resume' \in 1..t' /\ t' = resume' + 0
      BY <1>1, <1>3, <2>1
    <3>. QED
      BY <1>3, <2>1, <2>2, <3>1, <3>2, <3>3 DEF LoopInv
  <2>. QED
    BY <1>3, <2>1, <2>3, <2>4 DEF MatchInv, G!Correct
<1>9. CASE G!Literal
  <2>1. /\ t \in 1..n /\ p \in 1..m /\ pattern[p] # "*" /\ pattern[p] \in {"?", text[t]}
        /\ p' = p + 1 /\ t' = t + 1 /\ star' = star /\ resume' = resume /\ result' = result
    BY <1>1, <1>2, <1>9 DEF G!Literal, G!Running, G!IsStar, G!IsLiteral, G!AtPattern, m, n
  <2>2. t \in R0[p] <=> t' \in R0[p']
    BY <1>4, <2>1
  <2>3. \A k \in R0[p] : k + 1 \in R0[p']
    BY <1>4, <2>1
  <2>4. G!TypeOK'
    BY <1>1, <1>2, <1>3, <2>1 DEF G!TypeOK, m, n
  <2>5. LoopInv'
    <3>1. CASE star = 0
      BY <1>3, <1>6, <2>1, <2>2, <3>1 DEF LoopInv
    <3>2. CASE star # 0
      <4>1. ASSUME NEW k \in R0[star + 1]
            PROVE  k + (p' - star - 1) \in R0[p']
        <5>1. k \in Nat
          BY <1>1, <1>2, <1>5, <1>6, <3>2
        <5>2. (k + (p - star - 1)) + 1 = k + (p' - star - 1)
          BY <1>1, <2>1, <5>1
        <5>3. (k + (p - star - 1)) + 1 \in R0[p']
          BY <1>6, <2>3, <3>2
        <5>. QED
          BY <5>2, <5>3
      <4>2. star < p' /\ resume \in 1..t' /\ t' = resume + (p' - star - 1)
        BY <1>1, <1>6, <2>1, <3>2
      <4>. QED
        BY <1>3, <1>6, <2>1, <2>2, <3>2, <4>1, <4>2 DEF LoopInv
    <3>. QED
      BY <3>1, <3>2
  <2>. QED
    BY <1>3, <2>1, <2>4, <2>5 DEF MatchInv, G!Correct
<1>10. ASSUME G!Backtrack \/ G!Mismatch
       PROVE  t \in 1..n /\ t \notin R0[p]
  <2>1. t \in 1..n /\ (p \in 1..m => pattern[p] # "*" /\ pattern[p] \notin {"?", text[t]})
    BY <1>1, <1>2, <1>10 DEF G!Backtrack, G!Mismatch, G!Running, G!IsStar, G!IsLiteral, G!AtPattern, m, n
  <2>2. CASE p \in 1..m
    BY <1>4, <2>1, <2>2
  <2>3. CASE p = m + 1
    BY <1>1, <1>4, <2>1, <2>3
  <2>. QED
    BY <1>1, <1>2, <2>1, <2>2, <2>3
<1>11. CASE G!Backtrack
  <2>1. /\ star # 0 /\ p' = star + 1 /\ t' = resume + 1 /\ resume' = resume + 1
        /\ star' = star /\ result' = result
    BY <1>11 DEF G!Backtrack, G!Resume
  <2>2. star \in 1..m /\ resume \in 1..n
    BY <1>1, <1>2, <1>6, <1>10, <1>11, <2>1
  <2>3. resume \notin R0[star + 1]
    BY <1>6, <1>10, <1>11, <2>1
  <2>4. resume \in R0[star] <=> resume + 1 \in R0[star]
    <3>1. R0[star] = {k \in 1..(n + 1) : \E l \in R0[star + 1] : k <= l}
      BY <1>4, <1>6, <2>1, <2>2
    <3>2. \A l \in R0[star + 1] : l \in Nat /\ l # resume
      BY <1>1, <1>5, <2>2, <2>3
    <3>3. \A l \in R0[star + 1] : resume <= l <=> resume + 1 <= l
      BY <1>1, <3>2
    <3>4. resume \in 1..(n + 1) /\ resume + 1 \in 1..(n + 1)
      BY <1>1, <2>2
    <3>. QED
      BY <3>1, <3>3, <3>4
  <2>5. G!TypeOK'
    BY <1>1, <1>2, <1>3, <2>1, <2>2 DEF G!TypeOK, m, n
  <2>6. LoopInv'
    <3>1. p' - star' - 1 = 0 /\ star' # 0 /\ star' < p'
      BY <1>1, <2>1
    <3>2. \A k \in R0[star + 1] : k + 0 \in R0[p']
      BY <1>1, <1>5, <2>1, <2>2
    <3>3. resume' \in 1..t' /\ t' = resume' + 0
      BY <1>1, <2>1
    <3>. QED
      BY <1>3, <1>6, <2>1, <2>4, <3>1, <3>2, <3>3 DEF LoopInv
  <2>. QED
    BY <1>3, <2>1, <2>5, <2>6 DEF MatchInv, G!Correct
<1>12. CASE G!Mismatch
  <2>1. star = 0 /\ result' = "no" /\ UNCHANGED <<p, t, star, resume>>
    BY <1>12 DEF G!Mismatch
  <2>2. ~G!Matches(pattern, text)
    BY <1>6, <1>7, <1>10, <1>12, <2>1
  <2>3. ~G!Matches(pattern, text)'
    BY <1>3, <2>2 DEF G!Matches
  <2>. QED
    BY <1>2, <1>3, <2>1, <2>3 DEF MatchInv, LoopInv, G!TypeOK, G!Correct, m, n
<1>13. CASE G!Finish
  <2>1. t = n + 1 /\ result' \in {"yes", "no"} /\ (result' = "yes" <=> G!Trailing) /\ UNCHANGED <<p, t, star, resume>>
    BY <1>13 DEF G!Finish, n
  <2>2. G!Trailing <=> t \in R0[p]
    BY <1>1, <1>2, <2>1, OnlyStars DEF G!Trailing, m, n
  <2>3. t \in R0[p] <=> 1 \in R0[1]
    <3>1. CASE star # 0
      <4>1. star \in 1..m /\ resume \in 1..(n + 1) /\ star + 1 \in 1..(m + 1)
        BY <1>1, <1>2, <1>6, <3>1
      <4>2. R0[star] = {k \in 1..(n + 1) : \E l \in R0[star + 1] : k <= l}
        BY <1>4, <1>6, <3>1, <4>1
      <4>3. ASSUME NEW l \in R0[star + 1], resume <= l
            PROVE  t \in R0[p]
        <5>1. l \in Nat /\ l + (p - star - 1) \in R0[p]
          BY <1>1, <1>5, <1>6, <3>1, <4>1
        <5>2. l + (p - star - 1) \in 1..(n + 1)
          BY <1>2, <1>5, <5>1
        <5>3. l + (p - star - 1) = t
          BY <1>1, <1>6, <2>1, <3>1, <4>3, <5>1, <5>2
        <5>. QED
          BY <5>1, <5>3
      <4>4. t \in R0[p] => resume \in R0[star]
        <5>1. resume <= resume
          BY <1>1
        <5>. QED
          BY <1>6, <3>1, <4>1, <4>2, <5>1
      <4>. QED
        BY <1>6, <3>1, <4>2, <4>3, <4>4
    <3>. QED
      BY <1>6, <3>1
  <2>4. result' = "yes" <=> G!Matches(pattern, text)
    BY <1>7, <2>1, <2>2, <2>3
  <2>5. G!Matches(pattern, text)' <=> G!Matches(pattern, text)
    BY <1>3 DEF G!Matches
  <2>6. G!Correct'
    BY <2>4, <2>5 DEF G!Correct
  <2>7. result' # "running"
    BY <2>1
  <2>. QED
    BY <1>2, <1>3, <2>1, <2>6, <2>7 DEF MatchInv, LoopInv, G!TypeOK, m, n
<1>. QED
  BY <1>8, <1>9, <1>11, <1>12, <1>13 DEF G!Next

(* The loop keeps its invariant, whatever else is asked of the library.    *)
LEMMA MatchAlways == SearchSpec => [](asked = "match" => MatchInv)
<1>1. SearchInit => (asked = "match" => MatchInv)
  <2> SUFFICES ASSUME G!Init
               PROVE  MatchInv
    BY DEF SearchInit
  <2>1. /\ pattern \in G!Pattern /\ text \in G!Text
        /\ p = 1 /\ t = 1 /\ star = 0 /\ resume = 0 /\ result = "running"
    BY DEF G!Init
  <2>3. Len(pattern) \in Nat /\ Len(text) \in Nat
    BY <2>1, Lengths
  <2>4. G!TypeOK
    BY <2>1, <2>3 DEF G!TypeOK
  <2>. QED
    BY <2>1, <2>4 DEF MatchInv, LoopInv, G!Correct
<1>2. (asked = "match" => MatchInv) /\ [SearchNext]_searchVars => (asked = "match" => MatchInv)'
  <2> SUFFICES ASSUME asked = "match" => MatchInv, [SearchNext]_searchVars, asked' = "match"
               PROVE  MatchInv'
    OBVIOUS
  <2>1. asked = "match" /\ MatchInv
    BY DEF SearchNext, UseDictionary, GlobMatch, ReadText, CallRedFS, searchVars
  <2>2. CASE GlobMatch
    BY <2>1, <2>2, Turning DEF GlobMatch
  <2>3. CASE UNCHANGED searchVars
    <3>1. UNCHANGED <<pattern, text, p, t, star, resume, result>>
      BY <2>3 DEF searchVars, globVars
    <3>. QED
      BY <2>1, <3>1 DEF MatchInv, LoopInv, R0, G!TypeOK, G!Correct, G!Matches
  <2>. QED
    BY <2>1, <2>2, <2>3 DEF SearchNext, UseDictionary, ReadText, CallRedFS
<1>. QED
  BY <1>1, <1>2, PTL DEF SearchSpec

(* However the wildcards of a pattern lie, and whatever the text holds, a  *)
(* '*' included, the loop of glob_match that keeps only the last star      *)
(* answers as the pattern's meaning says (paths.cpp).                      *)
THEOREM LastStarSuffices == SearchSpec => []GlobCorrect
<1>1. (asked = "match" => MatchInv) => GlobCorrect
  BY DEF MatchInv, GlobCorrect
<1>. QED
  BY <1>1, MatchAlways, PTL

-----------------------------------------------------------------------------
(* The locks: what every call does to those its thread holds.              *)

Steps == [do : {"lock", "unlock", "sink", "callback"}, on : L!Mutexes \cup {"nobody"}]

(* A lock is taken with none held, or the dictionary's under the path      *)
(* cache's; a callback is called with none held.                           *)
Allowed(H, m) == H = {} \/ (H = {"path cache"} /\ m = "dictionary")
Moves(H, x, K) ==
    /\ x \in Steps
    /\ \/ x.do = "lock" /\ x.on \in L!Mutexes /\ Allowed(H, x.on) /\ K = H \cup {x.on}
       \/ x.do = "unlock" /\ x.on \in H /\ K = H \ {x.on}
       \/ x.do = "sink" /\ K = H
       \/ x.do = "callback" /\ H = {} /\ K = {}

(* A thread that holds H and does the steps s holds K behind the last.     *)
Stages(h, H, s, K) ==
    /\ DOMAIN h = 1..(Len(s) + 1) /\ h[1] = H /\ h[Len(s) + 1] = K
    /\ \A n \in 1..Len(s) : Moves(h[n], s[n], h[n + 1])
Leads(H, s, K) == s \in Seq(Steps) /\ \E h : Stages(h, H, s, K)

(* No step leaves the locks as they are.                                  *)
LEMMA NoStep == \A H : Leads(H, <<>>, H)
<1> SUFFICES ASSUME NEW H
             PROVE  Leads(H, <<>>, H)
  OBVIOUS
<1>1. Stages([n \in 1..1 |-> H], H, <<>>, H)
  BY DEF Stages
<1>. QED
  BY <1>1 DEF Leads

(* One step, alone.                                                        *)
LEMMA OneStep ==
    ASSUME NEW H, NEW x, NEW K, Moves(H, x, K)
    PROVE  Leads(H, <<x>>, K)
<1> DEFINE h == [n \in 1..2 |-> IF n = 1 THEN H ELSE K]
<1>1. <<x>> \in Seq(Steps) /\ Len(<<x>>) = 1 /\ <<x>>[1] = x
  BY DEF Moves
<1>2. h[1] = H /\ h[2] = K /\ DOMAIN h = 1..2
  OBVIOUS
<1> HIDE DEF h
<1>3. Stages(h, H, <<x>>, K)
  BY <1>1, <1>2 DEF Stages
<1>. QED
  BY <1>1, <1>3 DEF Leads

(* One sequence of steps behind another.                                   *)
LEMMA Joining ==
    ASSUME NEW H, NEW I, NEW K, NEW a, NEW b, Leads(H, a, I), Leads(I, b, K)
    PROVE  Leads(H, a \o b, K)
<1>1. PICK f : Stages(f, H, a, I)
  BY DEF Leads
<1>2. PICK g : Stages(g, I, b, K)
  BY DEF Leads
<1> DEFINE l == Len(a)
           m == Len(b)
           s == a \o b
           h == [n \in 1..(l + m + 1) |-> IF n <= l THEN f[n] ELSE g[n - l]]
<1>3. /\ a \in Seq(Steps) /\ b \in Seq(Steps) /\ l \in Nat /\ m \in Nat
  BY DEF Leads
<1>4. /\ s \in Seq(Steps) /\ Len(s) = l + m
      /\ \A n \in 1..l : s[n] = a[n]
      /\ \A n \in (l + 1)..(l + m) : s[n] = b[n - l]
  BY <1>3
<1>5. /\ DOMAIN h = 1..(l + m + 1)
      /\ \A n \in 1..l : h[n] = f[n]
      /\ \A n \in (l + 1)..(l + m + 1) : h[n] = g[n - l]
  BY <1>3
<1>6. f[l + 1] = I /\ g[1] = I /\ f[1] = H /\ g[m + 1] = K
  BY <1>1, <1>2 DEF Stages
<1>7. h[l + 1] = I
  <2>1. l + 1 \in (l + 1)..(l + m + 1) /\ (l + 1) - l = 1
    BY <1>3
  <2>. QED
    BY <1>5, <1>6, <2>1
<1>8. \A n \in 1..l : Moves(f[n], a[n], f[n + 1])
  BY <1>1 DEF Stages
<1>9. \A n \in 1..m : Moves(g[n], b[n], g[n + 1])
  BY <1>2 DEF Stages
<1> HIDE DEF s, h, l, m
<1>10. ASSUME NEW n \in 1..(l + m)
       PROVE  Moves(h[n], s[n], h[n + 1])
  <2>1. CASE n \in 1..l /\ n + 1 \in 1..l
    BY <1>4, <1>5, <1>8, <2>1
  <2>2. CASE n = l
    <3>1. n \in 1..l
      BY <1>3, <2>2
    <3>. QED
      BY <1>4, <1>5, <1>6, <1>7, <1>8, <2>2, <3>1
  <2>3. CASE n \in (l + 1)..(l + m)
    <3>1. n - l \in 1..m /\ n + 1 \in (l + 1)..(l + m + 1) /\ n \in (l + 1)..(l + m + 1) /\ (n + 1) - l = (n - l) + 1
      BY <1>3, <2>3
    <3>. QED
      BY <1>4, <1>5, <1>9, <2>3, <3>1
  <2>. QED
    BY <1>3, <2>1, <2>2, <2>3
<1>11. h[1] = H
  <2>1. CASE l = 0
    BY <1>6, <1>7, <2>1
  <2>2. CASE l # 0
    <3>1. 1 \in 1..l
      BY <1>3, <2>2
    <3>. QED
      BY <1>5, <1>6, <3>1
  <2>. QED
    BY <2>1, <2>2
<1>12. h[l + m + 1] = K
  <2>1. l + m + 1 \in (l + 1)..(l + m + 1) /\ (l + m + 1) - l = m + 1
    BY <1>3
  <2>. QED
    BY <1>5, <1>6, <2>1
<1>13. Stages(h, H, s, K)
  BY <1>4, <1>5, <1>10, <1>11, <1>12 DEF Stages
<1>. QED
  BY <1>4, <1>13 DEF s, Leads

(* The first step, and the others.                                         *)
LEMMA Stepping ==
    ASSUME NEW H, NEW s, NEW K, Leads(H, s, K), s # <<>>
    PROVE  \E I : Moves(H, Head(s), I) /\ Leads(I, Tail(s), K)
<1>1. PICK h : Stages(h, H, s, K)
  BY DEF Leads
<1> DEFINE l == Len(s)
           g == [n \in 1..l |-> h[n + 1]]
<1>2. /\ s \in Seq(Steps) /\ l \in Nat /\ l # 0 /\ Head(s) = s[1]
      /\ Tail(s) \in Seq(Steps) /\ Len(Tail(s)) = l - 1 /\ \A n \in 1..(l - 1) : Tail(s)[n] = s[n + 1]
  BY DEF Leads
<1>3. Moves(H, Head(s), h[2])
  <2>1. 1 \in 1..l /\ 1 + 1 = 2
    BY <1>2
  <2>. QED
    BY <1>1, <1>2, <2>1 DEF Stages
<1>4. Stages(g, h[2], Tail(s), K)
  <2>1. DOMAIN g = 1..(Len(Tail(s)) + 1)
    BY <1>2
  <2>2. g[1] = h[2] /\ g[Len(Tail(s)) + 1] = K
    <3>1. 1 \in 1..l /\ (l - 1) + 1 = l /\ l \in 1..l
      BY <1>2
    <3>2. h[l + 1] = K
      BY <1>1 DEF Stages
    <3>. QED
      BY <1>2, <3>1, <3>2
  <2>3. ASSUME NEW n \in 1..(l - 1)
        PROVE  Moves(g[n], Tail(s)[n], g[n + 1])
    <3>1. n + 1 \in 1..l /\ n \in 1..l
      BY <1>2
    <3>2. Moves(h[n + 1], s[n + 1], h[(n + 1) + 1])
      BY <1>1, <3>1 DEF Stages
    <3>. QED
      BY <1>2, <3>1, <3>2
  <2> HIDE DEF g
  <2>. QED
    BY <1>2, <2>1, <2>2, <2>3 DEF Stages
<1>. QED
  BY <1>2, <1>3, <1>4 DEF Leads

(* What may happen in one scope.                                           *)
All(H, X, K) == \A s \in X : Leads(H, s, K)

(* One part of a call behind another.                                      *)
LEMMA Following ==
    ASSUME NEW H, NEW I, NEW K, NEW X, NEW Y, All(H, X, I), All(I, Y, K)
    PROVE  All(H, L!Then(X, Y), K)
<1>1. \A a \in X, b \in Y : Leads(H, a \o b, K)
  BY Joining DEF All
<1>2. \A s \in {a \o b : a \in X, b \in Y} : \E a \in X, b \in Y : s = a \o b
  OBVIOUS
<1>3. L!Then(X, Y) = {a \o b : a \in X, b \in Y}
  BY DEF L!Then
<1>4. ASSUME NEW s \in {a \o b : a \in X, b \in Y}
      PROVE  Leads(H, s, K)
  <2>1. PICK a \in X, b \in Y : s = a \o b
    BY <1>2
  <2>2. Leads(H, a \o b, K)
    BY <1>1
  <2>3. s = a \o b /\ \A u, v : u = v /\ Leads(H, v, K) => Leads(H, u, K)
    BY <2>1
  <2>. QED
    BY <2>2, <2>3
<1>. QED
  BY <1>3, <1>4 DEF All

(* A scope of a lock: what is inside leaves the locks as the scope took    *)
(* them, and the scope leaves them as it found them.                       *)
LEMMA Guarding ==
    ASSUME NEW H, NEW m \in L!Mutexes, Allowed(H, m), m \notin H, NEW X, All(H \cup {m}, X, H \cup {m})
    PROVE  All(H, L!Locked(m, X), H)
<1> DEFINE K == H \cup {m}
<1>1. Moves(H, L!Lock(m), K)
  BY DEF Moves, Steps, L!Lock
<1>2. Moves(K, L!Unlock(m), H)
  <2>1. K \ {m} = H
    OBVIOUS
  <2>. QED
    BY <2>1 DEF Moves, Steps, L!Unlock
<1>3. All(H, {<<L!Lock(m)>>}, K) /\ All(K, {<<L!Unlock(m)>>}, H)
  BY <1>1, <1>2, OneStep DEF All
<1>4. All(H, L!Then({<<L!Lock(m)>>}, X), K)
  BY <1>3, Following
<1>5. All(H, L!Then(L!Then({<<L!Lock(m)>>}, X), {<<L!Unlock(m)>>}), H)
  BY <1>3, <1>4, Following
<1>. QED
  BY <1>5 DEF L!Locked

(* What leaves the locks as they were, from its parts.                     *)
Balanced(H, X) == All(H, X, H)

(* Nothing, a report and a callback do not touch a lock; nor does what is  *)
(* composed of parts that do not, by choice or in order.                   *)
LEMMA Composing ==
    /\ \A H : Balanced(H, L!Nothing) /\ Balanced(H, L!Said)
    /\ Balanced({}, L!Called)
    /\ \A H, X, Y : Balanced(H, X) /\ Balanced(H, Y) => Balanced(H, X \cup Y) /\ Balanced(H, L!Then(X, Y))
<1>1. \A H : All(H, L!Nothing, H)
  BY NoStep DEF L!Nothing, All
<1>2. \A H : All(H, L!Said, H)
  <2> SUFFICES ASSUME NEW H
               PROVE  All(H, L!Said, H)
    OBVIOUS
  <2>1. Moves(H, L!Sink, H)
    BY DEF Moves, Steps, L!Sink
  <2>2. Leads(H, <<L!Sink>>, H)
    BY <2>1, OneStep
  <2>. QED
    BY <2>2, NoStep DEF All, L!Said
<1>3. All({}, L!Called, {})
  <2>1. Moves({}, L!Callback, {})
    BY DEF Moves, Steps, L!Callback
  <2>2. Leads({}, <<L!Callback>>, {})
    BY <2>1, OneStep
  <2>. QED
    BY <2>2, NoStep DEF All, L!Called
<1>4. \A H, X, Y : Balanced(H, X) /\ Balanced(H, Y) => Balanced(H, L!Then(X, Y))
  BY Following DEF Balanced
<1>5. \A H, X, Y : Balanced(H, X) /\ Balanced(H, Y) => Balanced(H, X \cup Y)
  BY DEF Balanced, All
<1>. QED
  BY <1>1, <1>2, <1>3, <1>4, <1>5 DEF Balanced

(* A scope of any lock with none held, and the dictionary's under the path *)
(* cache's.                                                                *)
LEMMA Scoping ==
    /\ \A m \in L!Mutexes : \A X : Balanced({m}, X) => Balanced({}, L!Locked(m, X))
    /\ \A X : Balanced({"path cache", "dictionary"}, X) => Balanced({"path cache"}, L!Locked("dictionary", X))
<1>1. ASSUME NEW m \in L!Mutexes, NEW X, Balanced({m}, X)
      PROVE  Balanced({}, L!Locked(m, X))
  <2>1. Allowed({}, m) /\ m \notin {} /\ {} \cup {m} = {m}
    BY DEF Allowed
  <2>. QED
    BY <1>1, <2>1, Guarding DEF Balanced
<1>2. ASSUME NEW X, Balanced({"path cache", "dictionary"}, X)
      PROVE  Balanced({"path cache"}, L!Locked("dictionary", X))
  <2>1. /\ Allowed({"path cache"}, "dictionary") /\ "dictionary" \notin {"path cache"}
        /\ {"path cache"} \cup {"dictionary"} = {"path cache", "dictionary"}
        /\ "dictionary" \in L!Mutexes
    BY DEF Allowed, L!Mutexes
  <2>. QED
    BY <1>2, <2>1, Guarding DEF Balanced
<1>. QED
  BY <1>1, <1>2

(* Every call of RedFS takes its locks in order, gives back what it takes  *)
(* and holds none when it runs a callback.                                 *)
LEMMA Obedient == Balanced({}, L!Calls)
<1> USE Composing
<1>1. \A m \in L!Mutexes : Balanced({}, L!Locked(m, L!Nothing)) /\ Balanced({}, L!Locked(m, L!Said))
  BY Scoping
<1>2. {"worker", "dictionary", "path cache", "mesh cache", "load", "pool"} = L!Mutexes
  BY DEF L!Mutexes
<1>3. \A m \in {"worker", "dictionary", "path cache", "mesh cache", "load", "pool"} :
         Balanced({}, L!Locked(m, L!Nothing)) /\ Balanced({}, L!Locked(m, L!Said))
  BY <1>1, <1>2
<1>4. Balanced({"path cache"}, L!Locked("dictionary", L!Nothing))
  BY Scoping
<1>5. \A X : Balanced({"path cache"}, X) => Balanced({}, L!Locked("path cache", X))
  BY <1>2, Scoping
<1>6. /\ Balanced({}, L!PathAdd) /\ Balanced({}, L!LearnImports) /\ Balanced({}, L!FromHash)
      /\ Balanced({}, L!Find)
  BY <1>3 DEF L!PathAdd, L!LearnImports, L!FromHash, L!Find, L!AddLocked
<1>7. Balanced({}, L!Flush)
  BY <1>4, <1>5 DEF L!Flush
<1>8. Balanced({}, L!PathCacheOpen)
  <2>1. Balanced({"path cache"}, L!Then(L!Locked("dictionary", L!Nothing), L!LoadFromDisk))
    BY <1>4 DEF L!LoadFromDisk
  <2>. QED
    BY <1>5, <1>7, <2>1 DEF L!PathCacheOpen
<1>9. Balanced({}, L!PathCacheClose) /\ Balanced({}, L!Pending) /\ Balanced({}, L!Mark)
  BY <1>3, <1>7 DEF L!PathCacheClose, L!Pending, L!Mark
<1>10. /\ Balanced({}, L!CacheOpen) /\ Balanced({}, L!CacheFlush) /\ Balanced({}, L!CacheClose)
       /\ Balanced({}, L!CacheInvalidate)
  BY <1>3 DEF L!CacheOpen, L!CacheFlush, L!CacheClose, L!CacheInvalidate
<1>11. Balanced({}, L!Decode)
  BY <1>3 DEF L!Decode
<1>12. Balanced({}, L!ReadPart) /\ Balanced({}, L!PathLoad)
  BY <1>3, <1>11 DEF L!ReadPart, L!PathLoad, L!AddLocked
<1>13. Balanced({}, L!DepotOpen) /\ Balanced({}, L!FreeScratch)
  BY <1>3 DEF L!OodleLoad, L!DepotOpen, L!FreeScratch
<1>14. Balanced({}, L!MeshBuild)
  BY <1>6, <1>12 DEF L!MeshBuild
<1>15. Balanced({}, L!MeshAcquire)
  BY <1>3, <1>14 DEF L!MeshAcquire
<1>16. Balanced({}, L!Post) /\ Balanced({}, L!Run) /\ Balanced({}, L!Stop) /\ Balanced({}, L!CancelFor)
  BY <1>3, <1>12 DEF L!Post, L!Run, L!Stop, L!CancelFor
<1>17. Balanced({}, L!Shutdown)
  BY <1>9, <1>10, <1>13, <1>16 DEF L!Shutdown
<1>. QED
  <2> USE <1>6, <1>7, <1>8, <1>9, <1>10, <1>12, <1>13, <1>14, <1>15, <1>16, <1>17
  <2>. QED
    BY DEF L!Calls, Balanced, All

-----------------------------------------------------------------------------
(* The locks: who waits for whom.                                          *)

(* What a thread still has to do takes it, step by step, from the locks it *)
(* holds to none.                                                          *)
LocksInv ==
    /\ owner \in [L!Mutexes -> HostThreads \cup {"nobody"}]
    /\ DOMAIN todo = HostThreads
    /\ \A h \in HostThreads : Leads(L!Holds(h), todo[h], {})

(* A thread in the middle of its steps.                                    *)
LEMMA NextStep ==
    ASSUME LocksInv, NEW h \in HostThreads, todo[h] # <<>>
    PROVE  \E I : Moves(L!Holds(h), L!Step(h), I) /\ Leads(I, Tail(todo[h]), {})
BY Stepping DEF LocksInv, L!Step

(* A thread moves on; the locks of the others stay theirs.                 *)
LEMMA MovingOn ==
    ASSUME LocksInv, NEW h \in HostThreads, NEW s,
           owner' \in [L!Mutexes -> HostThreads \cup {"nobody"}],
           todo' = [todo EXCEPT ![h] = s],
           Leads(L!Holds(h)', s, {}),
           \A u \in HostThreads : u # h => L!Holds(u)' = L!Holds(u)
    PROVE  LocksInv'
<1>1. DOMAIN todo' = HostThreads /\ todo'[h] = s /\ \A u \in HostThreads : u # h => todo'[u] = todo[u]
  BY DEF LocksInv
<1>2. ASSUME NEW u \in HostThreads
      PROVE  Leads(L!Holds(u)', todo'[u], {})
  BY <1>1 DEF LocksInv
<1>. QED
  BY <1>1, <1>2 DEF LocksInv

(* Every step of every thread keeps the invariant.                         *)
LEMMA LockStep ==
    ASSUME LocksInv, L!Next
    PROVE  LocksInv'
<1> PICK h \in HostThreads :
      L!Call(h) \/ L!Acquire(h) \/ L!Release(h) \/ L!HostReturns(h) \/ L!HostCallsBack(h)
  BY DEF L!Next
<1>0. \A s \in L!Calls : Leads({}, s, {})
  BY Obedient DEF Balanced, All
<1>1. owner' = owner => \A u : L!Holds(u)' = L!Holds(u)
  BY DEF L!Holds
<1>2. h # "nobody"
  BY LocksAssumption
<1>3. CASE L!Call(h)
  <2>1. PICK s \in L!Calls : todo' = [todo EXCEPT ![h] = s]
    BY <1>3 DEF L!Call
  <2>2. owner' = owner /\ todo[h] = <<>>
    BY <1>3 DEF L!Call
  <2>3. L!Holds(h) = {}
    <3>1. PICK f : Stages(f, L!Holds(h), <<>>, {})
      BY <2>2 DEF LocksInv, Leads
    <3>. QED
      BY <3>1 DEF Stages
  <2>4. L!Holds(h)' = {}
    BY <1>1, <2>2, <2>3
  <2>5. Leads(L!Holds(h)', s, {})
    BY <1>0, <2>4
  <2>6. owner' \in [L!Mutexes -> HostThreads \cup {"nobody"}]
    BY <2>2 DEF LocksInv
  <2>. QED
    BY <1>1, <2>1, <2>2, <2>5, <2>6, MovingOn
<1>4. CASE L!Acquire(h)
  <2> DEFINE m == L!Step(h).on
  <2>1. /\ todo[h] # <<>> /\ L!Step(h).do = "lock" /\ owner[m] = "nobody"
        /\ owner' = [owner EXCEPT ![m] = h] /\ todo' = [todo EXCEPT ![h] = Tail(todo[h])]
    BY <1>4 DEF L!Acquire, L!At, L!Advance
  <2>2. PICK I : Moves(L!Holds(h), L!Step(h), I) /\ Leads(I, Tail(todo[h]), {})
    BY <2>1, NextStep
  <2>3. m \in L!Mutexes /\ I = L!Holds(h) \cup {m}
    BY <2>1, <2>2 DEF Moves
  <2>4. owner' \in [L!Mutexes -> HostThreads \cup {"nobody"}]
    BY <2>1, <2>3 DEF LocksInv
  <2>5. \A k \in L!Mutexes : owner'[k] = IF k = m THEN h ELSE owner[k]
    BY <2>1, <2>3 DEF LocksInv
  <2> HIDE DEF m
  <2>6. L!Holds(h)' = I
    BY <2>3, <2>5 DEF L!Holds
  <2>7. \A u \in HostThreads : u # h => L!Holds(u)' = L!Holds(u)
    <3> SUFFICES ASSUME NEW u \in HostThreads, u # h
                 PROVE  L!Holds(u)' = L!Holds(u)
      OBVIOUS
    <3>1. u # "nobody"
      BY LocksAssumption
    <3>. QED
      BY <2>1, <2>5, <3>1 DEF L!Holds
  <2>. QED
    BY <2>1, <2>2, <2>4, <2>6, <2>7, MovingOn
<1>5. CASE L!Release(h)
  <2> DEFINE m == L!Step(h).on
  <2>1. /\ todo[h] # <<>> /\ L!Step(h).do = "unlock"
        /\ owner' = [owner EXCEPT ![m] = "nobody"] /\ todo' = [todo EXCEPT ![h] = Tail(todo[h])]
    BY <1>5 DEF L!Release, L!At, L!Advance
  <2>2. PICK I : Moves(L!Holds(h), L!Step(h), I) /\ Leads(I, Tail(todo[h]), {})
    BY <2>1, NextStep
  <2>3. m \in L!Holds(h) /\ I = L!Holds(h) \ {m}
    BY <2>1, <2>2 DEF Moves
  <2>4. m \in L!Mutexes /\ owner[m] = h
    BY <2>3 DEF L!Holds
  <2>5. owner' \in [L!Mutexes -> HostThreads \cup {"nobody"}]
    BY <2>1, <2>4 DEF LocksInv
  <2>6. \A k \in L!Mutexes : owner'[k] = IF k = m THEN "nobody" ELSE owner[k]
    BY <2>1, <2>4 DEF LocksInv
  <2> HIDE DEF m
  <2>7. L!Holds(h)' = I
    BY <1>2, <2>3, <2>6 DEF L!Holds
  <2>8. \A u \in HostThreads : u # h => L!Holds(u)' = L!Holds(u)
    <3> SUFFICES ASSUME NEW u \in HostThreads, u # h
                 PROVE  L!Holds(u)' = L!Holds(u)
      OBVIOUS
    <3>1. u # "nobody"
      BY LocksAssumption
    <3>. QED
      BY <2>4, <2>6, <3>1 DEF L!Holds
  <2>. QED
    BY <2>1, <2>2, <2>5, <2>7, <2>8, MovingOn
<1>6. CASE L!HostReturns(h)
  <2>1. /\ todo[h] # <<>> /\ L!Step(h).do \in {"sink", "callback"}
        /\ owner' = owner /\ todo' = [todo EXCEPT ![h] = Tail(todo[h])]
    BY <1>6 DEF L!HostReturns, L!At, L!Advance
  <2>2. PICK I : Moves(L!Holds(h), L!Step(h), I) /\ Leads(I, Tail(todo[h]), {})
    BY <2>1, NextStep
  <2>3. I = L!Holds(h)'
    BY <1>1, <2>1, <2>2 DEF Moves
  <2>4. owner' \in [L!Mutexes -> HostThreads \cup {"nobody"}]
    BY <2>1 DEF LocksInv
  <2>. QED
    BY <1>1, <2>1, <2>2, <2>3, <2>4, MovingOn
<1>7. CASE L!HostCallsBack(h)
  <2>0. PICK s \in L!Calls : todo' = [todo EXCEPT ![h] = s \o Tail(todo[h])]
    BY <1>7 DEF L!HostCallsBack
  <2> PICK q : q = s \o Tail(todo[h])
    OBVIOUS
  <2>1. todo' = [todo EXCEPT ![h] = q]
    BY <2>0
  <2>2. /\ todo[h] # <<>> /\ owner' = owner
        /\ L!Step(h).do = "callback" \/ (L!Step(h).do = "sink" /\ L!Holds(h) = {})
    BY <1>7 DEF L!HostCallsBack, L!At
  <2>3. PICK I : Moves(L!Holds(h), L!Step(h), I) /\ Leads(I, Tail(todo[h]), {})
    BY <2>2, NextStep
  <2>4. I = {} /\ L!Holds(h)' = {}
    BY <1>1, <2>2, <2>3 DEF Moves
  <2>5. Leads(L!Holds(h)', q, {})
    <3>1. Leads({}, s, {}) /\ Leads({}, Tail(todo[h]), {})
      BY <1>0, <2>3, <2>4
    <3>2. Leads({}, s \o Tail(todo[h]), {})
      BY <3>1, Joining
    <3>. QED
      BY <2>4, <3>2
  <2>6. owner' \in [L!Mutexes -> HostThreads \cup {"nobody"}]
    BY <2>2 DEF LocksInv
  <2>7. \A u \in HostThreads : u # h => L!Holds(u)' = L!Holds(u)
    BY <1>1, <2>2
  <2>. QED
    BY <2>1, <2>5, <2>6, <2>7, MovingOn
<1>. QED
  BY <1>3, <1>4, <1>5, <1>6, <1>7

(* The invariant holds for as long as the locks are what is asked about.   *)
LEMMA LocksAlways == SearchSpec => [](asked = "locks" => LocksInv)
<1>1. SearchInit => (asked = "locks" => LocksInv)
  <2> SUFFICES ASSUME L!Init
               PROVE  LocksInv
    BY DEF SearchInit
  <2>1. owner = [m \in L!Mutexes |-> "nobody"] /\ todo = [h \in HostThreads |-> <<>>]
    BY DEF L!Init
  <2>2. ASSUME NEW h \in HostThreads
        PROVE  L!Holds(h) = {} /\ todo[h] = <<>>
    BY <2>1, LocksAssumption DEF L!Holds
  <2>3. \A h \in HostThreads : Leads(L!Holds(h), todo[h], {})
    BY <2>2, NoStep
  <2>. QED
    BY <2>1, <2>3 DEF LocksInv
<1>2. (asked = "locks" => LocksInv) /\ [SearchNext]_searchVars => (asked = "locks" => LocksInv)'
  <2> SUFFICES ASSUME asked = "locks" => LocksInv, [SearchNext]_searchVars, asked' = "locks"
               PROVE  LocksInv'
    OBVIOUS
  <2>1. asked = "locks" /\ LocksInv
    BY DEF SearchNext, UseDictionary, GlobMatch, ReadText, CallRedFS, searchVars
  <2>2. CASE CallRedFS
    BY <2>1, <2>2, LockStep DEF CallRedFS
  <2>3. CASE UNCHANGED <<owner, todo>>
    BY <2>1, <2>3 DEF LocksInv, L!Holds
  <2>. QED
    BY <2>1, <2>2, <2>3 DEF SearchNext, UseDictionary, GlobMatch, ReadText, searchVars, lockVars
<1>. QED
  BY <1>1, <1>2, PTL DEF SearchSpec

(* However many threads call RedFS, and call it again from the callbacks   *)
(* and from a sink that is called without a lock, none waits for itself or *)
(* in a circle: the order is path cache, then dictionary, and no other two *)
(* locks are ever held together.                                           *)
THEOREM NoCircle == SearchSpec => []NeverStuck
<1>1. LocksInv => L!NeverStuck
  <2> SUFFICES ASSUME LocksInv, NEW S \in (SUBSET HostThreads) \ {{}},
                      \A h \in S : \E u \in S : L!Waits(h, u)
               PROVE  FALSE
    BY DEF L!NeverStuck
  <2>1. ASSUME NEW h \in S
        PROVE  \E u \in S, m \in L!Mutexes : m = L!Step(h).on /\ m \in L!Holds(u) /\ Allowed(L!Holds(h), m)
    <3>1. PICK u \in S : L!Waits(h, u)
      OBVIOUS
    <3>2. todo[h] # <<>> /\ L!Step(h).do = "lock" /\ owner[L!Step(h).on] = u
      BY <3>1 DEF L!Waits, L!At
    <3>3. PICK I : Moves(L!Holds(h), L!Step(h), I)
      BY <3>2, NextStep
    <3>4. L!Step(h).on \in L!Mutexes /\ Allowed(L!Holds(h), L!Step(h).on)
      BY <3>2, <3>3 DEF Moves
    <3>. QED
      BY <3>2, <3>4 DEF L!Holds
  <2>2. \A h \in S : \A m : Allowed(L!Holds(h), m) /\ L!Holds(h) # {}
             => L!Holds(h) = {"path cache"} /\ m = "dictionary"
    BY DEF Allowed
  <2>3. PICK h : h \in S
    OBVIOUS
  <2>4. PICK u \in S : L!Holds(u) # {}
    BY <2>1, <2>3
  <2>5. PICK v \in S : "dictionary" \in L!Holds(v)
    BY <2>1, <2>2, <2>4
  <2>6. L!Holds(v) = {"path cache"}
    BY <2>1, <2>2, <2>5
  <2>. QED
    BY <2>5, <2>6
<1>2. (asked = "locks" => LocksInv) => NeverStuck
  BY <1>1 DEF NeverStuck
<1>. QED
  BY <1>2, LocksAlways, PTL

-----------------------------------------------------------------------------
(* Texts and the names in them.                                            *)

(* Folding neither makes nor unmakes a character that means something, and *)
(* what is folded stays.                                                   *)
LEMMA Folding ==
    ASSUME NEW c
    PROVE  /\ P!Fold(P!Fold(c)) = P!Fold(c)
           /\ P!Fold(c) \in P!Separators <=> c \in P!Separators
           /\ P!Fold(c) \in P!Trimmed <=> c \in P!Trimmed
           /\ P!Fold(c) = "*" <=> c = "*"
<1> DEFINE Capitals == DOMAIN P!Lower
<1>1. CASE c \notin Capitals
  BY <1>1 DEF P!Fold
<1>2. ASSUME c \in Capitals
      PROVE  /\ P!Lower[c] \notin Capitals
             /\ P!Lower[c] \notin {"/", "\\", "'", "\"", " ", "\n", "\r", "*"}
             /\ c \notin {"/", "\\", "'", "\"", " ", "\n", "\r", "*"}
  <2>1. Capitals = {"A", "B", "C", "D", "E", "F", "G", "H", "I", "J", "K", "L", "M",
                    "N", "O", "P", "Q", "R", "S", "T", "U", "V", "W", "X", "Y", "Z"}
    BY DEF P!Lower
  <2>2. P!Lower[c] \in {"a", "b", "c", "d", "e", "f", "g", "h", "i", "j", "k", "l", "m",
                        "n", "o", "p", "q", "r", "s", "t", "u", "v", "w", "x", "y", "z"}
    BY <1>2 DEF P!Lower
  <2> HIDE DEF Capitals
  <2>3. c \notin {"/", "\\", "'", "\"", " ", "\n", "\r", "*"}
    BY <1>2, <2>1
  <2>. QED
    BY <2>1, <2>2, <2>3
<1>3. CASE c \in Capitals
  <2>1. P!Fold(c) = P!Lower[c]
    BY <1>3 DEF P!Fold
  <2>2. P!Lower[c] \notin Capitals => P!Fold(P!Lower[c]) = P!Lower[c]
    BY DEF P!Fold
  <2> HIDE DEF Capitals
  <2>. QED
    BY <1>2, <1>3, <2>1, <2>2 DEF P!Separators, P!Trimmed
<1>. QED
  BY <1>1, <1>3

(* The characters of sanitized texts over the characters C.                *)
Letters(C) == {P!Fold(c) : c \in C} \cup {"\\"}

(* The parts of Names.                                                     *)
Named(path, places) == {k \in places : path[k] \notin P!Separators}
Folded(path) == [k \in DOMAIN path |-> P!Fold(path[k])]
Word(path, places, k) == {j \in Named(path, places) : k <= j /\ (k..j) \subseteq Named(path, places)}
From(path, places) == [k \in DOMAIN path |-> Kept(Folded(path), Word(path, places, k))]
Starts(path, places) == {k \in Named(path, places) : k - 1 \notin Named(path, places)}

(* Names is made of them.                                                  *)
LEMMA NamesParts ==
    ASSUME NEW path, NEW places
    PROVE  P!Names(path, places) = Kept(From(path, places), Starts(path, places))
<1>1. \A s, K : P!Kept(s, K) = Kept(s, K)
  <2>1. \A x, S, R : P!Rank(x, S, R) = Rank(x, S, R)
    BY Zenon DEF P!Rank, Rank, P!Cardinality, Cardinality
  <2>2. \A n, S, R : P!Nth(n, S, R) = Nth(n, S, R)
    BY <2>1, Zenon DEF P!Nth, Nth
  <2>3. \A S, R : P!InOrder(S, R) = InOrder(S, R)
    BY <2>2, Zenon DEF P!InOrder, InOrder, P!Cardinality, Cardinality
  <2>4. \A K : P!Upwards(K) = Upwards(K)
    BY Zenon DEF P!Upwards, Upwards
  <2>. QED
    BY <2>3, <2>4, Zenon DEF P!Kept, Kept
<1>2. P!Names(path, places) = P!Kept([k \in DOMAIN path |-> P!Kept(Folded(path), Word(path, places, k))],
                                     Starts(path, places))
  BY Zenon DEF P!Names, Named, Folded, Word, Starts
<1>. QED
  BY <1>1, <1>2, Zenon DEF From

(* The words in a text are over the folded characters, and so are the      *)
(* names.                                                                  *)
LEMMA NamesType ==
    ASSUME NEW C, NEW path \in Seq(C), NEW places \in SUBSET DOMAIN path
    PROVE  /\ From(path, places) \in Seq(Seq(Letters(C))) /\ DOMAIN From(path, places) = DOMAIN path
           /\ P!Names(path, places) \in Seq(Seq(Letters(C)))
<1> DEFINE D == Letters(C)
           F == Folded(path)
           W(k) == Word(path, places, k)
           from == From(path, places)
<1>1. DOMAIN path = 1..Len(path) /\ Len(path) \in Nat /\ \A k \in DOMAIN path : P!Fold(path[k]) \in D
  BY DEF Letters
<1>2. F \in Seq(D) /\ DOMAIN F = DOMAIN path
  <2>1. F \in [1..Len(path) -> D]
    BY <1>1 DEF Folded
  <2>. QED
    BY <1>1, <2>1
<1> HIDE DEF D, F
<1>3. \A k : W(k) \in SUBSET DOMAIN F
  BY <1>2 DEF Word, Named
<1> HIDE DEF W
<1>4. \A k : Kept(F, W(k)) \in Seq(D)
  BY <1>2, <1>3, Keeping
<1>5. from \in [1..Len(path) -> Seq(D)]
  BY <1>1, <1>4 DEF From, F, W
<1>6. from \in Seq(Seq(D)) /\ DOMAIN from = DOMAIN path
  BY <1>1, <1>5
<1>7. Starts(path, places) \in SUBSET DOMAIN from
  BY <1>6 DEF Starts, Named
<1> HIDE DEF from
<1>8. Kept(from, Starts(path, places)) \in Seq(Seq(D))
  BY <1>6, <1>7, Keeping
<1>. QED
  BY <1>6, <1>8, NamesParts DEF D, from

(* Names depends on nothing but the characters at the places, folded.      *)
LEMMA NamesSame ==
    ASSUME NEW path, NEW other, NEW places \in SUBSET Nat, IsFiniteSet(places),
           places \subseteq DOMAIN path, places \subseteq DOMAIN other,
           \A k \in places : P!Fold(path[k]) = P!Fold(other[k])
    PROVE  P!Names(path, places) = P!Names(other, places)
<1> DEFINE S == Starts(path, places)
           f == From(path, places)
           g == From(other, places)
<1>1. \A k \in places : path[k] \in P!Separators <=> other[k] \in P!Separators
  BY Folding
<1>2. Named(path, places) = Named(other, places)
  BY <1>1 DEF Named
<1>3. S = Starts(other, places)
  BY <1>2, Zenon DEF Starts
<1>4. \A k : Word(path, places, k) = Word(other, places, k)
  BY <1>2, Zenon DEF Word
<1>5. S \subseteq places /\ \A k : Word(path, places, k) \subseteq places
  BY DEF Starts, Word, Named
<1>6. \A k : Kept(Folded(path), Word(path, places, k)) = Kept(Folded(other), Word(path, places, k))
  <2> SUFFICES ASSUME NEW k
               PROVE  Kept(Folded(path), Word(path, places, k)) = Kept(Folded(other), Word(path, places, k))
    OBVIOUS
  <2> DEFINE K == Word(path, places, k)
  <2>1. K \in SUBSET Nat /\ IsFiniteSet(K)
    BY <1>5, FS_Subset
  <2>2. \A j \in K : Folded(path)[j] = Folded(other)[j]
    BY <1>5 DEF Folded
  <2> HIDE DEF K
  <2>3. Kept(Folded(path), K) = Kept(Folded(other), K)
    BY <2>1, <2>2, KeptSame
  <2>. QED
    BY <2>3 DEF K
<1>7. \A k \in S : f[k] = g[k]
  BY <1>4, <1>5, <1>6 DEF From
<1>8. S \in SUBSET Nat /\ IsFiniteSet(S)
  BY <1>5, FS_Subset
<1> HIDE DEF S, f, g
<1>9. Kept(f, S) = Kept(g, S)
  BY <1>7, <1>8, KeptSame
<1>. QED
  BY <1>3, <1>9, NamesParts DEF S, f, g

(* Every name begins somewhere.                                            *)
LEMMA WordBegins ==
    ASSUME NEW path, NEW lo \in Nat, NEW k \in Nat, lo <= k, path[k] \notin P!Separators
    PROVE  \E l \in lo..k : /\ \A j \in l..k : path[j] \notin P!Separators
                            /\ l = lo \/ path[l - 1] \in P!Separators
<1> DEFINE Good(n) == path[n] \notin P!Separators =>
                          \E l \in lo..n : /\ \A j \in l..n : path[j] \notin P!Separators
                                           /\ l = lo \/ path[l - 1] \in P!Separators
           c == k - lo
           Done == {n \in 0..c : Good(lo + n)}
<1>1. c \in Nat /\ lo + c = k
  OBVIOUS
<1> HIDE DEF c
<1>2. 0 \in Done
  <2>1. Good(lo)
    OBVIOUS
  <2>. QED
    BY <1>1, <2>1
<1>3. ASSUME NEW n \in 1..c, n - 1 \in Done
      PROVE  n \in Done
  <2> DEFINE m == lo + n
  <2>1. m \in Nat /\ m > lo /\ lo + (n - 1) = m - 1 /\ n \in 0..c
    BY <1>1
  <2>2. Good(m - 1)
    BY <1>3, <2>1
  <2> HIDE DEF m
  <2>3. Good(m)
    <3> SUFFICES ASSUME path[m] \notin P!Separators
                 PROVE  \E l \in lo..m : /\ \A j \in l..m : path[j] \notin P!Separators
                                         /\ l = lo \/ path[l - 1] \in P!Separators
      OBVIOUS
    <3>1. CASE path[m - 1] \in P!Separators
      <4>1. m \in lo..m /\ \A j \in m..m : j = m
        BY <2>1
      <4>. QED
        BY <3>1, <4>1
    <3>2. CASE path[m - 1] \notin P!Separators
      <4>1. PICK l \in lo..(m - 1) : /\ \A j \in l..(m - 1) : path[j] \notin P!Separators
                                     /\ l = lo \/ path[l - 1] \in P!Separators
        BY <2>2, <3>2
      <4>2. l \in lo..m /\ \A j \in l..m : j \in l..(m - 1) \/ j = m
        BY <2>1
      <4>. QED
        BY <4>1, <4>2
    <3>. QED
      BY <3>1, <3>2
  <2>. QED
    BY <2>1, <2>3 DEF m
<1>4. c \in Done
  <2> HIDE DEF Done
  <2>1. \A n \in 0..c : n \in Done
    BY <1>1, <1>2, <1>3, Counting
  <2>. QED
    BY <1>1, <2>1
<1>5. Good(k)
  BY <1>1, <1>4
<1>. QED
  BY <1>5

(* The last name has one letter more.                                      *)
Longer(new, old, c, D) ==
    \E q \in Seq(Seq(D)), w \in Seq(D) : Grown(old, q, w) /\ Grown(new, q, Append(w, c))

(* The names are the same.                                                 *)
Same(new, old) == new = old

(* One character more: a separator changes nothing, another one begins a   *)
(* name behind a separator and lengthens the last name behind a letter.    *)
LEMMA NamesGrow ==
    ASSUME NEW C, NEW path \in Seq(C), NEW lo \in DOMAIN path, NEW m \in DOMAIN path, lo <= m
    PROVE  /\ path[m] \in P!Separators => Same(P!Names(path, lo..m), P!Names(path, lo..(m - 1)))
           /\ path[m] \notin P!Separators /\ (m = lo \/ path[m - 1] \in P!Separators) =>
                  Grown(P!Names(path, lo..m), P!Names(path, lo..(m - 1)), <<P!Fold(path[m])>>)
           /\ path[m] \notin P!Separators /\ m > lo /\ path[m - 1] \notin P!Separators =>
                  Longer(P!Names(path, lo..m), P!Names(path, lo..(m - 1)), P!Fold(path[m]), Letters(C))
<1> DEFINE A == lo..(m - 1)
           B == lo..m
           N == Named(path, A)
           S == Starts(path, A)
           F == Folded(path)
           f == From(path, A)
           g == From(path, B)
           D == Letters(C)
<1>1. /\ DOMAIN path = 1..Len(path) /\ Len(path) \in Nat /\ lo \in Nat /\ m \in Nat /\ lo >= 1
      /\ A \subseteq DOMAIN path /\ B \subseteq DOMAIN path /\ B = A \cup {m}
  OBVIOUS
<1>2. N \in SUBSET Nat /\ S \subseteq N /\ N \subseteq A /\ \A k \in N : k < m
  BY <1>1 DEF Named, Starts
<1>3. IsFiniteSet(A)
  BY <1>1, FS_Interval
<1>4. IsFiniteSet(N) /\ IsFiniteSet(S) /\ S \in SUBSET Nat
  BY <1>2, <1>3, FS_Subset
<1>5. P!Names(path, A) = Kept(f, S) /\ P!Names(path, B) = Kept(g, Starts(path, B))
  BY NamesParts
<1>6. CASE path[m] \in P!Separators
  <2>1. Named(path, B) = N
    BY <1>1, <1>6 DEF Named
  <2>2. \A k : Word(path, B, k) = Word(path, A, k)
    BY <2>1, Zenon DEF Word
  <2>3. Starts(path, B) = S /\ g = f
    BY <2>1, <2>2, Zenon DEF Starts, From
  <2>. QED
    BY <1>5, <1>6, <2>3 DEF Same
<1>7. ASSUME path[m] \notin P!Separators
      PROVE  Named(path, B) = N \cup {m} /\ m \in Named(path, B)
  BY <1>1, <1>7 DEF Named
<1>8. CASE path[m] \notin P!Separators /\ (m = lo \/ path[m - 1] \in P!Separators)
  <2>1. m - 1 \notin N
    BY <1>1, <1>8 DEF Named
  <2>2. Named(path, B) = N \cup {m} /\ m \notin N /\ m - 1 # m
    BY <1>1, <1>2, <1>7, <1>8
  <2>3. Starts(path, B) = S \cup {m}
    BY <1>2, <2>1, <2>2 DEF Starts
  <2>4. \A k \in S : Word(path, B, k) = Word(path, A, k)
    <3> SUFFICES ASSUME NEW k \in S
                 PROVE  Word(path, B, k) = Word(path, A, k)
      OBVIOUS
    <3>1. m - 1 \in k..m /\ m - 1 \notin Named(path, B)
      BY <1>1, <1>2, <2>1, <2>2
    <3>2. m \notin Word(path, B, k)
      BY <3>1 DEF Word
    <3>3. \A j \in N : (k..j) \subseteq Named(path, B) <=> (k..j) \subseteq N
      BY <1>1, <1>2, <2>2
    <3>. QED
      BY <2>2, <3>2, <3>3 DEF Word
  <2>5. \A k \in S : f[k] = g[k] /\ k < m
    BY <1>1, <1>2, <2>4 DEF From
  <2>6. Word(path, B, m) = {m}
    BY <1>1, <1>2, <2>2 DEF Word
  <2>7. g[m] = Kept(F, {m})
    BY <1>1, <2>6 DEF From
  <2>8. Kept(F, {m}) = <<P!Fold(path[m])>>
    <3>1. Kept(F, {}) = <<>>
      <4>1. InOrder({}, Upwards({})) = <<>>
        <5>1. Cardinality({}) = 0
          BY FS_EmptySet
        <5>. QED
          BY <5>1 DEF InOrder
      <4>. QED
        BY <4>1 DEF Kept
    <3>2. Grown(Kept(F, {} \cup {m}), Kept(F, {}), F[m])
      <4> DEFINE E == {}
      <4>1. E \in SUBSET Nat /\ IsFiniteSet(E) /\ m \in Nat /\ \A k \in E : k < m /\ F[k] = F[k]
        BY <1>1, FS_EmptySet
      <4> HIDE DEF E, F
      <4>2. Grown(Kept(F, E \cup {m}), Kept(F, E), F[m])
        BY <4>1, KeptGrows, Zenon
      <4>. QED
        BY <4>2 DEF E
    <3>3. {} \cup {m} = {m} /\ F[m] = P!Fold(path[m])
      BY <1>1 DEF Folded
    <3> HIDE DEF F
    <3>4. Grown(Kept(F, {m}), <<>>, P!Fold(path[m]))
      BY <3>1, <3>2, <3>3, Zenon
    <3>. QED
      BY <3>4 DEF Grown
  <2> HIDE DEF f, g, S, F
  <2>9. Grown(Kept(g, S \cup {m}), Kept(f, S), g[m])
    <3>1. \A k \in S : k < m /\ f[k] = g[k]
      BY <2>5
    <3>2. m \in Nat
      BY <1>1
    <3>. QED
      BY <1>4, <3>1, <3>2, KeptGrows, Zenon
  <2>10. Grown(P!Names(path, B), P!Names(path, A), <<P!Fold(path[m])>>)
    BY <1>5, <2>3, <2>7, <2>8, <2>9, Zenon
  <2>. QED
    BY <1>8, <2>10
<1>9. CASE path[m] \notin P!Separators /\ m > lo /\ path[m - 1] \notin P!Separators
  <2>1. Named(path, B) = N \cup {m} /\ m \notin N /\ m - 1 \in N
    BY <1>1, <1>2, <1>7, <1>9 DEF Named
  <2>2. Starts(path, B) = S
    BY <1>1, <1>2, <2>1 DEF Starts
  <2>3. PICK l \in lo..(m - 1) : /\ \A j \in l..(m - 1) : path[j] \notin P!Separators
                                 /\ l = lo \/ path[l - 1] \in P!Separators
    <3>1. m - 1 \in Nat /\ lo \in Nat /\ lo <= m - 1
      BY <1>1, <1>9
    <3>. QED
      BY <1>9, <3>1, WordBegins
  <2>4. (l..(m - 1)) \subseteq N /\ l \in N /\ l - 1 \notin N /\ l \in Nat
    BY <1>1, <2>3 DEF Named
  <2>5. l \in S
    BY <2>4 DEF Starts
  <2>6. \A k \in S : k = l \/ k < l
    <3> SUFFICES ASSUME NEW k \in S, k > l
                 PROVE  FALSE
      BY <1>1, <1>2, <2>4
    <3>1. k - 1 \in l..(m - 1)
      BY <1>1, <1>2, <2>4
    <3>. QED
      BY <2>4, <3>1 DEF Starts
  <2> DEFINE K == S \ {l}
             q == Kept(f, K)
             w == f[l]
  <2>7. \A k \in K : k < l /\ k <= l - 1 /\ l - 1 \in k..m /\ l - 1 \notin Named(path, B)
    BY <1>1, <1>2, <2>1, <2>4, <2>6
  <2>8. \A k \in K : f[k] = g[k]
    <3> SUFFICES ASSUME NEW k \in K
                 PROVE  f[k] = g[k]
      OBVIOUS
    <3>1. m \notin Word(path, B, k)
      BY <2>7 DEF Word
    <3>2. \A j \in N : (k..j) \subseteq Named(path, B) <=> (k..j) \subseteq N
      BY <1>1, <1>2, <2>1
    <3>3. Word(path, B, k) = Word(path, A, k)
      BY <2>1, <3>1, <3>2 DEF Word
    <3>4. k \in DOMAIN path
      BY <1>1, <1>2
    <3>. QED
      BY <3>3, <3>4 DEF From
  <2>9. Word(path, B, l) = Word(path, A, l) \cup {m}
    <3>1. (l..m) \subseteq Named(path, B) /\ l <= m
      BY <1>1, <2>1, <2>4
    <3>2. \A j \in N : (l..j) \subseteq Named(path, B) <=> (l..j) \subseteq N
      BY <1>1, <1>2, <2>1, <2>4
    <3>. QED
      BY <2>1, <3>1, <3>2 DEF Word
  <2>10. l \in DOMAIN path /\ w = Kept(F, Word(path, A, l)) /\ g[l] = Kept(F, Word(path, A, l) \cup {m})
    BY <1>1, <1>2, <2>4, <2>9 DEF From
  <2>11. g[l] = Append(w, P!Fold(path[m]))
    <3> DEFINE V == Word(path, A, l)
    <3>1. V \subseteq N
      BY DEF Word
    <3>2. V \in SUBSET Nat /\ IsFiniteSet(V) /\ m \in Nat /\ \A k \in V : k < m /\ F[k] = F[k]
      BY <1>1, <1>2, <1>4, <3>1, FS_Subset
    <3>3. F[m] = P!Fold(path[m])
      BY <1>1 DEF Folded
    <3> HIDE DEF V, F
    <3>4. Grown(Kept(F, V \cup {m}), Kept(F, V), F[m])
      BY <3>2, KeptGrows, Zenon
    <3>. QED
      BY <2>10, <3>3, <3>4, Zenon DEF V, Grown
  <2>12. K \in SUBSET Nat /\ IsFiniteSet(K) /\ K \cup {l} = S /\ l \notin K
    BY <1>4, <2>5, FS_Subset
  <2> HIDE DEF f, g, S, K
  <2>13. Grown(Kept(f, K \cup {l}), Kept(f, K), f[l])
    <3>1. \A k \in K : k < l /\ f[k] = f[k]
      BY <2>7
    <3>. QED
      BY <2>4, <2>12, <3>1, KeptGrows, Zenon
  <2>14. Grown(Kept(g, K \cup {l}), Kept(f, K), g[l])
    <3>1. \A k \in K : k < l /\ f[k] = g[k]
      BY <2>7, <2>8
    <3>. QED
      BY <2>4, <2>12, <3>1, KeptGrows, Zenon
  <2>15. q \in Seq(Seq(D)) /\ w \in Seq(D)
    <3>1. f \in Seq(Seq(D)) /\ DOMAIN f = DOMAIN path
      BY <1>1, NamesType DEF f
    <3>2. K \in SUBSET DOMAIN f /\ l \in DOMAIN f
      BY <1>1, <1>2, <2>10, <2>12, <3>1 
    <3> HIDE DEF D
    <3>. QED
      BY <3>1, <3>2, Keeping
  <2>16. P!Names(path, A) = Append(q, w) /\ P!Names(path, B) = Append(q, Append(w, P!Fold(path[m])))
    BY <1>5, <2>2, <2>11, <2>12, <2>13, <2>14, Zenon DEF Grown
  <2> HIDE DEF q, w, A, B
  <2>17. Longer(P!Names(path, B), P!Names(path, A), P!Fold(path[m]), D)
    BY <2>15, <2>16, Zenon DEF Longer, Grown
  <2>18. m > lo /\ m # lo /\ path[m - 1] \notin P!Separators /\ path[m] \notin P!Separators
    BY <1>1, <1>9
  <2>. QED
    BY <2>17, <2>18 DEF A, B, D
<1>. QED
  BY <1>6, <1>8, <1>9

(* f[n] is the text of the first n names.                                  *)
Spells(f, names, D) ==
    /\ f \in [0..Len(names) -> Seq(D)] /\ f[0] = <<>>
    /\ \A n \in 1..Len(names) : f[n] = IF n = 1 THEN names[1] ELSE f[n - 1] \o <<"\\">> \o names[n]

(* Join spells the names.                                                  *)
LEMMA Joined ==
    ASSUME NEW D, "\\" \in D, NEW names \in Seq(Seq(D))
    PROVE  \E f : Spells(f, names, D) /\ P!Join(names) = f[Len(names)]
<1> DEFINE c == Len(names)
           X == Seq(D)
           Spell(s, n) == IF n = 1 THEN names[1] ELSE s \o <<"\\">> \o names[n]
           step == [x \in X \X (1..c) |-> Spell(x[1], x[2])]
           upTo[n \in 0..c] ==
               IF n = 0 THEN <<>> ELSE IF n = 1 THEN names[1] ELSE upTo[n - 1] \o <<"\\">> \o names[n]
<1>1. c \in Nat /\ <<>> \in X /\ \A n \in 1..c : names[n] \in X
  OBVIOUS
<1>2. \A s \in X, n \in 1..c : Spell(s, n) \in X
  BY <1>1
<1>3. step \in [X \X (1..c) -> X] /\ \A s \in X, n \in 1..c : step[<<s, n>>] = Spell(s, n)
  BY <1>2
<1> HIDE DEF step, X, Spell, c
<1>4. PICK f \in [0..c -> X] : Unrolls(f, <<>>, step, c)
  BY <1>1, <1>3, Looping
<1>5. f[0] = <<>> /\ \A n \in 1..c : f[n] = Spell(f[n - 1], n)
  <2>1. \A n \in 1..c : f[n - 1] \in X
    BY <1>1
  <2>. QED
    BY <1>3, <1>4, <2>1 DEF Unrolls
<1>6. f = [n \in 0..c |-> IF n = 0 THEN <<>> ELSE Spell(f[n - 1], n)]
  BY <1>1, <1>5
<1>7. f = [n \in 0..c |-> IF n = 0 THEN <<>> ELSE IF n = 1 THEN names[1] ELSE f[n - 1] \o <<"\\">> \o names[n]]
  <2>1. \A n \in 0..c : f[n] = IF n = 0 THEN <<>> ELSE IF n = 1 THEN names[1] ELSE f[n - 1] \o <<"\\">> \o names[n]
    BY <1>6, Zenon DEF Spell
  <2>. QED
    BY <1>4, <2>1
<1>8. upTo = [n \in 0..c |-> IF n = 0 THEN <<>>
                             ELSE IF n = 1 THEN names[1] ELSE upTo[n - 1] \o <<"\\">> \o names[n]]
  BY <1>7, Zenon
<1>9. P!Join(names) = upTo[c]
  BY Zenon DEF P!Join, c
<1> HIDE DEF upTo
<1>10. ASSUME NEW n \in 0..c, n = 0 \/ upTo[n - 1] \in X
       PROVE  upTo[n] \in X /\ (n # 0 => upTo[n] = Spell(upTo[n - 1], n))
  <2>1. upTo[n] = IF n = 0 THEN <<>> ELSE Spell(upTo[n - 1], n)
    BY <1>8 DEF Spell
  <2>2. n # 0 => n \in 1..c
    BY <1>1
  <2>. QED
    BY <1>1, <1>2, <1>10, <2>1, <2>2
<1> DEFINE Done == {n \in 0..c : upTo[n] \in X}
<1>11. \A n \in 0..c : n \in Done
  <2>1. 0 \in Done
    BY <1>1, <1>10
  <2>2. ASSUME NEW n \in 1..c, n - 1 \in Done
        PROVE  n \in Done
    <3>1. n \in 0..c
      BY <1>1
    <3>. QED
      BY <1>10, <2>2, <3>1
  <2> HIDE DEF Done
  <2>. QED
    BY <1>1, <2>1, <2>2, Counting
<1>12. upTo \in [0..c -> X] /\ upTo[0] = <<>>
  <2>1. \A n \in 0..c : upTo[n] \in X
    BY <1>11
  <2>2. 0 \in 0..c
    BY <1>1
  <2>. QED
    BY <1>8, <2>1, <2>2
<1>13. \A n \in 1..c : upTo[n] = Spell(upTo[n - 1], n)
  <2> SUFFICES ASSUME NEW n \in 1..c
               PROVE  upTo[n] = Spell(upTo[n - 1], n)
    OBVIOUS
  <2>1. n \in 0..c /\ n - 1 \in 0..c /\ n # 0
    BY <1>1
  <2>. QED
    BY <1>10, <1>12, <2>1
<1>14. Spells(upTo, names, D)
  BY <1>12, <1>13, Zenon DEF Spells, Spell, X, c
<1>. QED
  BY <1>9, <1>14 DEF c

(* Two lists begin with the same m names.                                  *)
Alike(a, b, m) == m <= Len(a) /\ m <= Len(b) /\ \A n \in 1..m : a[n] = b[n]

(* The text of the first names is that of the same names in another list.  *)
LEMMA SpelledAlike ==
    ASSUME NEW D, NEW a \in Seq(Seq(D)), NEW b \in Seq(Seq(D)), NEW f, NEW g, NEW m \in Nat,
           Spells(f, a, D), Spells(g, b, D), Alike(a, b, m)
    PROVE  f[m] = g[m]
<1>0. m <= Len(a) /\ m <= Len(b) /\ \A n \in 1..m : a[n] = b[n]
  BY DEF Alike
<1> DEFINE Done == {n \in 0..m : f[n] = g[n]}
<1>1. 0 \in Done
  BY DEF Spells
<1>2. ASSUME NEW n \in 1..m, n - 1 \in Done
      PROVE  n \in Done
  <2>1. n \in 1..Len(a) /\ n \in 1..Len(b) /\ n \in 0..m /\ f[n - 1] = g[n - 1] /\ a[n] = b[n]
    BY <1>0, <1>2
  <2>2. a[1] = b[1]
    <3>1. 1 \in 1..m
      OBVIOUS
    <3>. QED
      BY <1>0, <3>1
  <2>3. f[n] = IF n = 1 THEN a[1] ELSE f[n - 1] \o <<"\\">> \o a[n]
    BY <2>1 DEF Spells
  <2>4. g[n] = IF n = 1 THEN b[1] ELSE g[n - 1] \o <<"\\">> \o b[n]
    BY <2>1 DEF Spells
  <2>5. f[n] = g[n]
    BY <2>1, <2>2, <2>3, <2>4, Zenon
  <2>. QED
    BY <2>1, <2>5
<1>3. \A n \in 0..m : n \in Done
  <2> HIDE DEF Done
  <2>. QED
    BY <1>1, <1>2, Counting
<1>. QED
  BY <1>3

(* A list that begins like another and has one name more is that, a        *)
(* separator and the name; with a longer last name, the text is longer.    *)
Behind(s, w) == s \o <<"\\">> \o w
Joins(more, names, w) == P!Join(more) = IF names = <<>> THEN w ELSE Behind(P!Join(names), w)
LEMMA JoinGrows ==
    ASSUME NEW D, "\\" \in D, NEW names \in Seq(Seq(D)), NEW w \in Seq(D), NEW more, Grown(more, names, w)
    PROVE  /\ P!Join(names) \in Seq(D) /\ P!Join(more) \in Seq(D) /\ more \in Seq(Seq(D)) /\ more # <<>>
           /\ Joins(more, names, w)
<1>1. ASSUME NEW s \in Seq(Seq(D))
      PROVE  P!Join(s) \in Seq(D)
  <2>1. PICK f : Spells(f, s, D) /\ P!Join(s) = f[Len(s)]
    BY Joined
  <2>2. Len(s) \in 0..Len(s)
    OBVIOUS
  <2>. QED
    BY <2>1, <2>2 DEF Spells
<1> DEFINE n == Len(names)
<1>2. more \in Seq(Seq(D)) /\ n \in Nat /\ Len(more) = n + 1 /\ more[n + 1] = w /\ \A k \in 1..n : more[k] = names[k]
  BY DEF Grown
<1>3. (n = 0 <=> names = <<>>) /\ more # <<>>
  <2>1. n = 0 <=> names = <<>>
    OBVIOUS
  <2>. QED
    BY <1>2, <2>1
<1> HIDE DEF n
<1>4. PICK f : Spells(f, names, D) /\ P!Join(names) = f[n]
  BY Joined DEF n
<1>5. PICK g : Spells(g, more, D) /\ P!Join(more) = g[n + 1]
  BY <1>2, Joined
<1>6. f[n] = g[n]
  <2>1. Alike(names, more, n)
    BY <1>2 DEF n, Alike
  <2>. QED
    BY <1>2, <1>4, <1>5, <2>1, SpelledAlike
<1>7. n + 1 \in 1..Len(more) /\ (n + 1) - 1 = n /\ (n + 1 = 1 <=> n = 0)
  BY <1>2
<1>8. g[n + 1] = IF n + 1 = 1 THEN more[1] ELSE g[n] \o <<"\\">> \o more[n + 1]
  BY <1>5, <1>7 DEF Spells
<1>9. P!Join(more) = IF names = <<>> THEN w ELSE Behind(P!Join(names), w)
  BY <1>2, <1>3, <1>4, <1>5, <1>6, <1>7, <1>8 DEF Behind
<1>. QED
  BY <1>1, <1>2, <1>3, <1>9 DEF Joins

(* A longer last name makes a longer text.                                 *)
LEMMA JoinLonger ==
    ASSUME NEW D, "\\" \in D, NEW c \in D, NEW old, NEW new, Longer(new, old, c, D)
    PROVE  Grown(P!Join(new), P!Join(old), c) /\ new # <<>>
<1>1. PICK q \in Seq(Seq(D)), w \in Seq(D) : Grown(old, q, w) /\ Grown(new, q, Append(w, c))
  BY DEF Longer
<1> DEFINE v == Append(w, c)
           j == P!Join(q)
<1>2. v \in Seq(D)
  OBVIOUS
<1> HIDE DEF v
<1>3. j \in Seq(D) /\ P!Join(old) = IF q = <<>> THEN w ELSE Behind(j, w)
  BY <1>1, JoinGrows DEF Joins
<1>4. new # <<>> /\ P!Join(new) = IF q = <<>> THEN v ELSE Behind(j, v)
  <2>1. Grown(new, q, v)
    BY <1>1 DEF v
  <2>. QED
    BY <1>2, <2>1, JoinGrows DEF Joins
<1> HIDE DEF j
<1>5. Behind(j, v) = Append(Behind(j, w), c)
  BY <1>3 DEF v, Behind
<1>6. P!Join(new) = Append(P!Join(old), c)
  BY <1>3, <1>4, <1>5, Zenon DEF v
<1>. QED
  BY <1>4, <1>6, Zenon DEF Grown

(* Only one list is lengthened to a list, by one element.                  *)
LEMMA GrownFrom ==
    ASSUME NEW X, NEW q \in Seq(X), NEW r \in Seq(X), NEW v \in X, NEW w \in X, NEW s, Grown(s, q, v), Grown(s, r, w)
    PROVE  q = r /\ v = w
<1>0. Append(q, v) = Append(r, w)
  BY DEF Grown
<1>1. Len(q) = Len(r)
  <2>1. Len(Append(q, v)) = Len(q) + 1 /\ Len(Append(r, w)) = Len(r) + 1
    OBVIOUS
  <2>. QED
    BY <1>0, <2>1
<1>2. Append(q, v)[Len(q) + 1] = v /\ Append(r, w)[Len(r) + 1] = w
  OBVIOUS
<1>3. \A k \in 1..Len(q) : q[k] = r[k]
  <2>1. \A k \in 1..Len(q) : Append(q, v)[k] = q[k] /\ Append(r, w)[k] = r[k]
    BY <1>1
  <2>. QED
    BY <1>0, <2>1
<1>. QED
  BY <1>0, <1>1, <1>2, <1>3

(* A last name can be lengthened in one way only.                          *)
LEMMA LongerAlike ==
    ASSUME NEW D, NEW c \in D, NEW old, NEW a, NEW b, Longer(a, old, c, D), Longer(b, old, c, D)
    PROVE  a = b
<1>1. PICK q \in Seq(Seq(D)), v \in Seq(D) : Grown(old, q, v) /\ Grown(a, q, Append(v, c))
  BY Zenon DEF Longer
<1>2. PICK r \in Seq(Seq(D)), w \in Seq(D) : Grown(old, r, w) /\ Grown(b, r, Append(w, c))
  BY Zenon DEF Longer
<1>3. q = r /\ v = w
  BY <1>1, <1>2, GrownFrom
<1>. QED
  BY <1>1, <1>2, <1>3, Zenon DEF Grown

-----------------------------------------------------------------------------
(* What sanitize_path makes of a text.                                     *)

(* A set of places has a first and a last one.                             *)
LEMMA Outermost ==
    ASSUME NEW n \in Nat, NEW K \in SUBSET (1..n), K # {}
    PROVE  LET low == CHOOSE k \in K : \A j \in K : k <= j
               last == CHOOSE k \in K : \A j \in K : k >= j
           IN  low \in K /\ last \in K /\ \A j \in K : low <= j /\ j <= last
<1> DEFINE R == Upwards(K)
           c == Cardinality(K)
           at == InOrder(K, R)
<1>1. K \in SUBSET Nat /\ IsFiniteSet(K)
  <2>1. 1 \in Int /\ n \in Int
    OBVIOUS
  <2>2. IsFiniteSet(1..n)
    BY <2>1, FS_Interval
  <2>3. IsFiniteSet(K)
    BY <2>2, FS_Subset
  <2>. QED
    BY <2>3
<1>2. Orders(R, K) /\ \A x, y \in K : <<x, y>> \in R <=> x < y
  BY <1>1 DEF Orders, Upwards
<1>3. /\ at \in [1..c -> K] /\ c \in Nat /\ \A x \in K : \E i \in 1..c : at[i] = x
      /\ \A i, j \in 1..c : i < j <=> <<at[i], at[j]>> \in R
  BY <1>1, <1>2, Ordered
<1> HIDE DEF at, c, R
<1>4. 1 \in 1..c /\ c \in 1..c
  <2>1. \E i \in 1..c : TRUE
    BY <1>3
  <2>. QED
    BY <1>3, <2>1
<1>5. \A i \in 1..c : at[1] <= at[i] /\ at[i] <= at[c]
  <2> SUFFICES ASSUME NEW i \in 1..c
               PROVE  at[1] <= at[i] /\ at[i] <= at[c]
    OBVIOUS
  <2>1. at[1] \in K /\ at[i] \in K /\ at[c] \in K
    BY <1>3, <1>4
  <2>2. (i = 1 \/ 1 < i) /\ (i = c \/ i < c)
    BY <1>3
  <2>3. 1 < i => at[1] < at[i]
    BY <1>2, <1>3, <1>4, <2>1
  <2>4. i < c => at[i] < at[c]
    BY <1>2, <1>3, <1>4, <2>1
  <2>5. at[1] \in Nat /\ at[i] \in Nat /\ at[c] \in Nat
    BY <1>1, <2>1
  <2>6. at[1] <= at[i]
    BY <2>2, <2>3, <2>5
  <2>7. at[i] <= at[c]
    BY <2>2, <2>4, <2>5
  <2>. QED
    BY <2>6, <2>7
<1>6. \A j \in K : at[1] <= j /\ j <= at[c]
  BY <1>3, <1>5
<1>7. at[1] \in K /\ at[c] \in K /\ \A j \in K : at[c] >= j
  <2>1. at[1] \in K /\ at[c] \in K
    BY <1>3, <1>4
  <2>. QED
    BY <1>1, <1>6, <2>1
<1> HIDE DEF at
<1>8. (\E k \in K : \A j \in K : k <= j) /\ \E k \in K : \A j \in K : k >= j
  BY <1>6, <1>7
<1> DEFINE low == CHOOSE k \in K : \A j \in K : k <= j
           last == CHOOSE k \in K : \A j \in K : k >= j
<1>9. low \in K /\ last \in K /\ (\A j \in K : low <= j) /\ \A j \in K : last >= j
  BY <1>8, Zenon
<1> HIDE DEF low, last
<1>10. \A j \in K : low <= j /\ j <= last
  BY <1>1, <1>9
<1>. QED
  BY <1>9, <1>10 DEF low, last

(* What is put at the end of a text.                                       *)
LEMMA Putting ==
    ASSUME NEW D, "\\" \in D, NEW out \in Seq(D), NEW c, P!Fold(c) \in D
    PROVE  /\ P!Put(out, c) \in Seq(D)
           /\ c \in P!Separators => P!Put(out, c) = IF out = <<>> \/ out[Len(out)] = "\\" THEN out ELSE Append(out, "\\")
           /\ c \notin P!Separators => P!Put(out, c) = Append(out, P!Fold(c))
<1>1. P!Put(out, c) = IF c \in P!Separators
                      THEN IF out = <<>> \/ out[Len(out)] = "\\" THEN out ELSE Append(out, "\\")
                      ELSE Append(out, P!Fold(c))
  BY Zenon DEF P!Put, P!Repeated, P!Last
<1>. QED
  BY <1>1

(* The loop of sanitize_path: out[k] is what has been put at place k.      *)
Puts(out, path, low, last) ==
    /\ out[low] = P!Put(<<>>, path[low])
    /\ \A k \in (low + 1)..last : out[k] = P!Put(out[k - 1], path[k])

(* A text is what is put between its outermost characters, if any.         *)
LEMMA Sanitized ==
    ASSUME NEW C, NEW path \in Seq(C)
    PROVE  \/ P!Sanitize(path) = <<>> /\ P!Inner(path) = {}
           \/ \E low \in DOMAIN path, last \in DOMAIN path : \E out :
                 /\ low <= last /\ path[low] \notin P!Trimmed /\ path[last] \notin P!Trimmed
                 /\ P!Inner(path) = low..last /\ Puts(out, path, low, last)
                 /\ P!Sanitize(path) = out[last]
<1> DEFINE D == Letters(C)
           X == Seq(D)
           K == {k \in DOMAIN path : path[k] \notin P!Trimmed}
           low == CHOOSE k \in K : \A j \in K : k <= j
           last == CHOOSE k \in K : \A j \in K : k >= j
           Step(s, k) == IF k < low THEN <<>> ELSE P!Put(s, path[k])
           step == [x \in X \X (1..last) |-> Step(x[1], x[2])]
           out[k \in 0..last] == IF k < low THEN <<>> ELSE P!Put(out[k - 1], path[k])
<1>1. DOMAIN path = 1..Len(path) /\ Len(path) \in Nat /\ "\\" \in D /\ \A k \in DOMAIN path : P!Fold(path[k]) \in D
  BY DEF Letters
<1>2. P!Sanitize(path) = IF K = {} THEN <<>> ELSE out[last]
  BY Zenon DEF P!Sanitize
<1>3. P!Inner(path) = {k \in DOMAIN path : \E i \in 1..k, j \in k..Len(path) : i \in K /\ j \in K}
  BY <1>1 DEF P!Inner
<1>4. CASE K = {}
  <2>1. P!Inner(path) = {}
    BY <1>3, <1>4
  <2>. QED
    BY <1>2, <1>4, <2>1
<1>5. CASE K # {}
  <2>1. K \in SUBSET (1..Len(path))
    BY <1>1
  <2> HIDE DEF D
  <2>2. low \in K /\ last \in K /\ \A j \in K : low <= j /\ j <= last
    <3> HIDE DEF K
    <3>. QED
      BY <1>1, <1>5, <2>1, Outermost
  <2>3. low \in DOMAIN path /\ last \in DOMAIN path /\ path[low] \notin P!Trimmed /\ path[last] \notin P!Trimmed
    BY <2>2
  <2> HIDE DEF low, last, K
  <2>4. low \in Nat /\ last \in Nat /\ low >= 1 /\ low <= last /\ last <= Len(path)
    BY <1>1, <2>2, <2>3
  <2>5. P!Inner(path) = low..last
    <3>1. \A k \in DOMAIN path : k \in low..last => low \in 1..k /\ last \in k..Len(path)
      BY <1>1, <2>4
    <3>2. \A k \in DOMAIN path : \A i \in 1..k, j \in k..Len(path) : i \in K /\ j \in K => k \in low..last
      <4> SUFFICES ASSUME NEW k \in DOMAIN path, NEW i \in 1..k, NEW j \in k..Len(path), i \in K, j \in K
                   PROVE  k \in low..last
        OBVIOUS
      <4>1. low <= i /\ j <= last
        BY <2>2
      <4>. QED
        BY <1>1, <2>4, <4>1
    <3>3. low..last \subseteq DOMAIN path
      BY <1>1, <2>4
    <3>. QED
      BY <1>3, <2>2, <3>1, <3>2, <3>3
  <2>6. \A s \in X, k \in 1..last : Step(s, k) \in X
    <3> SUFFICES ASSUME NEW s \in X, NEW k \in 1..last
                 PROVE  Step(s, k) \in X
      OBVIOUS
    <3>1. k \in DOMAIN path /\ <<>> \in X
      BY <1>1, <2>4
    <3>2. P!Put(s, path[k]) \in X
      BY <1>1, <3>1, Putting
    <3>. QED
      BY <3>1, <3>2
  <2>7. step \in [X \X (1..last) -> X] /\ \A s \in X, k \in 1..last : step[<<s, k>>] = Step(s, k)
    BY <2>6
  <2>8. <<>> \in X
    OBVIOUS
  <2> HIDE DEF step, X, Step
  <2>9. PICK f \in [0..last -> X] : Unrolls(f, <<>>, step, last)
    BY <2>4, <2>7, <2>8, Looping
  <2>10. \A k \in 0..last : f[k] = IF k < low THEN <<>> ELSE P!Put(f[k - 1], path[k])
    <3> SUFFICES ASSUME NEW k \in 0..last
                 PROVE  f[k] = IF k < low THEN <<>> ELSE P!Put(f[k - 1], path[k])
      OBVIOUS
    <3>1. CASE k = 0
      BY <2>4, <2>9, <3>1 DEF Unrolls
    <3>2. CASE k # 0
      <4>1. k \in 1..last /\ k - 1 \in 0..last
        BY <2>4, <3>2
      <4>2. f[k] = Step(f[k - 1], k)
        BY <2>7, <2>9, <4>1 DEF Unrolls
      <4>. QED
        BY <4>2 DEF Step
    <3>. QED
      BY <3>1, <3>2
  <2>11. f = [k \in 0..last |-> IF k < low THEN <<>> ELSE P!Put(f[k - 1], path[k])]
    BY <2>9, <2>10
  <2>12. out = [k \in 0..last |-> IF k < low THEN <<>> ELSE P!Put(out[k - 1], path[k])]
    BY <2>11, Zenon
  <2> HIDE DEF out
  <2>13. \A k \in low..last : out[k] = P!Put(out[k - 1], path[k])
    BY <2>4, <2>12
  <2>14. out[low] = P!Put(<<>>, path[low])
    <3>1. low \in low..last /\ low - 1 \in 0..last /\ low - 1 < low
      BY <2>4
    <3>2. out[low - 1] = <<>>
      BY <2>12, <3>1
    <3>. QED
      BY <2>13, <3>1, <3>2
  <2>15. \A k \in (low + 1)..last : k \in low..last
    BY <2>4
  <2>16. Puts(out, path, low, last) /\ P!Sanitize(path) = out[last]
    BY <1>2, <1>5, <2>13, <2>14, <2>15 DEF Puts
  <2>. QED
    BY <2>3, <2>4, <2>5, <2>16
<1>. QED
  BY <1>4, <1>5

(* No places, no names.                                                    *)
LEMMA NoNames == \A path : P!Names(path, {}) = <<>>
<1> SUFFICES ASSUME NEW path
             PROVE  P!Names(path, {}) = <<>>
  OBVIOUS
<1>1. Starts(path, {}) = {}
  BY DEF Starts, Named
<1>2. Cardinality({}) = 0
  BY FS_EmptySet
<1>3. InOrder({}, Upwards({})) = <<>>
  BY <1>2 DEF InOrder
<1>4. Kept(From(path, {}), {}) = <<>>
  BY <1>3 DEF Kept
<1>. QED
  BY <1>1, <1>4, NamesParts

(* What is folded is over the same characters.                             *)
LEMMA LettersStay ==
    ASSUME NEW C
    PROVE  Letters(Letters(C)) = Letters(C) /\ "\\" \in Letters(C) /\ \A c \in C : P!Fold(c) \in Letters(C)
<1>1. P!Fold("\\") = "\\"
  BY DEF P!Fold, P!Lower
<1>. QED
  BY <1>1, Folding DEF Letters

(* The text made so far tells the names met so far.                        *)
Tells(o, path, low, k, D) ==
    LET ns == P!Names(path, low..k)
    IN  /\ o \in Seq(D) /\ o # <<>> /\ o[1] \notin P!Trimmed
        /\ P!Names(o, 1..Len(o)) = ns /\ ns # <<>>
        /\ path[k] \in P!Separators => o[Len(o)] = "\\" /\ o = Append(P!Join(ns), "\\")
        /\ path[k] \notin P!Separators => o[Len(o)] = P!Fold(path[k]) /\ o = P!Join(ns)

(* It does after the first character.                                      *)
LEMMA FirstPut ==
    ASSUME NEW C, NEW path \in Seq(C), NEW low \in DOMAIN path, path[low] \notin P!Trimmed
    PROVE  Tells(P!Put(<<>>, path[low]), path, low, low, Letters(C))
<1> DEFINE D == Letters(C)
           c == path[low]
           o == P!Put(<<>>, c)
           w == <<P!Fold(c)>>
<1>1. "\\" \in D /\ P!Fold(c) \in D /\ c \notin P!Separators /\ low \in Nat
  <2>1. c \in C /\ low \in Nat
    OBVIOUS
  <2>2. c \notin P!Separators
    BY DEF P!Trimmed
  <2> HIDE DEF c
  <2>. QED
    BY <2>1, <2>2, LettersStay
<1>2. o = w /\ w \in Seq(D) /\ Len(w) = 1 /\ w[1] = P!Fold(c) /\ w # <<>>
  <2>1. <<>> \in Seq(D)
    OBVIOUS
  <2>2. o = Append(<<>>, P!Fold(c))
    BY <1>1, <2>1, Putting
  <2>. QED
    BY <1>1, <2>2
<1>3. P!Names(path, low..low) = <<w>>
  <2>1. low..(low - 1) = {}
    BY <1>1
  <2>2. Grown(P!Names(path, low..low), P!Names(path, low..(low - 1)), <<P!Fold(path[low])>>)
    <3>1. low <= low /\ path[low] \notin P!Separators
      BY <1>1
    <3>. QED
      BY <3>1, NamesGrow
  <2>3. Grown(P!Names(path, low..low), <<>>, w)
    BY <2>1, <2>2, NoNames, Zenon
  <2>. QED
    BY <2>3 DEF Grown
<1>4. P!Fold(c) \notin P!Separators /\ P!Fold(c) \notin P!Trimmed /\ P!Fold(P!Fold(c)) = P!Fold(c)
  BY <1>1, Folding
<1> HIDE DEF D, c, o, w
<1>5. P!Names(w, 1..1) = <<w>>
  <2>1. 1..(1 - 1) = {} /\ DOMAIN w = 1..1
    BY <1>2
  <2>2. Grown(P!Names(w, 1..1), P!Names(w, 1..(1 - 1)), <<P!Fold(w[1])>>)
    <3>1. 1 \in DOMAIN w /\ 1 <= 1 /\ w[1] \notin P!Separators
      BY <1>2, <1>4, <2>1
    <3>. QED
      BY <1>2, <3>1, NamesGrow
  <2>3. P!Names(w, 1..(1 - 1)) = <<>>
    BY <2>1, NoNames
  <2>4. <<P!Fold(w[1])>> = w
    BY <1>2, <1>4 DEF w
  <2>5. Grown(P!Names(w, 1..1), <<>>, w)
    BY <2>2, <2>3, <2>4, Zenon
  <2>. QED
    BY <2>5 DEF Grown
<1>6. P!Join(<<w>>) = w
  <2> DEFINE none == <<>>
             one == <<w>>
  <2>1. none \in Seq(Seq(D)) /\ Grown(one, none, w) /\ none = <<>>
    BY <1>2 DEF Grown
  <2> HIDE DEF none, one
  <2>2. P!Join(one) = IF none = <<>> THEN w ELSE Behind(P!Join(none), w)
    BY <1>1, <1>2, <2>1, JoinGrows DEF Joins
  <2>. QED
    BY <2>1, <2>2 DEF one
<1>7. <<w>> # <<>> /\ o[Len(o)] = P!Fold(c) /\ o[1] \notin P!Trimmed
  BY <1>2, <1>4
<1>8. P!Names(o, 1..Len(o)) = P!Names(path, low..low)
  BY <1>2, <1>3, <1>5
<1>9. o # <<>> /\ o \in Seq(D) /\ o = P!Join(P!Names(path, low..low)) /\ P!Names(path, low..low) # <<>>
  BY <1>2, <1>3, <1>6, <1>7
<1>. QED
  BY <1>1, <1>7, <1>8, <1>9 DEF Tells, D, o, c

(* And after each further one.                                             *)
LEMMA NextPut ==
    ASSUME NEW C, NEW path \in Seq(C), NEW low \in DOMAIN path, NEW k \in DOMAIN path, low < k,
           NEW o, Tells(o, path, low, k - 1, Letters(C))
    PROVE  Tells(P!Put(o, path[k]), path, low, k, Letters(C))
<1> DEFINE D == Letters(C)
           c == path[k]
           d == P!Fold(c)
           ns == P!Names(path, low..(k - 1))
           ms == P!Names(path, low..k)
           n == Len(o)
<1>1. DOMAIN path = 1..Len(path) /\ Len(path) \in Nat /\ low \in Nat /\ k \in Nat /\ low <= k /\ k - 1 \in DOMAIN path
  OBVIOUS
<1>2. "\\" \in D /\ d \in D /\ Letters(D) = D
  BY LettersStay
<1>3. /\ o \in Seq(D) /\ o # <<>> /\ o[1] \notin P!Trimmed /\ P!Names(o, 1..n) = ns /\ ns # <<>>
      /\ path[k - 1] \in P!Separators => o[n] = "\\" /\ o = Append(P!Join(ns), "\\")
      /\ path[k - 1] \notin P!Separators => o[n] = P!Fold(path[k - 1]) /\ o = P!Join(ns)
  BY DEF Tells
<1>4. n \in Nat /\ n >= 1 /\ DOMAIN o = 1..n
  <2>1. o \in Seq(D) /\ o # <<>>
    BY <1>3
  <2> HIDE DEF D, ns, c, d, ms
  <2>2. Len(o) \in Nat /\ DOMAIN o = 1..Len(o)
    BY <2>1
  <2>3. Len(o) # 0
    BY <2>1
  <2>. QED
    BY <2>2, <2>3
<1>5. ns \in Seq(Seq(D)) /\ P!Join(ns) \in Seq(D)
  <2>1. low..(k - 1) \in SUBSET DOMAIN path
    BY <1>1
  <2>2. ns \in Seq(Seq(D))
    BY <2>1, NamesType
  <2>3. <<>> \in Seq(D)
    OBVIOUS
  <2> HIDE DEF ns, D
  <2>4. Grown(Append(ns, <<>>), ns, <<>>)
    BY DEF Grown
  <2>. QED
    BY <1>2, <2>2, <2>3, <2>4, JoinGrows
<1>6. d \notin P!Separators <=> c \notin P!Separators
  BY Folding
<1>7. P!Fold(d) = d /\ P!Fold("\\") = "\\" /\ "\\" \in P!Separators
  <2>1. P!Fold("\\") = "\\"
    BY DEF P!Fold, P!Lower
  <2>. QED
    BY <2>1, Folding DEF P!Separators
<1>8. path[k - 1] \in P!Separators <=> o[n] \in P!Separators
  BY <1>3, <1>7, Folding
<1>9. ~(path[k - 1] \in P!Separators) => o[n] # "\\"
  BY <1>7, <1>8
<1> HIDE DEF D
<1>10. ASSUME NEW x \in D
       PROVE  LET made == Append(o, x)
              IN  /\ made \in Seq(D) /\ made # <<>> /\ made[1] \notin P!Trimmed /\ Len(made) = n + 1 /\ made[Len(made)] = x
                  /\ P!Names(made, 1..n) = ns /\ made[n] = o[n] /\ DOMAIN made = 1..(n + 1)
  <2> DEFINE made == Append(o, x)
  <2>1. made \in Seq(D) /\ made # <<>> /\ Len(made) = n + 1 /\ made[n + 1] = x /\ DOMAIN made = 1..(n + 1) /\ \A i \in 1..n : made[i] = o[i]
    <3>1. o \in Seq(D)
      BY <1>3
    <3>2. x \in D
      OBVIOUS
    <3> HIDE DEF ns, c, d, ms
    <3>. QED
      BY <3>1, <3>2, <1>4
  <2>2. 1 \in 1..n /\ n \in 1..n
    BY <1>4
  <2> HIDE DEF made
  <2>3. P!Names(made, 1..n) = P!Names(o, 1..n)
    <3>1. 1..n \in SUBSET Nat /\ 1..n \subseteq DOMAIN made /\ 1..n \subseteq DOMAIN o
      BY <1>4, <2>1
    <3>2. IsFiniteSet(1..n)
      <4>1. 1 \in Int /\ n \in Int
        BY <1>4
      <4>. QED
        BY <4>1, FS_Interval
    <3>3. \A i \in 1..n : P!Fold(made[i]) = P!Fold(o[i])
      BY <2>1
    <3>. QED
      BY <3>1, <3>2, <3>3, NamesSame
  <2>4. made[1] \notin P!Trimmed /\ made[n] = o[n] /\ made[Len(made)] = x
    BY <1>3, <2>1, <2>2
  <2>. QED
    BY <1>3, <2>1, <2>3, <2>4 DEF made
<1>11. CASE c \in P!Separators
  <2>1. ms = ns
    <3>1. path[k] \in P!Separators
      BY <1>11
    <3> HIDE DEF c
    <3>2. Same(P!Names(path, low..k), P!Names(path, low..(k - 1)))
      BY <1>1, <3>1, NamesGrow
    <3>. QED
      BY <3>2, Zenon DEF Same
  <2>2. CASE path[k - 1] \in P!Separators
    <3>1. P!Put(o, c) = o
      BY <1>2, <1>3, <1>11, <2>2, Putting
    <3>. QED
      BY <1>3, <1>11, <2>1, <2>2, <3>1 DEF Tells, D
  <2>3. CASE path[k - 1] \notin P!Separators
    <3> DEFINE made == Append(o, "\\")
    <3>1. P!Put(o, c) = made
      BY <1>2, <1>3, <1>9, <1>11, <2>3, Putting
    <3>2. /\ made \in Seq(D) /\ made # <<>> /\ made[1] \notin P!Trimmed /\ Len(made) = n + 1 /\ made[n + 1] = "\\"
          /\ P!Names(made, 1..n) = ns /\ DOMAIN made = 1..(n + 1)
      BY <1>2, <1>10
    <3> HIDE DEF made
    <3>3. P!Names(made, 1..(n + 1)) = ns
      <4>1. 1 \in DOMAIN made /\ n + 1 \in DOMAIN made /\ 1 <= n + 1 /\ (n + 1) - 1 = n
        BY <1>4, <3>2
      <4>2. made \in Seq(D) /\ made[n + 1] \in P!Separators
        BY <1>7, <3>2
      <4> HIDE DEF n
      <4>3. Same(P!Names(made, 1..(n + 1)), P!Names(made, 1..((n + 1) - 1)))
        BY <4>1, <4>2, NamesGrow
      <4>. QED
        BY <3>2, <4>1, <4>3, Zenon DEF Same
    <3>4. made = Append(P!Join(ns), "\\")
      BY <1>3, <2>3 DEF made
    <3> HIDE DEF ns, ms, c
    <3>5. Tells(made, path, low, k, D)
      BY <1>3, <1>11, <2>1, <3>2, <3>3, <3>4 DEF Tells, ms, c
    <3>. QED
      BY <3>1, <3>5 DEF D, c
  <2>. QED
    BY <2>2, <2>3
<1>12. CASE c \notin P!Separators
  <2> DEFINE made == Append(o, d)
             N == n + 1
  <2>1. P!Put(o, c) = made
    BY <1>2, <1>3, <1>12, Putting
  <2>2. /\ made \in Seq(D) /\ made # <<>> /\ made[1] \notin P!Trimmed /\ Len(made) = N /\ made[N] = d
        /\ P!Names(made, 1..n) = ns /\ made[n] = o[n] /\ DOMAIN made = 1..N
    <3> HIDE DEF d
    <3>. QED
      BY <1>2, <1>10
  <2>3. 1 \in DOMAIN made /\ N \in DOMAIN made /\ 1 <= N /\ N - 1 = n /\ N > 1 /\ N # 1
    <3> HIDE DEF made
    <3>. QED
      BY <1>4, <2>2
  <2> HIDE DEF made, N, d, ns, ms, n
  <2>4. P!Names(made, 1..(N - 1)) = ns /\ made[N - 1] = o[n] /\ P!Fold(made[N]) = d /\ made[N] \notin P!Separators
    BY <1>6, <1>7, <1>12, <2>2, <2>3
  <2>5. CASE path[k - 1] \in P!Separators
    <3>1. Grown(ms, ns, <<d>>)
      BY <1>1, <1>12, <2>5, NamesGrow DEF ms, ns, d, c
    <3>2. P!Names(made, 1..N) = ms
      <4>1. Grown(P!Names(made, 1..N), P!Names(made, 1..(N - 1)), <<P!Fold(made[N])>>)
        BY <1>8, <2>2, <2>3, <2>4, <2>5, NamesGrow
      <4>. QED
        BY <2>4, <3>1, <4>1, Zenon DEF Grown
    <3>3. made = P!Join(ms) /\ ms # <<>>
      <4>1. <<d>> \in Seq(D)
        BY <1>2
      <4>7. ms # <<>> /\ Joins(ms, ns, <<d>>)
        BY <1>2, <1>5, <3>1, <4>1, JoinGrows
      <4>2. ms # <<>> /\ P!Join(ms) = Behind(P!Join(ns), <<d>>)
        BY <1>3, <4>7, Zenon DEF Joins
      <4>3. o = Append(P!Join(ns), "\\")
        BY <1>3, <2>5
      <4> DEFINE j == P!Join(ns)
      <4>4. j \in Seq(D)
        BY <1>5
      <4> HIDE DEF j
      <4>6. Append(Append(j, "\\"), d) = Behind(j, <<d>>)
        BY <1>2, <4>4 DEF Behind
      <4>. QED
        BY <4>2, <4>3, <4>6, Zenon DEF made, j
    <3>4. Tells(made, path, low, k, D)
      BY <1>12, <2>2, <3>2, <3>3, Zenon DEF Tells, ms, d, c
    <3>. QED
      BY <2>1, <3>4 DEF D
  <2>6. CASE path[k - 1] \notin P!Separators
    <3>1. Longer(ms, ns, d, D)
      <4>1. k > low
        BY <1>1
      <4>. QED
        BY <1>1, <1>12, <2>6, <4>1, NamesGrow DEF ms, ns, d, c, D
    <3>2. P!Names(made, 1..N) = ms
      <4>1. Longer(P!Names(made, 1..N), P!Names(made, 1..(N - 1)), P!Fold(made[N]), Letters(D))
        BY <1>8, <2>2, <2>3, <2>4, <2>6, NamesGrow
      <4>2. Longer(P!Names(made, 1..N), ns, d, D)
        BY <1>2, <2>4, <4>1, Zenon
      <4>. QED
        BY <1>2, <3>1, <4>2, LongerAlike
    <3>3. made = P!Join(ms) /\ ms # <<>>
      <4>1. Grown(P!Join(ms), P!Join(ns), d) /\ ms # <<>>
        BY <1>2, <3>1, JoinLonger
      <4>2. o = P!Join(ns)
        BY <1>3, <2>6
      <4>. QED
        BY <4>1, <4>2, Zenon DEF made, Grown
    <3>4. Tells(made, path, low, k, D)
      BY <1>12, <2>2, <3>2, <3>3, Zenon DEF Tells, ms, d, c
    <3>. QED
      BY <2>1, <3>4 DEF D
  <2>. QED
    BY <2>5, <2>6
<1>. QED
  BY <1>11, <1>12


(* And in the end.                                                         *)
LEMMA AllPut ==
    ASSUME NEW C, NEW path \in Seq(C), NEW low \in DOMAIN path, NEW last \in DOMAIN path, low <= last,
           path[low] \notin P!Trimmed, NEW out, Puts(out, path, low, last)
    PROVE  Tells(out[last], path, low, last, Letters(C))
<1> DEFINE c == last - low
           Met == {n \in 0..c : Tells(out[low + n], path, low, low + n, Letters(C))}
<1>1. low \in Nat /\ last \in Nat /\ c \in Nat /\ low + c = last /\ low + 0 = low /\ DOMAIN path = 1..Len(path)
  OBVIOUS
<1> HIDE DEF c
<1>2. 0 \in Met
  <2>1. Tells(out[low], path, low, low, Letters(C))
    BY FirstPut DEF Puts
  <2>. QED
    BY <1>1, <2>1
<1>3. ASSUME NEW n \in 1..c, n - 1 \in Met
      PROVE  n \in Met
  <2> DEFINE k == low + n
             o == out[k - 1]
  <2>1. k \in DOMAIN path /\ low < k /\ k \in (low + 1)..last /\ low + (n - 1) = k - 1 /\ n \in 0..c
    BY <1>1
  <2>2. Tells(o, path, low, k - 1, Letters(C))
    BY <1>3, <2>1
  <2>3. out[k] = P!Put(o, path[k])
    BY <2>1 DEF Puts
  <2> HIDE DEF k, o
  <2>4. Tells(P!Put(o, path[k]), path, low, k, Letters(C))
    BY <2>1, <2>2, NextPut
  <2>. QED
    BY <2>1, <2>3, <2>4 DEF k
<1>4. c \in Met
  <2> HIDE DEF Met
  <2>1. \A n \in 0..c : n \in Met
    BY <1>1, <1>2, <1>3, Counting
  <2>. QED
    BY <1>1, <2>1
<1>. QED
  BY <1>1, <1>4

(* A text that neither begins nor ends with a character that is trimmed    *)
(* is all inner.                                                           *)
LEMMA AllInner ==
    ASSUME NEW D, NEW s \in Seq(D), s # <<>>, s[1] \notin P!Trimmed, s[Len(s)] \notin P!Trimmed
    PROVE  P!Inner(s) = 1..Len(s)
<1> DEFINE n == Len(s)
<1>1. n \in Nat /\ DOMAIN s = 1..n
  OBVIOUS
<1>2. \A k \in 1..n : 1 \in 1..k /\ n \in k..n
  BY <1>1
<1>. QED
  BY <1>1, <1>2 DEF P!Inner

(* What sanitize_path returns: the names of the path, spelled.             *)
Clean(s, path, D) ==
    /\ s \in Seq(D) /\ P!Components(path) \in Seq(Seq(D))
    /\ s = P!Join(P!Components(path)) /\ P!Components(s) = P!Components(path)
    /\ s = <<>> <=> P!Components(path) = <<>>
    /\ s # <<>> => s[1] \notin P!Trimmed /\ s[Len(s)] \notin P!Trimmed /\ P!Inner(s) = 1..Len(s)

(* It is that of every path.                                               *)
LEMMA Sanitizing ==
    ASSUME NEW C, NEW path \in Seq(C)
    PROVE  Clean(P!Sanitize(path), path, Letters(C))
<1> DEFINE D == Letters(C)
           s == P!Sanitize(path)
           ns == P!Components(path)
<1>1. CASE s = <<>> /\ P!Inner(path) = {}
  <2>1. ns = <<>>
    BY <1>1, NoNames DEF P!Components
  <2>2. P!Components(s) = <<>>
    <3>1. P!Inner(<<>>) = {}
      BY DEF P!Inner
    <3>. QED
      BY <1>1, <3>1, NoNames DEF P!Components
  <2>3. P!Join(<<>>) = <<>>
    <3> DEFINE none == <<>>
    <3>1. none \in Seq(Seq(D)) /\ Len(none) = 0
      OBVIOUS
    <3>2. "\\" \in D
      BY LettersStay
    <3> HIDE DEF none, D
    <3>3. PICK f : Spells(f, none, D) /\ P!Join(none) = f[Len(none)]
      BY <3>1, <3>2, Joined
    <3>. QED
      BY <3>1, <3>3 DEF Spells, none
  <2>4. <<>> \in Seq(D) /\ <<>> \in Seq(Seq(D))
    OBVIOUS
  <2> HIDE DEF s, ns, D
  <2>5. Clean(s, path, D)
    BY <1>1, <2>1, <2>2, <2>3, <2>4, Zenon DEF Clean, ns
  <2>. QED
    BY <2>5 DEF s, D
<1>2. ASSUME NEW low \in DOMAIN path, NEW last \in DOMAIN path, NEW out,
             low <= last, path[low] \notin P!Trimmed, path[last] \notin P!Trimmed,
             P!Inner(path) = low..last, Puts(out, path, low, last), P!Sanitize(path) = out[last]
      PROVE  Clean(s, path, D)
  <2>1. Tells(s, path, low, last, D)
    BY <1>2, AllPut
  <2>2. P!Names(path, low..last) = ns
    BY <1>2, Zenon DEF P!Components
  <2>3. path[last] \notin P!Separators
    BY <1>2 DEF P!Trimmed
  <2> HIDE DEF s, ns, D
  <2>4. /\ s \in Seq(D) /\ s # <<>> /\ s[1] \notin P!Trimmed /\ P!Names(s, 1..Len(s)) = ns /\ ns # <<>>
        /\ s[Len(s)] = P!Fold(path[last]) /\ s = P!Join(ns)
    BY <2>1, <2>2, <2>3 DEF Tells
  <2>5. s[Len(s)] \notin P!Trimmed
    BY <1>2, <2>4, Folding
  <2>6. P!Inner(s) = 1..Len(s)
    BY <2>4, <2>5, AllInner
  <2>7. P!Components(s) = ns
    BY <2>4, <2>6, Zenon DEF P!Components
  <2>8. ns \in Seq(Seq(D))
    <3>1. low..last \in SUBSET DOMAIN path
      OBVIOUS
    <3>2. P!Names(path, low..last) \in Seq(Seq(Letters(C)))
      BY <3>1, NamesType
    <3>. QED
      BY <2>2, <3>2 DEF D
  <2>. QED
    BY <2>4, <2>5, <2>6, <2>7, <2>8, Zenon DEF Clean, ns
<1>3. CASE \E low \in DOMAIN path, last \in DOMAIN path : \E out :
                 /\ low <= last /\ path[low] \notin P!Trimmed /\ path[last] \notin P!Trimmed
                 /\ P!Inner(path) = low..last /\ Puts(out, path, low, last)
                 /\ P!Sanitize(path) = out[last]
  BY <1>2, <1>3 DEF s, D
<1>. QED
  BY <1>1, <1>3, Sanitized

(* A text that is clean stays what it is.                                  *)
LEMMA SanitizedStays ==
    ASSUME NEW C, NEW path \in Seq(C)
    PROVE  P!Sanitize(P!Sanitize(path)) = P!Sanitize(path)
<1> DEFINE s == P!Sanitize(path)
<1>1. Clean(s, path, Letters(C))
  BY Sanitizing
<1> HIDE DEF s
<1>2. s \in Seq(Letters(C))
  BY <1>1 DEF Clean
<1>3. Clean(P!Sanitize(s), s, Letters(Letters(C)))
  BY <1>2, Sanitizing
<1>4. P!Sanitize(s) = s
  BY <1>1, <1>3, Zenon DEF Clean
<1>. QED
  BY <1>4 DEF s


(* What is left of a text without some characters at its end.              *)
Cut(w, txt, S, C) ==
    /\ w \in Seq(C) /\ Len(w) <= Len(txt) /\ \A k \in 1..Len(w) : w[k] = txt[k]
    /\ \A k \in (Len(w) + 1)..Len(txt) : txt[k] \in S
    /\ w # <<>> => w[Len(w)] \notin S

(* It is what WithoutTail returns.                                         *)
LEMMA Cutting ==
    ASSUME NEW C, NEW txt \in Seq(C), NEW S
    PROVE  Cut(P!WithoutTail(txt, S), txt, S, C)
<1> DEFINE K == {k \in DOMAIN txt : txt[k] \notin S}
           last == CHOOSE k \in K : \A j \in K : k >= j
<1>1. P!WithoutTail(txt, S) = IF K = {} THEN <<>> ELSE SubSeq(txt, 1, last)
  BY Zenon DEF P!WithoutTail
<1>2. DOMAIN txt = 1..Len(txt) /\ Len(txt) \in Nat
  OBVIOUS
<1>3. CASE K = {}
  <2>1. <<>> \in Seq(C) /\ Len(<<>>) = 0
    OBVIOUS
  <2>2. \A k \in 1..Len(txt) : txt[k] \in S
    BY <1>2, <1>3
  <2>. QED
    BY <1>1, <1>2, <1>3, <2>1, <2>2 DEF Cut
<1>4. CASE K # {}
  <2>1. K \in SUBSET (1..Len(txt))
    BY <1>2
  <2>2. \A k \in 1..Len(txt) : k \notin K => txt[k] \in S
    BY <1>2
  <2>3. \A k \in K : txt[k] \notin S
    OBVIOUS
  <2> HIDE DEF K
  <2>4. last \in K /\ \A j \in K : j <= last
    BY <1>2, <1>4, <2>1, Outermost
  <2> HIDE DEF last
  <2>5. last \in 1..Len(txt) /\ \A k \in (last + 1)..Len(txt) : k \in 1..Len(txt) /\ k \notin K
    BY <1>2, <2>1, <2>4
  <2> DEFINE w == SubSeq(txt, 1, last)
  <2>6. w \in Seq(C) /\ Len(w) = last /\ \A k \in 1..last : w[k] = txt[k]
    BY <1>2, <2>5
  <2> HIDE DEF w
  <2>7. last \in 1..last /\ last <= Len(txt)
    BY <1>2, <2>5
  <2>8. Cut(w, txt, S, C)
    BY <2>2, <2>3, <2>4, <2>5, <2>6, <2>7 DEF Cut
  <2>. QED
    BY <1>1, <1>4, <2>8 DEF w
<1>. QED
  BY <1>3, <1>4

(* Without characters at its end that are trimmed anyway, a text names the *)
(* same.                                                                   *)
LEMMA CutNames ==
    ASSUME NEW C, NEW txt \in Seq(C), NEW S \in SUBSET P!Trimmed, NEW w, Cut(w, txt, S, C)
    PROVE  P!Components(w) = P!Components(txt)
<1> DEFINE I == P!Inner(txt)
           m == Len(w)
           n == Len(txt)
<1>1. /\ w \in Seq(C) /\ m \in Nat /\ n \in Nat /\ m <= n /\ DOMAIN w = 1..m /\ DOMAIN txt = 1..n
      /\ \A k \in 1..m : w[k] = txt[k]
      /\ \A k \in (m + 1)..n : txt[k] \in P!Trimmed
  BY DEF Cut
<1>2. I = {k \in 1..n : \E i \in 1..k, j \in k..n : txt[i] \notin P!Trimmed /\ txt[j] \notin P!Trimmed}
  BY <1>1 DEF P!Inner
<1>3. P!Inner(w) = {k \in 1..m : \E i \in 1..k, j \in k..m : w[i] \notin P!Trimmed /\ w[j] \notin P!Trimmed}
  BY <1>1 DEF P!Inner
<1> HIDE DEF I, m, n
<1>4. ASSUME NEW k \in I
      PROVE  k \in P!Inner(w)
  <2>1. PICK i \in 1..k, j \in k..n : txt[i] \notin P!Trimmed /\ txt[j] \notin P!Trimmed
    BY <1>2, <1>4
  <2>2. k \in 1..n
    BY <1>2, <1>4
  <2>3. j <= m
    BY <1>1, <2>1, <2>2
  <2>4. k \in 1..m /\ j \in k..m /\ i \in 1..m /\ j \in 1..m
    BY <1>1, <2>1, <2>2, <2>3
  <2>. QED
    BY <1>1, <1>3, <2>1, <2>4
<1>5. ASSUME NEW k \in P!Inner(w)
      PROVE  k \in I
  <2>1. PICK i \in 1..k, j \in k..m : w[i] \notin P!Trimmed /\ w[j] \notin P!Trimmed
    BY <1>3, <1>5
  <2>2. k \in 1..m
    BY <1>3, <1>5
  <2>3. k \in 1..n /\ j \in k..n /\ i \in 1..m /\ j \in 1..m
    BY <1>1, <2>1, <2>2
  <2>. QED
    BY <1>1, <1>2, <2>1, <2>3
<1>6. P!Inner(w) = I
  BY <1>4, <1>5
<1>7. I \in SUBSET (1..m)
  BY <1>3, <1>6
<1>8. /\ I \in SUBSET Nat /\ I \subseteq DOMAIN w /\ I \subseteq DOMAIN txt
      /\ \A k \in I : P!Fold(w[k]) = P!Fold(txt[k])
  BY <1>1, <1>7
<1>9. IsFiniteSet(I)
  <2>1. 1 \in Int /\ m \in Int
    BY <1>1
  <2>2. IsFiniteSet(1..m)
    BY <2>1, FS_Interval
  <2>. QED
    BY <1>7, <2>2, FS_Subset
<1>10. P!Names(w, I) = P!Names(txt, I)
  BY <1>8, <1>9, NamesSame
<1>. QED
  BY <1>6, <1>10, Zenon DEF P!Components, I


-----------------------------------------------------------------------------
(* Names and prefixes.                                                     *)

(* A text begins with another.                                             *)
Begins(a, b) == Len(a) <= Len(b) /\ \A k \in 1..Len(a) : a[k] = b[k]

(* That is what the community modules call a prefix.                       *)
LEMMA PrefixesBegin ==
    ASSUME NEW X, NEW a \in Seq(X), NEW b \in Seq(X)
    PROVE  /\ P!IsPrefix(a, b) <=> Begins(a, b)
           /\ P!IsStrictPrefix(a, b) <=> Begins(a, b) /\ Len(a) < Len(b)
<1> DEFINE n == Len(a)
<1>1. n \in Nat /\ Len(b) \in Nat
  OBVIOUS
<1>2. SubSeq(a, 1, n) \in Seq(X) /\ Len(SubSeq(a, 1, n)) = n /\ \A k \in 1..n : SubSeq(a, 1, n)[k] = a[k]
  OBVIOUS
<1>3. ASSUME n <= Len(b)
      PROVE  SubSeq(b, 1, n) \in Seq(X) /\ Len(SubSeq(b, 1, n)) = n /\ \A k \in 1..n : SubSeq(b, 1, n)[k] = b[k]
  BY <1>1, <1>3
<1>4. ASSUME NEW u \in Seq(X), NEW v \in Seq(X), Len(u) = Len(v)
      PROVE  u = v <=> \A k \in 1..Len(u) : u[k] = v[k]
  <2>1. u = [k \in 1..Len(u) |-> u[k]] /\ v = [k \in 1..Len(v) |-> v[k]]
    OBVIOUS
  <2>2. ASSUME \A k \in 1..Len(u) : u[k] = v[k]
        PROVE  u = v
    BY <1>4, <2>1, <2>2
  <2>. QED
    BY <2>2
<1>5. n <= Len(b) => (SubSeq(a, 1, n) = SubSeq(b, 1, n) <=> \A k \in 1..n : a[k] = b[k])
  <2> DEFINE u == SubSeq(a, 1, n)
             v == SubSeq(b, 1, n)
  <2> SUFFICES ASSUME n <= Len(b)
               PROVE  u = v <=> \A k \in 1..n : a[k] = b[k]
    OBVIOUS
  <2>1. u \in Seq(X) /\ Len(u) = n /\ v \in Seq(X) /\ Len(v) = n
    BY <1>2, <1>3
  <2>2. \A k \in 1..n : u[k] = a[k] /\ v[k] = b[k]
    BY <1>2, <1>3
  <2> HIDE DEF u, v, n
  <2>3. u = v <=> \A k \in 1..n : u[k] = v[k]
    BY <1>4, <2>1
  <2>. QED
    BY <2>2, <2>3
<1>6. P!IsPrefix(a, b) <=> Begins(a, b)
  BY <1>5, Zenon DEF P!IsPrefix, Begins
<1>7. ASSUME Begins(a, b)
      PROVE  a # b <=> Len(a) < Len(b)
  <2>1. n <= Len(b) /\ \A k \in 1..n : a[k] = b[k]
    BY <1>7 DEF Begins
  <2>2. n = Len(b) => a = b
    BY <1>4, <2>1
  <2>. QED
    BY <1>1, <2>1, <2>2
<1>8. P!IsStrictPrefix(a, b) <=> P!IsPrefix(a, b) /\ a # b
  BY Zenon DEF P!IsStrictPrefix
<1>. QED
  BY <1>6, <1>7, <1>8

(* The text of some names begins with that of the first of them and, where *)
(* there are more, with a separator behind it.                             *)
LEMMA JoinBegins ==
    ASSUME NEW D, "\\" \in D, NEW a \in Seq(Seq(D)), NEW b \in Seq(Seq(D)), a # <<>>, Begins(a, b), Len(a) < Len(b)
    PROVE  Begins(Append(P!Join(a), "\\"), P!Join(b))
<1> DEFINE n == Len(a)
           c == Len(b)
<1>1. n \in Nat /\ c \in Nat /\ n >= 1 /\ n < c /\ n + 1 \in 1..c /\ n \in 0..c
  <2>1. n \in Nat /\ c \in Nat /\ n # 0
    OBVIOUS
  <2>. QED
    BY <2>1
<1>2. PICK f : Spells(f, a, D) /\ P!Join(a) = f[n]
  BY Joined
<1>3. PICK g : Spells(g, b, D) /\ P!Join(b) = g[c]
  BY Joined
<1>4. f[n] = g[n]
  <2>1. Alike(a, b, n)
    BY <1>1 DEF Begins, Alike
  <2>. QED
    BY <1>1, <1>2, <1>3, <2>1, SpelledAlike
<1>5. g \in [0..c -> Seq(D)] /\ \A k \in 1..c : b[k] \in Seq(D)
  BY <1>3 DEF Spells
<1> HIDE DEF n, c
<1>6. ASSUME NEW k \in 2..c
      PROVE  g[k] = g[k - 1] \o <<"\\">> \o b[k] /\ k \in 1..c /\ k - 1 \in 0..c /\ k \in 0..c
  <2>1. k \in 1..c /\ k # 1 /\ k - 1 \in 0..c /\ k \in 0..c
    BY <1>1
  <2>. QED
    BY <1>3, <2>1 DEF Spells, c
<1>7. ASSUME NEW k \in 2..c
      PROVE  Begins(Append(g[k - 1], "\\"), g[k])
  <2> DEFINE s == g[k - 1]
             w == b[k]
  <2>1. s \in Seq(D) /\ w \in Seq(D) /\ g[k] = s \o <<"\\">> \o w
    BY <1>5, <1>6, <1>7
  <2> HIDE DEF s, w
  <2>2. Begins(Append(s, "\\"), s \o <<"\\">> \o w)
    BY <2>1 DEF Begins
  <2>. QED
    BY <2>1, <2>2 DEF s
<1> DEFINE z == Append(g[n], "\\")
<1>8. z \in Seq(D) /\ Len(z) \in Nat
  BY <1>1, <1>5
<1> DEFINE d == c - (n + 1)
           Met == {i \in 0..d : Begins(z, g[(n + 1) + i])}
<1>9. d \in Nat /\ (n + 1) + d = c /\ (n + 1) + 0 = n + 1 /\ n + 1 \in 2..c /\ (n + 1) - 1 = n
  BY <1>1
<1> HIDE DEF d
<1>10. 0 \in Met
  <2>1. Begins(z, g[n + 1])
    BY <1>7, <1>9
  <2>. QED
    BY <1>9, <2>1
<1>11. ASSUME NEW i \in 1..d, i - 1 \in Met
       PROVE  i \in Met
  <2> DEFINE k == (n + 1) + i
             s == g[k - 1]
  <2>1. k \in 2..c /\ (n + 1) + (i - 1) = k - 1 /\ i \in 0..d
    BY <1>1, <1>9
  <2>2. Begins(z, s)
    BY <1>11, <2>1
  <2>3. Begins(Append(s, "\\"), g[k]) /\ s \in Seq(D) /\ g[k] \in Seq(D)
    BY <1>5, <1>6, <1>7, <2>1
  <2> DEFINE u == g[k]
  <2> HIDE DEF s, z, u
  <2>4. Begins(z, u)
    <3>1. u \in Seq(D) /\ s \in Seq(D) /\ Begins(Append(s, "\\"), u)
      BY <2>3 DEF u
    <3> DEFINE y == Append(s, "\\")
    <3>2. Len(s) \in Nat /\ Len(u) \in Nat /\ Len(y) = Len(s) + 1 /\ \A j \in 1..Len(s) : y[j] = s[j]
      BY <3>1
    <3> HIDE DEF y
    <3>8. Len(y) <= Len(u) /\ \A j \in 1..Len(y) : y[j] = u[j]
      BY <3>1 DEF y, Begins
    <3>3. Begins(s, u)
      BY <3>2, <3>8 DEF Begins
    <3>4. Len(z) <= Len(s) /\ Len(s) <= Len(u)
      BY <2>2, <3>3 DEF Begins
    <3>5. \A j \in 1..Len(z) : j \in 1..Len(s)
      BY <1>8, <3>2, <3>4
    <3>6. \A j \in 1..Len(z) : z[j] = u[j]
      BY <2>2, <3>3, <3>5 DEF Begins
    <3>7. Len(z) <= Len(u)
      BY <1>8, <3>2, <3>4
    <3>. QED
      BY <3>6, <3>7 DEF Begins
  <2>. QED
    BY <2>1, <2>4 DEF u
<1>12. d \in Met
  <2> HIDE DEF Met
  <2>1. \A i \in 0..d : i \in Met
    BY <1>9, <1>10, <1>11, Counting
  <2>. QED
    BY <1>9, <2>1
<1>13. Begins(z, g[c])
  BY <1>9, <1>12
<1>. QED
  BY <1>2, <1>3, <1>4, <1>13 DEF n, c


(* The names met so far in e begin with some others, and are those only at *)
(* a separator.                                                            *)
Past(named, e, k) ==
    LET ns == P!Names(e, 1..k)
    IN  Begins(named, ns) /\ (Len(ns) = Len(named) => e[k] \in P!Separators)

(* Further on there are no fewer names.                                    *)
LEMMA PastGrows ==
    ASSUME NEW D, Letters(D) = D, NEW named \in Seq(Seq(D)), NEW e \in Seq(D), NEW k \in 2..Len(e), Past(named, e, k - 1)
    PROVE  Past(named, e, k)
<1> DEFINE old == P!Names(e, 1..(k - 1))
           new == P!Names(e, 1..k)
           d == P!Fold(e[k])
<1>1. DOMAIN e = 1..Len(e) /\ 1 \in DOMAIN e /\ k \in DOMAIN e /\ 1 <= k /\ k # 1 /\ k > 1 /\ k - 1 \in DOMAIN e
  OBVIOUS
<1>2. old \in Seq(Seq(D)) /\ new \in Seq(Seq(D)) /\ d \in D
  <2>1. 1..(k - 1) \in SUBSET DOMAIN e /\ 1..k \in SUBSET DOMAIN e /\ e[k] \in D
    BY <1>1
  <2>2. old \in Seq(Seq(Letters(D))) /\ new \in Seq(Seq(Letters(D)))
    BY <2>1, NamesType
  <2>3. d \in Letters(D)
    BY <2>1, LettersStay
  <2>. QED
    BY <2>2, <2>3
<1>3. Begins(named, old) /\ (Len(old) = Len(named) => e[k - 1] \in P!Separators)
  BY DEF Past
<1>4. CASE e[k] \in P!Separators
  <2>1. Same(new, old)
    BY <1>1, <1>4, NamesGrow
  <2>2. new = old
    BY <2>1, Zenon DEF Same
  <2> HIDE DEF new, old
  <2>3. Begins(named, new)
    BY <1>3, <2>2
  <2>. QED
    BY <1>4, <2>3 DEF Past, new
<1>5. ASSUME Begins(named, new), Len(new) > Len(named)
      PROVE  Past(named, e, k)
  <2>1. Len(new) \in Nat /\ Len(named) \in Nat
    BY <1>2
  <2> HIDE DEF new
  <2>2. Len(new) # Len(named)
    BY <1>5, <2>1
  <2>. QED
    BY <1>5, <2>2 DEF Past, new
<1>6. ASSUME NEW q \in Seq(Seq(D)), NEW v \in Seq(D), Grown(new, q, v), Begins(named, q)
      PROVE  Past(named, e, k)
  <2>6. new = Append(q, v)
    BY <1>6, Zenon DEF Grown
  <2> HIDE DEF new
  <2>1. Len(q) \in Nat /\ Len(named) \in Nat /\ Len(new) = Len(q) + 1 /\ \A i \in 1..Len(q) : new[i] = q[i]
    BY <2>6
  <2>2. Len(named) <= Len(q) /\ \A i \in 1..Len(named) : named[i] = q[i]
    BY <1>6 DEF Begins
  <2>3. \A i \in 1..Len(named) : i \in 1..Len(q)
    BY <2>1, <2>2
  <2>4. Len(named) <= Len(new) /\ Len(new) > Len(named)
    BY <2>1, <2>2
  <2>5. Begins(named, new)
    BY <2>1, <2>2, <2>3, <2>4 DEF Begins
  <2>. QED
    BY <1>5, <2>4, <2>5
<1>7. CASE e[k] \notin P!Separators /\ e[k - 1] \in P!Separators
  <2>1. Grown(new, old, <<d>>)
    BY <1>1, <1>7, NamesGrow
  <2>2. <<d>> \in Seq(D)
    BY <1>2
  <2> HIDE DEF new, old, d
  <2>. QED
    BY <1>2, <1>3, <1>6, <2>1, <2>2
<1>8. CASE e[k] \notin P!Separators /\ e[k - 1] \notin P!Separators
  <2>1. Longer(new, old, d, Letters(D))
    BY <1>1, <1>8, NamesGrow
  <2> HIDE DEF new, old, d
  <2>2. PICK q \in Seq(Seq(D)), v \in Seq(D) : Grown(old, q, v) /\ Grown(new, q, Append(v, d))
    BY <2>1 DEF Longer
  <2>3. Append(v, d) \in Seq(D)
    BY <1>2
  <2>4. /\ Len(named) \in Nat /\ Len(q) \in Nat /\ Len(old) = Len(q) + 1 /\ Len(old) # Len(named) /\ Len(named) <= Len(old)
        /\ \A i \in 1..Len(q) : old[i] = q[i]
        /\ \A i \in 1..Len(named) : named[i] = old[i]
    <3>1. Len(named) \in Nat /\ Len(q) \in Nat /\ Len(old) = Len(q) + 1 /\ \A i \in 1..Len(q) : old[i] = q[i]
      BY <2>2 DEF Grown
    <3>. QED
      BY <1>3, <1>8, <3>1 DEF Begins
  <2>5. Len(named) <= Len(q) /\ \A i \in 1..Len(named) : i \in 1..Len(q)
    BY <2>4
  <2>6. Begins(named, q)
    BY <2>4, <2>5 DEF Begins
  <2>. QED
    BY <1>6, <2>2, <2>3, <2>6
<1>. QED
  BY <1>4, <1>7, <1>8

(* A clean text and a separator begin another one exactly where its names  *)
(* are the first, but not all, of the other's.                             *)
LEMMA Beneath ==
    ASSUME NEW C, NEW a, NEW w, NEW e, Clean(a, w, Letters(C)), a # <<>>, Clean(e, e, Letters(C)), e # <<>>
    PROVE  P!IsPrefix(a \o <<"\\">>, e) <=> P!IsStrictPrefix(P!Components(w), P!Components(e))
<1> DEFINE D == Letters(C)
           named == P!Components(w)
           all == P!Components(e)
           z == Append(a, "\\")
           q == Len(a)
<1>1. /\ a \in Seq(D) /\ named \in Seq(Seq(D)) /\ a = P!Join(named) /\ P!Components(a) = named /\ named # <<>>
      /\ P!Inner(a) = 1..Len(a)
  BY DEF Clean
<1>2. /\ e \in Seq(D) /\ all \in Seq(Seq(D)) /\ e = P!Join(all) /\ P!Inner(e) = 1..Len(e) /\ e[Len(e)] \notin P!Trimmed
  BY DEF Clean
<1>3. "\\" \in D /\ Letters(D) = D /\ "\\" \in P!Separators
  BY LettersStay DEF P!Separators
<1> HIDE DEF D, named, all
<1>4. z \in Seq(D) /\ a \o <<"\\">> = z /\ q \in Nat /\ Len(z) = q + 1 /\ z[q + 1] = "\\" /\ \A k \in 1..q : z[k] = a[k]
  BY <1>1, <1>3
<1> HIDE DEF z
<1>5. P!IsPrefix(z, e) <=> Begins(z, e)
  BY <1>2, <1>4, PrefixesBegin
<1>6. P!IsStrictPrefix(named, all) <=> Begins(named, all) /\ Len(named) < Len(all)
  BY <1>1, <1>2, PrefixesBegin
<1>7. ASSUME Begins(named, all), Len(named) < Len(all)
      PROVE  Begins(z, e)
  <2>1. Begins(Append(P!Join(named), "\\"), P!Join(all))
    BY <1>1, <1>2, <1>3, <1>7, JoinBegins
  <2>. QED
    BY <1>1, <1>2, <2>1, Zenon DEF z
<1>8. ASSUME Begins(z, e)
      PROVE  Begins(named, all) /\ Len(named) < Len(all)
  <2> DEFINE c == Len(e)
  <2>1. c \in Nat /\ q + 1 <= c /\ DOMAIN e = 1..c /\ DOMAIN a = 1..q /\ \A k \in 1..(q + 1) : e[k] = z[k]
    BY <1>1, <1>2, <1>4, <1>8 DEF Begins
  <2>2. e[q + 1] = "\\" /\ \A k \in 1..q : e[k] = a[k]
    <3>1. q + 1 \in 1..(q + 1) /\ \A k \in 1..q : k \in 1..(q + 1)
      BY <1>4
    <3>. QED
      BY <1>4, <2>1, <3>1
  <2>3. P!Names(e, 1..q) = named
    <3>1. P!Names(a, 1..q) = named
      BY <1>1, Zenon DEF P!Components
    <3>2. 1..q \in SUBSET Nat /\ 1..q \subseteq DOMAIN e /\ 1..q \subseteq DOMAIN a /\ \A k \in 1..q : P!Fold(e[k]) = P!Fold(a[k])
      BY <1>4, <2>1, <2>2
    <3>3. IsFiniteSet(1..q)
      <4>1. 1 \in Int /\ q \in Int
        BY <1>4
      <4>. QED
        BY <4>1, FS_Interval
    <3>4. P!Names(e, 1..q) = P!Names(a, 1..q)
      BY <3>2, <3>3, NamesSame
    <3>. QED
      BY <3>1, <3>4
  <2>4. Past(named, e, q + 1)
    <3>1. 1 \in DOMAIN e /\ q + 1 \in DOMAIN e /\ 1 <= q + 1 /\ (q + 1) - 1 = q /\ e[q + 1] \in P!Separators
      BY <1>3, <1>4, <2>1, <2>2
    <3>2. Same(P!Names(e, 1..(q + 1)), P!Names(e, 1..((q + 1) - 1)))
      BY <1>2, <3>1, NamesGrow
    <3>3. P!Names(e, 1..(q + 1)) = named
      BY <2>3, <3>1, <3>2, Zenon DEF Same
    <3>4. Begins(named, named)
      BY <1>1 DEF Begins
    <3>. QED
      BY <3>1, <3>3, <3>4 DEF Past
  <2> DEFINE d == c - (q + 1)
             Met == {i \in 0..d : Past(named, e, (q + 1) + i)}
  <2>5. d \in Nat /\ (q + 1) + d = c /\ (q + 1) + 0 = q + 1
    BY <1>4, <2>1
  <2> HIDE DEF d
  <2>6. 0 \in Met
    BY <2>4, <2>5
  <2>7. ASSUME NEW i \in 1..d, i - 1 \in Met
        PROVE  i \in Met
    <3>1. (q + 1) + i \in 2..c /\ (q + 1) + (i - 1) = ((q + 1) + i) - 1 /\ i \in 0..d
      BY <1>4, <2>1, <2>5
    <3>2. Past(named, e, ((q + 1) + i) - 1)
      BY <2>7, <3>1
    <3> DEFINE k == (q + 1) + i
    <3>3. k \in 2..Len(e) /\ Past(named, e, k - 1)
      BY <3>1, <3>2
    <3> HIDE DEF k
    <3>4. Past(named, e, k)
      BY <1>1, <1>2, <1>3, <3>3, PastGrows
    <3>. QED
      BY <3>1, <3>4 DEF k
  <2>8. Past(named, e, c)
    <3> HIDE DEF Met
    <3>1. \A i \in 0..d : i \in Met
      BY <2>5, <2>6, <2>7, Counting
    <3>. QED
      BY <2>5, <3>1 DEF Met
  <2>9. P!Names(e, 1..c) = all
    BY <1>2, Zenon DEF P!Components, all
  <2>10. e[c] \notin P!Separators
    BY <1>2 DEF P!Trimmed
  <2>11. Begins(named, all) /\ Len(all) # Len(named)
    BY <2>8, <2>9, <2>10, Zenon DEF Past
  <2>12. Len(named) \in Nat /\ Len(all) \in Nat /\ Len(named) <= Len(all)
    BY <1>1, <1>2, <2>11 DEF Begins
  <2>. QED
    BY <2>11, <2>12
<1>9. P!IsPrefix(z, e) <=> P!IsStrictPrefix(named, all)
  BY <1>5, <1>6, <1>7, <1>8
<1>. QED
  BY <1>4, <1>9, Zenon DEF named, all


-----------------------------------------------------------------------------
(* The spellings of a path, in the calls of PathText.                      *)

(* A text over some characters is one over more of them.                   *)
LEMMA MoreLetters ==
    ASSUME NEW s, IsText(s), NEW C, Range(s) \subseteq C
    PROVE  s \in Seq(C)
<1>1. s \in Seq(Range(s))
  BY DEF IsText
<1>2. s = [k \in 1..Len(s) |-> s[k]] /\ Len(s) \in Nat /\ \A k \in 1..Len(s) : s[k] \in Range(s)
  BY <1>1
<1>. QED
  BY <1>2

(* The files of a depot are clean.                                         *)
LEMMA DepotsClean ==
    ASSUME NEW files, IsDepot(files), NEW e \in files, NEW C, Range(e) \subseteq C
    PROVE  e # <<>> /\ Clean(e, e, Letters(C))
<1>1. IsText(e) /\ e # <<>> /\ P!Sanitize(e) = e
  BY DEF IsDepot
<1>2. e \in Seq(C)
  BY <1>1, MoreLetters
<1>3. Clean(P!Sanitize(e), e, Letters(C))
  BY <1>2, Sanitizing
<1>. QED
  BY <1>1, <1>3

(* A file is the only one of its names.                                    *)
LEMMA OneFile ==
    ASSUME NEW D, NEW E, NEW a, NEW w, Clean(a, w, D), NEW e, Clean(e, e, E), P!Components(w) = P!Components(e)
    PROVE  a = e
BY Zenon DEF Clean

(* What a line adds to the dictionary is the file it names, if there is.   *)
LEMMA ListSpelled ==
    ASSUME NEW line, IsText(line), NEW files, IsDepot(files)
    PROVE  P!Line(line, files) = {e \in files : P!Components(e) = P!Components(line)}
<1> DEFINE S == {"\r", " "}
           w == P!WithoutTail(line, S)
           s == P!Sanitize(w)
           C == Range(line)
           named == P!Components(line)
<1>1. line \in Seq(C)
  BY DEF IsText
<1> HIDE DEF C
<1>2. Cut(w, line, S, C)
  BY <1>1, Cutting
<1>3. P!Components(w) = named
  <2>1. S \in SUBSET P!Trimmed
    BY DEF P!Trimmed
  <2> HIDE DEF S, w
  <2>. QED
    BY <1>1, <1>2, <2>1, CutNames
<1>4. w \in Seq(C)
  <2> HIDE DEF w
  <2>. QED
    BY <1>2 DEF Cut
<1>5. P!Line(line, files) = IF w = <<>> THEN {} ELSE IF w \in files THEN {w} ELSE {s} \cap files
  BY Zenon DEF P!Line
<1> HIDE DEF S, w
<1>6. Clean(s, w, Letters(C))
  BY <1>4, Sanitizing
<1> HIDE DEF s, named
<1>7. \A e \in files : e # <<>> /\ Clean(e, e, Letters(Range(e)))
  BY DepotsClean
<1>8. CASE w = <<>>
  <2>1. named = <<>>
    <3>1. P!Inner(<<>>) = {}
      BY DEF P!Inner
    <3>. QED
      BY <1>3, <1>8, <3>1, NoNames DEF P!Components
  <2>2. \A e \in files : P!Components(e) # <<>>
    BY <1>7, Zenon DEF Clean
  <2>. QED
    BY <1>5, <1>8, <2>1, <2>2 DEF named
<1>9. CASE w # <<>> /\ w \in files
  <2>1. \A e \in files : P!Components(e) = named => e = w
    BY <1>3, <1>7, <1>9, OneFile
  <2>. QED
    BY <1>3, <1>5, <1>9, <2>1 DEF named
<1>10. CASE w # <<>> /\ w \notin files
  <2>1. \A e \in files : P!Components(e) = named => e = s
    BY <1>3, <1>6, <1>7, OneFile
  <2>2. P!Components(s) = named
    BY <1>3, <1>6, Zenon DEF Clean
  <2>. QED
    BY <1>5, <1>10, <2>1, <2>2 DEF named
<1>. QED
  BY <1>8, <1>9, <1>10


(* A pattern ends in a separator when only noise follows its last one.     *)
Closed(txt) ==
    \E k \in DOMAIN txt : txt[k] \in P!Separators /\ \A j \in (k + 1)..Len(txt) : txt[j] \in P!Noise

(* That is what paths_find looks for behind the noise.                     *)
LEMMA Closing ==
    ASSUME NEW C, NEW txt \in Seq(C)
    PROVE  P!EndsInSeparator(txt) <=> Closed(txt)
<1> DEFINE w == P!WithoutTail(txt, P!Noise)
           n == Len(txt)
           m == Len(w)
<1>1. Cut(w, txt, P!Noise, C)
  BY Cutting
<1>2. P!EndsInSeparator(txt) <=> w # <<>> /\ w[m] \in P!Separators
  BY Zenon DEF P!EndsInSeparator, P!Last
<1> HIDE DEF w
<1>3. /\ m \in Nat /\ n \in Nat /\ m <= n /\ DOMAIN txt = 1..n
      /\ w # <<>> <=> m # 0
      /\ \A k \in 1..m : w[k] = txt[k]
      /\ \A k \in (m + 1)..n : txt[k] \in P!Noise
      /\ w # <<>> => w[m] \notin P!Noise
  <2>1. w \in Seq(C) /\ m <= n
    BY <1>1 DEF Cut
  <2>2. m \in Nat /\ (w # <<>> <=> m # 0) /\ n \in Nat /\ DOMAIN txt = 1..n
    BY <2>1
  <2>. QED
    BY <1>1, <2>1, <2>2 DEF Cut
<1>4. \A c \in P!Separators : c \notin P!Noise
  BY DEF P!Separators, P!Noise
<1> HIDE DEF n, m
<1>5. ASSUME w # <<>>, w[m] \in P!Separators
      PROVE  Closed(txt)
  <2>1. m \in 1..m /\ m \in DOMAIN txt
    BY <1>3, <1>5
  <2>. QED
    BY <1>3, <1>5, <2>1 DEF Closed, n
<1>6. ASSUME Closed(txt)
      PROVE  w # <<>> /\ w[m] \in P!Separators
  <2>1. PICK k \in 1..n : txt[k] \in P!Separators /\ \A j \in (k + 1)..n : txt[j] \in P!Noise
    BY <1>3, <1>6 DEF Closed, n
  <2>2. k <= m
    BY <1>3, <1>4, <2>1
  <2>3. m # 0 /\ m \in 1..m /\ m \in 1..n
    BY <1>3, <2>2
  <2>4. ~(m \in (k + 1)..n)
    BY <1>3, <2>1, <2>3
  <2>5. m = k
    BY <1>3, <2>2, <2>3, <2>4
  <2>. QED
    BY <1>3, <2>1, <2>3, <2>5
<1>. QED
  BY <1>2, <1>5, <1>6

(* A pattern without wildcards finds the path it names or, if it ends in a *)
(* separator, all that lies beneath it.                                    *)
LEMMA FindSpelled ==
    ASSUME NEW txt, IsText(txt), Range(txt) \cap {"*", "?"} = {}, P!Pattern(txt) # <<>>,
           NEW files, IsDepot(files), NEW e \in files
    PROVE  P!Finds(P!Pattern(txt), e) <=>
               LET named == P!Components(P!WithoutTail(txt, P!Noise))
               IN  IF Closed(txt) THEN P!IsStrictPrefix(named, P!Components(e)) ELSE named = P!Components(e)
<1> DEFINE C == Range(txt)
           B == C \cup Range(e)
           w == P!WithoutTail(txt, P!Noise)
           named == P!Components(w)
           pat == P!Sanitize(w)
           glob == P!Pattern(txt)
<1>1. txt \in Seq(C) /\ "*" \notin C
  BY DEF IsText
<1>2. txt \in Seq(B)
  BY MoreLetters
<1>3. e # <<>> /\ Clean(e, e, Letters(B))
  BY DepotsClean
<1> HIDE DEF B, C
<1>4. w \in Seq(C) /\ w \in Seq(B)
  <2>1. Cut(w, txt, P!Noise, C) /\ Cut(w, txt, P!Noise, B)
    BY <1>1, <1>2, Cutting
  <2> HIDE DEF w
  <2>. QED
    BY <2>1 DEF Cut
<1>5. Closed(txt) <=> P!EndsInSeparator(txt)
  BY <1>1, Closing
<1>6. glob = IF ~P!EndsInSeparator(txt) THEN pat ELSE IF pat = <<>> THEN <<"*">> ELSE pat \o <<"\\", "*">>
  BY Zenon DEF P!Pattern
<1> HIDE DEF w
<1>7. Clean(pat, w, Letters(C)) /\ Clean(pat, w, Letters(B))
  BY <1>4, Sanitizing
<1>8. glob # <<>>
  OBVIOUS
<1> HIDE DEF glob, pat
<1>9. P!Finds(glob, e) <=> IF P!Last(glob) = "*" THEN P!IsPrefix(P!Front(glob), e) ELSE glob = e
  BY Zenon DEF P!Finds
<1>10. pat \in Seq(Letters(C)) /\ "*" \notin Letters(C)
  <2>1. \A c \in C : P!Fold(c) # "*"
    BY <1>1, Folding
  <2>2. pat \in Seq(Letters(C))
    BY <1>7 DEF Clean
  <2>. QED
    BY <2>1, <2>2 DEF Letters
<1>11. CASE ~Closed(txt)
  <2>1. glob = pat /\ pat # <<>>
    BY <1>5, <1>6, <1>8, <1>11
  <2>2. pat[Len(pat)] # "*"
    <3> DEFINE D == Letters(C)
    <3> HIDE DEF D
    <3>1. pat \in Seq(D) /\ pat # <<>> /\ "*" \notin D
      BY <1>10, <2>1 DEF D
    <3>2. pat[Len(pat)] \in D
      BY <3>1
    <3>. QED
      BY <3>1, <3>2
  <2>3. P!Finds(glob, e) <=> pat = e
    BY <1>9, <2>1, <2>2, Zenon DEF P!Last
  <2>4. pat = e => named = P!Components(e)
    BY <1>7, Zenon DEF Clean
  <2>5. named = P!Components(e) => pat = e
    BY <1>3, <1>7, OneFile
  <2>. QED
    BY <1>11, <2>3, <2>4, <2>5 DEF glob, w
<1>12. CASE Closed(txt) /\ pat = <<>>
  <2>1. glob = <<"*">>
    BY <1>5, <1>6, <1>12
  <2>2. P!Last(glob) = "*" /\ P!Front(glob) = <<>>
    BY <2>1 DEF P!Last, P!Front
  <2> DEFINE D == Letters(B)
             none == <<>>
             all == P!Components(e)
  <2>3. none \in Seq(D) /\ e \in Seq(D) /\ named = <<>> /\ all \in Seq(Seq(D)) /\ all # <<>>
    BY <1>3, <1>7, <1>12 DEF Clean
  <2>4. <<>> \in Seq(Seq(D)) /\ Len(<<>>) = 0
    OBVIOUS
  <2> HIDE DEF D, all, none, named
  <2>5. Len(all) \in Nat /\ Len(all) > 0
    <3>1. Len(all) \in Nat /\ Len(all) # 0
      BY <2>3
    <3>. QED
      BY <3>1
  <2>6. Begins(none, e) /\ Begins(named, all) /\ Len(named) < Len(all) /\ named \in Seq(Seq(D))
    <3>1. Len(e) \in Nat
      BY <2>3
    <3>. QED
      BY <2>3, <2>4, <2>5, <3>1 DEF Begins, none
  <2>7. P!IsPrefix(none, e)
    BY <2>3, <2>6, PrefixesBegin
  <2>8. P!IsStrictPrefix(named, all)
    BY <2>3, <2>6, PrefixesBegin
  <2>9. P!Finds(glob, e)
    BY <1>9, <2>2, <2>7, Zenon DEF none
  <2>. QED
    BY <1>12, <2>8, <2>9 DEF glob, named, w, all
<1>13. CASE Closed(txt) /\ pat # <<>>
  <2>1. glob = pat \o <<"\\", "*">>
    BY <1>5, <1>6, <1>13
  <2> DEFINE D == Letters(C) \cup {"\\", "*"}
             s == pat \o <<"\\", "*">>
  <2>2. pat \in Seq(D)
    <3>1. pat = [k \in 1..Len(pat) |-> pat[k]] /\ Len(pat) \in Nat /\ \A k \in 1..Len(pat) : pat[k] \in D
      BY <1>10
    <3>. QED
      BY <3>1
  <2>3. Len(s) = Len(pat) + 2 /\ s[Len(s)] = "*" /\ SubSeq(s, 1, Len(s) - 1) = pat \o <<"\\">>
    <3>1. "\\" \in D /\ "*" \in D
      OBVIOUS
    <3> HIDE DEF D
    <3>2. Len(s) = Len(pat) + 2 /\ s[Len(s)] = "*"
      BY <2>2, <3>1
    <3>3. SubSeq(s, 1, Len(s) - 1) = pat \o <<"\\">>
      BY <2>2, <3>1
    <3>. QED
      BY <3>2, <3>3
  <2> HIDE DEF s
  <2>4. P!Last(glob) = "*" /\ P!Front(glob) = pat \o <<"\\">>
    BY <2>1, <2>3, Zenon DEF P!Last, P!Front, s
  <2>5. P!IsPrefix(pat \o <<"\\">>, e) <=> P!IsStrictPrefix(named, P!Components(e))
    BY <1>3, <1>7, <1>13, Beneath
  <2>6. P!Finds(glob, e) <=> P!IsStrictPrefix(named, P!Components(e))
    BY <1>9, <2>4, <2>5, Zenon
  <2>. QED
    BY <1>13, <2>6 DEF glob, w
<1>. QED
  BY <1>11, <1>12, <1>13


(* The texts are among the calls, and their spellings agree.               *)
TextInv == input \in Texts /\ P!SpellingsAgree

(* A call whose answer is not there yet has nothing to agree with; each    *)
(* call answers as it should.                                              *)
LEMMA TextStep == TextInv /\ P!Next => TextInv'
<1> SUFFICES ASSUME TextInv, P!Next
             PROVE  TextInv'
  OBVIOUS
<1>1. input \in Texts /\ input' = input
  BY Zenon DEF TextInv, P!Next, P!HashN, P!PathsFind, P!PathsLoad
<1>2. /\ input.op \in {"hash", "find"} => IsText(input.text)
      /\ input.op = "find" => Range(input.text) \cap {"*", "?"} = {}
      /\ input.op = "load" => \A k \in DOMAIN input.lines : IsText(input.lines[k])
      /\ input.op \in {"find", "load"} => IsDepot(input.depot)
  BY <1>1, TextsAssumption
<1>3. ASSUME P!HashN
      PROVE  P!SpellingsAgree'
  <2> DEFINE C == Range(input.text)
             path == input.text
             s == P!Sanitize(path)
  <2>1. input.op = "hash" /\ output' = [status |-> "OK", path |-> s]
    BY <1>3, Zenon DEF P!HashN, P!Calling
  <2>2. path \in Seq(C)
    BY <1>2, <2>1 DEF IsText
  <2>3. Clean(s, path, Letters(C)) /\ P!Sanitize(s) = s
    BY <2>2, Sanitizing, SanitizedStays
  <2>4. s = P!Join(P!Components(path)) /\ P!Components(s) = P!Components(path)
    BY <2>3, Zenon DEF Clean
  <2> HIDE DEF s
  <2>5. output'.path = s
    BY <2>1
  <2>6. P!HashAgrees'
    BY <1>1, <2>3, <2>4, <2>5, Zenon DEF P!HashAgrees
  <2>7. input'.op = "hash"
    BY <1>1, <2>1, Zenon
  <2>8. "hash" # "find" /\ "hash" # "load"
    OBVIOUS
  <2>9. P!PatternAgrees' /\ P!ListAgrees'
    BY <2>7, <2>8, Zenon DEF P!PatternAgrees, P!ListAgrees
  <2>. QED
    BY <2>6, <2>9, Zenon DEF P!SpellingsAgree
<1>4. ASSUME P!PathsFind
      PROVE  P!SpellingsAgree'
  <2> DEFINE glob == P!Pattern(input.text)
  <2>1. input.op = "find" /\ output' = [status |-> IF glob = <<>> THEN "INVALID_ARG" ELSE "OK", pattern |-> glob]
    BY <1>4, Zenon DEF P!PathsFind, P!Calling
  <2>2. output'.pattern = glob /\ (output'.status = "OK" => glob # <<>>)
    <3> HIDE DEF glob
    <3>. QED
      BY <2>1
  <2>3. IsText(input.text) /\ Range(input.text) \cap {"*", "?"} = {} /\ IsDepot(input.depot)
    BY <1>2, <2>1
  <2>4. ASSUME output'.status = "OK", NEW e \in input.depot
        PROVE  P!Finds(glob, e) <=>
                   IF Closed(input.text)
                   THEN P!IsStrictPrefix(P!Components(P!WithoutTail(input.text, P!Noise)), P!Components(e))
                   ELSE P!Components(P!WithoutTail(input.text, P!Noise)) = P!Components(e)
    BY <2>2, <2>3, <2>4, FindSpelled
  <2> HIDE DEF glob
  <2>5. P!PatternAgrees'
    BY <1>1, <2>2, <2>4, Zenon DEF P!PatternAgrees, Closed
  <2>6. input'.op = "find"
    BY <1>1, <2>1, Zenon
  <2>7. "hash" # "find" /\ "find" # "load"
    OBVIOUS
  <2>8. P!HashAgrees' /\ P!ListAgrees'
    BY <2>6, <2>7, Zenon DEF P!HashAgrees, P!ListAgrees
  <2>. QED
    BY <2>5, <2>8, Zenon DEF P!SpellingsAgree
<1>5. ASSUME P!PathsLoad
      PROVE  P!SpellingsAgree'
  <2> DEFINE lines == [k \in DOMAIN input.lines |-> P!Line(input.lines[k], input.depot)]
  <2>1. /\ input.op = "load"
        /\ output' = [status |-> P!ReadList(input.file), kept |-> IF P!ReadList(input.file) # "OK" THEN <<>> ELSE lines]
    BY <1>5, Zenon DEF P!PathsLoad, P!Calling
  <2>2. (\A k \in DOMAIN input.lines : IsText(input.lines[k])) /\ IsDepot(input.depot)
    BY <1>2, <2>1
  <2>3. \A k \in DOMAIN input.lines :
            P!Line(input.lines[k], input.depot) = {e \in input.depot : P!Components(e) = P!Components(input.lines[k])}
    BY <2>2, ListSpelled
  <2>4. \A k \in DOMAIN input.lines : lines[k] = P!Line(input.lines[k], input.depot)
    OBVIOUS
  <2> HIDE DEF lines
  <2>5. output'.status = "OK" => output'.kept = lines
    BY <2>1
  <2>6. \A k \in DOMAIN input.lines :
            output'.status = "OK" => output'.kept[k] = {e \in input.depot : P!Components(e) = P!Components(input.lines[k])}
    BY <2>3, <2>4, <2>5, Zenon
  <2>7. P!ListAgrees'
    BY <1>1, <2>6, Zenon DEF P!ListAgrees
  <2>8. input'.op = "load"
    BY <1>1, <2>1, Zenon
  <2>9. "hash" # "load" /\ "find" # "load"
    OBVIOUS
  <2>10. P!HashAgrees' /\ P!PatternAgrees'
    BY <2>8, <2>9, Zenon DEF P!HashAgrees, P!PatternAgrees
  <2>. QED
    BY <2>7, <2>10, Zenon DEF P!SpellingsAgree
<1>6. P!SpellingsAgree'
  BY <1>3, <1>4, <1>5, Zenon DEF P!Next
<1>. QED
  BY <1>1, <1>6, Zenon DEF TextInv

(* They do, whatever else is asked of the library.                         *)
LEMMA TextsAlways == SearchSpec => [](asked = "text" => TextInv)
<1>1. SearchInit => (asked = "text" => TextInv)
  <2> SUFFICES ASSUME P!Init
               PROVE  TextInv
    BY DEF SearchInit
  <2>1. input \in Texts /\ output = [status |-> "called"]
    BY Zenon DEF P!Init
  <2>2. output.status # "OK"
    BY <2>1
  <2>3. P!SpellingsAgree
    BY <2>2, Zenon DEF P!SpellingsAgree, P!HashAgrees, P!PatternAgrees, P!ListAgrees
  <2>. QED
    BY <2>1, <2>3, Zenon DEF TextInv
<1>2. (asked = "text" => TextInv) /\ [SearchNext]_searchVars => (asked = "text" => TextInv)'
  <2> SUFFICES ASSUME asked = "text" => TextInv, [SearchNext]_searchVars, asked' = "text"
               PROVE  TextInv'
    OBVIOUS
  <2>1. asked = "text" /\ TextInv
    BY DEF SearchNext, UseDictionary, GlobMatch, ReadText, CallRedFS, searchVars
  <2>2. CASE ReadText
    BY <2>1, <2>2, TextStep DEF ReadText
  <2>3. CASE UNCHANGED <<input, output>>
    <3>1. input' = input /\ output' = output
      BY <2>3
    <3>2. P!HashAgrees' <=> P!HashAgrees
      BY <3>1, Zenon DEF P!HashAgrees
    <3>3. P!PatternAgrees' <=> P!PatternAgrees
      BY <3>1, Zenon DEF P!PatternAgrees
    <3>4. P!ListAgrees' <=> P!ListAgrees
      BY <3>1, Zenon DEF P!ListAgrees
    <3>. QED
      BY <2>1, <3>1, <3>2, <3>3, <3>4, Zenon DEF TextInv, P!SpellingsAgree
  <2>. QED
    BY <2>1, <2>2, <2>3 DEF SearchNext, UseDictionary, GlobMatch, CallRedFS, searchVars, textVars
<1>. QED
  BY <1>1, <1>2, PTL DEF SearchSpec

(* However a path is spelled - in whatever case, with whatever separators, *)
(* quotes and spaces around it -, redfs_hash, a search and a path list     *)
(* lead to the same file, and to no other (archive.cpp, paths.cpp).        *)
THEOREM EverySpellingAgrees == SearchSpec => []SpellingsAgree
<1>1. (asked = "text" => TextInv) => SpellingsAgree
  BY Zenon DEF TextInv, SpellingsAgree
<1>. QED
  BY <1>1, TextsAlways, PTL
=============================================================================
