---------------------------- MODULE DepotProofs ----------------------------
(***************************************************************************)
(* Proofs about FileReaders: what a depot's scan mounts, the table built   *)
(* for it and what a lookup finds there, for any archives, folders, names  *)
(* and entry tables.                                                       *)
(***************************************************************************)
EXTENDS FileReaders, OrderingProofs

-----------------------------------------------------------------------------
(* Depot puts in order as Ordering does.                                   *)
LEMMA SameOrder ==
    /\ \A E, R : D!InOrder(E, R) = InOrder(E, R)
    /\ \A E : D!Upwards(E) = Upwards(E)
    /\ \A s, K : D!Kept(s, K) = Kept(s, K)
    /\ \A s : D!StableSort(s) = StableSort(s)
<1>0. \A X : D!Cardinality(X) = Cardinality(X)
  BY DEF D!Cardinality, Cardinality
<1>1. ASSUME NEW E, NEW R
      PROVE  D!InOrder(E, R) = InOrder(E, R)
  <2>1. \A x : D!Rank(x, E, R) = Rank(x, E, R)
    BY <1>0 DEF D!Rank, Rank
  <2>2. \A n : D!Nth(n, E, R) = Nth(n, E, R)
    BY <2>1 DEF D!Nth, Nth
  <2>. QED
    BY <1>0, <2>2 DEF D!InOrder, InOrder
<1>2. \A E : D!Upwards(E) = Upwards(E)
  BY DEF D!Upwards, Upwards
<1>3. \A s, K : D!Kept(s, K) = Kept(s, K)
  BY <1>1, <1>2 DEF D!Kept, Kept
<1>4. \A s : D!StableSort(s) = StableSort(s)
  <2>1. \A s : D!ByHash(s) = ByHash(s)
    BY DEF D!ByHash, ByHash
  <2>. QED
    BY <1>1, <2>1 DEF D!StableSort, StableSort
<1>. QED
  BY <1>1, <1>2, <1>3, <1>4

-----------------------------------------------------------------------------
(* Lists made of lists.                                                    *)

(* Place k of s is place b[k] of list a[k] of the first n, and so on in    *)
(* order, all places of these lists being there.                           *)
Strung(s, ss, n, a, b) ==
    /\ \A k \in DOMAIN s : /\ a[k] \in 1..n /\ b[k] \in DOMAIN ss[a[k]]
                           /\ s[k] = ss[a[k]][b[k]]
    /\ \A i \in 1..n : \A j \in DOMAIN ss[i] : \E k \in DOMAIN s : a[k] = i /\ b[k] = j
    /\ \A j, k \in DOMAIN s : j < k => a[j] < a[k] \/ (a[j] = a[k] /\ b[j] < b[k])

(* One list more at the end.                                               *)
LEMMA StrungOn ==
    ASSUME NEW X, NEW ss \in Seq(Seq(X)), NEW n \in Nat, n + 1 \in DOMAIN ss,
           NEW s \in Seq(X), NEW a, NEW b, Strung(s, ss, n, a, b)
    PROVE  /\ s \o ss[n + 1] \in Seq(X)
           /\ \E c, d : Strung(s \o ss[n + 1], ss, n + 1, c, d)
<1> DEFINE z == ss[n + 1]
           q == s \o z
           l == Len(s)
           m == Len(z)
           c == [k \in 1..(l + m) |-> IF k <= l THEN a[k] ELSE n + 1]
           d == [k \in 1..(l + m) |-> IF k <= l THEN b[k] ELSE k - l]
<1>1. z \in Seq(X) /\ l \in Nat /\ m \in Nat /\ DOMAIN s = 1..l /\ DOMAIN z = 1..m
  OBVIOUS
<1>2. q \in Seq(X) /\ DOMAIN q = 1..(l + m)
  BY <1>1
<1>3. /\ \A k \in 1..l : k \in 1..(l + m) /\ q[k] = s[k] /\ c[k] = a[k] /\ d[k] = b[k]
      /\ \A k \in (l + 1)..(l + m) : /\ k - l \in 1..m /\ k \in 1..(l + m)
                                     /\ q[k] = z[k - l] /\ c[k] = n + 1 /\ d[k] = k - l
  BY <1>1
<1>4. \A k \in 1..(l + m) : k \in 1..l \/ k \in (l + 1)..(l + m)
  BY <1>1
<1>5. \A k \in 1..l : a[k] \in 1..n /\ b[k] \in DOMAIN ss[a[k]] /\ s[k] = ss[a[k]][b[k]]
  BY <1>1 DEF Strung
<1> HIDE DEF q, c, d, l, m
<1>6. ASSUME NEW k \in DOMAIN q
      PROVE  c[k] \in 1..(n + 1) /\ d[k] \in DOMAIN ss[c[k]] /\ q[k] = ss[c[k]][d[k]]
  <2>1. CASE k \in 1..l
    <3>1. q[k] = s[k] /\ c[k] = a[k] /\ d[k] = b[k]
      BY <1>3, <2>1
    <3>2. a[k] \in 1..n /\ b[k] \in DOMAIN ss[a[k]] /\ s[k] = ss[a[k]][b[k]]
      BY <1>5, <2>1
    <3>3. a[k] \in 1..(n + 1)
      BY <3>2
    <3>. QED
      BY <3>1, <3>2, <3>3
  <2>2. CASE k \in (l + 1)..(l + m)
    BY <1>1, <1>3, <2>2
  <2>. QED
    BY <1>2, <1>4, <2>1, <2>2
<1>7. ASSUME NEW i \in 1..(n + 1), NEW j \in DOMAIN ss[i]
      PROVE  \E k \in DOMAIN q : c[k] = i /\ d[k] = j
  <2>1. CASE i \in 1..n
    <3>0. \A h \in 1..n : \A e \in DOMAIN ss[h] : \E k \in DOMAIN s : a[k] = h /\ b[k] = e
      BY DEF Strung
    <3>1. PICK k \in DOMAIN s : a[k] = i /\ b[k] = j
      BY <2>1, <3>0
    <3>2. k \in 1..l
      BY <1>1
    <3>. QED
      BY <1>2, <1>3, <3>1, <3>2
  <2>2. CASE i = n + 1
    <3>1. j \in 1..m
      BY <1>1, <2>2
    <3>2. l + j \in (l + 1)..(l + m) /\ (l + j) - l = j
      BY <1>1, <3>1
    <3>. QED
      BY <1>2, <1>3, <2>2, <3>2
  <2>. QED
    BY <2>1, <2>2
<1>8. ASSUME NEW j \in DOMAIN q, NEW k \in DOMAIN q, j < k
      PROVE  c[j] < c[k] \/ (c[j] = c[k] /\ d[j] < d[k])
  <2>1. CASE k \in 1..l
    <3>1. j \in 1..l
      BY <1>1, <1>2, <1>8, <2>1
    <3>2. a[j] < a[k] \/ (a[j] = a[k] /\ b[j] < b[k])
      BY <1>1, <1>8, <2>1, <3>1 DEF Strung
    <3>. QED
      BY <1>3, <2>1, <3>1, <3>2
  <2>2. CASE k \in (l + 1)..(l + m) /\ j \in 1..l
    BY <1>3, <1>5, <2>2
  <2>3. CASE k \in (l + 1)..(l + m) /\ j \in (l + 1)..(l + m)
    <3>1. c[j] = c[k] /\ d[j] = j - l /\ d[k] = k - l
      BY <1>3, <2>3
    <3>. QED
      BY <1>1, <1>8, <2>3, <3>1
  <2>. QED
    BY <1>2, <1>4, <2>1, <2>2, <2>3
<1>9. Strung(q, ss, n + 1, c, d)
  BY <1>6, <1>7, <1>8 DEF Strung
<1>. QED
  BY <1>2, <1>9 DEF q

(* FlattenSeq strings the lists together: its recursive function exists,   *)
(* or there would be a least n up to which none does.                      *)
LEMMA Flattened ==
    ASSUME NEW X, NEW ss \in Seq(Seq(X))
    PROVE  /\ D!FlattenSeq(ss) \in Seq(X)
           /\ \E a, b : Strung(D!FlattenSeq(ss), ss, Len(ss), a, b)
<1> DEFINE c == Len(ss)
           Joins(n, f) == \A i \in 1..n : f[i] = IF i = 1 THEN ss[i] ELSE f[i - 1] \o ss[i]
           Bad == {n \in Nat : n <= c /\ ~\E f : f \in [1..n -> Seq(X)] /\ Joins(n, f)}
<1>0. c \in Nat /\ DOMAIN ss = 1..c /\ \A i \in 1..c : ss[i] \in Seq(X)
  OBVIOUS
<1>1. Bad = {}
  <2> SUFFICES ASSUME Bad # {}
               PROVE  FALSE
    OBVIOUS
  <2>1. PICK n \in Bad : \A m \in Bad : ~(<<m, n>> \in OpToRel(<, Nat))
    <3>1. Bad \subseteq Nat
      OBVIOUS
    <3> HIDE DEF Bad
    <3>. QED
      BY <3>1, NatLessThanWellFounded, WFMin
  <2>2. n \in Nat /\ n <= c /\ ~\E f : f \in [1..n -> Seq(X)] /\ Joins(n, f)
    OBVIOUS
  <2>3. n # 0
    <3>1. [i \in 1..0 |-> <<>>] \in [1..0 -> Seq(X)] /\ Joins(0, [i \in 1..0 |-> <<>>])
      OBVIOUS
    <3>. QED
      BY <2>2, <3>1
  <2>4. n - 1 \in Nat /\ n - 1 < n /\ n - 1 <= c /\ n \in 1..c
    BY <1>0, <2>2, <2>3
  <2>5. n - 1 \notin Bad
    BY <2>1, <2>2, <2>4 DEF OpToRel
  <2>6. PICK f : f \in [1..(n - 1) -> Seq(X)] /\ Joins(n - 1, f)
    BY <2>4, <2>5
  <2> DEFINE last == IF n = 1 THEN ss[n] ELSE f[n - 1] \o ss[n]
             g == [i \in 1..n |-> IF i = n THEN last ELSE f[i]]
  <2>7. last \in Seq(X)
    <3>1. CASE n = 1
      BY <1>0, <2>4, <3>1
    <3>2. CASE n # 1
      <4>1. f[n - 1] \in Seq(X) /\ ss[n] \in Seq(X)
        BY <1>0, <2>4, <2>6, <3>2
      <4>2. f[n - 1] \o ss[n] \in Seq(X)
        BY <4>1
      <4>. QED
        BY <3>2, <4>2
    <3>. QED
      BY <3>1, <3>2
  <2> HIDE DEF last
  <2>8. g \in [1..n -> Seq(X)]
    BY <2>2, <2>6, <2>7
  <2>9. ASSUME NEW i \in 1..n
        PROVE  g[i] = IF i = 1 THEN ss[i] ELSE g[i - 1] \o ss[i]
    <3>1. CASE i = n
      <4>1. g[i] = last /\ (n # 1 => g[n - 1] = f[n - 1])
        BY <2>4, <3>1
      <4>. QED
        BY <3>1, <4>1 DEF last
    <3>2. CASE i # n
      <4>1. i \in 1..(n - 1) /\ g[i] = f[i] /\ (i # 1 => g[i - 1] = f[i - 1])
        BY <2>4, <3>2
      <4>. QED
        BY <2>6, <4>1
    <3>. QED
      BY <3>1, <3>2
  <2>. QED
    BY <2>2, <2>8, <2>9
<1>2. PICK g : g \in [1..c -> Seq(X)] /\ Joins(c, g)
  <2>1. c \notin Bad /\ c <= c
    <3> HIDE DEF Bad, c
    <3>. QED
      BY <1>0, <1>1
  <2> HIDE DEF Joins
  <2>. QED
    BY <1>0, <2>1
<1>3. g = [i \in 1..c |-> IF i = 1 THEN ss[i] ELSE g[i - 1] \o ss[i]]
  BY <1>0, <1>2
<1> DEFINE flatten[i \in 1..Len(ss)] == IF i = 1 THEN ss[i] ELSE flatten[i - 1] \o ss[i]
<1>4. flatten = [i \in 1..Len(ss) |-> IF i = 1 THEN ss[i] ELSE flatten[i - 1] \o ss[i]]
  BY <1>3
<1>5. c # 0 => D!FlattenSeq(ss) = flatten[c]
  BY DEF D!FlattenSeq
<1>6. c = 0 => D!FlattenSeq(ss) = <<>>
  BY DEF D!FlattenSeq
<1> HIDE DEF flatten
<1>7. flatten[1] = ss[1] \/ c = 0
  BY <1>0, <1>4
<1>8. \A i \in 1..c : i # 1 => flatten[i] = flatten[i - 1] \o ss[i]
  BY <1>4
<1> DEFINE Good(n) == flatten[n] \in Seq(X) /\ \E a, b : Strung(flatten[n], ss, n, a, b)
           Odd == {n \in Nat : n \in 1..c /\ ~Good(n)}
<1>9. Odd = {}
  <2> SUFFICES ASSUME Odd # {}
               PROVE  FALSE
    OBVIOUS
  <2>1. PICK n \in Odd : \A m \in Odd : ~(<<m, n>> \in OpToRel(<, Nat))
    <3>1. Odd \subseteq Nat
      OBVIOUS
    <3> HIDE DEF Odd
    <3>. QED
      BY <3>1, NatLessThanWellFounded, WFMin
  <2>2. n \in Nat /\ n \in 1..c /\ ~Good(n)
    OBVIOUS
  <2>3. n # 1
    <3>1. Strung(<<>>, ss, 0, <<>>, <<>>)
      BY DEF Strung
    <3>2. <<>> \o ss[1] \in Seq(X) /\ \E a, b : Strung(<<>> \o ss[1], ss, 1, a, b)
      <4>1. 0 \in Nat /\ 0 + 1 \in DOMAIN ss /\ 0 + 1 = 1
        BY <1>0, <2>2
      <4>2. <<>> \in Seq(X)
        OBVIOUS
      <4>3. /\ <<>> \o ss[0 + 1] \in Seq(X)
            /\ \E a, b : Strung(<<>> \o ss[0 + 1], ss, 0 + 1, a, b)
        BY <3>1, <4>1, <4>2, StrungOn
      <4>. QED
        BY <4>1, <4>3
    <3>3. <<>> \o ss[1] = ss[1]
      BY <1>0, <2>2
    <3>4. flatten[1] = ss[1]
      BY <1>7, <2>2
    <3>. QED
      BY <2>2, <3>2, <3>3, <3>4
  <2>4. n - 1 \in Nat /\ n - 1 < n /\ n - 1 \in 1..c /\ (n - 1) + 1 = n /\ n \in DOMAIN ss
    BY <1>0, <2>2, <2>3
  <2>5. Good(n - 1)
    <3>1. n - 1 \notin Odd
      BY <2>1, <2>2, <2>4 DEF OpToRel
    <3> HIDE DEF Good
    <3>. QED
      BY <2>4, <3>1
  <2>6. PICK a, b : Strung(flatten[n - 1], ss, n - 1, a, b)
    BY <2>5
  <2>7. /\ flatten[n - 1] \o ss[n] \in Seq(X)
        /\ \E e, d : Strung(flatten[n - 1] \o ss[n], ss, n, e, d)
    BY <2>4, <2>5, <2>6, StrungOn
  <2>. QED
    BY <1>8, <2>2, <2>3, <2>7
<1>10. CASE c = 0
  <2>1. Strung(<<>>, ss, 0, <<>>, <<>>)
    BY DEF Strung
  <2>. QED
    BY <1>6, <1>10, <2>1
<1>11. CASE c # 0
  <2>1. c \notin Odd /\ c \in 1..c
    <3> HIDE DEF Odd, c
    <3>. QED
      BY <1>0, <1>9, <1>11
  <2>2. Good(c)
    <3> HIDE DEF Good
    <3>. QED
      BY <1>0, <2>1
  <2>. QED
    BY <1>5, <1>11, <2>2
<1>. QED
  BY <1>10, <1>11

-----------------------------------------------------------------------------
(* The table of a depot.                                                   *)

(* x is the entry e of archive a, with its hash.                           *)
IsEntry(x, list) ==
    /\ x \in [hash : DepotHashes, archive : Nat, entry : Nat]
    /\ x.archive \in DOMAIN list /\ x.entry \in DOMAIN index[list[x.archive]]
    /\ x.hash = index[list[x.archive]][x.entry]
(* x was mounted before y, or stands before it in the same archive.        *)
Under(x, y) == x.archive < y.archive \/ (x.archive = y.archive /\ x.entry < y.entry)

(* reindex collects every entry, in mount order.                           *)
LEMMA Collected ==
    ASSUME index \in [Installed -> Indexes], NEW list \in Seq(Installed)
    PROVE  LET s == D!Collect(list)
           IN  /\ s \in Seq([hash : DepotHashes, archive : Nat, entry : Nat])
               /\ \A k \in DOMAIN s : IsEntry(s[k], list)
               /\ \A x : IsEntry(x, list) => \E k \in DOMAIN s : s[k] = x
               /\ \A j, k \in DOMAIN s : j < k => Under(s[j], s[k])
<1> DEFINE X == [hash : DepotHashes, archive : Nat, entry : Nat]
           ss == [a \in DOMAIN list |->
                    [e \in DOMAIN index[list[a]] |-> [hash |-> index[list[a]][e], archive |-> a, entry |-> e]]]
           s == D!Collect(list)
<1>1. Len(list) \in Nat /\ DOMAIN list = 1..Len(list)
  OBVIOUS
<1>2. \A a \in DOMAIN list : index[list[a]] \in Seq(DepotHashes)
  BY FilesAssumption
<1>3. ASSUME NEW a \in DOMAIN list
      PROVE  /\ ss[a] \in Seq(X) /\ DOMAIN ss[a] = DOMAIN index[list[a]]
             /\ \A e \in DOMAIN ss[a] : ss[a][e] = [hash |-> index[list[a]][e], archive |-> a, entry |-> e]
  <2> DEFINE ix == index[list[a]]
             f == [e \in DOMAIN ix |-> [hash |-> ix[e], archive |-> a, entry |-> e]]
  <2>1. ix \in Seq(DepotHashes) /\ a \in Nat
    BY <1>1, <1>2
  <2> HIDE DEF ix
  <2>2. DOMAIN ix = 1..Len(ix) /\ Len(ix) \in Nat /\ \A e \in 1..Len(ix) : ix[e] \in DepotHashes
    BY <2>1
  <2>3. \A e \in 1..Len(ix) : f[e] = [hash |-> ix[e], archive |-> a, entry |-> e] /\ f[e] \in X
    BY <2>1, <2>2
  <2>4. f \in Seq(X)
    <3>1. f \in [1..Len(ix) -> X]
      BY <2>2, <2>3
    <3>. QED
      BY <2>2, <3>1
  <2>5. ss[a] = f
    BY DEF ix
  <2>. QED
    BY <2>2, <2>3, <2>4, <2>5 DEF ix
<1>4. ss \in Seq(Seq(X))
  <2>1. ss \in [1..Len(list) -> Seq(X)]
    <3> HIDE DEF X
    <3>. QED
      BY <1>1, <1>3
  <2> HIDE DEF ss, X
  <2>. QED
    BY <1>1, <2>1
<1>5. s = D!FlattenSeq(ss)
  BY DEF D!Collect
<1>6. DOMAIN ss = DOMAIN list /\ Len(ss) = Len(list)
  BY <1>1, <1>4
<1> HIDE DEF X, ss, s
<1>7. s \in Seq(X) /\ \E a, b : Strung(s, ss, Len(ss), a, b)
  BY <1>4, <1>5, Flattened
<1>8. PICK a, b : Strung(s, ss, Len(ss), a, b)
  BY <1>7
<1>9. /\ \A k \in DOMAIN s : a[k] \in DOMAIN list /\ b[k] \in DOMAIN ss[a[k]] /\ s[k] = ss[a[k]][b[k]]
      /\ \A i \in DOMAIN list : \A j \in DOMAIN ss[i] : \E k \in DOMAIN s : a[k] = i /\ b[k] = j
      /\ \A j, k \in DOMAIN s : j < k => a[j] < a[k] \/ (a[j] = a[k] /\ b[j] < b[k])
  BY <1>1, <1>6, <1>8 DEF Strung
<1>10. ASSUME NEW k \in DOMAIN s
       PROVE  /\ IsEntry(s[k], list) /\ s[k].archive = a[k] /\ s[k].entry = b[k]
  <2>1. /\ a[k] \in DOMAIN list /\ b[k] \in DOMAIN index[list[a[k]]]
        /\ s[k] = [hash |-> index[list[a[k]]][b[k]], archive |-> a[k], entry |-> b[k]]
    <3>1. a[k] \in DOMAIN list /\ b[k] \in DOMAIN ss[a[k]] /\ s[k] = ss[a[k]][b[k]]
      BY <1>9
    <3>2. /\ DOMAIN ss[a[k]] = DOMAIN index[list[a[k]]]
          /\ ss[a[k]][b[k]] = [hash |-> index[list[a[k]]][b[k]], archive |-> a[k], entry |-> b[k]]
      BY <1>3, <3>1
    <3>. QED
      BY <3>1, <3>2
  <2>2. s[k] \in X
    BY <1>7
  <2>. QED
    BY <2>1, <2>2 DEF IsEntry, X
<1>11. ASSUME NEW x, IsEntry(x, list)
       PROVE  \E k \in DOMAIN s : s[k] = x
  <2>1. x.archive \in DOMAIN list /\ x.entry \in DOMAIN ss[x.archive]
    BY <1>3, <1>11 DEF IsEntry
  <2>2. PICK k \in DOMAIN s : a[k] = x.archive /\ b[k] = x.entry
    BY <1>9, <2>1
  <2>3. s[k] = [hash |-> index[list[x.archive]][x.entry], archive |-> x.archive, entry |-> x.entry]
    <3>1. s[k] = ss[x.archive][x.entry]
      BY <1>9, <2>2
    <3>. QED
      BY <1>3, <2>1, <3>1
  <2>4. x = [hash |-> x.hash, archive |-> x.archive, entry |-> x.entry]
    BY <1>11 DEF IsEntry
  <2>. QED
    BY <1>11, <2>3, <2>4 DEF IsEntry
<1>12. \A j, k \in DOMAIN s : j < k => Under(s[j], s[k])
  BY <1>9, <1>10 DEF Under
<1>. QED
  BY <1>7, <1>10, <1>11, <1>12 DEF s, X

(* Sorted, all entries are there still, by hash and then in mount order.   *)
LEMMA SortedEntries ==
    ASSUME index \in [Installed -> Indexes], NEW list \in Seq(Installed)
    PROVE  LET q == D!StableSort(D!Collect(list))
           IN  /\ q \in Seq([hash : DepotHashes, archive : Nat, entry : Nat])
               /\ \A k \in DOMAIN q : IsEntry(q[k], list)
               /\ \A x : IsEntry(x, list) => \E k \in DOMAIN q : q[k] = x
               /\ \A j, k \in DOMAIN q : j < k =>
                     q[j].hash < q[k].hash \/ (q[j].hash = q[k].hash /\ Under(q[j], q[k]))
<1> DEFINE X == [hash : DepotHashes, archive : Nat, entry : Nat]
           s == D!Collect(list)
           q == D!StableSort(s)
<1>1. /\ s \in Seq(X)
      /\ \A k \in DOMAIN s : IsEntry(s[k], list)
      /\ \A x : IsEntry(x, list) => \E k \in DOMAIN s : s[k] = x
      /\ \A j, k \in DOMAIN s : j < k => Under(s[j], s[k])
  BY Collected
<1>2. \A n \in DOMAIN s : s[n].hash \in Nat
  <2> TAKE n \in DOMAIN s
  <2>1. s[n].hash \in DepotHashes
    BY <1>1 DEF IsEntry
  <2>. QED
    BY <2>1, FilesAssumption
<1>8. q = StableSort(s)
  BY SameOrder
<1> HIDE DEF s, X, q
<1>3. q \in Seq(X) /\ \E at : Sorts(q, s, at)
  <2>1. s \in Seq(X)
    BY <1>1
  <2>. QED
    BY <1>2, <1>8, <2>1, Sorting
<1>4. PICK at : /\ \A n \in DOMAIN q : at[n] \in DOMAIN s /\ q[n] = s[at[n]]
                /\ \A k \in DOMAIN s : \E n \in DOMAIN q : at[n] = k
                /\ \A m, n \in DOMAIN q : m < n =>
                      q[m].hash < q[n].hash \/ (q[m].hash = q[n].hash /\ at[m] < at[n])
  BY <1>3, Zenon DEF Sorts
<1>5. \A k \in DOMAIN q : IsEntry(q[k], list)
  BY <1>1, <1>4
<1>6. \A x : IsEntry(x, list) => \E k \in DOMAIN q : q[k] = x
  BY <1>1, <1>4
<1>7. ASSUME NEW j \in DOMAIN q, NEW k \in DOMAIN q, j < k
      PROVE  q[j].hash < q[k].hash \/ (q[j].hash = q[k].hash /\ Under(q[j], q[k]))
  <2>1. q[j].hash < q[k].hash \/ (q[j].hash = q[k].hash /\ at[j] < at[k])
    BY <1>4, <1>7
  <2>2. at[j] < at[k] => Under(s[at[j]], s[at[k]])
    BY <1>1, <1>4
  <2>3. q[j] = s[at[j]] /\ q[k] = s[at[k]]
    BY <1>4
  <2>. QED
    BY <2>1, <2>2, <2>3
<1>. QED
  BY <1>3, <1>5, <1>6, <1>7 DEF q, s, X

(* The last of a run of equal hashes, which is where the run ends.         *)
LEMMA RunEnds ==
    ASSUME NEW X, NEW s \in Seq(X), NEW k \in DOMAIN s,
           \A i, j \in DOMAIN s : i < j => s[i].hash <= s[j].hash,
           \A i \in DOMAIN s : s[i].hash \in Nat
    PROVE  \E n \in DOMAIN s : /\ k <= n /\ s[n].hash = s[k].hash
                               /\ n = Len(s) \/ s[n + 1].hash # s[n].hash
<1> DEFINE c == Len(s)
           Left == {m \in Nat : m < c /\ s[c - m].hash = s[k].hash}
<1>1. c \in Nat /\ DOMAIN s = 1..c /\ k \in 1..c
  OBVIOUS
<1>2. c - k \in Left
  <2>1. c - k \in Nat /\ c - k < c /\ c - (c - k) = k
    BY <1>1
  <2>. QED
    BY <2>1
<1>3. PICK m \in Left : \A l \in Left : ~(<<l, m>> \in OpToRel(<, Nat))
  <2>1. Left \subseteq Nat /\ Left # {}
    BY <1>2
  <2> HIDE DEF Left
  <2>. QED
    BY <2>1, NatLessThanWellFounded, WFMin
<1>4. m \in Nat /\ c - m \in 1..c /\ s[c - m].hash = s[k].hash
  BY <1>1
<1>5. \A l \in Left : ~(l < m)
  <2> TAKE l \in Left
  <2>1. l \in Nat
    OBVIOUS
  <2>. QED
    BY <1>3, <1>4, <2>1 DEF OpToRel
<1>6. k <= c - m
  <2>1. c - k \in Nat /\ ~(c - k < m)
    BY <1>1, <1>2, <1>5
  <2>. QED
    BY <1>1, <1>4, <2>1
<1>7. c - m # c => s[(c - m) + 1].hash # s[c - m].hash
  <2> SUFFICES ASSUME c - m # c, s[(c - m) + 1].hash = s[c - m].hash
               PROVE  FALSE
    OBVIOUS
  <2>0. m # 0
    <3>1. c - 0 = c
      <4> HIDE DEF c
      <4>. QED
        BY <1>1
    <3>. QED
      BY <3>1
  <2>1. m - 1 \in Nat /\ m - 1 < c /\ c - (m - 1) = (c - m) + 1 /\ m - 1 < m
    <3> HIDE DEF c
    <3>. QED
      BY <1>1, <1>4, <2>0
  <2>2. m - 1 \in Left
    BY <1>4, <2>1
  <2>. QED
    BY <1>5, <2>1, <2>2
<1>. QED
  BY <1>1, <1>4, <1>6, <1>7

(* What a lookup needs of the table.                                       *)
IsTable(q, list) ==
    /\ q \in Seq([hash : DepotHashes, archive : Nat, entry : Nat])
    /\ \A n \in DOMAIN q : IsEntry(q[n], list)
    /\ \A x : IsEntry(x, list) => \E n \in DOMAIN q : q[n].hash = x.hash /\ (x = q[n] \/ Under(x, q[n]))
    /\ \A m, n \in DOMAIN q : m < n => q[m].hash < q[n].hash

(* Keeping the last of each run of the sorted entries makes such a table.  *)
LEMMA Reindexed ==
    ASSUME index \in [Installed -> Indexes], NEW list \in Seq(Installed)
    PROVE  IsTable(D!Reindex(list), list)
<1> DEFINE X == [hash : DepotHashes, archive : Nat, entry : Nat]
           s == D!StableSort(D!Collect(list))
           K == {n \in DOMAIN s : n = Len(s) \/ s[n + 1].hash # s[n].hash}
           q == D!Kept(s, K)
<1>1. /\ s \in Seq(X)
      /\ \A k \in DOMAIN s : IsEntry(s[k], list)
      /\ \A x : IsEntry(x, list) => \E k \in DOMAIN s : s[k] = x
      /\ \A j, k \in DOMAIN s : j < k =>
            s[j].hash < s[k].hash \/ (s[j].hash = s[k].hash /\ Under(s[j], s[k]))
  BY SortedEntries
<1>2. q = D!Reindex(list)
  BY DEF D!Reindex, D!KeepLast
<1>11. q = Kept(s, K)
  BY SameOrder
<1> HIDE DEF s, X, q
<1>3. Len(s) \in Nat /\ DOMAIN s = 1..Len(s) /\ K \in SUBSET DOMAIN s
  BY <1>1
<1>4. \A n \in DOMAIN s : s[n].hash \in Nat
  <2> TAKE n \in DOMAIN s
  <2>1. s[n].hash \in DepotHashes
    BY <1>1 DEF IsEntry
  <2>. QED
    BY <2>1, FilesAssumption
<1>5. \A i, j \in DOMAIN s : i < j => s[i].hash <= s[j].hash
  BY <1>1, <1>4
<1>6. q \in Seq(X) /\ \E at : Keeps(q, s, K, at)
  BY <1>1, <1>3, <1>11, Keeping
<1>7. PICK at : /\ \A n \in DOMAIN q : at[n] \in K /\ q[n] = s[at[n]]
                /\ \A k \in K : \E n \in DOMAIN q : at[n] = k
                /\ \A m, n \in DOMAIN q : m < n <=> at[m] < at[n]
  BY <1>6, Zenon DEF Keeps
<1>8. \A n \in DOMAIN q : IsEntry(q[n], list)
  BY <1>1, <1>7
<1>9. ASSUME NEW x, IsEntry(x, list)
      PROVE  \E n \in DOMAIN q : q[n].hash = x.hash /\ (x = q[n] \/ Under(x, q[n]))
  <2>1. PICK k \in DOMAIN s : s[k] = x
    BY <1>1, <1>9
  <2>2. PICK e \in DOMAIN s : /\ k <= e /\ s[e].hash = s[k].hash
                              /\ e = Len(s) \/ s[e + 1].hash # s[e].hash
    BY <1>1, <1>4, <1>5, RunEnds
  <2>3. PICK n \in DOMAIN q : at[n] = e
    BY <1>7, <2>2
  <2>4. q[n] = s[e]
    BY <1>7, <2>3
  <2>5. k = e \/ k < e
    BY <1>3, <2>2
  <2>6. k < e => Under(s[k], s[e])
    BY <1>1, <1>4, <2>2
  <2>. QED
    BY <2>1, <2>2, <2>4, <2>5, <2>6
<1>10. ASSUME NEW m \in DOMAIN q, NEW n \in DOMAIN q, m < n
       PROVE  q[m].hash < q[n].hash
  <2> DEFINE a == at[m]
             b == at[n]
  <2>1. a \in K /\ b \in K /\ a < b /\ q[m] = s[a] /\ q[n] = s[b]
    BY <1>7, <1>10
  <2>2. a \in 1..Len(s) /\ b \in 1..Len(s) /\ a + 1 \in 1..Len(s) /\ (a + 1 = b \/ a + 1 < b) /\ a < a + 1
    BY <1>3, <2>1
  <2>3. s[a + 1].hash # s[a].hash
    BY <1>3, <2>1, <2>2
  <2> HIDE DEF a, b
  <2>4. s[a].hash <= s[a + 1].hash /\ s[a + 1].hash <= s[b].hash
    BY <1>3, <1>4, <1>5, <2>2
  <2>5. s[a].hash \in Nat /\ s[a + 1].hash \in Nat /\ s[b].hash \in Nat
    BY <1>3, <1>4, <2>2
  <2>. QED
    BY <2>1, <2>3, <2>4, <2>5
<1>. QED
  BY <1>2, <1>6, <1>8, <1>9, <1>10 DEF IsTable, X

(* Looking a hash up finds the entry that was mounted last.                *)
LEMMA LookupFinds ==
    ASSUME index \in [Installed -> Indexes], archives \in Seq(Installed), IsTable(refs, archives)
    PROVE  D!LastMountWins
<1> SUFFICES ASSUME NEW h \in DepotHashes
             PROVE  D!Locate(h) = D!Winner(h)
  BY DEF D!LastMountWins
<1>0. Len(archives) \in Nat /\ DOMAIN archives = 1..Len(archives)
  OBVIOUS
<1>1. ASSUME NEW x
      PROVE  x \in D!Candidates(h) <=> IsEntry(x, archives) /\ x.hash = h
  <2>1. ASSUME x \in D!Candidates(h)
        PROVE  IsEntry(x, archives) /\ x.hash = h
    <3>1. PICK a \in DOMAIN archives :
             x \in {[hash |-> h, archive |-> a, entry |-> e] :
                       e \in {n \in DOMAIN index[archives[a]] : index[archives[a]][n] = h}}
      BY <2>1 DEF D!Candidates
    <3>2. PICK e \in DOMAIN index[archives[a]] : /\ index[archives[a]][e] = h
                                                 /\ x = [hash |-> h, archive |-> a, entry |-> e]
      BY <3>1
    <3>3. index[archives[a]] \in Seq(DepotHashes)
      BY FilesAssumption
    <3>4. e \in Nat /\ a \in Nat
      BY <1>0, <3>3
    <3>. QED
      BY <3>2, <3>4 DEF IsEntry
  <2>2. ASSUME IsEntry(x, archives), x.hash = h
        PROVE  x \in D!Candidates(h)
    <3>1. /\ x.archive \in DOMAIN archives /\ x.entry \in DOMAIN index[archives[x.archive]]
          /\ index[archives[x.archive]][x.entry] = h
      BY <2>2 DEF IsEntry
    <3>2. x = [hash |-> h, archive |-> x.archive, entry |-> x.entry]
      BY <2>2 DEF IsEntry
    <3>3. x \in {[hash |-> h, archive |-> x.archive, entry |-> e] :
                    e \in {n \in DOMAIN index[archives[x.archive]] : index[archives[x.archive]][n] = h}}
      BY <3>1, <3>2
    <3>. QED
      BY <3>1, <3>3 DEF D!Candidates
  <2>. QED
    BY <2>1, <2>2
<1>2. /\ Len(refs) \in Nat /\ DOMAIN refs = 1..Len(refs)
      /\ \A n \in DOMAIN refs : IsEntry(refs[n], archives) /\ refs[n].hash \in Nat
  <2> DEFINE X == [hash : DepotHashes, archive : Nat, entry : Nat]
  <2>1. refs \in Seq(X) /\ \A x \in X : x.hash \in Nat
    BY FilesAssumption DEF IsTable
  <2> HIDE DEF X
  <2>2. Len(refs) \in Nat /\ DOMAIN refs = 1..Len(refs) /\ \A n \in DOMAIN refs : refs[n] \in X
    BY <2>1
  <2>3. \A n \in DOMAIN refs : IsEntry(refs[n], archives)
    BY DEF IsTable
  <2>. QED
    BY <2>1, <2>2, <2>3
<1>3. h \in Nat
  BY FilesAssumption
<1> DEFINE above == {n \in DOMAIN refs : refs[n].hash >= h}
           n0 == CHOOSE m \in above : \A k \in above : m <= k
<1>4. D!Locate(h) = IF above = {} THEN {}
                    ELSE IF refs[n0].hash = h /\ refs[n0].archive <= Len(archives) THEN {refs[n0]} ELSE {}
  BY DEF D!Locate
<1>5. ASSUME NEW m \in DOMAIN refs, NEW n \in DOMAIN refs, refs[m].hash = refs[n].hash
      PROVE  m = n
  <2>1. m < n => refs[m].hash < refs[n].hash
    BY DEF IsTable
  <2>2. n < m => refs[n].hash < refs[m].hash
    BY DEF IsTable
  <2>. QED
    BY <1>2, <1>5, <2>1, <2>2
<1>6. CASE \E n \in DOMAIN refs : refs[n].hash = h
  <2>1. PICK n \in DOMAIN refs : refs[n].hash = h
    BY <1>6
  <2>2. n \in above /\ \A k \in above : n <= k
    <3> SUFFICES ASSUME NEW k \in above, ~(n <= k)
                 PROVE  FALSE
      BY <1>3, <2>1
    <3>1. k \in DOMAIN refs /\ k < n
      BY <1>2
    <3>2. refs[k].hash < h
      BY <2>1, <3>1 DEF IsTable
    <3>. QED
      BY <1>2, <1>3, <3>1, <3>2
  <2>3. n0 \in above /\ \A k \in above : n0 <= k
    <3> HIDE DEF above
    <3>. QED
      BY <2>2, Zenon
  <2>4. n0 = n
    <3>1. n0 \in DOMAIN refs /\ n0 <= n /\ n <= n0
      BY <2>2, <2>3
    <3> HIDE DEF n0
    <3>. QED
      BY <1>2, <3>1
  <2> HIDE DEF n0
  <2>5. refs[n].archive <= Len(archives)
    BY <1>0, <1>2 DEF IsEntry
  <2>6. D!Locate(h) = {refs[n]}
    BY <1>4, <2>1, <2>2, <2>4, <2>5
  <2>7. \A x \in D!Candidates(h) : x = refs[n] \/ Under(x, refs[n])
    BY <1>1, <1>5, <2>1 DEF IsTable
  <2>8. refs[n] \in D!Candidates(h)
    BY <1>1, <1>2, <2>1
  <2>9. \A x \in D!Candidates(h) : x.archive \in Nat /\ x.entry \in Nat
    BY <1>1 DEF IsEntry
  <2>10. refs[n] \in D!Winner(h)
    BY <2>7, <2>8, <2>9 DEF D!Winner, Under
  <2>11. \A x \in D!Winner(h) : x = refs[n]
    <3> SUFFICES ASSUME NEW x \in D!Winner(h), x # refs[n]
                 PROVE  FALSE
      OBVIOUS
    <3>1. x \in D!Candidates(h)
      BY DEF D!Winner
    <3>2. Under(x, refs[n])
      BY <2>7, <3>1
    <3>3. refs[n].archive < x.archive \/ (refs[n].archive = x.archive /\ refs[n].entry <= x.entry)
      BY <2>8 DEF D!Winner
    <3>. QED
      BY <2>8, <2>9, <3>1, <3>2, <3>3 DEF Under
  <2>. QED
    BY <2>6, <2>10, <2>11
<1>7. CASE ~\E n \in DOMAIN refs : refs[n].hash = h
  <2>1. D!Candidates(h) = {}
    <3> SUFFICES ASSUME NEW x \in D!Candidates(h)
                 PROVE  FALSE
      OBVIOUS
    <3>1. IsEntry(x, archives) /\ x.hash = h
      BY <1>1
    <3>2. \E n \in DOMAIN refs : refs[n].hash = x.hash
      BY <3>1 DEF IsTable
    <3>. QED
      BY <1>7, <3>1, <3>2
  <2>2. D!Winner(h) = {}
    BY <2>1 DEF D!Winner
  <2>3. D!Locate(h) = {}
    <3>1. CASE above = {}
      BY <1>4, <3>1
    <3>2. CASE above # {}
      <4>1. \E m \in above : \A k \in above : m <= k
        <5>1. above \subseteq Nat
          BY <1>2
        <5> HIDE DEF above
        <5>2. PICK m \in above : \A k \in above : ~(<<k, m>> \in OpToRel(<, Nat))
          BY <3>2, <5>1, NatLessThanWellFounded, WFMin
        <5>3. \A k \in above : ~(k < m)
          BY <5>1, <5>2 DEF OpToRel
        <5>. QED
          BY <5>1, <5>3
      <4>2. n0 \in above
        <5> HIDE DEF above
        <5>. QED
          BY <4>1, Zenon
      <4>3. refs[n0].hash # h
        BY <1>7, <4>2
      <4>. QED
        BY <1>4, <3>2, <4>3
    <3>. QED
      BY <3>1, <3>2
  <2>. QED
    BY <2>2, <2>3
<1>. QED
  BY <1>6, <1>7

-----------------------------------------------------------------------------
(* The scans.                                                              *)

(* What comes later in the list overrides what comes earlier.              *)
Ascending(s) == \A m, n \in DOMAIN s : m < n => D!Overrides(s[n], s[m])
(* Installed archives of some of the sets.                                 *)
From(s, sets) == s \in Seq(Installed) /\ \A n \in DOMAIN s : s[n].set \in sets

(* A folder is listed by name.                                             *)
LEMMA SortedFolder ==
    ASSUME NEW E \in SUBSET Installed, \A p, q \in E : p.name = q.name => p = q
    PROVE  LET s == D!Sorted(E)
           IN  s \in Seq(E) /\ \A m, n \in DOMAIN s : m < n => s[m].name < s[n].name
<1> DEFINE R == D!ByName(E)
           s == D!InOrder(E, R)
<1>1. IsFiniteSet(E) /\ \A p \in E : p.name \in Nat
  BY FilesAssumption, FS_Subset
<1>2. \A x, y \in E : <<x, y>> \in R <=> x.name < y.name
  BY DEF D!ByName
<1> HIDE DEF R
<1>3. Orders(R, E)
  <2>1. ASSUME NEW x \in E, NEW y \in E
        PROVE  x = y \/ <<x, y>> \in R \/ <<y, x>> \in R
    <3>1. x.name \in Nat /\ y.name \in Nat /\ (x.name = y.name => x = y)
      BY <1>1
    <3>. QED
      BY <1>2, <3>1
  <2>2. \A x \in E : <<x, x>> \notin R
    BY <1>1, <1>2
  <2>3. ASSUME NEW x \in E, NEW y \in E, NEW z \in E, <<x, y>> \in R, <<y, z>> \in R
        PROVE  <<x, z>> \in R
    <3>1. x.name \in Nat /\ y.name \in Nat /\ z.name \in Nat
      BY <1>1
    <3>. QED
      BY <1>2, <2>3, <3>1
  <2>. QED
    BY <2>1, <2>2, <2>3 DEF Orders
<1>4. /\ s \in [1..Cardinality(E) -> E] /\ Cardinality(E) \in Nat
      /\ \A m, n \in 1..Cardinality(E) : m < n <=> <<s[m], s[n]>> \in R
  BY <1>1, <1>3, Ordered, SameOrder
<1> HIDE DEF s
<1>5. s \in Seq(E) /\ DOMAIN s = 1..Cardinality(E)
  BY <1>4
<1>6. \A m, n \in DOMAIN s : m < n => s[m].name < s[n].name
  BY <1>2, <1>4, <1>5
<1>7. s = D!Sorted(E)
  BY DEF s, R, D!Sorted
<1>. QED
  BY <1>5, <1>6, <1>7

(* The content, ep1 and mod sets: the first name of a set comes last.      *)
LEMMA FolderScan ==
    ASSUME NEW set, set # "redmod"
    PROVE  LET s == D!ListArchives(set) IN From(s, {set}) /\ Ascending(s)
<1> DEFINE E == {p \in Installed : p.set = set}
           s == D!Sorted(E)
<1>1. \A p, q \in E : p.name = q.name => p = q
  BY FilesAssumption
<1>2. s \in Seq(E) /\ \A m, n \in DOMAIN s : m < n => s[m].name < s[n].name
  BY <1>1, SortedFolder
<1>3. s = D!ListArchives(set)
  BY DEF D!ListArchives
<1> HIDE DEF s
<1>4. s \in Seq(Installed) /\ \A n \in DOMAIN s : s[n] \in Installed /\ s[n].set = set
  <2>1. \A n \in DOMAIN s : s[n] \in E
    BY <1>2
  <2>2. DOMAIN s = 1..Len(s) /\ Len(s) \in Nat
    BY <1>2
  <2>3. s \in [1..Len(s) -> Installed]
    BY <1>2, <2>1, <2>2
  <2>. QED
    BY <2>1, <2>2, <2>3
<1>5. ASSUME NEW m \in DOMAIN s, NEW n \in DOMAIN s, m < n
      PROVE  D!Overrides(s[n], s[m])
  <2>1. s[m].name \in Nat /\ s[n].name \in Nat
    BY <1>4, FilesAssumption
  <2>2. s[m].name < s[n].name
    BY <1>2, <1>5
  <2>. QED
    BY <1>4, <2>1, <2>2 DEF D!Overrides
<1>. QED
  BY <1>3, <1>4, <1>5 DEF From, Ascending

(* Folder by folder; the first name of a folder comes last.                *)
LEMMA RedmodScan == From(D!ListRedmod, {"redmod"}) /\ Ascending(D!ListRedmod)
<1> DEFINE mods == {p \in Installed : p.set = "redmod"}
           F == {p.folder : p \in mods}
           R == D!Upwards(F)
           c == Cardinality(F)
           folders == D!InOrder(F, R)
           In(k) == {p \in mods : p.folder = folders[k]}
           ss == [k \in DOMAIN folders |-> D!Reverse(D!Sorted(In(k)))]
           s == D!FlattenSeq(ss)
<1>1. F \subseteq Nat /\ IsFiniteSet(F)
  <2>1. IsFiniteSet(mods)
    BY FilesAssumption, FS_Subset
  <2> DEFINE f == [p \in mods |-> p.folder]
  <2>2. f \in Surjection(mods, F)
    BY DEF Surjection
  <2>3. F \subseteq Nat
    BY FilesAssumption
  <2> HIDE DEF f, mods, F
  <2>. QED
    BY <2>1, <2>2, <2>3, FS_Surjection
<1>2. \A x, y \in F : <<x, y>> \in R <=> x < y
  BY DEF D!Upwards
<1> HIDE DEF R
<1>3. Orders(R, F)
  <2> HIDE DEF F
  <2>. QED
    BY <1>1, <1>2 DEF Orders
<1>4. /\ folders \in [1..c -> F] /\ c \in Nat
      /\ \A m, n \in 1..c : m < n <=> <<folders[m], folders[n]>> \in R
  <2> HIDE DEF F
  <2>. QED
    BY <1>1, <1>3, Ordered, SameOrder
<1> HIDE DEF F, c, folders
<1>5. DOMAIN folders = 1..c /\ \A m, n \in 1..c : m < n => folders[m] < folders[n]
  BY <1>2, <1>4
<1>6. ASSUME NEW k \in 1..c
      PROVE  /\ ss[k] \in Seq(mods)
             /\ \A n \in DOMAIN ss[k] : ss[k][n].folder = folders[k]
             /\ \A m, n \in DOMAIN ss[k] : m < n => ss[k][n].name < ss[k][m].name
  <2> DEFINE t == D!Sorted(In(k))
             l == Len(t)
  <2>1. In(k) \in SUBSET Installed /\ \A p, q \in In(k) : p.name = q.name => p = q
    BY FilesAssumption
  <2>2. t \in Seq(In(k)) /\ \A m, n \in DOMAIN t : m < n => t[m].name < t[n].name
    <3> HIDE DEF In
    <3>. QED
      BY <2>1, SortedFolder
  <2>3. ss[k] = D!Reverse(t)
    BY <1>5
  <2> HIDE DEF t
  <2>4. l \in Nat /\ DOMAIN t = 1..l /\ \A n \in 1..l : t[n] \in mods /\ t[n].folder = folders[k]
    BY <2>2
  <2>5. ss[k] = [i \in 1..l |-> t[(l - i) + 1]]
    BY <2>3 DEF D!Reverse
  <2> HIDE DEF ss, l
  <2>6. \A i \in 1..l : (l - i) + 1 \in 1..l
    BY <2>4
  <2>7. ss[k] \in [1..l -> mods]
    <3> HIDE DEF mods
    <3>. QED
      BY <2>4, <2>5, <2>6
  <2>8. ss[k] \in Seq(mods) /\ DOMAIN ss[k] = 1..l
    <3> HIDE DEF mods
    <3>. QED
      BY <2>4, <2>7
  <2>9. \A n \in 1..l : ss[k][n].folder = folders[k]
    BY <2>4, <2>5, <2>6
  <2>10. ASSUME NEW m \in 1..l, NEW n \in 1..l, m < n
         PROVE  ss[k][n].name < ss[k][m].name
    <3>1. (l - n) + 1 < (l - m) + 1
      BY <2>4, <2>10
    <3>2. (l - n) + 1 \in DOMAIN t /\ (l - m) + 1 \in DOMAIN t
      BY <2>4, <2>6
    <3>3. t[(l - n) + 1].name < t[(l - m) + 1].name
      BY <2>2, <3>1, <3>2
    <3>4. ss[k][n] = t[(l - n) + 1] /\ ss[k][m] = t[(l - m) + 1]
      BY <2>5
    <3>. QED
      BY <3>3, <3>4
  <2>. QED
    BY <2>8, <2>9, <2>10
<1>7. ss \in Seq(Seq(mods)) /\ DOMAIN ss = 1..c
  <2>1. DOMAIN ss = 1..c
    BY <1>5
  <2>2. ss \in [1..c -> Seq(mods)]
    <3> HIDE DEF mods
    <3>. QED
      BY <1>5, <1>6
  <2> HIDE DEF ss, mods
  <2>. QED
    BY <1>4, <2>1, <2>2
<1>8. Len(ss) = c
  <2> HIDE DEF ss, mods
  <2>. QED
    BY <1>4, <1>7
<1>9. s = D!ListRedmod
  BY DEF D!ListRedmod, folders, R, F
<1> HIDE DEF ss, s
<1>10. s \in Seq(mods) /\ \E a, b : Strung(s, ss, c, a, b)
  <2> HIDE DEF mods
  <2>. QED
    BY <1>7, <1>8, Flattened DEF s
<1>11. PICK a, b : Strung(s, ss, c, a, b)
  BY <1>10
<1>12. \A k \in DOMAIN s : /\ a[k] \in 1..c /\ b[k] \in DOMAIN ss[a[k]] /\ s[k] = ss[a[k]][b[k]]
                           /\ s[k] \in mods
  BY <1>10, <1>11 DEF Strung
<1>13. ASSUME NEW m \in DOMAIN s, NEW n \in DOMAIN s, m < n
       PROVE  D!Overrides(s[n], s[m])
  <2>1. a[m] < a[n] \/ (a[m] = a[n] /\ b[m] < b[n])
    BY <1>11, <1>13 DEF Strung
  <2>2. s[m].folder = folders[a[m]] /\ s[n].folder = folders[a[n]] /\ s[m].set = "redmod" /\ s[n].set = "redmod"
    <3>1. ASSUME NEW k \in DOMAIN s
          PROVE  s[k].folder = folders[a[k]] /\ s[k].set = "redmod"
      <4>1. a[k] \in 1..c /\ b[k] \in DOMAIN ss[a[k]] /\ s[k] = ss[a[k]][b[k]]
        BY <1>12
      <4>2. ss[a[k]][b[k]].folder = folders[a[k]]
        BY <1>6, <4>1
      <4>3. s[k] \in mods
        BY <1>12
      <4>. QED
        BY <4>1, <4>2, <4>3
    <3>. QED
      BY <3>1
  <2>3. s[m].folder \in Nat /\ s[n].folder \in Nat /\ s[m].name \in Nat /\ s[n].name \in Nat
    <3>1. \A p \in mods : p.folder \in Nat /\ p.name \in Nat
      BY FilesAssumption
    <3> HIDE DEF mods
    <3>. QED
      BY <1>12, <3>1
  <2>4. CASE a[m] < a[n]
    <3>1. folders[a[m]] < folders[a[n]]
      BY <1>5, <1>12, <2>4
    <3>. QED
      BY <2>2, <2>3, <3>1 DEF D!Overrides
  <2>5. CASE a[m] = a[n] /\ b[m] < b[n]
    <3> DEFINE k == a[m]
    <3>1. k \in 1..c /\ b[m] \in DOMAIN ss[k] /\ b[n] \in DOMAIN ss[k]
      BY <1>12, <2>5
    <3>2. ss[k][b[n]].name < ss[k][b[m]].name
      BY <1>6, <2>5, <3>1
    <3>3. s[n] = ss[k][b[n]] /\ s[m] = ss[k][b[m]]
      BY <1>12, <2>5
    <3>4. s[n].name < s[m].name
      BY <3>2, <3>3
    <3>. QED
      BY <2>2, <2>3, <2>5, <3>4 DEF D!Overrides
  <2>. QED
    BY <2>1, <2>4, <2>5
<1>14. s \in Seq(Installed)
  <2>1. DOMAIN s = 1..Len(s) /\ Len(s) \in Nat /\ \A n \in DOMAIN s : s[n] \in Installed
    BY <1>10
  <2>2. s \in [1..Len(s) -> Installed]
    BY <1>10, <2>1
  <2>. QED
    BY <2>1, <2>2
<1>. QED
  BY <1>9, <1>12, <1>13, <1>14 DEF From, Ascending

(* A list on top of another one that it overrides.                         *)
LEMMA OnTop ==
    ASSUME NEW A1, NEW B1, NEW s, NEW t, From(s, A1), Ascending(s), From(t, B1), Ascending(t),
           \A x \in A1, y \in B1 : D!Level(y) > D!Level(x)
    PROVE  From(s \o t, A1 \cup B1) /\ Ascending(s \o t)
<1> DEFINE q == s \o t
           l == Len(s)
           c == Len(t)
<1>1. /\ s \in Seq(Installed) /\ t \in Seq(Installed) /\ l \in Nat /\ c \in Nat
      /\ DOMAIN s = 1..l /\ DOMAIN t = 1..c
  BY DEF From
<1>2. q \in Seq(Installed) /\ DOMAIN q = 1..(l + c)
  BY <1>1
<1>3. /\ \A k \in 1..l : q[k] = s[k]
      /\ \A k \in (l + 1)..(l + c) : k - l \in 1..c /\ q[k] = t[k - l]
      /\ \A k \in 1..(l + c) : k \in 1..l \/ k \in (l + 1)..(l + c)
  BY <1>1
<1> HIDE DEF q, l, c
<1>4. \A k \in DOMAIN q : q[k].set \in A1 \cup B1
  <2> SUFFICES ASSUME NEW k \in 1..(l + c)
               PROVE  q[k].set \in A1 \cup B1
    BY <1>2
  <2>1. CASE k \in 1..l
    BY <1>1, <1>3, <2>1 DEF From
  <2>2. CASE k \in (l + 1)..(l + c)
    BY <1>1, <1>3, <2>2 DEF From
  <2>. QED
    BY <1>3, <2>1, <2>2
<1>5. ASSUME NEW m \in 1..(l + c), NEW n \in 1..(l + c), m < n
      PROVE  D!Overrides(q[n], q[m])
  <2>1. CASE n \in 1..l
    <3>1. m \in 1..l
      BY <1>1, <1>5, <2>1
    <3>. QED
      BY <1>1, <1>3, <1>5, <2>1, <3>1 DEF Ascending
  <2>2. CASE n \in (l + 1)..(l + c) /\ m \in (l + 1)..(l + c)
    <3>1. /\ m - l \in DOMAIN t /\ n - l \in DOMAIN t /\ m - l < n - l
          /\ q[m] = t[m - l] /\ q[n] = t[n - l]
      BY <1>1, <1>3, <1>5, <2>2
    <3>. QED
      BY <3>1 DEF Ascending
  <2>3. CASE n \in (l + 1)..(l + c) /\ m \in 1..l
    <3>1. /\ n - l \in DOMAIN t /\ m \in DOMAIN s /\ q[m] = s[m] /\ q[n] = t[n - l]
      BY <1>1, <1>3, <2>3
    <3>2. q[m].set \in A1 /\ q[n].set \in B1
      BY <3>1 DEF From
    <3>3. D!Level(q[n].set) > D!Level(q[m].set)
      BY <3>2
    <3>. QED
      BY <3>3 DEF D!Overrides
  <2>. QED
    BY <1>3, <2>1, <2>2, <2>3
<1>. QED
  BY <1>2, <1>4, <1>5 DEF q, From, Ascending

(* A set that a scan leaves out overrides nothing.                         *)
LEMMA NoFolder == \A x : From(<<>>, x) /\ Ascending(<<>>)
BY DEF From, Ascending

(* The sets of a scan, one on top of the other.                            *)
LEMMA WholeScan ==
    ASSUME NEW flags
    PROVE  D!Scan(flags) \in Seq(Installed) /\ Ascending(D!Scan(flags))
<1> DEFINE c == IF "content" \in flags THEN D!ListArchives("content") ELSE <<>>
           e == IF "ep1" \in flags THEN D!ListArchives("ep1") ELSE <<>>
           r == IF "redmod" \in flags THEN D!ListRedmod ELSE <<>>
           m == IF "mod" \in flags THEN D!ListArchives("mod") ELSE <<>>
<1>1. D!Scan(flags) = ((c \o e) \o r) \o m
  BY DEF D!Scan
<1>2. From(c, {"content"}) /\ Ascending(c)
  <2>1. From(D!ListArchives("content"), {"content"}) /\ Ascending(D!ListArchives("content"))
    BY FolderScan
  <2>. QED
    BY <2>1, NoFolder
<1>3. From(e, {"ep1"}) /\ Ascending(e)
  <2>1. From(D!ListArchives("ep1"), {"ep1"}) /\ Ascending(D!ListArchives("ep1"))
    BY FolderScan
  <2>. QED
    BY <2>1, NoFolder
<1>4. From(r, {"redmod"}) /\ Ascending(r)
  BY RedmodScan, NoFolder
<1>5. From(m, {"mod"}) /\ Ascending(m)
  <2>1. From(D!ListArchives("mod"), {"mod"}) /\ Ascending(D!ListArchives("mod"))
    BY FolderScan
  <2>. QED
    BY <2>1, NoFolder
<1>6. /\ D!Level("content") = 1 /\ D!Level("ep1") = 2 /\ D!Level("redmod") = 3 /\ D!Level("mod") = 4
  BY DEF D!Level
<1> HIDE DEF c, e, r, m
<1>7. From(c \o e, {"content"} \cup {"ep1"}) /\ Ascending(c \o e)
  <2>1. \A x \in {"content"}, y \in {"ep1"} : D!Level(y) > D!Level(x)
    BY <1>6
  <2>. QED
    BY <1>2, <1>3, <2>1, OnTop
<1>8. From((c \o e) \o r, {"content"} \cup {"ep1"} \cup {"redmod"}) /\ Ascending((c \o e) \o r)
  <2>1. \A x \in {"content"} \cup {"ep1"}, y \in {"redmod"} : D!Level(y) > D!Level(x)
    BY <1>6
  <2>. QED
    BY <1>4, <1>7, <2>1, OnTop
<1>9. /\ From(((c \o e) \o r) \o m, {"content"} \cup {"ep1"} \cup {"redmod"} \cup {"mod"})
      /\ Ascending(((c \o e) \o r) \o m)
  <2>1. \A x \in {"content"} \cup {"ep1"} \cup {"redmod"}, y \in {"mod"} : D!Level(y) > D!Level(x)
    BY <1>6
  <2>. QED
    BY <1>5, <1>8, <2>1, OnTop
<1>. QED
  BY <1>1, <1>9 DEF From

(* What cannot be opened is left out; the others keep their order.         *)
LEMMA UsableScan ==
    ASSUME NEW s \in Seq(Installed), NEW broken
    PROVE  LET q == D!Usable(s, broken) IN q \in Seq(Installed) /\ (Ascending(s) => Ascending(q))
<1> DEFINE K == {n \in DOMAIN s : s[n] \notin broken}
           q == D!Usable(s, broken)
<1>1. K \in SUBSET DOMAIN s /\ q = D!Kept(s, K)
  BY DEF D!Usable
<1>2. Len(s) \in Nat /\ DOMAIN s = 1..Len(s)
  OBVIOUS
<1> HIDE DEF K, q
<1>3. q \in Seq(Installed) /\ \E at : Keeps(q, s, K, at)
  <2>1. q = Kept(s, K)
    BY <1>1, SameOrder
  <2>. QED
    BY <1>1, <2>1, Keeping
<1>4. PICK at : /\ \A n \in DOMAIN q : at[n] \in K /\ q[n] = s[at[n]]
                /\ \A k \in K : \E n \in DOMAIN q : at[n] = k
                /\ \A m, n \in DOMAIN q : m < n <=> at[m] < at[n]
  BY <1>3, Zenon DEF Keeps
<1>5. ASSUME Ascending(s), NEW m \in DOMAIN q, NEW n \in DOMAIN q, m < n
      PROVE  D!Overrides(q[n], q[m])
  <2>1. at[m] \in DOMAIN s /\ at[n] \in DOMAIN s /\ at[m] < at[n]
    BY <1>1, <1>4, <1>5
  <2>2. D!Overrides(s[at[n]], s[at[m]])
    BY <1>5, <2>1 DEF Ascending
  <2>. QED
    BY <1>4, <2>2
<1>. QED
  BY <1>3, <1>5 DEF q, Ascending

-----------------------------------------------------------------------------
(* The depot: what every open, mount and close keeps true.                 *)

(* The list is of installed archives, the table is the one for the list,   *)
(* and a list that came from a scan is in the documented order.            *)
MountedInv ==
    /\ index \in [Installed -> Indexes] /\ opened \in BOOLEAN /\ scanned \in BOOLEAN
    /\ archives \in Seq(Installed) /\ Len(archives) <= MaxArchives
    /\ IsTable(refs, archives)
    /\ scanned => Ascending(archives)

(* A closed depot has nothing to find.                                     *)
LEMMA NoTable == IsTable(<<>>, <<>>)
<1>1. \A x : ~IsEntry(x, <<>>)
  BY DEF IsEntry
<1>. QED
  BY <1>1 DEF IsTable

(* Whatever is mounted, the table is built for it.                         *)
LEMMA Remounting ==
    ASSUME MountedInv, archives' \in Seq(Installed), Len(archives') <= MaxArchives, refs' = D!Reindex(archives'),
           index' = index, opened' \in BOOLEAN, scanned' \in BOOLEAN, scanned' => Ascending(archives')
    PROVE  MountedInv'
<1>1. IsTable(D!Reindex(archives'), archives')
  BY Reindexed DEF MountedInv
<1>2. IsTable(refs, archives)'
  BY <1>1 DEF IsTable, IsEntry, Under
<1>. QED
  BY <1>2 DEF MountedInv, Ascending

(* Each call keeps it.                                                     *)
LEMMA DepotStep ==
    ASSUME MountedInv, D!Next
    PROVE  MountedInv'
<1>1. ASSUME NEW flags, NEW broken, D!DepotOpen(flags, broken)
      PROVE  MountedInv'
  <2> DEFINE list == D!Usable(D!Scan(flags), broken)
  <2>1. list \in Seq(Installed) /\ Ascending(list)
    BY WholeScan, UsableScan
  <2>2. /\ Len(list) <= MaxArchives /\ archives' = list /\ refs' = D!Reindex(list)
        /\ opened' = TRUE /\ scanned' = TRUE /\ index' = index
    BY <1>1 DEF D!DepotOpen
  <2> HIDE DEF list
  <2>. QED
    BY <2>1, <2>2, Remounting
<1>2. CASE D!DepotOpenEmpty
  BY <1>2 DEF D!DepotOpenEmpty, MountedInv, IsTable, IsEntry, Under, Ascending
<1>3. ASSUME NEW p \in Installed, D!DepotMount(p)
      PROVE  MountedInv'
  <2>1. archives \in Seq(Installed) /\ Len(archives) \in Nat /\ MaxArchives \in Nat
    BY FilesAssumption DEF MountedInv
  <2>2. Append(archives, p) \in Seq(Installed) /\ Len(Append(archives, p)) = Len(archives) + 1
    BY <2>1
  <2>3. /\ Len(archives) < MaxArchives /\ archives' = Append(archives, p) /\ refs' = D!Reindex(Append(archives, p))
        /\ opened' = opened /\ scanned' = FALSE /\ index' = index
    BY <1>3 DEF D!DepotMount, D!Remounted
  <2>4. opened' \in BOOLEAN /\ scanned' \in BOOLEAN /\ ~scanned'
    BY <2>3 DEF MountedInv
  <2>5. archives' \in Seq(Installed) /\ Len(archives') <= MaxArchives /\ refs' = D!Reindex(archives')
    BY <2>1, <2>2, <2>3
  <2>. QED
    BY <2>3, <2>4, <2>5, Remounting
<1>4. ASSUME NEW set \in D!Sets \ {"redmod"}, NEW broken, D!DepotMountDir(set, broken)
      PROVE  MountedInv'
  <2> DEFINE list == D!Usable(D!ListArchives(set), broken)
  <2>1. list \in Seq(Installed)
    <3>1. D!ListArchives(set) \in Seq(Installed)
      BY FolderScan DEF From
    <3>. QED
      BY <3>1, UsableScan
  <2>2. /\ Len(archives) + Len(list) <= MaxArchives /\ archives' = archives \o list
        /\ refs' = D!Reindex(archives \o list)
        /\ opened' = opened /\ scanned' = FALSE /\ index' = index
    BY <1>4 DEF D!DepotMountDir
  <2>3. opened \in BOOLEAN /\ archives \in Seq(Installed)
    BY DEF MountedInv
  <2> HIDE DEF list
  <2>4. archives \o list \in Seq(Installed) /\ Len(archives \o list) = Len(archives) + Len(list)
    BY <2>1, <2>3
  <2>. QED
    BY <2>2, <2>3, <2>4, Remounting
<1>5. CASE D!DepotClose
  <2>1. /\ archives' = <<>> /\ refs' = <<>> /\ opened' = FALSE /\ scanned' = FALSE /\ index' = index
    BY <1>5 DEF D!DepotClose
  <2>2. IsTable(refs, archives)'
    BY <2>1, NoTable DEF IsTable, IsEntry, Under
  <2>3. archives' \in Seq(Installed) /\ Len(archives') <= MaxArchives
    BY <2>1, FilesAssumption
  <2>4. index' \in [Installed -> Indexes] /\ opened' \in BOOLEAN /\ scanned' \in BOOLEAN /\ ~scanned'
    BY <2>1 DEF MountedInv
  <2>. QED
    BY <2>2, <2>3, <2>4 DEF MountedInv
<1>. QED
  BY <1>1, <1>2, <1>3, <1>4, <1>5 DEF D!Next

(* So it holds in every depot.                                             *)
LEMMA DepotAlways == FilesSpec => [](reader = "depot" => MountedInv)
<1>1. FilesInit => (reader = "depot" => MountedInv)
  <2> SUFFICES ASSUME FilesInit, reader = "depot"
               PROVE  MountedInv
    OBVIOUS
  <2>1. /\ index \in [Installed -> Indexes] /\ opened = FALSE /\ scanned = FALSE
        /\ archives = <<>> /\ refs = <<>>
    BY DEF FilesInit, D!Init
  <2>2. archives \in Seq(Installed) /\ Len(archives) <= MaxArchives
    BY <2>1, FilesAssumption
  <2>3. IsTable(refs, archives)
    BY <2>1, NoTable
  <2>. QED
    BY <2>1, <2>2, <2>3 DEF MountedInv
<1>2. (reader = "depot" => MountedInv) /\ [FilesNext]_fileVars => (reader = "depot" => MountedInv)'
  <2> SUFFICES ASSUME reader = "depot" => MountedInv, [FilesNext]_fileVars, reader' = "depot"
               PROVE  MountedInv'
    OBVIOUS
  <2>1. reader = "depot" /\ (D!Next \/ UNCHANGED depotVars)
    BY DEF FilesNext, ReadDocument, ReadTexture, ReadSound, ReadMesh, ReadArchive, Mount, DecodeSegments, fileVars
  <2>2. CASE UNCHANGED depotVars
    BY <2>1, <2>2 DEF depotVars, MountedInv, IsTable, IsEntry, Under, Ascending
  <2>. QED
    BY <2>1, <2>2, DepotStep
<1>. QED
  BY <1>1, <1>2, PTL DEF FilesSpec

(* After any sequence of opens, mounts and closes, of any archives with    *)
(* any entry tables, a lookup finds the last entry of the archive mounted  *)
(* last, and no hash that is not there: api.cpp's reindex and locate.      *)
THEOREM LastMountedIsFound == FilesSpec => []DepotInv
<1>1. (reader = "depot" => MountedInv) => DepotInv
  <2> SUFFICES ASSUME MountedInv
               PROVE  D!TypeOK /\ D!LastMountWins
    BY DEF DepotInv
  <2>1. D!LastMountWins
    BY LookupFinds DEF MountedInv
  <2>2. \A n \in DOMAIN refs : /\ refs[n].archive \in DOMAIN archives
                               /\ refs[n].entry \in DOMAIN index[archives[refs[n].archive]]
    BY DEF MountedInv, IsTable, IsEntry
  <2>3. refs \in Seq(D!Refs)
    <3> DEFINE X == [hash : DepotHashes, archive : Nat, entry : Nat]
    <3>1. /\ Len(refs) \in Nat /\ DOMAIN refs = 1..Len(refs) /\ \A n \in DOMAIN refs : refs[n] \in X
          /\ DOMAIN archives = 1..Len(archives) /\ Len(archives) \in Nat
          /\ Len(archives) <= MaxArchives /\ MaxArchives \in Nat
      <4> HIDE DEF X
      <4>1. refs \in Seq(X)
        BY DEF MountedInv, IsTable, X
      <4>. QED
        BY <4>1, FilesAssumption DEF MountedInv
    <3>2. \A n \in DOMAIN refs : refs[n] \in D!Refs
      BY <2>2, <3>1 DEF D!Refs
    <3>3. refs \in [1..Len(refs) -> D!Refs]
      <4>1. refs \in Seq(X)
        BY DEF MountedInv, IsTable
      <4> HIDE DEF X
      <4>. QED
        BY <3>1, <3>2, <4>1
    <3>. QED
      BY <3>1, <3>3
  <2>. QED
    BY <2>1, <2>2, <2>3 DEF MountedInv, D!TypeOK
<1>. QED
  BY <1>1, DepotAlways, PTL

(* What a depot opened by a scan finds overrides every other entry of its  *)
(* hash in the order that redfs.h documents, whatever is installed and     *)
(* whichever archives could not be opened.                                 *)
THEOREM ScanOverridesAsDocumented == FilesSpec => []DocumentedOverrides
<1>1. (reader = "depot" => MountedInv) => DocumentedOverrides
  <2> SUFFICES ASSUME MountedInv, scanned,
                      NEW h \in DepotHashes, NEW r \in D!Locate(h), NEW a \in DOMAIN archives,
                      h \in D!Range(index[archives[a]]), a # r.archive
               PROVE  D!Overrides(archives[r.archive], archives[a])
    BY DEF DocumentedOverrides, D!DocumentedOverrides
  <2>1. r \in D!Winner(h)
    BY LookupFinds DEF MountedInv, D!LastMountWins
  <2>2. PICK e \in DOMAIN index[archives[a]] : index[archives[a]][e] = h
    BY DEF D!Range
  <2>3. [hash |-> h, archive |-> a, entry |-> e] \in D!Candidates(h)
    BY <2>2 DEF D!Candidates
  <2>4. a < r.archive
    BY <2>1, <2>3 DEF D!Winner
  <2>5. r.archive \in DOMAIN archives
    BY <2>1 DEF D!Winner, D!Candidates
  <2>. QED
    BY <2>4, <2>5 DEF MountedInv, Ascending
<1>. QED
  BY <1>1, DepotAlways, PTL
====
