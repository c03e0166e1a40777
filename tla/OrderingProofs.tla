--------------------------- MODULE OrderingProofs ---------------------------
(***************************************************************************)
(* What the operators of Ordering do to any finite set and any list, and   *)
(* induction without an operator to induct on.                             *)
(***************************************************************************)
EXTENDS Ordering, FiniteSetTheorems, WellFoundedInduction, TLAPS

-----------------------------------------------------------------------------
(* Putting a finite set in order.                                          *)

(* R puts the elements of E in one line.                                   *)
Orders(R, E) ==
    /\ \A x, y \in E : x = y \/ <<x, y>> \in R \/ <<y, x>> \in R
    /\ \A x \in E : <<x, x>> \notin R
    /\ \A x, y, z \in E : <<x, y>> \in R /\ <<y, z>> \in R => <<x, z>> \in R

(* Whatever comes earlier has a smaller rank.                              *)
LEMMA RankGrows ==
    ASSUME NEW E, IsFiniteSet(E), NEW R, Orders(R, E)
    PROVE  /\ \A x \in E : Rank(x, E, R) \in 0..(Cardinality(E) - 1)
           /\ \A x, y \in E : <<x, y>> \in R => Rank(x, E, R) < Rank(y, E, R)
<1> DEFINE Below(x) == {y \in E : <<y, x>> \in R}
<1>0. ASSUME NEW x
      PROVE  Rank(x, E, R) = Cardinality(Below(x))
  BY DEF Rank
<1>1. \A x : Below(x) \in SUBSET E
  OBVIOUS
<1>2. \A x \in E : x \notin Below(x)
  BY DEF Orders
<1>3. \A x, y \in E : <<x, y>> \in R => Below(x) \subseteq Below(y) /\ x \in Below(y)
  BY DEF Orders
<1> HIDE DEF Below
<1>4. \A x : IsFiniteSet(Below(x)) /\ Cardinality(Below(x)) \in Nat
  BY <1>1, FS_Subset, FS_CardinalityType
<1>5. Cardinality(E) \in Nat
  BY FS_CardinalityType
<1>6. ASSUME NEW x \in E
      PROVE  Cardinality(Below(x)) < Cardinality(E)
  <2>1. Cardinality(Below(x)) <= Cardinality(E) /\ (Cardinality(E) = Cardinality(Below(x)) => E = Below(x))
    BY <1>1, FS_Subset
  <2>2. E # Below(x)
    BY <1>2
  <2>. QED
    BY <1>4, <1>5, <2>1, <2>2
<1>7. ASSUME NEW x \in E, NEW y \in E, <<x, y>> \in R
      PROVE  Cardinality(Below(x)) < Cardinality(Below(y))
  <2>1. Below(x) \in SUBSET Below(y) /\ Below(x) # Below(y)
    BY <1>2, <1>3, <1>7
  <2>2. Cardinality(Below(x)) <= Cardinality(Below(y)) /\ Cardinality(Below(x)) # Cardinality(Below(y))
    BY <1>4, <2>1, FS_Subset
  <2>. QED
    BY <1>4, <2>2
<1>8. \A x \in E : Rank(x, E, R) \in 0..(Cardinality(E) - 1)
  BY <1>0, <1>4, <1>5, <1>6
<1>. QED
  BY <1>0, <1>7, <1>8

(* No place stays empty: otherwise too many would share the others.        *)
LEMMA RankOnto ==
    ASSUME NEW E, IsFiniteSet(E), NEW R, Orders(R, E), NEW n \in 1..Cardinality(E)
    PROVE  \E x \in E : Rank(x, E, R) = n - 1
<1> SUFFICES ASSUME \A x \in E : Rank(x, E, R) # n - 1
             PROVE  FALSE
  OBVIOUS
<1> DEFINE c == Cardinality(E)
           Others == (0..(c - 1)) \ {n - 1}
           f == [x \in E |-> Rank(x, E, R)]
<1>1. c \in Nat /\ n \in 1..c
  BY FS_CardinalityType
<1>4. f \in [E -> Others]
  BY RankGrows
<1> HIDE DEF c
<1>2. IsFiniteSet(0..(c - 1)) /\ Cardinality(0..(c - 1)) = c /\ n - 1 \in 0..(c - 1)
  <2>1. 0 \in Int /\ c - 1 \in Int /\ n - 1 \in 0..(c - 1)
    BY <1>1
  <2>2. IsFiniteSet(0..(c - 1)) /\ Cardinality(0..(c - 1)) = IF 0 > c - 1 THEN 0 ELSE (c - 1) - 0 + 1
    BY <2>1, FS_Interval
  <2>. QED
    BY <1>1, <2>1, <2>2
<1>3. IsFiniteSet(Others) /\ Cardinality(Others) = c - 1
  BY <1>2, FS_RemoveElement
<1>5. PICK x \in E, y \in E : x # y /\ f[x] = f[y]
  <2>1. Cardinality(Others) < Cardinality(E)
    BY <1>1, <1>3 DEF c
  <2> HIDE DEF f, Others
  <2>. QED
    BY <1>3, <1>4, <2>1, FS_PigeonHole
<1>6. f[x] = Rank(x, E, R) /\ f[y] = Rank(y, E, R)
  OBVIOUS
<1>7. <<x, y>> \in R \/ <<y, x>> \in R
  BY <1>5 DEF Orders
<1>8. Rank(x, E, R) # Rank(y, E, R)
  BY <1>7, RankGrows
<1>. QED
  BY <1>5, <1>6, <1>8

(* Place n is that of the one element of rank n - 1.                       *)
LEMMA Placing ==
    ASSUME NEW E, IsFiniteSet(E), NEW R, Orders(R, E)
    PROVE  /\ \A n \in 1..Cardinality(E) : InOrder(E, R)[n] \in E /\ Rank(InOrder(E, R)[n], E, R) = n - 1
           /\ \A x, y \in E : Rank(x, E, R) = Rank(y, E, R) => x = y
<1>1. ASSUME NEW n \in 1..Cardinality(E)
      PROVE  InOrder(E, R)[n] \in E /\ Rank(InOrder(E, R)[n], E, R) = n - 1
  <2>1. InOrder(E, R)[n] = Nth(n, E, R)
    BY DEF InOrder
  <2>2. \E x \in E : Rank(x, E, R) = n - 1
    BY RankOnto
  <2>. QED
    BY <2>1, <2>2, Zenon DEF Nth
<1>2. ASSUME NEW x \in E, NEW y \in E, Rank(x, E, R) = Rank(y, E, R)
      PROVE  x = y
  <2>1. Rank(x, E, R) \in Int /\ Rank(y, E, R) \in Int
    BY RankGrows
  <2>2. <<x, y>> \notin R /\ <<y, x>> \notin R
    BY <1>2, <2>1, RankGrows
  <2>. QED
    BY <2>2 DEF Orders
<1>. QED
  BY <1>1, <1>2

(* The list has the elements of the set, each at one place, in order.      *)
LEMMA Ordered ==
    ASSUME NEW E, IsFiniteSet(E), NEW R, Orders(R, E)
    PROVE  LET s == InOrder(E, R)
           IN  /\ s \in [1..Cardinality(E) -> E] /\ Cardinality(E) \in Nat
               /\ \A x \in E : \E n \in 1..Cardinality(E) : s[n] = x
               /\ \A m, n \in 1..Cardinality(E) : m < n <=> <<s[m], s[n]>> \in R
<1> DEFINE s == InOrder(E, R)
           c == Cardinality(E)
<1>0. c \in Nat
  BY FS_CardinalityType
<1>1. ASSUME NEW n \in 1..c
      PROVE  s[n] \in E /\ Rank(s[n], E, R) = n - 1
  BY Placing
<1>2. s \in [1..c -> E]
  BY <1>1 DEF InOrder
<1> HIDE DEF s
<1>3. ASSUME NEW x \in E, NEW y \in E, Rank(x, E, R) = Rank(y, E, R)
      PROVE  x = y
  BY <1>3, Placing
<1>4. ASSUME NEW x \in E
      PROVE  \E n \in 1..c : s[n] = x
  <2>1. Rank(x, E, R) \in 0..(c - 1)
    BY RankGrows
  <2> DEFINE n == Rank(x, E, R) + 1
  <2>2. n \in 1..c /\ n - 1 = Rank(x, E, R)
    BY <1>0, <2>1
  <2>3. s[n] \in E /\ Rank(s[n], E, R) = Rank(x, E, R)
    BY <1>1, <2>2
  <2>. QED
    BY <1>3, <2>2, <2>3
<1>5. ASSUME NEW m \in 1..c, NEW n \in 1..c
      PROVE  m < n <=> <<s[m], s[n]>> \in R
  <2>1. /\ s[m] \in E /\ s[n] \in E
        /\ Rank(s[m], E, R) = m - 1 /\ Rank(s[n], E, R) = n - 1
    BY <1>1
  <2>2. <<s[m], s[n]>> \in R => m < n
    <3>1. <<s[m], s[n]>> \in R => Rank(s[m], E, R) < Rank(s[n], E, R)
      BY <2>1, RankGrows
    <3>. QED
      BY <1>0, <2>1, <3>1
  <2>3. m < n => <<s[m], s[n]>> \in R
    <3> SUFFICES ASSUME m < n
                 PROVE  <<s[m], s[n]>> \in R
      OBVIOUS
    <3>1. s[m] # s[n]
      BY <1>0, <2>1
    <3>2. CASE <<s[n], s[m]>> \in R
      <4>1. Rank(s[n], E, R) < Rank(s[m], E, R)
        BY <2>1, <3>2, RankGrows
      <4>. QED
        BY <1>0, <2>1, <4>1
    <3>. QED
      BY <2>1, <3>1, <3>2 DEF Orders
  <2>. QED
    BY <2>2, <2>3
<1>. QED
  BY <1>0, <1>2, <1>4, <1>5 DEF s

(* Place n of q is place at[n] of s: all the places K, in order ...         *)
Keeps(q, s, K, at) ==
    /\ \A n \in DOMAIN q : at[n] \in K /\ q[n] = s[at[n]]
    /\ \A k \in K : \E n \in DOMAIN q : at[n] = k
    /\ \A m, n \in DOMAIN q : m < n <=> at[m] < at[n]

(* ... or all of them, by hash, equal hashes as they were.                 *)
Sorts(q, s, at) ==
    /\ \A n \in DOMAIN q : at[n] \in DOMAIN s /\ q[n] = s[at[n]]
    /\ \A k \in DOMAIN s : \E n \in DOMAIN q : at[n] = k
    /\ \A m, n \in DOMAIN q : m < n =>
          q[m].hash < q[n].hash \/ (q[m].hash = q[n].hash /\ at[m] < at[n])

(* A list cut down to some of its places keeps them all, in order.         *)
LEMMA Keeping ==
    ASSUME NEW X, NEW s \in Seq(X), NEW K \in SUBSET DOMAIN s
    PROVE  Kept(s, K) \in Seq(X) /\ \E at : Keeps(Kept(s, K), s, K, at)
<1> DEFINE R == Upwards(K)
           at == InOrder(K, R)
           c == Cardinality(K)
           q == Kept(s, K)
<1>1. K \subseteq Nat /\ \A k \in K : k <= Len(s)
  OBVIOUS
<1>2. IsFiniteSet(K)
  BY <1>1, FS_BoundedSetOfNaturals
<1>3. \A x, y \in K : <<x, y>> \in R <=> x < y
  BY DEF Upwards
<1>4. Orders(R, K)
  BY <1>1, <1>3 DEF Orders
<1>5. /\ at \in [1..c -> K] /\ c \in Nat
      /\ \A x \in K : \E n \in 1..c : at[n] = x
      /\ \A m, n \in 1..c : m < n <=> <<at[m], at[n]>> \in R
  BY <1>2, <1>4, Ordered
<1>6. q = [n \in DOMAIN at |-> s[at[n]]]
  BY DEF Kept
<1> HIDE DEF at, q, c
<1>7. DOMAIN q = 1..c /\ \A n \in 1..c : q[n] = s[at[n]]
  BY <1>5, <1>6
<1>8. q \in Seq(X)
  <2>1. \A n \in 1..c : s[at[n]] \in X
    BY <1>5
  <2>2. q \in [1..c -> X]
    BY <1>5, <1>6, <2>1
  <2>. QED
    BY <1>5, <2>2
<1>9. \A m, n \in DOMAIN q : m < n <=> at[m] < at[n]
  BY <1>3, <1>5, <1>7
<1>10. Keeps(q, s, K, at)
  BY <1>5, <1>7, <1>9 DEF Keeps
<1>. QED
  BY <1>8, <1>10 DEF q

(* What is kept depends on nothing but what is at the places.              *)
LEMMA KeptSame ==
    ASSUME NEW K \in SUBSET Nat, IsFiniteSet(K), NEW s, NEW w, \A k \in K : s[k] = w[k]
    PROVE  Kept(s, K) = Kept(w, K)
<1> DEFINE R == Upwards(K)
           at == InOrder(K, R)
<1>1. Orders(R, K)
  BY DEF Orders, Upwards
<1>2. \A n \in 1..Cardinality(K) : at[n] \in K
  BY <1>1, Placing
<1>3. DOMAIN at = 1..Cardinality(K)
  BY DEF InOrder
<1> HIDE DEF at
<1>. QED
  BY <1>2, <1>3 DEF Kept, at

(* q is s and one element more.                                            *)
Grown(q, s, x) == q = Append(s, x)

(* A place behind all others adds its element at the end.                  *)
LEMMA KeptGrows ==
    ASSUME NEW K \in SUBSET Nat, IsFiniteSet(K), NEW s, NEW w, NEW m \in Nat,
           \A k \in K : k < m /\ s[k] = w[k]
    PROVE  Grown(Kept(w, K \cup {m}), Kept(s, K), w[m])
<1> DEFINE M == K \cup {m}
           R == Upwards(K)
           Q == Upwards(M)
           at == InOrder(K, R)
           wide == InOrder(M, Q)
           c == Cardinality(K)
<1>1. M \in SUBSET Nat /\ m \notin K /\ IsFiniteSet(M) /\ Cardinality(M) = c + 1 /\ c \in Nat
  BY FS_AddElement, FS_CardinalityType
<1>2. Orders(R, K) /\ Orders(Q, M)
  BY <1>1 DEF Orders, Upwards
<1>3. /\ \A n \in 1..c : at[n] \in K /\ Rank(at[n], K, R) = n - 1
      /\ \A n \in 1..(c + 1) : wide[n] \in M /\ Rank(wide[n], M, Q) = n - 1
      /\ \A x, y \in M : Rank(x, M, Q) = Rank(y, M, Q) => x = y
  <2>1. \A n \in 1..c : at[n] \in K /\ Rank(at[n], K, R) = n - 1
    BY <1>2, Placing
  <2> HIDE DEF M, Q
  <2>. QED
    BY <1>1, <1>2, <2>1, Placing
<1>4. \A x \in K : Rank(x, M, Q) = Rank(x, K, R)
  <2> SUFFICES ASSUME NEW x \in K
               PROVE  Rank(x, M, Q) = Rank(x, K, R)
    OBVIOUS
  <2>1. {y \in M : <<y, x>> \in Q} = {y \in K : <<y, x>> \in R}
    BY <1>1 DEF Upwards
  <2>. QED
    BY <2>1 DEF Rank
<1>5. Rank(m, M, Q) = c
  <2>1. \A y \in M : <<y, m>> \in Q <=> y \in K
    BY <1>1 DEF Upwards
  <2>2. {y \in M : <<y, m>> \in Q} = K
    BY <2>1
  <2>. QED
    BY <2>2, Zenon DEF Rank
<1>6. DOMAIN at = 1..c /\ DOMAIN wide = 1..(c + 1)
  BY <1>1 DEF InOrder
<1> HIDE DEF at, wide, c, Q, R
<1>7. \A n \in 1..c : wide[n] = at[n]
  <2> SUFFICES ASSUME NEW n \in 1..c
               PROVE  wide[n] = at[n]
    OBVIOUS
  <2>1. at[n] \in M /\ Rank(at[n], M, Q) = n - 1
    BY <1>3, <1>4
  <2>2. n \in 1..(c + 1)
    BY <1>1
  <2>. QED
    BY <1>3, <2>1, <2>2
<1>8. wide[c + 1] = m
  <2>1. c + 1 \in 1..(c + 1) /\ (c + 1) - 1 = c /\ m \in M
    BY <1>1
  <2> HIDE DEF M
  <2>2. wide[c + 1] \in M /\ Rank(wide[c + 1], M, Q) = c
    BY <1>3, <2>1
  <2>. QED
    BY <1>3, <1>5, <2>1, <2>2
<1> DEFINE q == Kept(s, K)
<1>9. q = [n \in 1..c |-> s[at[n]]]
  BY <1>6 DEF Kept, at, R
<1>10. Kept(w, M) = [n \in 1..(c + 1) |-> w[wide[n]]]
  BY <1>6 DEF Kept, wide, Q
<1>11. Append(q, w[m]) = [n \in 1..(c + 1) |-> IF n = c + 1 THEN w[m] ELSE q[n]]
  <2>1. Len(q) = c
    BY <1>1, <1>9
  <2>. QED
    BY <1>1, <2>1
<1> HIDE DEF q, M
<1>12. \A n \in 1..(c + 1) : w[wide[n]] = IF n = c + 1 THEN w[m] ELSE q[n]
  <2> SUFFICES ASSUME NEW n \in 1..(c + 1)
               PROVE  w[wide[n]] = IF n = c + 1 THEN w[m] ELSE q[n]
    OBVIOUS
  <2>1. CASE n = c + 1
    BY <1>8, <2>1
  <2>2. CASE n # c + 1
    <3>1. n \in 1..c
      BY <1>1, <2>2
    <3>. QED
      BY <1>3, <1>7, <1>9, <2>2, <3>1
  <2>. QED
    BY <2>1, <2>2
<1>13. Kept(w, M) = Append(q, w[m])
  BY <1>10, <1>11, <1>12
<1>. QED
  BY <1>13 DEF M, q, Grown

(* A list sorted by hash has every place once, equal hashes as they were.  *)
LEMMA Sorting ==
    ASSUME NEW X, NEW s \in Seq(X), \A n \in DOMAIN s : s[n].hash \in Nat
    PROVE  StableSort(s) \in Seq(X) /\ \E at : Sorts(StableSort(s), s, at)
<1> DEFINE K == DOMAIN s
           R == ByHash(s)
           at == InOrder(K, R)
           c == Cardinality(K)
           q == StableSort(s)
<1>1. K = 1..Len(s) /\ Len(s) \in Nat
  OBVIOUS
<1>2. IsFiniteSet(K)
  <2>1. 1 \in Int /\ Len(s) \in Int
    BY <1>1
  <2>2. IsFiniteSet(1..Len(s))
    BY <2>1, FS_Interval
  <2>. QED
    BY <1>1, <2>2
<1>3. \A x, y \in K : <<x, y>> \in R <=> s[x].hash < s[y].hash \/ (s[x].hash = s[y].hash /\ x < y)
  BY DEF ByHash
<1> HIDE DEF R
<1>4. Orders(R, K)
  <2>1. ASSUME NEW x \in K, NEW y \in K
        PROVE  x = y \/ <<x, y>> \in R \/ <<y, x>> \in R
    <3>1. s[x].hash \in Nat /\ s[y].hash \in Nat /\ x \in Nat /\ y \in Nat
      BY <1>1
    <3>. QED
      BY <1>3, <3>1
  <2>2. \A x \in K : <<x, x>> \notin R
    BY <1>1, <1>3
  <2>3. ASSUME NEW x \in K, NEW y \in K, NEW z \in K, <<x, y>> \in R, <<y, z>> \in R
        PROVE  <<x, z>> \in R
    <3>1. s[x].hash \in Nat /\ s[y].hash \in Nat /\ s[z].hash \in Nat /\ x \in Nat /\ y \in Nat /\ z \in Nat
      BY <1>1
    <3>. QED
      BY <1>3, <2>3, <3>1
  <2>. QED
    BY <2>1, <2>2, <2>3 DEF Orders
<1>5. /\ at \in [1..c -> K] /\ c \in Nat
      /\ \A x \in K : \E n \in 1..c : at[n] = x
      /\ \A m, n \in 1..c : m < n <=> <<at[m], at[n]>> \in R
  BY <1>2, <1>4, Ordered
<1>6. q = [n \in DOMAIN at |-> s[at[n]]]
  BY DEF StableSort, R
<1> HIDE DEF at, q, c
<1>7. DOMAIN q = 1..c /\ \A n \in 1..c : q[n] = s[at[n]] /\ at[n] \in K
  BY <1>5, <1>6
<1>8. q \in Seq(X)
  <2>1. \A n \in 1..c : s[at[n]] \in X
    BY <1>5
  <2>2. q \in [1..c -> X]
    BY <1>5, <1>6, <2>1
  <2>. QED
    BY <1>5, <2>2
<1>9. ASSUME NEW m \in DOMAIN q, NEW n \in DOMAIN q, m < n
      PROVE  q[m].hash < q[n].hash \/ (q[m].hash = q[n].hash /\ at[m] < at[n])
  <2>1. <<at[m], at[n]>> \in R /\ at[m] \in K /\ at[n] \in K
    BY <1>5, <1>7, <1>9
  <2>2. q[m] = s[at[m]] /\ q[n] = s[at[n]]
    BY <1>7
  <2>. QED
    BY <1>3, <2>1, <2>2
<1>10. \A n \in DOMAIN q : at[n] \in DOMAIN s /\ q[n] = s[at[n]]
  BY <1>7
<1>11. \A k \in DOMAIN s : \E n \in DOMAIN q : at[n] = k
  BY <1>5, <1>7
<1>12. Sorts(q, s, at)
  BY <1>9, <1>10, <1>11 DEF Sorts
<1>. QED
  BY <1>8, <1>12 DEF q

-----------------------------------------------------------------------------
(* Counting, and loops that count.                                         *)

(* What holds at 0, and of each number if of the one before it, holds.     *)
LEMMA Counting ==
    ASSUME NEW c \in Nat, NEW G, 0 \in G, \A n \in 1..c : n - 1 \in G => n \in G
    PROVE  \A n \in 0..c : n \in G
<1> DEFINE Bad == {n \in Nat : n <= c /\ n \notin G}
<1>1. Bad = {}
  <2> SUFFICES ASSUME Bad # {}
               PROVE  FALSE
    OBVIOUS
  <2>1. PICK n \in Bad : \A m \in Bad : ~(<<m, n>> \in OpToRel(<, Nat))
    <3>1. Bad \subseteq Nat
      OBVIOUS
    <3> HIDE DEF Bad
    <3>. QED
      BY <3>1, NatLessThanWellFounded, WFMin
  <2>2. n \in Nat /\ n <= c /\ n \notin G /\ n # 0
    OBVIOUS
  <2>3. n - 1 \in Nat /\ n - 1 < n /\ n \in 1..c /\ n - 1 <= c
    BY <2>2
  <2>4. n - 1 \notin Bad
    BY <2>1, <2>2, <2>3 DEF OpToRel
  <2>. QED
    BY <2>2, <2>3, <2>4
<1>. QED
  BY <1>1

(* f does the steps of a loop one by one.                                  *)
Unrolls(f, base, step, c) == f[0] = base /\ \A n \in 1..c : f[n] = step[<<f[n - 1], n>>]

(* A loop over a list has a result.                                        *)
LEMMA Looping ==
    ASSUME NEW X, NEW base \in X, NEW c \in Nat, NEW step \in [X \X (1..c) -> X]
    PROVE  \E f \in [0..c -> X] : Unrolls(f, base, step, c)
<1> DEFINE G == {n \in 0..c : \E f \in [0..n -> X] : Unrolls(f, base, step, n)}
<1>1. 0 \in G
  <2>1. [n \in 0..0 |-> base] \in [0..0 -> X] /\ Unrolls([n \in 0..0 |-> base], base, step, 0)
    BY DEF Unrolls
  <2>. QED
    BY <2>1
<1>2. ASSUME NEW n \in 1..c, n - 1 \in G
      PROVE  n \in G
  <2>1. PICK f \in [0..(n - 1) -> X] : Unrolls(f, base, step, n - 1)
    BY <1>2
  <2> DEFINE last == step[<<f[n - 1], n>>]
             g == [i \in 0..n |-> IF i = n THEN last ELSE f[i]]
  <2>2. f[n - 1] \in X /\ last \in X
    OBVIOUS
  <2>3. g \in [0..n -> X]
    BY <2>2
  <2>4. g[0] = base
    BY <2>1 DEF Unrolls
  <2>5. ASSUME NEW i \in 1..n
        PROVE  g[i] = step[<<g[i - 1], i>>]
    <3>1. i - 1 \in 0..(n - 1) /\ g[i - 1] = f[i - 1]
      OBVIOUS
    <3>2. CASE i = n
      BY <3>1, <3>2
    <3>3. CASE i # n
      <4>1. i \in 1..(n - 1) /\ g[i] = f[i]
        BY <3>3
      <4>2. f[i] = step[<<f[i - 1], i>>]
        BY <2>1, <4>1 DEF Unrolls
      <4>. QED
        BY <3>1, <4>1, <4>2
    <3>. QED
      BY <3>2, <3>3
  <2>6. Unrolls(g, base, step, n)
    BY <2>4, <2>5 DEF Unrolls
  <2>. QED
    BY <2>3, <2>6
<1> HIDE DEF G
<1>3. \A n \in 0..c : n \in G
  BY <1>1, <1>2, Counting
<1>4. c \in G
  BY <1>3
<1>. QED
  BY <1>4 DEF G

=============================================================================
