------------------------------ MODULE Ordering ------------------------------
(***************************************************************************)
(* Sorting, filtering and adding up, as the program's tables and listings  *)
(* do it, without RECURSIVE: an element's place is the number of those     *)
(* before it.                                                              *)
(***************************************************************************)
EXTENDS Naturals, FiniteSets, Sequences

(* std::sort: a set in the order R.                                        *)
Rank(x, S, R) == Cardinality({y \in S : <<y, x>> \in R})
Nth(n, S, R) == CHOOSE x \in S : Rank(x, S, R) = n - 1
InOrder(S, R) == [n \in 1..Cardinality(S) |-> Nth(n, S, R)]

(* A list cut down to the places K.                                        *)
Upwards(K) == {x \in K \X K : x[1] < x[2]}
Kept(s, K) == LET at == InOrder(K, Upwards(K)) IN [r \in DOMAIN at |-> s[at[r]]]

(* std::stable_sort by hash: entry k comes before entry n if its hash is   *)
(* smaller, or equal and k was before n.                                   *)
ByHash(s) ==
    {x \in (DOMAIN s) \X (DOMAIN s) :
        s[x[1]].hash < s[x[2]].hash \/ (s[x[1]].hash = s[x[2]].hash /\ x[1] < x[2])}
StableSort(s) ==
    LET at == InOrder(DOMAIN s, ByHash(s)) IN [r \in DOMAIN at |-> s[at[r]]]

(* What a loop that adds a list of numbers up comes to.                    *)
Total(s) ==
    LET upTo[n \in 0..Len(s)] == IF n = 0 THEN 0 ELSE upTo[n - 1] + s[n]
    IN  upTo[Len(s)]

=============================================================================
