----------------------------- MODULE Ranks_proofs -----------------------------
(***************************************************************************)
(* The members of a finite set in a strict order, a relation R as a set of *)
(* pairs: every place from the first to the last has one member.  Used for *)
(* the rows that a drain reads in their order, and for events put aside.   *)
(***************************************************************************)
EXTENDS Naturals, FiniteSets, FiniteSetTheorems, TLAPS

Orders(R, S) ==
  /\ \A x, y \in S : x # y => <<x, y>> \in R \/ <<y, x>> \in R
  /\ \A x, y, z \in S : <<x, y>> \in R /\ <<y, z>> \in R => <<x, z>> \in R
  /\ \A x \in S : <<x, x>> \notin R

Rank(x, R, S) == Cardinality({y \in S : <<y, x>> \in R})

LEMMA RankIsBelow ==
  ASSUME NEW S, IsFiniteSet(S), NEW R, Orders(R, S), NEW x \in S
  PROVE  /\ Rank(x, R, S) \in Nat /\ Rank(x, R, S) < Cardinality(S)
         /\ \A y \in S : <<y, x>> \in R => Rank(y, R, S) < Rank(x, R, S)
<1> DEFINE Below(y) == {z \in S : <<z, y>> \in R}
<1>1. ASSUME NEW y \in S PROVE IsFiniteSet(Below(y)) /\ Cardinality(Below(y)) \in Nat
  <2>1. Below(y) \in SUBSET S
    OBVIOUS
  <2>2. IsFiniteSet(Below(y))
    BY <2>1, FS_Subset
  <2> QED BY <2>2, FS_CardinalityType
<1>2. Cardinality(S) \in Nat
  BY FS_CardinalityType
<1>3. Cardinality(Below(x)) < Cardinality(S)
  <2>1. Below(x) \in SUBSET S /\ x \notin Below(x)
    BY DEF Orders
  <2>2. Cardinality(Below(x)) <= Cardinality(S) /\ Cardinality(S) # Cardinality(Below(x))
    BY <2>1, FS_Subset
  <2> QED BY <1>1, <1>2, <2>2
<1>4. ASSUME NEW y \in S, <<y, x>> \in R
      PROVE  Cardinality(Below(y)) < Cardinality(Below(x))
  <2>1. Below(y) \in SUBSET Below(x) /\ y \in Below(x) /\ y \notin Below(y)
    BY <1>4 DEF Orders
  <2>2. /\ Cardinality(Below(y)) <= Cardinality(Below(x))
        /\ Cardinality(Below(x)) # Cardinality(Below(y))
    BY <1>1, <2>1, FS_Subset
  <2>3. Cardinality(Below(x)) \in Nat /\ Cardinality(Below(y)) \in Nat
    BY <1>1
  <2> HIDE DEF Below
  <2> QED BY <2>2, <2>3
<1> QED BY <1>1, <1>3, <1>4 DEF Rank

(* Every place is taken, and two members never share one. *)
LEMMA RanksFill ==
  ASSUME NEW S, IsFiniteSet(S), NEW R, Orders(R, S)
  PROVE  /\ \A k \in 1..Cardinality(S) : \E x \in S : Rank(x, R, S) = k - 1
         /\ \A x, y \in S : Rank(x, R, S) = Rank(y, R, S) => x = y
<1> DEFINE n == Cardinality(S)
           rank == [x \in S |-> Rank(x, R, S)]
           T == {i \in Nat : i < n}
<1>1. n \in Nat
  BY FS_CardinalityType
<1>2. \A x \in S : rank[x] \in T
  BY RankIsBelow
<1>3. \A x, y \in S : Rank(x, R, S) = Rank(y, R, S) => x = y
  <2>1. SUFFICES ASSUME NEW x \in S, NEW y \in S, Rank(x, R, S) = Rank(y, R, S), x # y
                 PROVE  FALSE
    OBVIOUS
  <2>2. Rank(x, R, S) \in Nat
    BY RankIsBelow
  <2>3. <<x, y>> \in R \/ <<y, x>> \in R
    BY <2>1 DEF Orders
  <2>4. ~(Rank(x, R, S) < Rank(x, R, S))
    BY <2>2
  <2> QED BY <2>1, <2>3, <2>4, RankIsBelow
<1>4. IsFiniteSet(T) /\ Cardinality(T) = n
  <2>1. T = 0..(n-1)
    BY <1>1
  <2> HIDE DEF T, n
  <2>2. IsFiniteSet(0..(n-1)) /\ Cardinality(0..(n-1)) = IF 0 > n-1 THEN 0 ELSE (n-1)-0+1
    BY <1>1, FS_Interval
  <2>3. Cardinality(0..(n-1)) = n
    BY <1>1, <2>2
  <2> QED BY <2>1, <2>2, <2>3
<1>5. rank \in Injection(S, T)
  <2>1. rank \in [S -> T]
    BY <1>2
  <2>2. \A x, y \in S : rank[x] = rank[y] => x = y
    BY <1>3
  <2> HIDE DEF rank, T
  <2> QED BY <2>1, <2>2 DEF Injection, IsInjective
<1>6. rank \in Surjection(S, T)
  <2> HIDE DEF rank, T
  <2> QED BY <1>4, <1>5, FS_Injection DEF n
<1>7. ASSUME NEW k \in 1..n PROVE \E x \in S : Rank(x, R, S) = k - 1
  <2>1. k - 1 \in T
    BY <1>1
  <2>2. \E x \in S : rank[x] = k - 1
    <3> HIDE DEF rank, T
    <3> QED BY <1>6, <2>1 DEF Surjection
  <2> QED BY <2>2
<1> QED BY <1>3, <1>7

=============================================================================
