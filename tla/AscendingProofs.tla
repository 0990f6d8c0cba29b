-------------------------- MODULE AscendingProofs ---------------------------
(***************************************************************************)
(* Sets of numbers in their order, for the modules that list rows, updates  *)
(* or lines that way: InOrder lists a finite set, each member once and      *)
(* smallest first; a bounded set has a greatest member.                     *)
(***************************************************************************)
EXTENDS Ascending, Integers, Sequences, FiniteSetTheorems, SequenceTheorems,
        WellFoundedInduction, TLAPS

\* InOrder lists the members of a set, each once and in their order.
LEMMA InOrderProperties ==
    ASSUME NEW S \in SUBSET Nat, IsFiniteSet(S)
    PROVE  /\ InOrder(S) \in Seq(S) /\ Cardinality(S) \in Nat /\ Len(InOrder(S)) = Cardinality(S)
           /\ \A n \in 1..Cardinality(S) : Rank(InOrder(S)[n], S) = n - 1
           /\ \A i \in S : \E n \in 1..Cardinality(S) : InOrder(S)[n] = i
           /\ \A m, n \in 1..Cardinality(S) : m < n => InOrder(S)[m] < InOrder(S)[n]
<1> DEFINE below(i) == {j \in S : j < i}
           place == [i \in S |-> Rank(i, S) + 1]
<1>0. \A i \in S : i \in Nat
  OBVIOUS
<1>1. Cardinality(S) \in Nat
  BY FS_CardinalityType
<1>2. \A i \in S : Rank(i, S) \in Nat /\ Rank(i, S) < Cardinality(S)
  <2>1. SUFFICES ASSUME NEW i \in S PROVE Rank(i, S) \in Nat /\ Rank(i, S) < Cardinality(S)
    OBVIOUS
  <2>2. below(i) \in SUBSET S /\ i \notin below(i)
    OBVIOUS
  <2>3. /\ IsFiniteSet(below(i)) /\ Cardinality(below(i)) <= Cardinality(S)
        /\ Cardinality(below(i)) # Cardinality(S)
    BY <2>2, FS_Subset
  <2>4. Cardinality(below(i)) \in Nat
    BY <2>3, FS_CardinalityType
  <2> QED
    BY <1>1, <2>3, <2>4 DEF Rank
<1>3. \A i, j \in S : i < j => Rank(i, S) < Rank(j, S)
  <2>1. SUFFICES ASSUME NEW i \in S, NEW j \in S, i < j PROVE Rank(i, S) < Rank(j, S)
    OBVIOUS
  <2>2. below(i) \in SUBSET below(j) /\ i \in below(j) /\ i \notin below(i) /\ below(j) \in SUBSET S
    <3>1. \A k \in S : k < i => k < j
      BY <1>0, <2>1
    <3>2. ~(i < i)
      BY <1>0
    <3> QED
      BY <2>1, <3>1, <3>2
  <2>3. IsFiniteSet(below(j))
    BY <2>2, FS_Subset
  <2>4. Cardinality(below(i)) <= Cardinality(below(j)) /\ Cardinality(below(i)) # Cardinality(below(j))
    BY <2>2, <2>3, FS_Subset
  <2>5. Rank(i, S) = Cardinality(below(i)) /\ Rank(j, S) = Cardinality(below(j))
    BY DEF Rank
  <2> QED
    BY <1>2, <2>4, <2>5
<1>4. place \in Injection(S, 1..Cardinality(S))
  <2>1. place \in [S -> 1..Cardinality(S)]
    BY <1>1, <1>2
  <2>2. \A i, j \in S : place[i] = place[j] => i = j
    BY <1>2, <1>3
  <2> QED
    BY <2>1, <2>2 DEF Injection, IsInjective
<1>5. place \in Surjection(S, 1..Cardinality(S))
  <2>1. IsFiniteSet(1..Cardinality(S)) /\ Cardinality(1..Cardinality(S)) = Cardinality(S)
    BY <1>1, FS_Interval
  <2> QED
    BY <1>4, <2>1, FS_Injection
<1>6. \A n \in 1..Cardinality(S) : \E i \in S : Rank(i, S) = n - 1
  <2>1. \A n \in 1..Cardinality(S) : \E i \in S : place[i] = n
    BY <1>5 DEF Surjection
  <2> QED
    BY <1>1, <1>2, <2>1
<1>7. \A n \in 1..Cardinality(S) : InOrder(S)[n] \in S /\ Rank(InOrder(S)[n], S) = n - 1
  BY <1>6 DEF InOrder
<1>8. InOrder(S) \in Seq(S) /\ Len(InOrder(S)) = Cardinality(S)
  <2>1. InOrder(S) \in [1..Cardinality(S) -> S]
    BY <1>7 DEF InOrder
  <2> QED
    BY <1>1, <2>1, LenProperties, IsASeq
<1>9. \A i \in S : \E n \in 1..Cardinality(S) : InOrder(S)[n] = i
  <2>1. SUFFICES ASSUME NEW i \in S PROVE \E n \in 1..Cardinality(S) : InOrder(S)[n] = i
    OBVIOUS
  <2>2. Rank(i, S) + 1 \in 1..Cardinality(S)
    BY <1>1, <1>2
  <2>3. Rank(InOrder(S)[Rank(i, S) + 1], S) = Rank(i, S) /\ InOrder(S)[Rank(i, S) + 1] \in S
    BY <1>2, <1>7, <2>2
  <2>4. InOrder(S)[Rank(i, S) + 1] = i
    <3>1. \A j \in S : j # i => j < i \/ i < j
      BY <1>0
    <3>2. \A j, k \in S : j < k => Rank(j, S) # Rank(k, S)
      BY <1>2, <1>3
    <3> QED
      BY <2>3, <3>1, <3>2
  <2> QED
    BY <2>2, <2>4
<1>10. \A m, n \in 1..Cardinality(S) : m < n => InOrder(S)[m] < InOrder(S)[n]
  <2>1. SUFFICES ASSUME NEW m \in 1..Cardinality(S), NEW n \in 1..Cardinality(S), m < n
                 PROVE  InOrder(S)[m] < InOrder(S)[n]
    OBVIOUS
  <2>2. /\ InOrder(S)[m] \in S /\ InOrder(S)[n] \in S
        /\ Rank(InOrder(S)[m], S) < Rank(InOrder(S)[n], S)
    BY <1>1, <1>7, <2>1
  <2>3. \A i, j \in S : Rank(i, S) < Rank(j, S) => i < j
    <3>1. \A i, j \in S : i = j \/ j < i \/ i < j
      BY <1>0
    <3> QED
      BY <1>2, <1>3, <3>1
  <2> QED
    BY <2>2, <2>3
<1> QED
  BY <1>1, <1>7, <1>8, <1>9, <1>10

\* A set of numbers has a least member, and a bounded one a greatest.
LEMMA LeastOf == ASSUME NEW T \in SUBSET Nat, T # {} PROVE \E x \in T : \A y \in T : x <= y
<1>1. PICK x \in T : \A y \in T : ~(<<y, x>> \in OpToRel(<, Nat))
  BY NatLessThanWellFounded, WFMin, Zenon
<1>2. \A y \in T : ~(y < x)
  BY <1>1, Zenon DEF OpToRel
<1> QED
  BY <1>2

LEMMA GreatestOf ==
    ASSUME NEW T \in SUBSET Int, T # {}, NEW b \in Int, \A y \in T : y <= b
    PROVE  \E x \in T : \A y \in T : x >= y
<1> DEFINE U == {b - v : v \in T}
<1>1. U \in SUBSET Nat /\ U # {}
  <2>1. \A v \in T : b - v \in Nat
    OBVIOUS
  <2>2. PICK v : v \in T
    OBVIOUS
  <2>3. b - v \in U
    BY <2>2
  <2> QED
    BY <2>1, <2>3
<1>2. PICK u \in U : \A w \in U : u <= w
  BY <1>1, LeastOf
<1>3. PICK x \in T : u = b - x
  OBVIOUS
<1>4. ASSUME NEW y \in T PROVE x >= y
  <2>1. b - x <= b - y
    BY <1>2, <1>3
  <2> QED
    BY <2>1
<1> QED
  BY <1>4
=============================================================================
