-------------------------- MODULE InductionLemmas ---------------------------
(***************************************************************************)
(* Induction over the natural numbers in terms of sets and functions, for  *)
(* the proofs about functions that the model defines by recursion.         *)
(***************************************************************************)
EXTENDS Integers, FiniteSets, FiniteSetTheorems, WellFoundedInduction, TLAPS

(* A set of natural numbers has a least one.                               *)
LEMMA LeastNatural ==
  ASSUME NEW T \in SUBSET Nat, T # {}
  PROVE  \E x \in T : \A y \in T : x <= y
<1> DEFINE R == {ss \in Nat \X Nat : ss[1] < ss[2]}
<1>1. IsWellFoundedOn(R, Nat)
  BY NatLessThanWellFounded DEF OpToRel
<1>2. \A x, y \in Nat : <<y, x>> \notin R => x <= y
  OBVIOUS
<1> HIDE DEF R
<1>3. PICK x \in T : \A y \in T : ~ (<<y, x>> \in R)
  BY <1>1, WFMin
<1>4. x \in Nat /\ \A y \in T : y \in Nat
  OBVIOUS
<1>5. \A y \in T : x <= y
  BY <1>2, <1>3, <1>4
<1>6. QED
  BY <1>5

(* A set of natural numbers with 0 and the successor of each of its        *)
(* members has them all.                                                   *)
LEMMA SetInduction ==
  ASSUME NEW S \in SUBSET Nat, 0 \in S, \A n \in S : n + 1 \in S
  PROVE  S = Nat
<1> SUFFICES ASSUME Nat \ S # {} PROVE FALSE
  OBVIOUS
<1>1. PICK x \in Nat \ S : \A y \in Nat \ S : x <= y
  BY LeastNatural
<1>2. x # 0 /\ x - 1 \in Nat
  BY <1>1
<1>3. x - 1 \in S
  BY <1>1, <1>2
<1>4. x - 1 + 1 \in S /\ x - 1 + 1 = x
  BY <1>1, <1>2, <1>3
<1>5. QED
  BY <1>1, <1>4

(* The first n values from b, each of which step i makes of the one before. *)
Iteration(f, A, b, g, n) ==
  /\ f \in [0..n -> A]
  /\ \A i \in 0..n : f[i] = IF i = 0 THEN b ELSE g[i][f[i - 1]]

(* A function may be defined by its first value and by a step.             *)
LEMMA IterationExists ==
  ASSUME NEW A, NEW b \in A, NEW g \in [Nat -> [A -> A]], NEW n \in Nat
  PROVE  \E f : Iteration(f, A, b, g, n)
<1> DEFINE Is(f, k) == \A i \in 0..k : f[i] = IF i = 0 THEN b ELSE g[i][f[i - 1]]
           S == {k \in Nat : \E f \in [0..k -> A] : Is(f, k)}
<1>1. 0 \in S
  <2> DEFINE f == [i \in 0..0 |-> b]
  <2>1. f \in [0..0 -> A] /\ Is(f, 0)
    OBVIOUS
  <2>2. QED
    BY <2>1
<1>2. ASSUME NEW k \in S PROVE k + 1 \in S
  <2>1. k \in Nat /\ k + 1 \in Nat /\ (k + 1) - 1 = k /\ k \in 0..k
    OBVIOUS
  <2>2. PICK f \in [0..k -> A] : Is(f, k)
    OBVIOUS
  <2> DEFINE h == [i \in 0..(k + 1) |-> IF i = k + 1 THEN g[k + 1][f[k]] ELSE f[i]]
  <2>3. h \in [0..(k + 1) -> A]
    <3>1. g[k + 1][f[k]] \in A
      BY <2>1
    <3>2. \A i \in 0..(k + 1) : i # k + 1 => i \in 0..k
      BY <2>1
    <3>3. QED
      BY <3>1, <3>2
  <2>4. \A i \in 0..k : h[i] = f[i] /\ i \in 0..(k + 1)
    BY <2>1
  <2>5. h[k + 1] = g[k + 1][f[k]] /\ k + 1 # 0
    BY <2>1
  <2>6. Is(h, k + 1)
    <3> SUFFICES ASSUME NEW i \in 0..(k + 1)
                 PROVE  h[i] = IF i = 0 THEN b ELSE g[i][h[i - 1]]
      OBVIOUS
    <3> HIDE DEF h
    <3>1. CASE i = k + 1
      BY <2>1, <2>4, <2>5, <3>1
    <3>2. CASE i # k + 1
      <4>1. i \in 0..k /\ (i # 0 => i - 1 \in 0..k)
        BY <2>1, <3>2
      <4>2. QED
        BY <2>2, <2>4, <4>1
    <3>3. QED
      BY <3>1, <3>2
  <2>7. QED
    BY <2>1, <2>3, <2>6
<1>3. S = Nat
  <2> HIDE DEF S
  <2>1. S \in SUBSET Nat
    BY DEF S
  <2>2. QED
    BY <1>1, <1>2, <2>1, SetInduction
<1>4. QED
  BY <1>3 DEF Iteration

(* A nonempty finite set has a last member under a total order R, the      *)
(* pairs of a member and one before it.                                    *)
LEMMA LastOfFinite ==
  ASSUME NEW S, IsFiniteSet(S), S # {}, NEW R,
         \A x, y \in S : x # y => <<x, y>> \in R \/ <<y, x>> \in R,
         \A x, y, z \in S : <<x, y>> \in R /\ <<y, z>> \in R => <<x, z>> \in R
  PROVE  \E x \in S : \A y \in S : y # x => <<y, x>> \in R
<1> DEFINE Has(U) == U = {} \/ \E x \in U : \A y \in U : y # x => <<y, x>> \in R
           K == {k \in Nat : \A U \in SUBSET S : Cardinality(U) = k => Has(U)}
<1>0. \A U \in SUBSET S : IsFiniteSet(U) /\ Cardinality(U) \in Nat
  BY FS_Subset, FS_CardinalityType
<1>1. 0 \in K
  BY <1>0, FS_EmptySet
<1>2. ASSUME NEW k \in K PROVE k + 1 \in K
  <2>1. k \in Nat /\ k + 1 \in Nat
    OBVIOUS
  <2>2. SUFFICES ASSUME NEW U \in SUBSET S, Cardinality(U) = k + 1, U # {} PROVE Has(U)
    BY <2>1
  <2>3. PICK a \in U : TRUE
    BY <2>2
  <2> DEFINE V == U \ {a}
  <2>4. V \in SUBSET S /\ Cardinality(V) = k
    <3>1. Cardinality(V) = Cardinality(U) - 1
      BY <1>0, <2>3, FS_RemoveElement
    <3>2. QED
      BY <2>1, <2>2, <3>1
  <2>5. Has(V)
    BY <2>4
  <2>6. CASE V = {}
    BY <2>3, <2>6
  <2>7. CASE \E b \in V : \A y \in V : y # b => <<y, b>> \in R
    <3>1. PICK b \in V : \A y \in V : y # b => <<y, b>> \in R
      BY <2>7
    <3>2. a \in S /\ b \in S /\ a # b /\ b \in U
      OBVIOUS
    <3>3. CASE <<a, b>> \in R
      BY <3>1, <3>2, <3>3
    <3>4. CASE <<b, a>> \in R
      <4>1. \A y \in U : y # a => <<y, a>> \in R
        <5> SUFFICES ASSUME NEW y \in U, y # a PROVE <<y, a>> \in R
          OBVIOUS
        <5>1. CASE y = b
          BY <3>4, <5>1
        <5>2. CASE y # b
          BY <3>1, <3>2, <3>4, <5>2
        <5>3. QED
          BY <5>1, <5>2
      <4>2. QED
        BY <4>1
    <3>5. QED
      BY <3>2, <3>3, <3>4
  <2>8. QED
    BY <2>5, <2>6, <2>7
<1>3. K = Nat
  <2> HIDE DEF K
  <2>1. K \in SUBSET Nat
    BY DEF K
  <2>2. QED
    BY <1>1, <1>2, <2>1, SetInduction
<1>4. Cardinality(S) \in K
  BY <1>0, <1>3
<1>5. QED
  BY <1>4
=============================================================================
