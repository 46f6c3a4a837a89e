---------------------------- MODULE LoopLemmas ----------------------------
(***************************************************************************)
(* What the proofs about Passages and Chunking share. Their loops are      *)
(* recursive functions over 0..n; what holds all along one is proved by an *)
(* induction over sets of numbers, which rests on the library's theorem    *)
(* that Nat is well-founded.                                               *)
(***************************************************************************)
EXTENDS Integers, Sequences, FiniteSets, FiniteSetsExt, WellFoundedInduction, TLAPS

-----------------------------------------------------------------------------
(* Induction, with sets in place of the operator of the library's theorems.*)

\* Numbers have a least one.
LEMMA Least ==
    ASSUME NEW S \in SUBSET Nat, S # {}
    PROVE  \E m \in S : \A k \in S : m <= k
<1>1. PICK less : IsWellFoundedOn(less, Nat) /\ \A m, n \in Nat : m < n => <<m, n>> \in less
  <2>1. \A m, n \in Nat : m < n => <<m, n>> \in OpToRel(<, Nat)
    BY Zenon DEF OpToRel
  <2>. QED
    BY <2>1, NatLessThanWellFounded, Zenon
<1>2. \A T : T \subseteq Nat /\ T # {} => \E m \in T : \A k \in T : ~ (<<k, m>> \in less)
  <2>1. IsWellFoundedOn(less, Nat)
    BY <1>1
  <2>. QED
    BY ONLY <2>1, WFMin, Zenon
<1>3. PICK m \in S : \A k \in S : ~ (<<k, m>> \in less)
  BY <1>2
<1>4. \A k \in S : ~ k < m
  BY <1>1, <1>3
<1>. QED
  BY <1>3, <1>4

\* A set of numbers with 0 and, with each number, the next is all of them.
LEMMA Induction ==
    ASSUME NEW S \in SUBSET Nat, 0 \in S, \A n \in S : n + 1 \in S
    PROVE  S = Nat
<1>1. SUFFICES ASSUME Nat \ S # {} PROVE FALSE
  OBVIOUS
<1>2. PICK m \in Nat \ S : \A k \in Nat \ S : m <= k
  <2> DEFINE T == Nat \ S
  <2>1. T \in SUBSET Nat /\ T # {}
    BY <1>1
  <2> HIDE DEF T
  <2>2. \E m \in T : \A k \in T : m <= k
    BY <2>1, Least
  <2>. QED
    BY <2>2 DEF T
<1>3. m - 1 \in Nat /\ m - 1 < m
  BY <1>2
<1>4. (m - 1) + 1 \in S
  BY <1>2, <1>3
<1>. QED
  BY <1>2, <1>4

\* The same up to a bound.
LEMMA UpTo ==
    ASSUME NEW n \in Nat, NEW T, 0 \in T, \A k \in 1..n : k - 1 \in T => k \in T
    PROVE  \A k \in 0..n : k \in T
<1> DEFINE S == {k \in Nat : k <= n => k \in T}
<1>1. 0 \in S
  OBVIOUS
<1>2. \A k \in S : k + 1 \in S
  OBVIOUS
<1> HIDE DEF S
<1>3. S \in SUBSET Nat
  BY DEF S
<1>4. S = Nat
  BY <1>1, <1>2, <1>3, Induction
<1>. QED
  BY <1>4 DEF S

\* f is what a loop goes through that begins with a: its state after each step.
Follows(f, a, n, step) == f[0] = a /\ \A k \in 1..n : f[k] = step[<<f[k - 1], k>>]

\* A loop over 1..n that keeps its state in a set has a state after each step.
LEMMA Loops ==
    ASSUME NEW A, NEW a \in A, NEW n \in Nat, NEW step \in [A \X (1..n) -> A]
    PROVE  \E f \in [0..n -> A] : Follows(f, a, n, step)
<1> DEFINE Ran(k, f) == Follows(f, a, k, step)
           S == {k \in Nat : k <= n => \E f \in [0..k -> A] : Ran(k, f)}
<1>1. 0 \in S
  <2>1. [j \in 0..0 |-> a] \in [0..0 -> A] /\ Ran(0, [j \in 0..0 |-> a])
    BY DEF Follows
  <2>. QED
    BY <2>1
<1>2. ASSUME NEW k \in Nat, k \in S, k + 1 <= n PROVE \E f \in [0..(k + 1) -> A] : Ran(k + 1, f)
  <2>1. PICK f \in [0..k -> A] : Ran(k, f)
    BY <1>2
  <2> DEFINE last == step[<<f[k], k + 1>>]
             g == [j \in 0..(k + 1) |-> IF j = k + 1 THEN last ELSE f[j]]
  <2>2. last \in A
    BY <1>2
  <2>3. g \in [0..(k + 1) -> A]
    BY <2>2
  <2>4. g[0] = a
    BY <2>1 DEF Follows
  <2>5. ASSUME NEW j \in 1..(k + 1) PROVE g[j] = step[<<g[j - 1], j>>]
    <3>1. CASE j = k + 1
      <4>1. g[j] = last /\ g[j - 1] = f[k]
        BY <3>1
      <4>. QED
        BY <3>1, <4>1
    <3>2. CASE j \in 1..k
      <4>1. g[j] = f[j] /\ g[j - 1] = f[j - 1]
        BY <3>2
      <4>. QED
        BY <2>1, <3>2, <4>1 DEF Follows
    <3>. QED
      BY <3>1, <3>2
  <2>6. Ran(k + 1, g)
    BY <2>4, <2>5 DEF Follows
  <2>. QED
    BY <2>3, <2>6
<1>3. \A k \in S : k + 1 \in S
  BY <1>2
<1>4. S \in SUBSET Nat
  OBVIOUS
<1> HIDE DEF S
<1>5. n \in S
  BY <1>1, <1>3, <1>4, Induction
<1>. QED
  BY <1>5 DEF S

-----------------------------------------------------------------------------
(* The least and the greatest of some numbers.                             *)

LEMMA MinOf ==
    ASSUME NEW n \in Nat, NEW S \in SUBSET (1..n), S # {}
    PROVE  Min(S) \in S /\ \A k \in S : Min(S) <= k
<1>1. PICK m \in S : \A k \in S : m <= k
  BY Least
<1>. QED
  BY <1>1 DEF Min

LEMMA MaxOf ==
    ASSUME NEW n \in Nat, NEW S \in SUBSET (1..n), S # {}
    PROVE  Max(S) \in S /\ \A k \in S : Max(S) >= k
<1> DEFINE T == {k \in 1..n : n + 1 - k \in S}
<1>1. T # {}
  <2>1. PICK k \in S : TRUE
    OBVIOUS
  <2>2. n + 1 - k \in T
    BY <2>1
  <2>. QED
    BY <2>2
<1>2. PICK m \in T : \A k \in T : m <= k
  <2> HIDE DEF T
  <2>1. T \in SUBSET (1..n)
    BY DEF T
  <2>. QED
    BY <1>1, <2>1, MinOf
<1>3. ASSUME NEW k \in S PROVE n + 1 - m >= k
  <2>1. n + 1 - k \in T
    OBVIOUS
  <2>. QED
    BY <1>2, <2>1
<1>4. n + 1 - m \in S
  BY <1>2
<1>. QED
  BY <1>3, <1>4 DEF Max
=============================================================================
