---------------------------- MODULE SetInduction ----------------------------
(***************************************************************************)
(* Induction over the numbers, for a set of numbers instead of a predicate. *)
(***************************************************************************)
EXTENDS Integers, FiniteSets, FiniteSetTheorems, TLAPS

\* A set of numbers that has, with each of its members, the one below, has 0.
LEMMA ReachesZero ==
  ASSUME NEW U \in SUBSET Nat, NEW n \in U, \A k \in U : k # 0 => k - 1 \in U
  PROVE  0 \in U
<1>. SUFFICES ASSUME 0 \notin U PROVE FALSE  OBVIOUS
<1>. DEFINE V == U \cap 0 .. n
            h == [k \in V |-> k - 1]
<1>1. IsFiniteSet(V) /\ n \in V
  <2>1. IsFiniteSet(0 .. n)  BY FS_Interval
  <2>. QED  BY <2>1, FS_Subset
<1>2. h \in [V -> V \ {n}]  OBVIOUS
<1>3. /\ IsFiniteSet(V \ {n}) /\ Cardinality(V \ {n}) = Cardinality(V) - 1
      /\ Cardinality(V) \in Nat
  BY <1>1, FS_RemoveElement, FS_CardinalityType
<1>4. Cardinality(V \ {n}) < Cardinality(V)  BY <1>3
<1>. HIDE DEF V, h
<1>5. \E x, y \in V : x # y /\ h[x] = h[y]  BY <1>1, <1>2, <1>3, <1>4, FS_PigeonHole
<1>. QED  BY <1>5 DEF V, h

LEMMA Induction ==
  ASSUME NEW T, 0 \in T, \A k \in Nat : k \in T => k + 1 \in T
  PROVE  Nat \subseteq T
<1>. SUFFICES ASSUME NEW n \in Nat, n \notin T PROVE FALSE  OBVIOUS
<1>1. \A k \in Nat \ T : k # 0 => k - 1 \in Nat \ T
  <2>. SUFFICES ASSUME NEW k \in Nat \ T, k # 0, k - 1 \in T PROVE FALSE  OBVIOUS
  <2>1. k - 1 \in Nat /\ (k - 1) + 1 = k  OBVIOUS
  <2>. QED  BY <2>1
<1>. QED  BY <1>1, ReachesZero, n \in Nat \ T
=============================================================================
