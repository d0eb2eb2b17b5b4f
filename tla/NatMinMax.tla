------------------------------ MODULE NatMinMax ------------------------------
(***************************************************************************)
(* Least and greatest elements of sets of naturals, used by the proofs     *)
(* that order waiting calls by group and by ticket.  The least-number      *)
(* principle of the library takes an operator as a parameter; the one here *)
(* takes a set, and follows from the well-foundedness of strict inclusion  *)
(* on finite sets.                                                         *)
(***************************************************************************)
EXTENDS Integers, FiniteSets, FiniteSetTheorems, WellFoundedInduction, TLAPS

\* Some member of a nonempty family of finite sets of naturals has no other
\* member strictly inside it.
LEMMA MinimalSubset ==
  ASSUME NEW T, T # {}, \A X \in T : X \in SUBSET Nat /\ IsFiniteSet(X)
  PROVE  \E X \in T : \A Y \in T : ~(Y \subseteq X /\ X # Y)
<1> DEFINE R == StrictSubsetOrdering(Nat)
<1>1. IsWellFoundedOn(R, FiniteSubsetsOf(Nat))
  BY FS_StrictSubsetOrderingWellFounded
<1>2. T \subseteq FiniteSubsetsOf(Nat)
  BY DEF FiniteSubsetsOf
<1>3. PICK X \in T : \A Y \in T : ~ (<<Y, X>> \in R)
  <2> HIDE DEF R
  <2> QED BY <1>1, <1>2, WFMin
<1>4. \A Y \in T : ~(Y \subseteq X /\ X # Y)
  BY <1>3, <1>2 DEF StrictSubsetOrdering
<1> QED BY <1>4

\* A nonempty set of naturals has a least element.
LEMMA NatMin ==
  ASSUME NEW S \in SUBSET Nat, S # {}
  PROVE  \E m \in S : \A k \in S : m <= k
<1> DEFINE T == {0 .. k : k \in S}
<1>1. T # {} OBVIOUS
<1>2. \A X \in T : X \in SUBSET Nat /\ IsFiniteSet(X)
  <2>1. \A k \in S : IsFiniteSet(0 .. k) /\ 0 .. k \in SUBSET Nat
    BY FS_Interval, 0 \in Int
  <2> QED BY <2>1
<1>3. PICK X \in T : \A Y \in T : ~(Y \subseteq X /\ X # Y)
  <2> HIDE DEF T
  <2> QED BY <1>1, <1>2, MinimalSubset
<1>4. PICK m \in S : X = 0 .. m
  OBVIOUS
<1>5. ASSUME NEW k \in S, k < m PROVE FALSE
  <2>1. 0 .. k \subseteq 0 .. m BY <1>5
  <2>2. m \in 0 .. m /\ m \notin 0 .. k BY <1>5
  <2>3. 0 .. k \in T OBVIOUS
  <2> QED BY <2>1, <2>2, <2>3, <1>3, <1>4
<1> QED BY <1>5

\* A nonempty set of numbers bounded by n has a greatest element.
LEMMA IntervalMax ==
  ASSUME NEW n \in Nat, NEW S \in SUBSET (1 .. n), S # {}
  PROVE  \E m \in S : \A k \in S : k <= m
<1> DEFINE M == {n - k : k \in S}
<1>1. M \in SUBSET Nat
  <2>1. \A k \in S : n - k \in Nat OBVIOUS
  <2> QED BY <2>1
<1>2. M # {} OBVIOUS
<1>3. PICK x \in M : \A y \in M : x <= y
  <2> HIDE DEF M
  <2> QED BY <1>1, <1>2, NatMin
<1>4. PICK m \in S : x = n - m OBVIOUS
<1>5. ASSUME NEW k \in S PROVE k <= m
  <2>1. n - m <= n - k BY <1>3, <1>4
  <2> QED BY <2>1
<1> QED BY <1>5

=============================================================================
