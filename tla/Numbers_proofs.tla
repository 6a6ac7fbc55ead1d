---------------------------- MODULE Numbers_proofs ----------------------------
(***************************************************************************)
(* The greatest and the least of some numbers exist.                       *)
(***************************************************************************)
EXTENDS Integers, FiniteSetsExt, TLAPS, WellFoundedInduction

\* A set of numbers up to n has a greatest one.
LEMMA HasMax ==
    ASSUME NEW n \in Nat, NEW S, S \subseteq 1 .. n, S # {}
    PROVE  Max(S) \in S /\ \A x \in S : Max(S) >= x
<1> DEFINE R == {ss \in Nat \X Nat : ss[1] < ss[2]}
           T == {n - x : x \in S}
<1>1. IsWellFoundedOn(R, Nat)
  BY NatLessThanWellFounded DEF OpToRel
<1>2. T \subseteq Nat /\ T # {}
  <2>1. \A x \in S : n - x \in Nat
    OBVIOUS
  <2>2. PICK x \in S : TRUE
    OBVIOUS
  <2>3. n - x \in T
    BY <2>2
  <2> QED BY <2>1, <2>3
<1>3. PICK t \in T : \A u \in T : <<u, t>> \notin R
  <2> HIDE DEF R, T
  <2> QED BY <1>1, <1>2, WFMin
<1>4. PICK m \in S : t = n - m
  OBVIOUS
<1>5. ASSUME NEW x \in S PROVE m >= x
  <2>1. n - x \in T /\ n - x \in Nat /\ t \in Nat
    OBVIOUS
  <2>2. ~(n - x < t)
    BY <1>3, <2>1
  <2> QED BY <1>4, <2>1, <2>2
<1> QED BY <1>5 DEF Max

\* A set of numbers from 1 to n has a least one.
LEMMA HasMin ==
    ASSUME NEW n \in Nat, NEW S, S \subseteq 1 .. n, S # {}
    PROVE  \E m \in S : \A x \in S : m <= x
<1> DEFINE U == {(n + 1) - x : x \in S}
<1>1. \A x \in S : (n + 1) - x \in 1 .. n
  OBVIOUS
<1>2. U \subseteq 1 .. n /\ U # {}
  <2>1. PICK x \in S : TRUE
    OBVIOUS
  <2>2. (n + 1) - x \in U
    BY <2>1
  <2> QED BY <1>1, <2>2
<1>3. Max(U) \in U /\ \A u \in U : Max(U) >= u
  <2> HIDE DEF U
  <2> QED BY <1>2, HasMax
<1>4. PICK m \in S : Max(U) = (n + 1) - m
  BY <1>3
<1>5. ASSUME NEW x \in S PROVE m <= x
  <2>1. Max(U) >= (n + 1) - x
    BY <1>3
  <2>2. (n + 1) - m >= (n + 1) - x
    BY <1>4, <2>1
  <2>3. m \in Int /\ x \in Int
    OBVIOUS
  <2> HIDE DEF U
  <2> QED BY <2>2, <2>3
<1> QED BY <1>5
==============================================================================
