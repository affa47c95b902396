----------------------------- MODULE Induction -----------------------------
(***************************************************************************)
(* Induction over the natural numbers as facts about sets, from the least  *)
(* element that well-foundedness gives every set of naturals.  What is     *)
(* proved by induction of all n is proved of the set of the n it holds for.*)
(***************************************************************************)
EXTENDS WellFoundedInduction, TLAPS

\* Every set of natural numbers that has an element has a least one.
LEMMA LeastNatural ==
  ASSUME NEW T, T \subseteq Nat, T # {}
  PROVE  \E m \in T : \A k \in T : m <= k
<1> DEFINE R == OpToRel(<, Nat)
<1>1. IsWellFoundedOn(R, Nat)
  BY NatLessThanWellFounded
<1>2. PICK m \in T : \A k \in T : ~ (<<k, m>> \in R)
  <2> HIDE DEF R
  <2> QED BY <1>1, WFMin
<1>3. ASSUME NEW k \in T PROVE m <= k
  <2>1. k \in Nat /\ m \in Nat
    OBVIOUS
  <2>2. k < m => <<k, m>> \in R
    BY <2>1 DEF OpToRel
  <2> HIDE DEF R
  <2> QED BY <1>2, <2>1, <2>2
<1> QED BY <1>3

\* A set that holds 0, and with n its successor, holds every natural number.
LEMMA Induct ==
  ASSUME NEW S, 0 \in S, \A n \in Nat : n \in S => n + 1 \in S
  PROVE  Nat \subseteq S
<1> SUFFICES ASSUME NEW x \in Nat, x \notin S PROVE FALSE
  OBVIOUS
<1> DEFINE T == Nat \ S
<1>1. PICK m \in T : \A k \in T : m <= k
  <2>1. T \subseteq Nat /\ T # {}
    OBVIOUS
  <2> HIDE DEF T
  <2> QED BY <2>1, LeastNatural
<1>2. m # 0 /\ m - 1 \in Nat /\ (m - 1) + 1 = m
  OBVIOUS
<1>3. m - 1 \in T
  BY <1>2
<1> QED BY <1>1, <1>2, <1>3

\* The same up to a bound.
LEMMA UpTo ==
  ASSUME NEW n \in Nat, NEW S, 0 \in S,
         \A k \in 0..(n - 1) : k \in S => k + 1 \in S
  PROVE  0..n \subseteq S
<1> DEFINE T == S \cup {k \in Nat : k > n}
<1>1. Nat \subseteq T
  <2>1. 0 \in T
    OBVIOUS
  <2>2. ASSUME NEW k \in Nat, k \in T PROVE k + 1 \in T
    BY <2>2
  <2> HIDE DEF T
  <2> QED BY <2>1, <2>2, Induct
<1> QED BY <1>1

\* A function that each number up to n takes a step further: from b, by g.
Iterated(f, b, g, n, S) ==
  f \in [0..n -> S] /\ f[0] = b /\ \A k \in 1..n : f[k] = g[<<f[k - 1], k>>]

LEMMA Iterates ==
  ASSUME NEW n \in Nat, NEW S, NEW b \in S, NEW g \in [S \X (1..n) -> S]
  PROVE  \E f : Iterated(f, b, g, n, S)
<1> DEFINE T == {m \in 0..n : \E f : Iterated(f, b, g, m, S)}
<1>1. 0 \in T
  <2>1. Iterated([i \in 0..0 |-> b], b, g, 0, S)
    BY DEF Iterated
  <2> QED BY <2>1
<1>2. ASSUME NEW k \in 0..(n - 1), k \in T PROVE k + 1 \in T
  <2>1. PICK f : Iterated(f, b, g, k, S)
    BY <1>2
  <2>2. f \in [0..k -> S] /\ f[0] = b /\ \A i \in 1..k : f[i] = g[<<f[i - 1], i>>]
    BY <2>1 DEF Iterated
  <2>3. k + 1 \in 1..n /\ f[k] \in S
    BY <2>2
  <2>4. g[<<f[k], k + 1>>] \in S
    BY <2>3
  <2>5. PICK e \in S : e = g[<<f[k], k + 1>>]
    BY <2>4
  <2> DEFINE h == [i \in 0..(k + 1) |-> IF i = k + 1 THEN e ELSE f[i]]
  <2>6. h \in [0..(k + 1) -> S] /\ h[0] = b /\ h[k + 1] = e /\ \A i \in 0..k : h[i] = f[i]
    BY <2>2
  <2> HIDE DEF h
  <2>7. ASSUME NEW i \in 1..(k + 1) PROVE h[i] = g[<<h[i - 1], i>>]
    <3>1. CASE i = k + 1
      <4>1. i - 1 = k /\ k \in 0..k
        BY <3>1
      <4> QED BY <3>1, <4>1, <2>5, <2>6
    <3>2. CASE i # k + 1
      <4>1. i \in 1..k /\ i \in 0..k /\ i - 1 \in 0..k
        BY <3>2
      <4> QED BY <4>1, <2>2, <2>6
    <3> QED BY <3>1, <3>2
  <2>8. Iterated(h, b, g, k + 1, S)
    BY <2>6, <2>7 DEF Iterated
  <2>9. k + 1 \in 0..n
    BY <2>3
  <2>10. \E x : Iterated(x, b, g, k + 1, S)
    BY <2>8
  <2> QED BY <2>9, <2>10
<1>3. 0..n \subseteq T
  <2> HIDE DEF T
  <2> QED BY <1>1, <1>2, UpTo
<1> QED BY <1>3

\* A set of numbers up to n that has an element has a greatest one.
LEMMA GreatestUpTo ==
  ASSUME NEW n \in Nat, NEW T, T \subseteq 1..n, T # {}
  PROVE  \E m \in T : \A k \in T : m >= k
<1> DEFINE R == {n - k : k \in T}
<1>1. R \subseteq Nat /\ R # {}
  <2>1. \A k \in T : n - k \in Nat
    OBVIOUS
  <2>2. PICK k \in T : TRUE
    OBVIOUS
  <2>3. n - k \in R
    BY <2>2
  <2> QED BY <2>1, <2>3
<1>2. PICK m \in R : \A k \in R : m <= k
  <2> HIDE DEF R
  <2> QED BY <1>1, LeastNatural
<1>3. PICK i \in T : m = n - i
  BY <1>2
<1>4. ASSUME NEW k \in T PROVE i >= k
  <2>1. n - k \in R
    OBVIOUS
  <2>2. n - i <= n - k
    <3> HIDE DEF R
    <3> QED BY <1>2, <1>3, <2>1
  <2> QED BY <2>2
<1> QED BY <1>4
=============================================================================
