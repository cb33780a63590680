---------------------------- MODULE LeastNumber ----------------------------
(***************************************************************************)
(* Sets of naturals: the least number principle, and what follows from it  *)
(* without induction over a predicate, which the provers cannot use.       *)
(***************************************************************************)
EXTENDS Integers, WellFoundedInduction, TLAPS

\* A set of naturals that is not empty has a least element.
LEMMA LeastNatural ==
    ASSUME NEW T, T \subseteq Nat, T # {}
    PROVE  \E x \in T : \A y \in T : x <= y
<1>1. PICK x \in T : \A y \in T : <<y, x>> \notin OpToRel(<, Nat)
  BY WFMin, NatLessThanWellFounded, Zenon
<1>2. ASSUME NEW y \in T PROVE x <= y
  <2>1. <<y, x>> \in Nat \X Nat /\ ~(y < x)
    BY <1>1, Zenon DEF OpToRel
  <2> QED BY <2>1
<1> QED BY <1>2

\* Induction over the naturals, for a set.
LEMMA SetInduction ==
    ASSUME NEW T, T \subseteq Nat, 0 \in T, \A n \in T : n + 1 \in T
    PROVE  T = Nat
<1> SUFFICES ASSUME Nat \ T # {} PROVE FALSE
  OBVIOUS
<1>1. PICK x \in Nat \ T : \A y \in Nat \ T : x <= y
  BY LeastNatural
<1>2. x # 0 /\ x - 1 \in Nat
  OBVIOUS
<1>3. x - 1 \in T
  BY <1>1, <1>2
<1> QED BY <1>3

\* A bounded set of naturals that is not empty has a greatest element.
LEMMA GreatestNatural ==
    ASSUME NEW n \in Nat, NEW T, T \subseteq 0 .. n, T # {}
    PROVE  \E x \in T : \A y \in T : y <= x
<1> DEFINE D == {d \in Nat : n - d \in T}
<1>1. PICK x \in T : TRUE
  OBVIOUS
<1>2. x \in Nat /\ x <= n /\ n - (n - x) = x /\ n - x \in Nat
  OBVIOUS
<1>3. D # {} /\ D \subseteq Nat
  BY <1>2
<1> HIDE DEF D
<1>4. PICK d \in D : \A e \in D : d <= e
  BY <1>3, LeastNatural
<1>5. d \in Nat /\ n - d \in T
  BY <1>4 DEF D
<1>6. ASSUME NEW y \in T PROVE y <= n - d
  <2>1. y \in Nat /\ y <= n /\ n - y \in Nat /\ n - (n - y) = y
    OBVIOUS
  <2>2. n - y \in D
    BY <2>1 DEF D
  <2>3. d <= n - y
    BY <1>4, <2>2
  <2> QED BY <1>5, <2>1, <2>3
<1> QED BY <1>5, <1>6

(***************************************************************************)
(* Recursion.  The library's theorems about recursive functions take the   *)
(* definition as a parameter; here the step is a function.                 *)
(***************************************************************************)
\* The values up to the n-th.
Chains(a, g, n) ==
    {h \in [0 .. n -> Nat] : h[0] = a /\ \A k \in 1 .. n : h[k] = g[k][h[k - 1]]}

\* There are values up to any n.
LEMMA ChainExists ==
    ASSUME NEW a \in Nat, NEW g \in [Nat -> [Nat -> Nat]]
    PROVE  \A n \in Nat : \E h : h \in Chains(a, g, n)
<1> DEFINE T == {n \in Nat : \E h : h \in Chains(a, g, n)}
<1>1. 0 \in T
  <2>1. [k \in 0 .. 0 |-> a] \in Chains(a, g, 0)
    BY DEF Chains
  <2> QED BY <2>1
<1>2. ASSUME NEW n \in T PROVE n + 1 \in T
  <2>1. PICK h : h \in Chains(a, g, n)
    OBVIOUS
  <2>2. n \in Nat /\ n + 1 \in Nat /\ n \in 0 .. n
    OBVIOUS
  <2>3. h \in [0 .. n -> Nat] /\ h[0] = a
    BY <2>1 DEF Chains
  <2>4. n \in Nat /\ n + 1 \in Nat /\ h \in [0 .. n -> Nat] /\ h[n] \in Nat /\ h[0] = a
    BY <2>2, <2>3
  <2>5. PICK v \in Nat : v = g[n + 1][h[n]]
    BY <2>4
  <2> DEFINE f == [k \in 0 .. n + 1 |-> IF k = n + 1 THEN v ELSE h[k]]
  <2>6. f \in [0 .. n + 1 -> Nat] /\ f[0] = a
    <3>1. ASSUME NEW k \in 0 .. n + 1 PROVE f[k] \in Nat
      <4>1. CASE k = n + 1
        BY <2>5, <4>1
      <4>2. CASE k # n + 1
        <5>1. k \in 0 .. n
          BY <2>4, <4>2
        <5> QED BY <2>4, <4>2, <5>1
      <4> QED BY <4>1, <4>2
    <3>2. 0 \in 0 .. n + 1 /\ 0 # n + 1
      BY <2>4
    <3>3. f[0] = a
      BY <2>4, <3>2
    <3> QED BY <3>1, <3>3
  <2>7. ASSUME NEW k \in 1 .. n + 1 PROVE f[k] = g[k][f[k - 1]]
    <3>1. k - 1 \in 0 .. n /\ f[k - 1] = h[k - 1]
      BY <2>4
    <3>2. CASE k = n + 1
      <4>1. f[k] = v /\ k - 1 = n
        BY <2>4, <3>2
      <4> QED BY <2>5, <3>1, <3>2, <4>1
    <3>3. CASE k # n + 1
      <4>1. k \in 1 .. n /\ f[k] = h[k]
        BY <2>4, <3>3
      <4> QED BY <2>1, <3>1, <4>1 DEF Chains
    <3> QED BY <3>2, <3>3
  <2> HIDE DEF f
  <2>8. f \in Chains(a, g, n + 1)
    BY <2>6, <2>7 DEF Chains
  <2> QED BY <2>4, <2>8
<1>3. T \subseteq Nat
  OBVIOUS
<1> HIDE DEF T
<1>4. T = Nat
  BY <1>1, <1>2, <1>3, SetInduction
<1> QED BY <1>4 DEF T

\* Two chains agree as far as both go.
LEMMA ChainsAgree ==
    ASSUME NEW a, NEW g, NEW n \in Nat, NEW m \in Nat,
           NEW f \in Chains(a, g, n), NEW h \in Chains(a, g, m)
    PROVE  \A k \in Nat : k <= n /\ k <= m => f[k] = h[k]
<1> DEFINE T == {k \in Nat : k <= n /\ k <= m => f[k] = h[k]}
<1>1. 0 \in T
  BY DEF Chains
<1>2. ASSUME NEW k \in T PROVE k + 1 \in T
  <2> SUFFICES ASSUME k + 1 <= n, k + 1 <= m PROVE f[k + 1] = h[k + 1]
    OBVIOUS
  <2>1. k \in Nat /\ f[k] = h[k]
    OBVIOUS
  <2>2. k + 1 \in 1 .. n /\ k + 1 \in 1 .. m /\ (k + 1) - 1 = k
    BY <2>1
  <2>3. f[k + 1] = g[k + 1][f[k]] /\ h[k + 1] = g[k + 1][h[k]]
    BY <2>2 DEF Chains
  <2> QED BY <2>1, <2>3
<1>3. T \subseteq Nat
  OBVIOUS
<1> HIDE DEF T
<1>4. T = Nat
  BY <1>1, <1>2, <1>3, SetInduction
<1> QED BY <1>4 DEF T

\* There is a function with a given first value and step.
LEMMA RecursionExists ==
    ASSUME NEW a \in Nat, NEW g \in [Nat -> [Nat -> Nat]]
    PROVE  \E f \in [Nat -> Nat] :
               f[0] = a /\ \A n \in Nat \ {0} : f[n] = g[n][f[n - 1]]
<1> DEFINE H(n) == CHOOSE h : h \in Chains(a, g, n)
           f == [n \in Nat |-> H(n)[n]]
<1>1. \A n \in Nat : H(n) \in Chains(a, g, n)
  BY ChainExists
<1> HIDE DEF H
<1>2. f \in [Nat -> Nat] /\ f[0] = a
  BY <1>1 DEF Chains
<1>3. ASSUME NEW n \in Nat \ {0} PROVE f[n] = g[n][f[n - 1]]
  <2>1. n - 1 \in Nat /\ n \in 1 .. n
    OBVIOUS
  <2>2. H(n)[n] = g[n][H(n)[n - 1]]
    BY <1>1, <2>1 DEF Chains
  <2>3. H(n)[n - 1] = H(n - 1)[n - 1]
    <3>1. PICK p, q : p = H(n) /\ q = H(n - 1)
      OBVIOUS
    <3>2. PICK m \in Nat : m = n - 1
      BY <2>1
    <3>3. p \in Chains(a, g, n) /\ q \in Chains(a, g, m) /\ n \in Nat /\ m <= n /\ m <= m
      BY <1>1, <2>1, <3>1, <3>2
    <3> HIDE DEF f
    <3>4. p[m] = q[m]
      BY <3>3, ChainsAgree
    <3> QED BY <3>1, <3>2, <3>4
  <2> QED BY <2>1, <2>2, <2>3
<1> QED BY <1>2, <1>3
=============================================================================
