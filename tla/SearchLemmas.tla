---------------------------- MODULE SearchLemmas ----------------------------
(***************************************************************************)
(* What the pure parts of Search compute, for any rankings: lists in an    *)
(* order, the first of a ranking, a selection from it, the fused ranking   *)
(* and the suggested links.                                                *)
(***************************************************************************)
EXTENDS Search, LeastNumber, FiniteSetTheorems, SequenceTheorems, TLAPS

(***************************************************************************)
(* Sets in an order.                                                       *)
(***************************************************************************)
\* R orders the members of S, strictly and totally.
Orders(R, S) ==
    /\ \A a, b \in S : a # b => <<a, b>> \in R \/ <<b, a>> \in R
    /\ \A a, b \in S : <<a, b>> \in R => <<b, a>> \notin R
    /\ \A a, b, c \in S : <<a, b>> \in R /\ <<b, c>> \in R => <<a, c>> \in R

\* s lists the members of S in the order R.
Lists(s, S, R) ==
    /\ s \in [1 .. Cardinality(S) -> S]
    /\ Range(s) = S
    /\ \A i, j \in DOMAIN s : i < j => <<s[i], s[j]>> \in R

\* A finite set that is not empty has a last member.
LEMMA LastExists ==
    ASSUME NEW S, IsFiniteSet(S), NEW R, Orders(R, S), S # {}
    PROVE  \E m \in S : \A x \in S \ {m} : <<x, m>> \in R
<1> DEFINE HasLast(D) == \E m \in D : \A x \in D \ {m} : <<x, m>> \in R
           T == {n \in Nat : \A D \in SUBSET S : Cardinality(D) = n + 1 => HasLast(D)}
<1>1. 0 \in T
  <2> SUFFICES ASSUME NEW D \in SUBSET S, Cardinality(D) = 1 PROVE HasLast(D)
    OBVIOUS
  <2>1. IsFiniteSet(D)
    BY FS_Subset
  <2>2. PICK m : D = {m}
    BY <2>1, FS_Singleton
  <2> QED BY <2>2
<1>2. ASSUME NEW n \in T PROVE n + 1 \in T
  <2> SUFFICES ASSUME NEW D \in SUBSET S, Cardinality(D) = n + 2 PROVE HasLast(D)
    OBVIOUS
  <2>1. IsFiniteSet(D) /\ n \in Nat
    BY FS_Subset
  <2>2. PICK d \in D : TRUE
    BY <2>1, FS_EmptySet
  <2>3. Cardinality(D \ {d}) = n + 1
    <3>1. Cardinality(D \ {d}) = Cardinality(D) - 1
      BY <2>1, <2>2, FS_RemoveElement
    <3> QED BY <2>1, <3>1
  <2>4. PICK m \in D \ {d} : \A x \in (D \ {d}) \ {m} : <<x, m>> \in R
    BY <2>3
  <2>5. CASE <<d, m>> \in R
    BY <2>4, <2>5
  <2>6. CASE <<m, d>> \in R
    BY <2>4, <2>6 DEF Orders
  <2> QED BY <2>4, <2>5, <2>6 DEF Orders
<1>3. T \subseteq Nat
  OBVIOUS
<1> HIDE DEF T
<1>4. T = Nat
  BY <1>1, <1>2, <1>3, SetInduction
<1>5. Cardinality(S) \in Nat /\ Cardinality(S) # 0
  BY FS_CardinalityType, FS_EmptySet
<1>6. Cardinality(S) - 1 \in Nat /\ Cardinality(S) = (Cardinality(S) - 1) + 1
  BY <1>5
<1> QED BY <1>4, <1>5, <1>6 DEF T

\* Every finite set can be listed in a total order.
LEMMA ListExists ==
    ASSUME NEW S, IsFiniteSet(S), NEW R, Orders(R, S)
    PROVE  \E s : Lists(s, S, R)
<1> DEFINE T == {n \in Nat : \A D \in SUBSET S : Cardinality(D) = n => \E s : Lists(s, D, R)}
<1>1. 0 \in T
  <2> SUFFICES ASSUME NEW D \in SUBSET S, Cardinality(D) = 0 PROVE \E s : Lists(s, D, R)
    OBVIOUS
  <2>1. D = {}
    BY FS_Subset, FS_EmptySet
  <2>2. Lists([i \in 1 .. 0 |-> 0], D, R)
    BY <2>1 DEF Lists, Range
  <2> QED BY <2>2
<1>2. ASSUME NEW n \in T PROVE n + 1 \in T
  <2> SUFFICES ASSUME NEW D \in SUBSET S, Cardinality(D) = n + 1 PROVE \E s : Lists(s, D, R)
    OBVIOUS
  <2>1. IsFiniteSet(D) /\ n \in Nat /\ D # {}
    BY FS_Subset, FS_EmptySet
  <2>2. Orders(R, D)
    BY DEF Orders
  <2>3. PICK m \in D : \A x \in D \ {m} : <<x, m>> \in R
    BY <2>1, <2>2, LastExists
  <2>4. Cardinality(D \ {m}) = n
    <3>1. Cardinality(D \ {m}) = Cardinality(D) - 1
      BY <2>1, <2>3, FS_RemoveElement
    <3> QED BY <2>1, <3>1
  <2>5. PICK t : Lists(t, D \ {m}, R)
    BY <2>4
  <2> DEFINE s == [i \in 1 .. n + 1 |-> IF i = n + 1 THEN m ELSE t[i]]
  <2>6. /\ t \in [1 .. n -> D \ {m}] /\ Range(t) = D \ {m}
        /\ \A i, j \in 1 .. n : i < j => <<t[i], t[j]>> \in R
    BY <2>4, <2>5 DEF Lists
  <2>7. s \in [1 .. n + 1 -> D]
    BY <2>1, <2>3, <2>6
  <2>8. Range(s) = D
    <3>1. m \in Range(s)
      BY <2>1 DEF Range
    <3>2. ASSUME NEW x \in D \ {m} PROVE x \in Range(s)
      <4>1. PICK i \in 1 .. n : t[i] = x
        BY <2>6 DEF Range
      <4>2. i \in 1 .. n + 1 /\ s[i] = x
        BY <2>1, <4>1
      <4> QED BY <4>2 DEF Range
    <3>3. Range(s) \subseteq D
      BY <2>7 DEF Range
    <3> QED BY <3>1, <3>2, <3>3
  <2>9. ASSUME NEW i \in 1 .. n + 1, NEW j \in 1 .. n + 1, i < j PROVE <<s[i], s[j]>> \in R
    <3>1. i \in 1 .. n /\ s[i] = t[i] /\ t[i] \in D \ {m}
      BY <2>1, <2>6, <2>9
    <3> QED BY <2>1, <2>3, <2>6, <2>9, <3>1
  <2> HIDE DEF s
  <2>10. Lists(s, D, R)
    BY <2>7, <2>8, <2>9 DEF Lists
  <2> QED BY <2>10
<1>3. T \subseteq Nat
  OBVIOUS
<1> HIDE DEF T
<1>4. T = Nat
  BY <1>1, <1>2, <1>3, SetInduction
<1>5. Cardinality(S) \in Nat
  BY FS_CardinalityType
<1> QED BY <1>4, <1>5 DEF T

\* Listed lists a set in an order.
LEMMA ListedLists ==
    ASSUME NEW S, IsFiniteSet(S), NEW R, Orders(R, S)
    PROVE  Lists(Listed(S, R), S, R)
<1>1. \E s \in [1 .. Cardinality(S) -> S] :
          Range(s) = S /\ \A i, j \in DOMAIN s : i < j => <<s[i], s[j]>> \in R
  BY ListExists DEF Lists
<1> QED BY <1>1 DEF Listed, Lists

\* If t lists some of U and the others come after them, then t is how a list of
\* U begins; there is only one list.
LEMMA ListIsPrefix ==
    ASSUME NEW U, IsFiniteSet(U), NEW R, Orders(R, U), NEW D, D \subseteq U,
           NEW t, Lists(t, D, R), NEW u, Lists(u, U, R),
           \A x \in D, y \in U \ D : <<x, y>> \in R
    PROVE  /\ Len(t) = Cardinality(D) /\ Len(u) = Cardinality(U) /\ Len(t) <= Len(u)
           /\ \A i \in 1 .. Len(t) : t[i] = u[i]
<1>1. /\ IsFiniteSet(D) /\ Cardinality(D) \in Nat /\ Cardinality(U) \in Nat
      /\ Cardinality(D) <= Cardinality(U)
  BY FS_Subset, FS_CardinalityType
<1> DEFINE n == Cardinality(D)
           k == Cardinality(U)
<1>2. /\ t \in [1 .. n -> D] /\ Range(t) = D /\ Len(t) = n
      /\ \A i, j \in 1 .. n : i < j => <<t[i], t[j]>> \in R
      /\ u \in [1 .. k -> U] /\ Range(u) = U /\ Len(u) = k
      /\ \A i, j \in 1 .. k : i < j => <<u[i], u[j]>> \in R
  BY <1>1 DEF Lists
<1> HIDE DEF n, k
<1>3. n \in Nat /\ k \in Nat /\ n <= k
  BY <1>1 DEF n, k
<1> DEFINE B == {i \in 1 .. n : t[i] # u[i]}
<1>4. ASSUME B # {} PROVE FALSE
  <2>1. B \subseteq Nat
    BY <1>3
  <2>2. PICK i \in B : \A j \in B : i <= j
    <3> HIDE DEF B
    <3> QED BY <1>4, <2>1, LeastNatural
  <2>3. i \in 1 .. n /\ i \in 1 .. k /\ t[i] # u[i] /\ t[i] \in D /\ u[i] \in U
    BY <1>2, <1>3, <2>2
  <2>4. \A j \in 1 .. n : j < i => t[j] = u[j]
    BY <2>2, <2>3
  <2>5. PICK j \in 1 .. k : u[j] = t[i]
    BY <1>2, <2>3 DEF Range
  <2>6. ~(j < i)
    <3> SUFFICES ASSUME j < i PROVE FALSE
      OBVIOUS
    <3>1. j \in 1 .. n /\ t[j] = t[i] /\ <<t[j], t[i]>> \in R
      BY <1>2, <1>3, <2>3, <2>4, <2>5
    <3> QED BY <2>3, <3>1 DEF Orders
  <2>7. i < j
    BY <1>3, <2>3, <2>5, <2>6
  <2>8. <<u[i], t[i]>> \in R
    BY <1>2, <2>3, <2>5, <2>7
  <2>9. CASE u[i] \in D
    <3>1. PICK l \in 1 .. n : t[l] = u[i]
      BY <1>2, <2>9 DEF Range
    <3>2. ~(l < i)
      <4> SUFFICES ASSUME l < i PROVE FALSE
        OBVIOUS
      <4>1. l \in 1 .. k /\ u[l] = u[i] /\ <<u[l], u[i]>> \in R
        BY <1>2, <1>3, <2>3, <2>4, <3>1
      <4> QED BY <2>3, <4>1 DEF Orders
    <3>3. i < l
      BY <1>3, <2>3, <3>1, <3>2
    <3>4. <<t[i], u[i]>> \in R
      BY <1>2, <2>3, <3>1, <3>3
    <3> QED BY <2>3, <2>8, <3>4 DEF Orders
  <2>10. CASE u[i] \notin D
    BY <2>3, <2>8, <2>10 DEF Orders
  <2> QED BY <2>9, <2>10
<1> QED BY <1>2, <1>3, <1>4 DEF n, k

(***************************************************************************)
(* Rankings.                                                               *)
(***************************************************************************)
\* The order of a ranking.
Ahead(s) == {p \in Range(s) \X Range(s) : Rank(s, p[1]) < Rank(s, p[2])}

\* There are MaxDoc memories.
LEMMA DocsFinite ==
    MaxDoc \in Nat \ {0} /\ IsFiniteSet(Docs) /\ Cardinality(Docs) = MaxDoc
BY SearchConstantsOK, FS_Interval DEF SearchConstantsOK, Docs

\* What a ranking is.
LEMMA RankingIs ==
    ASSUME NEW s \in Rankings
    PROVE  /\ Len(s) \in 0 .. MaxDoc /\ DOMAIN s = 1 .. Len(s) /\ s \in Seq(Docs)
           /\ Range(s) \subseteq Docs /\ \A i \in 1 .. Len(s) : s[i] \in Docs
           /\ \A i, j \in 1 .. Len(s) : s[i] = s[j] => i = j
<1>1. PICK n \in 0 .. MaxDoc : s \in [1 .. n -> Docs]
  BY DEF Rankings
<1>2. n \in Nat /\ Len(s) = n
  BY <1>1, DocsFinite
<1>3. \A i, j \in 1 .. n : s[i] = s[j] => i = j
  BY <1>1 DEF Rankings, IsInjective
<1> QED BY <1>1, <1>2, <1>3 DEF Range

\* A sequence without repetition is a ranking.
LEMMA IsRanking ==
    ASSUME NEW n \in 0 .. MaxDoc, NEW s \in [1 .. n -> Docs],
           \A i, j \in 1 .. n : s[i] = s[j] => i = j
    PROVE  s \in Rankings
BY DEF Rankings, IsInjective

\* A memory of a ranking has one place in it.
LEMMA RankIs ==
    ASSUME NEW s \in Rankings
    PROVE  /\ \A d \in Range(s) : Rank(s, d) \in 1 .. Len(s) /\ s[Rank(s, d)] = d
           /\ \A i \in 1 .. Len(s) : s[i] \in Range(s) /\ Rank(s, s[i]) = i
<1>1. ASSUME NEW d \in Range(s) PROVE Rank(s, d) \in 1 .. Len(s) /\ s[Rank(s, d)] = d
  <2>1. \E i \in DOMAIN s : s[i] = d
    BY DEF Range
  <2> QED BY <2>1, RankingIs DEF Rank
<1>2. ASSUME NEW i \in 1 .. Len(s) PROVE s[i] \in Range(s) /\ Rank(s, s[i]) = i
  <2>1. s[i] \in Range(s)
    BY RankingIs DEF Range
  <2> QED BY <1>1, <2>1, RankingIs
<1> QED BY <1>1, <1>2

\* A ranking orders what is in it.
LEMMA RankingOrders ==
    ASSUME NEW s \in Rankings
    PROVE  Orders(Ahead(s), Range(s)) /\ IsFiniteSet(Range(s))
<1>1. \A d \in Range(s) : Rank(s, d) \in Nat
  BY RankIs, RankingIs
<1>2. \A a, b \in Range(s) : a # b => Rank(s, a) # Rank(s, b)
  BY RankIs
<1>3. \A a, b \in Range(s) : <<a, b>> \in Ahead(s) <=> Rank(s, a) < Rank(s, b)
  BY DEF Ahead
<1>4. IsFiniteSet(Range(s))
  BY RankingIs, DocsFinite, FS_Subset
<1> QED BY <1>1, <1>2, <1>3, <1>4 DEF Orders

\* A list of memories is a ranking of them.
LEMMA ListIsRanking ==
    ASSUME NEW D \in SUBSET Docs, NEW R, Orders(R, D), NEW s, Lists(s, D, R)
    PROVE  /\ s \in Rankings /\ Len(s) = Cardinality(D) /\ Range(s) = D
           /\ \A a, b \in D : Rank(s, a) < Rank(s, b) <=> <<a, b>> \in R
<1>1. Cardinality(D) \in 0 .. MaxDoc
  BY DocsFinite, FS_Subset, FS_CardinalityType
<1>2. Cardinality(D) \in Nat
  BY <1>1, DocsFinite
<1>3. /\ s \in [1 .. Cardinality(D) -> D] /\ Range(s) = D
      /\ \A i, j \in 1 .. Cardinality(D) : i < j => <<s[i], s[j]>> \in R
  BY DEF Lists
<1>4. ASSUME NEW i \in 1 .. Cardinality(D), NEW j \in 1 .. Cardinality(D), s[i] = s[j]
      PROVE  i = j
  <2>1. ~(i < j) /\ ~(j < i)
    BY <1>3, <1>4 DEF Orders
  <2> QED BY <1>2, <2>1
<1>5. s \in Rankings /\ Len(s) = Cardinality(D)
  <2>1. s \in [1 .. Cardinality(D) -> Docs]
    BY <1>3
  <2> QED BY <1>1, <1>2, <1>4, <2>1, IsRanking
<1>6. ASSUME NEW a \in D, NEW b \in D PROVE Rank(s, a) < Rank(s, b) <=> <<a, b>> \in R
  <2>1. /\ Rank(s, a) \in 1 .. Cardinality(D) /\ s[Rank(s, a)] = a
        /\ Rank(s, b) \in 1 .. Cardinality(D) /\ s[Rank(s, b)] = b
    BY <1>3, <1>5, RankIs
  <2>2. Rank(s, a) < Rank(s, b) => <<a, b>> \in R
    BY <1>3, <2>1
  <2>3. Rank(s, b) < Rank(s, a) => <<b, a>> \in R
    BY <1>3, <2>1
  <2>4. Rank(s, a) = Rank(s, b) => a = b
    BY <2>1
  <2> QED BY <1>2, <2>1, <2>2, <2>3, <2>4 DEF Orders
<1> QED BY <1>3, <1>5, <1>6

(***************************************************************************)
(* The first of a ranking.                                                 *)
(***************************************************************************)
\* The first n of a ranking: what they are and where they rank.
LEMMA TakeIs ==
    ASSUME NEW s \in Rankings, NEW n \in Nat
    PROVE  /\ Take(s, n) \in Rankings
           /\ Len(Take(s, n)) = IF n < Len(s) THEN n ELSE Len(s)
           /\ \A i \in 1 .. Len(Take(s, n)) : Take(s, n)[i] = s[i]
           /\ Range(Take(s, n)) = {d \in Range(s) : Rank(s, d) <= n}
           /\ \A d \in Range(Take(s, n)) : Rank(Take(s, n), d) = Rank(s, d)
<1> DEFINE m == IF n < Len(s) THEN n ELSE Len(s)
           t == Take(s, n)
<1>1. /\ Len(s) \in 0 .. MaxDoc /\ s \in Seq(Docs) /\ \A i \in 1 .. Len(s) : s[i] \in Docs
      /\ \A i, j \in 1 .. Len(s) : s[i] = s[j] => i = j
  BY RankingIs
<1>2. m \in 0 .. MaxDoc /\ m \in Nat /\ m <= Len(s) /\ m <= n /\ Len(s) \in Nat
  BY <1>1, DocsFinite
<1>3. t \in [1 .. m -> Docs] /\ Len(t) = m /\ \A i \in 1 .. m : t[i] = s[i]
  <2>1. t = SubSeq(s, 1, m)
    BY DEF Take
  <2> HIDE DEF t, m
  <2>2. t = [i \in 1 .. m |-> s[i]]
    BY <1>1, <1>2, <2>1
  <2>3. \A i \in 1 .. m : s[i] \in Docs
    BY <1>1, <1>2
  <2> QED BY <1>2, <2>2, <2>3
<1>4. t \in Rankings
  <2>1. \A i, j \in 1 .. m : t[i] = t[j] => i = j
    BY <1>1, <1>2, <1>3
  <2> HIDE DEF t, m
  <2> QED BY <1>2, <1>3, <2>1, IsRanking
<1> HIDE DEF t
<1>5. ASSUME NEW d \in Range(t) PROVE d \in Range(s) /\ Rank(s, d) <= n /\ Rank(t, d) = Rank(s, d)
  <2>1. Rank(t, d) \in 1 .. m /\ t[Rank(t, d)] = d
    BY <1>3, <1>4, RankIs
  <2>2. Rank(t, d) \in 1 .. Len(s) /\ s[Rank(t, d)] = d /\ Rank(t, d) <= n
    BY <1>2, <1>3, <2>1
  <2> QED BY <2>2, RankIs
<1>6. ASSUME NEW d \in Range(s), Rank(s, d) <= n PROVE d \in Range(t)
  <2>1. Rank(s, d) \in 1 .. Len(s) /\ s[Rank(s, d)] = d
    BY RankIs
  <2>2. Rank(s, d) \in 1 .. m /\ t[Rank(s, d)] = d
    BY <1>2, <1>3, <1>6, <2>1
  <2> QED BY <1>3, <2>2 DEF Range
<1>7. Range(t) = {d \in Range(s) : Rank(s, d) <= n}
  BY <1>5, <1>6
<1> QED BY <1>3, <1>4, <1>5, <1>7 DEF t

(***************************************************************************)
(* A selection from a ranking.                                             *)
(***************************************************************************)
\* A ranking has as many places as memories.
LEMMA RankingCount ==
    ASSUME NEW s \in Rankings
    PROVE  Cardinality(Range(s)) = Len(s)
<1>1. /\ Len(s) \in Nat /\ DOMAIN s = 1 .. Len(s) /\ s \in [1 .. Len(s) -> Docs]
      /\ \A i, j \in 1 .. Len(s) : s[i] = s[j] => i = j
  BY RankingIs, DocsFinite
<1>2. s \in Bijection(1 .. Len(s), Range(s))
  BY <1>1 DEF Bijection, Injection, Surjection, IsInjective, Range
<1>3. ExistsBijection(1 .. Len(s), Range(s))
  BY <1>2 DEF ExistsBijection
<1> QED BY <1>1, <1>3, FS_CountingElements

\* Rankings with the same places are the same.
LEMMA SameRanking ==
    ASSUME NEW s \in Rankings, NEW t \in Rankings, Len(s) = Len(t),
           \A i \in 1 .. Len(s) : s[i] = t[i]
    PROVE  s = t
<1>1. s \in Seq(Docs) /\ t \in Seq(Docs)
  BY RankingIs
<1> QED BY <1>1

\* A ranking lists what is in it.
LEMMA RankingLists ==
    ASSUME NEW s \in Rankings
    PROVE  Lists(s, Range(s), Ahead(s))
<1>1. s \in [1 .. Len(s) -> Range(s)] /\ DOMAIN s = 1 .. Len(s) /\ Len(s) \in Nat
  BY RankingIs, DocsFinite DEF Range
<1>2. ASSUME NEW i \in 1 .. Len(s), NEW j \in 1 .. Len(s), i < j PROVE <<s[i], s[j]>> \in Ahead(s)
  BY <1>2, RankIs DEF Ahead
<1> QED BY <1>1, <1>2, RankingCount DEF Lists

\* A selection is the ranking of what it selects.
LEMMA SelectIs ==
    ASSUME NEW s \in Rankings, NEW D
    PROVE  /\ Select(s, D) \in Rankings
           /\ Lists(Select(s, D), Range(s) \cap D, Ahead(s))
           /\ Range(Select(s, D)) = Range(s) \cap D
           /\ Len(Select(s, D)) = Cardinality(Range(s) \cap D)
<1>1. Orders(Ahead(s), Range(s) \cap D) /\ IsFiniteSet(Range(s) \cap D)
  BY RankingOrders, FS_Subset DEF Orders
<1>2. Select(s, D) = Listed(Range(s) \cap D, Ahead(s))
  BY DEF Select, Ahead
<1>3. Lists(Select(s, D), Range(s) \cap D, Ahead(s))
  BY <1>1, <1>2, ListedLists
<1>4. Range(s) \cap D \in SUBSET Docs
  BY RankingIs
<1> QED BY <1>1, <1>3, <1>4, ListIsRanking

\* All of a ranking is the ranking.
LEMMA SelectAll ==
    ASSUME NEW s \in Rankings
    PROVE  Select(s, Docs) = s
<1>1. Range(s) \cap Docs = Range(s)
  BY RankingIs
<1>2. Select(s, Docs) \in Rankings /\ Lists(Select(s, Docs), Range(s), Ahead(s))
  BY <1>1, SelectIs
<1>3. /\ Len(Select(s, Docs)) = Len(s)
      /\ \A i \in 1 .. Len(Select(s, Docs)) : Select(s, Docs)[i] = s[i]
  BY <1>2, RankingLists, RankingOrders, ListIsPrefix
<1> QED BY <1>2, <1>3, SameRanking

\* A selection from the first of a ranking is in the order of all of it.
LEMMA SelectFromFirst ==
    ASSUME NEW s \in Rankings, NEW n \in Nat, NEW D
    PROVE  /\ Select(Take(s, n), D) \in Rankings
           /\ Lists(Select(Take(s, n), D), Range(Take(s, n)) \cap D, Ahead(s))
<1>1. Take(s, n) \in Rankings
  BY TakeIs
<1>2. Lists(Select(Take(s, n), D), Range(Take(s, n)) \cap D, Ahead(Take(s, n)))
  BY <1>1, SelectIs
<1>3. Ahead(Take(s, n)) \subseteq Ahead(s)
  BY TakeIs DEF Ahead
<1> QED BY <1>1, <1>2, <1>3, SelectIs DEF Lists

\* A list of the smaller of two parts of a ranking begins the list of the other,
\* if what the first lacks comes later.
LEMMA PartIsPrefix ==
    ASSUME NEW s \in Rankings, NEW U \in SUBSET Range(s), NEW D \in SUBSET U,
           NEW t, Lists(t, D, Ahead(s)), NEW u, Lists(u, U, Ahead(s)),
           \A x \in D, y \in U \ D : Rank(s, x) < Rank(s, y)
    PROVE  /\ Len(t) = Cardinality(D) /\ Len(u) = Cardinality(U) /\ Len(t) <= Len(u)
           /\ \A i \in 1 .. Len(t) : t[i] = u[i]
<1>1. Orders(Ahead(s), U) /\ IsFiniteSet(U)
  BY RankingOrders, FS_Subset DEF Orders
<1>2. \A x \in D, y \in U \ D : <<x, y>> \in Ahead(s)
  BY DEF Ahead
<1> QED BY <1>1, <1>2, ListIsPrefix

\* Two rankings that begin alike have the same first n, if the shorter one has n
\* or both are as long.
LEMMA SameFirst ==
    ASSUME NEW t \in Rankings, NEW u \in Rankings, NEW n \in Nat, Len(t) <= Len(u),
           \A i \in 1 .. Len(t) : t[i] = u[i], n <= Len(t) \/ Len(t) = Len(u)
    PROVE  Take(t, n) = Take(u, n)
<1>1. Len(t) \in Nat /\ Len(u) \in Nat
  BY RankingIs, DocsFinite
<1>2. Len(Take(t, n)) = Len(Take(u, n)) /\ Len(Take(t, n)) <= Len(t) /\ Len(Take(t, n)) \in Nat
  BY <1>1, TakeIs
<1>3. \A i \in 1 .. Len(Take(t, n)) : Take(t, n)[i] = Take(u, n)[i]
  BY <1>1, <1>2, TakeIs
<1> QED BY <1>2, <1>3, SameRanking, TakeIs

\* The first of the first.
LEMMA TakeTake ==
    ASSUME NEW s \in Rankings, NEW n \in Nat, NEW m \in Nat, n <= m
    PROVE  Take(Take(s, m), n) = Take(s, n)
<1>1. /\ Take(s, m) \in Rankings
      /\ Len(Take(s, m)) = IF m < Len(s) THEN m ELSE Len(s)
      /\ \A i \in 1 .. Len(Take(s, m)) : Take(s, m)[i] = s[i]
  BY TakeIs
<1>2. Len(s) \in Nat
  BY RankingIs, DocsFinite
<1>3. Len(Take(s, m)) <= Len(s) /\ (n <= Len(Take(s, m)) \/ Len(Take(s, m)) = Len(s))
  BY <1>1, <1>2
<1> QED BY <1>1, <1>3, SameFirst

(***************************************************************************)
(* The vector query.                                                       *)
(***************************************************************************)
\* A limit is at least 1, and there are no fewer candidates.
LEMMA LimitIs ==
    ASSUME NEW limit \in Nat
    PROVE  /\ Positive(limit) \in Nat \ {0}
           /\ Candidates(Positive(limit)) \in Nat
           /\ Positive(limit) <= Candidates(Positive(limit))
<1>1. Positive(limit) \in Nat \ {0} /\ Factor \in Nat \ {0}
  BY SearchConstantsOK DEF SearchConstantsOK, Positive
<1>2. ASSUME NEW n \in Nat, NEW f \in Nat \ {0} PROVE n * f \in Nat /\ n <= n * f
  <2>1. PICK g \in Nat : f = g + 1
    <3>1. f - 1 \in Nat /\ f = (f - 1) + 1
      OBVIOUS
    <3> QED BY <3>1
  <2>2. n * f = n * g + n /\ n * g \in Nat
    BY <2>1
  <2> QED BY <2>2
<1> QED BY <1>1, <1>2 DEF Candidates

\* The candidate window loses nothing but what ranks behind it.
LEMMA SemanticIs ==
    ASSUME NEW near \in Rankings, NEW tagged \in SUBSET Docs, NEW limit \in Nat,
           NEW hits, hits = SearchSemantic(near, tagged, limit),
           NEW want, want = Take(Select(near, tagged), Positive(limit))
    PROVE  /\ hits \in Rankings
           /\ IsPrefix(hits, want)
           /\ hits # want => Rank(near, want[Len(hits) + 1]) > Factor * Positive(limit)
<1> DEFINE l == Positive(limit)
           n == Candidates(l)
           t == Select(Take(near, n), tagged)
           u == Select(near, tagged)
           D == Range(Take(near, n)) \cap tagged
           U == Range(near) \cap tagged
<1>1. l \in Nat /\ n \in Nat /\ n = Factor * l /\ Factor \in Nat
  BY LimitIs, SearchConstantsOK DEF SearchConstantsOK, Candidates
<1>2. hits = Take(t, l) /\ want = Take(u, l)
  BY DEF SearchSemantic
<1>3. /\ t \in Rankings /\ Lists(t, D, Ahead(near))
      /\ u \in Rankings /\ Lists(u, U, Ahead(near)) /\ Range(u) = U
  BY <1>1, SelectFromFirst, SelectIs
<1>4. /\ Range(Take(near, n)) = {d \in Range(near) : Rank(near, d) <= n}
      /\ \A d \in Range(near) : Rank(near, d) \in Nat
  BY <1>1, TakeIs, RankIs, RankingIs, DocsFinite
<1> HIDE DEF l, n, t, u
<1>5. D \in SUBSET U /\ U \in SUBSET Range(near)
  BY <1>4
<1>6. \A x \in D, y \in U \ D : Rank(near, x) < Rank(near, y)
  BY <1>1, <1>4
<1>7. Range(t) = D
  BY <1>3 DEF Lists
<1> HIDE DEF D, U
<1>8. /\ Len(t) = Cardinality(D) /\ Len(u) = Cardinality(U) /\ Len(t) <= Len(u)
      /\ \A i \in 1 .. Len(t) : t[i] = u[i]
  <2>1. Lists(t, D, Ahead(near)) /\ Lists(u, U, Ahead(near))
    BY <1>3
  <2> QED BY <1>5, <1>6, <2>1, PartIsPrefix
<1>9. Len(t) \in Nat /\ Len(u) \in Nat
  BY <1>3, RankingIs, DocsFinite
<1>10. /\ hits \in Rankings /\ want \in Rankings
       /\ Len(hits) = IF l < Len(t) THEN l ELSE Len(t)
       /\ Len(want) = IF l < Len(u) THEN l ELSE Len(u)
       /\ \A i \in 1 .. Len(hits) : hits[i] = t[i]
       /\ \A i \in 1 .. Len(want) : want[i] = u[i]
  BY <1>1, <1>2, <1>3, TakeIs
<1>11. IsPrefix(hits, want)
  <2>1. Len(hits) <= Len(want) /\ Len(hits) \in Nat /\ \A i \in 1 .. Len(hits) : hits[i] = want[i]
    <3>1. /\ Len(hits) \in Nat /\ Len(want) \in Nat /\ Len(hits) <= Len(want)
          /\ Len(hits) <= Len(t)
      BY <1>1, <1>8, <1>9, <1>10
    <3>2. ASSUME NEW i \in 1 .. Len(hits) PROVE hits[i] = want[i]
      <4>1. i \in 1 .. Len(t) /\ i \in 1 .. Len(want)
        BY <1>9, <3>1
      <4> QED BY <1>8, <1>10, <4>1
    <3> QED BY <3>1, <3>2
  <2>2. hits \in Seq(Docs) /\ want \in Seq(Docs)
    BY <1>10, RankingIs
  <2>3. SubSeq(hits, 1, Len(hits)) = SubSeq(want, 1, Len(hits))
    BY <2>1, <2>2
  <2> QED BY <2>1, <2>3 DEF IsPrefix
<1>12. ASSUME hits # want PROVE Rank(near, want[Len(hits) + 1]) > Factor * l
  <2>1. ~(l <= Len(t)) /\ Len(t) # Len(u)
    BY <1>1, <1>2, <1>3, <1>8, <1>12, SameFirst
  <2>2. /\ Len(hits) = Len(t) /\ Len(t) + 1 \in 1 .. Len(want) /\ Len(t) + 1 \in 1 .. Len(u)
    BY <1>1, <1>8, <1>9, <1>10, <2>1
  <2>3. PICK y : y = want[Len(hits) + 1] /\ y = u[Len(t) + 1]
    BY <1>10, <2>2
  <2>4. y \in U
    BY <1>3, <2>2, <2>3, RankIs
  <2>5. y \notin D
    <3> SUFFICES ASSUME y \in D PROVE FALSE
      OBVIOUS
    <3>1. PICK j \in 1 .. Len(t) : t[j] = y
      BY <1>3, <1>7, RankIs
    <3>2. j \in 1 .. Len(u) /\ u[j] = u[Len(t) + 1]
      BY <1>8, <1>9, <2>3, <3>1
    <3>3. j = Len(t) + 1
      BY <1>3, <2>2, <3>2, RankingIs
    <3> QED BY <1>9, <3>1, <3>3
  <2>6. Rank(near, y) \in Nat /\ ~(Rank(near, y) <= n)
    BY <1>4, <2>4, <2>5 DEF D, U
  <2> QED BY <1>1, <2>3, <2>6
<1> QED BY <1>10, <1>11, <1>12 DEF l

\* With one more hit than it suggests add_memory finds all it could, whether or
\* not it finds the new memory itself.
LEMMA SuggestionsAre ==
    ASSUME NEW near \in Rankings, NEW close \in 0 .. Len(near)
    PROVE  SelectSuggestedLinks(SearchSemantic(near, Docs, SuggestionCandidates), near, close)
               = Take(Select(Take(near, close), Docs \ {Self}), Suggest)
<1> DEFINE h == Take(near, Suggest + 1)
           c == Take(near, close)
           t == Select(h, Range(c) \ {Self})
           u == Select(c, Docs \ {Self})
           D == Range(h) \cap (Range(c) \ {Self})
           U == Range(c) \cap (Docs \ {Self})
<1>1. Suggest \in Nat /\ Suggest + 1 \in Nat /\ Len(near) \in Nat /\ close \in Nat /\ close <= Len(near)
  BY SearchConstantsOK, RankingIs, DocsFinite DEF SearchConstantsOK
<1>2. SearchSemantic(near, Docs, SuggestionCandidates) = h
  <2> DEFINE n == Candidates(Suggest + 1)
  <2>1. Positive(Suggest + 1) = Suggest + 1
    BY <1>1 DEF Positive
  <2>2. n \in Nat /\ Suggest + 1 <= n
    BY <1>1, <2>1, LimitIs
  <2>3. SearchSemantic(near, Docs, SuggestionCandidates) = Take(Select(Take(near, n), Docs), Suggest + 1)
    BY <2>1 DEF SearchSemantic, SuggestionCandidates
  <2>4. Select(Take(near, n), Docs) = Take(near, n)
    BY <2>2, TakeIs, SelectAll
  <2> HIDE DEF n
  <2> QED BY <1>1, <2>2, <2>3, <2>4, TakeTake
<1>3. SelectSuggestedLinks(h, near, close) = Take(t, Suggest)
  BY DEF SelectSuggestedLinks
<1>4. /\ t \in Rankings /\ Lists(t, D, Ahead(near))
      /\ u \in Rankings /\ Lists(u, U, Ahead(near))
  BY <1>1, SelectFromFirst
<1>5. /\ h \in Rankings /\ Len(h) = IF Suggest + 1 < Len(near) THEN Suggest + 1 ELSE Len(near)
      /\ Range(h) = {d \in Range(near) : Rank(near, d) <= Suggest + 1}
      /\ Range(c) = {d \in Range(near) : Rank(near, d) <= close}
      /\ Range(near) \subseteq Docs
      /\ \A d \in Range(near) : Rank(near, d) \in Nat
  BY <1>1, TakeIs, RankIs, RankingIs
<1> HIDE DEF h, c, t, u
<1>6. D \in SUBSET U /\ U \in SUBSET Range(near)
  BY <1>5
<1>7. \A x \in D, y \in U \ D : Rank(near, x) < Rank(near, y)
  BY <1>1, <1>5
<1>8. Suggest <= Cardinality(D) \/ D = U
  <2>1. CASE close <= Suggest + 1
    BY <1>1, <1>5, <2>1
  <2>2. CASE ~(close <= Suggest + 1)
    <3>1. D = Range(h) \ {Self}
      BY <1>1, <1>5, <2>2
    <3>2. Cardinality(Range(h)) = Suggest + 1
      <4>1. Len(h) = Suggest + 1
        BY <1>1, <1>5, <2>2
      <4> QED BY <1>5, <4>1, RankingCount
    <3>3. IsFiniteSet(Range(h))
      BY <1>5, RankingOrders
    <3>4. Self \in Range(h) => Cardinality(D) = (Suggest + 1) - 1
      <4>1. Self \in Range(h) => Cardinality(Range(h) \ {Self}) = Cardinality(Range(h)) - 1
        BY <3>3, FS_RemoveElement
      <4> HIDE DEF D
      <4> QED BY <3>1, <3>2, <4>1
    <3>5. Self \notin Range(h) => D = Range(h)
      BY <3>1
    <3> HIDE DEF D
    <3> QED BY <1>1, <3>2, <3>4, <3>5
  <2> QED BY <2>1, <2>2
<1> HIDE DEF D, U
<1>9. /\ Len(t) = Cardinality(D) /\ Len(u) = Cardinality(U) /\ Len(t) <= Len(u)
      /\ \A i \in 1 .. Len(t) : t[i] = u[i]
  BY <1>4, <1>6, <1>7, PartIsPrefix
<1>10. Take(t, Suggest) = Take(u, Suggest)
  BY <1>1, <1>4, <1>8, <1>9, SameFirst
<1> QED BY <1>2, <1>3, <1>10 DEF u, c

(***************************************************************************)
(* Fusion.                                                                 *)
(***************************************************************************)
\* Product multiplies the denominators there can be.
LEMMA ProductGrows ==
    /\ Product \in [Nat -> Nat]
    /\ Product[0] = 1
    /\ \A n \in Nat : Product[n + 1] = Product[n] * (RankConstant + (n + 1))
<1> DEFINE Step(g) == [n \in Nat |-> IF n = 0 THEN 1 ELSE g[n - 1] * (RankConstant + n)]
           times == [n \in Nat |-> [m \in Nat |-> m * (RankConstant + n)]]
<1>1. RankConstant \in Nat
  BY SearchConstantsOK DEF SearchConstantsOK
<1>2. times \in [Nat -> [Nat -> Nat]] /\ 1 \in Nat
  <2>1. \A n, m \in Nat : m * (RankConstant + n) \in Nat
    BY <1>1
  <2> QED BY <2>1
<1>3. PICK f \in [Nat -> Nat] : f[0] = 1 /\ \A n \in Nat \ {0} : f[n] = times[n][f[n - 1]]
  <2> HIDE DEF times
  <2> QED BY <1>2, RecursionExists
<1>4. ASSUME NEW n \in Nat \ {0} PROVE f[n] = f[n - 1] * (RankConstant + n)
  <2>1. f[n - 1] \in Nat /\ f[n] = times[n][f[n - 1]]
    BY <1>3
  <2>2. \A m \in Nat : times[n][m] = m * (RankConstant + n)
    OBVIOUS
  <2> HIDE DEF times
  <2> QED BY <2>1, <2>2
<1>5. f = Step(f)
  BY <1>3, <1>4
<1>6. Product = CHOOSE g : g = Step(g)
  BY DEF Product
<1>7. Product = Step(Product)
  BY <1>5, <1>6
<1>8. /\ Product[0] = 1 /\ DOMAIN Product = Nat
      /\ \A n \in Nat : n # 0 => Product[n] = Product[n - 1] * (RankConstant + n)
  BY <1>7
<1>9. \A n \in Nat : Product[n + 1] = Product[n] * (RankConstant + (n + 1))
  <2> SUFFICES ASSUME NEW n \in Nat
               PROVE  Product[n + 1] = Product[n] * (RankConstant + (n + 1))
    OBVIOUS
  <2>1. n + 1 \in Nat /\ n + 1 # 0 /\ (n + 1) - 1 = n
    OBVIOUS
  <2> QED BY <1>8, <2>1
<1>10. {n \in Nat : Product[n] \in Nat} = Nat
  <2> DEFINE T == {n \in Nat : Product[n] \in Nat}
  <2>1. 0 \in T
    BY <1>8
  <2>2. ASSUME NEW n \in T PROVE n + 1 \in T
    <3>1. n \in Nat /\ Product[n] \in Nat /\ RankConstant + (n + 1) \in Nat
      BY <1>1
    <3>2. \A a, b \in Nat : a * b \in Nat
      OBVIOUS
    <3>3. Product[n + 1] \in Nat
      BY <1>9, <3>1, <3>2
    <3> QED BY <3>1, <3>3
  <2> HIDE DEF T
  <2>3. T \subseteq Nat
    BY DEF T
  <2>4. T = Nat
    BY <2>1, <2>2, <2>3, SetInduction
  <2> QED BY <2>4 DEF T
<1>11. \A n \in Nat : Product[n] \in Nat
  BY <1>10
<1>12. Product = [n \in Nat |-> Product[n]]
  BY <1>7
<1>13. Product \in [Nat -> Nat]
  BY <1>11, <1>12
<1> QED BY <1>8, <1>9, <1>13

\* Every denominator divides the scale.
LEMMA ScaleIsMultiple ==
    \A r \in 1 .. MaxDoc : \E q \in Nat \ {0} : Scale = q * (RankConstant + r)
<1> DEFINE T == {n \in Nat : /\ Product[n] # 0
                             /\ \A r \in 1 .. n : \E q \in Nat \ {0} :
                                    Product[n] = q * (RankConstant + r)}
<1>1. RankConstant \in Nat \ {0}
  BY SearchConstantsOK DEF SearchConstantsOK
<1>2. 0 \in T
  BY ProductGrows
<1>3. ASSUME NEW n \in T PROVE n + 1 \in T
  <2> DEFINE c == RankConstant + (n + 1)
  <2>1. n \in Nat /\ n + 1 \in Nat /\ c \in Nat \ {0} /\ Product[n] \in Nat \ {0}
    BY <1>1, ProductGrows
  <2>2. Product[n + 1] = Product[n] * c
    BY <2>1, ProductGrows
  <2>3. \A a, b \in Nat \ {0} : a * b \in Nat \ {0}
    OBVIOUS
  <2>4. ASSUME NEW r \in 1 .. n + 1
        PROVE  \E q \in Nat \ {0} : Product[n + 1] = q * (RankConstant + r)
    <3>1. CASE r = n + 1
      BY <2>1, <2>2, <3>1
    <3>2. CASE r # n + 1
      <4>1. r \in 1 .. n
        BY <2>1, <3>2
      <4>2. PICK q \in Nat \ {0} : Product[n] = q * (RankConstant + r)
        BY <4>1
      <4>3. \A x, y, z \in Nat : (x * y) * z = (x * z) * y
        OBVIOUS
      <4>4. RankConstant + r \in Nat
        BY <1>1
      <4> HIDE DEF c
      <4>5. Product[n + 1] = (q * c) * (RankConstant + r)
        BY <2>1, <2>2, <4>2, <4>3, <4>4
      <4> QED BY <2>1, <2>3, <4>5
    <3> QED BY <3>1, <3>2
  <2>5. Product[n + 1] # 0
    BY <2>1, <2>2, <2>3
  <2> QED BY <2>1, <2>4, <2>5
<1>4. T \subseteq Nat
  OBVIOUS
<1> HIDE DEF T
<1>5. T = Nat
  BY <1>2, <1>3, <1>4, SetInduction
<1>6. MaxDoc \in T
  BY <1>5, DocsFinite
<1> QED BY <1>6 DEF T, Scale

\* A multiple divided by its factor.
LEMMA Divides ==
    ASSUME NEW q \in Nat, NEW c \in Nat \ {0}
    PROVE  (q * c) \div c = q
OBVIOUS

\* Of two divisors of a number the larger goes the fewer times.
LEMMA LargerDivisor ==
    ASSUME NEW p \in Nat, NEW q \in Nat, NEW b \in Nat, NEW c \in Nat, b < c, q # 0, p * b = q * c
    PROVE  p > q
<1> SUFFICES ASSUME p <= q PROVE FALSE
  OBVIOUS
<1>1. p * b <= q * b
  OBVIOUS
<1>2. q * b < q * c
  OBVIOUS
<1>3. p * b \in Nat /\ q * b \in Nat /\ q * c \in Nat
  OBVIOUS
<1> QED BY <1>1, <1>2, <1>3

\* A memory counts for something where it was found, and for more the better it
\* ranks.
LEMMA ContributionIs ==
    ASSUME NEW s \in Rankings
    PROVE  /\ \A d : Contribution(s, d) \in Nat
           /\ \A d : d \in Range(s) => Contribution(s, d) # 0
           /\ \A d : d \notin Range(s) => Contribution(s, d) = 0
           /\ \A a, b \in Range(s) :
                  Rank(s, a) < Rank(s, b) => Contribution(s, a) > Contribution(s, b)
<1>1. RankConstant \in Nat
  BY SearchConstantsOK DEF SearchConstantsOK
<1>2. ASSUME NEW d \in Range(s)
      PROVE  /\ Contribution(s, d) \in Nat \ {0}
             /\ Scale = Contribution(s, d) * (RankConstant + Rank(s, d))
             /\ Rank(s, d) \in Nat
  <2>1. Rank(s, d) \in 1 .. MaxDoc
    BY RankIs, RankingIs, DocsFinite
  <2>2. PICK q \in Nat \ {0} : Scale = q * (RankConstant + Rank(s, d))
    BY <2>1, ScaleIsMultiple
  <2>3. Rank(s, d) \in Nat /\ RankConstant + Rank(s, d) \in Nat \ {0}
    BY <1>1, <2>1, DocsFinite
  <2>4. Scale \div (RankConstant + Rank(s, d)) = q
    BY <2>2, <2>3, Divides
  <2>5. Contribution(s, d) = q
    BY <2>4 DEF Contribution
  <2> QED BY <2>2, <2>3, <2>5
<1>3. \A d : d \notin Range(s) => Contribution(s, d) = 0
  BY DEF Contribution
<1>4. ASSUME NEW a \in Range(s), NEW b \in Range(s), Rank(s, a) < Rank(s, b)
      PROVE  Contribution(s, a) > Contribution(s, b)
  <2> DEFINE p == Contribution(s, a)
             q == Contribution(s, b)
             m == RankConstant + Rank(s, a)
             n == RankConstant + Rank(s, b)
  <2>1. p \in Nat /\ q \in Nat \ {0} /\ p * m = q * n /\ Rank(s, a) \in Nat /\ Rank(s, b) \in Nat
    BY <1>2
  <2>2. m \in Nat /\ n \in Nat /\ m < n
    BY <1>1, <1>4, <2>1
  <2> HIDE DEF p, q, m, n
  <2>3. p > q
    BY <2>1, <2>2, LargerDivisor
  <2> QED BY <2>3 DEF p, q
<1> QED BY <1>2, <1>3, <1>4

\* What ranks behind another memory wherever it was found has the lower score.
LEMMA ScoreFollowsRanks ==
    ASSUME NEW f \in Rankings, NEW k \in Rankings, NEW a, NEW b \in Range(f) \cup Range(k),
           \A s \in {f, k} : b \in Range(s) => a \in Range(s) /\ Rank(s, a) < Rank(s, b)
    PROVE  Score(<<f, k>>, a) > Score(<<f, k>>, b)
<1>1. ASSUME NEW s \in {f, k}
      PROVE  /\ Contribution(s, a) \in Nat /\ Contribution(s, b) \in Nat
             /\ Contribution(s, b) <= Contribution(s, a)
             /\ b \in Range(s) => Contribution(s, b) < Contribution(s, a)
  <2>1. s \in Rankings
    OBVIOUS
  <2>2. CASE b \in Range(s)
    BY <2>1, <2>2, ContributionIs
  <2>3. CASE b \notin Range(s)
    BY <2>1, <2>3, ContributionIs
  <2> QED BY <2>2, <2>3
<1>2. /\ Score(<<f, k>>, a) = Contribution(f, a) + Contribution(k, a)
      /\ Score(<<f, k>>, b) = Contribution(f, b) + Contribution(k, b)
  BY DEF Score
<1> QED BY <1>1, <1>2

\* Fusion ranks what either list holds by the scores, and loses none while there
\* is room.
LEMMA FuseIs ==
    ASSUME NEW f \in Rankings, NEW k \in Rankings, NEW limit \in Nat,
           NEW hits, hits = Fuse(<<f, k>>, limit),
           NEW all, all = Range(f) \cup Range(k)
    PROVE  /\ hits \in Rankings
           /\ Len(hits) = IF Positive(limit) < Cardinality(all)
                          THEN Positive(limit) ELSE Cardinality(all)
           /\ Range(hits) \subseteq all
           /\ \A b \in Range(hits) : \A a \in all :
                  Score(<<f, k>>, a) > Score(<<f, k>>, b)
                      => a \in Range(hits) /\ Rank(hits, a) < Rank(hits, b)
<1> DEFINE score(d) == Score(<<f, k>>, d)
           before == {p \in all \X all : \/ score(p[1]) > score(p[2])
                                         \/ score(p[1]) = score(p[2]) /\ p[1] < p[2]}
           s == Listed(all, before)
           l == Positive(limit)
<1>1. hits = Take(s, l)
  BY DEF Fuse
<1>2. all \in SUBSET Docs /\ IsFiniteSet(all) /\ l \in Nat
  BY RankingIs, DocsFinite, FS_Subset, LimitIs
<1>3. \A d \in all : d \in Nat /\ score(d) \in Nat
  <2>1. \A d : score(d) = Contribution(f, d) + Contribution(k, d)
    BY DEF Score
  <2>2. \A d \in all : d \in Nat
    BY <1>2, DocsFinite DEF Docs
  <2> QED BY <2>1, <2>2, ContributionIs
<1> HIDE DEF score
<1>4. \A a, b \in all : <<a, b>> \in before <=>
          score(a) > score(b) \/ (score(a) = score(b) /\ a < b)
  OBVIOUS
<1> HIDE DEF before, l
<1>5. Orders(before, all)
  BY <1>3, <1>4 DEF Orders
<1>6. /\ s \in Rankings /\ Len(s) = Cardinality(all) /\ Range(s) = all
      /\ \A a, b \in all : Rank(s, a) < Rank(s, b) <=> <<a, b>> \in before
  BY <1>2, <1>5, ListedLists, ListIsRanking
<1> HIDE DEF s
<1>7. /\ hits \in Rankings
      /\ Len(hits) = IF l < Len(s) THEN l ELSE Len(s)
      /\ Range(hits) = {d \in Range(s) : Rank(s, d) <= l}
      /\ \A d \in Range(hits) : Rank(hits, d) = Rank(s, d)
  <2>1. s \in Rankings /\ l \in Nat
    BY <1>2, <1>6
  <2>2. /\ Take(s, l) \in Rankings
        /\ Len(Take(s, l)) = IF l < Len(s) THEN l ELSE Len(s)
        /\ Range(Take(s, l)) = {d \in Range(s) : Rank(s, d) <= l}
        /\ \A d \in Range(Take(s, l)) : Rank(Take(s, l), d) = Rank(s, d)
    BY <2>1, TakeIs
  <2> QED BY <1>1, <2>2
<1>8. \A d \in all : Rank(s, d) \in Nat
  BY <1>6, RankIs, RankingIs, DocsFinite
<1>9. ASSUME NEW b \in Range(hits), NEW a \in all, score(a) > score(b)
      PROVE  a \in Range(hits) /\ Rank(hits, a) < Rank(hits, b)
  <2>1. b \in all /\ Rank(s, b) <= l /\ Rank(hits, b) = Rank(s, b)
    BY <1>6, <1>7
  <2>2. Rank(s, a) < Rank(s, b)
    BY <1>4, <1>6, <1>9, <2>1
  <2>3. a \in Range(hits)
    BY <1>2, <1>6, <1>7, <1>8, <2>1, <2>2
  <2> QED BY <1>7, <2>1, <2>2, <2>3
<1> QED BY <1>6, <1>7, <1>9 DEF l, score
=============================================================================
