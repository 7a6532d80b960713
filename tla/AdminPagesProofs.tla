------------------------ MODULE AdminPagesProofs ------------------------
(***************************************************************************)
(* Theorems about AdminPages: the gradient editor, the settings, and what  *)
(* holds of every page.                                                    *)
(***************************************************************************)
EXTENDS AdminListsProofs

---------------------------------------------------------------------------
(* GradientStops.                                                          *)

LEMMA GCount == ASSUME NEW U PROVE G!Cardinality(U) = Cardinality(U)
BY Zenon DEF G!Cardinality, Cardinality

\* What comes before: the members of a finite set are numbered by how many of
\* them a strict order puts before each.
GBefore(U, R, a) == {b \in U : <<b, a>> \in R}

GOrders(R, U) ==
  /\ \A a, b \in U : a = b \/ <<a, b>> \in R \/ <<b, a>> \in R
  /\ \A a \in U : <<a, a>> \notin R
  /\ \A a, b, c \in U : <<a, b>> \in R /\ <<b, c>> \in R => <<a, c>> \in R

LEMMA GRank ==
  ASSUME NEW U, IsFiniteSet(U), NEW R, GOrders(R, U), NEW n \in Nat, n = Cardinality(U)
  PROVE  /\ \A a \in U : Cardinality(GBefore(U, R, a)) \in 0..n-1
         /\ \A a, b \in U : <<a, b>> \in R =>
              Cardinality(GBefore(U, R, a)) < Cardinality(GBefore(U, R, b))
         /\ \A k \in 0..n-1 : \E a \in U : Cardinality(GBefore(U, R, a)) = k
<1> DEFINE rank == [a \in U |-> Cardinality(GBefore(U, R, a))]
           V == 0..n-1
<1>1. ASSUME NEW a \in U PROVE IsFiniteSet(GBefore(U, R, a)) /\ rank[a] \in V
  <2>1. GBefore(U, R, a) \in SUBSET U /\ GBefore(U, R, a) # U
    BY DEF GBefore, GOrders
  <2>2. /\ IsFiniteSet(GBefore(U, R, a)) /\ Cardinality(GBefore(U, R, a)) <= n
        /\ Cardinality(GBefore(U, R, a)) # n
    BY <2>1, FS_Subset
  <2>3. Cardinality(GBefore(U, R, a)) \in Nat
    BY <2>2, FS_CardinalityType
  <2> QED BY <2>2, <2>3
<1>2. ASSUME NEW a \in U, NEW b \in U, <<a, b>> \in R PROVE rank[a] < rank[b]
  <2>1. GBefore(U, R, a) \in SUBSET GBefore(U, R, b)
    BY <1>2 DEF GBefore, GOrders
  <2>2. a \in GBefore(U, R, b) /\ a \notin GBefore(U, R, a)
    BY <1>2 DEF GBefore, GOrders
  <2>3. /\ Cardinality(GBefore(U, R, a)) <= Cardinality(GBefore(U, R, b))
        /\ Cardinality(GBefore(U, R, a)) # Cardinality(GBefore(U, R, b))
    BY <1>1, <2>1, <2>2, FS_Subset
  <2>4. rank[a] \in Int /\ rank[b] \in Int
    BY <1>1
  <2> QED BY <2>3, <2>4
<1>3. rank \in [U -> V]
  BY <1>1
<1> HIDE DEF rank
<1>4. rank \in Injection(U, V)
  <2>1. \A a, b \in U : rank[a] \in Int /\ rank[b] \in Int
    BY <1>3
  <2>2. ASSUME NEW a \in U, NEW b \in U, rank[a] = rank[b], a # b PROVE FALSE
    <3>1. <<a, b>> \in R \/ <<b, a>> \in R
      BY <2>2 DEF GOrders
    <3>2. rank[a] < rank[b] \/ rank[b] < rank[a]
      BY <1>2, <3>1
    <3> QED BY <2>1, <2>2, <3>2
  <2> QED BY <1>3, <2>2 DEF Injection, IsInjective
<1>5. IsFiniteSet(V) /\ Cardinality(V) = n
  <2>1. 0 \in Int /\ n - 1 \in Int /\ (0 > n - 1 => n = 0) /\ n - 1 - 0 + 1 = n
    OBVIOUS
  <2> QED BY <2>1, FS_Interval
<1>6. rank \in Surjection(U, V)
  <2> HIDE DEF V
  <2> QED BY <1>4, <1>5, FS_Injection
<1>7. \A k \in V : \E a \in U : rank[a] = k
  BY <1>6 DEF Surjection
<1> QED BY <1>1, <1>2, <1>7 DEF rank

---------------------------------------------------------------------------
GStop == [color : Colours \cup {White, Dark, Blank}, position : -1..Width]
GStops(n, s) == n \in Nat /\ s \in [1..n -> GStop]
GOrder(s) == \A i, j \in DOMAIN s : i <= j => s[i].position <= s[j].position

GComes(n, s) ==
  {p \in (1..n) \X (1..n) : \/ s[p[1]].position < s[p[2]].position
                            \/ s[p[1]].position = s[p[2]].position /\ p[1] < p[2]}

LEMMA GRanks ==
  ASSUME GradientAssumption, NEW n, NEW s, GStops(n, s)
  PROVE  \E rank \in [1..n -> 0..n-1] :
           /\ \A i \in 1..n : rank[i] = Cardinality(GBefore(1..n, GComes(n, s), i))
           /\ \A i, j \in 1..n : <<i, j>> \in GComes(n, s) => rank[i] < rank[j]
           /\ \A k \in 0..n-1 : \E i \in 1..n : rank[i] = k
<1>1. \A i \in 1..n : s[i].position \in Int
  BY GradientAssumption DEF GStops, GStop
<1> DEFINE R == GComes(n, s)
<1>2. \A a, b \in 1..n : <<a, b>> \in R <=>
        s[a].position < s[b].position \/ (s[a].position = s[b].position /\ a < b)
  BY DEF GComes
<1> HIDE DEF R
<1>3. GOrders(R, 1..n)
  BY <1>1, <1>2 DEF GStops, GOrders
<1>4. IsFiniteSet(1..n) /\ Cardinality(1..n) = n /\ n \in Nat
  BY FS_Interval DEF GStops
<1> HIDE DEF GStops
<1> DEFINE N == 1..n
<1>5. /\ \A i \in N : Cardinality(GBefore(N, R, i)) \in 0..n-1
      /\ \A i, j \in N : <<i, j>> \in R => Cardinality(GBefore(N, R, i)) < Cardinality(GBefore(N, R, j))
      /\ \A k \in 0..n-1 : \E i \in N : Cardinality(GBefore(N, R, i)) = k
  <2> HIDE DEF N
  <2> QED BY <1>3, <1>4, GRank DEF N
<1> DEFINE rank == [i \in N |-> Cardinality(GBefore(N, R, i))]
<1>6. rank \in [N -> 0..n-1] /\ \A i \in N : rank[i] = Cardinality(GBefore(N, R, i))
  <2> HIDE DEF N
  <2> QED BY <1>5
<1> HIDE DEF rank, N
<1>7. \A i, j \in N : <<i, j>> \in R => rank[i] < rank[j]
  BY <1>5, <1>6
<1>8. \A k \in 0..n-1 : \E i \in N : rank[i] = k
  BY <1>5, <1>6
<1> QED BY <1>6, <1>7, <1>8 DEF R, N

\* The stop at n of the sorted ones is the one that n - 1 come before.
GSorts(n, s, p) ==
  /\ \A i, j \in 1..n : p[i] = p[j] => i = j
  /\ \A i \in 1..n : \E j \in 1..n : p[j] = i
  /\ \A i, j \in 1..n : i < j => <<p[i], p[j]>> \in GComes(n, s)
  /\ \A i \in 1..n : Cardinality(GBefore(1..n, GComes(n, s), p[i])) = i - 1
  /\ G!Sorted(s) = [i \in 1..n |-> s[p[i]]]

LEMMA GSortedIs ==
  ASSUME GradientAssumption, NEW n, NEW s, GStops(n, s)
  PROVE  \E p \in [1..n -> 1..n] : GSorts(n, s, p)
<1> DEFINE R == GComes(n, s)
<1>1. n \in Nat /\ DOMAIN s = 1..n /\ \A i \in 1..n : s[i].position \in Int
  BY GradientAssumption DEF GStops, GStop
<1>2. PICK rank \in [1..n -> 0..n-1] :
        /\ \A i \in 1..n : rank[i] = Cardinality(GBefore(1..n, R, i))
        /\ \A i, j \in 1..n : <<i, j>> \in R => rank[i] < rank[j]
        /\ \A k \in 0..n-1 : \E i \in 1..n : rank[i] = k
  BY GRanks
<1>3. \A a, b \in 1..n : <<a, b>> \in R <=>
        s[a].position < s[b].position \/ (s[a].position = s[b].position /\ a < b)
  BY DEF GComes
<1> HIDE DEF R
<1> DEFINE p == [k \in 1..n |-> CHOOSE i \in 1..n : rank[i] = k - 1]
<1>4. G!Sorted(s) = [k \in 1..n |-> s[p[k]]]
  <2>1. \A i \in 1..n : rank[i] =
          G!Cardinality({j \in 1..n : \/ s[j].position < s[i].position
                                      \/ s[j].position = s[i].position /\ j < i})
    <3> TAKE i \in 1..n
    <3> DEFINE B == {j \in 1..n : \/ s[j].position < s[i].position
                                  \/ s[j].position = s[i].position /\ j < i}
    <3>1. GBefore(1..n, R, i) = B
      BY <1>3 DEF GBefore
    <3>2. rank[i] = G!Cardinality(B)
      <4> HIDE DEF B
      <4> QED BY <1>2, <3>1, GCount
    <3> QED BY <3>2
  <2>2. \A k \in 1..n : p[k] = CHOOSE i \in 1..n :
          G!Cardinality({j \in 1..n : \/ s[j].position < s[i].position
                                      \/ s[j].position = s[i].position /\ j < i}) = k - 1
    BY <2>1
  <2> HIDE DEF p
  <2>3. G!Sorted(s) = [k \in DOMAIN s |-> s[CHOOSE i \in DOMAIN s :
          G!Cardinality({j \in DOMAIN s : \/ s[j].position < s[i].position
                                          \/ s[j].position = s[i].position /\ j < i}) = k - 1]]
    BY DEF G!Sorted
  <2>4. G!Sorted(s) = [k \in 1..n |-> s[CHOOSE i \in 1..n :
          G!Cardinality({j \in 1..n : \/ s[j].position < s[i].position
                                      \/ s[j].position = s[i].position /\ j < i}) = k - 1]]
    BY Zenon, <1>1, <2>3
  <2> QED BY <2>2, <2>4
<1>5. \A k \in 1..n : p[k] \in 1..n /\ rank[p[k]] = k - 1
  <2> TAKE k \in 1..n
  <2>1. \E i \in 1..n : rank[i] = k - 1
    BY <1>1, <1>2
  <2> QED BY <2>1
<1>6. p \in [1..n -> 1..n]
  BY <1>5
<1> HIDE DEF p
<1>7. ASSUME NEW i \in 1..n, NEW j \in 1..n PROVE i = j \/ <<i, j>> \in R \/ <<j, i>> \in R
  <2>1. s[i].position \in Int /\ s[j].position \in Int /\ i \in Int /\ j \in Int
    BY <1>1
  <2> QED BY <1>3, <2>1
<1>8. ASSUME NEW i \in 1..n, NEW j \in 1..n, rank[i] = rank[j] PROVE i = j
  <2>1. rank[i] \in Int /\ rank[j] \in Int
    BY <1>1
  <2>2. <<i, j>> \notin R /\ <<j, i>> \notin R
    BY <1>2, <1>8, <2>1
  <2> QED BY <1>7, <2>2
<1>9. \A i, j \in 1..n : p[i] = p[j] => i = j
  BY <1>1, <1>5
<1>10. \A i \in 1..n : \E j \in 1..n : p[j] = i
  <2> TAKE i \in 1..n
  <2>1. rank[i] + 1 \in 1..n /\ rank[i] = (rank[i] + 1) - 1
    BY <1>1, <1>2
  <2>2. rank[p[rank[i] + 1]] = rank[i] /\ p[rank[i] + 1] \in 1..n
    BY <1>5, <2>1
  <2> QED BY <1>8, <2>1, <2>2
<1>11. \A i, j \in 1..n : i < j => <<p[i], p[j]>> \in R
  <2> SUFFICES ASSUME NEW i \in 1..n, NEW j \in 1..n, i < j PROVE <<p[i], p[j]>> \in R
    OBVIOUS
  <2>1. p[i] \in 1..n /\ p[j] \in 1..n /\ rank[p[i]] = i - 1 /\ rank[p[j]] = j - 1
    BY <1>5
  <2>2. rank[p[i]] < rank[p[j]] /\ rank[p[i]] \in Int /\ rank[p[j]] \in Int
    BY <1>1, <2>1
  <2>3. p[i] # p[j] /\ ~(rank[p[j]] < rank[p[i]])
    BY <2>2
  <2>4. <<p[j], p[i]>> \notin R
    BY <1>2, <2>1, <2>3
  <2> QED BY <1>7, <2>1, <2>3, <2>4
<1>12. \A k \in 1..n : Cardinality(GBefore(1..n, R, p[k])) = k - 1
  BY <1>2, <1>5
<1>13. GSorts(n, s, p)
  BY <1>4, <1>9, <1>10, <1>11, <1>12 DEF R, GSorts
<1> QED BY <1>6, <1>13

LEMMA GOrdered ==
  ASSUME GradientAssumption, NEW n, NEW s, GStops(n, s)
  PROVE  GStops(n, G!Sorted(s)) /\ GOrder(G!Sorted(s))
<1>0. PICK p \in [1..n -> 1..n] : GSorts(n, s, p)
  BY GSortedIs
<1>1. /\ \A i, j \in 1..n : i < j => <<p[i], p[j]>> \in GComes(n, s)
      /\ G!Sorted(s) = [k \in 1..n |-> s[p[k]]]
      /\ \A k \in 1..n : p[k] \in 1..n
  BY <1>0 DEF GSorts
<1>2. GStops(n, G!Sorted(s))
  BY <1>1 DEF GStops
<1>3. ASSUME NEW i \in 1..n, NEW j \in 1..n, i <= j
      PROVE  s[p[i]].position <= s[p[j]].position
  <2>1. n \in Nat /\ \A k \in 1..n : s[k].position \in Int
    BY GradientAssumption DEF GStops, GStop
  <2>2. i \in Int /\ j \in Int /\ p[i] \in 1..n /\ p[j] \in 1..n
    BY <1>1, <2>1
  <2>3. s[p[i]].position \in Int /\ s[p[j]].position \in Int
    BY <2>1, <2>2
  <2>4. <<p[i], p[j]>> \in GComes(n, s) => s[p[i]].position <= s[p[j]].position
    BY <2>3 DEF GComes
  <2>5. i < j => s[p[i]].position <= s[p[j]].position
    BY <1>1, <2>4
  <2> QED BY <1>3, <2>2, <2>3, <2>5
<1> QED BY <1>1, <1>2, <1>3 DEF GOrder

\* What is in order stays as it is.
LEMMA GSame ==
  ASSUME GradientAssumption, NEW n, NEW s, GStops(n, s), GOrder(s)
  PROVE  G!Sorted(s) = s
<1>0. PICK p \in [1..n -> 1..n] : GSorts(n, s, p)
  BY GSortedIs
<1>1. /\ \A k \in 1..n : Cardinality(GBefore(1..n, GComes(n, s), p[k])) = k - 1
      /\ G!Sorted(s) = [k \in 1..n |-> s[p[k]]]
      /\ \A k \in 1..n : p[k] \in 1..n
  BY <1>0 DEF GSorts
<1>2. n \in Nat /\ DOMAIN s = 1..n /\ s = [k \in 1..n |-> s[k]]
  BY DEF GStops
<1>3. ASSUME NEW i \in 1..n, NEW j \in 1..n PROVE <<i, j>> \in GComes(n, s) <=> i < j
  <2>1. s[i].position \in Int /\ s[j].position \in Int /\ i \in Int /\ j \in Int
    BY <1>2, GradientAssumption DEF GStops, GStop
  <2>2. (i <= j => s[i].position <= s[j].position) /\ (j <= i => s[j].position <= s[i].position)
    BY <1>2 DEF GOrder
  <2> QED BY <2>1, <2>2 DEF GComes
<1>4. ASSUME NEW k \in 1..n PROVE p[k] = k
  <2> DEFINE b == p[k] - 1
  <2>1. GBefore(1..n, GComes(n, s), p[k]) = 1..b /\ p[k] \in 1..n
    BY <1>2, <1>3 DEF GBefore
  <2>2. b \in Nat /\ 1 \in Int /\ b \in Int /\ (b + 1 = k => p[k] = k)
    BY <1>2, <2>1
  <2>3. Cardinality(1..b) = k - 1
    BY <1>1, <2>1
  <2> HIDE DEF b
  <2>4. Cardinality(1..b) = IF 1 > b THEN 0 ELSE b - 1 + 1
    BY <2>2, FS_Interval
  <2> QED BY <1>2, <2>2, <2>3, <2>4
<1> QED BY <1>1, <1>2, <1>4

---------------------------------------------------------------------------
\* g finds for each stop but one, k, the same in other stops, each in its own place.
GFinds(n, m, from, to, k, g) ==
  /\ \A i \in 1..n : i # k => g[i] \in 1..m /\ to[g[i]] = from[i]
  /\ \A i, j \in 1..n : i # k /\ j # k /\ g[i] = g[j] => i = j

\* Then at most one is missing.
LEMMA GMissing ==
  ASSUME NEW n, NEW m, NEW from, NEW to, GStops(n, from), GStops(m, to),
         NEW k, NEW g, GFinds(n, m, from, to, k, g)
  PROVE  G!Missing(from, to) <= 1
<1>0. n \in Nat /\ m \in Nat /\ from \in [1..n -> GStop] /\ to \in [1..m -> GStop]
  BY DEF GStops
<1> DEFINE Upto(i) == {j \in 1..i : from[j] = from[i]}
           Among(i) == {j \in 1..m : to[j] = from[i]}
           M == {i \in 1..n : Cardinality(Upto(i)) > Cardinality(Among(i))}
<1>1. ASSUME NEW i \in 1..n
      PROVE  /\ G!Count(SubSeq(from, 1, i), from[i]) = Cardinality(Upto(i))
             /\ G!Count(to, from[i]) = Cardinality(Among(i))
  <2>1. from \in Seq(GStop) /\ Len(from) = n /\ DOMAIN to = 1..m
    BY <1>0
  <2>2. DOMAIN SubSeq(from, 1, i) = 1..i /\ \A j \in 1..i : SubSeq(from, 1, i)[j] = from[j]
    BY <2>1
  <2>3. {j \in DOMAIN SubSeq(from, 1, i) : SubSeq(from, 1, i)[j] = from[i]} = Upto(i)
    BY <2>2
  <2>4. {j \in DOMAIN to : to[j] = from[i]} = Among(i)
    BY <2>1
  <2> HIDE DEF Upto, Among
  <2> QED BY <2>3, <2>4, GCount DEF G!Count
<1>2. G!Missing(from, to) = Cardinality(M)
  <2>1. DOMAIN from = 1..n
    BY <1>0
  <2>2. {i \in DOMAIN from : G!Count(SubSeq(from, 1, i), from[i]) > G!Count(to, from[i])} = M
    <3> HIDE DEF Upto, Among
    <3> QED BY <1>1, <2>1
  <2> HIDE DEF M
  <2> QED BY <2>2, GCount DEF G!Missing
<1>3. ASSUME NEW i \in 1..n
      PROVE  /\ IsFiniteSet(Upto(i)) /\ Cardinality(Upto(i)) \in Nat
             /\ IsFiniteSet(Among(i)) /\ Cardinality(Among(i)) \in Nat
  <2>1. Upto(i) \in SUBSET (1..n) /\ Among(i) \in SUBSET (1..m)
    BY <1>0
  <2>2. IsFiniteSet(1..n) /\ IsFiniteSet(1..m)
    BY <1>0, FS_Interval
  <2> HIDE DEF Upto, Among
  <2> QED BY <2>1, <2>2, FS_Subset, FS_CardinalityType
<1>4. ASSUME NEW i \in 1..n, NEW U, U = Upto(i) \ {k}
      PROVE  IsFiniteSet(U) /\ Cardinality(U) <= Cardinality(Among(i))
  <2> DEFINE K == Among(i)
             h == [j \in U |-> g[j]]
  <2>1. h \in [U -> K] /\ \A a, b \in U : h[a] = h[b] => a = b
    BY <1>0, <1>4 DEF GFinds
  <2>2. IsFiniteSet(K)
    BY <1>3
  <2> HIDE DEF h, K
  <2>3. h \in Injection(U, K)
    BY <2>1 DEF Injection, IsInjective
  <2>4. IsFiniteSet(U) /\ Cardinality(U) <= Cardinality(K)
    BY <2>2, <2>3, FS_Injection
  <2> QED BY <2>4 DEF K
<1>5. ASSUME NEW i \in M
      PROVE  k \in Upto(i) /\ Cardinality(Upto(i)) = Cardinality(Among(i)) + 1
  <2>1. i \in 1..n /\ Cardinality(Upto(i)) > Cardinality(Among(i))
    OBVIOUS
  <2> DEFINE U == Upto(i) \ {k}
  <2>2. IsFiniteSet(U) /\ Cardinality(U) <= Cardinality(Among(i))
    BY <1>4, <2>1
  <2>3. Cardinality(U) = IF k \in Upto(i) THEN Cardinality(Upto(i)) - 1 ELSE Cardinality(Upto(i))
    <3> HIDE DEF Upto
    <3> QED BY <1>3, <2>1, FS_RemoveElement
  <2>4. Cardinality(Upto(i)) \in Nat /\ Cardinality(Among(i)) \in Nat
    BY <1>3, <2>1
  <2> HIDE DEF U, M
  <2> QED
    <3> HIDE DEF Upto, Among
    <3> QED BY <2>1, <2>2, <2>3, <2>4
<1>6. ASSUME NEW i \in M, NEW j \in M, i < j PROVE FALSE
  <2>1. i \in 1..n /\ j \in 1..n
    OBVIOUS
  <2>2. from[i] = from[k] /\ from[j] = from[k]
    BY <1>5
  <2>3. Among(i) = Among(j)
    BY <2>2
  <2>4. Upto(i) \in SUBSET Upto(j) /\ j \in Upto(j) /\ j \notin Upto(i)
    BY <1>0, <1>6, <2>1, <2>2
  <2>5. Cardinality(Upto(i)) = Cardinality(Upto(j))
    <3> HIDE DEF Upto, Among, M
    <3> QED BY <1>5, <2>3
  <2> HIDE DEF Upto
  <2> QED BY <1>3, <2>1, <2>4, <2>5, FS_Subset
<1>7. M = {} \/ \E i : M = {i}
  <2>1. \A i \in M : i \in Int
    BY <1>0
  <2> HIDE DEF M
  <2>2. ASSUME NEW i \in M, NEW j \in M PROVE i = j
    <3>1. i \in Int /\ j \in Int /\ ~(i < j) /\ ~(j < i)
      BY <1>6, <2>1
    <3> QED BY <3>1
  <2>3. ASSUME NEW i \in M PROVE M = {i}
    BY <2>2
  <2> QED BY <2>3
<1>8. Cardinality(M) <= 1
  <2> HIDE DEF M
  <2>1. M = {} => Cardinality(M) = 0
    BY FS_EmptySet
  <2>2. ASSUME NEW i, M = {i} PROVE Cardinality(M) = 1
    BY <2>2, FS_Singleton
  <2> QED BY <1>7, <2>1, <2>2
<1> QED BY <1>2, <1>8

---------------------------------------------------------------------------
\* The widest gap is there: before the first of the gaps, by width, there is none.
LEMMA GWidest ==
  ASSUME GradientAssumption, NEW n, NEW s, GStops(n, s), n >= 2
  PROVE  LET Gap(i) == s[i + 1].position - s[i].position IN
         /\ G!WidestGap(s) \in 1..n-1
         /\ \A j \in 1..n-1 : Gap(G!WidestGap(s)) >= Gap(j)
<1> DEFINE U == 1..n-1
           gap == [i \in U |-> s[i + 1].position - s[i].position]
           R == {p \in U \X U : gap[p[1]] > gap[p[2]] \/ (gap[p[1]] = gap[p[2]] /\ p[1] < p[2])}
<1>1. n \in Nat /\ n - 1 \in Nat /\ n - 1 >= 1 /\ Len(s) = n /\ DOMAIN s = 1..n
  BY DEF GStops
<1>2. \A i \in U : s[i].position \in Int /\ s[i + 1].position \in Int /\ gap[i] \in Int
  <2>1. \A i \in 1..n : s[i].position \in Int
    BY GradientAssumption DEF GStops, GStop
  <2>2. \A i \in U : i \in 1..n /\ i + 1 \in 1..n
    BY <1>1
  <2> QED BY <2>1, <2>2
<1>3. \A i \in U : gap[i] = s[i + 1].position - s[i].position
  OBVIOUS
<1> HIDE DEF gap
<1>4. \A a, b \in U : <<a, b>> \in R <=> gap[a] > gap[b] \/ (gap[a] = gap[b] /\ a < b)
  OBVIOUS
<1>5. IsFiniteSet(U) /\ Cardinality(U) = n - 1 /\ \A a \in U : a \in Int
  BY <1>1, FS_Interval
<1>6. U # {}
  BY <1>1
<1> HIDE DEF U, R
<1>7. ASSUME NEW a \in U, NEW b \in U PROVE a = b \/ <<a, b>> \in R \/ <<b, a>> \in R
  BY <1>2, <1>4, <1>5
<1>8. \A a \in U : <<a, a>> \notin R
  BY <1>2, <1>4, <1>5
<1>9. GOrders(R, U)
  <2>1. ASSUME NEW a \in U, NEW b \in U, NEW c \in U, <<a, b>> \in R, <<b, c>> \in R
        PROVE  <<a, c>> \in R
    BY <1>2, <1>4, <1>5, <2>1
  <2> QED BY <1>7, <1>8, <2>1 DEF GOrders
<1>10. PICK w \in U : Cardinality(GBefore(U, R, w)) = 0
  <2>1. \A k \in 0..(n-1)-1 : \E a \in U : Cardinality(GBefore(U, R, a)) = k
    <3> DEFINE m == n - 1
    <3>1. m \in Nat /\ m = Cardinality(U)
      BY <1>1, <1>5
    <3> HIDE DEF m
    <3>2. \A k \in 0..m-1 : \E a \in U : Cardinality(GBefore(U, R, a)) = k
      BY <1>5, <1>9, <3>1, GRank
    <3> QED BY <3>2 DEF m
  <2>2. 0 \in 0..(n-1)-1
    BY <1>1
  <2> QED BY <2>1, <2>2
<1>11. GBefore(U, R, w) = {}
  <2>1. IsFiniteSet(GBefore(U, R, w))
    <3>1. GBefore(U, R, w) \in SUBSET U
      BY DEF GBefore
    <3> QED BY <1>5, <3>1, FS_Subset
  <2> QED BY <1>10, <2>1, FS_EmptySet
<1>12. \A j \in U : gap[w] > gap[j] \/ (gap[w] = gap[j] /\ w <= j)
  <2> TAKE j \in U
  <2>1. <<j, w>> \notin R
    BY <1>11 DEF GBefore
  <2> QED BY <1>2, <1>4, <1>5, <1>7, <2>1
<1>13. /\ G!WidestGap(s) \in U
       /\ \A j \in U : gap[G!WidestGap(s)] > gap[j]
                       \/ (gap[G!WidestGap(s)] = gap[j] /\ G!WidestGap(s) <= j)
  <2> DEFINE Wider(i, j) ==
        \/ s[i + 1].position - s[i].position > s[j + 1].position - s[j].position
        \/ s[i + 1].position - s[i].position = s[j + 1].position - s[j].position /\ i <= j
  <2>1. U = 1..n-1
    BY DEF U
  <2>2. G!WidestGap(s) = CHOOSE i \in U : \A j \in U : Wider(i, j)
    BY <1>1, <2>1, Zenon DEF G!WidestGap
  <2>3. \A i, j \in U : Wider(i, j) <=> gap[i] > gap[j] \/ (gap[i] = gap[j] /\ i <= j)
    BY <1>3
  <2> HIDE DEF Wider
  <2>4. w \in U /\ \A j \in U : Wider(w, j)
    BY <1>12, <2>3
  <2> DEFINE v == G!WidestGap(s)
  <2>5. v \in U /\ \A j \in U : Wider(v, j)
    BY <2>2, <2>4
  <2> HIDE DEF v
  <2>6. \A j \in U : gap[v] > gap[j] \/ (gap[v] = gap[j] /\ v <= j)
    BY <2>3, <2>5
  <2> QED BY <2>5, <2>6 DEF v
<1>14. /\ G!WidestGap(s) \in U
       /\ \A j \in U : gap[G!WidestGap(s)] > gap[j] \/ gap[G!WidestGap(s)] = gap[j]
  BY <1>13
<1>15. \A j \in U : gap[G!WidestGap(s)] >= gap[j]
  <2>1. gap[G!WidestGap(s)] \in Int /\ \A j \in U : gap[j] \in Int
    BY <1>2, <1>14
  <2> QED BY <1>14, <2>1
<1> QED BY <1>3, <1>14, <1>15 DEF U

\* In the middle of it, between others that are apart, no stop is yet.
LEMMA GMiddle ==
  ASSUME GradientAssumption, NEW n, NEW s, GStops(n, s), GOrder(s), n >= 2,
         NEW i, i = G!WidestGap(s), NEW middle,
         middle = (s[i].position + s[i + 1].position + 1) \div 2
  PROVE  /\ middle \in -1..Width
         /\ G!Apart(s) => middle \notin G!Positions(s)
<1>1. /\ i \in 1..n-1
      /\ \A j \in 1..n-1 : s[i + 1].position - s[i].position >= s[j + 1].position - s[j].position
  BY GWidest
<1>2. n \in Nat /\ Len(s) = n /\ DOMAIN s = 1..n /\ \A j \in 1..n : s[j].position \in -1..Width
  BY DEF GStops, GStop
<1>3. i \in 1..n /\ i + 1 \in 1..n /\ i <= i + 1 /\ Width \in Int
  BY <1>1, <1>2, GradientAssumption
<1> DEFINE a == s[i].position
           b == s[i + 1].position
<1>4. a \in -1..Width /\ b \in -1..Width /\ a <= b
  BY <1>2, <1>3 DEF GOrder
<1>5. middle = (a + b + 1) \div 2
  OBVIOUS
<1>6. \A j \in 1..n : s[j].position <= a \/ b <= s[j].position
  <2> TAKE j \in 1..n
  <2>1. j <= i \/ i + 1 <= j
    BY <1>2, <1>3
  <2> QED BY <1>2, <1>3, <2>1 DEF GOrder
<1>7. G!Apart(s) => b >= a + 2
  <2> HAVE G!Apart(s)
  <2>1. PICK j \in 1..n-1 : s[j + 1].position >= s[j].position + 2
    BY <1>2 DEF G!Apart
  <2>2. b - a >= s[j + 1].position - s[j].position
    BY <1>1
  <2>3. j \in 1..n /\ j + 1 \in 1..n
    BY <1>2
  <2>4. s[j].position \in -1..Width /\ s[j + 1].position \in -1..Width
    BY <1>2, <2>3
  <2> HIDE DEF a, b
  <2> QED BY <1>3, <1>4, <2>1, <2>2, <2>4
<1> HIDE DEF a, b
<1>8. middle \in -1..Width /\ (b >= a + 2 => a < middle /\ middle < b)
  BY <1>3, <1>4, <1>5
<1>9. b >= a + 2 => \A j \in 1..n : s[j].position # middle
  <2> SUFFICES ASSUME b >= a + 2, NEW j \in 1..n PROVE s[j].position # middle
    OBVIOUS
  <2>1. s[j].position \in Int /\ a \in Int /\ b \in Int /\ middle \in Int
    BY <1>2, <1>3, <1>4, <1>8
  <2> QED BY <1>6, <1>8, <2>1
<1> QED BY <1>2, <1>7, <1>8, <1>9 DEF G!Positions

---------------------------------------------------------------------------
\* The gradient is one that can be typed, in order.
GText(t) ==
  /\ t = [angle |-> t.angle, stops |-> t.stops] /\ t.angle \in G!Angles
  /\ \E n \in 0..MaxStops : GStops(n, t.stops)
GInv == ui = [text |-> ui.text] /\ GText(ui.text) /\ GOrder(ui.text.stops)

LEMMA GRows ==
  ASSUME GradientAssumption, GInv
  PROVE  /\ G!Angle \in G!Angles /\ GOrder(G!Rows)
         /\ \E n \in 2..MaxStops : GStops(n, G!Rows)
<1> DEFINE t == G!ParseGradient(ui.text)
<1>1. CASE t = G!Fallback
  <2> DEFINE u == G!Stop(Dark, 0)
             v == G!Stop(Dark, Width)
  <2>1. u \in GStop /\ v \in GStop /\ u.position <= v.position
    BY GradientAssumption DEF GStop, G!Stop
  <2>2. u.position <= u.position /\ v.position <= v.position
    BY GradientAssumption DEF G!Stop
  <2> DEFINE s == <<u, v>>
  <2>3. t.stops = s /\ t.angle = 160
    BY <1>1 DEF G!Fallback
  <2> HIDE DEF u, v, t
  <2>4. GStops(2, s)
    BY <2>1 DEF GStops
  <2>5. GOrder(s)
    BY <2>1, <2>2 DEF GOrder
  <2>6. 2 \in 2..MaxStops
    BY GradientAssumption
  <2> QED BY <2>3, <2>4, <2>5, <2>6 DEF G!Rows, G!Angle, G!Angles, t
<1>2. CASE Len(ui.text.stops) >= 2 /\ t = ui.text
  <2>1. PICK n \in 0..MaxStops : GStops(n, ui.text.stops)
    BY DEF GInv, GText
  <2>2. n >= 2
    BY <1>2, <2>1 DEF GStops
  <2>3. n \in 2..MaxStops
    BY <2>1, <2>2, GradientAssumption
  <2> QED BY <1>2, <2>1, <2>3 DEF GInv, GText, G!Rows, G!Angle
<1> QED BY <1>1, <1>2 DEF G!ParseGradient

\* What is written is in order.
LEMMA GUpdated ==
  ASSUME GradientAssumption, NEW a \in G!Angles, NEW n \in 0..MaxStops, NEW s, GStops(n, s),
         G!Update(a, s)
  PROVE  GInv' /\ ui'.text.stops = G!Sorted(s)
<1>1. ui' = [text |-> [angle |-> a, stops |-> G!Sorted(s)]]
  BY DEF G!Update, G!ComposeGradient
<1>2. GStops(n, G!Sorted(s)) /\ GOrder(G!Sorted(s))
  BY GOrdered
<1>3. GText([angle |-> a, stops |-> G!Sorted(s)])
  BY <1>2 DEF GText
<1>4. ui'.text = [angle |-> a, stops |-> G!Sorted(s)]
  BY <1>1
<1> QED BY <1>1, <1>2, <1>3, <1>4 DEF GInv

LEMMA GOneMissing ==
  ASSUME GradientAssumption, NEW n, NEW r, GStops(n, r), NEW m, NEW s, GStops(m, s),
         NEW k, NEW g, GFinds(n, m, r, s, k, g)
  PROVE  G!Missing(r, G!Sorted(s)) <= 1
<1>0. PICK p \in [1..m -> 1..m] : GSorts(m, s, p)
  BY GSortedIs
<1>1. /\ \A i, j \in 1..m : p[i] = p[j] => i = j
      /\ \A i \in 1..m : \E j \in 1..m : p[j] = i
      /\ \A i \in 1..m : p[i] \in 1..m /\ G!Sorted(s)[i] = s[p[i]]
  BY <1>0 DEF GSorts
<1> DEFINE q == [i \in 1..n |-> CHOOSE j \in 1..m : p[j] = g[i]]
           to == G!Sorted(s)
<1>2. \A i \in 1..n : i # k => q[i] \in 1..m /\ p[q[i]] = g[i]
  BY <1>1 DEF GFinds
<1>3. GStops(m, to)
  BY GOrdered
<1> HIDE DEF q, to
<1>4. \A i \in 1..n : i # k => q[i] \in 1..m /\ to[q[i]] = r[i]
  BY <1>1, <1>2 DEF GFinds, to
<1>5. \A i, j \in 1..n : i # k /\ j # k /\ q[i] = q[j] => i = j
  <2> SUFFICES ASSUME NEW i \in 1..n, NEW j \in 1..n, i # k, j # k, q[i] = q[j] PROVE i = j
    OBVIOUS
  <2> QED BY <1>2 DEF GFinds
<1>6. G!Missing(r, to) <= 1
  <2>1. GFinds(n, m, r, to, k, q)
    BY <1>4, <1>5 DEF GFinds
  <2> QED BY <1>3, <2>1, GMissing
<1> QED BY <1>6 DEF to

LEMMA GOneMore ==
  ASSUME GradientAssumption, NEW n, NEW r, GStops(n, r), NEW m, NEW s, GStops(m, s),
         NEW k \in 0..m, NEW g, GFinds(m, n, s, r, k, g)
  PROVE  G!Missing(G!Sorted(s), r) <= 1
<1>0. PICK p \in [1..m -> 1..m] : GSorts(m, s, p)
  BY GSortedIs
<1>1. /\ \A i, j \in 1..m : p[i] = p[j] => i = j
      /\ \A i \in 1..m : \E j \in 1..m : p[j] = i
      /\ \A i \in 1..m : p[i] \in 1..m /\ G!Sorted(s)[i] = s[p[i]]
  BY <1>0 DEF GSorts
<1>2. PICK l \in 0..m : \A i \in 1..m : p[i] = k => i = l
  <2>1. CASE k \in 1..m
    <3>1. PICK l \in 1..m : p[l] = k
      BY <1>1, <2>1
    <3>2. l \in 0..m /\ \A i \in 1..m : p[i] = k => i = l
      BY <1>1, <3>1
    <3> QED BY <3>2
  <2>2. CASE k \notin 1..m
    <3>1. 0 \in 0..m
      BY DEF GStops
    <3> QED BY <1>1, <2>2, <3>1
  <2> QED BY <2>1, <2>2
<1> DEFINE q == [i \in 1..m |-> g[p[i]]]
           from == G!Sorted(s)
<1>3. \A i \in 1..m : q[i] = g[p[i]] /\ p[i] \in 1..m /\ from[i] = s[p[i]]
  BY <1>1
<1>4. GStops(m, from)
  BY GOrdered
<1> HIDE DEF q, from
<1>5. \A i \in 1..m : i # l => q[i] \in 1..n /\ r[q[i]] = from[i]
  BY <1>2, <1>3 DEF GFinds
<1>6. \A i, j \in 1..m : i # l /\ j # l /\ q[i] = q[j] => i = j
  <2> SUFFICES ASSUME NEW i \in 1..m, NEW j \in 1..m, i # l, j # l, q[i] = q[j] PROVE i = j
    OBVIOUS
  <2>1. p[i] # k /\ p[j] # k /\ g[p[i]] = g[p[j]] /\ p[i] \in 1..m /\ p[j] \in 1..m
    BY <1>2, <1>3
  <2>2. p[i] = p[j]
    BY <2>1 DEF GFinds
  <2> QED BY <1>1, <2>2
<1>7. G!Missing(from, r) <= 1
  <2>1. GFinds(m, n, from, r, l, q)
    BY <1>5, <1>6 DEF GFinds
  <2> QED BY <1>4, <2>1, GMissing
<1> QED BY <1>7 DEF from

---------------------------------------------------------------------------
\* An edit writes the stops s for the stops r.  Each of them but one is found
\* in the others, and the other way round.
GEdit(n, r, m, s) ==
  /\ \E k, g : GFinds(n, m, r, s, k, g)
  /\ \E k, g : k \in 0..m /\ GFinds(m, n, s, r, k, g)

LEMMA GSet ==
  ASSUME NEW n \in Nat, NEW r, GStops(n, r), NEW s, GStops(n, s),
         NEW k \in 0..n, \A i \in 1..n : i # k => s[i] = r[i]
  PROVE  GEdit(n, r, n, s)
<1> DEFINE g == [i \in 1..n |-> i]
<1>1. \A i \in 1..n : g[i] = i
  OBVIOUS
<1> HIDE DEF g
<1>2. GFinds(n, n, r, s, k, g) /\ GFinds(n, n, s, r, k, g)
  BY <1>1 DEF GFinds
<1> QED BY <1>2 DEF GEdit

LEMMA GAdded ==
  ASSUME NEW n \in Nat, NEW r, GStops(n, r), NEW x \in GStop
  PROVE  /\ GStops(n + 1, Append(r, x)) /\ GEdit(n, r, n + 1, Append(r, x))
         /\ Append(r, x)[n + 1] = x
<1> DEFINE s == Append(r, x)
           m == n + 1
<1>1. r \in Seq(GStop) /\ Len(r) = n
  BY DEF GStops
<1>2. s \in Seq(GStop) /\ Len(s) = m /\ s[m] = x /\ \A i \in 1..n : s[i] = r[i]
  BY <1>1
<1>3. m \in Nat /\ m \in 0..m /\ \A i \in 1..m : i # m => i \in 1..n
  OBVIOUS
<1>4. \A i \in 1..n : i \in 1..m
  OBVIOUS
<1>5. s \in [1..m -> GStop]
  <2> HIDE DEF s, m
  <2> QED BY <1>2
<1> HIDE DEF s
<1> DEFINE g == [i \in 1..m |-> i]
<1>6. \A i \in 1..m : g[i] = i
  OBVIOUS
<1> HIDE DEF g, m
<1>7. GFinds(n, m, r, s, 0, g)
  BY <1>2, <1>4, <1>6 DEF GFinds
<1>8. GFinds(m, n, s, r, m, g)
  BY <1>2, <1>3, <1>6 DEF GFinds
<1>9. GStops(m, s) /\ GEdit(n, r, m, s)
  BY <1>3, <1>5, <1>7, <1>8 DEF GStops, GEdit
<1> QED BY <1>2, <1>9 DEF s, m

LEMMA GSeq == ASSUME NEW s \in Seq(GStop), NEW n, Len(s) = n PROVE s \in [1..n -> GStop]
OBVIOUS

LEMMA GJoin ==
  ASSUME NEW a \in Seq(GStop), NEW b \in Seq(GStop)
  PROVE  a \o b \in Seq(GStop) /\ Len(a \o b) = Len(a) + Len(b)
OBVIOUS

LEMMA GJoined ==
  ASSUME NEW a \in Seq(GStop), NEW b \in Seq(GStop), NEW j \in 1..Len(a) + Len(b)
  PROVE  (a \o b)[j] = IF j <= Len(a) THEN a[j] ELSE b[j - Len(a)]
OBVIOUS

LEMMA GRemoved ==
  ASSUME NEW n \in Nat, NEW r, GStops(n, r), NEW i \in 1..n,
         NEW s, s = SubSeq(r, 1, i - 1) \o SubSeq(r, i + 1, Len(r))
  PROVE  GStops(n - 1, s) /\ GEdit(n, r, n - 1, s)
<1> DEFINE m == n - 1
           a == SubSeq(r, 1, i - 1)
           b == SubSeq(r, i + 1, n)
<1>1. r \in Seq(GStop) /\ Len(r) = n /\ m \in Nat /\ i \in Nat
  BY DEF GStops
<1>2. a \in Seq(GStop) /\ Len(a) = i - 1 /\ \A j \in 1..i - 1 : a[j] = r[j]
  BY <1>1
<1>3. b \in Seq(GStop) /\ Len(b) = n - i /\ \A j \in 1..n - i : b[j] = r[i + j]
  BY <1>1
<1>4. s = a \o b
  BY <1>1
<1> HIDE DEF a, b
<1>5. s \in Seq(GStop) /\ Len(s) = m
  <2>1. s \in Seq(GStop) /\ Len(s) = Len(a) + Len(b)
    BY <1>2, <1>3, <1>4, GJoin
  <2> QED BY <1>1, <1>2, <1>3, <2>1
<1>6. ASSUME NEW j \in 1..m PROVE s[j] = IF j < i THEN r[j] ELSE r[j + 1]
  <2>0. s[j] = IF j <= Len(a) THEN a[j] ELSE b[j - Len(a)]
    <3>1. j \in 1..Len(a) + Len(b)
      BY <1>1, <1>2, <1>3
    <3>2. (a \o b)[j] = IF j <= Len(a) THEN a[j] ELSE b[j - Len(a)]
      BY <1>2, <1>3, <3>1, GJoined
    <3> QED BY <1>4, <3>2
  <2>1. CASE j < i
    <3>1. j \in 1..i - 1 /\ j <= Len(a)
      BY <1>1, <1>2, <2>1
    <3> QED BY <1>2, <2>0, <2>1, <3>1
  <2>2. CASE ~(j < i)
    <3>1. j - Len(a) \in 1..n - i /\ ~(j <= Len(a)) /\ i + (j - Len(a)) = j + 1
      BY <1>1, <1>2, <1>3, <2>2
    <3>2. b[j - Len(a)] = r[j + 1]
      BY <1>3, <3>1
    <3> QED BY <2>0, <2>2, <3>1, <3>2
  <2> QED BY <2>1, <2>2
<1>7. s \in [1..m -> GStop]
  <2> HIDE DEF m
  <2> QED BY <1>5, GSeq
<1> DEFINE g == [j \in 1..n |-> IF j < i THEN j ELSE j - 1]
           h == [j \in 1..m |-> IF j < i THEN j ELSE j + 1]
<1>8. GFinds(n, m, r, s, i, g)
  <2>1. ASSUME NEW j \in 1..n, j # i PROVE g[j] \in 1..m /\ s[g[j]] = r[j]
    <3>1. CASE j < i
      <4>1. g[j] = j /\ j \in 1..m
        BY <1>1, <3>1
      <4> HIDE DEF g, m
      <4> QED BY <1>6, <3>1, <4>1
    <3>2. CASE ~(j < i)
      <4>1. g[j] = j - 1 /\ j - 1 \in 1..m /\ ~(j - 1 < i) /\ (j - 1) + 1 = j
        BY <1>1, <2>1, <3>2
      <4> HIDE DEF g, m
      <4> QED BY <1>6, <4>1
    <3> QED BY <3>1, <3>2
  <2>2. \A j, l \in 1..n : j # i /\ l # i /\ g[j] = g[l] => j = l
    BY <1>1
  <2> HIDE DEF g, m
  <2> QED BY <2>1, <2>2 DEF GFinds
<1>9. GFinds(m, n, s, r, 0, h)
  <2>1. \A j \in 1..m : h[j] \in 1..n /\ s[j] = r[h[j]]
    <3> TAKE j \in 1..m
    <3>1. /\ h[j] = IF j < i THEN j ELSE j + 1
          /\ j \in 1..n /\ j + 1 \in 1..n
      BY <1>1
    <3> HIDE DEF h
    <3> QED BY <1>6, <3>1
  <2>2. \A j, l \in 1..m : h[j] = h[l] => j = l
    BY <1>1
  <2> HIDE DEF h, m
  <2> QED BY <2>1, <2>2 DEF GFinds
<1>10. 0 \in 0..m
  BY <1>1
<1> HIDE DEF g, h, m
<1>11. GStops(m, s) /\ GEdit(n, r, m, s)
  BY <1>1, <1>7, <1>8, <1>9, <1>10 DEF GStops, GEdit
<1> QED BY <1>11 DEF m

---------------------------------------------------------------------------
\* A step of the editor: from n stops to m, of which one may be new.
GStep(n, m, s) ==
  /\ GStops(n, G!Rows) /\ GStops(m, s) /\ GEdit(n, G!Rows, m, s)
  /\ \E a \in G!Angles : G!Update(a, s)
  /\ m > n /\ G!Apart(G!Rows) => \E i \in 1..m : s[i].position \notin G!Positions(G!Rows)

LEMMA GSteps ==
  ASSUME GradientAssumption, GInv, G!Next
  PROVE  \E n, m \in 2..MaxStops : \E s : GStep(n, m, s)
<1>1. PICK n \in 2..MaxStops : GStops(n, G!Rows)
  BY GRows
<1>2. n \in Nat /\ n >= 2 /\ MaxStops \in Nat /\ DOMAIN G!Rows = 1..n /\ Len(G!Rows) = n
  BY <1>1, GradientAssumption DEF GStops
<1>3. G!Angle \in G!Angles /\ GOrder(G!Rows)
  BY GRows
<1>4. ASSUME NEW a \in G!Angles, G!SetAngle(a) PROVE GStep(n, n, G!Rows)
  <2>1. GEdit(n, G!Rows, n, G!Rows)
    <3>1. 0 \in 0..n
      BY <1>2
    <3> QED BY <1>1, <1>2, <3>1, GSet
  <2>2. G!Update(a, G!Rows)
    BY <1>4 DEF G!SetAngle
  <2> QED BY <1>1, <1>2, <2>1, <2>2 DEF GStep
<1>5. ASSUME NEW i \in DOMAIN G!Rows, NEW x \in GStop, G!UpdateStop(i, x)
      PROVE  GStep(n, n, [G!Rows EXCEPT ![i] = x])
  <2> DEFINE s == [G!Rows EXCEPT ![i] = x]
  <2>1. GStops(n, s) /\ i \in 0..n /\ \A j \in 1..n : j # i => s[j] = G!Rows[j]
    BY <1>1, <1>2 DEF GStops
  <2>2. G!Update(G!Angle, s)
    BY <1>5 DEF G!UpdateStop
  <2> HIDE DEF s
  <2>3. GEdit(n, G!Rows, n, s)
    BY <1>1, <1>2, <2>1, GSet
  <2>4. GStep(n, n, s)
    BY <1>1, <1>2, <1>3, <2>1, <2>2, <2>3 DEF GStep
  <2> QED BY <2>4 DEF s
<1>6. ASSUME G!AddStop
      PROVE  \E x : n + 1 \in 2..MaxStops /\ GStep(n, n + 1, Append(G!Rows, x))
  <2> DEFINE i == G!WidestGap(G!Rows)
             middle == (G!Rows[i].position + G!Rows[i + 1].position + 1) \div 2
             x == G!Stop(White, middle)
             s == Append(G!Rows, x)
  <2>1. G!Sorted(G!Rows) = G!Rows
    BY <1>1, <1>3, GSame
  <2>2. n + 1 \in 2..MaxStops
    BY <1>2, <1>6 DEF G!AddStop
  <2>3. G!Update(G!Angle, s)
    BY Zenon, <1>6, <2>1 DEF G!AddStop
  <2>4. middle \in -1..Width /\ (G!Apart(G!Rows) => middle \notin G!Positions(G!Rows))
    BY <1>1, <1>2, <1>3, GMiddle
  <2> HIDE DEF middle
  <2>5. x \in GStop /\ x.position = middle
    BY <2>4 DEF GStop, G!Stop
  <2> HIDE DEF x
  <2>6. GStops(n + 1, s) /\ GEdit(n, G!Rows, n + 1, s) /\ s[n + 1] = x
    BY <1>1, <1>2, <2>5, GAdded
  <2> HIDE DEF s
  <2>7. GStep(n, n + 1, s)
    <3>1. n + 1 \in 1..n + 1
      BY <1>2
    <3> QED BY <1>1, <1>3, <2>3, <2>4, <2>5, <2>6, <3>1 DEF GStep
  <2> QED BY <2>2, <2>7 DEF s
<1>7. ASSUME NEW i \in DOMAIN G!Rows, G!RemoveStop(i)
      PROVE  n - 1 \in 2..MaxStops /\ \E s : GStep(n, n - 1, s)
  <2> DEFINE s == SubSeq(G!Rows, 1, i - 1) \o SubSeq(G!Rows, i + 1, Len(G!Rows))
  <2>1. G!Update(G!Angle, s) /\ n > 2
    BY <1>2, <1>7 DEF G!RemoveStop
  <2> HIDE DEF s
  <2>2. GStops(n - 1, s) /\ GEdit(n, G!Rows, n - 1, s)
    BY <1>1, <1>2, GRemoved DEF s
  <2>3. n - 1 \in 2..MaxStops /\ ~(n - 1 > n)
    BY <1>2, <2>1
  <2> QED BY <1>1, <1>3, <2>1, <2>2, <2>3 DEF GStep
<1>8. ASSUME NEW i \in DOMAIN G!Rows PROVE G!Rows[i] \in GStop
  BY <1>1, <1>2 DEF GStops
<1>9. ASSUME NEW i \in DOMAIN G!Rows, NEW p \in G!Position
      PROVE  [G!Rows[i] EXCEPT !.position = p] \in GStop
  BY <1>8 DEF GStop, G!Position
<1>10. ASSUME NEW i \in DOMAIN G!Rows, NEW c \in Colours \cup {Blank}
       PROVE  [G!Rows[i] EXCEPT !.color = c] \in GStop
  BY <1>8 DEF GStop
<1>11. CASE \E a \in G!Angles : G!SetAngle(a)
  BY <1>1, <1>4, <1>11
<1>12. CASE \E i \in DOMAIN G!Rows : G!RemoveStop(i)
  BY <1>1, <1>7, <1>12
<1>13. CASE \E i \in DOMAIN G!Rows, p \in G!Position :
              G!UpdateStop(i, [G!Rows[i] EXCEPT !.position = p])
  BY Zenon, <1>1, <1>5, <1>9, <1>13
<1>14. CASE \E i \in DOMAIN G!Rows, c \in Colours \cup {Blank} :
              G!UpdateStop(i, [G!Rows[i] EXCEPT !.color = c])
  BY Zenon, <1>1, <1>5, <1>10, <1>14
<1>15. CASE G!AddStop
  BY <1>1, <1>6, <1>15
<1> QED BY Zenon, <1>11, <1>12, <1>13, <1>14, <1>15 DEF G!Next

LEMMA GKeeps ==
  ASSUME GradientAssumption, GInv, NEW n \in 2..MaxStops, NEW m \in 2..MaxStops, NEW s, GStep(n, m, s)
  PROVE  GInv' /\ G!OneStopChanges
<1>1. PICK a \in G!Angles : G!Update(a, s)
  BY DEF GStep
<1>2. GStops(n, G!Rows) /\ GStops(m, s) /\ m \in 0..MaxStops /\ m >= 2
  BY GradientAssumption DEF GStep
<1>3. GInv' /\ ui'.text.stops = G!Sorted(s)
  BY <1>1, <1>2, GUpdated
<1> DEFINE after == G!Sorted(s)
<1>4. GStops(m, after)
  BY <1>2, GOrdered
<1>5. (\A i \in DOMAIN ui.text'.stops : G!Readable(ui.text'.stops[i])) => G!Rows' = after
  <2> HIDE DEF after
  <2>1. Len(after) = m
    BY <1>4 DEF GStops
  <2> SUFFICES ASSUME \A i \in DOMAIN ui'.text.stops : G!Readable(ui'.text.stops[i])
               PROVE  G!Rows' = after
    OBVIOUS
  <2>2. ui'.text.stops = after
    BY <1>3 DEF after
  <2>3. G!ParseGradient(ui'.text) = ui'.text
    BY <1>2, <2>1, <2>2 DEF G!ParseGradient
  <2> QED BY <2>2, <2>3 DEF G!Rows
<1>6. G!Missing(G!Rows, after) <= 1 /\ G!Missing(after, G!Rows) <= 1
  <2>1. PICK k, g : GFinds(n, m, G!Rows, s, k, g)
    BY DEF GStep, GEdit
  <2>2. PICK l, h : l \in 0..m /\ GFinds(m, n, s, G!Rows, l, h)
    BY DEF GStep, GEdit
  <2> QED BY <1>2, <2>1, <2>2, GOneMissing, GOneMore
<1>7. Len(after) > Len(G!Rows) /\ G!Apart(G!Rows) => G!Positions(after) # G!Positions(G!Rows)
  <2>1. Len(after) = m /\ Len(G!Rows) = n /\ DOMAIN after = 1..m
    <3> HIDE DEF after
    <3> QED BY <1>2, <1>4 DEF GStops
  <2> SUFFICES ASSUME m > n, G!Apart(G!Rows) PROVE G!Positions(after) # G!Positions(G!Rows)
    BY <2>1
  <2>2. PICK i \in 1..m : s[i].position \notin G!Positions(G!Rows)
    BY DEF GStep
  <2>3. PICK p \in [1..m -> 1..m] : GSorts(m, s, p)
    BY <1>2, GSortedIs
  <2>4. PICK j \in 1..m : p[j] = i
    BY <2>3 DEF GSorts
  <2>5. after[j] = s[i]
    BY <2>3, <2>4 DEF GSorts
  <2> HIDE DEF after
  <2>6. s[i].position \in G!Positions(after)
    BY <2>1, <2>5 DEF G!Positions
  <2> QED BY <2>2, <2>6
<1> HIDE DEF after
<1> QED BY <1>3, <1>5, <1>6, <1>7 DEF G!OneStopChanges

LEMMA GStays ==
  ASSUME GradientAssumption, GInv, UNCHANGED vars
  PROVE  GInv' /\ G!OneStopChanges
<1>1. PICK n \in 2..MaxStops : GStops(n, G!Rows)
  BY GRows
<1>2. n \in Nat /\ 0 \in 0..n /\ Len(G!Rows) \in Int
  BY <1>1, GradientAssumption DEF GStops
<1>3. GEdit(n, G!Rows, n, G!Rows)
  BY <1>1, <1>2, GSet
<1>4. PICK k, g : GFinds(n, n, G!Rows, G!Rows, k, g)
  BY <1>3 DEF GEdit
<1>5. G!Missing(G!Rows, G!Rows) <= 1
  BY <1>1, <1>4, GMissing
<1>6. G!Rows' = G!Rows /\ GInv'
  BY DEF vars, GInv, G!Rows
<1>7. ~(Len(G!Rows) > Len(G!Rows))
  BY <1>2
<1> QED BY <1>5, <1>6, <1>7 DEF G!OneStopChanges

LEMMA GInitInv == ASSUME GradientAssumption, G!Init PROVE GInv
<1>1. PICK c \in Colours, d \in Colours, angle \in G!Angles :
        \/ ui = [text |-> [angle |-> angle, stops |-> <<G!Stop(c, 0), G!Stop(d, Width)>>]]
        \/ ui = [text |-> [angle |-> angle, stops |-> <<>>]]
  BY DEF G!Init
<1> DEFINE u == G!Stop(c, 0)
           v == G!Stop(d, Width)
           s == <<u, v>>
<1>2. u \in GStop /\ v \in GStop
  BY GradientAssumption DEF GStop, G!Stop
<1>3. u.position <= u.position /\ u.position <= v.position /\ v.position <= v.position
  BY GradientAssumption DEF G!Stop
<1>4. CASE ui = [text |-> [angle |-> angle, stops |-> s]]
  <2> HIDE DEF u, v
  <2>1. GStops(2, s) /\ GOrder(s)
    BY <1>2, <1>3 DEF GStops, GOrder
  <2>2. 2 \in 0..MaxStops
    BY GradientAssumption
  <2> HIDE DEF s
  <2> QED BY <1>4, <2>1, <2>2 DEF GInv, GText
<1>5. CASE ui = [text |-> [angle |-> angle, stops |-> <<>>]]
  <2>1. GStops(0, <<>>) /\ GOrder(<<>>) /\ 0 \in 0..MaxStops
    BY GradientAssumption DEF GStops, GOrder
  <2> QED BY <1>5, <2>1 DEF GInv, GText
<1> QED BY <1>1, <1>4, <1>5

LEMMA GInductive ==
  ASSUME GradientAssumption, GInv, [G!Next]_vars
  PROVE  GInv' /\ G!OneStopChanges
<1>1. CASE G!Next
  BY <1>1, GSteps, GKeeps
<1>2. CASE UNCHANGED vars
  BY <1>2, GStays
<1> QED BY <1>1, <1>2

LEMMA GTyped == GradientAssumption /\ GInv => G!TypeOK
<1> SUFFICES ASSUME GradientAssumption, GInv PROVE G!TypeOK
  OBVIOUS
<1>1. PICK n \in 0..MaxStops : GStops(n, ui.text.stops)
  BY DEF GInv, GText
<1>2. DOMAIN ui.text.stops = 1..n /\ Len(ui.text.stops) = n
      /\ \A i \in 1..n : ui.text.stops[i] \in GStop
  BY <1>1 DEF GStops
<1> QED BY <1>2 DEF GInv, GText, GStop, G!TypeOK, G!Position

\* The gradient's stops are in order and can be typed (GradientStops).
THEOREM GradientCorrect == Spec => [](page = "gradient" => GInv)
<1>1. Init => (page = "gradient" => GInv)
  BY GInitInv, GradientAssumption DEF Init
<1>2. (page = "gradient" => GInv) /\ [Next]_all => (page = "gradient" => GInv)'
  BY GInductive, GradientAssumption DEF Next, all
<1> QED BY <1>1, <1>2, PTL DEF Spec

\* An edit of a gradient changes, adds or removes one stop and keeps the others,
\* and puts an added one where there is room for it (GradientStops).
THEOREM StopsKept == Spec => [][page = "gradient" => G!OneStopChanges]_all
<1>1. (page = "gradient" => GInv) /\ [Next]_all => [page = "gradient" => G!OneStopChanges]_all
  BY GInductive, GradientAssumption DEF Next, all
<1> QED BY <1>1, GradientCorrect, PTL DEF Spec

SSlots == {"general", "section"}
SForm == [shown : S!Fields \cup {None}, has : BOOLEAN, status : S!Status, fresh : BOOLEAN]
SFactor == [enabled : BOOLEAN \cup {None}, step : {"status", "enroll", "disable", "regenerate"},
            codes : S!Keys, secret : S!Keys, loaded : BOOLEAN, error : BOOLEAN,
            busy : BOOLEAN, checking : BOOLEAN]
SStored == [kept : [S!Forms -> S!Fields], people : SUBSET People, on : SUBSET Events,
            secret : S!Keys, enabled : BOOLEAN, batch : S!Keys, made : S!Keys]

SLoads == {"load", "users", "prefs", "totp"}
SKinds == SLoads \cup S!Changes
SThens == {"add", "remove", "confirm", "disable"}
SArgs == {None} \cup S!Forms \cup [of : S!Forms, fields : S!Fields] \cup S!Tabs
           \cup People \cup (SUBSET Events) \cup S!Keys \cup BOOLEAN
SData == {None} \cup S!Fields \cup (SUBSET People) \cup (SUBSET Events) \cup BOOLEAN \cup S!Keys
SRequests == [kind : SKinds, for : S!Tabs \cup {None}, arg : SArgs, then : {None} \cup SThens,
              at : Ats, data : SData]

\* What is asked of each section, and answered.
SCall(c) ==
  /\ c \in SRequests
  /\ c.kind = "load" => c.arg \in S!Forms /\ c.for \in {None, c.arg} /\ (c.at = "ok" => c.data \in S!Fields)
  /\ c.kind = "save" => c.arg \in [of : S!Forms, fields : S!Fields] /\ c.for \in {None, c.arg.of}
  /\ c.kind \in {"users", "add", "remove"} => c.for \in {None, "users"}
  /\ c.kind = "users" /\ c.at = "ok" => c.data \in SUBSET People
  /\ c.kind \in {"add", "remove"} => c.arg \in People
  /\ c.kind \in {"prefs", "setprefs"} => c.for \in {None, "notifications"}
  /\ c.kind = "prefs" /\ c.at = "ok" => c.data \in SUBSET Events
  /\ c.kind = "setprefs" => c.arg \in SUBSET Events
  /\ c.kind \in {"totp", "enroll"} \cup S!OfCodes => c.for \in {None, "twofactor"}
  /\ c.kind = "totp" => c.then \in {None, "confirm", "disable"}
  /\ c.kind = "totp" /\ c.at = "ok" => c.data \in BOOLEAN
  /\ c.kind \in {"enroll", "confirm", "regenerate"} /\ c.at = "ok" => c.data \in S!Keys
  /\ c.kind = "confirm" => c.arg \in S!Keys
  /\ c.kind \in {"disable", "regenerate"} => c.arg \in BOOLEAN

SBusy(x, kinds) == call[x] # NoCall /\ call[x].kind \in kinds
SLive(x, kinds) == SBusy(x, kinds) /\ call[x].for # None

SCalls == DOMAIN call = Calls /\ \A x \in Calls : call[x] # NoCall => SCall(call[x])
SPast == past \in [twin : BOOLEAN, torn : BOOLEAN, unread : BOOLEAN]
SType ==
  /\ tab \in S!Tabs /\ edits \in 0..MaxEdits /\ SPast
  /\ forms \in [SSlots -> SForm]
  /\ list \in [names : (SUBSET People) \cup {None}, status : S!Status]
  /\ prefs \in [on : (SUBSET Events) \cup {None}, status : S!Status]
  /\ fa \in SFactor /\ db \in SStored /\ SCalls

SHere == \A x \in Calls : SLive(x, SKinds) => call[x].for \in {"general", tab}
SOnly ==
  /\ ~past.twin =>
       /\ \A x, y \in Calls : SBusy(x, S!Changes) /\ SBusy(y, S!Changes) => x = y
       /\ \A x \in Calls : SBusy(x, S!Changes) => call[x].for # None
  /\ ~past.torn => \A x \in Calls : SBusy(x, SKinds) => call[x].at \in {"sent", "ok"}

SConfirming(x) == SLive(x, {"confirm"}) \/ (SLive(x, {"totp"}) /\ call[x].then = "confirm")
SChecking(x) ==
  SLive(x, {"disable", "regenerate"}) \/ (SLive(x, {"totp"}) /\ call[x].then = "disable")
SMounting(x) == SLive(x, {"totp"}) /\ call[x].then = None

SSteps ==
  /\ \A x \in Calls : SConfirming(x) => fa.busy /\ fa.enabled = FALSE
  /\ \A x \in Calls : SChecking(x) => fa.checking /\ fa.enabled = TRUE
  /\ \A x \in Calls : SMounting(x) => fa.enabled = None
  /\ \A x, y \in Calls :
       \/ SConfirming(x) /\ SConfirming(y)
       \/ SChecking(x) /\ SChecking(y)
       \/ SMounting(x) /\ SMounting(y)
       => x = y
  /\ fa.step = "enroll" => fa.enabled = FALSE
  /\ fa.step \in {"disable", "regenerate"} => fa.enabled = TRUE
  /\ fa.codes # 0 => fa.step \notin {"disable", "regenerate"} /\ \A x \in Calls : ~SChecking(x)
SCodes ==
  ~past.unread =>
    /\ \A x \in Calls : SBusy(x, S!OfCodes) => call[x].for # None
    /\ \A x \in Calls : SBusy(x, {"confirm", "regenerate"}) /\ call[x].at = "ok" =>
         db.enabled /\ call[x].data = db.batch
    /\ fa.codes # 0 /\ (\A x \in Calls : ~(SBusy(x, {"confirm"}) /\ call[x].at = "ok")) =>
         db.enabled /\ fa.codes = db.batch
SKey ==
  ~past.twin =>
    /\ \A x \in Calls : SBusy(x, {"enroll"}) =>
         /\ ~fa.loaded
         /\ call[x].at = "ok" => call[x].data = db.secret
         /\ call[x].at = "refused" => db.enabled
    /\ \A x \in Calls : SBusy(x, {"confirm"}) /\ call[x].at = "sent" => call[x].arg \in {0, fa.secret}
    /\ fa.secret # 0 /\ (db.enabled \/ (fa.step = "enroll" /\ fa.loaded)) => fa.secret = db.secret
SEnabled ==
  ~past.twin /\ ~past.torn =>
    /\ \A x \in Calls : SLive(x, {"totp"}) /\ call[x].at = "ok" => call[x].data = db.enabled
    /\ (\A x \in Calls : /\ ~(SBusy(x, {"confirm", "disable"}) /\ call[x].at = "ok")
                         /\ ~(SLive(x, {"totp"}) /\ call[x].then # None)) =>
         fa.enabled \in {None, db.enabled}
SUsers ==
  ~past.twin =>
    /\ \A x, y \in Calls : ~(SBusy(x, {"users"}) /\ SBusy(y, {"add", "remove"}))
    /\ \A x \in Calls : SBusy(x, {"users"}) /\ call[x].at = "ok" => call[x].data = db.people
    /\ ~past.torn /\ (\A x \in Calls : /\ ~(SBusy(x, {"add", "remove"}) /\ call[x].at = "ok")
                                       /\ ~SLive(x, {"users"})) =>
         list.names \in {None, db.people}
SPrefs ==
  /\ \A x \in Calls : SLive(x, {"prefs"}) => prefs.on = None
  /\ \A x, y \in Calls : SLive(x, {"prefs"}) /\ SLive(y, {"prefs", "setprefs"}) => x = y
  /\ ~past.twin =>
       /\ \A x \in Calls : SLive(x, {"prefs"}) /\ call[x].at = "ok" => call[x].data = db.on
       /\ \A x \in Calls : SBusy(x, {"setprefs"}) /\ call[x].at = "sent" => call[x].arg = prefs.on
       /\ ~past.torn /\ (\A x \in Calls : ~(SBusy(x, {"setprefs"}) /\ call[x].at = "sent")) =>
            prefs.on \in {None, db.on}
SOwn == {"general"} \cup ({tab} \cap S!Forms)
SSecrets ==
  /\ \A x \in Calls :
       \/ SBusy(x, {"load"}) /\ call[x].at = "ok" /\ call[x].data.secret # None
       \/ SBusy(x, {"save"}) /\ call[x].at = "ok" /\ call[x].arg.fields.secret # None
       => db.kept[IF call[x].kind = "load" THEN call[x].arg ELSE call[x].arg.of].secret # None
  /\ \A t \in SOwn : forms[S!Slot(t)].has => db.kept[t].secret # None
  /\ \A x \in Calls : SLive(x, {"save"}) => forms[S!Slot(call[x].for)].shown \in S!Fields
SSaved ==
  ~past.twin /\ ~past.torn =>
    /\ \A x \in Calls : SBusy(x, {"save"}) =>
         LET f == forms[S!Slot(call[x].for)] IN
           /\ f.status # "saved"
           /\ f.fresh => f.shown.plain = call[x].arg.fields.plain
           /\ call[x].at = "ok" => db.kept[call[x].for].plain = call[x].arg.fields.plain
    /\ \A t \in SOwn : LET f == forms[S!Slot(t)] IN
         f.status = "saved" /\ f.fresh => db.kept[t].plain = f.shown.plain

SInv == SType /\ SHere /\ SOnly /\ SSteps /\ SCodes /\ SKey /\ SEnabled /\ SUsers /\ SPrefs /\ SSecrets /\ SSaved

SFormKinds == {"load", "save"}
SUserKinds == {"users", "add", "remove"}
SPrefKinds == {"prefs", "setprefs"}
SFactorKinds == {"totp", "enroll", "confirm", "disable", "regenerate"}

SGeneral == SType /\ SHere /\ SOnly
SFactors == SSteps /\ SCodes /\ SKey /\ SEnabled
SFormsOK == SSecrets /\ SSaved

\* What a step leaves alone.
SFrame(kinds) ==
  \A y \in Calls :
    \/ call'[y] = call[y]
    \/ ~SBusy(y, kinds) /\ ~(call'[y] # NoCall /\ call'[y].kind \in kinds)
SAges ==
  (~past'.twin => ~past.twin) /\ (~past'.torn => ~past.torn) /\ (~past'.unread => ~past.unread)


\* A request is no free slot, and has its fields.
LEMMA SRequestIs ==
  ASSUME NEW c \in SRequests
  PROVE  /\ c # NoCall /\ c.kind \in SKinds /\ c.for \in S!Tabs \cup {None} /\ c.arg \in SArgs
         /\ c.then \in {None} \cup SThens /\ c.at \in Ats /\ c.data \in SData
         /\ c = [kind |-> c.kind, for |-> c.for, arg |-> c.arg, then |-> c.then,
                 at |-> c.at, data |-> c.data]
<1>1. c # NoCall
  BY Zenon, SettingsAssumption DEF SRequests, SKinds, SLoads, SThens, SArgs, SData, Ats
<1> QED BY <1>1 DEF SRequests

LEMMA SRequestMade ==
  ASSUME NEW k \in SKinds, NEW t \in S!Tabs \cup {None}, NEW a \in SArgs,
         NEW h \in {None} \cup SThens, NEW s \in Ats, NEW d \in SData
  PROVE  [kind |-> k, for |-> t, arg |-> a, then |-> h, at |-> s, data |-> d] \in SRequests
BY DEF SRequests

LEMMA SDataHas ==
  /\ None \in SData /\ S!Fields \subseteq SData /\ SUBSET People \subseteq SData
  /\ SUBSET Events \subseteq SData /\ BOOLEAN \subseteq SData /\ S!Keys \subseteq SData
BY Zenon DEF SData

LEMMA SArgsHas ==
  /\ None \in SArgs /\ S!Forms \subseteq SArgs /\ [of : S!Forms, fields : S!Fields] \subseteq SArgs
  /\ S!Tabs \subseteq SArgs /\ People \subseteq SArgs /\ SUBSET Events \subseteq SArgs
  /\ S!Keys \subseteq SArgs /\ BOOLEAN \subseteq SArgs
BY Zenon DEF SArgs

\* A request as it is sent.
LEMMA SNewCall ==
  ASSUME tab \in S!Tabs, NEW k \in SKinds, NEW a \in SArgs, NEW h \in {None} \cup SThens,
         NEW c, c = S!NewCall(k, a, h)
  PROVE  /\ c \in SRequests /\ c # NoCall /\ c.kind = k /\ c.for = tab /\ c.arg = a
         /\ c.then = h /\ c.at = "sent" /\ c.data = None
<1>1. c = [kind |-> k, for |-> tab, arg |-> a, then |-> h, at |-> "sent", data |-> None]
  BY DEF S!NewCall
<1>2. c \in SRequests
  <2>1. "sent" \in Ats /\ None \in SData /\ tab \in S!Tabs \cup {None}
    BY Zenon, SDataHas DEF Ats
  <2> QED BY Zenon, <1>1, <2>1, SRequestMade
<1> QED BY <1>1, <1>2, SRequestIs

\* The answer to a request is a request.
LEMMA SAnswered ==
  ASSUME DOMAIN call = Calls, NEW x \in Calls, call[x] \in SRequests, NEW s, s \in Ats, NEW d, d \in SData,
         call' = [call EXCEPT ![x].at = s, ![x].data = d]
  PROVE  /\ call'[x] \in SRequests /\ call'[x] # NoCall /\ call'[x].kind = call[x].kind /\ call'[x].for = call[x].for /\ call'[x].arg = call[x].arg
         /\ call'[x].then = call[x].then /\ call'[x].at = s /\ call'[x].data = d
<1>0. /\ call[x].kind \in SKinds /\ call[x].for \in S!Tabs \cup {None} /\ call[x].arg \in SArgs
      /\ call[x].then \in {None} \cup SThens /\ call[x].at \in Ats /\ call[x].data \in SData
  BY SRequestIs
<1>c. call[x] = [kind |-> call[x].kind, for |-> call[x].for, arg |-> call[x].arg, then |-> call[x].then,
           at |-> call[x].at, data |-> call[x].data]
  BY SRequestIs
<1>1. call'[x] = [kind |-> call[x].kind, for |-> call[x].for, arg |-> call[x].arg, then |-> call[x].then, at |-> s, data |-> d]
  <2>1. call'[x] = [call[x] EXCEPT !.at = s, !.data = d]
    OBVIOUS
  <2> QED BY <1>c, <2>1
<1>r. [kind |-> call[x].kind, for |-> call[x].for, arg |-> call[x].arg, then |-> call[x].then, at |-> s, data |-> d]
       \in SRequests
  BY Zenon, <1>0, SRequestMade
<1>2. call'[x] \in SRequests
  BY <1>1, <1>r
<1> QED BY <1>1, <1>2, SRequestIs

\* ... and so is one whose section was left.
LEMMA SLeft ==
  ASSUME NEW x, call[x] \in SRequests, call'[x] = [call[x] EXCEPT !.for = None]
  PROVE  /\ call'[x] \in SRequests /\ call'[x] # NoCall /\ call'[x].kind = call[x].kind /\ call'[x].for = None /\ call'[x].arg = call[x].arg
         /\ call'[x].then = call[x].then /\ call'[x].at = call[x].at /\ call'[x].data = call[x].data
<1>0. /\ call[x].kind \in SKinds /\ call[x].for \in S!Tabs \cup {None} /\ call[x].arg \in SArgs
      /\ call[x].then \in {None} \cup SThens /\ call[x].at \in Ats /\ call[x].data \in SData
  BY SRequestIs
<1>c. call[x] = [kind |-> call[x].kind, for |-> call[x].for, arg |-> call[x].arg, then |-> call[x].then,
           at |-> call[x].at, data |-> call[x].data]
  BY SRequestIs
<1>1. call'[x] = [kind |-> call[x].kind, for |-> None, arg |-> call[x].arg, then |-> call[x].then, at |-> call[x].at, data |-> call[x].data]
  BY <1>c
<1>r. [kind |-> call[x].kind, for |-> None, arg |-> call[x].arg, then |-> call[x].then, at |-> call[x].at, data |-> call[x].data]
       \in SRequests
  <2>1. None \in S!Tabs \cup {None}
    OBVIOUS
  <2> QED BY Zenon, <1>0, <2>1, SRequestMade
<1>2. call'[x] \in SRequests
  BY <1>1, <1>r
<1> QED BY <1>1, <1>2, SRequestIs

\* A slot is given a request, or freed.
LEMMA SPut ==
  ASSUME SCalls, NEW x \in Calls, NEW c, c = NoCall \/ SCall(c),
         call' = [call EXCEPT ![x] = c]
  PROVE  SCalls' /\ call'[x] = c /\ \A y \in Calls : y # x => call'[y] = call[y]
BY DEF SCalls

\* A step that touches one slot leaves the sections alone that it is not about.
LEMMA STouches ==
  ASSUME NEW x \in Calls, \A y \in Calls : y # x => call'[y] = call[y], NEW own,
         call[x] # NoCall => call[x].kind \in own, call'[x] # NoCall => call'[x].kind \in own,
         NEW kinds, kinds \cap own = {}
  PROVE  SFrame(kinds)
BY DEF SFrame, SBusy

\* The changes that are under way, when a step touches one slot.
LEMMA SOneSlot ==
  ASSUME SHere, SOnly, NEW x \in Calls, \A y \in Calls : y # x => call'[y] = call[y], tab' = tab,
         call'[x] = NoCall \/
           (/\ call'[x].for \in {None, "general", tab} /\ (call[x] # NoCall /\ call[x].for # None => call'[x].for # None)
            /\ ~past'.torn => call'[x].at \in {"sent", "ok"}
            /\ call'[x].kind \in S!Changes =>
                 call[x] # NoCall /\ call[x].kind \in S!Changes),
         SAges
  PROVE  SHere' /\ SOnly'
BY DEF SHere, SOnly, SLive, SBusy, SAges, SKinds

LEMMA SDones ==
  ASSUME SGeneral, NEW x \in Calls, S!Done(x), tab' = tab, past' = past
  PROVE  /\ SCalls' /\ SHere' /\ SOnly' /\ SAges
         /\ call'[x] = NoCall /\ \A y \in Calls : y # x => call'[y] = call[y]
<1>1. SCalls' /\ call'[x] = NoCall /\ \A y \in Calls : y # x => call'[y] = call[y]
  BY SPut DEF S!Done, SGeneral, SType
<1>2. SAges
  BY DEF SAges
<1>3. SHere' /\ SOnly'
  BY <1>1, <1>2, SOneSlot DEF SGeneral
<1> QED BY <1>1, <1>2, <1>3


LEMMA SSpends ==
  ASSUME NEW cost \in Nat, edits \in 0..MaxEdits, S!Spend(cost)
  PROVE  edits' \in 0..MaxEdits
BY BoundsAssumption DEF S!Spend

\* What was done may have overlapped, and may have left an answer about codes.
LEMMA SPasts ==
  ASSUME SPast, NEW b \in BOOLEAN, NEW d \in BOOLEAN, NEW e \in BOOLEAN,
         past' = [past EXCEPT !.twin = b, !.torn = d, !.unread = e]
  PROVE  SPast' /\ past'.twin = b /\ past'.torn = d /\ past'.unread = e
<1>1. past' = [twin |-> b, torn |-> d, unread |-> e]
  BY DEF SPast
<1> QED BY <1>1 DEF SPast

LEMMA SPastIs ==
  ASSUME SPast
  PROVE  /\ past.twin \in BOOLEAN /\ past.torn \in BOOLEAN /\ past.unread \in BOOLEAN
         /\ past = [twin |-> past.twin, torn |-> past.torn, unread |-> past.unread]
BY DEF SPast

\* A change is sent.
LEMMA SChange ==
  ASSUME SGeneral, NEW k \in S!Changes, NEW a \in SArgs, S!Change(k, a),
         SCall(S!NewCall(k, a, None)), tab' = tab
  PROVE  /\ SCalls' /\ SHere' /\ SOnly' /\ SAges /\ SPast' /\ edits' \in 0..MaxEdits
         /\ past'.torn = past.torn /\ past'.unread = past.unread
         /\ ~past'.twin => \A y \in Calls : ~SBusy(y, S!Changes) /\ ~SBusy(y, {"users"})
         /\ \E x \in Calls :
              /\ call[x] = NoCall /\ \A y \in Calls : y # x => call'[y] = call[y]
              /\ call'[x] # NoCall /\ call'[x].kind = k /\ call'[x].for = tab /\ call'[x].arg = a
              /\ call'[x].then = None /\ call'[x].at = "sent"
<1>0. tab \in S!Tabs /\ edits \in 0..MaxEdits /\ SPast /\ SCalls /\ SHere /\ SOnly
  BY DEF SGeneral, SType
<1>1. edits' \in 0..MaxEdits
  BY <1>0, SSpends DEF S!Change, S!Act
<1> DEFINE b == past.twin \/ S!Open(S!Changes \cup {"users"}) # {}
<1>2. SPast' /\ past'.twin = b /\ past'.torn = past.torn /\ past'.unread = past.unread
  <2>1. b \in BOOLEAN
    BY <1>0, SPastIs
  <2>2. past' = [past EXCEPT !.twin = b]
    BY <1>0 DEF S!Change
  <2> HIDE DEF b
  <2>3. past' = [past EXCEPT !.twin = b, !.torn = past.torn, !.unread = past.unread]
    BY <1>0, <2>2, SPastIs
  <2> QED BY <1>0, <2>1, <2>3, SPasts, SPastIs
<1>3. ~past'.twin => ~past.twin /\ \A y \in Calls : ~SBusy(y, S!Changes) /\ ~SBusy(y, {"users"})
  BY <1>0, <1>2 DEF S!Open, SBusy
<1> PICK x \in S!Idle : call' = [call EXCEPT ![x] = S!NewCall(k, a, None)]
  BY <1>0 DEF S!Change, S!Send
<1> DEFINE c == S!NewCall(k, a, None)
<1>4. x \in Calls /\ call[x] = NoCall
  BY <1>0 DEF S!Idle
<1>5. /\ c # NoCall /\ c.kind = k /\ c.for = tab /\ c.arg = a /\ c.then = None /\ c.at = "sent"
  <2>1. k \in SKinds /\ None \in {None} \cup SThens
    BY <1>0 DEF SKinds
  <2> QED BY <1>0, <2>1, SNewCall
<1>6. SCalls' /\ call'[x] = c /\ \A y \in Calls : y # x => call'[y] = call[y]
  <2> HIDE DEF c
  <2> QED BY <1>0, <1>4, SPut DEF c
<1> HIDE DEF c
<1>7. SHere'
  BY <1>0, <1>5, <1>6 DEF SHere, SLive, SBusy
<1>8. SOnly'
  <2>1. tab # None
    BY <1>0, SettingsAssumption
  <2>2. ~past'.torn => \A y \in Calls : SBusy(y, SKinds)' => call'[y].at \in {"sent", "ok"}
    BY <1>0, <1>2, <1>5, <1>6 DEF SOnly, SBusy
  <2>3. ASSUME ~past'.twin, NEW y \in Calls, SBusy(y, S!Changes)' PROVE y = x /\ call'[y].for # None
    <3>1. y = x
      BY <1>0, <1>3, <1>6, <2>3 DEF SBusy
    <3> QED BY <1>0, <1>5, <1>6, <2>1, <3>1
  <2> QED BY <1>0, <2>2, <2>3 DEF SOnly
<1> QED BY <1>0, <1>1, <1>2, <1>3, <1>4, <1>5, <1>6, <1>7, <1>8 DEF SAges

\* A handler sends a reload for its own section.
LEMMA SReload ==
  ASSUME SGeneral, NEW x \in Calls, call[x] # NoCall, NEW k \in SLoads, NEW h \in SThens,
         S!DoneThen(x, k, h), SCall(S!NewCall(k, None, h)), tab' = tab, past' = past
  PROVE  /\ SCalls' /\ SHere' /\ SOnly' /\ SAges /\ \A y \in Calls : y # x => call'[y] = call[y]
         /\ call'[x] # NoCall /\ call'[x].kind = k /\ call'[x].for = tab
         /\ call'[x].then = h /\ call'[x].at = "sent"
<1>0. tab \in S!Tabs /\ edits \in 0..MaxEdits /\ SPast /\ SCalls /\ SHere /\ SOnly
  BY DEF SGeneral, SType
<1> DEFINE c == S!NewCall(k, None, h)
<1>1. /\ c # NoCall /\ c.kind = k /\ c.for = tab /\ c.then = h /\ c.at = "sent"
  <2>1. k \in SKinds /\ h \in {None} \cup SThens /\ None \in SArgs
    BY <1>0, SArgsHas DEF SKinds
  <2> QED BY <1>0, <2>1, SNewCall
<1>2. SCalls' /\ call'[x] = c /\ \A y \in Calls : y # x => call'[y] = call[y]
  <2>1. call' = [call EXCEPT ![x] = c]
    BY <1>0 DEF S!DoneThen
  <2> HIDE DEF c
  <2> QED BY <1>0, <2>1, SPut DEF c
<1> HIDE DEF c
<1>3. SAges
  BY <1>0 DEF SAges
<1>4. tab # None /\ k \notin S!Changes
  BY <1>0, SettingsAssumption DEF SLoads, S!Changes, S!OfCodes
<1>5. SHere' /\ SOnly'
  BY <1>0, <1>1, <1>2, <1>3, <1>4, SOneSlot
<1> QED BY <1>0, <1>1, <1>2, <1>3, <1>5

\* The server answers.
LEMMA SServes ==
  ASSUME SGeneral, NEW x \in Calls, S!Serve(x), NEW r, r = S!Served(call[x]), r.data \in SData
  PROVE  /\ SHere' /\ SOnly' /\ SAges /\ SPast' /\ db' = r.db
         /\ call[x] # NoCall /\ call[x].at = "sent" /\ SCall(call[x])
         /\ call'[x] \in SRequests /\ call'[x] # NoCall /\ call'[x].kind = call[x].kind
         /\ call'[x].for = call[x].for /\ call'[x].arg = call[x].arg /\ call'[x].then = call[x].then
         /\ call'[x].at = (IF r.ok THEN "ok" ELSE "refused") /\ call'[x].data = r.data
         /\ DOMAIN call' = Calls /\ \A y \in Calls : y # x => call'[y] = call[y]
         /\ past'.twin = past.twin /\ past'.unread = past.unread
         /\ ~past'.torn => ~past.torn /\ r.ok
         /\ tab' = tab /\ forms' = forms /\ list' = list /\ prefs' = prefs /\ fa' = fa /\ edits' = edits
<1>0. tab \in S!Tabs /\ edits \in 0..MaxEdits /\ SPast /\ SCalls /\ SHere /\ SOnly
  BY DEF SGeneral, SType
<1> DEFINE s == IF r.ok THEN "ok" ELSE "refused"
<1>1. call[x] # NoCall /\ call[x].at = "sent" /\ SCall(call[x]) /\ call[x] \in SRequests
  BY <1>0 DEF S!Serve, SCalls, SCall
<1>2. call' = [call EXCEPT ![x].at = s, ![x].data = r.data]
  BY <1>0 DEF S!Serve
<1>3. s \in Ats
  BY <1>0 DEF Ats
<1>4. /\ call'[x] \in SRequests /\ call'[x] # NoCall /\ call'[x].kind = call[x].kind
      /\ call'[x].for = call[x].for /\ call'[x].arg = call[x].arg /\ call'[x].then = call[x].then
      /\ call'[x].at = s /\ call'[x].data = r.data
  <2>1. DOMAIN call = Calls
    BY <1>0 DEF SCalls
  <2>2. r.data \in SData
    OBVIOUS
  <2>3. CASE r.ok
    <3>1. call' = [call EXCEPT ![x].at = "ok", ![x].data = r.data] /\ "ok" \in Ats /\ s = "ok"
      BY <1>2, <2>3 DEF Ats
    <3> HIDE DEF s
    <3>2. /\ call'[x] \in SRequests /\ call'[x] # NoCall /\ call'[x].kind = call[x].kind
          /\ call'[x].for = call[x].for /\ call'[x].arg = call[x].arg /\ call'[x].then = call[x].then
          /\ call'[x].at = "ok"
      BY <1>1, <2>1, <2>2, <3>1, SAnswered
    <3>3. call'[x].data = r.data
      <4>1. "data" \in DOMAIN call[x]
        BY <1>1, SRequestIs
      <4> QED BY <2>1, <3>1, <4>1
    <3> QED BY <3>1, <3>2, <3>3
  <2>4. CASE ~r.ok
    <3>1. call' = [call EXCEPT ![x].at = "refused", ![x].data = r.data] /\ "refused" \in Ats /\ s = "refused"
      BY <1>2, <2>4 DEF Ats
    <3> HIDE DEF s
    <3>2. /\ call'[x] \in SRequests /\ call'[x] # NoCall /\ call'[x].kind = call[x].kind
          /\ call'[x].for = call[x].for /\ call'[x].arg = call[x].arg /\ call'[x].then = call[x].then
          /\ call'[x].at = "refused"
      BY <1>1, <2>1, <2>2, <3>1, SAnswered
    <3>3. call'[x].data = r.data
      <4>1. "data" \in DOMAIN call[x]
        BY <1>1, SRequestIs
      <4> QED BY <2>1, <3>1, <4>1
    <3> QED BY <3>1, <3>2, <3>3
  <2> QED BY <2>3, <2>4
<1>5. DOMAIN call' = Calls /\ \A y \in Calls : y # x => call'[y] = call[y]
  BY <1>0, <1>2 DEF SCalls
<1> DEFINE d == past.torn \/ ~r.ok
<1>6. SPast' /\ past'.twin = past.twin /\ past'.torn = d /\ past'.unread = past.unread
  <2>1. d \in BOOLEAN
    BY <1>0, SPastIs
  <2>2. past' = [past EXCEPT !.torn = d]
    BY <1>0 DEF S!Serve
  <2> HIDE DEF d
  <2>3. past' = [past EXCEPT !.twin = past.twin, !.torn = d, !.unread = past.unread]
    BY <1>0, <2>2, SPastIs
  <2> QED BY <1>0, <2>1, <2>3, SPasts, SPastIs
<1>7. /\ tab' = tab /\ forms' = forms /\ list' = list /\ prefs' = prefs /\ fa' = fa /\ edits' = edits
      /\ db' = r.db
  BY <1>0 DEF S!Serve
<1>8. SAges
  BY <1>0, <1>6 DEF SAges
<1>9. SHere' /\ SOnly'
  <2>1. ~past'.torn => call'[x].at \in {"sent", "ok"}
    BY <1>0, <1>4, <1>6
  <2>2. call'[x].for \in {None, "general", tab}
    BY <1>0, <1>1, <1>4, SRequestIs DEF SHere, SLive, SBusy
  <2> QED BY <1>0, <1>1, <1>4, <1>5, <1>7, <1>8, <2>1, <2>2, SOneSlot
<1> QED BY <1>0, <1>1, <1>4, <1>5, <1>6, <1>7, <1>8, <1>9

LEMMA SLoses ==
  ASSUME SGeneral, NEW x \in Calls, S!Lose(x)
  PROVE  /\ SGeneral' /\ SAges /\ db' = db
         /\ call[x] # NoCall /\ SCall(call[x])
         /\ call'[x] # NoCall /\ call'[x].kind = call[x].kind
         /\ call'[x].for = call[x].for /\ call'[x].arg = call[x].arg /\ call'[x].then = call[x].then
         /\ call'[x].at = "lost"
         /\ \A y \in Calls : y # x => call'[y] = call[y]
         /\ past'.twin = past.twin /\ past'.torn
         /\ ~past'.unread =>
              ~past.unread /\ ~(call[x].at = "ok" /\ call[x].kind \in {"confirm", "regenerate"})
         /\ tab' = tab /\ forms' = forms /\ list' = list /\ prefs' = prefs /\ fa' = fa /\ edits' = edits
<1>0. tab \in S!Tabs /\ edits \in 0..MaxEdits /\ SPast /\ SCalls /\ SHere /\ SOnly
  BY DEF SGeneral, SType
<1>1. call[x] # NoCall /\ SCall(call[x]) /\ call[x] \in SRequests
  BY <1>0 DEF S!Lose, SCalls, SCall
<1>2. call' = [call EXCEPT ![x].at = "lost", ![x].data = None]
  BY <1>0 DEF S!Lose
<1>4. /\ call'[x] \in SRequests /\ call'[x] # NoCall /\ call'[x].kind = call[x].kind
      /\ call'[x].for = call[x].for /\ call'[x].arg = call[x].arg /\ call'[x].then = call[x].then
      /\ call'[x].at = "lost"
  <2>1. DOMAIN call = Calls
    BY <1>0 DEF SCalls
  <2>2. "lost" \in Ats /\ None \in SData
    BY <1>0, SDataHas DEF Ats
  <2> QED BY <1>1, <1>2, <2>1, <2>2, SAnswered
<1>5. DOMAIN call' = Calls /\ \A y \in Calls : y # x => call'[y] = call[y]
  BY <1>0, <1>2 DEF SCalls
<1>6. SCalls'
  <2>1. SCall(call'[x])
    BY <1>0, <1>1, <1>4 DEF SCall
  <2> QED BY <1>0, <1>5, <2>1 DEF SCalls
<1> DEFINE e == past.unread \/ (call[x].at = "ok" /\ call[x].kind \in {"confirm", "regenerate"})
<1>7. SPast' /\ past'.twin = past.twin /\ past'.torn = TRUE /\ past'.unread = e
  <2>1. e \in BOOLEAN
    BY <1>0, SPastIs
  <2>2. past' = [past EXCEPT !.torn = TRUE, !.unread = e]
    BY <1>0 DEF S!Lose
  <2> HIDE DEF e
  <2>3. past' = [past EXCEPT !.twin = past.twin, !.torn = TRUE, !.unread = e]
    BY <1>0, <2>2, SPastIs
  <2> QED BY <1>0, <2>1, <2>3, SPasts, SPastIs
<1>8. /\ tab' = tab /\ forms' = forms /\ list' = list /\ prefs' = prefs /\ fa' = fa /\ edits' = edits
      /\ db' = db
  BY <1>0 DEF S!Lose
<1>9. SAges
  BY <1>0, <1>7 DEF SAges
<1>10. SHere' /\ SOnly'
  <2>2. call'[x].for \in {None, "general", tab}
    BY <1>0, <1>1, <1>4, SRequestIs DEF SHere, SLive, SBusy
  <2> QED BY <1>0, <1>1, <1>4, <1>5, <1>7, <1>8, <1>9, <2>2, SOneSlot
<1>11. SType'
  BY <1>6, <1>7, <1>8 DEF SGeneral, SType
<1> QED BY <1>0, <1>1, <1>4, <1>5, <1>7, <1>8, <1>9, <1>10, <1>11 DEF SGeneral


\* What a section's invariant says of its requests stays true while they, and
\* what it shows, stay as they are.
LEMMA SKept ==
  ASSUME NEW kinds, SFrame(kinds), NEW x \in Calls, NEW sub \in SUBSET kinds
  PROVE  /\ SBusy(x, sub)' <=> SBusy(x, sub)
         /\ SLive(x, sub)' <=> SLive(x, sub)
         /\ SBusy(x, sub) => call'[x] = call[x]
BY DEF SFrame, SBusy, SLive

LEMMA SFormsFrame ==
  ASSUME SFormsOK, SFrame(SFormKinds), SAges, tab' = tab, forms' = forms, db'.kept = db.kept
  PROVE  SFormsOK'
<1>1. ASSUME NEW x \in Calls
      PROVE  /\ SBusy(x, {"load"})' <=> SBusy(x, {"load"})
             /\ SBusy(x, {"save"})' <=> SBusy(x, {"save"})
             /\ SLive(x, {"save"})' <=> SLive(x, {"save"})
             /\ SBusy(x, {"load"}) => call'[x] = call[x]
             /\ SBusy(x, {"save"}) => call'[x] = call[x]
  BY SKept DEF SFormKinds
<1>2. SSecrets'
  <2>1. \A t \in SOwn' : t \in SOwn
    BY DEF SOwn
  <2>2. ASSUME NEW t \in SOwn', forms'[S!Slot(t)].has PROVE db'.kept[t].secret # None
    BY <2>1, <2>2 DEF SFormsOK, SSecrets
  <2>3. ASSUME NEW x \in Calls, SLive(x, {"save"})' PROVE forms'[S!Slot(call'[x].for)].shown \in S!Fields
    <3>1. SLive(x, {"save"}) /\ call'[x] = call[x]
      BY <1>1, <2>3 DEF SLive
    <3> QED BY <3>1 DEF SFormsOK, SSecrets
  <2>4. ASSUME NEW x \in Calls,
               \/ SBusy(x, {"load"})' /\ call'[x].at = "ok" /\ call'[x].data.secret # None
               \/ SBusy(x, {"save"})' /\ call'[x].at = "ok" /\ call'[x].arg.fields.secret # None
        PROVE  db'.kept[IF call'[x].kind = "load" THEN call'[x].arg ELSE call'[x].arg.of].secret # None
    <3>1. call'[x] = call[x] /\ (SBusy(x, {"load"})' => SBusy(x, {"load"}))
          /\ (SBusy(x, {"save"})' => SBusy(x, {"save"}))
      BY <1>1, <2>4
    <3> QED BY <2>4, <3>1 DEF SFormsOK, SSecrets
  <2> QED BY <2>2, <2>3, <2>4 DEF SSecrets
<1>3. SSaved'
  <2>1. ASSUME ~past'.twin, ~past'.torn PROVE ~past.twin /\ ~past.torn
    BY <2>1 DEF SAges
  <2>2. \A t \in SOwn' : t \in SOwn
    BY DEF SOwn
  <2> QED BY <1>1, <2>1, <2>2 DEF SFormsOK, SSaved
<1> QED BY <1>2, <1>3 DEF SFormsOK

LEMMA SUsersFrame ==
  ASSUME SUsers, SFrame(SUserKinds), SAges, list'.names = list.names, db'.people = db.people
  PROVE  SUsers'
<1>1. ASSUME NEW x \in Calls
      PROVE  /\ SBusy(x, {"users"})' <=> SBusy(x, {"users"})
             /\ SBusy(x, {"add", "remove"})' <=> SBusy(x, {"add", "remove"})
             /\ SLive(x, {"users"})' <=> SLive(x, {"users"})
             /\ SBusy(x, {"users"}) => call'[x] = call[x]
             /\ SBusy(x, {"add", "remove"}) => call'[x] = call[x]
  BY SKept DEF SUserKinds
<1>2. (~past'.twin => ~past.twin) /\ (~past'.torn => ~past.torn)
  BY DEF SAges
<1> QED BY <1>1, <1>2 DEF SUsers

LEMMA SPrefsFrame ==
  ASSUME SPrefs, SFrame(SPrefKinds), SAges, prefs'.on = prefs.on, db'.on = db.on
  PROVE  SPrefs'
<1>1. ASSUME NEW x \in Calls
      PROVE  /\ SLive(x, {"prefs"})' <=> SLive(x, {"prefs"})
             /\ SLive(x, {"prefs", "setprefs"})' <=> SLive(x, {"prefs", "setprefs"})
             /\ SBusy(x, {"setprefs"})' <=> SBusy(x, {"setprefs"})
             /\ SLive(x, {"prefs"}) => call'[x] = call[x]
             /\ SBusy(x, {"setprefs"}) => call'[x] = call[x]
  BY SKept DEF SPrefKinds, SLive
<1>2. (~past'.twin => ~past.twin) /\ (~past'.torn => ~past.torn)
  BY DEF SAges
<1> QED BY <1>1, <1>2 DEF SPrefs

LEMMA SFactorsFrame ==
  ASSUME SFactors, SFrame(SFactorKinds), SAges, fa' = fa,
         db'.enabled = db.enabled, db'.batch = db.batch, db'.secret = db.secret
  PROVE  SFactors'
<1>1. ASSUME NEW x \in Calls
      PROVE  /\ SLive(x, {"totp"})' <=> SLive(x, {"totp"})
             /\ SLive(x, {"totp"}) => call'[x] = call[x]
             /\ SLive(x, {"confirm"})' <=> SLive(x, {"confirm"})
             /\ SLive(x, {"disable", "regenerate"})' <=> SLive(x, {"disable", "regenerate"})
             /\ SBusy(x, {"enroll"})' <=> SBusy(x, {"enroll"})
             /\ SBusy(x, {"enroll"}) => call'[x] = call[x]
             /\ SBusy(x, {"confirm"})' <=> SBusy(x, {"confirm"})
             /\ SBusy(x, {"confirm"}) => call'[x] = call[x]
             /\ SBusy(x, {"confirm", "regenerate"})' <=> SBusy(x, {"confirm", "regenerate"})
             /\ SBusy(x, {"confirm", "regenerate"}) => call'[x] = call[x]
             /\ SBusy(x, {"confirm", "disable"})' <=> SBusy(x, {"confirm", "disable"})
             /\ SBusy(x, {"confirm", "disable"}) => call'[x] = call[x]
             /\ SBusy(x, S!OfCodes)' <=> SBusy(x, S!OfCodes)
             /\ SBusy(x, S!OfCodes) => call'[x] = call[x]
  BY SKept DEF SFactorKinds, SLive, S!OfCodes
<1>2. ASSUME NEW x \in Calls
      PROVE  /\ SConfirming(x)' <=> SConfirming(x)
             /\ SChecking(x)' <=> SChecking(x)
             /\ SMounting(x)' <=> SMounting(x)
  BY <1>1 DEF SConfirming, SChecking, SMounting
<1>3. (~past'.twin => ~past.twin) /\ (~past'.torn => ~past.torn) /\ (~past'.unread => ~past.unread)
  BY DEF SAges
<1>4. SSteps'
  BY <1>2 DEF SFactors, SSteps
<1>5. SCodes'
  BY <1>1, <1>3 DEF SFactors, SCodes
<1>6. SKey'
  BY <1>1, <1>3 DEF SFactors, SKey
<1>7. SEnabled'
  BY <1>1, <1>3 DEF SFactors, SEnabled
<1> QED BY <1>4, <1>5, <1>6, <1>7 DEF SFactors

\* The answer to a section that was left is dropped.
LEMMA SDrops ==
  ASSUME SInv, NEW x \in Calls, S!Drop(x)
  PROVE  SInv'
<1>0. SGeneral /\ SFactors /\ SUsers /\ SPrefs /\ SFormsOK
  BY DEF SInv, SGeneral, SFactors, SFormsOK
<1>1. /\ call[x] # NoCall /\ call[x].for = None /\ call[x].at # "sent" /\ S!Done(x) /\ tab' = tab
      /\ forms' = forms /\ list' = list /\ prefs' = prefs /\ fa' = fa /\ db' = db /\ edits' = edits
      /\ past' = past
  BY DEF S!Drop
<1>2. /\ SCalls' /\ SHere' /\ SOnly' /\ SAges
      /\ call'[x] = NoCall /\ \A y \in Calls : y # x => call'[y] = call[y]
  BY <1>0, <1>1, SDones
<1>3. SType'
  BY <1>0, <1>1, <1>2 DEF SGeneral, SType, SPast
<1>4. /\ past.twin \in BOOLEAN /\ (call[x].kind \in S!Changes => past.twin)
  BY <1>0, <1>1, SPastIs DEF SGeneral, SType, SOnly, SBusy
<1>q. \A y \in Calls : \A k : (SBusy(y, k)' => SBusy(y, k) /\ call'[y] = call[y])
        /\ (SLive(y, k)' => SLive(y, k) /\ call'[y] = call[y])
        /\ (SLive(y, k) => SLive(y, k)')
        /\ (SBusy(y, k) /\ y # x => SBusy(y, k)')
  BY <1>1, <1>2 DEF SBusy, SLive
<1>5. SSteps'
  <2>1. \A y \in Calls : (SConfirming(y)' => SConfirming(y)) /\ (SChecking(y)' => SChecking(y))
          /\ (SMounting(y)' => SMounting(y))
    BY <1>q DEF SConfirming, SChecking, SMounting
  <2> QED BY <1>0, <1>1, <2>1 DEF SFactors, SSteps
<1>6. SCodes'
  <2> SUFFICES ASSUME ~past'.unread PROVE SCodes'
    BY DEF SCodes
  <2>1. ~past.unread /\ SCodes
    BY <1>0, <1>1 DEF SFactors
  <2>2. call[x].kind \notin S!OfCodes
    BY <1>1, <2>1 DEF SCodes, SBusy
  <2>3. \A y \in Calls : SBusy(y, {"confirm"}) => SBusy(y, {"confirm"})' /\ call'[y] = call[y]
    BY <1>q, <2>2 DEF SBusy, S!OfCodes
  <2> QED BY <1>1, <1>q, <2>1, <2>3 DEF SCodes
<1>7. SKey'
  BY <1>0, <1>1, <1>q DEF SFactors, SKey
<1>8. SEnabled'
  <2> SUFFICES ASSUME ~past'.twin, ~past'.torn PROVE SEnabled'
    BY DEF SEnabled
  <2>1. ~past.twin /\ ~past.torn /\ SEnabled
    BY <1>0, <1>1 DEF SFactors
  <2>2. \A y \in Calls : SBusy(y, {"confirm", "disable"}) => SBusy(y, {"confirm", "disable"})' /\ call'[y] = call[y]
    BY <1>4, <1>q, <2>1 DEF SBusy, S!OfCodes, S!Changes
  <2>3. \A y \in Calls : SLive(y, {"totp"}) => SLive(y, {"totp"})' /\ call'[y] = call[y]
    BY <1>q
  <2> QED BY <1>1, <1>q, <2>1, <2>2, <2>3 DEF SEnabled
<1>9. SUsers'
  <2> SUFFICES ASSUME ~past'.twin PROVE SUsers'
    BY DEF SUsers
  <2>1. ~past.twin /\ SUsers
    BY <1>0, <1>1
  <2>2. \A y \in Calls : SBusy(y, {"add", "remove"}) => SBusy(y, {"add", "remove"})' /\ call'[y] = call[y]
    BY <1>4, <1>q, <2>1 DEF SBusy, S!Changes
  <2> QED BY <1>1, <1>q, <2>1, <2>2 DEF SUsers
<1>10. SPrefs'
  <2>1. ASSUME ~past.twin, NEW y \in Calls, SBusy(y, {"setprefs"})
        PROVE  SBusy(y, {"setprefs"})' /\ call'[y] = call[y]
    BY <1>4, <1>q, <2>1 DEF SBusy, S!Changes
  <2> QED BY <1>0, <1>1, <1>q, <2>1 DEF SPrefs
<1>11. SFormsOK'
  <2>1. SSecrets'
    BY <1>0, <1>1, <1>q DEF SFormsOK, SSecrets, SOwn
  <2>2. SSaved'
    BY <1>0, <1>1, <1>q DEF SFormsOK, SSaved, SOwn
  <2> QED BY <2>1, <2>2 DEF SFormsOK
<1> QED BY <1>2, <1>3, <1>5, <1>6, <1>7, <1>8, <1>9, <1>10, <1>11 DEF SInv, SFormsOK


\* A step of one section is none of the others' business.
LEMMA SOnlyForms ==
  ASSUME SUsers, SPrefs, SFactors, SAges, NEW x \in Calls,
         \A y \in Calls : y # x => call'[y] = call[y],
         call[x] # NoCall => call[x].kind \in SFormKinds,
         call'[x] # NoCall => call'[x].kind \in SFormKinds,
         list' = list, prefs' = prefs, fa' = fa, db'.people = db.people, db'.on = db.on,
         db'.enabled = db.enabled, db'.batch = db.batch, db'.secret = db.secret
  PROVE  SUsers' /\ SPrefs' /\ SFactors'
<1>1. SFrame(SUserKinds) /\ SFrame(SPrefKinds) /\ SFrame(SFactorKinds)
  BY STouches DEF SFormKinds, SUserKinds, SPrefKinds, SFactorKinds
<1> QED BY <1>1, SUsersFrame, SPrefsFrame, SFactorsFrame

LEMMA SOnlyUsers ==
  ASSUME SFormsOK, SPrefs, SFactors, SAges, NEW x \in Calls,
         \A y \in Calls : y # x => call'[y] = call[y],
         call[x] # NoCall => call[x].kind \in SUserKinds,
         call'[x] # NoCall => call'[x].kind \in SUserKinds,
         tab' = tab, forms' = forms, prefs' = prefs, fa' = fa, db'.kept = db.kept, db'.on = db.on,
         db'.enabled = db.enabled, db'.batch = db.batch, db'.secret = db.secret
  PROVE  SFormsOK' /\ SPrefs' /\ SFactors'
<1>1. SFrame(SFormKinds) /\ SFrame(SPrefKinds) /\ SFrame(SFactorKinds)
  BY STouches DEF SFormKinds, SUserKinds, SPrefKinds, SFactorKinds
<1> QED BY <1>1, SFormsFrame, SPrefsFrame, SFactorsFrame

LEMMA SOnlyPrefs ==
  ASSUME SFormsOK, SUsers, SFactors, SAges, NEW x \in Calls,
         \A y \in Calls : y # x => call'[y] = call[y],
         call[x] # NoCall => call[x].kind \in SPrefKinds,
         call'[x] # NoCall => call'[x].kind \in SPrefKinds,
         tab' = tab, forms' = forms, list' = list, fa' = fa, db'.kept = db.kept, db'.people = db.people,
         db'.enabled = db.enabled, db'.batch = db.batch, db'.secret = db.secret
  PROVE  SFormsOK' /\ SUsers' /\ SFactors'
<1>1. SFrame(SFormKinds) /\ SFrame(SUserKinds) /\ SFrame(SFactorKinds)
  BY STouches DEF SFormKinds, SUserKinds, SPrefKinds, SFactorKinds
<1> QED BY <1>1, SFormsFrame, SUsersFrame, SFactorsFrame

LEMMA SOnlyFactors ==
  ASSUME SFormsOK, SUsers, SPrefs, SAges, NEW x \in Calls,
         \A y \in Calls : y # x => call'[y] = call[y],
         call[x] # NoCall => call[x].kind \in SFactorKinds,
         call'[x] # NoCall => call'[x].kind \in SFactorKinds,
         tab' = tab, forms' = forms, list' = list, prefs' = prefs, db'.kept = db.kept,
         db'.people = db.people, db'.on = db.on
  PROVE  SFormsOK' /\ SUsers' /\ SPrefs'
<1>1. SFrame(SFormKinds) /\ SFrame(SUserKinds) /\ SFrame(SPrefKinds)
  BY STouches DEF SFormKinds, SUserKinds, SPrefKinds, SFactorKinds
<1> QED BY <1>1, SFormsFrame, SUsersFrame, SPrefsFrame

\* When a handler is done with a request, the others are what they were.
LEMMA SGone ==
  ASSUME NEW x \in Calls, call'[x] = NoCall, \A y \in Calls : y # x => call'[y] = call[y],
         NEW y \in Calls, NEW k
  PROVE  /\ SBusy(y, k)' => SBusy(y, k) /\ call'[y] = call[y] /\ y # x
         /\ SLive(y, k)' => SLive(y, k) /\ call'[y] = call[y] /\ y # x
         /\ SLive(y, k) /\ y # x => SLive(y, k)'
         /\ SBusy(y, k) /\ y # x => SBusy(y, k)'
BY DEF SBusy, SLive

---------------------------------------------------------------------------
(* The forms.                                                              *)

LEMMA SFormIs ==
  ASSUME NEW g \in SForm
  PROVE  /\ g.shown \in S!Fields \cup {None} /\ g.has \in BOOLEAN /\ g.status \in S!Status
         /\ g.fresh \in BOOLEAN
         /\ g = [shown |-> g.shown, has |-> g.has, status |-> g.status, fresh |-> g.fresh]
BY DEF SForm

LEMMA SFormMade ==
  ASSUME NEW s \in S!Fields \cup {None}, NEW b \in BOOLEAN, NEW t \in S!Status, NEW h \in BOOLEAN
  PROVE  [shown |-> s, has |-> b, status |-> t, fresh |-> h] \in SForm
BY DEF SForm

\* What a form holds without its secret.
LEMMA SBlank ==
  ASSUME NEW f \in S!Fields
  PROVE  [f EXCEPT !.secret = None] \in S!Fields /\ [f EXCEPT !.secret = None].plain = f.plain
<1>1. f.plain \in Values /\ [f EXCEPT !.secret = None] = [plain |-> f.plain, secret |-> None]
  BY DEF S!Fields
<1> QED BY <1>1 DEF S!Fields

LEMMA SFormSet ==
  ASSUME forms \in [SSlots -> SForm], NEW t \in S!Tabs, NEW g \in SForm, S!SetForm(t, g)
  PROVE  /\ forms' \in [SSlots -> SForm] /\ forms'[S!Slot(t)] = g /\ S!Slot(t) \in SSlots
         /\ \A s \in SSlots : s # S!Slot(t) => forms'[s] = forms[s]
BY DEF S!SetForm, S!Slot, SSlots

\* The section's form is that of the tab.
LEMMA SSlotOwn ==
  ASSUME NEW t \in SOwn, NEW u \in SOwn, S!Slot(t) = S!Slot(u)
  PROVE  t = u
BY DEF SOwn, S!Slot

LEMMA SOwnTabs == ASSUME tab \in S!Tabs PROVE SOwn \subseteq S!Forms /\ S!Forms \subseteq S!Tabs
BY DEF SOwn, S!Forms, S!Tabs

\* Who waits for a form is on it.
LEMMA SFormCalls ==
  ASSUME SGeneral, NEW x \in Calls
  PROVE  /\ SLive(x, {"load"}) => call[x].for = call[x].arg /\ call[x].for \in SOwn
                                  /\ (call[x].at = "ok" => call[x].data \in S!Fields)
         /\ SLive(x, {"save"}) => call[x].for = call[x].arg.of /\ call[x].for \in SOwn
         /\ SBusy(x, {"save"}) => call[x].arg \in [of : S!Forms, fields : S!Fields]
<1>1. SLive(x, SKinds) => call[x].for \in {"general", tab}
  BY DEF SGeneral, SHere
<1>2. SBusy(x, SKinds) => SCall(call[x])
  BY DEF SGeneral, SType, SCalls, SBusy
<1>3. {"load", "save"} \subseteq SKinds
  BY DEF SKinds, SLoads, S!Changes
<1> QED BY <1>1, <1>2, <1>3 DEF SCall, SLive, SBusy, SOwn

LEMMA SFormFresh ==
  ASSUME NEW v, NEW b, NEW g, g = [S!FormInit EXCEPT !.shown = v, !.has = b]
  PROVE  g = [shown |-> v, has |-> b, status |-> "idle", fresh |-> FALSE]
BY DEF S!FormInit

LEMMA SLoadedOK == ASSUME SInv, NEW x \in Calls, S!Loaded(x) PROVE SInv'
<1>0. SGeneral /\ SFactors /\ SUsers /\ SPrefs /\ SFormsOK
  BY DEF SInv, SGeneral, SFactors, SFormsOK
<1> DEFINE t == call[x].for
           f == call[x].data
           g == [S!FormInit EXCEPT !.shown = [f EXCEPT !.secret = None], !.has = f.secret # None]
<1>1. /\ SLive(x, {"load"}) /\ call[x].at = "ok" /\ S!Done(x) /\ S!SetForm(t, g) /\ tab' = tab
      /\ list' = list /\ prefs' = prefs /\ fa' = fa /\ db' = db /\ edits' = edits
      /\ past' = past
  BY DEF S!Loaded, S!Answered, SLive, SBusy
<1>2. /\ SCalls' /\ SHere' /\ SOnly' /\ SAges
      /\ call'[x] = NoCall /\ \A y \in Calls : y # x => call'[y] = call[y]
  BY <1>0, <1>1, SDones
<1>3. t = call[x].arg /\ t \in SOwn /\ f \in S!Fields /\ t \in S!Tabs
  BY <1>0, <1>1, SFormCalls, SOwnTabs DEF SGeneral, SType
<1>4. /\ g = [shown |-> [f EXCEPT !.secret = None], has |-> f.secret # None,
              status |-> "idle", fresh |-> FALSE]
      /\ g \in SForm
  <2>1. g = [shown |-> [f EXCEPT !.secret = None], has |-> f.secret # None,
              status |-> "idle", fresh |-> FALSE]
    <3>1. g = [S!FormInit EXCEPT !.shown = [f EXCEPT !.secret = None], !.has = f.secret # None]
      OBVIOUS
    <3> HIDE DEF g, f
    <3> QED BY <3>1, SFormFresh
  <2>2. [f EXCEPT !.secret = None] \in S!Fields \cup {None}
    BY <1>3, SBlank
  <2>3. "idle" \in S!Status /\ FALSE \in BOOLEAN
    BY DEF S!Status
  <2>4. (f.secret # None) \in BOOLEAN
    OBVIOUS
  <2>5. [shown |-> [f EXCEPT !.secret = None], has |-> f.secret # None,
              status |-> "idle", fresh |-> FALSE] \in SForm
    BY Zenon, <2>2, <2>3, <2>4 DEF SForm
  <2> QED BY <2>1, <2>5
<1>5. /\ forms' \in [SSlots -> SForm] /\ forms'[S!Slot(t)] = g
      /\ \A s \in SSlots : s # S!Slot(t) => forms'[s] = forms[s]
  <2> HIDE DEF g, t
  <2> QED BY <1>0, <1>1, <1>3, <1>4, SFormSet DEF SGeneral, SType
<1>6. SType'
  BY <1>0, <1>1, <1>2, <1>5 DEF SGeneral, SType, SPast
<1>7. SUsers' /\ SPrefs' /\ SFactors'
  BY <1>0, <1>1, <1>2, SOnlyForms DEF SFormKinds, SLive, SBusy
<1>8. /\ g.shown \in S!Fields /\ (g.has <=> f.secret # None) /\ g.status = "idle" /\ g.fresh = FALSE
  BY <1>3, <1>4, SBlank
<1> HIDE DEF g, f
<1>9. \A u \in SOwn : S!Slot(u) \in SSlots
  BY DEF S!Slot, SSlots
<1>10. SSecrets'
  <2>1. ASSUME NEW u \in SOwn', forms'[S!Slot(u)].has PROVE db'.kept[u].secret # None
    <3>1. u \in SOwn
      BY <1>1 DEF SOwn
    <3>2. CASE u = t
      BY <1>0, <1>1, <1>3, <1>5, <1>8, <2>1, <3>2 DEF SFormsOK, SSecrets, SLive, SBusy, f
    <3>3. CASE u # t
      BY <1>0, <1>1, <1>3, <1>5, <1>9, <2>1, <3>1, <3>3, SSlotOwn DEF SFormsOK, SSecrets
    <3> QED BY <3>2, <3>3
  <2>2. ASSUME NEW y \in Calls, SLive(y, {"save"})' PROVE forms'[S!Slot(call'[y].for)].shown \in S!Fields
    <3>1. SLive(y, {"save"}) /\ call'[y] = call[y]
      BY <1>2, <2>2, SGone
    <3>2. call[y].for \in SOwn /\ forms[S!Slot(call[y].for)].shown \in S!Fields
      BY <1>0, <3>1, SFormCalls DEF SFormsOK, SSecrets
    <3> QED BY <1>5, <1>8, <1>9, <3>1, <3>2
  <2>3. \A y \in Calls : /\ SBusy(y, {"load"})' => SBusy(y, {"load"}) /\ call'[y] = call[y]
                         /\ SBusy(y, {"save"})' => SBusy(y, {"save"}) /\ call'[y] = call[y]
    BY <1>2, SGone
  <2> QED BY <1>0, <1>1, <2>1, <2>2, <2>3 DEF SFormsOK, SSecrets
<1>11. SSaved'
  <2> SUFFICES ASSUME ~past'.twin, ~past'.torn PROVE SSaved'
    BY DEF SSaved
  <2>1. ~past.twin /\ ~past.torn /\ SSaved
    BY <1>0, <1>1 DEF SFormsOK
  <2>2. ASSUME NEW u \in SOwn' PROVE u \in SOwn /\ S!Slot(u) \in SSlots
    BY <1>1, <1>9 DEF SOwn
  <2>3. ASSUME NEW y \in Calls, SBusy(y, {"save"})'
        PROVE  SBusy(y, {"save"}) /\ call'[y] = call[y] /\ S!Slot(call[y].for) \in SSlots
    <3>1. SBusy(y, {"save"}) /\ call'[y] = call[y]
      BY <1>2, <2>3, SGone
    <3>2. SLive(y, {"save"})
      BY <1>0, <2>1, <3>1 DEF SGeneral, SOnly, SLive, SBusy, S!Changes
    <3> QED BY <1>0, <1>9, <3>1, <3>2, SFormCalls
  <2>4. \A y \in Calls : SBusy(y, {"save"})' =>
          LET h == forms'[S!Slot(call'[y].for)] IN
            /\ h.status # "saved"
            /\ h.fresh => h.shown.plain = call'[y].arg.fields.plain
            /\ call'[y].at = "ok" => db'.kept[call'[y].for].plain = call'[y].arg.fields.plain
    BY <1>1, <1>5, <1>8, <2>1, <2>3 DEF SSaved
  <2>5. \A u \in SOwn' : LET h == forms'[S!Slot(u)] IN
          h.status = "saved" /\ h.fresh => db'.kept[u].plain = h.shown.plain
    BY <1>1, <1>5, <1>8, <2>1, <2>2 DEF SSaved
  <2> QED BY <2>4, <2>5 DEF SSaved
<1> QED BY <1>2, <1>6, <1>7, <1>10, <1>11 DEF SInv, SFormsOK, SFactors


LEMMA SStill ==
  ASSUME call' = call, NEW kinds PROVE SFrame(kinds)
BY DEF SFrame

\* What a step leaves of the general part when it sends nothing.
LEMMA SActs ==
  ASSUME SGeneral, call' = call, tab' = tab, past' = past
  PROVE  SCalls' /\ SHere' /\ SOnly' /\ SPast' /\ SAges
<1>1. SCalls' /\ SPast'
  BY DEF SGeneral, SType, SCalls, SPast
<1>2. SHere' /\ SOnly' /\ SAges
  BY DEF SGeneral, SHere, SOnly, SAges, SLive, SBusy
<1> QED BY <1>1, <1>2

LEMMA SEditOK ==
  ASSUME SInv, tab \in S!Forms, NEW f \in S!Fields, NEW st,
         st = "idle" \/ st = forms[S!Slot(tab)].status, S!EditForm(f, st)
  PROVE  SInv'
<1>0. SGeneral /\ SFactors /\ SUsers /\ SPrefs /\ SFormsOK
  BY DEF SInv, SGeneral, SFactors, SFormsOK
<1> DEFINE g == [forms[S!Slot(tab)] EXCEPT !.shown = f, !.fresh = FALSE, !.status = st]
<1>1. /\ S!Spend(1) /\ S!SetForm(tab, g) /\ tab' = tab /\ call' = call
      /\ list' = list /\ prefs' = prefs /\ fa' = fa /\ db' = db /\ past' = past
  BY DEF S!EditForm, S!Act, S!Form
<1>2. SCalls' /\ SHere' /\ SOnly' /\ SPast' /\ SAges
  BY <1>0, <1>1, SActs
<1>3. tab \in SOwn /\ tab \in S!Tabs /\ S!Slot(tab) \in SSlots
  BY DEF SOwn, S!Tabs, S!Slot, SSlots
<1>4. /\ g = [shown |-> f, has |-> forms[S!Slot(tab)].has, status |-> st, fresh |-> FALSE]
      /\ g \in SForm
  <2> DEFINE old == forms[S!Slot(tab)]
  <2>1. old \in SForm
    BY <1>0, <1>3 DEF SGeneral, SType
  <2>2. st \in S!Status
    BY <2>1, SFormIs DEF S!Status
  <2>3. old.has \in BOOLEAN /\ f \in S!Fields \cup {None} /\ FALSE \in BOOLEAN
    BY <2>1, SFormIs
  <2>5. g = [shown |-> f, has |-> old.has, status |-> st, fresh |-> FALSE]
    <3>1. old = [shown |-> old.shown, has |-> old.has, status |-> old.status, fresh |-> old.fresh]
      BY <2>1, SFormIs
    <3>2. g = [old EXCEPT !.shown = f, !.fresh = FALSE, !.status = st]
      OBVIOUS
    <3> HIDE DEF g, old
    <3> QED BY <3>1, <3>2
  <2>6. [shown |-> f, has |-> old.has, status |-> st, fresh |-> FALSE] \in SForm
    BY Zenon, <2>2, <2>3 DEF SForm
  <2> QED BY <2>5, <2>6
<1> HIDE DEF g
<1>5. /\ forms' \in [SSlots -> SForm] /\ forms'[S!Slot(tab)] = g
      /\ \A s \in SSlots : s # S!Slot(tab) => forms'[s] = forms[s]
  BY <1>0, <1>1, <1>3, <1>4, SFormSet DEF SGeneral, SType
<1>6. SType'
  <2>1. edits' \in 0..MaxEdits
    BY <1>0, <1>1, SSpends DEF SGeneral, SType
  <2> QED BY <1>0, <1>1, <1>2, <1>5, <2>1 DEF SGeneral, SType
<1>7. SUsers' /\ SPrefs' /\ SFactors'
  BY <1>0, <1>1, <1>2, SStill, SUsersFrame, SPrefsFrame, SFactorsFrame
<1>8. /\ g.shown = f /\ g.has = forms[S!Slot(tab)].has /\ g.status = st /\ g.fresh = FALSE
  BY <1>4
<1>9. \A u \in SOwn : S!Slot(u) \in SSlots
  BY DEF S!Slot, SSlots
<1>10. SSecrets'
  <2>1. ASSUME NEW u \in SOwn', forms'[S!Slot(u)].has PROVE db'.kept[u].secret # None
    <3>1. u \in SOwn
      BY <1>1 DEF SOwn
    <3>2. CASE u = tab
      BY <1>0, <1>1, <1>3, <1>5, <1>8, <2>1, <3>2 DEF SFormsOK, SSecrets
    <3>3. CASE u # tab
      BY <1>0, <1>1, <1>3, <1>5, <1>9, <2>1, <3>1, <3>3, SSlotOwn DEF SFormsOK, SSecrets
    <3> QED BY <3>2, <3>3
  <2>2. ASSUME NEW y \in Calls, SLive(y, {"save"})' PROVE forms'[S!Slot(call'[y].for)].shown \in S!Fields
    <3>1. SLive(y, {"save"}) /\ call'[y] = call[y]
      BY <1>1, <2>2 DEF SLive, SBusy
    <3>2. call[y].for \in SOwn /\ forms[S!Slot(call[y].for)].shown \in S!Fields
      BY <1>0, <3>1, SFormCalls DEF SFormsOK, SSecrets
    <3> QED BY <1>5, <1>8, <1>9, <3>1, <3>2
  <2> QED BY <1>0, <1>1, <2>1, <2>2 DEF SFormsOK, SSecrets, SBusy
<1>11. SSaved'
  <2> SUFFICES ASSUME ~past'.twin, ~past'.torn PROVE SSaved'
    BY DEF SSaved
  <2>1. ~past.twin /\ ~past.torn /\ SSaved
    BY <1>0, <1>1 DEF SFormsOK
  <2>2. ASSUME NEW u \in SOwn' PROVE u \in SOwn /\ S!Slot(u) \in SSlots
    BY <1>1, <1>9 DEF SOwn
  <2>3. ASSUME NEW y \in Calls, SBusy(y, {"save"})'
        PROVE  SBusy(y, {"save"}) /\ call'[y] = call[y] /\ S!Slot(call[y].for) \in SSlots
    <3>1. SBusy(y, {"save"}) /\ call'[y] = call[y]
      BY <1>1, <2>3 DEF SBusy
    <3>2. SLive(y, {"save"})
      BY <1>0, <2>1, <3>1 DEF SGeneral, SOnly, SLive, SBusy, S!Changes
    <3> QED BY <1>0, <1>9, <3>1, <3>2, SFormCalls
  <2>4. \A y \in Calls : SBusy(y, {"save"})' =>
          LET h == forms'[S!Slot(call'[y].for)] IN
            /\ h.status # "saved"
            /\ h.fresh => h.shown.plain = call'[y].arg.fields.plain
            /\ call'[y].at = "ok" => db'.kept[call'[y].for].plain = call'[y].arg.fields.plain
    BY <1>1, <1>5, <1>8, <2>1, <2>3 DEF SSaved
  <2>5. \A u \in SOwn' : LET h == forms'[S!Slot(u)] IN
          h.status = "saved" /\ h.fresh => db'.kept[u].plain = h.shown.plain
    BY <1>1, <1>5, <1>8, <2>1, <2>2 DEF SSaved
  <2> QED BY <2>4, <2>5 DEF SSaved
<1> QED BY <1>2, <1>6, <1>7, <1>10, <1>11 DEF SInv, SFormsOK, SFactors

LEMMA SSubmitOK == ASSUME SInv, S!SubmitForm PROVE SInv'
<1>0. SGeneral /\ SFactors /\ SUsers /\ SPrefs /\ SFormsOK
  BY DEF SInv, SGeneral, SFactors, SFormsOK
<1> DEFINE old == forms[S!Slot(tab)]
           g == [old EXCEPT !.status = "saving", !.fresh = TRUE]
           a == [of |-> tab, fields |-> old.shown]
<1>1. /\ tab \in S!Forms /\ old.shown # None /\ S!Change("save", a) /\ S!SetForm(tab, g) /\ tab' = tab
      /\ list' = list /\ prefs' = prefs /\ fa' = fa /\ db' = db
  BY DEF S!SubmitForm, S!Form
<1>2. tab \in SOwn /\ tab \in S!Tabs /\ S!Slot(tab) \in SSlots
  BY <1>1 DEF SOwn, S!Tabs, S!Slot, SSlots
<1>3. old \in SForm /\ old.shown \in S!Fields
  <2>1. old \in SForm
    BY <1>0, <1>2 DEF SGeneral, SType
  <2> QED BY <1>1, <2>1, SFormIs
<1>4. /\ g = [shown |-> old.shown, has |-> old.has, status |-> "saving", fresh |-> TRUE]
      /\ g \in SForm
  <2>1. old = [shown |-> old.shown, has |-> old.has, status |-> old.status, fresh |-> old.fresh]
        /\ old.has \in BOOLEAN /\ old.shown \in S!Fields \cup {None}
    BY <1>3, SFormIs
  <2>2. g = [shown |-> old.shown, has |-> old.has, status |-> "saving", fresh |-> TRUE]
    <3>1. g = [old EXCEPT !.status = "saving", !.fresh = TRUE]
      OBVIOUS
    <3> HIDE DEF g, old
    <3> QED BY <2>1, <3>1
  <2>3. "saving" \in S!Status /\ TRUE \in BOOLEAN
    BY DEF S!Status
  <2>4. [shown |-> old.shown, has |-> old.has, status |-> "saving", fresh |-> TRUE] \in SForm
    <3> HIDE DEF old
    <3> QED BY Zenon, <2>1, <2>3 DEF SForm
  <2> QED BY <2>2, <2>4
<1>5. a \in [of : S!Forms, fields : S!Fields] /\ a.of = tab /\ a.fields = old.shown
  BY <1>1, <1>3
<1> HIDE DEF g, old, a
<1>6. /\ forms' \in [SSlots -> SForm] /\ forms'[S!Slot(tab)] = g
      /\ \A s \in SSlots : s # S!Slot(tab) => forms'[s] = forms[s]
  BY <1>0, <1>1, <1>2, <1>4, SFormSet DEF SGeneral, SType
<1>7. a \in SArgs /\ "save" \in S!Changes /\ SCall(S!NewCall("save", a, None))
  <2>1. a \in SArgs /\ "save" \in S!Changes /\ "save" \in SKinds /\ None \in {None} \cup SThens
    BY <1>5, SArgsHas DEF S!Changes, SKinds
  <2> DEFINE c == S!NewCall("save", a, None)
  <2>2. c \in SRequests /\ c.kind = "save" /\ c.for = tab /\ c.arg = a /\ c.at = "sent"
    BY <1>2, <2>1, SNewCall
  <2> HIDE DEF c
  <2>3. SCall(c)
    BY <1>5, <2>2 DEF SCall, S!OfCodes
  <2> QED BY <2>1, <2>3 DEF c
<1>8. /\ SCalls' /\ SHere' /\ SOnly' /\ SAges /\ SPast' /\ edits' \in 0..MaxEdits
      /\ past'.torn = past.torn
      /\ ~past'.twin => \A y \in Calls : ~SBusy(y, S!Changes) /\ ~SBusy(y, {"users"})
      /\ \E x \in Calls :
           /\ call[x] = NoCall /\ \A y \in Calls : y # x => call'[y] = call[y]
           /\ call'[x] # NoCall /\ call'[x].kind = "save" /\ call'[x].for = tab /\ call'[x].arg = a
           /\ call'[x].then = None /\ call'[x].at = "sent"
  BY <1>0, <1>1, <1>7, SChange
<1> PICK x \in Calls :
           /\ call[x] = NoCall /\ \A y \in Calls : y # x => call'[y] = call[y]
           /\ call'[x] # NoCall /\ call'[x].kind = "save" /\ call'[x].for = tab /\ call'[x].arg = a
           /\ call'[x].then = None /\ call'[x].at = "sent"
  BY <1>8
<1>9. SType'
  BY <1>0, <1>1, <1>6, <1>8 DEF SGeneral, SType
<1>10. SUsers' /\ SPrefs' /\ SFactors'
  BY <1>0, <1>1, <1>8, SOnlyForms DEF SFormKinds
<1>11. /\ g.shown \in S!Fields /\ g.shown = a.fields /\ g.has = forms[S!Slot(tab)].has
       /\ g.status = "saving"
  BY <1>3, <1>4, <1>5 DEF old
<1>12. \A u \in SOwn : S!Slot(u) \in SSlots
  BY DEF S!Slot, SSlots
<1>13. \A u \in SOwn' : u \in SOwn
  BY <1>1 DEF SOwn
<1>14. SSecrets'
  <2>1. ASSUME NEW u \in SOwn', forms'[S!Slot(u)].has PROVE db'.kept[u].secret # None
    <3>2. CASE u = tab
      BY <1>0, <1>1, <1>2, <1>6, <1>11, <2>1, <3>2 DEF SFormsOK, SSecrets
    <3>3. CASE u # tab
      BY <1>0, <1>1, <1>2, <1>6, <1>12, <1>13, <2>1, <3>3, SSlotOwn DEF SFormsOK, SSecrets
    <3> QED BY <3>2, <3>3
  <2>2. ASSUME NEW y \in Calls, SLive(y, {"save"})' PROVE forms'[S!Slot(call'[y].for)].shown \in S!Fields
    <3>1. CASE y = x
      BY <1>6, <1>11, <3>1
    <3>2. CASE y # x
      <4>1. SLive(y, {"save"}) /\ call'[y] = call[y]
        BY <2>2, <3>2 DEF SLive, SBusy
      <4>2. call[y].for \in SOwn /\ forms[S!Slot(call[y].for)].shown \in S!Fields
        BY <1>0, <4>1, SFormCalls DEF SFormsOK, SSecrets
      <4> QED BY <1>6, <1>11, <1>12, <4>1, <4>2
    <3> QED BY <3>1, <3>2
  <2>3. \A y \in Calls : /\ SBusy(y, {"load"})' => SBusy(y, {"load"}) /\ call'[y] = call[y]
                         /\ SBusy(y, {"save"})' => call'[y].at = "sent" \/
                                                   (SBusy(y, {"save"}) /\ call'[y] = call[y])
    BY DEF SBusy
  <2> QED BY <1>0, <1>1, <2>1, <2>2, <2>3 DEF SFormsOK, SSecrets
<1>15. SSaved'
  <2> SUFFICES ASSUME ~past'.twin, ~past'.torn PROVE SSaved'
    BY DEF SSaved
  <2>1. ~past.twin /\ ~past.torn /\ SSaved
    BY <1>0, <1>8 DEF SFormsOK, SAges
  <2>2. ASSUME NEW u \in SOwn' PROVE u \in SOwn /\ S!Slot(u) \in SSlots
    BY <1>12, <1>13
  <2>3. ASSUME NEW y \in Calls, SBusy(y, {"save"})' PROVE y = x
    BY <1>8, <2>3 DEF SBusy, S!Changes
  <2>4. \A y \in Calls : SBusy(y, {"save"})' =>
          LET h == forms'[S!Slot(call'[y].for)] IN
            /\ h.status # "saved"
            /\ h.fresh => h.shown.plain = call'[y].arg.fields.plain
            /\ call'[y].at = "ok" => db'.kept[call'[y].for].plain = call'[y].arg.fields.plain
    BY <1>6, <1>11, <2>3
  <2>5. \A u \in SOwn' : LET h == forms'[S!Slot(u)] IN
          h.status = "saved" /\ h.fresh => db'.kept[u].plain = h.shown.plain
    BY <1>1, <1>6, <1>11, <2>1, <2>2 DEF SSaved
  <2> QED BY <2>4, <2>5 DEF SSaved
<1> QED BY <1>8, <1>9, <1>10, <1>14, <1>15 DEF SInv, SFormsOK, SFactors

LEMMA SFormFailedOK == ASSUME SInv, NEW x \in Calls, S!FormFailed(x) PROVE SInv'
<1>0. SGeneral /\ SFactors /\ SUsers /\ SPrefs /\ SFormsOK
  BY DEF SInv, SGeneral, SFactors, SFormsOK
<1> DEFINE t == call[x].for
           old == forms[S!Slot(t)]
           g == [old EXCEPT !.status = "error"]
<1>1. /\ SLive(x, {"save"}) /\ call[x].at = "lost" /\ S!Done(x) /\ S!SetForm(t, g) /\ tab' = tab
      /\ list' = list /\ prefs' = prefs /\ fa' = fa /\ db' = db /\ edits' = edits
      /\ past' = past
  BY DEF S!FormFailed, S!Answered, SLive, SBusy
<1>2. /\ SCalls' /\ SHere' /\ SOnly' /\ SAges
      /\ call'[x] = NoCall /\ \A y \in Calls : y # x => call'[y] = call[y]
  BY <1>0, <1>1, SDones
<1>3. t \in SOwn /\ t \in S!Tabs /\ S!Slot(t) \in SSlots
  BY <1>0, <1>1, SFormCalls, SOwnTabs DEF SGeneral, SType, S!Slot, SSlots
<1>4. /\ g = [shown |-> old.shown, has |-> old.has, status |-> "error", fresh |-> old.fresh]
      /\ g \in SForm
  <2>1. old \in SForm
    BY <1>0, <1>3 DEF SGeneral, SType
  <2>2. old = [shown |-> old.shown, has |-> old.has, status |-> old.status, fresh |-> old.fresh]
        /\ old.has \in BOOLEAN /\ old.shown \in S!Fields \cup {None} /\ old.fresh \in BOOLEAN
    BY <2>1, SFormIs
  <2>3. g = [shown |-> old.shown, has |-> old.has, status |-> "error", fresh |-> old.fresh]
    <3>1. g = [old EXCEPT !.status = "error"]
      OBVIOUS
    <3> HIDE DEF g, old
    <3> QED BY <2>2, <3>1
  <2>4. "error" \in S!Status
    BY DEF S!Status
  <2>5. [shown |-> old.shown, has |-> old.has, status |-> "error", fresh |-> old.fresh] \in SForm
    <3> HIDE DEF old
    <3> QED BY Zenon, <2>2, <2>4 DEF SForm
  <2> QED BY <2>3, <2>5
<1>5. /\ forms' \in [SSlots -> SForm] /\ forms'[S!Slot(t)] = g
      /\ \A s \in SSlots : s # S!Slot(t) => forms'[s] = forms[s]
  <2> HIDE DEF g, t
  <2> QED BY <1>0, <1>1, <1>3, <1>4, SFormSet DEF SGeneral, SType
<1>6. SType'
  BY <1>0, <1>1, <1>2, <1>5 DEF SGeneral, SType, SPast
<1>7. SUsers' /\ SPrefs' /\ SFactors'
  BY <1>0, <1>1, <1>2, SOnlyForms DEF SFormKinds, SLive, SBusy
<1>8. \A s \in SSlots : forms'[s].shown = forms[s].shown /\ forms'[s].has = forms[s].has
  BY <1>4, <1>5
<1>9. \A u \in SOwn : S!Slot(u) \in SSlots
  BY DEF S!Slot, SSlots
<1>10. SSecrets'
  <2>1. \A u \in SOwn' : u \in SOwn
    BY <1>1 DEF SOwn
  <2>2. ASSUME NEW y \in Calls, SLive(y, {"save"})' PROVE forms'[S!Slot(call'[y].for)].shown \in S!Fields
    <3>1. SLive(y, {"save"}) /\ call'[y] = call[y]
      BY <1>2, <2>2, SGone
    <3>2. call[y].for \in SOwn /\ forms[S!Slot(call[y].for)].shown \in S!Fields
      BY <1>0, <3>1, SFormCalls DEF SFormsOK, SSecrets
    <3> QED BY <1>8, <1>9, <3>1, <3>2
  <2>3. \A y \in Calls : /\ SBusy(y, {"load"})' => SBusy(y, {"load"}) /\ call'[y] = call[y]
                         /\ SBusy(y, {"save"})' => SBusy(y, {"save"}) /\ call'[y] = call[y]
    BY <1>2, SGone
  <2> QED BY <1>0, <1>1, <1>8, <1>9, <2>1, <2>2, <2>3 DEF SFormsOK, SSecrets
<1>11. past'.torn
  <2>1. SBusy(x, SKinds)
    BY <1>1 DEF SLive, SBusy, SKinds, S!Changes
  <2>2. past.torn
    BY <1>0, <1>1, <2>1 DEF SGeneral, SOnly
  <2> QED BY <1>1, <2>2
<1>12. SSaved'
  BY <1>11 DEF SSaved
<1> QED BY <1>2, <1>6, <1>7, <1>10, <1>12 DEF SInv, SFormsOK, SFactors


LEMMA SStoredIs ==
  ASSUME db \in SStored
  PROVE  /\ db.kept \in [S!Forms -> S!Fields] /\ db.people \in SUBSET People
         /\ db.on \in SUBSET Events /\ db.secret \in S!Keys /\ db.enabled \in BOOLEAN
         /\ db.batch \in S!Keys /\ db.made \in S!Keys
         /\ db = [kept |-> db.kept, people |-> db.people, on |-> db.on, secret |-> db.secret,
                  enabled |-> db.enabled, batch |-> db.batch, made |-> db.made]
BY DEF SStored

LEMMA SStoredMade ==
  ASSUME NEW k \in [S!Forms -> S!Fields], NEW p \in SUBSET People, NEW o \in SUBSET Events,
         NEW s \in S!Keys, NEW e \in BOOLEAN, NEW b \in S!Keys, NEW m \in S!Keys
  PROVE  [kept |-> k, people |-> p, on |-> o, secret |-> s, enabled |-> e, batch |-> b, made |-> m]
           \in SStored
BY Zenon DEF SStored

\* A request that was answered keeps its type.
LEMMA SReplied ==
  ASSUME SCalls, NEW x \in Calls, DOMAIN call' = Calls, \A y \in Calls : y # x => call'[y] = call[y],
         SCall(call'[x])
  PROVE  SCalls'
BY DEF SCalls

LEMMA SFormSavedOK == ASSUME SInv, NEW x \in Calls, S!FormSaved(x) PROVE SInv'
<1>0. SGeneral /\ SFactors /\ SUsers /\ SPrefs /\ SFormsOK
  BY DEF SInv, SGeneral, SFactors, SFormsOK
<1> DEFINE t == call[x].for
           old == forms[S!Slot(t)]
           sent == call[x].arg.fields.secret # None
           g == [old EXCEPT !.status = "saved", !.has = old.has \/ sent,
                            !.shown.secret = IF sent THEN None ELSE old.shown.secret]
<1>1. /\ SLive(x, {"save"}) /\ call[x].at = "ok" /\ S!Done(x) /\ S!SetForm(t, g) /\ tab' = tab
      /\ list' = list /\ prefs' = prefs /\ fa' = fa /\ db' = db /\ edits' = edits
      /\ past' = past
  BY DEF S!FormSaved, S!Answered, SLive, SBusy
<1>2. /\ SCalls' /\ SHere' /\ SOnly' /\ SAges
      /\ call'[x] = NoCall /\ \A y \in Calls : y # x => call'[y] = call[y]
  BY <1>0, <1>1, SDones
<1>3. /\ t \in SOwn /\ t \in S!Tabs /\ S!Slot(t) \in SSlots /\ t = call[x].arg.of
      /\ call[x].arg \in [of : S!Forms, fields : S!Fields] /\ SBusy(x, {"save"})
  BY <1>0, <1>1, SFormCalls, SOwnTabs DEF SGeneral, SType, S!Slot, SSlots, SLive
<1> DEFINE v == IF sent THEN None ELSE old.shown.secret
           b == old.has \/ sent
           s == [old.shown EXCEPT !.secret = v]
<1>4. /\ g = [shown |-> s, has |-> b, status |-> "saved", fresh |-> old.fresh]
      /\ g \in SForm /\ s \in S!Fields /\ s.plain = old.shown.plain
  <2>1. old \in SForm /\ old.shown \in S!Fields
    BY <1>0, <1>1, <1>3 DEF SGeneral, SType, SFormsOK, SSecrets
  <2>2. old = [shown |-> old.shown, has |-> old.has, status |-> old.status, fresh |-> old.fresh]
        /\ old.has \in BOOLEAN /\ old.fresh \in BOOLEAN
    BY <2>1, SFormIs
  <2>3. g = [shown |-> s, has |-> b, status |-> "saved", fresh |-> old.fresh]
    <3>1. g = [old EXCEPT !.status = "saved", !.has = b, !.shown = s]
      <4>1. g = [old EXCEPT !.status = "saved", !.has = b, !.shown.secret = v]
        OBVIOUS
      <4> HIDE DEF b, v
      <4> QED BY <2>2, <4>1
    <3> HIDE DEF g, old, b, v, s
    <3> QED BY <2>2, <3>1
  <2>4. s \in S!Fields /\ s.plain = old.shown.plain
    <3>1. old.shown.plain \in Values /\ old.shown.secret \in Passwords \cup {None}
          /\ old.shown = [plain |-> old.shown.plain, secret |-> old.shown.secret]
      BY <2>1 DEF S!Fields
    <3>2. v \in Passwords \cup {None}
      BY <3>1
    <3>3. s = [plain |-> old.shown.plain, secret |-> v]
      <4>1. s = [old.shown EXCEPT !.secret = v]
        OBVIOUS
      <4> HIDE DEF v, s, old
      <4> QED BY <3>1, <4>1
    <3> HIDE DEF v, s, old
    <3> QED BY <3>1, <3>2, <3>3 DEF S!Fields
  <2>5. "saved" \in S!Status /\ b \in BOOLEAN
    BY <2>2 DEF S!Status
  <2>6. [shown |-> s, has |-> b, status |-> "saved", fresh |-> old.fresh] \in SForm
    <3> HIDE DEF old, s, b
    <3>1. s \in S!Fields \cup {None}
      BY <2>4
    <3> QED BY Zenon, <2>2, <2>5, <3>1 DEF SForm
  <2> QED BY <2>3, <2>4, <2>6
<1>5. /\ forms' \in [SSlots -> SForm] /\ forms'[S!Slot(t)] = g
      /\ \A u \in SSlots : u # S!Slot(t) => forms'[u] = forms[u]
  <2> HIDE DEF g, t
  <2> QED BY <1>0, <1>1, <1>3, <1>4, SFormSet DEF SGeneral, SType
<1>6. SType'
  BY <1>0, <1>1, <1>2, <1>5 DEF SGeneral, SType, SPast
<1>7. SUsers' /\ SPrefs' /\ SFactors'
  BY <1>0, <1>1, <1>2, SOnlyForms DEF SFormKinds, SLive, SBusy
<1> HIDE DEF s
<1>8. /\ g.shown \in S!Fields /\ (g.has <=> old.has \/ sent) /\ g.fresh = old.fresh
      /\ g.shown.plain = old.shown.plain
  BY <1>4
<1> HIDE DEF g, b, v
<1>9. \A u \in SOwn : S!Slot(u) \in SSlots
  BY DEF S!Slot, SSlots
<1>s. sent => db.kept[t].secret # None
  BY <1>0, <1>1, <1>3 DEF SFormsOK, SSecrets, SBusy
<1>10. SSecrets'
  <2>1. ASSUME NEW u \in SOwn', forms'[S!Slot(u)].has PROVE db'.kept[u].secret # None
    <3>1. u \in SOwn
      BY <1>1 DEF SOwn
    <3>2. CASE u = t
      BY <1>0, <1>1, <1>3, <1>5, <1>8, <1>s, <2>1, <3>2 DEF SFormsOK, SSecrets
    <3>3. CASE u # t
      BY <1>0, <1>1, <1>3, <1>5, <1>9, <2>1, <3>1, <3>3, SSlotOwn DEF SFormsOK, SSecrets
    <3> QED BY <3>2, <3>3
  <2>2. ASSUME NEW y \in Calls, SLive(y, {"save"})' PROVE forms'[S!Slot(call'[y].for)].shown \in S!Fields
    <3>1. SLive(y, {"save"}) /\ call'[y] = call[y]
      BY <1>2, <2>2, SGone
    <3>2. call[y].for \in SOwn /\ forms[S!Slot(call[y].for)].shown \in S!Fields
      BY <1>0, <3>1, SFormCalls DEF SFormsOK, SSecrets
    <3> QED BY <1>5, <1>8, <1>9, <3>1, <3>2
  <2>3. \A y \in Calls : /\ SBusy(y, {"load"})' => SBusy(y, {"load"}) /\ call'[y] = call[y]
                         /\ SBusy(y, {"save"})' => SBusy(y, {"save"}) /\ call'[y] = call[y]
    BY <1>2, SGone
  <2> QED BY <1>0, <1>1, <2>1, <2>2, <2>3 DEF SFormsOK, SSecrets
<1>11. SSaved'
  <2> SUFFICES ASSUME ~past'.twin, ~past'.torn PROVE SSaved'
    BY DEF SSaved
  <2>1. ~past.twin /\ ~past.torn /\ SSaved
    BY <1>0, <1>1 DEF SFormsOK
  <2>2. ASSUME NEW y \in Calls, SBusy(y, {"save"})' PROVE FALSE
    <3>1. SBusy(y, {"save"}) /\ y # x
      BY <1>2, <2>2, SGone
    <3> QED BY <1>0, <1>3, <2>1, <3>1 DEF SGeneral, SOnly, SBusy, S!Changes
  <2>3. ASSUME NEW u \in SOwn', forms'[S!Slot(u)].status = "saved", forms'[S!Slot(u)].fresh
        PROVE  db'.kept[u].plain = forms'[S!Slot(u)].shown.plain
    <3>1. u \in SOwn
      BY <1>1 DEF SOwn
    <3>2. CASE u = t
      <4>1. old.fresh => db.kept[t].plain = old.shown.plain
        BY <1>1, <1>3, <2>1 DEF SSaved
      <4> QED BY <1>1, <1>5, <1>8, <2>3, <3>2, <4>1
    <3>3. CASE u # t
      BY <1>1, <1>3, <1>5, <1>9, <2>1, <2>3, <3>1, <3>3, SSlotOwn DEF SSaved
    <3> QED BY <3>2, <3>3
  <2> QED BY <2>2, <2>3 DEF SSaved
<1> QED BY <1>2, <1>6, <1>7, <1>10, <1>11 DEF SInv, SFormsOK, SFactors

\* The server reads a form.
LEMMA SServeLoad == ASSUME SInv, NEW x \in Calls, S!Serve(x), call[x].kind = "load" PROVE SInv'
<1>0. SGeneral /\ SFactors /\ SUsers /\ SPrefs /\ SFormsOK
  BY DEF SInv, SGeneral, SFactors, SFormsOK
<1> DEFINE r == S!Served(call[x])
<1>1. r.db = db /\ r.data = db.kept[call[x].arg] /\ r.ok = TRUE
  BY DEF S!Served, S!Reply
<1>2. SCall(call[x])
  BY <1>0 DEF S!Serve, SGeneral, SType, SCalls
<1>3. call[x].arg \in S!Forms /\ r.data \in S!Fields /\ r.data \in SData
  BY <1>0, <1>1, <1>2, SStoredIs, SDataHas DEF SCall, SGeneral, SType
<1> HIDE DEF r
<1>4. /\ SHere' /\ SOnly' /\ SAges /\ SPast' /\ db' = r.db
      /\ call[x] # NoCall
      /\ call'[x] \in SRequests /\ call'[x] # NoCall /\ call'[x].kind = call[x].kind
      /\ call'[x].for = call[x].for /\ call'[x].arg = call[x].arg /\ call'[x].then = call[x].then
      /\ call'[x].at = (IF r.ok THEN "ok" ELSE "refused") /\ call'[x].data = r.data
      /\ DOMAIN call' = Calls /\ \A y \in Calls : y # x => call'[y] = call[y]
      /\ past'.twin = past.twin /\ past'.unread = past.unread
      /\ tab' = tab /\ forms' = forms /\ list' = list /\ prefs' = prefs /\ fa' = fa /\ edits' = edits
  BY <1>0, <1>3, SServes DEF r
<1>5. SCall(call'[x])
  BY <1>1, <1>2, <1>3, <1>4 DEF SCall, S!OfCodes
<1>6. SType'
  <2>1. SCalls'
    BY <1>0, <1>4, <1>5, SReplied DEF SGeneral, SType
  <2> QED BY <1>0, <1>1, <1>4, <2>1 DEF SGeneral, SType
<1>7. SUsers' /\ SPrefs' /\ SFactors'
  BY <1>0, <1>1, <1>4, SOnlyForms DEF SFormKinds
<1>8. \A y \in Calls : /\ SBusy(y, {"load"})' => y = x \/ (SBusy(y, {"load"}) /\ call'[y] = call[y])
                       /\ SBusy(y, {"save"})' => SBusy(y, {"save"}) /\ call'[y] = call[y]
                       /\ SLive(y, {"save"})' => SLive(y, {"save"}) /\ call'[y] = call[y]
  BY <1>4 DEF SBusy, SLive
<1>9. SSecrets'
  BY <1>0, <1>1, <1>4, <1>8 DEF SFormsOK, SSecrets, SOwn
<1>10. SSaved'
  BY <1>0, <1>1, <1>4, <1>8 DEF SFormsOK, SSaved, SOwn, SAges
<1> QED BY <1>4, <1>6, <1>7, <1>9, <1>10 DEF SInv, SFormsOK, SFactors

\* ... or stores one; a blank secret keeps the stored one.
LEMMA SServeSave == ASSUME SInv, NEW x \in Calls, S!Serve(x), call[x].kind = "save" PROVE SInv'
<1>0. SGeneral /\ SFactors /\ SUsers /\ SPrefs /\ SFormsOK
  BY DEF SInv, SGeneral, SFactors, SFormsOK
<1> DEFINE r == S!Served(call[x])
           t == call[x].arg.of
           f == call[x].arg.fields
           new == [plain |-> f.plain, secret |-> IF f.secret = None THEN db.kept[t].secret ELSE f.secret]
<1>1. r.db = [db EXCEPT !.kept[t] = new] /\ r.data = None /\ r.ok = TRUE
  BY DEF S!Served, S!Reply, S!Save
<1>2. SCall(call[x])
  BY <1>0 DEF S!Serve, SGeneral, SType, SCalls
<1>3. t \in S!Forms /\ f \in S!Fields /\ r.data \in SData
  BY <1>1, <1>2, SDataHas DEF SCall
<1> HIDE DEF r
<1>4. /\ SHere' /\ SOnly' /\ SAges /\ SPast' /\ db' = r.db
      /\ call[x] # NoCall /\ call[x].at = "sent"
      /\ call'[x] \in SRequests /\ call'[x] # NoCall /\ call'[x].kind = call[x].kind
      /\ call'[x].for = call[x].for /\ call'[x].arg = call[x].arg /\ call'[x].then = call[x].then
      /\ call'[x].at = (IF r.ok THEN "ok" ELSE "refused") /\ call'[x].data = r.data
      /\ DOMAIN call' = Calls /\ \A y \in Calls : y # x => call'[y] = call[y]
      /\ past'.twin = past.twin /\ past'.unread = past.unread
      /\ tab' = tab /\ forms' = forms /\ list' = list /\ prefs' = prefs /\ fa' = fa /\ edits' = edits
  BY <1>0, <1>3, SServes DEF r
<1>5. SCall(call'[x])
  BY <1>1, <1>2, <1>3, <1>4 DEF SCall, S!OfCodes
<1>6. /\ new \in S!Fields /\ new.plain = f.plain /\ (f.secret # None => new.secret # None)
      /\ (db.kept[t].secret # None => new.secret # None)
  <2>1. db.kept[t] \in S!Fields
    BY <1>0, <1>3, SStoredIs DEF SGeneral, SType
  <2> QED BY <1>3, <2>1 DEF S!Fields
<1> HIDE DEF new
<1>7. /\ db' \in SStored /\ db'.kept = [db.kept EXCEPT ![t] = new]
      /\ db'.people = db.people /\ db'.on = db.on /\ db'.enabled = db.enabled
      /\ db'.batch = db.batch /\ db'.secret = db.secret
  <2>0. db \in SStored
    BY <1>0 DEF SGeneral, SType
  <2> DEFINE k == [db.kept EXCEPT ![t] = new]
  <2>1. k \in [S!Forms -> S!Fields]
    BY <1>6, <2>0, SStoredIs
  <2>2. db' = [db EXCEPT !.kept = k]
    BY <1>1, <1>4, <2>0, SStoredIs
  <2> HIDE DEF k
  <2>3. db' = [kept |-> k, people |-> db.people, on |-> db.on, secret |-> db.secret,
               enabled |-> db.enabled, batch |-> db.batch, made |-> db.made]
    BY <2>0, <2>2, SStoredIs
  <2>4. [kept |-> k, people |-> db.people, on |-> db.on, secret |-> db.secret,
               enabled |-> db.enabled, batch |-> db.batch, made |-> db.made] \in SStored
    BY Zenon, <2>0, <2>1, SStoredIs, SStoredMade
  <2> QED BY <2>3, <2>4 DEF k
<1>8. /\ db'.kept[t] = new /\ \A u \in S!Forms : u # t => db'.kept[u] = db.kept[u]
      /\ \A u \in S!Forms : db.kept[u].secret # None => db'.kept[u].secret # None
  <2>1. db.kept \in [S!Forms -> S!Fields]
    BY <1>0, SStoredIs DEF SGeneral, SType
  <2> QED BY <1>3, <1>6, <1>7, <2>1
<1>9. SType'
  <2>1. SCalls'
    BY <1>0, <1>4, <1>5, SReplied DEF SGeneral, SType
  <2> QED BY <1>0, <1>4, <1>7, <2>1 DEF SGeneral, SType
<1>10. SUsers' /\ SPrefs' /\ SFactors'
  BY <1>0, <1>4, <1>7, SOnlyForms DEF SFormKinds
<1>11. \A y \in Calls :
         /\ SBusy(y, {"load"})' => SBusy(y, {"load"}) /\ call'[y] = call[y] /\ call[y].arg \in S!Forms
         /\ SBusy(y, {"save"})' => y = x \/ (/\ SBusy(y, {"save"}) /\ call'[y] = call[y]
                                             /\ call[y].arg.of \in S!Forms)
         /\ SLive(y, {"save"})' => SLive(y, {"save"}) /\ call'[y].for = call[y].for
  <2>1. \A y \in Calls : call[y] # NoCall => SCall(call[y])
    BY <1>0 DEF SGeneral, SType, SCalls
  <2> QED BY <1>4, <2>1 DEF SBusy, SLive, SCall
<1>12. SOwn' = SOwn /\ SOwn \subseteq S!Forms
  BY <1>0, <1>4, SOwnTabs DEF SOwn, SGeneral, SType
<1>13. SSecrets'
  <2>1. \A u \in SOwn' : forms'[S!Slot(u)].has => db'.kept[u].secret # None
    BY <1>0, <1>4, <1>8, <1>12 DEF SFormsOK, SSecrets
  <2>2. \A y \in Calls : SLive(y, {"save"})' => forms'[S!Slot(call'[y].for)].shown \in S!Fields
    BY <1>0, <1>4, <1>11 DEF SFormsOK, SSecrets
  <2>3. ASSUME NEW y \in Calls,
               \/ SBusy(y, {"load"})' /\ call'[y].at = "ok" /\ call'[y].data.secret # None
               \/ SBusy(y, {"save"})' /\ call'[y].at = "ok" /\ call'[y].arg.fields.secret # None
        PROVE  db'.kept[IF call'[y].kind = "load" THEN call'[y].arg ELSE call'[y].arg.of].secret # None
    <3>1. CASE SBusy(y, {"load"})'
      <4>1. call'[y].kind = "load" /\ call[y].arg \in S!Forms
        BY <1>11, <3>1 DEF SBusy
      <4>2. db.kept[call[y].arg].secret # None
        BY <1>0, <1>11, <2>3, <3>1, <4>1 DEF SFormsOK, SSecrets, SBusy
      <4> QED BY <1>8, <1>11, <3>1, <4>1, <4>2
    <3>2. CASE SBusy(y, {"save"})' /\ y = x
      BY <1>4, <1>6, <1>8, <2>3, <3>2 DEF SBusy
    <3>3. CASE SBusy(y, {"save"})' /\ y # x
      <4>1. call'[y].kind = "save" /\ call[y].arg.of \in S!Forms /\ call'[y] = call[y]
        BY <1>11, <3>3 DEF SBusy
      <4>2. db.kept[call[y].arg.of].secret # None
        BY <1>0, <1>11, <2>3, <3>3, <4>1 DEF SFormsOK, SSecrets, SBusy
      <4> QED BY <1>8, <4>1, <4>2
    <3> QED BY <2>3, <3>1, <3>2, <3>3
  <2> QED BY <2>1, <2>2, <2>3 DEF SSecrets
<1>14. SSaved'
  <2> SUFFICES ASSUME ~past'.twin, ~past'.torn PROVE SSaved'
    BY DEF SSaved
  <2>1. ~past.twin /\ ~past.torn /\ SSaved
    BY <1>0, <1>4 DEF SFormsOK, SAges
  <2>2. SBusy(x, {"save"}) /\ call[x].for = t
    BY <1>0, <1>2, <1>4, <2>1 DEF SBusy, SGeneral, SOnly, S!Changes, SCall
  <2>3. ASSUME NEW y \in Calls, SBusy(y, {"save"})' PROVE y = x
    BY <1>0, <1>11, <2>1, <2>2, <2>3 DEF SGeneral, SOnly, SBusy, S!Changes
  <2>4. /\ forms[S!Slot(t)].status # "saved"
        /\ forms[S!Slot(t)].fresh => forms[S!Slot(t)].shown.plain = f.plain
    BY <2>1, <2>2 DEF SSaved
  <2>5. \A y \in Calls : SBusy(y, {"save"})' =>
          LET h == forms'[S!Slot(call'[y].for)] IN
            /\ h.status # "saved"
            /\ h.fresh => h.shown.plain = call'[y].arg.fields.plain
            /\ call'[y].at = "ok" => db'.kept[call'[y].for].plain = call'[y].arg.fields.plain
    BY <1>4, <1>6, <1>8, <2>2, <2>3, <2>4
  <2>6. \A u \in SOwn' : LET h == forms'[S!Slot(u)] IN
          h.status = "saved" /\ h.fresh => db'.kept[u].plain = h.shown.plain
    BY <1>4, <1>8, <1>12, <2>1, <2>4 DEF SSaved
  <2> QED BY <2>5, <2>6 DEF SSaved
<1> QED BY <1>4, <1>9, <1>10, <1>13, <1>14 DEF SInv, SFormsOK, SFactors


---------------------------------------------------------------------------
(* The accounts.                                                           *)

LEMMA SListSet ==
  ASSUME list \in [names : (SUBSET People) \cup {None}, status : S!Status],
         NEW n \in (SUBSET People) \cup {None}, NEW s \in S!Status,
         list' = [list EXCEPT !.names = n, !.status = s]
  PROVE  list' \in [names : (SUBSET People) \cup {None}, status : S!Status] /\ list'.names = n
<1>1. list' = [names |-> n, status |-> s]
  OBVIOUS
<1> QED BY <1>1

LEMMA SListIs ==
  ASSUME list \in [names : (SUBSET People) \cup {None}, status : S!Status]
  PROVE  /\ list.names \in (SUBSET People) \cup {None} /\ list.status \in S!Status
         /\ list = [names |-> list.names, status |-> list.status]
OBVIOUS

\* A new status leaves the accounts that are listed.
LEMMA SListSays ==
  ASSUME list \in [names : (SUBSET People) \cup {None}, status : S!Status],
         NEW s \in S!Status, list' = [list EXCEPT !.status = s]
  PROVE  list' \in [names : (SUBSET People) \cup {None}, status : S!Status] /\ list'.names = list.names
<1>1. list' = [names |-> list.names, status |-> s]
  BY SListIs
<1> QED BY <1>1

LEMMA SListedOK == ASSUME SInv, NEW x \in Calls, S!Listed(x) PROVE SInv'
<1>0. SGeneral /\ SFactors /\ SUsers /\ SPrefs /\ SFormsOK
  BY DEF SInv, SGeneral, SFactors, SFormsOK
<1>1. /\ SLive(x, {"users"}) /\ call[x].at = "ok" /\ S!Done(x) /\ tab' = tab
      /\ list' = [list EXCEPT !.names = call[x].data]
      /\ forms' = forms /\ prefs' = prefs /\ fa' = fa /\ db' = db /\ edits' = edits
      /\ past' = past
  BY DEF S!Listed, S!Answered, SLive, SBusy
<1>2. /\ SCalls' /\ SHere' /\ SOnly' /\ SAges
      /\ call'[x] = NoCall /\ \A y \in Calls : y # x => call'[y] = call[y]
  BY <1>0, <1>1, SDones
<1>3. call[x].data \in SUBSET People
  BY <1>0, <1>1 DEF SGeneral, SType, SCalls, SCall, SLive, SBusy
<1>4. /\ list' \in [names : (SUBSET People) \cup {None}, status : S!Status]
      /\ list'.names = call[x].data
  <2>1. list' = [names |-> call[x].data, status |-> list.status] /\ list.status \in S!Status
    BY <1>0, <1>1, SListIs DEF SGeneral, SType
  <2> QED BY <1>3, <2>1
<1>5. SType'
  BY <1>0, <1>1, <1>2, <1>4 DEF SGeneral, SType, SPast
<1>6. SFormsOK' /\ SPrefs' /\ SFactors'
  BY <1>0, <1>1, <1>2, SOnlyUsers DEF SUserKinds, SLive, SBusy
<1>7. SUsers'
  <2>1. \A y \in Calls : \A k : SBusy(y, k)' => SBusy(y, k) /\ call'[y] = call[y]
    BY <1>2, SGone
  <2>2. ~past.twin => call[x].data = db.people
    BY <1>0, <1>1 DEF SUsers, SLive
  <2> QED BY <1>0, <1>1, <1>4, <2>1, <2>2 DEF SUsers
<1> QED BY <1>2, <1>5, <1>6, <1>7 DEF SInv, SFactors, SFormsOK

LEMMA SUserCalls ==
  ASSUME tab = "users", NEW k \in {"add", "remove"}, NEW p \in People
  PROVE  p \in SArgs /\ k \in S!Changes /\ SCall(S!NewCall(k, p, None))
<1>1. p \in SArgs /\ k \in S!Changes /\ k \in SKinds /\ None \in {None} \cup SThens /\ tab \in S!Tabs
  BY SArgsHas DEF S!Changes, SKinds, S!Tabs
<1> DEFINE c == S!NewCall(k, p, None)
<1>2. c \in SRequests /\ c.kind = k /\ c.for = tab /\ c.arg = p /\ c.at = "sent"
  BY <1>1, SNewCall
<1> HIDE DEF c
<1>3. SCall(c)
  BY <1>2 DEF SCall, S!OfCodes
<1> QED BY <1>1, <1>3 DEF c

\* An account is added or removed.
LEMMA SUserChange ==
  ASSUME SInv, tab = "users", NEW k \in {"add", "remove"}, NEW p \in People, S!Change(k, p),
         list' \in [names : (SUBSET People) \cup {None}, status : S!Status], list'.names = list.names,
         tab' = tab, forms' = forms, prefs' = prefs, fa' = fa, db' = db
  PROVE  SInv'
<1>0. SGeneral /\ SFactors /\ SUsers /\ SPrefs /\ SFormsOK
  BY DEF SInv, SGeneral, SFactors, SFormsOK
<1>1. p \in SArgs /\ k \in S!Changes /\ SCall(S!NewCall(k, p, None))
  BY SUserCalls
<1>2. /\ SCalls' /\ SHere' /\ SOnly' /\ SAges /\ SPast' /\ edits' \in 0..MaxEdits
      /\ past'.torn = past.torn
      /\ ~past'.twin => \A y \in Calls : ~SBusy(y, S!Changes) /\ ~SBusy(y, {"users"})
      /\ \E x \in Calls :
           /\ call[x] = NoCall /\ \A y \in Calls : y # x => call'[y] = call[y]
           /\ call'[x] # NoCall /\ call'[x].kind = k /\ call'[x].for = tab /\ call'[x].arg = p
           /\ call'[x].then = None /\ call'[x].at = "sent"
  BY <1>0, <1>1, SChange
<1> PICK x \in Calls :
           /\ call[x] = NoCall /\ \A y \in Calls : y # x => call'[y] = call[y]
           /\ call'[x] # NoCall /\ call'[x].kind = k /\ call'[x].for = tab /\ call'[x].arg = p
           /\ call'[x].then = None /\ call'[x].at = "sent"
  BY <1>2
<1>3. SType'
  BY <1>0, <1>2 DEF SGeneral, SType
<1>4. SFormsOK' /\ SPrefs' /\ SFactors'
  BY <1>0, <1>2, SOnlyUsers DEF SUserKinds
<1>5. SUsers'
  <2> SUFFICES ASSUME ~past'.twin PROVE SUsers'
    BY DEF SUsers
  <2>1. ~past.twin /\ SUsers /\ \A y \in Calls : ~SBusy(y, S!Changes) /\ ~SBusy(y, {"users"})
    BY <1>0, <1>2 DEF SAges
  <2>2. \A y \in Calls : ~SBusy(y, {"users"})'
    BY <2>1 DEF SBusy
  <2>3. \A y \in Calls : ~SLive(y, {"users"}) /\ ~(SBusy(y, {"add", "remove"}) /\ call[y].at = "ok")
    BY <2>1 DEF SBusy, SLive, S!Changes
  <2>4. ~past'.torn => list'.names \in {None, db'.people}
    BY <1>2, <2>1, <2>3 DEF SUsers
  <2> QED BY <2>2, <2>4 DEF SUsers
<1> QED BY <1>2, <1>3, <1>4, <1>5 DEF SInv, SFactors, SFormsOK

LEMMA SAddOK == ASSUME SInv, NEW p \in People, S!Add(p) PROVE SInv'
<1>1. /\ tab = "users" /\ S!Change("add", p) /\ tab' = tab /\ forms' = forms /\ prefs' = prefs
      /\ fa' = fa /\ db' = db /\ list' = [list EXCEPT !.status = "saving"]
  BY DEF S!Add
<1>2. "saving" \in S!Status /\ list \in [names : (SUBSET People) \cup {None}, status : S!Status]
  BY DEF S!Status, SInv, SType
<1> QED BY <1>1, <1>2, SListSays, SUserChange

LEMMA SRemoveOK == ASSUME SInv, NEW p \in People, S!Remove(p) PROVE SInv'
<1>1. /\ tab = "users" /\ S!Change("remove", p) /\ tab' = tab /\ forms' = forms /\ prefs' = prefs
      /\ fa' = fa /\ db' = db /\ list' = list
  BY DEF S!Remove
<1>2. list' \in [names : (SUBSET People) \cup {None}, status : S!Status] /\ list'.names = list.names
  BY <1>1 DEF SInv, SType
<1> QED BY <1>1, <1>2, SUserChange

\* The list is loaded again after a change.
LEMMA SUserReload ==
  ASSUME SInv, NEW x \in Calls, NEW k \in {"add", "remove"}, S!Answered(x, k, "ok"),
         S!DoneThen(x, "users", k),
         list' \in [names : (SUBSET People) \cup {None}, status : S!Status], list'.names = list.names,
         tab' = tab, forms' = forms, prefs' = prefs, fa' = fa, db' = db, edits' = edits, past' = past
  PROVE  SInv'
<1>0. SGeneral /\ SFactors /\ SUsers /\ SPrefs /\ SFormsOK
  BY DEF SInv, SGeneral, SFactors, SFormsOK
<1>1. SLive(x, {"add", "remove"}) /\ SBusy(x, {"add", "remove"}) /\ call[x].at = "ok" /\ call[x] # NoCall
  BY DEF S!Answered, SLive, SBusy
<1>2. tab = "users"
  <2>1. SLive(x, SKinds) /\ SCall(call[x])
    BY <1>0, <1>1 DEF SLive, SBusy, SKinds, S!Changes, SGeneral, SType, SCalls
  <2>2. call[x].for = "users" /\ call[x].for \in {"general", tab}
    BY <1>0, <1>1, <2>1 DEF SCall, SLive, SBusy, SGeneral, SHere
  <2> QED BY <2>2
<1>3. "users" \in SLoads /\ k \in SThens /\ SCall(S!NewCall("users", None, k))
  <2>1. "users" \in SLoads /\ k \in SThens /\ "users" \in SKinds /\ None \in SArgs /\ tab \in S!Tabs
        /\ k \in {None} \cup SThens
    BY <1>2, SArgsHas DEF SLoads, SThens, SKinds, S!Tabs
  <2> DEFINE c == S!NewCall("users", None, k)
  <2>2. c \in SRequests /\ c.kind = "users" /\ c.for = tab /\ c.at = "sent"
    BY <2>1, SNewCall
  <2> HIDE DEF c
  <2>3. SCall(c)
    BY <1>2, <2>2 DEF SCall, S!OfCodes
  <2> QED BY <2>1, <2>3 DEF c
<1>4. /\ SCalls' /\ SHere' /\ SOnly' /\ SAges /\ \A y \in Calls : y # x => call'[y] = call[y]
      /\ call'[x] # NoCall /\ call'[x].kind = "users" /\ call'[x].for = tab
      /\ call'[x].then = k /\ call'[x].at = "sent"
  BY <1>0, <1>1, <1>3, SReload
<1>5. SType'
  BY <1>0, <1>4 DEF SGeneral, SType, SPast
<1>6. SFormsOK' /\ SPrefs' /\ SFactors'
  BY <1>0, <1>1, <1>4, SOnlyUsers DEF SUserKinds, SBusy
<1>7. SUsers'
  <2> SUFFICES ASSUME ~past'.twin PROVE SUsers'
    BY DEF SUsers
  <2>1. ~past.twin /\ SUsers
    BY <1>0
  <2>2. ASSUME NEW y \in Calls, SBusy(y, {"add", "remove"})' PROVE FALSE
    <3>1. y # x /\ SBusy(y, {"add", "remove"})
      BY <1>4, <2>2 DEF SBusy
    <3> QED BY <1>0, <1>1, <2>1, <3>1 DEF SGeneral, SOnly, SBusy, S!Changes
  <2>3. \A y \in Calls : SBusy(y, {"users"})' =>
          call'[y].at = "sent" \/ (SBusy(y, {"users"}) /\ call'[y] = call[y])
    BY <1>4 DEF SBusy
  <2>4. SLive(x, {"users"})'
    BY <1>2, <1>4, SettingsAssumption DEF SLive, SBusy, S!Tabs
  <2> QED BY <2>1, <2>2, <2>3, <2>4 DEF SUsers
<1> QED BY <1>4, <1>5, <1>6, <1>7 DEF SInv, SFactors, SFormsOK

LEMMA SAddedOK == ASSUME SInv, NEW x \in Calls, S!Added(x) PROVE SInv'
<1>1. /\ S!Answered(x, "add", "ok") /\ S!DoneThen(x, "users", "add")
      /\ list' = [list EXCEPT !.status = "saved"]
      /\ tab' = tab /\ forms' = forms /\ prefs' = prefs /\ fa' = fa /\ db' = db /\ edits' = edits
      /\ past' = past
  BY DEF S!Added
<1>2. "saved" \in S!Status /\ list \in [names : (SUBSET People) \cup {None}, status : S!Status]
  BY DEF S!Status, SInv, SType
<1> QED BY <1>1, <1>2, SListSays, SUserReload

LEMMA SRemovedOK == ASSUME SInv, NEW x \in Calls, S!Removed(x) PROVE SInv'
<1>1. /\ S!Answered(x, "remove", "ok") /\ S!DoneThen(x, "users", "remove") /\ list' = list
      /\ tab' = tab /\ forms' = forms /\ prefs' = prefs /\ fa' = fa /\ db' = db /\ edits' = edits
      /\ past' = past
  BY DEF S!Removed
<1>2. list' \in [names : (SUBSET People) \cup {None}, status : S!Status] /\ list'.names = list.names
  BY <1>1 DEF SInv, SType
<1> QED BY <1>1, <1>2, SUserReload

LEMMA SUsersFailOK == ASSUME SInv, NEW x \in Calls, S!UsersFail(x) PROVE SInv'
<1>0. SGeneral /\ SFactors /\ SUsers /\ SPrefs /\ SFormsOK
  BY DEF SInv, SGeneral, SFactors, SFormsOK
<1> DEFINE s == IF "add" \in {call[x].kind, call[x].then} THEN "error" ELSE list.status
<1>1. /\ SLive(x, SUserKinds) /\ call[x].at \in {"lost", "refused"} /\ S!Done(x) /\ tab' = tab
      /\ list' = [list EXCEPT !.status = s]
      /\ forms' = forms /\ prefs' = prefs /\ fa' = fa /\ db' = db /\ edits' = edits
      /\ past' = past
  BY DEF S!UsersFail, S!Answered, SLive, SBusy, SUserKinds
<1>2. /\ SCalls' /\ SHere' /\ SOnly' /\ SAges
      /\ call'[x] = NoCall /\ \A y \in Calls : y # x => call'[y] = call[y]
  BY <1>0, <1>1, SDones
<1>3. /\ list' \in [names : (SUBSET People) \cup {None}, status : S!Status]
      /\ list'.names = list.names
  <2>1. s \in S!Status
    BY <1>0, SListIs DEF SGeneral, SType, S!Status
  <2> HIDE DEF s
  <2> QED BY <1>0, <1>1, <2>1, SListSays DEF SGeneral, SType
<1>4. SType'
  BY <1>0, <1>1, <1>2, <1>3 DEF SGeneral, SType, SPast
<1>5. SFormsOK' /\ SPrefs' /\ SFactors'
  BY <1>0, <1>1, <1>2, SOnlyUsers DEF SLive, SBusy
<1>6. past'.torn
  <2>1. SBusy(x, SKinds)
    BY <1>1 DEF SLive, SBusy, SKinds, SLoads, S!Changes, SUserKinds
  <2> QED BY <1>0, <1>1, <2>1 DEF SGeneral, SOnly
<1>7. SUsers'
  <2>1. \A y \in Calls : \A k : SBusy(y, k)' => SBusy(y, k) /\ call'[y] = call[y]
    BY <1>2, SGone
  <2> QED BY <1>0, <1>1, <1>6, <2>1 DEF SUsers
<1> QED BY <1>2, <1>4, <1>5, <1>7 DEF SInv, SFactors, SFormsOK

LEMMA SServeUsers == ASSUME SInv, NEW x \in Calls, S!Serve(x), call[x].kind = "users" PROVE SInv'
<1>0. SGeneral /\ SFactors /\ SUsers /\ SPrefs /\ SFormsOK
  BY DEF SInv, SGeneral, SFactors, SFormsOK
<1> DEFINE r == S!Served(call[x])
<1>1. r.db = db /\ r.data = db.people /\ r.ok = TRUE
  BY DEF S!Served, S!Reply
<1>2. SCall(call[x])
  BY <1>0 DEF S!Serve, SGeneral, SType, SCalls
<1>3. r.data \in SUBSET People /\ r.data \in SData
  BY <1>0, <1>1, SStoredIs, SDataHas DEF SGeneral, SType
<1> HIDE DEF r
<1>4. /\ SHere' /\ SOnly' /\ SAges /\ SPast' /\ db' = r.db
      /\ call[x] # NoCall
      /\ call'[x] \in SRequests /\ call'[x] # NoCall /\ call'[x].kind = call[x].kind
      /\ call'[x].for = call[x].for /\ call'[x].arg = call[x].arg /\ call'[x].then = call[x].then
      /\ call'[x].at = (IF r.ok THEN "ok" ELSE "refused") /\ call'[x].data = r.data
      /\ DOMAIN call' = Calls /\ \A y \in Calls : y # x => call'[y] = call[y]
      /\ past'.twin = past.twin
      /\ tab' = tab /\ forms' = forms /\ list' = list /\ prefs' = prefs /\ fa' = fa /\ edits' = edits
  BY <1>0, <1>3, SServes DEF r
<1>5. SCall(call'[x])
  BY <1>1, <1>2, <1>3, <1>4 DEF SCall, S!OfCodes
<1>6. SType'
  <2>1. SCalls'
    BY <1>0, <1>4, <1>5, SReplied DEF SGeneral, SType
  <2> QED BY <1>0, <1>1, <1>4, <2>1 DEF SGeneral, SType
<1>7. SFormsOK' /\ SPrefs' /\ SFactors'
  BY <1>0, <1>1, <1>4, SOnlyUsers DEF SUserKinds
<1>8. SUsers'
  <2>1. \A y \in Calls :
          /\ SBusy(y, {"users"})' => SBusy(y, {"users"}) /\ (y = x \/ call'[y] = call[y])
          /\ SLive(y, {"users"}) => SLive(y, {"users"})'
          /\ SBusy(y, {"add", "remove"})' <=> SBusy(y, {"add", "remove"})
          /\ SBusy(y, {"add", "remove"}) => call'[y] = call[y]
    BY <1>4 DEF SBusy, SLive
  <2> QED BY <1>0, <1>1, <1>4, <2>1 DEF SUsers, SAges
<1> QED BY <1>4, <1>6, <1>7, <1>8 DEF SInv, SFactors, SFormsOK

LEMMA SServePerson ==
  ASSUME SInv, NEW x \in Calls, S!Serve(x), call[x].kind \in {"add", "remove"}
  PROVE  SInv'
<1>0. SGeneral /\ SFactors /\ SUsers /\ SPrefs /\ SFormsOK
  BY DEF SInv, SGeneral, SFactors, SFormsOK
<1> DEFINE r == S!Served(call[x])
<1>2. SCall(call[x])
  BY <1>0 DEF S!Serve, SGeneral, SType, SCalls
<1>1. /\ r.data = None
      /\ \/ r.db = db
         \/ r.db = [db EXCEPT !.people = db.people \cup {call[x].arg}]
         \/ r.db = [db EXCEPT !.people = db.people \ {call[x].arg}]
  <2>1. CASE call[x].kind = "add"
    BY <2>1 DEF S!Served, S!Reply, S!Refuse
  <2>2. CASE call[x].kind = "remove"
    BY <2>2 DEF S!Served, S!Reply, S!Refuse
  <2> QED BY <2>1, <2>2
<1>3. r.data \in SData
  BY <1>1, SDataHas
<1> HIDE DEF r
<1>4. /\ SHere' /\ SOnly' /\ SAges /\ SPast' /\ db' = r.db
      /\ call[x] # NoCall
      /\ call'[x] \in SRequests /\ call'[x] # NoCall /\ call'[x].kind = call[x].kind
      /\ call'[x].for = call[x].for /\ call'[x].arg = call[x].arg /\ call'[x].then = call[x].then
      /\ call'[x].at = (IF r.ok THEN "ok" ELSE "refused") /\ call'[x].data = r.data
      /\ DOMAIN call' = Calls /\ \A y \in Calls : y # x => call'[y] = call[y]
      /\ past'.twin = past.twin /\ (~past'.torn => ~past.torn /\ r.ok)
      /\ tab' = tab /\ forms' = forms /\ list' = list /\ prefs' = prefs /\ fa' = fa /\ edits' = edits
  BY <1>0, <1>3, SServes DEF r
<1>5. SCall(call'[x])
  BY <1>1, <1>2, <1>3, <1>4 DEF SCall, S!OfCodes
<1>6. /\ db' \in SStored /\ db'.kept = db.kept /\ db'.on = db.on /\ db'.enabled = db.enabled
      /\ db'.batch = db.batch /\ db'.secret = db.secret
  <2>0. db \in SStored /\ call[x].arg \in People
    BY <1>0, <1>2 DEF SGeneral, SType, SCall
  <2>1. ASSUME NEW p \in SUBSET People, db' = [db EXCEPT !.people = p]
        PROVE  /\ db' \in SStored /\ db'.kept = db.kept /\ db'.on = db.on /\ db'.enabled = db.enabled
               /\ db'.batch = db.batch /\ db'.secret = db.secret
    <3>1. db' = [kept |-> db.kept, people |-> p, on |-> db.on, secret |-> db.secret,
                 enabled |-> db.enabled, batch |-> db.batch, made |-> db.made]
      BY <2>0, <2>1, SStoredIs
    <3>2. [kept |-> db.kept, people |-> p, on |-> db.on, secret |-> db.secret,
                 enabled |-> db.enabled, batch |-> db.batch, made |-> db.made] \in SStored
      BY Zenon, <2>0, SStoredIs, SStoredMade
    <3> QED BY <3>1, <3>2
  <2>2. /\ db.people \cup {call[x].arg} \in SUBSET People
        /\ db.people \ {call[x].arg} \in SUBSET People
    BY <2>0, SStoredIs
  <2> QED BY <1>1, <1>4, <2>0, <2>1, <2>2
<1>7. SType'
  <2>1. SCalls'
    BY <1>0, <1>4, <1>5, SReplied DEF SGeneral, SType
  <2> QED BY <1>0, <1>4, <1>6, <2>1 DEF SGeneral, SType
<1>8. SFormsOK' /\ SPrefs' /\ SFactors'
  BY <1>0, <1>4, <1>6, SOnlyUsers DEF SUserKinds
<1>9. SUsers'
  <2> SUFFICES ASSUME ~past'.twin PROVE SUsers'
    BY DEF SUsers
  <2>1. ~past.twin /\ SUsers /\ SBusy(x, {"add", "remove"})
    BY <1>0, <1>4 DEF SBusy
  <2>2. \A y \in Calls :
          /\ SBusy(y, {"users"})' <=> SBusy(y, {"users"})
          /\ SBusy(y, {"add", "remove"})' <=> SBusy(y, {"add", "remove"})
    BY <1>4 DEF SBusy
  <2>3. \A y \in Calls : ~SBusy(y, {"users"})
    BY <2>1 DEF SUsers
  <2>4. ~past'.torn => SBusy(x, {"add", "remove"})' /\ call'[x].at = "ok"
    BY <1>4, <2>1, <2>2
  <2> QED BY <2>2, <2>3, <2>4 DEF SUsers
<1> QED BY <1>4, <1>7, <1>8, <1>9 DEF SInv, SFactors, SFormsOK


---------------------------------------------------------------------------
(* The events one is notified of.                                          *)

LEMMA SChosenSet ==
  ASSUME prefs \in [on : (SUBSET Events) \cup {None}, status : S!Status],
         NEW n \in (SUBSET Events) \cup {None}, NEW s \in S!Status,
         prefs' = [on |-> n, status |-> s]
  PROVE  prefs' \in [on : (SUBSET Events) \cup {None}, status : S!Status] /\ prefs'.on = n
OBVIOUS

LEMMA SChosenIs ==
  ASSUME prefs \in [on : (SUBSET Events) \cup {None}, status : S!Status]
  PROVE  /\ prefs.on \in (SUBSET Events) \cup {None} /\ prefs.status \in S!Status
         /\ prefs = [on |-> prefs.on, status |-> prefs.status]
OBVIOUS

LEMMA SPrefsLoadedOK == ASSUME SInv, NEW x \in Calls, S!PrefsLoaded(x) PROVE SInv'
<1>0. SGeneral /\ SFactors /\ SUsers /\ SPrefs /\ SFormsOK
  BY DEF SInv, SGeneral, SFactors, SFormsOK
<1>1. /\ SLive(x, {"prefs"}) /\ call[x].at = "ok" /\ S!Done(x) /\ tab' = tab
      /\ prefs' = [prefs EXCEPT !.on = call[x].data]
      /\ forms' = forms /\ list' = list /\ fa' = fa /\ db' = db /\ edits' = edits
      /\ past' = past
  BY DEF S!PrefsLoaded, S!Answered, SLive, SBusy
<1>2. /\ SCalls' /\ SHere' /\ SOnly' /\ SAges
      /\ call'[x] = NoCall /\ \A y \in Calls : y # x => call'[y] = call[y]
  BY <1>0, <1>1, SDones
<1>3. call[x].data \in SUBSET Events
  BY <1>0, <1>1 DEF SGeneral, SType, SCalls, SCall, SLive, SBusy
<1>4. /\ prefs' \in [on : (SUBSET Events) \cup {None}, status : S!Status]
      /\ prefs'.on = call[x].data
  <2>1. prefs' = [on |-> call[x].data, status |-> prefs.status] /\ prefs.status \in S!Status
    BY <1>0, <1>1, SChosenIs DEF SGeneral, SType
  <2> QED BY <1>3, <2>1
<1>5. SType'
  BY <1>0, <1>1, <1>2, <1>4 DEF SGeneral, SType, SPast
<1>6. SFormsOK' /\ SUsers' /\ SFactors'
  BY <1>0, <1>1, <1>2, SOnlyPrefs DEF SPrefKinds, SLive, SBusy
<1>7. SPrefs'
  <2>1. \A y \in Calls : \A k : SBusy(y, k)' => SBusy(y, k) /\ call'[y] = call[y]
    BY <1>2, SGone
  <2>2. ASSUME NEW y \in Calls, SLive(y, {"prefs", "setprefs"})' PROVE FALSE
    <3>1. SLive(y, {"prefs", "setprefs"}) /\ y # x
      BY <1>2, <2>2, SGone
    <3> QED BY <1>0, <1>1, <3>1 DEF SPrefs
  <2>3. ~past.twin => \A y \in Calls : ~SBusy(y, {"setprefs"})'
    BY <1>0, <2>1, <2>2 DEF SGeneral, SOnly, SBusy, SLive, S!Changes
  <2>4. ~past.twin => call[x].data = db.on
    BY <1>0, <1>1 DEF SPrefs
  <2>5. \A y \in Calls : ~SLive(y, {"prefs"})'
    BY <2>2 DEF SLive, SBusy
  <2> QED BY <1>1, <1>4, <2>2, <2>3, <2>4, <2>5 DEF SPrefs
<1> QED BY <1>2, <1>5, <1>6, <1>7 DEF SInv, SFactors, SFormsOK

LEMMA SToggleOK == ASSUME SInv, NEW e \in Events, S!Toggle(e) PROVE SInv'
<1>0. SGeneral /\ SFactors /\ SUsers /\ SPrefs /\ SFormsOK
  BY DEF SInv, SGeneral, SFactors, SFormsOK
<1> DEFINE next == IF e \in prefs.on THEN prefs.on \ {e} ELSE prefs.on \cup {e}
<1>1. /\ tab = "notifications" /\ prefs.on # None /\ S!Change("setprefs", next)
      /\ prefs' = [on |-> next, status |-> "saving"]
      /\ tab' = tab /\ forms' = forms /\ list' = list /\ fa' = fa /\ db' = db
  BY DEF S!Toggle
<1>2. next \in SUBSET Events /\ next \in (SUBSET Events) \cup {None}
  BY <1>0, <1>1, SChosenIs DEF SGeneral, SType
<1> HIDE DEF next
<1>3. next \in SArgs /\ "setprefs" \in S!Changes /\ SCall(S!NewCall("setprefs", next, None))
  <2>1. next \in SArgs /\ "setprefs" \in S!Changes /\ "setprefs" \in SKinds /\ None \in {None} \cup SThens
        /\ tab \in S!Tabs
    BY <1>1, <1>2, SArgsHas DEF S!Changes, SKinds, S!Tabs
  <2> DEFINE c == S!NewCall("setprefs", next, None)
  <2>2. c \in SRequests /\ c.kind = "setprefs" /\ c.for = tab /\ c.arg = next /\ c.at = "sent"
    BY <2>1, SNewCall
  <2> HIDE DEF c
  <2>3. SCall(c)
    BY <1>1, <1>2, <2>2 DEF SCall, S!OfCodes
  <2> QED BY <2>1, <2>3 DEF c
<1>4. /\ SCalls' /\ SHere' /\ SOnly' /\ SAges /\ SPast' /\ edits' \in 0..MaxEdits
      /\ past'.torn = past.torn
      /\ ~past'.twin => \A y \in Calls : ~SBusy(y, S!Changes) /\ ~SBusy(y, {"users"})
      /\ \E x \in Calls :
           /\ call[x] = NoCall /\ \A y \in Calls : y # x => call'[y] = call[y]
           /\ call'[x] # NoCall /\ call'[x].kind = "setprefs" /\ call'[x].for = tab /\ call'[x].arg = next
           /\ call'[x].then = None /\ call'[x].at = "sent"
  BY <1>0, <1>1, <1>3, SChange
<1> PICK x \in Calls :
           /\ call[x] = NoCall /\ \A y \in Calls : y # x => call'[y] = call[y]
           /\ call'[x] # NoCall /\ call'[x].kind = "setprefs" /\ call'[x].for = tab /\ call'[x].arg = next
           /\ call'[x].then = None /\ call'[x].at = "sent"
  BY <1>4
<1>5. prefs' \in [on : (SUBSET Events) \cup {None}, status : S!Status] /\ prefs'.on = next
  <2>1. "saving" \in S!Status
    BY DEF S!Status
  <2> QED BY <1>1, <1>2, <2>1
<1>6. SType'
  BY <1>0, <1>1, <1>4, <1>5 DEF SGeneral, SType
<1>7. SFormsOK' /\ SUsers' /\ SFactors'
  BY <1>0, <1>1, <1>4, SOnlyPrefs DEF SPrefKinds
<1>8. SPrefs'
  <2>1. \A y \in Calls : ~SLive(y, {"prefs"})
    BY <1>0, <1>1 DEF SPrefs
  <2>2. \A y \in Calls : ~SLive(y, {"prefs"})'
    BY <2>1 DEF SLive, SBusy
  <2>3. ~past'.twin => \A y \in Calls : SBusy(y, {"setprefs"})' => y = x
    BY <1>4 DEF SBusy, S!Changes
  <2>4. SBusy(x, {"setprefs"})' /\ call'[x].at = "sent" /\ call'[x].arg = next
    BY DEF SBusy
  <2> QED BY <1>5, <2>2, <2>3, <2>4 DEF SPrefs
<1> QED BY <1>4, <1>6, <1>7, <1>8 DEF SInv, SFactors, SFormsOK

LEMMA SToggledOK == ASSUME SInv, NEW x \in Calls, S!Toggled(x) PROVE SInv'
<1>0. SGeneral /\ SFactors /\ SUsers /\ SPrefs /\ SFormsOK
  BY DEF SInv, SGeneral, SFactors, SFormsOK
<1> DEFINE s == IF call[x].at = "ok" THEN "saved" ELSE "error"
<1>1. /\ SLive(x, {"setprefs"}) /\ call[x].at \in {"ok", "lost"} /\ S!Done(x) /\ tab' = tab
      /\ prefs' = [prefs EXCEPT !.status = s]
      /\ forms' = forms /\ list' = list /\ fa' = fa /\ db' = db /\ edits' = edits
      /\ past' = past
  BY DEF S!Toggled, S!Answered, SLive, SBusy
<1>2. /\ SCalls' /\ SHere' /\ SOnly' /\ SAges
      /\ call'[x] = NoCall /\ \A y \in Calls : y # x => call'[y] = call[y]
  BY <1>0, <1>1, SDones
<1>4. /\ prefs' \in [on : (SUBSET Events) \cup {None}, status : S!Status]
      /\ prefs'.on = prefs.on
  <2>1. s \in S!Status
    BY DEF S!Status
  <2> HIDE DEF s
  <2>2. prefs' = [on |-> prefs.on, status |-> s]
    BY <1>0, <1>1, SChosenIs DEF SGeneral, SType
  <2> QED BY <1>0, <2>1, <2>2, SChosenIs DEF SGeneral, SType
<1>5. SType'
  BY <1>0, <1>1, <1>2, <1>4 DEF SGeneral, SType, SPast
<1>6. SFormsOK' /\ SUsers' /\ SFactors'
  BY <1>0, <1>1, <1>2, SOnlyPrefs DEF SPrefKinds, SLive, SBusy
<1>7. SPrefs'
  <2>1. \A y \in Calls : \A k : (SBusy(y, k)' => SBusy(y, k) /\ call'[y] = call[y])
                             /\ (SLive(y, k)' => SLive(y, k) /\ call'[y] = call[y])
                             /\ (SBusy(y, k) /\ y # x => SBusy(y, k)')
    BY <1>2, SGone
  <2>2. \A y \in Calls : SBusy(y, {"setprefs"}) /\ call[y].at = "sent" => SBusy(y, {"setprefs"})' /\ call'[y].at = "sent"
    BY <1>1, <1>2, <2>1
  <2> QED BY <1>0, <1>1, <1>4, <2>1, <2>2 DEF SPrefs
<1> QED BY <1>2, <1>5, <1>6, <1>7 DEF SInv, SFactors, SFormsOK

LEMMA SServePrefs == ASSUME SInv, NEW x \in Calls, S!Serve(x), call[x].kind = "prefs" PROVE SInv'
<1>0. SGeneral /\ SFactors /\ SUsers /\ SPrefs /\ SFormsOK
  BY DEF SInv, SGeneral, SFactors, SFormsOK
<1> DEFINE r == S!Served(call[x])
<1>1. r.db = db /\ r.data = db.on /\ r.ok = TRUE
  BY DEF S!Served, S!Reply
<1>2. SCall(call[x])
  BY <1>0 DEF S!Serve, SGeneral, SType, SCalls
<1>3. r.data \in SUBSET Events /\ r.data \in SData
  BY <1>0, <1>1, SStoredIs, SDataHas DEF SGeneral, SType
<1> HIDE DEF r
<1>4. /\ SHere' /\ SOnly' /\ SAges /\ SPast' /\ db' = r.db
      /\ call[x] # NoCall
      /\ call'[x] \in SRequests /\ call'[x] # NoCall /\ call'[x].kind = call[x].kind
      /\ call'[x].for = call[x].for /\ call'[x].arg = call[x].arg /\ call'[x].then = call[x].then
      /\ call'[x].at = (IF r.ok THEN "ok" ELSE "refused") /\ call'[x].data = r.data
      /\ DOMAIN call' = Calls /\ \A y \in Calls : y # x => call'[y] = call[y]
      /\ past'.twin = past.twin
      /\ tab' = tab /\ forms' = forms /\ list' = list /\ prefs' = prefs /\ fa' = fa /\ edits' = edits
  BY <1>0, <1>3, SServes DEF r
<1>5. SCall(call'[x])
  BY <1>1, <1>2, <1>3, <1>4 DEF SCall, S!OfCodes
<1>6. SType'
  <2>1. SCalls'
    BY <1>0, <1>4, <1>5, SReplied DEF SGeneral, SType
  <2> QED BY <1>0, <1>1, <1>4, <2>1 DEF SGeneral, SType
<1>7. SFormsOK' /\ SUsers' /\ SFactors'
  BY <1>0, <1>1, <1>4, SOnlyPrefs DEF SPrefKinds
<1>8. SPrefs'
  <2>1. \A y \in Calls :
          /\ SLive(y, {"prefs"})' => SLive(y, {"prefs"}) /\ (y = x \/ call'[y] = call[y])
          /\ SLive(y, {"prefs", "setprefs"})' => SLive(y, {"prefs", "setprefs"})
          /\ SBusy(y, {"setprefs"})' <=> SBusy(y, {"setprefs"})
          /\ SBusy(y, {"setprefs"}) => call'[y] = call[y]
    BY <1>4 DEF SBusy, SLive
  <2> QED BY <1>0, <1>1, <1>4, <2>1 DEF SPrefs, SAges
<1> QED BY <1>4, <1>6, <1>7, <1>8 DEF SInv, SFactors, SFormsOK

LEMMA SServeChoice == ASSUME SInv, NEW x \in Calls, S!Serve(x), call[x].kind = "setprefs" PROVE SInv'
<1>0. SGeneral /\ SFactors /\ SUsers /\ SPrefs /\ SFormsOK
  BY DEF SInv, SGeneral, SFactors, SFormsOK
<1> DEFINE r == S!Served(call[x])
<1>1. r.db = [db EXCEPT !.on = call[x].arg] /\ r.data = None /\ r.ok = TRUE
  BY DEF S!Served, S!Reply
<1>2. SCall(call[x])
  BY <1>0 DEF S!Serve, SGeneral, SType, SCalls
<1>3. call[x].arg \in SUBSET Events /\ r.data \in SData
  BY <1>1, <1>2, SDataHas DEF SCall
<1> HIDE DEF r
<1>4. /\ SHere' /\ SOnly' /\ SAges /\ SPast' /\ db' = r.db
      /\ call[x] # NoCall /\ call[x].at = "sent"
      /\ call'[x] \in SRequests /\ call'[x] # NoCall /\ call'[x].kind = call[x].kind
      /\ call'[x].for = call[x].for /\ call'[x].arg = call[x].arg /\ call'[x].then = call[x].then
      /\ call'[x].at = (IF r.ok THEN "ok" ELSE "refused") /\ call'[x].data = r.data
      /\ DOMAIN call' = Calls /\ \A y \in Calls : y # x => call'[y] = call[y]
      /\ past'.twin = past.twin
      /\ tab' = tab /\ forms' = forms /\ list' = list /\ prefs' = prefs /\ fa' = fa /\ edits' = edits
  BY <1>0, <1>3, SServes DEF r
<1>5. SCall(call'[x])
  BY <1>1, <1>2, <1>3, <1>4 DEF SCall, S!OfCodes
<1>6. /\ db' \in SStored /\ db'.on = call[x].arg /\ db'.kept = db.kept /\ db'.people = db.people
      /\ db'.enabled = db.enabled /\ db'.batch = db.batch /\ db'.secret = db.secret
  <2>0. db \in SStored
    BY <1>0 DEF SGeneral, SType
  <2>1. db' = [kept |-> db.kept, people |-> db.people, on |-> call[x].arg, secret |-> db.secret,
                 enabled |-> db.enabled, batch |-> db.batch, made |-> db.made]
    BY <1>1, <1>4, <2>0, SStoredIs
  <2>2. [kept |-> db.kept, people |-> db.people, on |-> call[x].arg, secret |-> db.secret,
                 enabled |-> db.enabled, batch |-> db.batch, made |-> db.made] \in SStored
    BY Zenon, <1>3, <2>0, SStoredIs, SStoredMade
  <2> QED BY <2>1, <2>2
<1>7. SType'
  <2>1. SCalls'
    BY <1>0, <1>4, <1>5, SReplied DEF SGeneral, SType
  <2> QED BY <1>0, <1>4, <1>6, <2>1 DEF SGeneral, SType
<1>8. SFormsOK' /\ SUsers' /\ SFactors'
  BY <1>0, <1>4, <1>6, SOnlyPrefs DEF SPrefKinds
<1>9. SPrefs'
  <2>1. \A y \in Calls :
          /\ SLive(y, {"prefs"})' => SLive(y, {"prefs"}) /\ call'[y] = call[y]
          /\ SLive(y, {"prefs", "setprefs"})' => SLive(y, {"prefs", "setprefs"})
          /\ SBusy(y, {"setprefs"})' => SBusy(y, {"setprefs"}) /\ (y = x \/ call'[y] = call[y])
    BY <1>4 DEF SBusy, SLive
  <2> SUFFICES ASSUME ~past'.twin
               PROVE  /\ \A y \in Calls : SLive(y, {"prefs"})' /\ call'[y].at = "ok" => call'[y].data = db'.on
                      /\ \A y \in Calls : SBusy(y, {"setprefs"})' /\ call'[y].at = "sent" => call'[y].arg = prefs'.on
                      /\ prefs'.on = db'.on
    BY <1>0, <1>4, <2>1 DEF SPrefs
  <2>2. ~past.twin /\ SBusy(x, {"setprefs"}) /\ SLive(x, {"setprefs"})
    BY <1>0, <1>4 DEF SAges, SBusy, SLive, SGeneral, SOnly, S!Changes
  <2>3. call[x].arg = prefs.on
    BY <1>0, <1>4, <2>2 DEF SPrefs
  <2>4. ASSUME NEW y \in Calls, SLive(y, {"prefs"})' PROVE FALSE
    <3>1. SLive(y, {"prefs"}) /\ SLive(x, {"prefs", "setprefs"}) /\ y # x
      BY <1>4, <2>1, <2>2, <2>4 DEF SLive, SBusy
    <3> QED BY <1>0, <3>1 DEF SPrefs
  <2>5. ASSUME NEW y \in Calls, SBusy(y, {"setprefs"})' PROVE y = x
    BY <1>0, <2>1, <2>2, <2>5 DEF SGeneral, SOnly, SBusy, S!Changes
  <2> QED BY <1>1, <1>4, <1>6, <2>3, <2>4, <2>5
<1> QED BY <1>4, <1>7, <1>8, <1>9 DEF SInv, SFactors, SFormsOK


---------------------------------------------------------------------------
(* Two-factor authentication.                                              *)

LEMMA SFactorIs ==
  ASSUME fa \in SFactor
  PROVE  /\ fa.enabled \in BOOLEAN \cup {None} /\ fa.step \in {"status", "enroll", "disable", "regenerate"}
         /\ fa.codes \in S!Keys /\ fa.secret \in S!Keys /\ fa.loaded \in BOOLEAN /\ fa.error \in BOOLEAN
         /\ fa.busy \in BOOLEAN /\ fa.checking \in BOOLEAN
         /\ fa = [enabled |-> fa.enabled, step |-> fa.step, codes |-> fa.codes, secret |-> fa.secret,
                  loaded |-> fa.loaded, error |-> fa.error, busy |-> fa.busy, checking |-> fa.checking]
BY DEF SFactor

LEMMA SFactorSet ==
  ASSUME NEW e \in BOOLEAN \cup {None}, NEW st \in {"status", "enroll", "disable", "regenerate"},
         NEW c \in S!Keys, NEW k \in S!Keys, NEW l \in BOOLEAN, NEW r \in BOOLEAN,
         NEW b \in BOOLEAN, NEW h \in BOOLEAN,
         fa' = [enabled |-> e, step |-> st, codes |-> c, secret |-> k,
                loaded |-> l, error |-> r, busy |-> b, checking |-> h]
  PROVE  /\ fa' \in SFactor
         /\ fa'.enabled = e /\ fa'.step = st /\ fa'.codes = c /\ fa'.secret = k
         /\ fa'.loaded = l /\ fa'.busy = b /\ fa'.checking = h
<1>1. [enabled |-> e, step |-> st, codes |-> c, secret |-> k,
       loaded |-> l, error |-> r, busy |-> b, checking |-> h] \in SFactor
  BY Zenon DEF SFactor
<1> QED BY <1>1

SStep(x) == SConfirming(x) \/ SChecking(x) \/ SMounting(x)

\* One confirmation, one question for the password, or the first status at a time.
LEMMA SOneStep ==
  ASSUME SSteps, NEW x \in Calls, NEW y \in Calls, SStep(x), SStep(y)
  PROVE  /\ x = y /\ (SConfirming(x) => ~SChecking(y) /\ ~SMounting(y))
         /\ (SChecking(x) => ~SMounting(y))
<1>1. None \notin BOOLEAN
  BY SettingsAssumption
<1> QED BY <1>1 DEF SSteps, SStep

\* A status that is read is part of one of them.
LEMMA SReads ==
  ASSUME SGeneral, NEW x \in Calls, SLive(x, {"totp"})
  PROVE  SStep(x) /\ call[x].then \in {None, "confirm", "disable"}
<1>1. SCall(call[x]) /\ call[x].kind = "totp"
  BY DEF SGeneral, SType, SCalls, SLive, SBusy
<1> QED BY <1>1 DEF SCall, SStep, SConfirming, SChecking, SMounting

LEMMA SGoneSteps ==
  ASSUME NEW x \in Calls, call'[x] = NoCall, \A y \in Calls : y # x => call'[y] = call[y],
         NEW y \in Calls
  PROVE  /\ SConfirming(y)' => SConfirming(y) /\ y # x
         /\ SChecking(y)' => SChecking(y) /\ y # x
         /\ SMounting(y)' => SMounting(y) /\ y # x
BY DEF SConfirming, SChecking, SMounting, SBusy, SLive

\* A step of the section that leaves the server alone.
LEMMA SFactorStep ==
  ASSUME SInv, SCalls', SHere', SOnly', SAges, SPast', edits' \in 0..MaxEdits, fa' \in SFactor,
         NEW x \in Calls, \A y \in Calls : y # x => call'[y] = call[y],
         call[x] # NoCall => call[x].kind \in SFactorKinds,
         call'[x] # NoCall => call'[x].kind \in SFactorKinds,
         tab' = tab, forms' = forms, list' = list, prefs' = prefs, db' = db, SFactors'
  PROVE  SInv'
<1>0. SGeneral /\ SFactors /\ SUsers /\ SPrefs /\ SFormsOK
  BY DEF SInv, SGeneral, SFactors, SFormsOK
<1>1. SType'
  BY <1>0 DEF SGeneral, SType
<1>2. SFormsOK' /\ SUsers' /\ SPrefs'
  BY <1>0, SOnlyFactors
<1> QED BY <1>1, <1>2 DEF SInv, SFactors, SFormsOK

LEMMA SStatusLoadedOK == ASSUME SInv, NEW x \in Calls, S!StatusLoaded(x) PROVE SInv'
<1>0. SGeneral /\ SFactors /\ SUsers /\ SPrefs /\ SFormsOK
  BY DEF SInv, SGeneral, SFactors, SFormsOK
<1> DEFINE e == call[x].data
           st == IF call[x].then = None THEN fa.step ELSE "status"
           b == fa.busy /\ call[x].then # "confirm"
           h == fa.checking /\ call[x].then # "disable"
<1>1. /\ SLive(x, {"totp"}) /\ call[x].at = "ok" /\ S!Done(x) /\ tab' = tab
      /\ fa' = [fa EXCEPT !.enabled = e, !.step = st, !.busy = b, !.checking = h]
      /\ forms' = forms /\ list' = list /\ prefs' = prefs /\ db' = db /\ edits' = edits
      /\ past' = past
  BY DEF S!StatusLoaded, S!SetFa, S!Answered, SLive, SBusy
<1>2. /\ SCalls' /\ SHere' /\ SOnly' /\ SAges
      /\ call'[x] = NoCall /\ \A y \in Calls : y # x => call'[y] = call[y]
  BY <1>0, <1>1, SDones
<1>3. fa \in SFactor /\ SSteps /\ SPast /\ edits \in 0..MaxEdits
  BY <1>0 DEF SGeneral, SType, SFactors
<1>4. e \in BOOLEAN /\ SStep(x)
  BY <1>0, <1>1, SReads DEF SGeneral, SType, SCalls, SCall, SLive, SBusy
<1>5. st = "status" \/ fa.enabled = None
  BY <1>1, <1>3 DEF SSteps, SMounting
<1>6. st = "status"
  BY <1>3, <1>5, SFactorIs, SettingsAssumption DEF SSteps
<1>7. b \in BOOLEAN /\ h \in BOOLEAN
  BY <1>3, SFactorIs
<1> HIDE DEF e, st, b, h
<1>8. /\ fa' \in SFactor /\ fa'.enabled = e /\ fa'.step = "status" /\ fa'.codes = fa.codes
      /\ fa'.secret = fa.secret /\ fa'.loaded = fa.loaded
  <2>1. fa' = [enabled |-> e, step |-> st, codes |-> fa.codes, secret |-> fa.secret,
                loaded |-> fa.loaded, error |-> fa.error, busy |-> b, checking |-> h]
    BY <1>1, <1>3, SFactorIs
  <2>2. e \in BOOLEAN \cup {None} /\ st \in {"status", "enroll", "disable", "regenerate"}
    BY <1>4, <1>6
  <2> QED BY <1>3, <1>6, <1>7, <2>1, <2>2, SFactorIs, SFactorSet
<1>9. ASSUME NEW y \in Calls PROVE ~SConfirming(y)' /\ ~SChecking(y)' /\ ~SMounting(y)'
  BY <1>2, <1>3, <1>4, SGoneSteps, SOneStep DEF SStep
<1>10. SSteps'
  BY <1>8, <1>9 DEF SSteps
<1>q. \A y \in Calls : \A k : SBusy(y, k)' => SBusy(y, k) /\ call'[y] = call[y]
  BY <1>2, SGone
<1>r. \A y \in Calls : \A k \in SUBSET S!Changes : SBusy(y, k) => SBusy(y, k)' /\ call'[y] = call[y]
  BY <1>1, <1>2, SGone DEF SLive, SBusy, S!Changes, S!OfCodes
<1>s. {"confirm"} \in SUBSET S!Changes /\ {"confirm", "disable"} \in SUBSET S!Changes
  BY DEF S!Changes, S!OfCodes
<1>11. SCodes'
  <2>1. \A y \in Calls : SBusy(y, {"confirm"}) => SBusy(y, {"confirm"})' /\ call'[y] = call[y]
    BY <1>r, <1>s
  <2>2. SCodes
    BY <1>0 DEF SFactors
  <2> QED BY <1>1, <1>8, <1>q, <2>1, <2>2 DEF SCodes
<1>12. SKey'
  BY <1>0, <1>1, <1>8, <1>q DEF SFactors, SKey
<1>13. SEnabled'
  <2>1. \A y \in Calls : ~SLive(y, {"totp"})'
    <3>2. ASSUME NEW y \in Calls, SLive(y, {"totp"})' PROVE FALSE
      <4>1. SStep(y)'
        BY <1>0, <1>2, <3>2, SReads, SGone DEF SStep, SConfirming, SChecking, SMounting, SLive, SBusy
      <4> QED BY <1>9, <4>1 DEF SStep
    <3> QED BY <3>2
  <2>2. ~past.twin /\ ~past.torn => e = db.enabled
    BY <1>0, <1>1 DEF SFactors, SEnabled, e
  <2> QED BY <1>1, <1>8, <2>1, <2>2 DEF SEnabled
<1> QED BY <1>1, <1>2, <1>3, <1>8, <1>10, <1>11, <1>12, <1>13, SFactorStep
    DEF SFactors, SFactorKinds, SLive, SBusy, SPast


\* The other requests are what they were.
LEMMA SOthers ==
  ASSUME NEW x \in Calls, \A y \in Calls : y # x => call'[y] = call[y], NEW y \in Calls, y # x
  PROVE  /\ call'[y] = call[y]
         /\ \A k : (SBusy(y, k)' <=> SBusy(y, k)) /\ (SLive(y, k)' <=> SLive(y, k))
         /\ (SConfirming(y)' <=> SConfirming(y)) /\ (SChecking(y)' <=> SChecking(y))
         /\ (SMounting(y)' <=> SMounting(y))
BY DEF SConfirming, SChecking, SMounting, SBusy, SLive

\* What a slot that is free, or is given another request, counts as.
LEMMA SCounts ==
  ASSUME NEW x \in Calls
  PROVE  /\ call[x] = NoCall =>
              ~SStep(x) /\ ~SConfirming(x) /\ ~SChecking(x) /\ ~SMounting(x)
                /\ \A k : ~SBusy(x, k) /\ ~SLive(x, k)
         /\ call[x] # NoCall =>
              /\ \A k : SBusy(x, k) <=> call[x].kind \in k
              /\ \A k : SLive(x, k) <=> call[x].kind \in k /\ call[x].for # None
              /\ SConfirming(x) <=> /\ call[x].for # None
                                    /\ call[x].kind = "confirm" \/ (call[x].kind = "totp" /\ call[x].then = "confirm")
              /\ SChecking(x) <=> /\ call[x].for # None
                                  /\ \/ call[x].kind \in {"disable", "regenerate"}
                                     \/ call[x].kind = "totp" /\ call[x].then = "disable"
              /\ SMounting(x) <=> call[x].for # None /\ call[x].kind = "totp" /\ call[x].then = None
BY DEF SStep, SConfirming, SChecking, SMounting, SBusy, SLive

\* A change of the section is sent.
LEMMA SFactorChange ==
  ASSUME SGeneral, tab = "twofactor", tab' = tab, NEW k \in {"enroll", "confirm", "disable", "regenerate"}, NEW a \in SArgs,
         k = "confirm" => a \in S!Keys, k \in {"disable", "regenerate"} => a \in BOOLEAN,
         S!Change(k, a)
  PROVE  /\ SCalls' /\ SHere' /\ SOnly' /\ SAges /\ SPast' /\ edits' \in 0..MaxEdits
         /\ past'.torn = past.torn /\ past'.unread = past.unread
         /\ ~past'.twin => \A y \in Calls : ~SBusy(y, S!Changes)
         /\ \E x \in Calls :
              /\ call[x] = NoCall /\ \A y \in Calls : y # x => call'[y] = call[y]
              /\ call'[x] # NoCall /\ call'[x].kind = k /\ call'[x].for # None /\ call'[x].arg = a
              /\ call'[x].then = None /\ call'[x].at = "sent"
<1>1. k \in S!Changes /\ k \in SKinds /\ None \in {None} \cup SThens /\ tab \in S!Tabs
  BY DEF S!Changes, S!OfCodes, SKinds, S!Tabs
<1> DEFINE c == S!NewCall(k, a, None)
<1>2. c \in SRequests /\ c.kind = k /\ c.for = tab /\ c.arg = a /\ c.at = "sent"
  BY <1>1, SNewCall
<1> HIDE DEF c
<1>3. SCall(c)
  BY <1>1, <1>2 DEF SCall, S!OfCodes
<1>4. tab # None
  BY <1>1, SettingsAssumption
<1>5. S!Change(k, a) /\ SCall(S!NewCall(k, a, None))
  BY <1>3 DEF c
<1>6. /\ SCalls' /\ SHere' /\ SOnly' /\ SAges /\ SPast' /\ edits' \in 0..MaxEdits
      /\ past'.torn = past.torn /\ past'.unread = past.unread
      /\ ~past'.twin => \A y \in Calls : ~SBusy(y, S!Changes) /\ ~SBusy(y, {"users"})
      /\ \E x \in Calls :
           /\ call[x] = NoCall /\ \A y \in Calls : y # x => call'[y] = call[y]
           /\ call'[x] # NoCall /\ call'[x].kind = k /\ call'[x].for = tab /\ call'[x].arg = a
           /\ call'[x].then = None /\ call'[x].at = "sent"
  BY <1>1, <1>5, SChange
<1> QED BY <1>4, <1>6

LEMMA SStartEnrollOK == ASSUME SInv, S!StartEnroll PROVE SInv'
<1>0. SGeneral /\ SFactors /\ SUsers /\ SPrefs /\ SFormsOK
  BY DEF SInv, SGeneral, SFactors, SFormsOK
<1>1. /\ tab = "twofactor" /\ fa.enabled # None /\ fa.step = "status" /\ fa.codes = 0 /\ ~fa.enabled
      /\ S!Change("enroll", None) /\ tab' = tab
      /\ fa' = [fa EXCEPT !.step = "enroll", !.loaded = FALSE, !.error = FALSE]
      /\ forms' = forms /\ list' = list /\ prefs' = prefs /\ db' = db
  BY DEF S!StartEnroll, S!Offered, S!SetFa
<1>2. None \in SArgs
  BY SArgsHas
<1>3. fa \in SFactor
  BY <1>0 DEF SGeneral, SType
<1>4. /\ SCalls' /\ SHere' /\ SOnly' /\ SAges /\ SPast' /\ edits' \in 0..MaxEdits
      /\ past'.torn = past.torn /\ past'.unread = past.unread
      /\ ~past'.twin => \A y \in Calls : ~SBusy(y, S!Changes)
      /\ \E x \in Calls :
           /\ call[x] = NoCall /\ \A y \in Calls : y # x => call'[y] = call[y]
           /\ call'[x] # NoCall /\ call'[x].kind = "enroll" /\ call'[x].for # None /\ call'[x].arg = None
           /\ call'[x].then = None /\ call'[x].at = "sent"
  BY <1>0, <1>1, <1>2, SFactorChange
<1> PICK x \in Calls :
           /\ call[x] = NoCall /\ \A y \in Calls : y # x => call'[y] = call[y]
           /\ call'[x] # NoCall /\ call'[x].kind = "enroll" /\ call'[x].for # None /\ call'[x].arg = None
           /\ call'[x].then = None /\ call'[x].at = "sent"
  BY <1>4
<1>5. /\ fa' \in SFactor /\ fa'.enabled = fa.enabled /\ fa'.step = "enroll" /\ fa'.codes = fa.codes
      /\ fa'.secret = fa.secret /\ fa'.loaded = FALSE /\ fa'.busy = fa.busy /\ fa'.checking = fa.checking
  <2>1. fa' = [enabled |-> fa.enabled, step |-> "enroll", codes |-> fa.codes, secret |-> fa.secret,
                loaded |-> FALSE, error |-> FALSE, busy |-> fa.busy, checking |-> fa.checking]
    BY <1>1, <1>3, SFactorIs
  <2> QED BY <1>3, <2>1, SFactorIs, SFactorSet
<1>6. fa.enabled = FALSE
  BY <1>1, <1>3, SFactorIs
<1>7. \A y \in Calls : (SConfirming(y)' => SConfirming(y)) /\ (SChecking(y)' => SChecking(y))
         /\ (SMounting(y)' => SMounting(y))
  <2>1. ~SConfirming(x)' /\ ~SChecking(x)' /\ ~SMounting(x)'
    BY DEF SConfirming, SChecking, SMounting, SBusy, SLive
  <2> QED BY <2>1, SOthers
<1>8. SSteps'
  BY <1>0, <1>1, <1>5, <1>6, <1>7 DEF SFactors, SSteps
<1>q. \A y \in Calls :
        /\ y # x => call'[y] = call[y] /\ \A k : (SBusy(y, k)' <=> SBusy(y, k)) /\ (SLive(y, k)' <=> SLive(y, k))
        /\ y = x => call'[y].at = "sent" /\ \A k : ~SBusy(y, k) /\ ~SLive(y, k)
                    /\ ((SBusy(y, k) \/ SLive(y, k))' => "enroll" \in k)
  <2>1. \A k : ~SBusy(x, k) /\ ~SLive(x, k) /\ ((SBusy(x, k) \/ SLive(x, k))' => "enroll" \in k)
    BY DEF SBusy, SLive
  <2> QED BY <2>1, SOthers
<1>9. SCodes'
  BY <1>0, <1>1, <1>4, <1>5, <1>q DEF SFactors, SCodes, S!OfCodes
<1>10. SKey'
  <2> SUFFICES ASSUME ~past'.twin PROVE SKey'
    BY DEF SKey
  <2>1. ~past.twin /\ SKey
    BY <1>0, <1>4 DEF SAges, SFactors
  <2>2. \A y \in Calls : ~SBusy(y, {"confirm"})' /\ (SBusy(y, {"enroll"})' => call'[y].at = "sent")
    BY <1>4, <1>q DEF S!Changes, S!OfCodes, SBusy
  <2> QED BY <1>1, <1>5, <2>1, <2>2 DEF SKey
<1>11. SEnabled'
  BY <1>0, <1>1, <1>4, <1>5, <1>q DEF SFactors, SEnabled, SAges
<1> QED BY <1>1, <1>4, <1>5, <1>8, <1>9, <1>10, <1>11, SFactorStep DEF SFactors, SFactorKinds

LEMMA SEnrollStartedOK == ASSUME SInv, NEW x \in Calls, S!EnrollStarted(x) PROVE SInv'
<1>0. SGeneral /\ SFactors /\ SUsers /\ SPrefs /\ SFormsOK
  BY DEF SInv, SGeneral, SFactors, SFormsOK
<1>1. /\ SLive(x, {"enroll"}) /\ call[x].at \in {"ok", "refused"} /\ S!Done(x) /\ tab' = tab
      /\ fa' = IF call[x].at = "ok" THEN [fa EXCEPT !.secret = call[x].data, !.loaded = TRUE]
               ELSE [fa EXCEPT !.loaded = TRUE, !.error = TRUE]
      /\ forms' = forms /\ list' = list /\ prefs' = prefs /\ db' = db /\ edits' = edits
      /\ past' = past
  BY DEF S!EnrollStarted, S!SetFa, S!Answered, SLive, SBusy
<1>2. /\ SCalls' /\ SHere' /\ SOnly' /\ SAges
      /\ call'[x] = NoCall /\ \A y \in Calls : y # x => call'[y] = call[y]
  BY <1>0, <1>1, SDones
<1>3. fa \in SFactor /\ SPast /\ edits \in 0..MaxEdits
  BY <1>0 DEF SGeneral, SType, SFactors
<1> DEFINE s == IF call[x].at = "ok" THEN call[x].data ELSE fa.secret
<1>5. /\ fa' \in SFactor /\ fa'.enabled = fa.enabled /\ fa'.step = fa.step /\ fa'.codes = fa.codes
      /\ fa'.secret = s /\ fa'.busy = fa.busy /\ fa'.checking = fa.checking
  <2>1. CASE call[x].at = "ok"
    <3>1. call[x].data \in S!Keys
      BY <1>0, <1>1, <2>1 DEF SGeneral, SType, SCalls, SCall, SLive, SBusy
    <3>2. fa' = [enabled |-> fa.enabled, step |-> fa.step, codes |-> fa.codes, secret |-> call[x].data,
                loaded |-> TRUE, error |-> fa.error, busy |-> fa.busy, checking |-> fa.checking]
      BY <1>1, <1>3, <2>1, SFactorIs
    <3>3. fa' \in SFactor
      BY <1>3, <3>1, <3>2, SFactorIs DEF SFactor
    <3> QED BY <2>1, <3>2, <3>3
  <2>2. CASE call[x].at # "ok"
    <3>2. fa' = [enabled |-> fa.enabled, step |-> fa.step, codes |-> fa.codes, secret |-> fa.secret,
                loaded |-> TRUE, error |-> TRUE, busy |-> fa.busy, checking |-> fa.checking]
      BY <1>1, <1>3, <2>2, SFactorIs
    <3>3. fa' \in SFactor
      BY <1>3, <3>2, SFactorIs DEF SFactor
    <3> QED BY <2>2, <3>2, <3>3
  <2> QED BY <2>1, <2>2
<1> HIDE DEF s
<1>8. SSteps'
  BY <1>0, <1>2, <1>5, SGoneSteps DEF SFactors, SSteps
<1>q. \A y \in Calls : \A k : /\ SBusy(y, k)' => SBusy(y, k) /\ call'[y] = call[y] /\ y # x
                              /\ SLive(y, k)' => SLive(y, k) /\ call'[y] = call[y]
  BY <1>2, SGone
<1>r. \A y \in Calls : \A k : "enroll" \notin k =>
        /\ SBusy(y, k) => SBusy(y, k)' /\ call'[y] = call[y]
        /\ SLive(y, k) => SLive(y, k)' /\ call'[y] = call[y]
  BY <1>1, <1>2, SGone DEF SLive, SBusy
<1>9. SCodes'
  BY <1>0, <1>1, <1>5, <1>q, <1>r DEF SFactors, SCodes
<1>10. SKey'
  <2> SUFFICES ASSUME ~past'.twin PROVE SKey'
    BY DEF SKey
  <2>1. ~past.twin /\ SKey
    BY <1>0, <1>1 DEF SFactors
  <2>2. \A y \in Calls : ~SBusy(y, S!Changes)'
    BY <1>0, <1>1, <1>q, <2>1 DEF SGeneral, SOnly, SLive, SBusy, S!Changes
  <2>3. \A y \in Calls : ~SBusy(y, {"confirm"})' /\ ~SBusy(y, {"enroll"})'
    BY <2>2 DEF SBusy, S!Changes, S!OfCodes
  <2>4. fa'.secret # 0 => fa'.secret = db.secret
    BY <1>1, <1>5, <2>1 DEF SKey, SLive, s
  <2> QED BY <1>1, <2>3, <2>4 DEF SKey
<1>11. SEnabled'
  BY <1>0, <1>1, <1>5, <1>q, <1>r DEF SFactors, SEnabled
<1> QED BY <1>1, <1>2, <1>3, <1>5, <1>8, <1>9, <1>10, <1>11, SFactorStep
    DEF SFactors, SFactorKinds, SLive, SBusy, SPast

LEMMA SEnrollStuckOK == ASSUME SInv, NEW x \in Calls, S!EnrollStuck(x) PROVE SInv'
<1>0. SGeneral /\ SFactors /\ SUsers /\ SPrefs /\ SFormsOK
  BY DEF SInv, SGeneral, SFactors, SFormsOK
<1>1. /\ SLive(x, {"enroll"}) /\ S!Done(x) /\ tab' = tab /\ fa' = fa
      /\ forms' = forms /\ list' = list /\ prefs' = prefs /\ db' = db /\ edits' = edits
      /\ past' = past
  BY DEF S!EnrollStuck, S!SetFa, S!Answered, SLive, SBusy
<1>2. /\ SCalls' /\ SHere' /\ SOnly' /\ SAges
      /\ call'[x] = NoCall /\ \A y \in Calls : y # x => call'[y] = call[y]
  BY <1>0, <1>1, SDones
<1>3. fa \in SFactor /\ SPast /\ edits \in 0..MaxEdits
  BY <1>0 DEF SGeneral, SType, SFactors
<1>8. SSteps'
  BY <1>0, <1>1, <1>2, SGoneSteps DEF SFactors, SSteps
<1>q. \A y \in Calls : \A k : /\ SBusy(y, k)' => SBusy(y, k) /\ call'[y] = call[y] /\ y # x
                              /\ SLive(y, k)' => SLive(y, k) /\ call'[y] = call[y]
  BY <1>2, SGone
<1>r. \A y \in Calls : \A k : "enroll" \notin k =>
        /\ SBusy(y, k) => SBusy(y, k)' /\ call'[y] = call[y]
        /\ SLive(y, k) => SLive(y, k)' /\ call'[y] = call[y]
  BY <1>1, <1>2, SGone DEF SLive, SBusy
<1>9. SCodes'
  BY <1>0, <1>1, <1>q, <1>r DEF SFactors, SCodes
<1>10. SKey'
  BY <1>0, <1>1, <1>q DEF SFactors, SKey
<1>11. SEnabled'
  BY <1>0, <1>1, <1>q, <1>r DEF SFactors, SEnabled
<1> QED BY <1>1, <1>2, <1>3, <1>8, <1>9, <1>10, <1>11, SFactorStep
    DEF SFactors, SFactorKinds, SLive, SBusy, SPast


LEMMA SConfirmEnrollOK == ASSUME SInv, NEW code \in S!Keys, S!ConfirmEnroll(code) PROVE SInv'
<1>0. SGeneral /\ SFactors /\ SUsers /\ SPrefs /\ SFormsOK
  BY DEF SInv, SGeneral, SFactors, SFormsOK
<1>1. /\ tab = "twofactor" /\ fa.step = "enroll" /\ ~fa.busy /\ code \in {0, fa.secret}
      /\ S!Change("confirm", code) /\ tab' = tab
      /\ fa' = [fa EXCEPT !.error = FALSE, !.busy = TRUE]
      /\ forms' = forms /\ list' = list /\ prefs' = prefs /\ db' = db
  BY DEF S!ConfirmEnroll, S!Enrolling, S!SetFa
<1>2. code \in SArgs
  BY SArgsHas
<1>3. fa \in SFactor
  BY <1>0 DEF SGeneral, SType
<1>4. /\ SCalls' /\ SHere' /\ SOnly' /\ SAges /\ SPast' /\ edits' \in 0..MaxEdits
      /\ past'.torn = past.torn /\ past'.unread = past.unread
      /\ ~past'.twin => \A y \in Calls : ~SBusy(y, S!Changes)
      /\ \E x \in Calls :
           /\ call[x] = NoCall /\ \A y \in Calls : y # x => call'[y] = call[y]
           /\ call'[x] # NoCall /\ call'[x].kind = "confirm" /\ call'[x].for # None /\ call'[x].arg = code
           /\ call'[x].then = None /\ call'[x].at = "sent"
  BY <1>0, <1>1, <1>2, SFactorChange
<1> PICK x \in Calls :
           /\ call[x] = NoCall /\ \A y \in Calls : y # x => call'[y] = call[y]
           /\ call'[x] # NoCall /\ call'[x].kind = "confirm" /\ call'[x].for # None /\ call'[x].arg = code
           /\ call'[x].then = None /\ call'[x].at = "sent"
  BY <1>4
<1>5. /\ fa' \in SFactor /\ fa'.enabled = fa.enabled /\ fa'.step = fa.step /\ fa'.codes = fa.codes
      /\ fa'.secret = fa.secret /\ fa'.loaded = fa.loaded /\ fa'.busy = TRUE /\ fa'.checking = fa.checking
  <2>1. fa' = [enabled |-> fa.enabled, step |-> fa.step, codes |-> fa.codes, secret |-> fa.secret,
                loaded |-> fa.loaded, error |-> FALSE, busy |-> TRUE, checking |-> fa.checking]
    BY <1>1, <1>3, SFactorIs
  <2>2. fa' \in SFactor
    BY <1>3, <2>1, SFactorIs DEF SFactor
  <2> QED BY <2>1, <2>2
<1>7. /\ \A y \in Calls : y # x => (SConfirming(y)' => SConfirming(y)) /\ (SChecking(y)' => SChecking(y))
                                   /\ (SMounting(y)' => SMounting(y))
      /\ ~SChecking(x)' /\ ~SMounting(x)'
  <2>1. ~SChecking(x)' /\ ~SMounting(x)'
    BY DEF SConfirming, SChecking, SMounting, SBusy, SLive
  <2> QED BY <2>1, SOthers
<1>8. SSteps'
  <2>1. \A y \in Calls : ~SConfirming(y)
    BY <1>0, <1>1 DEF SFactors, SSteps
  <2> QED BY <1>0, <1>1, <1>5, <1>7, <2>1 DEF SFactors, SSteps
<1>q. \A y \in Calls :
        /\ y # x => call'[y] = call[y] /\ \A k : (SBusy(y, k)' <=> SBusy(y, k)) /\ (SLive(y, k)' <=> SLive(y, k))
        /\ y = x => /\ call'[y].at = "sent" /\ call'[y].for # None /\ call'[y].arg = code
                    /\ \A k : ~SBusy(y, k) /\ ~SLive(y, k)
                              /\ ((SBusy(y, k) \/ SLive(y, k))' => "confirm" \in k)
  <2>1. \A k : ~SBusy(x, k) /\ ~SLive(x, k) /\ ((SBusy(x, k) \/ SLive(x, k))' => "confirm" \in k)
    BY DEF SBusy, SLive
  <2> QED BY <2>1, SOthers
<1>9. SCodes'
  BY <1>0, <1>1, <1>4, <1>5, <1>q DEF SFactors, SCodes
<1>10. SKey'
  <2> SUFFICES ASSUME ~past'.twin PROVE SKey'
    BY DEF SKey
  <2>1. ~past.twin /\ SKey
    BY <1>0, <1>4 DEF SAges, SFactors
  <2>2. \A y \in Calls : ~SBusy(y, {"enroll"})' /\ (SBusy(y, {"confirm"})' => y = x)
    BY <1>4, <1>q DEF S!Changes, S!OfCodes, SBusy
  <2> QED BY <1>1, <1>5, <1>q, <2>1, <2>2 DEF SKey
<1>11. SEnabled'
  BY <1>0, <1>1, <1>4, <1>5, <1>q DEF SFactors, SEnabled, SAges
<1> QED BY <1>1, <1>4, <1>5, <1>8, <1>9, <1>10, <1>11, SFactorStep DEF SFactors, SFactorKinds

\* A reload of the section is sent by the handler of an answer.
LEMMA SFactorReload ==
  ASSUME SGeneral, NEW x \in Calls, SLive(x, {"confirm", "disable"}), tab' = tab, past' = past,
         NEW h, h = call[x].kind, S!DoneThen(x, "totp", h)
  PROVE  /\ SCalls' /\ SHere' /\ SOnly' /\ SAges /\ \A y \in Calls : y # x => call'[y] = call[y]
         /\ call'[x] # NoCall /\ call'[x].kind = "totp" /\ call'[x].for # None
         /\ call'[x].then = h /\ call'[x].at = "sent"
<1>0. SCall(call[x]) /\ tab \in S!Tabs /\ call[x] # NoCall /\ call[x].for \in {"general", tab}
  BY DEF SGeneral, SType, SCalls, SHere, SLive, SBusy, SKinds, S!Changes, S!OfCodes
<1>1. h \in {"confirm", "disable"} /\ tab = "twofactor"
  BY <1>0 DEF SCall, SLive, SBusy, S!OfCodes
<1>2. h \in {None} \cup SThens /\ h \in SThens /\ "totp" \in SLoads /\ "totp" \in SKinds /\ None \in SArgs
  BY <1>1, SArgsHas DEF SThens, SLoads, SKinds
<1> DEFINE c == S!NewCall("totp", None, h)
<1>3. c \in SRequests /\ c.kind = "totp" /\ c.for = tab /\ c.then = h /\ c.at = "sent"
  BY <1>0, <1>2, SNewCall
<1> HIDE DEF c
<1>4. SCall(c)
  BY <1>1, <1>3 DEF SCall, S!OfCodes
<1>5. SCall(S!NewCall("totp", None, h)) /\ tab # None
  BY <1>0, <1>4, SettingsAssumption DEF c
<1> QED BY <1>0, <1>2, <1>5, SReload

LEMMA SConfirmedOK == ASSUME SInv, NEW x \in Calls, S!Confirmed(x) PROVE SInv'
<1>0. SGeneral /\ SFactors /\ SUsers /\ SPrefs /\ SFormsOK
  BY DEF SInv, SGeneral, SFactors, SFormsOK
<1>1. /\ SLive(x, {"confirm"}) /\ call[x].at = "ok" /\ S!DoneThen(x, "totp", "confirm") /\ tab' = tab
      /\ fa' = [fa EXCEPT !.codes = call[x].data]
      /\ forms' = forms /\ list' = list /\ prefs' = prefs /\ db' = db /\ edits' = edits
      /\ past' = past
  BY DEF S!Confirmed, S!SetFa, S!Answered, SLive, SBusy
<1>2. /\ SCalls' /\ SHere' /\ SOnly' /\ SAges /\ \A y \in Calls : y # x => call'[y] = call[y]
      /\ call'[x] # NoCall /\ call'[x].kind = "totp" /\ call'[x].for # None
      /\ call'[x].then = "confirm" /\ call'[x].at = "sent"
  <2>1. call[x].kind = "confirm" /\ SLive(x, {"confirm", "disable"})
    BY <1>1 DEF SLive, SBusy
  <2> QED BY <1>0, <1>1, <2>1, SFactorReload
<1>3. fa \in SFactor /\ SPast /\ edits \in 0..MaxEdits
  BY <1>0 DEF SGeneral, SType, SFactors
<1>5. /\ fa' \in SFactor /\ fa'.enabled = fa.enabled /\ fa'.step = fa.step /\ fa'.codes = call[x].data
      /\ fa'.secret = fa.secret /\ fa'.loaded = fa.loaded /\ fa'.busy = fa.busy /\ fa'.checking = fa.checking
  <2>1. call[x].data \in S!Keys
    BY <1>0, <1>1 DEF SGeneral, SType, SCalls, SCall, SLive, SBusy
  <2>2. fa' = [enabled |-> fa.enabled, step |-> fa.step, codes |-> call[x].data, secret |-> fa.secret,
                loaded |-> fa.loaded, error |-> fa.error, busy |-> fa.busy, checking |-> fa.checking]
    BY <1>1, <1>3, SFactorIs
  <2>3. fa' \in SFactor
    BY <1>3, <2>1, <2>2, SFactorIs DEF SFactor
  <2> QED BY <2>2, <2>3
<1>6. SConfirming(x) /\ fa.enabled = FALSE
  BY <1>0, <1>1 DEF SFactors, SSteps, SConfirming
<1>7. /\ \A y \in Calls : (SConfirming(y)' => SConfirming(y)) /\ (SChecking(y)' => SChecking(y))
                          /\ (SMounting(y)' => SMounting(y))
      /\ ~SChecking(x)' /\ ~SMounting(x)'
  <2>1. ~SChecking(x)' /\ ~SMounting(x)'
    BY <1>2, SettingsAssumption DEF SConfirming, SChecking, SMounting, SBusy, SLive
  <2> QED BY <1>2, <1>6, <2>1, SOthers
<1>8. SSteps'
  <2>1. \A y \in Calls : ~SChecking(y)
    BY <1>0, <1>6 DEF SFactors, SSteps
  <2>2. fa.step \notin {"disable", "regenerate"}
    BY <1>0, <1>6 DEF SFactors, SSteps
  <2> QED BY <1>0, <1>5, <1>7, <2>1, <2>2 DEF SFactors, SSteps
<1>q. \A y \in Calls : \A k :
        /\ SBusy(y, k)' => (y = x /\ "totp" \in k) \/ (SBusy(y, k) /\ call'[y] = call[y])
        /\ y # x => call'[y] = call[y] /\ (SBusy(y, k)' <=> SBusy(y, k)) /\ (SLive(y, k)' <=> SLive(y, k))
  <2>1. \A k : SBusy(x, k)' => "totp" \in k
    BY <1>2 DEF SBusy
  <2> QED BY <1>2, <2>1, SOthers
<1>9. SCodes'
  <2> SUFFICES ASSUME ~past'.unread PROVE SCodes'
    BY DEF SCodes
  <2>1. ~past.unread /\ SCodes
    BY <1>0, <1>1 DEF SFactors
  <2>2. db.enabled /\ call[x].data = db.batch
    BY <1>1, <2>1 DEF SCodes, SLive, SBusy
  <2> QED BY <1>1, <1>5, <1>q, <2>1, <2>2 DEF SCodes, S!OfCodes
<1>10. SKey'
  BY <1>0, <1>1, <1>5, <1>q DEF SFactors, SKey
<1>11. SEnabled'
  <2>1. SLive(x, {"totp"})' /\ call'[x].then # None /\ call'[x].at # "ok"
    BY <1>2, SettingsAssumption DEF SLive, SBusy
  <2> QED BY <1>0, <1>1, <1>q, <2>1 DEF SFactors, SEnabled
<1> QED BY <1>1, <1>2, <1>3, <1>5, <1>8, <1>9, <1>10, <1>11, SFactorStep
    DEF SFactors, SFactorKinds, SLive, SBusy, SPast

LEMMA SConfirmFailedOK == ASSUME SInv, NEW x \in Calls, S!ConfirmFailed(x) PROVE SInv'
<1>0. SGeneral /\ SFactors /\ SUsers /\ SPrefs /\ SFormsOK
  BY DEF SInv, SGeneral, SFactors, SFormsOK
<1>1. /\ SConfirming(x) /\ call[x].at \in {"lost", "refused"} /\ S!Done(x) /\ tab' = tab
      /\ call[x] # NoCall /\ call[x].kind \in {"confirm", "totp"}
      /\ fa' = [fa EXCEPT !.error = TRUE, !.busy = FALSE]
      /\ forms' = forms /\ list' = list /\ prefs' = prefs /\ db' = db /\ edits' = edits
      /\ past' = past
  BY DEF S!ConfirmFailed, S!SetFa, S!Answered, SConfirming, SLive, SBusy
<1>2. /\ SCalls' /\ SHere' /\ SOnly' /\ SAges
      /\ call'[x] = NoCall /\ \A y \in Calls : y # x => call'[y] = call[y]
  BY <1>0, <1>1, SDones
<1>3. fa \in SFactor /\ SPast /\ edits \in 0..MaxEdits
  BY <1>0 DEF SGeneral, SType, SFactors
<1>5. /\ fa' \in SFactor /\ fa'.enabled = fa.enabled /\ fa'.step = fa.step /\ fa'.codes = fa.codes
      /\ fa'.secret = fa.secret /\ fa'.loaded = fa.loaded /\ fa'.busy = FALSE /\ fa'.checking = fa.checking
  <2>2. fa' = [enabled |-> fa.enabled, step |-> fa.step, codes |-> fa.codes, secret |-> fa.secret,
                loaded |-> fa.loaded, error |-> TRUE, busy |-> FALSE, checking |-> fa.checking]
    BY <1>1, <1>3, SFactorIs
  <2>3. fa' \in SFactor
    BY <1>3, <2>2, SFactorIs DEF SFactor
  <2> QED BY <2>2, <2>3
<1>7. \A y \in Calls : ~SConfirming(y)'
  BY <1>0, <1>1, <1>2, SGoneSteps DEF SFactors, SSteps
<1>8. SSteps'
  BY <1>0, <1>2, <1>5, <1>7, SGoneSteps DEF SFactors, SSteps
<1>q. \A y \in Calls : \A k : /\ SBusy(y, k)' => SBusy(y, k) /\ call'[y] = call[y]
                              /\ SLive(y, k)' => SLive(y, k) /\ call'[y] = call[y]
                              /\ SBusy(y, k) /\ y # x => SBusy(y, k)' /\ call'[y] = call[y]
  BY <1>2, SGone
<1>9. SCodes'
  BY <1>0, <1>1, <1>5, <1>q DEF SFactors, SCodes
<1>10. SKey'
  BY <1>0, <1>1, <1>5, <1>q DEF SFactors, SKey
<1>11. SEnabled'
  <2>1. past.torn
    BY <1>0, <1>1 DEF SGeneral, SType, SPast, SOnly, SBusy, SKinds, SLoads, S!Changes, S!OfCodes
  <2> QED BY <1>1, <2>1 DEF SEnabled
<1> QED BY <1>1, <1>2, <1>3, <1>5, <1>8, <1>9, <1>10, <1>11, SFactorStep
    DEF SFactors, SFactorKinds, SPast


\* A step of the section that sends nothing.
LEMMA SFactorActs ==
  ASSUME SInv, S!Spend(1), fa' \in SFactor, call' = call, past' = past,
         tab' = tab, forms' = forms, list' = list, prefs' = prefs, db' = db,
         fa'.enabled = fa.enabled, fa'.secret = fa.secret, fa'.loaded = fa.loaded, fa'.busy = fa.busy,
         fa'.checking = fa.checking, fa'.codes = 0 \/ fa'.codes = fa.codes,
         \/ fa'.step \in {fa.step, "status"}
         \/ fa'.codes = 0 /\ fa.enabled = TRUE /\ fa'.step \in {"disable", "regenerate"}
  PROVE  SInv'
<1>0. SGeneral /\ SFactors /\ SUsers /\ SPrefs /\ SFormsOK
  BY DEF SInv, SGeneral, SFactors, SFormsOK
<1>1. SCalls' /\ SHere' /\ SOnly' /\ SPast' /\ SAges
  BY <1>0, SActs
<1>2. SType'
  <2>1. edits' \in 0..MaxEdits
    BY <1>0, SSpends DEF SGeneral, SType
  <2> QED BY <1>0, <1>1, <2>1 DEF SGeneral, SType
<1>3. SFormsOK' /\ SUsers' /\ SPrefs'
  BY <1>0, <1>1, SStill, SFormsFrame, SUsersFrame, SPrefsFrame
<1>4. \A y \in Calls :
        /\ \A k : (SBusy(y, k)' <=> SBusy(y, k)) /\ (SLive(y, k)' <=> SLive(y, k))
        /\ (SConfirming(y)' <=> SConfirming(y)) /\ (SChecking(y)' <=> SChecking(y))
        /\ (SMounting(y)' <=> SMounting(y))
  BY DEF SBusy, SLive, SConfirming, SChecking, SMounting
<1>5. SSteps'
  BY <1>0, <1>4 DEF SFactors, SSteps
<1>6. SCodes'
  BY <1>0, <1>4 DEF SFactors, SCodes
<1>7. SKey'
  BY <1>0, <1>4 DEF SFactors, SKey
<1>8. SEnabled'
  BY <1>0, <1>4 DEF SFactors, SEnabled
<1> QED BY <1>1, <1>2, <1>3, <1>5, <1>6, <1>7, <1>8 DEF SInv, SFormsOK

LEMMA SAskPasswordOK ==
  ASSUME SInv, NEW step \in {"disable", "regenerate"}, S!AskPassword(step) PROVE SInv'
<1>1. /\ fa.enabled # None /\ fa.step = "status" /\ fa.codes = 0 /\ fa.enabled
      /\ S!Spend(1) /\ fa' = [fa EXCEPT !.step = step] /\ call' = call /\ past' = past
      /\ tab' = tab /\ forms' = forms /\ list' = list /\ prefs' = prefs /\ db' = db
  BY DEF S!AskPassword, S!Offered, S!Act, S!SetFa
<1>2. fa \in SFactor
  BY DEF SInv, SType
<1>3. /\ fa' \in SFactor /\ fa'.enabled = fa.enabled /\ fa'.step = step /\ fa'.codes = fa.codes
      /\ fa'.secret = fa.secret /\ fa'.loaded = fa.loaded /\ fa'.busy = fa.busy /\ fa'.checking = fa.checking
  <2>1. fa' = [enabled |-> fa.enabled, step |-> step, codes |-> fa.codes, secret |-> fa.secret,
               loaded |-> fa.loaded, error |-> fa.error, busy |-> fa.busy, checking |-> fa.checking]
    BY <1>1, <1>2, SFactorIs
  <2>2. fa' \in SFactor
    BY <1>2, <2>1, SFactorIs DEF SFactor
  <2> QED BY <2>1, <2>2
<1>4. fa.enabled = TRUE
  BY <1>1, <1>2, SFactorIs
<1> QED BY <1>1, <1>3, <1>4, SFactorActs

LEMMA SCancelStepOK == ASSUME SInv, S!CancelStep PROVE SInv'
<1>1. /\ S!Spend(1) /\ fa' = [fa EXCEPT !.step = "status", !.error = FALSE] /\ call' = call /\ past' = past
      /\ tab' = tab /\ forms' = forms /\ list' = list /\ prefs' = prefs /\ db' = db
  BY DEF S!CancelStep, S!Act, S!SetFa
<1>2. fa \in SFactor
  BY DEF SInv, SType
<1>3. /\ fa' \in SFactor /\ fa'.enabled = fa.enabled /\ fa'.step = "status" /\ fa'.codes = fa.codes
      /\ fa'.secret = fa.secret /\ fa'.loaded = fa.loaded /\ fa'.busy = fa.busy /\ fa'.checking = fa.checking
  <2>1. fa' = [enabled |-> fa.enabled, step |-> "status", codes |-> fa.codes, secret |-> fa.secret,
               loaded |-> fa.loaded, error |-> FALSE, busy |-> fa.busy, checking |-> fa.checking]
    BY <1>1, <1>2, SFactorIs
  <2>2. fa' \in SFactor
    BY <1>2, <2>1, SFactorIs DEF SFactor
  <2> QED BY <2>1, <2>2
<1> QED BY <1>1, <1>3, SFactorActs

LEMMA SCodesSavedOK == ASSUME SInv, S!CodesSaved PROVE SInv'
<1>1. /\ S!Spend(1) /\ fa' = [fa EXCEPT !.codes = 0] /\ call' = call /\ past' = past
      /\ tab' = tab /\ forms' = forms /\ list' = list /\ prefs' = prefs /\ db' = db
  BY DEF S!CodesSaved, S!Act, S!SetFa
<1>2. fa \in SFactor
  BY DEF SInv, SType
<1>3. /\ fa' \in SFactor /\ fa'.enabled = fa.enabled /\ fa'.step = fa.step /\ fa'.codes = 0
      /\ fa'.secret = fa.secret /\ fa'.loaded = fa.loaded /\ fa'.busy = fa.busy /\ fa'.checking = fa.checking
  <2>1. fa' = [enabled |-> fa.enabled, step |-> fa.step, codes |-> 0, secret |-> fa.secret,
               loaded |-> fa.loaded, error |-> fa.error, busy |-> fa.busy, checking |-> fa.checking]
    BY <1>1, <1>2, SFactorIs
  <2>2. 0 \in S!Keys
    BY BoundsAssumption, SettingsAssumption DEF S!Keys
  <2>3. fa' \in SFactor
    BY <1>2, <2>1, <2>2, SFactorIs DEF SFactor
  <2> QED BY <2>1, <2>3
<1> QED BY <1>1, <1>3, SFactorActs

LEMMA SSubmitPasswordOK == ASSUME SInv, NEW good \in BOOLEAN, S!SubmitPassword(good) PROVE SInv'
<1>0. SGeneral /\ SFactors /\ SUsers /\ SPrefs /\ SFormsOK
  BY DEF SInv, SGeneral, SFactors, SFormsOK
<1>1. /\ tab = "twofactor" /\ fa.step \in {"disable", "regenerate"} /\ ~fa.checking
      /\ S!Change(fa.step, good) /\ tab' = tab
      /\ fa' = [fa EXCEPT !.checking = TRUE]
      /\ forms' = forms /\ list' = list /\ prefs' = prefs /\ db' = db
  BY DEF S!SubmitPassword, S!SetFa
<1>2. good \in SArgs
  BY SArgsHas
<1>3. fa \in SFactor
  BY <1>0 DEF SGeneral, SType
<1>4. /\ SCalls' /\ SHere' /\ SOnly' /\ SAges /\ SPast' /\ edits' \in 0..MaxEdits
      /\ past'.torn = past.torn /\ past'.unread = past.unread
      /\ ~past'.twin => \A y \in Calls : ~SBusy(y, S!Changes)
      /\ \E x \in Calls :
           /\ call[x] = NoCall /\ \A y \in Calls : y # x => call'[y] = call[y]
           /\ call'[x] # NoCall /\ call'[x].kind = fa.step /\ call'[x].for # None /\ call'[x].arg = good
           /\ call'[x].then = None /\ call'[x].at = "sent"
  BY <1>0, <1>1, <1>2, SFactorChange
<1> PICK x \in Calls :
           /\ call[x] = NoCall /\ \A y \in Calls : y # x => call'[y] = call[y]
           /\ call'[x] # NoCall /\ call'[x].kind = fa.step /\ call'[x].for # None /\ call'[x].arg = good
           /\ call'[x].then = None /\ call'[x].at = "sent"
  BY <1>4
<1>5. /\ fa' \in SFactor /\ fa'.enabled = fa.enabled /\ fa'.step = fa.step /\ fa'.codes = fa.codes
      /\ fa'.secret = fa.secret /\ fa'.loaded = fa.loaded /\ fa'.busy = fa.busy /\ fa'.checking = TRUE
  <2>1. fa' = [enabled |-> fa.enabled, step |-> fa.step, codes |-> fa.codes, secret |-> fa.secret,
                loaded |-> fa.loaded, error |-> fa.error, busy |-> fa.busy, checking |-> TRUE]
    BY <1>1, <1>3, SFactorIs
  <2>2. fa' \in SFactor
    BY <1>3, <2>1, SFactorIs DEF SFactor
  <2> QED BY <2>1, <2>2
<1>6. fa.enabled = TRUE /\ fa.codes = 0
  BY <1>0, <1>1 DEF SFactors, SSteps
<1>7. /\ \A y \in Calls : y # x => (SConfirming(y)' => SConfirming(y)) /\ (SChecking(y)' => SChecking(y))
                                   /\ (SMounting(y)' => SMounting(y))
      /\ ~SConfirming(x)' /\ ~SMounting(x)'
  <2>1. ~SConfirming(x)' /\ ~SMounting(x)'
    BY <1>1 DEF SConfirming, SChecking, SMounting, SBusy, SLive
  <2> QED BY <2>1, SOthers
<1>8. SSteps'
  <2>1. \A y \in Calls : ~SChecking(y)
    BY <1>0, <1>1 DEF SFactors, SSteps
  <2> QED BY <1>0, <1>1, <1>5, <1>6, <1>7, <2>1 DEF SFactors, SSteps
<1>q. \A y \in Calls :
        /\ y # x => call'[y] = call[y] /\ \A k : (SBusy(y, k)' <=> SBusy(y, k)) /\ (SLive(y, k)' <=> SLive(y, k))
        /\ y = x => /\ call'[y].at = "sent" /\ call'[y].for # None
                    /\ \A k : ~SBusy(y, k) /\ ~SLive(y, k)
                              /\ ((SBusy(y, k) \/ SLive(y, k))' => fa.step \in k)
  <2>1. \A k : ~SBusy(x, k) /\ ~SLive(x, k) /\ ((SBusy(x, k) \/ SLive(x, k))' => fa.step \in k)
    BY DEF SBusy, SLive
  <2> QED BY <2>1, SOthers
<1>9. SCodes'
  BY <1>0, <1>1, <1>4, <1>5, <1>6, <1>q DEF SFactors, SCodes
<1>10. SKey'
  BY <1>0, <1>1, <1>4, <1>5, <1>q DEF SFactors, SKey, SAges
<1>11. SEnabled'
  BY <1>0, <1>1, <1>4, <1>5, <1>q DEF SFactors, SEnabled, SAges
<1> QED BY <1>1, <1>4, <1>5, <1>8, <1>9, <1>10, <1>11, SFactorStep DEF SFactors, SFactorKinds

LEMMA SDisabledOK == ASSUME SInv, NEW x \in Calls, S!Disabled(x) PROVE SInv'
<1>0. SGeneral /\ SFactors /\ SUsers /\ SPrefs /\ SFormsOK
  BY DEF SInv, SGeneral, SFactors, SFormsOK
<1>1. /\ SLive(x, {"disable"}) /\ call[x].at = "ok" /\ S!DoneThen(x, "totp", "disable") /\ tab' = tab
      /\ fa' = fa
      /\ forms' = forms /\ list' = list /\ prefs' = prefs /\ db' = db /\ edits' = edits
      /\ past' = past
  BY DEF S!Disabled, S!SetFa, S!Answered, SLive, SBusy
<1>2. /\ SCalls' /\ SHere' /\ SOnly' /\ SAges /\ \A y \in Calls : y # x => call'[y] = call[y]
      /\ call'[x] # NoCall /\ call'[x].kind = "totp" /\ call'[x].for # None
      /\ call'[x].then = "disable" /\ call'[x].at = "sent"
  <2>1. call[x].kind = "disable" /\ SLive(x, {"confirm", "disable"})
    BY <1>1 DEF SLive, SBusy
  <2> QED BY <1>0, <1>1, <2>1, SFactorReload
<1>3. fa \in SFactor /\ SPast /\ edits \in 0..MaxEdits
  BY <1>0 DEF SGeneral, SType, SFactors
<1>6. SChecking(x) /\ fa.enabled = TRUE /\ fa.codes = 0
  <2>1. SChecking(x)
    BY <1>1 DEF SChecking, SLive, SBusy
  <2> QED BY <1>0, <2>1 DEF SFactors, SSteps
<1>7. /\ \A y \in Calls : (SConfirming(y)' => SConfirming(y)) /\ (SChecking(y)' => SChecking(y))
                          /\ (SMounting(y)' => SMounting(y))
      /\ ~SConfirming(x)' /\ ~SMounting(x)'
  <2>1. ~SConfirming(x)' /\ ~SMounting(x)'
    BY <1>2, SettingsAssumption DEF SConfirming, SChecking, SMounting, SBusy, SLive
  <2> QED BY <1>2, <1>6, <2>1, SOthers
<1>8. SSteps'
  BY <1>0, <1>1, <1>6, <1>7 DEF SFactors, SSteps
<1>q. \A y \in Calls : \A k :
        /\ SBusy(y, k)' => (y = x /\ "totp" \in k) \/ (SBusy(y, k) /\ call'[y] = call[y])
        /\ y # x => call'[y] = call[y] /\ (SBusy(y, k)' <=> SBusy(y, k)) /\ (SLive(y, k)' <=> SLive(y, k))
  <2>1. \A k : SBusy(x, k)' => "totp" \in k
    BY <1>2 DEF SBusy
  <2> QED BY <1>2, <2>1, SOthers
<1>9. SCodes'
  BY <1>0, <1>1, <1>6, <1>q DEF SFactors, SCodes, S!OfCodes
<1>10. SKey'
  BY <1>0, <1>1, <1>q DEF SFactors, SKey
<1>11. SEnabled'
  <2>1. SLive(x, {"totp"})' /\ call'[x].then # None /\ call'[x].at # "ok"
    BY <1>2, SettingsAssumption DEF SLive, SBusy
  <2> QED BY <1>0, <1>1, <1>q, <2>1 DEF SFactors, SEnabled
<1> QED BY <1>1, <1>2, <1>3, <1>8, <1>9, <1>10, <1>11, SFactorStep
    DEF SFactors, SFactorKinds, SLive, SBusy, SPast

LEMMA SRegeneratedOK == ASSUME SInv, NEW x \in Calls, S!Regenerated(x) PROVE SInv'
<1>0. SGeneral /\ SFactors /\ SUsers /\ SPrefs /\ SFormsOK
  BY DEF SInv, SGeneral, SFactors, SFormsOK
<1>1. /\ SLive(x, {"regenerate"}) /\ call[x].at = "ok" /\ S!Done(x) /\ tab' = tab
      /\ fa' = [fa EXCEPT !.codes = call[x].data, !.step = "status", !.checking = FALSE]
      /\ forms' = forms /\ list' = list /\ prefs' = prefs /\ db' = db /\ edits' = edits
      /\ past' = past
  BY DEF S!Regenerated, S!SetFa, S!Answered, SLive, SBusy
<1>2. /\ SCalls' /\ SHere' /\ SOnly' /\ SAges
      /\ call'[x] = NoCall /\ \A y \in Calls : y # x => call'[y] = call[y]
  BY <1>0, <1>1, SDones
<1>3. fa \in SFactor /\ SPast /\ edits \in 0..MaxEdits
  BY <1>0 DEF SGeneral, SType, SFactors
<1>5. /\ fa' \in SFactor /\ fa'.enabled = fa.enabled /\ fa'.step = "status" /\ fa'.codes = call[x].data
      /\ fa'.secret = fa.secret /\ fa'.loaded = fa.loaded /\ fa'.busy = fa.busy /\ fa'.checking = FALSE
  <2>1. call[x].data \in S!Keys
    BY <1>0, <1>1 DEF SGeneral, SType, SCalls, SCall, SLive, SBusy
  <2>2. fa' = [enabled |-> fa.enabled, step |-> "status", codes |-> call[x].data, secret |-> fa.secret,
                loaded |-> fa.loaded, error |-> fa.error, busy |-> fa.busy, checking |-> FALSE]
    BY <1>1, <1>3, SFactorIs
  <2>3. fa' \in SFactor
    BY <1>3, <2>1, <2>2, SFactorIs DEF SFactor
  <2> QED BY <2>2, <2>3
<1>6. SChecking(x)
  BY <1>1 DEF SChecking, SLive, SBusy
<1>7. \A y \in Calls : ~SChecking(y)'
  BY <1>0, <1>2, <1>6, SGoneSteps DEF SFactors, SSteps
<1>8. SSteps'
  BY <1>0, <1>2, <1>5, <1>7, SGoneSteps DEF SFactors, SSteps
<1>q. \A y \in Calls : \A k : /\ SBusy(y, k)' => SBusy(y, k) /\ call'[y] = call[y]
                              /\ SLive(y, k)' => SLive(y, k) /\ call'[y] = call[y]
                              /\ SBusy(y, k) /\ "regenerate" \notin k => SBusy(y, k)' /\ call'[y] = call[y]
                              /\ SLive(y, k) /\ "regenerate" \notin k => SLive(y, k)' /\ call'[y] = call[y]
  BY <1>1, <1>2, SGone DEF SLive, SBusy
<1>9. SCodes'
  <2> SUFFICES ASSUME ~past'.unread PROVE SCodes'
    BY DEF SCodes
  <2>1. ~past.unread /\ SCodes
    BY <1>0, <1>1 DEF SFactors
  <2>2. db.enabled /\ call[x].data = db.batch
    BY <1>1, <2>1 DEF SCodes, SLive, SBusy
  <2> QED BY <1>1, <1>5, <1>q, <2>1, <2>2 DEF SCodes
<1>10. SKey'
  BY <1>0, <1>1, <1>5, <1>q DEF SFactors, SKey
<1>11. SEnabled'
  BY <1>0, <1>1, <1>5, <1>q DEF SFactors, SEnabled
<1> QED BY <1>1, <1>2, <1>3, <1>5, <1>8, <1>9, <1>10, <1>11, SFactorStep
    DEF SFactors, SFactorKinds, SLive, SBusy, SPast

LEMMA SPasswordFailedOK == ASSUME SInv, NEW x \in Calls, S!PasswordFailed(x) PROVE SInv'
<1>0. SGeneral /\ SFactors /\ SUsers /\ SPrefs /\ SFormsOK
  BY DEF SInv, SGeneral, SFactors, SFormsOK
<1>1. /\ SChecking(x) /\ call[x].at \in {"lost", "refused"} /\ S!Done(x) /\ tab' = tab
      /\ call[x] # NoCall /\ call[x].kind \in {"disable", "regenerate", "totp"}
      /\ fa' = [fa EXCEPT !.checking = FALSE]
      /\ forms' = forms /\ list' = list /\ prefs' = prefs /\ db' = db /\ edits' = edits
      /\ past' = past
  BY DEF S!PasswordFailed, S!SetFa, S!Answered, SChecking, SLive, SBusy
<1>2. /\ SCalls' /\ SHere' /\ SOnly' /\ SAges
      /\ call'[x] = NoCall /\ \A y \in Calls : y # x => call'[y] = call[y]
  BY <1>0, <1>1, SDones
<1>3. fa \in SFactor /\ SPast /\ edits \in 0..MaxEdits
  BY <1>0 DEF SGeneral, SType, SFactors
<1>5. /\ fa' \in SFactor /\ fa'.enabled = fa.enabled /\ fa'.step = fa.step /\ fa'.codes = fa.codes
      /\ fa'.secret = fa.secret /\ fa'.loaded = fa.loaded /\ fa'.busy = fa.busy /\ fa'.checking = FALSE
  <2>2. fa' = [enabled |-> fa.enabled, step |-> fa.step, codes |-> fa.codes, secret |-> fa.secret,
                loaded |-> fa.loaded, error |-> fa.error, busy |-> fa.busy, checking |-> FALSE]
    BY <1>1, <1>3, SFactorIs
  <2>3. fa' \in SFactor
    BY <1>3, <2>2, SFactorIs DEF SFactor
  <2> QED BY <2>2, <2>3
<1>7. \A y \in Calls : ~SChecking(y)'
  BY <1>0, <1>1, <1>2, SGoneSteps DEF SFactors, SSteps
<1>8. SSteps'
  BY <1>0, <1>2, <1>5, <1>7, SGoneSteps DEF SFactors, SSteps
<1>q. \A y \in Calls : \A k : /\ SBusy(y, k)' => SBusy(y, k) /\ call'[y] = call[y]
                              /\ SLive(y, k)' => SLive(y, k) /\ call'[y] = call[y]
                              /\ SBusy(y, k) /\ y # x => SBusy(y, k)' /\ call'[y] = call[y]
  BY <1>2, SGone
<1>9. SCodes'
  BY <1>0, <1>1, <1>5, <1>q DEF SFactors, SCodes
<1>10. SKey'
  BY <1>0, <1>1, <1>5, <1>q DEF SFactors, SKey
<1>11. SEnabled'
  <2>1. past.torn
    BY <1>0, <1>1 DEF SGeneral, SType, SPast, SOnly, SBusy, SKinds, SLoads, S!Changes, S!OfCodes
  <2> QED BY <1>1, <2>1 DEF SEnabled
<1> QED BY <1>1, <1>2, <1>3, <1>5, <1>8, <1>9, <1>10, <1>11, SFactorStep
    DEF SFactors, SFactorKinds, SPast


\* The server answers a request of the section.
LEMMA SFactorAsked ==
  ASSUME SGeneral, SSteps, NEW x \in Calls, S!Serve(x), NEW r, r = S!Served(call[x]), r.data \in SData
  PROVE  /\ SAges /\ db' = r.db /\ fa' = fa /\ call[x] # NoCall /\ call[x].at = "sent"
         /\ call'[x].arg = call[x].arg /\ call'[x].at = (IF r.ok THEN "ok" ELSE "refused") /\ call'[x].data = r.data
         /\ past'.twin = past.twin /\ past'.unread = past.unread
         /\ ~past'.torn => ~past.torn /\ r.ok
         /\ SSteps'
         /\ \A y \in Calls :
              /\ y # x => call'[y] = call[y]
              /\ \A k : (SBusy(y, k)' <=> SBusy(y, k)) /\ (SLive(y, k)' <=> SLive(y, k))
              /\ call'[y].then = call[y].then /\ call'[y].for = call[y].for
<1>1. /\ SAges /\ db' = r.db
      /\ call[x] # NoCall /\ call[x].at = "sent"
      /\ call'[x] # NoCall /\ call'[x].kind = call[x].kind
      /\ call'[x].for = call[x].for /\ call'[x].arg = call[x].arg /\ call'[x].then = call[x].then
      /\ call'[x].at = (IF r.ok THEN "ok" ELSE "refused") /\ call'[x].data = r.data
      /\ \A y \in Calls : y # x => call'[y] = call[y]
      /\ past'.twin = past.twin /\ past'.unread = past.unread
      /\ ~past'.torn => ~past.torn /\ r.ok
      /\ fa' = fa
  BY SServes
<1>2. \A y \in Calls :
        /\ \A k : (SBusy(y, k)' <=> SBusy(y, k)) /\ (SLive(y, k)' <=> SLive(y, k))
        /\ call'[y].then = call[y].then /\ call'[y].for = call[y].for
  BY <1>1 DEF SBusy, SLive
<1>3. \A y \in Calls : (SConfirming(y)' <=> SConfirming(y)) /\ (SChecking(y)' <=> SChecking(y))
                       /\ (SMounting(y)' <=> SMounting(y))
  BY <1>2 DEF SConfirming, SChecking, SMounting
<1>4. SSteps'
  BY <1>1, <1>3 DEF SSteps
<1> QED BY <1>1, <1>2, <1>4

LEMMA SFactorServed ==
  ASSUME SInv, NEW x \in Calls, S!Serve(x), NEW r, r = S!Served(call[x]), call[x].kind \in SFactorKinds,
         r.data \in SData, r.db \in SStored,
         r.ok => /\ call[x].kind = "totp" => r.data \in BOOLEAN
                 /\ call[x].kind \in {"enroll", "confirm", "regenerate"} => r.data \in S!Keys,
         r.db.kept = db.kept, r.db.people = db.people, r.db.on = db.on, SFactors'
  PROVE  SInv'
<1>0. SGeneral /\ SFactors /\ SUsers /\ SPrefs /\ SFormsOK
  BY DEF SInv, SGeneral, SFactors, SFormsOK
<1>1. /\ SHere' /\ SOnly' /\ SAges /\ SPast' /\ db' = r.db
      /\ call[x] # NoCall /\ SCall(call[x])
      /\ call'[x] \in SRequests /\ call'[x] # NoCall /\ call'[x].kind = call[x].kind
      /\ call'[x].for = call[x].for /\ call'[x].arg = call[x].arg /\ call'[x].then = call[x].then
      /\ call'[x].at = (IF r.ok THEN "ok" ELSE "refused") /\ call'[x].data = r.data
      /\ DOMAIN call' = Calls /\ \A y \in Calls : y # x => call'[y] = call[y]
      /\ tab' = tab /\ forms' = forms /\ list' = list /\ prefs' = prefs /\ fa' = fa /\ edits' = edits
  BY <1>0, SServes
<1>2. SCall(call'[x])
  BY <1>1 DEF SCall, SFactorKinds, S!OfCodes
<1>3. SType'
  <2>1. SCalls'
    BY <1>0, <1>1, <1>2, SReplied DEF SGeneral, SType
  <2> QED BY <1>0, <1>1, <2>1 DEF SGeneral, SType
<1>4. SFormsOK' /\ SUsers' /\ SPrefs'
  BY <1>0, <1>1, SOnlyFactors
<1> QED BY <1>1, <1>3, <1>4 DEF SInv, SFactors, SFormsOK

LEMMA SServeStatus == ASSUME SInv, NEW x \in Calls, S!Serve(x), call[x].kind = "totp" PROVE SInv'
<1>0. SGeneral /\ SFactors /\ SSteps /\ db \in SStored
  BY DEF SInv, SGeneral, SFactors, SType
<1> DEFINE r == S!Served(call[x])
<1>1. r.db = db /\ r.data = db.enabled /\ r.ok = TRUE
  BY DEF S!Served, S!Reply
<1>2. r.data \in BOOLEAN /\ r.data \in SData
  BY <1>0, <1>1, SStoredIs, SDataHas
<1>r. r = S!Served(call[x])
  OBVIOUS
<1> HIDE DEF r
<1>3. /\ SAges /\ db' = r.db /\ fa' = fa /\ call[x] # NoCall /\ call[x].at = "sent"
      /\ call'[x].arg = call[x].arg /\ call'[x].at = (IF r.ok THEN "ok" ELSE "refused") /\ call'[x].data = r.data
      /\ past'.twin = past.twin /\ past'.unread = past.unread
      /\ ~past'.torn => ~past.torn /\ r.ok
      /\ SSteps'
      /\ \A y \in Calls :
           /\ y # x => call'[y] = call[y]
           /\ \A k : (SBusy(y, k)' <=> SBusy(y, k)) /\ (SLive(y, k)' <=> SLive(y, k))
           /\ call'[y].then = call[y].then /\ call'[y].for = call[y].for
  BY <1>0, <1>2, <1>r, SFactorAsked
<1>4. \A k : "totp" \notin k => ~SBusy(x, k)
  BY DEF SBusy
<1>5. SCodes'
  BY <1>0, <1>1, <1>3, <1>4 DEF SFactors, SCodes, S!OfCodes
<1>6. SKey'
  BY <1>0, <1>1, <1>3, <1>4 DEF SFactors, SKey
<1>7. SEnabled'
  BY <1>0, <1>1, <1>3, <1>4 DEF SFactors, SEnabled
<1> QED BY <1>0, <1>1, <1>2, <1>3, <1>5, <1>6, <1>7, <1>r, SFactorServed DEF SFactors, SFactorKinds

\* What is made anew.
LEMMA SFreshKey ==
  ASSUME db \in SStored, db.made < MaxKeys
  PROVE  S!Fresh \in S!Keys /\ S!Fresh # 0
<1>1. db.made \in 0..MaxKeys
  BY SStoredIs DEF S!Keys
<1> QED BY <1>1, SettingsAssumption DEF S!Fresh, S!Keys

\* A refusal changes nothing.
LEMMA SServeRefused ==
  ASSUME SInv, NEW x \in Calls, S!Serve(x), call[x].kind \in {"enroll", "confirm", "disable", "regenerate"},
         S!Served(call[x]) = S!Refuse, call[x].kind = "enroll" => db.enabled
  PROVE  SInv'
<1>0. SGeneral /\ SFactors /\ SSteps /\ db \in SStored
  BY DEF SInv, SGeneral, SFactors, SType
<1> DEFINE r == S!Served(call[x])
<1>1. r.db = db /\ r.data = None /\ r.ok = FALSE
  BY DEF S!Refuse, S!Reply
<1>2. r.data \in SData
  BY <1>1, SDataHas
<1>r. r = S!Served(call[x])
  OBVIOUS
<1> HIDE DEF r
<1>3. /\ SAges /\ db' = r.db /\ fa' = fa /\ call[x] # NoCall /\ call[x].at = "sent"
      /\ call'[x].arg = call[x].arg /\ call'[x].at = (IF r.ok THEN "ok" ELSE "refused") /\ call'[x].data = r.data
      /\ past'.twin = past.twin /\ past'.unread = past.unread
      /\ ~past'.torn => ~past.torn /\ r.ok
      /\ SSteps'
      /\ \A y \in Calls :
           /\ y # x => call'[y] = call[y]
           /\ \A k : (SBusy(y, k)' <=> SBusy(y, k)) /\ (SLive(y, k)' <=> SLive(y, k))
           /\ call'[y].then = call[y].then /\ call'[y].for = call[y].for
  BY <1>0, <1>2, <1>r, SFactorAsked
<1>a. call'[x].at = "refused" /\ db' = db /\ past'.torn # FALSE
  BY <1>1, <1>3
<1>5. SCodes'
  BY <1>0, <1>3, <1>a DEF SFactors, SCodes
<1>6. SKey'
  <2>1. SBusy(x, {"enroll"}) => db.enabled
    BY DEF SBusy
  <2> QED BY <1>0, <1>3, <1>a, <2>1 DEF SFactors, SKey
<1>7. SEnabled'
  BY <1>1, <1>3 DEF SEnabled
<1> QED BY <1>0, <1>1, <1>2, <1>3, <1>5, <1>6, <1>7, <1>r, SFactorServed DEF SFactors, SFactorKinds

LEMMA SServeEnroll == ASSUME SInv, NEW x \in Calls, S!Serve(x), call[x].kind = "enroll" PROVE SInv'
<1>0. SGeneral /\ SFactors /\ SSteps /\ db \in SStored /\ db.made < MaxKeys
  BY DEF SInv, SGeneral, SFactors, SType, S!Serve
<1>1. CASE db.enabled
  BY <1>1, SServeRefused DEF S!Served
<1>2. CASE ~db.enabled
  <2> DEFINE r == S!Served(call[x])
  <2>1. r.db = [db EXCEPT !.secret = S!Fresh, !.made = S!Fresh] /\ r.data = S!Fresh /\ r.ok = TRUE
    BY <1>2 DEF S!Served, S!Reply
  <2>2. S!Fresh \in S!Keys /\ S!Fresh # 0
    BY <1>0, SFreshKey
  <2>3. r.data \in S!Keys /\ r.data \in SData
    BY <2>1, <2>2, SDataHas
  <2>r. r = S!Served(call[x])
    OBVIOUS
  <2> HIDE DEF r
  <2>4. /\ r.db \in SStored /\ r.db.kept = db.kept /\ r.db.people = db.people /\ r.db.on = db.on
        /\ r.db.secret = S!Fresh /\ r.db.enabled = db.enabled /\ r.db.batch = db.batch
    <3>1. r.db = [kept |-> db.kept, people |-> db.people, on |-> db.on, secret |-> S!Fresh,
                  enabled |-> db.enabled, batch |-> db.batch, made |-> S!Fresh]
      BY <1>0, <2>1, SStoredIs
    <3>2. [kept |-> db.kept, people |-> db.people, on |-> db.on, secret |-> S!Fresh,
                  enabled |-> db.enabled, batch |-> db.batch, made |-> S!Fresh] \in SStored
      BY Zenon, <1>0, <2>2, SStoredIs, SStoredMade
    <3> QED BY <3>1, <3>2
  <2>5. /\ SAges /\ db' = r.db /\ fa' = fa /\ call[x] # NoCall /\ call[x].at = "sent"
        /\ call'[x].arg = call[x].arg /\ call'[x].at = (IF r.ok THEN "ok" ELSE "refused") /\ call'[x].data = r.data
        /\ past'.twin = past.twin /\ past'.unread = past.unread
        /\ ~past'.torn => ~past.torn /\ r.ok
        /\ SSteps'
        /\ \A y \in Calls :
             /\ y # x => call'[y] = call[y]
             /\ \A k : (SBusy(y, k)' <=> SBusy(y, k)) /\ (SLive(y, k)' <=> SLive(y, k))
             /\ call'[y].then = call[y].then /\ call'[y].for = call[y].for
    BY <1>0, <2>3, <2>r, SFactorAsked
  <2>6. \A k : SBusy(x, k) <=> "enroll" \in k
    BY <2>5 DEF SBusy
  <2>q. \A k : SLive(x, k) => "enroll" \in k
    BY <2>5 DEF SLive, SBusy
  <2>7. SCodes'
    BY <1>0, <2>4, <2>5, <2>6 DEF SFactors, SCodes
  <2>8. SKey'
    <3> SUFFICES ASSUME ~past'.twin PROVE SKey'
      BY DEF SKey
    <3>1. ~past.twin /\ SKey
      BY <1>0, <2>5 DEF SFactors
    <3>2. \A y \in Calls : SBusy(y, S!Changes) => y = x
      BY <1>0, <2>6, <3>1 DEF SGeneral, SOnly, S!Changes
    <3>3. \A y \in Calls : ~SBusy(y, {"confirm"})' /\ (SBusy(y, {"enroll"})' => y = x)
      BY <2>5, <2>6, <3>2 DEF SBusy, S!Changes, S!OfCodes
    <3>4. ~fa.loaded
      BY <2>6, <3>1 DEF SKey
    <3> QED BY <1>2, <2>1, <2>4, <2>5, <3>3, <3>4 DEF SKey
  <2>9. SEnabled'
    BY <1>0, <2>4, <2>5, <2>6, <2>q DEF SFactors, SEnabled
  <2> QED BY <1>0, <2>3, <2>4, <2>5, <2>7, <2>8, <2>9, <2>r, SFactorServed DEF SFactors, SFactorKinds
<1> QED BY <1>1, <1>2


\* While the answer to a code or a password is awaited, no other is.
LEMMA SAwaits ==
  ASSUME SFactors, ~past.unread, NEW x \in Calls, SBusy(x, S!OfCodes)
  PROVE  /\ SStep(x) /\ call[x].for # None
         /\ \A y \in Calls : SBusy(y, S!OfCodes) => y = x
         /\ \A y \in Calls : SLive(y, {"totp"}) => y = x \/ ~SStep(y)
<1>1. \A y \in Calls : SBusy(y, S!OfCodes) => SStep(y) /\ call[y].for # None
  BY DEF SFactors, SCodes, SStep, SConfirming, SChecking, SLive, SBusy, S!OfCodes
<1> QED BY <1>1, SOneStep DEF SFactors

LEMMA SServeConfirm == ASSUME SInv, NEW x \in Calls, S!Serve(x), call[x].kind = "confirm" PROVE SInv'
<1>0. SGeneral /\ SFactors /\ SSteps /\ db \in SStored /\ db.made < MaxKeys
  BY DEF SInv, SGeneral, SFactors, SType, S!Serve
<1>1. CASE call[x].arg = 0 \/ call[x].arg # db.secret
  BY <1>1, SServeRefused DEF S!Served
<1>2. CASE ~(call[x].arg = 0 \/ call[x].arg # db.secret)
  <2> DEFINE r == S!Served(call[x])
             d == [db EXCEPT !.enabled = TRUE]
  <2>1. r.db = [d EXCEPT !.batch = S!Fresh, !.made = S!Fresh] /\ r.data = S!Fresh /\ r.ok = TRUE
    BY <1>2 DEF S!Served, S!NewCodes, S!Reply
  <2>2. S!Fresh \in S!Keys /\ S!Fresh # 0
    BY <1>0, SFreshKey
  <2>3. r.data \in S!Keys /\ r.data \in SData
    BY <2>1, <2>2, SDataHas
  <2>r. r = S!Served(call[x])
    OBVIOUS
  <2> HIDE DEF r
  <2>4. /\ r.db \in SStored /\ r.db.kept = db.kept /\ r.db.people = db.people /\ r.db.on = db.on
        /\ r.db.secret = db.secret /\ r.db.enabled = TRUE /\ r.db.batch = S!Fresh
    <3>1. d = [kept |-> db.kept, people |-> db.people, on |-> db.on, secret |-> db.secret,
               enabled |-> TRUE, batch |-> db.batch, made |-> db.made]
      <4>1. d = [db EXCEPT !.enabled = TRUE]
        OBVIOUS
      <4> HIDE DEF d
      <4> QED BY <1>0, <4>1, SStoredIs
    <3> HIDE DEF d
    <3>2. r.db = [kept |-> db.kept, people |-> db.people, on |-> db.on, secret |-> db.secret,
                  enabled |-> TRUE, batch |-> S!Fresh, made |-> S!Fresh]
      BY <2>1, <3>1
    <3>3. [kept |-> db.kept, people |-> db.people, on |-> db.on, secret |-> db.secret,
                  enabled |-> TRUE, batch |-> S!Fresh, made |-> S!Fresh] \in SStored
      BY Zenon, <1>0, <2>2, SStoredIs DEF SStored
    <3> QED BY <3>2, <3>3
  <2> HIDE DEF d
  <2>5. /\ SAges /\ db' = r.db /\ fa' = fa /\ call[x] # NoCall /\ call[x].at = "sent"
        /\ call'[x].arg = call[x].arg /\ call'[x].at = (IF r.ok THEN "ok" ELSE "refused") /\ call'[x].data = r.data
        /\ past'.twin = past.twin /\ past'.unread = past.unread
        /\ ~past'.torn => ~past.torn /\ r.ok
        /\ SSteps'
        /\ \A y \in Calls :
             /\ y # x => call'[y] = call[y]
             /\ \A k : (SBusy(y, k)' <=> SBusy(y, k)) /\ (SLive(y, k)' <=> SLive(y, k))
             /\ call'[y].then = call[y].then /\ call'[y].for = call[y].for
    BY <1>0, <2>3, <2>r, SFactorAsked
  <2>6. \A k : SBusy(x, k) <=> "confirm" \in k
    BY <2>5 DEF SBusy
  <2>7. SCodes'
    <3> SUFFICES ASSUME ~past'.unread PROVE SCodes'
      BY DEF SCodes
    <3>1. ~past.unread /\ SCodes
      BY <1>0, <2>5 DEF SFactors
    <3>2. SBusy(x, S!OfCodes)
      BY <2>6 DEF S!OfCodes
    <3>3. \A y \in Calls : SBusy(y, S!OfCodes) => y = x /\ call[y].for # None
      BY <1>0, <3>1, <3>2, SAwaits
    <3>4. \A y \in Calls : SBusy(y, {"confirm", "regenerate"})' => y = x
      BY <2>5, <3>3 DEF SBusy, S!OfCodes
    <3>5. SBusy(x, {"confirm"})' /\ call'[x].at = "ok"
      BY <2>1, <2>5, <2>6
    <3> QED BY <2>1, <2>4, <2>5, <3>3, <3>4, <3>5 DEF SCodes
  <2>8. SKey'
    <3> SUFFICES ASSUME ~past'.twin PROVE SKey'
      BY DEF SKey
    <3>1. ~past.twin /\ SKey
      BY <1>0, <2>5 DEF SFactors
    <3>2. \A y \in Calls : SBusy(y, S!Changes) => y = x
      BY <1>0, <2>6, <3>1 DEF SGeneral, SOnly, S!Changes, S!OfCodes
    <3>3. \A y \in Calls : ~SBusy(y, {"enroll"})' /\ (SBusy(y, {"confirm"})' => y = x)
      BY <2>5, <2>6, <3>2 DEF SBusy, S!Changes, S!OfCodes
    <3>4. fa.secret = db.secret
      BY <1>2, <2>5, <2>6, <3>1 DEF SKey
    <3>5. call'[x].at = "ok"
      BY <2>1, <2>5
    <3> QED BY <2>4, <2>5, <3>3, <3>4, <3>5 DEF SKey
  <2>9. SEnabled'
    <3> SUFFICES ASSUME ~past'.twin, ~past'.torn PROVE SEnabled'
      BY DEF SEnabled
    <3>1. ~past.twin
      BY <2>5
    <3>2. SConfirming(x) /\ SStep(x)
      BY <1>0, <2>6, <3>1 DEF SGeneral, SOnly, SConfirming, SStep, SLive, S!Changes, S!OfCodes, SBusy
    <3>3. ASSUME NEW y \in Calls, SLive(y, {"totp"})' PROVE FALSE
      <4>1. SLive(y, {"totp"})
        BY <2>5, <3>3
      <4>2. SStep(y) /\ y # x
        BY <1>0, <2>6, <4>1, SReads DEF SLive
      <4> QED BY <1>0, <3>2, <4>2, SOneStep
    <3>4. SBusy(x, {"confirm", "disable"})' /\ call'[x].at = "ok"
      BY <2>1, <2>5, <2>6
    <3> QED BY <3>3, <3>4 DEF SEnabled
  <2> QED BY <1>0, <2>3, <2>4, <2>5, <2>7, <2>8, <2>9, <2>r, SFactorServed DEF SFactors, SFactorKinds
<1> QED BY <1>1, <1>2

LEMMA SServeDisable == ASSUME SInv, NEW x \in Calls, S!Serve(x), call[x].kind = "disable" PROVE SInv'
<1>0. SGeneral /\ SFactors /\ SSteps /\ db \in SStored
  BY DEF SInv, SGeneral, SFactors, SType, S!Serve
<1>1. CASE ~call[x].arg
  BY <1>1, SServeRefused DEF S!Served
<1>2. CASE call[x].arg
  <2> DEFINE r == S!Served(call[x])
  <2>1. r.db = [db EXCEPT !.enabled = FALSE, !.secret = 0, !.batch = 0] /\ r.data = None /\ r.ok = TRUE
    BY <1>2 DEF S!Served, S!Reply
  <2>2. 0 \in S!Keys
    BY SettingsAssumption DEF S!Keys
  <2>3. r.data \in SData
    BY <2>1, SDataHas
  <2>r. r = S!Served(call[x])
    OBVIOUS
  <2> HIDE DEF r
  <2>4. /\ r.db \in SStored /\ r.db.kept = db.kept /\ r.db.people = db.people /\ r.db.on = db.on
        /\ r.db.secret = 0 /\ r.db.enabled = FALSE
    <3>1. r.db = [kept |-> db.kept, people |-> db.people, on |-> db.on, secret |-> 0,
                  enabled |-> FALSE, batch |-> 0, made |-> db.made]
      BY <1>0, <2>1, SStoredIs
    <3>2. [kept |-> db.kept, people |-> db.people, on |-> db.on, secret |-> 0,
                  enabled |-> FALSE, batch |-> 0, made |-> db.made] \in SStored
      BY Zenon, <1>0, <2>2, SStoredIs DEF SStored
    <3> QED BY <3>1, <3>2
  <2>5. /\ SAges /\ db' = r.db /\ fa' = fa /\ call[x] # NoCall /\ call[x].at = "sent"
        /\ call'[x].arg = call[x].arg /\ call'[x].at = (IF r.ok THEN "ok" ELSE "refused") /\ call'[x].data = r.data
        /\ past'.twin = past.twin /\ past'.unread = past.unread
        /\ ~past'.torn => ~past.torn /\ r.ok
        /\ SSteps'
        /\ \A y \in Calls :
             /\ y # x => call'[y] = call[y]
             /\ \A k : (SBusy(y, k)' <=> SBusy(y, k)) /\ (SLive(y, k)' <=> SLive(y, k))
             /\ call'[y].then = call[y].then /\ call'[y].for = call[y].for
    BY <1>0, <2>3, <2>r, SFactorAsked
  <2>6. \A k : SBusy(x, k) <=> "disable" \in k
    BY <2>5 DEF SBusy
  <2>c. call[x].for # None => SChecking(x) /\ SStep(x) /\ fa.codes = 0 /\ fa.enabled = TRUE
    <3>1. call[x].for # None => SChecking(x)
      BY <2>6 DEF SChecking, SLive
    <3> QED BY <1>0, <3>1 DEF SSteps, SStep
  <2>7. SCodes'
    <3> SUFFICES ASSUME ~past'.unread PROVE SCodes'
      BY DEF SCodes
    <3>1. ~past.unread /\ SCodes
      BY <1>0, <2>5 DEF SFactors
    <3>2. SBusy(x, S!OfCodes)
      BY <2>6 DEF S!OfCodes
    <3>3. \A y \in Calls : SBusy(y, S!OfCodes) => y = x /\ call[y].for # None
      BY <1>0, <3>1, <3>2, SAwaits
    <3>4. \A y \in Calls : ~SBusy(y, {"confirm", "regenerate"})'
      BY <2>5, <2>6, <3>3 DEF SBusy, S!OfCodes
    <3>5. fa.codes = 0
      BY <2>c, <3>2, <3>3
    <3> QED BY <2>5, <3>3, <3>4, <3>5 DEF SCodes
  <2>8. SKey'
    <3> SUFFICES ASSUME ~past'.twin PROVE SKey'
      BY DEF SKey
    <3>1. ~past.twin
      BY <1>0, <2>5
    <3>2. \A y \in Calls : SBusy(y, S!Changes) => y = x /\ call[y].for # None
      BY <1>0, <2>6, <3>1 DEF SGeneral, SOnly, S!Changes, S!OfCodes
    <3>3. \A y \in Calls : ~SBusy(y, {"enroll"})' /\ ~SBusy(y, {"confirm"})'
      BY <2>5, <2>6, <3>2 DEF SBusy, S!Changes, S!OfCodes
    <3>4. fa.step # "enroll"
      BY <1>0, <2>6, <2>c, <3>2 DEF SSteps, S!Changes, S!OfCodes
    <3> QED BY <2>4, <2>5, <3>3, <3>4 DEF SKey
  <2>9. SEnabled'
    <3> SUFFICES ASSUME ~past'.twin, ~past'.torn PROVE SEnabled'
      BY DEF SEnabled
    <3>1. ~past.twin
      BY <2>5
    <3>2. SStep(x)
      BY <1>0, <2>6, <2>c, <3>1 DEF SGeneral, SOnly, S!Changes, S!OfCodes
    <3>3. ASSUME NEW y \in Calls, SLive(y, {"totp"})' PROVE FALSE
      <4>1. SLive(y, {"totp"})
        BY <2>5, <3>3
      <4>2. SStep(y) /\ y # x
        BY <1>0, <2>6, <4>1, SReads DEF SLive
      <4> QED BY <1>0, <3>2, <4>2, SOneStep
    <3>4. SBusy(x, {"confirm", "disable"})' /\ call'[x].at = "ok"
      BY <2>1, <2>5, <2>6
    <3> QED BY <3>3, <3>4 DEF SEnabled
  <2> QED BY <1>0, <2>3, <2>4, <2>5, <2>7, <2>8, <2>9, <2>r, SFactorServed DEF SFactors, SFactorKinds
<1> QED BY <1>1, <1>2

LEMMA SServeRegenerate == ASSUME SInv, NEW x \in Calls, S!Serve(x), call[x].kind = "regenerate" PROVE SInv'
<1>0. SGeneral /\ SFactors /\ SSteps /\ db \in SStored /\ db.made < MaxKeys
  BY DEF SInv, SGeneral, SFactors, SType, S!Serve
<1>1. CASE ~(call[x].arg /\ db.enabled)
  BY <1>1, SServeRefused DEF S!Served
<1>2. CASE call[x].arg /\ db.enabled
  <2> DEFINE r == S!Served(call[x])
  <2>1. r.db = [db EXCEPT !.batch = S!Fresh, !.made = S!Fresh] /\ r.data = S!Fresh /\ r.ok = TRUE
    BY <1>2 DEF S!Served, S!NewCodes, S!Reply
  <2>2. S!Fresh \in S!Keys /\ S!Fresh # 0
    BY <1>0, SFreshKey
  <2>3. r.data \in S!Keys /\ r.data \in SData
    BY <2>1, <2>2, SDataHas
  <2>r. r = S!Served(call[x])
    OBVIOUS
  <2> HIDE DEF r
  <2>4. /\ r.db \in SStored /\ r.db.kept = db.kept /\ r.db.people = db.people /\ r.db.on = db.on
        /\ r.db.secret = db.secret /\ r.db.enabled = db.enabled /\ r.db.batch = S!Fresh
    <3>1. r.db = [kept |-> db.kept, people |-> db.people, on |-> db.on, secret |-> db.secret,
                  enabled |-> db.enabled, batch |-> S!Fresh, made |-> S!Fresh]
      BY <1>0, <2>1, SStoredIs
    <3>2. [kept |-> db.kept, people |-> db.people, on |-> db.on, secret |-> db.secret,
                  enabled |-> db.enabled, batch |-> S!Fresh, made |-> S!Fresh] \in SStored
      BY Zenon, <1>0, <2>2, SStoredIs, SStoredMade
    <3> QED BY <3>1, <3>2
  <2>5. /\ SAges /\ db' = r.db /\ fa' = fa /\ call[x] # NoCall /\ call[x].at = "sent"
        /\ call'[x].arg = call[x].arg /\ call'[x].at = (IF r.ok THEN "ok" ELSE "refused") /\ call'[x].data = r.data
        /\ past'.twin = past.twin /\ past'.unread = past.unread
        /\ ~past'.torn => ~past.torn /\ r.ok
        /\ SSteps'
        /\ \A y \in Calls :
             /\ y # x => call'[y] = call[y]
             /\ \A k : (SBusy(y, k)' <=> SBusy(y, k)) /\ (SLive(y, k)' <=> SLive(y, k))
             /\ call'[y].then = call[y].then /\ call'[y].for = call[y].for
    BY <1>0, <2>3, <2>r, SFactorAsked
  <2>6. \A k : (SBusy(x, k) <=> "regenerate" \in k) /\ (SLive(x, k) => "regenerate" \in k)
    BY <2>5 DEF SBusy, SLive
  <2>7. SCodes'
    <3> SUFFICES ASSUME ~past'.unread PROVE SCodes'
      BY DEF SCodes
    <3>1. ~past.unread /\ SCodes
      BY <1>0, <2>5 DEF SFactors
    <3>2. SBusy(x, S!OfCodes)
      BY <2>6 DEF S!OfCodes
    <3>3. \A y \in Calls : SBusy(y, S!OfCodes) => y = x /\ call[y].for # None
      BY <1>0, <3>1, <3>2, SAwaits
    <3>4. \A y \in Calls : SBusy(y, {"confirm", "regenerate"})' => y = x
      BY <2>5, <3>3 DEF SBusy, S!OfCodes
    <3>5. fa.codes = 0
      <4>1. SChecking(x)
        BY <2>6, <3>2, <3>3 DEF SChecking, SLive
      <4> QED BY <1>0, <4>1 DEF SSteps
    <3> QED BY <1>2, <2>1, <2>4, <2>5, <3>3, <3>4, <3>5 DEF SCodes
  <2>8. SKey'
    BY <1>0, <2>4, <2>5, <2>6 DEF SFactors, SKey
  <2>9. SEnabled'
    BY <1>0, <2>4, <2>5, <2>6 DEF SFactors, SEnabled
  <2> QED BY <1>0, <2>3, <2>4, <2>5, <2>7, <2>8, <2>9, <2>r, SFactorServed DEF SFactors, SFactorKinds
<1> QED BY <1>1, <1>2


---------------------------------------------------------------------------
(* What is lost, and the tabs.                                             *)

LEMMA SLosesOK == ASSUME SInv, NEW x \in Calls, S!Lose(x) PROVE SInv'
<1>0. SGeneral /\ SFactors /\ SUsers /\ SPrefs /\ SFormsOK
  BY DEF SInv, SGeneral, SFactors, SFormsOK
<1>1. /\ SGeneral' /\ SAges /\ db' = db
      /\ call[x] # NoCall /\ SCall(call[x])
      /\ call'[x] # NoCall /\ call'[x].kind = call[x].kind
      /\ call'[x].for = call[x].for /\ call'[x].arg = call[x].arg /\ call'[x].then = call[x].then
      /\ call'[x].at = "lost"
      /\ \A y \in Calls : y # x => call'[y] = call[y]
      /\ past'.twin = past.twin /\ past'.torn
      /\ ~past'.unread =>
           ~past.unread /\ ~(call[x].at = "ok" /\ call[x].kind \in {"confirm", "regenerate"})
      /\ tab' = tab /\ forms' = forms /\ list' = list /\ prefs' = prefs /\ fa' = fa /\ edits' = edits
  BY <1>0, SLoses
<1>2. \A y \in Calls :
        /\ \A k : (SBusy(y, k)' <=> SBusy(y, k)) /\ (SLive(y, k)' <=> SLive(y, k))
        /\ call'[y].then = call[y].then /\ call'[y].for = call[y].for
        /\ call'[y].at \in {"sent", "ok"} => call'[y] = call[y]
  BY <1>1 DEF SBusy, SLive
<1>3. SSteps'
  <2>1. \A y \in Calls : (SConfirming(y)' <=> SConfirming(y)) /\ (SChecking(y)' <=> SChecking(y))
                         /\ (SMounting(y)' <=> SMounting(y))
    BY <1>2 DEF SConfirming, SChecking, SMounting
  <2> QED BY <1>0, <1>1, <2>1 DEF SFactors, SSteps
<1>4. SCodes'
  <2> SUFFICES ASSUME ~past'.unread PROVE SCodes'
    BY DEF SCodes
  <2>1. ~past.unread /\ SCodes
    BY <1>0, <1>1 DEF SFactors
  <2>2. ~(SBusy(x, {"confirm"}) /\ call[x].at = "ok")
    BY <1>1 DEF SBusy
  <2>3. \A y \in Calls : ~(SBusy(y, {"confirm"}) /\ call[y].at = "ok")' => ~(SBusy(y, {"confirm"}) /\ call[y].at = "ok")
    BY <1>1, <1>2, <2>2
  <2> QED BY <1>1, <1>2, <2>1, <2>3 DEF SCodes
<1>5. SKey'
  <2>1. call'[x].at \notin {"ok", "refused", "sent"}
    BY <1>1
  <2> QED BY <1>0, <1>1, <1>2, <2>1 DEF SFactors, SKey
<1>6. SEnabled' /\ SSaved'
  BY <1>1 DEF SEnabled, SSaved
<1>7. SUsers'
  BY <1>0, <1>1, <1>2 DEF SUsers
<1>8. SPrefs'
  BY <1>0, <1>1, <1>2 DEF SPrefs
<1>9. SSecrets'
  BY <1>0, <1>1, <1>2 DEF SFormsOK, SSecrets, SOwn, SLive
<1> QED BY <1>1, <1>3, <1>4, <1>5, <1>6, <1>7, <1>8, <1>9 DEF SInv, SGeneral

LEMMA SLoadFailsOK == ASSUME SInv, NEW x \in Calls, S!LoadFails(x) PROVE SInv'
<1>0. SGeneral /\ SFactors /\ SUsers /\ SPrefs /\ SFormsOK
  BY DEF SInv, SGeneral, SFactors, SFormsOK
<1>1. /\ SBusy(x, SLoads) /\ call[x].at = "lost" /\ S!Done(x) /\ tab' = tab
      /\ forms' = forms /\ list' = list /\ prefs' = prefs /\ fa' = fa /\ db' = db /\ edits' = edits
      /\ past' = past
  BY DEF S!LoadFails, S!Answered, SBusy, SLoads
<1>2. /\ SCalls' /\ SHere' /\ SOnly' /\ SAges
      /\ call'[x] = NoCall /\ \A y \in Calls : y # x => call'[y] = call[y]
  BY <1>0, <1>1, SDones
<1>3. SType'
  BY <1>0, <1>1, <1>2 DEF SGeneral, SType, SPast
<1>4. past.torn
  BY <1>0, <1>1 DEF SGeneral, SOnly, SBusy, SKinds
<1>5. SEnabled' /\ SSaved'
  BY <1>1, <1>4 DEF SEnabled, SSaved
<1>6. SSteps'
  BY <1>0, <1>1, <1>2, SGoneSteps DEF SFactors, SSteps
<1>q. \A y \in Calls : \A k : /\ SBusy(y, k)' => SBusy(y, k) /\ call'[y] = call[y]
                              /\ SLive(y, k)' => SLive(y, k) /\ call'[y] = call[y]
                              /\ SBusy(y, k) /\ y # x => SBusy(y, k)' /\ call'[y] = call[y]
  BY <1>2, SGone
<1>7. SCodes'
  BY <1>0, <1>1, <1>q DEF SFactors, SCodes
<1>8. SKey'
  BY <1>0, <1>1, <1>q DEF SFactors, SKey
<1>9. SUsers'
  BY <1>0, <1>1, <1>4, <1>q DEF SUsers
<1>10. SPrefs'
  BY <1>0, <1>1, <1>4, <1>q DEF SPrefs
<1>11. SSecrets'
  BY <1>0, <1>1, <1>q DEF SFormsOK, SSecrets, SOwn
<1> QED BY <1>2, <1>3, <1>5, <1>6, <1>7, <1>8, <1>9, <1>10, <1>11 DEF SInv

\* What a section asks for when it is mounted.
LEMMA SLoadIs ==
  ASSUME NEW t \in S!Tabs, NEW c, c = S!Load(t)
  PROVE  /\ SCall(c) /\ c # NoCall /\ c.kind \in SLoads /\ c.kind \notin S!Changes
         /\ c.for = t /\ t # None /\ c.then = None /\ c.at = "sent"
         /\ c.kind = "totp" => t = "twofactor"
<1>0. S!LoadOf(t) \in SLoads /\ S!LoadOf(t) \in SKinds /\ S!LoadOf(t) \notin S!Changes
      /\ (S!LoadOf(t) = "load" => t \in S!Forms) /\ (S!LoadOf(t) = "users" => t = "users")
      /\ (S!LoadOf(t) = "prefs" => t = "notifications") /\ (S!LoadOf(t) = "totp" => t = "twofactor")
  BY DEF S!LoadOf, SLoads, SKinds, S!Tabs, S!Forms, S!Changes, S!OfCodes
<1>1. c = [kind |-> S!LoadOf(t), for |-> t, arg |-> t, then |-> None, at |-> "sent", data |-> None]
  BY DEF S!Load
<1>2. t \in S!Tabs \cup {None} /\ t \in SArgs /\ None \in {None} \cup SThens /\ "sent" \in Ats /\ None \in SData
  BY SArgsHas, SDataHas DEF Ats
<1>3. [kind |-> S!LoadOf(t), for |-> t, arg |-> t, then |-> None, at |-> "sent", data |-> None] \in SRequests
  BY Zenon, <1>0, <1>2, SRequestMade
<1>4. /\ c \in SRequests /\ c.kind = S!LoadOf(t) /\ c.for = t /\ c.arg = t /\ c.then = None
      /\ c.at = "sent" /\ c # NoCall
  BY <1>1, <1>3, SRequestIs
<1>5. SCall(c)
  BY <1>0, <1>4 DEF SCall, SLoads, S!Changes, S!OfCodes
<1>6. t # None
  BY SettingsAssumption
<1> QED BY <1>0, <1>4, <1>5, <1>6

LEMMA SFresh ==
  ASSUME 0 \in S!Keys
  PROVE  /\ S!FormInit \in SForm /\ S!FormInit.has = FALSE /\ S!FormInit.status = "idle"
         /\ S!ListInit \in [names : (SUBSET People) \cup {None}, status : S!Status] /\ S!ListInit.names = None
         /\ S!PrefsInit \in [on : (SUBSET Events) \cup {None}, status : S!Status] /\ S!PrefsInit.on = None
         /\ S!FaInit \in SFactor /\ S!FaInit.enabled = None /\ S!FaInit.step = "status"
         /\ S!FaInit.codes = 0 /\ S!FaInit.secret = 0
<1>1. S!FormInit \in SForm
  BY DEF S!FormInit, SForm, S!Status
<1>2. S!ListInit \in [names : (SUBSET People) \cup {None}, status : S!Status]
  BY DEF S!ListInit, S!Status
<1>3. S!PrefsInit \in [on : (SUBSET Events) \cup {None}, status : S!Status]
  BY DEF S!PrefsInit, S!Status
<1>4. S!FaInit \in SFactor
  BY DEF S!FaInit, SFactor
<1> QED BY <1>1, <1>2, <1>3, <1>4 DEF S!FormInit, S!ListInit, S!PrefsInit, S!FaInit


LEMMA SSelectTabOK == ASSUME SInv, NEW t \in S!Tabs, S!SelectTab(t) PROVE SInv'
<1>0. SGeneral /\ SFactors /\ SUsers /\ SPrefs /\ SFormsOK
  BY DEF SInv, SGeneral, SFactors, SFormsOK
<1> DEFINE loads == t # "general" \/ forms["general"].shown = None
<1>1. /\ S!Spend(TabCost) /\ tab' = t
      /\ forms' = [forms EXCEPT !["section"] = S!FormInit]
      /\ list' = S!ListInit /\ prefs' = S!PrefsInit /\ fa' = S!FaInit /\ db' = db
      /\ past' = [past EXCEPT !.twin = past.twin \/ S!Open(S!Changes) # {},
                              !.unread = past.unread \/ S!Open(S!OfCodes) # {}]
  BY DEF S!SelectTab
<1>2. PICK x \in S!Idle :
        call' = [y \in Calls |-> IF y = x /\ loads THEN S!Load(t)
                                 ELSE IF call[y] = NoCall THEN NoCall
                                 ELSE IF call[y].for = "general" THEN call[y]
                                 ELSE [call[y] EXCEPT !.for = None]]
  BY DEF S!SelectTab
<1>3. SCalls /\ SPast /\ edits \in 0..MaxEdits /\ x \in Calls /\ call[x] = NoCall
      /\ forms \in [SSlots -> SForm] /\ 0 \in S!Keys
  BY <1>0, SettingsAssumption DEF SGeneral, SType, S!Idle, S!Keys
    \* What was asked is still asked, for nobody unless by the page itself.
<1>4. ASSUME NEW y \in Calls, y # x \/ ~loads
      PROVE  /\ call[y] = NoCall => call'[y] = NoCall
             /\ call[y] # NoCall =>
                  /\ call'[y] # NoCall /\ call'[y] \in SRequests
                  /\ call'[y].kind = call[y].kind /\ call'[y].arg = call[y].arg
                  /\ call'[y].then = call[y].then /\ call'[y].at = call[y].at /\ call'[y].data = call[y].data
                  /\ call'[y].for = None \/ (call'[y].for = "general" /\ call[y].for = "general")
  <2> HIDE DEF loads
  <2>1. call[y] # NoCall => call[y] \in SRequests
    BY <1>3 DEF SCalls, SCall
  <2>2. CASE call[y] = NoCall
    BY <1>2, <1>4, <2>2
  <2>3. CASE call[y] # NoCall /\ call[y].for = "general"
    <3>1. call'[y] = call[y]
      BY <1>2, <1>4, <2>3
    <3> QED BY <2>1, <2>3, <3>1
  <2>4. CASE call[y] # NoCall /\ call[y].for # "general"
    <3>1. call'[y] = [call[y] EXCEPT !.for = None]
      BY <1>2, <1>4, <2>4
    <3> QED BY <2>1, <2>4, <3>1, SLeft
  <2> QED BY <2>2, <2>3, <2>4
<1>5. loads => /\ SCall(call'[x]) /\ call'[x] # NoCall /\ call'[x].kind \in SLoads /\ call'[x].kind \notin S!Changes
               /\ call'[x].for = t /\ call'[x].then = None /\ call'[x].at = "sent"
               /\ call'[x].kind = "totp" => t = "twofactor"
  <2>1. loads => call'[x] = S!Load(t)
    BY <1>2, <1>3
  <2> QED BY <2>1, SLoadIs
<1> HIDE DEF loads
<1>6. ASSUME NEW y \in Calls
      PROVE  \/ /\ call[y] # NoCall /\ call'[y] # NoCall /\ call'[y] \in SRequests
                /\ call'[y].kind = call[y].kind /\ call'[y].arg = call[y].arg
                /\ call'[y].then = call[y].then /\ call'[y].at = call[y].at /\ call'[y].data = call[y].data
                /\ call'[y].for = None \/ (call'[y].for = "general" /\ call[y].for = "general")
             \/ call'[y] = NoCall /\ call[y] = NoCall
             \/ /\ y = x /\ SCall(call'[y]) /\ call'[y] # NoCall /\ call'[y].kind \in SLoads
                /\ call'[y].kind \notin S!Changes
                /\ call'[y].for = t /\ call'[y].then = None /\ call'[y].at = "sent"
                /\ call'[y].kind = "totp" => t = "twofactor"
  BY <1>4, <1>5
<1>7. SCalls'
  <2>1. DOMAIN call' = Calls
    BY <1>2
  <2>2. ASSUME NEW y \in Calls, call'[y] # NoCall PROVE SCall(call'[y])
    <3>1. call[y] # NoCall => SCall(call[y])
      BY <1>3 DEF SCalls
    <3>2. CASE call[y] # NoCall
      BY <1>3, <1>6, <3>1, <3>2 DEF SCall
    <3>3. CASE call[y] = NoCall
      BY <1>6, <2>2, <3>3
    <3> QED BY <3>2, <3>3
  <2> QED BY <2>1, <2>2 DEF SCalls
<1>8. /\ SPast' /\ past'.torn = past.torn /\ SAges
      /\ ~past'.twin => ~past.twin /\ \A y \in Calls : ~SBusy(y, S!Changes)
      /\ ~past'.unread => ~past.unread /\ \A y \in Calls : ~SBusy(y, S!OfCodes)
  <2> DEFINE b == past.twin \/ S!Open(S!Changes) # {}
             e == past.unread \/ S!Open(S!OfCodes) # {}
  <2>1. b \in BOOLEAN /\ e \in BOOLEAN
    BY <1>3, SPastIs
  <2>2. (~b => ~past.twin /\ \A y \in Calls : ~SBusy(y, S!Changes))
        /\ (~e => ~past.unread /\ \A y \in Calls : ~SBusy(y, S!OfCodes))
    BY DEF S!Open, SBusy
  <2>3. past' = [past EXCEPT !.twin = b, !.unread = e]
    BY <1>1
  <2> HIDE DEF b, e
  <2>4. past' = [past EXCEPT !.twin = b, !.torn = past.torn, !.unread = e]
    BY <1>3, <2>3, SPastIs
  <2>5. SPast' /\ past'.twin = b /\ past'.torn = past.torn /\ past'.unread = e
    BY <1>3, <2>1, <2>4, SPasts, SPastIs
  <2> QED BY <2>2, <2>5 DEF SAges
<1>9. /\ S!FormInit \in SForm /\ S!FormInit.has = FALSE /\ S!FormInit.status = "idle"
      /\ list' \in [names : (SUBSET People) \cup {None}, status : S!Status] /\ list'.names = None
      /\ prefs' \in [on : (SUBSET Events) \cup {None}, status : S!Status] /\ prefs'.on = None
      /\ fa' \in SFactor /\ fa'.enabled = None /\ fa'.step = "status"
      /\ fa'.codes = 0 /\ fa'.secret = 0
  BY <1>1, <1>3, SFresh
<1>10. /\ forms' \in [SSlots -> SForm] /\ forms'["general"] = forms["general"]
       /\ forms'["section"] = S!FormInit
  BY <1>1, <1>3, <1>9 DEF SSlots
<1>11. SType'
  <2>1. edits' \in 0..MaxEdits
    BY <1>1, <1>3, SSpends, SettingsAssumption
  <2> QED BY <1>0, <1>1, <1>7, <1>8, <1>9, <1>10, <2>1 DEF SGeneral, SType
<1>12. SHere'
  BY <1>1, <1>6 DEF SHere, SLive, SBusy
<1>13. SOnly'
  <2>1. ~past'.twin => \A y \in Calls : ~SBusy(y, S!Changes)'
    BY <1>6, <1>8 DEF SBusy
  <2>2. ~past'.torn => \A y \in Calls : SBusy(y, SKinds)' => call'[y].at \in {"sent", "ok"}
    BY <1>0, <1>6, <1>8 DEF SGeneral, SOnly, SBusy
  <2> QED BY <2>1, <2>2 DEF SOnly
<1>14. ASSUME NEW y \in Calls, NEW k \in SUBSET (SFactorKinds \cup SPrefKinds \cup SUserKinds), SLive(y, k)'
       PROVE  y = x /\ call'[y].kind \in SLoads /\ call'[y].at = "sent" /\ call'[y].then = None
  <2>1. SCall(call'[y]) /\ call'[y].kind \in SFactorKinds \cup SPrefKinds \cup SUserKinds
    BY <1>7, <1>14 DEF SCalls, SLive, SBusy
  <2>2. call'[y].for # "general" /\ call'[y].for # None /\ call'[y] # NoCall
    BY <1>14, <2>1 DEF SCall, SFactorKinds, SPrefKinds, SUserKinds, S!OfCodes, SLive, SBusy
  <2> QED BY <1>6, <2>2
<1>15. /\ {"totp"} \in SUBSET SFactorKinds /\ {"confirm"} \in SUBSET SFactorKinds
       /\ {"disable", "regenerate"} \in SUBSET SFactorKinds
       /\ {"prefs"} \in SUBSET SPrefKinds /\ {"prefs", "setprefs"} \in SUBSET SPrefKinds
  BY DEF SFactorKinds, SPrefKinds
<1>16. SSteps'
  <2>1. ASSUME NEW y \in Calls PROVE ~SConfirming(y)' /\ ~SChecking(y)' /\ (SMounting(y)' => y = x)
    <3>1. ~SLive(y, {"confirm"})' /\ ~SLive(y, {"disable", "regenerate"})'
      BY <1>14, <1>15 DEF SLive, SBusy, SLoads
    <3>2. SLive(y, {"totp"})' => y = x /\ call'[y].then = None
      BY <1>14, <1>15
    <3> QED BY <3>1, <3>2, SettingsAssumption DEF SConfirming, SChecking, SMounting
  <2> QED BY <1>9, <2>1 DEF SSteps
<1>17. SCodes'
  BY <1>6, <1>8, <1>9 DEF SCodes, SBusy, SLoads, S!OfCodes, S!Changes
<1>18. ~past'.twin => ~past.twin /\ \A y \in Calls : ~SBusy(y, S!Changes)'
  BY <1>6, <1>8 DEF SBusy
<1>19. SKey'
  BY <1>9, <1>18 DEF SKey, SBusy, S!Changes, S!OfCodes
<1>20. SEnabled'
  <2>1. \A y \in Calls : SLive(y, {"totp"})' => call'[y].at # "ok"
    BY <1>14, <1>15
  <2> QED BY <1>9, <2>1 DEF SEnabled
<1>21. SUsers'
  <2> SUFFICES ASSUME ~past'.twin PROVE SUsers'
    BY DEF SUsers
  <2>1. ~past.twin /\ SUsers /\ \A y \in Calls : ~SBusy(y, {"add", "remove"})'
    BY <1>0, <1>18 DEF SBusy, S!Changes
  <2>2. ASSUME NEW y \in Calls, SBusy(y, {"users"})', call'[y].at = "ok" PROVE call'[y].data = db'.people
    BY <1>1, <1>6, <2>1, <2>2 DEF SUsers, SBusy
  <2> QED BY <1>9, <2>1, <2>2 DEF SUsers
<1>22. SPrefs'
  <2>1. \A y \in Calls : SLive(y, {"prefs", "setprefs"})' => y = x /\ call'[y].at = "sent"
    BY <1>14, <1>15
  <2>2. \A y \in Calls : SLive(y, {"prefs"})' => y = x /\ call'[y].at = "sent"
    BY <1>14, <1>15
  <2>3. ~past'.twin => \A y \in Calls : ~SBusy(y, {"setprefs"})'
    BY <1>18 DEF SBusy, S!Changes
  <2> QED BY <1>9, <2>1, <2>2, <2>3 DEF SPrefs
<1>23. SOwn' \subseteq {"general", t} /\ SOwn' \subseteq S!Forms /\ "general" \in SOwn
  BY <1>1 DEF SOwn, S!Forms
<1>24. \A u \in SOwn' : (u = "general" /\ S!Slot(u) = "general") \/ S!Slot(u) = "section"
  BY DEF S!Slot
<1>25. SSecrets'
  <2>1. ASSUME NEW u \in SOwn', forms'[S!Slot(u)].has PROVE db'.kept[u].secret # None
    BY <1>0, <1>1, <1>9, <1>10, <1>23, <1>24, <2>1 DEF SFormsOK, SSecrets
  <2>2. ASSUME NEW y \in Calls, SLive(y, {"save"})' PROVE forms'[S!Slot(call'[y].for)].shown \in S!Fields
    <3>1. SLive(y, {"save"}) /\ call'[y].for = "general" /\ call[y].for = "general"
      BY <1>6, <2>2 DEF SLive, SBusy, SLoads, S!Changes
    <3> QED BY <1>0, <1>10, <3>1 DEF SFormsOK, SSecrets, S!Slot
  <2>3. ASSUME NEW y \in Calls,
               \/ SBusy(y, {"load"})' /\ call'[y].at = "ok" /\ call'[y].data.secret # None
               \/ SBusy(y, {"save"})' /\ call'[y].at = "ok" /\ call'[y].arg.fields.secret # None
        PROVE  db'.kept[IF call'[y].kind = "load" THEN call'[y].arg ELSE call'[y].arg.of].secret # None
    <3>1. /\ call'[y].kind = call[y].kind /\ call'[y].arg = call[y].arg /\ call'[y].at = call[y].at
          /\ call'[y].data = call[y].data /\ call[y] # NoCall
      BY <1>6, <2>3 DEF SBusy
    <3> QED BY <1>0, <1>1, <2>3, <3>1 DEF SFormsOK, SSecrets, SBusy
  <2> QED BY <2>1, <2>2, <2>3 DEF SSecrets
<1>26. SSaved'
  <2> SUFFICES ASSUME ~past'.twin, ~past'.torn PROVE SSaved'
    BY DEF SSaved
  <2>1. ~past.twin /\ ~past.torn
    BY <1>8
  <2>2. \A y \in Calls : ~SBusy(y, {"save"})'
    BY <1>18 DEF SBusy, S!Changes
  <2>3. ASSUME NEW u \in SOwn', forms'[S!Slot(u)].status = "saved", forms'[S!Slot(u)].fresh
        PROVE  db'.kept[u].plain = forms'[S!Slot(u)].shown.plain
    BY <1>0, <1>1, <1>9, <1>10, <1>23, <1>24, <2>1, <2>3 DEF SFormsOK, SSaved
  <2> QED BY <2>2, <2>3 DEF SSaved
<1> QED BY <1>11, <1>12, <1>13, <1>16, <1>17, <1>19, <1>20, <1>21, <1>22, <1>25, <1>26 DEF SInv

LEMMA SInitInv == ASSUME S!Init PROVE SInv
<1>1. /\ tab \in S!Tabs
      /\ forms = [f \in {"general", "section"} |-> S!FormInit]
      /\ list = S!ListInit /\ prefs = S!PrefsInit /\ fa = S!FaInit
      /\ edits = 0 /\ past = [twin |-> FALSE, torn |-> FALSE, unread |-> FALSE]
  BY DEF S!Init
<1>2. PICK f \in S!Fields, people \in (SUBSET People) \ {{}}, key \in {0, 1} :
       db = [kept |-> [t \in S!Forms |-> IF S!HasSecret(t) THEN f ELSE [f EXCEPT !.secret = None]],
             people |-> people, on |-> {},
             secret |-> key, enabled |-> key = 1, batch |-> key, made |-> key]
  BY DEF S!Init
<1>3. PICK x \in Calls : call = [y \in Calls |-> IF x = y THEN S!Load(tab) ELSE NoCall]
  BY DEF S!Init
<1>4. {0, 1} \subseteq S!Keys
  BY SettingsAssumption DEF S!Keys
<1>5. db \in SStored
  <2>1. [t \in S!Forms |-> IF S!HasSecret(t) THEN f ELSE [f EXCEPT !.secret = None]] \in [S!Forms -> S!Fields]
    BY <1>2, SBlank
  <2>2. people \in SUBSET People /\ {} \in SUBSET Events /\ key \in S!Keys /\ (key = 1) \in BOOLEAN
    BY <1>2, <1>4
  <2>3. [kept |-> [t \in S!Forms |-> IF S!HasSecret(t) THEN f ELSE [f EXCEPT !.secret = None]],
         people |-> people, on |-> {},
         secret |-> key, enabled |-> key = 1, batch |-> key, made |-> key] \in SStored
    BY Zenon, <2>1, <2>2 DEF SStored
  <2> QED BY <1>2, <2>3
<1>6. /\ S!FormInit \in SForm /\ S!FormInit.has = FALSE /\ S!FormInit.status = "idle"
      /\ list \in [names : (SUBSET People) \cup {None}, status : S!Status] /\ list.names = None
      /\ prefs \in [on : (SUBSET Events) \cup {None}, status : S!Status] /\ prefs.on = None
      /\ fa \in SFactor /\ fa.enabled = None /\ fa.step = "status"
      /\ fa.codes = 0 /\ fa.secret = 0
  BY <1>1, <1>4, SFresh
<1>7. DOMAIN call = Calls /\ call[x] = S!Load(tab) /\ \A y \in Calls : y # x => call[y] = NoCall
  BY <1>3
<1>8. /\ SCall(call[x]) /\ call[x] # NoCall /\ call[x].kind \in SLoads /\ call[x].kind \notin S!Changes
      /\ call[x].for = tab /\ call[x].then = None /\ call[x].at = "sent"
      /\ call[x].kind = "totp" => tab = "twofactor"
  BY <1>1, <1>7, SLoadIs
<1>9. /\ SPast /\ past.twin = FALSE /\ past.torn = FALSE
      /\ \A s \in SSlots : forms[s] = S!FormInit
      /\ forms \in [SSlots -> SForm]
  BY <1>1, <1>6 DEF SPast, SSlots
<1>10. SType
  <2>1. SCalls
    BY <1>7, <1>8 DEF SCalls
  <2>2. edits \in 0..MaxEdits
    BY <1>1, BoundsAssumption
  <2> QED BY <1>1, <1>5, <1>6, <1>9, <2>1, <2>2 DEF SType
<1>11. \A y \in Calls : \A k : SBusy(y, k) => y = x /\ call[x].kind \in k
  BY <1>7 DEF SBusy
<1>12. \A y \in Calls : ~SBusy(y, S!Changes) /\ ~SBusy(y, {"add", "remove"}) /\ ~SBusy(y, {"save"})
         /\ ~SBusy(y, {"setprefs"}) /\ ~SBusy(y, {"enroll"}) /\ ~SBusy(y, {"confirm"}) /\ ~SBusy(y, S!OfCodes)
         /\ ~SBusy(y, {"confirm", "regenerate"}) /\ ~SBusy(y, {"disable", "regenerate"})
  BY <1>8, <1>11 DEF S!Changes, S!OfCodes
<1>13. SHere
  BY <1>8, <1>11 DEF SHere, SLive
<1>14. SOnly
  BY <1>8, <1>11, <1>12 DEF SOnly
<1>15. SSteps
  <2>1. \A y \in Calls : ~SConfirming(y) /\ ~SChecking(y) /\ (SMounting(y) => y = x)
    BY <1>8, <1>11, <1>12, SettingsAssumption DEF SConfirming, SChecking, SMounting, SLive
  <2> QED BY <1>6, <2>1 DEF SSteps
<1>16. SCodes /\ SKey /\ SEnabled
  <2>1. SCodes
    BY <1>6, <1>12 DEF SCodes
  <2>2. SKey
    BY <1>6, <1>12 DEF SKey
  <2>3. SEnabled
    BY <1>6, <1>8, <1>11 DEF SEnabled, SLive
  <2> QED BY <2>1, <2>2, <2>3
<1>17. SUsers
  BY <1>6, <1>8, <1>11, <1>12 DEF SUsers
<1>18. SPrefs
  <2>1. \A y \in Calls : SLive(y, {"prefs", "setprefs"}) => y = x
    BY <1>11 DEF SLive
  <2>2. \A y \in Calls : SLive(y, {"prefs"}) => y = x /\ call[y].at = "sent"
    BY <1>8, <1>11 DEF SLive
  <2> QED BY <1>6, <1>12, <2>1, <2>2 DEF SPrefs
<1>19. \A u \in SOwn : S!Slot(u) \in SSlots
  BY DEF S!Slot, SSlots
<1>20. SSecrets
  <2>1. \A y \in Calls : ~SLive(y, {"save"})
    BY <1>12 DEF SLive
  <2>2. \A y \in Calls : SBusy(y, {"load"}) => call[y].at = "sent"
    BY <1>8, <1>11
  <2> QED BY <1>6, <1>9, <1>12, <1>19, <2>1, <2>2 DEF SSecrets
<1>21. SSaved
  BY <1>6, <1>9, <1>12, <1>19 DEF SSaved
<1> QED BY <1>10, <1>13, <1>14, <1>15, <1>16, <1>17, <1>18, <1>20, <1>21 DEF SInv


---------------------------------------------------------------------------
(* The page as a whole.                                                    *)

LEMMA SServesOK == ASSUME SInv, NEW x \in Calls, S!Serve(x) PROVE SInv'
<1>1. call[x].kind \in SLoads \cup S!Changes
  <2>1. call[x] # NoCall => call[x] \in SRequests
    BY DEF SInv, SType, SCalls, SCall
  <2> QED BY <2>1, SRequestIs DEF S!Serve, SKinds
<1> QED BY <1>1, SServeLoad, SServeSave, SServeUsers, SServePerson, SServePrefs, SServeChoice,
     SServeStatus, SServeEnroll, SServeConfirm, SServeDisable, SServeRegenerate
     DEF SLoads, S!Changes, S!OfCodes

LEMMA SAdminOK == ASSUME SInv, S!Admin PROVE SInv'
<1>1. ASSUME NEW t \in S!Tabs, S!SelectTab(t) PROVE SInv'
  BY <1>1, SSelectTabOK
<1>2. ASSUME NEW f \in S!Fields,
             S!EditGeneral(f) \/ S!EditAccount(f) \/ S!EditMail(f) \/ S!EditWebhook(f)
      PROVE  SInv'
  <2>1. tab \in S!Forms
    BY <1>2 DEF S!EditGeneral, S!EditAccount, S!EditMail, S!EditWebhook, S!Forms
  <2>2. S!EditForm(f, "idle") \/ S!EditForm(f, forms[S!Slot(tab)].status)
    BY <1>2 DEF S!EditGeneral, S!EditAccount, S!EditMail, S!EditWebhook, S!Form
  <2> QED BY <2>1, <2>2, SEditOK
<1>3. ASSUME NEW p \in People, S!Add(p) \/ S!Remove(p) PROVE SInv'
  BY <1>3, SAddOK, SRemoveOK
<1>4. ASSUME NEW c \in S!Keys, S!ConfirmEnroll(c) PROVE SInv'
  BY <1>4, SConfirmEnrollOK
<1>5. ASSUME NEW s \in {"disable", "regenerate"}, S!AskPassword(s) PROVE SInv'
  BY <1>5, SAskPasswordOK
<1>6. ASSUME NEW good \in BOOLEAN, S!SubmitPassword(good) PROVE SInv'
  BY <1>6, SSubmitPasswordOK
<1>7. ASSUME NEW e \in Events, S!Toggle(e) PROVE SInv'
  BY <1>7, SToggleOK
<1> QED BY <1>1, <1>2, <1>3, <1>4, <1>5, <1>6, <1>7, SSubmitOK, SStartEnrollOK, SCancelStepOK,
     SCodesSavedOK DEF S!Admin

LEMMA SPageOK ==
  ASSUME SInv, NEW x \in Calls,
         \/ S!Drop(x) \/ S!LoadFails(x) \/ S!Loaded(x) \/ S!FormSaved(x) \/ S!FormFailed(x)
         \/ S!Listed(x) \/ S!Added(x) \/ S!Removed(x) \/ S!UsersFail(x)
         \/ S!PrefsLoaded(x) \/ S!Toggled(x)
         \/ S!StatusLoaded(x) \/ S!EnrollStarted(x) \/ S!EnrollStuck(x)
         \/ S!Confirmed(x) \/ S!ConfirmFailed(x)
         \/ S!Disabled(x) \/ S!Regenerated(x) \/ S!PasswordFailed(x)
  PROVE  SInv'
BY SDrops, SLoadFailsOK, SLoadedOK, SFormSavedOK, SFormFailedOK, SListedOK, SAddedOK, SRemovedOK,
   SUsersFailOK, SPrefsLoadedOK, SToggledOK, SStatusLoadedOK, SEnrollStartedOK, SEnrollStuckOK,
   SConfirmedOK, SConfirmFailedOK, SDisabledOK, SRegeneratedOK, SPasswordFailedOK

LEMMA SInductive == SInv /\ (S!Next \/ UNCHANGED <<settings, db, call>>) => SInv'
<1> SUFFICES ASSUME SInv, S!Next \/ UNCHANGED <<settings, db, call>> PROVE SInv'
  OBVIOUS
<1>1. CASE UNCHANGED <<settings, db, call>>
  <2>0. SGeneral /\ SFactors /\ SUsers /\ SPrefs /\ SFormsOK
    BY DEF SInv, SGeneral, SFactors, SFormsOK
  <2>1. /\ tab' = tab /\ forms' = forms /\ list' = list /\ prefs' = prefs /\ fa' = fa /\ edits' = edits
        /\ past' = past /\ db' = db /\ call' = call
    BY <1>1 DEF settings
  <2>2. SCalls' /\ SHere' /\ SOnly' /\ SPast' /\ SAges
    BY <2>0, <2>1, SActs
  <2>3. SType'
    BY <2>0, <2>1, <2>2 DEF SGeneral, SType
  <2>4. SFormsOK' /\ SUsers' /\ SPrefs' /\ SFactors'
    BY <2>0, <2>1, <2>2, SStill, SFormsFrame, SUsersFrame, SPrefsFrame, SFactorsFrame
  <2> QED BY <2>2, <2>3, <2>4 DEF SInv, SFormsOK, SFactors
<1>2. CASE S!Next
  BY <1>2, SAdminOK, SPageOK, SServesOK, SLosesOK DEF S!Next, S!Network, S!Page
<1> QED BY <1>1, <1>2

LEMMA STyped == ASSUME SInv PROVE S!TypeOK
<1>1. SType /\ SPast /\ db \in SStored
  BY DEF SInv, SType
<1>2. \A f \in {"general", "section"} :
        /\ forms[f].shown \in S!Fields \/ forms[f].shown = None
        /\ forms[f].status \in S!Status /\ forms[f].has \in BOOLEAN
  <2>1. \A f \in SSlots : forms[f] \in SForm
    BY <1>1 DEF SType
  <2> QED BY <2>1, SFormIs DEF SSlots
<1>3. (list.names = None \/ list.names \subseteq People) /\ (prefs.on = None \/ prefs.on \subseteq Events)
  BY <1>1, SListIs, SChosenIs DEF SType
<1>4. /\ fa.enabled \in BOOLEAN \cup {None} /\ {fa.codes, fa.secret} \subseteq S!Keys
      /\ fa.step \in {"status", "enroll", "disable", "regenerate"}
  BY <1>1, SFactorIs DEF SType
<1>5. /\ db.kept \in [S!Forms -> S!Fields] /\ db.people \subseteq People /\ db.on \subseteq Events
      /\ {db.secret, db.batch, db.made} \subseteq S!Keys /\ db.enabled \in BOOLEAN
  BY <1>1, SStoredIs
<1> QED BY <1>1, <1>2, <1>3, <1>4, <1>5 DEF S!TypeOK, SType, SPast

\* Once everything is answered and no two changes overlapped, no change is left.
LEMMA SSettled ==
  ASSUME SInv, S!Quiet, NEW x \in Calls
  PROVE  /\ \A k : ~SLive(x, k)
         /\ ~past.twin => ~SBusy(x, S!Changes)
         /\ ~past.unread => ~SBusy(x, S!OfCodes)
BY DEF SInv, SOnly, SCodes, S!Quiet, SLive, SBusy

LEMMA STells == ASSUME SInv PROVE S!PageTellsTruth
<1> SUFFICES ASSUME S!Quiet, ~past.twin, ~past.torn PROVE S!PageTellsTruth
  BY DEF S!PageTellsTruth
<1>1. \A x \in Calls : (\A k : ~SLive(x, k)) /\ ~SBusy(x, S!Changes)
  BY SSettled
<1>2. ASSUME tab \in S!Forms, S!Form.status = "saved", S!Form.fresh
      PROVE  db.kept[tab].plain = S!Form.shown.plain /\ (S!Form.has => db.kept[tab].secret # None)
  <2>1. tab \in SOwn
    BY <1>2 DEF SOwn
  <2> QED BY <1>2, <2>1 DEF SInv, SSaved, SSecrets, S!Form
<1>3. list.names \in {None, db.people}
  <2>1. \A x \in Calls : ~SBusy(x, {"add", "remove"}) /\ ~SLive(x, {"users"})
    BY <1>1 DEF SBusy, S!Changes
  <2> QED BY <2>1 DEF SInv, SUsers
<1>4. prefs.on \in {None, db.on}
  <2>1. \A x \in Calls : ~SBusy(x, {"setprefs"})
    BY <1>1 DEF SBusy, S!Changes
  <2> QED BY <2>1 DEF SInv, SPrefs
<1>5. fa.enabled \in {None, db.enabled}
  <2>1. \A x \in Calls : ~SBusy(x, {"confirm", "disable"}) /\ ~SLive(x, {"totp"})
    BY <1>1 DEF SBusy, S!Changes, S!OfCodes
  <2> QED BY <2>1 DEF SInv, SEnabled
<1> QED BY <1>2, <1>3, <1>4, <1>5 DEF S!PageTellsTruth

LEMMA SShows == ASSUME SInv PROVE S!ShownFactorWorks
<1>1. ASSUME S!Quiet, fa.codes # 0, ~past.unread PROVE db.enabled /\ fa.codes = db.batch
  <2>1. \A x \in Calls : ~SBusy(x, {"confirm"})
    BY <1>1, SSettled DEF SBusy, S!OfCodes
  <2> QED BY <1>1, <2>1 DEF SInv, SCodes
<1>2. ASSUME S!Enrolling, ~past.twin PROVE fa.secret = db.secret
  BY <1>2 DEF SInv, SKey, S!Enrolling
<1> QED BY <1>1, <1>2 DEF S!ShownFactorWorks

\* One visit to the settings keeps all of it: the page's own form and the
\* mounted section's, the accounts, the events chosen, and two-factor.
THEOREM SettingsCorrect == Spec => [](page = "settings" => SInv)
<1>1. Init => (page = "settings" => SInv)
  BY SInitInv DEF Init
<1>2. (page = "settings" => SInv) /\ [Next]_all => (page = "settings" => SInv)'
  BY SInductive DEF Next, all, vars
<1> QED BY <1>1, <1>2, PTL DEF Spec

\* Once everything is answered, what the settings present as saved, listed,
\* chosen or enabled is what the server has (all sections of SettingsPage).
THEOREM SettingsTellTruth == Spec => [](page = "settings" => S!TypeOK /\ S!PageTellsTruth)
<1>1. (page = "settings" => SInv) => (page = "settings" => S!TypeOK /\ S!PageTellsTruth)
  BY STyped, STells
<1> QED BY <1>1, SettingsCorrect, PTL

\* The backup codes on the screen are those of the account, and the key to scan
\* is the one it waits for, however steps were cancelled (TwoFactorSection).
THEOREM FactorWorks == Spec => []ShownFactorWorks
<1>1. (page = "settings" => SInv) => ShownFactorWorks
  BY SShows DEF ShownFactorWorks
<1> QED BY <1>1, SettingsCorrect, PTL

---------------------------------------------------------------------------
(* All pages.                                                              *)

LEMMA PTypes == PType => P!TypeOK
<1> SUFFICES ASSUME PType PROVE P!TypeOK
  OBVIOUS
<1>1. ASSUME NEW x \in Calls PROVE call[x] = NoCall \/ call[x].at \in {"sent", "ok", "refused", "lost"}
  BY DEF PType, PCalls, PCall, Ats
<1>2. P!CallsTypeOK
  BY Zenon, <1>1 DEF P!CallsTypeOK, PType, PLog, LogType
<1>3. \A i \in Two : db[i] \in P!Instance \cup {None}
  BY DEF PType, PDb, PTable
<1>4. /\ ui.left \in Two \cup {None} /\ ui.note \in {None, "success", "error"}
      /\ ui.panel # None => ui.panel \in PPanel
  BY DEF PType, PUi
<1> QED BY <1>2, <1>3, <1>4 DEF P!TypeOK, PPanel

\* Whatever page is open, its state has its type.
THEOREM Typed == Spec => []TypeOK
<1>1. page \in {"settings", "displays", "clients", "themes", "plugins", "session", "colour", "gradient"}
      /\ (page = "settings" => SInv)
      /\ (page = "displays" => DInv)
      /\ (page = "clients" => CInv)
      /\ (page = "themes" => TInv)
      /\ (page = "plugins" => PInv)
      /\ (page = "session" => AInv)
      /\ (page = "colour" => FInv)
      /\ (page = "gradient" => GInv)
      => TypeOK
  <2>1. page = "settings" /\ SInv => S!TypeOK
    BY STyped
  <2>2. page = "displays" /\ DInv => D!TypeOK
    BY DTyped
  <2>3. page = "clients" /\ CInv => C!TypeOK
    BY CTyped
  <2>4. page = "themes" /\ TInv => T!TypeOK
    BY TTyped
  <2>5. page = "plugins" /\ PInv => P!TypeOK
    BY PTypes DEF PInv
  <2>6. page = "session" /\ AInv => A!TypeOK
    BY ATyped
  <2>7. page = "colour" /\ FInv => F!TypeOK
    BY FTyped
  <2>8. page = "gradient" /\ GInv => G!TypeOK
    BY GTyped, GradientAssumption
  <2> QED BY <2>1, <2>2, <2>3, <2>4, <2>5, <2>6, <2>7, <2>8 DEF TypeOK
<1>2. Spec => [](page \in {"settings", "displays", "clients", "themes", "plugins", "session", "colour", "gradient"})
  <2> DEFINE Q == page \in {"settings", "displays", "clients", "themes", "plugins", "session", "colour", "gradient"}
  <2>1. Init => Q
    BY DEF Init
  <2>2. Q /\ [Next]_all => Q'
    BY DEF Next, all
  <2> HIDE DEF Q
  <2>3. Spec => []Q
    BY <2>1, <2>2, PTL DEF Spec
  <2> QED BY <2>3 DEF Q
<1> QED BY <1>1, <1>2, SettingsCorrect, DisplaysCorrect, ClientsCorrect, ThemesCorrect, PluginsCorrect,
           SessionCorrect, ColourCorrect, GradientCorrect, PTL

\* Once it is answered, and unless requests overlapped or got lost, what a page
\* presents as stored is what the server has: the settings, the displays and
\* their screens, the message of an offline screen, the name of the session.
THEOREM TruthIsTold == Spec => []PagesTellTruth
<1>1. /\ page = "settings" => SInv
      /\ page = "displays" => DInv
      /\ page = "clients" => CInv
      /\ page = "session" => AInv
      => PagesTellTruth
  BY STells, DTyped, CTyped, ATyped DEF PagesTellTruth
<1> QED BY <1>1, SettingsCorrect, DisplaysCorrect, ClientsCorrect, SessionCorrect, PTL

\* While requests do not overlap or get lost, no change touches the look of a
\* screen, the aspect ratio of a screen that is not renamed or moved (the page
\* omits it, and it is cleared), the options chosen for an instance, or another
\* stop of a gradient, and none but an approval approves a client.
THEOREM OnlyEdited == Spec => OnlyTheEditedChanges
BY LooksKept, OnlyApproved, ChoiceKept, StopsKept, PTL DEF OnlyTheEditedChanges

=============================================================================
