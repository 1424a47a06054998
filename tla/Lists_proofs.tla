---------------------------- MODULE Lists_proofs -----------------------------
(* What the helpers of Lists return, for lists over every set and sums     *)
(* over every finite set.                                                  *)
EXTENDS Lists, FiniteSetTheorems, NaturalsInduction, WellFoundedInduction, TLAPS

(***************************************************************************)
(* Lists                                                                   *)
(***************************************************************************)

\* The numbers up to n are n.
LEMMA UpTo ==
  ASSUME NEW n \in Nat
  PROVE  IsFiniteSet(1 .. n) /\ Cardinality(1 .. n) = n
<1>1. 1 \in Int /\ n \in Int
  OBVIOUS
<1>2. IsFiniteSet(1 .. n) /\ Cardinality(1 .. n) = IF 1 > n THEN 0 ELSE n - 1 + 1
  BY <1>1, FS_Interval
<1> QED
  BY <1>2

\* The indices that a list keeps are finitely many, and a numbering of them gives a list.
LEMMA Numbering ==
  ASSUME NEW S, NEW s \in Seq(S), NEW K \in SUBSET DOMAIN s,
         NEW f \in Bijection(1 .. Cardinality(K), K)
  PROVE  /\ Cardinality(K) \in Nat /\ Cardinality(K) <= Len(s)
         /\ DOMAIN f = 1 .. Cardinality(K)
         /\ \A i \in DOMAIN f : f[i] \in K
         /\ \A i, j \in DOMAIN f : f[i] = f[j] => i = j
         /\ \A k \in K : \E i \in DOMAIN f : f[i] = k
         /\ [i \in DOMAIN f |-> s[f[i]]] \in Seq(S)
         /\ Len([i \in DOMAIN f |-> s[f[i]]]) = Cardinality(K)
<1>1. IsFiniteSet(1 .. Len(s)) /\ Cardinality(1 .. Len(s)) = Len(s)
  BY UpTo
<1>2. Cardinality(K) \in Nat /\ Cardinality(K) <= Len(s)
  BY <1>1, FS_Subset, FS_CardinalityType
<1>3. /\ f \in [1 .. Cardinality(K) -> K]
      /\ \A i, j \in 1 .. Cardinality(K) : f[i] = f[j] => i = j
      /\ \A k \in K : \E i \in 1 .. Cardinality(K) : f[i] = k
  BY DEF Bijection, Injection, Surjection, IsInjective
<1>4. [i \in 1 .. Cardinality(K) |-> s[f[i]]] \in [1 .. Cardinality(K) -> S]
  BY <1>3
<1>5. [i \in 1 .. Cardinality(K) |-> s[f[i]]] \in Seq(S)
  BY <1>2, <1>4
<1> QED
  BY <1>2, <1>3, <1>5

\* What retain keeps, by the places it had.
LEMMA RetainedList ==
  ASSUME NEW S, NEW s \in Seq(S), NEW K \in SUBSET DOMAIN s, NEW t \in Retained(s, K)
  PROVE  /\ t \in Seq(S) /\ Len(t) = Cardinality(K) /\ Len(t) <= Len(s)
         /\ \E f \in [DOMAIN t -> K] :
              /\ \A i \in DOMAIN t : t[i] = s[f[i]]
              /\ \A i, j \in DOMAIN t : i < j => f[i] < f[j]
              /\ \A k \in K : \E i \in DOMAIN t : f[i] = k
<1>1. PICK f \in Bijection(1 .. Cardinality(K), K) :
        /\ \A i, j \in DOMAIN f : i < j => f[i] < f[j]
        /\ t = [i \in DOMAIN f |-> s[f[i]]]
  BY DEF Retained, Arranged
<1>2. /\ Cardinality(K) \in Nat /\ Cardinality(K) <= Len(s)
      /\ \A i \in DOMAIN f : f[i] \in K
      /\ \A k \in K : \E i \in DOMAIN f : f[i] = k
      /\ t \in Seq(S) /\ Len(t) = Cardinality(K)
  BY <1>1, Numbering
<1>3. DOMAIN t = DOMAIN f /\ \A i \in DOMAIN f : t[i] = s[f[i]]
  BY <1>1
<1>4. f \in [DOMAIN t -> K]
  BY <1>2, <1>3 DEF Bijection, Injection
<1> QED
  BY <1>1, <1>2, <1>3, <1>4

\* f gives the place in s of each element of t, which are those at the indices K.
PlacedBy(f, s, K, t) ==
  /\ f \in [DOMAIN t -> K]
  /\ \A i \in DOMAIN t : t[i] = s[f[i]]
  /\ \A i, j \in DOMAIN t : i < j => f[i] < f[j]
  /\ \A k \in K : \E i \in DOMAIN t : f[i] = k

\* There are such places.
LEMMA RetainedPlaces ==
  ASSUME NEW S, NEW s \in Seq(S), NEW K \in SUBSET DOMAIN s, NEW t \in Retained(s, K)
  PROVE  \E f : PlacedBy(f, s, K, t)
<1>1. PICK f \in [DOMAIN t -> K] :
              /\ \A i \in DOMAIN t : t[i] = s[f[i]]
              /\ \A i, j \in DOMAIN t : i < j => f[i] < f[j]
              /\ \A k \in K : \E i \in DOMAIN t : f[i] = k
  BY RetainedList
<1>2. PlacedBy(f, s, K, t)
  BY <1>1 DEF PlacedBy
<1> QED
  BY <1>2

\* The elements that retain keeps.
LEMMA RetainedRange ==
  ASSUME NEW S, NEW s \in Seq(S), NEW K \in SUBSET DOMAIN s, NEW t \in Retained(s, K)
  PROVE  Range(t) = {s[k] : k \in K}
<1>1. PICK f \in [DOMAIN t -> K] :
        /\ \A i \in DOMAIN t : t[i] = s[f[i]]
        /\ \A k \in K : \E i \in DOMAIN t : f[i] = k
  BY RetainedList
<1>2. \A i \in DOMAIN t : f[i] \in K
  OBVIOUS
<1> QED
  BY <1>1, <1>2 DEF Range

\* Where retain keeps everything, nothing changes.
LEMMA RetainedAll ==
  ASSUME NEW S, NEW s \in Seq(S), NEW t \in Retained(s, DOMAIN s)
  PROVE  t = s
<1>1. t \in Seq(S) /\ Len(t) = Cardinality(DOMAIN s)
  BY RetainedList
<1>2. Len(t) = Len(s) /\ DOMAIN t = 1 .. Len(s) /\ DOMAIN s = 1 .. Len(s)
  BY <1>1, UpTo
<1> DEFINE K == DOMAIN s
<1>5. s \in Seq(S) /\ K \in SUBSET DOMAIN s /\ t \in Retained(s, K)
  OBVIOUS
<1> HIDE DEF K
<1>6. PICK f : PlacedBy(f, s, K, t)
  BY ONLY <1>5, RetainedPlaces
<1>3. /\ f \in [DOMAIN t -> DOMAIN s]
      /\ \A i \in DOMAIN t : t[i] = s[f[i]]
      /\ \A i, j \in DOMAIN t : i < j => f[i] < f[j]
      /\ \A k \in DOMAIN s : \E i \in DOMAIN t : f[i] = k
  BY <1>6 DEF K, PlacedBy
<1>4. \A i \in 1 .. Len(s) : f[i] = i
  <2> DEFINE B == {i \in 1 .. Len(s) : f[i] # i}
  <2> SUFFICES ASSUME B # {} PROVE FALSE
    OBVIOUS
  <2>1. B \subseteq Nat
    OBVIOUS
  <2>2. PICK x \in B : \A y \in B : <<y, x>> \notin OpToRel(<, Nat)
    BY <2>1, WFMin, NatLessThanWellFounded
  <2>3. \A y \in B : ~(y < x)
    BY <2>1, <2>2 DEF OpToRel
  <2>4. x \in 1 .. Len(s) /\ f[x] # x /\ \A y \in 1 .. Len(s) : y < x => f[y] = y
    BY <2>3
  <2>5. f[x] \in 1 .. Len(s)
    BY <1>2, <1>3, <2>4
  <2>6. CASE f[x] < x
    <3>1. f[f[x]] = f[x] /\ f[f[x]] < f[x]
      BY <1>2, <1>3, <2>4, <2>5, <2>6
    <3> QED
      BY <2>5, <3>1
  <2>7. CASE f[x] > x
    <3>1. PICK i \in 1 .. Len(s) : f[i] = x
      BY <1>2, <1>3, <2>4
    <3>2. ~(i < x)
      BY <2>4, <3>1
    <3>3. i # x
      BY <2>4, <3>1
    <3>4. x < i
      BY <2>4, <3>2, <3>3
    <3>5. f[x] < f[i]
      BY <1>2, <1>3, <2>4, <3>4
    <3> QED
      BY <2>4, <2>5, <2>7, <3>1, <3>5
  <2> QED
    BY <2>4, <2>5, <2>6, <2>7
<1> QED
  BY <1>1, <1>2, <1>3, <1>4

(***************************************************************************)
(* Sums                                                                    *)
(***************************************************************************)

\* One element counts as often as its value says.
LEMMA UnitsOfOne ==
  ASSUME NEW x, NEW n \in Nat
  PROVE  IsFiniteSet({x} \X (1 .. n)) /\ Cardinality({x} \X (1 .. n)) = n
<1>1. IsFiniteSet({x}) /\ Cardinality({x}) = 1
  BY FS_Singleton
<1>2. IsFiniteSet(1 .. n) /\ Cardinality(1 .. n) = n
  BY UpTo
<1> DEFINE X == {x}
           Y == 1 .. n
<1>3. IsFiniteSet(X) /\ IsFiniteSet(Y) /\ Cardinality(X) = 1 /\ Cardinality(Y) = n
  BY <1>1, <1>2
<1> HIDE DEF X, Y
<1>4. IsFiniteSet(X \X Y) /\ Cardinality(X \X Y) = Cardinality(X) * Cardinality(Y)
  BY ONLY <1>3, FS_Product
<1> QED
  BY <1>3, <1>4 DEF X, Y

\* The sum over a finite set is a number.
LEMMA TotalIsNat ==
  ASSUME NEW f, IsFiniteSet(DOMAIN f), \A x \in DOMAIN f : f[x] \in Nat
  PROVE  IsFiniteSet(Units(f)) /\ Total(f) \in Nat
<1> DEFINE D == DOMAIN f
           g == [x \in D |-> {x} \X (1 .. f[x])]
           T == {{x} \X (1 .. f[x]) : x \in D}
<1>1. g \in Surjection(D, T)
  BY DEF Surjection
<1>2. IsFiniteSet(T)
  BY <1>1, FS_Surjection
<1>3. ASSUME NEW X \in T PROVE IsFiniteSet(X)
  <2>1. PICK x \in D : X = {x} \X (1 .. f[x])
    OBVIOUS
  <2>2. f[x] \in Nat
    OBVIOUS
  <2>3. IsFiniteSet({x} \X (1 .. f[x]))
    BY ONLY <2>2, UnitsOfOne
  <2> QED
    BY <2>1, <2>3
<1>4. IsFiniteSet(UNION T)
  BY <1>2, <1>3, FS_UNION
<1> QED
  BY <1>4, FS_CardinalityType DEF Units, Total

\* One more element adds its value.
LEMMA TotalWith ==
  ASSUME NEW f, IsFiniteSet(DOMAIN f), \A x \in DOMAIN f : f[x] \in Nat,
         NEW y, y \notin DOMAIN f,
         NEW g, DOMAIN g = DOMAIN f \cup {y}, g[y] \in Nat, \A x \in DOMAIN f : g[x] = f[x]
  PROVE  Total(g) = Total(f) + g[y]
<1> DEFINE Y == {y} \X (1 .. g[y])
<1>1. Units(g) = Units(f) \cup Y
  BY DEF Units
<1>2. Units(f) \cap Y = {}
  BY DEF Units
<1>3. IsFiniteSet(Units(f)) /\ Total(f) \in Nat
  BY TotalIsNat
<1>4. IsFiniteSet(Y) /\ Cardinality(Y) = g[y]
  BY UnitsOfOne
<1> HIDE DEF Y
<1>5. Cardinality(Units(f) \cap Y) = 0
  BY <1>2, FS_EmptySet
<1>6. Cardinality(Units(f) \cup Y) = Cardinality(Units(f)) + Cardinality(Y) - Cardinality(Units(f) \cap Y)
  BY <1>3, <1>4, FS_Union
<1> QED
  BY <1>1, <1>3, <1>4, <1>5, <1>6 DEF Total

\* A value that is larger by n makes the sum larger by n.
LEMMA TotalMore ==
  ASSUME NEW f, IsFiniteSet(DOMAIN f), \A x \in DOMAIN f : f[x] \in Nat,
         NEW y \in DOMAIN f, NEW n \in Nat,
         NEW g, DOMAIN g = DOMAIN f, g[y] = f[y] + n, \A x \in DOMAIN f \ {y} : g[x] = f[x]
  PROVE  Total(g) = Total(f) + n
<1> DEFINE h == [x \in DOMAIN f \ {y} |-> f[x]]
<1>1. IsFiniteSet(DOMAIN h) /\ \A x \in DOMAIN h : h[x] \in Nat
  BY FS_Difference
<1>2. DOMAIN f = DOMAIN h \cup {y} /\ y \notin DOMAIN h /\ \A x \in DOMAIN h : f[x] = h[x] /\ g[x] = h[x]
  OBVIOUS
<1>3. f[y] \in Nat /\ g[y] \in Nat
  OBVIOUS
<1> HIDE DEF h
<1>4. Total(f) = Total(h) + f[y]
  BY <1>1, <1>2, <1>3, TotalWith
<1>5. Total(g) = Total(h) + g[y]
  BY <1>1, <1>2, <1>3, TotalWith
<1>6. Total(h) \in Nat
  BY <1>1, TotalIsNat
<1> QED
  BY <1>3, <1>4, <1>5, <1>6

\* The sum does not depend on the names of the elements.
LEMMA TotalRenamed ==
  ASSUME NEW f, IsFiniteSet(DOMAIN f), \A x \in DOMAIN f : f[x] \in Nat,
         NEW g, NEW h \in Bijection(DOMAIN f, DOMAIN g), \A x \in DOMAIN f : g[h[x]] = f[x]
  PROVE  Total(g) = Total(f)
<1> DEFINE k == [u \in Units(f) |-> <<h[u[1]], u[2]>>]
<1>1. /\ h \in [DOMAIN f -> DOMAIN g]
      /\ \A x, y \in DOMAIN f : h[x] = h[y] => x = y
      /\ \A z \in DOMAIN g : \E x \in DOMAIN f : h[x] = z
  BY DEF Bijection, Injection, Surjection, IsInjective
<1>2. \A u : u \in Units(f) <=> \E x \in DOMAIN f, i \in Nat : i \in 1 .. f[x] /\ u = <<x, i>>
  BY DEF Units
<1>3. \A u : u \in Units(g) <=> \E x \in DOMAIN g, i \in Nat : i \in 1 .. g[x] /\ u = <<x, i>>
  BY DEF Units
<1>4. k \in [Units(f) -> Units(g)]
  <2>1. ASSUME NEW u \in Units(f) PROVE <<h[u[1]], u[2]>> \in Units(g)
    <3>1. PICK x \in DOMAIN f, i \in Nat : i \in 1 .. f[x] /\ u = <<x, i>>
      BY <1>2
    <3>2. h[x] \in DOMAIN g /\ i \in 1 .. g[h[x]]
      BY <1>1, <3>1
    <3> QED
      BY <1>3, <3>1, <3>2
  <2> QED
    BY <2>1
<1>5. \A u, v \in Units(f) : k[u] = k[v] => u = v
  <2>1. ASSUME NEW u \in Units(f), NEW v \in Units(f), k[u] = k[v] PROVE u = v
    <3>1. PICK x \in DOMAIN f, i \in Nat : i \in 1 .. f[x] /\ u = <<x, i>>
      BY <1>2
    <3>2. PICK y \in DOMAIN f, j \in Nat : j \in 1 .. f[y] /\ v = <<y, j>>
      BY <1>2
    <3>3. k[u] = <<h[x], i>> /\ k[v] = <<h[y], j>>
      BY <3>1, <3>2
    <3>4. h[x] = h[y] /\ i = j
      BY <2>1, <3>3
    <3> QED
      BY <1>1, <3>1, <3>2, <3>4
  <2> QED
    BY <2>1
<1>6. \A w \in Units(g) : \E u \in Units(f) : k[u] = w
  <2>1. ASSUME NEW w \in Units(g) PROVE \E u \in Units(f) : k[u] = w
    <3>1. PICK z \in DOMAIN g, i \in Nat : i \in 1 .. g[z] /\ w = <<z, i>>
      BY <1>3
    <3>2. PICK x \in DOMAIN f : h[x] = z
      BY <1>1
    <3>3. <<x, i>> \in Units(f)
      BY <1>2, <3>1, <3>2
    <3>4. k[<<x, i>>] = <<z, i>>
      BY <3>2, <3>3
    <3> QED
      BY <3>1, <3>3, <3>4
  <2> QED
    BY <2>1
<1> HIDE DEF k
<1>7. k \in Bijection(Units(f), Units(g))
  BY <1>4, <1>5, <1>6 DEF Bijection, Injection, Surjection, IsInjective
<1>8. ExistsBijection(Units(f), Units(g)) /\ IsFiniteSet(Units(f))
  BY <1>7, TotalIsNat DEF ExistsBijection
<1> QED
  BY <1>8, FS_Bijection DEF Total
=============================================================================
