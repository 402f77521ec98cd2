----------------------------- MODULE UnitTheorems -----------------------------
(***************************************************************************)
(* Sums as cardinalities.  The modules write the sum of naturals as the    *)
(* number of the units {x} \X (1..n) of its terms; these are the facts     *)
(* about such sets that the accounting proofs need.                        *)
(***************************************************************************)
EXTENDS Integers, FiniteSets, FiniteSetTheorems, TLAPS

\* A term has as many units as it says, and none if it is not positive.
LEMMA UnitsCounted ==
    ASSUME NEW x, NEW n \in Int
    PROVE  /\ IsFiniteSet({x} \X (1..n))
           /\ Cardinality({x} \X (1..n)) = IF n > 0 THEN n ELSE 0
<1>1. IsFiniteSet({x}) /\ Cardinality({x}) = 1
  BY FS_Singleton
<1>2. IsFiniteSet(1..n) /\ Cardinality(1..n) = IF n > 0 THEN n ELSE 0
  BY FS_Interval
<1>3. IsFiniteSet({x} \X (1..n)) /\ Cardinality({x} \X (1..n)) = Cardinality({x}) * Cardinality(1..n)
  BY <1>1, <1>2, FS_Product
<1> QED
  BY <1>1, <1>2, <1>3

\* Disjoint finite sets count together as much as they count apart.
LEMMA DisjointCounted ==
    ASSUME NEW S, NEW T, IsFiniteSet(S), IsFiniteSet(T), S \cap T = {}
    PROVE  /\ IsFiniteSet(S \cup T)
           /\ Cardinality(S \cup T) = Cardinality(S) + Cardinality(T)
           /\ Cardinality(S) \in Nat /\ Cardinality(T) \in Nat
<1>1. Cardinality(S \cap T) = 0
  BY FS_EmptySet
<1>2. Cardinality(S) \in Nat /\ Cardinality(T) \in Nat
  BY FS_CardinalityType
<1>3. /\ IsFiniteSet(S \cup T)
      /\ Cardinality(S \cup T) = Cardinality(S) + Cardinality(T) - Cardinality(S \cap T)
  BY FS_Union, Zenon
<1> QED
  BY <1>1, <1>2, <1>3

\* A new term adds its units.
LEMMA TermAdded ==
    ASSUME NEW S, IsFiniteSet(S), NEW x, NEW n \in Int, \A u \in S : u[1] # x
    PROVE  /\ IsFiniteSet(S \cup ({x} \X (1..n)))
           /\ Cardinality(S \cup ({x} \X (1..n))) = Cardinality(S) + (IF n > 0 THEN n ELSE 0)
<1> DEFINE T == {x} \X (1..n)
<1>1. S \cap T = {}
  OBVIOUS
<1>2. IsFiniteSet(T) /\ Cardinality(T) = IF n > 0 THEN n ELSE 0
  BY UnitsCounted
<1> HIDE DEF T
<1>3. IsFiniteSet(S \cup T) /\ Cardinality(S \cup T) = Cardinality(S) + Cardinality(T)
  BY <1>1, <1>2, DisjointCounted
<1> QED
  BY <1>2, <1>3 DEF T

\* A sum has finitely many units, so it is a natural number.
LEMMA TermsFinite ==
    ASSUME NEW D, IsFiniteSet(D), NEW f, \A x \in D : f[x] \in Nat
    PROVE  /\ IsFiniteSet(UNION {{x} \X (1..f[x]) : x \in D})
           /\ Cardinality(UNION {{x} \X (1..f[x]) : x \in D}) \in Nat
<1> DEFINE T == {{x} \X (1..f[x]) : x \in D}
           g == [x \in D |-> {x} \X (1..f[x])]
<1>1. g \in Surjection(D, T)
  BY DEF Surjection
<1>2. \A x \in D : IsFiniteSet({x} \X (1..f[x]))
  <2> SUFFICES ASSUME NEW x \in D PROVE IsFiniteSet({x} \X (1..f[x]))
    OBVIOUS
  <2>1. f[x] \in Int
    OBVIOUS
  <2> QED
    BY <2>1, UnitsCounted
<1>3. \A t \in T : IsFiniteSet(t)
  BY <1>2
<1> HIDE DEF T, g
<1>4. IsFiniteSet(T)
  BY <1>1, FS_Surjection
<1>5. IsFiniteSet(UNION T)
  BY <1>3, <1>4, FS_UNION
<1> QED
  BY <1>5, FS_CardinalityType DEF T

-----------------------------------------------------------------------------
(* Sums over a set of terms. *)

\* The units of the terms D of f; their number is the sum of f over D.
Units(D, f) == UNION {{x} \X (1..f[x]) : x \in D}

SumOf(D, f) == Cardinality(Units(D, f))

LEMMA UnitsAre ==
    ASSUME NEW D, NEW f, NEW u
    PROVE  u \in Units(D, f) <=> u[1] \in D /\ u[2] \in 1..f[u[1]] /\ u = <<u[1], u[2]>>
<1>1. ASSUME u \in Units(D, f)
      PROVE  u[1] \in D /\ u[2] \in 1..f[u[1]] /\ u = <<u[1], u[2]>>
  <2> PICK x \in D : u \in {x} \X (1..f[x])
    BY <1>1 DEF Units
  <2> QED
    OBVIOUS
<1>2. ASSUME u[1] \in D, u[2] \in 1..f[u[1]], u = <<u[1], u[2]>>
      PROVE  u \in Units(D, f)
  <2>1. u \in {u[1]} \X (1..f[u[1]])
    BY <1>2
  <2> QED
    BY <1>2, <2>1 DEF Units
<1> QED
  BY <1>1, <1>2

LEMMA SumTyped ==
    ASSUME NEW D, IsFiniteSet(D), NEW f, \A x \in D : f[x] \in Nat
    PROVE  IsFiniteSet(Units(D, f)) /\ SumOf(D, f) \in Nat
BY TermsFinite DEF Units, SumOf

\* A sum depends on the terms only.
LEMMA SumAgrees ==
    ASSUME NEW D, NEW f, NEW g, \A x \in D : f[x] = g[x]
    PROVE  SumOf(D, f) = SumOf(D, g)
<1>1. \A x \in D : {x} \X (1..f[x]) = {x} \X (1..g[x])
  OBVIOUS
<1>2. Units(D, f) = Units(D, g)
  BY <1>1 DEF Units
<1> QED
  BY <1>2 DEF SumOf

LEMMA SumOfNothing ==
    ASSUME NEW D, NEW f, \A x \in D : f[x] = 0
    PROVE  SumOf(D, f) = 0
<1>1. Units(D, f) = {}
  <2> SUFFICES ASSUME NEW u \in Units(D, f) PROVE FALSE
    OBVIOUS
  <2>1. u[1] \in D /\ u[2] \in 1..f[u[1]]
    BY UnitsAre
  <2> QED
    BY <2>1
<1> QED
  BY <1>1, FS_EmptySet DEF SumOf

LEMMA SumOfOne ==
    ASSUME NEW x, NEW f, f[x] \in Nat
    PROVE  SumOf({x}, f) = f[x]
<1>1. Units({x}, f) = {x} \X (1..f[x])
  BY DEF Units
<1>2. f[x] \in Int
  OBVIOUS
<1> DEFINE n == f[x]
<1>3. Cardinality({x} \X (1..n)) = IF n > 0 THEN n ELSE 0
  <2> HIDE DEF n
  <2> QED
    BY <1>2, UnitsCounted DEF n
<1> QED
  BY <1>1, <1>3 DEF SumOf

\* Two disjoint sets of terms.
LEMMA SumSplit ==
    ASSUME NEW D, NEW E, IsFiniteSet(D), IsFiniteSet(E), D \cap E = {}, NEW f,
           \A x \in D \cup E : f[x] \in Nat
    PROVE  SumOf(D \cup E, f) = SumOf(D, f) + SumOf(E, f)
<1>1. Units(D \cup E, f) = Units(D, f) \cup Units(E, f)
  BY DEF Units
<1>2. Units(D, f) \cap Units(E, f) = {}
  BY UnitsAre
<1>3. IsFiniteSet(Units(D, f)) /\ IsFiniteSet(Units(E, f))
  BY SumTyped
<1> HIDE DEF Units
<1>4. Cardinality(Units(D, f) \cup Units(E, f)) = Cardinality(Units(D, f)) + Cardinality(Units(E, f))
  BY <1>2, <1>3, DisjointCounted
<1> QED
  BY <1>1, <1>4 DEF SumOf

LEMMA SumOfSome ==
    ASSUME NEW D, IsFiniteSet(D), NEW E \in SUBSET D, NEW f, \A x \in D : f[x] \in Nat
    PROVE  /\ SumOf(D, f) = SumOf(E, f) + SumOf(D \ E, f)
           /\ SumOf(E, f) \in Nat /\ SumOf(D \ E, f) \in Nat /\ SumOf(E, f) <= SumOf(D, f)
<1>1. IsFiniteSet(E) /\ IsFiniteSet(D \ E)
  BY FS_Subset
<1>2. D = E \cup (D \ E) /\ E \cap (D \ E) = {}
  OBVIOUS
<1>3. SumOf(E \cup (D \ E), f) = SumOf(E, f) + SumOf(D \ E, f)
  BY <1>1, <1>2, SumSplit
<1>4. SumOf(E, f) \in Nat /\ SumOf(D \ E, f) \in Nat
  BY <1>1, SumTyped
<1>5. SumOf(D, f) = SumOf(E, f) + SumOf(D \ E, f)
  BY <1>2, <1>3, Zenon
<1> QED
  BY <1>4, <1>5

\* As many units as a family of disjoint sets has elements.
LEMMA FamilyCounted ==
    ASSUME NEW D, IsFiniteSet(D), NEW U, NEW f,
           \A x \in D : IsFiniteSet(U[x]) /\ f[x] = Cardinality(U[x]),
           \A x, y \in D : x # y => U[x] \cap U[y] = {},
           NEW V, \A v : v \in V <=> \E x \in D : v \in U[x]
    PROVE  IsFiniteSet(V) /\ SumOf(D, f) = Cardinality(V)
<1> DEFINE b == [x \in D |-> CHOOSE h : h \in Bijection(1..f[x], U[x])]
           W == Units(D, f)
           g == [u \in W |-> b[u[1]][u[2]]]
<1>1. ASSUME NEW x \in D PROVE f[x] \in Nat /\ b[x] \in Bijection(1..f[x], U[x])
  <2>1. f[x] \in Nat /\ ExistsBijection(1..f[x], U[x])
    BY FS_CardinalityType
  <2>2. \E h : h \in Bijection(1..f[x], U[x])
    BY <2>1 DEF ExistsBijection
  <2> QED
    BY <2>1, <2>2
<1> HIDE DEF b
<1>2. ASSUME NEW u \in W
      PROVE  /\ u[1] \in D /\ u[2] \in 1..f[u[1]] /\ u = <<u[1], u[2]>>
             /\ b[u[1]] \in Bijection(1..f[u[1]], U[u[1]])
             /\ g[u] \in U[u[1]]
  <2>1. u[1] \in D /\ u[2] \in 1..f[u[1]] /\ u = <<u[1], u[2]>>
    BY UnitsAre
  <2>2. b[u[1]] \in Bijection(1..f[u[1]], U[u[1]])
    BY <1>1, <2>1
  <2>3. b[u[1]] \in [1..f[u[1]] -> U[u[1]]]
    BY <2>2 DEF Bijection, Injection
  <2> QED
    BY <2>1, <2>2, <2>3
<1>3. g \in [W -> V]
  BY <1>2
<1>4. ASSUME NEW u \in W, NEW v \in W, g[u] = g[v] PROVE u = v
  <2>1. /\ u[1] \in D /\ v[1] \in D /\ g[u] \in U[u[1]] /\ g[v] \in U[v[1]]
        /\ u = <<u[1], u[2]>> /\ v = <<v[1], v[2]>>
    BY <1>2
  <2>2. u[1] = v[1]
    BY <1>4, <2>1
  <2>3. /\ b[u[1]] \in Bijection(1..f[u[1]], U[u[1]])
        /\ u[2] \in 1..f[u[1]] /\ v[2] \in 1..f[u[1]] /\ b[u[1]][u[2]] = b[u[1]][v[2]]
    BY <1>2, <1>4, <2>2
  <2>4. u[2] = v[2]
    BY <2>3 DEF Bijection, Injection, IsInjective
  <2> QED
    BY <2>1, <2>2, <2>4
<1>5. ASSUME NEW v \in V PROVE \E u \in W : g[u] = v
  <2> PICK x \in D : v \in U[x]
    OBVIOUS
  <2>1. b[x] \in Surjection(1..f[x], U[x])
    BY <1>1 DEF Bijection
  <2>2. PICK i \in 1..f[x] : b[x][i] = v
    BY <2>1 DEF Surjection
  <2>3. <<x, i>> \in W
    BY UnitsAre
  <2> QED
    BY <2>2, <2>3
<1> HIDE DEF g
<1>6. g \in Bijection(W, V)
  BY <1>3, <1>4, <1>5 DEF Bijection, Injection, Surjection, IsInjective
<1>7. IsFiniteSet(W)
  <2>1. \A x \in D : f[x] \in Nat
    BY <1>1
  <2> QED
    BY <2>1, SumTyped
<1> HIDE DEF W
<1>8. IsFiniteSet(V) /\ Cardinality(W) = Cardinality(V)
  <2>1. ExistsBijection(W, V)
    BY <1>6 DEF ExistsBijection
  <2> QED
    BY <1>7, <2>1, FS_Bijection
<1> QED
  BY <1>8 DEF SumOf, W

\* The terms may be renamed.
LEMMA SumMapped ==
    ASSUME NEW D, IsFiniteSet(D), NEW E, NEW k \in Bijection(D, E), NEW f, NEW g,
           \A x \in D : f[x] = g[k[x]] /\ f[x] \in Nat
    PROVE  SumOf(D, f) = SumOf(E, g)
<1> DEFINE U == [x \in D |-> {k[x]} \X (1..g[k[x]])]
<1>1. ASSUME NEW x \in D PROVE IsFiniteSet(U[x]) /\ f[x] = Cardinality(U[x])
  <2> DEFINE n == g[k[x]]
  <2>1. n \in Nat /\ n \in Int /\ f[x] = n /\ U[x] = {k[x]} \X (1..n)
    OBVIOUS
  <2> HIDE DEF n, U
  <2>2. IsFiniteSet({k[x]} \X (1..n)) /\ Cardinality({k[x]} \X (1..n)) = IF n > 0 THEN n ELSE 0
    BY <2>1, UnitsCounted
  <2> QED
    BY <2>1, <2>2
<1>2. \A x, y \in D : x # y => U[x] \cap U[y] = {}
  <2>1. \A x, y \in D : x # y => k[x] # k[y]
    BY DEF Bijection, Injection, IsInjective
  <2> QED
    BY <2>1
<1>3. \A u : u \in Units(E, g) <=> \E x \in D : u \in U[x]
  <2>1. E = {k[x] : x \in D}
    BY DEF Bijection, Surjection, Injection
  <2>2. ASSUME NEW u, NEW x \in D, u \in U[x] PROVE u \in Units(E, g)
    <3>1. k[x] \in E
      BY <2>1
    <3> QED
      BY <2>2, <3>1 DEF Units
  <2>3. ASSUME NEW u \in Units(E, g) PROVE \E x \in D : u \in U[x]
    <3> PICK y \in E : u \in {y} \X (1..g[y])
      BY DEF Units
    <3> PICK x \in D : y = k[x]
      BY <2>1
    <3>1. u \in U[x]
      OBVIOUS
    <3> QED
      BY <3>1
  <2> QED
    BY <2>2, <2>3
<1> HIDE DEF U
<1>4. \A x \in D : IsFiniteSet(U[x]) /\ f[x] = Cardinality(U[x])
  BY <1>1
<1>5. SumOf(D, f) = Cardinality(Units(E, g))
  BY <1>2, <1>3, <1>4, FamilyCounted
<1> QED
  BY <1>5 DEF SumOf

\* The sum of sums.
LEMMA SumAdded ==
    ASSUME NEW D, IsFiniteSet(D), NEW f, NEW g, NEW h,
           \A x \in D : f[x] \in Nat /\ g[x] \in Nat /\ h[x] = f[x] + g[x]
    PROVE  SumOf(D, h) = SumOf(D, f) + SumOf(D, g)
<1> DEFINE F == Units(D, f)
           G == Units(D, g)
           R == {u \in Units(D, h) : u[2] > f[u[1]]}
           k == [u \in G |-> <<u[1], f[u[1]] + u[2]>>]
<1>1. IsFiniteSet(F) /\ IsFiniteSet(G)
  BY SumTyped
<1>2. Units(D, h) = F \cup R
  <2>1. ASSUME NEW u PROVE u \in Units(D, h) <=> u \in F \cup R
    <3>1. /\ u \in Units(D, h) <=> u[1] \in D /\ u[2] \in 1..h[u[1]] /\ u = <<u[1], u[2]>>
          /\ u \in F <=> u[1] \in D /\ u[2] \in 1..f[u[1]] /\ u = <<u[1], u[2]>>
      BY UnitsAre
    <3> HIDE DEF F
    <3> QED
      BY <3>1
  <2> QED
    BY <2>1
<1>3. F \cap R = {}
  <2> SUFFICES ASSUME NEW u \in F, u \in R PROVE FALSE
    OBVIOUS
  <2>1. u[1] \in D /\ u[2] \in 1..f[u[1]]
    BY UnitsAre
  <2> QED
    BY <2>1
<1>4. k \in Bijection(G, R)
  <2>1. ASSUME NEW u \in G
        PROVE  /\ u[1] \in D /\ u[2] \in 1..g[u[1]] /\ u = <<u[1], u[2]>>
               /\ k[u] = <<u[1], f[u[1]] + u[2]>> /\ f[u[1]] \in Nat /\ g[u[1]] \in Nat
    BY UnitsAre
  <2>2. ASSUME NEW u \in G PROVE k[u] \in R
    <3>1. k[u][1] \in D /\ k[u][2] \in 1..h[k[u][1]] /\ k[u] = <<k[u][1], k[u][2]>> /\ k[u][2] > f[k[u][1]]
      BY <2>1
    <3>2. k[u] \in Units(D, h)
      BY <3>1, UnitsAre
    <3> QED
      BY <3>1, <3>2
  <2>3. ASSUME NEW u \in G, NEW v \in G, k[u] = k[v] PROVE u = v
    <3> DEFINE a == f[u[1]]
    <3>1. u[1] = v[1] /\ a + u[2] = a + v[2]
      BY <2>1, <2>3
    <3>2. f[u[1]] \in Nat /\ g[u[1]] \in Nat /\ u[2] \in 1..g[u[1]] /\ u = <<u[1], u[2]>>
      BY <2>1
    <3>3. g[v[1]] \in Nat /\ v[2] \in 1..g[v[1]] /\ v = <<v[1], v[2]>>
      BY <2>1
    <3>4. a \in Int /\ u[2] \in Int /\ v[2] \in Int
      BY <3>2, <3>3
    <3> HIDE DEF a
    <3>5. u[2] = v[2]
      <4>1. \A m, i, j \in Int : m + i = m + j => i = j
        OBVIOUS
      <4> QED
        BY <3>1, <3>4, <4>1, Zenon
    <3> QED
      BY <3>1, <3>2, <3>3, <3>5, Zenon
  <2>4. ASSUME NEW v \in R PROVE \E u \in G : k[u] = v
    <3>1. v[1] \in D /\ v[2] \in 1..h[v[1]] /\ v = <<v[1], v[2]>> /\ v[2] > f[v[1]]
      BY UnitsAre
    <3> DEFINE u == <<v[1], v[2] - f[v[1]]>>
    <3>2. u[1] \in D /\ u[2] \in 1..g[u[1]] /\ u = <<u[1], u[2]>>
      BY <3>1
    <3>3. u \in G
      BY <3>2, UnitsAre
    <3>4. k[u] = v
      BY <3>1, <3>3
    <3> QED
      BY <3>3, <3>4
  <2>5. k = [u \in G |-> k[u]]
    OBVIOUS
  <2> HIDE DEF k, G, R
  <2> QED
    BY <2>2, <2>3, <2>4, <2>5 DEF Bijection, Injection, Surjection, IsInjective
<1> HIDE DEF F, G, R, k
<1>5. IsFiniteSet(R) /\ Cardinality(R) = Cardinality(G)
  <2>1. ExistsBijection(G, R)
    BY <1>4 DEF ExistsBijection
  <2> QED
    BY <1>1, <2>1, FS_Bijection
<1>6. Cardinality(F \cup R) = Cardinality(F) + Cardinality(R)
  BY <1>1, <1>3, <1>5, DisjointCounted
<1>7. Cardinality(Units(D, h)) = Cardinality(F) + Cardinality(G)
  BY <1>2, <1>5, <1>6
<1> QED
  BY <1>7 DEF SumOf, F, G

\* Terms that are classified.
LEMMA SumClassified ==
    ASSUME NEW D, IsFiniteSet(D), NEW K, IsFiniteSet(K), NEW E,
           \A x \in D : \E y \in K : x \in E[y],
           \A y \in K : \A x \in E[y] : x \in D,
           \A y, z \in K : y # z => E[y] \cap E[z] = {},
           NEW f, \A x \in D : f[x] \in Nat,
           NEW g, \A y \in K : g[y] = SumOf(E[y], f)
    PROVE  SumOf(K, g) = SumOf(D, f)
<1> DEFINE U == [y \in K |-> Units(E[y], f)]
<1>1. ASSUME NEW y \in K PROVE IsFiniteSet(U[y]) /\ g[y] = Cardinality(U[y])
  <2>1. IsFiniteSet(E[y]) /\ \A x \in E[y] : f[x] \in Nat
    BY FS_Subset
  <2>2. IsFiniteSet(Units(E[y], f))
    BY <2>1, SumTyped
  <2> QED
    BY <2>2 DEF SumOf
<1>2. ASSUME NEW y \in K, NEW z \in K, y # z PROVE U[y] \cap U[z] = {}
  <2> SUFFICES ASSUME NEW u \in U[y], u \in U[z] PROVE FALSE
    OBVIOUS
  <2>1. u[1] \in E[y] /\ u[1] \in E[z]
    BY UnitsAre
  <2> QED
    BY <1>2, <2>1
<1>3. \A u : u \in Units(D, f) <=> \E y \in K : u \in U[y]
  <2>1. ASSUME NEW u, NEW y \in K, u \in U[y] PROVE u \in Units(D, f)
    <3>1. u[1] \in E[y] /\ u[2] \in 1..f[u[1]] /\ u = <<u[1], u[2]>>
      BY <2>1, UnitsAre
    <3> QED
      BY <3>1, UnitsAre
  <2>2. ASSUME NEW u \in Units(D, f) PROVE \E y \in K : u \in U[y]
    <3>1. u[1] \in D /\ u[2] \in 1..f[u[1]] /\ u = <<u[1], u[2]>>
      BY UnitsAre
    <3> PICK y \in K : u[1] \in E[y]
      BY <3>1
    <3>2. u \in Units(E[y], f)
      BY <3>1, UnitsAre
    <3>3. u \in U[y]
      BY <3>2
    <3> QED
      BY <3>3
  <2> QED
    BY <2>1, <2>2
<1> HIDE DEF U
<1>4. \A x \in K : IsFiniteSet(U[x]) /\ g[x] = Cardinality(U[x])
  BY <1>1
<1>5. \A x, y \in K : x # y => U[x] \cap U[y] = {}
  BY <1>2
<1> DEFINE V == Units(D, f)
<1>6. \A v : v \in V <=> \E x \in K : v \in U[x]
  BY <1>3
<1> HIDE DEF V
<1>7. SumOf(K, g) = Cardinality(V)
  BY <1>4, <1>5, <1>6, FamilyCounted, SMTT(60)
<1> QED
  BY <1>7 DEF SumOf, V

LEMMA SumOfTerm ==
    ASSUME NEW D, IsFiniteSet(D), NEW x \in D, NEW f, \A y \in D : f[y] \in Nat
    PROVE  SumOf(D, f) = SumOf({x}, f) + SumOf(D \ {x}, f)
<1> DEFINE E == {x}
<1>1. E \in SUBSET D
  OBVIOUS
<1> HIDE DEF E
<1>2. SumOf(D, f) = SumOf(E, f) + SumOf(D \ E, f)
  BY <1>1, SumOfSome
<1> QED
  BY <1>2 DEF E

\* One term is all there is.
LEMMA SumOfSpike ==
    ASSUME NEW D, IsFiniteSet(D), NEW x \in D, NEW f, f[x] \in Nat, \A y \in D : y # x => f[y] = 0
    PROVE  SumOf(D, f) = f[x]
<1>1. \A y \in D : f[y] \in Nat
  OBVIOUS
<1>2. SumOf(D, f) = SumOf({x}, f) + SumOf(D \ {x}, f)
  BY <1>1, SumOfTerm
<1>3. SumOf({x}, f) = f[x]
  BY SumOfOne
<1>4. \A y \in D \ {x} : f[y] = 0
  OBVIOUS
<1>5. SumOf(D \ {x}, f) = 0
  BY <1>4, SumOfNothing
<1> QED
  BY <1>2, <1>3, <1>5

-----------------------------------------------------------------------------
(* Sums of integers: the units of the positive terms less those of the       *)
(* negative ones.                                                            *)

Opposite(D, f) == [x \in D |-> -f[x]]

Signed(D, f) == SumOf(D, f) - SumOf(D, Opposite(D, f))

LEMMA OppositeIs ==
    ASSUME NEW D, NEW f, \A x \in D : f[x] \in Int
    PROVE  \A x \in D : Opposite(D, f)[x] = -f[x] /\ Opposite(D, f)[x] \in Int
<1> SUFFICES ASSUME NEW x \in D PROVE Opposite(D, f)[x] = -f[x] /\ Opposite(D, f)[x] \in Int
  OBVIOUS
<1> DEFINE n == f[x]
<1>1. n \in Int /\ Opposite(D, f)[x] = -n
  BY DEF Opposite
<1> HIDE DEF n
<1>2. -n \in Int
  BY <1>1
<1> QED
  BY <1>1, <1>2 DEF n

\* Only the positive terms of a function have units.
LEMMA PositiveUnits ==
    ASSUME NEW D, NEW f, NEW g,
           \A x \in D : f[x] \in Int /\ g[x] = IF f[x] > 0 THEN f[x] ELSE 0
    PROVE  SumOf(D, f) = SumOf(D, g)
<1>1. \A x \in D : 1..f[x] = 1..g[x]
  <2> SUFFICES ASSUME NEW x \in D PROVE 1..f[x] = 1..g[x]
    OBVIOUS
  <2> DEFINE n == f[x]
             m == g[x]
  <2>1. n \in Int /\ m = IF n > 0 THEN n ELSE 0
    OBVIOUS
  <2> HIDE DEF n, m
  <2>2. 1..n = 1..m
    BY <2>1
  <2> QED
    BY <2>2 DEF n, m
<1>2. Units(D, f) = Units(D, g)
  BY <1>1 DEF Units
<1> QED
  BY <1>2 DEF SumOf

Above(D, f) == [x \in D |-> IF f[x] > 0 THEN f[x] ELSE 0]
Below(D, f) == [x \in D |-> IF f[x] < 0 THEN -f[x] ELSE 0]

LEMMA SignedParts ==
    ASSUME NEW D, IsFiniteSet(D), NEW f, \A x \in D : f[x] \in Int
    PROVE  /\ \A x \in D : /\ Above(D, f)[x] \in Nat /\ Below(D, f)[x] \in Nat
                           /\ f[x] = Above(D, f)[x] - Below(D, f)[x]
           /\ SumOf(D, Above(D, f)) \in Nat /\ SumOf(D, Below(D, f)) \in Nat
           /\ Signed(D, f) = SumOf(D, Above(D, f)) - SumOf(D, Below(D, f))
<1>1. ASSUME NEW x \in D
      PROVE  /\ Above(D, f)[x] = IF f[x] > 0 THEN f[x] ELSE 0
             /\ Below(D, f)[x] = IF f[x] < 0 THEN -f[x] ELSE 0
             /\ Opposite(D, f)[x] = -f[x] /\ f[x] \in Int
  BY DEF Above, Below, Opposite
<1>2. ASSUME NEW n \in Int
      PROVE  /\ (IF n > 0 THEN n ELSE 0) \in Nat /\ (IF n < 0 THEN -n ELSE 0) \in Nat
             /\ n = (IF n > 0 THEN n ELSE 0) - (IF n < 0 THEN -n ELSE 0)
             /\ -n \in Int
             /\ (IF n < 0 THEN -n ELSE 0) = IF -n > 0 THEN -n ELSE 0
  OBVIOUS
<1>3. ASSUME NEW x \in D
      PROVE  /\ Above(D, f)[x] \in Nat /\ Below(D, f)[x] \in Nat
             /\ f[x] = Above(D, f)[x] - Below(D, f)[x]
             /\ Opposite(D, f)[x] \in Int
             /\ Below(D, f)[x] = IF Opposite(D, f)[x] > 0 THEN Opposite(D, f)[x] ELSE 0
  <2> DEFINE n == f[x]
  <2>1. n \in Int /\ Above(D, f)[x] = (IF n > 0 THEN n ELSE 0)
        /\ Below(D, f)[x] = (IF n < 0 THEN -n ELSE 0) /\ Opposite(D, f)[x] = -n
    BY <1>1
  <2> HIDE DEF n
  <2>2. /\ Above(D, f)[x] \in Nat /\ Below(D, f)[x] \in Nat
        /\ n = Above(D, f)[x] - Below(D, f)[x]
        /\ Opposite(D, f)[x] \in Int
        /\ Below(D, f)[x] = IF Opposite(D, f)[x] > 0 THEN Opposite(D, f)[x] ELSE 0
    BY <1>2, <2>1
  <2> QED
    BY <2>2 DEF n
<1>4. SumOf(D, f) = SumOf(D, Above(D, f))
  <2>1. \A x \in D : f[x] \in Int /\ Above(D, f)[x] = IF f[x] > 0 THEN f[x] ELSE 0
    BY <1>1
  <2> QED
    BY <2>1, PositiveUnits
<1>5. SumOf(D, Opposite(D, f)) = SumOf(D, Below(D, f))
  <2>1. \A x \in D : /\ Opposite(D, f)[x] \in Int
                     /\ Below(D, f)[x] = IF Opposite(D, f)[x] > 0 THEN Opposite(D, f)[x] ELSE 0
    BY <1>3
  <2> QED
    BY <2>1, PositiveUnits
<1>6. SumOf(D, Above(D, f)) \in Nat /\ SumOf(D, Below(D, f)) \in Nat
  <2>1. (\A x \in D : Above(D, f)[x] \in Nat) /\ (\A x \in D : Below(D, f)[x] \in Nat)
    BY <1>3
  <2> QED
    BY <2>1, SumTyped
<1> QED
  BY <1>3, <1>4, <1>5, <1>6 DEF Signed

LEMMA SignedTyped ==
    ASSUME NEW D, IsFiniteSet(D), NEW f, \A x \in D : f[x] \in Int
    PROVE  Signed(D, f) \in Int
<1>1. /\ SumOf(D, Above(D, f)) \in Nat /\ SumOf(D, Below(D, f)) \in Nat
      /\ Signed(D, f) = SumOf(D, Above(D, f)) - SumOf(D, Below(D, f))
  BY SignedParts
<1> QED
  BY <1>1

\* Any way to write the terms as differences of naturals gives the sum.
LEMMA SignedDifference ==
    ASSUME NEW D, IsFiniteSet(D), NEW f, NEW g, NEW h,
           \A x \in D : f[x] \in Nat /\ g[x] \in Nat /\ h[x] = f[x] - g[x]
    PROVE  /\ Signed(D, h) = SumOf(D, f) - SumOf(D, g)
           /\ SumOf(D, f) \in Nat /\ SumOf(D, g) \in Nat
<1> DEFINE a == Above(D, h)
           b == Below(D, h)
           s == [x \in D |-> a[x] + g[x]]
<1>1. \A x \in D : h[x] \in Int
  OBVIOUS
<1>2. /\ \A x \in D : a[x] \in Nat /\ b[x] \in Nat /\ h[x] = a[x] - b[x]
      /\ SumOf(D, a) \in Nat /\ SumOf(D, b) \in Nat
      /\ Signed(D, h) = SumOf(D, a) - SumOf(D, b)
  BY <1>1, SignedParts
<1> HIDE DEF a, b
<1>3. \A x \in D : a[x] \in Nat /\ g[x] \in Nat /\ s[x] = a[x] + g[x]
  BY <1>2
<1>4. \A x \in D : f[x] \in Nat /\ b[x] \in Nat /\ s[x] = f[x] + b[x]
  <2>1. \A i, j, m, n, k \in Int : k = i - j /\ k = m - n => i + n = m + j
    OBVIOUS
  <2> QED
    BY <1>2, <2>1
<1> HIDE DEF s
<1>5. SumOf(D, s) = SumOf(D, a) + SumOf(D, g)
  BY <1>3, SumAdded
<1>6. SumOf(D, s) = SumOf(D, f) + SumOf(D, b)
  BY <1>4, SumAdded
<1>7. SumOf(D, f) \in Nat /\ SumOf(D, g) \in Nat
  BY SumTyped
<1> QED
  BY <1>2, <1>5, <1>6, <1>7

\* The sum of sums, of integers.
LEMMA SignedAdded ==
    ASSUME NEW D, IsFiniteSet(D), NEW f, NEW g, NEW h,
           \A x \in D : f[x] \in Int /\ g[x] \in Int /\ h[x] = f[x] + g[x]
    PROVE  Signed(D, h) = Signed(D, f) + Signed(D, g)
<1> DEFINE a == Above(D, f)
           b == Below(D, f)
           k == Above(D, g)
           l == Below(D, g)
           s == [x \in D |-> a[x] + k[x]]
           t == [x \in D |-> b[x] + l[x]]
<1>1. /\ \A x \in D : a[x] \in Nat /\ b[x] \in Nat /\ f[x] = a[x] - b[x]
      /\ SumOf(D, a) \in Nat /\ SumOf(D, b) \in Nat
      /\ Signed(D, f) = SumOf(D, a) - SumOf(D, b)
  BY SignedParts
<1>2. /\ \A x \in D : k[x] \in Nat /\ l[x] \in Nat /\ g[x] = k[x] - l[x]
      /\ SumOf(D, k) \in Nat /\ SumOf(D, l) \in Nat
      /\ Signed(D, g) = SumOf(D, k) - SumOf(D, l)
  BY SignedParts
<1> HIDE DEF a, b, k, l
<1>3. \A x \in D : a[x] \in Nat /\ k[x] \in Nat /\ s[x] = a[x] + k[x]
  BY <1>1, <1>2
<1>4. \A x \in D : b[x] \in Nat /\ l[x] \in Nat /\ t[x] = b[x] + l[x]
  BY <1>1, <1>2
<1> HIDE DEF s, t
<1>5. \A x \in D : s[x] \in Nat /\ t[x] \in Nat /\ h[x] = s[x] - t[x]
  <2>1. \A i, j, m, n \in Nat : i + m \in Nat /\ j + n \in Nat /\ (i - j) + (m - n) = (i + m) - (j + n)
    OBVIOUS
  <2> QED
    BY <1>1, <1>2, <1>3, <1>4, <2>1
<1>6. Signed(D, h) = SumOf(D, s) - SumOf(D, t)
  BY <1>5, SignedDifference
<1>7. SumOf(D, s) = SumOf(D, a) + SumOf(D, k)
  BY <1>3, SumAdded
<1>8. SumOf(D, t) = SumOf(D, b) + SumOf(D, l)
  BY <1>4, SumAdded
<1> QED
  BY <1>1, <1>2, <1>6, <1>7, <1>8

LEMMA SignedOfNats ==
    ASSUME NEW D, IsFiniteSet(D), NEW f, \A x \in D : f[x] \in Nat
    PROVE  Signed(D, f) = SumOf(D, f) /\ Signed(D, Opposite(D, f)) = -SumOf(D, f)
<1> DEFINE z == [x \in D |-> 0]
           n == Opposite(D, f)
<1>1. \A x \in D : /\ f[x] \in Nat /\ z[x] \in Nat /\ f[x] = f[x] - z[x]
                   /\ n[x] = z[x] - f[x]
  BY DEF Opposite
<1>2. SumOf(D, z) = 0
  BY SumOfNothing
<1> HIDE DEF z, n
<1>3. Signed(D, f) = SumOf(D, f) - SumOf(D, z) /\ SumOf(D, f) \in Nat
  BY <1>1, SignedDifference
<1>4. Signed(D, n) = SumOf(D, z) - SumOf(D, f)
  BY <1>1, SignedDifference
<1>5. Signed(D, f) = SumOf(D, f) /\ Signed(D, n) = -SumOf(D, f)
  BY <1>2, <1>3, <1>4
<1> QED
  BY <1>5 DEF n

LEMMA SignedAgrees ==
    ASSUME NEW D, NEW f, NEW g, \A x \in D : f[x] = g[x]
    PROVE  Signed(D, f) = Signed(D, g)
<1>1. Opposite(D, f) = Opposite(D, g)
  BY DEF Opposite
<1> QED
  BY <1>1, SumAgrees DEF Signed

\* One term is all there is, of integers.
LEMMA SignedSpike ==
    ASSUME NEW D, IsFiniteSet(D), NEW x \in D, NEW f, f[x] \in Int, \A y \in D : y # x => f[y] = 0
    PROVE  Signed(D, f) = f[x]
<1> DEFINE a == Above(D, f)
           b == Below(D, f)
<1>1. \A y \in D : f[y] \in Int
  OBVIOUS
<1>2. /\ a[x] \in Nat /\ b[x] \in Nat /\ f[x] = a[x] - b[x]
      /\ Signed(D, f) = SumOf(D, a) - SumOf(D, b)
  BY <1>1, SignedParts
<1>3. \A y \in D : y # x => a[y] = 0 /\ b[y] = 0
  BY DEF Above, Below
<1> HIDE DEF a, b
<1>4. SumOf(D, a) = a[x] /\ SumOf(D, b) = b[x]
  BY <1>2, <1>3, SumOfSpike
<1> QED
  BY <1>2, <1>4

LEMMA MinusZero == \A n \in Int : n = 0 => -n = 0
<1> SUFFICES ASSUME NEW n \in Int, n = 0 PROVE -n = 0
  OBVIOUS
<1> DEFINE m == -n
<1>1. m \in Int /\ ~ (m > 0) /\ ~ (m < 0)
  OBVIOUS
<1> HIDE DEF m
<1>2. m = 0
  BY <1>1
<1> QED
  BY <1>2 DEF m

\* Terms that are zero may be left out.
LEMMA SignedOfSome ==
    ASSUME NEW D, NEW E \in SUBSET D, NEW f, NEW g,
           \A x \in E : f[x] = g[x], \A x \in D \ E : g[x] = 0
    PROVE  Signed(E, f) = Signed(D, g)
<1>1. ASSUME NEW h, NEW k, \A x \in E : h[x] = k[x], \A x \in D \ E : k[x] = 0
      PROVE  SumOf(E, h) = SumOf(D, k)
  <2>1. \A u : u \in Units(E, h) <=> u \in Units(D, k)
    <3> TAKE u
    <3>1. u \in Units(E, h) <=> u[1] \in E /\ u[2] \in 1..h[u[1]] /\ u = <<u[1], u[2]>>
      BY UnitsAre
    <3>2. u \in Units(D, k) <=> u[1] \in D /\ u[2] \in 1..k[u[1]] /\ u = <<u[1], u[2]>>
      BY UnitsAre
    <3>3. u[1] \in D \ E => ~ (u[2] \in 1..k[u[1]])
      BY <1>1
    <3> QED
      BY <1>1, <3>1, <3>2, <3>3
  <2>2. Units(E, h) = Units(D, k)
    BY <2>1
  <2> QED
    BY <2>2 DEF SumOf
<1> DEFINE F == Opposite(E, f)
           G == Opposite(D, g)
<1>2. \A x \in E : F[x] = G[x]
  BY DEF Opposite
<1>3. \A x \in D \ E : G[x] = 0
  <2>1. \A n \in Int : n = 0 => -n = 0
    BY MinusZero
  <2>2. \A x \in D \ E : g[x] \in Int /\ G[x] = -g[x]
    BY DEF Opposite
  <2> QED
    BY <2>1, <2>2
<1> HIDE DEF F, G
<1>4. SumOf(E, f) = SumOf(D, g)
  BY <1>1
<1>5. SumOf(E, F) = SumOf(D, G)
  BY <1>1, <1>2, <1>3
<1> QED
  BY <1>4, <1>5 DEF Signed, F, G

=============================================================================
