---------------------------- MODULE SumTheorems -----------------------------
(***************************************************************************)
(* What the totals of Sums obey, for every finite table.                   *)
(***************************************************************************)
EXTENDS Sums, FiniteSetTheorems, TLAPS

\* The units of a finite table form a finite set, so SumOf is a natural.
LEMMA UnitsFinite ==
  ASSUME NEW S, IsFiniteSet(S), NEW f \in [S -> Nat]
  PROVE  /\ IsFiniteSet(UNION {Units(f, x) : x \in S})
         /\ SumOf(f) \in Nat
<1> DEFINE T == {Units(f, x) : x \in S}
           g == [x \in S |-> Units(f, x)]
<1>1. g \in Surjection(S, T)
  BY DEF Surjection
<1>2. IsFiniteSet(T)
  BY <1>1, FS_Surjection
<1>3. \A u \in T : IsFiniteSet(u)
  <2> SUFFICES ASSUME NEW x \in S PROVE IsFiniteSet(Units(f, x))
    OBVIOUS
  <2>1. IsFiniteSet(1 .. f[x])
    BY FS_Interval
  <2>2. IsFiniteSet({x})
    BY FS_Singleton
  <2> QED
    BY <2>1, <2>2, FS_Product DEF Units
<1>4. IsFiniteSet(UNION T)
  BY <1>2, <1>3, FS_UNION
<1> QED
  BY <1>4, FS_CardinalityType DEF SumOf

(***************************************************************************)
(* A table that is the pointwise sum of two tables has the sum of their    *)
(* totals.  The units of f above those of g are counted by h.              *)
(***************************************************************************)
LEMMA SumAdds ==
  ASSUME NEW S, IsFiniteSet(S), NEW f \in [S -> Nat], NEW g \in [S -> Nat],
         NEW h \in [S -> Nat], \A x \in S : f[x] = g[x] + h[x]
  PROVE  SumOf(f) = SumOf(g) + SumOf(h)
<1> DEFINE F == UNION {Units(f, x) : x \in S}
           G == UNION {Units(g, x) : x \in S}
           H == UNION {Units(h, x) : x \in S}
           D == {u \in F : u[2] > g[u[1]]}
           shift == [u \in H |-> <<u[1], u[2] + g[u[1]]>>]
<1>1. /\ IsFiniteSet(G) /\ IsFiniteSet(H) /\ IsFiniteSet(F)
  BY UnitsFinite
<1>2. \A u : u \in F <=> \E x \in S : \E i \in 1 .. f[x] : u = <<x, i>>
  BY DEF Units
<1>3. \A u : u \in G <=> \E x \in S : \E i \in 1 .. g[x] : u = <<x, i>>
  BY DEF Units
<1>4. \A u : u \in H <=> \E x \in S : \E i \in 1 .. h[x] : u = <<x, i>>
  BY DEF Units
<1> HIDE DEF F, G, H
<1>5. shift \in [H -> D]
  <2> SUFFICES ASSUME NEW u \in H
               PROVE  <<u[1], u[2] + g[u[1]]>> \in D
    OBVIOUS
  <2>1. PICK x \in S, i \in Nat : i \in 1 .. h[x] /\ u = <<x, i>>
    BY <1>4
  <2>2. i + g[x] \in 1 .. f[x] /\ i + g[x] > g[x]
    BY <2>1
  <2>3. <<x, i + g[x]>> \in F
    BY <1>2, <2>2
  <2> QED
    BY <2>1, <2>2, <2>3
<1>6. shift \in Injection(H, D)
  <2> SUFFICES ASSUME NEW u \in H, NEW v \in H, shift[u] = shift[v]
               PROVE  u = v
    BY <1>5 DEF Injection, IsInjective
  <2>1. PICK x \in S, i \in Nat : i \in 1 .. h[x] /\ u = <<x, i>>
    BY <1>4
  <2>2. PICK y \in S, j \in Nat : j \in 1 .. h[y] /\ v = <<y, j>>
    BY <1>4
  <2>3. x = y /\ i + g[x] = j + g[y]
    BY <2>1, <2>2
  <2>4. i = j
    BY <2>3
  <2> QED
    BY <2>1, <2>2, <2>3, <2>4
<1>7. shift \in Surjection(H, D)
  <2> SUFFICES ASSUME NEW d \in D PROVE \E u \in H : shift[u] = d
    BY <1>5 DEF Surjection
  <2>1. PICK x \in S, i \in Nat : i \in 1 .. f[x] /\ d = <<x, i>>
    BY <1>2
  <2>2. i > g[x]
    BY <2>1
  <2>3. i - g[x] \in 1 .. h[x]
    BY <2>1, <2>2
  <2>4. <<x, i - g[x]>> \in H
    BY <1>4, <2>3
  <2> QED
    BY <2>1, <2>4
<1>8. IsFiniteSet(D) /\ Cardinality(D) = Cardinality(H)
  <2>1. shift \in Bijection(H, D)
    BY <1>6, <1>7 DEF Bijection
  <2> QED
    BY <2>1, <1>1, FS_Bijection DEF ExistsBijection
<1>9. F = G \cup D
  <2>1. ASSUME NEW u \in F PROVE u \in G \cup D
    <3>1. PICK x \in S, i \in Nat : i \in 1 .. f[x] /\ u = <<x, i>>
      BY <1>2
    <3>2. CASE i > g[x]
      BY <3>1, <3>2
    <3>3. CASE ~(i > g[x])
      <4>1. i \in 1 .. g[x]
        BY <3>1, <3>3
      <4> QED
        BY <4>1, <3>1, <1>3
    <3> QED
      BY <3>2, <3>3
  <2>2. ASSUME NEW u \in G PROVE u \in F
    <3>1. PICK x \in S, i \in Nat : i \in 1 .. g[x] /\ u = <<x, i>>
      BY <1>3
    <3>2. i \in 1 .. f[x]
      BY <3>1
    <3> QED
      BY <3>1, <3>2, <1>2
  <2> QED
    BY <2>1, <2>2
<1>10. G \cap D = {}
  <2> SUFFICES ASSUME NEW u \in G, u \in D PROVE FALSE
    OBVIOUS
  <2>1. PICK x \in S, i \in Nat : i \in 1 .. g[x] /\ u = <<x, i>>
    BY <1>3
  <2> QED
    BY <2>1
<1>11. Cardinality(F) = Cardinality(G) + Cardinality(H)
  <2>1. Cardinality(G \cap D) = 0
    BY <1>10, FS_EmptySet
  <2>2. Cardinality(G) \in Nat /\ Cardinality(H) \in Nat
    BY <1>1, FS_CardinalityType
  <2>3. Cardinality(G \cup D) = Cardinality(G) + Cardinality(D) - Cardinality(G \cap D)
    BY <1>1, <1>8, FS_Union
  <2> HIDE DEF D
  <2> QED
    BY <2>1, <2>2, <2>3, <1>8, <1>9
<1> QED
  BY <1>11 DEF SumOf, F, G, H

\* A table that is nowhere larger has a total that is not larger.
LEMMA SumMonotone ==
  ASSUME NEW S, IsFiniteSet(S), NEW f \in [S -> Nat], NEW g \in [S -> Nat],
         \A x \in S : g[x] <= f[x]
  PROVE  SumOf(g) <= SumOf(f)
<1> DEFINE h == [x \in S |-> f[x] - g[x]]
<1>1. h \in [S -> Nat]
  OBVIOUS
<1>2. \A x \in S : f[x] = g[x] + h[x]
  OBVIOUS
<1>3. SumOf(f) = SumOf(g) + SumOf(h)
  BY <1>1, <1>2, SumAdds
<1>4. SumOf(f) \in Nat /\ SumOf(g) \in Nat /\ SumOf(h) \in Nat
  BY <1>1, UnitsFinite
<1> QED
  BY <1>3, <1>4

\* Zero is the only number that is twice itself.
LEMMA TwiceItself ==
  ASSUME NEW n \in Nat, n = n + n
  PROVE  n = 0
OBVIOUS

\* A table of zeros adds up to nothing.
LEMMA SumZero ==
  ASSUME NEW S, IsFiniteSet(S), NEW f \in [S -> Nat], \A x \in S : f[x] = 0
  PROVE  SumOf(f) = 0
<1>1. \A x \in S : f[x] = f[x] + f[x]
  OBVIOUS
<1>2. SumOf(f) = SumOf(f) + SumOf(f)
  BY ONLY IsFiniteSet(S), f \in [S -> Nat], <1>1, SumAdds
<1>3. SumOf(f) \in Nat
  BY UnitsFinite
<1> QED
  BY ONLY <1>2, <1>3, TwiceItself

\* A table with one row that counts adds up to that row.
LEMMA SumSingle ==
  ASSUME NEW S, IsFiniteSet(S), NEW f \in [S -> Nat], NEW x \in S, \A y \in S : y # x => f[y] = 0
  PROVE  SumOf(f) = f[x]
<1>1. UNION {Units(f, y) : y \in S} = {x} \X (1 .. f[x])
  <2>1. ASSUME NEW y \in S, y # x PROVE Units(f, y) = {}
    BY <2>1 DEF Units
  <2> QED
    BY <2>1 DEF Units
<1>2. f[x] \in Nat
  OBVIOUS
<1>3. IsFiniteSet({x}) /\ Cardinality({x}) = 1
  BY FS_Singleton
<1>4. IsFiniteSet(1 .. f[x]) /\ Cardinality(1 .. f[x]) = f[x]
  BY <1>2, FS_Interval
<1>5. ASSUME NEW T, IsFiniteSet(T), Cardinality(T) = f[x]
      PROVE  Cardinality({x} \X T) = f[x]
  <2>1. Cardinality({x} \X T) = Cardinality({x}) * Cardinality(T)
    BY ONLY <1>3, <1>5, FS_Product
  <2> QED
    BY <2>1, <1>2, <1>3, <1>5
<1>6. Cardinality({x} \X (1 .. f[x])) = f[x]
  BY ONLY <1>4, <1>5
<1>7. UNION {Units(f, y) : y \in DOMAIN f} = {x} \X (1 .. f[x])
  BY <1>1
<1> QED
  BY ONLY <1>6, <1>7 DEF SumOf

\* Two tables that differ in one row have totals that differ by that row.
LEMMA SumReplaced ==
  ASSUME NEW S, IsFiniteSet(S), NEW f \in [S -> Nat], NEW g \in [S -> Nat], NEW x \in S,
         \A y \in S : y # x => g[y] = f[y]
  PROVE  SumOf(g) + f[x] = SumOf(f) + g[x]
<1> DEFINE rest == [y \in S |-> IF y = x THEN 0 ELSE f[y]]
           old == [y \in S |-> IF y = x THEN f[x] ELSE 0]
           new == [y \in S |-> IF y = x THEN g[x] ELSE 0]
<1>1. rest \in [S -> Nat] /\ old \in [S -> Nat] /\ new \in [S -> Nat]
  OBVIOUS
<1>2. SumOf(old) = f[x] /\ SumOf(new) = g[x]
  <2>1. \A y \in S : y # x => old[y] = 0 /\ new[y] = 0
    OBVIOUS
  <2>2. old[x] = f[x] /\ new[x] = g[x]
    OBVIOUS
  <2> HIDE DEF old, new
  <2> QED
    BY <1>1, <2>1, <2>2, SumSingle
<1>3. \A y \in S : f[y] = rest[y] + old[y] /\ g[y] = rest[y] + new[y]
  OBVIOUS
<1> HIDE DEF rest, old, new
<1>4. SumOf(f) = SumOf(rest) + SumOf(old)
  BY <1>1, <1>3, SumAdds
<1>5. SumOf(g) = SumOf(rest) + SumOf(new)
  BY <1>1, <1>3, SumAdds
<1>6. SumOf(rest) \in Nat /\ f[x] \in Nat /\ g[x] \in Nat
  BY <1>1, UnitsFinite
<1> QED
  BY <1>2, <1>4, <1>5, <1>6

\* Rows that add nothing may be left out of a total.
LEMMA SumExtended ==
  ASSUME NEW S, NEW T \in SUBSET S, NEW f \in [S -> Nat], NEW g \in [T -> Nat],
         \A x \in T : f[x] = g[x], \A x \in S \ T : f[x] = 0
  PROVE  SumOf(f) = SumOf(g)
<1>1. \A x \in T : Units(f, x) = Units(g, x)
  BY DEF Units
<1>2. \A x \in S \ T : Units(f, x) = {}
  BY DEF Units
<1>3. UNION {Units(f, x) : x \in S} = UNION {Units(g, x) : x \in T}
  BY <1>1, <1>2
<1>4. DOMAIN f = S /\ DOMAIN g = T
  OBVIOUS
<1> QED
  BY <1>3, <1>4 DEF SumOf
=============================================================================
