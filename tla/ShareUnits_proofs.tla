------------------------- MODULE ShareUnits_proofs -------------------------
(***************************************************************************)
(* Facts about Total, the sum of a function's values.  All rest on two:    *)
(* the units of a pointwise sum are the units of one summand and a shifted *)
(* copy of the units of the other, and the units of a function that is     *)
(* zero but at one point are an interval.  Then what Picked picks, which   *)
(* rests on the k-th position of a set of positions being there.           *)
(***************************************************************************)
EXTENDS ShareUnits, FunctionTheorems, FiniteSetTheorems, SequenceTheorems, WellFoundedInduction, TLAPS

(* The units of f are the pairs <<a, i>> with i in 1..f[a]. *)
LEMMA UnitsMembers ==
  ASSUME NEW S, NEW f \in [S -> Nat]
  PROVE  \A u : u \in Units(f) <=> \E a \in S : \E i \in 1..f[a] : u = <<a, i>>
BY DEF Units

(* A function on a finite set has finitely many units. *)
LEMMA UnitsFinite ==
  ASSUME NEW S, IsFiniteSet(S), NEW f \in [S -> Nat]
  PROVE  IsFiniteSet(Units(f))
<1> DEFINE column == [a \in S |-> {a} \X (1..f[a])]
           Columns == {column[a] : a \in S}
<1>1. column \in Surjection(S, Columns)
  BY Fun_IsSurj
<1>2. IsFiniteSet(Columns)
  BY <1>1, FS_Surjection
<1>3. ASSUME NEW a \in S PROVE IsFiniteSet({a} \X (1..f[a]))
  <2>1. IsFiniteSet({a})
    BY FS_Singleton
  <2>2. f[a] \in Int
    OBVIOUS
  <2>3. IsFiniteSet(1..f[a])
    BY <2>2, FS_Interval
  <2> QED BY <2>1, <2>3, FS_Product
<1>4. \A T \in Columns : IsFiniteSet(T)
  BY <1>3
<1>5. IsFiniteSet(UNION Columns)
  BY <1>2, <1>4, FS_UNION
<1>6. Units(f) = UNION Columns
  BY DEF Units
<1> QED BY <1>5, <1>6

(* Total is a natural number. *)
THEOREM TotalNat ==
  ASSUME NEW S, IsFiniteSet(S), NEW f \in [S -> Nat]
  PROVE  Total(f) \in Nat
BY UnitsFinite, FS_CardinalityType DEF Total

(* Total distributes over pointwise addition: h is f + g. *)
THEOREM TotalAdd ==
  ASSUME NEW S, IsFiniteSet(S),
         NEW f \in [S -> Nat], NEW g \in [S -> Nat], NEW h \in [S -> Nat],
         \A a \in S : h[a] = f[a] + g[a]
  PROVE  Total(h) = Total(f) + Total(g)
<1> DEFINE shift == [u \in Units(g) |-> <<u[1], f[u[1]] + u[2]>>]
           Shifted == {shift[u] : u \in Units(g)}
<1>1. IsFiniteSet(Units(f)) /\ IsFiniteSet(Units(g))
  BY UnitsFinite
<1>2. ASSUME NEW u \in Units(g)
      PROVE  \E a \in S : \E i \in 1..g[a] : u = <<a, i>> /\ shift[u] = <<a, f[a] + i>>
  BY UnitsMembers
<1>3. shift \in Bijection(Units(g), Shifted)
  <2>1. shift \in [Units(g) -> Shifted]
    OBVIOUS
  <2>2. ASSUME NEW u \in Units(g), NEW v \in Units(g), shift[u] = shift[v]
        PROVE  u = v
    <3>1. PICK a \in S : \E i \in 1..g[a] : u = <<a, i>> /\ shift[u] = <<a, f[a] + i>>
      BY <1>2
    <3>2. PICK i \in 1..g[a] : u = <<a, i>> /\ shift[u] = <<a, f[a] + i>>
      BY <3>1
    <3>3. PICK b \in S : \E j \in 1..g[b] : v = <<b, j>> /\ shift[v] = <<b, f[b] + j>>
      BY <1>2
    <3>4. PICK j \in 1..g[b] : v = <<b, j>> /\ shift[v] = <<b, f[b] + j>>
      BY <3>3
    <3>5. a = b /\ f[a] + i = f[b] + j
      BY <2>2, <3>2, <3>4
    <3>6. f[a] \in Nat /\ i \in Nat /\ j \in Nat
      BY <3>5
    <3> QED BY <3>2, <3>4, <3>5, <3>6
  <2>3. \A t \in Shifted : \E u \in Units(g) : shift[u] = t
    OBVIOUS
  <2> QED BY <2>1, <2>2, <2>3, Fun_IsBij
<1>4. IsFiniteSet(Shifted) /\ Cardinality(Shifted) = Cardinality(Units(g))
  BY <1>1, <1>3, FS_Bijection DEF ExistsBijection
<1>5. ASSUME NEW u PROVE u \in Shifted <=> \E a \in S : \E i \in 1..g[a] : u = <<a, f[a] + i>>
  <2>1. ASSUME u \in Shifted PROVE \E a \in S : \E i \in 1..g[a] : u = <<a, f[a] + i>>
    BY <2>1, <1>2
  <2>2. ASSUME NEW a \in S, NEW i \in 1..g[a], u = <<a, f[a] + i>> PROVE u \in Shifted
    <3>1. <<a, i>> \in Units(g)
      BY UnitsMembers
    <3>2. shift[<<a, i>>] = <<a, f[a] + i>>
      BY <3>1
    <3> QED BY <2>2, <3>1, <3>2
  <2> QED BY <2>1, <2>2
<1>6. Units(f) \cap Shifted = {}
  <2> SUFFICES ASSUME NEW u \in Units(f), u \in Shifted PROVE FALSE
    OBVIOUS
  <2>1. PICK a \in S : \E i \in 1..f[a] : u = <<a, i>>
    BY UnitsMembers
  <2>2. PICK i \in 1..f[a] : u = <<a, i>>
    BY <2>1
  <2>3. PICK b \in S : \E j \in 1..g[b] : u = <<b, f[b] + j>>
    BY <1>5
  <2>4. PICK j \in 1..g[b] : u = <<b, f[b] + j>>
    BY <2>3
  <2>5. a = b /\ i = f[b] + j /\ f[b] \in Nat /\ g[b] \in Nat
    BY <2>2, <2>4
  <2> QED BY <2>5
<1>7. Units(h) = Units(f) \cup Shifted
  <2>1. ASSUME NEW u PROVE u \in Units(h) <=> u \in Units(f) \cup Shifted
    <3>1. ASSUME u \in Units(h) PROVE u \in Units(f) \cup Shifted
      <4>1. PICK a \in S : \E i \in 1..h[a] : u = <<a, i>>
        BY <3>1, UnitsMembers
      <4>2. PICK i \in 1..h[a] : u = <<a, i>>
        BY <4>1
      <4>3. h[a] = f[a] + g[a] /\ f[a] \in Nat /\ g[a] \in Nat /\ i \in Nat
        OBVIOUS
      <4>4. CASE i <= f[a]
        <5>1. i \in 1..f[a]
          BY <4>3, <4>4
        <5> QED BY <4>2, <5>1, UnitsMembers
      <4>5. CASE i > f[a]
        <5>1. i - f[a] \in 1..g[a] /\ i = f[a] + (i - f[a])
          BY <4>3, <4>5
        <5> QED BY <4>2, <5>1, <1>5
      <4> QED BY <4>3, <4>4, <4>5
    <3>2. ASSUME u \in Units(f) PROVE u \in Units(h)
      <4>1. PICK a \in S : \E i \in 1..f[a] : u = <<a, i>>
        BY <3>2, UnitsMembers
      <4>2. PICK i \in 1..f[a] : u = <<a, i>>
        BY <4>1
      <4>3. i \in 1..h[a]
        <5>1. h[a] = f[a] + g[a] /\ f[a] \in Nat /\ g[a] \in Nat
          OBVIOUS
        <5> QED BY <5>1
      <4> QED BY <4>2, <4>3, UnitsMembers
    <3>3. ASSUME u \in Shifted PROVE u \in Units(h)
      <4>1. PICK a \in S : \E i \in 1..g[a] : u = <<a, f[a] + i>>
        BY <3>3, <1>5
      <4>2. PICK i \in 1..g[a] : u = <<a, f[a] + i>>
        BY <4>1
      <4>3. f[a] + i \in 1..h[a]
        <5>1. h[a] = f[a] + g[a] /\ f[a] \in Nat /\ g[a] \in Nat
          OBVIOUS
        <5> QED BY <5>1
      <4> QED BY <4>2, <4>3, UnitsMembers
    <3> QED BY <3>1, <3>2, <3>3
  <2> QED BY <2>1
<1>8. Cardinality(Units(f) \cup Shifted) =
        Cardinality(Units(f)) + Cardinality(Shifted) - Cardinality(Units(f) \cap Shifted)
  BY <1>1, <1>4, FS_Union
<1>9. Cardinality(Units(f) \cap Shifted) = 0
  BY <1>6, FS_EmptySet
<1>10. Cardinality(Units(f)) \in Nat /\ Cardinality(Shifted) \in Nat
  BY <1>1, <1>4, FS_CardinalityType
<1> QED BY <1>4, <1>7, <1>8, <1>9, <1>10 DEF Total

(* A function that is zero everywhere but at b sums to its value there. *)
THEOREM TotalPoint ==
  ASSUME NEW S, IsFiniteSet(S), NEW b \in S, NEW f \in [S -> Nat],
         \A a \in S : a # b => f[a] = 0
  PROVE  Total(f) = f[b]
<1> DEFINE pick == [i \in 1..f[b] |-> <<b, i>>]
<1>1. ASSUME NEW u PROVE u \in Units(f) <=> \E i \in 1..f[b] : u = <<b, i>>
  <2>1. ASSUME u \in Units(f) PROVE \E i \in 1..f[b] : u = <<b, i>>
    <3>1. PICK a \in S : \E i \in 1..f[a] : u = <<a, i>>
      BY <2>1, UnitsMembers
    <3>2. a = b
      <4>1. f[a] # 0
        BY <3>1
      <4> QED BY <4>1
    <3> QED BY <3>1, <3>2
  <2> QED BY <2>1, UnitsMembers
<1>2. pick \in Bijection(1..f[b], Units(f))
  <2>1. pick \in [1..f[b] -> Units(f)]
    BY <1>1
  <2>2. \A i, j \in 1..f[b] : pick[i] = pick[j] => i = j
    OBVIOUS
  <2>3. \A u \in Units(f) : \E i \in 1..f[b] : pick[i] = u
    BY <1>1
  <2> QED BY <2>1, <2>2, <2>3, Fun_IsBij
<1>3. ExistsBijection(1..f[b], Units(f))
  BY <1>2 DEF ExistsBijection
<1> QED BY <1>3, FS_CountingElements DEF Total

(* A function that is zero everywhere sums to zero. *)
THEOREM TotalZero ==
  ASSUME NEW S, NEW f \in [S -> Nat], \A a \in S : f[a] = 0
  PROVE  Total(f) = 0
<1>1. Units(f) = {}
  BY UnitsMembers
<1> QED BY <1>1, FS_EmptySet DEF Total

(* Raising one value by n raises the sum by n. *)
THEOREM TotalRaise ==
  ASSUME NEW S, IsFiniteSet(S), NEW b \in S, NEW n \in Nat,
         NEW f \in [S -> Nat], NEW g \in [S -> Nat],
         g[b] = f[b] + n, \A a \in S : a # b => g[a] = f[a]
  PROVE  Total(g) = Total(f) + n
<1> DEFINE point == [a \in S |-> IF a = b THEN n ELSE 0]
<1>1. point \in [S -> Nat]
  OBVIOUS
<1>2. Total(point) = n
  BY <1>1, TotalPoint
<1>3. \A a \in S : g[a] = f[a] + point[a]
  OBVIOUS
<1> HIDE DEF point
<1>4. Total(g) = Total(f) + Total(point)
  BY <1>1, <1>3, TotalAdd
<1> QED BY <1>2, <1>4

(* Each value is at most the sum. *)
THEOREM TotalBoundsValues ==
  ASSUME NEW S, IsFiniteSet(S), NEW b \in S, NEW f \in [S -> Nat]
  PROVE  f[b] <= Total(f)
<1> DEFINE rest == [f EXCEPT ![b] = 0]
<1>1. rest \in [S -> Nat] /\ f[b] \in Nat
  OBVIOUS
<1>2. f[b] = rest[b] + f[b] /\ \A a \in S : a # b => f[a] = rest[a]
  OBVIOUS
<1>3. Total(f) = Total(rest) + f[b]
  <2> HIDE DEF rest
  <2> QED BY <1>1, <1>2, TotalRaise
<1>4. Total(rest) \in Nat
  BY <1>1, TotalNat
<1> QED BY <1>1, <1>3, <1>4

(* A sum can be taken class by class: w gives each element of S its class, *)
(* elements without one are worth nothing, and c[k] is the sum of class k. *)
THEOREM TotalByClass ==
  ASSUME NEW S, IsFiniteSet(S), NEW K, IsFiniteSet(K),
         NEW f \in [S -> Nat], NEW w, \A a \in S : f[a] # 0 => w[a] \in K,
         NEW c \in [K -> Nat],
         \A k \in K : c[k] = Total([a \in S |-> IF w[a] = k THEN f[a] ELSE 0])
  PROVE  Total(c) = Total(f)
<1> DEFINE part(k) == [a \in S |-> IF w[a] = k THEN f[a] ELSE 0]
           number == [k \in K |-> CHOOSE p : p \in Bijection(1..c[k], Units(part(k)))]
           unit == [v \in Units(c) |-> number[v[1]][v[2]]]
<1>1. ASSUME NEW k \in K PROVE part(k) \in [S -> Nat]
  OBVIOUS
<1>2. ASSUME NEW k \in K, NEW u
      PROVE  u \in Units(part(k)) <=> u \in Units(f) /\ w[u[1]] = k
  <2>1. ASSUME u \in Units(part(k)) PROVE u \in Units(f) /\ w[u[1]] = k
    <3>1. PICK a \in S : \E i \in 1..part(k)[a] : u = <<a, i>>
      BY <1>1, <2>1, UnitsMembers
    <3>2. PICK i \in 1..part(k)[a] : u = <<a, i>>
      BY <3>1
    <3>3. w[a] = k /\ i \in 1..f[a]
      <4>1. CASE w[a] = k
        BY <4>1
      <4>2. CASE w[a] # k
        <5>1. part(k)[a] = 0
          BY <4>2
        <5> QED BY <5>1
      <4> QED BY <4>1, <4>2
    <3> QED BY <3>2, <3>3, UnitsMembers
  <2>2. ASSUME u \in Units(f), w[u[1]] = k PROVE u \in Units(part(k))
    <3>1. PICK a \in S : \E i \in 1..f[a] : u = <<a, i>>
      BY <2>2, UnitsMembers
    <3>2. PICK i \in 1..f[a] : u = <<a, i>>
      BY <3>1
    <3>3. w[a] = k
      BY <2>2, <3>2
    <3>4. i \in 1..part(k)[a]
      BY <3>3
    <3> HIDE DEF part
    <3> QED BY <1>1, <3>2, <3>4, UnitsMembers
  <2> QED BY <2>1, <2>2
<1>3. ASSUME NEW k \in K PROVE number[k] \in Bijection(1..c[k], Units(part(k)))
  <2>1. IsFiniteSet(Units(part(k)))
    BY <1>1, UnitsFinite
  <2>2. c[k] = Cardinality(Units(part(k)))
    BY DEF Total
  <2>3. ExistsBijection(1..c[k], Units(part(k)))
    <3> HIDE DEF part
    <3> QED BY <2>1, <2>2, FS_CardinalityType
  <2> HIDE DEF part
  <2> QED BY <2>3 DEF ExistsBijection
<1> HIDE DEF part, number
<1>4. ASSUME NEW v \in Units(c)
      PROVE  \E k \in K : \E i \in 1..c[k] : v = <<k, i>> /\ unit[v] = number[k][i]
  BY UnitsMembers
<1>5. unit \in Bijection(Units(c), Units(f))
  <2>1. ASSUME NEW v \in Units(c)
        PROVE  unit[v] \in Units(f) /\ w[unit[v][1]] = v[1]
    <3>1. PICK k \in K : \E i \in 1..c[k] : v = <<k, i>> /\ unit[v] = number[k][i]
      BY <1>4
    <3>2. PICK i \in 1..c[k] : v = <<k, i>> /\ unit[v] = number[k][i]
      BY <3>1
    <3>3. number[k][i] \in Units(part(k))
      BY <1>3, Fun_BijectionProperties
    <3> QED BY <1>2, <3>2, <3>3
  <2>2. ASSUME NEW v \in Units(c), NEW x \in Units(c), unit[v] = unit[x]
        PROVE  v = x
    <3>1. v[1] = x[1]
      BY <2>1, <2>2
    <3>2. PICK k \in K : \E i \in 1..c[k] : v = <<k, i>> /\ unit[v] = number[k][i]
      BY <1>4
    <3>3. PICK i \in 1..c[k] : v = <<k, i>> /\ unit[v] = number[k][i]
      BY <3>2
    <3>4. PICK l \in K : \E j \in 1..c[l] : x = <<l, j>> /\ unit[x] = number[l][j]
      BY <1>4
    <3>5. PICK j \in 1..c[l] : x = <<l, j>> /\ unit[x] = number[l][j]
      BY <3>4
    <3>6. k = l
      BY <3>1, <3>3, <3>5
    <3>7. number[k][i] = number[k][j]
      BY <2>2, <3>3, <3>5, <3>6
    <3>8. i = j
      BY <1>3, <3>6, <3>7, Fun_BijectionProperties
    <3> QED BY <3>3, <3>5, <3>6, <3>8
  <2>3. ASSUME NEW u \in Units(f) PROVE \E v \in Units(c) : unit[v] = u
    <3>1. PICK a \in S : \E i \in 1..f[a] : u = <<a, i>>
      BY UnitsMembers
    <3>2. f[a] # 0 /\ u[1] = a
      BY <3>1
    <3>3. w[a] \in K
      BY <3>2
    <3>4. u \in Units(part(w[a]))
      BY <1>2, <3>2, <3>3
    <3>5. PICK i \in 1..c[w[a]] : number[w[a]][i] = u
      BY <1>3, <3>3, <3>4, Fun_BijectionProperties
    <3>6. <<w[a], i>> \in Units(c)
      BY <3>3, UnitsMembers
    <3>7. unit[<<w[a], i>>] = u
      BY <3>5, <3>6
    <3> QED BY <3>6, <3>7
  <2>4. unit \in [Units(c) -> Units(f)]
    BY <2>1
  <2> HIDE DEF unit
  <2> QED BY <2>2, <2>3, <2>4, Fun_IsBij
<1>6. IsFiniteSet(Units(c))
  BY UnitsFinite
<1>7. Cardinality(Units(f)) = Cardinality(Units(c))
  BY <1>5, <1>6, FS_Bijection DEF ExistsBijection
<1> QED BY <1>7 DEF Total

-----------------------------------------------------------------------------
(* Induction over the natural numbers, with the induction hypothesis given *)
(* as the set of the numbers it holds for.                                 *)
LEMMA NatSetInduction ==
  ASSUME NEW A, 0 \in A, \A k \in Nat : k \in A => k + 1 \in A
  PROVE  Nat \subseteq A
<1> DEFINE R == {ss \in Nat \X Nat : ss[1] < ss[2]}
           T == {k \in Nat : k \notin A}
<1> SUFFICES ASSUME T # {} PROVE FALSE
  OBVIOUS
<1>1. IsWellFoundedOn(R, Nat)
  BY NatLessThanWellFounded DEF OpToRel
<1>2. T \subseteq Nat
  OBVIOUS
<1> HIDE DEF R, T
<1>3. PICK x \in T : \A y \in T : ~ (<<y, x>> \in R)
  <2>1. \E x \in T : \A y \in T : ~ (<<y, x>> \in R)
    BY <1>1, <1>2, WFMin, Zenon
  <2> QED BY <2>1
<1>4. x \in Nat /\ x \notin A
  BY DEF T
<1>5. x # 0
  BY <1>4
<1>6. x - 1 \in Nat /\ x - 1 < x /\ (x - 1) + 1 = x
  BY <1>4, <1>5
<1>7. x - 1 \notin T
  BY <1>3, <1>4, <1>6 DEF R
<1>8. x - 1 \in A
  BY <1>6, <1>7 DEF T
<1> QED BY <1>4, <1>6, <1>8

(* A function that is nowhere greater has no greater sum. *)
THEOREM TotalMonotone ==
  ASSUME NEW S, IsFiniteSet(S), NEW f \in [S -> Nat], NEW g \in [S -> Nat],
         \A a \in S : f[a] <= g[a]
  PROVE  Total(f) <= Total(g)
<1> DEFINE d == [a \in S |-> g[a] - f[a]]
<1>1. \A a \in S : f[a] \in Nat /\ g[a] \in Nat /\ f[a] <= g[a]
  OBVIOUS
<1>2. d \in [S -> Nat] /\ \A a \in S : g[a] = f[a] + d[a]
  BY <1>1
<1> HIDE DEF d
<1>3. Total(g) = Total(f) + Total(d)
  BY <1>2, TotalAdd
<1>4. Total(f) \in Nat /\ Total(d) \in Nat
  BY <1>2, TotalNat
<1> QED BY <1>3, <1>4

(* Scaling every value scales the sum. *)
THEOREM TotalScaled ==
  ASSUME NEW S, IsFiniteSet(S), NEW f \in [S -> Nat], NEW k \in Nat
  PROVE  Total([a \in S |-> f[a] * k]) = Total(f) * k
<1> DEFINE times(i) == [a \in S |-> f[a] * i]
           A == {i \in Nat : Total(times(i)) = Total(f) * i}
<1>1. \A i \in Nat : times(i) \in [S -> Nat]
  OBVIOUS
<1>2. Total(f) \in Nat
  BY TotalNat
<1>3. 0 \in A
  <2>1. \A a \in S : times(0)[a] = 0
    OBVIOUS
  <2>2. Total(times(0)) = 0
    <3>1. times(0) \in [S -> Nat]
      BY <1>1
    <3> HIDE DEF times
    <3> QED BY <2>1, <3>1, TotalZero
  <2> QED BY <1>2, <2>2
<1>4. ASSUME NEW i \in Nat, i \in A PROVE i + 1 \in A
  <2>1. \A a \in S : times(i + 1)[a] = times(i)[a] + f[a]
    <3>1. \A a \in S : f[a] \in Nat
      OBVIOUS
    <3>2. \A a \in S : f[a] * (i + 1) = f[a] * i + f[a]
      BY <3>1
    <3> QED BY <3>2
  <2>2. times(i) \in [S -> Nat] /\ times(i + 1) \in [S -> Nat]
    BY <1>1
  <2>3. Total(times(i + 1)) = Total(times(i)) + Total(f)
    <3> HIDE DEF times
    <3> QED BY <2>1, <2>2, TotalAdd
  <2>4. Total(times(i)) = Total(f) * i
    BY <1>4
  <2>5. Total(times(i + 1)) = Total(f) * (i + 1)
    BY <1>2, <2>3, <2>4
  <2> QED BY <2>5
<1>5. k \in A
  <2> HIDE DEF A
  <2> QED BY <1>3, <1>4, NatSetInduction
<1> QED BY <1>5

-----------------------------------------------------------------------------
(* The sum of f over the elements that w puts in class k. *)
ClassTotal(S, w, f, k) == Total([a \in S |-> IF w[a] = k THEN f[a] ELSE 0])

LEMMA ClassTotalNat ==
  ASSUME NEW S, IsFiniteSet(S), NEW f \in [S -> Nat], NEW w, NEW k
  PROVE  ClassTotal(S, w, f, k) \in Nat
<1>1. [a \in S |-> IF w[a] = k THEN f[a] ELSE 0] \in [S -> Nat]
  OBVIOUS
<1> QED BY <1>1, TotalNat DEF ClassTotal

(* From f to g only elements of class k are raised, and no element of f    *)
(* that counts changes its class: class k gains what was added, the other  *)
(* classes nothing.                                                        *)
THEOREM ClassRaise ==
  ASSUME NEW S, IsFiniteSet(S), NEW k, NEW w, NEW v,
         NEW f \in [S -> Nat], NEW g \in [S -> Nat], NEW c \in [S -> Nat],
         \A a \in S : g[a] = f[a] + c[a],
         \A a \in S : c[a] # 0 => v[a] = k,
         \A a \in S : f[a] # 0 => w[a] = v[a]
  PROVE  /\ ClassTotal(S, v, g, k) = ClassTotal(S, w, f, k) + Total(c)
         /\ \A j : j # k => ClassTotal(S, v, g, j) = ClassTotal(S, w, f, j)
<1> DEFINE old(j) == [a \in S |-> IF w[a] = j THEN f[a] ELSE 0]
           new(j) == [a \in S |-> IF v[a] = j THEN g[a] ELSE 0]
<1>1. \A a \in S : f[a] \in Nat /\ g[a] \in Nat /\ c[a] \in Nat /\ g[a] = f[a] + c[a]
  OBVIOUS
<1>2. old(k) \in [S -> Nat] /\ new(k) \in [S -> Nat]
  BY <1>1
<1>3. ASSUME NEW a \in S PROVE new(k)[a] = old(k)[a] + c[a]
  <2>1. CASE v[a] = k /\ f[a] # 0
    BY <1>1, <2>1
  <2>2. CASE v[a] = k /\ f[a] = 0
    BY <1>1, <2>2
  <2>3. CASE v[a] # k
    <3>1. c[a] = 0 /\ (f[a] = 0 \/ w[a] # k)
      BY <2>3
    <3> QED BY <2>3, <3>1
  <2> QED BY <2>1, <2>2, <2>3
<1>4. ASSUME NEW j, j # k PROVE new(j) = old(j)
  <2> SUFFICES ASSUME NEW a \in S PROVE new(j)[a] = old(j)[a]
    OBVIOUS
  <2>1. CASE v[a] = j
    <3>1. c[a] = 0 /\ g[a] = f[a] /\ (f[a] = 0 \/ w[a] = j)
      BY <1>1, <1>4, <2>1
    <3> QED BY <2>1, <3>1
  <2>2. CASE v[a] # j
    <3>1. f[a] = 0 \/ w[a] # j
      BY <2>2
    <3> QED BY <2>2, <3>1
  <2> QED BY <2>1, <2>2
<1>5. Total(new(k)) = Total(old(k)) + Total(c)
  <2> HIDE DEF new, old
  <2> QED BY <1>2, <1>3, TotalAdd
<1> QED BY <1>4, <1>5 DEF ClassTotal

(* A sum over part of a set is the sum over the set with zeros elsewhere.  *)
THEOREM TotalOfPart ==
  ASSUME NEW S, NEW A \in SUBSET S, NEW f \in [A -> Nat], NEW g \in [S -> Nat],
         \A a \in S : g[a] = IF a \in A THEN f[a] ELSE 0
  PROVE  Total(f) = Total(g)
<1>1. ASSUME NEW u \in Units(f) PROVE u \in Units(g)
  <2>1. PICK a \in A : \E i \in 1..f[a] : u = <<a, i>>
    BY UnitsMembers
  <2>2. a \in S /\ g[a] = f[a]
    OBVIOUS
  <2> QED BY <2>1, <2>2, UnitsMembers
<1>2. ASSUME NEW u \in Units(g) PROVE u \in Units(f)
  <2>1. PICK a \in S : \E i \in 1..g[a] : u = <<a, i>>
    BY UnitsMembers
  <2>2. CASE a \in A
    <3>1. g[a] = f[a]
      BY <2>2
    <3> QED BY <2>1, <2>2, <3>1, UnitsMembers
  <2>3. CASE a \notin A
    <3>1. g[a] = 0
      BY <2>3
    <3> QED BY <2>1, <3>1
  <2> QED BY <2>2, <2>3
<1>3. Units(f) = Units(g)
  BY <1>1, <1>2
<1> QED BY <1>3 DEF Total

(* Moving every value to another place does not change the sum. *)
THEOREM TotalShifted ==
  ASSUME NEW S, IsFiniteSet(S), NEW T, IsFiniteSet(T),
         NEW f \in [S -> Nat], NEW g \in [T -> Nat], NEW w \in [S -> T],
         \A a, b \in S : w[a] = w[b] => a = b,
         \A a \in S : g[w[a]] = f[a], \A t \in T : g[t] # 0 => \E a \in S : w[a] = t
  PROVE  Total(f) = Total(g)
<1> DEFINE part(k) == [a \in S |-> IF w[a] = k THEN f[a] ELSE 0]
<1>1. ASSUME NEW k \in T PROVE g[k] = Total(part(k))
  <2>1. part(k) \in [S -> Nat]
    OBVIOUS
  <2>2. CASE \E a \in S : w[a] = k
    <3>1. PICK a \in S : w[a] = k
      BY <2>2
    <3>2. part(k)[a] = g[k] /\ \A b \in S : b # a => part(k)[b] = 0
      BY <3>1
    <3> HIDE DEF part
    <3> QED BY <2>1, <3>2, TotalPoint
  <2>3. CASE ~ \E a \in S : w[a] = k
    <3>1. g[k] = 0 /\ \A b \in S : part(k)[b] = 0
      BY <2>3
    <3> HIDE DEF part
    <3> QED BY <2>1, <3>1, TotalZero
  <2> QED BY <2>2, <2>3
<1>2. \A a \in S : f[a] # 0 => w[a] \in T
  OBVIOUS
<1> QED BY ONLY <1>1, <1>2, IsFiniteSet(S), IsFiniteSet(T), f \in [S -> Nat], g \in [T -> Nat],
           TotalByClass

(* The sum of a function h made of two: s on A, and t, whose places w      *)
(* moves to the rest of S.                                                 *)
THEOREM TotalJoined ==
  ASSUME NEW S, IsFiniteSet(S), NEW A \in SUBSET S, NEW B, IsFiniteSet(B),
         NEW s \in [A -> Nat], NEW t \in [B -> Nat], NEW h \in [S -> Nat],
         NEW w \in [B -> S \ A],
         \A a \in A : h[a] = s[a],
         \A b \in B : h[w[b]] = t[b],
         \A b, c \in B : w[b] = w[c] => b = c,
         \A a \in S \ A : \E b \in B : w[b] = a
  PROVE  Total(h) = Total(s) + Total(t)
<1> DEFINE f == [a \in S |-> IF a \in A THEN s[a] ELSE 0]
           g == [a \in S |-> IF a \in A THEN 0 ELSE h[a]]
<1>1. f \in [S -> Nat] /\ \A a \in S : f[a] = IF a \in A THEN s[a] ELSE 0
  OBVIOUS
<1>2. g \in [S -> Nat] /\ \A a \in S : g[a] = IF a \in A THEN 0 ELSE h[a]
  OBVIOUS
<1> HIDE DEF f, g
<1>3. Total(s) = Total(f)
  BY <1>1, TotalOfPart
<1>4. w \in [B -> S] /\ \A b \in B : w[b] \in S /\ w[b] \notin A
  OBVIOUS
<1>5. \A b \in B : g[w[b]] = t[b]
  BY <1>2, <1>4
<1>6. \A a \in S : g[a] # 0 => \E b \in B : w[b] = a
  BY <1>2
<1>7. Total(t) = Total(g)
  BY ONLY <1>2, <1>4, <1>5, <1>6, IsFiniteSet(S), IsFiniteSet(B), t \in [B -> Nat],
          \A b, c \in B : w[b] = w[c] => b = c, TotalShifted
<1>8. \A a \in S : h[a] = f[a] + g[a]
  BY <1>1, <1>2
<1>9. Total(h) = Total(f) + Total(g)
  BY <1>1, <1>2, <1>8, TotalAdd
<1> QED BY <1>3, <1>7, <1>9

-----------------------------------------------------------------------------
(* Positions of a sequence, and what a filter picks.                       *)

(* The k-th position of a set of positions exists. *)
LEMMA KthExists ==
  ASSUME NEW n \in Nat, NEW at \in SUBSET (1..n), NEW k \in 1..Cardinality(at)
  PROVE  \E i \in at : Cardinality({j \in at : j <= i}) = k
<1> DEFINE Has(s) == \A l \in 1..Cardinality(s) :
                        \E i \in s : Cardinality({j \in s : j <= i}) = l
           A == {m \in Nat : \A s \in SUBSET (1..m) : Has(s)}
<1>1. 0 \in A
  <2>1. ASSUME NEW s \in SUBSET (1..0) PROVE Has(s)
    <3>1. s = {}
      OBVIOUS
    <3>2. Cardinality(s) = 0
      BY <3>1, FS_EmptySet
    <3> QED BY <3>2
  <2> QED BY <2>1
<1>2. ASSUME NEW m \in Nat, m \in A PROVE m + 1 \in A
  <2>1. ASSUME NEW s \in SUBSET (1..(m + 1)), NEW l \in 1..Cardinality(s)
        PROVE  \E i \in s : Cardinality({j \in s : j <= i}) = l
    <3>1. CASE m + 1 \notin s
      <4>1. s \in SUBSET (1..m)
        BY <3>1
      <4> QED BY <4>1, <1>2
    <3>2. CASE m + 1 \in s
      <4> DEFINE r == s \ {m + 1}
      <4>1. r \in SUBSET (1..m)
        OBVIOUS
      <4>2. IsFiniteSet(s)
        <5>1. 1 \in Int /\ m + 1 \in Int
          OBVIOUS
        <5>2. IsFiniteSet(1..(m + 1))
          BY <5>1, FS_Interval
        <5> QED BY <5>2, FS_Subset
      <4>3. Cardinality(r) = Cardinality(s) - 1 /\ Cardinality(s) \in Nat
        BY <3>2, <4>2, FS_RemoveElement, FS_CardinalityType
      <4>4. CASE l = Cardinality(s)
        <5>1. {j \in s : j <= m + 1} = s
          <6>1. \A j \in s : j <= m + 1
            BY ONLY s \in SUBSET (1..(m + 1)), m \in Nat
          <6> QED BY ONLY <6>1
        <5> QED BY <3>2, <4>4, <5>1
      <4>5. CASE l # Cardinality(s)
        <5>1. l \in 1..Cardinality(r)
          BY <4>3, <4>5
        <5>2. PICK i \in r : Cardinality({j \in r : j <= i}) = l
          BY <1>2, <4>1, <5>1
        <5>3. {j \in s : j <= i} = {j \in r : j <= i}
          BY <4>1
        <5> QED BY <5>2, <5>3
      <4> QED BY <4>4, <4>5
    <3> QED BY <3>1, <3>2
  <2> QED BY <2>1
<1> HIDE DEF Has
<1>3. Nat \subseteq A
  <2> HIDE DEF A
  <2> QED BY <1>1, <1>2, NatSetInduction
<1> QED BY <1>3 DEF Has

(* A filtered sequence holds what was kept, in the order it was in. *)
THEOREM PickedOrder ==
  ASSUME NEW S, NEW s \in Seq(S), NEW at \in SUBSET (DOMAIN s)
  PROVE  /\ Picked(s, at) \in Seq(S)
         /\ \A k \in DOMAIN Picked(s, at) : \E i \in at : Picked(s, at)[k] = s[i]
         /\ \A k, l \in DOMAIN Picked(s, at) : k < l =>
              \E i, j \in at : i < j /\ Picked(s, at)[k] = s[i] /\ Picked(s, at)[l] = s[j]
<1> DEFINE Upto(i) == {j \in at : j <= i}
           kth == [k \in 1..Cardinality(at) |-> CHOOSE i \in at : Cardinality(Upto(i)) = k]
<1>1. /\ Len(s) \in Nat /\ DOMAIN s = 1..Len(s) /\ \A i \in 1..Len(s) : s[i] \in S
      /\ at \in SUBSET (1..Len(s))
  OBVIOUS
<1>2. IsFiniteSet(at) /\ Cardinality(at) \in Nat
  <2>1. 1 \in Int /\ Len(s) \in Int
    OBVIOUS
  <2>2. IsFiniteSet(1..Len(s))
    BY <2>1, FS_Interval
  <2> QED BY <2>2, <1>1, FS_Subset, FS_CardinalityType
<1>3. ASSUME NEW k \in 1..Cardinality(at)
      PROVE  kth[k] \in at /\ Cardinality(Upto(kth[k])) = k
  <2>1. \E i \in at : Cardinality(Upto(i)) = k
    BY <1>1, KthExists
  <2> QED BY <2>1
<1>4. Picked(s, at) = [k \in 1..Cardinality(at) |-> s[kth[k]]]
  BY DEF Picked
<1>5. ASSUME NEW k \in 1..Cardinality(at), NEW l \in 1..Cardinality(at), k < l
      PROVE  kth[k] < kth[l]
  <2> HIDE DEF kth
  <2>1. kth[k] \in Nat /\ kth[l] \in Nat /\ \A j \in at : j \in Nat
    <3>1. \A j \in at : j \in Nat
      BY ONLY <1>1
    <3> QED BY <3>1, <1>3
  <2>2. CASE kth[l] <= kth[k]
    <3>1. Upto(kth[l]) \subseteq Upto(kth[k])
      BY ONLY <2>1, <2>2
    <3>2. IsFiniteSet(Upto(kth[k]))
      BY <1>2, FS_Subset
    <3>3. Cardinality(Upto(kth[l])) <= Cardinality(Upto(kth[k]))
      BY <3>1, <3>2, FS_Subset
    <3>4. l <= k
      <4> HIDE DEF Upto
      <4> QED BY <3>3, <1>3
    <3>5. k \in Nat /\ l \in Nat
      BY <1>2
    <3> QED BY ONLY <3>4, <3>5, k < l
  <2> QED BY ONLY <2>1, <2>2
<1> HIDE DEF kth
<1>6. DOMAIN Picked(s, at) = 1..Cardinality(at)
  BY <1>4
<1>7. Picked(s, at) \in Seq(S)
  <2>1. \A k \in 1..Cardinality(at) : Picked(s, at)[k] \in S
    BY <1>1, <1>3, <1>4
  <2> QED BY <1>2, <1>4, <2>1
<1>8. \A k \in DOMAIN Picked(s, at) : kth[k] \in at /\ Picked(s, at)[k] = s[kth[k]]
  BY <1>3, <1>4, <1>6
<1>9. \A k, l \in DOMAIN Picked(s, at) : k < l => kth[k] < kth[l]
  BY <1>5, <1>6
<1> QED BY ONLY <1>7, <1>8, <1>9

(* Nothing at the positions is lost. *)
THEOREM PickedAll ==
  ASSUME NEW S, NEW s \in Seq(S), NEW at \in SUBSET (DOMAIN s), NEW i \in at
  PROVE  \E k \in DOMAIN Picked(s, at) : Picked(s, at)[k] = s[i]
<1> DEFINE upto(j) == {l \in at : l <= j}
           k == Cardinality(upto(i))
<1>1. /\ Len(s) \in Nat /\ at \in SUBSET (1..Len(s)) /\ \A j \in at : j \in Nat
  OBVIOUS
<1>2. IsFiniteSet(at) /\ Cardinality(at) \in Nat
  <2>1. 1 \in Int /\ Len(s) \in Int
    OBVIOUS
  <2>2. IsFiniteSet(1..Len(s))
    BY <2>1, FS_Interval
  <2> QED BY <2>2, <1>1, FS_Subset, FS_CardinalityType
<1>3. \A j \in at : upto(j) \in SUBSET at /\ j \in upto(j)
  BY <1>1
<1> HIDE DEF upto
<1>4. k \in 1..Cardinality(at)
  <2>1. IsFiniteSet(upto(i)) /\ Cardinality(upto(i)) \in Nat
    BY <1>2, <1>3, FS_Subset, FS_CardinalityType
  <2>2. Cardinality(upto(i)) # 0 /\ Cardinality(upto(i)) <= Cardinality(at)
    BY <1>2, <1>3, <2>1, FS_Subset, FS_EmptySet
  <2> QED BY <1>2, <2>1, <2>2
<1>5. ASSUME NEW j \in at, Cardinality(upto(j)) = k PROVE j = i
  <2>1. ASSUME NEW x \in at, NEW y \in at, x < y, Cardinality(upto(x)) = Cardinality(upto(y))
        PROVE  FALSE
    <3>1. upto(x) \in SUBSET upto(y) /\ y \notin upto(x)
      BY <1>1, <2>1 DEF upto
    <3>2. IsFiniteSet(upto(y))
      BY <1>2, <1>3, FS_Subset
    <3>3. upto(x) = upto(y)
      BY <2>1, <3>1, <3>2, FS_Subset
    <3> QED BY <1>3, <3>1, <3>3
  <2>2. i < j \/ j < i \/ i = j
    BY <1>1
  <2> QED BY <1>5, <2>1, <2>2
<1> DEFINE c == CHOOSE j \in at : Cardinality(upto(j)) = k
<1>6. c = i
  BY <1>5
<1>7. DOMAIN Picked(s, at) = 1..Cardinality(at) /\ Picked(s, at)[k] = s[c]
  BY <1>4 DEF Picked, upto
<1> QED BY <1>4, <1>6, <1>7

(* All the first m positions. *)
THEOREM PickedPrefix ==
  ASSUME NEW S, NEW s \in Seq(S), NEW m \in 0..Len(s)
  PROVE  /\ Picked(s, 1..m) \in Seq(S) /\ Len(Picked(s, 1..m)) = m
         /\ \A k \in 1..m : Picked(s, 1..m)[k] = s[k]
<1>1. Len(s) \in Nat /\ m \in Nat /\ 1 \in Int /\ m \in Int /\ DOMAIN s = 1..Len(s)
  BY LenProperties
<1>2. \A k \in Nat : Cardinality(1..k) = k
  <2>1. \A k \in Nat : 1 \in Int /\ k \in Int /\ (1 > k => k = 0) /\ (1 <= k => (k - 1) + 1 = k)
    OBVIOUS
  <2> QED BY <2>1, FS_Interval
<1> DEFINE nth(k) == CHOOSE i \in 1..m : Cardinality({j \in 1..m : j <= i}) = k
<1>3. ASSUME NEW k \in 1..m PROVE nth(k) = k
  <2>1. ASSUME NEW i \in 1..m PROVE Cardinality({j \in 1..m : j <= i}) = i
    <3>1. {j \in 1..m : j <= i} = 1..i /\ i \in Nat
      BY <1>1
    <3> QED BY <1>2, <3>1
  <2> QED BY <2>1
<1>4. Picked(s, 1..m) = [k \in 1..m |-> s[k]]
  <2>1. Picked(s, 1..m) = [k \in 1..Cardinality(1..m) |-> s[nth(k)]]
    BY DEF Picked
  <2> HIDE DEF nth
  <2>2. Picked(s, 1..m) = [k \in 1..m |-> s[nth(k)]]
    BY <1>1, <1>2, <2>1
  <2> QED BY <1>3, <2>2
<1>5. Picked(s, 1..m) \in Seq(S)
  <2>1. \A k \in 1..m : s[k] \in S
    BY <1>1
  <2> QED BY <1>1, <1>4, <2>1
<1> QED BY <1>1, <1>4, <1>5

THEOREM LastPosition ==
  ASSUME NEW n \in Nat, NEW at \in SUBSET (1..n), at # {}
  PROVE  \E i \in at : \A j \in at : j <= i
<1>1. 1 \in Int /\ n \in Int
  OBVIOUS
<1>2. IsFiniteSet(1..n)
  BY <1>1, FS_Interval
<1>3. IsFiniteSet(at) /\ Cardinality(at) \in Nat \ {0}
  BY <1>2, FS_Subset, FS_CardinalityType, FS_EmptySet
<1>4. Cardinality(at) \in 1..Cardinality(at)
  BY <1>3
<1>5. PICK i \in at : Cardinality({j \in at : j <= i}) = Cardinality(at)
  BY <1>4, KthExists
<1> DEFINE upto == {j \in at : j <= i}
<1>6. upto \in SUBSET at /\ Cardinality(upto) = Cardinality(at)
  BY <1>5
<1> HIDE DEF upto
<1>7. upto = at
  BY ONLY <1>3, <1>6, FS_Subset
<1> QED BY <1>7 DEF upto

(* A set of positions that holds all before its members is a prefix. *)
THEOREM DownwardClosed ==
  ASSUME NEW n \in Nat, NEW p \in SUBSET (1..n), \A i \in p : \A j \in 1..n : j < i => j \in p
  PROVE  p = 1..Cardinality(p) /\ Cardinality(p) \in 0..n
<1>1. CASE p = {}
  BY <1>1, FS_EmptySet
<1>2. CASE p # {}
  <2>1. PICK i \in p : \A j \in p : j <= i
    BY <1>2, LastPosition
  <2>2. ASSUME NEW j \in p PROVE j \in 1..i
    BY <2>1
  <2>3. ASSUME NEW j \in 1..i PROVE j \in p
    BY <2>1
  <2>4. p = 1..i
    BY <2>2, <2>3
  <2>5. 1 \in Int /\ i \in Int
    BY <2>1
  <2>6. Cardinality(1..i) = i
    BY <2>1, <2>5, FS_Interval
  <2> QED BY <2>1, <2>4, <2>6
<1> QED BY <1>1, <1>2
=============================================================================
