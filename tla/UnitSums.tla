------------------------------ MODULE UnitSums ------------------------------
(***************************************************************************)
(* The sum of a function from a finite set to the naturals, as the number   *)
(* of units in it.  The definition is not recursive, so facts about sums    *)
(* follow from the cardinality of finite sets: they are proved below.       *)
(***************************************************************************)
EXTENDS Naturals, FiniteSets, FiniteSetTheorems, TLAPS

Units(f) == UNION {{x} \X (1..f[x]) : x \in DOMAIN f}

Total(f) == Cardinality(Units(f))

-----------------------------------------------------------------------------
(* What a change of one summand does to a sum. *)

\* The units of one summand.
LEMMA UnitsOfOne ==
  ASSUME NEW x, NEW n \in Nat
  PROVE  /\ IsFiniteSet({x} \X (1..n))
         /\ Cardinality({x} \X (1..n)) = n
<1>1. IsFiniteSet({x}) /\ Cardinality({x}) = 1
  BY FS_Singleton
<1>2. IsFiniteSet(1..n) /\ Cardinality(1..n) = n
  BY FS_Interval
<1>3. /\ IsFiniteSet({x} \X (1..n))
      /\ Cardinality({x} \X (1..n)) = Cardinality({x}) * Cardinality(1..n)
  BY <1>1, <1>2, FS_Product, Zenon
<1> QED
  BY <1>1, <1>2, <1>3

\* A sum over a finite set is a natural number.
LEMMA UnitsFinite ==
  ASSUME NEW S, IsFiniteSet(S), NEW f \in [S -> Nat]
  PROVE  IsFiniteSet(Units(f)) /\ Total(f) \in Nat
<1> DEFINE Blocks == {{x} \X (1..f[x]) : x \in S}
           block == [x \in S |-> {x} \X (1..f[x])]
<1>1. block \in Surjection(S, Blocks)
  BY Zenon DEF Surjection
<1>2. IsFiniteSet(Blocks)
  BY <1>1, FS_Surjection, Zenon
<1>3. \A x \in S : IsFiniteSet({x} \X (1..f[x]))
  BY UnitsOfOne
<1>4. IsFiniteSet(UNION Blocks)
  BY <1>2, <1>3, FS_UNION, Zenon
<1>5. Units(f) = UNION Blocks
  BY DEF Units
<1> QED
  BY <1>4, <1>5, FS_CardinalityType, Zenon DEF Total

\* The units of a sum are those of one summand and those of the others.
LEMMA UnitsSplit ==
  ASSUME NEW S, NEW f \in [S -> Nat], NEW x \in S
  PROVE  LET rest == {u \in Units(f) : u[1] # x}
         IN  /\ Units(f) = rest \cup ({x} \X (1..f[x]))
             /\ rest \cap ({x} \X (1..f[x])) = {}
  BY DEF Units

\* Changing one summand changes the sum by the difference.
THEOREM TotalChangeOne ==
  ASSUME NEW S, IsFiniteSet(S), NEW f \in [S -> Nat], NEW g \in [S -> Nat],
         NEW x \in S, \A y \in S \ {x} : g[y] = f[y]
  PROVE  Total(g) = Total(f) - f[x] + g[x]
<1> DEFINE rest(h) == {u \in Units(h) : u[1] # x}
<1>1. rest(f) = rest(g)
  BY DEF Units
<1>2. ASSUME NEW h \in [S -> Nat]
      PROVE  /\ IsFiniteSet(rest(h)) /\ Cardinality(rest(h)) \in Nat
             /\ Total(h) = Cardinality(rest(h)) + h[x]
  <2>1. IsFiniteSet(Units(h))
    BY UnitsFinite
  <2>2. IsFiniteSet(rest(h)) /\ Cardinality(rest(h)) \in Nat
    BY <2>1, FS_Subset, FS_CardinalityType
  <2>3. /\ IsFiniteSet({x} \X (1..h[x]))
        /\ Cardinality({x} \X (1..h[x])) = h[x]
    BY UnitsOfOne
  <2>4. /\ Units(h) = rest(h) \cup ({x} \X (1..h[x]))
        /\ rest(h) \cap ({x} \X (1..h[x])) = {}
    BY UnitsSplit
  <2>5. ASSUME NEW A, NEW B, IsFiniteSet(A), IsFiniteSet(B), A \cap B = {}
        PROVE  Cardinality(A \cup B) = Cardinality(A) + Cardinality(B) - 0
    <3>1. Cardinality(A \cup B)
            = Cardinality(A) + Cardinality(B) - Cardinality(A \cap B)
      BY <2>5, FS_Union
    <3>2. Cardinality(A \cap B) = 0
      BY <2>5, FS_EmptySet
    <3> QED
      BY <3>1, <3>2
  <2>6. Cardinality(Units(h)) = Cardinality(rest(h)) + h[x] - 0
    <3> HIDE DEF rest
    <3> QED BY <2>2, <2>3, <2>4, <2>5, Zenon
  <2> QED
    BY <2>2, <2>6 DEF Total
<1>3. /\ Total(f) = Cardinality(rest(f)) + f[x]
      /\ Total(g) = Cardinality(rest(f)) + g[x]
      /\ Cardinality(rest(f)) \in Nat
  BY <1>1, <1>2, Zenon
<1> HIDE DEF rest
<1> QED
  BY <1>3

\* Nothing adds up to nothing.
THEOREM TotalOfZero ==
  ASSUME NEW S, NEW f \in [S -> Nat], \A x \in S : f[x] = 0
  PROVE  Total(f) = 0
<1>1. Units(f) = {}
  BY DEF Units
<1> QED
  BY <1>1, FS_EmptySet DEF Total

\* Larger summands make a larger sum.
THEOREM TotalMonotone ==
  ASSUME NEW S, IsFiniteSet(S), NEW f \in [S -> Nat], NEW g \in [S -> Nat],
         \A x \in S : f[x] <= g[x]
  PROVE  Total(f) <= Total(g)
<1>1. Units(f) \subseteq Units(g)
  BY DEF Units
<1>2. IsFiniteSet(Units(g))
  BY UnitsFinite
<1> QED
  BY <1>1, <1>2, FS_Subset DEF Total

\* The sum of two functions adds up to the sum of their sums: the units of f
\* come first, and those of g are shifted behind them.
THEOREM TotalOfSum ==
    ASSUME NEW S, IsFiniteSet(S), NEW f \in [S -> Nat], NEW g \in [S -> Nat],
           NEW h \in [S -> Nat], \A x \in S : h[x] = f[x] + g[x]
    PROVE  Total(h) = Total(f) + Total(g)
<1> DEFINE rest == Units(h) \ Units(f)
           shift == [u \in Units(g) |-> <<u[1], f[u[1]] + u[2]>>]
<1>1. /\ IsFiniteSet(Units(f)) /\ IsFiniteSet(Units(g)) /\ IsFiniteSet(Units(h))
      /\ Total(f) \in Nat /\ Total(g) \in Nat
    BY UnitsFinite
<1>2. \A x, i : /\ <<x, i>> \in Units(f) <=> x \in S /\ i \in 1 .. f[x]
                /\ <<x, i>> \in Units(g) <=> x \in S /\ i \in 1 .. g[x]
                /\ <<x, i>> \in Units(h) <=> x \in S /\ i \in 1 .. h[x]
    BY DEF Units
<1>3. \A u \in Units(g) \cup Units(h) : u = <<u[1], u[2]>>
    BY DEF Units
<1>4. Units(f) \subseteq Units(h)
    <2>1. \A u \in Units(f) : u = <<u[1], u[2]>>
        BY DEF Units
    <2>2. \A x \in S : 1 .. f[x] \subseteq 1 .. h[x]
        OBVIOUS
    <2> QED
        BY <1>2, <2>1, <2>2
<1>5. shift \in Bijection(Units(g), rest)
    <2>1. ASSUME NEW u \in Units(g) PROVE shift[u] \in rest
        <3>1. u = <<u[1], u[2]>> /\ u[1] \in S /\ u[2] \in 1 .. g[u[1]]
            BY <1>2, <1>3
        <3>2. f[u[1]] + u[2] \in 1 .. h[u[1]] /\ f[u[1]] + u[2] \notin 1 .. f[u[1]]
            BY <3>1
        <3>3. shift[u] = <<u[1], f[u[1]] + u[2]>>
            OBVIOUS
        <3> HIDE DEF shift
        <3> QED
            BY <1>2, <3>1, <3>2, <3>3
    <2>2. ASSUME NEW u \in Units(g), NEW v \in Units(g), shift[u] = shift[v] PROVE u = v
        <3>1. /\ u = <<u[1], u[2]>> /\ u[1] \in S /\ u[2] \in 1 .. g[u[1]]
              /\ v = <<v[1], v[2]>> /\ v[1] \in S /\ v[2] \in 1 .. g[v[1]]
            BY <1>2, <1>3
        <3>2. u[1] = v[1] /\ f[u[1]] + u[2] = f[v[1]] + v[2]
            BY <2>2
        <3>3. u[2] = v[2]
            BY <3>1, <3>2
        <3> QED
            BY <3>1, <3>2, <3>3
    <2>3. ASSUME NEW w \in rest PROVE \E u \in Units(g) : shift[u] = w
        <3>1. w = <<w[1], w[2]>> /\ w[1] \in S /\ w[2] \in 1 .. h[w[1]] /\ w[2] \notin 1 .. f[w[1]]
            BY <1>2, <1>3
        <3>2. w[2] - f[w[1]] \in 1 .. g[w[1]] /\ f[w[1]] + (w[2] - f[w[1]]) = w[2]
            BY <3>1
        <3> DEFINE u == <<w[1], w[2] - f[w[1]]>>
        <3>3. u \in Units(g)
            BY <1>2, <3>1, <3>2
        <3>4. shift[u] = w
            BY <3>1, <3>2, <3>3
        <3> QED
            BY <3>3, <3>4
    <2> HIDE DEF rest
    <2>4. shift \in [Units(g) -> rest]
        BY <2>1
    <2> HIDE DEF shift
    <2> QED
        BY <2>2, <2>3, <2>4 DEF Bijection, Injection, Surjection, IsInjective
<1>6. Cardinality(rest) = Cardinality(Units(g))
    <2> HIDE DEF rest, shift
    <2>1. ExistsBijection(Units(g), rest)
        BY <1>5, Zenon DEF ExistsBijection
    <2> QED
        BY <1>1, <2>1, FS_Bijection, Zenon
<1>7. Cardinality(rest) = Cardinality(Units(h)) - Cardinality(Units(f))
    <2>1. Cardinality(Units(h) \ Units(f)) = Cardinality(Units(h)) - Cardinality(Units(h) \cap Units(f))
        BY <1>1, FS_Difference
    <2>2. Units(h) \cap Units(f) = Units(f)
        BY <1>4
    <2> QED
        BY <2>1, <2>2
<1>8. Cardinality(Units(h)) \in Nat
    BY <1>1, FS_CardinalityType
<1> HIDE DEF rest
<1> QED
    BY <1>1, <1>6, <1>7, <1>8 DEF Total

\* A summand of nothing may be left out.
THEOREM TotalWithout ==
    ASSUME NEW S, NEW x \in S, NEW f \in [S -> Nat], f[x] = 0, NEW g \in [S \ {x} -> Nat],
           \A y \in S \ {x} : g[y] = f[y]
    PROVE  Total(g) = Total(f)
<1>1. Units(g) = Units(f)
    BY DEF Units
<1> QED
    BY <1>1 DEF Total
=============================================================================
