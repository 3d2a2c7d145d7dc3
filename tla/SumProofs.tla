------------------------------- MODULE SumProofs -------------------------------
(***************************************************************************)
(* Sums over finite sets, as SumFunctionOnSet of the community modules      *)
(* defines them: the sum of no numbers is zero, and any of the numbers can   *)
(* be taken out of a sum.  What rounding may add to a number, and to a sum.   *)
(***************************************************************************)
EXTENDS Rounding, Sequences, Functions, FiniteSetTheorems, WellFoundedInduction, TLAPS

\* The element that the fold takes first, and one step of the fold.
First(s) == CHOOSE x \in s : TRUE

Step(g, f, s) == IF s = {} THEN 0 ELSE f[First(s)] + g[s \ {First(s)}]

\* g sums f over the parts of S.
Solves(g, f, S) == \A s \in SUBSET S : g[s] = Step(g, f, s)

LEMMA SumDef ==
    ASSUME NEW f, NEW S
    PROVE  SumFunctionOnSet(f, S) = (CHOOSE g : g = [s \in SUBSET S |-> Step(g, f, s)])[S]
BY DEF SumFunctionOnSet, FoldFunctionOnSet, MapThenFoldSet, Step, First

\* Every set of naturals has a least element.
LEMMA LeastNatural ==
    ASSUME NEW T \in SUBSET Nat, T # {}
    PROVE  \E m \in T : \A k \in T : m <= k
<1>1. PICK m \in T : \A k \in T : <<k, m>> \notin OpToRel(<, Nat)
  BY WFMin, NatLessThanWellFounded, Zenon
<1>2. m \in Nat /\ \A k \in T : k \in Nat /\ ~(k < m)
  BY <1>1, Zenon DEF OpToRel
<1>3. \A k, n \in Nat : ~(k < n) => n <= k
  OBVIOUS
<1> QED BY <1>2, <1>3

LEMMA FirstOfSet ==
    ASSUME NEW s, IsFiniteSet(s), s # {}
    PROVE  /\ First(s) \in s /\ Cardinality(s) \in Nat \ {0}
           /\ IsFiniteSet(s \ {First(s)}) /\ Cardinality(s \ {First(s)}) = Cardinality(s) - 1
<1>1. First(s) \in s
  BY DEF First
<1> QED BY <1>1, FS_RemoveElement, FS_CardinalityType, FS_EmptySet

\* The recursion of the fold has a solution on every finite set.
LEMMA SumExists ==
    ASSUME NEW f, NEW S, IsFiniteSet(S), \A x \in S : f[x] \in Int
    PROVE  \E g : g = [s \in SUBSET S |-> Step(g, f, s)] /\ g \in [SUBSET S -> Int]
<1> DEFINE Below(n) == {s \in SUBSET S : Cardinality(s) <= n}
           Solved(n) == \E g \in [Below(n) -> Int] : \A s \in Below(n) : g[s] = Step(g, f, s)
           T == {n \in Nat : ~Solved(n)}
<1>1. \A s \in SUBSET S : IsFiniteSet(s) /\ Cardinality(s) \in Nat /\ Cardinality(s) <= Cardinality(S)
  BY FS_Subset, FS_CardinalityType
<1>2. \A s \in SUBSET S : s # {} =>
          /\ First(s) \in S /\ Cardinality(s) # 0
          /\ s \ {First(s)} \in SUBSET S /\ Cardinality(s \ {First(s)}) = Cardinality(s) - 1
  BY <1>1, FirstOfSet
<1>3. {} \in SUBSET S /\ Cardinality({}) = 0
  BY FS_EmptySet
<1>4. Solved(0)
  <2> DEFINE g == [s \in Below(0) |-> 0]
  <2>1. \A s \in Below(0) : s = {}
    <3> SUFFICES ASSUME NEW s \in SUBSET S, Cardinality(s) <= 0
                 PROVE  s = {}
      OBVIOUS
    <3>1. Cardinality(s) = 0
      BY <1>1
    <3> QED BY <1>2, <3>1
  <2>2. Step(g, f, {}) = 0
    BY DEF Step
  <2>3. g \in [Below(0) -> Int] /\ \A s \in Below(0) : g[s] = 0
    OBVIOUS
  <2> HIDE DEF g
  <2>4. \A s \in Below(0) : g[s] = Step(g, f, s)
    BY <2>1, <2>2, <2>3
  <2> QED BY <2>3, <2>4
<1>5. ASSUME NEW n \in Nat, Solved(n)
      PROVE  Solved(n + 1)
  <2>1. PICK g \in [Below(n) -> Int] : \A s \in Below(n) : g[s] = Step(g, f, s)
    BY <1>5
  <2> DEFINE h == [s \in Below(n + 1) |-> Step(g, f, s)]
  <2>2. \A s \in Below(n + 1) : s # {} => s \ {First(s)} \in Below(n) /\ First(s) \in S
    BY <1>1, <1>2
  <2>3. \A s \in Below(n + 1) : Step(g, f, s) \in Int
    BY <2>1, <2>2 DEF Step
  <2>4. \A s \in Below(n) : s \in Below(n + 1) /\ h[s] = g[s]
    BY <1>1, <2>1
  <2>5. \A s \in Below(n + 1) : h[s] = Step(h, f, s)
    <3> SUFFICES ASSUME NEW s \in Below(n + 1)
                 PROVE  Step(g, f, s) = Step(h, f, s)
      OBVIOUS
    <3>1. s # {} => h[s \ {First(s)}] = g[s \ {First(s)}]
      BY <2>2, <2>4
    <3> HIDE DEF h
    <3> QED BY <3>1 DEF Step
  <2>6. h \in [Below(n + 1) -> Int]
    BY <2>3
  <2> HIDE DEF h
  <2> QED BY <2>5, <2>6
<1>6. T = {}
  <2> SUFFICES ASSUME T # {}
               PROVE  FALSE
    OBVIOUS
  <2>1. PICK m \in T : \A k \in T : m <= k
    BY LeastNatural
  <2>2. m \in Nat /\ ~Solved(m)
    BY <2>1
  <2>3. m # 0
    BY <1>4, <2>2
  <2>4. m - 1 \in Nat /\ ~(m <= m - 1)
    BY <2>2, <2>3
  <2>5. Solved(m - 1)
    <3> HIDE DEF Solved
    <3> QED BY <2>1, <2>4
  <2>6. Solved((m - 1) + 1)
    <3> HIDE DEF Solved
    <3> QED BY <1>5, <2>4, <2>5
  <2>7. (m - 1) + 1 = m
    BY <2>2
  <2> HIDE DEF Solved
  <2> QED BY <2>2, <2>6, <2>7
<1>7. Solved(Cardinality(S)) /\ Below(Cardinality(S)) = SUBSET S
  <2>1. Below(Cardinality(S)) = SUBSET S
    BY <1>1
  <2>2. Cardinality(S) \in Nat
    BY FS_CardinalityType
  <2> HIDE DEF Solved
  <2> QED BY <1>6, <2>1, <2>2
<1>8. PICK g \in [SUBSET S -> Int] : \A s \in SUBSET S : g[s] = Step(g, f, s)
  BY <1>7
<1> QED BY <1>8

\* Two solutions for the same numbers agree.
LEMMA SumUnique ==
    ASSUME NEW f, NEW f2, NEW g, NEW g2, NEW S, IsFiniteSet(S),
           Solves(g, f, S), Solves(g2, f2, S), \A x \in S : f[x] = f2[x]
    PROVE  g[S] = g2[S]
<1> USE DEF Solves
<1> DEFINE T == {n \in Nat : \E s \in SUBSET S : Cardinality(s) = n /\ g[s] # g2[s]}
<1>1. \A s \in SUBSET S : IsFiniteSet(s) /\ Cardinality(s) \in Nat
  BY FS_Subset, FS_CardinalityType
<1>2. ASSUME T # {}
      PROVE  FALSE
  <2>1. PICK m \in T : \A k \in T : m <= k
    BY <1>2, LeastNatural
  <2>2. PICK s \in SUBSET S : Cardinality(s) = m /\ g[s] # g2[s]
    BY <2>1
  <2>3. CASE s = {}
    <3>1. g[s] = Step(g, f, s) /\ g2[s] = Step(g2, f2, s)
      BY <2>2
    <3> QED BY <2>2, <2>3, <3>1 DEF Step
  <2>4. CASE s # {}
    <3> DEFINE e == s \ {First(s)}
    <3>1. First(s) \in S /\ e \in SUBSET S /\ Cardinality(e) = m - 1 /\ m \in Nat \ {0}
      BY <1>1, <2>2, <2>4, FirstOfSet
    <3>2. g[e] = g2[e]
      <4>1. m - 1 \in Nat /\ ~(m <= m - 1)
        BY <3>1
      <4>2. m - 1 \notin T
        BY <2>1, <4>1
      <4> HIDE DEF e
      <4> QED BY <3>1, <4>1, <4>2
    <3>3. g[s] = Step(g, f, s) /\ g2[s] = Step(g2, f2, s)
      BY <2>2
    <3> QED BY <2>2, <2>4, <3>1, <3>2, <3>3 DEF Step
  <2> QED BY <2>3, <2>4
<1> QED BY <1>1, <1>2

\* The sum by its recursion, for any set that contains the one summed over.
LEMMA SumSolved ==
    ASSUME NEW f, NEW S, IsFiniteSet(S), \A x \in S : f[x] \in Int
    PROVE  \E g \in [SUBSET S -> Int] :
                /\ Solves(g, f, S)
                /\ \A s \in SUBSET S : SumFunctionOnSet(f, s) = g[s]
<1>1. PICK g : g = [s \in SUBSET S |-> Step(g, f, s)] /\ g \in [SUBSET S -> Int]
  BY SumExists
<1>2. \A s \in SUBSET S : g[s] = Step(g, f, s)
  BY <1>1
<1>3. ASSUME NEW s \in SUBSET S
      PROVE  SumFunctionOnSet(f, s) = g[s]
  <2> DEFINE h == CHOOSE h : h = [e \in SUBSET s |-> Step(h, f, e)]
  <2>1. IsFiniteSet(s) /\ \A x \in s : f[x] \in Int
    BY FS_Subset
  <2>2. \E k : k = [e \in SUBSET s |-> Step(k, f, e)]
    <3>1. PICK k : k = [e \in SUBSET s |-> Step(k, f, e)] /\ k \in [SUBSET s -> Int]
      BY <2>1, SumExists
    <3> QED BY <3>1, Zenon
  <2>3. h = [e \in SUBSET s |-> Step(h, f, e)]
    BY <2>2, Zenon
  <2> HIDE DEF h
  <2>4. Solves(h, f, s) /\ Solves(g, f, s)
    BY <1>2, <2>3 DEF Solves
  <2>5. h[s] = g[s]
    BY <2>1, <2>4, SumUnique
  <2>6. SumFunctionOnSet(f, s) = h[s]
    BY SumDef DEF h
  <2> QED BY <2>5, <2>6
<1> QED BY <1>1, <1>2, <1>3 DEF Solves

LEMMA SumEmpty ==
    ASSUME NEW f
    PROVE  SumFunctionOnSet(f, {}) = 0
<1>1. IsFiniteSet({}) /\ \A x \in {} : f[x] \in Int
  BY FS_EmptySet
<1>2. PICK g \in [SUBSET {} -> Int] :
        /\ Solves(g, f, {})
        /\ \A s \in SUBSET {} : SumFunctionOnSet(f, s) = g[s]
  BY <1>1, SumSolved, Zenon
<1> QED BY <1>2 DEF Solves, Step

LEMMA SumInt ==
    ASSUME NEW f, NEW S, IsFiniteSet(S), \A x \in S : f[x] \in Int
    PROVE  SumFunctionOnSet(f, S) \in Int
<1>1. PICK g \in [SUBSET S -> Int] :
        /\ Solves(g, f, S)
        /\ \A s \in SUBSET S : SumFunctionOnSet(f, s) = g[s]
  BY SumSolved, Zenon
<1> QED BY <1>1

\* Only the numbers summed over matter.
LEMMA SumSame ==
    ASSUME NEW f, NEW f2, NEW S, IsFiniteSet(S),
           \A x \in S : f[x] \in Int /\ f[x] = f2[x]
    PROVE  SumFunctionOnSet(f, S) = SumFunctionOnSet(f2, S)
<1>1. PICK g \in [SUBSET S -> Int] :
        /\ Solves(g, f, S)
        /\ \A s \in SUBSET S : SumFunctionOnSet(f, s) = g[s]
  BY SumSolved, Zenon
<1>2. \A x \in S : f2[x] \in Int
  OBVIOUS
<1>3. PICK g2 \in [SUBSET S -> Int] :
        /\ Solves(g2, f2, S)
        /\ \A s \in SUBSET S : SumFunctionOnSet(f2, s) = g2[s]
  BY <1>2, SumSolved, Zenon
<1>4. g[S] = g2[S]
  BY <1>1, <1>3, SumUnique
<1> QED BY <1>1, <1>3, <1>4

\* Any number can be taken out of a sum: the order of the fold does not matter.
LEMMA SumTake ==
    ASSUME NEW f, NEW S, IsFiniteSet(S), \A x \in S : f[x] \in Int, NEW x \in S
    PROVE  SumFunctionOnSet(f, S) = f[x] + SumFunctionOnSet(f, S \ {x})
<1>1. PICK g \in [SUBSET S -> Int] :
        /\ Solves(g, f, S)
        /\ \A s \in SUBSET S : SumFunctionOnSet(f, s) = g[s]
  BY SumSolved, Zenon
<1> DEFINE T == {n \in Nat : \E s \in SUBSET S : /\ Cardinality(s) = n
                                                 /\ \E z \in s : g[s] # f[z] + g[s \ {z}]}
<1>2. \A s \in SUBSET S : IsFiniteSet(s) /\ Cardinality(s) \in Nat
  BY FS_Subset, FS_CardinalityType
<1>3. ASSUME T # {}
      PROVE  FALSE
  <2>1. PICK m \in T : \A k \in T : m <= k
    BY <1>3, LeastNatural
  <2>2. PICK s \in SUBSET S, z \in S :
            z \in s /\ Cardinality(s) = m /\ g[s] # f[z] + g[s \ {z}]
    BY <2>1
  <2> DEFINE y == First(s)
  <2>3. y \in S /\ y \in s /\ s # {} /\ m \in Nat \ {0}
    BY <1>2, <2>2, FirstOfSet
  <2>4. g[s] = f[y] + g[s \ {y}]
    BY <1>1, <2>3 DEF Solves, Step
  <2>5. y # z /\ z \in S
    BY <2>2, <2>4
  <2>6. \A e \in s : Cardinality(s \ {e}) = m - 1
    BY <1>2, <2>2, FS_RemoveElement
  <2>7. m - 1 \in Nat /\ ~(m <= m - 1)
    BY <2>3
  <2>8. m - 1 \notin T
    BY <2>1, <2>7
  <2> HIDE DEF y
  <2>9. g[s \ {y}] = f[z] + g[(s \ {y}) \ {z}]
    <3>1. s \ {y} \in SUBSET S /\ z \in s \ {y} /\ Cardinality(s \ {y}) = m - 1
      BY <2>2, <2>3, <2>5, <2>6
    <3> QED BY <2>7, <2>8, <3>1
  <2>10. g[s \ {z}] = f[y] + g[(s \ {z}) \ {y}]
    <3>1. s \ {z} \in SUBSET S /\ y \in s \ {z} /\ Cardinality(s \ {z}) = m - 1
      BY <2>2, <2>3, <2>5, <2>6
    <3> QED BY <2>7, <2>8, <3>1
  <2>11. (s \ {z}) \ {y} = (s \ {y}) \ {z} /\ (s \ {z}) \ {y} \in SUBSET S
    OBVIOUS
  <2>12. f[y] \in Int /\ f[z] \in Int /\ g[(s \ {z}) \ {y}] \in Int
    BY <2>3, <2>5, <2>11
  <2>13. g[s \ {z}] = f[y] + g[(s \ {y}) \ {z}] /\ g[(s \ {y}) \ {z}] \in Int
    BY <2>10, <2>11, <2>12
  <2>14. f[y] + (f[z] + g[(s \ {y}) \ {z}]) = f[z] + (f[y] + g[(s \ {y}) \ {z}])
    BY <2>12, <2>13
  <2> QED BY <2>2, <2>4, <2>9, <2>13, <2>14, Zenon
<1>4. g[S] = f[x] + g[S \ {x}]
  BY <1>2, <1>3
<1>5. S \ {x} \in SUBSET S /\ S \in SUBSET S
  OBVIOUS
<1> QED BY <1>1, <1>4, <1>5

\* What solves the recursion is the sum.
LEMMA SumIs ==
    ASSUME NEW f, NEW S, IsFiniteSet(S), \A x \in S : f[x] \in Int,
           NEW g2, Solves(g2, f, S)
    PROVE  SumFunctionOnSet(f, S) = g2[S]
<1>1. PICK g \in [SUBSET S -> Int] :
        /\ Solves(g, f, S)
        /\ \A s \in SUBSET S : SumFunctionOnSet(f, s) = g[s]
  BY SumSolved, Zenon
<1>2. g[S] = g2[S]
  BY <1>1, SumUnique
<1> QED BY <1>1, <1>2

LEMMA SumZero ==
    ASSUME NEW f, NEW S, IsFiniteSet(S), \A x \in S : f[x] = 0
    PROVE  SumFunctionOnSet(f, S) = 0
<1> DEFINE zero == [s \in SUBSET S |-> 0]
<1>1. ASSUME NEW s \in SUBSET S
      PROVE  zero[s] = 0 /\ zero[s] = Step(zero, f, s)
  <2>1. s # {} => First(s) \in s /\ s \ {First(s)} \in SUBSET S
    BY DEF First
  <2> QED BY <2>1 DEF Step
<1>2. \A x \in S : f[x] \in Int
  OBVIOUS
<1> HIDE DEF zero
<1>3. SumFunctionOnSet(f, S) = zero[S]
  BY <1>1, <1>2, SumIs DEF Solves
<1> QED BY <1>1, <1>3

\* A sum of naturals is one.
LEMMA SumNat ==
    ASSUME NEW f, NEW S, IsFiniteSet(S), \A x \in S : f[x] \in Nat
    PROVE  SumFunctionOnSet(f, S) \in Nat
<1>0. \A x \in S : f[x] \in Int
  OBVIOUS
<1>1. PICK g \in [SUBSET S -> Int] :
        /\ Solves(g, f, S)
        /\ \A s \in SUBSET S : SumFunctionOnSet(f, s) = g[s]
  BY <1>0, SumSolved, Zenon
<1> DEFINE T == {n \in Nat : \E s \in SUBSET S : Cardinality(s) = n /\ g[s] \notin Nat}
<1>2. \A s \in SUBSET S : IsFiniteSet(s) /\ Cardinality(s) \in Nat
  BY FS_Subset, FS_CardinalityType
<1>3. ASSUME T # {}
      PROVE  FALSE
  <2>1. PICK m \in T : \A k \in T : m <= k
    BY <1>3, LeastNatural
  <2>2. PICK s \in SUBSET S : Cardinality(s) = m /\ g[s] \notin Nat
    BY <2>1
  <2> DEFINE y == First(s)
             rest == s \ {y}
  <2>3. g[s] = Step(g, f, s)
    BY <1>1 DEF Solves
  <2>4. s # {}
    BY <2>2, <2>3 DEF Step
  <2>5. y \in S /\ m \in Nat \ {0} /\ rest \in SUBSET S /\ Cardinality(rest) = m - 1
    BY <1>2, <2>2, <2>4, FirstOfSet
  <2>6. g[s] = f[y] + g[rest]
    BY <2>3, <2>4 DEF Step
  <2> HIDE DEF y, rest
  <2>7. m - 1 \in Nat /\ ~(m <= m - 1)
    BY <2>5
  <2>8. g[rest] \in Nat
    BY <2>1, <2>5, <2>7
  <2> QED BY <2>2, <2>5, <2>6, <2>8
<1>4. g[S] \in Nat
  BY <1>2, <1>3
<1> QED BY <1>1, <1>4

\* A number changes: its sum changes by as much.
LEMMA SumChange ==
    ASSUME NEW f, NEW f2, NEW S, IsFiniteSet(S), NEW x,
           \A y \in S : f[y] \in Int /\ f2[y] \in Int /\ (y # x => f2[y] = f[y])
    PROVE  /\ x \in S => SumFunctionOnSet(f2, S) = SumFunctionOnSet(f, S) - f[x] + f2[x]
           /\ x \notin S => SumFunctionOnSet(f2, S) = SumFunctionOnSet(f, S)
<1>1. CASE x \in S
  <2> DEFINE rest == S \ {x}
  <2>1. IsFiniteSet(rest)
    BY FS_Subset
  <2>2. \A y \in rest : f[y] \in Int /\ f[y] = f2[y]
    OBVIOUS
  <2>3. SumFunctionOnSet(f, rest) = SumFunctionOnSet(f2, rest) /\ SumFunctionOnSet(f, rest) \in Int
    <3> HIDE DEF rest
    <3> QED BY <2>1, <2>2, SumSame, SumInt
  <2>4. SumFunctionOnSet(f, S) = f[x] + SumFunctionOnSet(f, rest)
    BY <1>1, SumTake
  <2>5. SumFunctionOnSet(f2, S) = f2[x] + SumFunctionOnSet(f2, rest)
    BY <1>1, SumTake
  <2> HIDE DEF rest
  <2> QED BY <1>1, <2>3, <2>4, <2>5
<1>2. CASE x \notin S
  <2>1. \A y \in S : f[y] \in Int /\ f[y] = f2[y]
    BY <1>2
  <2> QED BY <1>2, <2>1, SumSame
<1> QED BY <1>1, <1>2

\* A sum of naturals is at least each of them.
LEMMA SumAtLeast ==
    ASSUME NEW f, NEW S, IsFiniteSet(S), \A x \in S : f[x] \in Nat, NEW x \in S
    PROVE  f[x] <= SumFunctionOnSet(f, S)
<1>1. IsFiniteSet(S \ {x}) /\ \A y \in S \ {x} : f[y] \in Nat
  BY FS_Subset
<1>2. SumFunctionOnSet(f, S \ {x}) \in Nat
  BY <1>1, SumNat
<1>3. SumFunctionOnSet(f, S) = f[x] + SumFunctionOnSet(f, S \ {x})
  BY SumTake
<1> QED BY <1>2, <1>3

\* The sum of a sequence of integers, and of one with another at its end.
LEMMA SumSequence ==
    /\ SumFunction(<<>>) = 0
    /\ \A q \in Seq(Int) : \A x \in Int :
        SumFunction(q) \in Int /\ SumFunction(Append(q, x)) = SumFunction(q) + x
<1>1. SumFunction(<<>>) = 0
  <2>1. DOMAIN <<>> = {}
    OBVIOUS
  <2> QED BY <2>1, SumEmpty DEF SumFunction
<1>2. ASSUME NEW q \in Seq(Int), NEW x \in Int
      PROVE  SumFunction(q) \in Int /\ SumFunction(Append(q, x)) = SumFunction(q) + x
  <2> DEFINE n == Len(q) + 1
             p == Append(q, x)
  <2>1. n \in Nat /\ n \notin 1..Len(q) /\ DOMAIN q = 1..Len(q) /\ DOMAIN p = 1..n
    OBVIOUS
  <2>2. p[n] = x /\ \A i \in 1..Len(q) : q[i] \in Int /\ p[i] = q[i]
    OBVIOUS
  <2>3. \A i \in 1..n : p[i] \in Int
    <3> HIDE DEF p
    <3>1. \A i \in 1..n : i = n \/ i \in 1..Len(q)
      BY <2>1
    <3> QED BY <2>2, <3>1
  <2>4. (1..n) \ {n} = 1..Len(q)
    BY <2>1
  <2>5. IsFiniteSet(1..n) /\ IsFiniteSet(1..Len(q))
    BY <2>1, FS_Interval
  <2>6. SumFunctionOnSet(q, 1..Len(q)) = SumFunctionOnSet(p, 1..Len(q))
    <3> HIDE DEF p
    <3> QED BY <2>2, <2>5, SumSame
  <2>7. SumFunctionOnSet(q, 1..Len(q)) \in Int
    BY <2>2, <2>5, SumInt
  <2>8. SumFunctionOnSet(p, 1..n) = p[n] + SumFunctionOnSet(p, (1..n) \ {n})
    <3>1. n \in 1..n
      BY <2>1
    <3> DEFINE D == 1..n
    <3>2. IsFiniteSet(D) /\ n \in D /\ \A i \in D : p[i] \in Int
      BY <2>3, <2>5, <3>1
    <3> HIDE DEF p, n, D
    <3>3. SumFunctionOnSet(p, D) = p[n] + SumFunctionOnSet(p, D \ {n})
      BY <3>2, SumTake
    <3> QED BY <3>3 DEF D
  <2> HIDE DEF p, n
  <2>9. SumFunction(q) = SumFunctionOnSet(q, 1..Len(q)) /\ SumFunction(p) = SumFunctionOnSet(p, 1..n)
    BY <2>1 DEF SumFunction
  <2>10. SumFunction(p) = SumFunction(q) + x /\ SumFunction(q) \in Int
    <3>1. SumFunction(p) = x + SumFunction(q)
      BY <2>2, <2>4, <2>6, <2>8, <2>9
    <3> QED BY <2>7, <2>9, <3>1
  <2> QED BY <2>10 DEF p
<1> QED BY <1>1, <1>2

-----------------------------------------------------------------------------
(* Rounding                                                                    *)

LEMMA Distribute == \A d, a, b \in Int : d * (a + b) = d * a + d * b
OBVIOUS

LEMMA Twice == \A d, a \in Int : 2 * d * a = 2 * (d * a)
OBVIOUS

LEMMA Product == \A d, a \in Int : d * a \in Int
OBVIOUS

LEMMA Scale == \A d, a, b \in Int : d >= 0 /\ a <= b => d * a <= d * b
OBVIOUS

LEMMA NearestType ==
    ASSUME NEW x \in Int, NEW d \in Nat \ {0}
    PROVE  \A c \in Nearest(x, d) : c \in Int /\ Rounds(x, d, c)
<1>1. x \div d \in Int
  OBVIOUS
<1>2. \A q \in Int : \A c \in q..(q + 1) : c \in Int
  OBVIOUS
<1>3. \A c \in Nearest(x, d) : c \in (x \div d)..(x \div d + 1) /\ Rounds(x, d, c)
  BY DEF Nearest
<1> QED BY <1>1, <1>2, <1>3

\* A whole number taken off before rounding can be put back afterwards.
LEMMA RoundsShift ==
    ASSUME NEW x \in Int, NEW d \in Int, NEW taken \in Int, NEW c \in Int,
           Rounds(x - d * taken, d, c)
    PROVE  Rounds(x, d, taken + c)
<1> DEFINE u == d * taken
           v == d * c
<1>1. /\ taken + c \in Int /\ u \in Int /\ v \in Int
      /\ d * (taken + c) = u + v
  BY Distribute, Product
<1>2. 2 * d * c = 2 * v /\ 2 * d * (taken + c) = 2 * (d * (taken + c))
  BY <1>1, Twice
<1>3. 2 * (x - u) - 2 * v = 2 * x - 2 * (u + v)
  <2> HIDE DEF u, v
  <2> QED BY <1>1
<1>4. 2 * (x - d * taken) - 2 * d * c = 2 * x - 2 * d * (taken + c)
  BY <1>1, <1>2, <1>3
<1> QED BY <1>4 DEF Rounds

\* A number is at most half a unit more than what it is rounded to.
LEMMA RoundsAtMost ==
    ASSUME NEW x \in Int, NEW d \in Int, NEW c \in Int, Rounds(x, d, c)
    PROVE  2 * x <= d * (2 * c + 1)
<1> DEFINE v == d * c
<1>1. v \in Int /\ 2 * d * c = 2 * v
  BY Product, Twice
<1>2. 2 * x - 2 * v <= d
  BY <1>1 DEF Rounds
<1>3. d * (2 * c + 1) = 2 * v + d
  <2>1. 2 * c + 1 = c + (c + 1) /\ d * 1 = d
    OBVIOUS
  <2>2. d * (c + (c + 1)) = v + (v + d)
    BY <2>1, Distribute
  <2> HIDE DEF v
  <2> QED BY <1>1, <2>1, <2>2
<1> HIDE DEF v
<1>4. 2 * x <= 2 * v + d
  BY <1>1, <1>2
<1> QED BY <1>3, <1>4

\* So is a sum, for each of its numbers.
LEMMA SumRounded ==
    ASSUME NEW f, NEW h, NEW d \in Int, NEW S, IsFiniteSet(S),
           \A x \in S : f[x] \in Int /\ h[x] \in Int /\ 2 * f[x] <= d * (2 * h[x] + 1)
    PROVE  2 * SumFunctionOnSet(f, S) <= d * (2 * SumFunctionOnSet(h, S) + Cardinality(S))
<1>0. (\A x \in S : f[x] \in Int) /\ (\A x \in S : h[x] \in Int)
  OBVIOUS
<1>1. PICK g \in [SUBSET S -> Int] :
        /\ Solves(g, f, S)
        /\ \A s \in SUBSET S : SumFunctionOnSet(f, s) = g[s]
  BY <1>0, SumSolved, Zenon
<1>2. PICK k \in [SUBSET S -> Int] :
        /\ Solves(k, h, S)
        /\ \A s \in SUBSET S : SumFunctionOnSet(h, s) = k[s]
  BY <1>0, SumSolved, Zenon
<1> DEFINE Kept(s) == 2 * g[s] <= d * (2 * k[s] + Cardinality(s))
           T == {n \in Nat : \E s \in SUBSET S : Cardinality(s) = n /\ ~Kept(s)}
<1>3. \A s \in SUBSET S : IsFiniteSet(s) /\ Cardinality(s) \in Nat
  BY FS_Subset, FS_CardinalityType
<1>4. ASSUME T # {}
      PROVE  FALSE
  <2>1. PICK m \in T : \A n \in T : m <= n
    BY <1>4, LeastNatural
  <2>2. PICK s \in SUBSET S : Cardinality(s) = m /\ ~Kept(s)
    BY <2>1
  <2> DEFINE y == First(s)
             rest == s \ {y}
             a == 2 * h[y] + 1
             b == 2 * k[rest] + (m - 1)
  <2>3. g[s] = Step(g, f, s) /\ k[s] = Step(k, h, s)
    BY <1>1, <1>2 DEF Solves
  <2>4. s # {}
    <3>1. ASSUME s = {}
          PROVE  FALSE
      <4>1. g[s] = 0 /\ k[s] = 0 /\ Cardinality(s) = 0
        BY <2>3, <3>1, FS_EmptySet DEF Step
      <4>2. d * 0 = 0
        OBVIOUS
      <4> QED BY <2>2, <4>1, <4>2
    <3> QED BY <3>1
  <2>5. y \in S /\ m \in Nat \ {0} /\ rest \in SUBSET S /\ Cardinality(rest) = m - 1
    BY <1>3, <2>2, <2>4, FirstOfSet
  <2>6. g[s] = f[y] + g[rest] /\ k[s] = h[y] + k[rest]
    BY <2>3, <2>4 DEF Step
  <2> HIDE DEF y, rest
  <2>7. m - 1 \in Nat /\ ~(m <= m - 1)
    BY <2>5
  <2>8. Kept(rest)
    <3> HIDE DEF Kept
    <3> QED BY <2>1, <2>5, <2>7
  <2>9. a \in Int /\ b \in Int /\ f[y] \in Int /\ g[rest] \in Int
    BY <2>5
  <2>10. 2 * f[y] <= d * a /\ 2 * g[rest] <= d * b
    BY <2>5, <2>8
  <2>11. 2 * k[s] + m = a + b
    BY <2>5, <2>6
  <2> HIDE DEF a, b
  <2>12. d * (a + b) = d * a + d * b /\ d * a \in Int /\ d * b \in Int
    BY <2>9, Distribute, Product
  <2>13. 2 * g[s] <= d * (a + b)
    BY <2>6, <2>9, <2>10, <2>12
  <2> QED BY <2>2, <2>11, <2>13
<1>5. Kept(S)
  <2>1. Cardinality(S) \in Nat
    BY <1>3
  <2> HIDE DEF Kept
  <2> QED BY <1>4, <2>1
<1> QED BY <1>1, <1>2, <1>5

=============================================================================
