--------------------------- MODULE LedgerProofs ---------------------------
(***************************************************************************)
(* Proofs about the arithmetic of Ledger, for every width of an Amount and *)
(* every number of lines.                                                  *)
(*                                                                         *)
(* Induction over data is by the least counterexample: the numbers, or the *)
(* subsets of a finite set, for which a claim fails have a least element   *)
(* (LeastNat, LeastSubset), and it cannot be one.                          *)
(***************************************************************************)
EXTENDS Ledger, FiniteSetTheorems, TLAPS

\* Every nonempty set of natural numbers has a least element.
LEMMA LeastNat ==
  ASSUME NEW T \in SUBSET Nat, T # {}
  PROVE  \E m \in T : \A k \in T : m <= k
<1> DEFINE R == OpToRel(<, Nat)
<1>1. IsWellFoundedOn(R, Nat)
  BY NatLessThanWellFounded
<1>2. ASSUME NEW x \in Nat, NEW y \in Nat, <<y, x>> \notin R
      PROVE  x <= y
  BY <1>2 DEF OpToRel
<1> HIDE DEF R
<1>3. PICK m \in T : \A k \in T : <<k, m>> \notin R
  BY <1>1, WFMin
<1>4. \A k \in T : m <= k
  BY <1>2, <1>3
<1> QED
  BY <1>4

\* Every nonempty set of subsets of a finite set has a minimal element.
LEMMA LeastSubset ==
  ASSUME NEW S, IsFiniteSet(S), NEW T \in SUBSET (SUBSET S), T # {}
  PROVE  \E U \in T : \A V \in T : V \subseteq U => V = U
<1> DEFINE R == StrictSubsetOrdering(S)
<1>1. IsWellFoundedOn(R, SUBSET S)
  BY FS_StrictSubsetOrderingWellFounded, FS_FiniteSubsetsOfFinite
<1>2. \A x, y \in SUBSET S : y \subseteq x /\ y # x => <<y, x>> \in R
  BY DEF StrictSubsetOrdering
<1> HIDE DEF R
<1>3. PICK U \in T : \A V \in T : <<V, U>> \notin R
  BY <1>1, WFMin
<1> QED
  BY <1>2, <1>3

-----------------------------------------------------------------------------
(* The fold behind a sum is a table of the sums over all subsets.          *)

pick(s) == CHOOSE x \in s : TRUE

StepOf(f, g, s) == IF s = {} THEN 0 ELSE f[pick(s)] + g[s \ {pick(s)}]

IsTable(f, D, g) == g \in [D -> Int] /\ \A s \in D : g[s] = StepOf(f, g, s)

\* The subsets of S with at most n elements.
Small(S, n) == {s \in SUBSET S : Cardinality(s) <= n}

LEMMA PickIn ==
  ASSUME NEW s, s # {}
  PROVE  pick(s) \in s
  BY DEF pick

LEMMA SmallRest ==
  ASSUME NEW S, IsFiniteSet(S), NEW n \in Nat, NEW s \in Small(S, n + 1), s # {}
  PROVE  /\ pick(s) \in S /\ s \ {pick(s)} \in Small(S, n)
<1>1. s \subseteq S /\ IsFiniteSet(s) /\ Cardinality(s) <= n + 1
  BY FS_Subset DEF Small
<1>2. Cardinality(s \ {pick(s)}) = Cardinality(s) - 1 /\ Cardinality(s) \in Nat
  BY <1>1, PickIn, FS_RemoveElement, FS_CardinalityType
<1> QED
  BY <1>1, <1>2, PickIn DEF Small

LEMMA TableStep ==
  ASSUME NEW S, IsFiniteSet(S), NEW f, \A x \in S : f[x] \in Int,
         NEW n \in Nat, NEW g, IsTable(f, Small(S, n), g)
  PROVE  \E h : IsTable(f, Small(S, n + 1), h)
<1> DEFINE h == [s \in Small(S, n + 1) |->
                   IF s \in Small(S, n) THEN g[s] ELSE StepOf(f, g, s)]
<1>1. \A s \in Small(S, n) : s \in Small(S, n + 1)
  <2> SUFFICES ASSUME NEW s \in Small(S, n) PROVE s \in Small(S, n + 1)
    OBVIOUS
  <2>1. s \subseteq S /\ Cardinality(s) <= n /\ Cardinality(s) \in Nat
    BY FS_Subset, FS_CardinalityType DEF Small
  <2> QED
    BY <2>1 DEF Small
<1>2. \A s \in Small(S, n) : h[s] = g[s]
  BY <1>1
<1>3. ASSUME NEW s \in Small(S, n + 1)
      PROVE  h[s] \in Int /\ h[s] = StepOf(f, h, s)
  <2>1. s # {} => s \ {pick(s)} \in Small(S, n) /\ f[pick(s)] \in Int
    BY SmallRest
  <2>2. StepOf(f, h, s) = StepOf(f, g, s)
    BY <1>2, <2>1 DEF StepOf
  <2>3. StepOf(f, g, s) \in Int
    BY <2>1 DEF StepOf, IsTable
  <2>4. h[s] = StepOf(f, g, s)
    BY DEF IsTable
  <2> QED
    BY <2>2, <2>3, <2>4
<1> HIDE DEF h
<1>4. h \in [Small(S, n + 1) -> Int]
  BY <1>3 DEF h
<1> QED
  BY <1>3, <1>4 DEF IsTable

LEMMA TableExists ==
  ASSUME NEW S, IsFiniteSet(S), NEW f, \A x \in S : f[x] \in Int
  PROVE  \E g : IsTable(f, SUBSET S, g)
<1> DEFINE Good(n) == \E g : IsTable(f, Small(S, n), g)
           T == {n \in Nat : ~Good(n)}
<1>1. Good(0)
  <2>1. \A s \in Small(S, 0) : s = {}
    BY FS_Subset, FS_CardinalityType, FS_EmptySet DEF Small
  <2>2. IsTable(f, Small(S, 0), [s \in Small(S, 0) |-> 0])
    BY <2>1 DEF IsTable, StepOf
  <2> QED
    BY <2>2
<1>2. ASSUME NEW n \in Nat, Good(n) PROVE Good(n + 1)
  BY <1>2, TableStep
<1> HIDE DEF Good
<1>3. T = {}
  <2> SUFFICES ASSUME T # {} PROVE FALSE
    OBVIOUS
  <2>1. PICK m \in T : \A k \in T : m <= k
    <3> HIDE DEF T
    <3>1. T \in SUBSET Nat
      BY DEF T
    <3> QED
      BY <3>1, LeastNat
  <2>2. m # 0 /\ m \in Nat /\ m - 1 \in Nat /\ m - 1 \notin T
    BY <1>1, <2>1
  <2>3. Good(m - 1) /\ (m - 1) + 1 = m
    BY <2>2
  <2>4. Good(m)
    BY <1>2, <2>2, <2>3
  <2> QED
    BY <2>1, <2>4
<1>4. Good(Cardinality(S))
  BY <1>3, FS_CardinalityType
<1>5. Small(S, Cardinality(S)) = SUBSET S
  BY FS_Subset DEF Small
<1> QED
  BY <1>4, <1>5 DEF Good

\* There is one table only, and it depends on the terms in S only.
LEMMA TablesAgree ==
  ASSUME NEW S, IsFiniteSet(S), NEW f, NEW e, \A x \in S : f[x] = e[x], NEW g, NEW h,
         \A s \in SUBSET S : g[s] = StepOf(f, g, s),
         \A s \in SUBSET S : h[s] = StepOf(e, h, s)
  PROVE  \A s \in SUBSET S : g[s] = h[s]
<1> DEFINE T == {s \in SUBSET S : g[s] # h[s]}
<1> SUFFICES ASSUME T # {} PROVE FALSE
  OBVIOUS
<1>1. PICK U \in T : \A V \in T : V \subseteq U => V = U
  <2> HIDE DEF T
  <2>1. T \in SUBSET (SUBSET S)
    BY DEF T
  <2> QED
    BY <2>1, LeastSubset
<1>2. U \in SUBSET S /\ g[U] = StepOf(f, g, U) /\ h[U] = StepOf(e, h, U) /\ g[U] # h[U]
  OBVIOUS
<1>3. U # {}
  BY <1>2 DEF StepOf
<1>4. pick(U) \in U /\ f[pick(U)] = e[pick(U)]
  BY <1>2, <1>3, PickIn
<1>5. U \ {pick(U)} \notin T
  <2> HIDE DEF T
  <2> QED
    BY <1>1, <1>4
<1>6. g[U \ {pick(U)}] = h[U \ {pick(U)}]
  BY <1>2, <1>5
<1> QED
  BY <1>2, <1>3, <1>4, <1>6 DEF StepOf

\* What SumFunctionOnSet looks up: a table of the sums over all subsets.
LEMMA SumIsTable ==
  ASSUME NEW S, IsFiniteSet(S), NEW f, \A x \in S : f[x] \in Int
  PROVE  \E g : IsTable(f, SUBSET S, g) /\ SumFunctionOnSet(f, S) = g[S]
<1>1. PICK h : IsTable(f, SUBSET S, h)
  BY TableExists
<1> DEFINE Eq(g) == g = [s \in SUBSET S |->
                           IF s = {} THEN 0
                           ELSE f[CHOOSE x \in s : TRUE] + g[s \ {CHOOSE x \in s : TRUE}]]
           g == CHOOSE g : Eq(g)
<1>2. Eq(h)
  BY <1>1 DEF IsTable, StepOf, pick
<1>3. Eq(g)
  BY <1>2
<1>4. SumFunctionOnSet(f, S) = g[S]
  BY DEF SumFunctionOnSet, FoldFunctionOnSet, MapThenFoldSet
<1>5. \A s \in SUBSET S : g[s] = StepOf(f, g, s)
  BY <1>3 DEF StepOf, pick
<1>6. \A s \in SUBSET S : g[s] = h[s]
  <2> HIDE DEF g
  <2>1. \A s \in SUBSET S : h[s] = StepOf(f, h, s)
    BY <1>1 DEF IsTable
  <2> QED
    BY <1>5, <2>1, TablesAgree
<1>7. g \in [SUBSET S -> Int]
  <2>1. g = [s \in SUBSET S |-> g[s]]
    BY <1>3
  <2>2. \A s \in SUBSET S : g[s] \in Int
    BY <1>1, <1>6 DEF IsTable
  <2> HIDE DEF g
  <2> QED
    BY <2>1, <2>2
<1> QED
  BY <1>4, <1>5, <1>7 DEF IsTable

-----------------------------------------------------------------------------
(* What a proof needs to know of a sum.                                    *)

LEMMA SumOfNone ==
  ASSUME NEW f
  PROVE  SumFunctionOnSet(f, {}) = 0
<1>1. PICK g : IsTable(f, SUBSET {}, g) /\ SumFunctionOnSet(f, {}) = g[{}]
  BY SumIsTable, FS_EmptySet
<1> QED
  BY <1>1 DEF IsTable, StepOf

LEMMA SumType ==
  ASSUME NEW S, IsFiniteSet(S), NEW f, \A x \in S : f[x] \in Int
  PROVE  SumFunctionOnSet(f, S) \in Int
<1>1. PICK g : IsTable(f, SUBSET S, g) /\ SumFunctionOnSet(f, S) = g[S]
  BY SumIsTable
<1> QED
  BY <1>1 DEF IsTable

\* A sum depends on its terms only.
LEMMA SumSame ==
  ASSUME NEW S, IsFiniteSet(S), NEW f, \A x \in S : f[x] \in Int,
         NEW e, \A x \in S : e[x] = f[x]
  PROVE  SumFunctionOnSet(e, S) = SumFunctionOnSet(f, S)
<1>1. PICK g : IsTable(f, SUBSET S, g) /\ SumFunctionOnSet(f, S) = g[S]
  BY SumIsTable
<1>2. PICK h : IsTable(e, SUBSET S, h) /\ SumFunctionOnSet(e, S) = h[S]
  BY SumIsTable
<1>3. \A s \in SUBSET S : g[s] = h[s]
  BY <1>1, <1>2, TablesAgree DEF IsTable
<1> QED
  BY <1>1, <1>2, <1>3

\* The table of S has the sum over every subset.
LEMMA TableHasSums ==
  ASSUME NEW S, IsFiniteSet(S), NEW f, \A x \in S : f[x] \in Int,
         NEW g, IsTable(f, SUBSET S, g), NEW U \in SUBSET S
  PROVE  SumFunctionOnSet(f, U) = g[U]
<1>1. IsFiniteSet(U) /\ \A x \in U : f[x] \in Int
  BY FS_Subset
<1>2. PICK h : IsTable(f, SUBSET U, h) /\ SumFunctionOnSet(f, U) = h[U]
  BY <1>1, SumIsTable
<1>3. \A s \in SUBSET U : g[s] = StepOf(f, g, s)
  BY DEF IsTable
<1>4. \A s \in SUBSET U : g[s] = h[s]
  BY <1>1, <1>2, <1>3, TablesAgree DEF IsTable
<1> QED
  BY <1>2, <1>4

\* Any term can be taken out of a sum, not only the one the fold takes first.
LEMMA SumWithout ==
  ASSUME NEW S, IsFiniteSet(S), NEW f, \A x \in S : f[x] \in Int, NEW y \in S
  PROVE  SumFunctionOnSet(f, S) = f[y] + SumFunctionOnSet(f, S \ {y})
<1>1. PICK g : IsTable(f, SUBSET S, g)
  BY SumIsTable
<1> DEFINE T == {U \in SUBSET S : \E x \in U : g[U] # f[x] + g[U \ {x}]}
<1>2. T = {}
  <2> SUFFICES ASSUME T # {} PROVE FALSE
    OBVIOUS
  <2>1. PICK U \in T : \A V \in T : V \subseteq U => V = U
    <3> HIDE DEF T
    <3>1. T \in SUBSET (SUBSET S)
      BY DEF T
    <3> QED
      BY <3>1, LeastSubset
  <2>2. PICK x \in U : g[U] # f[x] + g[U \ {x}]
    BY <2>1
  <2> DEFINE p == pick(U)
  <2>3. U \in SUBSET S /\ p \in U /\ g[U] = f[p] + g[U \ {p}]
    BY <1>1, <2>2, PickIn DEF IsTable, StepOf
  <2> HIDE DEF p
  <2>4. p # x
    BY <2>2, <2>3
  <2>5. U \ {p} \notin T /\ U \ {x} \notin T
    <3> HIDE DEF T
    <3> QED
      BY <2>1, <2>2, <2>3
  <2>6. g[U \ {p}] = f[x] + g[(U \ {p}) \ {x}]
    BY <2>2, <2>3, <2>4, <2>5
  <2>7. g[U \ {x}] = f[p] + g[(U \ {x}) \ {p}]
    BY <2>2, <2>3, <2>4, <2>5
  <2>8. (U \ {x}) \ {p} = (U \ {p}) \ {x}
    OBVIOUS
  <2>9. /\ f[x] \in Int /\ f[p] \in Int /\ g[(U \ {p}) \ {x}] \in Int
    BY <1>1, <2>2, <2>3 DEF IsTable
  <2>10. f[p] + (f[x] + g[(U \ {p}) \ {x}]) = f[x] + (f[p] + g[(U \ {p}) \ {x}])
    BY <2>9
  <2> QED
    BY <2>2, <2>3, <2>6, <2>7, <2>8, <2>10, Zenon
<1>3. g[S] = f[y] + g[S \ {y}]
  BY <1>2
<1> QED
  BY <1>1, <1>3, TableHasSums

\* A term more.
LEMMA SumWith ==
  ASSUME NEW S, IsFiniteSet(S), NEW f, NEW y, y \notin S, \A x \in S \cup {y} : f[x] \in Int
  PROVE  SumFunctionOnSet(f, S \cup {y}) = SumFunctionOnSet(f, S) + f[y]
<1>1. IsFiniteSet(S \cup {y}) /\ (S \cup {y}) \ {y} = S
  BY FS_AddElement
<1>2. SumFunctionOnSet(f, S \cup {y}) = f[y] + SumFunctionOnSet(f, S)
  BY <1>1, SumWithout
<1>3. SumFunctionOnSet(f, S) \in Int /\ f[y] \in Int
  BY SumType
<1> QED
  BY <1>2, <1>3

\* The same for the sum of all values of a function.
LEMMA SumFunctionType ==
  ASSUME NEW S, IsFiniteSet(S), NEW f \in [S -> Int]
  PROVE  SumFunction(f) \in Int
<1>1. DOMAIN f = S /\ \A x \in S : f[x] \in Int
  OBVIOUS
<1>2. SumFunctionOnSet(f, S) \in Int
  BY <1>1, SumType
<1> QED
  BY <1>1, <1>2 DEF SumFunction

\* Zeros add up to zero.
LEMMA SumZero ==
  ASSUME NEW S, IsFiniteSet(S), NEW f, \A x \in S : f[x] = 0
  PROVE  SumFunctionOnSet(f, S) = 0
<1> DEFINE T == {U \in SUBSET S : SumFunctionOnSet(f, U) # 0}
<1>1. T = {}
  <2> SUFFICES ASSUME T # {} PROVE FALSE
    OBVIOUS
  <2>1. PICK U \in T : \A V \in T : V \subseteq U => V = U
    <3> HIDE DEF T
    <3>1. T \in SUBSET (SUBSET S)
      BY DEF T
    <3> QED
      BY <3>1, LeastSubset
  <2>2. U \subseteq S /\ IsFiniteSet(U) /\ SumFunctionOnSet(f, U) # 0
    BY <2>1, FS_Subset
  <2>3. U # {}
    BY <2>2, SumOfNone
  <2>4. PICK x \in U : TRUE
    BY <2>3
  <2>5. U \ {x} \subseteq S /\ U \ {x} \subseteq U /\ U \ {x} # U
    BY <2>2, <2>4
  <2>6. SumFunctionOnSet(f, U \ {x}) = 0
    BY <2>1, <2>5
  <2>7. \A y \in U : f[y] \in Int
    BY <2>2
  <2>8. SumFunctionOnSet(f, U) = f[x] + SumFunctionOnSet(f, U \ {x})
    BY <2>2, <2>7, SumWithout
  <2> QED
    BY <2>2, <2>4, <2>6, <2>8
<1>2. S \notin T
  BY <1>1
<1> QED
  BY <1>2

\* One value changes.
LEMMA SumChange ==
  ASSUME NEW S, IsFiniteSet(S), NEW y \in S, NEW f \in [S -> Int], NEW g \in [S -> Int],
         \A x \in S : x # y => g[x] = f[x]
  PROVE  SumFunction(g) = SumFunction(f) - f[y] + g[y]
<1> DEFINE R == S \ {y}
<1>1. DOMAIN f = S /\ DOMAIN g = S /\ \A x \in S : f[x] \in Int /\ g[x] \in Int
  OBVIOUS
<1>2. IsFiniteSet(R) /\ R \subseteq S /\ \A x \in R : g[x] = f[x] /\ f[x] \in Int
  BY <1>1, FS_Subset
<1>3. SumFunctionOnSet(f, S) = f[y] + SumFunctionOnSet(f, R)
  BY <1>1, SumWithout
<1>4. SumFunctionOnSet(g, S) = g[y] + SumFunctionOnSet(g, R)
  BY <1>1, SumWithout
<1> HIDE DEF R
<1>5. SumFunctionOnSet(g, R) = SumFunctionOnSet(f, R) /\ SumFunctionOnSet(f, R) \in Int
  BY <1>2, SumSame, SumType
<1> QED
  BY <1>1, <1>3, <1>4, <1>5 DEF SumFunction

\* The sums of one and of two values.
LEMMA SumOfOne ==
  ASSUME NEW x, NEW f, DOMAIN f = {x}, f[x] \in Int
  PROVE  SumFunction(f) = f[x]
<1>1. IsFiniteSet({x}) /\ x \in {x} /\ \A y \in {x} : f[y] \in Int /\ {x} \ {x} = {}
  BY FS_Singleton
<1>2. SumFunctionOnSet(f, {x}) = f[x] + SumFunctionOnSet(f, {x} \ {x})
  BY <1>1, SumWithout
<1>3. SumFunctionOnSet(f, {x} \ {x}) = 0
  BY <1>1, SumOfNone
<1> QED
  BY <1>2, <1>3 DEF SumFunction

LEMMA SumOfTwo ==
  ASSUME NEW x, NEW y, x # y, NEW f, DOMAIN f = {x, y}, f[x] \in Int, f[y] \in Int
  PROVE  SumFunction(f) = f[x] + f[y]
<1>1. IsFiniteSet({y}) /\ x \notin {y} /\ \A z \in {y} \cup {x} : f[z] \in Int
  BY FS_Singleton
<1>2. SumFunctionOnSet(f, {y} \cup {x}) = SumFunctionOnSet(f, {y}) + f[x]
  BY <1>1, SumWith
<1>3. SumFunctionOnSet(f, {y}) = f[y] + SumFunctionOnSet(f, {y} \ {y})
  <2>1. y \in {y} /\ \A z \in {y} : f[z] \in Int
    OBVIOUS
  <2> QED
    BY <1>1, <2>1, SumWithout
<1>4. {y} \ {y} = {} /\ {y} \cup {x} = DOMAIN f
  OBVIOUS
<1>5. SumFunctionOnSet(f, {}) = 0
  BY SumOfNone
<1>6. SumFunctionOnSet(f, {y}) = f[y]
  BY <1>3, <1>4, <1>5
<1>7. SumFunctionOnSet(f, DOMAIN f) = SumFunctionOnSet(f, {y}) + f[x]
  BY <1>2, <1>4, Zenon
<1> QED
  BY <1>6, <1>7 DEF SumFunction

\* The sum over two sets that share nothing.
LEMMA SumJoin ==
  ASSUME NEW S, IsFiniteSet(S), NEW R, IsFiniteSet(R), S \cap R = {},
         NEW f, \A x \in S \cup R : f[x] \in Int
  PROVE  SumFunctionOnSet(f, S \cup R) = SumFunctionOnSet(f, S) + SumFunctionOnSet(f, R)
<1> DEFINE Same(U) == SumFunctionOnSet(f, S \cup U) = SumFunctionOnSet(f, S) + SumFunctionOnSet(f, U)
           T == {U \in SUBSET R : ~Same(U)}
<1>1. SumFunctionOnSet(f, S) \in Int
  BY SumType
<1>2. ASSUME NEW U \in T, \A V \in T : V \subseteq U => V = U
      PROVE  FALSE
  <2>1. U \subseteq R /\ IsFiniteSet(U) /\ ~Same(U)
    BY FS_Subset
  <2>2. U # {}
    <3>1. S \cup {} = S /\ SumFunctionOnSet(f, {}) = 0
      BY SumOfNone
    <3> QED
      BY <1>1, <2>1, <3>1
  <2>3. PICK y \in U : TRUE
    BY <2>2
  <2>4. U \ {y} \subseteq R /\ U \ {y} # U /\ IsFiniteSet(U \ {y}) /\ Same(U \ {y})
    BY <1>2, <2>1, <2>3, FS_Subset
  <2> HIDE DEF T
  <2>5. PICK V : V = U \ {y}
    OBVIOUS
  <2>6. /\ IsFiniteSet(V) /\ y \notin V /\ U = V \cup {y} /\ \A x \in V \cup {y} : f[x] \in Int
    BY <2>1, <2>3, <2>4, <2>5
  <2>7. SumFunctionOnSet(f, V \cup {y}) = SumFunctionOnSet(f, V) + f[y]
    BY <2>6, SumWith
  <2>8. /\ IsFiniteSet(S \cup V) /\ y \notin S \cup V /\ S \cup U = (S \cup V) \cup {y}
        /\ \A x \in (S \cup V) \cup {y} : f[x] \in Int
    BY <2>1, <2>3, <2>5, <2>6, FS_Union
  <2>9. SumFunctionOnSet(f, (S \cup V) \cup {y}) = SumFunctionOnSet(f, S \cup V) + f[y]
    <3>1. PICK W : W = S \cup V
      OBVIOUS
    <3>2. SumFunctionOnSet(f, W \cup {y}) = SumFunctionOnSet(f, W) + f[y]
      BY <2>8, <3>1, SumWith
    <3> QED
      BY <3>1, <3>2
  <2>10. SumFunctionOnSet(f, V) \in Int /\ f[y] \in Int
    BY <2>6, SumType
  <2>11. Same(V)
    BY <2>4, <2>5
  <2>12. SumFunctionOnSet(f, S \cup V) = SumFunctionOnSet(f, S) + SumFunctionOnSet(f, V)
    BY <2>11
  <2>13. /\ SumFunctionOnSet(f, S \cup U) = SumFunctionOnSet(f, S \cup V) + f[y]
         /\ SumFunctionOnSet(f, U) = SumFunctionOnSet(f, V) + f[y]
    BY <2>6, <2>7, <2>8, <2>9, Zenon
  <2>14. Same(U)
    BY <1>1, <2>10, <2>12, <2>13
  <2> QED
    BY <2>1, <2>14
<1>3. T = {}
  <2> HIDE DEF T
  <2>1. T \in SUBSET (SUBSET R)
    BY DEF T
  <2> QED
    BY <1>2, <2>1, LeastSubset
<1>4. R \notin T
  BY <1>3
<1> QED
  BY <1>4

\* Terms that are zero may be left out.
LEMMA SumPad ==
  ASSUME NEW S, IsFiniteSet(S), NEW R, R \subseteq S,
         NEW f, \A x \in R : f[x] \in Int, \A x \in S \ R : f[x] = 0
  PROVE  SumFunctionOnSet(f, S) = SumFunctionOnSet(f, R)
<1>1. PICK Q : Q = S \ R
  OBVIOUS
<1>2. /\ IsFiniteSet(R) /\ IsFiniteSet(Q) /\ R \cap Q = {} /\ R \cup Q = S
      /\ \A x \in R \cup Q : f[x] \in Int
  BY <1>1, FS_Subset
<1>3. SumFunctionOnSet(f, R \cup Q) = SumFunctionOnSet(f, R) + SumFunctionOnSet(f, Q)
  BY <1>2, SumJoin
<1>4. SumFunctionOnSet(f, Q) = 0
  BY <1>1, <1>2, SumZero
<1>5. SumFunctionOnSet(f, R) \in Int
  BY <1>2, SumType
<1>6. SumFunctionOnSet(f, S) = SumFunctionOnSet(f, R) + SumFunctionOnSet(f, Q)
  BY <1>2, <1>3, Zenon
<1> QED
  BY <1>4, <1>5, <1>6

\* The sum of sums, term by term.
LEMMA SumPlus ==
  ASSUME NEW S, IsFiniteSet(S), NEW f, NEW g, NEW h,
         \A x \in S : f[x] \in Int /\ g[x] \in Int /\ h[x] = f[x] + g[x]
  PROVE  SumFunctionOnSet(h, S) = SumFunctionOnSet(f, S) + SumFunctionOnSet(g, S)
<1> DEFINE Same(U) == SumFunctionOnSet(h, U) = SumFunctionOnSet(f, U) + SumFunctionOnSet(g, U)
           T == {U \in SUBSET S : ~Same(U)}
<1>1. ASSUME NEW U \in T, \A V \in T : V \subseteq U => V = U
      PROVE  FALSE
  <2>1. U \subseteq S /\ IsFiniteSet(U) /\ ~Same(U)
    BY FS_Subset
  <2>2. U # {}
    BY <2>1, SumOfNone
  <2>3. PICK y \in U : TRUE
    BY <2>2
  <2>4. U \ {y} \subseteq S /\ U \ {y} # U /\ IsFiniteSet(U \ {y}) /\ Same(U \ {y})
    BY <1>1, <2>1, <2>3, FS_Subset
  <2> HIDE DEF T
  <2>5. /\ \A x \in U : f[x] \in Int
        /\ \A x \in U : g[x] \in Int
        /\ \A x \in U : h[x] \in Int
        /\ h[y] = f[y] + g[y] /\ f[y] \in Int /\ g[y] \in Int
    BY <2>1, <2>3
  <2>6. SumFunctionOnSet(f, U) = f[y] + SumFunctionOnSet(f, U \ {y})
    BY <2>1, <2>5, SumWithout
  <2>7. SumFunctionOnSet(g, U) = g[y] + SumFunctionOnSet(g, U \ {y})
    BY <2>1, <2>5, SumWithout
  <2>8. SumFunctionOnSet(h, U) = h[y] + SumFunctionOnSet(h, U \ {y})
    BY <2>1, <2>5, SumWithout
  <2>9. SumFunctionOnSet(f, U \ {y}) \in Int /\ SumFunctionOnSet(g, U \ {y}) \in Int
    BY <2>4, <2>5, SumType
  <2>10. Same(U)
    BY <2>4, <2>5, <2>6, <2>7, <2>8, <2>9
  <2> QED
    BY <2>1, <2>10
<1>2. T = {}
  <2> HIDE DEF T
  <2>1. T \in SUBSET (SUBSET S)
    BY DEF T
  <2> QED
    BY <1>1, <2>1, LeastSubset
<1>3. S \notin T
  BY <1>2
<1> QED
  BY <1>3

Column(m, S, y) == [x \in S |-> m[x][y]]

\* A table m with the sums of its rows and of its columns.
IsMargin(m, S, R, row, col) ==
  /\ \A x \in S : m[x] \in [R -> Int] /\ row[x] = SumFunction(m[x])
  /\ \A y \in R : col[y] = SumFunction(Column(m, S, y))

\* The rows of a table added up are its columns added up.
LEMMA SumSwap ==
  ASSUME NEW S, IsFiniteSet(S), NEW R, IsFiniteSet(R), NEW m, NEW row, NEW col,
         IsMargin(m, S, R, row, col)
  PROVE  SumFunctionOnSet(row, S) = SumFunctionOnSet(col, R)
<1> DEFINE f(y) == Column(m, S, y)
           part(U) == [y \in R |-> SumFunctionOnSet(f(y), U)]
           Same(U) == SumFunctionOnSet(row, U) = SumFunctionOnSet(part(U), R)
           T == {U \in SUBSET S : ~Same(U)}
<1>0. /\ \A y \in R : DOMAIN f(y) = S /\ \A x \in S : f(y)[x] = m[x][y] /\ f(y)[x] \in Int
      /\ \A x \in S : DOMAIN m[x] = R /\ \A y \in R : m[x][y] \in Int
  BY DEF Column, IsMargin
<1>1. \A x \in S : row[x] \in Int
  BY SumFunctionType DEF IsMargin
<1> HIDE DEF f
<1>2. ASSUME NEW U \in SUBSET S
      PROVE  \A y \in R : part(U)[y] = SumFunctionOnSet(f(y), U) /\ part(U)[y] \in Int
  <2>1. \A y \in R : SumFunctionOnSet(f(y), U) \in Int
    BY <1>0, FS_Subset, SumType
  <2> QED
    BY <2>1
<1>3. ASSUME NEW U \in T, \A V \in T : V \subseteq U => V = U
      PROVE  FALSE
  <2>1. U \subseteq S /\ IsFiniteSet(U) /\ ~Same(U)
    BY FS_Subset
  <2>2. U # {}
    <3>1. ASSUME U = {} PROVE Same(U)
      <4>1. \A y \in R : part(U)[y] = 0
        BY <3>1, SumOfNone
      <4> HIDE DEF part
      <4>2. SumFunctionOnSet(part(U), R) = 0
        BY <4>1, SumZero
      <4> QED
        BY <3>1, <4>2, SumOfNone
    <3> QED
      BY <2>1, <3>1
  <2>3. PICK z \in U : TRUE
    BY <2>2
  <2>4. U \ {z} \subseteq S /\ U \ {z} # U /\ IsFiniteSet(U \ {z}) /\ Same(U \ {z})
    <3> HIDE DEF Same
    <3> QED
      BY <1>3, <2>1, <2>3, FS_Subset
  <2> HIDE DEF T
  <2>5. z \in S /\ \A x \in U : row[x] \in Int
    BY <1>1, <2>1, <2>3
  <2>6. SumFunctionOnSet(row, U) = row[z] + SumFunctionOnSet(row, U \ {z})
    BY <2>1, <2>5, SumWithout
  <2>7. PICK V : V = U \ {z}
    OBVIOUS
  <2>8. \A y \in R : part(U)[y] = m[z][y] + part(V)[y]
    <3> SUFFICES ASSUME NEW y \in R PROVE part(U)[y] = m[z][y] + part(V)[y]
      OBVIOUS
    <3>1. PICK g : g = f(y)
      OBVIOUS
    <3>2. \A x \in U : g[x] \in Int
      BY <1>0, <2>1, <3>1
    <3>3. SumFunctionOnSet(g, U) = g[z] + SumFunctionOnSet(g, U \ {z})
      BY <2>1, <3>2, SumWithout
    <3>4. g[z] = m[z][y]
      BY <1>0, <2>5, <3>1
    <3>5. part(U)[y] = SumFunctionOnSet(g, U) /\ part(V)[y] = SumFunctionOnSet(g, U \ {z})
      BY <2>7, <3>1
    <3> QED
      BY <3>3, <3>4, <3>5
  <2>9. \A y \in R : m[z][y] \in Int /\ part(V)[y] \in Int
    BY <1>0, <1>2, <2>4, <2>5, <2>7
  <2> HIDE DEF part
  <2>10. SumFunctionOnSet(part(U), R) = SumFunctionOnSet(m[z], R) + SumFunctionOnSet(part(V), R)
    BY <2>8, <2>9, SumPlus
  <2>11. row[z] = SumFunctionOnSet(m[z], R)
    BY <1>0, <2>5 DEF SumFunction, IsMargin
  <2>12. SumFunctionOnSet(row, U \ {z}) = SumFunctionOnSet(part(V), R)
    BY <2>4, <2>7, Zenon
  <2>13. Same(U)
    BY <2>6, <2>10, <2>11, <2>12
  <2> QED
    BY <2>1, <2>13
<1>4. T = {}
  <2> HIDE DEF T
  <2>1. T \in SUBSET (SUBSET S)
    BY DEF T
  <2> QED
    BY <1>3, <2>1, LeastSubset
<1>5. SumFunctionOnSet(row, S) = SumFunctionOnSet(part(S), R)
  <2>1. S \notin T
    BY <1>4
  <2> QED
    BY <2>1
<1>6. \A y \in R : part(S)[y] = col[y] /\ part(S)[y] \in Int
  <2>1. \A y \in R : col[y] = SumFunction(f(y))
    BY DEF f, IsMargin
  <2>2. \A y \in R : part(S)[y] = SumFunctionOnSet(f(y), S) /\ part(S)[y] \in Int
    BY <1>2
  <2> HIDE DEF part
  <2> QED
    BY <1>0, <2>1, <2>2 DEF SumFunction
<1> HIDE DEF part
<1> QED
  BY <1>5, <1>6, SumSame

\* The sum of the negatives.
LEMMA SumNegative ==
  ASSUME NEW S, IsFiniteSet(S), NEW f, NEW g, \A x \in S : f[x] \in Int /\ g[x] = -f[x]
  PROVE  SumFunctionOnSet(g, S) = -SumFunctionOnSet(f, S)
<1> DEFINE h == [x \in S |-> 0]
<1>1. \A x \in S : f[x] \in Int /\ g[x] \in Int /\ h[x] = f[x] + g[x]
  OBVIOUS
<1>2. \A x \in S : h[x] = 0
  OBVIOUS
<1> HIDE DEF h
<1>3. SumFunctionOnSet(h, S) = 0
  BY <1>2, SumZero
<1>4. SumFunctionOnSet(h, S) = SumFunctionOnSet(f, S) + SumFunctionOnSet(g, S)
  BY <1>1, SumPlus
<1>5. SumFunctionOnSet(f, S) \in Int /\ SumFunctionOnSet(g, S) \in Int
  BY <1>1, SumType
<1> QED
  BY <1>3, <1>4, <1>5

\* The sums of the sums, of the negatives, and of nothing.
LEMMA SumsAdd ==
  ASSUME NEW S, IsFiniteSet(S), NEW f \in [S -> Int], NEW g \in [S -> Int], NEW h \in [S -> Int],
         \A x \in S : h[x] = f[x] + g[x]
  PROVE  SumFunction(h) = SumFunction(f) + SumFunction(g)
<1>1. DOMAIN f = S /\ DOMAIN g = S /\ DOMAIN h = S
  OBVIOUS
<1>2. SumFunctionOnSet(h, S) = SumFunctionOnSet(f, S) + SumFunctionOnSet(g, S)
  BY SumPlus
<1> QED
  BY <1>1, <1>2 DEF SumFunction

LEMMA SumsNegate ==
  ASSUME NEW S, IsFiniteSet(S), NEW f \in [S -> Int], NEW g \in [S -> Int], \A x \in S : g[x] = -f[x]
  PROVE  SumFunction(g) = -SumFunction(f)
<1>1. DOMAIN f = S /\ DOMAIN g = S
  OBVIOUS
<1>2. SumFunctionOnSet(g, S) = -SumFunctionOnSet(f, S)
  BY SumNegative
<1> QED
  BY <1>1, <1>2 DEF SumFunction

LEMMA SumsNothing ==
  ASSUME NEW S, IsFiniteSet(S), NEW f, DOMAIN f = S, \A x \in S : f[x] = 0
  PROVE  SumFunction(f) = 0
  BY SumZero DEF SumFunction

-----------------------------------------------------------------------------
(* Overflow and reversal                                                   *)

\* What the machine computes is an Amount, and a number that is one it leaves alone,
\* as it does one that is a width away.
LEMMA WrapType ==
  ASSUME NEW n \in Int
  PROVE  Wrap(n) \in Amount
<1> DEFINE w == 2 * (MaxAmount + 1)
           m == n + MaxAmount + 1
<1>1. MaxAmount \in Nat /\ w \in Nat /\ w > 0 /\ m \in Int
  BY AccountingAssumption
<1>2. m % w \in 0 .. w - 1
  <2> HIDE DEF w, m
  <2> QED
    BY <1>1
<1>3. Wrap(n) = (m % w) - (MaxAmount + 1)
  BY DEF Wrap
<1> DEFINE r == m % w
<1> HIDE DEF r
<1>4. r \in 0 .. w - 1 /\ Wrap(n) = r - (MaxAmount + 1)
  BY <1>2, <1>3 DEF r
<1> QED
  BY <1>1, <1>4 DEF Amount

LEMMA WrapPeriod ==
  ASSUME NEW n \in Amount, NEW j \in {-1, 0, 1}
  PROVE  Wrap(n + j * (2 * (MaxAmount + 1))) = n
<1> DEFINE w == 2 * (MaxAmount + 1)
           k == n + j * w
           m == k + MaxAmount + 1
           c == n + MaxAmount + 1
<1>1. MaxAmount \in Nat /\ w \in Nat /\ w > 0 /\ n \in Int /\ c \in Nat /\ c < w /\ j * w \in Int
  BY AccountingAssumption DEF Amount
<1>2. m = c + j * w
  BY <1>1
<1>3. m % w = c
  <2> HIDE DEF w, m, c
  <2>1. m \in Int /\ (j = -1 => m = c - w) /\ (j = 0 => m = c) /\ (j = 1 => m = c + w)
    BY <1>1, <1>2
  <2> DEFINE q == m \div w
             r == m % w
  <2>2. m = w * q + r /\ 0 <= r /\ r < w /\ q \in Int /\ r \in Int
    BY <1>1, <2>1
  <2> HIDE DEF q, r
  <2>3. CASE j = -1
    <3>1. c - r = w * (q + 1) /\ c - r < w /\ c - r > -w
      BY <1>1, <2>1, <2>2, <2>3
    <3>2. q + 1 = 0
      BY <1>1, <2>2, <3>1
    <3> QED
      BY <1>1, <2>2, <3>1, <3>2 DEF r
  <2>4. CASE j = 0
    <3>1. c - r = w * q /\ c - r < w /\ c - r > -w
      BY <1>1, <2>1, <2>2, <2>4
    <3>2. q = 0
      BY <1>1, <2>2, <3>1
    <3> QED
      BY <1>1, <2>2, <3>1, <3>2 DEF r
  <2>5. CASE j = 1
    <3>1. c - r = w * (q - 1) /\ c - r < w /\ c - r > -w
      BY <1>1, <2>1, <2>2, <2>5
    <3>2. q - 1 = 0
      BY <1>1, <2>2, <3>1
    <3> QED
      BY <1>1, <2>2, <3>1, <3>2 DEF r
  <2> QED
    BY <2>3, <2>4, <2>5
<1>4. Wrap(k) = (m % w) - (MaxAmount + 1)
  BY DEF Wrap
<1> QED
  BY <1>1, <1>3, <1>4

LEMMA WrapId ==
  ASSUME NEW n \in Amount
  PROVE  Wrap(n) = n
<1>1. n \in Int /\ MaxAmount \in Int
  BY AccountingAssumption DEF Amount
<1>2. n + 0 * (2 * (MaxAmount + 1)) = n
  BY <1>1
<1>3. Wrap(n + 0 * (2 * (MaxAmount + 1))) = n
  BY WrapPeriod
<1> QED
  BY <1>2, <1>3

\* Of a number at most one width away, Wrap takes off one width at most.
LEMMA WrapCases ==
  ASSUME NEW n \in 0 .. 2 * MaxAmount
  PROVE  Wrap(n) = IF n <= MaxAmount THEN n ELSE n - 2 * (MaxAmount + 1)
<1> DEFINE w == 2 * (MaxAmount + 1)
           m == n + MaxAmount + 1
<1>1. /\ MaxAmount \in Nat /\ MaxAmount > 0
      /\ n \in Nat /\ w \in Nat /\ m \in Nat /\ w > 0
      /\ m < 2 * w
  BY AccountingAssumption
<1>2. m % w = IF m < w THEN m ELSE m - w
  <2> HIDE DEF w, m
  <2>1. /\ m = w * (m \div w) + (m % w)
        /\ 0 <= m % w /\ m % w < w
        /\ m \div w \in Int /\ m % w \in Int
    BY <1>1
  <2> DEFINE q == m \div w
             r == m % w
  <2> HIDE DEF q, r
  <2>2. /\ m = w * q + r /\ 0 <= r /\ r < w /\ q \in Int /\ r \in Int
    BY <2>1 DEF q, r
  <2>3. q = 0 \/ q = 1
    BY <1>1, <2>2
  <2>4. r = IF m < w THEN m ELSE m - w
    BY <1>1, <2>2, <2>3
  <2> QED  BY <2>4 DEF r
<1> QED  BY <1>1, <1>2 DEF Wrap

\* Validate's overflow test is exact: the sum of two amounts that are not
\* negative wraps to a negative one if and only if it does not fit, and is the
\* true sum otherwise ("a running total that has gone negative can only be int64
\* overflow", ledger.go).  The test after every line is needed: one line on, a
\* wrapped total may be positive again.
THEOREM OverflowShows ==
  ASSUME NEW a \in 0 .. MaxAmount, NEW b \in 0 .. MaxAmount
  PROVE  /\ Wrap(a + b) >= 0 <=> a + b <= MaxAmount
         /\ Wrap(a + b) >= 0 => Wrap(a + b) = a + b
<1>1. MaxAmount \in Nat /\ a \in Nat /\ b \in Nat /\ a <= MaxAmount /\ b <= MaxAmount
  BY AccountingAssumption
<1>2. a + b \in 0 .. 2 * MaxAmount
  BY <1>1
<1> DEFINE n == a + b
<1> HIDE DEF n
<1>3. Wrap(n) = IF n <= MaxAmount THEN n ELSE n - 2 * (MaxAmount + 1)
  BY <1>2, WrapCases DEF n
<1>4. n \in Nat /\ n <= 2 * MaxAmount
  BY <1>1 DEF n
<1>5. /\ Wrap(n) >= 0 <=> n <= MaxAmount
      /\ Wrap(n) >= 0 => Wrap(n) = n
  BY <1>1, <1>3, <1>4
<1> QED  BY <1>5 DEF n

\* The lines of a reversal: as many, the accounts kept, the sides swapped.
LEMMA ReverseSwaps ==
  ASSUME NEW lines \in Seq(Line)
  PROVE  /\ Len(ReverseLines(lines)) = Len(lines)
         /\ \A i \in 1 .. Len(lines) :
              /\ ReverseLines(lines)[i].account = lines[i].account
              /\ ReverseLines(lines)[i].debit = lines[i].credit
              /\ ReverseLines(lines)[i].credit = lines[i].debit
<1>1. /\ Len(lines) \in Nat
      /\ \A i \in 1 .. Len(lines) : lines[i] \in Line
  OBVIOUS
<1>2. Len(ReverseLines(lines)) = Len(lines)
  BY <1>1 DEF ReverseLines
<1>3. ASSUME NEW i \in 1 .. Len(lines)
      PROVE  /\ ReverseLines(lines)[i].account = lines[i].account
             /\ ReverseLines(lines)[i].debit = lines[i].credit
             /\ ReverseLines(lines)[i].credit = lines[i].debit
  BY <1>1 DEF ReverseLines
<1> QED  BY <1>2, <1>3

\* The running totals of a reversal are those of the original, swapped.
LEMMA ReverseTotals ==
  ASSUME NEW lines \in Seq(Line)
  PROVE  /\ DebitTotal(ReverseLines(lines)) = CreditTotal(lines)
         /\ CreditTotal(ReverseLines(lines)) = DebitTotal(lines)
<1> DEFINE rev == ReverseLines(lines)
<1>1. /\ Len(rev) = Len(lines)
      /\ \A i \in 1 .. Len(lines) : /\ rev[i].debit = lines[i].credit
                                    /\ rev[i].credit = lines[i].debit
  BY ReverseSwaps
<1> HIDE DEF rev
<1>2. /\ [i \in 1 .. Len(rev) |-> rev[i].debit] = [i \in 1 .. Len(lines) |-> lines[i].credit]
      /\ [i \in 1 .. Len(rev) |-> rev[i].credit] = [i \in 1 .. Len(lines) |-> lines[i].debit]
  BY <1>1
<1> QED  BY <1>2 DEF DebitTotal, CreditTotal, rev

\* What has been posted can be undone: UndoVerification and CreditInvoice post
\* reversals, and Validate accepts the reversal of every voucher it accepted,
\* however close to the limit its totals are.
THEOREM ReversalValidates ==
  ASSUME NEW lines \in Seq(Line), Validate(lines)
  PROVE  Validate(ReverseLines(lines))
<1> DEFINE rev == ReverseLines(lines)
<1>1. /\ Len(rev) = Len(lines) /\ Len(lines) \in Nat
      /\ DebitTotal(rev) = CreditTotal(lines)
      /\ CreditTotal(rev) = DebitTotal(lines)
  BY ReverseSwaps, ReverseTotals
<1>2. \A i \in 1 .. Len(lines) : WellFormed(rev[i])
  BY ReverseSwaps DEF Validate, WellFormed
<1> HIDE DEF rev
<1>3. Validate(rev)
  BY <1>1, <1>2 DEF Validate
<1> QED  BY <1>3 DEF rev

-----------------------------------------------------------------------------
(* The running totals of Validate                                          *)

Running(x, n, t) == t = [i \in 0 .. n |-> IF i = 0 THEN 0 ELSE Wrap(t[i - 1] + x[i])]

\* The running totals exist, up to any line.
LEMMA RunningExists ==
  ASSUME NEW x, NEW n \in Nat
  PROVE  \E t : Running(x, n, t)
<1> DEFINE Good(k) == \E t : Running(x, k, t)
           T == {k \in Nat : ~Good(k)}
<1>1. Good(0)
  <2>1. Running(x, 0, [i \in 0 .. 0 |-> 0])
    BY DEF Running
  <2> QED
    BY <2>1
<1>2. ASSUME NEW k \in Nat, Good(k) PROVE Good(k + 1)
  <2>1. PICK t : Running(x, k, t)
    BY <1>2
  <2> DEFINE u == [i \in 0 .. k + 1 |-> IF i = k + 1 THEN Wrap(t[k] + x[k + 1]) ELSE t[i]]
  <2>2. \A i \in 0 .. k + 1 : u[i] = IF i = 0 THEN 0 ELSE Wrap(u[i - 1] + x[i])
    <3> SUFFICES ASSUME NEW i \in 0 .. k + 1 PROVE u[i] = IF i = 0 THEN 0 ELSE Wrap(u[i - 1] + x[i])
      OBVIOUS
    <3>1. CASE i = 0
      BY <2>1, <3>1 DEF Running
    <3>2. CASE i = k + 1
      <4>1. i - 1 = k /\ i - 1 \in 0 .. k + 1 /\ u[i - 1] = t[k] /\ i # 0
        BY <3>2
      <4>2. u[i] = Wrap(t[k] + x[k + 1])
        BY <3>2
      <4> QED
        BY <3>2, <4>1, <4>2
    <3>3. CASE i \in 1 .. k
      <4>1. i - 1 \in 0 .. k /\ i \in 0 .. k /\ i # 0
        BY <3>3
      <4>2. u[i] = t[i] /\ u[i - 1] = t[i - 1]
        BY <4>1
      <4>3. t[i] = Wrap(t[i - 1] + x[i])
        BY <2>1, <4>1 DEF Running
      <4> QED
        BY <4>1, <4>2, <4>3
    <3> QED
      BY <3>1, <3>2, <3>3
  <2>3. Running(x, k + 1, u)
    <3>1. DOMAIN u = 0 .. k + 1 /\ u = [i \in 0 .. k + 1 |-> u[i]]
      OBVIOUS
    <3> HIDE DEF u
    <3> QED
      BY <2>2, <3>1 DEF Running
  <2> QED
    BY <2>3
<1> HIDE DEF Good
<1>3. T = {}
  <2> SUFFICES ASSUME T # {} PROVE FALSE
    OBVIOUS
  <2>1. PICK m \in T : \A k \in T : m <= k
    <3> HIDE DEF T
    <3>1. T \in SUBSET Nat
      BY DEF T
    <3> QED
      BY <3>1, LeastNat
  <2>2. m # 0 /\ m \in Nat /\ m - 1 \in Nat /\ m - 1 \notin T
    BY <1>1, <2>1
  <2>3. Good(m - 1) /\ (m - 1) + 1 = m
    BY <2>2
  <2>4. Good(m)
    BY <1>2, <2>2, <2>3
  <2> QED
    BY <2>1, <2>4
<1> QED
  BY <1>3 DEF Good

\* What RunningTotal computes: nothing before the first line, then line by line.
LEMMA RunningTotals ==
  ASSUME NEW x, Len(x) \in Nat
  PROVE  /\ RunningTotal(x)[0] = 0
         /\ \A i \in 1 .. Len(x) : RunningTotal(x)[i] = Wrap(RunningTotal(x)[i - 1] + x[i])
<1>1. Running(x, Len(x), RunningTotal(x))
  <2>1. \E t : Running(x, Len(x), t)
    BY RunningExists
  <2>2. RunningTotal(x) = CHOOSE t : Running(x, Len(x), t)
    BY DEF RunningTotal, Running
  <2> HIDE DEF Running
  <2> QED
    BY <2>1, <2>2
<1> DEFINE t == RunningTotal(x)
<1>2. Running(x, Len(x), t)
  BY <1>1
<1> HIDE DEF t
<1>3. t[0] = 0 /\ \A i \in 1 .. Len(x) : t[i] = Wrap(t[i - 1] + x[i])
  BY <1>2 DEF Running
<1> QED
  BY <1>3 DEF t

\* As long as no running total is negative they are the true sums.
LEMMA RunningIsExact ==
  ASSUME NEW x, Len(x) \in Nat, \A i \in 1 .. Len(x) : x[i] \in 0 .. MaxAmount,
         \A i \in 1 .. Len(x) : RunningTotal(x)[i] >= 0
  PROVE  \A n \in 0 .. Len(x) :
           /\ RunningTotal(x)[n] \in 0 .. MaxAmount
           /\ RunningTotal(x)[n] = SumFunctionOnSet(x, 1 .. n)
<1> DEFINE t == RunningTotal(x)
           Good(n) == t[n] \in 0 .. MaxAmount /\ t[n] = SumFunctionOnSet(x, 1 .. n)
           T == {n \in Nat : n <= Len(x) /\ ~Good(n)}
<1>0. MaxAmount \in Nat
  BY AccountingAssumption
<1>1. t[0] = 0 /\ \A i \in 1 .. Len(x) : t[i] = Wrap(t[i - 1] + x[i]) /\ t[i] >= 0
  BY RunningTotals
<1> HIDE DEF t
<1>2. Good(0)
  <2>1. 1 .. 0 = {}
    OBVIOUS
  <2> QED
    BY <1>0, <1>1, <2>1, SumOfNone
<1>3. ASSUME NEW n \in 1 .. Len(x), Good(n - 1) PROVE Good(n)
  <2>1. /\ t[n] = Wrap(t[n - 1] + x[n]) /\ t[n] >= 0 /\ x[n] \in 0 .. MaxAmount
        /\ t[n - 1] \in 0 .. MaxAmount
    BY <1>1, <1>3
  <2>2. t[n] = t[n - 1] + x[n] /\ t[n - 1] + x[n] <= MaxAmount
    BY <2>1, OverflowShows
  <2>3. SumFunctionOnSet(x, 1 .. n) = SumFunctionOnSet(x, 1 .. n - 1) + x[n]
    <3> DEFINE S == 1 .. n - 1
    <3>1. S \cup {n} = 1 .. n /\ n \notin S /\ \A i \in S \cup {n} : i \in 1 .. Len(x)
      OBVIOUS
    <3>2. IsFiniteSet(S)
      BY FS_Interval
    <3>3. \A i \in S \cup {n} : x[i] \in Int
      BY <3>1
    <3> HIDE DEF S
    <3>4. SumFunctionOnSet(x, S \cup {n}) = SumFunctionOnSet(x, S) + x[n]
      BY <3>1, <3>2, <3>3, SumWith
    <3> QED
      BY <3>1, <3>4 DEF S
  <2>4. t[n - 1] = SumFunctionOnSet(x, 1 .. n - 1)
    BY <1>3
  <2>5. t[n] \in 0 .. MaxAmount
    BY <1>0, <2>1, <2>2
  <2> QED
    BY <2>2, <2>3, <2>4, <2>5
<1> HIDE DEF Good
<1>4. T = {}
  <2> SUFFICES ASSUME T # {} PROVE FALSE
    OBVIOUS
  <2>1. PICK m \in T : \A k \in T : m <= k
    <3> HIDE DEF T
    <3>1. T \in SUBSET Nat
      BY DEF T
    <3> QED
      BY <3>1, LeastNat
  <2>2. m # 0 /\ m \in Nat /\ m - 1 \in Nat /\ m - 1 \notin T /\ m <= Len(x) /\ ~Good(m)
    BY <1>2, <2>1
  <2>3. Good(m - 1) /\ m \in 1 .. Len(x)
    BY <2>2
  <2> QED
    BY <1>3, <2>2, <2>3
<1>5. \A n \in 0 .. Len(x) : Good(n)
  BY <1>4
<1> QED
  BY <1>5 DEF Good, t

\* What Validate accepts is balanced in exact arithmetic, not just modulo the width
\* of an int64, and its total is an amount, for any number of lines: the choke point
\* of every posting (Verification.Validate).
THEOREM ValidateIsExact ==
  ASSUME NEW lines \in Seq(Line), Validate(lines)
  PROVE  LET debits == SumFunction([i \in DOMAIN lines |-> lines[i].debit])
             credits == SumFunction([i \in DOMAIN lines |-> lines[i].credit])
         IN  /\ debits = credits /\ debits \in 0 .. MaxAmount
             /\ DebitTotal(lines)[Len(lines)] = debits
<1> DEFINE n == Len(lines)
           x == [i \in 1 .. Len(lines) |-> lines[i].debit]
           y == [i \in 1 .. Len(lines) |-> lines[i].credit]
<1>1. n \in Nat /\ DOMAIN lines = 1 .. n /\ \A i \in 1 .. n : lines[i] \in Line
  OBVIOUS
<1>2. Len(x) = n /\ Len(y) = n /\ DOMAIN x = 1 .. n /\ DOMAIN y = 1 .. n
  BY <1>1
<1>3. MaxAmount \in Nat
  BY AccountingAssumption
<1>4. \A i \in 1 .. n : x[i] \in 0 .. MaxAmount /\ y[i] \in 0 .. MaxAmount
  BY <1>1, <1>3 DEF Validate, WellFormed, Line, Amount
<1>5. /\ \A i \in 1 .. n : RunningTotal(x)[i] >= 0 /\ RunningTotal(y)[i] >= 0
      /\ RunningTotal(x)[n] = RunningTotal(y)[n] /\ DebitTotal(lines) = RunningTotal(x)
  BY DEF Validate, DebitTotal, CreditTotal
<1>6. SumFunction([i \in DOMAIN lines |-> lines[i].debit]) = SumFunction(x)
  BY <1>1
<1>7. SumFunction([i \in DOMAIN lines |-> lines[i].credit]) = SumFunction(y)
  BY <1>1
<1> HIDE DEF x, y, n
<1>8. RunningTotal(x)[n] \in 0 .. MaxAmount /\ RunningTotal(x)[n] = SumFunctionOnSet(x, 1 .. n)
  <2>1. Len(x) \in Nat /\ n \in 0 .. Len(x)
    BY <1>1, <1>2
  <2>2. \A i \in 1 .. Len(x) : x[i] \in 0 .. MaxAmount
    BY <1>2, <1>4
  <2>3. \A i \in 1 .. Len(x) : RunningTotal(x)[i] >= 0
    BY <1>2, <1>5
  <2> QED
    BY <2>1, <2>2, <2>3, RunningIsExact
<1>9. RunningTotal(y)[n] = SumFunctionOnSet(y, 1 .. n)
  <2>1. Len(y) \in Nat /\ n \in 0 .. Len(y)
    BY <1>1, <1>2
  <2>2. \A i \in 1 .. Len(y) : y[i] \in 0 .. MaxAmount
    BY <1>2, <1>4
  <2>3. \A i \in 1 .. Len(y) : RunningTotal(y)[i] >= 0
    BY <1>2, <1>5
  <2> QED
    BY <2>1, <2>2, <2>3, RunningIsExact
<1>10. /\ SumFunction(x) = SumFunction(y) /\ SumFunction(x) \in 0 .. MaxAmount
       /\ DebitTotal(lines)[n] = SumFunction(x)
  BY <1>2, <1>5, <1>8, <1>9 DEF SumFunction
<1> QED
  BY <1>6, <1>7, <1>10 DEF n
=============================================================================
