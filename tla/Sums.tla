-------------------------------- MODULE Sums --------------------------------
(***************************************************************************)
(* Facts about SumFunction(f), the sum of the values of a function over a  *)
(* finite domain, by which the ledger's quantities are defined.  The fold  *)
(* of the library picks elements in an order it does not reveal; what is   *)
(* shown here holds for any order.                                         *)
(***************************************************************************)
EXTENDS Integers, FiniteSets, Functions, FiniteSetTheorems, TLAPS

Pick(s) == CHOOSE x \in s : TRUE

\* g is the sum of f on every set of S, one element after the other.
SumsOf(f, g, S) ==
  g = [s \in S |-> IF s = {} THEN 0 ELSE f[Pick(s)] + g[s \ {Pick(s)}]]

Total(f) == CHOOSE g : SumsOf(f, g, SUBSET DOMAIN f)

\* A set of naturals that is not empty has a least element.
LEMMA LeastNatural ==
  ASSUME NEW N \in SUBSET Nat, N # {}
  PROVE  \E n \in N : \A m \in N : n <= m
<1>1. IsWellFoundedOn(OpToRel(<, Nat), Nat)
  BY NatLessThanWellFounded
<1>2. PICK n \in N : \A m \in N : ~ (<<m, n>> \in OpToRel(<, Nat))
  BY <1>1, WFMin
<1>3. \A m \in N : ~ (m < n)
  BY <1>2 DEF OpToRel
<1>4. QED BY <1>3

\* The sets of at most n elements of a finite set D.
UpTo(D, n) == {s \in SUBSET D : Cardinality(s) <= n}

LEMMA SmallerSets ==
  ASSUME NEW D, IsFiniteSet(D), NEW s \in SUBSET D, NEW x \in s
  PROVE  /\ IsFiniteSet(s) /\ Cardinality(s) \in Nat /\ s \ {x} \in SUBSET D
         /\ Cardinality(s \ {x}) \in Nat /\ Cardinality(s \ {x}) = Cardinality(s) - 1
<1>1. IsFiniteSet(s)
  BY FS_Subset
<1>2. Cardinality(s) \in Nat
  BY <1>1, FS_CardinalityType
<1>3. IsFiniteSet(s \ {x}) /\ Cardinality(s \ {x}) = Cardinality(s) - 1
  BY <1>1, FS_RemoveElement
<1>4. Cardinality(s \ {x}) \in Nat
  BY <1>3, FS_CardinalityType
<1>5. QED BY <1>1, <1>2, <1>3, <1>4

LEMMA PickIn == ASSUME NEW s, s # {} PROVE Pick(s) \in s
BY DEF Pick

\* The sums exist: they are built up from the smaller sets.
LEMMA SumsExist ==
  ASSUME NEW D, IsFiniteSet(D), NEW f, DOMAIN f = D
  PROVE  SumsOf(f, Total(f), SUBSET D)
<1> DEFINE None == {n \in Nat : \A g : ~SumsOf(f, g, UpTo(D, n))}
<1>1. None = {}
  <2> SUFFICES ASSUME None # {} PROVE FALSE
    OBVIOUS
  <2>1. PICK n \in None : \A m \in None : n <= m
    BY LeastNatural
  <2>2. n # 0
    <3> DEFINE g == [s \in UpTo(D, 0) |-> 0]
    <3>1. \A s \in UpTo(D, 0) : s = {}
      <4>1. ASSUME NEW s \in UpTo(D, 0) PROVE s = {}
        <5>1. s \in SUBSET D /\ Cardinality(s) <= 0
          BY DEF UpTo
        <5>2. IsFiniteSet(s)
          BY <5>1, FS_Subset
        <5>3. Cardinality(s) = 0
          BY <5>1, <5>2, FS_CardinalityType
        <5>4. QED BY <5>2, <5>3, FS_EmptySet
      <4>2. QED BY <4>1
    <3>2. SumsOf(f, g, UpTo(D, 0))
      BY <3>1 DEF SumsOf
    <3>3. QED BY <3>2
  <2>3. n - 1 \in Nat /\ n - 1 \notin None
    BY <2>1, <2>2
  <2>4. PICK g : SumsOf(f, g, UpTo(D, n - 1))
    BY <2>3
  <2> DEFINE h == [s \in UpTo(D, n) |-> IF s = {} THEN 0 ELSE f[Pick(s)] + g[s \ {Pick(s)}]]
  <2>5. ASSUME NEW s \in UpTo(D, n), s # {} PROVE s \ {Pick(s)} \in UpTo(D, n - 1)
    <3>1. s \in SUBSET D /\ Cardinality(s) <= n
      BY DEF UpTo
    <3>2. Pick(s) \in s
      BY <2>5, PickIn
    <3>3. QED BY <2>1, <3>1, <3>2, SmallerSets DEF UpTo
  <2>6. UpTo(D, n - 1) \subseteq UpTo(D, n)
    <3>1. ASSUME NEW s \in UpTo(D, n - 1) PROVE s \in UpTo(D, n)
      <4>1. s \in SUBSET D /\ Cardinality(s) <= n - 1
        BY DEF UpTo
      <4>2. Cardinality(s) \in Nat
        BY <4>1, FS_Subset, FS_CardinalityType
      <4>3. QED BY <2>1, <4>1, <4>2 DEF UpTo
    <3>2. QED BY <3>1
  <2>7. \A s \in UpTo(D, n - 1) : h[s] = g[s]
    BY <2>4, <2>6 DEF SumsOf
  <2>8. SumsOf(f, h, UpTo(D, n))
    BY <2>5, <2>7 DEF SumsOf
  <2>9. QED BY <2>1, <2>8
<1>2. Cardinality(D) \in Nat
  BY FS_CardinalityType
<1>3. UpTo(D, Cardinality(D)) = SUBSET D
  BY FS_Subset DEF UpTo
<1>4. \E g : SumsOf(f, g, SUBSET D)
  <2>1. Cardinality(D) \notin None
    BY <1>1
  <2>2. \E g : SumsOf(f, g, UpTo(D, Cardinality(D)))
    BY <1>2, <2>1
  <2>3. QED BY <1>3, <2>2
<1>5. QED BY <1>4 DEF Total

LEMMA SumTotal == ASSUME NEW f PROVE SumFunction(f) = Total(f)[DOMAIN f]
BY DEF SumFunction, SumFunctionOnSet, FoldFunctionOnSet, MapThenFoldSet, Total, SumsOf, Pick

\* The sum of no elements is 0, and that of a set one element and the rest.
LEMMA TotalDef ==
  ASSUME NEW D, IsFiniteSet(D), NEW f, DOMAIN f = D, NEW s \in SUBSET D
  PROVE  /\ s = {} => Total(f)[s] = 0
         /\ s # {} => Total(f)[s] = f[Pick(s)] + Total(f)[s \ {Pick(s)}]
<1> DEFINE g == Total(f)
<1>1. SumsOf(f, g, SUBSET D)
  BY SumsExist
<1> HIDE DEF g
<1>2. g[s] = IF s = {} THEN 0 ELSE f[Pick(s)] + g[s \ {Pick(s)}]
  BY <1>1 DEF SumsOf
<1>3. QED BY <1>2 DEF g

\* Among subsets of a finite set there is one that has no smaller one among them.
LEMMA LeastSet ==
  ASSUME NEW D, IsFiniteSet(D), NEW B \in SUBSET SUBSET D, B # {}
  PROVE  \E s \in B : \A x \in s : s \ {x} \notin B
<1> DEFINE N == {Cardinality(s) : s \in B}
<1>1. N \in SUBSET Nat /\ N # {}
  BY FS_Subset, FS_CardinalityType
<1>2. PICK n \in N : \A m \in N : n <= m
  BY <1>1, LeastNatural
<1>3. PICK s \in B : n = Cardinality(s)
  BY <1>2
<1>4. ASSUME NEW x \in s, s \ {x} \in B PROVE FALSE
  <2>1. Cardinality(s \ {x}) \in N
    BY <1>4
  <2>2. Cardinality(s \ {x}) = Cardinality(s) - 1 /\ Cardinality(s) \in Nat
    BY SmallerSets
  <2>3. n <= Cardinality(s \ {x})
    BY <1>2, <2>1
  <2>4. QED BY <1>3, <2>2, <2>3
<1>5. QED BY <1>4

LEMMA TotalEmpty ==
  ASSUME NEW D, IsFiniteSet(D), NEW f \in [D -> Int]
  PROVE  Total(f)[{}] = 0
<1>1. DOMAIN f = D /\ {} \in SUBSET D
  OBVIOUS
<1>2. QED BY <1>1, TotalDef

LEMMA TotalType ==
  ASSUME NEW D, IsFiniteSet(D), NEW f \in [D -> Int], NEW t \in SUBSET D
  PROVE  Total(f)[t] \in Int
<1> DEFINE B == {s \in SUBSET D : Total(f)[s] \notin Int}
<1>1. B = {}
  <2> SUFFICES ASSUME B # {} PROVE FALSE
    OBVIOUS
  <2>1. PICK s \in B : \A x \in s : s \ {x} \notin B
    BY LeastSet
  <2>2. s # {}
    <3>1. Total(f)[{}] = 0
      BY TotalEmpty
    <3>2. Total(f)[s] \notin Int
      BY <2>1
    <3>3. QED BY <3>1, <3>2
  <2>3. Pick(s) \in s /\ f[Pick(s)] \in Int /\ s \ {Pick(s)} \in SUBSET D
    BY <2>1, <2>2, PickIn
  <2>4. Total(f)[s \ {Pick(s)}] \in Int
    BY <2>1, <2>3
  <2>5. Total(f)[s] = f[Pick(s)] + Total(f)[s \ {Pick(s)}]
    BY <2>1, <2>2, TotalDef
  <2>6. QED BY <2>1, <2>3, <2>4, <2>5
<1>2. QED BY <1>1

\* Any element may be taken out of a sum, not only the one the fold picks.
LEMMA TotalRemove ==
  ASSUME NEW D, IsFiniteSet(D), NEW f \in [D -> Int], NEW t \in SUBSET D, NEW e \in t
  PROVE  Total(f)[t] = f[e] + Total(f)[t \ {e}]
<1> DEFINE B == {s \in SUBSET D : \E x \in s : Total(f)[s] # f[x] + Total(f)[s \ {x}]}
<1>1. B = {}
  <2> SUFFICES ASSUME B # {} PROVE FALSE
    OBVIOUS
  <2>1. PICK s \in B : \A x \in s : s \ {x} \notin B
    BY LeastSet
  <2>2. PICK x \in s : Total(f)[s] # f[x] + Total(f)[s \ {x}]
    BY <2>1
  <2> DEFINE y == Pick(s)
  <2>3. y \in s /\ Total(f)[s] = f[y] + Total(f)[s \ {y}]
    BY <2>1, <2>2, TotalDef, PickIn
  <2> HIDE DEF y
  <2>4. x # y
    BY <2>2, <2>3
  <2>5. Total(f)[s \ {y}] = f[x] + Total(f)[(s \ {y}) \ {x}]
    <3>1. s \ {y} \notin B /\ s \ {y} \in SUBSET D /\ x \in s \ {y}
      BY <2>1, <2>3, <2>4
    <3>2. QED BY <3>1
  <2>6. Total(f)[s \ {x}] = f[y] + Total(f)[(s \ {x}) \ {y}]
    <3>1. s \ {x} \notin B /\ s \ {x} \in SUBSET D /\ y \in s \ {x}
      BY <2>1, <2>2, <2>3, <2>4
    <3>2. QED BY <3>1
  <2>7. (s \ {x}) \ {y} = (s \ {y}) \ {x}
    OBVIOUS
  <2>8. /\ f[x] \in Int /\ f[y] \in Int /\ Total(f)[s] \in Int
        /\ Total(f)[(s \ {x}) \ {y}] \in Int
    BY <2>1, <2>2, <2>3, TotalType
  <2> DEFINE rest == Total(f)[(s \ {x}) \ {y}]
  <2>9. Total(f)[s] = f[y] + (f[x] + rest) /\ Total(f)[s \ {x}] = f[y] + rest
    BY <2>3, <2>5, <2>6, <2>7
  <2>10. rest \in Int
    BY <2>8
  <2> HIDE DEF rest
  <2>11. f[y] + (f[x] + rest) = f[x] + (f[y] + rest)
    BY <2>8, <2>10
  <2>12. QED BY <2>2, <2>9, <2>11
<1>2. QED BY <1>1

\* A sum depends on the values at the elements summed only.
LEMMA TotalAgree ==
  ASSUME NEW D, IsFiniteSet(D), NEW f \in [D -> Int], NEW E, IsFiniteSet(E),
         NEW g \in [E -> Int], NEW t \in SUBSET D, t \subseteq E,
         \A x \in t : f[x] = g[x]
  PROVE  Total(f)[t] = Total(g)[t]
<1> DEFINE B == {s \in SUBSET t : Total(f)[s] # Total(g)[s]}
<1>0. IsFiniteSet(t)
  BY FS_Subset
<1>1. B = {}
  <2> SUFFICES ASSUME B # {} PROVE FALSE
    OBVIOUS
  <2>1. PICK s : s \in B /\ \A x \in s : s \ {x} \notin B
    BY <1>0, LeastSet
  <2>2. s # {}
    <3>1. Total(f)[{}] = 0 /\ Total(g)[{}] = 0
      BY TotalEmpty
    <3>2. QED BY <2>1, <3>1
  <2>3. PICK x : x \in s
    BY <2>2
  <2>4. Total(f)[s] = f[x] + Total(f)[s \ {x}] /\ Total(g)[s] = g[x] + Total(g)[s \ {x}]
    <3>1. s \in SUBSET D
      BY <2>1
    <3>2. s \in SUBSET E
      BY <2>1
    <3>3. Total(f)[s] = f[x] + Total(f)[s \ {x}]
      BY ONLY <2>3, <3>1, IsFiniteSet(D), f \in [D -> Int], TotalRemove
    <3>4. Total(g)[s] = g[x] + Total(g)[s \ {x}]
      BY ONLY <2>3, <3>2, IsFiniteSet(E), g \in [E -> Int], TotalRemove
    <3>5. QED BY <3>3, <3>4
  <2>5. s \ {x} \notin B
    BY <2>1, <2>3
  <2>6. s \in SUBSET t /\ s \ {x} \in SUBSET t
    BY <2>1
  <2>7. QED BY <2>1, <2>3, <2>4, <2>5, <2>6
<1>2. QED BY <1>1
-----------------------------------------------------------------------------
(* Sums *)

LEMMA SumType ==
  ASSUME NEW S, IsFiniteSet(S), NEW f \in [S -> Int]
  PROVE  SumFunction(f) \in Int
BY SumTotal, TotalType

LEMMA SumEmpty == ASSUME NEW f, DOMAIN f = {} PROVE SumFunction(f) = 0
BY SumTotal, TotalDef, FS_EmptySet

\* One element and the rest.
LEMMA SumRemove ==
  ASSUME NEW S, IsFiniteSet(S), NEW f \in [S -> Int], NEW x \in S
  PROVE  SumFunction(f) = f[x] + SumFunction(Restrict(f, S \ {x}))
<1> DEFINE r == [y \in S \ {x} |-> f[y]]
<1>1. IsFiniteSet(S \ {x}) /\ r \in [S \ {x} -> Int]
  BY FS_RemoveElement
<1>2. DOMAIN r = S \ {x} /\ \A y \in S \ {x} : r[y] = f[y]
  OBVIOUS
<1> HIDE DEF r
<1>3. Total(f)[S \ {x}] = Total(r)[S \ {x}]
  BY <1>1, <1>2, TotalAgree
<1>4. SumFunction(f) = Total(f)[S] /\ SumFunction(r) = Total(r)[S \ {x}]
  BY <1>2, SumTotal
<1>5. Total(f)[S] = f[x] + Total(f)[S \ {x}]
  BY TotalRemove
<1>6. QED BY <1>3, <1>4, <1>5 DEF r, Restrict

\* One more element.
LEMMA SumExtend ==
  ASSUME NEW R, IsFiniteSet(R), NEW x, x \notin R, NEW S, S = R \cup {x},
         NEW f \in [S -> Int], NEW g \in [R -> Int], \A y \in R : g[y] = f[y]
  PROVE  SumFunction(f) = f[x] + SumFunction(g)
<1>1. IsFiniteSet(S) /\ x \in S
  BY FS_AddElement
<1>2. g = Restrict(f, S \ {x})
  BY DEF Restrict
<1>3. SumFunction(f) = f[x] + SumFunction(Restrict(f, S \ {x}))
  BY ONLY <1>1, f \in [S -> Int], SumRemove
<1>4. QED BY ONLY <1>2, <1>3

\* One value changed.
LEMMA SumUpdate ==
  ASSUME NEW S, IsFiniteSet(S), NEW f \in [S -> Int], NEW g \in [S -> Int],
         NEW x \in S, \A y \in S \ {x} : g[y] = f[y]
  PROVE  SumFunction(g) = SumFunction(f) - f[x] + g[x]
<1> DEFINE r == Restrict(f, S \ {x})
<1>1. r = Restrict(g, S \ {x})
  BY DEF Restrict
<1>2. r \in [S \ {x} -> Int] /\ IsFiniteSet(S \ {x})
  BY FS_RemoveElement DEF Restrict
<1>3. SumFunction(f) = f[x] + SumFunction(r)
  BY ONLY IsFiniteSet(S), f \in [S -> Int], x \in S, SumRemove
<1>4. SumFunction(g) = g[x] + SumFunction(r)
  <2>1. SumFunction(g) = g[x] + SumFunction(Restrict(g, S \ {x}))
    BY ONLY IsFiniteSet(S), g \in [S -> Int], x \in S, SumRemove
  <2>2. QED BY ONLY <1>1, <2>1
<1> HIDE DEF r
<1>5. SumFunction(r) \in Int /\ f[x] \in Int /\ g[x] \in Int
  BY <1>2, SumType
<1> DEFINE n == SumFunction(r)
<1> HIDE DEF n
<1>6. SumFunction(f) = f[x] + n /\ SumFunction(g) = g[x] + n /\ n \in Int
  BY <1>3, <1>4, <1>5 DEF n
<1>7. QED BY <1>5, <1>6

\* Sums of values that are no smaller are no smaller.
LEMMA SumMonotone ==
  ASSUME NEW S, IsFiniteSet(S), NEW f \in [S -> Int], NEW g \in [S -> Int],
         \A x \in S : f[x] <= g[x]
  PROVE  SumFunction(f) <= SumFunction(g)
<1> DEFINE B == {s \in SUBSET S : ~(Total(f)[s] <= Total(g)[s])}
<1>1. B = {}
  <2> SUFFICES ASSUME B # {} PROVE FALSE
    OBVIOUS
  <2>1. PICK s \in B : \A x \in s : s \ {x} \notin B
    BY LeastSet
  <2>2. ~(Total(f)[s] <= Total(g)[s]) /\ s \in SUBSET S
    BY <2>1
  <2>3. s # {}
    <3>1. Total(f)[{}] = 0 /\ Total(g)[{}] = 0
      BY TotalEmpty
    <3>2. QED BY <2>2, <3>1
  <2>4. PICK x \in s : TRUE
    BY <2>3
  <2>5. Total(f)[s] = f[x] + Total(f)[s \ {x}] /\ Total(g)[s] = g[x] + Total(g)[s \ {x}]
    BY <2>2, TotalRemove
  <2>6. s \ {x} \in SUBSET S /\ Total(f)[s \ {x}] <= Total(g)[s \ {x}]
    BY <2>1, <2>2
  <2>7. Total(f)[s \ {x}] \in Int /\ Total(g)[s \ {x}] \in Int /\ f[x] \in Int /\ g[x] \in Int
    BY <2>2, <2>6, TotalType
  <2>8. f[x] <= g[x]
    BY <2>2
  <2> DEFINE a == Total(f)[s \ {x}]
             b == Total(g)[s \ {x}]
  <2> HIDE DEF a, b
  <2>9. /\ Total(f)[s] = f[x] + a /\ Total(g)[s] = g[x] + b
        /\ a \in Int /\ b \in Int /\ a <= b
    BY <2>5, <2>6, <2>7 DEF a, b
  <2>10. QED BY <2>2, <2>7, <2>8, <2>9
<1>2. QED BY <1>1, SumTotal

LEMMA SumNonNegative ==
  ASSUME NEW S, IsFiniteSet(S), NEW f \in [S -> Int], \A x \in S : f[x] >= 0
  PROVE  SumFunction(f) >= 0
<1> DEFINE B == {s \in SUBSET S : ~(Total(f)[s] >= 0)}
<1>1. B = {}
  <2> SUFFICES ASSUME B # {} PROVE FALSE
    OBVIOUS
  <2>1. PICK s \in B : \A x \in s : s \ {x} \notin B
    BY LeastSet
  <2>2. ~(Total(f)[s] >= 0) /\ s \in SUBSET S
    BY <2>1
  <2>3. s # {}
    <3>1. Total(f)[{}] = 0
      BY TotalEmpty
    <3>2. QED BY <2>2, <3>1
  <2>4. PICK x \in s : TRUE
    BY <2>3
  <2>5. Total(f)[s] = f[x] + Total(f)[s \ {x}]
    BY ONLY IsFiniteSet(S), f \in [S -> Int], <2>2, <2>4, TotalRemove
  <2>6. s \ {x} \in SUBSET S /\ Total(f)[s \ {x}] >= 0
    BY <2>1, <2>2
  <2>7. Total(f)[s \ {x}] \in Int /\ f[x] \in Int /\ f[x] >= 0
    BY <2>2, <2>6, TotalType
  <2> DEFINE a == Total(f)[s \ {x}]
  <2> HIDE DEF a
  <2>8. Total(f)[s] = f[x] + a /\ a \in Int /\ a >= 0
    BY <2>5, <2>6, <2>7 DEF a
  <2>9. QED BY <2>2, <2>7, <2>8
<1>2. QED BY <1>1, SumTotal

LEMMA SumPlus ==
  ASSUME NEW S, IsFiniteSet(S), NEW f \in [S -> Int], NEW g \in [S -> Int],
         NEW h \in [S -> Int], \A x \in S : h[x] = f[x] + g[x]
  PROVE  SumFunction(h) = SumFunction(f) + SumFunction(g)
<1> DEFINE B == {s \in SUBSET S : Total(h)[s] # Total(f)[s] + Total(g)[s]}
<1>1. B = {}
  <2> SUFFICES ASSUME B # {} PROVE FALSE
    OBVIOUS
  <2>1. PICK s \in B : \A x \in s : s \ {x} \notin B
    BY LeastSet
  <2>2. Total(h)[s] # Total(f)[s] + Total(g)[s] /\ s \in SUBSET S
    BY <2>1
  <2>3. s # {}
    <3>1. Total(f)[{}] = 0 /\ Total(g)[{}] = 0 /\ Total(h)[{}] = 0
      BY TotalEmpty
    <3>2. Total(h)[{}] = Total(f)[{}] + Total(g)[{}]
      BY ONLY <3>1
    <3>3. QED BY <2>2, <3>2
  <2>4. PICK x \in s : TRUE
    BY <2>3
  <2>5. /\ Total(f)[s] = f[x] + Total(f)[s \ {x}]
        /\ Total(g)[s] = g[x] + Total(g)[s \ {x}]
        /\ Total(h)[s] = h[x] + Total(h)[s \ {x}]
    <3>1. Total(f)[s] = f[x] + Total(f)[s \ {x}]
      BY ONLY IsFiniteSet(S), f \in [S -> Int], <2>2, <2>4, TotalRemove
    <3>2. Total(g)[s] = g[x] + Total(g)[s \ {x}]
      BY ONLY IsFiniteSet(S), g \in [S -> Int], <2>2, <2>4, TotalRemove
    <3>3. Total(h)[s] = h[x] + Total(h)[s \ {x}]
      BY ONLY IsFiniteSet(S), h \in [S -> Int], <2>2, <2>4, TotalRemove
    <3>4. QED BY <3>1, <3>2, <3>3
  <2>6. s \ {x} \in SUBSET S /\ Total(h)[s \ {x}] = Total(f)[s \ {x}] + Total(g)[s \ {x}]
    BY <2>1, <2>2
  <2>7. /\ Total(f)[s \ {x}] \in Int /\ Total(g)[s \ {x}] \in Int
        /\ f[x] \in Int /\ g[x] \in Int /\ h[x] = f[x] + g[x]
    BY <2>2, <2>6, TotalType
  <2> DEFINE a == Total(f)[s \ {x}]
             b == Total(g)[s \ {x}]
  <2> HIDE DEF a, b
  <2>8. /\ Total(f)[s] = f[x] + a /\ Total(g)[s] = g[x] + b
        /\ Total(h)[s] = (f[x] + g[x]) + (a + b) /\ a \in Int /\ b \in Int
    BY <2>5, <2>6, <2>7 DEF a, b
  <2>9. QED BY <2>2, <2>7, <2>8
<1>2. QED BY <1>1, SumTotal

LEMMA SumZero ==
  ASSUME NEW S, IsFiniteSet(S), NEW f \in [S -> Int], \A x \in S : f[x] = 0
  PROVE  SumFunction(f) = 0
<1>1. \A x \in S : f[x] = f[x] + f[x]
  OBVIOUS
<1>2. SumFunction(f) = SumFunction(f) + SumFunction(f)
  BY ONLY IsFiniteSet(S), f \in [S -> Int], <1>1, SumPlus
<1>3. QED BY <1>2, SumType

\* A sum over two disjoint sets.
LEMMA SumUnion ==
  ASSUME NEW S, IsFiniteSet(S), NEW f \in [S -> Int], NEW T \in SUBSET S
  PROVE  SumFunction(f) =
           SumFunction(Restrict(f, T)) + SumFunction(Restrict(f, S \ T))
<1> DEFINE B == {s \in SUBSET (S \ T) : Total(f)[T \cup s] # Total(f)[T] + Total(f)[s]}
<1>0. IsFiniteSet(T) /\ IsFiniteSet(S \ T)
  BY FS_Subset
<1>1. B = {}
  <2> SUFFICES ASSUME B # {} PROVE FALSE
    OBVIOUS
  <2>1. PICK s \in B : \A x \in s : s \ {x} \notin B
    BY <1>0, LeastSet
  <2>2. /\ Total(f)[T \cup s] # Total(f)[T] + Total(f)[s]
        /\ s \in SUBSET S /\ T \cup s \in SUBSET S /\ s \cap T = {}
    BY <2>1
  <2>3. Total(f)[T] \in Int
    BY TotalType
  <2>4. s # {}
    <3>1. Total(f)[{}] = 0
      BY TotalEmpty
    <3>2. ASSUME s = {} PROVE FALSE
      <4>1. T \cup s = T /\ Total(f)[s] = 0
        BY <3>1, <3>2
      <4>2. Total(f)[T] # Total(f)[T] + 0
        BY <2>2, <4>1
      <4>3. QED BY <2>3, <4>2
    <3>3. QED BY <3>2
  <2>5. PICK x \in s : TRUE
    BY <2>4
  <2>6. Total(f)[s] = f[x] + Total(f)[s \ {x}]
    BY <2>2, TotalRemove
  <2>7. Total(f)[T \cup s] = f[x] + Total(f)[T \cup (s \ {x})]
    <3>1. (T \cup s) \ {x} = T \cup (s \ {x}) /\ x \in T \cup s
      BY <2>2
    <3>2. QED BY <2>2, <3>1, TotalRemove
  <2>8. s \ {x} \in SUBSET S /\ Total(f)[T \cup (s \ {x})] = Total(f)[T] + Total(f)[s \ {x}]
    BY <2>1, <2>2
  <2>9. Total(f)[s \ {x}] \in Int /\ f[x] \in Int
    BY <2>2, <2>8, TotalType
  <2> DEFINE a == Total(f)[s \ {x}]
             b == Total(f)[T]
  <2> HIDE DEF a, b
  <2>10. /\ Total(f)[s] = f[x] + a /\ Total(f)[T \cup s] = f[x] + (b + a)
         /\ a \in Int /\ b \in Int
    BY <2>3, <2>6, <2>7, <2>8, <2>9 DEF a, b
  <2>11. Total(f)[T \cup s] # b + Total(f)[s]
    BY <2>2 DEF b
  <2>12. QED BY <2>9, <2>10, <2>11
<1> DEFINE g == [x \in T |-> f[x]]
           h == [x \in S \ T |-> f[x]]
<1>2. g \in [T -> Int] /\ h \in [S \ T -> Int]
  OBVIOUS
<1>3. (\A x \in T : f[x] = g[x]) /\ \A x \in S \ T : f[x] = h[x]
  OBVIOUS
<1> HIDE DEF g, h
<1>4. Total(f)[T] = Total(g)[T] /\ Total(f)[S \ T] = Total(h)[S \ T]
  BY <1>0, <1>2, <1>3, TotalAgree
<1>5. /\ SumFunction(f) = Total(f)[S] /\ SumFunction(g) = Total(g)[T]
      /\ SumFunction(h) = Total(h)[S \ T]
  BY <1>2, SumTotal
<1>6. Total(f)[T \cup (S \ T)] = Total(f)[T] + Total(f)[S \ T] /\ T \cup (S \ T) = S
  BY <1>1
<1>7. QED BY <1>4, <1>5, <1>6 DEF g, h, Restrict

\* Elements that count nothing make no difference, and more elements that count
\* something only add to a sum.
LEMMA SumPart ==
  ASSUME NEW S, IsFiniteSet(S), NEW f \in [S -> Int], NEW T \in SUBSET S,
         NEW g \in [T -> Int], \A x \in T : g[x] = f[x]
  PROVE  /\ (\A x \in S \ T : f[x] >= 0) => SumFunction(g) <= SumFunction(f)
         /\ (\A x \in S \ T : f[x] = 0) => SumFunction(g) = SumFunction(f)
<1> DEFINE h == Restrict(f, S \ T)
<1>1. g = Restrict(f, T)
  BY DEF Restrict
<1>2. SumFunction(f) = SumFunction(g) + SumFunction(h)
  <2>1. SumFunction(f) = SumFunction(Restrict(f, T)) + SumFunction(h)
    BY ONLY IsFiniteSet(S), f \in [S -> Int], T \in SUBSET S, SumUnion
  <2>2. QED BY ONLY <1>1, <2>1
<1>3. IsFiniteSet(T) /\ IsFiniteSet(S \ T)
  BY FS_Subset
<1>4. h \in [S \ T -> Int]
  BY DEF Restrict
<1>5. \A x \in S \ T : h[x] = f[x]
  BY DEF Restrict
<1> HIDE DEF h
<1>6. SumFunction(g) \in Int /\ SumFunction(h) \in Int
  BY <1>3, <1>4, SumType
<1>7. ASSUME \A x \in S \ T : f[x] >= 0 PROVE SumFunction(h) >= 0
  BY <1>3, <1>4, <1>5, <1>7, SumNonNegative
<1>8. ASSUME \A x \in S \ T : f[x] = 0 PROVE SumFunction(h) = 0
  BY <1>3, <1>4, <1>5, <1>8, SumZero
<1>9. QED BY <1>2, <1>6, <1>7, <1>8

\* The elements of s that h assigns to k, with their values, and the sum of each
\* such part.
Part(s, q, h, k) == [x \in {y \in s : h[y] = k} |-> q[x]]
PartSums(s, q, h, K) == [k \in K |-> SumFunction(Part(s, q, h, k))]
Values(s, q) == [x \in s |-> q[x]]

LEMMA PartType ==
  ASSUME NEW s, IsFiniteSet(s), NEW q, \A x \in s : q[x] \in Int, NEW h, NEW k
  PROVE  /\ IsFiniteSet({y \in s : h[y] = k})
         /\ SumFunction(Part(s, q, h, k)) \in Int
<1>1. IsFiniteSet({y \in s : h[y] = k})
  BY FS_Subset
<1>2. Part(s, q, h, k) \in [{y \in s : h[y] = k} -> Int]
  BY DEF Part
<1>3. QED BY <1>1, <1>2, SumType

LEMMA PartSumsType ==
  ASSUME NEW s, IsFiniteSet(s), NEW q, \A x \in s : q[x] \in Int, NEW h, NEW K
  PROVE  PartSums(s, q, h, K) \in [K -> Int]
BY PartType DEF PartSums

\* One more element x adds its value to its own part only.
LEMMA PartsExtend ==
  ASSUME NEW r, IsFiniteSet(r), NEW x, x \notin r, NEW s, s = r \cup {x},
         NEW q, \A y \in s : q[y] \in Int, NEW K, IsFiniteSet(K), NEW h, h[x] \in K,
         SumFunction(Values(r, q)) = SumFunction(PartSums(r, q, h, K))
  PROVE  SumFunction(Values(s, q)) = SumFunction(PartSums(s, q, h, K))
<1> DEFINE a == h[x]
<1>0. IsFiniteSet(s)
  BY FS_AddElement
<1>1. SumFunction(Values(s, q)) = q[x] + SumFunction(Values(r, q))
  <2> DEFINE f == Values(s, q)
             g == Values(r, q)
  <2>1. /\ f \in [s -> Int] /\ g \in [r -> Int]
        /\ (\A y \in r : g[y] = f[y]) /\ f[x] = q[x]
    BY DEF Values
  <2> HIDE DEF f, g
  <2>2. SumFunction(f) = f[x] + SumFunction(g)
    BY <2>1, SumExtend
  <2>3. QED BY <2>1, <2>2 DEF f, g
<1>2. SumFunction(Part(s, q, h, a)) = q[x] + SumFunction(Part(r, q, h, a))
  <2> DEFINE P == {y \in s : h[y] = a}
             R == {y \in r : h[y] = a}
             f == Part(s, q, h, a)
             g == Part(r, q, h, a)
  <2>1. P = R \cup {x} /\ x \notin R
    OBVIOUS
  <2>2. f \in [P -> Int] /\ g \in [R -> Int]
    BY DEF Part
  <2>3. (\A y \in R : g[y] = f[y]) /\ f[x] = q[x]
    BY DEF Part
  <2>4. IsFiniteSet(R)
    BY FS_Subset
  <2> HIDE DEF f, g, P, R
  <2>5. SumFunction(f) = f[x] + SumFunction(g)
    BY <2>1, <2>2, <2>3, <2>4, SumExtend
  <2>6. QED BY <2>3, <2>5 DEF f, g
<1>3. \A k \in K \ {a} : Part(s, q, h, k) = Part(r, q, h, k)
  <2>1. \A k \in K \ {a} : {y \in s : h[y] = k} = {y \in r : h[y] = k}
    OBVIOUS
  <2>2. QED BY <2>1 DEF Part
<1> DEFINE p == PartSums(s, q, h, K)
           o == PartSums(r, q, h, K)
<1>4. p \in [K -> Int] /\ o \in [K -> Int]
  BY <1>0, PartSumsType
<1>5. p[a] = q[x] + o[a] /\ \A k \in K \ {a} : p[k] = o[k]
  BY <1>2, <1>3 DEF PartSums
<1>6. a \in K /\ q[x] \in Int
  OBVIOUS
<1>7. SumFunction(Values(s, q)) = q[x] + SumFunction(o)
  BY <1>1
<1> HIDE DEF p, o, a
<1>8. SumFunction(p) = SumFunction(o) - o[a] + p[a]
  BY <1>4, <1>5, <1>6, SumUpdate
<1>9. SumFunction(o) \in Int /\ o[a] \in Int
  BY <1>4, <1>6, SumType
<1>10. SumFunction(p) = q[x] + SumFunction(o)
  BY <1>5, <1>6, <1>8, <1>9
<1>11. QED BY <1>7, <1>10 DEF p

\* Summed order by order: h says which k in K each element belongs to.
LEMMA SumByOrder ==
  ASSUME NEW S, IsFiniteSet(S), NEW q \in [S -> Int], NEW K, IsFiniteSet(K),
         NEW h \in [S -> K]
  PROVE  SumFunction(q) = SumFunction(PartSums(S, q, h, K))
<1> DEFINE B == {s \in SUBSET S :
                   SumFunction(Values(s, q)) # SumFunction(PartSums(s, q, h, K))}
<1>1. B = {}
  <2> SUFFICES ASSUME B # {} PROVE FALSE
    OBVIOUS
  <2>1. PICK s \in B : \A x \in s : s \ {x} \notin B
    BY LeastSet
  <2>2. SumFunction(Values(s, q)) # SumFunction(PartSums(s, q, h, K)) /\ s \in SUBSET S
    BY <2>1
  <2>3. IsFiniteSet(s)
    BY <2>2, FS_Subset
  <2>4. s # {}
    <3>1. SUFFICES ASSUME s = {} PROVE FALSE
      OBVIOUS
    <3>2. SumFunction(Values(s, q)) = 0
      BY <3>1, SumEmpty DEF Values
    <3>3. \A k \in K : SumFunction(Part(s, q, h, k)) = 0
      BY <3>1, SumEmpty DEF Part
    <3>4. \A k \in K : PartSums(s, q, h, K)[k] = 0
      BY <3>3 DEF PartSums
    <3>5. PartSums(s, q, h, K) \in [K -> Int]
      BY <2>2, <2>3, PartSumsType
    <3>6. SumFunction(PartSums(s, q, h, K)) = 0
      BY <3>4, <3>5, SumZero
    <3>7. QED BY <2>2, <3>2, <3>6
  <2>5. PICK x \in s : TRUE
    BY <2>4
  <2>6. s \ {x} \notin B /\ s \ {x} \in SUBSET S
    BY <2>1, <2>2
  <2>7. SumFunction(Values(s \ {x}, q)) = SumFunction(PartSums(s \ {x}, q, h, K))
    BY <2>6
  <2>8. /\ IsFiniteSet(s \ {x}) /\ x \notin s \ {x} /\ s = (s \ {x}) \cup {x}
        /\ h[x] \in K /\ \A y \in s : q[y] \in Int
    BY <2>2, <2>3, FS_RemoveElement
  <2> HIDE DEF B
  <2>9. SumFunction(Values(s, q)) = SumFunction(PartSums(s, q, h, K))
    BY <2>7, <2>8, PartsExtend
  <2>10. QED BY <2>2, <2>9
<1>2. SumFunction(Values(S, q)) = SumFunction(PartSums(S, q, h, K))
  BY <1>1
<1>3. Values(S, q) = q
  BY DEF Values
<1>4. QED BY <1>2, <1>3
=============================================================================
