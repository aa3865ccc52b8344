----------------------------- MODULE SumTheorems -----------------------------
(***************************************************************************)
(* Facts about SumFunctionOnSet(f, S), the sum of f[x] for x in a finite   *)
(* set S.  The induction over S is done by hand: among the sets that       *)
(* refute a claim one has the fewest elements, and removing an element     *)
(* gives a set that does not refute it.                                    *)
(***************************************************************************)
EXTENDS Integers, FiniteSets, Functions, WellFoundedInduction, FiniteSetTheorems, TLAPS

\* Every non-empty set of natural numbers has a least element.
LEMMA LeastNumber ==
    ASSUME NEW T \in SUBSET Nat, T # {}
    PROVE  \E m \in T : \A n \in T : m <= n
<1> DEFINE R == OpToRel(<, Nat)
<1>1. IsWellFoundedOn(R, Nat)
  BY NatLessThanWellFounded
<1>2. \A x, y \in Nat : y < x => <<y, x>> \in R
  BY DEF OpToRel
<1> HIDE DEF R
<1>3. PICK m \in T : \A n \in T : ~ (<<n, m>> \in R)
  BY <1>1, WFMin
<1>4. ASSUME NEW n \in T PROVE m <= n
  <2>1. n \in Nat /\ m \in Nat
    OBVIOUS
  <2>2. ~ (n < m)
    BY <1>2, <1>3, <2>1
  <2> QED BY <2>1, <2>2
<1> QED BY <1>4

\* A non-empty set of finite sets has a member that is no longer one when an
\* element is removed from it.
LEMMA SmallestSet ==
    ASSUME NEW D, IsFiniteSet(D), NEW B \in SUBSET SUBSET D, B # {}
    PROVE  \E s \in B : \A x \in s : s \ {x} \notin B
<1> DEFINE T == {Cardinality(s) : s \in B}
<1>1. \A s \in B : IsFiniteSet(s) /\ Cardinality(s) \in Nat
  BY FS_Subset, FS_CardinalityType
<1>2. T \in SUBSET Nat /\ T # {}
  BY <1>1
<1>3. PICK s \in B : \A t \in B : Cardinality(s) <= Cardinality(t)
  <2>1. PICK m \in T : \A n \in T : m <= n
    <3> HIDE DEF T
    <3> QED BY <1>2, LeastNumber
  <2> QED BY <2>1
<1>4. ASSUME NEW x \in s, s \ {x} \in B PROVE FALSE
  <2>1. Cardinality(s \ {x}) = Cardinality(s) - 1
    BY <1>1, FS_RemoveElement
  <2> QED BY <1>1, <1>3, <1>4, <2>1
<1> QED BY <1>4

Summable(f, D) == IsFiniteSet(D) /\ \A x \in D : f[x] \in Int

\* A part of what can be summed can be summed.
LEMMA SummableSubset ==
    ASSUME NEW f, NEW D, Summable(f, D), NEW S \in SUBSET D
    PROVE  Summable(f, S)
  BY FS_Subset DEF Summable

\* g gives the sums of f over the subsets of D, taking one element at a time.
Some(s) == CHOOSE x \in s : TRUE
IsSum(g, f, D) ==
    g = [s \in SUBSET D |-> IF s = {} THEN 0 ELSE f[Some(s)] + g[s \ {Some(s)}]]

\* A set that is not empty has the member that is taken first.
LEMMA SomeMember == ASSUME NEW s, s # {} PROVE Some(s) \in s
  BY DEF Some

\* g is such a function and its values are the sums of the library.
IsTable(g, f, D) ==
    /\ g \in [SUBSET D -> Int]
    /\ IsSum(g, f, D)
    /\ \A S \in SUBSET D : SumFunctionOnSet(f, S) = g[S]

\* The sum of the library, as a function on the subsets.
LEMMA SumDef ==
    ASSUME NEW f, NEW D
    PROVE  SumFunctionOnSet(f, D) = (CHOOSE g : IsSum(g, f, D))[D]
  BY DEF SumFunctionOnSet, FoldFunctionOnSet, MapThenFoldSet, IsSum, Some

\* Such a g exists: the least number n of elements for which it does not can be
\* neither 0 nor more.
LEMMA SumExists ==
    ASSUME NEW f, NEW D, Summable(f, D)
    PROVE  \E g \in [SUBSET D -> Int] : IsSum(g, f, D)
<1>0. IsFiniteSet(D) /\ \A x \in D : f[x] \in Int
  BY DEF Summable
<1> DEFINE P(n) == {s \in SUBSET D : Cardinality(s) <= n}
           Body(g, s) == IF s = {} THEN 0 ELSE f[Some(s)] + g[s \ {Some(s)}]
           Ok(n) == \E g \in [P(n) -> Int] : \A s \in P(n) : g[s] = Body(g, s)
           T == {n \in Nat : ~Ok(n)}
<1>1. \A s \in SUBSET D : IsFiniteSet(s) /\ Cardinality(s) \in Nat
  BY <1>0, FS_Subset, FS_CardinalityType
<1>2. ASSUME NEW s \in SUBSET D, s # {}
      PROVE  /\ Some(s) \in s /\ s \ {Some(s)} \in SUBSET D
             /\ Cardinality(s \ {Some(s)}) = Cardinality(s) - 1
  BY <1>1, <1>2, SomeMember, FS_RemoveElement
<1>3. Ok(0)
  <2>1. P(0) = {{}}
    BY <1>1, FS_EmptySet
  <2> DEFINE g == [s \in {{}} |-> 0]
  <2>2. g \in [P(0) -> Int]
    BY <2>1
  <2>3. \A s \in P(0) : g[s] = Body(g, s)
    BY <2>1
  <2> QED BY <2>2, <2>3
<1>4. ASSUME NEW n \in Nat, Ok(n) PROVE Ok(n + 1)
  <2>1. PICK g \in [P(n) -> Int] : \A s \in P(n) : g[s] = Body(g, s)
    BY <1>4
  <2> DEFINE h == [s \in P(n + 1) |-> Body(g, s)]
  <2>2. ASSUME NEW s \in P(n + 1), s # {} PROVE s \ {Some(s)} \in P(n)
    <3>1. s \in SUBSET D /\ Cardinality(s) \in Nat /\ Cardinality(s) <= n + 1
      BY <1>1
    <3>2. s \ {Some(s)} \in SUBSET D /\ Cardinality(s \ {Some(s)}) = Cardinality(s) - 1
      BY <1>2, <2>2, <3>1
    <3>3. Cardinality(s) - 1 <= n
      BY <3>1
    <3> QED BY <3>2, <3>3
  <2>3. h \in [P(n + 1) -> Int]
    BY <1>0, <1>2, <2>2
  <2>4. \A s \in P(n) : s \in P(n + 1) /\ h[s] = g[s]
    BY <1>1, <2>1
  <2>5. \A s \in P(n + 1) : h[s] = Body(h, s)
    BY <2>2, <2>4
  <2> HIDE DEF h
  <2> QED BY <2>3, <2>5
<1> HIDE DEF Ok
<1>5. T = {}
  <2> SUFFICES ASSUME T # {} PROVE FALSE
    OBVIOUS
  <2>1. PICK m \in T : \A n \in T : m <= n
    <3>1. T \in SUBSET Nat
      OBVIOUS
    <3> HIDE DEF T
    <3> QED BY <3>1, LeastNumber
  <2>2. m \in Nat /\ m # 0
    BY <1>3
  <2>3. m - 1 \in Nat /\ m - 1 \notin T
    BY <2>1, <2>2
  <2> QED BY <1>4, <2>2, <2>3
<1>6. Ok(Cardinality(D))
  BY <1>1, <1>5
<1>7. P(Cardinality(D)) = SUBSET D
  BY <1>1, FS_Subset
<1>8. PICK g \in [SUBSET D -> Int] : \A s \in SUBSET D : g[s] = Body(g, s)
  BY <1>6, <1>7 DEF Ok
<1> QED BY <1>8 DEF IsSum

\* All such functions agree, also for different sets and functions, on the sets
\* where the functions agree.
LEMMA SumUnique ==
    ASSUME NEW D, IsFiniteSet(D), NEW f, NEW g, IsSum(g, f, D),
           NEW E, NEW e, NEW h, IsSum(h, e, E),
           NEW S \in SUBSET D, S \in SUBSET E, \A x \in S : f[x] = e[x]
    PROVE  g[S] = h[S]
<1> DEFINE B == {s \in SUBSET S : g[s] # h[s]}
<1> SUFFICES ASSUME B # {} PROVE FALSE
  OBVIOUS
<1>1. IsFiniteSet(S)
  BY FS_Subset
<1>2. PICK s \in B : \A x \in s : s \ {x} \notin B
  BY <1>1, SmallestSet
<1>3. s \in SUBSET D /\ s \in SUBSET E /\ g[s] # h[s]
  OBVIOUS
<1>4. s # {}
  BY <1>3 DEF IsSum
<1> DEFINE x == Some(s)
<1>5. x \in s
  BY <1>4, SomeMember
<1>6. g[s \ {x}] = h[s \ {x}]
  BY <1>2, <1>5
<1>7. g[s] = f[x] + g[s \ {x}] /\ h[s] = e[x] + h[s \ {x}]
  BY <1>3, <1>4 DEF IsSum
<1> QED BY <1>3, <1>5, <1>6, <1>7

\* One function has the sums over all subsets.
LEMMA SumTable ==
    ASSUME NEW f, NEW D, Summable(f, D)
    PROVE  \E g : IsTable(g, f, D)
<1>1. PICK g \in [SUBSET D -> Int] : IsSum(g, f, D)
  BY SumExists
<1>2. ASSUME NEW S \in SUBSET D PROVE SumFunctionOnSet(f, S) = g[S]
  <2> DEFINE h == CHOOSE h : IsSum(h, f, S)
  <2>1. \E h1 : IsSum(h1, f, S)
    BY SummableSubset, SumExists
  <2>2. IsSum(h, f, S)
    BY <2>1
  <2>3. SumFunctionOnSet(f, S) = h[S]
    BY SumDef
  <2> HIDE DEF h
  <2>4. IsFiniteSet(D)
    BY DEF Summable
  <2>5. g[S] = h[S]
    BY <1>1, <2>2, <2>4, SumUnique
  <2> QED BY <2>3, <2>5
<1> QED BY <1>1, <1>2 DEF IsTable

-----------------------------------------------------------------------------
\* A sum of integers is an integer.
THEOREM SumInt ==
    ASSUME NEW f, NEW D, Summable(f, D)
    PROVE  SumFunctionOnSet(f, D) \in Int
<1>1. PICK g : IsTable(g, f, D)
  BY SumTable
<1> QED BY <1>1 DEF IsTable

\* The sum over no elements.
THEOREM SumEmpty == ASSUME NEW f PROVE SumFunctionOnSet(f, {}) = 0
<1>1. Summable(f, {})
  BY FS_EmptySet DEF Summable
<1>2. PICK g : IsTable(g, f, {})
  BY <1>1, SumTable
<1>3. SumFunctionOnSet(f, {}) = g[{}] /\ IsSum(g, f, {})
  BY <1>2 DEF IsTable
<1> QED BY <1>3 DEF IsSum

\* Any element may be taken first.
THEOREM SumRemove ==
    ASSUME NEW f, NEW D, Summable(f, D), NEW y \in D
    PROVE  SumFunctionOnSet(f, D) = f[y] + SumFunctionOnSet(f, D \ {y})
<1>1. PICK g : IsTable(g, f, D)
  BY SumTable
<1>2. g \in [SUBSET D -> Int] /\ IsSum(g, f, D)
  BY <1>1 DEF IsTable
<1>3. IsFiniteSet(D) /\ \A x \in D : f[x] \in Int
  BY DEF Summable
<1> DEFINE B == {s \in SUBSET D : \E x \in s : g[s] # f[x] + g[s \ {x}]}
<1>4. B = {}
  <2> SUFFICES ASSUME B # {} PROVE FALSE
    OBVIOUS
  <2>1. PICK s \in B : \A x \in s : s \ {x} \notin B
    BY <1>3, SmallestSet
  <2>2. PICK x \in s : g[s] # f[x] + g[s \ {x}]
    BY <2>1
  <2> DEFINE c == Some(s)
  <2>3. s \in SUBSET D /\ c \in s /\ g[s] = f[c] + g[s \ {c}]
    BY <1>2, <2>2, SomeMember DEF IsSum
  <2>4. x # c
    BY <2>2, <2>3
  <2> HIDE DEF c
  <2> DEFINE r == g[s \ {c, x}]
  <2>5. g[s \ {c}] = f[x] + r
    <3>1. (s \ {c}) \ {x} = s \ {c, x}
      OBVIOUS
    <3>2. s \ {c} \in SUBSET D /\ x \in s \ {c} /\ s \ {c} \notin B
      BY <2>1, <2>3, <2>4
    <3>3. g[s \ {c}] = f[x] + g[(s \ {c}) \ {x}]
      BY <3>2
    <3> QED BY <3>1, <3>3
  <2>6. g[s \ {x}] = f[c] + r
    <3>1. (s \ {x}) \ {c} = s \ {c, x}
      OBVIOUS
    <3>2. s \ {x} \in SUBSET D /\ c \in s \ {x} /\ s \ {x} \notin B
      BY <2>1, <2>3, <2>4
    <3>3. g[s \ {x}] = f[c] + g[(s \ {x}) \ {c}]
      BY <3>2
    <3> QED BY <3>1, <3>3
  <2>7. f[x] \in Int /\ f[c] \in Int /\ r \in Int
    BY <1>2, <1>3, <2>3
  <2> HIDE DEF B, r
  <2>8. f[c] + (f[x] + r) = f[x] + (f[c] + r)
    BY <2>7
  <2> QED BY <2>2, <2>3, <2>5, <2>6, <2>8
<1>5. g[D] = f[y] + g[D \ {y}]
  BY <1>4
<1> QED BY <1>1, <1>5 DEF IsTable

\* Functions that agree on a set have the same sum over it.
THEOREM SumAgree ==
    ASSUME NEW f, NEW e, NEW D, Summable(f, D), \A x \in D : e[x] = f[x]
    PROVE  SumFunctionOnSet(e, D) = SumFunctionOnSet(f, D)
<1>1. Summable(e, D) /\ IsFiniteSet(D)
  BY DEF Summable
<1>2. PICK g : IsTable(g, f, D)
  BY SumTable
<1>3. PICK h : IsTable(h, e, D)
  BY <1>1, SumTable
<1>4. IsSum(g, f, D) /\ IsSum(h, e, D)
  BY <1>2, <1>3 DEF IsTable
<1>5. g[D] = h[D]
  BY <1>1, <1>4, SumUnique
<1> QED BY <1>2, <1>3, <1>5 DEF IsTable

\* A sum changes by as much as one of its terms.
THEOREM SumChange ==
    ASSUME NEW f, NEW e, NEW D, Summable(f, D), Summable(e, D), NEW y \in D,
           \A x \in D \ {y} : e[x] = f[x]
    PROVE  SumFunctionOnSet(e, D) = SumFunctionOnSet(f, D) + e[y] - f[y]
<1> DEFINE R == D \ {y}
<1>1. Summable(f, R)
  BY SummableSubset
<1>2. SumFunctionOnSet(e, R) = SumFunctionOnSet(f, R) /\ SumFunctionOnSet(f, R) \in Int
  BY <1>1, SumAgree, SumInt
<1>3. SumFunctionOnSet(e, D) = e[y] + SumFunctionOnSet(e, R)
  BY SumRemove
<1>4. SumFunctionOnSet(f, D) = f[y] + SumFunctionOnSet(f, R)
  BY SumRemove
<1>5. e[y] \in Int /\ f[y] \in Int
  BY DEF Summable
<1> QED BY <1>2, <1>3, <1>4, <1>5

\* A sum of natural numbers is one and is no less than each of its terms.
THEOREM SumNat ==
    ASSUME NEW f, NEW D, IsFiniteSet(D), \A x \in D : f[x] \in Nat
    PROVE  /\ SumFunctionOnSet(f, D) \in Nat
           /\ \A y \in D : f[y] <= SumFunctionOnSet(f, D)
<1>0. Summable(f, D)
  BY DEF Summable
<1> DEFINE B == {s \in SUBSET D : SumFunctionOnSet(f, s) \notin Nat}
<1>1. B = {}
  <2> SUFFICES ASSUME B # {} PROVE FALSE
    OBVIOUS
  <2>0. B \in SUBSET SUBSET D
    OBVIOUS
  <2>1. PICK s \in B : \A x \in s : s \ {x} \notin B
    BY <2>0, SmallestSet
  <2>2. s # {}
    BY SumEmpty
  <2>3. PICK x \in s : TRUE
    BY <2>2
  <2>4. s \in SUBSET D /\ s \ {x} \in SUBSET D /\ s \ {x} \notin B /\ x \in D
    BY <2>1
  <2>5. SumFunctionOnSet(f, s \ {x}) \in Nat
    BY <2>4
  <2>6. SumFunctionOnSet(f, s) = f[x] + SumFunctionOnSet(f, s \ {x})
    BY <1>0, <2>4, SummableSubset, SumRemove
  <2>7. SumFunctionOnSet(f, s) \in Nat
    BY <2>4, <2>5, <2>6
  <2> QED BY <2>7
<1>2. \A s \in SUBSET D : SumFunctionOnSet(f, s) \in Nat
  BY <1>1
<1>3. ASSUME NEW y \in D PROVE f[y] <= SumFunctionOnSet(f, D)
  <2>1. SumFunctionOnSet(f, D) = f[y] + SumFunctionOnSet(f, D \ {y})
    BY <1>0, SumRemove
  <2>2. SumFunctionOnSet(f, D \ {y}) \in Nat /\ f[y] \in Nat
    BY <1>2
  <2> QED BY <2>1, <2>2
<1> QED BY <1>2, <1>3

\* A sum over one more element.
THEOREM SumExtend ==
    ASSUME NEW f, NEW e, NEW D, Summable(f, D), NEW y, y \notin D, e[y] \in Int,
           \A x \in D : e[x] = f[x]
    PROVE  SumFunctionOnSet(e, D \cup {y}) = SumFunctionOnSet(f, D) + e[y]
<1>1. Summable(e, D \cup {y}) /\ (D \cup {y}) \ {y} = D
  BY FS_AddElement DEF Summable
<1>2. SumFunctionOnSet(e, D \cup {y}) = e[y] + SumFunctionOnSet(e, D)
  BY <1>1, SumRemove
<1>3. SumFunctionOnSet(e, D) = SumFunctionOnSet(f, D) /\ SumFunctionOnSet(f, D) \in Int
  BY SumAgree, SumInt
<1> QED BY <1>2, <1>3

\* A sum of zeros.
THEOREM SumZero ==
    ASSUME NEW f, NEW D, IsFiniteSet(D), \A x \in D : f[x] = 0
    PROVE  SumFunctionOnSet(f, D) = 0
<1>0. Summable(f, D)
  BY DEF Summable
<1> DEFINE B == {s \in SUBSET D : SumFunctionOnSet(f, s) # 0}
<1>1. B = {}
  <2> SUFFICES ASSUME B # {} PROVE FALSE
    OBVIOUS
  <2>0. B \in SUBSET SUBSET D
    OBVIOUS
  <2>1. PICK s \in B : \A x \in s : s \ {x} \notin B
    BY <2>0, SmallestSet
  <2>2. s # {}
    BY SumEmpty
  <2>3. PICK x \in s : TRUE
    BY <2>2
  <2>4. s \in SUBSET D /\ s \ {x} \in SUBSET D /\ s \ {x} \notin B /\ x \in D
    BY <2>1
  <2>5. SumFunctionOnSet(f, s \ {x}) = 0
    BY <2>4
  <2>6. SumFunctionOnSet(f, s) = f[x] + SumFunctionOnSet(f, s \ {x})
    BY <1>0, <2>4, SummableSubset, SumRemove
  <2> QED BY <2>4, <2>5, <2>6
<1> QED BY <1>1

\* A part of the elements has no larger sum.
THEOREM SumSubset ==
    ASSUME NEW f, NEW D, IsFiniteSet(D), \A x \in D : f[x] \in Nat, NEW S \in SUBSET D
    PROVE  SumFunctionOnSet(f, S) <= SumFunctionOnSet(f, D)
<1> DEFINE a(s) == SumFunctionOnSet(f, S \cup s)
           B == {s \in SUBSET (D \ S) : ~(SumFunctionOnSet(f, S) <= a(s))}
<1>1. IsFiniteSet(D \ S) /\ IsFiniteSet(S)
  BY FS_Subset
<1>2. ASSUME NEW s \in SUBSET (D \ S) PROVE a(s) \in Nat
  <2>1. IsFiniteSet(S \cup s) /\ S \cup s \in SUBSET D
    BY FS_Subset
  <2> QED BY <2>1, SumNat
<1>3. SumFunctionOnSet(f, S) \in Nat
  BY <1>1, SumNat
<1>4. B = {}
  <2> SUFFICES ASSUME B # {} PROVE FALSE
    OBVIOUS
  <2>1. PICK s \in B : \A x \in s : s \ {x} \notin B
    BY <1>1, SmallestSet
  <2>2. s # {}
    <3>1. s = {} => S \cup s = S
      OBVIOUS
    <3> QED BY <1>3, <2>1, <3>1
  <2>3. PICK y \in s : TRUE
    BY <2>2
  <2>4. s \ {y} \in SUBSET (D \ S) /\ y \in D
    BY <2>1
  <2>5. SumFunctionOnSet(f, S) <= a(s \ {y})
    BY <2>1, <2>3, <2>4
  <2>6. a(s) = f[y] + a(s \ {y})
    <3>1. Summable(f, S \cup s)
      BY <2>1, FS_Subset DEF Summable
    <3>2. (S \cup s) \ {y} = S \cup (s \ {y})
      BY <2>1, <2>3
    <3> QED BY <2>3, <3>1, <3>2, SumRemove
  <2>7. a(s \ {y}) \in Nat /\ f[y] \in Nat
    BY <1>2, <2>4
  <2>8. a(s) \in Nat
    BY <1>2, <2>1
  <2> HIDE DEF a
  <2>9. SumFunctionOnSet(f, S) <= a(s)
    BY <1>3, <2>5, <2>6, <2>7, <2>8
  <2> QED BY <2>1, <2>9
<1>5. D \ S \in SUBSET (D \ S) /\ S \cup (D \ S) = D
  OBVIOUS
<1> QED BY <1>4, <1>5

\* Rounding down loses: a quotient times its divisor.
LEMMA QuotientTimes ==
    ASSUME NEW n \in Nat, NEW k \in Nat, k > 0
    PROVE  n \div k \in Nat /\ (n \div k) * k <= n
<1>1. n \div k \in Nat
  OBVIOUS
<1>2. n = k * (n \div k) + (n % k) /\ n % k \in Nat
  OBVIOUS
<1> QED BY <1>1, <1>2

LEMMA OneShareMore ==
    ASSUME NEW t \in Nat, NEW k \in Nat, NEW a \in Nat, NEW q \in Nat, q * k <= t * a,
           NEW g \in Nat, NEW m \in Nat, g * k <= t * m
    PROVE  (q + g) * k <= t * (a + m)
<1>1. (q + g) * k = q * k + g * k /\ t * (a + m) = t * a + t * m
  OBVIOUS
<1>2. q * k \in Nat /\ g * k \in Nat /\ t * a \in Nat /\ t * m \in Nat
  OBVIOUS
<1> QED BY <1>1, <1>2

\* Shares of t in proportion to f, each rounded down, make no more than t
\* when k is at least the sum of f.
THEOREM SumShares ==
    ASSUME NEW f, NEW g, NEW D, IsFiniteSet(D), \A x \in D : f[x] \in Nat,
           NEW t \in Nat, NEW k \in Nat, k > 0, SumFunctionOnSet(f, D) <= k,
           \A x \in D : g[x] = (t * f[x]) \div k
    PROVE  SumFunctionOnSet(g, D) \in 0..t
<1>0. ASSUME NEW x \in D PROVE g[x] \in Nat /\ g[x] * k <= t * f[x]
  <2> DEFINE n == t * f[x]
  <2>1. n \in Nat
    OBVIOUS
  <2> HIDE DEF n
  <2>2. g[x] = n \div k
    BY DEF n
  <2>3. g[x] \in Nat /\ g[x] * k <= n
    BY <2>1, <2>2, QuotientTimes
  <2> QED BY <2>3 DEF n
<1>1. \A s \in SUBSET D : SumFunctionOnSet(f, s) \in Nat /\ SumFunctionOnSet(g, s) \in Nat
  BY <1>0, FS_Subset, SumNat
<1> DEFINE B == {s \in SUBSET D : ~(SumFunctionOnSet(g, s) * k <= t * SumFunctionOnSet(f, s))}
<1>2. B = {}
  <2> SUFFICES ASSUME B # {} PROVE FALSE
    OBVIOUS
  <2>1. PICK s \in B : \A x \in s : s \ {x} \notin B
    BY SmallestSet
  <2>2. s # {}
    <3>1. SumFunctionOnSet(f, {}) = 0 /\ SumFunctionOnSet(g, {}) = 0
      BY SumEmpty
    <3>2. 0 * k <= t * 0
      OBVIOUS
    <3> QED BY <2>1, <3>1, <3>2
  <2>3. PICK y \in s : TRUE
    BY <2>2
  <2> DEFINE r == s \ {y}
  <2>4. r \in SUBSET D /\ y \in D /\ s \in SUBSET D
    BY <2>1
  <2>5. SumFunctionOnSet(g, r) * k <= t * SumFunctionOnSet(f, r)
    BY <2>1, <2>3, <2>4
  <2>6. Summable(f, s) /\ Summable(g, s)
    BY <1>0, <2>4, FS_Subset DEF Summable
  <2>7. /\ SumFunctionOnSet(f, s) = f[y] + SumFunctionOnSet(f, r)
        /\ SumFunctionOnSet(g, s) = g[y] + SumFunctionOnSet(g, r)
    BY <2>3, <2>6, SumRemove
  <2>8. /\ f[y] \in Nat /\ g[y] \in Nat /\ g[y] * k <= t * f[y]
        /\ SumFunctionOnSet(f, r) \in Nat /\ SumFunctionOnSet(g, r) \in Nat
    BY <1>0, <1>1, <2>4
  <2> HIDE DEF r
  <2>9. (g[y] + SumFunctionOnSet(g, r)) * k <= t * (f[y] + SumFunctionOnSet(f, r))
    BY <2>5, <2>8, OneShareMore
  <2> QED BY <2>1, <2>7, <2>9
<1> DEFINE a == SumFunctionOnSet(g, D)
           m == SumFunctionOnSet(f, D)
<1>3. a \in Nat /\ m \in Nat /\ a * k <= t * m /\ m <= k
  BY <1>1, <1>2
<1> HIDE DEF a, m
<1>4. t * m <= t * k
  BY <1>3
<1>5. a * k <= t * k
  <2>1. a * k \in Nat /\ t * m \in Nat /\ t * k \in Nat
    BY <1>3
  <2> QED BY <1>3, <1>4, <2>1
<1>6. a <= t
  <2> SUFFICES ASSUME a >= t + 1 PROVE FALSE
    BY <1>3
  <2>1. a * k >= (t + 1) * k
    BY <1>3
  <2>2. (t + 1) * k = t * k + k
    OBVIOUS
  <2> QED BY <1>3, <1>5, <2>1, <2>2
<1> QED BY <1>3, <1>6 DEF a
=============================================================================
