---------------------------- MODULE CommonLemmas ----------------------------
(***************************************************************************)
(* Facts about natural numbers, about the sum of a function's values,      *)
(* which the models write as a fold (a message's length over its frames,   *)
(* totals over sources), and about sequences.  Induction is by a least     *)
(* counterexample.                                                         *)
(***************************************************************************)
EXTENDS Selection, Functions, FiniteSetTheorems, SequenceTheorems,
        WellFoundedInduction, TLAPS

\* A nonempty set of naturals has a least element.
LEMMA LeastElement ==
    ASSUME NEW T \in SUBSET Nat, T # {}
    PROVE  \E i \in T : \A j \in T : i <= j
<1> DEFINE R == OpToRel(<, Nat)
<1>1. IsWellFoundedOn(R, Nat)
  BY NatLessThanWellFounded
<1>2. \A j \in Nat, i \in Nat : <<j, i>> \in R <=> j < i
  BY DEF OpToRel
<1> HIDE DEF R
<1>3. PICK i \in T : \A j \in T : <<j, i>> \notin R
  BY <1>1, WFMin
<1>4. ASSUME NEW j \in T PROVE i <= j
  <2>1. i \in Nat /\ j \in Nat /\ ~(j < i)
    BY <1>2, <1>3
  <2> QED
    BY <2>1
<1> QED
  BY <1>4

\* What holds at 0 and goes on from each step to the next holds at the last.
LEMMA StepByStep ==
    ASSUME NEW n \in Nat, NEW G, 0 \in G, \A k \in 0 .. n - 1 : k \in G => k + 1 \in G
    PROVE  n \in G
<1> DEFINE T == {k \in Nat : k <= n /\ k \notin G}
<1>1. ASSUME NEW k \in T, \A j \in T : k <= j PROVE FALSE
  <2>1. k \in Nat /\ k <= n /\ k \notin G /\ k # 0
    OBVIOUS
  <2>2. PICK l : l = k - 1
    OBVIOUS
  <2>3. l \in 0 .. n - 1 /\ l + 1 = k /\ l \in Nat /\ l <= n /\ ~(k <= l)
    BY <2>1, <2>2
  <2>4. l \in G
    BY <1>1, <2>3
  <2> QED
    BY <2>1, <2>3, <2>4
<1>2. T = {}
  <2> SUFFICES ASSUME T # {} PROVE FALSE
    OBVIOUS
  <2>1. T \in SUBSET Nat
    OBVIOUS
  <2> HIDE DEF T
  <2>2. \E i \in T : \A j \in T : i <= j
    BY <2>1, LeastElement
  <2> QED
    BY <1>1, <2>2
<1> QED
  BY <1>2

-----------------------------------------------------------------------------

\* The sum of the values of f.
Total(f) == FoldFunction(+, 0, f)

First(s) == CHOOSE x \in s : TRUE

\* The sum over s, g being the sums over the sets with an element less.
Plus(g, f, s) == IF s = {} THEN 0 ELSE f[First(s)] + g[s \ {First(s)}]

\* g gives the sums of f over the sets in D.
Adds(g, f, D) == g = [s \in D |-> Plus(g, f, s)]

PartialSums(f) == CHOOSE g : Adds(g, f, SUBSET DOMAIN f)

\* The fold as it is defined.
LEMMA TotalDef == ASSUME NEW f PROVE Total(f) = PartialSums(f)[DOMAIN f]
BY Zenon DEF Total, FoldFunction, FoldFunctionOnSet, MapThenFoldSet, PartialSums,
             Adds, Plus, First

\* A set without one of its elements.
LEMMA Removed ==
    ASSUME NEW S, IsFiniteSet(S), NEW s \in SUBSET S, NEW x \in s
    PROVE  /\ IsFiniteSet(s) /\ s \ {x} \in SUBSET S
           /\ Cardinality(s) \in Nat \ {0}
           /\ Cardinality(s \ {x}) \in Nat /\ Cardinality(s \ {x}) = Cardinality(s) - 1
<1>1. IsFiniteSet(s)
  BY FS_Subset
<1>2. IsFiniteSet(s \ {x}) /\ Cardinality(s \ {x}) = Cardinality(s) - 1
  BY <1>1, FS_RemoveElement
<1>3. Cardinality(s) \in Nat /\ Cardinality(s \ {x}) \in Nat
  BY <1>1, <1>2, FS_CardinalityType
<1> QED
  BY <1>1, <1>2, <1>3

LEMMA FirstElement == ASSUME NEW s, s # {} PROVE First(s) \in s
BY DEF First

\* The sums exist.
LEMMA SumsExist ==
    ASSUME NEW f, IsFiniteSet(DOMAIN f)
    PROVE  Adds(PartialSums(f), f, SUBSET DOMAIN f)
<1> DEFINE S == DOMAIN f
           Small(n) == {s \in SUBSET S : Cardinality(s) <= n}
           T == {n \in Nat : ~ \E g : Adds(g, f, Small(n))}
<1>1. ASSUME NEW n \in T, \A j \in T : n <= j
      PROVE  FALSE
  <2>1. CASE n = 0
    <3> DEFINE g == [s \in Small(0) |-> 0]
    <3>1. ASSUME NEW s \in Small(0) PROVE s = {}
      <4>1. s \in SUBSET S /\ Cardinality(s) <= 0
        OBVIOUS
      <4>2. ASSUME NEW x \in s PROVE FALSE
        <5>1. Cardinality(s) \in Nat \ {0}
          BY <4>1, Removed
        <5> QED
          BY <4>1, <5>1
      <4> QED
        BY <4>2
    <3>2. Adds(g, f, Small(0))
      BY <3>1 DEF Adds, Plus
    <3> HIDE DEF g
    <3> QED
      BY <2>1, <3>2
  <2>2. CASE n # 0
    <3>1. n - 1 \in Nat /\ ~(n <= n - 1)
      BY <2>2
    <3>2. n - 1 \notin T
      <4> HIDE DEF T
      <4> QED
        BY <1>1, <3>1
    <3>3. \E h : Adds(h, f, Small(n - 1))
      BY <3>1, <3>2
    <3>4. PICK h : Adds(h, f, Small(n - 1))
      BY <3>3
    <3> DEFINE g == [s \in Small(n) |-> Plus(h, f, s)]
    <3>5. ASSUME NEW s \in Small(n), s # {}
          PROVE  g[s \ {First(s)}] = h[s \ {First(s)}]
      <4> DEFINE r == s \ {First(s)}
      <4>1. First(s) \in s
        BY <3>5, FirstElement
      <4>2. r \in SUBSET S /\ Cardinality(r) \in Nat /\ Cardinality(r) = Cardinality(s) - 1 /\ Cardinality(s) \in Nat
        BY <4>1, Removed
      <4>3. r \in Small(n) /\ r \in Small(n - 1)
        BY <4>2
      <4> HIDE DEF r, Small
      <4>4. h[r] = Plus(h, f, r)
        BY <3>4, <4>3, Zenon DEF Adds
      <4>5. g[r] = Plus(h, f, r)
        BY <4>3
      <4>6. g[r] = h[r]
        BY <4>4, <4>5
      <4> QED
        BY <4>6 DEF r
    <3>6. ASSUME NEW s \in Small(n)
          PROVE  g[s] = Plus(g, f, s)
      BY <3>5 DEF Plus
    <3>7. Adds(g, f, Small(n))
      <4> HIDE DEF Small
      <4> QED
      BY <3>6 DEF Adds
    <3> HIDE DEF g
    <3> QED
      BY <3>7
  <2> QED
    BY <2>1, <2>2
<1>2. T = {}
  <2> HIDE DEF T
  <2>1. T \in SUBSET Nat
    BY DEF T
  <2> QED
    BY <1>1, <2>1, LeastElement
<1>3. Cardinality(S) \in Nat
  BY FS_CardinalityType
<1>4. PICK g : Adds(g, f, Small(Cardinality(S)))
  BY <1>2, <1>3
<1>5. \A s \in SUBSET S : Cardinality(s) <= Cardinality(S)
  BY FS_Subset
<1>6. Small(Cardinality(S)) = SUBSET S
  BY <1>5
<1> QED
  BY <1>4, <1>6 DEF PartialSums

LEMMA PartialSum ==
    ASSUME NEW f, IsFiniteSet(DOMAIN f), NEW s \in SUBSET DOMAIN f
    PROVE  PartialSums(f)[s] = Plus(PartialSums(f), f, s)
<1> DEFINE g == PartialSums(f)
<1>1. g = [t \in SUBSET DOMAIN f |-> Plus(g, f, t)]
  BY SumsExist, Zenon DEF Adds
<1> HIDE DEF g
<1>2. [t \in SUBSET DOMAIN f |-> Plus(g, f, t)][s] = Plus(g, f, s)
  OBVIOUS
<1>3. g[s] = Plus(g, f, s)
  BY <1>1, <1>2
<1> QED
  BY <1>3 DEF g

\* Sums of naturals are naturals.
LEMMA PartialSumType ==
    ASSUME NEW S, IsFiniteSet(S), NEW f \in [S -> Nat]
    PROVE  \A s \in SUBSET S : PartialSums(f)[s] \in Nat
<1> DEFINE g == PartialSums(f)
           T == {Cardinality(s) : s \in {t \in SUBSET S : g[t] \notin Nat}}
<1>1. T \in SUBSET Nat
  BY FS_Subset, FS_CardinalityType
<1>2. CASE T = {}
  BY <1>2
<1>3. CASE T # {}
  <2>1. \E n \in T : \A j \in T : n <= j
    <3> HIDE DEF T
    <3> QED
      BY <1>1, <1>3, LeastElement
  <2>2. PICK s \in SUBSET S : g[s] \notin Nat /\ \A j \in T : Cardinality(s) <= j
    BY <2>1
  <2>3. g[s] = Plus(g, f, s)
    BY PartialSum
  <2>4. s # {}
    BY <2>2, <2>3 DEF Plus
  <2> DEFINE x == First(s)
             r == s \ {x}
  <2>5. x \in s
    BY <2>4, FirstElement
  <2>6. r \in SUBSET S /\ Cardinality(r) \in Nat /\ Cardinality(s) \in Nat
        /\ Cardinality(r) = Cardinality(s) - 1
    BY <2>5, Removed
  <2>7. g[r] \in Nat
    <3>1. g[r] \notin Nat => Cardinality(r) \in T
      BY <2>6
    <3>2. Cardinality(r) \notin T
      <4> HIDE DEF T
      <4> QED
      BY <2>2, <2>6
    <3> QED
      BY <3>1, <3>2
  <2>8. g[s] = f[x] + g[r]
    BY <2>3, <2>4 DEF Plus
  <2>9. f[x] \in Nat
    BY <2>5
  <2> QED
    <3> HIDE DEF g, r, x
    <3> QED
    BY <2>2, <2>7, <2>8, <2>9
<1> QED
  BY <1>2, <1>3

\* The order in which the elements are taken does not matter.
LEMMA AnyElement ==
    ASSUME NEW S, IsFiniteSet(S), NEW f \in [S -> Nat]
    PROVE  \A s \in SUBSET S : \A x \in s :
               PartialSums(f)[s] = f[x] + PartialSums(f)[s \ {x}]
<1> DEFINE g == PartialSums(f)
           Bad == {s \in SUBSET S : \E x \in s : g[s] # f[x] + g[s \ {x}]}
           T == {Cardinality(s) : s \in Bad}
<1>1. T \in SUBSET Nat
  BY FS_Subset, FS_CardinalityType
<1>2. CASE T = {}
  BY <1>2
<1>3. CASE T # {}
  <2>1. \E n \in T : \A j \in T : n <= j
    <3> HIDE DEF T
    <3> QED
      BY <1>1, <1>3, LeastElement
  <2>2. PICK s \in Bad : \A t \in Bad : Cardinality(s) <= Cardinality(t)
    BY <2>1
  <2>3. PICK x \in s : g[s] # f[x] + g[s \ {x}]
    BY <2>2
  <2> DEFINE c == First(s)
  <2>4. c \in s /\ s \in SUBSET S
    BY <2>2, <2>3, FirstElement
  <2>5. g[s] = f[c] + g[s \ {c}]
    <3>1. s # {} /\ s \in SUBSET S
      BY <2>3, <2>4
    <3> QED
      BY <3>1, PartialSum DEF Plus
  <2> HIDE DEF c, g
  <2>6. c # x
    BY <2>3, <2>5
  <2>7. /\ s \ {c} \in SUBSET S /\ Cardinality(s \ {c}) < Cardinality(s)
        /\ s \ {x} \in SUBSET S /\ Cardinality(s \ {x}) < Cardinality(s)
        /\ Cardinality(s \ {c}) \in Nat /\ Cardinality(s \ {x}) \in Nat
        /\ Cardinality(s) \in Nat
    <3>1. /\ s \ {c} \in SUBSET S /\ Cardinality(s \ {c}) < Cardinality(s)
          /\ Cardinality(s \ {c}) \in Nat /\ Cardinality(s) \in Nat
      BY <2>4, Removed
    <3>2. /\ s \ {x} \in SUBSET S /\ Cardinality(s \ {x}) < Cardinality(s)
          /\ Cardinality(s \ {x}) \in Nat
      BY <2>4, Removed
    <3> QED
      BY <3>1, <3>2
  <2>8. s \ {c} \notin Bad /\ s \ {x} \notin Bad
    <3> HIDE DEF Bad
    <3> QED
      BY <2>2, <2>7
  <2>9. g[s \ {c}] = f[x] + g[(s \ {c}) \ {x}]
    BY <2>4, <2>6, <2>7, <2>8
  <2>10. g[s \ {x}] = f[c] + g[(s \ {x}) \ {c}]
    BY <2>4, <2>6, <2>7, <2>8
  <2>11. (s \ {x}) \ {c} = (s \ {c}) \ {x} /\ (s \ {x}) \ {c} \in SUBSET S
    BY <2>4
  <2>12. g[(s \ {c}) \ {x}] \in Nat
    BY <2>11, PartialSumType DEF g
  <2>13. f[c] \in Nat /\ f[x] \in Nat
    BY <2>4
  <2>14. \A a, b, n \in Nat : a + (b + n) = b + (a + n)
    OBVIOUS
  <2>15. g[s] = f[c] + (f[x] + g[(s \ {c}) \ {x}])
    BY <2>5, <2>9, Zenon
  <2>16. f[x] + g[s \ {x}] = f[x] + (f[c] + g[(s \ {c}) \ {x}])
    BY <2>10, <2>11, Zenon
  <2>17. FALSE
    BY <2>3, <2>11, <2>12, <2>13, <2>14, <2>15, <2>16, Zenon
  <2> QED
    BY <2>17
<1> QED
  BY <1>2, <1>3

\* Sums over elements on which two functions agree are equal.
LEMMA SameSums ==
    ASSUME NEW S, IsFiniteSet(S), NEW f \in [S -> Nat], NEW h \in [S -> Nat],
           NEW V \in SUBSET S, \A x \in V : f[x] = h[x]
    PROVE  PartialSums(f)[V] = PartialSums(h)[V]
<1> DEFINE Bad == {s \in SUBSET V : PartialSums(f)[s] # PartialSums(h)[s]}
           T == {Cardinality(s) : s \in Bad}
<1>1. T \in SUBSET Nat
  BY FS_Subset, FS_CardinalityType
<1>2. CASE T = {}
  BY <1>2
<1>3. CASE T # {}
  <2>1. \E n \in T : \A j \in T : n <= j
    <3> HIDE DEF T
    <3> QED
      BY <1>1, <1>3, LeastElement
  <2>2. PICK s \in Bad : \A t \in Bad : Cardinality(s) <= Cardinality(t)
    BY <2>1
  <2>3. s \in SUBSET V /\ s \in SUBSET S /\ DOMAIN f = S /\ DOMAIN h = S
    OBVIOUS
  <2>4. /\ PartialSums(f)[s] = Plus(PartialSums(f), f, s)
        /\ PartialSums(h)[s] = Plus(PartialSums(h), h, s)
    BY <2>3, PartialSum
  <2>5. s # {}
    BY <2>2, <2>4 DEF Plus
  <2> DEFINE c == First(s)
  <2>6. c \in s
    BY <2>5, FirstElement
  <2> HIDE DEF c
  <2>7. /\ s \ {c} \in SUBSET V /\ Cardinality(s \ {c}) < Cardinality(s)
        /\ Cardinality(s \ {c}) \in Nat /\ Cardinality(s) \in Nat
    <3>1. /\ Cardinality(s) \in Nat \ {0} /\ Cardinality(s \ {c}) \in Nat
          /\ Cardinality(s \ {c}) = Cardinality(s) - 1
      BY <2>3, <2>6, Removed
    <3> QED
      BY <2>3, <3>1
  <2>8. s \ {c} \notin Bad
    <3> HIDE DEF Bad
    <3> QED
      BY <2>2, <2>7
  <2>9. PartialSums(f)[s \ {c}] = PartialSums(h)[s \ {c}]
    BY <2>7, <2>8
  <2>10. f[c] = h[c]
    BY <2>3, <2>6
  <2> QED
    BY <2>2, <2>4, <2>5, <2>9, <2>10 DEF Plus, c
<1> QED
  BY <1>2, <1>3

-----------------------------------------------------------------------------
(* The sum, as the proofs use it.                                          *)

LEMMA TotalType ==
    ASSUME NEW S, IsFiniteSet(S), NEW f \in [S -> Nat]
    PROVE  Total(f) \in Nat
BY TotalDef, PartialSumType

LEMMA TotalOfZeros ==
    ASSUME NEW S, IsFiniteSet(S), NEW f \in [S -> {0}]
    PROVE  Total(f) = 0
<1> DEFINE T == {Cardinality(s) : s \in {t \in SUBSET S : PartialSums(f)[t] # 0}}
<1>1. T \in SUBSET Nat
  BY FS_Subset, FS_CardinalityType
<1>2. CASE T = {}
  BY <1>2, TotalDef
<1>3. CASE T # {}
  <2>1. \E n \in T : \A j \in T : n <= j
    <3> HIDE DEF T
    <3> QED
      BY <1>1, <1>3, LeastElement
  <2>2. PICK s \in SUBSET S : PartialSums(f)[s] # 0 /\ \A j \in T : Cardinality(s) <= j
    BY <2>1
  <2>3. PartialSums(f)[s] = Plus(PartialSums(f), f, s)
    BY PartialSum
  <2>4. PICK x : x \in s
    BY <2>2, <2>3 DEF Plus
  <2>5. /\ s \ {x} \in SUBSET S /\ Cardinality(s \ {x}) < Cardinality(s)
        /\ Cardinality(s) \in Nat /\ Cardinality(s \ {x}) \in Nat
    BY <2>4, Removed
  <2>6. PartialSums(f)[s \ {x}] = 0
    <3>1. PartialSums(f)[s \ {x}] # 0 => Cardinality(s \ {x}) \in T
      BY <2>5
    <3> HIDE DEF T
    <3> QED
      BY <2>2, <2>5, <3>1
  <2>7. f \in [S -> Nat] /\ f[x] = 0
    BY <2>4
  <2>8. PartialSums(f)[s] = f[x] + PartialSums(f)[s \ {x}]
    BY <2>4, <2>7, AnyElement
  <2> QED
    BY <2>2, <2>6, <2>7, <2>8
<1> QED
  BY <1>2, <1>3

\* A value is at most the sum, and changing it changes the sum by as much.
LEMMA TotalChange ==
    ASSUME NEW S, IsFiniteSet(S), NEW f \in [S -> Nat], NEW x \in S, NEW v \in Nat
    PROVE  /\ f[x] <= Total(f)
           /\ Total([f EXCEPT ![x] = v]) = Total(f) - f[x] + v
<1> DEFINE h == [f EXCEPT ![x] = v]
<1>1. h \in [S -> Nat] /\ h[x] = v /\ \A y \in S \ {x} : h[y] = f[y]
  OBVIOUS
<1> HIDE DEF h
<1>2. PartialSums(f)[S \ {x}] = PartialSums(h)[S \ {x}]
  BY <1>1, SameSums
<1>3. /\ Total(f) = f[x] + PartialSums(f)[S \ {x}]
      /\ Total(h) = h[x] + PartialSums(h)[S \ {x}]
  <2>1. S \in SUBSET S /\ DOMAIN f = S /\ DOMAIN h = S
    BY <1>1
  <2>2. PartialSums(f)[S] = f[x] + PartialSums(f)[S \ {x}]
    BY <2>1, AnyElement
  <2>3. PartialSums(h)[S] = h[x] + PartialSums(h)[S \ {x}]
    <3>1. h \in [S -> Nat]
      BY <1>1
    <3> QED
      BY <2>1, <3>1, AnyElement
  <2> QED
    BY <2>1, <2>2, <2>3, TotalDef
<1>4. PartialSums(f)[S \ {x}] \in Nat /\ f[x] \in Nat
  BY PartialSumType
<1> QED
  BY <1>1, <1>2, <1>3, <1>4 DEF h

\* The same, of a function that differs from another one at x only.
LEMMA TotalDiffers ==
    ASSUME NEW S, IsFiniteSet(S), NEW f \in [S -> Nat], NEW g \in [S -> Nat], NEW x \in S,
           \A y \in S : y # x => g[y] = f[y]
    PROVE  Total(g) = Total(f) - f[x] + g[x] /\ Total(f) \in Nat
<1> DEFINE v == g[x]
<1>1. v \in Nat
  OBVIOUS
<1>2. g = [f EXCEPT ![x] = v]
  OBVIOUS
<1> HIDE DEF v
<1>3. Total([f EXCEPT ![x] = v]) = Total(f) - f[x] + v
  BY <1>1, TotalChange
<1> QED
  BY <1>2, <1>3, TotalType DEF v

-----------------------------------------------------------------------------
(* Sums taken step by step.                                                *)

LEMMA TotalStep ==
    ASSUME NEW S, IsFiniteSet(S), NEW f \in [S -> Nat], NEW g \in [S -> Nat], NEW x \in S,
           \A y \in S : y # x => g[y] = f[y],
           NEW c \in Nat, NEW d \in Nat, g[x] = f[x] + d - c, Total(f) = c
    PROVE  Total(g) = d
<1>1. Total(g) = Total(f) - f[x] + g[x] /\ Total(f) \in Nat
  BY TotalDiffers
<1>2. f[x] \in Nat
  OBVIOUS
<1> QED
  BY <1>1, <1>2

\* From f[k] to f[k + 1] one value changes, by as much as h does.
OneByOne(f, h, n, S) ==
    /\ f \in [0 .. n -> [S -> Nat]] /\ h \in [0 .. n -> Nat]
    /\ \A k \in 0 .. n - 1 : \E x \in S :
          /\ \A y \in S : y # x => f[k + 1][y] = f[k][y]
          /\ f[k + 1][x] = f[k][x] + h[k + 1] - h[k]

\* A sum that starts at h[0] and follows h ends at h[n].
LEMMA TotalSteps ==
    ASSUME NEW S, IsFiniteSet(S), NEW n \in Nat, NEW f, NEW h,
           OneByOne(f, h, n, S), Total(f[0]) = h[0]
    PROVE  Total(f[n]) = h[n]
<1> DEFINE T == {k \in Nat : k <= n /\ Total(f[k]) # h[k]}
<1>1. ASSUME NEW k \in T, \A j \in T : k <= j PROVE FALSE
  <2>1. k \in Nat /\ k <= n /\ Total(f[k]) # h[k] /\ k # 0
    OBVIOUS
  <2>2. k - 1 \in Nat /\ k - 1 \in 0 .. n - 1 /\ ~(k <= k - 1) /\ k - 1 <= n /\ k - 1 + 1 = k
    BY <2>1
  <2>3. Total(f[k - 1]) = h[k - 1]
    <3>1. k - 1 \notin T
      <4> HIDE DEF T
      <4> QED
        BY <1>1, <2>2
    <3> QED
      BY <2>2, <3>1
  <2>4. PICK l : l = k - 1
    OBVIOUS
  <2>5. l \in 0 .. n - 1 /\ l + 1 = k /\ l \in 0 .. n /\ k \in 0 .. n
    BY <2>1, <2>2, <2>4
  <2>6. PICK x \in S : /\ \A y \in S : y # x => f[l + 1][y] = f[l][y]
                       /\ f[l + 1][x] = f[l][x] + h[l + 1] - h[l]
    BY <2>5 DEF OneByOne
  <2>7. f[k] \in [S -> Nat] /\ f[l] \in [S -> Nat] /\ h[k] \in Nat /\ h[l] \in Nat
    BY <2>5 DEF OneByOne
  <2>8. Total(f[k]) = h[k]
    <3>1. \A y \in S : y # x => f[k][y] = f[l][y]
      BY <2>5, <2>6
    <3>2. f[k][x] = f[l][x] + h[k] - h[l] /\ Total(f[l]) = h[l]
      BY <2>3, <2>4, <2>5, <2>6
    <3> DEFINE a == f[l]
               b == f[k]
               c == h[l]
               e == h[k]
    <3>3. /\ a \in [S -> Nat] /\ b \in [S -> Nat] /\ c \in Nat /\ e \in Nat
          /\ \A y \in S : y # x => b[y] = a[y]
          /\ b[x] = a[x] + e - c /\ Total(a) = c
      BY <2>7, <3>1, <3>2
    <3> HIDE DEF a, b, c, e, T
    <3>4. Total(b) = e
      BY <3>3, TotalStep
    <3> QED
      BY <3>4 DEF b, e
  <2> QED
    BY <2>1, <2>8
<1>2. T = {}
  <2> SUFFICES ASSUME T # {} PROVE FALSE
    OBVIOUS
  <2>1. T \in SUBSET Nat
    OBVIOUS
  <2> HIDE DEF T
  <2>2. \E i \in T : \A j \in T : i <= j
    BY <2>1, LeastElement
  <2> QED
    BY <1>1, <2>2
<1>3. n \in Nat /\ n <= n
  OBVIOUS
<1> QED
  BY <1>2, <1>3

\* The preimages of the values of g make up its domain.
LEMMA PreimagesTotal ==
    ASSUME NEW n \in Nat, NEW S, IsFiniteSet(S), NEW g \in [1 .. n -> S]
    PROVE  Total([x \in S |-> Cardinality({i \in 1 .. n : g[i] = x})]) = n
<1> DEFINE At(k, x) == {i \in 1 .. k : g[i] = x}
           f == [k \in 0 .. n |-> [x \in S |-> Cardinality(At(k, x))]]
           h == [k \in 0 .. n |-> k]
<1>1. \A k \in 0 .. n, x \in S : IsFiniteSet(At(k, x)) /\ Cardinality(At(k, x)) \in Nat
  <2> SUFFICES ASSUME NEW k \in 0 .. n, NEW x \in S
               PROVE  IsFiniteSet(At(k, x)) /\ Cardinality(At(k, x)) \in Nat
    OBVIOUS
  <2>1. IsFiniteSet(1 .. k) /\ At(k, x) \in SUBSET (1 .. k)
    BY FS_Interval
  <2> HIDE DEF At
  <2> QED
    BY <2>1, FS_Subset, FS_CardinalityType
<1>2. \A x \in S : At(0, x) = {}
  OBVIOUS
<1>3. ASSUME NEW k \in 0 .. n - 1
      PROVE  /\ k + 1 \in 1 .. n /\ g[k + 1] \in S
             /\ \A y \in S : y # g[k + 1] => At(k + 1, y) = At(k, y)
             /\ At(k + 1, g[k + 1]) = At(k, g[k + 1]) \cup {k + 1}
             /\ k + 1 \notin At(k, g[k + 1])
  OBVIOUS
<1> HIDE DEF At
<1>4. f \in [0 .. n -> [S -> Nat]] /\ h \in [0 .. n -> Nat]
  BY <1>1
<1>5. Total(f[0]) = h[0]
  <2>1. f[0] \in [S -> {0}] /\ h[0] = 0
    BY <1>2, FS_EmptySet
  <2> HIDE DEF f, h
  <2> QED
    BY <2>1, TotalOfZeros
<1>6. ASSUME NEW k \in 0 .. n - 1
      PROVE  \E x \in S : /\ \A y \in S : y # x => f[k + 1][y] = f[k][y]
                          /\ f[k + 1][x] = f[k][x] + h[k + 1] - h[k]
  <2> DEFINE x == g[k + 1]
  <2>1. x \in S /\ k + 1 \in 0 .. n /\ k \in 0 .. n /\ k \in Int
    BY <1>3
  <2>2. Cardinality(At(k + 1, x)) = Cardinality(At(k, x)) + 1 /\ Cardinality(At(k, x)) \in Nat
    <3>1. IsFiniteSet(At(k, x)) /\ Cardinality(At(k, x)) \in Nat
      BY <1>1, <2>1
    <3>2. k + 1 \notin At(k, x) /\ At(k + 1, x) = At(k, x) \cup {k + 1}
      BY <1>3
    <3> QED
      BY <3>1, <3>2, FS_AddElement
  <2>3. \A y \in S : y # x => At(k + 1, y) = At(k, y)
    BY <1>3
  <2> HIDE DEF x
  <2>4. /\ \A y \in S : y # x => f[k + 1][y] = f[k][y]
        /\ f[k + 1][x] = f[k][x] + h[k + 1] - h[k]
    BY <2>1, <2>2, <2>3
  <2> QED
    BY <2>1, <2>4
<1>7. f[n] = [x \in S |-> Cardinality({i \in 1 .. n : g[i] = x})] /\ h[n] = n
  BY DEF At
<1> HIDE DEF f, h
<1>8. Total(f[n]) = h[n]
  <2>1. OneByOne(f, h, n, S)
    BY <1>4, <1>6 DEF OneByOne
  <2> QED
    BY <1>5, <2>1, TotalSteps
<1> QED
  BY <1>7, <1>8

-----------------------------------------------------------------------------
(* Sequences.                                                              *)

\* The elements of s that are in K, in their order.
Filtered(s, K) == Selected(s, {i \in 1 .. Len(s) : s[i] \in K})

\* An index of I has a rank in 1 .. Cardinality(I).
LEMMA RankRange ==
    ASSUME NEW n \in Nat, NEW I \in SUBSET (1 .. n), NEW i \in I
    PROVE  IsFiniteSet(I) /\ Place(I, i) \in 1 .. Cardinality(I)
<1>1. IsFiniteSet(1 .. n)
  BY FS_Interval
<1>2. IsFiniteSet(I)
  BY <1>1, FS_Subset
<1>3. /\ IsFiniteSet({j \in I : j <= i})
      /\ Cardinality({j \in I : j <= i}) <= Cardinality(I)
  BY <1>2, FS_Subset
<1>4. Cardinality(I) \in Nat /\ Cardinality({j \in I : j <= i}) \in Nat
  BY <1>2, <1>3, FS_CardinalityType
<1>5. {j \in I : j <= i} # {}
  OBVIOUS
<1>6. Cardinality({j \in I : j <= i}) # 0
  BY <1>3, <1>5, FS_EmptySet
<1> QED
  BY <1>2, <1>3, <1>4, <1>6 DEF Place

\* A later index has a higher rank.
LEMMA RankMonotonic ==
    ASSUME NEW n \in Nat, NEW I \in SUBSET (1 .. n),
           NEW i \in I, NEW j \in I, i < j
    PROVE  Place(I, i) < Place(I, j)
<1> DEFINE A == {l \in I : l <= i}
           B == {l \in I : l <= j}
<1>1. IsFiniteSet(I)
  BY RankRange
<1>2. IsFiniteSet(B)
  BY <1>1, FS_Subset
<1>3. A \in SUBSET B /\ A # B
  <2>1. j \in B /\ j \notin A
    OBVIOUS
  <2>2. A \in SUBSET B
    <3>1. ASSUME NEW l \in I, l <= i PROVE l <= j
      <4>1. l \in Int /\ i \in Int /\ j \in Int
        OBVIOUS
      <4> QED
        BY <3>1, <4>1
    <3> QED
      BY <3>1
  <2> QED
    BY <2>1, <2>2
<1>4. IsFiniteSet(A) /\ Cardinality(A) <= Cardinality(B) /\ Cardinality(A) # Cardinality(B)
  BY <1>2, <1>3, FS_Subset
<1>5. Cardinality(A) \in Nat /\ Cardinality(B) \in Nat
  BY <1>2, <1>4, FS_CardinalityType
<1> QED
  BY <1>4, <1>5 DEF Place

\* Every rank up to Cardinality(I) is the rank of one index only.
LEMMA RankBijective ==
    ASSUME NEW n \in Nat, NEW I \in SUBSET (1 .. n)
    PROVE  /\ Cardinality(I) \in Nat
           /\ \A m \in 1 .. Cardinality(I) : \E i \in I : Place(I, i) = m
           /\ \A i, j \in I : Place(I, i) = Place(I, j) => i = j
<1> DEFINE r == [i \in I |-> Place(I, i)]
           N == 1 .. Cardinality(I)
<1>1. IsFiniteSet(I)
  <2>1. IsFiniteSet(1 .. n)
    BY FS_Interval
  <2> QED
    BY <2>1, FS_Subset
<1>2. Cardinality(I) \in Nat
  BY <1>1, FS_CardinalityType
<1>3. \A i \in I : Place(I, i) \in N
  BY RankRange
<1>4. ASSUME NEW i \in I, NEW j \in I, Place(I, i) = Place(I, j)
      PROVE  i = j
  <2>1. i \in Nat /\ j \in Nat
    BY <1>2
  <2>2. Place(I, i) \in Nat /\ Place(I, j) \in Nat
    BY <1>2, <1>3
  <2>3. ~(i < j)
    <3>1. i < j => Place(I, i) < Place(I, j)
      BY RankMonotonic
    <3> QED
      BY <1>4, <2>2, <3>1
  <2>4. ~(j < i)
    <3>1. j < i => Place(I, j) < Place(I, i)
      BY RankMonotonic
    <3> QED
      BY <1>4, <2>2, <3>1
  <2> QED
    BY <2>1, <2>3, <2>4
<1>5. r \in Injection(I, N)
  BY <1>3, <1>4 DEF Injection, IsInjective
<1>6. IsFiniteSet(N) /\ Cardinality(N) = Cardinality(I)
  BY <1>2, FS_Interval
<1>7. r \in Surjection(I, N)
  BY <1>5, <1>6, FS_Injection
<1>8. \A m \in N : \E i \in I : r[i] = m
  BY <1>7 DEF Surjection
<1> QED
  BY <1>2, <1>4, <1>8

\* The selection keeps the order of what it keeps, and every copy of it.
LEMMA FilteredOrder ==
    ASSUME NEW S, NEW s \in Seq(S), NEW K
    PROVE  /\ Filtered(s, K) \in Seq(S)
           /\ \E at \in [1 .. Len(Filtered(s, K)) -> 1 .. Len(s)] :
                 /\ \A n \in 1 .. Len(Filtered(s, K)) : Filtered(s, K)[n] = s[at[n]]
                 /\ \A n, m \in 1 .. Len(Filtered(s, K)) : n < m => at[n] < at[m]
                 /\ \A i \in 1 .. Len(s) : s[i] \in K =>
                       \E n \in 1 .. Len(Filtered(s, K)) : at[n] = i
<1> DEFINE I == {i \in 1 .. Len(s) : s[i] \in K}
           c == Cardinality(I)
           At(n) == CHOOSE i \in I : Place(I, i) = n
           t == [n \in 1 .. c |-> s[At(n)]]
           at == [n \in 1 .. c |-> At(n)]
<1>1. Len(s) \in Nat /\ I \in SUBSET (1 .. Len(s))
  OBVIOUS
<1>2. /\ c \in Nat
      /\ \A m \in 1 .. c : \E i \in I : Place(I, i) = m
      /\ \A i, j \in I : Place(I, i) = Place(I, j) => i = j
  <2> HIDE DEF I
  <2> QED
    BY <1>1, RankBijective
<1>3. \A i \in I : Place(I, i) \in 1 .. c
  BY <1>1, RankRange
<1>4. \A n \in 1 .. c : At(n) \in I /\ Place(I, At(n)) = n
  BY <1>2
<1>5. ASSUME NEW n \in 1 .. c, NEW m \in 1 .. c, n < m PROVE At(n) < At(m)
  <2>1. At(n) \in I /\ At(m) \in I /\ Place(I, At(n)) = n /\ Place(I, At(m)) = m
    BY <1>4
  <2> HIDE DEF At
  <2>2. At(n) \in Nat /\ At(m) \in Nat
    BY <1>1, <2>1
  <2>3. ~(At(m) < At(n))
    <3>1. At(m) < At(n) => Place(I, At(m)) < Place(I, At(n))
      <4> HIDE DEF I
      <4> QED
        BY <1>1, <2>1, RankMonotonic
    <3> QED
      BY <1>5, <2>1, <3>1
  <2>4. At(n) # At(m)
    BY <1>5, <2>1
  <2> QED
    BY <2>2, <2>3, <2>4
<1>6. t \in [1 .. c -> S] /\ at \in [1 .. c -> 1 .. Len(s)]
  <2>1. \A n \in 1 .. c : s[At(n)] \in S /\ At(n) \in 1 .. Len(s)
    BY <1>4, ElementOfSeq
  <2> HIDE DEF At
  <2> QED
    BY <2>1
<1>7. Len(t) = c
  <2> HIDE DEF c, t
  <2> QED
    BY <1>2, <1>6
<1>8. \A i \in I : Place(I, i) \in 1 .. c /\ At(Place(I, i)) = i
  BY <1>2, <1>3, <1>4
<1>9. \A n \in 1 .. c : t[n] = s[at[n]]
  OBVIOUS
<1>10. ASSUME NEW n \in 1 .. c, NEW m \in 1 .. c, n < m PROVE at[n] < at[m]
  <2>1. At(n) < At(m)
    BY <1>5, <1>10
  <2> QED
    BY <2>1
<1>11. \A i \in 1 .. Len(s) : s[i] \in K => \E n \in 1 .. c : at[n] = i
  BY <1>8
<1>12. Filtered(s, K) = t
  BY DEF Filtered, Selected
<1>13. t \in Seq(S)
  <2> HIDE DEF c, t
  <2> QED
    BY <1>2, <1>6
<1> HIDE DEF c, t, at
<1> QED
  BY <1>6, <1>7, <1>9, <1>10, <1>11, <1>12, <1>13

LEMMA WiderSeq ==
    ASSUME NEW S, NEW T, S \subseteq T, NEW s \in Seq(S)
    PROVE  s \in Seq(T)
<1>1. Len(s) \in Nat /\ s \in [1 .. Len(s) -> S]
  BY LenProperties
<1>2. s \in [1 .. Len(s) -> T]
  BY <1>1
<1> QED
  BY <1>1, <1>2

\* One after the other.
LEMMA Joined ==
    ASSUME NEW S, NEW g \in Seq(S), NEW o \in Seq(S)
    PROVE  /\ g \o o \in Seq(S) /\ Len(g \o o) = Len(g) + Len(o)
           /\ Len(g) \in Nat /\ Len(o) \in Nat
           /\ \A i \in 1 .. Len(g) : (g \o o)[i] = g[i]
           /\ \A i \in 1 .. Len(o) : (g \o o)[Len(g) + i] = o[i]
<1>1. /\ g \o o \in Seq(S) /\ Len(g \o o) = Len(g) + Len(o)
      /\ \A i \in 1 .. Len(g) + Len(o) :
            (g \o o)[i] = IF i <= Len(g) THEN g[i] ELSE o[i - Len(g)]
  BY ConcatProperties
<1>2. Len(g) \in Nat /\ Len(o) \in Nat
  BY LenProperties
<1>3. ASSUME NEW i \in 1 .. Len(g) PROVE (g \o o)[i] = g[i]
  <2>1. i \in 1 .. Len(g) + Len(o) /\ i <= Len(g)
    BY <1>2
  <2> QED
    BY <1>1, <2>1
<1>4. ASSUME NEW i \in 1 .. Len(o) PROVE (g \o o)[Len(g) + i] = o[i]
  <2>1. Len(g) + i \in 1 .. Len(g) + Len(o) /\ ~(Len(g) + i <= Len(g)) /\ Len(g) + i - Len(g) = i
    BY <1>2
  <2> QED
    BY <1>1, <2>1
<1> QED
  BY <1>1, <1>2, <1>3, <1>4

\* What is appended to the second is appended to both.
LEMMA JoinedAppend ==
    ASSUME NEW S, NEW g \in Seq(S), NEW o \in Seq(S), NEW x \in S
    PROVE  g \o Append(o, x) = Append(g \o o, x)
<1> DEFINE a == g \o Append(o, x)
           b == Append(g \o o, x)
<1>1. /\ Append(o, x) \in Seq(S) /\ Len(Append(o, x)) = Len(o) + 1 /\ Append(o, x)[Len(o) + 1] = x
      /\ \A i \in 1 .. Len(o) : Append(o, x)[i] = o[i]
  BY AppendProperties
<1>2. /\ g \o o \in Seq(S) /\ Len(g \o o) = Len(g) + Len(o)
      /\ Len(g) \in Nat /\ Len(o) \in Nat
      /\ \A i \in 1 .. Len(g) : (g \o o)[i] = g[i]
      /\ \A i \in 1 .. Len(o) : (g \o o)[Len(g) + i] = o[i]
  BY Joined
<1>3. /\ a \in Seq(S) /\ Len(a) = Len(g) + (Len(o) + 1)
      /\ \A i \in 1 .. Len(g) : a[i] = g[i]
      /\ \A i \in 1 .. Len(o) + 1 : a[Len(g) + i] = Append(o, x)[i]
  <2>1. ASSUME NEW p \in Seq(S)
        PROVE  /\ g \o p \in Seq(S) /\ Len(g \o p) = Len(g) + Len(p)
               /\ \A i \in 1 .. Len(g) : (g \o p)[i] = g[i]
               /\ \A i \in 1 .. Len(p) : (g \o p)[Len(g) + i] = p[i]
    BY Joined
  <2>2. Append(o, x) \in Seq(S)
    BY <1>1
  <2>3. /\ a \in Seq(S) /\ Len(a) = Len(g) + Len(Append(o, x))
        /\ \A i \in 1 .. Len(g) : a[i] = g[i]
        /\ \A i \in 1 .. Len(Append(o, x)) : a[Len(g) + i] = Append(o, x)[i]
    BY <2>1, <2>2, Zenon
  <2> HIDE DEF a
  <2> QED
    BY <1>1, <2>3
<1>4. /\ b \in Seq(S) /\ Len(b) = Len(g) + Len(o) + 1 /\ b[Len(g) + Len(o) + 1] = x
      /\ \A i \in 1 .. Len(g) + Len(o) : b[i] = (g \o o)[i]
  <2>1. ASSUME NEW p \in Seq(S)
        PROVE  /\ Append(p, x) \in Seq(S) /\ Len(Append(p, x)) = Len(p) + 1
               /\ Append(p, x)[Len(p) + 1] = x
               /\ \A i \in 1 .. Len(p) : Append(p, x)[i] = p[i]
    BY AppendProperties
  <2>2. g \o o \in Seq(S)
    BY <1>2
  <2>3. /\ b \in Seq(S) /\ Len(b) = Len(g \o o) + 1 /\ b[Len(g \o o) + 1] = x
        /\ \A i \in 1 .. Len(g \o o) : b[i] = (g \o o)[i]
    BY <2>1, <2>2, Zenon
  <2> HIDE DEF b
  <2> QED
    BY <1>2, <2>3
<1> HIDE DEF a, b
<1>5. Len(a) = Len(b)
  BY <1>2, <1>3, <1>4
<1>6. ASSUME NEW i \in 1 .. Len(a) PROVE a[i] = b[i]
  <2>1. CASE i \in 1 .. Len(g)
    <3>1. i \in 1 .. Len(g) + Len(o)
      BY <1>2, <2>1
    <3> QED
      BY <1>2, <1>3, <1>4, <2>1, <3>1
  <2>2. CASE i \notin 1 .. Len(g)
    <3>1. i - Len(g) \in 1 .. Len(o) + 1 /\ Len(g) + (i - Len(g)) = i
      BY <1>2, <1>3, <2>2
    <3>2. a[i] = Append(o, x)[i - Len(g)]
      BY <1>3, <3>1
    <3>3. CASE i - Len(g) \in 1 .. Len(o)
      <4>1. i \in 1 .. Len(g) + Len(o)
        BY <1>2, <3>1, <3>3
      <4>2. b[i] = o[i - Len(g)]
        BY <1>2, <1>4, <3>1, <3>3, <4>1
      <4> QED
        BY <1>1, <3>2, <3>3, <4>2
    <3>4. CASE i - Len(g) = Len(o) + 1
      <4>1. i = Len(g) + Len(o) + 1
        BY <1>2, <3>1, <3>4
      <4> QED
        BY <1>1, <1>4, <3>2, <3>4, <4>1
    <3> QED
      BY <1>2, <3>1, <3>3, <3>4
  <2> QED
    BY <2>1, <2>2
<1>7. a = b
  BY <1>3, <1>4, <1>5, <1>6, SeqEqual
<1> QED
  BY <1>7 DEF a, b

\* A sequence, whatever its elements are.
IsSequence(s) == s \in Seq({s[i] : i \in DOMAIN s})

LEMMA Sequences ==
    /\ \A s : IsSequence(s) => Len(s) \in Nat /\ DOMAIN s = 1 .. Len(s)
    /\ IsSequence(<< >>)
BY DEF IsSequence

LEMMA FunctionIsSequence ==
    ASSUME NEW n \in Nat, NEW T, NEW f \in [1 .. n -> T]
    PROVE  IsSequence(f) /\ Len(f) = n
BY DEF IsSequence

LEMMA Appended ==
    ASSUME NEW s, IsSequence(s), NEW e
    PROVE  /\ IsSequence(Append(s, e)) /\ Len(Append(s, e)) = Len(s) + 1
           /\ DOMAIN Append(s, e) = 1 .. Len(s) + 1
           /\ \A i \in 1 .. Len(s) : Append(s, e)[i] = s[i]
           /\ Append(s, e)[Len(s) + 1] = e
<1> DEFINE S == {s[i] : i \in DOMAIN s} \cup {e}
           t == Append(s, e)
<1>1. s \in Seq(S) /\ e \in S /\ Len(s) \in Nat
  <2>1. s \in Seq({s[i] : i \in DOMAIN s})
    BY DEF IsSequence
  <2> QED
    BY <2>1
<1>2. /\ t \in Seq(S) /\ Len(t) = Len(s) + 1
      /\ \A i \in 1 .. Len(s) : t[i] = s[i]
      /\ t[Len(s) + 1] = e
  BY <1>1, AppendProperties
<1>3. DOMAIN t = 1 .. Len(s) + 1
  BY <1>2
<1> HIDE DEF t, S
<1>4. t \in Seq({t[i] : i \in DOMAIN t})
  BY <1>1, <1>2, <1>3
<1> QED
  BY <1>2, <1>3, <1>4 DEF IsSequence, t

\* Positions in a sequence of length n.
Positions(n) == SUBSET (1 .. n)

\* The selection is a sequence with as many elements as there are positions.
LEMMA SelectionIs ==
    ASSUME NEW s, NEW n \in Nat, NEW I \in Positions(n)
    PROVE  /\ Cardinality(I) \in Nat /\ IsFiniteSet(I)
           /\ IsSequence(Selected(s, I)) /\ Len(Selected(s, I)) = Cardinality(I)
           /\ \A i \in I : /\ Place(I, i) \in 1 .. Cardinality(I)
                           /\ Selected(s, I)[Place(I, i)] = s[i]
           /\ \A m \in 1 .. Cardinality(I) :
                 \E i \in I : Place(I, i) = m /\ Selected(s, I)[m] = s[i]
<1> DEFINE c == Cardinality(I)
           Nth(m) == CHOOSE i \in I : Place(I, i) = m
           t == [m \in 1 .. c |-> s[Nth(m)]]
<1>1. IsFiniteSet(I)
  <2>1. IsFiniteSet(1 .. n)
    BY FS_Interval
  <2> QED
    BY <2>1, FS_Subset DEF Positions
<1>2. /\ c \in Nat
      /\ \A m \in 1 .. c : \E i \in I : Place(I, i) = m
      /\ \A i, j \in I : Place(I, i) = Place(I, j) => i = j
  BY RankBijective DEF Positions
<1>3. \A i \in I : Place(I, i) \in 1 .. c
  BY RankRange DEF Positions
<1>4. \A m \in 1 .. c : Nth(m) \in I /\ Place(I, Nth(m)) = m
  BY <1>2
<1>5. \A i \in I : Nth(Place(I, i)) = i
  BY <1>2, <1>3, <1>4
<1>6. Selected(s, I) = t
  BY DEF Selected
<1>7. \A i \in I : t[Place(I, i)] = s[i]
  BY <1>3, <1>5
<1>8. \A m \in 1 .. c : t[m] = s[Nth(m)]
  OBVIOUS
<1>9. IsSequence(t) /\ Len(t) = c
  <2>1. t \in [1 .. c -> {t[m] : m \in 1 .. c}]
    OBVIOUS
  <2> HIDE DEF t, c
  <2> QED
    BY <1>2, <2>1, FunctionIsSequence
<1> HIDE DEF t, Nth, c
<1> QED
  BY <1>1, <1>2, <1>3, <1>4, <1>6, <1>7, <1>8, <1>9 DEF c

\* Equal sequences, whatever their elements are.
LEMMA SameSequence ==
    ASSUME NEW s, IsSequence(s), NEW t, IsSequence(t), Len(s) = Len(t),
           \A i \in 1 .. Len(s) : s[i] = t[i]
    PROVE  s = t
<1> DEFINE S == {s[i] : i \in DOMAIN s} \cup {t[i] : i \in DOMAIN t}
<1>1. s \in Seq(S) /\ t \in Seq(S)
  BY WiderSeq DEF IsSequence
<1> HIDE DEF S
<1> QED
  BY <1>1, SeqEqual

\* Only the elements at the positions matter.
LEMMA SelectedSame ==
    ASSUME NEW s, NEW t, NEW n \in Nat, NEW I \in Positions(n), \A i \in I : s[i] = t[i]
    PROVE  Selected(s, I) = Selected(t, I)
<1> DEFINE Nth(m) == CHOOSE i \in I : Place(I, i) = m
<1>1. \A m \in 1 .. Cardinality(I) : Nth(m) \in I
  BY RankBijective DEF Positions
<1>2. \A m \in 1 .. Cardinality(I) : s[Nth(m)] = t[Nth(m)]
  BY <1>1
<1>3. /\ Selected(s, I) = [m \in 1 .. Cardinality(I) |-> s[Nth(m)]]
      /\ Selected(t, I) = [m \in 1 .. Cardinality(I) |-> t[Nth(m)]]
  BY DEF Selected
<1> HIDE DEF Nth
<1> QED
  BY <1>2, <1>3

LEMMA SelectedNone == ASSUME NEW s PROVE Selected(s, {}) = << >>
BY FS_EmptySet DEF Selected

\* The positions of K up to k select what they select as a part of K, at its front.
FrontOf(K, k) == {i \in K : i <= k}

LEMMA SelectedFront ==
    ASSUME NEW s, NEW n \in Nat, NEW K \in Positions(n), NEW k \in Int
    PROVE  /\ FrontOf(K, k) \in Positions(n)
           /\ Cardinality(FrontOf(K, k)) \in Nat /\ Cardinality(K) \in Nat
           /\ Cardinality(FrontOf(K, k)) <= Cardinality(K)
           /\ \A p \in 1 .. Cardinality(FrontOf(K, k)) :
                 Selected(s, FrontOf(K, k))[p] = Selected(s, K)[p]
<1> DEFINE I == FrontOf(K, k)
<1>1. I \in Positions(n) /\ I \subseteq K /\ K \in SUBSET (1 .. n)
  BY DEF FrontOf, Positions
<1>2. IsFiniteSet(K) /\ Cardinality(K) \in Nat /\ Cardinality(I) \in Nat
  BY <1>1, SelectionIs
<1>3. Cardinality(I) <= Cardinality(K)
  BY <1>1, <1>2, FS_Subset
<1>4. ASSUME NEW i \in I PROVE Place(K, i) = Place(I, i)
  <2>1. i \in K /\ i <= k /\ i \in Int
    BY <1>1 DEF FrontOf
  <2>2. {j \in K : j <= i} = {j \in I : j <= i}
    <3>1. ASSUME NEW j \in K, j <= i PROVE j \in I
      <4>1. j \in Int /\ j <= k
        BY <1>1, <2>1, <3>1
      <4> QED
        BY <4>1 DEF FrontOf
    <3> QED
      BY <1>1, <3>1
  <2> QED
    BY <2>2 DEF Place
<1>5. ASSUME NEW p \in 1 .. Cardinality(I) PROVE Selected(s, I)[p] = Selected(s, K)[p]
  <2>1. PICK i \in I : Place(I, i) = p /\ Selected(s, I)[p] = s[i]
    BY <1>1, SelectionIs
  <2>2. \A j \in K : Selected(s, K)[Place(K, j)] = s[j]
    BY SelectionIs
  <2> QED
    BY <1>1, <1>4, <2>1, <2>2
<1> QED
  BY <1>1, <1>2, <1>3, <1>5

\* One position more, behind the others.
LEMMA SelectedNext ==
    ASSUME NEW s, NEW n \in Nat, NEW I \in Positions(n), NEW d \in Nat \ {0}
    PROVE  Selected(s, I \cup {n + d}) = Append(Selected(s, I), s[n + d])
<1> DEFINE m == n + d
           x == s[m]
           K == I \cup {m}
           a == Selected(s, K)
           b == Append(Selected(s, I), x)
<1>1. /\ m \in Nat /\ n \in Int /\ m \notin I /\ I = FrontOf(K, n) /\ K \in Positions(m)
      /\ \A j \in K : j <= m
  <2>1. \A j \in I : j \in 1 .. n
    BY DEF Positions
  <2>2. m \in 1 .. m /\ m > n /\ \A j \in 1 .. n : j \in 1 .. m
    OBVIOUS
  <2>3. \A j \in K : j \in I \/ j = m
    OBVIOUS
  <2> HIDE DEF m
  <2>4. ASSUME NEW j \in K PROVE j \in 1 .. m
    BY <2>1, <2>2, <2>3
  <2>5. K \in SUBSET (1 .. m) /\ \A j \in K : j <= m
    <3> HIDE DEF K
    <3> QED
      BY <2>4
  <2>6. ASSUME NEW j PROVE j \in I <=> j \in K /\ j <= n
    BY <2>1, <2>2, <2>3
  <2> QED
    BY <2>1, <2>2, <2>5, <2>6 DEF Positions, FrontOf
<1>2. IsFiniteSet(I) /\ Cardinality(I) \in Nat
  BY SelectionIs
<1>3. Cardinality(K) = Cardinality(I) + 1
  BY <1>1, <1>2, FS_AddElement
<1>4. Place(K, m) = Cardinality(K)
  <2> HIDE DEF K
  <2>1. {j \in K : j <= m} = K
    BY <1>1
  <2> QED
    BY <2>1 DEF Place
<1>5. m \in K
  OBVIOUS
<1> HIDE DEF K, m, x
<1>6. \A p \in 1 .. Cardinality(I) : Selected(s, I)[p] = a[p]
  <2>1. ASSUME NEW M \in Nat, NEW L \in Positions(M), NEW k \in Int
        PROVE  \A p \in 1 .. Cardinality(FrontOf(L, k)) :
                  Selected(s, FrontOf(L, k))[p] = Selected(s, L)[p]
    BY SelectedFront
  <2>2. m \in Nat /\ K \in Positions(m) /\ n \in Int
    BY <1>1
  <2>3. \A p \in 1 .. Cardinality(FrontOf(K, n)) :
           Selected(s, FrontOf(K, n))[p] = Selected(s, K)[p]
    BY <2>1, <2>2
  <2>4. I = FrontOf(K, n)
    BY <1>1
  <2> QED
    BY <2>3, <2>4 DEF a
<1>7. IsSequence(a) /\ Len(a) = Cardinality(K) /\ a[Cardinality(K)] = s[m]
  <2>1. /\ IsSequence(Selected(s, K)) /\ Len(Selected(s, K)) = Cardinality(K)
        /\ \A i \in K : Selected(s, K)[Place(K, i)] = s[i]
    <3>1. m \in Nat /\ K \in Positions(m)
      BY <1>1
    <3>2. ASSUME NEW M \in Nat, NEW L \in Positions(M)
          PROVE  /\ IsSequence(Selected(s, L)) /\ Len(Selected(s, L)) = Cardinality(L)
                 /\ \A i \in L : Selected(s, L)[Place(L, i)] = s[i]
      BY SelectionIs, Zenon
    <3> QED
      BY <3>1, <3>2, Zenon
  <2> QED
    BY <1>4, <1>5, <2>1
<1>8. IsSequence(Selected(s, I)) /\ Len(Selected(s, I)) = Cardinality(I)
  BY SelectionIs
<1>9. /\ IsSequence(b) /\ Len(b) = Cardinality(I) + 1 /\ b[Cardinality(I) + 1] = x
      /\ \A i \in 1 .. Cardinality(I) : b[i] = Selected(s, I)[i]
  BY <1>8, Appended
<1> HIDE DEF a, b
<1>10. ASSUME NEW i \in 1 .. Len(a) PROVE a[i] = b[i]
  <2>1. CASE i \in 1 .. Cardinality(I)
    BY <1>6, <1>9, <2>1
  <2>2. CASE i = Cardinality(I) + 1
    BY <1>3, <1>7, <1>9, <2>2 DEF x
  <2> QED
    BY <1>2, <1>3, <1>7, <2>1, <2>2
<1>11. a = b
  BY <1>3, <1>7, <1>9, <1>10, SameSequence
<1> QED
  BY <1>11 DEF a, b, K, m, x

=============================================================================
