----------------------------- MODULE SumsProofs -----------------------------
(***************************************************************************)
(* What Sums!SumTo computes, for every n and every function, and a fold of *)
(* + over a finite set.  The library's induction theorems take an          *)
(* operator, which none of the provers can instantiate, so an induction    *)
(* here is over a set: the least element of a set of counterexamples would *)
(* follow from the one below it.                                           *)
(***************************************************************************)
EXTENDS Sums, FiniteSetTheorems, WellFoundedInduction, TLAPS

(* Every nonempty set of naturals has a least element. *)
LEMMA LeastNatural ==
    ASSUME NEW T \in SUBSET Nat, T # {}
    PROVE  \E m \in T : \A k \in T : m <= k
<1> DEFINE R == {ss \in Nat \X Nat : ss[1] < ss[2]}
<1>1. IsWellFoundedOn(R, Nat)
  BY NatLessThanWellFounded, Zenon DEF OpToRel
<1> HIDE DEF R
<1>2. PICK m \in T : \A y \in T : ~(<<y, m>> \in R)
  BY <1>1, WFMin, Zenon
<1>3. \A y \in T : ~(y < m)
  BY <1>2 DEF R
<1> QED BY <1>3

(* Induction up to n, as a fact about the set of the indices where a       *)
(* statement holds.                                                        *)
LEMMA InductionUpTo ==
    ASSUME NEW n \in Nat, NEW T,
           0 \in T,
           \A i \in 0..n : i # n /\ i \in T => i + 1 \in T
    PROVE  \A i \in 0..n : i \in T
<1> DEFINE Bad == {i \in 0..n : i \notin T}
<1> SUFFICES ASSUME Bad # {} PROVE FALSE
  OBVIOUS
<1>1. Bad \in SUBSET Nat
  OBVIOUS
<1>2. PICK m \in Bad : \A k \in Bad : m <= k
  <2> HIDE DEF Bad
  <2> QED BY <1>1, LeastNatural
<1>3. m \in 1..n /\ m - 1 \in 0..n /\ m - 1 # n
  OBVIOUS
<1>4. m - 1 \in T
  BY <1>2, <1>3
<1> QED BY <1>2, <1>3, <1>4

(* The partial sums of f: what the recursive function of SumTo is. *)
IsPartialSums(s, f, n) == /\ s \in [0..n -> Int]
                          /\ s[0] = 0
                          /\ \A i \in 1..n : s[i] = s[i-1] + f[i]

LEMMA PartialSumsExist ==
    ASSUME NEW n \in Nat, NEW f \in [1..n -> Int]
    PROVE  \E s : IsPartialSums(s, f, n)
<1> DEFINE UpTo(s, m) == /\ s \in [0..n -> Int]
                         /\ s[0] = 0
                         /\ \A i \in 1..m : s[i] = s[i-1] + f[i]
           T == {i \in 0..n : \E s : UpTo(s, i)}
<1>1. 0 \in T
  <2>1. UpTo([i \in 0..n |-> 0], 0)
    OBVIOUS
  <2> HIDE DEF UpTo
  <2> QED BY <2>1
<1>2. ASSUME NEW m \in 0..n, m # n, m \in T PROVE m + 1 \in T
  <2>1. PICK s : UpTo(s, m)
    BY <1>2
  <2> DEFINE t == [s EXCEPT ![m + 1] = s[m] + f[m + 1]]
  <2>2. m + 1 \in 1..n /\ f[m + 1] \in Int /\ s[m] \in Int
    BY <1>2, <2>1
  <2>3. t \in [0..n -> Int] /\ t[0] = 0
    BY <2>1, <2>2
  <2>4. ASSUME NEW i \in 1..(m + 1) PROVE t[i] = t[i-1] + f[i]
    BY <2>1, <2>2
  <2>5. UpTo(t, m + 1)
    BY <2>3, <2>4
  <2> HIDE DEF t, UpTo
  <2> QED BY <2>2, <2>5
<1>3. n \in T
  <2> HIDE DEF T
  <2>1. \A i \in 0..n : i \in T
    BY <1>1, <1>2, InductionUpTo
  <2> QED BY <2>1
<1> QED BY <1>3 DEF IsPartialSums

(* SumTo(f, n) is the last of the partial sums. *)
LEMMA SumToIsPartialSum ==
    ASSUME NEW n \in Nat, NEW f \in [1..n -> Int]
    PROVE  \E s : IsPartialSums(s, f, n) /\ SumTo(f, n) = s[n]
<1> DEFINE Eq(s) == s = [i \in 0..n |-> IF i = 0 THEN 0 ELSE s[i-1] + f[i]]
           c == CHOOSE s : Eq(s)
<1>1. PICK w : IsPartialSums(w, f, n)
  BY PartialSumsExist
<1>2. Eq(w)
  BY <1>1 DEF IsPartialSums
<1>3. Eq(c)
  BY <1>2, Zenon
<1>4. SumTo(f, n) = c[n]
  BY DEF SumTo
<1> HIDE DEF c
<1>5. c[0] = 0 /\ \A i \in 1..n : c[i] = c[i-1] + f[i]
  BY <1>3
<1> DEFINE T == {i \in 0..n : c[i] = w[i]}
<1>6. 0 \in T
  BY <1>1, <1>5 DEF IsPartialSums
<1>7. ASSUME NEW i \in 0..n, i # n, i \in T PROVE i + 1 \in T
  <2>1. i + 1 \in 1..n /\ (i + 1) - 1 = i
    BY <1>7
  <2> QED BY <1>1, <1>5, <1>7, <2>1 DEF IsPartialSums
<1>8. \A i \in 0..n : i \in T
  <2> HIDE DEF T
  <2> QED BY <1>6, <1>7, InductionUpTo
<1>9. SumTo(f, n) = w[n]
  BY <1>4, <1>8
<1> QED BY <1>1, <1>9

LEMMA PartialSumsUnique ==
    ASSUME NEW n \in Nat, NEW f \in [1..n -> Int], NEW s, IsPartialSums(s, f, n)
    PROVE  SumTo(f, n) = s[n]
<1>1. PICK w : IsPartialSums(w, f, n) /\ SumTo(f, n) = w[n]
  BY SumToIsPartialSum
<1> DEFINE T == {i \in 0..n : s[i] = w[i]}
<1>2. 0 \in T
  BY <1>1 DEF IsPartialSums
<1>3. ASSUME NEW i \in 0..n, i # n, i \in T PROVE i + 1 \in T
  <2>1. i + 1 \in 1..n /\ (i + 1) - 1 = i
    BY <1>3
  <2> QED BY <1>1, <1>3, <2>1 DEF IsPartialSums
<1>4. \A i \in 0..n : i \in T
  <2> HIDE DEF T
  <2> QED BY <1>2, <1>3, InductionUpTo
<1> QED BY <1>1, <1>4

(* Changing one term changes the sum by the difference. *)
LEMMA SumToUpdate ==
    ASSUME NEW n \in Nat, NEW f \in [1..n -> Int], NEW g \in [1..n -> Int],
           NEW k \in 1..n, \A j \in 1..n : j # k => g[j] = f[j]
    PROVE  SumTo(g, n) = SumTo(f, n) + (g[k] - f[k])
<1>1. PICK s : IsPartialSums(s, f, n) /\ SumTo(f, n) = s[n]
  BY SumToIsPartialSum
<1> DEFINE t == [i \in 0..n |-> IF i < k THEN s[i] ELSE s[i] + (g[k] - f[k])]
<1>2. t \in [0..n -> Int] /\ t[0] = 0
  <2>1. /\ \A i \in 0..n : s[i] \in Int
        /\ s[0] = 0 /\ 0 \in 0..n /\ 0 < k
        /\ g[k] - f[k] \in Int
    BY <1>1 DEF IsPartialSums
  <2>2. \A i \in 0..n : s[i] + (g[k] - f[k]) \in Int
    BY <2>1
  <2> QED BY <2>1, <2>2
<1>3. ASSUME NEW i \in 1..n PROVE t[i] = t[i-1] + g[i]
  <2>1. /\ s[i] = s[i-1] + f[i]
        /\ s[i] \in Int /\ s[i-1] \in Int /\ f[i] \in Int /\ g[i] \in Int
        /\ g[k] \in Int /\ f[k] \in Int
        /\ i \in 0..n /\ i - 1 \in 0..n
    BY <1>1 DEF IsPartialSums
  <2>2. CASE i < k
    BY <2>1, <2>2
  <2>3. CASE i = k
    BY <2>1, <2>3
  <2>4. CASE i > k
    BY <2>1, <2>4
  <2> QED BY <2>2, <2>3, <2>4
<1>4. IsPartialSums(t, g, n)
  BY <1>2, <1>3 DEF IsPartialSums
<1>5. SumTo(g, n) = t[n]
  <2> HIDE DEF t
  <2> QED BY <1>4, PartialSumsUnique
<1> QED BY <1>1, <1>5

(* A sum of zeros is zero. *)
LEMMA SumToZero ==
    ASSUME NEW n \in Nat, NEW f \in [1..n -> Int], \A i \in 1..n : f[i] = 0
    PROVE  SumTo(f, n) = 0
<1> DEFINE t == [i \in 0..n |-> 0]
<1>1. IsPartialSums(t, f, n)
  BY DEF IsPartialSums
<1> HIDE DEF t
<1>2. SumTo(f, n) = t[n]
  BY <1>1, PartialSumsUnique
<1> QED BY <1>2 DEF t

(* A sum of naturals is at least each of its terms. *)
LEMMA SumToAtLeast ==
    ASSUME NEW n \in Nat, NEW f \in [1..n -> Nat], NEW k \in 1..n
    PROVE  f[k] <= SumTo(f, n)
<1>0. f \in [1..n -> Int]
  OBVIOUS
<1>1. PICK s : IsPartialSums(s, f, n) /\ SumTo(f, n) = s[n]
  BY <1>0, SumToIsPartialSum
<1> DEFINE T == {i \in 0..n : s[i] >= 0 /\ (k <= i => f[k] <= s[i])}
<1>2. 0 \in T
  BY <1>1 DEF IsPartialSums
<1>3. ASSUME NEW i \in 0..n, i # n, i \in T PROVE i + 1 \in T
  <2>1. i + 1 \in 1..n /\ (i + 1) - 1 = i
    BY <1>3
  <2>2. s[i + 1] = s[i] + f[i + 1] /\ f[i + 1] \in Nat /\ f[k] \in Nat /\ s[i] \in Int
    BY <1>1, <2>1 DEF IsPartialSums
  <2>3. k <= i + 1 => f[k] <= s[i + 1]
    <3>1. CASE k <= i
      BY <1>3, <2>2, <3>1
    <3>2. CASE k = i + 1
      BY <1>3, <2>2, <3>2
    <3> QED BY <3>1, <3>2
  <2> QED BY <1>3, <2>1, <2>2, <2>3
<1>4. \A i \in 0..n : i \in T
  <2> HIDE DEF T
  <2> QED BY <1>2, <1>3, InductionUpTo
<1> QED BY <1>1, <1>4

(* A sum that stays below another one term by term, and d below it at one  *)
(* of them, is at least d below it.                                        *)
LEMMA SumToGap ==
    ASSUME NEW n \in Nat, NEW f \in [1..n -> Nat], NEW g \in [1..n -> Nat],
           \A i \in 1..n : f[i] <= g[i],
           NEW k \in 1..n, NEW d \in Nat, f[k] + d <= g[k]
    PROVE  SumTo(f, n) + d <= SumTo(g, n)
<1> DEFINE h == [i \in 1..n |-> g[i] - f[i]]
<1>1. h \in [1..n -> Nat] /\ d <= h[k]
  OBVIOUS
<1>2. f \in [1..n -> Int] /\ g \in [1..n -> Int] /\ h \in [1..n -> Int]
  BY <1>1
<1>3. \A i \in 1..n : g[i] = f[i] + h[i]
  OBVIOUS
<1> HIDE DEF h
<1>4. PICK s : IsPartialSums(s, f, n) /\ SumTo(f, n) = s[n]
  BY <1>2, SumToIsPartialSum
<1>5. PICK r : IsPartialSums(r, h, n) /\ SumTo(h, n) = r[n]
  BY <1>2, SumToIsPartialSum
<1> DEFINE t == [i \in 0..n |-> s[i] + r[i]]
<1>6. t \in [0..n -> Int] /\ t[0] = 0
  <2>1. \A i \in 0..n : s[i] \in Int /\ r[i] \in Int
    BY <1>4, <1>5 DEF IsPartialSums
  <2>2. s[0] = 0 /\ r[0] = 0 /\ 0 \in 0..n
    BY <1>4, <1>5 DEF IsPartialSums
  <2>3. \A i \in 0..n : s[i] + r[i] \in Int
    BY <2>1
  <2> QED BY <2>2, <2>3
<1>7. ASSUME NEW i \in 1..n PROVE t[i] = t[i-1] + g[i]
  <2>1. i - 1 \in 0..n /\ i \in 0..n
    OBVIOUS
  <2>2. s[i] = s[i-1] + f[i] /\ r[i] = r[i-1] + h[i]
    <3> HIDE DEF t
    <3> QED BY <1>4, <1>5 DEF IsPartialSums
  <2>3. s[i-1] \in Int /\ r[i-1] \in Int /\ f[i] \in Int /\ h[i] \in Int
    <3>1. s \in [0..n -> Int] /\ r \in [0..n -> Int]
      BY <1>4, <1>5 DEF IsPartialSums
    <3> QED BY <1>2, <2>1, <3>1
  <2>4. t[i] = s[i] + r[i] /\ t[i-1] = s[i-1] + r[i-1]
    BY <2>1
  <2>5. g[i] = f[i] + h[i]
    BY <1>3
  <2> HIDE DEF t
  <2> DEFINE a == s[i-1]
             b == r[i-1]
             x == f[i]
             y == h[i]
  <2>6. a \in Int /\ b \in Int /\ x \in Int /\ y \in Int
    BY <2>3
  <2> HIDE DEF a, b, x, y
  <2>7. (a + x) + (b + y) = (a + b) + (x + y)
    BY <2>6
  <2> QED BY <2>2, <2>4, <2>5, <2>7, Zenon DEF a, b, x, y
<1>8. SumTo(g, n) = t[n]
  <2> HIDE DEF t
  <2>1. IsPartialSums(t, g, n)
    BY <1>6, <1>7 DEF IsPartialSums
  <2> QED BY <1>2, <2>1, PartialSumsUnique
<1>9. SumTo(g, n) = SumTo(f, n) + SumTo(h, n) /\ SumTo(f, n) \in Int /\ SumTo(h, n) \in Int
  BY <1>4, <1>5, <1>8 DEF IsPartialSums
<1>10. h[k] <= SumTo(h, n)
  BY <1>1, SumToAtLeast
<1>11. h[k] \in Int
  BY <1>2
<1> QED BY <1>1, <1>9, <1>10, <1>11
-----------------------------------------------------------------------------
(* Sums over finite sets.  The same induction, over the subsets of a set   *)
(* by their cardinality, shows that a fold of + exists, and that it does   *)
(* not depend on the order in which CHOOSE takes the elements.             *)

(* A nonempty set of subsets of a finite set has one with none below it.   *)
LEMMA MinimalSubset ==
    ASSUME NEW S, IsFiniteSet(S), NEW B \in SUBSET (SUBSET S), B # {}
    PROVE  \E m \in B : \A s \in B : s \subseteq m => s = m
<1> DEFINE Sizes == {Cardinality(s) : s \in B}
<1>1. \A s \in SUBSET S : IsFiniteSet(s) /\ Cardinality(s) \in Nat
  BY FS_Subset, FS_CardinalityType
<1>2. Sizes \in SUBSET Nat /\ Sizes # {}
  BY <1>1
<1>3. PICK k \in Sizes : \A l \in Sizes : k <= l
  <2> HIDE DEF Sizes
  <2> QED BY <1>2, LeastNatural
<1>4. PICK m \in B : Cardinality(m) = k
  OBVIOUS
<1>5. ASSUME NEW s \in B, s \subseteq m PROVE s = m
  <2>1. Cardinality(m) <= Cardinality(s)
    BY <1>3, <1>4
  <2>2. IsFiniteSet(m) /\ Cardinality(s) <= Cardinality(m) /\ Cardinality(m) \in Nat
        /\ Cardinality(s) \in Nat /\ (Cardinality(m) = Cardinality(s) => m = s)
    BY <1>1, <1>5, FS_Subset
  <2> QED BY <2>1, <2>2
<1> QED BY <1>5

(* Induction over the subsets of a finite set, as a fact about the set of  *)
(* those where a statement holds.                                          *)
LEMMA InductionOverSubsets ==
    ASSUME NEW S, IsFiniteSet(S), NEW T,
           {} \in T,
           \A s \in SUBSET S : \A x \in S \ s : s \in T => s \cup {x} \in T
    PROVE  \A s \in SUBSET S : s \in T
<1> DEFINE Bad == {s \in SUBSET S : s \notin T}
<1> SUFFICES ASSUME Bad # {} PROVE FALSE
  OBVIOUS
<1>1. PICK m \in Bad : \A s \in Bad : s \subseteq m => s = m
  <2>1. Bad \in SUBSET (SUBSET S)
    OBVIOUS
  <2> HIDE DEF Bad
  <2> QED BY <2>1, MinimalSubset
<1>2. PICK x \in m : TRUE
  OBVIOUS
<1>3. m \ {x} \in SUBSET S /\ m \ {x} # m /\ m \ {x} \in T
  BY <1>1, <1>2
<1>4. m = (m \ {x}) \cup {x} /\ x \in S \ (m \ {x})
  BY <1>2
<1> QED BY <1>3, <1>4

(* The element a fold over s takes next.                                  *)
Chosen(s) == CHOOSE x \in s : TRUE

(* What folding + over the weights of a set computes for each of its       *)
(* subsets: MapThenSumSet's recursive function.                            *)
IsSetSums(c, w, S) ==
    /\ c \in [SUBSET S -> Int]
    /\ \A s \in SUBSET S : c[s] = IF s = {} THEN 0 ELSE w[Chosen(s)] + c[s \ {Chosen(s)}]

SetSum(w, S) == (CHOOSE c : IsSetSums(c, w, S))[S]

LEMMA ChosenIn == ASSUME NEW s, s # {} PROVE Chosen(s) \in s
  BY DEF Chosen

LEMMA SetSumsExist ==
    ASSUME NEW S, IsFiniteSet(S), NEW w, \A x \in S : w[x] \in Int
    PROVE  \E c : IsSetSums(c, w, S)
<1> DEFINE n == Cardinality(S)
           Rhs(c, s) == IF s = {} THEN 0 ELSE w[Chosen(s)] + c[s \ {Chosen(s)}]
           UpTo(c, m) == /\ c \in [SUBSET S -> Int]
                         /\ \A s \in SUBSET S : Cardinality(s) <= m => c[s] = Rhs(c, s)
           T == {i \in 0..n : \E c : UpTo(c, i)}
<1>0. /\ n \in Nat
      /\ \A s \in SUBSET S : Cardinality(s) \in 0..n
      /\ \A s \in SUBSET S : Cardinality(s) = 0 => s = {}
      /\ \A s \in SUBSET S : s # {} =>
            /\ Chosen(s) \in S /\ s \ {Chosen(s)} \in SUBSET S
            /\ Cardinality(s \ {Chosen(s)}) = Cardinality(s) - 1
  <2>1. \A s \in SUBSET S : /\ IsFiniteSet(s) /\ Cardinality(s) \in Nat
                            /\ Cardinality(s) <= Cardinality(S)
    BY FS_Subset, FS_CardinalityType
  <2>2. \A s \in SUBSET S : Cardinality(s) = 0 => s = {}
    BY <2>1, FS_EmptySet
  <2>3. ASSUME NEW s \in SUBSET S, s # {}
        PROVE  /\ Chosen(s) \in S /\ s \ {Chosen(s)} \in SUBSET S
               /\ Cardinality(s \ {Chosen(s)}) = Cardinality(s) - 1
    <3>1. Chosen(s) \in s
      BY <2>3, ChosenIn
    <3> QED BY <2>1, <3>1, FS_RemoveElement
  <2> QED BY <2>1, <2>2, <2>3
<1> HIDE DEF n
<1>1. 0 \in T
  <2>1. UpTo([s \in SUBSET S |-> 0], 0)
    BY <1>0
  <2> HIDE DEF UpTo
  <2> QED BY <1>0, <2>1
<1>2. ASSUME NEW m \in 0..n, m # n, m \in T PROVE m + 1 \in T
  <2>1. PICK c : UpTo(c, m)
    BY <1>2
  <2> DEFINE d == [s \in SUBSET S |-> IF Cardinality(s) = m + 1 THEN Rhs(c, s) ELSE c[s]]
  <2>2. ASSUME NEW s \in SUBSET S PROVE Rhs(c, s) \in Int
    <3>1. c \in [SUBSET S -> Int]
      BY <2>1
    <3>2. CASE s # {}
      <4>1. w[Chosen(s)] \in Int
        BY <1>0, <3>2
      <4>2. c[s \ {Chosen(s)}] \in Int
        BY <1>0, <3>1, <3>2
      <4> HIDE DEF UpTo, d
      <4> QED BY <3>2, <4>1, <4>2
    <3> QED BY <3>2
  <2>3. d \in [SUBSET S -> Int]
    <3> HIDE DEF Rhs
    <3> QED BY <2>1, <2>2
  <2>4. ASSUME NEW s \in SUBSET S, Cardinality(s) <= m + 1 PROVE d[s] = Rhs(d, s)
    <3>1. s # {} => d[s \ {Chosen(s)}] = c[s \ {Chosen(s)}]
      BY <1>0, <2>4
    <3>2. Rhs(d, s) = Rhs(c, s)
      BY <3>1
    <3>3. CASE Cardinality(s) = m + 1
      <4> HIDE DEF Rhs
      <4> QED BY <3>2, <3>3
    <3>4. CASE Cardinality(s) <= m
      <4>1. d[s] = c[s] /\ c[s] = Rhs(c, s)
        <5> HIDE DEF Rhs
        <5> QED BY <2>1, <3>4, <1>0
      <4> HIDE DEF d, Rhs
      <4> QED BY <3>2, <4>1
    <3> QED BY <1>0, <2>4, <3>3, <3>4
  <2>5. UpTo(d, m + 1)
    <3> HIDE DEF d, Rhs
    <3> QED BY <2>3, <2>4
  <2> HIDE DEF UpTo, d
  <2> QED BY <1>0, <1>2, <2>5
<1>3. n \in T
  <2> HIDE DEF T
  <2>1. \A i \in 0..n : i \in T
    BY <1>0, <1>1, <1>2, InductionUpTo
  <2> QED BY <1>0, <2>1
<1>4. PICK c : UpTo(c, n)
  BY <1>3
<1>5. \A s \in SUBSET S : Cardinality(s) <= n
  BY <1>0
<1>6. IsSetSums(c, w, S)
  BY <1>4, <1>5 DEF IsSetSums
<1> QED BY <1>6

(* The order in which elements are chosen does not matter. *)
LEMMA SetSumsAny ==
    ASSUME NEW S, IsFiniteSet(S), NEW w, \A x \in S : w[x] \in Int,
           NEW c, IsSetSums(c, w, S)
    PROVE  \A s \in SUBSET S : \A x \in s : c[s] = w[x] + c[s \ {x}]
<1> DEFINE Bad == {s \in SUBSET S : \E x \in s : c[s] # w[x] + c[s \ {x}]}
<1> SUFFICES ASSUME Bad # {} PROVE FALSE
  OBVIOUS
<1>1. PICK t \in Bad : \A s \in Bad : s \subseteq t => s = t
  <2>1. Bad \in SUBSET (SUBSET S)
    OBVIOUS
  <2> HIDE DEF Bad
  <2> QED BY <2>1, MinimalSubset
<1>2. PICK x \in t : c[t] # w[x] + c[t \ {x}]
  OBVIOUS
<1> DEFINE y == Chosen(t)
           u == t \ {x, y}
<1>3. y \in t /\ c[t] = w[y] + c[t \ {y}]
  BY <1>2, ChosenIn DEF IsSetSums
<1> HIDE DEF y
<1>4. x # y
  BY <1>2, <1>3
<1>5. (t \ {y}) \ {x} = u /\ (t \ {x}) \ {y} = u
  OBVIOUS
<1>6. c[t \ {y}] = w[x] + c[u]
  <2>1. t \ {y} \in SUBSET S /\ t \ {y} # t /\ x \in t \ {y}
    BY <1>3, <1>4
  <2> QED BY <1>1, <1>5, <2>1
<1>7. c[t \ {x}] = w[y] + c[u]
  <2>1. t \ {x} \in SUBSET S /\ t \ {x} # t /\ y \in t \ {x}
    BY <1>3, <1>4
  <2> QED BY <1>1, <1>5, <2>1
<1>8. c[u] \in Int /\ w[x] \in Int /\ w[y] \in Int
  BY <1>3 DEF IsSetSums
<1> QED BY <1>2, <1>3, <1>6, <1>7, <1>8

(* Two such functions agree where both are defined. *)
LEMMA SetSumsAgree ==
    ASSUME NEW S, IsFiniteSet(S), NEW w, \A x \in S : w[x] \in Int,
           NEW R \in SUBSET S, NEW c, IsSetSums(c, w, S), NEW d, IsSetSums(d, w, R)
    PROVE  c[R] = d[R]
<1> DEFINE T == {s \in SUBSET R : c[s] = d[s]}
<1>1. {} \in T
  BY DEF IsSetSums
<1>2. ASSUME NEW s \in SUBSET R, NEW x \in R \ s, s \in T PROVE s \cup {x} \in T
  <2>1. c[s \cup {x}] = w[x] + c[(s \cup {x}) \ {x}]
    BY SetSumsAny
  <2>2. d[s \cup {x}] = w[x] + d[(s \cup {x}) \ {x}]
    <3>1. IsFiniteSet(R) /\ \A y \in R : w[y] \in Int
      BY FS_Subset
    <3> HIDE DEF T
    <3> DEFINE t == s \cup {x}
    <3>2. t \in SUBSET R /\ x \in t
      OBVIOUS
    <3> HIDE DEF t
    <3>3. d[t] = w[x] + d[t \ {x}]
      BY <3>1, <3>2, SetSumsAny
    <3> QED BY <3>3 DEF t
  <2>3. (s \cup {x}) \ {x} = s
    BY <1>2
  <2> QED BY <1>2, <2>1, <2>2, <2>3
<1>3. IsFiniteSet(R)
  BY FS_Subset
<1>4. \A s \in SUBSET R : s \in T
  <2> HIDE DEF T
  <2> QED BY <1>1, <1>2, <1>3, InductionOverSubsets
<1> QED BY <1>4

(* SetSum, and every function that computes it. *)
LEMMA SetSumIs ==
    ASSUME NEW S, IsFiniteSet(S), NEW w, \A x \in S : w[x] \in Int,
           NEW c, IsSetSums(c, w, S), NEW R \in SUBSET S
    PROVE  SetSum(w, R) = c[R]
<1>1. IsFiniteSet(R) /\ \A x \in R : w[x] \in Int
  BY FS_Subset
<1>2. PICK d : IsSetSums(d, w, R)
  BY <1>1, SetSumsExist
<1>3. IsSetSums(CHOOSE e : IsSetSums(e, w, R), w, R)
  BY <1>2
<1> QED BY <1>3, SetSumsAgree DEF SetSum

LEMMA SetSumEmpty == \A w : SetSum(w, {}) = 0
<1> SUFFICES ASSUME NEW w PROVE SetSum(w, {}) = 0
  OBVIOUS
<1>1. PICK c : IsSetSums(c, w, {})
  BY SetSumsExist, FS_EmptySet
<1>2. SetSum(w, {}) = c[{}]
  BY <1>1, SetSumIs, FS_EmptySet
<1> QED BY <1>1, <1>2 DEF IsSetSums

LEMMA SetSumType ==
    ASSUME NEW S, IsFiniteSet(S), NEW w, \A x \in S : w[x] \in Int
    PROVE  SetSum(w, S) \in Int
<1>1. PICK c : IsSetSums(c, w, S)
  BY SetSumsExist
<1>2. SetSum(w, S) = c[S]
  BY <1>1, SetSumIs
<1> QED BY <1>1, <1>2 DEF IsSetSums

(* Taking out any element. *)
LEMMA SetSumRemove ==
    ASSUME NEW S, IsFiniteSet(S), NEW w, \A x \in S : w[x] \in Int, NEW x \in S
    PROVE  SetSum(w, S) = w[x] + SetSum(w, S \ {x})
<1>1. PICK c : IsSetSums(c, w, S)
  BY SetSumsExist
<1>2. SetSum(w, S) = c[S] /\ SetSum(w, S \ {x}) = c[S \ {x}]
  BY <1>1, SetSumIs
<1> QED BY <1>1, <1>2, SetSumsAny

LEMMA SetSumAdd ==
    ASSUME NEW S, IsFiniteSet(S), NEW x, x \notin S,
           NEW w, \A y \in S \cup {x} : w[y] \in Int
    PROVE  SetSum(w, S \cup {x}) = w[x] + SetSum(w, S)
<1>1. IsFiniteSet(S \cup {x}) /\ (S \cup {x}) \ {x} = S
  BY FS_AddElement
<1> QED BY <1>1, SetSumRemove

(* Termwise comparison. *)
LEMMA SetSumLE ==
    ASSUME NEW S, IsFiniteSet(S), NEW v, NEW w,
           \A x \in S : v[x] \in Int /\ w[x] \in Int /\ v[x] <= w[x]
    PROVE  SetSum(v, S) <= SetSum(w, S)
<1> DEFINE T == {s \in SUBSET S : SetSum(v, s) <= SetSum(w, s)}
<1>1. {} \in T
  BY SetSumEmpty
<1>2. ASSUME NEW s \in SUBSET S, NEW x \in S \ s, s \in T PROVE s \cup {x} \in T
  <2>1. IsFiniteSet(s)
    BY FS_Subset
  <2>2. SetSum(v, s \cup {x}) = v[x] + SetSum(v, s) /\ SetSum(w, s \cup {x}) = w[x] + SetSum(w, s)
    BY <1>2, <2>1, SetSumAdd
  <2>3. SetSum(v, s) \in Int /\ SetSum(w, s) \in Int
    BY <2>1, SetSumType
  <2> QED BY <1>2, <2>2, <2>3
<1>3. \A s \in SUBSET S : s \in T
  <2> HIDE DEF T
  <2> QED BY <1>1, <1>2, InductionOverSubsets
<1> QED BY <1>3

LEMMA SetSumCong ==
    ASSUME NEW S, IsFiniteSet(S), NEW v, NEW w,
           \A x \in S : v[x] \in Int /\ w[x] = v[x]
    PROVE  SetSum(w, S) = SetSum(v, S)
<1>1. SetSum(v, S) \in Int /\ SetSum(w, S) \in Int
  BY SetSumType
<1>2. SetSum(v, S) <= SetSum(w, S) /\ SetSum(w, S) <= SetSum(v, S)
  BY SetSumLE
<1> QED BY <1>1, <1>2

(* A part weighs no more than the whole. *)
LEMMA SetSumSubset ==
    ASSUME NEW S, IsFiniteSet(S), NEW w, \A x \in S : w[x] \in Nat, NEW R \in SUBSET S
    PROVE  SetSum(w, R) <= SetSum(w, S)
<1> DEFINE T == {s \in SUBSET S : SetSum(w, R \cap s) <= SetSum(w, s)}
<1>1. {} \in T
  <2>1. R \cap {} = {}
    OBVIOUS
  <2> QED BY <2>1, SetSumEmpty
<1>2. ASSUME NEW s \in SUBSET S, NEW x \in S \ s, s \in T PROVE s \cup {x} \in T
  <2>1. IsFiniteSet(s) /\ IsFiniteSet(R \cap s)
    BY FS_Subset
  <2>0. \A y \in s \cup {x} : w[y] \in Int
    OBVIOUS
  <2>2. SetSum(w, s \cup {x}) = w[x] + SetSum(w, s)
    BY <1>2, <2>0, <2>1, SetSumAdd
  <2>3. SetSum(w, s) \in Int /\ SetSum(w, R \cap s) \in Int /\ w[x] \in Nat
    BY <2>0, <2>1, SetSumType
  <2>4. CASE x \in R
    <3>1. R \cap (s \cup {x}) = (R \cap s) \cup {x}
      BY <2>4
    <3>2. SetSum(w, (R \cap s) \cup {x}) = w[x] + SetSum(w, R \cap s)
      BY <1>2, <2>0, <2>1, SetSumAdd
    <3>3. SetSum(w, R \cap s) <= SetSum(w, s) /\ s \cup {x} \in SUBSET S
      BY <1>2
    <3>4. SetSum(w, R \cap (s \cup {x})) = w[x] + SetSum(w, R \cap s)
      BY <3>1, <3>2, Zenon
    <3>5. SetSum(w, R \cap (s \cup {x})) <= SetSum(w, s \cup {x})
      BY <2>2, <2>3, <3>3, <3>4
    <3> QED BY <3>3, <3>5
  <2>5. CASE x \notin R
    <3>1. R \cap (s \cup {x}) = R \cap s
      BY <2>5
    <3>2. SetSum(w, R \cap s) <= SetSum(w, s) /\ s \cup {x} \in SUBSET S
      BY <1>2
    <3>3. SetSum(w, R \cap (s \cup {x})) <= SetSum(w, s \cup {x})
      BY <2>2, <2>3, <3>1, <3>2
    <3> QED BY <3>2, <3>3
  <2> QED BY <2>4, <2>5
<1>3. \A s \in SUBSET S : s \in T
  <2> HIDE DEF T
  <2> QED BY <1>1, <1>2, InductionOverSubsets
<1>4. R \cap S = R
  OBVIOUS
<1> QED BY <1>3, <1>4

(* One term replaced. *)
LEMMA SetSumUpdate ==
    ASSUME NEW S, IsFiniteSet(S), NEW v, NEW w, \A x \in S : v[x] \in Int /\ w[x] \in Int,
           NEW y \in S, \A x \in S \ {y} : w[x] = v[x]
    PROVE  SetSum(w, S) = SetSum(v, S) + w[y] - v[y]
<1>1. IsFiniteSet(S \ {y})
  BY FS_Subset
<1>2. SetSum(v, S) = v[y] + SetSum(v, S \ {y}) /\ SetSum(w, S) = w[y] + SetSum(w, S \ {y})
  BY SetSumRemove
<1>3. \A x \in S \ {y} : v[x] \in Int /\ w[x] = v[x]
  OBVIOUS
<1>4. SetSum(w, S \ {y}) = SetSum(v, S \ {y})
  BY <1>1, <1>3, SetSumCong
<1>5. SetSum(v, S \ {y}) \in Int
  BY <1>1, SetSumType
<1> QED BY <1>2, <1>4, <1>5

(* A sum of sums. *)
LEMMA SetSumPlus ==
    ASSUME NEW S, IsFiniteSet(S), NEW u, NEW v, NEW w,
           \A x \in S : u[x] \in Int /\ v[x] \in Int /\ w[x] = u[x] + v[x]
    PROVE  SetSum(w, S) = SetSum(u, S) + SetSum(v, S)
<1> DEFINE T == {s \in SUBSET S : SetSum(w, s) = SetSum(u, s) + SetSum(v, s)}
<1>1. {} \in T
  BY SetSumEmpty
<1>2. ASSUME NEW s \in SUBSET S, NEW x \in S \ s, s \in T PROVE s \cup {x} \in T
  <2>1. IsFiniteSet(s)
    BY FS_Subset
  <2>2. \A y \in s \cup {x} : u[y] \in Int /\ v[y] \in Int /\ w[y] \in Int
    BY <1>2
  <2>3. /\ SetSum(u, s \cup {x}) = u[x] + SetSum(u, s)
        /\ SetSum(v, s \cup {x}) = v[x] + SetSum(v, s)
        /\ SetSum(w, s \cup {x}) = w[x] + SetSum(w, s)
    BY <1>2, <2>1, <2>2, SetSumAdd
  <2>4. SetSum(u, s) \in Int /\ SetSum(v, s) \in Int
    BY <2>1, <2>2, SetSumType
  <2> QED BY <1>2, <2>3, <2>4
<1>3. \A s \in SUBSET S : s \in T
  <2> HIDE DEF T
  <2> QED BY <1>1, <1>2, InductionOverSubsets
<1> QED BY <1>3

(* What weighs nothing may be left out. *)
LEMMA SetSumRest ==
    ASSUME NEW S, IsFiniteSet(S), NEW R \in SUBSET S, NEW w, \A x \in S : w[x] \in Int,
           \A x \in S \ R : w[x] = 0
    PROVE  SetSum(w, S) = SetSum(w, R)
<1> DEFINE T == {s \in SUBSET S : SetSum(w, s) = SetSum(w, R \cap s)}
<1>1. {} \in T
  <2>1. R \cap {} = {}
    OBVIOUS
  <2> QED BY <2>1, SetSumEmpty
<1>2. ASSUME NEW s \in SUBSET S, NEW x \in S \ s, s \in T PROVE s \cup {x} \in T
  <2>1. IsFiniteSet(s) /\ IsFiniteSet(R \cap s)
    BY FS_Subset
  <2>2. SetSum(w, s \cup {x}) = w[x] + SetSum(w, s) /\ s \cup {x} \in SUBSET S
    BY <1>2, <2>1, SetSumAdd
  <2>3. SetSum(w, s) \in Int /\ SetSum(w, s) = SetSum(w, R \cap s)
    BY <1>2, <2>1, SetSumType
  <2>4. CASE x \in R
    <3>1. R \cap (s \cup {x}) = (R \cap s) \cup {x}
      BY <2>4
    <3>2. SetSum(w, (R \cap s) \cup {x}) = w[x] + SetSum(w, R \cap s)
      BY <1>2, <2>1, SetSumAdd
    <3>3. SetSum(w, R \cap (s \cup {x})) = w[x] + SetSum(w, R \cap s)
      BY <3>1, <3>2, Zenon
    <3> QED BY <2>2, <2>3, <3>3
  <2>5. CASE x \notin R
    <3>1. R \cap (s \cup {x}) = R \cap s /\ w[x] = 0
      BY <2>5
    <3>2. SetSum(w, R \cap (s \cup {x})) = SetSum(w, R \cap s)
      BY <3>1, Zenon
    <3> QED BY <2>2, <2>3, <3>1, <3>2
  <2> QED BY <2>4, <2>5
<1>3. \A s \in SUBSET S : s \in T
  <2> HIDE DEF T
  <2> QED BY <1>1, <1>2, InductionOverSubsets
<1>4. R \cap S = R
  OBVIOUS
<1> QED BY <1>3, <1>4

(* The same for every element. *)
LEMMA SetSumConstant ==
    ASSUME NEW S, IsFiniteSet(S), NEW c \in Int, NEW w, \A x \in S : w[x] = c
    PROVE  SetSum(w, S) = Cardinality(S) * c
<1> DEFINE T == {s \in SUBSET S : SetSum(w, s) = Cardinality(s) * c}
<1>1. {} \in T
  BY SetSumEmpty, FS_EmptySet
<1>2. ASSUME NEW s \in SUBSET S, NEW x \in S \ s, s \in T PROVE s \cup {x} \in T
  <2>1. IsFiniteSet(s) /\ Cardinality(s) \in Nat
    BY FS_Subset, FS_CardinalityType
  <2>2. \A y \in s \cup {x} : w[y] \in Int
    BY <1>2
  <2>3. SetSum(w, s \cup {x}) = c + SetSum(w, s)
    BY <1>2, <2>1, <2>2, SetSumAdd
  <2>4. Cardinality(s \cup {x}) = Cardinality(s) + 1
    BY <2>1, <1>2, FS_AddElement
  <2>5. SetSum(w, s) = Cardinality(s) * c
    BY <1>2
  <2>6. (Cardinality(s) + 1) * c = Cardinality(s) * c + c
    BY <2>1
  <2>7. Cardinality(s) * c \in Int
    BY <2>1
  <2> QED BY <2>3, <2>4, <2>5, <2>6, <2>7
<1>3. \A s \in SUBSET S : s \in T
  <2> HIDE DEF T
  <2> QED BY <1>1, <1>2, InductionOverSubsets
<1> QED BY <1>3

(* v[x] is no more than the part w[x] of D of c. *)
SharesOf(v, w, D, c, S) == \A x \in S : v[x] \in Nat /\ w[x] \in Nat /\ D * v[x] <= c * w[x]

(* Shares by weight, each rounded down, are no more than the whole.        *)
LEMMA SetSumShares ==
    ASSUME NEW S, IsFiniteSet(S), NEW D \in Nat, NEW c \in Nat, NEW v, NEW w,
           SharesOf(v, w, D, c, S)
    PROVE  D * SetSum(v, S) <= c * SetSum(w, S)
<1>0. \A x \in S : w[x] \in Nat /\ v[x] \in Nat /\ D * v[x] <= c * w[x]
  BY DEF SharesOf
<1> DEFINE T == {s \in SUBSET S : D * SetSum(v, s) <= c * SetSum(w, s)}
<1>1. {} \in T
  BY SetSumEmpty
<1>2. ASSUME NEW s \in SUBSET S, NEW x \in S \ s, s \in T PROVE s \cup {x} \in T
  <2>1. IsFiniteSet(s)
    BY FS_Subset
  <2>2. \A y \in s \cup {x} : w[y] \in Int /\ v[y] \in Int
    BY <1>0, <1>2
  <2>3. SetSum(v, s \cup {x}) = v[x] + SetSum(v, s) /\ SetSum(w, s \cup {x}) = w[x] + SetSum(w, s)
    BY <1>2, <2>1, <2>2, SetSumAdd
  <2>4. SetSum(v, s) \in Int /\ SetSum(w, s) \in Int /\ v[x] \in Int /\ w[x] \in Int
    BY <2>1, <2>2, SetSumType
  <2>5. /\ D * (v[x] + SetSum(v, s)) = D * v[x] + D * SetSum(v, s)
        /\ c * (w[x] + SetSum(w, s)) = c * w[x] + c * SetSum(w, s)
    BY <2>4
  <2>6. D * v[x] <= c * w[x] /\ D * SetSum(v, s) <= c * SetSum(w, s)
    BY <1>0, <1>2
  <2>7. /\ D * v[x] \in Int /\ D * SetSum(v, s) \in Int
        /\ c * w[x] \in Int /\ c * SetSum(w, s) \in Int
    BY <2>4
  <2>8. D * v[x] + D * SetSum(v, s) <= c * w[x] + c * SetSum(w, s)
    BY <2>6, <2>7
  <2>9. D * SetSum(v, s \cup {x}) <= c * SetSum(w, s \cup {x})
    BY <2>3, <2>5, <2>8
  <2> QED BY <2>9
<1>3. \A s \in SUBSET S : s \in T
  <2> HIDE DEF T
  <2> QED BY <1>1, <1>2, InductionOverSubsets
<1> QED BY <1>3

(* The same of a part R of the elements; those outside have no share.      *)
LEMMA SetSumSharesOf ==
    ASSUME NEW S, IsFiniteSet(S), NEW R, IsFiniteSet(R), NEW D \in Nat, NEW c \in Nat, NEW v, NEW w,
           \A x \in R : w[x] \in Nat,
           \A x \in S \ R : v[x] = 0,
           SharesOf(v, w, D, c, S \cap R)
    PROVE  D * SetSum(v, S) <= c * SetSum(w, R)
<1> DEFINE I == S \cap R
<1>1. IsFiniteSet(I) /\ I \in SUBSET S /\ I \in SUBSET R /\ SharesOf(v, w, D, c, I)
  BY FS_Intersection
<1>0. \A x \in I : v[x] \in Nat /\ w[x] \in Nat
  BY <1>1 DEF SharesOf
<1>2. SetSum(v, S) = SetSum(v, I)
  <2>1. /\ \A x \in S : v[x] \in Int
        /\ \A x \in S \ I : v[x] = 0
    BY <1>0
  <2> HIDE DEF I
  <2> QED BY <1>1, <2>1, SetSumRest
<1>3. D * SetSum(v, I) <= c * SetSum(w, I)
  <2> HIDE DEF I
  <2> QED BY <1>1, SetSumShares
<1>4. SetSum(w, I) <= SetSum(w, R)
  <2> HIDE DEF I
  <2> QED BY <1>1, SetSumSubset
<1>5. SetSum(w, I) \in Int /\ SetSum(w, R) \in Int /\ SetSum(v, I) \in Int
  <2>1. /\ \A x \in I : w[x] \in Int /\ v[x] \in Int
        /\ \A x \in R : w[x] \in Int
    BY <1>0
  <2> HIDE DEF I
  <2> QED BY <1>1, <2>1, SetSumType
<1> HIDE DEF I
<1>6. c * SetSum(w, I) <= c * SetSum(w, R)
  BY <1>4, <1>5
<1>7. c * SetSum(w, I) \in Int /\ c * SetSum(w, R) \in Int /\ D * SetSum(v, I) \in Int
  BY <1>5
<1>8. D * SetSum(v, I) <= c * SetSum(w, R)
  BY <1>3, <1>6, <1>7
<1> QED BY <1>2, <1>8

(* A sum in another order: b lists the elements of S. *)
LEMMA SetSumReordered ==
    ASSUME NEW S, NEW T, IsFiniteSet(T), NEW b \in Bijection(T, S), NEW v, NEW w,
           \A t \in T : v[t] = w[b[t]] /\ v[t] \in Int
    PROVE  SetSum(v, T) = SetSum(w, S)
<1> DEFINE img(r) == {b[t] : t \in r}
           Q == {r \in SUBSET T : SetSum(v, r) = SetSum(w, img(r))}
<1>0. /\ b \in [T -> S] /\ img(T) = S
      /\ \A s, t \in T : b[s] = b[t] => s = t
      /\ \A x \in S : \E t \in T : b[t] = x
  <2>1. /\ b \in [T -> S] /\ \A s, t \in T : b[s] = b[t] => s = t
        /\ \A x \in S : \E t \in T : b[t] = x
    BY DEF Bijection, Injection, Surjection, IsInjective
  <2> QED BY <2>1
<1>1. {} \in Q
  <2>1. img({}) = {}
    OBVIOUS
  <2> QED BY <2>1, SetSumEmpty
<1>2. \A x \in S : w[x] \in Int
  BY <1>0
<1>3. IsFiniteSet(S)
  <2>1. ExistsBijection(T, S)
    BY DEF ExistsBijection
  <2> QED BY <2>1, FS_Bijection
<1>4. ASSUME NEW r \in SUBSET T, NEW t \in T \ r, r \in Q PROVE r \cup {t} \in Q
  <2>1. IsFiniteSet(r) /\ img(r) \in SUBSET S /\ b[t] \in S /\ b[t] \notin img(r)
    BY <1>0, FS_Subset
  <2>2. img(r \cup {t}) = img(r) \cup {b[t]}
    OBVIOUS
  <2>3. IsFiniteSet(img(r))
    BY <1>3, <2>1, FS_Subset
  <2>4. SetSum(v, r \cup {t}) = v[t] + SetSum(v, r)
    BY <1>4, <2>1, SetSumAdd
  <2>5. SetSum(w, img(r) \cup {b[t]}) = w[b[t]] + SetSum(w, img(r))
    <3> DEFINE I == img(r)
               y == b[t]
    <3>1. \A z \in I \cup {y} : w[z] \in Int
      BY <1>2, <2>1
    <3>2. IsFiniteSet(I) /\ y \notin I
      BY <2>1, <2>3
    <3> HIDE DEF I, y
    <3>3. SetSum(w, I \cup {y}) = w[y] + SetSum(w, I)
      BY <3>1, <3>2, SetSumAdd
    <3> QED BY <3>3 DEF I, y
  <2>6. SetSum(v, r) = SetSum(w, img(r)) /\ v[t] = w[b[t]]
    BY <1>4
  <2>7. SetSum(v, r \cup {t}) = SetSum(w, img(r \cup {t}))
    <3> HIDE DEF img
    <3> QED BY <2>2, <2>4, <2>5, <2>6
  <2> HIDE DEF img
  <2> QED BY <2>7
<1>5. \A r \in SUBSET T : r \in Q
  <2> HIDE DEF Q
  <2> QED BY <1>1, <1>4, InductionOverSubsets
<1>6. SetSum(v, T) = SetSum(w, img(T))
  BY <1>5
<1> QED BY <1>0, <1>6

(* The community modules' sum of a function's values. *)
LEMMA SumFunctionIs ==
    ASSUME NEW w, IsFiniteSet(DOMAIN w), \A x \in DOMAIN w : w[x] \in Int
    PROVE  SumFunction(w) = SetSum(w, DOMAIN w)
<1> DEFINE D == DOMAIN w
           Rhs(g) == [s \in SUBSET D |-> IF s = {} THEN 0 ELSE w[Chosen(s)] + g[s \ {Chosen(s)}]]
           f == CHOOSE iter : iter = Rhs(iter)
<1>1. SumFunction(w) = f[D]
  BY DEF SumFunction, SumFunctionOnSet, FoldFunctionOnSet, MapThenFoldSet, Chosen
<1> DEFINE Ok(c) == IsSetSums(c, w, D)
<1>2. PICK c : Ok(c)
  BY SetSumsExist
<1>3. c = Rhs(c)
  BY <1>2 DEF IsSetSums
<1>4. f = Rhs(f)
  <2> HIDE DEF Rhs
  <2> QED BY <1>3
<1> HIDE DEF f
<1>5. Ok(f)
  <2>1. /\ \A s \in SUBSET D : f[s] = IF s = {} THEN 0 ELSE w[Chosen(s)] + f[s \ {Chosen(s)}]
        /\ \A s \in SUBSET D : c[s] = IF s = {} THEN 0 ELSE w[Chosen(s)] + c[s \ {Chosen(s)}]
        /\ f = [s \in SUBSET D |-> f[s]] /\ c = [s \in SUBSET D |-> c[s]]
    BY <1>3, <1>4
  <2> HIDE DEF Rhs, D, Ok
  <2> DEFINE Bad == {s \in SUBSET D : f[s] # c[s]}
  <2>2. Bad = {}
    <3> SUFFICES ASSUME Bad # {} PROVE FALSE
      OBVIOUS
    <3>1. PICK m \in Bad : \A s \in Bad : s \subseteq m => s = m
      <4>1. Bad \in SUBSET (SUBSET D) /\ IsFiniteSet(D)
        BY DEF D
      <4> HIDE DEF Bad
      <4> QED BY <4>1, MinimalSubset
    <3>2. m # {} /\ Chosen(m) \in m
      BY <2>1, ChosenIn
    <3>3. m \ {Chosen(m)} \in SUBSET D /\ m \ {Chosen(m)} \notin Bad
      BY <3>1, <3>2
    <3>4. f[m \ {Chosen(m)}] = c[m \ {Chosen(m)}]
      BY <3>3
    <3> QED BY <2>1, <3>2, <3>4
  <2>3. f = c
    BY <2>1, <2>2
  <2> QED BY <1>2, <2>3
<1>6. SetSum(w, D) = f[D]
  BY <1>5, SetSumIs
<1> QED BY <1>1, <1>6
=============================================================================
