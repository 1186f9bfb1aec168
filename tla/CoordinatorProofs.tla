------------------------- MODULE CoordinatorProofs -------------------------
(***************************************************************************)
(* Two results about the coordinator.  The curves of Payouts pay out the   *)
(* pool, for a field of any size, any pool and any shares: a list sorted   *)
(* by rank is a bijection from the places to the entrants, so what is paid *)
(* is a sum over the entrants, and every share is a part of the pool       *)
(* rounded down.  And the root it posts is the root of the payout rows it  *)
(* keeps, for any number of operatives, winners, failures, restarts,       *)
(* pending transactions, withdrawals and scripts.                          *)
(***************************************************************************)
EXTENDS ContestSettlement, Payouts, SumsProofs, SequenceTheorems, TLAPS

(* A sorted list names every element of the set once. *)
LEMMA SortedLists ==
    ASSUME NEW S \in SUBSET Int, IsFiniteSet(S), NEW falls, NEW rises,
           \A i \in S : falls[i] \in Int /\ rises[i] \in Int
    PROVE  sorted(S, falls, rises) \in Bijection(1..Cardinality(S), S)
<1> DEFINE n == Cardinality(S)
           above(i) == {j \in S : before(j, i, falls, rises)}
           at == [i \in S |-> 1 + Cardinality(above(i))]
           ranked == {<<1 + Cardinality(above(i)), i>> : i \in S}
           list == sorted(S, falls, rises)
<1>1. n \in Nat /\ \A i \in S : IsFiniteSet(above(i)) /\ Cardinality(above(i)) \in Nat
  <2>1. \A i \in S : above(i) \in SUBSET S
    OBVIOUS
  <2> HIDE DEF above
  <2> QED BY <2>1, FS_Subset, FS_CardinalityType
<1>2. ASSUME NEW i \in S PROVE Cardinality(above(i)) < n
  <2>1. i \notin above(i) /\ above(i) \in SUBSET S
    BY DEF before
  <2>2. Cardinality(above(i)) <= n /\ Cardinality(above(i)) # n
    <3> HIDE DEF above
    <3> QED BY <2>1, FS_Subset
  <2> HIDE DEF above, n
  <2> QED BY <1>1, <2>2
<1>3. ASSUME NEW i \in S, NEW j \in S, before(i, j, falls, rises)
      PROVE  Cardinality(above(i)) < Cardinality(above(j))
  <2>0. /\ i \in Int /\ j \in Int /\ falls[i] \in Int /\ falls[j] \in Int
        /\ rises[i] \in Int /\ rises[j] \in Int
    OBVIOUS
  <2>1. i \in above(j) /\ i \notin above(i) /\ above(i) \in SUBSET above(j)
    <3>1. i \in above(j) /\ i \notin above(i)
      BY <1>3, <2>0 DEF before
    <3>2. ASSUME NEW k \in S, before(k, i, falls, rises) PROVE before(k, j, falls, rises)
      <4>1. k \in Int /\ falls[k] \in Int /\ rises[k] \in Int
        OBVIOUS
      <4> QED BY <1>3, <2>0, <3>2, <4>1 DEF before
    <3> QED BY <3>1, <3>2
  <2>2. Cardinality(above(i)) <= Cardinality(above(j)) /\ Cardinality(above(i)) # Cardinality(above(j))
    <3> HIDE DEF above
    <3> QED BY <1>1, <2>1, FS_Subset
  <2> HIDE DEF above
  <2> QED BY <1>1, <2>2
<1>4. \A i, j \in S : i # j => before(i, j, falls, rises) \/ before(j, i, falls, rises)
  BY DEF before
<1>5. /\ at \in [S -> 1..n]
      /\ \A i, j \in S : at[i] = at[j] => i = j
  <2>1. \A i \in S : 1 + Cardinality(above(i)) \in 1..n
    <3> HIDE DEF above, n
    <3> QED BY <1>1, <1>2
  <2>2. \A i, j \in S : i # j => at[i] # at[j]
    <3> SUFFICES ASSUME NEW i \in S, NEW j \in S, i # j PROVE at[i] # at[j]
      OBVIOUS
    <3>1. at[i] = 1 + Cardinality(above(i)) /\ at[j] = 1 + Cardinality(above(j))
      OBVIOUS
    <3>2. Cardinality(above(i)) \in Nat /\ Cardinality(above(j)) \in Nat
      BY <1>1
    <3>3. Cardinality(above(i)) # Cardinality(above(j))
      <4> HIDE DEF above
      <4> QED BY <1>3, <1>4, <3>2
    <3> HIDE DEF above, at
    <3> QED BY <3>1, <3>2, <3>3
  <2> HIDE DEF above, n
  <2> QED BY <2>1, <2>2
<1>6. \A k \in 1..n : \E i \in S : at[i] = k
  <2>1. at \in Injection(S, 1..n)
    <3> HIDE DEF at, n
    <3> QED BY <1>5 DEF Injection, IsInjective
  <2>2. IsFiniteSet(1..n) /\ Cardinality(1..n) = n
    <3> HIDE DEF n
    <3> QED BY <1>1, FS_Interval
  <2>3. at \in Surjection(S, 1..n)
    <3> HIDE DEF at
    <3> QED BY <2>1, <2>2, FS_Injection
  <2> HIDE DEF at
  <2> QED BY <2>3 DEF Surjection
<1>7. /\ DOMAIN list = 1..n
      /\ \A k \in 1..n : list[k] \in S /\ at[list[k]] = k
  <2>1. list = [k \in 1..n |-> (CHOOSE r \in ranked : r[1] = k)[2]]
    BY DEF sorted
  <2>2. ASSUME NEW k \in 1..n
        PROVE  (CHOOSE r \in ranked : r[1] = k)[2] \in S /\ at[(CHOOSE r \in ranked : r[1] = k)[2]] = k
    <3>1. PICK i \in S : at[i] = k
      BY <1>6
    <3>2. \A r \in ranked : r[2] \in S /\ at[r[2]] = r[1]
      <4> HIDE DEF above
      <4> QED OBVIOUS
    <3>3. \E r \in ranked : r[1] = k
      <4>1. <<at[i], i>> \in ranked
        <5> HIDE DEF above
        <5> QED OBVIOUS
      <4> HIDE DEF ranked, at
      <4> QED BY <3>1, <4>1
    <3> HIDE DEF ranked, at
    <3> QED BY <3>2, <3>3
  <2> HIDE DEF ranked, at, list
  <2> QED BY <2>1, <2>2
<1>8. ASSUME NEW i \in S PROVE at[i] \in 1..n /\ list[at[i]] = i
  <2> HIDE DEF at, list, n
  <2> QED BY <1>5, <1>7
<1> HIDE DEF at, list
<1>9. list \in [1..n -> S]
  <2>1. list = [k \in 1..n |-> list[k]]
    BY DEF list, sorted
  <2> QED BY <1>7, <2>1
<1>10. list \in Bijection(1..n, S)
  <2> HIDE DEF n
  <2>1. \A k, l \in 1..n : list[k] = list[l] => k = l
    BY <1>7
  <2>2. \A i \in S : \E k \in 1..n : list[k] = i
    BY <1>8
  <2> QED BY <1>9, <2>1, <2>2 DEF Bijection, Injection, Surjection, IsInjective
<1> QED BY <1>10 DEF list

(* The sum of a function is the sum over its domain. *)
LEMMA TotalIs ==
    ASSUME NEW f, IsFiniteSet(DOMAIN f), \A x \in DOMAIN f : f[x] \in Int
    PROVE  total(f) = SetSum(f, DOMAIN f)
  BY SumFunctionIs DEF total

(* Places are finite. *)
LEMMA UpToIsFinite == \A n \in Nat : IsFiniteSet(1..n) /\ Cardinality(1..n) = n
  BY FS_Interval

(* The amounts of a payout list, and what the list must divide. *)
AmountsOf(p) == [k \in DOMAIN p |-> p[k].amount]
Divides(p, low, high) ==
    p # << >> => /\ \A k \in DOMAIN p : p[k].amount \in Nat
                 /\ total(AmountsOf(p)) \in Int
                 /\ low <= total(AmountsOf(p)) /\ total(AmountsOf(p)) <= high

(* The first entrant takes what the divisions dropped. *)
LEMMA ResidualFits ==
    ASSUME NEW n \in Nat \ {0}, NEW f \in [1..n -> Nat], NEW c \in Nat, SetSum(f, 1..n) <= c
    PROVE  /\ withResidual(f, c) \in [1..n -> Nat]
           /\ SetSum(withResidual(f, c), 1..n) = c
<1> DEFINE g == [f EXCEPT ![1] = f[1] + c - SetSum(f, 1..n)]
<1>1. IsFiniteSet(1..n) /\ 1 \in 1..n /\ \A k \in 1..n : f[k] \in Int
  BY FS_Interval
<1>2. withResidual(f, c) = g
  BY <1>1, TotalIs DEF withResidual
<1>3. SetSum(f, 1..n) \in Int
  BY <1>1, SetSumType
<1>4. f[1] + c - SetSum(f, 1..n) \in Nat
  BY <1>1, <1>3
<1>5. g \in [1..n -> Nat] /\ g[1] = f[1] + c - SetSum(f, 1..n) /\ \A k \in (1..n) \ {1} : g[k] = f[k]
  BY <1>1, <1>4
<1> HIDE DEF g
<1>6. SetSum(g, 1..n) = SetSum(f, 1..n) + g[1] - f[1]
  <2>1. \A k \in 1..n : f[k] \in Int /\ g[k] \in Int
    BY <1>1, <1>5
  <2> QED BY <1>1, <1>5, <2>1, SetSumUpdate
<1>7. SetSum(g, 1..n) = c
  BY <1>1, <1>3, <1>5, <1>6
<1> QED BY <1>2, <1>5, <1>7

(* A payout list that names every element of S once pays what S is due. *)
LEMMA ListPays ==
    ASSUME NEW S, IsFiniteSet(S), NEW w, \A i \in S : w[i] \in Nat,
           NEW order \in Bijection(1..Cardinality(S), S),
           NEW p, DOMAIN p = 1..Cardinality(S),
           \A k \in 1..Cardinality(S) : p[k].amount = w[order[k]],
           NEW low \in Int, NEW high \in Int, low <= SetSum(w, S), SetSum(w, S) <= high
    PROVE  Divides(p, low, high)
<1> DEFINE n == Cardinality(S)
           a == AmountsOf(p)
<1>1. n \in Nat /\ IsFiniteSet(1..n)
  BY FS_CardinalityType, FS_Interval
<1>2. \A k \in 1..n : order[k] \in S
  BY DEF Bijection, Injection
<1>3. DOMAIN a = 1..n /\ \A k \in 1..n : a[k] = w[order[k]] /\ a[k] \in Nat
  BY <1>2 DEF AmountsOf
<1> HIDE DEF a, n
<1>4. SetSum(a, 1..n) = SetSum(w, S)
  <2>1. \A k \in 1..n : a[k] = w[order[k]] /\ a[k] \in Int
    BY <1>3
  <2>2. order \in Bijection(1..n, S)
    BY DEF n
  <2> QED BY <1>1, <2>1, <2>2, SetSumReordered
<1>5. total(a) = SetSum(a, 1..n) /\ SetSum(a, 1..n) \in Int
  <2>1. \A k \in 1..n : a[k] \in Int
    BY <1>3
  <2> QED BY <1>1, <1>3, <2>1, TotalIs, SetSumType
<1>6. \A k \in DOMAIN p : p[k].amount \in Nat
  BY <1>2 DEF n
<1> QED BY <1>4, <1>5, <1>6 DEF Divides, a
-----------------------------------------------------------------------------
(* The curves.  Scouts and solvers. *)
LEMMA LegacyCurve ==
    ASSUME NEW results, NEW claimable \in Nat
    PROVE  Divides(computePayouts(results, claimable), claimable, claimable)
<1> DEFINE scored == rankResults({i \in DOMAIN results : results[i].score > 0}, results)
           top == (claimable * 60) \div 100
           one == <<leaf(scored[1], claimable)>>
           two == <<leaf(scored[1], top), leaf(scored[2], claimable - top)>>
<1>1. \/ computePayouts(results, claimable) = << >>
      \/ computePayouts(results, claimable) = one
      \/ computePayouts(results, claimable) = two
  <2> DEFINE l == Len(scored)
  <2>1. computePayouts(results, claimable) = CASE l = 0 -> << >> [] l = 1 -> one [] OTHER -> two
    BY DEF computePayouts
  <2> HIDE DEF l, one, two, scored, top
  <2> QED BY <2>1
<1>2. top \in Nat /\ claimable - top \in Nat
  OBVIOUS
<1> HIDE DEF top, scored
<1>3. Divides(<< >>, claimable, claimable)
  BY DEF Divides
<1>4. Divides(one, claimable, claimable)
  <2> DEFINE a == AmountsOf(one)
  <2>1. DOMAIN one = 1..1 /\ one[1].amount = claimable /\ DOMAIN a = 1..1 /\ a[1] = claimable
    BY DEF AmountsOf, leaf
  <2> HIDE DEF one, a
  <2>2. total(a) = a[1] + SetSum(a, {})
    <3>1. IsFiniteSet(1..1) /\ \A k \in 1..1 : a[k] \in Int
      <4>1. IsFiniteSet(1..1)
        BY UpToIsFinite, 1 \in Nat, Zenon
      <4>2. \A k \in 1..1 : a[k] \in Int
        BY <2>1
      <4> QED BY <4>1, <4>2
    <3>2. total(a) = SetSum(a, 1..1)
      BY <2>1, <3>1, TotalIs
    <3>3. SetSum(a, 1..1) = a[1] + SetSum(a, (1..1) \ {1})
      BY <3>1, SetSumRemove
    <3>4. (1..1) \ {1} = {}
      OBVIOUS
    <3> QED BY <3>2, <3>3, <3>4, Zenon
  <2>3. total(a) = claimable
    BY <2>1, <2>2, SetSumEmpty
  <2> QED BY <2>1, <2>3 DEF Divides, a
<1>5. Divides(two, claimable, claimable)
  <2> DEFINE a == AmountsOf(two)
  <2>1. /\ DOMAIN two = 1..2 /\ two[1].amount = top /\ two[2].amount = claimable - top
        /\ DOMAIN a = 1..2 /\ a[1] = top /\ a[2] = claimable - top
    BY DEF AmountsOf, leaf
  <2> HIDE DEF two, a
  <2>2. total(a) = a[2] + (a[1] + SetSum(a, {}))
    <3>1. IsFiniteSet(1..2) /\ IsFiniteSet(1..1) /\ \A k \in 1..2 : a[k] \in Int
      <4>1. IsFiniteSet(1..1) /\ IsFiniteSet(1..2)
        BY UpToIsFinite, 1 \in Nat, 2 \in Nat, Zenon
      <4>2. \A k \in 1..2 : a[k] \in Int
        <5>1. \A k \in 1..2 : k = 1 \/ k = 2
          OBVIOUS
        <5> QED BY <1>2, <2>1, <5>1
      <4> QED BY <4>1, <4>2
    <3>2. total(a) = SetSum(a, 1..2)
      BY <2>1, <3>1, TotalIs
    <3>3. SetSum(a, 1..2) = a[2] + SetSum(a, (1..2) \ {2})
      BY <3>1, SetSumRemove
    <3>4. SetSum(a, 1..1) = a[1] + SetSum(a, (1..1) \ {1})
      <4>1. \A k \in 1..1 : a[k] \in Int
        BY <3>1
      <4> QED BY <3>1, <4>1, SetSumRemove
    <3>5. (1..2) \ {2} = 1..1 /\ (1..1) \ {1} = {}
      OBVIOUS
    <3> QED BY <3>2, <3>3, <3>4, <3>5, Zenon
  <2>3. total(a) = claimable
    BY <1>2, <2>1, <2>2, SetSumEmpty
  <2>4. \A k \in DOMAIN two : two[k].amount \in Nat
    BY <1>2, <2>1
  <2> QED BY <2>3, <2>4 DEF Divides, a
<1> HIDE DEF one, two
<1> QED BY <1>1, <1>3, <1>4, <1>5

(* What a division drops is less than the divisor. *)
LEMMA Quotient ==
    ASSUME NEW a \in Nat, NEW b \in Nat \ {0}
    PROVE  a \div b \in Nat /\ b * (a \div b) <= a /\ a < b * (a \div b) + b
  OBVIOUS

(* A share x of D in c, rounded down. *)
LEMMA ShareOf ==
    ASSUME NEW c \in Nat, NEW x \in Nat, NEW D \in Nat \ {0}
    PROVE  (c * x) \div D \in Nat /\ D * ((c * x) \div D) <= c * x
<1>1. c * x \in Nat
  OBVIOUS
<1> DEFINE a == c * x
<1> HIDE DEF a
<1>2. a \div D \in Nat /\ D * (a \div D) <= a
  BY <1>1, Quotient DEF a
<1> QED BY <1>2 DEF a

(* An equal share for each of a group. *)
LEMMA GroupsShare ==
    ASSUME NEW S, IsFiniteSet(S), NEW group \in SUBSET S, group # {}, NEW pool \in Nat,
           NEW flat, \A k \in S : flat[k] = IF k \in group THEN pool \div Cardinality(group) ELSE 0
    PROVE  /\ \A k \in S : flat[k] \in Nat
           /\ SetSum(flat, S) \in Int /\ SetSum(flat, S) <= pool
           /\ pool - Cardinality(group) < SetSum(flat, S)
<1> DEFINE g == Cardinality(group)
           each == pool \div g
<1>1. g \in Nat \ {0} /\ IsFiniteSet(group)
  BY FS_Subset, FS_CardinalityType, FS_EmptySet
<1> HIDE DEF g
<1>2. each \in Nat /\ g * each <= pool /\ pool < g * each + g
  BY <1>1, Quotient
<1>3. \A k \in S : flat[k] = IF k \in group THEN each ELSE 0
  BY DEF g
<1> HIDE DEF each
<1>4. /\ \A k \in S : flat[k] \in Nat
      /\ \A k \in S : flat[k] \in Int
      /\ \A k \in S \ group : flat[k] = 0
      /\ \A k \in group : flat[k] = each
  BY <1>2, <1>3
<1>5. SetSum(flat, S) = SetSum(flat, group)
  BY <1>4, SetSumRest
<1>6. SetSum(flat, group) = g * each
  BY <1>1, <1>2, <1>4, SetSumConstant DEF g
<1>7. g * each \in Int
  BY <1>1, <1>2
<1>8. SetSum(flat, S) \in Int /\ SetSum(flat, S) <= pool /\ pool - g < SetSum(flat, S)
  BY <1>1, <1>2, <1>5, <1>6, <1>7
<1> QED BY <1>4, <1>8 DEF g

(* What b basis points of c allow. *)
Within(x, b, c) == 10000 * x <= c * b

(* Shares of which the parts fit into their parts of the pool. *)
LEMMA PartsFit ==
    ASSUME NEW claimable \in Nat, NEW b \in Int, NEW rest \in Nat, b + rest = 10000,
           NEW pool \in Nat, Within(pool, rest, claimable),
           NEW w \in Int, NEW f \in Int, Within(w, b, claimable), f <= pool
    PROVE  w + f <= claimable
<1>1. claimable * b + claimable * rest = claimable * 10000
  <2>1. claimable * b + claimable * rest = claimable * (b + rest)
    OBVIOUS
  <2> QED BY <2>1
<1>2. claimable * b \in Int /\ claimable * rest \in Int
  OBVIOUS
<1> QED BY <1>1, <1>2 DEF Within

(* The same for every entrant at once. *)
LEMMA SharesFit ==
    ASSUME NEW S, IsFiniteSet(S), NEW claimable \in Nat, NEW b \in Int, NEW rest \in Nat,
           b + rest = 10000, NEW pool \in Nat, Within(pool, rest, claimable),
           NEW won, \A k \in S : won[k] \in Nat, Within(SetSum(won, S), b, claimable),
           NEW flat, \A k \in S : flat[k] \in Nat, SetSum(flat, S) <= pool,
           NEW share, \A k \in S : share[k] = won[k] + flat[k]
    PROVE  (\A k \in S : share[k] \in Nat) /\ SetSum(share, S) <= claimable
<1>1. /\ \A k \in S : won[k] \in Int /\ flat[k] \in Int
      /\ \A k \in S : share[k] \in Nat
      /\ \A k \in S : won[k] \in Int /\ flat[k] \in Int /\ share[k] = won[k] + flat[k]
  OBVIOUS
<1>2. /\ SetSum(share, S) = SetSum(won, S) + SetSum(flat, S)
      /\ SetSum(won, S) \in Int /\ SetSum(flat, S) \in Int
  <2>1. SetSum(share, S) = SetSum(won, S) + SetSum(flat, S)
    BY <1>1, SetSumPlus
  <2>2. SetSum(won, S) \in Int /\ SetSum(flat, S) \in Int
    BY <1>1, SetSumType
  <2> QED BY <2>1, <2>2
<1>3. SetSum(won, S) + SetSum(flat, S) <= claimable
  BY <1>2, PartsFit
<1>4. SetSum(share, S) <= claimable
  BY <1>2, <1>3
<1> QED BY <1>1, <1>4

(* The results of a field of m entrants. *)
IsField(results, m) == DOMAIN results = 1..m /\ \A i \in 1..m : results[i].score \in Nat

(* Basis points for each winner slot and for the rest. *)
IsSplit(spec) ==
    \E s \in Nat : /\ spec.winnersBps \in [1..s -> Nat] /\ spec.restSharedBps \in Nat
                   /\ SetSum(spec.winnersBps, 1..s) + spec.restSharedBps = 10000

(* Every entrant has a rank. *)
LEMMA RanksEveryone ==
    ASSUME NEW m \in Nat, NEW results, IsField(results, m)
    PROVE  /\ rankResults(DOMAIN results, results) \in [1..m -> 1..m]
           /\ Len(rankResults(DOMAIN results, results)) = m
<1> DEFINE falls == [i \in DOMAIN results |-> results[i].score]
           rises == Places(results)
<1>1. DOMAIN results = 1..m /\ IsFiniteSet(1..m) /\ Cardinality(1..m) = m /\ 1..m \in SUBSET Int
  BY UpToIsFinite DEF IsField
<1>2. \A i \in 1..m : falls[i] \in Int /\ rises[i] \in Int
  BY <1>1 DEF IsField, Places
<1>3. rankResults(DOMAIN results, results) = sorted(1..m, falls, rises)
  BY <1>1 DEF rankResults
<1> HIDE DEF falls, rises
<1>4. sorted(1..m, falls, rises) \in Bijection(1..m, 1..m)
  BY <1>1, <1>2, SortedLists
<1>5. sorted(1..m, falls, rises) \in [1..m -> 1..m]
  BY <1>4 DEF Bijection, Injection
<1>6. Len(sorted(1..m, falls, rises)) = m
  BY <1>5
<1> QED BY <1>3, <1>5, <1>6

(* Creator's presets. *)
LEMMA PresetCurve ==
    ASSUME NEW m \in Nat, NEW results, IsField(results, m), NEW claimable \in Nat,
           NEW spec, IsSplit(spec)
    PROVE  Divides(computePresetPayouts(spec, results, claimable), claimable, claimable)
<1>0. PICK s \in Nat : /\ spec.winnersBps \in [1..s -> Nat] /\ spec.restSharedBps \in Nat
                       /\ SetSum(spec.winnersBps, 1..s) + spec.restSharedBps = 10000
  BY DEF IsSplit
<1> DEFINE ops    == rankResults(DOMAIN results, results)
           slots  == Len(spec.winnersBps)
           below  == slots + 1 .. Len(ops)
           group  == IF below # {} THEN below ELSE DOMAIN ops
           each   == ((claimable * spec.restSharedBps) \div 10000) \div Cardinality(group)
           won    == [k \in DOMAIN ops |->
                         IF k <= slots THEN (claimable * spec.winnersBps[k]) \div 10000 ELSE 0]
           share  == [k \in DOMAIN ops |-> won[k] + (IF k \in group THEN each ELSE 0)]
           paid   == withResidual(share, claimable)
           added  == [k \in DOMAIN ops |-> k + (CASE won[k] > 0   -> 0
                                                [] share[k] > 0 -> Len(ops)
                                                [] OTHER        -> 2 * Len(ops))]
           S      == {k \in DOMAIN ops : paid[k] > 0}
           order  == sorted(S, paid, added)
           list   == [p \in DOMAIN order |-> leaf(ops[order[p]], paid[order[p]])]
<1>1. computePresetPayouts(spec, results, claimable)
        = IF \A i \in DOMAIN results : results[i].score = 0 THEN << >> ELSE list
  BY DEF computePresetPayouts
<1> HIDE DEF list
<1>2. CASE m = 0
  <2>1. \A i \in DOMAIN results : results[i].score = 0
    BY <1>2 DEF IsField
  <2> QED BY <1>1, <2>1 DEF Divides
<1>3. CASE m # 0
  <2>1. ops \in [1..m -> 1..m] /\ Len(ops) = m /\ DOMAIN ops = 1..m /\ slots = s /\ IsFiniteSet(1..m)
    <3> HIDE DEF below, group, each, won, share, paid, added, S, order
    <3>1. ops \in [1..m -> 1..m] /\ Len(ops) = m
      BY RanksEveryone
    <3>2. slots = s
      <4> HIDE DEF ops
      <4> QED BY <1>0
    <3> HIDE DEF ops, slots
    <3>3. DOMAIN ops = 1..m
      BY <3>1
    <3> QED BY <3>1, <3>2, <3>3, UpToIsFinite
  <2> HIDE DEF ops, slots
  <2>2. group \in SUBSET (1..m) /\ group # {}
    BY <1>3, <2>1
  <2> HIDE DEF group
  <2> DEFINE pool == (claimable * spec.restSharedBps) \div 10000
             flat == [k \in 1..m |-> IF k \in group THEN each ELSE 0]
             b    == SetSum(spec.winnersBps, 1..s)
             rest == spec.restSharedBps
  <2>3. /\ DOMAIN share = 1..m /\ share = [k \in 1..m |-> share[k]]
        /\ \A k \in 1..m : share[k] = won[k] + flat[k]
        /\ won = [k \in 1..m |-> IF k <= s THEN (claimable * spec.winnersBps[k]) \div 10000 ELSE 0]
    BY <2>1
  <2> HIDE DEF won, share
  <2>4. (\A k \in 1..m : won[k] \in Nat) /\ Within(SetSum(won, 1..m), b, claimable)
    <3> DEFINE bps == spec.winnersBps
               M == 1..m
               R == 1..s
               D == 10000
    <3>1. bps \in [1..s -> Nat]
      BY <1>0
    <3>2. ASSUME NEW k \in 1..m, k <= s
          PROVE  won[k] \in Nat /\ bps[k] \in Nat /\ 10000 * won[k] <= claimable * bps[k]
      <4>1. bps[k] \in Nat /\ won[k] = (claimable * bps[k]) \div 10000
        BY <2>3, <3>1, <3>2
      <4> HIDE DEF bps
      <4> QED BY <4>1, ShareOf
    <3>3. \A k \in 1..m : ~(k <= s) => won[k] = 0
      BY <2>3
    <3> HIDE DEF bps
    <3>4. D \in Nat /\ (\A k \in R : bps[k] \in Nat) /\ IsFiniteSet(M) /\ IsFiniteSet(R)
      BY <3>1, UpToIsFinite
    <3>5. (\A k \in M : won[k] \in Nat) /\ (\A k \in M \ R : won[k] = 0)
      BY <3>2, <3>3
    <3>6. SharesOf(won, bps, D, claimable, M \cap R)
      BY <3>2 DEF SharesOf
    <3> HIDE DEF M, R, D
    <3>7. D * SetSum(won, M) <= claimable * SetSum(bps, R)
      BY <3>4, <3>5, <3>6, SetSumSharesOf
    <3> QED BY <3>5, <3>7 DEF bps, M, R, D, Within
  <2>5. pool \in Nat /\ Within(pool, rest, claimable) /\ rest \in Nat
    <3> HIDE DEF each
    <3> QED BY <1>0, ShareOf DEF Within
  <2>6. (\A k \in 1..m : flat[k] \in Nat) /\ SetSum(flat, 1..m) <= pool
    <3>1. \A k \in 1..m : flat[k] = IF k \in group THEN pool \div Cardinality(group) ELSE 0
      OBVIOUS
    <3> DEFINE M == 1..m
    <3>2. /\ IsFiniteSet(M) /\ group \in SUBSET M /\ group # {} /\ pool \in Nat
          /\ \A k \in M : flat[k] = IF k \in group THEN pool \div Cardinality(group) ELSE 0
      BY <2>1, <2>2, <2>5, <3>1
    <3> HIDE DEF flat, pool, M
    <3>3. (\A k \in M : flat[k] \in Nat) /\ SetSum(flat, M) <= pool
      BY <3>2, GroupsShare
    <3> QED BY <3>3 DEF M
  <2>7. b \in Int /\ b + rest = 10000
    <3>1. IsFiniteSet(1..s) /\ \A k \in 1..s : spec.winnersBps[k] \in Int
      BY <1>0, UpToIsFinite
    <3> QED BY <1>0, <3>1, SetSumType
  <2> HIDE DEF flat, pool, b, rest, each
  <2>8. (\A k \in 1..m : share[k] \in Nat) /\ SetSum(share, 1..m) <= claimable
    <3> DEFINE M == 1..m
    <3>1. /\ IsFiniteSet(M) /\ \A k \in M : share[k] = won[k] + flat[k]
          /\ (\A k \in M : won[k] \in Nat) /\ Within(SetSum(won, M), b, claimable)
          /\ (\A k \in M : flat[k] \in Nat) /\ SetSum(flat, M) <= pool
      BY <2>1, <2>3, <2>4, <2>6
    <3> HIDE DEF M
    <3>2. (\A k \in M : share[k] \in Nat) /\ SetSum(share, M) <= claimable
      BY <2>5, <2>7, <3>1, SharesFit
    <3> QED BY <3>2 DEF M
  <2>9. share \in [1..m -> Nat]
    BY <2>3, <2>8
  <2>10. paid \in [1..m -> Nat] /\ SetSum(paid, 1..m) = claimable
    BY <1>3, <2>8, <2>9, ResidualFits
  <2> HIDE DEF paid
  <2>11. /\ S \in SUBSET (1..m) /\ IsFiniteSet(S) /\ S \in SUBSET Int
         /\ \A k \in S : paid[k] \in Nat /\ paid[k] \in Int /\ added[k] \in Int
    <3>1. S \in SUBSET (1..m)
      BY <2>1
    <3>2. \A k \in 1..m : paid[k] \in Nat /\ added[k] \in Int
      BY <2>1, <2>10
    <3>3. IsFiniteSet(S)
      <4> HIDE DEF S
      <4> QED BY <2>1, <3>1, FS_Subset
    <3> HIDE DEF S, added
    <3>4. S \in SUBSET Int
      BY <3>1
    <3>5. \A k \in S : paid[k] \in Nat /\ paid[k] \in Int /\ added[k] \in Int
      <4>1. \A k \in S : k \in 1..m
        BY <3>1
      <4> QED BY <3>2, <4>1
    <3> QED BY <3>1, <3>3, <3>4, <3>5
  <2>12. SetSum(paid, S) = claimable
    <3>1. /\ \A k \in 1..m : paid[k] \in Int
          /\ \A k \in (1..m) \ S : paid[k] = 0
      <4> HIDE DEF added, order
      <4>1. \A k \in 1..m : paid[k] \in Nat
        BY <2>10
      <4>2. \A k \in (1..m) \ S : ~(paid[k] > 0)
        BY <2>1
      <4> QED BY <4>1, <4>2
    <3> HIDE DEF S
    <3>2. SetSum(paid, 1..m) = SetSum(paid, S)
      BY <2>1, <2>11, <3>1, SetSumRest
    <3> QED BY <2>10, <3>2
  <2> HIDE DEF S, added
  <2>13. order \in Bijection(1..Cardinality(S), S)
    BY <2>11, SortedLists
  <2>14. DOMAIN order = 1..Cardinality(S)
    BY <2>13 DEF Bijection, Injection
  <2> HIDE DEF order
  <2>15. DOMAIN list = 1..Cardinality(S) /\ \A p \in 1..Cardinality(S) : list[p].amount = paid[order[p]]
    BY <2>14 DEF list, leaf
  <2>16. Divides(list, claimable, claimable)
    <3>1. claimable \in Int /\ claimable <= SetSum(paid, S) /\ SetSum(paid, S) <= claimable
      BY <2>12
    <3> QED BY <2>11, <2>13, <2>15, <3>1, ListPays
  <2>17. Divides(<< >>, claimable, claimable)
    BY DEF Divides
  <2> QED BY <1>1, <2>16, <2>17
<1> QED BY <1>2, <1>3

(* A list's sum grows by its last element. *)
LEMMA SumOfList ==
    ASSUME NEW n \in Nat, NEW m, m = n + 1, NEW w, \A k \in 1..m : w[k] \in Nat
    PROVE  SetSum(w, 1..m) = w[m] + SetSum(w, 1..n)
<1> DEFINE S == 1..n
<1>1. IsFiniteSet(S) /\ m \notin S /\ S \cup {m} = 1..m /\ \A k \in S \cup {m} : w[k] \in Int
  BY UpToIsFinite
<1> HIDE DEF S
<1>2. SetSum(w, S \cup {m}) = w[m] + SetSum(w, S)
  BY <1>1, SetSumAdd
<1> QED BY <1>1, <1>2 DEF S

(* An empty list's sum. *)
LEMMA NoSum == \A w : SetSum(w, 1..0) = 0
<1>1. 1..0 = {}
  OBVIOUS
<1> QED BY <1>1, SetSumEmpty

(* Shares that add up are a split. *)
LEMMA SplitIs ==
    ASSUME NEW s \in Nat, NEW w \in [1..s -> Nat], NEW rest \in Nat, SetSum(w, 1..s) + rest = 10000
    PROVE  IsSplit([winnersBps |-> w, restSharedBps |-> rest])
  BY DEF IsSplit

(* The sums of lists of up to five. *)
LEMMA ShortSums ==
    ASSUME NEW w
    PROVE  /\ w \in [1..1 -> Nat] => SetSum(w, 1..1) = w[1]
           /\ w \in [1..2 -> Nat] => SetSum(w, 1..2) = w[1] + w[2]
           /\ w \in [1..3 -> Nat] => SetSum(w, 1..3) = w[1] + w[2] + w[3]
           /\ w \in [1..5 -> Nat] => SetSum(w, 1..5) = w[1] + w[2] + w[3] + w[4] + w[5]
<1> DEFINE Adds(n, m) == (\A k \in 1..m : w[k] \in Nat) => SetSum(w, 1..m) = w[m] + SetSum(w, 1..n)
<1>1. Adds(0, 1) /\ Adds(1, 2) /\ Adds(2, 3) /\ Adds(3, 4) /\ Adds(4, 5)
  <2>1. ASSUME NEW n \in Nat, NEW m, m = n + 1 PROVE Adds(n, m)
    BY <2>1, SumOfList
  <2>2. 1 = 0 + 1 /\ 2 = 1 + 1 /\ 3 = 2 + 1 /\ 4 = 3 + 1 /\ 5 = 4 + 1
    OBVIOUS
  <2>3. 0 \in Nat /\ 1 \in Nat /\ 2 \in Nat /\ 3 \in Nat /\ 4 \in Nat
    OBVIOUS
  <2> HIDE DEF Adds
  <2> QED BY <2>1, <2>2, <2>3, Zenon
<1>2. SetSum(w, 1..0) = 0
  BY NoSum
<1>3. ASSUME w \in [1..1 -> Nat] PROVE SetSum(w, 1..1) = w[1]
  <2>1. w[1] \in Nat /\ \A k \in 1..1 : w[k] \in Nat
    BY <1>3
  <2> QED BY <1>1, <1>2, <2>1
<1>4. ASSUME w \in [1..2 -> Nat] PROVE SetSum(w, 1..2) = w[1] + w[2]
  <2>1. /\ w[1] \in Nat /\ w[2] \in Nat /\ \A k \in 1..2 : w[k] \in Nat
        /\ \A k \in 1..1 : w[k] \in Nat
    BY <1>4
  <2> QED BY <1>1, <1>2, <2>1
<1>5. ASSUME w \in [1..3 -> Nat] PROVE SetSum(w, 1..3) = w[1] + w[2] + w[3]
  <2>1. /\ w[1] \in Nat /\ w[2] \in Nat /\ w[3] \in Nat /\ \A k \in 1..3 : w[k] \in Nat
        /\ \A k \in 1..2 : w[k] \in Nat
        /\ \A k \in 1..1 : w[k] \in Nat
    BY <1>5
  <2> QED BY <1>1, <1>2, <2>1
<1>6. ASSUME w \in [1..5 -> Nat] PROVE SetSum(w, 1..5) = w[1] + w[2] + w[3] + w[4] + w[5]
  <2>1. /\ w[1] \in Nat /\ w[2] \in Nat /\ w[3] \in Nat /\ w[4] \in Nat /\ w[5] \in Nat
        /\ \A k \in 1..5 : w[k] \in Nat
        /\ \A k \in 1..4 : w[k] \in Nat
        /\ \A k \in 1..3 : w[k] \in Nat
        /\ \A k \in 1..2 : w[k] \in Nat
        /\ \A k \in 1..1 : w[k] \in Nat
    BY <1>6
  <2> QED BY <1>1, <1>2, <2>1
<1> QED BY <1>3, <1>4, <1>5, <1>6

(* Every preset shares out 10000 basis points. *)
LEMMA PresetsSplit ==
    /\ \A preset \in DOMAIN PAYOUT_PRESETS : IsSplit(PAYOUT_PRESETS[preset])
    /\ "custom" \notin DOMAIN PAYOUT_PRESETS /\ "standard" \notin DOMAIN PAYOUT_PRESETS
<1> DEFINE one == <<10000>>
           two == <<6000, 4000>>
           three == <<5000, 3000, 2000>>
           five == <<2000, 1200, 800, 600, 400>>
           none == << >>
<1>1. /\ one \in [1..1 -> Nat] /\ two \in [1..2 -> Nat]
      /\ three \in [1..3 -> Nat] /\ five \in [1..5 -> Nat]
      /\ none \in [1..0 -> Nat]
  OBVIOUS
<1>2. /\ SetSum(one, 1..1) = one[1] /\ SetSum(two, 1..2) = two[1] + two[2]
      /\ SetSum(three, 1..3) = three[1] + three[2] + three[3]
      /\ SetSum(five, 1..5) = five[1] + five[2] + five[3] + five[4] + five[5]
  <2> HIDE DEF one, two, three, five, none
  <2> QED BY <1>1, ShortSums
<1>3. /\ one[1] = 10000 /\ two[1] + two[2] = 10000 /\ three[1] + three[2] + three[3] = 10000
      /\ five[1] + five[2] + five[3] + five[4] + five[5] = 5000
  OBVIOUS
<1> HIDE DEF one, two, three, five, none
<1>4. /\ SetSum(one, 1..1) + 0 = 10000 /\ SetSum(two, 1..2) + 0 = 10000
      /\ SetSum(three, 1..3) + 0 = 10000 /\ SetSum(five, 1..5) + 5000 = 10000
      /\ SetSum(none, 1..0) + 10000 = 10000
  BY <1>2, <1>3, NoSum
<1>5. /\ IsSplit([winnersBps |-> one, restSharedBps |-> 0])
      /\ IsSplit([winnersBps |-> two, restSharedBps |-> 0])
      /\ IsSplit([winnersBps |-> three, restSharedBps |-> 0])
      /\ IsSplit([winnersBps |-> five, restSharedBps |-> 5000])
      /\ IsSplit([winnersBps |-> none, restSharedBps |-> 10000])
  <2>1. IsSplit([winnersBps |-> one, restSharedBps |-> 0])
    <3> DEFINE n == 1
               rest == 0
    <3>1. n \in Nat /\ rest \in Nat /\ one \in [1..n -> Nat] /\ SetSum(one, 1..n) + rest = 10000
      BY <1>1, <1>4
    <3> HIDE DEF n, rest
    <3>2. IsSplit([winnersBps |-> one, restSharedBps |-> rest])
      BY <3>1, SplitIs
    <3> QED BY <3>2 DEF rest
  <2>2. IsSplit([winnersBps |-> two, restSharedBps |-> 0])
    <3> DEFINE n == 2
               rest == 0
    <3>1. n \in Nat /\ rest \in Nat /\ two \in [1..n -> Nat] /\ SetSum(two, 1..n) + rest = 10000
      BY <1>1, <1>4
    <3> HIDE DEF n, rest
    <3>2. IsSplit([winnersBps |-> two, restSharedBps |-> rest])
      BY <3>1, SplitIs
    <3> QED BY <3>2 DEF rest
  <2>3. IsSplit([winnersBps |-> three, restSharedBps |-> 0])
    <3> DEFINE n == 3
               rest == 0
    <3>1. n \in Nat /\ rest \in Nat /\ three \in [1..n -> Nat] /\ SetSum(three, 1..n) + rest = 10000
      BY <1>1, <1>4
    <3> HIDE DEF n, rest
    <3>2. IsSplit([winnersBps |-> three, restSharedBps |-> rest])
      BY <3>1, SplitIs
    <3> QED BY <3>2 DEF rest
  <2>4. IsSplit([winnersBps |-> five, restSharedBps |-> 5000])
    <3> DEFINE n == 5
               rest == 5000
    <3>1. n \in Nat /\ rest \in Nat /\ five \in [1..n -> Nat] /\ SetSum(five, 1..n) + rest = 10000
      BY <1>1, <1>4
    <3> HIDE DEF n, rest
    <3>2. IsSplit([winnersBps |-> five, restSharedBps |-> rest])
      BY <3>1, SplitIs
    <3> QED BY <3>2 DEF rest
  <2>5. IsSplit([winnersBps |-> none, restSharedBps |-> 10000])
    <3> DEFINE n == 0
               rest == 10000
    <3>1. n \in Nat /\ rest \in Nat /\ none \in [1..n -> Nat] /\ SetSum(none, 1..n) + rest = 10000
      BY <1>1, <1>4
    <3> HIDE DEF n, rest
    <3>2. IsSplit([winnersBps |-> none, restSharedBps |-> rest])
      BY <3>1, SplitIs
    <3> QED BY <3>2 DEF rest
  <2> QED BY <2>1, <2>2, <2>3, <2>4, <2>5
<1>6. PAYOUT_PRESETS =
          [winner_take_all |-> [winnersBps |-> one, restSharedBps |-> 0],
           top2            |-> [winnersBps |-> two, restSharedBps |-> 0],
           top3            |-> [winnersBps |-> three, restSharedBps |-> 0],
           top5_half_field |-> [winnersBps |-> five, restSharedBps |-> 5000],
           even_all        |-> [winnersBps |-> none, restSharedBps |-> 10000]]
  BY DEF PAYOUT_PRESETS, one, two, three, five, none
<1> QED BY <1>5, <1>6

(* A custom distribution is only taken if it does. *)
LEMMA SpecSplits ==
    ASSUME NEW preset, NEW config \in Configs \cup {NoSpec},
           resolvePayoutSpec(preset, config) # NoSpec
    PROVE  IsSplit(resolvePayoutSpec(preset, config))
<1>1. CASE preset \in DOMAIN PAYOUT_PRESETS
  BY <1>1, PresetsSplit DEF resolvePayoutSpec
<1>2. CASE preset \notin DOMAIN PAYOUT_PRESETS
  <2> DEFINE bps == config.winnersBps
  <2>1. /\ total(bps) + config.restSharedBps = 10000
        /\ resolvePayoutSpec(preset, config) = config
        /\ config \in Configs
    BY <1>2 DEF resolvePayoutSpec
  <2>2. PICK s \in Nat : bps \in [1..s -> CustomBps]
    <3>1. bps \in SeqOf(CustomBps, 2)
      BY <2>1 DEF Configs
    <3>2. bps \in UNION {[1..m -> CustomBps] : m \in 0..2}
      BY <3>1 DEF SeqOf
    <3> HIDE DEF bps
    <3>3. \E m \in 0..2 : bps \in [1..m -> CustomBps]
      BY <3>2
    <3> QED BY <3>3
  <2>3. bps \in [1..s -> Nat] /\ config.restSharedBps \in Nat
    <3>1. \A x \in CustomBps : x \in Nat
      BY PayoutsAssumption
    <3>2. config.restSharedBps \in CustomBps
      BY <2>1 DEF Configs
    <3> HIDE DEF bps
    <3> QED BY <2>2, <3>1, <3>2
  <2>4. IsFiniteSet(1..s) /\ DOMAIN bps = 1..s /\ \A k \in 1..s : bps[k] \in Int
    BY <2>3, UpToIsFinite
  <2> HIDE DEF bps
  <2>5. total(bps) = SetSum(bps, 1..s)
    BY <2>4, TotalIs
  <2>6. SetSum(bps, 1..s) + config.restSharedBps = 10000
    BY <2>1, <2>5
  <2> QED BY <2>1, <2>3, <2>6 DEF IsSplit, bps
<1> QED BY <1>1, <1>2

(* The same for a list whose amounts are known by place. *)
LEMMA AmountsPay ==
    ASSUME NEW n \in Nat, NEW w, \A k \in 1..n : w[k] \in Nat,
           NEW p, DOMAIN p = 1..n, \A k \in 1..n : p[k].amount = w[k],
           NEW low \in Int, NEW high \in Int, low <= SetSum(w, 1..n), SetSum(w, 1..n) <= high
    PROVE  Divides(p, low, high)
<1> DEFINE a == AmountsOf(p)
<1>1. IsFiniteSet(1..n) /\ DOMAIN a = 1..n
  BY UpToIsFinite DEF AmountsOf
<1>2. \A k \in 1..n : w[k] \in Int /\ a[k] = w[k] /\ a[k] \in Int
  BY DEF AmountsOf
<1> HIDE DEF a
<1>3. SetSum(a, 1..n) = SetSum(w, 1..n)
  BY <1>1, <1>2, SetSumCong
<1>4. total(a) = SetSum(a, 1..n) /\ SetSum(a, 1..n) \in Int
  BY <1>1, <1>2, TotalIs, SetSumType
<1>5. \A k \in DOMAIN p : p[k].amount \in Nat
  OBVIOUS
<1> QED BY <1>3, <1>4, <1>5 DEF Divides, a

(* Rounding keeps naturals. *)
LEMMA RoundType == \A x \in Nat : round(x) \in Nat
  BY DEF round

(* Analysts, by volume. *)
LEMMA VolumeCurve ==
    ASSUME NEW m \in Nat, NEW results, IsField(results, m), NEW claimable \in Nat
    PROVE  Divides(volumeWeightedPayouts(results, claimable), claimable, claimable)
<1> DEFINE volume == [i \in DOMAIN results |-> round(results[i].score)]
           all    == total(volume)
           S      == {i \in DOMAIN results : volume[i] > 0}
           rises  == [i \in DOMAIN results |-> -i]
           order  == sorted(S, volume, rises)
           share  == [k \in DOMAIN order |-> (claimable * volume[order[k]]) \div all]
           paid   == withResidual(share, claimable)
           list   == [k \in DOMAIN order |-> leaf(order[k], paid[k])]
           n      == Cardinality(S)
           v      == [i \in S |-> (claimable * volume[i]) \div all]
<1>1. volumeWeightedPayouts(results, claimable) = IF order = << >> THEN << >> ELSE list
  BY DEF volumeWeightedPayouts
<1>2. /\ DOMAIN results = 1..m /\ IsFiniteSet(1..m) /\ DOMAIN volume = 1..m
      /\ \A i \in 1..m : volume[i] \in Nat /\ rises[i] \in Int
  <2>1. DOMAIN results = 1..m /\ \A i \in 1..m : results[i].score \in Nat
    BY DEF IsField
  <2>2. DOMAIN volume = 1..m /\ \A i \in 1..m : volume[i] = round(results[i].score) /\ rises[i] \in Int
    BY <2>1
  <2> HIDE DEF volume, rises
  <2> QED BY <2>1, <2>2, UpToIsFinite, RoundType
<1> HIDE DEF volume, rises
<1>3. S \in SUBSET (1..m) /\ S \in SUBSET Int /\ IsFiniteSet(S)
  <2>1. S \in SUBSET (1..m)
    BY <1>2
  <2> HIDE DEF S
  <2>2. S \in SUBSET Int
    BY <2>1
  <2>3. IsFiniteSet(S)
    BY <1>2, <2>1, FS_Subset
  <2> QED BY <2>1, <2>2, <2>3
<1>4. /\ \A i \in S : volume[i] \in Nat /\ volume[i] \in Int /\ rises[i] \in Int /\ volume[i] > 0
      /\ \A i \in 1..m : volume[i] \in Int
      /\ \A i \in (1..m) \ S : volume[i] = 0
  BY <1>2
<1>5. all = SetSum(volume, S) /\ all \in Int
  <2> HIDE DEF S
  <2>1. SetSum(volume, 1..m) = SetSum(volume, S)
    BY <1>2, <1>3, <1>4, SetSumRest
  <2>2. SetSum(volume, 1..m) \in Int
    BY <1>2, <1>4, SetSumType
  <2>3. total(volume) = SetSum(volume, 1..m)
    BY <1>2, <1>4, TotalIs
  <2> QED BY <2>1, <2>2, <2>3
<1> HIDE DEF all, list, v
<1>6. order \in Bijection(1..n, S) /\ DOMAIN order = 1..n /\ (\A k \in 1..n : order[k] \in S) /\ n \in Nat
  <2> HIDE DEF S
  <2>1. order \in Bijection(1..n, S)
    BY <1>3, <1>4, SortedLists
  <2> QED BY <1>3, <2>1, FS_CardinalityType DEF Bijection, Injection
<1> HIDE DEF order, S, n
<1>7. CASE n = 0
  <2>1. order = << >>
    BY <1>6, <1>7 DEF Bijection, Injection
  <2> QED BY <1>1, <2>1 DEF Divides
<1>8. CASE n # 0
  <2>1. all \in Nat \ {0}
    <3>1. PICK i \in S : TRUE
      BY <1>6, <1>8
    <3>2. SetSum(volume, S) = volume[i] + SetSum(volume, S \ {i})
      BY <1>3, <1>4, SetSumRemove
    <3>3. IsFiniteSet(S \ {i}) /\ SetSum(volume, {}) = 0 /\ \A x \in S \ {i} : volume[x] \in Int
      BY <1>3, <1>4, FS_Subset, SetSumEmpty
    <3>4. SetSum(volume, {}) <= SetSum(volume, S \ {i})
      <4> DEFINE R == S \ {i}
      <4>1. IsFiniteSet(R) /\ {} \in SUBSET R /\ \A x \in R : volume[x] \in Nat
        BY <1>4, <3>3
      <4> HIDE DEF R
      <4>2. SetSum(volume, {}) <= SetSum(volume, R)
        BY <4>1, SetSumSubset
      <4> QED BY <4>2 DEF R
    <3>5. SetSum(volume, S \ {i}) \in Int
      BY <3>3, SetSumType
    <3> QED BY <1>4, <1>5, <3>2, <3>3, <3>4, <3>5
  <2>2. \A i \in S : v[i] = (claimable * volume[i]) \div all
    BY DEF v
  <2>3. ASSUME NEW i \in S PROVE v[i] \in Nat /\ all * v[i] <= claimable * volume[i]
    <3>1. v[i] = (claimable * volume[i]) \div all /\ volume[i] \in Nat
      BY <1>4, <2>2
    <3> QED BY <2>1, <3>1, ShareOf
  <2>4. all * SetSum(v, S) <= claimable * all
    <3>1. SharesOf(v, volume, all, claimable, S)
      BY <1>4, <2>3 DEF SharesOf
    <3>2. all \in Nat
      BY <2>1
    <3>3. all * SetSum(v, S) <= claimable * SetSum(volume, S)
      BY <1>3, <3>1, <3>2, SetSumShares
    <3> QED BY <1>5, <3>3
  <2>5. SetSum(v, S) \in Int
    <3>1. \A i \in S : v[i] \in Int
      BY <2>3
    <3> QED BY <1>3, <3>1, SetSumType
  <2>6. SetSum(v, S) <= claimable
    BY <2>1, <2>4, <2>5
  <2>7. /\ DOMAIN share = 1..n /\ \A k \in 1..n : share[k] = v[order[k]] /\ share[k] \in Nat
        /\ share \in [1..n -> Nat]
    <3>1. DOMAIN share = 1..n /\ \A k \in 1..n : share[k] = (claimable * volume[order[k]]) \div all
      BY <1>6
    <3>2. \A k \in 1..n : share[k] = v[order[k]]
      BY <1>6, <2>2, <3>1, Zenon
    <3>3. share = [k \in 1..n |-> share[k]]
      BY <1>6
    <3>4. \A k \in 1..n : share[k] \in Nat
      BY <1>6, <2>3, <3>2
    <3> HIDE DEF share
    <3> QED BY <3>1, <3>2, <3>3, <3>4
  <2> HIDE DEF share
  <2>8. SetSum(share, 1..n) = SetSum(v, S)
    <3>1. IsFiniteSet(1..n) /\ \A k \in 1..n : share[k] = v[order[k]] /\ share[k] \in Int
      BY <1>6, <2>7, UpToIsFinite
    <3> QED BY <1>6, <3>1, SetSumReordered
  <2>9. paid \in [1..n -> Nat] /\ SetSum(paid, 1..n) = claimable
    <3>1. SetSum(share, 1..n) <= claimable
      BY <2>6, <2>8
    <3> QED BY <1>6, <1>8, <2>7, <3>1, ResidualFits
  <2> HIDE DEF paid
  <2>10. DOMAIN list = 1..n /\ \A k \in 1..n : list[k].amount = paid[k] /\ paid[k] \in Nat
    BY <1>6, <2>9 DEF list, leaf
  <2>11. Divides(list, claimable, claimable)
    <3>1. claimable <= SetSum(paid, 1..n) /\ SetSum(paid, 1..n) <= claimable
      BY <2>9
    <3> QED BY <1>6, <2>10, <3>1, AmountsPay
  <2>12. Divides(<< >>, claimable, claimable)
    BY DEF Divides
  <2> QED BY <1>1, <2>11, <2>12
<1> QED BY <1>7, <1>8

(* Hundredths that no rounding to a whole number raises, or loses. *)
NotRoundedUp(points) == points % 100 < 50 /\ (points = 0 \/ points >= 100)

(* What rounding does to a result, and to a sum. *)
LEMMA RoundFits ==
    ASSUME NEW s \in Nat
    PROVE  /\ NotRoundedUp(s) => 100 * round(s) <= s
           /\ s >= 100 => round(s) # 0
           /\ \A r \in Nat : 100 * r <= s => r <= round(s)
<1> DEFINE q == (s + 50) \div 100
<1>1. q \in Nat /\ 100 * q <= s + 50 /\ s + 50 < 100 * q + 100
  OBVIOUS
<1>2. s % 100 \in 0..99 /\ s = 100 * (s \div 100) + (s % 100) /\ s \div 100 \in Nat
  OBVIOUS
<1>3. NotRoundedUp(s) => 100 * q <= s
  <2> HIDE DEF q
  <2> QED BY <1>1, <1>2 DEF NotRoundedUp
<1>4. q = round(s)
  BY DEF round
<1> HIDE DEF q
<1>5. \A r \in Nat : 100 * r <= s => r <= q
  BY <1>1
<1> QED BY <1>1, <1>3, <1>4, <1>5

(* A nonempty set of entrants has a last one. *)
LEMMA MaxIn ==
    ASSUME NEW m \in Nat, NEW S \in SUBSET (1..m), S # {}
    PROVE  Max(S) \in S
<1> DEFINE T == {m - i : i \in S}
<1>1. T \in SUBSET Nat /\ T # {}
  OBVIOUS
<1>2. PICK k \in T : \A l \in T : k <= l
  <2> HIDE DEF T
  <2> QED BY <1>1, LeastNatural
<1>3. PICK i \in S : k = m - i
  OBVIOUS
<1>4. \A j \in S : m - j \in T /\ j \in Int
  OBVIOUS
<1>5. \A j \in S : i >= j
  <2> HIDE DEF T
  <2> QED BY <1>2, <1>3, <1>4
<1> QED BY <1>5 DEF Max

(* A part of a pool by profit. *)
ByProfit(pool, points, all) == (pool * round(points)) \div all

(* The shares of all who scored but the last fit into the pool. *)
LEMMA ScoresShare ==
    ASSUME NEW S, IsFiniteSet(S), NEW last \in S, NEW pool \in Nat,
           NEW points, \A i \in S : points[i] \in Nat /\ NotRoundedUp(points[i]) /\ points[i] > 0,
           NEW all, all = round(SetSum(points, S)),
           NEW part, \A i \in S \ {last} : part[i] = ByProfit(pool, points[i], all)
    PROVE  /\ \A i \in S \ {last} : part[i] \in Nat
           /\ SetSum(part, S \ {last}) \in Int /\ SetSum(part, S \ {last}) <= pool
<1> DEFINE R == S \ {last}
           rounded == [i \in S |-> round(points[i])]
           T == SetSum(points, S)
           hundred == 100
           one == 1
<1>1. /\ IsFiniteSet(R) /\ R \in SUBSET S /\ last \in S
      /\ \A i \in S : points[i] \in Nat /\ points[i] \in Int
      /\ \A i \in R : points[i] \in Nat /\ points[i] \in Int
  BY FS_Subset
<1>2. \A i \in S : rounded[i] \in Nat /\ rounded[i] = round(points[i]) /\ 100 * rounded[i] <= points[i]
  BY RoundType, RoundFits
<1> HIDE DEF rounded
<1>3. T = points[last] + SetSum(points, R) /\ SetSum(points, R) \in Int /\ 0 <= SetSum(points, R)
  <2> HIDE DEF R
  <2>1. T = points[last] + SetSum(points, R)
    BY <1>1, SetSumRemove DEF R
  <2>2. {} \in SUBSET R
    OBVIOUS
  <2>3. SetSum(points, {}) <= SetSum(points, R)
    BY <1>1, <2>2, SetSumSubset
  <2> QED BY <1>1, <2>1, <2>3, SetSumEmpty, SetSumType
<1> HIDE DEF R
<1>4. points[last] \in Nat /\ points[last] >= 100
  BY DEF NotRoundedUp
<1>5. T \in Nat /\ T >= 100 /\ SetSum(points, R) <= T
  BY <1>3, <1>4
<1> HIDE DEF T
<1>6. all \in Nat \ {0}
  BY <1>5, RoundType, RoundFits DEF T
<1>7. \A i \in R : rounded[i] \in Nat /\ rounded[i] \in Int
  BY <1>1, <1>2
<1>8. SetSum(rounded, R) \in Nat /\ SetSum(rounded, R) <= all
  <2>1. SharesOf(rounded, points, hundred, one, R)
    BY <1>1, <1>2 DEF SharesOf
  <2>2. hundred \in Nat /\ one \in Nat
    OBVIOUS
  <2>3. hundred * SetSum(rounded, R) <= one * SetSum(points, R)
    <3> HIDE DEF hundred, one
    <3> QED BY <1>1, <2>1, <2>2, SetSumShares
  <2>4. SetSum(rounded, R) \in Int
    BY <1>1, <1>7, SetSumType
  <2>5. 0 <= SetSum(rounded, R)
    <3>1. {} \in SUBSET R
      OBVIOUS
    <3>2. SetSum(rounded, {}) <= SetSum(rounded, R)
      BY <1>1, <1>7, <3>1, SetSumSubset
    <3> QED BY <3>2, SetSumEmpty
  <2>6. SetSum(rounded, R) \in Nat
    BY <2>4, <2>5
  <2>7. 100 * SetSum(rounded, R) <= T
    BY <1>3, <1>5, <2>3, <2>4
  <2> QED BY <1>5, <2>6, <2>7, RoundFits DEF T
<1>9. ASSUME NEW i \in R PROVE part[i] \in Nat /\ all * part[i] <= pool * rounded[i]
  <2>1. part[i] = (pool * rounded[i]) \div all
    BY <1>1, <1>2 DEF R, ByProfit
  <2> QED BY <1>6, <1>7, <2>1, ShareOf
<1>10. SetSum(part, R) \in Int
  <2>1. \A i \in R : part[i] \in Int
    BY <1>9
  <2> QED BY <1>1, <2>1, SetSumType
<1>11. all * SetSum(part, R) <= pool * SetSum(rounded, R)
  <2>1. SharesOf(part, rounded, all, pool, R)
    BY <1>7, <1>9 DEF SharesOf
  <2>2. all \in Nat
    BY <1>6
  <2> QED BY <1>1, <2>1, <2>2, SetSumShares
<1>12. SetSum(part, R) <= pool
  <2> DEFINE x == SetSum(part, R)
             y == SetSum(rounded, R)
  <2>1. x \in Int /\ y \in Nat /\ all \in Nat \ {0} /\ y <= all /\ all * x <= pool * y
    BY <1>6, <1>8, <1>10, <1>11
  <2> HIDE DEF x, y
  <2>2. pool * y <= pool * all
    BY <2>1
  <2>3. pool * y \in Int /\ pool * all \in Int /\ all * x \in Int /\ pool * all = all * pool
    BY <2>1
  <2>4. all * x <= all * pool
    BY <2>1, <2>2, <2>3
  <2>5. x <= pool
    BY <2>1, <2>4
  <2> QED BY <2>5 DEF x
<1> QED BY <1>9, <1>10, <1>12 DEF R

(* The last of those who scored takes what the division leaves. *)
LEMMA ProfitShared ==
    ASSUME NEW Q, IsFiniteSet(Q), NEW P \in SUBSET Q, NEW last \in P, NEW pool \in Nat,
           NEW points, \A i \in P : points[i] \in Nat /\ NotRoundedUp(points[i]) /\ points[i] > 0,
           NEW all, all = round(SetSum(points, P)),
           NEW part, \A i \in P \ {last} : part[i] = ByProfit(pool, points[i], all),
           NEW extra, \A i \in P \ {last} : extra[i] = part[i],
           extra[last] = pool - SetSum(part, P \ {last}), \A i \in Q \ P : extra[i] = 0
    PROVE  (\A i \in Q : extra[i] \in Nat) /\ SetSum(extra, Q) = pool
<1> DEFINE R == P \ {last}
<1>1. IsFiniteSet(P) /\ IsFiniteSet(R)
  <2>1. IsFiniteSet(P)
    BY FS_Subset
  <2> QED BY <2>1, FS_Subset
<1>2. /\ \A i \in R : part[i] \in Nat
      /\ SetSum(part, R) \in Int /\ SetSum(part, R) <= pool
  BY <1>1, ScoresShare
<1>3. /\ \A i \in R : extra[i] = part[i]
      /\ extra[last] = pool - SetSum(part, R)
      /\ \A i \in Q : i \in R \/ i = last \/ i \in Q \ P
      /\ P \ {last} = R /\ last \in P /\ R \in SUBSET Q
  OBVIOUS
<1> HIDE DEF R
<1>4. extra[last] \in Nat
  BY <1>2, <1>3
<1>5. \A i \in Q : extra[i] \in Nat
  <2> SUFFICES ASSUME NEW i \in Q PROVE extra[i] \in Nat
    OBVIOUS
  <2>1. CASE i \in R
    <3>1. extra[i] = part[i] /\ part[i] \in Nat
      BY <1>2, <1>3, <2>1
    <3> QED BY <3>1
  <2>2. CASE i = last
    BY <1>4, <2>2
  <2>3. CASE i \in Q \ P
    <3>1. extra[i] = 0
      BY <2>3
    <3> QED BY <3>1
  <2> QED BY <1>3, <2>1, <2>2, <2>3
<1>6. /\ \A i \in Q : extra[i] \in Int
      /\ \A i \in P : extra[i] \in Int
      /\ \A i \in R : part[i] \in Int /\ extra[i] = part[i]
  <2>1. \A i \in Q : extra[i] \in Int
    BY <1>5
  <2>2. \A i \in R : part[i] \in Int /\ extra[i] = part[i]
    BY <1>2, <1>3
  <2> QED BY <2>1, <2>2
<1>7. SetSum(extra, Q) = SetSum(extra, P)
  BY <1>6, SetSumRest
<1>8. SetSum(extra, P) = extra[last] + SetSum(extra, R)
  BY <1>1, <1>3, <1>6, SetSumRemove
<1>9. SetSum(extra, R) = SetSum(part, R)
  BY <1>1, <1>6, SetSumCong
<1>10. SetSum(extra, Q) = pool
  BY <1>2, <1>3, <1>7, <1>8, <1>9
<1> QED BY <1>5, <1>10

(* Analysts, by profit. *)
LEMMA PnlCurve ==
    ASSUME NEW m \in Nat, NEW results, IsField(results, m), NEW claimable \in Nat,
           \A i \in 1..m : NotRoundedUp(results[i].score)
    PROVE  Divides(computePnlWeightedPayouts(results, claimable),
                   claimable - 2 * Cardinality({i \in DOMAIN results : results[i].traded}), claimable)
<1> DEFINE Q     == {i \in DOMAIN results : results[i].traded}
           P     == {i \in Q : results[i].score > 0}
           n     == Cardinality(Q)
           pool  == (claimable * 30) \div 100
           pnlPool == claimable - pool
           points == [i \in P |-> results[i].score]
           all   == round(total(points))
           part  == [i \in P \ {Max(P)} |-> (pnlPool * round(results[i].score)) \div all]
           rest  == pnlPool - total(part)
           extra(i) == CASE P = {} -> pnlPool \div n
                         [] i \in P \ {Max(P)} -> part[i]
                         [] i \in P /\ i = Max(P) -> rest
                         [] OTHER -> 0
           amount == [i \in Q |-> pool \div n + extra(i)]
           order == sorted(Q, amount, Places(results))
           list  == [k \in DOMAIN order |-> leaf(order[k], amount[order[k]])]
           more  == [i \in Q |-> extra(i)]
           flat  == [i \in Q |-> pool \div n]
<1>1. computePnlWeightedPayouts(results, claimable) = IF Q = {} THEN << >> ELSE list
  BY DEF computePnlWeightedPayouts
<1>2. /\ DOMAIN results = 1..m
      /\ \A i \in 1..m : results[i].score \in Nat /\ NotRoundedUp(results[i].score)
  BY DEF IsField
<1>3. /\ Q \in SUBSET (1..m) /\ P \in SUBSET Q
      /\ \A i \in P : points[i] = results[i].score /\ points[i] \in Nat
                      /\ NotRoundedUp(points[i]) /\ points[i] > 0
  BY <1>2
<1>4. part = [i \in P \ {Max(P)} |-> ByProfit(pnlPool, points[i], all)]
  <2>1. \A i \in P \ {Max(P)} : results[i].score = points[i]
    BY <1>3
  <2> HIDE DEF points, P
  <2> QED BY <2>1 DEF ByProfit
<1> HIDE DEF list
<1>5. DOMAIN points = P
  OBVIOUS
<1>6. DOMAIN order = DOMAIN list /\ \A k \in DOMAIN order : list[k].amount = amount[order[k]]
  BY DEF list, leaf
<1>7. \A i \in Q : Places(results)[i] \in Int
  BY <1>2, <1>3 DEF Places
<1> HIDE DEF Q, P, points, order
<1>8. IsFiniteSet(Q) /\ IsFiniteSet(P) /\ n \in Nat /\ Q \in SUBSET Int
  <2>1. IsFiniteSet(Q) /\ IsFiniteSet(P)
    BY <1>3, UpToIsFinite, FS_Subset
  <2>2. Q \in SUBSET Int
    BY <1>3
  <2> QED BY <2>1, <2>2, FS_CardinalityType
<1>9. pool \in Nat /\ pnlPool \in Nat /\ pool + pnlPool = claimable
  OBVIOUS
<1> HIDE DEF pool, pnlPool
<1>10. all = round(SetSum(points, P))
  <2>1. \A i \in P : points[i] \in Int
    BY <1>3
  <2>2. total(points) = SetSum(points, P)
    BY <1>5, <1>8, <2>1, TotalIs
  <2> QED BY <2>2
<1>11. /\ \A i \in Q : amount[i] = flat[i] + more[i]
       /\ \A i \in Q : flat[i] = IF i \in Q THEN pool \div Cardinality(Q) ELSE 0
       /\ \A i \in Q : more[i] = CASE P = {} -> pnlPool \div Cardinality(Q)
                                   [] i \in P \ {Max(P)} -> part[i]
                                   [] i \in P /\ i = Max(P) -> pnlPool - total(part)
                                   [] OTHER -> 0
  <2> HIDE DEF part
  <2>1. \A i \in Q : flat[i] = pool \div n /\ more[i] = extra(i) /\ amount[i] = pool \div n + extra(i)
    <3> HIDE DEF extra, n
    <3> QED OBVIOUS
  <2>2. \A i \in Q : amount[i] = flat[i] + more[i]
    <3> HIDE DEF extra, n, amount, flat, more
    <3> QED BY <2>1
  <2>3. \A i \in Q : flat[i] = IF i \in Q THEN pool \div Cardinality(Q) ELSE 0
    OBVIOUS
  <2>4. \A i \in Q : more[i] = CASE P = {} -> pnlPool \div Cardinality(Q)
                                 [] i \in P \ {Max(P)} -> part[i]
                                 [] i \in P /\ i = Max(P) -> pnlPool - total(part)
                                 [] OTHER -> 0
    BY <2>1
  <2> QED BY <2>2, <2>3, <2>4
<1> HIDE DEF all, amount, flat, more, part
<1>12. CASE Q # {}
  <2>1. /\ \A i \in Q : flat[i] \in Nat
        /\ SetSum(flat, Q) \in Int /\ SetSum(flat, Q) <= pool
        /\ pool - Cardinality(Q) < SetSum(flat, Q)
    <3>1. Q \in SUBSET Q
      OBVIOUS
    <3>2. \A i \in Q : flat[i] = IF i \in Q THEN pool \div Cardinality(Q) ELSE 0
      BY <1>11
    <3> QED BY <1>8, <1>9, <1>12, <3>1, <3>2, GroupsShare
  <2>2. /\ \A i \in Q : more[i] \in Nat
        /\ SetSum(more, Q) \in Int /\ SetSum(more, Q) <= pnlPool
        /\ pnlPool - Cardinality(Q) <= SetSum(more, Q)
    <3>0. n = Cardinality(Q)
      OBVIOUS
    <3> HIDE DEF n
    <3>1. CASE P = {}
      <4>1. \A i \in Q : more[i] = IF i \in Q THEN pnlPool \div Cardinality(Q) ELSE 0
        BY <1>11, <3>1
      <4>2. Q \in SUBSET Q
        OBVIOUS
      <4>3. /\ \A i \in Q : more[i] \in Nat
            /\ SetSum(more, Q) \in Int /\ SetSum(more, Q) <= pnlPool
            /\ pnlPool - Cardinality(Q) < SetSum(more, Q)
        BY <1>8, <1>9, <1>12, <4>1, <4>2, GroupsShare
      <4> QED BY <1>8, <1>9, <3>0, <4>3
    <3>2. CASE P # {}
      <4> DEFINE last == Max(P)
                 R == P \ {last}
      <4>1. last \in P
        <5>1. P \in SUBSET (1..m)
          BY <1>3
        <5> QED BY <3>2, <5>1, MaxIn
      <4>2. DOMAIN part = R /\ \A i \in P \ {last} : part[i] = ByProfit(pnlPool, points[i], all)
        BY <1>4
      <4>3. /\ \A i \in P \ {last} : more[i] = part[i]
            /\ more[last] = pnlPool - total(part)
            /\ \A i \in Q \ P : more[i] = 0
        <5>1. \A i \in Q : more[i] = CASE P = {} -> pnlPool \div Cardinality(Q)
                                        [] i \in P \ {last} -> part[i]
                                        [] i \in P /\ i = last -> pnlPool - total(part)
                                        [] OTHER -> 0
          BY <1>11
        <5> HIDE DEF last
        <5>2. ASSUME NEW i \in P \ {last} PROVE more[i] = part[i]
          BY <1>3, <3>2, <5>1
        <5>3. more[last] = pnlPool - total(part)
          BY <1>3, <3>2, <4>1, <5>1
        <5>4. ASSUME NEW i \in Q \ P PROVE more[i] = 0
          BY <3>2, <5>1
        <5> QED BY <5>2, <5>3, <5>4
      <4> HIDE DEF last
      <4>4. \A i \in P : points[i] \in Nat /\ NotRoundedUp(points[i]) /\ points[i] > 0
        BY <1>3
      <4>5. total(part) = SetSum(part, R)
        <5>1. IsFiniteSet(R) /\ \A i \in R : part[i] \in Int
          <6>1. IsFiniteSet(R)
            BY <1>8, FS_Subset
          <6>2. IsFiniteSet(P) /\ pnlPool \in Nat
            BY <1>8, <1>9
          <6>3. \A i \in P \ {last} : part[i] = ByProfit(pnlPool, points[i], all)
            BY <4>2
          <6> HIDE DEF R
          <6>4. /\ \A i \in P \ {last} : part[i] \in Nat
                /\ SetSum(part, P \ {last}) \in Int /\ SetSum(part, P \ {last}) <= pnlPool
            BY <1>10, <4>1, <4>4, <6>2, <6>3, ScoresShare
          <6> QED BY <6>1, <6>4 DEF R
        <5> HIDE DEF R
        <5> QED BY <4>2, <5>1, TotalIs
      <4>6. more[last] = pnlPool - SetSum(part, P \ {last})
        BY <4>3, <4>5
      <4>7. (\A i \in Q : more[i] \in Nat) /\ SetSum(more, Q) = pnlPool
        <5>1. P \in SUBSET Q /\ \A i \in P \ {last} : more[i] = part[i]
          BY <1>3, <4>3
        <5>2. \A i \in Q \ P : more[i] = 0
          BY <4>3
        <5>3. IsFiniteSet(Q) /\ pnlPool \in Nat
          BY <1>8, <1>9
        <5>4. \A i \in P \ {last} : part[i] = ByProfit(pnlPool, points[i], all)
          BY <4>2
        <5> HIDE DEF R
        <5> QED BY <1>10, <4>1, <4>4, <4>6, <5>1, <5>2, <5>3, <5>4, ProfitShared
      <4> QED BY <1>8, <1>9, <3>0, <4>7
    <3> QED BY <3>1, <3>2
  <2>3. \A i \in Q : flat[i] \in Int /\ more[i] \in Int /\ amount[i] = flat[i] + more[i]
                     /\ amount[i] \in Nat
    BY <1>11, <2>1, <2>2
  <2>4. SetSum(amount, Q) = SetSum(flat, Q) + SetSum(more, Q)
    <3>1. \A i \in Q : flat[i] \in Int /\ more[i] \in Int /\ amount[i] = flat[i] + more[i]
      BY <2>3
    <3> QED BY <1>8, <3>1, SetSumPlus
  <2>5. claimable - 2 * n <= SetSum(amount, Q) /\ SetSum(amount, Q) <= claimable
    BY <1>8, <1>9, <2>1, <2>2, <2>4
  <2>6. order \in Bijection(1..Cardinality(Q), Q)
    <3>1. \A i \in Q : amount[i] \in Int /\ Places(results)[i] \in Int
      BY <1>7, <2>3
    <3> QED BY <1>8, <3>1, SortedLists DEF order
  <2>7. DOMAIN list = 1..Cardinality(Q) /\ \A k \in 1..Cardinality(Q) : list[k].amount = amount[order[k]]
    <3>1. DOMAIN order = 1..Cardinality(Q)
      BY <2>6 DEF Bijection, Injection
    <3> QED BY <1>6, <3>1
  <2>8. \A i \in Q : amount[i] \in Nat
    BY <2>3
  <2>9. claimable - 2 * n \in Int /\ claimable \in Int
    BY <1>8
  <2> DEFINE low == claimable - 2 * n
  <2>10. low \in Int /\ low <= SetSum(amount, Q)
    BY <2>5, <2>9
  <2> HIDE DEF low
  <2>11. Divides(list, low, claimable)
    BY <1>8, <2>5, <2>6, <2>7, <2>8, <2>9, <2>10, ListPays
  <2> QED BY <1>1, <1>12, <2>11 DEF low, Q
<1>13. CASE Q = {}
  BY <1>1, <1>13 DEF Divides
<1> QED BY <1>12, <1>13

(* The fields that are enumerated. *)
LEMMA FieldsAre ==
    ASSUME NEW traded \in SUBSET BOOLEAN, NEW results \in Fields(traded)
    PROVE  \E m \in Nat : IsField(results, m) /\ \A i \in 1..m : results[i].score \in Scores
<1> DEFINE Entrants == [score: Scores, traded: traded]
<1>1. results \in UNION {[1..m -> Entrants] : m \in 0..MaxField}
  BY DEF Fields, SeqOf
<1>2. PICK m \in 0..MaxField : results \in [1..m -> Entrants]
  <2> HIDE DEF Entrants
  <2> QED BY <1>1
<1>3. \A e \in Entrants : e.score \in Scores /\ e.score \in Nat
  <2>1. \A points \in Scores : points \in Nat
    BY PayoutsAssumption
  <2>2. \A e \in Entrants : e.score \in Scores
    OBVIOUS
  <2> HIDE DEF Entrants
  <2> QED BY <2>1, <2>2
<1> HIDE DEF Entrants
<1>4. DOMAIN results = 1..m /\ \A i \in 1..m : results[i].score \in Scores /\ results[i].score \in Nat
  BY <1>2, <1>3
<1>5. m \in Nat
  BY PayoutsAssumption
<1> QED BY <1>4, <1>5 DEF IsField

(* What a distribution pays, by the curve that divides it. *)
LEMMA DistributionPays ==
    ASSUME NEW m \in Nat, NEW results, IsField(results, m), NEW claimable \in Nat,
           NEW preset, NEW config \in Configs \cup {NoSpec}, NEW mode, NEW arcana \in BOOLEAN
    PROVE  LET p        == computeDistribution(preset, config, mode, arcana, results, claimable)
               byProfit == /\ resolvePayoutSpec(preset, config) = NoSpec
                           /\ arcana /\ mode # "volume"
           IN  /\ ~byProfit => Divides(p, claimable, claimable)
               /\ byProfit => p = computePnlWeightedPayouts(results, claimable)
<1> DEFINE spec == resolvePayoutSpec(preset, config)
           p == computeDistribution(preset, config, mode, arcana, results, claimable)
<1>1. CASE spec # NoSpec
  <2>1. IsSplit(spec)
    BY <1>1, SpecSplits
  <2>2. p = computePresetPayouts(spec, results, claimable)
    BY <1>1 DEF computeDistribution
  <2>3. Divides(p, claimable, claimable)
    <3> HIDE DEF spec, p
    <3> QED BY <2>1, <2>2, PresetCurve
  <2> QED BY <1>1, <2>3
<1>2. CASE spec = NoSpec
  <2>1. p = computePayoutsForMode(mode, arcana, results, claimable)
    BY <1>2 DEF computeDistribution
  <2> HIDE DEF p
  <2>2. CASE ~arcana
    <3>1. p = computePayouts(results, claimable)
      BY <2>1, <2>2 DEF computePayoutsForMode
    <3>2. Divides(p, claimable, claimable)
      BY <3>1, LegacyCurve
    <3> QED BY <2>2, <3>2 DEF p
  <2>3. CASE arcana /\ mode = "volume"
    <3>1. p = volumeWeightedPayouts(results, claimable)
      BY <2>1, <2>3 DEF computePayoutsForMode
    <3>2. Divides(p, claimable, claimable)
      BY <3>1, VolumeCurve
    <3> QED BY <2>3, <3>2 DEF p
  <2>4. CASE arcana /\ mode # "volume"
    <3>1. p = computePnlWeightedPayouts(results, claimable)
      BY <2>1, <2>4 DEF computePayoutsForMode
    <3> QED BY <1>2, <2>4, <3>1 DEF p
  <2> QED BY <2>2, <2>3, <2>4
<1> QED BY <1>1, <1>2

(* A list that divides the pool is what PoolIsPaidOut asks for. *)
PaysOut(d) == Divides(d.payouts, d.claimable - 2 * d.flat, d.claimable)

(* It implies the property. *)
LEMMA PaysOutIs == PaysOut(distribution) => PoolIsPaidOut
<1> SUFFICES ASSUME PaysOut(distribution) PROVE PoolIsPaidOut
  OBVIOUS
<1> DEFINE p == distribution.payouts
<1>1. amounts = AmountsOf(p) /\ DOMAIN amounts = DOMAIN p
      /\ \A k \in DOMAIN p : amounts[k] = p[k].amount
  BY DEF amounts, AmountsOf
<1>2. p = << >> => amounts = << >>
  BY DEF amounts
<1>3. CASE amounts # << >>
  <2>1. /\ \A k \in DOMAIN p : p[k].amount \in Nat
        /\ distribution.claimable - 2 * distribution.flat <= total(AmountsOf(p))
        /\ total(AmountsOf(p)) <= distribution.claimable
    BY <1>2, <1>3 DEF PaysOut, Divides
  <2>2. \A k \in DOMAIN amounts : amounts[k] >= 0
    BY <1>1, <2>1
  <2>3. /\ total(amounts) <= distribution.claimable
        /\ total(amounts) >= distribution.claimable - 2 * distribution.flat
    BY <1>1, <2>1
  <2> QED BY <2>2, <2>3 DEF PoolIsPaidOut
<1> QED BY <1>3 DEF PoolIsPaidOut

(* Nothing is paid before. *)
LEMMA NoneDistributed == PaysOut(Undistributed)
  BY DEF PaysOut, Divides, Undistributed

(* One distribution: exact unless it is by profit, and within the two      *)
(* roundings per analyst if no score is rounded up.                        *)
LEMMA Distributes ==
    ASSUME NEW traded \in SUBSET BOOLEAN, NEW results \in Fields(traded), NEW claimable \in Claimables,
           NEW preset, NEW config \in Configs \cup {NoSpec}, NEW mode, NEW arcana \in BOOLEAN,
           distribute(preset, config, mode, arcana, results, claimable)
    PROVE  /\ distribution'.flat = 0 => PaysOut(distribution')
           /\ (\A points \in Scores : NotRoundedUp(points)) => PaysOut(distribution')
<1> DEFINE p        == computeDistribution(preset, config, mode, arcana, results, claimable)
           byProfit == /\ resolvePayoutSpec(preset, config) = NoSpec
                       /\ arcana /\ mode # "volume"
           traders  == {i \in DOMAIN results : results[i].traded}
           flat     == IF byProfit THEN Cardinality(traders) ELSE 0
<1>1. distribution' = [payouts |-> p, claimable |-> claimable, flat |-> flat]
  BY DEF distribute
<1>2. PICK m \in Nat : IsField(results, m) /\ \A i \in 1..m : results[i].score \in Scores
  BY FieldsAre
<1>3. claimable \in Nat
  BY PayoutsAssumption
<1>4. /\ ~byProfit => Divides(p, claimable, claimable)
      /\ byProfit => p = computePnlWeightedPayouts(results, claimable)
  BY <1>2, <1>3, DistributionPays
<1> HIDE DEF p, byProfit
<1>5. distribution'.payouts = p /\ distribution'.claimable = claimable /\ distribution'.flat = flat
  BY <1>1
<1>6. CASE ~byProfit
  <2>1. flat = 0 /\ claimable - 2 * 0 = claimable
    BY <1>3, <1>6
  <2>2. PaysOut(distribution')
    BY <1>4, <1>5, <1>6, <2>1 DEF PaysOut
  <2> QED BY <2>2
<1>7. CASE byProfit
  <2>1. flat = Cardinality(traders) /\ p = computePnlWeightedPayouts(results, claimable)
    BY <1>4, <1>7
  <2>2. ASSUME distribution'.flat = 0 PROVE PaysOut(distribution')
    <3>1. IsFiniteSet(traders)
      <4>1. traders \in SUBSET (1..m)
        BY <1>2 DEF IsField
      <4> HIDE DEF traders
      <4> QED BY <4>1, UpToIsFinite, FS_Subset
    <3>2. traders = {}
      <4> HIDE DEF traders
      <4> QED BY <1>5, <2>1, <2>2, <3>1, FS_EmptySet
    <3>3. p = << >>
      BY <2>1, <3>2 DEF computePnlWeightedPayouts
    <3> QED BY <1>5, <3>3 DEF PaysOut, Divides
  <2>3. ASSUME \A points \in Scores : NotRoundedUp(points) PROVE PaysOut(distribution')
    <3>1. \A i \in 1..m : NotRoundedUp(results[i].score)
      BY <1>2, <2>3
    <3>2. Divides(p, claimable - 2 * Cardinality(traders), claimable)
      BY <1>2, <1>3, <2>1, <3>1, PnlCurve
    <3> HIDE DEF flat, traders
    <3> QED BY <1>5, <2>1, <3>2 DEF PaysOut
  <2> QED BY <2>2, <2>3
<1> QED BY <1>6, <1>7

(* Every step is one. *)
LEMMA PayoutStep ==
    ASSUME PayoutNext
    PROVE  /\ distribution'.flat = 0 => PaysOut(distribution')
           /\ (\A points \in Scores : NotRoundedUp(points)) => PaysOut(distribution')
<1>1. PICK claimable \in Claimables :
        \/ \E preset \in DOMAIN PAYOUT_PRESETS, results \in Fields({TRUE}) :
              distribute(preset, NoSpec, "pnl_mtm", FALSE, results, claimable)
        \/ \E config \in Configs, arcana \in BOOLEAN, results \in Fields({TRUE}) :
              distribute("custom", config, "volume", arcana, results, claimable)
        \/ \E results \in Fields(Traded) :
              distribute("standard", NoSpec, "pnl_mtm", TRUE, results, claimable)
  BY DEF PayoutNext
<1>2. {TRUE} \in SUBSET BOOLEAN /\ Traded \in SUBSET BOOLEAN /\ TRUE \in BOOLEAN /\ FALSE \in BOOLEAN
      /\ NoSpec \in Configs \cup {NoSpec} /\ Configs \in SUBSET (Configs \cup {NoSpec})
  BY PayoutsAssumption
<1>3. CASE \E preset \in DOMAIN PAYOUT_PRESETS, results \in Fields({TRUE}) :
              distribute(preset, NoSpec, "pnl_mtm", FALSE, results, claimable)
  BY <1>2, <1>3, Distributes
<1>4. CASE \E config \in Configs, arcana \in BOOLEAN, results \in Fields({TRUE}) :
              distribute("custom", config, "volume", arcana, results, claimable)
  <2>1. PICK config \in Configs, arcana \in BOOLEAN, results \in Fields({TRUE}) :
              distribute("custom", config, "volume", arcana, results, claimable)
    BY <1>4
  <2>2. config \in Configs \cup {NoSpec}
    OBVIOUS
  <2> QED BY <1>2, <2>1, <2>2, Distributes
<1>5. CASE \E results \in Fields(Traded) :
              distribute("standard", NoSpec, "pnl_mtm", TRUE, results, claimable)
  BY <1>2, <1>5, Distributes
<1> QED BY <1>1, <1>3, <1>4, <1>5

-----------------------------------------------------------------------------
(* Whatever the pool, the field and the distribution, the leaves a         *)
(* contest or a challenge is settled with are nonnegative and add up to    *)
(* the pool, less at most two units per analyst on the curve by profit -   *)
(* as long as no score is rounded up there: one that is lets the shares of *)
(* all but the last pass the pool, and the last one's turn negative        *)
(* (computePnlWeightedPayouts; PayoutRounding shows it).                   *)
THEOREM PoolPaidOut ==
    ASSUME \A points \in Scores : NotRoundedUp(points)
    PROVE  PayoutSpec => []PoolIsPaidOut
<1> DEFINE Inv == PaysOut(distribution)
<1>1. PayoutInit => Inv
  BY NoneDistributed DEF PayoutInit
<1>2. Inv /\ [PayoutNext]_distribution => Inv'
  <2> SUFFICES ASSUME Inv, [PayoutNext]_distribution PROVE Inv'
    OBVIOUS
  <2>1. CASE PayoutNext
    BY <2>1, PayoutStep
  <2>2. CASE distribution' = distribution
    BY <2>2
  <2> QED BY <2>1, <2>2
<1>3. Inv => PoolIsPaidOut
  BY PaysOutIs
<1> QED BY <1>1, <1>2, <1>3, PTL DEF PayoutSpec

(* Whatever the scores, every other curve pays out the pool to the unit:   *)
(* scouts and solvers, the creator's presets, custom shares, and analysts  *)
(* by volume.  Only the curve by profit sets flat.                         *)
THEOREM ExactUnlessByProfit ==
    PayoutSpec => [](distribution.flat = 0 => PoolIsPaidOut)
<1> DEFINE Inv == distribution.flat = 0 => PaysOut(distribution)
<1>1. PayoutInit => Inv
  BY NoneDistributed DEF PayoutInit
<1>2. Inv /\ [PayoutNext]_distribution => Inv'
  <2> SUFFICES ASSUME Inv, [PayoutNext]_distribution PROVE Inv'
    OBVIOUS
  <2>1. CASE PayoutNext
    BY <2>1, PayoutStep
  <2>2. CASE distribution' = distribution
    BY <2>2
  <2> QED BY <2>1, <2>2
<1>3. Inv => (distribution.flat = 0 => PoolIsPaidOut)
  BY PaysOutIs
<1> QED BY <1>1, <1>2, <1>3, PTL DEF PayoutSpec
-----------------------------------------------------------------------------
(* Settlement. *)
USE SettlementAssumption

(* A payout list is a sequence of operators who are in the field.          *)
LEMMA TreesAreSequences ==
    ASSUME NEW field \in SUBSET Operators, NEW t \in Trees(field)
    PROVE  t \in Seq(Operators)
  BY DEF Trees

(* What sending a transaction does to the mempool. *)
LEMMA SubmitAppends ==
    ASSUME SettlementTypeOK, NEW p \in Refunders \cup {"nobody"},
           NEW call \in {"postScoreRoot", "settle", "cancelContest"}, NEW root \in Seq(Operators),
           submit(p, call, root)
    PROVE  /\ mempool' \in Seq(Tx)
           /\ DOMAIN mempool' = 1..Len(mempool) + 1
           /\ \A i \in 1..Len(mempool) : mempool'[i] = mempool[i]
           /\ mempool'[Len(mempool) + 1].call = call /\ mempool'[Len(mempool) + 1].root = root
  <1> DEFINE tx == [by |-> p, call |-> call, root |-> root]
  <1>1. tx \in Tx
    BY DEF Tx
  <1>2. mempool \in Seq(Tx) /\ mempool' = Append(mempool, tx)
    BY DEF submit, SettlementTypeOK
  <1> HIDE DEF tx
  <1>3. /\ mempool' \in Seq(Tx) /\ DOMAIN mempool' = 1..Len(mempool) + 1
        /\ \A i \in 1..Len(mempool) : mempool'[i] = mempool[i]
        /\ mempool'[Len(mempool) + 1] = tx
    BY <1>1, <1>2, AppendProperties
  <1> QED BY <1>3 DEF tx

(* A process that stops waiting leaves its transactions where they are. *)
LEMMA AbandonedStayPending ==
    ASSUME SettlementTypeOK, NEW ps
    PROVE  /\ withoutWaiting(ps) \in Seq(Tx)
           /\ DOMAIN withoutWaiting(ps) = DOMAIN mempool
           /\ \A i \in DOMAIN mempool : /\ withoutWaiting(ps)[i].call = mempool[i].call
                                        /\ withoutWaiting(ps)[i].root = mempool[i].root
  <1>1. mempool \in Seq(Tx)
    BY DEF SettlementTypeOK
  <1>2. \A i \in DOMAIN mempool :
            /\ withoutWaiting(ps)[i] \in Tx
            /\ withoutWaiting(ps)[i].call = mempool[i].call
            /\ withoutWaiting(ps)[i].root = mempool[i].root
    <2> TAKE i \in DOMAIN mempool
    <2>1. mempool[i] \in Tx
      BY <1>1
    <2>2. withoutWaiting(ps)[i] = IF mempool[i].by \in ps THEN [mempool[i] EXCEPT !.by = "nobody"]
                                  ELSE mempool[i]
      BY DEF withoutWaiting
    <2> QED BY <2>1, <2>2 DEF Tx
  <1>3. DOMAIN withoutWaiting(ps) = 1..Len(mempool) /\ Len(mempool) \in Nat
    BY <1>1 DEF withoutWaiting
  <1>4. withoutWaiting(ps) \in [1..Len(mempool) -> Tx]
    BY <1>1, <1>2, <1>3 DEF withoutWaiting
  <1> QED BY <1>1, <1>2, <1>3, <1>4

(* What mining does to the mempool. *)
LEMMA MineTakesFirst ==
    ASSUME SettlementTypeOK, mine
    PROVE  /\ mempool' \in Seq(Tx)
           /\ mempool[1] \in Tx /\ 1 \in DOMAIN mempool
           /\ contest' \in {contest, executed(mempool[1])}
           /\ \A i \in DOMAIN mempool' : i + 1 \in DOMAIN mempool /\ mempool'[i] = mempool[i + 1]
  <1>1. mempool \in Seq(Tx) /\ mempool # << >> /\ mempool' = Tail(mempool)
    BY DEF mine, SettlementTypeOK
  <1>2. Head(mempool) = mempool[1] /\ 1 \in DOMAIN mempool /\ mempool[1] \in Tx
    BY <1>1
  <1> QED BY <1>1, <1>2 DEF mine
-----------------------------------------------------------------------------
LEMMA SettlementInitInv == SettlementInit => SettlementInv
  <1> SUFFICES ASSUME SettlementInit PROVE SettlementInv
    OBVIOUS
  <1> USE DEF SettlementInit
  <1>1. contest.finalRoot = << >> /\ run.at = "idle" /\ mempool = << >> /\ payouts = << >>
    BY DEF NoRoot, Idle
  <1>2. run \in Run
    BY DEF Run, Idle
  <1>3. SettlementTypeOK
    <2>1. /\ << >> \in Seq(Operators) /\ << >> \in Seq(Tx)
          /\ received \in [Operators -> Nat] /\ faults \in Nat
      OBVIOUS
    <2>2. loops \in [Refunders -> Loop \cup {NoLoop}] /\ clicks \in [Clicks -> Click \cup {Idle}]
      OBVIOUS
    <2> QED BY <1>2, <2>1, <2>2 DEF SettlementTypeOK, NoRoot
  <1>4. PostedTreeIsStored /\ RootsOnTheWay /\ RunHoldsRows
    BY <1>1 DEF PostedTreeIsStored, RootsOnTheWay, RunHoldsRows, NoRoot
  <1> QED BY <1>3, <1>4 DEF SettlementInv

(* What a refund step makes of the loops. *)
Loops         == [Refunders -> Loop \cup {NoLoop}]
skipped(p, o) == [loops EXCEPT ![p].todo = @ \ {o}]
paidOut(p, o) == [loops EXCEPT ![p].todo = @ \ {o}, ![p].paid = {o}]
cleared(p)    == [loops EXCEPT ![p].paid = {}]

LEMMA LoopsStayLoops ==
    ASSUME NEW p \in Refunders, loops \in Loops, loops[p] \in Loop, NEW o \in Operators
    PROVE  skipped(p, o) \in Loops /\ paidOut(p, o) \in Loops /\ cleared(p) \in Loops
  <1> DEFINE less == [loops[p] EXCEPT !.todo = @ \ {o}]
             none == [loops[p] EXCEPT !.paid = {}]
             both == [less EXCEPT !.paid = {o}]
  <1>1. less \in Loop /\ none \in Loop
    BY DEF Loop
  <1>2. both \in Loop
    <2> HIDE DEF less
    <2> QED BY <1>1 DEF Loop
  <1>3. skipped(p, o) = [loops EXCEPT ![p] = less] /\ cleared(p) = [loops EXCEPT ![p] = none]
    BY DEF skipped, cleared
  <1>4. paidOut(p, o) = [loops EXCEPT ![p] = both]
    BY DEF paidOut, Loops
  <1>5. \A l \in Loop : [loops EXCEPT ![p] = l] \in Loops
    BY DEF Loops
  <1> HIDE DEF less, none, both
  <1> QED BY <1>1, <1>2, <1>3, <1>4, <1>5

(* A refund loop moves by one row, and the last step ends its process.     *)
LEMMA RefundTypeOK ==
    ASSUME SettlementTypeOK, NEW p \in Refunders, refundStep(p) \/ refundFails(p)
    PROVE  /\ SettlementTypeOK'
           /\ UNCHANGED <<contest, mempool, payouts>> /\ run' \in {run, Idle}
  <1> USE DEF SettlementTypeOK, chain, tables, processes
  <1>1. loops[p] # NoLoop => loops[p] \in Loop
    OBVIOUS
  <1>2. loops \in Loops
    BY DEF Loops
  <1>3. loops[p] \in Loop => \A o \in loops[p].todo : o \in Operators
    BY DEF Loop
  <1>4. ASSUME NEW o \in Operators, sendRefund(p, o)
        PROVE  SettlementTypeOK' /\ UNCHANGED <<contest, mempool, payouts, run>>
    <2>1. loops[p] \in Loop
      BY <1>1, <1>4 DEF sendRefund, between
    <2>2. loops' \in Loops
      <3>1. loops' = skipped(p, o) \/ loops' = paidOut(p, o)
        BY <1>4 DEF sendRefund, skipped, paidOut
      <3> QED BY <1>2, <2>1, <3>1, LoopsStayLoops
    <2>3. received' \in [Operators -> Nat]
      BY <1>4 DEF sendRefund
    <2> QED BY <1>4, <2>2, <2>3 DEF sendRefund, Loops
  <1>5. CASE markRefund(p)
    <2>1. loops[p] \in Loop
      BY <1>1, <1>5 DEF markRefund
    <2>2. feeMarked' \subseteq Operators
      BY <1>5, <2>1 DEF markRefund, Loop
    <2>3. loops' = cleared(p)
      BY <1>5 DEF markRefund, cleared
    <2>4. loops' \in Loops
      <3>1. PICK o \in Operators : o \in loops[p].paid
        BY <1>5, <2>1 DEF markRefund, Loop
      <3> QED BY <1>2, <2>1, <2>3, LoopsStayLoops
    <2> QED BY <1>5, <2>2, <2>4 DEF markRefund, Loops
  <1>6. CASE endRefunds(p)
    <2>1. loops[p] \in Loop
      BY <1>1, <1>6 DEF endRefunds, between
    <2>2. mission' \in {"open", "settled", "cancelled"}
      BY <1>6, <2>1 DEF endRefunds, Loop
    <2>3. run' \in {run, Idle} /\ Idle \in Run
      BY <1>6 DEF endRefunds, Idle, Run
    <2> QED BY <1>6, <2>2, <2>3 DEF endRefunds
  <1>7. CASE refundFails(p)
    <2>1. loops[p] \in Loop
      BY <1>1, <1>7 DEF refundFails
    <2>2. PICK o \in Operators : loops' = cleared(p) \/ loops' = skipped(p, o)
      <3>1. CASE loops[p].paid # {} /\ loops' = cleared(p)
        BY <2>1, <3>1 DEF Loop
      <3>2. CASE \E o \in loops[p].todo : loops' = skipped(p, o)
        BY <1>3, <2>1, <3>2
      <3> QED BY <1>7, <3>1, <3>2 DEF refundFails, cleared, skipped
    <2>3. loops' \in Loops
      BY <1>2, <2>1, <2>2, LoopsStayLoops
    <2> QED BY <1>7, <2>3 DEF refundFails, Fault, Loops
  <1> QED BY <1>4, <1>5, <1>6, <1>7 DEF refundStep

(* The shapes a run has at its places. *)
LEMMA RunShapes ==
    ASSUME run \in Run
    PROVE  /\ run.at = "scoring" => run.field \subseteq Operators
           /\ run.at \in {"post", "settle", "settled", "persist"} => run.tree \in Seq(Operators)
           /\ run.at \in {"post", "settle", "settled", "cancel"} =>
                \A a \in {"settle", "settled", "cancelled"} :
                    (a = "cancelled") = (run.at = "cancel") =>
                        [run EXCEPT !.at = a] \in Run /\ [run EXCEPT !.at = a].at = a
           /\ run.at = "settled" /\ ~run.retry => run.field \subseteq Operators
           /\ run.at = "persist" =>
                  /\ run.field \subseteq Operators /\ run.rank \in Nat
                  /\ [run EXCEPT !.rank = @ + 1] \in Run
                  /\ [run EXCEPT !.rank = @ + 1].at = "persist"
                  /\ [run EXCEPT !.rank = @ + 1].tree = run.tree
                  /\ [run EXCEPT !.rank = @ + 1].rank = run.rank + 1
                  /\ [run EXCEPT !.at = "post"] \in Run
                  /\ [run EXCEPT !.at = "post"].at = "post"
                  /\ [run EXCEPT !.at = "post"].tree = run.tree
  <1> DEFINE Short == [at: {"idle", "window", "field", "refunding"}]
             Field == [at: {"scoring"}, field: SUBSET Operators]
             Retry == [at: {"post", "settle", "settled"}, tree: Seq(Operators), retry: {TRUE}]
             First == [at: {"persist", "post", "settle", "settled", "cancel", "cancelled"},
                       field: SUBSET Operators, tree: Seq(Operators), retry: {FALSE}, rank: Nat]
  <1>1. Run = Short \cup Field \cup Retry \cup First
    BY DEF Run
  <1>2. CASE run \in Short
    BY <1>2
  <1>3. CASE run \in Field
    BY <1>3
  <1>4. CASE run \in Retry
    <2>1. ASSUME NEW a \in {"settle", "settled"}
          PROVE  [run EXCEPT !.at = a] \in Retry /\ [run EXCEPT !.at = a].at = a
      BY <1>4
    <2> QED BY <1>1, <1>4, <2>1
  <1>5. CASE run \in First
    <2>1. ASSUME NEW a \in {"post", "settle", "settled", "cancelled"}
          PROVE  /\ [run EXCEPT !.at = a] \in First
                 /\ [run EXCEPT !.at = a].at = a /\ [run EXCEPT !.at = a].tree = run.tree
      BY <1>5
    <2>2. run.rank + 1 \in Nat
      BY <1>5
    <2>3. ASSUME NEW n \in Nat
          PROVE  /\ [run EXCEPT !.rank = n] \in First
                 /\ [run EXCEPT !.rank = n].at = run.at
                 /\ [run EXCEPT !.rank = n].tree = run.tree
                 /\ [run EXCEPT !.rank = n].rank = n
      BY <1>5
    <2>4. /\ [run EXCEPT !.rank = @ + 1] \in First
          /\ [run EXCEPT !.rank = @ + 1].at = run.at
          /\ [run EXCEPT !.rank = @ + 1].tree = run.tree
          /\ [run EXCEPT !.rank = @ + 1].rank = run.rank + 1
      BY <2>2, <2>3
    <2> QED BY <1>1, <1>5, <2>1, <2>4
  <1> QED BY <1>1, <1>2, <1>3, <1>4, <1>5

(* A step that leaves chain and rows alone, sends no root and does not     *)
(* bring the run nearer to posting one disturbs only the types.            *)
LEMMA QuietStep ==
    ASSUME SettlementInv, SettlementTypeOK', UNCHANGED <<contest, payouts>>,
           run' = run \/ run'.at \notin {"field", "scoring", "persist", "post"},
           \A i \in DOMAIN mempool' : mempool'[i].call = "postScoreRoot" =>
               \E j \in DOMAIN mempool : /\ mempool[j].call = "postScoreRoot"
                                         /\ mempool[j].root = mempool'[i].root
    PROVE  SettlementInv'
  <1> USE DEF SettlementInv
  <1>1. PostedTreeIsStored'
    BY DEF PostedTreeIsStored
  <1>2. RootsOnTheWay'
    BY DEF RootsOnTheWay
  <1>3. RunHoldsRows'
    <2>1. NothingPosted => NothingPosted'
      BY DEF NothingPosted
    <2> QED BY <2>1 DEF RunHoldsRows
  <1> QED BY <1>1, <1>2, <1>3

(* Without rows there is no root, posted or sent. *)
LEMMA NoRowsNoRoot ==
    ASSUME SettlementInv, payouts = << >>
    PROVE  NothingPosted
  BY DEF SettlementInv, PostedTreeIsStored, RootsOnTheWay, NothingPosted, NoRoot

(* A pending transaction is mined. *)
LEMMA MineInv == ASSUME SettlementInv, mine PROVE SettlementInv'
  <1>1. /\ mempool' \in Seq(Tx) /\ mempool[1] \in Tx /\ 1 \in DOMAIN mempool
        /\ contest' \in {contest, executed(mempool[1])}
        /\ \A i \in DOMAIN mempool' : i + 1 \in DOMAIN mempool /\ mempool'[i] = mempool[i + 1]
    BY MineTakesFirst DEF SettlementInv
  <1>2. UNCHANGED <<closed, payouts, mission, feeMarked, withdrawn, received, run, worker, loops,
                    clicks, faults>>
    BY DEF mine, tables, processes
  <1>3. contest' = contest \/ contest'.finalRoot = contest.finalRoot
            \/ (mempool[1].call = "postScoreRoot" /\ contest'.finalRoot = mempool[1].root)
    BY <1>1 DEF executed, Tx, SettlementInv, SettlementTypeOK
  <1>4. contest' \in [status: {"OPEN", "SCORING", "SETTLED", "CANCELLED"},
                      finalRoot: Seq(Operators)]
    <2> DEFINE C == [status: {"OPEN", "SCORING", "SETTLED", "CANCELLED"},
                     finalRoot: Seq(Operators)]
    <2>1. contest \in C
      BY DEF SettlementInv, SettlementTypeOK
    <2>2. \A st \in {"SETTLED", "CANCELLED"} : [contest EXCEPT !.status = st] \in C
      BY <2>1
    <2>3. mempool[1].root \in Seq(Operators)
              /\ mempool[1].call \in {"postScoreRoot", "settle", "cancelContest"}
      BY <1>1 DEF Tx
    <2>4. \A r \in Seq(Operators) : [status |-> "SCORING", finalRoot |-> r] \in C
      OBVIOUS
    <2>5. executed(mempool[1]) \in C
      <3> HIDE DEF C
      <3>1. CASE mempool[1].call = "postScoreRoot"
        BY <2>3, <2>4, <3>1 DEF executed
      <3>2. CASE mempool[1].call = "settle"
        BY <2>2, <3>2 DEF executed
      <3>3. CASE mempool[1].call = "cancelContest"
        BY <2>2, <3>3 DEF executed
      <3> QED BY <2>3, <3>1, <3>2, <3>3
    <2> QED BY <1>1, <2>1, <2>5
  <1>5. SettlementTypeOK'
    BY <1>1, <1>2, <1>4 DEF SettlementInv, SettlementTypeOK
  <1>6. PostedTreeIsStored'
    BY <1>1, <1>2, <1>3 DEF SettlementInv, PostedTreeIsStored, RootsOnTheWay
  <1>7. RootsOnTheWay'
    BY <1>1, <1>2 DEF SettlementInv, RootsOnTheWay
  <1>8. NothingPosted => NothingPosted'
    BY <1>1, <1>3 DEF NothingPosted
  <1>9. RunHoldsRows'
    BY <1>2, <1>8 DEF SettlementInv, RunHoldsRows
  <1> QED BY <1>5, <1>6, <1>7, <1>9 DEF SettlementInv
-----------------------------------------------------------------------------
(* The run's way to the rows. *)
LEMMA ReadPersistedInv == ASSUME SettlementInv, readPersisted PROVE SettlementInv'
  <1>1. UNCHANGED <<contest, closed, mempool, payouts, mission, feeMarked, withdrawn, received,
                    worker, loops, clicks, faults>>
    BY DEF readPersisted, chain, tables
  <1>2. payouts \in Seq(Operators) /\ run.at = "window"
    BY DEF readPersisted, SettlementInv, SettlementTypeOK
  <1>3. CASE retrying
    <2>1. run' = [at |-> "post", tree |-> payouts, retry |-> TRUE]
      BY <1>3 DEF readPersisted
    <2>2. run' \in Run
      BY <1>2, <2>1 DEF Run
    <2>3. SettlementTypeOK'
      BY <1>1, <2>2 DEF SettlementInv, SettlementTypeOK
    <2>4. RunHoldsRows'
      BY <1>1, <1>3, <2>1 DEF RunHoldsRows, retrying
    <2> QED BY <1>1, <2>3, <2>4 DEF SettlementInv, PostedTreeIsStored, RootsOnTheWay
  <1>4. CASE ~retrying
    <2>1. run' = [at |-> "field"] /\ payouts = << >>
      BY <1>4 DEF readPersisted, retrying
    <2>2. run' \in Run
      BY <2>1 DEF Run
    <2>3. SettlementTypeOK'
      BY <1>1, <2>2 DEF SettlementInv, SettlementTypeOK
    <2>4. RunHoldsRows'
      BY <1>1, <2>1 DEF RunHoldsRows
    <2> QED BY <1>1, <2>3, <2>4 DEF SettlementInv, PostedTreeIsStored, RootsOnTheWay
  <1> QED BY <1>3, <1>4

LEMMA FetchFieldInv == ASSUME SettlementInv, fetchField PROVE SettlementInv'
  <1>1. UNCHANGED <<contest, closed, mempool, payouts, mission, feeMarked, withdrawn, received,
                    worker, loops, clicks, faults>>
    BY DEF fetchField, chain, tables
  <1>2. run' = [at |-> "scoring", field |-> Operators \ withdrawn] /\ run.at = "field"
    BY DEF fetchField
  <1>3. run' \in Run
    BY <1>2 DEF Run
  <1>4. SettlementTypeOK'
    BY <1>1, <1>3 DEF SettlementInv, SettlementTypeOK
  <1>5. RunHoldsRows'
    BY <1>1, <1>2 DEF SettlementInv, RunHoldsRows
  <1> QED BY <1>1, <1>4, <1>5 DEF SettlementInv, PostedTreeIsStored, RootsOnTheWay

LEMMA ScoreInv == ASSUME SettlementInv, score PROVE SettlementInv'
  <1>1. UNCHANGED <<contest, closed, mempool, payouts, mission, feeMarked, withdrawn, received,
                    worker, loops, clicks, faults>>
    BY DEF score, chain, tables
  <1>2. run.field \subseteq Operators /\ payouts = << >> /\ NothingPosted
    BY RunShapes, NoRowsNoRoot DEF score, SettlementInv, SettlementTypeOK, RunHoldsRows
  <1>3. PICK t \in Trees(run.field) :
            run' = [at |-> IF t = << >> THEN "cancel" ELSE "persist", field |-> run.field,
                    tree |-> t, retry |-> FALSE, rank |-> 1]
    BY DEF score
  <1>4. t \in Seq(Operators)
    BY <1>2, TreesAreSequences
  <1>5. run' \in Run
    BY <1>2, <1>3, <1>4 DEF Run
  <1>6. SettlementTypeOK'
    BY <1>1, <1>5 DEF SettlementInv, SettlementTypeOK
  <1>7. RunHoldsRows'
    BY <1>1, <1>2, <1>3, <1>4 DEF RunHoldsRows, NothingPosted
  <1> QED BY <1>1, <1>6, <1>7 DEF SettlementInv, PostedTreeIsStored, RootsOnTheWay

(* A row is added while nothing was posted, and it is the next of the tree. *)
LEMMA InsertPayoutInv == ASSUME SettlementInv, insertPayout PROVE SettlementInv'
  <1>1. UNCHANGED <<contest, closed, mempool, mission, feeMarked, withdrawn, received, worker,
                    loops, clicks, faults>>
    BY DEF insertPayout, chain
  <1>2. /\ payouts \in Seq(Operators) /\ run.tree \in Seq(Operators) /\ run.rank \in Nat
        /\ NothingPosted /\ Len(payouts) = run.rank - 1 /\ run.rank <= Len(run.tree)
        /\ \A i \in DOMAIN payouts : payouts[i] = run.tree[i]
    BY RunShapes DEF insertPayout, SettlementInv, SettlementTypeOK, RunHoldsRows
  <1>3. run.rank \notin DOMAIN payouts /\ run.rank \in DOMAIN run.tree
    BY <1>2
  <1>4. payouts' = Append(payouts, run.tree[run.rank])
    BY <1>3 DEF insertPayout
  <1>5. /\ payouts' \in Seq(Operators) /\ Len(payouts') = run.rank /\ payouts' # << >>
        /\ \A i \in DOMAIN payouts' : payouts'[i] = run.tree[i]
    <2>1. run.tree[run.rank] \in Operators
      BY <1>2, <1>3
    <2> QED BY <1>2, <1>4, <2>1, AppendProperties
  <1>6. NothingPosted'
    BY <1>1, <1>2 DEF NothingPosted
  <1>7. CASE run.rank < Len(run.tree)
    <2>1. run' = [run EXCEPT !.rank = @ + 1]
      BY <1>7 DEF insertPayout
    <2>2. run' \in Run /\ run'.at = "persist" /\ run'.tree = run.tree /\ run'.rank = run.rank + 1
      BY <2>1, RunShapes DEF insertPayout, SettlementInv, SettlementTypeOK
    <2>3. RunHoldsRows'
      BY <1>2, <1>5, <1>6, <1>7, <2>2 DEF RunHoldsRows
    <2>4. SettlementTypeOK'
      BY <1>1, <1>5, <2>2 DEF SettlementInv, SettlementTypeOK
    <2> QED BY <1>6, <2>3, <2>4
            DEF SettlementInv, PostedTreeIsStored, RootsOnTheWay, NothingPosted
  <1>8. CASE ~(run.rank < Len(run.tree))
    <2>1. run' = [run EXCEPT !.at = "post"]
      BY <1>8 DEF insertPayout
    <2>2. run' \in Run /\ run'.at = "post" /\ run'.tree = run.tree
      BY <2>1, RunShapes DEF insertPayout, SettlementInv, SettlementTypeOK
    <2>3. payouts' = run.tree
      BY <1>2, <1>5, <1>8
    <2>4. RunHoldsRows'
      BY <1>5, <2>2, <2>3 DEF RunHoldsRows
    <2>5. SettlementTypeOK'
      BY <1>1, <1>5, <2>2 DEF SettlementInv, SettlementTypeOK
    <2> QED BY <1>6, <2>4, <2>5
            DEF SettlementInv, PostedTreeIsStored, RootsOnTheWay, NothingPosted
  <1> QED BY <1>7, <1>8
-----------------------------------------------------------------------------
(* A call of the run is sent: the root of the rows, or no root. *)
LEMMA SendCallInv == ASSUME SettlementInv, sendCall PROVE SettlementInv'
  <1>1. UNCHANGED <<contest, closed, payouts, mission, feeMarked, withdrawn, received, worker,
                    loops, clicks, faults>>
    BY DEF sendCall, tables
  <1>2. run.at \in {"post", "settle", "cancel"} /\ run' = [run EXCEPT !.at = after[@]]
    BY DEF sendCall, sending, callAt
  <1>3. run' \in Run /\ run'.at = after[run.at]
    <2>1. /\ after[run.at] \in {"settle", "settled", "cancelled"}
          /\ (after[run.at] = "cancelled") = (run.at = "cancel")
      BY <1>2 DEF after
    <2>2. run \in Run /\ run' = [run EXCEPT !.at = after[run.at]]
      BY <1>2 DEF SettlementInv, SettlementTypeOK
    <2> HIDE DEF after
    <2> QED BY <1>2, <2>1, <2>2, RunShapes
  <1>4. CASE run.at = "post"
    <2>1. submit("run", "postScoreRoot", run.tree)
      BY <1>4 DEF sendCall, callAt
    <2>2. run.tree \in Seq(Operators) /\ run.tree = payouts /\ payouts # << >>
      BY <1>4 DEF SettlementInv, SettlementTypeOK, RunHoldsRows
    <2>3. /\ mempool' \in Seq(Tx) /\ mempool \in Seq(Tx)
          /\ DOMAIN mempool' = 1..Len(mempool) + 1
          /\ \A i \in 1..Len(mempool) : mempool'[i] = mempool[i]
          /\ mempool'[Len(mempool) + 1].root = payouts
      BY <2>1, <2>2, SubmitAppends DEF SettlementInv, SettlementTypeOK, Refunders
    <2>4. SettlementTypeOK'
      BY <1>1, <1>3, <2>3 DEF SettlementInv, SettlementTypeOK
    <2>5. RootsOnTheWay'
      BY <1>1, <2>2, <2>3 DEF SettlementInv, RootsOnTheWay
    <2>6. run'.at = "settle"
      BY <1>3, <1>4 DEF after
    <2>7. RunHoldsRows'
      BY <2>6 DEF RunHoldsRows
    <2> QED BY <1>1, <2>4, <2>5, <2>7 DEF SettlementInv, PostedTreeIsStored
  <1>5. CASE run.at \in {"settle", "cancel"}
    <2>1. PICK call \in {"settle", "cancelContest"} : submit("run", call, NoRoot)
      BY <1>5 DEF sendCall, callAt
    <2>2. NoRoot \in Seq(Operators)
      BY DEF NoRoot
    <2>3. /\ mempool' \in Seq(Tx) /\ mempool \in Seq(Tx)
          /\ DOMAIN mempool' = 1..Len(mempool) + 1
          /\ \A i \in 1..Len(mempool) : mempool'[i] = mempool[i]
          /\ mempool'[Len(mempool) + 1].call = call
      BY <2>1, <2>2, SubmitAppends DEF SettlementInv, SettlementTypeOK, Refunders
    <2>4. SettlementTypeOK'
      BY <1>1, <1>3, <2>3 DEF SettlementInv, SettlementTypeOK
    <2>5. run'.at \in {"settled", "cancelled"}
      BY <1>3, <1>5 DEF after
    <2> QED BY <1>1, <2>3, <2>4, <2>5, QuietStep
  <1> QED BY <1>2, <1>4, <1>5

(* The loops the coordinator starts are loops. *)
LEMMA NewLoops ==
    ASSUME SettlementTypeOK
    PROVE  /\ refundMissionFees("cancelled") \in Loop /\ refundMissionFees("none") \in Loop
           /\ \A os \in SUBSET Operators : refundParticipationFees(os) \in Loop
           /\ \A p \in Refunders, l \in Loop \cup {NoLoop} : [loops EXCEPT ![p] = l] \in Loops
  BY DEF SettlementTypeOK, refundMissionFees, refundParticipationFees, Loop, Loops

(* The run starts, returns or goes on to its refunds. *)
LEMMA RunTurnsInv ==
    ASSUME SettlementInv, startRun \/ callThrows \/ finishSettled \/ finishCancelled
    PROVE  SettlementInv'
  <1>1. UNCHANGED <<contest, closed, mempool, payouts, feeMarked, withdrawn, received, worker,
                    clicks, faults>>
    BY DEF startRun, callThrows, finishSettled, finishCancelled, chain, tables
  <1>2. run' \in Run /\ run'.at \in {"idle", "window", "refunding"}
    <2>1. PICK a \in {"idle", "window", "refunding"} : run' = [at |-> a]
      BY DEF startRun, callThrows, finishSettled, finishCancelled, Idle
    <2> QED BY <2>1 DEF Run
  <1>3. mission' \in {mission, "settled"}
    BY DEF startRun, callThrows, finishSettled, finishCancelled, tables
  <1>4. loops' = loops \/ loops' \in Loops
    <2>1. CASE finishSettled
      <3>1. run.at = "settled" /\ ~run.retry => run.field \subseteq Operators
        BY RunShapes DEF SettlementInv, SettlementTypeOK
      <3>2. \/ loops' = loops
            \/ \E os \in SUBSET Operators :
                  loops' = [loops EXCEPT !["run"] = refundParticipationFees(os)]
        BY <2>1, <3>1 DEF finishSettled
      <3> QED BY <3>2, NewLoops DEF SettlementInv, Refunders
    <2>2. CASE finishCancelled
      BY <2>2, NewLoops DEF finishCancelled, SettlementInv, Refunders
    <2> QED BY <2>1, <2>2 DEF startRun, callThrows
  <1>5. SettlementTypeOK'
    BY <1>1, <1>2, <1>3, <1>4 DEF SettlementInv, SettlementTypeOK, Loops
  <1> QED BY <1>1, <1>2, <1>5, QuietStep

(* A process fails or the coordinator restarts; what was sent stays sent. *)
LEMMA FailureInv ==
    ASSUME SettlementInv, runFails \/ restart \/ cancelFails
    PROVE  SettlementInv'
  <1>1. UNCHANGED <<contest, closed, payouts, mission, feeMarked, withdrawn, received, clicks>>
    BY DEF runFails, restart, cancelFails, tables
  <1>2. run' \in {run, Idle} /\ Idle \in Run /\ Idle.at = "idle"
    BY DEF runFails, restart, cancelFails, Idle, Run
  <1>3. worker' \in {worker, "idle"} /\ faults' = faults + 1
    BY DEF runFails, restart, cancelFails, Fault
  <1>4. loops' \in Loops
    BY DEF runFails, restart, cancelFails, SettlementInv, SettlementTypeOK, Loops
  <1>5. PICK ps : mempool' = withoutWaiting(ps)
    BY DEF runFails, restart, cancelFails
  <1>6. /\ mempool' \in Seq(Tx)
        /\ DOMAIN mempool' = DOMAIN mempool
        /\ \A i \in DOMAIN mempool : /\ mempool'[i].call = mempool[i].call
                                     /\ mempool'[i].root = mempool[i].root
    BY <1>5, AbandonedStayPending DEF SettlementInv
  <1>7. SettlementTypeOK'
    BY <1>1, <1>2, <1>3, <1>4, <1>6 DEF SettlementInv, SettlementTypeOK, Loops
  <1> QED BY <1>1, <1>2, <1>6, <1>7, QuietStep

(* Somebody beside the run cancels the contest. *)
LEMMA CancelSentInv ==
    ASSUME SettlementInv, cancelOnChain \/ apiCancel
    PROVE  SettlementInv'
  <1>1. UNCHANGED <<contest, closed, payouts, mission, feeMarked, withdrawn, received, run,
                    loops, clicks, faults>>
    BY DEF cancelOnChain, apiCancel, tables, processes
  <1>2. worker' \in {worker, "cancelling"}
    BY DEF cancelOnChain, apiCancel, processes
  <1>3. PICK p \in Refunders \cup {"nobody"} : submit(p, "cancelContest", NoRoot)
    BY DEF cancelOnChain, apiCancel, Refunders
  <1>4. NoRoot \in Seq(Operators)
    BY DEF NoRoot
  <1>5. /\ mempool' \in Seq(Tx) /\ mempool \in Seq(Tx)
        /\ DOMAIN mempool' = 1..Len(mempool) + 1
        /\ \A i \in 1..Len(mempool) : mempool'[i] = mempool[i]
        /\ mempool'[Len(mempool) + 1].call = "cancelContest"
    BY <1>3, <1>4, SubmitAppends DEF SettlementInv, SettlementTypeOK
  <1>6. SettlementTypeOK'
    BY <1>1, <1>2, <1>5 DEF SettlementInv, SettlementTypeOK
  <1> QED BY <1>1, <1>5, <1>6, QuietStep

(* Refunds and withdrawals touch neither the rows nor the roots. *)
LEMMA RefundsInv ==
    ASSUME SettlementInv, NEW p \in Refunders,
           \/ refundStep(p) \/ refundFails(p)
           \/ cancelReceipt \/ refundAllCancelledMissions(p)
    PROVE  SettlementInv'
  <1>1. CASE refundStep(p) \/ refundFails(p)
    <2>1. SettlementTypeOK' /\ UNCHANGED <<contest, mempool, payouts>> /\ run' \in {run, Idle}
      BY <1>1, RefundTypeOK DEF SettlementInv
    <2> QED BY <2>1, QuietStep DEF Idle
  <1>2. CASE cancelReceipt \/ refundAllCancelledMissions(p)
    <2>1. UNCHANGED <<contest, closed, mempool, payouts, mission, feeMarked, withdrawn, received,
                      run, clicks, faults>>
      BY <1>2 DEF cancelReceipt, refundAllCancelledMissions, chain, tables
    <2>2. worker' \in {worker, "refunding"}
      BY <1>2 DEF cancelReceipt, refundAllCancelledMissions
    <2>3. loops' \in Loops
      BY <1>2, NewLoops DEF cancelReceipt, refundAllCancelledMissions, SettlementInv, Refunders
    <2>4. SettlementTypeOK'
      BY <2>1, <2>2, <2>3 DEF SettlementInv, SettlementTypeOK, Loops
    <2> QED BY <2>1, <2>4, QuietStep
  <1> QED BY <1>1, <1>2

WithdrawStep(q) == \/ \E o \in Operators : checkWithdrawal(q, o)
                   \/ sendWithdrawn(q) \/ markWithdrawn(q) \/ recordWithdrawal(q)
                   \/ withdrawFails(q)

LEMMA WithdrawInv ==
    ASSUME SettlementInv, NEW q \in Clicks, WithdrawStep(q)
    PROVE  SettlementInv'
  <1> USE DEF WithdrawStep
  <1>1. UNCHANGED <<contest, closed, mempool, payouts, mission, run, worker, loops>>
    BY DEF checkWithdrawal, sendWithdrawn, markWithdrawn, recordWithdrawal, withdrawFails,
           withdrawStep, chain, tables
  <1>2. clicks[q] \in Click \cup {Idle}
    BY DEF SettlementInv, SettlementTypeOK
  <1>3. \A to \in {"mark", "record"} :
            clicks[q] \in Click => [clicks[q] EXCEPT !.at = to] \in Click
    BY DEF Click
  <1>4. clicks' \in [Clicks -> Click \cup {Idle}]
    <2>1. \A c \in Click \cup {Idle} : [clicks EXCEPT ![q] = c] \in [Clicks -> Click \cup {Idle}]
      BY DEF SettlementInv, SettlementTypeOK
    <2>2. CASE \E o \in Operators : checkWithdrawal(q, o)
      <3>1. PICK o \in Operators : checkWithdrawal(q, o)
        BY <2>2
      <3> DEFINE c == [at |-> IF o \in feeMarked THEN "record" ELSE "send", of |-> o]
      <3>2. c \in Click /\ clicks' = [clicks EXCEPT ![q] = c]
        BY <3>1 DEF checkWithdrawal, Click
      <3> HIDE DEF c
      <3> QED BY <2>1, <3>2
    <2>3. CASE sendWithdrawn(q) \/ markWithdrawn(q)
      <3>1. PICK to \in {"mark", "record"} :
                clicks' = [clicks EXCEPT ![q] = [clicks[q] EXCEPT !.at = to]]
        BY <2>3 DEF sendWithdrawn, markWithdrawn, withdrawStep
      <3>2. clicks[q] \in Click
        BY <1>2, <2>3 DEF sendWithdrawn, markWithdrawn, withdrawStep, Idle
      <3>3. [clicks[q] EXCEPT !.at = to] \in Click
        BY <1>3, <3>2
      <3> QED BY <2>1, <3>1, <3>3
    <2>4. CASE recordWithdrawal(q) \/ withdrawFails(q)
      <3>1. clicks' = [clicks EXCEPT ![q] = Idle]
        BY <2>4 DEF recordWithdrawal, withdrawFails, withdrawStep
      <3> QED BY <2>1, <3>1
    <2> QED BY <2>2, <2>3, <2>4
  <1>5. \A at : at \in {"send", "mark", "record"} /\ clicks[q].at = at => clicks[q].of \in Operators
    BY <1>2 DEF Click, Idle
  <1>6. feeMarked' \subseteq Operators /\ withdrawn' \subseteq Operators
    <2>1. feeMarked \subseteq Operators /\ withdrawn \subseteq Operators
      BY DEF SettlementInv, SettlementTypeOK
    <2>2. feeMarked' = feeMarked \/ (feeMarked' = feeMarked \cup {clicks[q].of}
                                       /\ clicks[q].of \in Operators)
      BY <1>5 DEF checkWithdrawal, sendWithdrawn, markWithdrawn, recordWithdrawal, withdrawFails,
                  withdrawStep, tables
    <2>3. withdrawn' = withdrawn \/ (withdrawn' = withdrawn \cup {clicks[q].of}
                                       /\ clicks[q].of \in Operators)
      BY <1>5 DEF checkWithdrawal, sendWithdrawn, markWithdrawn, recordWithdrawal, withdrawFails,
                  withdrawStep, tables
    <2> QED BY <2>1, <2>2, <2>3
  <1>7. received' \in [Operators -> Nat]
    <2>1. received \in [Operators -> Nat]
      BY DEF SettlementInv, SettlementTypeOK
    <2> QED BY <1>5, <2>1 DEF checkWithdrawal, sendWithdrawn, markWithdrawn, recordWithdrawal,
                              withdrawFails, withdrawStep
  <1>8. faults' \in Nat
    BY DEF checkWithdrawal, sendWithdrawn, markWithdrawn, recordWithdrawal, withdrawFails,
           withdrawStep, Fault, SettlementInv, SettlementTypeOK
  <1>9. SettlementTypeOK'
    BY <1>1, <1>4, <1>6, <1>7, <1>8 DEF SettlementInv, SettlementTypeOK
  <1> QED BY <1>1, <1>9, QuietStep

LEMMA WindowClosesInv == ASSUME SettlementInv, windowCloses PROVE SettlementInv'
  <1>1. SettlementTypeOK' /\ UNCHANGED <<contest, mempool, payouts, run>>
    BY DEF windowCloses, tables, processes, SettlementInv, SettlementTypeOK
  <1> QED BY <1>1, QuietStep

LEMMA SettlementStepInv == SettlementInv /\ [SettlementNext]_settlementVars => SettlementInv'
  <1> SUFFICES ASSUME SettlementInv, [SettlementNext]_settlementVars PROVE SettlementInv'
    OBVIOUS
  <1>1. CASE runStep
    <2>1. "run" \in Refunders
      BY DEF Refunders
    <2> QED BY <1>1, <2>1, RunTurnsInv, ReadPersistedInv, FetchFieldInv, ScoreInv,
               InsertPayoutInv, SendCallInv, RefundsInv DEF runStep
  <1>2. CASE UNCHANGED settlementVars
    BY <1>2 DEF settlementVars, chain, tables, processes, SettlementInv, SettlementTypeOK,
                PostedTreeIsStored, RootsOnTheWay, RunHoldsRows, NothingPosted
  <1>3. CASE cancelReceipt
    BY <1>3, RefundsInv DEF Refunders
  <1>4. CASE \E p \in Refunders : \/ p # "run" /\ (refundStep(p) \/ refundAllCancelledMissions(p))
                                  \/ refundFails(p)
    BY <1>4, RefundsInv
  <1>5. CASE \E q \in Clicks : WithdrawStep(q)
    BY <1>5, WithdrawInv
  <1> QED BY <1>1, <1>2, <1>3, <1>4, <1>5, MineInv, WindowClosesInv, FailureInv, CancelSentInv
          DEF SettlementNext, WithdrawStep
-----------------------------------------------------------------------------
(* Every state of the contest, the tables, the mempool and the processes   *)
(* has its type.                                                           *)
THEOREM SettlementTypeCorrect == SettlementSpec => []SettlementTypeOK
  <1>1. SettlementInv => SettlementTypeOK
    BY DEF SettlementInv
  <1> QED BY <1>1, SettlementInitInv, SettlementStepInv, PTL DEF SettlementSpec

(* The root on chain is the root of the payout rows, so every stored proof *)
(* verifies against it, whatever failed and was retried (runContestById).  *)
THEOREM StoredTreePosted == SettlementSpec => []PostedTreeIsStored
  <1>1. SettlementInv => PostedTreeIsStored
    BY DEF SettlementInv
  <1> QED BY <1>1, SettlementInitInv, SettlementStepInv, PTL DEF SettlementSpec
=============================================================================
