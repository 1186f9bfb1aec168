------------------------ MODULE AgonCompetitionProofs ------------------------
(***************************************************************************)
(* AgonPrizeVault for every number of pools, every set of accounts, roots, *)
(* totals and rates: the vault is solvent, it implements the abstract      *)
(* custody contract, and an honest root pays everyone.  The invariant is   *)
(* VaultInv; its induction step is taken together with the custody step,   *)
(* since both say what a handler does to one pool's holding and the pot.   *)
(* AgonArena for every number of evaluations, rows and readers: ArenaInv   *)
(* adds what each row, and each read in flight, says of its evaluation.    *)
(***************************************************************************)
EXTENDS AgonPrizeVault, AgonArena, AgonServiceRegistryProofs, SumsProofs, TLAPS

CustodyStep == [Pots!Next]_(Pots!vars)

(* What a pool record p leaves in the vault. *)
HeldOf(p) == IF p.state \in {"Funded", "RootPublished"} THEN p.principal - p.claimedTotal ELSE 0

LEMMA HoldersFacts ==
    /\ Vault \in Holders
    /\ \A a \in Accounts : a \in Holders /\ a # Vault
    /\ \A t \in Treasuries : t \in Holders /\ t # Vault
    /\ MaxPools \in Nat /\ MaxIndex \in Nat
  BY VaultAssumption

(* One transfer keeps the balances natural and moves exactly its amount. *)
LEMMA VaultTransfer ==
    ASSUME NEW bal \in [Holders -> Nat], NEW from \in Holders, NEW to \in Holders, from # to,
           NEW amount \in Nat, bal[from] >= amount
    PROVE  /\ Moved(bal, from, to, amount) \in [Holders -> Nat]
           /\ Moved(bal, from, to, amount)[from] = bal[from] - amount
           /\ Moved(bal, from, to, amount)[to] = bal[to] + amount
  BY DEF Moved

LEMMA HeldType ==
    ASSUME VaultTypeOK
    PROVE  /\ HeldByKey \in [1..MaxPools -> Nat]
           /\ \A k \in Keys : HeldByKey[k] = HeldOf(pools[k])
<1>1. ASSUME NEW k \in Keys PROVE held(k) \in Nat /\ held(k) = HeldOf(pools[k])
  <2>1. pools[k] \in Pool /\ pools[k].claimedTotal <= pools[k].principal
    BY DEF VaultTypeOK, Pool
  <2> QED BY <2>1 DEF held, remaining, HeldOf, Pool
<1> QED BY <1>1 DEF HeldByKey, Keys

LEMMA NextHeldType ==
    ASSUME VaultTypeOK'
    PROVE  /\ HeldByKey' \in [1..MaxPools -> Nat]
           /\ \A k \in Keys : HeldByKey'[k] = HeldOf(pools'[k])
<1>1. ASSUME NEW k \in Keys PROVE held(k)' \in Nat /\ held(k)' = HeldOf(pools'[k])
  <2>1. pools'[k] \in Pool /\ pools'[k].claimedTotal <= pools'[k].principal
    BY DEF VaultTypeOK, Pool
  <2> QED BY <2>1 DEF held, remaining, HeldOf, Pool
<1> QED BY <1>1 DEF HeldByKey, Keys

(* A step on pool k alone that moves the vault's balance by what it moves  *)
(* the pool's holding keeps the vault solvent and is a step of custody.    *)
LEMMA PoolStep ==
    ASSUME VaultTypeOK, VaultTypeOK', VaultSolvency, NEW k \in Keys,
           \A j \in Keys \ {k} : pools'[j] = pools[j],
           usdc'[Vault] - usdc[Vault] = HeldOf(pools'[k]) - HeldOf(pools[k])
    PROVE  VaultSolvency' /\ CustodyStep
<1>1. /\ HeldByKey \in [1..MaxPools -> Nat]
      /\ HeldByKey' \in [1..MaxPools -> Nat]
      /\ HeldByKey[k] = HeldOf(pools[k])
      /\ HeldByKey'[k] = HeldOf(pools'[k])
      /\ \A j \in Keys \ {k} : HeldByKey'[j] = HeldByKey[j]
  BY HeldType, NextHeldType
<1>2. k \in 1..MaxPools /\ MaxPools \in Nat
  BY HoldersFacts DEF Keys
<1>3. usdc[Vault] \in Nat /\ usdc'[Vault] \in Nat
  BY HoldersFacts DEF VaultTypeOK, USDCTypeOK
<1>4. HeldByKey[k] \in Nat /\ HeldByKey'[k] \in Nat
  BY <1>1, <1>2
<1>5. VaultSolvency'
  <2>1. HeldByKey \in [1..MaxPools -> Int] /\ HeldByKey' \in [1..MaxPools -> Int]
    BY <1>1
  <2>2. SumTo(HeldByKey', MaxPools) = SumTo(HeldByKey, MaxPools) + (HeldByKey'[k] - HeldByKey[k])
    <3>1. \A j \in 1..MaxPools : j # k => HeldByKey'[j] = HeldByKey[j]
      BY <1>1 DEF Keys
    <3> QED BY <1>2, <2>1, <3>1, SumToUpdate
  <2>3. SumTo(HeldByKey, MaxPools) = usdc[Vault]
    BY DEF VaultSolvency
  <2>4. SumTo(HeldByKey', MaxPools) = usdc'[Vault]
    BY <1>1, <1>3, <1>4, <2>2, <2>3
  <2> QED BY <2>4 DEF VaultSolvency
<1>6. Pots!OnlyAccount(k)
  BY <1>1 DEF Pots!OnlyAccount, Keys
<1>7. usdc'[Vault] = usdc[Vault] + (HeldByKey'[k] - HeldByKey[k])
  BY <1>1, <1>3, <1>4
<1>8. CustodyStep
  <2>1. CASE HeldByKey'[k] > HeldByKey[k]
    <3>1. Pots!Deposit(k)
      BY <1>6, <1>7, <2>1 DEF Pots!Deposit
    <3> QED BY <1>2, <3>1 DEF CustodyStep, Pots!Next
  <2>2. CASE HeldByKey'[k] < HeldByKey[k]
    <3>1. Pots!PayOut(k)
      BY <1>3, <1>4, <1>6, <1>7, <2>2 DEF Pots!PayOut
    <3> QED BY <1>2, <3>1 DEF CustodyStep, Pots!Next
  <2>3. CASE HeldByKey'[k] = HeldByKey[k]
    <3>1. HeldByKey' = HeldByKey
      <4>1. \A j \in Keys : HeldByKey'[j] = HeldByKey[j]
        BY <1>1, <2>3
      <4> QED BY <4>1 DEF HeldByKey
    <3>2. usdc'[Vault] = usdc[Vault]
      BY <1>3, <1>4, <1>7, <2>3
    <3> QED BY <3>1, <3>2 DEF CustodyStep, Pots!vars
  <2> QED BY <1>4, <2>1, <2>2, <2>3
<1> QED BY <1>5, <1>8

(* What one index is due is a natural number, and is its leaf's amount     *)
(* when no other leaf has the index.                                       *)
LEMMA DueType ==
    ASSUME NEW root \in SUBSET Leaf, NEW i \in Indexes
    PROVE  Due(root, i) \in Nat
  BY DEF Due, Leaf

LEMMA DueOfLeaf ==
    ASSUME NEW root \in SUBSET Leaf, UniqueIndexes(root), NEW leaf \in root
    PROVE  leaf.index \in Indexes /\ Due(root, leaf.index) = leaf.amount
<1>1. leaf.index \in Indexes
  BY DEF Leaf
<1>2. \A l \in root : l.index = leaf.index => l = leaf
  BY DEF UniqueIndexes
<1>3. (CHOOSE l \in root : l.index = leaf.index) = leaf
  BY <1>2
<1> QED BY <1>1, <1>3 DEF Due

(* The books of a pool whose root, total and bitmap a step leaves alone.   *)
LEMMA BooksUnchanged ==
    ASSUME VaultTypeOK, BitmapMatchesBooks, NEW k \in Keys,
           pools'[k].payoutRoot = pools[k].payoutRoot,
           pools'[k].claimedTotal = pools[k].claimedTotal,
           claimed'[k] = claimed[k],
           UniqueIndexes(pools'[k].payoutRoot)
    PROVE  pools'[k].claimedTotal = SumTo(ClaimedByIndex(k)', MaxIndex)
<1>1. ClaimedByIndex(k)' = ClaimedByIndex(k)
  BY DEF ClaimedByIndex
<1>2. pools[k].claimedTotal = SumTo(ClaimedByIndex(k), MaxIndex)
  BY DEF BitmapMatchesBooks
<1> QED BY <1>1, <1>2

(* The books of a pool nothing is claimed from.                            *)
LEMMA NothingOnBooks ==
    ASSUME NEW k \in Keys, claimed[k] = {}
    PROVE  SumTo(ClaimedByIndex(k), MaxIndex) = 0
<1>1. ClaimedByIndex(k) \in [1..MaxIndex -> Int] /\ \A i \in 1..MaxIndex : ClaimedByIndex(k)[i] = 0
  BY DEF ClaimedByIndex, Indexes
<1> QED BY <1>1, SumToZero, HoldersFacts

LEMMA NextNothingOnBooks ==
    ASSUME NEW k \in Keys, claimed'[k] = {}
    PROVE  SumTo(ClaimedByIndex(k)', MaxIndex) = 0
<1>1. /\ ClaimedByIndex(k)' \in [1..MaxIndex -> Int]
      /\ \A i \in 1..MaxIndex : ClaimedByIndex(k)'[i] = 0
  BY DEF ClaimedByIndex, Indexes
<1> QED BY <1>1, SumToZero, HoldersFacts

LEMMA ClaimedType ==
    ASSUME VaultTypeOK, NEW k \in Keys
    PROVE  ClaimedByIndex(k) \in [1..MaxIndex -> Nat]
<1>1. pools[k].payoutRoot \in SUBSET Leaf
  BY DEF VaultTypeOK, Pool
<1>2. \A i \in Indexes : Due(pools[k].payoutRoot, i) \in Nat
  BY <1>1, DueType
<1> QED BY <1>2 DEF ClaimedByIndex, Indexes

LEMMA VaultInit == Init => VaultInv
<1> SUFFICES ASSUME Init PROVE VaultInv
  OBVIOUS
<1>1. /\ pools = [k \in Keys |-> Missing]
      /\ \A k \in Keys : claimed[k] = {} /\ pools[k].claimedTotal = 0 /\ HeldOf(pools[k]) = 0
  BY DEF Init, Missing, HeldOf
<1>2. VaultTypeOK
  <2>1. \A k \in Keys : pools[k] = Missing
    BY <1>1
  <2>2. Missing \in Pool
    BY VaultAssumption DEF Missing, Pool, State
  <2>3. pools \in [Keys -> Pool]
    BY <1>1, <2>2
  <2>4. claimed \in [Keys -> SUBSET Indexes] /\ treasury \in Treasuries /\ paused \in BOOLEAN
    BY DEF Init
  <2>5. TimeTypeOK /\ USDCTypeOK
    BY VaultAssumption, HorizonAssumption DEF Init, TimeInit, TimeTypeOK, USDCTypeOK
  <2>6. Missing.claimedTotal <= Missing.payoutTotal /\ Missing.payoutTotal <= Missing.principal
    BY DEF Missing
  <2> QED BY <2>1, <2>3, <2>4, <2>5, <2>6 DEF VaultTypeOK
<1>3. VaultSolvency
  <2>1. HeldByKey \in [1..MaxPools -> Nat] /\ \A k \in 1..MaxPools : HeldByKey[k] = 0
    BY <1>1, <1>2, HeldType DEF Keys
  <2>2. SumTo(HeldByKey, MaxPools) = 0
    BY <2>1, SumToZero, HoldersFacts
  <2>3. usdc[Vault] = 0
    BY VaultAssumption DEF Init
  <2> QED BY <2>2, <2>3 DEF VaultSolvency
<1>4. BitmapMatchesBooks /\ NothingClaimedYet
  BY <1>1, NothingOnBooks DEF BitmapMatchesBooks, NothingClaimedYet
<1> QED BY <1>2, <1>3, <1>4 DEF VaultInv
-----------------------------------------------------------------------------
(* Every handler preserves VaultInv and is a step of custody.              *)
LEMMA KeysApart ==
    ASSUME VaultTypeOK, NEW k \in Keys, NEW p, pools' = [pools EXCEPT ![k] = p]
    PROVE  pools'[k] = p /\ \A j \in Keys \ {k} : pools'[j] = pools[j]
  BY DEF VaultTypeOK

(* The type invariant after a step on pool k.                              *)
LEMMA PoolType ==
    ASSUME VaultTypeOK, NEW k \in Keys, NEW p \in Pool, pools' = [pools EXCEPT ![k] = p],
           p.claimedTotal <= p.payoutTotal, p.payoutTotal <= p.principal,
           usdc' \in [Holders -> Nat], claimed' \in [Keys -> SUBSET Indexes],
           UNCHANGED <<now, treasury, paused>>
    PROVE  VaultTypeOK'
<1>1. pools' \in [Keys -> Pool]
  BY DEF VaultTypeOK
<1>2. \A j \in Keys : /\ pools'[j].claimedTotal <= pools'[j].payoutTotal
                      /\ pools'[j].payoutTotal <= pools'[j].principal
  BY KeysApart DEF VaultTypeOK
<1> QED BY <1>1, <1>2 DEF VaultTypeOK, TimeTypeOK, USDCTypeOK

LEMMA CreateInv ==
    ASSUME VaultInv, NEW k \in Keys, NEW s \in Accounts, NEW amount \in Nat, NEW feeBps \in Nat,
           createPool(k, s, amount, feeBps)
    PROVE  VaultInv' /\ CustodyStep
<1> USE DEF VaultInv
<1> DEFINE fee == (amount * feeBps) \div BPS
           p == NewPool(s, amount, fee)
<1>1. fee \in Nat
  BY VaultAssumption
<1>2. /\ pools' = [pools EXCEPT ![k] = p]
      /\ pools[k].state = "None"
      /\ usdc[s] >= amount + fee
      /\ usdc' = Moved(Moved(usdc, s, Vault, amount + fee), Vault, treasury, fee)
      /\ UNCHANGED <<now, claimed, treasury, paused>>
  BY DEF createPool, CanPay
<1>3. /\ p \in Pool /\ p.state = "Funded" /\ p.payoutRoot = {}
      /\ p.claimedTotal = 0 /\ p.payoutTotal = 0 /\ p.principal = amount
  <2> HIDE DEF fee
  <2> QED BY <1>1 DEF NewPool, Pool, State
<1> HIDE DEF p, fee
<1>4. usdc' \in [Holders -> Nat] /\ usdc'[Vault] = usdc[Vault] + amount
  <2> DEFINE mid == Moved(usdc, s, Vault, amount + fee)
  <2>1. usdc \in [Holders -> Nat] /\ amount + fee \in Nat /\ treasury \in Treasuries
    BY <1>1 DEF VaultTypeOK, USDCTypeOK
  <2>2. mid \in [Holders -> Nat] /\ mid[Vault] = usdc[Vault] + (amount + fee)
    BY <1>2, <2>1, HoldersFacts, VaultTransfer
  <2>3. usdc[Vault] \in Nat
    BY <2>1, HoldersFacts
  <2>4. mid[Vault] >= fee
    BY <1>1, <2>2, <2>3
  <2> HIDE DEF mid
  <2>5. /\ Moved(mid, Vault, treasury, fee) \in [Holders -> Nat]
        /\ Moved(mid, Vault, treasury, fee)[Vault] = mid[Vault] - fee
    BY <1>1, <2>1, <2>2, <2>4, HoldersFacts, VaultTransfer
  <2>6. mid[Vault] - fee = usdc[Vault] + amount
    BY <1>1, <2>2, <2>3
  <2> QED BY <1>2, <2>5, <2>6 DEF mid
<1>5. pools'[k] = p /\ \A j \in Keys \ {k} : pools'[j] = pools[j]
  BY <1>2, KeysApart
<1>6. VaultTypeOK'
  <2>1. claimed' \in [Keys -> SUBSET Indexes] /\ p.claimedTotal <= p.payoutTotal
        /\ p.payoutTotal <= p.principal
    BY <1>2, <1>3 DEF VaultTypeOK
  <2> QED BY <1>2, <1>3, <1>4, <2>1, PoolType
<1>7. VaultSolvency' /\ CustodyStep
  <2>1. HeldOf(p) = amount /\ HeldOf(pools[k]) = 0
    BY <1>2, <1>3 DEF HeldOf
  <2>2. usdc[Vault] \in Nat
    BY HoldersFacts DEF VaultTypeOK, USDCTypeOK
  <2>3. usdc'[Vault] - usdc[Vault] = HeldOf(pools'[k]) - HeldOf(pools[k])
    BY <1>4, <1>5, <2>1, <2>2
  <2> QED BY <1>5, <1>6, <2>3, PoolStep
<1>8. claimed'[k] = {} /\ pools'[k].claimedTotal = 0
  BY <1>2, <1>3, <1>5 DEF NothingClaimedYet
<1>9. BitmapMatchesBooks'
  <2> SUFFICES ASSUME NEW j \in Keys, UniqueIndexes(pools'[j].payoutRoot)
               PROVE  pools'[j].claimedTotal = SumTo(ClaimedByIndex(j)', MaxIndex)
    BY DEF BitmapMatchesBooks
  <2>1. CASE j = k
    BY <1>8, <2>1, NextNothingOnBooks
  <2>2. CASE j # k
    BY <1>2, <1>5, <2>2, BooksUnchanged
  <2> QED BY <2>1, <2>2
<1>10. NothingClaimedYet'
  BY <1>2, <1>5, <1>8 DEF NothingClaimedYet
<1> QED BY <1>6, <1>7, <1>9, <1>10

LEMMA PublishInv ==
    ASSUME VaultInv, NEW k \in Keys, NEW root \in SUBSET Leaf, NEW total \in Nat,
           NEW deadline \in Nat, publishPayoutRoot(k, root, total, deadline)
    PROVE  VaultInv' /\ CustodyStep
<1> USE DEF VaultInv
<1> DEFINE p == [pools[k] EXCEPT !.payoutRoot = root, !.payoutTotal = total,
                                 !.claimDeadline = deadline, !.state = "RootPublished"]
<1>1. /\ pools' = [pools EXCEPT ![k] = p]
      /\ pools[k].state = "Funded"
      /\ total <= pools[k].principal
      /\ UNCHANGED <<now, usdc, claimed, treasury, paused>>
  BY Zenon DEF publishPayoutRoot
<1>2. pools[k] \in Pool
  BY DEF VaultTypeOK
<1>3. /\ p \in Pool
      /\ p.state = "RootPublished" /\ p.payoutRoot = root /\ p.payoutTotal = total
      /\ p.claimedTotal = pools[k].claimedTotal /\ p.principal = pools[k].principal
  BY <1>2, Zenon DEF Pool, State
<1> HIDE DEF p
<1>4. pools'[k] = p /\ \A j \in Keys \ {k} : pools'[j] = pools[j]
  BY <1>1, KeysApart
<1>5. claimed[k] = {} /\ pools[k].claimedTotal = 0
  BY <1>1 DEF NothingClaimedYet
<1>6. VaultTypeOK'
  <2>1. /\ usdc' \in [Holders -> Nat] /\ claimed' \in [Keys -> SUBSET Indexes]
        /\ p.claimedTotal <= p.payoutTotal /\ p.payoutTotal <= p.principal
    BY <1>1, <1>3, <1>5 DEF VaultTypeOK, USDCTypeOK
  <2> QED BY <1>1, <1>3, <2>1, PoolType
<1>7. VaultSolvency' /\ CustodyStep
  <2>1. HeldOf(pools'[k]) = HeldOf(pools[k])
    BY <1>1, <1>3, <1>4 DEF HeldOf
  <2>2. usdc[Vault] \in Nat /\ HeldOf(pools[k]) \in Nat
    BY <1>1, <1>2, <1>5, HoldersFacts DEF VaultTypeOK, USDCTypeOK, HeldOf, Pool
  <2>3. usdc'[Vault] - usdc[Vault] = HeldOf(pools'[k]) - HeldOf(pools[k])
    BY <1>1, <2>1, <2>2
  <2> QED BY <1>4, <1>6, <2>3, PoolStep
<1>8. BitmapMatchesBooks'
  <2> SUFFICES ASSUME NEW j \in Keys, UniqueIndexes(pools'[j].payoutRoot)
               PROVE  pools'[j].claimedTotal = SumTo(ClaimedByIndex(j)', MaxIndex)
    BY DEF BitmapMatchesBooks
  <2>1. CASE j = k
    BY <1>1, <1>3, <1>4, <1>5, <2>1, NextNothingOnBooks
  <2>2. CASE j # k
    BY <1>1, <1>4, <2>2, BooksUnchanged
  <2> QED BY <2>1, <2>2
<1>9. NothingClaimedYet'
  BY <1>1, <1>3, <1>4 DEF NothingClaimedYet
<1> QED BY <1>6, <1>7, <1>8, <1>9

LEMMA ClaimInv ==
    ASSUME VaultInv, NEW k \in Keys, NEW leaf \in pools[k].payoutRoot, claim(k, leaf)
    PROVE  VaultInv' /\ CustodyStep
<1> USE DEF VaultInv
<1> DEFINE p == [pools[k] EXCEPT !.claimedTotal = @ + leaf.amount]
<1>1. /\ pools' = [pools EXCEPT ![k] = p]
      /\ claimed' = [claimed EXCEPT ![k] = @ \cup {leaf.index}]
      /\ usdc' = Moved(usdc, Vault, leaf.beneficiary, leaf.amount)
      /\ leaf.index \notin claimed[k]
      /\ UNCHANGED <<now, treasury, paused>>
  BY Zenon DEF claim
<1>2. /\ pools[k].state = "RootPublished"
      /\ pools[k].claimedTotal + leaf.amount <= pools[k].payoutTotal
      /\ usdc[Vault] >= leaf.amount
  BY DEF claim, Claimable, CanPay
<1>3. pools[k] \in Pool /\ pools[k].payoutTotal <= pools[k].principal
  BY DEF VaultTypeOK
<1>4. leaf \in Leaf /\ leaf.index \in Indexes /\ leaf.beneficiary \in Accounts /\ leaf.amount \in Nat
  BY <1>3 DEF Pool, Leaf
<1>5. pools[k].claimedTotal + leaf.amount \in Nat
  BY <1>3, <1>4 DEF Pool
<1>6. /\ p \in Pool
      /\ p.state = "RootPublished" /\ p.payoutRoot = pools[k].payoutRoot
      /\ p.payoutTotal = pools[k].payoutTotal /\ p.principal = pools[k].principal
      /\ p.claimedTotal = pools[k].claimedTotal + leaf.amount
  BY <1>2, <1>3, <1>5, Zenon DEF Pool
<1> HIDE DEF p
<1>7. pools'[k] = p /\ \A j \in Keys \ {k} : pools'[j] = pools[j]
  BY <1>1, KeysApart
<1>8. /\ claimed' \in [Keys -> SUBSET Indexes]
      /\ claimed'[k] = claimed[k] \cup {leaf.index}
      /\ \A j \in Keys \ {k} : claimed'[j] = claimed[j]
  BY <1>1, <1>4 DEF VaultTypeOK
<1>9. usdc' \in [Holders -> Nat] /\ usdc'[Vault] = usdc[Vault] - leaf.amount
  BY <1>1, <1>2, <1>4, HoldersFacts, VaultTransfer DEF VaultTypeOK, USDCTypeOK
<1>10. VaultTypeOK'
  BY <1>1, <1>2, <1>3, <1>6, <1>8, <1>9, PoolType
<1>11. VaultSolvency' /\ CustodyStep
  <2>1. HeldOf(pools'[k]) = HeldOf(pools[k]) - leaf.amount /\ HeldOf(pools[k]) \in Int
    BY <1>2, <1>3, <1>4, <1>6, <1>7 DEF HeldOf, Pool
  <2>2. usdc[Vault] \in Nat
    BY HoldersFacts DEF VaultTypeOK, USDCTypeOK
  <2>3. usdc'[Vault] - usdc[Vault] = HeldOf(pools'[k]) - HeldOf(pools[k])
    BY <1>4, <1>9, <2>1, <2>2
  <2> QED BY <1>7, <1>10, <2>3, PoolStep
<1>12. BitmapMatchesBooks'
  <2> SUFFICES ASSUME NEW j \in Keys, UniqueIndexes(pools'[j].payoutRoot)
               PROVE  pools'[j].claimedTotal = SumTo(ClaimedByIndex(j)', MaxIndex)
    BY DEF BitmapMatchesBooks
  <2>1. CASE j = k
    <3> DEFINE f == ClaimedByIndex(k)
               g == ClaimedByIndex(k)'
               i == leaf.index
    <3>1. UniqueIndexes(pools[k].payoutRoot) /\ pools'[k].payoutRoot = pools[k].payoutRoot
      BY <1>6, <1>7, <2>1
    <3>2. Due(pools[k].payoutRoot, i) = leaf.amount
      BY <1>3, <3>1, DueOfLeaf DEF Pool
    <3>3. f \in [1..MaxIndex -> Nat]
      BY ClaimedType
    <3>4. g \in [1..MaxIndex -> Nat] /\ f[i] = 0 /\ g[i] = leaf.amount
          /\ \A m \in 1..MaxIndex : m # i => g[m] = f[m]
      <4>1. \A m \in Indexes : Due(pools[k].payoutRoot, m) \in Nat
        BY <1>3, DueType DEF Pool
      <4> QED BY <1>1, <1>4, <1>8, <3>1, <3>2, <4>1 DEF ClaimedByIndex, Indexes
    <3>5. SumTo(f, MaxIndex) = pools[k].claimedTotal
      BY <3>1 DEF BitmapMatchesBooks
    <3> HIDE DEF f, g
    <3>6. f \in [1..MaxIndex -> Int] /\ g \in [1..MaxIndex -> Int] /\ i \in 1..MaxIndex
      BY <1>4, <3>3, <3>4 DEF Indexes
    <3>7. SumTo(g, MaxIndex) = SumTo(f, MaxIndex) + (g[i] - f[i])
      <4>1. MaxIndex \in Nat /\ \A m \in 1..MaxIndex : m # i => g[m] = f[m]
        BY <3>4, HoldersFacts
      <4> QED BY <3>6, <4>1, SumToUpdate
    <3>8. SumTo(g, MaxIndex) = pools[k].claimedTotal + leaf.amount
      BY <1>3, <1>4, <3>4, <3>5, <3>7 DEF Pool
    <3> QED BY <1>6, <1>7, <2>1, <3>8 DEF g
  <2>2. CASE j # k
    BY <1>7, <1>8, <2>2, BooksUnchanged
  <2> QED BY <2>1, <2>2
<1>13. NothingClaimedYet'
  BY <1>6, <1>7, <1>8 DEF NothingClaimedYet
<1> QED BY <1>10, <1>11, <1>12, <1>13

LEMMA RefundInv ==
    ASSUME VaultInv, NEW k \in Keys, refundRemaining(k)
    PROVE  VaultInv' /\ CustodyStep
<1> USE DEF VaultInv
<1> DEFINE p == [pools[k] EXCEPT !.state = "Closed"]
<1>1. /\ pools' = [pools EXCEPT ![k] = p]
      /\ usdc[Vault] >= remaining(k)
      /\ usdc' = Moved(usdc, Vault, pools[k].sponsor, remaining(k))
      /\ UNCHANGED <<now, claimed, treasury, paused>>
  BY Zenon DEF refundRemaining, Close, CanPay
<1>2. pools[k].state = "RootPublished"
  BY DEF refundRemaining, RefundDue
<1>3. /\ pools[k] \in Pool
      /\ pools[k].claimedTotal <= pools[k].payoutTotal
      /\ pools[k].payoutTotal <= pools[k].principal
  BY DEF VaultTypeOK
<1>4. remaining(k) \in Nat /\ HeldOf(pools[k]) = remaining(k) /\ pools[k].sponsor \in Accounts
  BY <1>2, <1>3 DEF Pool, remaining, HeldOf
<1>5. /\ p \in Pool
      /\ p.state = "Closed" /\ p.payoutRoot = pools[k].payoutRoot
      /\ p.payoutTotal = pools[k].payoutTotal /\ p.principal = pools[k].principal
      /\ p.claimedTotal = pools[k].claimedTotal
  BY <1>3, Zenon DEF Pool, State
<1> HIDE DEF p
<1>6. pools'[k] = p /\ \A j \in Keys \ {k} : pools'[j] = pools[j]
  BY <1>1, KeysApart
<1>7. usdc' \in [Holders -> Nat] /\ usdc'[Vault] = usdc[Vault] - remaining(k)
  BY <1>1, <1>4, HoldersFacts, VaultTransfer DEF VaultTypeOK, USDCTypeOK
<1>8. VaultTypeOK'
  <2>1. claimed' \in [Keys -> SUBSET Indexes]
    BY <1>1 DEF VaultTypeOK
  <2> QED BY <1>1, <1>3, <1>5, <1>7, <2>1, PoolType
<1>9. VaultSolvency' /\ CustodyStep
  <2>1. HeldOf(pools'[k]) = 0
    BY <1>5, <1>6 DEF HeldOf
  <2>2. usdc[Vault] \in Nat
    BY HoldersFacts DEF VaultTypeOK, USDCTypeOK
  <2>3. usdc'[Vault] - usdc[Vault] = HeldOf(pools'[k]) - HeldOf(pools[k])
    BY <1>4, <1>7, <2>1, <2>2
  <2> QED BY <1>6, <1>8, <2>3, PoolStep
<1>10. BitmapMatchesBooks'
  <2> SUFFICES ASSUME NEW j \in Keys, UniqueIndexes(pools'[j].payoutRoot)
               PROVE  pools'[j].claimedTotal = SumTo(ClaimedByIndex(j)', MaxIndex)
    BY DEF BitmapMatchesBooks
  <2> QED BY <1>1, <1>5, <1>6, BooksUnchanged
<1>11. NothingClaimedYet'
  BY <1>1, <1>5, <1>6 DEF NothingClaimedYet
<1> QED BY <1>8, <1>9, <1>10, <1>11

(* The steps that touch no pool and no balance.                            *)
LEMMA QuietInv ==
    ASSUME VaultInv, UNCHANGED <<usdc, pools, claimed>>,
           TimeTypeOK', treasury' \in Treasuries, paused' \in BOOLEAN
    PROVE  VaultInv' /\ CustodyStep
<1> USE DEF VaultInv
<1>1. VaultTypeOK'
  BY DEF VaultTypeOK, USDCTypeOK
<1>2. HeldByKey' = HeldByKey
  BY DEF HeldByKey, held, remaining
<1>3. VaultSolvency' /\ CustodyStep
  BY <1>2 DEF VaultSolvency, CustodyStep, Pots!vars
<1>4. BitmapMatchesBooks'
  BY BooksUnchanged DEF BitmapMatchesBooks
<1>5. NothingClaimedYet'
  BY DEF NothingClaimedYet
<1> QED BY <1>1, <1>3, <1>4, <1>5

LEMMA NextInv == VaultInv /\ [Next]_vars => VaultInv' /\ CustodyStep
<1> SUFFICES ASSUME VaultInv, [Next]_vars PROVE VaultInv' /\ CustodyStep
  OBVIOUS
<1>0. TimeTypeOK /\ treasury \in Treasuries /\ paused \in BOOLEAN
  BY DEF VaultInv, VaultTypeOK
<1>1. ASSUME NEW k \in Keys, NEW s \in Accounts, NEW p \in Principals, NEW f \in FeeRates,
             createPool(k, s, p, f)
      PROVE  VaultInv' /\ CustodyStep
  <2>1. p \in Nat /\ f \in Nat
    BY VaultAssumption
  <2> QED BY <1>1, <2>1, CreateInv
<1>2. ASSUME NEW k \in Keys, NEW r \in Roots, NEW t \in PayoutTotals, NEW d \in Deadlines,
             publishPayoutRoot(k, r, t, d)
      PROVE  VaultInv' /\ CustodyStep
  <2>1. r \in SUBSET Leaf /\ t \in Nat /\ d \in Nat
    BY VaultAssumption, HorizonAssumption
  <2> QED BY <1>2, <2>1, PublishInv
<1>3. ASSUME NEW k \in Keys, NEW leaf \in pools[k].payoutRoot, claim(k, leaf)
      PROVE  VaultInv' /\ CustodyStep
  BY <1>3, ClaimInv
<1>4. ASSUME NEW k \in Keys, refundRemaining(k)
      PROVE  VaultInv' /\ CustodyStep
  BY <1>4, RefundInv
<1>5. ASSUME pause \/ unpause \/ UNCHANGED vars
      PROVE  VaultInv' /\ CustodyStep
  BY <1>0, <1>5, QuietInv DEF pause, unpause, vars, TimeTypeOK
<1>6. ASSUME NEW t \in Treasuries, setTreasury(t)
      PROVE  VaultInv' /\ CustodyStep
  BY <1>0, <1>6, QuietInv DEF setTreasury, TimeTypeOK
<1>7. ASSUME Pass
      PROVE  VaultInv' /\ CustodyStep
  <2>1. TimeTypeOK'
    BY <1>0, <1>7, HorizonAssumption DEF Pass, Tick, TimeTypeOK
  <2> QED BY <1>0, <1>7, <2>1, QuietInv DEF Pass
<1> QED BY <1>1, <1>2, <1>3, <1>4, <1>5, <1>6, <1>7 DEF Next

(* Under the invariant, an honest root pays everyone: the leaves claimed   *)
(* and one more never add up to more than all of them.                     *)
LEMMA HonestFromInv == VaultInv => HonestRootPaysEveryone
<1> SUFFICES ASSUME VaultInv, NEW k \in Keys, pools[k].state = "RootPublished",
                    Honest(pools[k].payoutRoot, pools[k].payoutTotal),
                    NEW leaf \in pools[k].payoutRoot, leaf.index \notin claimed[k]
             PROVE  /\ pools[k].claimedTotal + leaf.amount <= pools[k].payoutTotal
                    /\ CanPay(Vault, leaf.amount)
  BY DEF HonestRootPaysEveryone
<1> USE DEF VaultInv
<1> DEFINE root == pools[k].payoutRoot
           f == ClaimedByIndex(k)
           g == DueByIndex(root)
           i == leaf.index
<1>1. pools[k] \in Pool /\ pools[k].payoutTotal <= pools[k].principal /\ root \in SUBSET Leaf
  BY DEF VaultTypeOK, Pool
<1>2. leaf.amount \in Nat /\ UniqueIndexes(root)
  BY <1>1 DEF Leaf, Honest
<1>3. i \in Indexes /\ Due(root, i) = leaf.amount
  BY <1>1, <1>2, DueOfLeaf
<1>4. \A m \in Indexes : Due(root, m) \in Nat
  BY <1>1, DueType
<1>5. f \in [1..MaxIndex -> Nat] /\ g \in [1..MaxIndex -> Nat]
  BY <1>4, ClaimedType DEF DueByIndex, Indexes
<1>6. f[i] = 0 /\ g[i] = leaf.amount /\ \A m \in 1..MaxIndex : f[m] <= g[m]
  BY <1>3, <1>4 DEF ClaimedByIndex, DueByIndex, Indexes
<1>7. SumTo(f, MaxIndex) = pools[k].claimedTotal /\ SumTo(g, MaxIndex) <= pools[k].payoutTotal
  BY <1>2 DEF BitmapMatchesBooks, Honest
<1>8. SumTo(f, MaxIndex) + leaf.amount <= SumTo(g, MaxIndex)
  <2> HIDE DEF f, g
  <2>1. i \in 1..MaxIndex /\ f[i] + leaf.amount <= g[i]
    BY <1>2, <1>3, <1>6 DEF Indexes
  <2> QED BY <1>2, <1>5, <1>6, <2>1, HoldersFacts, SumToGap
<1>9. pools[k].claimedTotal + leaf.amount <= pools[k].payoutTotal
  <2>1. SumTo(g, MaxIndex) \in Int
    <3> HIDE DEF g
    <3>1. g \in [1..MaxIndex -> Int]
      BY <1>5
    <3>2. PICK s : IsPartialSums(s, g, MaxIndex) /\ SumTo(g, MaxIndex) = s[MaxIndex]
      BY <3>1, SumToIsPartialSum, HoldersFacts
    <3> QED BY <3>2, HoldersFacts DEF IsPartialSums
  <2> HIDE DEF f, g
  <2> QED BY <1>1, <1>2, <1>7, <1>8, <2>1 DEF Pool
<1>10. HeldByKey[k] <= usdc[Vault]
  <2>1. k \in 1..MaxPools /\ HeldByKey \in [1..MaxPools -> Nat]
    BY HeldType DEF Keys
  <2> QED BY <2>1, HoldersFacts, SumToAtLeast DEF VaultSolvency
<1>11. HeldByKey[k] = pools[k].principal - pools[k].claimedTotal
  BY HeldType DEF HeldOf
<1>12. usdc[Vault] \in Nat
  BY HoldersFacts DEF VaultTypeOK, USDCTypeOK
<1>13. usdc[Vault] >= leaf.amount
  BY <1>1, <1>2, <1>9, <1>10, <1>11, <1>12 DEF Pool
<1> QED BY <1>9, <1>13 DEF CanPay
-----------------------------------------------------------------------------
(* Every reachable state satisfies the invariant.                          *)
THEOREM VaultInvariant == Spec => []VaultInv
<1>1. VaultInv /\ [Next]_vars => VaultInv'
  BY NextInv
<1> QED BY VaultInit, <1>1, PTL DEF Spec

(* Types and bounds: claims stay within the total, the total within the    *)
(* principal.                                                              *)
THEOREM VaultTypeCorrect == Spec => []VaultTypeOK
<1>1. VaultInv => VaultTypeOK
  BY DEF VaultInv
<1> QED BY VaultInvariant, <1>1, PTL

(* The vault's USDC is exactly what its open pools have left.              *)
THEOREM VaultSolvent == Spec => []VaultSolvency
<1>1. VaultInv => VaultSolvency
  BY DEF VaultInv
<1> QED BY VaultInvariant, <1>1, PTL

(* No order of claims under an honest root crowds anybody out.             *)
THEOREM HonestRootPays == Spec => []HonestRootPaysEveryone
<1> QED BY VaultInvariant, HonestFromInv, PTL

(* The vault implements the abstract custody contract, pool by pool.       *)
THEOREM VaultIsCustody == Spec => VaultImplementsCustody
<1>1. Init => Pots!Init
  <2> SUFFICES ASSUME Init PROVE Pots!Init
    OBVIOUS
  <2>1. HeldByKey = [k \in 1..MaxPools |-> 0]
    BY DEF Init, HeldByKey, held, Missing, Keys
  <2>2. usdc[Vault] = 0
    BY VaultAssumption DEF Init
  <2> QED BY <2>1, <2>2 DEF Pots!Init
<1>2. VaultInv /\ [Next]_vars => [Pots!Next]_(Pots!vars)
  BY NextInv DEF CustodyStep, Pots!vars
<1> QED BY <1>1, <1>2, VaultInvariant, PTL DEF Spec, VaultImplementsCustody, Pots!Spec
-----------------------------------------------------------------------------
Ended == {"verified", "rejected", "expired", "revoked"}

(* An evaluation with evidence got it before its expiry. *)
Timely(e) ==
    e.state \in {"Submitted", "Verified", "Rejected", "Revoked"} =>
        e.submittedAt # 0 /\ e.submittedAt < e.expiresAt

(* What a row or a read of request h says of the end of evaluation e is    *)
(* the contract's word, but for a revocation after it.                     *)
Confirms(e, h, state) ==
    /\ e.hash = h
    /\ state \in Ended => e.evidence = "pinned" /\ (e.state = "Revoked" \/ RowState[e.state] = state)

RowFacts(h) ==
    rows[h] # NoRow =>
        /\ rows[h].evaluationId # 0 => rows[h].state # "prepared"
        /\ rows[h].state \in Ended =>
              /\ rows[h].evaluationId \in DOMAIN evaluations
              /\ Confirms(evaluations[rows[h].evaluationId], h, rows[h].state)

(* A read was made of the evaluation the row names, and still is.          *)
ReconFacts(r) ==
    reconciles[r] # Idle =>
        LET h == reconciles[r].hash IN
        /\ rows[h] # NoRow
        /\ rows[h].evaluationId \in DOMAIN evaluations
        /\ reconciles[r].state # "prepared"
        /\ Confirms(evaluations[rows[h].evaluationId], h, reconciles[r].state)

ArenaInv == /\ ArenaTypeOK
            /\ HeadMatchesHistory
            /\ \A e \in DOMAIN evaluations : Timely(evaluations[e])
            /\ \A h \in Recorded : RowFacts(h)
            /\ \A r \in ArenaReaders : ReconFacts(r)

(* What the contract never does to an evaluation. *)
EvaluationsMove ==
    \A e \in DOMAIN evaluations :
        /\ e \in DOMAIN evaluations'
        /\ evaluations'[e].hash = evaluations[e].hash
        /\ evaluations[e].state \notin OpenStates =>
              /\ evaluations'[e].evidence = evaluations[e].evidence
              /\ evaluations'[e].state \in {evaluations[e].state, "Revoked"}

EvaluationsKept == /\ evaluations' \in Seq(Evaluation)
                   /\ EvaluationsMove
                   /\ \A e \in DOMAIN evaluations' : Timely(evaluations'[e])

LEMMA EvaluationTyped ==
    ASSUME ArenaTypeOK, NEW e \in DOMAIN evaluations
    PROVE  evaluations[e] \in Evaluation /\ e \in 1..Len(evaluations) /\ evaluations \in Seq(Evaluation)
           /\ now \in Nat \ {0}
  BY HorizonAssumption DEF ArenaTypeOK, TimeTypeOK

LEMMA Entries ==
    ASSUME NEW S, NEW s \in Seq(S), NEW i \in DOMAIN s
    PROVE  i \in Nat /\ s[i] \in S
OBVIOUS

LEMMA EvaluationReplaced ==
    ASSUME ArenaInv, NEW e \in DOMAIN evaluations, NEW v \in Evaluation,
           evaluations' = [evaluations EXCEPT ![e] = v],
           v.hash = evaluations[e].hash, Timely(v),
           evaluations[e].state \notin OpenStates =>
               v.evidence = evaluations[e].evidence /\ v.state \in {evaluations[e].state, "Revoked"}
    PROVE  EvaluationsKept
<1>1. evaluations \in Seq(Evaluation) /\ e \in 1..Len(evaluations)
  BY EvaluationTyped DEF ArenaInv
<1>2. /\ evaluations' \in Seq(Evaluation)
      /\ Len(evaluations') = Len(evaluations)
      /\ \A k \in 1..Len(evaluations) : evaluations'[k] = IF k = e THEN v ELSE evaluations[k]
  BY <1>1, ExceptSeq
<1>3. DOMAIN evaluations' = DOMAIN evaluations /\ DOMAIN evaluations = 1..Len(evaluations)
  BY <1>1, <1>2
<1>4. EvaluationsMove
  <2>1. ASSUME NEW k \in DOMAIN evaluations
        PROVE  evaluations'[k] = IF k = e THEN v ELSE evaluations[k]
    BY <1>2, <1>3
  <2> QED BY <1>3, <2>1 DEF EvaluationsMove
<1>5. ASSUME NEW k \in DOMAIN evaluations' PROVE Timely(evaluations'[k])
  <2>1. Timely(evaluations[k]) /\ k \in 1..Len(evaluations)
    BY <1>3 DEF ArenaInv
  <2>2. CASE k = e
    BY <1>2, <2>1, <2>2
  <2>3. CASE k # e
    <3>1. evaluations'[k] = evaluations[k]
      BY <1>2, <2>1, <2>3
    <3> QED BY <2>1, <3>1, Zenon
  <2> QED BY <2>2, <2>3
<1> QED BY <1>2, <1>4, <1>5 DEF EvaluationsKept

LEMMA RequestStep ==
    ASSUME ArenaInv, NEW s \in Accounts, NEW h \in RequestHashes, NEW id \in DOMAIN listings,
           NEW t \in Expiries, requestEvaluation(s, h, id, t)
    PROVE  EvaluationsKept
<1> DEFINE v == [hash |-> h, listing |-> id, version |-> listings[id].version, participant |-> s,
                 expiresAt |-> t, evidence |-> "none", submittedAt |-> 0, state |-> "Pending"]
<1>1. evaluations \in Seq(Evaluation) /\ listings \in Seq(Listing)
  BY DEF ArenaInv, ArenaTypeOK, RegistryTypeOK
<1>2. id \in Nat /\ listings[id].version \in Nat
  <2>1. id \in Nat /\ listings[id] \in Listing
    BY <1>1, Entries
  <2> QED BY <2>1 DEF Listing
<1>3. v \in Evaluation /\ v.state = "Pending"
  BY <1>2 DEF Evaluation, ArenaState
<1>4. Timely(v)
  BY <1>3 DEF Timely
<1>5. evaluations' = Append(evaluations, v)
  BY DEF requestEvaluation
<1> HIDE DEF v
<1>6. /\ evaluations' \in Seq(Evaluation)
      /\ Len(evaluations') = Len(evaluations) + 1
      /\ \A k \in 1..Len(evaluations) : evaluations'[k] = evaluations[k]
      /\ evaluations'[Len(evaluations) + 1] = v
  BY <1>1, <1>3, <1>5, AppendFacts
<1>7. /\ Len(evaluations) \in Nat
      /\ DOMAIN evaluations = 1..Len(evaluations)
      /\ DOMAIN evaluations' = 1..(Len(evaluations) + 1)
  BY <1>1, <1>6
<1>8. EvaluationsMove
  BY <1>6, <1>7 DEF EvaluationsMove
<1>9. ASSUME NEW k \in DOMAIN evaluations' PROVE Timely(evaluations'[k])
  <2>1. CASE k = Len(evaluations) + 1
    BY <1>4, <1>6, <2>1
  <2>2. CASE k # Len(evaluations) + 1
    BY <1>6, <1>7, <2>2 DEF ArenaInv
  <2> QED BY <2>1, <2>2
<1> QED BY <1>6, <1>8, <1>9 DEF EvaluationsKept

LEMMA ContractKeeps ==
    ASSUME ArenaInv, ContractStep
    PROVE  EvaluationsKept /\ arenaPaused' \in BOOLEAN /\ UNCHANGED <<rows, reconciles>>
<1>0. ArenaTypeOK
  BY DEF ArenaInv
<1>1. ASSUME NEW e \in DOMAIN evaluations, startEvaluation(e) PROVE EvaluationsKept
  <2> DEFINE v == [evaluations[e] EXCEPT !.state = "Active"]
  <2>1. v \in Evaluation /\ v.hash = evaluations[e].hash /\ v.state = "Active"
    BY <1>0, EvaluationTyped DEF Evaluation, ArenaState
  <2>2. evaluations' = [evaluations EXCEPT ![e] = v] /\ evaluations[e].state = "Pending"
    BY <1>1 DEF startEvaluation
  <2> HIDE DEF v
  <2> QED BY <2>1, <2>2, EvaluationReplaced DEF Timely, OpenStates
<1>2. ASSUME NEW e \in DOMAIN evaluations, NEW s \in Accounts, NEW root \in {"pinned", "other"},
             submitEvidence(s, e, root)
      PROVE  EvaluationsKept
  <2> DEFINE v == [evaluations[e] EXCEPT !.state = "Submitted", !.evidence = root, !.submittedAt = now]
  <2>1. v \in Evaluation /\ v.hash = evaluations[e].hash /\ v.expiresAt = evaluations[e].expiresAt
        /\ v.submittedAt = now
    BY <1>0, EvaluationTyped DEF Evaluation, ArenaState
  <2>2. evaluations' = [evaluations EXCEPT ![e] = v] /\ evaluations[e].state = "Active"
        /\ now < evaluations[e].expiresAt
    BY <1>2 DEF submitEvidence
  <2>3. Timely(v)
    BY <1>0, <2>1, <2>2, EvaluationTyped DEF Timely
  <2> HIDE DEF v
  <2> QED BY <2>1, <2>2, <2>3, EvaluationReplaced DEF OpenStates
<1>3. ASSUME NEW e \in DOMAIN evaluations, NEW passed \in BOOLEAN, scoreEvaluation(e, passed)
      PROVE  EvaluationsKept
  <2> DEFINE verdict == IF passed THEN "Verified" ELSE "Rejected"
             v == [evaluations[e] EXCEPT !.state = verdict]
  <2>1. verdict \in ArenaState
    BY DEF ArenaState
  <2>2. evaluations' = [evaluations EXCEPT ![e] = v] /\ evaluations[e].state = "Submitted"
    BY <1>3 DEF scoreEvaluation
  <2> HIDE DEF verdict
  <2>3. v \in Evaluation /\ v.hash = evaluations[e].hash /\ v.expiresAt = evaluations[e].expiresAt
        /\ v.submittedAt = evaluations[e].submittedAt
    BY <1>0, <2>1, EvaluationTyped DEF Evaluation
  <2>4. Timely(v)
    BY <2>2, <2>3 DEF Timely, ArenaInv
  <2> HIDE DEF v
  <2> QED BY <2>2, <2>3, <2>4, EvaluationReplaced DEF OpenStates
<1>4. ASSUME NEW e \in DOMAIN evaluations, expireEvaluation(e) PROVE EvaluationsKept
  <2> DEFINE v == [evaluations[e] EXCEPT !.state = "Expired"]
  <2>1. v \in Evaluation /\ v.hash = evaluations[e].hash /\ v.state = "Expired"
    BY <1>0, EvaluationTyped DEF Evaluation, ArenaState
  <2>2. evaluations' = [evaluations EXCEPT ![e] = v] /\ evaluations[e].state \in OpenStates
    BY <1>4 DEF expireEvaluation
  <2> HIDE DEF v
  <2> QED BY <2>1, <2>2, EvaluationReplaced DEF Timely
<1>5. ASSUME NEW e \in DOMAIN evaluations, revokeEvaluation(e) PROVE EvaluationsKept
  <2> DEFINE v == [evaluations[e] EXCEPT !.state = "Revoked"]
  <2>1. v \in Evaluation /\ v.hash = evaluations[e].hash /\ v.expiresAt = evaluations[e].expiresAt
        /\ v.submittedAt = evaluations[e].submittedAt /\ v.evidence = evaluations[e].evidence
        /\ v.state = "Revoked"
    BY <1>0, EvaluationTyped DEF Evaluation, ArenaState
  <2>2. evaluations' = [evaluations EXCEPT ![e] = v] /\ evaluations[e].state \in {"Verified", "Rejected"}
    BY <1>5 DEF revokeEvaluation
  <2>3. Timely(v)
    BY <2>1, <2>2 DEF Timely, ArenaInv
  <2> HIDE DEF v
  <2> QED BY <2>1, <2>2, <2>3, EvaluationReplaced
<1>6. ASSUME SetPaused PROVE EvaluationsKept
  BY <1>0, <1>6 DEF SetPaused, EvaluationsKept, EvaluationsMove, ArenaInv, ArenaTypeOK
<1>7. EvaluationsKept
  BY <1>1, <1>2, <1>3, <1>4, <1>5, <1>6, RequestStep DEF ContractStep
<1>8. arenaPaused' \in BOOLEAN /\ UNCHANGED <<rows, reconciles>>
  BY <1>0 DEF ContractStep, requestEvaluation, startEvaluation, submitEvidence, scoreEvaluation,
              expireEvaluation, revokeEvaluation, SetPaused, ArenaTypeOK
<1> QED BY <1>7, <1>8

(* What a row or a read says survives every step of the contract. *)
LEMMA ConfirmsKept ==
    ASSUME ArenaTypeOK, EvaluationsMove, NEW e \in DOMAIN evaluations, NEW h, NEW state,
           Confirms(evaluations[e], h, state)
    PROVE  e \in DOMAIN evaluations' /\ Confirms(evaluations'[e], h, state)
<1>1. evaluations[e].state \in ArenaState
  BY EvaluationTyped DEF Evaluation
<1>2. state \in Ended => evaluations[e].state \notin OpenStates
  BY <1>1 DEF Confirms, OpenStates, RowState, Ended
<1>3. /\ e \in DOMAIN evaluations' /\ evaluations'[e].hash = evaluations[e].hash
      /\ state \in Ended => /\ evaluations'[e].evidence = evaluations[e].evidence
                            /\ evaluations'[e].state \in {evaluations[e].state, "Revoked"}
  BY <1>2 DEF EvaluationsMove
<1> QED BY <1>3 DEF Confirms

(* A step that leaves rows and reads alone. *)
LEMMA ChainKeepsInv ==
    ASSUME ArenaInv, EvaluationsKept, arenaPaused' \in BOOLEAN, UNCHANGED <<rows, reconciles>>,
           TimeTypeOK', RegistryTypeOK', HeadMatchesHistory'
    PROVE  ArenaInv'
<1>1. ArenaTypeOK /\ EvaluationsMove
  BY DEF ArenaInv, EvaluationsKept
<1>2. ArenaTypeOK'
  BY <1>1 DEF ArenaTypeOK, EvaluationsKept
<1>3. ASSUME NEW h \in Recorded PROVE RowFacts(h)'
  BY <1>1, ConfirmsKept DEF ArenaInv, RowFacts
<1>4. ASSUME NEW r \in ArenaReaders PROVE ReconFacts(r)'
  BY <1>1, ConfirmsKept DEF ArenaInv, ReconFacts
<1> QED BY <1>2, <1>3, <1>4 DEF ArenaInv, EvaluationsKept

-----------------------------------------------------------------------------
(* The steps of the rows and of their reconciliation. *)
LEMMA RowReplaced ==
    ASSUME ArenaInv, NEW h \in Recorded, NEW row \in Row, rows' = [rows EXCEPT ![h] = row],
           UNCHANGED <<evaluations, arenaPaused, now, listings, versions, usedKeys, identityOwner>>,
           row.evaluationId # 0 => row.state # "prepared",
           row.state \in Ended =>
               /\ row.evaluationId \in DOMAIN evaluations
               /\ Confirms(evaluations[row.evaluationId], h, row.state),
           reconciles' \in [ArenaReaders -> Recon \cup {Idle}],
           \A r \in ArenaReaders :
               \/ reconciles'[r] = Idle
               \/ /\ reconciles'[r] = reconciles[r]
                  /\ reconciles[r].hash = h => row.evaluationId = rows[h].evaluationId
    PROVE  ArenaInv'
<1>1. ArenaTypeOK
  BY DEF ArenaInv
<1>2. row # NoRow
  BY ArenaAssumption DEF Row, NoRow, rank
<1>3. ArenaTypeOK'
  BY <1>1 DEF ArenaTypeOK, TimeTypeOK, RegistryTypeOK, IdentityTypeOK
<1>4. ASSUME NEW k \in Recorded PROVE rows'[k] = IF k = h THEN row ELSE rows[k]
  BY <1>1 DEF ArenaTypeOK
<1>5. ASSUME NEW k \in Recorded PROVE RowFacts(k)'
  <2>1. CASE k = h
    BY <1>4, <2>1 DEF RowFacts, Confirms
  <2>2. CASE k # h
    <3>1. RowFacts(k) /\ rows'[k] = rows[k]
      BY <1>4, <2>2 DEF ArenaInv
    <3> QED BY <3>1 DEF RowFacts, Confirms
  <2> QED BY <2>1, <2>2
<1>6. ASSUME NEW r \in ArenaReaders PROVE ReconFacts(r)'
  <2>1. CASE reconciles'[r] = Idle
    BY <2>1 DEF ReconFacts
  <2>2. CASE reconciles[r] # Idle /\ reconciles'[r] = reconciles[r]
    <3>1. ReconFacts(r) /\ reconciles[r].hash \in Recorded
      BY <1>1, <2>2 DEF ArenaInv, ArenaTypeOK, Recon
    <3> DEFINE k == reconciles[r].hash
    <3>2. rows'[k] # NoRow /\ rows'[k].evaluationId = rows[k].evaluationId
      BY <1>2, <1>4, <2>2, <3>1 DEF ReconFacts
    <3> QED BY <2>2, <3>1, <3>2 DEF ReconFacts, Confirms
  <2> QED BY <2>1, <2>2
<1> QED BY <1>3, <1>5, <1>6 DEF ArenaInv, HeadMatchesHistory, HeadOf, Timely

(* A request moves on; the rows stay. *)
LEMMA ReconReplaced ==
    ASSUME ArenaInv, NEW r \in ArenaReaders, NEW c \in Recon \cup {Idle},
           reconciles' = [reconciles EXCEPT ![r] = c],
           UNCHANGED <<rows, evaluations, arenaPaused, now, listings, versions, usedKeys, identityOwner>>,
           c # Idle => /\ rows[c.hash] # NoRow
                       /\ rows[c.hash].evaluationId \in DOMAIN evaluations
                       /\ c.state # "prepared"
                       /\ Confirms(evaluations[rows[c.hash].evaluationId], c.hash, c.state)
    PROVE  ArenaInv'
<1>1. ArenaTypeOK
  BY DEF ArenaInv
<1>2. ArenaTypeOK'
  BY <1>1 DEF ArenaTypeOK, TimeTypeOK, RegistryTypeOK, IdentityTypeOK
<1>3. ASSUME NEW q \in ArenaReaders PROVE ReconFacts(q)'
  <2>1. reconciles'[q] = IF q = r THEN c ELSE reconciles[q]
    BY <1>1 DEF ArenaTypeOK
  <2>2. CASE q = r
    BY <2>1, <2>2 DEF ReconFacts, Confirms
  <2>3. CASE q # r
    <3>1. ReconFacts(q) /\ reconciles'[q] = reconciles[q]
      BY <2>1, <2>3 DEF ArenaInv
    <3> QED BY <3>1 DEF ReconFacts, Confirms
  <2> QED BY <2>2, <2>3
<1> QED BY <1>2, <1>3 DEF ArenaInv, RowFacts, Confirms, HeadMatchesHistory, HeadOf, Timely

LEMMA RowTyped ==
    ASSUME ArenaTypeOK, NEW h \in Recorded, rows[h] # NoRow
    PROVE  rows[h] \in Row
  BY DEF ArenaTypeOK

LEMMA Relabelled ==
    ASSUME NEW row \in Row, NEW state \in DOMAIN rank
    PROVE  /\ [row EXCEPT !.state = state] \in Row
           /\ [row EXCEPT !.state = state].state = state
           /\ [row EXCEPT !.state = state].evaluationId = row.evaluationId
  BY DEF Row

(* The owner's marks, but for the first, which names the evaluation.       *)
LEMMA MarkStep ==
    ASSUME ArenaInv, NEW h \in Recorded, NEW state \in {"evidence_ready", "evidence_submitted"},
           rows[h].state \in {"request_submitted", "evidence_ready"},
           rows' = [rows EXCEPT ![h].state = state],
           UNCHANGED <<reconciles, evaluations, arenaPaused, now, listings, versions, usedKeys,
                       identityOwner>>
    PROVE  ArenaInv'
<1> DEFINE row == [rows[h] EXCEPT !.state = state]
<1>1. rows[h] \in Row /\ state \in DOMAIN rank /\ ArenaTypeOK
  BY RowTyped DEF ArenaInv, NoRow, rank
<1>2. row \in Row /\ row.state = state /\ row.evaluationId = rows[h].evaluationId
  BY <1>1, Relabelled
<1>3. rows' = [rows EXCEPT ![h] = row]
  OBVIOUS
<1> HIDE DEF row
<1>4. reconciles' \in [ArenaReaders -> Recon \cup {Idle}]
  BY <1>1 DEF ArenaTypeOK
<1> QED BY <1>2, <1>3, <1>4, RowReplaced DEF Ended

LEMMA RowStepKeeps == ArenaInv /\ RowStep /\ UNCHANGED chainVars => ArenaInv'
<1> SUFFICES ASSUME ArenaInv, RowStep, UNCHANGED chainVars PROVE ArenaInv'
  OBVIOUS
<1>0. ArenaTypeOK /\ UNCHANGED <<now, listings, versions, usedKeys, identityOwner>>
  BY DEF ArenaInv, chainVars, registryVars
<1>1. ASSUME NEW h \in Recorded, NEW id \in DOMAIN listings, NEW t \in Expiries,
             prepareAgonArenaEvaluation(h, id, t)
      PROVE  ArenaInv'
  <2>1. PICK v \in DOMAIN versions[id] :
            rows' = [rows EXCEPT ![h] = [listing |-> id, version |-> v, expiresAt |-> t,
                         participant |-> versions[id][v].providerSnapshot,
                         evaluationId |-> 0, state |-> "prepared"]]
    BY <1>1 DEF prepareAgonArenaEvaluation
  <2> DEFINE row == [listing |-> id, version |-> v, expiresAt |-> t,
                     participant |-> versions[id][v].providerSnapshot,
                     evaluationId |-> 0, state |-> "prepared"]
  <2>2. id \in 1..Len(listings) /\ versions[id] \in Seq(Version)
    BY <1>0 DEF ArenaTypeOK, RegistryTypeOK
  <2>3. v \in Nat /\ versions[id][v].providerSnapshot \in Accounts
    <3>1. v \in Nat /\ versions[id][v] \in Version
      BY <2>2, Entries
    <3> QED BY <3>1 DEF Version
  <2>4. row \in Row /\ row.evaluationId = 0 /\ row.state = "prepared"
    BY <2>2, <2>3, ArenaAssumption DEF Row, rank
  <2>5. \A r \in ArenaReaders : reconciles[r] # Idle => reconciles[r].hash # h
    BY <1>1 DEF ArenaInv, ReconFacts, prepareAgonArenaEvaluation
  <2> HIDE DEF row
  <2>6. \A r \in ArenaReaders : reconciles[r] = Idle \/ reconciles[r].hash # h
    BY <2>5
  <2>7. rows' = [rows EXCEPT ![h] = row] /\ UNCHANGED <<arenaPaused, evaluations, reconciles>>
    BY <1>1, <2>1 DEF prepareAgonArenaEvaluation, row
  <2> QED BY <1>0, <2>4, <2>6, <2>7, RowReplaced DEF ArenaTypeOK, Ended
<1>2. ASSUME NEW h \in Recorded, NEW e \in 1..MaxEvaluations, markAgonArenaEvaluationRequested(h, e)
      PROVE  ArenaInv'
  <2> DEFINE row == [rows[h] EXCEPT !.state = "request_submitted", !.evaluationId = e]
  <2>1. rows[h] \in Row /\ rows[h].state = "prepared" /\ rows[h] # NoRow
    BY <1>0, <1>2, RowTyped DEF markAgonArenaEvaluationRequested, NoRow
  <2>2. row \in Row /\ row.state = "request_submitted"
    <3>1. e \in 0..MaxEvaluations /\ "request_submitted" \in DOMAIN rank
      BY ArenaAssumption DEF rank
    <3> QED BY <2>1, <3>1 DEF Row
  <2>3. ASSUME NEW r \in ArenaReaders, reconciles[r] # Idle PROVE reconciles[r].hash # h
    <3>1. rows[h].evaluationId = 0
      BY <2>1 DEF ArenaInv, RowFacts
    <3>2. 0 \notin DOMAIN evaluations
      BY <1>0 DEF ArenaTypeOK
    <3> QED BY <2>3, <3>1, <3>2 DEF ArenaInv, ReconFacts
  <2>4. rows' = [rows EXCEPT ![h] = row] /\ UNCHANGED <<arenaPaused, evaluations, reconciles>>
    BY <1>2 DEF markAgonArenaEvaluationRequested
  <2> HIDE DEF row
  <2> QED BY <1>0, <2>2, <2>3, <2>4, RowReplaced DEF ArenaTypeOK, Ended
<1>3. ASSUME NEW h \in Recorded, markAgonArenaEvaluationStarted(h) PROVE ArenaInv'
  BY <1>0, <1>3, MarkStep DEF markAgonArenaEvaluationStarted
<1>4. ASSUME NEW h \in Recorded, markAgonArenaEvidenceSubmitted(h) PROVE ArenaInv'
  BY <1>0, <1>4, MarkStep DEF markAgonArenaEvidenceSubmitted
<1>5. ASSUME NEW r \in ArenaReaders, NEW h \in Recorded, inspectArenaEvaluation(r, h) PROVE ArenaInv'
  <2> DEFINE e == evaluations[rows[h].evaluationId]
             c == [phase |-> "read", hash |-> h, state |-> RowState[e.state]]
  <2>1. /\ rows[h] # NoRow /\ rows[h].evaluationId \in DOMAIN evaluations
        /\ Matches(h, rows[h], e)
        /\ reconciles' = [reconciles EXCEPT ![r] = c]
        /\ UNCHANGED <<arenaPaused, evaluations, rows>>
    BY <1>5 DEF inspectArenaEvaluation
  <2>2. e.state \in ArenaState
    BY <1>0, <2>1, EvaluationTyped DEF Evaluation
  <2>3. RowState[e.state] \in DOMAIN rank \ {"prepared"}
    BY <2>2 DEF RowState, rank, ArenaState
  <2>4. c \in Recon /\ c.hash = h /\ c.state = RowState[e.state]
    BY <2>3 DEF Recon
  <2>5. Confirms(e, h, RowState[e.state])
    BY <2>1, <2>2 DEF Confirms, Matches, RowState, Ended
  <2> HIDE DEF c
  <2> QED BY <1>0, <2>1, <2>3, <2>4, <2>5, ReconReplaced
<1>6. ASSUME NEW r \in ArenaReaders, checkAgonArenaEvaluation(r) PROVE ArenaInv'
  <2>1. reconciles[r] \in Recon /\ reconciles[r] # Idle
    BY <1>0, <1>6 DEF checkAgonArenaEvaluation, ArenaTypeOK, Idle
  <2>2. PICK c : /\ c \in {Idle, [reconciles[r] EXCEPT !.phase = "checked"]}
                 /\ reconciles' = [reconciles EXCEPT ![r] = c]
    BY <1>6 DEF checkAgonArenaEvaluation
  <2>3. [reconciles[r] EXCEPT !.phase = "checked"] \in Recon
        /\ [reconciles[r] EXCEPT !.phase = "checked"].hash = reconciles[r].hash
        /\ [reconciles[r] EXCEPT !.phase = "checked"].state = reconciles[r].state
    BY <2>1 DEF Recon
  <2>4. ReconFacts(r)
    BY DEF ArenaInv
  <2>5. UNCHANGED <<arenaPaused, evaluations, rows>>
    BY <1>6 DEF checkAgonArenaEvaluation
  <2>6. c \in Recon \cup {Idle} /\ (c # Idle => c.hash = reconciles[r].hash /\ c.state = reconciles[r].state)
    BY <2>2, <2>3
  <2> QED BY <1>0, <2>1, <2>2, <2>4, <2>5, <2>6, ReconReplaced DEF ReconFacts
<1>7. ASSUME NEW r \in ArenaReaders, updateAgonArenaEvaluation(r) PROVE ArenaInv'
  <2> DEFINE h == reconciles[r].hash
             row == [rows[h] EXCEPT !.state = reconciles[r].state]
  <2>1. reconciles[r] \in Recon /\ reconciles[r] # Idle
    BY <1>0, <1>7 DEF updateAgonArenaEvaluation, ArenaTypeOK, Idle
  <2>2. h \in Recorded /\ reconciles[r].state \in DOMAIN rank
    BY <2>1 DEF Recon
  <2>3. ReconFacts(r)
    BY DEF ArenaInv
  <2>4. rows[h] \in Row
    BY <1>0, <2>1, <2>2, <2>3, RowTyped DEF ReconFacts
  <2>5. row \in Row /\ row.state = reconciles[r].state /\ row.evaluationId = rows[h].evaluationId
    BY <2>2, <2>4, Relabelled
  <2>6. /\ rows' = [rows EXCEPT ![h] = row]
        /\ reconciles' = [reconciles EXCEPT ![r] = Idle]
        /\ UNCHANGED <<arenaPaused, evaluations>>
    BY <1>7 DEF updateAgonArenaEvaluation
  <2> HIDE DEF row
  <2>7. /\ reconciles' \in [ArenaReaders -> Recon \cup {Idle}]
        /\ \A q \in ArenaReaders : reconciles'[q] = Idle \/ reconciles'[q] = reconciles[q]
    BY <1>0, <2>6 DEF ArenaTypeOK
  <2>8. /\ row.evaluationId # 0 => row.state # "prepared"
        /\ row.state \in Ended =>
              /\ row.evaluationId \in DOMAIN evaluations
              /\ Confirms(evaluations[row.evaluationId], h, row.state)
    BY <2>1, <2>3, <2>5 DEF ReconFacts
  <2> HIDE DEF h
  <2> QED BY <1>0, <2>2, <2>5, <2>6, <2>7, <2>8, RowReplaced
<1> QED BY <1>1, <1>2, <1>3, <1>4, <1>5, <1>6, <1>7 DEF RowStep
-----------------------------------------------------------------------------
LEMMA ArenaInitInv == ArenaInit => ArenaInv
<1> SUFFICES ASSUME ArenaInit PROVE ArenaInv
  OBVIOUS
<1>1. ArenaTypeOK
  <2>1. TimeTypeOK
    BY HorizonAssumption DEF ArenaInit, TimeInit, TimeTypeOK
  <2>2. RegistryTypeOK
    BY DEF ArenaInit, IdentityInit, RegistryInit, RegistryTypeOK, IdentityTypeOK
  <2>3. rows \in [Recorded -> Row \cup {NoRow}] /\ reconciles \in [ArenaReaders -> Recon \cup {Idle}]
    BY DEF ArenaInit
  <2>4. evaluations \in Seq(Evaluation)
    BY DEF ArenaInit
  <2>5. arenaPaused \in BOOLEAN
    BY Zenon DEF ArenaInit
  <2> QED BY <2>1, <2>2, <2>3, <2>4, <2>5 DEF ArenaTypeOK
<1>2. rows = [h \in Recorded |-> NoRow] /\ reconciles = [r \in ArenaReaders |-> Idle]
      /\ DOMAIN evaluations = {} /\ DOMAIN listings = {}
  BY DEF ArenaInit, RegistryInit
<1> QED BY <1>1, <1>2 DEF ArenaInv, RowFacts, ReconFacts, HeadMatchesHistory

LEMMA ArenaStepInv == ArenaInv /\ [ArenaNext]_<<chainVars, arenaVars>> => ArenaInv'
<1> SUFFICES ASSUME ArenaInv, [ArenaNext]_<<chainVars, arenaVars>> PROVE ArenaInv'
  OBVIOUS
<1>0. ArenaTypeOK /\ TimeTypeOK /\ RegistryTypeOK /\ HeadMatchesHistory
  BY DEF ArenaInv, ArenaTypeOK
<1>1. UNCHANGED <<evaluations, arenaPaused>> => EvaluationsKept /\ arenaPaused' \in BOOLEAN
  BY <1>0 DEF EvaluationsKept, EvaluationsMove, ArenaInv, ArenaTypeOK, Timely
<1>2. UNCHANGED <<listings, versions, usedKeys, identityOwner>> => RegistryTypeOK' /\ HeadMatchesHistory'
  BY <1>0 DEF RegistryTypeOK, IdentityTypeOK, HeadMatchesHistory, HeadOf
<1>3. UNCHANGED now => TimeTypeOK'
  BY <1>0 DEF TimeTypeOK
<1>4. CASE ContractStep /\ UNCHANGED chainVars
  BY <1>2, <1>3, <1>4, ContractKeeps, ChainKeepsInv DEF chainVars, registryVars
<1>5. CASE RowStep /\ UNCHANGED chainVars
  BY <1>5, RowStepKeeps
<1>6. CASE RegistryNext /\ UNCHANGED <<identityOwner, now, arenaVars>>
  BY <1>0, <1>1, <1>3, <1>6, RegistryStep, ChainKeepsInv DEF arenaVars
<1>7. ASSUME NEW a \in AgentIds, NEW to \in Accounts, TransferIdentity(a, to),
             UNCHANGED <<registryVars, now, arenaVars>>
      PROVE  ArenaInv'
  <2>1. RegistryTypeOK' /\ HeadMatchesHistory'
    BY <1>0, <1>7 DEF TransferIdentity, registryVars, RegistryTypeOK, IdentityTypeOK,
                      HeadMatchesHistory, HeadOf
  <2> QED BY <1>1, <1>3, <1>7, <2>1, ChainKeepsInv DEF arenaVars
<1>8. CASE Tick /\ UNCHANGED <<identityOwner, registryVars, arenaVars>>
  <2>1. TimeTypeOK'
    BY <1>0, <1>8, HorizonAssumption DEF Tick, TimeTypeOK
  <2> QED BY <1>1, <1>2, <1>8, <2>1, ChainKeepsInv DEF arenaVars, registryVars
<1>9. CASE UNCHANGED <<chainVars, arenaVars>>
  BY <1>1, <1>2, <1>3, <1>9, ChainKeepsInv DEF chainVars, arenaVars, registryVars
<1> QED BY <1>4, <1>5, <1>6, <1>7, <1>8, <1>9 DEF ArenaNext

LEMMA ArenaInvariant == ArenaSpec => []ArenaInv
<1>1. ArenaInit => ArenaInv
  BY ArenaInitInv
<1>2. ArenaInv /\ [ArenaNext]_<<chainVars, arenaVars>> => ArenaInv'
  BY ArenaStepInv
<1> QED BY <1>1, <1>2, PTL DEF ArenaSpec

(* The listings, evaluations, rows and reconciles keep their types.        *)
THEOREM ArenaTypes == ArenaSpec => []ArenaTypeOK
<1>1. ArenaInv => ArenaTypeOK
  BY DEF ArenaInv
<1> QED BY <1>1, ArenaInvariant, PTL

(* A verdict of the contract, revoked or not, rests on evidence anchored   *)
(* before the evaluation's expiry, though scoreEvaluation has no deadline. *)
THEOREM VerdictsOnTimelyEvidence == ArenaSpec => []VerdictOnTimelyEvidence
<1>1. ArenaInv => VerdictOnTimelyEvidence
  BY DEF ArenaInv, Timely, VerdictOnTimelyEvidence
<1> QED BY <1>1, ArenaInvariant, PTL

(* However many reconciles read, compare and write unlocked, a verdict the *)
(* backend shows is one the contract gave to that very request.            *)
THEOREM VerdictsAreTheChains == ArenaSpec => []VerdictIsTheChains
<1>1. ArenaInv => VerdictIsTheChains
  BY DEF ArenaInv, RowFacts, Confirms, Ended, VerdictIsTheChains, NoRow
<1> QED BY <1>1, ArenaInvariant, PTL
=============================================================================
