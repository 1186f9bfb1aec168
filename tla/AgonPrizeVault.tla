--------------------------- MODULE AgonPrizeVault ---------------------------
(***************************************************************************)
(* AgonPrizeVault.sol: prize pools funded by a sponsor, a payout root per  *)
(* pool published by the operator, claims against it, and the refund of    *)
(* what is left.  Pool keys are 1..MaxPools; the kind and source of a pool *)
(* are payload.  A Merkle root stands for the set of leaves it commits to, *)
(* and a proof verifies exactly for its members.  Nothing on chain checks  *)
(* a root: it may hand out more than its total, or use an index twice.     *)
(***************************************************************************)
EXTENDS Addresses, BlockTime, USDC, Sums

CONSTANTS Vault,           \* the contract's own address
          Treasuries,      \* addresses the admin may send fees to
          Principals,      \* amounts the operator asks for, 0 refused
          FeeRates,        \* fee rates the operator asks for
          BPS,
          MAX_FEE_BPS,
          Roots,           \* roots the operator publishes: sets of leaves
          PayoutTotals,    \* totals it publishes with them
          Deadlines,       \* claim deadlines it publishes; bound: within Horizon
          MaxIndex,        \* bound: leaf indexes are 1..MaxIndex
          MaxPools,        \* bound: pool keys
          InitialBalance   \* what each account holds at the start

Indexes == 1..MaxIndex
Leaf == [index: Indexes, beneficiary: Accounts, amount: Nat]

ASSUME VaultAssumption ==
    /\ Vault \notin Accounts \cup Treasuries
    /\ Holders = Accounts \cup Treasuries \cup {Vault}
    /\ Accounts # {}
    /\ Principals \subseteq Nat
    /\ FeeRates \subseteq Nat
    /\ BPS \in Nat \ {0}
    /\ MAX_FEE_BPS \in Nat
    /\ Roots \subseteq SUBSET Leaf
    /\ PayoutTotals \subseteq Nat
    /\ Deadlines \subseteq 0..Horizon
    /\ MaxIndex \in Nat
    /\ MaxPools \in Nat
    /\ InitialBalance \in Nat

VARIABLES pools,           \* pools[k]: the Pool of key k
          claimed,         \* claimed[k]: the indexes its bitmap has set
          treasury,
          paused

vars == <<now, usdc, pools, claimed, treasury, paused>>

Keys  == 1..MaxPools
State == {"None", "Funded", "RootPublished", "Closed"}
Pool  == [state: State, sponsor: Accounts, principal: Nat, fee: Nat,
          payoutRoot: SUBSET Leaf, payoutTotal: Nat, claimedTotal: Nat, claimDeadline: Nat]

(* A key without a pool; every handler but createPool reverts on it. *)
Missing == [state |-> "None", sponsor |-> CHOOSE a \in Accounts : TRUE, principal |-> 0,
            fee |-> 0, payoutRoot |-> {}, payoutTotal |-> 0, claimedTotal |-> 0,
            claimDeadline |-> 0]

Init == /\ TimeInit
        /\ usdc = [h \in Holders |-> IF h \in Accounts THEN InitialBalance ELSE 0]
        /\ pools = [k \in Keys |-> Missing]
        /\ claimed = [k \in Keys |-> {}]
        /\ treasury \in Treasuries
        /\ paused = FALSE
-----------------------------------------------------------------------------
NewPool(sponsor, principal, fee) ==
    [state |-> "Funded", sponsor |-> sponsor, principal |-> principal, fee |-> fee,
     payoutRoot |-> {}, payoutTotal |-> 0, claimedTotal |-> 0, claimDeadline |-> 0]

createPool(k, sponsor, principal, feeBps) ==
    /\ ~paused
    /\ principal # 0
    /\ feeBps <= MAX_FEE_BPS
    /\ pools[k].state = "None"
    /\ LET fee == (principal * feeBps) \div BPS
       IN  /\ pools' = [pools EXCEPT ![k] = NewPool(sponsor, principal, fee)]
           /\ CanPay(sponsor, principal + fee)
           /\ usdc' = Moved(Moved(usdc, sponsor, Vault, principal + fee), Vault, treasury, fee)
    /\ UNCHANGED <<now, claimed, treasury, paused>>

publishPayoutRoot(k, root, total, deadline) ==
    /\ ~paused
    /\ pools[k].state = "Funded"
    /\ root # {} /\ total # 0
    /\ total <= pools[k].principal
    /\ deadline > now
    /\ pools' = [pools EXCEPT ![k].payoutRoot = root, ![k].payoutTotal = total,
                              ![k].claimDeadline = deadline, ![k].state = "RootPublished"]
    /\ UNCHANGED <<now, usdc, claimed, treasury, paused>>

(* What claim asks of the pool, the clock and the leaf before it pays. *)
Claimable(k, leaf) ==
    /\ pools[k].state = "RootPublished"
    /\ now <= pools[k].claimDeadline
    /\ leaf.amount # 0
    /\ leaf \in pools[k].payoutRoot
    /\ pools[k].claimedTotal + leaf.amount <= pools[k].payoutTotal

(* Mutant: the bitmap is set but not read. *)
ClaimAgain(k, leaf) ==
    /\ ~paused
    /\ Claimable(k, leaf)
    /\ claimed' = [claimed EXCEPT ![k] = @ \cup {leaf.index}]
    /\ pools' = [pools EXCEPT ![k].claimedTotal = @ + leaf.amount]
    /\ usdc' = Moved(usdc, Vault, leaf.beneficiary, leaf.amount)
    /\ UNCHANGED <<now, treasury, paused>>

(* Mutant: the pool does not remember what it paid. *)
ClaimUnrecorded(k, leaf) ==
    /\ ~paused
    /\ Claimable(k, leaf)
    /\ leaf.index \notin claimed[k]
    /\ claimed' = [claimed EXCEPT ![k] = @ \cup {leaf.index}]
    /\ usdc' = Moved(usdc, Vault, leaf.beneficiary, leaf.amount)
    /\ UNCHANGED <<now, pools, treasury, paused>>

claim(k, leaf) ==
    /\ ~paused
    /\ Claimable(k, leaf)
    /\ leaf.index \notin claimed[k]
    /\ claimed' = [claimed EXCEPT ![k] = @ \cup {leaf.index}]
    /\ pools' = [pools EXCEPT ![k].claimedTotal = @ + leaf.amount]
    /\ CanPay(Vault, leaf.amount)
    /\ usdc' = Moved(usdc, Vault, leaf.beneficiary, leaf.amount)
    /\ UNCHANGED <<now, treasury, paused>>

remaining(k) == pools[k].principal - pools[k].claimedTotal

RefundDue(k) == /\ pools[k].state = "RootPublished"
                /\ pools[k].claimedTotal = pools[k].payoutTotal \/ now >= pools[k].claimDeadline

Close(k, amount) ==
    /\ pools' = [pools EXCEPT ![k].state = "Closed"]
    /\ CanPay(Vault, amount)
    /\ usdc' = Moved(usdc, Vault, pools[k].sponsor, amount)
    /\ UNCHANGED <<now, claimed, treasury, paused>>

(* Mutant: a pause blocks the refund too. *)
RefundUnlessPaused(k) == ~paused /\ RefundDue(k) /\ Close(k, remaining(k))

refundRemaining(k) == RefundDue(k) /\ Close(k, remaining(k))

pause   == ~paused /\ paused' = TRUE /\ UNCHANGED <<now, usdc, pools, claimed, treasury>>
unpause == paused /\ paused' = FALSE /\ UNCHANGED <<now, usdc, pools, claimed, treasury>>

setTreasury(newTreasury) ==
    /\ treasury' = newTreasury
    /\ UNCHANGED <<now, usdc, pools, claimed, paused>>

Pass == Tick /\ UNCHANGED <<usdc, pools, claimed, treasury, paused>>

Next == \/ \E k \in Keys, s \in Accounts, p \in Principals, f \in FeeRates : createPool(k, s, p, f)
        \/ \E k \in Keys, r \in Roots, t \in PayoutTotals, d \in Deadlines :
               publishPayoutRoot(k, r, t, d)
        \/ \E k \in Keys : \E leaf \in pools[k].payoutRoot : claim(k, leaf)
        \/ \E k \in Keys : refundRemaining(k)
        \/ pause
        \/ unpause
        \/ \E t \in Treasuries : setTreasury(t)
        \/ Pass

Spec == Init /\ [][Next]_vars

(* Time passes, and the operator takes back what is left of a pool once it *)
(* may: nothing else is needed of anybody.                                 *)
VaultFairness == WF_vars(Pass) /\ \A k \in Keys : WF_vars(refundRemaining(k))

FairSpec == Spec /\ VaultFairness
-----------------------------------------------------------------------------
VaultTypeOK ==
    /\ TimeTypeOK
    /\ USDCTypeOK
    /\ pools \in [Keys -> Pool]
    /\ claimed \in [Keys -> SUBSET Indexes]
    /\ treasury \in Treasuries
    /\ paused \in BOOLEAN
    /\ \A k \in Keys : /\ pools[k].claimedTotal <= pools[k].payoutTotal
                       /\ pools[k].payoutTotal <= pools[k].principal

(* What the vault still holds of pool k. *)
held(k) == IF pools[k].state \in {"Funded", "RootPublished"} THEN remaining(k) ELSE 0

HeldByKey == [k \in Keys |-> held(k)]

(* The vault holds exactly what its open pools have left, so no pool is    *)
(* ever paid out of another's principal, even by a root that over-pays.    *)
VaultSolvency == usdc[Vault] = SumTo(HeldByKey, MaxPools)

(* Each pool is an account of the abstract custody contract: createPool    *)
(* pays into one, claim and refundRemaining pay out of one.                *)
Pots == INSTANCE Custody WITH Slots <- MaxPools, owed <- HeldByKey, pot <- usdc[Vault]
VaultImplementsCustody == Pots!Spec

(* A root is honest if it uses each index once and its leaves add up to no *)
(* more than the total published with it.                                  *)
UniqueIndexes(root) == \A l, m \in root : l.index = m.index => l = m

Due(root, i) == IF \E l \in root : l.index = i
                THEN (CHOOSE l \in root : l.index = i).amount ELSE 0

DueByIndex(root) == [i \in Indexes |-> Due(root, i)]

Honest(root, total) == UniqueIndexes(root) /\ SumTo(DueByIndex(root), MaxIndex) <= total

(* Under an honest root nobody can be crowded out: whatever was claimed    *)
(* before, and in whatever order, each leaf not yet claimed still fits the *)
(* total and the vault can pay it.                                         *)
HonestRootPaysEveryone ==
    \A k \in Keys :
        (pools[k].state = "RootPublished" /\ Honest(pools[k].payoutRoot, pools[k].payoutTotal))
            => \A leaf \in pools[k].payoutRoot :
                   leaf.index \notin claimed[k] =>
                       /\ pools[k].claimedTotal + leaf.amount <= pools[k].payoutTotal
                       /\ CanPay(Vault, leaf.amount)

(* What the steps preserve together.  The books and the bitmap of a pool   *)
(* agree: as long as no index stands for two leaves, claimedTotal is the   *)
(* sum over the indexes set, and before a root is out nothing is claimed.  *)
ClaimedByIndex(k) ==
    [i \in Indexes |-> IF i \in claimed[k] THEN Due(pools[k].payoutRoot, i) ELSE 0]

BitmapMatchesBooks ==
    \A k \in Keys :
        UniqueIndexes(pools[k].payoutRoot)
            => pools[k].claimedTotal = SumTo(ClaimedByIndex(k), MaxIndex)

NothingClaimedYet ==
    \A k \in Keys : pools[k].state \in {"None", "Funded"} =>
        claimed[k] = {} /\ pools[k].claimedTotal = 0

VaultInv == VaultTypeOK /\ VaultSolvency /\ BitmapMatchesBooks /\ NothingClaimedYet

(* What is left of a pool with a root goes back to its sponsor in the end, *)
(* even if the vault stays paused for ever.                                *)
RemainderReturned ==
    \A k \in Keys : (pools[k].state = "RootPublished") ~> (pools[k].state = "Closed")
=============================================================================
