---------------------------- MODULE PrizeEscrow -----------------------------
(***************************************************************************)
(* PrizeEscrow.sol: the one USDC custodian ContestEngine and               *)
(* ChallengeArena share.  Its functions are calls made inside their        *)
(* transactions, so each is an operator on the pools and the token, not a  *)
(* step of its own; `ledger` is the token as the calls before it in the    *)
(* same transaction left it.  Only the two controllers can call it.        *)
(***************************************************************************)
EXTENDS USDC, Sums

CONSTANTS Escrow,          \* the contract's own address
          MaxContests,     \* bound: contests ever listed
          MaxChallenges    \* bound: challenges ever created

VARIABLES poolBalance,     \* poolBalance[key]: USDC held for that pool
          treasury

escrowVars == <<poolBalance, treasury, usdc>>

Pools == 1..(MaxContests + MaxChallenges)

(* Mutant: pools are keyed by their number alone. *)
KeyWithoutController(controller, id) == id

(* The hash of controller and id: no two pools share a key. *)
_key(controller, id) == IF controller = "ContestEngine" THEN id ELSE MaxContests + id

EscrowInit == poolBalance = [k \in Pools |-> 0]

deposit(key, from, amount, ledger) ==
    /\ amount # 0
    /\ ledger[from] >= amount
    /\ poolBalance' = [poolBalance EXCEPT ![key] = @ + amount]
    /\ usdc' = Moved(ledger, from, Escrow, amount)

(* The listing fee goes straight to the treasury; nothing is due if 0. *)
collectListingFee(from, amount) == Moved(usdc, from, treasury, amount)

debit(key, to, amount) ==
    /\ amount # 0
    /\ poolBalance[key] >= amount
    /\ poolBalance' = [poolBalance EXCEPT ![key] = @ - amount]
    /\ usdc' = Moved(usdc, Escrow, to, amount)

payout(key, recipient, amount) == debit(key, recipient, amount)

(* Callers skip the call when there is nothing to move. *)
debitIfAny(key, to, amount) ==
    IF amount = 0 THEN UNCHANGED <<poolBalance, usdc>> ELSE debit(key, to, amount)

skimPlatformFee(key, amount) == debitIfAny(key, treasury, amount)

(* Mutant: the pool keeps its balance. *)
SweepKeepsPool(key) == /\ poolBalance[key] # 0
                       /\ usdc' = Moved(usdc, Escrow, treasury, poolBalance[key])
                       /\ UNCHANGED poolBalance

sweepPool(key) == debit(key, treasury, poolBalance[key])

setTreasury(newTreasury) == treasury' = newTreasury /\ UNCHANGED <<poolBalance, usdc>>
=============================================================================
