-------------------------------- MODULE USDC --------------------------------
(***************************************************************************)
(* The ERC-20 token every custody contract of the repository holds.  The   *)
(* token is external code; what is modelled is how the contracts use it:   *)
(* SafeERC20 transfers that move the exact amount or revert the whole      *)
(* transaction.  A reverted transaction changes nothing and is no step.    *)
(***************************************************************************)
EXTENDS Integers

CONSTANT Holders       \* every address that can hold USDC, contracts included

VARIABLE usdc          \* usdc[h]: the token's balance of h

(* safeTransferFrom and safeTransfer revert on an insufficient balance. *)
CanPay(from, amount) == usdc[from] >= amount

(* The balances after one transfer; `from` and `to` may be the same. *)
Moved(bal, from, to, amount) ==
    [bal EXCEPT ![from] = @ - amount, ![to] = @ + amount]

USDCTypeOK == usdc \in [Holders -> Nat]
=============================================================================
