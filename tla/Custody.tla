------------------------------ MODULE Custody -------------------------------
(***************************************************************************)
(* What every custody contract of the repository promises, whatever its    *)
(* business rules are: one pot of USDC split into separate accounts.  A    *)
(* transaction pays into one account or pays out of one account, the pot   *)
(* moves by the same amount, and nothing is paid out of an account beyond  *)
(* what that account holds.  AgonJobEscrow, AgonPrizeVault and the         *)
(* PrizeEscrow of ArcRunCustody are shown to implement this.               *)
(*                                                                         *)
(* Amounts are unbounded, so an action reads the new value of its account  *)
(* instead of drawing an amount from a set.                                *)
(***************************************************************************)
EXTENDS Sums

CONSTANT Slots         \* the accounts are 1..Slots

VARIABLES owed,        \* owed[k]: what account k still holds
          pot          \* the contract's USDC balance

vars == <<owed, pot>>

Init == /\ owed = [k \in 1..Slots |-> 0]
        /\ pot = 0

OnlyAccount(k) == \A j \in 1..Slots \ {k} : owed'[j] = owed[j]

Deposit(k) == /\ owed'[k] > owed[k]
              /\ OnlyAccount(k)
              /\ pot' = pot + (owed'[k] - owed[k])

PayOut(k) == /\ 0 <= owed'[k] /\ owed'[k] < owed[k]
             /\ OnlyAccount(k)
             /\ pot' = pot - (owed[k] - owed'[k])

Next == \E k \in 1..Slots : Deposit(k) \/ PayOut(k)

Spec == Init /\ [][Next]_vars

(* The pot is exactly the sum of the accounts: nothing is stranded in it   *)
(* and nothing is missing from it.                                         *)
Solvent == pot = SumTo(owed, Slots)
=============================================================================
