---------------------------- MODULE X402Receipt -----------------------------
(***************************************************************************)
(* The durable receipt of one paid x402 call (x402-receipt.ts), and the    *)
(* only ways it is written: every writer locks the row, checks the move    *)
(* against ALLOWED and replaces the fields the event carries, keeping the  *)
(* others (coalesce).  Of the evidence, the two payment references decide  *)
(* what can be reconciled; the rest is payload.                            *)
(***************************************************************************)
VARIABLE receipt

ReceiptStates == {"prepared", "approved", "payment_required", "authorization_ready",
                  "authorization_submitted", "settlement_submitted", "service_delivered",
                  "reconciled", "rejected", "failed", "unknown"}

ALLOWED ==
    [prepared                |-> {"approved", "rejected"},
     approved                |-> {"payment_required", "rejected", "failed"},
     payment_required        |-> {"authorization_ready", "rejected", "failed"},
     authorization_ready     |-> {"authorization_submitted", "rejected", "failed"},
     authorization_submitted |-> {"settlement_submitted", "failed", "unknown"},
     settlement_submitted    |-> {"settlement_submitted", "service_delivered", "failed", "unknown"},
     service_delivered       |-> {"reconciled", "unknown"},
     reconciled              |-> {},
     rejected                |-> {},
     failed                  |-> {},
     unknown                 |-> {"settlement_submitted", "service_delivered", "reconciled", "failed"}]

SettlementRefs == {"none", "marker", "tx"}
TransferIds    == {"none", "uuid"}

Receipt == [state: ReceiptStates, settlementRef: SettlementRefs, providerTransferId: TransferIds]

(* Before approval there is no row; approveX402CallReceipt inserts it as   *)
(* prepared and approves it in one transaction.                            *)
ReceiptInit == receipt = [state |-> "prepared", settlementRef |-> "none",
                          providerTransferId |-> "none"]

Allows(to) == to \in ALLOWED[receipt.state]

coalesce(new, old) == IF new = "none" THEN old ELSE new

(* One transaction of advanceX402CallReceipt, when the event is allowed. *)
advance(to, ref, id) ==
    /\ Allows(to)
    /\ receipt' = [state |-> to, settlementRef |-> coalesce(ref, receipt.settlementRef),
                   providerTransferId |-> coalesce(id, receipt.providerTransferId)]

(* The states a receipt is in before any settlement was attempted. *)
BeforeSettlement == {"prepared", "approved", "payment_required", "authorization_ready",
                     "authorization_submitted"}
=============================================================================
