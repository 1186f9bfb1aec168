-------------------------- MODULE MCAgonJobEscrow ---------------------------
(***************************************************************************)
(* Instance of AgonJobEscrow for TLC.  Amount 20 at 500 bps costs a fee of *)
(* 1; amount 0 is refused, and a fee rate of 0 pays in one transfer.       *)
(***************************************************************************)
EXTENDS AgonJobEscrow

CONSTANTS buyer, provider, escrow, treasury1

MCAccounts   == {buyer, provider}
MCTreasuries == {treasury1}
MCHolders    == MCAccounts \cup MCTreasuries \cup {escrow}

(* The listing rows of one identity already in a wallet's hands. *)
MCInit == /\ Init
          /\ identityOwner = [a \in AgentIds |-> provider]
          /\ protocolFeeBps = 500
MCFairSpec == MCInit /\ [][Next]_vars /\ Fairness
=============================================================================
