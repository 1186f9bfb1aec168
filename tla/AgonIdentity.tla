---------------------------- MODULE AgonIdentity ----------------------------
(***************************************************************************)
(* The external ERC-8004 identity registry, an ERC-721 the repository does *)
(* not own, as AgonProfileRegistry.currentOwner reads it: an identity that *)
(* does not exist has the zero address as its owner, and a holder may hand *)
(* the identity to anyone between any two Agon transactions.               *)
(***************************************************************************)
EXTENDS Addresses

CONSTANTS AgentIds,    \* ERC-8004 token ids (never 0)
          NoAddress    \* address(0)

ASSUME NoAddressAssumption == NoAddress \notin Accounts

VARIABLE identityOwner \* identityOwner[a]: holder of token a, or NoAddress

(* AgonProfileRegistry.currentOwner: ownerOf, with a failing call read as  *)
(* the zero address.                                                       *)
currentOwner(a) == identityOwner[a]

IdentityInit == identityOwner \in [AgentIds -> Accounts \cup {NoAddress}]

(* ERC-721 transferFrom by the holder. *)
TransferIdentity(a, to) ==
    /\ identityOwner[a] # NoAddress
    /\ identityOwner' = [identityOwner EXCEPT ![a] = to]

IdentityTypeOK == identityOwner \in [AgentIds -> Accounts \cup {NoAddress}]
=============================================================================
