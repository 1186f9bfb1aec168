----------------------------- MODULE Addresses ------------------------------
(* The externally owned accounts that call the Agon contracts. *)
CONSTANT Accounts
=============================================================================
