--------------------------- MODULE MCListingIndex ---------------------------
(***************************************************************************)
(* An instance of ListingIndex for TLC.  Accounts and manifests are alike, *)
(* so the first version may be the one of a given owner and manifest.      *)
(***************************************************************************)
EXTENDS ListingIndex

CONSTANTS alice, bob, m1, m2

MCIndexInit == IndexInit /\ identityOwner = [a \in AgentIds |-> alice]

FirstByAlice == IF log' = << >> THEN identityOwner' = identityOwner
                ELSE log'[1].of.manifestHash = m1

MCIndexNext == IndexNext /\ FirstByAlice

MCIndexSpec == MCIndexInit /\ [][MCIndexNext]_listingVars /\ IndexFairness
=============================================================================
