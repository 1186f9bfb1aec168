----------------------------- MODULE MCBackend ------------------------------
(***************************************************************************)
(* The backend's two executors and its listing tables in one instance for  *)
(* TLC.  They share no state, so a run lets one of them move while the     *)
(* others stay where they began.                                           *)
(***************************************************************************)
EXTENDS MCExecution, MCListingIndex

BackendInit == MCInit /\ MCIndexInit
BackendNext == \/ MCNext /\ MCIndexInit /\ UNCHANGED listingVars
               \/ /\ MCIndexNext
                  /\ MCInit /\ policy = CHOOSE p \in Policies : TRUE
                  /\ pool = [p \in PoolIds |-> 0]
                  /\ UNCHANGED <<spendVars, executionVars>>
BackendSpec == /\ BackendInit
               /\ [][BackendNext]_<<spendVars, executionVars, listingVars>>
               /\ IndexFairness
=============================================================================
