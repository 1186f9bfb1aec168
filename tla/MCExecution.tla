---------------------------- MODULE MCExecution -----------------------------
(***************************************************************************)
(* Instances of the two money-moving executors of the backend for TLC.     *)
(* They share no state, so a run lets one of them move while the other     *)
(* stays where it began: their interleavings would show nothing more.      *)
(***************************************************************************)
EXTENDS AgentSpend, EscrowExecution

CONSTANTS a, b, i1

MCPolicy(enabled, wallet, perCall, daily, allowed) ==
    [enabled |-> enabled, wallet |-> wallet, perCall |-> perCall, daily |-> daily,
     allowed |-> allowed]

(* A generous cap, a lower one for one recipient, no wallet, switched off. *)
MCPolicies == {MCPolicy(TRUE, TRUE, 2, 3, {}), MCPolicy(TRUE, TRUE, 1, 1, {a}),
               MCPolicy(TRUE, FALSE, 2, 3, {}), MCPolicy(FALSE, TRUE, 2, 3, {})}

MCTerms       == [i \in EscrowIntents |-> 1]
MCPoolBinding == [i \in EscrowIntents |-> "pool"]

MCInit == SpendInit /\ ExecutionInit
MCNext == \/ SpendNext /\ ExecutionInit /\ UNCHANGED executionVars
          \/ ExecutionNext /\ SpendInit /\ UNCHANGED spendVars
MCSpec == MCInit /\ [][MCNext]_<<spendVars, executionVars>>
=============================================================================
