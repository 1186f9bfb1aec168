---------------------------- MODULE MCReconcile -----------------------------
(***************************************************************************)
(* Instances for TLC of what the backend settles from an outside reading:  *)
(* job records from the chain, x402 receipts from Circle; and of the fee   *)
(* notice job quotes rely on.  They share no state, so a run lets one of   *)
(* them move while the others stay where they began.                       *)
(***************************************************************************)
EXTENDS JobRecord, AgonFeeQuote, X402Settlement, FiniteSets

(* Bound: with two jobs on chain one request reconciles at a time. *)
JobBound == Len(chainJobs') + Cardinality({r \in Reconcilers : reads'[r] # NoRead}) <= 3

FeesIdle == QuoteInit /\ protocolFeeBps = EscrowFeeBps

MCInit == RecordInit /\ QuoteInit /\ Init
MCNext == \/ RecordNext /\ JobBound /\ FeesIdle /\ Init /\ UNCHANGED <<quoteVars, vars>>
          \/ QuoteNext /\ RecordInit /\ Init /\ UNCHANGED <<recordVars, vars>>
          \/ Next /\ RecordInit /\ FeesIdle /\ UNCHANGED <<recordVars, quoteVars>>

MCSpec == MCInit /\ [][MCNext]_<<recordVars, quoteVars, vars>>
MCFairSpec == MCSpec /\ RecordFairness /\ Fairness
=============================================================================
