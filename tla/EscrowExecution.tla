-------------------------- MODULE EscrowExecution ---------------------------
(***************************************************************************)
(* How the backend moves PrizeEscrow money for an escrow intent: the three *)
(* gates of service.ts, the orchestrator that marks an intent before it    *)
(* calls the adapter, the adapter and writer that check the approval again *)
(* and send one transaction, and the PrizeEscrow pool the intent is bound  *)
(* to.  A request is one fund, release or refund call; each of its awaits  *)
(* is a step, and its process may die between any two.                     *)
(*                                                                         *)
(* Execution is off by default; this is the runtime with every switch on.  *)
(* No code path reconciles an unknown intent, so none is modelled.         *)
(***************************************************************************)
EXTENDS Naturals, Sequences

CONSTANTS EscrowIntents,
          EscrowRequests,    \* concurrent lifecycle calls
          terms,             \* terms[i]: the amount of intent i, in base units
          PoolIds,
          poolBinding,       \* poolBinding[i]: the pool of intent i
          MaxPool,           \* bound: a pool's balance
          MaxWrites          \* bound: transactions sent

ASSUME ExecutionAssumption ==
    /\ terms \in [EscrowIntents -> Nat \ {0}]
    /\ poolBinding \in [EscrowIntents -> PoolIds]
    /\ MaxPool \in Nat
    /\ MaxWrites \in Nat

AgonEscrowLifecycleAction == {"fund", "release", "refund"}
markerState   == [fund |-> "funding", release |-> "release_pending", refund |-> "refund_pending"]
terminalState == [fund |-> "funded", release |-> "released", refund |-> "refunded"]
readyState    == [fund |-> "prepared", release |-> "funded", refund |-> "funded"]

AgonEscrowIntentState ==
    {"prepared", "funding", "funded", "release_pending", "released",
     "refund_pending", "refunded", "unknown", "failed"}

Transitions ==
    [prepared |-> {"funding", "failed"}, funding |-> {"funded", "unknown", "failed"},
     funded |-> {"release_pending", "refund_pending", "unknown"},
     release_pending |-> {"released", "unknown", "failed"},
     refund_pending |-> {"refunded", "unknown", "failed"},
     unknown |-> {"funded", "release_pending", "refund_pending", "failed"},
     released |-> {"released"}, refunded |-> {"refunded"}, failed |-> {"failed"}]

(* Mutant: an unknown funding may be tried again. *)
RetryUnknownFunding(from, to) == to \in Transitions[from] \/ <<from, to>> = <<"unknown", "funding">>

isAgonEscrowTransitionAllowed(from, to) == to \in Transitions[from]

Ready == [at |-> "ready"]
Call  == [at: {"pool", "approval", "intent", "marking", "calling", "receipt", "recording"},
          intent: EscrowIntents, action: AgonEscrowLifecycleAction,
          hash: Nat,   \* the transaction it sent, 0 for none
          outcome: {"none", "success", "reverted", "ambiguous"}]

(* A transaction sent for an intent: pending until the chain includes it. *)
Transaction == [intent: EscrowIntents, action: AgonEscrowLifecycleAction,
                status: {"pending", "landed", "reverted"}]

VARIABLES escrow,      \* escrow[i]: the state column of intent i
          approval,    \* approval[i]: the operation of the latest unexpired approval, or "none"
          pool,        \* pool[p]: PrizeEscrow.poolBalance(controller, p)
          lifecycle,   \* lifecycle[q]: where the call q is
          transactions \* what was sent to the chain; hashes count from 1

executionVars == <<escrow, approval, pool, lifecycle, transactions>>

Of(i, action) ==
    {h \in DOMAIN transactions : transactions[h].intent = i /\ transactions[h].action = action}
Landed(i, action) == {h \in Of(i, action) : transactions[h].status = "landed"}
Payouts(i) == Of(i, "release") \cup Of(i, "refund")

Goto(q, step) == lifecycle' = [lifecycle EXCEPT ![q].at = step]
Return(q)     == lifecycle' = [lifecycle EXCEPT ![q] = Ready]
Ends(q, outcome) ==
    lifecycle' = [lifecycle EXCEPT ![q].at = "recording", ![q].outcome = outcome]
-----------------------------------------------------------------------------
(* The owner approves an operation the intent is ready for; the approval   *)
(* expires after five minutes.                                             *)
approveAgonEscrowTransaction(i, action) ==
    /\ escrow[i] = readyState[action]
    /\ approval' = [approval EXCEPT ![i] = action]
    /\ UNCHANGED <<escrow, pool, lifecycle, transactions>>

ApprovalExpires(i) ==
    /\ approval[i] # "none"
    /\ approval' = [approval EXCEPT ![i] = "none"]
    /\ UNCHANGED <<escrow, pool, lifecycle, transactions>>

(* executeAgonEscrowLifecycle: the pool must hold exactly the intent's     *)
(* amount, whatever the operation; then the approval must be for it.       *)
executeAgonEscrowLifecycle(q, i, action) ==
    /\ lifecycle[q] = Ready
    /\ lifecycle' = [lifecycle EXCEPT ![q] = [at |-> "pool", intent |-> i, action |-> action,
                                              hash |-> 0, outcome |-> "none"]]
    /\ UNCHANGED <<escrow, approval, pool, transactions>>

CheckPool(q) ==
    LET i == lifecycle[q].intent IN
    /\ lifecycle[q].at = "pool"
    /\ IF pool[poolBinding[i]] = terms[i] THEN Goto(q, "approval") ELSE Return(q)
    /\ UNCHANGED <<escrow, approval, pool, transactions>>

CheckApproval(q) ==
    /\ lifecycle[q].at = "approval"
    /\ IF approval[lifecycle[q].intent] = lifecycle[q].action THEN Goto(q, "intent") ELSE Return(q)
    /\ UNCHANGED <<escrow, approval, pool, transactions>>

(* execute() reads the intent without a lock: a terminal, unknown or busy  *)
(* intent ends the call.                                                   *)
ReadIntent(q) ==
    /\ lifecycle[q].at = "intent"
    /\ IF escrow[lifecycle[q].intent] = readyState[lifecycle[q].action]
       THEN Goto(q, "marking") ELSE Return(q)
    /\ UNCHANGED <<escrow, approval, pool, transactions>>

(* Mutant: a marker that is already there is taken for one's own. *)
MarkAgain(q) ==
    LET i == lifecycle[q].intent
        marker == markerState[lifecycle[q].action] IN
    /\ lifecycle[q].at = "marking"
    /\ IF isAgonEscrowTransitionAllowed(escrow[i], marker) \/ escrow[i] = marker
       THEN /\ escrow' = [escrow EXCEPT ![i] = marker]
            /\ Goto(q, "calling")
       ELSE escrow' = escrow /\ Return(q)
    /\ UNCHANGED <<approval, pool, transactions>>

(* The marker, through advanceAgonEscrowIntent: under the row lock, and    *)
(* checked against the table from the state the row has now.               *)
Mark(q) ==
    LET i == lifecycle[q].intent
        marker == markerState[lifecycle[q].action] IN
    /\ lifecycle[q].at = "marking"
    /\ IF isAgonEscrowTransitionAllowed(escrow[i], marker)
       THEN /\ escrow' = [escrow EXCEPT ![i] = marker]
            /\ Goto(q, "calling")
       ELSE escrow' = escrow /\ Return(q)
    /\ UNCHANGED <<approval, pool, transactions>>

(* The adapter call up to writeContract.  Without a matching approval, or  *)
(* when a read or the sending fails, the outcome is ambiguous to the       *)
(* orchestrator; a sending that failed may still have reached the chain.   *)
Write(q) ==
    LET i == lifecycle[q].intent
        sent == [intent |-> i, action |-> lifecycle[q].action, status |-> "pending"]
        hash == Len(transactions) + 1
        Sent(step, outcome) ==
            lifecycle' = [lifecycle EXCEPT ![q].at = step, ![q].outcome = outcome, ![q].hash = hash]
    IN  /\ lifecycle[q].at = "calling"
        /\ \/ Ends(q, "ambiguous") /\ transactions' = transactions
           \/ /\ approval[i] = lifecycle[q].action
              /\ Len(transactions) < MaxWrites
              /\ transactions' = Append(transactions, sent)
              /\ Sent("receipt", "none") \/ Sent("recording", "ambiguous")
        /\ UNCHANGED <<escrow, approval, pool>>

(* waitForTransactionReceipt, which gives up after its timeout. *)
Receipt(q) ==
    /\ lifecycle[q].at = "receipt"
    /\ \/ transactions[lifecycle[q].hash].status = "landed" /\ Ends(q, "success")
       \/ transactions[lifecycle[q].hash].status = "reverted" /\ Ends(q, "reverted")
       \/ Ends(q, "ambiguous")
    /\ UNCHANGED <<escrow, approval, pool, transactions>>

(* Mutant: a transaction without a receipt is taken for a failed one. *)
RecordTimeoutAsFailed(q) ==
    LET i == lifecycle[q].intent
        state == CASE lifecycle[q].outcome = "success"   -> terminalState[lifecycle[q].action]
                   [] lifecycle[q].outcome \in {"reverted", "ambiguous"} -> "failed" IN
    /\ lifecycle[q].at = "recording"
    /\ escrow' = IF isAgonEscrowTransitionAllowed(escrow[i], state)
                 THEN [escrow EXCEPT ![i] = state] ELSE escrow
    /\ Return(q)
    /\ UNCHANGED <<approval, pool, transactions>>

(* The outcome is recorded through the same table; when that write fails   *)
(* the marker stays.                                                       *)
Record(q) ==
    LET i == lifecycle[q].intent
        state == CASE lifecycle[q].outcome = "success"   -> terminalState[lifecycle[q].action]
                   [] lifecycle[q].outcome = "reverted"  -> "failed"
                   [] lifecycle[q].outcome = "ambiguous" -> "unknown" IN
    /\ lifecycle[q].at = "recording"
    /\ \/ /\ isAgonEscrowTransitionAllowed(escrow[i], state)
          /\ escrow' = [escrow EXCEPT ![i] = state]
       \/ escrow' = escrow
    /\ Return(q)
    /\ UNCHANGED <<approval, pool, transactions>>

(* The process serving q dies. *)
Die(q) ==
    /\ lifecycle[q] # Ready
    /\ Return(q)
    /\ UNCHANGED <<escrow, approval, pool, transactions>>
-----------------------------------------------------------------------------
(* The chain includes a transaction: depositPrizePool adds to the pool if  *)
(* the buyer can pay, payout takes from it if it holds enough.             *)
Include(h) ==
    LET t == transactions[h]
        p == poolBinding[t.intent]
        amount == terms[t.intent]
        Becomes(status) == transactions' = [transactions EXCEPT ![h].status = status]
    IN  /\ t.status = "pending"
        /\ \/ /\ t.action = "fund" /\ pool[p] + amount <= MaxPool
              /\ pool' = [pool EXCEPT ![p] = @ + amount] /\ Becomes("landed")
           \/ /\ t.action # "fund" /\ pool[p] >= amount
              /\ pool' = [pool EXCEPT ![p] = @ - amount] /\ Becomes("landed")
           \/ /\ t.action # "fund" => pool[p] < amount
              /\ pool' = pool /\ Becomes("reverted")
        /\ UNCHANGED <<escrow, approval, lifecycle>>

(* The same controller moves money in and out of a pool for itself. *)
ControllerMovesPool(p) ==
    /\ \E balance \in 0..MaxPool : pool' = [pool EXCEPT ![p] = balance]
    /\ UNCHANGED <<escrow, approval, lifecycle, transactions>>
-----------------------------------------------------------------------------
ExecutionInit ==
    /\ escrow = [i \in EscrowIntents |-> "prepared"]
    /\ approval = [i \in EscrowIntents |-> "none"]
    /\ pool \in [PoolIds -> 0..MaxPool]
    /\ lifecycle = [q \in EscrowRequests |-> Ready]
    /\ transactions = << >>

LifecycleCall(q) ==
    \/ \E i \in EscrowIntents, action \in AgonEscrowLifecycleAction :
           executeAgonEscrowLifecycle(q, i, action)
    \/ CheckPool(q) \/ CheckApproval(q) \/ ReadIntent(q)
    \/ Mark(q) \/ Write(q) \/ Receipt(q) \/ Record(q) \/ Die(q)

ExecutionNext ==
    \/ \E q \in EscrowRequests : LifecycleCall(q)
    \/ \E i \in EscrowIntents, action \in AgonEscrowLifecycleAction :
           approveAgonEscrowTransaction(i, action)
    \/ \E i \in EscrowIntents : ApprovalExpires(i)
    \/ \E h \in DOMAIN transactions : Include(h)
    \/ \E p \in PoolIds : ControllerMovesPool(p)

ExecutionSpec == ExecutionInit /\ [][ExecutionNext]_executionVars
-----------------------------------------------------------------------------
ExecutionTypeOK ==
    /\ escrow \in [EscrowIntents -> AgonEscrowIntentState]
    /\ approval \in [EscrowIntents -> AgonEscrowLifecycleAction \cup {"none"}]
    /\ pool \in [PoolIds -> Nat]
    /\ lifecycle \in [EscrowRequests -> Call \cup {Ready}]
    /\ transactions \in Seq(Transaction)

Holder(q, i) == /\ lifecycle[q].at \in {"calling", "receipt", "recording"}
                /\ lifecycle[q].intent = i

(* The marker is a lock: of all the calls that read an intent as ready, at *)
(* most one at a time is between its marker and its outcome, and meanwhile *)
(* the row shows that call's own marker.                                   *)
OneCallHoldsTheMarker ==
    \A i \in EscrowIntents, q \in EscrowRequests : Holder(q, i) =>
        /\ escrow[i] = markerState[lifecycle[q].action]
        /\ \A r \in EscrowRequests \ {q} : ~Holder(r, i)

(* An intent is funded by one transaction at most, and money leaves its    *)
(* pool for it only once its funding has landed: crashes, lost receipts,   *)
(* retries and stale reads of the intent notwithstanding.                  *)
FundedOnceBeforePayout ==
    \A i \in EscrowIntents :
        /\ \A g, h \in Of(i, "fund") : g = h
        /\ Payouts(i) # {} => Landed(i, "fund") # {}

(* The record never claims a movement of money that did not happen, and an *)
(* intent that failed before it was ever funded took nothing from its      *)
(* buyer, nor can it still.                                                *)
RecordMatchesChain ==
    \A i \in EscrowIntents :
        /\ \A action \in AgonEscrowLifecycleAction :
               escrow[i] = terminalState[action] => Landed(i, action) # {}
        /\ escrow[i] = "failed" /\ Payouts(i) = {} =>
               \A h \in Of(i, "fund") : transactions[h].status = "reverted"

(* escrow-policy.ts:131: "Unknown outcomes can only be advanced by an      *)
(* independent reconciliation result, never by replaying the provider      *)
(* write."  No code reconciles one, so an unknown intent stays unknown.    *)
UnknownIsNotReplayed ==
    [][\A i \in EscrowIntents : escrow[i] = "unknown" => escrow'[i] = "unknown"]_executionVars
=============================================================================
