--------------------------- MODULE X402Settlement ---------------------------
(***************************************************************************)
(* Settling one x402 call intent: the authenticated settle, reconcile and  *)
(* delivery-evidence requests that may run at once against one receipt,    *)
(* each a sequence of awaits (x402-orchestrator.ts, agon/http/service.ts), *)
(* and the provider and Circle they talk to.  A step of a request is what  *)
(* happens between two awaits.  A process may die between any two steps;   *)
(* what it knew is gone and the receipt stays as it was.                   *)
(*                                                                         *)
(* Ownership, confirmations, hashes, spend policy and expiry are checked   *)
(* before anything is written and end a request without an effect: such a  *)
(* request is one that never started.                                      *)
(***************************************************************************)
EXTENDS X402Receipt

CONSTANTS Calls,        \* bound: settle requests for this intent
          Recons,       \* bound: reconcile requests under way at once
          DeliveryIds,  \* ids the provider reports its delivery under
          RefKinds,     \* how a provider names a payment: "tx", "uuid"
          Crashable     \* the requests whose process may die

ASSUME X402Assumption == /\ Calls \cap DeliveryIds = {}
                         /\ RefKinds \subseteq {"tx", "uuid"}

VARIABLES approval,        \* an execution approval is recorded
          listingCurrent,  \* the listing is still at the intent's version
          pc,              \* pc[c]: where settle request c is
          request,         \* request[c]: what became of c's HTTP request to the provider
          rpc,             \* rpc[r]: where reconcile request r is
          verification,    \* verification[r]: what Circle answered r
          captured,        \* captured[r]: the state r read after the answer
          evidence,        \* ids of the delivery evidence rows
          transfer         \* the payment at Circle: its status and the provider's reference

settleVars == <<pc, request>>
reconVars  == <<rpc, verification, captured>>
world      == <<evidence, transfer, listingCurrent>>
vars == <<receipt, approval, settleVars, reconVars, world>>

Init == /\ ReceiptInit
        /\ approval = FALSE
        /\ listingCurrent = TRUE
        /\ pc = [c \in Calls |-> "idle"]
        /\ request = [c \in Calls |-> "none"]
        /\ rpc = [r \in Recons |-> "idle"]
        /\ verification = [r \in Recons |-> "none"]
        /\ captured = [r \in Recons |-> "prepared"]
        /\ evidence = {}
        /\ transfer = [status |-> "none", ref |-> "none"]
-----------------------------------------------------------------------------
(* Authorization.  Each request reads the receipt, works, and advances it; *)
(* the move is allowed from the state it read only, so it takes effect as  *)
(* if it were one step.                                                    *)
Authorize(to) == /\ advance(to, "none", "none")
                 /\ UNCHANGED <<approval, settleVars, reconVars, world>>

approveX402Call         == receipt.state = "prepared" /\ Authorize("approved")
captureX402Quote        == receipt.state = "approved" /\ Authorize("payment_required")
prepareX402Authorization == receipt.state = "payment_required" /\ Authorize("authorization_ready")
submitX402Authorization == receipt.state = "authorization_ready" /\ Authorize("authorization_submitted")

approveX402Execution ==
    /\ receipt.state = "authorization_submitted"
    /\ approval' = TRUE
    /\ UNCHANGED <<receipt, settleVars, reconVars, world>>
-----------------------------------------------------------------------------
(* The settle request.  It reads the receipt and goes on only if no        *)
(* attempt is recorded (settleX402Call, settle).                           *)
Goto(c, step) == pc' = [pc EXCEPT ![c] = step]

settleStart(c) ==
    /\ pc[c] = "idle"
    /\ approval
    /\ listingCurrent
    /\ Goto(c, IF receipt.state = "authorization_submitted" THEN "checked" ELSE "returned")
    /\ UNCHANGED <<receipt, approval, request, reconVars, world>>

(* The durable marker, written before the provider is called. *)
settleMark(c) ==
    /\ pc[c] = "checked"
    /\ \/ advance("settlement_submitted", "marker", "none") /\ Goto(c, "marked")
       \/ ~Allows("settlement_submitted") /\ Goto(c, "returned") /\ UNCHANGED receipt
    /\ UNCHANGED <<approval, request, reconVars, world>>

settleCall(c) ==
    /\ pc[c] = "marked"
    /\ Goto(c, "calling")
    /\ request' = [request EXCEPT ![c] = "sent"]
    /\ UNCHANGED <<receipt, approval, reconVars, world>>

(* The adapter's answer: a reference and the service's result, or any      *)
(* failure: refusal, invalid proof, time-out, an approval that expired.    *)
settleReply(c) ==
    /\ pc[c] = "calling"
    /\ \/ request[c] = "accepted" /\ Goto(c, "accepted")
       \/ Goto(c, "failed")
    /\ UNCHANGED <<receipt, approval, request, reconVars, world>>

settleUnknown(c) ==
    /\ pc[c] = "failed"
    /\ Goto(c, "returned")
    /\ \/ advance("unknown", "none", "none")
       \/ ~Allows("unknown") /\ UNCHANGED receipt
    /\ UNCHANGED <<approval, request, reconVars, world>>

settleRecord(c) ==
    /\ pc[c] = "accepted"
    /\ \/ /\ advance("settlement_submitted",
                     IF transfer.ref = "tx" THEN "tx" ELSE "none",
                     IF transfer.ref = "uuid" THEN "uuid" ELSE "none")
          /\ Goto(c, "recorded")
       \/ ~Allows("settlement_submitted") /\ Goto(c, "returned") /\ UNCHANGED receipt
    /\ UNCHANGED <<approval, request, reconVars, world>>

(* recordX402DeliveryEvidence: one transaction on the receipt's row.  The  *)
(* same evidence again changes nothing, whatever the receipt's state.      *)
recordX402DeliveryEvidence(id) ==
    \/ id \in evidence /\ UNCHANGED <<receipt, evidence>>
    \/ id \notin evidence /\ advance("service_delivered", "none", "none")
                          /\ evidence' = evidence \cup {id}

(* The service stores the result the settle call came back with, under a   *)
(* fresh id.                                                               *)
settleDeliver(c) ==
    /\ pc[c] = "recorded"
    /\ Goto(c, "returned")
    /\ \/ recordX402DeliveryEvidence(c)
       \/ ~Allows("service_delivered") /\ UNCHANGED <<receipt, evidence>>
    /\ UNCHANGED <<approval, request, reconVars, transfer, listingCurrent>>
-----------------------------------------------------------------------------
(* The provider and Circle, external.  An authorization carries a nonce:   *)
(* it is paid at most once, and asking again finds the same payment or is  *)
(* refused.                                                                *)
providerAccept(c) ==
    /\ request[c] = "sent"
    /\ request' = [request EXCEPT ![c] = "accepted"]
    /\ \/ /\ transfer.status = "none"
          /\ \E kind \in RefKinds : transfer' = [status |-> "received", ref |-> kind]
       \/ transfer.status # "none" /\ UNCHANGED transfer
    /\ UNCHANGED <<receipt, approval, pc, reconVars, evidence, listingCurrent>>

providerRefuse(c) ==
    /\ request[c] = "sent"
    /\ request' = [request EXCEPT ![c] = "refused"]
    /\ UNCHANGED <<receipt, approval, pc, reconVars, world>>

circleFinalize ==
    /\ transfer.status = "received"
    /\ \E s \in {"confirmed", "failed"} : transfer' = [transfer EXCEPT !.status = s]
    /\ UNCHANGED <<receipt, approval, settleVars, reconVars, evidence, listingCurrent>>

(* The provider reports a delivery it made, as delivery-evidence allows. *)
recordX402Delivery(id) ==
    /\ \E c \in Calls : request[c] = "accepted"
    /\ receipt.state \in {"settlement_submitted", "unknown"}
    /\ listingCurrent
    /\ recordX402DeliveryEvidence(id)
    /\ UNCHANGED <<approval, settleVars, reconVars, transfer, listingCurrent>>

(* The provider publishes another version of the listing. *)
publishListing ==
    /\ listingCurrent
    /\ listingCurrent' = FALSE
    /\ UNCHANGED <<receipt, approval, settleVars, reconVars, evidence, transfer>>
-----------------------------------------------------------------------------
(* The reconcile request: read the references, ask Circle, read the        *)
(* receipt again, write.  Circle's lookup knows transfer ids only.         *)
Rgoto(r, step) == rpc' = [rpc EXCEPT ![r] = step]

Reconcilable == {"unknown", "settlement_submitted", "service_delivered"}

reconcileRead(r) ==
    /\ rpc[r] = "idle"
    /\ receipt.state \in Reconcilable
    /\ receipt.providerTransferId = "uuid"
    /\ Rgoto(r, "looking")
    /\ UNCHANGED <<receipt, approval, settleVars, verification, captured, world>>

(* Mutant: a transfer Circle is still working on is taken for a failed one. *)
LookupHasty(r) ==
    /\ rpc[r] = "looking"
    /\ Rgoto(r, "verified")
    /\ verification' = [verification EXCEPT ![r] =
           IF transfer.status = "received" THEN "failed" ELSE transfer.status]
    /\ UNCHANGED <<receipt, approval, settleVars, captured, world>>

lookup(r) ==
    /\ rpc[r] = "looking"
    /\ Rgoto(r, "verified")
    /\ verification' = [verification EXCEPT ![r] =
           IF transfer.status = "received" THEN "pending" ELSE transfer.status]
    /\ UNCHANGED <<receipt, approval, settleVars, captured, world>>

lookupFails(r) ==
    /\ rpc[r] = "looking"
    /\ Rgoto(r, "idle")
    /\ UNCHANGED <<receipt, approval, settleVars, verification, captured, world>>

(* Circle names no transaction, so a receipt that recorded one cannot      *)
(* match.                                                                  *)
reconcileReread(r) ==
    /\ rpc[r] = "verified"
    /\ captured' = [captured EXCEPT ![r] = receipt.state]
    /\ Rgoto(r, IF /\ receipt.state \in Reconcilable
                   /\ receipt.settlementRef # "tx"
                   /\ verification[r] # "pending"
                THEN "deciding" ELSE "idle")
    /\ UNCHANGED <<receipt, approval, settleVars, verification, world>>

(* Mutant: delivery is not asked for. *)
ReconcileUndelivered(state, status) ==
    CASE status = "confirmed" -> "reconciled"
      [] status = "failed" /\ state # "service_delivered" -> "failed"
      [] OTHER -> "none"

(* Mutant: a confirmation is only ever noted as submitted. *)
ConfirmOnly(state, status) ==
    CASE status = "confirmed" -> "settlement_submitted"
      [] status = "failed" /\ state # "service_delivered" -> "failed"
      [] OTHER -> "none"

(* What the evidence makes of the state that was read; "none" refuses. *)
reconcileTarget(state, status) ==
    CASE status = "confirmed" /\ state = "service_delivered" -> "reconciled"
      [] status = "confirmed" /\ state # "service_delivered" -> "settlement_submitted"
      [] status = "failed" /\ state # "service_delivered" -> "failed"
      [] OTHER -> "none"

reconcileWrite(r) ==
    /\ rpc[r] = "deciding"
    /\ Rgoto(r, "idle")
    /\ LET to == reconcileTarget(captured[r], verification[r])
       IN  \/ to # "none" /\ advance(to, "none", IF to = "failed" THEN "none" ELSE "uuid")
           \/ (to = "none" \/ ~Allows(to)) /\ UNCHANGED receipt
    /\ UNCHANGED <<approval, settleVars, verification, captured, world>>
-----------------------------------------------------------------------------
(* A process dies in the middle of its request. *)
crash(p) ==
    /\ \/ p \in Calls /\ pc[p] \notin {"idle", "returned"} /\ Goto(p, "returned")
                      /\ UNCHANGED rpc
       \/ p \in Recons /\ rpc[p] # "idle" /\ Rgoto(p, "idle") /\ UNCHANGED pc
    /\ UNCHANGED <<receipt, approval, request, verification, captured, world>>

Settling(c) == \/ settleMark(c) \/ settleCall(c) \/ settleReply(c)
               \/ settleUnknown(c) \/ settleRecord(c) \/ settleDeliver(c)

Reconciling(r) == reconcileRead(r) \/ lookup(r) \/ reconcileReread(r) \/ reconcileWrite(r)

Next == \/ approveX402Call
        \/ captureX402Quote
        \/ prepareX402Authorization
        \/ submitX402Authorization
        \/ approveX402Execution
        \/ \E c \in Calls : settleStart(c) \/ Settling(c) \/ providerAccept(c) \/ providerRefuse(c)
        \/ \E id \in DeliveryIds : recordX402Delivery(id)
        \/ \E r \in Recons : Reconciling(r) \/ lookupFails(r)
        \/ circleFinalize
        \/ publishListing
        \/ \E p \in Crashable : crash(p)

Spec == Init /\ [][Next]_vars

(* Fairness: a settle request under way runs on, Circle decides, and       *)
(* somebody reconciles until it works: neither an outage of the lookup nor *)
(* a crash hits every attempt.                                             *)
Fairness ==
    /\ \A c \in Calls : WF_vars(Settling(c))
    /\ \A r \in Recons : /\ WF_vars(reconcileRead(r))
                         /\ SF_vars(lookup(r))
                         /\ SF_vars(reconcileReread(r))
                         /\ SF_vars(reconcileWrite(r))
    /\ WF_vars(circleFinalize)

FairSpec == Spec /\ Fairness
-----------------------------------------------------------------------------
X402TypeOK ==
    /\ receipt \in Receipt
    /\ approval \in BOOLEAN
    /\ listingCurrent \in BOOLEAN
    /\ pc \in [Calls -> {"idle", "checked", "marked", "calling", "accepted", "failed",
                         "recorded", "returned"}]
    /\ request \in [Calls -> {"none", "sent", "accepted", "refused"}]
    /\ rpc \in [Recons -> {"idle", "looking", "verified", "deciding"}]
    /\ verification \in [Recons -> {"none", "pending", "confirmed", "failed"}]
    /\ captured \in [Recons -> ReceiptStates]
    /\ evidence \subseteq Calls \cup DeliveryIds
    /\ transfer \in [status: {"none", "received", "confirmed", "failed"},
                     ref: {"none", "tx", "uuid"}]

(* A reconciled receipt is a proven one: Circle confirmed the payment and  *)
(* the delivery is in evidence, whichever requests raced and whatever the  *)
(* receipt was between a request's read and its write.                     *)
ReconciledIsProven ==
    receipt.state = "reconciled" => transfer.status = "confirmed" /\ evidence # {}

(* A call is written off only when its payment failed at Circle: neither a *)
(* refusal, a time-out nor a crash makes a paid call look unpaid.          *)
FailedIsUnpaid == receipt.state = "failed" => transfer.status = "failed"

(* The marker comes first: once a request may have reached the provider,   *)
(* the receipt can never again look as if no attempt was made, through     *)
(* crashes included, so a later settle request stops at its first read.    *)
MarkedBeforeCalled ==
    \A c \in Calls : request[c] # "none" => receipt.state \notin BeforeSettlement

(* What the steps preserve together: what a request holds in memory stays  *)
(* true of the world while it waits, however old its reading is.  Circle's *)
(* final answers are final, evidence is only added, and a settle request   *)
(* past its marker leaves no way back before it.                           *)
X402Inv ==
    /\ X402TypeOK
    /\ ReconciledIsProven
    /\ FailedIsUnpaid
    /\ MarkedBeforeCalled
    /\ receipt.state \in {"service_delivered", "reconciled"} => evidence # {}
    /\ receipt.state # "rejected"
    /\ \A c \in Calls : pc[c] \notin {"idle", "checked", "returned"}
                            => receipt.state \notin BeforeSettlement
    /\ \A r \in Recons :
         /\ verification[r] \in {"confirmed", "failed"} => transfer.status = verification[r]
         /\ captured[r] = "service_delivered" => evidence # {}

(* A finished receipt is never touched again by a request still under way. *)
FinalStaysFinal ==
    [][receipt.state \in {"reconciled", "rejected", "failed"} => receipt' = receipt]_vars

(* A delivered call whose payment is confirmed and whose transfer id was   *)
(* recorded is reconciled in the end, once no settle request is under way. *)
DeliveredIsReconciled ==
    (/\ receipt.state = "service_delivered"
     /\ receipt.providerTransferId = "uuid"
     /\ transfer.status = "confirmed"
     /\ \A c \in Calls : pc[c] \in {"idle", "returned"}) ~> (receipt.state = "reconciled")

(* backend/test/agon/x402-orchestrator.test.ts:83 says that "retries are   *)
(* idempotent after a durable submission marker", :95 that an ambiguous    *)
(* failure "blocks duplicate settlement": one intent is sent to its        *)
(* provider at most once.                                                  *)
SentAtMostOnce ==
    \A c, d \in Calls : request[c] # "none" /\ request[d] # "none" => c = d
=============================================================================
