--------------------------- MODULE ReconcileProofs ---------------------------
(***************************************************************************)
(* What the backend settles from an outside reading.  A receipt, for any   *)
(* number of settle, reconcile and delivery requests under way at once.    *)
(* The record of a job, for any number of intents, chain jobs, versions    *)
(* and concurrent reconciles; RecordInv says that a read in flight keeps   *)
(* the terms of a job, not its status.  The tables of the listing index,   *)
(* for any log and any number of listings, versions, writers and lost      *)
(* batches; IndexInv says that what a transaction has read and written is  *)
(* true of the events before it, whatever others commit meanwhile.         *)
(***************************************************************************)
EXTENDS JobRecord, X402Settlement, ListingIndex, AgonServiceRegistryProofs

(* advance moves a well-typed receipt to a well-typed receipt, in the      *)
(* state asked for, along ALLOWED.                                         *)
LEMMA AdvanceMoves ==
    ASSUME receipt \in Receipt, NEW to \in ReceiptStates, NEW ref \in SettlementRefs,
           NEW id \in TransferIds, advance(to, ref, id)
    PROVE  /\ receipt' \in Receipt
           /\ receipt'.state = to
           /\ to \in ALLOWED[receipt.state]
  BY DEF advance, Allows, coalesce, Receipt, SettlementRefs, TransferIds

(* The inductive invariant holds at the start. *)
LEMMA X402InvInit == Init => X402Inv
  <1> SUFFICES ASSUME Init  PROVE X402Inv
    OBVIOUS
  <1>1. receipt.state = "prepared" /\ receipt \in Receipt
    BY DEF Init, ReceiptInit, Receipt, ReceiptStates, SettlementRefs, TransferIds
  <1>2. X402TypeOK
    BY <1>1 DEF Init, X402TypeOK, ReceiptStates
  <1> QED
    BY <1>1, <1>2 DEF Init, X402Inv, ReconciledIsProven, FailedIsUnpaid, MarkedBeforeCalled

(* Moves of the receipt before any settlement attempt. *)
LEMMA AuthorizeKeepsInv ==
    ASSUME X402Inv, NEW from \in BeforeSettlement, NEW to \in BeforeSettlement,
           receipt.state = from, Authorize(to)
    PROVE  X402Inv'
  <1>1. to \in ReceiptStates /\ "none" \in SettlementRefs /\ "none" \in TransferIds
    BY DEF BeforeSettlement, ReceiptStates, SettlementRefs, TransferIds
  <1>2. receipt' \in Receipt /\ receipt'.state = to
    BY <1>1, AdvanceMoves DEF Authorize, X402Inv, X402TypeOK
  <1> QED
    BY <1>2 DEF X402Inv, X402TypeOK, ReconciledIsProven, FailedIsUnpaid, MarkedBeforeCalled,
                Authorize, settleVars, reconVars, world, BeforeSettlement

(* Steps of a settle request. *)
LEMMA SettleKeepsInv ==
    ASSUME X402Inv, NEW c \in Calls, settleStart(c) \/ Settling(c)
    PROVE  X402Inv'
  <1> USE DEF X402Inv, settleVars, reconVars, world, Goto
  <1>a. /\ {"settlement_submitted", "unknown", "service_delivered"} \subseteq ReceiptStates
        /\ receipt.state \in ReceiptStates
    BY DEF ReceiptStates, X402TypeOK, Receipt
  <1>1. CASE settleStart(c)
    BY <1>1 DEF settleStart, X402TypeOK, ReconciledIsProven, FailedIsUnpaid, MarkedBeforeCalled
  <1>2. CASE settleMark(c)
    <2>1. CASE advance("settlement_submitted", "marker", "none")
      <3>1. /\ receipt' \in Receipt
            /\ receipt'.state = "settlement_submitted"
        BY <1>a, <2>1, AdvanceMoves DEF X402TypeOK, SettlementRefs, TransferIds
      <3> QED
        BY <1>2, <3>1 DEF settleMark, X402TypeOK, ReconciledIsProven, FailedIsUnpaid,
                          MarkedBeforeCalled, BeforeSettlement
    <2>2. CASE UNCHANGED receipt /\ Goto(c, "returned")
      BY <1>2, <2>2 DEF settleMark, X402TypeOK, ReconciledIsProven, FailedIsUnpaid,
                        MarkedBeforeCalled
    <2> QED  BY <1>2, <2>1, <2>2 DEF settleMark
  <1>3. CASE settleCall(c)
    BY <1>3 DEF settleCall, X402TypeOK, ReconciledIsProven, FailedIsUnpaid, MarkedBeforeCalled
  <1>4. CASE settleReply(c)
    BY <1>4 DEF settleReply, X402TypeOK, ReconciledIsProven, FailedIsUnpaid, MarkedBeforeCalled
  <1>5. CASE settleUnknown(c)
    <2>1. CASE advance("unknown", "none", "none")
      <3>1. /\ receipt' \in Receipt
            /\ receipt'.state = "unknown"
        BY <1>a, <2>1, AdvanceMoves DEF X402TypeOK, SettlementRefs, TransferIds
      <3> QED
        BY <1>5, <3>1 DEF settleUnknown, X402TypeOK, ReconciledIsProven, FailedIsUnpaid,
                          MarkedBeforeCalled, BeforeSettlement
    <2>2. CASE UNCHANGED receipt
      BY <1>5, <2>2 DEF settleUnknown, X402TypeOK, ReconciledIsProven, FailedIsUnpaid,
                        MarkedBeforeCalled
    <2> QED  BY <1>5, <2>1, <2>2 DEF settleUnknown
  <1>6. CASE settleRecord(c)
    <2> DEFINE ref == IF transfer.ref = "tx" THEN "tx" ELSE "none"
               id  == IF transfer.ref = "uuid" THEN "uuid" ELSE "none"
    <2>1. CASE advance("settlement_submitted", ref, id) /\ Goto(c, "recorded")
      <3>1. /\ receipt' \in Receipt
            /\ receipt'.state = "settlement_submitted"
        BY <1>a, <2>1, AdvanceMoves DEF X402TypeOK, SettlementRefs, TransferIds
      <3> QED
        BY <1>6, <2>1, <3>1 DEF settleRecord, X402TypeOK, ReconciledIsProven, FailedIsUnpaid,
                                MarkedBeforeCalled, BeforeSettlement
    <2>2. CASE UNCHANGED receipt /\ Goto(c, "returned")
      BY <1>6, <2>2 DEF settleRecord, X402TypeOK, ReconciledIsProven, FailedIsUnpaid,
                        MarkedBeforeCalled
    <2> QED  BY <1>6, <2>1, <2>2 DEF settleRecord
  <1>7. CASE settleDeliver(c)
    <2>1. CASE advance("service_delivered", "none", "none") /\ evidence' = evidence \cup {c}
      <3>1. /\ receipt' \in Receipt
            /\ receipt'.state = "service_delivered"
        BY <1>a, <2>1, AdvanceMoves DEF X402TypeOK, SettlementRefs, TransferIds
      <3> QED
        BY <1>7, <2>1, <3>1 DEF settleDeliver, X402TypeOK, ReconciledIsProven, FailedIsUnpaid,
                                MarkedBeforeCalled, BeforeSettlement
    <2>2. CASE UNCHANGED <<receipt, evidence>>
      BY <1>7, <2>2 DEF settleDeliver, X402TypeOK, ReconciledIsProven, FailedIsUnpaid,
                        MarkedBeforeCalled
    <2> QED  BY <1>7, <2>1, <2>2 DEF settleDeliver, recordX402DeliveryEvidence
  <1> QED  BY <1>1, <1>2, <1>3, <1>4, <1>5, <1>6, <1>7 DEF Settling

(* Steps of the provider and of Circle. *)
LEMMA WorldKeepsInv ==
    ASSUME X402Inv,
           \/ \E c \in Calls : providerAccept(c) \/ providerRefuse(c)
           \/ \E id \in DeliveryIds : recordX402Delivery(id)
           \/ circleFinalize
           \/ publishListing
    PROVE  X402Inv'
  <1> USE DEF X402Inv, settleVars, reconVars, world
  <1>1. ASSUME NEW c \in Calls, providerAccept(c)  PROVE X402Inv'
    BY <1>1, X402Assumption DEF providerAccept, X402TypeOK, ReconciledIsProven, FailedIsUnpaid,
                                MarkedBeforeCalled
  <1>2. ASSUME NEW c \in Calls, providerRefuse(c)  PROVE X402Inv'
    BY <1>2 DEF providerRefuse, X402TypeOK, ReconciledIsProven, FailedIsUnpaid, MarkedBeforeCalled
  <1>3. ASSUME NEW id \in DeliveryIds, recordX402Delivery(id)  PROVE X402Inv'
    <2>1. CASE advance("service_delivered", "none", "none") /\ evidence' = evidence \cup {id}
      <3>1. /\ receipt' \in Receipt
            /\ receipt'.state = "service_delivered"
        BY <2>1, AdvanceMoves DEF X402TypeOK, SettlementRefs, TransferIds, ReceiptStates
      <3> QED
        BY <1>3, <2>1, <3>1 DEF recordX402Delivery, X402TypeOK, ReconciledIsProven, FailedIsUnpaid,
                                MarkedBeforeCalled, BeforeSettlement
    <2>2. CASE UNCHANGED <<receipt, evidence>>
      BY <1>3, <2>2 DEF recordX402Delivery, X402TypeOK, ReconciledIsProven, FailedIsUnpaid,
                        MarkedBeforeCalled
    <2> QED  BY <1>3, <2>1, <2>2 DEF recordX402Delivery, recordX402DeliveryEvidence
  <1>4. CASE circleFinalize
    BY <1>4 DEF circleFinalize, X402TypeOK, ReconciledIsProven, FailedIsUnpaid, MarkedBeforeCalled
  <1>5. CASE publishListing
    BY <1>5 DEF publishListing, X402TypeOK, ReconciledIsProven, FailedIsUnpaid, MarkedBeforeCalled
  <1> QED  BY <1>1, <1>2, <1>3, <1>4, <1>5

(* Steps of a reconcile request.  It writes what an old reading and a      *)
(* later answer told it; both are still true when it does.                 *)
LEMMA ReconcileKeepsInv ==
    ASSUME X402Inv, NEW r \in Recons, Reconciling(r) \/ lookupFails(r)
    PROVE  X402Inv'
  <1> USE DEF X402Inv, settleVars, reconVars, world, Rgoto
  <1>1. CASE reconcileRead(r)
    BY <1>1 DEF reconcileRead, X402TypeOK, ReconciledIsProven, FailedIsUnpaid, MarkedBeforeCalled
  <1>2. CASE lookup(r)
    BY <1>2 DEF lookup, X402TypeOK, ReconciledIsProven, FailedIsUnpaid, MarkedBeforeCalled
  <1>3. CASE lookupFails(r)
    BY <1>3 DEF lookupFails, X402TypeOK, ReconciledIsProven, FailedIsUnpaid, MarkedBeforeCalled
  <1>4. CASE reconcileReread(r)
    BY <1>4 DEF reconcileReread, X402TypeOK, Receipt, ReconciledIsProven, FailedIsUnpaid,
                MarkedBeforeCalled
  <1>5. CASE reconcileWrite(r)
    <2> DEFINE to == reconcileTarget(captured[r], verification[r])
               id == IF to = "failed" THEN "none" ELSE "uuid"
    <2>1. CASE to # "none" /\ advance(to, "none", id)
      <3>1. /\ to \in {"reconciled", "settlement_submitted", "failed"}
            /\ to = "reconciled" => transfer.status = "confirmed" /\ evidence # {}
            /\ to = "failed" => transfer.status = "failed"
        BY <2>1 DEF reconcileTarget
      <3>2. /\ receipt' \in Receipt
            /\ receipt'.state = to
        <4> HIDE DEF to
        <4> QED  BY <2>1, <3>1, AdvanceMoves DEF X402TypeOK, SettlementRefs, TransferIds, ReceiptStates
      <3> HIDE DEF to
      <3> QED
        BY <1>5, <3>1, <3>2 DEF reconcileWrite, X402TypeOK, ReconciledIsProven, FailedIsUnpaid,
                                MarkedBeforeCalled, BeforeSettlement
    <2>2. CASE UNCHANGED receipt
      BY <1>5, <2>2 DEF reconcileWrite, X402TypeOK, ReconciledIsProven, FailedIsUnpaid,
                        MarkedBeforeCalled
    <2> QED  BY <1>5, <2>1, <2>2 DEF reconcileWrite
  <1> QED  BY <1>1, <1>2, <1>3, <1>4, <1>5 DEF Reconciling

(* Every step preserves the invariant; a crash forgets what a request knew *)
(* and so breaks nothing.                                                  *)
LEMMA X402InvNext == X402Inv /\ [Next]_vars => X402Inv'
  <1> SUFFICES ASSUME X402Inv, [Next]_vars  PROVE X402Inv'
    OBVIOUS
  <1> USE DEF settleVars, reconVars, world
  <1>1. CASE approveX402Call
    BY <1>1, AuthorizeKeepsInv DEF approveX402Call, BeforeSettlement
  <1>2. CASE captureX402Quote
    BY <1>2, AuthorizeKeepsInv DEF captureX402Quote, BeforeSettlement
  <1>3. CASE prepareX402Authorization
    BY <1>3, AuthorizeKeepsInv DEF prepareX402Authorization, BeforeSettlement
  <1>4. CASE submitX402Authorization
    BY <1>4, AuthorizeKeepsInv DEF submitX402Authorization, BeforeSettlement
  <1>5. CASE approveX402Execution
    BY <1>5 DEF approveX402Execution, X402Inv, X402TypeOK, ReconciledIsProven, FailedIsUnpaid,
                MarkedBeforeCalled
  <1>6. CASE \E c \in Calls : settleStart(c) \/ Settling(c)
    BY <1>6, SettleKeepsInv
  <1>7. CASE \E r \in Recons : Reconciling(r) \/ lookupFails(r)
    BY <1>7, ReconcileKeepsInv
  <1>8. CASE \/ \E c \in Calls : providerAccept(c) \/ providerRefuse(c)
             \/ \E id \in DeliveryIds : recordX402Delivery(id)
             \/ circleFinalize
             \/ publishListing
    BY <1>8, WorldKeepsInv
  <1>9. CASE \E p \in Crashable : crash(p)
    BY <1>9 DEF crash, Goto, Rgoto, X402Inv, X402TypeOK, ReconciledIsProven, FailedIsUnpaid,
                MarkedBeforeCalled
  <1>10. CASE UNCHANGED vars
    BY <1>10 DEF vars, X402Inv, X402TypeOK, ReconciledIsProven, FailedIsUnpaid, MarkedBeforeCalled
  <1> QED
    BY <1>1, <1>2, <1>3, <1>4, <1>5, <1>6, <1>7, <1>8, <1>9, <1>10 DEF Next

(* The receipt, the requests and the payment stay well typed, and what a   *)
(* request remembers stays true, for any number of requests.               *)
THEOREM X402Invariant == Spec => []X402Inv
  BY X402InvInit, X402InvNext, PTL DEF Spec

(* A reconciled receipt has a confirmed payment and delivery evidence      *)
(* behind it, whichever requests raced.                                    *)
THEOREM ReconciledReceiptsProven == Spec => []ReconciledIsProven
  <1>1. X402Inv => ReconciledIsProven
    BY DEF X402Inv
  <1> QED  BY <1>1, X402Invariant, PTL

(* A receipt is failed only if the payment failed at Circle. *)
THEOREM FailedReceiptsUnpaid == Spec => []FailedIsUnpaid
  <1>1. X402Inv => FailedIsUnpaid
    BY DEF X402Inv
  <1> QED  BY <1>1, X402Invariant, PTL

(* No request reaches the provider before the attempt is on record, and no *)
(* step, crashes included, takes the record back.                          *)
THEOREM CallsAreMarked == Spec => []MarkedBeforeCalled
  <1>1. X402Inv => MarkedBeforeCalled
    BY DEF X402Inv
  <1> QED  BY <1>1, X402Invariant, PTL

(* Every state is well typed. *)
THEOREM X402TypeCorrect == Spec => []X402TypeOK
  <1>1. X402Inv => X402TypeOK
    BY DEF X402Inv
  <1> QED  BY <1>1, X402Invariant, PTL

(* A finished receipt is never written again. *)
THEOREM FinalReceiptsFinal == Spec => FinalStaysFinal
  <1> DEFINE Final == receipt.state \in {"reconciled", "rejected", "failed"}
  <1>1. X402Inv /\ [Next]_vars => [Final => receipt' = receipt]_vars
    <2> SUFFICES ASSUME X402Inv, Next, Final  PROVE receipt' = receipt
      OBVIOUS
    <2>1. ASSUME NEW to, NEW ref, NEW id  PROVE ~advance(to, ref, id)
      BY DEF advance, Allows, ALLOWED
    <2> QED
      BY <2>1 DEF Next, Authorize, approveX402Call, captureX402Quote, prepareX402Authorization,
                  submitX402Authorization, approveX402Execution, settleStart, Settling, settleMark,
                  settleCall, settleReply, settleUnknown, settleRecord, settleDeliver,
                  recordX402DeliveryEvidence, providerAccept, providerRefuse, recordX402Delivery,
                  Reconciling, reconcileRead, lookup, lookupFails, reconcileReread, reconcileWrite,
                  circleFinalize, publishListing, crash, world, settleVars, reconVars
  <1> QED
    BY <1>1, X402Invariant, PTL DEF Spec, FinalStaysFinal
-----------------------------------------------------------------------------
(* A bound intent shows a state of the contract and matches its job.       *)
BoundFacts(i) ==
    Bound(i) => /\ intents[i].state \in ChainStatus
                /\ intents[i].onchainJobId \in DOMAIN chainJobs
                /\ validateAgonJobEscrowJobMatch(intents[i], JobOf(i))

(* What a request has read of a job stays true of it but for the status.   *)
ReadFacts(r) ==
    reads[r] # NoRead =>
        /\ intents[reads[r].intent] # NoIntent
        /\ reads[r].jobId \in DOMAIN chainJobs
        /\ reads[r].job.terms = chainJobs[reads[r].jobId].terms
        /\ reads[r].job.version = chainJobs[reads[r].jobId].version
        /\ reads[r].job.feeBps = chainJobs[reads[r].jobId].feeBps

RecordInv == /\ RecordTypeOK
             /\ \A i \in JobIntents : BoundFacts(i)
             /\ \A r \in Reconcilers : ReadFacts(r)

(* Any step in which the chain only grows and jobs keep their terms, bound *)
(* intents stay as they are, and no intent disappears.                     *)
LEMMA ChainGrows ==
    ASSUME RecordInv, RecordTypeOK', UNCHANGED reads,
           \A j \in DOMAIN chainJobs :
               /\ j \in DOMAIN chainJobs'
               /\ chainJobs'[j].terms = chainJobs[j].terms
               /\ chainJobs'[j].version = chainJobs[j].version
               /\ chainJobs'[j].feeBps = chainJobs[j].feeBps,
           \A i \in JobIntents : /\ Bound(i)' => intents'[i] = intents[i]
                                 /\ intents[i] # NoIntent => intents'[i] # NoIntent
    PROVE  RecordInv'
<1>1. ASSUME NEW i \in JobIntents PROVE BoundFacts(i)'
  <2>1. SUFFICES ASSUME Bound(i)' PROVE BoundFacts(i)'
    BY DEF BoundFacts
  <2>2. intents'[i] = intents[i] /\ Bound(i)
    BY <2>1 DEF Bound
  <2> QED BY <2>2 DEF RecordInv, BoundFacts, Bound, JobOf, validateAgonJobEscrowJobMatch
<1>2. ASSUME NEW r \in Reconcilers PROVE ReadFacts(r)'
  <2>1. reads[r] # NoRead => reads[r].intent \in JobIntents
    BY DEF RecordInv, RecordTypeOK, Read, NoRead
  <2> QED BY <2>1 DEF RecordInv, ReadFacts
<1> QED BY <1>1, <1>2 DEF RecordInv

LEMMA RecordInitInv == RecordInit => RecordInv
<1> SUFFICES ASSUME RecordInit PROVE RecordInv
  OBVIOUS
<1>1. RecordTypeOK
  BY JobRecordAssumption DEF RecordInit, RecordTypeOK
<1> QED BY <1>1 DEF RecordInit, RecordInv, BoundFacts, ReadFacts, Bound, NoIntent

LEMMA IntentFields ==
    ASSUME RecordTypeOK, NEW i \in JobIntents
    PROVE  /\ intents[i] # NoIntent => intents[i] \in Intent
           /\ intents[i].onchainJobId \in 0..MaxChainJobs
           /\ intents[i] = NoIntent => ~Bound(i)
  BY JobRecordAssumption DEF RecordTypeOK, Intent, NoIntent, Bound

LEMMA RecordedIntent ==
    ASSUME NEW intent \in Intent, NEW state \in AgonJobEscrowIntentState,
           NEW settlement \in {"none", "provider_paid", "buyer_refunded"},
           NEW jobId \in 0..MaxChainJobs
    PROVE  [intent EXCEPT !.state = state, !.settlement = settlement,
                          !.onchainJobId = jobId] \in Intent
  BY DEF Intent

LEMMA RecordStepInv == RecordInv /\ [RecordNext]_recordVars => RecordInv'
<1> SUFFICES ASSUME RecordInv, [RecordNext]_recordVars PROVE RecordInv'
  OBVIOUS
<1>0. RecordTypeOK /\ MaxChainJobs \in Nat
  BY JobRecordAssumption DEF RecordInv
<1>1. ASSUME NEW i \in JobIntents, NEW t \in JobTerms, prepareAgonJobEscrowIntent(i, t)
      PROVE  RecordInv'
  <2>1. PICK v \in 1..version :
            intents' = [intents EXCEPT ![i] = [terms |-> t, version |-> v, feeBps |-> EscrowFeeBps,
                          state |-> "prepared", settlement |-> "none", onchainJobId |-> 0]]
    BY <1>1 DEF prepareAgonJobEscrowIntent
  <2> DEFINE row == [terms |-> t, version |-> v, feeBps |-> EscrowFeeBps,
                     state |-> "prepared", settlement |-> "none", onchainJobId |-> 0]
  <2>2. row \in Intent /\ row # NoIntent
    <3>1. v \in 1..MaxListingVersion /\ EscrowFeeBps \in Nat
      BY <1>0, JobRecordAssumption DEF RecordTypeOK
    <3>2. row \in Intent
      BY <1>0, <3>1 DEF Intent, AgonJobEscrowIntentState
    <3>3. row.state # NoIntent.state
      BY DEF NoIntent
    <3> QED BY <3>2, <3>3
  <2>3. RecordTypeOK'
    BY <1>0, <1>1, <2>1, <2>2 DEF RecordTypeOK, prepareAgonJobEscrowIntent
  <2>4. \A k \in JobIntents : /\ Bound(k)' => intents'[k] = intents[k]
                              /\ intents[k] # NoIntent => intents'[k] # NoIntent
    BY <1>0, <2>1, <2>2 DEF RecordTypeOK, Bound
  <2> QED BY <1>1, <2>3, <2>4, ChainGrows DEF prepareAgonJobEscrowIntent
<1>2. ASSUME NEW i \in JobIntents, createJob(i) PROVE RecordInv'
  <2> DEFINE job == [ref |-> i, terms |-> intents[i].terms, version |-> version,
                     feeBps |-> feeBps, status |-> "created"]
  <2>1. job \in ChainJob
    BY <1>0, <1>2, IntentFields, JobRecordAssumption DEF createJob, RecordTypeOK, Intent, ChainJob, ChainStatus
  <2>2. chainJobs' = Append(chainJobs, job) /\ Len(chainJobs) < MaxChainJobs /\ UNCHANGED <<version, feeBps, intents, reads>>
    BY <1>2 DEF createJob
  <2>3. chainJobs' \in Seq(ChainJob) /\ Len(chainJobs') = Len(chainJobs) + 1
        /\ \A j \in 1..Len(chainJobs) : chainJobs'[j] = chainJobs[j]
    BY <1>0, <2>1, <2>2 DEF RecordTypeOK
  <2>4. RecordTypeOK'
    BY <1>0, <2>2, <2>3 DEF RecordTypeOK
  <2>5. DOMAIN chainJobs = 1..Len(chainJobs) /\ DOMAIN chainJobs' = 1..Len(chainJobs')
    BY <1>0, <2>3 DEF RecordTypeOK
  <2>6. \A j \in DOMAIN chainJobs : j \in DOMAIN chainJobs' /\ chainJobs'[j] = chainJobs[j]
    BY <1>0, <2>3, <2>5 DEF RecordTypeOK
  <2> QED BY <2>2, <2>4, <2>6, ChainGrows
<1>3. ASSUME NEW i \in Tracked, markAgonJobEscrowSubmitted(i) PROVE RecordInv'
  <2>1. i \in JobIntents /\ intents[i] # NoIntent /\ ~Bound(i)
    BY <1>3, JobRecordAssumption DEF markAgonJobEscrowSubmitted, NoIntent, RecordInv, BoundFacts, ChainStatus
  <2>2. intents[i] \in Intent
    BY <1>0, <2>1, IntentFields
  <2>3. [intents[i] EXCEPT !.state = "submitted"] \in Intent
    BY <2>2 DEF Intent, AgonJobEscrowIntentState
  <2>4. intents' = [intents EXCEPT ![i] = [intents[i] EXCEPT !.state = "submitted"]]
    BY <1>3 DEF markAgonJobEscrowSubmitted
  <2>5. RecordTypeOK'
    BY <1>0, <1>3, <2>1, <2>3, <2>4 DEF RecordTypeOK, markAgonJobEscrowSubmitted
  <2>6. intents'[i] # NoIntent /\ intents'[i].onchainJobId = 0
    BY <1>0, <2>1, <2>2, <2>3, <2>4 DEF RecordTypeOK, Bound, Intent, NoIntent
  <2>7. \A k \in JobIntents : /\ Bound(k)' => intents'[k] = intents[k]
                              /\ intents[k] # NoIntent => intents'[k] # NoIntent
    BY <1>0, <2>1, <2>4, <2>6 DEF RecordTypeOK, Bound
  <2> QED BY <1>3, <2>5, <2>7, ChainGrows DEF markAgonJobEscrowSubmitted
<1>4. ASSUME NEW j \in DOMAIN chainJobs, ChainMove(j) PROVE RecordInv'
  <2>1. PICK s \in ChainMoves[chainJobs[j].status] :
            chainJobs' = [chainJobs EXCEPT ![j].status = s]
    BY <1>4 DEF ChainMove
  <2>2. chainJobs \in Seq(ChainJob) /\ j \in 1..Len(chainJobs) /\ chainJobs[j] \in ChainJob
    BY <1>0, <1>4 DEF RecordTypeOK
  <2>3. s \in ChainStatus
    BY <2>1, <2>2 DEF ChainJob, ChainMoves, ChainStatus
  <2> DEFINE job == [chainJobs[j] EXCEPT !.status = s]
  <2>4. job \in ChainJob /\ job.terms = chainJobs[j].terms /\ job.version = chainJobs[j].version
        /\ job.feeBps = chainJobs[j].feeBps
    BY <2>2, <2>3 DEF ChainJob
  <2>5. chainJobs' = [chainJobs EXCEPT ![j] = job]
    BY <2>1
  <2> HIDE DEF job
  <2>6. chainJobs' \in Seq(ChainJob) /\ Len(chainJobs') = Len(chainJobs)
        /\ \A k \in 1..Len(chainJobs) : chainJobs'[k] = IF k = j THEN job ELSE chainJobs[k]
    BY <2>2, <2>4, <2>5
  <2>7. RecordTypeOK'
    BY <1>0, <1>4, <2>6 DEF RecordTypeOK, ChainMove
  <2>8. DOMAIN chainJobs = 1..Len(chainJobs) /\ DOMAIN chainJobs' = 1..Len(chainJobs)
    BY <2>2, <2>5
  <2>9. \A k \in DOMAIN chainJobs : k \in DOMAIN chainJobs'
               /\ chainJobs'[k].terms = chainJobs[k].terms
               /\ chainJobs'[k].version = chainJobs[k].version
               /\ chainJobs'[k].feeBps = chainJobs[k].feeBps
    BY <2>4, <2>6, <2>8
  <2> QED BY <1>4, <2>7, <2>9, ChainGrows DEF ChainMove
<1>5. CASE publishVersion \/ ChangeFeeRate \/ UNCHANGED recordVars
  <2>1. RecordTypeOK'
    BY <1>0, <1>5, JobRecordAssumption DEF RecordTypeOK, publishVersion, ChangeFeeRate, recordVars
  <2>2. UNCHANGED <<intents, chainJobs, reads>>
    BY <1>5 DEF publishVersion, ChangeFeeRate, recordVars
  <2> QED BY <2>1, <2>2, ChainGrows
<1>6. ASSUME NEW r \in Reconcilers, NEW i \in Tracked, NEW j \in DOMAIN chainJobs, inspect(r, i, j)
      PROVE  RecordInv'
  <2> DEFINE read == [intent |-> i, jobId |-> j, job |-> chainJobs[j]]
  <2>1. reads' = [reads EXCEPT ![r] = read] /\ intents[i] # NoIntent
        /\ UNCHANGED <<version, feeBps, intents, chainJobs>>
    BY <1>6 DEF inspect
  <2>2. read \in Read
    BY <1>0, <1>6, JobRecordAssumption DEF RecordTypeOK, Read
  <2>3. RecordTypeOK'
    BY <1>0, <2>1, <2>2 DEF RecordTypeOK
  <2>4. ASSUME NEW q \in Reconcilers PROVE ReadFacts(q)'
    BY <1>0, <1>6, <2>1 DEF RecordTypeOK, RecordInv, ReadFacts
  <2>5. ASSUME NEW k \in JobIntents PROVE BoundFacts(k)'
    BY <2>1 DEF RecordInv, BoundFacts, Bound, JobOf, validateAgonJobEscrowJobMatch
  <2> QED BY <2>3, <2>4, <2>5 DEF RecordInv
<1>7. ASSUME NEW r \in Reconcilers, reconcileAgonJobEscrowIntent(r) PROVE RecordInv'
  <2> DEFINE i == reads[r].intent
             job == reads[r].job
             row == [intents[i] EXCEPT !.state = job.status,
                            !.settlement = settlementForAgonJobStatus[job.status],
                            !.onchainJobId = reads[r].jobId]
  <2>1. reads[r] \in Read /\ i \in JobIntents /\ intents[i] \in Intent /\ job \in ChainJob
        /\ reads[r].jobId \in 1..MaxChainJobs /\ reads[r].jobId \in DOMAIN chainJobs
    BY <1>0, <1>7, IntentFields DEF RecordInv, ReadFacts, RecordTypeOK, reconcileAgonJobEscrowIntent, Read
  <2>2. row \in Intent /\ row # NoIntent
    <3>1. job.status \in ChainStatus
      BY <2>1 DEF ChainJob
    <3>2. job.status \in AgonJobEscrowIntentState /\ reads[r].jobId \in 0..MaxChainJobs
      BY <1>0, <2>1, <3>1 DEF AgonJobEscrowIntentState
    <3>4. settlementForAgonJobStatus[job.status] \in {"none", "provider_paid", "buyer_refunded"}
      BY <3>2 DEF settlementForAgonJobStatus
    <3>3. row \in Intent
      BY <2>1, <3>2, <3>4, RecordedIntent
    <3> QED BY <2>1, <3>1, <3>3 DEF Intent, NoIntent, ChainStatus
  <2>3. /\ reads' = [reads EXCEPT ![r] = NoRead]
        /\ UNCHANGED <<version, feeBps, chainJobs>>
        /\ \/ intents' = intents
           \/ /\ intents' = [intents EXCEPT ![i] = row]
              /\ validateAgonJobEscrowJobMatch(intents[i], job)
    BY <1>7 DEF reconcileAgonJobEscrowIntent
  <2>4. row.terms = intents[i].terms /\ row.version = intents[i].version
        /\ row.feeBps = intents[i].feeBps /\ row.state = job.status /\ row.onchainJobId = reads[r].jobId
    BY <2>1 DEF Intent
  <2>5. RecordTypeOK'
    <3> HIDE DEF row, i
    <3> QED BY <1>0, <2>1, <2>2, <2>3 DEF RecordTypeOK
  <2>6. job.status \in ChainStatus
    BY <2>1 DEF ChainJob
  <2>7. ReadFacts(r)
    BY DEF RecordInv
  <2>8. reads[r] # NoRead
    BY <1>7 DEF reconcileAgonJobEscrowIntent
  <2> HIDE DEF row
  <2>9. ASSUME NEW q \in Reconcilers PROVE ReadFacts(q)'
    <3>1. CASE q = r
      BY <1>0, <2>3, <3>1 DEF RecordTypeOK, ReadFacts
    <3>2. CASE q # r
      <4>1. reads'[q] = reads[q] /\ ReadFacts(q)
        BY <1>0, <2>3, <3>2 DEF RecordTypeOK, RecordInv
      <4>2. \A k \in JobIntents : intents[k] # NoIntent => intents'[k] # NoIntent
        BY <1>0, <2>1, <2>2, <2>3 DEF RecordTypeOK
      <4>3. reads[q] # NoRead => reads[q].intent \in JobIntents
        BY <1>0 DEF RecordTypeOK, Read
      <4> QED BY <2>3, <4>1, <4>2, <4>3 DEF ReadFacts
    <3> QED BY <3>1, <3>2
  <2>10. ASSUME NEW k \in JobIntents PROVE BoundFacts(k)'
    <3>1. CASE intents'[k] = intents[k]
      BY <2>3, <3>1 DEF RecordInv, BoundFacts, Bound, JobOf, validateAgonJobEscrowJobMatch
    <3>2. CASE intents'[k] # intents[k]
      <4>1. k = i /\ intents'[k] = row /\ validateAgonJobEscrowJobMatch(intents[i], job)
        BY <1>0, <2>1, <2>3, <3>2 DEF RecordTypeOK
      <4> QED BY <2>1, <2>3, <2>4, <2>6, <2>7, <2>8, <4>1
              DEF ReadFacts, BoundFacts, JobOf, validateAgonJobEscrowJobMatch
    <3> QED BY <3>1, <3>2
  <2> QED BY <2>5, <2>9, <2>10 DEF RecordInv
<1> QED
  BY <1>1, <1>2, <1>3, <1>4, <1>5, <1>6, <1>7 DEF RecordNext

(* The only step that touches a bound record is a reconcile with its job.  *)
LEMMA BoundStep ==
    ASSUME RecordInv, [RecordNext]_recordVars, NEW i \in JobIntents, Bound(i)
    PROVE  \/ intents'[i] = intents[i]
           \/ /\ intents'[i].onchainJobId = intents[i].onchainJobId
              /\ intents'[i].state \in Allowed[intents[i].state] \cap ChainStatus
<1>0. RecordTypeOK /\ intents[i] \in Intent /\ intents[i].state \in ChainStatus
  BY IntentFields DEF RecordInv, BoundFacts, NoIntent, ChainStatus
<1>1. ASSUME NEW k \in JobIntents, NEW t \in JobTerms, prepareAgonJobEscrowIntent(k, t)
      PROVE  intents'[i] = intents[i]
  BY <1>0, <1>1 DEF prepareAgonJobEscrowIntent, RecordTypeOK, Bound, NoIntent
<1>2. ASSUME NEW k \in Tracked, markAgonJobEscrowSubmitted(k) PROVE intents'[i] = intents[i]
  BY <1>0, <1>2, JobRecordAssumption DEF markAgonJobEscrowSubmitted, RecordTypeOK, ChainStatus
<1>3. ASSUME NEW r \in Reconcilers, reconcileAgonJobEscrowIntent(r)
      PROVE  \/ intents'[i] = intents[i]
             \/ /\ intents'[i].onchainJobId = intents[i].onchainJobId
                /\ intents'[i].state \in Allowed[intents[i].state] \cap ChainStatus
  <2> DEFINE job == reads[r].job
             row == [intents[reads[r].intent] EXCEPT !.state = job.status,
                            !.settlement = settlementForAgonJobStatus[job.status],
                            !.onchainJobId = reads[r].jobId]
  <2>1. reads[r] \in Read /\ job \in ChainJob /\ job.status \in ChainStatus
    BY <1>0, <1>3 DEF reconcileAgonJobEscrowIntent, RecordTypeOK, Read, ChainJob
  <2>2. \/ intents' = intents
        \/ /\ intents' = [intents EXCEPT ![reads[r].intent] = row]
           /\ intents[reads[r].intent].onchainJobId \in {0, reads[r].jobId}
           /\ job.status \in Allowed[intents[reads[r].intent].state]
    BY <1>3 DEF reconcileAgonJobEscrowIntent, isAgonJobEscrowTransitionAllowed
  <2>3. CASE i = reads[r].intent
    <3>1. row.state = job.status /\ row.onchainJobId = reads[r].jobId
      BY <1>0, <2>3 DEF Intent
    <3> QED BY <1>0, <2>1, <2>2, <2>3, <3>1 DEF RecordTypeOK, Bound
  <2>4. CASE i # reads[r].intent
    BY <1>0, <2>2, <2>4 DEF RecordTypeOK
  <2> QED BY <2>3, <2>4
<1>4. ASSUME \/ \E k \in JobIntents : createJob(k)
             \/ \E j \in DOMAIN chainJobs : ChainMove(j)
             \/ \E r \in Reconcilers, k \in Tracked, j \in DOMAIN chainJobs : inspect(r, k, j)
             \/ publishVersion \/ ChangeFeeRate \/ UNCHANGED recordVars
      PROVE  intents'[i] = intents[i]
  BY <1>4 DEF createJob, ChainMove, inspect, publishVersion, ChangeFeeRate, recordVars
<1> QED BY <1>1, <1>2, <1>3, <1>4 DEF RecordNext
-----------------------------------------------------------------------------
LEMMA RecordInvariant == RecordSpec => []RecordInv
<1>1. RecordInit => RecordInv
  BY RecordInitInv
<1>2. RecordInv /\ [RecordNext]_recordVars => RecordInv'
  BY RecordStepInv
<1> QED BY <1>1, <1>2, PTL DEF RecordSpec

(* The intents, the chain's jobs and the reads in flight keep their types. *)
THEOREM RecordTypes == RecordSpec => []RecordTypeOK
<1>1. RecordInv => RecordTypeOK
  BY DEF RecordInv
<1> QED BY <1>1, RecordInvariant, PTL

(* A record is bound once, to a job of its own version, terms and fee,     *)
(* however many requests reconcile it with whatever jobs their callers     *)
(* name, and however the listing and the rate move.                        *)
THEOREM BindingNeverMoves == RecordSpec => BoundToItsTerms
<1> DEFINE Kept == \A i \in JobIntents : Bound(i) =>
                     /\ intents'[i].onchainJobId = intents[i].onchainJobId
                     /\ JobOf(i).version = intents[i].version
                     /\ JobOf(i).feeBps = intents[i].feeBps
<1>1. ASSUME RecordInv, [RecordNext]_recordVars PROVE [Kept]_intents
  <2>1. SUFFICES ASSUME NEW i \in JobIntents, Bound(i)
                 PROVE  intents'[i].onchainJobId = intents[i].onchainJobId
    BY <1>1 DEF RecordInv, BoundFacts, validateAgonJobEscrowJobMatch
  <2> QED BY <1>1, <2>1, BoundStep DEF Bound
<1> QED BY <1>1, RecordInvariant, PTL DEF RecordSpec, BoundToItsTerms

(* Whatever order the reads land in, a bound record moves only the way its *)
(* job does, but for a dispute that goes back to the rejection before it,  *)
(* and a settled record stays as it is.                                    *)
THEOREM StaleReadsNeverLand == RecordSpec => StaleReadsDropped
<1>1. ASSUME RecordInv, [RecordNext]_recordVars
      PROVE  [\A i \in JobIntents : Bound(i) =>
                 \/ intents'[i].state \in Later[intents[i].state]
                 \/ intents[i].state = "disputed" /\ intents'[i].state = "rejected"]_intents
  <2>1. SUFFICES ASSUME NEW i \in JobIntents, Bound(i)
                 PROVE  \/ intents'[i].state \in Later[intents[i].state]
                        \/ intents[i].state = "disputed" /\ intents'[i].state = "rejected"
    OBVIOUS
  <2>2. intents[i].state \in ChainStatus
    BY <1>1, <2>1 DEF RecordInv, BoundFacts
  <2>3. intents[i].state \in Later[intents[i].state]
    BY <2>2 DEF Later, ChainStatus
  <2>4. intents'[i].state = intents[i].state
          \/ intents'[i].state \in Allowed[intents[i].state] \cap ChainStatus
    BY <1>1, <2>1, BoundStep
  <2> QED BY <2>2, <2>3, <2>4 DEF Later, Allowed, ChainStatus
<1> QED BY <1>1, RecordInvariant, PTL DEF RecordSpec, StaleReadsDropped
-----------------------------------------------------------------------------
(* Event m follows l in the history of one listing. *)
FollowsBy(kind, l, m) ==
    /\ kind = "version" => m.status = l.status /\ m.verification = l.verification
    /\ kind = "status" => /\ m.version = l.version /\ termsOf(m) = termsOf(l)
                          /\ m.verification = l.verification
    /\ kind = "verification" => /\ m.version = l.version /\ termsOf(m) = termsOf(l)
                                /\ m.status = l.status

IsLast(j, id, n) == j \in 1..n /\ log[j].id = id /\ LastOf(j, n)

(* The log tells a listing's history: its last event left it as it is, and *)
(* every event but its first changes what its kind says since the last.    *)
LogTells ==
    /\ \A id \in DOMAIN listings : \E j \in 1..Len(log) : IsLast(j, id, Len(log)) /\ log[j].of = listings[id]
    /\ \A k \in 1..Len(log) : log[k].kind # "published" =>
          \E j \in 1..(k - 1) : IsLast(j, log[k].id, k - 1) /\ FollowsBy(log[k].kind, log[j].of, log[k].of)
    /\ \A k \in 1..Len(log) : log[k].of.version \in VersionNos

RowsShow(f, n) == \A k \in 1..n : LastOf(k, n) => ShowsListing(f[log[k].id], log[k].of)
JobsPin(g, n)  == \A k \in 1..n : isPublication(log[k]) =>
                      JobPins(g[log[k].id][log[k].of.version], log[k].of)
RowsSeen == [id \in ListingIds |-> rowSeen(id)]
JobsSeen == [id \in ListingIds |-> [v \in VersionNos |-> jobSeen(id, v)]]

QueryResult == [current: Row \cup {NoRow}, found: Terms, reason: Quarantine \cup {"none"}]
Tx == [at: {"begin", "read", "compared"}, to: Nat, pos: Nat,
       rows: [ListingIds -> Row \cup {NoRow}], jobs: [ListingIds -> [VersionNos -> Terms]],
       read: QueryResult]

IndexTypes ==
    /\ IndexTypeOK
    /\ HeadMatchesHistory
    /\ tx \in Tx \cup {NoTx}
    /\ writers \in [Writers -> [id: ListingIds, version: VersionNos] \cup {IdleWriter}]

(* What the projector has read of the row and the anchor of its event, and *)
(* what it made of it, stay true whatever others commit meanwhile.         *)
QueryFacts ==
    /\ tx.pos <= tx.to
    /\ Reviewed(event.id, tx.read.current)
    /\ \A j \in 1..(tx.pos - 1) : IsLast(j, event.id, tx.pos - 1) =>
           ShowsListing(tx.read.current, log[j].of)
    /\ isPublication(event) /\ tx.read.found # NoTerms =>
           anchors[event.id][event.of.version] = tx.read.found

CompareFacts ==
    IF isPublication(event)
    THEN tx.read.reason = "none" => /\ tx.read.found # NoTerms
                                    /\ sameReview(tx.read.found, termsOf(event.of))
    ELSE tx.read.reason = tx.read.current.reason

TxFacts ==
    /\ tx.to \in 1..Len(log)
    /\ tx.pos \in (cursor + 1)..(tx.to + 1)
    /\ \A id \in ListingIds : Reviewed(id, tx.rows[id])
    /\ \A id \in ListingIds, v \in VersionNos : tx.jobs[id][v] # NoTerms => jobs[id][v] = NoTerms
    /\ RowsShow(RowsSeen, tx.pos - 1)
    /\ JobsPin(JobsSeen, tx.pos - 1)
    /\ tx.at # "begin" => QueryFacts
    /\ tx.at = "compared" => CompareFacts

IndexInv == /\ IndexTypes
            /\ LogTells
            /\ \A id \in ListingIds : Reviewed(id, rows[id])
            /\ RowsShow(rows, cursor)
            /\ JobsPin(jobs, cursor)
            /\ tx # NoTx => TxFacts

LEMMA Entries ==
    ASSUME NEW S, NEW s \in Seq(S), NEW i \in DOMAIN s
    PROVE  i \in 1..Len(s) /\ i \in Nat /\ s[i] \in S
OBVIOUS

(* The records of this module. *)
LEMMA TermsFacts ==
    /\ NoTerms \notin Version
    /\ \A l \in Listing : termsOf(l) \in Version
    /\ NoRow \notin Row
    /\ NoTx \notin Tx
    /\ Version \subseteq Terms
<1>1. ASSUME NEW x \in Version PROVE x # NoTerms
  <2>1. DOMAIN x = {"manifestHash", "paymentRail", "providerSnapshot"}
    BY DEF Version
  <2>2. DOMAIN NoTerms = {"manifestHash"}
    BY DEF NoTerms
  <2> QED BY <2>1, <2>2
<1>2. ASSUME NEW l \in Listing PROVE termsOf(l) \in Version
  BY DEF Listing, termsOf, Version
<1>3. NoRow \notin Row
  BY RegistryAssumption DEF Row, NoRow, VersionNos
<1>4. NoTx \notin Tx
  BY DEF Tx, NoTx
<1> QED BY <1>1, <1>2, <1>3, <1>4 DEF Terms

LEMMA Bounds == /\ MaxVersions \in Nat /\ 1 \in VersionNos
                /\ ListingIds \subseteq Nat /\ VersionNos \subseteq Nat
  BY RegistryAssumption, IndexAssumption DEF VersionNos, ListingIds

LEMMA LogTyped ==
    ASSUME IndexTypes, LogTells, NEW k \in 1..Len(log)
    PROVE  /\ log[k] \in Event /\ log[k].id \in ListingIds /\ log[k].of \in Listing
           /\ log[k].of.version \in VersionNos /\ log[k].kind \in EventKind
           /\ termsOf(log[k].of) \in Version
<1>1. log[k] \in Event
  BY DEF IndexTypes, IndexTypeOK
<1> QED BY <1>1, TermsFacts DEF Event, LogTells
-----------------------------------------------------------------------------
(* The chain appends to the log. *)
LEMMA EventAppended ==
    ASSUME IndexTypes, LogTells, NEW e \in Event, log' = Append(log, e),
           listings' \in Seq(Listing), e.id \in DOMAIN listings', e.of = listings'[e.id],
           e.of.version \in VersionNos,
           \A id \in DOMAIN listings' : id # e.id => id \in DOMAIN listings /\ listings'[id] = listings[id],
           e.kind # "published" => e.id \in DOMAIN listings /\ FollowsBy(e.kind, listings[e.id], e.of)
    PROVE  /\ log' \in Seq(Event) /\ Len(log') = Len(log) + 1
           /\ \A k \in 1..Len(log) : log'[k] = log[k]
           /\ LogTells'
<1>1. log \in Seq(Event)
  BY DEF IndexTypes, IndexTypeOK
<1>2. /\ log' \in Seq(Event) /\ Len(log') = Len(log) + 1 /\ Len(log) \in Nat
      /\ \A k \in 1..Len(log) : log'[k] = log[k]
      /\ log'[Len(log) + 1] = e
  BY <1>1, AppendFacts
<1>n. PICK n : n = Len(log)
  OBVIOUS
<1>3. n \in Nat /\ Len(log') = n + 1 /\ log'[n + 1] = e /\ \A k \in 1..n : log'[k] = log[k]
  BY <1>2, <1>n
<1>4. ASSUME NEW id, NEW m \in 0..n, NEW j \in 1..m, IsLast(j, id, m)
      PROVE  IsLast(j, id, m)'
  BY <1>3, <1>4 DEF IsLast, LastOf
<1>5. ASSUME NEW id \in DOMAIN listings'
      PROVE  \E j \in 1..(n + 1) : (IsLast(j, id, n + 1) /\ log[j].of = listings[id])'
  <2>1. CASE id = e.id
    <3>1. (IsLast(n + 1, id, n + 1) /\ log[n + 1].of = listings[id])'
      BY <1>3, <2>1 DEF IsLast, LastOf
    <3> QED BY <1>3, <3>1
  <2>2. CASE id # e.id
    <3>1. PICK j \in 1..n : IsLast(j, id, n) /\ log[j].of = listings[id]
      BY <1>n, <2>2 DEF LogTells
    <3>2. IsLast(j, id, n + 1)'
      <4>1. log'[j] = log[j] /\ log[j].id = id /\ LastOf(j, n)
        BY <1>3, <3>1 DEF IsLast
      <4>2. ASSUME NEW i \in (j + 1)..(n + 1) PROVE log'[i].id # id
        <5>1. CASE i = n + 1
          BY <1>3, <2>2, <5>1
        <5>2. CASE i \in (j + 1)..n
          BY <1>3, <4>1, <5>2 DEF LastOf
        <5> QED BY <1>3, <5>1, <5>2
      <4>3. LastOf(j, n + 1)'
        BY <4>1, <4>2 DEF LastOf
      <4>4. j \in 1..(n + 1)
        BY <1>3
      <4> QED BY <4>1, <4>3, <4>4 DEF IsLast
    <3> QED BY <1>3, <2>2, <3>1, <3>2
  <2> QED BY <2>1, <2>2
<1>6. ASSUME NEW k \in 1..(n + 1), log'[k].kind # "published"
      PROVE  \E j \in 1..(k - 1) : (IsLast(j, log[k].id, k - 1)
                                      /\ FollowsBy(log[k].kind, log[j].of, log[k].of))'
  <2>1. CASE k = n + 1
    <3>1. e.id \in DOMAIN listings /\ FollowsBy(e.kind, listings[e.id], e.of)
      BY <1>3, <1>6, <2>1
    <3>2. PICK j \in 1..n : IsLast(j, e.id, n) /\ log[j].of = listings[e.id]
      BY <1>n, <3>1 DEF LogTells
    <3>3. IsLast(j, e.id, n)'
      BY <1>3, <1>4, <3>2
    <3>4. log'[j].of = listings[e.id]
      BY <1>3, <3>2
    <3>5. k - 1 = n /\ log'[k] = e
      BY <1>3, <2>1
    <3> QED BY <3>1, <3>3, <3>4, <3>5
  <2>2. CASE k \in 1..n
    <3>1. PICK j \in 1..(k - 1) : IsLast(j, log[k].id, k - 1) /\ FollowsBy(log[k].kind, log[j].of, log[k].of)
      BY <1>3, <1>6, <1>n, <2>2 DEF LogTells
    <3>2. log'[k] = log[k] /\ log'[j] = log[j] /\ k - 1 \in 0..n
      BY <1>3, <2>2, <3>1
    <3>3. IsLast(j, log[k].id, k - 1)'
      BY <1>4, <3>1, <3>2 DEF IsLast, LastOf
    <3> QED BY <3>1, <3>2, <3>3
  <2> QED BY <1>3, <2>1, <2>2
<1>7. \A k \in 1..(n + 1) : log'[k].of.version \in VersionNos
  BY <1>3, <1>n DEF LogTells
<1>8. LogTells'
  BY <1>3, <1>5, <1>6, <1>7 DEF LogTells
<1> QED BY <1>2, <1>8

(* What every step of the chain leaves to the tables. *)
ChainGrew ==
    /\ RegistryTypeOK' /\ HeadMatchesHistory'
    /\ log' \in Seq(Event) /\ Len(log) <= Len(log')
    /\ \A k \in 1..Len(log) : log'[k] = log[k]
    /\ LogTells'

LEMMA ListingVersion ==
    ASSUME IndexTypes, LogTells, NEW id \in DOMAIN listings
    PROVE  /\ id \in ListingIds /\ id \in 1..Len(listings)
           /\ listings[id] \in Listing /\ listings[id].version \in VersionNos
<1>1. PICK j \in 1..Len(log) : IsLast(j, id, Len(log)) /\ log[j].of = listings[id]
  BY DEF LogTells
<1>2. log[j].id = id /\ log[j].id \in ListingIds /\ log[j].of.version \in VersionNos
  BY <1>1, LogTyped DEF IsLast
<1>3. listings \in Seq(Listing)
  BY DEF IndexTypes, IndexTypeOK, RegistryTypeOK
<1> QED BY <1>1, <1>2, <1>3, Entries

LEMMA ListingReplaced ==
    ASSUME IndexTypes, LogTells, RegistryTypeOK', HeadMatchesHistory',
           NEW id \in DOMAIN listings, NEW l \in Listing, NEW kind \in EventKind, NEW p \in BOOLEAN,
           listings' = [listings EXCEPT ![id] = l],
           log' = Append(log, [kind |-> kind, id |-> id, of |-> listings'[id], prepared |-> p]),
           l.version \in VersionNos, FollowsBy(kind, listings[id], l)
    PROVE  ChainGrew
<1> DEFINE e == [kind |-> kind, id |-> id, of |-> l, prepared |-> p]
<1>1. listings \in Seq(Listing) /\ id \in 1..Len(listings) /\ id \in ListingIds
  BY ListingVersion DEF IndexTypes, IndexTypeOK, RegistryTypeOK
<1>2. /\ listings' \in Seq(Listing) /\ DOMAIN listings' = DOMAIN listings
      /\ \A i \in DOMAIN listings : listings'[i] = IF i = id THEN l ELSE listings[i]
  BY <1>1, ExceptSeq
<1>3. e \in Event /\ e.id = id /\ e.of = l /\ e.kind = kind
  BY <1>1 DEF Event
<1>4. log' = Append(log, e)
  BY <1>2
<1> HIDE DEF e
<1>5. /\ log' \in Seq(Event) /\ Len(log') = Len(log) + 1
      /\ \A i \in 1..Len(log) : log'[i] = log[i]
      /\ LogTells'
  BY <1>2, <1>3, <1>4, EventAppended
<1>6. Len(log) \in Nat
  BY DEF IndexTypes, IndexTypeOK
<1> QED BY <1>5, <1>6 DEF ChainGrew

LEMMA LogUnchanged ==
    ASSUME LogTells, UNCHANGED <<listings, log>>
    PROVE  LogTells'
<1>1. log' = log /\ listings' = listings
  OBVIOUS
<1>2. ASSUME NEW id \in DOMAIN listings'
      PROVE  \E j \in 1..Len(log) : (IsLast(j, id, Len(log)) /\ log[j].of = listings[id])'
  <2>1. PICK j \in 1..Len(log) : IsLast(j, id, Len(log)) /\ log[j].of = listings[id]
    BY <1>1, <1>2 DEF LogTells
  <2>2. (IsLast(j, id, Len(log)) /\ log[j].of = listings[id])'
    BY <1>1, <2>1 DEF IsLast, LastOf
  <2> QED BY <2>2
<1>3. ASSUME NEW k \in 1..Len(log), log[k].kind # "published"
      PROVE  \E j \in 1..(k - 1) : (IsLast(j, log[k].id, k - 1)
                                      /\ FollowsBy(log[k].kind, log[j].of, log[k].of))'
  <2>1. PICK j \in 1..(k - 1) : IsLast(j, log[k].id, k - 1) /\ FollowsBy(log[k].kind, log[j].of, log[k].of)
    BY <1>3 DEF LogTells
  <2>2. (IsLast(j, log[k].id, k - 1) /\ FollowsBy(log[k].kind, log[j].of, log[k].of))'
    BY <1>1, <2>1 DEF IsLast, LastOf
  <2> QED BY <2>2
<1>4. \A k \in 1..Len(log) : log'[k].of.version \in VersionNos
  BY <1>1 DEF LogTells
<1>5. LogTells'
  BY <1>1, <1>2, <1>3, <1>4 DEF LogTells
<1> QED BY <1>5

LEMMA ChainStepGrows ==
    ASSUME IndexTypes, LogTells, ChainStep
    PROVE  ChainGrew
<1>0. /\ RegistryTypeOK /\ HeadMatchesHistory /\ listings \in Seq(Listing) /\ log \in Seq(Event)
      /\ Rails \subseteq PaymentRail
  BY IndexAssumption DEF IndexTypes, IndexTypeOK, RegistryTypeOK
<1>1. ASSUME NEW s \in Accounts, NEW a \in AgentIds, NEW k \in ServiceKeys, NEW h \in Manifests,
             NEW r \in Rails, chainPublish(s, a, k, h, r)
      PROVE  ChainGrew
  <2> DEFINE l == [agentId |-> a, serviceKey |-> k, manifestHash |-> h, paymentRail |-> r,
                   version |-> 1, providerSnapshot |-> s, status |-> "Listed",
                   verification |-> "Unverified"]
             id == Len(listings) + 1
  <2>1. /\ Publish(s, a, k, h, r) /\ UNCHANGED identityOwner /\ Len(listings) < MaxListings
        /\ listings' = Append(listings, l)
    BY <1>1 DEF chainPublish, Publish, Emit
  <2>2. RegistryTypeOK' /\ HeadMatchesHistory'
    BY <1>0, <2>1, PublishStep
  <2>3. l \in Listing /\ l.version = 1
    BY <1>0 DEF Listing, ListingStatus, Verification
  <2>4. PICK p \in BOOLEAN : log' = Append(log, [kind |-> "published", id |-> id, of |-> listings'[id],
                                                 prepared |-> p])
    BY <1>1 DEF chainPublish, Emit
  <2> HIDE DEF l
  <2>5. /\ listings' \in Seq(Listing) /\ Len(listings') = Len(listings) + 1
        /\ \A i \in 1..Len(listings) : listings'[i] = listings[i]
        /\ listings'[id] = l
    BY <1>0, <2>1, <2>3, AppendFacts
  <2>6. DOMAIN listings' = 1..id /\ DOMAIN listings = 1..Len(listings) /\ Len(listings) \in Nat
        /\ id \in ListingIds
    BY <1>0, <2>1, <2>5, RegistryAssumption DEF ListingIds
  <2> DEFINE e == [kind |-> "published", id |-> id, of |-> l, prepared |-> p]
  <2> HIDE DEF id
  <2>7. e \in Event /\ e.id = id /\ e.of = l /\ e.kind = "published" /\ log' = Append(log, e)
    BY <2>3, <2>4, <2>5, <2>6 DEF Event, EventKind
  <2> HIDE DEF e
  <2>8. \A i \in DOMAIN listings' : i # id => i \in DOMAIN listings /\ listings'[i] = listings[i]
    BY <2>5, <2>6 DEF id
  <2>9. id \in DOMAIN listings'
    BY <2>6 DEF id
  <2>10. /\ log' \in Seq(Event) /\ Len(log') = Len(log) + 1
         /\ \A i \in 1..Len(log) : log'[i] = log[i]
         /\ LogTells'
    BY <2>3, <2>5, <2>7, <2>8, <2>9, Bounds, EventAppended
  <2> QED BY <1>0, <2>2, <2>10 DEF ChainGrew
<1>2. ASSUME NEW s \in Accounts, NEW id \in DOMAIN listings, NEW h \in Manifests, NEW r \in Rails,
             chainPublishVersion(s, id, h, r)
      PROVE  ChainGrew
  <2> DEFINE l == [listings[id] EXCEPT !.version = @ + 1, !.manifestHash = h,
                                       !.paymentRail = r, !.providerSnapshot = s]
             p == \E v \in VersionNos \ {1} :
              anchors[id][v] = [manifestHash |-> h, paymentRail |-> r, providerSnapshot |-> s]
  <2>1. /\ PublishVersion(s, id, h, r) /\ UNCHANGED identityOwner
        /\ listings[id].version < MaxVersions
        /\ listings' = [listings EXCEPT ![id] = l]
        /\ log' = Append(log, [kind |-> "version", id |-> id, of |-> listings'[id], prepared |-> p])
    BY <1>2 DEF chainPublishVersion, PublishVersion, Emit
  <2>2. RegistryTypeOK' /\ HeadMatchesHistory'
    BY <1>0, <2>1, PublishVersionStep
  <2>3. p \in BOOLEAN
    OBVIOUS
  <2> HIDE DEF p
  <2>4. listings[id] \in Listing /\ listings[id].version \in VersionNos /\ id \in ListingIds
        /\ id \in 1..Len(listings)
    BY ListingVersion
  <2>5. listings[id].version + 1 \in VersionNos /\ listings[id].version + 1 \in Nat
    BY <2>1, <2>4, Bounds DEF VersionNos
  <2>6. l \in Listing /\ l.version \in VersionNos /\ l.status = listings[id].status
        /\ l.verification = listings[id].verification
    BY <1>0, <2>4, <2>5 DEF Listing
  <2> HIDE DEF l
  <2>7. "version" \in EventKind /\ FollowsBy("version", listings[id], l)
    BY <2>6 DEF FollowsBy, EventKind
  <2> QED BY <1>0, <2>1, <2>2, <2>3, <2>4, <2>6, <2>7, ListingReplaced
<1>3. ASSUME NEW s \in Accounts, NEW id \in DOMAIN listings, NEW st \in Statuses,
             chainSetStatus(s, id, st)
      PROVE  ChainGrew
  <2> DEFINE l == [listings[id] EXCEPT !.status = st]
  <2>1. /\ SetStatus(s, id, st) /\ UNCHANGED identityOwner
        /\ listings' = [listings EXCEPT ![id] = l]
        /\ log' = Append(log, [kind |-> "status", id |-> id, of |-> listings'[id], prepared |-> FALSE])
    BY <1>3 DEF chainSetStatus, SetStatus, Emit
  <2>2. RegistryNext
    BY <2>1 DEF RegistryNext
  <2>3. RegistryTypeOK' /\ HeadMatchesHistory'
    BY <1>0, <2>1, <2>2, RegistryStep
  <2>4. listings[id] \in Listing /\ listings[id].version \in VersionNos /\ id \in ListingIds
        /\ id \in 1..Len(listings) /\ st \in ListingStatus
    BY ListingVersion, RegistryAssumption
  <2>5. /\ l \in Listing /\ l.version = listings[id].version
        /\ l.verification = listings[id].verification /\ l.manifestHash = listings[id].manifestHash
        /\ l.paymentRail = listings[id].paymentRail
        /\ l.providerSnapshot = listings[id].providerSnapshot
    BY <2>4 DEF Listing
  <2> HIDE DEF l
  <2>6. "status" \in EventKind /\ FollowsBy("status", listings[id], l)
    BY <2>5 DEF FollowsBy, EventKind, termsOf
  <2> QED BY <1>0, <2>1, <2>3, <2>4, <2>5, <2>6, ListingReplaced
<1>4. ASSUME NEW id \in DOMAIN listings, NEW v \in Outcomes, chainSetVerification(id, v)
      PROVE  ChainGrew
  <2> DEFINE l == [listings[id] EXCEPT !.verification = v]
  <2>1. /\ SetVerification(id, v) /\ UNCHANGED identityOwner
        /\ listings' = [listings EXCEPT ![id] = l]
        /\ log' = Append(log, [kind |-> "verification", id |-> id, of |-> listings'[id], prepared |-> FALSE])
    BY <1>4 DEF chainSetVerification, SetVerification, Emit
  <2>2. RegistryNext
    BY <2>1 DEF RegistryNext
  <2>3. RegistryTypeOK' /\ HeadMatchesHistory'
    BY <1>0, <2>1, <2>2, RegistryStep
  <2>4. listings[id] \in Listing /\ listings[id].version \in VersionNos /\ id \in ListingIds
        /\ id \in 1..Len(listings) /\ v \in Verification
    BY ListingVersion, RegistryAssumption
  <2>5. /\ l \in Listing /\ l.version = listings[id].version
        /\ l.status = listings[id].status /\ l.manifestHash = listings[id].manifestHash
        /\ l.paymentRail = listings[id].paymentRail
        /\ l.providerSnapshot = listings[id].providerSnapshot
    BY <2>4 DEF Listing
  <2> HIDE DEF l
  <2>6. "verification" \in EventKind /\ FollowsBy("verification", listings[id], l)
    BY <2>5 DEF FollowsBy, EventKind, termsOf
  <2> QED BY <1>0, <2>1, <2>3, <2>4, <2>5, <2>6, ListingReplaced
<1>5. ASSUME NEW a \in AgentIds, NEW to \in Accounts, chainTransfer(a, to) PROVE ChainGrew
  <2>1. UNCHANGED <<listings, versions, usedKeys, log>>
    BY <1>5 DEF chainTransfer, registryVars
  <2>2. IdentityTypeOK'
    BY <1>0, <1>5 DEF chainTransfer, TransferIdentity, RegistryTypeOK, IdentityTypeOK
  <2>3. RegistryTypeOK' /\ HeadMatchesHistory'
    BY <1>0, <2>1, <2>2 DEF RegistryTypeOK, HeadMatchesHistory, HeadOf
  <2> QED BY <1>0, <2>1, <2>3, LogUnchanged DEF ChainGrew
<1> QED BY <1>1, <1>2, <1>3, <1>4, <1>5 DEF ChainStep

LEMMA ChainStays ==
    ASSUME IndexTypes, LogTells, UNCHANGED chainVars
    PROVE  ChainGrew
<1>1. UNCHANGED <<listings, versions, usedKeys, identityOwner, log>>
  BY DEF chainVars, registryVars
<1>2. RegistryTypeOK /\ HeadMatchesHistory /\ log \in Seq(Event)
  BY DEF IndexTypes, IndexTypeOK
<1>3. RegistryTypeOK' /\ HeadMatchesHistory'
  BY <1>1, <1>2 DEF RegistryTypeOK, IdentityTypeOK, HeadMatchesHistory, HeadOf
<1> QED BY <1>1, <1>2, <1>3, LogUnchanged DEF ChainGrew
-----------------------------------------------------------------------------
(* What anybody may do to the tables while a projection is under way.      *)
AnchorsGrow == \A id \in ListingIds, v \in VersionNos :
                   anchors[id][v] # NoTerms => anchors'[id][v] = anchors[id][v]

SameShown(r, s) == r # NoRow => /\ s # NoRow /\ s.version = r.version /\ s.terms = r.terms
                                /\ s.chainStatus = r.chainStatus /\ s.verification = r.verification

RowsRelabelled == \A id \in ListingIds : /\ SameShown(rows[id], rows'[id])
                                          /\ Reviewed(id, rows[id])'

JobsGrow == \A id \in ListingIds, v \in VersionNos :
                /\ jobs[id][v] # NoTerms => jobs'[id][v] = jobs[id][v]
                /\ tx # NoTx /\ tx.jobs[id][v] # NoTerms => jobs'[id][v] = jobs[id][v]

LEMMA ReviewedKept ==
    ASSUME AnchorsGrow, NEW id \in ListingIds, NEW row \in Row \cup {NoRow}, Reviewed(id, row)
    PROVE  Reviewed(id, row)'
<1>1. row # NoRow => row.version \in VersionNos
  BY DEF Row
<1> QED BY <1>1 DEF Reviewed, AnchorsGrow

LEMMA RowsShowKept ==
    ASSUME IndexTypes, LogTells, ChainGrew, NEW n \in 0..Len(log), NEW f, NEW g, RowsShow(f, n),
           \A id \in ListingIds : SameShown(f[id], g[id])
    PROVE  RowsShow(g, n)'
<1>1. SUFFICES ASSUME NEW k \in 1..n, LastOf(k, n)' PROVE ShowsListing(g[log[k].id], log[k].of)'
  BY DEF RowsShow
<1>2. Len(log) \in Nat /\ \A j \in 1..n : log'[j] = log[j]
  BY DEF IndexTypes, IndexTypeOK, ChainGrew
<1>3. LastOf(k, n)
  BY <1>1, <1>2 DEF LastOf
<1>4. ShowsListing(f[log[k].id], log[k].of) /\ log[k].id \in ListingIds
  BY <1>2, <1>3, LogTyped DEF RowsShow
<1> QED BY <1>2, <1>4 DEF ShowsListing, SameShown, termsOf

LEMMA JobsPinKept ==
    ASSUME IndexTypes, LogTells, ChainGrew, NEW n \in 0..Len(log), NEW f, NEW g, JobsPin(f, n),
           \A id \in ListingIds, v \in VersionNos : f[id][v] # NoTerms => g[id][v] = f[id][v]
    PROVE  JobsPin(g, n)'
<1>1. Len(log) \in Nat /\ \A j \in 1..n : log'[j] = log[j]
  BY DEF IndexTypes, IndexTypeOK, ChainGrew
<1>2. ASSUME NEW k \in 1..n PROVE log[k].id \in ListingIds /\ log[k].of.version \in VersionNos
  BY <1>1, LogTyped
<1> QED BY <1>1, <1>2 DEF JobsPin, JobPins, isPublication, sameReview, termsOf

LEMMA OthersKeepInv ==
    ASSUME IndexInv, IndexTypes', ChainGrew, AnchorsGrow, RowsRelabelled, JobsGrow,
           UNCHANGED <<cursor, tx>>
    PROVE  IndexInv'
<1>0. /\ IndexTypes /\ LogTells /\ cursor \in 0..Len(log) /\ Len(log) \in Nat /\ Len(log) <= Len(log')
      /\ \A k \in 1..Len(log) : log'[k] = log[k]
  BY DEF IndexInv, IndexTypes, IndexTypeOK, ChainGrew
<1>1. RowsShow(rows, cursor)'
  BY <1>0, RowsShowKept DEF IndexInv, RowsRelabelled
<1>2. JobsPin(jobs, cursor)'
  BY <1>0, JobsPinKept DEF IndexInv, JobsGrow
<1>3. ASSUME tx # NoTx PROVE TxFacts'
  <2>0. TxFacts /\ tx \in Tx /\ tx' = tx /\ cursor' = cursor
    BY <1>0, <1>3 DEF IndexInv, IndexTypes
  <2>1. /\ tx.to \in 1..Len(log) /\ tx.pos \in (cursor + 1)..(tx.to + 1) /\ tx.pos - 1 \in 0..Len(log)
        /\ 1..(tx.pos - 1) \subseteq 1..Len(log)
        /\ tx.pos <= tx.to => tx.pos \in 1..Len(log)
    <3>1. tx.to \in 1..Len(log) /\ tx.pos \in (cursor + 1)..(tx.to + 1) /\ cursor \in Nat
      BY <1>0, <2>0 DEF TxFacts
    <3> QED BY <1>0, <3>1
  <2>2. \A id \in ListingIds : Reviewed(id, tx.rows[id])'
    <3>1. \A id \in ListingIds : tx.rows[id] \in Row \cup {NoRow} /\ Reviewed(id, tx.rows[id])
      BY <2>0 DEF TxFacts, Tx
    <3> QED BY <2>0, <3>1, ReviewedKept
  <2>3. \A id \in ListingIds, v \in VersionNos : tx.jobs[id][v] # NoTerms => jobs'[id][v] = NoTerms
    BY <1>3, <2>0 DEF TxFacts, JobsGrow
  <2>4. RowsShow(RowsSeen, tx.pos - 1)'
    <3>1. ASSUME NEW id \in ListingIds PROVE SameShown(RowsSeen[id], RowsSeen'[id])
      BY <2>0, <3>1 DEF RowsSeen, rowSeen, RowsRelabelled, SameShown
    <3>2. RowsShow(RowsSeen, tx.pos - 1)
      BY <2>0 DEF TxFacts
    <3> QED BY <1>0, <2>0, <2>1, <3>1, <3>2, RowsShowKept
  <2>5. JobsPin(JobsSeen, tx.pos - 1)'
    <3>1. ASSUME NEW id \in ListingIds, NEW v \in VersionNos, JobsSeen[id][v] # NoTerms
          PROVE  JobsSeen'[id][v] = JobsSeen[id][v]
      BY <2>0, <3>1 DEF JobsSeen, jobSeen, JobsGrow
    <3>2. JobsPin(JobsSeen, tx.pos - 1)
      BY <2>0 DEF TxFacts
    <3> QED BY <1>0, <2>0, <2>1, <3>1, <3>2, JobsPinKept
  <2>6. ASSUME tx.at # "begin" PROVE QueryFacts'
    <3>1. QueryFacts /\ tx.pos \in 1..Len(log)
      <4>1. QueryFacts
        BY <2>0, <2>6 DEF TxFacts
      <4> QED BY <2>1, <4>1 DEF QueryFacts
    <3>2. event' = event /\ event.id \in ListingIds /\ event.of.version \in VersionNos
      BY <1>0, <2>0, <3>1, LogTyped DEF event
    <3>3. Reviewed(event.id, tx.read.current)'
      <4>1. tx.read.current \in Row \cup {NoRow}
        BY <2>0 DEF Tx, QueryResult
      <4> QED BY <2>0, <3>1, <3>2, <4>1, ReviewedKept DEF QueryFacts
    <3>4. ASSUME NEW j \in 1..(tx.pos - 1), IsLast(j, event.id, tx.pos - 1)'
          PROVE  ShowsListing(tx.read.current, log[j].of)'
      <4>1. \A i \in 1..(tx.pos - 1) : log'[i] = log[i]
        BY <1>0, <2>1
      <4>2. IsLast(j, event.id, tx.pos - 1)
        BY <2>0, <3>1, <3>2, <3>4, <4>1 DEF IsLast, LastOf
      <4> QED BY <2>0, <3>1, <4>1, <4>2 DEF QueryFacts, ShowsListing, termsOf
    <3>5. isPublication(event)' /\ tx.read.found # NoTerms =>
              anchors'[event.id][event.of.version] = tx.read.found
      BY <3>1, <3>2 DEF QueryFacts, AnchorsGrow, isPublication
    <3> QED BY <2>0, <3>1, <3>2, <3>3, <3>4, <3>5 DEF QueryFacts
  <2>7. ASSUME tx.at = "compared" PROVE CompareFacts'
    <3>1. CompareFacts /\ event' = event
      BY <1>0, <2>0, <2>1, <2>7 DEF TxFacts, QueryFacts, event
    <3> QED BY <2>0, <3>1 DEF CompareFacts, isPublication, sameReview, termsOf
  <2> QED BY <1>0, <2>0, <2>1, <2>2, <2>3, <2>4, <2>5, <2>6, <2>7 DEF TxFacts
<1>4. \A id \in ListingIds : Reviewed(id, rows[id])'
  BY DEF RowsRelabelled
<1>5. LogTells'
  BY DEF ChainGrew
<1> QED BY <1>1, <1>2, <1>3, <1>4, <1>5 DEF IndexInv

LEMMA ChainStepInv == IndexInv /\ ChainStep /\ UNCHANGED tableVars => IndexInv'
<1> SUFFICES ASSUME IndexInv, ChainStep, UNCHANGED tableVars PROVE IndexInv'
  OBVIOUS
<1>1. IndexTypes /\ LogTells /\ UNCHANGED <<anchors, rows, jobs, cursor, tx, writers, failures>>
  BY DEF IndexInv, tableVars
<1>2. ChainGrew
  BY <1>1, ChainStepGrows
<1>3. IndexTypes'
  BY <1>1, <1>2 DEF IndexTypes, IndexTypeOK, ChainGrew
<1>4. AnchorsGrow /\ RowsRelabelled /\ JobsGrow
  BY <1>1 DEF AnchorsGrow, RowsRelabelled, JobsGrow, SameShown, IndexInv, Reviewed, sameReview
<1> QED BY <1>1, <1>2, <1>3, <1>4, OthersKeepInv

LEMMA AnchorInserted ==
    ASSUME IndexInv, UNCHANGED <<chainVars, rows, jobs, cursor, tx, failures>>,
           writers' \in [Writers -> [id: ListingIds, version: VersionNos] \cup {IdleWriter}],
           NEW id \in ListingIds, NEW v \in VersionNos, NEW terms \in Version,
           insertAnchor(id, v, terms)
    PROVE  IndexInv'
<1>1. IndexTypes /\ LogTells /\ ChainGrew
  BY ChainStays DEF IndexInv
<1>2. anchors' \in [ListingIds -> [VersionNos -> Terms]] /\ AnchorsGrow
  <2>1. anchors \in [ListingIds -> [VersionNos -> Terms]] /\ terms \in Terms
    BY <1>1 DEF IndexTypes, IndexTypeOK, Terms
  <2> QED BY <2>1 DEF insertAnchor, AnchorsGrow
<1>3. IndexTypes'
  BY <1>1, <1>2 DEF IndexTypes, IndexTypeOK, ChainGrew, chainVars
<1>4. RowsRelabelled
  <2>1. \A i \in ListingIds : rows[i] \in Row \cup {NoRow} /\ Reviewed(i, rows[i])
    BY <1>1 DEF IndexInv, IndexTypes, IndexTypeOK
  <2> QED BY <1>2, <2>1, ReviewedKept DEF RowsRelabelled, SameShown
<1>5. JobsGrow
  BY DEF JobsGrow
<1> QED BY <1>1, <1>2, <1>3, <1>4, <1>5, OthersKeepInv

LEMMA AdapterStepInv ==
    IndexInv /\ AdapterStep /\ UNCHANGED <<chainVars, jobs, cursor, tx, failures>> => IndexInv'
<1> SUFFICES ASSUME IndexInv, AdapterStep, UNCHANGED <<chainVars, jobs, cursor, tx, failures>>
             PROVE  IndexInv'
  OBVIOUS
<1> DEFINE Request == [id: ListingIds, version: VersionNos]
<1>0. /\ IndexTypes /\ LogTells /\ ChainGrew /\ UNCHANGED log
      /\ writers \in [Writers -> Request \cup {IdleWriter}]
  BY ChainStays DEF IndexInv, IndexTypes, chainVars
<1>1. ASSUME UNCHANGED <<anchors, rows>>, writers' \in [Writers -> Request \cup {IdleWriter}]
      PROVE  IndexInv'
  <2>1. IndexTypes'
    BY <1>0, <1>1 DEF IndexTypes, IndexTypeOK, ChainGrew
  <2>2. AnchorsGrow /\ RowsRelabelled /\ JobsGrow
    BY <1>1 DEF AnchorsGrow, RowsRelabelled, JobsGrow, SameShown, IndexInv, Reviewed, sameReview
  <2> QED BY <1>0, <2>1, <2>2, OthersKeepInv
<1>2. ASSUME NEW w \in Writers, NEW id \in DOMAIN listings, readListing(w, id) PROVE IndexInv'
  <2>1. id \in ListingIds /\ listings[id].version + 1 \in VersionNos
    BY <1>0, <1>2, ListingVersion, Bounds DEF readListing, VersionNos
  <2> DEFINE q == [id |-> id, version |-> listings[id].version + 1]
  <2>2. q \in Request
    BY <2>1
  <2>3. writers' = [writers EXCEPT ![w] = q] /\ UNCHANGED <<anchors, rows>>
    BY <1>2 DEF readListing
  <2> HIDE DEF q
  <2> QED BY <1>0, <1>1, <2>2, <2>3
<1>3. ASSUME NEW w \in Writers, NEW s \in Accounts, NEW h \in Manifests, NEW r \in Rails,
             storeAnchor(w, s, h, r)
      PROVE  IndexInv'
  <2>1. /\ writers[w] # IdleWriter /\ writers' = [writers EXCEPT ![w] = IdleWriter] /\ UNCHANGED rows
        /\ \/ UNCHANGED anchors
           \/ insertAnchor(writers[w].id, writers[w].version,
                 [manifestHash |-> h, paymentRail |-> r, providerSnapshot |-> s])
    BY <1>3 DEF storeAnchor
  <2>2. writers' \in [Writers -> Request \cup {IdleWriter}] /\ writers[w] \in Request
    BY <1>0, <2>1
  <2>3. /\ writers[w].id \in ListingIds /\ writers[w].version \in VersionNos
        /\ [manifestHash |-> h, paymentRail |-> r, providerSnapshot |-> s] \in Version
    BY <2>2, IndexAssumption DEF Version
  <2> QED BY <1>0, <1>1, <2>1, <2>2, <2>3, AnchorInserted
<1>4. ASSUME NEW n \in DOMAIN log, confirmAnchor(n) PROVE IndexInv'
  <2>1. n \in 1..Len(log)
    BY <1>0 DEF IndexTypes, IndexTypeOK
  <2>2. log[n].id \in ListingIds /\ log[n].of.version \in VersionNos /\ termsOf(log[n].of) \in Version
    BY <1>0, <2>1, LogTyped
  <2>3. insertAnchor(log[n].id, log[n].of.version, termsOf(log[n].of)) /\ UNCHANGED <<rows, writers>>
    BY <1>4 DEF confirmAnchor
  <2> QED BY <1>0, <2>2, <2>3, AnchorInserted
<1>5. ASSUME NEW n \in DOMAIN log, confirmOperation(n) PROVE IndexInv'
  <2>1. n \in 1..Len(log)
    BY <1>0 DEF IndexTypes, IndexTypeOK
  <2>2. log[n].id \in ListingIds /\ log[n].of.version \in VersionNos /\ termsOf(log[n].of) \in Version
    BY <1>0, <2>1, LogTyped
  <2> DEFINE id == log[n].id
             row == lifted(rows[id], log[n].of)
  <2>3. /\ anchors[id][log[n].of.version] = termsOf(log[n].of)
        /\ rows' = [rows EXCEPT ![id] = row]
        /\ UNCHANGED <<anchors, writers>>
    BY <1>5 DEF confirmOperation
  <2>4. rows \in [ListingIds -> Row \cup {NoRow}] /\ rows[id] \in Row \cup {NoRow}
    BY <1>0, <2>2 DEF IndexTypes, IndexTypeOK
  <2>5. row \in Row \cup {NoRow} /\ SameShown(rows[id], row) /\ Reviewed(id, row)
    <3>1. CASE row = rows[id]
      BY <2>2, <2>4, <3>1 DEF SameShown, IndexInv
    <3>2. CASE /\ rows[id] # NoRow /\ rows[id].version = log[n].of.version
               /\ rows[id].terms = termsOf(log[n].of)
               /\ row = [rows[id] EXCEPT !.status = rows[id].chainStatus, !.reason = "none"]
      <4>1. rows[id] \in Row
        BY <2>4, <3>2
      <4>2. /\ row \in Row /\ row.version = rows[id].version /\ row.terms = rows[id].terms
            /\ row.chainStatus = rows[id].chainStatus /\ row.verification = rows[id].verification
            /\ row.status = row.chainStatus /\ row.reason = "none"
        BY <3>2, <4>1 DEF Row
      <4>3. row # NoRow
        BY <4>2, TermsFacts
      <4>4. anchors[id][row.version] = termsOf(log[n].of) /\ termsOf(log[n].of) # NoTerms
        BY <2>2, <2>3, <3>2, <4>2, TermsFacts
      <4> QED BY <3>2, <4>2, <4>3, <4>4 DEF SameShown, Reviewed, sameReview
    <3> QED BY <3>1, <3>2 DEF lifted
  <2> HIDE DEF row
  <2>6. \A i \in ListingIds : rows'[i] = IF i = id THEN row ELSE rows[i]
    BY <2>3, <2>4
  <2>7. AnchorsGrow /\ JobsGrow
    BY <2>3 DEF AnchorsGrow, JobsGrow
  <2>8. RowsRelabelled
    <3>1. ASSUME NEW i \in ListingIds PROVE SameShown(rows[i], rows'[i]) /\ Reviewed(i, rows[i])'
      <4>1. rows'[i] \in Row \cup {NoRow} /\ SameShown(rows[i], rows'[i]) /\ Reviewed(i, rows'[i])
        BY <2>4, <2>5, <2>6 DEF SameShown, IndexInv
      <4> QED BY <2>7, <4>1, ReviewedKept
    <3> QED BY <3>1 DEF RowsRelabelled
  <2>9. IndexTypes'
    <3>1. rows' \in [ListingIds -> Row \cup {NoRow}]
      BY <2>3, <2>4, <2>5
    <3> QED BY <1>0, <2>3, <3>1 DEF IndexTypes, IndexTypeOK, ChainGrew
  <2> QED BY <1>0, <2>7, <2>8, <2>9, OthersKeepInv
<1> QED BY <1>2, <1>3, <1>4, <1>5 DEF AdapterStep

LEMMA BackfillInv ==
    IndexInv /\ backfillAgonCertifications /\ UNCHANGED <<chainVars, anchors, writers>> => IndexInv'
<1> SUFFICES ASSUME IndexInv, backfillAgonCertifications, UNCHANGED <<chainVars, anchors, writers>>
             PROVE  IndexInv'
  OBVIOUS
<1>1. /\ IndexTypes /\ LogTells /\ ChainGrew /\ UNCHANGED <<log, rows, cursor, tx, failures>>
      /\ jobs \in [ListingIds -> [VersionNos -> Terms]]
      /\ anchors \in [ListingIds -> [VersionNos -> Terms]]
  BY ChainStays DEF IndexInv, IndexTypes, IndexTypeOK, chainVars, backfillAgonCertifications
<1>2. jobs' = [id \in ListingIds |-> [v \in VersionNos |->
                  IF withoutJob(id, v) THEN anchors[id][v] ELSE jobs[id][v]]]
  BY DEF backfillAgonCertifications
<1>3. jobs' \in [ListingIds -> [VersionNos -> Terms]]
  BY <1>1, <1>2
<1>4. IndexTypes'
  BY <1>1, <1>3 DEF IndexTypes, IndexTypeOK, ChainGrew
<1>5. JobsGrow
  BY <1>1, <1>2 DEF JobsGrow, backfillAgonCertifications, withoutJob
<1>6. AnchorsGrow /\ RowsRelabelled
  BY <1>1 DEF AnchorsGrow, RowsRelabelled, SameShown, IndexInv, Reviewed, sameReview
<1> QED BY <1>1, <1>4, <1>5, <1>6, OthersKeepInv
-----------------------------------------------------------------------------
(* The projector's own steps.  First those that write nothing.             *)
LEMMA SeenTyped ==
    ASSUME IndexTypes, tx \in Tx
    PROVE  /\ \A id \in ListingIds : rowSeen(id) \in Row \cup {NoRow}
           /\ \A id \in ListingIds, v \in VersionNos : jobSeen(id, v) \in Terms
           /\ RowsSeen \in [ListingIds -> Row \cup {NoRow}]
           /\ JobsSeen \in [ListingIds -> [VersionNos -> Terms]]
  BY DEF IndexTypes, IndexTypeOK, Tx, rowSeen, jobSeen, RowsSeen, JobsSeen

(* A step that leaves tables and log alone keeps all that is said of them. *)
LEMMA TxReplaced ==
    ASSUME IndexInv, UNCHANGED <<chainVars, anchors, rows, jobs, cursor, writers>>,
           failures' \in Nat, tx' \in Tx \cup {NoTx}, tx' # NoTx => TxFacts'
    PROVE  IndexInv'
<1>1. /\ IndexTypes /\ LogTells /\ ChainGrew /\ cursor \in 0..Len(log)
      /\ UNCHANGED <<log, anchors, rows, jobs, cursor, writers>>
  BY ChainStays DEF IndexInv, IndexTypes, IndexTypeOK, chainVars
<1>2. IndexTypes'
  BY <1>1 DEF IndexTypes, IndexTypeOK, ChainGrew
<1>3. RowsShow(rows, cursor)'
  BY <1>1, RowsShowKept DEF IndexInv, SameShown
<1>4. JobsPin(jobs, cursor)'
  BY <1>1, JobsPinKept DEF IndexInv
<1>5. \A id \in ListingIds : Reviewed(id, rows[id])'
  BY <1>1 DEF IndexInv, Reviewed, sameReview
<1>6. LogTells'
  BY <1>1 DEF ChainGrew
<1> QED BY <1>2, <1>3, <1>4, <1>5, <1>6 DEF IndexInv

LEMMA BeginInv ==
    IndexInv /\ beginBatch /\ UNCHANGED <<chainVars, anchors, writers, failures>> => IndexInv'
<1> SUFFICES ASSUME IndexInv, beginBatch, UNCHANGED <<chainVars, anchors, writers, failures>>
             PROVE  IndexInv'
  OBVIOUS
<1>1. /\ IndexTypes /\ LogTells /\ ChainGrew /\ cursor \in 0..Len(log) /\ failures \in Nat
      /\ Len(log) \in Nat /\ UNCHANGED <<log, anchors, rows, jobs, cursor, failures>>
      /\ rows \in [ListingIds -> Row \cup {NoRow}] /\ jobs \in [ListingIds -> [VersionNos -> Terms]]
  BY ChainStays DEF IndexInv, IndexTypes, IndexTypeOK, chainVars, beginBatch
<1>2. PICK to \in (cursor + 1)..Len(log) :
          tx' = [at |-> "begin", to |-> to, pos |-> cursor + 1,
                 rows |-> [id \in ListingIds |-> NoRow],
                 jobs |-> [id \in ListingIds |-> [v \in VersionNos |-> NoTerms]],
                 read |-> NothingRead]
  BY DEF beginBatch
<1>3. tx' \in Tx
  <2>1. to \in Nat /\ cursor + 1 \in Nat
    BY <1>1
  <2>2. NothingRead \in QueryResult
    BY DEF NothingRead, QueryResult, Terms
  <2>3. [id \in ListingIds |-> [v \in VersionNos |-> NoTerms]] \in [ListingIds -> [VersionNos -> Terms]]
    BY DEF Terms
  <2> QED BY <1>2, <2>1, <2>2, <2>3 DEF Tx
<1>4. /\ tx'.at = "begin" /\ tx'.to = to /\ tx'.pos = cursor + 1
      /\ \A id \in ListingIds : tx'.rows[id] = NoRow
      /\ \A id \in ListingIds, v \in VersionNos : tx'.jobs[id][v] = NoTerms
  BY <1>2
<1>5. TxFacts'
  <2>1. RowsShow(RowsSeen, tx.pos - 1)'
    <3>1. ASSUME NEW id \in ListingIds PROVE SameShown(rows[id], RowsSeen'[id])
      BY <1>1, <1>4 DEF RowsSeen, rowSeen, SameShown
    <3>2. RowsShow(rows, cursor) /\ tx'.pos - 1 = cursor
      BY <1>1, <1>4 DEF IndexInv
    <3> QED BY <1>1, <3>1, <3>2, RowsShowKept
  <2>2. JobsPin(JobsSeen, tx.pos - 1)'
    <3>1. ASSUME NEW id \in ListingIds, NEW v \in VersionNos PROVE JobsSeen'[id][v] = jobs[id][v]
      BY <1>1, <1>4 DEF JobsSeen, jobSeen
    <3>2. JobsPin(jobs, cursor) /\ tx'.pos - 1 = cursor
      BY <1>1, <1>4 DEF IndexInv
    <3> QED BY <1>1, <3>1, <3>2, JobsPinKept
  <2>3. tx'.to \in 1..Len(log') /\ tx'.pos \in (cursor' + 1)..(tx'.to + 1)
    BY <1>1, <1>2, <1>4
  <2>4. \A id \in ListingIds : Reviewed(id, tx.rows[id])'
    BY <1>4 DEF Reviewed
  <2> QED BY <1>1, <1>4, <2>1, <2>2, <2>3, <2>4 DEF TxFacts
<1> QED BY <1>1, <1>3, <1>5, TxReplaced DEF chainVars, beginBatch

(* A query of the transaction: what it has written stays. *)
LEMMA QueryInv ==
    ASSUME IndexInv, tx # NoTx, UNCHANGED <<chainVars, anchors, rows, jobs, cursor, writers, failures>>,
           NEW at \in {"read", "compared"}, NEW q \in QueryResult,
           tx' = [tx EXCEPT !.at = at, !.read = q], QueryFacts', at = "compared" => CompareFacts'
    PROVE  IndexInv'
<1>1. /\ IndexTypes /\ LogTells /\ ChainGrew /\ tx \in Tx /\ TxFacts /\ failures \in Nat
      /\ UNCHANGED <<log, anchors, rows, jobs, cursor, failures>> /\ Len(log) \in Nat
      /\ cursor \in 0..Len(log)
  BY ChainStays DEF IndexInv, IndexTypes, IndexTypeOK, chainVars
<1>2. /\ tx' \in Tx /\ tx'.at = at /\ tx'.to = tx.to /\ tx'.pos = tx.pos /\ tx'.rows = tx.rows
      /\ tx'.jobs = tx.jobs /\ tx'.read = q
  BY <1>1 DEF Tx
<1>3. tx.pos - 1 \in 0..Len(log)
  <2>1. tx.to \in 1..Len(log) /\ tx.pos \in (cursor + 1)..(tx.to + 1)
    BY <1>1 DEF TxFacts
  <2> QED BY <1>1, <2>1
<1>4. RowsShow(RowsSeen, tx.pos - 1)'
  <2>1. \A id \in ListingIds : SameShown(RowsSeen[id], RowsSeen'[id])
    BY <1>1, <1>2 DEF RowsSeen, rowSeen, SameShown
  <2> QED BY <1>1, <1>2, <1>3, <2>1, RowsShowKept DEF TxFacts
<1>5. JobsPin(JobsSeen, tx.pos - 1)'
  <2>1. \A id \in ListingIds, v \in VersionNos : JobsSeen'[id][v] = JobsSeen[id][v]
    BY <1>1, <1>2 DEF JobsSeen, jobSeen
  <2> QED BY <1>1, <1>2, <1>3, <2>1, JobsPinKept DEF TxFacts
<1>6. \A id \in ListingIds : Reviewed(id, tx.rows[id])'
  BY <1>1, <1>2 DEF TxFacts, Reviewed, sameReview
<1>7. TxFacts'
  BY <1>1, <1>2, <1>4, <1>5, <1>6 DEF TxFacts
<1> QED BY <1>1, <1>2, <1>7, TxReplaced DEF chainVars

LEMMA ReadInv ==
    IndexInv /\ readListingRow /\ UNCHANGED <<chainVars, anchors, writers, failures>> => IndexInv'
<1> SUFFICES ASSUME IndexInv, readListingRow, UNCHANGED <<chainVars, anchors, writers, failures>>
             PROVE  IndexInv'
  OBVIOUS
<1>1. tx # NoTx /\ tx.at = "begin" /\ tx.pos <= tx.to
      /\ UNCHANGED <<chainVars, anchors, rows, jobs, cursor, writers, failures>>
  BY DEF readListingRow, NoTx
<1>2. /\ IndexTypes /\ LogTells /\ tx \in Tx /\ TxFacts /\ UNCHANGED <<log, anchors>>
      /\ Len(log) \in Nat /\ cursor \in 0..Len(log)
  BY <1>1 DEF IndexInv, IndexTypes, IndexTypeOK, chainVars
<1>3. tx.pos \in 1..Len(log)
  <2>1. tx.to \in 1..Len(log) /\ tx.pos \in (cursor + 1)..(tx.to + 1)
    BY <1>2 DEF TxFacts
  <2> QED BY <1>1, <1>2, <2>1
<1>4. event.id \in ListingIds /\ event.of.version \in VersionNos
  BY <1>2, <1>3, LogTyped DEF event
<1> DEFINE q == [tx.read EXCEPT !.current = rowSeen(event.id),
                                !.found = IF isPublication(event)
                                          THEN anchors[event.id][event.of.version] ELSE NoTerms]
<1>5. /\ q \in QueryResult /\ q.current = rowSeen(event.id)
      /\ isPublication(event) => q.found = anchors[event.id][event.of.version]
  <2>1. rowSeen(event.id) \in Row \cup {NoRow}
    BY <1>2, <1>4, SeenTyped
  <2>2. anchors[event.id][event.of.version] \in Terms /\ NoTerms \in Terms
    BY <1>2, <1>4 DEF IndexTypes, IndexTypeOK, Terms
  <2>3. tx.read \in QueryResult
    BY <1>2 DEF Tx
  <2> QED BY <2>1, <2>2, <2>3 DEF QueryResult
<1>6. tx' = [tx EXCEPT !.at = "read", !.read = q]
  BY <1>2 DEF readListingRow, Tx, QueryResult
<1> HIDE DEF q
<1>7. tx'.pos = tx.pos /\ tx'.to = tx.to /\ tx'.read = q /\ event' = event
  BY <1>2, <1>6 DEF Tx, event
<1>8. QueryFacts'
  <2>1. Reviewed(event.id, q.current)
    BY <1>2, <1>4, <1>5 DEF TxFacts, rowSeen, IndexInv
  <2>2. ASSUME NEW j \in 1..(tx.pos - 1), IsLast(j, event.id, tx.pos - 1)
        PROVE  ShowsListing(q.current, log[j].of)
    BY <1>2, <1>4, <1>5, <2>2 DEF TxFacts, RowsShow, RowsSeen, IsLast
  <2> QED BY <1>1, <1>2, <1>5, <1>7, <2>1, <2>2
          DEF QueryFacts, Reviewed, sameReview, IsLast, LastOf, ShowsListing, termsOf, isPublication
<1> QED BY <1>1, <1>5, <1>6, <1>8, QueryInv

LEMMA CompareInv ==
    IndexInv /\ compareAnchor /\ UNCHANGED <<chainVars, anchors, writers, failures>> => IndexInv'
<1> SUFFICES ASSUME IndexInv, compareAnchor, UNCHANGED <<chainVars, anchors, writers, failures>>
             PROVE  IndexInv'
  OBVIOUS
<1>1. tx # NoTx /\ tx.at = "read"
      /\ UNCHANGED <<chainVars, anchors, rows, jobs, cursor, writers, failures>>
  BY DEF compareAnchor, NoTx
<1>2. /\ IndexTypes /\ LogTells /\ tx \in Tx /\ TxFacts /\ UNCHANGED <<log, anchors>>
      /\ Len(log) \in Nat /\ cursor \in 0..Len(log) /\ QueryFacts
  BY <1>1 DEF IndexInv, IndexTypes, IndexTypeOK, chainVars, TxFacts
<1>3. tx.pos \in 1..Len(log)
  <2>1. tx.to \in 1..Len(log) /\ tx.pos \in (cursor + 1)..(tx.to + 1) /\ tx.pos <= tx.to
    BY <1>2 DEF TxFacts, QueryFacts
  <2> QED BY <1>2, <2>1
<1> DEFINE some == \E v \in VersionNos : anchors[event.id][v] # NoTerms
           mismatch == anchorMismatch(tx.read.found, event.of, some)
           reason == IF isPublication(event) THEN mismatch ELSE tx.read.current.reason
           q == [tx.read EXCEPT !.reason = reason]
<1>4. /\ mismatch \in Quarantine \cup {"none"}
      /\ mismatch = "none" => tx.read.found # NoTerms /\ sameReview(tx.read.found, termsOf(event.of))
  BY DEF anchorMismatch, Quarantine, sameReview, termsOf
<1>5. ~isPublication(event) => tx.read.current \in Row
  <2>1. ASSUME ~isPublication(event) PROVE tx.read.current # NoRow
    <3>1. log[tx.pos].kind # "published"
      BY <2>1 DEF isPublication, event
    <3>2. PICK j \in 1..(tx.pos - 1) : IsLast(j, log[tx.pos].id, tx.pos - 1)
      BY <1>2, <1>3, <3>1 DEF LogTells
    <3> QED BY <1>2, <3>2 DEF QueryFacts, event, ShowsListing
  <2>2. tx.read.current \in Row \cup {NoRow}
    BY <1>2 DEF Tx, QueryResult
  <2> QED BY <2>1, <2>2
<1> HIDE DEF mismatch
<1>6. reason \in Quarantine \cup {"none"}
  BY <1>4, <1>5 DEF Row
<1>7. tx' = [tx EXCEPT !.at = "compared", !.read = q]
  BY <1>2 DEF compareAnchor, Tx, QueryResult, mismatch
<1> HIDE DEF reason
<1>8. /\ q \in QueryResult /\ q.reason = reason /\ q.current = tx.read.current /\ q.found = tx.read.found
  <2>1. tx.read \in QueryResult
    BY <1>2 DEF Tx
  <2> QED BY <1>6, <2>1 DEF QueryResult
<1> HIDE DEF q
<1>9. tx'.pos = tx.pos /\ tx'.to = tx.to /\ tx'.read = q /\ event' = event
  BY <1>2, <1>7 DEF Tx, event
<1>10. QueryFacts'
  BY <1>2, <1>8, <1>9
     DEF QueryFacts, Reviewed, sameReview, IsLast, LastOf, ShowsListing, termsOf, isPublication
<1>11. CompareFacts'
  BY <1>4, <1>8, <1>9 DEF CompareFacts, isPublication, sameReview, termsOf, reason
<1> QED BY <1>1, <1>7, <1>8, <1>10, <1>11, QueryInv

(* What writeRow makes of an event is its listing as the event left it,    *)
(* reviewed or suspended.                                                  *)
LEMMA Projected ==
    ASSUME IndexInv, tx # NoTx, tx.at = "compared"
    PROVE  LET row == projected(event, tx.read.current, tx.read.reason) IN
           row \in Row /\ ShowsListing(row, event.of) /\ Reviewed(event.id, row)
<1> DEFINE c == tx.read.current
           row == projected(event, c, tx.read.reason)
<1>1. /\ IndexTypes /\ LogTells /\ tx \in Tx /\ TxFacts /\ QueryFacts /\ CompareFacts
      /\ Len(log) \in Nat /\ cursor \in 0..Len(log)
  BY DEF IndexInv, IndexTypes, IndexTypeOK, TxFacts
<1>2. tx.pos \in 1..Len(log)
  <2>1. tx.to \in 1..Len(log) /\ tx.pos \in (cursor + 1)..(tx.to + 1) /\ tx.pos <= tx.to
    BY <1>1 DEF TxFacts, QueryFacts
  <2> QED BY <1>1, <2>1
<1>3. /\ event \in Event /\ event.id \in ListingIds /\ event.of \in Listing
      /\ event.of.version \in VersionNos /\ event.kind \in EventKind
      /\ termsOf(event.of) \in Version /\ event.of.status \in ListingStatus
      /\ event.of.verification \in Verification
  BY <1>1, <1>2, LogTyped DEF event, Listing
<1>4. c \in Row \cup {NoRow} /\ tx.read.found \in Terms /\ tx.read.reason \in Quarantine \cup {"none"}
  BY <1>1 DEF Tx, QueryResult
<1>5. ASSUME event.kind # "published"
      PROVE  /\ c \in Row /\ Reviewed(event.id, c)
             /\ event.kind = "version" => /\ c.chainStatus = event.of.status
                                          /\ c.verification = event.of.verification
             /\ event.kind = "status" => /\ c.version = event.of.version /\ c.terms = termsOf(event.of)
                                         /\ c.verification = event.of.verification
             /\ event.kind = "verification" => /\ c.version = event.of.version
                                               /\ c.terms = termsOf(event.of)
                                               /\ c.chainStatus = event.of.status
  <2>1. PICK j \in 1..(tx.pos - 1) : /\ IsLast(j, event.id, tx.pos - 1)
                                     /\ FollowsBy(event.kind, log[j].of, event.of)
    BY <1>1, <1>2, <1>5 DEF LogTells, event
  <2>2. ShowsListing(c, log[j].of) /\ Reviewed(event.id, c)
    BY <1>1, <2>1 DEF QueryFacts
  <2> QED BY <1>4, <2>1, <2>2 DEF ShowsListing, FollowsBy
<1>6. CASE isPublication(event)
  <2>1. /\ row.version = event.of.version /\ row.terms = termsOf(event.of)
        /\ row.chainStatus = event.of.status /\ row.verification = event.of.verification
        /\ row.status = IF tx.read.reason # "none" THEN "Suspended" ELSE event.of.status
        /\ row.reason = tx.read.reason
        /\ row = [version |-> row.version, terms |-> row.terms, chainStatus |-> row.chainStatus,
                  status |-> row.status, verification |-> row.verification, reason |-> row.reason]
    BY <1>5, <1>6 DEF projected, isPublication
  <2> HIDE DEF row
  <2>2. row \in Row
    BY <1>3, <1>4, <2>1 DEF Row, ListingStatus
  <2>3. row # NoRow
    BY <2>2, TermsFacts
  <2>4. Reviewed(event.id, row)
    BY <1>1, <1>6, <2>1 DEF Reviewed, QueryFacts, CompareFacts
  <2>5. ShowsListing(row, event.of)
    BY <2>1, <2>3 DEF ShowsListing
  <2> QED BY <2>2, <2>4, <2>5 DEF row
<1>7. CASE ~isPublication(event)
  <2>1. event.kind \in {"status", "verification"}
    BY <1>3, <1>7 DEF isPublication, EventKind
  <2>2. c \in Row /\ tx.read.reason = c.reason /\ Reviewed(event.id, c) /\ c # NoRow
    BY <1>1, <1>5, <1>7, <2>1, TermsFacts DEF CompareFacts
  <2>3. /\ row.version = event.of.version /\ row.terms = termsOf(event.of)
        /\ row.chainStatus = event.of.status /\ row.verification = event.of.verification
        /\ row.version = c.version /\ row.terms = c.terms /\ row.reason = c.reason
        /\ row.status = IF event.kind = "verification" THEN c.status
                        ELSE IF c.reason # "none" THEN "Suspended" ELSE event.of.status
        /\ row = [version |-> row.version, terms |-> row.terms, chainStatus |-> row.chainStatus,
                  status |-> row.status, verification |-> row.verification, reason |-> row.reason]
    BY <1>5, <1>7, <2>1, <2>2 DEF projected, isPublication
  <2>4. event.kind = "verification" => c.chainStatus = event.of.status
    BY <1>5, <2>1
  <2> HIDE DEF row
  <2>5. c.status \in ListingStatus /\ c.reason \in Quarantine \cup {"none"}
    BY <2>2 DEF Row
  <2>6. row \in Row
    BY <1>3, <2>3, <2>5 DEF Row, ListingStatus
  <2>7. row # NoRow
    BY <2>6, TermsFacts
  <2>8. Reviewed(event.id, row)
    BY <2>1, <2>2, <2>3, <2>4, <2>7 DEF Reviewed
  <2>9. ShowsListing(row, event.of)
    BY <2>3, <2>7 DEF ShowsListing
  <2> QED BY <2>6, <2>8, <2>9 DEF row
<1> QED BY <1>6, <1>7

LEMMA WriteInv ==
    IndexInv /\ writeRow /\ UNCHANGED <<chainVars, anchors, writers, failures>> => IndexInv'
<1> SUFFICES ASSUME IndexInv, writeRow, UNCHANGED <<chainVars, anchors, writers, failures>>
             PROVE  IndexInv'
  OBVIOUS
<1> DEFINE row == projected(event, tx.read.current, tx.read.reason)
<1>1. /\ tx # NoTx /\ tx.at = "compared" /\ ~jobConflicts(event)
      /\ UNCHANGED <<chainVars, anchors, rows, jobs, cursor, writers, failures>>
      /\ tx' = [tx EXCEPT !.at = "begin", !.pos = @ + 1, !.read = NothingRead,
                          !.rows[event.id] = row, !.jobs = scheduled(event)]
  BY DEF writeRow, NoTx
<1>2. /\ IndexTypes /\ LogTells /\ ChainGrew /\ tx \in Tx /\ TxFacts /\ QueryFacts
      /\ UNCHANGED <<log, anchors, rows, jobs, cursor, failures>>
      /\ Len(log) \in Nat /\ cursor \in 0..Len(log) /\ failures \in Nat
  BY <1>1, ChainStays DEF IndexInv, IndexTypes, IndexTypeOK, chainVars, TxFacts
<1>p. PICK n : n = tx.pos - 1
  OBVIOUS
<1>3. /\ tx.pos \in 1..Len(log) /\ n \in 0..Len(log) /\ n + 1 = tx.pos /\ n + 1 \in 1..Len(log)
      /\ tx.to \in 1..Len(log) /\ tx.pos + 1 \in (cursor + 1)..(tx.to + 1) /\ tx.pos + 1 \in Nat
  <2>1. tx.to \in 1..Len(log) /\ tx.pos \in (cursor + 1)..(tx.to + 1) /\ tx.pos <= tx.to
    BY <1>2 DEF TxFacts, QueryFacts
  <2> QED BY <1>2, <1>p, <2>1
<1>4. /\ event.id \in ListingIds /\ event.of.version \in VersionNos /\ termsOf(event.of) \in Version
      /\ termsOf(event.of) # NoTerms /\ event = log[n + 1]
  BY <1>2, <1>3, LogTyped, TermsFacts DEF event
<1>5. row \in Row /\ ShowsListing(row, event.of) /\ Reviewed(event.id, row)
  BY <1>1, Projected
<1> HIDE DEF row
<1> DEFINE newRows == [tx.rows EXCEPT ![event.id] = row]
           newJobs == scheduled(event)
<1>6. /\ newRows \in [ListingIds -> Row \cup {NoRow}]
      /\ \A id \in ListingIds : newRows[id] = IF id = event.id THEN row ELSE tx.rows[id]
  BY <1>2, <1>4, <1>5 DEF Tx
<1>7. /\ newJobs \in [ListingIds -> [VersionNos -> Terms]]
      /\ \A id \in ListingIds, v \in VersionNos :
            newJobs[id][v] = IF /\ isPublication(event) /\ id = event.id /\ v = event.of.version
                                /\ jobSeen(event.id, event.of.version) = NoTerms
                             THEN termsOf(event.of) ELSE tx.jobs[id][v]
  <2>1. tx.jobs \in [ListingIds -> [VersionNos -> Terms]] /\ termsOf(event.of) \in Terms
    BY <1>2, <1>4, TermsFacts DEF Tx
  <2> QED BY <1>4, <2>1 DEF scheduled
<1>8. /\ tx' \in Tx /\ tx'.at = "begin" /\ tx'.to = tx.to /\ tx'.pos = tx.pos + 1
      /\ tx'.rows = newRows /\ tx'.jobs = newJobs
  <2>1. NothingRead \in QueryResult
    BY DEF NothingRead, QueryResult, Terms
  <2>2. tx' = [tx EXCEPT !.at = "begin", !.pos = @ + 1, !.read = NothingRead,
                         !.rows = newRows, !.jobs = newJobs]
    BY <1>1, <1>2 DEF Tx
  <2> HIDE DEF newRows, newJobs
  <2> QED BY <1>2, <1>3, <1>6, <1>7, <2>1, <2>2 DEF Tx
<1> HIDE DEF newRows, newJobs
<1>9. \A id \in ListingIds : RowsSeen'[id] = IF id = event.id THEN row ELSE RowsSeen[id]
  BY <1>2, <1>5, <1>6, <1>8, TermsFacts DEF RowsSeen, rowSeen
<1>10. \A id \in ListingIds, v \in VersionNos :
          JobsSeen'[id][v] = IF /\ isPublication(event) /\ id = event.id /\ v = event.of.version
                                /\ jobSeen(id, v) = NoTerms
                             THEN termsOf(event.of) ELSE JobsSeen[id][v]
  BY <1>2, <1>4, <1>7, <1>8 DEF JobsSeen, jobSeen
<1>11. RowsShow(RowsSeen, n + 1)'
  <2>1. SUFFICES ASSUME NEW k \in 1..(n + 1), LastOf(k, n + 1)
                 PROVE  ShowsListing(RowsSeen'[log[k].id], log[k].of)
    BY <1>2 DEF RowsShow, LastOf, ShowsListing, termsOf
  <2>2. CASE k = n + 1
    BY <1>4, <1>5, <1>9, <2>2
  <2>3. CASE k \in 1..n
    <3>1. LastOf(k, n) /\ log[n + 1].id # log[k].id
      BY <1>3, <2>1, <2>3 DEF LastOf
    <3>2. ShowsListing(RowsSeen[log[k].id], log[k].of) /\ log[k].id \in ListingIds
      BY <1>2, <1>3, <1>p, <2>3, <3>1, LogTyped DEF TxFacts, RowsShow
    <3> QED BY <1>4, <1>9, <3>1, <3>2
  <2> QED BY <1>3, <2>2, <2>3
<1>12. JobsPin(JobsSeen, n + 1)'
  <2>1. SUFFICES ASSUME NEW k \in 1..(n + 1), isPublication(log[k])
                 PROVE  JobPins(JobsSeen'[log[k].id][log[k].of.version], log[k].of)
    BY <1>2 DEF JobsPin, isPublication, JobPins, sameReview, termsOf
  <2>2. CASE k = n + 1
    <3>1. jobSeen(event.id, event.of.version) # NoTerms =>
              sameReview(jobSeen(event.id, event.of.version), termsOf(event.of))
      BY <1>1, <1>4, <2>1, <2>2 DEF jobConflicts
    <3>2. JobsSeen[event.id][event.of.version] = jobSeen(event.id, event.of.version)
      BY <1>4 DEF JobsSeen
    <3> QED BY <1>4, <1>10, <2>1, <2>2, <3>1, <3>2 DEF JobPins, sameReview
  <2>3. CASE k \in 1..n
    <3>1. JobPins(JobsSeen[log[k].id][log[k].of.version], log[k].of)
      BY <1>2, <1>p, <2>1, <2>3 DEF TxFacts, JobsPin
    <3>2. log[k].id \in ListingIds /\ log[k].of.version \in VersionNos
      BY <1>2, <1>3, <2>3, LogTyped
    <3>3. JobsSeen'[log[k].id][log[k].of.version] = JobsSeen[log[k].id][log[k].of.version]
      BY <1>10, <3>1, <3>2 DEF JobPins, JobsSeen
    <3> QED BY <3>1, <3>3
  <2> QED BY <1>3, <2>2, <2>3
<1>13. \A id \in ListingIds, v \in VersionNos : newJobs[id][v] # NoTerms => jobs[id][v] = NoTerms
  BY <1>2, <1>7 DEF TxFacts, jobSeen
<1>14. \A id \in ListingIds : Reviewed(id, newRows[id])
  BY <1>2, <1>5, <1>6 DEF TxFacts
<1>15. TxFacts'
  <2>1. tx'.pos - 1 = n + 1
    BY <1>3, <1>8
  <2>2. \A id \in ListingIds : Reviewed(id, tx.rows[id])'
    BY <1>2, <1>8, <1>14 DEF Reviewed, sameReview
  <2> QED BY <1>2, <1>3, <1>8, <1>11, <1>12, <1>13, <2>1, <2>2 DEF TxFacts
<1> QED BY <1>1, <1>2, <1>8, <1>15, TxReplaced

LEMMA CommitInv ==
    IndexInv /\ commit /\ UNCHANGED <<chainVars, anchors, writers, failures>> => IndexInv'
<1> SUFFICES ASSUME IndexInv, commit, UNCHANGED <<chainVars, anchors, writers, failures>>
             PROVE  IndexInv'
  OBVIOUS
<1>1. /\ tx # NoTx /\ tx.pos > tx.to /\ rows' = RowsSeen /\ jobs' = JobsSeen
      /\ cursor' = tx.to /\ tx' = NoTx
  BY DEF commit, NoTx, RowsSeen, JobsSeen
<1>2. /\ IndexTypes /\ LogTells /\ ChainGrew /\ tx \in Tx /\ TxFacts
      /\ UNCHANGED <<log, anchors, writers, failures>>
      /\ Len(log) \in Nat /\ cursor \in 0..Len(log)
  BY <1>1, ChainStays DEF IndexInv, IndexTypes, IndexTypeOK, chainVars
<1>3. cursor' = tx.pos - 1 /\ cursor' \in 0..Len(log)
  <2>1. tx.to \in 1..Len(log) /\ tx.pos \in (cursor + 1)..(tx.to + 1)
    BY <1>2 DEF TxFacts
  <2> QED BY <1>1, <1>2, <2>1
<1>4. RowsSeen \in [ListingIds -> Row \cup {NoRow}] /\ JobsSeen \in [ListingIds -> [VersionNos -> Terms]]
  BY <1>2, SeenTyped
<1>5. IndexTypes'
  BY <1>1, <1>2, <1>3, <1>4 DEF IndexTypes, IndexTypeOK, ChainGrew
<1>6. RowsShow(rows, cursor)'
  BY <1>1, <1>2, <1>3, RowsShowKept DEF TxFacts, SameShown
<1>7. JobsPin(jobs, cursor)'
  BY <1>1, <1>2, <1>3, JobsPinKept DEF TxFacts
<1>8. \A id \in ListingIds : Reviewed(id, rows[id])'
  <2>1. \A id \in ListingIds : Reviewed(id, RowsSeen[id])
    BY <1>2 DEF RowsSeen, rowSeen, TxFacts, IndexInv
  <2> QED BY <1>1, <1>2, <2>1 DEF Reviewed, sameReview
<1> QED BY <1>1, <1>2, <1>5, <1>6, <1>7, <1>8 DEF IndexInv, ChainGrew
-----------------------------------------------------------------------------
LEMMA IndexInitInv == IdentityInit /\ IndexInit => IndexInv
<1> SUFFICES ASSUME IdentityInit, IndexInit PROVE IndexInv
  OBVIOUS
<1>1. RegistryTypeOK
  BY DEF IdentityInit, IndexInit, RegistryInit, RegistryTypeOK, IdentityTypeOK
<1>2. /\ log = << >> /\ listings = << >> /\ cursor = 0 /\ Len(log) = 0 /\ tx = NoTx /\ failures = 0
      /\ DOMAIN listings = {}
      /\ rows = [id \in ListingIds |-> NoRow]
      /\ anchors = [id \in ListingIds |-> [v \in VersionNos |-> NoTerms]]
      /\ jobs = [id \in ListingIds |-> [v \in VersionNos |-> NoTerms]]
      /\ writers = [w \in Writers |-> IdleWriter]
  BY DEF IndexInit, RegistryInit
<1>3. /\ anchors \in [ListingIds -> [VersionNos -> Terms]] /\ jobs \in [ListingIds -> [VersionNos -> Terms]]
      /\ rows \in [ListingIds -> Row \cup {NoRow}] /\ log \in Seq(Event)
      /\ writers \in [Writers -> [id: ListingIds, version: VersionNos] \cup {IdleWriter}]
  BY <1>2 DEF Terms
<1>4. IndexTypes
  BY <1>1, <1>2, <1>3 DEF IndexTypes, IndexTypeOK, HeadMatchesHistory
<1>5. LogTells
  BY <1>2 DEF LogTells
<1>6. RowsShow(rows, cursor) /\ JobsPin(jobs, cursor)
  BY <1>2 DEF RowsShow, JobsPin
<1>7. \A id \in ListingIds : Reviewed(id, rows[id])
  BY <1>2 DEF Reviewed
<1> QED BY <1>2, <1>4, <1>5, <1>6, <1>7 DEF IndexInv

LEMMA IndexStepInv == IndexInv /\ [IndexNext]_listingVars => IndexInv'
<1> SUFFICES ASSUME IndexInv, [IndexNext]_listingVars PROVE IndexInv'
  OBVIOUS
<1>0. failures \in Nat /\ NoTx \in Tx \cup {NoTx} /\ tx \in Tx \cup {NoTx}
  BY DEF IndexInv, IndexTypes, IndexTypeOK
<1>1. CASE ChainStep /\ UNCHANGED tableVars
  BY <1>1, ChainStepInv
<1>2. CASE AdapterStep /\ UNCHANGED <<chainVars, jobs, cursor, tx, failures>>
  BY <1>2, AdapterStepInv
<1>3. CASE ProjectStep
  <2>1. CASE abortOnConflict
    BY <1>0, <1>3, <2>1, TxReplaced DEF ProjectStep, abortOnConflict
  <2> QED BY <1>3, <2>1, BeginInv, ReadInv, CompareInv, WriteInv, CommitInv DEF ProjectStep, projectBatch
<1>4. CASE rollback /\ UNCHANGED <<chainVars, anchors, writers>>
  <2>1. failures' \in Nat /\ tx' = NoTx /\ UNCHANGED <<rows, jobs, cursor>>
    BY <1>0, <1>4 DEF rollback
  <2> QED BY <1>0, <1>4, <2>1, TxReplaced
<1>5. CASE backfillAgonCertifications /\ UNCHANGED <<chainVars, anchors, writers>>
  BY <1>5, BackfillInv
<1>6. CASE UNCHANGED listingVars
  <2>1. UNCHANGED <<chainVars, anchors, rows, jobs, cursor, tx, writers, failures>>
    BY <1>6 DEF listingVars, tableVars
  <2>2. IndexTypes /\ LogTells /\ ChainGrew
    BY <2>1, ChainStays DEF IndexInv
  <2>3. IndexTypes'
    BY <2>1, <2>2 DEF IndexTypes, IndexTypeOK, ChainGrew, chainVars
  <2>4. AnchorsGrow /\ RowsRelabelled /\ JobsGrow
    BY <2>1 DEF AnchorsGrow, RowsRelabelled, JobsGrow, SameShown, IndexInv, Reviewed, sameReview
  <2> QED BY <2>1, <2>2, <2>3, <2>4, OthersKeepInv
<1> QED BY <1>1, <1>2, <1>3, <1>4, <1>5, <1>6 DEF IndexNext

LEMMA IndexInvariant == IndexSpec => []IndexInv
<1>1. IdentityInit /\ IndexInit => IndexInv
  BY IndexInitInv
<1>2. IndexInv /\ [IndexNext]_listingVars => IndexInv'
  BY IndexStepInv
<1> QED BY <1>1, <1>2, PTL DEF IndexSpec

(* The tables keep their types, and the cursor stays within the log.       *)
THEOREM IndexTypeCorrect == IndexSpec => []IndexTypeOK
<1>1. IndexInv => IndexTypeOK
  BY DEF IndexInv, IndexTypes
<1> QED BY <1>1, IndexInvariant, PTL

(* The market shows a listing as effective only at a version reviewed for  *)
(* exactly its manifest and provider, whatever commits between the queries *)
(* of a projection.                                                        *)
THEOREM EffectiveAreReviewed == IndexSpec => []EffectiveIsReviewed
<1>1. IndexInv => EffectiveIsReviewed
  BY DEF IndexInv, EffectiveIsReviewed
<1> QED BY <1>1, IndexInvariant, PTL

(* Up to the cursor the tables say what the log says, for any log, any     *)
(* number of listings, versions and writers, and however often a batch is  *)
(* lost and repeated.                                                      *)
THEOREM TablesFollowLog == IndexSpec => []TablesMatchLog
<1>1. IndexInv => TablesMatchLog
  BY DEF IndexInv, RowsShow, JobsPin, TablesMatchLog
<1> QED BY <1>1, IndexInvariant, PTL
=============================================================================
