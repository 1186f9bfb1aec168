----------------------------- MODULE JobRecord ------------------------------
(***************************************************************************)
(* The backend's record of a job: an intent pinned to a listing version    *)
(* and to the fixed fee of escrow-policy.ts, the createJob transaction the *)
(* buyer sends from it, and the reconciliation that copies the chain's     *)
(* status into the row.  reconcile reads the chain first and locks the row *)
(* afterwards, so what it writes may be older than what is there.          *)
(*                                                                         *)
(* The chain is what JobLifecycle promises, without its deadlines; listing *)
(* and fee are the ones in force when the transaction is mined.            *)
(***************************************************************************)
EXTENDS Naturals, Sequences

CONSTANTS JobIntents,    \* intents, each with its own idempotency key
          JobTerms,      \* what a buyer may ask for: listing, amount, hours, expiry
          Tracked,       \* bound: the intents whose owner comes back to mark and reconcile
          Reconcilers,   \* concurrent reconcile requests
          MaxChainJobs,  \* bound: jobs created on chain
          MaxListingVersion, \* bound: versions of the listing
          EscrowFeeBps,  \* AGON_ESCROW_PROTOCOL_FEE_BPS: 500
          FeeRates       \* bound: the rates the contract's fee moves through

ASSUME JobRecordAssumption ==
    /\ Tracked \subseteq JobIntents
    /\ EscrowFeeBps \in FeeRates
    /\ FeeRates \subseteq Nat
    /\ MaxChainJobs \in Nat
    /\ MaxListingVersion \in Nat \ {0}

ChainStatus == {"created", "accepted", "job_submitted", "complete", "rejected", "disputed", "failed"}
AgonJobEscrowIntentState == {"prepared", "submitted"} \cup ChainStatus

settlementForAgonJobStatus ==
    [s \in AgonJobEscrowIntentState |-> CASE s = "complete" -> "provider_paid"
                                          [] s = "failed"   -> "buyer_refunded"
                                          [] OTHER          -> "none"]

(* Where the contract takes a job next. *)
ChainMoves == [created |-> {"accepted", "failed"}, accepted |-> {"job_submitted", "failed"},
               job_submitted |-> {"complete", "rejected"}, rejected |-> {"disputed"},
               disputed |-> {"complete", "failed"}, complete |-> {}, failed |-> {}]

(* Where it may be any number of moves later. *)
Later ==
    [created |-> ChainStatus, accepted |-> ChainStatus \ {"created"},
     job_submitted |-> {"job_submitted", "complete", "rejected", "disputed", "failed"},
     rejected |-> {"rejected", "disputed", "complete", "failed"},
     disputed |-> {"disputed", "complete", "failed"},
     complete |-> {"complete"}, failed |-> {"failed"}]

Allowed ==
    [prepared |-> AgonJobEscrowIntentState, submitted |-> AgonJobEscrowIntentState \ {"prepared"},
     created |-> ChainStatus, accepted |-> ChainStatus \ {"created"},
     job_submitted |-> {"job_submitted", "complete", "rejected", "disputed", "failed"},
     rejected |-> {"rejected"}, disputed |-> {"disputed", "complete", "rejected"},
     complete |-> {"complete"}, failed |-> {"failed"}]

(* Mutant: a late read is written over a settled record. *)
OverTerminal(from, to) == to \in Allowed[from] \/ from = "complete"

(* Mutant: the table has no way to a refund that skips review. *)
NoRefundBeforeReview(from, to) ==
    to \in Allowed[from] /\ ~(from \in {"created", "accepted"} /\ to = "failed")

isAgonJobEscrowTransitionAllowed(from, to) == to \in Allowed[from]

NoIntent == [state |-> "none", onchainJobId |-> 0]
Intent == [terms: JobTerms, version: 1..MaxListingVersion, feeBps: Nat,
           state: AgonJobEscrowIntentState, settlement: {"none", "provider_paid", "buyer_refunded"},
           onchainJobId: 0..MaxChainJobs]   \* 0 for null
ChainJob == [ref: JobIntents, terms: JobTerms, version: 1..MaxListingVersion, feeBps: Nat,
             status: ChainStatus]
NoRead == [intent |-> "none"]
Read == [intent: JobIntents, jobId: 1..MaxChainJobs, job: ChainJob]

VARIABLES version,      \* the listing's current version, on chain
          feeBps,       \* the contract's fee rate
          intents,      \* intents[i]: a row of agon_job_escrow_intents
          chainJobs,    \* the contract's jobs, by id
          reads         \* reads[r]: what the reconcile request r read from the chain

recordVars == <<version, feeBps, intents, chainJobs, reads>>
-----------------------------------------------------------------------------
(* prepareAgonJobEscrowIntent: the listing comes from the projection,      *)
(* which may be behind; the same key again returns the row it has.         *)
prepareAgonJobEscrowIntent(i, t) ==
    /\ intents[i] = NoIntent
    /\ \E v \in 1..version :
          intents' = [intents EXCEPT ![i] = [terms |-> t, version |-> v, feeBps |-> EscrowFeeBps,
                          state |-> "prepared", settlement |-> "none", onchainJobId |-> 0]]
    /\ UNCHANGED <<version, feeBps, chainJobs, reads>>

(* The wallet sends the createJob calldata it was given while the intent   *)
(* was prepared; the contract takes a client reference once.               *)
createJob(i) ==
    /\ intents[i] # NoIntent
    /\ Len(chainJobs) < MaxChainJobs
    /\ \A j \in DOMAIN chainJobs : chainJobs[j].ref # i
    /\ chainJobs' = Append(chainJobs, [ref |-> i, terms |-> intents[i].terms, version |-> version,
                                       feeBps |-> feeBps, status |-> "created"])
    /\ UNCHANGED <<version, feeBps, intents, reads>>

markAgonJobEscrowSubmitted(i) ==
    /\ intents[i].state = "prepared"
    /\ intents' = [intents EXCEPT ![i].state = "submitted"]
    /\ UNCHANGED <<version, feeBps, chainJobs, reads>>

ChainMove(j) ==
    /\ \E s \in ChainMoves[chainJobs[j].status] : chainJobs' = [chainJobs EXCEPT ![j].status = s]
    /\ UNCHANGED <<version, feeBps, intents, reads>>

publishVersion ==
    /\ version < MaxListingVersion
    /\ version' = version + 1
    /\ UNCHANGED <<feeBps, intents, chainJobs, reads>>

(* A scheduled rate is applied; the rate goes down in this model, once.    *)
ChangeFeeRate ==
    /\ \E rate \in FeeRates : rate < feeBps /\ feeBps' = rate
    /\ UNCHANGED <<version, intents, chainJobs, reads>>

(* A reconcile request reads the job its caller names. *)
inspect(r, i, j) ==
    /\ reads[r] = NoRead
    /\ intents[i] # NoIntent
    /\ reads' = [reads EXCEPT ![r] = [intent |-> i, jobId |-> j, job |-> chainJobs[j]]]
    /\ UNCHANGED <<version, feeBps, intents, chainJobs>>

(* The terms hash, amount, review hours, buyer and provider are one datum  *)
(* here; the client reference is not compared.                             *)
validateAgonJobEscrowJobMatch(intent, job) ==
    /\ job.terms = intent.terms
    /\ job.version = intent.version
    /\ job.feeBps = intent.feeBps

(* Mutant: a bound intent takes any other job that matches. *)
RebindAnyJob(r) ==
    LET i == reads[r].intent
        job == reads[r].job IN
    /\ reads[r] # NoRead
    /\ intents' = IF /\ validateAgonJobEscrowJobMatch(intents[i], job)
                     /\ isAgonJobEscrowTransitionAllowed(intents[i].state, job.status)
                  THEN [intents EXCEPT ![i].state = job.status,
                            ![i].settlement = settlementForAgonJobStatus[job.status],
                            ![i].onchainJobId = reads[r].jobId]
                  ELSE intents
    /\ reads' = [reads EXCEPT ![r] = NoRead]
    /\ UNCHANGED <<version, feeBps, chainJobs>>

(* The row is locked, compared and updated; a read that does not match or  *)
(* is not allowed is dropped.                                              *)
reconcileAgonJobEscrowIntent(r) ==
    LET i == reads[r].intent
        job == reads[r].job IN
    /\ reads[r] # NoRead
    /\ intents' = IF /\ validateAgonJobEscrowJobMatch(intents[i], job)
                     /\ intents[i].onchainJobId \in {0, reads[r].jobId}
                     /\ isAgonJobEscrowTransitionAllowed(intents[i].state, job.status)
                  THEN [intents EXCEPT ![i].state = job.status,
                            ![i].settlement = settlementForAgonJobStatus[job.status],
                            ![i].onchainJobId = reads[r].jobId]
                  ELSE intents
    /\ reads' = [reads EXCEPT ![r] = NoRead]
    /\ UNCHANGED <<version, feeBps, chainJobs>>
-----------------------------------------------------------------------------
RecordInit == /\ version = 1
              /\ feeBps = EscrowFeeBps
              /\ intents = [i \in JobIntents |-> NoIntent]
              /\ chainJobs = << >>
              /\ reads = [r \in Reconcilers |-> NoRead]

RecordNext ==
    \/ \E i \in JobIntents, t \in JobTerms : prepareAgonJobEscrowIntent(i, t)
    \/ \E i \in JobIntents : createJob(i)
    \/ \E i \in Tracked : markAgonJobEscrowSubmitted(i)
    \/ \E j \in DOMAIN chainJobs : ChainMove(j)
    \/ publishVersion
    \/ ChangeFeeRate
    \/ \E r \in Reconcilers, i \in Tracked, j \in DOMAIN chainJobs : inspect(r, i, j)
    \/ \E r \in Reconcilers : reconcileAgonJobEscrowIntent(r)

RecordSpec == RecordInit /\ [][RecordNext]_recordVars

(* Fairness: the owner of a bound intent reconciles it with its job again  *)
(* and again, and a request that has read the chain ends.  Nothing is      *)
(* asked of the parties to the job.                                        *)
Poll(i) ==
    \E r \in Reconcilers, j \in DOMAIN chainJobs :
        j = intents[i].onchainJobId /\ inspect(r, i, j)

RecordFairness ==
    /\ \A r \in Reconcilers :
          WF_recordVars(reconcileAgonJobEscrowIntent(r))
    /\ \A i \in Tracked : SF_recordVars(Poll(i))

FairRecordSpec == RecordSpec /\ RecordFairness
-----------------------------------------------------------------------------
RecordTypeOK ==
    /\ feeBps \in FeeRates
    /\ version \in 1..MaxListingVersion
    /\ intents \in [JobIntents -> Intent \cup {NoIntent}]
    /\ chainJobs \in Seq(ChainJob)
    /\ Len(chainJobs) <= MaxChainJobs
    /\ reads \in [Reconcilers -> Read \cup {NoRead}]

Bound(i) == intents[i].onchainJobId # 0
JobOf(i) == chainJobs[intents[i].onchainJobId]

(* Reads arrive in any order, but a record only moves the way its job does *)
(* and stays once it shows a settlement.  The one step back the table has  *)
(* is from a dispute to the rejection before it.                           *)
StaleReadsDropped ==
    [][\A i \in JobIntents : Bound(i) =>
         \/ intents'[i].state \in Later[intents[i].state]
         \/ intents[i].state = "disputed" /\ intents'[i].state = "rejected"]_intents

(* A record is bound once, to a job of exactly its own listing version,    *)
(* terms and fee, though the listing and the fee rate moved on between the *)
(* quote and the transaction.                                              *)
BoundToItsTerms ==
    [][\A i \in JobIntents : Bound(i) =>
         /\ intents'[i].onchainJobId = intents[i].onchainJobId
         /\ JobOf(i).version = intents[i].version
         /\ JobOf(i).feeBps = intents[i].feeBps]_intents

Settled(i) == Bound(i) /\ JobOf(i).status \in {"complete", "failed"}
UpToDate(i) == Bound(i) /\ intents[i].state = JobOf(i).status

(* A settled job reaches the record, unless the record once saw it         *)
(* rejected or in dispute.                                                 *)
UndisputedSettlementRecorded ==
    \A i \in JobIntents :
        Settled(i) /\ intents[i].state \notin {"rejected", "disputed"}
            ~> UpToDate(i) \/ intents[i].state \in {"rejected", "disputed"}

(* AGON.md:848-851: operators can "reconcile a user-submitted on-chain     *)
(* job"; reconciled often enough, its settlement is recorded.              *)
SettlementRecorded == \A i \in JobIntents : Settled(i) ~> UpToDate(i)
=============================================================================
