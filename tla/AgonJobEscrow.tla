---------------------------- MODULE AgonJobEscrow ---------------------------
(***************************************************************************)
(* AgonJobEscrowV2.sol, together with the two contracts it reads: the      *)
(* service registry a job is created from and the USDC token it holds.     *)
(* Job ids count from 1 and are never reused, so the mapping is a          *)
(* sequence.  The terms, deliverable and reason hashes are payload no      *)
(* decision reads beyond being nonzero, and are left out.                  *)
(***************************************************************************)
EXTENDS AgonServiceRegistry, AgonProtocolFee, USDC, Sums

CONSTANTS Escrow,             \* the contract's own address
          Treasuries,         \* addresses the admin may send fees to
          References,         \* nonzero client references
          Amounts,            \* amounts buyers offer, 0 refused
          ReviewHours,        \* review hours buyers ask for, 0 for the default
          MIN_REVIEW_HOURS,
          MAX_REVIEW_HOURS,
          defaultReviewHours,
          MaxJobs,            \* bound: jobs ever created
          CreateUntil,        \* bound: the last timestamp a job is created at
          InitialBalance      \* what each account holds at the start

ASSUME EscrowAssumption ==
    /\ Escrow \notin Accounts \cup Treasuries
    /\ Holders = Accounts \cup Treasuries \cup {Escrow}
    /\ Amounts \subseteq Nat
    /\ ReviewHours \subseteq Nat
    /\ MIN_REVIEW_HOURS \in Nat \ {0}
    /\ defaultReviewHours \in MIN_REVIEW_HOURS..MAX_REVIEW_HOURS
    /\ MAX_REVIEW_HOURS \in Nat
    /\ MaxJobs \in Nat
    /\ InitialBalance \in Nat

VARIABLES jobs,               \* jobs[id]: the Job of id
          jobByReference,     \* jobByReference[<<buyer, ref>>]: its job, 0 if unused
          treasury,
          paused

jobVars == <<jobs, jobByReference>>
adminVars == <<treasury, paused>>
vars == <<now, identityOwner, registryVars, feeVars, usdc, jobVars, adminVars>>

(* What every handler of the job life cycle leaves alone. *)
otherVars == <<now, identityOwner, registryVars, feeVars, adminVars>>

Status     == {"Created", "Accepted", "Submitted", "Complete", "Rejected", "Disputed", "Failed"}
Settlement == {"None", "ProviderPaid", "BuyerRefunded"}

Job == [buyer: Accounts, provider: Accounts, listingId: Nat, agentId: AgentIds,
        listingVersion: Nat, manifestHash: Manifests, amount: Nat \ {0}, fee: Nat, feeBps: Nat,
        reviewHours: Nat, acceptanceDeadline: Nat, reviewDeadline: Nat,
        submittedAt: Nat, status: Status, settlement: Settlement]

_validateReviewHours(h) == h \in MIN_REVIEW_HOURS..MAX_REVIEW_HOURS

escrowedAmount(id) ==
    IF id \in DOMAIN jobs /\ jobs[id].settlement = "None"
    THEN jobs[id].amount + jobs[id].fee
    ELSE 0
-----------------------------------------------------------------------------
(* Job creation.  The guards on MaxJobs and CreateUntil are the model's.   *)
NewJob(buyer, listing, id, amount, hours) ==
    LET fee == (amount * protocolFeeBps) \div BPS
    IN  [buyer |-> buyer, provider |-> listing.providerSnapshot, listingId |-> id,
         agentId |-> listing.agentId, listingVersion |-> listing.version,
         manifestHash |-> listing.manifestHash, amount |-> amount, fee |-> fee,
         feeBps |-> protocolFeeBps, reviewHours |-> hours,
         acceptanceDeadline |-> now + hours, reviewDeadline |-> 0,
         submittedAt |-> 0, status |-> "Created", settlement |-> "None"]

(* Mutant: a client reference may be used again. *)
CreateIgnoringReference(buyer, ref, id, amount, hours) ==
    LET job == NewJob(buyer, listings[id], id, amount, defaultReviewHours)
    IN  /\ Len(jobs) < MaxJobs
        /\ ~paused /\ amount # 0 /\ now <= CreateUntil
        /\ escrowEligible(id)
        /\ CanPay(buyer, job.amount + job.fee)
        /\ jobs' = Append(jobs, job)
        /\ jobByReference' = [jobByReference EXCEPT ![<<buyer, ref>>] = Len(jobs) + 1]
        /\ usdc' = Moved(usdc, buyer, Escrow, job.amount + job.fee)
        /\ UNCHANGED otherVars

createJob(buyer, ref, id, amount, hours) ==
    LET reviewHours == IF hours = 0 THEN defaultReviewHours ELSE hours
        job == NewJob(buyer, listings[id], id, amount, reviewHours)
    IN  /\ Len(jobs) < MaxJobs
        /\ ~paused
        /\ amount # 0
        /\ _validateReviewHours(reviewHours)
        /\ now <= CreateUntil
        /\ jobByReference[<<buyer, ref>>] = 0
        /\ escrowEligible(id)
        /\ CanPay(buyer, job.amount + job.fee)
        /\ jobs' = Append(jobs, job)
        /\ jobByReference' = [jobByReference EXCEPT ![<<buyer, ref>>] = Len(jobs) + 1]
        /\ usdc' = Moved(usdc, buyer, Escrow, job.amount + job.fee)
        /\ UNCHANGED otherVars

acceptJob(sender, id) ==
    /\ ~paused
    /\ sender = jobs[id].provider
    /\ jobs[id].status = "Created"
    /\ now <= jobs[id].acceptanceDeadline
    /\ jobs' = [jobs EXCEPT ![id].status = "Accepted"]
    /\ UNCHANGED <<jobByReference, usdc, otherVars>>

submitJob(sender, id) ==
    /\ ~paused
    /\ sender = jobs[id].provider
    /\ jobs[id].status = "Accepted"
    /\ now <= jobs[id].acceptanceDeadline
    /\ jobs' = [jobs EXCEPT ![id].submittedAt = now,
                            ![id].reviewDeadline = now + jobs[id].reviewHours,
                            ![id].status = "Submitted"]
    /\ UNCHANGED <<jobByReference, usdc, otherVars>>
-----------------------------------------------------------------------------
(* Settlement. *)
(* Mutant: the payout follows the identity instead of the job's snapshot. *)
PayCurrentOwner(id) ==
    /\ jobs' = [jobs EXCEPT ![id].status = "Complete", ![id].settlement = "ProviderPaid"]
    /\ usdc' = Moved(Moved(usdc, Escrow, currentOwner(jobs[id].agentId), jobs[id].amount),
                     Escrow, treasury, jobs[id].fee)

_payProvider(id) ==
    /\ jobs' = [jobs EXCEPT ![id].status = "Complete", ![id].settlement = "ProviderPaid"]
    /\ usdc' = Moved(Moved(usdc, Escrow, jobs[id].provider, jobs[id].amount),
                     Escrow, treasury, jobs[id].fee)

(* Mutant: the refund forgets to record the settlement. *)
RefundUnrecorded(id) ==
    /\ jobs' = [jobs EXCEPT ![id].status = "Failed"]
    /\ usdc' = Moved(usdc, Escrow, jobs[id].buyer, escrowedAmount(id))

_refundBuyer(id) ==
    /\ jobs' = [jobs EXCEPT ![id].status = "Failed", ![id].settlement = "BuyerRefunded"]
    /\ usdc' = Moved(usdc, Escrow, jobs[id].buyer, escrowedAmount(id))

acceptSubmission(sender, id) ==
    /\ sender = jobs[id].buyer
    /\ jobs[id].status = "Submitted"
    /\ now <= jobs[id].reviewDeadline
    /\ _payProvider(id)
    /\ UNCHANGED <<jobByReference, otherVars>>

(* Mutant: a pause also stops auto-acceptance. *)
AutoAcceptUnlessPaused(id) ==
    /\ ~paused
    /\ jobs[id].status = "Submitted"
    /\ now > jobs[id].reviewDeadline
    /\ _payProvider(id)
    /\ UNCHANGED <<jobByReference, otherVars>>

autoAccept(id) ==
    /\ jobs[id].status = "Submitted"
    /\ now > jobs[id].reviewDeadline
    /\ _payProvider(id)
    /\ UNCHANGED <<jobByReference, otherVars>>

rejectSubmission(sender, id) ==
    /\ sender = jobs[id].buyer
    /\ jobs[id].status = "Submitted"
    /\ now <= jobs[id].reviewDeadline
    /\ jobs' = [jobs EXCEPT ![id].status = "Rejected"]
    /\ UNCHANGED <<jobByReference, usdc, otherVars>>

openDispute(sender, id) ==
    /\ sender \in {jobs[id].provider, jobs[id].buyer}
    /\ jobs[id].status = "Rejected"
    /\ jobs' = [jobs EXCEPT ![id].status = "Disputed"]
    /\ UNCHANGED <<jobByReference, usdc, otherVars>>

(* Called by the immutable disputeResolver alone. *)
resolveDispute(id, payProvider) ==
    /\ jobs[id].status = "Disputed"
    /\ IF payProvider THEN _payProvider(id) ELSE _refundBuyer(id)
    /\ UNCHANGED <<jobByReference, otherVars>>

(* Mutant: the refund is already open at the deadline itself. *)
FailAtDeadline(sender, id) ==
    /\ sender = jobs[id].buyer
    /\ jobs[id].status \in {"Created", "Accepted"}
    /\ now >= jobs[id].acceptanceDeadline
    /\ _refundBuyer(id)
    /\ UNCHANGED <<jobByReference, otherVars>>

(* Mutant: a job that was submitted can still be failed. *)
FailAfterSubmission(sender, id) ==
    /\ sender = jobs[id].buyer
    /\ jobs[id].status \in {"Created", "Accepted", "Submitted"}
    /\ now > jobs[id].acceptanceDeadline
    /\ _refundBuyer(id)
    /\ UNCHANGED <<jobByReference, otherVars>>

failJob(sender, id) ==
    /\ sender = jobs[id].buyer
    /\ jobs[id].status \in {"Created", "Accepted"}
    /\ now > jobs[id].acceptanceDeadline
    /\ _refundBuyer(id)
    /\ UNCHANGED <<jobByReference, otherVars>>
-----------------------------------------------------------------------------
(* Administration. *)
pause == /\ ~paused
         /\ paused' = TRUE
         /\ UNCHANGED <<treasury, now, identityOwner, registryVars, feeVars, usdc, jobVars>>

unpause == /\ paused
           /\ paused' = FALSE
           /\ UNCHANGED <<treasury, now, identityOwner, registryVars, feeVars, usdc, jobVars>>

setTreasury(t) == /\ treasury' = t
                  /\ UNCHANGED <<paused, now, identityOwner, registryVars, feeVars, usdc, jobVars>>
-----------------------------------------------------------------------------
Init == /\ TimeInit
        /\ IdentityInit
        /\ RegistryInit
        /\ FeeInit
        /\ usdc = [h \in Holders |-> IF h \in Accounts THEN InitialBalance ELSE 0]
        /\ jobs = << >>
        /\ jobByReference = [p \in Accounts \X References |-> 0]
        /\ treasury \in Treasuries
        /\ paused = FALSE

(* The steps of the other contracts, and of the world they read. *)
Environment ==
    /\ \/ RegistryNext /\ UNCHANGED <<now, identityOwner>>
       \/ Tick /\ UNCHANGED <<identityOwner, registryVars>>
       \/ \E a \in AgentIds, to \in Accounts :
              TransferIdentity(a, to) /\ UNCHANGED <<now, registryVars>>
    /\ UNCHANGED <<feeVars, usdc, jobVars, adminVars>>

Governance == FeeNext /\ UNCHANGED <<now, identityOwner, registryVars, usdc, jobVars, adminVars>>

Settle(id) == \/ \E s \in Accounts : acceptSubmission(s, id)
              \/ autoAccept(id)
              \/ \E payProvider \in BOOLEAN : resolveDispute(id, payProvider)
              \/ \E s \in Accounts : failJob(s, id)

JobStep(id) == \/ \E s \in Accounts : acceptJob(s, id)
               \/ \E s \in Accounts : submitJob(s, id)
               \/ \E s \in Accounts : rejectSubmission(s, id)
               \/ \E s \in Accounts : openDispute(s, id)
               \/ Settle(id)

Next == \/ \E b \in Accounts, r \in References, id \in DOMAIN listings,
              amount \in Amounts, h \in ReviewHours : createJob(b, r, id, amount, h)
        \/ \E id \in DOMAIN jobs : JobStep(id)
        \/ Governance
        \/ pause
        \/ unpause
        \/ \E t \in Treasuries : setTreasury(t)
        \/ Environment

Spec == Init /\ [][Next]_vars

(* Fairness: time passes; somebody calls autoAccept, which anyone may; the *)
(* buyer claims a refund that is due; one of the two parties disputes a    *)
(* rejection; the resolver rules.  Nothing is asked of the pauser, the     *)
(* admin, the verifier or the provider.                                    *)
Fairness ==
    /\ WF_vars(Tick /\ UNCHANGED <<identityOwner, registryVars, feeVars, usdc, jobVars, adminVars>>)
    /\ \A id \in 1..MaxJobs :
         /\ WF_vars(id \in DOMAIN jobs /\ autoAccept(id))
         /\ WF_vars(id \in DOMAIN jobs /\ \E s \in Accounts : failJob(s, id))
         /\ WF_vars(id \in DOMAIN jobs /\ \E s \in Accounts : openDispute(s, id))
         /\ WF_vars(id \in DOMAIN jobs /\ \E p \in BOOLEAN : resolveDispute(id, p))

FairSpec == Spec /\ Fairness
-----------------------------------------------------------------------------
(* Every variable has its type.                                            *)
JobEscrowTypeOK ==
    /\ TimeTypeOK
    /\ RegistryTypeOK
    /\ FeeTypeOK
    /\ USDCTypeOK
    /\ jobs \in Seq(Job)
    /\ Len(jobs) <= MaxJobs
    /\ jobByReference \in [Accounts \X References -> Nat]
    /\ treasury \in Treasuries
    /\ paused \in BOOLEAN

(* A job that has not settled is in one of the states that can still       *)
(* settle, and only such a job holds money.                                *)
StatusMatchesSettlement ==
    \A id \in DOMAIN jobs :
        jobs[id].settlement = "None" <=> jobs[id].status \notin {"Complete", "Failed"}

(* The contract's balance is the sum of escrowedAmount over its jobs, to   *)
(* the unit, whichever way each job ended and whatever the fee and the     *)
(* treasury were meanwhile: no job is paid with another one's money and    *)
(* no money is left behind.                                                *)
EscrowedById == [id \in 1..MaxJobs |-> escrowedAmount(id)]
Solvency == usdc[Escrow] = SumTo(EscrowedById, MaxJobs)

(* What account a gained or lost through a job: a buyer is out amount plus *)
(* fee unless refunded in full, a provider is in by exactly the amount.    *)
Gain(a, id) ==
    IF id \notin DOMAIN jobs THEN 0
    ELSE (IF jobs[id].provider = a /\ jobs[id].settlement = "ProviderPaid"
          THEN jobs[id].amount ELSE 0)
       - (IF jobs[id].buyer = a /\ jobs[id].settlement # "BuyerRefunded"
          THEN jobs[id].amount + jobs[id].fee ELSE 0)

GainById(a) == [id \in 1..MaxJobs |-> Gain(a, id)]

(* Every party's balance is explained by the job records alone: a payout   *)
(* goes to the provider pinned at creation (never to a later owner of the  *)
(* identity), a refund goes to the buyer, and each happens once.           *)
AccountsReconcile ==
    \A a \in Accounts \ Treasuries :
        usdc[a] = InitialBalance + SumTo(GainById(a), MaxJobs)

(* A job stays bound to the one listing version it was bought from, even   *)
(* after the listing moved on, changed hands, rail or verification: the    *)
(* version still exists in the registry, was payable through escrow, and   *)
(* carries the job's manifest and the wallet the job pays.                 *)
JobPinnedToVersion ==
    \A id \in DOMAIN jobs :
        LET job == jobs[id] IN
        /\ job.listingId \in DOMAIN versions
        /\ job.listingVersion \in DOMAIN versions[job.listingId]
        /\ versions[job.listingId][job.listingVersion] =
               [manifestHash |-> job.manifestHash, paymentRail |-> "Escrow",
                providerSnapshot |-> job.provider]

(* Client references are a buyer's idempotency keys: every job has exactly *)
(* one, it belongs to the job's buyer, and no key is ever re-pointed at    *)
(* another job, so a retried createJob cannot fund the same order twice.   *)
ReferencesUnique ==
    /\ \A p \in Accounts \X References : jobByReference[p] # 0 =>
           /\ jobByReference[p] \in DOMAIN jobs
           /\ jobs[jobByReference[p]].buyer = p[1]
           /\ \A q \in Accounts \X References : jobByReference[q] = jobByReference[p] => q = p
    /\ \A id \in DOMAIN jobs : \E p \in Accounts \X References : jobByReference[p] = id

(* Delivered work is paid or judged: once submitted, a job is refunded     *)
(* only by the resolver after the buyer rejected it, and once its review   *)
(* window is over without an answer it can only be paid.                   *)
SubmittedWorkIsPaidOrJudged ==
    [][\A id \in DOMAIN jobs :
         /\ jobs[id].submittedAt # 0 /\ jobs[id] # jobs'[id] =>
               (jobs'[id].settlement = "BuyerRefunded" => jobs[id].status = "Disputed")
         /\ jobs[id].status = "Submitted" /\ now > jobs[id].reviewDeadline =>
               jobs'[id] = jobs[id] \/ jobs'[id].settlement = "ProviderPaid"]_vars

(* The backend's chain-neutral life cycle of one job, as this contract     *)
(* shows it.                                                               *)
StateName == [Created |-> "created", Accepted |-> "accepted", Submitted |-> "submitted",
              Complete |-> "complete", Rejected |-> "rejected", Disputed |-> "disputed",
              Failed |-> "failed"]
SettlementName == [None |-> "none", ProviderPaid |-> "provider_paid",
                   BuyerRefunded |-> "buyer_refunded"]

LifecycleOf(id) ==
    IF id \notin DOMAIN jobs THEN [state |-> "none"]
    ELSE [state |-> StateName[jobs[id].status],
          settlement |-> SettlementName[jobs[id].settlement],
          reviewHours |-> jobs[id].reviewHours,
          acceptanceDeadline |-> jobs[id].acceptanceDeadline,
          reviewDeadline |-> jobs[id].reviewDeadline,
          submittedAt |-> jobs[id].submittedAt]

Lifecycle(id) == INSTANCE JobLifecycle WITH job <- LifecycleOf(id),
                     MIN_HOURS <- MIN_REVIEW_HOURS, MAX_HOURS <- MAX_REVIEW_HOURS

LifecycleStep(id) == [Lifecycle(id)!LifecycleNext]_(LifecycleOf(id))

(* Every job of the contract goes through the states the backend's own     *)
(* model of a job allows, at the instants it allows them and with the      *)
(* settlement it expects: the two implementations of one life cycle, each  *)
(* with its own deadline comparisons, never disagree.                      *)
ImplementsLifecycle ==
    /\ \A id \in 1..MaxJobs : Lifecycle(id)!LifecycleInit
    /\ [][jobs' = jobs \/ \A id \in 1..MaxJobs : LifecycleStep(id)]_vars

(* The custody contract this one implements: one account per job.          *)
Custodian == INSTANCE Custody WITH Slots <- MaxJobs, owed <- EscrowedById, pot <- usdc[Escrow]
ImplementsCustody == Custodian!Spec

(* What one step of this contract is, seen from there. *)
CustodyStep == [Custodian!Next]_<<EscrowedById, usdc[Escrow]>>

(* What the steps preserve together.  Solvency is needed for the types: it *)
(* is why a payout never overdraws the contract.  HeadMatchesHistory is    *)
(* what createJob relies on to pin a version it only reads as a head.      *)
IInv == /\ JobEscrowTypeOK
        /\ HeadMatchesHistory
        /\ StatusMatchesSettlement
        /\ JobPinnedToVersion
        /\ ReferencesUnique
        /\ Solvency

(* Money put in escrow comes out, whatever is paused, verified, delisted   *)
(* or transferred on the way.                                              *)
EscrowedFundsReleased ==
    \A id \in 1..MaxJobs : (escrowedAmount(id) # 0) ~> (escrowedAmount(id) = 0)
=============================================================================
