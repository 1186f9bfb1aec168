------------------------ MODULE AgonJobEscrowProofs -------------------------
(***************************************************************************)
(* The safety of AgonJobEscrow for every set of accounts, listings, rates, *)
(* amounts and windows, and for every bound of the model.                  *)
(***************************************************************************)
EXTENDS AgonJobEscrow, AgonFeeQuote, AgonServiceRegistryProofs, SumsProofs

(* One transfer between two addresses that can pay for it. *)
LEMMA MovedFacts ==
    ASSUME NEW bal \in [Holders -> Nat], NEW from \in Holders, NEW to \in Holders,
           NEW amount \in Nat, from # to, bal[from] >= amount
    PROVE  /\ Moved(bal, from, to, amount) \in [Holders -> Nat]
           /\ Moved(bal, from, to, amount)[from] = bal[from] - amount
           /\ Moved(bal, from, to, amount)[to] = bal[to] + amount
           /\ \A h \in Holders \ {from, to} : Moved(bal, from, to, amount)[h] = bal[h]
BY DEF Moved

LEMMA JobsFacts ==
    ASSUME jobs \in Seq(Job)
    PROVE  /\ Len(jobs) \in Nat
           /\ DOMAIN jobs = 1..Len(jobs)
           /\ \A id \in DOMAIN jobs : jobs[id] \in Job
BY LenProperties, ElementOfSeq

(* What the jobs hold is a family of naturals, so SumTo's lemmas apply. *)
LEMMA EscrowedType ==
    ASSUME jobs \in Seq(Job)
    PROVE  EscrowedById \in [1..MaxJobs -> Nat]
<1>1. ASSUME NEW id \in 1..MaxJobs PROVE escrowedAmount(id) \in Nat
  <2>1. id \in DOMAIN jobs => jobs[id] \in Job
    BY JobsFacts
  <2>2. id \in DOMAIN jobs => jobs[id].amount \in Nat /\ jobs[id].fee \in Nat
    BY <2>1 DEF Job
  <2> QED BY <2>2 DEF escrowedAmount
<1> QED BY <1>1 DEF EscrowedById

(* Replacing one job by another of the same parties and version.           *)
LEMMA ReplaceJob ==
    ASSUME JobEscrowTypeOK, StatusMatchesSettlement, JobPinnedToVersion, ReferencesUnique,
           NEW id \in DOMAIN jobs, NEW j \in Job,
           jobs' = [jobs EXCEPT ![id] = j],
           j.buyer = jobs[id].buyer, j.provider = jobs[id].provider,
           j.listingId = jobs[id].listingId, j.listingVersion = jobs[id].listingVersion,
           j.manifestHash = jobs[id].manifestHash,
           j.settlement = "None" <=> j.status \notin {"Complete", "Failed"},
           UNCHANGED <<jobByReference, registryVars>>
    PROVE  /\ jobs' \in Seq(Job)
           /\ Len(jobs') = Len(jobs)
           /\ jobs'[id] = j
           /\ \A k \in DOMAIN jobs \ {id} : jobs'[k] = jobs[k]
           /\ StatusMatchesSettlement'
           /\ JobPinnedToVersion'
           /\ ReferencesUnique'
<1>1. jobs \in Seq(Job) /\ id \in 1..Len(jobs) /\ DOMAIN jobs = 1..Len(jobs)
  BY JobsFacts DEF JobEscrowTypeOK
<1>2. /\ jobs' \in Seq(Job)
      /\ Len(jobs') = Len(jobs)
      /\ \A k \in 1..Len(jobs) : jobs'[k] = IF k = id THEN j ELSE jobs[k]
  BY <1>1, ExceptSeq
<1>3. DOMAIN jobs' = DOMAIN jobs
  BY <1>1, <1>2, LenProperties
<1>4. StatusMatchesSettlement'
  BY <1>1, <1>2, <1>3 DEF StatusMatchesSettlement
<1>5. JobPinnedToVersion'
  <2> SUFFICES ASSUME NEW k \in DOMAIN jobs
               PROVE  /\ jobs'[k].listingId \in DOMAIN versions
                      /\ jobs'[k].listingVersion \in DOMAIN versions[jobs'[k].listingId]
                      /\ versions[jobs'[k].listingId][jobs'[k].listingVersion] =
                           [manifestHash |-> jobs'[k].manifestHash, paymentRail |-> "Escrow",
                            providerSnapshot |-> jobs'[k].provider]
    BY <1>3 DEF JobPinnedToVersion, registryVars
  <2>1. CASE k = id
    BY <1>1, <1>2, <2>1 DEF JobPinnedToVersion
  <2>2. CASE k # id
    BY <1>1, <1>2, <2>2 DEF JobPinnedToVersion
  <2> QED BY <2>1, <2>2
<1>6. \A k \in DOMAIN jobs : jobs'[k].buyer = jobs[k].buyer
  BY <1>1, <1>2
<1>7. ReferencesUnique'
  BY <1>3, <1>6 DEF ReferencesUnique
<1> QED BY <1>1, <1>2, <1>4, <1>5, <1>7

(* A step that changes only one job, and neither what it holds nor the     *)
(* contract's balance: accept, submit, reject, dispute.                    *)
LEMMA AdvanceJob ==
    ASSUME IInv, NEW id \in DOMAIN jobs, NEW j \in Job,
           jobs' = [jobs EXCEPT ![id] = j],
           j.buyer = jobs[id].buyer, j.provider = jobs[id].provider,
           j.listingId = jobs[id].listingId, j.listingVersion = jobs[id].listingVersion,
           j.manifestHash = jobs[id].manifestHash,
           j.amount = jobs[id].amount, j.fee = jobs[id].fee,
           j.settlement = jobs[id].settlement,
           j.settlement = "None" <=> j.status \notin {"Complete", "Failed"},
           UNCHANGED <<jobByReference, usdc, otherVars>>
    PROVE  IInv' /\ CustodyStep
<1> USE DEF IInv, otherVars
<1>1. /\ jobs' \in Seq(Job)
      /\ Len(jobs') = Len(jobs)
      /\ jobs'[id] = j
      /\ \A k \in DOMAIN jobs \ {id} : jobs'[k] = jobs[k]
      /\ StatusMatchesSettlement'
      /\ JobPinnedToVersion'
      /\ ReferencesUnique'
  BY ReplaceJob
<1>2. JobEscrowTypeOK'
  BY <1>1 DEF JobEscrowTypeOK, TimeTypeOK, RegistryTypeOK, IdentityTypeOK, FeeTypeOK, USDCTypeOK,
              registryVars, feeVars, adminVars
<1>3. HeadMatchesHistory'
  BY DEF HeadMatchesHistory, registryVars
<1>4. DOMAIN jobs' = DOMAIN jobs
  BY <1>1, LenProperties DEF JobEscrowTypeOK
<1>5. \A k \in 1..MaxJobs : escrowedAmount(k)' = escrowedAmount(k)
  BY <1>1, <1>4 DEF escrowedAmount
<1>6. EscrowedById' = EscrowedById
  BY <1>5 DEF EscrowedById
<1>7. Solvency' /\ CustodyStep
  BY <1>6 DEF Solvency, CustodyStep
<1> QED BY <1>1, <1>2, <1>3, <1>7

(* A step that settles one open job and takes exactly what it held out of  *)
(* the contract.                                                           *)
LEMMA SettleJob ==
    ASSUME IInv, NEW id \in DOMAIN jobs, NEW j \in Job,
           jobs[id].settlement = "None", j.settlement # "None",
           jobs' = [jobs EXCEPT ![id] = j],
           j.buyer = jobs[id].buyer, j.provider = jobs[id].provider,
           j.listingId = jobs[id].listingId, j.listingVersion = jobs[id].listingVersion,
           j.manifestHash = jobs[id].manifestHash,
           j.status \in {"Complete", "Failed"},
           usdc' \in [Holders -> Nat],
           usdc'[Escrow] = usdc[Escrow] - (jobs[id].amount + jobs[id].fee),
           UNCHANGED <<jobByReference, otherVars>>
    PROVE  IInv' /\ CustodyStep
<1> USE DEF IInv, otherVars
<1>1. /\ jobs' \in Seq(Job)
      /\ Len(jobs') = Len(jobs)
      /\ jobs'[id] = j
      /\ \A k \in DOMAIN jobs \ {id} : jobs'[k] = jobs[k]
      /\ StatusMatchesSettlement'
      /\ JobPinnedToVersion'
      /\ ReferencesUnique'
  BY ReplaceJob
<1>2. JobEscrowTypeOK'
  BY <1>1 DEF JobEscrowTypeOK, TimeTypeOK, RegistryTypeOK, IdentityTypeOK, FeeTypeOK, USDCTypeOK,
              registryVars, feeVars, adminVars
<1>3. HeadMatchesHistory'
  BY DEF HeadMatchesHistory, registryVars
<1>4. jobs \in Seq(Job) /\ DOMAIN jobs' = DOMAIN jobs /\ DOMAIN jobs = 1..Len(jobs)
      /\ Len(jobs) \in Nat /\ Len(jobs) <= MaxJobs /\ MaxJobs \in Nat
  BY <1>1, LenProperties, JobsFacts, EscrowAssumption DEF JobEscrowTypeOK
<1>5. \A k \in 1..MaxJobs : k # id => escrowedAmount(k)' = escrowedAmount(k)
  BY <1>1, <1>4 DEF escrowedAmount
<1>6. escrowedAmount(id)' = 0 /\ escrowedAmount(id) = jobs[id].amount + jobs[id].fee
  BY <1>1, <1>4 DEF escrowedAmount
<1>7. EscrowedById \in [1..MaxJobs -> Nat] /\ EscrowedById' \in [1..MaxJobs -> Nat]
  <2>1. EscrowedById \in [1..MaxJobs -> Nat]
    BY <1>4, EscrowedType
  <2>2. \A k \in 1..MaxJobs : escrowedAmount(k) \in Nat
    BY <2>1 DEF EscrowedById
  <2>3. \A k \in 1..MaxJobs : escrowedAmount(k)' \in Nat
    BY <1>5, <1>6, <2>2
  <2> QED BY <2>1, <2>3 DEF EscrowedById
<1>8. /\ id \in 1..MaxJobs
      /\ EscrowedById'[id] = 0
      /\ EscrowedById[id] = jobs[id].amount + jobs[id].fee
      /\ \A k \in 1..MaxJobs : k # id => EscrowedById'[k] = EscrowedById[k]
  BY <1>4, <1>5, <1>6 DEF EscrowedById
<1>9. SumTo(EscrowedById', MaxJobs) = SumTo(EscrowedById, MaxJobs) + (0 - EscrowedById[id])
  <2> HIDE DEF IInv
  <2>1. EscrowedById \in [1..MaxJobs -> Int] /\ EscrowedById' \in [1..MaxJobs -> Int]
    BY <1>7
  <2> QED BY <1>4, <1>8, <2>1, SumToUpdate
<1>10. usdc[Escrow] \in Nat /\ jobs[id].amount + jobs[id].fee \in Nat
  BY <1>4, <1>6, <1>7, <1>8, EscrowAssumption DEF JobEscrowTypeOK, USDCTypeOK
<1>11. Solvency'
  BY <1>8, <1>9, <1>10 DEF Solvency
<1>12. CustodyStep
  <2>1. jobs[id].amount \in Nat \ {0} /\ jobs[id].fee \in Nat
    BY <1>4, JobsFacts DEF Job
  <2>2. Custodian!PayOut(id)
    BY <1>8, <1>10, <2>1 DEF Custodian!PayOut, Custodian!OnlyAccount
  <2> QED BY <1>8, <2>2 DEF CustodyStep, Custodian!Next
<1> QED BY <1>1, <1>2, <1>3, <1>11, <1>12

(* The one step that adds a job, and the one that funds it.                *)
LEMMA CreateStep ==
    ASSUME IInv, NEW b \in Accounts, NEW r \in References, NEW lid \in DOMAIN listings,
           NEW amount \in Amounts, NEW h \in ReviewHours, createJob(b, r, lid, amount, h)
    PROVE  IInv' /\ CustodyStep
<1> DEFINE hours == IF h = 0 THEN defaultReviewHours ELSE h
           job == NewJob(b, listings[lid], lid, amount, hours)
           id == Len(jobs) + 1
           total == job.amount + job.fee
<1> USE DEF IInv
<1>1. /\ jobs \in Seq(Job) /\ Len(jobs) \in Nat /\ DOMAIN jobs = 1..Len(jobs)
      /\ Len(jobs) < MaxJobs /\ MaxJobs \in Nat /\ id \in 1..MaxJobs
  BY JobsFacts, EscrowAssumption DEF JobEscrowTypeOK, createJob
<1>2. listings[lid] \in Listing /\ lid \in Nat /\ lid \in DOMAIN versions
  BY LenProperties, ElementOfSeq DEF JobEscrowTypeOK, RegistryTypeOK
<1>3. amount \in Nat \ {0} /\ hours \in Nat /\ now \in Nat /\ protocolFeeBps \in Nat
      /\ (amount * protocolFeeBps) \div BPS \in Nat
  <2>1. amount # 0
    BY DEF createJob
  <2>2. amount \in Nat /\ hours \in Nat /\ now \in Nat /\ protocolFeeBps \in Nat
    BY EscrowAssumption, FeeAssumption DEF JobEscrowTypeOK, TimeTypeOK, FeeTypeOK
  <2>3. amount * protocolFeeBps \in Nat
    BY <2>2
  <2> QED BY <2>1, <2>2, <2>3, FeeAssumption
<1>4. job \in Job /\ job.buyer = b /\ total \in Nat
      /\ job.settlement = "None" /\ job.status = "Created"
  BY <1>2, <1>3 DEF NewJob, Job, Listing, Status, Settlement
<1>5. /\ jobs' = Append(jobs, job)
      /\ jobByReference' = [jobByReference EXCEPT ![<<b, r>>] = id]
      /\ usdc' = Moved(usdc, b, Escrow, total)
      /\ usdc[b] >= total
      /\ jobByReference[<<b, r>>] = 0
      /\ UNCHANGED otherVars
  BY DEF createJob, CanPay
<1>6. /\ jobs' \in Seq(Job)
      /\ Len(jobs') = id
      /\ DOMAIN jobs' = 1..id
      /\ \A k \in 1..Len(jobs) : jobs'[k] = jobs[k]
      /\ jobs'[id] = job
  <2> HIDE DEF job
  <2>1. /\ jobs' \in Seq(Job)
        /\ Len(jobs') = id
        /\ \A k \in 1..Len(jobs) : jobs'[k] = jobs[k]
        /\ jobs'[id] = job
    BY <1>1, <1>4, <1>5, AppendFacts
  <2> QED BY <2>1, LenProperties
<1>7. /\ usdc' \in [Holders -> Nat]
      /\ usdc'[Escrow] = usdc[Escrow] + total
  <2> HIDE DEF total, job
  <2>1. b \in Holders /\ Escrow \in Holders /\ b # Escrow /\ usdc \in [Holders -> Nat]
    BY EscrowAssumption DEF JobEscrowTypeOK, USDCTypeOK
  <2> QED BY <1>4, <1>5, <2>1, MovedFacts
<1>8. JobEscrowTypeOK'
  BY <1>1, <1>5, <1>6, <1>7
     DEF JobEscrowTypeOK, TimeTypeOK, RegistryTypeOK, IdentityTypeOK, FeeTypeOK, USDCTypeOK,
         otherVars, registryVars, feeVars, adminVars
<1>9. HeadMatchesHistory'
  BY <1>5 DEF HeadMatchesHistory, otherVars, registryVars
<1>10. StatusMatchesSettlement'
  <2> HIDE DEF job
  <2> QED BY <1>1, <1>4, <1>6 DEF StatusMatchesSettlement
<1>11. JobPinnedToVersion'
  <2>1. /\ job.listingId = lid /\ job.listingVersion = listings[lid].version
        /\ job.manifestHash = listings[lid].manifestHash
        /\ job.provider = listings[lid].providerSnapshot
    BY DEF NewJob
  <2>2. HeadOf(listings[lid], versions[lid]) /\ listings[lid].paymentRail = "Escrow"
    BY DEF HeadMatchesHistory, createJob, escrowEligible
  <2>3. versions[lid] \in Seq(Version) /\ DOMAIN versions[lid] = 1..Len(versions[lid])
    BY <1>2, LenProperties, ElementOfSeq DEF JobEscrowTypeOK, RegistryTypeOK
  <2>4. /\ job.listingVersion \in DOMAIN versions[lid]
        /\ versions[lid][job.listingVersion] =
             [manifestHash |-> job.manifestHash, paymentRail |-> "Escrow",
              providerSnapshot |-> job.provider]
    <3> HIDE DEF job
    <3> QED BY <2>1, <2>2, <2>3, LenProperties DEF HeadOf
  <2>5. UNCHANGED versions
    BY <1>5 DEF otherVars, registryVars
  <2> HIDE DEF job
  <2> SUFFICES ASSUME NEW k \in 1..id
               PROVE  /\ jobs'[k].listingId \in DOMAIN versions
                      /\ jobs'[k].listingVersion \in DOMAIN versions[jobs'[k].listingId]
                      /\ versions[jobs'[k].listingId][jobs'[k].listingVersion] =
                           [manifestHash |-> jobs'[k].manifestHash, paymentRail |-> "Escrow",
                            providerSnapshot |-> jobs'[k].provider]
    BY <1>6, <2>5 DEF JobPinnedToVersion
  <2>6. CASE k = id
    BY <1>2, <1>6, <2>1, <2>4, <2>6
  <2>7. CASE k \in 1..Len(jobs)
    BY <1>1, <1>6, <2>7 DEF JobPinnedToVersion
  <2> QED BY <1>1, <2>6, <2>7
<1>12. ReferencesUnique'
  <2> HIDE DEF job
  <2>0. jobByReference \in [Accounts \X References -> Nat] /\ <<b, r>> \in Accounts \X References
    BY DEF JobEscrowTypeOK
  <2>1. \A p \in Accounts \X References :
            jobByReference'[p] = IF p = <<b, r>> THEN id ELSE jobByReference[p]
    BY <1>5, <2>0
  <2>2. \A p \in Accounts \X References : jobByReference[p] # id
    BY <1>1, <2>0 DEF ReferencesUnique
  <2>3. ASSUME NEW p \in Accounts \X References, jobByReference'[p] # 0
        PROVE  /\ jobByReference'[p] \in DOMAIN jobs'
               /\ jobs'[jobByReference'[p]].buyer = p[1]
               /\ \A q \in Accounts \X References :
                      jobByReference'[q] = jobByReference'[p] => q = p
    <3>1. CASE p = <<b, r>>
      BY <1>1, <1>4, <1>6, <2>0, <2>1, <2>2, <3>1
    <3>2. CASE p # <<b, r>>
      BY <1>1, <1>6, <2>0, <2>1, <2>2, <2>3, <3>2 DEF ReferencesUnique
    <3> QED BY <3>1, <3>2
  <2>4. ASSUME NEW k \in DOMAIN jobs' PROVE \E p \in Accounts \X References : jobByReference'[p] = k
    <3>1. CASE k = id
      BY <2>0, <2>1, <3>1
    <3>2. CASE k # id
      <4>1. k \in DOMAIN jobs /\ k # 0
        BY <1>1, <1>6, <3>2
      <4>2. PICK p \in Accounts \X References : jobByReference[p] = k
        BY <4>1 DEF ReferencesUnique
      <4>3. p # <<b, r>>
        BY <1>5, <4>1, <4>2
      <4> QED BY <2>1, <4>2, <4>3
    <3> QED BY <3>1, <3>2
  <2> QED BY <2>3, <2>4, Zenon DEF ReferencesUnique
<1>13. Solvency' /\ CustodyStep
  <2> HIDE DEF job
  <2>1. \A k \in 1..MaxJobs : k # id => escrowedAmount(k)' = escrowedAmount(k)
    BY <1>1, <1>6 DEF escrowedAmount
  <2>2. \A k \in 1..MaxJobs : k = id => escrowedAmount(k)' = total /\ escrowedAmount(k) = 0
    BY <1>1, <1>4, <1>6 DEF escrowedAmount
  <2>3. EscrowedById \in [1..MaxJobs -> Nat]
    BY <1>1, EscrowedType
  <2>4. /\ EscrowedById'[id] = total
        /\ EscrowedById[id] = 0
        /\ \A k \in 1..MaxJobs : k # id => EscrowedById'[k] = EscrowedById[k]
    BY <1>1, <2>1, <2>2 DEF EscrowedById
  <2>5. EscrowedById' \in [1..MaxJobs -> Nat]
    BY <1>4, <2>1, <2>2, <2>3 DEF EscrowedById
  <2>6. SumTo(EscrowedById', MaxJobs) = SumTo(EscrowedById, MaxJobs) + (total - 0)
    <3>1. EscrowedById \in [1..MaxJobs -> Int] /\ EscrowedById' \in [1..MaxJobs -> Int]
      BY <2>3, <2>5
    <3> HIDE DEF id, total, IInv
    <3> QED BY <1>1, <2>4, <3>1, SumToUpdate
  <2>7. usdc[Escrow] \in Nat
    BY EscrowAssumption DEF JobEscrowTypeOK, USDCTypeOK
  <2>8. Solvency'
    BY <1>4, <1>7, <2>6, <2>7 DEF Solvency
  <2>9. total > 0
    BY <1>4 DEF Job
  <2>10. PICK k \in 1..MaxJobs : k = id
    BY <1>1
  <2>11. Custodian!Deposit(k)
    BY <1>4, <1>7, <2>4, <2>7, <2>9, <2>10 DEF Custodian!Deposit, Custodian!OnlyAccount
  <2> QED BY <2>8, <2>11 DEF CustodyStep, Custodian!Next
<1> QED BY <1>8, <1>9, <1>10, <1>11, <1>12, <1>13


(* A step that only moves an open job to another open status.              *)
LEMMA RestatusStep ==
    ASSUME IInv, NEW id \in DOMAIN jobs, jobs[id].settlement = "None",
           NEW status \in Status \ {"Complete", "Failed"},
           jobs' = [jobs EXCEPT ![id].status = status],
           UNCHANGED <<jobByReference, usdc, otherVars>>
    PROVE  IInv' /\ CustodyStep
<1> DEFINE j == [jobs[id] EXCEPT !.status = status]
<1>1. jobs[id] \in Job
  BY JobsFacts DEF IInv, JobEscrowTypeOK
<1>2. /\ j \in Job
      /\ j.buyer = jobs[id].buyer /\ j.provider = jobs[id].provider
      /\ j.listingId = jobs[id].listingId /\ j.listingVersion = jobs[id].listingVersion
      /\ j.manifestHash = jobs[id].manifestHash
      /\ j.amount = jobs[id].amount /\ j.fee = jobs[id].fee
      /\ j.settlement = jobs[id].settlement
      /\ j.settlement = "None" <=> j.status \notin {"Complete", "Failed"}
  BY <1>1 DEF Job
<1>3. jobs' = [jobs EXCEPT ![id] = j]
  OBVIOUS
<1> HIDE DEF j
<1> QED BY <1>2, <1>3, AdvanceJob

LEMMA SubmitStep ==
    ASSUME IInv, NEW id \in DOMAIN jobs, NEW s \in Accounts, submitJob(s, id)
    PROVE  IInv' /\ CustodyStep
<1> DEFINE j == [jobs[id] EXCEPT !.submittedAt = now,
                                 !.reviewDeadline = now + jobs[id].reviewHours,
                                 !.status = "Submitted"]
<1>1. jobs[id] \in Job /\ now \in Nat
  BY JobsFacts DEF IInv, JobEscrowTypeOK, TimeTypeOK
<1>2. jobs[id].settlement = "None"
  BY DEF IInv, StatusMatchesSettlement, submitJob
<1>3. now + jobs[id].reviewHours \in Nat /\ "Submitted" \in Status
  BY <1>1 DEF Job, Status
<1>4. j \in Job
  BY <1>1, <1>3, Zenon DEF Job
<1>5. /\ j.buyer = jobs[id].buyer /\ j.provider = jobs[id].provider
      /\ j.listingId = jobs[id].listingId /\ j.listingVersion = jobs[id].listingVersion
      /\ j.manifestHash = jobs[id].manifestHash
      /\ j.amount = jobs[id].amount /\ j.fee = jobs[id].fee
      /\ j.settlement = "None" /\ j.status = "Submitted"
  BY <1>1, <1>2 DEF Job
<1>6. jobs' = [jobs EXCEPT ![id] = j] /\ UNCHANGED <<jobByReference, usdc, otherVars>>
  BY DEF submitJob
<1> HIDE DEF j
<1> QED BY <1>2, <1>4, <1>5, <1>6, AdvanceJob

(* What a settlement needs to know of the money: the contract can pay it.  *)
LEMMA EscrowCovers ==
    ASSUME IInv, NEW id \in DOMAIN jobs, jobs[id].settlement = "None"
    PROVE  /\ jobs[id] \in Job
           /\ usdc \in [Holders -> Nat]
           /\ usdc[Escrow] >= jobs[id].amount + jobs[id].fee
           /\ jobs[id].provider \in Holders \ {Escrow}
           /\ jobs[id].buyer \in Holders \ {Escrow}
           /\ treasury \in Holders \ {Escrow}
           /\ Escrow \in Holders
<1>1. /\ jobs \in Seq(Job) /\ jobs[id] \in Job /\ id \in 1..MaxJobs /\ MaxJobs \in Nat
      /\ usdc \in [Holders -> Nat] /\ treasury \in Treasuries
  BY JobsFacts, EscrowAssumption DEF IInv, JobEscrowTypeOK, USDCTypeOK
<1>2. EscrowedById[id] <= SumTo(EscrowedById, MaxJobs)
  BY <1>1, EscrowedType, SumToAtLeast
<1>3. EscrowedById[id] = jobs[id].amount + jobs[id].fee
  BY <1>1 DEF EscrowedById, escrowedAmount
<1>4. usdc[Escrow] \in Nat /\ EscrowedById[id] \in Nat
  BY <1>1, EscrowedType, EscrowAssumption
<1>5. usdc[Escrow] >= jobs[id].amount + jobs[id].fee
  BY <1>2, <1>3, <1>4 DEF IInv, Solvency
<1>6. jobs[id].provider \in Accounts /\ jobs[id].buyer \in Accounts
  BY <1>1 DEF Job
<1> QED BY <1>1, <1>5, <1>6, EscrowAssumption

LEMMA PayProviderStep ==
    ASSUME IInv, NEW id \in DOMAIN jobs, jobs[id].settlement = "None",
           _payProvider(id), UNCHANGED <<jobByReference, otherVars>>
    PROVE  IInv' /\ CustodyStep
<1> DEFINE j == [jobs[id] EXCEPT !.status = "Complete", !.settlement = "ProviderPaid"]
           job == jobs[id]
           mid == Moved(usdc, Escrow, job.provider, job.amount)
<1>1. /\ job \in Job /\ usdc \in [Holders -> Nat] /\ usdc[Escrow] >= job.amount + job.fee
      /\ job.provider \in Holders \ {Escrow} /\ treasury \in Holders \ {Escrow}
      /\ Escrow \in Holders
  BY EscrowCovers
<1>2. job.amount \in Nat /\ job.fee \in Nat
  BY <1>1 DEF Job
<1>3. usdc[Escrow] \in Nat /\ usdc[Escrow] >= job.amount
  BY <1>1, <1>2
<1>4. mid \in [Holders -> Nat] /\ mid[Escrow] = usdc[Escrow] - job.amount
  <2> HIDE DEF job
  <2> QED BY <1>1, <1>2, <1>3, MovedFacts
<1>5. mid[Escrow] >= job.fee
  BY <1>1, <1>2, <1>3, <1>4
<1>6. usdc' = Moved(mid, Escrow, treasury, job.fee)
  BY DEF _payProvider
<1>7. usdc' \in [Holders -> Nat] /\ usdc'[Escrow] = mid[Escrow] - job.fee
  <2> HIDE DEF job, mid
  <2> QED BY <1>1, <1>2, <1>4, <1>5, <1>6, MovedFacts
<1>8. usdc'[Escrow] = usdc[Escrow] - (job.amount + job.fee)
  BY <1>2, <1>3, <1>4, <1>7
<1>9. "Complete" \in Status /\ "ProviderPaid" \in Settlement
  BY DEF Status, Settlement
<1>10. j \in Job
  BY <1>1, <1>9, Zenon DEF Job
<1>11. /\ j.buyer = job.buyer /\ j.provider = job.provider
       /\ j.listingId = job.listingId /\ j.listingVersion = job.listingVersion
       /\ j.manifestHash = job.manifestHash
       /\ j.settlement = "ProviderPaid" /\ j.status = "Complete"
  BY <1>1 DEF Job
<1>12. jobs' = [jobs EXCEPT ![id] = j]
  BY DEF _payProvider
<1> HIDE DEF j
<1> QED BY <1>7, <1>8, <1>10, <1>11, <1>12, SettleJob

LEMMA RefundBuyerStep ==
    ASSUME IInv, NEW id \in DOMAIN jobs, jobs[id].settlement = "None",
           _refundBuyer(id), UNCHANGED <<jobByReference, otherVars>>
    PROVE  IInv' /\ CustodyStep
<1> DEFINE j == [jobs[id] EXCEPT !.status = "Failed", !.settlement = "BuyerRefunded"]
           job == jobs[id]
           total == job.amount + job.fee
<1>1. /\ job \in Job /\ usdc \in [Holders -> Nat] /\ usdc[Escrow] >= total
      /\ job.buyer \in Holders \ {Escrow} /\ Escrow \in Holders
  BY EscrowCovers
<1>2. total \in Nat
  BY <1>1 DEF Job
<1>3. usdc' = Moved(usdc, Escrow, job.buyer, total)
  BY DEF _refundBuyer, escrowedAmount
<1>4. usdc' \in [Holders -> Nat] /\ usdc'[Escrow] = usdc[Escrow] - total
  <2> HIDE DEF total, job
  <2> QED BY <1>1, <1>2, <1>3, MovedFacts
<1>5. "Failed" \in Status /\ "BuyerRefunded" \in Settlement
  BY DEF Status, Settlement
<1>6. j \in Job
  BY <1>1, <1>5, Zenon DEF Job
<1>7. /\ j.buyer = job.buyer /\ j.provider = job.provider
      /\ j.listingId = job.listingId /\ j.listingVersion = job.listingVersion
      /\ j.manifestHash = job.manifestHash
      /\ j.settlement = "BuyerRefunded" /\ j.status = "Failed"
  BY <1>1 DEF Job
<1>8. jobs' = [jobs EXCEPT ![id] = j]
  BY DEF _refundBuyer
<1> HIDE DEF j
<1> QED BY <1>4, <1>6, <1>7, <1>8, SettleJob

(* A step of the rest of the world: time, the registry, the identity, the  *)
(* fee, the pauser, the treasury.  No job and no money moves, and what a   *)
(* job is pinned to stays in the listing history.                          *)
LEMMA OutsideStep ==
    ASSUME IInv, UNCHANGED <<usdc, jobVars>>,
           RegistryTypeOK', TimeTypeOK', FeeTypeOK',
           treasury' \in Treasuries, paused' \in BOOLEAN,
           HeadMatchesHistory', VersionsKept
    PROVE  IInv' /\ CustodyStep
<1> USE DEF IInv, jobVars
<1>1. JobEscrowTypeOK'
  BY DEF JobEscrowTypeOK, USDCTypeOK
<1>2. StatusMatchesSettlement' /\ ReferencesUnique'
  BY DEF StatusMatchesSettlement, ReferencesUnique
<1>3. JobPinnedToVersion'
  <2> SUFFICES ASSUME NEW id \in DOMAIN jobs
               PROVE  /\ jobs[id].listingId \in DOMAIN versions'
                      /\ jobs[id].listingVersion \in DOMAIN versions'[jobs[id].listingId]
                      /\ versions'[jobs[id].listingId][jobs[id].listingVersion] =
                           [manifestHash |-> jobs[id].manifestHash, paymentRail |-> "Escrow",
                            providerSnapshot |-> jobs[id].provider]
    BY DEF JobPinnedToVersion
  <2> QED BY DEF JobPinnedToVersion, VersionsKept
<1>4. EscrowedById' = EscrowedById
  BY DEF EscrowedById, escrowedAmount
<1>5. Solvency' /\ CustodyStep
  BY <1>4 DEF Solvency, CustodyStep
<1> QED BY <1>1, <1>2, <1>3, <1>5

LEMMA EnvironmentStep == ASSUME IInv, Environment PROVE IInv' /\ CustodyStep
<1> USE DEF IInv, Environment, JobEscrowTypeOK, adminVars
<1>1. CASE RegistryNext /\ UNCHANGED <<now, identityOwner>>
  <2>1. RegistryTypeOK' /\ HeadMatchesHistory' /\ VersionsKept
    BY <1>1, RegistryStep
  <2>2. TimeTypeOK' /\ FeeTypeOK'
    BY <1>1 DEF TimeTypeOK, FeeTypeOK, feeVars
  <2> QED BY <2>1, <2>2, OutsideStep
<1>2. CASE Tick /\ UNCHANGED <<identityOwner, registryVars>>
  <2>1. RegistryTypeOK' /\ HeadMatchesHistory' /\ VersionsKept
    BY <1>2 DEF RegistryTypeOK, IdentityTypeOK, HeadMatchesHistory, VersionsKept, registryVars
  <2>2. TimeTypeOK' /\ FeeTypeOK'
    BY <1>2, HorizonAssumption DEF Tick, TimeTypeOK, FeeTypeOK, feeVars
  <2> QED BY <2>1, <2>2, OutsideStep
<1>3. ASSUME NEW a \in AgentIds, NEW to \in Accounts,
             TransferIdentity(a, to), UNCHANGED <<now, registryVars>>
      PROVE  IInv' /\ CustodyStep
  <2>1. RegistryTypeOK' /\ HeadMatchesHistory' /\ VersionsKept
    BY <1>3 DEF TransferIdentity, RegistryTypeOK, IdentityTypeOK, HeadMatchesHistory,
                VersionsKept, registryVars
  <2>2. TimeTypeOK' /\ FeeTypeOK'
    BY <1>3 DEF TimeTypeOK, FeeTypeOK, feeVars
  <2> QED BY <2>1, <2>2, OutsideStep
<1> QED BY <1>1, <1>2, <1>3

(* Steps that leave the registry and the clock alone too. *)
LEMMA AdministrationStep ==
    ASSUME IInv, UNCHANGED <<now, identityOwner, registryVars, usdc, jobVars>>,
           FeeTypeOK', treasury' \in Treasuries, paused' \in BOOLEAN
    PROVE  IInv' /\ CustodyStep
<1>1. RegistryTypeOK' /\ HeadMatchesHistory' /\ VersionsKept
  BY DEF IInv, JobEscrowTypeOK, RegistryTypeOK, IdentityTypeOK, HeadMatchesHistory,
         VersionsKept, registryVars
<1>2. TimeTypeOK'
  BY DEF IInv, JobEscrowTypeOK, TimeTypeOK
<1> QED BY <1>1, <1>2, OutsideStep

LEMMA GovernanceStep == ASSUME IInv, Governance PROVE IInv' /\ CustodyStep
<1>1. FeeTypeOK'
  <2> USE FeeAssumption, HorizonAssumption
      DEF IInv, JobEscrowTypeOK, FeeTypeOK, TimeTypeOK
  <2>1. ASSUME NEW bps \in FeeChoices, scheduleProtocolFeeChange(bps) PROVE FeeTypeOK'
    BY <2>1 DEF scheduleProtocolFeeChange, _validateProtocolFee
  <2>2. CASE applyProtocolFeeChange
    BY <2>2 DEF applyProtocolFeeChange
  <2>3. CASE cancelProtocolFeeChange
    BY <2>3 DEF cancelProtocolFeeChange
  <2> QED BY <2>1, <2>2, <2>3 DEF Governance, FeeNext
<1>2. treasury' \in Treasuries /\ paused' \in BOOLEAN
  BY DEF IInv, JobEscrowTypeOK, Governance, adminVars
<1> QED BY <1>1, <1>2, AdministrationStep DEF Governance

LEMMA JobStepIInv == ASSUME IInv, NEW id \in DOMAIN jobs, JobStep(id) PROVE IInv' /\ CustodyStep
<1>0. jobs[id].status \notin {"Complete", "Failed"} => jobs[id].settlement = "None"
  BY DEF IInv, StatusMatchesSettlement
<1>1. ASSUME NEW s \in Accounts, acceptJob(s, id) PROVE IInv' /\ CustodyStep
  BY <1>0, <1>1, RestatusStep DEF acceptJob, Status
<1>2. ASSUME NEW s \in Accounts, submitJob(s, id) PROVE IInv' /\ CustodyStep
  BY <1>2, SubmitStep
<1>3. ASSUME NEW s \in Accounts, rejectSubmission(s, id) PROVE IInv' /\ CustodyStep
  BY <1>0, <1>3, RestatusStep DEF rejectSubmission, Status
<1>4. ASSUME NEW s \in Accounts, openDispute(s, id) PROVE IInv' /\ CustodyStep
  BY <1>0, <1>4, RestatusStep DEF openDispute, Status
<1>5. ASSUME NEW s \in Accounts, acceptSubmission(s, id) PROVE IInv' /\ CustodyStep
  BY <1>0, <1>5, PayProviderStep DEF acceptSubmission
<1>6. CASE autoAccept(id)
  BY <1>0, <1>6, PayProviderStep DEF autoAccept
<1>7. ASSUME NEW payProvider \in BOOLEAN, resolveDispute(id, payProvider) PROVE IInv' /\ CustodyStep
  BY <1>0, <1>7, PayProviderStep, RefundBuyerStep DEF resolveDispute
<1>8. ASSUME NEW s \in Accounts, failJob(s, id) PROVE IInv' /\ CustodyStep
  BY <1>0, <1>8, RefundBuyerStep DEF failJob
<1> QED BY <1>1, <1>2, <1>3, <1>4, <1>5, <1>6, <1>7, <1>8 DEF JobStep, Settle

LEMMA StutterStep == ASSUME IInv, UNCHANGED vars PROVE IInv' /\ CustodyStep
<1>1. FeeTypeOK' /\ treasury' \in Treasuries /\ paused' \in BOOLEAN
  BY DEF IInv, JobEscrowTypeOK, FeeTypeOK, vars, feeVars, adminVars
<1> QED BY <1>1, AdministrationStep DEF vars

LEMMA NextIInv == IInv /\ [Next]_vars => IInv' /\ CustodyStep
<1> SUFFICES ASSUME IInv, [Next]_vars PROVE IInv' /\ CustodyStep
  OBVIOUS
<1>1. ASSUME NEW b \in Accounts, NEW r \in References, NEW id \in DOMAIN listings,
             NEW amount \in Amounts, NEW h \in ReviewHours, createJob(b, r, id, amount, h)
      PROVE  IInv' /\ CustodyStep
  BY <1>1, CreateStep
<1>2. ASSUME NEW id \in DOMAIN jobs, JobStep(id) PROVE IInv' /\ CustodyStep
  BY <1>2, JobStepIInv
<1>3. CASE Governance
  BY <1>3, GovernanceStep
<1>4. CASE Environment
  BY <1>4, EnvironmentStep
<1>5. ASSUME UNCHANGED <<now, identityOwner, registryVars, feeVars, usdc, jobVars>>,
             treasury' \in Treasuries, paused' \in BOOLEAN
      PROVE  IInv' /\ CustodyStep
  <2>1. FeeTypeOK'
    BY <1>5 DEF IInv, JobEscrowTypeOK, FeeTypeOK, feeVars
  <2> QED BY <1>5, <2>1, AdministrationStep
<1>6. treasury \in Treasuries /\ paused \in BOOLEAN
  BY DEF IInv, JobEscrowTypeOK
<1>7. CASE pause \/ unpause \/ \E t \in Treasuries : setTreasury(t)
  BY <1>5, <1>6, <1>7 DEF pause, unpause, setTreasury
<1>8. CASE UNCHANGED vars
  BY <1>8, StutterStep
<1> QED BY <1>1, <1>2, <1>3, <1>4, <1>7, <1>8 DEF Next

LEMMA InitIInv == Init => IInv
<1> SUFFICES ASSUME Init PROVE IInv
  OBVIOUS
<1> USE DEF Init
<1>1. JobEscrowTypeOK
  <2>1. TimeTypeOK
    BY HorizonAssumption DEF TimeTypeOK, TimeInit
  <2>2. RegistryTypeOK
    BY DEF RegistryTypeOK, IdentityTypeOK, IdentityInit, RegistryInit
  <2>3. FeeTypeOK
    BY FeeAssumption DEF FeeTypeOK, FeeInit, _validateProtocolFee
  <2>4. USDCTypeOK
    BY EscrowAssumption DEF USDCTypeOK
  <2>5. jobs \in Seq(Job) /\ Len(jobs) <= MaxJobs
    BY EscrowAssumption
  <2>6. jobByReference \in [Accounts \X References -> Nat]
    OBVIOUS
  <2> QED BY <2>1, <2>2, <2>3, <2>4, <2>5, <2>6 DEF JobEscrowTypeOK
<1>2. HeadMatchesHistory /\ StatusMatchesSettlement /\ JobPinnedToVersion
  BY DEF RegistryInit, HeadMatchesHistory, StatusMatchesSettlement, JobPinnedToVersion
<1>3. ReferencesUnique
  BY DEF ReferencesUnique
<1>4. Solvency
  <2>1. \A id \in 1..MaxJobs : EscrowedById[id] = 0
    BY DEF EscrowedById, escrowedAmount
  <2>2. EscrowedById \in [1..MaxJobs -> Int] /\ MaxJobs \in Nat
    BY <2>1, EscrowAssumption DEF EscrowedById
  <2>3. SumTo(EscrowedById, MaxJobs) = 0
    BY <2>1, <2>2, SumToZero
  <2>4. usdc[Escrow] = 0
    BY EscrowAssumption
  <2> QED BY <2>3, <2>4 DEF Solvency
<1> QED BY <1>1, <1>2, <1>3, <1>4 DEF IInv

THEOREM Invariance == Spec => []IInv
<1>1. IInv /\ [Next]_vars => IInv'
  BY NextIInv
<1> QED BY <1>1, InitIInv, PTL DEF Spec

(* Every variable of the escrow, the registry and the token keeps its      *)
(* type; in particular no balance, the contract's own included, is ever    *)
(* overdrawn.                                                              *)
THEOREM TypeCorrect == Spec => []JobEscrowTypeOK
<1>1. IInv => JobEscrowTypeOK
  BY DEF IInv
<1> QED BY <1>1, Invariance, PTL

(* The contract holds exactly what its open jobs are worth.                *)
THEOREM EscrowSolvent == Spec => []Solvency
<1>1. IInv => Solvency
  BY DEF IInv
<1> QED BY <1>1, Invariance, PTL

(* A job stays bound to the listing version it was bought from.            *)
THEOREM JobsStayPinned == Spec => []JobPinnedToVersion
<1>1. IInv => JobPinnedToVersion
  BY DEF IInv
<1> QED BY <1>1, Invariance, PTL

(* A client reference names at most one job, for ever.                     *)
THEOREM ReferencesStayUnique == Spec => []ReferencesUnique
<1>1. IInv => ReferencesUnique
  BY DEF IInv
<1> QED BY <1>1, Invariance, PTL

(* The escrow is a custodian: seen as one account per job, every step pays *)
(* into one account or out of one account, for the amount by which the     *)
(* contract's balance changes, and never more than the account held.       *)
THEOREM EscrowImplementsCustody == Spec => ImplementsCustody
<1>1. Init => Custodian!Init
  <2> SUFFICES ASSUME Init PROVE Custodian!Init
    OBVIOUS
  <2>1. EscrowedById = [k \in 1..MaxJobs |-> 0]
    BY DEF Init, EscrowedById, escrowedAmount
  <2>2. usdc[Escrow] = 0
    BY EscrowAssumption DEF Init
  <2> QED BY <2>1, <2>2 DEF Custodian!Init
<1>2. IInv /\ [Next]_vars => [Custodian!Next]_(Custodian!vars)
  BY NextIInv DEF CustodyStep, Custodian!vars
<1> QED BY <1>1, <1>2, Invariance, PTL DEF Spec, ImplementsCustody, Custodian!Spec
-----------------------------------------------------------------------------
(* Where the money goes and what may happen to delivered work, on top of   *)
(* the invariant above.                                                    *)

(* What one transfer does to every balance. *)
LEMMA MovedDelta ==
    ASSUME NEW bal \in [Holders -> Nat], NEW from \in Holders, NEW to \in Holders,
           NEW amount \in Nat, from # to, NEW h \in Holders
    PROVE  Moved(bal, from, to, amount)[h] =
               bal[h] - (IF h = from THEN amount ELSE 0) + (IF h = to THEN amount ELSE 0)
BY DEF Moved

LEMMA GainType ==
    ASSUME jobs \in Seq(Job), NEW a \in Accounts
    PROVE  GainById(a) \in [1..MaxJobs -> Int]
<1>1. ASSUME NEW id \in 1..MaxJobs PROVE Gain(a, id) \in Int
  <2>1. id \in DOMAIN jobs => jobs[id].amount \in Nat /\ jobs[id].fee \in Nat
    BY JobsFacts DEF Job
  <2> QED BY <2>1 DEF Gain
<1> QED BY <1>1 DEF GainById

LEMMA NextGainType ==
    ASSUME jobs' \in Seq(Job), NEW a \in Accounts
    PROVE  GainById(a)' \in [1..MaxJobs -> Int]
<1>1. ASSUME NEW id \in 1..MaxJobs PROVE Gain(a, id)' \in Int
  <2>1. id \in DOMAIN jobs' => jobs'[id] \in Job
    BY LenProperties, ElementOfSeq
  <2>2. id \in DOMAIN jobs' => jobs'[id].amount \in Nat /\ jobs'[id].fee \in Nat
    BY <2>1 DEF Job
  <2> QED BY <2>2 DEF Gain
<1> QED BY <1>1 DEF GainById

(* A step that moves account a's balance by what it adds to a's gain       *)
(* through job k, and touches no other gain of a, keeps the account        *)
(* reconciled.                                                             *)
LEMMA GainStep ==
    ASSUME NEW a \in Accounts, NEW k \in 1..MaxJobs,
           usdc[a] = InitialBalance + SumTo(GainById(a), MaxJobs),
           GainById(a) \in [1..MaxJobs -> Int], GainById(a)' \in [1..MaxJobs -> Int],
           usdc[a] \in Int, usdc'[a] \in Int,
           \A i \in 1..MaxJobs : i # k => Gain(a, i)' = Gain(a, i),
           usdc'[a] - usdc[a] = Gain(a, k)' - Gain(a, k)
    PROVE  usdc'[a] = InitialBalance + SumTo(GainById(a)', MaxJobs)
<1>1. /\ \A i \in 1..MaxJobs : i # k => GainById(a)'[i] = GainById(a)[i]
      /\ GainById(a)'[k] = Gain(a, k)' /\ GainById(a)[k] = Gain(a, k)
  BY DEF GainById
<1>2. SumTo(GainById(a)', MaxJobs) =
          SumTo(GainById(a), MaxJobs) + (GainById(a)'[k] - GainById(a)[k])
  BY <1>1, SumToUpdate, EscrowAssumption
<1>3. GainById(a)'[k] \in Int /\ GainById(a)[k] \in Int /\ InitialBalance \in Nat
  BY EscrowAssumption
<1>4. SumTo(GainById(a), MaxJobs) = usdc[a] - InitialBalance
  <2>1. PICK s : IsPartialSums(s, GainById(a), MaxJobs) /\ SumTo(GainById(a), MaxJobs) = s[MaxJobs]
    BY SumToIsPartialSum, EscrowAssumption
  <2>2. SumTo(GainById(a), MaxJobs) \in Int
    BY <2>1, EscrowAssumption DEF IsPartialSums
  <2> QED BY <1>3, <2>2
<1> QED BY <1>1, <1>2, <1>3, <1>4

(* No gain changes when no balance, party, price or settlement does.       *)
LEMMA SameGains ==
    ASSUME AccountsReconcile, UNCHANGED usdc, DOMAIN jobs' = DOMAIN jobs,
           \A id \in DOMAIN jobs :
               /\ jobs'[id].buyer = jobs[id].buyer /\ jobs'[id].provider = jobs[id].provider
               /\ jobs'[id].amount = jobs[id].amount /\ jobs'[id].fee = jobs[id].fee
               /\ jobs'[id].settlement = jobs[id].settlement
    PROVE  AccountsReconcile'
<1>1. ASSUME NEW a \in Accounts PROVE GainById(a)' = GainById(a)
  <2>1. \A id \in 1..MaxJobs : Gain(a, id)' = Gain(a, id)
    BY DEF Gain
  <2> QED BY <2>1 DEF GainById
<1> QED BY <1>1 DEF AccountsReconcile

LEMMA CreateReconciles ==
    ASSUME IInv, IInv', AccountsReconcile,
           NEW b \in Accounts, NEW r \in References, NEW lid \in DOMAIN listings,
           NEW amount \in Amounts, NEW h \in ReviewHours, createJob(b, r, lid, amount, h)
    PROVE  AccountsReconcile'
<1> DEFINE hours == IF h = 0 THEN defaultReviewHours ELSE h
           job == NewJob(b, listings[lid], lid, amount, hours)
<1>1. /\ jobs \in Seq(Job) /\ jobs' \in Seq(Job) /\ jobs' = Append(jobs, job)
      /\ Len(jobs) \in Nat /\ Len(jobs) < MaxJobs /\ MaxJobs \in Nat
      /\ DOMAIN jobs = 1..Len(jobs)
      /\ usdc \in [Holders -> Nat] /\ usdc' \in [Holders -> Nat]
  BY JobsFacts, EscrowAssumption DEF IInv, JobEscrowTypeOK, USDCTypeOK, createJob
<1>2. usdc' = Moved(usdc, b, Escrow, job.amount + job.fee)
  BY DEF createJob
<1>3. PICK k \in 1..MaxJobs : k = Len(jobs) + 1
  BY <1>1
<1>4. job.buyer = b /\ job.settlement = "None"
  BY DEF NewJob
<1> HIDE DEF job
<1>5. /\ DOMAIN jobs' = 1..k /\ jobs'[k] = job
      /\ \A i \in 1..Len(jobs) : jobs'[i] = jobs[i]
  BY <1>1, <1>3
<1>6. jobs'[k] \in Job /\ job.amount \in Nat /\ job.fee \in Nat
  <2>1. jobs'[k] \in Job
    BY <1>1, <1>3, <1>5, ElementOfSeq, LenProperties
  <2> QED BY <1>5, <2>1 DEF Job
<1>7. ASSUME NEW a \in Accounts \ Treasuries
      PROVE  usdc'[a] = InitialBalance + SumTo(GainById(a)', MaxJobs)
  <2>1. \A i \in 1..MaxJobs : i # k => Gain(a, i)' = Gain(a, i)
    BY <1>1, <1>3, <1>5 DEF Gain
  <2>2. Gain(a, k) = 0 /\ Gain(a, k)' = 0 - (IF b = a THEN job.amount + job.fee ELSE 0)
    BY <1>1, <1>3, <1>4, <1>5, <1>6 DEF Gain
  <2>3. b \in Holders /\ Escrow \in Holders /\ b # Escrow /\ a \in Holders /\ a # Escrow
    BY EscrowAssumption
  <2>4. usdc'[a] = usdc[a] - (IF a = b THEN job.amount + job.fee ELSE 0)
    <3>1. job.amount + job.fee \in Nat /\ usdc[a] \in Nat
      BY <1>1, <1>6, <2>3
    <3>2. usdc'[a] = usdc[a] - (IF a = b THEN job.amount + job.fee ELSE 0) + 0
      BY <1>1, <1>2, <2>3, <3>1, MovedDelta
    <3> QED BY <1>6, <3>1, <3>2
  <2>5. usdc[a] \in Nat /\ usdc'[a] \in Nat
    BY <1>1, <2>3
  <2>6. usdc'[a] - usdc[a] = Gain(a, k)' - Gain(a, k)
    BY <1>6, <2>2, <2>4, <2>5
  <2>7. GainById(a) \in [1..MaxJobs -> Int]
    BY <1>1, GainType
  <2>8. GainById(a)' \in [1..MaxJobs -> Int]
    BY <1>1, NextGainType
  <2> QED BY <2>1, <2>5, <2>6, <2>7, <2>8, GainStep DEF AccountsReconcile
<1> QED BY <1>7 DEF AccountsReconcile

(* One settlement: the payee is credited what the gain says, and everybody *)
(* else outside the treasuries nothing.                                    *)
LEMMA SettlementReconciles ==
    ASSUME IInv, IInv', AccountsReconcile,
           NEW id \in DOMAIN jobs, jobs[id].settlement = "None",
           _payProvider(id) \/ _refundBuyer(id)
    PROVE  AccountsReconcile'
<1>1. /\ jobs[id] \in Job /\ usdc \in [Holders -> Nat]
      /\ usdc[Escrow] >= jobs[id].amount + jobs[id].fee
      /\ jobs[id].provider \in Holders \ {Escrow} /\ jobs[id].buyer \in Holders \ {Escrow}
      /\ treasury \in Treasuries /\ treasury \in Holders \ {Escrow} /\ Escrow \in Holders
  BY EscrowCovers DEF IInv, JobEscrowTypeOK
<1>2. /\ jobs \in Seq(Job) /\ jobs' \in Seq(Job) /\ usdc' \in [Holders -> Nat]
      /\ id \in 1..MaxJobs /\ DOMAIN jobs = 1..Len(jobs)
  BY JobsFacts, EscrowAssumption DEF IInv, JobEscrowTypeOK, USDCTypeOK
<1>3. jobs[id].amount \in Nat /\ jobs[id].fee \in Nat /\ usdc[Escrow] \in Nat
  BY <1>1 DEF Job
<1>4. ASSUME NEW a \in Accounts \ Treasuries
      PROVE  usdc'[a] = InitialBalance + SumTo(GainById(a)', MaxJobs)
  <2>1. a \in Holders /\ a # Escrow /\ a # treasury /\ usdc[a] \in Nat /\ usdc'[a] \in Nat
    BY <1>1, <1>2, EscrowAssumption
  <2>2. GainById(a) \in [1..MaxJobs -> Int] /\ GainById(a)' \in [1..MaxJobs -> Int]
    BY <1>2, GainType, NextGainType
  <2>3. \A i \in 1..MaxJobs : i # id => Gain(a, i)' = Gain(a, i)
    BY <1>2 DEF Gain, _payProvider, _refundBuyer
  <2>4. usdc'[a] - usdc[a] = Gain(a, id)' - Gain(a, id)
    <3>1. Gain(a, id) = 0 - (IF jobs[id].buyer = a THEN jobs[id].amount + jobs[id].fee ELSE 0)
      BY <1>2, <1>3 DEF Gain
    <3>2. CASE _payProvider(id)
      <4> DEFINE mid == Moved(usdc, Escrow, jobs[id].provider, jobs[id].amount)
      <4>1. mid[a] = usdc[a] + (IF a = jobs[id].provider THEN jobs[id].amount ELSE 0)
        <5>1. mid[a] = usdc[a] - 0 + (IF a = jobs[id].provider THEN jobs[id].amount ELSE 0)
          BY <1>1, <1>3, <2>1, MovedDelta
        <5> QED BY <1>3, <2>1, <5>1
      <4>2. mid \in [Holders -> Nat]
        <5>1. usdc[Escrow] >= jobs[id].amount
          BY <1>1, <1>3
        <5> QED BY <1>1, <1>3, <5>1, MovedFacts
      <4>3. usdc'[a] = mid[a]
        <5>1. usdc' = Moved(mid, Escrow, treasury, jobs[id].fee)
          BY <3>2 DEF _payProvider
        <5>2. mid[a] \in Nat
          BY <2>1, <4>2
        <5>3. usdc'[a] = mid[a] - (IF a = Escrow THEN jobs[id].fee ELSE 0)
                                + (IF a = treasury THEN jobs[id].fee ELSE 0)
          <6> HIDE DEF mid
          <6>1. Escrow # treasury /\ Escrow \in Holders /\ treasury \in Holders
            BY <1>1
          <6> QED BY <1>3, <2>1, <4>2, <5>1, <6>1, MovedDelta
        <5> QED BY <2>1, <5>2, <5>3
      <4>4. /\ id \in DOMAIN jobs' /\ jobs'[id].settlement = "ProviderPaid"
            /\ jobs'[id].buyer = jobs[id].buyer /\ jobs'[id].provider = jobs[id].provider
            /\ jobs'[id].amount = jobs[id].amount /\ jobs'[id].fee = jobs[id].fee
        BY <1>1, <1>2, <3>2 DEF _payProvider, Job
      <4>5. Gain(a, id)' = (IF jobs[id].provider = a THEN jobs[id].amount ELSE 0)
                         - (IF jobs[id].buyer = a THEN jobs[id].amount + jobs[id].fee ELSE 0)
        BY <4>4 DEF Gain
      <4> HIDE DEF mid
      <4> QED BY <1>3, <2>1, <3>1, <4>1, <4>3, <4>5
    <3>3. CASE _refundBuyer(id)
      <4>1. usdc' = Moved(usdc, Escrow, jobs[id].buyer, jobs[id].amount + jobs[id].fee)
        BY <3>3 DEF _refundBuyer, escrowedAmount
      <4>2. usdc'[a] = usdc[a] - 0
                     + (IF a = jobs[id].buyer THEN jobs[id].amount + jobs[id].fee ELSE 0)
        <5>1. jobs[id].amount + jobs[id].fee \in Nat
          BY <1>3
        <5> QED BY <1>1, <2>1, <4>1, <5>1, MovedDelta
      <4>3. /\ id \in DOMAIN jobs' /\ jobs'[id].settlement = "BuyerRefunded"
            /\ jobs'[id].buyer = jobs[id].buyer
        BY <1>1, <1>2, <3>3 DEF _refundBuyer, Job
      <4>4. Gain(a, id)' = 0
        BY <4>3 DEF Gain
      <4> QED BY <1>3, <2>1, <3>1, <4>2, <4>4
    <3> QED BY <3>2, <3>3
  <2>5. usdc[a] = InitialBalance + SumTo(GainById(a), MaxJobs)
    BY DEF AccountsReconcile
  <2>6. usdc[a] \in Int /\ usdc'[a] \in Int
    BY <2>1
  <2> QED BY <1>2, <2>2, <2>3, <2>4, <2>5, <2>6, GainStep
<1> QED BY <1>4 DEF AccountsReconcile

(* The steps that move a job and no money. *)
LEMMA QuietReconciles ==
    ASSUME IInv, AccountsReconcile, NEW id \in DOMAIN jobs, NEW s \in Accounts,
           acceptJob(s, id) \/ submitJob(s, id) \/ rejectSubmission(s, id) \/ openDispute(s, id)
    PROVE  AccountsReconcile'
<1>1. jobs \in Seq(Job) /\ jobs[id] \in Job
  BY JobsFacts DEF IInv, JobEscrowTypeOK
<1>2. UNCHANGED usdc /\ DOMAIN jobs' = DOMAIN jobs
  BY <1>1 DEF acceptJob, submitJob, rejectSubmission, openDispute
<1>3. ASSUME NEW k \in DOMAIN jobs
      PROVE  /\ jobs'[k].buyer = jobs[k].buyer /\ jobs'[k].provider = jobs[k].provider
             /\ jobs'[k].amount = jobs[k].amount /\ jobs'[k].fee = jobs[k].fee
             /\ jobs'[k].settlement = jobs[k].settlement
  <2>1. CASE k # id
    BY <1>1, <2>1 DEF acceptJob, submitJob, rejectSubmission, openDispute
  <2>2. CASE k = id
    <3>1. CASE acceptJob(s, id) \/ rejectSubmission(s, id) \/ openDispute(s, id)
      <4>1. CASE acceptJob(s, id)
        BY <1>1, <2>2, <4>1 DEF acceptJob, Job
      <4>2. CASE rejectSubmission(s, id)
        BY <1>1, <2>2, <4>2 DEF rejectSubmission, Job
      <4>3. CASE openDispute(s, id)
        BY <1>1, <2>2, <4>3 DEF openDispute, Job
      <4> QED BY <3>1, <4>1, <4>2, <4>3
    <3>2. CASE submitJob(s, id)
      <4> DEFINE j == [jobs[id] EXCEPT !.submittedAt = now,
                                       !.reviewDeadline = now + jobs[id].reviewHours,
                                       !.status = "Submitted"]
      <4>1. jobs' = [jobs EXCEPT ![id] = j]
        BY <3>2 DEF submitJob
      <4>2. /\ j.buyer = jobs[id].buyer /\ j.provider = jobs[id].provider
            /\ j.amount = jobs[id].amount /\ j.fee = jobs[id].fee
            /\ j.settlement = jobs[id].settlement
        BY <1>1 DEF Job
      <4> HIDE DEF j
      <4> QED BY <1>1, <2>2, <4>1, <4>2
    <3> QED BY <3>1, <3>2
  <2> QED BY <2>1, <2>2
<1> QED BY <1>2, <1>3, SameGains

LEMMA NextReconciles == IInv /\ IInv' /\ AccountsReconcile /\ [Next]_vars => AccountsReconcile'
<1> SUFFICES ASSUME IInv, IInv', AccountsReconcile, [Next]_vars PROVE AccountsReconcile'
  OBVIOUS
<1>1. ASSUME NEW b \in Accounts, NEW r \in References, NEW id \in DOMAIN listings,
             NEW amount \in Amounts, NEW h \in ReviewHours, createJob(b, r, id, amount, h)
      PROVE  AccountsReconcile'
  BY <1>1, CreateReconciles
<1>2. ASSUME NEW id \in DOMAIN jobs, JobStep(id) PROVE AccountsReconcile'
  <2>0. jobs[id].status \notin {"Complete", "Failed"} => jobs[id].settlement = "None"
    BY DEF IInv, StatusMatchesSettlement
  <2>1. CASE \E s \in Accounts : \/ acceptJob(s, id) \/ submitJob(s, id)
                                \/ rejectSubmission(s, id) \/ openDispute(s, id)
    BY <2>1, QuietReconciles
  <2>2. CASE Settle(id)
    <3>1. jobs[id].settlement = "None" /\ (_payProvider(id) \/ _refundBuyer(id))
      BY <2>0, <2>2 DEF Settle, acceptSubmission, autoAccept, resolveDispute, failJob
    <3> QED BY <3>1, SettlementReconciles
  <2> QED BY <1>2, <2>1, <2>2 DEF JobStep
<1>3. CASE UNCHANGED <<usdc, jobVars>>
  BY <1>3, SameGains DEF jobVars
<1> QED BY <1>1, <1>2, <1>3
        DEF Next, Governance, Environment, pause, unpause, setTreasury, vars

(* Every account's balance is explained by the job records: payouts reach  *)
(* the provider pinned at creation, refunds the buyer, in full and once.   *)
THEOREM AccountsAlwaysReconcile == Spec => []AccountsReconcile
<1>1. Init => AccountsReconcile
  <2> SUFFICES ASSUME Init, NEW a \in Accounts \ Treasuries
               PROVE  usdc[a] = InitialBalance + SumTo(GainById(a), MaxJobs)
    BY DEF AccountsReconcile
  <2>1. \A id \in 1..MaxJobs : GainById(a)[id] = 0
    BY DEF Init, GainById, Gain
  <2>2. GainById(a) \in [1..MaxJobs -> Int]
    BY <2>1 DEF GainById
  <2>3. SumTo(GainById(a), MaxJobs) = 0
    BY <2>1, <2>2, SumToZero, EscrowAssumption
  <2>4. usdc[a] = InitialBalance
    BY EscrowAssumption DEF Init
  <2> QED BY <2>3, <2>4, EscrowAssumption
<1> QED BY <1>1, NextReconciles, Invariance, PTL DEF Spec
-----------------------------------------------------------------------------
(* The life cycle of one job as a graph: from record j to record k.        *)
Edge(j, k) ==
    \/ j.status = "Created" /\ k.status = "Accepted" /\ k.settlement = "None"
          /\ k.submittedAt = j.submittedAt
    \/ j.status = "Accepted" /\ k.status = "Submitted" /\ k.settlement = "None"
    \/ j.status = "Submitted" /\ now <= j.reviewDeadline
          /\ k.status = "Rejected" /\ k.settlement = "None"
    \/ j.status = "Rejected" /\ k.status = "Disputed" /\ k.settlement = "None"
    \/ j.status \in {"Submitted", "Disputed"}
          /\ k.status = "Complete" /\ k.settlement = "ProviderPaid"
    \/ j.status = "Disputed" /\ k.status = "Failed" /\ k.settlement = "BuyerRefunded"
    \/ j.status \in {"Created", "Accepted"}
          /\ k.status = "Failed" /\ k.settlement = "BuyerRefunded"

(* Work is not submitted before it is accepted and handed in. *)
NotSubmittedYet ==
    \A id \in DOMAIN jobs :
        jobs[id].status \in {"Created", "Accepted"} => jobs[id].submittedAt = 0

LEMMA JobFollowsEdge ==
    ASSUME IInv, NEW id \in DOMAIN jobs, JobStep(id)
    PROVE  /\ DOMAIN jobs' = DOMAIN jobs
           /\ Edge(jobs[id], jobs'[id])
           /\ \A k \in DOMAIN jobs \ {id} : jobs'[k] = jobs[k]
<1> DEFINE Goal == /\ DOMAIN jobs' = DOMAIN jobs
                   /\ Edge(jobs[id], jobs'[id])
                   /\ \A k \in DOMAIN jobs \ {id} : jobs'[k] = jobs[k]
<1>0. jobs \in Seq(Job) /\ jobs[id] \in Job
      /\ (jobs[id].status \notin {"Complete", "Failed"} => jobs[id].settlement = "None")
  BY JobsFacts DEF IInv, JobEscrowTypeOK, StatusMatchesSettlement
<1>1. ASSUME NEW s \in Accounts, acceptJob(s, id) PROVE Goal
  BY <1>0, <1>1 DEF acceptJob, Edge, Job
<1>2. ASSUME NEW s \in Accounts, submitJob(s, id) PROVE Goal
  <2> DEFINE j == [jobs[id] EXCEPT !.submittedAt = now,
                                   !.reviewDeadline = now + jobs[id].reviewHours,
                                   !.status = "Submitted"]
  <2>1. jobs' = [jobs EXCEPT ![id] = j] /\ jobs[id].status = "Accepted"
    BY <1>2 DEF submitJob
  <2>2. j.status = "Submitted" /\ j.settlement = "None"
    BY <1>0, <2>1 DEF Job
  <2> HIDE DEF j
  <2> QED BY <1>0, <2>1, <2>2 DEF Edge
<1>3. ASSUME NEW s \in Accounts, rejectSubmission(s, id) PROVE Goal
  BY <1>0, <1>3 DEF rejectSubmission, Edge, Job
<1>4. ASSUME NEW s \in Accounts, openDispute(s, id) PROVE Goal
  BY <1>0, <1>4 DEF openDispute, Edge, Job
<1>5. CASE _payProvider(id) /\ jobs[id].status \in {"Submitted", "Disputed"}
  BY <1>0, <1>5 DEF _payProvider, Edge, Job
<1>6. CASE _refundBuyer(id) /\ jobs[id].status \in {"Created", "Accepted", "Disputed"}
  BY <1>0, <1>6 DEF _refundBuyer, Edge, Job
<1>7. CASE Settle(id)
  <2>1. \/ _payProvider(id) /\ jobs[id].status \in {"Submitted", "Disputed"}
        \/ _refundBuyer(id) /\ jobs[id].status \in {"Created", "Accepted", "Disputed"}
    BY <1>7 DEF Settle, acceptSubmission, autoAccept, resolveDispute, failJob
  <2> HIDE DEF Goal
  <2> QED BY <1>5, <1>6, <2>1
<1> QED BY <1>1, <1>2, <1>3, <1>4, <1>7, Zenon DEF JobStep

(* Every step leaves each existing job alone or moves it along an edge.    *)
LEMMA NextFollowsEdges ==
    ASSUME IInv, [Next]_vars, NEW id \in DOMAIN jobs
    PROVE  id \in DOMAIN jobs' /\ (jobs'[id] = jobs[id] \/ Edge(jobs[id], jobs'[id]))
<1>1. ASSUME NEW b \in Accounts, NEW r \in References, NEW lid \in DOMAIN listings,
             NEW amount \in Amounts, NEW h \in ReviewHours, createJob(b, r, lid, amount, h)
      PROVE  id \in DOMAIN jobs' /\ jobs'[id] = jobs[id]
  <2>1. \E j : jobs' = Append(jobs, j)
    BY <1>1 DEF createJob
  <2> QED BY <2>1, JobsFacts DEF IInv, JobEscrowTypeOK
<1>2. ASSUME NEW k \in DOMAIN jobs, JobStep(k)
      PROVE  id \in DOMAIN jobs' /\ (jobs'[id] = jobs[id] \/ Edge(jobs[id], jobs'[id]))
  BY <1>2, JobFollowsEdge
<1>3. CASE UNCHANGED jobs
  BY <1>3
<1> QED BY <1>1, <1>2, <1>3
        DEF Next, Governance, Environment, pause, unpause, setTreasury, vars, jobVars

LEMMA NextNotSubmittedYet == IInv /\ NotSubmittedYet /\ [Next]_vars => NotSubmittedYet'
<1> SUFFICES ASSUME IInv, NotSubmittedYet, [Next]_vars, NEW id \in DOMAIN jobs',
                    jobs'[id].status \in {"Created", "Accepted"}
             PROVE  jobs'[id].submittedAt = 0
  BY DEF NotSubmittedYet
<1>1. CASE id \in DOMAIN jobs
  <2>1. jobs'[id] = jobs[id] \/ Edge(jobs[id], jobs'[id])
    BY <1>1, NextFollowsEdges
  <2> QED BY <1>1, <2>1 DEF Edge, NotSubmittedYet
<1>2. CASE id \notin DOMAIN jobs
  <2>1. PICK b \in Accounts, r \in References, lid \in DOMAIN listings,
             amount \in Amounts, h \in ReviewHours : createJob(b, r, lid, amount, h)
    <3>1. ~(UNCHANGED jobs)
      BY <1>2
    <3>2. ~(\E k \in DOMAIN jobs : JobStep(k))
      BY <1>2, JobFollowsEdge
    <3> QED BY <3>1, <3>2
            DEF Next, Governance, Environment, pause, unpause, setTreasury, vars, jobVars
  <2> DEFINE hours == IF h = 0 THEN defaultReviewHours ELSE h
             j == NewJob(b, listings[lid], lid, amount, hours)
  <2>2. jobs' = Append(jobs, j) /\ j.submittedAt = 0
    BY <2>1 DEF createJob, NewJob
  <2> HIDE DEF j
  <2>3. jobs'[id] = j
    BY <1>2, <2>2, JobsFacts DEF IInv, JobEscrowTypeOK
  <2> QED BY <2>2, <2>3
<1> QED BY <1>1, <1>2

(* Delivered work is paid or judged.                                       *)
THEOREM SubmittedWorkProtected == Spec => SubmittedWorkIsPaidOrJudged
<1>1. Init => NotSubmittedYet
  BY DEF Init, NotSubmittedYet
<1>2. ASSUME IInv, NotSubmittedYet, [Next]_vars, NEW id \in DOMAIN jobs
      PROVE  /\ jobs[id].submittedAt # 0 /\ jobs[id] # jobs'[id] =>
                   (jobs'[id].settlement = "BuyerRefunded" => jobs[id].status = "Disputed")
             /\ jobs[id].status = "Submitted" /\ now > jobs[id].reviewDeadline =>
                   jobs'[id] = jobs[id] \/ jobs'[id].settlement = "ProviderPaid"
  <2>1. jobs'[id] = jobs[id] \/ Edge(jobs[id], jobs'[id])
    BY <1>2, NextFollowsEdges
  <2>2. jobs[id].status \in {"Created", "Accepted"} => jobs[id].submittedAt = 0
    BY <1>2 DEF NotSubmittedYet
  <2>3. jobs[id] \in Job /\ now \in Nat
    BY <1>2, JobsFacts DEF IInv, JobEscrowTypeOK, TimeTypeOK
  <2>4. jobs[id].reviewDeadline \in Nat
    BY <2>3 DEF Job
  <2> QED BY <2>1, <2>2, <2>3, <2>4 DEF Edge
<1>3. IInv /\ NotSubmittedYet /\ [Next]_vars =>
         [\A id \in DOMAIN jobs :
            /\ jobs[id].submittedAt # 0 /\ jobs[id] # jobs'[id] =>
                  (jobs'[id].settlement = "BuyerRefunded" => jobs[id].status = "Disputed")
            /\ jobs[id].status = "Submitted" /\ now > jobs[id].reviewDeadline =>
                  jobs'[id] = jobs[id] \/ jobs'[id].settlement = "ProviderPaid"]_vars
  BY <1>2
<1> QED BY <1>1, <1>3, NextNotSubmittedYet, Invariance, PTL
        DEF Spec, SubmittedWorkIsPaidOrJudged
-----------------------------------------------------------------------------
(* The backend's life cycle of a job, step by step.                        *)
LifecycleRecord(state, settlement, hours, acceptance, review, submitted) ==
    [state |-> state, settlement |-> settlement, reviewHours |-> hours,
     acceptanceDeadline |-> acceptance, reviewDeadline |-> review, submittedAt |-> submitted]

(* The three ways a record of it moves. *)
WithState(r, st)            == [r EXCEPT !.state = st]
WithSettlement(r, st, se)   == [r EXCEPT !.state = st, !.settlement = se]
WithSubmission(r, st, at, review) ==
    [r EXCEPT !.state = st, !.submittedAt = at, !.reviewDeadline = review]

LEMMA StateMoves ==
    ASSUME NEW st, NEW se, NEW hours, NEW acceptance, NEW review, NEW submitted, NEW st2, NEW r,
           r = LifecycleRecord(st, se, hours, acceptance, review, submitted)
    PROVE  WithState(r, st2) = LifecycleRecord(st2, se, hours, acceptance, review, submitted)
BY DEF LifecycleRecord, WithState

LEMMA SettlementMoves ==
    ASSUME NEW st, NEW se, NEW hours, NEW acceptance, NEW review, NEW submitted,
           NEW st2, NEW se2, NEW r,
           r = LifecycleRecord(st, se, hours, acceptance, review, submitted)
    PROVE  WithSettlement(r, st2, se2)
               = LifecycleRecord(st2, se2, hours, acceptance, review, submitted)
<1> DEFINE moved == [r EXCEPT !.state = st2]
<1>1. moved = LifecycleRecord(st2, se, hours, acceptance, review, submitted)
  BY DEF LifecycleRecord
<1> HIDE DEF moved
<1>2. [moved EXCEPT !.settlement = se2]
          = LifecycleRecord(st2, se2, hours, acceptance, review, submitted)
  BY <1>1 DEF LifecycleRecord
<1> QED BY <1>2, Zenon DEF moved, WithSettlement

LEMMA SubmissionMoves ==
    ASSUME NEW st, NEW se, NEW hours, NEW acceptance, NEW review, NEW submitted,
           NEW st2, NEW review2, NEW submitted2, NEW r,
           r = LifecycleRecord(st, se, hours, acceptance, review, submitted)
    PROVE  WithSubmission(r, st2, submitted2, review2)
               = LifecycleRecord(st2, se, hours, acceptance, review2, submitted2)
<1> DEFINE moved == [r EXCEPT !.state = st2]
           handed == [moved EXCEPT !.submittedAt = submitted2]
<1>1. moved = LifecycleRecord(st2, se, hours, acceptance, review, submitted)
  BY DEF LifecycleRecord
<1>2. handed = LifecycleRecord(st2, se, hours, acceptance, review, submitted2)
  <2> HIDE DEF moved
  <2> QED BY <1>1 DEF LifecycleRecord
<1> HIDE DEF handed
<1>3. [handed EXCEPT !.reviewDeadline = review2]
          = LifecycleRecord(st2, se, hours, acceptance, review2, submitted2)
  BY <1>2 DEF LifecycleRecord
<1> QED BY <1>3, Zenon DEF handed, moved, WithSubmission

(* What _payProvider and _refundBuyer do to the job. *)
JobSettles(id, st, se) == jobs' = [jobs EXCEPT ![id].status = st, ![id].settlement = se]

LEMMA LifecycleShown ==
    ASSUME NEW id \in DOMAIN jobs, jobs[id] \in Job
    PROVE  /\ LifecycleOf(id) =
                 LifecycleRecord(StateName[jobs[id].status], SettlementName[jobs[id].settlement],
                                 jobs[id].reviewHours, jobs[id].acceptanceDeadline,
                                 jobs[id].reviewDeadline, jobs[id].submittedAt)
           /\ LifecycleOf(id) # [state |-> "none"]
<1>1. LifecycleOf(id) =
          LifecycleRecord(StateName[jobs[id].status], SettlementName[jobs[id].settlement],
                          jobs[id].reviewHours, jobs[id].acceptanceDeadline,
                          jobs[id].reviewDeadline, jobs[id].submittedAt)
  BY Zenon DEF LifecycleOf, LifecycleRecord
<1>2. StateName[jobs[id].status] # "none"
  BY DEF StateName, Job, Status
<1> QED BY <1>1, <1>2 DEF LifecycleRecord

(* A job that becomes j shows j's life cycle. *)
LEMMA LifecycleBecomes ==
    ASSUME NEW id \in DOMAIN jobs', NEW j, jobs'[id] = j
    PROVE  LifecycleOf(id)' =
               LifecycleRecord(StateName[j.status], SettlementName[j.settlement], j.reviewHours,
                               j.acceptanceDeadline, j.reviewDeadline, j.submittedAt)
BY Zenon DEF LifecycleOf, LifecycleRecord

LEMMA JobFollowsLifecycle ==
    ASSUME IInv, NEW id \in DOMAIN jobs, JobStep(id)
    PROVE  Lifecycle(id)!LifecycleNext
<1> DEFINE Takes(action, actor) == Lifecycle(id)!transitionAgonJobLifecycle(action, actor)
           Shown(st, se, review, submitted) ==
               LifecycleRecord(st, se, jobs[id].reviewHours, jobs[id].acceptanceDeadline,
                               review, submitted)
           Unsettled(st) == Shown(st, "none", jobs[id].reviewDeadline, jobs[id].submittedAt)
<1>0. /\ jobs \in Seq(Job) /\ jobs[id] \in Job /\ DOMAIN jobs' = DOMAIN jobs
      /\ jobs[id].status \notin {"Complete", "Failed"} => jobs[id].settlement = "None"
  BY JobsFacts, JobFollowsEdge DEF IInv, JobEscrowTypeOK, StatusMatchesSettlement
<1>1. LifecycleOf(id) # [state |-> "none"]
  BY <1>0, LifecycleShown
<1>2. ASSUME NEW action \in Lifecycle(id)!AgonJobAction, NEW actor \in Lifecycle(id)!AgonJobActor,
             Takes(action, actor)
      PROVE  Lifecycle(id)!LifecycleNext
  BY <1>1, <1>2, Zenon DEF Lifecycle!LifecycleNext, Lifecycle!NoJob
<1>3. ASSUME NEW st \in Status, jobs[id].status = st, jobs[id].settlement = "None"
      PROVE  LifecycleOf(id) = Unsettled(StateName[st])
  BY <1>0, <1>3, LifecycleShown DEF SettlementName
<1>4. ASSUME NEW j, jobs'[id] = j, j.reviewHours = jobs[id].reviewHours,
             j.acceptanceDeadline = jobs[id].acceptanceDeadline
      PROVE  LifecycleOf(id)' = Shown(StateName[j.status], SettlementName[j.settlement],
                                      j.reviewDeadline, j.submittedAt)
  BY <1>0, <1>4, LifecycleBecomes
(* A change of status alone. *)
<1>5. ASSUME NEW from \in Status, NEW to \in Status, jobs[id].status = from,
             jobs[id].settlement = "None", jobs' = [jobs EXCEPT ![id].status = to]
      PROVE  /\ LifecycleOf(id).state = StateName[from]
             /\ LifecycleOf(id)' = WithState(LifecycleOf(id), StateName[to])
  <2>1. LifecycleOf(id) = Unsettled(StateName[from])
    BY <1>3, <1>5
  <2>2. LifecycleOf(id)' = Unsettled(StateName[to])
    <3> DEFINE j == [jobs[id] EXCEPT !.status = to]
    <3>1. /\ j.status = to /\ j.settlement = "None" /\ j.reviewHours = jobs[id].reviewHours
          /\ j.acceptanceDeadline = jobs[id].acceptanceDeadline
          /\ j.reviewDeadline = jobs[id].reviewDeadline
          /\ j.submittedAt = jobs[id].submittedAt
      BY <1>0, <1>5 DEF Job
    <3>2. jobs'[id] = j /\ SettlementName["None"] = "none"
      BY <1>0, <1>5 DEF SettlementName
    <3> HIDE DEF j
    <3> QED BY <1>4, <3>1, <3>2
  <2>3. WithState(LifecycleOf(id), StateName[to]) = Unsettled(StateName[to])
    BY <2>1, StateMoves
  <2>4. LifecycleOf(id).state = StateName[from]
    BY <2>1 DEF LifecycleRecord
  <2> QED BY <2>2, <2>3, <2>4
(* A change of status and settlement. *)
<1>6. ASSUME NEW from \in Status, NEW to \in Status, NEW se \in Settlement,
             jobs[id].status = from, jobs[id].settlement = "None",
             JobSettles(id, to, se)
      PROVE  /\ LifecycleOf(id).state = StateName[from]
             /\ LifecycleOf(id)'
                    = WithSettlement(LifecycleOf(id), StateName[to], SettlementName[se])
  <2>1. LifecycleOf(id) = Unsettled(StateName[from])
    BY <1>3, <1>6
  <2>2. LifecycleOf(id)' = Shown(StateName[to], SettlementName[se], jobs[id].reviewDeadline,
                                 jobs[id].submittedAt)
    <3> DEFINE j == jobs'[id]
    <3>1. /\ j.status = to /\ j.settlement = se /\ j.reviewHours = jobs[id].reviewHours
          /\ j.acceptanceDeadline = jobs[id].acceptanceDeadline
          /\ j.reviewDeadline = jobs[id].reviewDeadline
          /\ j.submittedAt = jobs[id].submittedAt
      BY <1>0, <1>6 DEF Job, JobSettles
    <3>2. jobs'[id] = j
      OBVIOUS
    <3> HIDE DEF j
    <3> QED BY <1>4, <3>1, <3>2
  <2>3. WithSettlement(LifecycleOf(id), StateName[to], SettlementName[se])
            = Shown(StateName[to], SettlementName[se], jobs[id].reviewDeadline,
                    jobs[id].submittedAt)
    BY <2>1, SettlementMoves
  <2>4. LifecycleOf(id).state = StateName[from]
    BY <2>1 DEF LifecycleRecord
  <2> QED BY <2>2, <2>3, <2>4
(* The actions. *)
<1>7. ASSUME NEW s \in Accounts, acceptJob(s, id) PROVE Takes("accept", "provider")
  <2>1. /\ LifecycleOf(id).state = "created"
        /\ LifecycleOf(id)' = WithState(LifecycleOf(id), "accepted")
    BY <1>0, <1>5, <1>7 DEF acceptJob, StateName, Status
  <2>2. now <= LifecycleOf(id).acceptanceDeadline
    BY <1>0, <1>7, LifecycleShown DEF acceptJob, LifecycleRecord
  <2> QED BY <2>1, <2>2, Zenon DEF Lifecycle!transitionAgonJobLifecycle, Lifecycle!Goes, WithState
<1>8. ASSUME NEW s \in Accounts, rejectSubmission(s, id) PROVE Takes("reject", "buyer")
  <2>1. /\ LifecycleOf(id).state = "submitted"
        /\ LifecycleOf(id)' = WithState(LifecycleOf(id), "rejected")
    BY <1>0, <1>5, <1>8 DEF rejectSubmission, StateName, Status
  <2>2. now <= LifecycleOf(id).reviewDeadline
    BY <1>0, <1>8, LifecycleShown DEF rejectSubmission, LifecycleRecord
  <2> QED BY <2>1, <2>2, Zenon DEF Lifecycle!transitionAgonJobLifecycle, Lifecycle!Goes, WithState
<1>9. ASSUME NEW s \in Accounts, openDispute(s, id) PROVE Takes("dispute", "buyer")
  <2>1. /\ LifecycleOf(id).state = "rejected"
        /\ LifecycleOf(id)' = WithState(LifecycleOf(id), "disputed")
    BY <1>0, <1>5, <1>9 DEF openDispute, StateName, Status
  <2> QED BY <2>1, Zenon DEF Lifecycle!transitionAgonJobLifecycle, Lifecycle!Goes, WithState
<1>10. ASSUME NEW s \in Accounts, submitJob(s, id) PROVE Takes("submit", "provider")
  <2> DEFINE due == now + jobs[id].reviewHours
             j == [jobs[id] EXCEPT !.submittedAt = now, !.reviewDeadline = due,
                                   !.status = "Submitted"]
  <2>1. /\ jobs[id].status = "Accepted" /\ jobs[id].settlement = "None"
        /\ now <= jobs[id].acceptanceDeadline
    BY <1>0, <1>10 DEF submitJob
  <2>2. LifecycleOf(id) = Unsettled("accepted")
    <3>1. StateName["Accepted"] = "accepted" /\ "Accepted" \in Status
      BY DEF StateName, Status
    <3> QED BY <1>3, <2>1, <3>1
  <2>3. jobs'[id] = j
    BY <1>0, <1>10 DEF submitJob
  <2>4. /\ j.status = "Submitted" /\ j.settlement = "None" /\ j.submittedAt = now
        /\ j.reviewDeadline = due /\ j.reviewHours = jobs[id].reviewHours
        /\ j.acceptanceDeadline = jobs[id].acceptanceDeadline
    BY <1>0, <2>1 DEF Job
  <2>5. LifecycleOf(id)' = Shown("submitted", "none", due, now)
    <3>1. StateName["Submitted"] = "submitted" /\ SettlementName["None"] = "none"
      BY DEF StateName, SettlementName
    <3> HIDE DEF j, due
    <3> QED BY <1>4, <2>3, <2>4, <3>1
  <2>6. LifecycleOf(id)' = WithSubmission(LifecycleOf(id), "submitted", now, due)
    <3> HIDE DEF due
    <3> QED BY <2>2, <2>5, SubmissionMoves
  <2>7. /\ LifecycleOf(id).state = "accepted" /\ now <= LifecycleOf(id).acceptanceDeadline
        /\ LifecycleOf(id).reviewHours = jobs[id].reviewHours
    BY <2>1, <2>2 DEF LifecycleRecord
  <2>8. LifecycleOf(id)' = WithSubmission(LifecycleOf(id), "submitted", now,
                                          now + LifecycleOf(id).reviewHours)
    BY <2>6, <2>7, Zenon
  <2> QED BY <2>7, <2>8, Zenon DEF Lifecycle!transitionAgonJobLifecycle, WithSubmission
(* The settlements. *)
<1>11. ASSUME _payProvider(id), jobs[id].settlement = "None"
       PROVE  LifecycleOf(id)' = WithSettlement(LifecycleOf(id), "complete", "provider_paid")
  <2>1. JobSettles(id, "Complete", "ProviderPaid")
    BY <1>11, Zenon DEF _payProvider, JobSettles
  <2>2. /\ jobs[id].status \in Status /\ "Complete" \in Status /\ "ProviderPaid" \in Settlement
        /\ StateName["Complete"] = "complete"
        /\ SettlementName["ProviderPaid"] = "provider_paid"
    BY <1>0 DEF Job, Status, Settlement, StateName, SettlementName
  <2> QED BY <1>6, <1>11, <2>1, <2>2
<1>12. ASSUME _refundBuyer(id), jobs[id].settlement = "None"
       PROVE  LifecycleOf(id)' = WithSettlement(LifecycleOf(id), "failed", "buyer_refunded")
  <2>1. JobSettles(id, "Failed", "BuyerRefunded")
    BY <1>12, Zenon DEF _refundBuyer, JobSettles
  <2>2. /\ jobs[id].status \in Status /\ "Failed" \in Status /\ "BuyerRefunded" \in Settlement
        /\ StateName["Failed"] = "failed" /\ SettlementName["BuyerRefunded"] = "buyer_refunded"
    BY <1>0 DEF Job, Status, Settlement, StateName, SettlementName
  <2> QED BY <1>6, <1>12, <2>1, <2>2
<1>13. /\ LifecycleOf(id).state = StateName[jobs[id].status]
       /\ LifecycleOf(id).acceptanceDeadline = jobs[id].acceptanceDeadline
       /\ LifecycleOf(id).reviewDeadline = jobs[id].reviewDeadline
  BY <1>0, LifecycleShown DEF LifecycleRecord
<1>14. /\ StateName["Created"] = "created" /\ StateName["Accepted"] = "accepted"
       /\ StateName["Submitted"] = "submitted" /\ StateName["Disputed"] = "disputed"
  BY DEF StateName
<1>15. ASSUME NEW s \in Accounts, acceptSubmission(s, id)
       PROVE  Takes("accept_submission", "buyer")
  BY <1>0, <1>11, <1>13, <1>14, <1>15, Zenon
     DEF acceptSubmission, Lifecycle!transitionAgonJobLifecycle, Lifecycle!Settles, WithSettlement
<1>16. ASSUME autoAccept(id) PROVE Takes("auto_accept", "public")
  BY <1>0, <1>11, <1>13, <1>14, <1>16, Zenon
     DEF autoAccept, Lifecycle!transitionAgonJobLifecycle, Lifecycle!Settles, WithSettlement
<1>17. ASSUME NEW s \in Accounts, failJob(s, id) PROVE Takes("fail", "buyer")
  BY <1>0, <1>12, <1>13, <1>14, <1>17, Zenon
     DEF failJob, Lifecycle!transitionAgonJobLifecycle, Lifecycle!Settles, WithSettlement
<1>18. ASSUME resolveDispute(id, TRUE) PROVE Takes("resolve_pay", "resolver")
  BY <1>0, <1>11, <1>13, <1>14, <1>18, Zenon
     DEF resolveDispute, Lifecycle!transitionAgonJobLifecycle, Lifecycle!Settles, WithSettlement
<1>19. ASSUME resolveDispute(id, FALSE) PROVE Takes("resolve_refund", "resolver")
  BY <1>0, <1>12, <1>13, <1>14, <1>19, Zenon
     DEF resolveDispute, Lifecycle!transitionAgonJobLifecycle, Lifecycle!Settles, WithSettlement
<1> HIDE DEF Takes
<1>20. \E action \in Lifecycle(id)!AgonJobAction, actor \in Lifecycle(id)!AgonJobActor :
           Takes(action, actor)
  BY <1>7, <1>8, <1>9, <1>10, <1>15, <1>16, <1>17, <1>18, <1>19, Zenon
     DEF JobStep, Settle, Lifecycle!AgonJobAction, Lifecycle!AgonJobActor
<1> QED BY <1>2, <1>20, Zenon

LEMMA CreationFollowsLifecycle ==
    ASSUME IInv, NEW b \in Accounts, NEW r \in References, NEW lid \in DOMAIN listings,
           NEW amount \in Amounts, NEW h \in ReviewHours, createJob(b, r, lid, amount, h),
           NEW new, new = Len(jobs) + 1
    PROVE  /\ Lifecycle(new)!LifecycleNext
           /\ \A id \in 1..MaxJobs \ {new} : UNCHANGED LifecycleOf(id)
<1> DEFINE hours == IF h = 0 THEN defaultReviewHours ELSE h
           j == NewJob(b, listings[lid], lid, amount, hours)
<1>1. jobs' = Append(jobs, j) /\ hours \in MIN_REVIEW_HOURS..MAX_REVIEW_HOURS
  BY DEF createJob, _validateReviewHours
<1>2. /\ j.status = "Created" /\ j.settlement = "None" /\ j.reviewHours = hours
      /\ j.acceptanceDeadline = now + hours /\ j.reviewDeadline = 0 /\ j.submittedAt = 0
  BY DEF NewJob
<1> HIDE DEF j, hours
<1>3. /\ new \in DOMAIN jobs' /\ jobs'[new] = j /\ new \notin DOMAIN jobs
      /\ DOMAIN jobs' = DOMAIN jobs \cup {new}
      /\ \A id \in DOMAIN jobs : jobs'[id] = jobs[id]
  BY <1>1, JobsFacts DEF IInv, JobEscrowTypeOK
<1>4. LifecycleOf(new) = [state |-> "none"]
  BY <1>3, Zenon DEF LifecycleOf
<1>5. LifecycleOf(new)' = LifecycleRecord("created", "none", hours, now + hours, 0, 0)
  <2>1. StateName["Created"] = "created" /\ SettlementName["None"] = "none"
    BY DEF StateName, SettlementName
  <2>2. LifecycleOf(new)' =
            LifecycleRecord(StateName[j.status], SettlementName[j.settlement], j.reviewHours,
                            j.acceptanceDeadline, j.reviewDeadline, j.submittedAt)
    BY <1>3, LifecycleBecomes
  <2> QED BY <1>2, <2>1, <2>2
<1>6. Lifecycle(new)!LifecycleNext
  <2>1. Lifecycle(new)!createAgonJobLifecycle(hours)
    BY <1>1, <1>4, <1>5, Zenon
       DEF Lifecycle!createAgonJobLifecycle, Lifecycle!NoJob, LifecycleRecord
  <2> QED BY <1>1, <2>1, Zenon DEF Lifecycle!LifecycleNext
<1>7. ASSUME NEW id \in 1..MaxJobs \ {new} PROVE UNCHANGED LifecycleOf(id)
  BY <1>3, <1>7, Zenon DEF LifecycleOf
<1> QED BY <1>6, <1>7

(* Every job of the contract goes through the backend's life cycle.        *)
THEOREM EscrowImplementsLifecycle == Spec => ImplementsLifecycle
<1>1. Init => \A id \in 1..MaxJobs : Lifecycle(id)!LifecycleInit
  BY DEF Init, LifecycleOf, Lifecycle!LifecycleInit, Lifecycle!NoJob
<1>2. IInv /\ [Next]_vars => [jobs' = jobs \/ \A id \in 1..MaxJobs : LifecycleStep(id)]_vars
  <2> SUFFICES ASSUME IInv, [Next]_vars, jobs' # jobs, NEW id \in 1..MaxJobs
               PROVE  LifecycleStep(id)
    OBVIOUS
  <2>1. ASSUME NEW b \in Accounts, NEW r \in References, NEW lid \in DOMAIN listings,
               NEW amount \in Amounts, NEW h \in ReviewHours, createJob(b, r, lid, amount, h)
        PROVE  LifecycleStep(id)
    BY <2>1, CreationFollowsLifecycle, Zenon DEF LifecycleStep
  <2>2. ASSUME NEW k \in DOMAIN jobs, JobStep(k) PROVE LifecycleStep(id)
    <3>1. CASE id = k
      BY <2>2, <3>1, JobFollowsLifecycle, Zenon DEF LifecycleStep
    <3>2. CASE id # k
      BY <2>2, <3>2, JobFollowsEdge, Zenon DEF LifecycleStep, LifecycleOf
    <3> QED BY <3>1, <3>2
  <2> QED BY <2>1, <2>2
          DEF Next, Governance, Environment, pause, unpause, setTreasury, vars, jobVars
<1> QED BY <1>1, <1>2, Invariance, PTL DEF Spec, ImplementsLifecycle
-----------------------------------------------------------------------------
(* The notice the fee timelock gives, for every delay, cap, set of rates   *)
(* and horizon.                                                            *)

LEMMA QuoteInitIInv == QuoteInit => QuoteIInv
BY FeeAssumption, HorizonAssumption
   DEF QuoteInit, QuoteIInv, QuoteTypeOK, FeeInit, FeeTypeOK, TimeInit, TimeTypeOK,
       PendingLeavesNotice, QuoteHolds, _validateProtocolFee

LEMMA QuoteStepIInv == QuoteIInv /\ [QuoteNext]_quoteVars => QuoteIInv'
<1> SUFFICES ASSUME QuoteIInv, [QuoteNext]_quoteVars PROVE QuoteIInv'
  OBVIOUS
<1> USE FeeAssumption, HorizonAssumption
    DEF QuoteIInv, QuoteTypeOK, FeeTypeOK, TimeTypeOK, PendingLeavesNotice, QuoteHolds, feeVars
<1>1. CASE ReadFee
  BY <1>1 DEF ReadFee
<1>2. ASSUME NEW bps \in FeeChoices, scheduleProtocolFeeChange(bps), UNCHANGED <<now, quote>>
      PROVE  QuoteIInv'
  BY <1>2 DEF scheduleProtocolFeeChange, _validateProtocolFee
<1>3. CASE applyProtocolFeeChange /\ UNCHANGED <<now, quote>>
  BY <1>3 DEF applyProtocolFeeChange
<1>4. CASE cancelProtocolFeeChange /\ UNCHANGED <<now, quote>>
  BY <1>4 DEF cancelProtocolFeeChange
<1>5. CASE Tick /\ UNCHANGED <<feeVars, quote>>
  BY <1>5 DEF Tick
<1>6. CASE UNCHANGED quoteVars
  BY <1>6 DEF quoteVars
<1> QED BY <1>1, <1>2, <1>3, <1>4, <1>5, <1>6 DEF QuoteNext, FeeNext

(* Every variable of the fee timelock keeps its type; in particular the    *)
(* rate and the pending rate never exceed MAX_PROTOCOL_FEE_BPS.            *)
THEOREM QuoteTypeCorrect == QuoteSpec => []QuoteTypeOK
<1>1. QuoteIInv => QuoteTypeOK
  BY DEF QuoteIInv
<1> QED BY <1>1, QuoteInitIInv, QuoteStepIInv, PTL DEF QuoteSpec

(* A rate read while no change was pending is the rate charged for one     *)
(* whole delay after the reading.                                          *)
THEOREM QuoteHeldForDelay == QuoteSpec => []QuoteHolds
<1>1. QuoteIInv => QuoteHolds
  BY DEF QuoteIInv
<1> QED BY <1>1, QuoteInitIInv, QuoteStepIInv, PTL DEF QuoteSpec
=============================================================================
